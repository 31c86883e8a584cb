\* One founder and two more people, two requests at a time, a cap of two.
CONSTANTS
    ann = ann
    bob = bob
    eve = eve
    User = {ann, bob, eve}
    Founder = {ann}
    Request = {r1, r2}
    MaxSuperAdmins = 2
    Nobody = Nobody
    Ops <- MCOps
    UserPermission <- MCUserPermission
    RolePermission <- MCRolePermission
SPECIFICATION Spec
SYMMETRY Alike
INVARIANTS
    TypeOK
    CapWithinOverlap
    OneProvisioning
PROPERTIES
    NoDemotion
    ParticipantsStay
    RevokedStaysRevoked

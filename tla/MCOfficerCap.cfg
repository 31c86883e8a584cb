\* Two promotions at a time, a cap of two: the documented cap.
CONSTANTS
    ann = ann
    bob = bob
    eve = eve
    User = {ann, bob, eve}
    Founder = {ann}
    Request = {r1, r2}
    MaxSuperAdmins = 2
    Nobody = Nobody
    Ops <- MCPromotions
    UserPermission <- MCUserPermission
    RolePermission <- MCRolePermission
SPECIFICATION Spec
INVARIANTS
    CapHolds

\* One tenant, two keys, two requests at a time, two changes or restarts.
CONSTANTS
    Tenant = {t1}
    Kid = {k1, k2}
    Request = {r1, r2}
    TTL = 2
    MaxLate = 1
    MaxChanges = 2
    None = None
SPECIFICATION Spec
SYMMETRY Alike
INVARIANTS
    TypeOK
    RefusalsAreCurrent
    WithdrawnKeysExpire
    ServedWasActive

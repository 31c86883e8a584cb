\* A tenant that is suspended after its first request.
CONSTANTS
    Tenant = {t1}
    Kid = {k1, k2}
    Request = {r1, r2}
    TTL = 2
    MaxLate = 1
    MaxChanges = 2
    None = None
SPECIFICATION Spec
SYMMETRY Alike
PROPERTY SuspendedIsRefused

\* Two concurrent requests, one worker slot, one rotation; or two events and
\* one POST at a time, which makes events wait for it.
CONSTANTS
    Request = {r1, r2}
    Slot = {w1}
    Api = Api
    NoPool = NoPool
    NoSession = NoSession
    MaxRotations = 1
    Event = {e1, e2}
    Handler = {h1}
    Window = 1
    MaxBatch = 2
    MaxCrashes = 1
SPECIFICATION RecoverySpec
INVARIANTS
    TypeOK
    OnePool
    FastPathSafe
PROPERTIES
    SlotsRecover
    EveryEventIsHandled

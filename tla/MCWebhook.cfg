\* Two events, two concurrent POSTs of up to two items, one restart.
CONSTANTS
    Event = {e1, e2}
    Handler = {h1, h2}
    Window = 2
    MaxBatch = 2
    MaxCrashes = 1
SPECIFICATION Spec
SYMMETRY Alike
INVARIANTS
    TypeOK
    AnsweredIsAccounted
    OncePerWindow

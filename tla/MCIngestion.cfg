\* A notification and two manual requests for one meeting, racing.
CONSTANTS
    m1 = m1
    Meeting = {m1}
    Task = {t1}
    Request = {r1, r2}
    Script = {}
    Person = {p1}
    NoJob = NoJob
    MaxRetries = 1
    MaxVersion = 2
    Target <- MCTarget
SPECIFICATION Spec
SYMMETRY Alike
INVARIANTS
    TypeOK
    OneWriter
    ReadyIsCoherent
    IndexIsOneVersion
    ChargesAreEarned
PROPERTIES
    ImplementsStore
    ChargedWithIndex

\* A notification and a rechunk of one meeting, racing.
CONSTANTS
    m1 = m1
    Meeting = {m1}
    Task = {t1}
    Request = {}
    Script = {s1}
    Person = {p1}
    NoJob = NoJob
    MaxRetries = 1
    MaxVersion = 2
    Target <- MCTarget
SPECIFICATION Spec
INVARIANTS
    ReadyIsCoherent

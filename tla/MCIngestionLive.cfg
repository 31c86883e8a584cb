\* The same jobs under fairness, with one transcript: liveness.
CONSTANTS
    m1 = m1
    Meeting = {m1}
    Task = {t1}
    Request = {r1}
    Script = {s1}
    Person = {p1}
    NoJob = NoJob
    MaxRetries = 1
    MaxVersion = 1
    Target <- MCTarget
SPECIFICATION FairSpec
PROPERTIES
    JobsEnd

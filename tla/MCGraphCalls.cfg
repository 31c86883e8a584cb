\* Two calls at a time, up to two attempts, and two subscriptions.
CONSTANTS
    Call = {c1, c2}
    MAX_RETRIES = 2
    Reads = {"user"}
    Life = 1
    MaxMade = 2
SPECIFICATION FairSpec
INVARIANTS
    TypeOK
    AnswersAreTrue
    FailuresHaveNoEffect
PROPERTY CallsEnd

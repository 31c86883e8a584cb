\* One turn of a user without any meeting: the documented rule of access.
CONSTANTS
    Meeting <- MCMeeting
    Recent = {1, 2, 3}
    Indexed = {2, 3}
    Digested = {2}
    MaxMeetings = 2
    MaxCompared = 15
    Turn = {t1}
    Answers <- MCDecisions
    TurnWindow = 1
    HistoryTurns = 1
    Kinds = {"all", "granted"}
    Selections <- MCSelections
    Roles <- MCNewcomer
    MaxTurns = 1
    MaxChanges = 0
SPECIFICATION Spec
INVARIANTS
    AnswersWithinAccess
CHECK_DEADLOCK FALSE

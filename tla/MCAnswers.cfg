\* Two turns at a time of one session, three meetings, a cap of two; or two
\* lists of five chunks, a transcript of four blocks, three participants.
CONSTANTS
    Meeting <- MCMeeting
    Recent = {1, 2, 3}
    Indexed = {2, 3}
    Digested = {2}
    MaxMeetings = 2
    MaxCompared = 15
    Turn = {t1, t2}
    Answers <- MCDecisions
    TurnWindow = 1
    HistoryTurns = 1
    Kinds = {"all", "granted"}
    Selections <- MCSelections
    Roles <- MCRoles
    MaxTurns = 3
    MaxChanges = 1
    c1 = c1 c2 = c2 c3 = c3 c4 = c4 c5 = c5
    m1 = m1 m2 = m2 m3 = m3
    ann = ann anne = anne lee = lee may = may
    annlee = annlee
    mail1 = mail1 mail2 = mail2 box = box
    Chunk = {c1, c2, c3, c4, c5}
    MeetingOf <- MCMeetingOf
    RrfK = 60
    Unit = 238266
    TopK = 3
    Multiplier = 1
    MaxSources = 2
    MERGE_GAP = 1
    MAX_UTTERANCES = 3
    MAX_SPAN = 6
    MAX_WORDS = 6
    SOFT_MIN_UTTERANCES = 2
    SOFT_MIN_SPAN = 2
    PAUSE_GAP = 2
    SEC = 2
    Speaker = {"A", "B"}
    Text <- MCText
    Untagged = "untagged"
    Unknown = "Unknown"
    Gaps <- MCGaps
    Lengths = {2}
    MaxBlocks = 4
    Near <- MCNear
    NoMail = NoMail
    Person = {p1, p2, p3}
    FullName <- MCFullName
    Mail = {mail1, mail2}
    Local <- MCLocal
SPECIFICATION AnswersSpec
SYMMETRY Alike
\* Calls end when their input is complete.
CHECK_DEADLOCK FALSE
INVARIANTS
    TypeOK
    StraysOnlyUnscoped
    PendingIsTakenOnce
    NoClarifyLoop
    ExpansionIsDisclosed
    FusionIsFaithful
    RetrievalIsDiverse
    NothingSaidIsLost
    LabelsAreUnambiguous
    RepliesAreUnambiguous

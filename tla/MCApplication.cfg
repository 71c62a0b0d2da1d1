SPECIFICATION SuiteSpec
CONSTANTS
    t1 = t1
    t2 = t2
    Off = Off
    Threads = {t1, t2}
    Operations = {"suspend", "resume", "grant", "recover", "prepare", "publish", "foreign"}
    Ttl = 2
    GrantExpiry = 1
    MaxTime = 2
    MaxEpoch = 1
    MaxSerial = 3
    MaxProposals = 2
    Relogins = {}
    ClockCanRetreat = TRUE
    Callers = {t1, t2}
    Sessions <- ApprovalSessions
    Reviews = {"r"}
    ProjectOf <- ReviewProject
    Intents = {"adopt"}
    ApprovalTtl = 1
    MaxWall = 1
    MaxMono = 1
    MaxIssued = 2
    MaxChanges = 3
    NoClock = NoClock
    NoWork = NoWork
    Workers = {t1, t2}
    CreatorSessions = {"s1", "s2", "s3"}
    Starts <- DeskStarts
    MAX_CONFIRMATIONS = 2
    MAX_STAGED_IMPORTS = 1
    MaxIds = 2
    MaxCalls = 4
    MaxForeign = 1
    MaxRestarts = 1
    None = None
    Requests <- AllRequests
    KindOf <- KindOfRequest
    ProjectGate <- ProjectOfRequest
    Crowds <- RequestCrowds
    MaxUploads = 2
    MaxBlocking = 2
    MaxPerProject = 1
    Files = {"f"}
    Texts = {"t"}
    MaxFile = 2
    MaxAggregate = 2
    MaxChunk = 2
    MaxActive = 2
    MaxEntries = 2
    MaxClock = 1
    NoTime = NoTime
    Nobody = Nobody
INVARIANTS
    PublicationsAreSound
    ApprovalsAreSound
    AnswersStayTrue
    ServerLimitsHold
    AcceptedIsPollable
    RoutesAgree
    GrantsAreKept
PROPERTIES
    PublishesOnlyWhileAuthorized
    ReusedIsNeverDecided
SYMMETRY Symmetry

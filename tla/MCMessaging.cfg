INIT MCInit
NEXT MCNext
CONSTANTS
    Messages = {m1, m2, m3}
    Window = 2
    MaxEntries = 2
    MaxTime = 2
    MaxStarts = 2
    Handlers = {h1, h2}
    ChannelOf <- OneChannel
    MaxEditFailures = 1
    MaxChunks = 2
    MaxTools = 1
    MaxEdits = 2
    Clients = {c1, c2}
    AuthToken = TRUE
    PongTimeout = 2
    MaxBeats = 4
    Rooms = {r1, r2}
    Notices = {t1, t2}
    RateLimit = 1
    RateWindow = 2
    MaxClock = 3
    MaxCalls = 2
    Jobs = {j1}
    Gates <- GateOrder
    MaxSignals = 2
    MaxQueue = 2
    MaxFires = 3
    LineKinds <- Lines
    MaxLines = 4
    MAX_CHARS = 8
    MAX_LINES = 3
    FenceLength = 3
    Callers = {x1, x2}
    Providers = {1, 2}
    MaxFailures = 1
    Cooldown = 2
    MaxInstant = 2
    KeyCount = 2
    ApiErrors <- Errors
    Waits = {0, 2}
    KeyCooldown = 2
    Retries = 1
    Baseline = 1
    BumpStep = 2
    Ceiling = 2
    BumpAfterHits = 2
    MaxNow = 3
    MaxRefusals = 3
    MaxRetries = 1
    MaxOutput = 2
    Sessions = {s1, s2}
    Prompts = {1, 2}
    Calls = {1, 2}
    Contents = {"short", "long"}
    Size <- ResultSize
    LiveSize = 1
    Worth = 2
    Thresholds <- Levels
    HeadCount = 2
    MinTail = 3
    TailBudget = 5
    EmergencyBudget = 7
    TrimBudget = 8
    MinKeep = 3
    MaxMerged = 2
    MaxAttempts = 2
    MaxRounds = 1
    Sentences = {"A"}
    Others = {"<", "tag>", "/tag>", "b>", "fence", "dsml"}
    MaxPieces = 4
    CascadeMin = 4
    NgramHits = 3
    NgramMin = 3
    ShortHits = 2
    Preamble = 4
    RecentWindow = 2
    WarnAt = 1
    AbortAt = 2
    KillAt = 3
SYMMETRY Symmetry
INVARIANTS
    ReplySound
    LivingClientKept
    Quota
    LockCoversWork
    TextKept
    KeysRotate
    NoOrphan
    RequestSound
    TextAccounted
PROPERTIES
    HandledOnce
    CooldownKept
CHECK_DEADLOCK FALSE

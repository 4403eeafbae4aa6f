INIT MCInit
NEXT MCNext
CONSTANTS
    Spawns = {s1}
    MaxPhaseRetries = 1
    MaxAgentTries = 2
    Updates = {u1, u2}
    Texts = {t1, t2}
    NoText = NoText
    MaxMtime = 1
    MaxReads = 1
    Files = {f1, f2}
    FileTexts = {x1, x2}
    MaxCommits = 3
    MaxFileCount = 1
    Posts = {p1, p2}
    ImagesOf <- Two
    MaxImages = 1
    Workers = {w1, w2}
    MaxMillis = 1
    Threshold = 2
    Window = 1
    MaxRecent = 1
    MaxEvents = 4
    MaxTicks = 2
    DayLength = 2
    Calls = {c1, c2}
    Harmless = b1
    Critical = b2
    Bodies = {b1, b2}
    Extras = {x1}
    WorstFinding <- Findings
    Authors = {"agent"}
    None = None
    Releases = 3
    UserTexts = {t1, t2}
    Absent = Absent
    Runs = {r1, r2, r3, r4}
    SkillNames = {"a", "b"}
    Alike <- OnePair
    MaxFailures = 2
    Notes = {"MEMORY"}
    Stem <- NoteStems
    Traces <- SomeTraces
    Endings <- SomeEndings
    Keywords = {"fix"}
    Extracts <- SomeExtracts
    Ended = {e1, e2}
    Forged <- MadeUp
    Day = 2
    MaxMoment = 2
    MaxSaves = 3
    MaxReflectFailures = 1
SYMMETRY Symmetry
INVARIANTS
    PipelineSound
    OcrSound
    MonitorSound
    OneExtraction
    MemorySound
PROPERTIES
    SeenBeforeReplaced
    EditSparesUser
    RestoreUndoable
    UserWins
CHECK_DEADLOCK FALSE

CONSTANTS
    Channels = {c1, c2}
    Clearable = {c1, c2}
    Resumable = {c1}
    Msgs = {m1, m2}
    MaxObjs = 3
    MaxRestarts = 1
    MaxTurns = 2
    MaxHistory = 4
    MaxRetries = 1
    MemoryKept = TRUE
SPECIFICATION FairSpec
INVARIANTS NoSnapshotLeak AnsweredSessionIsDurable ReplyFollowsPrompt
PROPERTIES EvictionSparesTurns EveryMessageSettles
CHECK_DEADLOCK FALSE

CONSTANTS
    Channels = {c1}
    Clearable = {c1}
    Resumable = {c1}
    Msgs = {m1, m2}
    MaxObjs = 3
    MaxRestarts = 1
    MaxTurns = 2
    MaxHistory = 4
    MaxRetries = 1
    MemoryKept = TRUE
SPECIFICATION Spec
PROPERTIES ShutdownKeepsMap
CHECK_DEADLOCK FALSE

SPECIFICATION FairSpec
CONSTANTS
    Procs = {bot}
    Holders = {bot}
    RequireGate = TRUE
    Entries = {e1}
    MaxTasks = 2
    MaxBoots = 3
    MaxSlot = 1
    CompactAt = 3
    MaxConcurrent = 1
    MaxPerHour = 1
INVARIANTS Recoverable OnceUnlessTorn CronOnce
PROPERTIES PendingRuns
CHECK_DEADLOCK FALSE

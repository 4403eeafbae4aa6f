SPECIFICATION Spec
CONSTANTS
    Procs = {bot, cli}
    Holders = {bot}
    RequireGate = TRUE
    Entries = {e1}
    MaxTasks = 2
    MaxBoots = 2
    MaxSlot = 1
    CompactAt = 3
    MaxConcurrent = 1
    MaxPerHour = 1
INVARIANT ExecutedOnce
CHECK_DEADLOCK FALSE

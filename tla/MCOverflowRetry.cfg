SPECIFICATION FairSpec
CONSTANTS
    Tools = {"read", "search", "edit", "fake"}
    Registered = {"read", "search", "edit"}
    WebSearch = "search"
    Essential = {"read"}
    Batches <- MCBatches
    MaxRuns = 2
    MaxTurns = 3
    MaxRetries = 1
    MaxExpansions = 2
    MaxContinues = 1
    MaxFakes = 1
    MaxVerifies = 1
    MaxSearches = 1
    SummaryAt = 1
    CriticalAt = 2
PROPERTY
    RetryIsCompressed
CHECK_DEADLOCK FALSE

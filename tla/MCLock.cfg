CONSTANTS
    Runs = {p1, p2, p3}
    Pids = {x1, x2, x3}
    NoPid = NoPid
    NoRun = NoRun
    Orderly = TRUE
SPECIFICATION FairSpec
INVARIANTS MutualExclusion HolderIsSeen
PROPERTIES NoLockout
CHECK_DEADLOCK FALSE

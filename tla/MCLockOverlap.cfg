CONSTANTS
    Runs = {p1, p2}
    Pids = {x1, x2}
    NoPid = NoPid
    NoRun = NoRun
    Orderly = FALSE
SPECIFICATION Spec
INVARIANTS MutualExclusion
CHECK_DEADLOCK FALSE

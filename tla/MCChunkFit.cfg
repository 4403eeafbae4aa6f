SPECIFICATION ChunkSpec
CONSTANTS
    LineKinds <- Lines
    MaxLines = 3
    MAX_CHARS = 8
    MAX_LINES = 3
    FenceLength = 3
INVARIANT MessagesFit
CHECK_DEADLOCK FALSE

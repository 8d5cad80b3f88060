CONSTANTS
    ByteBits = 2
    MaxShards = 4
    Threshold = 2
    MaxChunks = 3
    MaxKeys = 4
    MaxProcs = 4
SPECIFICATION Spec
INVARIANTS IndexesRight OneWriter RoutesEvenly IndexInvariant
PROPERTY Returns
CHECK_DEADLOCK FALSE

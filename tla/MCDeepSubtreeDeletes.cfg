CONSTANTS
    Depth = 3
    Values = {v1}
    Keys = {0, 1, 2, 3}
    PathOf <- MCPathOf
    DefaultValue = default
    Absent = absent
    MaxFaults = 0
    BitsPerByte = 8
    MaxCalls = 2
    PeerMaps <- MCFull
SPECIFICATION DeepSpec
INVARIANT UpdatableSuffices

CONSTANTS
    Depth = 2
    Values = {v1, v2}
    Keys = {0, 1, 2}
    PathOf <- MCPathOf
    DefaultValue = default
    Absent = absent
    MaxFaults = 1
    BitsPerByte = 8
    MaxCalls = 2
    PeerMaps <- MCPeerMaps
SPECIFICATION DeepFairSpec
INVARIANTS GetDescendSound AddedReadable AddedWritable FreshUpdatable
PROPERTIES PartialRootsRight CallsReturn

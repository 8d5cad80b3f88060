CONSTANTS
    Depth = 3
    Values = {v1, v2}
    Keys = {0, 1, 2, 6, 7}
    PathOf <- MCPathOf
    DefaultValue = default
    Absent = absent
    MaxFaults = 0
    BitsPerByte = 2
SPECIFICATION Spec
INVARIANTS TypeOK RootCommits StoreExact GetReadsTree NoKeyMissing
    ProofDecides CompactAgrees ProofCanonical

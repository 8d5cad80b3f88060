CONSTANTS
    Depth = 1
    DefaultValue = default
    Callers = {c1, c2}
    Keys = {k1, k2}
    Values = {v1, v2}
    Scratches = {x1, x2}
    Slices = {y1, y2}
    Nil = nil
    MaxSides = 2
    MaxCalls = 2
SPECIFICATION Spec
SYMMETRY Symmetric
INVARIANTS RootIntact NodesUnderHash TickTock PoolsPrivate
CHECK_DEADLOCK FALSE

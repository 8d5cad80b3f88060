CONSTANTS
    Depth = 1
    DefaultValue = default
    Callers = {c1, c2}
    Keys = {k1, k2}
    Values = {v1}
    Scratches = {x1, x2}
    Slices = {y1, y2}
    Nil = nil
    MaxSides = 2
    MaxCalls = 2
SPECIFICATION Spec
SYMMETRY Symmetric
INVARIANT ErrorNamesKey
CHECK_DEADLOCK FALSE

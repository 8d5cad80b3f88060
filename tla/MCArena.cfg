CONSTANTS
    StoreKeys = {k1, k2, bad}
    FixedKeys = {k1, k2}
    Payloads <- MCPayloads
    Missing = missing
    SlabSize = 1
    MinSlabSize = 2
    U32 = 8
    MaxArrays = 3
SPECIFICATION Spec
INVARIANTS SlicesIntact ArenaInvariant
PROPERTY ImplementsStoreOnceUsed

SPECIFICATION PoolsSpec
CONSTANTS
    Tuples <- MCTuples
    Bins = 2
    MaxConcurrency = 2
    NumBuffers = 2
    MaxFrags = 2
    Heap = 1
    Apps = {a1}
    Abandon = TRUE
    None = None
INVARIANTS
    ChunksConserved
    BuffersHaveOneOwner
    PoolsSuffice
    SearchFindsStream

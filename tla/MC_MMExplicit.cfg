CONSTANTS
    CHUNKSIZE <- MC_CHUNKSIZE
    MAX_HEAP <- MC_MAX_HEAP
    REQS <- MC_REQS
    IDS = {i1, i2}
SPECIFICATION Spec
SYMMETRY MC_Symmetry
VIEW View
INVARIANTS
    TypeOK
    HeapWalkOK
    FreeListExact
    NoAdjacentFree
    ClientBlocksExact
    NoTruncation
    HeldDataIntact
PROPERTIES
    GrowsOnlyWhenNoFit
    AllocRefined

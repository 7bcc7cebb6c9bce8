CONSTANTS
    CHUNKSIZE <- MC_CHUNKSIZE
    TOTALNUMLIST <- MC_TOTALNUMLIST
    MAX_HEAP <- MC_MAX_HEAP
    REQS <- MC_REQS
    IDS = {i1, i2}
SPECIFICATION Spec
SYMMETRY MC_Symmetry
VIEW View
INVARIANTS
    TypeOK
    HeapWalkOK
    FreeListsExact
    NoAdjacentFree
    ClientBlocksExact
    NoTruncation
    FitComplete
    HeldDataIntact
    
PROPERTIES
    LiveBlockUntouched
    GrowsOnlyWhenNoFit
    AllocRefined

CONSTANTS
    CHUNKSIZE <- MC_CHUNKSIZE
    MAX_HEAP <- MC_MAX_HEAP_3
    REQS <- MC_REQS_3
    IDS = {i1, i2, i3}
SPECIFICATION Spec
SYMMETRY MC_Symmetry
VIEW View
INVARIANTS
    FreeListExact
    ClientBlocksExact
    HeldDataIntact
PROPERTIES
    GrowsOnlyWhenNoFit
    AllocRefined

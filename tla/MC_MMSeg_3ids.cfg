CONSTANTS
    CHUNKSIZE <- MC_CHUNKSIZE
    TOTALNUMLIST <- MC_TOTALNUMLIST
    MAX_HEAP <- MC_MAX_HEAP
    REQS <- MC_REQS_3
    IDS = {i1, i2, i3}
SPECIFICATION Spec
SYMMETRY MC_Symmetry
VIEW View
INVARIANTS
    FreeListsExact
    ClientBlocksExact
    HeldDataIntact
PROPERTIES
    AllocRefined

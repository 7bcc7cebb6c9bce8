CONSTANTS
    CHUNKSIZE <- MC_CHUNKSIZE
    TOTALNUMLIST <- MC_TOTALNUMLIST
    MAX_HEAP <- MC_MAX_HEAP
    REQS <- MC_REQS_HUGE
    IDS = {i1, i2}
SPECIFICATION Spec
SYMMETRY MC_Symmetry
VIEW View
INVARIANT NoTruncation

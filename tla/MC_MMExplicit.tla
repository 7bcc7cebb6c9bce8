--------------------------- MODULE MC_MMExplicit ---------------------------
(* mm.c's allocator instantiated for TLC: see MC_MMSeg for the bounds.    *)
EXTENDS MMExplicit

\* A 24-word chunk: mm_init's free block of 22 words can be split into
\* requests of 3 and 13 words, and a growth by CHUNKSIZE fits twice.
MC_CHUNKSIZE == 24
MC_MAX_HEAP == 3 * MC_CHUNKSIZE

\* Payload words: malloc(0), 8 bytes (a 4-word block, the minimum), 88
\* bytes (a 13-word block) and 240 bytes (32 words, more than CHUNKSIZE).
MC_REQS == {0, 1, 11, 30}

\* A request of 2^29 - 1 payload words: malloc(4294967288).
MC_REQS_HUGE == {1, 2^29 - 1}

\* With three ids: the sizes that place, split and grow (0 only exits or
\* returns NULL, which the two-id run covers), in a heap that can grow by
\* one chunk: three 13-word blocks do not fit in mm_init's 22 words.
MC_REQS_3 == {1, 11}
MC_MAX_HEAP_3 == 2 * MC_CHUNKSIZE

\* ids are interchangeable
MC_Symmetry == Permutations(IDS)
=============================================================================

------------------------------ MODULE MC_MMSeg ------------------------------
(* Small instances of MMSeg for TLC.  Sizes are in 8-byte words.           *)
EXTENDS MMSeg

\* A 192-byte chunk: the initial free block (22 words) is split by a
\* 13-word request into a 9-word remainder of another class.
MC_CHUNKSIZE == 24
\* Three lists: classes 0 (4-7 words), 1 (8-15) and the clamped class 2.
MC_TOTALNUMLIST == 3
\* Room for the initial chunk and one more, plus two fast-path blocks.
MC_MAX_HEAP == MC_TOTALNUMLIST + 2 * MC_CHUNKSIZE + 8
\* 0 (a NULL malloc, an exiting realloc), 1 (fast path, 32-byte block),
\* 11 (first size past the fast path), 30 (larger than a chunk).
MC_REQS == {0, 1, 11, 30}

\* A request of 2^29 - 1 payload words: malloc(4294967288), 8 bytes short
\* of 4 GiB, beside an ordinary one.
MC_REQS_HUGE == {1, 2^29 - 1}

\* With three ids: the sizes that place, split and grow (0 only exits or
\* returns NULL, which the two-id run covers).
MC_REQS_3 == {1, 11}

\* ids are interchangeable to the allocator.
MC_Symmetry == Permutations(IDS)
=============================================================================

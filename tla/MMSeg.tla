------------------------------- MODULE MMSeg -------------------------------
(***************************************************************************)
(* The segregated-free-list allocator of src/unnamed/part_000 (mm.c,       *)
(* "meep3"), modelled at the level of the heap's memory words.             *)
(*                                                                         *)
(* The block format, the word-level memory and the size arithmetic it    *)
(* shares with src/malloclab-handout/mm.c are in BlockLayout.             *)
(*                                                                         *)
(* Every public call (mm_malloc, mm_free, mm_realloc) is one atomic step:  *)
(* the allocator is single-threaded and each call completes before the     *)
(* next.  Internal helpers are operators that map a memory to a memory,    *)
(* composed in the order the C code executes them.                         *)
(***************************************************************************)
EXTENDS BlockLayout, SequencesExt, TLC

CONSTANTS
    TOTALNUMLIST,  \* number of segregated lists (the code's 11)
    IDS,           \* client block ids (the trace driver's ids)
    REQS           \* request sizes, in payload words ceil(bytes/8)

VARIABLES
    mem,     \* heap words: address -> tag or link
    brk,     \* memlib's mem_brk: first word past the heap
    slot,    \* client: id -> payload pointer it holds (NULL if none)
    req,     \* client: id -> payload words it asked for
    exited   \* the process called exit(1) (in mm_realloc)

vars == <<mem, brk, slot, req, exited>>

SMALL == 12            \* the fast-path threshold: asize <= 96 bytes

\* segListHead[i] lives in the heap's first TOTALNUMLIST words.
SegHead(m, i) == PtrAt(m, HEAP_LO + i)
SetSegHead(m, i, p) == Wr(m, HEAP_LO + i, Link(p))

RECURSIVE FloorLog2(_)
FloorLog2(n) == IF n < 2 THEN 0 ELSE 1 + FloorLog2(n \div 2)

segListIndex(w) ==
    LET index == FloorLog2(w) + 3 - 5
    IN  IF index < TOTALNUMLIST - 1 THEN index ELSE TOTALNUMLIST - 1

list_push(m, newblock, index) ==
    LET h == SegHead(m, index)
    IN  IF h = NULL
        THEN SetNext(SetPrev(SetSegHead(m, index, newblock), newblock, NULL),
                     newblock, NULL)
        ELSE SetSegHead(SetPrev(SetPrev(SetNext(m, newblock, h), newblock, NULL),
                                h, newblock),
                        index, newblock)

\* Mutant of list_pop: case 3 returns without unlinking the last block.
list_pop_keeps_last(m, removeblock, index) ==
    LET nx == NextOf(m, removeblock)
        pv == PrevOf(m, removeblock)
    IN  IF pv = NULL /\ nx = NULL THEN SetSegHead(m, index, NULL)
        ELSE IF SegHead(m, index) = removeblock
             THEN SetPrev(SetSegHead(m, index, nx), nx, NULL)
        ELSE IF nx = NULL THEN m
        ELSE SetNext(SetPrev(m, nx, pv), pv, nx)

\* The four cases; unlike mm.c this version leaves removeblock's links.
list_pop(m, removeblock, index) ==
    LET nx == NextOf(m, removeblock)
        pv == PrevOf(m, removeblock)
    IN  IF pv = NULL /\ nx = NULL THEN SetSegHead(m, index, NULL)
        ELSE IF SegHead(m, index) = removeblock
             THEN SetPrev(SetSegHead(m, index, nx), nx, NULL)
        ELSE IF nx = NULL THEN SetNext(m, pv, NULL)
        ELSE SetNext(SetPrev(m, nx, pv), pv, nx)

RECURSIVE FitFrom(_, _, _)
FitFrom(m, i, asize) ==
    IF i >= TOTALNUMLIST THEN NULL
    ELSE LET b == FitInList(m, SegHead(m, i), asize, Cardinality(DOMAIN m))
         IN  IF b # NULL THEN b ELSE FitFrom(m, i + 1, asize)

\* Mutant of find_fit: the search starts one class above the request's.
find_fit_next_class(m, asize) == FitFrom(m, segListIndex(asize) + 1, asize)

find_fit(m, asize) == FitFrom(m, segListIndex(asize), asize)

\* The code always pops and pushes a block with the index of its current
\* size: int idx = segListIndex(block->block_size); list_pop(block, idx).
PopBlock(m, b) == list_pop(m, b, segListIndex(SizeAt(m, b)))
PushBlock(m, b) == list_push(m, b, segListIndex(SizeAt(m, b)))

\* The second half of a split: the remainder's header, footer and push.
SplitRest(m, new_block, split_size) ==
    PushBlock(WriteBlock(m, new_block, split_size, FREE), new_block)

\* Mutant of Splinter: the block is marked allocated but never popped.
Splinter_no_pop(m, block) == MarkBlock(m, block, ALLOC)

\* The splinter case: pop, then set the allocated bit in header and footer.
Splinter(m, block) == MarkBlock(PopBlock(m, block), block, ALLOC)

place(m, block, asize) ==
    LET split_size == SizeAt(m, block) - asize
        m1 == WriteBlock(PopBlock(m, block), block, asize, ALLOC)
    IN  IF split_size >= MIN_BLOCK_SIZE
        THEN SplitRest(m1, block + SizeAt(m1, block), split_size)
        ELSE Splinter(m, block)

\* Mutant of SyncFooter: the merged block's footer keeps its old size.
SyncFooter_skipped(m, b) == m

\* block_size += the size of block x, then the footer (found by the new
\* size) takes the header's size.
Absorb(m, b, x) == SetSize(m, b, SizeAt(m, b) + SizeAt(m, x))
SyncFooter(m, b) == SetSize(m, get_footer(m, b), SizeAt(m, b))

\* Case 4 re-derives prev_block from prev_footer after the three pops.
Case4(m, block, prev_footer, next_header) ==
    LET prev_block == prev_footer - SizeAt(m, prev_footer) + HDR
    IN  [m |-> PushBlock(SyncFooter(SetSize(m, prev_block,
                                              SizeAt(m, prev_block) + SizeAt(m, block)
                                              + SizeAt(m, next_header)),
                                    prev_block),
                         prev_block),
         b |-> prev_block]

\* Boundary-tag coalescing; the result is [m, b] with b the merged block.
coalesce(m, block) ==
    LET prev_footer == block - HDR
        next_header == block + SizeAt(m, block)
        prev_alloc == AllocAt(m, prev_footer) = ALLOC
        next_alloc == AllocAt(m, next_header) = ALLOC
        next_block == next_header
        prev_block == prev_footer - SizeAt(m, prev_footer) + HDR
    IN
    IF prev_alloc /\ next_alloc THEN [m |-> m, b |-> block]
    ELSE IF prev_alloc /\ ~next_alloc THEN
        [m |-> PushBlock(SyncFooter(Absorb(PopBlock(PopBlock(m, block), next_block),
                                           block, next_header),
                                    block),
                         block),
         b |-> block]
    ELSE IF ~prev_alloc /\ next_alloc THEN
        [m |-> PushBlock(SyncFooter(Absorb(PopBlock(PopBlock(m, block), prev_block),
                                           prev_block, block),
                                    prev_block),
                         prev_block),
         b |-> prev_block]
    ELSE Case4(PopBlock(PopBlock(PopBlock(m, prev_block), block), next_block),
               block, prev_footer, next_header)

\* The new free block is pushed, then coalesced if willCoalesce.
ExtendTail(m, block, willCoalesce) ==
    IF willCoalesce THEN coalesce(PushBlock(m, block), block)
    ELSE [m |-> PushBlock(m, block), b |-> block]

Extended(c, top) == [m |-> c.m, brk |-> top, b |-> c.b]

\* Mutant of extend_heap: the new block starts at the returned break
\* instead of at the old epilogue.
extend_heap_no_hdr(m, top, words, willCoalesce) ==
    LET size == words % U32_MOD
        block == top
        m1 == WriteBlock(m, block, size, FREE)
    IN  IF size = 0 \/ ~SbrkOK(top, size) THEN [m |-> m, brk |-> top, b |-> NULL]
        ELSE Extended(ExtendTail(Wr(m1, get_footer(m1, block) + HDR, Tag(0, ALLOC)),
                                 block, willCoalesce),
                      top + size)

\* extend_heap(words, willCoalesce); the result is [m, brk, b], b = NULL on
\* failure.  The old epilogue becomes the new block's header and a new
\* epilogue follows its footer.
extend_heap(m, top, words, willCoalesce) ==
    LET size == words % U32_MOD
        block == top - HDR
        m1 == WriteBlock(m, block, size, FREE)
    IN  IF size = 0 \/ ~SbrkOK(top, size) THEN [m |-> m, brk |-> top, b |-> NULL]
        ELSE Extended(ExtendTail(Wr(m1, get_footer(m1, block) + HDR, Tag(0, ALLOC)),
                                 block, willCoalesce),
                      top + size)

\* Mutant of Placed: the block is returned without place().
Placed_unplaced(m, top, b, asize) == [m |-> m, brk |-> top, p |-> b + HDR]

\* Placing asize in block b of the result r of extend_heap or find_fit.
Placed(m, top, b, asize) == [m |-> place(m, b, asize), brk |-> top, p |-> b + HDR]

\* No fit: extend by extendsize with coalescing, or fail with NULL.
MallocExtend(ext, asize) ==
    IF ext.b # NULL THEN Placed(ext.m, ext.brk, ext.b, asize)
    ELSE [m |-> ext.m, brk |-> ext.brk, p |-> NULL]

\* After the fast path: its block if it got one, else first fit, else grow.
MallocSearch(fast, asize) ==
    LET fit == find_fit(fast.m, asize)
    IN  IF fast.b # NULL THEN Placed(fast.m, fast.brk, fast.b, asize)
        ELSE IF fit # NULL THEN Placed(fast.m, fast.brk, fit, asize)
        ELSE MallocExtend(extend_heap(fast.m, fast.brk, ExtendWords(asize), TRUE), asize)

\* mm_malloc(size); the result is [m, brk, p], p the payload or NULL.  The
\* fast path extends the heap by exactly asize, without coalescing.
mm_malloc(m, top, uw) ==
    LET asize == AdjustSize(uw)
    IN  IF uw = 0 THEN [m |-> m, brk |-> top, p |-> NULL]
        ELSE IF asize <= SMALL THEN MallocSearch(extend_heap(m, top, asize, FALSE), asize)
        ELSE MallocSearch([m |-> m, brk |-> top, b |-> NULL], asize)

\* Mutant of mm_free: the freed block is pushed but not coalesced.
mm_free_no_coalesce(m, payload) ==
    LET block == payload - HDR
    IN  PushBlock(MarkBlock(m, block, FREE), block)

mm_free(m, payload) ==
    LET block == payload - HDR
    IN  coalesce(PushBlock(MarkBlock(m, block, FREE), block), block).m

\* Mutant of ReallocCopy: the old block is freed before the copy.
ReallocCopy_free_first(newp, ptr, uw) ==
    IF newp.p = NULL THEN [m |-> newp.m, brk |-> newp.brk, p |-> NULL, exit |-> TRUE]
    ELSE [m |-> memcpy(mm_free(newp.m, ptr), newp.p, ptr,
                       CopyWords(uw, SizeAt(newp.m, ptr - HDR))),
          brk |-> newp.brk, p |-> newp.p, exit |-> FALSE]

\* After the new block is obtained: exit(1) on NULL, else copy and free.
ReallocCopy(newp, ptr, uw) ==
    IF newp.p = NULL THEN [m |-> newp.m, brk |-> newp.brk, p |-> NULL, exit |-> TRUE]
    ELSE [m |-> mm_free(memcpy(newp.m, newp.p, ptr,
                               CopyWords(uw, SizeAt(newp.m, ptr - HDR))),
                        ptr),
          brk |-> newp.brk, p |-> newp.p, exit |-> FALSE]

\* Mutant of mm_realloc: the old block is freed before the new one is
\* allocated, so the new block may reuse the old one.
mm_realloc_free_first(m, top, ptr, uw) ==
    LET r == mm_malloc(mm_free(m, ptr), top, uw)
    IN  IF r.p = NULL THEN [m |-> r.m, brk |-> r.brk, p |-> NULL, exit |-> TRUE]
        ELSE [m |-> memcpy(r.m, r.p, ptr, CopyWords(uw, SizeAt(m, ptr - HDR))),
              brk |-> r.brk, p |-> r.p, exit |-> FALSE]

\* mm_realloc(ptr, size); the result is [m, brk, p, exit].
mm_realloc(m, top, ptr, uw) ==
    ReallocCopy(mm_malloc(m, top, uw), ptr, uw)

-----------------------------------------------------------------------------

Prologue == HEAP_LO + TOTALNUMLIST

\* The state mm_init leaves: TOTALNUMLIST NULL heads, the prologue, one free
\* block of CHUNKSIZE - OVERHEAD on the last list, and the epilogue.
mm_init ==
    LET init_block == Prologue + HDR
        size == CHUNKSIZE - OVERHEAD
        m0 == [a \in HEAP_LO..HEAP_LO + TOTALNUMLIST - 1 |-> Link(NULL)]
        m1 == Wr(m0, Prologue, Tag(HDR, ALLOC))
        m2 == Wr(m1, init_block, Tag(size, FREE))
        m3 == SetPrev(SetNext(m2, init_block, NULL), init_block, NULL)
        m4 == Wr(m3, get_footer(m3, init_block), Tag(size, FREE))
        m5 == SetSegHead(m4, TOTALNUMLIST - 1, init_block)
    IN  Wr(m5, init_block + size, Tag(0, ALLOC))

Init ==
    /\ mem = mm_init
    /\ brk = Prologue + CHUNKSIZE
    /\ slot = [i \in IDS |-> NULL]
    /\ req = [i \in IDS |-> 0]
    /\ exited = FALSE

\* The client records what mm_malloc returned, r = [m, brk, p], and fills
\* the payload it asked for.
MallocReturns(id, uw, r) ==
    /\ mem' = IF r.p = NULL THEN r.m ELSE ClientWrites(r.m, r.p, id, 0, Filled(uw))
    /\ brk' = r.brk
    /\ slot' = [slot EXCEPT ![id] = r.p]
    /\ req' = [req EXCEPT ![id] = IF r.p = NULL THEN 0 ELSE uw]

\* What mm_realloc returned, r = [m, brk, p, exit]; on exit the client
\* stops.  Otherwise it fills the part of the payload realloc was not
\* asked to preserve (past the old request).
ReallocReturns(id, uw, r) ==
    /\ mem' = IF r.exit THEN r.m
              ELSE ClientWrites(r.m, r.p, id, Filled(IF req[id] < uw THEN req[id] ELSE uw),
                                Filled(uw))
    /\ brk' = r.brk
    /\ exited' = r.exit
    /\ slot' = IF r.exit THEN slot ELSE [slot EXCEPT ![id] = r.p]
    /\ req' = IF r.exit THEN req ELSE [req EXCEPT ![id] = uw]

\* The client calls mm_malloc for an id it does not hold.
Malloc(id, uw) ==
    /\ ~exited
    /\ slot[id] = NULL
    /\ MallocReturns(id, uw, mm_malloc(mem, brk, uw))
    /\ UNCHANGED exited

Free(id) ==
    /\ ~exited
    /\ slot[id] # NULL
    /\ mem' = mm_free(mem, slot[id])
    /\ slot' = [slot EXCEPT ![id] = NULL]
    /\ req' = [req EXCEPT ![id] = 0]
    /\ UNCHANGED <<brk, exited>>

Realloc(id, uw) ==
    /\ ~exited
    /\ slot[id] # NULL
    /\ ReallocReturns(id, uw, mm_realloc(mem, brk, slot[id], uw))

\* After exit(1) nothing happens any more.
Exited == exited /\ UNCHANGED vars

Next ==
    \/ \E id \in IDS, uw \in REQS : Malloc(id, uw)
    \/ \E id \in IDS : Free(id)
    \/ \E id \in IDS, uw \in REQS : Realloc(id, uw)
    \/ Exited

Spec == Init /\ [][Next]_vars

-----------------------------------------------------------------------------
(* What the heap looks like: the walk mm_checkheap does.                   *)

Walk == WalkFrom(mem, brk, Prologue)

\* The blocks between the prologue and the epilogue.
Blocks == {Walk[k] : k \in 2..Len(Walk) - 1}
FreeBlocks == {b \in Blocks : AllocAt(mem, b) = FREE}
Held == {id \in IDS : slot[id] # NULL}

SegList(i) == ListFrom(mem, SegHead(mem, i), Cardinality(Blocks) + 1)

\* The words the allocator or the client can read in later calls: the list
\* heads, the tags of the blocks on the walk, the links of free blocks and
\* the data in held payloads.  The rest (stale
\* tags of merged blocks, old links and copied data inside payloads) never
\* affects a later step, so states differing only there are one state for
\* TLC (VIEW); a store outside the heap is kept visible.
ReadableWords ==
    (HEAP_LO..Prologue - 1)
    \cup {Walk[k] : k \in 1..Len(Walk)}
    \cup {get_footer(mem, b) : b \in Blocks}
    \cup {b + j : b \in FreeBlocks, j \in 1..LINK_WORDS}
    \cup {slot[id] + j : id \in Held, j \in 0..LINK_WORDS - 1}
View ==
    <<Restrict(mem, DOMAIN mem \cap ReadableWords),
      DOMAIN mem \ (HEAP_LO..brk - 1), brk, slot, req, exited>>

-----------------------------------------------------------------------------
(* Properties.                                                             *)

\* Every word the allocator stores holds a tag or a link and lies inside the
\* heap memlib handed out (no store through NULL or past mem_brk); the heap
\* never passes memlib's limit.
TypeOK ==
    /\ DOMAIN mem \subseteq HEAP_LO..brk - 1
    /\ \A a \in DOMAIN mem : IsWord(mem[a])
    /\ Prologue + CHUNKSIZE <= brk /\ brk <= HEAP_LO + MAX_HEAP
    /\ DOMAIN slot = IDS /\ DOMAIN req = IDS
    /\ \A id \in IDS : slot[id] = NULL \/ slot[id] \in HEAP_LO..brk - 1
    /\ \A id \in IDS : req[id] >= 0 /\ slot[id] = NULL => req[id] = 0
    /\ exited \in BOOLEAN

\* After any sequence of mallocs, frees and reallocs mm_checkheap prints
\* no diagnostic, and the heap is what it takes for granted: its walk ends
\* at the epilogue in the last word of the heap, and every block has at
\* least MIN_BLOCK_SIZE words and a footer equal to its header.
HeapWalkOK ==
    /\ mm_checkheap(mem, brk, Prologue) = {}
    /\ Walk[Len(Walk)] = brk - HDR
    /\ \A b \in Blocks :
          /\ SizeAt(mem, b) >= MIN_BLOCK_SIZE
          /\ TagAt(mem, get_footer(mem, b)) = TagAt(mem, b)

\* Each segregated list is a NULL-terminated doubly-linked list holding
\* exactly the free blocks whose size maps to it by segListIndex, once each:
\* what list_push, list_pop and the class bookkeeping of place, coalesce and
\* extend_heap must keep together.
FreeListsExact ==
    \A i \in 0..TOTALNUMLIST - 1 :
        LET L == SegList(i)
        IN  /\ Len(L) = Cardinality(Range(L))
            /\ Range(L) = {b \in FreeBlocks : segListIndex(SizeAt(mem, b)) = i}
            /\ \A k \in 1..Len(L) :
                  PrevOf(mem, L[k]) = IF k = 1 THEN NULL ELSE L[k - 1]

\* No two free blocks are neighbours: mm_free and the slow path coalesce;
\* the fast path (extend_heap without coalescing) must never leave its fresh
\* block free next to a free predecessor.
NoAdjacentFree ==
    \A b \in FreeBlocks : AllocAt(mem, b + SizeAt(mem, b)) = ALLOC

\* The allocated blocks are exactly the blocks of the pointers the client
\* holds, each handed out once: no block leaks, none is given twice.
ClientBlocksExact ==
    /\ {b \in Blocks : AllocAt(mem, b) = ALLOC} = {slot[id] - HDR : id \in Held}
    /\ \A i, j \in Held : i # j => slot[i] # slot[j]

\* The block behind every pointer the client holds has at least the payload
\* words it asked for (mm_malloc's asize computation).
NoTruncation ==
    \A id \in Held : SizeAt(mem, slot[id] - HDR) - OVERHEAD >= req[id]

\* find_fit starts at the request's own class and skips the lower ones; it
\* still finds a block whenever some free block is large enough, for every
\* asize a request can produce: no fitting block sits in a skipped class
\* (segListIndex's log2 bias and clamp agree with the search).
FitComplete ==
    \A asize \in {AdjustSize(uw) : uw \in REQS \ {0}} :
        (\E b \in FreeBlocks : asize <= SizeAt(mem, b)) => find_fit(mem, asize) # NULL

\* The data the client stored in every block it holds is still there:
\* neither the list maintenance of any call nor mm_realloc's copy (memcpy
\* before mm_free of the old block) loses the first min(old, new) words.
HeldDataIntact ==
    \A id \in Held : \A j \in 0..Filled(req[id]) - 1 :
        slot[id] + j \in DOMAIN mem /\ mem[slot[id] + j] = Data(id)

\* spec.md 4.1: class(s) = min(C - 1, floor(log2 s) - 5), clamped at 0
\* below, for a block or request of s bytes; s = 8 * w words, so
\* log2 s = log2 w + 3.
Log2Ref(n) == CHOOSE k \in 0..29 : n \div 2^k = 1
SpecClass(w) ==
    LET c == Log2Ref(w) + 3 - 5
    IN  IF c < 0 THEN 0 ELSE IF c < TOTALNUMLIST - 1 THEN c ELSE TOTALNUMLIST - 1

\* Every size either side of a power of two, from the smallest block to the
\* largest asize a uint32_t holds.
ClassBoundaries ==
    {w \in {2^k + d : k \in 2..28, d \in {-1, 0, 1}} : MIN_BLOCK_SIZE <= w /\ w < U32_MOD}

Kept(id) == slot[id] # NULL /\ slot'[id] = slot[id]

\* No call writes any word (header, payload or footer) of a block the client
\* keeps across it: list maintenance never reaches an allocated block.
LiveBlockUntouched ==
    [][\A id \in IDS :
          Kept(id) =>
            LET b == slot[id] - HDR
            IN  \A a \in DOMAIN mem' :
                   b <= a /\ a < b + SizeAt(mem, b) =>
                       a \in DOMAIN mem /\ mem'[a] = mem[a]]_vars

\* mm_malloc (alone or inside mm_realloc) grows the heap only by the fast
\* path, by exactly asize for a request of at most 96 bytes, or when no
\* free block could hold the request, by max(asize, CHUNKSIZE): a free
\* block that fits but that find_fit misses would waste the heap silently.
GrowsOnlyWhenNoFit ==
    [][brk' > brk =>
         \E id \in IDS :
            LET asize == AdjustSize(req'[id])
            IN  /\ slot'[id] \notin {NULL, slot[id]}
                /\ \/ asize <= SMALL /\ brk' = brk + asize
                   \/ /\ \A b \in FreeBlocks : SizeAt(mem, b) < asize
                      /\ brk' = brk + ExtendWords(asize)]_vars

\* mm_realloc copies no more than the old payload: copySize never exceeds
\* block_size - OVERHEAD (the spec's "realloc over-copy" defect).
ReallocCopyWithinPayload ==
    [][\A id \in IDS :
          slot[id] # NULL /\ slot'[id] \notin {NULL, slot[id]} =>
            CopyWords(req'[id], SizeAt(mem, slot[id] - HDR))
              <= SizeAt(mem, slot[id] - HDR) - OVERHEAD]_vars

-----------------------------------------------------------------------------
(* Refinement: the allocator implements AllocSpec.  The client's pointer  *)
(* is the abstract pointer, and the abstract capacity is the payload of   *)
(* the block behind it (block_size - OVERHEAD).                            *)

Cap == [id \in IDS |-> IF slot[id] = NULL THEN 0
                       ELSE SizeAt(mem, slot[id] - HDR) - OVERHEAD]

Alloc == INSTANCE AllocSpec WITH ptr <- slot, cap <- Cap

\* Every behaviour of mm_malloc, mm_free and mm_realloc is one the abstract
\* allocator allows: a returned payload never overlaps a region the client
\* still holds (realloc's new block included, since it mallocs before it
\* frees), has room for the request, and no call resizes another id's block.
AllocRefined == Alloc!Spec

=============================================================================

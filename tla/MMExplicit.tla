----------------------------- MODULE MMExplicit -----------------------------
(***************************************************************************)
(* The explicit-free-list allocator of src/malloclab-handout/mm.c          *)
(* ("meep"): one doubly-linked list of free blocks from the static head,   *)
(* first fit, boundary-tag coalescing, no fast path.                      *)
(*                                                                         *)
(* The block format and the memory of words are BlockLayout's.  The static *)
(* block_t *head is a word of memory, HEAD_ADDR, outside the heap, so     *)
(* that every helper maps a memory to a memory as the C code does.         *)
(* Every public call (mm_malloc, mm_free, mm_realloc) is one atomic step.  *)
(***************************************************************************)
EXTENDS BlockLayout, SequencesExt, TLC

CONSTANTS
    IDS,           \* client block ids (the trace driver's ids)
    REQS           \* request sizes, in payload words ceil(bytes/8)

VARIABLES
    mem,     \* the heap words and the word of the static head
    brk,     \* memlib's mem_brk: first word past the heap
    slot,    \* client: id -> payload pointer it holds (NULL if none)
    req,     \* client: id -> payload words it asked for
    exited   \* the process called exit(1) (in mm_realloc)

vars == <<mem, brk, slot, req, exited>>

\* static block_t *head, in the data segment below the heap.
HEAD_ADDR == HEAP_LO - 2
head(m) == PtrAt(m, HEAD_ADDR)
SetHead(m, p) == Wr(m, HEAD_ADDR, Link(p))

list_push(m, newblock) ==
    LET h == head(m)
    IN  IF h = NULL
        THEN SetNext(SetPrev(SetHead(m, newblock), newblock, NULL), newblock, NULL)
        ELSE SetHead(SetPrev(SetPrev(SetNext(m, newblock, h), newblock, NULL),
                             h, newblock),
                     newblock)

\* Mutant of list_pop: "first block in list" is tested before "only block",
\* so popping the only block dereferences its NULL next.
list_pop_head_first(m, removeblock) ==
    LET nx == NextOf(m, removeblock)
        pv == PrevOf(m, removeblock)
    IN  IF head(m) = removeblock
        THEN SetPrev(SetPrev(SetHead(m, nx), nx, NULL), removeblock, NULL)
        ELSE IF pv = NULL /\ nx = NULL
             THEN SetPrev(SetNext(SetHead(m, NULL), removeblock, NULL), removeblock, NULL)
        ELSE IF nx = NULL THEN SetPrev(SetNext(m, pv, NULL), removeblock, NULL)
        ELSE SetPrev(SetNext(SetNext(SetPrev(m, nx, pv), pv, nx), removeblock, NULL),
                     removeblock, NULL)

\* Mutant of list_pop: case 2 does not clear the new head's prev link.
list_pop_head_prev_kept(m, removeblock) ==
    LET nx == NextOf(m, removeblock)
        pv == PrevOf(m, removeblock)
    IN  IF pv = NULL /\ nx = NULL
        THEN SetPrev(SetNext(SetHead(m, NULL), removeblock, NULL), removeblock, NULL)
        ELSE IF head(m) = removeblock
             THEN SetPrev(SetHead(m, nx), removeblock, NULL)
        ELSE IF nx = NULL THEN SetPrev(SetNext(m, pv, NULL), removeblock, NULL)
        ELSE SetPrev(SetNext(SetNext(SetPrev(m, nx, pv), pv, nx), removeblock, NULL),
                     removeblock, NULL)

\* The four cases; each clears the links of removeblock it still holds
\* (case 2 leaves next, which is then the new head).
list_pop(m, removeblock) ==
    LET nx == NextOf(m, removeblock)
        pv == PrevOf(m, removeblock)
    IN  IF pv = NULL /\ nx = NULL
        THEN SetPrev(SetNext(SetHead(m, NULL), removeblock, NULL), removeblock, NULL)
        ELSE IF head(m) = removeblock
             THEN SetPrev(SetPrev(SetHead(m, nx), nx, NULL), removeblock, NULL)
        ELSE IF nx = NULL THEN SetPrev(SetNext(m, pv, NULL), removeblock, NULL)
        ELSE SetPrev(SetNext(SetNext(SetPrev(m, nx, pv), pv, nx), removeblock, NULL),
                     removeblock, NULL)

\* Mutant of find_fit: the walk starts at head->body.next.
find_fit_skip_head(m, asize) ==
    IF head(m) = NULL THEN NULL
    ELSE FitInList(m, NextOf(m, head(m)), asize, Cardinality(DOMAIN m))

find_fit(m, asize) ==
    IF head(m) = NULL THEN NULL
    ELSE FitInList(m, head(m), asize, Cardinality(DOMAIN m))

\* Mutant of place: the remainder is split off even when it is smaller
\* than MIN_BLOCK_SIZE.
place_split_always(m, block, asize) ==
    LET split_size == SizeAt(m, block) - asize
        m1 == WriteBlock(list_pop(m, block), block, asize, ALLOC)
    IN  IF split_size > 0
        THEN list_push(WriteBlock(m1, block + asize, split_size, FREE), block + asize)
        ELSE MarkBlock(list_pop(m, block), block, ALLOC)

\* Split when the rest is a whole free block; otherwise hand out a splinter.
place(m, block, asize) ==
    LET split_size == SizeAt(m, block) - asize
        m1 == WriteBlock(list_pop(m, block), block, asize, ALLOC)
    IN  IF split_size >= MIN_BLOCK_SIZE
        THEN list_push(WriteBlock(m1, block + asize, split_size, FREE), block + asize)
        ELSE MarkBlock(list_pop(m, block), block, ALLOC)

\* block_size += the size of block x, then the footer (found by the new
\* size) takes the header's size.
Absorb(m, b, x) == SetSize(m, b, SizeAt(m, b) + SizeAt(m, x))
SyncFooter(m, b) == SetSize(m, get_footer(m, b), SizeAt(m, b))

\* The merged block of cases 2 to 4 after the pops: grow, sync the
\* footer, push.
Merged(m, b) == [m |-> list_push(m, b), b |-> b]

\* Case 4 re-derives prev_block from prev_footer after the three pops.
Case4(m, block, prev_footer, next_header) ==
    LET prev_block == prev_footer - SizeAt(m, prev_footer) + HDR
    IN  Merged(SyncFooter(SetSize(m, prev_block,
                                  SizeAt(m, prev_block) + SizeAt(m, block)
                                  + SizeAt(m, next_header)),
                          prev_block),
               prev_block)

\* Boundary-tag coalescing of a block its caller has just pushed; the
\* result is [m, b] with b the merged block.  Case 1 leaves it pushed.
coalesce(m, block) ==
    LET prev_footer == block - HDR
        next_header == block + SizeAt(m, block)
        prev_alloc == AllocAt(m, prev_footer) = ALLOC
        next_alloc == AllocAt(m, next_header) = ALLOC
        prev_block == prev_footer - SizeAt(m, prev_footer) + HDR
    IN
    IF prev_alloc /\ next_alloc THEN [m |-> m, b |-> block]
    ELSE IF prev_alloc /\ ~next_alloc THEN
        Merged(SyncFooter(Absorb(list_pop(list_pop(m, block), next_header),
                                 block, next_header),
                          block),
               block)
    ELSE IF ~prev_alloc /\ next_alloc THEN
        Merged(SyncFooter(Absorb(list_pop(list_pop(m, block), prev_block),
                                 prev_block, block),
                          prev_block),
               prev_block)
    ELSE Case4(list_pop(list_pop(list_pop(m, prev_block), block), next_header),
               block, prev_footer, next_header)

Extended(c, top) == [m |-> c.m, brk |-> top, b |-> c.b]

\* extend_heap(words); the result is [m, brk, b], b = NULL on failure.  The
\* old epilogue becomes the new block's header, a new epilogue follows its
\* footer, and the block is pushed and coalesced.
extend_heap(m, top, words) ==
    LET size == words % U32_MOD
        block == top - HDR
        m1 == WriteBlock(m, block, size, FREE)
    IN  IF size = 0 \/ ~SbrkOK(top, size) THEN [m |-> m, brk |-> top, b |-> NULL]
        ELSE Extended(coalesce(list_push(Wr(m1, get_footer(m1, block) + HDR, Tag(0, ALLOC)),
                                         block),
                               block),
                      top + size)

\* Mutant of Placed: the block is returned without place().
Placed_unplaced(m, top, b, asize) == [m |-> m, brk |-> top, p |-> b + HDR]

\* Placing asize in block b and returning its payload.
Placed(m, top, b, asize) == [m |-> place(m, b, asize), brk |-> top, p |-> b + HDR]

\* No fit: extend by extendsize, or fail with NULL.
MallocExtend(ext, asize) ==
    IF ext.b # NULL THEN Placed(ext.m, ext.brk, ext.b, asize)
    ELSE [m |-> ext.m, brk |-> ext.brk, p |-> NULL]

\* mm_malloc(size); the result is [m, brk, p], p the payload or NULL.
mm_malloc(m, top, uw) ==
    LET asize == AdjustSize(uw)
        fit == find_fit(m, asize)
    IN  IF uw = 0 THEN [m |-> m, brk |-> top, p |-> NULL]
        ELSE IF fit # NULL THEN Placed(m, top, fit, asize)
        ELSE MallocExtend(extend_heap(m, top, ExtendWords(asize)), asize)

\* Mutant of mm_free: the freed block is pushed but not coalesced.
mm_free_no_coalesce(m, payload) ==
    LET block == payload - HDR
    IN  list_push(MarkBlock(m, block, FREE), block)

mm_free(m, payload) ==
    LET block == payload - HDR
    IN  coalesce(list_push(MarkBlock(m, block, FREE), block), block).m

\* Mutant of ReallocCopy: the old block is freed before the copy, so the
\* copy reads the list links free wrote into it.
ReallocCopy_free_first(newp, ptr, uw) ==
    IF newp.p = NULL THEN [m |-> newp.m, brk |-> newp.brk, p |-> NULL, exit |-> TRUE]
    ELSE [m |-> memcpy(mm_free(newp.m, ptr), newp.p, ptr,
                       CopyWords(uw, SizeAt(newp.m, ptr - HDR))),
          brk |-> newp.brk, p |-> newp.p, exit |-> FALSE]

\* After the new block is obtained: exit(1) on NULL, else copy and free.
ReallocCopy(newp, ptr, uw) ==
    IF newp.p = NULL THEN [m |-> newp.m, brk |-> newp.brk, p |-> NULL, exit |-> TRUE]
    ELSE [m |-> mm_free(memcpy(newp.m, newp.p, ptr,
                               CopyWords(uw, SizeAt(newp.m, ptr - HDR))),
                        ptr),
          brk |-> newp.brk, p |-> newp.p, exit |-> FALSE]

\* Mutant of mm_realloc: the old block is freed before the new one is
\* allocated, so the new block may reuse the old one.
mm_realloc_free_first(m, top, ptr, uw) ==
    LET r == mm_malloc(mm_free(m, ptr), top, uw)
    IN  IF r.p = NULL THEN [m |-> r.m, brk |-> r.brk, p |-> NULL, exit |-> TRUE]
        ELSE [m |-> memcpy(r.m, r.p, ptr, CopyWords(uw, SizeAt(m, ptr - HDR))),
              brk |-> r.brk, p |-> r.p, exit |-> FALSE]

\* mm_realloc(ptr, size); the result is [m, brk, p, exit].
mm_realloc(m, top, ptr, uw) ==
    ReallocCopy(mm_malloc(m, top, uw), ptr, uw)

-----------------------------------------------------------------------------

Prologue == HEAP_LO

\* The state mm_init leaves: the prologue, one free block of
\* CHUNKSIZE - OVERHEAD as the whole list, and the epilogue.
mm_init ==
    LET init_block == Prologue + HDR
        size == CHUNKSIZE - OVERHEAD
        m1 == Wr(SetHead(<<>>, NULL), Prologue, Tag(HDR, ALLOC))
        m2 == SetPrev(SetNext(Wr(m1, init_block, Tag(size, FREE)), init_block, NULL),
                      init_block, NULL)
        m3 == SetHead(Wr(m2, get_footer(m2, init_block), Tag(size, FREE)), init_block)
    IN  Wr(m3, init_block + size, Tag(0, ALLOC))

Init ==
    /\ mem = mm_init
    /\ brk = Prologue + CHUNKSIZE
    /\ slot = [i \in IDS |-> NULL]
    /\ req = [i \in IDS |-> 0]
    /\ exited = FALSE

\* The client records what mm_malloc returned, r = [m, brk, p], and fills
\* the payload it asked for.
MallocReturns(id, uw, r) ==
    /\ mem' = IF r.p = NULL THEN r.m ELSE ClientWrites(r.m, r.p, id, 0, Filled(uw))
    /\ brk' = r.brk
    /\ slot' = [slot EXCEPT ![id] = r.p]
    /\ req' = [req EXCEPT ![id] = IF r.p = NULL THEN 0 ELSE uw]

\* What mm_realloc returned, r = [m, brk, p, exit]; on exit the client
\* stops.  Otherwise it fills the part of the payload realloc was not
\* asked to preserve (past the old request).
ReallocReturns(id, uw, r) ==
    /\ mem' = IF r.exit THEN r.m
              ELSE ClientWrites(r.m, r.p, id, Filled(IF req[id] < uw THEN req[id] ELSE uw),
                                Filled(uw))
    /\ brk' = r.brk
    /\ exited' = r.exit
    /\ slot' = IF r.exit THEN slot ELSE [slot EXCEPT ![id] = r.p]
    /\ req' = IF r.exit THEN req ELSE [req EXCEPT ![id] = uw]

\* The client calls mm_malloc for an id it does not hold.
Malloc(id, uw) ==
    /\ ~exited
    /\ slot[id] = NULL
    /\ MallocReturns(id, uw, mm_malloc(mem, brk, uw))
    /\ UNCHANGED exited

Free(id) ==
    /\ ~exited
    /\ slot[id] # NULL
    /\ mem' = mm_free(mem, slot[id])
    /\ slot' = [slot EXCEPT ![id] = NULL]
    /\ req' = [req EXCEPT ![id] = 0]
    /\ UNCHANGED <<brk, exited>>

Realloc(id, uw) ==
    /\ ~exited
    /\ slot[id] # NULL
    /\ ReallocReturns(id, uw, mm_realloc(mem, brk, slot[id], uw))

\* After exit(1) nothing happens any more.
Exited == exited /\ UNCHANGED vars

Next ==
    \/ \E id \in IDS, uw \in REQS : Malloc(id, uw)
    \/ \E id \in IDS : Free(id)
    \/ \E id \in IDS, uw \in REQS : Realloc(id, uw)
    \/ Exited

Spec == Init /\ [][Next]_vars

-----------------------------------------------------------------------------
(* What the heap looks like: the walk mm_checkheap does, and the list.     *)

Walk == WalkFrom(mem, brk, Prologue)

\* The blocks between the prologue and the epilogue.
Blocks == {Walk[k] : k \in 2..Len(Walk) - 1}
FreeBlocks == {b \in Blocks : AllocAt(mem, b) = FREE}
Held == {id \in IDS : slot[id] # NULL}

FreeList == ListFrom(mem, head(mem), Cardinality(Blocks) + 1)

\* The words the allocator can read in later calls: head, the tags of the
\* blocks on the walk and the links of free blocks.  The rest (stale tags
\* of merged blocks, old links, copied data inside payloads) never affects
\* a later step, so states differing only there are one state for TLC.
ReadableWords ==
    {HEAD_ADDR}
    \cup {Walk[k] : k \in 1..Len(Walk)}
    \cup {get_footer(mem, b) : b \in Blocks}
    \cup {b + j : b \in FreeBlocks, j \in 1..LINK_WORDS}
    \cup {slot[id] + j : id \in Held, j \in 0..LINK_WORDS - 1}
View ==
    <<Restrict(mem, DOMAIN mem \cap ReadableWords),
      DOMAIN mem \ ({HEAD_ADDR} \cup (HEAP_LO..brk - 1)), brk, slot, req, exited>>

-----------------------------------------------------------------------------
(* Properties.                                                             *)

\* Every word the allocator stores holds a tag or a link and is head or
\* lies inside the heap memlib handed out (no store through NULL or past
\* mem_brk); the heap never passes memlib's limit.
TypeOK ==
    /\ DOMAIN mem \subseteq {HEAD_ADDR} \cup (HEAP_LO..brk - 1)
    /\ \A a \in DOMAIN mem : IsWord(mem[a])
    /\ Prologue + CHUNKSIZE <= brk /\ brk <= HEAP_LO + MAX_HEAP
    /\ DOMAIN slot = IDS /\ DOMAIN req = IDS
    /\ \A id \in IDS : slot[id] = NULL \/ slot[id] \in HEAP_LO..brk - 1
    /\ \A id \in IDS : req[id] >= 0 /\ slot[id] = NULL => req[id] = 0
    /\ exited \in BOOLEAN

\* After any sequence of mallocs, frees and reallocs mm_checkheap prints
\* no diagnostic, and the heap is what it takes for granted: its walk ends
\* at the epilogue in the last word of the heap, and every block has at
\* least MIN_BLOCK_SIZE words and a footer equal to its header.
HeapWalkOK ==
    /\ mm_checkheap(mem, brk, Prologue) = {}
    /\ Walk[Len(Walk)] = brk - HDR
    /\ \A b \in Blocks :
          /\ SizeAt(mem, b) >= MIN_BLOCK_SIZE
          /\ TagAt(mem, get_footer(mem, b)) = TagAt(mem, b)

\* The list from head is a NULL-terminated doubly-linked list of exactly the
\* free blocks, each once: what list_push, list_pop and the pops and pushes
\* of place, coalesce and extend_heap must keep together.
FreeListExact ==
    /\ Len(FreeList) = Cardinality(Range(FreeList))
    /\ Range(FreeList) = FreeBlocks
    /\ \A k \in 1..Len(FreeList) :
          PrevOf(mem, FreeList[k]) = IF k = 1 THEN NULL ELSE FreeList[k - 1]

\* No two free blocks are neighbours: mm_free and extend_heap coalesce.
NoAdjacentFree ==
    \A b \in FreeBlocks : AllocAt(mem, b + SizeAt(mem, b)) = ALLOC

\* The allocated blocks are exactly the blocks of the pointers the client
\* holds, each handed out once: no block leaks, none is given twice.
ClientBlocksExact ==
    /\ {b \in Blocks : AllocAt(mem, b) = ALLOC} = {slot[id] - HDR : id \in Held}
    /\ \A i, j \in Held : i # j => slot[i] # slot[j]

\* The block behind every pointer the client holds has at least the payload
\* words it asked for (mm_malloc's asize computation).
NoTruncation ==
    \A id \in Held : SizeAt(mem, slot[id] - HDR) - OVERHEAD >= req[id]

\* The data the client stored in every block it holds is still there:
\* neither the list maintenance of any call nor mm_realloc's copy (memcpy
\* before mm_free of the old block) loses the first min(old, new) words.
HeldDataIntact ==
    \A id \in Held : \A j \in 0..Filled(req[id]) - 1 :
        slot[id] + j \in DOMAIN mem /\ mem[slot[id] + j] = Data(id)

\* mm_malloc (alone or inside mm_realloc) grows the heap only when no free
\* block could hold the request, and then by max(asize, CHUNKSIZE): a free
\* block that fits but that find_fit misses would waste the heap silently.
GrowsOnlyWhenNoFit ==
    [][brk' > brk =>
         \E id \in IDS :
            /\ slot'[id] \notin {NULL, slot[id]}
            /\ \A b \in FreeBlocks : SizeAt(mem, b) < AdjustSize(req'[id])
            /\ brk' = brk + ExtendWords(AdjustSize(req'[id]))]_vars

\* mm_realloc copies no more than the old payload: copySize never exceeds
\* block_size - OVERHEAD (the spec's "realloc over-copy" defect).
ReallocCopyWithinPayload ==
    [][\A id \in IDS :
          slot[id] # NULL /\ slot'[id] \notin {NULL, slot[id]} =>
            CopyWords(req'[id], SizeAt(mem, slot[id] - HDR))
              <= SizeAt(mem, slot[id] - HDR) - OVERHEAD]_vars

-----------------------------------------------------------------------------
(* Refinement: the allocator implements AllocSpec.  The client's pointer  *)
(* is the abstract pointer, and the abstract capacity is the payload of   *)
(* the block behind it (block_size - OVERHEAD).                            *)

Cap == [id \in IDS |-> IF slot[id] = NULL THEN 0
                       ELSE SizeAt(mem, slot[id] - HDR) - OVERHEAD]

Alloc == INSTANCE AllocSpec WITH ptr <- slot, cap <- Cap

\* Every behaviour of mm_malloc, mm_free and mm_realloc is one the abstract
\* allocator allows: a returned payload never overlaps a region the client
\* still holds (realloc's new block included), has room for the request,
\* and no call resizes another id's block.
AllocRefined == Alloc!Spec
=============================================================================

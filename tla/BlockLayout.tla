---------------------------- MODULE BlockLayout ----------------------------
(***************************************************************************)
(* The block format and the size arithmetic both allocators of this       *)
(* repository share: header_t/footer_t boundary tags, the free-block links *)
(* of block_t, get_footer, mm_malloc's size adjustment and growth size,    *)
(* mm_realloc's copy, and memlib's break.  src/malloclab-handout/mm.c and  *)
(* src/unnamed/part_000 declare these identically.                        *)
(*                                                                         *)
(* Unit: every size and address is in 8-byte words (header_t, footer_t    *)
(* and each link are one word).  A block_size field of 31 bits is a field  *)
(* of 2^28 words; a uint32_t byte count is 2^29 words.  Memory is a sparse *)
(* function from word addresses to the word stored: a boundary tag         *)
(* [size, alloc] or a link [ptr].  A word never written lies outside       *)
(* DOMAIN mem.  Reading a word as a kind it does not hold yields a fixed   *)
(* garbage value (the invariants report any code path that does so).     *)
(***************************************************************************)
EXTENDS Integers, Sequences, FiniteSets, TLC

CONSTANTS
    CHUNKSIZE,     \* CHUNKSIZE in words (the code's 1<<16 bytes is 8192)
    MAX_HEAP       \* memlib: words the heap extender can hand out in total

NULL == 0
FREE == 0
ALLOC == 1
HDR == 1               \* sizeof(header_t) = sizeof(footer_t)
OVERHEAD == 2          \* header + footer
MIN_BLOCK_SIZE == 4    \* 32 bytes
SIZE_MOD == 2^28       \* a 31-bit block_size field, in words
U32_MOD == 2^29        \* a uint32_t byte count, in words
LINK_WORDS == 2        \* the payload words a free block uses (next, prev)
\* The heap sits above the zero page, so a NULL dereference (NULL plus a
\* field offset) lands outside it.
HEAP_LO == 8

Tag(s, a) == [size |-> s % SIZE_MOD, alloc |-> a]
Link(p) == [ptr |-> p]

\* Storing one word.
Wr(m, a, v) == (a :> v) @@ m

\* Reading a word as a tag or as a link.
TagAt(m, a) ==
    IF a \in DOMAIN m /\ "size" \in DOMAIN m[a] THEN m[a] ELSE Tag(0, FREE)
SizeAt(m, a) == TagAt(m, a).size
AllocAt(m, a) == TagAt(m, a).alloc
PtrAt(m, a) ==
    IF a \in DOMAIN m /\ "ptr" \in DOMAIN m[a] THEN m[a].ptr ELSE NULL

\* Bit-field stores: each keeps the other field of the word.
SetSize(m, a, s) == Wr(m, a, Tag(s, AllocAt(m, a)))
SetAlloc(m, a, al) == Wr(m, a, Tag(SizeAt(m, a), al))

\* block->body.next and block->body.prev
NextOf(m, b) == PtrAt(m, b + 1)
PrevOf(m, b) == PtrAt(m, b + 2)
SetNext(m, b, p) == Wr(m, b + 1, Link(p))
SetPrev(m, b, p) == Wr(m, b + 2, Link(p))

get_footer(m, b) == b + SizeAt(m, b) - HDR

\* Writing a block's header, then its footer at get_footer of the new size.
WriteBlock(m, b, s, a) ==
    LET m1 == Wr(m, b, Tag(s, a)) IN Wr(m1, get_footer(m1, b), Tag(s, a))

\* block->allocated = al; get_footer(block)->allocated = al.
MarkBlock(m, b, al) ==
    LET m1 == SetAlloc(m, b, al) IN SetAlloc(m1, get_footer(m1, b), al)

\* First fit along a list linked by next.  The fuel only stops the
\* evaluation on a corrupted (cyclic) list, where the C loop would not
\* terminate.
RECURSIVE FitInList(_, _, _, _)
FitInList(m, b, asize, fuel) ==
    IF b = NULL \/ fuel = 0 THEN NULL
    ELSE IF AllocAt(m, b) = FREE /\ asize <= SizeAt(m, b) THEN b
    ELSE FitInList(m, NextOf(m, b), asize, fuel - 1)

\* memlib's mem_sbrk(incr): fails on a negative int or past the heap limit.
SbrkOK(top, incr) == incr < 2^28 /\ top + incr <= HEAP_LO + MAX_HEAP

\* Mutant of AdjustSize: the header and footer are left out of asize.
AdjustSize_no_overhead(uw) ==
    LET asize == uw % U32_MOD
    IN  IF asize < MIN_BLOCK_SIZE THEN MIN_BLOCK_SIZE ELSE asize

\* asize: align8(size + OVERHEAD) truncated to uint32_t, at least 32 bytes.
\* Requests are in payload words uw = ceil(size / 8), so the alignment is
\* the rounding up to words.
AdjustSize(uw) ==
    LET asize == (uw + OVERHEAD) % U32_MOD
    IN  IF asize < MIN_BLOCK_SIZE THEN MIN_BLOCK_SIZE ELSE asize

\* extendsize = max(asize, CHUNKSIZE), in words.
ExtendWords(asize) == IF asize > CHUNKSIZE THEN asize ELSE CHUNKSIZE

\* copySize = min(size, block_size) in words.  Only the first LINK_WORDS
\* words are copied: the rest of a payload is never read by the allocator.
CopyWords(uw, bsize) == IF uw < bsize THEN uw ELSE bsize
memcpy(m, dst, src, n) ==
    LET k == IF n < LINK_WORDS THEN n ELSE LINK_WORDS
        copied == {j \in 0..k-1 : src + j \in DOMAIN m}
    IN  [a \in DOMAIN m \cup {dst + j : j \in copied} |->
            IF a - dst \in copied THEN m[src + a - dst] ELSE m[a]]

-----------------------------------------------------------------------------
(* The data a client (the trace driver) keeps in its payloads.  Only the  *)
(* first LINK_WORDS words are tracked: they are the words the allocator's *)
(* list links and mm_realloc's copy can reach.                             *)

Data(id) == [data |-> id]
Filled(n) == IF n < LINK_WORDS THEN n ELSE LINK_WORDS

\* The client writes its data into payload words from..to-1 of p.
ClientWrites(m, p, id, from, to) ==
    [a \in DOMAIN m \cup {p + j : j \in from..to - 1} |->
        IF a - p \in from..to - 1 THEN Data(id) ELSE m[a]]

-----------------------------------------------------------------------------
(* The heap as mm_checkheap sees it, and the lists as find_fit walks them. *)

\* Block addresses from b by address + size steps, up to a size-0 block
\* (or the break, on a corrupted heap).
RECURSIVE WalkFrom(_, _, _)
WalkFrom(m, top, b) ==
    IF b >= top - HDR \/ SizeAt(m, b) = 0 THEN <<b>>
    ELSE <<b>> \o WalkFrom(m, top, b + SizeAt(m, b))

\* The diagnostics checkblock(block) prints.  The payload is one header
\* word past a word address, so the alignment test never fires here.
checkblock(m, b) ==
    IF SizeAt(m, b) # SizeAt(m, get_footer(m, b))
    THEN {"header does not match footer"} ELSE {}

\* The diagnostics mm_checkheap prints: the prologue test and checkblock,
\* checkblock on each block of the walk, then the epilogue test on the
\* block that ended it (verbose output, printblock, is left out).
mm_checkheap(m, top, prologue) ==
    LET W == WalkFrom(m, top, prologue)
        epilogue == W[Len(W)]
    IN  (IF SizeAt(m, prologue) # HDR \/ AllocAt(m, prologue) = FREE
         THEN {"Bad prologue header"} ELSE {})
        \cup UNION {checkblock(m, W[k]) : k \in 1..Len(W) - 1}
        \cup (IF SizeAt(m, epilogue) # 0 \/ AllocAt(m, epilogue) = FREE
             THEN {"Bad epilogue header"} ELSE {})

\* A list followed by next links, cut after fuel nodes.
RECURSIVE ListFrom(_, _, _)
ListFrom(m, b, fuel) ==
    IF b = NULL \/ fuel = 0 THEN <<>> ELSE <<b>> \o ListFrom(m, NextOf(m, b), fuel - 1)

IsWord(v) ==
    \/ DOMAIN v = {"size", "alloc"} /\ 0 <= v.size /\ v.size < SIZE_MOD
                                   /\ v.alloc \in {FREE, ALLOC}
    \/ DOMAIN v = {"ptr"} /\ v.ptr >= 0
    \/ DOMAIN v = {"data"}
=============================================================================

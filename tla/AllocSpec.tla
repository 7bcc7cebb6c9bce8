----------------------------- MODULE AllocSpec -----------------------------
(***************************************************************************)
(* What an allocator of this repository promises its client (spec.md      *)
(* sections 4.4, 6 and 8), independent of blocks, tags and lists.          *)
(*                                                                         *)
(* The client holds at most one pointer per id.  ptr[id] is that pointer   *)
(* (NULL when none) and cap[id] the payload words behind it.  A malloc    *)
(* either fails (NULL, no visible change) or hands out a region of at     *)
(* least the requested words that overlaps no region the client holds.    *)
(* A free gives the region back.  A realloc either aborts the process or  *)
(* hands out a fresh region, disjoint from all held regions, the old one  *)
(* included, and gives the old one back.  No call moves or resizes the    *)
(* region of another id.                                                   *)
(***************************************************************************)
EXTENDS Integers

CONSTANTS IDS, REQS

VARIABLES
    ptr,     \* id -> payload pointer the client holds, or 0 (NULL)
    cap,     \* id -> payload words behind ptr[id]
    req,     \* id -> payload words the client asked for
    exited   \* the process has aborted

avars == <<ptr, cap, req, exited>>

Region(id) == IF ptr[id] = 0 THEN {} ELSE ptr[id]..ptr[id] + cap[id] - 1

\* The region id gets in this step: at least uw words, clear of every
\* region held before the step.
FreshRegion(id, uw) ==
    /\ ptr'[id] # 0
    /\ cap'[id] >= uw
    /\ \A j \in IDS : (ptr'[id]..ptr'[id] + cap'[id] - 1) \cap Region(j) = {}

Others(id) == \A j \in IDS \ {id} : ptr'[j] = ptr[j] /\ cap'[j] = cap[j]

Init ==
    /\ ptr = [i \in IDS |-> 0]
    /\ cap = [i \in IDS |-> 0]
    /\ req = [i \in IDS |-> 0]
    /\ exited = FALSE

\* A malloc that returns a pointer (a NULL return changes nothing).
Malloc(id, uw) ==
    /\ ~exited
    /\ ptr[id] = 0
    /\ uw > 0
    /\ FreshRegion(id, uw)
    /\ Others(id)
    /\ req' = [req EXCEPT ![id] = uw]
    /\ UNCHANGED exited

Free(id) ==
    /\ ~exited
    /\ ptr[id] # 0
    /\ ptr'[id] = 0 /\ cap'[id] = 0
    /\ Others(id)
    /\ req' = [req EXCEPT ![id] = 0]
    /\ UNCHANGED exited

Realloc(id, uw) ==
    /\ ~exited
    /\ ptr[id] # 0
    /\ FreshRegion(id, uw)
    /\ Others(id)
    /\ req' = [req EXCEPT ![id] = uw]
    /\ UNCHANGED exited

\* realloc's allocation failed: exit(1) with every region as it was.
Abort ==
    /\ ~exited
    /\ \E id \in IDS : ptr[id] # 0
    /\ exited' = TRUE
    /\ UNCHANGED <<ptr, cap, req>>

Next ==
    \/ \E id \in IDS, uw \in REQS : Malloc(id, uw) \/ Realloc(id, uw)
    \/ \E id \in IDS : Free(id)
    \/ Abort

Spec == Init /\ [][Next]_avars
=============================================================================

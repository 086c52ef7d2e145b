---------------------------- MODULE PageAllocator ----------------------------
(***************************************************************************)
(* What the physical memory manager promises its callers, without bitmap,  *)
(* counter or scan: every page is free, held by a caller, or reserved.  A  *)
(* request takes the lowest run of free pages that is long enough, and     *)
(* fails only when there is none.                                          *)
(***************************************************************************)
EXTENDS Integers

CONSTANT Pages          \* the page numbers, 0 .. total_pages - 1
VARIABLES free, held    \* disjoint sets of pages; the rest is reserved

vars == <<free, held>>

Run(s, n) == s .. (s + n - 1)

\* The lowest start of a run of n free pages is s.
LowestRun(s, n) == /\ Run(s, n) \subseteq free
                   /\ \A t \in Pages : Run(t, n) \subseteq free => s <= t

Init == free = {} /\ held = {}

\* A reserved page becomes available to callers.
Release(p) == /\ p \notin free \cup held
              /\ free' = free \cup {p}
              /\ UNCHANGED held

\* An available page is withdrawn.
Reserve(p) == /\ p \in free
              /\ free' = free \ {p}
              /\ UNCHANGED held

Alloc(s, n) == /\ LowestRun(s, n)
               /\ free' = free \ Run(s, n)
               /\ held' = held \cup Run(s, n)

\* A caller gives pages up: they are reserved until they are released.
GiveUp(P) == /\ P \subseteq held
             /\ held' = held \ P
             /\ UNCHANGED free

\* A caller gives one page up and it is available at once.
GiveBack(p) == /\ p \in held
               /\ held' = held \ {p}
               /\ free' = free \cup {p}

Next == \/ \E p \in Pages : Release(p) \/ Reserve(p) \/ GiveBack(p)
        \/ \E s, e \in Pages : s <= e /\ Alloc(s, e - s + 1)
        \/ \E P \in SUBSET Pages : GiveUp(P)

Spec == Init /\ [][Next]_vars
==============================================================================

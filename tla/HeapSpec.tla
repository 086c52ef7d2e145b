------------------------------ MODULE HeapSpec -------------------------------
(***************************************************************************)
(* What kmalloc and kfree promise: the memory of different live            *)
(* allocations never overlaps and stays inside the arena.                  *)
(***************************************************************************)
EXTENDS Integers

CONSTANTS Lo, Hi        \* the arena is the addresses Lo .. Hi - 1
VARIABLE alloc          \* live allocations: a function from address to size

\* The two byte ranges [p, p + m) and [q, q + n) have no byte in common.
Apart(p, m, q, n) == p + m <= q \/ q + n <= p

Init == alloc = [p \in {} |-> 0]

Malloc(p, n) ==
  /\ p \notin DOMAIN alloc
  /\ Lo <= p /\ p + n <= Hi
  /\ \A q \in DOMAIN alloc : Apart(p, n, q, alloc[q])
  /\ alloc' = [q \in DOMAIN alloc \cup {p} |-> IF q = p THEN n ELSE alloc[q]]

Free(p) ==
  /\ p \in DOMAIN alloc
  /\ alloc' = [q \in DOMAIN alloc \ {p} |-> alloc[q]]

Next == \/ \E p \in DOMAIN alloc : Free(p)
        \/ \E p \in DOMAIN alloc' : Malloc(p, alloc'[p])

Spec == Init /\ [][Next]_alloc
==============================================================================

------------------------------- MODULE KHeap ---------------------------------
(***************************************************************************)
(* The kernel heap, kernel/mem/kheap.c: a singly linked list of blocks     *)
(* laid out one after the other in the arena, each a header of             *)
(* BLOCK_HEADER_SIZE bytes and a payload.  Addresses and sizes are the     *)
(* numbers the code computes with.  A call is an action and each iteration *)
(* of its list walk is a step.  Nothing else runs meanwhile: no interrupt  *)
(* handler uses the heap.                                                  *)
(*                                                                         *)
(* Only the headers that the list links are kept: the bytes of an unlinked *)
(* header belong to a payload, and no code reads them as a header again.   *)
(***************************************************************************)
EXTENDS Integers, FiniteSets

CONSTANTS Start,              \* the arena: kernel_heap_mem
          HeapSize,
          BLOCK_HEADER_SIZE,  \* sizeof(struct heap_block): 24, or 12 on i386
          WORD,               \* 2^w, w the width of size_t
          Requests            \* the sizes that callers pass

NULL == 0
End == Start + HeapSize

ASSUME KHeapAssumption ==
  /\ Start \in Nat /\ Start > 0
  /\ BLOCK_HEADER_SIZE \in Nat /\ BLOCK_HEADER_SIZE > 0
  /\ HeapSize \in Nat /\ HeapSize >= BLOCK_HEADER_SIZE
  /\ WORD \in Nat /\ End + BLOCK_HEADER_SIZE + 16 < WORD
  /\ Requests \subseteq 0 .. (WORD - 1)

VARIABLES
  blocks,               \* the headers in the list
  size, is_free, next,  \* their fields, functions on blocks
  pc,                   \* the running call, "idle" between calls
  curr,                 \* its list cursor
  req, asked,           \* kmalloc: the aligned and the original size
  ret,                  \* what the last kmalloc returned
  live                  \* ghost: payload address |-> size asked for

list == <<blocks, size, is_free, next>>
locals == <<curr, req, asked>>
vars == <<blocks, size, is_free, next, pc, curr, req, asked, ret, live>>

heap_head == Start
Payload(b) == b + BLOCK_HEADER_SIZE
BlockEnd(b) == Payload(b) + size[b]

\* Arithmetic on size_t, for a sum of two words.
Wrap(x) == IF x >= WORD THEN x - WORD ELSE x

\* (size + 15) & ~15
AlignDown(n) == n - (n % 16)
AlignUp(n) == LET s == Wrap(n + 15) IN s - (s % 16)

Init ==
  /\ blocks = {heap_head}
  /\ size = [b \in blocks |-> HeapSize - BLOCK_HEADER_SIZE]
  /\ is_free = [b \in blocks |-> TRUE]
  /\ next = [b \in blocks |-> NULL]
  /\ pc = "idle"
  /\ curr = NULL /\ req = 0 /\ asked = 0
  /\ ret = NULL
  /\ live = [p \in {} |-> 0]

Return(value) ==
  /\ pc' = "idle"
  /\ ret' = value
  /\ curr' = NULL /\ req' = 0 /\ asked' = 0

-----------------------------------------------------------------------------
(* kmalloc, and kzalloc, which also clears the "asked" bytes of the payload. *)

kmalloc(n) ==
  /\ pc = "idle"
  /\ IF n = 0
     THEN Return(NULL)
     ELSE /\ pc' = "kmalloc" /\ curr' = heap_head
          /\ req' = AlignUp(n) /\ asked' = n
          /\ UNCHANGED ret
  /\ UNCHANGED <<list, live>>

FitsAny(b) == is_free[b]
FitsStrictly(b) == is_free[b] /\ size[b] > req
Fits(b) == is_free[b] /\ size[b] >= req

Splits(b) == size[b] >= Wrap(req + BLOCK_HEADER_SIZE + 16)

\* Cut the block b after req bytes; the rest becomes a free block of n bytes.
SplitLeaving(b, n) ==
  LET new_block == Payload(b) + req IN
  /\ blocks' = blocks \cup {new_block}
  /\ size' = [c \in blocks' |-> IF c = new_block THEN n
                                ELSE IF c = b THEN req ELSE size[c]]
  /\ next' = [c \in blocks' |-> IF c = new_block THEN next[b]
                                ELSE IF c = b THEN new_block ELSE next[c]]
  /\ is_free' = [c \in blocks' |-> IF c = new_block THEN TRUE
                                   ELSE IF c = b THEN FALSE ELSE is_free[c]]
SplitNoHeader(b) == SplitLeaving(b, size[b] - req)
Split(b) == SplitLeaving(b, size[b] - req - BLOCK_HEADER_SIZE)

TakeWhole(b) ==
  /\ is_free' = [is_free EXCEPT ![b] = FALSE]
  /\ UNCHANGED <<blocks, size, next>>

Found ==
  /\ pc = "kmalloc" /\ curr # NULL
  /\ Fits(curr)
  /\ IF Splits(curr) THEN Split(curr) ELSE TakeWhole(curr)
  /\ live' = [p \in DOMAIN live \cup {Payload(curr)} |->
                IF p = Payload(curr) THEN asked ELSE live[p]]
  /\ Return(Payload(curr))

TryNext ==
  /\ pc = "kmalloc" /\ curr # NULL
  /\ ~Fits(curr)
  /\ curr' = next[curr]
  /\ UNCHANGED <<list, pc, req, asked, ret, live>>

NotFound ==
  /\ pc = "kmalloc" /\ curr = NULL
  /\ Return(NULL)
  /\ UNCHANGED <<list, live>>

-----------------------------------------------------------------------------
(* kfree: callers pass NULL or a pointer kmalloc gave them. *)

kfree(ptr) ==
  /\ pc = "idle"
  /\ is_free' = [is_free EXCEPT ![ptr - BLOCK_HEADER_SIZE] = TRUE]
  /\ live' = [p \in DOMAIN live \ {ptr} |-> live[p]]
  /\ pc' = "kfree" /\ curr' = heap_head
  /\ UNCHANGED <<blocks, size, next, req, asked, ret>>

kfreeNull == pc = "idle" /\ UNCHANGED vars

Walking == pc = "kfree" /\ curr # NULL /\ next[curr] # NULL

\* Merge curr with the block after it and leave the cursor at c.
MergeTo(c) ==
  LET gone == next[curr] IN
  /\ Walking /\ is_free[curr] /\ is_free[gone]
  /\ blocks' = blocks \ {gone}
  /\ size' = [b \in blocks' |-> IF b = curr THEN size[b] + BLOCK_HEADER_SIZE + size[gone]
                                ELSE size[b]]
  /\ next' = [b \in blocks' |-> IF b = curr THEN next[gone] ELSE next[b]]
  /\ is_free' = [b \in blocks' |-> is_free[b]]
  /\ curr' = c
  /\ UNCHANGED <<pc, req, asked, ret, live>>

MergeAndMove == MergeTo(next[next[curr]])
Merge == MergeTo(curr)

KeepApart ==
  /\ Walking /\ ~(is_free[curr] /\ is_free[next[curr]])
  /\ curr' = next[curr]
  /\ UNCHANGED <<list, pc, req, asked, ret, live>>

FreeDone ==
  /\ pc = "kfree" /\ ~Walking
  /\ Return(ret)
  /\ UNCHANGED <<list, live>>

-----------------------------------------------------------------------------
Call == \/ \E n \in Requests : kmalloc(n)
        \/ \E ptr \in DOMAIN live : kfree(ptr)
        \/ kfreeNull

Step == Found \/ TryNext \/ NotFound \/ Merge \/ KeepApart \/ FreeDone

Next == Call \/ Step

Spec == Init /\ [][Next]_vars

-----------------------------------------------------------------------------
(* Properties *)

\* The type of the state.
TypeOK ==
  /\ blocks \in SUBSET (Start .. End) /\ heap_head \in blocks
  /\ size \in [blocks -> Nat]
  /\ is_free \in [blocks -> BOOLEAN]
  /\ next \in [blocks -> blocks \cup {NULL}]
  /\ pc \in {"idle", "kmalloc", "kfree"}
  /\ curr \in blocks \cup {NULL}
  /\ req \in Nat /\ asked \in 0 .. (WORD - 1) /\ ret \in Nat
  /\ DOMAIN live \subseteq {Payload(b) : b \in blocks}
  /\ \A p \in DOMAIN live : live[p] \in 0 .. (WORD - 1)

\* The list tiles the arena: each block ends where the next one starts and the
\* last one ends at the end of the arena, through every split and merge.  No
\* byte is lost, no two headers or payloads overlap, the list has no cycle.
Tiled ==
  /\ \A b \in blocks : next[b] = IF BlockEnd(b) = End THEN NULL ELSE BlockEnd(b)
  /\ \A b, c \in blocks : b < c => BlockEnd(b) <= c
  /\ \A b \in blocks : BlockEnd(b) <= End

\* A block is marked used exactly while a caller has its payload.
UsedIsLive == \A b \in blocks : ~is_free[b] <=> Payload(b) \in DOMAIN live

\* The request did not wrap around in (size + 15) & ~15.
NoWrap(n) == n + 15 < WORD

\* Every caller has at least the bytes it asked for, unless its size wrapped.
LiveFits == \A b \in blocks : Payload(b) \in DOMAIN live /\ NoWrap(live[Payload(b)])
                                => live[Payload(b)] <= size[b]

\* Neither kmalloc's split nor kfree leaves two free neighbours behind: the
\* merge loop reaches every pair although it never looks back.
Coalesced ==
  pc # "kfree" => \A b \in blocks : is_free[b] /\ next[b] # NULL => ~is_free[next[b]]

\* Once every allocation has been freed the arena is one free block again, so
\* no order of calls wears the heap out.
NoWear == pc = "idle" /\ DOMAIN live = {} => blocks = {heap_head} /\ is_free[heap_head]

\* kmalloc fails only when no free block is large enough.
FailsOnlyWhenFull == [][NotFound => \A b \in blocks : is_free[b] => size[b] < req]_vars

\* What the walks know: kmalloc has passed no block that fits, kfree has left no
\* two free neighbours behind its cursor.
Passed(b) == curr = NULL \/ b < curr
FreePair(b) == is_free[b] /\ next[b] # NULL /\ is_free[next[b]]

LoopInv ==
  /\ pc = "kmalloc" => /\ \A b \in blocks : Passed(b) => ~Fits(b)
                       /\ NoWrap(asked) => asked <= req
  /\ pc = "kfree" => \A b \in blocks : Passed(b) => ~FreePair(b)

\* The inductive invariant.
IInv == TypeOK /\ Tiled /\ UsedIsLive /\ LiveFits /\ Coalesced /\ LoopInv

\* The heap keeps its promise to callers.  A request that wrapped has been given
\* an empty block.
Given(n) == IF NoWrap(n) THEN n ELSE 0
Alloc == [p \in DOMAIN live |-> Given(live[p])]
Abs == INSTANCE HeapSpec WITH Lo <- Start, Hi <- End, alloc <- Alloc
ImplementsHeap == Abs!Spec

==============================================================================

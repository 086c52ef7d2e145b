----------------------------- MODULE KHeapProofs -----------------------------
(* The heap's invariants and its refinement, for every arena, header size,  *)
(* word size and set of requests that KHeapAssumption allows.               *)
EXTENDS KHeap, TLAPS

\* The arithmetic of the request: the rounded size is a size, and it is at least
\* the size asked for unless the sum wrapped.
LEMMA AlignUpFacts ==
  ASSUME NEW n \in 0 .. (WORD - 1)
  PROVE  AlignUp(n) \in Nat /\ (NoWrap(n) => n <= AlignUp(n))
<1> DEFINE s == Wrap(n + 15)
<1>1. n \in Nat /\ WORD \in Nat /\ WORD > 16
  BY KHeapAssumption DEF End
<1>2. s \in Nat /\ (n + 15 < WORD => s = n + 15)
  BY <1>1 DEF Wrap
<1>3. s % 16 \in 0 .. 15 /\ s - (s % 16) \in Nat
  BY <1>2
<1> QED BY <1>1, <1>2, <1>3 DEF AlignUp, NoWrap

\* A block's numbers.
LEMMA BlockNumbers ==
  ASSUME TypeOK, Tiled, NEW b \in blocks
  PROVE  /\ b \in Nat /\ b >= Start /\ b # NULL /\ size[b] \in Nat
         /\ Payload(b) \in Nat /\ BlockEnd(b) \in Nat
         /\ BlockEnd(b) = b + BLOCK_HEADER_SIZE + size[b]
         /\ b < BlockEnd(b) /\ BlockEnd(b) <= End
         /\ End \in Nat
BY KHeapAssumption DEF TypeOK, Tiled, Payload, BlockEnd, End, NULL

\* The block after b is the nearest one above it.
LEMMA NextBlock ==
  ASSUME TypeOK, Tiled, NEW b \in blocks, next[b] # NULL
  PROVE  /\ next[b] \in blocks /\ next[b] = BlockEnd(b) /\ b < next[b]
         /\ \A c \in blocks : c < next[b] => c <= b
<1>1. next[b] \in blocks
  BY DEF TypeOK
<1>2. next[b] = BlockEnd(b)
  BY DEF Tiled
<1>3. b < next[b]
  BY <1>2, BlockNumbers
<1>4. ASSUME NEW c \in blocks, c < next[b] PROVE c <= b
  <2>1. b < c => BlockEnd(b) <= c
    BY DEF Tiled
  <2>2. b \in Nat /\ c \in Nat /\ BlockEnd(b) \in Nat
    BY BlockNumbers
  <2> QED BY <1>2, <1>4, <2>1, <2>2
<1> QED BY <1>1, <1>2, <1>3, <1>4

\* The block without a successor is the last one.
LEMMA LastBlock ==
  ASSUME TypeOK, Tiled, NEW b \in blocks, next[b] = NULL
  PROVE  BlockEnd(b) = End /\ \A c \in blocks : c <= b
<1>1. BlockEnd(b) = End
  BY BlockNumbers DEF Tiled, NULL
<1>2. ASSUME NEW c \in blocks PROVE c <= b
  <2>1. b < c => BlockEnd(b) <= c
    BY DEF Tiled
  <2>2. b \in Nat /\ c \in Nat /\ c < BlockEnd(c) /\ BlockEnd(c) <= End
        /\ BlockEnd(c) \in Nat /\ End \in Nat
    BY BlockNumbers
  <2> QED BY <1>1, <2>1, <2>2
<1> QED BY <1>1, <1>2

-----------------------------------------------------------------------------
LEMMA InitIInv == Init => IInv
<1> SUFFICES ASSUME Init PROVE IInv
  OBVIOUS
<1>1. /\ blocks = {Start} /\ size = [b \in {Start} |-> HeapSize - BLOCK_HEADER_SIZE]
      /\ is_free = [b \in {Start} |-> TRUE] /\ next = [b \in {Start} |-> NULL]
      /\ pc = "idle" /\ curr = NULL /\ req = 0 /\ asked = 0 /\ ret = NULL
      /\ DOMAIN live = {}
  BY DEF Init, heap_head
<1>2. /\ Start \in Nat /\ Start > 0 /\ HeapSize - BLOCK_HEADER_SIZE \in Nat
      /\ Start \in Start .. End /\ WORD > 0 /\ 0 \in 0 .. (WORD - 1)
      /\ BLOCK_HEADER_SIZE \in Nat
  BY KHeapAssumption DEF End
<1>3. BlockEnd(Start) = End
  BY <1>1, <1>2, KHeapAssumption DEF BlockEnd, Payload, End
<1>4. TypeOK
  BY <1>1, <1>2 DEF TypeOK, heap_head, NULL
<1>5. Tiled
  BY <1>1, <1>2, <1>3, KHeapAssumption DEF Tiled, End
<1>6. UsedIsLive /\ LiveFits /\ Coalesced /\ LoopInv
  BY <1>1 DEF UsedIsLive, LiveFits, Coalesced, LoopInv
<1> QED BY <1>4, <1>5, <1>6 DEF IInv

\* The list, and with it everything the invariant says of it, is unchanged.
LEMMA ListUnchanged ==
  ASSUME IInv, UNCHANGED list, UNCHANGED live
  PROVE  Tiled' /\ UsedIsLive' /\ LiveFits'
<1>1. UNCHANGED <<blocks, size, is_free, next, live>>
  BY DEF list
<1>2. \A b : BlockEnd(b)' = BlockEnd(b)
  BY <1>1 DEF BlockEnd, Payload
<1>3. Tiled'
  BY <1>1, <1>2 DEF IInv, Tiled
<1>4. UsedIsLive' /\ LiveFits'
  BY <1>1 DEF IInv, UsedIsLive, LiveFits, Payload, NoWrap
<1> QED BY <1>3, <1>4

LEMMA KmallocIInv ==
  ASSUME IInv, NEW n \in Requests, kmalloc(n)
  PROVE  IInv'
<1>1. n \in 0 .. (WORD - 1) /\ 0 \in 0 .. (WORD - 1)
  BY KHeapAssumption
<1>2. UNCHANGED list /\ UNCHANGED live /\ UNCHANGED <<blocks, size, is_free, next, live>>
  BY DEF kmalloc, list
<1>3. Tiled' /\ UsedIsLive' /\ LiveFits'
  BY <1>2, ListUnchanged
<1>4. pc = "idle"
  BY DEF kmalloc
<1>5. Coalesced'
  BY <1>2, <1>4 DEF IInv, Coalesced
<1>6. CASE n = 0
  <2>1. pc' = "idle" /\ ret' = NULL /\ curr' = NULL /\ req' = 0 /\ asked' = 0
    BY <1>6 DEF kmalloc, Return
  <2>2. TypeOK'
    BY <1>1, <1>2, <2>1 DEF IInv, TypeOK, Payload, heap_head, NULL
  <2>3. LoopInv'
    BY <2>1 DEF LoopInv
  <2> QED BY <1>3, <1>5, <2>2, <2>3 DEF IInv
<1>7. CASE n # 0
  <2>1. pc' = "kmalloc" /\ curr' = Start /\ req' = AlignUp(n) /\ asked' = n /\ ret' = ret
    BY <1>7 DEF kmalloc, heap_head
  <2>2. AlignUp(n) \in Nat /\ (NoWrap(n) => n <= AlignUp(n))
    BY <1>1, AlignUpFacts
  <2>3. TypeOK'
    BY <1>1, <1>2, <2>1, <2>2 DEF IInv, TypeOK, Payload, heap_head
  <2>4. \A b \in blocks : b >= Start /\ b \in Nat
    BY BlockNumbers DEF IInv
  <2>5. ~(Start = NULL) /\ Start \in Nat
    BY KHeapAssumption DEF NULL
  <2>6. LoopInv'
    BY <1>2, <2>1, <2>2, <2>4, <2>5 DEF LoopInv, Passed, NoWrap
  <2> QED BY <1>3, <1>5, <2>3, <2>6 DEF IInv
<1> QED BY <1>6, <1>7

LEMMA TryNextIInv == ASSUME IInv, TryNext PROVE IInv'
<1>1. /\ UNCHANGED list /\ UNCHANGED live
      /\ UNCHANGED <<blocks, size, is_free, next, pc, req, asked, ret, live>>
      /\ pc = "kmalloc" /\ curr \in blocks /\ ~Fits(curr) /\ curr' = next[curr]
  BY DEF TryNext, list, IInv, TypeOK
<1>2. Tiled' /\ UsedIsLive' /\ LiveFits' /\ Coalesced'
  BY <1>1, ListUnchanged DEF IInv, Coalesced
<1>3. TypeOK'
  BY <1>1 DEF IInv, TypeOK, Payload, heap_head
<1>4. ASSUME NEW b \in blocks, curr' = NULL \/ b < curr' PROVE ~Fits(b)
  <2>1. b <= curr /\ b \in Nat /\ curr \in Nat
    BY <1>1, <1>4, NextBlock, LastBlock, BlockNumbers DEF IInv
  <2>2. CASE b = curr
    BY <1>1, <2>2
  <2>3. CASE b < curr
    BY <1>1, <2>3 DEF IInv, LoopInv, Passed
  <2> QED BY <2>1, <2>2, <2>3
<1>5. LoopInv'
  BY <1>1, <1>4 DEF IInv, LoopInv, Passed, Fits, NoWrap
<1> QED BY <1>2, <1>3, <1>5 DEF IInv

\* A call returns without touching the list.
LEMMA NotFoundIInv == ASSUME IInv, NotFound PROVE IInv'
<1>1. /\ UNCHANGED list /\ UNCHANGED live
      /\ UNCHANGED <<blocks, size, is_free, next, live>>
      /\ pc = "kmalloc" /\ pc' = "idle" /\ ret' = NULL /\ curr' = NULL /\ req' = 0 /\ asked' = 0
  BY DEF NotFound, Return, list
<1>2. Tiled' /\ UsedIsLive' /\ LiveFits' /\ Coalesced'
  BY <1>1, ListUnchanged DEF IInv, Coalesced
<1>3. TypeOK' /\ LoopInv'
  BY <1>1, KHeapAssumption DEF IInv, TypeOK, LoopInv, Payload, heap_head, NULL
<1> QED BY <1>2, <1>3 DEF IInv

\* When the merge walk ends there is no pair of free neighbours left.
LEMMA WalkEnds ==
  ASSUME IInv, pc = "kfree", ~Walking
  PROVE  \A b \in blocks : ~FreePair(b)
<1>1. CASE curr = NULL
  BY <1>1 DEF IInv, LoopInv, Passed
<1>2. CASE curr # NULL
  <2>1. curr \in blocks /\ next[curr] = NULL
    BY <1>2 DEF Walking, IInv, TypeOK
  <2> TAKE b \in blocks
  <2>2. b <= curr /\ b \in Nat /\ curr \in Nat
    BY <2>1, LastBlock, BlockNumbers DEF IInv
  <2>3. CASE b = curr
    BY <2>1, <2>3 DEF FreePair
  <2>4. CASE b < curr
    BY <2>4 DEF IInv, LoopInv, Passed
  <2> QED BY <2>2, <2>3, <2>4
<1> QED BY <1>1, <1>2

LEMMA FreeDoneIInv == ASSUME IInv, FreeDone PROVE IInv'
<1>1. /\ UNCHANGED list /\ UNCHANGED live
      /\ UNCHANGED <<blocks, size, is_free, next, live>>
      /\ pc = "kfree" /\ ~Walking
      /\ pc' = "idle" /\ ret' = ret /\ curr' = NULL /\ req' = 0 /\ asked' = 0
  BY DEF FreeDone, Return, list
<1>2. Tiled' /\ UsedIsLive' /\ LiveFits'
  BY <1>1, ListUnchanged
<1>3. Coalesced'
  BY <1>1, WalkEnds DEF Coalesced, FreePair
<1>4. TypeOK' /\ LoopInv'
  BY <1>1, KHeapAssumption DEF IInv, TypeOK, LoopInv, Payload, heap_head
<1> QED BY <1>2, <1>3, <1>4 DEF IInv

LEMMA KfreeIInv ==
  ASSUME IInv, NEW ptr \in DOMAIN live, kfree(ptr)
  PROVE  IInv'
<1> DEFINE block == ptr - BLOCK_HEADER_SIZE
<1>1. block \in blocks /\ Payload(block) = ptr
  <2>1. PICK b \in blocks : ptr = Payload(b)
    BY DEF IInv, TypeOK
  <2>2. b \in Nat /\ BLOCK_HEADER_SIZE \in Nat
    BY BlockNumbers, KHeapAssumption DEF IInv
  <2>3. b = block
    BY <2>1, <2>2 DEF Payload
  <2> QED BY <2>1, <2>3
<1>2. /\ pc = "idle" /\ pc' = "kfree" /\ curr' = Start
      /\ UNCHANGED <<blocks, size, next, req, asked, ret>>
      /\ is_free' = [is_free EXCEPT ![block] = TRUE]
      /\ live' = [p \in DOMAIN live \ {ptr} |-> live[p]]
  BY DEF kfree, heap_head
<1>3. TypeOK'
  BY <1>1, <1>2 DEF IInv, TypeOK, Payload, heap_head
<1>4. Tiled'
  BY <1>2 DEF IInv, Tiled, BlockEnd, Payload
<1>5. \A b \in blocks : Payload(b) = ptr => b = block
  BY BlockNumbers, KHeapAssumption DEF IInv, Payload
<1>6. UsedIsLive'
  <2> SUFFICES ASSUME NEW b \in blocks
               PROVE  ~is_free'[b] <=> Payload(b) \in DOMAIN live \ {ptr}
    BY <1>2 DEF UsedIsLive, Payload
  <2>1. CASE b = block
    BY <1>1, <1>2, <2>1 DEF IInv, TypeOK
  <2>2. CASE b # block
    BY <1>2, <1>5, <2>2 DEF IInv, TypeOK, UsedIsLive
  <2> QED BY <2>1, <2>2
<1>7. LiveFits'
  BY <1>2 DEF IInv, LiveFits, Payload, NoWrap
<1>8. Coalesced'
  BY <1>2 DEF Coalesced
<1>9. LoopInv'
  <2>1. \A b \in blocks : b >= Start /\ b \in Nat
    BY BlockNumbers DEF IInv
  <2>2. ~(Start = NULL) /\ Start \in Nat
    BY KHeapAssumption DEF NULL
  <2> QED BY <1>2, <2>1, <2>2 DEF LoopInv, Passed
<1> QED BY <1>3, <1>4, <1>6, <1>7, <1>8, <1>9 DEF IInv

LEMMA KeepApartIInv == ASSUME IInv, KeepApart PROVE IInv'
<1>1. /\ UNCHANGED list /\ UNCHANGED live
      /\ UNCHANGED <<blocks, size, is_free, next, pc, req, asked, ret, live>>
      /\ pc = "kfree" /\ curr \in blocks /\ next[curr] # NULL
      /\ ~FreePair(curr) /\ curr' = next[curr]
  BY DEF KeepApart, Walking, FreePair, list, IInv, TypeOK
<1>2. Tiled' /\ UsedIsLive' /\ LiveFits' /\ Coalesced'
  BY <1>1, ListUnchanged DEF IInv, Coalesced
<1>3. TypeOK'
  BY <1>1 DEF IInv, TypeOK, Payload, heap_head
<1>4. ASSUME NEW b \in blocks, curr' = NULL \/ b < curr' PROVE ~FreePair(b)
  <2>1. b <= curr /\ b \in Nat /\ curr \in Nat
    BY <1>1, <1>4, NextBlock, BlockNumbers DEF IInv
  <2>2. CASE b = curr
    BY <1>1, <2>2
  <2>3. CASE b < curr
    BY <1>1, <2>3 DEF IInv, LoopInv, Passed
  <2> QED BY <2>1, <2>2, <2>3
<1>5. LoopInv'
  BY <1>1, <1>4 DEF IInv, LoopInv, Passed, FreePair
<1> QED BY <1>2, <1>3, <1>5 DEF IInv

LEMMA MergeIInv == ASSUME IInv, Merge PROVE IInv'
<1> DEFINE g == next[curr]
<1> USE DEF NULL
<1>1. /\ pc = "kfree" /\ curr \in blocks /\ g # NULL /\ is_free[curr] /\ is_free[g]
      /\ blocks' = blocks \ {g}
      /\ size' = [b \in blocks' |-> IF b = curr THEN size[b] + BLOCK_HEADER_SIZE + size[g]
                                    ELSE size[b]]
      /\ next' = [b \in blocks' |-> IF b = curr THEN next[g] ELSE next[b]]
      /\ is_free' = [b \in blocks' |-> is_free[b]]
      /\ UNCHANGED <<pc, curr, req, asked, ret, live>>
  BY DEF Merge, MergeTo, Walking, IInv, TypeOK
<1>2. /\ g \in blocks /\ g = BlockEnd(curr) /\ curr < g
      /\ \A c \in blocks : c < g => c <= curr
  BY <1>1, NextBlock DEF IInv
<1>3. /\ \A b \in blocks : /\ b \in Nat /\ size[b] \in Nat /\ b >= Start
                           /\ BlockEnd(b) \in Nat /\ b < BlockEnd(b) /\ BlockEnd(b) <= End
                           /\ BlockEnd(b) = b + BLOCK_HEADER_SIZE + size[b]
      /\ BLOCK_HEADER_SIZE \in Nat /\ End \in Nat /\ Start \in Nat /\ Start > 0
  BY BlockNumbers, KHeapAssumption DEF IInv, End
<1>4. curr \in blocks' /\ curr # g /\ Start \in blocks'
  BY <1>1, <1>2, <1>3 DEF IInv, TypeOK, heap_head
<1>5. \A b \in blocks' : BlockEnd(b)' = IF b = curr THEN BlockEnd(g) ELSE BlockEnd(b)
  BY <1>1, <1>2, <1>3 DEF BlockEnd, Payload
<1>6. \A b \in blocks' : /\ b \in blocks /\ b # g
                         /\ next'[b] # g
                         /\ next'[b] \in blocks \cup {NULL}
  <2> SUFFICES ASSUME NEW b \in blocks'
               PROVE  b \in blocks /\ b # g /\ next'[b] # g /\ next'[b] \in blocks \cup {NULL}
    OBVIOUS
  <2>1. b \in blocks /\ b # g
    BY <1>1
  <2>2. CASE b = curr
    <3>1. next'[b] = next[g] /\ next[g] \in blocks \cup {NULL}
      BY <1>1, <1>2, <1>4, <2>2 DEF IInv, TypeOK
    <3>2. next[g] # NULL => g < next[g]
      BY <1>2, NextBlock DEF IInv
    <3> QED BY <1>1, <1>2, <1>3, <2>1, <3>1, <3>2
  <2>3. CASE b # curr
    <3>1. next'[b] = next[b] /\ next[b] \in blocks \cup {NULL}
      BY <1>1, <2>1, <2>3 DEF IInv, TypeOK
    <3>2. ASSUME next[b] = g PROVE FALSE
      <4>1. g = BlockEnd(b) /\ b < g
        BY <1>1, <2>1, <3>2, NextBlock DEF IInv
      <4>2. b <= curr /\ b # curr
        BY <1>2, <2>1, <2>3, <4>1
      <4>3. BlockEnd(b) <= curr
        BY <1>1, <1>3, <2>1, <4>2 DEF IInv, Tiled
      <4> QED BY <1>1, <1>2, <1>3, <4>1, <4>3
    <3> QED BY <2>1, <3>1, <3>2
  <2> QED BY <2>2, <2>3
<1>7. Payload(g) \notin DOMAIN live
  BY <1>1, <1>2 DEF IInv, UsedIsLive
<1>8. TypeOK'
  <2>1. blocks' \in SUBSET (Start .. End) /\ Start \in blocks' /\ curr' \in blocks'
    BY <1>1, <1>4 DEF IInv, TypeOK
  <2>2. size' \in [blocks' -> Nat]
    BY <1>1, <1>2, <1>3
  <2>3. is_free' \in [blocks' -> BOOLEAN]
    BY <1>1 DEF IInv, TypeOK
  <2>4. next' \in [blocks' -> blocks' \cup {NULL}]
    BY <1>1, <1>6
  <2>5. DOMAIN live' \subseteq {Payload(b) : b \in blocks'}
    BY <1>1, <1>7 DEF IInv, TypeOK
  <2> QED BY <1>1, <2>1, <2>2, <2>3, <2>4, <2>5 DEF IInv, TypeOK, heap_head, Payload
<1>9. Tiled'
  <2>1. \A b \in blocks' : next'[b] = IF BlockEnd(b)' = End THEN NULL ELSE BlockEnd(b)'
    <3> TAKE b \in blocks'
    <3>1. CASE b = curr
      BY <1>1, <1>2, <1>4, <1>5, <3>1 DEF IInv, Tiled
    <3>2. CASE b # curr
      BY <1>1, <1>5, <1>6, <3>2 DEF IInv, Tiled
    <3> QED BY <3>1, <3>2
  <2>2. ASSUME NEW b \in blocks', NEW c \in blocks', b < c
        PROVE  BlockEnd(b)' <= c
    <3>1. b \in blocks /\ c \in blocks /\ c # g
      BY <1>6
    <3>2. CASE b = curr
      <4>1. ~(c < g)
        BY <1>2, <1>3, <2>2, <3>1, <3>2
      <4>2. g < c
        BY <1>2, <1>3, <3>1, <4>1
      <4> QED BY <1>2, <1>5, <3>1, <3>2, <4>2 DEF IInv, Tiled
    <3>3. CASE b # curr
      BY <1>5, <2>2, <3>1, <3>3 DEF IInv, Tiled
    <3> QED BY <3>2, <3>3
  <2>3. \A b \in blocks' : BlockEnd(b)' <= End
    BY <1>2, <1>3, <1>5, <1>6
  <2>4. \A b, c \in blocks' : b < c => BlockEnd(b)' <= c
    BY <2>2
  <2> QED BY <2>1, <2>3, <2>4 DEF Tiled, End
<1>10. UsedIsLive'
  BY <1>1 DEF IInv, UsedIsLive, Payload
<1>11. LiveFits'
  <2> SUFFICES ASSUME NEW b \in blocks', Payload(b) \in DOMAIN live, NoWrap(live[Payload(b)])
               PROVE  live[Payload(b)] <= size'[b]
    BY <1>1 DEF LiveFits, Payload, NoWrap
  <2>1. b \in blocks /\ live[Payload(b)] <= size[b] /\ live[Payload(b)] \in Nat
    BY <1>1, KHeapAssumption DEF IInv, LiveFits, TypeOK
  <2>2. size'[b] >= size[b] /\ size'[b] \in Nat
    BY <1>1, <1>2, <1>3, <2>1
  <2> QED BY <1>3, <2>1, <2>2
<1>12. Coalesced'
  BY <1>1 DEF Coalesced
<1>13. LoopInv'
  <2>1. ASSUME NEW b \in blocks', b < curr
        PROVE  ~(is_free'[b] /\ next'[b] # NULL /\ is_free'[next'[b]])
    <3>1. b \in blocks /\ b # curr
      BY <1>1, <1>3, <1>6, <2>1
    <3>2. next'[b] = next[b] /\ is_free'[b] = is_free[b]
      BY <1>1, <2>1, <3>1
    <3>3. next[b] # NULL => is_free'[next'[b]] = is_free[next[b]]
      BY <1>1, <1>6, <2>1, <3>2
    <3>4. ~FreePair(b)
      BY <1>1, <2>1, <3>1 DEF IInv, LoopInv, Passed
    <3> QED BY <3>2, <3>3, <3>4 DEF FreePair
  <2>2. curr # NULL
    BY <1>1, <1>3
  <2> QED BY <1>1, <2>1, <2>2 DEF LoopInv, Passed, FreePair
<1> QED BY <1>8, <1>9, <1>10, <1>11, <1>12, <1>13 DEF IInv

\* A block that fits and can be split has room for the header and 16 bytes more.
LEMMA SplitRoom ==
  ASSUME IInv, NEW b \in blocks, Fits(b), Splits(b)
  PROVE  size[b] >= req + BLOCK_HEADER_SIZE + 16
<1>1. /\ req \in Nat /\ size[b] \in Nat /\ req <= size[b] /\ BLOCK_HEADER_SIZE \in Nat
      /\ WORD \in Nat /\ HeapSize \in Nat /\ Start \in Nat /\ b \in Nat /\ b >= Start
      /\ b + BLOCK_HEADER_SIZE + size[b] <= Start + HeapSize
      /\ Start + HeapSize + BLOCK_HEADER_SIZE + 16 < WORD
  BY BlockNumbers, KHeapAssumption DEF IInv, TypeOK, Fits, End
<1>2. req + BLOCK_HEADER_SIZE + 16 < WORD
  BY <1>1
<1>3. Wrap(req + BLOCK_HEADER_SIZE + 16) = req + BLOCK_HEADER_SIZE + 16
  BY <1>1, <1>2 DEF Wrap
<1> QED BY <1>3 DEF Splits

\* What Found does besides the list.
LEMMA FoundFrame ==
  ASSUME IInv, Found
  PROVE  /\ pc = "kmalloc" /\ curr \in blocks /\ curr # NULL /\ Fits(curr) /\ is_free[curr]
         /\ req \in Nat /\ req <= size[curr] /\ (NoWrap(asked) => asked <= req)
         /\ live' = [p \in DOMAIN live \cup {Payload(curr)} |->
                       IF p = Payload(curr) THEN asked ELSE live[p]]
         /\ pc' = "idle" /\ ret' = Payload(curr) /\ curr' = NULL /\ req' = 0 /\ asked' = 0
         /\ \A b \in blocks : Payload(b) = Payload(curr) => b = curr
<1>1. pc = "kmalloc" /\ curr \in blocks /\ curr # NULL /\ Fits(curr) /\ is_free[curr]
      /\ req \in Nat /\ req <= size[curr] /\ (NoWrap(asked) => asked <= req)
  BY DEF Found, Fits, IInv, TypeOK, LoopInv
<1>2. \A b \in blocks : Payload(b) = Payload(curr) => b = curr
  BY <1>1, BlockNumbers, KHeapAssumption DEF IInv, Payload
<1> QED BY <1>1, <1>2 DEF Found, Return

LEMMA TakeWholeIInv ==
  ASSUME IInv, Found, TakeWhole(curr)
  PROVE  IInv'
<1>1. /\ is_free' = [is_free EXCEPT ![curr] = FALSE]
      /\ UNCHANGED <<blocks, size, next>>
  BY DEF TakeWhole
<1>2. Tiled'
  BY <1>1 DEF IInv, Tiled, BlockEnd, Payload
<1>3. TypeOK'
  <2>1. Payload(curr) \in Nat
    BY FoundFrame, BlockNumbers DEF IInv
  <2>2. 0 \in 0 .. (WORD - 1)
    BY KHeapAssumption DEF End
  <2> QED BY <1>1, <2>1, <2>2, FoundFrame DEF IInv, TypeOK, Payload, heap_head, NULL
<1>4. UsedIsLive'
  <2> SUFFICES ASSUME NEW b \in blocks
               PROVE  ~is_free'[b] <=> Payload(b) \in DOMAIN live \cup {Payload(curr)}
    BY <1>1, FoundFrame DEF UsedIsLive, Payload
  <2>1. CASE b = curr
    BY <1>1, <2>1 DEF IInv, TypeOK
  <2>2. CASE b # curr
    BY <1>1, <2>2, FoundFrame DEF IInv, TypeOK, UsedIsLive
  <2> QED BY <2>1, <2>2
<1>5. LiveFits'
  <2> SUFFICES ASSUME NEW b \in blocks, Payload(b) \in DOMAIN live \cup {Payload(curr)},
                      NoWrap(live'[Payload(b)])
               PROVE  live'[Payload(b)] <= size[b]
    BY <1>1, FoundFrame DEF LiveFits, Payload, NoWrap
  <2>1. CASE b = curr
    <3>1. live'[Payload(b)] = asked
      BY <2>1, FoundFrame
    <3>2. asked <= req /\ req <= size[b] /\ asked \in Nat /\ req \in Nat /\ size[b] \in Nat
      BY <2>1, <3>1, FoundFrame, BlockNumbers, KHeapAssumption DEF IInv, TypeOK
    <3> QED BY <3>1, <3>2
  <2>2. CASE b # curr
    <3>1. Payload(b) # Payload(curr)
      BY <2>2, FoundFrame
    <3>2. live'[Payload(b)] = live[Payload(b)] /\ Payload(b) \in DOMAIN live
      BY <3>1, FoundFrame
    <3> QED BY <3>2 DEF IInv, LiveFits
  <2> QED BY <2>1, <2>2
<1>6. Coalesced'
  BY <1>1, FoundFrame DEF IInv, TypeOK, Coalesced
<1>7. LoopInv'
  BY FoundFrame DEF LoopInv
<1> QED BY <1>2, <1>3, <1>4, <1>5, <1>6, <1>7 DEF IInv

LEMMA SplitIInv ==
  ASSUME IInv, Found, Splits(curr), Split(curr)
  PROVE  IInv'
<1> DEFINE w == Payload(curr) + req
           rest == size[curr] - req - BLOCK_HEADER_SIZE
<1>1. /\ blocks' = blocks \cup {w}
      /\ size' = [c \in blocks' |-> IF c = w THEN rest ELSE IF c = curr THEN req ELSE size[c]]
      /\ next' = [c \in blocks' |-> IF c = w THEN next[curr]
                                    ELSE IF c = curr THEN w ELSE next[c]]
      /\ is_free' = [c \in blocks' |-> IF c = w THEN TRUE
                                       ELSE IF c = curr THEN FALSE ELSE is_free[c]]
  BY DEF Split, SplitLeaving
<1>2. /\ curr \in blocks /\ req \in Nat /\ size[curr] >= req + BLOCK_HEADER_SIZE + 16
      /\ BLOCK_HEADER_SIZE \in Nat /\ BLOCK_HEADER_SIZE > 0
  BY FoundFrame, SplitRoom, KHeapAssumption
<1>3. \A b \in blocks : /\ b \in Nat /\ size[b] \in Nat /\ b >= Start /\ b # NULL
                        /\ BlockEnd(b) \in Nat /\ b < BlockEnd(b) /\ BlockEnd(b) <= End
                        /\ BlockEnd(b) = b + BLOCK_HEADER_SIZE + size[b]
  BY BlockNumbers, KHeapAssumption DEF IInv
<1>4. /\ w = curr + BLOCK_HEADER_SIZE + req /\ w \in Nat /\ rest \in Nat
      /\ curr < w /\ w < BlockEnd(curr) /\ w + BLOCK_HEADER_SIZE + rest = BlockEnd(curr)
      /\ End \in Nat /\ Start \in Nat
  BY <1>2, <1>3, KHeapAssumption DEF Payload, End
<1>5. w \notin blocks /\ w # curr
  <2>1. w \in blocks => BlockEnd(curr) <= w
    BY <1>2, <1>4 DEF IInv, Tiled
  <2> QED BY <1>2, <1>3, <1>4, <2>1
<1>6. \A b \in blocks' : BlockEnd(b)' = IF b = w THEN BlockEnd(curr)
                                        ELSE IF b = curr THEN w ELSE BlockEnd(b)
  BY <1>1, <1>2, <1>4, <1>5 DEF BlockEnd, Payload
<1>7. Payload(w) \notin DOMAIN live /\ \A b \in blocks : Payload(b) # Payload(w)
  <2>1. \A b \in blocks : Payload(b) # Payload(w)
    BY <1>2, <1>3, <1>4, <1>5 DEF Payload
  <2> QED BY <2>1 DEF IInv, TypeOK
<1>8. TypeOK'
  <2>1. blocks' \in SUBSET (Start .. End) /\ Start \in blocks'
    <3>1. w \in Start .. End
      BY <1>2, <1>3, <1>4
    <3>2. blocks \in SUBSET (Start .. End) /\ Start \in blocks
      BY DEF IInv, TypeOK, heap_head
    <3> QED BY <1>1, <3>1, <3>2
  <2>2. size' \in [blocks' -> Nat]
    BY <1>1, <1>2, <1>3, <1>4
  <2>3. is_free' \in [blocks' -> BOOLEAN]
    BY <1>1 DEF IInv, TypeOK
  <2>4. next' \in [blocks' -> blocks' \cup {NULL}]
    BY <1>1, <1>2 DEF IInv, TypeOK
  <2>5. Payload(curr) \in Nat /\ 0 \in 0 .. (WORD - 1)
    BY <1>2, BlockNumbers, KHeapAssumption DEF IInv, End
  <2>6. DOMAIN live' \subseteq {Payload(b) : b \in blocks'}
    BY <1>1, <1>2, FoundFrame DEF IInv, TypeOK
  <2>7. \A p \in DOMAIN live' : live'[p] \in 0 .. (WORD - 1)
    BY FoundFrame DEF IInv, TypeOK
  <2> QED BY <2>1, <2>2, <2>3, <2>4, <2>5, <2>6, <2>7, FoundFrame
          DEF TypeOK, heap_head, Payload, NULL
<1>9. Tiled'
  <2>1. \A b \in blocks' : next'[b] = IF BlockEnd(b)' = End THEN NULL ELSE BlockEnd(b)'
    <3> TAKE b \in blocks'
    <3>1. CASE b = w
      BY <1>1, <1>2, <1>6, <3>1 DEF IInv, Tiled
    <3>2. CASE b = curr
      <4>1. next'[b] = w /\ BlockEnd(b)' = w
        BY <1>1, <1>5, <1>6, <3>2
      <4>2. w # End
        BY <1>2, <1>3, <1>4
      <4> QED BY <4>1, <4>2
    <3>3. CASE b # w /\ b # curr
      BY <1>1, <1>6, <3>3 DEF IInv, Tiled
    <3> QED BY <3>1, <3>2, <3>3
  <2>2. ASSUME NEW b \in blocks', NEW c \in blocks', b < c
        PROVE  BlockEnd(b)' <= c
    <3>1. b \in Nat /\ c \in Nat
      BY <1>1, <1>3, <1>4
    <3>2. CASE b = w
      <4>1. c \in blocks /\ curr < c
        BY <1>1, <1>2, <1>3, <1>4, <2>2, <3>1, <3>2
      <4>2. BlockEnd(curr) <= c
        BY <1>2, <4>1 DEF IInv, Tiled
      <4> QED BY <1>6, <3>2, <4>2
    <3>3. CASE b = curr
      <4>1. BlockEnd(b)' = w
        BY <1>5, <1>6, <3>3
      <4>2. CASE c = w
        BY <1>4, <4>1, <4>2
      <4>3. CASE c # w
        <5>1. BlockEnd(curr) <= c
          BY <1>1, <1>2, <2>2, <3>3, <4>3 DEF IInv, Tiled
        <5> QED BY <1>2, <1>3, <1>4, <3>1, <4>1, <5>1
      <4> QED BY <4>2, <4>3
    <3>4. CASE b # w /\ b # curr
      <4>1. b \in blocks /\ BlockEnd(b)' = BlockEnd(b)
        BY <1>1, <1>6, <3>4
      <4>2. CASE c = w
        <5>1. ~(curr < b)
          <6>1. curr < b => BlockEnd(curr) <= b
            BY <1>2, <4>1 DEF IInv, Tiled
          <6> QED BY <1>2, <1>3, <1>4, <2>2, <3>1, <4>2, <6>1
        <5>2. b < curr
          BY <1>2, <1>3, <3>4, <4>1, <5>1
        <5>3. BlockEnd(b) <= curr
          BY <1>2, <4>1, <5>2 DEF IInv, Tiled
        <5> QED BY <1>2, <1>3, <1>4, <4>1, <4>2, <5>3
      <4>3. CASE c # w
        BY <1>1, <2>2, <4>1, <4>3 DEF IInv, Tiled
      <4> QED BY <4>2, <4>3
    <3> QED BY <3>2, <3>3, <3>4
  <2>3. \A b \in blocks' : BlockEnd(b)' <= End
    BY <1>1, <1>2, <1>3, <1>4, <1>6
  <2>4. \A b, c \in blocks' : b < c => BlockEnd(b)' <= c
    BY <2>2
  <2> QED BY <2>1, <2>3, <2>4 DEF Tiled, End
<1>10. UsedIsLive'
  <2> SUFFICES ASSUME NEW b \in blocks'
               PROVE  ~is_free'[b] <=> Payload(b) \in DOMAIN live \cup {Payload(curr)}
    BY FoundFrame DEF UsedIsLive, Payload
  <2>1. CASE b = w
    BY <1>1, <1>2, <1>7, <2>1
  <2>2. CASE b = curr
    BY <1>1, <1>5, <2>2
  <2>3. CASE b # w /\ b # curr
    <3>1. b \in blocks /\ is_free'[b] = is_free[b]
      BY <1>1, <2>3
    <3>2. Payload(b) # Payload(curr)
      BY <2>3, <3>1, FoundFrame
    <3> QED BY <3>1, <3>2 DEF IInv, UsedIsLive
  <2> QED BY <2>1, <2>2, <2>3
<1>11. LiveFits'
  <2> SUFFICES ASSUME NEW b \in blocks', Payload(b) \in DOMAIN live \cup {Payload(curr)},
                      NoWrap(live'[Payload(b)])
               PROVE  live'[Payload(b)] <= size'[b]
    BY FoundFrame DEF LiveFits, Payload, NoWrap
  <2>1. b # w
    BY <1>2, <1>7
  <2>2. CASE b = curr
    BY <1>1, <1>5, <2>2, FoundFrame
  <2>3. CASE b # curr
    <3>1. b \in blocks /\ size'[b] = size[b]
      BY <1>1, <2>1, <2>3
    <3>2. Payload(b) # Payload(curr)
      BY <2>3, <3>1, FoundFrame
    <3>3. live'[Payload(b)] = live[Payload(b)] /\ Payload(b) \in DOMAIN live
      BY <3>2, FoundFrame
    <3> QED BY <3>1, <3>3 DEF IInv, LiveFits
  <2> QED BY <2>2, <2>3
<1>12. Coalesced'
  <2> SUFFICES ASSUME NEW b \in blocks', is_free'[b], next'[b] # NULL
               PROVE  ~is_free'[next'[b]]
    BY DEF Coalesced
  <2>1. b # curr
    BY <1>1, <1>5
  <2>2. /\ \A c \in blocks : is_free[c] /\ next[c] # NULL => ~is_free[next[c]]
        /\ is_free[curr]
    BY FoundFrame DEF IInv, Coalesced
  <2>3. CASE b = w
    <3>1. next'[b] = next[curr] /\ next[curr] \in blocks
      BY <1>1, <1>2, <2>3 DEF IInv, TypeOK
    <3>2. ~is_free[next[curr]]
      BY <1>2, <2>2, <3>1
    <3> QED BY <1>1, <1>5, <3>1, <3>2
  <2>4. CASE b # w
    <3>1. b \in blocks /\ next'[b] = next[b] /\ is_free[b] /\ next[b] \in blocks
      BY <1>1, <2>1, <2>4 DEF IInv, TypeOK
    <3>2. ~is_free[next[b]]
      BY <2>2, <3>1
    <3> QED BY <1>1, <1>5, <3>1, <3>2
  <2> QED BY <2>3, <2>4
<1>13. LoopInv'
  BY FoundFrame DEF LoopInv
<1> QED BY <1>8, <1>9, <1>10, <1>11, <1>12, <1>13 DEF IInv

LEMMA NextIInv == IInv /\ [Next]_vars => IInv'
<1> SUFFICES ASSUME IInv, [Next]_vars PROVE IInv'
  OBVIOUS
<1>1. CASE UNCHANGED vars
  BY <1>1 DEF vars, IInv, TypeOK, Tiled, UsedIsLive, LiveFits, Coalesced, LoopInv,
              BlockEnd, Payload, Fits, Passed, FreePair, NoWrap
<1>2. CASE Call
  <2>1. kfreeNull => UNCHANGED vars
    BY DEF kfreeNull
  <2> QED BY <1>1, <1>2, <2>1, KmallocIInv, KfreeIInv DEF Call
<1>3. CASE Found
  BY <1>3, TakeWholeIInv, SplitIInv DEF Found
<1>4. CASE TryNext \/ NotFound \/ Merge \/ KeepApart \/ FreeDone
  BY <1>4, TryNextIInv, NotFoundIInv, MergeIInv, KeepApartIInv, FreeDoneIInv
<1> QED BY <1>1, <1>2, <1>3, <1>4 DEF Next, Step

-----------------------------------------------------------------------------
\* IInv holds throughout every run of the heap.
THEOREM Invariance == Spec => []IInv
BY InitIInv, NextIInv, PTL DEF Spec

\* The state stays well typed: the cursor is always a linked header or NULL.
THEOREM TypeCorrect == Spec => []TypeOK
BY Invariance, PTL DEF IInv

\* Through every split and merge the list tiles the arena exactly.
THEOREM AlwaysTiled == Spec => []Tiled
BY Invariance, PTL DEF IInv

\* Blocks are used exactly while callers have them, and are large enough.
THEOREM CallersServed == Spec => [](UsedIsLive /\ LiveFits)
BY Invariance, PTL DEF IInv

\* No two free neighbours survive a kfree.
THEOREM AlwaysCoalesced == Spec => []Coalesced
BY Invariance, PTL DEF IInv

\* Once every allocation has been freed the arena is a single free block.
THEOREM NeverWorn == Spec => []NoWear
<1>1. IInv => NoWear
  <2> SUFFICES ASSUME IInv, pc = "idle", DOMAIN live = {}
               PROVE  blocks = {heap_head} /\ is_free[heap_head]
    BY DEF NoWear
  <2>1. \A b \in blocks : is_free[b]
    BY DEF IInv, UsedIsLive
  <2>2. heap_head \in blocks /\ heap_head = Start
    BY DEF IInv, TypeOK, heap_head
  <2>3. next[heap_head] = NULL
    <3>1. next[heap_head] \in blocks \cup {NULL}
      BY <2>2 DEF IInv, TypeOK
    <3> QED BY <2>1, <2>2, <3>1 DEF IInv, Coalesced
  <2>4. \A b \in blocks : b <= heap_head /\ heap_head <= b /\ b \in Nat /\ heap_head \in Nat
    BY <2>2, <2>3, LastBlock, BlockNumbers DEF IInv
  <2> QED BY <2>1, <2>2, <2>4
<1> QED BY <1>1, Invariance, PTL

\* kmalloc gives up only when every free block is too small.
THEOREM NoFalseFailure == Spec => FailsOnlyWhenFull
<1>1. IInv /\ NotFound => \A b \in blocks : is_free[b] => size[b] < req
  BY BlockNumbers DEF NotFound, IInv, TypeOK, LoopInv, Passed, Fits
<1>2. IInv /\ [Next]_vars
        => [NotFound => \A b \in blocks : is_free[b] => size[b] < req]_vars
  BY <1>1
<1> QED BY <1>2, Invariance, PTL DEF Spec, FailsOnlyWhenFull

-----------------------------------------------------------------------------
(* Refinement of HeapSpec. *)

\* What a caller has been given lies inside its block.
LEMMA GivenInBlock ==
  ASSUME IInv, NEW p \in DOMAIN live
  PROVE  \E b \in blocks : p = Payload(b) /\ Given(live[p]) \in Nat /\ Given(live[p]) <= size[b]
<1>1. PICK b \in blocks : p = Payload(b)
  BY DEF IInv, TypeOK
<1>2. live[p] \in Nat /\ size[b] \in Nat
  BY BlockNumbers, KHeapAssumption DEF IInv, TypeOK
<1>3. NoWrap(live[p]) => live[p] <= size[b]
  BY <1>1 DEF IInv, LiveFits
<1> QED BY <1>1, <1>2, <1>3 DEF Given

LEMMA FoundRefines ==
  ASSUME IInv, Found
  PROVE  \E p \in DOMAIN Alloc' : Abs!Malloc(p, Alloc'[p])
<1> DEFINE p == Payload(curr)
           n == Given(asked)
<1>1. p \notin DOMAIN live
  BY FoundFrame DEF IInv, UsedIsLive
<1>2. Alloc' = [q \in DOMAIN live \cup {p} |-> IF q = p THEN n ELSE Given(live[q])]
  BY FoundFrame DEF Alloc, Given, NoWrap
<1>3. /\ p \in Nat /\ p = curr + BLOCK_HEADER_SIZE /\ BLOCK_HEADER_SIZE \in Nat
      /\ curr \in Nat /\ curr >= Start /\ Start \in Nat /\ End \in Nat
      /\ size[curr] \in Nat /\ p + size[curr] = BlockEnd(curr) /\ BlockEnd(curr) <= End
  BY FoundFrame, BlockNumbers, KHeapAssumption DEF IInv, Payload
<1>4. n \in Nat /\ n <= size[curr]
  <2>1. asked \in Nat /\ req \in Nat /\ req <= size[curr] /\ (NoWrap(asked) => asked <= req)
    BY FoundFrame, KHeapAssumption DEF IInv, TypeOK
  <2> QED BY <1>3, <2>1 DEF Given
<1>5. Start <= p /\ p + n <= End
  BY <1>3, <1>4
<1>6. ASSUME NEW q \in DOMAIN live
      PROVE  p + n <= q \/ q + Given(live[q]) <= p
  <2>1. PICK b \in blocks : q = Payload(b) /\ Given(live[q]) \in Nat /\ Given(live[q]) <= size[b]
    BY GivenInBlock
  <2>2. b # curr /\ curr \in blocks
    BY <1>1, <2>1, FoundFrame
  <2>3. /\ b \in Nat /\ size[b] \in Nat /\ q = b + BLOCK_HEADER_SIZE
        /\ BlockEnd(b) = b + BLOCK_HEADER_SIZE + size[b]
    BY <2>1, BlockNumbers DEF IInv, Payload
  <2>4. CASE b < curr
    <3>1. BlockEnd(b) <= curr
      BY <2>2, <2>4 DEF IInv, Tiled
    <3> QED BY <1>3, <2>1, <2>3, <3>1
  <2>5. CASE curr < b
    <3>1. BlockEnd(curr) <= b
      BY <2>2, <2>5 DEF IInv, Tiled
    <3> QED BY <1>3, <1>4, <2>1, <2>3, <3>1
  <2> QED BY <1>3, <2>2, <2>3, <2>4, <2>5
<1>7. DOMAIN Alloc = DOMAIN live /\ \A q \in DOMAIN live : Alloc[q] = Given(live[q])
  BY DEF Alloc
<1>8. Abs!Malloc(p, n)
  BY <1>1, <1>2, <1>5, <1>6, <1>7 DEF Abs!Malloc, Abs!Apart
<1>9. p \in DOMAIN Alloc' /\ Alloc'[p] = n
  BY <1>2
<1> QED BY <1>8, <1>9

LEMMA KfreeRefines ==
  ASSUME NEW p \in DOMAIN live, kfree(p)
  PROVE  Abs!Free(p)
<1>1. live' = [q \in DOMAIN live \ {p} |-> live[q]]
  BY DEF kfree
<1>2. Alloc' = [q \in DOMAIN live \ {p} |-> Given(live[q])]
  BY <1>1 DEF Alloc, Given, NoWrap
<1> QED BY <1>2 DEF Abs!Free, Alloc, Given

\* The heap implements HeapSpec: what two callers hold never overlaps, and an
\* allocation is only ever ended by its own kfree.
THEOREM Refinement == Spec => ImplementsHeap
<1>1. Init => Abs!Init
  BY DEF Init, Abs!Init, Alloc
<1>2. IInv /\ [Next]_vars => [Abs!Next]_Alloc
  <2> SUFFICES ASSUME IInv, [Next]_vars PROVE [Abs!Next]_Alloc
    OBVIOUS
  <2>1. UNCHANGED live => UNCHANGED Alloc
    BY DEF Alloc, Given, NoWrap
  <2>2. CASE Found
    BY <2>2, FoundRefines DEF Abs!Next
  <2>3. ASSUME NEW p \in DOMAIN live, kfree(p) PROVE Abs!Next
    <3>1. p \in DOMAIN Alloc
      BY DEF Alloc
    <3> QED BY <2>3, <3>1, KfreeRefines DEF Abs!Next
  <2>4. UNCHANGED vars \/ TryNext \/ NotFound \/ Merge \/ KeepApart \/ FreeDone \/ kfreeNull
          => UNCHANGED live
    BY DEF vars, TryNext, NotFound, Merge, MergeTo, KeepApart, FreeDone, kfreeNull
  <2>5. \A n : kmalloc(n) => UNCHANGED live
    BY DEF kmalloc
  <2> QED BY <2>1, <2>2, <2>3, <2>4, <2>5 DEF Next, Call, Step
<1> QED BY <1>1, <1>2, Invariance, PTL DEF Spec, ImplementsHeap, Abs!Spec
==============================================================================

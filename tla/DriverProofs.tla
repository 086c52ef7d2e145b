------------------------------ MODULE DriverProofs -----------------------------
(* The network driver's two rings, for every number of descriptors and of     *)
(* frames, and what the FAT32 reader returns, for every image and every call.  *)
EXTENDS E1000, FAT32, SequenceTheorems, FiniteSetTheorems, WellFoundedInduction, TLAPS

-----------------------------------------------------------------------------
(* Rings: arrays whose slots are used in order, again and again. *)

\* Rings of K slots, the slot of a position, and what w slots behind slot t contain, in order.
Buffers(C, K) == [0 .. K - 1 -> C]
Around(x, K) == x % K
Window(buf, t, w, K) == [n \in 1 .. w |-> buf[Around(t + n, K)]]

\* Slot u comes after slot t.
Follows(u, t, K) == u = t + 1 \/ u = t + 1 - K

\* A position that has gone around the ring once at most.
LEMMA AroundOnce ==
  ASSUME NEW K \in Nat, K > 0, NEW x \in Nat, x < 2 * K
  PROVE  /\ x < K => Around(x, K) = x
         /\ x >= K => Around(x, K) = x - K
         /\ Around(x, K) \in 0 .. K - 1
BY DEF Around

\* The contents of a window: a sequence, element by element.
LEMMA WindowIsSeq ==
  ASSUME NEW C, NEW K \in Nat, K > 0, NEW buf \in Buffers(C, K),
         NEW t \in Int, -1 <= t, t < K, NEW w \in Nat, w <= K
  PROVE  /\ Window(buf, t, w, K) \in Seq(C) /\ Len(Window(buf, t, w, K)) = w
         /\ \A n \in 1 .. w : Window(buf, t, w, K)[n] = buf[Around(t + n, K)]
<1>1. ASSUME NEW n \in 1 .. w PROVE Around(t + n, K) \in 0 .. K - 1
  <2>1. t + n \in Nat /\ t + n < 2 * K
    OBVIOUS
  <2> QED BY <2>1, AroundOnce
<1>2. \A n \in 1 .. w : buf[Around(t + n, K)] \in C
  BY <1>1 DEF Buffers
<1> QED BY <1>2 DEF Window

\* Windows whose slots contain the same are equal.
LEMMA WindowSame ==
  ASSUME NEW K, NEW buf, NEW buf2, NEW t, NEW w,
         \A n \in 1 .. w : buf2[Around(t + n, K)] = buf[Around(t + n, K)]
  PROVE  Window(buf2, t, w, K) = Window(buf, t, w, K)
BY DEF Window

\* Where a window may start, how long it may be, and what it is then.
Start(t, K) == t \in Int /\ -1 <= t /\ t < K
Length(w, K) == w \in Nat /\ w <= K
Holds(s, C, buf, t, w, K) ==
  s \in Seq(C) /\ Len(s) = w /\ \A n \in 1 .. w : s[n] = buf[Around(t + n, K)]

LEMMA WindowHolds ==
  ASSUME NEW C, NEW K \in Nat, K > 0, NEW buf \in Buffers(C, K),
         NEW t, Start(t, K), NEW w, Length(w, K)
  PROVE  Holds(Window(buf, t, w, K), C, buf, t, w, K)
BY WindowIsSeq DEF Start, Length, Holds

\* The slot behind a window, which is x, makes it longer by one.
LEMMA WindowAppend ==
  ASSUME NEW C, NEW K \in Nat, K > 0, NEW buf \in Buffers(C, K),
         NEW t \in Int, -1 <= t, t < K, NEW w \in Nat, w < K,
         NEW v \in Nat, v = w + 1, NEW x \in Nat, x = t + w + 1
  PROVE  Window(buf, t, v, K) = Append(Window(buf, t, w, K), buf[Around(x, K)])
<1> DEFINE new == Window(buf, t, v, K)
           old == Window(buf, t, w, K)
           last == buf[Around(x, K)]
<1>1. /\ old \in Seq(C) /\ Len(old) = w
      /\ \A n \in 1 .. w : old[n] = buf[Around(t + n, K)]
  <2>1. Start(t, K) /\ Length(w, K)
    BY DEF Start, Length
  <2> HIDE DEF old
  <2>2. Holds(old, C, buf, t, w, K)
    BY <2>1, WindowHolds DEF old
  <2> QED BY <2>2 DEF Holds
<1>2. /\ new \in Seq(C) /\ Len(new) = v
      /\ \A n \in 1 .. v : new[n] = buf[Around(t + n, K)]
  <2>1. Start(t, K) /\ Length(v, K)
    BY DEF Start, Length
  <2> HIDE DEF new
  <2>2. Holds(new, C, buf, t, v, K)
    BY <2>1, WindowHolds DEF new
  <2> QED BY <2>2 DEF Holds
<1>3. last = new[v] /\ last \in C
  <2>1. t + v = x /\ v \in 1 .. v
    OBVIOUS
  <2>2. last = new[v]
    BY <1>2, <2>1
  <2> QED BY <1>2, <2>1, <2>2, ElementOfSeq
<1> HIDE DEF new, old, last
<1>4. /\ Append(old, last) \in Seq(C) /\ Len(Append(old, last)) = v
      /\ \A n \in 1 .. w : Append(old, last)[n] = old[n]
      /\ Append(old, last)[v] = last
  BY <1>1, <1>3, AppendProperties
<1>5. \A n \in 1 .. v : new[n] = Append(old, last)[n]
  <2> TAKE n \in 1 .. v
  <2>1. CASE n = v
    BY <1>3, <1>4, <2>1
  <2>2. CASE n \in 1 .. w
    BY <1>1, <1>2, <1>4, <2>2
  <2>3. n = v \/ n \in 1 .. w
    OBVIOUS
  <2> QED BY <2>1, <2>2, <2>3
<1>6. new = Append(old, last)
  BY <1>2, <1>4, <1>5, SeqEqual
<1> QED BY <1>6 DEF new, old, last

\* Without its first slot the window is its tail.
LEMMA WindowTail ==
  ASSUME NEW C, NEW K \in Nat, K > 0, NEW buf \in Buffers(C, K),
         NEW t \in Int, -1 <= t, t < K, NEW w \in Nat, 0 < w, w <= K,
         NEW v \in Nat, v = w - 1,
         NEW u \in Int, -1 <= u, u < K, Follows(u, t, K)
  PROVE  /\ Window(buf, t, w, K) /= <<>>
         /\ Head(Window(buf, t, w, K)) = buf[Around(t + 1, K)]
         /\ Tail(Window(buf, t, w, K)) = Window(buf, u, v, K)
<1> DEFINE old == Window(buf, t, w, K)
           new == Window(buf, u, v, K)
<1>1. /\ old \in Seq(C) /\ Len(old) = w
      /\ \A n \in 1 .. w : old[n] = buf[Around(t + n, K)]
  <2>1. Start(t, K) /\ Length(w, K)
    BY DEF Start, Length
  <2> HIDE DEF old
  <2>2. Holds(old, C, buf, t, w, K)
    BY <2>1, WindowHolds DEF old
  <2> QED BY <2>2 DEF Holds
<1>2. /\ new \in Seq(C) /\ Len(new) = v
      /\ \A n \in 1 .. v : new[n] = buf[Around(u + n, K)]
  <2>1. Start(u, K) /\ Length(v, K)
    BY DEF Start, Length
  <2> HIDE DEF new
  <2>2. Holds(new, C, buf, u, v, K)
    BY <2>1, WindowHolds DEF new
  <2> QED BY <2>2 DEF Holds
<1>3. ASSUME NEW n \in 1 .. v PROVE Around(u + n, K) = Around(t + (n + 1), K)
  <2>1. t + (n + 1) \in Nat /\ u + n \in Nat /\ t + (n + 1) < 2 * K /\ u + n < 2 * K
    BY DEF Follows
  <2>2. /\ t + (n + 1) < K => Around(t + (n + 1), K) = t + (n + 1)
        /\ t + (n + 1) >= K => Around(t + (n + 1), K) = t + (n + 1) - K
    BY <2>1, AroundOnce
  <2>3. /\ u + n < K => Around(u + n, K) = u + n
        /\ u + n >= K => Around(u + n, K) = u + n - K
    BY <2>1, AroundOnce
  <2> QED BY <2>1, <2>2, <2>3 DEF Follows
<1> HIDE DEF old, new
<1>4. old /= <<>> /\ 1 \in 1 .. w
  BY <1>1
<1>5. /\ Head(old) = old[1] /\ Tail(old) \in Seq(C) /\ Len(Tail(old)) = v
      /\ \A n \in 1 .. v : Tail(old)[n] = old[n + 1]
  BY <1>1, <1>4, HeadTailProperties
<1>6. \A n \in 1 .. v : Tail(old)[n] = new[n]
  <2> TAKE n \in 1 .. v
  <2>1. n + 1 \in 1 .. w
    OBVIOUS
  <2> QED BY <1>1, <1>2, <1>3, <1>5, <2>1
<1>7. Tail(old) = new
  BY <1>2, <1>5, <1>6, SeqEqual
<1> QED BY <1>1, <1>4, <1>5, <1>7 DEF old, new
-----------------------------------------------------------------------------

\* How many slots lie between t, the last that the driver gave back, and s.
Behind(s, t) == IF s > t THEN s - t - 1 ELSE s + N - t - 1

LEMMA SuccFacts ==
  /\ N \in Nat /\ N >= 2 /\ Slots = 0 .. N - 1
  /\ \A s \in Slots : Succ(s) = IF s = N - 1 THEN 0 ELSE s + 1
<1>1. N \in Nat /\ N >= 2 /\ N > 0 /\ Slots = 0 .. N - 1
  BY E1000Assumption DEF Slots
<1>2. ASSUME NEW s \in Slots PROVE Succ(s) = IF s = N - 1 THEN 0 ELSE s + 1
  <2>1. s + 1 \in Nat /\ s + 1 < 2 * N /\ s \in Nat /\ s <= N - 1
    BY <1>1
  <2>2. Succ(s) = Around(s + 1, N)
    BY DEF Succ, Around
  <2>3. /\ s + 1 < N => Around(s + 1, N) = s + 1
        /\ s + 1 >= N => Around(s + 1, N) = s + 1 - N
    BY <1>1, <2>1, AroundOnce
  <2> QED BY <1>1, <2>1, <2>2, <2>3
<1> QED BY <1>1, <1>2

LEMMA PredFacts ==
  ASSUME NEW s \in Slots
  PROVE  (s + N - 1) % N = IF s = 0 THEN N - 1 ELSE s - 1
<1>1. N \in Nat /\ N >= 2 /\ N > 0 /\ s \in Nat /\ s <= N - 1
  BY SuccFacts
<1>2. s + N - 1 \in Nat /\ s + N - 1 < 2 * N
  BY <1>1
<1>3. /\ s + N - 1 < N => Around(s + N - 1, N) = s + N - 1
      /\ s + N - 1 >= N => Around(s + N - 1, N) = s + N - 1 - N
  BY <1>1, <1>2, AroundOnce
<1>4. (s + N - 1) % N = Around(s + N - 1, N)
  BY DEF Around
<1> QED BY <1>1, <1>3, <1>4

LEMMA WaitingFacts ==
  ASSUME NEW h \in Slots, NEW t \in Slots
  PROVE  (h + N - t - 1) % N = Behind(h, t)
<1>1. N \in Nat /\ N >= 2 /\ N > 0 /\ h \in Nat /\ h <= N - 1 /\ t \in Nat /\ t <= N - 1
  BY SuccFacts
<1>2. h + N - t - 1 \in Nat /\ h + N - t - 1 < 2 * N
  BY <1>1
<1>3. /\ h + N - t - 1 < N => Around(h + N - t - 1, N) = h + N - t - 1
      /\ h + N - t - 1 >= N => Around(h + N - t - 1, N) = h + N - t - 1 - N
  BY <1>1, <1>2, AroundOnce
<1>4. (h + N - t - 1) % N = Around(h + N - t - 1, N)
  BY DEF Around
<1> QED BY <1>1, <1>3, <1>4 DEF Behind

\* The slots of the window behind t that ends before h.
LEMMA BehindFacts ==
  ASSUME NEW h \in Slots, NEW t \in Slots
  PROVE  /\ Behind(h, t) \in 0 .. N - 1 /\ Behind(Succ(t), t) = 0
         /\ h /= t => Behind(Succ(h), t) = Behind(h, t) + 1 /\ Behind(h, t) < N - 1
         /\ h = t => Behind(h, t) = N - 1
         /\ h /= Succ(t) => Behind(h, Succ(t)) = Behind(h, t) - 1
         /\ \A s \in Slots : Behind(s, t) = Behind(h, t) => s = h
<1>1. N \in Nat /\ N >= 2 /\ Slots = 0 .. N - 1 /\ h \in Nat /\ h <= N - 1 /\ t \in Nat /\ t <= N - 1
  BY SuccFacts
<1>2. Succ(h) = IF h = N - 1 THEN 0 ELSE h + 1
  BY SuccFacts
<1>3. Succ(t) = IF t = N - 1 THEN 0 ELSE t + 1
  BY SuccFacts
<1> QED BY <1>1, <1>2, <1>3 DEF Behind

LEMMA WindowSlots ==
  ASSUME NEW h \in Slots, NEW t \in Slots
  PROVE  /\ \A n \in 1 .. Behind(h, t) : Around(t + n, N) \in Slots /\ Around(t + n, N) /= h
         /\ Around(t + Behind(h, t) + 1, N) = h
<1>1. N \in Nat /\ N >= 2 /\ N > 0 /\ Slots = 0 .. N - 1 /\ h \in Nat /\ h <= N - 1 /\ t \in Nat /\ t <= N - 1
  BY SuccFacts
<1>2. Behind(h, t) \in Nat /\ Behind(h, t) <= N - 1
  BY BehindFacts
<1>3. ASSUME NEW n \in 1 .. N, n <= Behind(h, t) + 1
      PROVE  /\ Around(t + n, N) \in Slots
             /\ Around(t + n, N) = IF t + n < N THEN t + n ELSE t + n - N
  <2>1. t + n \in Nat /\ t + n < 2 * N
    BY <1>1
  <2>2. /\ t + n < N => Around(t + n, N) = t + n
        /\ t + n >= N => Around(t + n, N) = t + n - N
        /\ Around(t + n, N) \in 0 .. N - 1
    BY <1>1, <2>1, AroundOnce
  <2> QED BY <1>1, <2>1, <2>2
<1>4. ASSUME NEW n \in 1 .. Behind(h, t)
      PROVE  Around(t + n, N) \in Slots /\ Around(t + n, N) /= h
  <2>1. n \in 1 .. N /\ n <= Behind(h, t) + 1
    BY <1>1, <1>2
  <2>2. /\ Around(t + n, N) \in Slots
        /\ Around(t + n, N) = IF t + n < N THEN t + n ELSE t + n - N
    BY <1>3, <2>1
  <2> QED BY <1>1, <2>1, <2>2 DEF Behind
<1>5. Around(t + Behind(h, t) + 1, N) = h
  <2> DEFINE m == Behind(h, t) + 1
  <2>1. m \in 1 .. N /\ m <= Behind(h, t) + 1 /\ t + Behind(h, t) + 1 = t + m
    BY <1>1, <1>2
  <2>2. t + m = IF h > t THEN h ELSE h + N
    BY <1>1 DEF Behind
  <2> HIDE DEF m
  <2>3. Around(t + m, N) = IF t + m < N THEN t + m ELSE t + m - N
    BY <1>3, <2>1
  <2> QED BY <1>1, <2>1, <2>2, <2>3
<1> QED BY <1>4, <1>5

LEMMA SlotTypes ==
  ASSUME NEW s \in Slots
  PROVE  Succ(s) \in Slots /\ Succ(s) /= s /\ (Succ(s) + N - 1) % N = s
<1>1. N \in Nat /\ N >= 2 /\ Slots = 0 .. N - 1 /\ (Succ(s) = IF s = N - 1 THEN 0 ELSE s + 1)
  BY SuccFacts
<1>2. Succ(s) \in Slots
  BY <1>1
<1>3. (Succ(s) + N - 1) % N = IF Succ(s) = 0 THEN N - 1 ELSE Succ(s) - 1
  <2> DEFINE r == Succ(s)
  <2>1. r \in Slots
    BY <1>2
  <2> HIDE DEF r
  <2>2. (r + N - 1) % N = IF r = 0 THEN N - 1 ELSE r - 1
    BY <2>1, PredFacts
  <2> QED BY <2>2 DEF r
<1> QED BY <1>1, <1>2, <1>3

-----------------------------------------------------------------------------
(* The transmit ring: between the kick and the end of the wait one descriptor *)
(* is the device's, with the frame that is next on the wire.                  *)
InOrder == \A k \in 1 .. Len(wire) : wire[k] = k
NextFrame == frame = Len(wire) + 1 /\ Len(wire) < MaxFrames
Pending(i) == tx_descs[i] = [frame |-> frame, done |-> FALSE] /\ NextFrame
TxInv ==
  /\ pc \notin {"kick", "spin"} => tx_head = tx_tail /\ tx_cur = tx_tail
  /\ pc = "fill" => NextFrame
  /\ pc = "kick" => tx_head = tx_tail /\ tx_cur = Succ(tx_tail) /\ Pending(tx_tail)
  /\ pc = "spin" => /\ tx_tail = tx_cur
                    /\ tx_head = tx_tail \/ (tx_tail = Succ(tx_head) /\ Pending(tx_head))

(* The receive ring: what has been received and not been read lies between    *)
(* the tail and the head, and the driver stands on the first of it.           *)
Done(s) == rx_descs[s].done
RxInv ==
  /\ ~ready => rx_head = 0 /\ rx_tail = 0 /\ rx_cur = 0 /\ ~filling /\ pc = "idle" /\ \A s \in Slots : ~Done(s)
  /\ ready /\ pc /= "return" => rx_cur = Succ(rx_tail)
  /\ ready => \A s \in Slots : Done(s) => Behind(s, rx_tail) < Behind(rx_head, rx_tail)
  /\ pc \in {"copy", "clear"} => Done(rx_cur)
  /\ pc = "clear" => frame = rx_descs[rx_cur].frame
  /\ pc = "return" => /\ rx_cur = Succ(Succ(rx_tail)) /\ ~Done(Succ(rx_tail))
                      /\ frame = rx_descs[Succ(rx_tail)].frame
                      /\ rx_head /= Succ(rx_tail)
  /\ filling => rx_head /= rx_tail /\ rx_descs[rx_head].frame \in Frames
  /\ dropped <= arrived
IInv == TypeOK /\ InOrder /\ TxInv /\ RxInv

LEMMA InitIInv == Init => IInv
<1> SUFFICES ASSUME Init PROVE IInv
  OBVIOUS
<1>1. N \in Nat /\ N >= 2 /\ Slots = 0 .. N - 1 /\ MaxFrames \in Nat
  BY SuccFacts, E1000Assumption
<1>2. Empty \in Descriptors /\ \A s \in Slots : Empty[s].done = FALSE
  BY DEF Empty, Descriptors
<1>3. wire = <<>> /\ Len(wire) = 0 /\ wire \in Seq(Frames)
  BY DEF Init
<1>4. TypeOK
  <2>1. 0 \in Slots /\ {rx_head, rx_tail, rx_cur, tx_head, tx_tail, tx_cur} \subseteq Slots
    BY <1>1 DEF Init
  <2>2. arrived \in 0 .. MaxFrames /\ dropped \in 0 .. MaxFrames
    BY <1>1 DEF Init
  <2>3. wire \in Seq(Frames) /\ Len(wire) <= MaxFrames
    BY <1>1, <1>3
  <2> QED BY <1>2, <2>1, <2>2, <2>3 DEF Init, TypeOK
<1>5. InOrder
  BY <1>3 DEF InOrder
<1> QED BY <1>1, <1>2, <1>4, <1>5 DEF Init, IInv, TxInv, RxInv, Done

-----------------------------------------------------------------------------
(* The driver's steps.                                                        *)
LEMMA e1000_initStep ==
  ASSUME IInv, e1000_init
  PROVE  IInv'
<1>1. N \in Nat /\ N >= 2 /\ Slots = 0 .. N - 1
  BY SuccFacts
<1>2. N - 1 \in Slots /\ 0 \in Slots /\ Succ(N - 1) = 0
  BY <1>1, SuccFacts
<1>3. /\ ready' = TRUE /\ rx_tail' = N - 1 /\ UNCHANGED <<rx_descs, rx_head, rx_cur, received, tx, pc, frame, outside>>
      /\ rx_head = 0 /\ rx_cur = 0 /\ ~filling /\ pc = "idle" /\ \A s \in Slots : ~Done(s)
  BY DEF e1000_init, FirstTail, IInv, RxInv
<1>4. TypeOK'
  BY <1>2, <1>3 DEF IInv, TypeOK, tx, outside
<1>5. InOrder' /\ TxInv'
  BY <1>3 DEF IInv, InOrder, TxInv, Pending, NextFrame, tx
<1>6. RxInv'
  BY <1>2, <1>3 DEF IInv, RxInv, Done, outside
<1> QED BY <1>4, <1>5, <1>6 DEF IInv

LEMMA SendStep ==
  ASSUME IInv, SendCall \/ Send
  PROVE  IInv'
<1>1. N \in Nat /\ N >= 2 /\ MaxFrames \in Nat /\ Len(wire) \in Nat
  BY SuccFacts, E1000Assumption DEF IInv, TypeOK
<1>2. /\ tx_head \in Slots /\ tx_tail \in Slots /\ tx_cur \in Slots /\ tx_descs \in Descriptors
      /\ frame \in Frames \cup {NoFrame}
  BY DEF IInv, TypeOK
<1>3. UNCHANGED <<ready, rx, outside, wire, tx_head>>
  BY DEF SendCall, Send, FillTx, Kick, Spin, rx, tx
<1>4. pc' \in {"idle", "fill", "kick", "spin"} /\ pc \in {"idle", "fill", "kick", "spin"} /\ (~ready => FALSE)
  BY DEF SendCall, Send, FillTx, Kick, Spin, IInv, RxInv
<1>5. RxInv'
  BY <1>3, <1>4 DEF IInv, RxInv, Done, rx, outside
<1>6. InOrder'
  BY <1>3 DEF IInv, InOrder
<1>7. CASE SendCall
  <2>1. frame' \in Frames /\ NextFrame' /\ pc = "idle" /\ pc' = "fill" /\ UNCHANGED tx
    BY <1>1, <1>3, <1>7 DEF SendCall, NextFrame, Frames
  <2>2. TypeOK'
    BY <1>3, <2>1 DEF IInv, TypeOK, rx, tx, outside
  <2>3. TxInv'
    BY <2>1 DEF IInv, TxInv, tx
  <2> QED BY <1>5, <1>6, <2>2, <2>3 DEF IInv
<1>8. CASE FillTx
  <2>1. /\ pc = "fill" /\ pc' = "kick" /\ frame' = frame /\ tx_tail' = tx_tail /\ tx_cur' = Succ(tx_cur)
        /\ tx_descs' = [tx_descs EXCEPT ![tx_cur] = [frame |-> frame, done |-> FALSE]]
    BY <1>8 DEF FillTx, Filled
  <2>2. NextFrame /\ tx_head = tx_tail /\ tx_cur = tx_tail
    BY <2>1 DEF IInv, TxInv
  <2>3. tx_descs' \in Descriptors /\ tx_descs'[tx_cur] = [frame |-> frame, done |-> FALSE]
    BY <1>2, <2>1 DEF Descriptors
  <2>4. tx_cur' \in Slots
    BY <1>2, <2>1, SlotTypes
  <2>5. TypeOK'
    BY <1>3, <2>1, <2>3, <2>4 DEF IInv, TypeOK, rx, outside
  <2>6. TxInv'
    BY <1>3, <2>1, <2>2, <2>3 DEF TxInv, Pending, NextFrame
  <2> QED BY <1>5, <1>6, <2>5, <2>6 DEF IInv
<1>9. CASE Kick
  <2>1. pc = "kick" /\ pc' = "spin" /\ tx_tail' = tx_cur /\ UNCHANGED <<frame, tx_descs, tx_cur>>
    BY <1>9 DEF Kick
  <2>2. tx_head = tx_tail /\ tx_cur = Succ(tx_tail) /\ Pending(tx_tail)
    BY <2>1 DEF IInv, TxInv
  <2>3. TypeOK'
    BY <1>3, <2>1 DEF IInv, TypeOK, rx, outside
  <2>4. TxInv'
    BY <1>3, <2>1, <2>2 DEF TxInv, Pending, NextFrame
  <2> QED BY <1>5, <1>6, <2>3, <2>4 DEF IInv
<1>10. CASE Spin
  <2>1. pc = "spin" /\ tx_descs[OldTx].done /\ pc' = "idle" /\ frame' = NoFrame /\ UNCHANGED tx
    BY <1>10 DEF Spin
  <2>2. tx_tail = tx_cur
    BY <2>1 DEF IInv, TxInv
  <2>3. tx_head = tx_tail
    <3> SUFFICES ASSUME tx_tail = Succ(tx_head), Pending(tx_head) PROVE FALSE
      BY <2>1 DEF IInv, TxInv
    <3>1. OldTx = tx_head
      BY <1>2, <2>2, SlotTypes DEF OldTx
    <3> QED BY <2>1, <3>1 DEF Pending
  <2>4. TypeOK'
    BY <1>3, <2>1 DEF IInv, TypeOK, rx, tx, outside
  <2>5. TxInv'
    BY <2>1, <2>2, <2>3 DEF TxInv, tx
  <2> QED BY <1>5, <1>6, <2>4, <2>5 DEF IInv
<1> QED BY <1>7, <1>8, <1>9, <1>10 DEF Send

LEMMA ReceiveStep ==
  ASSUME IInv, Poll \/ Receive
  PROVE  IInv'
<1>1. N \in Nat /\ N >= 2 /\ Slots = 0 .. N - 1
  BY SuccFacts
<1>2. /\ rx_head \in Slots /\ rx_tail \in Slots /\ rx_cur \in Slots /\ rx_descs \in Descriptors
      /\ frame \in Frames \cup {NoFrame}
  BY DEF IInv, TypeOK
<1>3. UNCHANGED <<ready, tx, outside, rx_head>> /\ (pc = "idle" => ready)
  BY DEF Poll, Receive, Copy, Clear, GiveBack, rx
<1>4. ready /\ pc \in {"idle", "copy", "clear", "return"} /\ pc' \in {"idle", "copy", "clear", "return"}
  BY DEF Poll, Receive, Copy, Clear, GiveBack, IInv, RxInv
<1>5. InOrder' /\ TxInv'
  BY <1>3, <1>4 DEF IInv, InOrder, TxInv, Pending, tx
<1>6. CASE Poll \/ Copy
  <2>1. /\ UNCHANGED rx /\ Done(rx_cur) /\ pc' \in {"copy", "clear"} /\ pc \in {"idle", "copy"}
        /\ pc' = "clear" => frame' = rx_descs[rx_cur].frame
    BY <1>6 DEF Poll, Copy, Done, IInv, RxInv
  <2>2. frame' \in Frames \cup {NoFrame}
    BY <1>2, <1>6 DEF Poll, Copy, Descriptors
  <2>3. TypeOK'
    BY <1>3, <1>4, <2>1, <2>2 DEF IInv, TypeOK, rx, tx, outside
  <2>4. RxInv'
    BY <1>3, <1>4, <2>1 DEF IInv, RxInv, Done, rx, outside
  <2> QED BY <1>5, <2>3, <2>4 DEF IInv
<1>7. CASE Clear
  <2>1. /\ pc = "clear" /\ pc' = "return" /\ rx_cur' = Succ(rx_cur) /\ UNCHANGED <<rx_tail, received, frame>>
        /\ rx_descs' = [rx_descs EXCEPT ![rx_cur].done = FALSE]
    BY <1>7 DEF Clear
  <2>2. Done(rx_cur) /\ frame = rx_descs[rx_cur].frame /\ rx_cur = Succ(rx_tail)
    BY <1>4, <2>1 DEF IInv, RxInv
  <2>3. /\ rx_descs' \in Descriptors /\ rx_descs'[rx_cur].frame = frame
        /\ \A s \in Slots : rx_descs'[s].frame = rx_descs[s].frame
        /\ \A s \in Slots : rx_descs'[s].done => rx_descs[s].done
        /\ ~rx_descs'[rx_cur].done
    BY <1>2, <2>1, <2>2 DEF Descriptors, Done
  <2>4. rx_head /= Succ(rx_tail)
    <3>1. Behind(Succ(rx_tail), rx_tail) < Behind(rx_head, rx_tail)
      BY <1>2, <1>4, <2>2, SlotTypes DEF IInv, RxInv
    <3> QED BY <1>2, <3>1, BehindFacts
  <2>5. rx_cur' \in Slots
    BY <1>2, <2>1, SlotTypes
  <2>6. TypeOK'
    BY <1>3, <2>1, <2>3, <2>5 DEF IInv, TypeOK, tx, outside
  <2>7. \A s \in Slots : Done(s)' => Behind(s, rx_tail)' < Behind(rx_head, rx_tail)'
    BY <1>3, <1>4, <2>1, <2>3 DEF IInv, RxInv, Done, Behind
  <2>8. (filling => rx_head /= rx_tail /\ rx_descs[rx_head].frame \in Frames)' /\ (dropped <= arrived)'
    BY <1>2, <1>3, <2>1, <2>3 DEF IInv, RxInv, outside
  <2>9. RxInv'
    BY <1>3, <1>4, <2>1, <2>2, <2>3, <2>4, <2>7, <2>8 DEF RxInv, Done
  <2> QED BY <1>5, <2>6, <2>9 DEF IInv
<1>8. CASE GiveBack
  <2> DEFINE t == Succ(rx_tail)
  <2>1. /\ pc = "return" /\ pc' = "idle" /\ rx_tail' = OldRx /\ received' = frame /\ frame' = NoFrame
        /\ UNCHANGED <<rx_descs, rx_cur>>
    BY <1>8 DEF GiveBack
  <2>2. /\ rx_cur = Succ(t) /\ ~Done(t) /\ rx_head /= t
    BY <2>1 DEF IInv, RxInv
  <2>3. t \in Slots
    BY <1>2, SlotTypes
  <2>4. rx_tail' = t
    BY <2>1, <2>2, <2>3, SlotTypes DEF OldRx
  <2> HIDE DEF t
  <2>5. TypeOK'
    BY <1>2, <1>3, <2>1, <2>3, <2>4 DEF IInv, TypeOK, tx, outside
  <2>6. Behind(rx_head, t) = Behind(rx_head, rx_tail) - 1
    BY <1>2, <2>2, BehindFacts DEF t
  <2>7. \A s \in Slots : Done(s) => Behind(s, t) < Behind(rx_head, t)
    <3> SUFFICES ASSUME NEW s \in Slots, Done(s) PROVE Behind(s, t) < Behind(rx_head, t)
      OBVIOUS
    <3>1. s /= t
      BY <2>2
    <3>2. Behind(s, t) = Behind(s, rx_tail) - 1
      BY <1>2, <3>1, BehindFacts DEF t
    <3>3. Behind(s, rx_tail) < Behind(rx_head, rx_tail)
      BY <1>4 DEF IInv, RxInv
    <3>4. Behind(s, rx_tail) \in Int /\ Behind(rx_head, rx_tail) \in Int
      BY <1>2, BehindFacts
    <3> QED BY <2>6, <3>2, <3>3, <3>4
  <2>8. filling => rx_head /= t /\ rx_descs[rx_head].frame \in Frames
    BY <2>2 DEF IInv, RxInv
  <2>9. \A s \in Slots : Done(s)' => Behind(s, rx_tail)' < Behind(rx_head, rx_tail)'
    BY <1>3, <2>1, <2>4, <2>7 DEF Done, Behind
  <2>10. RxInv'
    BY <1>3, <1>4, <2>1, <2>2, <2>4, <2>8, <2>9 DEF IInv, RxInv, Done, outside
  <2> QED BY <1>5, <2>5, <2>10 DEF IInv
<1> QED BY <1>6, <1>7, <1>8 DEF Receive

-----------------------------------------------------------------------------
(* The device's steps.                                                        *)
LEMMA ArriveStep ==
  ASSUME IInv, Arrive
  PROVE  IInv'
<1>1. /\ rx_head \in Slots /\ rx_tail \in Slots /\ rx_descs \in Descriptors /\ arrived \in 0 .. MaxFrames
      /\ dropped \in 0 .. MaxFrames /\ MaxFrames \in Nat /\ dropped <= arrived
  BY E1000Assumption DEF IInv, TypeOK, RxInv
<1>2. /\ ready /\ ~filling /\ arrived < MaxFrames /\ arrived' = arrived + 1
      /\ UNCHANGED <<ready, rx_head, rx_tail, rx_cur, received, tx, pc, frame>>
  BY DEF Arrive
<1>3. arrived' \in Frames /\ arrived' \in 0 .. MaxFrames
  BY <1>1, <1>2 DEF Frames
<1>4. InOrder' /\ TxInv'
  BY <1>2 DEF IInv, InOrder, TxInv, Pending, NextFrame, tx
<1>5. CASE rx_head = rx_tail
  <2>1. dropped' = dropped + 1 /\ UNCHANGED <<rx_descs, filling>>
    BY <1>5 DEF Arrive
  <2>2. TypeOK'
    BY <1>1, <1>2, <1>3, <2>1 DEF IInv, TypeOK, tx
  <2>3. RxInv'
    BY <1>1, <1>2, <2>1 DEF IInv, RxInv, Done
  <2> QED BY <1>4, <2>2, <2>3 DEF IInv
<1>6. CASE rx_head /= rx_tail
  <2>1. /\ rx_descs' = [rx_descs EXCEPT ![rx_head].frame = arrived + 1]
        /\ filling' = TRUE /\ UNCHANGED dropped
    BY <1>6 DEF Arrive
  <2>2. /\ rx_descs' \in Descriptors /\ rx_descs'[rx_head].frame \in Frames
        /\ \A s \in Slots : rx_descs'[s].done = rx_descs[s].done
        /\ \A s \in Slots : s /= rx_head => rx_descs'[s] = rx_descs[s]
    BY <1>1, <1>2, <1>3, <2>1 DEF Descriptors
  <2>3. TypeOK'
    BY <1>1, <1>2, <1>3, <2>1, <2>2 DEF IInv, TypeOK, tx
  <2>4. rx_cur \in Slots /\ Succ(rx_tail) \in Slots
    BY <1>1, SlotTypes DEF IInv, TypeOK
  <2>5. pc = "clear" => rx_head /= rx_cur
    <3> SUFFICES ASSUME pc = "clear", rx_head = rx_cur PROVE FALSE
      OBVIOUS
    <3>1. Behind(rx_head, rx_tail) < Behind(rx_head, rx_tail)
      BY <1>1, <1>2 DEF IInv, RxInv
    <3> QED BY <1>1, <3>1, BehindFacts
  <2>6. pc = "clear" => frame = rx_descs'[rx_cur].frame
    BY <2>2, <2>4, <2>5 DEF IInv, RxInv
  <2>7. pc = "return" => frame = rx_descs'[Succ(rx_tail)].frame
    BY <2>2, <2>4 DEF IInv, RxInv
  <2>8. /\ \A s \in Slots : Done(s)' => Behind(s, rx_tail)' < Behind(rx_head, rx_tail)'
        /\ pc \in {"copy", "clear"} => rx_descs'[rx_cur].done
        /\ pc = "return" => ~rx_descs'[Succ(rx_tail)].done
    BY <1>2, <2>2, <2>4 DEF IInv, RxInv, Done, Behind
  <2>9. (dropped <= arrived)'
    BY <1>1, <1>2, <2>1
  <2>10. RxInv'
    BY <1>2, <1>6, <2>2, <2>6, <2>7, <2>8, <2>9 DEF IInv, RxInv, Done
  <2> QED BY <1>4, <2>3, <2>10 DEF IInv
<1> QED BY <1>5, <1>6

LEMMA WriteRxStatusStep ==
  ASSUME IInv, WriteRxStatus
  PROVE  IInv'
<1>1. /\ rx_head \in Slots /\ rx_tail \in Slots /\ rx_descs \in Descriptors /\ rx_cur \in Slots
      /\ rx_head /= rx_tail /\ ready
  BY DEF IInv, TypeOK, RxInv, WriteRxStatus
<1>2. /\ filling /\ filling' = FALSE /\ rx_head' = Succ(rx_head)
      /\ rx_descs' = [rx_descs EXCEPT ![rx_head].done = TRUE]
      /\ UNCHANGED <<ready, rx_tail, rx_cur, received, tx, pc, frame, arrived, dropped>>
  BY DEF WriteRxStatus
<1>3. InOrder' /\ TxInv'
  BY <1>2 DEF IInv, InOrder, TxInv, Pending, NextFrame, tx
<1>4. /\ rx_descs' \in Descriptors
      /\ \A s \in Slots : rx_descs'[s].frame = rx_descs[s].frame
      /\ \A s \in Slots : s /= rx_head => rx_descs'[s] = rx_descs[s]
      /\ \A s \in Slots : rx_descs[s].done => rx_descs'[s].done
  BY <1>1, <1>2 DEF Descriptors
<1>5. rx_head' \in Slots /\ Succ(rx_tail) \in Slots
  BY <1>1, <1>2, SlotTypes
<1>6. TypeOK'
  BY <1>2, <1>4, <1>5 DEF IInv, TypeOK, tx
<1>7. /\ Behind(rx_head, rx_tail) \in Nat /\ Behind(rx_head, rx_tail) < N - 1 /\ N \in Nat
      /\ Behind(Succ(rx_head), rx_tail) = Behind(rx_head, rx_tail) + 1
  <2>1. N \in Nat /\ Behind(rx_head, rx_tail) \in 0 .. N - 1
    BY <1>1, BehindFacts, SuccFacts
  <2>2. Behind(Succ(rx_head), rx_tail) = Behind(rx_head, rx_tail) + 1 /\ Behind(rx_head, rx_tail) < N - 1
    BY <1>1, BehindFacts
  <2> QED BY <2>1, <2>2
<1>8. \A s \in Slots : Done(s)' => Behind(s, rx_tail)' < Behind(rx_head, rx_tail)'
  <2> SUFFICES ASSUME NEW s \in Slots, rx_descs'[s].done
               PROVE  Behind(s, rx_tail) < Behind(Succ(rx_head), rx_tail)
    BY <1>2 DEF Done, Behind
  <2>1. Behind(s, rx_tail) \in Nat
    BY <1>1, BehindFacts
  <2>2. CASE s = rx_head
    BY <1>7, <2>2
  <2>3. CASE s /= rx_head
    <3>1. Done(s)
      BY <1>4, <2>3 DEF Done
    <3>2. Behind(s, rx_tail) < Behind(rx_head, rx_tail)
      BY <1>1, <3>1 DEF IInv, RxInv
    <3> QED BY <1>7, <2>1, <3>2
  <2> QED BY <2>2, <2>3
<1>9. pc = "return" => rx_head' /= Succ(rx_tail)
  <2>1. Behind(Succ(rx_tail), rx_tail) = 0
    BY <1>1, BehindFacts
  <2> QED BY <1>2, <1>7, <2>1
<1>10. pc = "return" => ~rx_descs'[Succ(rx_tail)].done
  BY <1>4, <1>5 DEF IInv, RxInv, Done
<1>11. /\ pc \in {"copy", "clear"} => rx_descs'[rx_cur].done
       /\ pc = "clear" => frame = rx_descs'[rx_cur].frame
       /\ pc = "return" => frame = rx_descs'[Succ(rx_tail)].frame
  BY <1>1, <1>4, <1>5 DEF IInv, RxInv, Done
<1>12. RxInv'
  BY <1>1, <1>2, <1>8, <1>9, <1>10, <1>11 DEF IInv, RxInv, Done
<1> QED BY <1>3, <1>6, <1>12 DEF IInv

LEMMA TransmitStep ==
  ASSUME IInv, Transmit
  PROVE  IInv'
<1>1. /\ tx_head \in Slots /\ tx_tail \in Slots /\ tx_descs \in Descriptors /\ wire \in Seq(Frames)
      /\ Len(wire) \in Nat /\ MaxFrames \in Nat
  BY E1000Assumption DEF IInv, TypeOK
<1>2. /\ ready /\ tx_head /= tx_tail /\ tx_head' = Succ(tx_head)
      /\ wire' = Append(wire, tx_descs[tx_head].frame)
      /\ tx_descs' = [tx_descs EXCEPT ![tx_head].done = TRUE]
      /\ UNCHANGED <<ready, rx, tx_tail, tx_cur, pc, frame, outside>>
  BY DEF Transmit
<1>3. pc = "spin" /\ tx_tail = tx_cur /\ tx_tail = Succ(tx_head) /\ Pending(tx_head)
  BY <1>2 DEF IInv, TxInv
<1>4. tx_descs[tx_head].frame = Len(wire) + 1 /\ Len(wire) + 1 \in Frames
  BY <1>1, <1>3 DEF Pending, NextFrame, Frames
<1>5. /\ wire' \in Seq(Frames) /\ Len(wire') = Len(wire) + 1 /\ Len(wire') <= MaxFrames
      /\ \A k \in 1 .. Len(wire) : wire'[k] = wire[k]
      /\ wire'[Len(wire) + 1] = Len(wire) + 1
  BY <1>1, <1>2, <1>3, <1>4, AppendProperties DEF Pending, NextFrame
<1>6. InOrder'
  <2>1. \A k \in 1 .. Len(wire) : wire[k] = k
    BY DEF IInv, InOrder
  <2> QED BY <1>1, <1>5, <2>1 DEF InOrder
<1>7. tx_descs' \in Descriptors /\ tx_head' \in Slots
  BY <1>1, <1>2, SlotTypes DEF Descriptors
<1>8. TypeOK'
  BY <1>2, <1>5, <1>7 DEF IInv, TypeOK, rx, outside
<1>9. TxInv'
  BY <1>2, <1>3 DEF TxInv
<1>10. RxInv'
  BY <1>2 DEF IInv, RxInv, Done, rx, outside
<1> QED BY <1>6, <1>8, <1>9, <1>10 DEF IInv

LEMMA StepIInv == IInv /\ [Next]_vars => IInv'
<1> SUFFICES ASSUME IInv, [Next]_vars PROVE IInv'
  OBVIOUS
<1>1. CASE UNCHANGED vars
  BY <1>1 DEF vars, rx, tx, outside, IInv, TypeOK, InOrder, TxInv, Pending, NextFrame, RxInv, Done
<1> QED BY <1>1, e1000_initStep, SendStep, ReceiveStep, ArriveStep, WriteRxStatusStep, TransmitStep
        DEF Next, Device

\* Every variable keeps its type.
THEOREM TypeCorrect == Spec => []TypeOK
<1>1. IInv => TypeOK
  BY DEF IInv
<1> QED BY <1>1, InitIInv, StepIInv, PTL DEF Spec

\* The frames on the wire are those that were sent, in order and once each: the
\* wait for a descriptor's status never ends on the status of an earlier round
\* (e1000.c:126-142).
THEOREM SendsInOrder == Spec => []SentInOrder
<1>1. IInv => SentInOrder
  BY DEF IInv, InOrder, TxInv, Pending, NextFrame, SentInOrder
<1> QED BY <1>1, InitIInv, StepIInv, PTL DEF Spec

-----------------------------------------------------------------------------
(* Refinement: the frames that wait are a window of the receive ring.         *)
Frame(descs) == [s \in 0 .. N - 1 |-> descs[s].frame]
All == Frames \cup {NoFrame}

LEMMA QueueIsWindow ==
  ASSUME NEW d \in Descriptors, NEW h \in Slots, NEW t \in Slots
  PROVE  /\ [n \in 1 .. Behind(h, t) |-> d[(t + n) % N].frame] = Window(Frame(d), t, Behind(h, t), N)
         /\ Frame(d) \in Buffers(All, N)
<1>1. Slots = 0 .. N - 1
  BY SuccFacts
<1>2. ASSUME NEW n \in 1 .. Behind(h, t)
      PROVE  d[(t + n) % N].frame = Frame(d)[Around(t + n, N)]
  <2>1. Around(t + n, N) \in 0 .. N - 1
    BY <1>1, WindowSlots
  <2>2. (t + n) % N = Around(t + n, N)
    BY DEF Around
  <2> QED BY <2>1, <2>2 DEF Frame
<1>3. Frame(d) \in Buffers(All, N)
  BY <1>1 DEF Frame, Buffers, Descriptors, All
<1> QED BY <1>2, <1>3 DEF Window

\* The state as the refinement sees it.
LEMMA QueueFacts ==
  ASSUME IInv, ready
  PROVE  /\ rx_head \in Slots /\ rx_tail \in Slots /\ rx_descs \in Descriptors
         /\ Waiting = Behind(rx_head, rx_tail)
         /\ Queue = Window(Frame(rx_descs), rx_tail, Behind(rx_head, rx_tail), N)
<1>1. rx_head \in Slots /\ rx_tail \in Slots /\ rx_descs \in Descriptors
  BY DEF IInv, TypeOK
<1>2. Waiting = Behind(rx_head, rx_tail)
  BY <1>1, WaitingFacts DEF Waiting
<1> QED BY <1>1, <1>2, QueueIsWindow DEF Queue

LEMMA QueueFactsNext == (IInv /\ ready)' =>
  /\ rx_head' \in Slots /\ rx_tail' \in Slots /\ rx_descs' \in Descriptors
  /\ Waiting' = Behind(rx_head', rx_tail')
  /\ Queue' = Window(Frame(rx_descs'), rx_tail', Behind(rx_head', rx_tail'), N)
<1> SUFFICES ASSUME IInv', ready'
             PROVE  /\ rx_head' \in Slots /\ rx_tail' \in Slots /\ rx_descs' \in Descriptors
                    /\ Waiting' = Behind(rx_head', rx_tail')
                    /\ Queue' = Window(Frame(rx_descs'), rx_tail', Behind(rx_head', rx_tail'), N)
  OBVIOUS
<1>1. rx_head' \in Slots /\ rx_tail' \in Slots /\ rx_descs' \in Descriptors
  BY DEF IInv, TypeOK
<1>2. Waiting' = Behind(rx_head', rx_tail')
  BY <1>1, WaitingFacts DEF Waiting
<1> QED BY <1>1, <1>2, QueueIsWindow DEF Queue

\* What the window has is a sequence of as many frames.
LEMMA QueueLen ==
  ASSUME NEW d \in Descriptors, NEW h \in Slots, NEW t \in Slots
  PROVE  Len(Window(Frame(d), t, Behind(h, t), N)) = Behind(h, t)
<1> DEFINE w == Behind(h, t)
           b == Frame(d)
<1>1. b \in Buffers(All, N)
  BY QueueIsWindow
<1>2. N \in Nat /\ N > 0 /\ t \in Int /\ -1 <= t /\ t < N
  BY SuccFacts
<1>3. w \in Nat /\ w <= N
  BY <1>2, BehindFacts
<1> HIDE DEF w, b
<1>4. Len(Window(b, t, w, N)) = w
  BY <1>1, <1>2, <1>3, WindowIsSeq
<1> QED BY <1>4 DEF w, b

\* A step that changes only descriptors outside the window changes nothing.
LEMMA QueueSame ==
  ASSUME UNCHANGED <<ready, rx_head, rx_tail, received, dropped>>, IInv, IInv',
         ready => \A s \in Slots : s = rx_head \/ rx_descs'[s].frame = rx_descs[s].frame
  PROVE  UNCHANGED Abs!vars
<1>1. CASE ~ready
  <2>1. Waiting = 0 /\ Waiting' = 0
    BY <1>1 DEF Waiting
  <2> QED BY <2>1 DEF Queue, Abs!vars
<1>2. CASE ready
  <2> DEFINE b == Frame(rx_descs)
             b2 == Frame(rx_descs')
             w == Behind(rx_head, rx_tail)
  <2>1. /\ rx_head \in Slots /\ rx_tail \in Slots /\ rx_descs \in Descriptors
        /\ Queue = Window(b, rx_tail, w, N) /\ Queue' = Window(b2, rx_tail, w, N)
    BY <1>2, QueueFacts, QueueFactsNext
  <2>2. \A n \in 1 .. w : b2[Around(rx_tail + n, N)] = b[Around(rx_tail + n, N)]
    <3> SUFFICES ASSUME NEW n \in 1 .. w PROVE b2[Around(rx_tail + n, N)] = b[Around(rx_tail + n, N)]
      OBVIOUS
    <3>1. Around(rx_tail + n, N) \in Slots /\ Around(rx_tail + n, N) /= rx_head /\ Slots = 0 .. N - 1
      BY <2>1, WindowSlots, SuccFacts
    <3> HIDE DEF w
    <3> QED BY <1>2, <3>1 DEF Frame
  <2> HIDE DEF b, b2, w
  <2>3. Queue' = Queue
    BY <2>1, <2>2, WindowSame
  <2> QED BY <2>3 DEF Abs!vars
<1> QED BY <1>1, <1>2

\* A status that is written puts its frame in the queue.
LEMMA PutRefines ==
  ASSUME IInv, IInv', WriteRxStatus
  PROVE  \E f \in Frames : Abs!Put(f)
<1> DEFINE f == rx_descs[rx_head].frame
           b == Frame(rx_descs)
           w == Behind(rx_head, rx_tail)
           t == rx_tail
<1>1. /\ ready /\ ready' /\ f \in Frames /\ rx_head /= t /\ rx_head' = Succ(rx_head) /\ rx_tail' = t
      /\ rx_descs' = [rx_descs EXCEPT ![rx_head].done = TRUE] /\ UNCHANGED <<received, dropped>>
  BY DEF WriteRxStatus, IInv, RxInv
<1>2. rx_head \in Slots /\ t \in Slots /\ rx_descs \in Descriptors /\ Queue = Window(b, t, w, N)
  BY <1>1, QueueFacts
<1>3. Frame(rx_descs') = b
  <2>1. \A s \in Slots : rx_descs'[s].frame = rx_descs[s].frame
    BY <1>1, <1>2 DEF Descriptors
  <2> QED BY <2>1, SuccFacts DEF Frame
<1>4. Queue' = Window(b, t, Behind(Succ(rx_head), t), N)
  BY <1>1, <1>3, QueueFactsNext
<1>5. Behind(Succ(rx_head), t) = w + 1 /\ w < N - 1 /\ w \in 0 .. N - 1
  BY <1>1, <1>2, BehindFacts
<1>6. Len(Queue) = w
  BY <1>2, QueueLen
<1>7. b \in Buffers(All, N)
  BY <1>2, QueueIsWindow
<1>8. Around(t + w + 1, N) = rx_head /\ b[rx_head] = f
  BY <1>2, WindowSlots, SuccFacts DEF Frame
<1>9. N \in Nat /\ N > 0 /\ t \in Int /\ -1 <= t /\ t < N
  BY <1>2, SuccFacts
<1> DEFINE v == w + 1
           x == t + w + 1
<1>10. v \in Nat /\ v = w + 1 /\ x \in Nat /\ x = t + w + 1 /\ w \in Nat /\ w < N
  BY <1>2, <1>5, <1>9, SuccFacts
<1> HIDE DEF b, w, t, v, x, f
<1>11. Window(b, t, v, N) = Append(Window(b, t, w, N), b[Around(x, N)])
  BY <1>7, <1>9, <1>10, WindowAppend
<1>12. Queue' = Append(Queue, f)
  BY <1>2, <1>4, <1>5, <1>8, <1>10, <1>11
<1> QED BY <1>1, <1>5, <1>6, <1>12 DEF Abs!Put

\* A frame that finds no descriptor is the only loss.
LEMMA DropRefines ==
  ASSUME IInv, IInv', Arrive
  PROVE  Abs!Drop \/ UNCHANGED Abs!vars
<1>1. ready /\ UNCHANGED <<ready, rx_head, rx_tail, received>>
  BY DEF Arrive
<1>2. rx_head \in Slots /\ rx_tail \in Slots /\ rx_descs \in Descriptors
      /\ Queue = Window(Frame(rx_descs), rx_tail, Behind(rx_head, rx_tail), N)
  BY <1>1, QueueFacts
<1>3. CASE rx_head = rx_tail
  <2>1. dropped' = dropped + 1 /\ rx_descs' = rx_descs
    BY <1>3 DEF Arrive
  <2>2. Len(Queue) = N - 1
    BY <1>2, <1>3, QueueLen, BehindFacts
  <2>3. Queue' = Queue
    BY <1>1, <2>1 DEF Queue, Waiting
  <2> QED BY <1>1, <2>1, <2>2, <2>3 DEF Abs!Drop
<1>4. CASE rx_head /= rx_tail
  <2>1. rx_descs' = [rx_descs EXCEPT ![rx_head].frame = arrived + 1] /\ dropped' = dropped
    BY <1>4 DEF Arrive
  <2>2. \A s \in Slots : s = rx_head \/ rx_descs'[s].frame = rx_descs[s].frame
    BY <1>2, <2>1 DEF Descriptors
  <2> QED BY <1>1, <2>1, <2>2, QueueSame
<1> QED BY <1>3, <1>4

\* A frame that is returned is the oldest of the queue.
LEMMA GetRefines ==
  ASSUME IInv, IInv', GiveBack
  PROVE  Abs!Get
<1> DEFINE b == Frame(rx_descs)
           w == Behind(rx_head, rx_tail)
           t == rx_tail
           u == Succ(rx_tail)
<1>1. /\ ready /\ ready' /\ rx_tail' = OldRx /\ received' = frame
      /\ UNCHANGED <<rx_descs, rx_head, dropped>>
      /\ rx_cur = Succ(u) /\ frame = rx_descs[u].frame /\ rx_head /= u
  BY DEF GiveBack, outside, IInv, RxInv
<1>2. rx_head \in Slots /\ t \in Slots /\ rx_descs \in Descriptors /\ Queue = Window(b, t, w, N)
  BY <1>1, QueueFacts
<1>3. u \in Slots /\ (u = IF t = N - 1 THEN 0 ELSE t + 1)
  BY <1>2, SlotTypes, SuccFacts
<1>4. rx_tail' = u
  <2> HIDE DEF u
  <2> QED BY <1>1, <1>3, SlotTypes DEF OldRx
<1>5. Queue' = Window(b, u, Behind(rx_head, u), N)
  BY <1>1, <1>4, QueueFactsNext
<1>6. Behind(rx_head, u) = w - 1 /\ w \in 0 .. N - 1
  BY <1>1, <1>2, BehindFacts
<1>7. Behind(rx_head, u) \in 0 .. N - 1
  BY <1>2, <1>3, BehindFacts
<1>8. b \in Buffers(All, N) /\ b[u] = rx_descs[u].frame
  BY <1>2, <1>3, QueueIsWindow, SuccFacts DEF Frame
<1>9. N \in Nat /\ N > 0 /\ t \in Int /\ -1 <= t /\ t < N /\ u \in Int /\ -1 <= u /\ u < N
      /\ (u = t + 1 \/ u = t + 1 - N)
  BY <1>2, <1>3, SuccFacts
<1>10. w \in Nat /\ 0 < w /\ w <= N
  BY <1>6, <1>7, <1>9
<1>11. Around(t + 1, N) = u
  <2>1. t + 1 \in Nat /\ t + 1 < 2 * N /\ t \in Nat
    BY <1>2, <1>9, SuccFacts
  <2>2. (t + 1 < N => Around(t + 1, N) = t + 1) /\ (t + 1 >= N => Around(t + 1, N) = t + 1 - N)
    BY <1>9, <2>1, AroundOnce
  <2> QED BY <1>3, <1>9, <2>1, <2>2
<1> HIDE DEF b, w, t, u
<1>12. /\ Window(b, t, w, N) /= <<>> /\ Head(Window(b, t, w, N)) = b[Around(t + 1, N)]
       /\ Tail(Window(b, t, w, N)) = Window(b, u, w - 1, N)
  <2>1. PICK v \in Nat : v = w - 1
    BY <1>10
  <2>2. Follows(u, t, N)
    BY <1>9 DEF Follows
  <2>3. /\ Window(b, t, w, N) /= <<>> /\ Head(Window(b, t, w, N)) = b[Around(t + 1, N)]
        /\ Tail(Window(b, t, w, N)) = Window(b, u, v, N)
    BY <1>8, <1>9, <1>10, <2>1, <2>2, WindowTail
  <2> QED BY <2>1, <2>3
<1> QED BY <1>1, <1>2, <1>5, <1>6, <1>8, <1>11, <1>12 DEF Abs!Get

\* The receive ring implements the bounded queue of CharQueue: frames are
\* received in the order in which they came, each once, and one is lost only
\* when N - 1 wait (e1000.c:146-160).
THEOREM Refinement == Spec => ImplementsQueue
<1>1. Init => Abs!Init
  BY DEF Init, Abs!Init, Queue, Waiting, NoFrame, Frames
<1>2. IInv /\ IInv' /\ [Next]_vars => [Abs!Next]_(Abs!vars)
  <2> SUFFICES ASSUME IInv, IInv', [Next]_vars PROVE [Abs!Next]_(Abs!vars)
    OBVIOUS
  <2>1. CASE UNCHANGED vars \/ SendCall \/ Send \/ Poll \/ Copy \/ Transmit
    <3>1. UNCHANGED <<ready, rx, dropped>>
      BY <2>1 DEF vars, outside, SendCall, Send, FillTx, Kick, Spin, Poll, Copy, Transmit
    <3> QED BY <3>1, QueueSame DEF rx
  <2>2. CASE Clear
    <3>1. UNCHANGED <<ready, rx_head, rx_tail, received, dropped>>
          /\ rx_descs' = [rx_descs EXCEPT ![rx_cur].done = FALSE]
      BY <2>2 DEF Clear, outside
    <3>2. \A s \in Slots : rx_descs'[s].frame = rx_descs[s].frame
      BY <3>1 DEF IInv, TypeOK, Descriptors
    <3> QED BY <3>1, <3>2, QueueSame
  <2>3. CASE GiveBack
    BY <2>3, GetRefines DEF Abs!Next
  <2>4. CASE WriteRxStatus
    BY <2>4, PutRefines DEF Abs!Next
  <2>5. CASE Arrive
    BY <2>5, DropRefines DEF Abs!Next
  <2>6. CASE e1000_init
    <3>1. ~ready /\ ready' /\ rx_head' = 0 /\ rx_tail' = N - 1 /\ UNCHANGED <<received, dropped>>
      BY <2>6 DEF e1000_init, FirstTail, outside, IInv, RxInv
    <3>2. Waiting = 0 /\ Waiting' = Behind(0, N - 1)
      BY <3>1, QueueFactsNext DEF Waiting
    <3>3. Waiting' = 0
      BY <3>2, SuccFacts DEF Behind
    <3> QED BY <3>1, <3>2, <3>3 DEF Queue, Abs!vars
  <2> QED BY <2>1, <2>2, <2>3, <2>4, <2>5, <2>6 DEF Next, Device, Receive
<1> QED BY <1>1, <1>2, InitIInv, StepIInv, PTL DEF Spec, ImplementsQueue, Abs!Spec

-----------------------------------------------------------------------------
(* The FAT32 reader.  Sets of numbers have a smallest one.                  *)

\* The smallest number of a set.
LEMMA LeastExists ==
  ASSUME NEW S \in SUBSET Nat, S /= {}
  PROVE  \E x \in S : \A y \in S : x <= y
<1>1. PICK x \in S : \A y \in S : ~ (<<y, x>> \in OpToRel(<, Nat))
  BY NatLessThanWellFounded, WFMin
<1>2. \A y \in S : y < x => <<y, x>> \in OpToRel(<, Nat)
  BY Zenon DEF OpToRel
<1>3. \A y \in S : x <= y
  <2> TAKE y \in S
  <2>1. ~(y < x)
    BY <1>1, <1>2
  <2> QED BY <2>1
<1> QED BY <1>3

-----------------------------------------------------------------------------
(* Chains of clusters.                                                      *)

Link(fat, h, c, k) == IF k = 0 THEN c ELSE IF h[k - 1] < EOC THEN fat[h[k - 1]] ELSE EOC
Begins(fat, c, n, h) == h = [k \in 0 .. n |-> Link(fat, h, c, k)]

LEMMA BeginsZero == ASSUME NEW fat, NEW c PROVE \E h : Begins(fat, c, 0, h)
<1> DEFINE h == [k \in 0 .. 0 |-> c]
<1>1. h = [k \in 0 .. 0 |-> Link(fat, h, c, k)]
  BY DEF Link
<1> QED BY <1>1 DEF Begins

LEMMA BeginsMore ==
  ASSUME NEW fat, NEW c, NEW n \in Nat, NEW h, Begins(fat, c, n, h)
  PROVE  \E g : Begins(fat, c, n + 1, g)
<1> DEFINE g == [k \in 0 .. n + 1 |-> IF k = n + 1 THEN Link(fat, h, c, n + 1) ELSE h[k]]
<1>1. \A k \in 0 .. n : h[k] = Link(fat, h, c, k) /\ g[k] = h[k]
  BY DEF Begins
<1>2. ASSUME NEW k \in 0 .. n + 1 PROVE Link(fat, g, c, k) = Link(fat, h, c, k)
  <2>1. k > 0 => g[k - 1] = h[k - 1]
    BY <1>1
  <2> QED BY <2>1 DEF Link
<1>3. ASSUME NEW k \in 0 .. n + 1 PROVE g[k] = Link(fat, g, c, k)
  <2>1. CASE k = n + 1
    <3>1. g[k] = Link(fat, h, c, n + 1)
      BY <2>1
    <3> QED BY <2>1, <3>1, <1>2
  <2>2. CASE k /= n + 1
    <3>1. k \in 0 .. n
      BY <2>2
    <3> QED BY <3>1, <1>1, <1>2
  <2> QED BY <2>1, <2>2
<1> HIDE DEF g
<1>4. g = [k \in 0 .. n + 1 |-> g[k]]
  BY DEF g
<1>5. g = [k \in 0 .. n + 1 |-> Link(fat, g, c, k)]
  BY <1>3, <1>4
<1> QED BY <1>5 DEF Begins

LEMMA BeginsAt ==
  ASSUME NEW fat, NEW c, NEW n \in Nat, NEW h, Begins(fat, c, n, h), NEW k \in Nat, k <= n
  PROVE  h[k] = Link(fat, h, c, k)
<1>1. h = [j \in 0 .. n |-> Link(fat, h, c, j)]
  BY DEF Begins
<1>2. k \in 0 .. n
  OBVIOUS
<1>3. \A j \in 0 .. n : h[j] = Link(fat, h, c, j)
  BY <1>1, Zenon
<1> QED BY <1>2, <1>3

LEMMA BeginsAll == ASSUME NEW fat, NEW c, NEW n \in Nat PROVE \E h : Begins(fat, c, n, h)
<1> DEFINE S == {m \in Nat : ~\E h : Begins(fat, c, m, h)}
<1> SUFFICES ASSUME S /= {} PROVE FALSE
  OBVIOUS
<1>1. PICK m \in S : \A l \in S : m <= l
  BY LeastExists
<1>2. m /= 0
  BY BeginsZero
<1>3. m - 1 \in Nat /\ m - 1 \notin S
  BY <1>1, <1>2
<1>4. \E h : Begins(fat, c, m - 1, h)
  BY <1>3
<1>5. \E h : Begins(fat, c, (m - 1) + 1, h)
  BY <1>3, <1>4, BeginsMore
<1> QED BY <1>5

LEMMA BeginsAgree ==
  ASSUME NEW fat, NEW c, NEW n \in Nat, NEW m \in Nat, NEW g, NEW h,
         Begins(fat, c, n, g), Begins(fat, c, m, h)
  PROVE  \A k \in Nat : k <= n /\ k <= m => g[k] = h[k]
<1> DEFINE S == {k \in Nat : k <= n /\ k <= m /\ g[k] /= h[k]}
<1> SUFFICES ASSUME S /= {} PROVE FALSE
  OBVIOUS
<1>1. PICK k \in S : \A l \in S : k <= l
  BY LeastExists
<1>2. g[k] = Link(fat, g, c, k) /\ h[k] = Link(fat, h, c, k)
  BY BeginsAt
<1>3. k /= 0 => g[k - 1] = h[k - 1]
  BY <1>1
<1>4. Link(fat, g, c, k) = Link(fat, h, c, k)
  BY <1>3 DEF Link
<1> QED BY <1>2, <1>4

LEMMA LinksDef ==
  ASSUME NEW fat, NEW c
  PROVE  /\ Links(fat, c)[0] = c
         /\ \A k \in Nat : Links(fat, c)[k + 1] = IF Links(fat, c)[k] < EOC THEN fat[Links(fat, c)[k]] ELSE EOC
<1> DEFINE B(n) == CHOOSE h : Begins(fat, c, n, h)
           f == [k \in Nat |-> B(k)[k]]
<1>1. \A n \in Nat : Begins(fat, c, n, B(n))
  BY BeginsAll
<1>2. \A n, k \in Nat : k <= n => B(n)[k] = B(k)[k]
  BY <1>1, BeginsAgree
<1>3. ASSUME NEW k \in Nat PROVE f[k] = Link(fat, f, c, k)
  <2>1. B(k)[k] = Link(fat, B(k), c, k)
    <3> HIDE DEF B, f
    <3>1. Begins(fat, c, k, B(k))
      BY <1>1
    <3> QED BY <3>1, BeginsAt
  <2>2. k > 0 => k - 1 \in Nat /\ B(k)[k - 1] = f[k - 1]
    BY <1>2
  <2> HIDE DEF B, f
  <2>3. Link(fat, B(k), c, k) = Link(fat, f, c, k)
    BY <2>2 DEF Link
  <2>4. f[k] = B(k)[k]
    BY DEF f
  <2> QED BY <2>1, <2>3, <2>4
<1> DEFINE Good(h) == h = [k \in Nat |-> IF k = 0 THEN c ELSE IF h[k - 1] < EOC THEN fat[h[k - 1]] ELSE EOC]
<1>4. Good(f)
  <2> HIDE DEF B, f
  <2>1. f = [k \in Nat |-> f[k]]
    BY DEF f
  <2> QED BY <1>3, <2>1 DEF Link
<1> HIDE DEF B, f
<1>5. Good(Links(fat, c))
  <2>1. Links(fat, c) = CHOOSE h : Good(h)
    BY DEF Links
  <2> HIDE DEF Good
  <2> QED BY <1>4, <2>1
<1> DEFINE L == Links(fat, c)
<1>6. L = [k \in Nat |-> IF k = 0 THEN c ELSE IF L[k - 1] < EOC THEN fat[L[k - 1]] ELSE EOC]
  BY <1>5
<1> HIDE DEF L
<1>7. ASSUME NEW k \in Nat PROVE L[k + 1] = IF L[k] < EOC THEN fat[L[k]] ELSE EOC
  <2>1. k + 1 \in Nat /\ k + 1 /= 0 /\ (k + 1) - 1 = k
    OBVIOUS
  <2>2. L[k + 1] = IF L[(k + 1) - 1] < EOC THEN fat[L[(k + 1) - 1]] ELSE EOC
    BY <1>6, <2>1
  <2> QED BY <2>1, <2>2
<1>8. L[0] = c
  BY <1>6
<1> QED BY <1>7, <1>8 DEF L

LEMMA NodeFacts ==
  ASSUME image \in Images, ~Refused(image), NEW n \in Nodes
  PROVE  /\ n.dir \in BOOLEAN /\ n.size \in Nat
         /\ n.first_cluster \in Ends \cup (IF n.dir THEN DOMAIN image.entries ELSE DOMAIN image.bytes)
         /\ ~n.dir => \A size \in Sizes : n.size + size < WORD
<1>1. CASE n = RootNode
  <2>1. n.first_cluster = Bpb(image).root_cluster /\ n.size = 0 /\ n.dir = TRUE
    BY <1>1 DEF RootNode
  <2>2. Bpb(image).root_cluster \in Ends \cup DOMAIN image.entries
    BY FATAssumption
  <2>3. n.first_cluster \in Ends \cup (IF n.dir THEN DOMAIN image.entries ELSE DOMAIN image.bytes)
    BY <2>1, <2>2
  <2>4. n.dir \in BOOLEAN /\ (~n.dir => \A size \in Sizes : n.size + size < WORD)
    BY <2>1, Zenon
  <2> QED BY <2>1, <2>3, <2>4
<1>2. CASE n /= RootNode
  <2>0. PICK c \in DOMAIN image.entries :
          \E e \in ToSet(image.entries[c]) : n = fat32_create_node(e) /\ Head(e.base) # END /\ ~Skipped(e)
    BY <1>2 DEF Nodes
  <2>1. PICK e \in ToSet(image.entries[c]) : n = fat32_create_node(e) /\ Head(e.base) # END /\ ~Skipped(e)
    BY <2>0
  <2>2. n.first_cluster = e.cluster /\ n.size = e.size /\ n.dir = (e.attr = "dir")
    BY <2>1 DEF fat32_create_node
  <2>3. /\ e.cluster \in Ends \cup (IF e.attr = "dir" THEN DOMAIN image.entries ELSE DOMAIN image.bytes)
        /\ e.size \in Nat /\ \A size \in Sizes : e.size + size < WORD
    BY <2>1, FATAssumption
  <2> QED BY <2>2, <2>3
<1> QED BY <1>1, <1>2

\* The clusters of a node's kind.
Kind(n) == IF n.dir THEN DOMAIN image.entries ELSE DOMAIN image.bytes

LEMMA KindFacts ==
  ASSUME image \in Images, ~Refused(image), NEW n \in Nodes
  PROVE  /\ n.first_cluster \in Ends \cup Kind(n) /\ Kind(n) \subseteq 2 .. EOC - 1
         /\ image.fat[0] = EOC /\ image.fat[1] = EOC /\ EOC \in Nat /\ EOC >= 2
         /\ \A c \in Kind(n) : image.fat[c] \in Ends \cup Kind(n)
BY NodeFacts, FATAssumption DEF Kind

LEMMA ClusterFacts ==
  ASSUME image \in Images, ~Refused(image), NEW n \in Nodes
  PROVE  /\ ClusterOf(n, 0) = n.first_cluster
         /\ \A k \in Nat : /\ ClusterOf(n, k) \in Ends \cup Kind(n)
                           /\ ClusterOf(n, k + 1) = IF ClusterOf(n, k) < EOC THEN image.fat[ClusterOf(n, k)] ELSE EOC
<1> DEFINE C(k) == ClusterOf(n, k)
<1>1. C(0) = n.first_cluster /\ \A k \in Nat : C(k + 1) = IF C(k) < EOC THEN image.fat[C(k)] ELSE EOC
  BY LinksDef DEF ClusterOf
<1> HIDE DEF C
<1> DEFINE S == {k \in Nat : C(k) \notin Ends \cup Kind(n)}
<1>2. S = {}
  <2> SUFFICES ASSUME S /= {} PROVE FALSE
    OBVIOUS
  <2>1. PICK k \in S : \A l \in S : k <= l
    BY LeastExists
  <2>2. k /= 0
    BY <1>1, KindFacts
  <2>3. k - 1 \in Nat /\ C(k - 1) \in Ends \cup Kind(n)
    BY <2>1, <2>2
  <2>4. C((k - 1) + 1) \in Ends \cup Kind(n)
    <3>1. C((k - 1) + 1) = IF C(k - 1) < EOC THEN image.fat[C(k - 1)] ELSE EOC
      BY <1>1, <2>3
    <3> QED BY <2>3, <3>1, KindFacts DEF Ends
  <2> QED BY <2>1, <2>3, <2>4
<1> QED BY <1>1, <1>2 DEF C

\* There is a k-th cluster if the k-th number is one: a chain does not go on after its end.
LEMMA InChainIs ==
  ASSUME image \in Images, ~Refused(image), NEW n \in Nodes, NEW k \in Nat
  PROVE  /\ InChain(n, k) <=> ClusterOf(n, k) < EOC /\ HasData(ClusterOf(n, k))
         /\ InChain(n, k) <=> ClusterOf(n, k) \in Kind(n)
         /\ \A j \in Nat : j <= k /\ InChain(n, k) => InChain(n, j)
<1> DEFINE C(j) == ClusterOf(n, j)
           Good(j) == C(j) < EOC /\ C(j) >= 2
<1>1. \A j \in Nat : /\ C(j) \in Ends \cup Kind(n)
                     /\ C(j + 1) = IF C(j) < EOC THEN image.fat[C(j)] ELSE EOC
  BY ClusterFacts
<1> HIDE DEF C
<1>2. \A j \in Nat : Good(j) <=> C(j) \in Kind(n)
  BY <1>1, KindFacts DEF Ends
<1>3. ASSUME NEW j \in Nat, ~Good(j) PROVE ~Good(j + 1)
  <2>1. C(j) \in Ends
    BY <1>1, <1>2, <1>3
  <2> QED BY <1>1, <2>1, KindFacts DEF Ends
<1>4. ASSUME NEW j \in Nat, NEW l \in Nat, j <= l, Good(l) PROVE Good(j)
  <2> SUFFICES ASSUME ~Good(j) PROVE FALSE
    OBVIOUS
  <2> DEFINE S == {m \in Nat : j <= m /\ Good(m)}
  <2>1. S /= {}
    BY <1>4
  <2>2. PICK m \in S : \A x \in S : m <= x
    BY <2>1, LeastExists
  <2> HIDE DEF Good
  <2>3. m /= j
    BY <2>2
  <2>4. m - 1 \in Nat /\ j <= m - 1 /\ m - 1 \notin S
    BY <2>2, <2>3
  <2>5. ~Good((m - 1) + 1)
    BY <2>4, <1>3
  <2>6. (m - 1) + 1 = m
    BY <2>2
  <2> QED BY <2>2, <2>5, <2>6
<1>5. \A j \in Nat : InChain(n, j) <=> \A l \in 0 .. j : Good(l)
  BY DEF InChain, HasData, C
<1>6. ClusterOf(n, k) < EOC /\ HasData(ClusterOf(n, k)) <=> Good(k)
  BY DEF HasData, C
<1> HIDE DEF Good
<1>7. \A j \in Nat : InChain(n, j) <=> Good(j)
  BY <1>4, <1>5
<1> QED BY <1>2, <1>4, <1>6, <1>7 DEF C

-----------------------------------------------------------------------------
(* Reading.                                                                 *)

LEMMA DivMod ==
  ASSUME NEW a \in Nat
  PROVE  /\ a \div cluster_size \in Nat /\ a % cluster_size \in Nat /\ a % cluster_size < cluster_size
         /\ a = cluster_size * (a \div cluster_size) + (a % cluster_size)
<1>1. cluster_size \in Nat \ {0}
  BY FATAssumption
<1>2. a \div cluster_size \in Nat
  BY <1>1
<1>3. a % cluster_size \in Nat /\ a % cluster_size < cluster_size
  BY <1>1
<1>4. a = cluster_size * (a \div cluster_size) + (a % cluster_size)
  BY <1>1
<1> QED BY <1>2, <1>3, <1>4

LEMMA DivModOf ==
  ASSUME NEW k \in Nat, NEW r \in Nat, r < cluster_size, NEW a \in Nat, a = cluster_size * k + r
  PROVE  a \div cluster_size = k /\ a % cluster_size = r
<1>1. cluster_size \in Nat \ {0}
  BY FATAssumption
<1>2. a \div cluster_size = k
  BY <1>1
<1>3. a % cluster_size = r
  BY <1>1
<1> QED BY <1>2, <1>3

LEMMA DivFrom ==
  ASSUME NEW a \in Nat, NEW b \in Nat, a <= b
  PROVE  a \div cluster_size <= b \div cluster_size
<1>1. cluster_size \in Nat \ {0}
  BY FATAssumption
<1> QED BY <1>1

\* A piece of a sequence behind what a function says of the first numbers.
Upto(f, n) == [j \in 1 .. n |-> f[j]]
Piece(s, a, m) == SubSeq(s, a + 1, a + m)
GoesOn(s, a, f, n, m) == \A j \in Nat : 1 <= j /\ j <= m => s[a + j] = f[n + j]
LEMMA Joined ==
  ASSUME NEW R, NEW u \in Seq(R), NEW p \in Seq(R)
  PROVE  u \o p = [j \in 1 .. Len(u) + Len(p) |-> IF j <= Len(u) THEN u[j] ELSE p[j - Len(u)]]
<1> DEFINE q == u \o p
<1>1. q \in Seq(R) /\ Len(q) = Len(u) + Len(p)
  OBVIOUS
<1>2. \A j \in 1 .. Len(u) + Len(p) : q[j] = IF j <= Len(u) THEN u[j] ELSE p[j - Len(u)]
  OBVIOUS
<1> HIDE DEF q
<1>3. q = [j \in 1 .. Len(u) + Len(p) |-> q[j]]
  BY <1>1
<1>4. q = [j \in 1 .. Len(u) + Len(p) |-> IF j <= Len(u) THEN u[j] ELSE p[j - Len(u)]]
  BY <1>2, <1>3
<1> QED BY <1>4 DEF q

LEMMA PieceIs ==
  ASSUME NEW R, NEW s \in Seq(R), NEW m \in Nat, NEW a \in Nat, a + m <= Len(s)
  PROVE  /\ Piece(s, a, m) \in Seq(R) /\ Len(Piece(s, a, m)) = m
         /\ \A j \in 1 .. m : Piece(s, a, m)[j] = s[a + j]
BY DEF Piece

LEMMA Appended ==
  ASSUME NEW f, NEW n \in Nat, NEW m \in Nat, NEW s, s \in Seq(ToSet(s)), NEW a \in Nat, a + m <= Len(s),
         GoesOn(s, a, f, n, m)
  PROVE  /\ Upto(f, n) \o Piece(s, a, m) = Upto(f, n + m)
         /\ Len(Upto(f, n)) = n
<1> DEFINE R == {f[j] : j \in 1 .. n} \cup ToSet(s)
<1>1. Upto(f, n) \in Seq(R) /\ Len(Upto(f, n)) = n
  BY DEF Upto
<1>2. s \in Seq(R)
  <2>1. \A i \in 1 .. Len(s) : s[i] \in R
    BY DEF ToSet
  <2> QED BY <2>1
<1> HIDE DEF R
<1>3. PICK u \in Seq(R) : u = Upto(f, n)
  BY <1>1
<1>4. PICK p \in Seq(R) : p = Piece(s, a, m)
  BY <1>2, PieceIs
<1>5. Len(u) = n /\ Len(p) = m /\ \A j \in 1 .. m : p[j] = s[a + j]
  BY <1>1, <1>2, <1>3, <1>4, PieceIs
<1>6. u \o p = [j \in 1 .. n + m |-> IF j <= n THEN u[j] ELSE p[j - n]]
  <2>1. u \o p = [j \in 1 .. Len(u) + Len(p) |-> IF j <= Len(u) THEN u[j] ELSE p[j - Len(u)]]
    BY Joined
  <2> QED BY <1>5, <2>1
<1>7. ASSUME NEW j \in 1 .. n + m PROVE (IF j <= n THEN u[j] ELSE p[j - n]) = f[j]
  <2>1. CASE j <= n
    BY <2>1, <1>3 DEF Upto
  <2>2. CASE j > n
    <3>1. j - n \in 1 .. m /\ j - n \in Nat /\ n + (j - n) = j /\ 1 <= j - n /\ j - n <= m
      BY <2>2
    <3>2. p[j - n] = s[a + (j - n)]
      BY <1>5, <3>1
    <3>3. s[a + (j - n)] = f[n + (j - n)]
      BY <3>1 DEF GoesOn
    <3> QED BY <2>2, <3>1, <3>2, <3>3
  <2> QED BY <2>1, <2>2
<1>8. u \o p = Upto(f, n + m)
  BY <1>6, <1>7 DEF Upto
<1> QED BY <1>1, <1>3, <1>4, <1>8

\* The bytes of a read, and those of them that there are.
BytesFrom(n, offset) == [j \in Nat |-> ByteOf(n, offset - 1 + j)]
Copied(n, offset, most) ==
  /\ Len(buffer) \in Nat /\ Len(buffer) <= most
  /\ buffer = Upto(BytesFrom(n, offset), Len(buffer))
  /\ \A j \in Nat : 1 <= j /\ j <= Len(buffer) => HasByte(n, offset - 1 + j)

\* The reader is before the k-th cluster of the file, or has all it wanted.
AtCluster(n, offset, most, k) ==
  /\ cluster = ClusterOf(n, k) /\ skip_clusters \in Nat
  /\ \/ /\ buffer = <<>> /\ skip_clusters + k = offset \div cluster_size
        /\ cluster_offset = offset % cluster_size
     \/ /\ skip_clusters = 0 /\ cluster_offset = 0
        /\ Len(buffer) = most \/ offset + Len(buffer) = cluster_size * k

IsRead(c) ==
  /\ c.op = "read" /\ c.node \in Nodes /\ ~c.node.dir /\ c.asked \in Sizes /\ c.offset \in Nat
  /\ c.offset < c.node.size /\ c.size = Lesser(c.asked, c.node.size - c.offset)
ReadInv ==
  phase = "read" =>
    /\ IsRead(call) /\ Copied(call.node, call.offset, call.size)
    /\ \E k \in Nat : AtCluster(call.node, call.offset, call.size, k)

Running == image \in Images /\ (phase \in {"idle", "read", "walk"} => ~Refused(image))

LEMMA ReadTypes ==
  ASSUME Running, phase = "read", ReadInv
  PROVE  /\ call.node \in Nodes /\ call.node.size \in Nat /\ call.offset \in Nat /\ call.asked \in Nat
         /\ call.size \in Nat /\ call.size <= call.asked /\ call.offset + call.size <= call.node.size
         /\ call.size = call.asked \/ call.offset + call.size = call.node.size
         /\ image \in Images /\ ~Refused(image) /\ Kind(call.node) = DOMAIN image.bytes
<1>1. call.node \in Nodes /\ image \in Images /\ ~Refused(image)
  BY DEF Running, ReadInv, IsRead
<1>2. call.node.size \in Nat
  BY <1>1, NodeFacts
<1>3. call.asked \in Nat
  BY FATAssumption DEF ReadInv, IsRead
<1> QED BY <1>1, <1>2, <1>3 DEF ReadInv, IsRead, Lesser, Kind

LEMMA ReadCallRead ==
  ASSUME Running, NEW n \in Nodes, NEW offset \in 0 .. n.size, NEW size \in Sizes, ReadCall(n, offset, size)
  PROVE  ReadInv'
<1>1. image \in Images /\ ~Refused(image) /\ ~n.dir /\ n.size \in Nat /\ size \in Nat /\ WORD \in Nat
  BY NodeFacts, FATAssumption DEF Running, ReadCall
<1>2. n.size + size < WORD
  BY <1>1, NodeFacts
<1>3. (offset + size) % WORD = offset + size
  BY <1>1, <1>2
<1>4. Clipped(n, offset, size) = Lesser(size, n.size - offset)
  BY <1>1, <1>3 DEF Clipped, Lesser
<1>5. call'.op = "read" /\ call'.node = n /\ call'.offset = offset /\ call'.asked = size
      /\ call'.size = Lesser(size, n.size - offset) /\ offset < n.size
  BY <1>4 DEF ReadCall
<1>6. Nodes' = Nodes
  BY DEF ReadCall, Nodes, RootNode
<1>7. IsRead(call)'
  BY <1>1, <1>5, <1>6 DEF IsRead
<1>8. buffer' = <<>> /\ Len(buffer') = 0
  BY DEF ReadCall
<1>9. call'.size \in Nat
  BY <1>1, <1>5 DEF Lesser
<1>10. Copied(call.node, call.offset, call.size)'
  BY <1>8, <1>9 DEF Copied, Upto
<1>11. offset \div cluster_size \in Nat
  BY <1>1, DivMod
<1>12. cluster' = ClusterOf(n, 0)'
  BY <1>1, ClusterFacts DEF ReadCall, ClusterOf
<1>13. AtCluster(call.node, call.offset, call.size, 0)'
  BY <1>5, <1>8, <1>11, <1>12 DEF AtCluster, ReadCall
<1> QED BY <1>7, <1>10, <1>13 DEF ReadInv

LEMMA SkipRead ==
  ASSUME Running, ReadInv, Skip
  PROVE  ReadInv'
<1>1. phase = "read" /\ phase' = "read" /\ UNCHANGED <<image, call, buffer, cluster_offset>>
  BY DEF Skip
<1>2. PICK k \in Nat : AtCluster(call.node, call.offset, call.size, k)
  BY <1>1 DEF ReadInv
<1>3. Nodes' = Nodes /\ \A n, j : ClusterOf(n, j)' = ClusterOf(n, j)
  BY <1>1 DEF Nodes, RootNode, ClusterOf
<1>4. \A n, p : ByteOf(n, p)' = ByteOf(n, p) /\ HasByte(n, p)' = HasByte(n, p)
  BY <1>1, <1>3 DEF ByteOf, HasByte, InChain
<1>5. cluster' = ClusterOf(call.node, k + 1)
  BY <1>2, ReadTypes, <1>1, ClusterFacts DEF AtCluster, Skip, fat32_get_next_cluster
<1>6. AtCluster(call.node, call.offset, call.size, k + 1)'
  BY <1>1, <1>2, <1>3, <1>5 DEF AtCluster, Skip
<1>7. IsRead(call)' /\ Copied(call.node, call.offset, call.size)'
  BY <1>1, <1>3, <1>4 DEF ReadInv, IsRead, Copied, BytesFrom
<1> QED BY <1>6, <1>7 DEF ReadInv

\* Where the reader stands when it copies, and what it finds there.
LEMMA Standing ==
  ASSUME Running, phase = "read", ReadInv, Wants, skip_clusters = 0,
         NEW k \in Nat, AtCluster(call.node, call.offset, call.size, k)
  PROVE  /\ Len(buffer) \in Nat /\ cluster_offset \in Nat /\ cluster_offset < cluster_size
         /\ call.offset + Len(buffer) = cluster_size * k + cluster_offset
<1>1. call.offset \in Nat /\ cluster_size \in Nat \ {0} /\ call.size \in Nat
  BY ReadTypes, FATAssumption
<1>2. Len(buffer) \in Nat /\ Len(buffer) < call.size
  BY DEF Wants, ReadInv, Copied
<1>3. CASE buffer = <<>> /\ skip_clusters + k = call.offset \div cluster_size
           /\ cluster_offset = call.offset % cluster_size
  <2>1. Len(buffer) = 0
    BY <1>3
  <2>2. k = call.offset \div cluster_size
    BY <1>3
  <2>3. /\ cluster_offset \in Nat /\ cluster_offset < cluster_size
        /\ call.offset = cluster_size * k + cluster_offset
    BY <1>1, <1>3, <2>2, DivMod
  <2> QED BY <1>1, <1>2, <2>1, <2>3
<1>4. CASE cluster_offset = 0 /\ call.offset + Len(buffer) = cluster_size * k
  BY <1>1, <1>2, <1>4
<1> QED BY <1>2, <1>3, <1>4 DEF AtCluster

LEMMA CopyClusterRead ==
  ASSUME Running, ReadInv, CopyCluster
  PROVE  ReadInv'
<1> DEFINE n == call.node
           from == call.offset
           L == Len(buffer)
           T == ToCopy
           co == cluster_offset
           f == BytesFrom(n, from)
           s == image.bytes[cluster]
<1>1. phase = "read" /\ phase' = "read" /\ UNCHANGED <<image, call, skip_clusters>>
  BY DEF CopyCluster, Reading
<1>2. PICK k \in Nat : AtCluster(n, from, call.size, k)
  BY <1>1 DEF ReadInv
<1>3. Nodes' = Nodes /\ \A m, j : ClusterOf(m, j)' = ClusterOf(m, j)
  BY <1>1 DEF Nodes, RootNode, ClusterOf
<1>4. \A m, p : ByteOf(m, p)' = ByteOf(m, p) /\ HasByte(m, p)' = HasByte(m, p)
  BY <1>1, <1>3 DEF ByteOf, HasByte, InChain
<1>5. Wants /\ cluster < EOC /\ HasData(cluster) /\ cluster = ClusterOf(n, k) /\ skip_clusters \in Nat
  BY <1>2 DEF CopyCluster, Wants, AtCluster
<1>6. /\ n \in Nodes /\ n.size \in Nat /\ from \in Nat /\ call.size \in Nat /\ from + call.size <= n.size
      /\ image \in Images /\ ~Refused(image) /\ Kind(n) = DOMAIN image.bytes
  BY <1>1, ReadTypes
<1>7. cluster_size \in Nat \ {0} /\ EOC \in Nat
  BY FATAssumption
<1>8. cluster \in Ends \cup Kind(n) /\ ClusterOf(n, k + 1) = image.fat[cluster]
  BY <1>5, <1>6, ClusterFacts
<1>9. skip_clusters = 0
  <2>1. cluster \in Nat
    BY <1>6, <1>7, <1>8, KindFacts DEF Ends
  <2> QED BY <2>1, <1>5, <1>7 DEF CopyCluster, Reading
<1>10. L \in Nat /\ co \in Nat /\ co < cluster_size /\ from + L = cluster_size * k + co
  BY <1>1, <1>2, <1>5, <1>9, Standing
<1>11. L < call.size
  BY <1>5 DEF Wants
<1>12. InChain(n, k) /\ cluster \in DOMAIN image.bytes
  BY <1>5, <1>6, InChainIs
<1>13. s \in Seq(ToSet(s)) /\ Len(s) = cluster_size
  BY <1>6, <1>12, FATAssumption
<1>14. T \in Nat /\ co + T <= cluster_size /\ L + T <= call.size /\ (co + T = cluster_size \/ L + T = call.size)
  <2>1. cluster_size - co \in Nat /\ call.size - L \in Nat
    BY <1>6, <1>7, <1>10, <1>11
  <2>2. T = IF cluster_size - co < call.size - L THEN cluster_size - co ELSE call.size - L
    BY DEF ToCopy, Lesser
  <2> HIDE DEF T, co, L
  <2>3. CASE cluster_size - co < call.size - L
    BY <2>1, <2>2, <2>3, <1>6, <1>7, <1>10
  <2>4. CASE ~(cluster_size - co < call.size - L)
    BY <2>1, <2>2, <2>4, <1>6, <1>7, <1>10
  <2> QED BY <2>3, <2>4
<1>15. buffer' = buffer \o SubSeq(s, co + 1, co + T) /\ cluster_offset' = 0 /\ cluster' = image.fat[cluster]
  BY DEF CopyCluster, NextOffset, fat32_get_next_cluster
<1>16. buffer = Upto(f, L) /\ \A j \in Nat : 1 <= j /\ j <= L => HasByte(n, from - 1 + j)
  BY <1>1 DEF ReadInv, Copied
<1> HIDE DEF n, from, L, T, co, s
<1>17. ASSUME NEW j \in Nat, 1 <= j, j <= T
       PROVE  s[co + j] = f[L + j] /\ HasByte(n, from - 1 + (L + j))
  <2> DEFINE p == from - 1 + (L + j)
  <2>1. p \in Nat /\ co + j - 1 \in Nat /\ co + j - 1 < cluster_size /\ p = cluster_size * k + (co + j - 1)
    BY <1>6, <1>7, <1>10, <1>14, <1>17
  <2> HIDE DEF p
  <2>2. p \div cluster_size = k /\ p % cluster_size = co + j - 1
    BY <2>1, DivModOf
  <2>3. ByteOf(n, p) = s[(co + j - 1) + 1]
    BY <2>2, <1>5 DEF ByteOf, s
  <2>4. (co + j - 1) + 1 = co + j
    BY <1>10
  <2>5. f[L + j] = ByteOf(n, p)
    <3>1. L + j \in Nat
      BY <1>10
    <3> QED BY <3>1 DEF BytesFrom, p
  <2>6. p < n.size
    BY <1>6, <1>10, <1>14, <1>17 DEF p
  <2>7. HasByte(n, p)
    BY <2>2, <2>6, <1>12 DEF HasByte
  <2> QED BY <2>3, <2>4, <2>5, <2>7 DEF p
<1> HIDE DEF f
<1>18. buffer' = Upto(f, L + T) /\ Len(buffer') = L + T
  <2>1. Upto(f, L) \o SubSeq(s, co + 1, co + T) = Upto(f, L + T)
    <3>1. GoesOn(s, co, f, L, T)
      BY <1>17 DEF GoesOn
    <3>2. co + T <= Len(s)
      BY <1>13, <1>14
    <3>3. Upto(f, L) \o Piece(s, co, T) = Upto(f, L + T)
      BY <3>1, <3>2, <1>10, <1>13, <1>14, Appended
    <3> QED BY <3>3 DEF Piece
  <2>2. L + T \in Nat /\ Len(Upto(f, L + T)) = L + T
    BY <1>10, <1>14 DEF Upto
  <2> QED BY <2>1, <2>2, <1>15, <1>16
<1>19. ASSUME NEW j \in Nat, 1 <= j, j <= L + T PROVE HasByte(n, from - 1 + j)
  <2>1. CASE j <= L
    BY <2>1, <1>16, <1>19
  <2>2. CASE j > L
    <3>1. j - L \in Nat /\ 1 <= j - L /\ j - L <= T /\ L + (j - L) = j
      BY <2>2, <1>10, <1>14, <1>19
    <3> QED BY <3>1, <1>17
  <2> QED BY <2>1, <2>2, <1>10
<1>20. f' = f /\ n' = n /\ from' = from /\ call'.size = call.size
  BY <1>1, <1>4 DEF f, n, from, BytesFrom
<1>21. Copied(call.node, call.offset, call.size)'
  <2>1. L + T \in Nat
    BY <1>10, <1>14
  <2>2. buffer' = Upto(f', Len(buffer'))
    BY <1>18, <1>20
  <2>3. \A j \in Nat : 1 <= j /\ j <= Len(buffer') => HasByte(n, from - 1 + j)'
    BY <1>4, <1>18, <1>19, <1>20
  <2> QED BY <2>1, <2>2, <2>3, <1>14, <1>18, <1>20 DEF Copied, f, n, from
<1>22. AtCluster(call.node, call.offset, call.size, k + 1)'
  <2>1. cluster' = ClusterOf(call.node, k + 1)'
    BY <1>1, <1>3, <1>8, <1>15 DEF n
  <2>2. L + T = call.size \/ from + (L + T) = cluster_size * (k + 1)
    BY <1>6, <1>7, <1>10, <1>14
  <2>3. k + 1 \in Nat /\ skip_clusters' = 0 /\ cluster_offset' = 0
    BY <1>1, <1>9, <1>15
  <2> QED BY <2>1, <2>2, <2>3, <1>1, <1>18 DEF AtCluster, from
<1>23. IsRead(call)'
  BY <1>1, <1>3 DEF ReadInv, IsRead
<1> QED BY <1>21, <1>22, <1>23 DEF ReadInv

\* A read ends when it has all there is.
LEMMA ReadDoneRight ==
  ASSUME Running, ReadInv, ReadDone
  PROVE  ReadsFile'
<1> DEFINE n == call.node
           from == call.offset
           L == Len(buffer)
           f == BytesFrom(n, from)
<1>1. phase = "read" /\ phase' = "idle" /\ UNCHANGED <<image, call>> /\ answer' = buffer
  BY DEF ReadDone, Reading, Return
<1>2. PICK k \in Nat : AtCluster(n, from, call.size, k)
  BY <1>1 DEF ReadInv
<1>3. /\ n \in Nodes /\ n.size \in Nat /\ from \in Nat /\ call.size \in Nat /\ from + call.size <= n.size
      /\ call.asked \in Nat /\ call.size <= call.asked /\ (call.size = call.asked \/ from + call.size = n.size)
      /\ image \in Images /\ ~Refused(image)
  BY <1>1, ReadTypes
<1>4. cluster_size \in Nat \ {0} /\ EOC \in Nat
  BY FATAssumption
<1>5. L \in Nat /\ L <= call.size /\ buffer = Upto(f, L)
      /\ \A j \in Nat : 1 <= j /\ j <= L => HasByte(n, from - 1 + j)
  BY <1>1 DEF ReadInv, Copied
<1>6. ASSUME NEW j \in 1 .. call.asked, j > L PROVE ~HasByte(n, from - 1 + j)
  <2> DEFINE p == from - 1 + j
  <2>1. p \in Nat /\ j \in Nat /\ p >= from + L
    BY <1>3, <1>5, <1>6
  <2>2. CASE L = call.size
    <3>1. p >= n.size
      BY <2>2, <1>3, <1>6
    <3> QED BY <3>1, <2>1, <1>3 DEF HasByte
  <2>3. CASE L /= call.size
    <3>1. ~(cluster < EOC /\ HasData(cluster)) /\ cluster = ClusterOf(n, k)
      BY <2>3, <1>1, <1>2, <1>5, <1>3 DEF ReadDone, Wants, AtCluster
    <3>2. ~InChain(n, k)
      BY <3>1, <1>3, InChainIs
    <3>3. k <= (from + L) \div cluster_size
      <4>1. CASE buffer = <<>> /\ skip_clusters \in Nat /\ skip_clusters + k = from \div cluster_size
        <5>1. L = 0
          BY <4>1
        <5>2. from \div cluster_size \in Nat
          BY <1>3, DivMod
        <5>3. from + L = from
          BY <5>1, <1>3
        <5>4. k <= from \div cluster_size
          BY <4>1, <5>2
        <5> QED BY <5>3, <5>4
      <4>2. CASE from + L = cluster_size * k
        <5>1. from + L \in Nat /\ from + L = cluster_size * k + 0 /\ 0 < cluster_size
          BY <4>2, <1>3, <1>4, <1>5
        <5>2. (from + L) \div cluster_size = k
          BY <5>1, DivModOf
        <5> QED BY <5>2
      <4> QED BY <4>1, <4>2, <2>3, <1>2 DEF AtCluster
    <3>4. (from + L) \div cluster_size <= p \div cluster_size /\ (from + L) \div cluster_size \in Nat
          /\ p \div cluster_size \in Nat
      <4>1. from + L \in Nat
        BY <1>3, <1>5
      <4> QED BY <4>1, <2>1, DivFrom, DivMod
    <3>5. k <= p \div cluster_size
      BY <3>3, <3>4
    <3>6. ~InChain(n, p \div cluster_size)
      BY <3>2, <3>4, <3>5, <1>3, InChainIs
    <3> QED BY <3>6 DEF HasByte
  <2> QED BY <2>2, <2>3
<1>7. {j \in 1 .. call.asked : HasByte(n, from - 1 + j)} = 1 .. L
  <2>1. 1 .. L \subseteq 1 .. call.asked
    BY <1>3, <1>5
  <2>2. \A j \in 1 .. call.asked : HasByte(n, from - 1 + j) <=> j <= L
    <3> TAKE j \in 1 .. call.asked
    <3>1. j <= L => HasByte(n, from - 1 + j)
      BY <1>3, <1>5
    <3>2. j > L => ~HasByte(n, from - 1 + j)
      BY <1>6
    <3> QED BY <3>1, <3>2, <1>3, <1>5
  <2> QED BY <2>1, <2>2, <1>3, <1>5
<1>8. buffer = [j \in 1 .. L |-> ByteOf(n, from - 1 + j)]
  <2>1. \A j \in 1 .. L : f[j] = ByteOf(n, from - 1 + j)
    BY <1>5 DEF BytesFrom
  <2> HIDE DEF f, L, n, from
  <2>2. buffer = [j \in 1 .. L |-> f[j]]
    BY <1>5 DEF Upto
  <2> QED BY <2>1, <2>2
<1>9. buffer = [j \in {j \in 1 .. call.asked : HasByte(n, from - 1 + j)} |-> ByteOf(n, from - 1 + j)]
  BY <1>7, <1>8
<1>10. \A m, j : ClusterOf(m, j)' = ClusterOf(m, j)
  BY <1>1 DEF ClusterOf
<1>11. \A m, p : ByteOf(m, p)' = ByteOf(m, p) /\ HasByte(m, p)' = HasByte(m, p)
  BY <1>1, <1>10 DEF ByteOf, HasByte, InChain
<1> QED BY <1>1, <1>9, <1>11 DEF ReadsFile

-----------------------------------------------------------------------------
(* Walking through a directory.                                             *)

LEMMA PlacesAre ==
  ASSUME image \in Images, ~Refused(image), NEW n \in Nodes, n.dir
  PROVE  /\ \A x \in Places(n) :
              /\ x[1] \in Nat /\ x[1] < EOC /\ InChain(n, x[1]) /\ x = <<x[1], x[2]>>
              /\ x[2] \in Nat /\ 1 <= x[2] /\ x[2] <= Len(image.entries[ClusterOf(n, x[1])])
         /\ \A k \in Nat : InChain(n, k) =>
              /\ k < EOC /\ ClusterOf(n, k) \in DOMAIN image.entries
              /\ Len(image.entries[ClusterOf(n, k)]) \in Nat
              /\ \A j \in 1 .. Len(image.entries[ClusterOf(n, k)]) : <<k, j>> \in Places(n)
<1>0. EOC \in Nat
  BY FATAssumption
<1>1. Kind(n) = DOMAIN image.entries
  BY DEF Kind
<1>2. ASSUME NEW k \in Nat, InChain(n, k)
      PROVE  /\ ClusterOf(n, k) \in DOMAIN image.entries
             /\ Len(image.entries[ClusterOf(n, k)]) \in Nat
             /\ DOMAIN image.entries[ClusterOf(n, k)] = 1 .. Len(image.entries[ClusterOf(n, k)])
  <2>1. ClusterOf(n, k) \in DOMAIN image.entries
    BY <1>1, <1>2, InChainIs
  <2>2. image.entries[ClusterOf(n, k)] \in Seq(ToSet(image.entries[ClusterOf(n, k)]))
    BY <2>1, FATAssumption
  <2> QED BY <2>1, <2>2
<1>3. ASSUME NEW k \in Nat, InChain(n, k) PROVE k < EOC
  <2>1. InChain(n, 0)
    BY <1>3, InChainIs
  <2>2. ClusterOf(n, 0) \in DOMAIN image.entries
    BY <1>2, <2>1
  <2>3. PICK l \in 0 .. EOC : Links(image.fat, ClusterOf(n, 0))[l] \in Ends
    BY <2>2, FATAssumption
  <2>4. ClusterOf(n, l) \in Ends
    BY <2>3, ClusterFacts DEF ClusterOf
  <2>5. ~InChain(n, l)
    BY <2>4, <1>1, InChainIs, KindFacts DEF Ends
  <2>6. ~(l <= k)
    BY <1>0, <1>3, <2>3, <2>5, InChainIs
  <2> QED BY <1>0, <2>3, <2>6
<1>4. ASSUME NEW x \in Places(n)
      PROVE  /\ x[1] \in Nat /\ x[1] < EOC /\ InChain(n, x[1]) /\ x = <<x[1], x[2]>>
             /\ x[2] \in Nat /\ 1 <= x[2] /\ x[2] <= Len(image.entries[ClusterOf(n, x[1])])
  <2>1. PICK k \in 0 .. EOC - 1 : InChain(n, k) /\ x \in {k} \X DOMAIN image.entries[ClusterOf(n, k)]
    BY <1>4 DEF Places
  <2>2. PICK j \in DOMAIN image.entries[ClusterOf(n, k)] : x = <<k, j>>
    BY <2>1
  <2>3. x[1] = k /\ x[2] = j
    BY <2>2
  <2> QED BY <1>0, <1>2, <2>1, <2>2, <2>3
<1>5. ASSUME NEW k \in Nat, InChain(n, k), NEW j \in 1 .. Len(image.entries[ClusterOf(n, k)])
      PROVE  <<k, j>> \in Places(n)
  <2>1. k \in 0 .. EOC - 1
    BY <1>0, <1>3, <1>5
  <2>2. <<k, j>> \in {k} \X DOMAIN image.entries[ClusterOf(n, k)]
    BY <1>2, <1>5
  <2> QED BY <1>5, <2>1, <2>2 DEF Places
<1> QED BY <1>2, <1>3, <1>4, <1>5

\* What has been asked for is at place x.
Matches(n, x) ==
  IF call.op = "readdir" THEN Listed(EntryOf(n, x)) /\ NumberOf(n, x) = call.arg
  ELSE ~Skipped(EntryOf(n, x)) /\ fat32_format_name(EntryOf(n, x)) = call.arg

\* The walk has passed the places before place at.
Earlier(n, at) == {x \in Places(n) : Listed(EntryOf(n, x)) /\ Before(x, at)}
Passed(n, at) ==
  /\ \A x \in Places(n) : Before(x, at) => Head(EntryOf(n, x).base) # END /\ ~Matches(n, x)
  /\ call.op = "readdir" => IsFiniteSet(Earlier(n, at)) /\ current_match = Cardinality(Earlier(n, at))
AtPlace(n, k) ==
  /\ cluster = ClusterOf(n, k) /\ entry \in Nat
  /\ \A j \in Nat : j < k => InChain(n, j)
  /\ InChain(n, k) => entry <= Len(image.entries[cluster])
  /\ Passed(n, <<k, entry + 1>>)
IsWalk(c) == c.op \in {"readdir", "finddir"} /\ c.node \in Nodes /\ c.node.dir
WalkInv == phase = "walk" => IsWalk(call) /\ \E k \in Nat : AtPlace(call.node, k)

LEMMA WalkCallWalks ==
  ASSUME Running, NEW n \in Nodes, NEW op \in {"readdir", "finddir"}, NEW arg, Walk(op, n, arg)
  PROVE  WalkInv'
<1>1. image \in Images /\ ~Refused(image) /\ n.dir /\ image' = image /\ phase' = "walk"
  BY DEF Running, Walk
<1>2. call'.op = op /\ call'.node = n /\ call'.arg = arg
  BY DEF Walk
<1>3. Nodes' = Nodes /\ \A m, j : ClusterOf(m, j)' = ClusterOf(m, j)
  BY <1>1 DEF Nodes, RootNode, ClusterOf
<1>4. Places(n)' = Places(n) /\ \A x : EntryOf(n, x)' = EntryOf(n, x)
  BY <1>1, <1>3 DEF Places, EntryOf, InChain
<1>5. \A x \in Places(n) : ~Before(x, <<0, 1>>)
  BY <1>1, PlacesAre DEF Before
<1>7. IsFiniteSet({}) /\ Cardinality({}) = 0 /\ current_match' = 0 /\ entry' = 0
  BY FS_EmptySet DEF Walk
<1>8. Passed(n, <<0, entry + 1>>)'
  <2>1. <<0, entry + 1>>' = <<0, 1>>
    BY <1>7
  <2>2. Earlier(n, <<0, entry + 1>>)' = {}
    BY <1>4, <1>5, <2>1 DEF Earlier
  <2> QED BY <1>4, <1>5, <1>7, <2>1, <2>2 DEF Passed
<1>9. cluster' = ClusterOf(n, 0)'
  BY <1>1, <1>3, ClusterFacts DEF Walk
<1>10. ASSUME InChain(n, 0)' PROVE entry' <= Len(image.entries[cluster])'
  <2>1. InChain(n, 0)
    BY <1>3, <1>10 DEF InChain
  <2>2. Len(image.entries[ClusterOf(n, 0)]) \in Nat
    BY <1>1, <2>1, PlacesAre
  <2> QED BY <1>1, <1>3, <1>7, <1>9, <2>2
<1>11. AtPlace(n, 0)'
  <2>1. entry' \in Nat /\ \A j \in Nat : ~(j < 0)
    BY <1>7
  <2> QED BY <2>1, <1>8, <1>9, <1>10 DEF AtPlace
<1>12. IsWalk(call)'
  BY <1>1, <1>2, <1>3 DEF IsWalk
<1>13. \E k \in Nat : AtPlace(n, k)'
  BY <1>11
<1> QED BY <1>2, <1>12, <1>13 DEF WalkInv

LEMMA SameWalk ==
  ASSUME UNCHANGED <<image, call>>
  PROVE  /\ Nodes' = Nodes
         /\ \A n, k : ClusterOf(n, k)' = ClusterOf(n, k) /\ InChain(n, k)' = InChain(n, k)
         /\ \A n : Places(n)' = Places(n) /\ ListingOf(n)' = ListingOf(n)
         /\ \A n, x : /\ EntryOf(n, x)' = EntryOf(n, x) /\ NumberOf(n, x)' = NumberOf(n, x)
                      /\ Matches(n, x)' = Matches(n, x) /\ Earlier(n, x)' = Earlier(n, x)
<1>1. Nodes' = Nodes
  BY DEF Nodes, RootNode
<1>2. \A n, k : ClusterOf(n, k)' = ClusterOf(n, k)
  BY DEF ClusterOf
<1>3. \A n, k : InChain(n, k)' = InChain(n, k)
  BY <1>2 DEF InChain
<1>4. \A n : Places(n)' = Places(n)
  BY <1>2, <1>3 DEF Places
<1>5. \A n, x : EntryOf(n, x)' = EntryOf(n, x)
  BY <1>2 DEF EntryOf
<1>6. \A n, x : Ended(n, x)' = Ended(n, x)
  BY <1>4, <1>5 DEF Ended
<1>7. \A n : ListingOf(n)' = ListingOf(n)
  BY <1>4, <1>5, <1>6 DEF ListingOf
<1>8. \A n, x : NumberOf(n, x)' = NumberOf(n, x)
  BY <1>7 DEF NumberOf
<1>9. \A n, x : Matches(n, x)' = Matches(n, x)
  BY <1>5, <1>8 DEF Matches
<1>10. \A n, x : Earlier(n, x)' = Earlier(n, x)
  BY <1>4, <1>5 DEF Earlier
<1> QED BY <1>1, <1>2, <1>3, <1>4, <1>5, <1>7, <1>8, <1>9, <1>10

LEMMA WalkTypes ==
  ASSUME Running, phase = "walk", WalkInv
  PROVE  /\ image \in Images /\ ~Refused(image) /\ call.node \in Nodes /\ call.node.dir
         /\ call.op \in {"readdir", "finddir"}
BY DEF Running, WalkInv, IsWalk

LEMMA HereIs ==
  ASSUME Running, phase = "walk", WalkInv, AtEntry, NEW k \in Nat, AtPlace(call.node, k)
  PROVE  /\ InChain(call.node, k) /\ <<k, entry + 1>> \in Places(call.node) /\ entry + 1 \in Nat
         /\ EntryOf(call.node, <<k, entry + 1>>) = Here /\ entry + 1 <= Len(image.entries[cluster])
<1> DEFINE n == call.node
<1>1. cluster = ClusterOf(n, k) /\ entry \in Nat
  BY DEF AtPlace
<1>2. InChain(n, k)
  BY <1>1, WalkTypes, InChainIs DEF AtEntry, InCluster
<1>3. Len(image.entries[ClusterOf(n, k)]) \in Nat
      /\ \A j \in 1 .. Len(image.entries[ClusterOf(n, k)]) : <<k, j>> \in Places(n)
  BY <1>2, WalkTypes, PlacesAre
<1>4. entry + 1 \in 1 .. Len(image.entries[cluster])
  BY <1>1, <1>3 DEF AtEntry
<1> QED BY <1>1, <1>2, <1>3, <1>4 DEF EntryOf, Here

\* Places are in one order.
LEMMA Order ==
  ASSUME image \in Images, ~Refused(image), NEW n \in Nodes, n.dir, NEW x \in Places(n), NEW y \in Places(n)
  PROVE  /\ Before(x, y) \/ x = y \/ Before(y, x)
         /\ ~Before(x, x)
         /\ \A z \in Places(n) : Before(x, y) /\ Before(y, z) => Before(x, z)
         /\ ~(Before(x, y) /\ Before(y, x))
<1>1. \A z \in Places(n) : z[1] \in Nat /\ z[2] \in Nat /\ z = <<z[1], z[2]>>
  BY PlacesAre
<1> QED BY <1>1 DEF Before

\* A place up to which the directory does not end is in the listing if it is
\* listed, and its number is that of the listed ones before it.
LEMMA InListing ==
  ASSUME image \in Images, ~Refused(image), NEW n \in Nodes, n.dir, NEW x \in Places(n),
         \A y \in Places(n) : Before(y, x) => Head(EntryOf(n, y).base) # END
  PROVE  /\ Head(EntryOf(n, x).base) # END /\ Listed(EntryOf(n, x)) => x \in ListingOf(n)
         /\ NumberOf(n, x) = Cardinality(Earlier(n, x))
<1>1. ASSUME Head(EntryOf(n, x).base) # END PROVE ~Ended(n, x)
  <2>1. ASSUME NEW y \in Places(n), Head(EntryOf(n, y).base) = END PROVE Before(x, y)
    BY <1>1, <2>1, Order
  <2> QED BY <2>1 DEF Ended
<1>2. ASSUME NEW y \in Places(n), Before(y, x) PROVE ~Ended(n, y)
  <2>1. ASSUME NEW z \in Places(n), Head(EntryOf(n, z).base) = END PROVE Before(y, z)
    <3>1. ~Before(z, x) /\ z # y
      BY <1>2, <2>1
    <3>2. ~Before(z, y)
      BY <1>2, <3>1, Order
    <3> QED BY <3>1, <3>2, Order
  <2> QED BY <2>1 DEF Ended
<1>3. {y \in ListingOf(n) : Before(y, x)} = Earlier(n, x)
  BY <1>2 DEF ListingOf, Earlier
<1> QED BY <1>1, <1>3 DEF ListingOf, NumberOf

LEMMA NextEntryWalks ==
  ASSUME Running, WalkInv, NextEntry
  PROVE  WalkInv'
<1> DEFINE n == call.node
<1>1. phase = "walk" /\ phase' = "walk" /\ UNCHANGED <<image, call, cluster>> /\ entry' = entry + 1
  BY DEF NextEntry, AtEntry, InCluster
<1>2. PICK k \in Nat : AtPlace(n, k)
  BY <1>1 DEF WalkInv
<1>3. image \in Images /\ ~Refused(image) /\ n \in Nodes /\ n.dir /\ call.op \in {"readdir", "finddir"}
  BY <1>1, WalkTypes
<1> DEFINE x == <<k, entry + 1>>
           z == <<k, entry + 2>>
<1>4. InChain(n, k) /\ x \in Places(n) /\ EntryOf(n, x) = Here /\ entry \in Nat
      /\ entry + 1 <= Len(image.entries[cluster])
  BY <1>1, <1>2, HereIs DEF NextEntry, AtPlace
<1>5. \A y \in Places(n) : Before(y, z) <=> Before(y, x) \/ y = x
  <2> TAKE y \in Places(n)
  <2>1. y[1] \in Nat /\ y[2] \in Nat /\ y = <<y[1], y[2]>>
    BY <1>3, PlacesAre
  <2> QED BY <2>1, <1>4 DEF Before
<1>6. ~Before(x, x)
  BY <1>3, <1>4, Order
<1>7. (\A y \in Places(n) : Before(y, x) => Head(EntryOf(n, y).base) # END /\ ~Matches(n, y))
      /\ (call.op = "readdir" => IsFiniteSet(Earlier(n, x)) /\ current_match = Cardinality(Earlier(n, x)))
  BY <1>2 DEF AtPlace, Passed
<1>8. Head(Here.base) # END /\ ~Hit
      /\ current_match' = current_match + (IF call.op = "readdir" THEN Counted(Here) ELSE 0)
  BY DEF NextEntry
<1>9. NumberOf(n, x) = Cardinality(Earlier(n, x))
  BY <1>3, <1>4, <1>7, InListing
<1>10. ~Matches(n, x)
  BY <1>4, <1>7, <1>8, <1>9 DEF Matches, Hit
<1>11. \A y \in Places(n) : Before(y, z) => Head(EntryOf(n, y).base) # END /\ ~Matches(n, y)
  BY <1>4, <1>5, <1>7, <1>8, <1>10
<1>12. ASSUME call.op = "readdir"
       PROVE  IsFiniteSet(Earlier(n, z)) /\ current_match' = Cardinality(Earlier(n, z))
  <2>1. IsFiniteSet(Earlier(n, x)) /\ current_match = Cardinality(Earlier(n, x)) /\ Cardinality(Earlier(n, x)) \in Nat
    BY <1>7, <1>12, FS_CardinalityType
  <2>2. CASE Listed(Here)
    <3>1. Earlier(n, z) = Earlier(n, x) \cup {x} /\ x \notin Earlier(n, x)
      BY <1>4, <1>5, <1>6, <2>2 DEF Earlier
    <3>2. current_match' = current_match + 1
      BY <1>8, <1>12, <2>2 DEF Counted
    <3> QED BY <2>1, <3>1, <3>2, FS_AddElement
  <2>3. CASE ~Listed(Here)
    <3>1. Earlier(n, z) = Earlier(n, x)
      BY <1>4, <1>5, <2>3 DEF Earlier
    <3>2. current_match' = current_match + 0
      BY <1>8, <1>12, <2>3 DEF Counted
    <3> QED BY <2>1, <3>1, <3>2
  <2> QED BY <2>2, <2>3
<1>13. <<k, entry + 1>>' = z
  BY <1>1, <1>4
<1>14. Passed(n, <<k, entry + 1>>)'
  BY <1>1, <1>11, <1>12, <1>13, SameWalk DEF Passed
<1>15. AtPlace(n, k)'
  <2>1. cluster' = ClusterOf(n, k)' /\ entry' \in Nat /\ entry' <= Len(image.entries[cluster])'
    BY <1>1, <1>2, <1>4, SameWalk DEF AtPlace
  <2>2. \A j \in Nat : j < k => InChain(n, j)'
    BY <1>1, <1>2, SameWalk DEF AtPlace
  <2> QED BY <2>1, <2>2, <1>14 DEF AtPlace
<1>16. IsWalk(call)'
  BY <1>1, <1>3, SameWalk DEF IsWalk
<1> QED BY <1>15, <1>16 DEF WalkInv

LEMMA NextClusterWalks ==
  ASSUME Running, WalkInv, NextCluster
  PROVE  WalkInv'
<1> DEFINE n == call.node
<1>1. phase = "walk" /\ phase' = "walk" /\ UNCHANGED <<image, call, current_match>> /\ entry' = 0
      /\ cluster' = image.fat[cluster] /\ cluster < EOC /\ HasData(cluster) /\ ~AtEntry /\ InCluster
  BY DEF NextCluster, InCluster, fat32_get_next_cluster
<1>2. PICK k \in Nat : AtPlace(n, k)
  BY <1>1 DEF WalkInv
<1>3. image \in Images /\ ~Refused(image) /\ n \in Nodes /\ n.dir
  BY <1>1, WalkTypes
<1>4. cluster = ClusterOf(n, k) /\ entry \in Nat /\ InChain(n, k) /\ entry <= Len(image.entries[cluster])
  BY <1>1, <1>2, <1>3, InChainIs DEF AtPlace
<1>5. Len(image.entries[cluster]) \in Nat
  BY <1>3, <1>4, PlacesAre
<1>6. entry = Len(image.entries[cluster])
  BY <1>1, <1>4, <1>5 DEF AtEntry
<1> DEFINE x == <<k, entry + 1>>
           z == <<k + 1, 1>>
<1>7. \A y \in Places(n) : Before(y, z) <=> Before(y, x)
  <2> TAKE y \in Places(n)
  <2>1. /\ y[1] \in Nat /\ y[2] \in Nat /\ y = <<y[1], y[2]>> /\ 1 <= y[2]
        /\ y[2] <= Len(image.entries[ClusterOf(n, y[1])])
    BY <1>3, PlacesAre
  <2>2. y[1] = k => y[2] <= entry
    BY <2>1, <1>4, <1>6
  <2> QED BY <2>1, <2>2, <1>4 DEF Before
<1>8. (\A y \in Places(n) : Before(y, x) => Head(EntryOf(n, y).base) # END /\ ~Matches(n, y))
      /\ (call.op = "readdir" => IsFiniteSet(Earlier(n, x)) /\ current_match = Cardinality(Earlier(n, x)))
  BY <1>2 DEF AtPlace, Passed
<1>9. Earlier(n, z) = Earlier(n, x)
  BY <1>7 DEF Earlier
<1>10. <<k + 1, entry + 1>>' = z
  BY <1>1
<1>11. Passed(n, <<k + 1, entry + 1>>)'
  BY <1>1, <1>7, <1>8, <1>9, <1>10, SameWalk DEF Passed
<1>12. cluster' = ClusterOf(n, k + 1)' /\ entry' \in Nat
  <2>1. ClusterOf(n, k + 1) = image.fat[cluster]
    BY <1>1, <1>3, <1>4, ClusterFacts
  <2>2. ClusterOf(n, k + 1)' = ClusterOf(n, k + 1)
    BY <1>1, SameWalk
  <2> QED BY <1>1, <2>1, <2>2
<1>13. \A j \in Nat : j < k + 1 => InChain(n, j)'
  <2> TAKE j \in Nat
  <2>1. j < k + 1 => j < k \/ j = k
    OBVIOUS
  <2> QED BY <2>1, <1>1, <1>2, <1>4, SameWalk DEF AtPlace
<1>14. ASSUME InChain(n, k + 1)' PROVE entry' <= Len(image.entries[cluster])'
  <2>1. InChain(n, k + 1) /\ k + 1 \in Nat
    BY <1>1, <1>14, SameWalk
  <2>2. Len(image.entries[ClusterOf(n, k + 1)]) \in Nat
    BY <1>3, <2>1, PlacesAre
  <2>3. Len(image.entries[cluster])' = Len(image.entries[ClusterOf(n, k + 1)])
    BY <1>1, <1>12, SameWalk
  <2> QED BY <2>2, <2>3, <1>1
<1>15. AtPlace(n, k + 1)'
  BY <1>11, <1>12, <1>13, <1>14 DEF AtPlace
<1>16. IsWalk(call)'
  BY <1>1, <1>3, SameWalk DEF IsWalk, WalkInv
<1>17. k + 1 \in Nat
  OBVIOUS
<1> QED BY <1>15, <1>16, <1>17 DEF WalkInv

\* What is asked for is what no passed place has.
Asked(n) ==
  {x \in ListingOf(n) : IF call.op = "readdir" THEN NumberOf(n, x) = call.arg
                        ELSE fat32_format_name(EntryOf(n, x)) = call.arg}
Answer(e) == IF call.op = "readdir"
             THEN [name |-> fat32_format_name(e), inode |-> e.cluster, dir |-> e.attr = "dir"]
             ELSE fat32_create_node(e)

LEMMA AskedIs ==
  ASSUME NEW n, NEW x \in Asked(n)
  PROVE  x \in Places(n) /\ Matches(n, x) /\ Listed(EntryOf(n, x)) /\ ~Ended(n, x)
BY DEF Asked, ListingOf, Matches, Listed

LEMMA AskedNext ==
  ASSUME UNCHANGED <<image, call>>
  PROVE  \A n : Asked(n)' = Asked(n)
BY SameWalk DEF Asked

LEMMA WalksIs ==
  ASSUME UNCHANGED <<image, call>>,
         call.op # "read" =>
           /\ Asked(call.node) # {} => \E x \in Asked(call.node) :
                answer' = Answer(EntryOf(call.node, x)) /\ \A y \in Asked(call.node) : ~Before(y, x)
           /\ Asked(call.node) = {} => answer' = NULL \/ (call.op = "finddir" /\ Head(call.arg) = ".")
  PROVE  WalksDirectory'
<1>1. Asked(call.node)' = Asked(call.node) /\ \A x : EntryOf(call.node, x)' = EntryOf(call.node, x)
  BY AskedNext, SameWalk
<1>2. \A e : Answer(e)' = Answer(e)
  BY DEF Answer
<1>3. \A y, x : Before(y, x)' = Before(y, x)
  BY DEF Before
<1>4. (call.op # "read" =>
         /\ Asked(call.node) # {} => \E x \in Asked(call.node) :
              answer = Answer(EntryOf(call.node, x)) /\ \A y \in Asked(call.node) : ~Before(y, x)
         /\ Asked(call.node) = {} => answer = NULL \/ (call.op = "finddir" /\ Head(call.arg) = "."))'
  BY <1>1, <1>2, <1>3
<1> QED BY <1>4 DEF WalksDirectory, Asked, Answer

LEMMA WalkDoneRight ==
  ASSUME Running, WalkInv, WalkDone
  PROVE  WalksDirectory'
<1> DEFINE n == call.node
<1>1. phase = "walk" /\ UNCHANGED <<image, call>> /\ answer' = NULL
      /\ (~InCluster \/ (AtEntry /\ Head(Here.base) = END))
  BY DEF WalkDone, Return
<1>2. PICK k \in Nat : AtPlace(n, k)
  BY <1>1 DEF WalkInv
<1>3. image \in Images /\ ~Refused(image) /\ n \in Nodes /\ n.dir
  BY <1>1, WalkTypes
<1> DEFINE at == <<k, entry + 1>>
<1>4. \A y \in Places(n) : Before(y, at) => ~Matches(n, y)
  BY <1>2 DEF AtPlace, Passed
<1>5. ASSUME NEW x \in Asked(n) PROVE FALSE
  <2>1. x \in Places(n) /\ Matches(n, x) /\ ~Ended(n, x)
    BY AskedIs
  <2>2. ~Before(x, at)
    BY <1>4, <2>1
  <2>3. CASE ~InCluster
    <3>1. ~InChain(n, k)
      BY <1>1, <1>2, <1>3, <2>3, InChainIs DEF AtPlace, InCluster
    <3>2. x[1] \in Nat /\ InChain(n, x[1]) /\ x[2] \in Nat
      BY <1>3, <2>1, PlacesAre
    <3>3. x[1] < k
      BY <1>3, <3>1, <3>2, InChainIs
    <3> QED BY <2>2, <3>3 DEF Before
  <2>4. CASE AtEntry /\ Head(Here.base) = END
    <3>1. at \in Places(n) /\ EntryOf(n, at) = Here
      BY <1>1, <1>2, <2>4, HereIs
    <3> QED BY <2>1, <2>2, <2>4, <3>1 DEF Ended
  <2> QED BY <1>1, <2>3, <2>4
<1> QED BY <1>1, <1>5, WalksIs

\* What is formatted begins with a dot if the raw name does.
LEMMA WordIs ==
  ASSUME NEW f, f \in Seq(ToSet(f))
  PROVE  /\ Word(f) \in Seq(ToSet(f))
         /\ f # <<>> /\ Head(f) # Blank => Word(f) # <<>> /\ Head(Word(f)) = Head(f)
<1> DEFINE I == {i \in 1 .. Len(f) : f[i] = Blank}
           k == IF I # {} THEN Min(I) ELSE 0
<1>1. Word(f) = IF k = 0 THEN f ELSE SubSeq(f, 1, k - 1)
  BY DEF Word, SelectInSeq
<1>2. CASE I = {}
  BY <1>1, <1>2
<1>3. CASE I # {}
  <2>1. I \in SUBSET Nat
    OBVIOUS
  <2>2. Min(I) \in I
    <3> HIDE DEF I
    <3>1. \E x \in I : \A y \in I : x <= y
      BY <1>3, <2>1, LeastExists
    <3> QED BY <3>1, Zenon DEF Min
  <2>3. k \in 1 .. Len(f) /\ f[k] = Blank
    BY <1>3, <2>2
  <2> HIDE DEF k, I
  <2>4. Word(f) = SubSeq(f, 1, k - 1)
    BY <1>1, <2>3
  <2>5. f # <<>> /\ Head(f) # Blank => k > 1
    BY <2>3
  <2> QED BY <2>3, <2>4, <2>5
<1> QED BY <1>2, <1>3

LEMMA LowerIs ==
  ASSUME NEW f, NEW S, f \in Seq(S)
  PROVE  /\ Lower(f) \in Seq(S \cup {"a", "b"}) /\ Len(Lower(f)) = Len(f)
         /\ f # <<>> => (Head(Lower(f)) = "." <=> Head(f) = ".")
<1> DEFINE l == Lower(f)
           n == Len(f)
<1>1. n \in Nat /\ DOMAIN f = 1 .. n /\ \A j \in 1 .. n : f[j] \in S
  OBVIOUS
<1>2. l = [j \in 1 .. n |-> CASE f[j] = "A" -> "a" [] f[j] = "B" -> "b" [] OTHER -> f[j]]
  BY <1>1 DEF Lower
<1>3. l \in Seq(S \cup {"a", "b"}) /\ Len(l) = n
  BY <1>1, <1>2
<1>4. ASSUME f # <<>> PROVE Head(l) = "." <=> Head(f) = "."
  <2>1. n >= 1 /\ Head(l) = l[1] /\ Head(f) = f[1]
    BY <1>3, <1>4
  <2>2. l[1] = CASE f[1] = "A" -> "a" [] f[1] = "B" -> "b" [] OTHER -> f[1]
    BY <1>1, <1>2, <2>1
  <2> QED BY <2>1, <2>2
<1> QED BY <1>3, <1>4

LEMMA FormatIs ==
  ASSUME NEW e, e.base \in Seq(ToSet(e.base)) \ {<<>>}, Head(e.base) # Blank, e.ext \in Seq(ToSet(e.ext))
  PROVE  Head(fat32_format_name(e)) = "." <=> Head(e.base) = "."
<1> DEFINE w == Word(e.base)
           l == Lower(w)
           x == Lower(Word(e.ext))
           tail == IF Head(e.ext) = Blank THEN <<>> ELSE <<".">> \o x
           S == ToSet(e.base) \cup ToSet(e.ext) \cup {"a", "b", "."}
<1>1. w \in Seq(ToSet(e.base)) /\ w # <<>> /\ Head(w) = Head(e.base)
  BY WordIs
<1>2. l \in Seq(ToSet(e.base) \cup {"a", "b"}) /\ Len(l) = Len(w) /\ (Head(l) = "." <=> Head(w) = ".")
  BY <1>1, LowerIs
<1>3. x \in Seq(ToSet(e.ext) \cup {"a", "b"})
  BY WordIs, LowerIs
<1>4. fat32_format_name(e) = l \o tail
  BY DEF fat32_format_name
<1> HIDE DEF w, l, x
<1>5. l \in Seq(S) /\ l # <<>>
  BY <1>1, <1>2
<1>6. x \in Seq(S)
  BY <1>3
<1>7. tail \in Seq(S)
  BY <1>6
<1> HIDE DEF tail, S
<1>8. Head(l \o tail) = Head(l)
  BY <1>5, <1>7
<1> QED BY <1>1, <1>2, <1>4, <1>8

LEMMA NamesAre ==
  ASSUME image \in Images, ~Refused(image), NEW n \in Nodes, n.dir, NEW x \in Places(n),
         Head(EntryOf(n, x).base) # END, ~Skipped(EntryOf(n, x))
  PROVE  Head(fat32_format_name(EntryOf(n, x))) = "." <=> ~Listed(EntryOf(n, x))
<1> DEFINE c == ClusterOf(n, x[1])
           e == EntryOf(n, x)
<1>1. InChain(n, x[1]) /\ x[1] \in Nat /\ x[2] \in Nat /\ 1 <= x[2] /\ x[2] <= Len(image.entries[c])
  BY PlacesAre
<1>2. c \in DOMAIN image.entries
  BY <1>1, PlacesAre
<1>3. image.entries[c] \in Seq(ToSet(image.entries[c]))
  BY <1>2, FATAssumption
<1>4. e = image.entries[c][x[2]]
  BY DEF EntryOf
<1> HIDE DEF c, e
<1>5. e \in ToSet(image.entries[c])
  BY <1>1, <1>3, <1>4
<1>6. e.base \in Seq(ToSet(e.base)) \ {<<>>} /\ Head(e.base) # Blank /\ e.ext \in Seq(ToSet(e.ext))
  <2>1. Head(e.base) # END /\ ~Skipped(e)
    BY DEF e
  <2> QED BY <1>2, <1>5, <2>1, FATAssumption
<1>7. Head(fat32_format_name(e)) = "." <=> Head(e.base) = "."
  BY <1>6, FormatIs
<1>8. ~Listed(e) <=> Head(e.base) = "."
  BY DEF Listed, e
<1>9. Head(fat32_format_name(e)) = "." <=> ~Listed(e)
  BY <1>7, <1>8, Zenon
<1> QED BY <1>9 DEF e

\* An entry is found if it is the first of what is asked for, or a dot.
LEMMA FoundRight ==
  ASSUME Running, WalkInv, Found
  PROVE  WalksDirectory'
<1> DEFINE n == call.node
<1>1. phase = "walk" /\ UNCHANGED <<image, call>> /\ answer' = Answer(Here)
      /\ AtEntry /\ Head(Here.base) # END /\ Hit
  BY DEF Found, Return, Answer, AtEntry, InCluster
<1>2. PICK k \in Nat : AtPlace(n, k)
  BY <1>1 DEF WalkInv
<1>3. image \in Images /\ ~Refused(image) /\ n \in Nodes /\ n.dir /\ call.op \in {"readdir", "finddir"}
  BY <1>1, WalkTypes
<1> DEFINE x == <<k, entry + 1>>
<1>4. x \in Places(n) /\ EntryOf(n, x) = Here
  BY <1>1, <1>2, HereIs
<1>5. (\A y \in Places(n) : Before(y, x) => Head(EntryOf(n, y).base) # END /\ ~Matches(n, y))
      /\ (call.op = "readdir" => current_match = Cardinality(Earlier(n, x)))
  BY <1>2 DEF AtPlace, Passed
<1> HIDE DEF x
<1>6. (Listed(Here) => x \in ListingOf(n)) /\ NumberOf(n, x) = Cardinality(Earlier(n, x))
  BY <1>1, <1>3, <1>4, <1>5, InListing
<1>7. ASSUME NEW y \in Asked(n) PROVE ~Before(y, x)
  <2>1. y \in Places(n) /\ Matches(n, y)
    BY AskedIs
  <2> QED BY <1>5, <2>1
<1>8. CASE Listed(Here)
  <2>1. x \in Asked(n)
    BY <1>1, <1>4, <1>5, <1>6, <1>8 DEF Asked, Hit
  <2>2. Asked(n) # {} /\ answer' = Answer(EntryOf(n, x)) /\ \A y \in Asked(n) : ~Before(y, x)
    BY <1>1, <1>4, <1>7, <2>1
  <2> QED BY <1>1, <2>1, <2>2, WalksIs
<1>9. CASE ~Listed(Here)
  <2>1. call.op = "finddir" /\ ~Skipped(Here) /\ fat32_format_name(Here) = call.arg
    BY <1>1, <1>3, <1>9 DEF Hit
  <2>2. Head(call.arg) = "."
    BY <1>1, <1>3, <1>4, <1>9, <2>1, NamesAre
  <2>3. ASSUME NEW y \in Asked(n) PROVE FALSE
    <3>1. y \in Places(n) /\ Listed(EntryOf(n, y)) /\ ~Ended(n, y)
      BY AskedIs
    <3>2. ~Before(y, y)
      BY <1>3, <3>1, Order
    <3>3. Head(EntryOf(n, y).base) # END /\ ~Skipped(EntryOf(n, y))
      BY <3>1, <3>2 DEF Ended, Listed
    <3>4. Head(fat32_format_name(EntryOf(n, y))) # "."
      BY <1>3, <3>1, <3>3, NamesAre
    <3>5. fat32_format_name(EntryOf(n, y)) = call.arg
      BY <2>1, <2>3 DEF Asked
    <3> QED BY <2>2, <3>4, <3>5
  <2>4. Asked(n) = {}
    BY <2>3
  <2> QED BY <1>1, <2>1, <2>2, <2>4, WalksIs
<1> QED BY <1>8, <1>9

-----------------------------------------------------------------------------
(* The reader as a whole.                                                   *)

FatInv ==
  /\ Running /\ phase \in {"off", "refused", "idle", "read", "walk"}
  /\ phase = "off" => call = NULL
  /\ ReadInv /\ WalkInv /\ ReadsFile /\ WalksDirectory

LEMMA FatInitInv == ASSUME FatInit PROVE FatInv
BY DEF FatInit, FatInv, Running, ReadInv, WalkInv, ReadsFile, WalksDirectory

LEMMA PastEndRight ==
  ASSUME Running, NEW n \in Nodes, NEW offset \in 0 .. n.size, NEW size \in Sizes, ReadPastEnd(n, offset, size)
  PROVE  ReadsFile'
<1>1. image \in Images /\ ~Refused(image) /\ n.size \in Nat /\ size \in Nat
  BY NodeFacts, FATAssumption DEF Running, ReadPastEnd
<1>2. call'.node = n /\ call'.offset = offset /\ call'.asked = size /\ answer' = <<>> /\ offset >= n.size
  BY DEF ReadPastEnd
<1>3. ASSUME NEW j \in 1 .. size PROVE ~HasByte(n, offset - 1 + j)'
  BY <1>1, <1>2 DEF HasByte
<1>4. {j \in 1 .. size : HasByte(n, offset - 1 + j)'} = {}
  BY <1>3
<1>5. [j \in {j \in 1 .. size : HasByte(n, offset - 1 + j)'} |-> ByteOf(n, offset - 1 + j)'] = <<>>
  BY <1>4
<1> QED BY <1>2, <1>5 DEF ReadsFile

LEMMA CallInv ==
  ASSUME FatInv, NEW n \in Nodes
  PROVE  /\ \A offset \in 0 .. n.size, size \in Sizes :
              ReadCall(n, offset, size) \/ ReadPastEnd(n, offset, size) => FatInv'
         /\ \A op \in {"readdir", "finddir"} : \A arg : Walk(op, n, arg) => FatInv'
<1> USE DEF FatInv
<1>1. ASSUME NEW offset \in 0 .. n.size, NEW size \in Sizes, ReadCall(n, offset, size) PROVE FatInv'
  <2>1. phase' = "read" /\ phase = "idle" /\ image' = image
    BY <1>1 DEF ReadCall
  <2>2. Running'
    BY <2>1 DEF Running
  <2>3. ReadInv'
    BY <1>1, ReadCallRead
  <2> QED BY <2>1, <2>2, <2>3 DEF WalkInv, ReadsFile, WalksDirectory
<1>2. ASSUME NEW offset \in 0 .. n.size, NEW size \in Sizes, ReadPastEnd(n, offset, size) PROVE FatInv'
  <2>1. phase' = "idle" /\ phase = "idle" /\ image' = image /\ call'.op = "read"
    BY <1>2 DEF ReadPastEnd
  <2>2. Running'
    BY <2>1 DEF Running
  <2>3. ReadsFile'
    BY <1>2, PastEndRight
  <2> QED BY <2>1, <2>2, <2>3 DEF WalkInv, ReadInv, WalksDirectory
<1>3. ASSUME NEW op \in {"readdir", "finddir"}, NEW arg, Walk(op, n, arg) PROVE FatInv'
  <2>1. phase' = "walk" /\ phase = "idle" /\ image' = image
    BY <1>3 DEF Walk
  <2>2. Running'
    BY <2>1 DEF Running
  <2>3. WalkInv'
    BY <1>3, WalkCallWalks
  <2> QED BY <2>1, <2>2, <2>3 DEF ReadInv, ReadsFile, WalksDirectory
<1> QED BY <1>1, <1>2, <1>3

LEMMA FatStep == FatInv /\ [FatNext]_fatvars => FatInv'
<1> SUFFICES ASSUME FatInv, [FatNext]_fatvars PROVE FatInv'
  OBVIOUS
<1>1. CASE fat32_init
  <2>1. image' = image /\ phase' \in {"refused", "idle"} /\ call' = NULL
        /\ (phase' = "idle" => ~Refused(image))
    BY <1>1 DEF fat32_init, FatInv
  <2>2. Running'
    BY <2>1 DEF Running, FatInv
  <2> QED BY <2>1, <2>2 DEF FatInv, ReadInv, WalkInv, ReadsFile, WalksDirectory
<1>2. CASE Call
  BY <1>2, CallInv DEF Call
<1>3. ASSUME Step \/ UNCHANGED fatvars PROVE Running' /\ image' = image /\ call' = call
  BY <1>3 DEF Step, Skip, CopyCluster, ReadDone, Found, NextEntry, NextCluster, WalkDone, Return, Reading,
     AtEntry, InCluster, fatvars, FatInv, Running
<1>4. CASE Skip \/ CopyCluster
  <2>1. phase = "read" /\ phase' = "read"
    BY <1>4 DEF Skip, CopyCluster, Reading
  <2>2. ReadInv'
    BY <1>4, SkipRead, CopyClusterRead DEF FatInv
  <2>3. Running'
    BY <1>3, <1>4 DEF Step
  <2> QED BY <2>1, <2>2, <2>3 DEF FatInv, WalkInv, ReadsFile, WalksDirectory
<1>5. CASE NextEntry \/ NextCluster
  <2>1. phase = "walk" /\ phase' = "walk"
    BY <1>5 DEF NextEntry, NextCluster, AtEntry, InCluster
  <2>2. WalkInv'
    BY <1>5, NextEntryWalks, NextClusterWalks DEF FatInv
  <2>3. Running'
    BY <1>3, <1>5 DEF Step
  <2> QED BY <2>1, <2>2, <2>3 DEF FatInv, ReadInv, ReadsFile, WalksDirectory
<1>6. CASE ReadDone
  <2>1. phase = "read" /\ phase' = "idle"
    BY <1>6 DEF ReadDone, Reading, Return
  <2>2. ReadsFile'
    BY <1>6, ReadDoneRight DEF FatInv
  <2>3. Running' /\ call'.op = "read"
    BY <1>3, <1>6, <2>1 DEF Step, FatInv, ReadInv, IsRead
  <2> QED BY <2>1, <2>2, <2>3 DEF FatInv, ReadInv, WalkInv, WalksDirectory
<1>7. CASE Found \/ WalkDone
  <2>1. phase = "walk" /\ phase' = "idle"
    BY <1>7 DEF Found, WalkDone, AtEntry, InCluster, Return
  <2>2. WalksDirectory'
    BY <1>7, FoundRight, WalkDoneRight DEF FatInv
  <2>3. Running' /\ call'.op # "read"
    BY <1>3, <1>7, <2>1 DEF Step, FatInv, WalkInv, IsWalk
  <2> QED BY <2>1, <2>2, <2>3 DEF FatInv, ReadInv, WalkInv, ReadsFile
<1>8. CASE UNCHANGED fatvars
  <2>0. UNCHANGED <<image, phase, call, answer, buffer, cluster, skip_clusters, cluster_offset, entry, current_match>>
    BY <1>8 DEF fatvars, loop
  <2>1. Running'
    BY <2>0 DEF Running, FatInv
  <2>2. Nodes' = Nodes /\ (\A n, k : ClusterOf(n, k)' = ClusterOf(n, k)) /\ (\A n, p : HasByte(n, p)' = HasByte(n, p))
    BY <2>0, SameWalk DEF HasByte
  <2>3. \A n, p : ByteOf(n, p)' = ByteOf(n, p)
    BY <2>0, <2>2 DEF ByteOf
  <2>4. \A n, offset : BytesFrom(n, offset)' = BytesFrom(n, offset)
    BY <2>3 DEF BytesFrom
  <2>5. \A n, offset, most : Copied(n, offset, most)' = Copied(n, offset, most)
    BY <2>0, <2>2, <2>4 DEF Copied
  <2>6. ReadInv'
    BY <2>0, <2>2, <2>5 DEF FatInv, ReadInv, IsRead, AtCluster
  <2>7. \A n, x : Passed(n, x)' = Passed(n, x)
    BY <2>0, SameWalk DEF Passed
  <2>8. \A n, k : AtPlace(n, k)' = AtPlace(n, k)
    BY <2>0, <2>7, SameWalk DEF AtPlace
  <2>9. WalkInv'
    BY <2>0, <2>2, <2>8 DEF FatInv, WalkInv, IsWalk
  <2>10. ReadsFile'
    BY <2>0, <2>2, <2>3 DEF FatInv, ReadsFile
  <2>11. WalksDirectory'
    BY <2>0, SameWalk DEF FatInv, WalksDirectory
  <2> QED BY <2>0, <2>1, <2>6, <2>9, <2>10, <2>11 DEF FatInv
<1> QED BY <1>1, <1>2, <1>4, <1>5, <1>6, <1>7, <1>8 DEF FatNext, Step

\* A read returns the bytes of the file from the offset on, as many as were
\* asked for or the file and its chain have (fat32.c:68-107).
THEOREM ReadsExact == FatSpec => []ReadsFile
<1>1. FatInv => ReadsFile
  BY DEF FatInv
<1> QED BY <1>1, FatInitInv, FatStep, PTL DEF FatSpec

\* readdir numbers what a directory lists without a gap, and finddir finds
\* the first of each name listed (fat32.c:111-184).
THEOREM WalksExact == FatSpec => []WalksDirectory
<1>1. FatInv => WalksDirectory
  BY DEF FatInv
<1> QED BY <1>1, FatInitInv, FatStep, PTL DEF FatSpec
==============================================================================

---------------------------- MODULE KeyboardProofs ----------------------------
(* The keyboard's ring between the interrupt handler and the reader, for    *)
(* every size of the ring and of the line and any number of scancodes,      *)
(* also with keys that are pressed before the handler is registered.        *)
EXTENDS Keyboard, SequenceTheorems, TLAPS

-----------------------------------------------------------------------------
(* Rings: arrays whose slots are used in order, again and again. *)

\* Rings of K slots, the slot of a position, and what w slots behind slot t contain, in order.
Buffers(C, K) == [0 .. K - 1 -> C]
Around(x, K) == x % K
Window(buf, t, w, K) == [n \in 1 .. w |-> buf[Around(t + n, K)]]

\* Slot u comes after slot t.
Follows(u, t, K) == u = t + 1 \/ u = t + 1 - K

\* A position that has gone around the ring once at most.
LEMMA AroundOnce ==
  ASSUME NEW K \in Nat, K > 0, NEW x \in Nat, x < 2 * K
  PROVE  /\ x < K => Around(x, K) = x
         /\ x >= K => Around(x, K) = x - K
         /\ Around(x, K) \in 0 .. K - 1
BY DEF Around

\* The contents of a window: a sequence, element by element.
LEMMA WindowIsSeq ==
  ASSUME NEW C, NEW K \in Nat, K > 0, NEW buf \in Buffers(C, K),
         NEW t \in Int, -1 <= t, t < K, NEW w \in Nat, w <= K
  PROVE  /\ Window(buf, t, w, K) \in Seq(C) /\ Len(Window(buf, t, w, K)) = w
         /\ \A n \in 1 .. w : Window(buf, t, w, K)[n] = buf[Around(t + n, K)]
<1>1. ASSUME NEW n \in 1 .. w PROVE Around(t + n, K) \in 0 .. K - 1
  <2>1. t + n \in Nat /\ t + n < 2 * K
    OBVIOUS
  <2> QED BY <2>1, AroundOnce
<1>2. \A n \in 1 .. w : buf[Around(t + n, K)] \in C
  BY <1>1 DEF Buffers
<1> QED BY <1>2 DEF Window

\* Windows whose slots contain the same are equal.
LEMMA WindowSame ==
  ASSUME NEW K, NEW buf, NEW buf2, NEW t, NEW w,
         \A n \in 1 .. w : buf2[Around(t + n, K)] = buf[Around(t + n, K)]
  PROVE  Window(buf2, t, w, K) = Window(buf, t, w, K)
BY DEF Window

\* Where a window may start, how long it may be, and what it is then.
Start(t, K) == t \in Int /\ -1 <= t /\ t < K
Length(w, K) == w \in Nat /\ w <= K
Holds(s, C, buf, t, w, K) ==
  s \in Seq(C) /\ Len(s) = w /\ \A n \in 1 .. w : s[n] = buf[Around(t + n, K)]

LEMMA WindowHolds ==
  ASSUME NEW C, NEW K \in Nat, K > 0, NEW buf \in Buffers(C, K),
         NEW t, Start(t, K), NEW w, Length(w, K)
  PROVE  Holds(Window(buf, t, w, K), C, buf, t, w, K)
BY WindowIsSeq DEF Start, Length, Holds

\* The slot behind a window, which is x, makes it longer by one.
LEMMA WindowAppend ==
  ASSUME NEW C, NEW K \in Nat, K > 0, NEW buf \in Buffers(C, K),
         NEW t \in Int, -1 <= t, t < K, NEW w \in Nat, w < K,
         NEW v \in Nat, v = w + 1, NEW x \in Nat, x = t + w + 1
  PROVE  Window(buf, t, v, K) = Append(Window(buf, t, w, K), buf[Around(x, K)])
<1> DEFINE new == Window(buf, t, v, K)
           old == Window(buf, t, w, K)
           last == buf[Around(x, K)]
<1>1. /\ old \in Seq(C) /\ Len(old) = w
      /\ \A n \in 1 .. w : old[n] = buf[Around(t + n, K)]
  <2>1. Start(t, K) /\ Length(w, K)
    BY DEF Start, Length
  <2> HIDE DEF old
  <2>2. Holds(old, C, buf, t, w, K)
    BY <2>1, WindowHolds DEF old
  <2> QED BY <2>2 DEF Holds
<1>2. /\ new \in Seq(C) /\ Len(new) = v
      /\ \A n \in 1 .. v : new[n] = buf[Around(t + n, K)]
  <2>1. Start(t, K) /\ Length(v, K)
    BY DEF Start, Length
  <2> HIDE DEF new
  <2>2. Holds(new, C, buf, t, v, K)
    BY <2>1, WindowHolds DEF new
  <2> QED BY <2>2 DEF Holds
<1>3. last = new[v] /\ last \in C
  <2>1. t + v = x /\ v \in 1 .. v
    OBVIOUS
  <2>2. last = new[v]
    BY <1>2, <2>1
  <2> QED BY <1>2, <2>1, <2>2, ElementOfSeq
<1> HIDE DEF new, old, last
<1>4. /\ Append(old, last) \in Seq(C) /\ Len(Append(old, last)) = v
      /\ \A n \in 1 .. w : Append(old, last)[n] = old[n]
      /\ Append(old, last)[v] = last
  BY <1>1, <1>3, AppendProperties
<1>5. \A n \in 1 .. v : new[n] = Append(old, last)[n]
  <2> TAKE n \in 1 .. v
  <2>1. CASE n = v
    BY <1>3, <1>4, <2>1
  <2>2. CASE n \in 1 .. w
    BY <1>1, <1>2, <1>4, <2>2
  <2>3. n = v \/ n \in 1 .. w
    OBVIOUS
  <2> QED BY <2>1, <2>2, <2>3
<1>6. new = Append(old, last)
  BY <1>2, <1>4, <1>5, SeqEqual
<1> QED BY <1>6 DEF new, old, last

\* Without its first slot the window is its tail.
LEMMA WindowTail ==
  ASSUME NEW C, NEW K \in Nat, K > 0, NEW buf \in Buffers(C, K),
         NEW t \in Int, -1 <= t, t < K, NEW w \in Nat, 0 < w, w <= K,
         NEW v \in Nat, v = w - 1,
         NEW u \in Int, -1 <= u, u < K, Follows(u, t, K)
  PROVE  /\ Window(buf, t, w, K) /= <<>>
         /\ Head(Window(buf, t, w, K)) = buf[Around(t + 1, K)]
         /\ Tail(Window(buf, t, w, K)) = Window(buf, u, v, K)
<1> DEFINE old == Window(buf, t, w, K)
           new == Window(buf, u, v, K)
<1>1. /\ old \in Seq(C) /\ Len(old) = w
      /\ \A n \in 1 .. w : old[n] = buf[Around(t + n, K)]
  <2>1. Start(t, K) /\ Length(w, K)
    BY DEF Start, Length
  <2> HIDE DEF old
  <2>2. Holds(old, C, buf, t, w, K)
    BY <2>1, WindowHolds DEF old
  <2> QED BY <2>2 DEF Holds
<1>2. /\ new \in Seq(C) /\ Len(new) = v
      /\ \A n \in 1 .. v : new[n] = buf[Around(u + n, K)]
  <2>1. Start(u, K) /\ Length(v, K)
    BY DEF Start, Length
  <2> HIDE DEF new
  <2>2. Holds(new, C, buf, u, v, K)
    BY <2>1, WindowHolds DEF new
  <2> QED BY <2>2 DEF Holds
<1>3. ASSUME NEW n \in 1 .. v PROVE Around(u + n, K) = Around(t + (n + 1), K)
  <2>1. t + (n + 1) \in Nat /\ u + n \in Nat /\ t + (n + 1) < 2 * K /\ u + n < 2 * K
    BY DEF Follows
  <2>2. /\ t + (n + 1) < K => Around(t + (n + 1), K) = t + (n + 1)
        /\ t + (n + 1) >= K => Around(t + (n + 1), K) = t + (n + 1) - K
    BY <2>1, AroundOnce
  <2>3. /\ u + n < K => Around(u + n, K) = u + n
        /\ u + n >= K => Around(u + n, K) = u + n - K
    BY <2>1, AroundOnce
  <2> QED BY <2>1, <2>2, <2>3 DEF Follows
<1> HIDE DEF old, new
<1>4. old /= <<>> /\ 1 \in 1 .. w
  BY <1>1
<1>5. /\ Head(old) = old[1] /\ Tail(old) \in Seq(C) /\ Len(Tail(old)) = v
      /\ \A n \in 1 .. v : Tail(old)[n] = old[n + 1]
  BY <1>1, <1>4, HeadTailProperties
<1>6. \A n \in 1 .. v : Tail(old)[n] = new[n]
  <2> TAKE n \in 1 .. v
  <2>1. n + 1 \in 1 .. w
    OBVIOUS
  <2> QED BY <1>1, <1>2, <1>3, <1>5, <2>1
<1>7. Tail(old) = new
  BY <1>2, <1>5, <1>6, SeqEqual
<1> QED BY <1>1, <1>4, <1>5, <1>7 DEF old, new
-----------------------------------------------------------------------------

N == KBD_BUFFER_SIZE
Bytes == Char \cup {NoChar}

\* The slots of the ring, and the next one.
LEMMA SlotFacts ==
  /\ N \in Nat /\ N > 0 /\ N >= 2 /\ Slots = 0 .. N - 1
  /\ \A s \in Slots : /\ Succ(s) \in Slots
                      /\ s = N - 1 => Succ(s) = 0
                      /\ s /= N - 1 => Succ(s) = s + 1
<1>1. N \in Nat /\ N > 0 /\ N >= 2 /\ Slots = 0 .. N - 1
  BY KeyboardAssumption DEF N, Slots
<1>2. ASSUME NEW s \in Slots
      PROVE  /\ Succ(s) \in Slots
             /\ s = N - 1 => Succ(s) = 0
             /\ s /= N - 1 => Succ(s) = s + 1
  <2>1. s + 1 \in Nat /\ s + 1 < 2 * N
    BY <1>1
  <2>2. Succ(s) = Around(s + 1, N)
    BY DEF Succ, Around, N
  <2>3. /\ s + 1 < N => Around(s + 1, N) = s + 1
        /\ s + 1 >= N => Around(s + 1, N) = s + 1 - N
        /\ Around(s + 1, N) \in 0 .. N - 1
    BY <1>1, <2>1, AroundOnce
  <2> QED BY <1>1, <2>2, <2>3
<1> QED BY <1>1, <1>2

\* How many characters wait, from the positions of head and tail.
Apart(h, t) == (h + KBD_BUFFER_SIZE - t) % KBD_BUFFER_SIZE

LEMMA ApartValue ==
  ASSUME NEW h \in Slots, NEW t \in Slots
  PROVE  /\ Apart(h, t) \in 0 .. N - 1
         /\ h >= t => Apart(h, t) = h - t
         /\ h < t => Apart(h, t) = h + N - t
<1>1. h \in Nat /\ h < N /\ t \in Nat /\ t <= N /\ N \in Nat /\ N > 0 /\ Slots = 0 .. N - 1
  BY SlotFacts
<1>2. PICK x \in Nat : x = h + N - t
  BY <1>1
<1>3. x < 2 * N
  BY <1>1, <1>2
<1>4. /\ x < N => Around(x, N) = x
      /\ x >= N => Around(x, N) = x - N
      /\ Around(x, N) \in 0 .. N - 1
  BY <1>1, <1>3, AroundOnce
<1>5. Apart(h, t) = Around(x, N)
  BY <1>2 DEF Apart, Around, N
<1> QED BY <1>1, <1>2, <1>4, <1>5

\* The slots that hold the waiting characters: they start at t and end before h.
LEMMA ApartFacts ==
  ASSUME NEW h \in Slots, NEW t \in Slots
  PROVE  /\ Around(t + Apart(h, t), N) = h
         /\ \A n \in 1 .. Apart(h, t) :
              Around(t - 1 + n, N) \in Slots /\ Around(t - 1 + n, N) /= h
<1> DEFINE w == Apart(h, t)
<1>1. Slots = 0 .. N - 1
  BY SlotFacts
<1>4. h \in Nat /\ h < N /\ t \in Nat /\ t <= N
  BY SlotFacts
<1>5. N \in Nat /\ N > 0
  BY SlotFacts
<1>7. w \in 0 .. N - 1
  BY ApartValue
<1>8. (h >= t => w = h - t) /\ (h < t => w = h + N - t)
  BY ApartValue
<1> HIDE DEF w
<1>9. Around(t + w, N) = h
  <2>1. t + w \in Nat /\ t + w < 2 * N
    BY <1>4, <1>5, <1>7
  <2>2. (t + w < N => Around(t + w, N) = t + w) /\ (t + w >= N => Around(t + w, N) = t + w - N)
    BY <1>4, <1>5, <1>7, <2>1, AroundOnce
  <2> QED BY <1>4, <1>5, <1>7, <1>8, <2>2
<1>10. ASSUME NEW n \in 1 .. w
       PROVE  Around(t - 1 + n, N) \in 0 .. N - 1 /\ Around(t - 1 + n, N) /= h
  <2>1. t - 1 + n \in Nat /\ t - 1 + n < 2 * N
    BY <1>4, <1>5, <1>7
  <2>2. /\ t - 1 + n < N => Around(t - 1 + n, N) = t - 1 + n
        /\ t - 1 + n >= N => Around(t - 1 + n, N) = t - 1 + n - N
        /\ Around(t - 1 + n, N) \in 0 .. N - 1
    BY <1>4, <1>5, <1>7, <2>1, AroundOnce
  <2> QED BY <1>4, <1>5, <1>7, <1>8, <2>2
<1> QED BY <1>1, <1>9, <1>10 DEF w

\* The waiting characters are a window of the ring.
LEMMA QueueIsWindow ==
  ASSUME NEW b, NEW t \in Slots, NEW w \in Nat
  PROVE  [n \in 1 .. w |-> b[(t + n - 1) % KBD_BUFFER_SIZE]] = Window(b, t - 1, w, N)
<1>1. \A n \in 1 .. w : t + n - 1 = (t - 1) + n
  BY SlotFacts
<1> QED BY <1>1 DEF Window, N, Around

-----------------------------------------------------------------------------
\* There is room in the line, and the character that is being read is there.
LineRoom == pc # "line" => idx < MaxLen - 1
Reading ==
  /\ pc \in {"load", "advance"} => kbd_head # kbd_tail
  /\ pc = "advance" => c = kbd_buffer[kbd_tail]
IInv == TypeOK /\ LineRoom /\ Reading

LEMMA InitIInv == Init => IInv
<1> SUFFICES ASSUME Init PROVE IInv
  OBVIOUS
<1>1. 0 \in Slots /\ MaxLen \in Nat /\ MaxLen >= 2
  BY KeyboardAssumption, SlotFacts
<1>2. kbd_buffer \in [Slots -> Char \cup {NoChar}] /\ device \in Seq(Scancodes)
  BY DEF Init
<1>3. TypeOK
  BY <1>1, <1>2 DEF Init, TypeOK
<1> QED BY <1>1, <1>3 DEF Init, IInv, LineRoom, Reading

LEMMA CharOfType ==
  ASSUME NEW code PROVE CharOf(code) \in Bytes
BY DEF CharOf, kbd_scancodes, kbd_scancodes_shift, Keys, Bytes, Char, NoChar

\* A character that is put in the ring leaves the ones that wait alone.
LEMMA EnqueueFacts ==
  ASSUME TypeOK, NEW ch \in Bytes, Enqueue(ch)
  PROVE  /\ kbd_buffer' \in [Slots -> Bytes] /\ kbd_head' \in Slots /\ kbd_tail' = kbd_tail
         /\ lost' \in Nat
         /\ kbd_head # kbd_tail => kbd_head' # kbd_tail /\ kbd_buffer'[kbd_tail] = kbd_buffer[kbd_tail]
<1>1. kbd_buffer \in [Slots -> Bytes] /\ kbd_head \in Slots /\ kbd_tail \in Slots /\ lost \in Nat
  BY DEF TypeOK, Bytes
<1> QED BY <1>1, SlotFacts DEF Enqueue, ring

LEMMA KeyboardIRQStep ==
  ASSUME IInv, KeyboardIRQ
  PROVE  IInv'
<1> USE DEF IInv, TypeOK, LineRoom, Reading
<1>1. /\ UNCHANGED <<registered, device, sent, c, delivered, idx>> /\ irq1' = FALSE
      /\ pc' = IF pc = "halted" THEN "check" ELSE pc
  BY DEF KeyboardIRQ, Wakes
<1>2. port' \in Scancodes \cup {NoChar} /\ shift_pressed' \in BOOLEAN
  BY DEF KeyboardIRQ
<1>3. UNCHANGED <<ring, lost>> \/ Enqueue(CharOf(port))
  BY DEF KeyboardIRQ
<1>4. CASE UNCHANGED <<ring, lost>>
  BY <1>1, <1>2, <1>4 DEF ring
<1>5. CASE Enqueue(CharOf(port))
  BY <1>1, <1>2, <1>5, CharOfType, EnqueueFacts DEF Bytes
<1> QED BY <1>3, <1>4, <1>5

LEMMA StepIInv == IInv /\ [Next]_vars => IInv'
<1> SUFFICES ASSUME IInv, [Next]_vars PROVE IInv'
  OBVIOUS
<1> USE DEF IInv, TypeOK, LineRoom, Reading
<1>1. CASE UNCHANGED vars
  BY <1>1 DEF vars, ring, hardware, reader
<1>2. ASSUME NEW code \in Scancodes, KeyEvent(code) PROVE IInv'
  BY <1>2 DEF KeyEvent, ring, reader
<1>3. CASE FillPort
  BY <1>3 DEF FillPort, ring, reader
<1>4. CASE KeyboardIRQ
  BY <1>4, KeyboardIRQStep
<1>5. CASE TimerIRQ
  BY <1>5 DEF TimerIRQ, Wakes, ring, hardware
<1>6. CASE keyboard_init
  BY <1>6 DEF keyboard_init, ring, hardware
<1>7. CASE Check
  BY <1>7 DEF Check, keyboard_has_char, ring, hardware
<1>8. CASE Hlt
  BY <1>8 DEF Hlt, ring, hardware
<1>9. CASE Load
  BY <1>9 DEF Load, ring, hardware
<1>10. CASE Advance
  BY <1>10, SlotFacts DEF Advance, hardware
<1>11. CASE Edit
  <2>1. idx \in Nat /\ MaxLen \in Nat /\ MaxLen >= 2
    BY KeyboardAssumption
  <2> QED BY <1>11, <2>1 DEF Edit, LineFull, ring, hardware, Printable
<1>12. CASE EndLine
  BY <1>12, KeyboardAssumption DEF EndLine, ring, hardware
<1> QED BY <1>1, <1>2, <1>3, <1>4, <1>5, <1>6, <1>7, <1>8, <1>9, <1>10, <1>11, <1>12
        DEF Next, Reader, Device

\* The invariant of every reachable state: a character that the reader is
\* about to take is in the ring, whatever interrupts it (keyboard.c:76-84).
THEOREM Invariant == Spec => []IInv
BY InitIInv, StepIInv, PTL DEF Spec

\* Every variable keeps its type; the line never outgrows its buffer
\* (keyboard.c:86-113).
THEOREM TypeCorrect == Spec => []TypeOK
<1>1. IInv => TypeOK
  BY DEF IInv
<1> QED BY <1>1, Invariant, PTL

-----------------------------------------------------------------------------
(* Refinement *)

LEMMA QueueUnchanged ==
  ASSUME UNCHANGED <<kbd_buffer, kbd_head, kbd_tail>>
  PROVE  Queue' = Queue
BY DEF Queue, Waiting

\* The handler's part: the character is appended, or lost when the ring is full.
LEMMA EnqueueRefines ==
  ASSUME IInv, NEW ch \in Char, Enqueue(ch), delivered' = delivered
  PROVE  Abs!Put(ch) \/ Abs!Drop
<1> DEFINE w == Apart(kbd_head, kbd_tail)
           t == kbd_tail
<1>1. /\ kbd_buffer \in [0 .. N - 1 -> Bytes] /\ kbd_head \in Slots /\ t \in Slots /\ ch \in Bytes
      /\ N \in Nat /\ N > 0 /\ N >= 2 /\ Slots = 0 .. N - 1
  BY SlotFacts DEF IInv, TypeOK, Bytes
<1>2. /\ w \in 0 .. N - 1
      /\ kbd_head >= t => w = kbd_head - t
      /\ kbd_head < t => w = kbd_head + N - t
      /\ Around(t + w, N) = kbd_head
      /\ \A n \in 1 .. w : Around(t - 1 + n, N) \in Slots /\ Around(t - 1 + n, N) /= kbd_head
  <2>1. PICK h \in Slots : h = kbd_head
    BY <1>1
  <2>2. PICK r \in Slots : r = t
    BY <1>1
  <2>3. /\ Apart(h, r) \in 0 .. N - 1
        /\ h >= r => Apart(h, r) = h - r
        /\ h < r => Apart(h, r) = h + N - r
    BY ApartValue
  <2>4. /\ Around(r + Apart(h, r), N) = h
        /\ \A n \in 1 .. Apart(h, r) : Around(r - 1 + n, N) \in Slots /\ Around(r - 1 + n, N) /= h
    BY ApartFacts
  <2> QED BY <2>1, <2>2, <2>3, <2>4
<1> HIDE DEF w
<1>3. Waiting = w /\ w \in Nat
  BY <1>2 DEF Waiting, Apart, w
<1>4. Queue = Window(kbd_buffer, t - 1, w, N)
  BY <1>1, <1>3, QueueIsWindow DEF Queue
<1>5. /\ t - 1 \in Int /\ -1 <= t - 1 /\ t - 1 < N /\ w \in Nat /\ w <= N
      /\ kbd_buffer \in Buffers(Bytes, N)
  BY <1>1, <1>2 DEF Buffers
<1>6. Len(Queue) = w
  BY <1>1, <1>4, <1>5, WindowIsSeq
<1>7. /\ Succ(kbd_head) \in Slots
      /\ kbd_head = N - 1 => Succ(kbd_head) = 0
      /\ kbd_head /= N - 1 => Succ(kbd_head) = kbd_head + 1
  BY <1>1, SlotFacts
<1>8. CASE Succ(kbd_head) # kbd_tail
  <2> DEFINE b == [kbd_buffer EXCEPT ![kbd_head] = ch]
  <2>1. kbd_buffer' = b /\ kbd_head' = Succ(kbd_head) /\ kbd_tail' = t /\ lost' = lost
    BY <1>8 DEF Enqueue
  <2>2. b \in Buffers(Bytes, N)
    BY <1>1 DEF Buffers
  <2>3. Waiting' = Apart(Succ(kbd_head), t)
    BY <2>1 DEF Waiting, Apart
  <2>4. /\ Succ(kbd_head) >= t => Apart(Succ(kbd_head), t) = Succ(kbd_head) - t
        /\ Succ(kbd_head) < t => Apart(Succ(kbd_head), t) = Succ(kbd_head) + N - t
    BY <1>1, <1>7, ApartValue
  <2>5. Waiting' = w + 1 /\ w < N - 1
    BY <1>1, <1>2, <1>7, <1>8, <2>3, <2>4
  <2>6. \A n \in 1 .. w : b[Around(t - 1 + n, N)] = kbd_buffer[Around(t - 1 + n, N)]
    BY <1>1, <1>2
  <2>7. b[kbd_head] = ch
    BY <1>1
  <2> HIDE DEF b
  <2>8. Queue' = Window(b, t - 1, w + 1, N)
    <3>1. w + 1 \in Nat
      BY <1>5
    <3>2. Queue' = [n \in 1 .. w + 1 |-> b[(t + n - 1) % KBD_BUFFER_SIZE]]
      BY <2>1, <2>5 DEF Queue
    <3> QED BY <1>1, <3>1, <3>2, QueueIsWindow
  <2>9. Queue' = Append(Queue, b[Around(t - 1 + w + 1, N)])
    <3>1. w < N
      BY <1>1, <1>5, <2>5
    <3> DEFINE e == t - 1
    <3>2. e \in Int /\ -1 <= e /\ e < N
      BY <1>5
    <3>3. \A n \in 1 .. w : b[Around(e + n, N)] = kbd_buffer[Around(e + n, N)]
      BY <2>6
    <3> HIDE DEF e
    <3>4. N \in Nat /\ N > 0 /\ w \in Nat /\ kbd_buffer \in Buffers(Bytes, N)
      BY <1>1, <1>5
    <3> DEFINE v == w + 1
               x == e + w + 1
    <3>5. v = w + 1 /\ x = e + w + 1 /\ v \in Nat /\ x \in Nat
      BY <3>2, <3>4
    <3> HIDE DEF v, x
    <3>6. Window(b, e, v, N) = Append(Window(b, e, w, N), b[Around(x, N)])
      BY <2>2, <3>1, <3>2, <3>4, <3>5, WindowAppend
    <3>7. Window(b, e, w, N) = Window(kbd_buffer, e, w, N)
      BY <3>3, WindowSame
    <3> QED BY <1>4, <2>8, <3>5, <3>6, <3>7 DEF e
  <2>10. t - 1 + w + 1 = t + w
    BY <1>1, <1>5
  <2>11. Queue' = Append(Queue, ch)
    BY <1>2, <2>7, <2>9, <2>10
  <2>12. Len(Queue) < KBD_BUFFER_SIZE - 1
    BY <1>6, <2>5 DEF N
  <2> QED BY <2>1, <2>11, <2>12 DEF Abs!Put
<1>9. CASE Succ(kbd_head) = kbd_tail
  <2>1. lost' = lost + 1 /\ UNCHANGED <<kbd_buffer, kbd_head, kbd_tail>>
    BY <1>9 DEF Enqueue, ring
  <2>2. w = N - 1
    BY <1>1, <1>2, <1>7, <1>9
  <2> QED BY <1>6, <2>1, <2>2, QueueUnchanged DEF Abs!Drop, N
<1> QED BY <1>8, <1>9

\* The reader's part: it takes the oldest character.
LEMMA AdvanceRefines ==
  ASSUME IInv, Advance
  PROVE  Abs!Get
<1> DEFINE w == Apart(kbd_head, kbd_tail)
           t == kbd_tail
           u == Succ(kbd_tail) - 1
<1>1. /\ kbd_buffer \in [0 .. N - 1 -> Bytes] /\ kbd_head \in Slots /\ t \in Slots
      /\ N \in Nat /\ N > 0 /\ N >= 2 /\ Slots = 0 .. N - 1
  BY SlotFacts DEF IInv, TypeOK, Bytes
<1>2. /\ kbd_tail' = Succ(t) /\ delivered' = c /\ kbd_buffer' = kbd_buffer /\ kbd_head' = kbd_head
      /\ lost' = lost /\ kbd_head # t /\ c = kbd_buffer[t]
  BY DEF Advance, IInv, Reading
<1>3. /\ w \in 0 .. N - 1
      /\ kbd_head >= t => w = kbd_head - t
      /\ kbd_head < t => w = kbd_head + N - t
  BY <1>1, ApartValue
<1>4. Succ(t) \in Slots /\ (t = N - 1 => Succ(t) = 0) /\ (t /= N - 1 => Succ(t) = t + 1)
  BY <1>1, SlotFacts
<1>5. /\ kbd_head >= Succ(t) => Apart(kbd_head, Succ(t)) = kbd_head - Succ(t)
      /\ kbd_head < Succ(t) => Apart(kbd_head, Succ(t)) = kbd_head + N - Succ(t)
  <2>1. PICK s \in Slots : s = Succ(t)
    BY <1>4
  <2>2. PICK h \in Slots : h = kbd_head
    BY <1>1
  <2>3. /\ h >= s => Apart(h, s) = h - s
        /\ h < s => Apart(h, s) = h + N - s
    BY ApartValue
  <2> QED BY <2>1, <2>2, <2>3
<1>6. Waiting = w /\ Waiting' = Apart(kbd_head, Succ(t))
  BY <1>2 DEF Waiting, Apart
<1> HIDE DEF w
<1>7. w \in Nat /\ 0 < w /\ w <= N /\ w - 1 \in Nat /\ Waiting' = w - 1
  BY <1>1, <1>2, <1>3, <1>4, <1>5, <1>6
<1>8. Queue = Window(kbd_buffer, t - 1, w, N)
  BY <1>1, <1>6, <1>7, QueueIsWindow DEF Queue
<1>9. Queue' = Window(kbd_buffer, u, w - 1, N)
  BY <1>2, <1>4, <1>7, QueueIsWindow DEF Queue
<1>10. /\ t - 1 \in Int /\ -1 <= t - 1 /\ t - 1 < N
       /\ u \in Int /\ -1 <= u /\ u < N /\ (u = (t - 1) + 1 \/ u = (t - 1) + 1 - N)
       /\ kbd_buffer \in Buffers(Bytes, N)
  BY <1>1, <1>4 DEF Buffers
<1> HIDE DEF u
<1>11. /\ Queue /= <<>> /\ Head(Queue) = kbd_buffer[Around((t - 1) + 1, N)] /\ Tail(Queue) = Queue'
  <2>1. PICK v \in Nat : v = w - 1
    BY <1>7
  <2>2. Follows(u, t - 1, N)
    BY <1>10 DEF Follows
  <2>3. PICK e \in Int : e = t - 1
    BY <1>10
  <2>4. -1 <= e /\ e < N /\ Follows(u, e, N)
    BY <1>10, <2>2, <2>3
  <2>5. /\ Window(kbd_buffer, e, w, N) /= <<>>
        /\ Head(Window(kbd_buffer, e, w, N)) = kbd_buffer[Around(e + 1, N)]
        /\ Tail(Window(kbd_buffer, e, w, N)) = Window(kbd_buffer, u, v, N)
    BY <1>1, <1>7, <1>10, <2>1, <2>4, WindowTail
  <2> QED BY <1>8, <1>9, <2>1, <2>3, <2>5
<1>12. Around((t - 1) + 1, N) = t
  <2>1. (t - 1) + 1 = t /\ t \in Nat /\ t < N /\ t < 2 * N
    BY <1>1
  <2> QED BY <1>1, <2>1, AroundOnce
<1> QED BY <1>2, <1>11, <1>12 DEF Abs!Get

\* The ring implements CharQueue: characters are read in the order they were
\* typed, each once, and one is lost only when KBD_BUFFER_SIZE - 1 wait
\* (keyboard.c:56-63, 76-84).
THEOREM Refinement == Spec => ImplementsCharQueue
<1>1. Init => Abs!Init
  <2> SUFFICES ASSUME Init PROVE Abs!Init
    OBVIOUS
  <2>1. Waiting = 0
    <3>1. kbd_head = 0 /\ kbd_tail = 0 /\ 0 \in Slots
      BY SlotFacts DEF Init
    <3> QED BY <3>1, ApartValue DEF Waiting, Apart
  <2>2. Queue = <<>>
    BY <2>1 DEF Queue
  <2> QED BY <2>2 DEF Init, Abs!Init, NoChar, Char
<1>2. IInv /\ [Next]_vars => [Abs!Next]_(Abs!vars)
  <2> SUFFICES ASSUME IInv, [Next]_vars PROVE [Abs!Next]_(Abs!vars)
    OBVIOUS
  <2>1. CASE UNCHANGED <<ring, delivered, lost>>
    BY <2>1, QueueUnchanged DEF Abs!vars, ring
  <2>2. CASE Advance
    BY <2>2, AdvanceRefines DEF Abs!Next
  <2>3. CASE KeyboardIRQ
    <3>1. CASE registered /\ CharOf(port) # NoChar
      <4>1. Enqueue(CharOf(port)) /\ delivered' = delivered
        BY <2>3, <3>1 DEF KeyboardIRQ
      <4>2. CharOf(port) \in Char
        BY <3>1, CharOfType DEF Bytes
      <4> QED BY <4>1, <4>2, EnqueueRefines DEF Abs!Next
    <3>2. CASE ~(registered /\ CharOf(port) # NoChar)
      BY <2>1, <2>3, <3>2 DEF KeyboardIRQ
    <3> QED BY <3>1, <3>2
  <2>4. UNCHANGED vars \/ TimerIRQ \/ keyboard_init \/ Check \/ Hlt \/ Load \/ Edit \/ EndLine \/ FillPort
          => UNCHANGED <<ring, delivered, lost>>
    BY DEF vars, reader, TimerIRQ, keyboard_init, Check, Hlt, Load, Edit, EndLine, FillPort
  <2>5. \A code \in Scancodes : KeyEvent(code) => UNCHANGED <<ring, delivered, lost>>
    BY DEF KeyEvent, reader
  <2> QED BY <2>1, <2>2, <2>3, <2>4, <2>5 DEF Next, Reader, Device
<1> QED BY <1>1, <1>2, Invariant, PTL DEF Spec, ImplementsCharQueue, Abs!Spec
==============================================================================

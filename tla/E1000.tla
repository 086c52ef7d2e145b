-------------------------------- MODULE E1000 ---------------------------------
(***************************************************************************)
(* The network driver drivers/e1000.c against its device: two rings of     *)
(* descriptors in memory that both sides read and write, and a head (the   *)
(* device's) and a tail (the driver's) for each.  The device owns the      *)
(* descriptors from head up to tail.  Frames are numbered, 0 is no frame;  *)
(* each access of the driver to a volatile field is one step, and so is    *)
(* each transfer of the device.                                            *)
(***************************************************************************)
EXTENDS Integers, Sequences

CONSTANTS
  N,            \* E1000_NUM_RX_DESC and E1000_NUM_TX_DESC, 32 in the code
  MaxFrames     \* bound: frames that arrive, and frames that are sent

ASSUME E1000Assumption == N \in Nat /\ N >= 2 /\ MaxFrames \in Nat

VARIABLES
  ready,                        \* e1000_init has enabled the device
  rx_descs, rx_head, rx_tail,   \* receive ring: [frame, done] per descriptor
  tx_descs, tx_head, tx_tail,   \* transmit ring
  rx_cur, tx_cur,               \* the driver's position in each ring
  pc,                           \* where the driver is, "idle" between calls
  frame,                        \* the frame being sent or received
  received,                     \* the frame that receive returned last
  arrived, dropped,             \* ghosts: frames that came, that had no room
  filling,                      \* the device has written a frame, not its status
  wire                          \* ghost: the frames that the device has sent

rx == <<rx_descs, rx_head, rx_tail, rx_cur, received>>
tx == <<tx_descs, tx_head, tx_tail, tx_cur, wire>>
outside == <<arrived, dropped, filling>>
vars == <<ready, rx, tx, pc, frame, outside>>

Slots == 0 .. N - 1
Succ(i) == (i + 1) % N
Frames == 1 .. MaxFrames
NoFrame == 0
Empty == [i \in Slots |-> [frame |-> NoFrame, done |-> FALSE]]

Init ==
  /\ ready = FALSE /\ pc = "idle" /\ frame = NoFrame
  /\ rx_descs = Empty /\ rx_head = 0 /\ rx_tail = 0 /\ rx_cur = 0 /\ received = NoFrame
  /\ tx_descs = Empty /\ tx_head = 0 /\ tx_tail = 0 /\ tx_cur = 0 /\ wire = <<>>
  /\ arrived = 0 /\ dropped = 0 /\ filling = FALSE

(* The registers are written and the device is enabled last.  All but one  *)
(* receive descriptor are the device's.                                    *)
FirstTail == N - 1
e1000_init ==
  /\ ~ready /\ ready' = TRUE
  /\ rx_tail' = FirstTail
  /\ UNCHANGED <<rx_descs, rx_head, rx_cur, received, tx, pc, frame, outside>>

-----------------------------------------------------------------------------
(* e1000_send_packet *)

KeepStatus(d) == [d EXCEPT !.frame = frame]   \* mutant: the old status stays
Filled(d) == [frame |-> frame, done |-> FALSE]

SendCall ==
  /\ pc = "idle" /\ ready /\ Len(wire) < MaxFrames
  /\ pc' = "fill" /\ frame' = Len(wire) + 1
  /\ UNCHANGED <<ready, rx, tx, outside>>

(* The copy into the descriptor's buffer, its length, command and status:   *)
(* the device looks at none of them before the tail has moved.              *)
FillTx ==
  /\ pc = "fill"
  /\ tx_descs' = [tx_descs EXCEPT ![tx_cur] = Filled(@)]
  /\ tx_cur' = Succ(tx_cur)
  /\ pc' = "kick"
  /\ UNCHANGED <<ready, rx, tx_head, tx_tail, wire, frame, outside>>

Kick ==
  /\ pc = "kick"
  /\ tx_tail' = tx_cur
  /\ pc' = "spin"
  /\ UNCHANGED <<ready, rx, tx_descs, tx_head, tx_cur, wire, frame, outside>>

(* The loop on the status of old_cur. *)
NotOldTx == tx_cur   \* mutant: the status of the next descriptor
OldTx == (tx_cur + N - 1) % N
Spin ==
  /\ pc = "spin" /\ tx_descs[OldTx].done
  /\ pc' = "idle" /\ frame' = NoFrame
  /\ UNCHANGED <<ready, rx, tx, outside>>

-----------------------------------------------------------------------------
(* e1000_receive_packet; it returns 0 when the status is not set. *)

Poll ==
  /\ pc = "idle" /\ ready /\ rx_descs[rx_cur].done
  /\ pc' = "copy"
  /\ UNCHANGED <<ready, rx, tx, frame, outside>>

Copy ==
  /\ pc = "copy"
  /\ frame' = rx_descs[rx_cur].frame
  /\ pc' = "clear"
  /\ UNCHANGED <<ready, rx, tx, outside>>

Clear ==
  /\ pc = "clear" /\ pc' = "return"
  /\ rx_descs' = [rx_descs EXCEPT ![rx_cur].done = FALSE]
  /\ rx_cur' = Succ(rx_cur)
  /\ UNCHANGED <<ready, rx_head, rx_tail, received, tx, frame, outside>>

NewTail == rx_cur   \* mutant: the tail moves to the next descriptor
OldRx == (rx_cur + N - 1) % N
GiveBack ==
  /\ pc = "return"
  /\ rx_tail' = OldRx
  /\ received' = frame /\ frame' = NoFrame
  /\ pc' = "idle"
  /\ UNCHANGED <<ready, rx_descs, rx_head, rx_cur, tx, outside>>

-----------------------------------------------------------------------------
(* The device (external).  A frame that arrives is written to the buffer of *)
(* the descriptor at the head, and then its status; with no descriptor left *)
(* it is lost.  A frame is fetched, sent, and then its status is written.   *)

Arrive ==
  /\ ready /\ ~filling /\ arrived < MaxFrames
  /\ arrived' = arrived + 1
  /\ IF rx_head = rx_tail
     THEN dropped' = dropped + 1 /\ UNCHANGED <<rx_descs, filling>>
     ELSE /\ rx_descs' = [rx_descs EXCEPT ![rx_head].frame = arrived + 1]
          /\ filling' = TRUE /\ UNCHANGED dropped
  /\ UNCHANGED <<ready, rx_head, rx_tail, rx_cur, received, tx, pc, frame>>

WriteRxStatus ==
  /\ filling /\ filling' = FALSE
  /\ rx_descs' = [rx_descs EXCEPT ![rx_head].done = TRUE]
  /\ rx_head' = Succ(rx_head)
  /\ UNCHANGED <<ready, rx_tail, rx_cur, received, tx, pc, frame, arrived, dropped>>

Transmit ==
  /\ ready /\ tx_head /= tx_tail
  /\ wire' = Append(wire, tx_descs[tx_head].frame)
  /\ tx_descs' = [tx_descs EXCEPT ![tx_head].done = TRUE]
  /\ tx_head' = Succ(tx_head)
  /\ UNCHANGED <<ready, rx, tx_tail, tx_cur, pc, frame, outside>>

-----------------------------------------------------------------------------
Send == FillTx \/ Kick \/ Spin
Receive == Copy \/ Clear \/ GiveBack
Device == Arrive \/ WriteRxStatus \/ Transmit
Next == e1000_init \/ SendCall \/ Poll \/ Send \/ Receive \/ Device

Spec == Init /\ [][Next]_vars

(* A call runs on, and a device with a link works.  That a frame arrives or *)
(* that somebody polls is nobody's duty.                                    *)
FairSpec == Spec /\ WF_vars(Send) /\ WF_vars(Receive) /\ WF_vars(Transmit) /\ WF_vars(WriteRxStatus)

-----------------------------------------------------------------------------
(* Every variable has its type.                                            *)
Descriptors == [Slots -> [frame : Frames \cup {NoFrame}, done : BOOLEAN]]
TypeOK ==
  /\ ready \in BOOLEAN /\ filling \in BOOLEAN
  /\ rx_descs \in Descriptors /\ tx_descs \in Descriptors
  /\ {rx_head, rx_tail, rx_cur, tx_head, tx_tail, tx_cur} \subseteq Slots
  /\ pc \in {"idle", "fill", "kick", "spin", "copy", "clear", "return"}
  /\ frame \in Frames \cup {NoFrame} /\ received \in Frames \cup {NoFrame}
  /\ arrived \in 0 .. MaxFrames /\ dropped \in 0 .. MaxFrames
  /\ wire \in Seq(Frames) /\ Len(wire) <= MaxFrames

(* The receive ring and the two sides that touch it implement a bounded    *)
(* queue: received frames are those that arrived, in order, none twice,    *)
(* and one is lost only when N - 1 frames wait, before and after the ring  *)
(* has wrapped (e1000.c:146-160).                                          *)
Waiting == IF ready THEN (rx_head + N - rx_tail - 1) % N ELSE 0
Queue == [n \in 1 .. Waiting |-> rx_descs[(rx_tail + n) % N].frame]
Abs == INSTANCE CharQueue WITH Char <- Frames, Capacity <- N - 1, queue <- Queue,
                               delivered <- received, lost <- dropped
ImplementsQueue == Abs!Spec

(* When a send returns, its frame is on the wire, once and after the ones  *)
(* before it; a done bit of an earlier round must not end the wait         *)
(* (e1000.c:136-142).                                                      *)
SentInOrder ==
  /\ \A k \in 1 .. Len(wire) : wire[k] = k
  /\ pc \in {"fill", "kick"} => frame = Len(wire) + 1

(* Every call returns, as long as the device sends (e1000.c:142).          *)
CallsReturn == pc /= "idle" ~> pc = "idle"
==============================================================================

------------------------------ MODULE CharQueue ------------------------------
(* What the keyboard buffer promises: a first-in first-out queue of bounded *)
(* length whose newest character is lost only when the queue is full.       *)
EXTENDS Naturals, Sequences

CONSTANTS Char, Capacity
VARIABLES queue,      \* typed and not yet read
          delivered,  \* the character the last read returned
          lost        \* how many characters were dropped

vars == <<queue, delivered, lost>>

Init == queue = <<>> /\ delivered \notin Char /\ lost = 0

Put(c) == /\ Len(queue) < Capacity
          /\ queue' = Append(queue, c)
          /\ UNCHANGED <<delivered, lost>>

Drop == /\ Len(queue) = Capacity
        /\ lost' = lost + 1
        /\ UNCHANGED <<queue, delivered>>

Get == /\ queue # <<>>
       /\ delivered' = Head(queue)
       /\ queue' = Tail(queue)
       /\ UNCHANGED lost

Next == (\E c \in Char : Put(c)) \/ Drop \/ Get

Spec == Init /\ [][Next]_vars
==============================================================================

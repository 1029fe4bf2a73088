------------------------------ MODULE HwQueue ------------------------------
(***************************************************************************)
(* What the hardware FIFO promises: a bounded queue that can take one      *)
(* packet and give one at the same clock edge, and that a reset empties.   *)
(* The place the packet leaves is free for the writer at the next edge.    *)
(***************************************************************************)
EXTENDS Integers, Sequences

CONSTANTS Packets, Capacity

VARIABLE queue

Init == queue = <<>>

Put(p) == Len(queue) < Capacity /\ queue' = Append(queue, p)

Get == queue # <<>> /\ queue' = Tail(queue)

PutGet(p) ==
  /\ queue # <<>>
  /\ Len(queue) < Capacity
  /\ queue' = Append(Tail(queue), p)

Flush == queue' = <<>>

Next == (\E p \in Packets : Put(p) \/ PutGet(p)) \/ Get \/ Flush

Spec == Init /\ [][Next]_queue

=============================================================================

------------------------------ MODULE HwService ------------------------------
(***************************************************************************)
(* What the hardware switches and network promise, without stages, toggles *)
(* or arbiters: a bounded queue per port and output.  An output shows one  *)
(* packet at a time, the head of one of its queues, until its reader has   *)
(* taken it.  At an edge every queue may take a packet, and one queue of   *)
(* each output may give one.                                               *)
(***************************************************************************)
EXTENDS Integers, Sequences

CONSTANTS
  Ports, Outputs, Packets, Capacity,
  Sendable   \* Sendable[j][i]: the packets port i may send to output j

VARIABLES
  queue,     \* queue[j][i]: the packets waiting at port i for output j
  shown,     \* shown[j]: the packet on the bus of output j
  full       \* full[j]: that bus is full

vars == <<queue, shown, full>>

Init ==
  /\ queue = [j \in Outputs |-> [i \in Ports |-> <<>>]]
  /\ \A j \in Outputs : shown[j] \notin Packets
  /\ full = [j \in Outputs |-> FALSE]

(* A queue, of which rest is left at this edge, takes a packet or not.     *)
Accepts(j, i, rest) ==
  \/ queue'[j][i] = rest
  \/ /\ Len(queue[j][i]) < Capacity
     /\ \E p \in Sendable[j][i] : queue'[j][i] = Append(rest, p)

Serve(j, i) ==
  /\ ~full[j]
  /\ queue[j][i] # <<>>
  /\ full'[j]
  /\ shown'[j] = Head(queue[j][i])
  /\ Accepts(j, i, Tail(queue[j][i]))
  /\ \A k \in Ports \ {i} : Accepts(j, k, queue[j][k])

NoServe(j) ==
  /\ full'[j] => full[j]
  /\ shown'[j] = shown[j]
  /\ \A k \in Ports : Accepts(j, k, queue[j][k])

Edge == \A j \in Outputs : (\E i \in Ports : Serve(j, i)) \/ NoServe(j)

Flush ==
  /\ queue' = [j \in Outputs |-> [i \in Ports |-> <<>>]]
  /\ full' = [j \in Outputs |-> FALSE]
  /\ UNCHANGED shown

Next == Edge \/ Flush

Spec == Init /\ [][Next]_vars

=============================================================================

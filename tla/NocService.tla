----------------------------- MODULE NocService -----------------------------
(***************************************************************************)
(* What the network promises, without clock, handshake or arbiters: every  *)
(* packet accepted at an input travels in the flow from that input to the  *)
(* output it is addressed to; a flow is a bounded queue that loses,        *)
(* repeats and reorders nothing; an output shows the packets it received   *)
(* one at a time.                                                          *)
(***************************************************************************)
EXTENDS Integers, Sequences

CONSTANTS Inputs, Outputs, Packets, NoPacket, Capacity

VARIABLES
  flow,     \* flow[i][j]: the packets on their way from input i to output j
  shown     \* the packet an output shows

Init ==
  /\ flow = [i \in Inputs |-> [j \in Outputs |-> <<>>]]
  /\ shown = [j \in Outputs |-> NoPacket]

Accept(i, p) ==
  /\ Len(flow[i][p.address]) < Capacity
  /\ flow' = [flow EXCEPT ![i][p.address] = Append(@, p)]
  /\ UNCHANGED shown

Deliver(i, j) ==
  /\ flow[i][j] # <<>>
  /\ shown' = [shown EXCEPT ![j] = Head(flow[i][j])]
  /\ flow' = [flow EXCEPT ![i][j] = Tail(@)]

Next ==
  \/ \E i \in Inputs, p \in Packets : Accept(i, p)
  \/ \E i \in Inputs, j \in Outputs : Deliver(i, j)

Spec == Init /\ [][Next]_<<flow, shown>>

=============================================================================

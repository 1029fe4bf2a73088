-------------------------------- MODULE HwNoc --------------------------------
(***************************************************************************)
(* The hardware network (src/vhdl/noc.vhd): groups of inputs, each with a  *)
(* switch from its inputs to all outputs (sw_8x4: a router per input and a *)
(* sw_8x1 per output), and a last switch per output that merges the groups *)
(* (sw_4x1).  Generators and acceptors are those of the test benches.      *)
(***************************************************************************)
EXTENDS HwRouter, HwSwitch

CONSTANTS
  NbGroups, GroupSize,          \* 4 and 8 in noc.vhd
  fifo_size_8x4, fifo_size_4x1,
  UsedModes,                    \* the values the two arbiter modes take
  Packets, NoPacket,
  Id                            \* the generic id of the generator of an input

ASSUME SizesAssumption ==
  /\ NbGroups \in Nat \ {0} /\ GroupSize \in Nat \ {0}
  /\ fifo_size_8x4 \in Nat /\ fifo_size_4x1 \in Nat

ASSUME UsedModesAssumption == UsedModes \subseteq SwitchModes

Groups == PortsOf(NbGroups)

GroupPorts == PortsOf(GroupSize)

Inputs == Groups \X GroupPorts

(* Each generator has five bits of its own in its packets.                 *)
ASSUME IdAssumption ==
  /\ Id \in [Inputs -> 0..31]
  /\ \A x, y \in Inputs : Id[x] = Id[y] => x = y

ASSUME AddressAssumption == \A p \in Packets : Address(p) \in Outs

ASSUME NoPacketAssumption == NoPacket \notin Packets

VARIABLES
  routers,           \* the request registers of the router of an input
  first,             \* first[g][j]: the sw_8x1 of group g and output j
  last,              \* last[j]: the sw_4x1 of output j
  din, in_req,       \* the input buses, driven by the generators
  out_ack            \* driven by the acceptors

vars == <<routers, first, last, din, in_req, out_ack>>

-----------------------------------------------------------------------------
(* The wires between the parts.                                            *)

fifo_acks(g, i) == [j \in Outs |-> WrAck(first[g][j], i)]

fifo_reqs(g, j) == [i \in GroupPorts |-> routers[<<g, i>>][j]]

group_din(g) == [i \in GroupPorts |-> din[<<g, i>>]]

mid_entry(j) == [g \in Groups |-> first[g][j].out0]

mid_reqs(j) == [g \in Groups |-> first[g][j].out0_req]

mid_acks(g, j) == WrAck(last[j], g)

in_ack(x) == InAck(fifo_acks(x[1], x[2]))

-----------------------------------------------------------------------------
Init ==
  /\ routers = [x \in Inputs |-> [j \in Outs |-> 0]]
  /\ first = [g \in Groups |-> [j \in Outs |-> InitSwitch(GroupSize, fifo_size_8x4, NoPacket)]]
  /\ last = [j \in Outs |-> InitSwitch(NbGroups, fifo_size_4x1, NoPacket)]
  /\ din = [x \in Inputs |-> NoPacket]
  /\ in_req = [x \in Inputs |-> 0]
  /\ out_ack = [j \in Outs |-> 0]

(* The packets the generator of input x builds.                            *)
PacketsOf(x) == {p \in Packets : p.id = Id[x]}

(* traffic_generator: the next packet once the last one is acknowledged.   *)
Generate ==
  \E offers \in SUBSET {x \in Inputs : in_req[x] = in_ack(x)} :
    /\ in_req' = [x \in Inputs |-> IF x \in offers THEN 1 - in_req[x] ELSE in_req[x]]
    /\ \E offered \in [offers -> Packets] :
         /\ \A x \in offers : offered[x] \in PacketsOf(x)
         /\ din' = [x \in Inputs |-> IF x \in offers THEN offered[x] ELSE din[x]]

(* traffic_acceptor: the packet on an output bus is taken, or not yet.     *)
Accept ==
  /\ out_ack' \in [Outs -> {0, 1}]
  /\ \A j \in Outs : out_ack'[j] \in {out_ack[j], last[j].out0_req}

(* A rising edge of the clock.                                             *)
Tick(mode_8x4, mode_4x1, rnd_8x4, rnd_4x1) ==
  /\ routers' = [x \in Inputs |->
       RouterTick(routers[x], din[x], in_req[x], fifo_acks(x[1], x[2]))]
  /\ first' = [g \in Groups |-> [j \in Outs |->
       SwitchTick(first[g][j], group_din(g), fifo_reqs(g, j), mid_acks(g, j),
                  mode_8x4, rnd_8x4)]]
  /\ last' = [j \in Outs |->
       SwitchTick(last[j], mid_entry(j), mid_reqs(j), out_ack[j],
                  mode_4x1, rnd_4x1)]
  /\ Generate
  /\ Accept

(* rst reaches every part, and the generators and acceptors too.           *)
Reset ==
  /\ routers' = [x \in Inputs |-> [j \in Outs |-> 0]]
  /\ first' = [g \in Groups |-> [j \in Outs |-> ResetSwitch(first[g][j])]]
  /\ last' = [j \in Outs |-> ResetSwitch(last[j])]
  /\ in_req' = [x \in Inputs |-> 0]
  /\ out_ack' = [j \in Outs |-> 0]
  /\ UNCHANGED din

AnyTick ==
  \E mode_8x4, mode_4x1 \in UsedModes, rnd_8x4 \in GroupPorts, rnd_4x1 \in Groups :
    Tick(mode_8x4, mode_4x1, rnd_8x4, rnd_4x1)

Next == AnyTick \/ Reset

Spec == Init /\ [][Next]_vars

(* The clock runs, and no acceptor leaves a packet on its bus for ever.    *)
FairSpec ==
  /\ Spec
  /\ WF_vars(Next)
  /\ \A j \in Outs : []<>(last[j].out0_req = out_ack[j])

-----------------------------------------------------------------------------
(* The elements of s that are in S, in their order: SelectSeq by places, as *)
(* a recursive operator could not be reasoned about.                       *)
Only(s, S) ==
  LET places == {n \in 1..Len(s) : s[n] \in S}
      place(k) == CHOOSE n \in places : Cardinality({m \in places : m < n}) + 1 = k
  IN [k \in 1..Cardinality(places) |-> s[place(k)]]

(* The packets of all inputs of group g in the FIFO of last switch j, those *)
(* of input x in the FIFO of its first switch, and those that the router   *)
(* has not forwarded.                                                      *)
Merged(g, j) ==
  Content(last[j].fifo[g], first[g][j].out0, first[g][j].out0_req, last[j].rd_ack[g])

Queued(x, j) ==
  LET s == first[x[1]][j] IN
  Content(s.fifo[x[2]], din[x], routers[x][j], s.rd_ack[x[2]])

Forwarded(x, j) == routers[x][j] # WrAck(first[x[1]][j], x[2])

Waits(x, j) ==
  IF in_req[x] # in_ack(x) /\ Address(din[x]) = j /\ ~Forwarded(x, j)
  THEN <<din[x]>> ELSE <<>>

(* The flow from input x to output j, oldest packet first.                 *)
FlowOf(x, j) == Only(Merged(x[1], j), PacketsOf(x)) \o Queued(x, j) \o Waits(x, j)

(* What input x has for output j.                                          *)
PacketsFor(x, j) == {p \in PacketsOf(x) : Address(p) = j}

(* The network is one lossless bounded queue per input and output, which   *)
(* takes the packets of that input with the address of that output.        *)
Service == INSTANCE HwService WITH
  Ports <- Inputs,
  Outputs <- Outs,
  queue <- [j \in Outs |-> [x \in Inputs |-> FlowOf(x, j)]],
  shown <- [j \in Outs |-> last[j].out0],
  full <- [j \in Outs |-> last[j].out0_req # out_ack[j]],
  Capacity <- fifo_size_8x4 + fifo_size_4x1 + 2,
  Sendable <- [j \in Outs |-> [x \in Inputs |-> PacketsFor(x, j)]]

ImplementsService == Service!Spec

(* An input bus is free again in the end.                                  *)
InputsServed == \A x \in Inputs : in_req[x] # in_ack(x) ~> in_req[x] = in_ack(x)

=============================================================================

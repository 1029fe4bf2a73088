--------------------------- MODULE HwSwitchSystem ---------------------------
(***************************************************************************)
(* A hardware switch with a traffic generator at each port and a traffic   *)
(* acceptor at its output (src/vhdl/tb_sw_4x1.vhd).  The generators may    *)
(* pause and the acceptor hesitate, as the buses of a larger network do.   *)
(***************************************************************************)
EXTENDS HwSwitch

CONSTANTS
  NbPorts,
  Stages,             \* nb_stages of the FIFOs, zero included
  Packets, NoPacket,
  UsedModes           \* the values arbiter_mode takes

ASSUME NbPortsAssumption == NbPorts \in Nat \ {0}

ASSUME StagesAssumption == Stages \in Nat

ASSUME UsedModesAssumption == UsedModes \subseteq SwitchModes

ASSUME NoPacketAssumption == NoPacket \notin Packets

Ports == PortsOf(NbPorts)

VARIABLES
  switch,             \* the registers of the switch
  din, wr_req,        \* the input buses, driven by the generators
  out0_ack,           \* driven by the acceptor
  bypass              \* history: how often in a row the turning arbiter has
                      \* preferred another port to one with a packet;
                      \* NbPorts stands for more

vars == <<switch, din, wr_req, out0_ack, bypass>>

Init ==
  /\ switch = InitSwitch(NbPorts, Stages, NoPacket)
  /\ din = [i \in Ports |-> NoPacket]
  /\ wr_req = [i \in Ports |-> 0]
  /\ out0_ack = 0
  /\ bypass = [i \in Ports |-> 0]

(* traffic_generator: the next packet once the last one is acknowledged.   *)
Generate ==
  \E offered \in [Ports -> Packets \cup {NoPacket}] :
    /\ \A i \in Ports : offered[i] # NoPacket => wr_req[i] = WrAck(switch, i)
    /\ din' = [i \in Ports |-> IF offered[i] = NoPacket THEN din[i] ELSE offered[i]]
    /\ wr_req' = [i \in Ports |-> IF offered[i] = NoPacket THEN wr_req[i] ELSE Not(wr_req[i])]

(* traffic_acceptor: the packet on the output bus is taken, or not yet.    *)
Accept ==
  out0_ack' \in {out0_ack, switch.out0_req}

CountBypass(mode, granted) ==
  bypass' = [i \in Ports |->
               IF granted = NoPort THEN bypass[i]
               ELSE IF \/ mode # "round"
                       \/ i = granted
                       \/ i \notin PendingPorts(switch, wr_req) THEN 0
               ELSE IF bypass[i] < NbPorts THEN bypass[i] + 1
               ELSE bypass[i]]

(* A rising edge of the clock.                                             *)
Tick(mode, rnd) ==
  /\ switch' = SwitchTick(switch, din, wr_req, out0_ack, mode, rnd)
  /\ Generate
  /\ Accept
  /\ CountBypass(mode, Granted(switch, wr_req, out0_ack, mode, rnd))

Reset ==
  /\ switch' = ResetSwitch(switch)
  /\ wr_req' = [i \in Ports |-> 0]
  /\ out0_ack' = 0
  /\ bypass' = [i \in Ports |-> 0]
  /\ UNCHANGED din

Next ==
  \/ \E mode \in UsedModes, rnd \in Ports : Tick(mode, rnd)
  \/ Reset

Spec == Init /\ [][Next]_vars

-----------------------------------------------------------------------------
(* The values the registers take.                                          *)
TypeOK ==
  /\ switch \in SwitchRegs(NbPorts, Stages, Packets \cup {NoPacket})
  /\ din \in [Ports -> Packets \cup {NoPacket}]
  /\ wr_req \in [Ports -> Bits]
  /\ out0_ack \in Bits

(* The packets in the FIFOs and on the output bus, by output and port.     *)
Queues == [j \in {0} |-> [i \in Ports |->
            Content(switch.fifo[i], din[i], wr_req[i], switch.rd_ack[i])]]

Shown == [j \in {0} |-> switch.out0]

BusesFull == [j \in {0} |-> switch.out0_req # out0_ack]

(* Each port is a lossless bounded queue and the output bus is not         *)
(* overwritten, with the arbiter mode changing at any edge.                *)
Service == INSTANCE HwService WITH
  Outputs <- {0}, queue <- Queues, shown <- Shown, full <- BusesFull,
  Capacity <- Stages + 1,
  Sendable <- [j \in {0} |-> [i \in Ports |-> Packets]]

ImplementsService == Service!Spec

(* The priority register of the turning arbiter follows every grant, of    *)
(* any mode, so that from then on a FIFO with a packet waits for at most   *)
(* one packet of each other port.                                          *)
RoundBypassBounded == \A i \in Ports : bypass[i] < NbPorts

(* Whatever the mode, lru keeps each port once: an arbiter whose register  *)
(* forgot a port could never serve it again.                               *)
LruIsPermutation == {switch.lru[k] : k \in Ports} = Ports

(* "Le module choisit alors la premiere FIFO non vide" of the LRU strategy *)
(* (src/rapport/architecture.tex:127-129).                                 *)
LruChoosesFirstPending ==
  LET pending == PendingPorts(switch, wr_req) IN
  pending # {} => choice_lru(switch.lru, pending) \in pending

=============================================================================

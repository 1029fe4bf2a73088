--------------------------- MODULE HwSwitchProofs ---------------------------
(***************************************************************************)
(* Theorems about HwSwitchSystem: the hardware arbiters for every number   *)
(* of ports, every number of stages in their FIFOs and every way to switch *)
(* the arbiter mode.                                                       *)
(***************************************************************************)
EXTENDS HwSwitchSystem, OperatorProofs

-----------------------------------------------------------------------------
(* The turning arbiter.                                                    *)

(* How many ports the turning arbiter looks at before port i.              *)
Distance(first, i) == IF first <= i THEN i - first ELSE i - first + NbPorts

LEMMA DistanceIs ==
  ASSUME NEW first \in Ports, NEW i \in Ports
  PROVE  Distance(first, i) \in Nat /\ Distance(first, i) < NbPorts
<1>1. NbPorts \in Nat \ {0} /\ first \in 0..(NbPorts - 1) /\ i \in 0..(NbPorts - 1)
  BY NbPortsAssumption DEF Ports, PortsOf
<1>2. QED
  BY <1>1 DEF Distance

(* It chooses the port with a packet that comes first.                     *)
LEMMA RoundNearest ==
  ASSUME NEW pending, pending \subseteq Ports, NEW first \in Ports, NEW k \in pending
  PROVE  Distance(first, choice_round(first, pending)) <= Distance(first, k)
<1> DEFINE c == choice_round(first, pending)
<1>1. NbPorts \in Nat \ {0} /\ pending # {}
  BY NbPortsAssumption
<1>2. c \in pending /\ (IF first <= k THEN first <= c /\ c <= k ELSE first <= c \/ c <= k)
  BY <1>1, RoundPending DEF Ports
<1> HIDE DEF c
<1>3. /\ first \in 0..(NbPorts - 1) /\ c \in 0..(NbPorts - 1) /\ k \in 0..(NbPorts - 1)
  BY <1>2 DEF Ports, PortsOf
<1>4. Distance(first, c) <= Distance(first, k)
  BY <1>1, <1>2, <1>3 DEF Distance
<1>5. QED
  BY <1>4 DEF c

(* A grant brings the ports it passed over nearer to the front.            *)
LEMMA DistanceShrinks ==
  ASSUME NEW first \in Ports, NEW choice \in Ports, NEW i \in Ports, i # choice,
         Distance(first, choice) <= Distance(first, i)
  PROVE  Distance(update_first(choice, Ports), i) + 1 <= Distance(first, i)
<1>1. /\ NbPorts \in Nat \ {0}
      /\ first \in 0..(NbPorts - 1) /\ choice \in 0..(NbPorts - 1) /\ i \in 0..(NbPorts - 1)
  BY NbPortsAssumption DEF Ports, PortsOf
<1> DEFINE next == update_first(choice, Ports)
<1>2. next = IF choice = NbPorts - 1 THEN 0 ELSE choice + 1
  BY <1>1, UpdateFirstIs DEF Ports
<1> HIDE DEF next
<1>3. Distance(next, i) + 1 <= Distance(first, i)
  BY <1>1, <1>2 DEF Distance
<1>4. QED
  BY <1>3 DEF next

-----------------------------------------------------------------------------
(* The inductive invariant.                                                *)

T == Packets \cup {NoPacket}

(* A port that waits has been passed over at most as often as there are    *)
(* ports it has left behind: its turn comes before NbPorts others had one. *)
BypassLeft ==
  /\ bypass \in [Ports -> 0..NbPorts]
  /\ \A i \in Ports : bypass[i] + Distance(switch.first, i) < NbPorts

IInv == TypeOK /\ KeepsPorts(switch.lru) /\ BypassLeft

(* Counters at zero and a turn that starts at port 0 are a good start.     *)
LEMMA FreshBypass ==
  ASSUME NEW b, b = [i \in Ports |-> 0]
  PROVE  /\ 0 \in Ports
         /\ b \in [Ports -> 0..NbPorts]
         /\ \A i \in Ports : b[i] + Distance(0, i) < NbPorts
<1>1. 0 \in Ports /\ 0 \in 0..NbPorts
  BY NbPortsAssumption, PortNumbers DEF Ports
<1>2. \A i \in Ports : Distance(0, i) \in Nat /\ Distance(0, i) < NbPorts
  BY <1>1, DistanceIs
<1>3. QED
  BY <1>1, <1>2

LEMMA InitIInv ==
  Init => IInv
<1> SUFFICES ASSUME Init PROVE IInv
  OBVIOUS
<1>1. /\ switch \in SwitchRegs(NbPorts, Stages, T)
      /\ SwitchIsReset(switch, Ports, NoPacket)
  BY NbPortsAssumption, StagesAssumption, InitSwitchIs DEF Init, Ports, T
<1>2. switch.lru = ResetLru(Ports) /\ switch.first = 0
  BY <1>1 DEF SwitchIsReset
<1>3. TypeOK
  BY <1>1 DEF Init, TypeOK, Bits, T
<1>4. KeepsPorts(switch.lru)
  BY <1>2, NbPortsAssumption, FreshLru DEF Ports
<1>5. BypassLeft
  BY <1>2, FreshBypass DEF Init, BypassLeft
<1>6. QED
  BY <1>3, <1>4, <1>5 DEF IInv

LEMMA ResetIInv ==
  IInv /\ Reset => IInv'
<1> SUFFICES ASSUME IInv, Reset PROVE IInv'
  OBVIOUS
<1>1. switch \in SwitchRegs(NbPorts, Stages, T) /\ switch' = ResetSwitch(switch)
  BY DEF IInv, TypeOK, Reset, T
<1>2. switch' \in SwitchRegs(NbPorts, Stages, T) /\ SwitchIsReset(switch', Ports, switch.out0)
  BY <1>1, NbPortsAssumption, StagesAssumption, ResetSwitchIs DEF Ports
<1>3. switch'.lru = ResetLru(Ports) /\ switch'.first = 0
  BY <1>2 DEF SwitchIsReset
<1>4. TypeOK'
  BY <1>2 DEF IInv, Reset, TypeOK, Bits, T
<1>5. KeepsPorts(switch'.lru)
  BY <1>3, NbPortsAssumption, FreshLru DEF Ports
<1>6. BypassLeft'
  BY <1>3, FreshBypass DEF Reset, BypassLeft
<1>7. QED
  BY <1>4, <1>5, <1>6 DEF IInv, KeepsPorts

(* The port whose packet an edge moves.                                    *)
Grant(mode, rnd) == Granted(switch, wr_req, out0_ack, mode, rnd)

(* What an edge does to the registers.                                     *)
LEMMA TickRegisters ==
  ASSUME IInv, NEW mode \in UsedModes, NEW rnd \in Ports, Tick(mode, rnd)
  PROVE  /\ switch' \in SwitchRegs(NbPorts, Stages, T)
         /\ SwitchTicked(Ports, switch, din, wr_req, out0_ack,
                         Choice(switch, wr_req, mode, rnd), switch', Grant(mode, rnd))
<1>1. /\ switch \in SwitchRegs(NbPorts, Stages, T) /\ din \in [PortsOf(NbPorts) -> T]
      /\ wr_req \in [PortsOf(NbPorts) -> Bits] /\ out0_ack \in Bits
      /\ NbPorts \in Nat \ {0} /\ Stages \in Nat
      /\ mode \in SwitchModes /\ rnd \in PortsOf(NbPorts)
  BY NbPortsAssumption, StagesAssumption, UsedModesAssumption DEF IInv, TypeOK, T, Ports
<1>2. PICK s2 : s2 = switch'
  OBVIOUS
<1>3. PICK g : g = Grant(mode, rnd)
  OBVIOUS
<1>4. /\ s2 = SwitchTick(switch, din, wr_req, out0_ack, mode, rnd)
      /\ g = Granted(switch, wr_req, out0_ack, mode, rnd)
  BY <1>2, <1>3 DEF Tick, Grant
<1>5. /\ s2 \in SwitchRegs(NbPorts, Stages, T)
      /\ SwitchTicked(PortsOf(NbPorts), switch, din, wr_req, out0_ack,
                      Choice(switch, wr_req, mode, rnd), s2, g)
  BY <1>1, <1>4, SwitchTickIs
<1>6. QED
  BY <1>2, <1>3, <1>5 DEF Ports

LEMMA TickIInv ==
  ASSUME IInv, NEW mode \in UsedModes, NEW rnd \in Ports, Tick(mode, rnd)
  PROVE  IInv'
<1> DEFINE granted == Grant(mode, rnd)
<1>1. /\ switch \in SwitchRegs(NbPorts, Stages, T) /\ din \in [Ports -> T]
      /\ wr_req \in [Ports -> Bits] /\ out0_ack \in Bits
      /\ KeepsPorts(switch.lru) /\ BypassLeft
  BY DEF IInv, TypeOK, T
<1>2. switch.lru \in [Ports -> Ports] /\ switch.first \in Ports /\ switch.out0_req \in Bits
  BY <1>1 DEF SwitchRegs, Ports
<1>3. TypeOK'
  <2>1. switch' \in SwitchRegs(NbPorts, Stages, T)
    BY TickRegisters
  <2>2. PICK offered \in [Ports -> Packets \cup {NoPacket}] :
          /\ din' = [i \in Ports |-> IF offered[i] = NoPacket THEN din[i] ELSE offered[i]]
          /\ wr_req' = [i \in Ports |-> IF offered[i] = NoPacket THEN wr_req[i]
                                        ELSE Not(wr_req[i])]
    BY DEF Tick, Generate
  <2>3. \A b \in Bits : Not(b) \in Bits
    BY DEF Bits, Not
  <2>4. din' \in [Ports -> T] /\ wr_req' \in [Ports -> Bits]
    BY <1>1, <2>2, <2>3 DEF T
  <2>5. out0_ack' \in Bits
    BY <1>1, <1>2 DEF Tick, Accept
  <2>6. QED
    BY <2>1, <2>4, <2>5 DEF TypeOK, T
<1>4. KeepsPorts(switch.lru)'
  <2>1. KeepsPorts(switch'.lru)
    <3>1. \/ switch'.lru = switch.lru
          \/ granted \in Ports /\ switch'.lru = update_lru(switch.lru, granted)
      BY TickRegisters DEF SwitchTicked
    <3>2. QED
      BY <1>1, <1>2, <3>1, NbPortsAssumption, UpdateKeepsPorts DEF Ports
  <2>2. QED
    BY <2>1 DEF KeepsPorts
<1>5. BypassLeft'
  <2>0. /\ NbPorts \in Nat \ {0}
        /\ bypass \in [Ports -> 0..NbPorts]
        /\ \A i \in Ports : bypass[i] + Distance(switch.first, i) < NbPorts
        /\ \A i \in Ports : Distance(switch.first, i) \in Nat
    BY <1>1, <1>2, NbPortsAssumption, DistanceIs DEF BypassLeft
  <2>1. bypass' = [i \in Ports |->
               IF granted = NoPort THEN bypass[i]
               ELSE IF \/ mode # "round"
                       \/ i = granted
                       \/ i \notin PendingPorts(switch, wr_req) THEN 0
               ELSE IF bypass[i] < NbPorts THEN bypass[i] + 1
               ELSE bypass[i]]
    BY DEF Tick, CountBypass, Grant
  <2>2. CASE granted = NoPort
    <3>1. switch'.first = switch.first /\ bypass' = bypass
      BY <2>0, <2>1, <2>2, TickRegisters DEF SwitchTicked
    <3>2. QED
      BY <2>0, <3>1 DEF BypassLeft, Distance
  <2>3. CASE granted # NoPort
    <3>1. /\ granted \in Ports /\ granted = Choice(switch, wr_req, mode, rnd)
          /\ switch'.first = update_first(granted, Ports)
      BY <2>3, TickRegisters DEF SwitchTicked
    <3>2. ASSUME NEW i \in Ports
          PROVE  bypass'[i] \in 0..NbPorts /\ bypass'[i] + Distance(switch'.first, i) < NbPorts
      <4>1. Distance(switch'.first, i) \in Nat /\ Distance(switch'.first, i) < NbPorts
        <5>1. switch'.first \in Ports
          BY <3>1, NbPortsAssumption, UpdateFirstIs DEF Ports
        <5>2. QED
          BY <5>1, DistanceIs
      <4>2. CASE bypass'[i] = 0
        BY <2>0, <4>1, <4>2
      <4>3. CASE bypass'[i] # 0
        <5>1. /\ mode = "round" /\ i # granted /\ i \in PendingPorts(switch, wr_req)
              /\ bypass'[i] = IF bypass[i] < NbPorts THEN bypass[i] + 1 ELSE bypass[i]
          BY <2>1, <2>3, <4>3
        <5>2. granted = choice_round(switch.first, PendingPorts(switch, wr_req))
          BY <3>1, <5>1 DEF Choice
        <5>3. PendingPorts(switch, wr_req) \subseteq Ports
          BY <1>1, SwitchRegsIs DEF PendingPorts, Ports
        <5>4. Distance(switch.first, granted) <= Distance(switch.first, i)
          BY <1>2, <5>1, <5>2, <5>3, RoundNearest
        <5>5. Distance(switch'.first, i) + 1 <= Distance(switch.first, i)
          BY <1>2, <3>1, <5>1, <5>4, DistanceShrinks
        <5>6. bypass[i] + Distance(switch.first, i) < NbPorts /\ bypass[i] \in 0..NbPorts
              /\ Distance(switch.first, i) \in Nat
          BY <2>0
        <5>7. QED
          BY <2>0, <4>1, <5>1, <5>5, <5>6
      <4>4. QED
        BY <4>2, <4>3
    <3>3. bypass' \in [Ports -> 0..NbPorts]
      BY <2>1, <3>2
    <3>4. QED
      BY <3>2, <3>3 DEF BypassLeft, Distance
  <2>4. QED
    BY <2>2, <2>3
<1>6. QED
  BY <1>3, <1>4, <1>5 DEF IInv

LEMMA NextIInv ==
  IInv /\ [Next]_vars => IInv'
<1>1. IInv /\ UNCHANGED vars => IInv'
  BY DEF IInv, TypeOK, KeepsPorts, BypassLeft, Distance, vars
<1>2. QED
  BY <1>1, ResetIInv, TickIInv DEF Next

LEMMA Invariance ==
  Spec => []IInv
BY InitIInv, NextIInv, PTL DEF Spec

-----------------------------------------------------------------------------
(* The wires are zero or one and the registers hold ports and packets.     *)
THEOREM SwitchTypeCorrect == Spec => []TypeOK
<1>1. IInv => TypeOK
  BY DEF IInv
<1>2. QED
  BY <1>1, Invariance, PTL

(* lru keeps every port, whichever arbiter grants (arbiter_lru.vhd).       *)
THEOREM SwitchLruCorrect == Spec => []LruIsPermutation
<1>1. IInv => LruIsPermutation
  <2> SUFFICES ASSUME IInv PROVE {switch.lru[k] : k \in Ports} = Ports
    BY DEF LruIsPermutation
  <2>1. switch.lru \in [Ports -> Ports] /\ KeepsPorts(switch.lru)
    BY DEF IInv, TypeOK, SwitchRegs, Ports
  <2>2. QED
    BY <2>1 DEF KeepsPorts
<1>2. QED
  BY <1>1, Invariance, PTL

(* While the turning arbiter grants, a port with a packet sees at most one *)
(* packet of each other port before its own (arbiter_round.vhd).           *)
THEOREM RoundBypassCorrect == Spec => []RoundBypassBounded
<1>1. IInv => RoundBypassBounded
  <2> SUFFICES ASSUME IInv, NEW i \in Ports PROVE bypass[i] < NbPorts
    BY DEF RoundBypassBounded
  <2>1. /\ bypass[i] \in 0..NbPorts /\ bypass[i] + Distance(switch.first, i) < NbPorts
        /\ switch.first \in Ports
    BY DEF IInv, BypassLeft, TypeOK, SwitchRegs, Ports
  <2>2. Distance(switch.first, i) \in Nat
    BY <2>1, DistanceIs
  <2>3. QED
    BY <2>1, <2>2, NbPortsAssumption
<1>2. QED
  BY <1>1, Invariance, PTL

-----------------------------------------------------------------------------
(* The switch as a queue per port and an output.                           *)

PortQueue(i) == Content(switch.fifo[i], din[i], wr_req[i], switch.rd_ack[i])

(* What a generator does with the wires of its port.                       *)
LEMMA GenerateWires ==
  ASSUME IInv, Generate, NEW i \in Ports
  PROVE  /\ wr_req'[i] \in Bits
         /\ wr_req'[i] # wr_req[i] =>
              din'[i] \in Packets /\ ~BusFull(switch.fifo[i], wr_req[i], switch.rd_ack[i], 0)
         /\ wr_req'[i] = wr_req[i] => din'[i] = din[i]
<1>1. wr_req[i] \in Bits
  BY DEF IInv, TypeOK
<1>2. PICK offered \in [Ports -> Packets \cup {NoPacket}] :
        /\ offered[i] # NoPacket => wr_req[i] = WrAck(switch, i)
        /\ din'[i] = IF offered[i] = NoPacket THEN din[i] ELSE offered[i]
        /\ wr_req'[i] = IF offered[i] = NoPacket THEN wr_req[i] ELSE Not(wr_req[i])
  BY DEF Generate
<1>3. CASE offered[i] = NoPacket
  BY <1>1, <1>2, <1>3
<1>4. CASE offered[i] # NoPacket
  <2>1. wr_req'[i] \in Bits /\ wr_req'[i] # wr_req[i]
    BY <1>1, <1>2, <1>4, BitsFlip
  <2>2. offered[i] \in Packets /\ din'[i] = offered[i]
    BY <1>2, <1>4
  <2>3. ~BusFull(switch.fifo[i], wr_req[i], switch.rd_ack[i], 0)
    BY <1>2, <1>4 DEF WrAck, BusFull, Req
  <2>4. QED
    BY <2>1, <2>2, <2>3
<1>5. QED
  BY <1>3, <1>4

(* The FIFO of one port at an edge: it gives if its port is granted.       *)
LEMMA PortAt ==
  ASSUME IInv, "lru" \notin UsedModes,
         NEW mode \in UsedModes, NEW rnd \in Ports, Tick(mode, rnd), NEW i \in Ports,
         NEW q, q = PortQueue(i), NEW q2, q2 = PortQueue(i)',
         NEW s2, s2 = switch', NEW d2, d2 = din'[i], NEW w2, w2 = wr_req'[i],
         NEW g, g = Grant(mode, rnd)
  PROVE  /\ PortStep(Stages, q, q2, d2, wr_req[i], switch.rd_ack[i], w2, s2.rd_ack[i],
                     i, g, s2.out0)
         /\ w2 # wr_req[i] => d2 \in Packets
<1>1. /\ switch \in SwitchRegs(NbPorts, Stages, T) /\ din \in [PortsOf(NbPorts) -> T]
      /\ wr_req \in [PortsOf(NbPorts) -> Bits] /\ out0_ack \in Bits
      /\ mode \in SwitchModes \ {"lru"} /\ rnd \in PortsOf(NbPorts) /\ i \in PortsOf(NbPorts)
  BY UsedModesAssumption DEF IInv, TypeOK, T, Ports
<1>2. NbPorts \in Nat \ {0} /\ Stages \in Nat
  BY NbPortsAssumption, StagesAssumption
<1>3. /\ w2 \in Bits
      /\ w2 # wr_req[i] => /\ d2 \in Packets
                           /\ ~BusFull(switch.fifo[i], wr_req[i], switch.rd_ack[i], 0)
      /\ w2 = wr_req[i] => d2 = din[i]
  BY GenerateWires DEF Tick
<1>4. d2 \in T
  BY <1>1, <1>3 DEF T
<1>5. /\ s2 = SwitchTick(switch, din, wr_req, out0_ack, mode, rnd)
      /\ g = Granted(switch, wr_req, out0_ack, mode, rnd)
  BY DEF Tick, Grant
<1>6. /\ q = Content(switch.fifo[i], din[i], wr_req[i], switch.rd_ack[i])
      /\ q2 = Content(s2.fifo[i], d2, w2, s2.rd_ack[i])
  BY DEF PortQueue
<1>7. /\ w2 # wr_req[i] => ~BusFull(switch.fifo[i], wr_req[i], switch.rd_ack[i], 0)
      /\ w2 = wr_req[i] /\ BusFull(switch.fifo[i], wr_req[i], switch.rd_ack[i], 0)
           => d2 = din[i]
      /\ w2 \in Bits
  BY <1>3
<1>8. PortStep(Stages, q, q2, d2, wr_req[i], switch.rd_ack[i], w2, s2.rd_ack[i], i, g, s2.out0)
  BY <1>1, <1>2, <1>4, <1>5, <1>6, <1>7, SwitchPort, ZenonT(60)
<1>9. QED
  BY <1>3, <1>8

(* The output bus at an edge.                                              *)
LEMMA OutputStep ==
  ASSUME IInv, NEW mode \in UsedModes, NEW rnd \in Ports, Tick(mode, rnd)
  PROVE  IF Grant(mode, rnd) = NoPort
         THEN /\ switch'.out0 = switch.out0
              /\ switch'.out0_req # out0_ack' => switch.out0_req # out0_ack
         ELSE /\ Grant(mode, rnd) \in Ports
              /\ switch.out0_req = out0_ack
              /\ switch'.out0_req # out0_ack'
<1>1. switch.out0_req \in Bits /\ out0_ack \in Bits
  BY DEF IInv, TypeOK, SwitchRegs
<1>2. out0_ack' \in {out0_ack, switch.out0_req}
  BY DEF Tick, Accept
<1>3. PICK s2 : s2 = switch'
  OBVIOUS
<1>4. SwitchTicked(Ports, switch, din, wr_req, out0_ack,
                   Choice(switch, wr_req, mode, rnd), s2, Grant(mode, rnd))
  BY <1>3, TickRegisters
<1>5. QED
  BY <1>1, <1>2, <1>3, <1>4, BitsFlip DEF SwitchTicked

(* The abstract state, at the only output.                                 *)
LEMMA Mapped ==
  /\ \A i \in Ports : Queues[0][i] = PortQueue(i)
  /\ Shown[0] = switch.out0
  /\ BusesFull[0] <=> switch.out0_req # out0_ack
BY Zenon DEF Queues, PortQueue, Shown, BusesFull

LEMMA MappedNext ==
  /\ \A i \in Ports : Queues'[0][i] = PortQueue(i)'
  /\ Shown'[0] = switch'.out0
  /\ BusesFull'[0] <=> switch'.out0_req # out0_ack'
BY Zenon DEF Queues, PortQueue, Shown, BusesFull

(* A port that is not granted keeps its packets, one that is loses its     *)
(* oldest; both may take a packet.                                         *)
LEMMA PortAccepts ==
  ASSUME IInv, "lru" \notin UsedModes,
         NEW mode \in UsedModes, NEW rnd \in Ports, Tick(mode, rnd), NEW i \in Ports
  PROVE  IF i = Grant(mode, rnd)
         THEN /\ Queues[0][i] # <<>> /\ Shown'[0] = Head(Queues[0][i])
              /\ Service!Accepts(0, i, Tail(Queues[0][i]))
         ELSE Service!Accepts(0, i, Queues[0][i])
<1> DEFINE granted == Grant(mode, rnd)
<1>1. PICK q, q2 : /\ q = PortQueue(i) /\ q2 = PortQueue(i)'
                   /\ q = Queues[0][i] /\ q2 = Queues'[0][i]
  BY Mapped, MappedNext, Zenon
<1>2. PICK s2, d2, w2, g : s2 = switch' /\ d2 = din'[i] /\ w2 = wr_req'[i] /\ g = granted
  BY Zenon
<1>3. /\ PortStep(Stages, q, q2, d2, wr_req[i], switch.rd_ack[i], w2, s2.rd_ack[i],
                  i, g, s2.out0)
      /\ w2 # wr_req[i] => d2 \in Packets
  BY <1>1, <1>2, PortAt, Zenon
<1>4. /\ QueueStep(Stages, q, q2, d2, wr_req[i], switch.rd_ack[i], w2, s2.rd_ack[i])
      /\ s2.rd_ack[i] # switch.rd_ack[i] <=> i = granted
      /\ i = granted => q # <<>> /\ Head(q) = s2.out0
  BY <1>2, <1>3 DEF PortStep
<1>5. CASE i = granted
  <2>1. q2 = Tail(q) \/ (Len(q) < Stages + 1 /\ d2 \in Packets /\ q2 = Append(Tail(q), d2))
    BY <1>3, <1>4, <1>5 DEF QueueStep
  <2>2. Service!Accepts(0, i, Tail(Queues[0][i]))
    BY <1>1, <2>1 DEF Service!Accepts
  <2>3. QED
    BY <1>1, <1>2, <1>4, <1>5, <2>2, MappedNext
<1>6. CASE i # granted
  <2>1. q2 = q \/ (Len(q) < Stages + 1 /\ d2 \in Packets /\ q2 = Append(q, d2))
    BY <1>3, <1>4, <1>6 DEF QueueStep
  <2>2. Service!Accepts(0, i, Queues[0][i])
    BY <1>1, <2>1 DEF Service!Accepts
  <2>3. QED
    BY <1>6, <2>2
<1>7. QED
  BY <1>5, <1>6

LEMMA TickService ==
  ASSUME IInv, "lru" \notin UsedModes,
         NEW mode \in UsedModes, NEW rnd \in Ports, Tick(mode, rnd)
  PROVE  Service!Edge
<1> DEFINE granted == Grant(mode, rnd)
<1>1. CASE granted = NoPort
  <2>1. \A i \in Ports : i # granted
    BY <1>1, NbPortsAssumption, PortNumbers DEF Ports
  <2>2. \A i \in Ports : Service!Accepts(0, i, Queues[0][i])
    BY <2>1, PortAccepts
  <2>3. Shown'[0] = Shown[0] /\ (BusesFull'[0] => BusesFull[0])
    BY <1>1, OutputStep, Mapped, MappedNext
  <2>4. Service!NoServe(0)
    BY <2>2, <2>3 DEF Service!NoServe
  <2>5. QED
    BY <2>4 DEF Service!Edge
<1>2. CASE granted # NoPort
  <2>1. granted \in Ports /\ ~BusesFull[0] /\ BusesFull'[0]
    BY <1>2, OutputStep, Mapped, MappedNext
  <2>2. /\ Queues[0][granted] # <<>> /\ Shown'[0] = Head(Queues[0][granted])
        /\ Service!Accepts(0, granted, Tail(Queues[0][granted]))
    BY <2>1, PortAccepts
  <2>3. \A k \in Ports \ {granted} : Service!Accepts(0, k, Queues[0][k])
    BY PortAccepts
  <2>4. Service!Serve(0, granted)
    BY <2>1, <2>2, <2>3 DEF Service!Serve
  <2>5. QED
    BY <2>1, <2>4 DEF Service!Edge
<1>3. QED
  BY <1>1, <1>2

LEMMA InitService ==
  Init => Service!Init
<1> SUFFICES ASSUME Init PROVE Service!Init
  OBVIOUS
<1>1. /\ switch = InitSwitch(NbPorts, Stages, NoPacket) /\ out0_ack = 0
      /\ \A i \in Ports : din[i] = NoPacket /\ wr_req[i] = 0
  BY DEF Init
<1>2. /\ SwitchIsReset(switch, Ports, NoPacket)
      /\ \A i \in Ports : switch.fifo[i] = InitRegs(Stages, NoPacket)
  <2>1. NoPacket \in T
    BY DEF T
  <2>2. NbPorts \in Nat \ {0} /\ Stages \in Nat
    BY NbPortsAssumption, StagesAssumption
  <2>3. /\ switch \in SwitchRegs(NbPorts, Stages, T)
        /\ SwitchIsReset(switch, PortsOf(NbPorts), NoPacket)
        /\ \A i \in PortsOf(NbPorts) : switch.fifo[i] = InitRegs(Stages, NoPacket)
    BY <1>1, <2>1, <2>2, InitSwitchIs
  <2>4. QED
    BY <2>3 DEF Ports
<1>3. Content(InitRegs(Stages, NoPacket), NoPacket, 0, 0) = <<>>
  BY StagesAssumption, FreshRegs DEF T
<1>4. \A i \in Ports : PortQueue(i) = <<>>
  BY <1>1, <1>2, <1>3 DEF PortQueue, SwitchIsReset
<1>5. Queues = [j \in {0} |-> [i \in Ports |-> <<>>]]
  BY <1>4 DEF Queues, PortQueue
<1>6. \A j \in {0} : Shown[j] \notin Packets
  BY <1>2, NoPacketAssumption DEF Shown, SwitchIsReset
<1>7. BusesFull = [j \in {0} |-> FALSE]
  BY <1>1, <1>2 DEF BusesFull, SwitchIsReset
<1>8. QED
  BY <1>5, <1>6, <1>7 DEF Service!Init

LEMMA ResetService ==
  IInv /\ Reset => Service!Flush
<1> SUFFICES ASSUME IInv, Reset PROVE Service!Flush
  OBVIOUS
<1>1. PICK s2 : s2 = switch'
  OBVIOUS
<1>2. switch \in SwitchRegs(NbPorts, Stages, T) /\ s2 = ResetSwitch(switch)
      /\ out0_ack' = 0 /\ wr_req' = [i \in Ports |-> 0]
  BY <1>1 DEF IInv, TypeOK, Reset, T
<1>3. SwitchIsReset(s2, Ports, switch.out0) /\ FifosEmpty(s2.fifo, Ports)
  BY <1>2, NbPortsAssumption, StagesAssumption, ResetSwitchIs DEF Ports
<1>4. ASSUME NEW i \in Ports PROVE PortQueue(i)' = <<>>
  <2>1. Content(s2.fifo[i], din'[i], 0, 0) = <<>>
    BY <1>3, Zenon DEF FifosEmpty
  <2>2. s2.rd_ack[i] = 0 /\ wr_req'[i] = 0
    BY <1>2, <1>3 DEF SwitchIsReset
  <2>3. QED
    BY <1>1, <2>1, <2>2 DEF PortQueue
<1>5. Queues' = [j \in {0} |-> [i \in Ports |-> <<>>]]
  BY <1>4 DEF Queues, PortQueue
<1>6. Shown' = Shown
  BY <1>1, <1>3 DEF Shown, SwitchIsReset
<1>7. BusesFull' = [j \in {0} |-> FALSE]
  BY <1>1, <1>2, <1>3 DEF BusesFull, SwitchIsReset
<1>8. QED
  BY <1>5, <1>6, <1>7 DEF Service!Flush

(* Without the LRU arbiter, every port is a lossless bounded queue and no  *)
(* packet is overwritten on the output bus, for every number of ports and  *)
(* of stages, and however the other modes alternate.                       *)
THEOREM ServiceCorrect ==
  ASSUME "lru" \notin UsedModes
  PROVE  Spec => ImplementsService
<1>1. IInv /\ [Next]_vars => [Service!Next]_Service!vars
  <2> SUFFICES ASSUME IInv, [Next]_vars PROVE Service!Next \/ UNCHANGED Service!vars
    OBVIOUS
  <2>1. CASE \E mode \in UsedModes, rnd \in Ports : Tick(mode, rnd)
    BY <2>1, TickService DEF Service!Next
  <2>2. CASE Reset
    BY <2>2, ResetService DEF Service!Next
  <2>3. CASE UNCHANGED vars
    BY <2>3 DEF vars, Service!vars, Queues, Shown, BusesFull
  <2>4. QED
    BY <2>1, <2>2, <2>3 DEF Next
<1>2. QED
  BY <1>1, InitService, Invariance, PTL DEF Spec, ImplementsService, Service!Spec

=============================================================================

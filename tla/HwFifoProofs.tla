---------------------------- MODULE HwFifoProofs ----------------------------
(***************************************************************************)
(* Theorems about HwFifoSystem, for chains of every number of stages: the  *)
(* types, the latency of the chain, and that it is a bounded queue.        *)
(***************************************************************************)
EXTENDS HwFifoSystem, OperatorProofs

T == Packets \cup {NoPacket}

-----------------------------------------------------------------------------
(* The inductive invariant.                                                *)

FullBuses == {n \in 0..Stages : Full(n)}

(* Age, and what is still before the packet at bus k at the pace of one    *)
(* packet in two edges.                                                    *)
Ages == \A k \in FullBuses : age + 2 * Count(FullBuses, k) <= Stages + k

IInv == TypeOK /\ Ages

(* When the counter starts anew, the chain may be as full as it likes.     *)
LEMMA FreshAges ==
  ASSUME NEW P, P \subseteq 0..Stages, NEW k \in P
  PROVE  0 + 2 * Count(P, k) <= Stages + k
<1>1. Stages \in Nat /\ k \in 0..Stages /\ k \in Nat
  BY StagesAssumption
<1>2. Count(P, k) \in Nat /\ Count(P, k) <= k
  BY <1>1, CountStep
<1>3. QED
  BY <1>1, <1>2

(* The buses after an edge.                                                *)
LEMMA BusesAfter ==
  ASSUME TypeOK, Tick
  PROVE  /\ Follows(Stages, FullBuses, FullBuses', wr_req' # wr_req, rd_ack' # rd_ack)
         /\ wr_req' \in Bits /\ rd_ack' \in Bits
         /\ wr_req' # wr_req => ~Full(0) /\ din' \in Packets
         /\ rd_ack' # rd_ack => Full(Stages)
         /\ wr_req' = wr_req => din' = din
         /\ Read => rd_ack' # rd_ack
<1>1. wr_req \in Bits /\ rd_ack \in Bits /\ regs \in FifoRegs(Stages, T)
  BY DEF TypeOK, T
<1>2. /\ wr_req' \in Bits /\ rd_ack' \in Bits
      /\ wr_req' # wr_req => ~Full(0) /\ din' \in Packets
      /\ rd_ack' # rd_ack => Full(Stages)
      /\ wr_req' = wr_req => din' = din
      /\ Read => rd_ack' # rd_ack
  BY <1>1, BitsFlip DEF Tick, Write, NoWrite, Read, NoRead
<1>3. Follows(Stages, Buses(regs, wr_req, rd_ack),
              Buses(FifoTick(regs, din, wr_req, rd_ack), wr_req', rd_ack'),
              wr_req' # wr_req, rd_ack' # rd_ack)
  BY <1>1, <1>2, StagesAssumption, TickFollows DEF Full
<1>4. /\ NbStages(regs) = Stages
      /\ NbStages(FifoTick(regs, din, wr_req, rd_ack)) = Stages
  BY <1>1, StagesAssumption, StagesIs, TickStages
<1>5. FullBuses = Buses(regs, wr_req, rd_ack)
  BY <1>4 DEF FullBuses, Full, Buses
<1>6. FullBuses' = Buses(FifoTick(regs, din, wr_req, rd_ack), wr_req', rd_ack')
  BY <1>4 DEF FullBuses, Full, Buses, Tick
<1>7. QED
  BY <1>2, <1>3, <1>5, <1>6

-----------------------------------------------------------------------------
LEMMA InitIInv ==
  Init => IInv
<1> SUFFICES ASSUME Init PROVE IInv
  OBVIOUS
<1>1. InitRegs(Stages, NoPacket) \in FifoRegs(Stages, Packets \cup {NoPacket})
  BY StagesAssumption, FreshRegs
<1>2. TypeOK
  BY <1>1, MaxAgeAssumption DEF Init, TypeOK, Bits
<1>3. age = 0 /\ FullBuses \subseteq 0..Stages
  BY DEF Init, FullBuses
<1>4. Ages
  BY <1>3, FreshAges DEF Ages
<1>5. QED
  BY <1>2, <1>4 DEF IInv

LEMMA ResetIInv ==
  TypeOK /\ Reset => IInv'
<1> SUFFICES ASSUME TypeOK, Reset PROVE IInv'
  OBVIOUS
<1>1. ResetRegs(regs) \in FifoRegs(Stages, T)
  BY StagesAssumption, FreshRegs DEF TypeOK, T
<1>2. 0 \in Bits /\ 0 \in 0..MaxAge
  BY MaxAgeAssumption DEF Bits
<1>3. TypeOK'
  BY <1>1, <1>2 DEF Reset, TypeOK, T
<1>4. age' = 0 /\ FullBuses' \subseteq 0..Stages
  BY DEF Reset, FullBuses
<1>5. Ages'
  BY <1>4, FreshAges DEF Ages
<1>6. QED
  BY <1>3, <1>5 DEF IInv

LEMMA TickType ==
  TypeOK /\ Tick => TypeOK'
<1> SUFFICES ASSUME TypeOK, Tick PROVE TypeOK'
  OBVIOUS
<1>1. regs \in FifoRegs(Stages, T) /\ din \in T /\ wr_req \in Bits /\ rd_ack \in Bits
  BY DEF TypeOK, T
<1>2. regs' \in FifoRegs(Stages, T)
  BY <1>1, StagesAssumption, FifoTickType DEF Tick
<1>3. wr_req' \in Bits /\ rd_ack' \in Bits
  BY BusesAfter
<1>4. din' \in Packets \cup {NoPacket}
  BY DEF TypeOK, Tick, Write, NoWrite
<1>5. age' \in 0..MaxAge
  <2>1. age' = 0 \/ age' = age \/ (age < MaxAge /\ age' = age + 1)
    BY DEF Tick
  <2>2. QED
    BY <2>1, MaxAgeAssumption DEF TypeOK
<1>6. QED
  BY <1>2, <1>3, <1>4, <1>5 DEF TypeOK, T

(* A packet that moves is one bus further; one that is stopped has a       *)
(* packet before it, which was not late.                                   *)
LEMMA TickAges ==
  IInv /\ Tick => Ages'
<1> SUFFICES ASSUME IInv, Tick, NEW k \in FullBuses'
             PROVE  age' + 2 * Count(FullBuses', k) <= Stages + k
  BY DEF Ages
<1> DEFINE P == FullBuses
           Q == FullBuses'
<1>1. /\ Stages \in Nat /\ P \subseteq 0..Stages /\ Q \subseteq 0..Stages
      /\ k \in 0..Stages /\ k \in Nat
      /\ age \in Nat /\ wr_req \in Bits
  BY StagesAssumption DEF FullBuses, IInv, TypeOK
<1>2. CASE age' = 0
  BY <1>1, <1>2, FreshAges
<1>3. CASE age' # 0
  <2>1. wr_req' = wr_req /\ (Full(Stages) => Read) /\ age' \in 0..(age + 1)
    <3>1. wr_req' = wr_req /\ (Full(Stages) => Read)
      BY <1>3 DEF Tick
    <3>2. age' = age \/ age' = age + 1
      BY <1>3 DEF Tick
    <3>3. QED
      BY <1>1, <3>1, <3>2
  <2>2. Follows(Stages, P, Q, FALSE, rd_ack' # rd_ack) /\ (Stages \in P => rd_ack' # rd_ack)
    <3>1. TypeOK
      BY DEF IInv
    <3>2. (wr_req' # wr_req) = FALSE
      BY <2>1
    <3>3. Stages \in P => Full(Stages)
      BY DEF FullBuses
    <3>4. QED
      BY <2>1, <3>1, <3>2, <3>3, BusesAfter
  <2>3. Count(Q, k) + One(Copies(P, k)) = Count(P, k) + 0
    <3>1. Count(Q, k) + One(Copies(P, k)) = Count(P, k) + One(FALSE /\ k > 0)
      <4> HIDE DEF P, Q
      <4>1. \A j \in 0..Stages :
              Count(Q, j) + One(Copies(P, j)) = Count(P, j) + One(FALSE /\ j > 0)
        BY <2>2, StagesAssumption, Flow
      <4>2. QED
        BY <1>1, <4>1
    <3>2. One(FALSE /\ k > 0) = 0
      BY DEF One
    <3>3. QED
      BY <3>1, <3>2
  <2>4. \A j \in P : age + 2 * Count(P, j) <= Stages + j
    BY DEF IInv, Ages
  <2>5. Count(P, k) \in Nat /\ Count(Q, k) \in Nat
    BY <1>1, CountStep
  <2> HIDE DEF P, Q
  <2>6. CASE Copies(P, k)
    <3>1. k > 0 /\ k - 1 \in P /\ k - 1 \in Nat
      BY <1>1, <2>6 DEF Copies
    <3>2. Count(P, (k - 1) + 1) = Count(P, k - 1) + 1 /\ Count(P, k - 1) \in Nat
      BY <1>1, <3>1, CountStep DEF One
    <3>3. (k - 1) + 1 = k
      BY <1>1
    <3>4. Count(Q, k) = Count(P, k - 1)
      BY <2>3, <2>5, <2>6, <3>2, <3>3 DEF One
    <3>5. age + 2 * Count(P, k - 1) <= Stages + (k - 1)
      BY <2>4, <3>1
    <3>6. QED
      BY <1>1, <2>1, <3>2, <3>4, <3>5 DEF Q
  <2>7. CASE ~Copies(P, k)
    <3>1. k < Stages /\ k \in P /\ ~Copies(P, k + 1)
      <4>1. k \in P /\ ~Leaves(Stages, P, rd_ack' # rd_ack, k)
        BY <1>1, <2>2, <2>7 DEF Q, Follows
      <4>2. k # Stages
        BY <2>2, <4>1 DEF Leaves
      <4>3. QED
        BY <1>1, <4>1, <4>2 DEF Leaves
    <3>2. k + 1 \in P
      BY <1>1, <3>1 DEF Copies
    <3>3. Count(P, k + 1) = Count(P, k) + 1
      BY <1>1, <3>1, CountStep DEF One
    <3>4. Count(Q, k) = Count(P, k)
      BY <2>3, <2>5, <2>7 DEF One
    <3>5. age + 2 * Count(P, k + 1) <= Stages + (k + 1)
      BY <2>4, <3>2
    <3>6. QED
      BY <1>1, <2>1, <2>5, <3>3, <3>4, <3>5 DEF Q
  <2>8. QED
    BY <2>6, <2>7
<1>4. QED
  BY <1>2, <1>3

LEMMA NextIInv ==
  IInv /\ [Next]_vars => IInv'
<1>1. IInv /\ UNCHANGED vars => IInv'
  BY DEF IInv, TypeOK, Ages, FullBuses, Full, vars
<1>2. IInv /\ Tick => IInv'
  BY TickType, TickAges DEF IInv
<1>3. IInv /\ Reset => IInv'
  BY ResetIInv DEF IInv
<1>4. QED
  BY <1>1, <1>2, <1>3 DEF Next

LEMMA Invariance ==
  Spec => []IInv
BY InitIInv, NextIInv, PTL DEF Spec

-----------------------------------------------------------------------------
(* The toggles are zero or one, the words packets (fifo_stage.vhd).        *)
THEOREM FifoTypeCorrect == Spec => []TypeOK
<1>1. IInv => TypeOK
  BY DEF IInv
<1>2. QED
  BY <1>1, Invariance, PTL

(* A chain of N stages delivers within 2N + 1 edges once nothing more is   *)
(* written, whatever was in it and however it was spread over the stages.  *)
THEOREM LatencyCorrect == Spec => []LatencyBound
<1>1. IInv => LatencyBound
  <2> SUFFICES ASSUME IInv, NEW n \in 0..Stages, Full(n) PROVE age <= 2 * Stages
    BY DEF LatencyBound
  <2>1. Stages \in Nat /\ n \in Nat /\ n \in FullBuses /\ age \in Nat
    BY StagesAssumption DEF FullBuses, IInv, TypeOK
  <2>2. Count(FullBuses, n) \in Nat
    BY <2>1, CountStep
  <2>3. age + 2 * Count(FullBuses, n) <= Stages + n
    BY <2>1 DEF IInv, Ages
  <2>4. QED
    BY <2>1, <2>2, <2>3
<1>2. QED
  BY <1>1, Invariance, PTL

-----------------------------------------------------------------------------
(* The chain as one queue.                                                 *)

LEMMA InitQueue ==
  Init => Queues!Init
<1> SUFFICES ASSUME Init PROVE Queue = <<>>
  BY DEF Queues!Init
<1>1. regs = InitRegs(Stages, NoPacket) /\ din = NoPacket /\ wr_req = 0 /\ rd_ack = 0
  BY DEF Init
<1>2. Content(InitRegs(Stages, NoPacket), NoPacket, 0, 0) = <<>>
  BY StagesAssumption, FreshRegs DEF T
<1>3. QED
  BY <1>1, <1>2 DEF Queue

LEMMA ResetQueue ==
  TypeOK /\ Reset => Queues!Next
<1> SUFFICES ASSUME TypeOK, Reset PROVE Queue' = <<>>
  BY DEF Queues!Next, Queues!Flush
<1>1. regs \in FifoRegs(Stages, T) /\ NoPacket \in T
  BY DEF TypeOK, T
<1>2. regs' = ResetRegs(regs) /\ wr_req' = 0 /\ rd_ack' = 0
  BY DEF Reset
<1>3. \A f \in FifoRegs(Stages, T) : \A e : Content(ResetRegs(f), e, 0, 0) = <<>>
  BY <1>1, StagesAssumption, FreshRegs
<1>4. Content(ResetRegs(regs), din', 0, 0) = <<>>
  BY <1>1, <1>3, Zenon
<1>5. QED
  BY <1>2, <1>4 DEF Queue

(* What is written and read at an edge decides which step the queue takes. *)
LEMMA TickQueueStep ==
  TypeOK /\ Tick => Queues!Next \/ UNCHANGED Queue
<1> SUFFICES ASSUME TypeOK, Tick PROVE Queues!Next \/ Queue' = Queue
  OBVIOUS
<1>1. /\ regs \in FifoRegs(Stages, T) /\ din \in T /\ din' \in T
      /\ wr_req \in Bits /\ rd_ack \in Bits /\ wr_req' \in Bits /\ rd_ack' \in Bits
  BY TickType DEF TypeOK, T
<1>2. /\ wr_req' # wr_req => ~BusFull(regs, wr_req, rd_ack, 0) /\ din' \in Packets
      /\ rd_ack' # rd_ack => BusFull(regs, wr_req, rd_ack, Stages)
      /\ wr_req' = wr_req => din' = din
  BY BusesAfter DEF Full
<1>3. /\ Queue = Content(regs, din, wr_req, rd_ack)
      /\ Queue' = Content(FifoTick(regs, din, wr_req, rd_ack), din', wr_req', rd_ack')
  BY DEF Queue, Tick
<1>4. QueueStep(Stages, Queue, Queue', din', wr_req, rd_ack, wr_req', rd_ack')
  BY <1>1, <1>2, <1>3, StagesAssumption, ChainQueue
<1>5. CASE wr_req' = wr_req /\ rd_ack' = rd_ack
  BY <1>4, <1>5 DEF QueueStep
<1>6. CASE wr_req' # wr_req /\ rd_ack' = rd_ack
  BY <1>2, <1>4, <1>6 DEF QueueStep, Queues!Next, Queues!Put
<1>7. CASE wr_req' = wr_req /\ rd_ack' # rd_ack
  BY <1>4, <1>7 DEF QueueStep, Queues!Next, Queues!Get
<1>8. CASE wr_req' # wr_req /\ rd_ack' # rd_ack
  BY <1>2, <1>4, <1>8 DEF QueueStep, Queues!Next, Queues!PutGet
<1>9. QED
  BY <1>5, <1>6, <1>7, <1>8

(* Stages that decide one by one, from the values before the edge, make a  *)
(* bounded queue of any length: no packet is lost, repeated or overtaken.  *)
THEOREM ImplementsQueueCorrect == Spec => ImplementsQueue
<1>1. IInv /\ [Next]_vars => [Queues!Next]_Queue
  <2> SUFFICES ASSUME IInv, [Next]_vars PROVE Queues!Next \/ UNCHANGED Queue
    OBVIOUS
  <2>1. TypeOK
    BY DEF IInv
  <2>2. CASE Tick
    BY <2>1, <2>2, TickQueueStep
  <2>3. CASE Reset
    BY <2>1, <2>3, ResetQueue
  <2>4. CASE UNCHANGED vars
    BY <2>4 DEF vars, Queue
  <2>5. QED
    BY <2>2, <2>3, <2>4 DEF Next
<1>2. QED
  BY <1>1, InitQueue, Invariance, PTL DEF Spec, ImplementsQueue, Queues!Spec

=============================================================================

---------------------------- MODULE ArbiterProofs ----------------------------
(***************************************************************************)
(* Safety of the arbiters for any number of FIFOs, outputs and places, any *)
(* modes and any routers.                                                  *)
(***************************************************************************)
EXTENDS ArbiterSystem, OperatorProofs

(* The inductive invariant.  NeverBlocks needs to know that the chosen     *)
(* FIFO keeps its packet (ChoiceWaits); in FIFO mode the choice comes from *)
(* the register, so the register must match the FIFOs exactly; that it     *)
(* does when a packet is transferred needs the phases of the kernel: no    *)
(* arrival is pending when an arbiter runs (Phases), and no FIFO is        *)
(* written twice between two updates (OneWriter).                          *)
FifosBalanced == \A j \in Outputs, i \in Fifos : Balanced(fifo[j][i], Depth)

OneWriter ==
  \A j \in Outputs, i \in Fifos :
    fifo[j][i].numWritten > 0 => fifo[j][i].numWritten = 1 /\ i \notin writers

Phases == \A j \in Outputs, i \in Fifos : ~ (arbRun[j] /\ pushRun[j][i])

ChoiceWaits ==
  \A j \in Outputs :
    /\ arbPc[j] # "blocked"
    /\ arbPc[j] \in {"computing", "ready"} =>
         choice[j] \in Fifos /\ NumAvailable(fifo[j][choice[j]]) > 0

IInv ==
  /\ TypeOK
  /\ FifosBalanced
  /\ OneWriter
  /\ Phases
  /\ ChoiceWaits
  /\ RegisterMatchesFifos
  /\ LruIsPermutation

-----------------------------------------------------------------------------
(* The FIFOs are numbered from 0, and the value that stands for no choice  *)
(* is not one of them.                                                     *)
LEMMA FifosFact == NbFifos \in Nat \ {0} /\ Fifos \subseteq Nat /\ NoChoice \notin Fifos
BY NbFifosAssumption DEF Fifos, NoChoice

(* Whatever the mode, the choice is an available FIFO or none.             *)
LEMMA ChooseAvailable ==
  ASSUME TypeOK, Phases, RegisterMatchesFifos, LruIsPermutation,
         NEW j \in Outputs, NEW m \in Modes, NEW r \in RandomNumbers, arbRun[j]
  PROVE  Choose(j, m, r) \in Avail(j) \cup {NoChoice}
<1>1. Avail(j) \subseteq Fifos
  BY DEF Avail
<1>2. CASE m = "RAND"
  <2>1. r \in Nat
    BY RandomAssumption
  <2>2. Choose(j, m, r) = ChooseRand(r, Avail(j))
    BY <1>2 DEF Choose
  <2>3. QED
    BY <1>1, <2>1, <2>2, ChooseRandAvailable DEF ChooseRand
<1>3. CASE m = "LRU"
  <2>1. lru[j] \in [Fifos -> Fifos] /\ Covers(lru[j])
    BY DEF TypeOK, ArbiterTypeOK, LruIsPermutation, Covers
  <2>2. Choose(j, m, r) = ChooseLru(lru[j], Avail(j))
    BY <1>3 DEF Choose
  <2>3. CASE Avail(j) = {}
    BY <2>2, <2>3 DEF ChooseLru
  <2>4. CASE Avail(j) # {}
    BY <1>1, <2>1, <2>2, <2>4, ChooseLruFirst
  <2>5. QED
    BY <2>3, <2>4
<1>4. CASE m = "FIFO"
  <2>1. pushs[j] \in Seq(Fifos)
    BY DEF TypeOK, ArbiterTypeOK
  <2>2. Choose(j, m, r) = ChooseFifo(pushs[j])
    BY <1>4 DEF Choose
  <2>3. CASE pushs[j] = <<>>
    BY <2>2, <2>3 DEF ChooseFifo
  <2>4. CASE pushs[j] # <<>>
    <3>1. Len(pushs[j]) \in Nat /\ Len(pushs[j]) > 0
      BY <2>1, <2>4, EmptySeq
    <3> DEFINE c == pushs[j][1]
    <3>2. c \in Fifos /\ \E k \in 1..Len(pushs[j]) : pushs[j][k] = c
      BY <2>1, <3>1, ElementOfSeq
    <3>3. CountOf(pushs[j], c) \in Nat /\ CountOf(pushs[j], c) > 0
      BY <2>1, <3>2, CountType
    <3>4. NumAvailable(fifo[j][c]) > 0
      BY <3>2, <3>3 DEF RegisterMatchesFifos
    <3>5. QED
      BY <2>2, <2>4, <3>2, <3>4 DEF ChooseFifo, Avail
  <2>5. QED
    BY <2>3, <2>4
<1>5. CASE m = "FIXED"
  BY <1>1, <1>5, ChooseFixedAvailable DEF Choose, ChooseFixed
<1>6. CASE m = "ROUNDROBIN"
  <2>1. last[j] \in Fifos
    BY DEF TypeOK, ArbiterTypeOK
  <2>2. QED
    BY <1>1, <1>6, <2>1, ChooseRoundRobinAvailable DEF Choose, ChooseRoundRobin
<1>7. QED
  BY <1>2, <1>3, <1>4, <1>5, <1>6, ModesAssumption DEF ArbiterModes

-----------------------------------------------------------------------------
(* The empty node satisfies the invariant.                                 *)
LEMMA InitIInv == Init => IInv
<1> SUFFICES ASSUME Init PROVE IInv
  OBVIOUS
<1> USE DEF Init, ArbiterInit
<1>1. \A j \in Outputs, i \in Fifos :
        /\ fifo[j][i] = EmptyFifo
        /\ pushs[j] = <<>> /\ lru[j] = InitLru /\ ~ pushRun[j][i]
  OBVIOUS
<1>2. /\ EmptyFifo \in Fifo(Depth, Packets) /\ Balanced(EmptyFifo, Depth)
      /\ NumAvailable(EmptyFifo) = 0
  BY DepthAssumption, EmptyFifoBalanced
<1>3. TypeOK
  <2>1. InitLru \in [Fifos -> Fifos] /\ InitLast \in Fifos
    BY FifosFact DEF InitLru, InitLast, Fifos
  <2>2. InitSignal(NoPacket) \in Signal(Packets \cup {NoPacket})
    BY DEF InitSignal, Signal
  <2>3. <<>> \in Seq(Fifos) /\ <<>> \in Seq(SUBSET Fifos)
    BY EmptySeq
  <2>4. ArbiterTypeOK
    BY <1>2, <2>1, <2>2, <2>3 DEF ArbiterTypeOK, ArbiterModes, ChoiceValues
  <2>5. QED
    BY <2>3, <2>4 DEF TypeOK
<1>4. FifosBalanced
  BY <1>1, <1>2 DEF FifosBalanced
<1>5. OneWriter
  BY <1>1 DEF OneWriter, EmptyFifo
<1>6. Phases /\ ChoiceWaits
  BY DEF Phases, ChoiceWaits
<1>7. RegisterMatchesFifos
  <2>1. \A i \in Fifos : CountOf(<<>>, i) = 0
    <3>1. \A i \in Fifos : {k \in DOMAIN <<>> : <<>>[k] = i} = {}
      OBVIOUS
    <3>2. QED
      BY <3>1, FS_EmptySet DEF CountOf
  <2>2. QED
    BY <1>1, <1>2, <2>1 DEF RegisterMatchesFifos
<1>8. LruIsPermutation
  BY <1>1 DEF LruIsPermutation, InitLru
<1>9. QED
  BY <1>3, <1>4, <1>5, <1>6, <1>7, <1>8 DEF IInv

-----------------------------------------------------------------------------
(* A decision changes only the thread's own state; what it chooses waits.  *)
LEMMA ArbitrateIInv ==
  ASSUME IInv, NEW j \in Outputs, Arbitrate(j)
  PROVE  IInv'
<1>1. PICK m \in Modes, r \in RandomNumbers :
        /\ Decide(j, m, r)
        /\ CountBypass(j, m)
        /\ UNCHANGED <<clock, writers, batches>>
  BY DEF Arbitrate
<1> DEFINE c == Choose(j, m, r)
<1>2. /\ arbRun[j]
      /\ type' = [type EXCEPT ![j] = m]
      /\ choice' = [choice EXCEPT ![j] = c]
      /\ arbPc' = [arbPc EXCEPT ![j] = IF choice'[j] = NoChoice THEN "idle"
                                                                ELSE "computing"]
      /\ arbRun' = [arbRun EXCEPT ![j] = FALSE]
      /\ UNCHANGED <<fifo, lru, pushs, last, pushRun, output, clock, writers, batches>>
  BY <1>1 DEF Decide
<1>3. TypeOK
  BY DEF IInv
<1>4. c \in Avail(j) \cup {NoChoice}
  BY <1>2, ChooseAvailable DEF IInv
<1>5. choice'[j] = c
  BY <1>2, <1>3 DEF TypeOK, ArbiterTypeOK
<1>6. TypeOK'
  <2>1. m \in ArbiterModes
    BY ModesAssumption
  <2>2. c \in ChoiceValues
    BY <1>4 DEF Avail, ChoiceValues
  <2>3. ArbiterTypeOK'
    BY <1>2, <1>3, <2>1, <2>2 DEF TypeOK, ArbiterTypeOK
  <2>4. bypass' \in [Outputs -> [Fifos -> Nat]]
    <3>1. bypass \in [Outputs -> [Fifos -> Nat]]
      BY <1>3 DEF TypeOK
    <3>2. QED
      BY <1>1, <3>1 DEF CountBypass
  <2>5. QED
    BY <1>2, <1>3, <2>3, <2>4 DEF TypeOK
<1>7. (FifosBalanced /\ OneWriter)'
  BY <1>2 DEF IInv, FifosBalanced, OneWriter
<1>8. Phases'
  BY <1>2, <1>3 DEF IInv, Phases, TypeOK, ArbiterTypeOK
<1>9. ChoiceWaits'
  <2>1. SUFFICES ASSUME NEW k \in Outputs
                 PROVE  /\ arbPc'[k] # "blocked"
                        /\ arbPc'[k] \in {"computing", "ready"} =>
                             /\ choice'[k] \in Fifos
                             /\ NumAvailable(fifo'[k][choice'[k]]) > 0
    BY DEF ChoiceWaits
  <2>2. CASE k = j
    BY <1>2, <1>3, <1>4, <1>5, <2>2, FifosFact DEF Avail, TypeOK, ArbiterTypeOK
  <2>3. CASE k # j
    BY <1>2, <1>3, <2>3 DEF IInv, ChoiceWaits, TypeOK, ArbiterTypeOK
  <2>4. QED
    BY <2>2, <2>3
<1>10. (RegisterMatchesFifos /\ LruIsPermutation)'
  BY <1>2 DEF IInv, RegisterMatchesFifos, LruIsPermutation
<1>11. QED
  BY <1>6, <1>7, <1>8, <1>9, <1>10 DEF IInv

(* The wait of an arbiter between its choice and the transfer disturbs     *)
(* nothing.                                                                *)
LEMMA ComputeIInv ==
  ASSUME IInv, NEW j \in Outputs, Compute(j)
  PROVE  IInv'
<1>1. /\ arbPc[j] = "computing"
      /\ arbPc' = [arbPc EXCEPT ![j] = "ready"]
      /\ arbRun' = [arbRun EXCEPT ![j] = FALSE]
      /\ UNCHANGED <<fifo, type, choice, lru, pushs, last, pushRun, output,
                     clock, writers, bypass, batches>>
  BY DEF Compute, AwaitTransfer
<1>2. TypeOK
  BY DEF IInv
<1>3. TypeOK'
  BY <1>1, <1>2 DEF TypeOK, ArbiterTypeOK
<1>4. (FifosBalanced /\ OneWriter /\ RegisterMatchesFifos /\ LruIsPermutation)'
  BY <1>1 DEF IInv, FifosBalanced, OneWriter, RegisterMatchesFifos, LruIsPermutation
<1>5. (Phases /\ ChoiceWaits)'
  BY <1>1, <1>2 DEF IInv, Phases, ChoiceWaits, TypeOK, ArbiterTypeOK
<1>6. QED
  BY <1>3, <1>4, <1>5 DEF IInv

(* pushed_in_fifo() records the packet that its FIFO has just made         *)
(* readable: the register has one entry more and the FIFO one packet more. *)
LEMMA RecordArrivalIInv ==
  ASSUME IInv, NEW j \in Outputs, NEW i \in Fifos, RecordArrival(j, i)
  PROVE  IInv'
<1>1. /\ pushRun[j][i]
      /\ pushs' = [pushs EXCEPT ![j] = Append(@, i)]
      /\ pushRun' = [pushRun EXCEPT ![j][i] = FALSE]
      /\ UNCHANGED <<fifo, arbPc, arbRun, type, choice, lru, last, output,
                     clock, writers, bypass, batches>>
  BY DEF RecordArrival, PushedInFifo
<1>2. TypeOK
  BY DEF IInv
<1>3. pushs[j] \in Seq(Fifos)
  BY <1>2 DEF TypeOK, ArbiterTypeOK
<1>4. TypeOK'
  <2>1. Append(pushs[j], i) \in Seq(Fifos)
    BY <1>3, AppendProperties
  <2>2. QED
    BY <1>1, <1>2, <2>1 DEF TypeOK, ArbiterTypeOK
<1>5. (FifosBalanced /\ OneWriter /\ ChoiceWaits /\ LruIsPermutation)'
  BY <1>1 DEF IInv, FifosBalanced, OneWriter, ChoiceWaits, LruIsPermutation
<1>6. Phases'
  BY <1>1, <1>2 DEF IInv, Phases, TypeOK, ArbiterTypeOK
<1>7. RegisterMatchesFifos'
  <2>1. SUFFICES ASSUME NEW k \in Outputs, NEW l \in Fifos
                 PROVE  NumAvailable(fifo'[k][l]) =
                          CountOf(pushs'[k], l) + (IF pushRun'[k][l] THEN 1 ELSE 0)
    BY DEF RegisterMatchesFifos
  <2>2. CASE k = j
    <3>1. pushs'[k] = Append(pushs[j], i)
      BY <1>1, <1>2, <2>2 DEF TypeOK, ArbiterTypeOK
    <3>2. CountOf(pushs'[k], l) = CountOf(pushs[k], l) + (IF i = l THEN 1 ELSE 0)
      BY <1>3, <2>2, <3>1, CountAppend
    <3>3. pushRun'[k][l] = IF i = l THEN FALSE ELSE pushRun[k][l]
      BY <1>1, <1>2, <2>2 DEF TypeOK, ArbiterTypeOK
    <3>4. CountOf(pushs[k], l) \in Nat
      BY <1>3, <2>2, CountType
    <3>5. NumAvailable(fifo[k][l]) =
            CountOf(pushs[k], l) + (IF pushRun[k][l] THEN 1 ELSE 0)
      BY DEF IInv, RegisterMatchesFifos
    <3>6. CASE i = l
      <4>1. pushRun[k][l] /\ ~ pushRun'[k][l]
        BY <1>1, <2>2, <3>3, <3>6
      <4>2. QED
        BY <1>1, <3>2, <3>4, <3>5, <3>6, <4>1
    <3>7. CASE i # l
      <4>1. pushRun'[k][l] = pushRun[k][l]
        BY <3>3, <3>7
      <4>2. CountOf(pushs'[k], l) = CountOf(pushs[k], l)
        BY <3>2, <3>4, <3>7
      <4>3. QED
        BY <1>1, <3>5, <4>1, <4>2
    <3>8. QED
      BY <3>6, <3>7
  <2>3. CASE k # j
    <3>1. pushs'[k] = pushs[k] /\ pushRun'[k] = pushRun[k]
      BY <1>1, <1>2, <2>3 DEF TypeOK, ArbiterTypeOK
    <3>2. QED
      BY <1>1, <3>1 DEF IInv, RegisterMatchesFifos
  <2>4. QED
    BY <2>2, <2>3
<1>8. QED
  BY <1>4, <1>5, <1>6, <1>7 DEF IInv

(* A router's write is not visible before the update.                      *)
LEMMA RouterWriteIInv ==
  ASSUME IInv, NEW i \in Fifos, NEW j \in Outputs, RouterWrite(i, j)
  PROVE  IInv'
<1>1. PICK p \in Packets :
        /\ i \in writers
        /\ NumFree(fifo[j][i], Depth) > 0
        /\ fifo' = [fifo EXCEPT ![j][i] = FifoWrite(@, Depth, p)]
        /\ writers' = writers \ {i}
        /\ UNCHANGED <<arbPc, arbRun, type, choice, lru, pushs, last, pushRun,
                       output, clock, bypass, batches>>
  BY DEF RouterWrite, arbiterVars
<1>2. TypeOK
  BY DEF IInv
<1> DEFINE q == fifo[j][i]
           w == FifoWrite(q, Depth, p)
<1>3. q \in Fifo(Depth, Packets) /\ Balanced(q, Depth)
  BY <1>2 DEF IInv, FifosBalanced, TypeOK, ArbiterTypeOK
<1>4. /\ w \in Fifo(Depth, Packets) /\ Balanced(w, Depth)
      /\ NumAvailable(w) = NumAvailable(q)
      /\ w.numWritten = q.numWritten + 1
  BY <1>1, <1>3, DepthAssumption, FifoWriteBalanced
<1>5. \A k \in Outputs, l \in Fifos :
        fifo'[k][l] = IF k = j /\ l = i THEN w ELSE fifo[k][l]
  BY <1>1, <1>2 DEF TypeOK, ArbiterTypeOK
<1>6. \A k \in Outputs, l \in Fifos :
        NumAvailable(fifo'[k][l]) = NumAvailable(fifo[k][l])
  BY <1>4, <1>5
<1>7. TypeOK'
  BY <1>1, <1>2, <1>4 DEF TypeOK, ArbiterTypeOK
<1>8. FifosBalanced'
  BY <1>4, <1>5 DEF IInv, FifosBalanced
<1>9. OneWriter'
  <2>1. q.numWritten = 0
    BY <1>1, <1>3 DEF IInv, OneWriter, Fifo
  <2>2. w.numWritten = 1
    BY <1>4, <2>1
  <2>3. QED
    BY <1>1, <1>5, <2>2 DEF IInv, OneWriter
<1>10. (Phases /\ LruIsPermutation)'
  BY <1>1 DEF IInv, Phases, LruIsPermutation
<1>11. ChoiceWaits'
  BY <1>1, <1>6 DEF IInv, ChoiceWaits
<1>12. RegisterMatchesFifos'
  BY <1>1, <1>6 DEF IInv, RegisterMatchesFifos
<1>13. QED
  BY <1>7, <1>8, <1>9, <1>10, <1>11, <1>12 DEF IInv

(* The update phase makes the packets written visible and notifies one     *)
(* arrival for each.                                                       *)
LEMMA UpdateIInv ==
  ASSUME IInv, Update
  PROVE  IInv'
<1>1. /\ ~ ArbiterRunnable
      /\ fifo' = [k \in Outputs |-> [l \in Fifos |-> FifoUpdate(fifo[k][l])]]
      /\ pushRun' = [k \in Outputs |-> [l \in Fifos |-> fifo[k][l].numWritten > 0]]
      /\ output' = [k \in Outputs |-> SignalUpdate(output[k])]
      /\ writers' = {}
      /\ batches' = [k \in Outputs |->
           LET new == {l \in Fifos : fifo[k][l].numWritten > 0}
           IN  IF new = {} THEN batches[k] ELSE Append(batches[k], new)]
      /\ UNCHANGED <<arbPc, arbRun, type, choice, lru, pushs, last, clock, bypass>>
  BY DEF Update, ArbiterUpdate
<1>2. TypeOK
  BY DEF IInv
<1>3. \A k \in Outputs, l \in Fifos :
        fifo[k][l] \in Fifo(Depth, Packets) /\ Balanced(fifo[k][l], Depth)
  BY <1>2 DEF IInv, FifosBalanced, TypeOK, ArbiterTypeOK
<1>4. \A k \in Outputs, l \in Fifos :
        /\ fifo'[k][l] = FifoUpdate(fifo[k][l])
        /\ fifo'[k][l] \in Fifo(Depth, Packets)
        /\ Balanced(fifo'[k][l], Depth)
        /\ NumAvailable(fifo'[k][l]) = NumAvailable(fifo[k][l]) + fifo[k][l].numWritten
        /\ fifo'[k][l].numWritten = 0
  BY <1>1, <1>3, DepthAssumption, FifoUpdateBalanced
<1>5. TypeOK'
  <2>1. fifo' \in [Outputs -> [Fifos -> Fifo(Depth, Packets)]]
    BY <1>1, <1>4
  <2>2. output' \in [Outputs -> Signal(Packets \cup {NoPacket})]
    BY <1>1, <1>2 DEF TypeOK, ArbiterTypeOK, SignalUpdate, Signal
  <2>3. pushRun' \in [Outputs -> [Fifos -> BOOLEAN]]
    BY <1>1
  <2>4. batches' \in [Outputs -> Seq(SUBSET Fifos)]
    <3>1. \A k \in Outputs : batches[k] \in Seq(SUBSET Fifos)
      BY <1>2 DEF TypeOK
    <3>2. \A k \in Outputs :
            Append(batches[k], {l \in Fifos : fifo[k][l].numWritten > 0})
              \in Seq(SUBSET Fifos)
      BY <3>1, AppendProperties
    <3>3. QED
      BY <1>1, <3>1, <3>2
  <2>5. QED
    BY <1>1, <1>2, <2>1, <2>2, <2>3, <2>4 DEF TypeOK, ArbiterTypeOK
<1>6. (FifosBalanced /\ OneWriter)'
  BY <1>4 DEF FifosBalanced, OneWriter
<1>7. Phases'
  BY <1>1 DEF Phases, ArbiterRunnable
<1>8. ChoiceWaits'
  <2>1. \A k \in Outputs, l \in Fifos :
          NumAvailable(fifo[k][l]) > 0 => NumAvailable(fifo'[k][l]) > 0
    BY <1>3, <1>4 DEF Fifo, NumAvailable
  <2>2. QED
    BY <1>1, <2>1 DEF IInv, ChoiceWaits
<1>9. RegisterMatchesFifos'
  <2>1. SUFFICES ASSUME NEW k \in Outputs, NEW l \in Fifos
                 PROVE  NumAvailable(fifo'[k][l]) =
                          CountOf(pushs'[k], l) + (IF pushRun'[k][l] THEN 1 ELSE 0)
    BY DEF RegisterMatchesFifos
  <2>2. CountOf(pushs[k], l) \in Nat
    BY <1>2, CountType DEF TypeOK, ArbiterTypeOK
  <2>3. NumAvailable(fifo[k][l]) = CountOf(pushs[k], l)
    BY <1>1, <2>2 DEF IInv, RegisterMatchesFifos, ArbiterRunnable
  <2>4. fifo[k][l].numWritten = 0 \/ fifo[k][l].numWritten = 1
    BY <1>3 DEF IInv, OneWriter, Fifo
  <2>5. pushRun'[k][l] <=> fifo[k][l].numWritten > 0
    BY <1>1
  <2>6. CASE fifo[k][l].numWritten = 0
    <3>1. ~ pushRun'[k][l]
      <4>1. ~ (fifo[k][l].numWritten > 0)
        BY <2>6
      <4>2. QED
        BY <2>5, <4>1
    <3>2. NumAvailable(fifo'[k][l]) = CountOf(pushs[k], l)
      BY <1>4, <2>2, <2>3, <2>6
    <3>3. QED
      BY <1>1, <2>2, <3>1, <3>2
  <2>7. CASE fifo[k][l].numWritten = 1
    <3>1. pushRun'[k][l]
      <4>1. fifo[k][l].numWritten > 0
        BY <2>7
      <4>2. QED
        BY <2>5, <4>1
    <3>2. NumAvailable(fifo'[k][l]) = CountOf(pushs[k], l) + 1
      BY <1>4, <2>2, <2>3, <2>7
    <3>3. QED
      BY <1>1, <2>2, <3>1, <3>2
  <2>8. QED
    BY <2>4, <2>6, <2>7
<1>10. LruIsPermutation'
  BY <1>1 DEF IInv, LruIsPermutation
<1>11. QED
  BY <1>5, <1>6, <1>7, <1>8, <1>9, <1>10 DEF IInv

(* A clock edge only wakes threads.                                        *)
LEMMA ClockEdgeIInv ==
  ASSUME IInv, ClockEdge
  PROVE  IInv'
<1>1. /\ ~ ArbiterRunnable /\ ~ ArbiterChanged
      /\ clock' = IF clock = "pos" THEN "neg" ELSE "pos"
      /\ writers' = IF clock' = "pos" THEN Fifos ELSE {}
      /\ arbRun' = [k \in Outputs |->
                      arbPc[k] \in (IF clock' = "pos" THEN {"idle", "ready"}
                                                     ELSE {"computing"})]
      /\ UNCHANGED <<fifo, arbPc, type, choice, lru, pushs, last, pushRun, output,
                     bypass, batches>>
  BY DEF ClockEdge, ArbiterEdge
<1>2. TypeOK
  BY DEF IInv
<1>3. TypeOK'
  <2>1. \E awaited : arbRun' = [k \in Outputs |-> arbPc[k] \in awaited]
    BY <1>1
  <2>2. arbRun' \in [Outputs -> BOOLEAN]
    BY <2>1
  <2>3. QED
    BY <1>1, <1>2, <2>2 DEF TypeOK, ArbiterTypeOK
<1>4. OneWriter'
  <2>1. \A k \in Outputs, l \in Fifos : ~ (fifo[k][l].numWritten > 0)
    BY <1>1 DEF ArbiterChanged, FifoChanged
  <2>2. QED
    BY <1>1, <2>1 DEF OneWriter
<1>5. Phases'
  BY <1>1 DEF Phases, ArbiterRunnable
<1>6. (FifosBalanced /\ ChoiceWaits /\ RegisterMatchesFifos /\ LruIsPermutation)'
  BY <1>1 DEF IInv, FifosBalanced, ChoiceWaits, RegisterMatchesFifos, LruIsPermutation
<1>7. QED
  BY <1>3, <1>4, <1>5, <1>6 DEF IInv

(* History: serving a FIFO leaves a sequence of sets of FIFOs.             *)
LEMMA ServeType ==
  ASSUME NEW bs \in Seq(SUBSET Fifos), NEW c
  PROVE  Serve(bs, c) \in Seq(SUBSET Fifos)
<1>1. CASE ~ \E k \in DOMAIN bs : c \in bs[k]
  BY <1>1 DEF Serve
<1>2. CASE \E k \in DOMAIN bs : c \in bs[k]
  <2> DEFINE First(k) == c \in bs[k] /\ \A l \in 1..(k - 1) : c \notin bs[l]
             H == {k \in DOMAIN bs : c \in bs[k]}
             f == CHOOSE k \in DOMAIN bs : First(k)
  <2>1. Len(bs) \in Nat /\ DOMAIN bs = 1..Len(bs)
        /\ \A k \in 1..Len(bs) : bs[k] \in SUBSET Fifos
    BY LenProperties, ElementOfSeq
  <2>2. H # {} /\ H \subseteq Nat
    BY <1>2, <2>1
  <2>3. PICK m \in H : \A k \in H : m <= k
    BY <2>2, MinNat
  <2>4. m \in DOMAIN bs /\ First(m)
    BY <2>1, <2>3
  <2>5. f \in 1..Len(bs)
    BY <2>1, <2>4
  <2> HIDE DEF f
  <2>6. SubSeq(bs, 1, f - 1) \in Seq(SUBSET Fifos)
    <3>1. f - 1 \in Int /\ \A i \in 1..(f - 1) : bs[i] \in SUBSET Fifos
      BY <2>1, <2>5
    <3>2. QED
      BY <3>1, SubSeqProperties
  <2>7. SubSeq(bs, f + 1, Len(bs)) \in Seq(SUBSET Fifos)
    <3>1. /\ f + 1 \in Int /\ Len(bs) \in Int
          /\ \A i \in (f + 1)..Len(bs) : bs[i] \in SUBSET Fifos
      BY <2>1, <2>5
    <3>2. QED
      BY <3>1, SubSeqProperties
  <2>8. SubSeq(bs, 1, f - 1) \o SubSeq(bs, f + 1, Len(bs)) \in Seq(SUBSET Fifos)
    BY <2>6, <2>7, ConcatProperties
  <2>9. [bs EXCEPT ![f] = @ \ {c}] \in Seq(SUBSET Fifos)
    <3>1. bs[f] \ {c} \in SUBSET Fifos
      BY <2>1, <2>5
    <3>2. QED
      BY <2>5, <3>1, ExceptSeq
  <2>10. QED
    BY <1>2, <2>8, <2>9 DEF Serve, f
<1>3. QED
  BY <1>1, <1>2

(* A transfer takes a packet the arbiter can see and its register entry.   *)
LEMMA DeliverIInv ==
  ASSUME IInv, NEW j \in Outputs, Deliver(j)
  PROVE  IInv'
<1> DEFINE c == choice[j]
           q == fifo[j][c]
<1>1. TypeOK
  BY DEF IInv
<1>2. arbRun[j] /\ arbPc[j] = "ready"
  BY DEF Deliver, Transfer
<1>3. c \in Fifos /\ NumAvailable(q) > 0
  BY <1>2 DEF IInv, ChoiceWaits
<1>4. /\ arbPc' = [arbPc EXCEPT ![j] = "idle"]
      /\ arbRun' = [arbRun EXCEPT ![j] = FALSE]
      /\ fifo' = [fifo EXCEPT ![j][c] = FifoRead(@)]
      /\ output' = [output EXCEPT ![j] = SignalWrite(@, Head(q.buf))]
      /\ lru' = [lru EXCEPT ![j] = UpdateLru(@, c)]
      /\ pushs' = [pushs EXCEPT ![j] = UpdateFifo(@, c)]
      /\ last' = [last EXCEPT ![j] = c]
      /\ batches' = [batches EXCEPT ![j] = Serve(@, c)]
      /\ UNCHANGED <<type, choice, pushRun, clock, writers, bypass>>
  <2>1. ~ (NumAvailable(q) = 0)
    BY <1>3
  <2>2. QED
    BY <2>1 DEF Deliver, Transfer
<1>5. q \in Fifo(Depth, Packets) /\ Balanced(q, Depth)
  BY <1>1, <1>3 DEF IInv, FifosBalanced, TypeOK, ArbiterTypeOK
<1>6. /\ FifoRead(q) \in Fifo(Depth, Packets) /\ Balanced(FifoRead(q), Depth)
      /\ NumAvailable(FifoRead(q)) = NumAvailable(q) - 1
      /\ FifoRead(q).numWritten = q.numWritten
      /\ Head(q.buf) \in Packets
  BY <1>3, <1>5, DepthAssumption, FifoReadBalanced
<1>7. \A k \in Outputs, l \in Fifos :
        fifo'[k][l] = IF k = j /\ l = c THEN FifoRead(q) ELSE fifo[k][l]
  BY <1>1, <1>3, <1>4 DEF TypeOK, ArbiterTypeOK
<1>8. lru[j] \in [Fifos -> Fifos] /\ Covers(lru[j])
  BY <1>1 DEF IInv, LruIsPermutation, Covers, TypeOK, ArbiterTypeOK
<1>9. UpdateLru(lru[j], c) \in [Fifos -> Fifos] /\ Covers(UpdateLru(lru[j], c))
  BY <1>3, <1>8, UpdateLruCovers
<1>10. pushs[j] \in Seq(Fifos)
  BY <1>1 DEF TypeOK, ArbiterTypeOK
<1>11. \A l \in Fifos : ~ pushRun[j][l] /\ NumAvailable(fifo[j][l]) = CountOf(pushs[j], l)
  <2>1. TAKE l \in Fifos
  <2>2. ~ pushRun[j][l]
    BY <1>2 DEF IInv, Phases
  <2>3. CountOf(pushs[j], l) \in Nat
    BY <1>10, CountType
  <2>4. QED
    BY <2>2, <2>3 DEF IInv, RegisterMatchesFifos
<1>12. /\ UpdateFifo(pushs[j], c) \in Seq(Fifos)
       /\ \A l \in Fifos : CountOf(UpdateFifo(pushs[j], c), l) =
                             CountOf(pushs[j], l) - (IF c = l THEN 1 ELSE 0)
  <2>1. CountOf(pushs[j], c) > 0
    BY <1>3, <1>11
  <2>2. QED
    BY <1>3, <1>10, <2>1, CountUpdateFifo
<1>13. TypeOK'
  <2>1. SignalWrite(output[j], Head(q.buf)) \in Signal(Packets \cup {NoPacket})
    <3>1. output[j] \in Signal(Packets \cup {NoPacket})
      BY <1>1 DEF TypeOK, ArbiterTypeOK
    <3>2. Head(q.buf) \in Packets \cup {NoPacket}
      BY <1>6
    <3>3. QED
      BY <3>1, <3>2 DEF SignalWrite, Signal
  <2>2. Serve(batches[j], c) \in Seq(SUBSET Fifos)
    BY <1>1, ServeType DEF TypeOK
  <2>3. batches' \in [Outputs -> Seq(SUBSET Fifos)]
    BY <1>1, <1>4, <2>2 DEF TypeOK
  <2>4. ArbiterTypeOK'
    <3>1. fifo' \in [Outputs -> [Fifos -> Fifo(Depth, Packets)]]
      BY <1>1, <1>3, <1>4, <1>6 DEF TypeOK, ArbiterTypeOK
    <3>2. /\ arbPc' \in [Outputs -> {"idle", "computing", "ready", "blocked"}]
          /\ arbRun' \in [Outputs -> BOOLEAN]
          /\ last' \in [Outputs -> Fifos]
      BY <1>1, <1>3, <1>4 DEF TypeOK, ArbiterTypeOK
    <3>3. lru' \in [Outputs -> [Fifos -> Fifos]]
      BY <1>1, <1>4, <1>9 DEF TypeOK, ArbiterTypeOK
    <3>4. pushs' \in [Outputs -> Seq(Fifos)]
      BY <1>1, <1>4, <1>12 DEF TypeOK, ArbiterTypeOK
    <3>5. output' \in [Outputs -> Signal(Packets \cup {NoPacket})]
      BY <1>1, <1>4, <2>1 DEF TypeOK, ArbiterTypeOK
    <3>6. QED
      BY <1>1, <1>4, <3>1, <3>2, <3>3, <3>4, <3>5 DEF TypeOK, ArbiterTypeOK
  <2>5. QED
    BY <1>1, <1>4, <2>3, <2>4 DEF TypeOK
<1>14. FifosBalanced'
  BY <1>6, <1>7 DEF IInv, FifosBalanced
<1>15. OneWriter'
  BY <1>4, <1>6, <1>7 DEF IInv, OneWriter
<1>16. Phases'
  BY <1>1, <1>4 DEF IInv, Phases, TypeOK, ArbiterTypeOK
<1>17. ChoiceWaits'
  <2>1. \A k \in Outputs : k # j => fifo'[k] = fifo[k] /\ arbPc'[k] = arbPc[k]
    BY <1>1, <1>4 DEF TypeOK, ArbiterTypeOK
  <2>2. arbPc'[j] = "idle"
    BY <1>1, <1>4 DEF TypeOK, ArbiterTypeOK
  <2>3. QED
    BY <1>4, <2>1, <2>2 DEF IInv, ChoiceWaits
<1>18. RegisterMatchesFifos'
  <2>1. SUFFICES ASSUME NEW k \in Outputs, NEW l \in Fifos
                 PROVE  NumAvailable(fifo'[k][l]) =
                          CountOf(pushs'[k], l) + (IF pushRun'[k][l] THEN 1 ELSE 0)
    BY DEF RegisterMatchesFifos
  <2>2. CASE k = j
    <3>1. pushs'[k] = UpdateFifo(pushs[j], c) /\ ~ pushRun'[k][l]
      BY <1>1, <1>4, <1>11, <2>2 DEF TypeOK, ArbiterTypeOK
    <3>2. NumAvailable(fifo[j][l]) = CountOf(pushs[j], l) /\ CountOf(pushs[j], l) \in Nat
      BY <1>10, <1>11, CountType
    <3>3. CASE l = c
      <4>1. CountOf(pushs'[k], l) = CountOf(pushs[j], l) - 1
        BY <1>12, <3>1, <3>3
      <4>2. NumAvailable(fifo'[k][l]) = NumAvailable(fifo[j][l]) - 1
        BY <1>6, <1>7, <2>2, <3>3
      <4>3. QED
        BY <3>1, <3>2, <4>1, <4>2
    <3>4. CASE l # c
      <4>1. CountOf(pushs'[k], l) = CountOf(pushs[j], l)
        BY <1>12, <3>1, <3>2, <3>4
      <4>2. fifo'[k][l] = fifo[j][l]
        BY <1>7, <2>2, <3>4
      <4>3. QED
        BY <3>1, <3>2, <4>1, <4>2
    <3>5. QED
      BY <3>3, <3>4
  <2>3. CASE k # j
    <3>1. fifo'[k] = fifo[k] /\ pushs'[k] = pushs[k] /\ pushRun' = pushRun
      BY <1>1, <1>4, <2>3 DEF TypeOK, ArbiterTypeOK
    <3>2. QED
      BY <3>1 DEF IInv, RegisterMatchesFifos
  <2>4. QED
    BY <2>2, <2>3
<1>19. LruIsPermutation'
  <2>1. \A k \in Outputs : lru'[k] = IF k = j THEN UpdateLru(lru[j], c) ELSE lru[k]
    BY <1>1, <1>4 DEF TypeOK, ArbiterTypeOK
  <2>2. SUFFICES ASSUME NEW k \in Outputs, NEW i \in Fifos
                 PROVE  \E l \in Fifos : lru'[k][l] = i
    BY DEF LruIsPermutation
  <2>3. CASE k = j
    <3>1. lru'[k] = UpdateLru(lru[j], c)
      BY <2>1, <2>3
    <3>2. \E l \in Fifos : UpdateLru(lru[j], c)[l] = i
      BY <1>9 DEF Covers
    <3>3. QED
      BY <3>1, <3>2
  <2>4. CASE k # j
    <3>1. lru'[k] = lru[k]
      BY <2>1, <2>4
    <3>2. \E l \in Fifos : lru[k][l] = i
      BY DEF IInv, LruIsPermutation
    <3>3. QED
      BY <3>1, <3>2
  <2>5. QED
    BY <2>3, <2>4
<1>20. QED
  BY <1>13, <1>14, <1>15, <1>16, <1>17, <1>18, <1>19 DEF IInv

-----------------------------------------------------------------------------
(* Every step of the kernel, the routers or the arbiters preserves the     *)
(* invariant.                                                              *)
LEMMA NextIInv == IInv /\ [Next]_vars => IInv'
<1> SUFFICES ASSUME IInv, [Next]_vars PROVE IInv'
  OBVIOUS
<1>1. CASE \E j \in Outputs : Arbitrate(j)
  BY <1>1, ArbitrateIInv
<1>2. CASE \E j \in Outputs : Compute(j)
  BY <1>2, ComputeIInv
<1>3. CASE \E j \in Outputs : Deliver(j)
  BY <1>3, DeliverIInv
<1>4. CASE \E j \in Outputs, i \in Fifos : RecordArrival(j, i)
  BY <1>4, RecordArrivalIInv
<1>5. CASE \E j \in Outputs, i \in Fifos : RouterWrite(i, j)
  BY <1>5, RouterWriteIInv
<1>6. CASE Update
  BY <1>6, UpdateIInv
<1>7. CASE ClockEdge
  BY <1>7, ClockEdgeIInv
<1>8. CASE UNCHANGED vars
  <2>1. UNCHANGED <<fifo, arbPc, arbRun, type, choice, lru, pushs, last, pushRun,
                    output, clock, writers, bypass, batches>>
    BY <1>8 DEF vars, arbiterVars
  <2>2. TypeOK'
    BY <2>1 DEF IInv, TypeOK, ArbiterTypeOK
  <2>3. (FifosBalanced /\ OneWriter /\ Phases /\ ChoiceWaits)'
    BY <2>1 DEF IInv, FifosBalanced, OneWriter, Phases, ChoiceWaits
  <2>4. (RegisterMatchesFifos /\ LruIsPermutation)'
    BY <2>1 DEF IInv, RegisterMatchesFifos, LruIsPermutation
  <2>5. QED
    BY <2>2, <2>3, <2>4 DEF IInv
<1>9. QED
  BY <1>1, <1>2, <1>3, <1>4, <1>5, <1>6, <1>7, <1>8 DEF Next

(* The invariant holds in every reachable state of the node.               *)
THEOREM Invariance == Spec => []IInv
<1>1. Init => IInv
  BY InitIInv
<1>2. IInv /\ [Next]_vars => IInv'
  BY NextIInv
<1>3. QED
  BY <1>1, <1>2, PTL DEF Spec

(* The variables keep their types, for all constants.                      *)
THEOREM TypeCorrect == Spec => []TypeOK
<1>1. IInv => TypeOK
  BY DEF IInv
<1>2. QED
  BY <1>1, Invariance, PTL

(* No arbiter ever stops in read(): the FIFO chosen at one edge still has  *)
(* its packet at the edge that transfers it.                               *)
THEOREM ReadNeverBlocks == Spec => []NeverBlocks
<1>1. IInv => NeverBlocks
  BY DEF IInv, ChoiceWaits, NeverBlocks
<1>2. QED
  BY <1>1, Invariance, PTL

(* The arrival register of FIFO mode agrees with the FIFOs.                *)
THEOREM RegisterCorrect == Spec => []RegisterMatchesFifos
<1>1. IInv => RegisterMatchesFifos
  BY DEF IInv
<1>2. QED
  BY <1>1, Invariance, PTL

(* The arrival register never overflows its array of twice as many places  *)
(* as the FIFOs hold packets: each entry stands for a packet in a FIFO.    *)
THEOREM RegisterFitsAlways == Spec => []RegisterFits
<1>1. IInv => RegisterFits
  <2>1. SUFFICES ASSUME IInv, NEW j \in Outputs
                 PROVE  Len(pushs[j]) < 2 * NbFifos * Depth
    BY DEF RegisterFits
  <2>2. /\ pushs[j] \in Seq(Fifos)
        /\ \A i \in Fifos : fifo[j][i] \in Fifo(Depth, Packets)
    BY <2>1 DEF IInv, TypeOK, ArbiterTypeOK
  <2>3. ASSUME NEW i \in Fifos
        PROVE  CountOf(pushs[j], i) <= Depth
    <3>1. CountOf(pushs[j], i) \in Nat
      BY <2>2, CountType
    <3>2. NumAvailable(fifo[j][i]) =
            CountOf(pushs[j], i) + (IF pushRun[j][i] THEN 1 ELSE 0)
      BY <2>1 DEF IInv, RegisterMatchesFifos
    <3>3. NumAvailable(fifo[j][i]) \in Nat /\ NumAvailable(fifo[j][i]) <= Depth
      <4> DEFINE q == fifo[j][i]
      <4>1. q \in Fifo(Depth, Packets) /\ Balanced(q, Depth)
        BY <2>1, <2>2 DEF IInv, FifosBalanced
      <4>2. /\ q.readable \in 0..Depth /\ q.numRead \in 0..Depth
            /\ q.numRead <= q.readable
        BY <4>1 DEF Fifo, Balanced
      <4>3. QED
        BY <4>2, DepthAssumption DEF NumAvailable
    <3>4. QED
      BY <3>1, <3>2, <3>3, DepthAssumption
  <2>4. Len(pushs[j]) <= NbFifos * Depth
    BY <2>2, <2>3, RegisterLength, DepthAssumption
  <2> DEFINE places == NbFifos * Depth
  <2>5. places \in Nat /\ places > 0 /\ 2 * NbFifos * Depth = 2 * places
    BY DepthAssumption, NbFifosAssumption
  <2>6. Len(pushs[j]) \in Nat
    BY <2>2, LenProperties
  <2> HIDE DEF places
  <2>7. Len(pushs[j]) <= places
    BY <2>4 DEF places
  <2>8. QED
    BY <2>5, <2>6, <2>7
<1>2. QED
  BY <1>1, Invariance, PTL

(* The LRU register stays a permutation of the FIFOs.                      *)
THEOREM LruCorrect == Spec => []LruIsPermutation
<1>1. IInv => LruIsPermutation
  BY DEF IInv
<1>2. QED
  BY <1>1, Invariance, PTL

-----------------------------------------------------------------------------
(* The bound on bypasses.  A FIFO's place in the LRU register and the LRU  *)
(* decisions that passed over it add up to at most NbFifos - 1: each such  *)
(* decision serves a FIFO nearer to the head, which moves this one a place *)
(* ahead when the packet is transferred.  In between, the sum is one       *)
(* larger (the second disjunct), and the chosen FIFO has no bypass.        *)
Busy(j) == arbPc[j] \in {"computing", "ready"}

BypassInv ==
  \A j \in Outputs :
    /\ Busy(j) => bypass[j][choice[j]] = 0
    /\ \A k \in Fifos :
         \/ bypass[j][lru[j][k]] + k <= NbFifos - 1
         \/ /\ bypass[j][lru[j][k]] + k <= NbFifos
            /\ Busy(j)
            /\ \E h \in Fifos : h < k /\ lru[j][h] = choice[j]

(* A step of arbiter j leaves the others alone.                            *)
LEMMA ArbitrateBypass ==
  ASSUME CountedMode = "LRU", IInv, BypassInv, NEW j \in Outputs, Arbitrate(j)
  PROVE  BypassInv'
<1>1. PICK m \in Modes, r \in RandomNumbers : Decide(j, m, r) /\ CountBypass(j, m)
  BY DEF Arbitrate
<1> DEFINE c == Choose(j, m, r)
<1>2. TypeOK
  BY DEF IInv
<1>3. /\ arbRun[j] /\ arbPc[j] = "idle" /\ lru' = lru
      /\ choice'[j] = c
      /\ arbPc'[j] = IF c = NoChoice THEN "idle" ELSE "computing"
      /\ \A k \in Outputs : k # j => arbPc'[k] = arbPc[k] /\ choice'[k] = choice[k]
  BY <1>1, <1>2 DEF Decide, TypeOK, ArbiterTypeOK
<1>4. c \in Avail(j) \cup {NoChoice}
  BY <1>3, ChooseAvailable DEF IInv
<1>5. lru[j] \in [Fifos -> Fifos] /\ Covers(lru[j]) /\ bypass[j] \in [Fifos -> Nat]
  BY <1>2 DEF IInv, LruIsPermutation, Covers, TypeOK, ArbiterTypeOK
<1>6. /\ \A i \in Fifos :
           bypass'[j][i] = IF i \notin Avail(j) \/ i = c THEN 0
                           ELSE IF m = CountedMode THEN bypass[j][i] + 1
                                                   ELSE bypass[j][i]
      /\ \A k \in Outputs : k # j => bypass'[k] = bypass[k]
  BY <1>1, <1>2, <1>3 DEF CountBypass, TypeOK
<1>7. NbFifos \in Nat \ {0} /\ Fifos = 0..(NbFifos - 1)
  BY FifosFact DEF Fifos
<1>8. SUFFICES ASSUME NEW k \in Outputs
      PROVE  /\ Busy(k)' => bypass'[k][choice'[k]] = 0
             /\ \A p \in Fifos :
                  \/ bypass'[k][lru'[k][p]] + p <= NbFifos - 1
                  \/ /\ bypass'[k][lru'[k][p]] + p <= NbFifos
                     /\ Busy(k)'
                     /\ \E h \in Fifos : h < p /\ lru'[k][h] = choice'[k]
  BY DEF BypassInv
<1>9. CASE k # j
  BY <1>3, <1>6, <1>9 DEF BypassInv, Busy
<1>10. CASE k = j
  <2>1. Busy(k)' => bypass'[k][choice'[k]] = 0
    <3>1. SUFFICES ASSUME Busy(k)' PROVE c \in Fifos
      BY <1>3, <1>6, <1>10
    <3>2. QED
      BY <1>3, <1>4, <1>10, <3>1 DEF Busy, Avail
  <2>2. ASSUME NEW p \in Fifos
        PROVE  \/ bypass'[j][lru[j][p]] + p <= NbFifos - 1
               \/ /\ bypass'[j][lru[j][p]] + p <= NbFifos
                  /\ Busy(j)'
                  /\ \E h \in Fifos : h < p /\ lru[j][h] = c
    <3> DEFINE i == lru[j][p]
    <3>1. i \in Fifos /\ bypass[j][i] \in Nat /\ p \in Nat /\ p <= NbFifos - 1
      <4>1. i \in Fifos
        BY <1>5
      <4>2. bypass[j][i] \in Nat
        BY <1>5, <4>1
      <4>3. QED
        BY <1>7, <4>1, <4>2
    <3>2. bypass[j][i] + p <= NbFifos - 1
      BY <1>3 DEF BypassInv, Busy
    <3>3. CASE i \notin Avail(j) \/ i = c
      BY <1>6, <1>7, <3>1, <3>3
    <3>4. CASE i \in Avail(j) /\ i # c /\ m # CountedMode
      BY <1>6, <3>1, <3>2, <3>4
    <3>5. CASE i \in Avail(j) /\ i # c /\ m = CountedMode
      <4>1. bypass'[j][i] = bypass[j][i] + 1
        BY <1>6, <3>1, <3>5
      <4>2. bypass'[j][i] + p <= NbFifos
        BY <1>7, <3>1, <3>2, <4>1
      <4>3. c = ChooseLru(lru[j], Avail(j)) /\ Avail(j) # {} /\ Avail(j) \subseteq Fifos
        BY <3>5 DEF Choose, Avail
      <4>4. PICK h \in Fifos : /\ c = lru[j][h]
                               /\ lru[j][h] \in Avail(j)
                               /\ \A q \in Fifos : lru[j][q] \in Avail(j) => h <= q
        BY <1>5, <4>3, ChooseLruFirst
      <4>5. h < p
        <5>1. h <= p /\ h # p
          BY <3>5, <4>4
        <5>2. QED
          BY <1>7, <5>1
      <4>6. Busy(j)'
        BY <1>3, <4>3, <4>4, FifosFact DEF Busy
      <4>7. QED
        BY <4>2, <4>4, <4>5, <4>6
    <3>6. QED
      BY <3>3, <3>4, <3>5
  <2>3. QED
    BY <1>3, <1>10, <2>1, <2>2
<1>11. QED
  BY <1>9, <1>10

(* The transfer moves what came after the chosen FIFO in the LRU register  *)
(* one place ahead, which pays for the bypass counted at the choice.       *)
LEMMA DeliverBypass ==
  ASSUME IInv, BypassInv, NEW j \in Outputs, Deliver(j)
  PROVE  BypassInv'
<1> DEFINE c == choice[j]
<1>1. TypeOK
  BY DEF IInv
<1>2. arbPc[j] = "ready" /\ c \in Fifos /\ NumAvailable(fifo[j][c]) > 0
  BY DEF Deliver, Transfer, IInv, ChoiceWaits
<1>3. /\ arbPc' = [arbPc EXCEPT ![j] = "idle"]
      /\ lru' = [lru EXCEPT ![j] = UpdateLru(@, c)]
      /\ UNCHANGED <<choice, bypass>>
  <2>1. ~ (NumAvailable(fifo[j][c]) = 0)
    BY <1>2
  <2>2. QED
    BY <2>1 DEF Deliver, Transfer
<1>4. /\ lru'[j] = UpdateLru(lru[j], c) /\ arbPc'[j] = "idle"
      /\ \A k \in Outputs : k # j => arbPc'[k] = arbPc[k] /\ lru'[k] = lru[k]
  BY <1>1, <1>3 DEF TypeOK, ArbiterTypeOK
<1>5. NbFifos \in Nat \ {0} /\ Fifos = 0..(NbFifos - 1)
  BY FifosFact DEF Fifos
<1>6. lru[j] \in [Fifos -> Fifos] /\ bypass[j] \in [Fifos -> Nat]
  BY <1>1 DEF TypeOK, ArbiterTypeOK
<1>7. ASSUME NEW p \in Fifos
      PROVE  bypass[j][lru'[j][p]] + p <= NbFifos - 1
  <2>1. CASE p = NbFifos - 1
    <3>1. lru'[j][p] = c
      BY <1>4, <2>1 DEF UpdateLru
    <3>2. bypass[j][c] = 0
      BY <1>2 DEF BypassInv, Busy
    <3>3. QED
      BY <1>5, <2>1, <3>1, <3>2
  <2>2. CASE p # NbFifos - 1 /\ \E l \in 0..p : lru[j][l] = c
    <3>1. p + 1 \in Fifos /\ p \in Nat
      BY <1>5, <2>2
    <3>2. lru'[j][p] = lru[j][p + 1]
      BY <1>4, <2>2 DEF UpdateLru
    <3>3. bypass[j][lru[j][p + 1]] + (p + 1) <= NbFifos
      <4>1. bypass[j][lru[j][p + 1]] \in Nat
        BY <1>6, <3>1
      <4>2. \/ bypass[j][lru[j][p + 1]] + (p + 1) <= NbFifos - 1
            \/ bypass[j][lru[j][p + 1]] + (p + 1) <= NbFifos
        BY <3>1 DEF BypassInv
      <4>3. QED
        BY <1>5, <3>1, <4>1, <4>2
    <3>4. bypass[j][lru[j][p + 1]] \in Nat
      BY <1>6, <3>1
    <3>5. QED
      BY <1>5, <3>1, <3>2, <3>3, <3>4
  <2>3. CASE p # NbFifos - 1 /\ ~ \E l \in 0..p : lru[j][l] = c
    <3>1. lru'[j][p] = lru[j][p]
      BY <1>4, <2>3 DEF UpdateLru
    <3>2. ~ \E h \in Fifos : h < p /\ lru[j][h] = c
      BY <1>5, <2>3
    <3>3. QED
      BY <3>1, <3>2 DEF BypassInv
  <2>4. QED
    BY <2>1, <2>2, <2>3
<1>8. \A k \in Outputs : k # j =>
        /\ Busy(k)' => bypass'[k][choice'[k]] = 0
        /\ \A p \in Fifos :
             \/ bypass'[k][lru'[k][p]] + p <= NbFifos - 1
             \/ /\ bypass'[k][lru'[k][p]] + p <= NbFifos
                /\ Busy(k)'
                /\ \E h \in Fifos : h < p /\ lru'[k][h] = choice'[k]
  BY <1>3, <1>4 DEF BypassInv, Busy
<1>9. ~ Busy(j)'
  BY <1>4 DEF Busy
<1>10. QED
  BY <1>3, <1>7, <1>8, <1>9 DEF BypassInv

(* Every step preserves the sum of a FIFO's place and its bypasses.        *)
LEMMA NextBypass ==
  ASSUME CountedMode = "LRU", IInv, BypassInv, [Next]_vars
  PROVE  BypassInv'
<1>1. CASE \E j \in Outputs : Arbitrate(j)
  BY <1>1, ArbitrateBypass
<1>2. CASE \E j \in Outputs : Deliver(j)
  BY <1>2, DeliverBypass
<1>3. CASE \E j \in Outputs : Compute(j)
  <2>1. PICK j \in Outputs : Compute(j)
    BY <1>3
  <2>2. /\ arbPc[j] = "computing" /\ arbPc' = [arbPc EXCEPT ![j] = "ready"]
        /\ UNCHANGED <<choice, lru, bypass>>
    BY <2>1 DEF Compute, AwaitTransfer
  <2>3. \A k \in Outputs : Busy(k)' <=> Busy(k)
    BY <2>2 DEF IInv, TypeOK, ArbiterTypeOK, Busy
  <2>4. QED
    BY <2>2, <2>3 DEF BypassInv
<1>4. CASE \/ \E j \in Outputs, i \in Fifos : RecordArrival(j, i) \/ RouterWrite(i, j)
           \/ Update \/ ClockEdge \/ UNCHANGED vars
  <2>1. UNCHANGED <<arbPc, choice, lru, bypass>>
    BY <1>4 DEF RecordArrival, PushedInFifo, RouterWrite, Update, ArbiterUpdate,
                ClockEdge, ArbiterEdge, vars, arbiterVars
  <2>2. QED
    BY <2>1 DEF BypassInv, Busy
<1>5. QED
  BY <1>1, <1>2, <1>3, <1>4 DEF Next

(* Under LRU no waiting FIFO is passed over more than NbFifos - 1 times,   *)
(* whatever other modes the decisions in between are made in.              *)
THEOREM LruBypassBounded == CountedMode = "LRU" => (Spec => []BoundedBypass)
<1> SUFFICES ASSUME CountedMode = "LRU" PROVE Spec => []BoundedBypass
  OBVIOUS
<1>1. Init => BypassInv
  <2>1. SUFFICES ASSUME Init PROVE BypassInv
    OBVIOUS
  <2>2. \A j \in Outputs, k \in Fifos :
          ~ Busy(j) /\ lru[j][k] = k /\ bypass[j][k] = 0 /\ k <= NbFifos - 1
    BY <2>1, FifosFact DEF Init, ArbiterInit, InitLru, Busy, Fifos
  <2>3. \A j \in Outputs : ~ Busy(j)
    BY <2>1 DEF Init, ArbiterInit, Busy
  <2>4. QED
    BY <2>2, <2>3, FifosFact DEF BypassInv, Fifos
<1>2. IInv /\ BypassInv /\ [Next]_vars => BypassInv'
  BY NextBypass
<1>3. IInv /\ BypassInv => BoundedBypass
  <2>1. SUFFICES ASSUME IInv, BypassInv, NEW j \in Outputs, NEW i \in Fifos
                 PROVE  bypass[j][i] <= NbFifos - 1
    BY DEF BoundedBypass
  <2>2. PICK k \in Fifos : lru[j][k] = i
    BY <2>1 DEF IInv, LruIsPermutation
  <2>3. bypass[j][i] \in Nat
    BY <2>1 DEF IInv, TypeOK
  <2>4. \/ bypass[j][i] + k <= NbFifos - 1
        \/ bypass[j][i] + k <= NbFifos /\ \E h \in Fifos : h < k
    BY <2>1, <2>2 DEF BypassInv
  <2>5. QED
    BY <2>3, <2>4, FifosFact DEF Fifos
<1>4. QED
  BY <1>1, <1>2, <1>3, Invariance, PTL DEF Spec

-----------------------------------------------------------------------------
(***************************************************************************)
(* FIFO mode serves the oldest arrival.                                    *)
(*                                                                         *)
(* The register lists the batches: there is a way to assign to each entry  *)
(* the batch it came in, never decreasing along the register, so that each *)
(* FIFO of each batch has exactly one entry.  The notified arrivals that   *)
(* are not recorded yet are missing from the youngest batch.               *)
(***************************************************************************)
(* b[k] is the batch of the k-th entry of s.                               *)
Lists(b, s, bs, pending) ==
  /\ b \in [1..Len(s) -> 1..Len(bs)]
  /\ \A k, l \in 1..Len(s) : k < l => b[k] <= b[l]
  /\ \A k \in 1..Len(s) : s[k] \in bs[b[k]]
  /\ \A k, l \in 1..Len(s) : b[k] = b[l] /\ s[k] = s[l] => k = l
  /\ \A m \in 1..Len(bs) : \A i \in bs[m] :
       \/ \E k \in 1..Len(s) : b[k] = m /\ s[k] = i
       \/ m = Len(bs) /\ i \in pending
  /\ \A i \in pending : \A k \in 1..Len(s) : b[k] = Len(bs) => s[k] # i
  /\ \A i \in pending : Len(bs) > 0 /\ i \in bs[Len(bs)]
  /\ \A m \in 1..Len(bs) : bs[m] # {}

Pending(j) == {i \in Fifos : pushRun[j][i]}

Ordered(j) == \E b : Lists(b, pushs[j], batches[j], Pending(j))

ServesOldest(j) ==
  type[j] = "FIFO" /\ arbPc[j] \in {"computing", "ready"}
    => /\ batches[j] # <<>>
       /\ choice[j] \in Head(batches[j])

OldestInv == \A j \in Outputs : Ordered(j) /\ ServesOldest(j)

-----------------------------------------------------------------------------
(* An arrival that is recorded is one of the youngest batch.               *)
LEMMA ListsAppend ==
  ASSUME NEW s \in Seq(Fifos), NEW bs \in Seq(SUBSET Fifos), NEW pending,
         NEW b, Lists(b, s, bs, pending), NEW i \in pending \cap Fifos
  PROVE  \E b2 : Lists(b2, Append(s, i), bs, pending \ {i})
<1> DEFINE n == Len(s)
           N == Len(bs)
           t == Append(s, i)
           b2 == [k \in 1..(n + 1) |-> IF k = n + 1 THEN N ELSE b[k]]
<1>1. n \in Nat /\ N \in Nat /\ N > 0 /\ i \in bs[N]
  BY LenProperties DEF Lists
<1>2. /\ Len(t) = n + 1 /\ t[n + 1] = i
      /\ \A k \in 1..n : t[k] = s[k]
  BY AppendProperties
<1>3. \A k \in 1..n : b[k] \in 1..N
  BY DEF Lists
<1>4. b2[n + 1] = N /\ \A k \in 1..n : b2[k] = b[k]
  BY <1>1
<1>5. b2 \in [1..(n + 1) -> 1..N]
  BY <1>1, <1>3
<1> HIDE DEF b2, t, n, N
<1>6. \A k \in 1..(n + 1) : k \in 1..n \/ k = n + 1
  BY <1>1
<1>7. \A k, l \in 1..(n + 1) : k < l => b2[k] <= b2[l]
  <2>1. SUFFICES ASSUME NEW k \in 1..(n + 1), NEW l \in 1..(n + 1), k < l
                 PROVE  b2[k] <= b2[l]
    OBVIOUS
  <2>2. k \in 1..n
    BY <1>1, <2>1
  <2>3. CASE l = n + 1
    BY <1>1, <1>3, <1>4, <2>2, <2>3
  <2>4. CASE l \in 1..n
    BY <1>4, <2>1, <2>2, <2>4 DEF Lists, n
  <2>5. QED
    BY <1>6, <2>3, <2>4
<1>8. \A k \in 1..(n + 1) : t[k] \in bs[b2[k]]
  <2>1. \A k \in 1..n : s[k] \in bs[b[k]]
    BY DEF Lists, n
  <2>2. QED
    BY <1>1, <1>2, <1>4, <1>6, <2>1
<1>9. \A k, l \in 1..(n + 1) : b2[k] = b2[l] /\ t[k] = t[l] => k = l
  <2>1. \A k, l \in 1..n : b[k] = b[l] /\ s[k] = s[l] => k = l
    BY DEF Lists, n
  <2>2. \A k \in 1..n : b[k] = N => s[k] # i
    BY DEF Lists, n, N
  <2>3. QED
    BY <1>2, <1>4, <1>6, <2>1, <2>2
<1>10. \A m \in 1..N : \A x \in bs[m] :
         \/ \E k \in 1..(n + 1) : b2[k] = m /\ t[k] = x
         \/ m = N /\ x \in pending \ {i}
  <2>1. SUFFICES ASSUME NEW m \in 1..N, NEW x \in bs[m]
                 PROVE  \/ \E k \in 1..(n + 1) : b2[k] = m /\ t[k] = x
                        \/ m = N /\ x \in pending \ {i}
    OBVIOUS
  <2>2. \/ \E k \in 1..n : b[k] = m /\ s[k] = x
        \/ m = N /\ x \in pending
    BY DEF Lists, n, N
  <2>3. n + 1 \in 1..(n + 1) /\ \A k \in 1..n : k \in 1..(n + 1)
    BY <1>1
  <2>4. QED
    BY <1>2, <1>4, <2>2, <2>3
<1>11. \A x \in pending \ {i} : \A k \in 1..(n + 1) : b2[k] = N => t[k] # x
  <2>1. \A x \in pending : \A k \in 1..n : b[k] = N => s[k] # x
    BY DEF Lists, n, N
  <2>2. QED
    BY <1>2, <1>4, <1>6, <2>1
<1>12. /\ \A x \in pending \ {i} : N > 0 /\ x \in bs[N]
       /\ \A m \in 1..N : bs[m] # {}
  BY DEF Lists, N
<1>13. Lists(b2, t, bs, pending \ {i})
  BY <1>2, <1>5, <1>7, <1>8, <1>9, <1>10, <1>11, <1>12 DEF Lists, N
<1>14. QED
  BY <1>13 DEF t

(* The FIFOs written together are a new, youngest batch.                   *)
LEMMA ListsBatch ==
  ASSUME NEW s \in Seq(Fifos), NEW bs \in Seq(SUBSET Fifos),
         NEW b, Lists(b, s, bs, {}), NEW new \in SUBSET Fifos, new # {}
  PROVE  Lists(b, s, Append(bs, new), new)
<1> DEFINE n == Len(s)
           N == Len(bs)
           bs2 == Append(bs, new)
<1>1. n \in Nat /\ N \in Nat
  BY LenProperties
<1>2. /\ Len(bs2) = N + 1 /\ bs2[N + 1] = new
      /\ \A m \in 1..N : bs2[m] = bs[m]
  BY AppendProperties
<1>3. b \in [1..n -> 1..N]
  BY DEF Lists
<1> HIDE DEF n, N, bs2
<1>4. \A k \in 1..n : b[k] \in 1..N /\ b[k] \in 1..(N + 1) /\ b[k] # N + 1
  BY <1>1, <1>3
<1>5. b \in [1..n -> 1..(N + 1)]
  BY <1>3, <1>4
<1>6. \A k \in 1..n : s[k] \in bs2[b[k]]
  BY <1>2, <1>4 DEF Lists, n
<1>7. \A m \in 1..(N + 1) : m \in 1..N \/ m = N + 1
  BY <1>1
<1>8. \A m \in 1..(N + 1) : \A i \in bs2[m] :
        \/ \E k \in 1..n : b[k] = m /\ s[k] = i
        \/ m = N + 1 /\ i \in new
  <2>1. \A m \in 1..N : \A i \in bs[m] : \E k \in 1..n : b[k] = m /\ s[k] = i
    BY DEF Lists, n, N
  <2>2. QED
    BY <1>2, <1>7, <2>1
<1>9. \A i \in new : N + 1 > 0 /\ i \in bs2[N + 1]
  BY <1>1, <1>2
<1>10. \A m \in 1..(N + 1) : bs2[m] # {}
  BY <1>2, <1>7 DEF Lists, N
<1>11. /\ \A k, l \in 1..n : k < l => b[k] <= b[l]
       /\ \A k, l \in 1..n : b[k] = b[l] /\ s[k] = s[l] => k = l
  BY DEF Lists, n
<1>12. \A i \in new : \A k \in 1..n : b[k] = N + 1 => s[k] # i
  BY <1>4
<1>13. QED
  BY <1>2, <1>5, <1>6, <1>8, <1>9, <1>10, <1>11, <1>12 DEF Lists, n, bs2

(* The first entry of a FIFO, in a register that has one.                  *)
LEMMA FirstEntry ==
  ASSUME NEW s \in Seq(Fifos), NEW c, \E k \in 1..Len(s) : s[k] = c
  PROVE  \E f \in 1..Len(s) : s[f] = c /\ \A k \in 1..Len(s) : s[k] = c => f <= k
<1> DEFINE H == {k \in 1..Len(s) : s[k] = c}
<1>1. H # {} /\ H \subseteq Nat
  BY LenProperties
<1>2. PICK f \in H : \A k \in H : f <= k
  BY <1>1, MinNat
<1>3. QED
  BY <1>2

(* History: a FIFO that is served leaves the oldest batch it is in, and    *)
(* the batch goes when nothing is left of it.                              *)
LEMMA ServeFirst ==
  ASSUME NEW bs \in Seq(SUBSET Fifos), NEW c, NEW m \in 1..Len(bs),
         c \in bs[m], \A l \in 1..Len(bs) : c \in bs[l] => m <= l
  PROVE  /\ bs[m] = {c} =>
              /\ Serve(bs, c) \in Seq(SUBSET Fifos)
              /\ Len(Serve(bs, c)) = Len(bs) - 1
              /\ \A l \in 1..(Len(bs) - 1) :
                   Serve(bs, c)[l] = IF l < m THEN bs[l] ELSE bs[l + 1]
         /\ bs[m] # {c} => Serve(bs, c) = [bs EXCEPT ![m] = @ \ {c}]
<1> DEFINE N == Len(bs)
           First(k) == c \in bs[k] /\ \A l \in 1..(k - 1) : c \notin bs[l]
           f == CHOOSE k \in DOMAIN bs : First(k)
<1>1. N \in Nat /\ DOMAIN bs = 1..N /\ m \in 1..N
  BY LenProperties
<1>2. First(m)
  BY <1>1
<1>3. \A k \in DOMAIN bs : First(k) => k = m
  <2>1. SUFFICES ASSUME NEW k \in DOMAIN bs, First(k) PROVE k = m
    OBVIOUS
  <2>2. m <= k
    BY <1>1, <2>1
  <2>3. ~ (m \in 1..(k - 1))
    BY <2>1
  <2>4. QED
    BY <1>1, <2>2, <2>3
<1>4. f = m
  BY <1>1, <1>2, <1>3
<1>5. Serve(bs, c) = IF bs[m] = {c}
                     THEN SubSeq(bs, 1, m - 1) \o SubSeq(bs, m + 1, N)
                     ELSE [bs EXCEPT ![m] = @ \ {c}]
  <2>1. \E k \in DOMAIN bs : c \in bs[k]
    BY <1>1
  <2>2. Serve(bs, c) = IF bs[f] = {c}
                       THEN SubSeq(bs, 1, f - 1) \o SubSeq(bs, f + 1, Len(bs))
                       ELSE [bs EXCEPT ![f] = @ \ {c}]
    BY <2>1, Zenon DEF Serve
  <2>3. QED
    BY <1>4, <2>2, Zenon
<1>6. ASSUME bs[m] = {c}
      PROVE  /\ Serve(bs, c) \in Seq(SUBSET Fifos)
             /\ Len(Serve(bs, c)) = N - 1
             /\ \A l \in 1..(N - 1) :
                  Serve(bs, c)[l] = IF l < m THEN bs[l] ELSE bs[l + 1]
  <2> DEFINE left == SubSeq(bs, 1, m - 1)
             right == SubSeq(bs, m + 1, N)
  <2>1. \A l \in 1..N : bs[l] \in SUBSET Fifos
    BY ElementOfSeq
  <2>2. /\ left \in Seq(SUBSET Fifos)
        /\ Len(left) = m - 1
        /\ \A l \in 1..(m - 1) : left[l] = bs[l]
    <3>1. m - 1 \in Int /\ 1 \in Int /\ \A l \in 1..(m - 1) : bs[l] \in SUBSET Fifos
      BY <1>1, <2>1
    <3>2. /\ left \in Seq(SUBSET Fifos)
          /\ Len(left) = IF 1 <= m - 1 THEN (m - 1) - 1 + 1 ELSE 0
          /\ \A l \in 1..((m - 1) - 1 + 1) : left[l] = bs[1 + l - 1]
      BY <3>1, SubSeqProperties
    <3>3. \A l \in 1..(m - 1) : 1 + l - 1 = l
      BY <1>1
    <3>4. (m - 1) - 1 + 1 = m - 1
      BY <1>1
    <3>5. QED
      BY <1>1, <3>2, <3>3, <3>4
  <2>3. /\ right \in Seq(SUBSET Fifos)
        /\ Len(right) = N - m
        /\ \A l \in 1..(N - m) : right[l] = bs[m + l]
    <3>1. m + 1 \in Int /\ N \in Int /\ \A l \in (m + 1)..N : bs[l] \in SUBSET Fifos
      BY <1>1, <2>1
    <3>2. /\ right \in Seq(SUBSET Fifos)
          /\ Len(right) = IF m + 1 <= N THEN N - (m + 1) + 1 ELSE 0
          /\ \A l \in 1..(N - (m + 1) + 1) : right[l] = bs[(m + 1) + l - 1]
      BY <3>1, SubSeqProperties
    <3>3. \A l \in 1..(N - m) : (m + 1) + l - 1 = m + l
      BY <1>1
    <3>4. N - (m + 1) + 1 = N - m
      BY <1>1
    <3>5. Len(right) = N - m
      <4>1. CASE m + 1 <= N
        BY <3>2, <3>4, <4>1
      <4>2. CASE ~ (m + 1 <= N)
        <5>1. N \in Int /\ m \in Int /\ m <= N
          BY <1>1
        <5>2. N = m
          BY <4>2, <5>1
        <5>3. QED
          BY <3>2, <4>2, <5>1, <5>2
      <4>3. QED
        BY <4>1, <4>2
    <3>6. \A l \in 1..(N - m) : right[l] = bs[(m + 1) + l - 1]
      <4>1. TAKE l \in 1..(N - m)
      <4>2. l \in 1..(N - (m + 1) + 1)
        BY <1>1, <3>4
      <4>3. QED
        BY <3>2, <4>2
    <3>7. \A l \in 1..(N - m) : right[l] = bs[m + l]
      BY <3>3, <3>6
    <3>8. QED
      BY <3>2, <3>5, <3>7
  <2> HIDE DEF left, right
  <2>4. Serve(bs, c) = left \o right
    BY <1>5, <1>6 DEF left, right
  <2>5. /\ left \o right \in Seq(SUBSET Fifos)
        /\ Len(left \o right) = Len(left) + Len(right)
        /\ \A l \in 1..(Len(left) + Len(right)) :
             (left \o right)[l] = IF l <= Len(left) THEN left[l] ELSE right[l - Len(left)]
    BY <2>2, <2>3, ConcatProperties
  <2>6. ASSUME NEW l \in 1..(N - 1)
        PROVE  (left \o right)[l] = IF l < m THEN bs[l] ELSE bs[l + 1]
    <3>1. CASE l < m
      <4>1. l \in 1..(m - 1) /\ l <= Len(left) /\ l \in 1..(Len(left) + Len(right))
        BY <1>1, <2>2, <2>3, <3>1
      <4>2. QED
        BY <2>2, <2>5, <3>1, <4>1
    <3>2. CASE ~ (l < m)
      <4>1. /\ ~ (l <= Len(left)) /\ l \in 1..(Len(left) + Len(right))
            /\ l - Len(left) \in 1..(N - m) /\ m + (l - Len(left)) = l + 1
        BY <1>1, <2>2, <2>3, <3>2
      <4>2. QED
        BY <2>3, <2>5, <3>2, <4>1
    <3>3. QED
      BY <3>1, <3>2
  <2>7. Len(left) + Len(right) = N - 1
    BY <1>1, <2>2, <2>3
  <2>8. QED
    BY <2>4, <2>5, <2>6, <2>7
<1>7. QED
  BY <1>5, <1>6

(* A transfer takes the oldest entry of the served FIFO off the register   *)
(* and the FIFO off the oldest batch it is in, and these two belong        *)
(* together.                                                               *)
LEMMA ListsServe ==
  ASSUME NEW s \in Seq(Fifos), NEW bs \in Seq(SUBSET Fifos),
         NEW b, Lists(b, s, bs, {}), NEW c, \E k \in 1..Len(s) : s[k] = c
  PROVE  \E b2 : Lists(b2, UpdateFifo(s, c), Serve(bs, c), {})
<1> DEFINE n == Len(s)
           N == Len(bs)
           t == UpdateFifo(s, c)
<1>1. n \in Nat /\ N \in Nat
  BY LenProperties
<1>2. PICK f \in 1..n : s[f] = c /\ \A k \in 1..n : s[k] = c => f <= k
  BY FirstEntry
<1> DEFINE m == b[f]
           Up(k) == IF f <= k THEN k + 1 ELSE k
<1>3. /\ b \in [1..n -> 1..N]
      /\ \A k, l \in 1..n : k < l => b[k] <= b[l]
      /\ \A k \in 1..n : s[k] \in bs[b[k]]
      /\ \A k, l \in 1..n : b[k] = b[l] /\ s[k] = s[l] => k = l
      /\ \A x \in 1..N : \A i \in bs[x] : \E k \in 1..n : b[k] = x /\ s[k] = i
      /\ \A x \in 1..N : bs[x] # {}
  BY DEF Lists
<1>4. t \in Seq(Fifos) /\ Len(t) = n - 1 /\ \A k \in 1..(n - 1) : t[k] = s[Up(k)]
  <2>1. t = [k \in 1..(n - 1) |->
               IF \E l \in 1..k : s[l] = c THEN s[k + 1] ELSE s[k]]
    BY DEF UpdateFifo
  <2>2. \A k \in 1..(n - 1) : (\E l \in 1..k : s[l] = c) <=> f <= k
    BY <1>1, <1>2
  <2>3. \A k \in 1..(n - 1) : t[k] = s[Up(k)]
    BY <2>1, <2>2
  <2>4. \A k \in 1..(n - 1) : s[k] \in Fifos /\ s[k + 1] \in Fifos
    <3>1. \A k \in 1..n : s[k] \in Fifos
      BY ElementOfSeq
    <3>2. \A k \in 1..(n - 1) : k \in 1..n /\ k + 1 \in 1..n
      BY <1>1
    <3>3. QED
      BY <3>1, <3>2
  <2>5. t \in [1..(n - 1) -> Fifos]
    BY <2>1, <2>4
  <2>6. n - 1 \in Nat
    BY <1>1, <1>2
  <2>7. t \in Seq(Fifos) /\ Len(t) = n - 1
    <3>1. t \in Seq(Fifos)
      BY <2>5, <2>6, SeqDef
    <3>2. DOMAIN t = 1..(n - 1)
      BY <2>5
    <3>3. QED
      BY <2>6, <3>1, <3>2, LenProperties
  <2>8. QED
    BY <2>3, <2>7
<1>5. /\ \A k \in 1..(n - 1) : Up(k) \in 1..n /\ Up(k) # f
      /\ \A k, l \in 1..(n - 1) : k < l => Up(k) < Up(l)
      /\ \A k, l \in 1..(n - 1) : Up(k) = Up(l) => k = l
      /\ \A k \in 1..n : k # f => \E l \in 1..(n - 1) : Up(l) = k
  <2>1. \A k \in 1..(n - 1) : Up(k) \in 1..n /\ Up(k) # f
    BY <1>1, <1>2
  <2>2. \A k, l \in 1..(n - 1) : k < l => Up(k) < Up(l)
    BY <1>1, <1>2
  <2>3. \A k, l \in 1..(n - 1) : Up(k) = Up(l) => k = l
    BY <1>1, <1>2
  <2>4. ASSUME NEW k \in 1..n, k # f PROVE \E l \in 1..(n - 1) : Up(l) = k
    <3>1. CASE k < f
      <4>1. k \in 1..(n - 1) /\ Up(k) = k
        BY <1>1, <1>2, <3>1
      <4>2. QED
        BY <4>1
    <3>2. CASE k > f
      <4>1. k - 1 \in 1..(n - 1) /\ Up(k - 1) = k
        BY <1>1, <1>2, <3>2
      <4>2. QED
        BY <4>1
    <3>3. QED
      BY <1>1, <1>2, <2>4, <3>1, <3>2
  <2>5. QED
    BY <2>1, <2>2, <2>3, <2>4
<1> HIDE DEF t, n, N, Up
<1>6. m \in 1..N /\ c \in bs[m]
  BY <1>2, <1>3
<1>7. \A x \in 1..N : c \in bs[x] => m <= x
  <2>1. SUFFICES ASSUME NEW x \in 1..N, c \in bs[x] PROVE m <= x
    OBVIOUS
  <2>2. PICK k \in 1..n : b[k] = x /\ s[k] = c
    BY <1>3, <2>1
  <2>3. f <= k
    BY <1>2, <2>2
  <2>4. CASE f = k
    BY <1>6, <2>2, <2>4
  <2>5. CASE f < k
    BY <1>3, <2>2, <2>5
  <2>6. QED
    BY <1>1, <1>2, <2>3, <2>4, <2>5
<1>8. /\ bs[m] = {c} =>
           /\ Serve(bs, c) \in Seq(SUBSET Fifos)
           /\ Len(Serve(bs, c)) = N - 1
           /\ \A l \in 1..(N - 1) :
                Serve(bs, c)[l] = IF l < m THEN bs[l] ELSE bs[l + 1]
      /\ bs[m] # {c} => Serve(bs, c) = [bs EXCEPT ![m] = @ \ {c}]
  BY <1>6, <1>7, ServeFirst DEF N
<1>9. \A k \in 1..(n - 1) : ~ (b[Up(k)] = m /\ s[Up(k)] = c)
  BY <1>2, <1>3, <1>5
<1>10. CASE bs[m] # {c}
  <2> DEFINE b2 == [k \in 1..(n - 1) |-> b[Up(k)]]
             bs2 == [bs EXCEPT ![m] = @ \ {c}]
  <2>1. /\ Len(bs2) = N /\ bs2[m] = bs[m] \ {c}
        /\ \A x \in 1..N : x # m => bs2[x] = bs[x]
    <3>1. bs2 \in Seq(SUBSET Fifos) /\ Len(bs2) = N
      <4>1. bs[m] \ {c} \in SUBSET Fifos
        BY <1>6, ElementOfSeq DEF N
      <4>2. QED
        BY <1>6, <4>1, ExceptSeq DEF N
    <3>2. DOMAIN bs = 1..N
      BY LenProperties DEF N
    <3>3. QED
      BY <1>6, <3>1, <3>2
  <2>2. b2 \in [1..(n - 1) -> 1..N]
    BY <1>3, <1>5
  <2>3. \A k \in 1..(n - 1) : b2[k] = b[Up(k)]
    OBVIOUS
  <2> HIDE DEF b2, bs2
  <2>4. \A k, l \in 1..(n - 1) : k < l => b2[k] <= b2[l]
    BY <1>3, <1>5, <2>3
  <2>5. \A k \in 1..(n - 1) : t[k] \in bs2[b2[k]]
    <3>1. SUFFICES ASSUME NEW k \in 1..(n - 1) PROVE t[k] \in bs2[b2[k]]
      OBVIOUS
    <3>2. /\ Up(k) \in 1..n /\ t[k] = s[Up(k)] /\ b2[k] = b[Up(k)]
          /\ ~ (b[Up(k)] = m /\ s[Up(k)] = c)
      BY <1>4, <1>5, <1>9, <2>3
    <3>3. b[Up(k)] \in 1..N /\ s[Up(k)] \in bs[b[Up(k)]]
      BY <1>3, <3>2
    <3>4. QED
      BY <2>1, <3>2, <3>3
  <2>6. \A k, l \in 1..(n - 1) : b2[k] = b2[l] /\ t[k] = t[l] => k = l
    <3>1. SUFFICES ASSUME NEW k \in 1..(n - 1), NEW l \in 1..(n - 1),
                          b2[k] = b2[l], t[k] = t[l]
                   PROVE  k = l
      OBVIOUS
    <3>2. Up(k) \in 1..n /\ Up(l) \in 1..n
      BY <1>5
    <3>3. b[Up(k)] = b[Up(l)] /\ s[Up(k)] = s[Up(l)]
      BY <1>4, <2>3, <3>1
    <3>4. Up(k) = Up(l)
      BY <1>3, <3>2, <3>3
    <3>5. QED
      BY <1>5, <3>4
  <2>7. \A x \in 1..N : \A i \in bs2[x] : \E k \in 1..(n - 1) : b2[k] = x /\ t[k] = i
    <3>1. SUFFICES ASSUME NEW x \in 1..N, NEW i \in bs2[x]
                   PROVE  \E k \in 1..(n - 1) : b2[k] = x /\ t[k] = i
      OBVIOUS
    <3>2. i \in bs[x] /\ ~ (x = m /\ i = c)
      BY <2>1, <3>1
    <3>3. PICK k \in 1..n : b[k] = x /\ s[k] = i
      BY <1>3, <3>2
    <3>4. k # f
      BY <1>2, <3>2, <3>3
    <3>5. PICK l \in 1..(n - 1) : Up(l) = k
      BY <1>5, <3>4
    <3>6. QED
      BY <1>4, <2>3, <3>3, <3>5
  <2>8. \A x \in 1..N : bs2[x] # {}
    <3>1. \E i \in bs[m] : i # c
      BY <1>6, <1>10
    <3>2. bs2[m] # {}
      BY <2>1, <3>1
    <3>3. QED
      BY <1>3, <2>1, <3>2
  <2>9. Lists(b2, t, bs2, {})
    <3>1. Len(t) = n - 1 /\ Len(bs2) = N
      BY <1>4, <2>1
    <3>2. b2 \in [1..Len(t) -> 1..Len(bs2)]
      BY <2>2, <3>1
    <3>3. \A k, l \in 1..Len(t) : k < l => b2[k] <= b2[l]
      BY <2>4, <3>1
    <3>4. \A k \in 1..Len(t) : t[k] \in bs2[b2[k]]
      BY <2>5, <3>1
    <3>5. \A k, l \in 1..Len(t) : b2[k] = b2[l] /\ t[k] = t[l] => k = l
      BY <2>6, <3>1
    <3>6. \A x \in 1..Len(bs2) : \A i \in bs2[x] :
            \E k \in 1..Len(t) : b2[k] = x /\ t[k] = i
      BY <2>7, <3>1
    <3>7. \A x \in 1..Len(bs2) : bs2[x] # {}
      BY <2>8, <3>1
    <3>8. QED
      BY <3>2, <3>3, <3>4, <3>5, <3>6, <3>7, Zenon DEF Lists
  <2>10. Serve(bs, c) = bs2
    BY <1>8, <1>10 DEF bs2
  <2>11. QED
    BY <2>9, <2>10 DEF t
<1>11. CASE bs[m] = {c}
  <2> DEFINE bs2 == Serve(bs, c)
             Down(x) == IF m < x THEN x - 1 ELSE x
             b2 == [k \in 1..(n - 1) |-> Down(b[Up(k)])]
  <2>1. /\ Len(bs2) = N - 1
        /\ \A l \in 1..(N - 1) : bs2[l] = IF l < m THEN bs[l] ELSE bs[l + 1]
    BY <1>8, <1>11
  <2>2. \A k \in 1..(n - 1) : b[Up(k)] \in 1..N /\ b[Up(k)] # m
    <3>1. SUFFICES ASSUME NEW k \in 1..(n - 1) PROVE b[Up(k)] \in 1..N /\ b[Up(k)] # m
      OBVIOUS
    <3>2. Up(k) \in 1..n /\ b[Up(k)] \in 1..N /\ s[Up(k)] \in bs[b[Up(k)]]
      BY <1>3, <1>5
    <3>3. QED
      BY <1>9, <1>11, <3>2
  <2>3. /\ \A x \in 1..N : x # m => Down(x) \in 1..(N - 1) /\ bs2[Down(x)] = bs[x]
        /\ \A x, y \in 1..N : x <= y => Down(x) <= Down(y)
        /\ \A x, y \in 1..N : x # m /\ y # m /\ Down(x) = Down(y) => x = y
        /\ \A l \in 1..(N - 1) : \E x \in 1..N : x # m /\ Down(x) = l
    <3>1. ASSUME NEW x \in 1..N, x # m
          PROVE  Down(x) \in 1..(N - 1) /\ bs2[Down(x)] = bs[x]
      <4>1. CASE m < x
        <5>1. Down(x) = x - 1 /\ x - 1 \in 1..(N - 1) /\ ~ (x - 1 < m) /\ (x - 1) + 1 = x
          BY <1>1, <1>6, <4>1
        <5>2. QED
          BY <2>1, <5>1
      <4>2. CASE x < m
        <5>1. Down(x) = x /\ x \in 1..(N - 1)
          BY <1>1, <1>6, <4>2
        <5>2. QED
          BY <2>1, <4>2, <5>1
      <4>3. QED
        BY <1>1, <1>6, <3>1, <4>1, <4>2
    <3>2. \A x, y \in 1..N : x <= y => Down(x) <= Down(y)
      BY <1>1, <1>6
    <3>3. \A x, y \in 1..N : x # m /\ y # m /\ Down(x) = Down(y) => x = y
      BY <1>1, <1>6
    <3>4. ASSUME NEW l \in 1..(N - 1) PROVE \E x \in 1..N : x # m /\ Down(x) = l
      <4>1. CASE l < m
        <5>1. l \in 1..N /\ l # m /\ Down(l) = l
          BY <1>1, <1>6, <4>1
        <5>2. QED
          BY <5>1
      <4>2. CASE ~ (l < m)
        <5>1. l + 1 \in 1..N /\ l + 1 # m /\ Down(l + 1) = l
          BY <1>1, <1>6, <4>2
        <5>2. QED
          BY <5>1
      <4>3. QED
        BY <4>1, <4>2
    <3>5. QED
      BY <3>1, <3>2, <3>3, <3>4
  <2>4. \A k \in 1..(n - 1) : b2[k] = Down(b[Up(k)])
    OBVIOUS
  <2>5. b2 \in [1..(n - 1) -> 1..(N - 1)]
    BY <2>2, <2>3
  <2> HIDE DEF b2, bs2, Down
  <2>6. \A k, l \in 1..(n - 1) : k < l => b2[k] <= b2[l]
    <3>1. SUFFICES ASSUME NEW k \in 1..(n - 1), NEW l \in 1..(n - 1), k < l
                   PROVE  b2[k] <= b2[l]
      OBVIOUS
    <3>2. b[Up(k)] <= b[Up(l)]
      BY <1>3, <1>5, <3>1
    <3>3. QED
      BY <2>2, <2>3, <2>4, <3>2
  <2>7. \A k \in 1..(n - 1) : t[k] \in bs2[b2[k]]
    <3>1. SUFFICES ASSUME NEW k \in 1..(n - 1) PROVE t[k] \in bs2[b2[k]]
      OBVIOUS
    <3>2. /\ Up(k) \in 1..n /\ t[k] = s[Up(k)] /\ b2[k] = Down(b[Up(k)])
          /\ b[Up(k)] \in 1..N /\ b[Up(k)] # m
      BY <1>4, <1>5, <2>2, <2>4
    <3>3. s[Up(k)] \in bs[b[Up(k)]] /\ bs2[Down(b[Up(k)])] = bs[b[Up(k)]]
      BY <1>3, <2>3, <3>2
    <3>4. QED
      BY <3>2, <3>3
  <2>8. \A k, l \in 1..(n - 1) : b2[k] = b2[l] /\ t[k] = t[l] => k = l
    <3>1. SUFFICES ASSUME NEW k \in 1..(n - 1), NEW l \in 1..(n - 1),
                          b2[k] = b2[l], t[k] = t[l]
                   PROVE  k = l
      OBVIOUS
    <3>2. /\ Up(k) \in 1..n /\ b[Up(k)] \in 1..N /\ b[Up(k)] # m
          /\ Up(l) \in 1..n /\ b[Up(l)] \in 1..N /\ b[Up(l)] # m
      BY <1>5, <2>2
    <3>3. Down(b[Up(k)]) = Down(b[Up(l)]) /\ s[Up(k)] = s[Up(l)]
      BY <1>4, <2>4, <3>1
    <3>4. b[Up(k)] = b[Up(l)]
      BY <2>3, <3>2, <3>3
    <3>5. Up(k) = Up(l)
      BY <1>3, <3>2, <3>3, <3>4
    <3>6. QED
      BY <1>5, <3>5
  <2>9. \A x \in 1..(N - 1) : \A i \in bs2[x] :
          \E k \in 1..(n - 1) : b2[k] = x /\ t[k] = i
    <3>1. SUFFICES ASSUME NEW x \in 1..(N - 1), NEW i \in bs2[x]
                   PROVE  \E k \in 1..(n - 1) : b2[k] = x /\ t[k] = i
      OBVIOUS
    <3>2. PICK y \in 1..N : y # m /\ Down(y) = x
      BY <2>3
    <3>3. i \in bs[y]
      BY <2>3, <3>1, <3>2
    <3>4. PICK k \in 1..n : b[k] = y /\ s[k] = i
      BY <1>3, <3>3
    <3>5. k # f
      BY <3>2, <3>4
    <3>6. PICK l \in 1..(n - 1) : Up(l) = k
      BY <1>5, <3>5
    <3>7. QED
      BY <1>4, <2>4, <3>2, <3>4, <3>6
  <2>10. \A x \in 1..(N - 1) : bs2[x] # {}
    <3>1. TAKE x \in 1..(N - 1)
    <3>2. PICK y \in 1..N : y # m /\ Down(y) = x
      BY <2>3
    <3>3. QED
      BY <1>3, <2>3, <3>2
  <2>11. Lists(b2, t, bs2, {})
    <3>1. Len(t) = n - 1 /\ Len(bs2) = N - 1
      BY <1>4, <2>1
    <3>2. b2 \in [1..Len(t) -> 1..Len(bs2)]
      BY <2>5, <3>1
    <3>3. \A k, l \in 1..Len(t) : k < l => b2[k] <= b2[l]
      BY <2>6, <3>1
    <3>4. \A k \in 1..Len(t) : t[k] \in bs2[b2[k]]
      BY <2>7, <3>1
    <3>5. \A k, l \in 1..Len(t) : b2[k] = b2[l] /\ t[k] = t[l] => k = l
      BY <2>8, <3>1
    <3>6. \A x \in 1..Len(bs2) : \A i \in bs2[x] :
            \E k \in 1..Len(t) : b2[k] = x /\ t[k] = i
      BY <2>9, <3>1
    <3>7. \A x \in 1..Len(bs2) : bs2[x] # {}
      BY <2>10, <3>1
    <3>8. QED
      BY <3>2, <3>3, <3>4, <3>5, <3>6, <3>7, Zenon DEF Lists
  <2>12. QED
    BY <2>11 DEF t, bs2
<1>12. QED
  BY <1>10, <1>11

-----------------------------------------------------------------------------
(* What a step leaves of the order when it changes neither the register    *)
(* nor the batches of an arbiter.                                          *)
LEMMA OrderedKept ==
  ASSUME NEW j \in Outputs, Ordered(j),
         pushs'[j] = pushs[j], batches'[j] = batches[j], pushRun'[j] = pushRun[j]
  PROVE  Ordered(j)'
<1>1. Pending(j)' = Pending(j)
  BY DEF Pending
<1>2. QED
  BY <1>1 DEF Ordered

(* A decision in FIFO mode takes the head of the register, which belongs   *)
(* to the oldest batch: no arrival is pending when an arbiter decides.     *)
LEMMA ArbitrateOldest ==
  ASSUME IInv, OldestInv, NEW j \in Outputs, Arbitrate(j)
  PROVE  OldestInv'
<1>1. PICK m \in Modes, r \in RandomNumbers :
        /\ Decide(j, m, r)
        /\ UNCHANGED <<clock, writers, batches>>
  BY DEF Arbitrate
<1> DEFINE c == Choose(j, m, r)
<1>2. /\ arbRun[j]
      /\ type' = [type EXCEPT ![j] = m]
      /\ choice' = [choice EXCEPT ![j] = c]
      /\ arbPc' = [arbPc EXCEPT ![j] = IF choice'[j] = NoChoice THEN "idle"
                                                                ELSE "computing"]
      /\ UNCHANGED <<pushs, pushRun, batches>>
  BY <1>1 DEF Decide
<1>3. TypeOK
  BY DEF IInv
<1>4. \A k \in Outputs : Ordered(k)'
  BY <1>2, OrderedKept DEF OldestInv
<1>5. ASSUME NEW k \in Outputs, k # j PROVE ServesOldest(k)'
  <2>1. type'[k] = type[k] /\ arbPc'[k] = arbPc[k] /\ choice'[k] = choice[k]
    BY <1>2, <1>3, <1>5 DEF TypeOK, ArbiterTypeOK
  <2>2. QED
    BY <1>2, <2>1 DEF OldestInv, ServesOldest
<1>6. ServesOldest(j)'
  <2>1. /\ type'[j] = m /\ choice'[j] = c
        /\ arbPc'[j] = IF c = NoChoice THEN "idle" ELSE "computing"
    BY <1>2, <1>3 DEF TypeOK, ArbiterTypeOK
  <2>2. SUFFICES ASSUME m = "FIFO", c # NoChoice
                 PROVE  batches[j] # <<>> /\ c \in Head(batches[j])
    BY <1>2, <2>1 DEF ServesOldest
  <2>3. pushs[j] \in Seq(Fifos) /\ batches[j] \in Seq(SUBSET Fifos)
    BY <1>3 DEF TypeOK, ArbiterTypeOK
  <2>4. c = ChooseFifo(pushs[j])
    BY <2>2 DEF Choose
  <2>5. pushs[j] # <<>> /\ c = pushs[j][1]
    BY <2>2, <2>4 DEF ChooseFifo
  <2> DEFINE s == pushs[j]
             bs == batches[j]
  <2>6. Len(s) \in Nat /\ Len(s) > 0 /\ 1 \in 1..Len(s)
    BY <2>3, <2>5, EmptySeq
  <2>7. Pending(j) = {}
    BY <1>2 DEF Pending, IInv, Phases
  <2>8. PICK b : Lists(b, s, bs, {})
    BY <2>7 DEF OldestInv, Ordered
  <2> HIDE DEF s, bs
  <2>9. b[1] \in 1..Len(bs) /\ s[1] \in bs[b[1]]
    BY <2>6, <2>8 DEF Lists
  <2>10. Len(bs) \in Nat /\ 1 \in 1..Len(bs)
    BY <2>3, <2>9, LenProperties DEF bs
  <2>11. PICK i : i \in bs[1]
    BY <2>8, <2>10 DEF Lists
  <2>12. PICK k \in 1..Len(s) : b[k] = 1
    BY <2>8, <2>10, <2>11 DEF Lists
  <2>13. b[1] = 1
    <3>1. CASE k = 1
      BY <2>12, <3>1
    <3>2. CASE 1 < k
      <4>1. b[1] <= b[k]
        BY <2>6, <2>8, <2>12, <3>2 DEF Lists
      <4>2. QED
        BY <2>9, <2>12, <4>1
    <3>3. QED
      BY <2>12, <3>1, <3>2
  <2>14. bs # <<>> /\ Head(bs) = bs[1]
    <3>1. bs # <<>>
      BY <2>3, <2>10, EmptySeq DEF bs
    <3>2. QED
      BY <2>3, <3>1, HeadTailProperties DEF bs
  <2>15. QED
    BY <2>5, <2>9, <2>13, <2>14 DEF s, bs
<1>7. QED
  BY <1>4, <1>5, <1>6 DEF OldestInv

(* pushed_in_fifo() moves a pending arrival to the end of the register.    *)
LEMMA RecordArrivalOldest ==
  ASSUME IInv, OldestInv, NEW j \in Outputs, NEW i \in Fifos, RecordArrival(j, i)
  PROVE  OldestInv'
<1>1. /\ pushRun[j][i]
      /\ pushs' = [pushs EXCEPT ![j] = Append(@, i)]
      /\ pushRun' = [pushRun EXCEPT ![j][i] = FALSE]
      /\ UNCHANGED <<arbPc, type, choice, batches>>
  BY DEF RecordArrival, PushedInFifo
<1>2. TypeOK
  BY DEF IInv
<1>3. \A k \in Outputs : ServesOldest(k)'
  BY <1>1 DEF OldestInv, ServesOldest
<1>4. ASSUME NEW k \in Outputs, k # j PROVE Ordered(k)'
  <2>1. pushs'[k] = pushs[k] /\ pushRun'[k] = pushRun[k]
    BY <1>1, <1>2, <1>4 DEF TypeOK, ArbiterTypeOK
  <2>2. QED
    BY <1>1, <2>1, OrderedKept DEF OldestInv
<1>5. Ordered(j)'
  <2>1. pushs[j] \in Seq(Fifos) /\ batches[j] \in Seq(SUBSET Fifos)
    BY <1>2 DEF TypeOK, ArbiterTypeOK
  <2>2. PICK b : Lists(b, pushs[j], batches[j], Pending(j))
    BY DEF OldestInv, Ordered
  <2>3. i \in Pending(j) \cap Fifos
    BY <1>1 DEF Pending
  <2>4. \E b2 : Lists(b2, Append(pushs[j], i), batches[j], Pending(j) \ {i})
    BY <2>1, <2>2, <2>3, ListsAppend
  <2>5. pushs'[j] = Append(pushs[j], i) /\ batches'[j] = batches[j]
    BY <1>1, <1>2 DEF TypeOK, ArbiterTypeOK
  <2>6. Pending(j)' = Pending(j) \ {i}
    BY <1>1, <1>2 DEF Pending, TypeOK, ArbiterTypeOK
  <2>7. QED
    BY <2>4, <2>5, <2>6 DEF Ordered
<1>6. QED
  BY <1>3, <1>4, <1>5 DEF OldestInv

(* The update phase makes the packets written a new batch, whose arrivals  *)
(* are all pending; none of the batches before has one any more.           *)
LEMMA UpdateOldest ==
  ASSUME IInv, OldestInv, Update
  PROVE  OldestInv'
<1> DEFINE New(k) == {l \in Fifos : fifo[k][l].numWritten > 0}
<1>1. /\ ~ ArbiterRunnable
      /\ pushRun' = [k \in Outputs |-> [l \in Fifos |-> fifo[k][l].numWritten > 0]]
      /\ batches' = [k \in Outputs |->
           IF New(k) = {} THEN batches[k] ELSE Append(batches[k], New(k))]
      /\ UNCHANGED <<arbPc, type, choice, pushs>>
  BY DEF Update, ArbiterUpdate
<1>2. TypeOK
  BY DEF IInv
<1>3. SUFFICES ASSUME NEW j \in Outputs
               PROVE  Ordered(j)' /\ ServesOldest(j)'
  BY DEF OldestInv
<1>4. pushs[j] \in Seq(Fifos) /\ batches[j] \in Seq(SUBSET Fifos)
  BY <1>2 DEF TypeOK, ArbiterTypeOK
<1>5. Pending(j) = {} /\ Pending(j)' = New(j)
  BY <1>1 DEF Pending, ArbiterRunnable
<1>6. PICK b : Lists(b, pushs[j], batches[j], {})
  BY <1>5 DEF OldestInv, Ordered
<1>7. batches'[j] = IF New(j) = {} THEN batches[j] ELSE Append(batches[j], New(j))
  BY <1>1
<1>8. New(j) \in SUBSET Fifos
  OBVIOUS
<1> HIDE DEF New
<1>9. Ordered(j)'
  <2>1. CASE New(j) = {}
    BY <1>1, <1>5, <1>6, <1>7, <2>1 DEF Ordered
  <2>2. CASE New(j) # {}
    <3>1. Lists(b, pushs[j], Append(batches[j], New(j)), New(j))
      BY <1>4, <1>6, <1>8, <2>2, ListsBatch
    <3>2. QED
      BY <1>1, <1>5, <1>7, <2>2, <3>1 DEF Ordered
  <2>3. QED
    BY <2>1, <2>2
<1>10. ServesOldest(j)'
  <2>1. SUFFICES ASSUME batches[j] # <<>>, choice[j] \in Head(batches[j])
                 PROVE  batches'[j] # <<>> /\ choice[j] \in Head(batches'[j])
    BY <1>1 DEF OldestInv, ServesOldest
  <2>2. CASE New(j) = {}
    BY <1>7, <2>1, <2>2
  <2>3. CASE New(j) # {}
    <3> DEFINE bs2 == Append(batches[j], New(j))
    <3>1. /\ Len(batches[j]) \in Nat /\ Len(batches[j]) > 0
          /\ Head(batches[j]) = batches[j][1]
      BY <1>4, <2>1, EmptySeq, HeadTailProperties
    <3>2. /\ bs2 \in Seq(SUBSET Fifos) /\ bs2 # <<>>
          /\ \A k \in 1..Len(batches[j]) : bs2[k] = batches[j][k]
      BY <1>4, <1>8, AppendProperties
    <3>3. Head(bs2) = bs2[1] /\ bs2[1] = batches[j][1]
      BY <3>1, <3>2, HeadTailProperties
    <3>4. QED
      BY <1>7, <2>1, <2>3, <3>1, <3>2, <3>3
  <2>4. QED
    BY <2>2, <2>3
<1>11. QED
  BY <1>9, <1>10

(* A transfer takes the same packet off the register and off the batches,  *)
(* in every mode.                                                          *)
LEMMA DeliverOldest ==
  ASSUME IInv, OldestInv, NEW j \in Outputs, Deliver(j)
  PROVE  OldestInv'
<1> DEFINE c == choice[j]
<1>1. TypeOK
  BY DEF IInv
<1>2. arbRun[j] /\ arbPc[j] = "ready" /\ c \in Fifos /\ NumAvailable(fifo[j][c]) > 0
  BY DEF Deliver, Transfer, IInv, ChoiceWaits
<1>3. /\ arbPc' = [arbPc EXCEPT ![j] = "idle"]
      /\ pushs' = [pushs EXCEPT ![j] = UpdateFifo(@, c)]
      /\ batches' = [batches EXCEPT ![j] = Serve(@, c)]
      /\ UNCHANGED <<type, choice, pushRun>>
  <2>1. ~ (NumAvailable(fifo[j][c]) = 0)
    BY <1>2
  <2>2. QED
    BY <2>1 DEF Deliver, Transfer
<1>4. ASSUME NEW k \in Outputs, k # j PROVE Ordered(k)' /\ ServesOldest(k)'
  <2>1. /\ pushs'[k] = pushs[k] /\ batches'[k] = batches[k] /\ pushRun'[k] = pushRun[k]
        /\ arbPc'[k] = arbPc[k] /\ type'[k] = type[k] /\ choice'[k] = choice[k]
    BY <1>1, <1>3, <1>4 DEF TypeOK, ArbiterTypeOK
  <2>2. QED
    BY <2>1, OrderedKept DEF OldestInv, ServesOldest
<1>5. ServesOldest(j)'
  <2>1. arbPc'[j] = "idle"
    BY <1>1, <1>3 DEF TypeOK, ArbiterTypeOK
  <2>2. QED
    BY <2>1 DEF ServesOldest
<1>6. Ordered(j)'
  <2>1. pushs[j] \in Seq(Fifos) /\ batches[j] \in Seq(SUBSET Fifos)
    BY <1>1 DEF TypeOK, ArbiterTypeOK
  <2>2. Pending(j) = {} /\ Pending(j)' = {}
    BY <1>2, <1>3 DEF Pending, IInv, Phases
  <2>3. PICK b : Lists(b, pushs[j], batches[j], {})
    BY <2>2 DEF OldestInv, Ordered
  <2>4. \E k \in 1..Len(pushs[j]) : pushs[j][k] = c
    <3>1. ~ pushRun[j][c]
      BY <1>2 DEF IInv, Phases
    <3>2. CountOf(pushs[j], c) \in Nat
      BY <2>1, CountType
    <3>3. CountOf(pushs[j], c) > 0
      BY <1>2, <3>1, <3>2 DEF IInv, RegisterMatchesFifos
    <3>4. QED
      BY <2>1, <3>3, CountType
  <2>5. \E b2 : Lists(b2, UpdateFifo(pushs[j], c), Serve(batches[j], c), {})
    BY <2>1, <2>3, <2>4, ListsServe
  <2>6. pushs'[j] = UpdateFifo(pushs[j], c) /\ batches'[j] = Serve(batches[j], c)
    BY <1>1, <1>3 DEF TypeOK, ArbiterTypeOK
  <2>7. QED
    BY <2>2, <2>5, <2>6 DEF Ordered
<1>7. QED
  BY <1>4, <1>5, <1>6 DEF OldestInv

(* Every step keeps the register a list of the batches.                    *)
LEMMA NextOldest == IInv /\ OldestInv /\ [Next]_vars => OldestInv'
<1> SUFFICES ASSUME IInv, OldestInv, [Next]_vars PROVE OldestInv'
  OBVIOUS
<1>1. CASE \E j \in Outputs : Arbitrate(j)
  BY <1>1, ArbitrateOldest
<1>2. CASE \E j \in Outputs : Deliver(j)
  BY <1>2, DeliverOldest
<1>3. CASE \E j \in Outputs, i \in Fifos : RecordArrival(j, i)
  BY <1>3, RecordArrivalOldest
<1>4. CASE Update
  BY <1>4, UpdateOldest
<1>5. CASE \E j \in Outputs : Compute(j)
  <2>1. PICK j \in Outputs : Compute(j)
    BY <1>5
  <2>2. /\ arbPc[j] = "computing" /\ arbPc' = [arbPc EXCEPT ![j] = "ready"]
        /\ UNCHANGED <<type, choice, pushs, pushRun, batches>>
    BY <2>1 DEF Compute, AwaitTransfer
  <2>3. \A k \in Outputs : Ordered(k)'
    BY <2>2, OrderedKept DEF OldestInv
  <2>4. \A k \in Outputs : arbPc'[k] \in {"computing", "ready"}
                           => arbPc[k] \in {"computing", "ready"}
    BY <2>2 DEF IInv, TypeOK, ArbiterTypeOK
  <2>5. QED
    BY <2>2, <2>3, <2>4 DEF OldestInv, ServesOldest
<1>6. CASE \/ \E j \in Outputs, i \in Fifos : RouterWrite(i, j)
           \/ ClockEdge \/ UNCHANGED vars
  <2>1. UNCHANGED <<arbPc, type, choice, pushs, pushRun, batches>>
    BY <1>6 DEF RouterWrite, ClockEdge, ArbiterEdge, vars, arbiterVars
  <2>2. \A k \in Outputs : Ordered(k)'
    BY <2>1, OrderedKept DEF OldestInv
  <2>3. QED
    BY <2>1, <2>2 DEF OldestInv, ServesOldest
<1>7. QED
  BY <1>1, <1>2, <1>3, <1>4, <1>5, <1>6 DEF Next

(* FIFO mode serves a packet of the oldest arrival still waiting, whatever *)
(* other modes have served out of order before (choose_fifo, update_fifo). *)
THEOREM FifoServesOldest == Spec => []OldestFirst
<1>1. Init => OldestInv
  <2>1. SUFFICES ASSUME Init, NEW j \in Outputs PROVE Ordered(j) /\ ServesOldest(j)
    BY DEF OldestInv
  <2>2. pushs[j] = <<>> /\ batches[j] = <<>> /\ arbPc[j] = "idle" /\ Pending(j) = {}
    BY <2>1 DEF Init, ArbiterInit, Pending
  <2>3. Len(<<>>) = 0 /\ 1..0 = {}
    OBVIOUS
  <2>4. Lists(<<>>, <<>>, <<>>, {})
    BY <2>3 DEF Lists
  <2>5. QED
    BY <2>2, <2>4 DEF Ordered, ServesOldest
<1>2. IInv /\ OldestInv /\ [Next]_vars => OldestInv'
  BY NextOldest
<1>3. OldestInv => OldestFirst
  BY DEF OldestInv, ServesOldest, OldestFirst
<1>4. QED
  BY <1>1, <1>2, <1>3, Invariance, PTL DEF Spec

=============================================================================

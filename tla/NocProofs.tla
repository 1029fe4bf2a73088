------------------------------ MODULE NocProofs ------------------------------
(***************************************************************************)
(* Theorems about the simulated network, for every number of inputs and    *)
(* outputs, every depth of the FIFOs and any modes: the four-phase         *)
(* handshake is kept, and no packet is lost, repeated, misrouted or        *)
(* overtaken.                                                              *)
(***************************************************************************)
EXTENDS Noc, OperatorProofs

-----------------------------------------------------------------------------
(* The wires of the handshake.  A Boolean signal has four states; the      *)
(* proofs use them by name.                                                *)

Low     == [cur |-> FALSE, new |-> FALSE]
Rising  == [cur |-> FALSE, new |-> TRUE]
High    == [cur |-> TRUE, new |-> TRUE]
Falling == [cur |-> TRUE, new |-> FALSE]

(* What a write and an update make of a signal.                            *)
LEMMA SignalFacts ==
  ASSUME NEW a, NEW b, NEW v
  PROVE  /\ SignalWrite([cur |-> a, new |-> b], v) = [cur |-> a, new |-> v]
         /\ SignalUpdate([cur |-> a, new |-> b]) = [cur |-> b, new |-> b]
BY DEF SignalWrite, SignalUpdate

(* The course of a wire.                                                   *)
LEMMA WireFacts ==
  /\ InitSignal(FALSE) = Low
  /\ SignalWrite(Low, TRUE) = Rising /\ SignalWrite(High, FALSE) = Falling
  /\ SignalUpdate(Low) = Low /\ SignalUpdate(Rising) = High
  /\ SignalUpdate(High) = High /\ SignalUpdate(Falling) = Low
  /\ ~Rises(Low) /\ Rises(Rising) /\ ~Rises(High) /\ ~Rises(Falling)
  /\ ~Falls(Low) /\ ~Falls(Rising) /\ ~Falls(High) /\ Falls(Falling)
  /\ ~SignalChanged(Low) /\ SignalChanged(Rising)
  /\ ~SignalChanged(High) /\ SignalChanged(Falling)
  /\ ~Low.cur /\ High.cur
  /\ Low \in Signal(BOOLEAN) /\ Rising \in Signal(BOOLEAN)
  /\ High \in Signal(BOOLEAN) /\ Falling \in Signal(BOOLEAN)
<1> USE DEF Low, Rising, High, Falling
<1>1. InitSignal(FALSE) = Low
  BY DEF InitSignal
<1>2. SignalWrite(Low, TRUE) = Rising /\ SignalWrite(High, FALSE) = Falling
  BY SignalFacts, Zenon
<1>3. /\ SignalUpdate(Low) = Low /\ SignalUpdate(Rising) = High
      /\ SignalUpdate(High) = High /\ SignalUpdate(Falling) = Low
  BY SignalFacts, Zenon
<1>4. /\ ~Rises(Low) /\ Rises(Rising) /\ ~Rises(High) /\ ~Rises(Falling)
      /\ ~Falls(Low) /\ ~Falls(Rising) /\ ~Falls(High) /\ Falls(Falling)
  BY DEF Rises, Falls
<1>5. /\ ~SignalChanged(Low) /\ SignalChanged(Rising)
      /\ ~SignalChanged(High) /\ SignalChanged(Falling)
  BY DEF SignalChanged
<1>6. /\ Low \in Signal(BOOLEAN) /\ Rising \in Signal(BOOLEAN)
      /\ High \in Signal(BOOLEAN) /\ Falling \in Signal(BOOLEAN)
  BY DEF Signal
<1>7. ~Low.cur /\ High.cur
  OBVIOUS
<1>8. QED
  BY <1>1, <1>2, <1>3, <1>4, <1>5, <1>6, <1>7

(* Where the generator, the router and the two wires are together.         *)
At(i, g, r, a, k) == genPc[i] = g /\ rtPc[i] = r /\ activated[i] = a /\ ack[i] = k

(* The course of a handshake, one line per step.                           *)
Handshake(i) ==
  \/ At(i, "idle", "idle", Low, Low) /\ ~rtRun[i]
  \/ At(i, "offer", "idle", Low, Low) /\ ~rtRun[i]
  \/ At(i, "awaitAck", "idle", Rising, Low) /\ ~rtRun[i] /\ ~genRun[i]
  \/ At(i, "awaitAck", "idle", High, Low) /\ rtRun[i] /\ ~genRun[i]
  \/ At(i, "awaitAck", "sync", High, Low) /\ ~genRun[i]
  \/ At(i, "awaitAck", "full", High, Low) /\ ~genRun[i]
  \/ At(i, "awaitAck", "awaitRelease", High, Rising) /\ ~rtRun[i] /\ ~genRun[i]
  \/ At(i, "awaitAck", "awaitRelease", High, High) /\ ~rtRun[i] /\ genRun[i]
  \/ At(i, "release", "awaitRelease", High, High) /\ ~rtRun[i]
  \/ At(i, "awaitEnd", "awaitRelease", Falling, High) /\ ~rtRun[i] /\ ~genRun[i]
  \/ At(i, "awaitEnd", "awaitRelease", Low, High) /\ rtRun[i] /\ ~genRun[i]
  \/ At(i, "awaitEnd", "finish", Low, High) /\ ~genRun[i]
  \/ At(i, "awaitEnd", "idle", Low, Falling) /\ ~rtRun[i] /\ ~genRun[i]
  \/ At(i, "awaitEnd", "idle", Low, Low) /\ ~rtRun[i] /\ genRun[i]

(* The packet of a handshake stays on the wire until it is stored.         *)
Held(i) ==
  /\ SignalChanged(input[i]) => genPc[i] = "offer" /\ ~genRun[i]
  /\ genPc[i] \in {"offer", "awaitAck"} => input[i].new \in Packets
  /\ rtPc[i] = "full" => rtPacket[i] = input[i].cur

(* The arbiters' part: see ArbiterProofs for what they do beyond it.       *)
FifosBalanced == \A j \in Outputs, i \in Fifos : Balanced(fifo[j][i], Depth)

RegistersCover == \A j \in Outputs : Covers(lru[j])

ChoiceIsFifo == \A j \in Outputs : arbPc[j] \in {"computing", "ready"} => choice[j] \in Fifos

IInv ==
  /\ TypeOK
  /\ FifosBalanced
  /\ RegistersCover
  /\ ChoiceIsFifo
  /\ \A i \in Inputs : Handshake(i) /\ Held(i)

-----------------------------------------------------------------------------
LEMMA NetworkFacts ==
  /\ NbFifos \in Nat \ {0} /\ Depth \in Nat
  /\ Inputs = Fifos /\ Outputs = Fifos /\ NoChoice \notin Fifos
  /\ \A p \in Packets : p.address \in Outputs
BY NbFifosAssumption, DepthAssumption, SquareAssumption, AddressAssumption
DEF Fifos, NoChoice

LEMMA InitIInv ==
  Init => IInv
<1> SUFFICES ASSUME Init PROVE IInv
  OBVIOUS
<1>1. /\ EmptyFifo \in Fifo(Depth, Packets) /\ Balanced(EmptyFifo, Depth)
  BY NetworkFacts, EmptyFifoBalanced
<1>2. \A j \in Outputs, i \in Fifos : fifo[j][i] = EmptyFifo
  BY DEF Init, ArbiterInit
<1>3. ArbiterTypeOK
  <2>1. InitLru \in [Fifos -> Fifos] /\ InitLast \in Fifos
    BY NbFifosAssumption DEF InitLru, InitLast, Fifos
  <2>2. InitSignal(NoPacket) \in Signal(Packets \cup {NoPacket})
    BY DEF InitSignal, Signal
  <2>3. <<>> \in Seq(Fifos)
    BY EmptySeq
  <2>4. QED
    BY <1>1, <2>1, <2>2, <2>3 DEF Init, ArbiterInit, ArbiterTypeOK, ArbiterModes, ChoiceValues
<1>4. LinkTypeOK(Packets \cup {NoPacket})
  <2>1. InitSignal(NoPacket) \in Signal(Packets \cup {NoPacket})
    BY DEF InitSignal, Signal
  <2>2. InitSignal(FALSE) \in Signal(BOOLEAN)
    BY WireFacts
  <2>3. QED
    BY <2>1, <2>2 DEF Init, LinkInit, LinkTypeOK
<1>5. RouterTypeOK /\ GeneratorTypeOK /\ clock \in {"pos", "neg"}
  BY DEF Init, RouterInit, GeneratorInit, RouterTypeOK, GeneratorTypeOK
<1>6. TypeOK
  BY <1>3, <1>4, <1>5 DEF TypeOK
<1>7. FifosBalanced
  BY <1>1, <1>2 DEF FifosBalanced
<1>8. RegistersCover /\ ChoiceIsFifo
  BY DEF Init, ArbiterInit, RegistersCover, ChoiceIsFifo, Covers, InitLru
<1>9. ASSUME NEW i \in Inputs PROVE Handshake(i) /\ Held(i)
  <2>1. At(i, "idle", "idle", Low, Low) /\ ~rtRun[i]
    BY WireFacts DEF Init, LinkInit, RouterInit, GeneratorInit, At
  <2>2. ~SignalChanged(input[i])
    BY DEF Init, LinkInit, InitSignal, SignalChanged
  <2>3. QED
    BY <2>1, <2>2 DEF Handshake, Held, At
<1>10. QED
  BY <1>6, <1>7, <1>8, <1>9 DEF IInv

-----------------------------------------------------------------------------
(* The arbiters.                                                           *)

(* Whatever the mode, a choice is a FIFO or none.                          *)
LEMMA ChoiceType ==
  ASSUME IInv, NEW j \in Outputs, NEW m \in Modes, NEW r \in RandomNumbers
  PROVE  Choose(j, m, r) \in Fifos \cup {NoChoice}
<1>1. Avail(j) \subseteq Fifos
  BY DEF Avail
<1>2. pushs[j] \in Seq(Fifos) /\ last[j] \in Fifos
  BY DEF IInv, TypeOK, ArbiterTypeOK
<1>3. CASE m = "RAND"
  <2>1. r \in Nat
    BY RandomAssumption
  <2>2. Choose(j, m, r) = ChooseRand(r, Avail(j))
    BY <1>3 DEF Choose
  <2>3. CASE Avail(j) = {}
    BY <2>2, <2>3 DEF ChooseRand
  <2>4. CASE Avail(j) # {}
    BY <1>1, <2>1, <2>2, <2>4, ChooseRandAvailable
  <2>5. QED
    BY <2>3, <2>4
<1>4. CASE m = "LRU"
  <2>1. Choose(j, m, r) = ChooseLru(lru[j], Avail(j))
    BY <1>4 DEF Choose
  <2>2. CASE Avail(j) = {}
    BY <2>1, <2>2 DEF ChooseLru
  <2>3. CASE Avail(j) # {}
    <3>1. lru[j] \in [Fifos -> Fifos] /\ Covers(lru[j])
      BY DEF IInv, RegistersCover, TypeOK, ArbiterTypeOK
    <3>2. ChooseLru(lru[j], Avail(j)) \in Avail(j)
      BY <1>1, <2>3, <3>1, ChooseLruFirst
    <3>3. QED
      BY <1>1, <2>1, <3>2
  <2>4. QED
    BY <2>2, <2>3
<1>5. CASE m = "FIFO"
  <2>1. Choose(j, m, r) = ChooseFifo(pushs[j])
    BY <1>5 DEF Choose
  <2>2. CASE pushs[j] = <<>>
    BY <2>1, <2>2 DEF ChooseFifo
  <2>3. CASE pushs[j] # <<>>
    <3>1. Len(pushs[j]) \in Nat /\ Len(pushs[j]) > 0
      BY <1>2, <2>3, EmptySeq
    <3>2. pushs[j][1] \in Fifos
      BY <1>2, <3>1, ElementOfSeq
    <3>3. QED
      BY <2>1, <2>3, <3>2 DEF ChooseFifo
  <2>4. QED
    BY <2>2, <2>3
<1>6. CASE m = "FIXED"
  BY <1>1, <1>6, ChooseFixedAvailable DEF Choose, ChooseFixed
<1>7. CASE m = "ROUNDROBIN"
  BY <1>1, <1>2, <1>7, ChooseRoundRobinAvailable DEF Choose, ChooseRoundRobin
<1>8. QED
  BY <1>3, <1>4, <1>5, <1>6, <1>7, ModesAssumption DEF ArbiterModes

(* update_fifo() gives a register of FIFO numbers.                         *)
LEMMA UpdateFifoType ==
  ASSUME NEW s \in Seq(Fifos), NEW c
  PROVE  UpdateFifo(s, c) \in Seq(Fifos)
<1> DEFINE n == Len(s)
<1>1. n \in Nat /\ \A k \in 1..n : s[k] \in Fifos
  BY LenProperties, ElementOfSeq
<1>2. CASE n = 0
  <2>1. 1..(n - 1) = {}
    BY <1>2
  <2>2. UpdateFifo(s, c) = <<>>
    BY <2>1 DEF UpdateFifo
  <2>3. QED
    BY <2>2, EmptySeq
<1>3. CASE n # 0
  <2>1. n - 1 \in Nat /\ \A k \in 1..(n - 1) : k \in 1..n /\ k + 1 \in 1..n
    BY <1>1, <1>3
  <2>2. UpdateFifo(s, c) \in [1..(n - 1) -> Fifos]
    BY <1>1, <2>1 DEF UpdateFifo
  <2>3. QED
    BY <2>1, <2>2, SeqDef
<1>4. QED
  BY <1>2, <1>3

(* What an arbiter keeps.                                                  *)
ArbiterPart ==
  ArbiterTypeOK /\ FifosBalanced /\ RegistersCover /\ ChoiceIsFifo

LEMMA DecidePart ==
  ASSUME IInv, NEW j \in Outputs, NEW m \in Modes, NEW r \in RandomNumbers, Decide(j, m, r)
  PROVE  ArbiterPart'
<1> DEFINE c == Choose(j, m, r)
<1>1. /\ type' = [type EXCEPT ![j] = m]
      /\ choice' = [choice EXCEPT ![j] = c]
      /\ arbPc' = [arbPc EXCEPT ![j] = IF choice'[j] = NoChoice THEN "idle" ELSE "computing"]
      /\ arbRun' = [arbRun EXCEPT ![j] = FALSE]
      /\ UNCHANGED <<fifo, lru, pushs, last, pushRun, output>>
  BY DEF Decide
<1>2. c \in Fifos \cup {NoChoice} /\ m \in ArbiterModes
  BY ChoiceType, ModesAssumption
<1> HIDE DEF c
<1>3. ArbiterTypeOK
  BY DEF IInv, TypeOK
<1>4. choice'[j] = c
  BY <1>1, <1>3 DEF ArbiterTypeOK
<1>5. ArbiterTypeOK'
  BY <1>1, <1>2, <1>3 DEF ArbiterTypeOK, ChoiceValues
<1>6. ChoiceIsFifo'
  <2>1. ASSUME NEW k \in Outputs, arbPc'[k] \in {"computing", "ready"}
        PROVE  choice'[k] \in Fifos
    <3>1. CASE k = j
      BY <1>1, <1>2, <1>3, <1>4, <2>1, <3>1 DEF ArbiterTypeOK
    <3>2. CASE k # j
      BY <1>1, <1>3, <2>1, <3>2 DEF IInv, ChoiceIsFifo, ArbiterTypeOK
    <3>3. QED
      BY <3>1, <3>2
  <2>2. QED
    BY <2>1 DEF ChoiceIsFifo
<1>7. FifosBalanced' /\ RegistersCover'
  BY <1>1 DEF IInv, FifosBalanced, RegistersCover, Covers
<1>8. QED
  BY <1>5, <1>6, <1>7 DEF ArbiterPart

LEMMA AwaitPart ==
  ASSUME IInv, NEW j \in Outputs, AwaitTransfer(j)
  PROVE  ArbiterPart'
<1>1. /\ arbPc[j] = "computing"
      /\ arbPc' = [arbPc EXCEPT ![j] = "ready"]
      /\ arbRun' = [arbRun EXCEPT ![j] = FALSE]
      /\ UNCHANGED <<fifo, type, choice, lru, pushs, last, pushRun, output>>
  BY DEF AwaitTransfer
<1>2. ArbiterTypeOK
  BY DEF IInv, TypeOK
<1>3. ArbiterTypeOK'
  BY <1>1, <1>2 DEF ArbiterTypeOK
<1>4. ChoiceIsFifo'
  BY <1>1, <1>2 DEF IInv, ChoiceIsFifo, ArbiterTypeOK
<1>5. FifosBalanced' /\ RegistersCover'
  BY <1>1 DEF IInv, FifosBalanced, RegistersCover, Covers
<1>6. QED
  BY <1>3, <1>4, <1>5 DEF ArbiterPart

LEMMA PushedPart ==
  ASSUME IInv, NEW j \in Outputs, NEW i \in Fifos, PushedInFifo(j, i)
  PROVE  ArbiterPart'
<1>1. /\ pushs' = [pushs EXCEPT ![j] = Append(@, i)]
      /\ pushRun' = [pushRun EXCEPT ![j][i] = FALSE]
      /\ UNCHANGED <<fifo, arbPc, arbRun, type, choice, lru, last, output>>
  BY DEF PushedInFifo
<1>2. ArbiterTypeOK
  BY DEF IInv, TypeOK
<1>3. Append(pushs[j], i) \in Seq(Fifos)
  BY <1>2, AppendProperties DEF ArbiterTypeOK
<1>4. ArbiterTypeOK'
  BY <1>1, <1>2, <1>3 DEF ArbiterTypeOK
<1>5. FifosBalanced' /\ RegistersCover' /\ ChoiceIsFifo'
  BY <1>1 DEF IInv, FifosBalanced, RegistersCover, Covers, ChoiceIsFifo
<1>6. QED
  BY <1>4, <1>5 DEF ArbiterPart

(* A transfer serves a FIFO the register knows; a transfer from an empty   *)
(* FIFO blocks the arbiter and changes nothing else.                       *)
LEMMA TransferPart ==
  ASSUME IInv, NEW j \in Outputs, Transfer(j)
  PROVE  /\ ArbiterPart'
         /\ \/ UNCHANGED <<fifo, output>>
            \/ /\ choice[j] \in Fifos
               /\ NumAvailable(fifo[j][choice[j]]) > 0
               /\ fifo' = [fifo EXCEPT ![j][choice[j]] = FifoRead(@)]
               /\ output' = [output EXCEPT ![j] =
                               SignalWrite(@, Head(fifo[j][choice[j]].buf))]
<1> DEFINE c == choice[j]
           q == fifo[j][c]
<1>1. ArbiterTypeOK
  BY DEF IInv, TypeOK
<1>2. c \in Fifos
  BY DEF Transfer, IInv, ChoiceIsFifo
<1>3. CASE NumAvailable(q) = 0
  <2>1. /\ arbPc' = [arbPc EXCEPT ![j] = "blocked"]
        /\ arbRun' = [arbRun EXCEPT ![j] = FALSE]
        /\ UNCHANGED <<fifo, type, choice, lru, pushs, last, pushRun, output>>
    BY <1>3 DEF Transfer
  <2>2. ArbiterTypeOK'
    BY <1>1, <2>1 DEF ArbiterTypeOK
  <2>3. ChoiceIsFifo'
    BY <1>1, <2>1 DEF IInv, ChoiceIsFifo, ArbiterTypeOK
  <2>4. FifosBalanced' /\ RegistersCover'
    BY <2>1 DEF IInv, FifosBalanced, RegistersCover, Covers
  <2>5. QED
    BY <2>1, <2>2, <2>3, <2>4 DEF ArbiterPart
<1>4. CASE ~ (NumAvailable(q) = 0)
  <2>1. /\ arbPc' = [arbPc EXCEPT ![j] = "idle"]
        /\ arbRun' = [arbRun EXCEPT ![j] = FALSE]
        /\ fifo' = [fifo EXCEPT ![j][c] = FifoRead(@)]
        /\ output' = [output EXCEPT ![j] = SignalWrite(@, Head(q.buf))]
        /\ lru' = [lru EXCEPT ![j] = UpdateLru(@, c)]
        /\ pushs' = [pushs EXCEPT ![j] = UpdateFifo(@, c)]
        /\ last' = [last EXCEPT ![j] = c]
        /\ UNCHANGED <<type, choice, pushRun>>
    BY <1>4 DEF Transfer
  <2>2. q \in Fifo(Depth, Packets) /\ Balanced(q, Depth)
    BY <1>1, <1>2 DEF IInv, FifosBalanced, ArbiterTypeOK
  <2>3. NumAvailable(q) > 0
    BY <1>4, <2>2 DEF Fifo, Balanced, NumAvailable
  <2>4. /\ FifoRead(q) \in Fifo(Depth, Packets) /\ Balanced(FifoRead(q), Depth)
        /\ Head(q.buf) \in Packets
    BY <2>2, <2>3, NetworkFacts, FifoReadBalanced
  <2>5. lru[j] \in [Fifos -> Fifos] /\ Covers(lru[j])
    BY <1>1 DEF IInv, RegistersCover, ArbiterTypeOK
  <2>6. UpdateLru(lru[j], c) \in [Fifos -> Fifos] /\ Covers(UpdateLru(lru[j], c))
    BY <1>2, <2>5, UpdateLruCovers
  <2>7. UpdateFifo(pushs[j], c) \in Seq(Fifos)
    BY <1>1, UpdateFifoType DEF ArbiterTypeOK
  <2>8. SignalWrite(output[j], Head(q.buf)) \in Signal(Packets \cup {NoPacket})
    <3>1. output[j] \in Signal(Packets \cup {NoPacket})
      BY <1>1 DEF ArbiterTypeOK
    <3>2. Head(q.buf) \in Packets \cup {NoPacket}
      BY <2>4
    <3>3. QED
      BY <3>1, <3>2 DEF SignalWrite, Signal
  <2>9. ArbiterTypeOK'
    <3>1. fifo' \in [Outputs -> [Fifos -> Fifo(Depth, Packets)]]
      BY <1>1, <1>2, <2>1, <2>4 DEF ArbiterTypeOK
    <3>2. /\ arbPc' \in [Outputs -> {"idle", "computing", "ready", "blocked"}]
          /\ arbRun' \in [Outputs -> BOOLEAN]
          /\ last' \in [Outputs -> Fifos]
      BY <1>1, <1>2, <2>1 DEF ArbiterTypeOK
    <3>3. lru' \in [Outputs -> [Fifos -> Fifos]]
      BY <1>1, <2>1, <2>6 DEF ArbiterTypeOK
    <3>4. pushs' \in [Outputs -> Seq(Fifos)]
      BY <1>1, <2>1, <2>7 DEF ArbiterTypeOK
    <3>5. output' \in [Outputs -> Signal(Packets \cup {NoPacket})]
      BY <1>1, <2>1, <2>8 DEF ArbiterTypeOK
    <3>6. QED
      BY <1>1, <2>1, <3>1, <3>2, <3>3, <3>4, <3>5 DEF ArbiterTypeOK
  <2>10. FifosBalanced'
    <3>1. \A k \in Outputs, l \in Fifos :
            fifo'[k][l] = IF k = j /\ l = c THEN FifoRead(q) ELSE fifo[k][l]
      BY <1>1, <1>2, <2>1 DEF ArbiterTypeOK
    <3>2. QED
      BY <2>4, <3>1 DEF IInv, FifosBalanced
  <2>11. RegistersCover'
    <3>1. \A k \in Outputs : lru'[k] = IF k = j THEN UpdateLru(lru[j], c) ELSE lru[k]
      BY <1>1, <2>1 DEF ArbiterTypeOK
    <3>2. \A k \in Outputs : Covers(lru'[k])
      BY <2>6, <3>1 DEF IInv, RegistersCover
    <3>3. QED
      BY <3>2 DEF RegistersCover
  <2>12. ChoiceIsFifo'
    <3>1. arbPc'[j] = "idle" /\ \A k \in Outputs : k # j => arbPc'[k] = arbPc[k]
      BY <1>1, <2>1 DEF ArbiterTypeOK
    <3>2. QED
      BY <2>1, <3>1 DEF IInv, ChoiceIsFifo
  <2>13. QED
    BY <1>2, <2>1, <2>3, <2>9, <2>10, <2>11, <2>12 DEF ArbiterPart
<1>5. QED
  BY <1>3, <1>4

(* An arbiter touches no wire.                                             *)
LEMMA ArbiterStepIInv ==
  ASSUME IInv, NEW j \in Outputs, ArbiterStep(j)
  PROVE  IInv'
<1>1. ArbiterPart'
  BY DecidePart, AwaitPart, TransferPart, PushedPart DEF ArbiterStep
<1>2. UNCHANGED <<input, activated, ack, rtPc, rtRun, rtPacket, genPc, genRun, clock>>
  BY DEF ArbiterStep, linkVars, routerVars, generatorVars
<1>3. /\ LinkTypeOK(Packets \cup {NoPacket})' /\ RouterTypeOK' /\ GeneratorTypeOK'
      /\ (clock \in {"pos", "neg"})'
  BY <1>2 DEF IInv, TypeOK, LinkTypeOK, RouterTypeOK, GeneratorTypeOK
<1>4. \A i \in Inputs : Handshake(i)' /\ Held(i)'
  BY <1>2 DEF IInv, Handshake, At, Held
<1>5. QED
  BY <1>1, <1>3, <1>4 DEF IInv, ArbiterPart, TypeOK

-----------------------------------------------------------------------------
(* The routers and the generators.                                         *)

(* Nothing on the wires of input k changes.                                *)
Untouched(k) ==
  /\ genPc'[k] = genPc[k] /\ genRun'[k] = genRun[k]
  /\ rtPc'[k] = rtPc[k] /\ rtRun'[k] = rtRun[k] /\ rtPacket'[k] = rtPacket[k]
  /\ input'[k] = input[k] /\ activated'[k] = activated[k] /\ ack'[k] = ack[k]

(* A step at one input concerns that input's handshake only.               *)
LEMMA LocalStep ==
  ASSUME IInv, NEW i \in Inputs, \A k \in Inputs : k # i => Untouched(k),
         Handshake(i)', Held(i)'
  PROVE  \A k \in Inputs : Handshake(k)' /\ Held(k)'
<1> SUFFICES ASSUME NEW k \in Inputs, k # i PROVE Handshake(k)' /\ Held(k)'
  OBVIOUS
<1>1. Untouched(k) /\ Handshake(k) /\ Held(k)
  BY DEF IInv
<1>2. Handshake(k)'
  BY <1>1 DEF Untouched, Handshake, At
<1>3. Held(k)'
  BY <1>1 DEF Untouched, Held
<1>4. QED
  BY <1>2, <1>3

(* Nothing at the arbiters changes.                                        *)
LEMMA ArbiterStill ==
  ASSUME IInv, UNCHANGED <<fifo, arbiterVars>>
  PROVE  ArbiterPart'
<1>1. UNCHANGED <<fifo, arbPc, arbRun, type, choice, lru, pushs, last, pushRun, output>>
  BY DEF arbiterVars
<1>2. ArbiterTypeOK'
  BY <1>1 DEF IInv, TypeOK, ArbiterTypeOK
<1>3. FifosBalanced' /\ RegistersCover' /\ ChoiceIsFifo'
  BY <1>1 DEF IInv, FifosBalanced, RegistersCover, Covers, ChoiceIsFifo
<1>4. QED
  BY <1>2, <1>3 DEF ArbiterPart

(* The types of the wires and of the two threads at an input.              *)
LEMMA WireTypes ==
  ASSUME IInv, NEW i \in Inputs
  PROVE  /\ input[i] \in Signal(Packets \cup {NoPacket})
         /\ activated[i] \in Signal(BOOLEAN) /\ ack[i] \in Signal(BOOLEAN)
         /\ rtPacket[i] \in Packets \cup {NoPacket}
BY DEF IInv, TypeOK, LinkTypeOK, RouterTypeOK

(* emit_random_package() and the loop around it.                           *)
LEMMA GeneratorStepIInv ==
  ASSUME IInv, NEW i \in Inputs, GeneratorStep(i)
  PROVE  IInv'
<1>1. UNCHANGED <<fifo, arbiterVars, rtPc, rtRun, rtPacket, clock>>
  BY DEF GeneratorStep, routerVars
<1>2. /\ genRun[i] /\ genRun' = [genRun EXCEPT ![i] = FALSE]
      /\ \E to \in {"idle", "offer", "awaitAck", "release", "awaitEnd"} :
           genPc' = [genPc EXCEPT ![i] = to]
  BY DEF GeneratorStep, Rest, Emit, Offer, SeeAck, Release, SeeEnd, GenStep
<1>3. TypeOK /\ Handshake(i) /\ Held(i)
  BY DEF IInv
<1>4. ~genRun'[i] /\ \A k \in Inputs : k # i =>
                       genPc'[k] = genPc[k] /\ genRun'[k] = genRun[k]
  BY <1>2, <1>3 DEF TypeOK, GeneratorTypeOK
<1>5. RouterTypeOK' /\ GeneratorTypeOK' /\ (clock \in {"pos", "neg"})'
  BY <1>1, <1>2, <1>3 DEF TypeOK, RouterTypeOK, GeneratorTypeOK
<1>6. /\ LinkTypeOK(Packets \cup {NoPacket})'
      /\ Handshake(i)' /\ Held(i)'
      /\ \A k \in Inputs : k # i => /\ input'[k] = input[k]
                                    /\ activated'[k] = activated[k]
                                    /\ ack'[k] = ack[k]
  <2>1. CASE Rest(i) \/ SeeAck(i) \/ SeeEnd(i)
    <3>1. UNCHANGED <<input, activated, ack>>
      BY <2>1 DEF Rest, SeeAck, SeeEnd, linkVars
    <3>2. LinkTypeOK(Packets \cup {NoPacket})'
      BY <1>3, <3>1 DEF TypeOK, LinkTypeOK
    <3>3. CASE Rest(i)
      <4>1. genPc[i] = "idle" /\ genPc'[i] = "idle"
        BY <1>3, <3>3 DEF Rest, GenStep, TypeOK, GeneratorTypeOK
      <4>2. At(i, "idle", "idle", Low, Low) /\ ~rtRun[i]
        BY <1>3, <4>1, <1>2 DEF Handshake, At
      <4>3. At(i, "idle", "idle", Low, Low)' /\ ~rtRun'[i]
        BY <1>1, <3>1, <4>1, <4>2 DEF At
      <4>4. QED
        BY <1>3, <1>1, <3>1, <3>2, <4>1, <4>3 DEF Handshake, Held, At
    <3>4. CASE SeeAck(i)
      <4>1. genPc[i] = "awaitAck" /\ genPc'[i] = "release"
        BY <1>3, <3>4 DEF SeeAck, GenStep, TypeOK, GeneratorTypeOK
      <4>2. At(i, "awaitAck", "awaitRelease", High, High) /\ ~rtRun[i]
        BY <1>3, <4>1, <1>2 DEF Handshake, At
      <4>3. At(i, "release", "awaitRelease", High, High)' /\ ~rtRun'[i]
        BY <1>1, <3>1, <4>1, <4>2 DEF At
      <4>4. QED
        BY <1>3, <1>1, <3>1, <3>2, <4>1, <4>3 DEF Handshake, Held, At
    <3>5. CASE SeeEnd(i)
      <4>1. genPc[i] = "awaitEnd" /\ genPc'[i] = "idle"
        BY <1>3, <3>5 DEF SeeEnd, GenStep, TypeOK, GeneratorTypeOK
      <4>2. At(i, "awaitEnd", "idle", Low, Low) /\ ~rtRun[i]
        BY <1>3, <4>1, <1>2 DEF Handshake, At
      <4>3. At(i, "idle", "idle", Low, Low)' /\ ~rtRun'[i]
        BY <1>1, <3>1, <4>1, <4>2 DEF At
      <4>4. QED
        BY <1>3, <1>1, <3>1, <3>2, <4>1, <4>3 DEF Handshake, Held, At
    <3>6. QED
      BY <2>1, <3>3, <3>4, <3>5
  <2>2. CASE \E p \in Packets : Emit(i, p)
    <3>1. PICK p \in Packets : Emit(i, p)
      BY <2>2
    <3>2. /\ genPc[i] = "idle" /\ genPc'[i] = "offer"
          /\ input' = [input EXCEPT ![i] = SignalWrite(@, p)]
          /\ UNCHANGED <<activated, ack>>
      BY <1>3, <3>1 DEF Emit, GenStep, TypeOK, GeneratorTypeOK
    <3>3. /\ SignalWrite(input[i], p) \in Signal(Packets \cup {NoPacket})
          /\ SignalWrite(input[i], p).new = p
      BY WireTypes DEF SignalWrite, Signal
    <3>4. input'[i].new = p /\ \A k \in Inputs : k # i => input'[k] = input[k]
      BY <1>3, <3>2, <3>3 DEF TypeOK, LinkTypeOK
    <3>5. LinkTypeOK(Packets \cup {NoPacket})'
      BY <1>3, <3>2, <3>3 DEF TypeOK, LinkTypeOK
    <3>6. At(i, "idle", "idle", Low, Low) /\ ~rtRun[i]
      BY <1>2, <1>3, <3>2 DEF Handshake, At
    <3>7. At(i, "offer", "idle", Low, Low)' /\ ~rtRun'[i]
      BY <1>1, <3>2, <3>6 DEF At
    <3>8. QED
      BY <1>4, <3>2, <3>4, <3>5, <3>7 DEF Handshake, Held, At
  <2>3. CASE Offer(i)
    <3>1. /\ genPc[i] = "offer" /\ genPc'[i] = "awaitAck"
          /\ activated' = [activated EXCEPT ![i] = SignalWrite(@, TRUE)]
          /\ UNCHANGED <<input, ack>>
      BY <1>3, <2>3 DEF Offer, GenStep, TypeOK, GeneratorTypeOK
    <3>2. At(i, "offer", "idle", Low, Low) /\ ~rtRun[i]
      BY <1>2, <1>3, <3>1 DEF Handshake, At
    <3>3. SignalWrite(activated[i], TRUE) = Rising /\ Rising \in Signal(BOOLEAN)
      BY <3>2, WireFacts DEF At
    <3>4. activated'[i] = Rising /\ \A k \in Inputs : k # i => activated'[k] = activated[k]
      BY <1>3, <3>1, <3>3 DEF TypeOK, LinkTypeOK
    <3>5. LinkTypeOK(Packets \cup {NoPacket})'
      BY <1>3, <3>1, <3>3 DEF TypeOK, LinkTypeOK
    <3>6. At(i, "awaitAck", "idle", Rising, Low)' /\ ~rtRun'[i]
      BY <1>1, <3>1, <3>2, <3>4 DEF At
    <3>7. QED
      BY <1>2, <1>3, <1>4, <3>1, <3>4, <3>5, <3>6 DEF Handshake, Held, At
  <2>4. CASE Release(i)
    <3>1. /\ genPc[i] = "release" /\ genPc'[i] = "awaitEnd"
          /\ activated' = [activated EXCEPT ![i] = SignalWrite(@, FALSE)]
          /\ UNCHANGED <<input, ack>>
      BY <1>3, <2>4 DEF Release, GenStep, TypeOK, GeneratorTypeOK
    <3>2. At(i, "release", "awaitRelease", High, High) /\ ~rtRun[i]
      BY <1>2, <1>3, <3>1 DEF Handshake, At
    <3>3. SignalWrite(activated[i], FALSE) = Falling /\ Falling \in Signal(BOOLEAN)
      BY <3>2, WireFacts DEF At
    <3>4. activated'[i] = Falling /\ \A k \in Inputs : k # i => activated'[k] = activated[k]
      BY <1>3, <3>1, <3>3 DEF TypeOK, LinkTypeOK
    <3>5. LinkTypeOK(Packets \cup {NoPacket})'
      BY <1>3, <3>1, <3>3 DEF TypeOK, LinkTypeOK
    <3>6. At(i, "awaitEnd", "awaitRelease", Falling, High)' /\ ~rtRun'[i]
      BY <1>1, <3>1, <3>2, <3>4 DEF At
    <3>7. QED
      BY <1>3, <1>4, <3>1, <3>4, <3>5, <3>6 DEF Handshake, Held, At
  <2>5. QED
    BY <2>1, <2>2, <2>3, <2>4 DEF GeneratorStep
<1>7. \A k \in Inputs : Handshake(k)' /\ Held(k)'
  BY <1>1, <1>4, <1>6, LocalStep DEF Untouched
<1>8. ArbiterPart'
  BY <1>1, ArbiterStill
<1>9. QED
  BY <1>5, <1>6, <1>7, <1>8 DEF IInv, ArbiterPart, TypeOK

(* Where a router that runs is, and what the handshake says then.          *)
LEMMA RouterAt ==
  ASSUME IInv, NEW i \in Inputs, rtRun[i]
  PROVE  /\ rtPc[i] = "idle" => At(i, "awaitAck", "idle", High, Low) /\ ~genRun[i]
         /\ rtPc[i] = "sync" => At(i, "awaitAck", "sync", High, Low) /\ ~genRun[i]
         /\ rtPc[i] = "full" => At(i, "awaitAck", "full", High, Low) /\ ~genRun[i]
         /\ rtPc[i] = "awaitRelease" =>
              At(i, "awaitEnd", "awaitRelease", Low, High) /\ ~genRun[i]
         /\ rtPc[i] = "finish" => At(i, "awaitEnd", "finish", Low, High) /\ ~genRun[i]
<1>1. Handshake(i)
  BY DEF IInv
<1>2. QED
  BY <1>1 DEF Handshake, At

(* The packet a router that runs stores or keeps is the one on the wire.   *)
LEMMA PacketOnWire ==
  ASSUME IInv, NEW i \in Inputs, rtRun[i], rtPc[i] \in {"sync", "full"}
  PROVE  /\ genPc[i] = "awaitAck"
         /\ input[i].new = input[i].cur /\ input[i].cur \in Packets
         /\ rtPc[i] = "full" => rtPacket[i] = input[i].cur
<1>1. genPc[i] = "awaitAck" /\ Held(i)
  BY RouterAt DEF IInv, At
<1>2. QED
  BY <1>1 DEF Held, SignalChanged

(* A stored packet goes to the end of its FIFO.                            *)
LEMMA StorePart ==
  ASSUME IInv, NEW i \in Inputs, NEW p \in Packets, HasRoom(i, p),
         fifo' = [fifo EXCEPT ![p.address][i] = FifoWrite(@, Depth, p)],
         UNCHANGED arbiterVars
  PROVE  /\ ArbiterPart'
         /\ \A k \in Outputs, l \in Fifos :
              fifo'[k][l].buf = IF k = p.address /\ l = i THEN Append(fifo[k][l].buf, p)
                                                         ELSE fifo[k][l].buf
<1> DEFINE a == p.address
           q == fifo[a][i]
           w == FifoWrite(q, Depth, p)
<1>1. a \in Outputs /\ i \in Fifos /\ Depth \in Nat
  BY NetworkFacts
<1>2. ArbiterTypeOK
  BY DEF IInv, TypeOK
<1>3. q \in Fifo(Depth, Packets) /\ Balanced(q, Depth) /\ NumFree(q, Depth) > 0
  BY <1>1, <1>2 DEF IInv, FifosBalanced, HasRoom, ArbiterTypeOK
<1>4. /\ w \in Fifo(Depth, Packets) /\ Balanced(w, Depth)
      /\ w.buf = Append(q.buf, p)
  BY <1>1, <1>3, FifoWriteBalanced
<1>5. \A k \in Outputs, l \in Fifos :
        fifo'[k][l] = IF k = a /\ l = i THEN w ELSE fifo[k][l]
  BY <1>1, <1>2 DEF ArbiterTypeOK
<1>6. UNCHANGED <<arbPc, arbRun, type, choice, lru, pushs, last, pushRun, output>>
  BY DEF arbiterVars
<1>7. ArbiterTypeOK'
  <2>1. fifo' \in [Outputs -> [Fifos -> Fifo(Depth, Packets)]]
    BY <1>1, <1>2, <1>4 DEF ArbiterTypeOK
  <2>2. QED
    BY <1>2, <1>6, <2>1 DEF ArbiterTypeOK
<1>8. FifosBalanced'
  BY <1>4, <1>5 DEF IInv, FifosBalanced
<1>9. RegistersCover' /\ ChoiceIsFifo'
  BY <1>6 DEF IInv, RegistersCover, Covers, ChoiceIsFifo
<1>10. \A k \in Outputs, l \in Fifos :
         fifo'[k][l].buf = IF k = a /\ l = i THEN Append(fifo[k][l].buf, p)
                                            ELSE fifo[k][l].buf
  <2> SUFFICES ASSUME NEW k \in Outputs, NEW l \in Fifos
               PROVE  fifo'[k][l].buf =
                        IF k = a /\ l = i THEN Append(fifo[k][l].buf, p)
                                         ELSE fifo[k][l].buf
    OBVIOUS
  <2>1. CASE k = a /\ l = i
    <3>1. fifo'[k][l] = w /\ fifo[k][l] = q
      BY <1>5, <2>1
    <3> HIDE DEF q, w
    <3>2. QED
      BY <1>4, <2>1, <3>1
  <2>2. CASE ~ (k = a /\ l = i)
    BY <1>5, <2>2
  <2>3. QED
    BY <2>1, <2>2
<1>11. QED
  BY <1>7, <1>8, <1>9, <1>10 DEF ArbiterPart

(* read_packet(): store or stall, whichever of the two steps it is.        *)
LEMMA ReadIInv ==
  ASSUME IInv, NEW i \in Inputs, NEW from \in {"sync", "full"}, NEW p,
         p = (IF from = "sync" THEN input[i].cur ELSE rtPacket[i]),
         Store(i, from, p) \/ Stall(i, from, p),
         rtPacket' = [rtPacket EXCEPT ![i] = p],
         UNCHANGED <<arbiterVars, genPc, genRun, clock>>
  PROVE  IInv'
<1>1. /\ rtRun[i] /\ rtPc[i] = from
      /\ rtRun' = [rtRun EXCEPT ![i] = FALSE]
      /\ UNCHANGED <<input, activated>>
  BY DEF Store, Stall, RtStep, linkVars
<1>2. TypeOK
  BY DEF IInv
<1>3. /\ p \in Packets /\ p = input[i].cur /\ input[i].new = p
      /\ genPc[i] = "awaitAck" /\ ~genRun[i]
      /\ activated[i] = High /\ ack[i] = Low
  BY <1>1, PacketOnWire, RouterAt DEF At
<1>4. ~rtRun'[i] /\ rtPacket'[i] = p
  BY <1>1, <1>2 DEF TypeOK, RouterTypeOK
<1>5. \A k \in Inputs : k # i => rtRun'[k] = rtRun[k] /\ rtPacket'[k] = rtPacket[k]
  BY <1>1, <1>2 DEF TypeOK, RouterTypeOK
<1>6. rtRun' \in [Inputs -> BOOLEAN] /\ rtPacket' \in [Inputs -> Packets \cup {NoPacket}]
  BY <1>1, <1>2, <1>3 DEF TypeOK, RouterTypeOK
<1>7. GeneratorTypeOK' /\ (clock \in {"pos", "neg"})'
  BY <1>2 DEF TypeOK, GeneratorTypeOK
<1>8. ~SignalChanged(input'[i]) /\ input'[i].new \in Packets
  BY <1>1, <1>3 DEF SignalChanged
<1>9. CASE Store(i, from, p)
  <2>1. /\ HasRoom(i, p)
        /\ rtPc' = [rtPc EXCEPT ![i] = "awaitRelease"]
        /\ fifo' = [fifo EXCEPT ![p.address][i] = FifoWrite(@, Depth, p)]
        /\ ack' = [ack EXCEPT ![i] = SignalWrite(@, TRUE)]
    BY <1>9 DEF Store, RtStep
  <2>2. ArbiterPart'
    BY <1>3, <2>1, StorePart
  <2>3. SignalWrite(ack[i], TRUE) = Rising /\ Rising \in Signal(BOOLEAN)
    BY <1>3, WireFacts
  <2>4. /\ rtPc'[i] = "awaitRelease" /\ ack'[i] = Rising
        /\ \A k \in Inputs : k # i => rtPc'[k] = rtPc[k] /\ ack'[k] = ack[k]
    BY <1>2, <2>1, <2>3 DEF TypeOK, RouterTypeOK, LinkTypeOK
  <2>5. LinkTypeOK(Packets \cup {NoPacket})' /\ RouterTypeOK'
    BY <1>1, <1>2, <1>6, <2>1, <2>3 DEF TypeOK, RouterTypeOK, LinkTypeOK
  <2>6. At(i, "awaitAck", "awaitRelease", High, Rising)' /\ ~rtRun'[i] /\ ~genRun'[i]
    BY <1>1, <1>3, <1>4, <2>4 DEF At
  <2>7. Handshake(i)' /\ Held(i)'
    BY <1>8, <2>4, <2>6 DEF Handshake, Held
  <2>8. \A k \in Inputs : k # i => Untouched(k)
    BY <1>1, <1>5, <2>4 DEF Untouched
  <2>9. \A k \in Inputs : Handshake(k)' /\ Held(k)'
    BY <2>7, <2>8, LocalStep
  <2>10. QED
    BY <1>7, <2>2, <2>5, <2>9 DEF IInv, ArbiterPart, TypeOK
<1>10. CASE Stall(i, from, p)
  <2>1. /\ rtPc' = [rtPc EXCEPT ![i] = "full"]
        /\ UNCHANGED <<fifo, ack>>
    BY <1>10 DEF Stall, RtStep, linkVars
  <2>2. ArbiterPart'
    BY <2>1, ArbiterStill
  <2>3. rtPc'[i] = "full" /\ \A k \in Inputs : k # i => rtPc'[k] = rtPc[k]
    BY <1>2, <2>1 DEF TypeOK, RouterTypeOK
  <2>4. LinkTypeOK(Packets \cup {NoPacket})' /\ RouterTypeOK'
    BY <1>1, <1>2, <1>6, <2>1 DEF TypeOK, RouterTypeOK, LinkTypeOK
  <2>5. At(i, "awaitAck", "full", High, Low)' /\ ~rtRun'[i] /\ ~genRun'[i]
    BY <1>1, <1>3, <1>4, <2>1, <2>3 DEF At
  <2>6. Held(i)'
    BY <1>1, <1>3, <1>4, <1>8 DEF Held
  <2>7. Handshake(i)'
    BY <2>5 DEF Handshake
  <2>8. \A k \in Inputs : k # i => Untouched(k)
    BY <1>1, <1>5, <2>1, <2>3 DEF Untouched
  <2>9. \A k \in Inputs : Handshake(k)' /\ Held(k)'
    BY <2>6, <2>7, <2>8, LocalStep
  <2>10. QED
    BY <1>7, <2>2, <2>4, <2>9 DEF IInv, ArbiterPart, TypeOK
<1>11. QED
  BY <1>9, <1>10

(* The thread of a router.                                                 *)
LEMMA RouterStepIInv ==
  ASSUME IInv, NEW i \in Inputs, RouterStep(i)
  PROVE  IInv'
<1>1. UNCHANGED <<arbiterVars, genPc, genRun, clock>>
  BY DEF RouterStep, generatorVars
<1>2. TypeOK
  BY DEF IInv
<1>3. CASE ReadPacket(i)
  <2>1. Store(i, "sync", input[i].cur) \/ Stall(i, "sync", input[i].cur)
    BY <1>3 DEF ReadPacket
  <2>2. rtPacket' = [rtPacket EXCEPT ![i] = input[i].cur]
    BY <1>3 DEF ReadPacket
  <2>3. QED
    BY <1>1, <2>1, <2>2, ReadIInv
<1>4. CASE Retry(i)
  <2>1. Store(i, "full", rtPacket[i]) \/ Stall(i, "full", rtPacket[i])
    BY <1>4 DEF Retry
  <2>2. rtPacket' = [rtPacket EXCEPT ![i] = rtPacket[i]]
    BY <1>2, <1>4 DEF Retry, TypeOK, RouterTypeOK
  <2>3. QED
    BY <1>1, <2>1, <2>2, ReadIInv
<1>5. CASE SeeRequest(i) \/ SeeRelease(i) \/ Finish(i)
  <2>1. /\ rtRun[i] /\ rtRun' = [rtRun EXCEPT ![i] = FALSE]
        /\ \E to \in {"sync", "finish", "idle"} : rtPc' = [rtPc EXCEPT ![i] = to]
        /\ UNCHANGED <<fifo, input, activated, rtPacket>>
    BY <1>5 DEF SeeRequest, SeeRelease, Finish, RtStep, linkVars
  <2>2. /\ ~rtRun'[i]
        /\ \A k \in Inputs : k # i => rtPc'[k] = rtPc[k] /\ rtRun'[k] = rtRun[k]
    BY <1>2, <2>1 DEF TypeOK, RouterTypeOK
  <2>3. RouterTypeOK' /\ GeneratorTypeOK' /\ (clock \in {"pos", "neg"})'
    BY <1>1, <1>2, <2>1 DEF TypeOK, RouterTypeOK, GeneratorTypeOK
  <2>4. Held(i) /\ ArbiterPart'
    BY <1>1, <2>1, ArbiterStill DEF IInv
  <2>5. /\ LinkTypeOK(Packets \cup {NoPacket})'
        /\ Handshake(i)' /\ Held(i)'
        /\ \A k \in Inputs : k # i => ack'[k] = ack[k]
    <3>1. CASE SeeRequest(i)
      <4>1. rtPc[i] = "idle" /\ rtPc'[i] = "sync" /\ UNCHANGED ack
        BY <1>2, <3>1 DEF SeeRequest, RtStep, linkVars, TypeOK, RouterTypeOK
      <4>2. At(i, "awaitAck", "idle", High, Low) /\ ~genRun[i]
        BY <2>1, <4>1, RouterAt
      <4>3. At(i, "awaitAck", "sync", High, Low)' /\ ~genRun'[i]
        BY <1>1, <2>1, <4>1, <4>2 DEF At
      <4>4. Held(i)'
        BY <1>1, <2>1, <2>4, <4>1 DEF Held
      <4>5. QED
        BY <1>2, <2>1, <4>1, <4>3, <4>4 DEF Handshake, TypeOK, LinkTypeOK
    <3>2. CASE SeeRelease(i)
      <4>1. rtPc[i] = "awaitRelease" /\ rtPc'[i] = "finish" /\ UNCHANGED ack
        BY <1>2, <3>2 DEF SeeRelease, RtStep, linkVars, TypeOK, RouterTypeOK
      <4>2. At(i, "awaitEnd", "awaitRelease", Low, High) /\ ~genRun[i]
        BY <2>1, <4>1, RouterAt
      <4>3. At(i, "awaitEnd", "finish", Low, High)' /\ ~genRun'[i]
        BY <1>1, <2>1, <4>1, <4>2 DEF At
      <4>4. Held(i)'
        BY <1>1, <2>1, <2>4, <4>1 DEF Held
      <4>5. QED
        BY <1>2, <2>1, <4>1, <4>3, <4>4 DEF Handshake, TypeOK, LinkTypeOK
    <3>3. CASE Finish(i)
      <4>1. /\ rtPc[i] = "finish" /\ rtPc'[i] = "idle"
            /\ ack' = [ack EXCEPT ![i] = SignalWrite(@, FALSE)]
        BY <1>2, <3>3 DEF Finish, RtStep, TypeOK, RouterTypeOK
      <4>2. At(i, "awaitEnd", "finish", Low, High) /\ ~genRun[i]
        BY <2>1, <4>1, RouterAt
      <4>3. SignalWrite(ack[i], FALSE) = Falling /\ Falling \in Signal(BOOLEAN)
        BY <4>2, WireFacts DEF At
      <4>4. ack'[i] = Falling /\ \A k \in Inputs : k # i => ack'[k] = ack[k]
        BY <1>2, <4>1, <4>3 DEF TypeOK, LinkTypeOK
      <4>5. LinkTypeOK(Packets \cup {NoPacket})'
        BY <1>2, <2>1, <4>1, <4>3 DEF TypeOK, LinkTypeOK
      <4>6. At(i, "awaitEnd", "idle", Low, Falling)' /\ ~rtRun'[i] /\ ~genRun'[i]
        BY <1>1, <2>1, <2>2, <4>1, <4>2, <4>4 DEF At
      <4>7. Held(i)'
        BY <1>1, <2>1, <2>4, <4>1 DEF Held
      <4>8. QED
        BY <4>4, <4>5, <4>6, <4>7 DEF Handshake
    <3>4. QED
      BY <1>5, <3>1, <3>2, <3>3
  <2>6. \A k \in Inputs : k # i => Untouched(k)
    BY <1>1, <2>1, <2>2, <2>5 DEF Untouched
  <2>7. \A k \in Inputs : Handshake(k)' /\ Held(k)'
    BY <2>5, <2>6, LocalStep
  <2>8. QED
    BY <2>3, <2>4, <2>5, <2>7 DEF IInv, ArbiterPart, TypeOK
<1>6. QED
  BY <1>3, <1>4, <1>5 DEF RouterStep

-----------------------------------------------------------------------------
(* The kernel.                                                             *)

(* When no thread is left to run, no input has one.                        *)
LEMMA NobodyRuns ==
  ASSUME ~Runnable, NEW i \in Inputs
  PROVE  ~rtRun[i] /\ ~genRun[i]
BY DEF Runnable

(* The update phase moves every wire to its new value and wakes who waits  *)
(* for it.                                                                 *)
LEMMA UpdateIInv ==
  ASSUME IInv, Update
  PROVE  IInv'
<1>1. ~Runnable /\ clock' = clock /\ ArbiterUpdate /\ LinkUpdate
      /\ RouterUpdate /\ GeneratorUpdate
  BY DEF Update
<1>2. TypeOK
  BY DEF IInv
<1>3. ArbiterPart'
  <2>1. /\ fifo' = [k \in Outputs |-> [l \in Fifos |-> FifoUpdate(fifo[k][l])]]
        /\ pushRun' = [k \in Outputs |-> [l \in Fifos |-> fifo[k][l].numWritten > 0]]
        /\ output' = [k \in Outputs |-> SignalUpdate(output[k])]
        /\ UNCHANGED <<arbPc, arbRun, type, choice, lru, pushs, last>>
    BY <1>1 DEF ArbiterUpdate
  <2>2. \A k \in Outputs, l \in Fifos :
          /\ FifoUpdate(fifo[k][l]) \in Fifo(Depth, Packets)
          /\ Balanced(FifoUpdate(fifo[k][l]), Depth)
    <3>1. \A k \in Outputs, l \in Fifos :
            fifo[k][l] \in Fifo(Depth, Packets) /\ Balanced(fifo[k][l], Depth)
      BY <1>2 DEF IInv, FifosBalanced, TypeOK, ArbiterTypeOK
    <3>2. QED
      BY <3>1, NetworkFacts, FifoUpdateBalanced
  <2>3. output' \in [Outputs -> Signal(Packets \cup {NoPacket})]
    BY <1>2, <2>1 DEF TypeOK, ArbiterTypeOK, SignalUpdate, Signal
  <2>4. /\ fifo' \in [Outputs -> [Fifos -> Fifo(Depth, Packets)]]
        /\ pushRun' \in [Outputs -> [Fifos -> BOOLEAN]]
    BY <2>1, <2>2
  <2>5. ArbiterTypeOK'
    BY <1>2, <2>1, <2>3, <2>4 DEF TypeOK, ArbiterTypeOK
  <2>6. FifosBalanced'
    BY <2>1, <2>2 DEF FifosBalanced
  <2>7. RegistersCover' /\ ChoiceIsFifo'
    BY <2>1 DEF IInv, RegistersCover, Covers, ChoiceIsFifo
  <2>8. QED
    BY <2>5, <2>6, <2>7 DEF ArbiterPart
<1>4. LinkTypeOK(Packets \cup {NoPacket})'
  BY <1>1, <1>2 DEF TypeOK, LinkTypeOK, LinkUpdate, SignalUpdate, Signal
<1>5. RouterTypeOK'
  <2>1. UNCHANGED <<rtPc, rtPacket>> /\ rtRun' \in [Inputs -> BOOLEAN]
    BY <1>1 DEF RouterUpdate
  <2>2. QED
    BY <1>2, <2>1 DEF TypeOK, RouterTypeOK
<1>6. GeneratorTypeOK'
  <2>1. UNCHANGED genPc /\ genRun' \in [Inputs -> BOOLEAN]
    BY <1>1 DEF GeneratorUpdate
  <2>2. QED
    BY <1>2, <2>1 DEF TypeOK, GeneratorTypeOK
<1>7. ASSUME NEW i \in Inputs PROVE Handshake(i)' /\ Held(i)'
  <2>1. /\ input'[i] = SignalUpdate(input[i])
        /\ activated'[i] = SignalUpdate(activated[i])
        /\ ack'[i] = SignalUpdate(ack[i])
        /\ genPc'[i] = genPc[i] /\ rtPc'[i] = rtPc[i] /\ rtPacket'[i] = rtPacket[i]
    BY <1>1 DEF LinkUpdate, RouterUpdate, GeneratorUpdate
  <2>2. /\ rtRun'[i] <=> \/ rtPc[i] = "idle" /\ Rises(activated[i])
                         \/ rtPc[i] = "awaitRelease" /\ Falls(activated[i])
        /\ genRun'[i] <=> \/ genPc[i] = "awaitAck" /\ Rises(ack[i])
                          \/ genPc[i] = "awaitEnd" /\ Falls(ack[i])
    BY <1>1 DEF RouterUpdate, GeneratorUpdate
  <2>3. ~rtRun[i] /\ ~genRun[i] /\ Handshake(i) /\ Held(i)
    BY <1>1, NobodyRuns DEF IInv
  <2>4. Handshake(i)'
    BY <2>1, <2>2, <2>3, WireFacts DEF Handshake, At
  <2>5. /\ input'[i].new = input[i].new /\ input'[i].cur = input[i].new
    BY <2>1, WireTypes DEF SignalUpdate, Signal
  <2>6. rtPc[i] = "full" => genPc[i] = "awaitAck"
    BY <2>3 DEF Handshake, At
  <2>7. Held(i)'
    BY <2>1, <2>3, <2>5, <2>6 DEF Held, SignalChanged
  <2>8. QED
    BY <2>4, <2>7
<1>8. QED
  BY <1>1, <1>2, <1>3, <1>4, <1>5, <1>6, <1>7 DEF IInv, ArbiterPart, TypeOK

(* A clock edge wakes the threads that wait for it.                        *)
LEMMA ClockEdgeIInv ==
  ASSUME IInv, ClockEdge
  PROVE  IInv'
<1>1. /\ ~Runnable /\ ~Changed
      /\ clock' \in {"pos", "neg"}
      /\ ArbiterEdge(clock') /\ RouterEdge(clock') /\ GeneratorEdge(clock')
      /\ UNCHANGED <<input, activated, ack>>
  BY DEF ClockEdge, linkVars
<1>2. TypeOK
  BY DEF IInv
<1>3. ArbiterPart'
  <2>1. /\ arbRun' \in [Outputs -> BOOLEAN]
        /\ UNCHANGED <<fifo, arbPc, type, choice, lru, pushs, last, pushRun, output>>
    BY <1>1 DEF ArbiterEdge
  <2>2. ArbiterTypeOK'
    BY <1>2, <2>1 DEF TypeOK, ArbiterTypeOK
  <2>3. FifosBalanced' /\ RegistersCover' /\ ChoiceIsFifo'
    BY <2>1 DEF IInv, FifosBalanced, RegistersCover, Covers, ChoiceIsFifo
  <2>4. QED
    BY <2>2, <2>3 DEF ArbiterPart
<1>4. LinkTypeOK(Packets \cup {NoPacket})'
  BY <1>1, <1>2 DEF TypeOK, LinkTypeOK
<1>5. RouterTypeOK' /\ GeneratorTypeOK'
  <2>1. /\ UNCHANGED <<rtPc, rtPacket, genPc>>
        /\ rtRun' \in [Inputs -> BOOLEAN] /\ genRun' \in [Inputs -> BOOLEAN]
    BY <1>1 DEF RouterEdge, GeneratorEdge
  <2>2. QED
    BY <1>2, <2>1 DEF TypeOK, RouterTypeOK, GeneratorTypeOK
<1>6. ASSUME NEW i \in Inputs PROVE Handshake(i)' /\ Held(i)'
  <2>1. /\ rtRun'[i] => rtPc[i] \in {"sync", "full", "finish"}
        /\ genRun'[i] => genPc[i] \in {"idle", "release", "offer"}
        /\ UNCHANGED <<rtPc, rtPacket, genPc>>
    BY <1>1 DEF RouterEdge, GeneratorEdge
  <2>2. /\ ~SignalChanged(input[i])
        /\ ~SignalChanged(activated[i]) /\ ~SignalChanged(ack[i])
    BY <1>1 DEF Changed, LinkChanged
  <2>3. ~rtRun[i] /\ ~genRun[i] /\ Handshake(i) /\ Held(i)
    BY <1>1, NobodyRuns DEF IInv
  <2>4. \/ At(i, "idle", "idle", Low, Low)
        \/ At(i, "offer", "idle", Low, Low)
        \/ At(i, "awaitAck", "sync", High, Low)
        \/ At(i, "awaitAck", "full", High, Low)
        \/ At(i, "release", "awaitRelease", High, High)
        \/ At(i, "awaitEnd", "finish", Low, High)
    BY <2>2, <2>3, WireFacts DEF Handshake, At
  <2>5. Handshake(i)'
    BY <1>1, <2>1, <2>4 DEF Handshake, At
  <2>6. Held(i)'
    BY <1>1, <2>1, <2>2, <2>3 DEF Held
  <2>7. QED
    BY <2>5, <2>6
<1>7. QED
  BY <1>1, <1>3, <1>4, <1>5, <1>6 DEF IInv, ArbiterPart, TypeOK

(* Every step preserves the invariant.                                     *)
LEMMA NextIInv ==
  IInv /\ [Next]_vars => IInv'
<1> SUFFICES ASSUME IInv, [Next]_vars PROVE IInv'
  OBVIOUS
<1>1. CASE \E j \in Outputs : ArbiterStep(j)
  BY <1>1, ArbiterStepIInv
<1>2. CASE \E i \in Inputs : RouterStep(i) \/ GeneratorStep(i)
  BY <1>2, RouterStepIInv, GeneratorStepIInv
<1>3. CASE Update
  BY <1>3, UpdateIInv
<1>4. CASE ClockEdge
  BY <1>4, ClockEdgeIInv
<1>5. CASE UNCHANGED vars
  <2>1. /\ UNCHANGED <<fifo, arbiterVars, clock>>
        /\ UNCHANGED <<input, activated, ack, rtPc, rtRun, rtPacket, genPc, genRun>>
    BY <1>5 DEF vars, linkVars, routerVars, generatorVars
  <2>2. ArbiterPart'
    BY <2>1, ArbiterStill
  <2>3. /\ LinkTypeOK(Packets \cup {NoPacket})' /\ RouterTypeOK' /\ GeneratorTypeOK'
        /\ (clock \in {"pos", "neg"})'
    BY <2>1 DEF IInv, TypeOK, LinkTypeOK, RouterTypeOK, GeneratorTypeOK
  <2>4. \A i \in Inputs : Handshake(i)' /\ Held(i)'
    BY <2>1 DEF IInv, Handshake, At, Held
  <2>5. QED
    BY <2>2, <2>3, <2>4 DEF IInv, ArbiterPart, TypeOK
<1>6. QED
  BY <1>1, <1>2, <1>3, <1>4, <1>5 DEF Next

LEMMA Invariance == Spec => []IInv
BY InitIInv, NextIInv, PTL DEF Spec

-----------------------------------------------------------------------------
(* The theorems.                                                           *)

(* The variables of the network have their types.                          *)
THEOREM NocTypeCorrect == Spec => []TypeOK
<1>1. IInv => TypeOK
  BY DEF IInv
<1>2. QED
  BY <1>1, Invariance, PTL

(* From its request to its answer the packet on the wire is the router's:  *)
(* it does not change, and a router that waits for room has it.            *)
THEOREM PacketStableCorrect == Spec => []PacketStable
<1>1. IInv => PacketStable
  <2> SUFFICES ASSUME IInv, NEW i \in Inputs
               PROVE  /\ rtPc[i] \in {"sync", "full"} => ~SignalChanged(input[i])
                      /\ rtPc[i] = "full" => rtPacket[i] = input[i].cur
    BY DEF PacketStable
  <2>1. Handshake(i) /\ Held(i)
    BY DEF IInv
  <2>2. rtPc[i] \in {"sync", "full"} => genPc[i] = "awaitAck"
    BY <2>1 DEF Handshake, At
  <2>3. QED
    BY <2>1, <2>2 DEF Held
<1>2. QED
  BY <1>1, Invariance, PTL

(* The request rises when the acknowledgement is down and falls when it is *)
(* up, and the acknowledgement follows it.                                 *)
THEOREM FourPhaseCorrect == Spec => FourPhase
<1> DEFINE Phase == \A i \in Inputs :
             /\ Rises(activated[i]) => ~ack[i].cur
             /\ Falls(activated[i]) => ack[i].cur
             /\ Rises(ack[i]) => activated[i].cur
             /\ Falls(ack[i]) => ~activated[i].cur
           Body == \A i \in Inputs :
             /\ Rises(activated[i]) /\ activated'[i].cur => ~ack[i].cur
             /\ Falls(activated[i]) /\ ~activated'[i].cur => ack[i].cur
             /\ Rises(ack[i]) /\ ack'[i].cur => activated[i].cur
             /\ Falls(ack[i]) /\ ~ack'[i].cur => ~activated[i].cur
<1>1. IInv => Phase
  <2> SUFFICES ASSUME IInv, NEW i \in Inputs
               PROVE  /\ Rises(activated[i]) => ~ack[i].cur
                      /\ Falls(activated[i]) => ack[i].cur
                      /\ Rises(ack[i]) => activated[i].cur
                      /\ Falls(ack[i]) => ~activated[i].cur
    OBVIOUS
  <2>1. Handshake(i)
    BY DEF IInv
  <2>2. QED
    BY <2>1, WireFacts DEF Handshake, At
<1>2. Phase => Body
  OBVIOUS
<1>3. IInv => [Body]_vars
  BY <1>1, <1>2
<1>4. QED
  BY <1>3, Invariance, PTL DEF FourPhase

-----------------------------------------------------------------------------
(* The refinement of NocService.  A packet enters its flow when the        *)
(* generator puts it on the wire and leaves it when the arbiter transfers  *)
(* it; the router moves it within the flow.                                *)

Flows == [i \in Inputs |-> [j \in Outputs |-> FlowOf(i, j)]]

Shown == [j \in Outputs |-> output[j].new]

(* The wire of input i carries a packet the router has not stored.         *)
Loaded(i) == genPc[i] \in {"offer", "awaitAck"} /\ rtPc[i] \in {"idle", "sync", "full"}

(* The two parts of a flow.                                                *)
LEMMA FlowType ==
  ASSUME IInv, NEW i \in Inputs, NEW j \in Outputs
  PROVE  /\ fifo[j][i].buf \in Seq(Packets) /\ Len(fifo[j][i].buf) <= Depth
         /\ OnTheWire(i, j) \in Seq(Packets)
         /\ OnTheWire(i, j) = IF Loaded(i) /\ input[i].new.address = j
                              THEN <<input[i].new>> ELSE <<>>
         /\ Loaded(i) => input[i].new \in Packets
<1> DEFINE q == fifo[j][i]
<1>1. q \in Fifo(Depth, Packets) /\ Balanced(q, Depth)
  BY NetworkFacts DEF IInv, FifosBalanced, TypeOK, ArbiterTypeOK
<1>2. q.buf \in Seq(Packets) /\ Len(q.buf) <= Depth
  BY <1>1, NetworkFacts, LenProperties DEF Fifo, Balanced
<1>3. Loaded(i) => input[i].new \in Packets
  BY DEF IInv, Held, Loaded
<1>4. OnTheWire(i, j) = IF Loaded(i) /\ input[i].new.address = j
                        THEN <<input[i].new>> ELSE <<>>
  BY DEF OnTheWire, Loaded
<1>5. OnTheWire(i, j) \in Seq(Packets)
  BY <1>3, <1>4, EmptySeq
<1>6. QED
  BY <1>2, <1>3, <1>4, <1>5

(* A step that changes no buffer, no load of a wire and no output leaves   *)
(* the service where it was.                                               *)
LEMMA ServiceStill ==
  ASSUME \A i \in Inputs, j \in Outputs : fifo'[j][i].buf = fifo[j][i].buf,
         \A i \in Inputs : /\ Loaded(i)' <=> Loaded(i)
                           /\ Loaded(i) => input'[i].new = input[i].new,
         \A j \in Outputs : output'[j].new = output[j].new
  PROVE  UNCHANGED <<Flows, Shown>>
<1>1. \A i \in Inputs, j \in Outputs : OnTheWire(i, j)' = OnTheWire(i, j)
  BY DEF OnTheWire, Loaded
<1>2. \A i \in Inputs, j \in Outputs : FlowOf(i, j)' = FlowOf(i, j)
  BY <1>1 DEF FlowOf
<1>3. QED
  BY <1>2 DEF Flows, Shown

(* The head of a nonempty sequence is the head of what it begins.          *)
LEMMA ConcatHead ==
  ASSUME NEW T, NEW s \in Seq(T), NEW t \in Seq(T), s # <<>>
  PROVE  /\ s \o t # <<>>
         /\ Head(s \o t) = Head(s)
         /\ Tail(s \o t) = Tail(s) \o t
<1> DEFINE m == Len(s)
           n == Len(t)
           u == s \o t
<1>1. m \in Nat /\ n \in Nat /\ m > 0
  BY EmptySeq, LenProperties
<1>2. /\ u \in Seq(T) /\ Len(u) = m + n
      /\ \A i \in 1..(m + n) : u[i] = IF i <= m THEN s[i] ELSE t[i - m]
  BY ConcatProperties
<1>3. /\ Tail(s) \in Seq(T) /\ Len(Tail(s)) = m - 1
      /\ \A i \in 1..(m - 1) : Tail(s)[i] = s[i + 1]
  BY HeadTailProperties
<1>4. u # <<>> /\ Head(u) = u[1]
  BY <1>1, <1>2, EmptySeq
<1>5. Head(u) = Head(s)
  BY <1>1, <1>2, <1>4
<1>6. /\ Tail(u) \in Seq(T) /\ Len(Tail(u)) = m + n - 1
      /\ \A i \in 1..(m + n - 1) : Tail(u)[i] = u[i + 1]
  BY <1>2, <1>4, HeadTailProperties
<1>7. /\ Tail(s) \o t \in Seq(T) /\ Len(Tail(s) \o t) = (m - 1) + n
      /\ \A i \in 1..((m - 1) + n) :
           (Tail(s) \o t)[i] = IF i <= m - 1 THEN Tail(s)[i] ELSE t[i - (m - 1)]
  BY <1>3, ConcatProperties
<1> HIDE DEF u, m, n
<1>8. \A i \in 1..(m + n - 1) : Tail(u)[i] = (Tail(s) \o t)[i]
  <2> TAKE i \in 1..(m + n - 1)
  <2>1. i \in 1..((m - 1) + n) /\ i + 1 \in 1..(m + n) /\ i - (m - 1) = (i + 1) - m
    BY <1>1
  <2>2. CASE i <= m - 1
    <3>1. i \in 1..(m - 1) /\ i + 1 <= m
      BY <1>1, <2>2
    <3>2. QED
      BY <1>2, <1>3, <1>6, <1>7, <2>1, <2>2, <3>1
  <2>3. CASE ~ (i <= m - 1)
    <3>1. ~ (i + 1 <= m)
      BY <1>1, <2>3
    <3>2. QED
      BY <1>2, <1>6, <1>7, <2>1, <2>3, <3>1
  <2>4. QED
    BY <2>2, <2>3
<1>9. Tail(u) = Tail(s) \o t
  <2>1. Len(Tail(u)) = Len(Tail(s) \o t)
    BY <1>1, <1>6, <1>7
  <2>2. QED
    BY <1>6, <1>7, <1>8, <2>1, SeqEqual
<1>10. QED
  BY <1>4, <1>5, <1>9 DEF u

(* A transfer delivers the head of a flow.                                 *)
LEMMA TransferServes ==
  ASSUME IInv, NEW j \in Outputs, ArbiterStep(j)
  PROVE  \/ UNCHANGED <<Flows, Shown>>
         \/ \E i \in Inputs :
              /\ FlowOf(i, j) # <<>>
              /\ Shown' = [Shown EXCEPT ![j] = Head(FlowOf(i, j))]
              /\ Flows' = [Flows EXCEPT ![i][j] = Tail(FlowOf(i, j))]
<1>1. UNCHANGED <<input, genPc, rtPc>>
  BY DEF ArbiterStep, linkVars, routerVars, generatorVars
<1>2. \A i \in Inputs : /\ Loaded(i)' <=> Loaded(i)
                        /\ Loaded(i) => input'[i].new = input[i].new
  BY <1>1 DEF Loaded
<1>3. CASE UNCHANGED <<fifo, output>>
  BY <1>2, <1>3, ServiceStill
<1>4. CASE ~ UNCHANGED <<fifo, output>>
  <2> DEFINE c == choice[j]
             q == fifo[j][c]
             w == OnTheWire(c, j)
  <2>1. Transfer(j)
    BY <1>4 DEF ArbiterStep, Decide, AwaitTransfer, PushedInFifo
  <2>2. /\ c \in Fifos /\ NumAvailable(q) > 0
        /\ fifo' = [fifo EXCEPT ![j][c] = FifoRead(@)]
        /\ output' = [output EXCEPT ![j] = SignalWrite(@, Head(q.buf))]
    BY <1>4, <2>1, TransferPart
  <2>3. TypeOK /\ c \in Inputs
    BY <2>2, NetworkFacts DEF IInv
  <2>4. q.buf \in Seq(Packets) /\ w \in Seq(Packets)
    BY <2>3, FlowType
  <2>5. q.buf # <<>>
    <3>1. q \in Fifo(Depth, Packets) /\ Balanced(q, Depth)
      BY <2>2, <2>3 DEF IInv, FifosBalanced, TypeOK, ArbiterTypeOK
    <3>2. Len(q.buf) > 0
      BY <2>2, <3>1, NetworkFacts DEF Fifo, Balanced, NumAvailable
    <3>3. QED
      BY <3>2, EmptySeq
  <2>6. /\ q.buf \o w # <<>>
        /\ Head(q.buf \o w) = Head(q.buf)
        /\ Tail(q.buf \o w) = Tail(q.buf) \o w
    BY <2>4, <2>5, ConcatHead
  <2>7. \A l \in Inputs, k \in Outputs :
          fifo'[k][l].buf = IF k = j /\ l = c THEN Tail(q.buf) ELSE fifo[k][l].buf
    <3>1. \A l \in Fifos, k \in Outputs :
            fifo'[k][l] = IF k = j /\ l = c THEN FifoRead(q) ELSE fifo[k][l]
      BY <2>2, <2>3 DEF TypeOK, ArbiterTypeOK
    <3>2. FifoRead(q).buf = Tail(q.buf)
      BY <2>2, <2>3 DEF FifoRead, TypeOK, ArbiterTypeOK, Fifo
    <3>3. QED
      BY <3>1, <3>2, NetworkFacts
  <2>8. \A l \in Inputs, k \in Outputs : OnTheWire(l, k)' = OnTheWire(l, k)
    BY <1>1 DEF OnTheWire
  <2>9. \A l \in Inputs, k \in Outputs :
          FlowOf(l, k)' = IF k = j /\ l = c THEN Tail(FlowOf(c, j)) ELSE FlowOf(l, k)
    <3> SUFFICES ASSUME NEW l \in Inputs, NEW k \in Outputs
                 PROVE  FlowOf(l, k)' = IF k = j /\ l = c THEN Tail(FlowOf(c, j))
                                                         ELSE FlowOf(l, k)
      OBVIOUS
    <3>1. FlowOf(l, k)' = fifo'[k][l].buf \o OnTheWire(l, k)
      BY <2>8 DEF FlowOf
    <3>2. CASE k = j /\ l = c
      <4>1. fifo'[k][l].buf = Tail(q.buf)
        BY <2>7, <3>2
      <4>2. FlowOf(c, j) = q.buf \o w
        BY DEF FlowOf
      <4>3. QED
        BY <2>6, <3>1, <3>2, <4>1, <4>2
    <3>3. CASE ~ (k = j /\ l = c)
      <4>1. fifo'[k][l].buf = fifo[k][l].buf
        BY <2>7, <3>3
      <4>2. QED
        BY <3>1, <3>3, <4>1 DEF FlowOf
    <3>4. QED
      BY <3>2, <3>3
  <2>10. Flows' = [Flows EXCEPT ![c][j] = Tail(FlowOf(c, j))]
    BY <2>3, <2>9 DEF Flows
  <2>11. \A k \in Outputs :
           output'[k].new = IF k = j THEN Head(FlowOf(c, j)) ELSE output[k].new
    <3>1. output[j] \in Signal(Packets \cup {NoPacket})
      BY <2>3 DEF TypeOK, ArbiterTypeOK
    <3>2. SignalWrite(output[j], Head(q.buf)).new = Head(q.buf)
      BY <3>1 DEF SignalWrite, Signal
    <3>3. QED
      BY <2>2, <2>3, <2>6, <3>2 DEF FlowOf, TypeOK, ArbiterTypeOK
  <2>12. Shown' = [Shown EXCEPT ![j] = Head(FlowOf(c, j))]
    BY <2>11 DEF Shown
  <2>13. FlowOf(c, j) # <<>>
    BY <2>6 DEF FlowOf
  <2>14. QED
    BY <2>3, <2>10, <2>12, <2>13
<1>5. QED
  BY <1>3, <1>4

(* An emission begins a packet's travel; a generator does nothing else to  *)
(* the flows.                                                              *)
LEMMA GeneratorServes ==
  ASSUME IInv, NEW i \in Inputs, GeneratorStep(i)
  PROVE  \/ UNCHANGED <<Flows, Shown>>
         \/ \E p \in Packets :
              /\ Len(FlowOf(i, p.address)) < Depth + 1
              /\ Flows' = [Flows EXCEPT ![i][p.address] = Append(FlowOf(i, p.address), p)]
              /\ UNCHANGED Shown
<1>1. UNCHANGED <<fifo, output, rtPc>>
  BY DEF GeneratorStep, arbiterVars, routerVars
<1>2. TypeOK /\ Handshake(i)
  BY DEF IInv
<1>3. genRun[i]
  BY DEF GeneratorStep, Rest, Emit, Offer, SeeAck, Release, SeeEnd, GenStep
<1>4. \A k \in Inputs : k # i => genPc'[k] = genPc[k]
  BY <1>2 DEF GeneratorStep, Rest, Emit, Offer, SeeAck, Release, SeeEnd, GenStep,
              TypeOK, GeneratorTypeOK
<1>5. CASE \E p \in Packets : Emit(i, p)
  <2>1. PICK p \in Packets : Emit(i, p)
    BY <1>5
  <2> DEFINE a == p.address
  <2>2. /\ genPc[i] = "idle" /\ genPc'[i] = "offer"
        /\ input' = [input EXCEPT ![i] = SignalWrite(@, p)]
    BY <1>2, <2>1 DEF Emit, GenStep, TypeOK, GeneratorTypeOK
  <2>3. rtPc[i] = "idle" /\ a \in Outputs
    BY <1>2, <1>3, <2>2, NetworkFacts DEF Handshake, At
  <2>4. /\ input'[i].new = p
        /\ \A k \in Inputs : k # i => input'[k] = input[k]
    BY <1>2, <2>2, WireTypes DEF TypeOK, LinkTypeOK, SignalWrite, Signal
  <2>5. \A k \in Outputs : OnTheWire(i, k) = <<>>
    BY <2>2 DEF OnTheWire
  <2>6. \A k \in Outputs : OnTheWire(i, k)' = IF k = a THEN <<p>> ELSE <<>>
    BY <1>1, <2>2, <2>3, <2>4 DEF OnTheWire
  <2>7. \A l \in Inputs, k \in Outputs : l # i => OnTheWire(l, k)' = OnTheWire(l, k)
    BY <1>1, <1>4, <2>4 DEF OnTheWire
  <2> DEFINE b == fifo[a][i].buf
  <2>8. b \in Seq(Packets) /\ Len(b) <= Depth /\ Len(b) \in Nat /\ Depth \in Nat
    BY <2>3, FlowType, NetworkFacts, LenProperties
  <2>9. b \o <<>> = b /\ b \o <<p>> = Append(b, p)
    BY <2>8, ConcatEmptySeq, AppendIsConcat
  <2>10. FlowOf(i, a) = b
    BY <2>3, <2>5, <2>9 DEF FlowOf
  <2>11. \A l \in Inputs, k \in Outputs :
           FlowOf(l, k)' = IF l = i /\ k = a THEN Append(FlowOf(i, a), p) ELSE FlowOf(l, k)
    <3> SUFFICES ASSUME NEW l \in Inputs, NEW k \in Outputs
                 PROVE  FlowOf(l, k)' = IF l = i /\ k = a THEN Append(FlowOf(i, a), p)
                                                         ELSE FlowOf(l, k)
      OBVIOUS
    <3>1. CASE l = i /\ k = a
      BY <1>1, <2>6, <2>9, <2>10, <3>1 DEF FlowOf
    <3>2. CASE l = i /\ k # a
      BY <1>1, <2>5, <2>6, <3>2 DEF FlowOf
    <3>3. CASE l # i
      BY <1>1, <2>7, <3>3 DEF FlowOf
    <3>4. QED
      BY <3>1, <3>2, <3>3
  <2>12. Flows' = [Flows EXCEPT ![i][a] = Append(FlowOf(i, a), p)]
    BY <2>3, <2>11 DEF Flows
  <2>13. UNCHANGED Shown
    BY <1>1 DEF Shown
  <2>14. Len(FlowOf(i, a)) < Depth + 1
    BY <2>8, <2>10
  <2>15. QED
    BY <2>12, <2>13, <2>14
<1>6. CASE ~ \E p \in Packets : Emit(i, p)
  <2>1. Rest(i) \/ Offer(i) \/ SeeAck(i) \/ Release(i) \/ SeeEnd(i)
    BY <1>6 DEF GeneratorStep
  <2>2. UNCHANGED input
    BY <2>1 DEF Rest, Offer, SeeAck, Release, SeeEnd, linkVars
  <2>3. Loaded(i)' <=> Loaded(i)
    <3>1. \/ genPc[i] = "idle" /\ genPc'[i] = "idle"
          \/ genPc[i] = "offer" /\ genPc'[i] = "awaitAck"
          \/ genPc[i] = "awaitAck" /\ genPc'[i] = "release"
          \/ genPc[i] = "release" /\ genPc'[i] = "awaitEnd"
          \/ genPc[i] = "awaitEnd" /\ genPc'[i] = "idle"
      BY <1>2, <2>1 DEF Rest, Offer, SeeAck, Release, SeeEnd, GenStep,
                        TypeOK, GeneratorTypeOK
    <3>2. genPc[i] = "awaitAck" => rtPc[i] = "awaitRelease"
      BY <1>2, <1>3 DEF Handshake, At
    <3>3. QED
      BY <1>1, <3>1, <3>2 DEF Loaded
  <2>4. \A k \in Inputs : Loaded(k)' <=> Loaded(k)
    BY <1>1, <1>4, <2>3 DEF Loaded
  <2>5. QED
    BY <1>1, <2>2, <2>4, ServiceStill
<1>7. QED
  BY <1>5, <1>6

(* A router moves the packet of its wire to the FIFO at the other end of   *)
(* the same flow.                                                          *)
LEMMA RouterServes ==
  ASSUME IInv, NEW i \in Inputs, RouterStep(i)
  PROVE  UNCHANGED <<Flows, Shown>>
<1>1. UNCHANGED <<output, genPc, input, arbiterVars>>
  BY DEF RouterStep, SeeRequest, ReadPacket, Retry, SeeRelease, Finish, Store,
         Stall, arbiterVars, generatorVars, linkVars
<1>2. TypeOK /\ rtRun[i]
  BY DEF IInv, RouterStep, SeeRequest, ReadPacket, Retry, SeeRelease, Finish,
         Store, Stall, RtStep
<1>3. \A k \in Inputs : k # i => rtPc'[k] = rtPc[k]
  BY <1>2 DEF RouterStep, SeeRequest, ReadPacket, Retry, SeeRelease, Finish,
         Store, Stall, RtStep, TypeOK, RouterTypeOK
<1>4. \A j \in Outputs : output'[j].new = output[j].new
  BY <1>1
<1>5. CASE \E from \in {"sync", "full"} :
             Store(i, from, IF from = "sync" THEN input[i].cur ELSE rtPacket[i])
  <2>1. PICK from \in {"sync", "full"} :
               Store(i, from, IF from = "sync" THEN input[i].cur ELSE rtPacket[i])
    BY <1>5
  <2> DEFINE p == IF from = "sync" THEN input[i].cur ELSE rtPacket[i]
  <2>2. /\ rtPc[i] = from /\ HasRoom(i, p)
        /\ rtPc'[i] = "awaitRelease"
        /\ fifo' = [fifo EXCEPT ![p.address][i] = FifoWrite(@, Depth, p)]
    BY <1>2, <2>1 DEF Store, RtStep, TypeOK, RouterTypeOK
  <2>3. p \in Packets /\ input[i].new = p /\ genPc[i] = "awaitAck"
    BY <1>2, <2>2, PacketOnWire
  <2> HIDE DEF p
  <2>4. \A k \in Outputs, l \in Fifos :
          fifo'[k][l].buf = IF k = p.address /\ l = i THEN Append(fifo[k][l].buf, p)
                                                      ELSE fifo[k][l].buf
    BY <1>1, <2>2, <2>3, StorePart
  <2>5. ASSUME NEW l \in Inputs, NEW k \in Outputs
        PROVE  FlowOf(l, k)' = FlowOf(l, k)
    <3>1. l \in Fifos /\ FlowOf(l, k)' = fifo'[k][l].buf \o OnTheWire(l, k)'
      BY NetworkFacts DEF FlowOf
    <3>2. CASE l = i /\ k = p.address
      <4>1. OnTheWire(l, k) = <<p>>
        BY <2>2, <2>3, <3>2 DEF OnTheWire
      <4>2. OnTheWire(l, k)' = <<>>
        BY <2>2, <3>2 DEF OnTheWire
      <4>3. fifo[k][l].buf \in Seq(Packets)
        BY FlowType
      <4>4. /\ Append(fifo[k][l].buf, p) \in Seq(Packets)
            /\ Append(fifo[k][l].buf, p) = fifo[k][l].buf \o <<p>>
        BY <2>3, <4>3, AppendProperties, AppendIsConcat
      <4>5. fifo'[k][l].buf \o <<>> = fifo[k][l].buf \o <<p>>
        BY <2>4, <3>1, <3>2, <4>4, ConcatEmptySeq
      <4>6. QED
        BY <3>1, <4>1, <4>2, <4>5 DEF FlowOf
    <3>3. CASE l = i /\ k # p.address
      <4>1. OnTheWire(l, k) = <<>> /\ OnTheWire(l, k)' = <<>>
        BY <2>2, <2>3, <3>3 DEF OnTheWire
      <4>2. fifo'[k][l].buf = fifo[k][l].buf
        BY <2>4, <3>1, <3>3
      <4>3. QED
        BY <3>1, <4>1, <4>2 DEF FlowOf
    <3>4. CASE l # i
      <4>1. OnTheWire(l, k)' = OnTheWire(l, k)
        BY <1>1, <1>3, <3>4 DEF OnTheWire
      <4>2. fifo'[k][l].buf = fifo[k][l].buf
        BY <2>4, <3>1, <3>4
      <4>3. QED
        BY <3>1, <4>1, <4>2 DEF FlowOf
    <3>5. QED
      BY <3>2, <3>3, <3>4
  <2>6. QED
    BY <1>4, <2>5 DEF Flows, Shown
<1>6. CASE ~ \E from \in {"sync", "full"} :
               Store(i, from, IF from = "sync" THEN input[i].cur ELSE rtPacket[i])
  <2>1. /\ fifo' = fifo
        /\ \/ rtPc[i] = "idle" /\ rtPc'[i] = "sync"
           \/ rtPc[i] \in {"sync", "full"} /\ rtPc'[i] = "full"
           \/ rtPc[i] = "awaitRelease" /\ rtPc'[i] = "finish"
           \/ rtPc[i] = "finish" /\ rtPc'[i] = "idle"
    <3>1. ~ Store(i, "sync", input[i].cur) /\ ~ Store(i, "full", rtPacket[i])
      BY <1>6
    <3>2. CASE ReadPacket(i) \/ Retry(i)
      <4>1. \E from \in {"sync", "full"} : \E p : Stall(i, from, p)
        BY <3>1, <3>2 DEF ReadPacket, Retry
      <4>2. QED
        BY <1>2, <4>1 DEF Stall, RtStep, TypeOK, RouterTypeOK
    <3>3. CASE SeeRequest(i) \/ SeeRelease(i) \/ Finish(i)
      BY <1>2, <3>3 DEF SeeRequest, SeeRelease, Finish, RtStep, TypeOK, RouterTypeOK
    <3>4. QED
      BY <3>2, <3>3 DEF RouterStep
  <2>2. rtPc[i] = "finish" => genPc[i] = "awaitEnd"
    BY <1>2, RouterAt DEF At
  <2>3. \A k \in Inputs : Loaded(k)' <=> Loaded(k)
    <3>1. Loaded(i)' <=> Loaded(i)
      BY <1>1, <2>1, <2>2 DEF Loaded
    <3>2. QED
      BY <1>1, <1>3, <3>1 DEF Loaded
  <2>4. QED
    BY <1>1, <1>4, <2>1, <2>3, ServiceStill
<1>7. QED
  BY <1>5, <1>6

(* The kernel moves nothing between flows.                                 *)
LEMMA KernelServes ==
  ASSUME IInv, Update \/ ClockEdge
  PROVE  UNCHANGED <<Flows, Shown>>
<1>1. TypeOK
  BY DEF IInv
<1>2. UNCHANGED <<genPc, rtPc>>
  BY DEF Update, ClockEdge, RouterUpdate, GeneratorUpdate, RouterEdge, GeneratorEdge
<1>3. \A i \in Inputs, j \in Outputs : fifo'[j][i].buf = fifo[j][i].buf
  <2>1. CASE Update
    BY <2>1, NetworkFacts DEF Update, ArbiterUpdate, FifoUpdate
  <2>2. CASE ClockEdge
    BY <2>2 DEF ClockEdge, ArbiterEdge
  <2>3. QED
    BY <2>1, <2>2
<1>4. \A i \in Inputs : input'[i].new = input[i].new
  <2>1. CASE Update
    BY <2>1, WireTypes DEF Update, LinkUpdate, SignalUpdate, Signal
  <2>2. CASE ClockEdge
    BY <2>2 DEF ClockEdge, linkVars
  <2>3. QED
    BY <2>1, <2>2
<1>5. \A j \in Outputs : output'[j].new = output[j].new
  <2>1. CASE Update
    <3>1. \A j \in Outputs : output[j] \in Signal(Packets \cup {NoPacket})
      BY <1>1 DEF TypeOK, ArbiterTypeOK
    <3>2. QED
      BY <2>1, <3>1 DEF Update, ArbiterUpdate, SignalUpdate, Signal
  <2>2. CASE ClockEdge
    BY <2>2 DEF ClockEdge, ArbiterEdge
  <2>3. QED
    BY <2>1, <2>2
<1>6. \A i \in Inputs : Loaded(i)' <=> Loaded(i)
  BY <1>2 DEF Loaded
<1>7. QED
  BY <1>3, <1>4, <1>5, <1>6, ServiceStill

(* The network is a set of bounded lossless queues: no packet is lost,     *)
(* repeated, misrouted or overtaken within its flow, whatever the modes,   *)
(* the size of the network and the depth of its FIFOs.                     *)
THEOREM NetworkServes == Spec => ImplementsService
<1>1. ASSUME Init PROVE Service!Init
  <2>1. \A i \in Inputs, j \in Outputs : FlowOf(i, j) = <<>>
    <3>1. \A i \in Inputs, j \in Outputs :
            fifo[j][i].buf = <<>> /\ OnTheWire(i, j) = <<>>
      BY <1>1, NetworkFacts DEF Init, ArbiterInit, EmptyFifo, GeneratorInit, OnTheWire
    <3>2. <<>> \o <<>> = <<>>
      BY EmptySeq, ConcatEmptySeq
    <3>3. QED
      BY <3>1, <3>2 DEF FlowOf
  <2>2. \A j \in Outputs : output[j].new = NoPacket
    BY <1>1 DEF Init, ArbiterInit, InitSignal
  <2>3. QED
    BY <2>1, <2>2 DEF Service!Init
<1>2. ASSUME IInv, [Next]_vars PROVE [Service!Next]_<<Flows, Shown>>
  <2>1. \A i \in Inputs, j \in Outputs : Flows[i][j] = FlowOf(i, j)
    BY DEF Flows
  <2>2. CASE \E j \in Outputs : ArbiterStep(j)
    <3>1. PICK j \in Outputs : ArbiterStep(j)
      BY <2>2
    <3>2. CASE UNCHANGED <<Flows, Shown>>
      BY <3>2
    <3>3. CASE \E i \in Inputs :
                 /\ FlowOf(i, j) # <<>>
                 /\ Shown' = [Shown EXCEPT ![j] = Head(FlowOf(i, j))]
                 /\ Flows' = [Flows EXCEPT ![i][j] = Tail(FlowOf(i, j))]
      <4>1. PICK i \in Inputs :
                 /\ FlowOf(i, j) # <<>>
                 /\ Shown' = [Shown EXCEPT ![j] = Head(FlowOf(i, j))]
                 /\ Flows' = [Flows EXCEPT ![i][j] = Tail(FlowOf(i, j))]
        BY <3>3
      <4>2. Service!Deliver(i, j)
        BY <2>1, <4>1 DEF Service!Deliver, Flows, Shown
      <4>3. QED
        BY <4>2 DEF Service!Next
    <3>4. QED
      BY <1>2, <3>1, <3>2, <3>3, TransferServes
  <2>3. CASE \E i \in Inputs : GeneratorStep(i)
    <3>1. PICK i \in Inputs : GeneratorStep(i)
      BY <2>3
    <3>2. CASE UNCHANGED <<Flows, Shown>>
      BY <3>2
    <3>3. CASE \E p \in Packets :
                 /\ Len(FlowOf(i, p.address)) < Depth + 1
                 /\ Flows' = [Flows EXCEPT ![i][p.address] = Append(FlowOf(i, p.address), p)]
                 /\ UNCHANGED Shown
      <4>1. PICK p \in Packets :
                 /\ Len(FlowOf(i, p.address)) < Depth + 1
                 /\ Flows' = [Flows EXCEPT ![i][p.address] = Append(FlowOf(i, p.address), p)]
                 /\ UNCHANGED Shown
        BY <3>3
      <4>2. p.address \in Outputs
        BY NetworkFacts
      <4>3. Service!Accept(i, p)
        BY <2>1, <4>1, <4>2 DEF Service!Accept, Flows, Shown
      <4>4. QED
        BY <4>3 DEF Service!Next
    <3>4. QED
      BY <1>2, <3>1, <3>2, <3>3, GeneratorServes
  <2>4. CASE \E i \in Inputs : RouterStep(i)
    BY <1>2, <2>4, RouterServes
  <2>5. CASE Update \/ ClockEdge
    BY <1>2, <2>5, KernelServes
  <2>6. CASE UNCHANGED vars
    <3>1. UNCHANGED <<fifo, output, input, genPc, rtPc>>
      BY <2>6 DEF vars, arbiterVars, linkVars, routerVars, generatorVars
    <3>2. QED
      BY <3>1, ServiceStill DEF Loaded
  <2>7. QED
    BY <1>2, <2>2, <2>3, <2>4, <2>5, <2>6 DEF Next
<1>3. [Service!Next]_<<Flows, Shown>> =>
        [Service!Next]_<<[i \in Inputs |-> [j \in Outputs |-> FlowOf(i, j)]],
                         [j \in Outputs |-> output[j].new]>>
  BY DEF Flows, Shown
<1>4. QED
  BY <1>1, <1>2, <1>3, Invariance, PTL DEF Spec, ImplementsService, Service!Spec

=============================================================================

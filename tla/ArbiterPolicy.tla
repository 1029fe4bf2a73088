---------------------------- MODULE ArbiterPolicy ----------------------------
(***************************************************************************)
(* The five choice functions of noc::arbiter and the updates of their      *)
(* registers (src/src/arbiter.cpp:9-171), as operators.  `avail' is the    *)
(* set of FIFOs whose num_available() is positive.                         *)
(***************************************************************************)
EXTENDS Integers, FiniteSets, Sequences, FiniteSetsExt

CONSTANT NbFifos      \* _nb_fifos: the FIFOs one arbiter serves

(* FIFO numbers travel through `char numFifo', so they must stay below 128.*)
ASSUME NbFifosAssumption == NbFifos \in 1..128

Fifos == 0..(NbFifos - 1)

(* std::numeric_limits<uint8_t>::max(): no FIFO holds a packet.            *)
NoChoice == 255

ChoiceValues == Fifos \cup {NoChoice}

-----------------------------------------------------------------------------
(* RAND: the number-th available FIFO, modulo how many there are.          *)
ChooseRand(number, avail) ==
  IF avail = {} THEN NoChoice
  ELSE CHOOSE i \in avail :
         Cardinality({k \in avail : k < i}) = number % Cardinality(avail)

(* LRU: lru[0] is the FIFO that was served the longest ago.                *)
InitLru == [k \in Fifos |-> k]

\* Mutant: the most recently used FIFO first.
ChooseMru(lru, avail) ==
  IF avail = {} THEN NoChoice
  ELSE lru[Max({k \in Fifos : lru[k] \in avail})]

\* Mutant: only the head of the register is tried.
ChooseLruHead(lru, avail) == IF lru[0] \in avail THEN lru[0] ELSE NoChoice

ChooseLru(lru, avail) ==
  IF avail = {} THEN NoChoice
  ELSE lru[Min({k \in Fifos : lru[k] \in avail})]

\* Mutant: the served FIFO goes last, nothing moves up.
UpdateLruNoShift(lru, served) == [lru EXCEPT ![NbFifos - 1] = served]

(* Everything behind the served FIFO moves one place towards the head and  *)
(* the served FIFO takes the last place.                                   *)
UpdateLru(lru, served) ==
  [k \in Fifos |->
     IF k = NbFifos - 1 THEN served
     ELSE IF \E l \in 0..k : lru[l] = served THEN lru[k + 1] ELSE lru[k]]

\* Mutant: the latest packet first.
ChooseLifo(pushs) == IF pushs = <<>> THEN NoChoice ELSE pushs[Len(pushs)]

(* FIFO: the numbers of the FIFOs in the order their packets came.         *)
ChooseFifo(pushs) == IF pushs = <<>> THEN NoChoice ELSE pushs[1]

\* Mutant: the head is removed, whichever FIFO was served.
DropHead(pushs, served) == Tail(pushs)

(* The first entry of the served FIFO is removed; without one, the last    *)
(* entry is lost, because the count goes down anyway (arbiter.cpp:122).    *)
(* The register is not empty when a packet is transferred                  *)
(* (RegisterMatchesFifos in ArbiterSystem), so the count does not wrap.    *)
UpdateFifo(pushs, served) ==
  [k \in 1..(Len(pushs) - 1) |->
     IF \E l \in 1..k : pushs[l] = served THEN pushs[k + 1] ELSE pushs[k]]

(* The entries of FIFO i in the register.                                  *)
CountOf(pushs, i) == Cardinality({k \in DOMAIN pushs : pushs[k] = i})

(* FIXED: FIFO 0 has the highest priority.                                 *)
ChooseFixed(avail) == IF avail = {} THEN NoChoice ELSE Min(avail)

(* ROUNDROBIN: the first available FIFO after the last one served.         *)
\* Mutant: _nb_fifos instead of _nb_fifos - 1.
LastOutOfRange == NbFifos

InitLast == NbFifos - 1

\* Mutant: the search always starts at FIFO 0.
ChooseFromZero(last, avail) == IF avail = {} THEN NoChoice ELSE Min(avail)

ChooseRoundRobin(last, avail) ==
  IF avail = {} THEN NoChoice
  ELSE LET step == Min({k \in 1..NbFifos : (last + k) % NbFifos \in avail})
       IN  (last + step) % NbFifos

=============================================================================

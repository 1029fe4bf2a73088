---------------------------- MODULE ArbiterSystem ----------------------------
(***************************************************************************)
(* The arbiters under the SystemC kernel, fed by any routers: at a         *)
(* positive edge each input may write one packet into one FIFO that has    *)
(* room.  The routers of the code are slower (module Router), so what      *)
(* holds here holds for them.                                              *)
(*                                                                         *)
(* The kernel: an evaluation phase runs every runnable thread once, in any *)
(* order; when none is left, the update phase publishes what the channels  *)
(* were told and wakes the threads of the events; when nothing was told,   *)
(* time advances to the next clock edge.                                   *)
(***************************************************************************)
EXTENDS Arbiter

CONSTANT CountedMode    \* the mode whose decisions `bypass' counts

ASSUME CountedModeAssumption == CountedMode \in ArbiterModes

VARIABLES
  clock,      \* "pos" after a positive edge, "neg" after a negative one
  writers,    \* the inputs that may still write in this evaluation phase
  bypass,     \* history: how often the mode counted preferred another FIFO
  batches     \* history: the FIFOs written together, oldest batch first

vars == <<fifo, arbiterVars, clock, writers, bypass, batches>>

Init ==
  /\ ArbiterInit
  /\ clock = "neg"
  /\ writers = {}
  /\ bypass = [j \in Outputs |-> [i \in Fifos |-> 0]]
  /\ batches = [j \in Outputs |-> <<>>]

-----------------------------------------------------------------------------
(* History: a decision of the mode counted passes over every available     *)
(* FIFO but the chosen one.                                                *)
CountBypass(j, m) ==
  bypass' =
    [bypass EXCEPT ![j] =
       [i \in Fifos |->
          IF i \notin Avail(j) \/ i = choice'[j] THEN 0
          ELSE IF m = CountedMode THEN @[i] + 1 ELSE @[i]]]

(* History: the served FIFO leaves the oldest batch it is in.              *)
Serve(bs, c) ==
  IF \E k \in DOMAIN bs : c \in bs[k]
  THEN LET k == CHOOSE k \in DOMAIN bs :
                  c \in bs[k] /\ \A l \in 1..(k - 1) : c \notin bs[l]
       IN  IF bs[k] = {c} THEN SubSeq(bs, 1, k - 1) \o SubSeq(bs, k + 1, Len(bs))
                          ELSE [bs EXCEPT ![k] = @ \ {c}]
  ELSE bs

Arbitrate(j) ==
  \E m \in Modes, r \in RandomNumbers :
    /\ Decide(j, m, r)
    /\ CountBypass(j, m)
    /\ UNCHANGED <<clock, writers, batches>>

Compute(j) == AwaitTransfer(j) /\ UNCHANGED <<clock, writers, bypass, batches>>

Deliver(j) ==
  /\ Transfer(j)
  /\ batches' = [batches EXCEPT ![j] = Serve(@, choice[j])]
  /\ UNCHANGED <<clock, writers, bypass>>

RecordArrival(j, i) ==
  PushedInFifo(j, i) /\ UNCHANGED <<clock, writers, bypass, batches>>

(* Router i writes into its FIFO for output j.                             *)
RouterWrite(i, j) ==
  /\ i \in writers
  /\ NumFree(fifo[j][i], Depth) > 0
  /\ \E p \in Packets :
       fifo' = [fifo EXCEPT ![j][i] = FifoWrite(@, Depth, p)]
  /\ writers' = writers \ {i}
  /\ UNCHANGED <<arbiterVars, clock, bypass, batches>>

Update ==
  /\ ~ArbiterRunnable
  /\ ArbiterChanged
  /\ ArbiterUpdate
  /\ writers' = {}
  /\ batches' = [j \in Outputs |->
       LET new == {i \in Fifos : fifo[j][i].numWritten > 0}
       IN  IF new = {} THEN batches[j] ELSE Append(batches[j], new)]
  /\ UNCHANGED <<clock, bypass>>

ClockEdge ==
  /\ ~ArbiterRunnable
  /\ ~ArbiterChanged
  /\ clock' = IF clock = "pos" THEN "neg" ELSE "pos"
  /\ writers' = IF clock' = "pos" THEN Fifos ELSE {}
  /\ ArbiterEdge(clock')
  /\ UNCHANGED <<bypass, batches>>

Next ==
  \/ \E j \in Outputs : Arbitrate(j) \/ Compute(j) \/ Deliver(j)
  \/ \E j \in Outputs, i \in Fifos : RecordArrival(j, i) \/ RouterWrite(i, j)
  \/ Update
  \/ ClockEdge

Spec == Init /\ [][Next]_vars

(* The simulation runs: sc_start() keeps executing what is scheduled.      *)
FairSpec == Spec /\ WF_vars(Next)

-----------------------------------------------------------------------------
(* The values the state variables take.                                    *)
TypeOK ==
  /\ ArbiterTypeOK
  /\ clock \in {"pos", "neg"}
  /\ writers \subseteq Fifos
  /\ bypass \in [Outputs -> [Fifos -> Nat]]
  /\ batches \in [Outputs -> Seq(SUBSET Fifos)]

(* _lru_index stays a permutation of the FIFOs: update_lru() neither loses *)
(* nor repeats one, in whatever order the FIFOs are served.                *)
LruIsPermutation ==
  \A j \in Outputs : \A i \in Fifos : \E k \in Fifos : lru[j][k] = i

(* Two clock edges lie between choosing a FIFO and reading it; the packet  *)
(* seen at the choice is still there, so read() never stops the arbiter.   *)
NeverBlocks == \A j \in Outputs : arbPc[j] # "blocked"

(* The arrival register of FIFO mode has one entry for each packet an      *)
(* arbiter can see, or will have once the notified threads have run.       *)
RegisterMatchesFifos ==
  \A j \in Outputs, i \in Fifos :
    NumAvailable(fifo[j][i]) =
      CountOf(pushs[j], i) + (IF pushRun[j][i] THEN 1 ELSE 0)

(* assert(_in_fifos < _pushs_in_fifos.size()), arbiter.cpp:131.            *)
RegisterFits ==
  \A j \in Outputs : Len(pushs[j]) < 2 * NbFifos * Depth

(* FIFO mode serves a packet of the oldest arrival still waiting, even     *)
(* when other modes have served packets out of order before.               *)
OldestFirst ==
  \A j \in Outputs :
    type[j] = "FIFO" /\ arbPc[j] \in {"computing", "ready"}
      => /\ batches[j] # <<>>
         /\ choice[j] \in Head(batches[j])

(* The mode counted passes over a waiting FIFO at most once for each other *)
(* FIFO.  For LRU this holds whatever modes are driven in between.         *)
BoundedBypass ==
  \A j \in Outputs, i \in Fifos : bypass[j][i] <= NbFifos - 1

(* LRU and FIFO serve every FIFO in the end, even when other modes decide   *)
(* in between: it is enough that one of them decides again and again.      *)
NoStarvation ==
  \A j \in Outputs, i \in Fifos :
    []<>(type[j] \in {"LRU", "FIFO"})
      => (NumAvailable(fifo[j][i]) > 0 ~> choice[j] = i)

(* So does round robin, but only when it is left alone.                    *)
RoundRobinServes ==
  \A j \in Outputs, i \in Fifos :
    <>[](type[j] = "ROUNDROBIN")
      => (NumAvailable(fifo[j][i]) > 0 ~> choice[j] = i)

=============================================================================

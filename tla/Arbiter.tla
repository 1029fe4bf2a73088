------------------------------- MODULE Arbiter -------------------------------
(***************************************************************************)
(* noc::arbiter (src/src/arbiter.cpp): the arbiters of all outputs of the  *)
(* network.  Arbiter j has one process() thread, which needs two clock     *)
(* cycles for a packet (choose at a positive edge, transfer at the next    *)
(* one), and one pushed_in_fifo() thread per FIFO, which records arrivals. *)
(*                                                                         *)
(* A thread that waits for an event resumes in the evaluation phase after  *)
(* the event: the kernel of the module that composes the arbiter sets      *)
(* arbRun and pushRun, the thread's own step clears them.                  *)
(***************************************************************************)
EXTENDS ArbiterPolicy, Channels

CONSTANTS
  Outputs,        \* the outputs of the network, one arbiter each
  Depth,          \* fifo_depth
  Packets,        \* the packets that travel
  NoPacket,       \* packet(), what an output shows before the first transfer
  Modes,          \* the values arb_type may be driven with
  RandomNumbers   \* what the eight bits read from the LFSR may be

ASSUME DepthAssumption == Depth \in Nat \ {0}

ArbiterModes == {"RAND", "LRU", "FIFO", "FIXED", "ROUNDROBIN"}

ASSUME ModesAssumption == Modes \subseteq ArbiterModes
ASSUME RandomAssumption == RandomNumbers \subseteq 0..255 /\ RandomNumbers # {}

VARIABLES
  fifo,      \* fifo[j][i]: the sc_fifo bound to _arbiters[j].fifos[i]
  arbPc,     \* where process() waits
  arbRun,    \* the event process() waits for has happened
  type,      \* the mode read by the current round of process()
  choice,    \* the FIFO chosen in this round, mirrored on choice_out
  lru,       \* _lru_index
  pushs,     \* _pushs_in_fifos[0 .. _in_fifos-1]
  last,      \* _last_used
  pushRun,   \* pushRun[j][i]: pushed_in_fifo thread i has been notified
  output     \* output[j]: the signal to the acceptor

arbiterVars == <<arbPc, arbRun, type, choice, lru, pushs, last, pushRun, output>>

ArbiterTypeOK ==
  /\ fifo \in [Outputs -> [Fifos -> Fifo(Depth, Packets)]]
  /\ arbPc \in [Outputs -> {"idle", "computing", "ready", "blocked"}]
  /\ arbRun \in [Outputs -> BOOLEAN]
  /\ type \in [Outputs -> ArbiterModes]
  /\ choice \in [Outputs -> ChoiceValues]
  /\ lru \in [Outputs -> [Fifos -> Fifos]]
  /\ pushs \in [Outputs -> Seq(Fifos)]
  /\ last \in [Outputs -> Fifos]
  /\ pushRun \in [Outputs -> [Fifos -> BOOLEAN]]
  /\ output \in [Outputs -> Signal(Packets \cup {NoPacket})]

ArbiterInit ==
  /\ fifo = [j \in Outputs |-> [i \in Fifos |-> EmptyFifo]]
  /\ arbPc = [j \in Outputs |-> "idle"]
  /\ arbRun = [j \in Outputs |-> FALSE]
  /\ type = [j \in Outputs |-> "RAND"]
  /\ choice = [j \in Outputs |-> NoChoice]
  /\ lru = [j \in Outputs |-> InitLru]
  /\ pushs = [j \in Outputs |-> <<>>]
  /\ last = [j \in Outputs |-> InitLast]
  /\ pushRun = [j \in Outputs |-> [i \in Fifos |-> FALSE]]
  /\ output = [j \in Outputs |-> InitSignal(NoPacket)]

-----------------------------------------------------------------------------
(* The FIFOs of arbiter j that hold a packet the arbiter can see.          *)
Avail(j) == {i \in Fifos : NumAvailable(fifo[j][i]) > 0}

(* The switch of process(): the choice mode m makes with random number r.  *)
Choose(j, m, r) ==
  CASE m = "RAND"       -> ChooseRand(r, Avail(j))
    [] m = "LRU"        -> ChooseLru(lru[j], Avail(j))
    [] m = "FIFO"       -> ChooseFifo(pushs[j])
    [] m = "FIXED"      -> ChooseFixed(Avail(j))
    [] m = "ROUNDROBIN" -> ChooseRoundRobin(last[j], Avail(j))

(* A positive edge: read the mode, choose, show the choice; with nothing   *)
(* to choose, wait for the next edge.                                      *)
Decide(j, m, r) ==
  /\ arbRun[j]
  /\ arbPc[j] = "idle"
  /\ type' = [type EXCEPT ![j] = m]
  /\ choice' = [choice EXCEPT ![j] = Choose(j, m, r)]
  /\ arbPc' = [arbPc EXCEPT ![j] = IF choice'[j] = NoChoice THEN "idle"
                                                            ELSE "computing"]
  /\ arbRun' = [arbRun EXCEPT ![j] = FALSE]
  /\ UNCHANGED <<fifo, lru, pushs, last, pushRun, output>>

(* The negative edge of the choice processing time.                        *)
AwaitTransfer(j) ==
  /\ arbRun[j]
  /\ arbPc[j] = "computing"
  /\ arbPc' = [arbPc EXCEPT ![j] = "ready"]
  /\ arbRun' = [arbRun EXCEPT ![j] = FALSE]
  /\ UNCHANGED <<fifo, type, choice, lru, pushs, last, pushRun, output>>

\* Mutant: update_fifo() is called in FIFO mode only.
TransferModeOnly(j) ==
  LET c == choice[j] IN
  /\ arbRun[j]
  /\ arbPc[j] = "ready"
  /\ NumAvailable(fifo[j][c]) > 0
  /\ arbRun' = [arbRun EXCEPT ![j] = FALSE]
  /\ arbPc' = [arbPc EXCEPT ![j] = "idle"]
  /\ fifo' = [fifo EXCEPT ![j][c] = FifoRead(@)]
  /\ output' = [output EXCEPT ![j] = SignalWrite(@, Head(fifo[j][c].buf))]
  /\ lru' = [lru EXCEPT ![j] = UpdateLru(@, c)]
  /\ pushs' = [pushs EXCEPT ![j] = IF type[j] = "FIFO" THEN UpdateFifo(@, c) ELSE @]
  /\ last' = [last EXCEPT ![j] = c]
  /\ UNCHANGED <<type, choice, pushRun>>

(* The next positive edge: move the packet and update every register,      *)
(* whatever the mode.  sc_fifo::read() blocks on an empty FIFO.            *)
Transfer(j) ==
  LET c == choice[j] IN
  /\ arbRun[j]
  /\ arbPc[j] = "ready"
  /\ arbRun' = [arbRun EXCEPT ![j] = FALSE]
  /\ IF NumAvailable(fifo[j][c]) = 0
     THEN /\ arbPc' = [arbPc EXCEPT ![j] = "blocked"]
          /\ UNCHANGED <<fifo, lru, pushs, last, output>>
     ELSE /\ arbPc' = [arbPc EXCEPT ![j] = "idle"]
          /\ fifo' = [fifo EXCEPT ![j][c] = FifoRead(@)]
          /\ output' = [output EXCEPT ![j] = SignalWrite(@, Head(fifo[j][c].buf))]
          /\ lru' = [lru EXCEPT ![j] = UpdateLru(@, c)]
          /\ pushs' = [pushs EXCEPT ![j] = UpdateFifo(@, c)]
          /\ last' = [last EXCEPT ![j] = c]
  /\ UNCHANGED <<type, choice, pushRun>>

\* Mutant: an arrival is recorded twice.
PushedTwice(j, i) ==
  /\ pushRun[j][i]
  /\ pushs' = [pushs EXCEPT ![j] = @ \o <<i, i>>]
  /\ pushRun' = [pushRun EXCEPT ![j][i] = FALSE]
  /\ UNCHANGED <<fifo, arbPc, arbRun, type, choice, lru, last, output>>

(* Thread i of pushed_in_fifo(): its FIFO has been written.                *)
PushedInFifo(j, i) ==
  /\ pushRun[j][i]
  /\ pushs' = [pushs EXCEPT ![j] = Append(@, i)]
  /\ pushRun' = [pushRun EXCEPT ![j][i] = FALSE]
  /\ UNCHANGED <<fifo, arbPc, arbRun, type, choice, lru, last, output>>

-----------------------------------------------------------------------------
(* What the kernel does to the arbiters.                                   *)

ArbiterRunnable ==
  \E j \in Outputs : arbRun[j] \/ \E i \in Fifos : pushRun[j][i]

ArbiterChanged ==
  \E j \in Outputs :
    SignalChanged(output[j]) \/ \E i \in Fifos : FifoChanged(fifo[j][i])

(* The update phase of the channels the arbiters use: the FIFOs publish    *)
(* their contents and data_written_event wakes the arrival threads.        *)
ArbiterUpdate ==
  /\ fifo' = [j \in Outputs |-> [i \in Fifos |-> FifoUpdate(fifo[j][i])]]
  /\ pushRun' = [j \in Outputs |-> [i \in Fifos |-> fifo[j][i].numWritten > 0]]
  /\ output' = [j \in Outputs |-> SignalUpdate(output[j])]
  /\ UNCHANGED <<arbPc, arbRun, type, choice, lru, pushs, last>>

(* A clock edge wakes the arbiters that wait for it.                       *)
ArbiterEdge(edge) ==
  /\ arbRun' = [j \in Outputs |->
                  arbPc[j] \in (IF edge = "pos" THEN {"idle", "ready"}
                                                ELSE {"computing"})]
  /\ UNCHANGED <<fifo, arbPc, type, choice, lru, pushs, last, pushRun, output>>

=============================================================================

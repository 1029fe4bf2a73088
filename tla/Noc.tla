--------------------------------- MODULE Noc ---------------------------------
(***************************************************************************)
(* The whole simulated network (src/src/noc.cpp wired as in                *)
(* src/src/test/noc.cpp): a traffic generator and a router per input, an   *)
(* arbiter per output, a FIFO per pair, and the SystemC kernel that        *)
(* interleaves their threads.                                              *)
(***************************************************************************)
EXTENDS Router, Generator

(* noc.cpp:46 gives an arbiter as many FIFOs as there are outputs, and    *)
(* noc.cpp:86 binds one per input: the network is sound only when square. *)
ASSUME SquareAssumption == Inputs = Fifos /\ Outputs = Fifos

ASSUME AddressAssumption == \A p \in Packets : p.address \in Outputs

VARIABLE clock     \* "pos" after a positive edge, "neg" after a negative one

vars == <<fifo, arbiterVars, linkVars, routerVars, generatorVars, clock>>

Init ==
  /\ ArbiterInit
  /\ LinkInit(NoPacket)
  /\ RouterInit
  /\ GeneratorInit
  /\ clock = "neg"

-----------------------------------------------------------------------------
ArbiterStep(j) ==
  /\ \/ \E m \in Modes, r \in RandomNumbers : Decide(j, m, r)
     \/ AwaitTransfer(j)
     \/ Transfer(j)
     \/ \E i \in Fifos : PushedInFifo(j, i)
  /\ UNCHANGED <<linkVars, routerVars, generatorVars, clock>>

RouterStep(i) ==
  /\ SeeRequest(i) \/ ReadPacket(i) \/ Retry(i) \/ SeeRelease(i) \/ Finish(i)
  /\ UNCHANGED <<arbiterVars, generatorVars, clock>>

GeneratorStep(i) ==
  /\ \/ Rest(i)
     \/ \E p \in Packets : Emit(i, p)
     \/ Offer(i)
     \/ SeeAck(i)
     \/ Release(i)
     \/ SeeEnd(i)
  /\ UNCHANGED <<fifo, arbiterVars, routerVars, clock>>

Runnable == ArbiterRunnable \/ \E i \in Inputs : rtRun[i] \/ genRun[i]

Changed == ArbiterChanged \/ LinkChanged

Update ==
  /\ ~Runnable
  /\ Changed
  /\ ArbiterUpdate
  /\ LinkUpdate
  /\ RouterUpdate
  /\ GeneratorUpdate
  /\ UNCHANGED clock

ClockEdge ==
  /\ ~Runnable
  /\ ~Changed
  /\ clock' = IF clock = "pos" THEN "neg" ELSE "pos"
  /\ ArbiterEdge(clock')
  /\ RouterEdge(clock')
  /\ GeneratorEdge(clock')
  /\ UNCHANGED linkVars

Next ==
  \/ \E j \in Outputs : ArbiterStep(j)
  \/ \E i \in Inputs : RouterStep(i) \/ GeneratorStep(i)
  \/ Update
  \/ ClockEdge

Spec == Init /\ [][Next]_vars

FairSpec == Spec /\ WF_vars(Next)

-----------------------------------------------------------------------------
(* The values the state variables take.                                    *)
TypeOK ==
  /\ ArbiterTypeOK
  /\ LinkTypeOK(Packets \cup {NoPacket})
  /\ RouterTypeOK
  /\ GeneratorTypeOK
  /\ clock \in {"pos", "neg"}

(* A packet for output j that the generator has put on the wire and the    *)
(* router has not yet stored.                                              *)
OnTheWire(i, j) ==
  IF /\ genPc[i] \in {"offer", "awaitAck"}
     /\ rtPc[i] \in {"idle", "sync", "full"}
     /\ input[i].new.address = j
  THEN <<input[i].new>> ELSE <<>>

(* The flow from input i to output j: first what is in the FIFO, last what *)
(* is on the wire.                                                         *)
FlowOf(i, j) == fifo[j][i].buf \o OnTheWire(i, j)

(* The network is a set of bounded lossless queues: no packet is lost,     *)
(* duplicated, misrouted or overtaken within its flow.                     *)
Service == INSTANCE NocService WITH
  flow <- [i \in Inputs |-> [j \in Outputs |-> FlowOf(i, j)]],
  shown <- [j \in Outputs |-> output[j].new],
  Capacity <- Depth + 1

ImplementsService == Service!Spec

(* While a request is up and not yet answered the packet on the wire does  *)
(* not change under the router, and a waiting router holds that packet.    *)
PacketStable ==
  \A i \in Inputs :
    /\ rtPc[i] \in {"sync", "full"} => ~SignalChanged(input[i])
    /\ rtPc[i] = "full" => rtPacket[i] = input[i].cur

(* Request and acknowledgement rise and fall in turn.                      *)
FourPhase ==
  [][\A i \in Inputs :
       /\ Rises(activated[i]) /\ activated'[i].cur => ~ack[i].cur
       /\ Falls(activated[i]) /\ ~activated'[i].cur => ack[i].cur
       /\ Rises(ack[i]) /\ ack'[i].cur => activated[i].cur
       /\ Falls(ack[i]) /\ ~ack'[i].cur => ~activated[i].cur]_vars

(* A handshake that has begun ends, also when the FIFO is full.            *)
HandshakeCompletes ==
  \A i \in Inputs : genPc[i] = "offer" ~> genPc[i] = "idle"

(* A packet accepted by the network comes out of it.                       *)
FlowDrains ==
  \A i \in Inputs, j \in Outputs :
    fifo[j][i].buf # <<>> ~> (arbPc[j] = "ready" /\ choice[j] = i)

=============================================================================

------------------------------- MODULE Router -------------------------------
(***************************************************************************)
(* noc::router (src/src/router.cpp): one thread per input that answers the *)
(* handshake and puts the packet into the FIFO of its address, waiting for *)
(* room as long as it takes.                                               *)
(***************************************************************************)
EXTENDS Arbiter, Link

VARIABLES
  rtPc,       \* where main() or read_packet() waits
  rtRun,      \* the event it waits for has happened
  rtPacket    \* the local packet p of read_packet()

routerVars == <<rtPc, rtRun, rtPacket>>

RouterTypeOK ==
  /\ rtPc \in [Inputs -> {"idle", "sync", "full", "awaitRelease", "finish"}]
  /\ rtRun \in [Inputs -> BOOLEAN]
  /\ rtPacket \in [Inputs -> Packets \cup {NoPacket}]

RouterInit ==
  /\ rtPc = [i \in Inputs |-> "idle"]
  /\ rtRun = [i \in Inputs |-> FALSE]
  /\ rtPacket = [i \in Inputs |-> NoPacket]

RtStep(i, from, to) ==
  /\ rtRun[i]
  /\ rtPc[i] = from
  /\ rtPc' = [rtPc EXCEPT ![i] = to]
  /\ rtRun' = [rtRun EXCEPT ![i] = FALSE]

(* activated has risen: wait for the positive edge.                        *)
SeeRequest(i) ==
  RtStep(i, "idle", "sync") /\ UNCHANGED <<fifo, linkVars, rtPacket>>

\* Mutant: num_free() is not looked at.
AlwaysRoom(i, p) == TRUE

HasRoom(i, p) == NumFree(fifo[p.address][i], Depth) > 0

\* Mutant: the router does not wait for activated to fall.
StoreNoRelease(i, from, p) ==
  /\ HasRoom(i, p)
  /\ RtStep(i, from, "finish")
  /\ fifo' = [fifo EXCEPT ![p.address][i] = FifoWrite(@, Depth, p)]
  /\ ack' = [ack EXCEPT ![i] = SignalWrite(@, TRUE)]
  /\ UNCHANGED <<input, activated>>

\* Mutant: the router waits for activated to fall before it acknowledges.
StoreNoAck(i, from, p) ==
  /\ HasRoom(i, p)
  /\ RtStep(i, from, "awaitRelease")
  /\ fifo' = [fifo EXCEPT ![p.address][i] = FifoWrite(@, Depth, p)]
  /\ UNCHANGED linkVars

(* Write packet p and acknowledge it; then wait for activated to fall.     *)
Store(i, from, p) ==
  /\ HasRoom(i, p)
  /\ RtStep(i, from, "awaitRelease")
  /\ fifo' = [fifo EXCEPT ![p.address][i] = FifoWrite(@, Depth, p)]
  /\ ack' = [ack EXCEPT ![i] = SignalWrite(@, TRUE)]
  /\ UNCHANGED <<input, activated>>

(* No room: look again at the next positive edge.                          *)
Stall(i, from, p) ==
  /\ ~HasRoom(i, p)
  /\ RtStep(i, from, "full")
  /\ UNCHANGED <<fifo, linkVars>>

(* The positive edge after the request: read the packet from the wire.     *)
ReadPacket(i) ==
  /\ rtPacket' = [rtPacket EXCEPT ![i] = input[i].cur]
  /\ Store(i, "sync", input[i].cur) \/ Stall(i, "sync", input[i].cur)

(* A later positive edge, the packet is in p already.                      *)
Retry(i) ==
  /\ Store(i, "full", rtPacket[i]) \/ Stall(i, "full", rtPacket[i])
  /\ UNCHANGED rtPacket

(* activated has fallen: wait for the negative edge.                       *)
SeeRelease(i) ==
  RtStep(i, "awaitRelease", "finish") /\ UNCHANGED <<fifo, linkVars, rtPacket>>

(* acknoledge.write(false), and back to the loop of main().                *)
Finish(i) ==
  /\ RtStep(i, "finish", "idle")
  /\ ack' = [ack EXCEPT ![i] = SignalWrite(@, FALSE)]
  /\ UNCHANGED <<fifo, input, activated, rtPacket>>

RouterUpdate ==
  /\ rtRun' = [i \in Inputs |-> \/ rtPc[i] = "idle" /\ Rises(activated[i])
                                \/ rtPc[i] = "awaitRelease" /\ Falls(activated[i])]
  /\ UNCHANGED <<rtPc, rtPacket>>

RouterEdge(edge) ==
  /\ rtRun' = [i \in Inputs |->
                 rtPc[i] \in (IF edge = "pos" THEN {"sync", "full"}
                                              ELSE {"finish"})]
  /\ UNCHANGED <<rtPc, rtPacket>>

=============================================================================

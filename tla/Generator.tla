------------------------------ MODULE Generator ------------------------------
(***************************************************************************)
(* abstract_traffic_generator::emit_random_package() with the loop of      *)
(* generate() around it (src/src/traffic_generator.cpp): when a packet is  *)
(* emitted is left open, so that every period, burst and address life time *)
(* is covered; how it is emitted is the code's.                            *)
(***************************************************************************)
EXTENDS Link

VARIABLES
  genPc,      \* where generate() waits
  genRun      \* the event it waits for has happened

generatorVars == <<genPc, genRun>>

GeneratorTypeOK ==
  /\ genPc \in [Inputs -> {"idle", "offer", "awaitAck", "release", "awaitEnd"}]
  /\ genRun \in [Inputs -> BOOLEAN]

GeneratorInit ==
  /\ genPc = [i \in Inputs |-> "idle"]
  /\ genRun = [i \in Inputs |-> FALSE]

GenStep(i, from, to) ==
  /\ genRun[i]
  /\ genPc[i] = from
  /\ genPc' = [genPc EXCEPT ![i] = to]
  /\ genRun' = [genRun EXCEPT ![i] = FALSE]

(* A positive edge at which nothing is emitted.                            *)
Rest(i) == GenStep(i, "idle", "idle") /\ UNCHANGED linkVars

(* output.write(p), then wait for the negative edge.                       *)
Emit(i, p) ==
  /\ GenStep(i, "idle", "offer")
  /\ input' = [input EXCEPT ![i] = SignalWrite(@, p)]
  /\ UNCHANGED <<activated, ack>>

\* Mutant: the generator goes on without waiting for the acknowledgement.
OfferAndForget(i) ==
  /\ GenStep(i, "offer", "idle")
  /\ activated' = [activated EXCEPT ![i] = SignalWrite(@, TRUE)]
  /\ UNCHANGED <<input, ack>>

(* activated.write(true), then wait for the acknowledgement.               *)
Offer(i) ==
  /\ GenStep(i, "offer", "awaitAck")
  /\ activated' = [activated EXCEPT ![i] = SignalWrite(@, TRUE)]
  /\ UNCHANGED <<input, ack>>

(* The acknowledgement has risen: wait for the positive edge.              *)
SeeAck(i) == GenStep(i, "awaitAck", "release") /\ UNCHANGED linkVars

(* activated.write(false), then wait for the acknowledgement to fall.      *)
Release(i) ==
  /\ GenStep(i, "release", "awaitEnd")
  /\ activated' = [activated EXCEPT ![i] = SignalWrite(@, FALSE)]
  /\ UNCHANGED <<input, ack>>

(* The acknowledgement has fallen: back to the loop of generate().         *)
SeeEnd(i) == GenStep(i, "awaitEnd", "idle") /\ UNCHANGED linkVars

GeneratorUpdate ==
  /\ genRun' = [i \in Inputs |-> \/ genPc[i] = "awaitAck" /\ Rises(ack[i])
                                 \/ genPc[i] = "awaitEnd" /\ Falls(ack[i])]
  /\ UNCHANGED genPc

GeneratorEdge(edge) ==
  /\ genRun' = [i \in Inputs |->
                  genPc[i] \in (IF edge = "pos" THEN {"idle", "release"}
                                                ELSE {"offer"})]
  /\ UNCHANGED genPc

=============================================================================

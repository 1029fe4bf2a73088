-------------------------------- MODULE Link --------------------------------
(***************************************************************************)
(* The signals between a traffic generator and its router: the packet and  *)
(* the two wires of the four-phase handshake (diagrams in                  *)
(* src/src/traffic_generator.cpp:34-39 and src/src/router.cpp:83-92).      *)
(***************************************************************************)
EXTENDS Channels

CONSTANT Inputs      \* the inputs of the network

VARIABLES
  input,       \* the packet on the wire
  activated,   \* the generator's request
  ack          \* the router's acknowledgement

linkVars == <<input, activated, ack>>

LinkInit(initial) ==
  /\ input = [i \in Inputs |-> InitSignal(initial)]
  /\ activated = [i \in Inputs |-> InitSignal(FALSE)]
  /\ ack = [i \in Inputs |-> InitSignal(FALSE)]

LinkTypeOK(T) ==
  /\ input \in [Inputs -> Signal(T)]
  /\ activated \in [Inputs -> Signal(BOOLEAN)]
  /\ ack \in [Inputs -> Signal(BOOLEAN)]

LinkChanged ==
  \E i \in Inputs :
    SignalChanged(input[i]) \/ SignalChanged(activated[i]) \/ SignalChanged(ack[i])

LinkUpdate ==
  /\ input' = [i \in Inputs |-> SignalUpdate(input[i])]
  /\ activated' = [i \in Inputs |-> SignalUpdate(activated[i])]
  /\ ack' = [i \in Inputs |-> SignalUpdate(ack[i])]

(* posedge_event() and negedge_event() of a Boolean signal, at its update. *)
Rises(s) == s.new /\ ~s.cur

Falls(s) == s.cur /\ ~s.new

=============================================================================

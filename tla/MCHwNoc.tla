------------------------------- MODULE MCHwNoc -------------------------------
EXTENDS HwNoc

CONSTANTS Targets, Payloads

MCId == [x \in Inputs |-> x[1] * GroupSize + x[2]]

(* Input zero sends to every target, the others to the first only.         *)
MCPackets ==
  {p \in [target : Targets, id : {MCId[x] : x \in Inputs}, payload : Payloads] :
     p.id = 0 \/ p.target = 0}

MCNoPacket == [target |-> 0, id |-> 0, payload |-> -1]

=============================================================================

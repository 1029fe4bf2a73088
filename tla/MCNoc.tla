-------------------------------- MODULE MCNoc --------------------------------
(* Instances of Noc for TLC: a packet is an address and a datum.           *)
EXTENDS Noc

CONSTANT Data

MCFifos == 0..(NbFifos - 1)
MCPackets == [address : MCFifos, data : {0}] \cup [address : {0}, data : Data]
MCNoPacket == [address |-> 0, data |-> 0]

=============================================================================

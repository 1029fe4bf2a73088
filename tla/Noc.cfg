\* A 2x2 network with one-place FIFOs and LRU arbitration; two kinds of packets
\* to output 0, one to output 1.
CONSTANTS
  NbFifos = 2
  Depth = 1
  Data = {0, 1}
  Inputs <- MCFifos
  Outputs <- MCFifos
  Packets <- MCPackets
  NoPacket <- MCNoPacket
  Modes = {"LRU"}
  RandomNumbers = {0}
SPECIFICATION FairSpec
INVARIANTS
  TypeOK
  PacketStable
PROPERTIES
  ImplementsService
  FourPhase
  HandshakeCompletes
  FlowDrains

\* Three one-place FIFOs of one arbiter, any mode at every decision.
CONSTANTS
  NbFifos = 3
  Outputs = {o1}
  Depth = 1
  Packets = {p1}
  NoPacket = p0
  Modes = {"RAND", "LRU", "FIFO", "FIXED", "ROUNDROBIN"}
  RandomNumbers = {0, 1, 2}
  CountedMode = "LRU"
SPECIFICATION FairSpec
INVARIANTS
  TypeOK
  LruIsPermutation
  NeverBlocks
  BoundedBypass
  RegisterMatchesFifos
  RegisterFits
  OldestFirst
  EveryFifoDrawn
PROPERTIES
  NoStarvation
  RoundRobinServes

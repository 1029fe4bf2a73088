\* Three ports without stages; the mode is switched at will, the LRU mode
\* (see HwSwitchLru.cfg) excepted.
CONSTANTS
  NbPorts = 3
  Stages = 0
  Packets = {p1, p2}
  NoPacket = p0
  UsedModes = {"fixed", "rand", "round"}
SPECIFICATION Spec
INVARIANTS
  TypeOK
  LruIsPermutation
  RoundBypassBounded
PROPERTIES
  ImplementsService

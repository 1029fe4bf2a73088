\* The LRU mode.
CONSTANTS
  NbPorts = 3
  Stages = 1
  Packets = {p1, p2}
  NoPacket = p0
  UsedModes = {"lru"}
SPECIFICATION Spec
INVARIANT
  LruChoosesFirstPending

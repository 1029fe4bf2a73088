\* Three stages, two kinds of packets, any reader, resets.
CONSTANTS
  Stages = 3
  Packets = {p1, p2}
  NoPacket = p0
  MaxAge = 10
SPECIFICATION FairSpec
INVARIANTS
  TypeOK
  LatencyBound
PROPERTIES
  ImplementsQueue
  WriterNotStuck

\* Two groups of one input, two outputs; one group sends to both outputs. With
\* address_base 36 the targets 0 and 1 are the outputs 0 and 2.
CONSTANTS
  AddressBase = 36
  Outs = {0, 2}
  NbGroups = 2
  GroupSize = 1
  fifo_size_8x4 = 0
  fifo_size_4x1 = 0
  UsedModes = {"round"}
  Targets = {0, 1}
  Payloads = {0}
  Packets <- MCPackets
  NoPacket <- MCNoPacket
  Id <- MCId
SPECIFICATION FairSpec
PROPERTIES
  ImplementsService
  InputsServed

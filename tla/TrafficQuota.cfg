\* A router that never stalls for long, and time for a burst of three packets, one
\* every four edges, before the next one is due.
CONSTANTS
  MaxStall = 2
  AddressMin = 1
  AddressMax = 3
  MaxLifeTime = 4
  Period = 5
  LongPeriod = 18
  ShortPeriod = 4
  BurstLength = 3
SPECIFICATION FairSpec
PROPERTIES
  QuotaIsBurstLength

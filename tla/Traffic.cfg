\* A stream of period five, or bursts of fourteen edges, four apart,
\* every eighteen; emissions of two to eight edges; life times of 0 to 3.
CONSTANTS
  MaxStall = 8
  AddressMin = 1
  AddressMax = 3
  MaxLifeTime = 4
  Period = 5
  LongPeriod = 18
  ShortPeriod = 4
  BurstLength = 14
SPECIFICATION FairSpec
INVARIANTS
  NotTooSlow
  LeftInTime
PROPERTIES
  NotTooFast
  ScheduleKept
  BurstsRecur

CONSTANTS
  p1 = p1
  p2 = p2
  e1 = e1
  e2 = e2
  Threads <- MCThreads
  Events <- MCEvents
  Static <- MCStatic
  EventLists <- MCEventLists
  Delays = {1, 2}
  MaxCycles = 2
  NoThread = none
  NoEvent = nothing
SPECIFICATION Spec
INVARIANTS
  CyclesAreNotifications
CHECK_DEADLOCK FALSE

\* Two generators that may draw the same data twice.
CONSTANTS
  Inputs = {i1, i2}
  Data = {d1, d2}
  NoData = d0
  Extras = {e1, e2, e3}
  Null = null
  Depth = 1
  Fresh = FALSE
SPECIFICATION TracerSpec
INVARIANT
  WatchedIsLive

\* Two inputs; contents are not repeated while in use.
CONSTANTS
  Inputs = {i1, i2}
  Data = {d1, d2, d3, d4}
  NoData = d0
  Extras = {e1, e2, e3, e4, e5}
  Null = null
  Depth = 1
  Fresh = TRUE
SPECIFICATION TracerSpec
INVARIANTS
  WatchedIsLive
  NoExtraLost

SPECIFICATION FairSpec
CONSTANTS
  Settings <- SomePages
  MaxConns = 2
  MaxEvents = 3
  MaxDrops = 1
  Buffer = 1
  ReplayCap = 2
  Margin = 2
  Overlap = 0
  MaxPerKey = 1
  Calm = TRUE
INVARIANTS StreamExact LimiterExact ScreenCurrent
PROPERTY StreamSettles

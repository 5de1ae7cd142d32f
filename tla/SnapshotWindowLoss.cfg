SPECIFICATION WindowSpec
CONSTANTS
  p1 = p1
  p2 = p2
  PV <- TwoPvs
  Listed <- FirstTwice
  Kinds <- Periodic
  TimeWindow = 2
  FastDefault = 1
  Reserve = 1
  Grow = 2
  MaxEvents = 2
  MaxTime = 5
INVARIANT Lossless

SPECIFICATION WindowSpec
CONSTANTS
  p1 = p1
  p2 = p2
  PV <- TwoPvs
  Listed <- FirstTwice
  Kinds <- AllKinds
  TimeWindow = 2
  FastDefault = 1
  Reserve = 1
  Grow = 2
  MaxEvents = 3
  MaxTime = 4
INVARIANT WindowInv
PROPERTY ImplementsStream

SPECIFICATION FairSpec
CONSTANTS
  o1 = o1
  o2 = o2
  s1 = s1
  s2 = s2
  Op <- TwoOps
  Name <- TwoNames
  NameOf <- OwnNames
  Buffered <- None
  Triggered <- SecondOp
  Threads = 2
  MaxTurns = 1
  MaxTasks = 4
  MaxIter = 2
PROPERTIES ImplementsTopic TriggerServed

SPECIFICATION Spec
CONSTANTS
  o1 = o1
  o2 = o2
  s1 = s1
  s2 = s2
  Op <- OneOp
  Name <- OneName
  NameOf <- SoloName
  Buffered <- OneOp
  Triggered <- None
  Threads = 2
  MaxTurns = 2
  MaxTasks = 3
  MaxIter = 3
INVARIANTS TailEndsIteration

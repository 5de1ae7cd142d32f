SPECIFICATION Spec
CONSTANTS
  o1 = o1
  o2 = o2
  s1 = s1
  s2 = s2
  Op <- TwoOps
  Name <- OneName
  NameOf <- SameName
  Buffered <- None
  Triggered <- None
  Threads = 1
  MaxTurns = 1
  MaxTasks = 4
  MaxIter = 4
INVARIANTS NobodyWaitsOnErasedCv

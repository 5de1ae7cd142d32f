SPECIFICATION Spec
CONSTANTS
  o1 = o1
  o2 = o2
  s1 = s1
  s2 = s2
  Op <- TwoOps
  Name <- OneName
  NameOf <- SameName
  Buffered <- FirstOp
  Triggered <- SecondOp
  Threads = 1
  MaxTurns = 2
  MaxTasks = 6
  MaxIter = 6
INVARIANT NoSubmissionWithoutIteration
PROPERTIES ImplementsTopic QuietAfterRemoval

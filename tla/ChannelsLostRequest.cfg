SPECIFICATION Spec
CONSTANTS
  p1 = p1
  p2 = p2
  c1 = c1
  c2 = c2
  e1 = e1
  e2 = e2
  NoEntry = NoEntry
  Entry <- TwoEntries
  Pv <- OnePv
  Client <- TwoClients
  Threads = 1
  MaxVersion = 1
INVARIANTS HeldIsMonitored

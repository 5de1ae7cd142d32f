SPECIFICATION FairSpec
CONSTANTS
  m1 = m1
  m2 = m2
  p1 = p1
  p2 = p2
  s1 = s1
  t1 = t1
  Scanner = Scanner
  Monitor <- TwoMonitors
  Pv <- TwoPvs
  PvOf <- EachPv
  Refused <- BadName
  Ser <- OneSer
  Command <- Each
  Thread <- OneThread
  Limit = 1
  Timeout = 0
  PurgeQueue = TRUE
  MaxRequests = 2
INVARIANT RowsConfigured
PROPERTIES IdleLongEnough ReadyMeansRestored StartupEnds

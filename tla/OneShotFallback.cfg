SPECIFICATION Spec
CONSTANTS
  c1 = c1
  shared = shared
  joined = joined
  scalar = scalar
  enum = enum
  bad = bad
  Service = service
  BadName = bad
  PV <- AllPvs
  Ca <- CaPvs
  Enum <- EnumPvs
  Wave <- WavePvs
  Monitored <- MonitoredPvs
  Cmd <- OneCmd
  Lists <- SharedList
  Threads = 1
  MaxVersion = 2
  Sample <- Samples
  MaxLost = 0
INVARIANT FallbackDelivers

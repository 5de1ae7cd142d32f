SPECIFICATION FairSpec
CONSTANTS
  Logs <- AllLogs
  MaxLog = 2
  MaxFetch = 2
  Threads = 1
  MaxTrouble = 2
INVARIANTS CommitCovered SuccessMeansWritten PipelineInv
PROPERTIES ClientsAnswered ShutdownEnds

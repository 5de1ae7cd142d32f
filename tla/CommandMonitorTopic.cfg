SPECIFICATION Spec
CONSTANTS
  Logs <- OneMonitor
  MaxLog = 1
  MaxFetch = 1
  Threads = 1
  MaxTrouble = 0
INVARIANT MonitorDestinationHonoured

SPECIFICATION FairSpec
CONSTANTS
  NScans = 3
  Scan <- MCScan
  Vdev <- MCVdev
  Pdev <- MCPdev
  VdevOf <- MCVdevOf
  PdevOf <- MCPdevOf
  CancelReqs <- MCCancelReqs
  Doomed = {2}
  MaxActive = 1
  MaxPending = 1
  NTimers = 1
  MaxMsgs = 1
  MaxEvents = 1
  NoScan = NoScan
CHECK_DEADLOCK FALSE
INVARIANTS
  OneCompletion
  RefsExact
  ActiveTimed
  
  WaitsForLimit
PROPERTIES
  RequestEnds

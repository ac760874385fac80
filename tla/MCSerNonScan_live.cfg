SPECIFICATION FairSpec
CONSTANTS
  a1 = a1
  b1 = b1
  a2 = a2
  b2 = b2
  c1 = c1
  a3 = a3
  v1 = v1
  v2 = v2
  v3 = v3
  NoNode = NoNode
  NoCmd = NoCmd
  VdevOf <- MCVdevOf
  IdType <- MCIdType
  Cmd = {a1, c1}
  Vdev = {v1}
  Node = {n1, n2, n3}
  Thread = {t1, t2}
  Sched = t1
  NTimers = 1
  Blocking = {}
  HighPriority = {}
  QueueDisabling = {}
  CancelReqs <- CancelTypePending
  Doomed = {}
  PdevActiveMax = 1
  PdevPendingMax = 2
  VdevActiveMax = 1
  VdevPendingMax = 2
  MaxWaiting = 2
  MaxDepth = 2
  MaxTimerMsgs = 1
  PostMayFail = FALSE
INVARIANTS
  NothingStranded
PROPERTIES
  PendingServed

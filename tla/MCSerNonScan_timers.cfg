SPECIFICATION Spec
CONSTANTS
  a1 = a1
  b1 = b1
  a2 = a2
  b2 = b2
  c1 = c1
  a3 = a3
  v1 = v1
  v2 = v2
  v3 = v3
  NoNode = NoNode
  NoCmd = NoCmd
  VdevOf <- MCVdevOf
  IdType <- MCIdType
  Cmd = {a1, b1, c1, a2, b2}
  Vdev = {v1, v2}
  Node = {n1, n2, n3}
  Thread = {t1}
  Sched = t1
  NTimers = 2
  Blocking = {b1, b2}
  HighPriority = {a1}
  QueueDisabling = {b1}
  CancelReqs <- SeqCancels
  Doomed = {v2}
  PdevActiveMax = 2
  PdevPendingMax = 4
  VdevActiveMax = 1
  VdevPendingMax = 2
  MaxWaiting = 1
  MaxDepth = 2
  MaxTimerMsgs = 1
  PostMayFail = TRUE
INVARIANTS
  RefsBalanced
PROPERTIES
  VdevOrderKept
  ExclusiveIfCounted

SPECIFICATION Spec
CONSTANTS
  a1 = a1
  b1 = b1
  a2 = a2
  b2 = b2
  c1 = c1
  a3 = a3
  v1 = v1
  v2 = v2
  v3 = v3
  NoNode = NoNode
  NoCmd = NoCmd
  VdevOf <- MCVdevOf
  IdType <- MCIdType
  Cmd = {a1, b1, c1, a2, a3}
  Vdev = {v1, v2, v3}
  Node = {n1, n2, n3, n4, n5}
  Thread = {t1}
  Sched = t1
  NTimers = 3
  Blocking = {b1}
  HighPriority = {}
  QueueDisabling = {}
  CancelReqs <- NoCancels
  Doomed = {}
  PdevActiveMax = 3
  PdevPendingMax = 9
  VdevActiveMax = 1
  VdevPendingMax = 3
  MaxWaiting = 1
  MaxDepth = 2
  MaxTimerMsgs = 1
  PostMayFail = FALSE
SYMMETRY NodeSymmetry
INVARIANTS
  NothingStranded

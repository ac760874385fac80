SPECIFICATION Spec
CONSTANTS
  a1 = a1
  b1 = b1
  a2 = a2
  b2 = b2
  c1 = c1
  a3 = a3
  v1 = v1
  v2 = v2
  v3 = v3
  NoNode = NoNode
  NoCmd = NoCmd
  VdevOf <- MCVdevOf
  IdType <- MCIdType
  Cmd = {a1, b1, a2}
  Vdev = {v1, v2}
  Node = {n1, n2, n3}
  Thread = {t1, t2}
  Sched = t1
  NTimers = 2
  Blocking = {b1}
  HighPriority = {}
  QueueDisabling = {}
  CancelReqs <- PurgeV1
  Doomed = {}
  PdevActiveMax = 2
  PdevPendingMax = 3
  VdevActiveMax = 1
  VdevPendingMax = 2
  MaxWaiting = 1
  MaxDepth = 2
  MaxTimerMsgs = 0
  PostMayFail = FALSE
SYMMETRY NodeSymmetry
INVARIANTS
  TypeOK
  MoveNeverFails
  NodesConserved
  ListsAgree
  BitmapExact
  MarkedHasOneActivator
  TimersMatchActive

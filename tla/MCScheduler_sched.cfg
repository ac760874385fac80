SPECIFICATION FairSpec
CONSTANTS
  u1 = u1
  u2 = u2
  l1 = l1
  l2 = l2
  p1 = p1
  p2 = p2
  NoMsg = NoMsg
  Msg = {u1, u2, l1, l2}
  Poster = {p1, p2}
  NQueues = 2
  MaxMessages = 3
  Where <- MCWhere
  High = {l2}
  MayGiveUp = TRUE
  Quiet = TRUE
INVARIANTS
  TypeOK
  DepthExact
  NoLostWakeup
  FlushedWhenOff
  SuspendedIdle
PROPERTIES
  SuspendAnswered
  DisableReturns
  TopQueueServed

SPECIFICATION FairSpec
CONSTANTS
  NPkt = 3
  PmPkt = {3}
  BigPkt = {2}
  Senders = {s1, s2}
  Completers = {ce, s1}
  Rx = rx
  Work = work
  Total = 3
  PerMaxMsg = 2
  RingSize = 2
  MaxCmds = 3
  MaxLeaked = 1
CHECK_DEADLOCK FALSE
INVARIANTS
  PipelineExact
  CreditsExact
  PmBalanced
PROPERTIES
  QueueServed

SPECIFICATION FairSpec
CONSTANTS
  MaxFw = 2
  MaxMsgs = 1
INVARIANTS
  
  
  OneCommand
  NotStuck

  
  

SPECIFICATION Spec
CONSTANTS
  MaxFw = 2
  MaxMsgs = 1
INVARIANT StoppedWithResponse

SPECIFICATION MCSpec
CONSTANTS
  Banks = {b1, b2, b3}
  Interval = 1
  Timeout = 1
  MaxShift = 1
  MaxDelay = 2
  MaxSessions = 2
INVARIANTS
  SharedEpoch
  ListedAsSent
PROPERTIES
  StopReturns
  AllTransmit
  LeftByRight
  
  SessionsLeave

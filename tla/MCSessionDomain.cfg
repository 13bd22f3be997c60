SPECIFICATION PublicationSpec
CONSTANTS
  Interval = 1
  Timeout = 1
  MaxShift = 1
  MaxDelay = 2
  MaxSessions = 2
INVARIANT
  ListedInDomain

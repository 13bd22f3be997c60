SPECIFICATION PromptSpec
CONSTANTS
  Masters = {m1, m2}
  NoMaster = none
  Ranks = {1, 2}
  SyncSequences = {0}
  DelayRange = 2
  Offsets = {0, 2, 5}
  AnnounceLimit = 2
  SyncLimit = 1
  MeasureLimit = 1
  RequestInterval = 1
  Tolerance = 2
  FilterDivisor = 2
  StableNeeded = 2
  OriginLimit = 3
PROPERTY
  LockNeedsFollowUp

SPECIFICATION PaceSpec
CONSTANTS
  SlotCount = 4
  TargetPackets = 2
  SequenceRange = 16
  CountRange = 16
  Ssrc = {a, b}
  NoSsrc = none
  FirstSequence <- BeforeTheWrap
  MaxNumber = 2
  MaxSent = 0
  MaxInFlight = 1
  MaxDuplicates = 0
  MaxTicks = 0
  RestartSequences = {0, 1, 5, 10}
  MaxDrift = 2
  MaxReopen = 1
PROPERTIES
  RestartIsHeard
  NeverSilentForGood

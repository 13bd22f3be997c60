SPECIFICATION Spec
CONSTANTS
  SlotCount = 3
  TargetPackets = 2
  SequenceRange = 12
  CountRange = 16
  Ssrc = {a, b}
  FirstSequence <- BeforeTheWrap
  MaxNumber = 4
  MaxSent = 4
  MaxInFlight = 2
  MaxDuplicates = 1
  MaxTicks = 4
  NoSsrc = none
SYMMETRY Alike
INVARIANTS
  NoPayloadRace
  BufferedExact
  SourcesNotMixed
PROPERTIES
  PlayedInOrder
CHECK_DEADLOCK FALSE

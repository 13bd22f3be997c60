SPECIFICATION MCSpec
CONSTANTS
  Capacity = 3
  IndexRange = 6
  MaxBlock = 2
  Samples = {s1, s2}
  ChannelCount = 3
  RingCapacity = 2
  WriteSizes = {1, 2}
  ReadSizes = {1, 2}
  MaxFrames = 3
  Silence = silence
  Widths = {1, 2}
  FrameCount = 2
  Full = 7
  Grid = 4
  NaN = nan
  Second = 20
  Rate = 8
  StampRange = 8
  Offsets <- SomeOffsets
  Levels <- SomeLevels
  MaxSlots = 5
  MaxCsrc = 2
  MaxWords = 2
  MaxSize = 44
INVARIANTS
  NoSlotShared
  CopiesIntact
  SkewIsExplained
  DecodeExact
  FramesArrive
PROPERTIES
  ImplementsFifo
  StampsAdvance

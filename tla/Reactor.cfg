CONSTANTS
  FrameSizes <- MCFrameSizes
  MaxFrame = 3
  LowWater = 2
  HighWater = 3
  HardLimit = 4
  MaxDrops = 2
  MaxCalls = 4
SPECIFICATION MCSpec
INVARIANTS
  MemoryBounded
  FramesFollowStream
  NobodyIsForgotten
  AcceptedIsAccountedFor
PROPERTIES
  SlowPeersEnd
  ImplementsKeyedOrder

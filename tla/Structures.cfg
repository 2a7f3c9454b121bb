SPECIFICATION StructuresSpec
CONSTANTS
  Keys = {k1, k2, k3}
  MaxFreq = 3
  Capacity = 2
  MaxFactor = 1
  Sizes = {0, 3}
  Controllers = {"default", "memory", "load"}
  LoadFactor = 90
  LowWaterMark = 30
  GrowFactor = 200
  ShrinkFactor = 50
  Threads = {t1, t2, t3}
  MaxPushes = 2
  MaxPops = 2
  CacheKeys = {a, b, c}
  Readers = {r1}
  CacheSize = 2
  MaxSets = 4
  MaxTime = 3
  Elements = {1, 2, 3, 4, 5, 6, 7}
  Others = {{2, 4, 6}, {1, 3, 7}}
  NumElements = 4
  Askers = {a1, a2}
  QueueUsers = {c1, c2}
  ChannelCapacity = 2
  MaxElements = 4
  Width = 4
  MaxBitmapValue = 7
  ArrayToBitmapThreshold = 2
  BitmapToArrayThreshold = 2
  OtherContents = {{0, 1, 2, 6}, {4, 5, 6, 7}, {2, 3, 5}}
  MaxNodes = 3
  MaxEdges = 3
  Targets = {g1, g2, g3}
  MaxSelections = 4
  PipelineStages = {1, 2, 3}
  MaxTransitions = 2
  MaxExecutions = 1
  ByteBase = 7
  ShortBytes = 2
  LongBytes = 3
  MinMessageLength = 10
  MessageHeaderSize = 5
  MessageSlotSize = 36
  MessageSlots = 2
  MaxMessageWrites = 3
INVARIANTS LFUExact QueuesExact TTLExact ConnectionsExact OthersExact TargetsTakeTurns
PROPERTIES EvictsLeastUsed QueueIsFIFO
CHECK_DEADLOCK FALSE

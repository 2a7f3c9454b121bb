SPECIFICATION FairSpec
CONSTANTS
  SlotCount = 2
  MaxOrders = 4
  MaxCrashes = 2
  Modes = {"once", "forever", "timed"}
  NoMsg = NoMsg
INVARIANTS SlotExclusion PublishedOnce PointerUntilReused DrainedWhenFinished
PROPERTIES ImplementsFIFO Delivered SendReturns
CHECK_DEADLOCK FALSE

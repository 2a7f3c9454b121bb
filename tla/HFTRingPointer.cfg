SPECIFICATION Spec
CONSTANTS
  SlotCount = 1
  MaxOrders = 2
  MaxCrashes = 0
  Modes = {"once"}
  NoMsg = NoMsg
INVARIANT PointerUntilNextConsume
CHECK_DEADLOCK FALSE

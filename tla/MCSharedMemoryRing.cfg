SPECIFICATION MCSpec
CONSTANTS
  p1 = p1
  p2 = p2
  c1 = c1
  c2 = c2
  Producers <- MCProducers
  Consumers <- MCConsumers
  SlotCount = 2
  MaxSends = 3
  MaxCrashes = 1
  CountModulus = 8
  NoMsg = NoMsg
INVARIANTS SlotExclusion HandledInOrder CountSettles
PROPERTIES ImplementsFIFO Delivered
CHECK_DEADLOCK FALSE

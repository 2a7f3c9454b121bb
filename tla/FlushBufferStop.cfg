SPECIFICATION Spec
CONSTANTS
  Clients = {c1, c2}
  Loop = Loop
  Capacity = 2
  MaxItems = 2
  MaxBatch = 1
  MayFail = FALSE
  ContextAware = TRUE
INVARIANT StopDelivers
CHECK_DEADLOCK FALSE

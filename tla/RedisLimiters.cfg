SPECIFICATION MCSpec
CONSTANTS
  Kinds = {"direct", "script", "batch"}
  Burst = 2
  TicksPerToken = 2
  MaxClock = 2
  MaxUpsets = 1
  Requests = {r1, r2, r3}
  Asks = {1, 2}
  NumShards = 2
  QueueSize = 2
  MaxBatch = 2
  Callers = {c1, c2}
  MaxRetry = 2
CHECK_DEADLOCK FALSE
SYMMETRY Symmetry
INVARIANTS WithinLimit OnePlace ResultsKept

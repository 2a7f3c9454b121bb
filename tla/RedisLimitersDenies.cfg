SPECIFICATION Spec
CONSTANTS
  Kinds = {"direct"}
  Burst = 2
  TicksPerToken = 2
  MaxClock = 2
  MaxUpsets = 0
  Requests = {r1, r2, r3}
  Asks = {2}
  NumShards = 2
  QueueSize = 2
  MaxBatch = 2
  Callers = {c1, c2, c3}
  MaxRetry = 2
CHECK_DEADLOCK FALSE
PROPERTY DeniedWhenExhausted

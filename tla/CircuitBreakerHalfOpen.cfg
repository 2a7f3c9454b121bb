SPECIFICATION Spec
CONSTANTS
  Callers = {c1, c2}
  Limits = {1}
  TripAfter = 1
  MaxCount = 5
  MaxManual = 0
  MaxFailures = 2
INVARIANT HalfOpenLimit

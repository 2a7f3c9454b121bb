SPECIFICATION StabilitySpec
CONSTANTS
  Callers = {c1, c2, c3}
  Limits = {1, 2}
  TripAfter = 1
  MaxCount = 5
  MaxManual = 1
  MaxFailures = 3
  Bursts = {1, 2}
  MaxN = 2
  MaxCalls = 1
INVARIANTS TripsInTime HalfOpenAdmits BucketExact
PROPERTIES ClosesAfterSuccesses StaysOpen Recovers ClosedAdmitsNobody SleeperWakes
CHECK_DEADLOCK FALSE

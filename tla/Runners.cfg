SPECIFICATION RunnersSpec
CONSTANTS
  Clients = {c1, c2}
  Loop = Loop
  Capacity = 2
  MaxItems = 4
  MaxBatch = 3
  MayFail = TRUE
  ContextAware = FALSE
  MaxTasks = 3
  Submitters = {s1}
  Puller = pl
  Workers = {w1}
  QueueSize = 1
  TaskQueueSize = 1
  PollerIDs = {a}
  MaxPollers = 2
  Stoppers = {s1, s2}
  MaxRetries = 1
  ChannelSize = 1
  PoolClients = {c1, c2}
  MaxSubmits = 4
  NumWorkers = 2
  PoolQueueSize = 1
  MaxJobStarts = 3
  TaskIDs = {a}
  MaxRegistrations = 2
  MaxStarts = 2
  MaxRuns = 3
  StateIDs = {a, b, c}
  EventSenders = {c1, c2}
  MaxEvents = 3
  MaxInitializations = 2
  TriggerIDs = {t1}
  EventTypes = {e1}
  Firers = {f1, f2}
  MaxFired = 3
  MaxDepth = 2
  MaxWrites = 2
  OneTimeRetries = 1
  MaxPolls = 2
  KafkaClients = {c1, c2}
  InputSize = 1
  MaxMessages = 3
  NumHandlers = 2
  MaxOffset = 3
  MaxSessions = 3
INVARIANTS BufferExact TasksExact PollersExact SubmitExact ScheduleExact HooksExact OnceExact
PROPERTIES WorkGetsDone EverythingEnds
CHECK_DEADLOCK FALSE

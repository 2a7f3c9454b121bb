SPECIFICATION TriggersSpec
CONSTANTS
  TriggerIDs = {t1}
  EventTypes = {e1}
  Firers = {f1}
  MaxFired = 2
  MaxDepth = 2
  MaxWrites = 2
PROPERTY EventsEnd
CHECK_DEADLOCK FALSE

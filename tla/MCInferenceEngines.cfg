SPECIFICATION LiveSpec
CONSTANTS
  e1 = e1
  e2 = e2
  Engines <- MCEngines
  Classes <- MCClasses
  Callers = {c1, c2}
  Workers = 2
  MaxCalls = 2
  MaxHung = 1
CHECK_DEADLOCK FALSE
INVARIANTS
  TypeOK
  FailsOnlyUnloaded
  QueuedIsWanted
PROPERTIES
  CallsReturn
  LoadsEnd

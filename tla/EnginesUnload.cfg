SPECIFICATION Spec
CONSTANTS
  e1 = e1
  e2 = e2
  Engines <- MCEngines
  Classes <- MCClasses
  Callers = {c1, c2}
  Workers = 2
  MaxCalls = 2
  MaxHung = 0
CHECK_DEADLOCK FALSE
INVARIANT
  UnloadFrees

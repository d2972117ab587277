SPECIFICATION Spec
CONSTANTS
  Conns = {c1, c2, c3}
  Sids = {s1, s2}
  Engines = {e1, e2}
  NoConn = NoConn
INVARIANTS
  TypeOK
  OneSessionPerId
  HandlerIsOwn
  SlotIsHeld
  ClosedOnce
  RunningIsWarm
SYMMETRY Symmetry
CHECK_DEADLOCK FALSE

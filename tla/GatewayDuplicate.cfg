SPECIFICATION Spec
CONSTANTS
  Conns = {c1, c2}
  Sids = {s1}
  Engines = {e1, e2}
  NoConn = NoConn
PROPERTY DuplicateIsReal
CHECK_DEADLOCK FALSE

SPECIFICATION FairSpec
CONSTANTS
  Conns = {c1, c2}
  Sids = {s1}
  Engines = {e1, e2}
  NoConn = NoConn
PROPERTIES
  ClaimIsAnswered
  LeaverIsCleanedUp
CHECK_DEADLOCK FALSE

SPECIFICATION FairSpec
CONSTANTS
  Host = {h1}
  Thread = {t1, t2}
  Client = {c1, c2}
  MaxNotices = 1
  None = None
INVARIANTS
  AliveIffHeld
  PoolFollowsNotices
PROPERTIES
  RemovalEnds
  CallReturns
CHECK_DEADLOCK FALSE

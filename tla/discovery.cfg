SPECIFICATION DiscoverySpec
CONSTANTS
  Client = me
  Provider = {p1, p2}
  Conn <- MCConn
  Method = {m1, m2}
  Host = {h1, h2}
  Thread = {t1, t2}
  MaxCalls = 1
  MaxMethods = 2
  MaxOutbox = 9
  Id <- MCId
  None = None
  Garbage = Garbage
SYMMETRY Symmetry
INVARIANTS
  DiscoveryTypeOK
  IndexesAgree
  AnswersReplay
  CacheFollowsRegistry
CHECK_DEADLOCK FALSE

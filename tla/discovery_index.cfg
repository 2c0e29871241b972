SPECIFICATION DiscoverySpec
CONSTANTS
  Client = me
  Provider = {p1, p2}
  Conn <- MCConn
  Method = {m1}
  Host = {h1, h2}
  Thread = {t1, t2}
  MaxCalls = 2
  MaxMethods = 1
  MaxOutbox = 9
  Id <- MCId
  None = None
  Garbage = Garbage
SYMMETRY Symmetry
INVARIANTS
  ChosenIsHost
CHECK_DEADLOCK FALSE

SPECIFICATION TopicsSpec
CONSTANTS
  Client = me
  Peer = {p1}
  Conn <- MCConn
  Topic = {t1}
  Thread = {a}
  MaxCalls = 1
  ClientOps = {"subscribe"}
  PeerId = peer
  Id <- MCId
  MaxOutbox = 2
INVARIANT HandlerBeforeMessage
CHECK_DEADLOCK FALSE

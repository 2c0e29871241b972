SPECIFICATION TopicsSpec
CONSTANTS
  Client = me
  Peer = {p1}
  Conn <- MCConn
  Topic = {t1, t2}
  Thread = {a, b}
  MaxCalls = 1
  ClientOps = {"subscribe", "cancel", "publish"}
  PeerId = peer
  Id <- MCId
  MaxOutbox = 2
SYMMETRY Symmetry
INVARIANTS
  TopicsTypeOK
  LinksAgree
  BeliefTrue
  HandlerUnlessSpoilt
PROPERTIES
  PubSubSpec
CHECK_DEADLOCK FALSE

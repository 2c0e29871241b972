SPECIFICATION FairCaller
CONSTANTS
  SyncReq = {s1}
  FutureReq = {}
  AsyncCall = {a1}
  MessageCall = {m1}
  CallbackReq <- MCCallbackReq
  Conn = {k1, k2}
  NotifyOnClose = FALSE
  None = None
  OK = OK
  Error = Error
  Rcode <- MCRcode
CHECK_DEADLOCK FALSE
PROPERTIES
  UserCallsSpec
  AnsweredFutureResolves

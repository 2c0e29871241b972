SPECIFICATION FairSpec
CONSTANTS
  SyncReq = {}
  FutureReq = {f1}
  CallbackReq = {}
  Conn = {k1}
  NotifyOnClose = FALSE
  None = None
CHECK_DEADLOCK FALSE
PROPERTIES
  DisconnectSettlesPending

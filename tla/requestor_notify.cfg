SPECIFICATION FairSpec
CONSTANTS
  SyncReq = {s1}
  FutureReq = {f1}
  CallbackReq = {c1}
  Conn = {k1, k2}
  NotifyOnClose = TRUE
  None = None
CHECK_DEADLOCK FALSE
INVARIANTS
  OnlyOtherLossCrashes
PROPERTIES
  DisconnectSettlesPending
  CallsSpec

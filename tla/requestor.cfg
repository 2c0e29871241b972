SPECIFICATION FairSpec
CONSTANTS
  SyncReq = {s1}
  FutureReq = {f1}
  CallbackReq = {c1}
  Conn = {k1, k2}
  NotifyOnClose = FALSE
  None = None
CHECK_DEADLOCK FALSE
INVARIANTS
  TypeOK
  AwaitedIsRegistered
  SettledLeavesTable
  NestedSyncFails
PROPERTIES
  CallsSpec
  SendReturns
  LockReleased
  AnswersDelivered

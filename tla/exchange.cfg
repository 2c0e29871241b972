SPECIFICATION Spec
CONSTANTS
  Text <- MCText
  Utf8 <- MCUtf8
  NoText = NoText
  Value <- MCValue
  Utf8Value = {"one", "two", "text"}
  Absent = Absent
  Service <- MCService
  KindCase <- MCKindCase
  Result <- MCResult
  Throws = Throws
  User = {u1, u2}
  Direct = {u2}
  Member = {t1}
  Addr <- MCAddr
  Method <- MCMethod
  Params <- MCParams
  Topic <- MCTopic
  Payload <- MCPayload
  MaxRequests = 4
  None = None
INVARIANTS
  HandledAsAsked
  ResultIsServices
  DiscoveredIsServed
  TypesHandled
CHECK_DEADLOCK FALSE

SPECIFICATION FairSpec
CONSTANTS
  Client = client
  Server = server
  Base = 4
  IntLen = 2
  MaxLen = 8
  Message <- MCMessage
  MaxSends = 3
INVARIANTS
  TypeOK
  HandledAsSent
  ShortNeverRefused
  NullOnlyAfterClose
PROPERTIES
  EventuallyHandled
  ClosedAtBothEnds
CHECK_DEADLOCK FALSE

SPECIFICATION FairSpec
CONSTANTS
  MaxReports = 3
  MaxConns = 4
  MaxClock = 2
  MaxFaults = 3
  BufferSpan = 1
  BufferCap = 2
INVARIANTS
  TypeOK
  SendOrder
  PongTimerOfThisSocket
  RetryExactly
PROPERTIES
  BufferPolicy
  AtMostOnce
  ReconnectsForGood
  SilentLinkNoticed

SPECIFICATION FairSpec
CONSTANTS
  Servers = {s1, s2}
  NoData = none
  DataTimeout = 2
  MaxSockets = 2
  MaxBroadcasts = 2
  MaxClock = 3
  MaxFaults = 2
INVARIANTS
  TypeOK
  OneLiveSocket
  ShowsConfiguredServer
PROPERTIES
  NoFalseAlarm
  ComesBack
CHECK_DEADLOCK FALSE

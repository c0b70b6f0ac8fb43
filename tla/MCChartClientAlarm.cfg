SPECIFICATION Spec
CONSTANTS
  Servers = {s1}
  NoData = none
  DataTimeout = 1
  MaxSockets = 1
  MaxBroadcasts = 1
  MaxClock = 3
  MaxFaults = 1
INVARIANTS
  SilenceAlarmed
CHECK_DEADLOCK FALSE

SPECIFICATION Spec
CONSTANTS
  Vessels = {v1}
  Senders = {edge1, edge2}
  Site = central
  NoSource = none
  Positions = {a}
  SerialEnabled = FALSE
  StartsWithWait = FALSE
  TrailCap = 2
  Window = 2
  SourceTtl = 1
  SaveSpan = 1
  MaxClock = 3
  MaxRestarts = 0
  MaxFaults = 1
INVARIANTS
  TypeOK
  SilentVesselsGo
PROPERTIES
  NewestWins
  ActiveSourcesExact
CHECK_DEADLOCK FALSE

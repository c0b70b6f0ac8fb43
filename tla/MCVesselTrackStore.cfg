SPECIFICATION FairSpec
CONSTANTS
  Vessels = {v1}
  Senders = {edge}
  Site = local
  NoSource = none
  Positions = {a, b}
  SerialEnabled = TRUE
  StartsWithWait = TRUE
  TrailCap = 2
  Window = 2
  SourceTtl = 1
  SaveSpan = 0
  MaxClock = 3
  MaxRestarts = 1
  MaxFaults = 1
INVARIANTS
  EachRowOnce
  TrailOrdered
PROPERTIES
  RowsKeptUntilInserted
  SavesAreSeen
CHECK_DEADLOCK FALSE

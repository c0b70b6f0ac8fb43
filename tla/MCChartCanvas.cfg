SPECIFICATION FairSpec
CONSTANTS
  Vessels = {v1, v2}
  LateAfter = 1
  GoneAfter = 2
  MaxLevel = 2
  MaxActs = 4
INVARIANTS
  TypeOK
  RepaintDue
  SilentVesselsLeave
PROPERTIES
  ChartReappears

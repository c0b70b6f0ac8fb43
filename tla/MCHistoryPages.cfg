SPECIFICATION Spec
CONSTANTS
  Vessels = {v1, v2}
  None = none
  Take = 1
  HoursPerDay = 2
  Retention = 0
  StartHour = 1
  MaxHour = 2
  MaxRows = 3
  MaxActs = 4
  MaxOpen = 2
SYMMETRY Symmetry
INVARIANTS
  TypeOK
  PagesFitTogether
CHECK_DEADLOCK FALSE

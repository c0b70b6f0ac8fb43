SPECIFICATION Spec
CONSTANTS
  Paths = {p1, p2}
  Addresses = {a1, a2}
  Values = {v1, v2}
  Operators = {o1, o2}
  None = none
  Blank = blank
  DefaultPort = p1
  DefaultAddress = a1
  DefaultValue = v1
  MaxSaves = 2
  MaxFaults = 1
INVARIANTS
  TypeOK
  ReadAsSaved
  ReceiversFollow
PROPERTIES
  UneditedSaveKeeps

SPECIFICATION Spec
CONSTANTS
  Phones = {n1, n2}
  None = none
  Requests = {r1, r2, r3}
  MaxUsers = 3
  MaxRequests = 7
  MaxRestarts = 1
SYMMETRY Symmetry
CHECK_DEADLOCK FALSE
INVARIANTS
  TypeOK
  RegisteredForGood
PROPERTIES
  SettledStays

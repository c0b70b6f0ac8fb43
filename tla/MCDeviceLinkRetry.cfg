SPECIFICATION Spec
CONSTANTS
  Paths = {p1}
  Tcp = tcp
  Configs <- SerialOnly
  Slots = 3
  MaxReloads = 1
  MaxFaults = 1
INVARIANTS
  RetryPending
CHECK_DEADLOCK FALSE

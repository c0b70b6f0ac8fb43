SPECIFICATION FairSpec
CONSTANTS
  Paths = {p1}
  Tcp = tcp
  Configs <- SerialOrTcp
  Slots = 4
  MaxReloads = 2
  MaxFaults = 2
INVARIANTS
  NoLeftovers
PROPERTIES
  TcpComesBack
CHECK_DEADLOCK FALSE

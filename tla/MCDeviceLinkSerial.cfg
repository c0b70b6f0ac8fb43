SPECIFICATION FairSpec
CONSTANTS
  Paths = {p1, p2}
  Tcp = tcp
  Configs <- SerialOnly
  Slots = 2
  MaxReloads = 0
  MaxFaults = 3
INVARIANTS
  TypeOK
  OpenPortIsRegistered
  StatusExact
PROPERTIES
  PortComesBack

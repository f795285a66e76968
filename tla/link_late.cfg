SPECIFICATION Spec
CONSTANTS
  MqSize = 4
  RetryMax = 5
  LastCode = 2
  Dhcp = TRUE
  PacedLines = TRUE
  Faults <- LateFaults
  MaxFaults = 3
INVARIANT
  ReadyImpliesConnected

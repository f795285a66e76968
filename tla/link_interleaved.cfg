SPECIFICATION Spec
CONSTANTS
  MqSize = 2
  RetryMax = 5
  LastCode = 2
  Dhcp = FALSE
  PacedLines = FALSE
  Faults <- PunctualFaults
  MaxFaults = 2
INVARIANTS
  UnpacedInvariant
  NoResetWhenReady

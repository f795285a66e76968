SPECIFICATION FairSpec
CONSTANTS
  MqSize = 4
  RetryMax = 5
  LastCode = 3
  Dhcp = TRUE
  PacedLines = TRUE
  Faults <- OneSilence
  MaxFaults = 1
PROPERTY
  KeepsDelivering

SPECIFICATION Spec
CONSTANTS
  MqSize = 4
  RetryMax = 5
  LastCode = 4
  Dhcp = FALSE
  PacedLines = TRUE
  Faults <- AnswerFaults
  MaxFaults = 2
INVARIANTS
  IdleIsQuiet
  WatchedUntilConnected
  PhaseOK
PROPERTIES
  ImplementsChannel
  DataOnlyAtPrompt
  MissesAtMostOne

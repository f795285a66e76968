SPECIFICATION Spec
CONSTANT
  QueueSize = 4
INVARIANTS
  TypeOK
  FlagIsBlink
  ShowsProgress
  SendingIsShown

SPECIFICATION Spec
CONSTANTS
  net = net
  network = network
  none = none
  Blank = Blank
  Values <- Texts3
  Empty <- none
  PrefixOf <- Prefixes
  Default <- Factory
  StaleTail = TRUE
  MaxCommands = 2
  MaxFailures = 2
  MaxResets = 2
INVARIANTS
  StoreTypeOK
  StoredWhenIdle
  RunsWhole
PROPERTY
  ImplementsRegister
CHECK_DEADLOCK FALSE

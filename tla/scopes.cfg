SPECIFICATION Spec
CONSTANTS
  N = 5
  MaxSignals = 4
INVARIANTS
  ScopesTypeOK
  KilledOnlyAfterAsked
  InstalledIsLive
PROPERTY
  SignalHeard
CHECK_DEADLOCK FALSE

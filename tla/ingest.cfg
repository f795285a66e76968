SPECIFICATION Spec
CONSTANTS
  ts = ts
  press = press
  temp = temp
  NoCatalogue = NoCatalogue
  Gateways <- MCGateways
  Sensors <- MCSensors
  Catalogues <- MCCatalogues
  Default <- OneMachine
  MaxConns = 3
  MaxReadings = 3
  MaxSplits = 1
  MaxFaults = 2
INVARIANTS TypeOK  
PROPERTY NeverBack
CHECK_DEADLOCK FALSE

SPECIFICATION FairSpec
CONSTANTS
  sept30 = sept30
  oct10 = oct10
  Facilities = {ts, tk}
  ts = ts
  tk = tk
  Readings = 3
  DayOf <- DayOfThree
  Short = {sept30}
  MaxFailures = 1
  MaxCrashes = 2
INVARIANTS
  TypeOK
  ReceivedOnlyTaken
  OneDocumentADay
  NoExtraPoints
  HandledIsConfirmed
PROPERTIES
  ImplementsAtomicLog
  QueuedGetsConfirmed
CHECK_DEADLOCK FALSE

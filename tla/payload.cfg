SPECIFICATION Spec
CONSTANTS
  Devices <- MCDevices
  Frames <- MCFrames
  Catalogue <- MCCatalogue
INVARIANTS
  TypeOK
  PublishedWasMeasured
PROPERTY
  TurnIsPublished

CONSTANTS
  DrawInterval = 1
  UpdateInterval = 2
  DrawIterations = 2
  MaxSleep = 2
  Monitors <- MCMonitors
  Type <- MCType
  Fixed <- MCFixed
  Rule <- MCRule
  Whole <- MCWhole
  Wait <- MCWait
  Samples <- MCSamples
  Kinds <- MCKinds
  Rooms <- MCRooms
  InOverlay <- MCInOverlay
  Refuels <- MCRefuels
  MaxAttached = 2
  MaxChanges = 2
  None = None
SPECIFICATION Spec
INVARIANTS
  TypeOK
  OffsetAtMostOne
  Framed
PROPERTIES
  SamplesDrawn
  Converges

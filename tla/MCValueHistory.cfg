CONSTANTS
  Samples <- MCSamples
  Widths <- MCWidths
  WaitIterations = 3
SPECIFICATION Spec
INVARIANTS
  TypeOK
  PeakExact
PROPERTIES
  SamplesOnTime
  WindowSpec

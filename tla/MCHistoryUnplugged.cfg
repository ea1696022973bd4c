CONSTANTS
  Samples <- MCUnplugged
  Widths <- MCWidths
  WaitIterations = 3
SPECIFICATION Spec
INVARIANTS
  PeakKnown

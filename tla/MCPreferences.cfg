CONSTANTS
  m1 = m1
  m2 = m2
  m3 = m3
  None = None
  Monitor <- MCMonitor
  Palette <- MCPalette
  Picked <- MCPicked
  Graphs <- MCGraphs
  Plain <- MCPlain
  MaxMonitors = 2
SYMMETRY MCSymmetry
SPECIFICATION Spec
INVARIANTS
  TypeOK
  RowsAreMonitors
  MonitorsAlive
  DialogKnowsItsMonitor

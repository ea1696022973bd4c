CONSTANTS
  m1 = m1
  m2 = m2
  m3 = m3
  cpu = cpu
  load = load
  red = red
  green = green
  blue = blue
  NoConfig = NoConfig
  NoColor = NoColor
  Freed = Freed
  NoView = NoView
  NoWindow = NoWindow
  MaxGroups = 3
  WritesFail = FALSE
  Monitor <- MCMonitor
  Config <- MCConfig
  DefaultConfig = cpu
  Color <- MCColor
  Palette <- MCPalette
  Offered <- MCOffered
  Stored <- MCStored
SYMMETRY MCSymmetry
SPECIFICATION Spec
INVARIANTS
  TypeOK
  OneElementPerMonitor
  FileInStep
  DrawnInItsColor
  ViewIsChosen
  Startable
PROPERTIES
  BoardSpec

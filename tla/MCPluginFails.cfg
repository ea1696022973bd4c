CONSTANTS
  m1 = m1
  m2 = m2
  m3 = m3
  cpu = cpu
  load = load
  red = red
  green = green
  blue = blue
  NoConfig = NoConfig
  NoColor = NoColor
  Freed = Freed
  NoView = NoView
  NoWindow = NoWindow
  MaxGroups = 3
  WritesFail = TRUE
  Monitor <- MCTwoMonitors
  Config <- MCOneConfig
  DefaultConfig = cpu
  Color <- MCOneColor
  Palette <- MCOnePalette
  Offered <- MCOffered
  Stored <- MCStored
SYMMETRY MCTwoSymmetry
SPECIFICATION Spec
INVARIANTS
  OneElementPerMonitor
  ViewIsChosen

CONSTANTS
  None = None
  InitialFont = "sans"
  Fonts <- MCFonts
  Colors <- MCColors
  Texts <- MCTexts
  Sizes <- MCSizes
  Positions <- MCPositions
  Types <- MCTypes
  DefaultName <- MCDefaultName
  Names <- MCNames
  Stored <- MCStored
  WritesFail = TRUE
  MaxChanges = 2
SPECIFICATION Spec
INVARIANTS
  TypeOK
  InStep
  PaintedAsChosen
  WindowShows
  NamesInStep
PROPERTIES
  OpenIsSilent

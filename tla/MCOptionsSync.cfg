CONSTANTS
  None = None
  InitialFont = "sans"
  Fonts <- MCFonts
  Colors <- MCColors
  Texts <- MCTexts
  Sizes <- MCSizes
  Positions <- MCPositions
  Types <- MCTypes
  DefaultName <- MCDefaultName
  Names <- MCNames
  Stored <- MCStored
  WritesFail = FALSE
  MaxChanges = 1
SPECIFICATION Spec
INVARIANTS
  SyncKept

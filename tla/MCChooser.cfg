CONSTANTS
  MaxCpus = 2
  Grouped = FALSE
  DecimalComma = FALSE
  None = None
  MaxChanges = 2
  SensorMax <- MCSensorMax
  Offered <- MCKinds
  OwnChoices <- MCOwnChoices
  Delays <- MCDelays
  Maxima <- MCMaxima
  Tags <- MCTags
  Texts <- MCTexts
  OldGroups <- MCOldGroups
SPECIFICATION Spec
INVARIANTS
  TypeOK
  SaveKeeps
  KillKeeps
  AsChosen
  Converted
PROPERTIES
  KeepIsRestart

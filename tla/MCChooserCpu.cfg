CONSTANTS
  MaxCpus = 2
  Grouped = FALSE
  DecimalComma = FALSE
  None = None
  MaxChanges = 2
  SensorMax <- MCSensorMax
  Offered <- MCCpu
  OwnChoices <- MCOwnChoices
  Delays <- MCDelays
  Maxima <- MCMaxima
  Tags <- MCTags
  Texts <- MCTexts
  OldGroups <- MCOldGroups
SPECIFICATION Spec
INVARIANTS
  IntervalAsChosen

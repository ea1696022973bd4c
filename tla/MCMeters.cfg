CONSTANTS
  Configs <- MCConfigs
  Limit = 3
  Parts = 2
  Word = 128
  None = None
  NaN = NaN
SPECIFICATION Spec
INVARIANTS
  TypeOK
  CpuFraction
  NothingMadeUp
  OnScale

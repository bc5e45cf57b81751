\* Two pages of two bytes, one of them in Tier 1.
SPECIFICATION Spec
CONSTANTS
  PageSize = 2
  MaxSize = 3
  Values = {1}
  DirtyLimit = 1
  CutSpilled = FALSE
INVARIANTS
  TypeOK
  SpilledRestored
PROPERTY ImplementsFlatFile

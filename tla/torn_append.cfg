\* An append that fails half way, and a flush after it.
SPECIFICATION Spec
CONSTANTS
  a = a
  b = b
  PageSize = 2
  Names = {a, b}
  Writes <- Bytes12
  DirtyLimit = 2
  MayFail <- Torn
  MaxCalls = 5
  MaxGen = 2
SYMMETRY Symmetry
INVARIANTS
  AckedSurvive

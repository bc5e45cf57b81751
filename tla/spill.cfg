\* Two policies, failing appends that leave no trace or are complete, any crash.
SPECIFICATION Spec
CONSTANTS
  a = a
  b = b
  PageSize = 2
  Names = {a, b}
  Writes <- Bytes12
  DirtyLimit = 2
  MayFail <- Harmless
  MaxCalls = 4
  MaxGen = 2
SYMMETRY Symmetry
INVARIANTS
  TypeOK
  ReadsNewest
  TierOneAccounted
  AckedSurvive
  RecoversFlushed
  CompactsDeadOnly

\* A crash inside open while the journal is moved and rewritten.
SPECIFICATION Spec
CONSTANTS
  SpillModes <- BothModes
  CrashDuringOpen = TRUE
  CompactMayFail = FALSE
  UnlinkMayFail = FALSE
  MaxVersion = 3
  MaxGen = 3
  MaxCrashes = 2
  MaxForeign = 0
INVARIANTS
  PromiseKept

\* A crash inside open after the intent is removed.
SPECIFICATION Spec
CONSTANTS
  SpillModes <- BothModes
  CrashDuringOpen = TRUE
  CompactMayFail = FALSE
  UnlinkMayFail = FALSE
  MaxVersion = 3
  MaxGen = 3
  MaxCrashes = 2
  MaxForeign = 0
INVARIANTS
  CommitNeverConflicts

\* Crashes anywhere but inside open; no file operation fails.
SPECIFICATION Spec
CONSTANTS
  SpillModes <- BothModes
  CrashDuringOpen = FALSE
  CompactMayFail = FALSE
  UnlinkMayFail = FALSE
  MaxVersion = 4
  MaxGen = 3
  MaxCrashes = 2
  MaxForeign = 1
INVARIANTS
  TypeOK
  PromiseKept
  PromiseOnDisk
  CommitNeverConflicts
  RefusesOnlyUnflushed
PROPERTIES
  ImplementsStore

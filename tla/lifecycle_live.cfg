\* Crashes anywhere, failing renames and unlinks: every intent is resolved.
SPECIFICATION FairSpec
CONSTANTS
  SpillModes <- BothModes
  CrashDuringOpen = TRUE
  CompactMayFail = TRUE
  UnlinkMayFail = TRUE
  MaxVersion = 3
  MaxGen = 3
  MaxCrashes = 2
  MaxForeign = 0
INVARIANTS
  TornIsRepairable
  LiveExtendsArchive
PROPERTIES
  IntentResolved

\* A truncate cuts a page that only Tier 2 has.
SPECIFICATION Spec
CONSTANTS
  PageSize = 2
  MaxSize = 3
  Values = {1}
  DirtyLimit = 1
  CutSpilled = TRUE
INVARIANT ExtensionReadsZero

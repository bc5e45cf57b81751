\* One entry, and a count of entries whose largest value is two.
SPECIFICATION Spec
CONSTANTS
  Window = 2
  Interval = 2
  BlockSize = 2
  U32Max = 99
  U16Max = 2
  Names = {1, 2, 3}
  NameHash <- SmallHash
  PageSize = 2
  CacheBytes = 4
  Starts <- SingleStarts
  Others <- NoOthers
  ReadAhead = 2
  EstaleInterval = 1
  Ranges <- NoRanges
  Writes <- NoWrites
  Mark = 9
  GcThreshold = 2
  GcMaxBloat = 6
  MaxChanges = 2
INVARIANT CommitOpens

\* Two entries and three names, pages of two bytes, a cache of two pages.
SPECIFICATION Spec
CONSTANTS
  Window = 2
  Interval = 2
  BlockSize = 2
  U32Max = 99
  U16Max = 50
  Names = {1, 2, 3}
  NameHash <- SmallHash
  PageSize = 2
  CacheBytes = 4
  Starts <- SmallStarts
  Others <- SmallOthers
  ReadAhead = 2
  EstaleInterval = 1
  Ranges <- SmallRanges
  Writes <- SmallWrites
  Mark = 9
  GcThreshold = 2
  GcMaxBloat = 6
  MaxChanges = 3
INVARIANTS
  TypeOK
  ReadsShown
  SnapshotReads
  CacheIsLru
  CommitsExactly
  DiffOwned
  SizeBounded
  CommitLayout
PROPERTIES
  MetadataKept
  IncrementalAppends

\* Operations, recoveries and compactions of tables whose renamed sources are
\* free; the properties of EntryTable hold whatever the journal does.
SPECIFICATION JournalSpec
CONSTANTS
  Names = {a, b}
  DirtyLimit = 1
  MaxContent = 5
  RejournalAny = FALSE
  MaxRejournals = 2
SYMMETRY Symmetry
INVARIANTS
  DirectoryShown
  SourceOwnedOnce
  JournalTypeOK
  JournalRestores
  OnlyTierOneAtRisk

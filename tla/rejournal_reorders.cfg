\* The new journal of any table: its records are in the wrong order.
SPECIFICATION JournalSpec
CONSTANTS
  Names = {a, b}
  DirtyLimit = 1
  MaxContent = 5
  RejournalAny = TRUE
  MaxRejournals = 1
SYMMETRY Symmetry
INVARIANTS
  JournalRestores

--------------------------- MODULE MCEntryJournal ---------------------------
(* Small instances of EntryJournal for TLC. *)
EXTENDS EntryJournal, TLC

Symmetry == Permutations(Names)
=============================================================================

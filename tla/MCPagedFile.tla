---------------------------- MODULE MCPagedFile ----------------------------
(* Small instances of PagedFile for TLC. *)
EXTENDS PagedFile

=============================================================================

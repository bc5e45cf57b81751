------------------------------ MODULE EntryTable ------------------------------
(***************************************************************************)
(* The entries of a mount: the overlay of names over the archive, and the  *)
(* three stores that are keyed by name beside it (the entries of the diff  *)
(* layer, its pages, and the Tier 2 index), under create, remove, rename,  *)
(* write, spill, flush and commit.                                         *)
(*                                                                         *)
(* A file is one page long here: its content is a number, and pages[n] and *)
(* index[n] hold the content that Tier 1 and Tier 2 have for it.  Files of *)
(* several pages, and truncate, are the subject of PagedFile.              *)
(***************************************************************************)
EXTENDS Naturals, FiniteSets

CONSTANTS
  Names,         \* the names of entries
  DirtyLimit,    \* pages that Tier 1 may hold (dirty_limit / page_size)
  MaxContent     \* bound on the contents written

ASSUME EntryAssumption ==
  IsFiniteSet(Names) /\ DirtyLimit \in Nat /\ MaxContent \in Nat

VARIABLES
  archive,  \* the content of each entry of the archive
  overlay,  \* EntryTable: what the session did to a name
  alias,    \* EntryTable: the source of an aliased name
  dirty,    \* names with an entry in the diff layer
  pages,    \* Tier 1: the page of a name
  index,    \* Tier 2: the page of a name
  last,     \* the last content written
  dir       \* history: the directory as the user's calls made it

table == <<overlay, alias>>
diff  == <<dirty, pages>>
vars  == <<archive, table, diff, index, last, dir>>

Nothing == 0  \* no entry, no page
Empty   == 1  \* the content of an entry nobody has written

Overlays == {"none", "created", "tombstone", "aliased"}

TypeOK ==
  /\ archive \in [Names -> Nat]
  /\ overlay \in [Names -> Overlays] /\ alias \in [Names -> Names]
  /\ dirty \subseteq Names
  /\ pages \in [Names -> Nat] /\ index \in [Names -> Nat]
  /\ last \in Nat \ {Nothing} /\ dir \in [Names -> Nat]

-----------------------------------------------------------------------------
InArchive(n) == archive[n] # Nothing

\* EntryTable::kind.
Kind(n) ==
  CASE overlay[n] = "created"   -> "created"
    [] overlay[n] = "aliased"   -> "source"
    [] overlay[n] = "tombstone" -> "absent"
    [] overlay[n] = "none"      -> IF InArchive(n) THEN "source" ELSE "absent"

Exists(n) == Kind(n) # "absent"

\* resolve_entry: the name whose archive data the entry shows.
Source(n) == IF overlay[n] = "aliased" THEN alias[n] ELSE n

\* The content below both tiers.
Base(n) == IF Kind(n) = "created" THEN Empty ELSE archive[Source(n)]

\* read_dirty: Tier 1, then Tier 2, then the source.
ReadDirty(n) ==
  CASE pages[n] # Nothing                       -> pages[n]
    [] pages[n] = Nothing /\ index[n] # Nothing -> index[n]
    [] OTHER                                    -> Base(n)

\* FileMount::read.
Read(n) ==
  CASE ~Exists(n) -> Nothing
    [] Exists(n) /\ (n \in dirty \/ Kind(n) = "created" \/ Source(n) # n)
         -> ReadDirty(n)
    [] OTHER -> Base(n)

Resident == {n \in Names : pages[n] # Nothing}

-----------------------------------------------------------------------------
Init ==
  /\ archive \in [Names -> {Nothing} \cup 2..(Cardinality(Names) + 1)]
  /\ \A m, n \in Names : InArchive(m) /\ archive[m] = archive[n] => m = n
  /\ overlay = [n \in Names |-> "none"] /\ alias = [n \in Names |-> n]
  /\ dirty = {} /\ pages = [n \in Names |-> Nothing]
  /\ index = [n \in Names |-> Nothing]
  /\ last = Cardinality(Names) + 1
  /\ dir = archive

\* entry_create.
Create(n) ==
  /\ ~Exists(n)
  /\ overlay' = [overlay EXCEPT ![n] = "created"]
  /\ dirty' = dirty \cup {n} /\ pages' = [pages EXCEPT ![n] = Nothing]
  /\ dir' = [dir EXCEPT ![n] = Empty]
  /\ UNCHANGED <<archive, alias, index, last>>

\* Mutant: the Tier 2 index keeps the pages of a removed entry.
Remove_KeepIndex(n) ==
  /\ Exists(n)
  /\ overlay' = [overlay EXCEPT ![n] = "tombstone"]
  /\ dirty' = dirty \ {n} /\ pages' = [pages EXCEPT ![n] = Nothing]
  /\ dir' = [dir EXCEPT ![n] = Nothing]
  /\ UNCHANGED <<archive, alias, index, last>>

\* entry_remove.
Remove(n) ==
  /\ Exists(n)
  /\ overlay' = [overlay EXCEPT ![n] = "tombstone"]
  /\ dirty' = dirty \ {n} /\ pages' = [pages EXCEPT ![n] = Nothing]
  /\ index' = [index EXCEPT ![n] = Nothing]
  /\ dir' = [dir EXCEPT ![n] = Nothing]
  /\ UNCHANGED <<archive, alias, last>>

\* Mutant: the source of a rename keeps its place in the overlay.
ApplyRename_NoTombstone(old, new) ==
  /\ overlay' = [overlay EXCEPT
       ![new] = IF overlay[old] = "created" THEN "created" ELSE "aliased"]
  /\ alias' = [alias EXCEPT ![new] = Source(old)]

\* EntryTable::apply_rename: new takes over what old is; the name that is left
\* behind is a tombstone, whether the archive has an entry of that name or not.
ApplyRename(old, new) ==
  /\ overlay' = [overlay EXCEPT
       ![new] = CASE overlay[old] \in {"created", "aliased"} -> overlay[old]
                  [] OTHER -> IF InArchive(old) THEN "aliased" ELSE "created",
       ![old] = "tombstone"]
  /\ alias' = [alias EXCEPT ![new] = Source(old)]

\* DiffLayer::rename_entry.
RenameDirty(old, new) ==
  IF old \in dirty
  THEN /\ dirty' = (dirty \ {old}) \cup {new}
       /\ pages' = [pages EXCEPT ![new] = pages[old], ![old] = Nothing]
  ELSE UNCHANGED diff

\* Tier2::rename_entry.
RenameIndex(old, new) ==
  IF index[old] # Nothing
  THEN index' = [index EXCEPT ![new] = index[old], ![old] = Nothing]
  ELSE UNCHANGED index

\* entry_rename.
Rename(old, new) ==
  /\ Exists(old) /\ ~Exists(new)
  /\ ApplyRename(old, new) /\ RenameDirty(old, new) /\ RenameIndex(old, new)
  /\ dir' = [dir EXCEPT ![new] = dir[old], ![old] = Nothing]
  /\ UNCHANGED <<archive, last>>

\* Where write_into puts content c of n: over the page in Tier 1, over the page
\* in Tier 2, or into Tier 1 as a copy of the source.
Stored(n, c) ==
  IF pages[n] = Nothing /\ index[n] # Nothing
  THEN [pages |-> pages, index |-> [index EXCEPT ![n] = c]]
  ELSE [pages |-> [pages EXCEPT ![n] = c], index |-> index]

\* DiffLayer::take_spill_victims: the sets of pages it may take from p so that
\* what stays is within the limit.  Which pages are the oldest is left open.
Victims(p) ==
  LET resident == {n \in Names : p[n] # Nothing} IN
  IF Cardinality(resident) > DirtyLimit
  THEN {V \in SUBSET resident : Cardinality(resident \ V) = DirtyLimit}
  ELSE {{}}

Write(n) ==
  /\ Exists(n) /\ last < MaxContent
  /\ last' = last + 1
  /\ dirty' = dirty \cup {n}
  /\ LET s == Stored(n, last') IN
       \E V \in Victims(s.pages) :  \* Tier2::spill_over_limit
         /\ pages' = [m \in Names |-> IF m \in V THEN Nothing ELSE s.pages[m]]
         /\ index' = [m \in Names |-> IF m \in V THEN s.pages[m] ELSE s.index[m]]
  /\ dir' = [dir EXCEPT ![n] = last']
  /\ UNCHANGED <<archive, table>>

\* Tier2::flush: a copy of every page of Tier 1, which stay resident.
FlushedIndex ==
  [n \in Names |-> IF pages[n] # Nothing THEN pages[n] ELSE index[n]]

Flush ==
  /\ index' = FlushedIndex
  /\ UNCHANGED <<archive, table, diff, last, dir>>

-----------------------------------------------------------------------------
(***************************************************************************)
(* A commit flushes, brings every page back to Tier 1 and writes an entry  *)
(* for each name that build_full and build_incremental emit; the mount is  *)
(* consumed, and the next one starts on the new archive.                   *)
(***************************************************************************)
\* rehydrate_into.
Rehydrated ==
  [n \in Names |-> IF pages[n] # Nothing THEN pages[n] ELSE FlushedIndex[n]]
Redirtied == dirty \cup {n \in Names : FlushedIndex[n] # Nothing}

\* assemble_content of an entry over its source.
Assembled(n, base) == IF Rehydrated[n] # Nothing THEN Rehydrated[n] ELSE base

\* What build_full and build_incremental write under name n.
Emitted(n) ==
  CASE overlay[n] = "tombstone" -> Nothing
    [] overlay[n] = "created"   -> Assembled(n, Empty)
    [] overlay[n] = "aliased"   ->
         IF n \in Redirtied THEN Assembled(n, archive[alias[n]])
                            ELSE archive[alias[n]]
    [] overlay[n] = "none"      ->
         IF InArchive(n) /\ n \in Redirtied THEN Assembled(n, archive[n])
                                            ELSE archive[n]

Commit ==
  /\ archive' = [n \in Names |-> Emitted(n)]
  /\ overlay' = [n \in Names |-> "none"] /\ UNCHANGED alias
  /\ dirty' = {} /\ pages' = [n \in Names |-> Nothing]
  /\ index' = [n \in Names |-> Nothing]
  /\ UNCHANGED <<last, dir>>

Next ==
  \/ \E n \in Names : Create(n) \/ Remove(n) \/ Write(n)
  \/ \E old, new \in Names : Rename(old, new)
  \/ Flush \/ Commit

Spec == Init /\ [][Next]_vars

-----------------------------------------------------------------------------
(***************************************************************************)
(* Properties.                                                             *)
(***************************************************************************)

\* Every name reads as the directory that the user's calls made, whichever way
\* its data went: through chains of renames, over names used again, between the
\* tiers, and into the archive by a commit.
DirectoryShown == \A n \in Names : Read(n) = dir[n]

\* The data of an archive entry belongs to one name: no two names draw from the
\* same source, and a source that moved away is no longer shown at its own name.
SourceOwnedOnce ==
  \A m, n \in Names :
    Kind(m) = "source" /\ Kind(n) = "source" /\ Source(m) = Source(n) => m = n

-----------------------------------------------------------------------------
(***************************************************************************)
(* The inductive invariant.                                                *)
(***************************************************************************)

\* The source of an alias is an entry of the archive whose own name has been
\* overlaid, and no other alias has it.
AliasInv ==
  \A n \in Names : overlay[n] = "aliased" =>
    /\ InArchive(alias[n]) /\ overlay[alias[n]] # "none"
    /\ \A m \in Names : overlay[m] = "aliased" /\ alias[m] = alias[n] => m = n

\* The stores keyed by name hold something only for dirty names, and a dirty name
\* exists; a created entry is always dirty.
StoresInv ==
  /\ \A n \in Names : pages[n] # Nothing \/ index[n] # Nothing => n \in dirty
  /\ \A n \in dirty : Exists(n)
  /\ \A n \in Names : overlay[n] = "created" => n \in dirty

EntryInv == TypeOK /\ AliasInv /\ StoresInv /\ DirectoryShown
===============================================================================

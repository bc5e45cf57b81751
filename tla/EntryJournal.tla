----------------------------- MODULE EntryJournal -----------------------------
(***************************************************************************)
(* The entries of a mount with their journal, vmdirty: every operation     *)
(* appends records, flush() ends them with a commit marker, a crash leaves *)
(* the journal, and the next open replays it.  The recovery, and           *)
(* compact_journal, write a new journal from the entry table alone.        *)
(*                                                                         *)
(* A journal is represented by the state its replay gives: appending a     *)
(* record applies its replay to replayed, and a marker makes replayed the  *)
(* committed state.                                                        *)
(***************************************************************************)
EXTENDS EntryTable

CONSTANTS
  RejournalAny,   \* are tables in which a renamed source's name is used again
                  \* written anew too?
  MaxRejournals   \* bound on recoveries and compactions

ASSUME JournalAssumption == RejournalAny \in BOOLEAN /\ MaxRejournals \in Nat

VARIABLES
  replayed,     \* what a replay of the whole journal gives
  committed,    \* what a replay up to the last marker gives
  saved,        \* history: the directory at the last marker
  task,         \* which journal is being written anew: none, compact or recover
  building,     \* what a replay of the new journal gives
  todo,         \* the aliases whose RENAME the new journal does not have yet
  rejournals    \* journals written anew so far

journal    == <<replayed, committed, saved>>
rejournal  == <<task, building, todo, rejournals>>
allVars    == <<vars, journal, rejournal>>

States == [overlay : [Names -> Overlays], alias : [Names -> Names],
           dirty : SUBSET Names, pages : [Names -> Nat]]

JournalTypeOK ==
  /\ TypeOK
  /\ replayed \in States /\ committed \in States /\ building \in States
  /\ saved \in [Names -> Nat]
  /\ task \in {"none", "compact", "recover"}
  /\ todo \subseteq Names /\ (task = "none" => todo = {})
  /\ rejournals \in 0..MaxRejournals

\* What a mount opened on state st shows: its pages are all in Tier 1.
Recovered == INSTANCE EntryTable
  WITH overlay <- committed.overlay, alias <- committed.alias,
       dirty <- committed.dirty, pages <- committed.pages,
       index <- [n \in Names |-> Nothing]
Replayed == INSTANCE EntryTable
  WITH overlay <- replayed.overlay, alias <- replayed.alias,
       dirty <- replayed.dirty, pages <- replayed.pages,
       index <- [n \in Names |-> Nothing]

-----------------------------------------------------------------------------
(***************************************************************************)
(* replay_recovered, one operator for each kind of record.  A record of    *)
(* several names stands for one of each, in an order that does not matter. *)
(***************************************************************************)
NewState == [overlay |-> [n \in Names |-> "none"], alias |-> [n \in Names |-> n],
             dirty |-> {}, pages |-> [n \in Names |-> Nothing]]

ReplayCreate(st, names) ==
  [st EXCEPT
     !.overlay = [n \in Names |-> IF n \in names THEN "created" ELSE @[n]],
     !.dirty   = @ \cup names,
     !.pages   = [n \in Names |-> IF n \in names THEN Nothing ELSE @[n]]]

ReplayRemove(st, names) ==
  [st EXCEPT
     !.overlay = [n \in Names |-> IF n \in names THEN "tombstone" ELSE @[n]],
     !.dirty   = @ \ names,
     !.pages   = [n \in Names |-> IF n \in names THEN Nothing ELSE @[n]]]

\* DiffLayer::rename_entry, then apply_rename.
ReplayRename(st, old, new) ==
  [overlay |-> [st.overlay EXCEPT
     ![new] = CASE st.overlay[old] \in {"created", "aliased"} -> st.overlay[old]
                [] OTHER -> IF InArchive(old) THEN "aliased" ELSE "created",
     ![old] = "tombstone"],
   alias   |-> [st.alias EXCEPT
     ![new] = IF st.overlay[old] = "aliased" THEN st.alias[old] ELSE old],
   dirty   |-> IF old \in st.dirty THEN (st.dirty \ {old}) \cup {new}
                                   ELSE st.dirty,
   pages   |-> IF old \in st.dirty /\ old # new
               THEN [st.pages EXCEPT ![new] = st.pages[old], ![old] = Nothing]
               ELSE st.pages]

ReplayResize(st, names) == [st EXCEPT !.dirty = @ \cup names]

\* The DATA records of the names that p has a page for.
ReplayPages(st, p) ==
  [st EXCEPT
     !.dirty = @ \cup {n \in Names : p[n] # Nothing},
     !.pages = [n \in Names |-> IF p[n] # Nothing THEN p[n] ELSE @[n]]]

-----------------------------------------------------------------------------
Sources == {alias[m] : m \in {n \in Names : overlay[n] = "aliased"}}

\* Nothing is at the name of the source of an alias.
SourcesFree == \A n \in Names : overlay[n] = "aliased" => overlay[alias[n]] = "tombstone"

JournalInit ==
  /\ Init
  /\ replayed = NewState /\ committed = NewState /\ saved = archive
  /\ task = "none" /\ building = NewState /\ todo = {} /\ rejournals = 0

\* entry_create, with its CREATE record.
JCreate(n) ==
  /\ task = "none"
  /\ Create(n)
  /\ replayed' = ReplayCreate(replayed, {n})
  /\ UNCHANGED <<committed, saved, rejournal>>

\* entry_remove, with its REMOVE record.
JRemove(n) ==
  /\ task = "none"
  /\ Remove(n)
  /\ replayed' = ReplayRemove(replayed, {n})
  /\ UNCHANGED <<committed, saved, rejournal>>

\* entry_rename, with its RENAME record.
JRename(old, new) ==
  /\ task = "none"
  /\ Rename(old, new)
  /\ replayed' = ReplayRename(replayed, old, new)
  /\ UNCHANGED <<committed, saved, rejournal>>

\* Mutant: a write to a page in Tier 2 changes the index, but leaves no record.
JWrite_HitUnjournaled(n) ==
  /\ task = "none"
  /\ Write(n)
  /\ replayed' = ReplayPages(replayed,
       [m \in Names |-> IF pages[m] # pages'[m] THEN index'[m] ELSE Nothing])
  /\ UNCHANGED <<committed, saved, rejournal>>

\* write_into: a DATA record for each page that Tier 2 takes.  A page spilled
\* with the content it was flushed with has its record already.
JWrite(n) ==
  /\ task = "none"
  /\ Write(n)
  /\ replayed' = ReplayPages(replayed,
       [m \in Names |-> IF index'[m] # index[m] THEN index'[m] ELSE Nothing])
  /\ UNCHANGED <<committed, saved, rejournal>>

\* Mutant: the commit marker goes before the pages.
JFlush_MarkerFirst ==
  /\ task = "none"
  /\ Flush
  /\ replayed' = ReplayPages(replayed, pages)
  /\ committed' = replayed /\ saved' = dir
  /\ UNCHANGED rejournal

\* Tier2::flush: the pages of Tier 1, then a marker.
JFlush ==
  /\ task = "none"
  /\ Flush
  /\ replayed' = ReplayPages(replayed, pages)
  /\ committed' = replayed' /\ saved' = dir
  /\ UNCHANGED rejournal

\* A commit removes the journal with the state it brought into the archive.
JCommit ==
  /\ task = "none"
  /\ Commit
  /\ replayed' = NewState /\ committed' = NewState /\ saved' = dir
  /\ UNCHANGED rejournal

-----------------------------------------------------------------------------
(***************************************************************************)
(* rejournal_recovered: the CREATE records, the REMOVE records but those of *)
(* the sources of aliases, a RENAME for each alias in the order that a      *)
(* HashMap gives, the RESIZE records, and the pages.                        *)
(***************************************************************************)
Created    == {n \in Names : overlay[n] = "created"}
Tombstones == {n \in Names : overlay[n] = "tombstone"}
Aliases    == {n \in Names : overlay[n] = "aliased"}

\* The records before the RENAMEs.
RejournalStart ==
  ReplayRemove(ReplayCreate(NewState, Created), Tombstones \ Sources)

\* compact_journal: flush to the old journal, then begin the new one.
CompactStart ==
  /\ task = "none" /\ rejournals < MaxRejournals
  /\ RejournalAny \/ SourcesFree
  /\ Flush
  /\ replayed' = ReplayPages(replayed, pages)
  /\ committed' = replayed' /\ saved' = dir
  /\ task' = "compact" /\ building' = RejournalStart /\ todo' = Aliases
  /\ rejournals' = rejournals + 1

\* The process dies: what is in memory is lost, and a journal that
\* compact_journal had not finished.  The next open replays the journal up to
\* the last marker, or all of it when all is TRUE and the caller chose
\* RecoverAll, into an entry table and a Tier 1.
CrashAndReplay(all) ==
  LET st == IF all THEN replayed ELSE committed IN
  /\ task # "recover" /\ rejournals < MaxRejournals
  /\ overlay' = st.overlay /\ alias' = st.alias
  /\ dirty' = st.dirty /\ pages' = st.pages
  /\ index' = [n \in Names |-> Nothing]
  /\ dir' = IF all THEN [n \in Names |-> Replayed!Read(n)] ELSE saved
  /\ saved' = dir'
  /\ replayed' = st /\ committed' = st
  /\ task' = "recover" /\ rejournals' = rejournals + 1
  /\ building' = RejournalStart' /\ todo' = Aliases'
  /\ RejournalAny \/ SourcesFree'
  /\ UNCHANGED <<archive, last>>

RejournalRename(n) ==
  /\ n \in todo
  /\ building' = ReplayRename(building, alias[n], n)
  /\ todo' = todo \ {n}
  /\ UNCHANGED <<vars, journal, task, rejournals>>

\* Mutant: the marker does not wait for the RENAME records.
RejournalEnd_Early ==
  LET st == ReplayPages(ReplayResize(building, dirty), FlushedIndex) IN
  /\ task # "none"
  /\ index' = FlushedIndex
  /\ replayed' = st /\ committed' = st
  /\ task' = "none" /\ building' = NewState
  /\ UNCHANGED <<archive, table, diff, last, dir, saved, todo, rejournals>>

\* The RESIZE records, the pages of both tiers and the marker; the new journal
\* takes the place of the old one.
RejournalEnd ==
  LET st == ReplayPages(ReplayResize(building, dirty), FlushedIndex) IN
  /\ task # "none" /\ todo = {}
  /\ index' = FlushedIndex
  /\ replayed' = st /\ committed' = st
  /\ task' = "none" /\ building' = NewState
  /\ UNCHANGED <<archive, table, diff, last, dir, saved, todo, rejournals>>

JournalNext ==
  \/ \E n \in Names : JCreate(n) \/ JRemove(n) \/ JWrite(n) \/ RejournalRename(n)
  \/ \E old, new \in Names : JRename(old, new)
  \/ JFlush \/ JCommit \/ CompactStart \/ RejournalEnd
  \/ \E all \in BOOLEAN : CrashAndReplay(all)

JournalSpec == JournalInit /\ [][JournalNext]_allVars

-----------------------------------------------------------------------------
(***************************************************************************)
(* Properties.                                                             *)
(***************************************************************************)

\* What flush() promised, and what a recovery or compact_journal wrote anew, is
\* what the next open shows after a crash at this moment.
JournalRestores == \A n \in Names : Recovered!Read(n) = saved[n]

\* A crash costs RecoverAll at most the writes that Tier 1 still holds: of a name
\* without a page there the journal, marker or not, has everything.
OnlyTierOneAtRisk ==
  \A n \in Names : pages[n] = Nothing => Replayed!Read(n) = Read(n)

-----------------------------------------------------------------------------
(***************************************************************************)
(* The inductive invariant.                                                *)
(***************************************************************************)

\* What name n shows on state st.
Shows(st, n) ==
  LET page(base) == IF st.pages[n] # Nothing THEN st.pages[n] ELSE base IN
  CASE st.overlay[n] = "tombstone" -> Nothing
    [] st.overlay[n] = "created"   -> page(Empty)
    [] st.overlay[n] = "aliased"   -> page(archive[st.alias[n]])
    [] st.overlay[n] = "none"      -> IF InArchive(n) THEN page(archive[n])
                                                      ELSE Nothing

\* A state that a mount can continue from: EntryInv without the history.
StateInv(st) ==
  /\ st \in States
  /\ \A n \in Names : st.overlay[n] = "aliased" =>
       /\ InArchive(st.alias[n]) /\ st.overlay[st.alias[n]] # "none"
       /\ \A m \in Names :
            st.overlay[m] = "aliased" /\ st.alias[m] = st.alias[n] => m = n
  /\ \A n \in Names :
       st.pages[n] # Nothing \/ st.overlay[n] = "created" => n \in st.dirty
  /\ \A n \in st.dirty :
       \/ st.overlay[n] \in {"created", "aliased"}
       \/ st.overlay[n] = "none" /\ InArchive(n)

\* The journal follows the entry table and Tier 2; while a recovery writes it
\* anew, the recovered pages are in Tier 1 only.
FollowInv ==
  /\ replayed.overlay = overlay
  /\ \A n \in Names : overlay[n] = "aliased" => replayed.alias[n] = alias[n]
  /\ replayed.dirty \subseteq dirty
  /\ \A n \in Names : replayed.pages[n] # Nothing \/ overlay[n] = "created"
                        => n \in replayed.dirty
  /\ replayed.pages = IF task = "recover" THEN pages ELSE index
  /\ task = "recover" => index = [n \in Names |-> Nothing]

CommittedInv ==
  /\ StateInv(committed)
  /\ \A n \in Names : Shows(committed, n) = saved[n]

\* The new journal lacks the aliases in todo, and their sources are not yet gone.
BuildingInv ==
  task # "none" =>
    /\ SourcesFree /\ saved = dir /\ todo \subseteq Aliases
    /\ \A n \in Names : building.overlay[n] =
         IF n \in todo \/ \E m \in todo : alias[m] = n THEN "none" ELSE overlay[n]
    /\ \A n \in Aliases \ todo : building.alias[n] = alias[n]
    /\ building.dirty = Created /\ building.pages = [n \in Names |-> Nothing]

JournalInv ==
  /\ EntryInv /\ JournalTypeOK
  /\ FollowInv /\ CommittedInv /\ BuildingInv

===============================================================================

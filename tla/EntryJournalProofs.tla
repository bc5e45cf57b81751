-------------------------- MODULE EntryJournalProofs --------------------------
(***************************************************************************)
(* Proofs about EntryTable, for every finite set of names, every limit of  *)
(* Tier 1 and every bound on the contents; and about EntryJournal, when a  *)
(* journal is only written anew from a table in which the name of no       *)
(* renamed archive entry is in use again.                                  *)
(***************************************************************************)
EXTENDS EntryJournal, FiniteSetTheorems, TLAPS

-----------------------------------------------------------------------------
(* The table. *)

LEMMA InitInv == Init => EntryInv
<1> SUFFICES ASSUME Init PROVE EntryInv
  OBVIOUS
<1>1. Cardinality(Names) \in Nat
  BY EntryAssumption, FS_CardinalityType
<1>2. \A n \in Names : archive[n] \in Nat
  BY <1>1 DEF Init, Nothing
<1>3. TypeOK
  BY <1>1, <1>2 DEF Init, TypeOK, Overlays, Nothing
<1>4. AliasInv /\ StoresInv
  BY DEF Init, AliasInv, StoresInv
<1>5. DirectoryShown
  BY <1>2 DEF Init, DirectoryShown, Read, Exists, Kind, Base, Source, InArchive
<1>. QED
  BY <1>3, <1>4, <1>5 DEF EntryInv

LEMMA CreateInv ==
  ASSUME EntryInv, NEW n \in Names, Create(n) PROVE EntryInv'
<1>. USE DEF EntryInv
<1>1. TypeOK'
  BY DEF TypeOK, Create, Overlays, Nothing, Empty
<1>2. AliasInv'
  BY DEF TypeOK, AliasInv, Create, InArchive
<1>3. StoresInv'
  BY DEF TypeOK, StoresInv, Create, Exists, Kind, InArchive
<1>4. DirectoryShown'
  <2>. SUFFICES ASSUME NEW m \in Names PROVE Read(m)' = dir'[m]
    BY DEF DirectoryShown
  <2>1. CASE m = n
    BY <2>1 DEF TypeOK, StoresInv, Create, Read, ReadDirty, Exists, Kind, Base,
                Source, InArchive
  <2>2. CASE m # n
    BY ZenonT(40), <2>2 DEF TypeOK, DirectoryShown, Create, Read, ReadDirty, Exists, Kind,
                Base, Source, InArchive
  <2>. QED
    BY <2>1, <2>2
<1>. QED
  BY <1>1, <1>2, <1>3, <1>4

LEMMA RemoveInv ==
  ASSUME EntryInv, NEW n \in Names, Remove(n) PROVE EntryInv'
<1>. USE DEF EntryInv
<1>1. TypeOK'
  BY DEF TypeOK, Remove, Overlays, Nothing
<1>2. AliasInv'
  BY DEF TypeOK, AliasInv, Remove, InArchive
<1>3. StoresInv'
  BY DEF TypeOK, StoresInv, Remove, Exists, Kind, InArchive
<1>4. DirectoryShown'
  BY ZenonT(40) DEF TypeOK, DirectoryShown, Remove, Read, ReadDirty, Exists, Kind, Base,
         Source, InArchive
<1>. QED
  BY <1>1, <1>2, <1>3, <1>4

LEMMA RenameInv ==
  ASSUME EntryInv, NEW old \in Names, NEW new \in Names, Rename(old, new)
  PROVE  EntryInv'
<1>. USE DEF EntryInv
<1>1. old # new
  BY DEF Rename
<1>2. new \notin dirty /\ pages[new] = Nothing /\ index[new] = Nothing
  BY DEF Rename, StoresInv
<1>3. /\ overlay[old] # "tombstone" /\ overlay[new] \in {"none", "tombstone"}
      /\ overlay[old] = "none" => InArchive(old)
      /\ overlay[new] = "none" => ~InArchive(new)
  BY DEF Rename, Exists, Kind, TypeOK, Overlays
<1>4. /\ overlay' = [overlay EXCEPT
             ![new] = IF overlay[old] = "created" THEN "created" ELSE "aliased",
             ![old] = "tombstone"]
      /\ alias' = [alias EXCEPT ![new] = Source(old)]
      /\ archive' = archive
  BY <1>3 DEF Rename, ApplyRename, TypeOK, Overlays
<1>5. /\ dirty' = IF old \in dirty THEN (dirty \ {old}) \cup {new} ELSE dirty
      /\ pages' = [pages EXCEPT ![new] = pages[old], ![old] = Nothing]
      /\ index' = [index EXCEPT ![new] = index[old], ![old] = Nothing]
  <2>1. old \notin dirty =>
          pages = [pages EXCEPT ![new] = pages[old], ![old] = Nothing]
    BY <1>2 DEF TypeOK, StoresInv
  <2>2. index[old] = Nothing =>
          index = [index EXCEPT ![new] = index[old], ![old] = Nothing]
    BY <1>2 DEF TypeOK
  <2>. QED
    BY <2>1, <2>2 DEF Rename, RenameDirty, RenameIndex, diff
<1>6. TypeOK'
  <2>1. Source(old) \in Names
    BY DEF Source, TypeOK
  <2>. QED
    BY <1>4, <1>5, <2>1 DEF TypeOK, Rename, Overlays, Nothing
<1>7. AliasInv'
  BY <1>1, <1>3, <1>4 DEF TypeOK, AliasInv, InArchive, Source, Overlays
<1>8. StoresInv'
  BY <1>1, <1>2, <1>3, <1>4, <1>5
     DEF TypeOK, StoresInv, Exists, Kind, InArchive, Overlays
<1>9. DirectoryShown'
  <2>. SUFFICES ASSUME NEW m \in Names PROVE Read(m)' = dir'[m]
    BY DEF DirectoryShown
  <2>1. dir' = [dir EXCEPT ![new] = dir[old], ![old] = Nothing]
    BY DEF Rename
  <2>2. CASE m = old
    BY <1>1, <1>4, <2>1, <2>2 DEF TypeOK, Read, Exists, Kind
  <2>3. CASE m = new
    BY <1>1, <1>2, <1>3, <1>4, <1>5, <2>1, <2>3
       DEF TypeOK, StoresInv, DirectoryShown, Read, ReadDirty, Exists, Kind, Base,
           Source, InArchive, Overlays
  <2>4. CASE m # old /\ m # new
    BY <1>4, <1>5, <2>1, <2>4
       DEF TypeOK, DirectoryShown, Read, ReadDirty, Exists, Kind, Base, Source,
           InArchive
  <2>. QED
    BY <2>2, <2>3, <2>4
<1>. QED
  BY <1>6, <1>7, <1>8, <1>9

\* What Write leaves in the two tiers: every name but n reads from them what it
\* did, n reads what was written, a page of either tier was there before or is
\* n's, and Tier 2 loses none.
LEMMA WriteStores ==
  ASSUME EntryInv, NEW n \in Names, Write(n)
  PROVE  /\ pages' \in [Names -> Nat] /\ index' \in [Names -> Nat]
         /\ \A m \in Names \ {n} :
              /\ pages'[m] # Nothing \/ index'[m] # Nothing
                   <=> pages[m] # Nothing \/ index[m] # Nothing
              /\ (IF pages'[m] # Nothing THEN pages'[m] ELSE index'[m])
                   = (IF pages[m] # Nothing THEN pages[m] ELSE index[m])
         /\ (IF pages'[n] # Nothing THEN pages'[n] ELSE index'[n]) = last'
         /\ \A m \in Names : index[m] # Nothing => index'[m] # Nothing
<1>. USE DEF EntryInv
<1>1. last' \in Nat \ {Nothing}
  BY DEF Write, TypeOK, Nothing
<1>. DEFINE s == Stored(n, last')
<1>2. /\ s.pages \in [Names -> Nat] /\ s.index \in [Names -> Nat]
      /\ \A m \in Names \ {n} : s.pages[m] = pages[m] /\ s.index[m] = index[m]
      /\ (IF s.pages[n] # Nothing THEN s.pages[n] ELSE s.index[n]) = last'
      /\ \A m \in Names : index[m] # Nothing => s.index[m] # Nothing
  BY <1>1 DEF Stored, TypeOK
<1>. HIDE DEF s
<1>3. PICK V \in Victims(s.pages) :
        /\ pages' = [m \in Names |-> IF m \in V THEN Nothing ELSE s.pages[m]]
        /\ index' = [m \in Names |-> IF m \in V THEN s.pages[m] ELSE s.index[m]]
  BY DEF Write, s
<1>4. \A m \in V : s.pages[m] # Nothing
  BY DEF Victims
<1>. QED
  BY <1>2, <1>3, <1>4 DEF Nothing

LEMMA WriteInv ==
  ASSUME EntryInv, NEW n \in Names, Write(n) PROVE EntryInv'
<1>. USE DEF EntryInv
<1>1. /\ Exists(n) /\ dirty' = dirty \cup {n} /\ last' \in Nat \ {Nothing}
      /\ dir' = [dir EXCEPT ![n] = last']
      /\ archive' = archive /\ overlay' = overlay /\ alias' = alias
  BY DEF Write, TypeOK, table, Nothing
<1>2. TypeOK'
  BY <1>1, WriteStores DEF TypeOK
<1>3. AliasInv'
  BY <1>1 DEF AliasInv, InArchive
<1>4. StoresInv'
  BY <1>1, WriteStores DEF StoresInv, Exists, Kind, InArchive
<1>5. DirectoryShown'
  <2>. SUFFICES ASSUME NEW m \in Names PROVE Read(m)' = dir'[m]
    BY DEF DirectoryShown
  <2>1. CASE m = n
    BY <1>1, <2>1, WriteStores
       DEF TypeOK, Read, ReadDirty, Exists, Kind, InArchive
  <2>2. CASE m # n
    <3>1. Exists(m)' = Exists(m) /\ Kind(m)' = Kind(m) /\ Source(m)' = Source(m)
          /\ Base(m)' = Base(m) /\ (m \in dirty' <=> m \in dirty)
      BY <1>1, <2>2 DEF Exists, Kind, Source, Base, InArchive
    <3>2. ReadDirty(m)' = ReadDirty(m)
      BY <2>2, <3>1, WriteStores DEF ReadDirty
    <3>3. Read(m)' = Read(m)
      BY <3>1, <3>2 DEF Read
    <3>. QED
      BY <1>1, <2>2, <3>3 DEF TypeOK, DirectoryShown
  <2>. QED
    BY <2>1, <2>2
<1>. QED
  BY <1>2, <1>3, <1>4, <1>5

LEMMA FlushInv == ASSUME EntryInv, Flush PROVE EntryInv'
<1>. USE DEF EntryInv
<1>1. /\ archive' = archive /\ overlay' = overlay /\ alias' = alias
      /\ dirty' = dirty /\ pages' = pages /\ last' = last /\ dir' = dir
      /\ index' = FlushedIndex
  BY DEF Flush, table, diff
<1>2. FlushedIndex \in [Names -> Nat]
  BY DEF FlushedIndex, TypeOK
<1>3. TypeOK'
  BY <1>1, <1>2 DEF TypeOK
<1>4. AliasInv'
  BY <1>1 DEF AliasInv, InArchive
<1>5. StoresInv'
  BY <1>1 DEF StoresInv, FlushedIndex, Exists, Kind, InArchive
<1>6. DirectoryShown'
  BY ZenonT(40), <1>1 DEF TypeOK, DirectoryShown, FlushedIndex, Read, ReadDirty, Exists, Kind,
              Base, Source, InArchive
<1>. QED
  BY <1>3, <1>4, <1>5, <1>6

\* A commit writes what the mount shows.
LEMMA EmittedIsRead ==
  ASSUME EntryInv, NEW n \in Names PROVE Emitted(n) = Read(n)
<1>. USE DEF EntryInv
<1>1. Redirtied = dirty
  BY DEF Redirtied, FlushedIndex, StoresInv, TypeOK
<1>2. Rehydrated[n] = IF pages[n] # Nothing THEN pages[n] ELSE index[n]
  BY DEF Rehydrated, FlushedIndex
<1>3. \A base : Assembled(n, base) = IF pages[n] # Nothing THEN pages[n]
                                     ELSE IF index[n] # Nothing THEN index[n]
                                     ELSE base
  BY <1>2 DEF Assembled
<1>4. n \notin dirty => pages[n] = Nothing /\ index[n] = Nothing
  BY DEF StoresInv
<1>5. overlay[n] \in Overlays
  BY DEF TypeOK
<1>6. CASE overlay[n] \in {"tombstone", "none"}
  BY <1>1, <1>3, <1>4, <1>6
     DEF Emitted, Read, ReadDirty, Exists, Kind, Base, Source, InArchive
<1>7. CASE overlay[n] \in {"created", "aliased"}
  BY <1>1, <1>3, <1>4, <1>7
     DEF Emitted, Read, ReadDirty, Exists, Kind, Base, Source, InArchive,
         StoresInv
<1>. QED
  BY <1>5, <1>6, <1>7 DEF Overlays

LEMMA CommitInv == ASSUME EntryInv, Commit PROVE EntryInv'
<1>. USE DEF EntryInv
<1>1. archive' = dir
  BY EmittedIsRead DEF Commit, DirectoryShown, TypeOK
<1>2. /\ overlay' = [n \in Names |-> "none"] /\ alias' = alias /\ dirty' = {}
      /\ pages' = [n \in Names |-> Nothing] /\ index' = [n \in Names |-> Nothing]
      /\ last' = last /\ dir' = dir
  BY DEF Commit
<1>3. TypeOK'
  BY <1>1, <1>2 DEF TypeOK, Overlays, Nothing
<1>4. AliasInv' /\ StoresInv'
  BY <1>2 DEF AliasInv, StoresInv
<1>5. DirectoryShown'
  BY <1>1, <1>2 DEF DirectoryShown, Read, Exists, Kind, Base, Source, InArchive
<1>. QED
  BY <1>3, <1>4, <1>5

\* The inductive invariant: the names draw their data from sources of their own,
\* the stores keyed by name hold something for existing dirty names only, and so
\* every name reads as the user's calls made it.
THEOREM Invariant == Spec => []EntryInv
<1>1. EntryInv /\ [Next]_vars => EntryInv'
  <2>. SUFFICES ASSUME EntryInv, [Next]_vars PROVE EntryInv'
    OBVIOUS
  <2>1. ASSUME NEW n \in Names, Create(n) PROVE EntryInv'
    BY <2>1, CreateInv
  <2>2. ASSUME NEW n \in Names, Remove(n) PROVE EntryInv'
    BY <2>2, RemoveInv
  <2>3. ASSUME NEW n \in Names, Write(n) PROVE EntryInv'
    BY <2>3, WriteInv
  <2>4. ASSUME NEW old \in Names, NEW new \in Names, Rename(old, new)
        PROVE  EntryInv'
    BY <2>4, RenameInv
  <2>5. CASE Flush
    BY <2>5, FlushInv
  <2>6. CASE Commit
    BY <2>6, CommitInv
  <2>7. CASE UNCHANGED vars
    BY ZenonT(40), <2>7 DEF vars, table, diff, EntryInv, TypeOK, AliasInv, StoresInv,
                DirectoryShown, Read, ReadDirty, Exists, Kind, Base, Source,
                InArchive
  <2>. QED
    BY <2>1, <2>2, <2>3, <2>4, <2>5, <2>6, <2>7 DEF Next
<1>. QED
  BY <1>1, InitInv, PTL DEF Spec

\* TypeOK: every variable of the entry table and its stores keeps its type.
THEOREM TypeCorrect == Spec => []TypeOK
BY Invariant, PTL DEF EntryInv

\* DirectoryShown: through any sequence of creates, removes, renames, writes,
\* spills, flushes and commits, every name reads as the user's calls made it.
THEOREM DirectoryCorrect == Spec => []DirectoryShown
BY Invariant, PTL DEF EntryInv

\* SourceOwnedOnce: the data of an archive entry is never shown under two names.
THEOREM SourceExclusive == Spec => []SourceOwnedOnce
<1>1. EntryInv => SourceOwnedOnce
  BY DEF EntryInv, TypeOK, Overlays, AliasInv, SourceOwnedOnce, Kind, Source,
         InArchive
<1>. QED
  BY <1>1, Invariant, PTL

-----------------------------------------------------------------------------
(* The journal. *)

\* What the theorems assume: the code writes a journal anew in an order that is
\* right only when no name of a renamed archive entry is in use.
Restricted == RejournalAny => MaxRejournals = 0

-----------------------------------------------------------------------------
(* What a state shows. *)

LEMMA RecoveredShows ==
  ASSUME StateInv(committed), NEW n \in Names
  PROVE  Recovered!Read(n) = Shows(committed, n)
BY DEF StateInv, States, Overlays, Shows, InArchive, Recovered!Read,
       Recovered!ReadDirty, Recovered!Exists, Recovered!Kind, Recovered!Base,
       Recovered!Source, Recovered!InArchive, Recovered!Nothing,
       Recovered!Empty, Nothing, Empty

LEMMA ReplayedShows ==
  ASSUME StateInv(replayed), NEW n \in Names
  PROVE  Replayed!Read(n) = Shows(replayed, n)
BY DEF StateInv, States, Overlays, Shows, InArchive, Replayed!Read,
       Replayed!ReadDirty, Replayed!Exists, Replayed!Kind, Replayed!Base,
       Replayed!Source, Replayed!InArchive, Replayed!Nothing,
       Replayed!Empty, Nothing, Empty

\* The journal's state is one to continue from.
LEMMA FollowState ==
  ASSUME EntryInv, JournalTypeOK, FollowInv
  PROVE  StateInv(replayed)
<1>1. /\ replayed \in States /\ overlay \in [Names -> Overlays]
      /\ alias \in [Names -> Names]
  BY DEF JournalTypeOK, TypeOK
<1>2. \A n \in dirty : \/ overlay[n] \in {"created", "aliased"}
                       \/ overlay[n] = "none" /\ InArchive(n)
  BY <1>1 DEF EntryInv, StoresInv, TypeOK, Exists, Kind, Overlays
<1>3. \A n \in Names : overlay[n] = "aliased" =>
        /\ InArchive(alias[n]) /\ overlay[alias[n]] # "none"
        /\ \A m \in Names : overlay[m] = "aliased" /\ alias[m] = alias[n] => m = n
  BY DEF EntryInv, AliasInv
<1>. QED
  BY <1>1, <1>2, <1>3 DEF FollowInv, StateInv

\* With the pages of both tiers, the journal's state shows what the mount does.
LEMMA FollowShows ==
  ASSUME EntryInv, NEW st, st.overlay = overlay,
         \A n \in Names : overlay[n] = "aliased" => st.alias[n] = alias[n],
         st.pages = FlushedIndex,
         NEW n \in Names
  PROVE  Shows(st, n) = dir[n]
<1>1. Read(n) = dir[n] /\ overlay[n] \in Overlays
  BY DEF EntryInv, DirectoryShown, TypeOK
<1>2. n \notin dirty => pages[n] = Nothing /\ index[n] = Nothing
  BY DEF EntryInv, StoresInv
<1>3. st.pages[n] = IF pages[n] # Nothing THEN pages[n] ELSE index[n]
  BY DEF FlushedIndex
<1>4. CASE overlay[n] \in {"tombstone", "none"}
  BY <1>1, <1>2, <1>3, <1>4
     DEF Shows, Read, ReadDirty, Exists, Kind, Base, Source, InArchive
<1>5. CASE overlay[n] \in {"created", "aliased"}
  BY <1>1, <1>2, <1>3, <1>5
     DEF Shows, Read, ReadDirty, Exists, Kind, Base, Source, InArchive
<1>. QED
  BY <1>1, <1>4, <1>5 DEF Overlays

LEMMA NewStateInv ==
  /\ StateInv(NewState)
  /\ archive \in [Names -> Nat] => \A n \in Names : Shows(NewState, n) = archive[n]
BY DEF StateInv, States, NewState, Overlays, Nothing, Shows, InArchive

-----------------------------------------------------------------------------
(* The records. *)

\* Every kind of record takes a state to a state.
LEMMA ReplayTypes ==
  ASSUME NEW st \in States
  PROVE  /\ \A S \in SUBSET Names : /\ ReplayCreate(st, S) \in States
                                    /\ ReplayRemove(st, S) \in States
                                    /\ ReplayResize(st, S) \in States
         /\ \A o, n \in Names : ReplayRename(st, o, n) \in States
         /\ \A p \in [Names -> Nat] : ReplayPages(st, p) \in States
<1>. /\ st.overlay \in [Names -> Overlays] /\ st.alias \in [Names -> Names]
     /\ st.dirty \subseteq Names /\ st.pages \in [Names -> Nat]
     /\ st = [overlay |-> st.overlay, alias |-> st.alias,
              dirty |-> st.dirty, pages |-> st.pages]
  BY DEF States
<1>1. ASSUME NEW S \in SUBSET Names
      PROVE  /\ ReplayCreate(st, S) \in States
             /\ ReplayRemove(st, S) \in States
             /\ ReplayResize(st, S) \in States
  BY DEF ReplayCreate, ReplayRemove, ReplayResize, States, Overlays, Nothing
<1>2. ASSUME NEW o \in Names, NEW n \in Names
      PROVE  ReplayRename(st, o, n) \in States
  BY DEF ReplayRename, States, Overlays, Nothing
<1>3. ASSUME NEW p \in [Names -> Nat] PROVE ReplayPages(st, p) \in States
  BY DEF ReplayPages, States, Nothing
<1>. QED
  BY <1>1, <1>2, <1>3

\* What each kind of record leaves.
LEMMA ReplayFields ==
  ASSUME NEW st \in States
  PROVE  /\ \A S : LET c == ReplayCreate(st, S) IN
              /\ c.overlay = [n \in Names |-> IF n \in S THEN "created"
                                                         ELSE st.overlay[n]]
              /\ c.alias = st.alias /\ c.dirty = st.dirty \cup S
              /\ c.pages = [n \in Names |-> IF n \in S THEN Nothing
                                                       ELSE st.pages[n]]
         /\ \A S : LET r == ReplayRemove(st, S) IN
              /\ r.overlay = [n \in Names |-> IF n \in S THEN "tombstone"
                                                         ELSE st.overlay[n]]
              /\ r.alias = st.alias /\ r.dirty = st.dirty \ S
              /\ r.pages = [n \in Names |-> IF n \in S THEN Nothing
                                                       ELSE st.pages[n]]
         /\ \A S : LET z == ReplayResize(st, S) IN
              /\ z.overlay = st.overlay /\ z.alias = st.alias
              /\ z.dirty = st.dirty \cup S /\ z.pages = st.pages
         /\ \A p : LET d == ReplayPages(st, p) IN
              /\ d.overlay = st.overlay /\ d.alias = st.alias
              /\ d.dirty = st.dirty \cup {n \in Names : p[n] # Nothing}
              /\ d.pages = [n \in Names |-> IF p[n] # Nothing THEN p[n]
                                                              ELSE st.pages[n]]
BY DEF States, ReplayCreate, ReplayRemove, ReplayResize, ReplayPages

-----------------------------------------------------------------------------
(* The operations. *)

\* Operations outside a rejournaling keep what is about the committed state, as
\* long as they leave the archive alone.
LEMMA CommittedKept ==
  ASSUME CommittedInv, UNCHANGED <<archive, committed, saved>>
  PROVE  CommittedInv'
BY DEF CommittedInv, StateInv, Shows, InArchive

\* A marker makes the journal with the pages of both tiers the committed state.
Marked ==
  /\ EntryInv /\ JournalTypeOK /\ FollowInv
  /\ replayed.pages = FlushedIndex /\ committed = replayed /\ saved = dir

LEMMA MarkerCommits == Marked => CommittedInv
BY FollowState, FollowShows DEF Marked, CommittedInv, FollowInv

LEMMA MarkerCommitsNext == Marked' => CommittedInv'
BY MarkerCommits, PTL

LEMMA JCreateInv ==
  ASSUME JournalInv, NEW n \in Names, JCreate(n) PROVE JournalInv'
<1>. USE DEF JournalInv
<1>1. /\ task = "none" /\ Create(n)
      /\ replayed' = ReplayCreate(replayed, {n})
      /\ UNCHANGED <<archive, alias, index, committed, saved>>
      /\ UNCHANGED <<task, building, todo, rejournals>>
  BY DEF JCreate, Create, rejournal
<1>2. EntryInv'
  BY <1>1, CreateInv
<1>3. JournalTypeOK'
  BY <1>1, <1>2, ReplayTypes DEF JournalTypeOK, EntryInv
<1>5. FollowInv'
  <2>1. replayed \in States /\ overlay \in [Names -> Overlays]
    BY DEF JournalTypeOK, TypeOK
  <2>2. /\ replayed'.overlay = [m \in Names |-> IF m \in {n} THEN "created"
                                                ELSE replayed.overlay[m]]
        /\ replayed'.alias = replayed.alias
        /\ replayed'.dirty = replayed.dirty \cup {n}
        /\ replayed'.pages = [m \in Names |-> IF m \in {n} THEN Nothing
                                              ELSE replayed.pages[m]]
    BY <1>1, <2>1, ReplayFields
  <2>3. overlay' = [overlay EXCEPT ![n] = "created"] /\ dirty' = dirty \cup {n}
    BY <1>1 DEF Create
  <2>4. index[n] = Nothing /\ index \in [Names -> Nat]
    BY <1>1 DEF EntryInv, StoresInv, TypeOK, Create
  <2>. QED
    BY <1>1, <2>1, <2>2, <2>3, <2>4 DEF FollowInv
<1>6. CommittedInv'
  BY <1>1, CommittedKept
<1>7. BuildingInv'
  BY <1>1 DEF BuildingInv
<1>. QED
  BY <1>2, <1>3, <1>5, <1>6, <1>7

LEMMA JRemoveInv ==
  ASSUME JournalInv, NEW n \in Names, JRemove(n) PROVE JournalInv'
<1>. USE DEF JournalInv
<1>1. /\ task = "none" /\ Remove(n)
      /\ replayed' = ReplayRemove(replayed, {n})
      /\ UNCHANGED <<archive, alias, committed, saved>>
      /\ UNCHANGED <<task, building, todo, rejournals>>
  BY DEF JRemove, Remove, rejournal
<1>2. EntryInv'
  BY <1>1, RemoveInv
<1>3. JournalTypeOK'
  BY <1>1, <1>2, ReplayTypes DEF JournalTypeOK, EntryInv
<1>5. FollowInv'
  <2>1. replayed \in States /\ overlay \in [Names -> Overlays]
    BY DEF JournalTypeOK, TypeOK
  <2>2. /\ replayed'.overlay = [m \in Names |-> IF m \in {n} THEN "tombstone"
                                                ELSE replayed.overlay[m]]
        /\ replayed'.alias = replayed.alias
        /\ replayed'.dirty = replayed.dirty \ {n}
        /\ replayed'.pages = [m \in Names |-> IF m \in {n} THEN Nothing
                                              ELSE replayed.pages[m]]
    BY <1>1, <2>1, ReplayFields
  <2>3. /\ overlay' = [overlay EXCEPT ![n] = "tombstone"] /\ dirty' = dirty \ {n}
        /\ index' = [index EXCEPT ![n] = Nothing] /\ index \in [Names -> Nat]
    BY <1>1 DEF Remove, EntryInv, TypeOK
  <2>. QED
    BY <1>1, <2>1, <2>2, <2>3 DEF FollowInv
<1>6. CommittedInv'
  BY <1>1, CommittedKept
<1>7. BuildingInv'
  BY <1>1 DEF BuildingInv
<1>. QED
  BY <1>2, <1>3, <1>5, <1>6, <1>7

LEMMA JRenameInv ==
  ASSUME JournalInv, NEW old \in Names, NEW new \in Names, JRename(old, new)
  PROVE  JournalInv'
<1>. USE DEF JournalInv
<1>1. /\ task = "none" /\ Rename(old, new) /\ old # new
      /\ replayed' = ReplayRename(replayed, old, new)
      /\ UNCHANGED <<archive, committed, saved>>
      /\ UNCHANGED <<task, building, todo, rejournals>>
  BY DEF JRename, Rename, rejournal
<1>2. /\ overlay \in [Names -> Overlays] /\ alias \in [Names -> Names]
      /\ index \in [Names -> Nat] /\ replayed \in States
  BY DEF EntryInv, TypeOK, JournalTypeOK
<1>3. /\ overlay' = [overlay EXCEPT
             ![new] = CASE overlay[old] \in {"created", "aliased"} -> overlay[old]
                        [] OTHER -> IF InArchive(old) THEN "aliased" ELSE "created",
             ![old] = "tombstone"]
      /\ alias' = [alias EXCEPT ![new] = Source(old)]
  BY <1>1 DEF Rename, ApplyRename
<1>4. EntryInv'
  BY <1>1, RenameInv
<1>5. JournalTypeOK'
  BY <1>1, <1>4, ReplayTypes DEF JournalTypeOK, EntryInv
<1>7. FollowInv'
  <2>1. /\ replayed.overlay = overlay /\ replayed.pages = index
        /\ replayed.dirty \subseteq dirty
        /\ \A m \in Names : overlay[m] = "aliased" => replayed.alias[m] = alias[m]
        /\ \A m \in Names : replayed.pages[m] # Nothing \/ overlay[m] = "created"
                              => m \in replayed.dirty
        /\ replayed.alias \in [Names -> Names]
    BY <1>1, <1>2 DEF FollowInv, States
  <2>2. /\ new \notin dirty /\ index[new] = Nothing
    BY <1>1 DEF Rename, EntryInv, StoresInv
  <2>3. /\ replayed'.overlay = overlay'
        /\ replayed'.alias = [replayed.alias EXCEPT
             ![new] = IF overlay[old] = "aliased" THEN replayed.alias[old] ELSE old]
        /\ replayed'.dirty = IF old \in replayed.dirty
                             THEN (replayed.dirty \ {old}) \cup {new}
                             ELSE replayed.dirty
        /\ replayed'.pages = IF old \in replayed.dirty
             THEN [index EXCEPT ![new] = index[old], ![old] = Nothing]
             ELSE index
    BY <1>1, <1>3, <2>1 DEF ReplayRename
  <2>4. index' = IF index[old] # Nothing
                 THEN [index EXCEPT ![new] = index[old], ![old] = Nothing]
                 ELSE index
    BY <1>1 DEF Rename, RenameIndex
  <2>5. replayed'.pages = index'
    <3>1. index[old] # Nothing => old \in replayed.dirty
      BY <2>1
    <3>2. index[old] = Nothing =>
            index = [index EXCEPT ![new] = index[old], ![old] = Nothing]
      BY <1>2, <2>2
    <3>. QED
      BY <2>3, <2>4, <3>1, <3>2
  <2>6. dirty' = IF old \in dirty THEN (dirty \ {old}) \cup {new} ELSE dirty
    BY <1>1 DEF Rename, RenameDirty, diff
  <2>7. replayed'.dirty \subseteq dirty'
    BY <2>1, <2>3, <2>6
  <2>8. \A m \in Names : overlay'[m] = "aliased" => replayed'.alias[m] = alias'[m]
    BY <1>1, <1>2, <1>3, <2>1, <2>3 DEF Source
  <2>9. \A m \in Names : replayed'.pages[m] # Nothing \/ overlay'[m] = "created"
                           => m \in replayed'.dirty
    <3>1. overlay'[new] = "created" => overlay[old] = "created"
      BY <1>1, <1>2, <1>3 DEF Rename, Exists, Kind, Overlays
    <3>2. overlay'[old] = "tombstone" /\ index'[old] = Nothing
      BY <1>1, <1>2, <1>3, <2>4
    <3>3. \A m \in Names \ {old, new} :
            overlay'[m] = overlay[m] /\ index'[m] = index[m]
      BY <1>1, <1>2, <1>3, <2>4
    <3>4. index'[new] # Nothing => index[old] # Nothing
      BY <1>1, <1>2, <2>2, <2>4
    <3>. QED
      BY ZenonT(40), <2>1, <2>3, <2>5, <3>1, <3>2, <3>3, <3>4
  <2>. QED
    BY <1>1, <2>3, <2>5, <2>7, <2>8, <2>9 DEF FollowInv
<1>8. CommittedInv'
  BY <1>1, CommittedKept
<1>9. BuildingInv'
  BY <1>1 DEF BuildingInv
<1>. QED
  BY <1>4, <1>5, <1>7, <1>8, <1>9

LEMMA JWriteInv ==
  ASSUME JournalInv, NEW n \in Names, JWrite(n) PROVE JournalInv'
<1>. USE DEF JournalInv
<1>. DEFINE p == [m \in Names |-> IF index'[m] # index[m] THEN index'[m]
                                                          ELSE Nothing]
<1>1. /\ task = "none" /\ Write(n) /\ replayed' = ReplayPages(replayed, p)
      /\ UNCHANGED <<archive, overlay, alias, committed, saved>>
      /\ UNCHANGED <<task, building, todo, rejournals>>
  BY DEF JWrite, Write, table, rejournal
<1>2. EntryInv'
  BY <1>1, WriteInv
<1>3. /\ index \in [Names -> Nat] /\ index' \in [Names -> Nat]
      /\ \A m \in Names : index[m] # Nothing => index'[m] # Nothing
      /\ replayed \in States
  BY <1>1, WriteStores DEF EntryInv, TypeOK, JournalTypeOK
<1>4. p \in [Names -> Nat]
  BY <1>3 DEF Nothing
<1>. HIDE DEF p
<1>5. JournalTypeOK'
  BY <1>1, <1>2, <1>3, <1>4, ReplayTypes DEF JournalTypeOK, EntryInv
<1>7. FollowInv'
  <2>1. /\ replayed'.overlay = replayed.overlay
        /\ replayed'.alias = replayed.alias
        /\ replayed'.dirty = replayed.dirty \cup {m \in Names : p[m] # Nothing}
        /\ replayed'.pages = [m \in Names |-> IF p[m] # Nothing THEN p[m]
                                              ELSE replayed.pages[m]]
    BY <1>1, <1>3, ReplayFields
  <2>2. replayed.pages = index
    BY <1>1 DEF FollowInv
  <2>3. replayed'.pages = index'
    BY <1>3, <2>1, <2>2 DEF p
  <2>4. dirty' = dirty \cup {n}
    BY <1>1 DEF Write
  <2>5. \A m \in Names : p[m] # Nothing => m \in dirty'
    BY <1>2, <1>3 DEF EntryInv, StoresInv, p
  <2>6. \A m \in Names : replayed'.pages[m] # Nothing => m \in replayed'.dirty
    BY <2>1 DEF FollowInv
  <2>. QED
    BY <1>1, <2>1, <2>3, <2>4, <2>5, <2>6 DEF FollowInv
<1>8. CommittedInv'
  BY <1>1, CommittedKept
<1>9. BuildingInv'
  BY <1>1 DEF BuildingInv
<1>. QED
  BY <1>2, <1>5, <1>7, <1>8, <1>9

\* flush, at the end of which the journal has the pages of both tiers.
LEMMA MarkerInv ==
  ASSUME JournalInv, task = "none", Flush,
         replayed' = ReplayPages(replayed, pages),
         committed' = replayed', saved' = dir,
         task' \in {"none", "compact"}, building' \in States,
         todo' \subseteq Names, task' = "none" => todo' = {},
         rejournals' \in 0..MaxRejournals
  PROVE  /\ (EntryInv /\ JournalTypeOK)'
         /\ (FollowInv /\ CommittedInv)'
<1>. USE DEF JournalInv
<1>1. /\ UNCHANGED <<archive, overlay, alias, dirty, pages, last, dir>>
      /\ index' = FlushedIndex
  BY DEF Flush, table, diff
<1>2. EntryInv'
  BY FlushInv
<1>3. replayed \in States /\ pages \in [Names -> Nat] /\ dir \in [Names -> Nat]
  BY DEF JournalTypeOK, TypeOK
<1>4. JournalTypeOK'
  BY <1>1, <1>2, <1>3, ReplayTypes DEF JournalTypeOK, EntryInv
<1>6. /\ replayed'.overlay = replayed.overlay
      /\ replayed'.alias = replayed.alias
      /\ replayed'.dirty = replayed.dirty \cup {m \in Names : pages[m] # Nothing}
      /\ replayed'.pages = [m \in Names |-> IF pages[m] # Nothing THEN pages[m]
                                            ELSE replayed.pages[m]]
  BY <1>3, ReplayFields
<1>7. replayed'.pages = FlushedIndex
  BY <1>6 DEF FollowInv, FlushedIndex
<1>8. FollowInv'
  <2>1. \A m \in Names : pages[m] # Nothing => m \in dirty
    BY DEF EntryInv, StoresInv
  <2>. QED
    BY <1>1, <1>6, <1>7, <2>1 DEF FollowInv
<1>9. FlushedIndex' = FlushedIndex
  BY <1>1 DEF FlushedIndex
<1>. QED
  BY <1>1, <1>2, <1>4, <1>7, <1>8, <1>9, MarkerCommitsNext DEF Marked

LEMMA JFlushInv == ASSUME JournalInv, JFlush PROVE JournalInv'
<1>1. /\ task = "none" /\ Flush /\ replayed' = ReplayPages(replayed, pages)
      /\ committed' = replayed' /\ saved' = dir
      /\ UNCHANGED <<task, building, todo, rejournals>>
  BY DEF JFlush, rejournal
<1>2. BuildingInv'
  BY <1>1 DEF BuildingInv
<1>. QED
  BY <1>1, <1>2, MarkerInv DEF JournalInv, JournalTypeOK

LEMMA JCommitInv == ASSUME JournalInv, JCommit PROVE JournalInv'
<1>. USE DEF JournalInv
<1>1. /\ task = "none" /\ Commit
      /\ replayed' = NewState /\ committed' = NewState /\ saved' = dir
      /\ UNCHANGED <<task, building, todo, rejournals>>
  BY DEF JCommit, rejournal
<1>2. EntryInv'
  BY <1>1, CommitInv
<1>3. /\ overlay' = [n \in Names |-> "none"] /\ alias' = alias /\ dirty' = {}
      /\ index' = [n \in Names |-> Nothing] /\ dir' = dir
  BY <1>1 DEF Commit
<1>4. archive' = dir /\ archive' \in [Names -> Nat] /\ dir \in [Names -> Nat]
  BY <1>1, EmittedIsRead
     DEF Commit, EntryInv, DirectoryShown, TypeOK
<1>5. NewState \in States
  BY NewStateInv DEF StateInv
<1>6. JournalTypeOK'
  BY <1>1, <1>2, <1>4, <1>5 DEF JournalTypeOK, EntryInv
<1>8. FollowInv'
  BY <1>1, <1>3 DEF FollowInv, NewState
<1>9. CommittedInv'
  <2>1. StateInv(committed)'
    BY <1>1 DEF StateInv, States, NewState, Overlays, Nothing
  <2>2. \A n \in Names : Shows(committed, n)' = archive'[n]
    BY <1>1, <1>4 DEF Shows, NewState, InArchive, Nothing
  <2>. QED
    BY <1>1, <1>4, <2>1, <2>2 DEF CommittedInv
<1>10. BuildingInv'
  BY <1>1 DEF BuildingInv
<1>. QED
  BY <1>2, <1>6, <1>8, <1>9, <1>10

-----------------------------------------------------------------------------
(* Writing the journal anew. *)

\* Where a new journal begins.
LEMMA RejournalStartInv ==
  EntryInv =>
    /\ RejournalStart \in States
    /\ RejournalStart.overlay =
         [n \in Names |-> IF overlay[n] = "tombstone" /\ n \notin Sources
                          THEN "tombstone"
                          ELSE IF overlay[n] = "created" THEN "created"
                          ELSE "none"]
    /\ RejournalStart.dirty = Created
    /\ RejournalStart.pages = [n \in Names |-> Nothing]
<1>. SUFFICES ASSUME EntryInv
     PROVE  /\ RejournalStart \in States
            /\ RejournalStart.overlay =
                 [n \in Names |-> IF overlay[n] = "tombstone" /\ n \notin Sources
                                  THEN "tombstone"
                                  ELSE IF overlay[n] = "created" THEN "created"
                                  ELSE "none"]
            /\ RejournalStart.dirty = Created
            /\ RejournalStart.pages = [n \in Names |-> Nothing]
  OBVIOUS
<1>1. NewState \in States
  BY NewStateInv DEF StateInv
<1>. DEFINE c == ReplayCreate(NewState, Created)
            T == Tombstones \ Sources
<1>2. Created \in SUBSET Names /\ T \in SUBSET Names
  BY DEF Created, Tombstones
<1>3. /\ c \in States
      /\ c.overlay = [n \in Names |-> IF n \in Created THEN "created" ELSE "none"]
      /\ c.dirty = Created /\ c.pages = [n \in Names |-> Nothing]
  <2>1. /\ NewState.overlay = [n \in Names |-> "none"] /\ NewState.dirty = {}
        /\ NewState.pages = [n \in Names |-> Nothing]
    BY DEF NewState
  <2>2. c \in States
    BY <1>1, <1>2, ReplayTypes
  <2>3. /\ c.overlay = [n \in Names |-> IF n \in Created THEN "created"
                                        ELSE NewState.overlay[n]]
        /\ c.dirty = NewState.dirty \cup Created
        /\ c.pages = [n \in Names |-> IF n \in Created THEN Nothing
                                      ELSE NewState.pages[n]]
    BY <1>1, ReplayFields
  <2>. QED
    BY <2>1, <2>2, <2>3
<1>. HIDE DEF c
<1>4. ReplayRemove(c, T) \in States
  BY <1>2, <1>3, ReplayTypes
<1>5. /\ ReplayRemove(c, T).overlay = [n \in Names |-> IF n \in T THEN "tombstone"
                                                       ELSE c.overlay[n]]
      /\ ReplayRemove(c, T).dirty = c.dirty \ T
      /\ ReplayRemove(c, T).pages = [n \in Names |-> IF n \in T THEN Nothing
                                                     ELSE c.pages[n]]
  BY <1>3, ReplayFields
<1>6. RejournalStart = ReplayRemove(c, T)
  BY DEF RejournalStart, c
<1>7. \A n \in Names : /\ n \in T <=> overlay[n] = "tombstone" /\ n \notin Sources
                       /\ n \in Created <=> overlay[n] = "created"
  BY DEF Tombstones, Created
<1>8. Created \ T = Created
  BY DEF Tombstones, Created
<1>. HIDE DEF T
<1>. QED
  BY <1>3, <1>4, <1>5, <1>6, <1>7, <1>8

Begun ==
  /\ EntryInv /\ SourcesFree /\ saved = dir
  /\ building = RejournalStart /\ todo = Aliases

LEMMA BegunInv == Begun => BuildingInv
<1>. SUFFICES ASSUME Begun PROVE BuildingInv
  OBVIOUS
<1>1. /\ EntryInv /\ overlay \in [Names -> Overlays] /\ alias \in [Names -> Names]
  BY DEF Begun, EntryInv, TypeOK
<1>2. \A n \in Names : overlay[n] = "aliased" => overlay[alias[n]] = "tombstone"
  BY DEF Begun, SourcesFree
<1>3. \A n \in Names : n \in Sources <=> \E m \in Aliases : alias[m] = n
  BY DEF Sources, Aliases
<1>4. /\ Aliases \subseteq Names
      /\ \A n \in Names : n \in Aliases <=> overlay[n] = "aliased"
  BY DEF Aliases
<1>5. ASSUME NEW n \in Names
      PROVE  building.overlay[n] = IF n \in todo \/ \E m \in todo : alias[m] = n
                                   THEN "none" ELSE overlay[n]
  <2>1. building.overlay[n] = IF overlay[n] = "tombstone" /\ n \notin Sources
                              THEN "tombstone"
                              ELSE IF overlay[n] = "created" THEN "created"
                              ELSE "none"
    BY <1>1, RejournalStartInv DEF Begun
  <2>2. n \in Sources => overlay[n] = "tombstone"
    BY <1>2, <1>3, <1>4
  <2>3. overlay[n] \in Overlays
    BY <1>1
  <2>. QED
    BY <1>3, <1>4, <2>1, <2>2, <2>3 DEF Begun, Overlays
<1>. QED
  BY <1>1, <1>5, RejournalStartInv DEF Begun, BuildingInv, Aliases

LEMMA BegunInvNext == Begun' => BuildingInv'
BY BegunInv, PTL

LEMMA CompactStartInv == ASSUME Restricted, JournalInv, CompactStart PROVE JournalInv'
<1>1. /\ task = "none" /\ rejournals < MaxRejournals
      /\ Flush /\ replayed' = ReplayPages(replayed, pages)
      /\ committed' = replayed' /\ saved' = dir
      /\ task' = "compact" /\ building' = RejournalStart /\ todo' = Aliases
      /\ rejournals' = rejournals + 1
  BY DEF CompactStart
<1>2. EntryInv /\ RejournalStart \in States /\ Aliases \subseteq Names
  BY RejournalStartInv DEF JournalInv, Aliases
<1>3. rejournals' \in 0..MaxRejournals
  BY <1>1, JournalAssumption DEF JournalInv, JournalTypeOK
<1>4. (EntryInv /\ JournalTypeOK)' /\ (FollowInv /\ CommittedInv)'
  BY <1>1, <1>2, <1>3, MarkerInv
<1>5. SourcesFree
  BY JournalAssumption DEF Restricted, CompactStart, JournalInv, JournalTypeOK
<1>6. /\ dir' = dir /\ RejournalStart' = RejournalStart /\ Aliases' = Aliases
      /\ SourcesFree'
  BY <1>1, <1>5 DEF Flush, table, diff, RejournalStart, Aliases, Created,
                    Tombstones, Sources, SourcesFree
<1>7. BuildingInv'
  BY <1>1, <1>4, <1>6, BegunInvNext DEF Begun
<1>. QED
  BY <1>4, <1>7 DEF JournalInv

\* A replay of a state to continue from.
LEMMA CrashInv ==
  ASSUME Restricted, JournalInv, NEW all \in BOOLEAN, CrashAndReplay(all) PROVE JournalInv'
<1>. USE DEF JournalInv
<1>. DEFINE st == IF all THEN replayed ELSE committed
<1>1. /\ task # "recover" /\ rejournals < MaxRejournals
      /\ overlay' = st.overlay /\ alias' = st.alias
      /\ dirty' = st.dirty /\ pages' = st.pages
      /\ index' = [n \in Names |-> Nothing]
      /\ dir' = IF all THEN [n \in Names |-> Replayed!Read(n)] ELSE saved
      /\ saved' = dir'
      /\ replayed' = st /\ committed' = st
      /\ task' = "recover" /\ rejournals' = rejournals + 1
      /\ building' = RejournalStart' /\ todo' = Aliases'
      /\ archive' = archive /\ last' = last
  BY DEF CrashAndReplay
<1>2. /\ StateInv(st) /\ \A n \in Names : Shows(st, n) = dir'[n]
      /\ dir' \in [Names -> Nat]
  <2>1. CASE all
    <3>1. StateInv(replayed)
      BY FollowState
    <3>2. \A n \in Names : Replayed!Read(n) = Shows(replayed, n)
      BY <3>1, ReplayedShows
    <3>3. \A n \in Names : Shows(replayed, n) \in Nat
      BY <3>1 DEF EntryInv, TypeOK, StateInv, States, Overlays, Shows, InArchive,
                  Nothing, Empty
    <3>. QED
      BY <1>1, <2>1, <3>1, <3>2, <3>3
  <2>2. CASE ~all
    BY <1>1, <2>2 DEF CommittedInv, JournalTypeOK
  <2>. QED
    BY <2>1, <2>2
<1>. HIDE DEF st
<1>3. /\ st.overlay \in [Names -> Overlays] /\ st.alias \in [Names -> Names]
      /\ st.dirty \subseteq Names /\ st.pages \in [Names -> Nat] /\ st \in States
  BY <1>2 DEF StateInv, States
<1>4. EntryInv'
  <2>1. TypeOK'
    BY <1>1, <1>2, <1>3 DEF EntryInv, TypeOK, Nothing
  <2>2. AliasInv'
    BY <1>1, <1>2 DEF StateInv, AliasInv, InArchive
  <2>3. StoresInv'
    BY <1>1, <1>2, <1>3 DEF StateInv, StoresInv, InArchive, Exists, Kind
  <2>4. DirectoryShown'
    <3>. SUFFICES ASSUME NEW n \in Names PROVE Read(n)' = dir'[n]
      BY DEF DirectoryShown
    <3>1. /\ Shows(st, n) = dir'[n] /\ st.overlay[n] \in Overlays
          /\ n \notin st.dirty => st.pages[n] = Nothing
      BY <1>2, <1>3 DEF StateInv
    <3>2. CASE st.overlay[n] \in {"tombstone", "none"}
      BY <1>1, <3>1, <3>2
         DEF Shows, Read, ReadDirty, Exists, Kind, Base, Source, InArchive
    <3>3. CASE st.overlay[n] \in {"created", "aliased"}
      BY <1>1, <3>1, <3>3
         DEF Shows, Read, ReadDirty, Exists, Kind, Base, Source, InArchive
    <3>. QED
      BY <3>1, <3>2, <3>3 DEF Overlays
  <2>. QED
    BY <2>1, <2>2, <2>3, <2>4 DEF EntryInv
<1>5. JournalTypeOK'
  <2>1. rejournals' \in 0..MaxRejournals
    BY <1>1, JournalAssumption DEF JournalTypeOK
  <2>2. (EntryInv => RejournalStart \in States)'
    BY RejournalStartInv, PTL
  <2>. QED
    BY <1>1, <1>2, <1>3, <1>4, <2>1, <2>2
       DEF JournalTypeOK, EntryInv, Aliases
<1>7. FollowInv'
  BY <1>1, <1>2 DEF StateInv, FollowInv
<1>8. CommittedInv'
  BY <1>1, <1>2 DEF CommittedInv, StateInv, Shows, InArchive
<1>9. SourcesFree'
  BY JournalAssumption DEF Restricted, CrashAndReplay, JournalTypeOK
<1>10. BuildingInv'
  BY <1>1, <1>4, <1>9, BegunInvNext DEF Begun
<1>. QED
  BY <1>4, <1>5, <1>7, <1>8, <1>10

LEMMA RejournalRenameInv ==
  ASSUME JournalInv, NEW n \in Names, RejournalRename(n) PROVE JournalInv'
<1>. USE DEF JournalInv
<1>1. /\ n \in todo /\ building' = ReplayRename(building, alias[n], n)
      /\ todo' = todo \ {n}
      /\ UNCHANGED <<archive, overlay, alias, dirty, pages, index, last, dir>>
      /\ UNCHANGED <<replayed, committed, saved, task, rejournals>>
  BY DEF RejournalRename, vars, table, diff, journal
<1>2. task # "none"
  BY <1>1 DEF JournalTypeOK
<1>3. /\ building \in States /\ overlay \in [Names -> Overlays]
      /\ alias \in [Names -> Names]
  BY DEF JournalTypeOK, TypeOK
<1>4. EntryInv'
  BY ZenonT(40), <1>1 DEF EntryInv, TypeOK, AliasInv, StoresInv, DirectoryShown, Read,
              ReadDirty, Exists, Kind, Base, Source, InArchive
<1>5. JournalTypeOK'
  BY <1>1, <1>2, <1>3, <1>4, ReplayTypes DEF JournalTypeOK, EntryInv
<1>6. FollowInv'
  BY <1>1 DEF FollowInv
<1>7. CommittedInv'
  BY <1>1, CommittedKept
<1>8. BuildingInv'
  <2>. DEFINE src == alias[n]
  <2>1. /\ SourcesFree /\ saved = dir /\ todo \subseteq Aliases
        /\ \A m \in Names : building.overlay[m] =
             IF m \in todo \/ \E k \in todo : alias[k] = m THEN "none"
                                                           ELSE overlay[m]
        /\ \A m \in Aliases \ todo : building.alias[m] = alias[m]
        /\ building.dirty = Created /\ building.pages = [m \in Names |-> Nothing]
    BY <1>2 DEF BuildingInv
  <2>2. \A m \in todo : m \in Names /\ overlay[m] = "aliased"
    BY <2>1 DEF Aliases
  <2>3. /\ src \in Names /\ InArchive(src) /\ overlay[src] = "tombstone"
        /\ src # n /\ \A m \in todo : alias[m] = src => m = n
    BY <1>1, <1>3, <2>1, <2>2 DEF EntryInv, AliasInv, SourcesFree
  <2>4. building.overlay[src] = "none" /\ src \notin Created
    BY <1>1, <2>1, <2>3 DEF Created
  <2>5. /\ building'.overlay = [building.overlay EXCEPT ![n] = "aliased",
                                                        ![src] = "tombstone"]
        /\ building'.alias = [building.alias EXCEPT ![n] = src]
        /\ building'.dirty = Created
        /\ building'.pages = [m \in Names |-> Nothing]
    BY <1>1, <2>1, <2>3, <2>4 DEF ReplayRename
  <2>6. ASSUME NEW m \in Names
        PROVE  building'.overlay[m] =
                 IF m \in todo' \/ \E k \in todo' : alias[k] = m THEN "none"
                                                                 ELSE overlay[m]
    <3>. building.overlay \in [Names -> Overlays]
      BY <1>3 DEF States
    <3>1. CASE m = n
      <4>1. \A k \in todo : alias[k] # n
        BY <1>1, <2>2, <2>1 DEF SourcesFree
      <4>. QED
        BY <1>1, <2>2, <2>3, <2>5, <3>1, <4>1
    <3>2. CASE m = src
      BY <1>1, <2>2, <2>3, <2>5, <3>2
    <3>3. CASE m # n /\ m # src
      <4>1. (\E k \in todo' : alias[k] = m) <=> \E k \in todo : alias[k] = m
        BY <1>1, <3>3
      <4>. QED
        BY <1>1, <2>1, <2>5, <3>3, <4>1
    <3>. QED
      BY <3>1, <3>2, <3>3
  <2>7. \A m \in Aliases \ todo' : building'.alias[m] = alias[m]
    BY <1>1, <1>3, <2>1, <2>5 DEF States, Aliases
  <2>. QED
    BY <1>1, <2>1, <2>5, <2>6, <2>7 DEF BuildingInv, Aliases, Created, SourcesFree
<1>. QED
  BY <1>4, <1>5, <1>6, <1>7, <1>8

LEMMA RejournalEndInv == ASSUME JournalInv, RejournalEnd PROVE JournalInv'
<1>. USE DEF JournalInv
<1>. DEFINE z == ReplayResize(building, dirty)
            st == ReplayPages(z, FlushedIndex)
<1>1. /\ task # "none" /\ todo = {} /\ index' = FlushedIndex
      /\ replayed' = st /\ committed' = st
      /\ task' = "none" /\ building' = NewState
      /\ UNCHANGED <<archive, overlay, alias, dirty, pages, last, dir>>
      /\ UNCHANGED <<saved, todo, rejournals>>
  BY DEF RejournalEnd, table, diff
<1>2. Flush
  BY <1>1 DEF Flush, table, diff
<1>3. EntryInv'
  BY <1>2, FlushInv
<1>4. /\ building \in States /\ dirty \subseteq Names
      /\ FlushedIndex \in [Names -> Nat] /\ overlay \in [Names -> Overlays]
  BY DEF JournalTypeOK, TypeOK, FlushedIndex
<1>5. z \in States /\ st \in States
  BY <1>4, ReplayTypes
<1>6. /\ z.overlay = building.overlay /\ z.alias = building.alias
      /\ z.dirty = building.dirty \cup dirty /\ z.pages = building.pages
  BY <1>4, ReplayFields
<1>7. /\ st.overlay = z.overlay /\ st.alias = z.alias
      /\ st.dirty = z.dirty \cup {m \in Names : FlushedIndex[m] # Nothing}
      /\ st.pages = [m \in Names |-> IF FlushedIndex[m] # Nothing
                                     THEN FlushedIndex[m] ELSE z.pages[m]]
  BY <1>5, ReplayFields
<1>8. /\ \A m \in Names : building.overlay[m] = overlay[m]
      /\ \A m \in Aliases : building.alias[m] = alias[m]
      /\ building.dirty = Created /\ building.pages = [m \in Names |-> Nothing]
      /\ saved = dir
  BY <1>1 DEF BuildingInv
<1>. HIDE DEF z, st
<1>9. JournalTypeOK'
  <2>1. NewState \in States
    BY NewStateInv DEF StateInv
  <2>. QED
    BY <1>1, <1>3, <1>5, <2>1 DEF JournalTypeOK, EntryInv
<1>11. /\ st.overlay = overlay /\ st.pages = FlushedIndex /\ st.dirty = dirty
       /\ \A m \in Names : overlay[m] = "aliased" => st.alias[m] = alias[m]
  <2>1. st.overlay = overlay
    BY <1>4, <1>6, <1>7, <1>8 DEF States
  <2>2. st.pages = FlushedIndex
    BY <1>4, <1>6, <1>7, <1>8
  <2>3. \A m \in Names : FlushedIndex[m] # Nothing \/ m \in Created => m \in dirty
    BY DEF EntryInv, StoresInv, FlushedIndex, Created
  <2>4. st.dirty = dirty
    BY <1>4, <1>6, <1>7, <1>8, <2>3 DEF Created
  <2>. QED
    BY <1>6, <1>7, <1>8, <2>1, <2>2, <2>4 DEF Aliases
<1>12. FollowInv'
  <2>1. \A m \in Names : FlushedIndex[m] # Nothing \/ overlay[m] = "created"
                           => m \in dirty
    BY DEF EntryInv, StoresInv, FlushedIndex
  <2>. QED
    BY <1>1, <1>11, <2>1 DEF FollowInv
<1>13. CommittedInv'
  <2>1. FlushedIndex' = FlushedIndex
    BY <1>1 DEF FlushedIndex
  <2>. QED
    BY <1>1, <1>3, <1>8, <1>9, <1>11, <1>12, <2>1, MarkerCommitsNext
       DEF Marked
<1>14. BuildingInv'
  BY <1>1 DEF BuildingInv
<1>. QED
  BY <1>3, <1>9, <1>12, <1>13, <1>14

-----------------------------------------------------------------------------
(* The theorems. *)

LEMMA JournalInitInv == JournalInit => JournalInv
<1>. SUFFICES ASSUME JournalInit PROVE JournalInv
  OBVIOUS
<1>1. EntryInv
  BY InitInv DEF JournalInit
<1>2. /\ replayed = NewState /\ committed = NewState /\ saved = archive
      /\ task = "none" /\ building = NewState /\ todo = {} /\ rejournals = 0
      /\ overlay = [n \in Names |-> "none"] /\ alias = [n \in Names |-> n]
      /\ dirty = {} /\ index = [n \in Names |-> Nothing]
  BY DEF JournalInit, Init
<1>3. StateInv(NewState) /\ archive \in [Names -> Nat]
  BY <1>1, NewStateInv DEF EntryInv, TypeOK
<1>4. JournalTypeOK
  BY <1>1, <1>2, <1>3, JournalAssumption DEF JournalTypeOK, EntryInv, StateInv
<1>5. FollowInv /\ BuildingInv
  BY <1>2 DEF FollowInv, BuildingInv, NewState
<1>6. CommittedInv
  BY <1>2, <1>3, NewStateInv DEF CommittedInv
<1>. QED
  BY <1>1, <1>4, <1>5, <1>6 DEF JournalInv

LEMMA JournalStutter ==
  ASSUME JournalInv, UNCHANGED allVars PROVE JournalInv'
<1>. USE DEF JournalInv
<1>1. /\ UNCHANGED <<archive, overlay, alias, dirty, pages, index, last, dir>>
      /\ UNCHANGED <<replayed, committed, saved>>
      /\ UNCHANGED <<task, building, todo, rejournals>>
  BY DEF allVars, vars, table, diff, journal, rejournal
<1>2. EntryInv'
  BY ZenonT(40), <1>1 DEF EntryInv, TypeOK, AliasInv, StoresInv, DirectoryShown, Read,
              ReadDirty, Exists, Kind, Base, Source, InArchive
<1>3. JournalTypeOK'
  BY <1>1, <1>2 DEF JournalTypeOK, EntryInv
<1>4. FollowInv'
  BY <1>1 DEF FollowInv
<1>5. CommittedInv'
  BY <1>1, CommittedKept
<1>6. BuildingInv'
  BY <1>1 DEF BuildingInv, Created, Aliases, SourcesFree
<1>. QED
  BY <1>2, <1>3, <1>4, <1>5, <1>6

\* The inductive invariant: the journal follows the entry table and Tier 2 record
\* by record, and a new journal has at every moment the aliases already renamed.
THEOREM JournalInvariant ==
  ASSUME Restricted PROVE JournalSpec => []JournalInv
<1>1. JournalInv /\ [JournalNext]_allVars => JournalInv'
  <2>. SUFFICES ASSUME JournalInv, [JournalNext]_allVars PROVE JournalInv'
    OBVIOUS
  <2>1. ASSUME NEW n \in Names, JCreate(n) PROVE JournalInv'
    BY <2>1, JCreateInv
  <2>2. ASSUME NEW n \in Names, JRemove(n) PROVE JournalInv'
    BY <2>2, JRemoveInv
  <2>3. ASSUME NEW n \in Names, JWrite(n) PROVE JournalInv'
    BY <2>3, JWriteInv
  <2>4. ASSUME NEW n \in Names, RejournalRename(n) PROVE JournalInv'
    BY <2>4, RejournalRenameInv
  <2>5. ASSUME NEW old \in Names, NEW new \in Names, JRename(old, new)
        PROVE  JournalInv'
    BY <2>5, JRenameInv
  <2>6. CASE JFlush
    BY <2>6, JFlushInv
  <2>7. CASE JCommit
    BY <2>7, JCommitInv
  <2>8. CASE CompactStart
    BY <2>8, CompactStartInv
  <2>9. CASE RejournalEnd
    BY <2>9, RejournalEndInv
  <2>10. ASSUME NEW all \in BOOLEAN, CrashAndReplay(all) PROVE JournalInv'
    BY <2>10, CrashInv
  <2>11. CASE UNCHANGED allVars
    BY <2>11, JournalStutter
  <2>. QED
    BY <2>1, <2>2, <2>3, <2>4, <2>5, <2>6, <2>7, <2>8, <2>9, <2>10, <2>11
       DEF JournalNext
<1>. QED
  BY <1>1, JournalInitInv, PTL DEF JournalSpec

\* JournalTypeOK: the variables of the journal keep their types.
THEOREM JournalTypeCorrect ==
  ASSUME Restricted PROVE JournalSpec => []JournalTypeOK
BY JournalInvariant, PTL DEF JournalInv

\* JournalRestores: a crash at any moment, and the replay up to the last marker,
\* give the directory of that marker back.
THEOREM JournalCorrect ==
  ASSUME Restricted PROVE JournalSpec => []JournalRestores
<1>1. JournalInv => JournalRestores
  BY RecoveredShows DEF JournalInv, CommittedInv, JournalRestores
<1>. QED
  BY <1>1, JournalInvariant, PTL

\* OnlyTierOneAtRisk: a replay of the whole journal gives every name back but
\* those with a page in Tier 1.
THEOREM JournalComplete ==
  ASSUME Restricted PROVE JournalSpec => []OnlyTierOneAtRisk
<1>1. JournalInv => OnlyTierOneAtRisk
  <2>. SUFFICES ASSUME JournalInv, NEW n \in Names, pages[n] = Nothing
                PROVE  Replayed!Read(n) = Read(n)
    BY DEF OnlyTierOneAtRisk
  <2>. USE DEF JournalInv
  <2>1. Replayed!Read(n) = Shows(replayed, n)
    BY FollowState, ReplayedShows
  <2>2. /\ replayed.overlay = overlay /\ overlay[n] \in Overlays
        /\ overlay[n] = "aliased" => replayed.alias[n] = alias[n]
        /\ replayed.pages[n] = index[n]
        /\ n \notin dirty => index[n] = Nothing
    BY DEF FollowInv, EntryInv, TypeOK, StoresInv
  <2>3. CASE overlay[n] \in {"tombstone", "none"}
    BY <2>1, <2>2, <2>3
       DEF Shows, Read, ReadDirty, Exists, Kind, Base, Source, InArchive
  <2>4. CASE overlay[n] \in {"created", "aliased"}
    BY <2>1, <2>2, <2>4
       DEF Shows, Read, ReadDirty, Exists, Kind, Base, Source, InArchive
  <2>. QED
    BY <2>2, <2>3, <2>4 DEF Overlays
<1>. QED
  BY <1>1, JournalInvariant, PTL

===============================================================================

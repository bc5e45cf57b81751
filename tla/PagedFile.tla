------------------------------ MODULE PagedFile ------------------------------
(***************************************************************************)
(* One entry of a mount, byte by byte: its pages in Tier 1, Tier 2 and the *)
(* archive, its logical size and the high-water mark of its source, under  *)
(* writes, truncates, spills, flushes, crashes, compactions and commits.   *)
(*                                                                         *)
(* As in EntryJournal, a journal is represented by the state that its      *)
(* replay gives: replayed for all of it, committed up to the last marker.  *)
(***************************************************************************)
EXTENDS Naturals, FiniteSets

CONSTANTS
  PageSize,       \* bytes of a page
  MaxSize,        \* bound on the size of the file
  Values,         \* the bytes that are written
  DirtyLimit,     \* pages that Tier 1 may hold
  CutSpilled      \* may a truncate cut a page that only Tier 2 has?

ASSUME PagedAssumption ==
  /\ PageSize \in Nat \ {0} /\ MaxSize \in Nat \ {0} /\ DirtyLimit \in Nat
  /\ Values \subseteq Nat /\ CutSpilled \in BOOLEAN

Offsets == 0..(MaxSize - 1)
PageOf(i) == i \div PageSize
PageIds == {PageOf(i) : i \in Offsets}
Start(p) == p * PageSize
Bytes == {0} \cup Values

\* A page is a function from the offsets in it; NoPage is that of no page.
Contents == [0..(PageSize - 1) -> Bytes]
NoPage == <<>>
PageMaps == [PageIds -> Contents \cup {NoPage}]

VARIABLES
  source,     \* the entry in the archive: its size and bytes
  entry,      \* DirtyEntry: dirty, size, high, and the pages of Tier 1
  index,      \* Tier 2: the pages it has, padded with zeros
  replayed,   \* what a replay of the whole journal gives
  committed   \* what a replay up to the last marker gives

vars == <<source, entry, index, replayed, committed>>

Files   == [size : 0..MaxSize, bytes : [Offsets -> Bytes]]
Entries == [dirty : BOOLEAN, size : 0..MaxSize, high : 0..MaxSize,
            pages : PageMaps]

TypeOK ==
  /\ source \in Files /\ index \in PageMaps
  /\ entry \in Entries /\ replayed \in Entries /\ committed \in Entries

-----------------------------------------------------------------------------
(* DiffLayer. *)

Lesser(a, b)  == IF a < b THEN a ELSE b
Greater(a, b) == IF a > b THEN a ELSE b

NoPages == [p \in PageIds |-> NoPage]
Clean   == [dirty |-> FALSE, size |-> 0, high |-> 0, pages |-> NoPages]

\* ensure_entry.
Ensured(e) ==
  IF e.dirty THEN e
  ELSE [dirty |-> TRUE, size |-> source.size, high |-> source.size,
        pages |-> NoPages]

\* Mutant: a short page is not padded.
Cut_NoPadding(page, p, size) ==
  [o \in {x \in 0..(PageSize - 1) : Start(p) + x < size} |-> page[o]]

\* clamp_tail and read_page: the bytes of page p below size, and zeros.
Cut(page, p, size) ==
  [o \in 0..(PageSize - 1) |-> IF Start(p) + o < size THEN page[o] ELSE 0]

\* Mutant: the high-water mark stays where it was.
Shrunk_KeepHigh(e, size) ==
  [e EXCEPT !.pages = [p \in PageIds |->
     IF Start(p) >= size \/ @[p] = NoPage THEN NoPage ELSE Cut(@[p], p, size)]]

\* truncate_pages: what is cut off is neither in Tier 1 nor read from the source.
Shrunk(e, size) ==
  [e EXCEPT
     !.high  = Lesser(@, size),
     !.pages = [p \in PageIds |->
       IF Start(p) >= size \/ @[p] = NoPage THEN NoPage ELSE Cut(@[p], p, size)]]

Resized(e, size) ==
  [(IF size < e.size THEN Shrunk(e, size) ELSE e) EXCEPT !.size = size]

-----------------------------------------------------------------------------
(* The read path. *)

\* read_dirty: byte i of the entry over Tier 1, Tier 2 and the source.
ByteAt(e, tier2, i) ==
  LET p == PageOf(i)
      o == i % PageSize IN
  CASE e.pages[p] # NoPage                      -> e.pages[p][o]
    [] e.pages[p] = NoPage /\ tier2[p] # NoPage -> tier2[p][o]
    [] OTHER -> IF i < e.high THEN source.bytes[i] ELSE 0

\* FileMount::read of the whole entry, with zeros behind its end.
Read(e, tier2) ==
  IF ~e.dirty THEN source
  ELSE [size  |-> e.size,
        bytes |-> [i \in Offsets |-> IF i < e.size THEN ByteAt(e, tier2, i) ELSE 0]]

-----------------------------------------------------------------------------
(* Records and their replay. *)

\* Mutant: a RESIZE record sets the size and cuts nothing.
ReplayResize_SizeOnly(e, size) == [Ensured(e) EXCEPT !.size = size]

\* A RESIZE record.
ReplayResize(e, size) == Resized(Ensured(e), size)

\* A DATA record for each page that map has, clamped to the logical size by
\* clamp_tail: the size grows to the end of the data, and the page is padded.
ReplayPages(e, map, size) ==
  LET f      == Ensured(e)
      has    == {p \in PageIds : map[p] # NoPage}
      end(p) == Lesser(size, Start(p) + PageSize)
      ends   == {end(p) : p \in has} IN
  IF has = {} THEN e
  ELSE [f EXCEPT
     !.size  = CHOOSE s \in ends \cup {@} : \A t \in ends \cup {@} : s >= t,
     !.pages = [p \in PageIds |->
       IF p \in has THEN Cut(map[p], p, end(p)) ELSE @[p]]]

\* rejournal_recovered and the pages of map: a new journal of entry e.
Rejournaled(e, map) ==
  IF ~e.dirty THEN Clean
  ELSE LET sized == ReplayResize(IF e.high < e.size
                                 THEN ReplayResize(Clean, e.high) ELSE Clean,
                                 e.size)
       IN ReplayPages(sized, map, e.size)

-----------------------------------------------------------------------------
(* The pages of the two tiers. *)

Resident(e) == {p \in PageIds : e.pages[p] # NoPage}

Over(map, under) ==
  [p \in PageIds |-> IF map[p] # NoPage THEN map[p] ELSE under[p]]

\* The pages of a map as they are appended to a journal.
Clamped(map, size) ==
  [p \in PageIds |-> IF map[p] = NoPage THEN NoPage ELSE Cut(map[p], p, size)]

Only(map, set) == [p \in PageIds |-> IF p \in set THEN map[p] ELSE NoPage]

-----------------------------------------------------------------------------
(* The operations. *)

Init ==
  /\ source \in {f \in Files : \A i \in Offsets : i >= f.size => f.bytes[i] = 0}
  /\ entry = Clean /\ index = NoPages
  /\ replayed = Clean /\ committed = Clean

\* write_into: page by page in Tier 1, in Tier 2 with a new record, or from the
\* source into Tier 1; then Tier 1 spills what it has over its limit.
Write(from, to, v) ==
  LET e       == Ensured(entry)
      size    == Greater(e.size, to)
      touched == {PageOf(i) : i \in from..(to - 1)}
      hits    == {p \in touched : e.pages[p] = NoPage /\ index[p] # NoPage}
      applied == [p \in PageIds |-> [o \in 0..(PageSize - 1) |->
                   IF Start(p) + o \in from..(to - 1) THEN v
                   ELSE ByteAt(e, index, Start(p) + o)]]
      tier1   == Over(Only(applied, touched \ hits), e.pages)
      written == [e EXCEPT !.size = size, !.pages = tier1]
  IN \E victims \in SUBSET Resident(written) :
       LET kept    == Resident(written) \ victims
           records == Clamped(Over(Only(applied, hits), Only(tier1, victims)), size)
       IN /\ victims # {} => Cardinality(kept) = DirtyLimit
          /\ Cardinality(kept) <= DirtyLimit
          /\ entry' = [written EXCEPT !.pages = Only(@, kept)]
          /\ index' = Over(records, index)
          /\ replayed' = ReplayPages(replayed, records, size)
          /\ UNCHANGED <<source, committed>>

\* Does a truncate to size cut a page that only Tier 2 has?
CutsSpilled(size) ==
  /\ size < Ensured(entry).size /\ size % PageSize # 0
  /\ entry.pages[PageOf(size)] = NoPage /\ index[PageOf(size)] # NoPage

\* entry_truncate.  purge_pages_beyond drops whole pages of Tier 2 only.
Truncate(size) ==
  /\ CutSpilled \/ ~CutsSpilled(size)
  /\ entry' = Resized(Ensured(entry), size)
  /\ index' = IF size < Ensured(entry).size
              THEN Only(index, {p \in PageIds : Start(p) < size}) ELSE index
  /\ replayed' = ReplayResize(replayed, size)
  /\ UNCHANGED <<source, committed>>

\* Tier2::flush: a copy of each resident page, and a marker.
Flush ==
  LET records == Clamped(entry.pages, entry.size) IN
  /\ index' = Over(records, index)
  /\ replayed' = ReplayPages(replayed, records, entry.size)
  /\ committed' = replayed'
  /\ UNCHANGED <<source, entry>>

\* A crash; the next mount replays the journal up to the last marker into
\* Tier 1, and writes a new journal of what it found.
CrashAndRecover ==
  LET records == Clamped(committed.pages, committed.size) IN
  /\ entry' = committed
  /\ index' = records
  /\ replayed' = Rejournaled(committed, records)
  /\ committed' = replayed'
  /\ UNCHANGED source

\* compact_journal: a flush, and a new journal of the pages of both tiers.
CompactJournal ==
  LET flushed == Over(Clamped(entry.pages, entry.size), index)
      records == Clamped(flushed, entry.size) IN
  /\ index' = records
  /\ replayed' = Rejournaled(entry, records)
  /\ committed' = replayed'
  /\ UNCHANGED <<source, entry>>

\* A commit: rehydrate_into brings the pages of Tier 2 to Tier 1,
\* assemble_content reads Tier 1 and the source; then all is clean.
Commit ==
  LET rehydrated == [entry EXCEPT !.pages = Over(@, index)] IN
  /\ entry.dirty
  /\ source' = Read(rehydrated, NoPages)
  /\ entry' = Clean /\ index' = NoPages
  /\ replayed' = Clean /\ committed' = Clean

Next ==
  \/ \E from \in Offsets : \E to \in (from + 1)..MaxSize : \E v \in Values :
       Write(from, to, v)
  \/ \E size \in 0..MaxSize : Truncate(size)
  \/ Flush \/ CrashAndRecover \/ CompactJournal \/ Commit

Spec == Init /\ [][Next]_vars

-----------------------------------------------------------------------------
(* Properties. *)

\* The entry reads as an array of bytes with a size, whatever is spilled or
\* compacted, and a crash gives the last flush back (read_dirty, write_into,
\* entry_truncate, replay_recovered, rejournal_recovered, assemble_content).
Flat == INSTANCE FlatFile WITH
  file <- Read(entry, index), kept <- Read(committed, NoPages)

ImplementsFlatFile == Flat!Spec

\* A recovery of the whole journal loses only what Tier 1 alone had: any byte
\* outside the resident pages reads the same live and replayed (Tier2::flush,
\* write_hit, spill_over_limit and replay_recovered).
SpilledRestored ==
  LET live == Read(entry, index)
      lost == Read(replayed, NoPages)
  IN \A i \in Offsets : PageOf(i) \notin Resident(entry) =>
       live.bytes[i] = lost.bytes[i]

\* The bytes that an extending truncate would add read as zeros: what a shrink
\* cut off does not come back (DirtyEntry.source_size, truncate_pages,
\* purge_pages_beyond).
ExtensionReadsZero ==
  entry.dirty => \A i \in entry.size..(MaxSize - 1) :
    Read(Resized(entry, MaxSize), index).bytes[i] = 0
=============================================================================

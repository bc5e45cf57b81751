----------------------------- MODULE ArchiveMount -----------------------------
(***************************************************************************)
(* A mount of an archive, from the file to the bytes a read returns and    *)
(* back: open over whatever index the sidecar has, reads through the page  *)
(* cache, reads and writes through the diff layer, and commits that lay    *)
(* out a new archive, while another process may replace the file or write  *)
(* into it.                                                                *)
(*                                                                         *)
(* A read through the cache takes a step for each page and two for one that *)
(* is missing, between which the file may change; everything else is one    *)
(* step.  The diff layer is Tier 1 alone, and its contents end with the     *)
(* mount: spills and truncates are SpillStore and PagedFile, the journal,   *)
(* its recovery and the crashes of a commit EntryJournal and MountLifecycle. *)
(***************************************************************************)
EXTENDS SeekIndex, PageCache

CONSTANTS
  Starts,         \* the archive and sidecar at the start, and the changes from there
  Others,         \* archives that another process may put in place
  ReadAhead,      \* read_ahead_pages
  EstaleInterval, \* estale_interval
  Ranges,         \* the offset and length of reads
  Writes,         \* the offsets of writes
  Mark,           \* the byte that is written
  GcThreshold,    \* gc_threshold, a whole number
  GcMaxBloat,     \* gc_max_bloat_bytes
  MaxChanges      \* bound on the entry operations, commits and changes of the file
                  \* by another process, together

ASSUME MountAssumption ==
  /\ {ReadAhead, EstaleInterval, MaxChanges} \subseteq Nat
  /\ Ranges \subseteq Nat \X Nat /\ Writes \subseteq Nat /\ Mark \in Nat
  /\ {GcThreshold, GcMaxBloat} \subseteq Nat
ASSUME FilesAssumption ==
  /\ \A s \in Starts : CellsOk(s.zip) /\ ImageOk(s.sidecar) /\ s.changes \in 0..MaxChanges
  /\ \A z \in Others : CellsOk(z)

VARIABLES
  disk,      \* archive.zip: its inode, mtime and cells
  sidecar,   \* the vmidx file
  mount,     \* FileMount but for what follows, and history: the snapshot that was
             \* opened, and whether the file changed between a check and its use
  cache,     \* PageCache
  overlay,   \* EntryTable
  diff,      \* DiffLayer
  call,      \* the read that goes on, or the last one with its result
  files,     \* history: the files as the mount shows them to its user
  lru,       \* history: the cache that the reference makes of the same calls
  changes    \* operations on entries, commits and changes of the file so far

store == <<disk, sidecar>>
vars  == <<store, mount, cache, overlay, diff, call, files, lru, changes>>

Clean     == [kind |-> "none", source |-> 0]
NoDiff    == [dirty |-> FALSE, size |-> 0, pages |-> <<>>]
NoFile    == [there |-> FALSE, bytes |-> <<>>]
File(b)   == [there |-> TRUE, bytes |-> b]
Idle      == [step |-> "idle"]
Closed    == [phase |-> "closed"]

Mounted == mount.phase = "open"
Stat(d) == [ino |-> d.ino, mtime |-> d.mtime, size |-> Len(d.zip)]

-----------------------------------------------------------------------------
(* What an archive contains, read from its start to its end. *)

Lesser(a, b)  == IF a < b THEN a ELSE b
Greater(a, b) == IF a > b THEN a ELSE b

DecodedData(provider, data) ==
  CASE provider = "Store"   -> [i \in 1..Len(data) |-> ByteOf(data[i])]
    [] provider = "Deflate" -> Inflate(<<>>, SymbolsAfter(data, 0)).out
    [] OTHER -> IF data = <<>> THEN <<>>
                ELSE IF data[1].cell = "opaque" THEN data[1].bytes ELSE <<>>
Decoded(zip, e) ==
  IF DataOffset(zip, e) = NoData THEN <<>>
  ELSE DecodedData(ProviderOf(e.method), EntryData(zip, e))

EntriesOf(zip) == ToSet(Parse(zip).entries)
Shown(zip) ==
  LET FileOf(es) == IF es = {} THEN NoFile ELSE File(Decoded(zip, CHOOSE e \in es : TRUE))
      Tree(ar) == [n \in Names |->
                     IF ~ar.ok THEN NoFile ELSE FileOf({e \in ToSet(ar.entries) : e.name = n})]
  IN Tree(Parse(zip))

Slice(b, off, len) == SubSeq(b, off + 1, Lesser(off + len, Len(b)))

-----------------------------------------------------------------------------
(* Names. *)

Resolved(err, source, size) == [err |-> err, source |-> source, size |-> size]
NoSource == 0
Failed(err) == Resolved(err, NoSource, 0)

\* EntryTable::kind of a name that the index has at the place found.
Kind(n, found) ==
  CASE overlay[n].kind = "tombstone" -> "absent"
    [] overlay[n].kind = "created"   -> "created"
    [] overlay[n].kind = "aliased"   -> "source"
    [] OTHER -> IF found # NotThere THEN "source" ELSE "absent"

\* resolve_entry: an alias is looked up under the name of its source.
SourceOf(n) == IF overlay[n].kind = "aliased" THEN overlay[n].source ELSE n
ResolvedRecord(source, rec) ==
  IF ProviderOf(rec.method) \notin Builtin THEN Failed("unsupported")
  ELSE Resolved("none", source, rec.uncomp)
ResolvedAt(n, source, found) ==
  IF found.err # "none" THEN Failed(found.err)
  ELSE IF Kind(n, found) = "created" THEN Resolved("none", NoSource, 0)
  ELSE IF Kind(n, found) = "absent" \/ found = NotThere THEN Failed("notfound")
  ELSE ResolvedRecord(source, mount.image.recs[found.at])
Resolve(n) == ResolvedAt(n, SourceOf(n), Lookup(mount.image, SourceOf(n)))

\* entry_in_vmidx and kind, for the operations on entries: can the index tell,
\* and is the name in use?
Tells(n)  == Lookup(mount.image, n).err = "none"
Exists(n) == Kind(n, Lookup(mount.image, n)) # "absent"

-----------------------------------------------------------------------------
(* The bytes of an overlaid entry. *)

\* The bytes from .. to - 1 of a source as far as it reaches, in one page.
SourceEnd(size, from, to) == IF from >= size THEN from ELSE Lesser(to, size)
SourcePart(source, from, end) ==
  IF end = from THEN Ok(<<>>)
  ELSE ReadEntry(mount.archive, mount.image, source, from, end - from)
ZeroPadded(read, len) ==
  IF read.err # "none" THEN read
  ELSE Ok(read.bytes \o [i \in 1..(len - Len(read.bytes)) |-> 0])

\* The same bytes of a page of Tier 1.
DirtyPart(page, from, to) ==
  Ok(SubSeq(page, (from % PageSize) + 1, (from % PageSize) + (to - from)))

\* Mutant: a page that the source ends in is left as short as the source.
PagePart_Unpadded(n, source, size, from, to) ==
  IF from \div PageSize \in DOMAIN diff[n].pages
  THEN DirtyPart(diff[n].pages[from \div PageSize], from, to)
  ELSE SourcePart(source, from, SourceEnd(size, from, to))

\* Bytes from .. to - 1, all in one page: of the page in Tier 1, or of the source
\* and zeros behind its end.
PagePart(n, source, size, from, to) ==
  IF from \div PageSize \in DOMAIN diff[n].pages
  THEN DirtyPart(diff[n].pages[from \div PageSize], from, to)
  ELSE ZeroPadded(SourcePart(source, from, SourceEnd(size, from, to)), to - from)

\* Bytes from .. to - 1 of the entry page by page; the first error ends it.
Joined(parts) ==
  LET failed == {k \in 1..Len(parts) : parts[k].err # "none"} IN
  IF failed # {} THEN Err(parts[Min(failed)].err)
  ELSE Ok(FlattenSeq([k \in 1..Len(parts) |-> parts[k].bytes]))
Pages(n, source, size, from, to) ==
  LET Whole(p) == PagePart(n, source, size, Greater(from, PageStart(p)),
                           Lesser(to, PageStart(p + 1)))
      first == from \div PageSize
  IN IF from >= to THEN Ok(<<>>)
     ELSE Joined([k \in 1..(PageCount(to) - first) |-> Whole(first + k - 1)])

LogicalSize(n, r) == IF diff[n].dirty THEN diff[n].size ELSE r.size

\* read_dirty: short at the end of the entry.
ReadDirty(n, r, off, len) ==
  Pages(n, r.source, r.size, off, Lesser(off + len, LogicalSize(n, r)))

-----------------------------------------------------------------------------
(* Opening and closing. *)

\* The size of the record that is read is a number.
RecordSized ==
  call.step \in {"look", "fill"} => mount.image.recs[call.at].uncomp \in Nat

TypeOK ==
  /\ disk.ino \in Nat /\ disk.mtime \in Nat
  /\ mount.phase \in {"closed", "open", "committed"}
  /\ call.step \in {"idle", "look", "fill", "done"}
  /\ \A n \in Names :
       /\ overlay[n].kind \in {"none", "tombstone", "created", "aliased"}
       /\ \A p \in DOMAIN diff[n].pages : Len(diff[n].pages[p]) = PageSize
  /\ changes \in 0..MaxChanges
  /\ RecordSized

NothingOverlaid == [n \in Names |-> Clean]
NothingDirty    == [n \in Names |-> NoDiff]

Init ==
  /\ \E s \in Starts : /\ disk = [ino |-> 1, mtime |-> 1, zip |-> s.zip]
                       /\ sidecar = s.sidecar /\ changes = MaxChanges - s.changes
  /\ mount = Closed /\ cache = EmptyCache /\ lru = <<>>
  /\ overlay = NothingOverlaid /\ diff = NothingDirty /\ call = Idle
  /\ files = Shown(disk.zip)

\* An archive that does not parse, or whose index cannot be built, is not opened.
OpenRefused ==
  /\ ~Mounted /\ (Parse(disk.zip).ok => ResolveIndex(sidecar, disk.zip) = NoImage)
  /\ UNCHANGED vars

\* FileMount::open, write_sidecar_index.
OpenOver(image) ==
  /\ image # NoImage /\ sidecar' = image
  /\ mount' = [phase |-> "open", snapshot |-> disk, archive |-> disk.zip,
               image |-> image, tick |-> 0, stale |-> FALSE, raced |-> FALSE]
Open ==
  /\ ~Mounted /\ Parse(disk.zip).ok
  /\ OpenOver(ResolveIndex(sidecar, disk.zip))
  /\ files' = Shown(disk.zip)
  /\ UNCHANGED <<disk, cache, overlay, diff, call, lru, changes>>

\* The end of a mount, for whatever follows it.
End ==
  /\ cache' = EmptyCache /\ lru' = <<>>
  /\ overlay' = NothingOverlaid /\ diff' = NothingDirty /\ call' = Idle

Close ==
  /\ Mounted /\ call.step \in {"idle", "done"}
  /\ mount' = Closed /\ End /\ files' = Shown(disk.zip)
  /\ UNCHANGED <<store, changes>>

-----------------------------------------------------------------------------
(* Reading. *)

Done(n, off, len, result) ==
  [step |-> "done", n |-> n, off |-> off, len |-> len, result |-> result]

\* read_cached up to its first page: the record, the range, or an end at once.
CachedRead(n, off, len, at) ==
  IF ~InRange(off, len, mount.image.recs[at].uncomp) THEN Done(n, off, len, Err("range"))
  ELSE IF len = 0 THEN Done(n, off, len, Ok(<<>>))
  ELSE [step |-> "look", n |-> n, off |-> off, len |-> len, at |-> at, out |-> <<>>]

Overlaid(n, r) == diff[n].dirty \/ r.source # n

\* FileMount::read: a stale mount reads nothing, an overlaid entry is read at
\* once, and any other one page by page.
ReadAs(n, r, off, len) ==
  IF r.err # "none" THEN Done(n, off, len, Err(r.err))
  ELSE IF Overlaid(n, r) THEN Done(n, off, len, ReadDirty(n, r, off, len))
  ELSE CachedRead(n, off, len, Lookup(mount.image, n).at)
BeginRead(n, off, len) ==
  /\ Mounted /\ call.step \in {"idle", "done"}
  /\ call' = IF mount.stale THEN Done(n, off, len, Err("stale"))
             ELSE ReadAs(n, Resolve(n), off, len)
  /\ UNCHANGED <<store, mount, cache, overlay, diff, files, lru, changes>>

Pos  == call.off + Len(call.out)
Page == Pos \div PageSize
Key(p) == <<call.at, p>>
Rec  == mount.image.recs[call.at]

\* What the read has once the bytes of its page are there.
TakenTo(out) ==
  IF Len(out) = call.len THEN Done(call.n, call.off, call.len, Ok(out))
  ELSE [call EXCEPT !.step = "look", !.out = out]
Taken(data) ==
  TakenTo(call.out \o Slice(data, Pos - PageStart(Page), call.off + call.len - Pos))

Hit ==
  /\ call.step = "look" /\ Resident(cache, Key(Page))
  /\ call' = Taken(cache.nodes[cache.map[Key(Page)]].data)
  /\ cache' = Get(cache, Key(Page)) /\ lru' = Used(lru, Key(Page))
  /\ UNCHANGED <<store, mount, overlay, diff, files, changes>>

\* Mutant: a file of the same size is the same file.
Fresh_SizeOnly == Stat(disk).size = Stat(mount.snapshot).size

\* StatFingerprint.
Fresh == Stat(disk) = Stat(mount.snapshot)

\* check_fresh: every EstaleInterval misses (never for 0) the file is looked at,
\* before the archive is touched; what is stale stays so.
Miss ==
  /\ call.step = "look" /\ ~Resident(cache, Key(Page))
  /\ LET tick == IF EstaleInterval = 0 THEN 1 ELSE (mount.tick + 1) % EstaleInterval
         late == tick = 0 /\ ~Fresh
     IN /\ mount' = [mount EXCEPT !.tick = tick, !.stale = @ \/ late]
        /\ call' = IF late THEN Done(call.n, call.off, call.len, Err("stale"))
                   ELSE [call EXCEPT !.step = "fill"]
  /\ UNCHANGED <<store, cache, overlay, diff, files, lru, changes>>

\* One read of the pages from the missing one to last.
Run(last) ==
  ReadRecord(mount.archive, mount.image, Rec, PageStart(Page),
             PageStart(last) - PageStart(Page) + PageLen(Rec.uncomp, last))

\* The run ends before a page that is there, at the end of the entry, or after
\* ReadAhead pages; it has the missing page in any case.
LastUpTo(limit) ==
  CHOOSE p \in Page..Greater(Page, limit) :
    /\ p >= limit \/ Resident(cache, Key(p + 1))
    /\ \A q \in Page..(p - 1) : q < limit /\ ~Resident(cache, Key(q + 1))
LastOfRun == LastUpTo(Lesser(Page + ReadAhead, PageCount(Rec.uncomp) - 1))

\* fill_run: the pages go into the cache from first to last, where the last ones
\* may put out the first; the read takes its page from the run.
RunPages(bytes, last) ==
  LET From(p) == PageStart(p) - PageStart(Page)
      Data(p) == [i \in 1..PageLen(Rec.uncomp, p) |-> bytes[From(p) + i]]
  IN [k \in 1..(last - Page + 1) |->
        [key |-> Key(Page + k - 1), data |-> Data(Page + k - 1)]]
Filled(pages) ==
  /\ call' = Taken(pages[1].data)
  /\ cache' = InsertRun(cache, pages) /\ lru' = AddedRun(lru, pages)
FillWith(run, last) ==
  IF run.err = "none" THEN Filled(RunPages(run.bytes, last))
  ELSE call' = Done(call.n, call.off, call.len, Err(run.err)) /\ UNCHANGED <<cache, lru>>
Fill ==
  /\ call.step = "fill" /\ FillWith(Run(LastOfRun), LastOfRun)
  /\ UNCHANGED <<store, mount, overlay, diff, files, changes>>

-----------------------------------------------------------------------------
(* Changing entries.  A call that is refused changes nothing and is left out. *)

Edit ==
  /\ Mounted /\ ~mount.stale /\ call.step \in {"idle", "done"}
  /\ changes < MaxChanges /\ changes' = changes + 1
  /\ call' = Idle /\ UNCHANGED <<store, mount, cache, lru>>

\* The entry of a write with one more byte, in a page of the given bytes.
EnsuredEntry(n, size) ==
  IF diff[n].dirty THEN diff[n] ELSE [dirty |-> TRUE, size |-> size, pages |-> <<>>]
WrittenEntry(e, i, page) ==
  [dirty |-> TRUE, size |-> Greater(e.size, i + 1),
   pages |-> [q \in DOMAIN e.pages \cup {i \div PageSize} |->
                IF q = i \div PageSize THEN [page EXCEPT ![(i % PageSize) + 1] = Mark]
                ELSE e.pages[q]]]
WrittenFile(b, i) ==
  [k \in 1..Greater(Len(b), i + 1) |-> IF k = i + 1 THEN Mark ELSE IF k <= Len(b) THEN b[k] ELSE 0]

\* write_into of one byte: the page is that of Tier 1, or a copy of the source.
\* An error of the source leaves the entry dirty, and nothing written.
WriteByte(n, i, e, page) ==
  IF page.err # "none" THEN diff' = [diff EXCEPT ![n] = e] /\ UNCHANGED files
  ELSE /\ diff' = [diff EXCEPT ![n] = WrittenEntry(e, i, page.bytes)]
       /\ files' = [files EXCEPT ![n] = File(WrittenFile(@.bytes, i))]
WriteResolved(n, i, r) ==
  /\ r.err = "none"
  /\ WriteByte(n, i, EnsuredEntry(n, r.size),
               PagePart(n, r.source, r.size, PageStart(i \div PageSize),
                        PageStart((i \div PageSize) + 1)))
WriteInto(n, i) == Edit /\ WriteResolved(n, i, Resolve(n)) /\ UNCHANGED overlay

\* entry_create.
EntryCreate(n) ==
  /\ Edit /\ Tells(n) /\ ~Exists(n)
  /\ overlay' = [overlay EXCEPT ![n] = [kind |-> "created", source |-> NoSource]]
  /\ diff' = [diff EXCEPT ![n] = [NoDiff EXCEPT !.dirty = TRUE]]
  /\ files' = [files EXCEPT ![n] = File(<<>>)]

\* Mutant: the pages of a removed entry stay.
EntryRemove_KeepsDiff(n) ==
  /\ Edit /\ Tells(n) /\ Exists(n)
  /\ overlay' = [overlay EXCEPT ![n] = [kind |-> "tombstone", source |-> NoSource]]
  /\ files' = [files EXCEPT ![n] = NoFile]
  /\ UNCHANGED diff

\* entry_remove.
EntryRemove(n) ==
  /\ Edit /\ Tells(n) /\ Exists(n)
  /\ overlay' = [overlay EXCEPT ![n] = [kind |-> "tombstone", source |-> NoSource]]
  /\ diff' = [diff EXCEPT ![n] = NoDiff]
  /\ files' = [files EXCEPT ![n] = NoFile]

\* entry_rename, EntryTable::apply_rename, DiffLayer::rename_entry.
EntryRename(old, new) ==
  /\ Edit /\ Tells(old) /\ Exists(old) /\ Tells(new) /\ ~Exists(new)
  /\ overlay' = [overlay EXCEPT
       ![new] = IF overlay[old].kind = "none" THEN [kind |-> "aliased", source |-> old]
                ELSE overlay[old],
       ![old] = [kind |-> "tombstone", source |-> NoSource]]
  /\ diff' = IF diff[old].dirty THEN [diff EXCEPT ![new] = diff[old], ![old] = NoDiff]
             ELSE diff
  /\ files' = [files EXCEPT ![new] = files[old], ![old] = NoFile]

-----------------------------------------------------------------------------
(* Committing. *)

\* Mutant: a written entry ends where its source does.
Content_SourceSize(n, source, size) == Pages(n, source, size, 0, size)

\* assemble_content over a source, or over none.
Content(n, source, size) ==
  Pages(n, source, size, 0, IF diff[n].dirty THEN diff[n].size ELSE size)

\* Contents compressed by a method; only the builtin ones can.
Stored(method, bytes) ==
  IF method = 0 THEN [i \in 1..Len(bytes) |-> StoredByte(bytes[i])] ELSE Deflate(bytes)

\* A piece of contents, or none where they cannot be read.
PieceOf(n, method, content) ==
  IF content.err # "none" \/ ProviderOf(method) \notin Builtin THEN Refused
  ELSE Placed(n, method, content.bytes, Stored(method, content.bytes))

\* build_created.
CreatedPiece(n) == PieceOf(n, 8, Content(n, NoSource, 0))

\* A dirty entry: its contents, by the method of its source.
RewrittenPiece(n, e) == PieceOf(n, e.method, Content(n, e.name, e.uncomp))

\* Mutant: a FULL commit makes every record anew.
CleanPiece_Anew(mode, e) ==
  IF mode = "incremental" THEN InPlace(e) ELSE Copied(mount.archive, e, e.name)

\* An entry that nothing changed.
CleanPiece(mode, e) ==
  CASE mode = "incremental"                     -> InPlace(e)
    [] mode = "full" /\ VerbatimEligible(e)     -> Verbatim(mount.archive, e)
    [] mode = "full" /\ ~VerbatimEligible(e)    -> Copied(mount.archive, e, e.name)

\* An entry of the archive under its own name; an alias of that name comes later.
SourcePieces(mode, e) ==
  CASE overlay[e.name].kind \in {"aliased", "tombstone"} -> <<>>
    [] overlay[e.name].kind = "created" -> <<CreatedPiece(e.name)>>
    [] overlay[e.name].kind = "none" ->
         <<IF diff[e.name].dirty THEN RewrittenPiece(e.name, e) ELSE CleanPiece(mode, e)>>

\* An alias is of the first entry that has the name of its source.
AliasOf(n, e) ==
  IF diff[n].dirty THEN RewrittenPiece(n, e) ELSE Copied(mount.archive, e, n)
AliasPiece(n, entries) ==
  LET sources == {i \in 1..Len(entries) : entries[i].name = overlay[n].source}
  IN IF sources = {} THEN Refused ELSE AliasOf(n, entries[Min(sources)])

\* Mutant: a created entry is emitted with the archive's and with the new ones.
CreatedPieces_Twice(n, entries) ==
  IF overlay[n].kind = "created" THEN <<CreatedPiece(n)>> ELSE <<>>

\* What was created and is not in the archive.
CreatedPieces(n, entries) ==
  IF overlay[n].kind = "created" /\ \A i \in 1..Len(entries) : entries[i].name # n
  THEN <<CreatedPiece(n)>> ELSE <<>>
AliasPieces(n, entries) ==
  IF overlay[n].kind = "aliased" THEN <<AliasPiece(n, entries)>> ELSE <<>>
\* build_full and build_incremental: the entries of the archive in its order, what
\* was created beside them, the aliases; the last two in the order of the overlay.
BuildPieces(mode, order) ==
  LET Of(entries) ==
        FlattenSeq([i \in 1..Len(entries) |-> SourcePieces(mode, entries[i])])
          \o FlattenSeq([i \in 1..Len(order) |-> CreatedPieces(order[i], entries)])
          \o FlattenSeq([i \in 1..Len(order) |-> AliasPieces(order[i], entries)])
  IN Of(Parse(mount.archive).entries)

\* The overlay is a hash map: its names come in any order.
Orders == {o \in [1..Cardinality(Names) -> Names] : \A m, n \in DOMAIN o : o[m] = o[n] => m = n}

\* Mutant: the new part goes over the old directory.
Overwritten_Directory(zip, off, cells) ==
  SubSeq(zip, 1, Parse(zip).dir.offset) \o cells

\* Cells written over a file from an offset on.
Overwritten(zip, off, cells) ==
  [i \in 1..Greater(off + Len(cells), Len(zip)) |->
     IF i > off /\ i <= off + Len(cells) THEN cells[i - off]
     ELSE IF i <= Len(zip) THEN zip[i] ELSE Pad]

\* The archive that the commit leaves, where the file is still what was mapped:
\* a FULL commit parses what it is about to install, an INCREMENTAL one appends.
Verified(new) ==
  IF ~new.ok THEN Refused ELSE IF Parse(new.cells).ok THEN new ELSE Refused
Appended(part) ==
  IF ~part.ok THEN Refused
  ELSE [ok |-> TRUE, cells |-> Overwritten(disk.zip, Len(mount.archive), part.cells)]

Built(mode, order) ==
  IF mode = "full" THEN Verified(Laid(0, BuildPieces(mode, order)))
  ELSE Appended(Laid(Len(mount.archive), BuildPieces(mode, order)))

Unchanged == overlay = NothingOverlaid /\ diff = NothingDirty

\* Nobody changed the file since it was opened; only the history asks.
Untouched == disk = mount.snapshot

\* The sum of numbers.
Total(counts) ==
  LET sum[n \in 0..Len(counts)] == IF n = 0 THEN 0 ELSE sum[n - 1] + counts[n]
  IN sum[Len(counts)]

\* Archive::bloat: the data of the entries, the directory and what follows it are
\* live; local headers count as dead.
LiveOf(ar, len) ==
  Total([i \in 1..Len(ar.entries) |-> ar.entries[i].comp])
    + ar.dir.size + (len - (ar.dir.offset + ar.dir.size))
LiveSize(zip) == LiveOf(Parse(zip), Len(zip))

\* Mutant: both thresholds must be reached.
Bloated_Both(live, len) == len >= GcThreshold * live /\ Greater(len - live, 0) >= GcMaxBloat

\* should_full_commit: one of the thresholds is reached.
Bloated(live, len) == len >= GcThreshold * live \/ Greater(len - live, 0) >= GcMaxBloat

\* commit_full and commit_incremental say their mode, commit chooses by what was
\* opened.
ModeOf(how) ==
  IF how # "commit" THEN how
  ELSE IF Bloated(LiveSize(mount.archive), Len(mount.archive)) THEN "full" ELSE "incremental"

\* full_commit_inner and commit_incremental.  The mount is gone in any case.  A new
\* file has a new inode; the one that was opened is not compared again.
Install(how, mode, built) ==
  /\ disk' = IF ~built.ok THEN disk
             ELSE [ino |-> IF mode = "full" THEN disk.ino + 1 ELSE disk.ino,
                   mtime |-> disk.mtime + 1, zip |-> built.cells]
  /\ mount' = IF built.ok /\ Untouched
              THEN [phase |-> "committed", how |-> how, mode |-> mode, before |-> mount.archive]
              ELSE Closed
  /\ files' = IF built.ok /\ Untouched THEN files ELSE Shown(disk'.zip)
Commit(how, mode, order) ==
  /\ Mounted /\ ~mount.stale /\ call.step \in {"idle", "done"}
  /\ changes < MaxChanges /\ changes' = changes + 1
  /\ Install(how, mode, Built(mode, order)) /\ End /\ UNCHANGED sidecar

\* FileMount::commit_full, commit_incremental and commit do nothing when nothing changed.
CommitChanges ==
  ~Unchanged /\ \E how \in {"full", "incremental", "commit"}, o \in Orders :
                  Commit(how, ModeOf(how), o)

\* FileMount::compact.
Compact == Unchanged /\ \E o \in Orders : Commit("compact", "full", o)

-----------------------------------------------------------------------------
(* Another process. *)

\* A write into the file: every byte of its data becomes another, and the CRCs in
\* the directory with them; nothing moves.
Scribbled(zip) ==
  LET other(b) == IF b >= 0 THEN b + 1 ELSE b
      Changed(bytes) == [k \in 1..Len(bytes) |-> other(bytes[k])]
  IN [i \in 1..Len(zip) |->
        CASE zip[i].cell = "stored" -> StoredByte(other(zip[i].b))
          [] zip[i].cell = "block"  -> [zip[i] EXCEPT !.syms = Changed(@)]
          [] zip[i].cell = "opaque" -> Opaque(Changed(zip[i].bytes))
          [] zip[i].cell = "cdfh"   -> [zip[i] EXCEPT !.crc = Changed(@)]
          [] OTHER -> zip[i]]

\* The file changes, in place or by a rename; a map sees the file it was made of.
FileChanges(d) ==
  /\ changes < MaxChanges /\ changes' = changes + 1
  /\ disk' = d
  /\ mount' = IF Mounted
              THEN IF d.ino # mount.snapshot.ino THEN mount
                   ELSE [mount EXCEPT !.archive = d.zip, !.raced = @ \/ call.step = "fill"]
              ELSE Closed
  /\ files' = IF Mounted THEN files ELSE Shown(d.zip)
  /\ UNCHANGED <<sidecar, cache, overlay, diff, call, lru>>

WrittenInPlace ==
  FileChanges([ino |-> disk.ino, mtime |-> disk.mtime + 1, zip |-> Scribbled(disk.zip)])
Replaced ==
  \E z \in Others : FileChanges([ino |-> disk.ino + 1, mtime |-> disk.mtime + 1, zip |-> z])

Next ==
  \/ Open \/ OpenRefused \/ Close \/ Hit \/ Miss \/ Fill \/ CommitChanges \/ Compact
  \/ WrittenInPlace \/ Replaced
  \/ \E n \in Names : EntryCreate(n) \/ EntryRemove(n)
  \/ \E n \in Names, i \in Writes : WriteInto(n, i)
  \/ \E old, new \in Names : EntryRename(old, new)
  \/ \E n \in Names, r \in Ranges : BeginRead(n, r[1], r[2])

Spec == Init /\ [][Next]_vars

-----------------------------------------------------------------------------
(* Properties. *)

\* The sidecar's index is what a program wrote for this archive.
IndexIntact ==
  mount.image \in {Eager(mount.snapshot.zip), MetadataOnly(mount.snapshot.zip),
                   Split(Eager(mount.snapshot.zip))}

SourceEntry(n) == CHOOSE e \in EntriesOf(mount.archive) : e.name = n
MethodOf(n) ==
  IF overlay[n].kind = "created" THEN 8 ELSE SourceEntry(SourceOf(n)).method

\* How a read of what the user sees must end.
Outcome(n, off, len) ==
  LET overlaid == diff[n].dirty \/ overlay[n].kind = "created"
                    \/ (overlay[n].kind = "aliased" /\ overlay[n].source # n) IN
  CASE mount.stale -> "stale"
    [] ~mount.stale /\ ~files[n].there -> "notfound"
    [] ~mount.stale /\ files[n].there ->
         IF ProviderOf(MethodOf(n)) \notin Builtin THEN "unsupported"
         ELSE IF ~overlaid /\ off + len > Len(files[n].bytes) THEN "range"
         ELSE "none"

\* Whatever index the sidecar had, through checkpoints, pages kept or read ahead,
\* aliases and written pages, a read returns the bytes of the file; and only with a
\* damaged index does it fail where it must not.
ReadsShown ==
  call.step = "done" /\ mount.archive = mount.snapshot.zip =>
    /\ call.result.err = "none" =>
         call.result.bytes = Slice(files[call.n].bytes, call.off, call.len)
    /\ call.result.err # Outcome(call.n, call.off, call.len) => ~IndexIntact

\* With a check at every miss, an entry that the session did not touch reads as it
\* was when the archive was opened, or fails, although the file is written under
\* the map: unless a write ever came between a check and the fill behind it.
SnapshotReads ==
  /\ call.step = "done" /\ EstaleInterval = 1 /\ ~mount.raced
  /\ call.result.err = "none" /\ overlay[call.n].kind = "none" /\ ~diff[call.n].dirty
  => call.result.bytes =
       Slice(Shown(mount.snapshot.zip)[call.n].bytes, call.off, call.len)

\* The slab with its list, map and free places is a list of pages in the order of
\* their last use, cut where the bytes exceed the limit, also when one run of pages
\* puts out its own first page.
CacheIsLru == Represents(cache, lru)

\* A commit leaves an archive that contains the files as the user saw them.
CommitsExactly ==
  mount.phase = "committed" => Parse(disk.zip).ok /\ Shown(disk.zip) = files

\* The cells of an entry: from its local header to the end of its data.
Extent(zip, e) == (e.lho + 1)..(DataOffset(zip, e) + e.comp)

\* Each entry has its data in the file, no two share a cell, none runs into the
\* directory; the names are different; nothing else is in the file.
LaidApart(zip) ==
  LET ar == Parse(zip)
      extent(i) == Extent(zip, ar.entries[i])
  IN \A i \in 1..Len(ar.entries) :
       /\ DataOffset(zip, ar.entries[i]) # NoData /\ extent(i) \subseteq 1..ar.dir.offset
       /\ \A j \in 1..Len(ar.entries) \ {i} : extent(i) \cap extent(j) = {}
NamesDiffer(zip) ==
  LET es == Parse(zip).entries
  IN \A i, j \in 1..Len(es) : es[i].name = es[j].name => i = j
NothingElse(zip) ==
  LET ar == Parse(zip)
  IN 1..ar.dir.offset \subseteq UNION {Extent(zip, e) : e \in ToSet(ar.entries)}

\* A FULL commit lays its entries out apart from each other and leaves nothing else
\* in the file, whatever the archive before it; an INCREMENTAL one keeps an archive
\* apart that was; and neither makes a name stand twice.
CommitLayout ==
  mount.phase = "committed" =>
    /\ mount.mode = "full" => LaidApart(disk.zip) /\ NothingElse(disk.zip)
    /\ LaidApart(mount.before) => LaidApart(disk.zip)
    /\ NamesDiffer(mount.before) => NamesDiffer(disk.zip)

\* An entry that the session did not touch keeps its record, with what only the
\* record has (times, permissions, comment, extra field), and its local header, where
\* the file has one; but for a FULL commit of an entry with a data descriptor.
MetadataKept ==
  [][mount.phase = "open" /\ mount'.phase = "committed" =>
       \A e \in EntriesOf(mount.archive) :
         /\ overlay[e.name] = Clean /\ ~diff[e.name].dirty /\ e.lho < Len(mount.archive)
         /\ mount'.mode = "full" => VerbatimEligible(e)
         => \E f \in EntriesOf(disk'.zip) :
              /\ [f.record EXCEPT !.lho = 0] = [e.record EXCEPT !.lho = 0]
              /\ At(disk'.zip, f.lho) = At(mount.archive, e.lho)]_vars

\* What is written into the diff layer belongs to an entry that is there: a name
\* that was removed keeps nothing that an entry created later would show, a created
\* entry is always dirty, and an alias is of an entry that the index knows and that
\* its own name no longer shows.
DiffOwned ==
  Mounted => \A n \in Names :
    /\ diff[n].dirty => Exists(n)
    /\ overlay[n].kind = "created" => diff[n].dirty
    /\ overlay[n].kind = "aliased" =>
         /\ overlay[n].source \in Names /\ Tells(overlay[n].source)
         /\ Lookup(mount.image, overlay[n].source) # NotThere
         /\ overlay[overlay[n].source].kind # "none"

\* An INCREMENTAL commit moves no cell of the archive that was opened: cut back to
\* its old length, the file is what it was, which is how an open after a crash
\* undoes it.
IncrementalAppends ==
  [][mount.phase = "open" /\ mount'.phase = "committed" =>
       (mount'.mode = "incremental" => IsPrefix(mount.snapshot.zip, disk'.zip))]_vars

\* What a local header takes, and all of them.
HeaderOf(zip, e) == IF DataOffset(zip, e) = NoData THEN 0 ELSE DataOffset(zip, e) - e.lho
Headers(zip) ==
  Total([i \in 1..Len(Parse(zip).entries) |-> HeaderOf(zip, Parse(zip).entries[i])])

\* The archive stays bounded under commit(), which looks at its bloat before it makes
\* more: what is left is at most as large as either threshold lets the archive before
\* it be, and what the new one needs.
SizeBounded ==
  mount.phase = "committed" /\ mount.how = "commit" =>
    LET live == LiveSize(mount.before)
    IN Len(disk.zip) <= Lesser(GcThreshold * live, live + GcMaxBloat)
                          + LiveSize(disk.zip) + Headers(disk.zip)

\* A commit that succeeds leaves an archive that can be opened, the INCREMENTAL one
\* too, which does not parse what it has written.
CommitOpens == mount.phase = "committed" => Parse(disk.zip).ok

\* The directory that a commit wrote has no value that stands for one elsewhere, but
\* for the sizes in records that have a Zip64 field.
UnderLimits(zip) ==
  LET end    == At(zip, Len(zip) - 1)
      rec(i) == At(zip, end.cdOffset + i - 1)
  IN /\ ~IsWide(end)
     /\ \A i \in 1..end.count : rec(i).z64 = <<>> => U32Max \notin {rec(i).comp, rec(i).uncomp}
BelowLimits == mount.phase = "committed" => UnderLimits(disk.zip)
=============================================================================

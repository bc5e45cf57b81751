# A TLA+ model of zip-vmm

The crate under `src/` mounts a ZIP archive as a writable tree. Reads come from
the archive through a page cache. Writes go to an in-memory diff layer (Tier 1),
spill into a journal, `vmdirty` (Tier 2), survive crashes through it, and reach
the archive only by a commit, either by building a whole new archive (FULL) or by
appending to the old one (INCREMENTAL). Everything is single-threaded: a
`FileMount` is one object that one thread calls. What makes the crate hard is
the order of file operations under crashes, and data kept in three places.

The modules here are translated from the Rust source. `PROJECT.json` maps each
definition to its lines, lists the runs, the mutants (a plausible bug for each
property, which the property must catch), the findings, the hazards and the
theorems.

## Inventory

| component (source) | state | operations | hard part | what makes it correct |
|---|---|---|---|---|
| disk (`disk.rs`) | `archive.zip`, `archive.zip.new`, `commit.intent`, `vmdirty`, `vmdirty.compact`, `vmdirty.bak.*`; the session flags of a `FileMount` | `open_with_recovery`, `flush`, `compact_journal`, `commit_full`, `commit_incremental`, `compact` | a crash between any two file operations; unlinks and renames that fail | what was flushed or committed is what the next open shows; a torn append can be undone; a commit never looks like a conflict |
| entry table (`entrytable.rs`; `entry_*`, `resolve_entry` in `mount.rs`) | overlay of a name: created, tombstone, alias of a source | create, remove, rename, resolve | chains of renames, names used again | every name reads as the calls made it; a source is shown once |
| diff layer (`difflayer.rs`) | pages, logical size, source high-water mark, FIFO of pages, byte account | ensure, insert, truncate, rename, take victims | shrink and grow again; accounting | what a shrink cut off reads as zero |
| Tier 2 (`tier2.rs`) | index (entry, page) -> place in the journal | spill, write hit, flush, rehydrate, purge, rename | two copies of a page; what must be journaled | a page is read from where it is newest |
| journal format (`vmdirty.rs`) | the journal file, the writer's position, sequence and sync policy | append, marker, recovery walk | damage anywhere, short writes, lost syncs | the walk reaches all that was promised and believes nothing else |
| mount (`mount.rs`) | none of its own | `read_dirty`, `write_into`, `read_cached`, `fill_run` | three tiers in the right order; a file that changes between two pages | a file is an array of bytes; an untouched one reads as at the open |
| commit builders (`commit.rs`) | none | `build_full`, `build_incremental` | which entry goes out under which name, from which source, and where | the new archive reads as the mount did, and what was not touched keeps its record |
| page cache (`page.rs`) | a slab of pages in a list and a map, with a byte bound | get, insert, evict | a run longer than the cache | it is an LRU list |
| vmidx (`vmidx/*`), `index_build.rs` | the sidecar's index: entries by hash, checkpoints in chunks | build, parse, look up, nearest checkpoint, fingerprint | a stale, partial or damaged index | a read gives the entry's bytes or fails |
| archive parser (`archive.rs`) | none | find the end record, Zip64, the directory, an entry's data | a prefix, a comment, values that mean "see Zip64" | what the builders write is read back |
| providers (`provider/*`) | none | checkpoints at block boundaries, a read from the nearest | the window behind a checkpoint | a read from anywhere is a part of the whole |
| `lock.rs` | none: a stub | - | - | - |

The components interact by plain calls on shared state: a write calls the entry
table (`resolve_entry`), then the diff layer and Tier 2 (`write_into`), which
appends to the journal. An open replays the journal into the diff layer and the
entry table and writes a new journal from them. A commit flushes, reads Tier 2 back
into Tier 1, builds the archive and removes the journal. There are no threads and no
callbacks but the recovery handler and the archive check on a cache miss. What runs
beside a mount is another process that writes into or replaces its archive.

## Modules

| module | about | uses |
|---|---|---|
| `DurableStore` | what a mount promises about durability, without files | |
| `MountLifecycle` | the files and every step that changes them | `DurableStore` (refined) |
| `MountLifecycleProofs` | its inductive invariants, what is durable under which failures, and the refinement of `DurableStore` | extends `MountLifecycle` |
| `EntryTable` | names over the archive and the stores keyed by name | |
| `EntryJournal` | the entry table with its journal, replays and rewritings | extends `EntryTable` |
| `EntryJournalProofs` | the inductive invariants of the table and of its journal, and their theorems | extends `EntryJournal` |
| `FlatFile` | what one file promises: an array of bytes, and the copy of the last flush | |
| `PagedFile` | one file in pages over two tiers, the archive and the journal | `FlatFile` (refined) |
| `PagedFileProofs` | its inductive invariant, and the refinement of `FlatFile` | extends `PagedFile` |
| `Vmdirty` | the journal file: records, writer, recovery walk, crashes | |
| `VmdirtyProofs` | what the walk finds in a journal, and in what every crash leaves of it | extends `Vmdirty` |
| `SpillStore` | both tiers over a journal, append by append | extends `Vmdirty` |
| `SpillStoreProofs` | its inductive invariants and theorems | extends `SpillStore`, `VmdirtyProofs` |
| `Providers` | Store and Deflate: checkpoints and reads from them | |
| `ZipArchive` | the cells of an archive: parsing it, and laying out a new one | extends `Providers` |
| `SeekIndex` | the vmidx: built, damaged, looked up | extends `ZipArchive` |
| `SeekIndexProofs` | what parsing, decoding, the index and its lookup return, whatever bytes they read | extends `SeekIndex`, `PageCacheProofs` |
| `PageCache` | the slab LRU, and the list it stands for | |
| `PageCacheProofs` | each operation on the slots does to the list what the list should have done to it | extends `PageCache` |
| `ArchiveMount` | a mount from the file to the bytes of a read, and back by a commit | extends `SeekIndex`, `PageCache` |
| `ArchiveMountProofs` | its inductive invariants and theorems | extends `ArchiveMount`, `SeekIndexProofs` |
| `MC*` | instances for TLC, with symmetry over the names where nothing orders them | |

The decomposition follows the question. `MountLifecycle` has every file
operation and no contents; `EntryTable` and `EntryJournal` have every name and files
of one page; `PagedFile` has the bytes of one file; `SpillStore` has the bytes of the
journal; `ArchiveMount` has those of the archive, its index and the cache.

### MountLifecycle

`pc` is the file operation the process is about to do, with one action for each
(`OpenIntent` ... `OpenFreshHeader`, `FlushData`, `FlushMark`, `CompactCreate` ...
`CompactDirSync`, `IntentCreate` ... `CommitReturns`), so that `Crash` falls between
any two; a crash also stands for the error return of a call that consumes the mount,
and dropping a mount leaves the same files. The content of a mount is a version number; `includes[v]`
has the versions whose edits `v` contains. An archive is its fingerprint (`gen`),
its version and whether an append was left unfinished (`torn`); a journal is its
state, the fingerprint in its header, the version at its last marker and
whether records follow. `target`, `promised` and `includes` are history
variables: no guard of the code depends on them. The handler of a recovery is its
caller's: it answers what the default handler does, refuses, discards, or adopts
everything when there is something to adopt.

Abstractions: the writes of one flush are one step, a partial append being a journal with a
tail; an error in the middle of a flush that leaves the mount open is not
modelled. A commit of a clean mount returns early, which is `DropMount`. A crash is
one of the process: what was written stays, whether synced or not, so a missing
sync is not found by these runs (power loss is in the plan).

### EntryTable

A file has one page, its content a number; `pages[n]` and `index[n]` are what the tiers hold
of it, `dir` the directory as the user's calls made it. `Create`, `Remove`,
`Rename`, `Write` (with the spill that follows), `Flush` and `Commit` change all the
stores they change in the code. The victims of a spill are any pages, where the code takes the
oldest: every choice of the FIFO is included. Tier 2 is always there; a mount
without it is one whose Tier 1 never overflows and which never flushes.

### EntryJournal

A journal is represented by the state its replay gives: appending a record applies
`replay_recovered` to `replayed`, and a marker makes it `committed`. That is exact because
a replay is a fold of the records in order. Records of one step that concern different
names commute and are grouped; the RENAME records of a new journal do not, and are
written one by one in any order, since the code takes them from a `HashMap`. `CrashAndReplay`
and `CompactStart` begin a new journal; `RejournalEnd` puts it in the old one's
place. A crash while a compaction writes it is modelled; one while a recovery writes it is the
subject of `open_crash_promise`, not of this module. A page spilled again with the
content it was flushed with leaves no new record in the model; in the code the record
repeats what the journal has.

### PagedFile

`entry` is the `DirtyEntry` (size, high-water mark, pages), `index` the pages of Tier 2,
`source` the archive's file. `Write` applies a range page by page as `write_into`
does (Tier 1 in place, Tier 2 with a new record, the source by copy), then spills;
`Truncate`, `Flush`, `CrashAndRecover`, `CompactJournal` and `Commit` follow the code,
with `clamp_tail` and the padding of `read_page_at` as `Cut`, the size rule of a
replay in `ReplayPages` and the two RESIZE records of `rejournal_recovered` in `Rejournaled`.
The file is alone in its mount. A recovery here replays up to the last marker, as
the default handler does; what a replay of everything would give is the invariant
`SpilledRestored`, but no mount goes on from it.

### Vmdirty and SpillStore

A journal file is a sequence of cells: the head of a record, one cell for each byte of
its data, its CRC. That is as coarse as a file can be and still be cut inside a record, have
a `DataLoc` that points into the wrong one, or end in an old block of the disk. A CRC
matches the record it was made of and nothing else. `RecordsOf` is the walk of
`read_vmdirty`; `IsEmpty` is the verdict that lets an open discard a file unasked.

`SpillStore` has entries of at most one page (files of several are `PagedFile`) that are
empty in the archive. A call changes Tier 1 and the index at once and leaves a list of
`jobs`, its appends; each is a step that succeeds or fails. A failing append writes
nothing, a part of its record, or all of it without the sync; `MayFail` says which appends
may fail in which way. Every state is also asked what a crash in it leaves: `Images` cuts the
file anywhere behind its last sync and may put garbage or a record of another journal there.
`CrashAndRecover` goes on from such an image, with the records up to the last marker or all of
them. `acked`, `flushed`, `marked` and `content` are history.

### Providers, ZipArchive and SeekIndex

These are operators, not state machines; `ArchiveMount` calls them in its actions.

- `Providers`: a DEFLATE stream is a sequence of blocks of symbols, a literal or a copy from
  some distance back. `MakeCheckpoint` keeps the last `Window` bytes of the output, right
  aligned; `ReadRange` inflates from a checkpoint with that window.
- `ZipArchive`: an archive is a sequence of cells (headers, data, directory records, end records,
  padding). A name or CRC is one value; offsets, sizes and counts are numbers, with `U16Max` and
  `U32Max` as the values that mean "see Zip64". `Parse` is `Archive::parse`, from the search for the
  end record to the directory; `Verbatim`, `Copied`, `Placed`, `InPlace` and `Laid` are the ways in
  which a commit emits a record, and its directory and end record.
- `SeekIndex`: an image is its header, records sorted by hash, and chunks of checkpoints.
  `Eager` and `MetadataOnly` are the two builders, `Split` an index of the same contents in
  other chunks, `Damaged` those with one damaged part; `Lookup` and `Nearest`
  verify what they touch, as the code does.

### PageCache and ArchiveMount

`PageCache` has the slab with its list pointers, its map and its free places; `Represents` relates it
to a plain list of pages in the order of their last use.

`ArchiveMount` opens `disk` with whatever `sidecar` there is. A read of an overlaid entry is one
step, as nothing can come between; a read through the cache takes one step for each page that is there
and two, `Miss` and `Fill`, for one that is not, since the file may change between `check_fresh` and the
read of the map. `mount.archive` is what the map shows: a write into the file shows through it, a
rename over its name does not. Commits are one step (`MountLifecycle` has theirs) that builds
the archive and ends the mount; `how` is the call that made it, and `ModeOf` the choice of `commit()`
by the dead bytes. The in-memory `Mount` of `mount.rs` is this module with `EstaleInterval` 0.

Assumptions. A process that writes into the file changes data, and the CRCs in the directory
with them, and moves nothing (`Scribbled`). The overlay ends with the mount: the journal is elsewhere.
Calls that are refused change nothing and are left out, but for an open that is refused. `files`
is history: the files as the user sees them; `lru`, `mount.snapshot` and `mount.raced` are too
(`raced` is set when a write comes between a check and the fill behind it), except that `snapshot`
is also the fingerprint the check compares.

## Runs

| run | bounds | shows |
|---|---|---|
| `lifecycle` | 4 versions, 3 archive builds, 2 crashes, 1 foreign replacement | with crashes anywhere outside open: `PromiseKept`, `PromiseOnDisk`, `CommitNeverConflicts`, `RefusesOnlyUnflushed`, and `ImplementsStore`, the refinement of `DurableStore` |
| `lifecycle_live` | 3, 3, 2, 0; renames and unlinks fail, crashes in open too | `TornIsRepairable`, `LiveExtendsArchive`; `IntentResolved` under fairness |
| `journal` | 2 names, 1 page in Tier 1, 5 contents written, 2 journals written anew | `DirectoryShown`, `SourceOwnedOnce`, `JournalRestores`, `OnlyTierOneAtRisk` |
| `paged` | 2 pages of 2 bytes, size up to 3, 1 page in Tier 1 | `ImplementsFlatFile`, `SpilledRestored` |
| `spill` | 2 names, a page of 2 bytes, 1 page in Tier 1, 4 calls, 2 journals, both sync policies | `ReadsNewest`, `TierOneAccounted`, `AckedSurvive`, `RecoversFlushed`, `CompactsDeadOnly` |
| `mount` | three archives of 2 entries and one with dead cells, a third name, pages of 2 bytes, a cache of 2 pages, 1 to 3 changes | `ReadsShown`, `SnapshotReads`, `CacheIsLru`, `CommitsExactly`, `CommitLayout`, `MetadataKept`, `IncrementalAppends`, `DiffOwned`, `SizeBounded` |

Six more runs end in a violation and are the findings below.

Bounds. Each counter (`MaxVersion`, `MaxGen`, `MaxCrashes`, `MaxForeign`, `MaxContent`,
`MaxRejournals`, `MaxSize`, `MaxCalls`, `MaxChanges`) is a guard of an action, and only bounds the length of a behaviour or the
size of a file. Three versions make an archive, a flushed and an unflushed edit, three
builds a commit over a commit, two crashes one in the recovery of another. Three names
give a chain of two renames with its first name used again; with the journal
TLC has two (a rename and its inverse, a swap), and the proof covers every finite set.
A file of three bytes in pages of two has a full page, a partial one and a boundary in the middle
of each; bytes are 0 or 1, as a stale byte differs from the right one in some behaviour.
Four calls and two journals spill a page, write it again in Tier 2, flush and crash; a second
journal shows records of the first. In `mount` one archive has copies that reach over a block
boundary, an extra field and a comment; one a data descriptor and a method without a provider; one
Zip64 fields behind a prefix: the window is 2 bytes, a checkpoint lies at each boundary, and
a read-ahead of 2 pages is longer than the cache. Each start has its own budget of changes, since the
sidecars matter to reads and the third change to chains of renames. `EstaleInterval` is 1,
a check at each miss: with a larger one the code does not promise what `SnapshotReads` says. The fourth archive
has been committed before and reaches one threshold and not the other (`GcThreshold` 2, `GcMaxBloat` 6).
`CHECK_DEADLOCK` is never turned off.

Fairness (`FairSpec`). `WF(CallSteps)`: a call runs on one thread and none of its steps waits for
another process, so one that has begun goes on or crashes. `WF(OpenStart)`: a
closed archive is opened again some day. Nothing is assumed of the user's operations.

## Findings

Each is a run whose property quotes the code's own claim; `PROJECT.json` has the quotations.

1. `open_crash_conflict`: open removes `commit.intent` before the stale `vmdirty` that it
   condemned; after a crash in between a finished commit looks like a conflict.
2. `open_crash_promise`: recovery renames `vmdirty` to its bak before the new journal
   has its marker; after a crash in between the next open does not show what was flushed.
3. `rejournal_reorders`: a journal written anew has its CREATEs before its RENAMEs, and
   those in the order of a `HashMap`; when the name of a renamed archive entry is in use
   again its replay gives another state.
4. `truncate_resurrects`: a shrink cuts the boundary page in Tier 1 and in the source, not in
   Tier 2; when that page was spilled, growing the file shows its old tail again, while
   a replay of the same journal shows zeros.
5. `torn_append`: an append that fails half way leaves a torn record behind which the walk never
   gets, so that a later flush returns Ok and a crash after it loses what it promised.
6. `commit_at_limit`: an INCREMENTAL commit whose count or offset has the largest value of its
   field writes it, its own parser takes it for a Zip64 sentinel, and the archive that the commit
   returned Ok for does not open. A FULL commit parses its result first and fails instead
   (`FullCommitsOpen` proves that it always does). These values are the only way there:
   `CommitsOpenBelow` proves that without them every commit opens. The limits of `mount` are far
   from any commit of it.

The passing runs exclude exactly these by a named constant (`CrashDuringOpen`, `RejournalAny`,
`CutSpilled`, `MayFail`) or stay below the limit. Two more constants of `MountLifecycle` are off in
`lifecycle` and on in `lifecycle_live`: `CompactMayFail`, where a failed rename leaves
`compact_journal` with a mount that journals in a file which the next open deletes, and
`UnlinkMayFail`, where the cleanup of a commit removes the intent although `vmdirty` could not be
removed. With the first on, TLC finds `PromiseKept` violated (a later flush promises what that file has), with
the second `CommitNeverConflicts` (the commit's own archive looks foreign); `lifecycle_live` shows what holds with both.

One refusal is not a finding. A mount that is dropped or crashes after an edit and before its first flush leaves a
journal with records and no marker; the default handler answers Abort, so that the next
open returns `RecoveryRequired` although nothing is damaged. `RefusesOnlyUnflushed` says
that, without crashes inside open and failing renames or unlinks, this is the only refusal of an archive
that no one else changed, and that the archive then holds all that was promised, so that Discard loses
nothing of it.

## Proofs

Checked by TLAPS for every value of the constants, from the constants' named assumptions alone
unless one is mentioned.

- `MountLifecycleProofs`: `IndInv` is inductive, and gives `TypeOK`, `TornIsRepairable` and
  `LiveExtendsArchive`, with every failure and crash allowed. Neither property is inductive. That a
  torn archive has its intent needs `IntentInv` (the intent of an INCREMENTAL commit describes the
  archive it appends to from its creation on). That no journal older than its archive is
  replayed needs `JournalInv` (a journal over the archive beside it extends it, and none
  has the fingerprint of an archive about to be installed), which needs `FreshInv` (that
  archive's fingerprint is new) and `VersionInv` (what is shown contains the
  archive). One lemma per action.
- `MountLifecycleProofs`, of durability: on `IndInv` rest four more invariants, each with the failures under which it holds.
  `PromiseInv` (no failed rename of `compact_journal`): the archive, the journal or a kept journal holds the
  last promise, and which of them depends on the step: a commit may drop the journal only after the archive holds
  what it held. It gives `PromiseOnDisk` even with crashes inside open; without those also `PromiseKept`.
  `OwnInv` (no crash inside open, no failed unlink): an archive that differs from the journal's fingerprint has the
  intent that explains it, step by step through `finish_commit_cleanup`; it gives `CommitNeverConflicts` and,
  with `PromiseInv` (and so also without failed renames), `RefusesOnlyUnflushed`. `TargetInv`: between the first and the last step of an open the target of the
  recovery stays what the closed mount would have shown. With all of them every step maps to a step or a stutter of
  `DurableStore`, `ImplementsStore`. That the hypotheses are needed is what `open_crash_promise`,
  `open_crash_conflict` and the constants `CompactMayFail` and `UnlinkMayFail` show.
- `EntryJournalProofs`, of the table: `EntryInv` is inductive, and gives `DirectoryShown` and `SourceOwnedOnce`
  for every finite set of names and every limit. `AliasInv`: an alias has a source of its own whose
  name is overlaid. `StoresInv`: pages and index entries belong to dirty names and
  those exist; without it a create would show the pages of a removed file.
- `EntryJournalProofs`, of the journal: `JournalInv` is inductive and gives `JournalRestores` and
  `OnlyTierOneAtRisk`. `FollowInv`: the journal follows the table and Tier 2 record by record.
  `CommittedInv`: the committed state shows the directory of the last marker. `BuildingInv`: at each
  moment of the RENAMEs the new journal has the table without the aliases still to do, in
  any order. The theorems assume `Restricted`: new journals are written only from tables in which no
  renamed source is in use again (or never). Finding 3 shows that this is needed.
- `PagedFileProofs`: `PagedInv` is inductive unless a journal is written from spilled pages that a truncate
  cut (`CutSpilled`; `truncate_resurrects` is the other case), and gives `TypeOK`, `SpilledRestored` and
  `ExtensionReadsZero`. It says that the flat file is what the two tiers, the archive up to the high-water mark and
  zeros behind it make together, that replaying the journal up to its marker makes the kept copy, that replaying
  all of it makes the index, and that no page
  ends behind the size with anything but zeros. The page arithmetic is in lemmas about `PageOf` and `Start`.
  From it every step implements `FlatFile`.
- `VmdirtyProofs`: the walk, a recursive function, finds each record of a journal whose records are laid out one
  behind the other, and stops at the first that is not whole. `CrashReads`: what a crash leaves
  of such a journal is one of a prefix of its records, which has every record that was durable.
- `SpillStoreProofs`: `TypeInv` is inductive whatever fails, and gives `TierOneAccounted` and
  `CompactsDeadOnly`: the account, the FIFO and the resident pages agree, and each live place is that of a
  record of its own. `AckedInv` (the file is a layout of records, the acknowledged ones are among its durable prefix)
  is inductive as long as no record is written in half, and gives `AckedSurvive`; `torn_append` shows why the
  hypothesis is needed: the writer goes on behind a half of a record and the walk stops before it. `StoredInv` gives
  `ReadsNewest`: what an entry holds is in Tier 1, or in the record that the index has for it, or on
  its way there as a pending spill, or is zeros. It also needs spills not to fail, for a spill that fails loses the
  victims behind it (a hazard of `take_spill_victims`). `LogInv` gives `RecoversFlushed`: the numbers of the
  records grow with their places, so that the walk of any prefix commits just the records before its last
  marker, and replaying all records makes of each entry what it holds, but for a page in Tier 1, a spill on its way
  and a truncation not recorded yet; before a marker there is none of these. The delicate case is a copy
  that fails behind its record: its number was not used up, so that a marker right behind it would not commit
  it. `LooseFit`: as long as there is such a record, a page is in Tier 1 or a spill or a truncation
  comes next, and so another record takes the number before any marker, behind the first one in the file
  and in the replay. It assumes `LosesNothing`, the failures of the `spill` run: a failing spill loses its
  victims, a truncation without its record comes back, and a write to Tier 2 that fails behind its record is
  committed although its caller has an error. `Walk`, `PutAll` and `Replay` are recursive
  functions; each is unfolded from the existence of its fixed point, which a least counterexample gives.
- `ArchiveMountProofs`: for every archive, index and limit. `MapInv` is inductive: the map of an open
  mount is the file while that has its inode, and what a FULL commit leaves parses, which is
  `FullCommitsOpen`. On it rests `OwnInv`, which gives `DiffOwned`. `DiffOwned` alone is not inductive: a
  rename needs to know what kinds of overlay there are and that nothing is overlaid without a mount, and the index
  must not change under one, which `MapInv`'s shape of the mount gives.
- `PageCacheProofs`: lemmas about the cache as a data structure, with no specification of their own. `Mirrors(c, l)`
  says that the slots of `c` are those of the list `l`: there is a `Chain`, a sequence of distinct slots from `head`
  to `tail` whose `prev` and `next` are its neighbours, the map is its inverse on the keys of `l`, every other
  slot is in `free` once and blank, and `cur_bytes` is the sum of the sizes. It is what `Represents` needs to be
  inductive: `Represents` follows the links from the head and says nothing of two slots being different, of a free
  slot used twice, or of a map with one key too many. `GetMirrors`, `InsertRunMirrors` and `EmptyMirrors` take
  `unlink`, `push_front`, `move_to_front`, `alloc_node`, `evict_tail` and the loop of `evict_to_fit` one by one;
  the loop ends where the longest prefix that fits does.
- `ArchiveMountProofs`, of the cache: `LruInv` is inductive and gives `CacheIsLru` through hits, runs that fail
  half way, stale mounts and closes, for every page size, capacity, read-ahead and archive. A step of it needs the size
  in the record of the entry being read to be a number, which `TypedInv` gives.
- `SeekIndexProofs`: what the operators of the archive and the index return, with no specification of their own. What
  `Parse` accepts has entries with names of `Names` and unsigned sizes, whatever the cells are; decoding symbols from any state gives bytes;
  an index that is built has its records in range of its chunks (`SerializeIs`); the search by halves ends at a record,
  the chain of chunks at a checkpoint, and a lookup that finds something finds an index into the records.
- `ArchiveMountProofs`, of the types: `TypedInv` is inductive together with the other two (`ArchiveInvariant`) and gives
  `TypeOK`. It says that the file is cells whose fields are unsigned numbers, that the map of an open mount parses and
  its index has records and chunks in range, that each dirty page is whole, that the inode of the file only grows, and
  that a read goes on with a record of the index that was opened. `TypeOK` is far from inductive: that the map still parses
  when another process writes into it needs `AlikeParses` (what differs only in cells of data parses as before); that a page written over an archive page is whole needs the
  length of every read from Store, Deflate and the zeros behind the high-water mark (`PagePart`); that a commit leaves
  cells again goes through `BuildPieces`, `Laid` and the index built over the result.
- `CommitAppends`: from `MapInv` (the map is the file while the inode is the same) and the fact that an appended body goes
  behind the cells that are mapped, an INCREMENTAL commit leaves every older cell in place, `IncrementalAppends`.
- `CommitsOpenBelow`: as long as no commit wrote a value that stands for one in a Zip64 field (`BelowLimits`), what any
  successful commit leaves opens, the INCREMENTAL one too, which does not look at what it wrote. `SeekIndexProofs`
  shows what `Parse` does with a file that ends with a laid out directory: the end record that it searches backwards
  for is the one just written (`EocdFound`, `LaidEocd`), the directory it points to is the one laid out
  (`LaidParses`), and the records that are widened with their Zip64 fields again are those of the pieces
  (`LaidEntries`). `AppendLays` puts such a directory behind whatever file was there.
- `CommitKeepsMetadata`: from that, where commits open, `MetadataKept`: an entry that was not touched has a piece with its record (`KeptPiece`,
  through the flattened list of pieces), that piece has a record in the directory of the new file, and
  the local header is in place (INCREMENTAL) or was copied in front of the data that the new place names (FULL). That
  the local header lies in the file is a condition of the property: an open does not look at it, and an INCREMENTAL commit
  of an entry whose offset is behind the end of the file leaves it pointing into what was appended.
- `CommitsLaidOut`: below the limit values every commit keeps `CommitLayout`, for every archive, index and order of calls.
  Where the cells of the pieces end is a function that does not fall (`Ends`, `BodyGrows`); the entry that the parser
  finds for a piece that was written spans just the cells between two of its values (`PieceSpan`: place, header and data
  add up, also where the length of the data is in a Zip64 field), so that two of them are disjoint (`WrittenApart`) and
  all of them cover the file up to the directory (`FullApart`). An entry that an INCREMENTAL commit leaves in place has in the
  longer file the cells it had (`StayingSpan`), below all that is appended, and no entry stays twice (`StayOnce`). That no name
  stands twice is a matter of the overlay: what is created is not in the archive, an alias takes the place of an entry of
  its name, and the order of the overlay has each name once (`BuildOnce`). No property of the old archive is assumed for a FULL
  commit: also one whose entries share data is laid out apart.
- `CommitsBounded`: `SizeBounded` for all values of the two thresholds. What the pieces of a commit take is the data and the
  headers of the entries (`CommitCovers`, with `TotalsCover` for the sums), and what stands before them is there only
  if the archive that was opened is below both thresholds (`BloatBounds`).

What the assumptions on the constants of `ArchiveMount` say: `Names` is a finite set of numbers, the order of the
bytes of a name (`ZipAssumption`); a hash of a name is a number, with any collisions (`IndexAssumption`); a file that is
there at the start, or that another process puts in place, is any sequence of cells of any kinds whose fields are
unsigned, as the parser reads them, and an index is any records and chunks (`FilesAssumption`). An offset in an index
that points outside its chunks is, as for the decoder, a chunk that does not decode (`ok` is FALSE). None of this says
that an archive is well formed or that an index belongs to it.

Only model-checked: of `ArchiveMount` what says which bytes a read or a commit has (`ReadsShown`, `SnapshotReads`,
`CommitsExactly`). They need decoding from a checkpoint to be a part of decoding from the start, for every
stream, and compressing to be undone by decoding: inductions over the stream, whose theorems the provers cannot
instantiate. They also need an archive whose names differ, which the constants do not say.
`IntentResolved` stays with TLC, being liveness under fairness, which with ENABLED is out of the prover's
reach.

## Not modelled, and the plan

In this order:

1. Appends of create, remove and rename that fail (`EntryJournal`): the tables have changed, and no replay
   repeats it.
2. A mount reopened with another page size, and power loss of `commit.intent` and the archive between two
   syncs.

Left out on purpose: the layout of fields (offsets and endianness in ZIP records, vmidx and vmdirty are
functions of bytes with tests of their own), the advisory region of the vmidx, which nothing reads, the counters
of hits and misses, names that are not UTF-8, and `lock.rs`, a stub.

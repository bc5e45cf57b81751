----------------------------- MODULE SpillStore -----------------------------
(***************************************************************************)
(* The two tiers of a mount over its journal, record by record: Tier 1     *)
(* with its FIFO and byte account, the index of Tier 2 into the file, the  *)
(* writer, and what every crash would leave for the recovery walk.         *)
(*                                                                         *)
(* Every entry has at most one page; PagedFile has files of several.  The  *)
(* appends of one call are steps of their own, each of which may fail.     *)
(***************************************************************************)
EXTENDS Vmdirty, FiniteSets, SequencesExt

CONSTANTS
  Names,         \* names of the entries, empty in the archive
  Writes,        \* what a write puts at offset 0: sequences of 1 to PageSize bytes
  DirtyLimit,    \* bytes that Tier 1 may hold
  MayFail,       \* pairs of a kind of append and a way in which it may fail
  MaxCalls,      \* bound on the calls of a behaviour
  MaxGen         \* bound on the journals of a behaviour

Jobs     == {"spill", "hit", "copy", "resize", "marker"}
Failures == {"nothing", "short", "unsynced"}

ASSUME SpillAssumption ==
  /\ IsFiniteSet(Names)
  /\ \A d \in Writes : d \in Seq(0..255) /\ Len(d) \in 1..PageSize
  /\ DirtyLimit \in Nat /\ MaxCalls \in Nat /\ MaxGen \in Nat \ {0}
  /\ MayFail \subseteq Jobs \X Failures

VARIABLES
  dirty,       \* DiffLayer: the entries that it has
  size,        \* logical_size
  tier1,       \* the resident pages, all of PageSize bytes
  order,       \* the FIFO: the names of the resident pages, the oldest first
  dirtyBytes,  \* dirty_current
  journal,     \* Tier2: the writer, the index and data_records
  jobs,        \* the appends that the call in progress still has to make
  call,        \* the call in progress
  calls,
  content,     \* history: what the entries hold by the calls so far
  marked,      \* history: content at the last flush that returned Ok, and at
               \* each marker that one which failed has left behind it
  acked,       \* history: the records whose append succeeded, markers included
  flushed      \* history: how many of them the last flush that returned Ok covers

diff    == <<dirty, size, tier1, order, dirtyBytes>>
history == <<content, marked, acked, flushed>>
vars    == <<diff, journal, jobs, call, calls, history>>

Resident    == {n \in Names : tier1[n] # NoPage}
NoLoc       == [offset |-> 0, len |-> 0]
InTier2(n)  == journal.index[n] # NoLoc

Values     == {0} \cup UNION {ToSet(d) : d \in Writes}
Buffers    == [1..PageSize -> Values]
FileStates == UNION {[1..k -> Values] : k \in 0..PageSize}

TypeOK ==
  /\ dirty \subseteq Names /\ size \in [Names -> 0..PageSize]
  /\ tier1 \in [Names -> Buffers \cup {NoPage}]
  /\ order \in Seq(Names) /\ dirtyBytes \in Nat
  /\ journal.writer.durable \in 0..Len(journal.writer.file)
  /\ journal.writer.next > 0 /\ journal.records \in Nat
  /\ \A n \in Names : journal.index[n].len \in 0..PageSize
  /\ \A j \in ToSet(jobs) : j.job \in Jobs
  /\ call \in {"none", "write", "truncate", "flush", "compact"}
  /\ (call = "none") = (jobs = <<>>)
  /\ {content} \cup marked \subseteq [Names -> FileStates]
  /\ flushed \in 0..Len(acked)

-----------------------------------------------------------------------------
(* Reading. *)

Padded(d)     == [i \in 1..PageSize |-> IF i <= Len(d) THEN d[i] ELSE 0]
Clamp(buf, n) == SubSeq(buf, 1, IF n < Len(buf) THEN n ELSE Len(buf))

\* read_page.
Tier2Page(n) == ReadPageAt(journal.writer.file, journal.index[n])

\* read_dirty of the whole entry.
Read(n) ==
  CASE n \in Resident                  -> Clamp(tier1[n], size[n])
    [] n \notin Resident /\ InTier2(n) -> Clamp(Tier2Page(n), size[n])
    [] OTHER                           -> [i \in 1..size[n] |-> 0]

\* Mutant: the buffer is what was written.
Applied_NoBuffer(buf, d) == d

\* apply_write at offset 0.
Applied(buf, d) == [i \in 1..PageSize |-> IF i <= Len(d) THEN d[i] ELSE buf[i]]
Longer(a, b) == IF a > b THEN a ELSE b

-----------------------------------------------------------------------------
(* Appends.  A job says what is to be appended; Tier2 appends it. *)

Record(w, j) ==
  CASE j.job = "marker" -> CommitMarker(w.gen, LastSequence(w))
    [] j.job = "resize" -> MetadataRecord(w.gen, w.next, j.name, "Resize", j.size)
    [] OTHER            -> DataRecord(w.gen, w.next, j.name, j.data)

IsData(j) == j.job \in {"spill", "hit", "copy"}

\* Mutant: a copy made by a flush is not counted.
Put_CopyUncounted(t2, j) ==
  LET w    == t2.writer
      full == Appended(w, Record(w, j), j.job = "marker")
  IN [writer  |-> IF j.job = "marker" THEN full ELSE Numbered(full),
      index   |-> IF IsData(j) THEN [t2.index EXCEPT ![j.name] = Loc(w, j.data)]
                  ELSE t2.index,
      records |-> IF IsData(j) /\ j.job # "copy" THEN t2.records + 1 ELSE t2.records]

\* append_data_record, append_metadata or append_commit_marker, and put.
Put(t2, j) ==
  LET w    == t2.writer
      full == Appended(w, Record(w, j), j.job = "marker")
  IN [writer  |-> IF j.job = "marker" THEN full ELSE Numbered(full),
      index   |-> IF IsData(j) THEN [t2.index EXCEPT ![j.name] = Loc(w, j.data)]
                  ELSE t2.index,
      records |-> IF IsData(j) THEN t2.records + 1 ELSE t2.records]

DataJob(job, n, d) == [job |-> job, name |-> n, data |-> d]
ResizeJob(n, k)    == [job |-> "resize", name |-> n, size |-> k]
MarkerJob          == [job |-> "marker"]

NewTier2(gen, sync) ==
  [writer |-> NewWriter(gen, sync), index |-> [n \in Names |-> NoLoc], records |-> 0]

\* rejournal_recovered, a record of each page, and a marker.  An entry that the
\* archive has as empty is cut to its high-water mark and extended again.
RewriteJobs(pages, rest, contents) ==
  LET names   == pages \o rest
      resizes == [i \in 1..(2 * Len(names)) |->
                    LET n == names[(i + 1) \div 2]
                    IN ResizeJob(n, IF i % 2 = 1 THEN 0 ELSE Len(contents[n]))]
  IN resizes \o [i \in DOMAIN pages |-> DataJob("hit", pages[i], contents[pages[i]])]
       \o <<MarkerJob>>

\* A list of jobs, one after the other.
PutAll(t2, js) ==
  LET after[k \in 0..Len(js)] == IF k = 0 THEN t2 ELSE Put(after[k - 1], js[k])
  IN after[Len(js)]

\* The records that a list of jobs appends.
RecordsFrom(w, js) ==
  [i \in DOMAIN js |-> Record([w EXCEPT !.next = @ + i - 1], js[i])]

-----------------------------------------------------------------------------
(* The calls.  Each changes Tier 1 and the index, and then appends. *)

Idle == call = "none" /\ calls < MaxCalls

Begin(name, js) ==
  /\ jobs' = js /\ call' = (IF js = <<>> THEN "none" ELSE name)
  /\ calls' = calls + 1

\* take_spill_victims: the oldest pages, until what is left fits.
Victims(held, bytes) ==
  LET v == CHOOSE v \in 0..Len(held) :
             /\ v = Len(held) \/ bytes - v * PageSize <= DirtyLimit
             /\ \A u \in 0..(v - 1) : bytes - u * PageSize > DirtyLimit
  IN SubSeq(held, 1, v)

\* write_into of a page in Tier 1 or in neither tier, and the spill behind it.
WriteTier1(n, d) ==
  LET new   == n \notin Resident
      held  == IF new THEN Append(order, n) ELSE order
      bytes == IF new THEN dirtyBytes + PageSize ELSE dirtyBytes
      out   == Victims(held, bytes)
      buf   == Applied(IF new THEN Padded(<<>>) ELSE tier1[n], d)
      pages == [tier1 EXCEPT ![n] = buf]
      sizes == [size EXCEPT ![n] = Longer(@, Len(d))]
  IN /\ Idle /\ (new => ~InTier2(n))
     /\ dirty' = dirty \cup {n} /\ size' = sizes
     /\ tier1' = [m \in Names |-> IF m \in ToSet(out) THEN NoPage ELSE pages[m]]
     /\ order' = SubSeq(held, Len(out) + 1, Len(held))
     /\ dirtyBytes' = bytes - Len(out) * PageSize
     /\ Begin("write", [i \in DOMAIN out |->
                DataJob("spill", out[i], Clamp(pages[out[i]], sizes[out[i]]))])
     /\ content' = [content EXCEPT ![n] = Clamp(buf, sizes[n])]
     /\ UNCHANGED <<journal, marked, acked, flushed>>

\* write_into of a page that only Tier 2 has: a new record, and Tier 1 stays.
WriteTier2(n, d) ==
  /\ Idle /\ n \notin Resident /\ InTier2(n)
  /\ Begin("write", <<DataJob("hit", n,
            Clamp(Applied(Tier2Page(n), d), Longer(size[n], Len(d))))>>)
  /\ UNCHANGED <<diff, journal, history>>

\* retain of everything but the page of n.
Without(s, n) ==
  LET kept[k \in 0..Len(s)] ==
        IF k = 0 THEN <<>>
        ELSE IF s[k] = n THEN kept[k - 1] ELSE Append(kept[k - 1], s[k])
  IN kept[Len(s)]

\* Mutant: the bytes of the dropped page stay on the account.
Truncate_KeepBytes(n) ==
  /\ Idle
  /\ dirty' = dirty \cup {n} /\ size' = [size EXCEPT ![n] = 0]
  /\ tier1' = [tier1 EXCEPT ![n] = NoPage]
  /\ order' = Without(order, n)
  /\ dirtyBytes' = dirtyBytes
  /\ journal' = [journal EXCEPT !.index[n] = NoLoc]
  /\ Begin("truncate", <<ResizeJob(n, 0)>>)
  /\ content' = [content EXCEPT ![n] = <<>>]
  /\ UNCHANGED <<marked, acked, flushed>>

\* entry_truncate to nothing.
Truncate(n) ==
  /\ Idle
  /\ dirty' = dirty \cup {n} /\ size' = [size EXCEPT ![n] = 0]
  /\ tier1' = [tier1 EXCEPT ![n] = NoPage]
  /\ order' = Without(order, n)
  /\ dirtyBytes' = IF n \in Resident THEN dirtyBytes - PageSize ELSE dirtyBytes
  /\ journal' = [journal EXCEPT !.index[n] = NoLoc]
  /\ Begin("truncate", <<ResizeJob(n, 0)>>)
  /\ content' = [content EXCEPT ![n] = <<>>]
  /\ UNCHANGED <<marked, acked, flushed>>

\* Tier2::flush: a copy of each resident page, and a marker.
CopyJobs == [i \in DOMAIN order |->
               DataJob("copy", order[i], Clamp(tier1[order[i]], size[order[i]]))]

\* Mutant: the marker goes before the copies.
Flush_MarkerFirst ==
  /\ Idle /\ Begin("flush", <<MarkerJob>> \o CopyJobs)
  /\ UNCHANGED <<diff, journal, history>>

Flush ==
  /\ Idle /\ Begin("flush", Append(CopyJobs, MarkerJob))
  /\ UNCHANGED <<diff, journal, history>>

\* compact_journal, when should_compact_journal says so.
Live == Cardinality({n \in Names : InTier2(n)})
ShouldCompact ==
  LET dead == IF journal.records > Live THEN journal.records - Live ELSE 0
  IN dead > Live

CompactJournal ==
  /\ Idle /\ ShouldCompact /\ journal.writer.gen < MaxGen
  /\ Begin("compact", Append(CopyJobs, MarkerJob))
  /\ UNCHANGED <<diff, journal, history>>

-----------------------------------------------------------------------------
(* The next append of the call. *)

Job == jobs[1]
FlushReturns == call = "flush" /\ Tail(jobs) = <<>>

\* It succeeds, and with the last one the call.
AppendOk ==
  /\ jobs # <<>>
  /\ call = "compact" => Len(jobs) > 1
  /\ journal' = Put(journal, Job)
  /\ jobs' = Tail(jobs) /\ call' = IF Tail(jobs) = <<>> THEN "none" ELSE call
  /\ size' = IF Job.job = "hit" THEN [size EXCEPT ![Job.name] = Len(Job.data)] ELSE size
  /\ content' = IF Job.job = "hit" THEN [content EXCEPT ![Job.name] = Job.data] ELSE content
  /\ acked' = Append(acked, Record(journal.writer, Job))
  /\ marked' = IF Job.job = "marker" THEN {content} ELSE marked
  /\ flushed' = IF FlushReturns THEN Len(acked) + 1 ELSE flushed
  /\ UNCHANGED <<dirty, tier1, order, dirtyBytes, calls>>

\* It fails, and the call returns the error; the victims of a spill that were
\* not yet appended are in neither tier.
AppendFails(how) ==
  /\ jobs # <<>> /\ <<Job.job, how>> \in MayFail
  /\ how = "unsynced" => journal.writer.sync \/ Job.job = "marker"
  /\ LET rec == Record(journal.writer, Job)
         w   == journal.writer
     IN \E k \in (IF how = "short" THEN 1..(Size(rec) - 1) ELSE {0}) :
          /\ journal' = [journal EXCEPT !.writer =
               IF how = "unsynced" THEN AppendedUnsynced(w, rec)
               ELSE AppendedShort(w, rec, k)]
          /\ marked' = IF how = "unsynced" /\ Job.job = "marker" THEN marked \cup {content} ELSE marked
  /\ jobs' = <<>> /\ call' = "none"
  /\ UNCHANGED <<diff, calls, content, acked, flushed>>

\* A new journal of the given entries takes the place of the old one.
Rewritten(pages, rest, contents) ==
  LET fresh == NewTier2(journal.writer.gen + 1, journal.writer.sync)
      js    == RewriteJobs(pages, rest, contents)
  IN /\ journal' = PutAll(fresh, js)
     /\ acked' = RecordsFrom(fresh.writer, js) /\ flushed' = Len(js)
     /\ content' = contents /\ marked' = {contents}
     /\ jobs' = <<>> /\ call' = "none"

\* compact_journal behind its flush: the pages of both tiers, those of Tier 1 first.
CompactSwap ==
  /\ call = "compact" /\ Len(jobs) = 1
  /\ LET spilled == {n \in dirty \ Resident : InTier2(n)}
     IN \E more \in SetToSeqs(spilled), rest \in SetToSeqs((dirty \ Resident) \ spilled) :
          Rewritten(order \o more, rest, [n \in Names |-> Read(n)])
  /\ UNCHANGED <<diff, calls>>

-----------------------------------------------------------------------------
(* A crash at any moment, and the next open. *)

\* replay_recovered: by sequence number, and pages before operations.
Before(recs, i, j) ==
  \/ recs[i].seq < recs[j].seq
  \/ recs[i].seq = recs[j].seq /\ recs[i].kind = "data" /\ recs[j].kind = "meta"
  \/ recs[i].seq = recs[j].seq /\ recs[i].kind = recs[j].kind /\ i < j

ReplayRecord(contents, rec) ==
  [contents EXCEPT ![rec.name] =
     IF rec.kind = "data" THEN Clamp(Padded(rec.data), Longer(Len(@), Len(rec.data)))
     ELSE [i \in 1..rec.size |-> IF i <= Len(@) THEN @[i] ELSE 0]]

NothingWritten == [n \in Names |-> <<>>]

\* The contents after the records of recs that were chosen.
Replay(recs, chosen) ==
  LET after[S \in SUBSET chosen] ==
        IF S = {} THEN NothingWritten
        ELSE LET last == CHOOSE i \in S : \A j \in S \ {i} : Before(recs, j, i)
             IN ReplayRecord(after[S \ {last}], recs[last])
  IN after[chosen]

PagesOf(recs, chosen) == {recs[i].name : i \in {j \in chosen : recs[j].kind = "data"}}

\* A block that the disk had before: a record of another generation.
OldRecord == DataRecord(0, 1, "old", Padded(<<>>))

Images == CrashImages(journal.writer, OldRecord)

\* Nothing to recover is discarded; otherwise a handler answers RecoverCommitted,
\* as the default one does, or RecoverAll.
Recovered(recs) ==
  IF IsEmpty(recs) THEN {{}}
  ELSE {Committed(recs), Committed(recs) \cup Uncommitted(recs)}

\* The recovered pages are in Tier 1 and, by the flush of the open, in the new
\* journal; the pages that a truncate dropped are not.
CrashAndRecover ==
  /\ journal.writer.gen < MaxGen
  /\ \E recs \in {RecordsOf(img) : img \in Images} : \E chosen \in Recovered(recs) :
       LET names    == {recs[i].name : i \in chosen}
           contents == Replay(recs, chosen)
           paged    == {n \in PagesOf(recs, chosen) : contents[n] # <<>>}
       IN /\ dirty' = names
          /\ size' = [n \in Names |-> Len(contents[n])]
          /\ tier1' = [n \in Names |->
               IF n \in paged THEN Padded(contents[n]) ELSE NoPage]
          /\ dirtyBytes' = PageSize * Cardinality(paged)
          /\ \E fifo \in SetToSeqs(paged) : \E rest \in SetToSeqs(names \ paged) :
               order' = fifo /\ Rewritten(fifo, rest, contents)
  /\ UNCHANGED calls

-----------------------------------------------------------------------------
Init ==
  /\ dirty = {} /\ size = [n \in Names |-> 0]
  /\ tier1 = [n \in Names |-> NoPage] /\ order = <<>> /\ dirtyBytes = 0
  /\ journal \in {NewTier2(1, sync) : sync \in BOOLEAN}
  /\ jobs = <<>> /\ call = "none" /\ calls = 0
  /\ content = NothingWritten /\ marked = {NothingWritten}
  /\ acked = <<>> /\ flushed = 0

Next ==
  \/ \E n \in Names, d \in Writes : WriteTier1(n, d) \/ WriteTier2(n, d)
  \/ \E n \in Names : Truncate(n)
  \/ Flush \/ CompactJournal \/ AppendOk \/ CompactSwap
  \/ \E how \in Failures : AppendFails(how)
  \/ CrashAndRecover
  \/ call = "none" /\ UNCHANGED vars    \* the user may leave the mount alone

Spec == Init /\ [][Next]_vars

-----------------------------------------------------------------------------
(* Properties. *)

\* Between calls every entry reads as it was written, wherever its page lies:
\* the places that the writer returned are those in the file (read_dirty,
\* append_data_record and the position kept by append_raw).
ReadsNewest == call = "none" => \A n \in Names : Read(n) = content[n]

\* Tier 1 holds what its account says, its FIFO lists each page once, and after
\* a write it is within its limit (insert_page, take_spill_victims,
\* truncate_pages): a page that is forgotten by one of the three is never
\* spilled, or is spilled without being there.
TierOneAccounted ==
  /\ dirtyBytes = PageSize * Cardinality(Resident)
  /\ ToSet(order) = Resident /\ Len(order) = Cardinality(Resident)
  /\ call = "write" => dirtyBytes <= DirtyLimit

\* Whatever a crash does to what was not synced, the walk reaches every record
\* whose append succeeded under Sync, and every record up to the marker of the
\* last flush that returned Ok under Lazy (SyncPolicy, read_vmdirty); it
\* believes no record of another journal, and it calls no file with such records
\* empty, to be discarded without a question.
AckedSurvive ==
  LET safe == IF journal.writer.sync THEN Len(acked) ELSE flushed
      own  == journal.writer.gen
  IN \A img \in Images :
       LET recs == RecordsOf(img) IN
       /\ \A i \in 1..safe : acked[i] \in ToSet(recs)
       /\ \A r \in ToSet(recs) : r.gen = own
       /\ IsEmpty(recs) => \A i \in 1..safe : acked[i].kind = "marker"

\* Recovering what is committed shows what the last flush that returned Ok
\* promised, or what a later one wrote its marker for (flush, read_vmdirty,
\* replay_recovered): no record is committed too early or too late.
RecoversFlushed ==
  \A img \in Images : LET recs == RecordsOf(img)
                      IN Replay(recs, Committed(recs)) \in marked

\* A journal is compacted only when most of the records in it are dead
\* (data_records, should_compact).
CompactsDeadOnly ==
  LET w == journal.writer
      live == {journal.index[n] : n \in {m \in Names : InTier2(m)}}
      dead == {i \in DOMAIN w.file :
                 /\ w.file[i].cell = "head" /\ w.file[i].rec.kind = "data"
                 /\ \A l \in live : l.offset # i + 1}
  IN /\ journal.records >= Cardinality(live)
     /\ journal.records - Cardinality(live) <= Cardinality(dead)
=============================================================================

------------------------------- MODULE SeekIndex -------------------------------
(***************************************************************************)
(* The index of an archive, vmidx: its records in the order of the hashes  *)
(* of their names, each with a chain of chunks of checkpoints; how it is    *)
(* built, looked up, and taken from the sidecar or built again.            *)
(*                                                                         *)
(* A header, record or chunk carries a CRC: ok says whether it is right.    *)
(* The header's is checked when the index is opened, the others when they   *)
(* are touched; the names have none.  The hash of the directory is the      *)
(* directory itself.                                                        *)
(***************************************************************************)
EXTENDS ZipArchive

CONSTANT NameHash     \* hash_name

ASSUME IndexAssumption == NameHash \in [Names -> Nat]

NoImage == [exists |-> FALSE]

\* What an index can hold: any records and chunks, whose numbers are unsigned and
\* whose places are in the index.
CheckpointOk(cp) == {cp.at, cp.off} \subseteq Nat /\ AnySeq(cp.window)
ChunkOk(c, chunks) ==
  /\ c.next \in 0..Len(chunks)
  /\ AnySeq(c.cps) /\ \A k \in 1..Len(c.cps) : CheckpointOk(c.cps[k])
RecordOk(r, chunks) == {r.data, r.comp, r.uncomp} \subseteq Nat /\ r.head \in 0..Len(chunks)
ImageOk(image) ==
  image.exists =>
    /\ AnySeq(image.recs) /\ \A i \in 1..Len(image.recs) : RecordOk(image.recs[i], image.chunks)
    /\ AnySeq(image.chunks)
    /\ \A k \in 1..Len(image.chunks) : ChunkOk(image.chunks[k], image.chunks)
NoName == -1

Record(zip, e) ==
  [hash |-> NameHash[e.name], name |-> e.name, ok |-> TRUE, method |-> e.method,
   data |-> DataOffset(zip, e), comp |-> e.comp, uncomp |-> e.uncomp, head |-> 0]

Before(r, s) == r.hash < s.hash \/ (r.hash = s.hash /\ r.name < s.name)
Inserted(recs, r) ==
  InsertAt(recs, Cardinality({i \in 1..Len(recs) : ~Before(r, recs[i])}) + 1, r)
Sorted(recs) ==
  LET upto[n \in 0..Len(recs)] == IF n = 0 THEN <<>> ELSE Inserted(upto[n - 1], recs[n])
  IN upto[Len(recs)]

\* The chunk that serialize writes for an entry, none when it has no checkpoints.
Chunk(cps, next) == [ok |-> TRUE, cps |-> cps, next |-> next]

\* VmidxBuilder::serialize: the records sorted, each given the place of its chunk.
Chunks(cps, n) ==
  FlattenSeq([i \in 1..n |-> IF cps[i] = <<>> THEN <<>> ELSE <<Chunk(cps[i], 0)>>])
Headed(rec, cps, i) ==
  [rec EXCEPT !.head = IF cps[i] = <<>> THEN 0 ELSE Len(Chunks(cps, i))]
Serialize(zip, recs, cps) ==
  [exists |-> TRUE, ok |-> TRUE, cd |-> CdBlock(zip),
   recs |-> Sorted([i \in 1..Len(recs) |-> Headed(recs[i], cps, i)]),
   chunks |-> Chunks(cps, Len(recs))]

\* map_record of every entry: it fails where a local header is wrong.
Records(zip, es) == [i \in 1..Len(es) |-> Record(zip, es[i])]
AllMapped(recs) == \A r \in ToSet(recs) : r.data # NoData

\* build_vmidx_image: no checkpoints.
MetadataOnly(zip) ==
  LET Image(recs) == Serialize(zip, recs, [i \in 1..Len(recs) |-> <<>>])
  IN Image(Records(zip, Parse(zip).entries))

\* build_vmidx_eager: one entry whose checkpoints fail makes the whole build fail.
Checkpoints(zip, e) ==
  IF ProviderOf(e.method) = "Deflate" THEN BuildCheckpoints(EntryData(zip, e), e.uncomp)
  ELSE [failed |-> FALSE, cps |-> <<>>]
Eager(zip) ==
  LET Image(recs, built) ==
        IF ~AllMapped(recs) \/ \E b \in ToSet(built) : b.failed THEN NoImage
        ELSE Serialize(zip, recs, [i \in 1..Len(recs) |-> built[i].cps])
      Of(es) == Image(Records(zip, es), [i \in 1..Len(es) |-> Checkpoints(zip, es[i])])
  IN Of(Parse(zip).entries)

-----------------------------------------------------------------------------
(* Opening. *)

\* resolve_index: the sidecar's index if its header is right and it is of this
\* directory, and a new one otherwise.  Whether its size and inode are those of
\* the archive makes the verdict Valid or ValidStale, and no difference here.
Usable(image, zip) ==
  /\ image.exists
  /\ IF image.exists THEN image.ok /\ image.cd = CdBlock(zip) ELSE FALSE
ResolveIndex(image, zip) == IF Usable(image, zip) THEN image ELSE Eager(zip)

-----------------------------------------------------------------------------
(* Lookup. *)

\* By bisection, over hashes that no CRC has been checked of.
Middle(s) == s.lo + (s.hi - s.lo) \div 2
Halved(recs, h, s) ==
  IF s.lo >= s.hi THEN s
  ELSE IF recs[Middle(s) + 1].hash < h THEN [lo |-> Middle(s) + 1, hi |-> s.hi]
  ELSE [lo |-> s.lo, hi |-> Middle(s)]
LowerBound(recs, h) ==
  LET after[n \in 0..Len(recs)] ==
        IF n = 0 THEN [lo |-> 0, hi |-> Len(recs)] ELSE Halved(recs, h, after[n - 1])
  IN after[Len(recs)].lo

Found(i)  == [err |-> "none", at |-> i]
NotThere  == Found(0)
LookupErr == [err |-> "vmidx", at |-> 0]

\* Vmidx::lookup: through the records of the same hash.
StopsAt(r, name) == r.hash # NameHash[name] \/ ~r.ok \/ r.name = name
Stop(r, name, i) ==
  IF r.hash # NameHash[name] THEN NotThere ELSE IF ~r.ok THEN LookupErr ELSE Found(i)
Lookup(image, name) ==
  LET recs  == image.recs
      first == LowerBound(recs, NameHash[name]) + 1
      ends  == {i \in first..Len(recs) : StopsAt(recs[i], name)}
  IN IF ends = {} THEN NotThere ELSE Stop(recs[Min(ends)], name, Min(ends))

\* nearest_checkpoint: the last one at or below target on the whole chain, which
\* is no longer than there are chunks.
Better(best, cps, target) ==
  LET below == {k \in 1..Len(cps) : cps[k].off <= target} IN
  IF below = {} THEN best
  ELSE IF cps[Max(below)].off >= best.off THEN cps[Max(below)] ELSE best
Visited(st, chunk, target) ==
  IF ~chunk.ok THEN [st EXCEPT !.err = "vmidx"]
  ELSE [st EXCEPT !.at = chunk.next, !.best = Better(@, chunk.cps, target)]
Visit(st, chunks, target) ==
  IF st.at = 0 \/ st.err # "none" THEN st ELSE Visited(st, chunks[st.at], target)
EndOfChain(st) == IF st.err = "none" /\ st.at # 0 THEN [st EXCEPT !.err = "vmidx"] ELSE st
Nearest(image, head, target) ==
  LET start == [err |-> "none", at |-> head, best |-> NoCheckpoint]
      after[n \in 0..Len(image.chunks)] ==
        IF n = 0 THEN start ELSE Visit(after[n - 1], image.chunks, target)
  IN EndOfChain(after[Len(image.chunks)])

\* A part of the data of record rec, from the nearest checkpoint.
ReadFrom(zip, near, rec, off, len) ==
  IF ProviderOf(rec.method) \notin Builtin THEN Err("unsupported")
  ELSE IF near.err # "none" THEN Err(near.err)
  ELSE IF rec.data + rec.comp > Len(zip) THEN Err("outside")
  ELSE ReadRange(rec.method, CellsFrom(zip, rec.data, rec.comp), near.best, off, len, rec.uncomp)
ReadRecord(zip, image, rec, off, len) ==
  ReadFrom(zip, Nearest(image, rec.head, off), rec, off, len)

\* read_entry.
ReadFound(zip, image, found, off, len) ==
  IF found.err # "none" THEN Err(found.err)
  ELSE IF found = NotThere THEN Err("notfound")
  ELSE ReadRecord(zip, image, image.recs[found.at], off, len)
ReadEntry(zip, image, name, off, len) ==
  ReadFound(zip, image, Lookup(image, name), off, len)

-----------------------------------------------------------------------------
(* What else a sidecar may hold. *)

\* The index of another writer: every checkpoint in a chunk of its own, the last
\* of an entry first.
Split(image) ==
  LET list == [r \in 1..Len(image.recs) |->
                 IF image.recs[r].head = 0 THEN <<>>
                 ELSE Reverse(image.chunks[image.recs[r].head].cps)]
      start[r \in 1..(Len(list) + 1)] ==
        IF r = 1 THEN 0 ELSE start[r - 1] + Len(list[r - 1])
      all == FlattenSeq([r \in 1..Len(list) |->
               [k \in 1..Len(list[r]) |->
                  Chunk(<<list[r][k]>>, IF k = Len(list[r]) THEN 0 ELSE start[r] + k + 1)]])
  IN [image EXCEPT
        !.chunks = all,
        !.recs = [r \in 1..Len(@) |->
                    [@[r] EXCEPT !.head = IF list[r] = <<>> THEN 0 ELSE start[r] + 1]]]

\* Bytes changed in one of its regions.
Damaged(image) ==
  {[image EXCEPT !.ok = FALSE]}
    \cup UNION {{[image EXCEPT !.recs[i].ok = FALSE],
                 [image EXCEPT !.recs[i].ok = FALSE, !.recs[i].hash = @ + 1],
                 [image EXCEPT !.recs[i].name = NoName]} : i \in 1..Len(image.recs)}
    \cup {[image EXCEPT !.chunks[k].ok = FALSE] : k \in 1..Len(image.chunks)}
===============================================================================

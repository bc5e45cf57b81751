------------------------------ MODULE Vmdirty ------------------------------
(***************************************************************************)
(* The journal file vmdirty: its records, the writer that appends them and *)
(* the walk that reads them back after a crash.                            *)
(*                                                                         *)
(* A file is a sequence of cells.  A record is a head (its magic and       *)
(* fields), a cell for each byte of its data, and a CRC, which matches     *)
(* nothing but the record it was computed from.                            *)
(***************************************************************************)
EXTENDS Naturals, Sequences

CONSTANTS
  PageSize       \* bytes of a page

ASSUME VmdirtyAssumption == PageSize \in Nat \ {0}

FormatVersion == 1
OpCodes == {"Create", "Remove", "Resize", "Rename"}

Header(gen) == [kind |-> "header", gen |-> gen, version |-> FormatVersion]
DataRecord(gen, seq, name, data) ==
  [kind |-> "data", gen |-> gen, seq |-> seq, name |-> name, data |-> data]
MetadataRecord(gen, seq, name, op, size) ==
  [kind |-> "meta", gen |-> gen, seq |-> seq, name |-> name, op |-> op, size |-> size]
CommitMarker(gen, seq) == [kind |-> "marker", gen |-> gen, commit |-> seq]

HeadCell(rec) == [cell |-> "head", rec |-> rec]
ByteCell(b)   == [cell |-> "byte", byte |-> b]
CrcCell(rec)  == [cell |-> "crc", rec |-> rec]
Junk      == [cell |-> "junk"]

Data(rec) == IF rec.kind = "data" THEN rec.data ELSE <<>>
Size(rec) == Len(Data(rec)) + 2
Encode(rec) ==
  [i \in 1..Size(rec) |->
     CASE i = 1         -> HeadCell(rec)
       [] i = Size(rec) -> CrcCell(rec)
       [] OTHER         -> ByteCell(Data(rec)[i - 1])]

-----------------------------------------------------------------------------
(* The writer: its generation, its SyncPolicy (is every record synced, or   *)
(* only a marker?), the file, how much of it is on the disk whatever        *)
(* happens, the offset at which the writer believes the next record to      *)
(* begin, and the sequence number of that record.                           *)

NewWriter(gen, sync) ==
  [gen |-> gen, sync |-> sync, file |-> Encode(Header(gen)), durable |-> Size(Header(gen)),
   pos |-> Size(Header(gen)) + 1, next |-> 1]

LastSequence(w) == w.next - 1

\* Mutant: a marker is written past append_raw.
Appended_MarkerBypass(w, rec, force) ==
  LET file == w.file \o Encode(rec) IN
  [w EXCEPT !.file = file, !.pos = IF force THEN @ ELSE @ + Size(rec),
            !.durable = IF force \/ w.sync THEN Len(file) ELSE @]

\* append_raw of a record that succeeds.
Appended(w, rec, force) ==
  LET file == w.file \o Encode(rec) IN
  [w EXCEPT !.file = file, !.pos = @ + Size(rec),
            !.durable = IF force \/ w.sync THEN Len(file) ELSE @]

\* append_raw that fails: write_all writes n cells less than the record has, or
\* all of them and sync_data fails.
AppendedShort(w, rec, n) == [w EXCEPT !.file = @ \o SubSeq(Encode(rec), 1, n)]
AppendedUnsynced(w, rec) ==
  [w EXCEPT !.file = @ \o Encode(rec), !.pos = @ + Size(rec)]

\* The sequence number is used up when append_raw succeeds.
Numbered(w) == [w EXCEPT !.next = @ + 1]

\* DataLoc: the data follow the head.
Loc(w, data) == [offset |-> w.pos + 1, len |-> Len(data)]

\* read_page_at: the data, padded to a page; no page behind the end of the file.
\* The bytes of heads and CRCs are no bytes of any page.
NoPage  == <<>>
NotData == 256
ReadPageAt(file, loc) ==
  IF loc.offset + loc.len - 1 > Len(file) THEN NoPage
  ELSE [i \in 1..PageSize |->
          IF i > loc.len THEN 0
          ELSE LET c == file[loc.offset + i - 1]
               IN IF c.cell = "byte" THEN c.byte ELSE NotData]

-----------------------------------------------------------------------------
(* The recovery walk. *)

HeaderStatus(file) ==
  IF Len(file) < Size(Header(0)) THEN "HeaderTruncated"
  ELSE IF file[1].cell # "head" THEN "HeaderMagicBad"
  ELSE IF file[1].rec.kind # "header" THEN "HeaderMagicBad"
  ELSE IF file[2] # CrcCell(file[1].rec) THEN "HeaderCrcBad"
  ELSE IF file[1].rec.version > FormatVersion THEN "VersionUnsupported"
  ELSE "Ok"

\* Mutant: records of another generation are believed.
IntactAt_AnyGen(file, gen, start) ==
  /\ file[start].cell = "head"
  /\ LET rec == file[start].rec IN
       /\ rec.kind \in {"data", "meta", "marker"}
       /\ rec.kind = "meta" => rec.op \in OpCodes
       /\ Len(Data(rec)) <= PageSize
       /\ start + Size(rec) - 1 <= Len(file)
       /\ SubSeq(file, start, start + Size(rec) - 1) = Encode(rec)

\* Is there a whole record of this generation at start?
IntactAt(file, gen, start) ==
  /\ file[start].cell = "head"
  /\ LET rec == file[start].rec IN
       /\ rec.kind \in {"data", "meta", "marker"} /\ rec.gen = gen
       /\ rec.kind = "meta" => rec.op \in OpCodes
       /\ Len(Data(rec)) <= PageSize
       /\ start + Size(rec) - 1 <= Len(file)
       /\ SubSeq(file, start, start + Size(rec) - 1) = Encode(rec)

\* The records from each start up to the first that is not intact, markers among
\* them.
Walk(file) ==
  LET gen == file[1].rec.gen
      from[start \in 3..(Len(file) + 1)] ==
        IF start > Len(file) \/ ~IntactAt(file, gen, start) THEN <<>>
        ELSE <<file[start].rec>> \o from[start + Size(file[start].rec)]
  IN from

RecordsOf(file) == IF HeaderStatus(file) = "Ok" THEN Walk(file)[3] ELSE <<>>

Markers(recs) == {i \in DOMAIN recs : recs[i].kind = "marker"}

\* last_commit_seq: that of the last marker, 0 without one.
LastCommit(recs) ==
  IF Markers(recs) = {} THEN 0
  ELSE recs[CHOOSE i \in Markers(recs) : \A j \in Markers(recs) : i >= j].commit

\* The committed and the uncommitted records, by their places in the walk.
Committed(recs) ==
  {i \in DOMAIN recs \ Markers(recs) : recs[i].seq <= LastCommit(recs)}
Uncommitted(recs) ==
  {i \in DOMAIN recs \ Markers(recs) : recs[i].seq > LastCommit(recs)}

\* is_empty: there is nothing to recover, and the file is given up in silence.
IsEmpty(recs) ==
  LastCommit(recs) = 0 /\ Committed(recs) = {} /\ Uncommitted(recs) = {}

-----------------------------------------------------------------------------
(* A crash: what was synced stays, the rest of the file is cut anywhere, and *)
(* behind the cut there is nothing, garbage, or an old record of the disk's. *)

CrashImages(w, old) ==
  {SubSeq(w.file, 1, n) \o tail :
     n \in w.durable..Len(w.file), tail \in {<<>>, <<Junk>>, Encode(old)}}
=============================================================================

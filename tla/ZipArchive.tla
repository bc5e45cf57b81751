------------------------------ MODULE ZipArchive ------------------------------
(***************************************************************************)
(* The archive file: how it is parsed, and how a commit lays out a new one. *)
(*                                                                         *)
(* A file is a sequence of cells: a local header, a cell of its extra       *)
(* field, a cell of compressed data, a data descriptor, a record of the     *)
(* central directory, the end record, a cell of the comment.  An offset     *)
(* counts the cells before it.                                              *)
(***************************************************************************)
EXTENDS Providers

CONSTANTS
  Names,     \* the names of entries, numbers in the order of their bytes
  U32Max,    \* the largest value of a 32-bit field
  U16Max     \* the largest value of a 16-bit field

ASSUME ZipAssumption ==
  Names \subseteq Nat /\ IsFiniteSet(Names) /\ U32Max \in Nat /\ U16Max \in Nat

Lfh(name, extra) == [cell |-> "lfh", name |-> name, extra |-> extra]
Pad        == [cell |-> "pad"]
Descriptor == [cell |-> "descriptor"]
Eocd(count, size, offset, comment) ==
  [cell |-> "eocd", disk |-> 0, count |-> count, cdSize |-> size,
   cdOffset |-> offset, comment |-> comment]
Eocd64(count, size, offset) ==
  [cell |-> "eocd64", disk |-> 0, count |-> count, cdSize |-> size, cdOffset |-> offset]
Locator(at) == [cell |-> "locator", at |-> at]

At(zip, off) == IF off < Len(zip) THEN zip[off + 1] ELSE [cell |-> "end"]

\* What a file can hold: any cells in any order, whose fields are unsigned numbers.
CdRecord(c) ==
  /\ c = [cell |-> "cdfh", name |-> c.name, method |-> c.method, flags |-> c.flags,
          crc |-> c.crc, comp |-> c.comp, uncomp |-> c.uncomp, lho |-> c.lho,
          z64 |-> c.z64, meta |-> c.meta]
  /\ c.name \in Names /\ {c.comp, c.uncomp, c.lho} \subseteq Nat /\ c.z64 \in Seq(Nat)
CellOk(c) ==
  /\ c.cell = "lfh" => c.extra \in Nat
  /\ c.cell = "cdfh" => CdRecord(c)
  /\ c.cell \in {"eocd", "eocd64"} => {c.count, c.cdSize, c.cdOffset} \subseteq Nat
  /\ c.cell = "locator" => c.at \in Nat
  /\ c.cell = "block" => c = Block(c.syms, c.final) /\ AnySeq(c.syms)
CellsOk(zip) == AnySeq(zip) /\ \A i \in 1..Len(zip) : CellOk(zip[i])

-----------------------------------------------------------------------------
(* Parsing. *)

Refused == [ok |-> FALSE]

\* find_eocd: from the back, the first end record whose comment ends the file.
NoEocd == -1
LastOf(offsets) ==
  IF offsets = {} THEN NoEocd ELSE CHOOSE o \in offsets : \A p \in offsets : p <= o
EndsFile(zip, o, cell) ==
  cell.cell = "eocd" /\ o + U16Max >= Len(zip) - 1 /\ o + 1 + cell.comment = Len(zip)
FindEocd(zip) == LastOf({o \in 0..(Len(zip) - 1) : EndsFile(zip, o, At(zip, o))})

\* parse_zip64_locator: the Zip64 end record where it says, and nothing else.
Eocd64Or(cell) == IF cell.cell = "eocd64" THEN cell ELSE Pad
Eocd64At(zip, loc) == IF loc.cell = "locator" THEN Eocd64Or(At(zip, loc.at)) ELSE Pad

\* The record with the values: that of Zip64 where one does not fit.
IsWide(r) ==
  r.cdSize = U32Max \/ r.cdOffset = U32Max \/ r.count = U16Max \/ r.disk = U16Max
EndRecord(zip, e) ==
  IF ~IsWide(At(zip, e)) THEN At(zip, e)
  ELSE IF e > 0 THEN Eocd64At(zip, At(zip, e - 1)) ELSE Pad

\* Where the directory is: [ok, offset, size, count].
DirectoryOf(d, len) ==
  IF d.cell \notin {"eocd", "eocd64"} THEN Refused
  ELSE IF d.disk # 0 \/ d.cdOffset + d.cdSize > len THEN Refused
  ELSE [ok |-> TRUE, offset |-> d.cdOffset, size |-> d.cdSize, count |-> d.count]
Directory(zip, e) ==
  IF e = NoEocd THEN Refused ELSE DirectoryOf(EndRecord(zip, e), Len(zip))

\* parse_zip64_extra: in this order, the fields that do not fit, and no others.
NotWidened == <<>>
WidenedBy(fields, z64) ==
  LET place(k) == Cardinality({j \in 1..k : fields[j] = U32Max}) IN
  IF place(3) > Len(z64) THEN NotWidened
  ELSE [k \in 1..3 |-> IF fields[k] = U32Max THEN z64[place(k)] ELSE fields[k]]
Widened(rec) == WidenedBy(<<rec.uncomp, rec.comp, rec.lho>>, rec.z64)

\* parse_cd: count records, all of them within the directory.
EntryOf(rec, wide) ==
  [name |-> rec.name, method |-> rec.method, flags |-> rec.flags, crc |-> rec.crc,
   uncomp |-> wide[1], comp |-> wide[2], lho |-> wide[3], record |-> rec]
Readable(rec) == IF rec.cell = "cdfh" THEN Widened(rec) # NotWidened ELSE FALSE
ParseCd(dir, recs) ==
  IF dir.count > dir.size THEN Refused
  ELSE IF \E i \in 1..dir.count : ~Readable(recs[i]) THEN Refused
  ELSE [ok |-> TRUE, dir |-> dir,
        entries |-> [i \in 1..dir.count |-> EntryOf(recs[i], Widened(recs[i]))]]

\* Archive::parse.
ParseAt(zip, dir) ==
  IF ~dir.ok THEN Refused
  ELSE ParseCd(dir, [i \in 1..dir.size |-> At(zip, dir.offset + i - 1)])
Parse(zip) == ParseAt(zip, Directory(zip, FindEocd(zip)))

\* Archive::cd_block, what the fingerprint is a hash of.
CdBlock(zip) ==
  LET Cells(dir) == SubSeq(zip, dir.offset + 1, dir.offset + dir.size)
  IN Cells(Parse(zip).dir)

\* Archive::data_offset: behind the local header, as long as that one says it is.
NoData == -1
DataOffset(zip, e) ==
  LET h == At(zip, e.lho)
  IN IF h.cell # "lfh" THEN NoData
     ELSE IF e.lho + 1 + h.extra + e.comp > Len(zip) THEN NoData
     ELSE e.lho + 1 + h.extra

CellsFrom(zip, at, count) == SubSeq(zip, at + 1, at + count)
EntryData(zip, e) == CellsFrom(zip, DataOffset(zip, e), e.comp)

-----------------------------------------------------------------------------
(* The layout of a commit.  A piece is one entry of the new archive: the     *)
(* cells that are written for it, and its record, which is given its place   *)
(* unless the entry stays where it is.                                       *)

\* The CRC of a content stands for the content.
Synth(name, method, content, stored) ==
  [cell |-> "cdfh", name |-> name, method |-> method, flags |-> 0, crc |-> content,
   comp |-> Len(stored), uncomp |-> Len(content), lho |-> 0, z64 |-> <<>>, meta |-> "none"]

Piece(cells, record, stays) == [cells |-> cells, record |-> record, stays |-> stays]

\* write_placed: a plain local header and a record made anew.
Placed(name, method, content, stored) ==
  Piece(<<Lfh(name, 0)>> \o stored, Synth(name, method, content, stored), FALSE)

\* An unchanged entry under a record made anew: what its directory record says.
CopiedData(e, name, data) ==
  Piece(<<Lfh(name, 0)>> \o data,
        [Synth(name, e.method, e.crc, data) EXCEPT !.uncomp = e.uncomp], FALSE)
Copied(zip, e, name) ==
  IF DataOffset(zip, e) = NoData THEN Refused
  ELSE CopiedData(e, name, EntryData(zip, e))

\* place_verbatim: header, data and record as they are.  Where the record says
\* that its offset is in the extra field, no other offset can be written.
VerbatimEligible(e) == e.flags # 8
Verbatim(zip, e) ==
  IF e.record.lho = U32Max \/ DataOffset(zip, e) = NoData THEN Refused
  ELSE Piece(SubSeq(zip, e.lho + 1, DataOffset(zip, e) + e.comp), e.record, FALSE)

\* record_in_place.
InPlace(e) ==
  IF e.lho > U32Max \/ e.comp > U32Max \/ e.uncomp > U32Max THEN Refused
  ELSE Piece(<<>>, [e.record EXCEPT !.lho = e.lho], TRUE)

\* The pieces behind each other from base on, the directory, the end record.
Finished(base, body, cd) ==
  IF \/ base + Len(body) > U32Max \/ Len(cd) > U32Max \/ Len(cd) > U16Max
     \/ \E r \in ToSet(cd) : r.comp > U32Max \/ r.uncomp > U32Max
  THEN Refused
  ELSE [ok |-> TRUE, cells |-> body \o cd \o <<Eocd(Len(cd), Len(cd), base + Len(body), 0)>>]
Body(pieces, n) == FlattenSeq([i \in 1..n |-> pieces[i].cells])
RecordAt(p, offset) == [p.record EXCEPT !.lho = IF p.stays THEN @ ELSE offset]
PlacedRecords(base, pieces) ==
  [i \in 1..Len(pieces) |-> RecordAt(pieces[i], base + Len(Body(pieces, i - 1)))]
Laid(base, pieces) ==
  IF \E i \in 1..Len(pieces) : pieces[i] = Refused THEN Refused
  ELSE Finished(base, Body(pieces, Len(pieces)), PlacedRecords(base, pieces))

\* appended_cd_block: the directory that an appended part ends with.
AppendedCdBlock(cells, base) ==
  LET e == cells[Len(cells)]
  IN SubSeq(cells, e.cdOffset - base + 1, e.cdOffset - base + e.cdSize)
=============================================================================

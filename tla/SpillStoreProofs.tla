--------------------------- MODULE SpillStoreProofs ---------------------------
(***************************************************************************)
(* The two tiers: Tier 1 is accounted for, compactions drop dead records,  *)
(* what was acknowledged survives every crash, and what is read is what    *)
(* was written last.                                                       *)
(***************************************************************************)
EXTENDS SpillStore, VmdirtyProofs, FiniteSetTheorems

-----------------------------------------------------------------------------
(* Lists of the members of a set. *)

\* The members of a sequence.
LEMMA ToSetOf ==
  ASSUME NEW s, IsSeq(s) PROVE ToSet(s) = {s[i] : i \in 1..Len(s)}
BY DEF ToSet, IsSeq

\* A listing of a finite set has every member once.
LEMMA ListOf ==
  ASSUME NEW S, IsFiniteSet(S), NEW f \in SetToSeqs(S)
  PROVE  /\ IsSeq(f) /\ Len(f) = Cardinality(S) /\ Len(f) \in Nat
         /\ \A i \in 1..Len(f) : f[i] \in S
         /\ \A i, j \in 1..Len(f) : f[i] = f[j] => i = j
         /\ \A x \in S : \E i \in 1..Len(f) : f[i] = x
<1>. DEFINE k == Cardinality(S)
            D == 1..k
<1>1. k \in Nat
  BY FS_CardinalityType
<1>2. f \in [D -> S] /\ \A i, j \in D : i # j => f[i] # f[j]
  BY DEF SetToSeqs
<1>3. IsFiniteSet(D) /\ Cardinality(D) = k
  <2>1. IsFiniteSet(1..k) /\ Cardinality(1..k) = IF 1 > k THEN 0 ELSE k - 1 + 1
    BY <1>1, FS_Interval
  <2>. QED
    BY <1>1, <2>1
<1>4. f \in Injection(D, S)
  BY <1>2 DEF Injection, IsInjective
<1>5. f \in Surjection(D, S)
  BY <1>3, <1>4, FS_Injection
<1>6. \A x \in S : \E i \in D : f[i] = x
  BY <1>5 DEF Surjection
<1>. HIDE DEF k
<1>7. Len(f) = k /\ f = [i \in 1..k |-> f[i]]
  BY <1>1, <1>2
<1>. QED
  BY <1>1, <1>2, <1>6, <1>7 DEF IsSeq, k

-----------------------------------------------------------------------------
(* Types. *)

\* May an append write a part of its record?
ShortWrites == \E j \in Jobs : <<j, "short">> \in MayFail

\* What a byte of a page may be: behind a short write the place of a page is
\* wrong, and a head or a CRC is read for a byte.
Byte    == IF ShortWrites THEN Values \cup {NotData} ELSE Values
Parts   == UNION {[1..k -> Byte] : k \in 0..PageSize}
Places  == [offset : Nat, len : 0..PageSize]

RecordOk(rec) ==
  /\ rec.kind = "data" => rec.name \in Names /\ rec.seq \in Nat /\ rec.data \in Parts
  /\ rec.kind = "meta" => /\ rec.name \in Names /\ rec.seq \in Nat
                          /\ rec.size \in 0..PageSize /\ rec.op \in OpCodes
  /\ rec.kind = "marker" => rec.commit \in Nat

JobOk(j) ==
  /\ j.job \in Jobs
  /\ j.job = "resize" => j.name \in Names /\ j.size \in 0..PageSize
  /\ IsData(j) => j.name \in Names /\ j.data \in Parts

CellOk(c) ==
  /\ c.cell = "head" => RecordOk(c.rec)
  /\ c.cell = "byte" => c.byte \in Byte

FileOk(file, gen) ==
  /\ IsSeq(file) /\ Len(file) >= 2
  /\ file[1] = HeadCell(Header(gen)) /\ \A i \in 1..Len(file) : CellOk(file[i])

WriterOk(w) ==
  /\ w = [gen |-> w.gen, sync |-> w.sync, file |-> w.file, durable |-> w.durable,
          pos |-> w.pos, next |-> w.next]
  /\ w.gen \in Nat \ {0} /\ w.sync \in BOOLEAN /\ FileOk(w.file, w.gen)
  /\ w.durable \in 2..Len(w.file) /\ w.next \in Nat \ {0}
  /\ w.pos \in 3..(Len(w.file) + 1) /\ (~ShortWrites => w.pos = Len(w.file) + 1)

\* A place in the file; that of data, when no write was short.
PlaceOk(file, loc) ==
  /\ loc \in Places /\ loc.offset + loc.len - 1 <= Len(file)
  /\ loc.len > 0 => loc.offset > 0
  /\ ~ShortWrites => \A i \in 1..loc.len : file[loc.offset + i - 1].cell = "byte"

Tier2Ok(t2) ==
  /\ t2 = [writer |-> t2.writer, index |-> t2.index, records |-> t2.records]
  /\ WriterOk(t2.writer) /\ t2.index \in [Names -> Places] /\ t2.records \in Nat
  /\ \A n \in Names : PlaceOk(t2.writer.file, t2.index[n])

\* Order lists the entries that have a page, each once.
Fifo(pages, ord) ==
  /\ IsSeq(ord) /\ \A i \in 1..Len(ord) : ord[i] \in Names
  /\ \A i, j \in 1..Len(ord) : ord[i] = ord[j] => i = j
  /\ \A n \in Names : pages[n] # NoPage <=> \E i \in 1..Len(ord) : ord[i] = n

Calls == {"none", "write", "truncate", "flush", "compact"}

Tier1Inv ==
  /\ dirty \subseteq Names /\ size \in [Names -> 0..PageSize]
  /\ tier1 \in [Names -> [1..PageSize -> Byte] \cup {NoPage}]
  /\ Fifo(tier1, order) /\ dirtyBytes = PageSize * Len(order)
  /\ call = "write" => dirtyBytes <= DirtyLimit

JobsInv ==
  /\ IsSeq(jobs) /\ \A i \in 1..Len(jobs) : JobOk(jobs[i])
  /\ call \in Calls /\ (call = "none" <=> jobs = <<>>)

HistoryInv ==
  /\ {content} \cup marked \subseteq [Names -> Parts]
  /\ IsSeq(acked) /\ flushed \in 0..Len(acked)

\* The appends of a call, and the pages that they are of.
JobsFit ==
  /\ call = "write" => \A i \in 1..Len(jobs) : jobs[i].job \in {"spill", "hit"}
  /\ call = "truncate" => \A i \in 1..Len(jobs) : jobs[i].job = "resize"
  /\ call \in {"flush", "compact"} =>
       /\ jobs[Len(jobs)] = MarkerJob
       /\ \A i \in 1..(Len(jobs) - 1) :
            jobs[i].job = "copy" /\ tier1[jobs[i].name] # NoPage

\* Recovered pages may be more than Tier 1 has room for; none is in Tier 2 only.
SpilledFit ==
  dirtyBytes > DirtyLimit => \A n \in Names : InTier2(n) => tier1[n] # NoPage

TypeInv ==
  /\ Tier1Inv /\ Tier2Ok(journal) /\ JobsInv /\ HistoryInv
  /\ JobsFit /\ SpilledFit

-----------------------------------------------------------------------------
(* Bytes and pages. *)

\* The bytes that are written are bytes, and so is 0.
LEMMA ValuesAreBytes ==
  /\ 0 \in Byte /\ Values \subseteq Byte
  /\ ~ShortWrites => Byte = Values
  /\ ShortWrites => NotData \in Byte
BY DEF Byte, Values

\* What is written is a part of a page.
LEMMA WritesAreParts ==
  ASSUME NEW d \in Writes
  PROVE  IsSeq(d) /\ Len(d) \in 1..PageSize /\ \A i \in 1..Len(d) : d[i] \in Byte
<1>1. d \in Seq(0..255) /\ Len(d) \in 1..PageSize
  BY SpillAssumption
<1>2. IsSeq(d)
  BY <1>1, SeqIsSeq
<1>3. ToSet(d) \subseteq Values
  BY DEF Values
<1>4. \A i \in 1..Len(d) : d[i] \in Byte
  BY <1>2, <1>3, ToSetOf, ValuesAreBytes
<1>. QED
  BY <1>1, <1>2, <1>4

\* A part of a page, by its length and its bytes.
LEMMA PartFields ==
  ASSUME NEW d, d \in Parts
  PROVE  IsSeq(d) /\ Len(d) \in 0..PageSize /\ \A i \in 1..Len(d) : d[i] \in Byte
<1>1. PICK k \in 0..PageSize : d \in [1..k -> Byte]
  BY DEF Parts
<1>2. k \in Nat
  BY VmdirtyAssumption
<1>3. Len(d) = k /\ d = [i \in 1..k |-> d[i]]
  BY <1>1, <1>2
<1>. QED
  BY <1>1, <1>3, <1>2 DEF IsSeq

\* A sequence of so many bytes is a part of a page.
LEMMA IsPart ==
  ASSUME NEW d, IsSeq(d), Len(d) \in 0..PageSize, \A i \in 1..Len(d) : d[i] \in Byte
  PROVE  d \in Parts
<1>1. d \in [1..Len(d) -> Byte]
  BY DEF IsSeq
<1>. QED
  BY <1>1 DEF Parts

\* A function on the first k numbers is a sequence of that length.
LEMMA FunIsSeq ==
  ASSUME NEW k \in Nat, NEW B, NEW f \in [1..k -> B]
  PROVE  IsSeq(f) /\ Len(f) = k
<1>1. Len(f) = k /\ f = [i \in 1..k |-> f[i]]
  OBVIOUS
<1>. QED
  BY <1>1 DEF IsSeq

\* A page is a part of one, and not none.
LEMMA PageIsPart ==
  ASSUME NEW p \in [1..PageSize -> Byte]
  PROVE  p \in Parts /\ Len(p) = PageSize /\ p # NoPage
<1>1. PageSize \in Nat /\ PageSize \in 0..PageSize /\ PageSize # 0
  BY VmdirtyAssumption
<1>2. Len(p) = PageSize
  BY <1>1
<1>3. p \in Parts
  BY <1>1 DEF Parts
<1>. QED
  BY <1>1, <1>2, <1>3 DEF NoPage

\* The first bytes of a part, up to a size.
LEMMA ClampFields ==
  ASSUME NEW p, p \in Parts, NEW n \in Nat
  PROVE  /\ Clamp(p, n) \in Parts
         /\ Len(Clamp(p, n)) = IF n < Len(p) THEN n ELSE Len(p)
         /\ \A i \in 1..Len(Clamp(p, n)) : Clamp(p, n)[i] = p[i]
<1>. DEFINE k == IF n < Len(p) THEN n ELSE Len(p)
            c == Clamp(p, n)
<1>1. IsSeq(p) /\ Len(p) \in 0..PageSize /\ \A i \in 1..Len(p) : p[i] \in Byte
  BY PartFields
<1>2. k \in 0..Len(p)
  BY <1>1, VmdirtyAssumption
<1>3. c = SubSeq(p, 1, k)
  BY DEF Clamp
<1>. HIDE DEF k, c
<1>4. IsSeq(c) /\ Len(c) = k /\ \A i \in 1..k : c[i] = p[i]
  BY <1>1, <1>2, <1>3, Prefix
<1>5. \A i \in 1..k : i \in 1..Len(p)
  BY <1>1, <1>2
<1>6. Len(c) \in 0..PageSize
  BY <1>1, <1>2, <1>4, VmdirtyAssumption
<1>7. c \in Parts
  BY <1>1, <1>4, <1>5, <1>6, IsPart
<1>. QED
  BY <1>4, <1>7 DEF k, c

\* A part filled up with zeroes.
LEMMA PaddedIsPage ==
  ASSUME NEW d, d \in Parts
  PROVE  /\ Padded(d) \in [1..PageSize -> Byte]
         /\ \A i \in 1..PageSize : Padded(d)[i] = IF i <= Len(d) THEN d[i] ELSE 0
<1>1. IsSeq(d) /\ Len(d) \in 0..PageSize /\ \A i \in 1..Len(d) : d[i] \in Byte
  BY PartFields
<1>2. \A i \in 1..PageSize : i <= Len(d) => i \in 1..Len(d)
  BY <1>1, VmdirtyAssumption
<1>. QED
  BY <1>1, <1>2, ValuesAreBytes, Zenon DEF Padded

\* Nothing is a part of a page.
LEMMA EmptyPart == <<>> \in Parts /\ Len(<<>>) = 0
<1>1. <<>> \in [1..0 -> Byte] /\ 0 \in 0..PageSize
  BY VmdirtyAssumption
<1>. QED
  BY <1>1 DEF Parts

\* A write into a page.
LEMMA AppliedIsPage ==
  ASSUME NEW buf \in [1..PageSize -> Byte], NEW d \in Writes
  PROVE  /\ Applied(buf, d) \in [1..PageSize -> Byte]
         /\ \A i \in 1..PageSize : Applied(buf, d)[i] = IF i <= Len(d) THEN d[i] ELSE buf[i]
<1>1. IsSeq(d) /\ Len(d) \in 1..PageSize /\ \A i \in 1..Len(d) : d[i] \in Byte
  BY WritesAreParts
<1>2. \A i \in 1..PageSize : i <= Len(d) => i \in 1..Len(d)
  BY <1>1, VmdirtyAssumption
<1>3. \A i \in 1..PageSize : buf[i] \in Byte
  OBVIOUS
<1>. QED
  BY <1>1, <1>2, <1>3, Zenon DEF Applied

-----------------------------------------------------------------------------
(* The file. *)

Extends(file, new) ==
  Len(file) <= Len(new) /\ \A i \in 1..Len(file) : new[i] = file[i]

\* A record has at most a page of data.
LEMMA RecordData ==
  ASSUME NEW rec, RecordOk(rec)
  PROVE  Len(Data(rec)) \in 0..PageSize /\ \A i \in 1..Len(Data(rec)) : Data(rec)[i] \in Byte
<1>1. CASE rec.kind = "data"
  BY <1>1, PartFields DEF RecordOk, Data
<1>2. CASE rec.kind # "data"
  BY <1>2, EmptyPart, PartFields DEF Data
<1>. QED
  BY <1>1, <1>2

\* The cells of a record.
LEMMA RecordCells ==
  ASSUME NEW rec, RecordOk(rec)
  PROVE  /\ IsSeq(Encode(rec)) /\ Len(Encode(rec)) = Size(rec) /\ Size(rec) \in Nat /\ Size(rec) >= 2
         /\ Len(Data(rec)) \in 0..PageSize /\ Size(rec) = Len(Data(rec)) + 2
         /\ \A i \in 1..Size(rec) : CellOk(Encode(rec)[i])
         /\ Encode(rec)[1] = HeadCell(rec)
         /\ \A i \in 1..Len(Data(rec)) : Encode(rec)[i + 1] = ByteCell(Data(rec)[i])
<1>. DEFINE l == Len(Data(rec))
<1>1. l \in 0..PageSize /\ \A i \in 1..l : Data(rec)[i] \in Byte
  BY RecordData
<1>2. l \in Nat
  BY <1>1, VmdirtyAssumption
<1>3. /\ IsSeq(Encode(rec)) /\ Len(Encode(rec)) = Size(rec) /\ Size(rec) \in Nat
      /\ Size(rec) >= 2 /\ Encode(rec)[1] = HeadCell(rec)
      /\ Encode(rec)[Size(rec)] = CrcCell(rec)
  BY <1>2, EncodeIsSeq, SizeNat, EncodeCells
<1>4. Size(rec) = l + 2
  BY DEF Size
<1>. HIDE DEF l
<1>5. ASSUME NEW i \in 1..l PROVE Encode(rec)[i + 1] = ByteCell(Data(rec)[i])
  <2>1. i + 1 \in 1..Size(rec) /\ i + 1 # 1 /\ i + 1 # Size(rec) /\ i + 1 - 1 = i
    BY <1>2, <1>4
  <2>. QED
    BY <2>1 DEF Encode
<1>6. ASSUME NEW i \in 1..Size(rec) PROVE CellOk(Encode(rec)[i])
  <2>1. CASE i = 1
    BY <1>3, <2>1 DEF CellOk, HeadCell
  <2>2. CASE i = Size(rec)
    BY <1>3, <2>2 DEF CellOk, CrcCell
  <2>3. CASE i # 1 /\ i # Size(rec)
    <3>1. i - 1 \in 1..l /\ i - 1 + 1 = i
      BY <1>2, <1>3, <1>4, <2>3
    <3>2. Encode(rec)[i] = ByteCell(Data(rec)[i - 1])
      BY <1>5, <3>1
    <3>3. Data(rec)[i - 1] \in Byte
      BY <1>1, <3>1
    <3>. QED
      BY <3>2, <3>3 DEF CellOk, ByteCell
  <2>. QED
    BY <2>1, <2>2, <2>3
<1>. QED
  BY <1>1, <1>3, <1>4, <1>5, <1>6 DEF l

\* The file with the first cells of a record behind it.
LEMMA FileGrows ==
  ASSUME NEW file, NEW gen, FileOk(file, gen), NEW rec, RecordOk(rec),
         NEW part, IsSeq(part), Len(part) <= Size(rec),
         \A i \in 1..Len(part) : part[i] = Encode(rec)[i]
  PROVE  /\ FileOk(file \o part, gen) /\ Extends(file, file \o part)
         /\ Len(file \o part) = Len(file) + Len(part)
         /\ \A i \in 1..Len(part) : (file \o part)[Len(file) + i] = part[i]
<1>. DEFINE new == file \o part
            fl  == Len(file)
            k   == Len(part)
<1>1. /\ IsSeq(file) /\ fl >= 2 /\ fl \in Nat /\ k \in Nat
      /\ file[1] = HeadCell(Header(gen)) /\ \A i \in 1..fl : CellOk(file[i])
  BY DEF FileOk, IsSeq
<1>2. /\ IsSeq(new) /\ Len(new) = fl + k /\ \A i \in 1..fl : new[i] = file[i]
  BY <1>1, ConcatSeq
<1>3. \A i \in 1..k : new[fl + i] = part[i]
  BY <1>1, ConcatSeq
<1>4. \A i \in 1..Size(rec) : CellOk(Encode(rec)[i])
  BY RecordCells
<1>5. Size(rec) \in Nat
  BY RecordCells
<1>. HIDE DEF new, fl, k
<1>6. \A i \in 1..k : i \in 1..Size(rec)
  BY <1>1, <1>5 DEF k
<1>7. \A i \in 1..k : CellOk(part[i])
  BY <1>4, <1>6 DEF k
<1>8. ASSUME NEW i \in 1..(fl + k) PROVE CellOk(new[i])
  <2>1. CASE i <= fl
    BY <1>1, <1>2, <2>1
  <2>2. CASE ~(i <= fl)
    <3>1. i - fl \in 1..k /\ fl + (i - fl) = i
      BY <1>1, <2>2
    <3>. QED
      BY <1>3, <1>7, <3>1
  <2>. QED
    BY <2>1, <2>2
<1>9. new[1] = file[1] /\ fl + k >= 2 /\ fl <= fl + k
  BY <1>1, <1>2
<1>10. FileOk(new, gen)
  BY <1>1, <1>2, <1>8, <1>9 DEF FileOk
<1>11. Extends(file, new)
  BY <1>2, <1>9 DEF Extends, fl
<1>. QED
  BY <1>2, <1>3, <1>10, <1>11 DEF new, fl, k

\* The file with a record behind it.
LEMMA RecordAppended ==
  ASSUME NEW file, NEW gen, FileOk(file, gen), NEW rec, RecordOk(rec)
  PROVE  LET new == file \o Encode(rec) IN
         /\ FileOk(new, gen) /\ Extends(file, new)
         /\ Len(file) \in Nat /\ Size(rec) \in Nat /\ Len(new) = Len(file) + Size(rec)
         /\ \A i \in 1..Size(rec) : new[Len(file) + i] = Encode(rec)[i]
<1>. DEFINE enc == Encode(rec)
            new == file \o enc
<1>1. IsSeq(enc) /\ Len(enc) = Size(rec) /\ Size(rec) \in Nat
  BY RecordCells
<1>2. IsSeq(enc) /\ Len(enc) <= Size(rec) /\ \A i \in 1..Len(enc) : enc[i] = Encode(rec)[i]
  BY <1>1
<1>3. Len(file) \in Nat
  BY DEF FileOk, IsSeq
<1>. HIDE DEF enc
<1>4. FileOk(new, gen)
  BY <1>2, FileGrows
<1>5. Extends(file, new)
  BY <1>2, FileGrows
<1>6. Len(new) = Len(file) + Len(enc)
  BY <1>2, FileGrows
<1>7. \A i \in 1..Len(enc) : new[Len(file) + i] = enc[i]
  BY <1>2, FileGrows
<1>. HIDE DEF new
<1>8. Len(new) = Len(file) + Size(rec) /\ \A i \in 1..Size(rec) : new[Len(file) + i] = enc[i]
  BY <1>1, <1>6, <1>7
<1>. QED
  BY <1>1, <1>3, <1>4, <1>5, <1>8 DEF new, enc

\* Where the writer stands in a file that grows.
LEMMA WriterBounds ==
  \A fl, k, l, p, d \in Nat : l = fl + k /\ p \in 3..(fl + 1) /\ d \in 2..fl =>
    /\ p + k \in 3..(l + 1) /\ p \in 3..(l + 1) /\ l \in 2..l /\ d \in 2..l
    /\ (p = fl + 1 => p + k = l + 1)
OBVIOUS

\* The cells of a place that ends in the file.
LEMMA PlaceCells ==
  \A o, l, end \in Nat : o + l - 1 <= end /\ (l > 0 => o > 0) =>
    \A i \in 1..l : o + i - 1 \in 1..end
OBVIOUS

\* A place in a file is one in every longer one.
LEMMA PlaceStays ==
  ASSUME NEW file, IsSeq(file), NEW new, IsSeq(new), Extends(file, new),
         NEW loc, PlaceOk(file, loc)
  PROVE  PlaceOk(new, loc)
<1>1. /\ loc.offset \in Nat /\ loc.len \in Nat /\ loc.len <= PageSize
      /\ loc.offset + loc.len - 1 <= Len(file) /\ (loc.len > 0 => loc.offset > 0)
  BY VmdirtyAssumption DEF PlaceOk, Places
<1>2. Len(file) \in Nat /\ Len(new) \in Nat /\ Len(file) <= Len(new)
  BY DEF IsSeq, Extends
<1>3. loc.offset + loc.len - 1 <= Len(new)
  BY <1>1, <1>2
<1>4. ASSUME ~ShortWrites, NEW i \in 1..loc.len PROVE new[loc.offset + i - 1].cell = "byte"
  <2>1. loc.offset + i - 1 \in 1..Len(file)
    BY <1>1, <1>2, PlaceCells
  <2>2. file[loc.offset + i - 1].cell = "byte"
    BY <1>4 DEF PlaceOk
  <2>. QED
    BY <2>1, <2>2 DEF Extends
<1>. QED
  BY <1>1, <1>3, <1>4 DEF PlaceOk

\* What is read from a place is a page.
LEMMA PageRead ==
  ASSUME NEW file, NEW gen, FileOk(file, gen), NEW loc, PlaceOk(file, loc)
  PROVE  /\ ReadPageAt(file, loc) \in [1..PageSize -> Byte]
         /\ \A i \in 1..PageSize : ReadPageAt(file, loc)[i] =
              IF i > loc.len THEN 0
              ELSE IF file[loc.offset + i - 1].cell = "byte"
                   THEN file[loc.offset + i - 1].byte ELSE NotData
<1>. DEFINE b(i) == IF i > loc.len THEN 0
                    ELSE IF file[loc.offset + i - 1].cell = "byte"
                         THEN file[loc.offset + i - 1].byte ELSE NotData
<1>1. /\ loc.offset \in Nat /\ loc.len \in Nat /\ loc.len <= PageSize
      /\ loc.offset + loc.len - 1 <= Len(file) /\ (loc.len > 0 => loc.offset > 0)
  BY VmdirtyAssumption DEF PlaceOk, Places
<1>2. Len(file) \in Nat /\ \A i \in 1..Len(file) : CellOk(file[i])
  BY DEF FileOk, IsSeq
<1>3. ReadPageAt(file, loc) = [i \in 1..PageSize |-> b(i)]
  <2>1. ~(loc.offset + loc.len - 1 > Len(file))
    BY <1>1, <1>2
  <2>. QED
    BY <2>1 DEF ReadPageAt
<1>4. ASSUME NEW i \in 1..PageSize PROVE b(i) \in Byte
  <2>1. CASE i > loc.len
    BY <2>1, ValuesAreBytes
  <2>2. CASE ~(i > loc.len)
    <3>1. i \in 1..loc.len /\ loc.offset + i - 1 \in 1..Len(file)
      <4>1. i \in 1..loc.len
        BY <1>1, <2>2
      <4>. QED
        BY <1>1, <1>2, <4>1, PlaceCells
    <3>2. CellOk(file[loc.offset + i - 1])
      BY <1>2, <3>1
    <3>3. CASE file[loc.offset + i - 1].cell = "byte"
      BY <2>2, <3>2, <3>3 DEF CellOk
    <3>4. CASE file[loc.offset + i - 1].cell # "byte"
      <4>1. ShortWrites
        BY <3>1, <3>4 DEF PlaceOk
      <4>. QED
        BY <2>2, <3>4, <4>1, ValuesAreBytes
    <3>. QED
      BY <3>3, <3>4
  <2>. QED
    BY <2>1, <2>2
<1>. HIDE DEF b
<1>5. ReadPageAt(file, loc) \in [1..PageSize -> Byte]
  BY <1>3, <1>4
<1>6. \A i \in 1..PageSize : ReadPageAt(file, loc)[i] = b(i)
  BY <1>3
<1>. QED
  BY <1>5, <1>6 DEF b

-----------------------------------------------------------------------------
(* The writer. *)

\* An append that succeeds.
LEMMA AppendedFields ==
  ASSUME NEW w, WriterOk(w), NEW rec, RecordOk(rec), NEW force \in BOOLEAN
  PROVE  LET new == Appended(w, rec, force) IN
         /\ WriterOk(new) /\ Extends(w.file, new.file)
         /\ new.gen = w.gen /\ new.sync = w.sync /\ new.next = w.next
         /\ new.file = w.file \o Encode(rec) /\ new.pos = w.pos + Size(rec)
         /\ new.durable = IF force \/ w.sync THEN Len(new.file) ELSE w.durable
<1>. DEFINE new  == Appended(w, rec, force)
            file == w.file \o Encode(rec)
            fl   == Len(w.file)
<1>1. /\ w.gen \in Nat \ {0} /\ w.sync \in BOOLEAN /\ FileOk(w.file, w.gen)
      /\ w.durable \in 2..fl /\ w.next \in Nat \ {0}
      /\ w.pos \in 3..(fl + 1) /\ (~ShortWrites => w.pos = fl + 1)
  BY DEF WriterOk
<1>2. /\ IsSeq(Encode(rec)) /\ Len(Encode(rec)) = Size(rec) /\ Size(rec) \in Nat /\ Size(rec) >= 2
  BY RecordCells
<1>3. FileOk(file, w.gen) /\ Extends(w.file, file) /\ Len(file) = fl + Size(rec)
  BY <1>1, RecordAppended
<1>4. fl \in Nat /\ Len(file) \in Nat /\ w.pos \in Nat /\ w.durable \in Nat
  <2>1. fl \in Nat /\ Len(file) \in Nat
    BY <1>1, <1>3 DEF FileOk, IsSeq
  <2>. HIDE DEF fl, file
  <2>. QED
    BY <1>1, <2>1
<1>. HIDE DEF file, fl
<1>5. /\ new = [gen |-> w.gen, sync |-> w.sync, file |-> file,
                durable |-> IF force \/ w.sync THEN Len(file) ELSE w.durable,
                pos |-> w.pos + Size(rec), next |-> w.next]
  <2>1. w = [gen |-> w.gen, sync |-> w.sync, file |-> w.file, durable |-> w.durable,
             pos |-> w.pos, next |-> w.next]
    BY DEF WriterOk
  <2>2. new = [w EXCEPT !.file = file, !.pos = @ + Size(rec),
                        !.durable = IF force \/ w.sync THEN Len(file) ELSE @]
    BY DEF Appended, file
  <2>. HIDE DEF new
  <2>. QED
    BY <2>1, <2>2
<1>. HIDE DEF new
<1>6. /\ new.gen = w.gen /\ new.sync = w.sync /\ new.next = w.next
      /\ new.file = file /\ new.pos = w.pos + Size(rec)
      /\ new.durable = IF force \/ w.sync THEN Len(file) ELSE w.durable
  BY <1>5
<1>7. /\ new.pos \in 3..(Len(file) + 1) /\ (~ShortWrites => new.pos = Len(file) + 1)
      /\ new.durable \in 2..Len(file)
  <2>1. /\ w.pos + Size(rec) \in 3..(Len(file) + 1) /\ Len(file) \in 2..Len(file)
        /\ w.durable \in 2..Len(file)
        /\ (w.pos = fl + 1 => w.pos + Size(rec) = Len(file) + 1)
    <3>1. /\ fl \in Nat /\ Size(rec) \in Nat /\ Len(file) \in Nat /\ w.pos \in Nat
          /\ w.durable \in Nat /\ Len(file) = fl + Size(rec)
          /\ w.pos \in 3..(fl + 1) /\ w.durable \in 2..fl
      BY <1>1, <1>2, <1>3, <1>4
    <3>. QED
      <4>1. w.pos >= 3 /\ w.pos <= fl + 1 /\ w.durable >= 2 /\ w.durable <= fl
        BY <3>1
      <4>2. w.pos + Size(rec) \in Int /\ w.pos + Size(rec) >= 3 /\ w.pos + Size(rec) <= Len(file) + 1
        BY <3>1, <4>1
      <4>3. Len(file) >= 2 /\ w.durable <= Len(file)
        BY <3>1, <4>1
      <4>4. w.pos = fl + 1 => w.pos + Size(rec) = Len(file) + 1
        BY <3>1
      <4>. QED
        BY <3>1, <4>1, <4>2, <4>3, <4>4
  <2>. QED
    BY <1>1, <1>6, <2>1
<1>8. new.durable \in 2..Len(file)
  BY <1>7
<1>9. WriterOk(new)
  BY <1>1, <1>3, <1>5, <1>6, <1>7, <1>8 DEF WriterOk
<1>. QED
  BY <1>3, <1>6, <1>9 DEF new, file

\* An append that fails.
LEMMA FailedFields ==
  ASSUME NEW w, WriterOk(w), NEW rec, RecordOk(rec),
         NEW k \in 0..(Size(rec) - 1), k = 0 \/ ShortWrites,
         NEW new, new = AppendedShort(w, rec, k) \/ new = AppendedUnsynced(w, rec)
  PROVE  /\ WriterOk(new) /\ Extends(w.file, new.file)
         /\ new.gen = w.gen /\ new.sync = w.sync /\ new.next = w.next /\ new.durable = w.durable
<1>. DEFINE fl == Len(w.file)
<1>1. /\ w.gen \in Nat \ {0} /\ w.sync \in BOOLEAN /\ FileOk(w.file, w.gen)
      /\ w.durable \in 2..fl /\ w.next \in Nat \ {0}
      /\ w.pos \in 3..(fl + 1) /\ (~ShortWrites => w.pos = fl + 1)
  BY DEF WriterOk
<1>2. /\ IsSeq(Encode(rec)) /\ Len(Encode(rec)) = Size(rec) /\ Size(rec) \in Nat /\ Size(rec) >= 2
  BY RecordCells
<1>3. fl \in Nat /\ w.pos \in Nat /\ w.durable \in Nat
  <2>1. fl \in Nat
    BY <1>1 DEF FileOk, IsSeq
  <2>. HIDE DEF fl
  <2>. QED
    BY <1>1, <2>1
<1>4. CASE new = AppendedShort(w, rec, k)
  <2>. DEFINE part == SubSeq(Encode(rec), 1, k)
              file == w.file \o part
  <2>1. k \in Nat /\ k \in 0..Len(Encode(rec)) /\ k <= Size(rec)
    BY <1>2
  <2>2. IsSeq(part) /\ Len(part) = k /\ \A i \in 1..k : part[i] = Encode(rec)[i]
    BY <1>2, <2>1, Prefix
  <2>. HIDE DEF part
  <2>3. FileOk(file, w.gen) /\ Extends(w.file, file) /\ Len(file) = fl + Len(part)
    <3>1. Len(part) <= Size(rec) /\ \A i \in 1..Len(part) : part[i] = Encode(rec)[i]
      BY <2>1, <2>2
    <3>2. FileOk(file, w.gen)
      BY <1>1, <2>2, <3>1, FileGrows
    <3>3. Extends(w.file, file)
      BY <1>1, <2>2, <3>1, FileGrows
    <3>4. Len(file) = Len(w.file) + Len(part)
      <4>1. IsSeq(w.file)
        BY <1>1 DEF FileOk
      <4>. QED
        BY <2>2, <4>1, ConcatSeq
    <3>. QED
      BY <3>2, <3>3, <3>4
  <2>4. new = [gen |-> w.gen, sync |-> w.sync, file |-> file, durable |-> w.durable,
               pos |-> w.pos, next |-> w.next]
    BY <1>4 DEF WriterOk, AppendedShort, part
  <2>. HIDE DEF file, fl
  <2>5. /\ new.gen = w.gen /\ new.sync = w.sync /\ new.next = w.next /\ new.file = file
        /\ new.durable = w.durable /\ new.pos = w.pos
    BY <2>4
  <2>6. w.durable \in 2..Len(file) /\ w.pos \in 3..(Len(file) + 1)
    <3>1. Len(file) = fl + k /\ Len(file) \in Nat
      BY <1>3, <2>1, <2>2, <2>3
    <3>. QED
      BY <1>1, <1>3, <2>1, <3>1, WriterBounds
  <2>7. ~ShortWrites => w.pos = Len(file) + 1
    <3>1. ~ShortWrites => Len(file) = fl
      BY <1>3, <2>2, <2>3
    <3>. QED
      BY <1>1, <3>1
  <2>. QED
    BY <1>1, <2>3, <2>4, <2>5, <2>6, <2>7 DEF WriterOk
<1>5. CASE new = AppendedUnsynced(w, rec)
  <2>. DEFINE file == w.file \o Encode(rec)
  <2>1. FileOk(file, w.gen) /\ Extends(w.file, file) /\ Len(file) = fl + Size(rec)
    BY <1>1, RecordAppended
  <2>2. new = [gen |-> w.gen, sync |-> w.sync, file |-> file, durable |-> w.durable,
               pos |-> w.pos + Size(rec), next |-> w.next]
    BY <1>5 DEF WriterOk, AppendedUnsynced
  <2>. HIDE DEF file, fl
  <2>3. /\ new.gen = w.gen /\ new.sync = w.sync /\ new.next = w.next /\ new.file = file
        /\ new.durable = w.durable /\ new.pos = w.pos + Size(rec)
    BY <2>2
  <2>4. /\ w.durable \in 2..Len(file) /\ w.pos + Size(rec) \in 3..(Len(file) + 1)
        /\ (~ShortWrites => w.pos + Size(rec) = Len(file) + 1)
    <3>1. Len(file) \in Nat
      BY <1>2, <1>3, <2>1
    <3>2. /\ w.durable \in 2..Len(file) /\ w.pos + Size(rec) \in 3..(Len(file) + 1)
          /\ (w.pos = fl + 1 => w.pos + Size(rec) = Len(file) + 1)
      <4>1. /\ fl \in Nat /\ Size(rec) \in Nat /\ Len(file) \in Nat /\ w.pos \in Nat
            /\ w.durable \in Nat /\ Len(file) = fl + Size(rec)
            /\ w.pos \in 3..(fl + 1) /\ w.durable \in 2..fl
        BY <1>1, <1>2, <1>3, <2>1, <3>1
      <4>2. w.pos >= 3 /\ w.pos <= fl + 1 /\ w.durable >= 2 /\ w.durable <= fl
        BY <4>1
      <4>3. w.pos + Size(rec) \in Int /\ w.pos + Size(rec) >= 3 /\ w.pos + Size(rec) <= Len(file) + 1
        BY SMTT(40), <4>1, <4>2
      <4>4. w.durable <= Len(file)
        BY <4>1, <4>2
      <4>5. w.pos = fl + 1 => w.pos + Size(rec) = Len(file) + 1
        BY <4>1
      <4>. QED
        BY SMTT(40), <4>1, <4>2, <4>3, <4>4, <4>5
    <3>. QED
      BY <1>1, <3>2
  <2>. QED
    BY <1>1, <2>1, <2>2, <2>3, <2>4 DEF WriterOk
<1>. QED
  BY <1>4, <1>5

\* A writer with the next number.
LEMMA NumberedFields ==
  ASSUME NEW w, WriterOk(w)
  PROVE  LET new == Numbered(w) IN
         /\ WriterOk(new) /\ new.gen = w.gen /\ new.sync = w.sync /\ new.file = w.file
         /\ new.durable = w.durable /\ new.pos = w.pos /\ new.next = w.next + 1
<1>. DEFINE new == Numbered(w)
<1>1. new = [gen |-> w.gen, sync |-> w.sync, file |-> w.file, durable |-> w.durable,
             pos |-> w.pos, next |-> w.next + 1]
  BY DEF WriterOk, Numbered
<1>. HIDE DEF new
<1>2. /\ new.gen = w.gen /\ new.sync = w.sync /\ new.file = w.file
      /\ new.durable = w.durable /\ new.pos = w.pos /\ new.next = w.next + 1
  BY <1>1
<1>3. w.next + 1 \in Nat \ {0}
  BY DEF WriterOk
<1>. QED
  BY <1>1, <1>2, <1>3 DEF WriterOk, new

\* A writer that has written nothing but its header.
LEMMA NewWriterOk ==
  ASSUME NEW gen \in Nat \ {0}, NEW sync \in BOOLEAN
  PROVE  LET w == NewWriter(gen, sync) IN
         /\ WriterOk(w) /\ w.gen = gen /\ w.sync = sync /\ w.next = 1 /\ w.durable = 2
         /\ w.file = Encode(Header(gen)) /\ Len(w.file) = 2
<1>. DEFINE w == NewWriter(gen, sync)
            rec == Header(gen)
<1>1. Size(rec) = 2 /\ RecordOk(rec)
  BY DEF Data, Header, Size, RecordOk
<1>2. /\ IsSeq(Encode(rec)) /\ Len(Encode(rec)) = Size(rec)
      /\ \A i \in 1..Size(rec) : CellOk(Encode(rec)[i])
      /\ Encode(rec)[1] = HeadCell(rec)
  BY <1>1, RecordCells
<1>3. FileOk(Encode(rec), gen) /\ Len(Encode(rec)) = 2
  BY <1>1, <1>2 DEF FileOk
<1>4. w = [gen |-> gen, sync |-> sync, file |-> Encode(rec), durable |-> Size(rec),
           pos |-> Size(rec) + 1, next |-> 1]
  BY DEF NewWriter
<1>. HIDE DEF w, rec
<1>5. /\ w.gen = gen /\ w.sync = sync /\ w.file = Encode(rec) /\ w.durable = 2
      /\ w.pos = 3 /\ w.next = 1
  BY <1>1, <1>4
<1>6. WriterOk(w)
  BY <1>1, <1>3, <1>4, <1>5 DEF WriterOk
<1>. QED
  BY <1>3, <1>5, <1>6 DEF w, rec

-----------------------------------------------------------------------------
(* Tier 2. *)

\* A job appends a record.
LEMMA RecordOfJob ==
  ASSUME NEW w, w.next \in Nat \ {0}, NEW j, JobOk(j)
  PROVE  /\ RecordOk(Record(w, j)) /\ Record(w, j).gen = w.gen
         /\ Record(w, j).kind = IF j.job = "marker" THEN "marker"
                               ELSE IF j.job = "resize" THEN "meta" ELSE "data"
         /\ IsData(j) => Data(Record(w, j)) = j.data
<1>1. w.next - 1 \in Nat
  OBVIOUS
<1>2. CASE j.job = "marker"
  BY <1>1, <1>2 DEF Record, CommitMarker, LastSequence, RecordOk, IsData
<1>3. CASE j.job = "resize"
  BY <1>3 DEF Record, MetadataRecord, RecordOk, JobOk, IsData, OpCodes
<1>4. CASE IsData(j)
  BY <1>4 DEF Record, DataRecord, RecordOk, JobOk, IsData, Data
<1>. QED
  BY <1>2, <1>3, <1>4 DEF JobOk, Jobs, IsData

\* The place that a data record is given.
LEMMA LocOk ==
  ASSUME NEW w, WriterOk(w), NEW rec, RecordOk(rec), NEW d, Data(rec) = d, d \in Parts
  PROVE  PlaceOk(w.file \o Encode(rec), Loc(w, d))
<1>. DEFINE file == w.file \o Encode(rec)
            loc  == Loc(w, d)
            fl   == Len(w.file)
            l    == Len(d)
<1>1. /\ FileOk(w.file, w.gen) /\ w.pos \in 3..(fl + 1) /\ (~ShortWrites => w.pos = fl + 1)
  BY DEF WriterOk
<1>2. fl \in Nat /\ IsSeq(w.file)
  BY <1>1 DEF FileOk, IsSeq
<1>3. /\ IsSeq(Encode(rec)) /\ Len(Encode(rec)) = Size(rec) /\ Size(rec) = l + 2
      /\ l \in 0..PageSize /\ \A i \in 1..l : Encode(rec)[i + 1] = ByteCell(d[i])
  BY RecordCells
<1>4. loc.offset = w.pos + 1 /\ loc.len = l /\ loc = [offset |-> w.pos + 1, len |-> l]
  BY DEF Loc
<1>5. l \in Nat
  BY <1>3, VmdirtyAssumption
<1>6. Len(file) = fl + (l + 2) /\ \A i \in 1..(l + 2) : file[fl + i] = Encode(rec)[i]
  <2>1. /\ Len(file) = fl + Size(rec)
        /\ \A i \in 1..Size(rec) : file[fl + i] = Encode(rec)[i]
    <3>1. FileOk(w.file, w.gen)
      BY <1>1
    <3>2. Len(w.file \o Encode(rec)) = Len(w.file) + Size(rec)
      BY <3>1, RecordAppended
    <3>3. \A i \in 1..Size(rec) : (w.file \o Encode(rec))[Len(w.file) + i] = Encode(rec)[i]
      BY ZenonT(40), <3>1, RecordAppended
    <3>. QED
      BY <3>2, <3>3
  <2>. HIDE DEF file, fl, l
  <2>. QED
    BY <1>3, <2>1
<1>. HIDE DEF file, loc, fl, l
<1>7. loc \in Places
  BY <1>1, <1>2, <1>3, <1>4 DEF Places
<1>8. loc.offset + loc.len - 1 <= Len(file) /\ loc.offset > 0
  <2>1. w.pos \in Nat /\ w.pos <= fl + 1
    BY <1>1, <1>2
  <2>2. w.pos + 1 + l - 1 <= fl + (l + 2) /\ w.pos + 1 > 0
    BY <1>2, <1>5, <2>1
  <2>. QED
    BY <1>4, <1>6, <2>2
<1>9. ASSUME ~ShortWrites, NEW i \in 1..loc.len PROVE file[loc.offset + i - 1].cell = "byte"
  <2>1. i \in 1..l /\ loc.offset + i - 1 = fl + (i + 1) /\ i + 1 \in 1..(l + 2)
    BY <1>1, <1>2, <1>4, <1>5, <1>9
  <2>2. file[loc.offset + i - 1] = ByteCell(d[i])
    BY <1>3, <1>6, <2>1
  <2>. QED
    BY <2>2 DEF ByteCell
<1>. QED
  BY <1>7, <1>8, <1>9 DEF PlaceOk, file, loc

\* What a job does to Tier 2.
PutOk(t2, j, new) ==
  LET w == t2.writer IN
  /\ Tier2Ok(new) /\ Extends(w.file, new.writer.file)
  /\ new.writer.gen = w.gen /\ new.writer.sync = w.sync
  /\ new.writer.file = w.file \o Encode(Record(w, j))
  /\ new.writer.next = IF j.job = "marker" THEN w.next ELSE w.next + 1
  /\ new.writer.durable = IF j.job = "marker" \/ w.sync THEN Len(new.writer.file)
                         ELSE w.durable
  /\ new.index = IF IsData(j) THEN [t2.index EXCEPT ![j.name] = Loc(w, j.data)] ELSE t2.index
  /\ new.records = IF IsData(j) THEN t2.records + 1 ELSE t2.records

\* A job that is done.
LEMMA PutFields ==
  ASSUME NEW t2, Tier2Ok(t2), NEW j, JobOk(j)
  PROVE  PutOk(t2, j, Put(t2, j))
<1>. SUFFICES ASSUME NEW new, new = Put(t2, j), NEW w, w = t2.writer PROVE PutOk(t2, j, new)
  OBVIOUS
<1>. DEFINE rec  == Record(w, j)
            full == Appended(w, rec, j.job = "marker")
            nw   == IF j.job = "marker" THEN full ELSE Numbered(full)
<1>1. /\ WriterOk(w) /\ t2.index \in [Names -> Places] /\ t2.records \in Nat
      /\ \A n \in Names : PlaceOk(w.file, t2.index[n])
  BY DEF Tier2Ok
<1>2. RecordOk(rec) /\ (IsData(j) => Data(rec) = j.data)
  BY <1>1, RecordOfJob DEF WriterOk
<1>3. new = [writer  |-> nw,
             index   |-> IF IsData(j) THEN [t2.index EXCEPT ![j.name] = Loc(w, j.data)] ELSE t2.index,
             records |-> IF IsData(j) THEN t2.records + 1 ELSE t2.records]
  BY DEF Put
<1>. HIDE DEF rec
<1>4. /\ WriterOk(full) /\ Extends(w.file, full.file)
      /\ full.gen = w.gen /\ full.sync = w.sync /\ full.next = w.next
      /\ full.file = w.file \o Encode(rec)
      /\ full.durable = IF j.job = "marker" \/ w.sync THEN Len(full.file) ELSE w.durable
  <2>. DEFINE force == j.job = "marker"
  <2>1. force \in BOOLEAN /\ full = Appended(w, rec, force)
    OBVIOUS
  <2>. HIDE DEF force, full
  <2>2. /\ WriterOk(full) /\ Extends(w.file, full.file)
        /\ full.gen = w.gen /\ full.sync = w.sync /\ full.next = w.next
        /\ full.file = w.file \o Encode(rec)
    BY ZenonT(40), <1>1, <1>2, <2>1, AppendedFields
  <2>3. full.durable = IF force \/ w.sync THEN Len(full.file) ELSE w.durable
    BY <1>1, <1>2, <2>1, AppendedFields
  <2>. QED
    BY <2>2, <2>3 DEF force
<1>. HIDE DEF full
<1>5. /\ WriterOk(nw) /\ Extends(w.file, nw.file) /\ nw.gen = w.gen /\ nw.sync = w.sync
      /\ nw.file = w.file \o Encode(rec)
      /\ nw.next = IF j.job = "marker" THEN w.next ELSE w.next + 1
      /\ nw.durable = IF j.job = "marker" \/ w.sync THEN Len(nw.file) ELSE w.durable
  BY ZenonT(40), <1>4, NumberedFields
<1>. HIDE DEF nw
<1>6. /\ new.writer = nw
      /\ new.index = IF IsData(j) THEN [t2.index EXCEPT ![j.name] = Loc(w, j.data)] ELSE t2.index
      /\ new.records = IF IsData(j) THEN t2.records + 1 ELSE t2.records
  BY <1>3
<1>7. \A n \in Names : PlaceOk(nw.file, t2.index[n])
  <2>1. IsSeq(w.file) /\ IsSeq(nw.file)
    BY <1>1, <1>5 DEF WriterOk, FileOk
  <2>. QED
    BY <1>1, <1>5, <2>1, PlaceStays
<1>8. CASE IsData(j)
  <2>1. j.name \in Names /\ j.data \in Parts
    BY <1>8 DEF JobOk
  <2>2. PlaceOk(nw.file, Loc(w, j.data))
    BY <1>1, <1>2, <1>5, <1>8, <2>1, LocOk
  <2>3. Loc(w, j.data) \in Places
    BY <2>2 DEF PlaceOk
  <2>4. new.index \in [Names -> Places] /\ \A n \in Names : PlaceOk(nw.file, new.index[n])
    BY <1>1, <1>6, <1>7, <1>8, <2>1, <2>2, <2>3
  <2>5. new.records \in Nat
    BY <1>1, <1>6, <1>8
  <2>6. new = [writer |-> new.writer, index |-> new.index, records |-> new.records]
    BY <1>3
  <2>7. Tier2Ok(new)
    BY <1>5, <1>6, <2>4, <2>5, <2>6 DEF Tier2Ok
  <2>. QED
    BY <1>5, <1>6, <2>7 DEF rec, PutOk
<1>9. CASE ~IsData(j)
  <2>1. new.index = t2.index /\ new.records = t2.records
    BY <1>6, <1>9
  <2>2. new = [writer |-> new.writer, index |-> new.index, records |-> new.records]
    BY <1>3
  <2>3. Tier2Ok(new)
    BY <1>1, <1>5, <1>6, <1>7, <2>1, <2>2 DEF Tier2Ok
  <2>. QED
    BY <1>5, <1>6, <2>3 DEF rec, PutOk
<1>. QED
  BY <1>8, <1>9

-----------------------------------------------------------------------------
(* Lists of jobs. *)

PutFrom(t2, js, after, k) == IF k = 0 THEN t2 ELSE Put(after[k - 1], js[k])
Puts(t2, js, m, after) == after = [k \in 0..m |-> PutFrom(t2, js, after, k)]

\* What a list of jobs that are done says of each.
LEMMA PutsAre ==
  ASSUME NEW t2, NEW js, NEW m \in Nat, NEW after, Puts(t2, js, m, after)
  PROVE  /\ after = [k \in 0..m |-> after[k]] /\ after[0] = t2
         /\ \A k \in 1..m : after[k] = Put(after[k - 1], js[k])
<1>. DEFINE F(k) == PutFrom(t2, js, after, k)
<1>1. after = [k \in 0..m |-> F(k)]
  BY DEF Puts
<1>. HIDE DEF F
<1>2. after = [k \in 0..m |-> after[k]] /\ \A k \in 0..m : after[k] = F(k)
  BY <1>1
<1>3. 0 \in 0..m /\ \A k \in 1..m : k \in 0..m /\ k # 0
  OBVIOUS
<1>4. after[0] = F(0) /\ \A k \in 1..m : after[k] = F(k) /\ k # 0
  BY <1>2, <1>3
<1>. QED
  BY <1>2, <1>4, Zenon DEF F, PutFrom

\* One job more.
LEMMA PutsExtend ==
  ASSUME NEW t2, NEW js, NEW m \in Nat, NEW h, Puts(t2, js, m, h)
  PROVE  \E g : Puts(t2, js, m + 1, g)
<1>. DEFINE g == [k \in 0..(m + 1) |-> IF k = m + 1 THEN Put(h[m], js[m + 1]) ELSE h[k]]
<1>1. h[0] = t2 /\ \A k \in 1..m : h[k] = Put(h[k - 1], js[k])
  BY PutsAre
<1>2. ASSUME NEW k \in 0..(m + 1) PROVE g[k] = PutFrom(t2, js, g, k)
  <2>1. CASE k = 0
    <3>1. g[k] = h[0]
      BY <2>1
    <3>. QED
      BY <1>1, <2>1, <3>1 DEF PutFrom
  <2>2. CASE k # 0
    <3>1. k - 1 \in 0..m /\ k - 1 \in 0..(m + 1) /\ k - 1 # m + 1
      BY <2>2
    <3>2. g[k - 1] = h[k - 1]
      BY <3>1
    <3>3. g[k] = Put(h[k - 1], js[k])
      <4>1. CASE k = m + 1
        BY <4>1
      <4>2. CASE k # m + 1
        <5>1. k \in 1..m
          BY <2>2, <4>2
        <5>2. g[k] = h[k]
          BY <4>2
        <5>. QED
          BY <1>1, <5>1, <5>2
      <4>. QED
        BY <4>1, <4>2
    <3>. HIDE DEF g
    <3>. QED
      BY <2>2, <3>2, <3>3 DEF PutFrom
  <2>. QED
    BY <2>1, <2>2
<1>3. g = [k \in 0..(m + 1) |-> g[k]]
  OBVIOUS
<1>. HIDE DEF g
<1>4. g = [k \in 0..(m + 1) |-> PutFrom(t2, js, g, k)]
  BY <1>2, <1>3
<1>. QED
  BY <1>4 DEF Puts

\* PutAll, step by step.
PutSteps(t2, js, after) ==
  /\ PutAll(t2, js) = after[Len(js)] /\ after[0] = t2
  /\ \A k \in 1..Len(js) : after[k] = Put(after[k - 1], js[k])

\* The jobs of a list are done one after the other.
LEMMA PutAllSteps ==
  ASSUME NEW t2, NEW js, Len(js) \in Nat PROVE \E after : PutSteps(t2, js, after)
<1>. DEFINE n   == Len(js)
            Bad == {m \in Nat : ~(\E h : Puts(t2, js, m, h))}
<1>1. \E h : Puts(t2, js, 0, h)
  <2>. DEFINE h == [k \in 0..0 |-> t2]
  <2>1. \A k \in 0..0 : PutFrom(t2, js, h, k) = t2
    BY DEF PutFrom
  <2>2. h = [k \in 0..0 |-> PutFrom(t2, js, h, k)]
    BY <2>1
  <2>. HIDE DEF h
  <2>. QED
    BY <2>2 DEF Puts
<1>2. Bad = {}
  <2>1. SUFFICES ASSUME Bad # {} PROVE FALSE
    OBVIOUS
  <2>2. PICK m \in Bad : \A k \in Bad : m <= k
    <3>. HIDE DEF Bad
    <3>1. Bad \subseteq Nat
      BY DEF Bad
    <3>. QED
      BY <2>1, <3>1, LeastNatural
  <2>3. m \in Nat /\ m # 0 /\ ~(\E h : Puts(t2, js, m, h))
    BY <1>1, <2>2
  <2>4. m - 1 \in Nat /\ m - 1 + 1 = m /\ m - 1 \notin Bad
    <3>. HIDE DEF Bad
    <3>. QED
      BY <2>2, <2>3
  <2>5. \E h : Puts(t2, js, m - 1, h)
    BY <2>4
  <2>6. \E g : Puts(t2, js, m - 1 + 1, g)
    BY <2>4, <2>5, PutsExtend
  <2>. QED
    BY <2>3, <2>4, <2>6
<1>3. \E h : Puts(t2, js, n, h)
  BY <1>2
<1>. DEFINE after == CHOOSE h : Puts(t2, js, n, h)
<1>4. PutAll(t2, js) = after[n]
  BY DEF PutAll, Puts, PutFrom
<1>5. Puts(t2, js, n, after)
  BY <1>3, Zenon
<1>. HIDE DEF after
<1>. HIDE DEF n
<1>6. n \in Nat
  BY DEF n
<1>7. after[0] = t2
  BY <1>5, <1>6, PutsAre
<1>8. \A k \in 1..n : after[k] = Put(after[k - 1], js[k])
  BY <1>5, <1>6, PutsAre
<1>. QED
  BY <1>4, <1>7, <1>8 DEF n, PutSteps

\* A list of jobs that are done.
LEMMA PutAllOk ==
  ASSUME NEW t2, Tier2Ok(t2), NEW js, Len(js) \in Nat, \A i \in 1..Len(js) : JobOk(js[i])
  PROVE  /\ Tier2Ok(PutAll(t2, js)) /\ PutAll(t2, js).writer.gen = t2.writer.gen
         /\ PutAll(t2, js).writer.sync = t2.writer.sync
         /\ \A m \in Names : PutAll(t2, js).index[m] = t2.index[m]
                            \/ \E i \in 1..Len(js) : IsData(js[i]) /\ js[i].name = m
<1>. DEFINE n == Len(js)
            same(t) == /\ Tier2Ok(t) /\ t.writer.gen = t2.writer.gen
                       /\ t.writer.sync = t2.writer.sync
                       /\ \A m \in Names : t.index[m] = t2.index[m]
                            \/ \E i \in 1..Len(js) : IsData(js[i]) /\ js[i].name = m
<1>0. PICK after : PutSteps(t2, js, after)
  BY PutAllSteps
<1>1. /\ PutAll(t2, js) = after[n] /\ after[0] = t2
      /\ \A k \in 1..n : after[k] = Put(after[k - 1], js[k])
  BY <1>0 DEF PutSteps
<1>2. same(after[0])
  BY <1>1
<1>3. ASSUME NEW k \in 1..n, same(after[k - 1]) PROVE same(after[k])
  <2>1. PICK t : t = after[k - 1]
    OBVIOUS
  <2>2. PICK j : j = js[k]
    OBVIOUS
  <2>3. PICK new : new = Put(t, j)
    OBVIOUS
  <2>4. after[k] = new /\ JobOk(j) /\ same(t)
    BY <1>1, <1>3, <2>1, <2>2, <2>3
  <2>5. PutOk(t, j, new)
    BY <2>3, <2>4, PutFields
  <2>6. /\ Tier2Ok(new) /\ new.writer.gen = t.writer.gen /\ new.writer.sync = t.writer.sync
        /\ new.index = IF IsData(j) THEN [t.index EXCEPT ![j.name] = Loc(t.writer, j.data)] ELSE t.index
    BY <2>5 DEF PutOk
  <2>7. ASSUME NEW m \in Names
        PROVE  new.index[m] = t2.index[m] \/ \E i \in 1..Len(js) : IsData(js[i]) /\ js[i].name = m
    <3>1. CASE IsData(j) /\ j.name = m
      BY <2>2, <3>1
    <3>2. CASE ~(IsData(j) /\ j.name = m)
      <4>1. t.index \in [Names -> Places]
        BY <2>4 DEF Tier2Ok
      <4>2. new.index[m] = t.index[m]
        BY <2>6, <3>2, <4>1
      <4>. QED
        BY <2>4, <4>2
    <3>. QED
      BY <3>1, <3>2
  <2>. QED
    BY <2>4, <2>6, <2>7
<1>. HIDE DEF same
<1>. DEFINE Bad == {k \in 0..n : ~same(after[k])}
<1>4. Bad = {}
  <2>1. SUFFICES ASSUME Bad # {} PROVE FALSE
    OBVIOUS
  <2>2. PICK m \in Bad : \A k \in Bad : m <= k
    <3>. HIDE DEF Bad
    <3>1. Bad \subseteq Nat
      BY DEF Bad
    <3>. QED
      BY <2>1, <3>1, LeastNatural
  <2>3. m \in 1..n
    BY <1>2, <2>2
  <2>4. m - 1 \in 0..n /\ m - 1 \notin Bad
    <3>. HIDE DEF Bad
    <3>. QED
      BY <2>2, <2>3
  <2>. QED
    BY <1>3, <2>2, <2>3, <2>4
<1>5. same(after[n])
  <2>1. n \in 0..n
    OBVIOUS
  <2>. QED
    BY <1>4, <2>1
<1>. QED
  BY <1>1, <1>5 DEF same

-----------------------------------------------------------------------------
(* The FIFO. *)

KeptFrom(s, n, kept, k) ==
  IF k = 0 THEN <<>>
  ELSE IF s[k] = n THEN kept[k - 1] ELSE Append(kept[k - 1], s[k])
Keeps(s, n, m, kept) == kept = [k \in 0..m |-> KeptFrom(s, n, kept, k)]

\* What is kept of one element more.
LEMMA KeepsExtend ==
  ASSUME NEW s, NEW n, NEW m \in Nat, NEW h, Keeps(s, n, m, h)
  PROVE  \E g : Keeps(s, n, m + 1, g)
<1>. DEFINE g == [k \in 0..(m + 1) |->
                    IF k = m + 1 THEN IF s[m + 1] = n THEN h[m] ELSE Append(h[m], s[m + 1])
                    ELSE h[k]]
<1>1. \A k \in 0..m : h[k] = KeptFrom(s, n, h, k)
  <2>. DEFINE F(k) == KeptFrom(s, n, h, k)
  <2>1. h = [k \in 0..m |-> F(k)]
    BY DEF Keeps
  <2>. HIDE DEF F
  <2>2. \A k \in 0..m : h[k] = F(k)
    BY <2>1
  <2>. QED
    BY <2>2 DEF F
<1>2. ASSUME NEW k \in 0..(m + 1) PROVE g[k] = KeptFrom(s, n, g, k)
  <2>1. CASE k = 0
    <3>1. g[k] = h[0] /\ h[0] = KeptFrom(s, n, h, 0)
      BY <1>1, <2>1
    <3>. QED
      BY <2>1, <3>1 DEF KeptFrom
  <2>2. CASE k # 0
    <3>1. k - 1 \in 0..m /\ k - 1 \in 0..(m + 1) /\ k - 1 # m + 1
      BY <2>2
    <3>2. g[k - 1] = h[k - 1]
      BY <3>1
    <3>3. g[k] = IF s[k] = n THEN h[k - 1] ELSE Append(h[k - 1], s[k])
      <4>1. CASE k = m + 1
        <5>1. k - 1 = m
          BY <4>1
        <5>. QED
          BY <4>1, <5>1
      <4>2. CASE k # m + 1
        <5>1. k \in 0..m
          BY <2>2, <4>2
        <5>2. g[k] = h[k] /\ h[k] = KeptFrom(s, n, h, k)
          BY <1>1, <4>2, <5>1
        <5>. QED
          BY <2>2, <5>2 DEF KeptFrom
      <4>. QED
        BY <4>1, <4>2
    <3>. HIDE DEF g
    <3>. QED
      BY <2>2, <3>2, <3>3 DEF KeptFrom
  <2>. QED
    BY <2>1, <2>2
<1>3. g = [k \in 0..(m + 1) |-> g[k]]
  OBVIOUS
<1>. HIDE DEF g
<1>4. g = [k \in 0..(m + 1) |-> KeptFrom(s, n, g, k)]
  BY <1>2, <1>3
<1>. QED
  BY <1>4 DEF Keeps

\* Without, step by step.
WithoutSteps(s, n, kept) ==
  /\ Without(s, n) = kept[Len(s)] /\ kept[0] = <<>>
  /\ \A k \in 1..Len(s) :
       kept[k] = IF s[k] = n THEN kept[k - 1] ELSE Append(kept[k - 1], s[k])

\* The elements of a list are kept one after the other.
LEMMA WithoutAll ==
  ASSUME NEW s, Len(s) \in Nat, NEW n PROVE \E kept : WithoutSteps(s, n, kept)
<1>. DEFINE l   == Len(s)
            Bad == {m \in Nat : ~(\E h : Keeps(s, n, m, h))}
<1>1. \E h : Keeps(s, n, 0, h)
  <2>. DEFINE h == [k \in 0..0 |-> <<>>]
  <2>1. \A k \in 0..0 : KeptFrom(s, n, h, k) = <<>>
    BY DEF KeptFrom
  <2>2. h = [k \in 0..0 |-> KeptFrom(s, n, h, k)]
    BY <2>1
  <2>. HIDE DEF h
  <2>. QED
    BY <2>2 DEF Keeps
<1>2. Bad = {}
  <2>1. SUFFICES ASSUME Bad # {} PROVE FALSE
    OBVIOUS
  <2>2. PICK m \in Bad : \A k \in Bad : m <= k
    <3>. HIDE DEF Bad
    <3>1. Bad \subseteq Nat
      BY DEF Bad
    <3>. QED
      BY <2>1, <3>1, LeastNatural
  <2>3. m \in Nat /\ m # 0 /\ ~(\E h : Keeps(s, n, m, h))
    BY <1>1, <2>2
  <2>4. m - 1 \in Nat /\ m - 1 + 1 = m /\ m - 1 \notin Bad
    <3>. HIDE DEF Bad
    <3>. QED
      BY <2>2, <2>3
  <2>5. \E h : Keeps(s, n, m - 1, h)
    BY <2>4
  <2>6. \E g : Keeps(s, n, m - 1 + 1, g)
    BY <2>4, <2>5, KeepsExtend
  <2>. QED
    BY <2>3, <2>4, <2>6
<1>3. \E h : Keeps(s, n, l, h)
  BY <1>2
<1>. DEFINE kept == CHOOSE h : Keeps(s, n, l, h)
<1>4. Without(s, n) = kept[l]
  BY DEF Without, Keeps, KeptFrom
<1>5. Keeps(s, n, l, kept)
  BY <1>3, Zenon
<1>. DEFINE F(k) == KeptFrom(s, n, kept, k)
<1>6. kept = [k \in 0..l |-> F(k)]
  BY <1>5 DEF Keeps
<1>. HIDE DEF kept, F
<1>7. \A k \in 0..l : kept[k] = F(k)
  BY <1>6
<1>8. kept[0] = <<>>
  BY <1>7 DEF F, KeptFrom
<1>9. \A k \in 1..l : kept[k] = IF s[k] = n THEN kept[k - 1] ELSE Append(kept[k - 1], s[k])
  <2>1. ASSUME NEW k \in 1..l
        PROVE  kept[k] = IF s[k] = n THEN kept[k - 1] ELSE Append(kept[k - 1], s[k])
    <3>1. k \in 0..l /\ k # 0
      OBVIOUS
    <3>. QED
      BY <1>7, <3>1 DEF F, KeptFrom
  <2>. QED
    BY <2>1
<1>. QED
  BY <1>4, <1>8, <1>9 DEF WithoutSteps

Distinct(s) == IsSeq(s) /\ \A i, j \in 1..Len(s) : s[i] = s[j] => i = j

\* t has the first k elements of s, each once, but not n.
Kept(s, n, k, t) ==
  /\ Distinct(t)
  /\ \A j \in 1..Len(t) : \E i \in 1..k : t[j] = s[i] /\ s[i] # n
  /\ \A i \in 1..k : s[i] # n => \E j \in 1..Len(t) : t[j] = s[i]
  /\ Len(t) = IF \E i \in 1..k : s[i] = n THEN k - 1 ELSE k

\* An element at the end of a sequence.
LEMMA AppendSeq ==
  ASSUME NEW s, IsSeq(s), NEW x
  PROVE  /\ IsSeq(Append(s, x)) /\ Len(Append(s, x)) = Len(s) + 1
         /\ \A i \in 1..Len(s) : Append(s, x)[i] = s[i]
         /\ Append(s, x)[Len(s) + 1] = x
<1>. DEFINE R == {s[i] : i \in 1..Len(s)} \cup {x}
<1>1. s \in Seq(R) /\ x \in R
  BY DEF IsSeq
<1>. HIDE DEF R
<1>2. Append(s, x) \in Seq(R)
  BY <1>1
<1>3. IsSeq(Append(s, x))
  BY <1>2, SeqIsSeq
<1>4. Len(Append(s, x)) = Len(s) + 1
  BY <1>1
<1>5. \A i \in 1..Len(s) : Append(s, x)[i] = s[i]
  BY <1>1
<1>6. Append(s, x)[Len(s) + 1] = x
  BY <1>1
<1>. QED
  BY <1>3, <1>4, <1>5, <1>6

\* One element more is kept, or is the one left out.
LEMMA KeptStep ==
  ASSUME NEW s, Distinct(s), NEW n, NEW k \in 1..Len(s), NEW t, Kept(s, n, k - 1, t),
         NEW u, u = IF s[k] = n THEN t ELSE Append(t, s[k])
  PROVE  Kept(s, n, k, u)
<1>0. Len(s) \in Nat /\ k \in Nat /\ k - 1 \in Nat /\ Len(t) \in Nat /\ IsSeq(t)
  BY DEF Kept, Distinct, IsSeq
<1>1. /\ \A i, j \in 1..Len(t) : t[i] = t[j] => i = j
      /\ \A j \in 1..Len(t) : \E i \in 1..(k - 1) : t[j] = s[i] /\ s[i] # n
      /\ \A i \in 1..(k - 1) : s[i] # n => \E j \in 1..Len(t) : t[j] = s[i]
      /\ Len(t) = IF \E i \in 1..(k - 1) : s[i] = n THEN k - 2 ELSE k - 1
  BY <1>0 DEF Kept, Distinct
<1>2. \A i \in 1..(k - 1) : i \in 1..Len(s) /\ i \in 1..k /\ i # k /\ s[i] # s[k]
  BY <1>0 DEF Distinct
<1>3. \A i \in 1..k : i = k \/ i \in 1..(k - 1)
  BY <1>0
<1>4. k \in 1..k
  BY <1>0
<1>5. CASE s[k] = n
  <2>1. u = t
    BY <1>5
  <2>2. \A i \in 1..(k - 1) : s[i] # n
    BY <1>2, <1>5
  <2>3. Len(u) = k - 1 /\ \E i \in 1..k : s[i] = n
    BY <1>1, <1>4, <1>5, <2>1, <2>2
  <2>4. Distinct(u)
    BY <1>0, <1>1, <2>1 DEF Distinct
  <2>5. \A j \in 1..Len(u) : \E i \in 1..k : u[j] = s[i] /\ s[i] # n
    BY <1>1, <1>2, <2>1
  <2>6. \A i \in 1..k : s[i] # n => \E j \in 1..Len(u) : u[j] = s[i]
    BY <1>1, <1>3, <1>5, <2>1
  <2>. QED
    BY <2>3, <2>4, <2>5, <2>6 DEF Kept
<1>6. CASE s[k] # n
  <2>0. u = Append(t, s[k])
    BY <1>6
  <2>1. /\ IsSeq(u) /\ Len(u) = Len(t) + 1 /\ \A i \in 1..Len(t) : u[i] = t[i]
        /\ u[Len(t) + 1] = s[k]
    BY <1>0, <2>0, AppendSeq
  <2>2. \A j \in 1..Len(u) : j = Len(t) + 1 \/ j \in 1..Len(t)
    BY <1>0, <2>1
  <2>3. \A j \in 1..Len(t) : j \in 1..Len(u) /\ u[j] = t[j]
    BY <1>0, <2>1
  <2>10. ASSUME NEW j \in 1..Len(t) PROVE t[j] # s[k]
    <3>1. PICK i \in 1..(k - 1) : t[j] = s[i]
      BY <1>1
    <3>. QED
      BY <1>2, <3>1
  <2>4. Len(t) + 1 \in 1..Len(u)
    BY <1>0, <2>1
  <2>5. ASSUME NEW i \in 1..Len(u), NEW j \in 1..Len(u), u[i] = u[j] PROVE i = j
    <3>1. CASE i \in 1..Len(t) /\ j \in 1..Len(t)
      BY ZenonT(40), <1>1, <2>3, <2>5, <3>1
    <3>2. CASE i = Len(t) + 1 /\ j \in 1..Len(t)
      BY <2>1, <2>3, <2>5, <2>10, <3>2
    <3>3. CASE j = Len(t) + 1 /\ i \in 1..Len(t)
      BY <2>1, <2>3, <2>5, <2>10, <3>3
    <3>. QED
      BY <2>2, <3>1, <3>2, <3>3
  <2>11. Distinct(u)
    BY <2>1, <2>5 DEF Distinct
  <2>6. ASSUME NEW j \in 1..Len(u) PROVE \E i \in 1..k : u[j] = s[i] /\ s[i] # n
    <3>1. CASE j \in 1..Len(t)
      <4>1. PICK i \in 1..(k - 1) : t[j] = s[i] /\ s[i] # n
        BY <1>1, <3>1
      <4>2. i \in 1..k /\ u[j] = s[i]
        BY <1>2, <2>3, <3>1, <4>1
      <4>. QED
        BY <4>1, <4>2
    <3>2. CASE j = Len(t) + 1
      BY <1>4, <1>6, <2>1, <3>2
    <3>. QED
      BY <2>2, <3>1, <3>2
  <2>7. ASSUME NEW i \in 1..k, s[i] # n PROVE \E j \in 1..Len(u) : u[j] = s[i]
    <3>1. CASE i = k
      BY <2>1, <2>4, <3>1
    <3>2. CASE i \in 1..(k - 1)
      <4>1. PICK j \in 1..Len(t) : t[j] = s[i]
        BY <1>1, <2>7, <3>2
      <4>. QED
        BY <2>3, <4>1
    <3>. QED
      BY <1>3, <3>1, <3>2
  <2>8. (\E i \in 1..k : s[i] = n) <=> (\E i \in 1..(k - 1) : s[i] = n)
    BY <1>2, <1>3, <1>6
  <2>9. Len(u) = IF \E i \in 1..k : s[i] = n THEN k - 1 ELSE k
    BY <1>0, <1>1, <2>1, <2>8
  <2>. QED
    BY <2>6, <2>7, <2>9, <2>11 DEF Kept
<1>. QED
  BY <1>5, <1>6

\* What is left of the FIFO.
LEMMA WithoutKeeps ==
  ASSUME NEW s, Distinct(s), NEW n PROVE Kept(s, n, Len(s), Without(s, n))
<1>. DEFINE l == Len(s)
<1>0. l \in Nat
  BY DEF Distinct, IsSeq
<1>1. PICK kept : WithoutSteps(s, n, kept)
  BY <1>0, WithoutAll
<1>2. /\ Without(s, n) = kept[l] /\ kept[0] = <<>>
      /\ \A k \in 1..l : kept[k] = IF s[k] = n THEN kept[k - 1] ELSE Append(kept[k - 1], s[k])
  BY <1>1 DEF WithoutSteps
<1>. DEFINE Bad == {k \in 0..l : ~Kept(s, n, k, kept[k])}
<1>3. Kept(s, n, 0, kept[0])
  <2>1. IsSeq(<<>>) /\ Len(<<>>) = 0
    BY DEF IsSeq
  <2>. QED
    BY <1>2, <2>1 DEF Kept, Distinct
<1>4. ASSUME NEW k \in 1..l, Kept(s, n, k - 1, kept[k - 1]) PROVE Kept(s, n, k, kept[k])
  BY <1>2, <1>4, KeptStep
<1>5. Bad = {}
  <2>1. SUFFICES ASSUME Bad # {} PROVE FALSE
    OBVIOUS
  <2>2. PICK m \in Bad : \A k \in Bad : m <= k
    <3>. HIDE DEF Bad
    <3>1. Bad \subseteq Nat
      BY DEF Bad
    <3>. QED
      BY <2>1, <3>1, LeastNatural
  <2>3. m \in 1..l
    BY <1>0, <1>3, <2>2
  <2>4. m - 1 \in 0..l /\ m - 1 \notin Bad
    <3>. HIDE DEF Bad
    <3>. QED
      BY <1>0, <2>2, <2>3
  <2>. QED
    BY <1>4, <2>2, <2>3, <2>4
<1>6. l \in 0..l
  BY <1>0
<1>. QED
  BY <1>2, <1>5, <1>6

\* A page that is dropped leaves the FIFO.
LEMMA FifoDrop ==
  ASSUME NEW pages, NEW ord, Fifo(pages, ord), NEW n \in Names, NEW new,
         new[n] = NoPage, \A m \in Names \ {n} : new[m] = pages[m]
  PROVE  /\ Fifo(new, Without(ord, n))
         /\ Len(Without(ord, n)) = IF pages[n] # NoPage THEN Len(ord) - 1 ELSE Len(ord)
<1>1. /\ Distinct(ord) /\ \A i \in 1..Len(ord) : ord[i] \in Names
      /\ \A m \in Names : pages[m] # NoPage <=> \E i \in 1..Len(ord) : ord[i] = m
  BY DEF Fifo, Distinct
<1>2. PICK t : t = Without(ord, n)
  OBVIOUS
<1>3. Kept(ord, n, Len(ord), t)
  BY <1>1, <1>2, WithoutKeeps
<1>4. /\ IsSeq(t) /\ \A i, j \in 1..Len(t) : t[i] = t[j] => i = j
      /\ \A j \in 1..Len(t) : \E i \in 1..Len(ord) : t[j] = ord[i] /\ ord[i] # n
      /\ \A i \in 1..Len(ord) : ord[i] # n => \E j \in 1..Len(t) : t[j] = ord[i]
      /\ Len(t) = IF \E i \in 1..Len(ord) : ord[i] = n THEN Len(ord) - 1 ELSE Len(ord)
  BY <1>3 DEF Kept, Distinct
<1>5. \A j \in 1..Len(t) : t[j] \in Names /\ t[j] # n
  BY <1>1, <1>4
<1>6. ASSUME NEW m \in Names PROVE new[m] # NoPage <=> \E j \in 1..Len(t) : t[j] = m
  <2>1. CASE m = n
    BY <1>5, <2>1
  <2>2. CASE m # n
    <3>1. new[m] # NoPage <=> \E i \in 1..Len(ord) : ord[i] = m
      BY <1>1, <2>2
    <3>2. ASSUME NEW i \in 1..Len(ord), ord[i] = m PROVE \E j \in 1..Len(t) : t[j] = m
      BY <1>4, <2>2, <3>2
    <3>3. ASSUME NEW j \in 1..Len(t), t[j] = m PROVE \E i \in 1..Len(ord) : ord[i] = m
      BY <1>4, <3>3
    <3>. QED
      BY <3>1, <3>2, <3>3
  <2>. QED
    BY <2>1, <2>2
<1>7. Fifo(new, t)
  BY <1>4, <1>5, <1>6 DEF Fifo
<1>8. Len(t) = IF pages[n] # NoPage THEN Len(ord) - 1 ELSE Len(ord)
  BY <1>1, <1>4
<1>. QED
  BY <1>2, <1>7, <1>8

\* A page that is written is in the FIFO, at the end when it is new.
LEMMA FifoAdd ==
  ASSUME NEW pages, NEW ord, Fifo(pages, ord), NEW n \in Names, NEW new,
         new[n] # NoPage, \A m \in Names \ {n} : new[m] = pages[m],
         NEW held, held = IF pages[n] = NoPage THEN Append(ord, n) ELSE ord
  PROVE  /\ Fifo(new, held) /\ Len(ord) \in Nat
         /\ Len(held) = IF pages[n] = NoPage THEN Len(ord) + 1 ELSE Len(ord)
<1>1. /\ IsSeq(ord) /\ \A i \in 1..Len(ord) : ord[i] \in Names
      /\ \A i, j \in 1..Len(ord) : ord[i] = ord[j] => i = j
      /\ \A m \in Names : pages[m] # NoPage <=> \E i \in 1..Len(ord) : ord[i] = m
  BY DEF Fifo
<1>2. Len(ord) \in Nat
  BY <1>1 DEF IsSeq
<1>3. CASE pages[n] # NoPage
  <2>1. \A m \in Names : new[m] # NoPage <=> pages[m] # NoPage
    BY <1>3
  <2>. QED
    BY <1>1, <1>2, <1>3, <2>1 DEF Fifo
<1>4. CASE pages[n] = NoPage
  <2>1. /\ IsSeq(held) /\ Len(held) = Len(ord) + 1 /\ \A i \in 1..Len(ord) : held[i] = ord[i]
        /\ held[Len(ord) + 1] = n
    BY <1>1, <1>4, AppendSeq
  <2>2. \A i \in 1..Len(held) : i \in 1..Len(ord) \/ i = Len(ord) + 1
    BY <1>2, <2>1
  <2>3. \A i \in 1..Len(ord) : i \in 1..Len(held) /\ ord[i] # n
    BY <1>1, <1>2, <1>4, <2>1
  <2>4. Len(ord) + 1 \in 1..Len(held)
    BY <1>2, <2>1
  <2>5. \A i \in 1..Len(held) : held[i] \in Names
    BY <1>1, <2>1, <2>2
  <2>6. ASSUME NEW i \in 1..Len(held), NEW j \in 1..Len(held), held[i] = held[j] PROVE i = j
    <3>1. CASE i \in 1..Len(ord) /\ j \in 1..Len(ord)
      BY <1>1, <2>1, <2>6, <3>1
    <3>2. CASE i = Len(ord) + 1 /\ j \in 1..Len(ord)
      BY <2>1, <2>3, <2>6, <3>2
    <3>3. CASE j = Len(ord) + 1 /\ i \in 1..Len(ord)
      BY <2>1, <2>3, <2>6, <3>3
    <3>. QED
      BY <2>2, <3>1, <3>2, <3>3
  <2>7. ASSUME NEW m \in Names PROVE new[m] # NoPage <=> \E i \in 1..Len(held) : held[i] = m
    <3>1. CASE m = n
      BY <2>1, <2>4, <3>1
    <3>2. CASE m # n
      <4>1. new[m] # NoPage <=> \E i \in 1..Len(ord) : ord[i] = m
        BY <1>1, <3>2
      <4>2. (\E i \in 1..Len(ord) : ord[i] = m) <=> (\E i \in 1..Len(held) : held[i] = m)
        BY <2>1, <2>2, <2>3, <3>2
      <4>. QED
        BY <4>1, <4>2
    <3>. QED
      BY <3>1, <3>2
  <2>. QED
    BY <1>2, <1>4, <2>1, <2>5, <2>6, <2>7 DEF Fifo
<1>. QED
  BY <1>3, <1>4

\* The rest of a sequence.
LEMMA Suffix ==
  ASSUME NEW s, IsSeq(s), NEW v \in 0..Len(s)
  PROVE  /\ IsSeq(SubSeq(s, v + 1, Len(s))) /\ Len(SubSeq(s, v + 1, Len(s))) = Len(s) - v
         /\ \A i \in 1..(Len(s) - v) : SubSeq(s, v + 1, Len(s))[i] = s[v + i]
<1>. DEFINE k   == Len(s) - v
            sub == SubSeq(s, v + 1, Len(s))
<1>1. Len(s) \in Nat /\ v \in Nat /\ k \in Nat /\ v + 1 \in Nat \ {0} /\ v + 1 + k - 1 = Len(s)
  <2>1. Len(s) \in Nat /\ v \in Nat /\ v <= Len(s)
    BY DEF IsSeq
  <2>. QED
    BY <2>1
<1>2. sub = [j \in 1..k |-> s[v + 1 + j - 1]]
  BY <1>1, SubSeqOf
<1>3. \A j \in 1..k : v + 1 + j - 1 = v + j
  BY <1>1
<1>4. sub \in [1..k -> {s[v + 1 + j - 1] : j \in 1..k}]
  BY <1>2
<1>. HIDE DEF sub, k
<1>5. IsSeq(sub) /\ Len(sub) = k
  BY <1>1, <1>4, FunIsSeq
<1>6. \A i \in 1..k : sub[i] = s[v + i]
  BY <1>2, <1>3
<1>. QED
  BY <1>5, <1>6 DEF sub, k

Spilled(pages, out, new) ==
  \A m \in Names : new[m] = IF m \in ToSet(out) THEN NoPage ELSE pages[m]

\* The pages that are spilled leave the FIFO at its front.
LEMMA FifoSpill ==
  ASSUME NEW pages, NEW held, Fifo(pages, held), NEW v \in 0..Len(held),
         NEW out, out = SubSeq(held, 1, v), NEW new, Spilled(pages, out, new)
  PROVE  /\ Fifo(new, SubSeq(held, v + 1, Len(held)))
         /\ IsSeq(out) /\ Len(out) = v /\ \A i \in 1..v : out[i] = held[i]
         /\ Len(SubSeq(held, v + 1, Len(held))) = Len(held) - v
<1>. DEFINE rest == SubSeq(held, v + 1, Len(held))
            h    == Len(held)
<1>. USE DEF Spilled
<1>1. /\ IsSeq(held) /\ \A i \in 1..h : held[i] \in Names
      /\ \A i, j \in 1..h : held[i] = held[j] => i = j
      /\ \A m \in Names : pages[m] # NoPage <=> \E i \in 1..h : held[i] = m
      /\ h \in Nat /\ v \in Nat /\ v <= h
  BY DEF Fifo, IsSeq
<1>2. IsSeq(out) /\ Len(out) = v /\ \A i \in 1..v : out[i] = held[i]
  BY <1>1, Prefix
<1>3. IsSeq(rest) /\ Len(rest) = h - v /\ \A i \in 1..(h - v) : rest[i] = held[v + i]
  BY <1>1, Suffix
<1>. HIDE DEF rest, h
<1>4. \A m \in Names : m \in ToSet(out) <=> \E i \in 1..v : held[i] = m
  <2>1. ToSet(out) = {out[i] : i \in 1..v}
    BY <1>2, ToSetOf
  <2>. QED
    BY <1>2, <2>1
<1>5. /\ \A i \in 1..(h - v) : v + i \in 1..h /\ v + i \notin 1..v
      /\ \A i \in 1..h : i \in 1..v \/ (i - v \in 1..(h - v) /\ v + (i - v) = i)
      /\ \A i \in 1..v : i \in 1..h
      /\ \A i, j \in 1..(h - v) : v + i = v + j => i = j
  BY <1>1
<1>6. \A i \in 1..Len(rest) : rest[i] \in Names
  BY <1>1, <1>3, <1>5
<1>7. ASSUME NEW i \in 1..Len(rest), NEW j \in 1..Len(rest), rest[i] = rest[j] PROVE i = j
  BY <1>1, <1>3, <1>5, <1>7
<1>8. ASSUME NEW m \in Names PROVE new[m] # NoPage <=> \E i \in 1..Len(rest) : rest[i] = m
  <2>1. CASE m \in ToSet(out)
    <3>1. PICK i \in 1..v : held[i] = m
      BY <1>4, <2>1
    <3>2. ASSUME NEW j \in 1..Len(rest), rest[j] = m PROVE FALSE
      <4>1. held[v + j] = held[i] /\ v + j \in 1..h /\ i \in 1..h
        BY <1>3, <1>5, <3>1, <3>2
      <4>2. v + j = i
        BY <1>1, <4>1
      <4>. QED
        BY <1>3, <1>5, <4>2
    <3>. QED
      BY <2>1, <3>2
  <2>2. CASE m \notin ToSet(out)
    <3>1. new[m] = pages[m]
      BY <2>2
    <3>2. ASSUME NEW i \in 1..h, held[i] = m PROVE \E j \in 1..Len(rest) : rest[j] = m
      <4>1. i \notin 1..v
        BY <1>4, <2>2, <3>2
      <4>2. i - v \in 1..Len(rest) /\ rest[i - v] = held[i]
        BY <1>3, <1>5, <4>1
      <4>. QED
        BY <3>2, <4>2
    <3>3. ASSUME NEW j \in 1..Len(rest), rest[j] = m PROVE \E i \in 1..h : held[i] = m
      BY <1>3, <1>5, <3>3
    <3>. QED
      BY <1>1, <3>1, <3>2, <3>3
  <2>. QED
    BY <2>1, <2>2
<1>9. Fifo(new, rest)
  BY <1>3, <1>6, <1>7, <1>8 DEF Fifo
<1>. QED
  BY <1>2, <1>3, <1>9 DEF rest, h

\* The bytes of the pages that are left.
LEMMA BytesLeft ==
  \A h, v \in Nat : v <= h => PageSize * h - v * PageSize = PageSize * (h - v)
<1>1. PageSize \in Nat
  BY VmdirtyAssumption
<1>. QED
  BY <1>1

\* The pages that are spilled, and what is left of the account.
LEMMA VictimsAre ==
  ASSUME NEW held, Len(held) \in Nat
  PROVE  \E v \in 0..Len(held) :
           /\ Victims(held, PageSize * Len(held)) = SubSeq(held, 1, v)
           /\ PageSize * Len(held) - v * PageSize = PageSize * (Len(held) - v)
           /\ PageSize * Len(held) - v * PageSize <= DirtyLimit
<1>. DEFINE h     == Len(held)
            bytes == PageSize * h
            Fits(v) == v = h \/ bytes - v * PageSize <= DirtyLimit
            T     == {v \in 0..h : Fits(v)}
            Is(v) == /\ v \in 0..h /\ Fits(v)
                     /\ \A u \in 0..(v - 1) : bytes - u * PageSize > DirtyLimit
<1>1. PageSize \in Nat /\ DirtyLimit \in Nat /\ bytes \in Nat
  BY VmdirtyAssumption, SpillAssumption
<1>. HIDE DEF bytes, h
<1>2. h \in Nat
  BY DEF h
<1>3. T \subseteq Nat /\ T # {}
  <2>1. h \in 0..h
    BY <1>2
  <2>. QED
    BY <2>1
<1>4. \E v : Is(v)
  <2>1. PICK v \in T : \A u \in T : v <= u
    BY <1>3, LeastNatural
  <2>2. v \in 0..h /\ Fits(v)
    OBVIOUS
  <2>3. ASSUME NEW u \in 0..(v - 1) PROVE bytes - u * PageSize > DirtyLimit
    <3>1. u \in 0..h /\ ~(v <= u) /\ u \in Nat
      BY <1>2, <2>2
    <3>2. ~Fits(u)
      BY <2>1, <3>1
    <3>3. u * PageSize \in Nat
      BY <1>1, <3>1
    <3>. QED
      BY <1>1, <3>2, <3>3
  <2>. QED
    BY <2>2, <2>3
<1>. DEFINE v == CHOOSE v \in 0..h : /\ Fits(v)
                                     /\ \A u \in 0..(v - 1) : bytes - u * PageSize > DirtyLimit
<1>5. Victims(held, bytes) = SubSeq(held, 1, v)
  BY DEF Victims, h
<1>6. v \in 0..h /\ Fits(v)
  BY <1>4, Zenon
<1>. HIDE DEF v
<1>7. v \in Nat /\ v <= h
  BY <1>2, <1>6
<1>8. bytes - v * PageSize = PageSize * (h - v)
  BY <1>2, <1>7, BytesLeft DEF bytes
<1>9. bytes - v * PageSize <= DirtyLimit
  <2>1. CASE v = h
    <3>1. bytes - v * PageSize = 0
      BY <1>1, <1>2, <1>8, <2>1
    <3>. QED
      BY <1>1, <3>1
  <2>. QED
    BY <1>6, <2>1
<1>. QED
  BY <1>5, <1>6, <1>8, <1>9 DEF bytes, h

-----------------------------------------------------------------------------
(* The order of the replay. *)

\* The records that are replayed have a number, and are pages or operations.
Ordered(recs, S) ==
  /\ S \subseteq Nat
  /\ \A i \in S : recs[i].seq \in Nat /\ recs[i].kind \in {"data", "meta"}

\* Before orders such records.
LEMMA BeforeOrders ==
  ASSUME NEW recs, NEW S, Ordered(recs, S)
  PROVE  /\ \A i, j \in S : i # j => Before(recs, i, j) \/ Before(recs, j, i)
         /\ \A i, j, k \in S : Before(recs, i, j) /\ Before(recs, j, k) => Before(recs, i, k)
<1>1. \A i \in S : i \in Nat /\ recs[i].seq \in Nat /\ recs[i].kind \in {"data", "meta"}
  BY DEF Ordered
<1>2. ASSUME NEW i \in S, NEW j \in S, i # j PROVE Before(recs, i, j) \/ Before(recs, j, i)
  <2>1. PICK s, t : s = recs[i].seq /\ t = recs[j].seq
    OBVIOUS
  <2>2. PICK a, b : a = recs[i].kind /\ b = recs[j].kind
    OBVIOUS
  <2>3. /\ s \in Nat /\ t \in Nat /\ i \in Nat /\ j \in Nat
        /\ a \in {"data", "meta"} /\ b \in {"data", "meta"}
    BY <1>1, <2>1, <2>2
  <2>4. CASE s # t
    <3>1. s < t \/ t < s
      BY <2>3, <2>4
    <3>. QED
      BY <2>1, <3>1 DEF Before
  <2>5. CASE s = t /\ a # b
    BY <2>1, <2>2, <2>3, <2>5 DEF Before
  <2>6. CASE s = t /\ a = b
    <3>1. i < j \/ j < i
      BY <1>2, <2>3
    <3>. QED
      BY <2>1, <2>2, <2>6, <3>1 DEF Before
  <2>. QED
    BY <2>4, <2>5, <2>6
<1>3. ASSUME NEW i \in S, NEW j \in S, NEW k \in S, Before(recs, i, j), Before(recs, j, k)
      PROVE  Before(recs, i, k)
  <2>1. PICK s, t, u : s = recs[i].seq /\ t = recs[j].seq /\ u = recs[k].seq
    OBVIOUS
  <2>2. PICK a, b, c : a = recs[i].kind /\ b = recs[j].kind /\ c = recs[k].kind
    OBVIOUS
  <2>3. /\ s \in Nat /\ t \in Nat /\ u \in Nat /\ i \in Nat /\ j \in Nat /\ k \in Nat
        /\ a \in {"data", "meta"} /\ b \in {"data", "meta"} /\ c \in {"data", "meta"}
    BY <1>1, <2>1, <2>2
  <2>4. s < t \/ (s = t /\ a = "data" /\ b = "meta") \/ (s = t /\ a = b /\ i < j)
    BY <1>3, <2>1, <2>2 DEF Before
  <2>5. t < u \/ (t = u /\ b = "data" /\ c = "meta") \/ (t = u /\ b = c /\ j < k)
    BY <1>3, <2>1, <2>2 DEF Before
  <2>6. CASE s < t \/ t < u
    <3>1. s < u
      BY <2>3, <2>4, <2>5, <2>6
    <3>. QED
      BY <2>1, <3>1 DEF Before
  <2>7. CASE s = t /\ t = u /\ a = b /\ b = c /\ i < j /\ j < k
    <3>1. i < k
      BY <2>3, <2>7
    <3>. QED
      BY <2>1, <2>2, <2>7, <3>1 DEF Before
  <2>8. CASE s = t /\ t = u /\ a = "data" /\ c = "meta"
    BY <2>1, <2>2, <2>8 DEF Before
  <2>. QED
    BY <2>4, <2>5, <2>6, <2>7, <2>8
<1>. QED
  BY <1>2, <1>3

\* One of them is behind all others.
LEMMA LatestIs ==
  ASSUME NEW recs, NEW n \in Nat, NEW S, S \subseteq 1..n, Ordered(recs, S), S # {}
  PROVE  \E i \in S : \A j \in S \ {i} : Before(recs, j, i)
<1>. DEFINE Has(k) == (\E i \in S : i <= k) =>
                        \E i \in S : i <= k /\ \A j \in S \ {i} : j <= k => Before(recs, j, i)
            Bad    == {k \in 0..n : ~Has(k)}
<1>1. Has(0)
  OBVIOUS
<1>2. ASSUME NEW k \in 1..n, Has(k - 1) PROVE Has(k)
  <2>1. \A i \in S : i <= k <=> (i <= k - 1 \/ i = k)
    OBVIOUS
  <2>2. CASE k \notin S
    <3>1. \A i \in S : i <= k <=> i <= k - 1
      BY <2>1, <2>2
    <3>. QED
      BY <1>2, <3>1
  <2>3. CASE k \in S /\ ~(\E i \in S : i <= k - 1)
    BY <2>1, <2>3
  <2>4. CASE k \in S /\ \E i \in S : i <= k - 1
    <3>1. PICK i \in S : i <= k - 1 /\ \A j \in S \ {i} : j <= k - 1 => Before(recs, j, i)
      BY <1>2, <2>4
    <3>2. i # k
      BY <3>1
    <3>3. CASE Before(recs, k, i)
      <4>1. \A j \in S \ {i} : j <= k => Before(recs, j, i)
        BY <2>1, <3>1, <3>3
      <4>. QED
        BY <2>1, <3>1, <4>1
    <3>4. CASE Before(recs, i, k)
      <4>1. ASSUME NEW j \in S \ {k}, j <= k PROVE Before(recs, j, k)
        <5>1. CASE j = i
          BY <3>4, <5>1
        <5>2. CASE j # i
          <6>1. j <= k - 1
            BY <2>1, <4>1
          <6>2. Before(recs, j, i)
            BY <3>1, <5>2, <6>1
          <6>. QED
            BY <2>4, <3>4, <6>2, BeforeOrders
        <5>. QED
          BY <5>1, <5>2
      <4>. QED
        BY <2>1, <2>4, <4>1
    <3>. QED
      BY <2>4, <3>2, <3>3, <3>4, BeforeOrders
  <2>. QED
    BY <2>2, <2>3, <2>4
<1>. HIDE DEF Has
<1>3. Bad = {}
  <2>1. SUFFICES ASSUME Bad # {} PROVE FALSE
    OBVIOUS
  <2>2. PICK m \in Bad : \A k \in Bad : m <= k
    <3>. HIDE DEF Bad
    <3>1. Bad \subseteq Nat
      BY DEF Bad
    <3>. QED
      BY <2>1, <3>1, LeastNatural
  <2>3. m \in 1..n
    BY <1>1, <2>2
  <2>4. m - 1 \in 0..n /\ m - 1 \notin Bad
    <3>. HIDE DEF Bad
    <3>. QED
      BY <2>2, <2>3
  <2>. QED
    BY <1>2, <2>2, <2>3, <2>4
<1>4. Has(n)
  <2>1. n \in 0..n
    OBVIOUS
  <2>. QED
    BY <1>3, <2>1
<1>5. \A i \in S : i <= n
  OBVIOUS
<1>. QED
  BY <1>4, <1>5 DEF Has

-----------------------------------------------------------------------------
(* The replay. *)

Latest(recs, S) == CHOOSE i \in S : \A j \in S \ {i} : Before(recs, j, i)

ReplayFrom(recs, after, S) ==
  IF S = {} THEN NothingWritten
  ELSE ReplayRecord(after[S \ {Latest(recs, S)}], recs[Latest(recs, S)])

UpTo(chosen, c) == {S \in SUBSET chosen : Cardinality(S) <= c}
Replays(recs, chosen, c, after) ==
  after = [S \in UpTo(chosen, c) |-> ReplayFrom(recs, after, S)]

\* Records that a replay may take.
Chosen(recs, chosen) ==
  IsSeq(recs) /\ chosen \subseteq 1..Len(recs) /\ Ordered(recs, chosen)

\* They are finitely many, and so are those of any part of them.
LEMMA ChosenFinite ==
  ASSUME NEW recs, NEW chosen, Chosen(recs, chosen), NEW S \in SUBSET chosen
  PROVE  IsFiniteSet(S) /\ Cardinality(S) \in Nat
<1>1. Len(recs) \in Nat /\ S \in SUBSET (1..Len(recs))
  BY DEF Chosen, IsSeq
<1>2. IsFiniteSet(1..Len(recs))
  BY <1>1, FS_Interval
<1>3. IsFiniteSet(S)
  BY <1>1, <1>2, FS_Subset
<1>. QED
  BY <1>3, FS_CardinalityType

\* The sets of records without the latest.
LEMMA WithoutLatest ==
  ASSUME NEW recs, NEW chosen, Chosen(recs, chosen), NEW S \in SUBSET chosen, S # {}
  PROVE  /\ Latest(recs, S) \in S /\ Latest(recs, S) \in chosen
         /\ S \ {Latest(recs, S)} \in SUBSET chosen
         /\ Cardinality(S) \in Nat /\ Cardinality(S) > 0
         /\ Cardinality(S \ {Latest(recs, S)}) = Cardinality(S) - 1
<1>1. Len(recs) \in Nat /\ S \subseteq 1..Len(recs) /\ Ordered(recs, S)
  BY DEF Chosen, IsSeq, Ordered
<1>2. \E i \in S : \A j \in S \ {i} : Before(recs, j, i)
  BY <1>1, LatestIs
<1>3. Latest(recs, S) \in S
  BY <1>2 DEF Latest
<1>5. IsFiniteSet(S)
  BY ChosenFinite
<1>6. Cardinality(S) \in Nat /\ Cardinality(S \ {Latest(recs, S)}) = Cardinality(S) - 1
  BY <1>3, <1>5, FS_CardinalityType, FS_RemoveElement
<1>7. Cardinality(S) # 0
  BY <1>5, FS_EmptySet
<1>. QED
  BY <1>3, <1>6, <1>7

\* Sets of one record more.
LEMMA ReplaysExtend ==
  ASSUME NEW recs, NEW chosen, Chosen(recs, chosen), NEW c \in Nat,
         NEW h, Replays(recs, chosen, c, h)
  PROVE  \E g : Replays(recs, chosen, c + 1, g)
<1>. DEFINE g == [S \in UpTo(chosen, c + 1) |->
                    IF Cardinality(S) = c + 1
                    THEN ReplayRecord(h[S \ {Latest(recs, S)}], recs[Latest(recs, S)])
                    ELSE h[S]]
<1>1. \A S \in UpTo(chosen, c) : h[S] = ReplayFrom(recs, h, S)
  <2>. DEFINE F(S) == ReplayFrom(recs, h, S)
  <2>1. h = [S \in UpTo(chosen, c) |-> F(S)]
    BY DEF Replays
  <2>. HIDE DEF F
  <2>2. \A S \in UpTo(chosen, c) : h[S] = F(S)
    BY <2>1
  <2>. QED
    BY <2>2 DEF F
<1>2. Cardinality({}) = 0 /\ {} \in UpTo(chosen, c) /\ {} \in UpTo(chosen, c + 1)
  BY FS_EmptySet DEF UpTo
<1>3. ASSUME NEW S \in UpTo(chosen, c + 1) PROVE g[S] = ReplayFrom(recs, g, S)
  <2>1. CASE S = {}
    <3>1. g[S] = h[S] /\ h[S] = ReplayFrom(recs, h, S)
      BY <1>1, <1>2, <2>1
    <3>. QED
      BY <2>1, <3>1 DEF ReplayFrom
  <2>2. CASE S # {}
    <3>. DEFINE i == Latest(recs, S)
                R == S \ {i}
    <3>1. S \in SUBSET chosen /\ Cardinality(S) <= c + 1
      BY DEF UpTo
    <3>2. R \in SUBSET chosen /\ Cardinality(S) \in Nat /\ Cardinality(R) = Cardinality(S) - 1
      BY <2>2, <3>1, WithoutLatest
    <3>. HIDE DEF R, i
    <3>3. R \in UpTo(chosen, c) /\ R \in UpTo(chosen, c + 1) /\ Cardinality(R) # c + 1
      BY <3>1, <3>2 DEF UpTo
    <3>4. g[R] = h[R]
      BY <3>3
    <3>5. g[S] = ReplayRecord(h[R], recs[i])
      <4>1. CASE Cardinality(S) = c + 1
        BY <4>1 DEF R, i
      <4>2. CASE Cardinality(S) # c + 1
        <5>1. S \in UpTo(chosen, c)
          BY <3>1, <3>2, <4>2 DEF UpTo
        <5>2. g[S] = h[S] /\ h[S] = ReplayFrom(recs, h, S)
          BY <1>1, <4>2, <5>1
        <5>. QED
          BY <2>2, <5>2 DEF ReplayFrom, R, i
      <4>. QED
        BY <4>1, <4>2
    <3>. HIDE DEF g
    <3>. QED
      BY <2>2, <3>4, <3>5 DEF ReplayFrom, R, i
  <2>. QED
    BY <2>1, <2>2
<1>4. g = [S \in UpTo(chosen, c + 1) |-> g[S]]
  OBVIOUS
<1>. HIDE DEF g
<1>5. g = [S \in UpTo(chosen, c + 1) |-> ReplayFrom(recs, g, S)]
  BY <1>3, <1>4
<1>. QED
  BY <1>5 DEF Replays

\* Replay, step by step.
ReplaySteps(recs, chosen, after) ==
  /\ Replay(recs, chosen) = after[chosen]
  /\ \A S \in SUBSET chosen : after[S] = ReplayFrom(recs, after, S)

\* The records are replayed one after the other.
LEMMA ReplayAll ==
  ASSUME NEW recs, NEW chosen, Chosen(recs, chosen)
  PROVE  \E after : ReplaySteps(recs, chosen, after)
<1>. DEFINE Bad == {c \in Nat : ~(\E h : Replays(recs, chosen, c, h))}
            n   == Cardinality(chosen)
<1>0. IsFiniteSet(chosen) /\ n \in Nat
  BY ChosenFinite
<1>1. \E h : Replays(recs, chosen, 0, h)
  <2>. DEFINE h == [S \in UpTo(chosen, 0) |-> NothingWritten]
  <2>1. ASSUME NEW S \in UpTo(chosen, 0) PROVE ReplayFrom(recs, h, S) = NothingWritten
    <3>1. IsFiniteSet(S) /\ Cardinality(S) <= 0 /\ Cardinality(S) \in Nat
      BY <1>0, FS_Subset, FS_CardinalityType DEF UpTo
    <3>2. S = {}
      BY <3>1, FS_EmptySet
    <3>. QED
      BY <3>2 DEF ReplayFrom
  <2>2. h = [S \in UpTo(chosen, 0) |-> ReplayFrom(recs, h, S)]
    BY <2>1
  <2>. HIDE DEF h
  <2>. QED
    BY <2>2 DEF Replays
<1>2. Bad = {}
  <2>1. SUFFICES ASSUME Bad # {} PROVE FALSE
    OBVIOUS
  <2>2. PICK m \in Bad : \A k \in Bad : m <= k
    <3>. HIDE DEF Bad
    <3>1. Bad \subseteq Nat
      BY DEF Bad
    <3>. QED
      BY <2>1, <3>1, LeastNatural
  <2>3. m \in Nat /\ m # 0 /\ ~(\E h : Replays(recs, chosen, m, h))
    BY <1>1, <2>2
  <2>4. m - 1 \in Nat /\ m - 1 + 1 = m /\ m - 1 \notin Bad
    <3>. HIDE DEF Bad
    <3>. QED
      BY <2>2, <2>3
  <2>5. \E h : Replays(recs, chosen, m - 1, h)
    BY <2>4
  <2>6. \E g : Replays(recs, chosen, m - 1 + 1, g)
    BY <2>4, <2>5, ReplaysExtend
  <2>. QED
    BY <2>3, <2>4, <2>6
<1>3. UpTo(chosen, n) = SUBSET chosen
  <2>1. \A S \in SUBSET chosen : Cardinality(S) <= n
    BY <1>0, FS_Subset
  <2>. QED
    BY <2>1 DEF UpTo
<1>4. \E h : h = [S \in SUBSET chosen |-> ReplayFrom(recs, h, S)]
  <2>1. \E h : Replays(recs, chosen, n, h)
    BY <1>0, <1>2
  <2>. QED
    BY <1>3, <2>1 DEF Replays
<1>. DEFINE after == CHOOSE h : h = [S \in SUBSET chosen |-> ReplayFrom(recs, h, S)]
<1>5. Replay(recs, chosen) = after[chosen]
  BY DEF Replay, ReplayFrom, Latest
<1>6. after = [S \in SUBSET chosen |-> ReplayFrom(recs, after, S)]
  BY <1>4, Zenon
<1>. DEFINE F(S) == ReplayFrom(recs, after, S)
<1>7. after = [S \in SUBSET chosen |-> F(S)]
  BY <1>6
<1>. HIDE DEF after, F
<1>8. \A S \in SUBSET chosen : after[S] = F(S)
  BY <1>7
<1>. QED
  BY <1>5, <1>8 DEF F, ReplaySteps

\* A record changes the content of its entry.
LEMMA RecordReplayed ==
  ASSUME NEW contents \in [Names -> Parts], NEW rec, RecordOk(rec), rec.kind \in {"data", "meta"}
  PROVE  ReplayRecord(contents, rec) \in [Names -> Parts]
<1>. DEFINE old == contents[rec.name]
            new == IF rec.kind = "data"
                   THEN Clamp(Padded(rec.data), Longer(Len(old), Len(rec.data)))
                   ELSE [i \in 1..rec.size |-> IF i <= Len(old) THEN old[i] ELSE 0]
<1>1. rec.name \in Names
  BY DEF RecordOk
<1>2. old \in Parts
  BY <1>1
<1>3. IsSeq(old) /\ Len(old) \in 0..PageSize /\ \A i \in 1..Len(old) : old[i] \in Byte
  BY <1>2, PartFields
<1>. HIDE DEF old
<1>4. new \in Parts
  <2>1. CASE rec.kind = "data"
    <3>1. rec.data \in Parts
      BY <2>1 DEF RecordOk
    <3>2. Padded(rec.data) \in Parts
      BY <3>1, PaddedIsPage, PageIsPart
    <3>3. Longer(Len(old), Len(rec.data)) \in Nat
      <4>1. Len(rec.data) \in 0..PageSize
        BY <3>1, PartFields
      <4>. QED
        BY <1>3, <4>1, VmdirtyAssumption DEF Longer
    <3>. QED
      BY <2>1, <3>2, <3>3, ClampFields
  <2>2. CASE rec.kind = "meta"
    <3>1. rec.size \in 0..PageSize /\ rec.size \in Nat
      BY <2>2, VmdirtyAssumption DEF RecordOk
    <3>2. \A i \in 1..rec.size : (IF i <= Len(old) THEN old[i] ELSE 0) \in Byte
      BY <1>3, <3>1, ValuesAreBytes, VmdirtyAssumption
    <3>3. [i \in 1..rec.size |-> IF i <= Len(old) THEN old[i] ELSE 0] \in [1..rec.size -> Byte]
      BY <3>2
    <3>. QED
      BY <2>2, <3>1, <3>3 DEF Parts
  <2>. QED
    BY <2>1, <2>2
<1>5. ReplayRecord(contents, rec) = [contents EXCEPT ![rec.name] = new]
  BY DEF ReplayRecord, old
<1>. HIDE DEF new
<1>. QED
  BY <1>1, <1>4, <1>5

\* What each record keeps, the replay keeps.
LEMMA ReplayKeeps ==
  ASSUME NEW recs, NEW chosen, Chosen(recs, chosen), NEW T, NothingWritten \in T,
         \A i \in chosen : \A c \in T : ReplayRecord(c, recs[i]) \in T
  PROVE  Replay(recs, chosen) \in T
<1>1. PICK after : ReplaySteps(recs, chosen, after)
  BY ReplayAll
<1>2. /\ Replay(recs, chosen) = after[chosen]
      /\ \A S \in SUBSET chosen : after[S] = ReplayFrom(recs, after, S)
  BY <1>1 DEF ReplaySteps
<1>. DEFINE Bad == {Cardinality(S) : S \in {R \in SUBSET chosen : after[R] \notin T}}
<1>3. \A S \in SUBSET chosen : Cardinality(S) \in Nat
  BY ChosenFinite
<1>4. ASSUME NEW S \in SUBSET chosen, S # {}, after[S \ {Latest(recs, S)}] \in T
      PROVE  after[S] \in T
  <2>1. PICK i : i = Latest(recs, S)
    OBVIOUS
  <2>2. PICK old : old = after[S \ {i}]
    OBVIOUS
  <2>3. i \in chosen
    BY <1>4, <2>1, WithoutLatest
  <2>4. after[S] = ReplayRecord(old, recs[i])
    BY <1>2, <1>4, <2>1, <2>2 DEF ReplayFrom
  <2>. QED
    BY <1>4, <2>1, <2>2, <2>3, <2>4
<1>5. Bad = {}
  <2>1. SUFFICES ASSUME Bad # {} PROVE FALSE
    OBVIOUS
  <2>2. PICK m \in Bad : \A k \in Bad : m <= k
    <3>1. Bad \subseteq Nat
      BY <1>3
    <3>. HIDE DEF Bad
    <3>. QED
      BY <2>1, <3>1, LeastNatural
  <2>3. PICK S \in SUBSET chosen : after[S] \notin T /\ m = Cardinality(S)
    OBVIOUS
  <2>4. S # {}
    BY <1>2, <2>3 DEF ReplayFrom
  <2>5. PICK R : R = S \ {Latest(recs, S)}
    OBVIOUS
  <2>6. R \in SUBSET chosen /\ Cardinality(R) = Cardinality(S) - 1
    BY <2>4, <2>5, WithoutLatest
  <2>7. after[R] \notin T
    BY <1>4, <2>3, <2>4, <2>5
  <2>8. Cardinality(R) \in Bad /\ Cardinality(S) \in Nat
    BY <1>3, <2>6, <2>7
  <2>. HIDE DEF Bad
  <2>9. m <= Cardinality(R)
    BY <2>2, <2>8
  <2>. QED
    BY <2>3, <2>6, <2>8, <2>9
<1>. QED
  BY <1>2, <1>5

\* What is replayed.
LEMMA ReplayTyped ==
  ASSUME NEW recs, NEW chosen, Chosen(recs, chosen), \A i \in chosen : RecordOk(recs[i])
  PROVE  Replay(recs, chosen) \in [Names -> Parts]
<1>1. PICK T : T = [Names -> Parts]
  OBVIOUS
<1>2. NothingWritten \in T
  BY <1>1, EmptyPart DEF NothingWritten
<1>3. ASSUME NEW i \in chosen, NEW c \in T PROVE ReplayRecord(c, recs[i]) \in T
  <2>1. RecordOk(recs[i]) /\ recs[i].kind \in {"data", "meta"} /\ c \in [Names -> Parts]
    BY <1>1 DEF Chosen, Ordered
  <2>. QED
    BY <1>1, <2>1, RecordReplayed
<1>4. Replay(recs, chosen) \in T
  BY <1>2, <1>3, ReplayKeeps
<1>. QED
  BY <1>1, <1>4

\* An entry of which there is no record is empty.
LEMMA ReplayUnnamed ==
  ASSUME NEW recs, NEW chosen, Chosen(recs, chosen), \A i \in chosen : RecordOk(recs[i]),
         NEW n \in Names, \A i \in chosen : recs[i].name # n
  PROVE  Replay(recs, chosen)[n] = <<>>
<1>1. PICK T : T = {c \in [Names -> Parts] : c[n] = <<>>}
  OBVIOUS
<1>2. NothingWritten \in T
  BY <1>1, EmptyPart DEF NothingWritten
<1>3. ASSUME NEW i \in chosen, NEW c \in T PROVE ReplayRecord(c, recs[i]) \in T
  <2>1. PICK rec : rec = recs[i]
    OBVIOUS
  <2>2. RecordOk(rec) /\ rec.kind \in {"data", "meta"} /\ c \in [Names -> Parts] /\ rec.name # n
    BY <1>1, <2>1 DEF Chosen, Ordered
  <2>3. ReplayRecord(c, rec) \in [Names -> Parts]
    BY <2>2, RecordReplayed
  <2>4. ReplayRecord(c, rec)[n] = c[n]
    BY <2>2 DEF ReplayRecord
  <2>. QED
    BY <1>1, <2>1, <2>3, <2>4
<1>4. Replay(recs, chosen) \in T
  BY <1>2, <1>3, ReplayKeeps
<1>. QED
  BY <1>1, <1>4

\* An entry without a record of a page is all zeroes.
LEMMA ReplayZeroes ==
  ASSUME NEW recs, NEW chosen, Chosen(recs, chosen), \A i \in chosen : RecordOk(recs[i]),
         NEW n \in Names, n \notin PagesOf(recs, chosen)
  PROVE  \A i \in 1..Len(Replay(recs, chosen)[n]) : Replay(recs, chosen)[n][i] = 0
<1>1. PICK T : T = {c \in [Names -> Parts] : \A i \in 1..Len(c[n]) : c[n][i] = 0}
  OBVIOUS
<1>2. NothingWritten \in T
  BY <1>1, EmptyPart DEF NothingWritten
<1>3. ASSUME NEW i \in chosen, NEW c \in T PROVE ReplayRecord(c, recs[i]) \in T
  <2>1. PICK rec : rec = recs[i]
    OBVIOUS
  <2>2. RecordOk(rec) /\ rec.kind \in {"data", "meta"} /\ c \in [Names -> Parts]
    BY <1>1, <2>1 DEF Chosen, Ordered
  <2>3. PICK new : new = ReplayRecord(c, rec)
    OBVIOUS
  <2>4. new \in [Names -> Parts]
    BY <2>2, <2>3, RecordReplayed
  <2>5. rec.kind = "data" => rec.name # n
    BY <2>1 DEF PagesOf
  <2>6. ASSUME NEW k \in 1..Len(new[n]) PROVE new[n][k] = 0
    <3>1. CASE rec.name # n
      <4>1. new[n] = c[n]
        BY <2>2, <2>3, <3>1 DEF ReplayRecord
      <4>. QED
        BY <1>1, <2>6, <4>1
    <3>2. CASE rec.name = n
      <4>1. PICK old : old = c[n]
        OBVIOUS
      <4>2. PICK s : s = rec.size
        OBVIOUS
      <4>3. s \in Nat /\ rec.kind # "data"
        BY <2>2, <2>5, <3>2, <4>2, VmdirtyAssumption DEF RecordOk
      <4>4. new[n] = [x \in 1..s |-> IF x <= Len(old) THEN old[x] ELSE 0]
        BY <2>2, <2>3, <3>2, <4>1, <4>2, <4>3 DEF ReplayRecord
      <4>5. Len(new[n]) = s
        BY <4>3, <4>4
      <4>6. new[n][k] = IF k <= Len(old) THEN old[k] ELSE 0
        BY <4>4, <4>5
      <4>7. Len(old) \in Nat
        <5>1. old \in Parts
          BY <2>2, <4>1
        <5>. QED
          BY <5>1, PartFields, VmdirtyAssumption
      <4>8. k <= Len(old) => k \in 1..Len(old)
        BY <4>3, <4>5, <4>7
      <4>. QED
        BY <1>1, <4>1, <4>6, <4>8
    <3>. QED
      BY <3>1, <3>2
  <2>. QED
    BY <1>1, <2>1, <2>3, <2>4, <2>6
<1>4. Replay(recs, chosen) \in T
  BY <1>2, <1>3, ReplayKeeps
<1>. QED
  BY <1>1, <1>4

-----------------------------------------------------------------------------
(* A crash. *)

\* What is on the disk behind a cut is no part of the journal.
LEMMA ImageCut ==
  ASSUME NEW w, WriterOk(w), NEW img \in CrashImages(w, OldRecord)
  PROVE  \E m \in w.durable..Len(w.file) : \E tail :
           Foreign(tail, w.gen) /\ CutImage(img, w.file, m, tail)
<1>1. PICK m \in w.durable..Len(w.file), tail \in {<<>>, <<Junk>>, Encode(OldRecord)} :
        img = SubSeq(w.file, 1, m) \o tail
  BY DEF CrashImages
<1>2. w.gen # 0
  BY DEF WriterOk
<1>3. CASE tail = <<>>
  <2>1. Foreign(tail, w.gen)
    BY <1>3 DEF Foreign, IsSeq
  <2>. QED
    BY <1>1, <2>1 DEF CutImage
<1>4. CASE tail = <<Junk>>
  <2>1. IsSeq(tail) /\ Len(tail) = 1 /\ tail[1] = Junk
    BY <1>4 DEF IsSeq
  <2>2. Foreign(tail, w.gen)
    BY <2>1 DEF Foreign, Junk
  <2>. QED
    BY <1>1, <2>2 DEF CutImage
<1>5. CASE tail = Encode(OldRecord)
  <2>. DEFINE rec == OldRecord
  <2>1. rec.kind = "data" /\ rec.gen = 0 /\ Data(rec) = Padded(<<>>)
    BY DEF OldRecord, DataRecord, Data
  <2>2. Padded(<<>>) \in [1..PageSize -> Byte]
    BY EmptyPart, PaddedIsPage
  <2>3. Len(Data(rec)) \in Nat
    BY <2>1, <2>2, PageIsPart, VmdirtyAssumption
  <2>. HIDE DEF rec
  <2>4. IsSeq(Encode(rec)) /\ Len(Encode(rec)) = Size(rec)
    BY <2>3, EncodeIsSeq
  <2>5. /\ Encode(rec)[1] = HeadCell(rec)
        /\ \A i \in 2..Size(rec) : Encode(rec)[i].cell \in {"byte", "crc"}
        /\ Size(rec) \in Nat
    BY <2>3, EncodeCells, SizeNat
  <2>6. \A i \in 1..Size(rec) : i = 1 \/ i \in 2..Size(rec)
    BY <2>5
  <2>7. Encode(rec)[1].cell = "head" /\ Encode(rec)[1].rec = rec
    BY <2>5 DEF HeadCell
  <2>8. \A i \in 1..Size(rec) :
          Encode(rec)[i].cell = "head" => Len(Data(Encode(rec)[i].rec)) \in Nat /\ Encode(rec)[i].rec.gen # w.gen
    BY <1>2, <2>1, <2>3, <2>5, <2>6, <2>7
  <2>9. Foreign(Encode(rec), w.gen)
    BY <2>4, <2>7, <2>8 DEF Foreign
  <2>. QED
    BY <1>1, <1>5, <2>9 DEF CutImage, rec
<1>. QED
  BY <1>1, <1>3, <1>4, <1>5

\* A file has heads of records only.
LEMMA FileSized ==
  ASSUME NEW file, NEW gen, FileOk(file, gen)
  PROVE  IsSeq(file) /\ Len(file) \in Nat /\ Sized(file) /\ DOMAIN file = 1..Len(file)
<1>1. IsSeq(file) /\ \A i \in 1..Len(file) : CellOk(file[i])
  BY DEF FileOk
<1>2. Len(file) \in Nat /\ DOMAIN file = 1..Len(file)
  BY <1>1 DEF IsSeq
<1>3. ASSUME NEW i \in DOMAIN file, file[i].cell = "head" PROVE Len(Data(file[i].rec)) \in Nat
  <2>1. RecordOk(file[i].rec)
    BY <1>1, <1>2, <1>3 DEF CellOk
  <2>. QED
    BY <2>1, RecordData, VmdirtyAssumption
<1>. QED
  BY <1>1, <1>2, <1>3 DEF Sized

\* A record that the walk finds in the journal of a generation.
Found(rec, gen) ==
  RecordOk(rec) /\ rec.kind \in {"data", "meta", "marker"} /\ rec.gen = gen

\* The walk finds records of the journal only, however it was cut.
LEMMA ImageRecords ==
  ASSUME NEW w, WriterOk(w), NEW img \in CrashImages(w, OldRecord)
  PROVE  IsSeq(RecordsOf(img)) /\ \A i \in 1..Len(RecordsOf(img)) : Found(RecordsOf(img)[i], w.gen)
<1>0. PICK m \in w.durable..Len(w.file) :
        \E tail : Foreign(tail, w.gen) /\ CutImage(img, w.file, m, tail)
  BY ImageCut
<1>1. PICK tail : Foreign(tail, w.gen) /\ CutImage(img, w.file, m, tail)
  BY <1>0
<1>2. FileOk(w.file, w.gen) /\ w.durable \in 2..Len(w.file)
  BY DEF WriterOk
<1>3. IsSeq(w.file) /\ Sized(w.file) /\ Len(w.file) \in Nat
  BY <1>2, FileSized
<1>4. m \in 2..Len(w.file)
  BY <1>2, <1>3
<1>. DEFINE file == w.file
            gen  == w.gen
<1>5. /\ IsSeq(img) /\ Len(img) = m + Len(tail) /\ Len(img) \in Nat /\ Sized(img)
      /\ \A i \in 1..m : img[i] = file[i]
      /\ \A i \in 1..Len(img) : i > m => i - m \in 1..Len(tail) /\ img[i] = tail[i - m]
  BY <1>1, <1>3, <1>4, ImageCells
<1>6. DOMAIN img = 1..Len(img)
  BY <1>5 DEF IsSeq
<1>7. img[1].rec.gen = gen
  <2>1. 1 \in 1..m
    BY <1>3, <1>4
  <2>2. img[1] = HeadCell(Header(gen))
    BY <1>2, <1>5, <2>1 DEF FileOk
  <2>. QED
    BY <2>2 DEF HeadCell, Header
<1>. DEFINE Heads == {i \in DOMAIN img : img[i].cell = "head" /\ Good(img[i].rec, gen)}
            R     == {img[i].rec : i \in Heads}
<1>8. RecordsOf(img) \in Seq(R)
  <2>1. \A i \in DOMAIN img : img[i].cell = "head" /\ Good(img[i].rec, img[1].rec.gen) => img[i].rec \in R
    BY <1>7
  <2>. HIDE DEF R
  <2>. QED
    BY <1>5, <1>6, <2>1, WalkHeads
<1>9. ASSUME NEW r \in R PROVE Found(r, gen)
  <2>1. PICK i \in Heads : r = img[i].rec
    OBVIOUS
  <2>2. i \in 1..Len(img) /\ img[i].cell = "head" /\ Good(r, gen)
    BY <1>6, <2>1
  <2>. HIDE DEF R, Heads
  <2>3. CASE i > m
    <3>1. i - m \in 1..Len(tail) /\ tail[i - m].cell = "head" /\ r = tail[i - m].rec
      BY <1>5, <2>1, <2>2, <2>3
    <3>2. r.gen # gen
      BY <1>1, <3>1 DEF Foreign
    <3>. QED
      BY <2>2, <3>2 DEF Good
  <2>4. CASE ~(i > m)
    <3>1. i \in 1..m /\ i \in 1..Len(file)
      BY <1>3, <1>4, <1>5, <2>2, <2>4
    <3>2. file[i].cell = "head" /\ r = file[i].rec /\ CellOk(file[i])
      BY <1>2, <1>5, <2>1, <2>2, <3>1 DEF FileOk
    <3>. QED
      BY <2>2, <3>2 DEF CellOk, Good, Found
  <2>. QED
    BY <2>3, <2>4
<1>. HIDE DEF R
<1>10. IsSeq(RecordsOf(img)) /\ \A i \in 1..Len(RecordsOf(img)) : RecordsOf(img)[i] \in R
  BY <1>8, SeqIsSeq
<1>. QED
  BY <1>9, <1>10

\* What a handler has replayed.
LEMMA RecoveredChosen ==
  ASSUME NEW recs, IsSeq(recs), NEW gen, \A i \in 1..Len(recs) : Found(recs[i], gen),
         NEW chosen \in Recovered(recs)
  PROVE  /\ Chosen(recs, chosen)
         /\ \A i \in chosen : RecordOk(recs[i]) /\ recs[i].name \in Names
<1>1. DOMAIN recs = 1..Len(recs) /\ Len(recs) \in Nat
  BY DEF IsSeq
<1>2. chosen \subseteq DOMAIN recs \ Markers(recs)
  BY DEF Recovered, Committed, Uncommitted
<1>3. ASSUME NEW i \in chosen
      PROVE  /\ RecordOk(recs[i]) /\ recs[i].name \in Names /\ i \in 1..Len(recs) /\ i \in Nat
             /\ recs[i].seq \in Nat /\ recs[i].kind \in {"data", "meta"}
  <2>1. i \in 1..Len(recs) /\ recs[i].kind # "marker"
    BY <1>1, <1>2 DEF Markers
  <2>2. RecordOk(recs[i]) /\ recs[i].kind \in {"data", "meta"}
    BY <2>1 DEF Found
  <2>. QED
    BY <1>1, <2>1, <2>2 DEF RecordOk
<1>. QED
  BY <1>3 DEF Chosen, Ordered

-----------------------------------------------------------------------------
(* A new journal. *)

\* u is s and t behind it.
Joined(s, t, u) ==
  /\ IsSeq(u) /\ Len(u) = Len(s) + Len(t)
  /\ \A i \in 1..Len(s) : u[i] = s[i]
  /\ \A i \in 1..Len(t) : u[Len(s) + i] = t[i]

\* Sequences that are joined.
LEMMA JoinSeq ==
  ASSUME NEW s, IsSeq(s), NEW t, IsSeq(t) PROVE Joined(s, t, s \o t)
BY ConcatSeq DEF Joined

\* The entry that a Resize record is for.
LEMMA HalfOf ==
  \A l \in Nat : \A i \in 1..(2 * l) : (i + 1) \div 2 \in 1..l
OBVIOUS

\* The jobs of a new journal: sizes, pages and a marker.
RewriteList(pages, contents, js) ==
  /\ IsSeq(js) /\ Len(js) \in Nat \ {0} /\ \A i \in 1..Len(js) : JobOk(js[i])
  /\ js[Len(js)] = MarkerJob /\ Len(js) - 1 - Len(pages) \in Nat
  /\ \A i \in 1..(Len(js) - 1 - Len(pages)) : js[i].job = "resize"
  /\ \A k \in 1..Len(pages) :
       js[Len(js) - 1 - Len(pages) + k] = DataJob("hit", pages[k], contents[pages[k]])
  /\ \A i \in 1..(Len(js) - 1) : js[i].job # "marker"
  /\ \A i \in 1..Len(js) : IsData(js[i]) =>
       \E k \in 1..Len(pages) : js[i] = DataJob("hit", pages[k], contents[pages[k]])

\* An entry has two of them, one to cut it and one to extend it.
LEMMA HalvesOf ==
  \A i \in Nat \ {0} : /\ (2 * i - 1 + 1) \div 2 = i /\ (2 * i - 1) % 2 = 1
                       /\ (2 * i + 1) \div 2 = i /\ (2 * i) % 2 = 0
OBVIOUS

\* The sizes in it: each entry is cut and extended.
SizesFirst(pages, rest, contents, js) ==
  \E names :
    /\ Joined(pages, rest, names) /\ \A i \in 1..Len(names) : names[i] \in Names
    /\ Len(js) - 1 - Len(pages) = 2 * Len(names)
    /\ \A i \in 1..Len(names) :
         /\ js[2 * i - 1] = ResizeJob(names[i], 0)
         /\ js[2 * i] = ResizeJob(names[i], Len(contents[names[i]]))

\* RewriteJobs is such a list.
LEMMA RewriteJobsOk ==
  ASSUME NEW pages, IsSeq(pages), \A i \in 1..Len(pages) : pages[i] \in Names,
         NEW rest, IsSeq(rest), \A i \in 1..Len(rest) : rest[i] \in Names,
         NEW contents \in [Names -> Parts], NEW js, js = RewriteJobs(pages, rest, contents)
  PROVE  RewriteList(pages, contents, js) /\ SizesFirst(pages, rest, contents, js)
<1>. DEFINE names   == pages \o rest
            m       == 2 * Len(names)
            resize(i) == ResizeJob(names[(i + 1) \div 2],
                                   IF i % 2 = 1 THEN 0 ELSE Len(contents[names[(i + 1) \div 2]]))
            resizes == [i \in 1..m |-> resize(i)]
            hit(i)  == DataJob("hit", pages[i], contents[pages[i]])
            hits    == [i \in DOMAIN pages |-> hit(i)]
            both    == resizes \o hits
            mark    == <<MarkerJob>>
<1>1. /\ IsSeq(names) /\ Len(names) = Len(pages) + Len(rest)
      /\ \A i \in 1..Len(pages) : names[i] = pages[i]
      /\ \A i \in 1..Len(rest) : names[Len(pages) + i] = rest[i]
  BY ConcatSeq
<1>2. Len(pages) \in Nat /\ Len(rest) \in Nat /\ Len(names) \in Nat /\ DOMAIN pages = 1..Len(pages)
  BY <1>1 DEF IsSeq
<1>3. js = both \o mark
  <2>1. names = pages \o rest
    OBVIOUS
  <2>2. js = LET nm == pages \o rest
                 rs == [i \in 1..(2 * Len(nm)) |->
                          LET n == nm[(i + 1) \div 2]
                          IN ResizeJob(n, IF i % 2 = 1 THEN 0 ELSE Len(contents[n]))]
             IN rs \o [i \in DOMAIN pages |-> DataJob("hit", pages[i], contents[pages[i]])]
                  \o <<MarkerJob>>
    BY Zenon DEF RewriteJobs
  <2>. QED
    BY <2>2, Zenon
<1>. HIDE DEF names
<1>4. ASSUME NEW i \in 1..Len(names) PROVE names[i] \in Names
  <2>1. CASE i \in 1..Len(pages)
    BY <1>1, <2>1
  <2>2. CASE i \notin 1..Len(pages)
    <3>1. i - Len(pages) \in 1..Len(rest) /\ Len(pages) + (i - Len(pages)) = i
      BY <1>1, <1>2, <2>2
    <3>2. names[i] = rest[i - Len(pages)]
      BY <1>1, <3>1
    <3>. QED
      BY <3>1, <3>2
  <2>. QED
    BY <2>1, <2>2
<1>5. m \in Nat
  BY <1>2
<1>6. ASSUME NEW i \in 1..m PROVE JobOk(resize(i))
  <2>1. PICK n : n = names[(i + 1) \div 2]
    OBVIOUS
  <2>2. (i + 1) \div 2 \in 1..Len(names)
    BY <1>2, HalfOf
  <2>3. n \in Names
    BY <1>4, <2>1, <2>2
  <2>4. contents[n] \in Parts
    BY <2>3
  <2>5. PICK k : k = (IF i % 2 = 1 THEN 0 ELSE Len(contents[n]))
    OBVIOUS
  <2>6. k \in 0..PageSize
    BY <2>4, <2>5, PartFields, VmdirtyAssumption
  <2>7. resize(i) = ResizeJob(n, k)
    BY <2>1, <2>5
  <2>. HIDE DEF resize
  <2>. QED
    BY <2>3, <2>6, <2>7 DEF ResizeJob, JobOk, Jobs, IsData
<1>7. ASSUME NEW i \in 1..Len(pages) PROVE JobOk(hit(i))
  <2>1. PICK n : n = pages[i]
    OBVIOUS
  <2>2. n \in Names /\ contents[n] \in Parts
    BY <2>1
  <2>. QED
    BY <2>1, <2>2 DEF DataJob, JobOk, Jobs, IsData
<1>8. JobOk(MarkerJob)
  BY DEF MarkerJob, JobOk, Jobs, IsData
<1>. HIDE DEF resize, hit, m
<1>9. resizes \in [1..m -> {resize(i) : i \in 1..m}]
  OBVIOUS
<1>10. IsSeq(resizes) /\ Len(resizes) = m /\ \A i \in 1..m : resizes[i] = resize(i)
  <2>1. \A i \in 1..m : resizes[i] = resize(i)
    OBVIOUS
  <2>. HIDE DEF resizes
  <2>. QED
    BY <1>5, <1>9, <2>1, FunIsSeq
<1>11. hits \in [1..Len(pages) -> {hit(i) : i \in 1..Len(pages)}]
  BY <1>2
<1>12. IsSeq(hits) /\ Len(hits) = Len(pages) /\ \A i \in 1..Len(pages) : hits[i] = hit(i)
  <2>1. \A i \in 1..Len(pages) : hits[i] = hit(i)
    BY <1>2
  <2>. HIDE DEF hits
  <2>. QED
    BY ZenonT(40), <1>2, <1>11, <2>1, FunIsSeq
<1>13. IsSeq(mark) /\ Len(mark) = 1 /\ mark[1] = MarkerJob
  BY DEF IsSeq
<1>. HIDE DEF resizes, hits, mark
<1>14. /\ IsSeq(both) /\ Len(both) = m + Len(pages)
       /\ \A i \in 1..m : both[i] = resizes[i]
       /\ \A i \in 1..Len(pages) : both[m + i] = hits[i]
  <2>1. Joined(resizes, hits, both)
    BY <1>10, <1>12, JoinSeq
  <2>. HIDE DEF both
  <2>. QED
    BY <1>10, <1>12, <2>1 DEF Joined
<1>. HIDE DEF both
<1>15. /\ IsSeq(js) /\ Len(js) = Len(both) + 1
       /\ \A i \in 1..Len(both) : js[i] = both[i]
       /\ \A i \in 1..1 : js[Len(both) + i] = mark[i]
  <2>. DEFINE new == both \o mark
  <2>1. Joined(both, mark, new)
    BY <1>13, <1>14, JoinSeq
  <2>2. js = new
    BY <1>3
  <2>. HIDE DEF new
  <2>. QED
    BY <1>13, <2>1, <2>2 DEF Joined
<1>16. Len(both) \in Nat
  BY <1>2, <1>5, <1>14
<1>17. js[Len(both) + 1] = MarkerJob
  BY <1>13, <1>15
<1>19. ASSUME NEW i \in 1..m PROVE ~IsData(resize(i))
  BY DEF resize, ResizeJob, IsData
<1>20. ~IsData(MarkerJob)
  BY DEF MarkerJob, IsData
<1>18. ASSUME NEW i \in 1..Len(js)
       PROVE  JobOk(js[i]) /\ (IsData(js[i]) => \E k \in 1..Len(pages) : js[i] = hit(k))
  <2>1. CASE i \in 1..m
    <3>1. i \in 1..Len(both) /\ js[i] = resize(i)
      BY <1>2, <1>5, <1>10, <1>14, <1>15, <2>1
    <3>. QED
      BY <1>6, <1>19, <2>1, <3>1
  <2>2. CASE i \in 1..Len(both) /\ i \notin 1..m
    <3>1. i - m \in 1..Len(pages) /\ m + (i - m) = i
      BY <1>2, <1>5, <1>14, <2>2
    <3>2. js[i] = hit(i - m)
      BY <1>12, <1>14, <1>15, <2>2, <3>1
    <3>. QED
      BY <1>7, <3>1, <3>2
  <2>3. CASE i = Len(both) + 1
    BY <1>8, <1>17, <1>20, <2>3
  <2>4. i \in 1..Len(both) \/ i = Len(both) + 1
    BY <1>15, <1>16
  <2>. QED
    BY <2>1, <2>2, <2>3, <2>4
<1>21. Len(js) - 1 - Len(pages) = m /\ Len(js) \in Nat \ {0} /\ Len(js) - 1 = Len(both)
  BY <1>2, <1>5, <1>14, <1>15
<1>22. ASSUME NEW i \in 1..m PROVE js[i].job = "resize"
  <2>1. i \in 1..Len(both) /\ js[i] = resize(i)
    BY <1>2, <1>5, <1>10, <1>14, <1>15
  <2>. QED
    BY <2>1 DEF resize, ResizeJob
<1>23. ASSUME NEW k \in 1..Len(pages) PROVE js[m + k] = hit(k)
  <2>1. m + k \in 1..Len(both)
    BY <1>2, <1>5, <1>14
  <2>. QED
    BY <1>12, <1>14, <1>15, <2>1
<1>24. ASSUME NEW i \in 1..Len(both) PROVE js[i].job # "marker"
  <2>1. CASE i \in 1..m
    BY <1>22, <2>1
  <2>2. CASE i \notin 1..m
    <3>1. i - m \in 1..Len(pages) /\ m + (i - m) = i
      BY <1>2, <1>5, <1>14, <2>2
    <3>2. hit(i - m).job = "hit"
      BY DEF hit, DataJob
    <3>3. js[i] = hit(i - m)
      BY <1>23, <3>1
    <3>. QED
      BY <3>2, <3>3
  <2>. QED
    BY <2>1, <2>2
<1>25. js[Len(js)] = MarkerJob
  BY <1>15, <1>17
<1>26. RewriteList(pages, contents, js)
  BY <1>5, <1>15, <1>18, <1>21, <1>22, <1>23, <1>24, <1>25 DEF hit, RewriteList
<1>27. ASSUME NEW i \in 1..m PROVE js[i] = resize(i)
  <2>1. i \in 1..Len(both)
    BY <1>2, <1>5, <1>14
  <2>. QED
    BY <1>10, <1>14, <1>15, <2>1
<1>28. ASSUME NEW i \in 1..Len(names)
       PROVE  /\ js[2 * i - 1] = ResizeJob(names[i], 0)
              /\ js[2 * i] = ResizeJob(names[i], Len(contents[names[i]]))
  <2>1. /\ (2 * i - 1 + 1) \div 2 = i /\ (2 * i - 1) % 2 = 1
        /\ (2 * i + 1) \div 2 = i /\ (2 * i) % 2 = 0
    BY <1>2, HalvesOf
  <2>2. 2 * i - 1 \in 1..m /\ 2 * i \in 1..m
    BY <1>2 DEF m
  <2>3. resize(2 * i - 1) = ResizeJob(names[i], 0)
    BY <2>1 DEF resize
  <2>4. resize(2 * i) = ResizeJob(names[i], Len(contents[names[i]]))
    BY <2>1 DEF resize
  <2>. QED
    BY <1>27, <2>2, <2>3, <2>4
<1>29. Joined(pages, rest, names)
  BY <1>1 DEF Joined
<1>30. SizesFirst(pages, rest, contents, js)
  BY <1>4, <1>21, <1>28, <1>29 DEF SizesFirst, m
<1>. QED
  BY <1>26, <1>30

\* A journal without records.
LEMMA NewTier2Ok ==
  ASSUME NEW gen \in Nat \ {0}, NEW sync \in BOOLEAN
  PROVE  Tier2Ok(NewTier2(gen, sync))
<1>1. PICK t2 : t2 = NewTier2(gen, sync)
  OBVIOUS
<1>2. PICK w : w = NewWriter(gen, sync)
  OBVIOUS
<1>3. t2 = [writer |-> w, index |-> [n \in Names |-> NoLoc], records |-> 0]
  BY <1>1, <1>2 DEF NewTier2
<1>4. t2.writer = w /\ t2.index = [n \in Names |-> NoLoc] /\ t2.records = 0
  BY <1>3
<1>5. WriterOk(w) /\ Len(w.file) = 2
  BY <1>2, NewWriterOk
<1>6. PlaceOk(w.file, NoLoc) /\ NoLoc \in Places
  BY <1>5, VmdirtyAssumption DEF PlaceOk, NoLoc, Places
<1>7. \A n \in Names : PlaceOk(t2.writer.file, t2.index[n])
  BY <1>4, <1>6
<1>8. t2.index \in [Names -> Places]
  BY <1>4, <1>6
<1>. QED
  BY <1>1, <1>3, <1>4, <1>5, <1>7, <1>8 DEF Tier2Ok

\* A new journal in place of the old one.
LEMMA RewrittenOk ==
  ASSUME Tier2Ok(journal),
         NEW pages, IsSeq(pages), \A i \in 1..Len(pages) : pages[i] \in Names,
         NEW rest, IsSeq(rest), \A i \in 1..Len(rest) : rest[i] \in Names,
         NEW contents \in [Names -> Parts], Rewritten(pages, rest, contents)
  PROVE  /\ Tier2Ok(journal') /\ JobsInv' /\ HistoryInv' /\ JobsFit' /\ call' = "none"
         /\ \A n \in Names : InTier2(n)' => \E k \in 1..Len(pages) : pages[k] = n
<1>. DEFINE gen   == journal.writer.gen + 1
            sync  == journal.writer.sync
            fresh == NewTier2(gen, sync)
            js    == RewriteJobs(pages, rest, contents)
<1>1. gen \in Nat \ {0} /\ sync \in BOOLEAN
  BY DEF Tier2Ok, WriterOk
<1>2. Tier2Ok(fresh)
  BY <1>1, NewTier2Ok
<1>3. /\ journal' = PutAll(fresh, js)
      /\ acked' = RecordsFrom(fresh.writer, js) /\ flushed' = Len(js)
      /\ content' = contents /\ marked' = {contents}
      /\ jobs' = <<>> /\ call' = "none"
  BY Zenon DEF Rewritten
<1>. HIDE DEF fresh, js
<1>4. /\ IsSeq(js) /\ Len(js) \in Nat /\ \A i \in 1..Len(js) : JobOk(js[i])
      /\ \A i \in 1..Len(js) : IsData(js[i]) =>
           \E k \in 1..Len(pages) : js[i] = DataJob("hit", pages[k], contents[pages[k]])
  <2>1. RewriteList(pages, contents, js)
    BY RewriteJobsOk DEF js
  <2>. QED
    BY <2>1 DEF RewriteList
<1>5. Tier2Ok(journal')
  BY <1>2, <1>3, <1>4, PutAllOk
<1>8. ASSUME NEW n \in Names, InTier2(n)' PROVE \E k \in 1..Len(pages) : pages[k] = n
  <2>1. fresh.index[n] = NoLoc
    BY DEF fresh, NewTier2
  <2>2. journal'.index[n] # NoLoc
    BY <1>8 DEF InTier2
  <2>3. PICK i \in 1..Len(js) : IsData(js[i]) /\ js[i].name = n
    <3>1. \A m \in Names : PutAll(fresh, js).index[m] = fresh.index[m]
                            \/ \E i \in 1..Len(js) : IsData(js[i]) /\ js[i].name = m
      BY <1>2, <1>4, PutAllOk
    <3>. QED
      BY <1>3, <2>1, <2>2, <3>1
  <2>4. PICK k \in 1..Len(pages) : js[i] = DataJob("hit", pages[k], contents[pages[k]])
    BY <1>4, <2>3
  <2>. QED
    BY <2>3, <2>4 DEF DataJob
<1>9. JobsFit'
  BY <1>3 DEF JobsFit
<1>6. JobsInv'
  <2>1. IsSeq(<<>>) /\ Len(<<>>) = 0
    BY DEF IsSeq
  <2>. QED
    BY <1>3, <2>1 DEF JobsInv, Calls
<1>7. HistoryInv'
  <2>. DEFINE R(i) == Record([fresh.writer EXCEPT !.next = @ + i - 1], js[i])
              recs == [i \in 1..Len(js) |-> R(i)]
  <2>1. acked' = recs
    <3>1. DOMAIN js = 1..Len(js)
      BY <1>4 DEF IsSeq
    <3>. QED
      BY <1>3, <3>1 DEF RecordsFrom
  <2>. HIDE DEF R
  <2>2. recs \in [1..Len(js) -> {R(i) : i \in 1..Len(js)}]
    OBVIOUS
  <2>. HIDE DEF recs
  <2>3. IsSeq(recs) /\ Len(recs) = Len(js)
    BY <1>4, <2>2, FunIsSeq
  <2>4. flushed' \in 0..Len(acked')
    BY <1>3, <1>4, <2>1, <2>3
  <2>5. {content'} \cup marked' \subseteq [Names -> Parts]
    BY <1>3
  <2>6. IsSeq(acked')
    BY <2>1, <2>3
  <2>. QED
    BY <2>4, <2>5, <2>6 DEF HistoryInv, IsSeq
<1>. QED
  BY <1>3, <1>5, <1>6, <1>7, <1>8, <1>9

-----------------------------------------------------------------------------
(* Every state is one of this kind. *)

\* A call begins.
LEMMA BeginOk ==
  ASSUME NEW name \in Calls \ {"none"}, NEW js, IsSeq(js), \A i \in 1..Len(js) : JobOk(js[i]),
         Begin(name, js)
  PROVE  JobsInv' /\ (call' = "none" \/ call' = name)
<1>1. jobs' = js /\ call' = IF js = <<>> THEN "none" ELSE name
  BY DEF Begin
<1>2. JobsInv'
  BY <1>1 DEF JobsInv, Calls, IsSeq
<1>. QED
  BY <1>1, <1>2

\* A list of one job.
LEMMA OneJob ==
  ASSUME NEW j, JobOk(j)
  PROVE  IsSeq(<<j>>) /\ Len(<<j>>) = 1 /\ \A i \in 1..Len(<<j>>) : JobOk(<<j>>[i])
BY DEF IsSeq

\* A resident page.
LEMMA ResidentPage ==
  ASSUME Tier1Inv, NEW n \in Names
  PROVE  /\ n \in Resident <=> tier1[n] # NoPage
         /\ n \in Resident => tier1[n] \in [1..PageSize -> Byte] /\ tier1[n] \in Parts
         /\ size[n] \in 0..PageSize /\ size[n] \in Nat
<1>1. n \in Resident <=> tier1[n] # NoPage
  BY DEF Resident
<1>2. n \in Resident => tier1[n] \in [1..PageSize -> Byte]
  BY <1>1 DEF Tier1Inv
<1>3. size[n] \in 0..PageSize
  BY DEF Tier1Inv
<1>. QED
  BY <1>1, <1>2, <1>3, PageIsPart, VmdirtyAssumption

\* The page of an entry in Tier 2.
LEMMA Tier2PageOk ==
  ASSUME Tier2Ok(journal), NEW n \in Names
  PROVE  Tier2Page(n) \in [1..PageSize -> Byte] /\ Tier2Page(n) \in Parts
<1>1. FileOk(journal.writer.file, journal.writer.gen) /\ PlaceOk(journal.writer.file, journal.index[n])
  BY DEF Tier2Ok, WriterOk
<1>2. ReadPageAt(journal.writer.file, journal.index[n]) \in [1..PageSize -> Byte]
  BY <1>1, PageRead
<1>. QED
  BY <1>2, PageIsPart DEF Tier2Page

\* What is read of an entry.
LEMMA ReadOk ==
  ASSUME Tier1Inv, Tier2Ok(journal), NEW n \in Names PROVE Read(n) \in Parts
<1>1. size[n] \in 0..PageSize /\ size[n] \in Nat
  BY ResidentPage
<1>2. CASE n \in Resident
  <2>1. Clamp(tier1[n], size[n]) \in Parts
    BY <1>1, <1>2, ResidentPage, ClampFields
  <2>. QED
    BY <1>2, <2>1 DEF Read
<1>3. CASE n \notin Resident /\ InTier2(n)
  <2>1. Clamp(Tier2Page(n), size[n]) \in Parts
    BY <1>1, Tier2PageOk, ClampFields
  <2>. QED
    BY <1>3, <2>1 DEF Read
<1>4. CASE n \notin Resident /\ ~InTier2(n)
  <2>1. Read(n) = [i \in 1..size[n] |-> 0]
    BY <1>4 DEF Read
  <2>2. [i \in 1..size[n] |-> 0] \in [1..size[n] -> Byte]
    BY ValuesAreBytes
  <2>. QED
    BY <1>1, <2>1, <2>2 DEF Parts
<1>. QED
  BY <1>2, <1>3, <1>4

\* The copies that a flush makes of the pages in Tier 1, and the marker.
LEMMA CopyJobsOk ==
  ASSUME Tier1Inv
  PROVE  /\ IsSeq(CopyJobs) /\ Len(CopyJobs) = Len(order)
         /\ \A i \in 1..Len(CopyJobs) : JobOk(CopyJobs[i])
         /\ IsSeq(Append(CopyJobs, MarkerJob))
         /\ \A i \in 1..Len(Append(CopyJobs, MarkerJob)) : JobOk(Append(CopyJobs, MarkerJob)[i])
         /\ Len(Append(CopyJobs, MarkerJob)) = Len(CopyJobs) + 1
         /\ Append(CopyJobs, MarkerJob)[Len(CopyJobs) + 1] = MarkerJob
<1>. DEFINE copy(i) == DataJob("copy", order[i], Clamp(tier1[order[i]], size[order[i]]))
            js == CopyJobs
            all == Append(js, MarkerJob)
<1>1. /\ IsSeq(order) /\ \A i \in 1..Len(order) : order[i] \in Names /\ tier1[order[i]] # NoPage
  BY DEF Tier1Inv, Fifo
<1>2. Len(order) \in Nat /\ DOMAIN order = 1..Len(order)
  BY <1>1 DEF IsSeq
<1>3. js = [i \in 1..Len(order) |-> copy(i)]
  BY <1>2 DEF CopyJobs
<1>4. ASSUME NEW i \in 1..Len(order) PROVE JobOk(copy(i))
  <2>1. PICK n : n = order[i]
    OBVIOUS
  <2>2. n \in Names /\ n \in Resident
    BY <1>1, <2>1, ResidentPage
  <2>3. PICK d : d = Clamp(tier1[n], size[n])
    OBVIOUS
  <2>4. d \in Parts
    BY <2>2, <2>3, ResidentPage, ClampFields
  <2>5. copy(i) = DataJob("copy", n, d)
    BY <2>1, <2>3
  <2>. HIDE DEF copy
  <2>. QED
    BY <2>2, <2>4, <2>5 DEF DataJob, JobOk, Jobs, IsData
<1>. HIDE DEF copy
<1>5. js \in [1..Len(order) -> {copy(i) : i \in 1..Len(order)}]
  BY <1>3
<1>6. IsSeq(js) /\ Len(js) = Len(order)
  BY <1>2, <1>5, FunIsSeq
<1>7. \A i \in 1..Len(order) : js[i] = copy(i)
  BY <1>3
<1>. HIDE DEF js
<1>8. \A i \in 1..Len(js) : JobOk(js[i])
  BY <1>4, <1>6, <1>7
<1>9. /\ IsSeq(all) /\ Len(all) = Len(js) + 1 /\ \A i \in 1..Len(js) : all[i] = js[i]
      /\ all[Len(js) + 1] = MarkerJob
  BY <1>6, AppendSeq
<1>10. JobOk(MarkerJob)
  BY DEF MarkerJob, JobOk, Jobs, IsData
<1>11. \A i \in 1..Len(all) : i = Len(js) + 1 \/ i \in 1..Len(js)
  BY <1>2, <1>6, <1>9
<1>12. \A i \in 1..Len(all) : JobOk(all[i])
  BY <1>8, <1>9, <1>10, <1>11
<1>. QED
  BY <1>6, <1>8, <1>9, <1>12 DEF js

\* A write to a page in Tier 1, or to one in neither tier.
LEMMA WriteTier1Type ==
  ASSUME TypeInv, NEW n \in Names, NEW d \in Writes, WriteTier1(n, d) PROVE TypeInv'
<1>. DEFINE new   == n \notin Resident
            held  == IF new THEN Append(order, n) ELSE order
            bytes == IF new THEN dirtyBytes + PageSize ELSE dirtyBytes
            out   == Victims(held, bytes)
            buf   == Applied(IF new THEN Padded(<<>>) ELSE tier1[n], d)
            pages == [tier1 EXCEPT ![n] = buf]
            sizes == [size EXCEPT ![n] = Longer(@, Len(d))]
            job(i) == DataJob("spill", out[i], Clamp(pages[out[i]], sizes[out[i]]))
            js    == [i \in DOMAIN out |-> job(i)]
<1>1. /\ Idle /\ dirty' = dirty \cup {n} /\ size' = sizes
      /\ tier1' = [m \in Names |-> IF m \in ToSet(out) THEN NoPage ELSE pages[m]]
      /\ order' = SubSeq(held, Len(out) + 1, Len(held))
      /\ dirtyBytes' = bytes - Len(out) * PageSize
      /\ Begin("write", js)
      /\ content' = [content EXCEPT ![n] = Clamp(buf, sizes[n])]
      /\ UNCHANGED <<journal, marked, acked, flushed>>
  BY DEF WriteTier1
<1>2. Tier1Inv /\ Tier2Ok(journal) /\ JobsInv /\ HistoryInv
  BY DEF TypeInv
<1>. HIDE DEF out, job, js, sizes, buf, held, bytes, pages
<1>3. size[n] \in 0..PageSize /\ size[n] \in Nat /\ (~new => tier1[n] \in [1..PageSize -> Byte])
  BY <1>2, ResidentPage
<1>4. Len(d) \in 1..PageSize
  BY WritesAreParts
<1>5. sizes \in [Names -> 0..PageSize]
  <2>1. Longer(size[n], Len(d)) \in 0..PageSize
    BY <1>3, <1>4, VmdirtyAssumption DEF Longer
  <2>. QED
    BY <1>2, <2>1 DEF sizes, Tier1Inv
<1>6. buf \in [1..PageSize -> Byte] /\ buf # NoPage /\ buf \in Parts
  <2>1. Padded(<<>>) \in [1..PageSize -> Byte]
    BY EmptyPart, PaddedIsPage
  <2>2. buf \in [1..PageSize -> Byte]
    BY <1>3, <2>1, AppliedIsPage DEF buf
  <2>. QED
    BY <2>2, PageIsPart
<1>7. pages \in [Names -> [1..PageSize -> Byte] \cup {NoPage}] /\ pages[n] = buf
      /\ \A m \in Names \ {n} : pages[m] = tier1[m]
  BY <1>2, <1>6 DEF pages, Tier1Inv
<1>8. Fifo(tier1, order) /\ dirtyBytes = PageSize * Len(order)
  BY <1>2 DEF Tier1Inv
<1>9. new <=> tier1[n] = NoPage
  BY <1>2, ResidentPage
<1>. HIDE DEF new
<1>10. held = IF tier1[n] = NoPage THEN Append(order, n) ELSE order
  BY <1>9 DEF held
<1>11. /\ Fifo(pages, held) /\ Len(order) \in Nat
       /\ Len(held) = IF tier1[n] = NoPage THEN Len(order) + 1 ELSE Len(order)
  <2>1. Fifo(pages, held)
    BY <1>6, <1>7, <1>8, <1>10, FifoAdd
  <2>2. Len(order) \in Nat
    BY <1>8 DEF Fifo, IsSeq
  <2>3. Len(held) = IF tier1[n] = NoPage THEN Len(order) + 1 ELSE Len(order)
    BY <1>6, <1>7, <1>8, <1>10, FifoAdd
  <2>. QED
    BY <2>1, <2>2, <2>3
<1>12. bytes = PageSize * Len(held) /\ Len(held) \in Nat
  <2>1. PageSize * (Len(order) + 1) = PageSize * Len(order) + PageSize
    BY <1>11, VmdirtyAssumption
  <2>. QED
    BY <1>8, <1>9, <1>11, <2>1 DEF bytes
<1>13. PICK v \in 0..Len(held) :
         /\ out = SubSeq(held, 1, v)
         /\ PageSize * Len(held) - v * PageSize = PageSize * (Len(held) - v)
         /\ PageSize * Len(held) - v * PageSize <= DirtyLimit
  BY <1>12, VictimsAre DEF out
<1>14. Spilled(pages, out, tier1')
  BY <1>1 DEF Spilled
<1>15. /\ Fifo(tier1', SubSeq(held, v + 1, Len(held)))
       /\ IsSeq(out) /\ Len(out) = v /\ \A i \in 1..v : out[i] = held[i]
       /\ Len(SubSeq(held, v + 1, Len(held))) = Len(held) - v
  <2>1. Fifo(tier1', SubSeq(held, v + 1, Len(held)))
    BY <1>11, <1>13, <1>14, FifoSpill
  <2>2. IsSeq(out) /\ Len(out) = v /\ \A i \in 1..v : out[i] = held[i]
    BY <1>11, <1>13, Prefix DEF Fifo
  <2>3. Len(SubSeq(held, v + 1, Len(held))) = Len(held) - v
    BY <1>11, <1>13, Suffix DEF Fifo
  <2>. QED
    BY <2>1, <2>2, <2>3
<1>16. Fifo(tier1', order') /\ Len(order') = Len(held) - v
  BY <1>1, <1>15
<1>17. dirtyBytes' = PageSize * Len(order') /\ dirtyBytes' <= DirtyLimit
  BY <1>1, <1>12, <1>13, <1>15, <1>16
<1>18. tier1' \in [Names -> [1..PageSize -> Byte] \cup {NoPage}]
  BY <1>1, <1>7
<1>19. Tier1Inv'
  <2>1. dirty' \subseteq Names /\ size' \in [Names -> 0..PageSize]
    BY <1>1, <1>2, <1>5 DEF Tier1Inv
  <2>. QED
    BY <1>16, <1>17, <1>18, <2>1 DEF Tier1Inv
<1>20. ASSUME NEW i \in 1..v PROVE JobOk(job(i))
  <2>1. PICK m : m = out[i]
    OBVIOUS
  <2>2. i \in 1..Len(held) /\ m = held[i]
    BY <1>12, <1>15, <2>1
  <2>3. m \in Names /\ pages[m] # NoPage
    BY <1>11, <2>2 DEF Fifo
  <2>4. pages[m] \in Parts /\ sizes[m] \in Nat
    BY <1>5, <1>7, <2>3, PageIsPart, VmdirtyAssumption
  <2>5. PICK c : c = Clamp(pages[m], sizes[m])
    OBVIOUS
  <2>6. c \in Parts
    BY <2>4, <2>5, ClampFields
  <2>7. job(i) = DataJob("spill", m, c)
    BY <2>1, <2>5 DEF job
  <2>. QED
    BY <2>3, <2>6, <2>7 DEF DataJob, JobOk, Jobs, IsData
<1>21. DOMAIN out = 1..v /\ v \in Nat
  BY <1>12, <1>15 DEF IsSeq
<1>22. js = [i \in 1..v |-> job(i)]
  BY <1>21 DEF js
<1>23. IsSeq(js) /\ Len(js) = v /\ \A i \in 1..v : js[i] = job(i)
  <2>1. js \in [1..v -> {job(i) : i \in 1..v}] /\ \A i \in 1..v : js[i] = job(i)
    BY <1>22
  <2>. QED
    BY <1>21, <2>1, FunIsSeq
<1>24. JobsInv'
  <2>1. \A i \in 1..Len(js) : JobOk(js[i])
    BY <1>20, <1>23
  <2>2. "write" \in Calls \ {"none"}
    BY DEF Calls
  <2>. QED
    BY <1>1, <1>23, <2>1, <2>2, BeginOk
<1>25. HistoryInv'
  <2>1. sizes[n] \in Nat
    BY <1>5, VmdirtyAssumption
  <2>2. Clamp(buf, sizes[n]) \in Parts
    BY <1>6, <2>1, ClampFields
  <2>3. content' \in [Names -> Parts]
    BY <1>1, <1>2, <2>2 DEF HistoryInv
  <2>. QED
    BY <1>1, <1>2, <2>3 DEF HistoryInv
<1>26. Tier2Ok(journal)'
  BY <1>1, <1>2
<1>27. call' \in {"none", "write"} /\ jobs' = js
  BY <1>1 DEF Begin
<1>28. JobsFit'
  <2>1. \A i \in 1..Len(js) : js[i].job = "spill"
    BY <1>23 DEF job, DataJob
  <2>. QED
    BY <1>27, <2>1 DEF JobsFit
<1>29. SpilledFit'
  <2>1. dirtyBytes' \in Int /\ DirtyLimit \in Int
    BY <1>16, <1>17, <1>12, <1>13, VmdirtyAssumption, SpillAssumption
  <2>2. ~(dirtyBytes' > DirtyLimit)
    BY <1>17, <2>1
  <2>. QED
    BY <2>2 DEF SpilledFit
<1>. QED
  BY <1>19, <1>24, <1>25, <1>26, <1>28, <1>29 DEF TypeInv

\* A write to a page that only Tier 2 has.
LEMMA WriteTier2Type ==
  ASSUME TypeInv, NEW n \in Names, NEW d \in Writes, WriteTier2(n, d) PROVE TypeInv'
<1>. DEFINE c == Clamp(Applied(Tier2Page(n), d), Longer(size[n], Len(d)))
            j == DataJob("hit", n, c)
<1>1. /\ Begin("write", <<j>>) /\ UNCHANGED <<diff, journal, history>>
      /\ n \notin Resident /\ InTier2(n)
  BY DEF WriteTier2
<1>2. Tier1Inv /\ Tier2Ok(journal) /\ JobsInv /\ HistoryInv /\ JobsFit /\ SpilledFit
  BY DEF TypeInv
<1>3. Applied(Tier2Page(n), d) \in Parts
  BY <1>2, Tier2PageOk, AppliedIsPage, PageIsPart
<1>4. Longer(size[n], Len(d)) \in Nat
  <2>1. size[n] \in Nat /\ Len(d) \in 1..PageSize
    BY <1>2, ResidentPage, WritesAreParts
  <2>. QED
    BY <2>1, VmdirtyAssumption DEF Longer
<1>5. c \in Parts
  BY <1>3, <1>4, ClampFields
<1>. HIDE DEF c
<1>6. JobOk(j) /\ j.job = "hit"
  BY <1>5 DEF DataJob, JobOk, Jobs, IsData
<1>. HIDE DEF j
<1>7. JobsInv' /\ (call' = "none" \/ call' = "write")
  <2>1. "write" \in Calls \ {"none"}
    BY DEF Calls
  <2>2. IsSeq(<<j>>) /\ \A i \in 1..Len(<<j>>) : JobOk(<<j>>[i])
    BY <1>6, OneJob
  <2>. QED
    BY <1>1, <2>1, <2>2, BeginOk
<1>8. jobs' = <<j>>
  BY <1>1 DEF Begin
<1>9. JobsFit'
  BY <1>6, <1>7, <1>8 DEF JobsFit
<1>10. dirtyBytes <= DirtyLimit
  <2>1. ~(dirtyBytes > DirtyLimit)
    BY <1>1, <1>2, ResidentPage DEF SpilledFit
  <2>2. Len(order) \in Nat /\ dirtyBytes = PageSize * Len(order)
    BY <1>2 DEF Tier1Inv, Fifo, IsSeq
  <2>3. dirtyBytes \in Nat
    BY <2>2, VmdirtyAssumption
  <2>. QED
    BY <2>1, <2>3, SpillAssumption
<1>11. Tier1Inv'
  BY <1>1, <1>2, <1>10 DEF Tier1Inv, diff
<1>12. (Tier2Ok(journal) /\ HistoryInv)'
  BY <1>1, <1>2 DEF HistoryInv, history
<1>13. SpilledFit'
  BY <1>1, <1>2 DEF SpilledFit, diff, InTier2
<1>. QED
  BY <1>7, <1>9, <1>11, <1>12, <1>13 DEF TypeInv

\* A truncate.
LEMMA TruncateType ==
  ASSUME TypeInv, NEW n \in Names, Truncate(n) PROVE TypeInv'
<1>1. /\ dirty' = dirty \cup {n} /\ size' = [size EXCEPT ![n] = 0]
      /\ tier1' = [tier1 EXCEPT ![n] = NoPage]
      /\ order' = Without(order, n)
      /\ dirtyBytes' = IF n \in Resident THEN dirtyBytes - PageSize ELSE dirtyBytes
      /\ journal' = [journal EXCEPT !.index[n] = NoLoc]
      /\ Begin("truncate", <<ResizeJob(n, 0)>>)
      /\ content' = [content EXCEPT ![n] = <<>>]
      /\ UNCHANGED <<marked, acked, flushed>>
  BY DEF Truncate
<1>2. Tier1Inv /\ Tier2Ok(journal) /\ JobsInv /\ HistoryInv /\ JobsFit /\ SpilledFit
  BY DEF TypeInv
<1>3. n \in Resident <=> tier1[n] # NoPage
  BY <1>2, ResidentPage
<1>4. Fifo(tier1, order) /\ dirtyBytes = PageSize * Len(order) /\ Len(order) \in Nat
  BY <1>2 DEF Tier1Inv, Fifo, IsSeq
<1>5. tier1' \in [Names -> [1..PageSize -> Byte] \cup {NoPage}]
  BY <1>1, <1>2 DEF Tier1Inv
<1>6. tier1'[n] = NoPage /\ \A m \in Names \ {n} : tier1'[m] = tier1[m]
  BY <1>1, <1>2 DEF Tier1Inv
<1>7. PICK new : new = tier1'
  OBVIOUS
<1>8. new[n] = NoPage /\ \A m \in Names \ {n} : new[m] = tier1[m]
  BY <1>6, <1>7
<1>9. Fifo(new, Without(order, n))
  BY <1>4, <1>8, FifoDrop
<1>10. Len(Without(order, n)) = IF tier1[n] # NoPage THEN Len(order) - 1 ELSE Len(order)
  BY <1>4, <1>8, FifoDrop
<1>11. dirtyBytes' = PageSize * Len(order')
  <2>1. PageSize * (Len(order) - 1) = PageSize * Len(order) - PageSize
    BY <1>4, VmdirtyAssumption
  <2>. QED
    BY <1>1, <1>3, <1>4, <1>10, <2>1
<1>12. dirtyBytes' <= dirtyBytes /\ dirtyBytes' \in Int /\ dirtyBytes \in Int
  <2>1. dirtyBytes \in Nat
    BY <1>4, VmdirtyAssumption
  <2>. QED
    BY <1>1, <2>1, VmdirtyAssumption
<1>13. JobsInv' /\ (call' = "none" \/ call' = "truncate") /\ jobs' = <<ResizeJob(n, 0)>>
  <2>1. "truncate" \in Calls \ {"none"}
    BY DEF Calls
  <2>2. JobOk(ResizeJob(n, 0))
    BY VmdirtyAssumption DEF ResizeJob, JobOk, Jobs, IsData
  <2>3. IsSeq(<<ResizeJob(n, 0)>>) /\ \A i \in 1..Len(<<ResizeJob(n, 0)>>) : JobOk(<<ResizeJob(n, 0)>>[i])
    BY <2>2, OneJob
  <2>4. JobsInv' /\ (call' = "none" \/ call' = "truncate")
    BY <1>1, <2>1, <2>3, BeginOk
  <2>. QED
    BY <1>1, <2>4 DEF Begin
<1>14. JobsFit'
  BY <1>13 DEF JobsFit, ResizeJob
<1>15. Tier1Inv'
  <2>1. dirty' \subseteq Names
    BY <1>1, <1>2 DEF Tier1Inv
  <2>2. size' \in [Names -> 0..PageSize]
    BY <1>1, <1>2, VmdirtyAssumption DEF Tier1Inv
  <2>3. Fifo(tier1', order')
    BY <1>1, <1>7, <1>9
  <2>4. call' # "write"
    BY <1>13
  <2>. QED
    BY <1>5, <1>11, <2>1, <2>2, <2>3, <2>4 DEF Tier1Inv
<1>. DEFINE w == journal.writer
            index == [journal.index EXCEPT ![n] = NoLoc]
<1>16. journal' = [writer |-> w, index |-> index, records |-> journal.records]
  BY <1>1, <1>2 DEF Tier2Ok
<1>17. /\ journal'.writer = w /\ journal'.index = index /\ journal'.records = journal.records
  BY <1>16
<1>18. FileOk(w.file, w.gen)
  BY <1>2 DEF Tier2Ok, WriterOk
<1>19. Tier2Ok(journal')
  <2>1. PlaceOk(w.file, NoLoc) /\ NoLoc \in Places
    <3>1. Len(w.file) \in Nat
      BY <1>18, FileSized
    <3>. QED
      BY <3>1, VmdirtyAssumption DEF PlaceOk, NoLoc, Places
  <2>2. index \in [Names -> Places] /\ \A m \in Names : PlaceOk(w.file, index[m])
    BY <1>2, <2>1 DEF Tier2Ok
  <2>3. WriterOk(w) /\ journal.records \in Nat
    BY <1>2 DEF Tier2Ok
  <2>. QED
    BY <1>16, <1>17, <2>2, <2>3 DEF Tier2Ok
<1>20. HistoryInv'
  <2>1. content' \in [Names -> Parts]
    BY <1>1, <1>2, EmptyPart DEF HistoryInv
  <2>. QED
    BY <1>1, <1>2, <2>1 DEF HistoryInv
<1>21. SpilledFit'
  <2>1. ASSUME dirtyBytes' > DirtyLimit, NEW m \in Names, InTier2(m)' PROVE tier1'[m] # NoPage
    <3>1. dirtyBytes > DirtyLimit
      BY <1>12, <2>1, SpillAssumption
    <3>2. m # n
      BY <1>2, <1>17, <2>1 DEF InTier2, Tier2Ok
    <3>3. InTier2(m)
      BY <1>2, <1>17, <2>1, <3>2 DEF InTier2, Tier2Ok
    <3>. QED
      BY <1>2, <1>6, <3>1, <3>2, <3>3 DEF SpilledFit
  <2>. QED
    BY <2>1 DEF SpilledFit
<1>. QED
  BY <1>13, <1>14, <1>15, <1>19, <1>20, <1>21 DEF TypeInv

\* A flush or a compaction begins.
LEMMA FlushType ==
  ASSUME TypeInv, Flush \/ CompactJournal PROVE TypeInv'
<1>. DEFINE js == Append(CopyJobs, MarkerJob)
<1>1. PICK name \in {"flush", "compact"} : Begin(name, js)
  BY DEF Flush, CompactJournal
<1>2. UNCHANGED <<diff, journal, history>>
  BY DEF Flush, CompactJournal
<1>3. Tier1Inv /\ Tier2Ok(journal) /\ JobsInv /\ HistoryInv /\ JobsFit /\ SpilledFit
  BY DEF TypeInv
<1>4. /\ IsSeq(js) /\ \A i \in 1..Len(js) : JobOk(js[i])
      /\ Len(js) = Len(CopyJobs) + 1 /\ js[Len(CopyJobs) + 1] = MarkerJob
      /\ Len(CopyJobs) = Len(order)
  BY <1>3, CopyJobsOk
<1>5. name \in Calls \ {"none"}
  BY DEF Calls
<1>6. \A i \in 1..Len(order) : js[i].job = "copy" /\ tier1[js[i].name] # NoPage
  <2>1. ASSUME NEW i \in 1..Len(order)
        PROVE  js[i] = DataJob("copy", order[i], Clamp(tier1[order[i]], size[order[i]]))
    <3>1. IsSeq(CopyJobs) /\ IsSeq(order) /\ DOMAIN order = 1..Len(order)
      BY <1>3, CopyJobsOk DEF Tier1Inv, Fifo, IsSeq
    <3>2. js[i] = CopyJobs[i]
      BY <1>4, <3>1, AppendSeq
    <3>. HIDE DEF js
    <3>. QED
      BY <3>1, <3>2 DEF CopyJobs
  <2>2. \A i \in 1..Len(order) : tier1[order[i]] # NoPage
    BY <1>3 DEF Tier1Inv, Fifo
  <2>. HIDE DEF js
  <2>3. ASSUME NEW i \in 1..Len(order) PROVE js[i].job = "copy" /\ js[i].name = order[i]
    <3>1. PICK d : d = Clamp(tier1[order[i]], size[order[i]])
      OBVIOUS
    <3>2. js[i] = DataJob("copy", order[i], d)
      BY <2>1, <3>1
    <3>. QED
      BY <3>2 DEF DataJob
  <2>. QED
    BY <2>2, <2>3
<1>. HIDE DEF js
<1>7. JobsInv' /\ (call' = "none" \/ call' = name) /\ jobs' = js
  <2>1. JobsInv' /\ (call' = "none" \/ call' = name)
    BY <1>1, <1>4, <1>5, BeginOk
  <2>. QED
    BY <1>1, <2>1 DEF Begin
<1>8. call' \notin {"write", "truncate"}
  BY <1>7
<1>9. JobsFit'
  <2>1. Len(order) \in Nat
    BY <1>3 DEF Tier1Inv, Fifo, IsSeq
  <2>2. Len(js) - 1 = Len(order) /\ js[Len(js)] = MarkerJob
    BY <1>4, <2>1
  <2>3. tier1' = tier1
    BY <1>2 DEF diff
  <2>. QED
    BY <1>6, <1>7, <1>8, <2>2, <2>3 DEF JobsFit
<1>10. Tier1Inv'
  BY <1>2, <1>3, <1>8 DEF Tier1Inv, diff
<1>11. (Tier2Ok(journal) /\ HistoryInv)'
  BY <1>2, <1>3 DEF HistoryInv, history
<1>12. SpilledFit'
  BY <1>2, <1>3 DEF SpilledFit, diff, InTier2
<1>. QED
  BY <1>7, <1>9, <1>10, <1>11, <1>12 DEF TypeInv

\* A sequence without its first element.
LEMMA TailSeq ==
  ASSUME NEW s, IsSeq(s), s # <<>>
  PROVE  /\ Len(s) \in Nat \ {0} /\ IsSeq(Tail(s)) /\ Len(Tail(s)) = Len(s) - 1
         /\ \A i \in 1..Len(Tail(s)) : Tail(s)[i] = s[i + 1] /\ i + 1 \in 1..Len(s)
<1>. DEFINE R == {s[i] : i \in 1..Len(s)}
<1>1. s \in Seq(R) /\ Len(s) \in Nat
  BY DEF IsSeq
<1>. HIDE DEF R
<1>2. Len(s) # 0
  BY <1>1
<1>3. Tail(s) \in Seq(R) /\ Len(Tail(s)) = Len(s) - 1
  BY <1>1
<1>4. \A i \in 1..(Len(s) - 1) : Tail(s)[i] = s[i + 1]
  BY <1>1
<1>5. IsSeq(Tail(s))
  BY <1>3, SeqIsSeq
<1>6. \A i \in 1..(Len(s) - 1) : i + 1 \in 1..Len(s)
  BY <1>1
<1>. QED
  BY <1>1, <1>2, <1>3, <1>4, <1>5, <1>6

\* The first of the jobs, and those behind it.
LEMMA FirstJob ==
  ASSUME JobsInv, jobs # <<>>
  PROVE  /\ JobOk(Job) /\ Len(jobs) \in Nat \ {0} /\ 1 \in 1..Len(jobs) /\ call # "none"
         /\ IsSeq(Tail(jobs)) /\ Len(Tail(jobs)) = Len(jobs) - 1
         /\ \A i \in 1..Len(Tail(jobs)) : Tail(jobs)[i] = jobs[i + 1] /\ i + 1 \in 1..Len(jobs)
         /\ \A i \in 1..Len(Tail(jobs)) : JobOk(Tail(jobs)[i])
<1>1. IsSeq(jobs) /\ (\A i \in 1..Len(jobs) : JobOk(jobs[i])) /\ call # "none"
  BY DEF JobsInv
<1>2. /\ Len(jobs) \in Nat \ {0} /\ IsSeq(Tail(jobs)) /\ Len(Tail(jobs)) = Len(jobs) - 1
      /\ \A i \in 1..Len(Tail(jobs)) : Tail(jobs)[i] = jobs[i + 1] /\ i + 1 \in 1..Len(jobs)
  BY <1>1, TailSeq
<1>3. 1 \in 1..Len(jobs)
  BY <1>2
<1>. QED
  BY <1>1, <1>2, <1>3 DEF Job

\* The next append of a call comes back.
LEMMA JobsDone ==
  ASSUME JobsInv, JobsFit, jobs # <<>>, UNCHANGED tier1,
         jobs' = Tail(jobs), call' = IF Tail(jobs) = <<>> THEN "none" ELSE call
  PROVE  JobsInv' /\ JobsFit'
<1>1. /\ IsSeq(Tail(jobs)) /\ Len(Tail(jobs)) = Len(jobs) - 1 /\ Len(jobs) \in Nat \ {0}
      /\ \A i \in 1..Len(Tail(jobs)) : Tail(jobs)[i] = jobs[i + 1] /\ i + 1 \in 1..Len(jobs)
      /\ \A i \in 1..Len(Tail(jobs)) : JobOk(Tail(jobs)[i])
      /\ call # "none"
  BY FirstJob
<1>2. PICK t : t = Tail(jobs)
  OBVIOUS
<1>3. /\ IsSeq(t) /\ Len(t) = Len(jobs) - 1 /\ jobs' = t
      /\ \A i \in 1..Len(t) : t[i] = jobs[i + 1] /\ i + 1 \in 1..Len(jobs) /\ JobOk(t[i])
      /\ call' = IF t = <<>> THEN "none" ELSE call
  BY <1>1, <1>2
<1>4. JobsInv'
  BY <1>1, <1>3 DEF JobsInv, Calls
<1>5. ASSUME call' = "write", NEW i \in 1..Len(t) PROVE t[i].job \in {"spill", "hit"}
  BY <1>3, <1>5 DEF JobsFit
<1>6. ASSUME call' = "truncate", NEW i \in 1..Len(t) PROVE t[i].job = "resize"
  BY <1>3, <1>6 DEF JobsFit
<1>7. ASSUME call' \in {"flush", "compact"}
      PROVE  /\ t[Len(t)] = MarkerJob
             /\ \A i \in 1..(Len(t) - 1) : t[i].job = "copy" /\ tier1[t[i].name] # NoPage
  <2>1. t # <<>> /\ call \in {"flush", "compact"}
    BY <1>3, <1>7
  <2>2. /\ jobs[Len(jobs)] = MarkerJob
        /\ \A i \in 1..(Len(jobs) - 1) : jobs[i].job = "copy" /\ tier1[jobs[i].name] # NoPage
    BY <2>1 DEF JobsFit
  <2>3. Len(t) \in 1..Len(t) /\ Len(t) + 1 = Len(jobs)
    <3>1. Len(t) \in Nat \ {0}
      BY <1>3, <2>1, TailSeq
    <3>. QED
      BY <1>1, <1>3, <3>1
  <2>4. t[Len(t)] = MarkerJob
    BY <1>3, <2>2, <2>3
  <2>5. ASSUME NEW i \in 1..(Len(t) - 1) PROVE t[i].job = "copy" /\ tier1[t[i].name] # NoPage
    <3>1. i \in 1..Len(t) /\ i + 1 \in 1..(Len(jobs) - 1)
      BY <1>1, <1>3
    <3>. QED
      BY <1>3, <2>2, <3>1
  <2>. QED
    BY <2>4, <2>5
<1>8. JobsFit'
  BY <1>3, <1>5, <1>6, <1>7 DEF JobsFit
<1>. QED
  BY <1>4, <1>8

\* An append that succeeds.
LEMMA AppendOkType ==
  ASSUME TypeInv, AppendOk PROVE TypeInv'
<1>1. /\ jobs # <<>> /\ journal' = Put(journal, Job)
      /\ jobs' = Tail(jobs) /\ call' = IF Tail(jobs) = <<>> THEN "none" ELSE call
      /\ size' = IF Job.job = "hit" THEN [size EXCEPT ![Job.name] = Len(Job.data)] ELSE size
      /\ content' = IF Job.job = "hit" THEN [content EXCEPT ![Job.name] = Job.data] ELSE content
      /\ acked' = Append(acked, Record(journal.writer, Job))
      /\ marked' = IF Job.job = "marker" THEN {content} ELSE marked
      /\ flushed' = IF FlushReturns THEN Len(acked) + 1 ELSE flushed
      /\ UNCHANGED <<dirty, tier1, order, dirtyBytes, calls>>
  BY DEF AppendOk
<1>2. Tier1Inv /\ Tier2Ok(journal) /\ JobsInv /\ HistoryInv /\ JobsFit /\ SpilledFit
  BY DEF TypeInv
<1>3. JobOk(Job) /\ 1 \in 1..Len(jobs) /\ call # "none"
  BY <1>1, <1>2, FirstJob
<1>4. JobsInv' /\ JobsFit'
  BY <1>1, <1>2, JobsDone
<1>5. PutOk(journal, Job, journal')
  BY <1>1, <1>2, <1>3, PutFields
<1>6. /\ Tier2Ok(journal')
      /\ journal'.index = IF IsData(Job) THEN [journal.index EXCEPT ![Job.name] = Loc(journal.writer, Job.data)]
                          ELSE journal.index
  BY <1>5 DEF PutOk
<1>7. Job.job = "hit" => Job.name \in Names /\ Job.data \in Parts /\ Len(Job.data) \in 0..PageSize
  BY <1>3, PartFields DEF JobOk, IsData
<1>8. Tier1Inv'
  <2>1. size' \in [Names -> 0..PageSize]
    BY <1>1, <1>2, <1>7 DEF Tier1Inv
  <2>2. call' = "write" => call = "write"
    BY <1>1
  <2>. QED
    BY <1>1, <1>2, <2>1, <2>2 DEF Tier1Inv
<1>9. HistoryInv'
  <2>1. content \in [Names -> Parts] /\ marked \subseteq [Names -> Parts] /\ IsSeq(acked)
        /\ flushed \in 0..Len(acked)
    BY <1>2 DEF HistoryInv
  <2>2. content' \in [Names -> Parts]
    BY <1>1, <1>7, <2>1
  <2>3. IsSeq(acked') /\ Len(acked') = Len(acked) + 1 /\ Len(acked) \in Nat
    BY <1>1, <2>1, AppendSeq DEF IsSeq
  <2>4. flushed' \in 0..Len(acked')
    BY <1>1, <2>1, <2>3
  <2>. QED
    BY <1>1, <2>1, <2>2, <2>3, <2>4 DEF HistoryInv
<1>10. SpilledFit'
  <2>1. ASSUME dirtyBytes' > DirtyLimit, NEW m \in Names, InTier2(m)' PROVE tier1'[m] # NoPage
    <3>1. dirtyBytes > DirtyLimit /\ call # "write"
      <4>1. dirtyBytes > DirtyLimit
        BY <1>1, <2>1
      <4>2. Len(order) \in Nat /\ dirtyBytes = PageSize * Len(order)
        BY <1>2 DEF Tier1Inv, Fifo, IsSeq
      <4>3. dirtyBytes \in Nat
        BY <4>2, VmdirtyAssumption
      <4>. QED
        BY <1>2, <4>1, <4>3, SpillAssumption DEF Tier1Inv
    <3>2. CASE IsData(Job) /\ Job.name = m
      <4>1. call \in {"truncate", "flush", "compact"}
        BY <1>2, <1>3, <3>1 DEF JobsInv, Calls
      <4>2. call # "truncate"
        BY <1>2, <1>3, <3>2 DEF JobsFit, IsData, Job
      <4>3. Len(jobs) # 1
        BY <1>2, <3>2, <4>1, <4>2 DEF JobsFit, MarkerJob, IsData, Job
      <4>4. 1 \in 1..(Len(jobs) - 1)
        BY <1>2, <1>3, <4>3 DEF JobsInv, IsSeq
      <4>. QED
        BY <1>1, <1>2, <3>2, <4>1, <4>2, <4>4 DEF JobsFit, Job
    <3>3. CASE ~(IsData(Job) /\ Job.name = m)
      <4>1. journal'.index[m] = journal.index[m]
        BY <1>2, <1>6, <3>3 DEF Tier2Ok
      <4>2. InTier2(m)
        BY <2>1, <4>1 DEF InTier2
      <4>. QED
        BY <1>1, <1>2, <3>1, <4>2 DEF SpilledFit
    <3>. QED
      BY <3>2, <3>3
  <2>. QED
    BY <2>1 DEF SpilledFit
<1>. QED
  BY <1>4, <1>6, <1>8, <1>9, <1>10 DEF TypeInv

\* An append that fails.
LEMMA AppendFailsType ==
  ASSUME TypeInv, NEW how \in Failures, AppendFails(how)
  PROVE  /\ TypeInv' /\ Extends(journal.writer.file, journal'.writer.file)
         /\ journal'.index = journal.index /\ journal'.records = journal.records
<1>. DEFINE w   == journal.writer
            rec == Record(w, Job)
<1>1. /\ jobs # <<>> /\ <<Job.job, how>> \in MayFail
      /\ \E k \in (IF how = "short" THEN 1..(Size(rec) - 1) ELSE {0}) :
           /\ journal' = [journal EXCEPT !.writer =
                IF how = "unsynced" THEN AppendedUnsynced(w, rec)
                ELSE AppendedShort(w, rec, k)]
           /\ marked' = IF how = "unsynced" /\ Job.job = "marker" THEN marked \cup {content} ELSE marked
      /\ jobs' = <<>> /\ call' = "none"
      /\ UNCHANGED <<diff, calls, content, acked, flushed>>
  BY Zenon DEF AppendFails
<1>2. Tier1Inv /\ Tier2Ok(journal) /\ JobsInv /\ HistoryInv /\ JobsFit /\ SpilledFit
  BY DEF TypeInv
<1>3. JobOk(Job)
  BY <1>1, <1>2, FirstJob
<1>4. WriterOk(w) /\ w.next \in Nat \ {0}
  BY <1>2 DEF Tier2Ok, WriterOk
<1>5. RecordOk(rec)
  BY <1>3, <1>4, RecordOfJob
<1>6. Size(rec) \in Nat /\ Size(rec) >= 2
  BY <1>5, RecordCells
<1>. HIDE DEF rec, w
<1>7. PICK new : \E k \in 0..(Size(rec) - 1) :
        /\ k = 0 \/ ShortWrites
        /\ new = AppendedShort(w, rec, k) \/ new = AppendedUnsynced(w, rec)
        /\ journal' = [journal EXCEPT !.writer = new]
  <2>1. PICK k \in (IF how = "short" THEN 1..(Size(rec) - 1) ELSE {0}) :
          journal' = [journal EXCEPT !.writer =
                IF how = "unsynced" THEN AppendedUnsynced(w, rec) ELSE AppendedShort(w, rec, k)]
    BY <1>1
  <2>2. k \in 0..(Size(rec) - 1)
    BY <1>6
  <2>3. k = 0 \/ ShortWrites
    <3>1. Job.job \in Jobs
      BY <1>3 DEF JobOk
    <3>2. how = "short" => ShortWrites
      BY <1>1, <3>1 DEF ShortWrites
    <3>. QED
      BY <3>2
  <2>. QED
    BY <2>1, <2>2, <2>3
<1>8. /\ WriterOk(new) /\ Extends(w.file, new.file)
  BY <1>4, <1>5, <1>7, FailedFields
<1>9. journal' = [writer |-> new, index |-> journal.index, records |-> journal.records]
  BY <1>2, <1>7 DEF Tier2Ok
<1>10. journal'.writer = new /\ journal'.index = journal.index /\ journal'.records = journal.records
  BY <1>9
<1>11. Tier2Ok(journal')
  <2>1. IsSeq(w.file) /\ IsSeq(new.file)
    BY <1>4, <1>8 DEF WriterOk, FileOk
  <2>2. \A n \in Names : PlaceOk(new.file, journal.index[n])
    BY <1>2, <1>8, <2>1, PlaceStays DEF Tier2Ok, w
  <2>. QED
    BY <1>2, <1>8, <1>9, <1>10, <2>2 DEF Tier2Ok
<1>12. JobsInv' /\ JobsFit'
  <2>1. IsSeq(<<>>) /\ Len(<<>>) = 0
    BY DEF IsSeq
  <2>. QED
    BY <1>1, <2>1 DEF JobsInv, JobsFit, Calls
<1>13. HistoryInv'
  BY <1>1, <1>2 DEF HistoryInv
<1>14. Tier1Inv'
  BY <1>1, <1>2 DEF Tier1Inv, diff
<1>15. SpilledFit'
  BY <1>1, <1>2, <1>10 DEF SpilledFit, diff, InTier2
<1>. QED
  BY <1>8, <1>10, <1>11, <1>12, <1>13, <1>14, <1>15 DEF TypeInv, w

\* A list of some names.
LEMMA ListOfNames ==
  ASSUME NEW S, S \subseteq Names, NEW f \in SetToSeqs(S)
  PROVE  /\ Distinct(f) /\ IsSeq(f) /\ Len(f) = Cardinality(S) /\ Len(f) \in Nat
         /\ \A i \in 1..Len(f) : f[i] \in Names /\ f[i] \in S
         /\ \A x \in S : \E i \in 1..Len(f) : f[i] = x
<1>1. IsFiniteSet(S)
  BY SpillAssumption, FS_Subset
<1>2. /\ IsSeq(f) /\ Len(f) = Cardinality(S) /\ Len(f) \in Nat
      /\ \A i \in 1..Len(f) : f[i] \in S
      /\ \A i, j \in 1..Len(f) : f[i] = f[j] => i = j
      /\ \A x \in S : \E i \in 1..Len(f) : f[i] = x
  BY <1>1, ListOf
<1>. QED
  BY <1>2 DEF Distinct

\* The entries that a compaction finds in Tier 2 only.
Spills == {n \in dirty \ Resident : InTier2(n)}

\* Each of S is in one of two lists.
InLists(S, pages, rest) ==
  \A n \in S : (\E i \in 1..Len(pages) : pages[i] = n) \/ (\E i \in 1..Len(rest) : rest[i] = n)

\* The lists of a compaction.
CompactOk(pages, rest) ==
  /\ InLists(dirty, pages, rest)
  /\ Distinct(pages) /\ \A i \in 1..Len(pages) : pages[i] \in Names
  /\ Distinct(rest) /\ \A i \in 1..Len(rest) : rest[i] \in Names
  /\ \A n \in Names : n \in Resident \cup Spills <=> \E i \in 1..Len(pages) : pages[i] = n

\* They are the pages, those of Tier 1 first, and the rest.
LEMMA CompactLists ==
  ASSUME Tier1Inv, NEW more \in SetToSeqs(Spills), NEW rest \in SetToSeqs((dirty \ Resident) \ Spills)
  PROVE  CompactOk(order \o more, rest)
<1>0. PICK pages : pages = order \o more
  OBVIOUS
<1>1. Spills \subseteq Names /\ ((dirty \ Resident) \ Spills) \subseteq Names
  BY DEF Spills, Tier1Inv
<1>2. /\ IsSeq(more) /\ \A i \in 1..Len(more) : more[i] \in Names /\ more[i] \in Spills
      /\ \A i, j \in 1..Len(more) : more[i] = more[j] => i = j
      /\ \A x \in Spills : \E i \in 1..Len(more) : more[i] = x
  BY <1>1, ListOfNames DEF Distinct
<1>3. Distinct(rest) /\ \A i \in 1..Len(rest) : rest[i] \in Names
  BY <1>1, ListOfNames
<1>4. /\ IsSeq(order) /\ \A i \in 1..Len(order) : order[i] \in Names
      /\ \A i, j \in 1..Len(order) : order[i] = order[j] => i = j
      /\ \A n \in Names : n \in Resident <=> \E i \in 1..Len(order) : order[i] = n
  BY ResidentPage DEF Tier1Inv, Fifo
<1>5. Joined(order, more, pages)
  BY <1>0, <1>2, <1>4, JoinSeq
<1>6. /\ IsSeq(pages) /\ Len(pages) = Len(order) + Len(more)
      /\ \A i \in 1..Len(order) : pages[i] = order[i]
      /\ \A i \in 1..Len(more) : pages[Len(order) + i] = more[i]
  BY <1>5 DEF Joined
<1>7. Len(order) \in Nat /\ Len(more) \in Nat
  BY <1>2, <1>4 DEF IsSeq
<1>8. ASSUME NEW i \in 1..Len(pages)
      PROVE  \/ i \in 1..Len(order) /\ pages[i] = order[i] /\ order[i] \in Resident
             \/ /\ i - Len(order) \in 1..Len(more) /\ pages[i] = more[i - Len(order)]
                /\ more[i - Len(order)] \in Spills
  <2>1. CASE i \in 1..Len(order)
    BY <1>4, <1>6, <2>1
  <2>2. CASE i \notin 1..Len(order)
    <3>1. i - Len(order) \in 1..Len(more) /\ Len(order) + (i - Len(order)) = i
      BY <1>6, <1>7, <2>2
    <3>2. pages[i] = more[i - Len(order)]
      BY <1>6, <3>1
    <3>. QED
      BY <1>2, <3>1, <3>2
  <2>. QED
    BY <2>1, <2>2
<1>9. Resident \cap Spills = {}
  BY DEF Spills
<1>10. ASSUME NEW i \in 1..Len(pages), NEW j \in 1..Len(pages), pages[i] = pages[j] PROVE i = j
  <2>1. CASE i \in 1..Len(order) /\ j \in 1..Len(order)
    BY <1>4, <1>6, <1>10, <2>1
  <2>2. CASE i \notin 1..Len(order) /\ j \notin 1..Len(order)
    <3>1. i - Len(order) = j - Len(order)
      BY <1>2, <1>8, <1>10, <2>2
    <3>. QED
      BY <1>6, <1>7, <3>1
  <2>3. CASE i \in 1..Len(order) /\ j \notin 1..Len(order)
    BY <1>4, <1>6, <1>8, <1>9, <1>10, <2>3
  <2>4. CASE i \notin 1..Len(order) /\ j \in 1..Len(order)
    BY <1>4, <1>6, <1>8, <1>9, <1>10, <2>4
  <2>. QED
    BY <2>1, <2>2, <2>3, <2>4
<1>11. \A i \in 1..Len(pages) : pages[i] \in Names /\ pages[i] \in Resident \cup Spills
  BY <1>1, <1>8 DEF Resident
<1>12. ASSUME NEW n \in Resident \cup Spills PROVE \E i \in 1..Len(pages) : pages[i] = n
  <2>1. CASE n \in Resident
    <3>1. PICK i \in 1..Len(order) : order[i] = n
      BY <1>4, <2>1 DEF Resident
    <3>2. i \in 1..Len(pages)
      BY <1>6, <1>7
    <3>. QED
      BY <1>6, <3>1, <3>2
  <2>2. CASE n \in Spills
    <3>1. PICK i \in 1..Len(more) : more[i] = n
      BY <1>2, <2>2
    <3>2. Len(order) + i \in 1..Len(pages)
      BY <1>6, <1>7
    <3>. QED
      BY <1>6, <3>1, <3>2
  <2>. QED
    BY <2>1, <2>2
<1>13. Distinct(pages)
  BY <1>6, <1>10 DEF Distinct
<1>14. \A n \in (dirty \ Resident) \ Spills : \E i \in 1..Len(rest) : rest[i] = n
  BY <1>1, ListOfNames
<1>15. InLists(dirty, pages, rest)
  BY <1>12, <1>14 DEF InLists
<1>. QED
  BY <1>0, <1>3, <1>11, <1>12, <1>13, <1>15 DEF CompactOk

\* A new journal of pages, each of which is there once.
Renewed(pages, rest, contents) ==
  /\ Distinct(pages) /\ \A i \in 1..Len(pages) : pages[i] \in Names
  /\ Distinct(rest) /\ \A i \in 1..Len(rest) : rest[i] \in Names
  /\ contents \in [Names -> Parts] /\ Rewritten(pages, rest, contents)

\* A compaction puts a new journal in the place of the old one.
LEMMA CompactRenews ==
  ASSUME TypeInv, CompactSwap
  PROVE  \E pages, rest :
           CompactOk(pages, rest) /\ Renewed(pages, rest, [n \in Names |-> Read(n)])
<1>1. PICK more \in SetToSeqs(Spills), rest \in SetToSeqs((dirty \ Resident) \ Spills) :
        Rewritten(order \o more, rest, [n \in Names |-> Read(n)])
  BY Zenon DEF CompactSwap, Spills
<1>2. Tier1Inv /\ Tier2Ok(journal)
  BY DEF TypeInv
<1>3. PICK pages : pages = order \o more
  OBVIOUS
<1>4. CompactOk(pages, rest)
  <2>1. CompactOk(order \o more, rest)
    BY <1>2, CompactLists
  <2>. QED
    BY <1>3, <2>1
<1>5. PICK contents : contents = [n \in Names |-> Read(n)]
  OBVIOUS
<1>6. contents \in [Names -> Parts]
  BY <1>2, <1>5, ReadOk
<1>7. Rewritten(pages, rest, contents)
  BY <1>1, <1>3, <1>5
<1>8. Renewed(pages, rest, contents)
  BY <1>4, <1>6, <1>7 DEF Renewed, CompactOk
<1>. QED
  BY <1>4, <1>5, <1>8

\* The type invariant behind a compaction.
LEMMA CompactSwapType ==
  ASSUME TypeInv, CompactSwap PROVE TypeInv'
<1>1. PICK pages, rest : CompactOk(pages, rest) /\ Renewed(pages, rest, [n \in Names |-> Read(n)])
  BY CompactRenews
<1>2. UNCHANGED <<diff, calls>>
  BY DEF CompactSwap
<1>3. Tier1Inv /\ Tier2Ok(journal) /\ JobsInv /\ HistoryInv /\ JobsFit /\ SpilledFit
  BY DEF TypeInv
<1>4. PICK contents : contents = [n \in Names |-> Read(n)]
  OBVIOUS
<1>5. /\ IsSeq(pages) /\ \A i \in 1..Len(pages) : pages[i] \in Names
      /\ IsSeq(rest) /\ \A i \in 1..Len(rest) : rest[i] \in Names
      /\ \A n \in Names : n \in Resident \cup Spills <=> \E i \in 1..Len(pages) : pages[i] = n
  BY <1>1 DEF CompactOk, Distinct
<1>6. contents \in [Names -> Parts] /\ Rewritten(pages, rest, contents)
  BY <1>1, <1>4 DEF Renewed
<1>9. /\ Tier2Ok(journal') /\ JobsInv' /\ HistoryInv' /\ JobsFit' /\ call' = "none"
      /\ \A n \in Names : InTier2(n)' => \E k \in 1..Len(pages) : pages[k] = n
  BY <1>3, <1>5, <1>6, RewrittenOk
<1>10. Tier1Inv'
  BY <1>2, <1>3, <1>9 DEF Tier1Inv, diff
<1>11. SpilledFit'
  <2>1. ASSUME dirtyBytes' > DirtyLimit, NEW m \in Names, InTier2(m)' PROVE tier1'[m] # NoPage
    <3>1. m \in Resident \cup Spills
      BY <1>5, <1>9, <2>1
    <3>2. dirtyBytes' = dirtyBytes /\ tier1' = tier1
      BY <1>2 DEF diff
    <3>3. m \notin Spills
      BY <1>3, <2>1, <3>2, ResidentPage DEF SpilledFit, Spills
    <3>. QED
      BY <3>1, <3>2, <3>3 DEF Resident
  <2>. QED
    BY <2>1 DEF SpilledFit
<1>. QED
  BY <1>3, <1>9, <1>10, <1>11 DEF TypeInv

\* Tier 1 after a recovery.
LEMMA RecoveredTier1 ==
  ASSUME NEW contents \in [Names -> Parts], NEW paged \in SUBSET Names,
         NEW fifo \in SetToSeqs(paged), NEW pages,
         pages = [n \in Names |-> IF n \in paged THEN Padded(contents[n]) ELSE NoPage]
  PROVE  /\ pages \in [Names -> [1..PageSize -> Byte] \cup {NoPage}]
         /\ Fifo(pages, fifo) /\ Len(fifo) = Cardinality(paged)
         /\ \A n \in Names : pages[n] # NoPage <=> n \in paged
<1>1. \A n \in Names : Padded(contents[n]) \in [1..PageSize -> Byte] /\ Padded(contents[n]) # NoPage
  BY PaddedIsPage, PageIsPart
<1>2. \A n \in Names : pages[n] # NoPage <=> n \in paged
  BY <1>1
<1>3. pages \in [Names -> [1..PageSize -> Byte] \cup {NoPage}]
  BY <1>1
<1>4. /\ Distinct(fifo) /\ Len(fifo) = Cardinality(paged)
      /\ \A i \in 1..Len(fifo) : fifo[i] \in Names /\ fifo[i] \in paged
      /\ \A x \in paged : \E i \in 1..Len(fifo) : fifo[i] = x
  BY ListOfNames
<1>5. Fifo(pages, fifo)
  BY <1>2, <1>4 DEF Fifo, Distinct
<1>. QED
  BY <1>2, <1>3, <1>4, <1>5

\* What a crash and the open behind it come to.
CrashStep(recs, chosen, contents, names, paged, fifo, rest) ==
  /\ names = {recs[i].name : i \in chosen} /\ contents = Replay(recs, chosen)
  /\ paged = {n \in PagesOf(recs, chosen) : contents[n] # <<>>}
  /\ dirty' = names /\ size' = [n \in Names |-> Len(contents[n])]
  /\ tier1' = [n \in Names |-> IF n \in paged THEN Padded(contents[n]) ELSE NoPage]
  /\ dirtyBytes' = PageSize * Cardinality(paged)
  /\ order' = fifo /\ Rewritten(fifo, rest, contents)

\* The parts of a crash.
LEMMA CrashParts ==
  ASSUME CrashAndRecover
  PROVE  \E img \in Images : \E chosen \in Recovered(RecordsOf(img)) :
         \E contents, names, paged, fifo, rest :
           /\ fifo \in SetToSeqs(paged) /\ rest \in SetToSeqs(names \ paged)
           /\ CrashStep(RecordsOf(img), chosen, contents, names, paged, fifo, rest)
<1>1. PICK recs \in {RecordsOf(img) : img \in Images} : \E chosen \in Recovered(recs) :
       LET names    == {recs[i].name : i \in chosen}
           contents == Replay(recs, chosen)
           paged    == {n \in PagesOf(recs, chosen) : contents[n] # <<>>}
       IN /\ dirty' = names
          /\ size' = [n \in Names |-> Len(contents[n])]
          /\ tier1' = [n \in Names |->
               IF n \in paged THEN Padded(contents[n]) ELSE NoPage]
          /\ dirtyBytes' = PageSize * Cardinality(paged)
          /\ \E fifo \in SetToSeqs(paged) : \E rest \in SetToSeqs(names \ paged) :
               order' = fifo /\ Rewritten(fifo, rest, contents)
  BY Zenon DEF CrashAndRecover
<1>2. PICK chosen \in Recovered(recs) :
       LET names    == {recs[i].name : i \in chosen}
           contents == Replay(recs, chosen)
           paged    == {n \in PagesOf(recs, chosen) : contents[n] # <<>>}
       IN /\ dirty' = names
          /\ size' = [n \in Names |-> Len(contents[n])]
          /\ tier1' = [n \in Names |->
               IF n \in paged THEN Padded(contents[n]) ELSE NoPage]
          /\ dirtyBytes' = PageSize * Cardinality(paged)
          /\ \E fifo \in SetToSeqs(paged) : \E rest \in SetToSeqs(names \ paged) :
               order' = fifo /\ Rewritten(fifo, rest, contents)
  BY <1>1, Zenon
<1>3. PICK img \in Images : recs = RecordsOf(img)
  OBVIOUS
<1>4. PICK names : names = {recs[i].name : i \in chosen}
  OBVIOUS
<1>5. PICK contents : contents = Replay(recs, chosen)
  OBVIOUS
<1>6. PICK paged : paged = {n \in PagesOf(recs, chosen) : contents[n] # <<>>}
  OBVIOUS
<1>7. /\ dirty' = names /\ size' = [n \in Names |-> Len(contents[n])]
      /\ tier1' = [n \in Names |-> IF n \in paged THEN Padded(contents[n]) ELSE NoPage]
      /\ dirtyBytes' = PageSize * Cardinality(paged)
      /\ \E fifo \in SetToSeqs(paged) : \E rest \in SetToSeqs(names \ paged) :
           order' = fifo /\ Rewritten(fifo, rest, contents)
  BY <1>2, <1>4, <1>5, <1>6
<1>8. PICK fifo \in SetToSeqs(paged), rest \in SetToSeqs(names \ paged) :
        order' = fifo /\ Rewritten(fifo, rest, contents)
  BY <1>7
<1>9. CrashStep(recs, chosen, contents, names, paged, fifo, rest)
  BY <1>4, <1>5, <1>6, <1>7, <1>8 DEF CrashStep
<1>. QED
  BY <1>3, <1>8, <1>9

\* What was recovered, and the new journal of it.
CrashFits(recs, chosen, contents, names, paged, fifo, rest) ==
  /\ CrashStep(recs, chosen, contents, names, paged, fifo, rest)
  /\ \E img \in Images : recs = RecordsOf(img)
  /\ chosen \in Recovered(recs) /\ IsSeq(recs) /\ Chosen(recs, chosen)
  /\ \A i \in chosen : RecordOk(recs[i]) /\ recs[i].name \in Names
  /\ names \subseteq Names /\ paged \subseteq Names /\ fifo \in SetToSeqs(paged)
  /\ InLists(names, fifo, rest)
  /\ \A i \in 1..Len(fifo) : fifo[i] \in paged
  /\ Renewed(fifo, rest, contents)

\* A crash and the open behind it.
LEMMA CrashRenews ==
  ASSUME TypeInv, CrashAndRecover
  PROVE  \E recs, chosen, contents, names, paged, fifo, rest :
           CrashFits(recs, chosen, contents, names, paged, fifo, rest)
<1>1. PICK img \in Images : \E chosen \in Recovered(RecordsOf(img)) :
         \E contents, names, paged, fifo, rest :
           /\ fifo \in SetToSeqs(paged) /\ rest \in SetToSeqs(names \ paged)
           /\ CrashStep(RecordsOf(img), chosen, contents, names, paged, fifo, rest)
  BY CrashParts
<1>2. PICK recs : recs = RecordsOf(img)
  OBVIOUS
<1>3. PICK chosen \in Recovered(recs) : \E contents, names, paged, fifo, rest :
           /\ fifo \in SetToSeqs(paged) /\ rest \in SetToSeqs(names \ paged)
           /\ CrashStep(recs, chosen, contents, names, paged, fifo, rest)
  BY <1>1, <1>2
<1>4. PICK contents, names, paged, fifo, rest :
        /\ fifo \in SetToSeqs(paged) /\ rest \in SetToSeqs(names \ paged)
        /\ CrashStep(recs, chosen, contents, names, paged, fifo, rest)
  BY <1>3
<1>5. /\ names = {recs[i].name : i \in chosen} /\ contents = Replay(recs, chosen)
      /\ paged = {n \in PagesOf(recs, chosen) : contents[n] # <<>>}
      /\ dirty' = names /\ size' = [n \in Names |-> Len(contents[n])]
      /\ tier1' = [n \in Names |-> IF n \in paged THEN Padded(contents[n]) ELSE NoPage]
      /\ dirtyBytes' = PageSize * Cardinality(paged)
      /\ order' = fifo /\ Rewritten(fifo, rest, contents)
  BY <1>4 DEF CrashStep
<1>6. Tier2Ok(journal) /\ WriterOk(journal.writer)
  BY DEF TypeInv, Tier2Ok
<1>7. IsSeq(recs) /\ \A i \in 1..Len(recs) : Found(recs[i], journal.writer.gen)
  BY <1>2, <1>6, ImageRecords DEF Images
<1>8. Chosen(recs, chosen) /\ \A i \in chosen : RecordOk(recs[i]) /\ recs[i].name \in Names
  BY <1>3, <1>7, RecoveredChosen
<1>9. contents \in [Names -> Parts]
  BY <1>5, <1>8, ReplayTyped
<1>10. names \subseteq Names /\ paged \subseteq Names
  BY <1>5, <1>8 DEF PagesOf
<1>11. Distinct(fifo) /\ \A i \in 1..Len(fifo) : fifo[i] \in Names /\ fifo[i] \in paged
  BY <1>4, <1>10, ListOfNames
<1>12. Distinct(rest) /\ \A i \in 1..Len(rest) : rest[i] \in Names
  <2>1. names \ paged \subseteq Names
    BY <1>10
  <2>. QED
    BY <1>4, <2>1, ListOfNames
<1>13. Renewed(fifo, rest, contents)
  BY <1>5, <1>9, <1>11, <1>12 DEF Renewed
<1>14. InLists(names, fifo, rest)
  <2>1. \A n \in paged : \E i \in 1..Len(fifo) : fifo[i] = n
    BY <1>4, <1>10, ListOfNames
  <2>2. names \ paged \subseteq Names
    BY <1>10
  <2>3. \A n \in names \ paged : \E i \in 1..Len(rest) : rest[i] = n
    BY <1>4, <2>2, ListOfNames
  <2>. QED
    BY <2>1, <2>3 DEF InLists
<1>15. CrashFits(recs, chosen, contents, names, paged, fifo, rest)
  BY <1>2, <1>3, <1>4, <1>7, <1>8, <1>10, <1>11, <1>13, <1>14 DEF CrashFits
<1>. QED
  BY <1>15

\* The type invariant behind a crash.
LEMMA CrashType ==
  ASSUME TypeInv, CrashAndRecover PROVE TypeInv'
<1>1. PICK recs, chosen, contents, names, paged, fifo, rest :
        CrashFits(recs, chosen, contents, names, paged, fifo, rest)
  BY CrashRenews
<1>2. /\ names = {recs[i].name : i \in chosen} /\ contents = Replay(recs, chosen)
      /\ paged = {n \in PagesOf(recs, chosen) : contents[n] # <<>>}
      /\ dirty' = names /\ size' = [n \in Names |-> Len(contents[n])]
      /\ tier1' = [n \in Names |-> IF n \in paged THEN Padded(contents[n]) ELSE NoPage]
      /\ dirtyBytes' = PageSize * Cardinality(paged)
      /\ order' = fifo /\ Rewritten(fifo, rest, contents)
  BY <1>1 DEF CrashFits, CrashStep
<1>3. /\ contents \in [Names -> Parts] /\ names \subseteq Names /\ paged \subseteq Names
      /\ fifo \in SetToSeqs(paged) /\ \A i \in 1..Len(fifo) : fifo[i] \in paged
      /\ IsSeq(fifo) /\ \A i \in 1..Len(fifo) : fifo[i] \in Names
      /\ IsSeq(rest) /\ \A i \in 1..Len(rest) : rest[i] \in Names
  BY <1>1 DEF CrashFits, Renewed, Distinct
<1>4. Tier2Ok(journal)
  BY DEF TypeInv
<1>11. /\ tier1' \in [Names -> [1..PageSize -> Byte] \cup {NoPage}]
       /\ Fifo(tier1', fifo) /\ Len(fifo) = Cardinality(paged)
       /\ \A n \in Names : tier1'[n] # NoPage <=> n \in paged
  <2>1. PICK pages : pages = [n \in Names |-> IF n \in paged THEN Padded(contents[n]) ELSE NoPage]
    OBVIOUS
  <2>2. fifo \in SetToSeqs(paged) /\ paged \in SUBSET Names
    BY <1>3
  <2>3. /\ pages \in [Names -> [1..PageSize -> Byte] \cup {NoPage}]
        /\ Fifo(pages, fifo) /\ Len(fifo) = Cardinality(paged)
        /\ \A n \in Names : pages[n] # NoPage <=> n \in paged
    BY <1>3, <2>1, <2>2, RecoveredTier1
  <2>4. tier1' = pages
    BY <1>2, <2>1
  <2>. QED
    BY <2>3, <2>4
<1>14. /\ Tier2Ok(journal') /\ JobsInv' /\ HistoryInv' /\ JobsFit' /\ call' = "none"
       /\ \A n \in Names : InTier2(n)' => \E k \in 1..Len(fifo) : fifo[k] = n
  BY <1>2, <1>3, <1>4, RewrittenOk
<1>15. Tier1Inv'
  <2>1. size' \in [Names -> 0..PageSize]
    <3>1. \A n \in Names : Len(contents[n]) \in 0..PageSize
      BY <1>3, PartFields
    <3>. QED
      BY <1>2, <3>1
  <2>2. dirtyBytes' = PageSize * Len(order') /\ Fifo(tier1', order') /\ dirty' \subseteq Names
    BY <1>2, <1>3, <1>11
  <2>. QED
    BY <1>11, <1>14, <2>1, <2>2 DEF Tier1Inv
<1>16. SpilledFit'
  BY <1>3, <1>11, <1>14 DEF SpilledFit
<1>. QED
  BY <1>14, <1>15, <1>16 DEF TypeInv

\* The type invariant holds in the beginning.
LEMMA InitType == Init => TypeInv
<1>. SUFFICES ASSUME Init PROVE TypeInv
  OBVIOUS
<1>. USE DEF Init
<1>1. IsSeq(<<>>) /\ Len(<<>>) = 0
  BY DEF IsSeq
<1>2. PICK sync \in BOOLEAN : journal = NewTier2(1, sync)
  OBVIOUS
<1>3. Tier2Ok(journal)
  <2>1. 1 \in Nat \ {0}
    OBVIOUS
  <2>2. Tier2Ok(NewTier2(1, sync))
    BY <2>1, NewTier2Ok, Zenon
  <2>. QED
    BY <1>2, <2>2
<1>4. \A n \in Names : ~InTier2(n)
  BY <1>2 DEF NewTier2, InTier2
<1>5. NothingWritten \in [Names -> Parts]
  BY EmptyPart DEF NothingWritten
<1>6. Fifo(tier1, order)
  BY <1>1 DEF Fifo
<1>7. Tier1Inv
  <2>1. size \in [Names -> 0..PageSize]
    BY VmdirtyAssumption
  <2>2. tier1 \in [Names -> [1..PageSize -> Byte] \cup {NoPage}]
    OBVIOUS
  <2>3. dirtyBytes = PageSize * Len(order) /\ dirtyBytes <= DirtyLimit
    BY <1>1, VmdirtyAssumption, SpillAssumption
  <2>. QED
    BY <1>6, <2>1, <2>2, <2>3 DEF Tier1Inv
<1>8. JobsInv /\ JobsFit
  BY <1>1 DEF JobsInv, JobsFit, Calls
<1>9. HistoryInv
  BY <1>1, <1>5 DEF HistoryInv
<1>10. SpilledFit
  BY <1>4 DEF SpilledFit
<1>. QED
  BY <1>3, <1>7, <1>8, <1>9, <1>10 DEF TypeInv

\* Every step keeps it.
LEMMA NextType == TypeInv /\ [Next]_vars => TypeInv'
<1>. SUFFICES ASSUME TypeInv, [Next]_vars PROVE TypeInv'
  OBVIOUS
<1>1. ASSUME NEW n \in Names, NEW d \in Writes, WriteTier1(n, d) PROVE TypeInv'
  BY <1>1, WriteTier1Type
<1>2. ASSUME NEW n \in Names, NEW d \in Writes, WriteTier2(n, d) PROVE TypeInv'
  BY <1>2, WriteTier2Type
<1>3. ASSUME NEW n \in Names, Truncate(n) PROVE TypeInv'
  BY <1>3, TruncateType
<1>4. CASE Flush \/ CompactJournal
  BY <1>4, FlushType
<1>5. CASE AppendOk
  BY <1>5, AppendOkType
<1>6. CASE CompactSwap
  BY <1>6, CompactSwapType
<1>7. ASSUME NEW how \in Failures, AppendFails(how) PROVE TypeInv'
  BY <1>7, AppendFailsType
<1>8. CASE CrashAndRecover
  BY <1>8, CrashType
<1>9. CASE UNCHANGED vars
  BY <1>9 DEF vars, diff, history, TypeInv, Tier1Inv, JobsInv, HistoryInv, JobsFit, SpilledFit,
             InTier2
<1>. QED
  BY <1>1, <1>2, <1>3, <1>4, <1>5, <1>6, <1>7, <1>8, <1>9 DEF Next

\* In every state the tables, the journal and the appends to come fit one another.
THEOREM TypesKept == Spec => []TypeInv
<1>1. Init => TypeInv
  BY InitType
<1>2. TypeInv /\ [Next]_vars => TypeInv'
  BY NextType
<1>. QED
  BY <1>1, <1>2, PTL DEF Spec

\* The resident pages are as many as the FIFO lists.
LEMMA ResidentCount ==
  ASSUME Tier1Inv
  PROVE  /\ ToSet(order) = Resident /\ IsFiniteSet(Resident)
         /\ Len(order) = Cardinality(Resident)
<1>1. /\ IsSeq(order) /\ \A i \in 1..Len(order) : order[i] \in Names
      /\ \A i, j \in 1..Len(order) : order[i] = order[j] => i = j
      /\ \A n \in Names : n \in Resident <=> \E i \in 1..Len(order) : order[i] = n
  BY ResidentPage DEF Tier1Inv, Fifo
<1>2. ToSet(order) = Resident
  <2>1. ToSet(order) = {order[i] : i \in 1..Len(order)}
    BY <1>1, ToSetOf
  <2>. QED
    BY <1>1, <2>1 DEF Resident
<1>3. Len(order) \in Nat
  BY <1>1 DEF IsSeq
<1>. DEFINE D == 1..Len(order)
<1>4. IsFiniteSet(D) /\ Cardinality(D) = Len(order)
  <2>1. IsFiniteSet(1..Len(order)) /\ Cardinality(1..Len(order)) = IF 1 > Len(order) THEN 0 ELSE Len(order) - 1 + 1
    BY SMTT(40), <1>3, FS_Interval
  <2>. QED
    BY <1>3, <2>1
<1>5. order \in Bijection(D, Resident)
  <2>1. order \in [D -> Resident]
    BY <1>1 DEF IsSeq, Resident
  <2>2. \A n \in Resident : \E i \in D : order[i] = n
    BY <1>1 DEF Resident
  <2>. QED
    BY <1>1, <2>1, <2>2 DEF Bijection, Injection, Surjection, IsInjective
<1>6. IsFiniteSet(Resident)
  BY SpillAssumption, FS_Subset DEF Resident
<1>. HIDE DEF D
<1>7. Cardinality(D) = Cardinality(Resident)
  <2>1. ExistsBijection(D, Resident)
    BY <1>5 DEF ExistsBijection
  <2>. QED
    BY <1>4, <2>1, FS_Bijection
<1>. QED
  BY <1>2, <1>4, <1>6, <1>7

\* Tier 1 is accounted for, whatever fails: the bytes on the account are those of
\* the pages, the FIFO has each page once, and a write leaves Tier 1 within its
\* limit (insert_page, take_spill_victims, truncate_pages).
THEOREM TierOneIsAccounted == Spec => []TierOneAccounted
<1>1. TypeInv => TierOneAccounted
  <2>. SUFFICES ASSUME TypeInv PROVE TierOneAccounted
    OBVIOUS
  <2>1. Tier1Inv
    BY DEF TypeInv
  <2>2. /\ ToSet(order) = Resident /\ Len(order) = Cardinality(Resident)
    BY <2>1, ResidentCount
  <2>. QED
    BY <2>1, <2>2 DEF Tier1Inv, TierOneAccounted
<1>. QED
  BY <1>1, TypesKept, PTL

\* When no append writes a part of a record, the places of the index are those of
\* data, and what is read is what was written: values of writes, and zeroes.
THEOREM TypesAreOK == ASSUME ~ShortWrites PROVE Spec => []TypeOK
<1>1. TypeInv => TypeOK
  <2>. SUFFICES ASSUME TypeInv PROVE TypeOK
    OBVIOUS
  <2>1. Tier1Inv /\ Tier2Ok(journal) /\ JobsInv /\ HistoryInv
    BY DEF TypeInv
  <2>2. Byte = Values
    BY DEF Byte
  <2>3. order \in Seq(Names) /\ dirtyBytes \in Nat
    <3>1. order \in Seq(Names)
      BY <2>1, IsSeqIn DEF Tier1Inv, Fifo
    <3>. QED
      BY <2>1, <3>1, VmdirtyAssumption DEF Tier1Inv
  <2>4. tier1 \in [Names -> Buffers \cup {NoPage}]
    BY <2>1, <2>2 DEF Tier1Inv, Buffers
  <2>5. /\ journal.writer.durable \in 0..Len(journal.writer.file)
        /\ journal.writer.next > 0 /\ journal.records \in Nat
    <3>1. /\ journal.records \in Nat /\ journal.writer.next \in Nat \ {0}
          /\ journal.writer.durable \in 2..Len(journal.writer.file)
      BY <2>1 DEF Tier2Ok, WriterOk
    <3>. QED
      BY <3>1
  <2>6. \A n \in Names : journal.index[n].len \in 0..PageSize
    BY <2>1 DEF Tier2Ok, Places
  <2>7. \A j \in ToSet(jobs) : j.job \in Jobs
    <3>1. ToSet(jobs) = {jobs[i] : i \in 1..Len(jobs)}
      BY <2>1, ToSetOf DEF JobsInv
    <3>. QED
      BY <2>1, <3>1 DEF JobsInv, JobOk
  <2>8. {content} \cup marked \subseteq [Names -> FileStates]
    <3>1. FileStates = Parts
      BY <2>2 DEF FileStates, Parts
    <3>. QED
      BY <2>1, <3>1 DEF HistoryInv
  <2>9. /\ dirty \subseteq Names /\ size \in [Names -> 0..PageSize]
        /\ flushed \in 0..Len(acked)
        /\ call \in {"none", "write", "truncate", "flush", "compact"}
        /\ (call = "none") = (jobs = <<>>)
    BY <2>1 DEF Tier1Inv, HistoryInv, JobsInv, Calls
  <2>. QED
    BY <2>3, <2>4, <2>5, <2>6, <2>7, <2>8, <2>9 DEF TypeOK
<1>. QED
  BY <1>1, TypesKept, PTL

-----------------------------------------------------------------------------
(* What was acknowledged survives. *)

\* The file is that of recs, of which the first d are durable; the acknowledged
\* records are among them, and before the d-th when they are safe.
Holding(w, ack, fl, recs, at, d) ==
  /\ Journal(w.file, w.gen, recs, at) /\ d \in 0..Len(recs) /\ at[d] = w.durable
  /\ \A i \in 1..Len(ack) : \E j \in 1..Len(recs) :
       recs[j] = ack[i] /\ (w.sync \/ i <= fl => j <= d)
Held(w, ack, fl) == \E recs, at, d : Holding(w, ack, fl, recs, at, d)

\* A file with nothing but a header is that of no record.
LEMMA EmptyJournal ==
  ASSUME NEW gen \in Nat \ {0}, NEW sync \in BOOLEAN, NEW w, w = NewWriter(gen, sync)
  PROVE  \E at : Journal(w.file, w.gen, <<>>, at) /\ at[0] = w.durable
<1>. DEFINE at == [i \in 0..0 |-> 2]
<1>1. /\ WriterOk(w) /\ w.gen = gen /\ w.durable = 2
      /\ w.file = Encode(Header(gen)) /\ Len(w.file) = 2
  BY NewWriterOk
<1>2. IsSeq(w.file) /\ Sized(w.file)
  BY <1>1, FileSized DEF WriterOk
<1>3. Len(<<>>) = 0 /\ IsSeq(<<>>)
  BY DEF IsSeq
<1>4. at \in [0..0 -> Nat] /\ at[0] = 2
  OBVIOUS
<1>. HIDE DEF at
<1>5. Size(Header(gen)) = 2
  BY DEF Size, Data, Header
<1>6. Holds(w.file, 1, Header(gen))
  <2>1. \A j \in 1..2 : 1 + j - 1 = j
    OBVIOUS
  <2>. QED
    BY <1>1, <1>5, <2>1 DEF Holds
<1>7. Layout(w.file, gen, <<>>, at)
  BY <1>1, <1>3, <1>4, <1>6 DEF Layout
<1>8. Journal(w.file, w.gen, <<>>, at)
  BY <1>1, <1>2, <1>3, <1>4, <1>7 DEF Journal
<1>. QED
  BY <1>1, <1>4, <1>8

\* It holds no record.
LEMMA HeldNew ==
  ASSUME NEW gen \in Nat \ {0}, NEW sync \in BOOLEAN, NEW fl
  PROVE  Held(NewWriter(gen, sync), <<>>, fl)
<1>1. PICK w : w = NewWriter(gen, sync)
  OBVIOUS
<1>2. PICK at : Journal(w.file, w.gen, <<>>, at) /\ at[0] = w.durable
  BY <1>1, EmptyJournal
<1>3. Len(<<>>) = 0 /\ IsSeq(<<>>)
  BY DEF IsSeq
<1>4. Holding(w, <<>>, fl, <<>>, at, 0)
  BY <1>2, <1>3 DEF Holding
<1>. QED
  BY <1>1, <1>4 DEF Held

\* A record more, durable and acknowledged, or with nothing said of its safety.
LEMMA HeldAppend ==
  ASSUME NEW w, NEW ack, IsSeq(ack), NEW fl \in 0..Len(ack), Held(w, ack, fl),
         NEW rec, Good(rec, w.gen), NEW nw, nw.file = w.file \o Encode(rec),
         nw.gen = w.gen, nw.sync = w.sync, NEW ack2, NEW fl2,
         \/ nw.durable = Len(nw.file) /\ ack2 = Append(ack, rec)
         \/ /\ nw.durable = w.durable /\ fl2 = fl
            /\ ack2 = ack \/ (ack2 = Append(ack, rec) /\ ~w.sync)
  PROVE  Held(nw, ack2, fl2)
<1>1. PICK recs, at, d : Holding(w, ack, fl, recs, at, d)
  BY DEF Held
<1>2. /\ Journal(w.file, w.gen, recs, at) /\ d \in 0..Len(recs) /\ at[d] = w.durable
      /\ \A i \in 1..Len(ack) : \E j \in 1..Len(recs) :
           recs[j] = ack[i] /\ (w.sync \/ i <= fl => j <= d)
  BY <1>1 DEF Holding
<1>3. PICK n : n = Len(recs)
  OBVIOUS
<1>4. IsSeq(recs) /\ n \in Nat /\ Len(ack) \in Nat
  BY <1>2, <1>3 DEF Journal, IsSeq
<1>5. PICK new : new = Append(recs, rec)
  OBVIOUS
<1>6. PICK at2 : at2 = [i \in 0..(n + 1) |-> IF i = n + 1 THEN Len(w.file) + Size(rec) ELSE at[i]]
  OBVIOUS
<1>7. Journal(nw.file, nw.gen, new, at2) /\ Len(new) = n + 1
  BY <1>2, <1>3, <1>5, <1>6, JournalAppend
<1>8. at2[n + 1] = Len(nw.file) /\ \A i \in 0..n : at2[i] = at[i]
  <2>1. at2[n + 1] = Len(nw.file)
    BY <1>7 DEF Journal
  <2>. QED
    BY <1>4, <1>6, <2>1
<1>9. new[n + 1] = rec /\ \A j \in 1..n : new[j] = recs[j] /\ j \in 1..(n + 1)
  BY <1>3, <1>4, <1>5, AppendSeq
<1>10. /\ Len(Append(ack, rec)) = Len(ack) + 1 /\ Append(ack, rec)[Len(ack) + 1] = rec
       /\ \A i \in 1..Len(ack) : Append(ack, rec)[i] = ack[i]
  BY AppendSeq
<1>11. ASSUME NEW i \in 1..Len(ack2)
       PROVE  \/ i \in 1..Len(ack) /\ ack2[i] = ack[i]
              \/ i = Len(ack) + 1 /\ ack2[i] = rec /\ ack2 # ack
  <2>1. CASE ack2 = ack
    BY <2>1
  <2>2. CASE ack2 = Append(ack, rec)
    <3>1. CASE i = Len(ack) + 1
      <4>1. Len(ack2) # Len(ack)
        BY <1>4, <1>10, <2>2
      <4>. QED
        BY <1>10, <2>2, <3>1, <4>1
    <3>2. CASE i # Len(ack) + 1
      <4>1. i \in 1..Len(ack)
        BY <1>4, <1>10, <2>2, <3>2
      <4>. QED
        BY <1>10, <2>2, <4>1
    <3>. QED
      BY <3>1, <3>2
  <2>. QED
    BY <2>1, <2>2
<1>12. CASE nw.durable = Len(nw.file)
  <2>1. ASSUME NEW i \in 1..Len(ack2)
        PROVE  \E j \in 1..(n + 1) : new[j] = ack2[i] /\ j <= n + 1
    <3>1. CASE i \in 1..Len(ack) /\ ack2[i] = ack[i]
      <4>1. PICK j \in 1..n : recs[j] = ack[i]
        BY <1>2, <1>3, <3>1
      <4>2. new[j] = ack2[i] /\ j \in 1..(n + 1)
        BY <1>9, <3>1, <4>1
      <4>. QED
        BY <1>4, <4>2
    <3>2. CASE ack2[i] = rec
      BY <1>4, <1>9, <3>2
    <3>. QED
      BY <1>11, <3>1, <3>2
  <2>2. n + 1 \in 0..Len(new) /\ at2[n + 1] = nw.durable
    BY <1>4, <1>7, <1>8, <1>12
  <2>3. Holding(nw, ack2, fl2, new, at2, n + 1)
    BY <1>7, <2>1, <2>2 DEF Holding
  <2>. QED
    BY <2>3 DEF Held
<1>13. CASE /\ nw.durable = w.durable /\ fl2 = fl
            /\ ack2 = ack \/ (ack2 = Append(ack, rec) /\ ~w.sync)
  <2>1. ASSUME NEW i \in 1..Len(ack2)
        PROVE  \E j \in 1..(n + 1) : new[j] = ack2[i] /\ (nw.sync \/ i <= fl => j <= d)
    <3>1. CASE i \in 1..Len(ack) /\ ack2[i] = ack[i]
      <4>1. PICK j \in 1..n : recs[j] = ack[i] /\ (w.sync \/ i <= fl => j <= d)
        BY <1>2, <1>3, <3>1
      <4>2. new[j] = ack2[i] /\ j \in 1..(n + 1)
        BY <1>9, <3>1, <4>1
      <4>. QED
        BY <4>1, <4>2
    <3>2. CASE i = Len(ack) + 1 /\ ack2[i] = rec /\ ack2 # ack
      <4>1. ~nw.sync /\ ~(i <= fl)
        BY <1>4, <1>13, <3>2
      <4>2. n + 1 \in 1..(n + 1) /\ new[n + 1] = ack2[i]
        BY <1>4, <1>9, <3>2
      <4>. QED
        BY <4>1, <4>2
    <3>. QED
      BY <1>11, <3>1, <3>2
  <2>2. d \in 0..Len(new) /\ at2[d] = nw.durable
    BY <1>2, <1>3, <1>4, <1>7, <1>8, <1>13
  <2>3. Holding(nw, ack2, fl2, new, at2, d)
    BY <1>7, <1>13, <2>1, <2>2 DEF Holding
  <2>. QED
    BY <2>3 DEF Held
<1>. QED
  BY <1>12, <1>13

\* The record of a job is one that the walk accepts.
LEMMA JobRecordGood ==
  ASSUME NEW w, w.next \in Nat \ {0}, NEW j, JobOk(j)
  PROVE  Good(Record(w, j), w.gen)
<1>1. PICK rec : rec = Record(w, j)
  OBVIOUS
<1>2. /\ RecordOk(rec) /\ rec.gen = w.gen
      /\ rec.kind = IF j.job = "marker" THEN "marker" ELSE IF j.job = "resize" THEN "meta" ELSE "data"
  BY <1>1, RecordOfJob
<1>3. Len(Data(rec)) \in 0..PageSize
  BY <1>2, RecordData
<1>. QED
  BY <1>1, <1>2, <1>3 DEF Good, RecordOk

\* What is held and safe is found after every crash.
LEMMA HeldFound ==
  ASSUME NEW w, WriterOk(w), NEW ack, NEW fl, Held(w, ack, fl),
         NEW img \in CrashImages(w, OldRecord), NEW i \in 1..Len(ack), w.sync \/ i <= fl
  PROVE  ack[i] \in ToSet(RecordsOf(img))
<1>1. PICK recs, at, d : Holding(w, ack, fl, recs, at, d)
  BY DEF Held
<1>2. /\ Journal(w.file, w.gen, recs, at) /\ d \in 0..Len(recs) /\ at[d] = w.durable
  BY <1>1 DEF Holding
<1>3. PICK j \in 1..Len(recs) : recs[j] = ack[i] /\ j <= d
  BY <1>1 DEF Holding
<1>4. PICK m \in w.durable..Len(w.file) :
        \E tail : Foreign(tail, w.gen) /\ CutImage(img, w.file, m, tail)
  BY ImageCut
<1>5. PICK tail : Foreign(tail, w.gen) /\ CutImage(img, w.file, m, tail)
  BY <1>4
<1>6. w.durable \in 2..Len(w.file) /\ Len(w.file) \in Nat
  BY FileSized DEF WriterOk
<1>7. m \in 2..Len(w.file) /\ at[d] <= m
  BY <1>2, <1>6
<1>8. PICK k \in 0..Len(recs) :
        /\ RecordsOf(img) = SubSeq(recs, 1, k)
        /\ \A l \in 0..Len(recs) : at[l] <= m => l <= k
  BY SMTT(40), <1>2, <1>5, <1>7, CrashReads
<1>9. d <= k
  BY <1>2, <1>7, <1>8
<1>10. IsSeq(recs) /\ Len(recs) \in Nat
  BY <1>2 DEF Journal, IsSeq
<1>11. PICK found : found = RecordsOf(img)
  OBVIOUS
<1>12. IsSeq(found) /\ Len(found) = k /\ \A l \in 1..k : found[l] = recs[l]
  BY <1>8, <1>10, <1>11, Prefix
<1>13. j \in 1..k
  BY <1>2, <1>3, <1>9, <1>10
<1>14. found[j] = ack[i] /\ j \in 1..Len(found)
  BY <1>3, <1>12, <1>13
<1>15. ToSet(found) = {found[l] : l \in 1..Len(found)}
  BY <1>12, ToSetOf
<1>. QED
  BY <1>11, <1>14, <1>15

\* What holds at 0 and goes on from each number to the next holds up to n.
LEMMA CountUp ==
  ASSUME NEW n \in Nat, NEW T, 0 \in T, \A k \in 1..n : k - 1 \in T => k \in T
  PROVE  \A k \in 0..n : k \in T
<1>. DEFINE Bad == {k \in 0..n : k \notin T}
<1>1. SUFFICES ASSUME Bad # {} PROVE FALSE
  OBVIOUS
<1>2. PICK k \in Bad : \A l \in Bad : k <= l
  <2>. HIDE DEF Bad
  <2>1. Bad \subseteq Nat
    BY DEF Bad
  <2>. QED
    BY <1>1, <2>1, LeastNatural
<1>3. k \in 1..n /\ k - 1 \in 0..n /\ ~(k <= k - 1)
  BY <1>2
<1>4. k - 1 \in T
  BY <1>2, <1>3
<1>. QED
  BY <1>2, <1>3, <1>4

\* A record depends on the generation and the number of the writer only.
LEMMA SameRecord ==
  ASSUME NEW w, NEW v, w.gen = v.gen, w.next = v.next, NEW j
  PROVE  Record(w, j) = Record(v, j)
BY DEF Record, LastSequence

\* A job of a list that is done.
LEMMA HeldPut ==
  ASSUME NEW t2, Tier2Ok(t2), NEW j, JobOk(j), NEW new, PutOk(t2, j, new),
         NEW ack, IsSeq(ack), NEW fl \in 0..Len(ack), Held(t2.writer, ack, fl),
         NEW fl2, fl2 = fl \/ j.job = "marker"
  PROVE  Held(new.writer, Append(ack, Record(t2.writer, j)), fl2)
<1>1. PICK w : w = t2.writer
  OBVIOUS
<1>2. PICK nw : nw = new.writer
  OBVIOUS
<1>3. PICK rec : rec = Record(w, j)
  BY SMTT(40)
<1>4. /\ nw.gen = w.gen /\ nw.sync = w.sync /\ nw.file = w.file \o Encode(rec)
      /\ nw.durable = IF j.job = "marker" \/ w.sync THEN Len(nw.file) ELSE w.durable
  BY <1>1, <1>2, <1>3 DEF PutOk
<1>5. WriterOk(w) /\ w.next \in Nat \ {0}
  BY <1>1 DEF Tier2Ok, WriterOk
<1>6. Good(rec, w.gen)
  BY <1>3, <1>5, JobRecordGood
<1>7. PICK ack2 : ack2 = Append(ack, rec)
  OBVIOUS
<1>8. \/ nw.durable = Len(nw.file) /\ ack2 = Append(ack, rec)
      \/ /\ nw.durable = w.durable /\ fl2 = fl
         /\ ack2 = ack \/ (ack2 = Append(ack, rec) /\ ~w.sync)
  BY <1>4, <1>7
<1>9. Held(w, ack, fl)
  BY <1>1
<1>10. Held(nw, ack2, fl2)
  BY <1>4, <1>6, <1>8, <1>9, HeldAppend
<1>. QED
  BY <1>1, <1>2, <1>3, <1>7, <1>10

\* The records that a list of jobs has appended.
LEMMA RecordsAre ==
  ASSUME NEW w, NEW js, IsSeq(js), NEW recs, recs = RecordsFrom(w, js)
  PROVE  /\ IsSeq(recs) /\ Len(recs) = Len(js)
         /\ \A i \in 1..Len(js) : recs[i] = Record([w EXCEPT !.next = @ + i - 1], js[i])
<1>. DEFINE R(i) == Record([w EXCEPT !.next = @ + i - 1], js[i])
<1>1. DOMAIN js = 1..Len(js) /\ Len(js) \in Nat
  BY DEF IsSeq
<1>2. recs = [i \in 1..Len(js) |-> R(i)]
  BY <1>1 DEF RecordsFrom
<1>. HIDE DEF R
<1>3. recs \in [1..Len(js) -> {R(i) : i \in 1..Len(js)}] /\ \A i \in 1..Len(js) : recs[i] = R(i)
  BY <1>2
<1>4. IsSeq(recs) /\ Len(recs) = Len(js)
  BY <1>1, <1>3, FunIsSeq
<1>. QED
  BY <1>3, <1>4 DEF R

\* A writer with another number.
LEMMA RenumberedFields ==
  ASSUME NEW w, WriterOk(w), NEW k \in Nat, NEW v, v = [w EXCEPT !.next = @ + k - 1]
  PROVE  v.gen = w.gen /\ v.next = w.next + k - 1
<1>1. w = [gen |-> w.gen, sync |-> w.sync, file |-> w.file, durable |-> w.durable,
           pos |-> w.pos, next |-> w.next]
  BY DEF WriterOk
<1>2. v = [gen |-> w.gen, sync |-> w.sync, file |-> w.file, durable |-> w.durable,
           pos |-> w.pos, next |-> w.next + k - 1]
  BY <1>1
<1>. QED
  BY <1>2

\* A new journal, its marker last, holds all of its records safely.
LEMMA HeldRewritten ==
  ASSUME NEW gen \in Nat \ {0}, NEW sync \in BOOLEAN, NEW pages, NEW contents,
         NEW js, RewriteList(pages, contents, js),
         NEW t2, t2 = NewTier2(gen, sync), NEW new, new = PutAll(t2, js)
  PROVE  Held(new.writer, RecordsFrom(t2.writer, js), Len(js))
<1>1. /\ IsSeq(js) /\ Len(js) \in Nat \ {0} /\ js[Len(js)] = MarkerJob
      /\ \A i \in 1..Len(js) : JobOk(js[i])
      /\ \A i \in 1..(Len(js) - 1) : js[i].job # "marker"
  BY DEF RewriteList
<1>2. PICK n : n = Len(js)
  OBVIOUS
<1>3. PICK after : PutSteps(t2, js, after)
  BY <1>1, PutAllSteps
<1>4. new = after[n] /\ after[0] = t2 /\ \A k \in 1..n : after[k] = Put(after[k - 1], js[k])
  BY <1>2, <1>3 DEF PutSteps
<1>5. PICK w : w = t2.writer
  OBVIOUS
<1>6. Tier2Ok(t2) /\ WriterOk(w) /\ w.gen = gen /\ w.sync = sync /\ w.next = 1
      /\ w = NewWriter(gen, sync)
  <2>1. w = NewWriter(gen, sync)
    BY <1>5 DEF NewTier2
  <2>. QED
    BY <2>1, NewTier2Ok, NewWriterOk
<1>7. PICK recs : recs = RecordsFrom(w, js)
  OBVIOUS
<1>8. /\ IsSeq(recs) /\ Len(recs) = n
      /\ \A i \in 1..n : recs[i] = Record([w EXCEPT !.next = @ + i - 1], js[i])
  BY <1>1, <1>2, <1>7, RecordsAre
<1>. DEFINE P(k) == /\ Tier2Ok(after[k]) /\ after[k].writer.gen = gen
                    /\ after[k].writer.next = k + 1
                    /\ Held(after[k].writer, SubSeq(recs, 1, k), 0)
            T    == {k \in 0..(n - 1) : P(k)}
<1>9. \A k \in 0..n : /\ IsSeq(SubSeq(recs, 1, k)) /\ Len(SubSeq(recs, 1, k)) = k
                      /\ \A i \in 1..k : SubSeq(recs, 1, k)[i] = recs[i]
  BY <1>8, Prefix
<1>10. P(0)
  <2>1. SubSeq(recs, 1, 0) = <<>>
    <3>1. IsSeq(SubSeq(recs, 1, 0)) /\ Len(SubSeq(recs, 1, 0)) = 0
      BY <1>1, <1>2, <1>9
    <3>2. IsSeq(<<>>) /\ Len(<<>>) = 0
      BY DEF IsSeq
    <3>. QED
      BY <3>1, <3>2, SeqEqual
  <2>2. Held(w, <<>>, 0)
    BY <1>6, HeldNew
  <2>3. after[0] = t2 /\ after[0].writer = w /\ 0 + 1 = 1
    BY <1>4, <1>5
  <2>4. Held(after[0].writer, SubSeq(recs, 1, 0), 0)
    BY <2>1, <2>2, <2>3, Zenon
  <2>5. Tier2Ok(after[0]) /\ after[0].writer.gen = gen /\ after[0].writer.next = 0 + 1
    BY <1>6, <2>3
  <2>. QED
    BY <2>4, <2>5
<1>11. ASSUME NEW k \in 1..n, P(k - 1), NEW fl2, fl2 = 0 \/ k = n
       PROVE  /\ PutOk(after[k - 1], js[k], after[k])
              /\ Held(after[k].writer, SubSeq(recs, 1, k), fl2)
  <2>1. PICK t : t = after[k - 1]
    OBVIOUS
  <2>2. PICK j : j = js[k]
    OBVIOUS
  <2>3. PICK nt : nt = after[k]
    OBVIOUS
  <2>4. Tier2Ok(t) /\ JobOk(j) /\ nt = Put(t, j)
    BY <1>1, <1>2, <1>4, <1>11, <2>1, <2>2, <2>3
  <2>5. PutOk(t, j, nt)
    BY <2>4, PutFields
  <2>6. PICK v : v = [w EXCEPT !.next = @ + k - 1]
    OBVIOUS
  <2>7. Record(t.writer, j) = recs[k]
    <3>1. v.gen = gen /\ v.next = k
      BY <1>6, <2>6, RenumberedFields
    <3>2. t.writer.gen = gen /\ t.writer.next = k
      BY <1>11, <2>1
    <3>3. recs[k] = Record(v, j)
      BY <1>8, <2>2, <2>6
    <3>. QED
      BY <3>1, <3>2, <3>3, SameRecord
  <2>8. PICK ack : ack = SubSeq(recs, 1, k - 1)
    OBVIOUS
  <2>9. k - 1 \in 0..n /\ k \in 0..n /\ k - 1 \in Nat
    BY <1>1, <1>2
  <2>10. IsSeq(ack) /\ Len(ack) = k - 1 /\ \A i \in 1..(k - 1) : ack[i] = recs[i]
    BY <1>9, <2>8, <2>9
  <2>11. 0 \in 0..Len(ack) /\ Held(t.writer, ack, 0)
    BY <1>11, <2>1, <2>8, <2>9, <2>10
  <2>12. fl2 = 0 \/ j.job = "marker"
    BY <1>1, <1>2, <1>11, <2>2 DEF MarkerJob
  <2>13. Held(nt.writer, Append(ack, recs[k]), fl2)
    <3>1. Held(nt.writer, Append(ack, Record(t.writer, j)), fl2)
      BY <2>4, <2>5, <2>10, <2>11, <2>12, HeldPut
    <3>. QED
      BY <2>7, <3>1
  <2>14. Append(ack, recs[k]) = SubSeq(recs, 1, k)
    <3>1. PICK x : x = recs[k]
      OBVIOUS
    <3>2. /\ IsSeq(Append(ack, x)) /\ Len(Append(ack, x)) = k - 1 + 1
          /\ \A i \in 1..(k - 1) : Append(ack, x)[i] = ack[i]
          /\ Append(ack, x)[k - 1 + 1] = x
      BY <2>10, AppendSeq
    <3>3. PICK s : s = SubSeq(recs, 1, k)
      OBVIOUS
    <3>4. IsSeq(s) /\ Len(s) = k /\ \A i \in 1..k : s[i] = recs[i]
      BY <1>9, <2>9, <3>3
    <3>5. PICK r : r = Append(ack, x)
      OBVIOUS
    <3>6. k - 1 + 1 = k /\ \A i \in 1..k : i \in 1..(k - 1) \/ i = k
      BY <2>9
    <3>7. IsSeq(r) /\ Len(r) = Len(s) /\ \A i \in 1..Len(r) : r[i] = s[i]
      BY <2>10, <3>1, <3>2, <3>4, <3>5, <3>6
    <3>8. r = s
      BY <3>4, <3>7 DEF IsSeq
    <3>. QED
      BY <3>1, <3>3, <3>5, <3>8, Zenon
  <2>. QED
    BY <2>1, <2>2, <2>3, <2>5, <2>13, <2>14
<1>12. ASSUME NEW k \in 1..(n - 1), P(k - 1) PROVE P(k)
  <2>1. k \in 1..n
    BY <1>1, <1>2
  <2>2. PutOk(after[k - 1], js[k], after[k]) /\ Held(after[k].writer, SubSeq(recs, 1, k), 0)
    BY <1>11, <1>12, <2>1
  <2>3. js[k].job # "marker"
    BY <1>1, <1>2
  <2>4. PICK t : t = after[k - 1]
    OBVIOUS
  <2>5. PICK nt : nt = after[k]
    BY SMTT(40)
  <2>6. /\ Tier2Ok(nt) /\ nt.writer.gen = t.writer.gen /\ nt.writer.next = t.writer.next + 1
    BY <2>2, <2>3, <2>4, <2>5 DEF PutOk
  <2>7. t.writer.gen = gen /\ t.writer.next = k
    BY <1>12, <2>4
  <2>. QED
    BY <2>2, <2>5, <2>6, <2>7
<1>. HIDE DEF P
<1>13. \A k \in 0..(n - 1) : k \in T
  <2>1. n - 1 \in Nat /\ 0 \in T
    BY <1>1, <1>2, <1>10
  <2>2. \A k \in 1..(n - 1) : k - 1 \in T => k \in T
    BY <1>1, <1>2, <1>12
  <2>. HIDE DEF T
  <2>. QED
    BY <2>1, <2>2, CountUp
<1>14. n \in 1..n /\ n - 1 \in 0..(n - 1)
  BY <1>1, <1>2
<1>15. P(n - 1)
  BY <1>13, <1>14
<1>16. Held(after[n].writer, SubSeq(recs, 1, n), n)
  BY <1>11, <1>14, <1>15
<1>17. SubSeq(recs, 1, n) = recs
  <2>1. PICK s : s = SubSeq(recs, 1, n)
    OBVIOUS
  <2>2. n \in 0..n
    BY <1>14
  <2>3. IsSeq(s) /\ Len(s) = n /\ \A i \in 1..n : s[i] = recs[i]
    BY <1>9, <2>1, <2>2
  <2>4. s = recs
    BY <1>8, <2>3 DEF IsSeq
  <2>. QED
    BY <2>1, <2>4, Zenon
<1>. QED
  BY <1>2, <1>4, <1>5, <1>7, <1>16, <1>17

AckedInv == Held(journal.writer, acked, flushed)

\* An append that succeeds.
LEMMA AppendOkHeld ==
  ASSUME TypeInv, AckedInv, AppendOk PROVE AckedInv'
<1>1. /\ jobs # <<>> /\ journal' = Put(journal, Job)
      /\ acked' = Append(acked, Record(journal.writer, Job))
      /\ flushed' = IF FlushReturns THEN Len(acked) + 1 ELSE flushed
  BY DEF AppendOk
<1>2. Tier2Ok(journal) /\ JobsInv /\ HistoryInv /\ JobsFit
  BY DEF TypeInv
<1>3. JobOk(Job) /\ 1 \in 1..Len(jobs) /\ Len(Tail(jobs)) = Len(jobs) - 1 /\ IsSeq(Tail(jobs))
      /\ Len(jobs) \in Nat
  BY <1>1, <1>2, FirstJob
<1>4. flushed' = flushed \/ Job.job = "marker"
  <2>1. SUFFICES ASSUME FlushReturns PROVE Job.job = "marker"
    BY <1>1
  <2>2. call = "flush" /\ Tail(jobs) = <<>>
    BY <2>1 DEF FlushReturns
  <2>3. Len(jobs) = 1
    <3>1. Len(<<>>) = 0
      OBVIOUS
    <3>2. Len(jobs) - 1 = 0
      BY <1>3, <2>2, <3>1, Zenon
    <3>. QED
      BY <1>3, <3>2
  <2>4. jobs[Len(jobs)] = MarkerJob
    BY <1>2, <2>2 DEF JobsFit
  <2>. QED
    BY <2>3, <2>4 DEF Job, MarkerJob
<1>5. PICK t2 : t2 = journal
  OBVIOUS
<1>6. PICK j : j = Job
  OBVIOUS
<1>7. PICK new : new = journal'
  OBVIOUS
<1>8. PICK fl2 : fl2 = flushed'
  OBVIOUS
<1>9. PutOk(t2, j, new)
  BY <1>1, <1>2, <1>3, <1>5, <1>6, <1>7, PutFields
<1>10. IsSeq(acked) /\ flushed \in 0..Len(acked) /\ Held(t2.writer, acked, flushed)
  BY <1>2, <1>5 DEF HistoryInv, AckedInv
<1>11. Held(new.writer, Append(acked, Record(t2.writer, j)), fl2)
  BY <1>2, <1>3, <1>4, <1>5, <1>6, <1>8, <1>9, <1>10, HeldPut
<1>12. acked' = Append(acked, Record(t2.writer, j)) /\ new.writer = journal'.writer
  BY <1>1, <1>5, <1>6, <1>7
<1>. QED
  BY <1>8, <1>11, <1>12, Zenon DEF AckedInv

\* What an append that fails has left in the journal.
Left(w, rec, nw, how) ==
  IF how = "unsynced"
  THEN /\ nw.gen = w.gen /\ nw.sync = w.sync /\ nw.durable = w.durable /\ nw.next = w.next
       /\ nw.file = w.file \o Encode(rec)
  ELSE nw = w

\* It is no trace or the whole record, when no write is short.
LEMMA FailsLeave ==
  ASSUME ~ShortWrites, TypeInv, NEW how \in Failures, AppendFails(how)
  PROVE  Left(journal.writer, Record(journal.writer, Job), journal'.writer, how)
<1>1. PICK w : w = journal.writer
  OBVIOUS
<1>2. PICK rec : rec = Record(w, Job)
  OBVIOUS
<1>3. jobs # <<>> /\ <<Job.job, how>> \in MayFail
  BY DEF AppendFails
<1>4. \E k \in (IF how = "short" THEN 1..(Size(rec) - 1) ELSE {0}) :
        journal' = [journal EXCEPT !.writer =
          IF how = "unsynced" THEN AppendedUnsynced(w, rec) ELSE AppendedShort(w, rec, k)]
  BY <1>1, <1>2, Zenon DEF AppendFails
<1>5. Tier2Ok(journal) /\ JobsInv
  BY DEF TypeInv
<1>6. JobOk(Job)
  BY <1>3, <1>5, FirstJob
<1>7. how # "short"
  BY <1>3, <1>6 DEF ShortWrites, JobOk
<1>8. WriterOk(w) /\ w.next \in Nat \ {0}
  BY <1>1, <1>5 DEF Tier2Ok, WriterOk
<1>9. RecordOk(rec)
  BY <1>2, <1>6, <1>8, RecordOfJob
<1>10. PICK nw : nw = journal'.writer
  OBVIOUS
<1>11. nw = IF how = "unsynced" THEN AppendedUnsynced(w, rec) ELSE AppendedShort(w, rec, 0)
  <2>1. PICK nw2 : nw2 = IF how = "unsynced" THEN AppendedUnsynced(w, rec) ELSE AppendedShort(w, rec, 0)
    OBVIOUS
  <2>2. journal' = [journal EXCEPT !.writer = nw2]
    BY <1>4, <1>7, <2>1
  <2>3. journal'.writer = nw2
    BY <1>5, <2>2 DEF Tier2Ok
  <2>. QED
    BY <1>10, <2>1, <2>3
<1>12. w = [gen |-> w.gen, sync |-> w.sync, file |-> w.file, durable |-> w.durable,
           pos |-> w.pos, next |-> w.next]
  BY <1>8 DEF WriterOk
<1>13. CASE how = "unsynced"
  <2>1. PICK file : file = w.file \o Encode(rec)
    OBVIOUS
  <2>2. nw = [w EXCEPT !.file = file, !.pos = @ + Size(rec)]
    BY <1>11, <1>13, <2>1 DEF AppendedUnsynced
  <2>3. /\ nw.gen = w.gen /\ nw.sync = w.sync /\ nw.durable = w.durable /\ nw.next = w.next
        /\ nw.file = file
    BY <1>12, <2>2
  <2>. QED
    BY <1>1, <1>2, <1>10, <1>13, <2>1, <2>3 DEF Left
<1>14. CASE how # "unsynced"
  <2>1. w.file \o SubSeq(Encode(rec), 1, 0) = w.file
    <3>1. IsSeq(Encode(rec)) /\ IsSeq(w.file) /\ Len(w.file) \in Nat
      BY <1>8, <1>9, RecordCells, FileSized DEF WriterOk
    <3>2. PICK none : none = SubSeq(Encode(rec), 1, 0)
      OBVIOUS
    <3>3. IsSeq(none) /\ Len(none) = 0
      <4>1. 0 \in 0..Len(Encode(rec))
        BY <3>1 DEF IsSeq
      <4>. QED
        BY <3>1, <3>2, <4>1, Prefix
    <3>4. PICK file : file = w.file \o none
      OBVIOUS
    <3>5. IsSeq(file) /\ Len(file) = Len(w.file) + Len(none) /\ \A i \in 1..Len(w.file) : file[i] = w.file[i]
      BY <3>1, <3>3, <3>4, ConcatSeq
    <3>6. Len(file) = Len(w.file)
      BY <3>1, <3>3, <3>5
    <3>7. file = w.file
      BY <3>1, <3>5, <3>6 DEF IsSeq
    <3>. QED
      BY <3>2, <3>4, <3>7, Zenon
  <2>2. PICK file : file = w.file \o SubSeq(Encode(rec), 1, 0)
    OBVIOUS
  <2>3. nw = [w EXCEPT !.file = file]
    BY <1>11, <1>14, <2>2 DEF AppendedShort
  <2>4. nw = w
    BY <1>12, <2>1, <2>2, <2>3
  <2>. QED
    BY <1>1, <1>2, <1>10, <1>14, <2>4 DEF Left
<1>. QED
  BY <1>13, <1>14

\* An append that fails keeps what is acknowledged.
LEMMA AppendFailsHeld ==
  ASSUME ~ShortWrites, TypeInv, AckedInv, NEW how \in Failures, AppendFails(how)
  PROVE  AckedInv'
<1>1. PICK w, rec, nw : w = journal.writer /\ rec = Record(w, Job) /\ nw = journal'.writer
  OBVIOUS
<1>2. jobs # <<>> /\ UNCHANGED <<acked, flushed>>
  BY DEF AppendFails
<1>3. Tier2Ok(journal) /\ JobsInv /\ HistoryInv
  BY DEF TypeInv
<1>4. JobOk(Job)
  BY <1>2, <1>3, FirstJob
<1>5. w.next \in Nat \ {0}
  BY <1>1, <1>3 DEF Tier2Ok, WriterOk
<1>6. Good(rec, w.gen) /\ RecordOk(rec)
  BY <1>1, <1>4, <1>5, JobRecordGood, RecordOfJob
<1>7. Held(w, acked, flushed) /\ IsSeq(acked) /\ flushed \in 0..Len(acked)
  BY <1>1, <1>3 DEF AckedInv, HistoryInv
<1>8. Left(w, rec, nw, how)
  BY <1>1, FailsLeave
<1>9. CASE how = "unsynced"
  <2>1. /\ nw.gen = w.gen /\ nw.sync = w.sync /\ nw.durable = w.durable
        /\ nw.file = w.file \o Encode(rec)
    BY <1>8, <1>9 DEF Left
  <2>2. Held(nw, acked, flushed)
    BY <1>6, <1>7, <2>1, HeldAppend
  <2>. QED
    BY <1>1, <1>2, <2>2 DEF AckedInv
<1>10. CASE how # "unsynced"
  <2>1. nw = w
    BY <1>8, <1>10 DEF Left
  <2>. QED
    BY <1>1, <1>2, <1>7, <2>1 DEF AckedInv
<1>. QED
  BY <1>9, <1>10

\* A new journal.
LEMMA RewrittenHeld ==
  ASSUME Tier2Ok(journal),
         NEW pages, IsSeq(pages), \A i \in 1..Len(pages) : pages[i] \in Names,
         NEW rest, IsSeq(rest), \A i \in 1..Len(rest) : rest[i] \in Names,
         NEW contents \in [Names -> Parts], Rewritten(pages, rest, contents)
  PROVE  AckedInv'
<1>1. PICK t2 : t2 = NewTier2(journal.writer.gen + 1, journal.writer.sync)
  OBVIOUS
<1>2. PICK js : js = RewriteJobs(pages, rest, contents)
  OBVIOUS
<1>3. journal' = PutAll(t2, js) /\ acked' = RecordsFrom(t2.writer, js) /\ flushed' = Len(js)
  BY <1>1, <1>2, Zenon DEF Rewritten
<1>4. RewriteList(pages, contents, js)
  BY <1>2, RewriteJobsOk
<1>5. journal.writer.gen + 1 \in Nat \ {0} /\ journal.writer.sync \in BOOLEAN
  BY DEF Tier2Ok, WriterOk
<1>6. PICK new : new = PutAll(t2, js)
  OBVIOUS
<1>7. Held(new.writer, RecordsFrom(t2.writer, js), Len(js))
  BY <1>1, <1>4, <1>5, <1>6, HeldRewritten
<1>8. new.writer = journal'.writer
  BY <1>3, <1>6
<1>. QED
  BY <1>3, <1>7, <1>8, Zenon DEF AckedInv

\* Every step keeps what is acknowledged in the file.
LEMMA AckedStep ==
  ASSUME ~ShortWrites, TypeInv, AckedInv, [Next]_vars PROVE AckedInv'
<1>0. Tier2Ok(journal)
  BY DEF TypeInv
<1>1. ASSUME NEW n \in Names, NEW d \in Writes, WriteTier1(n, d) \/ WriteTier2(n, d) PROVE AckedInv'
  BY <1>1 DEF WriteTier1, WriteTier2, history, AckedInv
<1>2. ASSUME NEW n \in Names, Truncate(n) PROVE AckedInv'
  <2>1. journal' = [journal EXCEPT !.index[n] = NoLoc] /\ UNCHANGED <<acked, flushed>>
    BY <1>2 DEF Truncate
  <2>2. journal'.writer = journal.writer
    BY <1>0, <2>1 DEF Tier2Ok
  <2>. QED
    BY <2>1, <2>2 DEF AckedInv
<1>3. CASE Flush \/ CompactJournal
  BY <1>3 DEF Flush, CompactJournal, history, AckedInv
<1>4. CASE AppendOk
  BY <1>4, AppendOkHeld
<1>5. CASE CompactSwap
  <2>1. PICK pages, rest : Renewed(pages, rest, [n \in Names |-> Read(n)])
    BY <1>5, CompactRenews
  <2>2. PICK contents : contents = [n \in Names |-> Read(n)]
    OBVIOUS
  <2>. QED
    BY <1>0, <2>1, <2>2, RewrittenHeld DEF Renewed, Distinct
<1>6. ASSUME NEW how \in Failures, AppendFails(how) PROVE AckedInv'
  BY <1>6, AppendFailsHeld
<1>7. CASE CrashAndRecover
  <2>1. PICK recs, chosen, contents, names, paged, fifo, rest :
          CrashFits(recs, chosen, contents, names, paged, fifo, rest)
    BY <1>7, CrashRenews
  <2>2. Renewed(fifo, rest, contents)
    BY <2>1 DEF CrashFits
  <2>. QED
    BY <1>0, <2>2, RewrittenHeld DEF Renewed, Distinct
<1>8. CASE UNCHANGED vars
  BY <1>8 DEF vars, history, AckedInv
<1>. QED
  BY <1>1, <1>2, <1>3, <1>4, <1>5, <1>6, <1>7, <1>8 DEF Next

\* Whatever a crash leaves, the walk finds what was safe, and nothing of another
\* journal.
LEMMA HeldSurvives ==
  ASSUME TypeInv, AckedInv PROVE AckedSurvive
<1>. DEFINE w    == journal.writer
            safe == IF w.sync THEN Len(acked) ELSE flushed
<1>1. WriterOk(w) /\ IsSeq(acked) /\ flushed \in 0..Len(acked) /\ Len(acked) \in Nat
  BY DEF TypeInv, Tier2Ok, HistoryInv, IsSeq
<1>. HIDE DEF w
<1>2. ASSUME NEW img \in Images
      PROVE  LET recs == RecordsOf(img) IN
             /\ \A i \in 1..safe : acked[i] \in ToSet(recs)
             /\ \A r \in ToSet(recs) : r.gen = w.gen
             /\ IsEmpty(recs) => \A i \in 1..safe : acked[i].kind = "marker"
  <2>1. PICK recs : recs = RecordsOf(img)
    OBVIOUS
  <2>2. img \in CrashImages(w, OldRecord)
    BY DEF Images, w
  <2>3. IsSeq(recs) /\ \A i \in 1..Len(recs) : Found(recs[i], w.gen)
    BY <1>1, <2>1, <2>2, ImageRecords
  <2>4. ToSet(recs) = {recs[i] : i \in 1..Len(recs)}
    BY <2>3, ToSetOf
  <2>5. ASSUME NEW i \in 1..safe PROVE acked[i] \in ToSet(recs)
    <3>1. i \in 1..Len(acked) /\ (w.sync \/ i <= flushed)
      BY <1>1
    <3>2. Held(w, acked, flushed)
      BY DEF AckedInv, w
    <3>. QED
      BY <1>1, <2>1, <2>2, <3>1, <3>2, HeldFound
  <2>6. \A r \in ToSet(recs) : r.gen = w.gen
    BY <2>3, <2>4 DEF Found
  <2>7. ASSUME IsEmpty(recs), NEW i \in 1..safe PROVE acked[i].kind = "marker"
    <3>1. PICK j \in 1..Len(recs) : recs[j] = acked[i]
      BY <2>4, <2>5
    <3>2. RecordOk(recs[j]) /\ recs[j].kind \in {"data", "meta", "marker"}
      BY <2>3 DEF Found
    <3>3. SUFFICES ASSUME recs[j].kind # "marker" PROVE FALSE
      BY <3>1
    <3>4. recs[j].seq \in Nat
      BY <3>2, <3>3 DEF RecordOk
    <3>5. j \in DOMAIN recs \ Markers(recs)
      BY <2>3, <3>3 DEF Markers, IsSeq
    <3>6. LastCommit(recs) = 0 /\ Committed(recs) = {} /\ Uncommitted(recs) = {}
      BY <2>7 DEF IsEmpty
    <3>7. ~(recs[j].seq <= 0) /\ ~(recs[j].seq > 0)
      BY <3>5, <3>6 DEF Committed, Uncommitted
    <3>. QED
      BY <3>4, <3>7
  <2>. QED
    BY <2>1, <2>5, <2>6, <2>7, Zenon
<1>. QED
  BY <1>2 DEF AckedSurvive, w

\* What was acknowledged survives every crash, when no append writes a part of a
\* record: under Sync each record whose append succeeded, under Lazy each up to
\* the marker of the last flush; and no record of another journal is believed
\* (append_raw, SyncPolicy, read_vmdirty).
THEOREM AcknowledgedSurvives == ASSUME ~ShortWrites PROVE Spec => []AckedSurvive
<1>1. Init => AckedInv
  <2>. SUFFICES ASSUME Init PROVE AckedInv
    OBVIOUS
  <2>1. PICK sync \in BOOLEAN : journal = NewTier2(1, sync)
    BY DEF Init
  <2>2. acked = <<>> /\ flushed = 0
    BY DEF Init
  <2>3. journal.writer = NewWriter(1, sync)
    BY <2>1 DEF NewTier2
  <2>4. 1 \in Nat \ {0}
    OBVIOUS
  <2>5. Held(NewWriter(1, sync), <<>>, 0)
    BY <2>4, HeldNew, Zenon
  <2>. QED
    BY <2>2, <2>3, <2>5 DEF AckedInv
<1>2. TypeInv /\ AckedInv /\ [Next]_vars => AckedInv'
  BY AckedStep
<1>3. TypeInv /\ AckedInv => AckedSurvive
  BY HeldSurvives
<1>. QED
  BY <1>1, <1>2, <1>3, TypesKept, PTL DEF Spec

-----------------------------------------------------------------------------
(* The count of the records. *)

\* The heads of the data records in a file, and the entries that an index has.
Heads(file)    == {i \in DOMAIN file : file[i].cell = "head" /\ file[i].rec.kind = "data"}
Indexed(index) == {n \in Names : index[n] # NoLoc}

CountOk(t2) ==
  /\ Cardinality(Indexed(t2.index)) <= t2.records
  /\ t2.records <= Cardinality(Heads(t2.writer.file))

\* Both sets are finite.
LEMMA CountsFinite ==
  ASSUME NEW t2, Tier2Ok(t2)
  PROVE  /\ IsFiniteSet(Indexed(t2.index)) /\ Cardinality(Indexed(t2.index)) \in Nat
         /\ IsFiniteSet(Heads(t2.writer.file)) /\ Cardinality(Heads(t2.writer.file)) \in Nat
<1>1. IsFiniteSet(Indexed(t2.index))
  BY SpillAssumption, FS_Subset DEF Indexed
<1>2. IsFiniteSet(Heads(t2.writer.file))
  <2>1. Len(t2.writer.file) \in Nat /\ DOMAIN t2.writer.file = 1..Len(t2.writer.file)
    BY FileSized DEF Tier2Ok, WriterOk
  <2>2. PICK n \in Nat : n = Len(t2.writer.file)
    BY <2>1
  <2>3. IsFiniteSet(1..n)
    BY FS_Interval
  <2>. QED
    BY <2>1, <2>2, <2>3, FS_Subset DEF Heads
<1>. QED
  BY <1>1, <1>2, FS_CardinalityType

\* A file that grows loses no head.
LEMMA HeadsStay ==
  ASSUME NEW file, IsSeq(file), NEW new, IsSeq(new), Extends(file, new)
  PROVE  /\ Heads(file) \subseteq Heads(new) /\ IsFiniteSet(Heads(new))
         /\ Cardinality(Heads(file)) <= Cardinality(Heads(new))
<1>1. /\ Len(file) \in Nat /\ DOMAIN file = 1..Len(file)
      /\ Len(new) \in Nat /\ DOMAIN new = 1..Len(new)
  BY DEF IsSeq
<1>2. Heads(file) \subseteq Heads(new)
  BY <1>1 DEF Heads, Extends
<1>3. IsFiniteSet(Heads(new))
  <2>1. IsFiniteSet(1..Len(new))
    BY <1>1, FS_Interval
  <2>. QED
    BY <1>1, <2>1, FS_Subset DEF Heads
<1>. QED
  BY <1>2, <1>3, FS_Subset

\* A data record has a head more.
LEMMA HeadsAdd ==
  ASSUME NEW file, IsSeq(file), NEW new, IsSeq(new), Extends(file, new),
         NEW rec, rec.kind = "data", Len(file) + 1 <= Len(new), new[Len(file) + 1] = HeadCell(rec)
  PROVE  Cardinality(Heads(file)) + 1 <= Cardinality(Heads(new))
<1>1. /\ Len(file) \in Nat /\ DOMAIN file = 1..Len(file)
      /\ Len(new) \in Nat /\ DOMAIN new = 1..Len(new)
  BY DEF IsSeq
<1>2. PICK x : x = Len(file) + 1
  OBVIOUS
<1>3. Heads(file) \subseteq Heads(new) /\ IsFiniteSet(Heads(new))
  BY HeadsStay
<1>4. x \in Heads(new)
  BY <1>1, <1>2 DEF Heads, HeadCell
<1>5. x \notin Heads(file)
  BY <1>1, <1>2 DEF Heads
<1>6. IsFiniteSet(Heads(file))
  BY <1>3, FS_Subset
<1>7. Cardinality(Heads(file) \cup {x}) = Cardinality(Heads(file)) + 1
  BY <1>5, <1>6, FS_AddElement
<1>8. Heads(file) \cup {x} \subseteq Heads(new)
  BY <1>3, <1>4
<1>. QED
  BY <1>3, <1>7, <1>8, FS_Subset

\* A job that is done.
LEMMA CountPut ==
  ASSUME NEW t2, Tier2Ok(t2), NEW j, JobOk(j), NEW new, PutOk(t2, j, new), CountOk(t2)
  PROVE  CountOk(new)
<1>1. PICK w : w = t2.writer
  OBVIOUS
<1>2. PICK nw : nw = new.writer
  OBVIOUS
<1>3. PICK rec : rec = Record(w, j)
  OBVIOUS
<1>4. /\ Tier2Ok(new) /\ Extends(w.file, nw.file) /\ nw.file = w.file \o Encode(rec)
      /\ new.index = IF IsData(j) THEN [t2.index EXCEPT ![j.name] = Loc(w, j.data)] ELSE t2.index
      /\ new.records = IF IsData(j) THEN t2.records + 1 ELSE t2.records
  BY <1>1, <1>2, <1>3 DEF PutOk
<1>5. WriterOk(w) /\ w.next \in Nat \ {0} /\ WriterOk(nw)
  BY <1>1, <1>2, <1>4 DEF Tier2Ok, WriterOk
<1>6. FileOk(w.file, w.gen) /\ IsSeq(w.file) /\ IsSeq(nw.file) /\ Len(w.file) \in Nat
  BY <1>5, FileSized DEF WriterOk
<1>7. /\ IsFiniteSet(Indexed(t2.index)) /\ Cardinality(Indexed(t2.index)) \in Nat
      /\ Cardinality(Heads(w.file)) \in Nat /\ Cardinality(Heads(nw.file)) \in Nat
      /\ Cardinality(Indexed(new.index)) \in Nat /\ t2.records \in Nat
  BY <1>1, <1>2, <1>4, CountsFinite DEF Tier2Ok
<1>8. Cardinality(Indexed(t2.index)) <= t2.records /\ t2.records <= Cardinality(Heads(w.file))
  BY <1>1 DEF CountOk
<1>9. CASE IsData(j)
  <2>1. RecordOk(rec) /\ rec.kind = "data"
    BY <1>3, <1>5, <1>9, RecordOfJob DEF IsData
  <2>2. /\ Size(rec) \in Nat /\ Size(rec) >= 2 /\ Encode(rec)[1] = HeadCell(rec)
    BY <2>1, RecordCells
  <2>3. Len(nw.file) = Len(w.file) + Size(rec) /\ nw.file[Len(w.file) + 1] = HeadCell(rec)
    <3>1. PICK file : file = w.file \o Encode(rec)
      OBVIOUS
    <3>2. Len(file) = Len(w.file) + Size(rec) /\ \A i \in 1..Size(rec) : file[Len(w.file) + i] = Encode(rec)[i]
      BY ZenonT(40), <1>6, <2>1, <3>1, RecordAppended
    <3>3. 1 \in 1..Size(rec)
      BY <2>2
    <3>. QED
      BY <1>4, <2>2, <3>1, <3>2, <3>3
  <2>4. Cardinality(Heads(w.file)) + 1 <= Cardinality(Heads(nw.file))
    <3>1. Len(w.file) + 1 <= Len(nw.file)
      BY <1>6, <2>2, <2>3
    <3>. QED
      BY <1>4, <1>6, <2>1, <2>3, <3>1, HeadsAdd
  <2>5. Indexed(new.index) \subseteq Indexed(t2.index) \cup {j.name}
    <3>1. t2.index \in [Names -> Places]
      BY DEF Tier2Ok
    <3>. QED
      BY <1>4, <1>9, <3>1 DEF Indexed
  <2>6. Cardinality(Indexed(new.index)) <= Cardinality(Indexed(t2.index)) + 1
    <3>1. PICK S : S = Indexed(t2.index)
      OBVIOUS
    <3>2. PICK x : x = j.name
      OBVIOUS
    <3>3. IsFiniteSet(S \cup {x}) /\ Cardinality(S \cup {x}) <= Cardinality(S) + 1
      <4>1. IsFiniteSet(S) /\ Cardinality(S) \in Nat
        BY <1>7, <3>1
      <4>2. /\ IsFiniteSet(S \cup {x})
            /\ Cardinality(S \cup {x}) = IF x \in S THEN Cardinality(S) ELSE Cardinality(S) + 1
        BY <4>1, FS_AddElement
      <4>. QED
        BY <4>1, <4>2
    <3>4. Cardinality(Indexed(new.index)) <= Cardinality(S \cup {x})
      BY <2>5, <3>1, <3>2, <3>3, FS_Subset
    <3>5. Cardinality(S \cup {x}) \in Nat
      BY <3>3, FS_CardinalityType
    <3>. QED
      BY <1>7, <3>1, <3>3, <3>4, <3>5
  <2>. QED
    BY <1>2, <1>4, <1>7, <1>8, <1>9, <2>4, <2>6 DEF CountOk
<1>10. CASE ~IsData(j)
  <2>1. Cardinality(Heads(w.file)) <= Cardinality(Heads(nw.file))
    BY <1>4, <1>6, HeadsStay
  <2>. QED
    BY <1>2, <1>4, <1>7, <1>8, <1>10, <2>1 DEF CountOk
<1>. QED
  BY <1>9, <1>10

\* A journal without records, and a list of jobs that are done.
LEMMA CountNew ==
  ASSUME NEW gen \in Nat \ {0}, NEW sync \in BOOLEAN, NEW t2, t2 = NewTier2(gen, sync)
  PROVE  Tier2Ok(t2) /\ CountOk(t2)
<1>1. Tier2Ok(t2)
  BY NewTier2Ok
<1>2. t2.records = 0 /\ t2.index = [n \in Names |-> NoLoc]
  BY DEF NewTier2
<1>3. Indexed(t2.index) = {}
  BY <1>2 DEF Indexed
<1>4. Cardinality(Indexed(t2.index)) = 0
  BY <1>3, FS_EmptySet
<1>5. Cardinality(Heads(t2.writer.file)) \in Nat
  BY <1>1, CountsFinite
<1>. QED
  BY <1>1, <1>2, <1>4, <1>5 DEF CountOk

\* A list of jobs that are done.
LEMMA CountPutAll ==
  ASSUME NEW t2, Tier2Ok(t2), CountOk(t2), NEW js, Len(js) \in Nat, \A i \in 1..Len(js) : JobOk(js[i])
  PROVE  CountOk(PutAll(t2, js))
<1>1. PICK after : PutSteps(t2, js, after)
  BY PutAllSteps
<1>2. PICK n : n = Len(js)
  OBVIOUS
<1>3. /\ PutAll(t2, js) = after[n] /\ after[0] = t2
      /\ \A k \in 1..n : after[k] = Put(after[k - 1], js[k])
  BY <1>1, <1>2 DEF PutSteps
<1>. DEFINE T == {k \in 0..n : Tier2Ok(after[k]) /\ CountOk(after[k])}
<1>4. 0 \in T
  BY <1>2, <1>3
<1>5. ASSUME NEW k \in 1..n, k - 1 \in T PROVE k \in T
  <2>1. PICK t : t = after[k - 1]
    OBVIOUS
  <2>2. PICK j : j = js[k]
    OBVIOUS
  <2>3. PICK new : new = after[k]
    OBVIOUS
  <2>4. Tier2Ok(t) /\ CountOk(t) /\ JobOk(j) /\ new = Put(t, j)
    BY <1>2, <1>3, <1>5, <2>1, <2>2, <2>3
  <2>5. PutOk(t, j, new)
    BY <2>4, PutFields
  <2>6. CountOk(new) /\ Tier2Ok(new)
    BY <2>4, <2>5, CountPut DEF PutOk
  <2>7. k \in 0..n
    BY <1>2
  <2>. QED
    BY <2>3, <2>6, <2>7
<1>. HIDE DEF T
<1>6. \A k \in 0..n : k \in T
  BY <1>2, <1>4, <1>5, CountUp
<1>7. n \in T
  BY <1>2, <1>6
<1>. QED
  BY <1>3, <1>7 DEF T

\* Every step keeps the count.
LEMMA CountStep ==
  ASSUME TypeInv, CountOk(journal), [Next]_vars PROVE CountOk(journal')
<1>0. Tier2Ok(journal) /\ JobsInv
  BY DEF TypeInv
<1>. DEFINE Rewrites == \E pages, rest, contents : Renewed(pages, rest, contents)
<1>1. ASSUME NEW n \in Names, NEW d \in Writes, WriteTier1(n, d) \/ WriteTier2(n, d)
      PROVE  CountOk(journal')
  BY <1>1 DEF WriteTier1, WriteTier2
<1>2. ASSUME NEW n \in Names, Truncate(n) PROVE CountOk(journal')
  <2>1. journal' = [journal EXCEPT !.index[n] = NoLoc]
    BY <1>2 DEF Truncate
  <2>2. PICK t2 : t2 = journal
    OBVIOUS
  <2>3. PICK new : new = [t2 EXCEPT !.index[n] = NoLoc]
    OBVIOUS
  <2>4. /\ t2 = [writer |-> t2.writer, index |-> t2.index, records |-> t2.records]
        /\ t2.index \in [Names -> Places] /\ t2.records \in Nat
    BY <1>0, <2>2 DEF Tier2Ok
  <2>5. new.writer = t2.writer /\ new.records = t2.records /\ new.index = [t2.index EXCEPT ![n] = NoLoc]
    BY <2>3, <2>4
  <2>6. Indexed(new.index) \subseteq Indexed(t2.index)
    BY <2>4, <2>5 DEF Indexed
  <2>7. Cardinality(Indexed(new.index)) <= Cardinality(Indexed(t2.index))
        /\ Cardinality(Indexed(new.index)) \in Nat /\ Cardinality(Indexed(t2.index)) \in Nat
    <3>1. IsFiniteSet(Indexed(t2.index))
      BY <1>0, <2>2, CountsFinite
    <3>. QED
      BY <2>6, <3>1, FS_Subset, FS_CardinalityType
  <2>8. CountOk(t2)
    BY <2>2
  <2>9. CountOk(new)
    BY <2>4, <2>5, <2>7, <2>8 DEF CountOk
  <2>. QED
    BY <2>1, <2>2, <2>3, <2>9
<1>3. CASE Flush \/ CompactJournal
  BY <1>3 DEF Flush, CompactJournal
<1>4. CASE AppendOk
  <2>1. journal' = Put(journal, Job) /\ jobs # <<>>
    BY <1>4 DEF AppendOk
  <2>2. JobOk(Job)
    BY <1>0, <2>1, FirstJob
  <2>3. PICK t2 : t2 = journal
    OBVIOUS
  <2>4. PICK new : new = journal'
    OBVIOUS
  <2>5. PICK j : j = Job
    OBVIOUS
  <2>6. Tier2Ok(t2) /\ CountOk(t2) /\ JobOk(j) /\ new = Put(t2, j)
    BY <1>0, <2>1, <2>2, <2>3, <2>4, <2>5
  <2>7. CountOk(new)
    BY <2>6, PutFields, CountPut
  <2>. QED
    BY <2>4, <2>7
<1>5. ASSUME NEW how \in Failures, AppendFails(how) PROVE CountOk(journal')
  <2>1. /\ TypeInv' /\ Extends(journal.writer.file, journal'.writer.file)
        /\ journal'.index = journal.index /\ journal'.records = journal.records
    BY <1>5, AppendFailsType
  <2>2. Tier2Ok(journal')
    BY <2>1 DEF TypeInv
  <2>3. PICK file : file = journal.writer.file
    OBVIOUS
  <2>4. PICK new : new = journal'.writer.file
    OBVIOUS
  <2>5. IsSeq(file) /\ IsSeq(new) /\ Extends(file, new)
    BY <1>0, <2>1, <2>2, <2>3, <2>4 DEF Tier2Ok, WriterOk, FileOk
  <2>6. Cardinality(Heads(file)) <= Cardinality(Heads(new))
    BY <2>5, HeadsStay
  <2>7. Cardinality(Heads(file)) \in Nat /\ Cardinality(Heads(new)) \in Nat /\ journal.records \in Nat
    BY <1>0, <2>2, <2>3, <2>4, CountsFinite DEF Tier2Ok
  <2>. QED
    BY <2>1, <2>3, <2>4, <2>6, <2>7 DEF CountOk
<1>6. ASSUME Rewrites PROVE CountOk(journal')
  <2>1. PICK pages, rest, contents : Renewed(pages, rest, contents)
    BY <1>6
  <2>2. PICK t2 : t2 = NewTier2(journal.writer.gen + 1, journal.writer.sync)
    OBVIOUS
  <2>3. PICK js : js = RewriteJobs(pages, rest, contents)
    OBVIOUS
  <2>4. journal' = PutAll(t2, js)
    BY <2>1, <2>2, <2>3, Zenon DEF Renewed, Rewritten
  <2>5. RewriteList(pages, contents, js)
    BY <2>1, <2>3, RewriteJobsOk DEF Renewed, Distinct
  <2>6. journal.writer.gen + 1 \in Nat \ {0} /\ journal.writer.sync \in BOOLEAN
    BY <1>0 DEF Tier2Ok, WriterOk
  <2>7. Tier2Ok(t2) /\ CountOk(t2)
    BY <2>2, <2>6, CountNew
  <2>8. CountOk(PutAll(t2, js))
    BY <2>5, <2>7, CountPutAll DEF RewriteList
  <2>. QED
    BY <2>4, <2>8
<1>7. CASE CompactSwap
  BY <1>6, <1>7, CompactRenews
<1>8. CASE CrashAndRecover
  BY <1>6, <1>8, CrashRenews DEF CrashFits
<1>9. CASE UNCHANGED vars
  BY <1>9 DEF vars
<1>. QED
  BY <1>1, <1>2, <1>3, <1>4, <1>5, <1>7, <1>8, <1>9 DEF Next

\* The records that are not live are in the file, and dead.
LEMMA CountsDead ==
  ASSUME TypeInv, CountOk(journal) PROVE CompactsDeadOnly
<1>1. PICK index : index = journal.index
  OBVIOUS
<1>2. PICK file : file = journal.writer.file
  OBVIOUS
<1>3. PICK live : live = {index[n] : n \in Indexed(index)}
  OBVIOUS
<1>4. PICK dead : dead = {i \in Heads(file) : \A l \in live : l.offset # i + 1}
  OBVIOUS
<1>5. Tier2Ok(journal) /\ journal.records \in Nat
  BY DEF TypeInv, Tier2Ok
<1>6. /\ IsFiniteSet(Indexed(index)) /\ Cardinality(Indexed(index)) \in Nat
      /\ IsFiniteSet(Heads(file)) /\ Cardinality(Heads(file)) \in Nat
  BY <1>1, <1>2, <1>5, CountsFinite
<1>7. IsFiniteSet(live) /\ Cardinality(live) <= Cardinality(Indexed(index)) /\ Cardinality(live) \in Nat
  <2>1. PICK S : S = Indexed(index)
    OBVIOUS
  <2>2. [n \in S |-> index[n]] \in Surjection(S, live)
    BY <1>3, <2>1 DEF Surjection
  <2>3. IsFiniteSet(live) /\ Cardinality(live) <= Cardinality(S)
    BY <1>6, <2>1, <2>2, FS_Surjection
  <2>. QED
    BY <2>1, <2>3, FS_CardinalityType
<1>8. Cardinality(Heads(file) \ dead) <= Cardinality(live) /\ Cardinality(Heads(file) \ dead) \in Nat
  <2>1. PICK D : D = Heads(file) \ dead
    OBVIOUS
  <2>2. \A i \in D : i \in Nat /\ \E l \in live : l.offset = i + 1
    <3>1. DOMAIN file = 1..Len(file)
      BY <1>2, <1>5, FileSized DEF Tier2Ok, WriterOk
    <3>. QED
      BY <1>4, <2>1, <3>1 DEF Heads
  <2>3. PICK f : f = [i \in D |-> CHOOSE l \in live : l.offset = i + 1]
    OBVIOUS
  <2>4. ASSUME NEW i \in D PROVE f[i] \in live /\ f[i].offset = i + 1
    <3>1. f[i] = CHOOSE l \in live : l.offset = i + 1
      BY <2>3
    <3>2. \E l \in live : l.offset = i + 1
      BY <2>2
    <3>. QED
      BY <3>1, <3>2
  <2>5. f \in Injection(D, live)
    <3>1. f \in [D -> live]
      BY <2>3, <2>4
    <3>2. \A i, j \in D : f[i] = f[j] => i = j
      BY <2>2, <2>4
    <3>. QED
      BY <3>1, <3>2 DEF Injection, IsInjective
  <2>6. IsFiniteSet(D) /\ Cardinality(D) <= Cardinality(live)
    BY <1>7, <2>5, FS_Injection
  <2>. QED
    BY <2>1, <2>6, FS_CardinalityType
<1>9. Cardinality(dead) = Cardinality(Heads(file)) - Cardinality(Heads(file) \ dead)
  <2>1. dead \subseteq Heads(file)
    BY <1>4
  <2>2. Heads(file) \ (Heads(file) \ dead) = dead
        /\ Heads(file) \cap (Heads(file) \ dead) = Heads(file) \ dead
    BY <2>1
  <2>3. PICK D : D = Heads(file) \ dead
    OBVIOUS
  <2>4. Cardinality(Heads(file) \ D) = Cardinality(Heads(file)) - Cardinality(Heads(file) \cap D)
    BY <1>6, FS_Difference
  <2>. QED
    BY <2>2, <2>3, <2>4
<1>10. Cardinality(Indexed(index)) <= journal.records /\ journal.records <= Cardinality(Heads(file))
  BY <1>1, <1>2 DEF CountOk
<1>11. /\ journal.records >= Cardinality(live)
       /\ journal.records - Cardinality(live) <= Cardinality(dead)
  BY <1>5, <1>6, <1>7, <1>8, <1>9, <1>10
<1>12. live = {journal.index[n] : n \in {m \in Names : InTier2(m)}}
  BY <1>1, <1>3 DEF InTier2, Indexed
<1>13. dead = {i \in DOMAIN file :
                 /\ file[i].cell = "head" /\ file[i].rec.kind = "data"
                 /\ \A l \in live : l.offset # i + 1}
  BY <1>4 DEF Heads
<1>. QED
  BY <1>2, <1>11, <1>12, <1>13, Zenon DEF CompactsDeadOnly

CountInv == CountOk(journal)

\* Whatever fails, the count that decides on a compaction says no more records are
\* dead than the file has dead ones (data_records, should_compact).
THEOREM OnlyDeadRecordsCompacted == Spec => []CompactsDeadOnly
<1>1. Init => CountInv
  <2>. SUFFICES ASSUME Init PROVE CountInv
    OBVIOUS
  <2>1. PICK sync \in BOOLEAN : journal = NewTier2(1, sync)
    BY DEF Init
  <2>2. 1 \in Nat \ {0}
    OBVIOUS
  <2>3. Tier2Ok(NewTier2(1, sync)) /\ CountOk(NewTier2(1, sync))
    BY <2>2, CountNew, Zenon
  <2>. QED
    BY <2>1, <2>3 DEF CountInv
<1>2. TypeInv /\ CountInv /\ [Next]_vars => CountInv'
  BY CountStep DEF CountInv
<1>3. TypeInv /\ CountInv => CompactsDeadOnly
  BY CountsDead DEF CountInv
<1>. QED
  BY <1>1, <1>2, <1>3, TypesKept, PTL DEF Spec

-----------------------------------------------------------------------------
(* What is read is what was written last. *)

\* No append of a spill fails: one that does loses the victims behind it.
SpillsSucceed == \A how \in Failures : <<"spill", how>> \notin MayFail

Zeroes(k)     == [i \in 1..k |-> 0]
Stored(t2, n) == ReadPageAt(t2.writer.file, t2.index[n])

\* Tier 2 has c of entry n: in its page, or as the zeroes of one without a page.
InJournal(t2, n, c) ==
  c = IF t2.index[n] # NoLoc THEN Clamp(Stored(t2, n), Len(c)) ELSE Zeroes(Len(c))

\* Is the page of an entry on its way to Tier 2?
Pending(n) == \E i \in 1..Len(jobs) : jobs[i].job = "spill" /\ jobs[i].name = n

PagesInv ==
  \A n \in Names :
    /\ size[n] = Len(content[n])
    /\ tier1[n] # NoPage => content[n] = Clamp(tier1[n], size[n])
    /\ tier1[n] = NoPage /\ ~Pending(n) => InJournal(journal, n, content[n])
    /\ tier1[n] # NoPage \/ InTier2(n) => n \in dirty

PendingInv ==
  \A i \in 1..Len(jobs) :
    /\ jobs[i].job = "spill" =>
         /\ tier1[jobs[i].name] = NoPage /\ jobs[i].data = content[jobs[i].name]
         /\ \A j \in 1..Len(jobs) : jobs[j].job = "spill" /\ jobs[j].name = jobs[i].name => i = j
    /\ jobs[i].job = "hit" => Len(jobs) = 1 /\ tier1[jobs[i].name] = NoPage
    /\ IsData(jobs[i]) => jobs[i].name \in dirty

\* Pages with the same bytes.
LEMMA SamePage ==
  ASSUME NEW p \in [1..PageSize -> Byte], NEW q \in [1..PageSize -> Byte],
         \A i \in 1..PageSize : p[i] = q[i]
  PROVE  p = q
<1>1. p = [i \in 1..PageSize |-> p[i]] /\ q = [i \in 1..PageSize |-> q[i]]
  OBVIOUS
<1>. QED
  BY <1>1

\* A page reads the same in a longer file.
LEMMA PageKept ==
  ASSUME NEW file, NEW gen, FileOk(file, gen), NEW new, FileOk(new, gen), Extends(file, new),
         NEW loc, PlaceOk(file, loc)
  PROVE  ReadPageAt(new, loc) = ReadPageAt(file, loc)
<1>1. IsSeq(file) /\ IsSeq(new)
  BY DEF FileOk
<1>2. PlaceOk(new, loc)
  BY <1>1, PlaceStays
<1>3. PICK p : p = ReadPageAt(file, loc)
  OBVIOUS
<1>4. PICK q : q = ReadPageAt(new, loc)
  OBVIOUS
<1>5. /\ p \in [1..PageSize -> Byte]
      /\ \A i \in 1..PageSize : p[i] =
              IF i > loc.len THEN 0
              ELSE IF file[loc.offset + i - 1].cell = "byte"
                   THEN file[loc.offset + i - 1].byte ELSE NotData
  BY <1>3, PageRead
<1>6. /\ q \in [1..PageSize -> Byte]
      /\ \A i \in 1..PageSize : q[i] =
              IF i > loc.len THEN 0
              ELSE IF new[loc.offset + i - 1].cell = "byte"
                   THEN new[loc.offset + i - 1].byte ELSE NotData
  BY <1>2, <1>4, PageRead
<1>7. /\ loc.offset \in Nat /\ loc.len \in Nat /\ Len(file) \in Nat
      /\ loc.offset + loc.len - 1 <= Len(file) /\ (loc.len > 0 => loc.offset > 0)
  BY <1>1, VmdirtyAssumption DEF PlaceOk, Places, IsSeq
<1>8. ASSUME NEW i \in 1..PageSize PROVE q[i] = p[i]
  <2>1. CASE i > loc.len
    BY <1>5, <1>6, <2>1
  <2>2. CASE ~(i > loc.len)
    <3>1. i \in 1..loc.len
      BY <1>7, <2>2
    <3>2. loc.offset + i - 1 \in 1..Len(file)
      BY <1>7, <3>1, PlaceCells
    <3>3. new[loc.offset + i - 1] = file[loc.offset + i - 1]
      BY <3>2 DEF Extends
    <3>. QED
      BY <1>5, <1>6, <3>3
  <2>. QED
    BY <2>1, <2>2
<1>9. q = p
  BY <1>5, <1>6, <1>8, SamePage
<1>. QED
  BY <1>3, <1>4, <1>9

\* A page that was appended reads as it was written, and zeroes behind it.
LEMMA PageStored ==
  ASSUME ~ShortWrites, NEW w, WriterOk(w), NEW rec, RecordOk(rec), NEW d, Data(rec) = d, d \in Parts
  PROVE  /\ ReadPageAt(w.file \o Encode(rec), Loc(w, d)) = Padded(d)
         /\ Loc(w, d) # NoLoc
<1>1. PICK new : new = w.file \o Encode(rec)
  OBVIOUS
<1>2. PICK loc : loc = Loc(w, d)
  OBVIOUS
<1>3. PICK fl : fl = Len(w.file)
  OBVIOUS
<1>4. PICK l : l = Len(d)
  OBVIOUS
<1>5. /\ FileOk(w.file, w.gen) /\ w.pos = fl + 1 /\ fl \in Nat
  BY <1>3 DEF WriterOk, FileOk, IsSeq
<1>6. /\ Size(rec) = l + 2 /\ l \in 0..PageSize
      /\ \A i \in 1..l : Encode(rec)[i + 1] = ByteCell(d[i])
  BY <1>4, RecordCells
<1>7. l \in Nat
  BY <1>6, VmdirtyAssumption
<1>8. /\ FileOk(new, w.gen) /\ \A i \in 1..Size(rec) : new[fl + i] = Encode(rec)[i]
  <2>1. FileOk(w.file \o Encode(rec), w.gen)
    BY <1>5, RecordAppended
  <2>2. \A i \in 1..Size(rec) : (w.file \o Encode(rec))[Len(w.file) + i] = Encode(rec)[i]
    BY SMTT(40), <1>5, RecordAppended
  <2>. QED
    BY <1>1, <1>3, <2>1, <2>2
<1>9. PlaceOk(new, loc)
  BY <1>1, <1>2, LocOk
<1>10. loc.offset = fl + 2 /\ loc.len = l
  BY <1>2, <1>4, <1>5 DEF Loc
<1>11. PICK p : p = ReadPageAt(new, loc)
  OBVIOUS
<1>12. /\ p \in [1..PageSize -> Byte]
       /\ \A i \in 1..PageSize : p[i] =
              IF i > loc.len THEN 0
              ELSE IF new[loc.offset + i - 1].cell = "byte"
                   THEN new[loc.offset + i - 1].byte ELSE NotData
  BY <1>8, <1>9, <1>11, PageRead
<1>13. ASSUME NEW i \in 1..PageSize PROVE p[i] = Padded(d)[i]
  <2>1. Padded(d)[i] = IF i <= l THEN d[i] ELSE 0
    BY <1>4 DEF Padded
  <2>2. CASE i > l
    BY <1>7, <1>10, <1>12, <2>1, <2>2
  <2>3. CASE i <= l
    <3>1. loc.offset + i - 1 = fl + (i + 1) /\ i + 1 \in 1..Size(rec) /\ i \in 1..l
      BY <1>5, <1>6, <1>7, <1>10, <2>3
    <3>2. new[loc.offset + i - 1] = ByteCell(d[i])
      BY <1>6, <1>8, <3>1
    <3>3. ~(i > loc.len)
      BY <1>7, <1>10, <2>3
    <3>. QED
      BY <1>12, <2>1, <2>3, <3>2, <3>3 DEF ByteCell
  <2>. QED
    BY <1>7, <2>2, <2>3
<1>14. p = Padded(d)
  <2>1. Padded(d) \in [1..PageSize -> Byte]
    BY PaddedIsPage
  <2>. QED
    BY <1>12, <1>13, <2>1, SamePage
<1>15. loc # NoLoc
  BY <1>5, <1>10 DEF NoLoc
<1>. QED
  BY <1>1, <1>2, <1>11, <1>14, <1>15

\* A page cut to what was written of it.
LEMMA ClampPadded ==
  ASSUME NEW d, d \in Parts PROVE Clamp(Padded(d), Len(d)) = d
<1>1. IsSeq(d) /\ Len(d) \in 0..PageSize /\ Len(d) \in Nat
  BY PartFields, VmdirtyAssumption
<1>2. PICK p : p = Padded(d)
  OBVIOUS
<1>3. /\ p \in Parts /\ Len(p) = PageSize
      /\ \A i \in 1..PageSize : p[i] = IF i <= Len(d) THEN d[i] ELSE 0
  BY <1>2, PaddedIsPage, PageIsPart
<1>4. PICK c : c = Clamp(p, Len(d))
  OBVIOUS
<1>5. /\ c \in Parts /\ Len(c) = IF Len(d) < Len(p) THEN Len(d) ELSE Len(p)
      /\ \A i \in 1..Len(c) : c[i] = p[i]
  BY <1>1, <1>3, <1>4, ClampFields
<1>6. Len(c) = Len(d)
  BY <1>1, <1>3, <1>5, VmdirtyAssumption
<1>7. ASSUME NEW i \in 1..Len(d) PROVE c[i] = d[i]
  <2>1. i \in 1..PageSize /\ i <= Len(d) /\ i \in 1..Len(c)
    BY <1>1, <1>6, VmdirtyAssumption
  <2>. QED
    BY <1>3, <1>5, <2>1
<1>8. IsSeq(c)
  BY <1>5, PartFields
<1>9. c = d
  BY <1>1, <1>6, <1>7, <1>8 DEF IsSeq
<1>. QED
  BY <1>2, <1>4, <1>9

\* What a job does to the entries in Tier 2.
LEMMA JournalPut ==
  ASSUME ~ShortWrites, NEW t2, Tier2Ok(t2), NEW j, JobOk(j), NEW new, new = Put(t2, j),
         NEW n \in Names
  PROVE  /\ IsData(j) /\ j.name = n => InJournal(new, n, j.data)
         /\ ~(IsData(j) /\ j.name = n) =>
              /\ new.index[n] = t2.index[n]
              /\ \A c : InJournal(t2, n, c) => InJournal(new, n, c)
<1>1. PutOk(t2, j, new)
  BY PutFields
<1>2. PICK w : w = t2.writer
  OBVIOUS
<1>3. PICK file : file = new.writer.file
  OBVIOUS
<1>4. /\ Tier2Ok(new) /\ Extends(w.file, file) /\ new.writer.gen = w.gen
      /\ file = w.file \o Encode(Record(w, j))
      /\ new.index = IF IsData(j) THEN [t2.index EXCEPT ![j.name] = Loc(w, j.data)] ELSE t2.index
  BY <1>1, <1>2, <1>3 DEF PutOk
<1>5. /\ WriterOk(w) /\ t2.index \in [Names -> Places] /\ PlaceOk(w.file, t2.index[n])
      /\ FileOk(w.file, w.gen) /\ FileOk(file, w.gen)
  BY <1>2, <1>3, <1>4 DEF Tier2Ok, WriterOk
<1>6. CASE IsData(j) /\ j.name = n
  <2>1. PICK d : d = j.data
    OBVIOUS
  <2>2. PICK rec : rec = Record(w, j)
    OBVIOUS
  <2>3. RecordOk(rec) /\ Data(rec) = d /\ d \in Parts
    BY <1>5, <1>6, <2>1, <2>2, RecordOfJob DEF WriterOk, JobOk
  <2>4. PICK loc : loc = Loc(w, d)
    OBVIOUS
  <2>5. new.index[n] = loc
    BY <1>4, <1>5, <1>6, <2>1, <2>4
  <2>6. ReadPageAt(file, loc) = Padded(d) /\ loc # NoLoc
    BY <1>4, <1>5, <2>2, <2>3, <2>4, PageStored
  <2>7. Stored(new, n) = Padded(d)
    BY <1>3, <2>5, <2>6 DEF Stored
  <2>8. Clamp(Stored(new, n), Len(d)) = d
    BY <2>3, <2>7, ClampPadded
  <2>. QED
    BY <1>6, <2>1, <2>5, <2>6, <2>8 DEF InJournal
<1>7. CASE ~(IsData(j) /\ j.name = n)
  <2>1. new.index[n] = t2.index[n]
    BY <1>4, <1>5, <1>7
  <2>2. Stored(new, n) = Stored(t2, n)
    <3>1. PICK loc : loc = t2.index[n]
      OBVIOUS
    <3>2. ReadPageAt(file, loc) = ReadPageAt(w.file, loc)
      BY <1>4, <1>5, <3>1, PageKept
    <3>. QED
      BY <1>2, <1>3, <2>1, <3>1, <3>2 DEF Stored
  <2>3. ASSUME NEW c, InJournal(t2, n, c) PROVE InJournal(new, n, c)
    BY <2>1, <2>2, <2>3 DEF InJournal
  <2>. QED
    BY <1>7, <2>1, <2>3
<1>. QED
  BY <1>6, <1>7

\* An entry that has its content in a longer list of pages and zeroes.
Listed(t2, js, k, contents) ==
  /\ Tier2Ok(t2)
  /\ \A n \in Names :
       t2.index[n] # NoLoc \/ (\E i \in 1..k : IsData(js[i]) /\ js[i].name = n) =>
         InJournal(t2, n, contents[n])

\* Every page of a new journal is in it.
LEMMA JournalPutAll ==
  ASSUME ~ShortWrites, NEW t2, Tier2Ok(t2), \A n \in Names : t2.index[n] = NoLoc,
         NEW js, Len(js) \in Nat, \A i \in 1..Len(js) : JobOk(js[i]),
         NEW contents, \A i \in 1..Len(js) : IsData(js[i]) => js[i].data = contents[js[i].name]
  PROVE  Listed(PutAll(t2, js), js, Len(js), contents)
<1>. DEFINE n == Len(js)
<1>0. PICK after : PutSteps(t2, js, after)
  BY PutAllSteps
<1>1. /\ PutAll(t2, js) = after[n] /\ after[0] = t2
      /\ \A k \in 1..n : after[k] = Put(after[k - 1], js[k])
  BY <1>0 DEF PutSteps
<1>2. Listed(after[0], js, 0, contents)
  BY <1>1 DEF Listed
<1>3. ASSUME NEW k \in 1..n, Listed(after[k - 1], js, k - 1, contents)
      PROVE  Listed(after[k], js, k, contents)
  <2>1. PICK t : t = after[k - 1]
    OBVIOUS
  <2>2. PICK j : j = js[k]
    OBVIOUS
  <2>3. PICK new : new = Put(t, j)
    OBVIOUS
  <2>4. after[k] = new /\ JobOk(j) /\ Listed(t, js, k - 1, contents) /\ Tier2Ok(t)
    BY <1>1, <1>3, <2>1, <2>2, <2>3 DEF Listed
  <2>5. Tier2Ok(new)
    BY ZenonT(40), <2>3, <2>4, PutFields DEF PutOk
  <2>6. ASSUME NEW m \in Names,
               new.index[m] # NoLoc \/ (\E i \in 1..k : IsData(js[i]) /\ js[i].name = m)
        PROVE  InJournal(new, m, contents[m])
    <3>1. CASE IsData(j) /\ j.name = m
      <4>1. InJournal(new, m, j.data)
        BY <2>3, <2>4, <3>1, JournalPut
      <4>2. j.data = contents[m]
        BY <2>2, <3>1
      <4>. QED
        BY <4>1, <4>2
    <3>2. CASE ~(IsData(j) /\ j.name = m)
      <4>1. /\ new.index[m] = t.index[m]
            /\ \A c : InJournal(t, m, c) => InJournal(new, m, c)
        BY <2>3, <2>4, <3>2, JournalPut
      <4>2. \A i \in 1..k : i # k => i \in 1..(k - 1)
        OBVIOUS
      <4>3. t.index[m] # NoLoc \/ (\E i \in 1..(k - 1) : IsData(js[i]) /\ js[i].name = m)
        BY <2>2, <2>6, <3>2, <4>1, <4>2
      <4>4. InJournal(t, m, contents[m])
        BY <2>4, <4>3 DEF Listed
      <4>. QED
        BY <4>1, <4>4
    <3>. QED
      BY <3>1, <3>2
  <2>. QED
    BY <2>4, <2>5, <2>6 DEF Listed
<1>. DEFINE Bad == {k \in 0..n : ~Listed(after[k], js, k, contents)}
<1>4. Bad = {}
  <2>1. SUFFICES ASSUME Bad # {} PROVE FALSE
    OBVIOUS
  <2>2. PICK m \in Bad : \A k \in Bad : m <= k
    <3>. HIDE DEF Bad
    <3>1. Bad \subseteq Nat
      BY DEF Bad
    <3>. QED
      BY <2>1, <3>1, LeastNatural
  <2>3. m \in 1..n
    BY <1>2, <2>2
  <2>4. m - 1 \in 0..n /\ m - 1 \notin Bad
    <3>. HIDE DEF Bad
    <3>. QED
      BY <2>2, <2>3
  <2>. QED
    BY <1>3, <2>2, <2>3, <2>4
<1>5. n \in 0..n
  OBVIOUS
<1>. QED
  BY <1>1, <1>4, <1>5

\* A sequence of zeroes.
LEMMA AllZeroes ==
  ASSUME NEW c, IsSeq(c), \A i \in 1..Len(c) : c[i] = 0 PROVE c = Zeroes(Len(c))
<1>1. c = [i \in 1..Len(c) |-> c[i]]
  BY DEF IsSeq
<1>2. c = [i \in 1..Len(c) |-> 0]
  BY <1>1
<1>. QED
  BY <1>2 DEF Zeroes

\* A new journal has what it was made of.
LEMMA RenewedReads ==
  ASSUME ~ShortWrites, Tier2Ok(journal), NEW pages, NEW rest, NEW contents,
         Renewed(pages, rest, contents),
         \A n \in Names : (\A k \in 1..Len(pages) : pages[k] # n) =>
                            contents[n] = Zeroes(Len(contents[n]))
  PROVE  /\ \A n \in Names : InJournal(journal', n, contents[n])
         /\ content' = contents /\ jobs' = <<>> /\ call' = "none"
         /\ \A n \in Names : InTier2(n)' => \E k \in 1..Len(pages) : pages[k] = n
<1>. DEFINE gen   == journal.writer.gen + 1
            sync  == journal.writer.sync
            fresh == NewTier2(gen, sync)
            js    == RewriteJobs(pages, rest, contents)
<1>1. gen \in Nat \ {0} /\ sync \in BOOLEAN
  BY DEF Tier2Ok, WriterOk
<1>2. Tier2Ok(fresh)
  BY <1>1, NewTier2Ok
<1>3. \A n \in Names : fresh.index[n] = NoLoc
  BY DEF NewTier2
<1>4. /\ journal' = PutAll(fresh, js) /\ content' = contents
      /\ jobs' = <<>> /\ call' = "none"
  BY Zenon DEF Renewed, Rewritten
<1>5. /\ IsSeq(pages) /\ \A i \in 1..Len(pages) : pages[i] \in Names
      /\ IsSeq(rest) /\ \A i \in 1..Len(rest) : rest[i] \in Names
      /\ contents \in [Names -> Parts] /\ Rewritten(pages, rest, contents)
  BY DEF Renewed, Distinct
<1>6. RewriteList(pages, contents, js)
  BY <1>5, RewriteJobsOk
<1>. HIDE DEF fresh, js
<1>7. /\ Len(js) \in Nat \ {0} /\ \A i \in 1..Len(js) : JobOk(js[i])
      /\ Len(js) - 1 - Len(pages) \in Nat
      /\ \A k \in 1..Len(pages) :
           js[Len(js) - 1 - Len(pages) + k] = DataJob("hit", pages[k], contents[pages[k]])
      /\ \A i \in 1..Len(js) : IsData(js[i]) =>
           \E k \in 1..Len(pages) : js[i] = DataJob("hit", pages[k], contents[pages[k]])
  BY <1>6 DEF RewriteList
<1>8. ASSUME NEW i \in 1..Len(js), IsData(js[i]) PROVE js[i].data = contents[js[i].name]
  <2>1. PICK k \in 1..Len(pages) : js[i] = DataJob("hit", pages[k], contents[pages[k]])
    BY <1>7, <1>8
  <2>. QED
    BY <2>1 DEF DataJob
<1>9. Listed(journal', js, Len(js), contents)
  BY <1>2, <1>3, <1>4, <1>7, <1>8, JournalPutAll
<1>10. \A n \in Names : InTier2(n)' => \E k \in 1..Len(pages) : pages[k] = n
  BY <1>5, RewrittenOk
<1>11. ASSUME NEW n \in Names PROVE InJournal(journal', n, contents[n])
  <2>1. CASE journal'.index[n] # NoLoc
    BY <1>9, <2>1 DEF Listed
  <2>2. CASE \E k \in 1..Len(pages) : pages[k] = n
    <3>1. PICK k \in 1..Len(pages) : pages[k] = n
      BY <2>2
    <3>2. PICK i : i = Len(js) - 1 - Len(pages) + k
      OBVIOUS
    <3>3. i \in 1..Len(js)
      <4>1. Len(pages) \in Nat
        BY <1>5 DEF IsSeq
      <4>. QED
        BY <1>7, <3>2, <4>1
    <3>4. js[i] = DataJob("hit", n, contents[n])
      BY <1>7, <3>1, <3>2
    <3>5. IsData(js[i]) /\ js[i].name = n
      BY <3>4 DEF DataJob, IsData
    <3>. QED
      BY <1>9, <3>3, <3>5 DEF Listed
  <2>3. CASE journal'.index[n] = NoLoc /\ \A k \in 1..Len(pages) : pages[k] # n
    BY <2>3 DEF InJournal
  <2>. QED
    BY <2>1, <2>2, <2>3
<1>. QED
  BY <1>4, <1>10, <1>11

StoredInv == PagesInv /\ PendingInv

\* With no spill on its way, what is read is what was written.
LEMMA ReadsRight ==
  ASSUME Tier1Inv, PagesInv, NEW n \in Names, ~Pending(n) PROVE Read(n) = content[n]
<1>1. /\ size[n] = Len(content[n])
      /\ tier1[n] # NoPage => content[n] = Clamp(tier1[n], size[n])
      /\ tier1[n] = NoPage => InJournal(journal, n, content[n])
  BY DEF PagesInv
<1>2. n \in Resident <=> tier1[n] # NoPage
  BY ResidentPage
<1>3. CASE tier1[n] # NoPage
  BY <1>1, <1>2, <1>3 DEF Read
<1>4. CASE tier1[n] = NoPage /\ InTier2(n)
  <2>1. Read(n) = Clamp(Tier2Page(n), size[n])
    BY <1>2, <1>4 DEF Read
  <2>2. Tier2Page(n) = Stored(journal, n)
    BY DEF Tier2Page, Stored
  <2>. QED
    BY <1>1, <1>4, <2>1, <2>2 DEF InJournal, InTier2
<1>5. CASE tier1[n] = NoPage /\ ~InTier2(n)
  <2>1. Read(n) = [i \in 1..size[n] |-> 0]
    BY <1>2, <1>5 DEF Read
  <2>. QED
    BY <1>1, <1>5, <2>1 DEF InJournal, InTier2, Zeroes
<1>. QED
  BY <1>3, <1>4, <1>5

\* Between calls no spill is on its way.
LEMMA NonePending == ASSUME jobs = <<>>, NEW n PROVE ~Pending(n)
<1>1. Len(<<>>) = 0
  OBVIOUS
<1>. QED
  BY <1>1 DEF Pending

\* In the beginning everything reads as nothing.
LEMMA InitStored == Init => StoredInv
<1>. SUFFICES ASSUME Init PROVE StoredInv
  OBVIOUS
<1>. USE DEF Init
<1>1. Len(<<>>) = 0
  OBVIOUS
<1>2. \A n \in Names : journal.index[n] = NoLoc
  BY DEF NewTier2
<1>3. Zeroes(0) = <<>>
  BY DEF Zeroes
<1>4. \A n \in Names : content[n] = <<>> /\ size[n] = 0 /\ tier1[n] = NoPage
  BY DEF NothingWritten
<1>5. \A n \in Names : InJournal(journal, n, content[n])
  BY <1>1, <1>2, <1>3, <1>4 DEF InJournal
<1>6. PagesInv
  BY <1>1, <1>2, <1>4, <1>5 DEF PagesInv, InTier2
<1>7. PendingInv
  BY <1>1 DEF PendingInv
<1>. QED
  BY <1>6, <1>7 DEF StoredInv

\* An append that succeeds.
LEMMA AppendOkStored ==
  ASSUME ~ShortWrites, TypeInv, StoredInv, AppendOk PROVE StoredInv'
<1>1. /\ jobs # <<>> /\ journal' = Put(journal, Job) /\ jobs' = Tail(jobs)
      /\ size' = IF Job.job = "hit" THEN [size EXCEPT ![Job.name] = Len(Job.data)] ELSE size
      /\ content' = IF Job.job = "hit" THEN [content EXCEPT ![Job.name] = Job.data] ELSE content
      /\ dirty' = dirty /\ tier1' = tier1
  BY DEF AppendOk
<1>2. Tier1Inv /\ Tier2Ok(journal) /\ JobsInv /\ HistoryInv /\ JobsFit
  BY DEF TypeInv
<1>3. /\ JobOk(Job) /\ Len(jobs) \in Nat \ {0} /\ 1 \in 1..Len(jobs) /\ call # "none"
      /\ Len(Tail(jobs)) = Len(jobs) - 1
      /\ \A i \in 1..Len(Tail(jobs)) : Tail(jobs)[i] = jobs[i + 1] /\ i + 1 \in 1..Len(jobs)
  BY <1>1, <1>2, FirstJob
<1>4. PICK j : j = Job
  OBVIOUS
<1>5. PICK new : new = journal'
  OBVIOUS
<1>6. j = jobs[1] /\ new = Put(journal, j) /\ JobOk(j) /\ (IsData(j) => j.name \in Names)
  BY <1>1, <1>3, <1>4, <1>5 DEF Job, JobOk
<1>7. content \in [Names -> Parts] /\ size \in [Names -> 0..PageSize]
  BY <1>2 DEF HistoryInv, Tier1Inv
<1>8. /\ j.job = "spill" => tier1[j.name] = NoPage /\ j.data = content[j.name]
      /\ j.job = "hit" => Len(jobs) = 1 /\ tier1[j.name] = NoPage
      /\ IsData(j) => j.name \in dirty
  BY <1>3, <1>6 DEF StoredInv, PendingInv
<1>9. j.job = "copy" => tier1[j.name] # NoPage
  <2>1. SUFFICES ASSUME j.job = "copy" PROVE tier1[j.name] # NoPage
    OBVIOUS
  <2>2. call \in {"flush", "compact"}
    BY <1>2, <1>3, <1>6, <2>1 DEF JobsInv, Calls, JobsFit
  <2>3. Len(jobs) # 1
    BY <1>2, <1>6, <2>1, <2>2 DEF JobsFit, MarkerJob
  <2>4. 1 \in 1..(Len(jobs) - 1)
    BY <1>3, <2>3
  <2>. QED
    BY <1>2, <1>6, <2>2, <2>4 DEF JobsFit
<1>10. ASSUME NEW n \in Names, j.job = "hit", j.name = n
       PROVE  content'[n] = j.data /\ size'[n] = Len(j.data)
  BY <1>1, <1>4, <1>7, <1>10
<1>11. ASSUME NEW n \in Names, ~(j.job = "hit" /\ j.name = n)
       PROVE  content'[n] = content[n] /\ size'[n] = size[n]
  BY <1>1, <1>4, <1>7, <1>11
<1>12. ASSUME NEW n \in Names
       PROVE  /\ size'[n] = Len(content'[n])
              /\ tier1'[n] # NoPage => content'[n] = Clamp(tier1'[n], size'[n])
              /\ tier1'[n] = NoPage /\ ~Pending(n)' => InJournal(journal', n, content'[n])
              /\ tier1'[n] # NoPage \/ InTier2(n)' => n \in dirty'
  <2>1. /\ size[n] = Len(content[n])
        /\ tier1[n] # NoPage => content[n] = Clamp(tier1[n], size[n])
        /\ tier1[n] = NoPage /\ ~Pending(n) => InJournal(journal, n, content[n])
        /\ tier1[n] # NoPage \/ InTier2(n) => n \in dirty
    BY DEF StoredInv, PagesInv
  <2>2. /\ IsData(j) /\ j.name = n => InJournal(new, n, j.data)
        /\ ~(IsData(j) /\ j.name = n) =>
              /\ new.index[n] = journal.index[n]
              /\ \A c : InJournal(journal, n, c) => InJournal(new, n, c)
    BY <1>2, <1>6, JournalPut
  <2>3. size'[n] = Len(content'[n])
    BY <1>10, <1>11, <2>1
  <2>4. tier1'[n] # NoPage => content'[n] = Clamp(tier1'[n], size'[n])
    BY <1>1, <1>8, <1>11, <2>1
  <2>5. ASSUME tier1[n] = NoPage, ~Pending(n)' PROVE InJournal(new, n, content'[n])
    <3>1. CASE IsData(j) /\ j.name = n
      <4>1. content'[n] = j.data
        BY <1>8, <1>9, <1>10, <1>11, <2>5, <3>1 DEF IsData
      <4>. QED
        BY <2>2, <3>1, <4>1
    <3>2. CASE ~(IsData(j) /\ j.name = n)
      <4>1. ASSUME Pending(n) PROVE FALSE
        <5>1. PICK i \in 1..Len(jobs) : jobs[i].job = "spill" /\ jobs[i].name = n
          BY <4>1 DEF Pending
        <5>2. i # 1
          BY <1>6, <3>2, <5>1 DEF IsData
        <5>3. i - 1 \in 1..Len(Tail(jobs)) /\ i - 1 + 1 = i
          BY <1>3, <5>2
        <5>4. Tail(jobs)[i - 1] = jobs[i]
          BY <1>3, <5>3
        <5>. QED
          BY <1>1, <2>5, <5>1, <5>3, <5>4 DEF Pending
      <4>2. content'[n] = content[n]
        BY <1>11, <3>2 DEF IsData
      <4>. QED
        BY <2>1, <2>2, <2>5, <3>2, <4>1, <4>2
    <3>. QED
      BY <3>1, <3>2
  <2>6. ASSUME tier1'[n] # NoPage \/ InTier2(n)' PROVE n \in dirty'
    <3>1. CASE IsData(j) /\ j.name = n
      BY <1>1, <1>8, <3>1
    <3>2. CASE ~(IsData(j) /\ j.name = n)
      BY <1>1, <1>5, <2>1, <2>2, <2>6, <3>2 DEF InTier2
    <3>. QED
      BY <3>1, <3>2
  <2>. QED
    BY <1>1, <1>5, <2>3, <2>4, <2>5, <2>6
<1>13. PagesInv'
  BY <1>12 DEF PagesInv
<1>14. PendingInv'
  <2>1. PICK t : t = Tail(jobs)
    OBVIOUS
  <2>2. /\ jobs' = t /\ Len(t) = Len(jobs) - 1
        /\ \A i \in 1..Len(t) : t[i] = jobs[i + 1] /\ i + 1 \in 1..Len(jobs)
    BY <1>1, <1>3, <2>1
  <2>3. ASSUME NEW i \in 1..Len(t)
        PROVE  /\ t[i].job = "spill" =>
                    /\ tier1[t[i].name] = NoPage /\ t[i].data = content'[t[i].name]
                    /\ \A k \in 1..Len(t) : t[k].job = "spill" /\ t[k].name = t[i].name => i = k
               /\ t[i].job = "hit" => Len(t) = 1 /\ tier1[t[i].name] = NoPage
               /\ IsData(t[i]) => t[i].name \in dirty
    <3>1. t[i] = jobs[i + 1] /\ i + 1 \in 1..Len(jobs) /\ Len(jobs) # 1
      BY <1>3, <2>2
    <3>2. content' = content
      BY <1>1, <1>4, <1>8, <3>1
    <3>3. /\ jobs[i + 1].job = "spill" =>
               /\ tier1[jobs[i + 1].name] = NoPage /\ jobs[i + 1].data = content[jobs[i + 1].name]
               /\ \A k \in 1..Len(jobs) :
                    jobs[k].job = "spill" /\ jobs[k].name = jobs[i + 1].name => i + 1 = k
          /\ jobs[i + 1].job # "hit"
          /\ IsData(jobs[i + 1]) => jobs[i + 1].name \in dirty
      BY <3>1 DEF StoredInv, PendingInv
    <3>4. ASSUME t[i].job = "spill", NEW k \in 1..Len(t), t[k].job = "spill", t[k].name = t[i].name
          PROVE  i = k
      <4>1. t[k] = jobs[k + 1] /\ k + 1 \in 1..Len(jobs)
        BY <2>2
      <4>2. i + 1 = k + 1
        BY <3>1, <3>3, <3>4, <4>1
      <4>. QED
        BY <4>2
    <3>. QED
      BY <3>1, <3>2, <3>3, <3>4
  <2>. QED
    BY <1>1, <2>2, <2>3 DEF PendingInv
<1>. QED
  BY <1>13, <1>14 DEF StoredInv

\* A call whose next append is no spill has no spill to make.
LEMMA NoSpills ==
  ASSUME JobsInv, JobsFit, PendingInv, jobs # <<>>, Job.job # "spill", NEW i \in 1..Len(jobs)
  PROVE  jobs[i].job # "spill"
<1>1. 1 \in 1..Len(jobs) /\ call # "none" /\ Len(jobs) \in Nat
  BY FirstJob
<1>2. CASE call = "write"
  <2>1. Job.job = "hit"
    BY <1>1, <1>2 DEF JobsFit, Job
  <2>2. Len(jobs) = 1
    BY <1>1, <2>1 DEF PendingInv, Job
  <2>3. i = 1
    BY <2>2
  <2>. QED
    BY <2>3 DEF Job
<1>3. CASE call = "truncate"
  BY <1>3 DEF JobsFit
<1>4. CASE call \in {"flush", "compact"}
  <2>1. CASE i = Len(jobs)
    BY <1>4, <2>1 DEF JobsFit, MarkerJob
  <2>2. CASE i # Len(jobs)
    <3>1. i \in 1..(Len(jobs) - 1)
      BY <1>1, <2>2
    <3>. QED
      BY <1>4, <3>1 DEF JobsFit
  <2>. QED
    BY <2>1, <2>2
<1>. QED
  BY <1>1, <1>2, <1>3, <1>4 DEF JobsInv, Calls

\* An append that fails.
LEMMA AppendFailsStored ==
  ASSUME ~ShortWrites, SpillsSucceed, TypeInv, StoredInv,
         NEW how \in Failures, AppendFails(how)
  PROVE  StoredInv'
<1>1. /\ jobs # <<>> /\ <<Job.job, how>> \in MayFail /\ jobs' = <<>>
      /\ UNCHANGED <<diff, content>>
  BY Zenon DEF AppendFails
<1>2. /\ TypeInv' /\ Extends(journal.writer.file, journal'.writer.file)
      /\ journal'.index = journal.index
  BY AppendFailsType
<1>3. Tier1Inv /\ Tier2Ok(journal) /\ JobsInv /\ JobsFit /\ Tier2Ok(journal')
  BY <1>2 DEF TypeInv
<1>4. JobOk(Job) /\ 1 \in 1..Len(jobs) /\ call # "none" /\ Len(jobs) \in Nat
  BY <1>1, <1>3, FirstJob
<1>5. Job.job # "spill"
  BY <1>1 DEF SpillsSucceed
<1>6. \A i \in 1..Len(jobs) : jobs[i].job # "spill"
  BY <1>1, <1>3, <1>5, NoSpills DEF StoredInv
<1>7. \A n \in Names : ~Pending(n)
  BY <1>6 DEF Pending
<1>8. PICK gen : FileOk(journal.writer.file, gen) /\ FileOk(journal'.writer.file, gen)
  <2>1. FileOk(journal.writer.file, journal.writer.gen) /\ FileOk(journal'.writer.file, journal'.writer.gen)
    BY <1>3 DEF Tier2Ok, WriterOk
  <2>2. journal.writer.file[1] = journal'.writer.file[1]
    <3>1. 1 \in 1..Len(journal.writer.file)
      <4>1. Len(journal.writer.file) \in Nat /\ Len(journal.writer.file) >= 2
        BY <2>1 DEF FileOk, IsSeq
      <4>. QED
        BY <4>1
    <3>. QED
      BY <1>2, <3>1 DEF Extends
  <2>3. FileOk(journal'.writer.file, journal.writer.gen)
    BY <2>1, <2>2 DEF FileOk
  <2>. QED
    BY <2>1, <2>3
<1>9. ASSUME NEW n \in Names, InJournal(journal, n, content[n])
      PROVE  InJournal(journal', n, content[n])
  <2>1. PICK loc : loc = journal.index[n]
    OBVIOUS
  <2>2. PlaceOk(journal.writer.file, loc)
    BY <1>3, <2>1 DEF Tier2Ok
  <2>3. ReadPageAt(journal'.writer.file, loc) = ReadPageAt(journal.writer.file, loc)
    BY <1>2, <1>8, <2>2, PageKept
  <2>4. Stored(journal', n) = Stored(journal, n)
    BY <1>2, <2>1, <2>3 DEF Stored
  <2>. QED
    BY <1>2, <1>9, <2>4 DEF InJournal
<1>10. /\ size' = size /\ content' = content /\ tier1' = tier1 /\ dirty' = dirty
       /\ \A n : InTier2(n)' <=> InTier2(n)
  BY <1>1, <1>2 DEF diff, InTier2
<1>11. PagesInv'
  <2>1. ASSUME NEW n \in Names
        PROVE  /\ size[n] = Len(content[n])
               /\ tier1[n] # NoPage => content[n] = Clamp(tier1[n], size[n])
               /\ tier1[n] = NoPage => InJournal(journal', n, content[n])
               /\ tier1[n] # NoPage \/ InTier2(n) => n \in dirty
    BY <1>7, <1>9 DEF StoredInv, PagesInv
  <2>. QED
    BY <1>10, <2>1 DEF PagesInv
<1>12. PendingInv'
  <2>1. Len(<<>>) = 0
    OBVIOUS
  <2>. QED
    BY <1>1, <2>1 DEF PendingInv
<1>. QED
  BY <1>11, <1>12 DEF StoredInv

\* A write to a page that only Tier 2 has.
LEMMA WriteTier2Stored ==
  ASSUME TypeInv, StoredInv, NEW n \in Names, NEW d \in Writes, WriteTier2(n, d) PROVE StoredInv'
<1>1. PICK c : /\ jobs' = <<DataJob("hit", n, c)>> /\ UNCHANGED <<diff, journal, history>>
               /\ n \notin Resident /\ InTier2(n) /\ jobs = <<>>
  BY DEF WriteTier2, Begin, Idle, TypeInv, JobsInv
<1>2. PICK j : j = DataJob("hit", n, c)
  OBVIOUS
<1>3. j.job = "hit" /\ j.name = n /\ jobs' = <<j>> /\ Len(<<j>>) = 1 /\ <<j>>[1] = j
  BY <1>1, <1>2 DEF DataJob
<1>4. /\ size' = size /\ content' = content /\ tier1' = tier1 /\ dirty' = dirty
      /\ journal' = journal
  BY <1>1 DEF diff, history
<1>5. tier1[n] = NoPage /\ n \in dirty
  BY <1>1 DEF Resident, StoredInv, PagesInv
<1>6. \A m \in Names : ~Pending(m)
  BY <1>1, NonePending
<1>7. PagesInv'
  BY <1>4, <1>6 DEF StoredInv, PagesInv, InTier2
<1>8. PendingInv'
  BY <1>3, <1>4, <1>5 DEF PendingInv
<1>. QED
  BY <1>7, <1>8 DEF StoredInv

\* A truncate.
LEMMA TruncateStored ==
  ASSUME TypeInv, StoredInv, NEW n \in Names, Truncate(n) PROVE StoredInv'
<1>1. /\ dirty' = dirty \cup {n} /\ size' = [size EXCEPT ![n] = 0]
      /\ tier1' = [tier1 EXCEPT ![n] = NoPage]
      /\ journal' = [journal EXCEPT !.index[n] = NoLoc]
      /\ jobs' = <<ResizeJob(n, 0)>> /\ jobs = <<>>
      /\ content' = [content EXCEPT ![n] = <<>>]
  BY DEF Truncate, Begin, Idle, TypeInv, JobsInv
<1>2. Tier1Inv /\ Tier2Ok(journal) /\ HistoryInv
  BY DEF TypeInv
<1>3. /\ content \in [Names -> Parts] /\ size \in [Names -> 0..PageSize]
      /\ tier1 \in [Names -> [1..PageSize -> Byte] \cup {NoPage}]
      /\ journal.index \in [Names -> Places]
  BY <1>2 DEF HistoryInv, Tier1Inv, Tier2Ok
<1>. DEFINE index == [journal.index EXCEPT ![n] = NoLoc]
<1>4. journal' = [writer |-> journal.writer, index |-> index, records |-> journal.records]
  BY <1>1, <1>2 DEF Tier2Ok
<1>5. journal'.writer = journal.writer /\ journal'.index = index
  BY <1>4
<1>6. /\ journal'.index[n] = NoLoc /\ \A m \in Names \ {n} : journal'.index[m] = journal.index[m]
  BY <1>3, <1>5
<1>7. /\ content'[n] = <<>> /\ size'[n] = 0 /\ tier1'[n] = NoPage
      /\ \A m \in Names \ {n} : content'[m] = content[m] /\ size'[m] = size[m] /\ tier1'[m] = tier1[m]
  BY <1>1, <1>3
<1>8. Len(<<>>) = 0 /\ Zeroes(0) = <<>>
  BY DEF Zeroes
<1>9. \A m \in Names : ~Pending(m)
  BY <1>1, NonePending
<1>10. ASSUME NEW m \in Names
       PROVE  /\ size'[m] = Len(content'[m])
              /\ tier1'[m] # NoPage => content'[m] = Clamp(tier1'[m], size'[m])
              /\ tier1'[m] = NoPage => InJournal(journal', m, content'[m])
              /\ tier1'[m] # NoPage \/ InTier2(m)' => m \in dirty'
  <2>1. CASE m = n
    BY <1>1, <1>6, <1>7, <1>8, <2>1 DEF InJournal, InTier2
  <2>2. CASE m # n
    <3>1. /\ size[m] = Len(content[m])
          /\ tier1[m] # NoPage => content[m] = Clamp(tier1[m], size[m])
          /\ tier1[m] = NoPage => InJournal(journal, m, content[m])
          /\ tier1[m] # NoPage \/ InTier2(m) => m \in dirty
      BY <1>9 DEF StoredInv, PagesInv
    <3>2. InJournal(journal, m, content[m]) => InJournal(journal', m, content[m])
      BY <1>5, <1>6, <2>2 DEF InJournal, Stored
    <3>3. InTier2(m)' <=> InTier2(m)
      BY <1>6, <2>2 DEF InTier2
    <3>. QED
      BY <1>1, <1>7, <2>2, <3>1, <3>2, <3>3
  <2>. QED
    BY <2>1, <2>2
<1>11. PagesInv'
  BY <1>10 DEF PagesInv
<1>12. PendingInv'
  BY <1>1 DEF PendingInv, ResizeJob, IsData
<1>. QED
  BY <1>11, <1>12 DEF StoredInv

\* A flush or a compaction begins.
LEMMA FlushStored ==
  ASSUME TypeInv, StoredInv, Flush \/ CompactJournal PROVE StoredInv'
<1>1. /\ jobs' = Append(CopyJobs, MarkerJob) /\ jobs = <<>>
      /\ UNCHANGED <<diff, journal, history>>
  BY DEF Flush, CompactJournal, Begin, Idle, TypeInv, JobsInv
<1>2. Tier1Inv
  BY DEF TypeInv
<1>3. PICK js : js = Append(CopyJobs, MarkerJob)
  OBVIOUS
<1>4. /\ IsSeq(CopyJobs) /\ Len(CopyJobs) = Len(order) /\ Len(js) = Len(CopyJobs) + 1
      /\ js[Len(CopyJobs) + 1] = MarkerJob
  BY <1>2, <1>3, CopyJobsOk
<1>5. /\ IsSeq(order) /\ \A i \in 1..Len(order) : order[i] \in Names /\ tier1[order[i]] # NoPage
  BY <1>2 DEF Tier1Inv, Fifo
<1>6. Len(order) \in Nat /\ DOMAIN order = 1..Len(order)
  BY <1>5 DEF IsSeq
<1>7. ASSUME NEW i \in 1..Len(js)
      PROVE  js[i].job \notin {"spill", "hit"} /\ (IsData(js[i]) => js[i].name \in dirty)
  <2>1. CASE i = Len(CopyJobs) + 1
    BY <1>4, <2>1 DEF MarkerJob, IsData
  <2>2. CASE i # Len(CopyJobs) + 1
    <3>1. i \in 1..Len(CopyJobs) /\ i \in 1..Len(order)
      BY <1>4, <1>6, <2>2
    <3>2. js[i] = CopyJobs[i]
      BY <1>3, <1>4, <3>1, AppendSeq
    <3>3. PICK c : c = Clamp(tier1[order[i]], size[order[i]])
      OBVIOUS
    <3>4. js[i] = DataJob("copy", order[i], c)
      BY <1>6, <3>1, <3>2, <3>3 DEF CopyJobs
    <3>5. order[i] \in dirty
      BY <1>5, <3>1 DEF StoredInv, PagesInv
    <3>. QED
      BY <3>4, <3>5 DEF DataJob
  <2>. QED
    BY <2>1, <2>2
<1>8. \A m \in Names : ~Pending(m)
  BY <1>1, NonePending
<1>9. /\ size' = size /\ content' = content /\ tier1' = tier1 /\ dirty' = dirty
      /\ journal' = journal /\ jobs' = js
  BY <1>1, <1>3 DEF diff, history
<1>10. PagesInv'
  BY <1>8, <1>9 DEF StoredInv, PagesInv, InTier2
<1>11. PendingInv'
  BY <1>7, <1>9 DEF PendingInv
<1>. QED
  BY <1>10, <1>11 DEF StoredInv

\* What a compaction reads is what was written.
LEMMA SwapReads ==
  ASSUME TypeInv, StoredInv, call = "compact", Len(jobs) = 1
  PROVE  /\ [n \in Names |-> Read(n)] = content
         /\ \A n \in Names : ~Pending(n)
<1>1. Tier1Inv /\ HistoryInv /\ JobsFit
  BY DEF TypeInv
<1>2. content \in [Names -> Parts]
  BY <1>1 DEF HistoryInv
<1>3. \A n \in Names : ~Pending(n)
  BY <1>1 DEF JobsFit, Pending, MarkerJob
<1>4. \A n \in Names : Read(n) = content[n]
  BY <1>1, <1>3, ReadsRight DEF StoredInv
<1>. QED
  BY <1>2, <1>3, <1>4

\* An entry of which it appends no page is all zeroes.
LEMMA SwapZeroes ==
  ASSUME TypeInv, StoredInv, call = "compact", Len(jobs) = 1,
         NEW pages, NEW rest, CompactOk(pages, rest),
         NEW n \in Names, \A k \in 1..Len(pages) : pages[k] # n
  PROVE  content[n] = Zeroes(Len(content[n]))
<1>1. n \notin Resident \cup Spills
  BY DEF CompactOk
<1>2. tier1[n] = NoPage
  BY <1>1 DEF Resident
<1>3. ~InTier2(n)
  BY <1>1 DEF Spills, StoredInv, PagesInv
<1>4. ~Pending(n)
  BY SwapReads
<1>5. InJournal(journal, n, content[n])
  BY <1>2, <1>4 DEF StoredInv, PagesInv
<1>. QED
  BY <1>3, <1>5 DEF InJournal, InTier2

\* A compaction.
LEMMA CompactSwapStored ==
  ASSUME ~ShortWrites, TypeInv, StoredInv, CompactSwap PROVE StoredInv'
<1>1. PICK pages, rest : CompactOk(pages, rest) /\ Renewed(pages, rest, [n \in Names |-> Read(n)])
  BY CompactRenews
<1>2. /\ UNCHANGED <<diff, calls>> /\ call = "compact" /\ Len(jobs) = 1
  BY DEF CompactSwap
<1>3. Tier1Inv /\ Tier2Ok(journal) /\ HistoryInv /\ JobsFit
  BY DEF TypeInv
<1>4. Renewed(pages, rest, content)
  BY <1>1, <1>2, SwapReads
<1>5. \A n \in Names : (\A k \in 1..Len(pages) : pages[k] # n) =>
        content[n] = Zeroes(Len(content[n]))
  BY <1>1, <1>2, SwapZeroes
<1>6. /\ \A n \in Names : InJournal(journal', n, content[n])
      /\ content' = content /\ jobs' = <<>>
      /\ \A n \in Names : InTier2(n)' => \E k \in 1..Len(pages) : pages[k] = n
  BY <1>3, <1>4, <1>5, RenewedReads
<1>7. size' = size /\ tier1' = tier1 /\ dirty' = dirty
  BY <1>2 DEF diff
<1>8. ASSUME NEW n \in Names
       PROVE  /\ size[n] = Len(content[n])
              /\ tier1[n] # NoPage => content[n] = Clamp(tier1[n], size[n])
              /\ tier1[n] # NoPage \/ InTier2(n)' => n \in dirty
  <2>1. /\ size[n] = Len(content[n])
        /\ tier1[n] # NoPage => content[n] = Clamp(tier1[n], size[n])
        /\ tier1[n] # NoPage => n \in dirty
    BY DEF StoredInv, PagesInv
  <2>2. ASSUME InTier2(n)' PROVE n \in dirty
    <3>1. n \in Resident \cup Spills
      BY <1>1, <1>6, <2>2 DEF CompactOk
    <3>. QED
      BY <2>1, <3>1 DEF Resident, Spills
  <2>. QED
    BY <2>1, <2>2
<1>9. PagesInv'
  BY <1>6, <1>7, <1>8 DEF PagesInv
<1>10. PendingInv'
  <2>1. Len(<<>>) = 0
    OBVIOUS
  <2>. QED
    BY <1>6, <2>1 DEF PendingInv
<1>. QED
  BY <1>9, <1>10 DEF StoredInv

\* A write to a page in Tier 1, or in neither tier.
LEMMA WriteTier1Stored ==
  ASSUME TypeInv, StoredInv, NEW n \in Names, NEW d \in Writes, WriteTier1(n, d) PROVE StoredInv'
<1>. DEFINE new   == n \notin Resident
            held  == IF new THEN Append(order, n) ELSE order
            bytes == IF new THEN dirtyBytes + PageSize ELSE dirtyBytes
            out   == Victims(held, bytes)
            buf   == Applied(IF new THEN Padded(<<>>) ELSE tier1[n], d)
            pages == [tier1 EXCEPT ![n] = buf]
            sizes == [size EXCEPT ![n] = Longer(@, Len(d))]
            job(i) == DataJob("spill", out[i], Clamp(pages[out[i]], sizes[out[i]]))
            js    == [i \in DOMAIN out |-> job(i)]
<1>1. /\ Idle /\ dirty' = dirty \cup {n} /\ size' = sizes
      /\ tier1' = [m \in Names |-> IF m \in ToSet(out) THEN NoPage ELSE pages[m]]
      /\ Begin("write", js)
      /\ content' = [content EXCEPT ![n] = Clamp(buf, sizes[n])]
      /\ journal' = journal
  BY DEF WriteTier1
<1>2. Tier1Inv /\ JobsInv /\ HistoryInv
  BY DEF TypeInv
<1>3. jobs = <<>> /\ jobs' = js
  BY <1>1, <1>2 DEF Idle, JobsInv, Begin
<1>. HIDE DEF out, job, js, sizes, buf, held, bytes, pages
<1>4. \A m \in Names : ~Pending(m)
  BY <1>3, NonePending
<1>5. size[n] \in 0..PageSize /\ size[n] \in Nat /\ (~new => tier1[n] \in [1..PageSize -> Byte])
  BY <1>2, ResidentPage
<1>6. sizes[n] \in 0..PageSize /\ sizes[n] \in Nat /\ \A m \in Names \ {n} : sizes[m] = size[m]
  <2>1. Longer(size[n], Len(d)) \in 0..PageSize
    BY <1>5, WritesAreParts, VmdirtyAssumption DEF Longer
  <2>. QED
    BY <1>2, <2>1, VmdirtyAssumption DEF sizes, Tier1Inv
<1>7. buf \in Parts /\ Len(buf) = PageSize /\ buf # NoPage
  <2>1. Padded(<<>>) \in [1..PageSize -> Byte]
    BY EmptyPart, PaddedIsPage
  <2>2. buf \in [1..PageSize -> Byte]
    BY <1>5, <2>1, AppliedIsPage DEF buf
  <2>. QED
    BY <2>2, PageIsPart
<1>8. pages[n] = buf /\ \A m \in Names \ {n} : pages[m] = tier1[m]
  BY <1>2, <1>7 DEF pages, Tier1Inv
<1>9. new <=> tier1[n] = NoPage
  BY <1>2, ResidentPage
<1>10. Fifo(pages, held) /\ Len(held) \in Nat
  <2>1. Fifo(tier1, order) /\ held = IF tier1[n] = NoPage THEN Append(order, n) ELSE order
    BY <1>2, <1>9 DEF Tier1Inv, held
  <2>2. Fifo(pages, held)
    BY <1>7, <1>8, <2>1, FifoAdd
  <2>. QED
    BY <2>2 DEF Fifo, IsSeq
<1>. HIDE DEF new
<1>11. bytes = PageSize * Len(held)
  <2>1. /\ dirtyBytes = PageSize * Len(order) /\ Len(order) \in Nat
        /\ Fifo(tier1, order) /\ held = IF tier1[n] = NoPage THEN Append(order, n) ELSE order
    BY <1>2, <1>9 DEF Tier1Inv, held, Fifo, IsSeq
  <2>2. Len(held) = IF tier1[n] = NoPage THEN Len(order) + 1 ELSE Len(order)
    BY <1>7, <1>8, <2>1, FifoAdd
  <2>3. PageSize * (Len(order) + 1) = PageSize * Len(order) + PageSize
    BY <2>1, VmdirtyAssumption
  <2>. QED
    BY <1>9, <2>1, <2>2, <2>3 DEF bytes
<1>12. PICK v \in 0..Len(held) : out = SubSeq(held, 1, v)
  <2>1. out = Victims(held, PageSize * Len(held))
    BY <1>11 DEF out
  <2>. QED
    BY <1>10, <2>1, VictimsAre
<1>13. /\ IsSeq(out) /\ Len(out) = v /\ v \in Nat /\ DOMAIN out = 1..v
       /\ \A i \in 1..v : out[i] = held[i] /\ i \in 1..Len(held)
  <2>1. IsSeq(held)
    BY <1>10 DEF Fifo
  <2>2. IsSeq(out) /\ Len(out) = v /\ \A i \in 1..v : out[i] = held[i]
    BY <1>12, <2>1, Prefix
  <2>. QED
    BY <1>10, <2>2 DEF IsSeq
<1>14. ASSUME NEW i \in 1..v
       PROVE  out[i] \in Names /\ pages[out[i]] # NoPage /\ out[i] \in ToSet(out)
  BY <1>10, <1>13, ToSetOf DEF Fifo
<1>15. \A m \in ToSet(out) : \E i \in 1..v : out[i] = m
  BY <1>13, ToSetOf
<1>16. js = [i \in 1..v |-> job(i)]
  BY <1>13 DEF js
<1>17. Len(js) = v /\ \A i \in 1..v : js[i] = job(i)
  BY <1>13, <1>16
<1>18. content'[n] = Clamp(buf, sizes[n]) /\ \A m \in Names \ {n} : content'[m] = content[m]
  BY <1>1, <1>2 DEF HistoryInv
<1>19. ASSUME NEW m \in Names
       PROVE  /\ sizes[m] = Len(content'[m])
              /\ pages[m] # NoPage => content'[m] = Clamp(pages[m], sizes[m]) /\ m \in dirty'
  <2>1. CASE m = n
    <3>1. PICK c : c = Clamp(buf, sizes[n])
      OBVIOUS
    <3>2. Len(c) = IF sizes[n] < PageSize THEN sizes[n] ELSE PageSize
      BY <1>6, <1>7, <3>1, ClampFields
    <3>3. Len(c) = sizes[n]
      BY <1>6, <3>2, VmdirtyAssumption
    <3>. QED
      BY <1>1, <1>8, <1>18, <2>1, <3>1, <3>3
  <2>2. CASE m # n
    <3>1. /\ size[m] = Len(content[m])
          /\ tier1[m] # NoPage => content[m] = Clamp(tier1[m], size[m]) /\ m \in dirty
      BY DEF StoredInv, PagesInv
    <3>. QED
      BY <1>1, <1>6, <1>8, <1>18, <2>2, <3>1
  <2>. QED
    BY <2>1, <2>2
<1>20. ASSUME NEW m \in ToSet(out) PROVE Pending(m)'
  <2>1. PICK i \in 1..v : out[i] = m
    BY <1>15
  <2>2. js[i].job = "spill" /\ js[i].name = m
    BY <1>17, <2>1 DEF job, DataJob
  <2>. QED
    BY <1>3, <1>17, <2>2 DEF Pending
<1>21. ASSUME NEW m \in Names
       PROVE  /\ size'[m] = Len(content'[m])
              /\ tier1'[m] # NoPage => content'[m] = Clamp(tier1'[m], size'[m])
              /\ tier1'[m] = NoPage /\ ~Pending(m)' => InJournal(journal', m, content'[m])
              /\ tier1'[m] # NoPage \/ InTier2(m)' => m \in dirty'
  <2>1. tier1'[m] = IF m \in ToSet(out) THEN NoPage ELSE pages[m]
    BY <1>1
  <2>2. tier1'[m] # NoPage => content'[m] = Clamp(tier1'[m], size'[m]) /\ m \in dirty'
    BY <1>1, <1>19, <2>1
  <2>3. ASSUME tier1'[m] = NoPage, ~Pending(m)' PROVE InJournal(journal', m, content'[m])
    <3>1. m # n /\ tier1[m] = NoPage
      BY <1>7, <1>8, <1>20, <2>1, <2>3
    <3>2. InJournal(journal, m, content[m])
      BY <1>4, <3>1 DEF StoredInv, PagesInv
    <3>. QED
      BY <1>1, <1>18, <3>1, <3>2
  <2>4. InTier2(m)' => m \in dirty'
    BY <1>1 DEF StoredInv, PagesInv, InTier2
  <2>. QED
    BY <1>1, <1>19, <2>2, <2>3, <2>4
<1>22. PagesInv'
  BY <1>21 DEF PagesInv
<1>23. ASSUME NEW i \in 1..v
       PROVE  /\ js[i].job = "spill" /\ tier1'[js[i].name] = NoPage
              /\ js[i].data = content'[js[i].name] /\ js[i].name \in dirty'
              /\ \A k \in 1..v : js[k].name = js[i].name => i = k
  <2>1. PICK m : m = out[i]
    OBVIOUS
  <2>2. js[i].job = "spill" /\ js[i].name = m /\ js[i].data = Clamp(pages[m], sizes[m])
    BY <1>17, <2>1 DEF job, DataJob
  <2>3. m \in Names /\ pages[m] # NoPage /\ m \in ToSet(out)
    BY <1>14, <2>1
  <2>4. tier1'[m] = NoPage
    BY <1>1, <2>3
  <2>5. js[i].data = content'[m] /\ m \in dirty'
    BY <1>19, <2>2, <2>3
  <2>6. ASSUME NEW k \in 1..v, js[k].name = m PROVE i = k
    <3>1. js[k].name = out[k]
      BY <1>17 DEF job, DataJob
    <3>2. held[k] = held[i] /\ i \in 1..Len(held) /\ k \in 1..Len(held)
      BY <1>13, <2>1, <2>6, <3>1
    <3>. QED
      BY <1>10, <3>2 DEF Fifo
  <2>. QED
    BY <2>2, <2>4, <2>5, <2>6
<1>24. PendingInv'
  BY <1>3, <1>17, <1>23 DEF PendingInv
<1>. QED
  BY <1>22, <1>24 DEF StoredInv

\* A recovered entry without a page is all zeroes.
LEMMA RecoveredZeroes ==
  ASSUME NEW recs, NEW chosen, NEW contents, NEW names, NEW paged, NEW fifo, NEW rest,
         CrashFits(recs, chosen, contents, names, paged, fifo, rest),
         NEW n \in Names, \A k \in 1..Len(fifo) : fifo[k] # n
  PROVE  contents[n] = Zeroes(Len(contents[n]))
<1>1. contents = Replay(recs, chosen) /\ paged = {x \in PagesOf(recs, chosen) : contents[x] # <<>>}
  BY DEF CrashFits, CrashStep
<1>2. /\ contents \in [Names -> Parts] /\ Chosen(recs, chosen)
      /\ \A i \in chosen : RecordOk(recs[i])
      /\ fifo \in SetToSeqs(paged) /\ paged \subseteq Names
  BY DEF CrashFits, Renewed
<1>3. n \notin paged
  BY <1>2, ListOfNames
<1>4. PICK c : c = contents[n]
  OBVIOUS
<1>5. CASE c = <<>>
  <2>1. Len(<<>>) = 0 /\ Zeroes(0) = <<>>
    BY DEF Zeroes
  <2>. QED
    BY <1>4, <1>5, <2>1
<1>6. CASE c # <<>>
  <2>1. n \notin PagesOf(recs, chosen)
    BY <1>1, <1>3, <1>4, <1>6
  <2>2. \A i \in 1..Len(Replay(recs, chosen)[n]) : Replay(recs, chosen)[n][i] = 0
    BY <1>2, <2>1, ReplayZeroes
  <2>3. \A i \in 1..Len(c) : c[i] = 0
    BY <1>1, <1>4, <2>2
  <2>4. IsSeq(c)
    BY <1>2, <1>4, PartFields
  <2>. QED
    BY <1>4, <2>3, <2>4, AllZeroes
<1>. QED
  BY <1>5, <1>6

\* A crash and the open behind it.
LEMMA CrashStored ==
  ASSUME ~ShortWrites, TypeInv, CrashAndRecover PROVE StoredInv'
<1>1. PICK recs, chosen, contents, names, paged, fifo, rest :
        CrashFits(recs, chosen, contents, names, paged, fifo, rest)
  BY CrashRenews
<1>2. /\ names = {recs[i].name : i \in chosen} /\ contents = Replay(recs, chosen)
      /\ paged = {n \in PagesOf(recs, chosen) : contents[n] # <<>>}
      /\ dirty' = names /\ size' = [n \in Names |-> Len(contents[n])]
      /\ tier1' = [n \in Names |-> IF n \in paged THEN Padded(contents[n]) ELSE NoPage]
  BY <1>1 DEF CrashFits, CrashStep
<1>3. /\ contents \in [Names -> Parts] /\ Renewed(fifo, rest, contents)
      /\ Chosen(recs, chosen) /\ \A i \in chosen : RecordOk(recs[i])
      /\ fifo \in SetToSeqs(paged) /\ \A i \in 1..Len(fifo) : fifo[i] \in paged
      /\ paged \subseteq Names
  BY <1>1 DEF CrashFits, Renewed
<1>4. Tier2Ok(journal)
  BY DEF TypeInv
<1>5. /\ \A n \in Names : InJournal(journal', n, contents[n])
      /\ content' = contents /\ jobs' = <<>>
      /\ \A n \in Names : InTier2(n)' => \E k \in 1..Len(fifo) : fifo[k] = n
  <2>1. \A n \in Names : (\A k \in 1..Len(fifo) : fifo[k] # n) =>
                           contents[n] = Zeroes(Len(contents[n]))
    BY <1>1, RecoveredZeroes
  <2>. QED
    BY <1>3, <1>4, <2>1, RenewedReads
<1>6. paged \subseteq names
  BY <1>2 DEF PagesOf
<1>7. ASSUME NEW n \in Names
      PROVE  /\ size'[n] = Len(contents[n])
             /\ tier1'[n] # NoPage => contents[n] = Clamp(tier1'[n], size'[n])
             /\ tier1'[n] # NoPage \/ InTier2(n)' => n \in dirty'
  <2>1. size'[n] = Len(contents[n])
    BY <1>2
  <2>2. tier1'[n] # NoPage => n \in paged /\ tier1'[n] = Padded(contents[n])
    BY <1>2
  <2>3. PICK c : c = contents[n]
    OBVIOUS
  <2>4. Clamp(Padded(c), Len(c)) = c
    <3>1. c \in Parts
      BY <1>3, <2>3
    <3>. QED
      BY <3>1, ClampPadded
  <2>5. InTier2(n)' => n \in paged
    BY <1>3, <1>5
  <2>. QED
    BY <1>2, <1>6, <2>1, <2>2, <2>3, <2>4, <2>5
<1>8. PagesInv'
  BY <1>5, <1>7 DEF PagesInv
<1>9. PendingInv'
  <2>1. Len(<<>>) = 0
    OBVIOUS
  <2>. QED
    BY <1>5, <2>1 DEF PendingInv
<1>. QED
  BY <1>8, <1>9 DEF StoredInv

\* Every step keeps what the tiers have.
LEMMA StoredStep ==
  ASSUME ~ShortWrites, SpillsSucceed
  PROVE  TypeInv /\ StoredInv /\ [Next]_vars => StoredInv'
<1>. SUFFICES ASSUME TypeInv, StoredInv, [Next]_vars PROVE StoredInv'
  OBVIOUS
<1>1. ASSUME NEW n \in Names, NEW d \in Writes, WriteTier1(n, d) PROVE StoredInv'
  BY <1>1, WriteTier1Stored
<1>2. ASSUME NEW n \in Names, NEW d \in Writes, WriteTier2(n, d) PROVE StoredInv'
  BY <1>2, WriteTier2Stored
<1>3. ASSUME NEW n \in Names, Truncate(n) PROVE StoredInv'
  BY <1>3, TruncateStored
<1>4. CASE Flush \/ CompactJournal
  BY <1>4, FlushStored
<1>5. CASE AppendOk
  BY <1>5, AppendOkStored
<1>6. CASE CompactSwap
  BY <1>6, CompactSwapStored
<1>7. ASSUME NEW how \in Failures, AppendFails(how) PROVE StoredInv'
  BY <1>7, AppendFailsStored
<1>8. CASE CrashAndRecover
  BY <1>8, CrashStored
<1>9. CASE UNCHANGED vars
  BY <1>9 DEF vars, diff, history, StoredInv, PagesInv, PendingInv, Pending, InJournal, Stored,
             InTier2
<1>. QED
  BY <1>1, <1>2, <1>3, <1>4, <1>5, <1>6, <1>7, <1>8, <1>9 DEF Next

\* Between calls every entry reads as it was written last, from Tier 1, from its
\* record in the journal or as zeroes, through spills, flushes, compactions,
\* failed appends and crashes, when no append writes a part of a record and no
\* spill fails (read_dirty, take_spill_victims, write_into, compact_journal,
\* replay_recovered).
THEOREM EntriesReadAsWritten ==
  ASSUME ~ShortWrites, SpillsSucceed PROVE Spec => []ReadsNewest
<1>1. Init => StoredInv
  BY InitStored
<1>2. TypeInv /\ StoredInv /\ [Next]_vars => StoredInv'
  BY StoredStep
<1>3. TypeInv /\ StoredInv => ReadsNewest
  <2>. SUFFICES ASSUME TypeInv, StoredInv, call = "none", NEW n \in Names
                PROVE  Read(n) = content[n]
    BY DEF ReadsNewest
  <2>1. Tier1Inv /\ PagesInv /\ jobs = <<>>
    BY DEF TypeInv, StoredInv, JobsInv
  <2>. QED
    BY <2>1, NonePending, ReadsRight
<1>. QED
  BY <1>1, <1>2, <1>3, TypesKept, PTL DEF Spec

-----------------------------------------------------------------------------
(* Recovery shows what was flushed. *)

\* Of two records only one is behind the other.
LEMMA BeforeOneWay ==
  ASSUME NEW recs, NEW S, Ordered(recs, S), NEW i \in S, NEW j \in S, Before(recs, i, j)
  PROVE  ~Before(recs, j, i)
<1>1. PICK s, t : s = recs[i].seq /\ t = recs[j].seq
  OBVIOUS
<1>2. PICK a, b : a = recs[i].kind /\ b = recs[j].kind
  OBVIOUS
<1>3. s \in Nat /\ t \in Nat /\ i \in Nat /\ j \in Nat
  BY <1>1 DEF Ordered
<1>4. s < t \/ (s = t /\ a = "data" /\ b = "meta") \/ (s = t /\ a = b /\ i < j)
  BY <1>1, <1>2 DEF Before
<1>5. ~(t < s \/ (t = s /\ b = "data" /\ a = "meta") \/ (t = s /\ b = a /\ j < i))
  BY <1>3, <1>4
<1>. QED
  BY <1>1, <1>2, <1>5 DEF Before

\* The record that is behind all others.
LEMMA LatestOnly ==
  ASSUME NEW recs, NEW S, Ordered(recs, S), NEW i \in S, \A j \in S \ {i} : Before(recs, j, i)
  PROVE  Latest(recs, S) = i
<1>1. PICK l : l = Latest(recs, S)
  OBVIOUS
<1>2. l \in S /\ \A j \in S \ {l} : Before(recs, j, l)
  BY <1>1 DEF Latest
<1>3. SUFFICES ASSUME l # i PROVE FALSE
  BY <1>1
<1>4. Before(recs, l, i) /\ Before(recs, i, l)
  BY <1>2, <1>3
<1>. QED
  BY <1>2, <1>4, BeforeOneWay

\* The same records are replayed in the same way wherever they are.
LEMMA ReplayAgrees ==
  ASSUME NEW recs, NEW chosen, Chosen(recs, chosen), NEW others, NEW more, Chosen(others, more),
         chosen \subseteq more, \A i \in chosen : others[i] = recs[i],
         NEW f, ReplaySteps(recs, chosen, f), NEW g, ReplaySteps(others, more, g)
  PROVE  \A S \in SUBSET chosen : f[S] = g[S]
<1>1. /\ \A S \in SUBSET chosen : f[S] = ReplayFrom(recs, f, S)
      /\ \A S \in SUBSET more : g[S] = ReplayFrom(others, g, S)
  BY DEF ReplaySteps
<1>2. Ordered(recs, chosen) /\ Ordered(others, more)
  BY DEF Chosen
<1>. DEFINE Bad == {Cardinality(S) : S \in {R \in SUBSET chosen : f[R] # g[R]}}
<1>3. \A S \in SUBSET chosen : Cardinality(S) \in Nat
  BY ChosenFinite
<1>4. ASSUME NEW S \in SUBSET chosen, S # {},
             f[S \ {Latest(recs, S)}] = g[S \ {Latest(recs, S)}]
      PROVE  f[S] = g[S]
  <2>1. PICK i : i = Latest(recs, S)
    OBVIOUS
  <2>2. PICK R : R = S \ {i}
    OBVIOUS
  <2>3. i \in S /\ i \in chosen
    BY <1>4, <2>1, WithoutLatest
  <2>4. Ordered(recs, S) /\ Ordered(others, S)
    BY <1>2 DEF Ordered
  <2>5. \A j \in S \ {i} : Before(recs, j, i)
    <3>1. Len(recs) \in Nat /\ S \subseteq 1..Len(recs)
      BY DEF Chosen, IsSeq
    <3>2. \E k \in S : \A j \in S \ {k} : Before(recs, j, k)
      BY <1>4, <2>4, <3>1, LatestIs
    <3>. QED
      BY <2>1, <3>2 DEF Latest
  <2>6. \A j \in S \ {i} : Before(others, j, i)
    BY <2>3, <2>5 DEF Before
  <2>7. Latest(others, S) = i
    BY <2>3, <2>4, <2>6, LatestOnly
  <2>8. f[S] = ReplayRecord(f[R], recs[i])
    BY <1>1, <1>4, <2>1, <2>2 DEF ReplayFrom
  <2>9. g[S] = ReplayRecord(g[R], others[i])
    <3>1. S \in SUBSET more
      OBVIOUS
    <3>2. g[S] = ReplayFrom(others, g, S)
      BY <1>1, <3>1
    <3>. QED
      BY <1>4, <2>2, <2>7, <3>2 DEF ReplayFrom
  <2>10. f[R] = g[R] /\ others[i] = recs[i]
    BY <1>4, <2>1, <2>2, <2>3
  <2>. QED
    BY <2>8, <2>9, <2>10
<1>5. Bad = {}
  <2>1. SUFFICES ASSUME Bad # {} PROVE FALSE
    OBVIOUS
  <2>2. PICK m \in Bad : \A k \in Bad : m <= k
    <3>1. Bad \subseteq Nat
      BY <1>3
    <3>. HIDE DEF Bad
    <3>. QED
      BY <2>1, <3>1, LeastNatural
  <2>3. PICK S \in SUBSET chosen : f[S] # g[S] /\ m = Cardinality(S)
    OBVIOUS
  <2>4. S # {}
    <3>1. S \in SUBSET more
      OBVIOUS
    <3>2. f[S] = ReplayFrom(recs, f, S) /\ g[S] = ReplayFrom(others, g, S)
      BY <1>1, <3>1
    <3>. QED
      BY <2>3, <3>2 DEF ReplayFrom
  <2>5. PICK R : R = S \ {Latest(recs, S)}
    OBVIOUS
  <2>6. R \in SUBSET chosen /\ Cardinality(R) = Cardinality(S) - 1
    BY <2>4, <2>5, WithoutLatest
  <2>7. f[R] # g[R]
    BY <1>4, <2>3, <2>4, <2>5
  <2>8. Cardinality(R) \in Bad /\ Cardinality(S) \in Nat
    BY <1>3, <2>6, <2>7
  <2>. HIDE DEF Bad
  <2>9. m <= Cardinality(R)
    BY <2>2, <2>8
  <2>. QED
    BY <2>3, <2>6, <2>8, <2>9
<1>. QED
  BY <1>5

\* The replay of the same records.
LEMMA ReplaySame ==
  ASSUME NEW recs, NEW chosen, Chosen(recs, chosen), NEW others, Chosen(others, chosen),
         \A i \in chosen : others[i] = recs[i]
  PROVE  Replay(others, chosen) = Replay(recs, chosen)
<1>1. PICK f : ReplaySteps(recs, chosen, f)
  BY ReplayAll
<1>2. PICK g : ReplaySteps(others, chosen, g)
  BY ReplayAll
<1>3. \A S \in SUBSET chosen : f[S] = g[S]
  BY <1>1, <1>2, ReplayAgrees
<1>. QED
  BY <1>1, <1>2, <1>3 DEF ReplaySteps

\* A replay with a record more, behind all others.
LEMMA ReplayMore ==
  ASSUME NEW recs, NEW chosen, Chosen(recs, chosen), NEW others, NEW more, Chosen(others, more),
         NEW i, i \notin chosen, more = chosen \cup {i},
         \A j \in chosen : others[j] = recs[j] /\ Before(others, j, i)
  PROVE  Replay(others, more) = ReplayRecord(Replay(recs, chosen), others[i])
<1>1. PICK f : ReplaySteps(recs, chosen, f)
  BY ReplayAll
<1>2. PICK g : ReplaySteps(others, more, g)
  BY ReplayAll
<1>3. /\ Replay(recs, chosen) = f[chosen] /\ Replay(others, more) = g[more]
      /\ g[more] = ReplayFrom(others, g, more)
  BY <1>1, <1>2 DEF ReplaySteps
<1>4. f[chosen] = g[chosen]
  <2>1. \A S \in SUBSET chosen : f[S] = g[S]
    BY <1>1, <1>2, ReplayAgrees
  <2>. QED
    BY <2>1
<1>5. Latest(others, more) = i
  <2>1. Ordered(others, more)
    BY DEF Chosen
  <2>2. i \in more /\ \A j \in more \ {i} : Before(others, j, i)
    OBVIOUS
  <2>. QED
    BY <2>1, <2>2, LatestOnly
<1>6. more \ {i} = chosen /\ more # {}
  OBVIOUS
<1>. QED
  BY <1>3, <1>4, <1>5, <1>6 DEF ReplayFrom

\* A replay of nothing.
LEMMA ReplayNothing ==
  ASSUME NEW recs, IsSeq(recs) PROVE Replay(recs, {}) = NothingWritten
<1>1. Chosen(recs, {})
  BY DEF Chosen, Ordered
<1>2. PICK f : ReplaySteps(recs, {}, f)
  BY <1>1, ReplayAll
<1>3. Replay(recs, {}) = f[{}] /\ f[{}] = ReplayFrom(recs, f, {})
  BY <1>2 DEF ReplaySteps
<1>. QED
  BY <1>3 DEF ReplayFrom

\* The records that a replay may take, what all of them show, and what the
\* committed ones do.
Plain(recs) == {i \in 1..Len(recs) : recs[i].kind # "marker"}
Full(recs)  == Replay(recs, Plain(recs))
Shown(recs) == Replay(recs, Committed(recs))

\* The numbers of the records, before one that is given the number next: only a
\* page whose append failed has it already.
Numbers(next, recs) ==
  /\ IsSeq(recs)
  /\ \A i \in 1..Len(recs) : RecordOk(recs[i]) /\ recs[i].kind \in {"data", "meta", "marker"}
  /\ \A i \in Plain(recs) : recs[i].seq \in 1..next /\ (recs[i].seq = next => recs[i].kind = "data")
  /\ \A i, j \in Plain(recs) : i < j => Before(recs, i, j)
  /\ \A i \in 1..Len(recs) : recs[i].kind = "marker" => recs[i].commit \in 0..(next - 1)

\* Any of them may be replayed.
LEMMA PlainChosen ==
  ASSUME NEW next, NEW recs, Numbers(next, recs), NEW C, C \subseteq Plain(recs)
  PROVE  Chosen(recs, C)
<1>1. IsSeq(recs) /\ Len(recs) \in Nat /\ C \subseteq 1..Len(recs)
  BY DEF Numbers, IsSeq, Plain
<1>2. \A i \in C : recs[i].seq \in Nat /\ recs[i].kind \in {"data", "meta"}
  BY DEF Numbers, Plain, RecordOk
<1>. QED
  BY <1>1, <1>2 DEF Chosen, Ordered

\* The committed records are those up to the number of the last marker.
LEMMA CommittedAre ==
  ASSUME NEW recs, IsSeq(recs)
  PROVE  /\ Committed(recs) = {i \in Plain(recs) : recs[i].seq <= LastCommit(recs)}
         /\ Committed(recs) \subseteq Plain(recs)
<1>1. DOMAIN recs = 1..Len(recs)
  BY DEF IsSeq
<1>2. DOMAIN recs \ Markers(recs) = Plain(recs)
  BY <1>1 DEF Markers, Plain
<1>. QED
  BY <1>2 DEF Committed

\* The last marker.
LEMMA LastMarker ==
  ASSUME NEW recs, IsSeq(recs)
  PROVE  \/ /\ LastCommit(recs) = 0
            /\ \A i \in 1..Len(recs) : recs[i].kind # "marker"
         \/ \E m \in 1..Len(recs) :
              /\ recs[m].kind = "marker" /\ LastCommit(recs) = recs[m].commit
              /\ \A i \in 1..Len(recs) : recs[i].kind = "marker" => i <= m
<1>1. DOMAIN recs = 1..Len(recs) /\ Len(recs) \in Nat
  BY DEF IsSeq
<1>2. PICK M : M = Markers(recs)
  OBVIOUS
<1>3. M = {i \in 1..Len(recs) : recs[i].kind = "marker"}
  BY <1>1, <1>2 DEF Markers
<1>4. CASE M = {}
  BY <1>2, <1>3, <1>4 DEF LastCommit
<1>5. CASE M # {}
  <2>1. \E m \in M : \A i \in M : i <= m
    <3>1. M \subseteq 0..Len(recs)
      BY <1>1, <1>3
    <3>. QED
      BY <1>1, <1>5, <3>1, GreatestNatural
  <2>2. \E m \in M : \A i \in M : m >= i
    BY <1>3, <2>1
  <2>3. PICK m : m = CHOOSE i \in M : \A j \in M : i >= j
    OBVIOUS
  <2>4. m \in M /\ \A i \in M : m >= i
    BY <2>2, <2>3
  <2>5. LastCommit(recs) = recs[m].commit
    BY <1>2, <1>5, <2>3 DEF LastCommit
  <2>6. \A i \in M : i <= m
    BY <1>3, <2>4
  <2>. QED
    BY <1>3, <2>4, <2>5, <2>6
<1>. QED
  BY <1>4, <1>5

\* What the last marker is decides what it commits.
LEMMA MarkerCommits ==
  ASSUME NEW recs, IsSeq(recs), NEW m \in 1..Len(recs), recs[m].kind = "marker",
         \A i \in 1..Len(recs) : recs[i].kind = "marker" => i <= m
  PROVE  LastCommit(recs) = recs[m].commit
<1>1. PICK k \in 1..Len(recs) :
        /\ recs[k].kind = "marker" /\ LastCommit(recs) = recs[k].commit
        /\ \A i \in 1..Len(recs) : recs[i].kind = "marker" => i <= k
  BY LastMarker
<1>2. Len(recs) \in Nat
  BY DEF IsSeq
<1>3. k = m
  BY <1>1, <1>2
<1>. QED
  BY <1>1, <1>3

\* new is recs and one record more.
Added(recs, rec, new) ==
  /\ IsSeq(new) /\ Len(new) = Len(recs) + 1 /\ new[Len(recs) + 1] = rec
  /\ \A i \in 1..Len(recs) : new[i] = recs[i]

\* A record that is appended.
LEMMA AppendAdds ==
  ASSUME NEW recs, IsSeq(recs), NEW rec PROVE Added(recs, rec, Append(recs, rec))
BY AppendSeq DEF Added

\* A record more is replayed behind all others, and shown by no marker.
Recorded(after, recs, rec, new) ==
  /\ Numbers(after, new) /\ Plain(new) = Plain(recs) \cup {Len(recs) + 1}
  /\ Full(new) = ReplayRecord(Full(recs), rec) /\ Shown(new) = Shown(recs)

\* One record more.
LEMMA NumbersRecord ==
  ASSUME NEW next \in Nat \ {0}, NEW recs, Numbers(next, recs),
         NEW rec, RecordOk(rec), rec.kind \in {"data", "meta"}, rec.seq = next,
         NEW after, after = next + 1 \/ (after = next /\ rec.kind = "data"),
         NEW new, Added(recs, rec, new)
  PROVE  Recorded(after, recs, rec, new)
<1>. DEFINE n == Len(recs)
<1>1. /\ IsSeq(recs) /\ n \in Nat
      /\ \A i \in 1..n : RecordOk(recs[i]) /\ recs[i].kind \in {"data", "meta", "marker"}
      /\ \A i \in Plain(recs) : recs[i].seq \in 1..next /\ (recs[i].seq = next => recs[i].kind = "data")
      /\ \A i, j \in Plain(recs) : i < j => Before(recs, i, j)
      /\ \A i \in 1..n : recs[i].kind = "marker" => recs[i].commit \in 0..(next - 1)
  BY DEF Numbers, IsSeq
<1>2. /\ IsSeq(new) /\ Len(new) = n + 1 /\ new[n + 1] = rec
      /\ \A i \in 1..n : new[i] = recs[i]
  BY DEF Added
<1>. HIDE DEF n
<1>3. 1..(n + 1) = (1..n) \cup {n + 1} /\ n + 1 \notin 1..n
  BY <1>1
<1>4. Plain(recs) = {i \in 1..n : recs[i].kind # "marker"}
  BY DEF Plain, n
<1>5. Plain(new) = Plain(recs) \cup {n + 1}
  BY <1>2, <1>3, <1>4 DEF Plain
<1>6. \A i \in Plain(recs) : i \in 1..n /\ new[i] = recs[i] /\ i < n + 1
  BY <1>1, <1>2, <1>4
<1>7. ASSUME NEW i \in Plain(recs) PROVE Before(new, i, n + 1)
  <2>1. new[i] = recs[i] /\ i < n + 1
    BY <1>6
  <2>2. PICK s : s = recs[i].seq
    OBVIOUS
  <2>3. s \in 1..next /\ (s = next => recs[i].kind = "data")
    BY <1>1, <2>2
  <2>4. CASE s < next
    BY <1>2, <2>1, <2>2, <2>4 DEF Before
  <2>5. CASE s = next
    BY <1>2, <2>1, <2>2, <2>3, <2>5 DEF Before
  <2>. QED
    BY <2>3, <2>4, <2>5
<1>8. ASSUME NEW i \in Plain(new), NEW j \in Plain(new), i < j PROVE Before(new, i, j)
  <2>1. i \in Plain(recs)
    BY <1>1, <1>4, <1>5, <1>8
  <2>2. CASE j = n + 1
    BY <1>7, <2>1, <2>2
  <2>3. CASE j # n + 1
    <3>1. j \in Plain(recs)
      BY <1>5, <2>3
    <3>2. Before(recs, i, j) /\ new[i] = recs[i] /\ new[j] = recs[j]
      BY <1>1, <1>6, <1>8, <2>1, <3>1
    <3>. QED
      BY <3>2 DEF Before
  <2>. QED
    BY <2>2, <2>3
<1>9. Numbers(after, new)
  <2>1. \A i \in 1..Len(new) : RecordOk(new[i]) /\ new[i].kind \in {"data", "meta", "marker"}
    BY <1>1, <1>2, <1>3
  <2>2. ASSUME NEW i \in Plain(new)
        PROVE  new[i].seq \in 1..after /\ (new[i].seq = after => new[i].kind = "data")
    <3>1. CASE i = n + 1
      <4>1. next \in 1..after /\ (next = after => rec.kind = "data")
        OBVIOUS
      <4>. QED
        BY <1>2, <3>1, <4>1
    <3>2. CASE i # n + 1
      <4>1. i \in Plain(recs) /\ new[i] = recs[i]
        BY <1>5, <1>6, <3>2
      <4>2. PICK s : s = recs[i].seq
        OBVIOUS
      <4>3. s \in 1..next /\ (s = next => recs[i].kind = "data")
        BY <1>1, <4>1, <4>2
      <4>4. s \in 1..after /\ (s = after => s = next)
        BY <4>3
      <4>. QED
        BY <4>1, <4>2, <4>3, <4>4
    <3>. QED
      BY <3>1, <3>2
  <2>3. ASSUME NEW i \in 1..Len(new), new[i].kind = "marker" PROVE new[i].commit \in 0..(after - 1)
    <3>1. i \in 1..n /\ new[i] = recs[i]
      BY <1>2, <1>3, <2>3
    <3>2. PICK c : c = recs[i].commit
      OBVIOUS
    <3>3. c \in 0..(next - 1)
      BY <1>1, <2>3, <3>1, <3>2
    <3>4. c \in 0..(after - 1)
      BY <3>3
    <3>. QED
      BY <3>1, <3>2, <3>4
  <2>. QED
    BY <1>2, <1>8, <2>1, <2>2, <2>3 DEF Numbers
<1>10. Full(new) = ReplayRecord(Full(recs), rec)
  <2>1. Chosen(recs, Plain(recs)) /\ Chosen(new, Plain(new))
    BY <1>9, PlainChosen
  <2>2. n + 1 \notin Plain(recs)
    BY <1>3, <1>4
  <2>3. PICK chosen : chosen = Plain(recs)
    OBVIOUS
  <2>4. PICK more : more = Plain(new)
    OBVIOUS
  <2>5. PICK i : i = n + 1
    OBVIOUS
  <2>6. i \notin chosen /\ more = chosen \cup {i}
    BY <1>5, <2>2, <2>3, <2>4, <2>5
  <2>7. \A j \in chosen : new[j] = recs[j] /\ Before(new, j, i)
    BY <1>6, <1>7, <2>3, <2>5
  <2>8. Chosen(recs, chosen) /\ Chosen(new, more)
    BY <2>1, <2>3, <2>4
  <2>9. Replay(new, more) = ReplayRecord(Replay(recs, chosen), new[i])
    BY <2>6, <2>7, <2>8, ReplayMore
  <2>. QED
    BY <1>2, <2>3, <2>4, <2>5, <2>9 DEF Full
<1>11. LastCommit(new) = LastCommit(recs) /\ LastCommit(recs) \in 0..(next - 1)
  <2>1. CASE LastCommit(recs) = 0 /\ \A i \in 1..n : recs[i].kind # "marker"
    <3>1. \A i \in 1..Len(new) : new[i].kind # "marker"
      BY <1>2, <1>3, <2>1
    <3>2. LastCommit(new) = 0
      BY <1>2, <3>1, LastMarker
    <3>. QED
      BY <2>1, <3>2
  <2>2. CASE \E m \in 1..n : /\ recs[m].kind = "marker" /\ LastCommit(recs) = recs[m].commit
                             /\ \A i \in 1..n : recs[i].kind = "marker" => i <= m
    <3>1. PICK m \in 1..n : /\ recs[m].kind = "marker" /\ LastCommit(recs) = recs[m].commit
                            /\ \A i \in 1..n : recs[i].kind = "marker" => i <= m
      BY <2>2
    <3>2. m \in 1..Len(new) /\ new[m] = recs[m]
      BY <1>2, <1>3
    <3>3. \A i \in 1..Len(new) : new[i].kind = "marker" => i <= m
      BY <1>2, <1>3, <3>1
    <3>4. LastCommit(new) = new[m].commit
      BY <1>2, <3>1, <3>2, <3>3, MarkerCommits
    <3>. QED
      BY <1>1, <3>1, <3>2, <3>4
  <2>. QED
    BY <1>1, <2>1, <2>2, LastMarker DEF n
<1>12. Shown(new) = Shown(recs)
  <2>1. PICK c : c = LastCommit(recs)
    OBVIOUS
  <2>2. /\ Committed(recs) = {i \in Plain(recs) : recs[i].seq <= c}
        /\ Committed(new) = {i \in Plain(new) : new[i].seq <= c}
    BY <1>1, <1>2, <1>11, <2>1, CommittedAre
  <2>3. ~(new[n + 1].seq <= c)
    BY <1>2, <1>11, <2>1
  <2>4. Committed(new) = Committed(recs) /\ Committed(recs) \subseteq Plain(recs)
    BY <1>5, <1>6, <2>2, <2>3
  <2>5. Chosen(recs, Committed(recs)) /\ Chosen(new, Committed(recs))
    <3>1. Committed(recs) \subseteq Plain(new)
      BY <1>5, <2>4
    <3>. QED
      BY <1>9, <2>4, <3>1, PlainChosen
  <2>6. Replay(new, Committed(recs)) = Replay(recs, Committed(recs))
    BY <1>6, <2>4, <2>5, ReplaySame
  <2>. QED
    BY <2>4, <2>6 DEF Shown
<1>. QED
  BY <1>5, <1>9, <1>10, <1>12 DEF n, Recorded

\* One marker more: with it all that is there is committed, unless a record has
\* a number that was not used up.
LEMMA NumbersMarker ==
  ASSUME NEW next \in Nat \ {0}, NEW recs, Numbers(next, recs),
         NEW rec, RecordOk(rec), rec.kind = "marker", rec.commit = next - 1,
         NEW new, Added(recs, rec, new)
  PROVE  /\ Numbers(next, new) /\ Plain(new) = Plain(recs) /\ Full(new) = Full(recs)
         /\ (\A i \in Plain(recs) : recs[i].seq # next) => Shown(new) = Full(recs)
<1>. DEFINE n == Len(recs)
<1>1. /\ IsSeq(recs) /\ n \in Nat
      /\ \A i \in 1..n : RecordOk(recs[i]) /\ recs[i].kind \in {"data", "meta", "marker"}
      /\ \A i \in Plain(recs) : recs[i].seq \in 1..next /\ (recs[i].seq = next => recs[i].kind = "data")
      /\ \A i, j \in Plain(recs) : i < j => Before(recs, i, j)
      /\ \A i \in 1..n : recs[i].kind = "marker" => recs[i].commit \in 0..(next - 1)
  BY DEF Numbers, IsSeq
<1>2. /\ IsSeq(new) /\ Len(new) = n + 1 /\ new[n + 1] = rec
      /\ \A i \in 1..n : new[i] = recs[i]
  BY DEF Added
<1>. HIDE DEF n
<1>3. 1..(n + 1) = (1..n) \cup {n + 1} /\ n + 1 \notin 1..n
  BY <1>1
<1>4. Plain(recs) = {i \in 1..n : recs[i].kind # "marker"}
  BY DEF Plain, n
<1>5. Plain(new) = Plain(recs)
  BY <1>2, <1>3, <1>4 DEF Plain
<1>6. \A i \in Plain(recs) : i \in 1..n /\ new[i] = recs[i]
  BY <1>2, <1>4
<1>7. Numbers(next, new)
  <2>1. \A i \in 1..Len(new) : RecordOk(new[i]) /\ new[i].kind \in {"data", "meta", "marker"}
    BY <1>1, <1>2, <1>3
  <2>2. \A i \in Plain(new) : new[i].seq \in 1..next /\ (new[i].seq = next => new[i].kind = "data")
    BY <1>1, <1>5, <1>6
  <2>3. ASSUME NEW i \in Plain(new), NEW j \in Plain(new), i < j PROVE Before(new, i, j)
    <3>1. Before(recs, i, j) /\ new[i] = recs[i] /\ new[j] = recs[j]
      BY <1>1, <1>5, <1>6, <2>3
    <3>. QED
      BY <3>1 DEF Before
  <2>4. next - 1 \in 0..(next - 1)
    OBVIOUS
  <2>5. \A i \in 1..Len(new) : new[i].kind = "marker" => new[i].commit \in 0..(next - 1)
    BY <1>1, <1>2, <1>3, <2>4
  <2>. QED
    BY <1>2, <2>1, <2>2, <2>3, <2>5 DEF Numbers
<1>8. Chosen(recs, Plain(recs)) /\ Chosen(new, Plain(recs))
  BY <1>5, <1>7, PlainChosen
<1>9. Replay(new, Plain(recs)) = Replay(recs, Plain(recs))
  BY <1>6, <1>8, ReplaySame
<1>10. ASSUME \A i \in Plain(recs) : recs[i].seq # next PROVE Shown(new) = Full(recs)
  <2>1. LastCommit(new) = next - 1
    <3>1. n + 1 \in 1..Len(new) /\ \A i \in 1..Len(new) : i <= n + 1
      BY <1>1, <1>2
    <3>. QED
      BY <1>2, <3>1, MarkerCommits
  <2>2. Committed(new) = {i \in Plain(new) : new[i].seq <= next - 1}
    BY <1>2, <2>1, CommittedAre
  <2>3. ASSUME NEW i \in Plain(new) PROVE new[i].seq <= next - 1
    <3>1. PICK s : s = recs[i].seq
      OBVIOUS
    <3>2. s \in 1..next /\ s # next /\ new[i] = recs[i]
      BY <1>1, <1>5, <1>6, <1>10, <3>1
    <3>3. s <= next - 1
      BY <3>2
    <3>. QED
      BY <3>1, <3>2, <3>3
  <2>4. Committed(new) = Plain(recs)
    BY <1>5, <2>2, <2>3
  <2>. QED
    BY <1>9, <2>4 DEF Shown, Full
<1>. QED
  BY <1>5, <1>7, <1>9, <1>10 DEF Full

\* The file is that of recs and one record more.
Grown(longer, gen, recs, at, rec) ==
  \E new, at2 : /\ Journal(longer, gen, new, at2) /\ Added(recs, rec, new)
                /\ at2[Len(recs) + 1] = Len(longer)
                /\ \A i \in 0..Len(recs) : at2[i] = at[i]

\* A journal with a record more.
LEMMA JournalAdds ==
  ASSUME NEW file, NEW gen, NEW recs, NEW at, Journal(file, gen, recs, at),
         NEW rec, Good(rec, gen), NEW longer, longer = file \o Encode(rec)
  PROVE  Grown(longer, gen, recs, at, rec)
<1>1. PICK n : n = Len(recs)
  OBVIOUS
<1>2. IsSeq(recs) /\ n \in Nat
  BY <1>1 DEF Journal, IsSeq
<1>3. PICK new : new = Append(recs, rec)
  OBVIOUS
<1>4. PICK at2 : at2 = [i \in 0..(n + 1) |-> IF i = n + 1 THEN Len(file) + Size(rec) ELSE at[i]]
  OBVIOUS
<1>5. Journal(longer, gen, new, at2) /\ Len(new) = n + 1
  BY <1>1, <1>3, <1>4, JournalAppend
<1>6. at2[n + 1] = Len(longer)
  BY <1>5 DEF Journal
<1>7. \A i \in 0..n : at2[i] = at[i]
  BY <1>2, <1>4
<1>8. Added(recs, rec, new)
  BY <1>2, <1>3, AppendAdds
<1>. QED
  BY <1>1, <1>5, <1>6, <1>7, <1>8 DEF Grown

\* Is there a record whose number was not used up?
Loose(next, recs) == \E i \in Plain(recs) : recs[i].seq = next

\* The file is that of recs; each crash leaves at least d of them, and shows one
\* of marks.
Shows(w, marks, recs, at, d) ==
  /\ Journal(w.file, w.gen, recs, at) /\ Numbers(w.next, recs)
  /\ d \in 0..Len(recs) /\ at[d] = w.durable
  /\ \A k \in d..Len(recs) : Shown(SubSeq(recs, 1, k)) \in marks

\* The journal of a writer: whatever a crash leaves of it shows one of marks,
\* all of it together F; only a loose one has a record whose number was not
\* used up.
Logs(w, marks, F, state) ==
  \E recs, at, d : /\ Shows(w, marks, recs, at, d) /\ F = Full(recs)
                   /\ Loose(w.next, recs) => state = "loose"

\* The beginnings of a list that has grown.
LEMMA AddedPrefix ==
  ASSUME NEW recs, IsSeq(recs), NEW rec, NEW new, Added(recs, rec, new)
  PROVE  /\ \A k \in 0..Len(recs) : SubSeq(new, 1, k) = SubSeq(recs, 1, k)
         /\ SubSeq(new, 1, Len(new)) = new /\ SubSeq(recs, 1, Len(recs)) = recs
<1>1. PICK n : n = Len(recs)
  OBVIOUS
<1>2. /\ IsSeq(new) /\ Len(new) = n + 1 /\ n \in Nat
      /\ \A i \in 1..n : new[i] = recs[i]
  BY <1>1 DEF Added, IsSeq
<1>3. ASSUME NEW k \in 0..n PROVE SubSeq(new, 1, k) = SubSeq(recs, 1, k)
  <2>1. PICK s : s = SubSeq(new, 1, k)
    OBVIOUS
  <2>2. PICK t : t = SubSeq(recs, 1, k)
    OBVIOUS
  <2>3. k \in 0..Len(new)
    BY <1>2
  <2>4. IsSeq(s) /\ Len(s) = k /\ \A i \in 1..k : s[i] = new[i]
    BY <1>2, <2>1, <2>3, Prefix
  <2>5. IsSeq(t) /\ Len(t) = k /\ \A i \in 1..k : t[i] = recs[i]
    BY <1>1, <2>2, Prefix
  <2>6. \A i \in 1..k : s[i] = t[i]
    BY <1>2, <2>4, <2>5
  <2>7. s = t
    BY <2>4, <2>5, <2>6 DEF IsSeq
  <2>. QED
    BY <2>1, <2>2, <2>7
<1>4. ASSUME NEW s, IsSeq(s) PROVE SubSeq(s, 1, Len(s)) = s
  <2>1. PICK t : t = SubSeq(s, 1, Len(s))
    OBVIOUS
  <2>2. Len(s) \in 0..Len(s)
    BY <1>4 DEF IsSeq
  <2>3. IsSeq(t) /\ Len(t) = Len(s) /\ \A i \in 1..Len(s) : t[i] = s[i]
    BY <1>4, <2>1, <2>2, Prefix
  <2>4. t = s
    BY <1>4, <2>3 DEF IsSeq
  <2>. QED
    BY <2>1, <2>4
<1>. QED
  BY <1>1, <1>2, <1>3, <1>4

\* A record more shows nothing else.
LEMMA ShowsRecord ==
  ASSUME NEW w, w.next \in Nat \ {0}, NEW marks, NEW recs, NEW at, NEW d, Shows(w, marks, recs, at, d),
         NEW rec, RecordOk(rec), Good(rec, w.gen), rec.kind \in {"data", "meta"}, rec.seq = w.next,
         NEW nw, nw.gen = w.gen, nw.file = w.file \o Encode(rec),
         nw.next = w.next + 1 \/ (nw.next = w.next /\ rec.kind = "data"),
         nw.durable = w.durable \/ nw.durable = Len(nw.file),
         NEW state, nw.next = w.next + 1 \/ state = "loose"
  PROVE  Logs(nw, marks, ReplayRecord(Full(recs), rec), state)
<1>1. /\ Journal(w.file, w.gen, recs, at) /\ Numbers(w.next, recs)
      /\ d \in 0..Len(recs) /\ at[d] = w.durable
      /\ \A k \in d..Len(recs) : Shown(SubSeq(recs, 1, k)) \in marks
  BY DEF Shows
<1>2. PICK n : n = Len(recs)
  OBVIOUS
<1>3. IsSeq(recs) /\ n \in Nat
  BY <1>1, <1>2 DEF Journal, IsSeq
<1>4. PICK next : next = w.next
  OBVIOUS
<1>5. PICK after : after = nw.next
  OBVIOUS
<1>6. PICK new, at2 :
        /\ Journal(nw.file, nw.gen, new, at2) /\ Added(recs, rec, new)
        /\ at2[n + 1] = Len(nw.file) /\ \A i \in 0..n : at2[i] = at[i]
  <2>1. PICK file, gen : file = w.file /\ gen = w.gen
    OBVIOUS
  <2>2. PICK longer : longer = file \o Encode(rec)
    OBVIOUS
  <2>3. Journal(file, gen, recs, at) /\ Good(rec, gen)
    BY <1>1, <2>1
  <2>4. PICK new, at2 : /\ Journal(longer, gen, new, at2) /\ Added(recs, rec, new)
                        /\ at2[Len(recs) + 1] = Len(longer)
                        /\ \A i \in 0..Len(recs) : at2[i] = at[i]
    <3>1. Grown(longer, gen, recs, at, rec)
      BY <2>2, <2>3, JournalAdds
    <3>. QED
      BY <3>1 DEF Grown
  <2>5. nw.file = longer /\ nw.gen = gen
    BY <2>1, <2>2
  <2>. QED
    BY <1>2, <2>4, <2>5
<1>7. /\ Numbers(after, new) /\ Plain(new) = Plain(recs) \cup {n + 1}
      /\ Full(new) = ReplayRecord(Full(recs), rec) /\ Shown(new) = Shown(recs)
  <2>1. /\ next \in Nat \ {0} /\ rec.seq = next /\ Numbers(next, recs)
        /\ after = next + 1 \/ (after = next /\ rec.kind = "data")
    BY <1>1, <1>4, <1>5
  <2>2. Added(recs, rec, new)
    BY <1>6
  <2>3. Recorded(after, recs, rec, new)
    BY <2>1, <2>2, NumbersRecord
  <2>. QED
    BY <1>2, <2>3 DEF Recorded
<1>8. /\ Len(new) = n + 1 /\ new[n + 1] = rec /\ \A i \in 1..n : new[i] = recs[i]
  BY <1>2, <1>6 DEF Added
<1>9. /\ \A k \in 0..n : SubSeq(new, 1, k) = SubSeq(recs, 1, k)
      /\ SubSeq(new, 1, n + 1) = new /\ SubSeq(recs, 1, n) = recs
  BY <1>2, <1>3, <1>6, <1>8, AddedPrefix
<1>10. ASSUME NEW k \in d..(n + 1) PROVE Shown(SubSeq(new, 1, k)) \in marks
  <2>1. CASE k = n + 1
    <3>1. n \in d..Len(recs)
      BY <1>1, <1>2, <1>3
    <3>2. Shown(SubSeq(recs, 1, n)) \in marks
      BY <1>1, <3>1
    <3>. QED
      BY <1>7, <1>9, <2>1, <3>2
  <2>2. CASE k # n + 1
    <3>1. k \in 0..n /\ k \in d..Len(recs)
      BY <1>1, <1>2, <1>3, <2>2
    <3>. QED
      BY <1>1, <1>9, <3>1
  <2>. QED
    BY <2>1, <2>2
<1>11. ASSUME after = next + 1 PROVE ~Loose(after, new)
  <2>1. ASSUME NEW i \in Plain(new) PROVE new[i].seq # after
    <3>1. CASE i = n + 1
      <4>1. rec.seq = next /\ next # after
        BY <1>4, <1>11
      <4>. QED
        BY <1>8, <3>1, <4>1
    <3>2. CASE i # n + 1
      <4>1. i \in Plain(recs) /\ i \in 1..n
        BY <1>2, <1>7, <3>2 DEF Plain
      <4>2. PICK s : s = recs[i].seq
        OBVIOUS
      <4>3. s \in 1..next
        BY <1>1, <1>4, <4>1, <4>2 DEF Numbers
      <4>4. s # after
        BY <1>4, <1>11, <4>3
      <4>. QED
        BY <1>8, <4>1, <4>2, <4>4
    <3>. QED
      BY <3>1, <3>2
  <2>. QED
    BY <2>1 DEF Loose
<1>12. Loose(nw.next, new) => state = "loose"
  BY <1>4, <1>5, <1>11
<1>13. CASE nw.durable = w.durable
  <2>1. d \in 0..Len(new) /\ at2[d] = nw.durable
    BY <1>1, <1>2, <1>3, <1>6, <1>8, <1>13
  <2>2. Shows(nw, marks, new, at2, d)
    BY <1>5, <1>6, <1>7, <1>8, <1>10, <2>1 DEF Shows
  <2>. QED
    BY <1>7, <1>12, <2>2 DEF Logs
<1>14. CASE nw.durable = Len(nw.file)
  <2>1. n + 1 \in 0..Len(new) /\ at2[n + 1] = nw.durable
    BY <1>3, <1>6, <1>8, <1>14
  <2>2. \A k \in (n + 1)..Len(new) : k \in d..(n + 1)
    BY <1>1, <1>2, <1>3, <1>8
  <2>3. Shows(nw, marks, new, at2, n + 1)
    BY <1>5, <1>6, <1>7, <1>8, <1>10, <2>1, <2>2 DEF Shows
  <2>. QED
    BY <1>7, <1>12, <2>3 DEF Logs
<1>. QED
  BY <1>13, <1>14

\* A marker more shows all that is there.
LEMMA ShowsMarker ==
  ASSUME NEW w, w.next \in Nat \ {0}, NEW marks, NEW recs, NEW at, NEW d, Shows(w, marks, recs, at, d),
         ~Loose(w.next, recs),
         NEW rec, RecordOk(rec), Good(rec, w.gen), rec.kind = "marker", rec.commit = w.next - 1,
         NEW nw, nw.gen = w.gen, nw.file = w.file \o Encode(rec), nw.next = w.next,
         NEW more, Full(recs) \in more,
         nw.durable = Len(nw.file) \/ (nw.durable = w.durable /\ marks \subseteq more)
  PROVE  Logs(nw, more, Full(recs), "tight")
<1>1. /\ Journal(w.file, w.gen, recs, at) /\ Numbers(w.next, recs)
      /\ d \in 0..Len(recs) /\ at[d] = w.durable
      /\ \A k \in d..Len(recs) : Shown(SubSeq(recs, 1, k)) \in marks
  BY DEF Shows
<1>2. PICK n : n = Len(recs)
  OBVIOUS
<1>3. IsSeq(recs) /\ n \in Nat
  BY <1>1, <1>2 DEF Journal, IsSeq
<1>4. PICK next : next = w.next
  OBVIOUS
<1>5. \A i \in Plain(recs) : recs[i].seq # next
  BY <1>4 DEF Loose
<1>6. PICK new, at2 :
        /\ Journal(nw.file, nw.gen, new, at2) /\ Added(recs, rec, new)
        /\ at2[n + 1] = Len(nw.file) /\ \A i \in 0..n : at2[i] = at[i]
  <2>1. PICK file, gen : file = w.file /\ gen = w.gen
    OBVIOUS
  <2>2. PICK longer : longer = file \o Encode(rec)
    OBVIOUS
  <2>3. Journal(file, gen, recs, at) /\ Good(rec, gen)
    BY <1>1, <2>1
  <2>4. PICK new, at2 : /\ Journal(longer, gen, new, at2) /\ Added(recs, rec, new)
                        /\ at2[Len(recs) + 1] = Len(longer)
                        /\ \A i \in 0..Len(recs) : at2[i] = at[i]
    <3>1. Grown(longer, gen, recs, at, rec)
      BY <2>2, <2>3, JournalAdds
    <3>. QED
      BY <3>1 DEF Grown
  <2>5. nw.file = longer /\ nw.gen = gen
    BY <2>1, <2>2
  <2>. QED
    BY <1>2, <2>4, <2>5
<1>7. /\ Numbers(next, new) /\ Plain(new) = Plain(recs) /\ Full(new) = Full(recs)
      /\ Shown(new) = Full(recs)
  BY <1>1, <1>4, <1>5, <1>6, NumbersMarker
<1>8. /\ Len(new) = n + 1 /\ \A i \in 1..n : new[i] = recs[i]
  BY <1>2, <1>6 DEF Added
<1>9. /\ \A k \in 0..n : SubSeq(new, 1, k) = SubSeq(recs, 1, k)
      /\ SubSeq(new, 1, n + 1) = new
  BY <1>2, <1>3, <1>6, <1>8, AddedPrefix
<1>10. ~Loose(next, new)
  <2>1. \A i \in Plain(recs) : i \in 1..n
    BY <1>2 DEF Plain
  <2>. QED
    BY <1>5, <1>7, <1>8, <2>1 DEF Loose
<1>11. Shown(SubSeq(new, 1, n + 1)) \in more
  BY <1>7, <1>9
<1>12. CASE nw.durable = w.durable /\ marks \subseteq more
  <2>1. d \in 0..Len(new) /\ at2[d] = nw.durable
    BY <1>1, <1>2, <1>3, <1>6, <1>8, <1>12
  <2>2. ASSUME NEW k \in d..Len(new) PROVE Shown(SubSeq(new, 1, k)) \in more
    <3>1. CASE k = n + 1
      BY <1>11, <3>1
    <3>2. CASE k # n + 1
      <4>1. k \in 0..n /\ k \in d..Len(recs)
        BY <1>1, <1>2, <1>3, <1>8, <3>2
      <4>. QED
        BY <1>1, <1>9, <1>12, <4>1
    <3>. QED
      BY <3>1, <3>2
  <2>3. Shows(nw, more, new, at2, d)
    BY <1>4, <1>6, <1>7, <2>1, <2>2 DEF Shows
  <2>. QED
    BY <1>4, <1>7, <1>10, <2>3 DEF Logs
<1>13. CASE nw.durable = Len(nw.file)
  <2>1. n + 1 \in 0..Len(new) /\ at2[n + 1] = nw.durable
    BY <1>3, <1>6, <1>8, <1>13
  <2>2. \A k \in (n + 1)..Len(new) : k = n + 1
    BY <1>3, <1>8
  <2>3. Shows(nw, more, new, at2, n + 1)
    BY <1>4, <1>6, <1>7, <1>11, <2>1, <2>2 DEF Shows
  <2>. QED
    BY <1>4, <1>7, <1>10, <2>3 DEF Logs
<1>. QED
  BY <1>12, <1>13

\* What all records together make.
LEMMA LogsTyped ==
  ASSUME NEW w, NEW marks, NEW F, NEW state, Logs(w, marks, F, state)
  PROVE  F \in [Names -> Parts]
<1>1. PICK recs, at, d : Shows(w, marks, recs, at, d) /\ F = Full(recs)
  BY DEF Logs
<1>2. PICK next : next = w.next
  OBVIOUS
<1>3. Numbers(next, recs)
  BY <1>1, <1>2 DEF Shows
<1>4. Chosen(recs, Plain(recs))
  BY <1>3, PlainChosen
<1>5. \A i \in Plain(recs) : RecordOk(recs[i])
  BY <1>3 DEF Numbers, Plain
<1>6. Replay(recs, Plain(recs)) \in [Names -> Parts]
  BY <1>4, <1>5, ReplayTyped
<1>. QED
  BY <1>1, <1>6 DEF Full

\* The fields of the record of a job.
LEMMA RecordFields ==
  ASSUME NEW w, NEW j, JobOk(j), NEW rec, rec = Record(w, j)
  PROVE  /\ IsData(j) => /\ rec.kind = "data" /\ rec.seq = w.next /\ rec.name = j.name
                         /\ rec.data = j.data
         /\ j.job = "resize" => /\ rec.kind = "meta" /\ rec.seq = w.next /\ rec.name = j.name
                                /\ rec.size = j.size
         /\ j.job = "marker" => rec.kind = "marker" /\ rec.commit = w.next - 1
         /\ IsData(j) \/ j.job = "resize" \/ j.job = "marker"
<1>1. IsData(j) \/ j.job = "resize" \/ j.job = "marker"
  BY DEF JobOk, Jobs, IsData
<1>2. CASE IsData(j)
  BY <1>2 DEF Record, DataRecord, IsData
<1>3. CASE j.job = "resize"
  BY <1>3 DEF Record, MetadataRecord, IsData
<1>4. CASE j.job = "marker"
  BY <1>4 DEF Record, CommitMarker, LastSequence, IsData
<1>. QED
  BY <1>1, <1>2, <1>3, <1>4

\* A record that the writer numbers, or one whose append it does not know of.
LEMMA LogsRecord ==
  ASSUME NEW w, w.next \in Nat \ {0}, NEW marks, NEW F, NEW state, Logs(w, marks, F, state),
         NEW rec, RecordOk(rec), Good(rec, w.gen), rec.kind \in {"data", "meta"}, rec.seq = w.next,
         NEW nw, nw.gen = w.gen, nw.file = w.file \o Encode(rec),
         NEW after, \/ nw.next = w.next + 1 /\ after = "tight"
                    \/ nw.next = w.next /\ rec.kind = "data" /\ after = "loose",
         nw.durable = w.durable \/ nw.durable = Len(nw.file)
  PROVE  Logs(nw, marks, ReplayRecord(F, rec), after)
<1>1. PICK recs, at, d : Shows(w, marks, recs, at, d) /\ F = Full(recs)
  BY DEF Logs
<1>2. nw.next = w.next + 1 \/ (nw.next = w.next /\ rec.kind = "data")
  OBVIOUS
<1>3. nw.next = w.next + 1 \/ after = "loose"
  OBVIOUS
<1>4. Logs(nw, marks, ReplayRecord(Full(recs), rec), after)
  BY <1>1, <1>2, <1>3, ShowsRecord
<1>. QED
  BY <1>1, <1>4

\* A marker.
LEMMA LogsMarker ==
  ASSUME NEW w, w.next \in Nat \ {0}, NEW marks, NEW F, NEW state, Logs(w, marks, F, state),
         state # "loose",
         NEW rec, RecordOk(rec), Good(rec, w.gen), rec.kind = "marker", rec.commit = w.next - 1,
         NEW nw, nw.gen = w.gen, nw.file = w.file \o Encode(rec), nw.next = w.next,
         NEW more, F \in more,
         nw.durable = Len(nw.file) \/ (nw.durable = w.durable /\ marks \subseteq more)
  PROVE  Logs(nw, more, F, "tight")
<1>1. PICK recs, at, d : Shows(w, marks, recs, at, d) /\ F = Full(recs) /\ ~Loose(w.next, recs)
  BY DEF Logs
<1>2. Full(recs) \in more
  BY <1>1
<1>3. Logs(nw, more, Full(recs), "tight")
  BY <1>1, <1>2, ShowsMarker
<1>. QED
  BY <1>1, <1>3

\* A job that is done.
LEMMA LogsPut ==
  ASSUME NEW t2, Tier2Ok(t2), NEW j, JobOk(j), NEW new, PutOk(t2, j, new),
         NEW marks, NEW F, NEW state, Logs(t2.writer, marks, F, state),
         NEW rec, rec = Record(t2.writer, j), NEW more, F \in more
  PROVE  /\ j.job # "marker" => Logs(new.writer, marks, ReplayRecord(F, rec), "tight")
         /\ j.job = "marker" /\ state # "loose" => Logs(new.writer, more, F, "tight")
<1>1. PICK w : w = t2.writer
  OBVIOUS
<1>2. PICK nw : nw = new.writer
  OBVIOUS
<1>3. /\ nw.gen = w.gen /\ nw.file = w.file \o Encode(rec)
      /\ nw.next = (IF j.job = "marker" THEN w.next ELSE w.next + 1)
      /\ nw.durable = IF j.job = "marker" \/ w.sync THEN Len(nw.file) ELSE w.durable
  BY <1>1, <1>2 DEF PutOk
<1>4. w.next \in Nat \ {0}
  BY <1>1 DEF Tier2Ok, WriterOk
<1>5. rec = Record(w, j) /\ Logs(w, marks, F, state)
  BY <1>1
<1>6. Good(rec, w.gen) /\ RecordOk(rec)
  BY <1>4, <1>5, JobRecordGood, RecordOfJob
<1>7. CASE j.job # "marker"
  <2>1. rec.kind \in {"data", "meta"} /\ rec.seq = w.next
    BY <1>5, <1>7, RecordFields
  <2>2. nw.next = w.next + 1 /\ (nw.durable = w.durable \/ nw.durable = Len(nw.file))
    BY <1>3, <1>7
  <2>3. PICK after : after = "tight"
    OBVIOUS
  <2>4. Logs(nw, marks, ReplayRecord(F, rec), after)
    BY <1>3, <1>4, <1>5, <1>6, <2>1, <2>2, <2>3, LogsRecord
  <2>. QED
    BY <1>2, <1>7, <2>3, <2>4
<1>8. CASE j.job = "marker" /\ state # "loose"
  <2>1. rec.kind = "marker" /\ rec.commit = w.next - 1
    BY <1>5, <1>8, RecordFields
  <2>2. nw.next = w.next /\ nw.durable = Len(nw.file)
    BY <1>3, <1>8
  <2>3. Logs(nw, more, F, "tight")
    BY <1>3, <1>4, <1>5, <1>6, <1>8, <2>1, <2>2, LogsMarker
  <2>. QED
    BY <1>2, <1>8, <2>3
<1>. QED
  BY <1>7, <1>8

\* A page that is replayed over a shorter one.
LEMMA ReplayData ==
  ASSUME NEW F, F \in [Names -> Parts], NEW rec, rec.kind = "data", NEW n \in Names, rec.name = n,
         NEW c, rec.data = c, c \in Parts, Len(F[n]) <= Len(c)
  PROVE  ReplayRecord(F, rec) = [F EXCEPT ![n] = c]
<1>1. PICK old : old = F[n]
  OBVIOUS
<1>2. old \in Parts
  BY <1>1
<1>3. Len(old) \in Nat /\ Len(c) \in Nat
  BY <1>2, PartFields, VmdirtyAssumption
<1>4. Longer(Len(old), Len(c)) = Len(c)
  BY <1>1, <1>3 DEF Longer
<1>5. Clamp(Padded(c), Len(c)) = c
  BY ClampPadded
<1>6. Clamp(Padded(c), Longer(Len(old), Len(c))) = c
  BY <1>4, <1>5
<1>. QED
  BY <1>1, <1>6 DEF ReplayRecord

\* A size that is replayed over zeroes, or the size 0.
LEMMA ReplaySize ==
  ASSUME NEW F, F \in [Names -> Parts], NEW rec, rec.kind = "meta", NEW n \in Names, rec.name = n,
         NEW k \in Nat, rec.size = k, k = 0 \/ \A i \in 1..Len(F[n]) : F[n][i] = 0
  PROVE  ReplayRecord(F, rec) = [F EXCEPT ![n] = Zeroes(k)]
<1>1. PICK old : old = F[n]
  OBVIOUS
<1>2. PICK new : new = [i \in 1..k |-> IF i <= Len(old) THEN old[i] ELSE 0]
  OBVIOUS
<1>3. Len(old) \in Nat
  <2>1. old \in Parts
    BY <1>1
  <2>. QED
    BY <2>1, PartFields, VmdirtyAssumption
<1>4. \A i \in 1..k : (IF i <= Len(old) THEN old[i] ELSE 0) = 0
  BY <1>1, <1>3
<1>5. new = Zeroes(k)
  BY <1>2, <1>4 DEF Zeroes
<1>6. ReplayRecord(F, rec) = [F EXCEPT ![n] = new]
  BY <1>1, <1>2 DEF ReplayRecord
<1>. QED
  BY <1>5, <1>6

\* A journal without records shows that nothing was written.
LEMMA LogsNew ==
  ASSUME NEW gen \in Nat \ {0}, NEW sync \in BOOLEAN, NEW w, w = NewWriter(gen, sync)
  PROVE  Logs(w, {NothingWritten}, NothingWritten, "tight")
<1>1. PICK at : Journal(w.file, w.gen, <<>>, at) /\ at[0] = w.durable
  BY EmptyJournal
<1>2. PICK none : none = <<>>
  OBVIOUS
<1>3. IsSeq(none) /\ Len(none) = 0
  BY <1>2 DEF IsSeq
<1>4. Plain(none) = {} /\ \A i \in 1..Len(none) : FALSE
  BY <1>3 DEF Plain
<1>5. Numbers(w.next, none)
  BY <1>3, <1>4 DEF Numbers
<1>6. Committed(none) = {}
  BY <1>3, <1>4, CommittedAre
<1>7. Shown(none) = NothingWritten /\ Full(none) = NothingWritten
  BY <1>3, <1>4, <1>6, ReplayNothing DEF Shown, Full
<1>8. SubSeq(none, 1, 0) = none
  <2>1. PICK s : s = SubSeq(none, 1, 0)
    OBVIOUS
  <2>2. 0 \in 0..Len(none)
    BY <1>3
  <2>3. IsSeq(s) /\ Len(s) = 0
    BY <1>3, <2>1, <2>2, Prefix
  <2>4. s = none
    BY <1>3, <2>3 DEF IsSeq
  <2>. QED
    BY <2>1, <2>4
<1>9. Shows(w, {NothingWritten}, none, at, 0)
  <2>1. Journal(w.file, w.gen, none, at)
    BY <1>1, <1>2
  <2>2. 0 \in 0..Len(none) /\ \A k \in 0..Len(none) : k = 0
    BY <1>3
  <2>3. \A k \in 0..Len(none) : Shown(SubSeq(none, 1, k)) \in {NothingWritten}
    BY <1>7, <1>8, <2>2
  <2>. QED
    BY <1>1, <1>5, <2>1, <2>2, <2>3 DEF Shows
<1>10. ~Loose(w.next, none)
  BY <1>4 DEF Loose
<1>. QED
  BY <1>7, <1>9, <1>10 DEF Logs

\* A size that is appended.
LEMMA LogsSize ==
  ASSUME NEW t2, Tier2Ok(t2), NEW j, JobOk(j), j.job = "resize", NEW new, PutOk(t2, j, new),
         NEW marks, NEW F, NEW state, Logs(t2.writer, marks, F, state),
         NEW n \in Names, j.name = n, NEW k \in Nat, j.size = k,
         k = 0 \/ \A i \in 1..Len(F[n]) : F[n][i] = 0
  PROVE  Logs(new.writer, marks, [F EXCEPT ![n] = Zeroes(k)], "tight")
<1>1. PICK w, rec : w = t2.writer /\ rec = Record(w, j)
  OBVIOUS
<1>2. rec.kind = "meta" /\ rec.name = n /\ rec.size = k
  BY <1>1, RecordFields
<1>3. F \in [Names -> Parts]
  BY LogsTyped
<1>4. ReplayRecord(F, rec) = [F EXCEPT ![n] = Zeroes(k)]
  BY <1>2, <1>3, ReplaySize
<1>5. rec = Record(t2.writer, j) /\ F \in {F}
  BY <1>1
<1>6. Logs(new.writer, marks, ReplayRecord(F, rec), "tight")
  <2>1. j.job # "marker"
    OBVIOUS
  <2>. QED
    BY <1>5, <2>1, LogsPut
<1>. QED
  BY <1>4, <1>6

\* A page that is appended.
LEMMA LogsData ==
  ASSUME NEW t2, Tier2Ok(t2), NEW j, JobOk(j), IsData(j), NEW new, PutOk(t2, j, new),
         NEW marks, NEW F, NEW state, Logs(t2.writer, marks, F, state),
         NEW n \in Names, j.name = n, NEW c, j.data = c, c \in Parts, Len(F[n]) <= Len(c)
  PROVE  Logs(new.writer, marks, [F EXCEPT ![n] = c], "tight")
<1>1. PICK w, rec : w = t2.writer /\ rec = Record(w, j)
  OBVIOUS
<1>2. rec.kind = "data" /\ rec.name = n /\ rec.data = c
  BY <1>1, RecordFields
<1>3. F \in [Names -> Parts]
  BY LogsTyped
<1>4. ReplayRecord(F, rec) = [F EXCEPT ![n] = c]
  BY <1>2, <1>3, ReplayData
<1>5. rec = Record(t2.writer, j) /\ F \in {F}
  BY <1>1
<1>6. Logs(new.writer, marks, ReplayRecord(F, rec), "tight")
  <2>1. j.job # "marker"
    BY DEF IsData
  <2>. QED
    BY <1>5, <2>1, LogsPut
<1>. QED
  BY <1>4, <1>6

\* A marker that is appended.
LEMMA LogsMark ==
  ASSUME NEW t2, Tier2Ok(t2), NEW j, JobOk(j), j.job = "marker", NEW new, PutOk(t2, j, new),
         NEW marks, NEW F, NEW state, Logs(t2.writer, marks, F, state), state # "loose"
  PROVE  Logs(new.writer, {F}, F, "tight")
<1>1. PICK rec : rec = Record(t2.writer, j)
  OBVIOUS
<1>2. PICK more : more = {F}
  OBVIOUS
<1>3. F \in more
  BY <1>2
<1>4. Logs(new.writer, more, F, "tight")
  BY <1>1, <1>3, LogsPut
<1>. QED
  BY <1>2, <1>4

\* The jobs of a list, one after the other.
Doing(t2, js, after) ==
  /\ after[0] = t2 /\ PutAll(t2, js) = after[Len(js)]
  /\ \A k \in 1..Len(js) :
       JobOk(js[k]) /\ Tier2Ok(after[k - 1]) /\ PutOk(after[k - 1], js[k], after[k])

\* Each finds a journal that is well formed.
LEMMA DoneInOrder ==
  ASSUME NEW t2, Tier2Ok(t2), NEW js, Len(js) \in Nat, \A i \in 1..Len(js) : JobOk(js[i])
  PROVE  \E after : Doing(t2, js, after)
<1>1. PICK after : PutSteps(t2, js, after)
  BY PutAllSteps
<1>2. /\ PutAll(t2, js) = after[Len(js)] /\ after[0] = t2
      /\ \A k \in 1..Len(js) : after[k] = Put(after[k - 1], js[k])
  BY <1>1 DEF PutSteps
<1>. DEFINE T == {k \in 0..Len(js) : Tier2Ok(after[k])}
<1>3. ASSUME NEW k \in 1..Len(js), Tier2Ok(after[k - 1])
      PROVE  PutOk(after[k - 1], js[k], after[k]) /\ Tier2Ok(after[k])
  <2>1. PICK t, j, new : t = after[k - 1] /\ j = js[k] /\ new = after[k]
    OBVIOUS
  <2>2. Tier2Ok(t) /\ JobOk(j) /\ new = Put(t, j)
    BY <1>2, <1>3, <2>1
  <2>3. PutOk(t, j, new)
    BY <2>2, PutFields
  <2>4. Tier2Ok(new)
    BY <2>3 DEF PutOk
  <2>. QED
    BY <2>1, <2>3, <2>4
<1>4. \A k \in 0..Len(js) : k \in T
  <2>1. 0 \in T
    BY <1>2
  <2>2. \A k \in 1..Len(js) : k - 1 \in T => k \in T
    BY <1>3
  <2>. HIDE DEF T
  <2>. QED
    BY <2>1, <2>2, CountUp
<1>5. ASSUME NEW k \in 1..Len(js) PROVE Tier2Ok(after[k - 1])
  <2>1. k - 1 \in 0..Len(js)
    OBVIOUS
  <2>. QED
    BY <1>4, <2>1
<1>6. Doing(t2, js, after)
  BY <1>2, <1>3, <1>5 DEF Doing
<1>. QED
  BY <1>6

\* What a new journal shows with the first sizes, and with the first pages.
SizesUpTo(names, contents, p) ==
  [x \in Names |-> IF \E i \in 1..p : names[i] = x THEN Zeroes(Len(contents[x])) ELSE <<>>]
PagesUpTo(pages, contents, p) ==
  [x \in Names |-> IF \E i \in 1..p : pages[i] = x THEN contents[x] ELSE Zeroes(Len(contents[x]))]

\* Its sizes.
LEMMA SizesLogged ==
  ASSUME NEW contents \in [Names -> Parts], NEW names, Len(names) \in Nat,
         \A i \in 1..Len(names) : names[i] \in Names,
         NEW t2, NEW js, NEW after, Doing(t2, js, after),
         Len(js) \in Nat, 2 * Len(names) <= Len(js),
         \A i \in 1..Len(names) : /\ js[2 * i - 1] = ResizeJob(names[i], 0)
                                  /\ js[2 * i] = ResizeJob(names[i], Len(contents[names[i]])),
         NEW marks, Logs(t2.writer, marks, NothingWritten, "tight")
  PROVE  Logs(after[2 * Len(names)].writer, marks, SizesUpTo(names, contents, Len(names)), "tight")
<1>. DEFINE l    == Len(names)
            S(p) == SizesUpTo(names, contents, p)
            P(p) == Logs(after[2 * p].writer, marks, S(p), "tight")
            T    == {p \in 0..l : P(p)}
<1>1. P(0)
  <2>1. S(0) = NothingWritten
    BY DEF SizesUpTo, NothingWritten
  <2>2. 2 * 0 = 0 /\ after[0] = t2
    BY DEF Doing
  <2>. QED
    BY <2>1, <2>2
<1>2. ASSUME NEW p \in 1..l, P(p - 1) PROVE P(p)
  <2>1. PICK x : x = names[p]
    OBVIOUS
  <2>2. PICK k : k = Len(contents[x])
    OBVIOUS
  <2>3. x \in Names /\ k \in Nat
    <3>1. x \in Names
      BY <2>1
    <3>2. contents[x] \in Parts
      BY <3>1
    <3>. QED
      BY <2>2, <3>1, <3>2, PartFields, VmdirtyAssumption
  <2>4. PICK a, b, c, j1, j2 :
          /\ a = after[2 * (p - 1)] /\ b = after[2 * p - 1] /\ c = after[2 * p]
          /\ j1 = js[2 * p - 1] /\ j2 = js[2 * p]
    OBVIOUS
  <2>5. /\ 2 * p - 1 \in 1..Len(js) /\ 2 * p \in 1..Len(js)
        /\ 2 * p - 1 - 1 = 2 * (p - 1)
    OBVIOUS
  <2>6. JobOk(j1) /\ Tier2Ok(a) /\ PutOk(a, j1, b)
    BY <2>4, <2>5 DEF Doing
  <2>7. JobOk(j2) /\ Tier2Ok(b) /\ PutOk(b, j2, c)
    BY <2>4, <2>5 DEF Doing
  <2>8. /\ j1.job = "resize" /\ j1.name = x /\ j1.size = 0
        /\ j2.job = "resize" /\ j2.name = x /\ j2.size = k
    <3>1. j1 = ResizeJob(x, 0) /\ j2 = ResizeJob(x, k)
      BY <2>1, <2>2, <2>4
    <3>. QED
      BY <3>1 DEF ResizeJob
  <2>9. PICK F : F = S(p - 1)
    OBVIOUS
  <2>10. Logs(a.writer, marks, F, "tight")
    BY <1>2, <2>4, <2>9
  <2>11. PICK G : G = [F EXCEPT ![x] = Zeroes(0)]
    OBVIOUS
  <2>12. Logs(b.writer, marks, G, "tight")
    <3>1. 0 \in Nat /\ \E z \in Nat : z = 0
      OBVIOUS
    <3>2. PICK z \in Nat : z = 0
      BY <3>1
    <3>3. Logs(b.writer, marks, [F EXCEPT ![x] = Zeroes(z)], "tight")
      BY <2>3, <2>6, <2>8, <2>10, <3>2, LogsSize
    <3>. QED
      BY <2>11, <3>2, <3>3
  <2>13. F \in [Names -> Parts] /\ G \in [Names -> Parts]
    BY <2>10, <2>12, LogsTyped
  <2>14. G[x] = Zeroes(0)
    BY <2>3, <2>11, <2>13
  <2>15. \A i \in 1..Len(G[x]) : G[x][i] = 0
    <3>1. Len(Zeroes(0)) = 0
      BY DEF Zeroes
    <3>. QED
      BY <2>14, <3>1
  <2>16. Logs(c.writer, marks, [G EXCEPT ![x] = Zeroes(k)], "tight")
    BY <2>3, <2>7, <2>8, <2>12, <2>15, LogsSize
  <2>17. [G EXCEPT ![x] = Zeroes(k)] = S(p)
    <3>1. [G EXCEPT ![x] = Zeroes(k)] = [y \in Names |-> IF y = x THEN Zeroes(k) ELSE F[y]]
      BY <2>11, <2>13
    <3>2. ASSUME NEW y \in Names
          PROVE  (IF y = x THEN Zeroes(k) ELSE F[y])
                   = (IF \E i \in 1..p : names[i] = y THEN Zeroes(Len(contents[y])) ELSE <<>>)
      <4>1. F[y] = IF \E i \in 1..(p - 1) : names[i] = y THEN Zeroes(Len(contents[y])) ELSE <<>>
        BY <2>9 DEF SizesUpTo
      <4>2. (\E i \in 1..p : names[i] = y) <=> (y = x \/ \E i \in 1..(p - 1) : names[i] = y)
        BY <2>1
      <4>. QED
        BY <2>2, <4>1, <4>2
    <3>. QED
      BY <3>1, <3>2 DEF SizesUpTo
  <2>. QED
    BY <2>4, <2>16, <2>17
<1>. HIDE DEF P
<1>3. \A p \in 0..l : p \in T
  <2>1. 0 \in T
    BY <1>1
  <2>2. \A p \in 1..l : p - 1 \in T => p \in T
    BY <1>2
  <2>. HIDE DEF T
  <2>. QED
    BY <2>1, <2>2, CountUp
<1>4. P(l)
  BY <1>3
<1>. QED
  BY <1>4 DEF P

\* Its pages.
LEMMA PagesLogged ==
  ASSUME NEW contents \in [Names -> Parts], NEW pages, Len(pages) \in Nat,
         \A i \in 1..Len(pages) : pages[i] \in Names,
         NEW t2, NEW js, NEW after, Doing(t2, js, after), NEW m \in Nat,
         Len(js) \in Nat, m + Len(pages) <= Len(js),
         \A i \in 1..Len(pages) : js[m + i] = DataJob("hit", pages[i], contents[pages[i]]),
         NEW marks, Logs(after[m].writer, marks, PagesUpTo(pages, contents, 0), "tight")
  PROVE  Logs(after[m + Len(pages)].writer, marks, PagesUpTo(pages, contents, Len(pages)), "tight")
<1>. DEFINE l    == Len(pages)
            S(p) == PagesUpTo(pages, contents, p)
            P(p) == Logs(after[m + p].writer, marks, S(p), "tight")
            T    == {p \in 0..l : P(p)}
<1>1. P(0)
  <2>1. m + 0 = m
    OBVIOUS
  <2>. QED
    BY <2>1
<1>2. ASSUME NEW p \in 1..l, P(p - 1) PROVE P(p)
  <2>1. PICK x : x = pages[p]
    OBVIOUS
  <2>2. PICK d : d = contents[x]
    OBVIOUS
  <2>3. x \in Names /\ d \in Parts
    BY <2>1, <2>2
  <2>4. PICK a, b, j : a = after[m + (p - 1)] /\ b = after[m + p] /\ j = js[m + p]
    OBVIOUS
  <2>5. m + p \in 1..Len(js) /\ m + p - 1 = m + (p - 1)
    OBVIOUS
  <2>6. JobOk(j) /\ Tier2Ok(a) /\ PutOk(a, j, b)
    BY <2>4, <2>5 DEF Doing
  <2>7. IsData(j) /\ j.name = x /\ j.data = d
    <3>1. j = DataJob("hit", x, d)
      BY <2>1, <2>2, <2>4
    <3>. QED
      BY <3>1 DEF DataJob, IsData
  <2>8. PICK F : F = S(p - 1)
    OBVIOUS
  <2>9. Logs(a.writer, marks, F, "tight")
    BY <1>2, <2>4, <2>8
  <2>10. F \in [Names -> Parts]
    BY <2>9, LogsTyped
  <2>11. \A y \in Names :
           F[y] = IF \E i \in 1..(p - 1) : pages[i] = y THEN contents[y] ELSE Zeroes(Len(contents[y]))
    BY <2>8 DEF PagesUpTo
  <2>12. Len(F[x]) <= Len(d)
    <3>1. Len(d) \in Nat
      BY <2>3, PartFields, VmdirtyAssumption
    <3>2. Len(Zeroes(Len(d))) = Len(d)
      BY <3>1 DEF Zeroes
    <3>3. F[x] = d \/ F[x] = Zeroes(Len(d))
      BY <2>2, <2>3, <2>11
    <3>4. Len(F[x]) = Len(d)
      BY <3>2, <3>3
    <3>. QED
      BY <3>1, <3>4
  <2>13. Logs(b.writer, marks, [F EXCEPT ![x] = d], "tight")
    BY <2>3, <2>6, <2>7, <2>9, <2>12, LogsData
  <2>14. [F EXCEPT ![x] = d] = S(p)
    <3>1. [F EXCEPT ![x] = d] = [y \in Names |-> IF y = x THEN d ELSE F[y]]
      BY <2>10
    <3>2. ASSUME NEW y \in Names
          PROVE  (IF y = x THEN d ELSE F[y])
                   = (IF \E i \in 1..p : pages[i] = y THEN contents[y] ELSE Zeroes(Len(contents[y])))
      <4>1. (\E i \in 1..p : pages[i] = y) <=> (y = x \/ \E i \in 1..(p - 1) : pages[i] = y)
        BY <2>1
      <4>. QED
        BY <2>2, <2>11, <4>1
    <3>. QED
      BY <3>1, <3>2 DEF PagesUpTo
  <2>. QED
    BY <2>4, <2>13, <2>14
<1>. HIDE DEF P
<1>3. \A p \in 0..l : p \in T
  <2>1. 0 \in T
    BY <1>1
  <2>2. \A p \in 1..l : p - 1 \in T => p \in T
    BY <1>2
  <2>. HIDE DEF T
  <2>. QED
    BY <2>1, <2>2, CountUp
<1>4. P(l)
  BY <1>3
<1>. QED
  BY <1>4 DEF P

\* The sizes are those of all entries that are not empty, the pages of all that
\* are not zeroes.
Covers(pages, rest, contents) ==
  \A x \in Names :
    /\ (\A i \in 1..Len(pages) : pages[i] # x) => contents[x] = Zeroes(Len(contents[x]))
    /\ contents[x] # <<>> => \/ \E i \in 1..Len(pages) : pages[i] = x
                           \/ \E i \in 1..Len(rest) : rest[i] = x

\* A new journal shows what it was made of, whatever a crash leaves of it.
LEMMA JournalLogged ==
  ASSUME NEW gen \in Nat \ {0}, NEW sync \in BOOLEAN, NEW contents \in [Names -> Parts],
         NEW pages, IsSeq(pages), \A i \in 1..Len(pages) : pages[i] \in Names,
         NEW rest, IsSeq(rest),
         NEW js, RewriteList(pages, contents, js), SizesFirst(pages, rest, contents, js),
         NEW t2, t2 = NewTier2(gen, sync), NEW new, new = PutAll(t2, js),
         Covers(pages, rest, contents)
  PROVE  Logs(new.writer, {contents}, contents, "tight")
<1>1. /\ IsSeq(js) /\ Len(js) \in Nat \ {0} /\ js[Len(js)] = MarkerJob
      /\ \A i \in 1..Len(js) : JobOk(js[i])
      /\ \A k \in 1..Len(pages) :
           js[Len(js) - 1 - Len(pages) + k] = DataJob("hit", pages[k], contents[pages[k]])
  BY DEF RewriteList
<1>2. PICK names :
        /\ Joined(pages, rest, names) /\ \A i \in 1..Len(names) : names[i] \in Names
        /\ Len(js) - 1 - Len(pages) = 2 * Len(names)
        /\ \A i \in 1..Len(names) :
             /\ js[2 * i - 1] = ResizeJob(names[i], 0)
             /\ js[2 * i] = ResizeJob(names[i], Len(contents[names[i]]))
  BY DEF SizesFirst
<1>3. PICK n, l, q : n = Len(js) /\ l = Len(names) /\ q = Len(pages)
  OBVIOUS
<1>4. /\ IsSeq(names) /\ l = q + Len(rest) /\ \A i \in 1..q : names[i] = pages[i]
      /\ \A i \in 1..Len(rest) : names[q + i] = rest[i]
  BY <1>2, <1>3 DEF Joined
<1>5. /\ n \in Nat \ {0} /\ l \in Nat /\ q \in Nat /\ Len(rest) \in Nat
      /\ n - 1 - q = 2 * l /\ 2 * l + q = n - 1 /\ 2 * l \in Nat
  <2>1. l \in Nat /\ q \in Nat /\ Len(rest) \in Nat
    BY <1>3, <1>4 DEF IsSeq
  <2>2. n \in Nat \ {0} /\ n - 1 - q = 2 * l
    BY <1>1, <1>2, <1>3
  <2>. QED
    BY <2>1, <2>2
<1>6. Tier2Ok(t2)
  BY NewTier2Ok
<1>7. PICK after : Doing(t2, js, after)
  BY <1>1, <1>6, DoneInOrder
<1>8. PICK marks : marks = {NothingWritten}
  OBVIOUS
<1>9. Logs(t2.writer, marks, NothingWritten, "tight")
  <2>1. PICK w : w = NewWriter(gen, sync)
    OBVIOUS
  <2>2. t2.writer = w
    BY <2>1 DEF NewTier2
  <2>3. Logs(w, {NothingWritten}, NothingWritten, "tight")
    BY <2>1, LogsNew
  <2>. QED
    BY <1>8, <2>2, <2>3
<1>10. Logs(after[2 * l].writer, marks, SizesUpTo(names, contents, l), "tight")
  <2>1. 2 * Len(names) <= Len(js) /\ Len(names) \in Nat /\ Len(js) \in Nat
    BY <1>3, <1>5
  <2>2. Logs(after[2 * Len(names)].writer, marks, SizesUpTo(names, contents, Len(names)), "tight")
    BY <1>2, <1>7, <1>9, <2>1, SizesLogged
  <2>. QED
    BY <1>3, <2>2
<1>11. SizesUpTo(names, contents, l) = PagesUpTo(pages, contents, 0)
  <2>1. ASSUME NEW x \in Names
        PROVE  (IF \E i \in 1..l : names[i] = x THEN Zeroes(Len(contents[x])) ELSE <<>>)
                 = Zeroes(Len(contents[x]))
    <3>1. CASE contents[x] = <<>>
      <4>1. Len(<<>>) = 0 /\ Zeroes(0) = <<>>
        BY DEF Zeroes
      <4>. QED
        BY <3>1, <4>1
    <3>2. CASE \E i \in 1..q : pages[i] = x
      <4>1. \E i \in 1..l : names[i] = x
        BY SMTT(40), <1>4, <1>5, <3>2
      <4>. QED
        BY <4>1
    <3>3. CASE \E i \in 1..Len(rest) : rest[i] = x
      <4>1. PICK i \in 1..Len(rest) : rest[i] = x
        BY <3>3
      <4>2. q + i \in 1..l /\ names[q + i] = x
        BY <1>4, <1>5, <4>1
      <4>. QED
        BY <4>2
    <3>. QED
      BY <1>3, <3>1, <3>2, <3>3 DEF Covers
  <2>2. SizesUpTo(names, contents, l) = [x \in Names |-> Zeroes(Len(contents[x]))]
    BY <2>1 DEF SizesUpTo
  <2>3. ~ \E i \in 1..0 : TRUE
    OBVIOUS
  <2>4. PagesUpTo(pages, contents, 0) = [x \in Names |-> Zeroes(Len(contents[x]))]
    BY <2>3 DEF PagesUpTo
  <2>. QED
    BY <2>2, <2>4
<1>12. Logs(after[2 * l + q].writer, marks, PagesUpTo(pages, contents, q), "tight")
  <2>1. PICK m : m = 2 * l
    OBVIOUS
  <2>2. /\ m \in Nat /\ Len(js) \in Nat /\ m + Len(pages) <= Len(js) /\ Len(pages) \in Nat
        /\ m = Len(js) - 1 - Len(pages)
    BY <1>3, <1>5, <2>1
  <2>3. \A i \in 1..Len(pages) : js[m + i] = DataJob("hit", pages[i], contents[pages[i]])
    BY <1>1, <2>2
  <2>4. Logs(after[m].writer, marks, PagesUpTo(pages, contents, 0), "tight")
    BY <1>10, <1>11, <2>1
  <2>5. Logs(after[m + Len(pages)].writer, marks, PagesUpTo(pages, contents, Len(pages)), "tight")
    BY <1>7, <2>2, <2>3, <2>4, PagesLogged
  <2>. QED
    BY <1>3, <2>1, <2>5
<1>13. PagesUpTo(pages, contents, q) = contents
  <2>1. \A x \in Names : (IF \E i \in 1..q : pages[i] = x THEN contents[x]
                          ELSE Zeroes(Len(contents[x]))) = contents[x]
    BY <1>3 DEF Covers
  <2>2. contents = [x \in Names |-> contents[x]]
    OBVIOUS
  <2>. QED
    BY <2>1, <2>2 DEF PagesUpTo
<1>14. PICK a, j : a = after[n - 1] /\ j = js[n]
  OBVIOUS
<1>15. new = after[n] /\ JobOk(j) /\ Tier2Ok(a) /\ PutOk(a, j, new)
  <2>1. n \in 1..Len(js)
    BY <1>3, <1>5
  <2>. QED
    BY <1>3, <1>7, <1>14, <2>1 DEF Doing
<1>16. Logs(a.writer, marks, contents, "tight")
  BY <1>5, <1>12, <1>13, <1>14
<1>17. j.job = "marker"
  BY <1>1, <1>3, <1>14 DEF MarkerJob
<1>. QED
  BY <1>15, <1>16, <1>17, LogsMark

-----------------------------------------------------------------------------
(* The journal and the entries. *)

\* Every append that may fail leaves no trace, or it is a copy or a marker and
\* leaves its whole record.
LosesNothing ==
  MayFail \subseteq {<<"copy", "nothing">>, <<"copy", "unsynced">>, <<"hit", "nothing">>,
                     <<"marker", "nothing">>, <<"marker", "unsynced">>}

Dropped(n) == \E i \in 1..Len(jobs) : jobs[i].job = "resize" /\ jobs[i].name = n
Copied(n)  == \E i \in 1..Len(jobs) : jobs[i].job = "copy" /\ jobs[i].name = n

\* A journal has a record whose number was not used up only while a page is
\* resident, of which a flush makes a copy before its marker.
LooseFit(state) ==
  state = "loose" =>
    IF jobs = <<>> THEN order # <<>>
    ELSE Job.job \in {"spill", "resize"} \/ (Job.job # "marker" /\ order # <<>>)

\* What all records make of an entry: what it holds, but for a page in Tier 1,
\* one on its way to Tier 2 and a truncation that is not recorded yet.
EntryFit(F, n) ==
  /\ n \notin dirty => content[n] = <<>>
  /\ ~Dropped(n) => Len(F[n]) <= Len(content[n])
  /\ tier1[n] = NoPage /\ ~Pending(n) /\ ~Dropped(n) => F[n] = content[n]
  /\ call \in {"flush", "compact"} /\ ~Copied(n) => F[n] = content[n]
  /\ Dropped(n) => content[n] = <<>> /\ tier1[n] = NoPage

LoggedInv ==
  \E F, state : /\ Logs(journal.writer, marked, F, state) /\ LooseFit(state)
                /\ \A n \in Names : EntryFit(F, n)

AppendsInv ==
  \A i \in 1..Len(jobs) :
    /\ jobs[i].job = "copy" => jobs[i].data = content[jobs[i].name]
    /\ jobs[i].job = "hit" => Len(content[jobs[i].name]) <= Len(jobs[i].data)
    /\ jobs[i].job = "resize" => jobs[i].size = 0 /\ Len(jobs) = 1

LogInv == LoggedInv /\ AppendsInv

\* Then no write is short, and no spill fails.
LEMMA NothingLost == LosesNothing => ~ShortWrites /\ SpillsSucceed
BY DEF LosesNothing, ShortWrites, SpillsSucceed

\* With no append to come no page is on its way.
LEMMA NoneToCome ==
  ASSUME jobs = <<>>, NEW n PROVE ~Pending(n) /\ ~Dropped(n) /\ ~Copied(n)
<1>1. Len(<<>>) = 0
  OBVIOUS
<1>. QED
  BY <1>1 DEF Pending, Dropped, Copied

\* Between calls.
LEMMA IdleFit ==
  ASSUME jobs = <<>>, NEW F, NEW n, EntryFit(F, n)
  PROVE  /\ n \notin dirty => content[n] = <<>>
         /\ Len(F[n]) <= Len(content[n]) /\ (tier1[n] = NoPage => F[n] = content[n])
BY NoneToCome DEF EntryFit

\* In the beginning nothing is written.
LEMMA InitLogged == Init => LogInv
<1>. SUFFICES ASSUME Init PROVE LogInv
  OBVIOUS
<1>1. /\ jobs = <<>> /\ call = "none" /\ content = NothingWritten /\ marked = {NothingWritten}
      /\ \E sync \in BOOLEAN : journal = NewTier2(1, sync)
  BY DEF Init
<1>2. PICK sync \in BOOLEAN : journal = NewTier2(1, sync)
  BY <1>1
<1>3. PICK F : F = NothingWritten
  OBVIOUS
<1>4. Logs(journal.writer, marked, F, "tight")
  <2>1. PICK gen \in Nat \ {0} : gen = 1
    OBVIOUS
  <2>2. PICK w : w = NewWriter(gen, sync)
    OBVIOUS
  <2>3. Logs(w, {NothingWritten}, NothingWritten, "tight")
    BY <2>2, LogsNew
  <2>4. journal.writer = w
    BY <1>2, <2>1, <2>2 DEF NewTier2
  <2>. QED
    BY <1>1, <1>3, <2>3, <2>4
<1>5. ASSUME NEW n \in Names PROVE EntryFit(F, n)
  <2>1. content[n] = <<>> /\ F[n] = <<>> /\ Len(<<>>) = 0
    BY <1>1, <1>3 DEF NothingWritten
  <2>2. ~Dropped(n)
    BY <1>1, NoneToCome
  <2>. QED
    BY <2>1, <2>2 DEF EntryFit
<1>6. LooseFit("tight")
  BY DEF LooseFit
<1>7. AppendsInv
  <2>1. Len(<<>>) = 0
    OBVIOUS
  <2>. QED
    BY <1>1, <2>1 DEF AppendsInv
<1>. QED
  BY <1>4, <1>5, <1>6, <1>7 DEF LogInv, LoggedInv

\* A new journal, of entries that are dirty.
LEMMA RenewedLogged ==
  ASSUME Tier2Ok(journal), NEW pages, NEW rest, NEW contents, Renewed(pages, rest, contents),
         \A n \in Names : (\A k \in 1..Len(pages) : pages[k] # n) =>
                            contents[n] = Zeroes(Len(contents[n])),
         InLists(dirty', pages, rest), \A n \in Names \ dirty' : contents[n] = <<>>
  PROVE  LogInv'
<1>1. PICK gen \in Nat \ {0}, sync \in BOOLEAN :
        gen = journal.writer.gen + 1 /\ sync = journal.writer.sync
  BY DEF Tier2Ok, WriterOk
<1>2. PICK t2, js, new :
        /\ t2 = NewTier2(gen, sync) /\ js = RewriteJobs(pages, rest, contents)
        /\ new = PutAll(t2, js)
  OBVIOUS
<1>3. /\ journal' = PutAll(t2, js) /\ content' = contents /\ marked' = {contents}
      /\ jobs' = <<>> /\ call' = "none"
  BY <1>1, <1>2, Zenon DEF Renewed, Rewritten
<1>4. /\ IsSeq(pages) /\ \A i \in 1..Len(pages) : pages[i] \in Names
      /\ IsSeq(rest) /\ \A i \in 1..Len(rest) : rest[i] \in Names
      /\ contents \in [Names -> Parts]
  BY DEF Renewed, Distinct
<1>5. RewriteList(pages, contents, js) /\ SizesFirst(pages, rest, contents, js)
  BY <1>2, <1>4, RewriteJobsOk
<1>6. Covers(pages, rest, contents)
  BY DEF Covers, InLists
<1>7. Logs(new.writer, {contents}, contents, "tight")
  <2>1. IsSeq(pages) /\ \A i \in 1..Len(pages) : pages[i] \in Names
    BY <1>4
  <2>2. IsSeq(rest) /\ contents \in [Names -> Parts]
    BY <1>4
  <2>3. t2 = NewTier2(gen, sync) /\ new = PutAll(t2, js)
    BY <1>2
  <2>. QED
    BY <1>5, <1>6, <2>1, <2>2, <2>3, JournalLogged
<1>8. new.writer = journal'.writer
  BY <1>2, <1>3
<1>9. Logs(journal'.writer, marked', contents, "tight")
  BY <1>3, <1>7, <1>8
<1>10. Len(<<>>) = 0
  OBVIOUS
<1>11. ASSUME NEW n \in Names PROVE EntryFit(contents, n)'
  <2>1. ~Dropped(n)'
    BY <1>3, <1>10 DEF Dropped
  <2>2. content'[n] = contents[n] /\ (n \notin dirty' => contents[n] = <<>>)
    BY <1>3
  <2>3. Len(contents[n]) <= Len(contents[n])
    <3>1. contents[n] \in Parts
      BY <1>4
    <3>2. Len(contents[n]) \in Nat
      BY <3>1, PartFields, VmdirtyAssumption
    <3>. QED
      BY <3>2
  <2>. QED
    BY <2>1, <2>2, <2>3 DEF EntryFit
<1>12. LooseFit("tight")'
  BY DEF LooseFit
<1>13. AppendsInv'
  BY <1>3, <1>10 DEF AppendsInv
<1>. QED
  BY <1>9, <1>11, <1>12, <1>13 DEF LogInv, LoggedInv

\* A compaction.
LEMMA CompactSwapLogged ==
  ASSUME ~ShortWrites, TypeInv, StoredInv, LogInv, CompactSwap PROVE LogInv'
<1>1. PICK pages, rest : CompactOk(pages, rest) /\ Renewed(pages, rest, [n \in Names |-> Read(n)])
  BY CompactRenews
<1>2. /\ UNCHANGED <<diff, calls>> /\ call = "compact" /\ Len(jobs) = 1
  BY DEF CompactSwap
<1>3. Tier1Inv /\ Tier2Ok(journal) /\ HistoryInv /\ JobsFit
  BY DEF TypeInv
<1>4. Renewed(pages, rest, content)
  BY <1>1, <1>2, SwapReads
<1>5. \A n \in Names : (\A k \in 1..Len(pages) : pages[k] # n) =>
        content[n] = Zeroes(Len(content[n]))
  BY <1>1, <1>2, SwapZeroes
<1>6. dirty' = dirty
  BY <1>2 DEF diff
<1>7. InLists(dirty', pages, rest)
  BY <1>1, <1>6 DEF CompactOk
<1>8. \A n \in Names \ dirty' : content[n] = <<>>
  BY <1>6 DEF LogInv, LoggedInv, EntryFit
<1>. QED
  BY <1>3, <1>4, <1>5, <1>7, <1>8, RenewedLogged

\* A crash and the open behind it.
LEMMA CrashLogged ==
  ASSUME ~ShortWrites, TypeInv, CrashAndRecover PROVE LogInv'
<1>1. PICK recs, chosen, contents, names, paged, fifo, rest :
        CrashFits(recs, chosen, contents, names, paged, fifo, rest)
  BY CrashRenews
<1>2. /\ names = {recs[i].name : i \in chosen} /\ contents = Replay(recs, chosen)
      /\ dirty' = names
  BY <1>1 DEF CrashFits, CrashStep
<1>3. /\ contents \in [Names -> Parts] /\ Renewed(fifo, rest, contents)
      /\ Chosen(recs, chosen) /\ \A i \in chosen : RecordOk(recs[i])
      /\ InLists(names, fifo, rest)
  BY <1>1 DEF CrashFits, Renewed
<1>4. Tier2Ok(journal)
  BY DEF TypeInv
<1>5. \A n \in Names : (\A k \in 1..Len(fifo) : fifo[k] # n) =>
        contents[n] = Zeroes(Len(contents[n]))
  BY <1>1, RecoveredZeroes
<1>6. ASSUME NEW n \in Names \ dirty' PROVE contents[n] = <<>>
  <2>1. \A i \in chosen : recs[i].name # n
    BY <1>2, <1>6
  <2>. QED
    BY <1>2, <1>3, <1>6, <2>1, ReplayUnnamed
<1>7. InLists(dirty', fifo, rest)
  BY <1>2, <1>3
<1>. QED
  BY <1>3, <1>4, <1>5, <1>6, <1>7, RenewedLogged

\* A truncate.
LEMMA TruncateLogged ==
  ASSUME TypeInv, StoredInv, LogInv, NEW n \in Names, Truncate(n) PROVE LogInv'
<1>1. /\ dirty' = dirty \cup {n} /\ tier1' = [tier1 EXCEPT ![n] = NoPage]
      /\ journal' = [journal EXCEPT !.index[n] = NoLoc] /\ marked' = marked
      /\ jobs' = <<ResizeJob(n, 0)>> /\ call' = "truncate" /\ jobs = <<>>
      /\ content' = [content EXCEPT ![n] = <<>>]
  <2>1. Len(<<>>) = 0 /\ Len(<<ResizeJob(n, 0)>>) = 1
    OBVIOUS
  <2>2. <<ResizeJob(n, 0)>> # <<>>
    BY <2>1
  <2>. QED
    BY <2>2 DEF Truncate, Begin, Idle, TypeInv, JobsInv
<1>2. Tier1Inv /\ Tier2Ok(journal) /\ HistoryInv
  BY DEF TypeInv
<1>3. /\ content \in [Names -> Parts]
      /\ tier1 \in [Names -> [1..PageSize -> Byte] \cup {NoPage}]
  BY <1>2 DEF HistoryInv, Tier1Inv
<1>4. journal'.writer = journal.writer
  BY <1>1, <1>2 DEF Tier2Ok
<1>5. /\ content'[n] = <<>> /\ tier1'[n] = NoPage
      /\ \A m \in Names \ {n} : content'[m] = content[m] /\ tier1'[m] = tier1[m]
  BY <1>1, <1>3
<1>6. PICK F, state : /\ Logs(journal.writer, marked, F, state)
                      /\ \A m \in Names : EntryFit(F, m)
  BY DEF LogInv, LoggedInv
<1>7. PICK j : j = ResizeJob(n, 0)
  OBVIOUS
<1>8. jobs' = <<j>> /\ Len(<<j>>) = 1 /\ <<j>>[1] = j
  BY <1>1, <1>7
<1>9. j.job = "resize" /\ j.name = n /\ j.size = 0
  BY <1>7 DEF ResizeJob
<1>10. \A i \in 1..Len(<<j>>) : <<j>>[i] = j
  BY <1>8
<1>11. ASSUME NEW m \in Names PROVE EntryFit(F, m)'
  <2>1. CASE m = n
    <3>1. Dropped(n)'
      BY <1>8, <1>9 DEF Dropped
    <3>. QED
      BY <1>1, <1>5, <2>1, <3>1 DEF EntryFit
  <2>2. CASE m # n
    <3>1. /\ m \notin dirty => content[m] = <<>>
          /\ Len(F[m]) <= Len(content[m]) /\ (tier1[m] = NoPage => F[m] = content[m])
      BY <1>1, <1>6, IdleFit
    <3>2. ~Dropped(m)'
      BY <1>8, <1>9, <1>10, <2>2 DEF Dropped
    <3>. QED
      BY <1>1, <1>5, <2>2, <3>1, <3>2 DEF EntryFit
  <2>. QED
    BY <2>1, <2>2
<1>12. LooseFit(state)'
  <2>1. <<j>> # <<>>
    BY <1>8
  <2>2. Job' = j
    BY <1>8 DEF Job
  <2>. QED
    BY <1>8, <1>9, <2>1, <2>2 DEF LooseFit
<1>13. AppendsInv'
  BY <1>8, <1>9, <1>10 DEF AppendsInv
<1>. QED
  BY <1>1, <1>4, <1>6, <1>11, <1>12, <1>13 DEF LogInv, LoggedInv

\* A write to a page that only Tier 2 has.
LEMMA WriteTier2Logged ==
  ASSUME TypeInv, StoredInv, LogInv, NEW n \in Names, NEW d \in Writes, WriteTier2(n, d)
  PROVE  LogInv'
<1>1. PICK p : p = Tier2Page(n)
  OBVIOUS
<1>2. PICK c : c = Clamp(Applied(p, d), Longer(size[n], Len(d)))
  OBVIOUS
<1>3. /\ jobs' = <<DataJob("hit", n, c)>> /\ call' = "write" /\ UNCHANGED <<diff, journal, history>>
      /\ jobs = <<>>
  <2>1. Len(<<>>) = 0 /\ Len(<<DataJob("hit", n, c)>>) = 1
    OBVIOUS
  <2>2. <<DataJob("hit", n, c)>> # <<>>
    BY <2>1
  <2>. QED
    BY <1>1, <1>2, <2>2 DEF WriteTier2, Begin, Idle, TypeInv, JobsInv
<1>4. Tier1Inv /\ Tier2Ok(journal) /\ HistoryInv
  BY DEF TypeInv
<1>5. PICK j : j = DataJob("hit", n, c)
  OBVIOUS
<1>6. j.job = "hit" /\ j.name = n /\ j.data = c
  BY <1>5 DEF DataJob
<1>7. jobs' = <<j>> /\ Len(<<j>>) = 1 /\ <<j>>[1] = j
  BY <1>3, <1>5
<1>8. \A i \in 1..Len(<<j>>) : <<j>>[i] = j
  BY <1>7
<1>9. /\ content' = content /\ tier1' = tier1 /\ dirty' = dirty /\ order' = order
      /\ journal' = journal /\ marked' = marked
  BY <1>3 DEF diff, history
<1>10. Len(content[n]) <= Len(c)
  <2>1. size[n] = Len(content[n])
    BY DEF StoredInv, PagesInv
  <2>2. PICK a : a = Applied(p, d)
    OBVIOUS
  <2>3. a \in [1..PageSize -> Byte]
    BY <1>1, <1>4, <2>2, Tier2PageOk, AppliedIsPage
  <2>4. a \in Parts /\ Len(a) = PageSize
    BY <2>3, PageIsPart
  <2>5. size[n] \in 0..PageSize /\ size[n] \in Nat /\ Len(d) \in 1..PageSize
    BY <1>4, ResidentPage, WritesAreParts
  <2>6. PICK k : k = Longer(size[n], Len(d))
    OBVIOUS
  <2>7. k \in Nat /\ k <= PageSize /\ size[n] <= k
    BY <2>5, <2>6, VmdirtyAssumption DEF Longer
  <2>8. Len(Clamp(a, k)) = IF k < Len(a) THEN k ELSE Len(a)
    BY <2>4, <2>7, ClampFields
  <2>9. Len(c) = k
    BY <1>2, <2>2, <2>4, <2>6, <2>7, <2>8, VmdirtyAssumption
  <2>. QED
    BY <2>1, <2>7, <2>9
<1>11. PICK F, state : /\ Logs(journal.writer, marked, F, state) /\ LooseFit(state)
                       /\ \A m \in Names : EntryFit(F, m)
  BY DEF LogInv, LoggedInv
<1>12. ASSUME NEW m \in Names PROVE EntryFit(F, m)'
  <2>1. /\ m \notin dirty => content[m] = <<>>
        /\ Len(F[m]) <= Len(content[m]) /\ (tier1[m] = NoPage => F[m] = content[m])
    BY <1>3, <1>11, IdleFit
  <2>2. ~Dropped(m)'
    BY <1>6, <1>7, <1>8 DEF Dropped
  <2>. QED
    BY <1>3, <1>9, <2>1, <2>2 DEF EntryFit
<1>13. LooseFit(state)'
  <2>1. <<j>> # <<>>
    BY <1>7
  <2>2. Job' = j
    BY <1>7 DEF Job
  <2>. QED
    BY <1>3, <1>6, <1>7, <1>9, <1>11, <2>1, <2>2 DEF LooseFit
<1>14. AppendsInv'
  BY <1>6, <1>7, <1>8, <1>9, <1>10 DEF AppendsInv
<1>. QED
  BY <1>9, <1>11, <1>12, <1>13, <1>14 DEF LogInv, LoggedInv

\* A flush or a compaction begins.
LEMMA FlushLogged ==
  ASSUME TypeInv, StoredInv, LogInv, Flush \/ CompactJournal PROVE LogInv'
<1>1. /\ jobs' = Append(CopyJobs, MarkerJob) /\ jobs = <<>>
      /\ UNCHANGED <<diff, journal, history>>
  BY DEF Flush, CompactJournal, Begin, Idle, TypeInv, JobsInv
<1>2. Tier1Inv
  BY DEF TypeInv
<1>3. PICK js : js = Append(CopyJobs, MarkerJob)
  OBVIOUS
<1>4. /\ IsSeq(CopyJobs) /\ Len(CopyJobs) = Len(order) /\ Len(js) = Len(CopyJobs) + 1
      /\ js[Len(CopyJobs) + 1] = MarkerJob
  BY <1>2, <1>3, CopyJobsOk
<1>5. /\ IsSeq(order) /\ \A i \in 1..Len(order) : order[i] \in Names /\ tier1[order[i]] # NoPage
      /\ \A n \in Names : tier1[n] # NoPage => \E i \in 1..Len(order) : order[i] = n
  BY <1>2 DEF Tier1Inv, Fifo
<1>6. Len(order) \in Nat /\ DOMAIN order = 1..Len(order)
  BY <1>5 DEF IsSeq
<1>7. ASSUME NEW i \in 1..Len(order)
      PROVE  /\ i \in 1..Len(js) /\ js[i].job = "copy" /\ js[i].name = order[i]
             /\ js[i].data = content[order[i]]
  <2>1. i \in 1..Len(CopyJobs) /\ i \in 1..Len(js)
    BY <1>4, <1>6
  <2>2. js[i] = CopyJobs[i]
    BY <1>3, <1>4, <2>1, AppendSeq
  <2>3. PICK c : c = Clamp(tier1[order[i]], size[order[i]])
    OBVIOUS
  <2>4. js[i] = DataJob("copy", order[i], c)
    BY <1>6, <2>2, <2>3 DEF CopyJobs
  <2>5. content[order[i]] = c
    BY <1>5, <2>3 DEF StoredInv, PagesInv
  <2>. QED
    BY <2>1, <2>4, <2>5 DEF DataJob
<1>8. ASSUME NEW i \in 1..Len(js), i \notin 1..Len(order) PROVE js[i].job = "marker"
  <2>1. i = Len(CopyJobs) + 1
    BY <1>4, <1>6, <1>8
  <2>. QED
    BY <1>4, <2>1 DEF MarkerJob
<1>9. /\ content' = content /\ tier1' = tier1 /\ dirty' = dirty /\ order' = order
      /\ journal' = journal /\ marked' = marked /\ jobs' = js
  BY <1>1, <1>3 DEF diff, history
<1>10. PICK F, state : /\ Logs(journal.writer, marked, F, state) /\ LooseFit(state)
                       /\ \A n \in Names : EntryFit(F, n)
  BY DEF LogInv, LoggedInv
<1>11. ASSUME NEW n \in Names PROVE EntryFit(F, n)'
  <2>1. /\ n \notin dirty => content[n] = <<>>
        /\ Len(F[n]) <= Len(content[n]) /\ (tier1[n] = NoPage => F[n] = content[n])
    BY <1>1, <1>10, IdleFit
  <2>2. ~Dropped(n)'
    BY <1>7, <1>8, <1>9 DEF Dropped
  <2>3. ASSUME ~Copied(n)' PROVE F[n] = content[n]
    <3>1. tier1[n] = NoPage
      BY <1>5, <1>7, <1>9, <2>3 DEF Copied
    <3>. QED
      BY <2>1, <3>1
  <2>. QED
    BY <1>9, <2>1, <2>2, <2>3 DEF EntryFit
<1>12. LooseFit(state)'
  <2>1. SUFFICES ASSUME state = "loose" PROVE js # <<>> /\ Job'.job # "marker" /\ order # <<>>
    BY <1>9 DEF LooseFit
  <2>2. order # <<>>
    BY <1>1, <1>10, <2>1 DEF LooseFit
  <2>3. 1 \in 1..Len(order)
    BY <1>5, <2>2, TailSeq
  <2>4. js[1].job = "copy" /\ 1 \in 1..Len(js)
    BY <1>7, <2>3
  <2>5. Len(<<>>) = 0
    OBVIOUS
  <2>6. js # <<>>
    BY <2>4, <2>5
  <2>. QED
    BY <1>9, <2>2, <2>4, <2>6 DEF Job
<1>13. AppendsInv'
  BY <1>7, <1>8, <1>9 DEF AppendsInv
<1>. QED
  BY <1>9, <1>10, <1>11, <1>12, <1>13 DEF LogInv, LoggedInv

\* A write to a page in Tier 1, or in neither tier.
LEMMA WriteTier1Logged ==
  ASSUME TypeInv, StoredInv, LogInv, NEW n \in Names, NEW d \in Writes, WriteTier1(n, d)
  PROVE  LogInv'
<1>. DEFINE new   == n \notin Resident
            held  == IF new THEN Append(order, n) ELSE order
            bytes == IF new THEN dirtyBytes + PageSize ELSE dirtyBytes
            out   == Victims(held, bytes)
            buf   == Applied(IF new THEN Padded(<<>>) ELSE tier1[n], d)
            pages == [tier1 EXCEPT ![n] = buf]
            sizes == [size EXCEPT ![n] = Longer(@, Len(d))]
            job(i) == DataJob("spill", out[i], Clamp(pages[out[i]], sizes[out[i]]))
            js    == [i \in DOMAIN out |-> job(i)]
<1>1. /\ Idle /\ dirty' = dirty \cup {n} /\ size' = sizes
      /\ tier1' = [m \in Names |-> IF m \in ToSet(out) THEN NoPage ELSE pages[m]]
      /\ Begin("write", js)
      /\ content' = [content EXCEPT ![n] = Clamp(buf, sizes[n])]
      /\ journal' = journal /\ marked' = marked
  BY DEF WriteTier1
<1>2. Tier1Inv /\ JobsInv /\ HistoryInv
  BY DEF TypeInv
<1>3. jobs = <<>> /\ jobs' = js /\ call' \in {"none", "write"}
  BY <1>1, <1>2 DEF Idle, JobsInv, Begin
<1>. HIDE DEF out, job, js, sizes, buf, held, bytes, pages
<1>4. TypeInv' /\ StoredInv'
  BY WriteTier1Stored, WriteTier1Type
<1>5. JobsInv' /\ Tier1Inv'
  BY <1>4 DEF TypeInv
<1>6. size[n] \in Nat /\ (~new => tier1[n] \in [1..PageSize -> Byte])
  BY <1>2, ResidentPage
<1>7. buf # NoPage
  <2>1. Padded(<<>>) \in [1..PageSize -> Byte]
    BY EmptyPart, PaddedIsPage
  <2>2. buf \in [1..PageSize -> Byte]
    BY <1>6, <2>1, AppliedIsPage DEF buf
  <2>. QED
    BY <2>2, PageIsPart
<1>. HIDE DEF new
<1>8. pages[n] = buf /\ \A m \in Names \ {n} : pages[m] = tier1[m]
  BY <1>2 DEF pages, Tier1Inv
<1>9. \A m \in Names \ {n} : content'[m] = content[m]
  BY <1>1, <1>2 DEF HistoryInv
<1>10. DOMAIN js = 1..Len(js) /\ DOMAIN js = DOMAIN out /\ IsSeq(js)
  <2>1. IsSeq(js)
    BY <1>3, <1>5 DEF JobsInv
  <2>2. DOMAIN js = 1..Len(js)
    BY <2>1 DEF IsSeq
  <2>. QED
    BY <2>1, <2>2 DEF js
<1>11. ASSUME NEW i \in 1..Len(js) PROVE js[i].job = "spill" /\ js[i].name = out[i]
  <2>1. js[i] = job(i)
    BY <1>10 DEF js
  <2>. QED
    BY <2>1 DEF job, DataJob
<1>12. ASSUME NEW m \in ToSet(out) PROVE Pending(m)'
  <2>1. PICK i \in DOMAIN out : out[i] = m
    BY DEF ToSet
  <2>2. i \in 1..Len(js)
    BY <1>10
  <2>. QED
    BY <1>3, <1>11, <2>1, <2>2 DEF Pending
<1>13. \A m \in Names : tier1'[m] = IF m \in ToSet(out) THEN NoPage ELSE pages[m]
  BY <1>1
<1>14. Len(content[n]) <= Len(content'[n])
  <2>1. size[n] = Len(content[n]) /\ size'[n] = Len(content'[n])
    BY <1>4 DEF StoredInv, PagesInv
  <2>2. size'[n] = Longer(size[n], Len(d))
    BY <1>1, <1>2 DEF sizes, Tier1Inv
  <2>3. Len(d) \in Nat
    BY WritesAreParts, VmdirtyAssumption
  <2>4. size[n] <= Longer(size[n], Len(d))
    BY <1>6, <2>3 DEF Longer
  <2>. QED
    BY <2>1, <2>2, <2>4
<1>15. PICK F, state : /\ Logs(journal.writer, marked, F, state)
                       /\ \A m \in Names : EntryFit(F, m)
  BY DEF LogInv, LoggedInv
<1>16. F \in [Names -> Parts] /\ content \in [Names -> Parts] /\ content' \in [Names -> Parts]
  BY <1>2, <1>4, <1>15, LogsTyped DEF TypeInv, HistoryInv
<1>17. ASSUME NEW m \in Names PROVE EntryFit(F, m)'
  <2>1. /\ m \notin dirty => content[m] = <<>>
        /\ Len(F[m]) <= Len(content[m]) /\ (tier1[m] = NoPage => F[m] = content[m])
    BY <1>3, <1>15, IdleFit
  <2>2. ~Dropped(m)'
    BY <1>3, <1>11 DEF Dropped
  <2>3. Len(F[m]) <= Len(content'[m])
    <3>1. CASE m = n
      <4>1. F[n] \in Parts /\ content[n] \in Parts /\ content'[n] \in Parts
        BY <1>16
      <4>2. Len(F[n]) \in Nat /\ Len(content[n]) \in Nat /\ Len(content'[n]) \in Nat
        BY <4>1, PartFields, VmdirtyAssumption
      <4>. QED
        BY <1>14, <2>1, <3>1, <4>2
    <3>2. CASE m # n
      BY <1>9, <2>1, <3>2
    <3>. QED
      BY <3>1, <3>2
  <2>4. ASSUME tier1'[m] = NoPage, ~Pending(m)' PROVE F[m] = content'[m]
    <3>1. m \notin ToSet(out)
      BY <1>12, <2>4
    <3>2. pages[m] = NoPage
      BY <1>13, <2>4, <3>1
    <3>3. m # n
      BY <1>7, <1>8, <3>2
    <3>. QED
      BY <1>8, <1>9, <2>1, <3>2, <3>3
  <2>5. m \notin dirty' => content'[m] = <<>>
    BY <1>1, <1>9, <2>1
  <2>. QED
    BY <1>3, <2>2, <2>3, <2>4, <2>5 DEF EntryFit
<1>18. LooseFit(state)'
  <2>1. CASE js = <<>>
    <3>1. Len(js) = 0
      BY <2>1
    <3>2. n \notin ToSet(out)
      BY <1>10, <3>1 DEF ToSet
    <3>3. tier1'[n] # NoPage
      BY <1>7, <1>8, <1>13, <3>2
    <3>4. \E i \in 1..Len(order') : order'[i] = n
      BY <1>5, <3>3 DEF Tier1Inv, Fifo
    <3>5. Len(<<>>) = 0
      OBVIOUS
    <3>6. order' # <<>>
      BY <3>4, <3>5
    <3>. QED
      BY <1>3, <2>1, <3>6 DEF LooseFit
  <2>2. CASE js # <<>>
    <3>1. 1 \in 1..Len(js)
      BY <1>10, <2>2, TailSeq
    <3>2. js[1].job = "spill"
      BY <1>11, <3>1
    <3>. QED
      BY <1>3, <2>2, <3>2 DEF LooseFit, Job
  <2>. QED
    BY <2>1, <2>2
<1>19. AppendsInv'
  BY <1>3, <1>11 DEF AppendsInv
<1>20. Logs(journal'.writer, marked', F, state)
  BY <1>1, <1>15
<1>. QED
  BY <1>17, <1>18, <1>19, <1>20 DEF LogInv, LoggedInv

\* The appends that are still to come when the first has been made.
LEMMA StillThere ==
  ASSUME JobsInv, jobs # <<>>, jobs' = Tail(jobs), NEW n, Job.name # n
  PROVE  (Pending(n) => Pending(n)') /\ (Copied(n) => Copied(n)')
<1>1. /\ Len(jobs) \in Nat \ {0} /\ Len(Tail(jobs)) = Len(jobs) - 1
      /\ \A i \in 1..Len(Tail(jobs)) : Tail(jobs)[i] = jobs[i + 1]
  BY FirstJob
<1>2. ASSUME NEW i \in 1..Len(jobs), jobs[i].name = n
      PROVE  \E k \in 1..Len(jobs') : jobs'[k] = jobs[i]
  <2>1. i # 1
    BY <1>2 DEF Job
  <2>2. i - 1 \in 1..Len(Tail(jobs)) /\ (i - 1) + 1 = i
    BY <1>1, <2>1
  <2>3. Tail(jobs)[i - 1] = jobs[i]
    BY <1>1, <2>2
  <2>. QED
    BY <2>2, <2>3
<1>3. Pending(n) => Pending(n)'
  BY <1>2 DEF Pending
<1>4. Copied(n) => Copied(n)'
  BY <1>2 DEF Copied
<1>. QED
  BY <1>3, <1>4

\* A truncation is recorded alone.
LEMMA DroppedAlone ==
  ASSUME AppendsInv, NEW n, Dropped(n)
  PROVE  Len(jobs) = 1 /\ Job.job = "resize" /\ Job.name = n
<1>1. PICK i \in 1..Len(jobs) : jobs[i].job = "resize" /\ jobs[i].name = n
  BY DEF Dropped
<1>2. Len(jobs) = 1
  BY <1>1 DEF AppendsInv
<1>3. i = 1
  BY <1>1, <1>2
<1>. QED
  BY <1>1, <1>2, <1>3 DEF Job

\* Behind an append there is none to come.
LEMMA DroppedFirst ==
  ASSUME JobsInv, jobs # <<>>, jobs' = Tail(jobs), AppendsInv, NEW n PROVE ~Dropped(n)'
<1>1. /\ Len(jobs) \in Nat \ {0} /\ Len(Tail(jobs)) = Len(jobs) - 1
      /\ \A i \in 1..Len(Tail(jobs)) : Tail(jobs)[i] = jobs[i + 1] /\ i + 1 \in 1..Len(jobs)
  BY FirstJob
<1>. SUFFICES ASSUME Dropped(n)' PROVE FALSE
  OBVIOUS
<1>2. PICK i \in 1..Len(Tail(jobs)) : Tail(jobs)[i].job = "resize"
  BY DEF Dropped
<1>3. jobs[i + 1].job = "resize" /\ i + 1 \in 1..Len(jobs)
  BY <1>1, <1>2
<1>4. Len(jobs) = 1
  BY <1>3 DEF AppendsInv
<1>. QED
  BY <1>1, <1>2, <1>4

\* A page is appended.
LEMMA DataLogged ==
  ASSUME TypeInv, StoredInv, LogInv, AppendOk, IsData(Job) PROVE LogInv'
<1>1. /\ jobs # <<>> /\ journal' = Put(journal, Job) /\ jobs' = Tail(jobs)
      /\ call' = (IF Tail(jobs) = <<>> THEN "none" ELSE call)
      /\ content' = (IF Job.job = "hit" THEN [content EXCEPT ![Job.name] = Job.data] ELSE content)
      /\ dirty' = dirty /\ tier1' = tier1 /\ order' = order /\ marked' = marked
  BY DEF AppendOk, IsData
<1>2. Tier1Inv /\ Tier2Ok(journal) /\ JobsInv /\ HistoryInv /\ JobsFit
  BY DEF TypeInv
<1>3. PICK j : j = Job
  OBVIOUS
<1>4. PICK new : new = journal'
  OBVIOUS
<1>5. PICK t : t = Tail(jobs)
  OBVIOUS
<1>6. /\ JobOk(j) /\ Len(jobs) \in Nat \ {0} /\ 1 \in 1..Len(jobs) /\ j = jobs[1]
      /\ Len(t) = Len(jobs) - 1
      /\ \A i \in 1..Len(t) : t[i] = jobs[i + 1] /\ i + 1 \in 1..Len(jobs)
  BY <1>1, <1>2, <1>3, <1>5, FirstJob DEF Job
<1>7. PutOk(journal, j, new)
  BY <1>1, <1>2, <1>3, <1>4, <1>6, PutFields
<1>8. PICK n, c : n = j.name /\ c = j.data
  OBVIOUS
<1>9. n \in Names /\ c \in Parts
  BY <1>3, <1>6, <1>8 DEF JobOk
<1>10. /\ j.job = "spill" => c = content[n]
       /\ j.job = "hit" => Len(jobs) = 1
       /\ n \in dirty
  BY <1>3, <1>6, <1>8 DEF StoredInv, PendingInv
<1>11. /\ j.job = "copy" => c = content[n]
       /\ j.job = "hit" => Len(content[n]) <= Len(c)
  BY <1>6, <1>8 DEF LogInv, AppendsInv
<1>12. PICK F, state : /\ Logs(journal.writer, marked, F, state)
                       /\ \A m \in Names : EntryFit(F, m)
  BY DEF LogInv, LoggedInv
<1>13. F \in [Names -> Parts] /\ content \in [Names -> Parts]
  BY <1>2, <1>12, LogsTyped DEF HistoryInv
<1>14. content'[n] = c /\ \A m \in Names \ {n} : content'[m] = content[m]
  BY <1>1, <1>3, <1>8, <1>9, <1>10, <1>11, <1>13 DEF IsData
<1>15. \A m \in Names : ~Dropped(m) /\ ~Dropped(m)'
  BY <1>1, <1>2, DroppedAlone, DroppedFirst DEF LogInv, IsData
<1>16. Len(F[n]) <= Len(c)
  <2>1. Len(F[n]) <= Len(content[n])
    BY <1>9, <1>12, <1>15 DEF EntryFit
  <2>2. F[n] \in Parts /\ content[n] \in Parts
    BY <1>9, <1>13
  <2>3. Len(F[n]) \in Nat /\ Len(content[n]) \in Nat /\ Len(c) \in Nat
    BY <1>9, <2>2, PartFields, VmdirtyAssumption
  <2>. QED
    BY <1>3, <1>10, <1>11, <2>1, <2>3 DEF IsData
<1>17. PICK G : G = [F EXCEPT ![n] = c]
  OBVIOUS
<1>18. G[n] = c /\ \A m \in Names \ {n} : G[m] = F[m]
  BY <1>9, <1>13, <1>17
<1>19. Logs(new.writer, marked, G, "tight")
  <2>1. PICK marks : marks = marked
    OBVIOUS
  <2>2. Logs(journal.writer, marks, F, state) /\ IsData(j) /\ j.name = n /\ j.data = c
    BY <1>3, <1>8, <1>12, <2>1
  <2>3. PICK t2 : t2 = journal
    OBVIOUS
  <2>4. Tier2Ok(t2) /\ PutOk(t2, j, new) /\ Logs(t2.writer, marks, F, state)
    BY <1>2, <1>7, <2>2, <2>3
  <2>5. Logs(new.writer, marks, [F EXCEPT ![n] = c], "tight")
    BY <1>6, <1>9, <1>16, <2>2, <2>4, LogsData
  <2>. QED
    BY <1>17, <2>1, <2>5
<1>20. ASSUME NEW m \in Names PROVE EntryFit(G, m)'
  <2>1. CASE m = n
    <3>1. c = content'[m] /\ G[m] = c /\ Len(c) <= Len(c)
      <4>1. Len(c) \in Nat
        BY <1>9, PartFields, VmdirtyAssumption
      <4>. QED
        BY <1>14, <1>18, <2>1, <4>1
    <3>. QED
      BY <1>1, <1>10, <1>15, <2>1, <3>1 DEF EntryFit
  <2>2. CASE m # n
    <3>1. ~(Job.name = m)
      BY <1>3, <1>8, <2>2
    <3>2. ~Pending(m)' => ~Pending(m)
      BY <1>1, <1>2, <3>1, StillThere
    <3>3. ~Copied(m)' => ~Copied(m)
      BY <1>1, <1>2, <3>1, StillThere
    <3>4. call' \in {"flush", "compact"} => call \in {"flush", "compact"}
      BY <1>1
    <3>5. content'[m] = content[m] /\ G[m] = F[m]
      BY <1>14, <1>18, <2>2
    <3>6. EntryFit(F, m)
      BY <1>12
    <3>. QED
      BY <1>1, <1>15, <3>2, <3>3, <3>4, <3>5, <3>6 DEF EntryFit
  <2>. QED
    BY <2>1, <2>2
<1>21. LooseFit("tight")'
  BY DEF LooseFit
<1>22. AppendsInv'
  <2>1. ASSUME NEW i \in 1..Len(t)
        PROVE  /\ t[i].job = "copy" => t[i].data = content'[t[i].name]
               /\ t[i].job = "hit" => Len(content'[t[i].name]) <= Len(t[i].data)
               /\ t[i].job # "resize"
    <3>1. t[i] = jobs[i + 1] /\ i + 1 \in 1..Len(jobs) /\ Len(jobs) # 1
      BY <1>6
    <3>2. content' = content
      BY <1>1, <1>3, <1>10, <3>1
    <3>. QED
      BY <3>1, <3>2 DEF LogInv, AppendsInv
  <2>. QED
    BY <1>1, <1>5, <2>1 DEF AppendsInv
<1>. QED
  BY <1>1, <1>4, <1>19, <1>20, <1>21, <1>22 DEF LogInv, LoggedInv

\* A truncation is appended.
LEMMA ResizeLogged ==
  ASSUME TypeInv, StoredInv, LogInv, AppendOk, Job.job = "resize" PROVE LogInv'
<1>1. /\ jobs # <<>> /\ journal' = Put(journal, Job) /\ jobs' = Tail(jobs)
      /\ content' = content /\ dirty' = dirty /\ tier1' = tier1 /\ marked' = marked
      /\ call' = (IF Tail(jobs) = <<>> THEN "none" ELSE call)
  BY DEF AppendOk
<1>2. Tier2Ok(journal) /\ JobsInv /\ HistoryInv
  BY DEF TypeInv
<1>3. PICK j : j = Job
  OBVIOUS
<1>4. PICK new : new = journal'
  OBVIOUS
<1>5. /\ JobOk(j) /\ Len(jobs) \in Nat \ {0} /\ 1 \in 1..Len(jobs) /\ j = jobs[1]
      /\ IsSeq(Tail(jobs)) /\ Len(Tail(jobs)) = Len(jobs) - 1
  BY <1>1, <1>2, <1>3, FirstJob DEF Job
<1>6. j.job = "resize" /\ j.size = 0 /\ Len(jobs) = 1
  BY <1>3, <1>5 DEF LogInv, AppendsInv
<1>7. jobs' = <<>> /\ call' = "none"
  <2>1. Tail(jobs) = <<>>
    <3>1. Len(Tail(jobs)) = 0
      BY <1>5, <1>6
    <3>. QED
      BY <1>5, <3>1, TailSeq
  <2>. QED
    BY <1>1, <2>1
<1>8. PutOk(journal, j, new)
  BY <1>1, <1>2, <1>3, <1>4, <1>5, PutFields
<1>9. PICK n : n = j.name
  OBVIOUS
<1>10. n \in Names
  BY <1>5, <1>6, <1>9 DEF JobOk
<1>11. PICK F, state : /\ Logs(journal.writer, marked, F, state)
                       /\ \A m \in Names : EntryFit(F, m)
  BY DEF LogInv, LoggedInv
<1>12. F \in [Names -> Parts]
  BY <1>11, LogsTyped
<1>13. PICK G : G = [F EXCEPT ![n] = Zeroes(0)]
  OBVIOUS
<1>14. Zeroes(0) = <<>> /\ Len(<<>>) = 0
  BY DEF Zeroes
<1>15. G[n] = <<>> /\ \A m \in Names \ {n} : G[m] = F[m]
  BY <1>10, <1>12, <1>13, <1>14
<1>16. Logs(new.writer, marked, G, "tight")
  <2>1. PICK marks, t2 : marks = marked /\ t2 = journal
    OBVIOUS
  <2>2. PICK k \in Nat : k = 0
    OBVIOUS
  <2>3. Tier2Ok(t2) /\ PutOk(t2, j, new) /\ Logs(t2.writer, marks, F, state)
    BY <1>2, <1>8, <1>11, <2>1
  <2>4. j.name = n /\ j.size = k /\ k = 0
    BY <1>6, <1>9, <2>2
  <2>5. Logs(new.writer, marks, [F EXCEPT ![n] = Zeroes(k)], "tight")
    BY <1>5, <1>6, <1>10, <2>3, <2>4, LogsSize
  <2>. QED
    BY <1>13, <2>1, <2>2, <2>5
<1>17. \A m : ~Pending(m)
  BY <1>5, <1>6 DEF Pending
<1>18. ASSUME NEW m \in Names PROVE EntryFit(G, m)'
  <2>1. ~Dropped(m)'
    BY <1>1, <1>2, DroppedFirst DEF LogInv
  <2>2. EntryFit(F, m)
    BY <1>11
  <2>3. CASE m = n
    <3>1. Dropped(m)
      BY <1>5, <1>6, <1>9, <2>3 DEF Dropped
    <3>2. content[m] = <<>>
      BY <2>2, <3>1 DEF EntryFit
    <3>. QED
      BY <1>1, <1>7, <1>14, <1>15, <2>1, <2>3, <3>2 DEF EntryFit
  <2>4. CASE m # n
    <3>1. ~Dropped(m)
      BY <1>3, <1>9, <2>4, DroppedAlone DEF LogInv
    <3>. QED
      BY <1>1, <1>7, <1>15, <1>17, <2>1, <2>2, <2>4, <3>1 DEF EntryFit
  <2>. QED
    BY <2>3, <2>4
<1>19. LooseFit("tight")'
  BY DEF LooseFit
<1>20. AppendsInv'
  BY <1>7, <1>14 DEF AppendsInv
<1>. QED
  BY <1>1, <1>4, <1>16, <1>18, <1>19, <1>20 DEF LogInv, LoggedInv

\* The marker of a flush finds every page recorded.
LEMMA MarkerFinds ==
  ASSUME TypeInv, LogInv, jobs # <<>>, Job.job = "marker",
         NEW F, NEW state, Logs(journal.writer, marked, F, state), LooseFit(state),
         \A n \in Names : EntryFit(F, n)
  PROVE  F = content /\ state # "loose" /\ Len(jobs) = 1 /\ call \in {"flush", "compact"}
<1>1. JobsInv /\ HistoryInv /\ JobsFit
  BY DEF TypeInv
<1>2. Len(jobs) \in Nat \ {0} /\ 1 \in 1..Len(jobs) /\ call # "none"
  BY <1>1, FirstJob
<1>3. call \in {"flush", "compact"}
  BY <1>1, <1>2 DEF JobsInv, Calls, JobsFit, Job
<1>4. Len(jobs) = 1
  <2>1. SUFFICES ASSUME Len(jobs) # 1 PROVE FALSE
    OBVIOUS
  <2>2. PICK l \in Nat \ {0} : l = Len(jobs)
    BY <1>2
  <2>3. 1 \in 1..(l - 1)
    BY <2>1, <2>2
  <2>. QED
    BY <1>1, <1>3, <2>2, <2>3 DEF JobsFit, Job
<1>5. \A n : ~Copied(n)
  BY <1>4 DEF Copied, Job
<1>6. \A n \in Names : F[n] = content[n]
  BY <1>3, <1>5 DEF EntryFit
<1>7. F \in [Names -> Parts] /\ content \in [Names -> Parts]
  BY <1>1, LogsTyped DEF HistoryInv
<1>8. F = content
  BY <1>6, <1>7
<1>9. state # "loose"
  BY DEF LooseFit
<1>. QED
  BY <1>3, <1>4, <1>8, <1>9

\* The marker is appended.
LEMMA MarkerLogged ==
  ASSUME TypeInv, StoredInv, LogInv, AppendOk, Job.job = "marker" PROVE LogInv'
<1>1. /\ jobs # <<>> /\ journal' = Put(journal, Job) /\ jobs' = Tail(jobs)
      /\ content' = content /\ dirty' = dirty /\ tier1' = tier1 /\ marked' = {content}
      /\ call' = (IF Tail(jobs) = <<>> THEN "none" ELSE call)
  BY DEF AppendOk
<1>2. Tier2Ok(journal) /\ JobsInv /\ HistoryInv
  BY DEF TypeInv
<1>3. PICK F, state : /\ Logs(journal.writer, marked, F, state) /\ LooseFit(state)
                      /\ \A m \in Names : EntryFit(F, m)
  BY DEF LogInv, LoggedInv
<1>4. F = content /\ state # "loose" /\ Len(jobs) = 1
  BY <1>1, <1>3, MarkerFinds
<1>5. PICK j : j = Job
  OBVIOUS
<1>6. PICK new : new = journal'
  OBVIOUS
<1>7. /\ JobOk(j) /\ IsSeq(Tail(jobs)) /\ Len(Tail(jobs)) = Len(jobs) - 1
  BY <1>1, <1>2, <1>5, FirstJob
<1>8. jobs' = <<>> /\ call' = "none"
  <2>1. Tail(jobs) = <<>>
    <3>1. Len(Tail(jobs)) = 0
      BY <1>4, <1>7
    <3>. QED
      BY <1>7, <3>1, TailSeq
  <2>. QED
    BY <1>1, <2>1
<1>9. Logs(new.writer, {F}, F, "tight")
  <2>1. PICK marks, t2 : marks = marked /\ t2 = journal
    OBVIOUS
  <2>2. PutOk(t2, j, new) /\ Tier2Ok(t2)
    BY <1>1, <1>2, <1>5, <1>6, <1>7, <2>1, PutFields
  <2>3. Logs(t2.writer, marks, F, state) /\ j.job = "marker"
    BY <1>3, <1>5, <2>1
  <2>. QED
    BY <1>4, <1>7, <2>2, <2>3, LogsMark
<1>10. ASSUME NEW n \in Names PROVE EntryFit(F, n)'
  <2>1. ~Dropped(n)'
    BY <1>1, <1>2, DroppedFirst DEF LogInv
  <2>2. F[n] = content[n] /\ Len(F[n]) <= Len(F[n])
    <3>1. F[n] \in Parts
      BY <1>2, <1>4 DEF HistoryInv
    <3>2. Len(F[n]) \in Nat
      BY <3>1, PartFields, VmdirtyAssumption
    <3>. QED
      BY <1>4, <3>2
  <2>3. n \notin dirty => content[n] = <<>>
    BY <1>3 DEF EntryFit
  <2>. QED
    BY <1>1, <1>8, <2>1, <2>2, <2>3 DEF EntryFit
<1>11. LooseFit("tight")'
  BY DEF LooseFit
<1>12. AppendsInv'
  <2>1. Len(<<>>) = 0
    OBVIOUS
  <2>. QED
    BY <1>8, <2>1 DEF AppendsInv
<1>13. Logs(journal'.writer, marked', F, "tight")
  BY <1>1, <1>4, <1>6, <1>9
<1>. QED
  BY <1>10, <1>11, <1>12, <1>13 DEF LogInv, LoggedInv

\* The page of a copy is resident.
LEMMA CopyResident ==
  ASSUME JobsInv, JobsFit, jobs # <<>>, Job.job = "copy" PROVE tier1[Job.name] # NoPage
<1>1. Len(jobs) \in Nat \ {0} /\ 1 \in 1..Len(jobs) /\ call # "none"
  BY FirstJob
<1>2. call \in {"flush", "compact"}
  BY <1>1 DEF JobsInv, Calls, JobsFit, Job
<1>3. Len(jobs) # 1
  BY <1>2 DEF JobsFit, MarkerJob, Job
<1>4. PICK l \in Nat \ {0} : l = Len(jobs)
  BY <1>1
<1>5. 1 \in 1..(l - 1)
  BY <1>3, <1>4
<1>. QED
  BY <1>2, <1>4, <1>5 DEF JobsFit, Job

\* What all records make of the entries when an append fails: no page is on its
\* way then, and no truncation.
LEMMA FailsFit ==
  ASSUME LosesNothing, TypeInv, StoredInv, LogInv, jobs # <<>>,
         NEW how, <<Job.job, how>> \in MayFail, NEW F, NEW n \in Names, EntryFit(F, n)
  PROVE  /\ n \notin dirty => content[n] = <<>>
         /\ Len(F[n]) <= Len(content[n]) /\ (tier1[n] = NoPage => F[n] = content[n])
<1>1. JobsInv /\ JobsFit /\ PendingInv
  BY DEF TypeInv, StoredInv
<1>2. Job.job \notin {"spill", "resize"}
  BY DEF LosesNothing
<1>3. ~Pending(n)
  BY <1>1, <1>2, NoSpills DEF Pending
<1>4. ~Dropped(n)
  BY <1>2, DroppedAlone DEF LogInv
<1>. QED
  BY <1>3, <1>4 DEF EntryFit

\* An append that fails without a trace.
LEMMA TracelessLogged ==
  ASSUME LosesNothing, TypeInv, StoredInv, LogInv, AppendFails("nothing") PROVE LogInv'
<1>1. /\ jobs # <<>> /\ <<Job.job, "nothing">> \in MayFail /\ jobs' = <<>> /\ call' = "none"
      /\ content' = content /\ UNCHANGED diff /\ marked' = marked
  BY Zenon DEF AppendFails
<1>2. Left(journal.writer, Record(journal.writer, Job), journal'.writer, "nothing")
  BY FailsLeave, NothingLost DEF Failures
<1>3. journal'.writer = journal.writer
  BY <1>2 DEF Left
<1>4. PICK F, state : /\ Logs(journal.writer, marked, F, state) /\ LooseFit(state)
                      /\ \A m \in Names : EntryFit(F, m)
  BY DEF LogInv, LoggedInv
<1>5. dirty' = dirty /\ tier1' = tier1 /\ order' = order
  BY <1>1 DEF diff
<1>6. Len(<<>>) = 0
  OBVIOUS
<1>7. ASSUME NEW n \in Names PROVE EntryFit(F, n)'
  <2>1. /\ n \notin dirty => content[n] = <<>>
        /\ Len(F[n]) <= Len(content[n]) /\ (tier1[n] = NoPage => F[n] = content[n])
    BY <1>1, <1>4, FailsFit
  <2>2. ~Dropped(n)'
    BY <1>1, <1>6 DEF Dropped
  <2>. QED
    BY <1>1, <1>5, <2>1, <2>2 DEF EntryFit
<1>8. LooseFit(state)'
  <2>1. state = "loose" => order # <<>>
    BY <1>1, <1>4 DEF LooseFit, LosesNothing
  <2>. QED
    BY <1>1, <1>5, <2>1 DEF LooseFit
<1>9. AppendsInv'
  BY <1>1, <1>6 DEF AppendsInv
<1>. QED
  BY <1>1, <1>3, <1>4, <1>7, <1>8, <1>9 DEF LogInv, LoggedInv

\* A copy that is written, and not synced.
LEMMA CopyLeftLogged ==
  ASSUME LosesNothing, TypeInv, StoredInv, LogInv, AppendFails("unsynced"), Job.job = "copy"
  PROVE  LogInv'
<1>1. /\ jobs # <<>> /\ <<Job.job, "unsynced">> \in MayFail /\ jobs' = <<>> /\ call' = "none"
      /\ content' = content /\ UNCHANGED diff /\ marked' = marked
  BY Zenon DEF AppendFails
<1>2. PICK w, rec, nw : w = journal.writer /\ rec = Record(w, Job) /\ nw = journal'.writer
  OBVIOUS
<1>3. Left(w, rec, nw, "unsynced")
  BY <1>2, FailsLeave, NothingLost DEF Failures
<1>4. /\ nw.gen = w.gen /\ nw.durable = w.durable /\ nw.next = w.next
      /\ nw.file = w.file \o Encode(rec)
  BY <1>3 DEF Left
<1>5. Tier1Inv /\ Tier2Ok(journal) /\ JobsInv /\ JobsFit /\ HistoryInv
  BY DEF TypeInv
<1>6. JobOk(Job) /\ 1 \in 1..Len(jobs)
  BY <1>1, <1>5, FirstJob
<1>7. w.next \in Nat \ {0}
  BY <1>2, <1>5 DEF Tier2Ok, WriterOk
<1>8. Good(rec, w.gen) /\ RecordOk(rec)
  BY <1>2, <1>6, <1>7, JobRecordGood, RecordOfJob
<1>9. PICK n, c : n = Job.name /\ c = Job.data
  OBVIOUS
<1>10. n \in Names /\ c \in Parts /\ IsData(Job)
  BY <1>6, <1>9 DEF JobOk, IsData
<1>11. rec.kind = "data" /\ rec.seq = w.next /\ rec.name = n /\ rec.data = c
  BY <1>2, <1>6, <1>9, <1>10, RecordFields
<1>12. c = content[n]
  BY <1>6, <1>9 DEF LogInv, AppendsInv, Job
<1>13. order # <<>>
  <2>1. tier1[n] # NoPage
    BY <1>1, <1>5, <1>9, CopyResident
  <2>2. \E i \in 1..Len(order) : order[i] = n
    BY <1>5, <1>10, <2>1 DEF Tier1Inv, Fifo
  <2>3. Len(<<>>) = 0
    OBVIOUS
  <2>. QED
    BY <2>2, <2>3
<1>14. PICK F, state : /\ Logs(w, marked, F, state)
                       /\ \A m \in Names : EntryFit(F, m)
  BY <1>2 DEF LogInv, LoggedInv
<1>15. \A m \in Names :
         /\ m \notin dirty => content[m] = <<>>
         /\ Len(F[m]) <= Len(content[m]) /\ (tier1[m] = NoPage => F[m] = content[m])
  BY <1>1, <1>14, FailsFit
<1>16. F \in [Names -> Parts] /\ content \in [Names -> Parts]
  BY <1>5, <1>14, LogsTyped DEF HistoryInv
<1>17. PICK G : G = [F EXCEPT ![n] = c]
  OBVIOUS
<1>18. G[n] = c /\ \A m \in Names \ {n} : G[m] = F[m]
  BY <1>10, <1>16, <1>17
<1>19. Logs(nw, marked, G, "loose")
  <2>1. PICK marks : marks = marked
    OBVIOUS
  <2>2. PICK after : after = "loose"
    OBVIOUS
  <2>3. Logs(w, marks, F, state)
    BY <1>14, <2>1
  <2>4. Logs(nw, marks, ReplayRecord(F, rec), after)
    BY <1>4, <1>7, <1>8, <1>11, <2>2, <2>3, LogsRecord
  <2>5. ReplayRecord(F, rec) = [F EXCEPT ![n] = c]
    BY SMTT(40), <1>10, <1>11, <1>12, <1>15, <1>16, ReplayData
  <2>. QED
    BY <1>17, <2>1, <2>2, <2>4, <2>5
<1>20. dirty' = dirty /\ tier1' = tier1 /\ order' = order
  BY <1>1 DEF diff
<1>21. Len(<<>>) = 0
  OBVIOUS
<1>22. ASSUME NEW m \in Names PROVE EntryFit(G, m)'
  <2>1. ~Dropped(m)'
    BY <1>1, <1>21 DEF Dropped
  <2>2. CASE m = n
    <3>1. Len(c) \in Nat
      BY <1>10, PartFields, VmdirtyAssumption
    <3>. QED
      BY <1>1, <1>12, <1>15, <1>18, <1>20, <2>1, <2>2, <3>1 DEF EntryFit
  <2>3. CASE m # n
    BY <1>1, <1>15, <1>18, <1>20, <2>1, <2>3 DEF EntryFit
  <2>. QED
    BY <2>2, <2>3
<1>23. LooseFit("loose")'
  BY <1>1, <1>13, <1>20 DEF LooseFit
<1>24. AppendsInv'
  BY <1>1, <1>21 DEF AppendsInv
<1>. QED
  BY <1>1, <1>2, <1>19, <1>22, <1>23, <1>24 DEF LogInv, LoggedInv

\* A marker that is written, and not synced.
LEMMA MarkerLeftLogged ==
  ASSUME LosesNothing, TypeInv, StoredInv, LogInv, AppendFails("unsynced"), Job.job = "marker"
  PROVE  LogInv'
<1>1. /\ jobs # <<>> /\ <<Job.job, "unsynced">> \in MayFail /\ jobs' = <<>> /\ call' = "none"
      /\ content' = content /\ UNCHANGED diff /\ marked' = marked \cup {content}
  BY Zenon DEF AppendFails
<1>2. PICK w, rec, nw : w = journal.writer /\ rec = Record(w, Job) /\ nw = journal'.writer
  OBVIOUS
<1>3. Left(w, rec, nw, "unsynced")
  BY <1>2, FailsLeave, NothingLost DEF Failures
<1>4. /\ nw.gen = w.gen /\ nw.durable = w.durable /\ nw.next = w.next
      /\ nw.file = w.file \o Encode(rec)
  BY <1>3 DEF Left
<1>5. Tier2Ok(journal) /\ JobsInv /\ HistoryInv
  BY DEF TypeInv
<1>6. JobOk(Job)
  BY <1>1, <1>5, FirstJob
<1>7. w.next \in Nat \ {0}
  BY <1>2, <1>5 DEF Tier2Ok, WriterOk
<1>8. Good(rec, w.gen) /\ RecordOk(rec)
  BY <1>2, <1>6, <1>7, JobRecordGood, RecordOfJob
<1>9. rec.kind = "marker" /\ rec.commit = w.next - 1
  BY <1>2, <1>6, RecordFields
<1>10. PICK F, state : /\ Logs(journal.writer, marked, F, state) /\ LooseFit(state)
                       /\ \A m \in Names : EntryFit(F, m)
  BY DEF LogInv, LoggedInv
<1>11. F = content /\ state # "loose"
  BY <1>1, <1>10, MarkerFinds
<1>12. PICK marks, more : marks = marked /\ more = marked \cup {content}
  OBVIOUS
<1>13. Logs(nw, more, F, "tight")
  <2>1. Logs(w, marks, F, state) /\ F \in more /\ marks \subseteq more
    BY <1>2, <1>10, <1>11, <1>12
  <2>. QED
    BY <1>4, <1>7, <1>8, <1>9, <1>11, <2>1, LogsMarker
<1>14. dirty' = dirty /\ tier1' = tier1
  BY <1>1 DEF diff
<1>15. Len(<<>>) = 0
  OBVIOUS
<1>16. ASSUME NEW n \in Names PROVE EntryFit(F, n)'
  <2>1. /\ n \notin dirty => content[n] = <<>>
        /\ Len(F[n]) <= Len(content[n]) /\ F[n] = content[n]
    BY <1>1, <1>10, <1>11, FailsFit
  <2>2. ~Dropped(n)'
    BY <1>1, <1>15 DEF Dropped
  <2>. QED
    BY <1>1, <1>14, <2>1, <2>2 DEF EntryFit
<1>17. LooseFit("tight")'
  BY DEF LooseFit
<1>18. AppendsInv'
  BY <1>1, <1>15 DEF AppendsInv
<1>. QED
  BY <1>1, <1>2, <1>12, <1>13, <1>16, <1>17, <1>18 DEF LogInv, LoggedInv

\* Every step keeps the journal and the entries together.
LEMMA LogStep ==
  ASSUME LosesNothing PROVE TypeInv /\ StoredInv /\ LogInv /\ [Next]_vars => LogInv'
<1>. SUFFICES ASSUME TypeInv, StoredInv, LogInv, [Next]_vars PROVE LogInv'
  OBVIOUS
<1>1. ~ShortWrites /\ SpillsSucceed
  BY NothingLost
<1>2. CASE UNCHANGED vars
  <2>1. /\ jobs' = jobs /\ call' = call /\ content' = content /\ marked' = marked
        /\ journal' = journal /\ dirty' = dirty /\ tier1' = tier1 /\ order' = order
    BY <1>2 DEF vars, diff, history
  <2>2. PICK F, state : /\ Logs(journal.writer, marked, F, state) /\ LooseFit(state)
                        /\ \A m \in Names : EntryFit(F, m)
    BY DEF LogInv, LoggedInv
  <2>3. ASSUME NEW m \in Names PROVE EntryFit(F, m)'
    <3>1. EntryFit(F, m)
      BY <2>2
    <3>. QED
      BY <2>1, <3>1 DEF EntryFit, Dropped, Copied, Pending
  <2>4. LooseFit(state)'
    BY <2>1, <2>2 DEF LooseFit, Job
  <2>5. AppendsInv'
    BY <2>1 DEF LogInv, AppendsInv
  <2>. QED
    BY <2>1, <2>2, <2>3, <2>4, <2>5 DEF LogInv, LoggedInv
<1>3. CASE \E n \in Names, d \in Writes : WriteTier1(n, d) \/ WriteTier2(n, d)
  BY <1>3, WriteTier1Logged, WriteTier2Logged
<1>4. CASE \E n \in Names : Truncate(n)
  BY <1>4, TruncateLogged
<1>5. CASE Flush \/ CompactJournal
  BY <1>5, FlushLogged
<1>6. CASE AppendOk
  <2>1. jobs # <<>> /\ JobsInv
    BY <1>6 DEF AppendOk, TypeInv
  <2>2. JobOk(Job)
    BY <2>1, FirstJob
  <2>3. IsData(Job) \/ Job.job = "resize" \/ Job.job = "marker"
    BY <2>2 DEF JobOk, Jobs, IsData
  <2>. QED
    BY <1>6, <2>3, DataLogged, ResizeLogged, MarkerLogged
<1>7. CASE CompactSwap
  BY <1>1, <1>7, CompactSwapLogged
<1>8. ASSUME NEW how \in Failures, AppendFails(how) PROVE LogInv'
  <2>1. <<Job.job, how>> \in MayFail
    BY <1>8 DEF AppendFails
  <2>2. how = "nothing" \/ (how = "unsynced" /\ Job.job \in {"copy", "marker"})
    BY <2>1 DEF LosesNothing
  <2>3. CASE how = "nothing"
    BY <1>8, <2>3, TracelessLogged
  <2>4. CASE how = "unsynced" /\ Job.job \in {"copy", "marker"}
    BY <1>8, <2>4, CopyLeftLogged, MarkerLeftLogged
  <2>. QED
    BY <2>2, <2>3, <2>4
<1>9. CASE CrashAndRecover
  BY <1>1, <1>9, CrashLogged
<1>. QED
  BY <1>2, <1>3, <1>4, <1>5, <1>6, <1>7, <1>8, <1>9 DEF Next

\* Any crash shows one of the marks.
LEMMA LogsRecover ==
  ASSUME NEW w, WriterOk(w), NEW marks, NEW F, NEW state, Logs(w, marks, F, state),
         NEW img \in CrashImages(w, OldRecord)
  PROVE  Shown(RecordsOf(img)) \in marks
<1>1. PICK recs, at, d : Shows(w, marks, recs, at, d)
  BY DEF Logs
<1>2. /\ Journal(w.file, w.gen, recs, at) /\ d \in 0..Len(recs) /\ at[d] = w.durable
  BY <1>1 DEF Shows
<1>3. PICK m \in w.durable..Len(w.file) :
        \E tail : Foreign(tail, w.gen) /\ CutImage(img, w.file, m, tail)
  BY ImageCut
<1>4. PICK tail : Foreign(tail, w.gen) /\ CutImage(img, w.file, m, tail)
  BY <1>3
<1>5. w.durable \in 2..Len(w.file) /\ Len(w.file) \in Nat
  BY FileSized DEF WriterOk
<1>6. m \in 2..Len(w.file) /\ at[d] <= m
  BY <1>2, <1>5
<1>7. PICK k \in 0..Len(recs) :
        /\ RecordsOf(img) = SubSeq(recs, 1, k)
        /\ \A l \in 0..Len(recs) : at[l] <= m => l <= k
  BY <1>2, <1>4, <1>6, CrashReads
<1>8. IsSeq(recs) /\ Len(recs) \in Nat
  BY <1>2 DEF Journal, IsSeq
<1>9. k \in d..Len(recs)
  BY <1>2, <1>6, <1>7, <1>8
<1>10. Shown(SubSeq(recs, 1, k)) \in marks
  BY <1>1, <1>9 DEF Shows
<1>. QED
  BY <1>7, <1>10

\* What is recovered as committed is what the last flush that returned Ok has
\* promised, or one that has left its marker behind it: after any calls and any
\* crash (flush, read_vmdirty, replay_recovered), where no append of a spill or of
\* a truncation fails, none leaves a part of its record, and none of a write to
\* Tier 2 fails behind its record.
THEOREM FlushedIsRecovered == ASSUME LosesNothing PROVE Spec => []RecoversFlushed
<1>1. TypeInv /\ LogInv => RecoversFlushed
  <2>. SUFFICES ASSUME TypeInv, LogInv PROVE RecoversFlushed
    OBVIOUS
  <2>1. PICK w : w = journal.writer
    OBVIOUS
  <2>2. WriterOk(w)
    BY <2>1 DEF TypeInv, Tier2Ok
  <2>3. PICK F, state : Logs(w, marked, F, state)
    BY <2>1 DEF LogInv, LoggedInv
  <2>4. PICK marks : marks = marked
    OBVIOUS
  <2>5. ASSUME NEW img \in Images PROVE Shown(RecordsOf(img)) \in marked
    <3>1. img \in CrashImages(w, OldRecord)
      BY <2>1 DEF Images
    <3>. QED
      BY <2>2, <2>3, <2>4, <3>1, LogsRecover
  <2>. QED
    BY <2>5, Zenon DEF RecoversFlushed, Shown
<1>2. ~ShortWrites /\ SpillsSucceed
  BY NothingLost
<1>3. TypeInv /\ StoredInv /\ [Next]_vars => StoredInv'
  BY <1>2, StoredStep
<1>4. TypeInv /\ StoredInv /\ LogInv /\ [Next]_vars => LogInv'
  BY LogStep
<1>. QED
  BY <1>1, <1>3, <1>4, InitStored, InitLogged, TypesKept, PTL DEF Spec
=============================================================================

--------------------------- MODULE VmdirtyProofs ---------------------------
(***************************************************************************)
(* What the recovery walk finds in a file: the records that were appended, *)
(* in their order, up to a crash, and no others.                           *)
(***************************************************************************)
EXTENDS Vmdirty, Integers, WellFoundedInduction, TLAPS

\* A record that the walk accepts in a journal of that generation.
Good(rec, gen) ==
  /\ rec.kind \in {"data", "meta", "marker"} /\ rec.gen = gen
  /\ rec.kind = "meta" => rec.op \in OpCodes
  /\ Len(Data(rec)) \in 0..PageSize

Holds(file, start, rec) ==
  \A j \in 1..Size(rec) : file[start + j - 1] = Encode(rec)[j]

\* The file begins with a header and recs, the i-th of which ends at at[i].
Layout(file, gen, recs, at) ==
  /\ Len(recs) \in Nat /\ at \in [0..Len(recs) -> Nat] /\ at[0] = 2
  /\ Len(file) >= 2 /\ Holds(file, 1, Header(gen))
  /\ \A i \in 1..Len(recs) :
       /\ Good(recs[i], gen) /\ at[i] = at[i - 1] + Size(recs[i])
       /\ at[i] <= Len(file) /\ Holds(file, at[i - 1] + 1, recs[i])

IsSeq(s) == Len(s) \in Nat /\ s = [i \in 1..Len(s) |-> s[i]]

\* Every head of the file is that of a record with so many bytes.
Sized(file) ==
  \A i \in DOMAIN file : file[i].cell = "head" => Len(Data(file[i].rec)) \in Nat

-----------------------------------------------------------------------------
(* Natural numbers. *)

\* A set of natural numbers has a least one.
LEMMA LeastNatural ==
  ASSUME NEW T, T \subseteq Nat, T # {}
  PROVE  \E x \in T : \A y \in T : x <= y
<1>. DEFINE R == {ss \in Nat \X Nat : ss[1] < ss[2]}
<1>1. IsWellFoundedOn(R, Nat)
  BY NatLessThanWellFounded, Zenon DEF OpToRel
<1>2. \A x, y \in Nat : y < x => <<y, x>> \in R
  OBVIOUS
<1>. HIDE DEF R
<1>3. PICK x \in T : \A y \in T : ~(<<y, x>> \in R)
  BY <1>1, WFMin
<1>4. \A y \in T : ~(y < x)
  BY <1>2, <1>3
<1>. QED
  BY <1>4

\* A set of natural numbers up to n has a greatest one.
LEMMA GreatestNatural ==
  ASSUME NEW n \in Nat, NEW T, T \subseteq 0..n, T # {}
  PROVE  \E x \in T : \A y \in T : y <= x
<1>. DEFINE U == {n - y : y \in T}
<1>1. \A y \in T : y \in Nat /\ y <= n /\ n - y \in Nat
  OBVIOUS
<1>2. U \subseteq Nat /\ U # {} /\ \A y \in T : n - y \in U
  BY <1>1
<1>3. PICK x \in T : n - x \in U /\ \A v \in U : n - x <= v
  <2>. HIDE DEF U
  <2>1. PICK u \in U : \A v \in U : u <= v
    BY <1>2, LeastNatural
  <2>2. PICK x \in T : u = n - x
    BY DEF U
  <2>. QED
    BY <2>1, <2>2
<1>. HIDE DEF U
<1>4. ASSUME NEW y \in T PROVE y <= x
  <2>1. n - x <= n - y
    BY <1>2, <1>3
  <2>. QED
    BY <1>1, <2>1
<1>. QED
  BY <1>4

-----------------------------------------------------------------------------
(* Sequences. *)

\* The members of Seq(R) are sequences.
LEMMA SeqIsSeq ==
  ASSUME NEW R, NEW s \in Seq(R) PROVE IsSeq(s) /\ \A i \in 1..Len(s) : s[i] \in R
BY DEF IsSeq

\* A sequence of elements of R is in Seq(R).
LEMMA IsSeqIn ==
  ASSUME NEW R, NEW s, IsSeq(s), \A i \in 1..Len(s) : s[i] \in R PROVE s \in Seq(R)
BY DEF IsSeq

\* Sequences are equal when their elements are.
LEMMA SeqEqual ==
  ASSUME NEW s, IsSeq(s), NEW t, IsSeq(t), Len(s) = Len(t), \A i \in 1..Len(s) : s[i] = t[i]
  PROVE  s = t
BY DEF IsSeq

\* A part of a sequence.
LEMMA SubSeqOf ==
  ASSUME NEW s, IsSeq(s), NEW a \in Nat \ {0}, NEW k \in Nat, a + k - 1 <= Len(s)
  PROVE  SubSeq(s, a, a + k - 1) = [j \in 1..k |-> s[a + j - 1]]
<1>1. s \in Seq({s[i] : i \in 1..Len(s)})
  BY DEF IsSeq
<1>. QED
  BY <1>1

\* The first elements of a sequence.
LEMMA Prefix ==
  ASSUME NEW s, IsSeq(s), NEW k \in 0..Len(s)
  PROVE  /\ IsSeq(SubSeq(s, 1, k)) /\ Len(SubSeq(s, 1, k)) = k
         /\ \A i \in 1..k : SubSeq(s, 1, k)[i] = s[i]
<1>. DEFINE sub == SubSeq(s, 1, k)
<1>1. k \in Nat /\ 1 + k - 1 = k /\ k <= Len(s) /\ \A i \in 1..k : 1 + i - 1 = i
  BY DEF IsSeq
<1>2. sub = [j \in 1..k |-> s[1 + j - 1]]
  BY <1>1, SubSeqOf
<1>. HIDE DEF sub
<1>3. sub = [j \in 1..k |-> s[j]]
  BY <1>1, <1>2
<1>4. sub \in Seq({s[j] : j \in 1..k}) /\ Len(sub) = k
  BY <1>1, <1>3
<1>. QED
  BY <1>3, <1>4, SeqIsSeq DEF sub

\* The elements of a sequence with another one behind it.
LEMMA ConcatSeq ==
  ASSUME NEW s, IsSeq(s), NEW t, IsSeq(t)
  PROVE  /\ IsSeq(s \o t) /\ Len(s \o t) = Len(s) + Len(t)
         /\ \A i \in 1..Len(s) : (s \o t)[i] = s[i]
         /\ \A i \in 1..Len(t) : (s \o t)[Len(s) + i] = t[i]
<1>. DEFINE R == {s[i] : i \in 1..Len(s)} \cup {t[i] : i \in 1..Len(t)}
<1>1. s \in Seq(R) /\ t \in Seq(R)
  BY DEF IsSeq
<1>. HIDE DEF R
<1>2. s \o t \in Seq(R)
  BY <1>1
<1>3. Len(s \o t) = Len(s) + Len(t) /\ \A i \in 1..Len(s) : (s \o t)[i] = s[i]
  BY <1>1
<1>4. \A i \in 1..Len(t) : (s \o t)[Len(s) + i] = t[i]
  BY <1>1
<1>. QED
  BY <1>2, <1>3, <1>4, SeqIsSeq

-----------------------------------------------------------------------------
(* Records. *)

\* A record has a cell for its head, one for each byte and one for its CRC.
LEMMA SizeNat ==
  ASSUME NEW rec, Len(Data(rec)) \in Nat
  PROVE  Size(rec) \in Nat /\ Size(rec) >= 2
BY DEF Size

\* The cells of a record: a head first, a CRC last.
LEMMA EncodeCells ==
  ASSUME NEW rec, Len(Data(rec)) \in Nat
  PROVE  /\ DOMAIN Encode(rec) = 1..Size(rec) /\ Len(Encode(rec)) = Size(rec)
         /\ Encode(rec)[1] = HeadCell(rec)
         /\ \A i \in 2..Size(rec) : Encode(rec)[i].cell \in {"byte", "crc"}
         /\ Encode(rec)[Size(rec)] = CrcCell(rec)
<1>1. Size(rec) \in Nat /\ Size(rec) >= 2
  BY SizeNat
<1>2. Encode(rec) \in [1..Size(rec) -> {Encode(rec)[i] : i \in 1..Size(rec)}]
  BY DEF Encode
<1>3. Encode(rec)[1] = HeadCell(rec) /\ Encode(rec)[Size(rec)] = CrcCell(rec)
  BY <1>1 DEF Encode
<1>4. \A i \in 2..Size(rec) : Encode(rec)[i].cell \in {"byte", "crc"}
  <2>. TAKE i \in 2..Size(rec)
  <2>1. Encode(rec)[i] = CrcCell(rec) \/ Encode(rec)[i] = ByteCell(Data(rec)[i - 1])
    BY <1>1 DEF Encode
  <2>. QED
    BY <2>1 DEF CrcCell, ByteCell
<1>. QED
  BY <1>1, <1>2, <1>3, <1>4

\* Where the cells of a good record lie there is an intact one.
LEMMA HoldsIntact ==
  ASSUME NEW file, IsSeq(file), NEW gen, NEW start \in Nat \ {0}, NEW rec,
         Good(rec, gen), start + Size(rec) - 1 <= Len(file), Holds(file, start, rec)
  PROVE  IntactAt(file, gen, start) /\ file[start].rec = rec
<1>1. Size(rec) \in Nat /\ Size(rec) >= 2
  BY SizeNat DEF Good
<1>2. file[start] = HeadCell(rec)
  <2>1. 1 \in 1..Size(rec) /\ start + 1 - 1 = start
    BY <1>1
  <2>2. file[start] = Encode(rec)[1]
    BY <2>1, Zenon DEF Holds
  <2>. QED
    BY <2>2, EncodeCells DEF Good
<1>3. file[start].cell = "head" /\ file[start].rec = rec
  BY <1>2 DEF HeadCell
<1>4. SubSeq(file, start, start + Size(rec) - 1) = Encode(rec)
  <2>. DEFINE sub == SubSeq(file, start, start + Size(rec) - 1)
  <2>1. sub = [j \in 1..Size(rec) |-> file[start + j - 1]]
    BY <1>1, SubSeqOf
  <2>2. \A j \in 1..Size(rec) : sub[j] = Encode(rec)[j]
    BY <2>1 DEF Holds
  <2>3. Encode(rec) = [j \in 1..Size(rec) |-> Encode(rec)[j]]
    BY DEF Encode
  <2>. HIDE DEF sub
  <2>4. sub = [j \in 1..Size(rec) |-> sub[j]]
    BY <2>1
  <2>. QED
    BY <2>2, <2>3, <2>4 DEF sub
<1>. QED
  BY <1>3, <1>4 DEF IntactAt, Good

-----------------------------------------------------------------------------
(* The walk. *)

\* An intact record ends in the file.
LEMMA IntactEnds ==
  ASSUME NEW file, Len(file) \in Nat, DOMAIN file = 1..Len(file), Sized(file), NEW gen,
         NEW start \in 1..Len(file), IntactAt(file, gen, start)
  PROVE  /\ start + Size(file[start].rec) \in (start + 2)..(Len(file) + 1)
         /\ file[start].cell = "head" /\ Good(file[start].rec, gen)
<1>1. file[start].cell = "head" /\ Len(Data(file[start].rec)) \in Nat
  BY DEF IntactAt, Sized
<1>2. Size(file[start].rec) \in Nat /\ Size(file[start].rec) >= 2
  BY <1>1, SizeNat
<1>3. start + Size(file[start].rec) - 1 <= Len(file)
  BY DEF IntactAt
<1>4. Good(file[start].rec, gen)
  BY <1>1, VmdirtyAssumption DEF IntactAt, Good
<1>. QED
  BY <1>1, <1>2, <1>3, <1>4

WalkFrom(file, walk, start) ==
  IF start > Len(file) \/ ~IntactAt(file, file[1].rec.gen, start) THEN <<>>
  ELSE <<file[start].rec>> \o walk[start + Size(file[start].rec)]

Walks(file, first, walk) ==
  walk = [start \in first..(Len(file) + 1) |-> WalkFrom(file, walk, start)]

\* A walk from the next start on gives one from this start on.
LEMMA WalkExtends ==
  ASSUME NEW file, Len(file) \in Nat, DOMAIN file = 1..Len(file), Sized(file),
         NEW m \in 1..(Len(file) + 1), NEW h, Walks(file, m + 1, h)
  PROVE  \E g : Walks(file, m, g)
<1>. DEFINE end == Len(file) + 1
            g   == [start \in m..end |-> IF start = m THEN WalkFrom(file, h, m) ELSE h[start]]
<1>1. \A start \in (m + 1)..end : h[start] = WalkFrom(file, h, start)
  <2>1. h = [start \in (m + 1)..end |-> WalkFrom(file, h, start)]
    BY DEF Walks
  <2>. DEFINE F(start) == WalkFrom(file, h, start)
  <2>. HIDE DEF F
  <2>2. h = [start \in (m + 1)..end |-> F(start)]
    BY <2>1 DEF F
  <2>3. \A start \in (m + 1)..end : h[start] = F(start)
    BY <2>2
  <2>. QED
    BY <2>3 DEF F
<1>2. ASSUME NEW start \in m..end PROVE g[start] = WalkFrom(file, g, start)
  <2>. DEFINE next == start + Size(file[start].rec)
  <2>1. g[start] = WalkFrom(file, h, start)
    BY <1>1
  <2>2. CASE start > Len(file) \/ ~IntactAt(file, file[1].rec.gen, start)
    BY <2>1, <2>2 DEF WalkFrom
  <2>3. CASE ~(start > Len(file) \/ ~IntactAt(file, file[1].rec.gen, start))
    <3>1. next \in (start + 2)..end
      BY <2>3, IntactEnds
    <3>2. g[next] = h[next]
      BY <3>1
    <3>. HIDE DEF g, next
    <3>3. WalkFrom(file, h, start) = WalkFrom(file, g, start)
      BY <2>3, <3>2 DEF WalkFrom, next
    <3>. QED
      BY <2>1, <3>3
  <2>. QED
    BY <2>2, <2>3
<1>3. g = [start \in m..end |-> g[start]]
  OBVIOUS
<1>. HIDE DEF g
<1>4. g = [start \in m..end |-> WalkFrom(file, g, start)]
  BY <1>2, <1>3
<1>. QED
  BY <1>4 DEF Walks

\* A walk without starts.
LEMMA WalkNowhere ==
  ASSUME NEW file, Len(file) \in Nat, NEW m \in Nat, m > Len(file) + 1
  PROVE  \E h : Walks(file, m, h)
<1>1. m..(Len(file) + 1) = {}
  OBVIOUS
<1>2. Walks(file, m, [start \in {} |-> start])
  BY <1>1 DEF Walks
<1>. QED
  BY <1>2

\* The walk from a start is given by that from behind its record.
LEMMA WalkStep ==
  ASSUME NEW file, Len(file) \in Nat, DOMAIN file = 1..Len(file), Sized(file)
  PROVE  /\ Walk(file) = [start \in 3..(Len(file) + 1) |-> Walk(file)[start]]
         /\ \A start \in 3..(Len(file) + 1) : Walk(file)[start] = WalkFrom(file, Walk(file), start)
<1>. DEFINE end == Len(file) + 1
            Bad == {m \in 0..end : m > 0 /\ ~(\E h : Walks(file, m, h))}
<1>1. ASSUME NEW m \in 1..end, m + 1 \notin Bad PROVE \E h : Walks(file, m, h)
  <2>1. \E h : Walks(file, m + 1, h)
    <3>1. CASE m + 1 \in 0..end
      BY <1>1, <3>1
    <3>2. CASE m + 1 \notin 0..end
      BY <3>2, WalkNowhere
    <3>. QED
      BY <3>1, <3>2
  <2>. QED
    BY <2>1, WalkExtends
<1>2. Bad = {}
  <2>1. SUFFICES ASSUME Bad # {} PROVE FALSE
    OBVIOUS
  <2>2. PICK m \in Bad : \A k \in Bad : k <= m
    <3>. HIDE DEF Bad
    <3>1. Bad \subseteq 0..end /\ end \in Nat
      BY DEF Bad
    <3>. QED
      BY <2>1, <3>1, GreatestNatural
  <2>3. m \in 1..end /\ m + 1 \notin Bad /\ ~(\E h : Walks(file, m, h))
    BY <2>2
  <2>. QED
    BY <1>1, <2>3
<1>3. \E h : Walks(file, 3, h)
  <2>1. CASE 3 \in 1..end
    BY <1>2, <2>1
  <2>2. CASE 3 \notin 1..end
    BY <2>2, WalkNowhere
  <2>. QED
    BY <2>1, <2>2
<1>4. Walk(file) = CHOOSE h : Walks(file, 3, h)
  BY DEF Walk, WalkFrom, Walks
<1>5. Walks(file, 3, Walk(file))
  BY <1>3, <1>4, Zenon
<1>. DEFINE w == Walk(file)
            F(start) == WalkFrom(file, w, start)
<1>6. w = [start \in 3..end |-> F(start)]
  BY <1>5 DEF Walks
<1>. HIDE DEF w, F
<1>7. w = [start \in 3..end |-> w[start]] /\ \A start \in 3..end : w[start] = F(start)
  BY <1>6
<1>. QED
  BY <1>7 DEF w, F

\* The walk finds nothing but records whose heads are in the file.
LEMMA WalkHeads ==
  ASSUME NEW file, Len(file) \in Nat, DOMAIN file = 1..Len(file), Sized(file), NEW R,
         \A i \in DOMAIN file :
           file[i].cell = "head" /\ Good(file[i].rec, file[1].rec.gen) => file[i].rec \in R
  PROVE  /\ \A start \in 3..(Len(file) + 1) : Walk(file)[start] \in Seq(R)
         /\ RecordsOf(file) \in Seq(R)
<1>. DEFINE end == Len(file) + 1
            w   == Walk(file)
            Bad == {m \in 3..end : w[m] \notin Seq(R)}
<1>1. ASSUME NEW m \in 3..end, \A k \in (m + 1)..end : w[k] \in Seq(R)
      PROVE  w[m] \in Seq(R)
  <2>1. w[m] = WalkFrom(file, w, m)
    BY WalkStep
  <2>2. CASE m > Len(file) \/ ~IntactAt(file, file[1].rec.gen, m)
    BY <2>1, <2>2 DEF WalkFrom
  <2>3. CASE ~(m > Len(file) \/ ~IntactAt(file, file[1].rec.gen, m))
    <3>1. /\ m + Size(file[m].rec) \in (m + 1)..end
          /\ file[m].cell = "head" /\ Good(file[m].rec, file[1].rec.gen)
      BY <2>3, IntactEnds
    <3>2. file[m].rec \in R
      BY <2>3, <3>1
    <3>3. w[m + Size(file[m].rec)] \in Seq(R)
      BY <1>1, <3>1
    <3>. HIDE DEF w
    <3>4. w[m] = <<file[m].rec>> \o w[m + Size(file[m].rec)]
      BY <2>1, <2>3 DEF WalkFrom
    <3>. QED
      BY <3>2, <3>3, <3>4
  <2>. QED
    BY <2>2, <2>3
<1>2. Bad = {}
  <2>. HIDE DEF w
  <2>1. SUFFICES ASSUME Bad # {} PROVE FALSE
    OBVIOUS
  <2>2. PICK m \in Bad : \A k \in Bad : k <= m
    <3>. HIDE DEF Bad
    <3>1. Bad \subseteq 0..end /\ end \in Nat
      BY DEF Bad
    <3>. QED
      BY <2>1, <3>1, GreatestNatural
  <2>3. m \in 3..end /\ \A k \in (m + 1)..end : w[k] \in Seq(R)
    BY <2>2
  <2>. QED
    BY <1>1, <2>2, <2>3
<1>3. \A start \in 3..end : w[start] \in Seq(R)
  BY <1>2
<1>4. RecordsOf(file) \in Seq(R)
  <2>1. CASE HeaderStatus(file) = "Ok"
    <3>1. 3 \in 3..end
      BY <2>1 DEF HeaderStatus, Size, Data, Header
    <3>. QED
      BY <1>3, <2>1, <3>1 DEF RecordsOf
  <2>2. CASE HeaderStatus(file) # "Ok"
    BY <2>2 DEF RecordsOf
  <2>. QED
    BY <2>1, <2>2
<1>. QED
  BY <1>3, <1>4

\* The records of a layout end in the file, one behind the other.
LEMMA LayoutEnds ==
  ASSUME NEW file, Len(file) \in Nat, NEW gen, NEW recs, NEW at, Layout(file, gen, recs, at)
  PROVE  /\ \A i \in 0..Len(recs) : at[i] \in 2..Len(file)
         /\ \A i \in 1..Len(recs) : /\ at[i - 1] \in 2..Len(file) /\ at[i] = at[i - 1] + Size(recs[i])
                                    /\ Size(recs[i]) \in Nat /\ Size(recs[i]) >= 2
                                    /\ Good(recs[i], gen) /\ Holds(file, at[i - 1] + 1, recs[i])
<1>. DEFINE n   == Len(recs)
            Bad == {i \in 0..n : ~(at[i] \in 2..Len(file))}
<1>1. n \in Nat /\ at[0] = 2 /\ 2 <= Len(file)
  BY DEF Layout
<1>2. ASSUME NEW i \in 1..n
      PROVE  /\ at[i] = at[i - 1] + Size(recs[i]) /\ at[i] <= Len(file)
             /\ Size(recs[i]) \in Nat /\ Size(recs[i]) >= 2
             /\ Good(recs[i], gen) /\ Holds(file, at[i - 1] + 1, recs[i])
  <2>1. Good(recs[i], gen)
    BY DEF Layout
  <2>2. Size(recs[i]) \in Nat /\ Size(recs[i]) >= 2
    BY <2>1, SizeNat DEF Good
  <2>. QED
    BY <2>1, <2>2 DEF Layout
<1>3. ASSUME NEW i \in 0..n, i \notin 2..0, \A j \in 0..n : j < i => at[j] \in 2..Len(file)
      PROVE  at[i] \in 2..Len(file)
  <2>1. CASE i = 0
    BY <1>1, <2>1
  <2>2. CASE i # 0
    <3>1. i \in 1..n /\ i - 1 \in 0..n /\ i - 1 < i
      BY <1>1, <2>2
    <3>2. at[i - 1] \in 2..Len(file)
      BY <1>3, <3>1
    <3>3. /\ at[i] = at[i - 1] + Size(recs[i]) /\ at[i] <= Len(file)
          /\ Size(recs[i]) \in Nat /\ at[i - 1] \in Nat /\ at[i - 1] >= 2
      BY <1>2, <3>1, <3>2
    <3>. QED
      BY <3>3
  <2>. QED
    BY <2>1, <2>2
<1>4. Bad = {}
  <2>1. SUFFICES ASSUME Bad # {} PROVE FALSE
    OBVIOUS
  <2>2. PICK i \in Bad : \A j \in Bad : i <= j
    <3>. HIDE DEF Bad
    <3>1. Bad \subseteq Nat
      BY <1>1 DEF Bad
    <3>. QED
      BY <2>1, <3>1, LeastNatural
  <2>3. i \in 0..n /\ i \notin 2..0 /\ at[i] \notin 2..Len(file)
    BY <1>1, <2>2
  <2>4. \A j \in 0..n : j < i => j \notin Bad
    <3>. HIDE DEF Bad
    <3>. QED
      BY <1>1, <2>2, <2>3
  <2>5. \A j \in 0..n : j < i => at[j] \in 2..Len(file)
    BY <2>4
  <2>. QED
    BY <1>3, <2>3, <2>5
<1>5. \A i \in 0..n : at[i] \in 2..Len(file)
  BY <1>4
<1>6. \A i \in 1..n : at[i - 1] \in 2..Len(file)
  <2>. TAKE i \in 1..n
  <2>1. i - 1 \in 0..n
    BY <1>1
  <2>. QED
    BY <1>5, <2>1
<1>. QED
  BY <1>2, <1>5, <1>6

\* What an element before a sequence makes of it.
LEMMA ConsSeq ==
  ASSUME NEW R, NEW rec \in R, NEW s \in Seq(R)
  PROVE  /\ Len(<<rec>> \o s) = Len(s) + 1 /\ (<<rec>> \o s)[1] = rec
         /\ \A j \in 1..Len(s) : (<<rec>> \o s)[j + 1] = s[j]
OBVIOUS

\* The numbers of the cells of a record that begins behind cell a.
LEMMA NextStart ==
  \A end \in Nat : \A a, b \in 2..end : \A size \in Nat : size >= 2 /\ b = a + size =>
    /\ a + 1 \in 3..(end + 1) /\ a + 1 <= end /\ a + 1 + size = b + 1
    /\ a + 1 \in Nat \ {0} /\ a + 1 + size - 1 <= end
OBVIOUS

\* The cells of a record that ends at b are not behind c.
LEMMA CellWithin ==
  \A a, b, c, size \in Nat : b = a + size /\ b <= c =>
    \A j \in 1..size : a + 1 + j - 1 \in 1..c
OBVIOUS

\* The number of a cell behind the first a in the record there.
LEMMA CellOf ==
  \A a, size \in Nat : \A i \in 1..(a + size) :
    i > a => i - a \in 1..size /\ a + 1 + (i - a) - 1 = i
OBVIOUS

\* A file is read back record by record, when there is no other behind the last.
LEMMA WalkReads ==
  ASSUME NEW file, IsSeq(file), Sized(file), NEW gen, NEW recs, IsSeq(recs), NEW at,
         Layout(file, gen, recs, at),
         at[Len(recs)] = Len(file) \/ ~IntactAt(file, gen, at[Len(recs)] + 1)
  PROVE  file[1].rec.gen = gen /\ RecordsOf(file) = recs
<1>. DEFINE n   == Len(recs)
            w   == Walk(file)
            end == Len(file) + 1
            R   == {file[i].rec : i \in DOMAIN file}
<1>1. Len(file) \in Nat /\ DOMAIN file = 1..Len(file) /\ n \in Nat /\ n \in 0..n
  BY DEF IsSeq
<1>2. /\ file[1].cell = "head" /\ file[1].rec = Header(gen) /\ file[1].rec.gen = gen
      /\ file[2] = CrcCell(Header(gen)) /\ HeaderStatus(file) = "Ok"
  <2>1. Len(Data(Header(gen))) = 0 /\ Size(Header(gen)) = 2
    BY DEF Data, Header, Size
  <2>2. file[1] = Encode(Header(gen))[1] /\ file[2] = Encode(Header(gen))[2]
    BY <2>1 DEF Layout, Holds
  <2>3. file[1] = HeadCell(Header(gen)) /\ file[2] = CrcCell(Header(gen))
    BY <2>1, <2>2, EncodeCells
  <2>4. Size(Header(0)) = 2 /\ Len(file) >= 2
    BY DEF Data, Header, Size, Layout
  <2>. QED
    BY <2>3, <2>4 DEF HeadCell, HeaderStatus, Header, FormatVersion
<1>3. \A i \in 0..n : at[i] \in Nat /\ at[i] + 1 \in 3..end
  <2>1. \A i \in 0..n : at[i] \in 2..Len(file)
    BY <1>1, LayoutEnds, Zenon
  <2>. QED
    BY <1>1, <2>1, SMTT(30)
<1>4. \A start \in 3..end : w[start] \in Seq(R) /\ w[start] = WalkFrom(file, w, start)
  BY <1>1, <1>2, WalkHeads, WalkStep
<1>. HIDE DEF w, R
<1>5. w[at[n] + 1] = <<>>
  <2>1. w[at[n] + 1] = WalkFrom(file, w, at[n] + 1)
    BY <1>1, <1>3, <1>4
  <2>2. at[n] + 1 > Len(file) \/ ~IntactAt(file, gen, at[n] + 1)
    BY <1>1, <1>3
  <2>. QED
    BY <1>2, <2>1, <2>2 DEF WalkFrom
<1>6. ASSUME NEW i \in 1..n
      PROVE  w[at[i - 1] + 1] = <<recs[i]>> \o w[at[i] + 1] /\ recs[i] \in R
  <2>1. PICK start : start = at[i - 1] + 1
    OBVIOUS
  <2>2. /\ at[i - 1] \in 2..Len(file) /\ at[i] = at[i - 1] + Size(recs[i]) /\ at[i] \in 2..Len(file)
        /\ Size(recs[i]) \in Nat /\ Size(recs[i]) >= 2
        /\ Good(recs[i], gen) /\ Holds(file, start, recs[i])
    <3>1. i \in 0..n
      BY <1>1
    <3>2. Len(file) \in Nat
      BY <1>1
    <3>3. at[i] \in 2..Len(file)
      BY <3>1, <3>2, LayoutEnds, Zenon
    <3>4. /\ at[i - 1] \in 2..Len(file) /\ at[i] = at[i - 1] + Size(recs[i])
          /\ Size(recs[i]) \in Nat /\ Size(recs[i]) >= 2
          /\ Good(recs[i], gen) /\ Holds(file, at[i - 1] + 1, recs[i])
      BY <3>2, LayoutEnds, Zenon
    <3>. QED
      BY <2>1, <3>3, <3>4, Zenon
  <2>3. /\ start \in 3..end /\ start <= Len(file) /\ start + Size(recs[i]) = at[i] + 1
        /\ start \in Nat \ {0} /\ start + Size(recs[i]) - 1 <= Len(file)
    <3>1. Len(file) \in Nat
      BY <1>1
    <3>. QED
      BY <2>1, <2>2, <3>1, NextStart, SMTT(30)
  <2>4. IntactAt(file, gen, start) /\ file[start].rec = recs[i]
    BY <2>2, <2>3, HoldsIntact
  <2>5. w[start] = WalkFrom(file, w, start)
    BY <1>4, <2>3
  <2>6. ~(start > Len(file))
    BY <1>1, <2>3
  <2>7. w[start] = <<recs[i]>> \o w[start + Size(recs[i])]
    BY <1>2, <2>4, <2>5, <2>6 DEF WalkFrom
  <2>8. recs[i] \in R
    BY <1>1, <2>3, <2>4 DEF R
  <2>. QED
    BY <2>1, <2>3, <2>7, <2>8
<1>. DEFINE Read(i) == /\ Len(w[at[i] + 1]) = n - i
                       /\ \A j \in 1..(n - i) : w[at[i] + 1][j] = recs[i + j]
<1>7. Read(n)
  BY <1>1, <1>5
<1>8. ASSUME NEW i \in 0..(n - 1), Read(i + 1) PROVE Read(i)
  <2>. DEFINE s == w[at[i + 1] + 1]
              t == w[at[i] + 1]
  <2>1. i + 1 \in 1..n /\ i + 1 \in 0..n /\ i + 1 - 1 = i /\ n - (i + 1) + 1 = n - i
    BY <1>1
  <2>2. t = <<recs[i + 1]>> \o s
    BY <1>6, <2>1
  <2>3. s \in Seq(R) /\ recs[i + 1] \in R
    <3>1. at[i + 1] + 1 \in 3..end
      BY <1>3, <2>1
    <3>2. w[at[i + 1] + 1] \in Seq(R)
      BY <1>4, <3>1
    <3>. QED
      BY <1>6, <2>1, <3>2
  <2>4. Len(s) = n - (i + 1) /\ \A j \in 1..(n - (i + 1)) : s[j] = recs[i + 1 + j]
    BY <1>8
  <2>. HIDE DEF s, t
  <2>5. Len(t) = Len(s) + 1 /\ t[1] = recs[i + 1] /\ \A j \in 1..Len(s) : t[j + 1] = s[j]
    BY <2>2, <2>3, ConsSeq
  <2>6. Len(t) = n - i
    BY <1>1, <2>1, <2>4, <2>5
  <2>7. ASSUME NEW j \in 1..(n - i) PROVE t[j] = recs[i + j]
    <3>1. CASE j = 1
      BY <2>5, <3>1
    <3>2. CASE j # 1
      <4>1. j - 1 \in 1..Len(s) /\ j - 1 + 1 = j /\ i + 1 + (j - 1) = i + j
            /\ j - 1 \in 1..(n - (i + 1))
        BY <1>1, <2>4, <3>2
      <4>2. t[j - 1 + 1] = s[j - 1] /\ s[j - 1] = recs[i + 1 + (j - 1)]
        BY <2>4, <2>5, <4>1
      <4>. QED
        BY <4>1, <4>2
    <3>. QED
      BY <3>1, <3>2
  <2>. QED
    BY <2>6, <2>7 DEF t
<1>9. Read(0)
  <2>. DEFINE Bad == {i \in 0..n : ~Read(i)}
  <2>. HIDE DEF Read
  <2>1. SUFFICES ASSUME Bad # {} PROVE FALSE
    BY <1>1
  <2>2. PICK i \in Bad : \A j \in Bad : j <= i
    <3>. HIDE DEF Bad
    <3>1. Bad \subseteq 0..n
      BY DEF Bad
    <3>. QED
      BY <1>1, <2>1, <3>1, GreatestNatural
  <2>3. i \in 0..n /\ ~Read(i) /\ i # n
    BY <1>7, <2>2
  <2>4. i \in 0..(n - 1) /\ i + 1 \in 0..n /\ i + 1 > i
    BY <1>1, <2>3
  <2>5. i + 1 \notin Bad
    <3>. HIDE DEF Bad
    <3>. QED
      BY <1>1, <2>2, <2>4
  <2>6. Read(i + 1)
    BY <2>4, <2>5
  <2>. QED
    BY <1>8, <2>3, <2>4, <2>6
<1>10. at[0] + 1 = 3 /\ 3 \in 3..end
  BY <1>1, <1>3 DEF Layout
<1>11. Len(w[3]) = n /\ w[3] \in Seq(R) /\ \A j \in 1..n : w[3][j] = recs[j]
  <2>1. n - 0 = n /\ \A j \in 1..n : 0 + j = j
    BY <1>1
  <2>. QED
    BY <1>4, <1>9, <1>10, <2>1
<1>12. w[3] = recs
  <2>1. IsSeq(w[3])
    BY <1>11, SeqIsSeq
  <2>. QED
    BY <1>11, <2>1, SeqEqual
<1>. QED
  BY <1>2, <1>12 DEF RecordsOf, w

-----------------------------------------------------------------------------
(* The writer, and a crash. *)

\* The cells of a record are a sequence.
LEMMA EncodeIsSeq ==
  ASSUME NEW rec, Len(Data(rec)) \in Nat
  PROVE  IsSeq(Encode(rec)) /\ Len(Encode(rec)) = Size(rec)
<1>1. Size(rec) \in Nat /\ Len(Encode(rec)) = Size(rec)
  BY SizeNat, EncodeCells
<1>2. Encode(rec) = [i \in 1..Size(rec) |-> Encode(rec)[i]]
  BY DEF Encode
<1>. QED
  BY <1>1, <1>2 DEF IsSeq

\* A file without a record.
LEMMA LayoutNew ==
  ASSUME NEW gen, NEW file, file = Encode(Header(gen))
  PROVE  /\ IsSeq(file) /\ Len(file) = 2 /\ Sized(file)
         /\ Layout(file, gen, <<>>, [i \in 0..0 |-> 2])
<1>1. Len(Data(Header(gen))) = 0 /\ Len(Data(Header(gen))) \in Nat /\ Size(Header(gen)) = 2
  BY DEF Data, Header, Size
<1>2. IsSeq(file) /\ Len(file) = 2
  <2>1. IsSeq(Encode(Header(gen))) /\ Len(Encode(Header(gen))) = Size(Header(gen))
    BY <1>1, EncodeIsSeq, Zenon
  <2>. QED
    BY <1>1, <2>1
<1>3. DOMAIN file = 1..2 /\ file[1] = HeadCell(Header(gen)) /\ file[2] = CrcCell(Header(gen))
  <2>. DEFINE e == Encode(Header(gen))
  <2>1. /\ DOMAIN e = 1..Size(Header(gen)) /\ e[1] = HeadCell(Header(gen))
        /\ e[Size(Header(gen))] = CrcCell(Header(gen))
    BY <1>1, EncodeCells, Zenon
  <2>. HIDE DEF e
  <2>2. DOMAIN e = 1..2 /\ e[1] = HeadCell(Header(gen)) /\ e[2] = CrcCell(Header(gen))
    BY <1>1, <2>1
  <2>. QED
    BY <2>2 DEF e
<1>4. Sized(file)
  <2>1. file[1].rec = Header(gen) /\ file[2].cell # "head"
    BY <1>3 DEF HeadCell, CrcCell
  <2>2. \A i \in DOMAIN file : i = 1 \/ i = 2
    BY <1>3
  <2>3. Len(Data(file[1].rec)) \in Nat
    BY <1>1, <2>1
  <2>4. \A i \in DOMAIN file : file[i].cell = "head" => i = 1
    BY <2>1, <2>2, Zenon
  <2>. QED
    BY <2>3, <2>4, Zenon DEF Sized
<1>5. Holds(file, 1, Header(gen))
  <2>1. \A j \in 1..2 : 1 + j - 1 = j
    OBVIOUS
  <2>2. \A j \in 1..2 : file[1 + j - 1] = Encode(Header(gen))[j]
    BY <2>1
  <2>. QED
    BY <1>1, <2>2 DEF Holds
<1>6. Len(<<>>) = 0 /\ \A i \in 1..0 : FALSE
  OBVIOUS
<1>. DEFINE ends == [i \in 0..0 |-> 2]
<1>7. ends \in [0..0 -> Nat] /\ ends[0] = 2
  OBVIOUS
<1>. HIDE DEF ends
<1>8. Layout(file, gen, <<>>, ends)
  BY <1>2, <1>5, <1>6, <1>7 DEF Layout
<1>. QED
  BY <1>2, <1>4, <1>8 DEF ends

\* A layout is one of every file that begins with its cells.
LEMMA LayoutPrefix ==
  ASSUME NEW file, Len(file) \in Nat, NEW gen, NEW recs, IsSeq(recs), NEW at,
         Layout(file, gen, recs, at),
         NEW k \in 0..Len(recs), NEW img, Len(img) \in Nat, at[k] <= Len(img),
         \A i \in 1..at[k] : img[i] = file[i]
  PROVE  Layout(img, gen, SubSeq(recs, 1, k), [i \in 0..k |-> at[i]])
<1>. DEFINE sub == SubSeq(recs, 1, k)
            ends == [i \in 0..k |-> at[i]]
<1>1. Len(recs) \in Nat /\ k \in Nat /\ k <= Len(recs)
  BY DEF IsSeq
<1>2. Len(sub) = k /\ \A i \in 1..k : sub[i] = recs[i]
  BY Prefix
<1>3. \A i \in 0..Len(recs) : at[i] \in 2..Len(file)
  BY LayoutEnds, Zenon
<1>4. ASSUME NEW i \in 1..k
      PROVE  /\ at[i - 1] \in 2..Len(file) /\ at[i] = at[i - 1] + Size(recs[i])
             /\ Size(recs[i]) \in Nat /\ Size(recs[i]) >= 2
             /\ Good(recs[i], gen) /\ Holds(file, at[i - 1] + 1, recs[i])
  <2>1. i \in 1..Len(recs)
    BY <1>1
  <2>. QED
    BY <2>1, LayoutEnds, Zenon
<1>5. \A i \in 0..k : at[i] \in Nat /\ at[i] >= 2 /\ at[i] <= at[k]
  <2>. DEFINE Bad == {i \in 0..k : ~(at[i] <= at[k])}
  <2>1. \A i \in 0..k : at[i] \in Nat /\ at[i] >= 2
    BY <1>1, <1>3
  <2>2. ASSUME NEW i \in Bad, \A j \in Bad : j <= i PROVE FALSE
    <3>1. i \in 0..k /\ i # k /\ ~(at[i] <= at[k])
      BY <1>1, <2>1
    <3>2. i + 1 \in 1..k /\ i + 1 \in 0..k /\ i + 1 - 1 = i /\ i + 1 > i
      BY <1>1, <3>1
    <3>3. i + 1 \notin Bad
      <4>. HIDE DEF Bad
      <4>1. i \in Nat
        BY <1>1, <3>1
      <4>. QED
        BY <2>2, <3>2, <4>1
    <3>4. at[i + 1] <= at[k]
      BY <3>2, <3>3
    <3>5. at[i + 1] = at[i] + Size(recs[i + 1]) /\ Size(recs[i + 1]) \in Nat
      BY <1>4, <3>2
    <3>. QED
      BY <2>1, <3>1, <3>2, <3>4, <3>5
  <2>3. Bad = {}
    <3>. HIDE DEF Bad
    <3>1. Bad \subseteq 0..k
      BY DEF Bad
    <3>. QED
      BY <1>1, <2>2, <3>1, GreatestNatural
  <2>. QED
    BY <2>1, <2>3
<1>6. ends \in [0..k -> Nat] /\ ends[0] = 2 /\ \A i \in 0..k : ends[i] = at[i]
  <2>1. at[0] = 2 /\ 0 \in 0..k
    BY <1>1 DEF Layout
  <2>. QED
    BY <1>5, <2>1
<1>7. Len(img) >= 2 /\ Holds(img, 1, Header(gen))
  <2>1. Size(Header(gen)) = 2 /\ Holds(file, 1, Header(gen))
    BY DEF Header, Size, Data, Layout
  <2>2. at[k] \in Nat /\ at[k] >= 2
    BY <1>1, <1>5
  <2>3. img[1] = file[1] /\ img[2] = file[2]
    BY <2>2
  <2>4. ASSUME NEW j \in 1..2 PROVE img[1 + j - 1] = file[1 + j - 1]
    BY <2>3
  <2>. QED
    BY <2>1, <2>2, <2>4 DEF Holds
<1>8. ASSUME NEW i \in 1..k
      PROVE  /\ Good(sub[i], gen) /\ ends[i] = ends[i - 1] + Size(sub[i])
             /\ ends[i] <= Len(img) /\ Holds(img, ends[i - 1] + 1, sub[i])
  <2>1. i \in 0..k /\ i - 1 \in 0..k /\ sub[i] = recs[i]
    BY <1>1, <1>2
  <2>2. ends[i] = at[i] /\ ends[i - 1] = at[i - 1]
    BY <1>6, <2>1
  <2>3. at[i] \in Nat /\ at[i] <= at[k] /\ at[k] \in Nat /\ at[i - 1] \in Nat
    BY <1>1, <1>5, <2>1
  <2>4. Size(recs[i]) \in Nat /\ at[i] = at[i - 1] + Size(recs[i]) /\ Good(recs[i], gen)
        /\ Holds(file, at[i - 1] + 1, recs[i])
    BY <1>4
  <2>5. ASSUME NEW j \in 1..Size(recs[i])
        PROVE  img[at[i - 1] + 1 + j - 1] = Encode(recs[i])[j]
    <3>1. at[i - 1] + 1 + j - 1 \in 1..at[k]
      BY <2>3, <2>4, CellWithin
    <3>2. img[at[i - 1] + 1 + j - 1] = file[at[i - 1] + 1 + j - 1]
      BY <3>1
    <3>. QED
      BY <2>4, <3>2 DEF Holds
  <2>6. Holds(img, at[i - 1] + 1, recs[i])
    BY <2>5, Zenon DEF Holds
  <2>7. at[i] <= Len(img)
    BY <2>3
  <2>. QED
    BY <2>1, <2>2, <2>4, <2>6, <2>7
<1>. HIDE DEF sub, ends
<1>. QED
  BY <1>1, <1>2, <1>6, <1>7, <1>8, Zenon DEF Layout, sub, ends

\* A file with nothing but a header and recs.
Journal(file, gen, recs, at) ==
  /\ IsSeq(file) /\ Sized(file) /\ IsSeq(recs)
  /\ Layout(file, gen, recs, at) /\ at[Len(recs)] = Len(file)

\* What the disk may have behind a cut: no head of a record of that generation,
\* and no cell that a record has behind its head.
Foreign(tail, gen) ==
  /\ IsSeq(tail) /\ (Len(tail) > 0 => tail[1].cell \in {"junk", "head"})
  /\ \A i \in 1..Len(tail) :
       tail[i].cell = "head" => Len(Data(tail[i].rec)) \in Nat /\ tail[i].rec.gen # gen

\* The cells of a record lie behind those of the file that it is appended to.
LEMMA AppendHolds ==
  ASSUME NEW file, IsSeq(file), NEW rec, Len(Data(rec)) \in Nat
  PROVE  /\ IsSeq(file \o Encode(rec)) /\ Len(file \o Encode(rec)) = Len(file) + Size(rec)
         /\ \A i \in 1..Len(file) : (file \o Encode(rec))[i] = file[i]
         /\ Holds(file \o Encode(rec), Len(file) + 1, rec)
<1>. DEFINE enc == Encode(rec)
            new == file \o enc
<1>1. IsSeq(enc) /\ Len(enc) = Size(rec)
  BY EncodeIsSeq
<1>2. Size(rec) \in Nat /\ Len(file) \in Nat
  BY SizeNat DEF IsSeq
<1>. HIDE DEF enc
<1>3. /\ IsSeq(new) /\ Len(new) = Len(file) + Len(enc)
      /\ \A i \in 1..Len(file) : new[i] = file[i]
      /\ \A i \in 1..Len(enc) : new[Len(file) + i] = enc[i]
  <2>1. ASSUME IsSeq(enc) PROVE IsSeq(new)
    BY <2>1, ConcatSeq
  <2>2. Len(new) = Len(file) + Len(enc)
    BY <1>1, ConcatSeq
  <2>3. \A i \in 1..Len(file) : new[i] = file[i]
    BY <1>1, ConcatSeq
  <2>4. \A i \in 1..Len(enc) : new[Len(file) + i] = enc[i]
    BY <1>1, ConcatSeq
  <2>. QED
    BY <1>1, <2>1, <2>2, <2>3, <2>4
<1>. HIDE DEF new
<1>4. \A j \in 1..Size(rec) : Len(file) + 1 + j - 1 = Len(file) + j
  BY <1>2
<1>5. \A j \in 1..Size(rec) : new[Len(file) + 1 + j - 1] = enc[j]
  BY <1>1, <1>3, <1>4
<1>6. Holds(new, Len(file) + 1, rec)
  BY <1>5, Zenon DEF Holds, enc
<1>. QED
  BY <1>1, <1>3, <1>6 DEF new, enc

\* A whole record behind a journal makes a journal with one record more.
LEMMA JournalAppend ==
  ASSUME NEW file, NEW gen, NEW recs, NEW at, Journal(file, gen, recs, at),
         NEW rec, Good(rec, gen)
  PROVE  LET new == Append(recs, rec)
             at2 == [i \in 0..(Len(recs) + 1) |->
                       IF i = Len(recs) + 1 THEN Len(file) + Size(rec) ELSE at[i]]
         IN Journal(file \o Encode(rec), gen, new, at2) /\ Len(new) = Len(recs) + 1
<1>. DEFINE n   == Len(recs)
            fl  == Len(file)
            sz  == Size(rec)
            new == Append(recs, rec)
            img == file \o Encode(rec)
            at2 == [i \in 0..(n + 1) |-> IF i = n + 1 THEN fl + sz ELSE at[i]]
<1>1. /\ IsSeq(file) /\ Sized(file) /\ IsSeq(recs) /\ Layout(file, gen, recs, at)
      /\ at[n] = fl /\ n \in Nat /\ fl \in Nat
  BY DEF Journal, IsSeq
<1>2. Len(Data(rec)) \in Nat /\ sz \in Nat /\ sz >= 2
  BY SizeNat DEF Good
<1>3. /\ IsSeq(img) /\ Len(img) = fl + sz /\ \A i \in 1..fl : img[i] = file[i]
      /\ Holds(img, fl + 1, rec)
  BY <1>1, <1>2, AppendHolds
<1>4. IsSeq(new) /\ Len(new) = n + 1 /\ new[n + 1] = rec /\ \A i \in 1..n : new[i] = recs[i]
  <2>1. recs \in Seq({recs[i] : i \in 1..n} \cup {rec})
    BY <1>1 DEF IsSeq
  <2>2. new \in Seq({recs[i] : i \in 1..n} \cup {rec})
    BY <2>1
  <2>3. Len(new) = n + 1 /\ new[n + 1] = rec /\ \A i \in 1..n : new[i] = recs[i]
    BY <2>1
  <2>. QED
    BY <2>2, <2>3, SeqIsSeq
<1>5. \A i \in 0..n : at[i] \in 2..fl
  BY <1>1, LayoutEnds, Zenon
<1>. HIDE DEF new, img, n, fl, sz
<1>6. /\ at2 \in [0..(n + 1) -> Nat] /\ at2[n + 1] = fl + sz
      /\ \A i \in 0..n : at2[i] = at[i]
  <2>1. fl + sz \in Nat /\ \A i \in 0..(n + 1) : i # n + 1 => i \in 0..n /\ at[i] \in Nat
    BY <1>1, <1>2, <1>5
  <2>2. n + 1 \in 0..(n + 1) /\ \A i \in 0..n : i \in 0..(n + 1) /\ i # n + 1
    BY <1>1
  <2>. QED
    BY <2>1, <2>2, Zenon
<1>. HIDE DEF at2
<1>7. Layout(img, gen, SubSeq(recs, 1, n), [i \in 0..n |-> at[i]])
  <2>1. n \in 0..Len(recs) /\ Len(img) \in Nat /\ at[n] <= Len(img)
    BY <1>1, <1>2, <1>3 DEF n
  <2>2. \A i \in 1..at[n] : img[i] = file[i]
    BY <1>1, <1>3
  <2>3. Len(file) \in Nat
    BY <1>1 DEF fl
  <2>. QED
    BY <1>1, <2>1, <2>2, <2>3, LayoutPrefix
<1>8. /\ Len(img) >= 2 /\ Holds(img, 1, Header(gen)) /\ at2[0] = 2
  <2>1. [i \in 0..n |-> at[i]][0] = at[0] /\ 0 \in 0..n
    BY <1>1
  <2>. QED
    BY <1>6, <1>7, <2>1 DEF Layout
<1>9. ASSUME NEW i \in 1..(n + 1)
      PROVE  /\ Good(new[i], gen) /\ at2[i] = at2[i - 1] + Size(new[i])
             /\ at2[i] <= Len(img) /\ Holds(img, at2[i - 1] + 1, new[i])
  <2>1. CASE i = n + 1
    <3>1. i - 1 = n /\ n \in 0..n
      BY <1>1, <2>1
    <3>2. at2[i - 1] = fl /\ at2[i] = fl + sz /\ new[i] = rec
      BY <1>1, <1>4, <1>6, <2>1, <3>1
    <3>3. fl + sz <= Len(img)
      BY <1>1, <1>2, <1>3
    <3>. QED
      BY <1>3, <3>2, <3>3 DEF sz
  <2>2. CASE i # n + 1
    <3>1. i \in 1..n /\ i \in 0..n /\ i - 1 \in 0..n
      BY <1>1, <2>2
    <3>2. at2[i - 1] = at[i - 1] /\ at2[i] = at[i] /\ new[i] = recs[i]
      BY <1>4, <1>6, <3>1
    <3>3. SubSeq(recs, 1, n)[i] = recs[i] /\ Len(SubSeq(recs, 1, n)) = n
      <4>1. n \in 0..Len(recs)
        BY <1>1 DEF n
      <4>. QED
        BY <1>1, <3>1, <4>1, Prefix, Zenon
    <3>4. /\ Good(recs[i], gen)
          /\ [j \in 0..n |-> at[j]][i] = [j \in 0..n |-> at[j]][i - 1] + Size(recs[i])
          /\ [j \in 0..n |-> at[j]][i] <= Len(img)
          /\ Holds(img, [j \in 0..n |-> at[j]][i - 1] + 1, recs[i])
      BY <1>7, <3>1, <3>3 DEF Layout
    <3>. QED
      BY <3>1, <3>2, <3>4
  <2>. QED
    BY <2>1, <2>2
<1>10. Layout(img, gen, new, at2)
  <2>1. n + 1 \in Nat
    BY <1>1
  <2>. QED
    BY <1>4, <1>6, <1>8, <1>9, <2>1, Zenon DEF Layout
<1>11. Sized(img)
  <2>1. \A i \in 1..fl : img[i].cell = "head" => Len(Data(img[i].rec)) \in Nat
    <3>1. DOMAIN file = 1..fl
      BY <1>1 DEF IsSeq, fl
    <3>. QED
      BY <1>1, <1>3, <3>1 DEF Sized
  <2>2. ASSUME NEW i \in 1..(fl + sz), i > fl, img[i].cell = "head" PROVE Len(Data(img[i].rec)) \in Nat
    <3>1. i - fl \in 1..sz /\ fl + 1 + (i - fl) - 1 = i
      BY <1>1, <1>2, <2>2, CellOf
    <3>2. img[i] = Encode(rec)[i - fl]
      BY <1>3, <3>1 DEF Holds, sz
    <3>3. i - fl = 1
      <4>1. CASE i - fl \in 2..sz
        <5>1. Encode(rec)[i - fl].cell \in {"byte", "crc"}
          BY <1>2, <4>1, EncodeCells DEF sz
        <5>. QED
          BY <2>2, <3>2, <5>1
      <4>2. CASE i - fl \notin 2..sz
        BY <1>2, <3>1, <4>2
      <4>. QED
        BY <4>1, <4>2
    <3>4. img[i] = HeadCell(rec)
      BY <1>2, <3>2, <3>3, EncodeCells
    <3>. QED
      BY <1>2, <3>4 DEF HeadCell
  <2>3. DOMAIN img = 1..(fl + sz)
    BY <1>3 DEF IsSeq
  <2>4. \A i \in 1..(fl + sz) : i \in 1..fl \/ i > fl
    BY <1>1
  <2>. QED
    BY <2>1, <2>2, <2>3, <2>4, Zenon DEF Sized
<1>12. at2[Len(new)] = Len(img)
  BY <1>3, <1>4, <1>6
<1>. QED
  BY <1>3, <1>4, <1>10, <1>11, <1>12 DEF Journal, at2, new, img, n, fl, sz

\* A record that is intact has its cells in the file.
LEMMA IntactHolds ==
  ASSUME NEW file, IsSeq(file), Sized(file), NEW gen, NEW start \in 1..Len(file),
         IntactAt(file, gen, start)
  PROVE  /\ file[start].cell = "head" /\ file[start].rec.gen = gen
         /\ start + Size(file[start].rec) - 1 <= Len(file)
         /\ Holds(file, start, file[start].rec)
<1>. DEFINE rec  == file[start].rec
            size == Size(rec)
            sub  == SubSeq(file, start, start + size - 1)
<1>1. /\ file[start].cell = "head" /\ rec.gen = gen /\ start + size - 1 <= Len(file)
      /\ sub = Encode(rec)
  BY Zenon DEF IntactAt
<1>2. Len(file) \in Nat /\ DOMAIN file = 1..Len(file)
  BY DEF IsSeq
<1>3. Len(Data(rec)) \in Nat
  BY <1>1, <1>2 DEF Sized
<1>4. size \in Nat
  BY <1>3, SizeNat
<1>. HIDE DEF rec, size
<1>5. sub = [j \in 1..size |-> file[start + j - 1]]
  BY <1>1, <1>2, <1>4, SubSeqOf
<1>. HIDE DEF sub
<1>6. \A j \in 1..size : Encode(rec)[j] = file[start + j - 1]
  BY <1>1, <1>5
<1>7. Holds(file, start, rec)
  BY <1>6, Zenon DEF Holds, size
<1>. QED
  BY <1>1, <1>7 DEF rec, size

\* What a crash leaves of a file that it cuts after m cells.
CutImage(img, file, m, tail) == img = SubSeq(file, 1, m) \o tail

\* The cells of a crash image, cut after m cells.
LEMMA ImageCells ==
  ASSUME NEW file, IsSeq(file), Sized(file), NEW m \in 2..Len(file), NEW gen,
         NEW tail, Foreign(tail, gen), NEW img, CutImage(img, file, m, tail)
  PROVE  /\ IsSeq(img) /\ Len(img) = m + Len(tail) /\ Len(img) \in Nat /\ Sized(img)
         /\ \A i \in 1..m : img[i] = file[i]
         /\ \A i \in 1..Len(tail) : img[m + i] = tail[i]
         /\ \A i \in 1..Len(img) : i > m => i - m \in 1..Len(tail) /\ img[i] = tail[i - m]
<1>. DEFINE cut == SubSeq(file, 1, m)
            t   == Len(tail)
<1>1. m \in 0..Len(file) /\ m \in Nat /\ Len(file) \in Nat /\ t \in Nat /\ IsSeq(tail)
  BY DEF IsSeq, Foreign
<1>2. IsSeq(cut) /\ Len(cut) = m /\ \A i \in 1..m : cut[i] = file[i]
  BY <1>1, Prefix
<1>. HIDE DEF cut, t
<1>3. /\ IsSeq(img) /\ Len(img) = Len(cut) + Len(tail)
      /\ \A i \in 1..Len(cut) : img[i] = cut[i]
      /\ \A i \in 1..Len(tail) : img[Len(cut) + i] = tail[i]
  <2>1. img = cut \o tail
    BY DEF cut, CutImage
  <2>2. /\ IsSeq(cut \o tail) /\ Len(cut \o tail) = Len(cut) + Len(tail)
        /\ \A i \in 1..Len(cut) : (cut \o tail)[i] = cut[i]
    BY <1>1, <1>2, ConcatSeq
  <2>3. \A i \in 1..Len(tail) : (cut \o tail)[Len(cut) + i] = tail[i]
    BY <1>1, <1>2, ConcatSeq
  <2>. QED
    BY <2>1, <2>2, <2>3
<1>4. Len(img) = m + t /\ Len(img) \in Nat /\ DOMAIN img = 1..(m + t)
  BY <1>1, <1>2, <1>3 DEF t, IsSeq
<1>5. /\ \A i \in 1..m : img[i] = file[i]
      /\ \A i \in 1..t : img[m + i] = tail[i]
  BY <1>2, <1>3 DEF t
<1>6. ASSUME NEW i \in 1..(m + t), i > m PROVE i - m \in 1..t /\ img[i] = tail[i - m]
  <2>1. i - m \in 1..t
    BY <1>1, <1>6, CellOf
  <2>2. m + (i - m) = i
    BY <1>1
  <2>. QED
    BY <1>5, <2>1, <2>2
<1>7. Sized(img)
  <2>1. \A i \in 1..m : i \in DOMAIN file
    BY <1>1 DEF IsSeq
  <2>2. \A i \in 1..m : img[i].cell = "head" => Len(Data(img[i].rec)) \in Nat
    BY <1>5, <2>1, Zenon DEF Sized
  <2>3. \A i \in 1..(m + t) : i > m /\ img[i].cell = "head" => Len(Data(img[i].rec)) \in Nat
    BY <1>6, Zenon DEF Foreign, t
  <2>4. \A i \in 1..(m + t) : i \in 1..m \/ i > m
    BY <1>1
  <2>. QED
    BY <1>4, <2>2, <2>3, <2>4, Zenon DEF Sized
<1>8. \A i \in 1..Len(img) : i > m => i - m \in 1..t /\ img[i] = tail[i - m]
  BY <1>4, <1>6
<1>. QED
  BY <1>3, <1>4, <1>5, <1>7, <1>8 DEF t

\* Where a cut goes through a record.
LEMMA CutWithin ==
  \A a, m, size, end \in Nat : size >= 2 /\ a < m /\ m < a + size /\ a + 1 + size - 1 <= end =>
    /\ m + 1 - a \in 2..size /\ m + 1 - a \in 1..size /\ a + 1 + (m + 1 - a) - 1 = m + 1
    /\ m + 1 \in 1..end /\ m + 1 > m
OBVIOUS

\* Where a record begins before a cut, and where one ends before it.
LEMMA CutBehind ==
  /\ \A m, end \in Nat : \A a \in 2..end :
       a <= m /\ m # a => a \in Nat /\ a < m /\ a + 1 \in 1..m
  /\ \A a, size \in Nat : size >= 2 => 1 \in 1..size /\ a + 1 + 1 - 1 = a + 1
OBVIOUS

\* The cells before the end of a record are before the cut behind it.
LEMMA CutBefore ==
  \A a, m, t \in Nat : a <= m => a <= m + t /\ \A i \in 1..a : i \in 1..m
OBVIOUS

\* A crash leaves the records that end before the cut, and no other is found
\* behind them.
LEMMA TornTail ==
  ASSUME NEW file, NEW gen, NEW recs, NEW at, Journal(file, gen, recs, at),
         NEW m \in 2..Len(file), NEW tail, Foreign(tail, gen),
         NEW img, CutImage(img, file, m, tail),
         NEW k \in 0..Len(recs), at[k] <= m, k = Len(recs) \/ m < at[k + 1]
  PROVE  at[k] = Len(img) \/ ~IntactAt(img, gen, at[k] + 1)
<1>. DEFINE start == at[k] + 1
            n     == Len(recs)
<1>1. /\ IsSeq(file) /\ Sized(file) /\ IsSeq(recs) /\ Layout(file, gen, recs, at)
      /\ at[n] = Len(file) /\ n \in Nat /\ Len(file) \in Nat /\ m \in Nat /\ m <= Len(file)
  BY DEF Journal, IsSeq
<1>2. /\ IsSeq(img) /\ Len(img) = m + Len(tail) /\ Len(img) \in Nat /\ Sized(img)
      /\ \A i \in 1..m : img[i] = file[i]
      /\ \A i \in 1..Len(tail) : img[m + i] = tail[i]
      /\ \A i \in 1..Len(img) : i > m => i - m \in 1..Len(tail) /\ img[i] = tail[i - m]
  BY <1>1, ImageCells
<1>3. Len(tail) \in Nat /\ DOMAIN img = 1..Len(img)
  BY <1>2 DEF Foreign, IsSeq
<1>4. at[k] \in 2..Len(file)
  BY <1>1, LayoutEnds, Zenon
<1>5. SUFFICES ASSUME at[k] # Len(img), IntactAt(img, gen, start) PROVE FALSE
  OBVIOUS
<1>. DEFINE rec == img[start].rec
<1>6. /\ img[start].cell = "head" /\ rec.gen = gen /\ start + Size(rec) - 1 <= Len(img)
      /\ Holds(img, start, rec)
  <2>1. start \in 1..Len(img)
    <3>1. at[k] \in Nat /\ at[k] <= Len(img)
      BY <1>1, <1>2, <1>3, <1>4
    <3>. QED
      BY <1>2, <1>5, <3>1
  <2>2. PICK a : a = start
    OBVIOUS
  <2>3. /\ img[a].cell = "head" /\ img[a].rec.gen = gen
        /\ a + Size(img[a].rec) - 1 <= Len(img) /\ Holds(img, a, img[a].rec)
    <3>1. a \in 1..Len(img) /\ IntactAt(img, gen, a) /\ IsSeq(img) /\ Sized(img)
      BY <1>2, <1>5, <2>1, <2>2
    <3>. QED
      BY <3>1, IntactHolds
  <2>. QED
    BY <2>2, <2>3
<1>7. CASE m = at[k]
  <2>1. Len(tail) > 0
    BY <1>2, <1>3, <1>5, <1>7
  <2>2. 1 \in 1..Len(tail)
    BY <1>3, <2>1
  <2>3. img[m + 1] = tail[1]
    BY <1>2, <2>2
  <2>4. tail[1].cell = "head" => tail[1].rec.gen # gen
    BY <2>2 DEF Foreign
  <2>. QED
    BY <1>6, <1>7, <2>3, <2>4
<1>8. CASE m # at[k]
  <2>1. k \in 0..n /\ k # n /\ k + 1 \in 1..n /\ k + 1 - 1 = k /\ m < at[k + 1]
    BY <1>1, <1>4, <1>8
  <2>2. /\ at[k + 1] = at[k] + Size(recs[k + 1]) /\ Size(recs[k + 1]) \in Nat
        /\ Size(recs[k + 1]) >= 2 /\ Good(recs[k + 1], gen) /\ Holds(file, start, recs[k + 1])
    <3>1. PICK i : i = k + 1
      OBVIOUS
    <3>2. i \in 1..n /\ Len(file) \in Nat
      BY <1>1, <2>1, <3>1
    <3>3. /\ at[i - 1] \in 2..Len(file) /\ at[i] = at[i - 1] + Size(recs[i])
          /\ Size(recs[i]) \in Nat /\ Size(recs[i]) >= 2
          /\ Good(recs[i], gen) /\ Holds(file, at[i - 1] + 1, recs[i])
      BY <1>1, <3>2, LayoutEnds, Zenon
    <3>4. i - 1 = k
      BY <2>1, <3>1
    <3>. QED
      BY <3>1, <3>3, <3>4
  <2>3. at[k] \in Nat /\ at[k] < m /\ start \in 1..m
    BY <1>1, <1>4, <1>8, CutBehind
  <2>4. rec = recs[k + 1]
    <3>1. 1 \in 1..Size(recs[k + 1]) /\ start + 1 - 1 = start
      BY <2>2, <2>3, CutBehind
    <3>2. file[start] = Encode(recs[k + 1])[1]
      BY <2>2, <3>1 DEF Holds
    <3>3. file[start] = HeadCell(recs[k + 1])
      BY <2>2, <3>2, EncodeCells DEF Good
    <3>4. img[start] = HeadCell(recs[k + 1])
      BY <1>2, <2>3, <3>3
    <3>. QED
      BY <3>4 DEF HeadCell
  <2>. DEFINE size == Size(rec)
              j    == m + 1 - at[k]
  <2>5. size \in Nat /\ size >= 2 /\ m < at[k] + size /\ Len(Data(rec)) \in Nat
    BY <2>1, <2>2, <2>4 DEF Good
  <2>. HIDE DEF rec, size
  <2>6. /\ j \in 2..size /\ j \in 1..size /\ start + j - 1 = m + 1
        /\ m + 1 \in 1..Len(img) /\ m + 1 > m
    BY <1>1, <1>2, <1>6, <2>3, <2>5, CutWithin DEF size
  <2>7. img[m + 1] = Encode(rec)[j]
    <3>. HIDE DEF j
    <3>1. img[start + j - 1] = Encode(rec)[j]
      BY <1>6, <2>6, Zenon DEF Holds, size
    <3>. QED
      BY <2>6, <3>1
  <2>8. img[m + 1].cell \in {"byte", "crc"}
    BY <2>5, <2>6, <2>7, EncodeCells DEF size
  <2>9. img[m + 1].cell \in {"junk", "head"}
    <3>1. m + 1 - m \in 1..Len(tail) /\ img[m + 1] = tail[m + 1 - m]
      BY <1>2, <2>6
    <3>2. m + 1 - m = 1 /\ Len(tail) > 0
      BY <1>1, <1>3, <3>1
    <3>. QED
      BY <3>1, <3>2 DEF Foreign
  <2>. QED
    BY <2>8, <2>9
<1>. QED
  BY <1>7, <1>8

\* Whatever a crash leaves, the walk reads a prefix of the records, with every
\* record that ends before the cut.
LEMMA CrashReads ==
  ASSUME NEW file, NEW gen, NEW recs, NEW at, Journal(file, gen, recs, at),
         NEW m \in 2..Len(file), NEW tail, Foreign(tail, gen),
         NEW img, CutImage(img, file, m, tail)
  PROVE  \E k \in 0..Len(recs) :
           /\ RecordsOf(img) = SubSeq(recs, 1, k)
           /\ \A i \in 0..Len(recs) : at[i] <= m => i <= k
<1>. DEFINE n == Len(recs)
            T == {i \in 0..n : at[i] <= m}
<1>1. /\ IsSeq(file) /\ Sized(file) /\ IsSeq(recs) /\ Layout(file, gen, recs, at)
      /\ at[n] = Len(file) /\ n \in Nat /\ Len(file) \in Nat /\ m \in Nat /\ m >= 2
  BY DEF Journal, IsSeq
<1>2. at[0] = 2 /\ \A i \in 0..n : at[i] \in 2..Len(file)
  BY <1>1, LayoutEnds, Zenon DEF Layout
<1>3. 0 \in T
  BY <1>1, <1>2
<1>4. PICK k \in T : \A i \in T : i <= k
  <2>. HIDE DEF T
  <2>1. T \subseteq 0..n
    BY DEF T
  <2>. QED
    BY <1>1, <1>3, <2>1, GreatestNatural
<1>5. k \in 0..n /\ at[k] <= m /\ \A i \in 0..n : at[i] <= m => i <= k
  BY <1>4
<1>6. k = n \/ m < at[k + 1]
  <2>1. SUFFICES ASSUME k # n PROVE m < at[k + 1]
    OBVIOUS
  <2>2. k + 1 \in 0..n /\ ~(k + 1 <= k)
    BY <1>1, <1>5, <2>1
  <2>3. ~(at[k + 1] <= m) /\ at[k + 1] \in 2..Len(file)
    BY <1>2, <1>5, <2>2
  <2>. QED
    BY <1>1, <2>3
<1>7. at[k] = Len(img) \/ ~IntactAt(img, gen, at[k] + 1)
  BY <1>5, <1>6, TornTail
<1>8. /\ IsSeq(img) /\ Len(img) = m + Len(tail) /\ Len(img) \in Nat /\ Sized(img)
      /\ \A i \in 1..m : img[i] = file[i]
  BY <1>1, ImageCells
<1>. DEFINE sub  == SubSeq(recs, 1, k)
            ends == [i \in 0..k |-> at[i]]
<1>9. IsSeq(sub) /\ Len(sub) = k
  BY <1>1, <1>5, Prefix
<1>10. Layout(img, gen, sub, ends)
  <2>1. Len(tail) \in Nat /\ at[k] \in Nat
    BY <1>2, <1>5 DEF Foreign, IsSeq
  <2>2. at[k] <= Len(img) /\ \A i \in 1..at[k] : i \in 1..m
    BY <1>1, <1>5, <1>8, <2>1, CutBefore
  <2>3. \A i \in 1..at[k] : img[i] = file[i]
    BY <1>8, <2>2
  <2>. QED
    BY <1>1, <1>5, <1>8, <2>2, <2>3, LayoutPrefix
<1>11. ends[Len(sub)] = at[k]
  <2>1. k \in 0..k
    BY <1>1, <1>5
  <2>. QED
    BY <1>9, <2>1
<1>. HIDE DEF sub, ends
<1>12. RecordsOf(img) = sub
  BY <1>7, <1>8, <1>9, <1>10, <1>11, WalkReads
<1>. QED
  BY <1>5, <1>12 DEF sub
=============================================================================

--------------------------- MODULE PagedFileProofs ---------------------------
(***************************************************************************)
(* Theorems about PagedFile for every page size, file size, set of bytes   *)
(* and limit of Tier 1: its types, that a replay of the journal restores   *)
(* what is spilled, that an extension reads zeros, and that the entry      *)
(* implements FlatFile.  They suppose that no truncate cuts inside a page  *)
(* that only Tier 2 has (CutSpilled = FALSE): where one does, the run      *)
(* truncate_resurrects shows that the entry is no flat file.               *)
(***************************************************************************)
EXTENDS PagedFile, WellFoundedInduction, TLAPS

-----------------------------------------------------------------------------
(* The inductive invariant. *)

\* The bytes of a page map, of the source below high, and zeros elsewhere.
Byte(map, high, i) ==
  IF map[PageOf(i)] # NoPage THEN map[PageOf(i)][i % PageSize]
  ELSE IF i < high THEN source.bytes[i] ELSE 0

\* The pages of map begin in a file of that size, and are zero behind its end.
Fits(map, size) ==
  \A p \in PageIds : map[p] # NoPage =>
    /\ Start(p) < size
    /\ \A o \in 0..(PageSize - 1) : Start(p) + o >= size => map[p][o] = 0

\* An entry over the pages of tier2: what a shrink cut off is gone from the
\* source, as high says, and from the topmost pages.
Sound(e, tier2) ==
  /\ ~e.dirty => e = Clean /\ tier2 = NoPages
  /\ e.high <= e.size /\ e.high <= source.size
  /\ Fits(Over(e.pages, tier2), e.size)

SourceInv == \A i \in Offsets : i >= source.size => source.bytes[i] = 0

\* The journal follows the entry: a replay has the pages of Tier 2, but for
\* those that Tier 1 shadows, and a size that is short only of resident bytes.
Follows(ent, tier2, rep) ==
  LET e == Ensured(ent)
      r == Ensured(rep) IN
  /\ ~ent.dirty => ~rep.dirty
  /\ r.high = e.high /\ r.size <= e.size
  /\ r.size < e.size => PageOf(e.size - 1) \in Resident(e)
  /\ \A p \in PageIds : /\ rep.pages[p] = NoPage <=> tier2[p] = NoPage
                        /\ ent.pages[p] = NoPage => rep.pages[p] = tier2[p]

PagedInv ==
  /\ TypeOK /\ SourceInv
  /\ Sound(entry, index) /\ Sound(replayed, NoPages) /\ Sound(committed, NoPages)
  /\ Follows(entry, index, replayed)

-----------------------------------------------------------------------------
(* Arithmetic. *)

\* An offset is the start of its page and an offset in the page.
LEMMA OffsetSplit ==
  ASSUME NEW i \in Nat
  PROVE  /\ PageOf(i) \in Nat /\ i % PageSize \in 0..(PageSize - 1)
         /\ i = Start(PageOf(i)) + (i % PageSize)
BY PagedAssumption, SMT DEF PageOf, Start

\* A page ends where the next one starts, or before that.
LEMMA PageOrder ==
  ASSUME NEW a \in Nat, NEW b \in Nat, a < b
  PROVE  Start(a) \in Nat /\ Start(b) \in Nat /\ Start(a) + PageSize <= Start(b)
<1>1. PICK d \in Nat : b = a + 1 + d
  <2>. WITNESS b - a - 1 \in Nat
  <2>. QED OBVIOUS
<1>2. PageSize \in Nat /\ d * PageSize \in Nat /\ a * PageSize \in Nat
  BY PagedAssumption, SMT
<1>3. b * PageSize = a * PageSize + PageSize + d * PageSize
  BY <1>1, <1>2, SMT
<1>. QED
  BY <1>2, <1>3 DEF Start

\* The same page and offset in it give the same offset, and only they do.
LEMMA OffsetUnique ==
  ASSUME NEW p \in Nat, NEW o \in 0..(PageSize - 1)
  PROVE  /\ Start(p) \in Nat /\ Start(p) + o \in Nat
         /\ PageOf(Start(p) + o) = p /\ (Start(p) + o) % PageSize = o
<1>. DEFINE i == Start(p) + o
            q == PageOf(i)
            r == i % PageSize
<1>1. PageSize \in Nat \ {0} /\ Start(p) \in Nat /\ i \in Nat
  BY PagedAssumption, SMT DEF Start
<1>2. q \in Nat /\ r \in 0..(PageSize - 1) /\ i = q * PageSize + r
  BY <1>1, OffsetSplit DEF Start
<1>3. p * PageSize + o = q * PageSize + r
  BY <1>2 DEF Start
<1>. HIDE DEF q, r
<1>4. \A a, b \in Nat : a < b => a * PageSize + PageSize <= b * PageSize
  BY PageOrder DEF Start
<1>5. p * PageSize \in Nat /\ q * PageSize \in Nat
  BY <1>1, <1>2, SMT
<1>6. p = q
  BY <1>1, <1>2, <1>3, <1>4, <1>5
<1>7. o = r
  BY <1>1, <1>2, <1>3, <1>5, <1>6
<1>. QED
  BY <1>1, <1>6, <1>7 DEF q, r

\* The pages of the offsets of the file.
LEMMA PageIdsNat ==
  /\ PageIds \subseteq Nat /\ \A i \in Offsets : i \in Nat /\ PageOf(i) \in PageIds
  /\ \A p \in PageIds : Start(p) \in Nat /\ Start(p) < MaxSize
<1>1. \A i \in Offsets : i \in Nat /\ i < MaxSize
  BY PagedAssumption DEF Offsets
<1>2. \A i \in Offsets : PageOf(i) \in PageIds /\ PageOf(i) \in Nat
  BY <1>1, OffsetSplit DEF PageIds
<1>3. ASSUME NEW p \in PageIds PROVE p \in Nat /\ Start(p) \in Nat /\ Start(p) < MaxSize
  <2>1. PICK i \in Offsets : p = PageOf(i)
    BY DEF PageIds
  <2>2. i \in Nat /\ i < MaxSize /\ i % PageSize \in Nat /\ Start(p) + (i % PageSize) = i
        /\ p \in Nat
    BY <1>1, <2>1, OffsetSplit, PagedAssumption
  <2>3. Start(p) \in Nat
    BY <2>2, PagedAssumption, SMT DEF Start
  <2>. QED
    BY <2>2, <2>3, PagedAssumption
<1>. QED
  BY <1>1, <1>2, <1>3

\* A page that begins below a size ends below it, unless the size cuts it.
LEMMA PageBelow ==
  ASSUME NEW p \in Nat, NEW size \in Nat, Start(p) < size,
         size % PageSize = 0 \/ PageOf(size) # p
  PROVE  Start(p) + PageSize <= size
<1>. DEFINE q == PageOf(size)
            r == size % PageSize
<1>1. /\ q \in Nat /\ r \in 0..(PageSize - 1) /\ size = Start(q) + r
      /\ PageSize \in Nat \ {0} /\ Start(p) \in Nat /\ Start(q) \in Nat
  BY OffsetSplit, OffsetUnique, PagedAssumption
<1>2. p # q
  BY <1>1
<1>. HIDE DEF q, r
<1>3. CASE p < q
  BY <1>1, <1>3, PageOrder
<1>4. CASE q < p
  <2>1. Start(q) + PageSize <= Start(p)
    BY <1>1, <1>4, PageOrder
  <2>. QED
    BY <1>1, <2>1
<1>. QED
  BY <1>1, <1>2, <1>3, <1>4

\* A set of natural numbers has a least one.
LEMMA LeastNatural ==
  ASSUME NEW T, T \subseteq Nat, T # {}
  PROVE  \E x \in T : \A y \in T : x <= y
<1>. DEFINE R == {ss \in Nat \X Nat : ss[1] < ss[2]}
<1>1. IsWellFoundedOn(R, Nat)
  BY NatLessThanWellFounded, Zenon DEF OpToRel
<1>2. \A x, y \in Nat : y < x => <<y, x>> \in R
  OBVIOUS
<1>. HIDE DEF R
<1>3. PICK x \in T : \A y \in T : ~(<<y, x>> \in R)
  BY <1>1, WFMin
<1>4. \A y \in T : ~(y < x)
  BY <1>2, <1>3
<1>. QED
  BY <1>4

\* A set of sizes has a greatest one, the one that ReplayPages chooses.
LEMMA GreatestSize ==
  ASSUME NEW S \in SUBSET (0..MaxSize), S # {}
  PROVE  \E s \in S : \A t \in S : s >= t
<1>. DEFINE T == {MaxSize - s : s \in S}
<1>1. MaxSize \in Nat /\ \A s \in S : s \in 0..MaxSize /\ MaxSize - s \in Nat
  BY PagedAssumption
<1>2. T \subseteq Nat /\ T # {}
  BY <1>1
<1>. HIDE DEF T
<1>3. PICK x \in T : \A y \in T : x <= y
  BY <1>2, LeastNatural
<1>4. PICK s \in S : x = MaxSize - s
  BY DEF T
<1>5. ASSUME NEW t \in S PROVE s >= t
  <2>1. x <= MaxSize - t
    BY <1>3 DEF T
  <2>. QED
    BY <1>1, <1>4, <2>1
<1>. QED
  BY <1>5

-----------------------------------------------------------------------------
(* Pages and maps of pages. *)

\* A page is not the empty function, so that NoPage is no page.
LEMMA PageIsNotNoPage ==
  \A page \in Contents : page # NoPage
<1>. SUFFICES ASSUME NEW page \in Contents, page = NoPage PROVE FALSE
  OBVIOUS
<1>1. 0 \in DOMAIN page
  BY PagedAssumption DEF Contents
<1>2. DOMAIN NoPage = {}
  BY DEF NoPage
<1>. QED
  BY <1>1, <1>2

\* Pages with the same bytes are equal.
LEMMA PageEqual ==
  ASSUME NEW f \in Contents, NEW g \in Contents,
         \A o \in 0..(PageSize - 1) : f[o] = g[o]
  PROVE  f = g
<1>. DEFINE D == 0..(PageSize - 1)
<1>1. f \in [D -> Bytes] /\ g \in [D -> Bytes] /\ \A d \in D : f[d] = g[d]
  BY DEF Contents
<1>. HIDE DEF D
<1>. QED
  BY <1>1

\* What Cut leaves of a page.
LEMMA CutFields ==
  ASSUME NEW page \in Contents, NEW p \in PageIds, NEW size \in Nat
  PROVE  /\ Cut(page, p, size) \in Contents /\ Cut(page, p, size) # NoPage
         /\ \A o \in 0..(PageSize - 1) :
              Cut(page, p, size)[o] = IF Start(p) + o < size THEN page[o] ELSE 0
<1>1. Cut(page, p, size) \in Contents
  BY DEF Cut, Contents, Bytes
<1>. QED
  BY <1>1, PageIsNotNoPage DEF Cut

\* The operators on maps of pages.
LEMMA MapTypes ==
  ASSUME NEW map \in PageMaps
  PROVE  /\ NoPages \in PageMaps
         /\ \A p \in PageIds : map[p] # NoPage => map[p] \in Contents
         /\ \A set : Only(map, set) \in PageMaps
         /\ \A under \in PageMaps : Over(map, under) \in PageMaps
         /\ \A size \in Nat : Clamped(map, size) \in PageMaps
<1>1. \A p \in PageIds : map[p] # NoPage => map[p] \in Contents
  BY DEF PageMaps
<1>2. ASSUME NEW size \in Nat PROVE Clamped(map, size) \in PageMaps
  BY <1>1, CutFields DEF Clamped, PageMaps
<1>. QED
  BY <1>1, <1>2 DEF NoPages, Only, Over, PageMaps

\* Clamping what has no byte beyond the size changes nothing.
LEMMA ClampedFits ==
  ASSUME NEW map \in PageMaps, NEW size \in Nat, Fits(map, size)
  PROVE  Clamped(map, size) = map
<1>1. ASSUME NEW p \in PageIds, map[p] # NoPage
      PROVE  Cut(map[p], p, size) = map[p]
  <2>1. map[p] \in Contents
    BY <1>1, MapTypes
  <2>2. \A o \in 0..(PageSize - 1) : Cut(map[p], p, size)[o] = map[p][o]
    BY <1>1, <2>1, CutFields, PageIdsNat, PagedAssumption DEF Fits
  <2>3. Cut(map[p], p, size) \in Contents
    BY <2>1, CutFields
  <2>. QED
    BY <2>1, <2>2, <2>3, PageEqual
<1>. QED
  BY <1>1 DEF Clamped, PageMaps

\* What fits in a file fits in a larger one.
LEMMA FitsGrows ==
  ASSUME NEW map \in PageMaps, NEW a \in Nat, NEW b \in Nat, a <= b, Fits(map, a)
  PROVE  Fits(map, b)
<1>. SUFFICES ASSUME NEW p \in PageIds, map[p] # NoPage
              PROVE  /\ Start(p) < b
                     /\ \A o \in 0..(PageSize - 1) : Start(p) + o >= b => map[p][o] = 0
  BY DEF Fits
<1>1. Start(p) \in Nat /\ \A o \in 0..(PageSize - 1) : Start(p) + o \in Nat
  BY PageIdsNat, PagedAssumption
<1>. QED
  BY <1>1 DEF Fits

-----------------------------------------------------------------------------
(* Entries. *)

\* The entry that nothing touched.
LEMMA CleanFields ==
  /\ Clean \in Entries /\ NoPages \in PageMaps
  /\ Clean.dirty = FALSE /\ Clean.size = 0 /\ Clean.high = 0
  /\ Clean.pages = NoPages /\ \A p \in PageIds : NoPages[p] = NoPage
BY PagedAssumption DEF Clean, Entries, NoPages, PageMaps

\* The fields of an entry.
LEMMA EntryFields ==
  ASSUME NEW e \in Entries
  PROVE  /\ e.dirty \in BOOLEAN /\ e.size \in 0..MaxSize /\ e.size \in Nat
         /\ e.high \in 0..MaxSize /\ e.high \in Nat /\ e.pages \in PageMaps
         /\ e = [dirty |-> e.dirty, size |-> e.size, high |-> e.high,
                 pages |-> e.pages]
BY PagedAssumption DEF Entries

\* An entry with other pages.
LEMMA WithPages ==
  ASSUME NEW e \in Entries, NEW map \in PageMaps
  PROVE  LET f == [e EXCEPT !.pages = map] IN
         /\ f \in Entries /\ f.dirty = e.dirty /\ f.size = e.size
         /\ f.high = e.high /\ f.pages = map
<1>. DEFINE f == [e EXCEPT !.pages = map]
<1>1. f = [dirty |-> e.dirty, size |-> e.size, high |-> e.high, pages |-> map]
  BY EntryFields
<1>. HIDE DEF f
<1>. QED
  BY <1>1, EntryFields DEF Entries, f

\* An entry of another size.
LEMMA WithSize ==
  ASSUME NEW e \in Entries, NEW size \in 0..MaxSize
  PROVE  LET f == [e EXCEPT !.size = size] IN
         /\ f \in Entries /\ f.dirty = e.dirty /\ f.size = size
         /\ f.high = e.high /\ f.pages = e.pages
<1>. DEFINE f == [e EXCEPT !.size = size]
<1>1. f = [dirty |-> e.dirty, size |-> size, high |-> e.high, pages |-> e.pages]
  BY EntryFields
<1>. HIDE DEF f
<1>. QED
  BY <1>1, EntryFields DEF Entries, f

\* ensure_entry.
LEMMA EnsuredFields ==
  ASSUME source \in Files, NEW e \in Entries
  PROVE  LET f == Ensured(e) IN
         /\ f \in Entries /\ f.dirty = TRUE
         /\ e.dirty => f = e
         /\ ~e.dirty => /\ f.size = source.size /\ f.high = source.size
                        /\ f.pages = NoPages
BY CleanFields DEF Ensured, Entries, Files

\* A truncate of an entry.
LEMMA ResizedFields ==
  ASSUME NEW e \in Entries, NEW size \in 0..MaxSize
  PROVE  LET r == Resized(e, size) IN
         /\ r \in Entries /\ r.dirty = e.dirty /\ r.size = size
         /\ r.high = IF size < e.size THEN Lesser(e.high, size) ELSE e.high
         /\ size >= e.size => r.pages = e.pages
         /\ size < e.size => \A p \in PageIds : r.pages[p] =
              IF Start(p) >= size \/ e.pages[p] = NoPage THEN NoPage
              ELSE Cut(e.pages[p], p, size)
<1>. DEFINE pages == [p \in PageIds |->
              IF Start(p) >= size \/ e.pages[p] = NoPage THEN NoPage
              ELSE Cut(e.pages[p], p, size)]
            shrunk == [dirty |-> e.dirty, size |-> e.size,
                       high |-> Lesser(e.high, size), pages |-> pages]
<1>0. size \in Nat
  BY PagedAssumption
<1>1. e.pages \in PageMaps /\ e.size \in Nat /\ e.high \in 0..MaxSize /\ e.dirty \in BOOLEAN
  BY EntryFields
<1>2. pages \in PageMaps
  BY <1>0, <1>1, CutFields, MapTypes DEF PageMaps
<1>3. Lesser(e.high, size) \in 0..MaxSize
  BY <1>1 DEF Lesser
<1>4. Shrunk(e, size) = shrunk
  <2>. DEFINE lowered == [e EXCEPT !.high = Lesser(e.high, size)]
  <2>1. Shrunk(e, size) = [lowered EXCEPT !.pages = pages]
    BY DEF Shrunk
  <2>2. lowered = [dirty |-> e.dirty, size |-> e.size,
                   high |-> Lesser(e.high, size), pages |-> e.pages]
    BY EntryFields
  <2>. HIDE DEF pages, lowered
  <2>. QED
    BY <2>1, <2>2
<1>5. CASE size < e.size
  <2>1. Resized(e, size) = [shrunk EXCEPT !.size = size]
    BY <1>4, <1>5 DEF Resized
  <2>2. Resized(e, size) = [dirty |-> e.dirty, size |-> size,
                            high |-> Lesser(e.high, size), pages |-> pages]
    BY <2>1
  <2>. QED
    BY <1>0, <1>1, <1>2, <1>3, <1>5, <2>2 DEF Entries
<1>6. CASE ~(size < e.size)
  <2>1. Resized(e, size) = [dirty |-> e.dirty, size |-> size,
                            high |-> e.high, pages |-> e.pages]
    BY <1>6, EntryFields DEF Resized
  <2>. QED
    BY <1>0, <1>1, <1>6, <2>1 DEF Entries
<1>. QED
  BY <1>5, <1>6

-----------------------------------------------------------------------------
(* Replays. *)

\* Is there a page in map?
Some(map) == \E p \in PageIds : map[p] # NoPage

\* Where the data of page p ends in an entry of a size.
End(size, p) == Lesser(size, Start(p) + PageSize)

LEMMA EndRange ==
  ASSUME NEW size \in 0..MaxSize, NEW p \in PageIds
  PROVE  End(size, p) \in 0..MaxSize /\ End(size, p) \in Nat /\ size \in Nat
         /\ End(size, p) <= size
BY PageIdsNat, PagedAssumption DEF End, Lesser

\* The data of the last page ends where the entry does.
LEMMA LastPage ==
  ASSUME NEW size \in Nat, size > 0
  PROVE  size - 1 \in Nat /\ End(size, PageOf(size - 1)) = size
<1>. DEFINE i == size - 1
<1>1. i \in Nat /\ size = i + 1
  OBVIOUS
<1>2. /\ PageOf(i) \in Nat /\ i % PageSize \in 0..(PageSize - 1)
      /\ i = Start(PageOf(i)) + (i % PageSize) /\ Start(PageOf(i)) \in Nat
  BY <1>1, OffsetSplit, PagedAssumption, SMT DEF Start
<1>. HIDE DEF i
<1>3. size <= Start(PageOf(i)) + PageSize
  BY <1>1, <1>2, PagedAssumption
<1>. QED
  BY <1>1, <1>2, <1>3, PagedAssumption DEF End, Lesser, i

\* No DATA records.
LEMMA ReplayNoPages ==
  ASSUME NEW e, NEW map, NEW size, ~Some(map)
  PROVE  ReplayPages(e, map, size) = e
BY DEF ReplayPages, Some

\* r is what the DATA records of map leave of f.
Replayed(r, f, map, size) ==
  /\ r \in Entries /\ r.dirty /\ r.high = f.high /\ r.size >= f.size
  /\ \A p \in PageIds : map[p] # NoPage => r.size >= End(size, p)
  /\ \/ r.size = f.size
     \/ \E p \in PageIds : map[p] # NoPage /\ r.size = End(size, p)
  /\ \A p \in PageIds : r.pages[p] =
       IF map[p] # NoPage THEN Cut(map[p], p, End(size, p)) ELSE f.pages[p]

\* The DATA records of the pages of map.
LEMMA ReplayPagesFields ==
  ASSUME source \in Files, NEW e \in Entries, NEW map \in PageMaps,
         NEW size \in 0..MaxSize, Some(map)
  PROVE  Replayed(ReplayPages(e, map, size), Ensured(e), map, size)
<1>. DEFINE f == Ensured(e)
            has == {p \in PageIds : map[p] # NoPage}
            sizes == {End(size, p) : p \in has} \cup {f.size}
            most == CHOOSE s \in sizes : \A t \in sizes : s >= t
            pages == [p \in PageIds |-> IF p \in has
                        THEN Cut(map[p], p, End(size, p)) ELSE f.pages[p]]
            r == [dirty |-> f.dirty, size |-> most, high |-> f.high, pages |-> pages]
<1>1. /\ f \in Entries /\ f.dirty = TRUE /\ f.size \in 0..MaxSize
      /\ f.high \in 0..MaxSize /\ f.pages \in PageMaps
      /\ f = [dirty |-> f.dirty, size |-> f.size, high |-> f.high, pages |-> f.pages]
  BY EnsuredFields, EntryFields
<1>2. sizes \subseteq 0..MaxSize /\ sizes # {}
  BY <1>1, EndRange
<1>3. most \in sizes /\ \A t \in sizes : most >= t
  <2>. HIDE DEF sizes
  <2>1. \E s \in sizes : \A t \in sizes : s >= t
    BY <1>2, GreatestSize
  <2>. QED
    BY <2>1
<1>4. pages \in PageMaps
  BY <1>1, EndRange, CutFields, MapTypes DEF PageMaps
<1>5. ReplayPages(e, map, size) = IF has = {} THEN e
        ELSE [f EXCEPT !.size = most, !.pages = pages]
  BY DEF ReplayPages, End
<1>6. has # {} => ReplayPages(e, map, size) = r
  <2>. DEFINE sized == [f EXCEPT !.size = most]
  <2>1. has # {} => ReplayPages(e, map, size) = [sized EXCEPT !.pages = pages]
    BY <1>5
  <2>2. sized = [dirty |-> f.dirty, size |-> most, high |-> f.high, pages |-> f.pages]
    <3>. HIDE DEF f, most
    <3>. QED BY <1>1
  <2>. HIDE DEF sized, has, pages, most, f
  <2>. QED
    BY <2>1, <2>2
<1>7. r \in Entries
  <2>1. most \in 0..MaxSize
    BY <1>2, <1>3
  <2>. HIDE DEF most, pages, f
  <2>. QED
    BY <1>1, <1>4, <2>1 DEF Entries
<1>8. /\ r.dirty = f.dirty /\ r.size = most /\ r.high = f.high /\ r.pages = pages
  OBVIOUS
<1>9. /\ most >= f.size /\ \A p \in has : most >= End(size, p)
      /\ most = f.size \/ \E p \in has : most = End(size, p)
  BY <1>3
<1>10. \A p \in PageIds : (p \in has <=> map[p] # NoPage) /\ pages[p] =
         IF map[p] # NoPage THEN Cut(map[p], p, End(size, p)) ELSE f.pages[p]
  OBVIOUS
<1>11. has # {}
  BY DEF Some
<1>. HIDE DEF most, pages, has, r, f
<1>12. ReplayPages(e, map, size) = r
  BY <1>6, <1>11
<1>13. /\ r.dirty /\ r.high = f.high /\ r.size >= f.size
       /\ \A p \in PageIds : map[p] # NoPage => r.size >= End(size, p)
  BY <1>1, <1>8, <1>9, <1>10
<1>14. \/ r.size = f.size
       \/ \E p \in PageIds : map[p] # NoPage /\ r.size = End(size, p)
  BY <1>8, <1>9, <1>10 DEF has
<1>15. \A p \in PageIds : r.pages[p] =
         IF map[p] # NoPage THEN Cut(map[p], p, End(size, p)) ELSE f.pages[p]
  BY <1>8, <1>10
<1>. QED
  BY <1>7, <1>12, <1>13, <1>14, <1>15 DEF f, Replayed

\* A map over no pages, and under none.
LEMMA OverNoPages ==
  ASSUME NEW map \in PageMaps
  PROVE  Over(map, NoPages) = map /\ Over(NoPages, map) = map
BY CleanFields DEF Over, PageMaps

\* The same of records that have no byte beyond the size, which is what the
\* journals are given, whether or not there are any.
LEMMA ReplayPagesEnsured ==
  ASSUME source \in Files, NEW e \in Entries, NEW map \in PageMaps,
         NEW size \in 0..MaxSize, Fits(map, size)
  PROVE  LET f == Ensured(e)
             r == ReplayPages(e, map, size)
             g == Ensured(r) IN
         /\ r \in Entries /\ (r.dirty <=> e.dirty \/ Some(map))
         /\ ~r.dirty => r = e
         /\ g.high = f.high /\ g.pages = Over(map, f.pages)
         /\ g.size >= f.size
         /\ \A p \in PageIds : map[p] # NoPage => g.size >= End(size, p)
         /\ \/ g.size = f.size
            \/ \E p \in PageIds : map[p] # NoPage /\ g.size = End(size, p)
<1>. DEFINE f == Ensured(e)
            r == ReplayPages(e, map, size)
            g == Ensured(r)
<1>1. f \in Entries /\ f.pages \in PageMaps /\ f.size \in Nat
  BY EnsuredFields, EntryFields
<1>2. CASE ~Some(map)
  <2>1. r = e /\ g = f
    BY <1>2, ReplayNoPages
  <2>2. Over(map, f.pages) = f.pages
    BY <1>1, <1>2 DEF Over, Some, PageMaps
  <2>. QED
    BY <1>1, <1>2, <2>1, <2>2 DEF Some
<1>3. CASE Some(map)
  <2>0. Replayed(r, f, map, size)
    BY <1>3, ReplayPagesFields
  <2>1. /\ r \in Entries /\ r.dirty /\ r.high = f.high /\ r.size >= f.size
        /\ \A p \in PageIds : map[p] # NoPage => r.size >= End(size, p)
        /\ \/ r.size = f.size
           \/ \E p \in PageIds : map[p] # NoPage /\ r.size = End(size, p)
    BY <2>0 DEF Replayed
  <2>6. \A p \in PageIds : r.pages[p] =
          IF map[p] # NoPage THEN Cut(map[p], p, End(size, p)) ELSE f.pages[p]
    BY <2>0 DEF Replayed
  <2>2. g = r
    BY <2>1, EnsuredFields
  <2>3. ASSUME NEW p \in PageIds, map[p] # NoPage
        PROVE  Cut(map[p], p, End(size, p)) = map[p]
    <3>1. map[p] \in Contents /\ size \in Nat /\ End(size, p) \in Nat
      BY <2>3, MapTypes, EndRange
    <3>2. ASSUME NEW o \in 0..(PageSize - 1)
          PROVE  Cut(map[p], p, End(size, p))[o] = map[p][o]
      <4>1. Start(p) \in Nat /\ o \in Nat /\ o < PageSize /\ PageSize \in Nat
        BY PageIdsNat, PagedAssumption
      <4>2. Start(p) + o < End(size, p) <=> Start(p) + o < size
        BY <3>1, <4>1 DEF End, Lesser
      <4>. QED
        BY <2>3, <3>1, <4>1, <4>2, CutFields DEF Fits
    <3>3. Cut(map[p], p, End(size, p)) \in Contents
      BY <3>1, CutFields
    <3>. QED
      BY <3>1, <3>2, <3>3, PageEqual
  <2>4. r.pages = Over(map, f.pages)
    <3>1. r.pages \in PageMaps
      BY <2>1, EntryFields
    <3>. QED
      BY <2>3, <2>6, <3>1 DEF Over, PageMaps
  <2>. QED
    BY <1>3, <2>1, <2>2, <2>4
<1>. QED
  BY <1>2, <1>3

\* rejournal_recovered: a replay of the new journal gives back the entry that
\* was written, with the pages that were.
LEMMA RejournaledFields ==
  ASSUME source \in Files, NEW e \in Entries, NEW map \in PageMaps,
         e.dirty, e.high <= e.size, e.high <= source.size, Fits(map, e.size)
  PROVE  Rejournaled(e, map) =
           [dirty |-> TRUE, size |-> e.size, high |-> e.high, pages |-> map]
<1>. DEFINE first == IF e.high < e.size THEN ReplayResize(Clean, e.high) ELSE Clean
            sized == ReplayResize(first, e.size)
            r == ReplayPages(sized, map, e.size)
<1>1. /\ e.size \in 0..MaxSize /\ e.high \in 0..MaxSize /\ e.size \in Nat
      /\ e.high \in Nat /\ source.size \in 0..MaxSize /\ source.size \in Nat
  BY EntryFields, PagedAssumption DEF Files
<1>2. ASSUME NEW c \in Entries, ~c.dirty, NEW size \in 0..MaxSize
      PROVE  LET z == ReplayResize(c, size) IN
             /\ z \in Entries /\ z.dirty = TRUE /\ z.size = size
             /\ z.high = Lesser(source.size, size) /\ z.pages = NoPages
  <2>1. LET f == Ensured(c) IN
        /\ f \in Entries /\ f.dirty = TRUE /\ f.size = source.size
        /\ f.high = source.size /\ f.pages = NoPages
    BY <1>2, EnsuredFields
  <2>2. LET z == ReplayResize(c, size) IN
        /\ z \in Entries /\ z.dirty = TRUE /\ z.size = size
        /\ z.high = IF size < source.size THEN Lesser(source.size, size) ELSE source.size
        /\ size >= source.size => z.pages = NoPages
        /\ size < source.size => \A p \in PageIds : z.pages[p] = NoPage
    BY <2>1, ResizedFields, CleanFields DEF ReplayResize
  <2>3. size < source.size => ReplayResize(c, size).pages = NoPages
    <3>1. ReplayResize(c, size).pages \in PageMaps
      BY <2>2, EntryFields
    <3>. QED
      BY <2>2, <3>1 DEF NoPages, PageMaps
  <2>. QED
    BY <1>1, <1>2, <2>2, <2>3 DEF Lesser
<1>3. /\ sized \in Entries /\ sized.dirty = TRUE /\ sized.size = e.size
      /\ sized.high = e.high /\ sized.pages = NoPages
  <2>1. CASE e.high < e.size
    <3>0. LET z == ReplayResize(Clean, e.high) IN
          /\ z \in Entries /\ z.dirty = TRUE /\ z.size = e.high
          /\ z.high = Lesser(source.size, e.high) /\ z.pages = NoPages
      BY <1>1, <1>2, CleanFields, Zenon
    <3>1. /\ first \in Entries /\ first.dirty = TRUE /\ first.size = e.high
          /\ first.high = e.high /\ first.pages = NoPages
      BY <1>1, <2>1, <3>0 DEF Lesser
    <3>2. sized = Resized(first, e.size)
      BY <3>1, EnsuredFields DEF ReplayResize
    <3>3. e.size \in 0..MaxSize /\ ~(e.size < first.size) /\ e.size >= first.size
      BY <1>1, <2>1, <3>1
    <3>. HIDE DEF first, sized
    <3>4. LET z == Resized(first, e.size) IN
          /\ z \in Entries /\ z.dirty = first.dirty /\ z.size = e.size
          /\ z.high = IF e.size < first.size THEN Lesser(first.high, e.size)
                      ELSE first.high
          /\ e.size >= first.size => z.pages = first.pages
      BY <3>1, <3>3, ResizedFields, Zenon
    <3>. QED
      BY <3>1, <3>2, <3>3, <3>4
  <2>2. CASE ~(e.high < e.size)
    <3>1. sized = ReplayResize(Clean, e.size) /\ e.high = e.size
      BY <1>1, <2>2
    <3>2. LET z == ReplayResize(Clean, e.size) IN
          /\ z \in Entries /\ z.dirty = TRUE /\ z.size = e.size
          /\ z.high = Lesser(source.size, e.size) /\ z.pages = NoPages
      BY <1>1, <1>2, CleanFields, Zenon
    <3>. HIDE DEF first, sized
    <3>. QED
      BY <1>1, <3>1, <3>2 DEF Lesser
  <2>. QED
    BY <2>1, <2>2
<1>4. Rejournaled(e, map) = r
  BY DEF Rejournaled
<1>. HIDE DEF first, sized
<1>5. Ensured(sized) = sized
  BY <1>3, EnsuredFields
<1>6. /\ r \in Entries /\ r.dirty /\ r.high = e.high /\ r.pages = map
  <2>1. r \in Entries /\ r.dirty
    BY <1>1, <1>3, ReplayPagesEnsured
  <2>2. Ensured(r) = r
    BY <2>1, EnsuredFields
  <2>. QED
    BY <1>1, <1>3, <1>5, <2>1, <2>2, ReplayPagesEnsured, OverNoPages
<1>7. r.size = e.size
  <2>1. Ensured(r) = r
    BY <1>6, EnsuredFields
  <2>2. \A p \in PageIds : End(e.size, p) \in Nat /\ End(e.size, p) <= e.size
    BY <1>1, EndRange
  <2>3. /\ r.size >= e.size
        /\ r.size = e.size \/ \E p \in PageIds : r.size = End(e.size, p)
    BY <1>1, <1>3, <1>5, <2>1, ReplayPagesEnsured
  <2>. QED
    BY <1>1, <2>2, <2>3
<1>8. r.dirty = TRUE
  BY <1>6, EntryFields
<1>. HIDE DEF r
<1>. QED
  BY <1>4, <1>6, <1>7, <1>8, EntryFields

-----------------------------------------------------------------------------
(* Reads. *)

\* read_dirty reads from the topmost page of an offset.
LEMMA ByteAtOver ==
  ASSUME NEW e \in Entries, NEW tier2 \in PageMaps, NEW i, PageOf(i) \in PageIds
  PROVE  ByteAt(e, tier2, i) = Byte(Over(e.pages, tier2), e.high, i)
<1>. DEFINE p == PageOf(i)
            map == Over(e.pages, tier2)
<1>1. map[p] = IF e.pages[p] # NoPage THEN e.pages[p] ELSE tier2[p]
  BY DEF Over
<1>2. CASE e.pages[p] # NoPage
  <2>1. ByteAt(e, tier2, i) = e.pages[p][i % PageSize]
    BY <1>2, Zenon DEF ByteAt
  <2>. QED
    BY <1>1, <1>2, <2>1 DEF Byte
<1>3. CASE e.pages[p] = NoPage /\ tier2[p] # NoPage
  <2>1. ByteAt(e, tier2, i) = tier2[p][i % PageSize]
    BY <1>3, Zenon DEF ByteAt
  <2>. QED
    BY <1>1, <1>3, <2>1 DEF Byte
<1>4. CASE e.pages[p] = NoPage /\ tier2[p] = NoPage
  <2>1. ByteAt(e, tier2, i) = IF i < e.high THEN source.bytes[i] ELSE 0
    BY <1>4, Zenon DEF ByteAt
  <2>. QED
    BY <1>1, <1>4, <2>1 DEF Byte
<1>. QED
  BY <1>2, <1>3, <1>4

\* A byte of the entry is a byte, and is zero beyond what bounds the pages and
\* the source.
LEMMA ByteFields ==
  ASSUME source \in Files, NEW map \in PageMaps, NEW high \in 0..MaxSize,
         NEW i \in Nat, PageOf(i) \in PageIds
  PROVE  /\ Byte(map, high, i) \in Bytes
         /\ \A size \in Nat : Fits(map, size) /\ high <= size /\ i >= size
              => Byte(map, high, i) = 0
<1>. DEFINE p == PageOf(i)
            o == i % PageSize
<1>1. p \in PageIds /\ o \in 0..(PageSize - 1) /\ i = Start(p) + o
  BY OffsetSplit
<1>2. CASE map[p] # NoPage
  <2>1. map[p] \in Contents /\ Byte(map, high, i) = map[p][o]
    BY <1>1, <1>2, MapTypes DEF Byte
  <2>. HIDE DEF p, o
  <2>. QED
    BY <1>1, <1>2, <2>1 DEF Contents, Fits
<1>3. CASE map[p] = NoPage
  <2>1. Byte(map, high, i) = IF i < high THEN source.bytes[i] ELSE 0
    BY <1>3 DEF Byte
  <2>2. i < high => i \in Offsets
    BY PagedAssumption DEF Offsets
  <2>. QED
    BY <2>1, <2>2, PagedAssumption DEF Files, Bytes
<1>. QED
  BY <1>2, <1>3

\* The file of a size whose bytes are those of a map over the source.
FileOf(size, high, map) ==
  [size |-> size, bytes |-> [i \in Offsets |->
                              IF i < size THEN Byte(map, high, i) ELSE 0]]

\* The entry that ensure_entry makes of e reads as e, from the topmost pages.
LEMMA ReadEnsured ==
  ASSUME source \in Files, SourceInv, NEW e \in Entries, NEW tier2 \in PageMaps,
         ~e.dirty => tier2 = NoPages
  PROVE  LET f == Ensured(e) IN
         Read(e, tier2) = FileOf(f.size, f.high, Over(f.pages, tier2))
<1>. DEFINE f == Ensured(e)
            map == Over(f.pages, tier2)
<1>1. CASE e.dirty
  <2>1. f = e
    BY <1>1, EnsuredFields
  <2>2. \A i \in Offsets : ByteAt(e, tier2, i) = Byte(map, e.high, i)
    BY <2>1, ByteAtOver, PageIdsNat
  <2>3. Read(e, tier2) = [size |-> e.size, bytes |-> [i \in Offsets |->
                            IF i < e.size THEN ByteAt(e, tier2, i) ELSE 0]]
    BY <1>1 DEF Read
  <2>. HIDE DEF map
  <2>. QED
    BY <2>1, <2>2, <2>3 DEF FileOf, map
<1>2. CASE ~e.dirty
  <2>0. f.size = source.size /\ f.high = source.size /\ f.pages = NoPages
    BY <1>2, EnsuredFields
  <2>1. f.size = source.size /\ f.high = source.size /\ map = NoPages
    BY <1>2, <2>0, OverNoPages, CleanFields
  <2>2. \A i \in Offsets : Byte(NoPages, source.size, i) =
          IF i < source.size THEN source.bytes[i] ELSE 0
    BY PageIdsNat, CleanFields DEF Byte
  <2>3. \A i \in Offsets :
          (IF i < source.size THEN Byte(NoPages, source.size, i) ELSE 0)
            = source.bytes[i]
    BY <2>2, PageIdsNat DEF SourceInv, Files
  <2>4. FileOf(source.size, source.size, NoPages) =
          [size |-> source.size, bytes |-> [i \in Offsets |-> source.bytes[i]]]
    BY <2>3 DEF FileOf
  <2>5. source = [size |-> source.size, bytes |-> [i \in Offsets |-> source.bytes[i]]]
    BY DEF Files
  <2>6. Read(e, tier2) = source
    BY <1>2 DEF Read
  <2>. HIDE DEF f, map
  <2>. QED
    BY <2>1, <2>4, <2>5, <2>6 DEF f, map
<1>. QED
  BY <1>1, <1>2

-----------------------------------------------------------------------------
(* Sound entries. *)

\* An entry as it is after ensure_entry.
Ready(f, tier2) ==
  /\ f \in Entries /\ f.dirty /\ f.high <= f.size /\ f.high <= source.size
  /\ Over(f.pages, tier2) \in PageMaps /\ Fits(Over(f.pages, tier2), f.size)

\* ensure_entry makes a sound entry ready, and it has the pages it had.
LEMMA EnsuredReady ==
  ASSUME source \in Files, NEW e \in Entries, NEW tier2 \in PageMaps,
         Sound(e, tier2)
  PROVE  /\ Ready(Ensured(e), tier2) /\ Ensured(e).pages = e.pages
         /\ e.dirty => Ensured(e) = e
         /\ ~e.dirty => /\ e = Clean /\ tier2 = NoPages
                        /\ Ensured(e).size = source.size
                        /\ Ensured(e).high = source.size
<1>. DEFINE f == Ensured(e)
<1>1. f \in Entries /\ f.dirty = TRUE
  BY EnsuredFields
<1>2. CASE e.dirty
  <2>1. f = e
    BY <1>2, EnsuredFields
  <2>2. Over(e.pages, tier2) \in PageMaps
    BY EntryFields, MapTypes
  <2>. QED
    BY <1>1, <1>2, <2>1, <2>2 DEF Sound, Ready
<1>3. CASE ~e.dirty
  <2>1. e = Clean /\ tier2 = NoPages
    BY <1>3 DEF Sound
  <2>2. f.size = source.size /\ f.high = source.size /\ f.pages = NoPages
    BY <1>3, EnsuredFields
  <2>3. Over(f.pages, tier2) = NoPages
    BY <2>1, <2>2, CleanFields, OverNoPages
  <2>4. Fits(NoPages, source.size)
    BY CleanFields DEF Fits
  <2>5. source.size \in Nat
    BY PagedAssumption DEF Files
  <2>. QED
    BY <1>1, <1>3, <2>1, <2>2, <2>3, <2>4, <2>5, CleanFields DEF Ready
<1>. QED
  BY <1>2, <1>3

\* A ready entry is sound, and so is a clean one without pages.
LEMMA ReadySound ==
  ASSUME source \in Files
  PROVE  /\ \A f, tier2 : Ready(f, tier2) => Sound(f, tier2)
         /\ Sound(Clean, NoPages)
<1>1. Sound(Clean, NoPages)
  <2>1. source.size \in Nat
    BY PagedAssumption DEF Files
  <2>2. Over(Clean.pages, NoPages) = NoPages
    BY CleanFields, OverNoPages
  <2>3. Fits(NoPages, 0)
    BY CleanFields DEF Fits
  <2>. QED
    BY <2>1, <2>2, <2>3, CleanFields DEF Sound
<1>. QED
  BY <1>1 DEF Ready, Sound

\* What an entry reads as does not depend on which tier has its pages.
LEMMA ReadReady ==
  ASSUME source \in Files, SourceInv, NEW e \in Entries, NEW tier2 \in PageMaps,
         Sound(e, tier2)
  PROVE  Read(e, tier2) =
           FileOf(Ensured(e).size, Ensured(e).high, Over(e.pages, tier2))
BY EnsuredReady, ReadEnsured DEF Sound

\* The journal of a sound entry stays sound when records that fit are appended.
LEMMA ReplayPagesSound ==
  ASSUME source \in Files, NEW e \in Entries, Sound(e, NoPages),
         NEW map \in PageMaps, NEW size \in 0..MaxSize, Fits(map, size)
  PROVE  Sound(ReplayPages(e, map, size), NoPages)
<1>. DEFINE f == Ensured(e)
            r == ReplayPages(e, map, size)
            g == Ensured(r)
            pages == Over(map, f.pages)
<1>1. /\ Ready(f, NoPages) /\ f \in Entries /\ f.size \in Nat /\ f.pages \in PageMaps
      /\ f.high \in Nat
  BY EnsuredReady, EntryFields, CleanFields DEF Ready
<1>2. Fits(f.pages, f.size)
  BY <1>1, OverNoPages DEF Ready
<1>3. /\ r \in Entries /\ (r.dirty <=> e.dirty \/ Some(map)) /\ (~r.dirty => r = e)
      /\ g.high = f.high /\ g.pages = pages /\ g.size >= f.size
      /\ \A p \in PageIds : map[p] # NoPage => g.size >= End(size, p)
  BY ReplayPagesEnsured
<1>4. CASE ~r.dirty
  BY <1>3, <1>4
<1>5. CASE r.dirty
  <2>1. g = r
    BY <1>3, <1>5, EnsuredFields
  <2>2. r.size \in Nat /\ size \in Nat /\ source.size \in Nat /\ r.size >= f.size
    BY <1>3, <2>1, EntryFields, PagedAssumption DEF Files
  <2>3. Fits(f.pages, r.size)
    BY <1>1, <1>2, <2>2, FitsGrows
  <2>4. Fits(pages, r.size)
    <3>1. ASSUME NEW p \in PageIds, map[p] # NoPage
          PROVE  /\ Start(p) < r.size
                 /\ \A o \in 0..(PageSize - 1) : Start(p) + o >= r.size => map[p][o] = 0
      <4>1. r.size >= End(size, p)
        BY <1>3, <2>1, <3>1
      <4>2. Start(p) \in Nat /\ PageSize \in Nat \ {0} /\ Start(p) < size
        BY <3>1, PageIdsNat, PagedAssumption DEF Fits
      <4>3. Start(p) < r.size
        BY <2>2, <4>1, <4>2 DEF End, Lesser
      <4>4. ASSUME NEW o \in 0..(PageSize - 1), Start(p) + o >= r.size
            PROVE  Start(p) + o >= size
        BY <2>2, <4>1, <4>2, <4>4 DEF End, Lesser
      <4>. QED
        BY <3>1, <4>3, <4>4 DEF Fits
    <3>2. \A p \in PageIds : pages[p] = IF map[p] # NoPage THEN map[p] ELSE f.pages[p]
      BY DEF Over
    <3>. HIDE DEF pages, f, r, g
    <3>. QED
      BY <2>3, <3>1, <3>2 DEF Fits
  <2>5. r.high <= r.size /\ r.high <= source.size
    BY <1>1, <1>3, <2>1, <2>2 DEF Ready
  <2>6. Over(r.pages, NoPages) = pages
    BY <1>3, <2>1, EntryFields, OverNoPages
  <2>. QED
    BY <1>5, <2>4, <2>5, <2>6 DEF Sound
<1>. QED
  BY <1>4, <1>5

\* A page that only the lower tier has ends below the new size.
WholeBelow(f, tier2, size) ==
  \A p \in PageIds :
    f.pages[p] = NoPage /\ tier2[p] # NoPage /\ Start(p) < size
      => Start(p) + PageSize <= size

\* The pages of the lower tier that a truncate to size leaves.
Purged(f, tier2, size) ==
  IF size < f.size THEN Only(tier2, {p \in PageIds : Start(p) < size}) ELSE tier2

\* A truncate of a ready entry leaves a ready one, that has the pages that begin
\* below the size and reads the same there.
LEMMA ResizedReady ==
  ASSUME source \in Files, NEW f, NEW tier2 \in PageMaps, Ready(f, tier2),
         NEW size \in 0..MaxSize, size < f.size => WholeBelow(f, tier2, size)
  PROVE  LET r == Resized(f, size)
             t == Purged(f, tier2, size) IN
         /\ Ready(r, t) /\ t \in PageMaps
         /\ r.size = size /\ r.high = Lesser(f.high, size)
         /\ \A p \in PageIds : r.pages[p] = NoPage <=>
                               f.pages[p] = NoPage \/ Start(p) >= size
         /\ \A i \in Offsets : i < size =>
              Byte(Over(r.pages, t), r.high, i) = Byte(Over(f.pages, tier2), f.high, i)
<1>. DEFINE r == Resized(f, size)
            t == Purged(f, tier2, size)
            old == Over(f.pages, tier2)
            new == Over(r.pages, t)
<1>1. /\ f \in Entries /\ f.dirty /\ f.size \in Nat /\ f.high \in Nat /\ size \in Nat
      /\ f.high <= f.size /\ f.high <= source.size /\ f.pages \in PageMaps
      /\ old \in PageMaps /\ Fits(old, f.size) /\ source.size \in Nat
  BY EntryFields, PagedAssumption DEF Ready, Files
<1>2. /\ r \in Entries /\ r.dirty = f.dirty /\ r.size = size /\ r.pages \in PageMaps
      /\ r.high = IF size < f.size THEN Lesser(f.high, size) ELSE f.high
  BY <1>1, ResizedFields, EntryFields
<1>3. r.high = Lesser(f.high, size) /\ r.high <= size /\ r.high <= source.size
  BY <1>1, <1>2 DEF Lesser
<1>4. t \in PageMaps /\ new \in PageMaps
  BY <1>2, MapTypes DEF Purged
<1>5. \A p \in PageIds : /\ old[p] = (IF f.pages[p] # NoPage THEN f.pages[p] ELSE tier2[p])
                         /\ new[p] = (IF r.pages[p] # NoPage THEN r.pages[p] ELSE t[p])
  BY DEF Over
<1>6. CASE size < f.size
  <2>1. \A p \in PageIds : r.pages[p] =
          IF Start(p) >= size \/ f.pages[p] = NoPage THEN NoPage
          ELSE Cut(f.pages[p], p, size)
    BY <1>1, <1>6, ResizedFields
  <2>2. \A p \in PageIds : t[p] = IF Start(p) < size THEN tier2[p] ELSE NoPage
    BY <1>6 DEF Purged, Only
  <2>3. \A p \in PageIds : r.pages[p] = NoPage <=> f.pages[p] = NoPage \/ Start(p) >= size
    BY <1>1, <2>1, CutFields, MapTypes
  <2>. HIDE DEF r, t, old, new
  <2>4. ASSUME NEW p \in PageIds
        PROVE  /\ new[p] = NoPage <=> old[p] = NoPage \/ Start(p) >= size
               /\ new[p] # NoPage => \A o \in 0..(PageSize - 1) :
                    new[p][o] = IF Start(p) + o < size THEN old[p][o] ELSE 0
    <3>1. Start(p) \in Nat /\ PageSize \in Nat
      BY PageIdsNat, PagedAssumption
    <3>2. CASE Start(p) >= size
      BY <1>1, <1>5, <2>1, <2>2, <3>1, <3>2
    <3>3. CASE Start(p) < size /\ f.pages[p] # NoPage
      <4>1. f.pages[p] \in Contents
        BY <1>1, <3>3, MapTypes
      <4>2. new[p] = Cut(f.pages[p], p, size) /\ old[p] = f.pages[p]
        BY <1>1, <1>5, <2>1, <2>3, <3>1, <3>3
      <4>. QED
        BY SMTT(40), <1>1, <3>1, <3>3, <4>1, <4>2, CutFields
    <3>4. CASE Start(p) < size /\ f.pages[p] = NoPage
      <4>1. new[p] = tier2[p] /\ old[p] = tier2[p]
        BY <1>5, <2>1, <2>2, <3>4
      <4>2. tier2[p] # NoPage => Start(p) + PageSize <= size
        BY <1>6, <3>4 DEF WholeBelow
      <4>. QED
        BY <1>1, <3>1, <3>4, <4>1, <4>2
    <3>. QED
      BY <1>1, <3>1, <3>2, <3>3, <3>4
  <2>5. Fits(new, size)
    <3>1. ASSUME NEW p \in PageIds, new[p] # NoPage
          PROVE  /\ Start(p) < size
                 /\ \A o \in 0..(PageSize - 1) : Start(p) + o >= size => new[p][o] = 0
      BY <1>1, <2>4, <3>1, PageIdsNat, PagedAssumption
    <3>. QED
      BY <3>1 DEF Fits
  <2>6. ASSUME NEW i \in Offsets, i < size
        PROVE  Byte(new, r.high, i) = Byte(old, f.high, i)
    <3>. DEFINE p == PageOf(i)
                o == i % PageSize
    <3>1. /\ i \in Nat /\ p \in PageIds /\ o \in 0..(PageSize - 1) /\ i = Start(p) + o
          /\ Start(p) \in Nat /\ o \in Nat
      BY PageIdsNat, OffsetSplit, PagedAssumption
    <3>2. Start(p) < size
      BY <1>1, <2>6, <3>1
    <3>3. i < r.high <=> i < f.high
      BY <1>1, <1>3, <2>6, <3>1 DEF Lesser
    <3>. HIDE DEF p, o
    <3>4. new[p] = NoPage <=> old[p] = NoPage
      BY <1>1, <2>4, <3>1, <3>2
    <3>5. new[p] # NoPage => new[p][o] = old[p][o]
      BY <2>4, <2>6, <3>1
    <3>. QED
      BY <3>3, <3>4, <3>5 DEF Byte, p, o
  <2>7. Ready(r, t)
    BY <1>1, <1>2, <1>3, <1>4, <2>5 DEF Ready, new
  <2>. QED
    BY <1>2, <1>3, <1>4, <2>3, <2>6, <2>7 DEF r, t, old, new
<1>7. CASE ~(size < f.size)
  <2>1. r.pages = f.pages /\ t = tier2 /\ r.high = f.high /\ f.size <= size
    BY <1>1, <1>2, <1>7, ResizedFields DEF Purged
  <2>2. new = old /\ Fits(old, size)
    BY <1>1, <2>1, FitsGrows
  <2>3. \A p \in PageIds : f.pages[p] # NoPage => Start(p) < size
    BY <1>5, <2>2 DEF Fits
  <2>4. ASSUME NEW p \in PageIds
        PROVE  r.pages[p] = NoPage <=> f.pages[p] = NoPage \/ Start(p) >= size
    <3>1. Start(p) \in Nat /\ (f.pages[p] # NoPage => ~(Start(p) >= size))
      BY <1>1, <2>3, PageIdsNat
    <3>. QED
      BY <2>1, <3>1
  <2>5. Ready(r, t)
    BY <1>1, <1>2, <1>3, <1>4, <2>2 DEF Ready
  <2>. HIDE DEF r, t, old, new
  <2>. QED
    BY <1>2, <1>3, <1>4, <2>1, <2>2, <2>4, <2>5 DEF r, t, old, new
<1>. QED
  BY <1>6, <1>7

-----------------------------------------------------------------------------
(* The operations. *)

\* What the invariant says of the entry and of the replay of its journal, as
\* ensure_entry would make them.
LEMMA InvFacts ==
  ASSUME PagedInv
  PROVE  LET e == Ensured(entry)
             r == Ensured(replayed) IN
         /\ source \in Files /\ entry \in Entries /\ replayed \in Entries
         /\ committed \in Entries /\ index \in PageMaps /\ SourceInv
         /\ Ready(e, index) /\ Ready(r, NoPages)
         /\ e.pages = entry.pages /\ r.pages = replayed.pages
         /\ e.pages \in PageMaps /\ r.pages \in PageMaps
         /\ Fits(e.pages, e.size) /\ Fits(r.pages, r.size)
         /\ e.size \in 0..MaxSize /\ e.size \in Nat /\ e.high \in Nat
         /\ r.size \in 0..MaxSize /\ r.size \in Nat
         /\ Read(entry, index) = FileOf(e.size, e.high, Over(e.pages, index))
         /\ Read(replayed, NoPages) = FileOf(r.size, r.high, r.pages)
<1>. DEFINE e == Ensured(entry)
            r == Ensured(replayed)
<1>1. /\ source \in Files /\ entry \in Entries /\ replayed \in Entries
      /\ committed \in Entries /\ index \in PageMaps /\ SourceInv
      /\ Sound(entry, index) /\ Sound(replayed, NoPages) /\ NoPages \in PageMaps
  BY CleanFields DEF PagedInv, TypeOK
<1>2. Ready(e, index) /\ e.pages = entry.pages
  BY <1>1, EnsuredReady
<1>3. Ready(r, NoPages) /\ r.pages = replayed.pages
  BY <1>1, EnsuredReady
<1>4. /\ e.pages \in PageMaps /\ r.pages \in PageMaps /\ e.size \in 0..MaxSize
      /\ e.size \in Nat /\ e.high \in Nat
      /\ r.size \in 0..MaxSize /\ r.size \in Nat /\ r.high \in Nat
  BY <1>2, <1>3, EntryFields DEF Ready
<1>5. Read(entry, index) = FileOf(e.size, e.high, Over(e.pages, index))
  BY <1>1, <1>2, ReadReady
<1>6. Over(r.pages, NoPages) = r.pages
  BY <1>4, OverNoPages
<1>7. Read(replayed, NoPages) = FileOf(r.size, r.high, r.pages)
  BY <1>1, <1>3, <1>6, ReadReady
<1>8. Fits(r.pages, r.size)
  BY <1>3, <1>6 DEF Ready
<1>9. Fits(e.pages, e.size)
  <2>1. Fits(Over(e.pages, index), e.size)
    BY <1>2 DEF Ready
  <2>2. \A p \in PageIds : e.pages[p] # NoPage => Over(e.pages, index)[p] = e.pages[p]
    BY DEF Over
  <2>. HIDE DEF e
  <2>. QED
    BY <2>1, <2>2 DEF Fits
<1>. QED
  BY <1>1, <1>2, <1>3, <1>4, <1>5, <1>7, <1>8, <1>9

\* The values that an operation leaves are sound, and the journal follows.
Sane(ent, tier2, rep, comm) ==
  /\ ent \in Entries /\ tier2 \in PageMaps /\ rep \in Entries /\ comm \in Entries
  /\ Sound(ent, tier2) /\ Sound(rep, NoPages) /\ Sound(comm, NoPages)
  /\ Follows(ent, tier2, rep)

\* An operation that leaves the source alone: the invariant and the file of the
\* new state are those of the new values.
LEMMA SameSource ==
  ASSUME source' = source
  PROVE  /\ Read(entry, index)' = Read(entry', index')
         /\ Read(committed, NoPages)' = Read(committed', NoPages)
         /\ source \in Files /\ SourceInv /\ Sane(entry', index', replayed', committed')
              => PagedInv'
<1>1. /\ Read(entry, index)' = Read(entry', index')
      /\ Read(committed, NoPages)' = Read(committed', NoPages)
      /\ Sound(entry, index)' = Sound(entry', index')
      /\ Sound(replayed, NoPages)' = Sound(replayed', NoPages)
      /\ Sound(committed, NoPages)' = Sound(committed', NoPages)
      /\ Follows(entry, index, replayed)' = Follows(entry', index', replayed')
      /\ SourceInv' = SourceInv
  BY DEF Read, ByteAt, Sound, Ensured, SourceInv, Follows, Resident
<1>. QED
  BY <1>1 DEF PagedInv, TypeOK, Sane

\* What PagedFile's variables read as in FlatFile.
flatfile == Read(entry, index)
flatkept == Read(committed, NoPages)

\* The topmost pages of a sound entry: nothing of them is cut when they are
\* appended to a journal, and the entry reads the same when Tier 2 has them all.
LEMMA TopPages ==
  ASSUME source \in Files, SourceInv, NEW e \in Entries, NEW tier2 \in PageMaps,
         Sound(e, tier2)
  PROVE  LET map == Over(e.pages, tier2) IN
         /\ map \in PageMaps /\ Fits(map, e.size) /\ Fits(e.pages, e.size)
         /\ Clamped(e.pages, e.size) = e.pages /\ Clamped(map, e.size) = map
         /\ Over(e.pages, map) = map /\ Sound(e, map)
         /\ Read(e, map) = Read(e, tier2)
<1>. DEFINE map == Over(e.pages, tier2)
<1>1. e.pages \in PageMaps /\ e.size \in Nat /\ map \in PageMaps
  BY EntryFields, MapTypes
<1>2. Over(e.pages, map) = map
  BY DEF Over
<1>3. Fits(map, e.size)
  BY DEF Sound
<1>4. Fits(e.pages, e.size)
  <2>1. \A p \in PageIds : e.pages[p] # NoPage => map[p] = e.pages[p]
    BY DEF Over
  <2>. HIDE DEF map
  <2>. QED
    BY <1>3, <2>1 DEF Fits
<1>5. Clamped(e.pages, e.size) = e.pages /\ Clamped(map, e.size) = map
  BY <1>1, <1>3, <1>4, ClampedFits
<1>6. ~e.dirty => map = NoPages
  BY CleanFields, OverNoPages DEF Sound
<1>7. Sound(e, map)
  BY <1>2, <1>3, <1>6 DEF Sound
<1>8. Read(e, map) = Read(e, tier2)
  <2>1. Read(e, map) = FileOf(Ensured(e).size, Ensured(e).high, Over(e.pages, map))
    BY <1>1, <1>7, ReadReady
  <2>2. Read(e, tier2) = FileOf(Ensured(e).size, Ensured(e).high, map)
    BY ReadReady
  <2>. QED
    BY <1>2, <2>1, <2>2
<1>. QED
  BY <1>1, <1>2, <1>3, <1>4, <1>5, <1>7, <1>8

\* The journal that a compaction writes is that of the entry and all its pages.
LEMMA RejournaledSound ==
  ASSUME source \in Files, SourceInv, NEW e \in Entries, NEW map \in PageMaps,
         Sound(e, map), Over(e.pages, map) = map
  PROVE  LET r == Rejournaled(e, map) IN
         /\ r \in Entries /\ Sound(r, NoPages) /\ Follows(e, map, r)
         /\ Read(r, NoPages) = Read(e, map)
<1>. DEFINE r == Rejournaled(e, map)
<1>1. Fits(map, e.size) /\ e.high <= e.size /\ e.high <= source.size
  BY DEF Sound
<1>2. CASE e.dirty
  <2>1. r = [dirty |-> TRUE, size |-> e.size, high |-> e.high, pages |-> map]
    BY <1>1, <1>2, RejournaledFields
  <2>2. /\ r \in Entries /\ r.dirty /\ r.size = e.size /\ r.high = e.high
        /\ r.pages = map
    BY <2>1, EntryFields DEF Entries
  <2>. HIDE DEF r
  <2>3. Ensured(r) = r /\ Ensured(e) = e
    BY <1>2, <2>2, EnsuredFields
  <2>4. Over(r.pages, NoPages) = map
    BY <2>2, OverNoPages
  <2>5. Sound(r, NoPages)
    BY <1>1, <2>2, <2>4 DEF Sound
  <2>6. Follows(e, map, r)
    BY <1>2, <2>2, <2>3, EntryFields DEF Follows
  <2>7. Read(r, NoPages) = Read(e, map)
    <3>1. Read(r, NoPages) = FileOf(r.size, r.high, map)
      BY <2>2, <2>3, <2>4, <2>5, CleanFields, ReadReady
    <3>2. Read(e, map) = FileOf(e.size, e.high, map)
      BY <2>3, ReadReady
    <3>. QED
      BY <2>2, <3>1, <3>2
  <2>. QED
    BY <2>2, <2>5, <2>6, <2>7 DEF r
<1>3. CASE ~e.dirty
  <2>1. r = Clean /\ e = Clean /\ map = NoPages
    BY <1>3 DEF Sound, Rejournaled
  <2>2. Ensured(Clean).size \in Nat
    BY CleanFields, EnsuredFields, EntryFields
  <2>3. Follows(Clean, NoPages, Clean)
    BY <2>2, CleanFields DEF Follows
  <2>. QED
    BY <2>1, <2>3
<1>. QED
  BY <1>2, <1>3

LEMMA CrashInv ==
  ASSUME PagedInv, CrashAndRecover
  PROVE  PagedInv' /\ flatfile' = flatkept /\ flatkept' = flatkept
<1>. DEFINE c == committed
            records == Clamped(c.pages, c.size)
<1>1. /\ source \in Files /\ SourceInv /\ c \in Entries /\ Sound(c, NoPages)
      /\ NoPages \in PageMaps
  BY CleanFields DEF PagedInv, TypeOK
<1>2. /\ c.pages \in PageMaps /\ c.size \in Nat /\ c.dirty \in BOOLEAN
      /\ Over(c.pages, NoPages) = c.pages /\ Over(c.pages, c.pages) = c.pages
  <2>1. c.pages \in PageMaps /\ c.size \in Nat /\ c.dirty \in BOOLEAN
    BY <1>1, EntryFields
  <2>. QED
    BY <2>1, OverNoPages DEF Over, PageMaps
<1>3. Fits(c.pages, c.size) /\ records = c.pages
  BY <1>1, <1>2, ClampedFits DEF Sound
<1>4. Rejournaled(c, c.pages) = c
  <2>1. CASE c.dirty
    <3>1. Rejournaled(c, c.pages) =
            [dirty |-> TRUE, size |-> c.size, high |-> c.high, pages |-> c.pages]
      BY <1>1, <1>2, <1>3, <2>1, RejournaledFields DEF Sound
    <3>2. c.dirty = TRUE
      BY <1>2, <2>1
    <3>. QED
      BY <1>1, <3>1, <3>2, EntryFields
  <2>2. CASE ~c.dirty
    BY <1>1, <2>2 DEF Sound, Rejournaled
  <2>. QED
    BY <2>1, <2>2
<1>5. /\ entry' = c /\ index' = c.pages /\ replayed' = c /\ committed' = c
      /\ source' = source
  BY <1>3, <1>4 DEF CrashAndRecover
<1>6. Sound(c, c.pages)
  BY <1>1, <1>2, CleanFields DEF Sound
<1>7. Follows(c, c.pages, c)
  <2>1. Ensured(c).size \in Nat
    BY <1>1, EnsuredFields, EntryFields
  <2>. QED
    BY <2>1 DEF Follows
<1>8. Read(c, c.pages) = Read(c, NoPages)
  BY <1>1, <1>2, <1>6, ReadReady
<1>. QED
  BY <1>1, <1>2, <1>5, <1>6, <1>7, <1>8, SameSource DEF Sane, flatfile, flatkept

LEMMA CompactInv ==
  ASSUME PagedInv, CompactJournal
  PROVE  PagedInv' /\ flatfile' = flatfile /\ flatkept' = flatfile
<1>. DEFINE map == Over(entry.pages, index)
            r == Rejournaled(entry, map)
<1>1. /\ source \in Files /\ SourceInv /\ entry \in Entries /\ index \in PageMaps
      /\ Sound(entry, index)
  BY DEF PagedInv, TypeOK
<1>2. /\ map \in PageMaps /\ Sound(entry, map) /\ Over(entry.pages, map) = map
      /\ Clamped(entry.pages, entry.size) = entry.pages
      /\ Clamped(map, entry.size) = map /\ Read(entry, map) = Read(entry, index)
  BY <1>1, TopPages
<1>3. /\ entry' = entry /\ index' = map /\ replayed' = r /\ committed' = r
      /\ source' = source
  BY <1>2 DEF CompactJournal
<1>4. /\ r \in Entries /\ Sound(r, NoPages) /\ Follows(entry, map, r)
      /\ Read(r, NoPages) = Read(entry, map)
  BY <1>1, <1>2, RejournaledSound
<1>. HIDE DEF map, r
<1>. QED
  BY <1>1, <1>2, <1>3, <1>4, SameSource DEF Sane, flatfile, flatkept

LEMMA FlushInv ==
  ASSUME PagedInv, Flush
  PROVE  PagedInv' /\ flatfile' = flatfile /\ flatkept' = flatfile
<1>. DEFINE e == Ensured(entry)
            map == Over(entry.pages, index)
            r == ReplayPages(replayed, entry.pages, entry.size)
            g == Ensured(r)
            f == Ensured(replayed)
<1>1. /\ source \in Files /\ SourceInv /\ entry \in Entries /\ index \in PageMaps
      /\ Sound(entry, index) /\ replayed \in Entries /\ Sound(replayed, NoPages)
      /\ Follows(entry, index, replayed)
      /\ e.pages = entry.pages /\ f.pages = replayed.pages
      /\ f.pages \in PageMaps /\ e.size \in Nat /\ f.size \in Nat
      /\ entry.pages \in PageMaps /\ entry.size \in 0..MaxSize
      /\ entry.size \in Nat /\ e.size \in 0..MaxSize
  BY InvFacts, EntryFields DEF PagedInv
<1>2. /\ map \in PageMaps /\ Sound(entry, map) /\ Fits(entry.pages, entry.size)
      /\ Clamped(entry.pages, entry.size) = entry.pages
      /\ Read(entry, map) = Read(entry, index) /\ Over(entry.pages, map) = map
  BY <1>1, TopPages
<1>3. /\ entry' = entry /\ index' = map /\ replayed' = r /\ committed' = r
      /\ source' = source
  BY <1>2 DEF Flush
<1>4. /\ r \in Entries /\ (r.dirty <=> replayed.dirty \/ Some(entry.pages))
      /\ (~r.dirty => r = replayed) /\ g.high = f.high
      /\ g.pages = Over(entry.pages, f.pages) /\ g.size >= f.size
      /\ \A p \in PageIds : entry.pages[p] # NoPage => g.size >= End(entry.size, p)
      /\ \/ g.size = f.size
         \/ \E p \in PageIds : entry.pages[p] # NoPage /\ g.size = End(entry.size, p)
  BY <1>1, <1>2, ReplayPagesEnsured
<1>5. Sound(r, NoPages)
  BY <1>1, <1>2, ReplayPagesSound
<1>6. r.pages = g.pages /\ g.size \in Nat
  BY <1>1, <1>4, <1>5, CleanFields, EnsuredReady, EntryFields DEF Ready
<1>7. g.pages = map
  BY <1>1, <1>4 DEF Follows, Over
<1>8. Some(entry.pages) => entry.dirty /\ e = entry
  BY <1>1, EnsuredReady, CleanFields DEF Some
<1>9. g.size = e.size
  <2>1. g.size <= e.size
    <3>1. \A p \in PageIds : End(entry.size, p) <= entry.size
      BY <1>1, EndRange
    <3>. QED
      BY <1>1, <1>4, <1>8, <3>1 DEF Follows, Some
  <2>2. CASE f.size < e.size
    <3>1. PageOf(e.size - 1) \in PageIds /\ entry.pages[PageOf(e.size - 1)] # NoPage
      BY <1>1, <2>2 DEF Follows, Resident
    <3>2. g.size >= End(entry.size, PageOf(e.size - 1)) /\ e = entry
      BY <1>4, <1>8, <3>1 DEF Some
    <3>3. End(e.size, PageOf(e.size - 1)) = e.size
      BY <1>1, <2>2, LastPage
    <3>. QED
      BY <1>1, <1>6, <2>1, <3>2, <3>3
  <2>3. CASE ~(f.size < e.size)
    BY <1>1, <1>4, <1>6, <2>1, <2>3
  <2>. QED
    BY <2>2, <2>3
<1>10. g.high = e.high
  BY <1>1, <1>4 DEF Follows
<1>11. Follows(entry, map, r)
  <2>1. ~entry.dirty => ~r.dirty
    BY <1>1, <1>4, <1>8 DEF Follows
  <2>. HIDE DEF map, r, g, e
  <2>. QED
    BY <1>1, <1>6, <1>7, <1>9, <1>10, <2>1 DEF Follows, g, e
<1>12. Read(r, NoPages) = Read(entry, index)
  <2>1. Read(entry, index) = FileOf(e.size, e.high, map)
    BY <1>1, ReadReady
  <2>2. Read(r, NoPages) = FileOf(g.size, g.high, Over(r.pages, NoPages))
    BY <1>1, <1>4, <1>5, CleanFields, ReadReady
  <2>3. Over(r.pages, NoPages) = map
    BY <1>2, <1>6, <1>7, OverNoPages
  <2>. QED
    BY <1>9, <1>10, <2>1, <2>2, <2>3
<1>. HIDE DEF map, r, g, e, f
<1>. QED
  BY <1>1, <1>2, <1>3, <1>4, <1>5, <1>11, <1>12, SameSource
  DEF Sane, flatfile, flatkept

\* The values of a mount that nothing touched.
LEMMA CleanSane ==
  ASSUME source \in Files, SourceInv
  PROVE  Sane(Clean, NoPages, Clean, Clean) /\ Read(Clean, NoPages) = source
<1>1. Ensured(Clean).size \in Nat
  BY CleanFields, EnsuredFields, EntryFields
<1>2. Follows(Clean, NoPages, Clean)
  BY <1>1, CleanFields DEF Follows
<1>. QED
  BY <1>2, CleanFields, ReadySound DEF Sane, Read

LEMMA CommitInv ==
  ASSUME PagedInv, Commit
  PROVE  PagedInv' /\ flatfile' = flatfile /\ flatkept' = flatfile
<1>. DEFINE map == Over(entry.pages, index)
            full == [entry EXCEPT !.pages = map]
            file == Read(entry, index)
            e == Ensured(entry)
<1>1. /\ source \in Files /\ SourceInv /\ entry \in Entries /\ index \in PageMaps
      /\ Sound(entry, index) /\ entry.dirty /\ e = entry
      /\ file = FileOf(e.size, e.high, map)
  <2>1. /\ source \in Files /\ SourceInv /\ entry \in Entries /\ index \in PageMaps
        /\ Sound(entry, index) /\ entry.dirty
    BY DEF Commit, PagedInv, TypeOK
  <2>. QED
    BY <2>1, EnsuredReady, ReadReady
<1>2. map \in PageMaps
  BY <1>1, TopPages
<1>3. /\ full \in Entries /\ full.dirty /\ full.size = entry.size
      /\ full.high = entry.high /\ full.pages = map
  BY <1>1, <1>2, WithPages
<1>4. /\ source' = Read(full, NoPages) /\ entry' = Clean /\ index' = NoPages
      /\ replayed' = Clean /\ committed' = Clean
  BY DEF Commit
<1>. HIDE DEF full
<1>5. Read(full, NoPages) = file
  <2>1. Over(full.pages, NoPages) = map
    BY <1>2, <1>3, OverNoPages
  <2>2. Ensured(full) = full
    BY <1>1, <1>3, EnsuredFields
  <2>3. Read(full, NoPages) = FileOf(full.size, full.high, map)
    BY <1>1, <1>3, <2>1, <2>2, CleanFields, ReadEnsured
  <2>. QED
    BY <1>1, <1>3, <2>3
<1>6. file \in Files /\ \A i \in Offsets : i >= file.size => file.bytes[i] = 0
  <2>. DEFINE byte(i) == IF i < e.size THEN Byte(map, e.high, i) ELSE 0
  <2>1. e.size \in 0..MaxSize /\ e.high \in 0..MaxSize /\ e.size \in Nat
    BY <1>1, EntryFields
  <2>2. \A i \in Offsets : byte(i) \in Bytes
    BY <1>1, <1>2, <2>1, PageIdsNat, ByteFields DEF Bytes
  <2>3. file = [size |-> e.size, bytes |-> [i \in Offsets |-> byte(i)]]
    BY <1>1 DEF FileOf
  <2>4. file.size = e.size /\ file.bytes = [i \in Offsets |-> byte(i)]
    BY <2>3
  <2>5. \A i \in Offsets : i >= e.size => byte(i) = 0
    BY <2>1, PageIdsNat
  <2>6. file \in Files
    <3>. HIDE DEF byte, file
    <3>. QED
      BY <2>1, <2>2, <2>3 DEF Files
  <2>. HIDE DEF byte, file, e
  <2>. QED
    BY <2>4, <2>5, <2>6
<1>7. (source \in Files /\ SourceInv)'
  BY <1>4, <1>5, <1>6 DEF SourceInv, Files, Offsets, Bytes
<1>8. (Sane(Clean, NoPages, Clean, Clean) /\ Read(Clean, NoPages) = source)'
  BY <1>7, CleanSane, PTL
<1>9. /\ Sane(entry, index, replayed, committed)'
      /\ Read(entry, index)' = source' /\ Read(committed, NoPages)' = source'
  BY <1>4, <1>8 DEF Sane, Sound, Follows, Ensured, Read, Clean, NoPages, Resident, Fits, Over
<1>10. PagedInv'
  BY <1>7, <1>9 DEF PagedInv, TypeOK, Sane
<1>. QED
  BY <1>4, <1>5, <1>9, <1>10 DEF flatfile, flatkept

LEMMA TruncateInv ==
  ASSUME PagedInv, CutSpilled = FALSE, NEW size \in 0..MaxSize, Truncate(size)
  PROVE  /\ PagedInv' /\ flatkept' = flatkept
         /\ flatfile' = Flat!Resized(flatfile, size)
<1>. DEFINE e == Ensured(entry)
            r == Ensured(replayed)
            f == Resized(e, size)
            g == Resized(r, size)
            t == Purged(e, index, size)
            old == Over(e.pages, index)
            new == Over(f.pages, t)
<1>1. /\ source \in Files /\ entry \in Entries /\ replayed \in Entries
      /\ committed \in Entries /\ index \in PageMaps /\ SourceInv
      /\ Ready(e, index) /\ Ready(r, NoPages) /\ Sound(committed, NoPages)
      /\ e.pages = entry.pages /\ r.pages = replayed.pages
      /\ e.pages \in PageMaps /\ r.pages \in PageMaps
      /\ e.size \in Nat /\ r.size \in Nat /\ e.high \in Nat
      /\ r.high = e.high /\ r.size <= e.size /\ size \in Nat
      /\ flatfile = FileOf(e.size, e.high, old)
  BY InvFacts, PagedAssumption DEF PagedInv, Follows, flatfile
<1>2. ~CutsSpilled(size)
  BY DEF Truncate
<1>3. /\ entry' = f /\ index' = t /\ replayed' = g
      /\ source' = source /\ committed' = committed
  BY DEF Truncate, Purged, ReplayResize
<1>4. size < e.size => WholeBelow(e, index, size)
  <2>. SUFFICES ASSUME size < e.size, NEW p \in PageIds,
                       e.pages[p] = NoPage, index[p] # NoPage, Start(p) < size
                PROVE  Start(p) + PageSize <= size
    BY DEF WholeBelow
  <2>1. size % PageSize = 0 \/ PageOf(size) # p
    BY <1>1, <1>2 DEF CutsSpilled
  <2>. QED
    BY <1>1, <2>1, PageBelow, PageIdsNat
<1>5. WholeBelow(r, NoPages, size) /\ Purged(r, NoPages, size) = NoPages
  BY CleanFields DEF WholeBelow, Purged, Only, NoPages
<1>6. /\ Ready(f, t) /\ t \in PageMaps /\ f.size = size /\ f.high = Lesser(e.high, size)
      /\ \A p \in PageIds : f.pages[p] = NoPage <=>
                            e.pages[p] = NoPage \/ Start(p) >= size
      /\ \A i \in Offsets : i < size =>
           Byte(new, f.high, i) = Byte(old, e.high, i)
  BY <1>1, <1>4, ResizedReady
<1>7. /\ Ready(g, NoPages) /\ g.size = size /\ g.high = Lesser(r.high, size)
      /\ \A p \in PageIds : g.pages[p] = NoPage <=>
                            r.pages[p] = NoPage \/ Start(p) >= size
  BY <1>1, <1>5, CleanFields, ResizedReady
<1>8. /\ f \in Entries /\ g \in Entries /\ f.dirty /\ g.dirty
      /\ Sound(f, t) /\ Sound(g, NoPages) /\ Ensured(f) = f /\ Ensured(g) = g
  BY <1>1, <1>6, <1>7, ReadySound, EnsuredFields DEF Ready
<1>9. \A p \in PageIds : /\ r.pages[p] = NoPage <=> index[p] = NoPage
                         /\ e.pages[p] = NoPage => r.pages[p] = index[p]
                         /\ r.pages[p] # NoPage => Start(p) < r.size
  <2>1. Fits(r.pages, r.size)
    BY InvFacts
  <2>. QED
    BY <1>1, <2>1 DEF PagedInv, Follows, Fits
<1>10. ASSUME NEW p \in PageIds
       PROVE  /\ g.pages[p] = NoPage <=> t[p] = NoPage
              /\ f.pages[p] = NoPage => g.pages[p] = t[p]
  <2>1. Start(p) \in Nat
    BY PageIdsNat
  <2>2. CASE ~(size < e.size)
    <3>1. f.pages = e.pages /\ g.pages = r.pages /\ t = index
      BY <1>1, <2>2, ResizedFields DEF Purged, Ready
    <3>. QED
      BY <1>9, <3>1
  <2>3. CASE size < e.size
    <3>1. t[p] = IF Start(p) < size THEN index[p] ELSE NoPage
      BY <2>3 DEF Purged, Only
    <3>2. g.pages[p] = NoPage <=> t[p] = NoPage
      BY <1>1, <1>7, <1>9, <2>1, <3>1
    <3>3. ASSUME f.pages[p] = NoPage, t[p] # NoPage
          PROVE  g.pages[p] = t[p]
      <4>1. /\ Start(p) < size /\ e.pages[p] = NoPage /\ index[p] # NoPage
            /\ t[p] = index[p] /\ r.pages[p] = index[p]
        BY <1>1, <1>6, <1>9, <2>1, <3>1, <3>3
      <4>2. CASE ~(size < r.size)
        <5>1. g.pages = r.pages
          BY <1>1, <4>2, ResizedFields DEF Ready
        <5>. QED
          BY <4>1, <5>1
      <4>3. CASE size < r.size
        <5>1. g.pages[p] = Cut(r.pages[p], p, size)
          BY <1>1, <2>1, <4>1, <4>3, ResizedFields DEF Ready
        <5>2. Start(p) + PageSize <= size
          BY <1>4, <2>3, <4>1 DEF WholeBelow
        <5>3. r.pages[p] \in Contents
          BY <1>1, <4>1, MapTypes
        <5>4. \A o \in 0..(PageSize - 1) : Start(p) + o < size
          BY <1>1, <2>1, <5>2, PagedAssumption
        <5>5. Cut(r.pages[p], p, size) = r.pages[p]
          BY <1>1, <5>3, <5>4, CutFields, PageEqual
        <5>. QED
          BY <4>1, <5>1, <5>5
      <4>. QED
        BY <4>2, <4>3
    <3>. QED
      BY <3>2, <3>3
  <2>. QED
    BY <2>2, <2>3
<1>11. Follows(f, t, g)
  <2>. HIDE DEF e, r, f, g, t
  <2>. QED
    BY <1>1, <1>6, <1>7, <1>8, <1>10 DEF Follows
<1>12. Read(f, t) = Flat!Resized(flatfile, size)
  <2>1. Read(f, t) = FileOf(size, f.high, new)
    BY <1>1, <1>6, <1>8, ReadReady
  <2>2. /\ flatfile.size = e.size /\ flatfile.bytes = [i \in Offsets |->
              IF i < e.size THEN Byte(old, e.high, i) ELSE 0]
    BY <1>1 DEF FileOf
  <2>3. ASSUME NEW i \in Offsets
        PROVE  (IF i < size THEN Byte(new, f.high, i) ELSE 0) =
                 (IF i < size THEN flatfile.bytes[i] ELSE 0)
    <3>1. /\ i \in Nat /\ PageOf(i) \in PageIds /\ old \in PageMaps
          /\ Fits(old, e.size) /\ e.high <= e.size /\ e.high \in 0..MaxSize
      BY <1>1, PageIdsNat, EntryFields DEF Ready
    <3>2. i >= e.size => Byte(old, e.high, i) = 0
      BY <1>1, <3>1, ByteFields
    <3>. HIDE DEF old, new, e, f
    <3>. QED
      BY <1>1, <1>6, <2>2, <3>1, <3>2
  <2>. HIDE DEF e, r, f, g, t, old, new
  <2>. QED
    BY <2>1, <2>3 DEF FileOf, Flat!Resized, Flat!Offsets, Offsets
<1>. HIDE DEF e, r, f, g, t
<1>. QED
  BY <1>1, <1>3, <1>6, <1>8, <1>11, <1>12, SameSource DEF Sane, flatfile, flatkept

\* Records that are appended to the journal and to Tier 2: a replay still has
\* the pages of Tier 2.
LEMMA RecordsFollow ==
  ASSUME source \in Files, NEW rep \in Entries, Sound(rep, NoPages),
         NEW tier2 \in PageMaps, NEW map \in PageMaps, NEW size \in 0..MaxSize,
         Fits(map, size),
         \A p \in PageIds : rep.pages[p] = NoPage <=> tier2[p] = NoPage
  PROVE  LET r == ReplayPages(rep, map, size) IN
         /\ \A p \in PageIds : r.pages[p] = NoPage <=> Over(map, tier2)[p] = NoPage
         /\ \A p \in PageIds : r.pages[p] = IF map[p] # NoPage THEN map[p]
                                            ELSE rep.pages[p]
<1>. DEFINE r == ReplayPages(rep, map, size)
<1>1. Sound(r, NoPages) /\ r \in Entries /\ NoPages \in PageMaps
  BY ReplayPagesSound, ReplayPagesEnsured, CleanFields
<1>2. Ensured(r).pages = r.pages /\ Ensured(rep).pages = rep.pages
  BY <1>1, EnsuredReady
<1>3. r.pages = Over(map, rep.pages)
  BY <1>2, ReplayPagesEnsured
<1>. HIDE DEF r
<1>. QED
  BY <1>3 DEF Over, r

LEMMA WriteInv ==
  ASSUME PagedInv, NEW from \in Offsets, NEW to \in (from + 1)..MaxSize,
         NEW v \in Values, Write(from, to, v)
  PROVE  /\ PagedInv' /\ flatkept' = flatkept
         /\ flatfile' = Flat!Written(flatfile, from, to, v)
<1>. DEFINE e       == Ensured(entry)
            size    == Greater(e.size, to)
            touched == {PageOf(i) : i \in from..(to - 1)}
            hits    == {p \in touched : e.pages[p] = NoPage /\ index[p] # NoPage}
            applied == [p \in PageIds |-> [o \in 0..(PageSize - 1) |->
                         IF Start(p) + o \in from..(to - 1) THEN v
                         ELSE ByteAt(e, index, Start(p) + o)]]
            tier1   == Over(Only(applied, touched \ hits), e.pages)
            written == [e EXCEPT !.size = size, !.pages = tier1]
            old     == Over(e.pages, index)
            r       == Ensured(replayed)
<1>1. /\ source \in Files /\ entry \in Entries /\ replayed \in Entries
      /\ committed \in Entries /\ index \in PageMaps /\ SourceInv
      /\ Ready(e, index) /\ e \in Entries /\ e.dirty /\ e.high <= e.size
      /\ e.high <= source.size /\ old \in PageMaps /\ Fits(old, e.size)
      /\ Sound(committed, NoPages) /\ Sound(replayed, NoPages)
      /\ e.pages = entry.pages /\ r.pages = replayed.pages
      /\ e.pages \in PageMaps /\ r.pages \in PageMaps /\ Fits(e.pages, e.size)
      /\ e.size \in Nat /\ r.size \in Nat /\ e.high \in 0..MaxSize /\ e.high \in Nat
      /\ r.high = e.high /\ r.size <= e.size /\ e.size \in 0..MaxSize
      /\ flatfile = FileOf(e.size, e.high, old)
  BY InvFacts, EntryFields DEF PagedInv, Follows, flatfile, Ready
<1>2. /\ from \in Nat /\ to \in Nat /\ from < to /\ to <= MaxSize /\ MaxSize \in Nat
      /\ size \in 0..MaxSize /\ size \in Nat /\ e.size <= size /\ to <= size
      /\ size = e.size \/ size = to
  BY <1>1, PagedAssumption DEF Offsets, Greater
<1>. HIDE DEF size
<1>3. ASSUME NEW p \in PageIds
      PROVE  p \in touched <=> \E o \in 0..(PageSize - 1) : Start(p) + o \in from..(to - 1)
  <2>1. ASSUME NEW i \in from..(to - 1), p = PageOf(i)
        PROVE  \E o \in 0..(PageSize - 1) : Start(p) + o \in from..(to - 1)
    <3>1. i \in Nat
      BY <1>2
    <3>2. i % PageSize \in 0..(PageSize - 1) /\ i = Start(p) + (i % PageSize)
      BY <2>1, <3>1, OffsetSplit
    <3>. QED
      BY <3>2
  <2>2. ASSUME NEW o \in 0..(PageSize - 1), Start(p) + o \in from..(to - 1)
        PROVE  p \in touched
    BY <2>2, OffsetUnique, PageIdsNat
  <2>. QED
    BY <2>1, <2>2
<1>4. \A p \in touched : p \in PageIds
  BY <1>2, PageIdsNat, PagedAssumption DEF Offsets
<1>. HIDE DEF touched
<1>5. ASSUME NEW p \in PageIds, NEW o \in 0..(PageSize - 1)
      PROVE  /\ Start(p) + o \in Nat
             /\ ByteAt(e, index, Start(p) + o) = Byte(old, e.high, Start(p) + o)
             /\ applied[p][o] \in Bytes
             /\ applied[p][o] = IF Start(p) + o \in from..(to - 1) THEN v
                               ELSE Byte(old, e.high, Start(p) + o)
             /\ Start(p) + o >= size => applied[p][o] = 0
  <2>. DEFINE i == Start(p) + o
  <2>1. i \in Nat /\ PageOf(i) = p
    BY PageIdsNat, OffsetUnique
  <2>2. ByteAt(e, index, i) = Byte(old, e.high, i)
    BY <1>1, <2>1, ByteAtOver
  <2>3. /\ Byte(old, e.high, i) \in Bytes
        /\ i >= e.size => Byte(old, e.high, i) = 0
    BY <1>1, <2>1, ByteFields
  <2>4. applied[p][o] = IF i \in from..(to - 1) THEN v ELSE Byte(old, e.high, i)
    BY <2>2
  <2>. HIDE DEF i, applied
  <2>5. v \in Bytes
    BY DEF Bytes
  <2>6. i >= size => i >= e.size /\ i \notin from..(to - 1)
    BY <1>1, <1>2, <2>1
  <2>. QED
    BY <2>1, <2>2, <2>3, <2>4, <2>5, <2>6 DEF i
<1>6. applied \in PageMaps /\ \A p \in PageIds : applied[p] # NoPage
  <2>1. \A p \in PageIds : applied[p] \in Contents
    BY <1>5 DEF Contents
  <2>. QED
    BY <2>1, PageIsNotNoPage DEF PageMaps
<1>. HIDE DEF applied
<1>7. tier1 \in PageMaps
  BY <1>1, <1>6, MapTypes
<1>8. \A p \in PageIds : tier1[p] = IF p \in touched /\ p \notin hits THEN applied[p]
                                    ELSE e.pages[p]
  BY <1>6 DEF Over, Only
<1>9. ASSUME NEW p \in touched PROVE Start(p) < size
  <2>1. PICK o \in 0..(PageSize - 1) : Start(p) + o \in from..(to - 1)
    BY <1>3, <1>4
  <2>2. Start(p) \in Nat /\ PageSize \in Nat
    BY <1>4, PageIdsNat, PagedAssumption
  <2>. QED
    BY <1>2, <2>1, <2>2
<1>10. Fits(e.pages, size) /\ Fits(old, size)
  BY <1>1, <1>2, FitsGrows
<1>11. ASSUME NEW map \in PageMaps,
              \A p \in PageIds : map[p] # NoPage =>
                \/ p \in touched /\ map[p] = applied[p]
                \/ map[p] = e.pages[p] \/ map[p] = old[p]
       PROVE  Fits(map, size)
  BY <1>5, <1>9, <1>10, <1>11 DEF Fits
<1>. HIDE DEF tier1
<1>12. /\ written \in Entries /\ written.dirty /\ written.size = size
       /\ written.high = e.high /\ written.pages = tier1
  <2>. DEFINE grown == [e EXCEPT !.size = size]
  <2>2. grown \in Entries /\ grown.dirty /\ grown.size = size /\ grown.high = e.high
    BY <1>1, <1>2, WithSize
  <2>. HIDE DEF grown
  <2>3. written = [grown EXCEPT !.pages = tier1]
    BY DEF grown
  <2>. HIDE DEF written
  <2>. QED
    BY <1>7, <2>2, <2>3, WithPages
<1>. HIDE DEF written, hits
<1>0. PICK victims \in SUBSET Resident(written) :
        LET records == Clamped(Over(Only(applied, hits), Only(tier1, victims)), size) IN
        /\ entry' = [written EXCEPT !.pages =
                       Only(written.pages, Resident(written) \ victims)]
        /\ index' = Over(records, index)
        /\ replayed' = ReplayPages(replayed, records, size)
        /\ source' = source /\ committed' = committed
  BY Zenon DEF Write, size, touched, hits, applied, tier1, written
<1>. DEFINE kept == Resident(written) \ victims
            raw  == Over(Only(applied, hits), Only(tier1, victims))
            new  == Over(entry'.pages, index')
            g    == Ensured(replayed')
<1>13. /\ \A p \in PageIds : p \in hits <=>
            p \in touched /\ e.pages[p] = NoPage /\ index[p] # NoPage
       /\ \A p \in PageIds : p \in Resident(written) <=> tier1[p] # NoPage
       /\ \A p \in PageIds : p \in kept <=> tier1[p] # NoPage /\ p \notin victims
       /\ \A p \in PageIds : p \in victims => tier1[p] # NoPage
  BY <1>12 DEF hits, Resident
<1>14. \A p \in PageIds : raw[p] = IF p \in hits THEN applied[p]
                                   ELSE IF p \in victims THEN tier1[p] ELSE NoPage
  BY <1>6 DEF Over, Only
<1>15. raw \in PageMaps
  BY <1>6, <1>7, MapTypes
<1>. HIDE DEF raw, kept
<1>16. Fits(raw, size)
  BY <1>8, <1>11, <1>13, <1>14, <1>15
<1>17. Clamped(raw, size) = raw
  BY <1>2, <1>15, <1>16, ClampedFits
<1>18. /\ index' = Over(raw, index) /\ replayed' = ReplayPages(replayed, raw, size)
       /\ source' = source /\ committed' = committed /\ index' \in PageMaps
       /\ \A p \in PageIds : index'[p] = IF raw[p] # NoPage THEN raw[p] ELSE index[p]
  <2>1. index' = Over(raw, index) /\ replayed' = ReplayPages(replayed, raw, size)
        /\ source' = source /\ committed' = committed
    BY <1>0, <1>17 DEF raw
  <2>. QED
    BY <1>1, <1>15, <2>1, MapTypes DEF Over
<1>19. /\ entry' \in Entries /\ entry'.dirty /\ entry'.size = size
       /\ entry'.high = e.high /\ entry'.pages \in PageMaps
       /\ \A p \in PageIds : entry'.pages[p] = IF p \in kept THEN tier1[p] ELSE NoPage
  <2>1. Only(tier1, kept) \in PageMaps
    BY <1>7, MapTypes
  <2>2. entry' = [written EXCEPT !.pages = Only(tier1, kept)]
    BY <1>0, <1>12 DEF kept
  <2>3. /\ entry' \in Entries /\ entry'.dirty /\ entry'.size = size
        /\ entry'.high = e.high /\ entry'.pages = Only(tier1, kept)
    BY <1>12, <2>1, <2>2, WithPages
  <2>. QED
    BY <2>1, <2>3 DEF Only
<1>20. \A p \in PageIds : new[p] = IF entry'.pages[p] # NoPage THEN entry'.pages[p]
                                   ELSE index'[p]
  BY DEF Over
<1>21. \A p \in PageIds : old[p] = IF e.pages[p] # NoPage THEN e.pages[p] ELSE index[p]
  BY DEF Over
<1>22. new \in PageMaps
  BY <1>18, <1>19, MapTypes
<1>. HIDE DEF new, old, e, r
<1>23. ASSUME NEW p \in PageIds
       PROVE  new[p] = IF p \in touched THEN applied[p] ELSE old[p]
  <2>1. CASE p \in hits
    BY <1>6, <1>8, <1>13, <1>14, <1>18, <1>19, <1>20, <2>1
  <2>2. CASE p \notin hits /\ p \in touched
    BY <1>6, <1>8, <1>13, <1>14, <1>18, <1>19, <1>20, <2>2
  <2>3. CASE p \notin touched
    BY <1>8, <1>13, <1>14, <1>18, <1>19, <1>20, <1>21, <2>3
  <2>. QED
    BY <2>1, <2>2, <2>3
<1>24. Fits(new, size)
  BY <1>11, <1>22, <1>23
<1>25. Ready(entry', index') /\ Sound(entry', index')
  <2>1. e.high <= size
    BY <1>1, <1>2
  <2>2. Ready(entry', index')
    BY <1>1, <1>19, <1>22, <1>24, <2>1 DEF Ready, new
  <2>. QED
    BY <1>1, <2>2, ReadySound
<1>26. Ensured(entry') = entry'
  BY <1>1, <1>19, EnsuredFields
<1>27. /\ replayed' \in Entries /\ g.high = r.high /\ g.size >= r.size
       /\ \A p \in PageIds : raw[p] # NoPage => g.size >= End(size, p)
       /\ \/ g.size = r.size
          \/ \E p \in PageIds : raw[p] # NoPage /\ g.size = End(size, p)
  <2>. DEFINE s == ReplayPages(replayed, raw, size)
  <2>1. s \in Entries /\ Ensured(s).high = r.high /\ Ensured(s).size >= r.size
    BY <1>1, <1>2, <1>15, <1>16, ReplayPagesEnsured DEF r
  <2>2. \A p \in PageIds : raw[p] # NoPage => Ensured(s).size >= End(size, p)
    BY <1>1, <1>2, <1>15, <1>16, ReplayPagesEnsured
  <2>3. \/ Ensured(s).size = r.size
        \/ \E p \in PageIds : raw[p] # NoPage /\ Ensured(s).size = End(size, p)
    BY <1>1, <1>2, <1>15, <1>16, ReplayPagesEnsured DEF r
  <2>. QED
    BY <1>18, <2>1, <2>2, <2>3
<1>28. Sound(replayed', NoPages)
  BY <1>1, <1>2, <1>15, <1>16, <1>18, ReplayPagesSound
<1>29. \A p \in PageIds :
         /\ replayed'.pages[p] = NoPage <=> index'[p] = NoPage
         /\ replayed'.pages[p] = IF raw[p] # NoPage THEN raw[p] ELSE replayed.pages[p]
  <2>1. \A p \in PageIds : replayed.pages[p] = NoPage <=> index[p] = NoPage
    BY DEF PagedInv, Follows
  <2>. QED
    BY <1>1, <1>2, <1>15, <1>16, <1>18, <2>1, RecordsFollow
<1>30. ASSUME NEW p \in PageIds, entry'.pages[p] = NoPage
       PROVE  replayed'.pages[p] = index'[p]
  <2>1. e.pages[p] = NoPage => replayed.pages[p] = index[p]
    BY <1>1 DEF PagedInv, Follows
  <2>2. raw[p] = NoPage => e.pages[p] = NoPage
    BY <1>6, <1>8, <1>13, <1>14, <1>19, <1>30
  <2>. QED
    BY <1>18, <1>29, <2>1, <2>2
<1>31. g.size \in Nat /\ g.size <= size
  <2>1. g.size \in Nat
    BY <1>1, <1>27, EnsuredFields, EntryFields
  <2>2. \A p \in PageIds : End(size, p) <= size
    BY <1>2, EndRange
  <2>. QED
    BY <1>1, <1>2, <1>27, <2>1, <2>2
<1>32. ASSUME g.size < size PROVE PageOf(size - 1) \in Resident(entry')
  <2>. DEFINE q == PageOf(size - 1)
  <2>1. size > 0 /\ size - 1 \in Offsets /\ End(size, q) = size
    BY <1>2, LastPage DEF Offsets
  <2>2. q \in PageIds
    BY <2>1, PageIdsNat
  <2>3. raw[q] = NoPage
    BY <1>2, <1>27, <1>31, <1>32, <2>1, <2>2
  <2>4. CASE size = to
    <3>1. size - 1 \in from..(to - 1)
      BY <1>2, <2>4
    <3>2. q \in touched
      BY <3>1 DEF touched
    <3>. HIDE DEF q
    <3>. QED
      BY <1>6, <1>8, <1>13, <1>14, <1>19, <2>2, <2>3, <3>2 DEF Resident, q
  <2>5. CASE size = e.size
    <3>1. q \in Resident(e)
      <4>1. r.size < e.size
        BY <1>1, <1>27, <1>31, <1>32, <2>5
      <4>. QED
        BY <2>5, <4>1 DEF PagedInv, Follows, e, r
    <3>. HIDE DEF q
    <3>2. tier1[q] # NoPage
      BY <1>6, <1>8, <2>2, <3>1 DEF Resident
    <3>. QED
      BY <1>6, <1>13, <1>14, <1>19, <2>2, <2>3, <3>2 DEF Resident, q
  <2>. QED
    BY <1>2, <2>4, <2>5
<1>33. Follows(entry', index', replayed')
  BY <1>1, <1>19, <1>26, <1>27, <1>29, <1>30, <1>31, <1>32 DEF Follows, g
<1>34. Read(entry', index') = Flat!Written(flatfile, from, to, v)
  <2>1. Read(entry', index') = FileOf(size, e.high, new)
    BY <1>1, <1>18, <1>19, <1>25, <1>26, ReadReady DEF new
  <2>2. /\ flatfile.size = e.size /\ flatfile.bytes = [i \in Offsets |->
              IF i < e.size THEN Byte(old, e.high, i) ELSE 0]
    BY <1>1 DEF FileOf
  <2>3. size = IF to > flatfile.size THEN to ELSE flatfile.size
    BY <1>1, <1>2, <2>2 DEF size, Greater
  <2>4. ASSUME NEW i \in Offsets
        PROVE  (IF i < size THEN Byte(new, e.high, i) ELSE 0) =
                 (IF i \in from..(to - 1) THEN v ELSE flatfile.bytes[i])
    <3>. DEFINE p == PageOf(i)
                o == i % PageSize
    <3>1. /\ i \in Nat /\ p \in PageIds /\ o \in 0..(PageSize - 1) /\ i = Start(p) + o
      BY PageIdsNat, OffsetSplit
    <3>. HIDE DEF p, o
    <3>2. Byte(new, e.high, i) = IF i \in from..(to - 1) THEN v ELSE Byte(old, e.high, i)
      <4>1. CASE p \in touched
        <5>1. Byte(new, e.high, i) = applied[p][o]
          BY <1>6, <1>23, <3>1, <4>1 DEF Byte, p, o
        <5>. QED
          BY <1>5, <3>1, <5>1
      <4>2. CASE p \notin touched
        <5>1. i \notin from..(to - 1)
          BY <1>3, <3>1, <4>2
        <5>2. Byte(new, e.high, i) = Byte(old, e.high, i)
          BY <1>23, <3>1, <4>2 DEF Byte, p
        <5>. QED
          BY <5>1, <5>2
      <4>. QED
        BY <4>1, <4>2
    <3>3. i >= e.size => Byte(old, e.high, i) = 0
      BY <1>1, <3>1, ByteFields DEF p
    <3>4. i \in from..(to - 1) => i < size
      BY <1>2, <3>1
    <3>. QED
      BY <1>1, <1>2, <2>2, <3>1, <3>2, <3>3, <3>4
  <2>. HIDE DEF size
  <2>. QED
    BY <2>1, <2>3, <2>4 DEF FileOf, Flat!Written, Flat!Offsets, Offsets
<1>. QED
  BY <1>1, <1>18, <1>19, <1>25, <1>27, <1>28, <1>33, <1>34, SameSource
  DEF Sane, flatfile, flatkept

-----------------------------------------------------------------------------
(* The theorems, of mounts that never truncate into a page that Tier 2 alone  *)
(* has: the code leaves what is behind such a cut in Tier 2.                  *)

LEMMA InitInv ==
  ASSUME Init
  PROVE  PagedInv /\ flatfile = source /\ flatkept = source
<1>1. source \in Files /\ SourceInv
  BY DEF Init, SourceInv
<1>2. /\ entry = Clean /\ index = NoPages /\ replayed = Clean /\ committed = Clean
  BY DEF Init
<1>3. Sane(Clean, NoPages, Clean, Clean) /\ Read(Clean, NoPages) = source
  BY <1>1, CleanSane
<1>. QED
  BY <1>1, <1>2, <1>3 DEF PagedInv, TypeOK, Sane, flatfile, flatkept

\* Every step keeps the invariant, and is a step of FlatFile or leaves it alone.
LEMMA StepInv ==
  ASSUME PagedInv, CutSpilled = FALSE, [Next]_vars
  PROVE  PagedInv' /\ [Flat!Next]_<<flatfile, flatkept>>
<1>1. ASSUME NEW from \in Offsets, NEW to \in (from + 1)..MaxSize, NEW v \in Values,
             Write(from, to, v)
      PROVE  PagedInv' /\ Flat!Next
  <2>1. /\ PagedInv' /\ flatkept' = flatkept
        /\ flatfile' = Flat!Written(flatfile, from, to, v)
    BY <1>1, WriteInv
  <2>2. Flat!Write(from, to, v)
    BY <2>1 DEF Flat!Write, flatfile, flatkept
  <2>. QED
    BY <2>1, <2>2 DEF Flat!Next, Flat!Offsets, Offsets
<1>2. ASSUME NEW size \in 0..MaxSize, Truncate(size)
      PROVE  PagedInv' /\ Flat!Next
  <2>1. /\ PagedInv' /\ flatkept' = flatkept
        /\ flatfile' = Flat!Resized(flatfile, size)
    BY <1>2, TruncateInv
  <2>2. Flat!Truncate(size)
    BY <2>1 DEF Flat!Truncate, flatfile, flatkept
  <2>. QED
    BY <2>1, <2>2 DEF Flat!Next
<1>3. ASSUME Flush \/ CompactJournal \/ Commit
      PROVE  PagedInv' /\ Flat!Next
  <2>1. PagedInv' /\ flatfile' = flatfile /\ flatkept' = flatfile
    BY <1>3, FlushInv, CompactInv, CommitInv
  <2>2. Flat!Flush
    BY <2>1 DEF Flat!Flush, flatfile, flatkept
  <2>. QED
    BY <2>1, <2>2 DEF Flat!Next
<1>4. ASSUME CrashAndRecover
      PROVE  PagedInv' /\ Flat!Next
  <2>1. PagedInv' /\ flatfile' = flatkept /\ flatkept' = flatkept
    BY <1>4, CrashInv
  <2>2. Flat!Crash
    BY <2>1 DEF Flat!Crash, flatfile, flatkept
  <2>. QED
    BY <2>1, <2>2 DEF Flat!Next
<1>5. ASSUME UNCHANGED vars
      PROVE  PagedInv' /\ UNCHANGED <<flatfile, flatkept>>
  BY <1>5 DEF vars, PagedInv, TypeOK, SourceInv, Sound, Follows, Ensured, Resident,
              flatfile, flatkept, Read, ByteAt
<1>. QED
  BY <1>1, <1>2, <1>3, <1>4, <1>5 DEF Next

\* Every step keeps the invariant; the stuttering ones too.
LEMMA StepsInv ==
  ASSUME CutSpilled = FALSE
  PROVE  /\ PagedInv /\ [Next]_vars => PagedInv'
         /\ PagedInv /\ [Next]_vars => [Flat!Next]_<<flatfile, flatkept>>
<1>1. ASSUME PagedInv, [Next]_vars PROVE PagedInv' /\ [Flat!Next]_<<flatfile, flatkept>>
  BY <1>1, StepInv, Zenon
<1>. QED
  BY <1>1

\* The state holds what the operations were written for: sizes and bytes in
\* range, and a whole page for every page of the tables (DirtyEntry, PageMap).
THEOREM PagedTypes ==
  ASSUME CutSpilled = FALSE PROVE Spec => []TypeOK
<1>1. Init => PagedInv
  BY InitInv
<1>2. PagedInv /\ [Next]_vars => PagedInv'
  BY StepsInv, Zenon
<1>3. PagedInv => TypeOK
  BY DEF PagedInv
<1>. QED
  BY <1>1, <1>2, <1>3, PTL DEF Spec

\* A replay of the whole journal loses nothing but what Tier 1 alone had: every
\* byte outside its pages reads the same (spill_over_limit, write_hit,
\* Tier2::flush, truncate_pages and replay_recovered).
THEOREM SpilledIsRestored ==
  ASSUME CutSpilled = FALSE PROVE Spec => []SpilledRestored
<1>1. Init => PagedInv
  BY InitInv
<1>2. PagedInv /\ [Next]_vars => PagedInv'
  BY StepsInv, Zenon
<1>3. PagedInv => SpilledRestored
  <2>. SUFFICES ASSUME PagedInv, NEW i \in Offsets, PageOf(i) \notin Resident(entry)
                PROVE  Read(entry, index).bytes[i] = Read(replayed, NoPages).bytes[i]
    BY DEF SpilledRestored
  <2>. DEFINE e == Ensured(entry)
              r == Ensured(replayed)
              old == Over(e.pages, index)
              p == PageOf(i)
  <2>1. /\ source \in Files /\ Ready(e, index) /\ Ready(r, NoPages)
        /\ e.pages = entry.pages /\ r.pages = replayed.pages /\ r.pages \in PageMaps
        /\ e.size \in Nat /\ r.size \in Nat /\ Fits(r.pages, r.size)
        /\ Read(entry, index) = FileOf(e.size, e.high, old)
        /\ Read(replayed, NoPages) = FileOf(r.size, r.high, r.pages)
    BY InvFacts
  <2>2. /\ old \in PageMaps /\ Fits(old, e.size) /\ e.high <= e.size /\ r.high <= r.size
        /\ e.high \in 0..MaxSize /\ r.high \in 0..MaxSize
    BY <2>1, EntryFields DEF Ready
  <2>3. i \in Nat /\ p \in PageIds
    BY PageIdsNat
  <2>4. e.pages[p] = NoPage /\ r.pages[p] = index[p] /\ r.high = e.high
    BY <2>1, <2>3 DEF PagedInv, Follows, Resident
  <2>5. old[p] = r.pages[p]
    BY <2>3, <2>4 DEF Over
  <2>6. Byte(old, e.high, i) = Byte(r.pages, r.high, i)
    BY <2>4, <2>5 DEF Byte
  <2>7. /\ i >= e.size => Byte(old, e.high, i) = 0
        /\ i >= r.size => Byte(r.pages, r.high, i) = 0
    BY <2>1, <2>2, <2>3, ByteFields
  <2>. HIDE DEF e, r, old
  <2>8. /\ Read(entry, index).bytes[i] = IF i < e.size THEN Byte(old, e.high, i) ELSE 0
        /\ Read(replayed, NoPages).bytes[i] =
             IF i < r.size THEN Byte(r.pages, r.high, i) ELSE 0
    BY <2>1 DEF FileOf
  <2>. QED
    BY <2>1, <2>3, <2>6, <2>7, <2>8
<1>. QED
  BY <1>1, <1>2, <1>3, PTL DEF Spec

\* The bytes that an extending truncate would add are zero: what a shrink cut off
\* does not come back (DirtyEntry.source_size, truncate_pages, purge_pages_beyond).
THEOREM ExtensionIsZero ==
  ASSUME CutSpilled = FALSE PROVE Spec => []ExtensionReadsZero
<1>1. Init => PagedInv
  BY InitInv
<1>2. PagedInv /\ [Next]_vars => PagedInv'
  BY StepsInv, Zenon
<1>3. PagedInv => ExtensionReadsZero
  <2>. SUFFICES ASSUME PagedInv, entry.dirty, NEW i \in entry.size..(MaxSize - 1)
                PROVE  Read(Resized(entry, MaxSize), index).bytes[i] = 0
    BY DEF ExtensionReadsZero
  <2>. DEFINE f == Resized(entry, MaxSize)
              map == Over(entry.pages, index)
  <2>1. /\ source \in Files /\ SourceInv /\ entry \in Entries /\ index \in PageMaps
        /\ Ready(entry, index) /\ MaxSize \in 0..MaxSize
    <3>1. /\ source \in Files /\ SourceInv /\ entry \in Entries /\ index \in PageMaps
          /\ Ready(Ensured(entry), index)
      BY InvFacts DEF PagedInv, TypeOK
    <3>2. Ensured(entry) = entry
      BY <3>1, EnsuredFields
    <3>. QED
      BY <3>1, <3>2, PagedAssumption
  <2>2. /\ entry.size \in Nat /\ entry.size <= MaxSize /\ entry.high \in 0..MaxSize
        /\ map \in PageMaps /\ Fits(map, entry.size) /\ entry.high <= entry.size
        /\ i \in Offsets /\ i >= entry.size /\ i < MaxSize /\ MaxSize \in Nat
    BY <2>1, EntryFields, PagedAssumption DEF Ready, Offsets
  <2>3. /\ f \in Entries /\ f.dirty /\ f.size = MaxSize /\ f.high = entry.high
        /\ f.pages = entry.pages
    <3>1. entry.dirty /\ ~(MaxSize < entry.size) /\ MaxSize >= entry.size
      BY <2>2
    <3>2. /\ f \in Entries /\ f.dirty = entry.dirty /\ f.size = MaxSize
          /\ f.high = IF MaxSize < entry.size THEN Lesser(entry.high, MaxSize)
                      ELSE entry.high
          /\ MaxSize >= entry.size => f.pages = entry.pages
      BY <2>1, ResizedFields, Zenon
    <3>. QED
      BY <3>1, <3>2
  <2>4. Ensured(f) = f
    BY <2>1, <2>3, EnsuredFields
  <2>5. Read(f, index) = FileOf(MaxSize, entry.high, map)
    BY <2>1, <2>3, <2>4, ReadEnsured
  <2>6. Byte(map, entry.high, i) = 0
    BY <2>1, <2>2, PageIdsNat, ByteFields
  <2>. HIDE DEF f, map
  <2>7. Read(f, index).bytes[i] = IF i < MaxSize THEN Byte(map, entry.high, i) ELSE 0
    BY <2>2, <2>5 DEF FileOf
  <2>. QED
    BY <2>6, <2>7 DEF f
<1>. QED
  BY <1>1, <1>2, <1>3, PTL DEF Spec

\* The entry is an array of bytes with a size: each operation of the two tiers,
\* of the journal and of the commit does to what it reads as what FlatFile says,
\* and a crash gives back what the last flush or commit left.
THEOREM FileIsFlat ==
  ASSUME CutSpilled = FALSE PROVE Spec => ImplementsFlatFile
<1>1. Init => PagedInv /\ Flat!Init
  <2>. SUFFICES ASSUME Init PROVE PagedInv /\ Flat!Init
    OBVIOUS
  <2>1. PagedInv /\ flatfile = source /\ flatkept = source
    BY InitInv
  <2>2. source \in Files /\ \A i \in Offsets : i >= source.size => source.bytes[i] = 0
    BY <2>1 DEF PagedInv, TypeOK, SourceInv
  <2>. QED
    BY <2>1, <2>2 DEF Flat!Init, Flat!Files, Flat!Bytes, Flat!Offsets, Files, Bytes,
                      Offsets, flatfile, flatkept
<1>2. PagedInv /\ [Next]_vars => PagedInv' /\ [Flat!Next]_<<flatfile, flatkept>>
  BY StepsInv, Zenon
<1>. QED
  BY <1>1, <1>2, PTL DEF Spec, ImplementsFlatFile, Flat!Spec, flatfile, flatkept

=============================================================================

------------------------------ MODULE PageCache ------------------------------
(***************************************************************************)
(* The page cache: a map from keys to the nodes of a slab, which a doubly  *)
(* linked list keeps in the order of their last use.  The cache is a record *)
(* that each operation of PageCache is a function of; the counters of hits  *)
(* and misses are left out.                                                 *)
(***************************************************************************)
EXTENDS Integers, SequencesExt

CONSTANTS
  PageSize,    \* page_size
  CacheBytes   \* cache_bytes

ASSUME CacheAssumption == PageSize \in Nat \ {0} /\ CacheBytes \in Nat

PageCount(size) == (size + PageSize - 1) \div PageSize
PageStart(p) == p * PageSize

\* page_extent: the length of a page, which only the last page has shorter.
PageLen(size, p) ==
  IF PageStart(p) >= size THEN 0
  ELSE IF size - PageStart(p) < PageSize THEN size - PageStart(p) ELSE PageSize

\* At least one page fits.
MaxBytes == IF CacheBytes < PageSize THEN PageSize ELSE CacheBytes

NIL == 0
Blank == [key |-> <<>>, data |-> <<>>, prev |-> NIL, next |-> NIL]
EmptyCache ==
  [map |-> <<>>, nodes |-> <<>>, free |-> <<>>, head |-> NIL, tail |-> NIL, cur |-> 0]

Resident(c, key) == key \in DOMAIN c.map

-----------------------------------------------------------------------------
(* The list. *)

\* What comes behind p is n, and what comes before n is p; an end of the list is
\* known to the cache.
LinkNext(c, p, n) ==
  IF p # NIL THEN [c EXCEPT !.nodes[p].next = n] ELSE [c EXCEPT !.head = n]
LinkPrev(c, p, n) ==
  IF n # NIL THEN [c EXCEPT !.nodes[n].prev = p] ELSE [c EXCEPT !.tail = p]

\* Mutant: the tail is not moved off a node that is unlinked.
Unlink_KeepTail(c, i) ==
  [LinkPrev(LinkNext(c, c.nodes[i].prev, c.nodes[i].next), c.nodes[i].prev, c.nodes[i].next)
     EXCEPT !.tail = c.tail]

Unlink(c, i) ==
  LinkPrev(LinkNext(c, c.nodes[i].prev, c.nodes[i].next), c.nodes[i].prev, c.nodes[i].next)

PushFront(c, i) ==
  [LinkPrev([c EXCEPT !.nodes[i].prev = NIL, !.nodes[i].next = c.head], i, c.head)
     EXCEPT !.head = i]

MoveToFront(c, i) == IF c.head = i THEN c ELSE PushFront(Unlink(c, i), i)

-----------------------------------------------------------------------------
(* The operations. *)

\* alloc_node takes a free place of the slab, or makes a new one.
Place(c) == IF c.free # <<>> THEN c.free[Len(c.free)] ELSE Len(c.nodes) + 1
AllocNode(c, node) ==
  IF c.free # <<>>
  THEN [c EXCEPT !.nodes[Place(c)] = node, !.free = SubSeq(@, 1, Len(@) - 1)]
  ELSE [c EXCEPT !.nodes = Append(@, node)]

\* A free node is blank here; the code leaves it its key and its links.
EvictTail(c) ==
  LET i   == c.tail
      key == c.nodes[i].key
  IN [Unlink(c, i) EXCEPT
        !.cur = @ - Len(c.nodes[i].data),
        !.map = [k \in DOMAIN @ \ {key} |-> @[k]],
        !.nodes[i] = Blank,
        !.free = Append(@, i)]

\* Down to MaxBytes, but never the last page.
Evicted(c) ==
  IF c.cur > MaxBytes /\ Cardinality(DOMAIN c.map) > 1 THEN EvictTail(c) ELSE c
EvictToFit(c) ==
  LET after[n \in 0..Len(c.nodes)] == IF n = 0 THEN c ELSE Evicted(after[n - 1])
  IN after[Len(c.nodes)]

\* PageCache::get of a key that is there.
Get(c, key) == MoveToFront(c, c.map[key])

Refreshed(c, i, data) ==
  MoveToFront([c EXCEPT !.cur = @ - Len(c.nodes[i].data) + Len(data),
                        !.nodes[i].data = data], i)
AddedAt(c, i, key, data) ==
  [PushFront(AllocNode(c, [Blank EXCEPT !.key = key, !.data = data]), i)
     EXCEPT !.map = [k \in DOMAIN @ \cup {key} |-> IF k = key THEN i ELSE @[k]],
            !.cur = @ + Len(data)]
Insert(c, key, data) ==
  EvictToFit(IF Resident(c, key) THEN Refreshed(c, c.map[key], data)
             ELSE AddedAt(c, Place(c), key, data))

\* The pages of a run, one after the other.
InsertRun(c, pages) ==
  LET after[n \in 0..Len(pages)] ==
        IF n = 0 THEN c ELSE Insert(after[n - 1], pages[n].key, pages[n].data)
  IN after[Len(pages)]

-----------------------------------------------------------------------------
(* The reference: the pages in the order of their last use, newest first.    *)

Knows(lru, key)   == \E k \in DOMAIN lru : lru[k].key = key
PlaceOf(lru, key) == CHOOSE k \in DOMAIN lru : lru[k].key = key
Without(lru, key) == IF Knows(lru, key) THEN RemoveAt(lru, PlaceOf(lru, key)) ELSE lru

Used(lru, key) == <<lru[PlaceOf(lru, key)]>> \o Without(lru, key)

\* The bytes of the first n pages.
SizeTo(lru, n) ==
  LET upto[k \in 0..Len(lru)] == IF k = 0 THEN 0 ELSE upto[k - 1] + Len(lru[k].data)
  IN upto[n]
SizeOf(lru) == SizeTo(lru, Len(lru))

\* The longest part from the front that fits, and one page at least.
Fits(lru, n) == n = 1 \/ SizeTo(lru, n) <= MaxBytes
Fitting(lru) ==
  LET fits == {n \in 1..Len(lru) : Fits(lru, n)}
  IN SubSeq(lru, 1, CHOOSE n \in fits : \A m \in fits : m <= n)

Added(lru, key, data) ==
  Fitting(<<[key |-> key, data |-> data]>> \o Without(lru, key))
AddedRun(lru, pages) ==
  LET after[n \in 0..Len(pages)] ==
        IF n = 0 THEN lru ELSE Added(after[n - 1], pages[n].key, pages[n].data)
  IN after[Len(pages)]

\* The cache holds exactly the pages of lru in its order, forwards and
\* backwards; every node is in the list or free; the account of bytes is exact.
Represents(c, lru) ==
  LET n == Len(lru)
      forth[k \in 1..n] == IF k = 1 THEN c.head ELSE c.nodes[forth[k - 1]].next
  IN /\ Cardinality(DOMAIN c.map) = n /\ c.cur = SizeOf(lru)
     /\ Len(c.nodes) = n + Len(c.free)
     /\ \A k \in 1..Len(c.free) : c.nodes[c.free[k]] = Blank
     /\ IF n = 0 THEN c.head = NIL /\ c.tail = NIL
        ELSE /\ forth[n] = c.tail /\ c.nodes[c.tail].next = NIL
             /\ \A k \in 1..n :
                  /\ c.nodes[forth[k]].prev = (IF k = 1 THEN NIL ELSE forth[k - 1])
                  /\ c.nodes[forth[k]].key = lru[k].key
                  /\ c.nodes[forth[k]].data = lru[k].data
                  /\ lru[k].key \in DOMAIN c.map /\ c.map[lru[k].key] = forth[k]
=============================================================================

---------------------------- MODULE PageCacheProofs ----------------------------
(***************************************************************************)
(* Proofs about PageCache, for every page size, limit and page: the slab    *)
(* with its links does what the list of pages in the order of their last    *)
(* use does, operation by operation.                                        *)
(*                                                                         *)
(* at is the list as places of the slab.  Chain says that the links are at, *)
(* Mirrors adds what the places hold, the map, the free places and the      *)
(* account of bytes; every operation takes a cache that mirrors a list to   *)
(* one that mirrors the reference's list.                                   *)
(***************************************************************************)
EXTENDS PageCache, FiniteSetTheorems, TLAPS

IsSeq(s) == Len(s) \in Nat /\ s = [i \in 1..Len(s) |-> s[i]]

NodeShape(x) == x = [key |-> x.key, data |-> x.data, prev |-> x.prev, next |-> x.next]
Shape(c) ==
  /\ c = [map |-> c.map, nodes |-> c.nodes, free |-> c.free,
          head |-> c.head, tail |-> c.tail, cur |-> c.cur]
  /\ IsSeq(c.nodes) /\ \A i \in 1..Len(c.nodes) : NodeShape(c.nodes[i])

\* Places of a slab of m nodes, each at most once.
Places(at, m) ==
  /\ IsSeq(at) /\ \A k \in 1..Len(at) : at[k] \in 1..m
  /\ \A j, k \in 1..Len(at) : at[j] = at[k] => j = k

\* The links are those of the list at.
Chain(c, at) ==
  /\ Shape(c) /\ Places(at, Len(c.nodes))
  /\ Len(at) = 0 => c.head = NIL /\ c.tail = NIL
  /\ Len(at) > 0 => c.head = at[1] /\ c.tail = at[Len(at)]
  /\ \A k \in 1..Len(at) :
       /\ c.nodes[at[k]].prev = IF k = 1 THEN NIL ELSE at[k - 1]
       /\ c.nodes[at[k]].next = IF k = Len(at) THEN NIL ELSE at[k + 1]

\* d is c with other links.
Relinked(c, d) ==
  /\ d.map = c.map /\ d.free = c.free /\ d.cur = c.cur /\ Len(d.nodes) = Len(c.nodes)
  /\ \A i \in 1..Len(c.nodes) :
       d.nodes[i].key = c.nodes[i].key /\ d.nodes[i].data = c.nodes[i].data

\* d is c but for nodes of the list at.
Beside(c, d, at) ==
  \A x \in 1..Len(c.nodes) : (\A k \in 1..Len(at) : at[k] # x) => d.nodes[x] = c.nodes[x]

-----------------------------------------------------------------------------
(* Links. *)

\* Nodes are equal when their fields are.
LEMMA SameNode ==
  ASSUME NEW x, NEW y, NodeShape(x), NodeShape(y), x.key = y.key, x.data = y.data,
         x.prev = y.prev, x.next = y.next
  PROVE  x = y
BY DEF NodeShape

\* A node with another link.
LEMMA NodeLinks ==
  ASSUME NEW y, NodeShape(y), NEW n
  PROVE  /\ [y EXCEPT !.next = n] = [key |-> y.key, data |-> y.data, prev |-> y.prev, next |-> n]
         /\ [y EXCEPT !.prev = n] = [key |-> y.key, data |-> y.data, prev |-> n, next |-> y.next]
BY DEF NodeShape

\* What LinkNext changes.
NextLinked(c, d, p, n) ==
  /\ Shape(d) /\ Relinked(c, d) /\ d.tail = c.tail
  /\ d.head = IF p = NIL THEN n ELSE c.head
  /\ \A i \in 1..Len(c.nodes) :
       /\ d.nodes[i].prev = c.nodes[i].prev
       /\ d.nodes[i].next = IF i = p THEN n ELSE c.nodes[i].next
LEMMA LinkNextDoes ==
  ASSUME NEW c, Shape(c), NEW p \in 0..Len(c.nodes), NEW n
  PROVE  NextLinked(c, LinkNext(c, p, n), p, n)
<1>1. Len(c.nodes) \in Nat
  BY DEF Shape, IsSeq
<1>2. CASE p = NIL
  <2>1. LinkNext(c, p, n) = [c EXCEPT !.head = n]
    BY <1>2 DEF LinkNext
  <2>2. PICK d : d = [c EXCEPT !.head = n]
    OBVIOUS
  <2>3. d = [map |-> c.map, nodes |-> c.nodes, free |-> c.free,
             head |-> n, tail |-> c.tail, cur |-> c.cur]
    BY <2>2 DEF Shape
  <2>. QED
    BY <1>1, <1>2, <2>1, <2>2, <2>3 DEF NextLinked, Relinked, Shape, NIL
<1>3. CASE p # NIL
  <2>1. p \in 1..Len(c.nodes) /\ p \in DOMAIN c.nodes
    BY <1>1, <1>3 DEF Shape, IsSeq, NIL
  <2>2. PICK x : x = [c.nodes[p] EXCEPT !.next = n]
    OBVIOUS
  <2>3. x = [key |-> c.nodes[p].key, data |-> c.nodes[p].data,
             prev |-> c.nodes[p].prev, next |-> n]
    BY <2>1, <2>2, NodeLinks DEF Shape
  <2>4. PICK ns : ns = [c.nodes EXCEPT ![p] = x]
    OBVIOUS
  <2>5. /\ IsSeq(ns) /\ Len(ns) = Len(c.nodes)
        /\ \A i \in 1..Len(c.nodes) : ns[i] = IF i = p THEN x ELSE c.nodes[i]
    BY <1>1, <2>1, <2>4 DEF Shape, IsSeq
  <2>6. LinkNext(c, p, n) = [c EXCEPT !.nodes = ns]
    BY <1>3, <2>1, <2>2, <2>4 DEF LinkNext, Shape
  <2>7. PICK d : d = [c EXCEPT !.nodes = ns]
    OBVIOUS
  <2>8. d = [map |-> c.map, nodes |-> ns, free |-> c.free,
             head |-> c.head, tail |-> c.tail, cur |-> c.cur]
    BY <2>7 DEF Shape
  <2>9. NodeShape(x)
    BY <2>3 DEF NodeShape
  <2>10. Shape(d)
    BY <2>5, <2>8, <2>9 DEF Shape
  <2>11. Relinked(c, d)
    BY <2>3, <2>5, <2>8 DEF Relinked
  <2>. QED
    BY <1>3, <2>3, <2>5, <2>6, <2>7, <2>8, <2>10, <2>11 DEF NextLinked
<1>. QED
  BY <1>2, <1>3

\* What LinkPrev changes.
PrevLinked(c, d, p, n) ==
  /\ Shape(d) /\ Relinked(c, d) /\ d.head = c.head
  /\ d.tail = IF n = NIL THEN p ELSE c.tail
  /\ \A i \in 1..Len(c.nodes) :
       /\ d.nodes[i].next = c.nodes[i].next
       /\ d.nodes[i].prev = IF i = n THEN p ELSE c.nodes[i].prev
LEMMA LinkPrevDoes ==
  ASSUME NEW c, Shape(c), NEW p, NEW n \in 0..Len(c.nodes)
  PROVE  PrevLinked(c, LinkPrev(c, p, n), p, n)
<1>1. Len(c.nodes) \in Nat
  BY DEF Shape, IsSeq
<1>2. CASE n = NIL
  <2>1. LinkPrev(c, p, n) = [c EXCEPT !.tail = p]
    BY <1>2 DEF LinkPrev
  <2>2. PICK d : d = [c EXCEPT !.tail = p]
    OBVIOUS
  <2>3. d = [map |-> c.map, nodes |-> c.nodes, free |-> c.free,
             head |-> c.head, tail |-> p, cur |-> c.cur]
    BY <2>2 DEF Shape
  <2>. QED
    BY <1>1, <1>2, <2>1, <2>2, <2>3 DEF PrevLinked, Relinked, Shape, NIL
<1>3. CASE n # NIL
  <2>1. n \in 1..Len(c.nodes) /\ n \in DOMAIN c.nodes
    BY <1>1, <1>3 DEF Shape, IsSeq, NIL
  <2>2. PICK x : x = [c.nodes[n] EXCEPT !.prev = p]
    OBVIOUS
  <2>3. x = [key |-> c.nodes[n].key, data |-> c.nodes[n].data,
             prev |-> p, next |-> c.nodes[n].next]
    BY <2>1, <2>2, NodeLinks DEF Shape
  <2>4. PICK ns : ns = [c.nodes EXCEPT ![n] = x]
    OBVIOUS
  <2>5. /\ IsSeq(ns) /\ Len(ns) = Len(c.nodes)
        /\ \A i \in 1..Len(c.nodes) : ns[i] = IF i = n THEN x ELSE c.nodes[i]
    BY <1>1, <2>1, <2>4 DEF Shape, IsSeq
  <2>6. LinkPrev(c, p, n) = [c EXCEPT !.nodes = ns]
    BY <1>3, <2>1, <2>2, <2>4 DEF LinkPrev, Shape
  <2>7. PICK d : d = [c EXCEPT !.nodes = ns]
    OBVIOUS
  <2>8. d = [map |-> c.map, nodes |-> ns, free |-> c.free,
             head |-> c.head, tail |-> c.tail, cur |-> c.cur]
    BY <2>7 DEF Shape
  <2>9. NodeShape(x)
    BY <2>3 DEF NodeShape
  <2>10. Shape(d)
    BY <2>5, <2>8, <2>9 DEF Shape
  <2>11. Relinked(c, d)
    BY <2>3, <2>5, <2>8 DEF Relinked
  <2>. QED
    BY <1>3, <2>3, <2>5, <2>6, <2>7, <2>8, <2>10, <2>11 DEF PrevLinked
<1>. QED
  BY <1>2, <1>3

\* The list at without its place j.
Cut(at, j) == [k \in 1..(Len(at) - 1) |-> IF k < j THEN at[k] ELSE at[k + 1]]

\* What unlink does: the list goes on without the node, which keeps its contents.
LEMMA UnlinkCuts ==
  ASSUME NEW c, NEW at, Chain(c, at), NEW j \in 1..Len(at)
  PROVE  /\ Chain(Unlink(c, at[j]), Cut(at, j)) /\ Relinked(c, Unlink(c, at[j]))
         /\ Beside(c, Unlink(c, at[j]), at)
         /\ \A k \in 1..Len(Cut(at, j)) : Cut(at, j)[k] # at[j]
<1>. DEFINE i == at[j]
            m == Len(c.nodes)
            n == Len(at)
            p == c.nodes[i].prev
            q == c.nodes[i].next
            b == LinkNext(c, p, q)
            d == LinkPrev(b, p, q)
<1>1. /\ m \in Nat /\ n \in Nat /\ j \in 1..n /\ i \in 1..m /\ IsSeq(at)
      /\ \A k \in 1..n : at[k] \in 1..m
      /\ \A k, l \in 1..n : at[k] = at[l] => k = l
  BY DEF Chain, Shape, Places, IsSeq
<1>2. /\ p = IF j = 1 THEN NIL ELSE at[j - 1]
      /\ q = IF j = n THEN NIL ELSE at[j + 1]
  BY <1>1 DEF Chain
<1>3. p \in 0..m /\ q \in 0..m
  BY <1>1, <1>2 DEF NIL
<1>4. NextLinked(c, b, p, q)
  BY SMTT(40), <1>3, LinkNextDoes DEF Chain
<1>5. Len(b.nodes) = m /\ Shape(b)
  BY ZenonT(40), <1>4 DEF NextLinked, Relinked
<1>6. PrevLinked(b, d, p, q)
  <2>. HIDE DEF b, p, q, m
  <2>. QED
    BY <1>3, <1>5, LinkPrevDoes
<1>7. d = Unlink(c, i)
  BY DEF Unlink
<1>. HIDE DEF d, b
<1>8. Shape(d) /\ Relinked(c, d) /\ Len(d.nodes) = m
  BY <1>4, <1>5, <1>6 DEF NextLinked, PrevLinked, Relinked
<1>9. /\ d.head = IF p = NIL THEN q ELSE c.head
      /\ d.tail = IF q = NIL THEN p ELSE c.tail
      /\ \A k \in 1..m : /\ d.nodes[k].next = IF k = p THEN q ELSE c.nodes[k].next
                         /\ d.nodes[k].prev = IF k = q THEN p ELSE c.nodes[k].prev
  BY <1>4, <1>5, <1>6 DEF NextLinked, PrevLinked
<1>10. PICK s : s = Cut(at, j)
  OBVIOUS
<1>11. /\ IsSeq(s) /\ Len(s) = n - 1 /\ n - 1 \in Nat
       /\ \A k \in 1..(n - 1) : s[k] = IF k < j THEN at[k] ELSE at[k + 1]
  BY <1>1, <1>10 DEF Cut, IsSeq
<1>. HIDE DEF p, q, i, m, n
<1>12. \A k \in 1..(n - 1) : s[k] # i
  BY <1>1, <1>11 DEF i
<1>13. Places(s, m)
  <2>0. \A k \in 1..(n - 1) : k \in 1..n /\ k + 1 \in 1..n
    BY <1>1
  <2>1. \A k \in 1..(n - 1) : s[k] \in 1..m
    <3>. SUFFICES ASSUME NEW k \in 1..(n - 1) PROVE s[k] \in 1..m
      OBVIOUS
    <3>1. s[k] = at[k] \/ s[k] = at[k + 1]
      BY <1>11
    <3>. QED
      BY <1>1, <2>0, <3>1
  <2>2. \A k, l \in 1..(n - 1) : s[k] = s[l] => k = l
    BY <1>1, <1>11
  <2>. QED
    BY <1>11, <2>1, <2>2 DEF Places
<1>14. /\ c.head = at[1] /\ c.tail = at[n]
       /\ \A k \in 1..n : /\ c.nodes[at[k]].prev = IF k = 1 THEN NIL ELSE at[k - 1]
                          /\ c.nodes[at[k]].next = IF k = n THEN NIL ELSE at[k + 1]
  BY <1>1 DEF Chain, n
<1>15. n - 1 = 0 => d.head = NIL /\ d.tail = NIL
  BY <1>1, <1>2, <1>9
<1>16. ASSUME n - 1 > 0 PROVE d.head = s[1] /\ d.tail = s[n - 1]
  <2>1. 1 \in 1..(n - 1) /\ n - 1 \in 1..(n - 1) /\ (n - 1) + 1 = n /\ 1 + 1 = 2
    BY <1>1, <1>16
  <2>2. s[1] = (IF 1 < j THEN at[1] ELSE at[2]) /\ s[n - 1] = IF n - 1 < j THEN at[n - 1] ELSE at[n]
    BY <1>11, <2>1
  <2>3. \A k \in 1..n : at[k] # NIL
    BY <1>1 DEF NIL
  <2>4. d.head = s[1]
    BY <1>1, <1>2, <1>9, <1>14, <1>16, <2>2, <2>3
  <2>5. d.tail = s[n - 1]
    BY <1>1, <1>2, <1>9, <1>14, <1>16, <2>2, <2>3
  <2>. QED
    BY <2>4, <2>5
<1>17. ASSUME NEW k \in 1..(n - 1)
       PROVE  d.nodes[s[k]].prev = IF k = 1 THEN NIL ELSE s[k - 1]
  <2>1. s[k] \in 1..m /\ d.nodes[s[k]].prev = IF s[k] = q THEN p ELSE c.nodes[s[k]].prev
    BY <1>9, <1>13, <1>11 DEF Places
  <2>2. CASE k < j
    <3>1. s[k] = at[k] /\ s[k] # q /\ k \in 1..n
      BY <1>1, <1>2, <1>11, <2>2 DEF NIL
    <3>2. c.nodes[s[k]].prev = IF k = 1 THEN NIL ELSE at[k - 1]
      BY <1>14, <3>1
    <3>3. k # 1 => s[k - 1] = at[k - 1]
      BY <1>1, <1>11, <2>2
    <3>. QED
      BY <2>1, <3>1, <3>2, <3>3
  <2>3. CASE k = j
    <3>1. s[k] = q /\ (k # 1 => s[k - 1] = at[k - 1])
      BY <1>1, <1>2, <1>11, <2>3
    <3>. QED
      BY <1>2, <2>1, <2>3, <3>1
  <2>4. CASE k > j
    <3>1. s[k] = at[k + 1] /\ s[k] # q /\ k + 1 \in 1..n /\ k + 1 # 1 /\ (k + 1) - 1 = k
      BY <1>1, <1>2, <1>11, <2>4 DEF NIL
    <3>2. c.nodes[s[k]].prev = at[k]
      BY <1>14, <3>1
    <3>3. s[k - 1] = at[k] /\ k # 1
      BY <1>1, <1>11, <2>4
    <3>. QED
      BY <2>1, <3>1, <3>2, <3>3
  <2>. QED
    BY <1>1, <2>2, <2>3, <2>4
<1>18. ASSUME NEW k \in 1..(n - 1)
       PROVE  d.nodes[s[k]].next = IF k = n - 1 THEN NIL ELSE s[k + 1]
  <2>1. s[k] \in 1..m /\ d.nodes[s[k]].next = IF s[k] = p THEN q ELSE c.nodes[s[k]].next
    BY <1>9, <1>13, <1>11 DEF Places
  <2>2. CASE k < j - 1
    <3>1. s[k] = at[k] /\ s[k] # p /\ k \in 1..n /\ k # n
      BY <1>1, <1>2, <1>11, <2>2 DEF NIL
    <3>2. c.nodes[s[k]].next = at[k + 1]
      BY <1>14, <3>1
    <3>3. k # n - 1 /\ s[k + 1] = at[k + 1]
      BY <1>1, <1>11, <2>2
    <3>. QED
      BY <2>1, <3>1, <3>2, <3>3
  <2>3. CASE k = j - 1
    <3>1. s[k] = p
      BY <1>1, <1>2, <1>11, <2>3
    <3>2. k # n - 1 => s[k + 1] = at[j + 1] /\ j # n
      BY <1>1, <1>11, <2>3
    <3>3. k = n - 1 => j = n
      BY <1>1, <2>3
    <3>. QED
      BY <1>2, <2>1, <3>1, <3>2, <3>3
  <2>4. CASE k > j - 1
    <3>1. s[k] = at[k + 1] /\ s[k] # p /\ k + 1 \in 1..n
      BY <1>1, <1>2, <1>11, <2>4 DEF NIL
    <3>2. c.nodes[s[k]].next = IF k + 1 = n THEN NIL ELSE at[k + 2]
      <4>1. PICK l \in 1..n : l = k + 1
        BY <3>1
      <4>2. c.nodes[at[l]].next = IF l = n THEN NIL ELSE at[l + 1]
        BY <1>14
      <4>3. l + 1 = k + 2
        BY <4>1
      <4>. QED
        BY <3>1, <4>1, <4>2, <4>3
    <3>3. k # n - 1 => s[k + 1] = at[k + 2]
      <4>1. k # n - 1 => k + 1 \in 1..(n - 1) /\ ~(k + 1 < j) /\ (k + 1) + 1 = k + 2
        BY <1>1, <2>4
      <4>. QED
        BY <1>11, <4>1
    <3>4. k = n - 1 <=> k + 1 = n
      BY <1>1
    <3>. QED
      BY <2>1, <3>1, <3>2, <3>3, <3>4
  <2>. QED
    BY <1>1, <2>2, <2>3, <2>4
<1>19. Chain(d, s)
  BY <1>8, <1>11, <1>13, <1>15, <1>16, <1>17, <1>18 DEF Chain
<1>20. Beside(c, d, at)
  <2>. SUFFICES ASSUME NEW x \in 1..m, \A k \in 1..n : at[k] # x
                PROVE  d.nodes[x] = c.nodes[x]
    BY DEF Beside, m, n
  <2>1. x # p /\ x # q
    BY <1>1, <1>2 DEF NIL
  <2>2. d.nodes[x].next = c.nodes[x].next /\ d.nodes[x].prev = c.nodes[x].prev
    BY <1>9, <2>1
  <2>3. d.nodes[x].key = c.nodes[x].key /\ d.nodes[x].data = c.nodes[x].data
    BY <1>8 DEF Relinked, m
  <2>4. NodeShape(d.nodes[x]) /\ NodeShape(c.nodes[x])
    BY <1>8 DEF Shape, Chain, m
  <2>. QED
    BY <2>2, <2>3, <2>4, SameNode
<1>. QED
  BY <1>7, <1>8, <1>10, <1>11, <1>12, <1>19, <1>20 DEF i

\* The list at with the place i before it.
Put(at, i) == [k \in 1..(Len(at) + 1) |-> IF k = 1 THEN i ELSE at[k - 1]]

\* What a list with something before it is.
LEMMA PutIs ==
  ASSUME NEW at, IsSeq(at), NEW i
  PROVE  /\ IsSeq(Put(at, i)) /\ Len(Put(at, i)) = Len(at) + 1 /\ Put(at, i)[1] = i
         /\ \A k \in 1..Len(at) : Put(at, i)[k + 1] = at[k]
         /\ \A k \in 2..(Len(at) + 1) : Put(at, i)[k] = at[k - 1]
<1>1. PICK s : s = Put(at, i)
  OBVIOUS
<1>2. PICK n \in Nat : n = Len(at)
  BY DEF IsSeq
<1>3. s = [k \in 1..(n + 1) |-> IF k = 1 THEN i ELSE at[k - 1]]
  BY <1>1, <1>2 DEF Put
<1>4. IsSeq(s) /\ Len(s) = n + 1
  BY <1>3 DEF IsSeq
<1>5. s[1] = i /\ \A k \in 2..(n + 1) : s[k] = at[k - 1]
  BY <1>3
<1>6. \A k \in 1..n : s[k + 1] = at[k]
  BY <1>3
<1>. QED
  BY <1>1, <1>2, <1>4, <1>5, <1>6

\* What a list without one of its places is.
LEMMA CutIs ==
  ASSUME NEW at, IsSeq(at), NEW j \in 1..Len(at)
  PROVE  /\ IsSeq(Cut(at, j)) /\ Len(Cut(at, j)) = Len(at) - 1 /\ Len(at) - 1 \in Nat
         /\ \A k \in 1..(Len(at) - 1) : Cut(at, j)[k] = IF k < j THEN at[k] ELSE at[k + 1]
<1>1. PICK s : s = Cut(at, j)
  OBVIOUS
<1>2. PICK n \in Nat : n = Len(at)
  BY DEF IsSeq
<1>3. s = [k \in 1..(n - 1) |-> IF k < j THEN at[k] ELSE at[k + 1]] /\ n - 1 \in Nat
  BY <1>1, <1>2 DEF Cut
<1>. QED
  BY <1>1, <1>2, <1>3 DEF IsSeq

\* A node that both links are set of.
LEMMA NodeFront ==
  ASSUME NEW y, NodeShape(y), NEW p, NEW n
  PROVE  [[y EXCEPT !.prev = p] EXCEPT !.next = n]
           = [key |-> y.key, data |-> y.data, prev |-> p, next |-> n]
<1>1. PICK z : z = [y EXCEPT !.prev = p]
  OBVIOUS
<1>2. z = [key |-> y.key, data |-> y.data, prev |-> p, next |-> y.next]
  BY <1>1, NodeLinks
<1>3. NodeShape(z)
  BY <1>2 DEF NodeShape
<1>4. [z EXCEPT !.next = n] = [key |-> z.key, data |-> z.data, prev |-> z.prev, next |-> n]
  BY <1>3, NodeLinks
<1>. QED
  BY <1>1, <1>2, <1>4

\* What push_front does with a node outside of the list.
LEMMA PushFrontPuts ==
  ASSUME NEW c, NEW at, Chain(c, at), NEW i \in 1..Len(c.nodes),
         \A k \in 1..Len(at) : at[k] # i
  PROVE  /\ Chain(PushFront(c, i), Put(at, i)) /\ Relinked(c, PushFront(c, i))
         /\ Beside(c, PushFront(c, i), Put(at, i))
<1>1. /\ Shape(c) /\ IsSeq(at) /\ Len(at) \in Nat /\ Len(c.nodes) \in Nat
      /\ \A k \in 1..Len(at) : at[k] \in 1..Len(c.nodes)
      /\ \A k, l \in 1..Len(at) : at[k] = at[l] => k = l
  BY DEF Chain, Shape, Places, IsSeq
<1>2. PICK m \in Nat : m = Len(c.nodes)
  BY <1>1
<1>3. PICK n \in Nat : n = Len(at)
  BY <1>1
<1>4. PICK x : x = [[c.nodes[i] EXCEPT !.prev = NIL] EXCEPT !.next = c.head]
  OBVIOUS
<1>5. x = [key |-> c.nodes[i].key, data |-> c.nodes[i].data, prev |-> NIL, next |-> c.head]
  BY <1>1, <1>4, NodeFront DEF Shape
<1>6. PICK ns : ns = [c.nodes EXCEPT ![i] = x]
  OBVIOUS
<1>7. i \in DOMAIN c.nodes
  BY <1>1 DEF Shape, IsSeq
<1>8. /\ IsSeq(ns) /\ Len(ns) = m
      /\ \A k \in 1..m : ns[k] = IF k = i THEN x ELSE c.nodes[k]
  BY SMTT(40), <1>1, <1>2, <1>6, <1>7 DEF Shape, IsSeq
<1>9. PICK b : b = [c EXCEPT !.nodes = ns]
  OBVIOUS
<1>10. b = [map |-> c.map, nodes |-> ns, free |-> c.free,
            head |-> c.head, tail |-> c.tail, cur |-> c.cur]
  BY <1>1, <1>9 DEF Shape
<1>11. b = [c EXCEPT !.nodes[i].prev = NIL, !.nodes[i].next = c.head]
  BY <1>1, <1>4, <1>6, <1>7, <1>9 DEF Shape
<1>12. NodeShape(x)
  BY <1>5 DEF NodeShape
<1>13. Shape(b)
  BY <1>1, <1>2, <1>8, <1>10, <1>12 DEF Shape
<1>14. Relinked(c, b) /\ Len(b.nodes) = m
  BY <1>2, <1>5, <1>8, <1>10 DEF Relinked
<1>15. c.head \in 0..m
  <2>1. n = 0 \/ (1 \in 1..n /\ n > 0)
    OBVIOUS
  <2>. QED
    BY <1>1, <1>2, <1>3, <2>1 DEF Chain, NIL
<1>16. PICK d : d = LinkPrev(b, i, c.head)
  OBVIOUS
<1>17. PrevLinked(b, d, i, c.head)
  BY <1>13, <1>14, <1>15, <1>16, LinkPrevDoes
<1>18. PICK e : e = [d EXCEPT !.head = i]
  OBVIOUS
<1>19. e = PushFront(c, i)
  BY <1>11, <1>16, <1>18 DEF PushFront
<1>20. e = [map |-> d.map, nodes |-> d.nodes, free |-> d.free,
            head |-> i, tail |-> d.tail, cur |-> d.cur]
  BY <1>17, <1>18 DEF PrevLinked, Shape
<1>21. Shape(e) /\ Relinked(c, e) /\ Len(e.nodes) = m
  BY <1>14, <1>17, <1>20 DEF PrevLinked, Shape, Relinked
<1>22. /\ e.head = i /\ e.tail = IF c.head = NIL THEN i ELSE c.tail
       /\ \A k \in 1..m : /\ e.nodes[k].next = IF k = i THEN c.head ELSE c.nodes[k].next
                          /\ e.nodes[k].prev = IF k = c.head THEN i
                                               ELSE IF k = i THEN NIL ELSE c.nodes[k].prev
  BY <1>5, <1>8, <1>10, <1>14, <1>17, <1>20 DEF PrevLinked
<1>23. PICK s : s = Put(at, i)
  OBVIOUS
<1>24. /\ IsSeq(s) /\ Len(s) = n + 1 /\ s[1] = i
       /\ \A k \in 2..(n + 1) : s[k] = at[k - 1] /\ k - 1 \in 1..n
  BY <1>1, <1>3, <1>23, PutIs
<1>25. Places(s, m)
  <2>1. \A k \in 1..(n + 1) : k = 1 \/ k \in 2..(n + 1)
    OBVIOUS
  <2>2. \A k \in 1..(n + 1) : s[k] \in 1..m
    BY <1>1, <1>2, <1>3, <1>24, <2>1
  <2>3. \A k, l \in 1..(n + 1) : s[k] = s[l] => k = l
    BY <1>1, <1>2, <1>3, <1>24, <2>1
  <2>. QED
    BY <1>24, <2>2, <2>3 DEF Places
<1>26. n > 0 => c.head = at[1] /\ c.tail = at[n] /\ 1 \in 1..n /\ at[1] # i /\ at[1] \in 1..m
  BY <1>1, <1>2, <1>3 DEF Chain
<1>27. n = 0 => c.head = NIL /\ c.tail = NIL
  BY <1>3 DEF Chain
<1>28. e.head = s[1] /\ e.tail = s[n + 1]
  <2>1. CASE n = 0
    BY <1>22, <1>24, <1>27, <2>1
  <2>2. CASE n > 0
    <3>1. s[n + 1] = at[n] /\ c.head # NIL
      BY <1>24, <1>26, <2>2 DEF NIL
    <3>. QED
      BY <1>22, <1>24, <1>26, <2>2, <3>1
  <2>. QED
    BY <2>1, <2>2
<1>29. \A k \in 1..n : /\ c.nodes[at[k]].prev = IF k = 1 THEN NIL ELSE at[k - 1]
                       /\ c.nodes[at[k]].next = IF k = n THEN NIL ELSE at[k + 1]
  BY <1>3 DEF Chain
<1>30. ASSUME NEW k \in 1..(n + 1)
       PROVE  /\ e.nodes[s[k]].prev = IF k = 1 THEN NIL ELSE s[k - 1]
              /\ e.nodes[s[k]].next = IF k = n + 1 THEN NIL ELSE s[k + 1]
  <2>1. CASE k = 1
    <3>1. e.nodes[i].next = c.head /\ e.nodes[i].prev = NIL
      <4>1. i # c.head
        BY <1>26, <1>27 DEF NIL
      <4>. QED
        BY <1>2, <1>22, <4>1
    <3>2. n > 0 => s[2] = at[1]
      BY <1>24
    <3>. QED
      BY <1>24, <1>26, <1>27, <2>1, <3>1, <3>2
  <2>2. CASE k # 1
    <3>1. PICK l \in 1..n : l = k - 1 /\ s[k] = at[l]
      BY <1>24, <2>2
    <3>2. n > 0 /\ at[l] \in 1..m /\ at[l] # i
      BY <1>1, <1>2, <1>3, <3>1
    <3>3. at[l] = c.head <=> l = 1
      BY <1>1, <1>3, <1>26, <3>2
    <3>4. e.nodes[at[l]].prev = IF l = 1 THEN i ELSE at[l - 1]
      BY <1>22, <1>29, <3>2, <3>3
    <3>5. e.nodes[at[l]].next = IF l = n THEN NIL ELSE at[l + 1]
      BY ZenonT(40), <1>22, <1>29, <3>2
    <3>6. s[k - 1] = IF l = 1 THEN i ELSE at[l - 1]
      <4>1. CASE l = 1
        BY <1>24, <3>1, <4>1
      <4>2. CASE l # 1
        <5>1. l \in 2..(n + 1) /\ k - 1 = l
          BY <3>1, <4>2
        <5>. QED
          BY <1>24, <4>2, <5>1
      <4>. QED
        BY <4>1, <4>2
    <3>7. k # n + 1 => s[k + 1] = at[l + 1] /\ l # n
      <4>1. k # n + 1 => k + 1 \in 2..(n + 1) /\ (k + 1) - 1 = l + 1
        BY <3>1
      <4>. QED
        BY <1>24, <3>1, <4>1
    <3>8. k = n + 1 => l = n
      BY <3>1
    <3>. QED
      BY <2>2, <3>1, <3>4, <3>5, <3>6, <3>7, <3>8
  <2>. QED
    BY <2>1, <2>2
<1>31. Chain(e, s)
  <2>1. n + 1 > 0
    OBVIOUS
  <2>. QED
    BY SMTT(40), <1>21, <1>24, <1>25, <1>28, <1>30, <2>1 DEF Chain
<1>32. Beside(c, e, s)
  <2>. SUFFICES ASSUME NEW y \in 1..m, \A k \in 1..(n + 1) : s[k] # y
                PROVE  e.nodes[y] = c.nodes[y]
    BY <1>2, <1>24 DEF Beside
  <2>1. y # i
    <3>1. 1 \in 1..(n + 1)
      OBVIOUS
    <3>. QED
      BY <1>24, <3>1
  <2>2. y # c.head
    <3>1. CASE n = 0
      BY <1>27, <3>1 DEF NIL
    <3>2. CASE n > 0
      <4>1. 2 \in 1..(n + 1) /\ 2 \in 2..(n + 1) /\ 2 - 1 = 1
        BY <3>2
      <4>2. s[2] = at[1]
        BY <1>24, <4>1
      <4>. QED
        BY <1>26, <3>2, <4>1, <4>2
    <3>. QED
      BY <3>1, <3>2
  <2>3. e.nodes[y].next = c.nodes[y].next /\ e.nodes[y].prev = c.nodes[y].prev
    BY <1>22, <2>1, <2>2
  <2>4. e.nodes[y].key = c.nodes[y].key /\ e.nodes[y].data = c.nodes[y].data
    BY <1>2, <1>21 DEF Relinked
  <2>5. NodeShape(e.nodes[y]) /\ NodeShape(c.nodes[y])
    BY <1>1, <1>2, <1>21 DEF Shape
  <2>. QED
    BY <2>3, <2>4, <2>5, SameNode
<1>. QED
  BY <1>19, <1>21, <1>23, <1>31, <1>32

\* Putting the first of a list before the others changes nothing.
LEMMA PutCutFirst ==
  ASSUME NEW at, IsSeq(at), Len(at) > 0
  PROVE  Put(Cut(at, 1), at[1]) = at
<1>1. PICK n \in Nat : n = Len(at)
  BY DEF IsSeq
<1>2. 1 \in 1..n /\ n - 1 \in Nat
  BY <1>1
<1>3. PICK b : b = Cut(at, 1)
  OBVIOUS
<1>4. IsSeq(b) /\ Len(b) = n - 1 /\ \A k \in 1..(n - 1) : b[k] = IF k < 1 THEN at[k] ELSE at[k + 1]
  BY <1>1, <1>2, <1>3, CutIs
<1>5. PICK s : s = Put(b, at[1])
  OBVIOUS
<1>6. IsSeq(s) /\ Len(s) = n /\ s[1] = at[1] /\ \A k \in 2..n : s[k] = b[k - 1]
  <2>1. Len(b) + 1 = n
    BY <1>2, <1>4
  <2>2. PICK i : i = at[1]
    OBVIOUS
  <2>3. s = Put(b, i) /\ IsSeq(b)
    BY <1>4, <1>5, <2>2
  <2>4. /\ IsSeq(s) /\ Len(s) = Len(b) + 1 /\ s[1] = i
        /\ \A k \in 2..(Len(b) + 1) : s[k] = b[k - 1]
    BY <2>3, PutIs
  <2>. QED
    BY <2>1, <2>2, <2>4
<1>7. \A k \in 1..n : s[k] = at[k]
  <2>. SUFFICES ASSUME NEW k \in 1..n, k # 1 PROVE s[k] = at[k]
    BY <1>6
  <2>1. k \in 2..n /\ k - 1 \in 1..(n - 1) /\ ~(k - 1 < 1) /\ (k - 1) + 1 = k
    BY <1>2
  <2>. QED
    BY <1>4, <1>6, <2>1
<1>. QED
  BY <1>1, <1>3, <1>5, <1>6, <1>7 DEF IsSeq

\* What move_to_front does.
LEMMA MoveToFrontMoves ==
  ASSUME NEW c, NEW at, Chain(c, at), NEW j \in 1..Len(at)
  PROVE  /\ Chain(MoveToFront(c, at[j]), Put(Cut(at, j), at[j]))
         /\ Relinked(c, MoveToFront(c, at[j])) /\ Beside(c, MoveToFront(c, at[j]), at)
<1>1. PICK n \in Nat : n = Len(at)
  BY DEF Chain, Places, IsSeq
<1>2. /\ IsSeq(at) /\ n > 0 /\ 1 \in 1..n /\ c.head = at[1]
      /\ at[j] \in 1..Len(c.nodes) /\ (at[j] = at[1] => j = 1)
  BY <1>1 DEF Chain, Places
<1>3. CASE j = 1
  <2>1. MoveToFront(c, at[j]) = c
    BY <1>2, <1>3 DEF MoveToFront
  <2>2. Put(Cut(at, j), at[j]) = at
    BY <1>1, <1>2, <1>3, PutCutFirst
  <2>. QED
    BY <2>1, <2>2 DEF Relinked, Beside
<1>4. CASE j # 1
  <2>1. PICK d : d = Unlink(c, at[j])
    OBVIOUS
  <2>2. PICK s : s = Cut(at, j)
    OBVIOUS
  <2>3. Chain(d, s) /\ Relinked(c, d) /\ Beside(c, d, at) /\ \A k \in 1..Len(s) : s[k] # at[j]
    BY <2>1, <2>2, UnlinkCuts
  <2>4. MoveToFront(c, at[j]) = PushFront(d, at[j])
    BY <1>2, <1>4, <2>1 DEF MoveToFront
  <2>5. at[j] \in 1..Len(d.nodes)
    BY <1>2, <2>3 DEF Relinked
  <2>6. /\ Chain(PushFront(d, at[j]), Put(s, at[j])) /\ Relinked(d, PushFront(d, at[j]))
        /\ Beside(d, PushFront(d, at[j]), Put(s, at[j]))
    BY <2>3, <2>5, PushFrontPuts
  <2>7. Relinked(c, PushFront(d, at[j]))
    <3>1. PICK e : e = PushFront(d, at[j])
      OBVIOUS
    <3>. QED
      BY <2>3, <2>6, <3>1 DEF Relinked
  <2>8. \A k \in 1..Len(Put(s, at[j])) : \E l \in 1..n : Put(s, at[j])[k] = at[l]
    <3>1. PICK i : i = at[j]
      OBVIOUS
    <3>2. PICK r : r = Put(s, i)
      OBVIOUS
    <3>3. /\ Len(s) = n - 1 /\ n - 1 \in Nat /\ IsSeq(s) /\ j \in 1..n
          /\ \A k \in 1..(n - 1) : s[k] = IF k < j THEN at[k] ELSE at[k + 1]
      BY <1>1, <1>2, <2>2, CutIs
    <3>4. Len(r) = Len(s) + 1 /\ r[1] = i /\ \A k \in 2..(Len(s) + 1) : r[k] = s[k - 1]
      BY <3>2, <3>3, PutIs
    <3>5. Len(r) = n
      BY <1>1, <3>3, <3>4
    <3>6. ASSUME NEW k \in 1..n PROVE \E l \in 1..n : r[k] = at[l]
      <4>1. CASE k = 1
        BY <3>1, <3>3, <3>4, <4>1
      <4>2. CASE k # 1
        <5>1. k \in 2..(Len(s) + 1) /\ k - 1 \in 1..(n - 1) /\ k - 1 \in 1..n /\ (k - 1) + 1 = k
          BY <3>3, <4>2
        <5>2. r[k] = at[k - 1] \/ r[k] = at[k]
          BY <3>3, <3>4, <5>1
        <5>. QED
          BY <5>1, <5>2
      <4>. QED
        BY <4>1, <4>2
    <3>. QED
      BY <3>1, <3>2, <3>5, <3>6
  <2>9. Beside(c, PushFront(d, at[j]), at)
    BY SMTT(40), <1>1, <2>3, <2>6, <2>8 DEF Beside, Relinked
  <2>. QED
    BY <2>2, <2>4, <2>6, <2>7, <2>9
<1>. QED
  BY <1>3, <1>4

-----------------------------------------------------------------------------
(* The account of bytes. *)

\* A set of natural numbers has a least one.
LEMMA LeastNatural ==
  ASSUME NEW T, T \subseteq Nat, T # {}
  PROVE  \E x \in T : \A y \in T : x <= y
<1>. DEFINE R == {ss \in Nat \X Nat : ss[1] < ss[2]}
<1>1. IsWellFoundedOn(R, Nat)
  BY NatLessThanWellFounded, Zenon DEF OpToRel
<1>2. \A x, y \in Nat : y < x => <<y, x>> \in R
  OBVIOUS
<1>. HIDE DEF R
<1>3. PICK x \in T : \A y \in T : ~(<<y, x>> \in R)
  BY <1>1, WFMin
<1>4. \A y \in T : ~(y < x)
  BY <1>2, <1>3
<1>. QED
  BY <1>4

\* A set of natural numbers up to n has a greatest one.
LEMMA GreatestNatural ==
  ASSUME NEW n \in Nat, NEW T, T \subseteq 0..n, T # {}
  PROVE  \E x \in T : \A y \in T : y <= x
<1>. DEFINE U == {n - y : y \in T}
<1>1. \A y \in T : y \in Nat /\ y <= n /\ n - y \in Nat
  OBVIOUS
<1>2. U \subseteq Nat /\ U # {} /\ \A y \in T : n - y \in U
  BY <1>1
<1>3. PICK x \in T : n - x \in U /\ \A v \in U : n - x <= v
  <2>. HIDE DEF U
  <2>1. PICK u \in U : \A v \in U : u <= v
    BY <1>2, LeastNatural
  <2>. QED
    BY <2>1 DEF U
<1>4. \A y \in T : n - x <= n - y
  BY <1>2, <1>3
<1>. QED
  BY <1>1, <1>4

\* What holds at 0 and goes on from each number to the next holds up to n.
LEMMA CountUp ==
  ASSUME NEW n \in Nat, NEW T, 0 \in T, \A k \in 1..n : k - 1 \in T => k \in T
  PROVE  \A k \in 0..n : k \in T
<1>. DEFINE Bad == {k \in 0..n : k \notin T}
<1>1. SUFFICES ASSUME Bad # {} PROVE FALSE
  OBVIOUS
<1>2. PICK k \in Bad : \A l \in Bad : k <= l
  <2>. HIDE DEF Bad
  <2>1. Bad \subseteq Nat
    BY DEF Bad
  <2>. QED
    BY <1>1, <2>1, LeastNatural
<1>3. k \in 1..n /\ k - 1 \in 0..n /\ ~(k <= k - 1)
  BY <1>2
<1>4. k - 1 \in T
  BY <1>2, <1>3
<1>. QED
  BY <1>2, <1>3, <1>4

\* Pages of bytes.
Sized(l) == IsSeq(l) /\ \A k \in 1..Len(l) : IsSeq(l[k].data)

\* The sums of the lengths up to n.
SumsTo(l, f, n) ==
  f = [k \in 0..n |-> IF k = 0 THEN 0 ELSE f[k - 1] + Len(l[k].data)]

\* There are sums up to every page.
LEMMA SumsExist ==
  ASSUME NEW l, IsSeq(l) PROVE \E f : SumsTo(l, f, Len(l))
<1>. DEFINE T == {n \in 0..Len(l) : \E f : SumsTo(l, f, n)}
<1>1. 0 \in T
  <2>1. PICK f : f = [k \in 0..0 |-> 0]
    OBVIOUS
  <2>2. SumsTo(l, f, 0)
    BY <2>1 DEF SumsTo
  <2>. QED
    BY <2>2 DEF IsSeq
<1>2. ASSUME NEW n \in 1..Len(l), n - 1 \in T PROVE n \in T
  <2>1. PICK f : SumsTo(l, f, n - 1)
    BY <1>2
  <2>2. PICK g : g = [k \in 0..n |-> IF k = n THEN f[n - 1] + Len(l[n].data) ELSE f[k]]
    OBVIOUS
  <2>3. n \in Nat /\ n # 0
    BY DEF IsSeq
  <2>4. \A k \in 0..(n - 1) : f[k] = IF k = 0 THEN 0 ELSE f[k - 1] + Len(l[k].data)
    BY <2>1 DEF SumsTo
  <2>5. \A k \in 0..n : g[k] = IF k = n THEN f[n - 1] + Len(l[n].data) ELSE f[k]
    BY <2>2
  <2>6. \A k \in 0..n : g[k] = IF k = 0 THEN 0 ELSE g[k - 1] + Len(l[k].data)
    <3>. SUFFICES ASSUME NEW k \in 0..n
                  PROVE  g[k] = IF k = 0 THEN 0 ELSE g[k - 1] + Len(l[k].data)
      OBVIOUS
    <3>1. k # 0 => k - 1 \in 0..n /\ k - 1 # n /\ g[k - 1] = f[k - 1]
      BY <2>3, <2>5
    <3>2. CASE k = n
      BY <2>3, <2>5, <3>1, <3>2
    <3>3. CASE k # n
      <4>1. k \in 0..(n - 1)
        BY <2>3, <3>3
      <4>. QED
        BY <2>4, <2>5, <3>1, <3>3, <4>1
    <3>. QED
      BY <3>2, <3>3
  <2>7. g = [k \in 0..n |-> g[k]]
    BY <2>2
  <2>8. SumsTo(l, g, n)
    BY <2>6, <2>7 DEF SumsTo
  <2>. QED
    BY <2>3, <2>8 DEF IsSeq
<1>3. Len(l) \in Nat
  BY DEF IsSeq
<1>4. Len(l) \in T
  <2>. HIDE DEF T
  <2>1. \A k \in 0..Len(l) : k \in T
    BY <1>1, <1>2, <1>3, CountUp
  <2>. QED
    BY <1>3, <2>1
<1>. QED
  BY <1>4

\* SizeTo adds up the lengths.
LEMMA SizeToAdds ==
  ASSUME NEW l, IsSeq(l)
  PROVE  /\ SizeTo(l, 0) = 0
         /\ \A k \in 1..Len(l) : SizeTo(l, k) = SizeTo(l, k - 1) + Len(l[k].data)
<1>. DEFINE f == CHOOSE g : g = [k \in 0..Len(l) |-> IF k = 0 THEN 0 ELSE g[k - 1] + Len(l[k].data)]
<1>1. SumsTo(l, f, Len(l))
  BY SumsExist, Zenon DEF SumsTo
<1>2. \A n : SizeTo(l, n) = f[n]
  BY Zenon DEF SizeTo
<1>. HIDE DEF f
<1>3. Len(l) \in Nat
  BY DEF IsSeq
<1>4. \A k \in 0..Len(l) : f[k] = IF k = 0 THEN 0 ELSE f[k - 1] + Len(l[k].data)
  BY <1>1 DEF SumsTo
<1>. QED
  BY <1>2, <1>3, <1>4

\* A sum is a number, and grows.
LEMMA SizeToNat ==
  ASSUME NEW l, Sized(l) PROVE \A k \in 0..Len(l) : SizeTo(l, k) \in Nat
<1>. DEFINE T == {n \in 0..Len(l) : SizeTo(l, n) \in Nat}
<1>1. Len(l) \in Nat /\ IsSeq(l)
  BY DEF Sized, IsSeq
<1>2. 0 \in T
  BY <1>1, SizeToAdds
<1>3. ASSUME NEW k \in 1..Len(l), k - 1 \in T PROVE k \in T
  BY <1>1, <1>3, SizeToAdds DEF Sized
<1>4. \A k \in 0..Len(l) : k \in T
  <2>. HIDE DEF T
  <2>. QED
    BY <1>1, <1>2, <1>3, CountUp
<1>. QED
  BY <1>4

\* The sum depends on the pages up to there.
LEMMA SizeToSame ==
  ASSUME NEW l, Sized(l), NEW m, Sized(m), NEW n \in 0..Len(l), n <= Len(m),
         \A k \in 1..n : m[k].data = l[k].data
  PROVE  SizeTo(m, n) = SizeTo(l, n)
<1>. DEFINE T == {k \in 0..n : SizeTo(m, k) = SizeTo(l, k)}
<1>1. n \in Nat /\ IsSeq(l) /\ IsSeq(m) /\ Len(l) \in Nat /\ Len(m) \in Nat
  BY DEF Sized, IsSeq
<1>2. 0 \in T
  BY <1>1, SizeToAdds
<1>3. ASSUME NEW k \in 1..n, k - 1 \in T PROVE k \in T
  <2>1. k \in 1..Len(l) /\ k \in 1..Len(m)
    BY <1>1
  <2>2. SizeTo(l, k) = SizeTo(l, k - 1) + Len(l[k].data)
    BY <1>1, <2>1, SizeToAdds
  <2>3. SizeTo(m, k) = SizeTo(m, k - 1) + Len(m[k].data)
    BY <1>1, <2>1, SizeToAdds
  <2>. QED
    BY <1>1, <1>3, <2>2, <2>3
<1>4. n \in T
  <2>. HIDE DEF T
  <2>1. \A k \in 0..n : k \in T
    BY <1>1, <1>2, <1>3, CountUp
  <2>. QED
    BY <1>1, <2>1
<1>. QED
  BY <1>4

\* A page before the others.
LEMMA SizeOfPut ==
  ASSUME NEW l, Sized(l), NEW x, IsSeq(x.data)
  PROVE  Sized(Put(l, x)) /\ SizeOf(Put(l, x)) = SizeOf(l) + Len(x.data)
<1>1. PICK n \in Nat : n = Len(l)
  BY DEF Sized, IsSeq
<1>2. PICK s : s = Put(l, x)
  OBVIOUS
<1>3. /\ IsSeq(s) /\ Len(s) = n + 1 /\ s[1] = x /\ IsSeq(l)
      /\ \A k \in 1..n : s[k + 1] = l[k]
      /\ \A k \in 2..(n + 1) : s[k] = l[k - 1]
  BY <1>1, <1>2, PutIs DEF Sized
<1>4. Sized(s)
  <2>. SUFFICES ASSUME NEW k \in 1..(n + 1) PROVE IsSeq(s[k].data)
    BY <1>3 DEF Sized
  <2>1. CASE k = 1
    BY <1>3, <2>1
  <2>2. CASE k # 1
    <3>1. k \in 2..(n + 1) /\ k - 1 \in 1..n
      BY <2>2
    <3>. QED
      BY <1>1, <1>3, <3>1 DEF Sized
  <2>. QED
    BY <2>1, <2>2
<1>. DEFINE T == {k \in 0..n : SizeTo(s, k + 1) = SizeTo(l, k) + Len(x.data)}
<1>5. 0 \in T
  <2>1. 1 \in 1..Len(s)
    BY <1>3
  <2>2. SizeTo(s, 1) = SizeTo(s, 1 - 1) + Len(s[1].data) /\ SizeTo(s, 0) = 0 /\ SizeTo(l, 0) = 0
    BY <1>3, <2>1, SizeToAdds
  <2>. QED
    BY <1>3, <2>2
<1>6. ASSUME NEW k \in 1..n, k - 1 \in T PROVE k \in T
  <2>1. k + 1 \in 1..Len(s) /\ k \in 1..Len(l) /\ (k + 1) - 1 = k /\ (k - 1) + 1 = k
    BY <1>1, <1>3
  <2>2. SizeTo(l, k) = SizeTo(l, k - 1) + Len(l[k].data)
    BY <1>3, <2>1, SizeToAdds
  <2>3. PICK j \in 1..Len(s) : j = k + 1
    BY <2>1
  <2>4. SizeTo(s, j) = SizeTo(s, j - 1) + Len(s[j].data)
    BY <1>3, SizeToAdds
  <2>5. SizeTo(s, k) = SizeTo(l, k - 1) + Len(x.data)
    BY <1>6, <2>1
  <2>6. SizeTo(l, k - 1) \in Nat /\ Len(l[k].data) \in Nat /\ s[j] = l[k]
    <3>1. k - 1 \in 0..Len(l)
      BY <1>1
    <3>2. IsSeq(l[k].data) /\ s[j] = l[k]
      BY <1>1, <1>3, <2>3 DEF Sized
    <3>3. Len(l[k].data) \in Nat
      BY <3>2 DEF IsSeq
    <3>. QED
      BY <3>1, <3>2, <3>3, SizeToNat
  <2>. QED
    BY <2>1, <2>2, <2>3, <2>4, <2>5, <2>6
<1>7. n \in T
  <2>. HIDE DEF T
  <2>1. \A k \in 0..n : k \in T
    BY <1>1, <1>5, <1>6, CountUp
  <2>. QED
    BY <1>1, <2>1
<1>. QED
  BY <1>1, <1>2, <1>3, <1>4, <1>7 DEF SizeOf

\* A list without one of its pages.
LEMMA SizeOfCut ==
  ASSUME NEW l, Sized(l), NEW j \in 1..Len(l)
  PROVE  Sized(Cut(l, j)) /\ SizeOf(l) = SizeOf(Cut(l, j)) + Len(l[j].data)
<1>1. PICK n \in Nat : n = Len(l)
  BY DEF Sized, IsSeq
<1>2. PICK s : s = Cut(l, j)
  OBVIOUS
<1>3. /\ IsSeq(s) /\ Len(s) = n - 1 /\ n - 1 \in Nat /\ IsSeq(l) /\ j \in 1..n
      /\ \A k \in 1..(n - 1) : s[k] = IF k < j THEN l[k] ELSE l[k + 1]
  BY <1>1, <1>2, CutIs DEF Sized
<1>4. Sized(s)
  <2>. SUFFICES ASSUME NEW k \in 1..(n - 1) PROVE IsSeq(s[k].data)
    BY <1>3 DEF Sized
  <2>1. k \in 1..n /\ k + 1 \in 1..n
    OBVIOUS
  <2>2. s[k] = l[k] \/ s[k] = l[k + 1]
    BY <1>3
  <2>. QED
    BY <1>1, <2>1, <2>2 DEF Sized
<1>. DEFINE T == {k \in 0..(n - 1) :
                    IF k < j THEN SizeTo(l, k) = SizeTo(s, k)
                    ELSE SizeTo(l, k + 1) = SizeTo(s, k) + Len(l[j].data)}
<1>5. 0 \in T
  BY <1>3, SizeToAdds
<1>6. ASSUME NEW k \in 1..(n - 1), k - 1 \in T PROVE k \in T
  <2>1. k \in 1..Len(s) /\ k \in 1..Len(l) /\ k - 1 \in 0..Len(s) /\ (k - 1) + 1 = k
    BY <1>1, <1>3
  <2>2. PICK i \in 1..Len(l) : i = k + 1
    BY <1>1
  <2>3. SizeTo(l, k) = SizeTo(l, k - 1) + Len(l[k].data)
    BY <1>3, <2>1, SizeToAdds
  <2>4. SizeTo(l, i) = SizeTo(l, i - 1) + Len(l[i].data)
    BY <1>3, SizeToAdds
  <2>5. SizeTo(s, k) = SizeTo(s, k - 1) + Len(s[k].data)
    BY <1>3, <2>1, SizeToAdds
  <2>6. SizeTo(s, k - 1) \in Nat /\ Len(l[k].data) \in Nat /\ Len(l[i].data) \in Nat
        /\ Len(l[j].data) \in Nat
    <3>1. IsSeq(l[k].data) /\ IsSeq(l[i].data) /\ IsSeq(l[j].data)
      BY <2>1 DEF Sized
    <3>2. Len(l[k].data) \in Nat /\ Len(l[i].data) \in Nat /\ Len(l[j].data) \in Nat
      BY <3>1 DEF IsSeq
    <3>. QED
      BY <1>4, <2>1, <3>2, SizeToNat
  <2>7. CASE k < j
    <3>1. SizeTo(l, k - 1) = SizeTo(s, k - 1)
      BY <1>3, <1>6, <2>7
    <3>. QED
      BY <1>3, <2>3, <2>5, <2>7, <3>1
  <2>8. CASE k = j
    <3>1. SizeTo(l, k - 1) = SizeTo(s, k - 1)
      BY <1>3, <1>6, <2>8
    <3>2. s[k] = l[i] /\ i - 1 = k
      BY <1>3, <2>2, <2>8
    <3>3. SizeTo(l, i) = SizeTo(s, k) + Len(l[j].data)
      BY <2>3, <2>4, <2>5, <2>6, <2>8, <3>1, <3>2
    <3>. QED
      BY <1>3, <2>2, <2>8, <3>3
  <2>9. CASE k > j
    <3>1. SizeTo(l, k) = SizeTo(s, k - 1) + Len(l[j].data)
      BY <1>3, <1>6, <2>1, <2>9
    <3>2. s[k] = l[i] /\ i - 1 = k
      BY <1>3, <2>2, <2>9
    <3>3. SizeTo(l, i) = SizeTo(s, k) + Len(l[j].data)
      BY <2>4, <2>5, <2>6, <3>1, <3>2
    <3>. QED
      BY <1>3, <2>2, <2>9, <3>3
  <2>. QED
    BY <1>3, <2>7, <2>8, <2>9
<1>7. n - 1 \in T
  <2>. HIDE DEF T
  <2>1. \A k \in 0..(n - 1) : k \in T
    BY <1>3, <1>5, <1>6, CountUp
  <2>. QED
    BY <1>3, <2>1
<1>8. IF n - 1 < j THEN SizeTo(l, n - 1) = SizeTo(s, n - 1)
      ELSE SizeTo(l, n) = SizeTo(s, n - 1) + Len(l[j].data)
  BY <1>3, <1>7
<1>9. SizeTo(l, n) = SizeTo(s, n - 1) + Len(l[j].data)
  <2>1. CASE n - 1 < j
    <3>1. n = j /\ n \in 1..Len(l)
      BY <1>1, <1>3, <2>1
    <3>2. SizeTo(l, n) = SizeTo(l, n - 1) + Len(l[n].data)
      BY <1>3, <3>1, SizeToAdds
    <3>. QED
      BY <1>8, <2>1, <3>1, <3>2
  <2>2. CASE ~(n - 1 < j)
    BY <1>8, <2>2
  <2>. QED
    BY <2>1, <2>2
<1>. QED
  BY <1>1, <1>2, <1>3, <1>4, <1>9 DEF SizeOf

-----------------------------------------------------------------------------
(* The cache and the list of its pages. *)

\* A list of pages, each key once.
PageList(l) ==
  /\ Sized(l) /\ \A k \in 1..Len(l) : l[k] = [key |-> l[k].key, data |-> l[k].data]
  /\ \A j, k \in 1..Len(l) : l[j].key = l[k].key => j = k

KeysOf(l) == {l[k].key : k \in 1..Len(l)}

\* The nodes at the places of the list hold its pages, and the map finds them.
Contents(c, l, at) ==
  /\ PageList(l) /\ Len(l) = Len(at)
  /\ \A k \in 1..Len(l) : /\ c.nodes[at[k]].key = l[k].key
                          /\ c.nodes[at[k]].data = l[k].data
                          /\ c.map[l[k].key] = at[k]
  /\ DOMAIN c.map = KeysOf(l)

\* Every other node is blank and free.
Spare(c, at) ==
  /\ Places(c.free, Len(c.nodes)) /\ Len(c.nodes) = Len(at) + Len(c.free)
  /\ \A f \in 1..Len(c.free) : /\ c.nodes[c.free[f]] = Blank
                               /\ \A k \in 1..Len(at) : at[k] # c.free[f]

Mirrors(c, l, at) ==
  Chain(c, at) /\ Contents(c, l, at) /\ Spare(c, at) /\ c.cur = SizeOf(l)

\* The list with its page j first.
Moved(s, j) == Put(Cut(s, j), s[j])

\* Where each page of such a list was before.
From(k, j) == IF k = 1 THEN j ELSE IF k <= j THEN k - 1 ELSE k
MovedFrom(s, m, j) ==
  IsSeq(m) /\ Len(m) = Len(s) /\ \A k \in 1..Len(s) : m[k] = s[From(k, j)]
LEMMA MovedIs ==
  ASSUME NEW s, IsSeq(s), NEW j \in 1..Len(s) PROVE MovedFrom(s, Moved(s, j), j)
<1>1. PICK n \in Nat : n = Len(s)
  BY DEF IsSeq
<1>2. PICK b : b = Cut(s, j)
  OBVIOUS
<1>3. /\ IsSeq(b) /\ Len(b) = n - 1 /\ n - 1 \in Nat /\ j \in 1..n
      /\ \A k \in 1..(n - 1) : b[k] = IF k < j THEN s[k] ELSE s[k + 1]
  BY <1>1, <1>2, CutIs
<1>4. PICK i : i = s[j]
  OBVIOUS
<1>5. PICK m : m = Put(b, i)
  OBVIOUS
<1>6. /\ IsSeq(m) /\ Len(m) = Len(b) + 1 /\ m[1] = i
      /\ \A k \in 2..(Len(b) + 1) : m[k] = b[k - 1]
  BY <1>3, <1>5, PutIs
<1>7. Len(m) = n /\ \A k \in 2..n : m[k] = b[k - 1]
  BY <1>1, <1>3, <1>6
<1>8. ASSUME NEW k \in 1..n PROVE m[k] = s[From(k, j)]
  <2>1. CASE k = 1
    BY <1>4, <1>6, <2>1 DEF From
  <2>2. CASE k # 1
    <3>1. k \in 2..n /\ k - 1 \in 1..(n - 1) /\ (k - 1) + 1 = k /\ (k - 1 < j <=> k <= j)
      BY <1>3, <2>2
    <3>2. m[k] = IF k <= j THEN s[k - 1] ELSE s[k]
      BY <1>3, <1>7, <3>1
    <3>. QED
      BY <2>2, <3>2 DEF From
  <2>. QED
    BY <2>1, <2>2
<1>9. Moved(s, j) = m
  BY <1>2, <1>4, <1>5 DEF Moved
<1>. QED
  BY <1>1, <1>6, <1>7, <1>8, <1>9 DEF MovedFrom

\* Every place comes from one place, and every place goes to one.
Turning(n, j) ==
  /\ \A k \in 1..n : From(k, j) \in 1..n
  /\ \A k, i \in 1..n : From(k, j) = From(i, j) => k = i
  /\ \A k \in 1..n : \E i \in 1..n : From(i, j) = k
LEMMA FromTurns ==
  ASSUME NEW n \in Nat, NEW j \in 1..n PROVE Turning(n, j)
<1>1. \A k \in 1..n : From(k, j) \in 1..n
  BY DEF From
<1>2. \A k, i \in 1..n : From(k, j) = From(i, j) => k = i
  BY DEF From
<1>3. ASSUME NEW k \in 1..n PROVE \E i \in 1..n : From(i, j) = k
  <2>1. CASE k < j
    <3>1. k + 1 \in 1..n /\ k + 1 # 1 /\ k + 1 <= j /\ (k + 1) - 1 = k
      BY <2>1
    <3>. QED
      BY <3>1 DEF From
  <2>2. CASE k = j
    <3>1. 1 \in 1..n
      OBVIOUS
    <3>. QED
      BY <2>2, <3>1 DEF From
  <2>3. CASE k > j
    <3>1. k # 1 /\ ~(k <= j)
      BY <2>3
    <3>. QED
      BY <3>1 DEF From
  <2>. QED
    BY <2>1, <2>2, <2>3
<1>. QED
  BY <1>1, <1>2, <1>3 DEF Turning

\* Moving one of its pages to the front keeps a list of pages.
SamePages(l, m) == PageList(m) /\ KeysOf(m) = KeysOf(l) /\ SizeOf(m) = SizeOf(l)
LEMMA MovedPages ==
  ASSUME NEW l, PageList(l), NEW j \in 1..Len(l) PROVE SamePages(l, Moved(l, j))
<1>1. PICK n \in Nat : n = Len(l)
  BY DEF PageList, Sized, IsSeq
<1>2. PICK m : m = Moved(l, j)
  OBVIOUS
<1>3. IsSeq(l) /\ j \in 1..n
  BY <1>1 DEF PageList, Sized
<1>4. MovedFrom(l, m, j) /\ Turning(n, j)
  BY <1>1, <1>2, <1>3, MovedIs, FromTurns
<1>5. IsSeq(m) /\ Len(m) = n /\ \A k \in 1..n : m[k] = l[From(k, j)] /\ From(k, j) \in 1..n
  BY <1>1, <1>4 DEF MovedFrom, Turning
<1>6. Sized(m)
  BY <1>1, <1>5 DEF PageList, Sized
<1>7. \A k \in 1..n : m[k] = [key |-> m[k].key, data |-> m[k].data]
  BY <1>1, <1>5 DEF PageList
<1>8. ASSUME NEW k \in 1..n, NEW i \in 1..n, m[k].key = m[i].key PROVE k = i
  <2>1. PICK f \in 1..n : f = From(k, j) /\ m[k] = l[f]
    BY <1>5
  <2>2. PICK g \in 1..n : g = From(i, j) /\ m[i] = l[g]
    BY <1>5
  <2>3. f = g
    BY <1>1, <1>8, <2>1, <2>2 DEF PageList
  <2>. QED
    BY <1>4, <2>1, <2>2, <2>3 DEF Turning
<1>9. PageList(m)
  BY <1>5, <1>6, <1>7, <1>8 DEF PageList
<1>10. KeysOf(m) = KeysOf(l)
  <2>1. \A x \in KeysOf(m) : x \in KeysOf(l)
    BY <1>1, <1>5 DEF KeysOf
  <2>2. ASSUME NEW k \in 1..n PROVE l[k].key \in KeysOf(m)
    <3>1. PICK i \in 1..n : From(i, j) = k
      BY <1>4 DEF Turning
    <3>2. m[i] = l[k]
      BY <1>5, <3>1
    <3>. QED
      BY <1>5, <3>2 DEF KeysOf
  <2>3. \A x \in KeysOf(l) : x \in KeysOf(m)
    BY <1>1, <2>2 DEF KeysOf
  <2>. QED
    BY <2>1, <2>3
<1>11. SizeOf(m) = SizeOf(l)
  <2>1. PICK b : b = Cut(l, j)
    OBVIOUS
  <2>2. PICK x : x = l[j]
    OBVIOUS
  <2>3. Sized(b) /\ SizeOf(l) = SizeOf(b) + Len(x.data) /\ IsSeq(x.data)
    BY <2>1, <2>2, SizeOfCut DEF PageList, Sized
  <2>4. SizeOf(Put(b, x)) = SizeOf(b) + Len(x.data)
    BY <2>3, SizeOfPut
  <2>. QED
    BY <1>2, <2>1, <2>2, <2>3, <2>4 DEF Moved
<1>. QED
  BY <1>2, <1>9, <1>10, <1>11 DEF SamePages

\* move_to_front keeps a cache a mirror of its pages, in their new order.
LEMMA MoveMirrors ==
  ASSUME NEW c, NEW l, NEW at, Mirrors(c, l, at), NEW j \in 1..Len(l)
  PROVE  Mirrors(MoveToFront(c, at[j]), Moved(l, j), Moved(at, j))
<1>1. PICK n \in Nat : n = Len(l)
  BY DEF Mirrors, Contents, PageList, Sized, IsSeq
<1>2. Len(at) = n /\ Chain(c, at) /\ IsSeq(at) /\ IsSeq(l) /\ PageList(l) /\ j \in 1..n
  BY <1>1 DEF Mirrors, Contents, Chain, Places, PageList, Sized
<1>3. PICK i : i = at[j]
  OBVIOUS
<1>4. PICK d : d = MoveToFront(c, i)
  OBVIOUS
<1>5. PICK a : a = Moved(at, j)
  OBVIOUS
<1>6. PICK m : m = Moved(l, j)
  OBVIOUS
<1>7. MovedFrom(at, a, j) /\ MovedFrom(l, m, j) /\ Turning(n, j)
  BY <1>1, <1>2, <1>5, <1>6, MovedIs, FromTurns
<1>8. Chain(d, a) /\ Relinked(c, d) /\ Beside(c, d, at)
  BY <1>2, <1>3, <1>4, <1>5, MoveToFrontMoves DEF Moved
<1>9. IsSeq(a) /\ Len(a) = n /\ \A k \in 1..n : a[k] = at[From(k, j)] /\ From(k, j) \in 1..n
  BY <1>2, <1>7 DEF MovedFrom, Turning
<1>10. IsSeq(m) /\ Len(m) = n /\ \A k \in 1..n : m[k] = l[From(k, j)]
  BY <1>1, <1>7 DEF MovedFrom
<1>11. PageList(m) /\ KeysOf(m) = KeysOf(l) /\ SizeOf(m) = SizeOf(l)
  BY <1>2, <1>6, MovedPages, <1>1 DEF SamePages
<1>12. \A k \in 1..n : /\ c.nodes[at[k]].key = l[k].key /\ c.nodes[at[k]].data = l[k].data
                       /\ c.map[l[k].key] = at[k] /\ at[k] \in 1..Len(c.nodes)
  BY <1>1, <1>2 DEF Mirrors, Contents, Chain, Places
<1>13. Contents(d, m, a)
  <2>1. ASSUME NEW k \in 1..n
        PROVE  /\ d.nodes[a[k]].key = m[k].key /\ d.nodes[a[k]].data = m[k].data
               /\ d.map[m[k].key] = a[k]
    <3>1. PICK f \in 1..n : f = From(k, j) /\ a[k] = at[f] /\ m[k] = l[f]
      BY <1>9, <1>10
    <3>2. /\ c.nodes[at[f]].key = l[f].key /\ c.nodes[at[f]].data = l[f].data
          /\ c.map[l[f].key] = at[f] /\ at[f] \in 1..Len(c.nodes)
      BY <1>12
    <3>3. d.map = c.map /\ d.nodes[at[f]].key = c.nodes[at[f]].key
          /\ d.nodes[at[f]].data = c.nodes[at[f]].data
      BY <1>8, <3>2 DEF Relinked
    <3>. QED
      BY <3>1, <3>2, <3>3
  <2>2. DOMAIN d.map = KeysOf(m)
    BY <1>8, <1>11 DEF Relinked, Mirrors, Contents
  <2>. QED
    BY <1>9, <1>10, <1>11, <2>1, <2>2 DEF Contents
<1>14. Spare(d, a)
  <2>1. /\ d.free = c.free /\ Len(d.nodes) = Len(c.nodes)
        /\ Places(c.free, Len(c.nodes)) /\ Len(c.nodes) = n + Len(c.free)
    BY <1>2, <1>8 DEF Relinked, Mirrors, Spare
  <2>2. ASSUME NEW f \in 1..Len(c.free)
        PROVE  d.nodes[c.free[f]] = Blank /\ \A k \in 1..n : a[k] # c.free[f]
    <3>1. /\ c.nodes[c.free[f]] = Blank /\ c.free[f] \in 1..Len(c.nodes)
          /\ \A k \in 1..n : at[k] # c.free[f]
      BY <1>2 DEF Mirrors, Spare, Places
    <3>2. d.nodes[c.free[f]] = Blank
      BY <1>2, <1>8, <3>1 DEF Beside
    <3>. QED
      BY <1>9, <3>1, <3>2
  <2>. QED
    BY <1>9, <2>1, <2>2 DEF Spare
<1>15. d.cur = SizeOf(m)
  BY <1>8, <1>11 DEF Relinked, Mirrors
<1>. QED
  BY <1>3, <1>4, <1>5, <1>6, <1>8, <1>13, <1>14, <1>15 DEF Mirrors

\* A sequence with another one behind it.
JoinOf(s, t, z) ==
  /\ IsSeq(z) /\ Len(z) = Len(s) + Len(t)
  /\ \A i \in 1..Len(s) : z[i] = s[i]
  /\ \A i \in 1..Len(t) : z[Len(s) + i] = t[i]
LEMMA JoinIs ==
  ASSUME NEW s, IsSeq(s), NEW t, IsSeq(t) PROVE JoinOf(s, t, s \o t)
<1>. DEFINE R == {s[i] : i \in 1..Len(s)} \cup {t[i] : i \in 1..Len(t)}
<1>1. s \in Seq(R) /\ t \in Seq(R)
  BY DEF IsSeq
<1>. HIDE DEF R
<1>2. s \o t \in Seq(R)
  BY <1>1
<1>3. Len(s \o t) = Len(s) + Len(t) /\ \A i \in 1..Len(s) : (s \o t)[i] = s[i]
  BY <1>1
<1>4. \A i \in 1..Len(t) : (s \o t)[Len(s) + i] = t[i]
  BY <1>1
<1>5. PICK z \in Seq(R) : z = s \o t
  BY <1>2
<1>6. IsSeq(z)
  BY DEF IsSeq
<1>. QED
  BY <1>3, <1>4, <1>5, <1>6 DEF JoinOf

\* Sequences are equal when their elements are.
LEMMA SeqSame ==
  ASSUME NEW s, IsSeq(s), NEW t, IsSeq(t), Len(s) = Len(t), \A k \in 1..Len(s) : s[k] = t[k]
  PROVE  s = t
BY DEF IsSeq

\* A part of a sequence, given by its first place and its length.
PartOf(s, a, n, x) == IsSeq(x) /\ Len(x) = n /\ \A k \in 1..n : x[k] = s[a + k - 1]
LEMMA PartIs ==
  ASSUME NEW s, IsSeq(s), NEW a \in Nat \ {0}, NEW n \in Nat, a + n - 1 <= Len(s)
  PROVE  PartOf(s, a, n, SubSeq(s, a, a + n - 1))
<1>. DEFINE R == {s[i] : i \in 1..Len(s)}
<1>1. s \in Seq(R)
  BY DEF IsSeq
<1>. HIDE DEF R
<1>2. SubSeq(s, a, a + n - 1) = [k \in 1..n |-> s[a + k - 1]]
  BY <1>1
<1>3. PICK x : x = SubSeq(s, a, a + n - 1)
  OBVIOUS
<1>4. x = [k \in 1..n |-> s[a + k - 1]]
  BY <1>2, <1>3
<1>5. IsSeq(x) /\ Len(x) = n /\ \A k \in 1..n : x[k] = s[a + k - 1]
  BY <1>4 DEF IsSeq
<1>. QED
  BY <1>3, <1>5 DEF PartOf

\* The reference's list without a page.
LEMMA RemoveAtCuts ==
  ASSUME NEW s, IsSeq(s), NEW j \in 1..Len(s)
  PROVE  RemoveAt(s, j) = Cut(s, j)
<1>1. PICK n \in Nat : n = Len(s)
  BY DEF IsSeq
<1>2. PICK x : x = SubSeq(s, 1, j - 1)
  OBVIOUS
<1>3. PICK p \in Nat : p = j - 1 /\ 1 + p - 1 = j - 1 /\ 1 + p - 1 <= n /\ p + 1 = j
  BY <1>1
<1>4. IsSeq(x) /\ Len(x) = p /\ \A k \in 1..p : x[k] = s[k]
  <2>1. PartOf(s, 1, p, x)
    BY <1>1, <1>2, <1>3, PartIs
  <2>2. \A k \in 1..p : 1 + k - 1 = k
    BY <1>3
  <2>. QED
    BY <2>1, <2>2 DEF PartOf
<1>5. PICK y : y = SubSeq(s, j + 1, n)
  OBVIOUS
<1>6. PICK q \in Nat : q = n - j
  <2>1. j \in 1..n
    BY <1>1
  <2>2. n - j \in Nat
    BY <2>1
  <2>. QED
    BY <2>2
<1>15. (j + 1) + q - 1 = n /\ p + q = n - 1
  BY <1>1, <1>3, <1>6
<1>7. IsSeq(y) /\ Len(y) = q /\ \A k \in 1..q : y[k] = s[j + k]
  <2>1. PICK a \in Nat \ {0} : a = j + 1
    BY <1>1
  <2>2. PartOf(s, a, q, y)
    BY <1>1, <1>5, <1>6, <1>15, <2>1, PartIs
  <2>3. \A k \in 1..q : a + k - 1 = j + k
    BY <1>6, <2>1
  <2>. QED
    BY <2>2, <2>3 DEF PartOf
<1>8. PICK z : z = x \o y
  OBVIOUS
<1>9. JoinOf(x, y, z)
  BY <1>4, <1>7, <1>8, JoinIs
<1>10. /\ IsSeq(z) /\ Len(z) = n - 1 /\ \A k \in 1..p : z[k] = s[k]
       /\ \A k \in 1..q : z[p + k] = s[j + k]
  BY <1>4, <1>6, <1>15, <1>7, <1>9 DEF JoinOf
<1>11. \A k \in 1..(n - 1) : z[k] = IF k < j THEN s[k] ELSE s[k + 1]
  <2>. SUFFICES ASSUME NEW k \in 1..(n - 1) PROVE z[k] = IF k < j THEN s[k] ELSE s[k + 1]
    OBVIOUS
  <2>1. CASE k < j
    <3>1. k \in 1..p
      BY <1>3, <2>1
    <3>. QED
      BY <1>10, <2>1, <3>1
  <2>2. CASE ~(k < j)
    <3>1. PICK i \in 1..q : i = k - p /\ p + i = k /\ j + i = k + 1
      BY <1>1, <1>3, <1>6, <2>2
    <3>. QED
      BY <1>10, <2>2, <3>1
  <2>. QED
    BY <2>1, <2>2
<1>12. PICK b : b = Cut(s, j)
  OBVIOUS
<1>13. /\ IsSeq(b) /\ Len(b) = n - 1
       /\ \A k \in 1..(n - 1) : b[k] = IF k < j THEN s[k] ELSE s[k + 1]
  BY <1>1, <1>12, CutIs
<1>14. b = z
  BY <1>10, <1>11, <1>13, SeqSame
<1>. QED
  BY <1>1, <1>2, <1>5, <1>8, <1>12, <1>14 DEF RemoveAt

\* One page before a list.
LEMMA ConsPuts ==
  ASSUME NEW s, IsSeq(s), NEW x
  PROVE  <<x>> \o s = Put(s, x)
<1>1. PICK n \in Nat : n = Len(s)
  BY DEF IsSeq
<1>2. PICK o : o = <<x>>
  OBVIOUS
<1>3. IsSeq(o) /\ Len(o) = 1 /\ o[1] = x
  BY <1>2 DEF IsSeq
<1>4. PICK z : z = o \o s
  OBVIOUS
<1>5. JoinOf(o, s, z)
  BY <1>3, <1>4, JoinIs
<1>6. IsSeq(z) /\ Len(z) = n + 1 /\ z[1] = x /\ \A k \in 1..n : z[1 + k] = s[k]
  BY <1>1, <1>3, <1>5 DEF JoinOf
<1>7. PICK p : p = Put(s, x)
  OBVIOUS
<1>8. /\ IsSeq(p) /\ Len(p) = Len(s) + 1 /\ p[1] = x
      /\ \A k \in 1..Len(s) : p[k + 1] = s[k]
  BY <1>7, PutIs
<1>9. ASSUME NEW k \in 1..(n + 1) PROVE z[k] = p[k]
  <2>1. CASE k = 1
    BY <1>6, <1>8, <2>1
  <2>2. CASE k # 1
    <3>1. PICK i \in 1..n : k = i + 1 /\ k = 1 + i
      BY <2>2
    <3>. QED
      BY <1>1, <1>6, <1>8, <3>1
  <2>. QED
    BY <2>1, <2>2
<1>10. z = p
  BY <1>1, <1>6, <1>8, <1>9, SeqSame
<1>. QED
  BY <1>2, <1>4, <1>7, <1>10

\* Where a page of the list is.
LEMMA PlaceIs ==
  ASSUME NEW l, PageList(l), NEW key
  PROVE  /\ key \in KeysOf(l) => /\ Knows(l, key) /\ PlaceOf(l, key) \in 1..Len(l)
                                 /\ l[PlaceOf(l, key)].key = key
         /\ key \notin KeysOf(l) => ~Knows(l, key)
<1>1. PICK n \in Nat : n = Len(l)
  BY DEF PageList, Sized, IsSeq
<1>2. DOMAIN l = 1..n
  BY <1>1 DEF PageList, Sized, IsSeq
<1>3. ASSUME key \in KeysOf(l)
      PROVE  /\ Knows(l, key) /\ PlaceOf(l, key) \in 1..n /\ l[PlaceOf(l, key)].key = key
  <2>1. \E k \in 1..n : l[k].key = key
    BY <1>1, <1>3 DEF KeysOf
  <2>. QED
    BY <1>2, <2>1 DEF Knows, PlaceOf
<1>4. ASSUME key \notin KeysOf(l) PROVE ~Knows(l, key)
  BY <1>1, <1>2, <1>4 DEF KeysOf, Knows
<1>. QED
  BY <1>1, <1>3, <1>4

\* The reference's use of a page moves it to the front.
LEMMA UsedMoves ==
  ASSUME NEW l, PageList(l), NEW key \in KeysOf(l)
  PROVE  Used(l, key) = Moved(l, PlaceOf(l, key))
<1>1. PICK j : j = PlaceOf(l, key)
  OBVIOUS
<1>2. Knows(l, key) /\ j \in 1..Len(l) /\ l[j].key = key /\ IsSeq(l)
  BY <1>1, PlaceIs DEF PageList, Sized
<1>3. Without(l, key) = Cut(l, j)
  BY <1>1, <1>2, RemoveAtCuts DEF Without
<1>4. PICK b : b = Cut(l, j)
  OBVIOUS
<1>5. IsSeq(b)
  BY <1>2, <1>4, CutIs
<1>6. PICK x : x = l[j]
  OBVIOUS
<1>7. <<x>> \o b = Put(b, x)
  BY <1>5, ConsPuts
<1>. QED
  BY <1>1, <1>3, <1>4, <1>6, <1>7 DEF Used, Moved

\* get of a page that is there: the cache and the list move it to the front.
LEMMA GetMirrors ==
  ASSUME NEW c, NEW l, NEW at, Mirrors(c, l, at), NEW key, Resident(c, key)
  PROVE  \E a : Mirrors(Get(c, key), Used(l, key), a)
<1>1. PageList(l) /\ key \in KeysOf(l)
  BY DEF Mirrors, Contents, Resident
<1>2. PICK j : j = PlaceOf(l, key)
  OBVIOUS
<1>3. j \in 1..Len(l) /\ l[j].key = key
  BY <1>1, <1>2, PlaceIs
<1>4. c.map[key] = at[j]
  BY <1>3 DEF Mirrors, Contents
<1>5. Get(c, key) = MoveToFront(c, at[j])
  BY <1>4 DEF Get
<1>6. Mirrors(MoveToFront(c, at[j]), Moved(l, j), Moved(at, j))
  BY <1>3, MoveMirrors
<1>. QED
  BY <1>1, <1>2, <1>5, <1>6, UsedMoves

-----------------------------------------------------------------------------
(* A page that is put into the cache. *)

\* Another page in the place of one of the list.
Swapped(l, j, x) == [k \in 1..Len(l) |-> IF k = j THEN x ELSE l[k]]

\* What such a list is.
LEMMA SwappedIs ==
  ASSUME NEW l, IsSeq(l), NEW j \in 1..Len(l), NEW x
  PROVE  /\ IsSeq(Swapped(l, j, x)) /\ Len(Swapped(l, j, x)) = Len(l)
         /\ Swapped(l, j, x)[j] = x
         /\ \A k \in 1..Len(l) : k # j => Swapped(l, j, x)[k] = l[k]
         /\ Cut(Swapped(l, j, x), j) = Cut(l, j)
<1>1. PICK n \in Nat : n = Len(l)
  BY DEF IsSeq
<1>2. PICK s : s = Swapped(l, j, x)
  OBVIOUS
<1>3. s = [k \in 1..n |-> IF k = j THEN x ELSE l[k]] /\ j \in 1..n
  BY <1>1, <1>2 DEF Swapped
<1>4. /\ IsSeq(s) /\ Len(s) = n /\ s[j] = x
      /\ \A k \in 1..n : k # j => s[k] = l[k]
  BY <1>3 DEF IsSeq
<1>5. PICK b : b = Cut(l, j)
  OBVIOUS
<1>6. PICK d : d = Cut(s, j)
  OBVIOUS
<1>7. /\ b = [k \in 1..(n - 1) |-> IF k < j THEN l[k] ELSE l[k + 1]]
      /\ d = [k \in 1..(n - 1) |-> IF k < j THEN s[k] ELSE s[k + 1]]
  BY <1>1, <1>4, <1>5, <1>6 DEF Cut
<1>8. \A k \in 1..(n - 1) : IF k < j THEN s[k] = l[k] ELSE s[k + 1] = l[k + 1]
  BY <1>1, <1>4
<1>9. b = d
  BY <1>7, <1>8
<1>. QED
  BY <1>1, <1>2, <1>4, <1>5, <1>6, <1>9

PageOf(key, data) == [key |-> key, data |-> data]

\* New data for a page of the list.
LEMMA SwapMirrors ==
  ASSUME NEW c, NEW l, NEW at, Mirrors(c, l, at), NEW j \in 1..Len(l), NEW data, IsSeq(data)
  PROVE  Mirrors([c EXCEPT !.cur = @ - Len(c.nodes[at[j]].data) + Len(data),
                           !.nodes[at[j]].data = data],
                 Swapped(l, j, PageOf(l[j].key, data)), at)
<1>1. PICK n \in Nat : n = Len(l)
  BY DEF Mirrors, Contents, PageList, Sized, IsSeq
<1>2. PICK m \in Nat : m = Len(c.nodes)
  BY DEF Mirrors, Chain, Shape, IsSeq
<1>3. PICK i : i = at[j]
  OBVIOUS
<1>4. /\ Shape(c) /\ IsSeq(l) /\ IsSeq(at) /\ Len(at) = n /\ j \in 1..n
      /\ \A k \in 1..n : at[k] \in 1..m
      /\ \A k, f \in 1..n : at[k] = at[f] => k = f
  BY <1>1, <1>2 DEF Mirrors, Contents, Chain, Places, PageList, Sized
<1>5. /\ i \in 1..m /\ i \in DOMAIN c.nodes /\ c.nodes[i].data = l[j].data
      /\ c.nodes[i].key = l[j].key /\ NodeShape(c.nodes[i])
  BY <1>1, <1>2, <1>3, <1>4 DEF Mirrors, Contents, Shape, IsSeq
<1>6. PICK x : x = [c.nodes[i] EXCEPT !.data = data]
  OBVIOUS
<1>7. x = [key |-> c.nodes[i].key, data |-> data, prev |-> c.nodes[i].prev,
           next |-> c.nodes[i].next]
  BY <1>5, <1>6 DEF NodeShape
<1>8. PICK ns : ns = [c.nodes EXCEPT ![i] = x]
  OBVIOUS
<1>9. IsSeq(ns) /\ Len(ns) = m /\ \A k \in 1..m : ns[k] = IF k = i THEN x ELSE c.nodes[k]
  <2>1. IsSeq(c.nodes)
    BY <1>4 DEF Shape
  <2>2. DOMAIN c.nodes = 1..m
    BY <1>2, <2>1 DEF IsSeq
  <2>3. ns = [k \in 1..m |-> IF k = i THEN x ELSE c.nodes[k]]
    BY <1>5, <1>8, <2>2
  <2>. QED
    BY <2>3 DEF IsSeq
<1>10. PICK cur : cur = c.cur - Len(l[j].data) + Len(data)
  OBVIOUS
<1>11. PICK d : d = [c EXCEPT !.cur = @ - Len(c.nodes[i].data) + Len(data),
                              !.nodes[i].data = data]
  OBVIOUS
<1>12. d = [map |-> c.map, nodes |-> ns, free |-> c.free, head |-> c.head,
            tail |-> c.tail, cur |-> cur]
  <2>1. c.cur - Len(c.nodes[i].data) + Len(data) = cur
    BY <1>5, <1>10
  <2>2. d = [[c EXCEPT !.cur = cur] EXCEPT !.nodes = ns]
    BY <1>4, <1>5, <1>6, <1>8, <1>11, <2>1 DEF Shape
  <2>. QED
    BY <1>4, <2>2 DEF Shape
<1>13. Shape(d)
  <2>1. d.nodes = ns
    BY <1>12
  <2>2. d = [map |-> d.map, nodes |-> d.nodes, free |-> d.free, head |-> d.head,
             tail |-> d.tail, cur |-> d.cur]
    BY <1>12
  <2>3. NodeShape(x)
    BY <1>7 DEF NodeShape
  <2>4. \A k \in 1..m : NodeShape(c.nodes[k])
    BY <1>2, <1>4 DEF Shape
  <2>5. \A k \in 1..m : NodeShape(ns[k])
    BY <1>9, <2>3, <2>4
  <2>. QED
    BY <1>9, <2>1, <2>2, <2>5 DEF Shape
<1>14. /\ Len(d.nodes) = m
       /\ \A k \in 1..m : d.nodes[k].key = c.nodes[k].key /\ d.nodes[k].prev = c.nodes[k].prev
                          /\ d.nodes[k].next = c.nodes[k].next
       /\ \A k \in 1..m : k # i => d.nodes[k] = c.nodes[k]
       /\ d.nodes[i].data = data
  BY <1>5, <1>7, <1>9, <1>12
<1>15. Chain(d, at)
  <2>1. Places(at, Len(d.nodes))
    BY <1>2, <1>14 DEF Mirrors, Chain
  <2>2. d.head = c.head /\ d.tail = c.tail
    BY <1>12
  <2>3. \A k \in 1..n : d.nodes[at[k]].prev = c.nodes[at[k]].prev
                        /\ d.nodes[at[k]].next = c.nodes[at[k]].next
    BY <1>4, <1>14
  <2>. QED
    BY SMTT(40), <1>4, <1>13, <2>1, <2>2, <2>3 DEF Mirrors, Chain
<1>16. PICK p : p = PageOf(l[j].key, data)
  OBVIOUS
<1>17. PICK s : s = Swapped(l, j, p)
  OBVIOUS
<1>18. /\ IsSeq(s) /\ Len(s) = n /\ s[j] = p /\ Cut(s, j) = Cut(l, j)
       /\ \A k \in 1..n : k # j => s[k] = l[k]
  BY <1>1, <1>4, <1>17, SwappedIs
<1>19. p.key = l[j].key /\ p.data = data /\ p = [key |-> p.key, data |-> p.data]
  BY <1>16 DEF PageOf
<1>20. \A k \in 1..n : s[k].key = l[k].key
  BY <1>18, <1>19
<1>21. Sized(s) /\ \A k \in 1..n : s[k] = [key |-> s[k].key, data |-> s[k].data]
  <2>1. Sized(l) /\ \A k \in 1..n : l[k] = [key |-> l[k].key, data |-> l[k].data]
    BY <1>1 DEF Mirrors, Contents, PageList
  <2>2. \A k \in 1..n : IsSeq(s[k].data)
    BY <1>1, <1>18, <1>19, <2>1 DEF Sized
  <2>3. ASSUME NEW k \in 1..n PROVE s[k] = [key |-> s[k].key, data |-> s[k].data]
    BY <1>18, <1>19, <2>1
  <2>. QED
    BY <1>18, <2>2, <2>3 DEF Sized
<1>22. PageList(s) /\ KeysOf(s) = KeysOf(l)
  <2>1. \A k, f \in 1..n : l[k].key = l[f].key => k = f
    BY <1>1 DEF Mirrors, Contents, PageList
  <2>2. KeysOf(s) = KeysOf(l)
    BY <1>1, <1>18, <1>20 DEF KeysOf
  <2>. QED
    BY <1>18, <1>20, <1>21, <2>1, <2>2 DEF PageList
<1>23. Contents(d, s, at)
  <2>1. d.map = c.map
    BY <1>12
  <2>2. ASSUME NEW k \in 1..n
        PROVE  /\ d.nodes[at[k]].key = s[k].key /\ d.nodes[at[k]].data = s[k].data
               /\ d.map[s[k].key] = at[k]
    <3>1. /\ c.nodes[at[k]].key = l[k].key /\ c.nodes[at[k]].data = l[k].data
          /\ c.map[l[k].key] = at[k]
      BY <1>1 DEF Mirrors, Contents
    <3>2. d.nodes[at[k]].data = s[k].data
      BY <1>3, <1>4, <1>14, <1>18, <1>19, <3>1
    <3>. QED
      BY <1>4, <1>14, <1>20, <2>1, <3>1, <3>2
  <2>. QED
    BY <1>4, <1>18, <1>22, <2>1, <2>2 DEF Mirrors, Contents
<1>24. Spare(d, at)
  <2>1. d.free = c.free
    BY <1>12
  <2>2. ASSUME NEW f \in 1..Len(c.free)
        PROVE  d.nodes[c.free[f]] = Blank /\ \A k \in 1..n : at[k] # c.free[f]
    <3>1. /\ c.nodes[c.free[f]] = Blank /\ c.free[f] \in 1..m
          /\ \A k \in 1..n : at[k] # c.free[f]
      BY <1>2, <1>4 DEF Mirrors, Spare, Places
    <3>. QED
      BY <1>3, <1>4, <1>14, <3>1
  <2>. QED
    <3>1. Spare(c, at) /\ Len(d.nodes) = Len(c.nodes) /\ Len(at) = n
      BY <1>2, <1>4, <1>14 DEF Mirrors
    <3>2. Places(d.free, Len(d.nodes)) /\ Len(d.nodes) = Len(at) + Len(d.free)
      BY <2>1, <3>1 DEF Spare
    <3>. QED
      BY <2>1, <2>2, <3>1, <3>2 DEF Spare
<1>25. d.cur = SizeOf(s)
  <2>1. PICK b : b = Cut(l, j)
    OBVIOUS
  <2>2. Sized(b) /\ SizeOf(l) = SizeOf(b) + Len(l[j].data)
    BY <2>1, SizeOfCut DEF Mirrors, Contents, PageList
  <2>3. SizeOf(s) = SizeOf(b) + Len(data)
    <3>1. j \in 1..Len(s) /\ Sized(s)
      BY <1>4, <1>18, <1>21
    <3>2. SizeOf(s) = SizeOf(Cut(s, j)) + Len(s[j].data)
      BY <3>1, SizeOfCut
    <3>. QED
      BY <1>18, <1>19, <2>1, <3>2
  <2>4. SizeOf(b) \in Nat /\ Len(l[j].data) \in Nat
    <3>1. Len(b) \in 0..Len(b)
      BY <2>2 DEF Sized, IsSeq
    <3>2. SizeOf(b) \in Nat
      BY <2>2, <3>1, SizeToNat DEF SizeOf
    <3>. QED
      BY <3>2 DEF Mirrors, Contents, PageList, Sized
  <2>5. d.cur = SizeOf(l) - Len(l[j].data) + Len(data)
    BY <1>10, <1>12 DEF Mirrors
  <2>. QED
    BY <2>2, <2>3, <2>4, <2>5
<1>. QED
  BY <1>3, <1>11, <1>15, <1>16, <1>17, <1>23, <1>24, <1>25 DEF Mirrors

\* What alloc_node does: the node is at a place that was free or is new, and everything
\* else stays where it is.
Allocated(c, e, i, node, at) ==
  /\ Chain(e, at) /\ e.map = c.map /\ e.cur = c.cur
  /\ i \in 1..Len(e.nodes) /\ e.nodes[i] = node /\ \A k \in 1..Len(at) : at[k] # i
  /\ Places(e.free, Len(e.nodes)) /\ Len(e.nodes) = Len(at) + 1 + Len(e.free)
  /\ \A f \in 1..Len(e.free) : /\ e.nodes[e.free[f]] = Blank /\ e.free[f] # i
                               /\ \A k \in 1..Len(at) : at[k] # e.free[f]
  /\ \A k \in 1..Len(at) : e.nodes[at[k]] = c.nodes[at[k]]

\* The free place is taken from the end.
LEMMA TakeAllocates ==
  ASSUME NEW c, NEW at, Chain(c, at), Spare(c, at), NEW node, NodeShape(node), c.free # <<>>
  PROVE  Allocated(c, AllocNode(c, node), Place(c), node, at)
<1>1. PICK m \in Nat : m = Len(c.nodes)
  BY DEF Chain, Shape, IsSeq
<1>2. PICK n \in Nat : n = Len(at)
  BY DEF Chain, Places, IsSeq
<1>3. PICK g \in Nat : g = Len(c.free)
  BY DEF Spare, Places, IsSeq
<1>4. /\ IsSeq(c.free) /\ m = n + g
      /\ \A f \in 1..g : c.free[f] \in 1..m
      /\ \A f, h \in 1..g : c.free[f] = c.free[h] => f = h
      /\ \A f \in 1..g : c.nodes[c.free[f]] = Blank /\ \A k \in 1..n : at[k] # c.free[f]
  BY <1>1, <1>2, <1>3 DEF Spare, Places
<1>5. g > 0 /\ g \in 1..g /\ g - 1 \in Nat
  <2>1. g # 0
    BY <1>3, <1>4 DEF IsSeq
  <2>. QED
    BY <2>1
<1>6. PICK i : i = Place(c)
  OBVIOUS
<1>7. i = c.free[g] /\ i \in 1..m
  BY <1>3, <1>4, <1>5, <1>6 DEF Place
<1>8. PICK fr : fr = SubSeq(c.free, 1, g - 1)
  OBVIOUS
<1>9. IsSeq(fr) /\ Len(fr) = g - 1 /\ \A f \in 1..(g - 1) : fr[f] = c.free[f]
  <2>1. PICK h \in Nat : h = g - 1 /\ 1 + h - 1 = g - 1 /\ 1 + h - 1 <= g
    BY <1>5
  <2>2. PartOf(c.free, 1, h, fr)
    BY <1>3, <1>4, <1>8, <2>1, PartIs
  <2>3. \A f \in 1..h : 1 + f - 1 = f
    BY <2>1
  <2>. QED
    BY <2>1, <2>2, <2>3 DEF PartOf
<1>10. PICK ns : ns = [c.nodes EXCEPT ![i] = node]
  OBVIOUS
<1>11. IsSeq(ns) /\ Len(ns) = m /\ \A k \in 1..m : ns[k] = IF k = i THEN node ELSE c.nodes[k]
  <2>1. IsSeq(c.nodes)
    BY DEF Chain, Shape
  <2>2. DOMAIN c.nodes = 1..m
    BY <1>1, <2>1 DEF IsSeq
  <2>3. ns = [k \in 1..m |-> IF k = i THEN node ELSE c.nodes[k]]
    BY <1>7, <1>10, <2>2
  <2>. QED
    BY <2>3 DEF IsSeq
<1>12. PICK e : e = AllocNode(c, node)
  OBVIOUS
<1>13. e = [map |-> c.map, nodes |-> ns, free |-> fr, head |-> c.head,
            tail |-> c.tail, cur |-> c.cur]
  <2>1. e = [c EXCEPT !.nodes[i] = node, !.free = SubSeq(@, 1, Len(@) - 1)]
    BY <1>6, <1>12 DEF AllocNode
  <2>2. e = [[c EXCEPT !.nodes = ns] EXCEPT !.free = fr]
    BY <1>3, <1>8, <1>10, <2>1 DEF Chain, Shape
  <2>. QED
    BY <2>2 DEF Chain, Shape
<1>14. Shape(e)
  BY <1>1, <1>11, <1>13 DEF Chain, Shape
<1>15. \A k \in 1..n : at[k] \in 1..m /\ at[k] # i /\ ns[at[k]] = c.nodes[at[k]]
  BY <1>1, <1>2, <1>4, <1>5, <1>7, <1>11 DEF Chain, Places
<1>16. Chain(e, at)
  <2>1. Places(at, Len(e.nodes)) /\ e.head = c.head /\ e.tail = c.tail
    BY <1>1, <1>11, <1>13 DEF Chain
  <2>2. \A k \in 1..n : e.nodes[at[k]] = c.nodes[at[k]]
    BY <1>13, <1>15
  <2>. QED
    BY SMTT(40), <1>2, <1>14, <2>1, <2>2 DEF Chain
<1>17. \A f \in 1..(g - 1) : /\ fr[f] = c.free[f] /\ f \in 1..g /\ c.free[f] # i
                             /\ c.free[f] \in 1..m /\ ns[c.free[f]] = Blank
  <2>. SUFFICES ASSUME NEW f \in 1..(g - 1)
                PROVE  /\ fr[f] = c.free[f] /\ f \in 1..g /\ c.free[f] # i
                       /\ c.free[f] \in 1..m /\ ns[c.free[f]] = Blank
    OBVIOUS
  <2>1. f \in 1..g /\ f # g
    BY <1>5
  <2>. QED
    BY <1>4, <1>5, <1>7, <1>9, <1>11, <2>1
<1>18. Places(fr, m)
  BY <1>4, <1>9, <1>17 DEF Places
<1>19. /\ e.map = c.map /\ e.cur = c.cur /\ i \in 1..Len(e.nodes) /\ e.nodes[i] = node
       /\ Len(e.nodes) = Len(at) + 1 + Len(e.free) /\ e.nodes = ns /\ e.free = fr
  <2>1. e.map = c.map /\ e.cur = c.cur /\ e.nodes = ns /\ e.free = fr
    BY <1>13
  <2>2. m = n + 1 + (g - 1)
    BY <1>4, <1>5
  <2>. QED
    BY <1>2, <1>7, <1>9, <1>11, <2>1, <2>2
<1>20. \A f \in 1..Len(e.free) : /\ e.nodes[e.free[f]] = Blank /\ e.free[f] # i
                                 /\ \A k \in 1..n : at[k] # e.free[f]
  BY <1>4, <1>9, <1>17, <1>19
<1>21. Places(e.free, Len(e.nodes)) /\ \A k \in 1..n : e.nodes[at[k]] = c.nodes[at[k]]
  BY <1>11, <1>15, <1>18, <1>19
<1>22. Allocated(c, e, i, node, at)
  BY <1>2, <1>15, <1>16, <1>19, <1>20, <1>21 DEF Allocated
<1>. QED
  BY <1>6, <1>12, <1>22

\* A new place is behind the slab.
LEMMA GrowAllocates ==
  ASSUME NEW c, NEW at, Chain(c, at), Spare(c, at), NEW node, NodeShape(node), c.free = <<>>
  PROVE  Allocated(c, AllocNode(c, node), Place(c), node, at)
<1>1. PICK m \in Nat : m = Len(c.nodes)
  BY DEF Chain, Shape, IsSeq
<1>2. PICK n \in Nat : n = Len(at)
  BY DEF Chain, Places, IsSeq
<1>3. Len(c.free) = 0 /\ m = n /\ IsSeq(c.free) /\ IsSeq(c.nodes)
  BY <1>1, <1>2 DEF Spare, Places, Chain, Shape
<1>4. PICK i : i = Place(c)
  OBVIOUS
<1>5. i = m + 1
  BY <1>1, <1>4 DEF Place
<1>6. PICK ns : ns = Append(c.nodes, node)
  OBVIOUS
<1>7. /\ IsSeq(ns) /\ Len(ns) = m + 1 /\ ns[m + 1] = node
      /\ \A k \in 1..m : ns[k] = c.nodes[k]
  <2>. DEFINE R == {c.nodes[k] : k \in 1..m} \cup {node}
  <2>1. c.nodes \in Seq(R) /\ node \in R
    BY <1>1, <1>3 DEF IsSeq
  <2>. HIDE DEF R
  <2>2. PICK z \in Seq(R) : z = ns
    BY SMTT(40), <1>6, <2>1
  <2>3. IsSeq(z)
    BY DEF IsSeq
  <2>. QED
    BY <1>1, <1>6, <2>1, <2>2, <2>3
<1>8. PICK e : e = AllocNode(c, node)
  OBVIOUS
<1>9. e = [map |-> c.map, nodes |-> ns, free |-> c.free, head |-> c.head,
           tail |-> c.tail, cur |-> c.cur]
  <2>1. e = [c EXCEPT !.nodes = Append(@, node)]
    BY <1>8 DEF AllocNode
  <2>2. e = [c EXCEPT !.nodes = ns]
    BY <1>6, <2>1 DEF Chain, Shape
  <2>. QED
    BY <2>2 DEF Chain, Shape
<1>10. Shape(e)
  <2>1. ASSUME NEW k \in 1..(m + 1) PROVE NodeShape(ns[k])
    <3>1. CASE k = m + 1
      BY <1>7, <3>1
    <3>2. CASE k # m + 1
      <4>1. k \in 1..m
        BY <3>2
      <4>. QED
        BY <1>1, <1>7, <4>1 DEF Chain, Shape
    <3>. QED
      BY <3>1, <3>2
  <2>. QED
    BY <1>7, <1>9, <2>1 DEF Shape
<1>11. \A k \in 1..n : at[k] \in 1..m /\ at[k] # i /\ ns[at[k]] = c.nodes[at[k]]
  BY <1>1, <1>2, <1>5, <1>7 DEF Chain, Places
<1>12. Chain(e, at)
  <2>1. Places(at, m + 1)
    BY <1>1, <1>2 DEF Chain, Places
  <2>2. e.head = c.head /\ e.tail = c.tail /\ Len(e.nodes) = m + 1
    BY <1>7, <1>9
  <2>3. \A k \in 1..n : e.nodes[at[k]] = c.nodes[at[k]]
    BY <1>9, <1>11
  <2>. QED
    BY SMTT(40), <1>2, <1>10, <2>1, <2>2, <2>3 DEF Chain
<1>13. Places(c.free, m + 1)
  BY <1>3 DEF Places
<1>14. /\ e.map = c.map /\ e.cur = c.cur /\ i \in 1..Len(e.nodes) /\ e.nodes[i] = node
       /\ Len(e.nodes) = Len(at) + 1 + Len(e.free) /\ e.nodes = ns /\ e.free = c.free
       /\ Len(e.nodes) = m + 1
  BY <1>2, <1>3, <1>5, <1>7, <1>9
<1>. QED
  BY <1>2, <1>3, <1>4, <1>8, <1>11, <1>12, <1>13, <1>14 DEF Allocated

\* What alloc_node does.
LEMMA AllocAllocates ==
  ASSUME NEW c, NEW at, Chain(c, at), Spare(c, at), NEW node, NodeShape(node)
  PROVE  Allocated(c, AllocNode(c, node), Place(c), node, at)
BY TakeAllocates, GrowAllocates

\* A page with a key of its own before a list of pages.
LEMMA PutPages ==
  ASSUME NEW l, PageList(l), NEW key, key \notin KeysOf(l), NEW data, IsSeq(data)
  PROVE  /\ PageList(Put(l, PageOf(key, data))) /\ KeysOf(Put(l, PageOf(key, data))) = KeysOf(l) \cup {key}
         /\ SizeOf(Put(l, PageOf(key, data))) = SizeOf(l) + Len(data)
<1>1. PICK n \in Nat : n = Len(l)
  BY DEF PageList, Sized, IsSeq
<1>2. PICK p : p = PageOf(key, data)
  OBVIOUS
<1>3. p.key = key /\ p.data = data /\ p = [key |-> p.key, data |-> p.data]
  BY <1>2 DEF PageOf
<1>4. PICK s : s = Put(l, p)
  OBVIOUS
<1>5. Sized(s) /\ SizeOf(s) = SizeOf(l) + Len(data)
  BY <1>3, <1>4, SizeOfPut DEF PageList
<1>6. IsSeq(s) /\ Len(s) = n + 1 /\ s[1] = p /\ \A k \in 1..n : s[k + 1] = l[k]
  BY <1>1, <1>4, PutIs DEF PageList, Sized
<1>7. ASSUME NEW k \in 1..(n + 1) PROVE (k = 1 /\ s[k] = p) \/ \E i \in 1..n : k = i + 1 /\ s[k] = l[i]
  <2>1. CASE k = 1
    BY <1>6, <2>1
  <2>2. CASE k # 1
    <3>1. PICK i \in 1..n : k = i + 1
      BY <2>2
    <3>. QED
      BY <1>6, <3>1
  <2>. QED
    BY <2>1, <2>2
<1>8. /\ \A k \in 1..n : l[k] = [key |-> l[k].key, data |-> l[k].data] /\ l[k].key # key
      /\ \A k, f \in 1..n : l[k].key = l[f].key => k = f
  BY <1>1 DEF PageList, KeysOf
<1>9. \A k \in 1..(n + 1) : s[k] = [key |-> s[k].key, data |-> s[k].data]
  BY <1>3, <1>7, <1>8
<1>10. ASSUME NEW k \in 1..(n + 1), NEW f \in 1..(n + 1), s[k].key = s[f].key PROVE k = f
  <2>1. CASE k = 1 /\ s[k] = p
    <3>1. ~(\E i \in 1..n : s[f] = l[i])
      BY <1>3, <1>8, <1>10, <2>1
    <3>. QED
      BY <1>7, <2>1, <3>1
  <2>2. CASE \E i \in 1..n : k = i + 1 /\ s[k] = l[i]
    <3>1. PICK i \in 1..n : k = i + 1 /\ s[k] = l[i]
      BY <2>2
    <3>2. s[f] # p
      BY <1>3, <1>8, <1>10, <3>1
    <3>3. PICK h \in 1..n : f = h + 1 /\ s[f] = l[h]
      BY <1>7, <3>2
    <3>4. i = h
      BY <1>8, <1>10, <3>1, <3>3
    <3>. QED
      BY <3>1, <3>3, <3>4
  <2>. QED
    BY <1>7, <2>1, <2>2
<1>11. KeysOf(s) = KeysOf(l) \cup {key}
  <2>1. \A x \in KeysOf(s) : x \in KeysOf(l) \cup {key}
    BY <1>1, <1>3, <1>6, <1>7 DEF KeysOf
  <2>2. key \in KeysOf(s)
    <3>1. 1 \in 1..Len(s)
      BY <1>6
    <3>. QED
      BY <1>3, <1>6, <3>1 DEF KeysOf
  <2>3. ASSUME NEW k \in 1..n PROVE l[k].key \in KeysOf(s)
    <3>1. k + 1 \in 1..Len(s)
      BY <1>6
    <3>2. s[k + 1] = l[k]
      BY <1>6
    <3>. QED
      BY <3>1, <3>2 DEF KeysOf
  <2>4. \A x \in KeysOf(l) : x \in KeysOf(s)
    BY <1>1, <2>3 DEF KeysOf
  <2>. QED
    BY <2>1, <2>2, <2>4
<1>12. PageList(s)
  BY <1>5, <1>6, <1>9, <1>10 DEF PageList
<1>. QED
  BY <1>2, <1>4, <1>5, <1>11, <1>12

\* A page that was not there comes to the front of both.
LEMMA AddMirrors ==
  ASSUME NEW c, NEW l, NEW at, Mirrors(c, l, at), NEW key, ~Resident(c, key),
         NEW data, IsSeq(data)
  PROVE  Mirrors(AddedAt(c, Place(c), key, data), Put(l, PageOf(key, data)), Put(at, Place(c)))
<1>1. PICK n \in Nat : n = Len(l)
  BY DEF Mirrors, Contents, PageList, Sized, IsSeq
<1>2. Len(at) = n /\ IsSeq(at) /\ IsSeq(l) /\ PageList(l) /\ key \notin KeysOf(l)
  BY <1>1 DEF Mirrors, Contents, Chain, Places, PageList, Sized, Resident
<1>3. PICK i : i = Place(c)
  OBVIOUS
<1>4. PICK node : node = [Blank EXCEPT !.key = key, !.data = data]
  OBVIOUS
<1>5. node = [key |-> key, data |-> data, prev |-> NIL, next |-> NIL] /\ NodeShape(node)
  BY <1>4 DEF Blank, NodeShape
<1>6. PICK e : e = AllocNode(c, node)
  OBVIOUS
<1>7. Allocated(c, e, i, node, at)
  BY <1>3, <1>5, <1>6, AllocAllocates DEF Mirrors
<1>8. PICK d : d = PushFront(e, i)
  OBVIOUS
<1>9. PICK a : a = Put(at, i)
  OBVIOUS
<1>10. Chain(d, a) /\ Relinked(e, d) /\ Beside(e, d, a)
  BY <1>7, <1>8, <1>9, PushFrontPuts DEF Allocated
<1>11. PICK mp : mp = [k \in DOMAIN c.map \cup {key} |-> IF k = key THEN i ELSE c.map[k]]
  OBVIOUS
<1>12. PICK g : g = AddedAt(c, i, key, data)
  OBVIOUS
<1>13. g = [map |-> mp, nodes |-> d.nodes, free |-> d.free, head |-> d.head,
            tail |-> d.tail, cur |-> c.cur + Len(data)]
  <2>1. d.map = c.map /\ d.cur = c.cur /\ Shape(d)
    BY <1>7, <1>10 DEF Allocated, Relinked, Chain
  <2>2. g = [d EXCEPT !.map = [k \in DOMAIN @ \cup {key} |-> IF k = key THEN i ELSE @[k]],
                      !.cur = @ + Len(data)]
    BY <1>4, <1>6, <1>8, <1>12 DEF AddedAt
  <2>3. g = [[d EXCEPT !.map = mp] EXCEPT !.cur = c.cur + Len(data)]
    BY <1>11, <2>1, <2>2 DEF Shape
  <2>. QED
    BY <2>1, <2>3 DEF Shape
<1>14. Chain(g, a)
  BY <1>10, <1>13 DEF Chain, Shape
<1>15. PICK p : p = PageOf(key, data)
  OBVIOUS
<1>16. PICK s : s = Put(l, p)
  OBVIOUS
<1>17. PageList(s) /\ KeysOf(s) = KeysOf(l) \cup {key} /\ SizeOf(s) = SizeOf(l) + Len(data)
  BY <1>2, <1>15, <1>16, PutPages
<1>18. /\ IsSeq(a) /\ Len(a) = n + 1 /\ a[1] = i /\ \A k \in 1..n : a[k + 1] = at[k]
  BY <1>2, <1>9, PutIs
<1>19. /\ IsSeq(s) /\ Len(s) = n + 1 /\ s[1] = p /\ \A k \in 1..n : s[k + 1] = l[k]
  BY <1>1, <1>2, <1>16, PutIs
<1>20. p.key = key /\ p.data = data
  BY <1>15 DEF PageOf
<1>21. /\ d.nodes[i].key = key /\ d.nodes[i].data = data
       /\ \A k \in 1..n : /\ d.nodes[at[k]].key = l[k].key /\ d.nodes[at[k]].data = l[k].data
                          /\ c.map[l[k].key] = at[k]
  <2>1. \A k \in 1..n : at[k] \in 1..Len(e.nodes) /\ e.nodes[at[k]] = c.nodes[at[k]]
    BY <1>2, <1>7 DEF Allocated, Chain, Places
  <2>2. \A k \in 1..n : /\ d.nodes[at[k]].key = c.nodes[at[k]].key
                        /\ d.nodes[at[k]].data = c.nodes[at[k]].data
    BY <1>10, <2>1 DEF Relinked
  <2>3. d.nodes[i].key = node.key /\ d.nodes[i].data = node.data
    BY <1>7, <1>10 DEF Allocated, Relinked
  <2>. QED
    BY <1>1, <1>5, <2>2, <2>3 DEF Mirrors, Contents
<1>22. mp[key] = i /\ \A k \in 1..n : mp[l[k].key] = at[k]
  <2>1. \A k \in 1..n : l[k].key \in KeysOf(l) /\ l[k].key \in DOMAIN c.map
    BY <1>1 DEF KeysOf, Mirrors, Contents
  <2>. QED
    BY <1>2, <1>11, <1>21, <2>1
<1>23. Contents(g, s, a)
  <2>1. ASSUME NEW k \in 1..(n + 1)
        PROVE  /\ g.nodes[a[k]].key = s[k].key /\ g.nodes[a[k]].data = s[k].data
               /\ g.map[s[k].key] = a[k]
    <3>1. CASE k = 1
      BY <1>13, <1>18, <1>19, <1>20, <1>21, <1>22, <3>1
    <3>2. CASE k # 1
      <4>1. PICK f \in 1..n : k = f + 1
        BY <3>2
      <4>2. a[k] = at[f] /\ s[k] = l[f]
        BY <1>18, <1>19, <4>1
      <4>. QED
        BY <1>13, <1>21, <1>22, <4>2
    <3>. QED
      BY <3>1, <3>2
  <2>2. DOMAIN g.map = KeysOf(s)
    BY <1>11, <1>13, <1>17 DEF Mirrors, Contents
  <2>. QED
    BY <1>17, <1>18, <1>19, <2>1, <2>2 DEF Contents
<1>24. Spare(g, a)
  <2>1. g.free = e.free /\ Len(g.nodes) = Len(e.nodes) /\ g.nodes = d.nodes
    BY <1>10, <1>13 DEF Relinked
  <2>2. Places(g.free, Len(g.nodes)) /\ Len(g.nodes) = Len(a) + Len(g.free)
    BY <1>2, <1>7, <1>18, <2>1 DEF Allocated
  <2>3. ASSUME NEW f \in 1..Len(e.free)
        PROVE  g.nodes[e.free[f]] = Blank /\ \A k \in 1..(n + 1) : a[k] # e.free[f]
    <3>1. /\ e.nodes[e.free[f]] = Blank /\ e.free[f] # i /\ e.free[f] \in 1..Len(e.nodes)
          /\ \A k \in 1..n : at[k] # e.free[f]
      BY <1>2, <1>7 DEF Allocated, Places
    <3>2. ASSUME NEW k \in 1..(n + 1) PROVE a[k] # e.free[f]
      <4>1. CASE k = 1
        BY <1>18, <3>1, <4>1
      <4>2. CASE k # 1
        <5>1. PICK h \in 1..n : k = h + 1
          BY <4>2
        <5>. QED
          BY <1>18, <3>1, <5>1
      <4>. QED
        BY <4>1, <4>2
    <3>3. d.nodes[e.free[f]] = e.nodes[e.free[f]]
      BY <1>10, <1>18, <3>1, <3>2 DEF Beside
    <3>. QED
      BY <2>1, <3>1, <3>2, <3>3
  <2>. QED
    BY <1>18, <2>1, <2>2, <2>3 DEF Spare
<1>25. g.cur = SizeOf(s)
  BY <1>13, <1>17 DEF Mirrors
<1>. QED
  BY <1>3, <1>9, <1>12, <1>14, <1>15, <1>16, <1>23, <1>24, <1>25 DEF Mirrors

\* Both sides of an insert before the pages too many go: the new page is first, and
\* what the list held of its key is gone.
Newest(l, key, data) == <<PageOf(key, data)>> \o Without(l, key)
Grown(c, key, data) ==
  IF Resident(c, key) THEN Refreshed(c, c.map[key], data) ELSE AddedAt(c, Place(c), key, data)

LEMMA GrownMirrors ==
  ASSUME NEW c, NEW l, NEW at, Mirrors(c, l, at), NEW key, NEW data, IsSeq(data)
  PROVE  \E a : Mirrors(Grown(c, key, data), Newest(l, key, data), a) /\ Len(a) > 0
<1>1. PageList(l) /\ DOMAIN c.map = KeysOf(l) /\ IsSeq(l)
  BY DEF Mirrors, Contents, PageList, Sized
<1>2. PICK p : p = PageOf(key, data)
  OBVIOUS
<1>3. CASE Resident(c, key)
  <2>1. PICK j : j = PlaceOf(l, key)
    OBVIOUS
  <2>2. Knows(l, key) /\ j \in 1..Len(l) /\ l[j].key = key
    BY <1>1, <1>3, <2>1, PlaceIs DEF Resident
  <2>3. PICK i : i = at[j]
    OBVIOUS
  <2>4. c.map[key] = i
    BY <2>2, <2>3 DEF Mirrors, Contents
  <2>5. PICK d : d = [c EXCEPT !.cur = @ - Len(c.nodes[i].data) + Len(data),
                               !.nodes[i].data = data]
    OBVIOUS
  <2>6. PICK s : s = Swapped(l, j, p)
    OBVIOUS
  <2>7. Mirrors(d, s, at)
    <3>1. Mirrors([c EXCEPT !.cur = @ - Len(c.nodes[at[j]].data) + Len(data),
                            !.nodes[at[j]].data = data],
                  Swapped(l, j, PageOf(l[j].key, data)), at)
      BY <2>2, SwapMirrors
    <3>2. PageOf(l[j].key, data) = p
      BY <1>2, <2>2
    <3>3. Mirrors([c EXCEPT !.cur = @ - Len(c.nodes[i].data) + Len(data),
                            !.nodes[i].data = data],
                  Swapped(l, j, p), at)
      BY <2>3, <3>1, <3>2, Zenon
    <3>. QED
      BY <2>5, <2>6, <3>3
  <2>8. IsSeq(s) /\ Len(s) = Len(l) /\ s[j] = p /\ Cut(s, j) = Cut(l, j)
    BY <1>1, <2>2, <2>6, SwappedIs
  <2>9. Mirrors(MoveToFront(d, i), Moved(s, j), Moved(at, j))
    BY <2>2, <2>3, <2>7, <2>8, MoveMirrors
  <2>10. Grown(c, key, data) = MoveToFront(d, i)
    BY <1>3, <2>4, <2>5 DEF Grown, Refreshed
  <2>11. Newest(l, key, data) = Moved(s, j)
    <3>1. PICK b : b = Cut(l, j)
      OBVIOUS
    <3>2. Without(l, key) = b /\ IsSeq(b)
      BY <1>1, <2>1, <2>2, <3>1, RemoveAtCuts, CutIs DEF Without
    <3>3. <<p>> \o b = Put(b, p)
      BY <3>2, ConsPuts
    <3>. QED
      BY <1>2, <2>8, <3>1, <3>2, <3>3 DEF Newest, Moved
  <2>12. Len(Moved(at, j)) > 0
    <3>1. IsSeq(at) /\ Len(at) = Len(l) /\ Len(l) \in Nat
      BY <1>1 DEF Mirrors, Chain, Places, Contents, IsSeq
    <3>2. j \in 1..Len(at)
      BY <2>2, <3>1
    <3>3. MovedFrom(at, Moved(at, j), j)
      BY <3>1, <3>2, MovedIs
    <3>. QED
      BY <3>1, <3>2, <3>3 DEF MovedFrom
  <2>. QED
    BY <2>9, <2>10, <2>11, <2>12
<1>4. CASE ~Resident(c, key)
  <2>1. key \notin KeysOf(l)
    BY <1>1, <1>4 DEF Resident
  <2>2. PICK i : i = Place(c)
    OBVIOUS
  <2>3. Mirrors(AddedAt(c, i, key, data), Put(l, p), Put(at, i))
    BY <1>2, <1>4, <2>2, AddMirrors
  <2>4. Newest(l, key, data) = Put(l, p)
    <3>1. Without(l, key) = l
      BY <1>1, <2>1, PlaceIs DEF Without
    <3>. QED
      BY <1>1, <1>2, <3>1, ConsPuts DEF Newest
  <2>5. IsSeq(at)
    BY DEF Mirrors, Chain, Places
  <2>6. Len(Put(at, i)) = Len(at) + 1 /\ Len(at) \in Nat
    BY <2>5, PutIs DEF IsSeq
  <2>. QED
    BY <1>4, <2>2, <2>3, <2>4, <2>6 DEF Grown
<1>. QED
  BY <1>3, <1>4

-----------------------------------------------------------------------------
(* Pages too many. *)

\* A list without its last page.
LEMMA CutLast ==
  ASSUME NEW s, IsSeq(s), Len(s) > 0
  PROVE  /\ IsSeq(Cut(s, Len(s))) /\ Len(Cut(s, Len(s))) = Len(s) - 1
         /\ \A k \in 1..(Len(s) - 1) : Cut(s, Len(s))[k] = s[k]
<1>1. PICK n \in Nat : n = Len(s)
  BY DEF IsSeq
<1>2. n \in 1..n /\ \A k \in 1..(n - 1) : k < n
  BY <1>1
<1>3. PICK b : b = Cut(s, n)
  OBVIOUS
<1>4. /\ IsSeq(b) /\ Len(b) = n - 1
      /\ \A k \in 1..(n - 1) : b[k] = IF k < n THEN s[k] ELSE s[k + 1]
  BY <1>1, <1>2, <1>3, CutIs
<1>. QED
  BY <1>1, <1>2, <1>3, <1>4

\* The pages of such a list.
LEMMA CutLastPages ==
  ASSUME NEW l, PageList(l), Len(l) > 0
  PROVE  /\ PageList(Cut(l, Len(l))) /\ KeysOf(Cut(l, Len(l))) = KeysOf(l) \ {l[Len(l)].key}
         /\ SizeOf(l) = SizeOf(Cut(l, Len(l))) + Len(l[Len(l)].data)
<1>1. PICK n \in Nat : n = Len(l)
  BY DEF PageList, Sized, IsSeq
<1>2. PICK s : s = Cut(l, n)
  OBVIOUS
<1>3. n \in 1..n /\ n - 1 \in Nat /\ \A k \in 1..(n - 1) : k \in 1..n /\ k # n
  BY <1>1
<1>4. IsSeq(s) /\ Len(s) = n - 1 /\ \A k \in 1..(n - 1) : s[k] = l[k]
  BY <1>1, <1>2, CutLast DEF PageList, Sized
<1>5. Sized(s) /\ SizeOf(l) = SizeOf(s) + Len(l[n].data)
  BY <1>1, <1>2, <1>3, SizeOfCut DEF PageList
<1>6. PageList(s)
  BY <1>1, <1>3, <1>4, <1>5 DEF PageList
<1>7. KeysOf(s) = KeysOf(l) \ {l[n].key}
  <2>1. ASSUME NEW x \in KeysOf(s) PROVE x \in KeysOf(l) /\ x # l[n].key
    <3>1. PICK k \in 1..(n - 1) : x = s[k].key
      BY <1>4 DEF KeysOf
    <3>2. k \in 1..n /\ k # n /\ x = l[k].key
      BY <1>3, <1>4, <3>1
    <3>3. x # l[n].key
      BY <1>1, <1>3, <3>2 DEF PageList
    <3>. QED
      BY <1>1, <3>2, <3>3 DEF KeysOf
  <2>2. ASSUME NEW x \in KeysOf(l), x # l[n].key PROVE x \in KeysOf(s)
    <3>1. PICK k \in 1..n : x = l[k].key
      BY <1>1 DEF KeysOf
    <3>2. k \in 1..(n - 1)
      BY <1>3, <2>2, <3>1
    <3>. QED
      BY <1>4, <3>1, <3>2 DEF KeysOf
  <2>. QED
    BY <2>1, <2>2
<1>. QED
  BY <1>1, <1>2, <1>5, <1>6, <1>7

\* evict_tail: the last page is gone from the list, the map and the account, and its
\* node is free.
LEMMA EvictMirrors ==
  ASSUME NEW c, NEW l, NEW at, Mirrors(c, l, at), Len(l) > 0
  PROVE  Mirrors(EvictTail(c), Cut(l, Len(l)), Cut(at, Len(at)))
<1>1. PICK n \in Nat : n = Len(l)
  BY DEF Mirrors, Contents, PageList, Sized, IsSeq
<1>2. PICK m \in Nat : m = Len(c.nodes)
  BY DEF Mirrors, Chain, Shape, IsSeq
<1>3. /\ Len(at) = n /\ IsSeq(at) /\ IsSeq(l) /\ PageList(l) /\ n \in 1..n /\ n - 1 \in Nat
      /\ \A k \in 1..n : at[k] \in 1..m
      /\ \A k, f \in 1..n : at[k] = at[f] => k = f
      /\ \A k \in 1..(n - 1) : k \in 1..n /\ k # n
  <2>1. Len(at) = n /\ PageList(l) /\ Places(at, m)
    BY <1>1, <1>2 DEF Mirrors, Contents, Chain
  <2>2. n \in 1..n /\ n - 1 \in Nat /\ \A k \in 1..(n - 1) : k \in 1..n /\ k # n
    BY <1>1
  <2>3. IsSeq(l)
    BY <2>1 DEF PageList, Sized
  <2>. QED
    BY <2>1, <2>2, <2>3 DEF Places
<1>4. PICK i : i = at[n]
  OBVIOUS
<1>5. PICK key : key = l[n].key
  OBVIOUS
<1>6. i \in 1..m /\ c.tail = i /\ c.nodes[i].key = key /\ c.nodes[i].data = l[n].data
  BY <1>1, <1>3, <1>4, <1>5 DEF Mirrors, Contents, Chain
<1>7. PICK a : a = Cut(at, n)
  OBVIOUS
<1>8. IsSeq(a) /\ Len(a) = n - 1 /\ \A k \in 1..(n - 1) : a[k] = at[k]
  BY <1>1, <1>3, <1>7, CutLast
<1>9. PICK s : s = Cut(l, n)
  OBVIOUS
<1>10. IsSeq(s) /\ Len(s) = n - 1 /\ \A k \in 1..(n - 1) : s[k] = l[k]
  BY <1>1, <1>3, <1>9, CutLast
<1>11. /\ PageList(s) /\ KeysOf(s) = KeysOf(l) \ {key}
       /\ SizeOf(l) = SizeOf(s) + Len(l[n].data)
  BY <1>1, <1>3, <1>5, <1>9, CutLastPages
<1>12. PICK d : d = Unlink(c, i)
  OBVIOUS
<1>13. Chain(d, a) /\ Relinked(c, d) /\ Beside(c, d, at)
  BY <1>3, <1>4, <1>7, <1>12, UnlinkCuts DEF Mirrors
<1>14. PICK ns : ns = [d.nodes EXCEPT ![i] = Blank]
  OBVIOUS
<1>15. IsSeq(ns) /\ Len(ns) = m /\ \A k \in 1..m : ns[k] = IF k = i THEN Blank ELSE d.nodes[k]
  <2>1. IsSeq(d.nodes) /\ Len(d.nodes) = m
    BY <1>2, <1>13 DEF Chain, Shape, Relinked
  <2>2. DOMAIN d.nodes = 1..m
    BY <2>1 DEF IsSeq
  <2>3. ns = [k \in 1..m |-> IF k = i THEN Blank ELSE d.nodes[k]]
    BY <1>6, <1>14, <2>2
  <2>. QED
    BY <2>3 DEF IsSeq
<1>16. PICK fr : fr = Append(c.free, i)
  OBVIOUS
<1>17. PICK g \in Nat : g = Len(c.free)
  BY DEF Mirrors, Spare, Places, IsSeq
<1>18. IsSeq(fr) /\ Len(fr) = g + 1 /\ fr[g + 1] = i /\ \A f \in 1..g : fr[f] = c.free[f]
  <2>. DEFINE R == {c.free[k] : k \in 1..g} \cup {i}
  <2>1. c.free \in Seq(R) /\ i \in R
    BY <1>17 DEF Mirrors, Spare, Places, IsSeq
  <2>. HIDE DEF R
  <2>2. PICK z \in Seq(R) : z = fr
    BY SMTT(40), <1>16, <2>1
  <2>3. IsSeq(z)
    BY DEF IsSeq
  <2>. QED
    BY <1>16, <1>17, <2>1, <2>2, <2>3
<1>19. PICK mp : mp = [k \in DOMAIN c.map \ {key} |-> c.map[k]]
  OBVIOUS
<1>20. PICK cur : cur = c.cur - Len(l[n].data)
  OBVIOUS
<1>21. PICK e : e = EvictTail(c)
  OBVIOUS
<1>22. e = [map |-> mp, nodes |-> ns, free |-> fr, head |-> d.head,
            tail |-> d.tail, cur |-> cur]
  <2>1. d.map = c.map /\ d.free = c.free /\ d.cur = c.cur /\ Shape(d)
    BY <1>13 DEF Relinked, Chain
  <2>2. e = [d EXCEPT !.cur = @ - Len(c.nodes[i].data),
                      !.map = [k \in DOMAIN @ \ {key} |-> @[k]],
                      !.nodes[i] = Blank,
                      !.free = Append(@, i)]
    BY <1>6, <1>12, <1>21 DEF EvictTail
  <2>3. e = [[[[d EXCEPT !.cur = cur] EXCEPT !.map = mp] EXCEPT !.nodes = ns] EXCEPT !.free = fr]
    BY <1>6, <1>14, <1>16, <1>19, <1>20, <2>1, <2>2 DEF Shape
  <2>. QED
    BY <2>1, <2>3 DEF Shape
<1>23. Shape(e)
  <2>1. NodeShape(Blank)
    BY DEF Blank, NodeShape
  <2>2. \A k \in 1..m : NodeShape(d.nodes[k])
    BY <1>2, <1>13 DEF Chain, Shape, Relinked
  <2>3. \A k \in 1..m : NodeShape(ns[k])
    BY <1>15, <2>1, <2>2
  <2>. QED
    BY <1>15, <1>22, <2>3 DEF Shape
<1>24. \A k \in 1..(n - 1) : a[k] = at[k] /\ a[k] \in 1..m /\ a[k] # i /\ ns[a[k]] = d.nodes[a[k]]
  BY <1>3, <1>4, <1>8, <1>15
<1>25. Chain(e, a)
  <2>1. Places(a, Len(e.nodes))
    BY <1>2, <1>13, <1>15, <1>22 DEF Chain, Relinked
  <2>2. e.head = d.head /\ e.tail = d.tail
    BY <1>22
  <2>3. \A k \in 1..(n - 1) : e.nodes[a[k]] = d.nodes[a[k]]
    BY <1>22, <1>24
  <2>. QED
    BY SMTT(40), <1>8, <1>13, <1>23, <2>1, <2>2, <2>3 DEF Chain
<1>26. Contents(e, s, a)
  <2>1. ASSUME NEW k \in 1..(n - 1)
        PROVE  /\ e.nodes[a[k]].key = s[k].key /\ e.nodes[a[k]].data = s[k].data
               /\ e.map[s[k].key] = a[k]
    <3>1. k \in 1..n /\ a[k] = at[k] /\ s[k] = l[k] /\ at[k] \in 1..m
      BY <1>3, <1>8, <1>10
    <3>2. /\ c.nodes[at[k]].key = l[k].key /\ c.nodes[at[k]].data = l[k].data
          /\ c.map[l[k].key] = at[k]
      BY <1>1, <3>1 DEF Mirrors, Contents
    <3>3. e.nodes[at[k]].key = l[k].key /\ e.nodes[at[k]].data = l[k].data
      BY SMTT(40), <1>2, <1>13, <1>22, <1>24, <3>1, <3>2 DEF Relinked
    <3>4. l[k].key \in DOMAIN c.map /\ l[k].key # key
      BY <1>1, <1>3, <1>5, <3>1 DEF Mirrors, Contents, PageList, KeysOf
    <3>5. e.map[l[k].key] = at[k]
      BY <1>19, <1>22, <3>2, <3>4
    <3>. QED
      BY <3>1, <3>3, <3>5
  <2>2. DOMAIN e.map = KeysOf(s)
    BY <1>11, <1>19, <1>22 DEF Mirrors, Contents
  <2>. QED
    BY <1>8, <1>10, <1>11, <2>1, <2>2 DEF Contents
<1>27. Spare(e, a)
  <2>1. e.free = fr /\ e.nodes = ns
    BY <1>22
  <2>2. /\ \A f \in 1..g : c.free[f] \in 1..m /\ c.free[f] # i /\ c.nodes[c.free[f]] = Blank
        /\ \A f \in 1..g : \A k \in 1..n : at[k] # c.free[f]
        /\ \A f, h \in 1..g : c.free[f] = c.free[h] => f = h
        /\ m = n + g
    BY <1>2, <1>3, <1>4, <1>17 DEF Mirrors, Spare, Places
  <2>3. ASSUME NEW f \in 1..(g + 1)
        PROVE  \/ f = g + 1 /\ fr[f] = i
               \/ f \in 1..g /\ fr[f] = c.free[f] /\ fr[f] # i
    <3>1. f = g + 1 \/ f \in 1..g
      OBVIOUS
    <3>. QED
      BY <1>18, <2>2, <3>1
  <2>4. Places(fr, m)
    BY <1>6, <1>18, <2>2, <2>3 DEF Places
  <2>5. Len(ns) = Len(a) + Len(fr)
    BY <1>8, <1>15, <1>18, <2>2
  <2>6. ASSUME NEW f \in 1..(g + 1)
        PROVE  ns[fr[f]] = Blank /\ \A k \in 1..(n - 1) : a[k] # fr[f]
    <3>1. CASE f = g + 1 /\ fr[f] = i
      BY <1>6, <1>15, <1>24, <3>1
    <3>2. CASE f \in 1..g /\ fr[f] = c.free[f] /\ fr[f] # i
      <4>1. d.nodes[c.free[f]] = Blank
        BY <1>2, <1>3, <1>13, <2>2, <3>2 DEF Beside
      <4>2. ns[fr[f]] = Blank
        BY <1>15, <2>2, <3>2, <4>1
      <4>. QED
        BY <1>3, <1>24, <2>2, <3>2, <4>2
    <3>. QED
      BY <2>3, <3>1, <3>2
  <2>. QED
    BY <1>8, <1>15, <1>18, <2>1, <2>4, <2>5, <2>6 DEF Spare
<1>28. e.cur = SizeOf(s)
  <2>1. SizeOf(s) \in Nat /\ Len(l[n].data) \in Nat
    <3>1. Sized(s) /\ Sized(l) /\ Len(s) \in 0..Len(s)
      BY <1>3, <1>10, <1>11 DEF PageList
    <3>2. SizeOf(s) \in Nat
      BY <3>1, SizeToNat DEF SizeOf
    <3>. QED
      BY <1>1, <1>3, <3>1, <3>2 DEF Sized
  <2>2. c.cur = SizeOf(l)
    BY DEF Mirrors
  <2>. QED
    BY <1>11, <1>20, <1>22, <2>1, <2>2
<1>. QED
  BY <1>1, <1>3, <1>7, <1>9, <1>21, <1>25, <1>26, <1>27, <1>28 DEF Mirrors

\* The first m pages.
Leading(l, m) == [k \in 1..m |-> l[k]]

\* What they are.
LEMMA FrontIs ==
  ASSUME NEW l, Sized(l), NEW m \in 0..Len(l)
  PROVE  /\ Sized(Leading(l, m)) /\ Len(Leading(l, m)) = m /\ SizeOf(Leading(l, m)) = SizeTo(l, m)
         /\ m > 0 => Cut(Leading(l, m), m) = Leading(l, m - 1)
         /\ m = Len(l) => Leading(l, m) = l
         /\ SubSeq(l, 1, m) = Leading(l, m)
<1>1. PICK n \in Nat : n = Len(l)
  BY DEF Sized, IsSeq
<1>2. PICK s : s = Leading(l, m)
  OBVIOUS
<1>3. m \in Nat /\ m <= n /\ s = [k \in 1..m |-> l[k]] /\ IsSeq(l)
  BY <1>1, <1>2 DEF Leading, Sized
<1>4. IsSeq(s) /\ Len(s) = m /\ \A k \in 1..m : s[k] = l[k] /\ k \in 1..n
  BY <1>3 DEF IsSeq
<1>5. Sized(s)
  BY <1>1, <1>4 DEF Sized
<1>6. SizeOf(s) = SizeTo(l, m)
  <2>1. m \in 0..Len(s) /\ m <= Len(l) /\ \A k \in 1..m : l[k].data = s[k].data
    BY <1>1, <1>3, <1>4
  <2>2. SizeTo(l, m) = SizeTo(s, m)
    BY <1>5, <2>1, SizeToSame
  <2>. QED
    BY <1>4, <2>2 DEF SizeOf
<1>7. ASSUME m > 0 PROVE Cut(s, m) = Leading(l, m - 1)
  <2>1. PICK b : b = Cut(s, m)
    OBVIOUS
  <2>2. IsSeq(b) /\ Len(b) = m - 1 /\ \A k \in 1..(m - 1) : b[k] = s[k]
    BY <1>4, <1>7, <2>1, CutLast
  <2>3. b = [k \in 1..(m - 1) |-> l[k]]
    <3>1. \A k \in 1..(m - 1) : k \in 1..m
      BY <1>3
    <3>3. \A k \in 1..(m - 1) : b[k] = l[k]
      BY <1>4, <2>2, <3>1
    <3>2. b = [k \in 1..(m - 1) |-> b[k]]
      BY <2>2 DEF IsSeq
    <3>. QED
      BY <3>2, <3>3
  <2>. QED
    BY <2>1, <2>3 DEF Leading
<1>8. m = n => s = l
  BY <1>1, <1>3, <1>4, SeqSame
<1>9. SubSeq(l, 1, m) = s
  <2>1. PICK x : x = SubSeq(l, 1, m)
    OBVIOUS
  <2>2. 1 + m - 1 = m /\ \A k \in 1..m : 1 + k - 1 = k
    BY <1>3
  <2>3. PartOf(l, 1, m, x)
    BY <1>1, <1>3, <2>1, <2>2, PartIs
  <2>4. IsSeq(x) /\ Len(x) = m /\ \A k \in 1..m : x[k] = l[k]
    BY <2>2, <2>3 DEF PartOf
  <2>5. x = s
    BY <1>4, <2>4, SeqSame
  <2>. QED
    BY <2>1, <2>5
<1>. QED
  BY <1>1, <1>2, <1>4, <1>5, <1>6, <1>7, <1>8, <1>9

\* The map has as many keys as the list has pages.
LEMMA KeysCounted ==
  ASSUME NEW l, PageList(l)
  PROVE  IsFiniteSet(KeysOf(l)) /\ Cardinality(KeysOf(l)) = Len(l)
<1>1. PICK n \in Nat : n = Len(l)
  BY DEF PageList, Sized, IsSeq
<1>. DEFINE D == 1..n
            R == KeysOf(l)
            f == [k \in D |-> l[k].key]
<1>2. IsFiniteSet(D) /\ Cardinality(D) = n
  <2>1. PICK a \in Int : a = 1
    OBVIOUS
  <2>2. n \in Int
    OBVIOUS
  <2>3. IsFiniteSet(a..n) /\ Cardinality(a..n) = IF a > n THEN 0 ELSE n - a + 1
    BY <2>2, FS_Interval
  <2>. QED
    BY <2>1, <2>3
<1>3. f \in Bijection(D, R)
  <2>1. f \in [D -> R]
    BY <1>1 DEF KeysOf
  <2>2. \A x \in R : \E k \in D : f[k] = x
    BY <1>1 DEF KeysOf
  <2>3. \A j, k \in D : f[j] = f[k] => j = k
    BY <1>1 DEF PageList
  <2>. QED
    BY <2>1, <2>2, <2>3 DEF Bijection, Injection, Surjection, IsInjective
<1>. HIDE DEF D, R, f
<1>4. ExistsBijection(D, R)
  BY <1>3 DEF ExistsBijection
<1>5. IsFiniteSet(R) /\ Cardinality(D) = Cardinality(R)
  BY <1>2, <1>4, FS_Bijection
<1>. QED
  BY <1>1, <1>2, <1>5 DEF R

\* The limit is a number.
LEMMA LimitNat == MaxBytes \in Nat
BY CacheAssumption DEF MaxBytes

\* The caches after each step of the eviction.
EvictsTo(c, f, n) == f = [k \in 0..n |-> IF k = 0 THEN c ELSE Evicted(f[k - 1])]

\* There are such caches up to every step.
LEMMA EvictsExist ==
  ASSUME NEW c, NEW m \in Nat PROVE \E f : EvictsTo(c, f, m)
<1>. DEFINE T == {n \in 0..m : \E f : EvictsTo(c, f, n)}
<1>1. 0 \in T
  <2>1. PICK f : f = [k \in 0..0 |-> c]
    OBVIOUS
  <2>2. EvictsTo(c, f, 0)
    BY <2>1 DEF EvictsTo
  <2>. QED
    BY <2>2
<1>2. ASSUME NEW n \in 1..m, n - 1 \in T PROVE n \in T
  <2>1. PICK f : EvictsTo(c, f, n - 1)
    BY <1>2
  <2>2. PICK g : g = [k \in 0..n |-> IF k = n THEN Evicted(f[n - 1]) ELSE f[k]]
    OBVIOUS
  <2>3. n \in Nat /\ n # 0
    OBVIOUS
  <2>4. \A k \in 0..(n - 1) : f[k] = IF k = 0 THEN c ELSE Evicted(f[k - 1])
    BY <2>1 DEF EvictsTo
  <2>5. \A k \in 0..n : g[k] = IF k = n THEN Evicted(f[n - 1]) ELSE f[k]
    BY <2>2
  <2>6. ASSUME NEW k \in 0..n PROVE g[k] = IF k = 0 THEN c ELSE Evicted(g[k - 1])
    <3>1. k # 0 => k - 1 \in 0..n /\ k - 1 # n /\ g[k - 1] = f[k - 1]
      BY <2>3, <2>5
    <3>2. CASE k = n
      BY <2>3, <2>5, <3>1, <3>2
    <3>3. CASE k # n
      <4>1. k \in 0..(n - 1)
        BY <2>3, <3>3
      <4>. QED
        BY <2>4, <2>5, <3>1, <3>3, <4>1
    <3>. QED
      BY <3>2, <3>3
  <2>7. g = [k \in 0..n |-> g[k]]
    BY <2>2
  <2>8. EvictsTo(c, g, n)
    BY <2>6, <2>7 DEF EvictsTo
  <2>. QED
    BY <2>3, <2>8
<1>3. m \in T
  <2>. HIDE DEF T
  <2>1. \A k \in 0..m : k \in T
    BY <1>1, <1>2, CountUp
  <2>. QED
    BY <2>1
<1>. QED
  BY <1>3

\* evict_to_fit goes on from cache to cache.
LEMMA EvictToFitGoes ==
  ASSUME NEW c, Len(c.nodes) \in Nat
  PROVE  \E f : /\ f[0] = c /\ EvictToFit(c) = f[Len(c.nodes)]
                /\ \A k \in 1..Len(c.nodes) : f[k] = Evicted(f[k - 1])
<1>. DEFINE f == CHOOSE g : g = [n \in 0..Len(c.nodes) |->
                                   IF n = 0 THEN c ELSE Evicted(g[n - 1])]
<1>1. EvictsTo(c, f, Len(c.nodes))
  BY EvictsExist, ZenonT(40) DEF EvictsTo
<1>2. EvictToFit(c) = f[Len(c.nodes)]
  BY Zenon DEF EvictToFit
<1>. HIDE DEF f
<1>3. \A k \in 0..Len(c.nodes) : f[k] = IF k = 0 THEN c ELSE Evicted(f[k - 1])
  BY <1>1 DEF EvictsTo
<1>4. f[0] = c /\ \A k \in 1..Len(c.nodes) : f[k] = Evicted(f[k - 1])
  BY <1>3
<1>. QED
  BY <1>2, <1>4

\* How far the eviction has come after k steps: the cache holds the first pages of the
\* list, no longer part fits, and either this one does or a page went at each step.
EvictedTo(e, l, k) ==
  \E m \in 1..Len(l) :
    /\ \E a : Mirrors(e, Leading(l, m), a)
    /\ \A q \in (m + 1)..Len(l) : ~Fits(l, q)
    /\ Fits(l, m) \/ m <= Len(l) - k

LEMMA EvictedGoesOn ==
  ASSUME NEW l, PageList(l), NEW e, NEW k \in Nat, EvictedTo(e, l, k)
  PROVE  EvictedTo(Evicted(e), l, k + 1)
<1>1. PICK n \in Nat : n = Len(l)
  BY DEF PageList, Sized, IsSeq
<1>2. PICK m \in 1..n : /\ \E a : Mirrors(e, Leading(l, m), a)
                        /\ \A q \in (m + 1)..n : ~Fits(l, q)
                        /\ Fits(l, m) \/ m <= n - k
  BY <1>1 DEF EvictedTo
<1>3. PICK a : Mirrors(e, Leading(l, m), a)
  BY <1>2
<1>4. PICK s : s = Leading(l, m)
  OBVIOUS
<1>5. m \in Nat /\ m > 0 /\ m \in 0..Len(l) /\ m - 1 \in 0..Len(l)
  BY <1>1
<1>6. /\ Sized(s) /\ Len(s) = m /\ SizeOf(s) = SizeTo(l, m)
      /\ m > 0 => Cut(s, m) = Leading(l, m - 1)
  BY <1>4, <1>5, FrontIs DEF PageList
<1>7. PageList(s) /\ DOMAIN e.map = KeysOf(s) /\ e.cur = SizeOf(s)
  BY <1>3, <1>4 DEF Mirrors, Contents
<1>8. Cardinality(DOMAIN e.map) = m
  BY <1>6, <1>7, KeysCounted
<1>9. SizeTo(l, m) \in Nat /\ MaxBytes \in Nat
  BY <1>5, SizeToNat, LimitNat DEF PageList
<1>10. e.cur > MaxBytes /\ m > 1 <=> ~Fits(l, m)
  BY <1>5, <1>6, <1>7, <1>9 DEF Fits
<1>11. CASE Fits(l, m)
  <2>1. Evicted(e) = e
    BY <1>8, <1>10, <1>11 DEF Evicted
  <2>. QED
    BY <1>1, <1>2, <1>11, <2>1 DEF EvictedTo
<1>12. CASE ~Fits(l, m)
  <2>1. Evicted(e) = EvictTail(e) /\ m > 1
    BY <1>8, <1>10, <1>12 DEF Evicted
  <2>2. PICK g : g = EvictTail(e)
    OBVIOUS
  <2>3. Mirrors(g, Cut(s, m), Cut(a, Len(a)))
    BY <1>3, <1>4, <1>5, <1>6, <2>2, EvictMirrors
  <2>4. PICK h \in 1..n : h = m - 1
    BY <1>5, <2>1
  <2>5. Mirrors(g, Leading(l, h), Cut(a, Len(a)))
    BY <1>5, <1>6, <2>3, <2>4
  <2>6. ASSUME NEW q \in (h + 1)..n PROVE ~Fits(l, q)
    <3>1. q = m \/ q \in (m + 1)..n
      BY <1>5, <2>4
    <3>. QED
      BY <1>2, <1>12, <3>1
  <2>7. h <= n - (k + 1)
    BY <1>2, <1>5, <1>12, <2>4
  <2>8. EvictedTo(g, l, k + 1)
    BY <1>1, <2>5, <2>6, <2>7 DEF EvictedTo
  <2>. QED
    BY <2>1, <2>2, <2>8
<1>. QED
  BY <1>11, <1>12

\* The reference keeps the longest part that fits.
LEMMA FittingIs ==
  ASSUME NEW l, PageList(l), NEW m \in 1..Len(l), Fits(l, m),
         \A q \in (m + 1)..Len(l) : ~Fits(l, q)
  PROVE  Fitting(l) = Leading(l, m)
<1>1. PICK n \in Nat : n = Len(l)
  BY DEF PageList, Sized, IsSeq
<1>. DEFINE fits == {q \in 1..Len(l) : Fits(l, q)}
            g == CHOOSE q \in fits : \A f \in fits : f <= q
<1>2. m \in fits /\ \A f \in fits : f <= m
  <2>1. ASSUME NEW f \in fits PROVE f <= m
    <3>1. ~(f \in (m + 1)..n)
      BY <1>1
    <3>. QED
      BY <1>1, <3>1
  <2>. QED
    BY <2>1
<1>3. g \in fits /\ \A f \in fits : f <= g
  <2>. HIDE DEF fits
  <2>. QED
    BY <1>2
<1>4. g = m
  <2>1. g \in 1..n /\ m \in 1..n
    BY <1>1, <1>3
  <2>2. g <= m /\ m <= g
    BY <1>2, <1>3
  <2>. HIDE DEF g
  <2>. QED
    BY <2>1, <2>2
<1>5. Fitting(l) = SubSeq(l, 1, g)
  BY Zenon DEF Fitting
<1>6. m \in 0..Len(l)
  BY <1>1
<1>. QED
  BY <1>4, <1>5, <1>6, FrontIs DEF PageList

\* evict_to_fit and the reference stop at the same page.
LEMMA EvictToFitMirrors ==
  ASSUME NEW c, NEW l, NEW at, Mirrors(c, l, at), Len(l) > 0
  PROVE  \E a : Mirrors(EvictToFit(c), Fitting(l), a)
<1>1. PICK n \in Nat : n = Len(l)
  BY DEF Mirrors, Contents, PageList, Sized, IsSeq
<1>2. PageList(l) /\ Sized(l) /\ n > 0 /\ n \in 1..n /\ n \in 0..Len(l)
  BY <1>1 DEF Mirrors, Contents, PageList
<1>3. PICK m \in Nat : m = Len(c.nodes)
  BY DEF Mirrors, Chain, Shape, IsSeq
<1>4. n <= m
  <2>1. Len(c.free) \in Nat /\ Len(c.nodes) = Len(l) + Len(c.free)
    BY DEF Mirrors, Contents, Spare, Places, IsSeq
  <2>. QED
    BY <1>1, <1>3, <2>1
<1>5. PICK f : f[0] = c /\ EvictToFit(c) = f[m] /\ \A k \in 1..m : f[k] = Evicted(f[k - 1])
  BY <1>3, EvictToFitGoes
<1>. DEFINE T == {k \in 0..m : EvictedTo(f[k], l, k)}
<1>6. 0 \in T
  <2>1. Leading(l, n) = l
    BY <1>1, <1>2, FrontIs
  <2>2. \A q \in (n + 1)..n : ~Fits(l, q)
    OBVIOUS
  <2>3. EvictedTo(c, l, 0)
    BY <1>1, <1>2, <2>1, <2>2 DEF EvictedTo
  <2>. QED
    BY <1>5, <2>3
<1>7. ASSUME NEW k \in 1..m, k - 1 \in T PROVE k \in T
  <2>1. PICK j \in Nat : j = k - 1 /\ j + 1 = k
    OBVIOUS
  <2>2. EvictedTo(f[j], l, j)
    BY <1>7, <2>1
  <2>3. EvictedTo(Evicted(f[j]), l, j + 1)
    BY <1>2, <2>2, EvictedGoesOn
  <2>. QED
    BY <1>5, <2>1, <2>3
<1>8. m \in T
  <2>. HIDE DEF T
  <2>1. \A k \in 0..m : k \in T
    BY <1>6, <1>7, CountUp
  <2>. QED
    BY <2>1
<1>9. PICK h \in 1..n : /\ \E a : Mirrors(f[m], Leading(l, h), a)
                        /\ \A q \in (h + 1)..n : ~Fits(l, q)
                        /\ Fits(l, h) \/ h <= n - m
  BY <1>1, <1>8 DEF EvictedTo
<1>10. Fits(l, h)
  BY <1>4, <1>9
<1>11. Fitting(l) = Leading(l, h)
  BY <1>1, <1>2, <1>9, <1>10, FittingIs
<1>. QED
  BY <1>5, <1>9, <1>11

-----------------------------------------------------------------------------
(* The operations. *)

\* insert: the cache mirrors what the reference adds.
LEMMA InsertMirrors ==
  ASSUME NEW c, NEW l, NEW at, Mirrors(c, l, at), NEW key, NEW data, IsSeq(data)
  PROVE  \E a : Mirrors(Insert(c, key, data), Added(l, key, data), a)
<1>1. PICK d : d = Grown(c, key, data)
  OBVIOUS
<1>2. PICK s : s = Newest(l, key, data)
  OBVIOUS
<1>3. PICK a : Mirrors(d, s, a) /\ Len(a) > 0
  BY <1>1, <1>2, GrownMirrors
<1>4. Len(s) > 0
  BY <1>3 DEF Mirrors, Contents
<1>5. \E b : Mirrors(EvictToFit(d), Fitting(s), b)
  BY <1>3, <1>4, EvictToFitMirrors
<1>6. Insert(c, key, data) = EvictToFit(d)
  BY <1>1 DEF Insert, Grown
<1>7. Added(l, key, data) = Fitting(s)
  BY <1>2 DEF Added, Newest, PageOf
<1>. QED
  BY <1>5, <1>6, <1>7

\* The caches after each page of a run.
InsertsTo(c, pages, f, n) ==
  f = [k \in 0..n |-> IF k = 0 THEN c
                      ELSE Insert(f[k - 1], pages[k].key, pages[k].data)]

\* There are such caches up to every page.
LEMMA InsertsExist ==
  ASSUME NEW c, NEW pages, Len(pages) \in Nat PROVE \E f : InsertsTo(c, pages, f, Len(pages))
<1>1. PICK m \in Nat : m = Len(pages)
  OBVIOUS
<1>. DEFINE T == {n \in 0..m : \E f : InsertsTo(c, pages, f, n)}
<1>2. 0 \in T
  <2>1. PICK f : f = [k \in 0..0 |-> c]
    OBVIOUS
  <2>2. InsertsTo(c, pages, f, 0)
    BY <2>1 DEF InsertsTo
  <2>. QED
    BY <2>2
<1>3. ASSUME NEW n \in 1..m, n - 1 \in T PROVE n \in T
  <2>1. PICK f : InsertsTo(c, pages, f, n - 1)
    BY <1>3
  <2>2. PICK x : x = Insert(f[n - 1], pages[n].key, pages[n].data)
    OBVIOUS
  <2>3. PICK g : g = [k \in 0..n |-> IF k = n THEN x ELSE f[k]]
    OBVIOUS
  <2>4. n \in Nat /\ n # 0
    OBVIOUS
  <2>5. \A k \in 0..(n - 1) : f[k] = IF k = 0 THEN c
                                     ELSE Insert(f[k - 1], pages[k].key, pages[k].data)
    BY <2>1 DEF InsertsTo
  <2>6. \A k \in 0..n : g[k] = IF k = n THEN x ELSE f[k]
    BY <2>3
  <2>7. ASSUME NEW k \in 0..n
        PROVE  g[k] = IF k = 0 THEN c ELSE Insert(g[k - 1], pages[k].key, pages[k].data)
    <3>1. k # 0 => k - 1 \in 0..n /\ k - 1 # n /\ g[k - 1] = f[k - 1]
      BY <2>4, <2>6
    <3>2. CASE k = n
      BY <2>2, <2>4, <2>6, <3>1, <3>2
    <3>3. CASE k # n
      <4>1. k \in 0..(n - 1)
        BY <2>4, <3>3
      <4>. QED
        BY <2>5, <2>6, <3>1, <3>3, <4>1
    <3>. QED
      BY <3>2, <3>3
  <2>8. g = [k \in 0..n |-> g[k]]
    BY <2>3
  <2>9. InsertsTo(c, pages, g, n)
    BY <2>7, <2>8 DEF InsertsTo
  <2>. QED
    BY <2>4, <2>9
<1>4. m \in T
  <2>. HIDE DEF T
  <2>1. \A k \in 0..m : k \in T
    BY <1>2, <1>3, CountUp
  <2>. QED
    BY <2>1
<1>. QED
  BY <1>1, <1>4

\* InsertRun goes from page to page.
LEMMA InsertRunGoes ==
  ASSUME NEW c, NEW pages, Len(pages) \in Nat
  PROVE  \E f : /\ f[0] = c /\ InsertRun(c, pages) = f[Len(pages)]
                /\ \A k \in 1..Len(pages) :
                     f[k] = Insert(f[k - 1], pages[k].key, pages[k].data)
<1>. DEFINE f == CHOOSE g : g = [n \in 0..Len(pages) |->
                                   IF n = 0 THEN c
                                   ELSE Insert(g[n - 1], pages[n].key, pages[n].data)]
<1>1. InsertsTo(c, pages, f, Len(pages))
  <2>1. \E g : InsertsTo(c, pages, g, Len(pages))
    BY InsertsExist
  <2>2. \E g : g = [n \in 0..Len(pages) |->
                      IF n = 0 THEN c ELSE Insert(g[n - 1], pages[n].key, pages[n].data)]
    BY <2>1, Zenon DEF InsertsTo
  <2>3. f = [n \in 0..Len(pages) |->
               IF n = 0 THEN c ELSE Insert(f[n - 1], pages[n].key, pages[n].data)]
    BY <2>2, Zenon
  <2>. QED
    BY <2>3, Zenon DEF InsertsTo
<1>2. InsertRun(c, pages) = f[Len(pages)]
  BY Zenon DEF InsertRun
<1>. HIDE DEF f
<1>3. \A k \in 0..Len(pages) : f[k] = IF k = 0 THEN c
                                      ELSE Insert(f[k - 1], pages[k].key, pages[k].data)
  BY <1>1 DEF InsertsTo
<1>4. f[0] = c /\ \A k \in 1..Len(pages) : f[k] = Insert(f[k - 1], pages[k].key, pages[k].data)
  BY <1>3
<1>. QED
  BY <1>2, <1>4

\* The lists after each page of a run.
AddsTo(l, pages, f, n) ==
  f = [k \in 0..n |-> IF k = 0 THEN l
                      ELSE Added(f[k - 1], pages[k].key, pages[k].data)]

\* There are such lists up to every page.
LEMMA AddsExist ==
  ASSUME NEW l, NEW pages, Len(pages) \in Nat PROVE \E f : AddsTo(l, pages, f, Len(pages))
<1>1. PICK m \in Nat : m = Len(pages)
  OBVIOUS
<1>. DEFINE T == {n \in 0..m : \E f : AddsTo(l, pages, f, n)}
<1>2. 0 \in T
  <2>1. PICK f : f = [k \in 0..0 |-> l]
    OBVIOUS
  <2>2. AddsTo(l, pages, f, 0)
    BY <2>1 DEF AddsTo
  <2>. QED
    BY <2>2
<1>3. ASSUME NEW n \in 1..m, n - 1 \in T PROVE n \in T
  <2>1. PICK f : AddsTo(l, pages, f, n - 1)
    BY <1>3
  <2>2. PICK x : x = Added(f[n - 1], pages[n].key, pages[n].data)
    OBVIOUS
  <2>3. PICK g : g = [k \in 0..n |-> IF k = n THEN x ELSE f[k]]
    OBVIOUS
  <2>4. n \in Nat /\ n # 0
    OBVIOUS
  <2>5. \A k \in 0..(n - 1) : f[k] = IF k = 0 THEN l
                                     ELSE Added(f[k - 1], pages[k].key, pages[k].data)
    BY <2>1 DEF AddsTo
  <2>6. \A k \in 0..n : g[k] = IF k = n THEN x ELSE f[k]
    BY <2>3
  <2>7. ASSUME NEW k \in 0..n
        PROVE  g[k] = IF k = 0 THEN l ELSE Added(g[k - 1], pages[k].key, pages[k].data)
    <3>1. k # 0 => k - 1 \in 0..n /\ k - 1 # n /\ g[k - 1] = f[k - 1]
      BY <2>4, <2>6
    <3>2. CASE k = n
      BY <2>2, <2>4, <2>6, <3>1, <3>2
    <3>3. CASE k # n
      <4>1. k \in 0..(n - 1)
        BY <2>4, <3>3
      <4>. QED
        BY <2>5, <2>6, <3>1, <3>3, <4>1
    <3>. QED
      BY <3>2, <3>3
  <2>8. g = [k \in 0..n |-> g[k]]
    BY <2>3
  <2>9. AddsTo(l, pages, g, n)
    BY <2>7, <2>8 DEF AddsTo
  <2>. QED
    BY <2>4, <2>9
<1>4. m \in T
  <2>. HIDE DEF T
  <2>1. \A k \in 0..m : k \in T
    BY <1>2, <1>3, CountUp
  <2>. QED
    BY <2>1
<1>. QED
  BY <1>1, <1>4

\* AddedRun goes from page to page.
LEMMA AddedRunGoes ==
  ASSUME NEW l, NEW pages, Len(pages) \in Nat
  PROVE  \E f : /\ f[0] = l /\ AddedRun(l, pages) = f[Len(pages)]
                /\ \A k \in 1..Len(pages) :
                     f[k] = Added(f[k - 1], pages[k].key, pages[k].data)
<1>. DEFINE f == CHOOSE g : g = [n \in 0..Len(pages) |->
                                   IF n = 0 THEN l
                                   ELSE Added(g[n - 1], pages[n].key, pages[n].data)]
<1>1. AddsTo(l, pages, f, Len(pages))
  <2>1. \E g : AddsTo(l, pages, g, Len(pages))
    BY AddsExist
  <2>2. \E g : g = [n \in 0..Len(pages) |->
                      IF n = 0 THEN l ELSE Added(g[n - 1], pages[n].key, pages[n].data)]
    BY <2>1, Zenon DEF AddsTo
  <2>3. f = [n \in 0..Len(pages) |->
               IF n = 0 THEN l ELSE Added(f[n - 1], pages[n].key, pages[n].data)]
    BY <2>2, Zenon
  <2>. QED
    BY <2>3, Zenon DEF AddsTo
<1>2. AddedRun(l, pages) = f[Len(pages)]
  BY Zenon DEF AddedRun
<1>. HIDE DEF f
<1>3. \A k \in 0..Len(pages) : f[k] = IF k = 0 THEN l
                                      ELSE Added(f[k - 1], pages[k].key, pages[k].data)
  BY <1>1 DEF AddsTo
<1>4. f[0] = l /\ \A k \in 1..Len(pages) : f[k] = Added(f[k - 1], pages[k].key, pages[k].data)
  BY <1>3
<1>. QED
  BY <1>2, <1>4

\* A run of pages: the cache mirrors what the reference adds.
LEMMA InsertRunMirrors ==
  ASSUME NEW c, NEW l, NEW at, Mirrors(c, l, at), NEW pages, Sized(pages)
  PROVE  \E a : Mirrors(InsertRun(c, pages), AddedRun(l, pages), a)
<1>1. PICK m \in Nat : m = Len(pages)
  BY DEF Sized, IsSeq
<1>2. PICK f : /\ f[0] = c /\ InsertRun(c, pages) = f[m]
               /\ \A k \in 1..m : f[k] = Insert(f[k - 1], pages[k].key, pages[k].data)
  BY <1>1, InsertRunGoes
<1>3. PICK g : /\ g[0] = l /\ AddedRun(l, pages) = g[m]
               /\ \A k \in 1..m : g[k] = Added(g[k - 1], pages[k].key, pages[k].data)
  BY <1>1, AddedRunGoes
<1>. DEFINE T == {k \in 0..m : \E a : Mirrors(f[k], g[k], a)}
<1>4. 0 \in T
  BY <1>2, <1>3
<1>5. ASSUME NEW k \in 1..m, k - 1 \in T PROVE k \in T
  <2>1. PICK a : Mirrors(f[k - 1], g[k - 1], a)
    BY <1>5
  <2>2. PICK d : d = f[k - 1]
    OBVIOUS
  <2>3. PICK s : s = g[k - 1]
    OBVIOUS
  <2>4. PICK p : p = pages[k]
    OBVIOUS
  <2>5. Mirrors(d, s, a) /\ IsSeq(p.data)
    BY <1>1, <2>1, <2>2, <2>3, <2>4 DEF Sized
  <2>6. \E b : Mirrors(Insert(d, p.key, p.data), Added(s, p.key, p.data), b)
    BY <2>5, InsertMirrors
  <2>. QED
    BY <1>2, <1>3, <2>2, <2>3, <2>4, <2>6
<1>6. m \in T
  <2>. HIDE DEF T
  <2>1. \A k \in 0..m : k \in T
    BY <1>4, <1>5, CountUp
  <2>. QED
    BY <2>1
<1>. QED
  BY <1>2, <1>3, <1>6

\* A cache with nothing in it.
LEMMA EmptyMirrors == Mirrors(EmptyCache, <<>>, <<>>)
<1>1. PICK e : e = <<>>
  OBVIOUS
<1>2. IsSeq(e) /\ Len(e) = 0 /\ DOMAIN e = {} /\ Sized(e)
  BY <1>1 DEF IsSeq, Sized
<1>3. PICK c : c = EmptyCache
  OBVIOUS
<1>4. c = [map |-> e, nodes |-> e, free |-> e, head |-> NIL, tail |-> NIL, cur |-> 0]
  BY <1>1, <1>3 DEF EmptyCache
<1>5. Places(e, 0)
  BY <1>2 DEF Places
<1>6. Chain(c, e)
  BY <1>2, <1>4, <1>5 DEF Chain, Shape
<1>7. PageList(e) /\ KeysOf(e) = {}
  BY <1>2 DEF PageList, KeysOf
<1>8. Contents(c, e, e)
  BY <1>2, <1>4, <1>7 DEF Contents
<1>9. Spare(c, e)
  BY <1>2, <1>4, <1>5 DEF Spare
<1>10. SizeOf(e) = 0
  BY <1>2, SizeToAdds DEF SizeOf
<1>. QED
  BY <1>1, <1>3, <1>4, <1>6, <1>8, <1>9, <1>10 DEF Mirrors

\* A cache that mirrors a list represents it: following the links from the head visits
\* the places of the list.
RepresentedBy(c, l, forth) ==
  LET n == Len(l)
  IN /\ Cardinality(DOMAIN c.map) = n /\ c.cur = SizeOf(l)
     /\ Len(c.nodes) = n + Len(c.free)
     /\ \A k \in 1..Len(c.free) : c.nodes[c.free[k]] = Blank
     /\ IF n = 0 THEN c.head = NIL /\ c.tail = NIL
        ELSE /\ forth[n] = c.tail /\ c.nodes[c.tail].next = NIL
             /\ \A k \in 1..n :
                  /\ c.nodes[forth[k]].prev = (IF k = 1 THEN NIL ELSE forth[k - 1])
                  /\ c.nodes[forth[k]].key = l[k].key
                  /\ c.nodes[forth[k]].data = l[k].data
                  /\ l[k].key \in DOMAIN c.map /\ c.map[l[k].key] = forth[k]

LEMMA MirrorsRepresents ==
  ASSUME NEW c, NEW l, NEW at, Mirrors(c, l, at) PROVE Represents(c, l)
<1>1. PICK n \in Nat : n = Len(l)
  BY DEF Mirrors, Contents, PageList, Sized, IsSeq
<1>2. Len(at) = n /\ IsSeq(at) /\ PageList(l)
  BY <1>1 DEF Mirrors, Contents, Chain, Places
<1>3. /\ n > 0 => c.head = at[1] /\ c.tail = at[n]
      /\ \A k \in 1..n : /\ c.nodes[at[k]].prev = IF k = 1 THEN NIL ELSE at[k - 1]
                         /\ c.nodes[at[k]].next = IF k = n THEN NIL ELSE at[k + 1]
  BY <1>2 DEF Mirrors, Chain
<1>. DEFINE forth == CHOOSE g : g = [k \in 1..Len(l) |->
                                       IF k = 1 THEN c.head ELSE c.nodes[g[k - 1]].next]
<1>4. at = [k \in 1..Len(l) |-> IF k = 1 THEN c.head ELSE c.nodes[at[k - 1]].next]
  <2>1. ASSUME NEW k \in 1..n PROVE at[k] = IF k = 1 THEN c.head ELSE c.nodes[at[k - 1]].next
    <3>1. CASE k = 1
      BY <1>3, <3>1
    <3>2. CASE k # 1
      <4>1. PICK j \in 1..n : j = k - 1 /\ j # n /\ j + 1 = k
        BY <3>2
      <4>. QED
        BY <1>3, <3>2, <4>1
    <3>. QED
      BY <3>1, <3>2
  <2>2. at = [k \in 1..n |-> at[k]]
    BY <1>2 DEF IsSeq
  <2>. QED
    BY <1>1, <2>1, <2>2
<1>5. forth = [k \in 1..Len(l) |-> IF k = 1 THEN c.head ELSE c.nodes[forth[k - 1]].next]
  BY <1>4, Zenon
<1>6. Represents(c, l) <=> RepresentedBy(c, l, forth)
  BY Zenon DEF Represents, RepresentedBy
<1>. HIDE DEF forth
<1>7. \A k \in 1..n : forth[k] = at[k]
  <2>1. \A k \in 1..n : forth[k] = IF k = 1 THEN c.head ELSE c.nodes[forth[k - 1]].next
    BY <1>1, <1>5
  <2>2. \A k \in 1..n : at[k] = IF k = 1 THEN c.head ELSE c.nodes[at[k - 1]].next
    BY <1>1, <1>4
  <2>. DEFINE T == {k \in 0..n : k > 0 => forth[k] = at[k]}
  <2>3. 0 \in T
    OBVIOUS
  <2>4. ASSUME NEW k \in 1..n, k - 1 \in T PROVE k \in T
    <3>1. CASE k = 1
      BY <2>1, <2>2, <3>1
    <3>2. CASE k # 1
      <4>1. forth[k - 1] = at[k - 1]
        BY <2>4, <3>2
      <4>. QED
        BY <2>1, <2>2, <3>2, <4>1
    <3>. QED
      BY <3>1, <3>2
  <2>5. \A k \in 0..n : k \in T
    <3>. HIDE DEF T
    <3>. QED
      BY <2>3, <2>4, CountUp
  <2>. QED
    BY <2>5
<1>8. Cardinality(DOMAIN c.map) = n
  BY <1>1, <1>2, KeysCounted DEF Mirrors, Contents
<1>9. /\ c.cur = SizeOf(l) /\ Len(c.nodes) = n + Len(c.free)
      /\ \A k \in 1..Len(c.free) : c.nodes[c.free[k]] = Blank
  BY <1>2 DEF Mirrors, Spare
<1>10. n = 0 => c.head = NIL /\ c.tail = NIL
  BY <1>2 DEF Mirrors, Chain
<1>11. \A k \in 1..n : /\ c.nodes[at[k]].key = l[k].key /\ c.nodes[at[k]].data = l[k].data
                       /\ l[k].key \in DOMAIN c.map /\ c.map[l[k].key] = at[k]
  BY <1>1 DEF Mirrors, Contents, KeysOf
<1>12. \A k \in 1..n : k > 1 => forth[k - 1] = at[k - 1]
  <2>. SUFFICES ASSUME NEW k \in 1..n, k > 1 PROVE forth[k - 1] = at[k - 1]
    OBVIOUS
  <2>1. k - 1 \in 1..n
    OBVIOUS
  <2>. QED
    BY <1>7, <2>1
<1>13. n > 0 => n \in 1..n
  OBVIOUS
<1>14. RepresentedBy(c, l, forth)
  <2>1. ASSUME NEW k \in 1..n
        PROVE  /\ c.nodes[forth[k]].prev = (IF k = 1 THEN NIL ELSE forth[k - 1])
               /\ c.nodes[forth[k]].key = l[k].key
               /\ c.nodes[forth[k]].data = l[k].data
               /\ l[k].key \in DOMAIN c.map /\ c.map[l[k].key] = forth[k]
    <3>1. forth[k] = at[k] /\ (k = 1 \/ k > 1)
      BY <1>7
    <3>2. c.nodes[forth[k]].prev = (IF k = 1 THEN NIL ELSE forth[k - 1])
      BY <1>3, <1>12, <3>1
    <3>. QED
      BY <1>11, <3>1, <3>2
  <2>2. n > 0 => forth[n] = c.tail /\ c.nodes[c.tail].next = NIL
    BY <1>3, <1>7, <1>13
  <2>. QED
    BY <1>1, <1>8, <1>9, <1>10, <2>1, <2>2 DEF RepresentedBy
<1>. QED
  BY <1>6, <1>14

===============================================================================

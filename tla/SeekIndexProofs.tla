---------------------------- MODULE SeekIndexProofs ----------------------------
(***************************************************************************)
(* Proofs about the operators of Providers, ZipArchive and SeekIndex: what  *)
(* they make of well-formed files and indexes is well-formed, whatever the *)
(* cells, the fields and the damage.                                       *)
(***************************************************************************)
EXTENDS SeekIndex, PageCacheProofs

-----------------------------------------------------------------------------
(* Sequences. *)

\* A sequence of whatever it holds.
LEMMA AnySeqIs == ASSUME NEW s PROVE AnySeq(s) <=> IsSeq(s)
<1>1. ASSUME AnySeq(s) PROVE IsSeq(s)
  <2>. DEFINE R == ToSet(s)
  <2>1. s \in Seq(R)
    BY <1>1 DEF AnySeq
  <2>. HIDE DEF R
  <2>. QED
    BY <2>1 DEF IsSeq
<1>2. ASSUME IsSeq(s) PROVE AnySeq(s)
  <2>1. DOMAIN s = 1..Len(s)
    BY <1>2 DEF IsSeq
  <2>2. PICK n \in Nat : n = Len(s)
    BY <1>2 DEF IsSeq
  <2>. DEFINE R == ToSet(s)
  <2>3. \A i \in 1..n : s[i] \in R
    BY <2>1, <2>2 DEF ToSet
  <2>. HIDE DEF R
  <2>4. s \in [1..n -> R]
    BY <1>2, <2>2, <2>3 DEF IsSeq
  <2>5. s \in Seq(R)
    BY <2>4
  <2>. QED
    BY <2>5 DEF AnySeq, R
<1>. QED
  BY <1>1, <1>2

\* A function of a prefix of the natural numbers is a sequence.
SeqFor(x, n) == IsSeq(x) /\ Len(x) = n

\* The first elements of a sequence.
LEMMA PrefixIs == ASSUME NEW s, NEW n \in Nat PROVE SeqFor([i \in 1..n |-> s[i]], n)
BY DEF SeqFor, IsSeq

\* Any part of a sequence is one, of what it holds.
LEMMA AnyPart ==
  ASSUME NEW b, IsSeq(b), NEW m \in Int, NEW n \in Int
  PROVE  /\ IsSeq(SubSeq(b, m, n))
         /\ Len(SubSeq(b, m, n)) = IF m <= n THEN n - m + 1 ELSE 0
         /\ \A i \in 1..Len(SubSeq(b, m, n)) : SubSeq(b, m, n)[i] = b[i + m - 1]
<1>. DEFINE R == {b[i] : i \in 1..Len(b)}
<1>1. b \in Seq(R) /\ Len(b) \in Nat
  BY DEF IsSeq
<1>. HIDE DEF R
<1>2. PICK x : x = SubSeq(b, m, n)
  OBVIOUS
<1>3. x = [i \in 1..(n - m + 1) |-> b[i + m - 1]]
  BY <1>1, <1>2
<1>4. PICK d \in Int : d = n - m + 1
  OBVIOUS
<1>5. PICK k \in Nat : 1..d = 1..k /\ k = IF m <= n THEN n - m + 1 ELSE 0
  <2>1. CASE m <= n
    <3>1. d \in Nat
      BY <1>4, <2>1
    <3>. QED
      BY <1>4, <2>1, <3>1
  <2>2. CASE ~(m <= n)
    <3>1. d <= 0
      BY <1>4, <2>2
    <3>2. 1..d = {} /\ 1..0 = {}
      BY <3>1
    <3>. QED
      BY <2>2, <3>2
  <2>. QED
    BY <2>1, <2>2
<1>6. x = [i \in 1..k |-> b[i + m - 1]]
  BY <1>3, <1>4, <1>5
<1>7. IsSeq(x) /\ Len(x) = k /\ \A i \in 1..k : x[i] = b[i + m - 1]
  BY <1>6 DEF IsSeq
<1>. QED
  BY <1>2, <1>5, <1>7

\* One more element.
AppendOf(s, x, z) ==
  IsSeq(z) /\ Len(z) = Len(s) + 1 /\ z[Len(s) + 1] = x /\ \A i \in 1..Len(s) : z[i] = s[i]

\* A sequence with one more element.
LEMMA AppendIs == ASSUME NEW s, IsSeq(s), NEW x PROVE AppendOf(s, x, Append(s, x))
<1>. DEFINE R == {s[i] : i \in 1..Len(s)} \cup {x}
<1>1. s \in Seq(R) /\ x \in R
  BY DEF IsSeq
<1>. HIDE DEF R
<1>2. Append(s, x) \in Seq(R)
  BY <1>1
<1>3. PICK z \in Seq(R) : z = Append(s, x)
  BY <1>2
<1>4. Len(z) = Len(s) + 1 /\ z[Len(s) + 1] = x /\ \A i \in 1..Len(s) : z[i] = s[i]
  BY <1>1, <1>3
<1>5. IsSeq(z)
  BY DEF IsSeq
<1>. QED
  BY <1>3, <1>4, <1>5 DEF AppendOf

\* The least and the greatest of a set of natural numbers.
LEMMA MinIs ==
  ASSUME NEW T, T \subseteq Nat, T # {} PROVE Min(T) \in T /\ \A y \in T : Min(T) <= y
<1>1. \E x \in T : \A y \in T : x <= y
  BY LeastNatural
<1>2. \E x \in T : \A y \in T : x =< y
  BY <1>1
<1>. QED
  BY <1>2, Zenon DEF Min

\* The largest of some numbers.
LEMMA MaxIs ==
  ASSUME NEW n \in Nat, NEW T, T \subseteq 0..n, T # {}
  PROVE  Max(T) \in T /\ \A y \in T : y <= Max(T)
<1>1. PICK x \in T : \A y \in T : y <= x
  BY GreatestNatural
<1>2. \A y \in T : y \in Int
  OBVIOUS
<1>3. \A y \in T : x >= y
  BY <1>1, <1>2
<1>4. Max(T) \in T /\ \A y \in T : Max(T) >= y
  BY <1>3, Zenon DEF Max
<1>. QED
  BY <1>2, <1>4

-----------------------------------------------------------------------------
(* FlattenSeq. *)

\* The first n elements, and the sequences that flatten goes through.
Pre(s, n) == [i \in 1..n |-> s[i]]
FlatTo(s, f, n) == f = [i \in 1..n |-> IF i = 1 THEN s[i] ELSE f[i - 1] \o s[i]]

\* There are such sequences up to every element.
LEMMA FlatsExist ==
  ASSUME NEW s, NEW m \in Nat PROVE \E f : FlatTo(s, f, m)
<1>. DEFINE T == {n \in 0..m : \E f : FlatTo(s, f, n)}
<1>1. 0 \in T
  <2>1. PICK f : f = [k \in 1..0 |-> s[1]]
    OBVIOUS
  <2>2. 1..0 = {}
    OBVIOUS
  <2>3. FlatTo(s, f, 0)
    BY <2>1, <2>2 DEF FlatTo
  <2>. QED
    BY <2>3
<1>2. ASSUME NEW n \in 1..m, n - 1 \in T PROVE n \in T
  <2>1. PICK f : FlatTo(s, f, n - 1)
    BY <1>2
  <2>2. PICK g : g = [k \in 1..n |-> IF k # n THEN f[k]
                                     ELSE IF n = 1 THEN s[1] ELSE f[n - 1] \o s[n]]
    OBVIOUS
  <2>3. n \in Nat /\ n # 0
    OBVIOUS
  <2>4. \A k \in 1..(n - 1) : f[k] = IF k = 1 THEN s[k] ELSE f[k - 1] \o s[k]
    BY <2>1 DEF FlatTo
  <2>5. \A k \in 1..n : g[k] = IF k # n THEN f[k]
                               ELSE IF n = 1 THEN s[1] ELSE f[n - 1] \o s[n]
    BY <2>2
  <2>6. ASSUME NEW k \in 1..n PROVE g[k] = IF k = 1 THEN s[k] ELSE g[k - 1] \o s[k]
    <3>1. k # 1 => k - 1 \in 1..n /\ k - 1 # n /\ g[k - 1] = f[k - 1]
      BY <2>3, <2>5
    <3>2. CASE k = n
      BY <2>3, <2>5, <3>1, <3>2
    <3>3. CASE k # n
      <4>1. k \in 1..(n - 1)
        BY <2>3, <3>3
      <4>. QED
        BY <2>4, <2>5, <3>1, <3>3, <4>1
    <3>. QED
      BY <3>2, <3>3
  <2>7. g = [k \in 1..n |-> g[k]]
    BY <2>2
  <2>8. FlatTo(s, g, n)
    BY <2>6, <2>7 DEF FlatTo
  <2>. QED
    BY <2>3, <2>8
<1>3. m \in T
  <2>. HIDE DEF T
  <2>1. \A k \in 0..m : k \in T
    BY <1>1, <1>2, CountUp
  <2>. QED
    BY <2>1
<1>. QED
  BY <1>3

\* flatten is at the last of them.
LEMMA FlattenAt ==
  ASSUME NEW n \in Nat \ {0}, NEW s, Len(s) = n, NEW f, FlatTo(s, f, n)
  PROVE  FlattenSeq(s) = f[n]
<1>. DEFINE g == CHOOSE h : h = [i \in 1..Len(s) |-> IF i = 1 THEN s[i] ELSE h[i - 1] \o s[i]]
<1>1. FlatTo(s, g, Len(s))
  <2>1. \E h : h = [i \in 1..Len(s) |-> IF i = 1 THEN s[i] ELSE h[i - 1] \o s[i]]
    BY Zenon DEF FlatTo
  <2>. QED
    BY <2>1, Zenon DEF FlatTo
<1>2. FlattenSeq(s) = g[Len(s)]
  <2>1. Len(s) # 0
    OBVIOUS
  <2>. QED
    BY <2>1, Zenon DEF FlattenSeq
<1>. HIDE DEF g
<1>3. \A k \in 1..n : g[k] = IF k = 1 THEN s[k] ELSE g[k - 1] \o s[k]
  BY <1>1 DEF FlatTo
<1>4. \A k \in 1..n : f[k] = IF k = 1 THEN s[k] ELSE f[k - 1] \o s[k]
  BY DEF FlatTo
<1>. DEFINE T == {k \in 0..n : k = 0 \/ f[k] = g[k]}
<1>5. 0 \in T
  OBVIOUS
<1>6. ASSUME NEW k \in 1..n, k - 1 \in T PROVE k \in T
  BY <1>3, <1>4, <1>6
<1>7. n \in T
  <2>. HIDE DEF T
  <2>1. \A k \in 0..n : k \in T
    BY <1>5, <1>6, CountUp
  <2>. QED
    BY <2>1
<1>. QED
  BY <1>2, <1>7

\* Nothing to flatten.
LEMMA FlattenNone == ASSUME NEW s PROVE FlattenSeq(Pre(s, 0)) = <<>>
<1>1. 1..0 = {}
  OBVIOUS
<1>2. Pre(s, 0) = <<>>
  BY <1>1 DEF Pre
<1>3. Len(<<>>) = 0
  OBVIOUS
<1>. QED
  BY <1>2, <1>3, Zenon DEF FlattenSeq

\* One more sequence to flatten.
LEMMA FlattenMore ==
  ASSUME NEW s, NEW n \in Nat, IsSeq(s[n + 1])
  PROVE  FlattenSeq(Pre(s, n + 1)) = FlattenSeq(Pre(s, n)) \o s[n + 1]
<1>1. PICK p : p = Pre(s, n + 1)
  OBVIOUS
<1>2. Len(p) = n + 1 /\ \A i \in 1..(n + 1) : p[i] = s[i]
  BY <1>1 DEF Pre
<1>3. n + 1 \in Nat \ {0}
  OBVIOUS
<1>4. PICK f : FlatTo(p, f, n + 1)
  BY <1>3, FlatsExist
<1>5. FlattenSeq(p) = f[n + 1]
  BY <1>2, <1>3, <1>4, FlattenAt
<1>6. \A k \in 1..(n + 1) : f[k] = IF k = 1 THEN s[k] ELSE f[k - 1] \o s[k]
  BY <1>2, <1>4 DEF FlatTo
<1>7. CASE n = 0
  <2>1. FlattenSeq(Pre(s, n)) = <<>>
    BY <1>7, FlattenNone
  <2>2. f[n + 1] = s[n + 1]
    BY <1>6, <1>7
  <2>3. PICK z : z = <<>> \o s[n + 1]
    OBVIOUS
  <2>4. JoinOf(<<>>, s[n + 1], z) /\ Len(<<>>) = 0
    <3>1. IsSeq(<<>>) /\ Len(<<>>) = 0
      BY DEF IsSeq
    <3>. QED
      BY <2>3, <3>1, JoinIs
  <2>5. z = s[n + 1]
    <3>1. IsSeq(z) /\ Len(z) = Len(s[n + 1]) /\ \A k \in 1..Len(z) : z[k] = s[n + 1][k]
      BY <2>4 DEF JoinOf, IsSeq
    <3>. QED
      BY <3>1, SeqSame
  <2>. QED
    BY <1>1, <1>5, <2>1, <2>2, <2>3, <2>5
<1>8. CASE n # 0
  <2>1. PICK q : q = Pre(s, n)
    OBVIOUS
  <2>2. Len(q) = n /\ \A i \in 1..n : q[i] = s[i]
    BY <2>1 DEF Pre
  <2>3. PICK h : h = [k \in 1..n |-> f[k]]
    OBVIOUS
  <2>4. ASSUME NEW k \in 1..n PROVE h[k] = IF k = 1 THEN q[k] ELSE h[k - 1] \o q[k]
    <3>1. k \in 1..(n + 1) /\ q[k] = s[k] /\ h[k] = f[k]
      BY <2>2, <2>3
    <3>2. k # 1 => h[k - 1] = f[k - 1]
      BY <2>3
    <3>. QED
      BY <1>6, <3>1, <3>2
  <2>5. h = [k \in 1..n |-> h[k]]
    BY <2>3
  <2>6. FlatTo(q, h, n)
    BY <2>4, <2>5 DEF FlatTo
  <2>7. FlattenSeq(q) = f[n]
    BY <1>8, <2>2, <2>3, <2>6, FlattenAt
  <2>8. f[n + 1] = f[n] \o s[n + 1]
    <3>1. PICK k \in 1..(n + 1) : k = n + 1
      OBVIOUS
    <3>2. k # 1 /\ k - 1 = n
      BY <1>8, <3>1
    <3>. QED
      BY <1>6, <3>1, <3>2
  <2>. QED
    BY <1>1, <1>5, <2>1, <2>7, <2>8
<1>. QED
  BY <1>7, <1>8
\* What is flattened is a sequence of what the sequences hold.
FlatOf(s, n, x) ==
  IsSeq(x) /\ \A j \in 1..Len(x) : \E i \in 1..n : \E k \in 1..Len(s[i]) : x[j] = s[i][k]

\* Sequences behind each other have the elements of each.
LEMMA FlattenOf ==
  ASSUME NEW s, NEW m \in Nat, \A i \in 1..m : IsSeq(s[i]), NEW n \in 0..m
  PROVE  FlatOf(s, n, FlattenSeq(Pre(s, n)))
<1>. DEFINE T == {k \in 0..m : FlatOf(s, k, FlattenSeq(Pre(s, k)))}
<1>1. 0 \in T
  <2>1. IsSeq(<<>>) /\ Len(<<>>) = 0
    BY DEF IsSeq
  <2>2. FlatOf(s, 0, <<>>)
    BY <2>1 DEF FlatOf
  <2>. QED
    BY <2>2, FlattenNone
<1>2. ASSUME NEW k \in 1..m, k - 1 \in T PROVE k \in T
  <2>1. PICK q \in Nat : q = k - 1 /\ q + 1 = k
    OBVIOUS
  <2>2. PICK x : x = FlattenSeq(Pre(s, q))
    OBVIOUS
  <2>3. FlatOf(s, q, x)
    BY <1>2, <2>1, <2>2
  <2>4. PICK z : z = x \o s[k]
    OBVIOUS
  <2>5. FlattenSeq(Pre(s, k)) = z
    BY <2>1, <2>2, <2>4, FlattenMore
  <2>6. JoinOf(x, s[k], z)
    BY <2>3, <2>4, JoinIs DEF FlatOf
  <2>7. ASSUME NEW j \in 1..Len(z)
        PROVE  \E i \in 1..k : \E l \in 1..Len(s[i]) : z[j] = s[i][l]
    <3>1. Len(z) = Len(x) + Len(s[k]) /\ Len(x) \in Nat /\ Len(s[k]) \in Nat
      BY <2>3, <2>6 DEF FlatOf, JoinOf, IsSeq
    <3>2. CASE j <= Len(x)
      <4>1. j \in 1..Len(x)
        BY <3>1, <3>2
      <4>2. PICK i \in 1..q : \E l \in 1..Len(s[i]) : x[j] = s[i][l]
        BY <2>3, <4>1 DEF FlatOf
      <4>3. i \in 1..k /\ z[j] = x[j]
        BY <2>1, <2>6, <4>1 DEF JoinOf
      <4>. QED
        BY <4>2, <4>3
    <3>3. CASE ~(j <= Len(x))
      <4>1. PICK l \in 1..Len(s[k]) : j = Len(x) + l
        <5>1. j - Len(x) \in 1..Len(s[k]) /\ j = Len(x) + (j - Len(x))
          BY <3>1, <3>3
        <5>. QED
          BY <5>1
      <4>2. z[j] = s[k][l]
        BY <2>6, <4>1 DEF JoinOf
      <4>3. k \in 1..k
        OBVIOUS
      <4>. QED
        BY <4>2, <4>3
    <3>. QED
      BY <3>2, <3>3
  <2>8. FlatOf(s, k, z)
    BY <2>6, <2>7 DEF FlatOf, JoinOf
  <2>. QED
    BY <2>5, <2>8
<1>3. n \in T
  <2>. HIDE DEF T
  <2>1. \A k \in 0..m : k \in T
    BY <1>1, <1>2, CountUp
  <2>. QED
    BY <2>1
<1>. QED
  BY <1>3

\* What comes before a sequence in what is flattened is shorter.
LEMMA FlattenLonger ==
  ASSUME NEW s, NEW m \in Nat, \A i \in 1..m : IsSeq(s[i]), NEW n \in 0..m
  PROVE  /\ Len(FlattenSeq(Pre(s, n))) \in Nat /\ Len(FlattenSeq(Pre(s, m))) \in Nat
         /\ Len(FlattenSeq(Pre(s, n))) <= Len(FlattenSeq(Pre(s, m)))
<1>. DEFINE L(k) == Len(FlattenSeq(Pre(s, k)))
            T == {k \in 0..(m - n) : L(n) <= L(n + k)}
<1>1. \A k \in 0..m : L(k) \in Nat
  BY FlattenOf DEF FlatOf, IsSeq
<1>2. \A k \in 0..m : k # m => L(k) <= L(k + 1)
  <2>. SUFFICES ASSUME NEW k \in 0..m, k # m PROVE L(k) <= L(k + 1)
    OBVIOUS
  <2>1. PICK x : x = FlattenSeq(Pre(s, k))
    OBVIOUS
  <2>2. k + 1 \in 1..m /\ IsSeq(x) /\ IsSeq(s[k + 1])
    BY <2>1, FlattenOf DEF FlatOf
  <2>3. PICK z : z = x \o s[k + 1]
    OBVIOUS
  <2>4. JoinOf(x, s[k + 1], z)
    BY <2>2, <2>3, JoinIs
  <2>5. FlattenSeq(Pre(s, k + 1)) = z
    <3>1. k \in Nat
      OBVIOUS
    <3>. QED
      BY <2>1, <2>2, <2>3, <3>1, FlattenMore
  <2>6. Len(x) <= Len(z)
    BY <2>2, <2>4 DEF JoinOf, IsSeq
  <2>. QED
    BY <2>1, <2>5, <2>6
<1>3. m - n \in Nat /\ n + (m - n) = m
  OBVIOUS
<1>. HIDE DEF L
<1>4. 0 \in T
  BY <1>1, <1>3
<1>5. ASSUME NEW k \in 1..(m - n), k - 1 \in T PROVE k \in T
  <2>1. PICK j \in 0..m : j = n + (k - 1) /\ j + 1 = n + k /\ j # m
    <3>1. n + (k - 1) \in 0..m /\ n + (k - 1) + 1 = n + k /\ n + (k - 1) # m
      BY <1>3
    <3>. QED
      BY <3>1
  <2>2. L(n) <= L(j) /\ L(j) <= L(j + 1) /\ L(j) \in Nat /\ L(j + 1) \in Nat /\ L(n) \in Nat
    <3>1. j + 1 \in 0..m
      BY <2>1
    <3>. QED
      BY <1>1, <1>2, <1>5, <2>1, <3>1
  <2>3. L(n) <= L(n + k)
    BY <2>1, <2>2
  <2>. QED
    BY <1>3, <2>3
<1>6. m - n \in T
  <2>1. m - n \in Nat
    BY <1>3
  <2>. HIDE DEF T
  <2>2. \A k \in 0..(m - n) : k \in T
    BY <1>4, <1>5, <2>1, CountUp
  <2>. QED
    BY <2>1, <2>2
<1>7. L(n) <= L(m)
  BY <1>3, <1>6
<1>. QED
  BY <1>1, <1>7 DEF L

-----------------------------------------------------------------------------
(* DEFLATE. *)


\* The output, step by step.
InflatesTo(before, syms, f, n) ==
  f = [k \in 0..n |-> IF k = 0 THEN Output(before, FALSE) ELSE Symbol(f[k - 1], syms[k])]

\* The output after each symbol: the recursive function exists.
LEMMA InflatesExist ==
  ASSUME NEW before, NEW syms, NEW m \in Nat PROVE \E f : InflatesTo(before, syms, f, m)
<1>. DEFINE T == {n \in 0..m : \E f : InflatesTo(before, syms, f, n)}
<1>1. 0 \in T
  <2>1. PICK f : f = [k \in 0..0 |-> Output(before, FALSE)]
    OBVIOUS
  <2>2. InflatesTo(before, syms, f, 0)
    BY <2>1 DEF InflatesTo
  <2>. QED
    BY <2>2
<1>2. ASSUME NEW n \in 1..m, n - 1 \in T PROVE n \in T
  <2>1. PICK f : InflatesTo(before, syms, f, n - 1)
    BY <1>2
  <2>2. PICK g : g = [k \in 0..n |-> IF k = n THEN Symbol(f[n - 1], syms[n]) ELSE f[k]]
    OBVIOUS
  <2>3. n \in Nat /\ n # 0
    OBVIOUS
  <2>4. \A k \in 0..(n - 1) : f[k] = IF k = 0 THEN Output(before, FALSE) ELSE Symbol(f[k - 1], syms[k])
    BY <2>1 DEF InflatesTo
  <2>5. \A k \in 0..n : g[k] = IF k = n THEN Symbol(f[n - 1], syms[n]) ELSE f[k]
    BY <2>2
  <2>6. ASSUME NEW k \in 0..n PROVE g[k] = IF k = 0 THEN Output(before, FALSE) ELSE Symbol(g[k - 1], syms[k])
    <3>1. k # 0 => k - 1 \in 0..n /\ k - 1 # n /\ g[k - 1] = f[k - 1]
      BY <2>3, <2>5
    <3>2. CASE k = n
      BY <2>3, <2>5, <3>1, <3>2
    <3>3. CASE k # n
      <4>1. k \in 0..(n - 1)
        BY <2>3, <3>3
      <4>. QED
        BY <2>4, <2>5, <3>1, <3>3, <4>1
    <3>. QED
      BY <3>2, <3>3
  <2>7. g = [k \in 0..n |-> g[k]]
    BY <2>2
  <2>8. InflatesTo(before, syms, g, n)
    BY <2>6, <2>7 DEF InflatesTo
  <2>. QED
    BY <2>3, <2>8
<1>3. m \in T
  <2>. HIDE DEF T
  <2>1. \A k \in 0..m : k \in T
    BY <1>1, <1>2, CountUp
  <2>. QED
    BY <2>1
<1>. QED
  BY <1>3

\* The output ends with the last of them.
InflateRuns(before, syms, f, n) ==
  /\ f[0] = Output(before, FALSE) /\ Inflate(before, syms) = f[n]
  /\ \A k \in 1..n : f[k] = Symbol(f[k - 1], syms[k])

\* It is the one that Inflate chooses.
LEMMA InflateGoes ==
  ASSUME NEW before, NEW syms, NEW m \in Nat, m = Len(syms)
  PROVE  \E f : InflateRuns(before, syms, f, m)
<1>. DEFINE f == CHOOSE g : g = [n \in 0..Len(syms) |-> IF n = 0 THEN Output(before, FALSE) ELSE Symbol(g[n - 1], syms[n])]
<1>1. InflatesTo(before, syms, f, Len(syms))
  <2>1. \E g : InflatesTo(before, syms, g, Len(syms))
    BY InflatesExist
  <2>2. \E g : g = [n \in 0..Len(syms) |-> IF n = 0 THEN Output(before, FALSE) ELSE Symbol(g[n - 1], syms[n])]
    BY <2>1, Zenon DEF InflatesTo
  <2>. QED
    BY <2>2, Zenon DEF InflatesTo
<1>2. Inflate(before, syms) = f[Len(syms)]
  BY Zenon DEF Inflate
<1>. HIDE DEF f
<1>3. \A k \in 0..m : f[k] = IF k = 0 THEN Output(before, FALSE) ELSE Symbol(f[k - 1], syms[k])
  BY <1>1 DEF InflatesTo
<1>4. f[0] = Output(before, FALSE) /\ \A k \in 1..m : f[k] = Symbol(f[k - 1], syms[k])
  <2>1. f[0] = Output(before, FALSE)
    <3>1. 0 \in 0..m
      OBVIOUS
    <3>. QED
      BY <1>3, <3>1
  <2>2. ASSUME NEW k \in 1..m PROVE f[k] = Symbol(f[k - 1], syms[k])
    <3>1. k \in 0..m /\ k # 0
      OBVIOUS
    <3>. QED
      BY <1>3, <3>1
  <2>. QED
    BY <2>1, <2>2
<1>5. InflateRuns(before, syms, f, m)
  BY <1>2, <1>4 DEF InflateRuns
<1>. QED
  BY <1>5

\* The output is a sequence, whatever the symbols.
LEMMA InflateIs ==
  ASSUME NEW before, IsSeq(before), NEW syms, IsSeq(syms)
  PROVE  IsSeq(Inflate(before, syms).out)
<1>1. PICK m \in Nat : m = Len(syms)
  BY DEF IsSeq
<1>2. PICK f : InflateRuns(before, syms, f, m)
  BY <1>1, InflateGoes
<1>. DEFINE T == {k \in 0..m : IsSeq(f[k].out)}
<1>3. 0 \in T
  BY <1>2 DEF InflateRuns, Output
<1>4. ASSUME NEW k \in 1..m, k - 1 \in T PROVE k \in T
  <2>1. PICK st : st = f[k - 1]
    OBVIOUS
  <2>2. PICK s : s = syms[k]
    OBVIOUS
  <2>3. IsSeq(st.out) /\ f[k] = Symbol(st, s)
    BY <1>2, <1>4, <2>1, <2>2 DEF InflateRuns
  <2>4. PICK y : y = st.out[Len(st.out) + 1 + s]
    OBVIOUS
  <2>5. IsSeq(Append(st.out, s)) /\ IsSeq(Append(st.out, y))
    BY <2>3, AppendIs DEF AppendOf
  <2>6. \A x, b : Output(x, b).out = x
    BY DEF Output
  <2>7. IsSeq(Symbol(st, s).out)
    <3>1. CASE Symbol(st, s) = st
      BY <2>3, <3>1
    <3>2. CASE Symbol(st, s) = Output(Append(st.out, s), FALSE)
      BY ZenonT(40), <2>5, <2>6, <3>2
    <3>3. CASE Symbol(st, s) = Output(st.out, TRUE)
      BY <2>3, <2>6, <3>3
    <3>4. CASE Symbol(st, s) = Output(Append(st.out, y), FALSE)
      BY ZenonT(40), <2>5, <2>6, <3>4
    <3>. QED
      BY <2>4, <3>1, <3>2, <3>3, <3>4 DEF Symbol
  <2>. QED
    BY <2>3, <2>7
<1>5. m \in T
  <2>. HIDE DEF T
  <2>1. \A k \in 0..m : k \in T
    BY <1>3, <1>4, CountUp
  <2>. QED
    BY <2>1
<1>. QED
  BY <1>2, <1>5 DEF InflateRuns

\* The symbols behind some blocks of a file are a sequence.
Blocks(data) == IsSeq(data) /\ \A i \in 1..Len(data) : CellOk(data[i])

\* The symbols of a cell are a sequence.
LEMMA SymbolsOfIs == ASSUME NEW c, CellOk(c) PROVE IsSeq(SymbolsOf(c))
<1>1. IsSeq(<<>>)
  BY DEF IsSeq
<1>2. c.cell = "block" => IsSeq(c.syms)
  BY AnySeqIs DEF CellOk
<1>. QED
  BY <1>1, <1>2 DEF SymbolsOf

\* So are those behind some blocks.
LEMMA SymbolsAfterIs ==
  ASSUME NEW data, Blocks(data), NEW n \in Nat PROVE IsSeq(SymbolsAfter(data, n))
<1>. DEFINE ends == {i \in (n + 1)..Len(data) : EndsStream(data[i])}
            last == IF ends = {} THEN Len(data) ELSE Min(ends)
            S(k) == SymbolsOf(data[n + k])
<1>1. Len(data) \in Nat
  BY DEF Blocks, IsSeq
<1>2. PICK l \in 0..Len(data) : l = last
  <2>1. CASE ends = {}
    BY <1>1, <2>1
  <2>2. CASE ends # {}
    <3>1. ends \subseteq Nat /\ ends \subseteq 0..Len(data)
      BY <1>1
    <3>2. PICK e : e = Min(ends)
      OBVIOUS
    <3>3. last = e /\ e \in ends
      BY <2>2, <3>1, <3>2, MinIs
    <3>4. e \in 0..Len(data)
      BY <3>1, <3>3
    <3>. HIDE DEF last
    <3>. QED
      BY <3>3, <3>4
  <2>. QED
    BY <2>1, <2>2
<1>3. PICK s : s = [k \in 1..(l - n) |-> S(k)]
  OBVIOUS
<1>. HIDE DEF last
<1>4. PICK m \in Nat : 1..(l - n) = 1..m /\ (m # 0 => m = l - n)
  <2>1. CASE l - n > 0
    <3>1. l - n \in Nat
      BY <1>1, <2>1
    <3>. QED
      BY <3>1
  <2>2. CASE ~(l - n > 0)
    <3>1. 1..(l - n) = {} /\ 1..0 = {}
      BY <1>1, <2>2
    <3>. QED
      BY <3>1
  <2>. QED
    BY <2>1, <2>2
<1>5. ASSUME NEW k \in 1..m PROVE IsSeq(s[k])
  <2>1. n + k \in 1..Len(data) /\ s[k] = SymbolsOf(data[n + k])
    BY <1>1, <1>3, <1>4
  <2>2. CellOk(data[n + k])
    BY <2>1 DEF Blocks
  <2>. QED
    BY <2>1, <2>2, SymbolsOfIs
<1>6. s = Pre(s, m)
  BY <1>3, <1>4 DEF Pre
<1>7. IsSeq(FlattenSeq(s))
  <2>1. m \in 0..m
    OBVIOUS
  <2>2. FlatOf(s, m, FlattenSeq(Pre(s, m)))
    BY <1>5, <2>1, FlattenOf
  <2>. QED
    BY <1>6, <2>2 DEF FlatOf
<1>. QED
  BY <1>2, <1>3, <1>7 DEF SymbolsAfter, last
\* A range that was read is as long as it was asked for.
RangeOf(r, len) == r.err = "none" => IsSeq(r.bytes) /\ Len(r.bytes) = len

\* A read that returns what was asked for.
LEMMA OkRange ==
  ASSUME NEW bytes, IsSeq(bytes), NEW len, Len(bytes) = len PROVE RangeOf(Ok(bytes), len)
BY DEF RangeOf, Ok

\* A read that fails returns nothing wrong.
LEMMA NoRange == ASSUME NEW why, why # "none", NEW len PROVE RangeOf(Err(why), len)
BY DEF RangeOf, Err

\* A read of nothing.
LEMMA EmptyRange == RangeOf(Ok(<<>>), 0)
<1>1. IsSeq(<<>>) /\ Len(<<>>) = 0
  BY DEF IsSeq
<1>. QED
  BY <1>1, OkRange

\* StoreRange returns as many bytes as were asked for.
LEMMA StoreRangeIs ==
  ASSUME NEW data, NEW cp, NEW off, NEW len \in Nat, NEW size
  PROVE  RangeOf(StoreRange(data, cp, off, len, size), len)
<1>1. PICK x : x = [i \in 1..len |-> ByteOf(data[off + i])]
  OBVIOUS
<1>2. IsSeq(x) /\ Len(x) = len
  BY <1>1 DEF IsSeq
<1>3. RangeOf(Ok(x), len)
  BY <1>2, OkRange
<1>4. RangeOf(Err("checkpoint"), len) /\ RangeOf(Err("range"), len) /\ RangeOf(Err("corrupt"), len)
  BY NoRange
<1>. QED
  BY <1>1, <1>3, <1>4 DEF StoreRange

\* The window of a checkpoint.
LEMMA DictionaryIs == ASSUME NEW cp, CheckpointOk(cp) PROVE IsSeq(Dictionary(cp))
<1>1. cp.off \in Nat /\ IsSeq(cp.window) /\ Window \in Nat
  BY ProvidersAssumption, AnySeqIs DEF CheckpointOk
<1>2. PICK valid \in Nat : valid = IF cp.off < Window THEN cp.off ELSE Window
  BY <1>1
<1>3. PICK a \in Int : a = Window - valid + 1
  BY <1>1
<1>4. IsSeq(SubSeq(cp.window, a, Window))
  BY <1>1, AnyPart
<1>. QED
  BY <1>2, <1>3, <1>4 DEF Dictionary

\* So does DeflateRange, from any checkpoint.
LEMMA DeflateRangeIs ==
  ASSUME NEW data, Blocks(data), NEW cp, CheckpointOk(cp), NEW off \in Nat, NEW len \in Nat, NEW size
  PROVE  RangeOf(DeflateRange(data, cp, off, len, size), len)
<1>1. PICK d : d = Dictionary(cp)
  OBVIOUS
<1>2. PICK out : out = Inflate(d, SymbolsAfter(data, cp.at)).out
  OBVIOUS
<1>3. IsSeq(d) /\ IsSeq(out) /\ cp.off \in Nat /\ Len(d) \in Nat /\ Len(out) \in Nat
  <2>1. cp.at \in Nat /\ cp.off \in Nat
    BY DEF CheckpointOk
  <2>2. IsSeq(d)
    BY <1>1, DictionaryIs
  <2>3. IsSeq(out)
    BY <1>2, <2>1, <2>2, InflateIs, SymbolsAfterIs
  <2>. QED
    BY <2>1, <2>2, <2>3 DEF IsSeq
<1>4. RangeOf(Err("range"), len) /\ RangeOf(Err("corrupt"), len)
  BY NoRange
<1>5. cp.off <= off => RangeOf(Part(out, Len(d) + off - cp.off, len), len)
  <2>. SUFFICES ASSUME cp.off <= off PROVE RangeOf(Part(out, Len(d) + off - cp.off, len), len)
    OBVIOUS
  <2>1. PICK skip \in Nat : skip = Len(d) + off - cp.off
    <3>1. Len(d) + off - cp.off \in Nat
      BY <1>3
    <3>. QED
      BY <3>1
  <2>2. skip + len <= Len(out) => RangeOf(Ok(SubSeq(out, skip + 1, skip + len)), len)
    <3>. SUFFICES ASSUME skip + len <= Len(out)
                  PROVE  RangeOf(Ok(SubSeq(out, skip + 1, skip + len)), len)
      OBVIOUS
    <3>1. PICK a \in Int : a = skip + 1
      OBVIOUS
    <3>2. PICK b \in Int : b = skip + len
      OBVIOUS
    <3>3. PICK x : x = SubSeq(out, a, b)
      OBVIOUS
    <3>4. IsSeq(x) /\ Len(x) = IF a <= b THEN b - a + 1 ELSE 0
      BY <1>3, <3>3, AnyPart
    <3>5. Len(x) = len
      BY <3>1, <3>2, <3>4
    <3>. QED
      BY <3>1, <3>2, <3>3, <3>4, <3>5, OkRange
  <2>3. Len(out) < skip + len \/ skip + len <= Len(out)
    BY <1>3
  <2>4. RangeOf(Part(out, skip, len), len)
    BY <1>3, <1>4, <2>2, <2>3 DEF Part
  <2>. QED
    BY <2>1, <2>4
<1>6. len = 0 => RangeOf(Ok(<<>>), len)
  BY EmptyRange
<1>7. PartFrom(d, cp, data, off, len) = Part(out, Len(d) + off - cp.off, len)
  BY <1>2 DEF PartFrom
<1>8. cp.off > off \/ cp.off <= off
  BY <1>3
<1>. QED
  BY <1>1, <1>4, <1>5, <1>6, <1>7, <1>8 DEF DeflateRange

\* So does the read of any method.
LEMMA ReadRangeIs ==
  ASSUME NEW method, NEW data, Blocks(data), NEW cp, CheckpointOk(cp), NEW off \in Nat,
         NEW len \in Nat, NEW size
  PROVE  RangeOf(ReadRange(method, data, cp, off, len, size), len)
BY StoreRangeIs, DeflateRangeIs DEF ReadRange

-----------------------------------------------------------------------------
(* build_checkpoints. *)

\* What make_checkpoint makes is a checkpoint.
LEMMA MakeCheckpointIs ==
  ASSUME NEW out, IsSeq(out), NEW at \in Nat PROVE CheckpointOk(MakeCheckpoint(out, at))
<1>. DEFINE valid == IF Len(out) < Window THEN Len(out) ELSE Window
<1>1. PICK w : w = [k \in 1..Window |-> IF k > Window - valid THEN out[Len(out) - Window + k] ELSE 0]
  OBVIOUS
<1>2. Window \in Nat
  BY ProvidersAssumption
<1>3. AnySeq(w)
  BY <1>1, <1>2, AnySeqIs DEF IsSeq
<1>4. MakeCheckpoint(out, at) = [at |-> at, off |-> Len(out), window |-> w]
  BY <1>1 DEF MakeCheckpoint
<1>5. PICK cp : cp = MakeCheckpoint(out, at)
  OBVIOUS
<1>6. cp.at = at /\ cp.off = Len(out) /\ cp.window = w
  BY <1>4, <1>5
<1>7. Len(out) \in Nat
  BY DEF IsSeq
<1>. QED
  BY <1>3, <1>5, <1>6, <1>7 DEF CheckpointOk

\* What build_checkpoints has after some cells.
BuildState(st) ==
  /\ st = [out |-> st.out, at |-> st.at, failed |-> st.failed, done |-> st.done,
           last |-> st.last, cps |-> st.cps]
  /\ IsSeq(st.out) /\ st.at \in Nat
  /\ IsSeq(st.cps) /\ \A k \in 1..Len(st.cps) : CheckpointOk(st.cps[k])
StartOf(size) ==
  [out |-> <<>>, at |-> 0, failed |-> FALSE, done |-> size = 0, last |-> 0, cps |-> <<>>]

\* The checkpoints of no block.
LEMMA StartIs == ASSUME NEW size PROVE BuildState(StartOf(size))
<1>1. IsSeq(<<>>) /\ Len(<<>>) = 0
  BY DEF IsSeq
<1>. QED
  BY <1>1 DEF BuildState, StartOf

\* The checkpoints with one more.
LEMMA CheckpointedIs ==
  ASSUME NEW st, BuildState(st), NEW n \in Nat, NEW out, IsSeq(out)
  PROVE  BuildState([st EXCEPT !.last = n, !.cps = Append(@, MakeCheckpoint(out, st.at))])
<1>1. PICK cp : cp = MakeCheckpoint(out, st.at)
  OBVIOUS
<1>2. PICK cps : cps = Append(st.cps, cp)
  OBVIOUS
<1>3. CheckpointOk(cp) /\ AppendOf(st.cps, cp, cps)
  BY <1>1, <1>2, MakeCheckpointIs, AppendIs DEF BuildState
<1>4. PICK x : x = [st EXCEPT !.last = n, !.cps = Append(@, MakeCheckpoint(out, st.at))]
  OBVIOUS
<1>5. x = [out |-> st.out, at |-> st.at, failed |-> st.failed, done |-> st.done,
           last |-> n, cps |-> cps]
  BY <1>1, <1>2, <1>4 DEF BuildState
<1>6. \A k \in 1..Len(cps) : CheckpointOk(cps[k])
  <2>. SUFFICES ASSUME NEW k \in 1..Len(cps) PROVE CheckpointOk(cps[k])
    OBVIOUS
  <2>1. k \in 1..Len(st.cps) \/ k = Len(st.cps) + 1
    BY <1>3 DEF AppendOf, BuildState, IsSeq
  <2>. QED
    BY <1>3, <2>1 DEF AppendOf, BuildState
<1>7. IsSeq(cps) /\ IsSeq(st.out) /\ st.at \in Nat
  BY <1>3 DEF AppendOf, BuildState
<1>8. x.out = st.out /\ x.at = st.at /\ x.failed = st.failed /\ x.done = st.done
      /\ x.last = n /\ x.cps = cps
  BY <1>5
<1>9. BuildState(x)
  BY <1>5, <1>6, <1>7, <1>8 DEF BuildState
<1>. QED
  BY <1>4, <1>9

\* The state of build_checkpoints, step by step.
BuildsTo(data, size, f, n) ==
  f = [k \in 0..n |-> IF k = 0 THEN StartOf(size) ELSE Decoding(f[k - 1], data[k], size)]

\* The state after each block: the recursive function exists.
LEMMA BuildsExist ==
  ASSUME NEW data, NEW size, NEW m \in Nat PROVE \E f : BuildsTo(data, size, f, m)
<1>. DEFINE T == {n \in 0..m : \E f : BuildsTo(data, size, f, n)}
<1>1. 0 \in T
  <2>1. PICK f : f = [k \in 0..0 |-> StartOf(size)]
    OBVIOUS
  <2>2. BuildsTo(data, size, f, 0)
    BY <2>1 DEF BuildsTo
  <2>. QED
    BY <2>2
<1>2. ASSUME NEW n \in 1..m, n - 1 \in T PROVE n \in T
  <2>1. PICK f : BuildsTo(data, size, f, n - 1)
    BY <1>2
  <2>2. PICK g : g = [k \in 0..n |-> IF k = n THEN Decoding(f[n - 1], data[n], size) ELSE f[k]]
    OBVIOUS
  <2>3. n \in Nat /\ n # 0
    OBVIOUS
  <2>4. \A k \in 0..(n - 1) : f[k] = IF k = 0 THEN StartOf(size) ELSE Decoding(f[k - 1], data[k], size)
    BY <2>1 DEF BuildsTo
  <2>5. \A k \in 0..n : g[k] = IF k = n THEN Decoding(f[n - 1], data[n], size) ELSE f[k]
    BY <2>2
  <2>6. ASSUME NEW k \in 0..n PROVE g[k] = IF k = 0 THEN StartOf(size) ELSE Decoding(g[k - 1], data[k], size)
    <3>1. k # 0 => k - 1 \in 0..n /\ k - 1 # n /\ g[k - 1] = f[k - 1]
      BY <2>3, <2>5
    <3>2. CASE k = n
      BY <2>3, <2>5, <3>1, <3>2
    <3>3. CASE k # n
      <4>1. k \in 0..(n - 1)
        BY <2>3, <3>3
      <4>. QED
        BY <2>4, <2>5, <3>1, <3>3, <4>1
    <3>. QED
      BY <3>2, <3>3
  <2>7. g = [k \in 0..n |-> g[k]]
    BY <2>2
  <2>8. BuildsTo(data, size, g, n)
    BY <2>6, <2>7 DEF BuildsTo
  <2>. QED
    BY <2>3, <2>8
<1>3. m \in T
  <2>. HIDE DEF T
  <2>1. \A k \in 0..m : k \in T
    BY <1>1, <1>2, CountUp
  <2>. QED
    BY <2>1
<1>. QED
  BY <1>3

\* The state of build_checkpoints ends with the last of them.
BuildRuns(data, size, f, n) ==
  /\ f[0] = StartOf(size) /\ BuildCheckpoints(data, size) = f[n]
  /\ \A k \in 1..n : f[k] = Decoding(f[k - 1], data[k], size)

\* It is the one that BuildCheckpoints chooses.
LEMMA BuildGoes ==
  ASSUME NEW data, NEW size, NEW m \in Nat, m = Len(data)
  PROVE  \E f : BuildRuns(data, size, f, m)
<1>. DEFINE f == CHOOSE g : g = [n \in 0..Len(data) |-> IF n = 0 THEN StartOf(size) ELSE Decoding(g[n - 1], data[n], size)]
<1>1. BuildsTo(data, size, f, Len(data))
  <2>1. \E g : BuildsTo(data, size, g, Len(data))
    BY BuildsExist
  <2>2. \E g : g = [n \in 0..Len(data) |-> IF n = 0 THEN StartOf(size) ELSE Decoding(g[n - 1], data[n], size)]
    BY <2>1, Zenon DEF BuildsTo
  <2>. QED
    BY <2>2, Zenon DEF BuildsTo
<1>2. BuildCheckpoints(data, size) = f[Len(data)]
  BY Zenon DEF BuildCheckpoints, StartOf
<1>. HIDE DEF f
<1>3. \A k \in 0..m : f[k] = IF k = 0 THEN StartOf(size) ELSE Decoding(f[k - 1], data[k], size)
  BY <1>1 DEF BuildsTo
<1>4. f[0] = StartOf(size) /\ \A k \in 1..m : f[k] = Decoding(f[k - 1], data[k], size)
  <2>1. f[0] = StartOf(size)
    <3>1. 0 \in 0..m
      OBVIOUS
    <3>. QED
      BY <1>3, <3>1
  <2>2. ASSUME NEW k \in 1..m PROVE f[k] = Decoding(f[k - 1], data[k], size)
    <3>1. k \in 0..m /\ k # 0
      OBVIOUS
    <3>. QED
      BY <1>3, <3>1
  <2>. QED
    BY <2>1, <2>2
<1>5. BuildRuns(data, size, f, m)
  BY <1>2, <1>4 DEF BuildRuns
<1>. QED
  BY <1>5

\* A block leaves checkpoints.
LEMMA AdvancedIs ==
  ASSUME NEW st, BuildState(st), NEW r, IsSeq(r.out), NEW final, NEW size
  PROVE  BuildState(Advanced(st, r, final, size))
<1>1. PICK a \in Nat : a = st.at + 1
  BY DEF BuildState
<1>2. PICK n \in Nat : n = Len(r.out)
  BY DEF IsSeq
<1>3. PICK moved : moved = [st EXCEPT !.out = r.out, !.at = @ + 1, !.done = final]
  OBVIOUS
<1>4. moved = [out |-> r.out, at |-> a, failed |-> st.failed, done |-> final,
               last |-> st.last, cps |-> st.cps]
  BY <1>1, <1>3 DEF BuildState
<1>5. BuildState(moved)
  <2>1. /\ moved.out = r.out /\ moved.at = a /\ moved.failed = st.failed
        /\ moved.done = final /\ moved.last = st.last /\ moved.cps = st.cps
    BY <1>4
  <2>. QED
    BY <1>4, <2>1 DEF BuildState
<1>6. BuildState([st EXCEPT !.done = TRUE, !.failed = TRUE])
  <2>1. PICK x : x = [st EXCEPT !.done = TRUE, !.failed = TRUE]
    OBVIOUS
  <2>2. x = [out |-> st.out, at |-> st.at, failed |-> TRUE, done |-> TRUE,
             last |-> st.last, cps |-> st.cps]
    BY <2>1 DEF BuildState
  <2>3. /\ x.out = st.out /\ x.at = st.at /\ x.failed = TRUE /\ x.done = TRUE
        /\ x.last = st.last /\ x.cps = st.cps
    BY <2>2
  <2>4. BuildState(x)
    BY <2>2, <2>3 DEF BuildState
  <2>. QED
    BY <2>1, <2>4
<1>7. BuildState(Checkpointed(moved, r.out))
  <2>1. BuildState([moved EXCEPT !.last = n, !.cps = Append(@, MakeCheckpoint(r.out, moved.at))])
    BY <1>5, CheckpointedIs
  <2>. QED
    BY <1>2, <2>1 DEF Checkpointed
<1>. QED
  BY <1>3, <1>5, <1>6, <1>7 DEF Advanced

\* So does any cell.
LEMMA DecodingIs ==
  ASSUME NEW st, BuildState(st), NEW c, CellOk(c), NEW size
  PROVE  BuildState(Decoding(st, c, size))
<1>1. c.cell = "block" => IsSeq(c.syms)
  BY AnySeqIs DEF CellOk
<1>2. c.cell = "block" => IsSeq(Inflate(st.out, c.syms).out)
  BY <1>1, InflateIs DEF BuildState
<1>3. c.cell = "block" => BuildState(Advanced(st, Inflate(st.out, c.syms), c.final, size))
  BY <1>2, AdvancedIs
<1>4. BuildState([st EXCEPT !.done = TRUE, !.failed = TRUE])
  <2>1. PICK x : x = [st EXCEPT !.done = TRUE, !.failed = TRUE]
    OBVIOUS
  <2>2. x = [out |-> st.out, at |-> st.at, failed |-> TRUE, done |-> TRUE,
             last |-> st.last, cps |-> st.cps]
    BY <2>1 DEF BuildState
  <2>3. /\ x.out = st.out /\ x.at = st.at /\ x.failed = TRUE /\ x.done = TRUE
        /\ x.last = st.last /\ x.cps = st.cps
    BY <2>2
  <2>4. BuildState(x)
    BY <2>2, <2>3 DEF BuildState
  <2>. QED
    BY <2>1, <2>4
<1>. QED
  BY <1>3, <1>4 DEF Decoding

\* Whatever the data, the checkpoints that are built are well-formed.
LEMMA BuildCheckpointsIs ==
  ASSUME NEW data, Blocks(data), NEW size PROVE BuildState(BuildCheckpoints(data, size))
<1>1. PICK m \in Nat : m = Len(data)
  BY DEF Blocks, IsSeq
<1>2. PICK f : BuildRuns(data, size, f, m)
  BY <1>1, BuildGoes
<1>. DEFINE T == {k \in 0..m : BuildState(f[k])}
<1>3. 0 \in T
  <2>1. BuildState(f[0])
    BY <1>2, StartIs DEF BuildRuns
  <2>. QED
    BY <2>1
<1>4. ASSUME NEW k \in 1..m, k - 1 \in T PROVE k \in T
  <2>1. CellOk(data[k])
    BY <1>1 DEF Blocks
  <2>2. f[k] = Decoding(f[k - 1], data[k], size)
    BY <1>2 DEF BuildRuns
  <2>3. BuildState(f[k])
    BY <1>4, <2>1, <2>2, DecodingIs
  <2>. QED
    BY <2>3
<1>5. m \in T
  <2>. HIDE DEF T
  <2>1. \A k \in 0..m : k \in T
    BY <1>3, <1>4, CountUp
  <2>. QED
    BY <2>1
<1>. QED
  BY <1>2, <1>5 DEF BuildRuns

-----------------------------------------------------------------------------
(* Parsing. *)

\* Whatever is at a place of a file.
LEMMA AtIs ==
  ASSUME NEW zip, Blocks(zip), NEW off \in Nat
  PROVE  CellOk(At(zip, off)) /\ (At(zip, off).cell # "end" => At(zip, off) = zip[off + 1] /\ off + 1 \in 1..Len(zip))
<1>1. Len(zip) \in Nat
  BY DEF Blocks, IsSeq
<1>2. CASE off < Len(zip)
  <2>1. off + 1 \in 1..Len(zip)
    BY <1>1, <1>2
  <2>. QED
    BY <1>2, <2>1 DEF At, Blocks
<1>3. CASE ~(off < Len(zip))
  <2>1. PICK c : c = [cell |-> "end"]
    OBVIOUS
  <2>2. c.cell = "end"
    BY <2>1
  <2>3. CellOk(c)
    BY <2>2 DEF CellOk
  <2>. QED
    BY <1>3, <2>1, <2>2, <2>3 DEF At
<1>. QED
  BY <1>2, <1>3

\* The end record is where there is one.
LEMMA FindEocdIs ==
  ASSUME NEW zip, Blocks(zip) PROVE FindEocd(zip) \in Nat \/ FindEocd(zip) = NoEocd
<1>. DEFINE T == {o \in 0..(Len(zip) - 1) : EndsFile(zip, o, At(zip, o))}
<1>1. Len(zip) \in Nat
  BY DEF Blocks, IsSeq
<1>2. ASSUME T # {} PROVE FindEocd(zip) \in Nat
  <2>1. T \subseteq 0..Len(zip)
    BY <1>1
  <2>. HIDE DEF T
  <2>2. PICK x \in T : \A y \in T : y <= x
    BY <1>1, <1>2, <2>1, GreatestNatural
  <2>3. LastOf(T) \in T
    BY <1>2, <2>2, Zenon DEF LastOf
  <2>4. LastOf(T) \in Nat
    <3>1. PICK o : o = LastOf(T)
      OBVIOUS
    <3>2. o \in 0..Len(zip)
      BY <2>1, <2>3, <3>1
    <3>. QED
      BY <3>1, <3>2
  <2>. QED
    BY <2>4 DEF FindEocd, T
<1>3. T = {} => FindEocd(zip) = NoEocd
  BY DEF FindEocd, LastOf
<1>. QED
  BY <1>2, <1>3
\* The record with the values, as far as it is one.
LEMMA EndRecordIs ==
  ASSUME NEW zip, Blocks(zip), NEW e \in Nat PROVE CellOk(EndRecord(zip, e))
<1>1. CellOk(Pad)
  <2>1. Pad.cell = "pad"
    BY DEF Pad
  <2>. QED
    BY <2>1 DEF CellOk
<1>2. CellOk(At(zip, e))
  BY AtIs
<1>3. ASSUME e > 0 PROVE CellOk(Eocd64At(zip, At(zip, e - 1)))
  <2>1. PICK p \in Nat : p = e - 1
    <3>1. e - 1 \in Nat
      BY <1>3
    <3>. QED
      BY <3>1
  <2>2. CellOk(At(zip, p))
    BY AtIs
  <2>3. At(zip, p).cell = "locator" => CellOk(At(zip, At(zip, p).at))
    <3>. SUFFICES ASSUME At(zip, p).cell = "locator" PROVE CellOk(At(zip, At(zip, p).at))
      OBVIOUS
    <3>1. PICK a \in Nat : a = At(zip, p).at
      BY <2>2 DEF CellOk
    <3>. QED
      BY <3>1, AtIs
  <2>. QED
    BY <1>1, <2>1, <2>3 DEF Eocd64At, Eocd64Or
<1>. QED
  BY <1>1, <1>2, <1>3 DEF EndRecord

\* The directory that is found has a place and a size.
DirectoryIs(d) == d.ok => d.offset \in Nat /\ d.size \in Nat /\ d.count \in Nat

\* The place of a directory is given by numbers.
LEMMA DirectoryFound ==
  ASSUME NEW zip, Blocks(zip) PROVE DirectoryIs(Directory(zip, FindEocd(zip)))
<1>1. DirectoryIs(Refused)
  BY DEF DirectoryIs, Refused
<1>2. ASSUME NEW d, CellOk(d), NEW len PROVE DirectoryIs(DirectoryOf(d, len))
  <2>1. CASE d.cell \notin {"eocd", "eocd64"}
    BY <1>1, <2>1 DEF DirectoryOf
  <2>2. CASE d.cell \in {"eocd", "eocd64"}
    <3>1. d.count \in Nat /\ d.cdSize \in Nat /\ d.cdOffset \in Nat
      BY <1>2, <2>2 DEF CellOk
    <3>2. PICK r : r = [ok |-> TRUE, offset |-> d.cdOffset, size |-> d.cdSize, count |-> d.count]
      OBVIOUS
    <3>3. DirectoryIs(r)
      BY <3>1, <3>2 DEF DirectoryIs
    <3>. QED
      BY <1>1, <2>2, <3>2, <3>3 DEF DirectoryOf
  <2>. QED
    BY <2>1, <2>2
<1>3. FindEocd(zip) \in Nat \/ FindEocd(zip) = NoEocd
  BY FindEocdIs
<1>4. FindEocd(zip) \in Nat => CellOk(EndRecord(zip, FindEocd(zip)))
  BY EndRecordIs
<1>. QED
  BY <1>1, <1>2, <1>3, <1>4 DEF Directory

\* The values of a record, with those that are in its extra field.
Triple(w) == w[1] \in Nat /\ w[2] \in Nat /\ w[3] \in Nat

\* The fields of a record are numbers, also those of Zip64.
LEMMA WidenedIs ==
  ASSUME NEW rec, CdRecord(rec), Widened(rec) # NotWidened PROVE Triple(Widened(rec))
<1>1. PICK fields : fields = <<rec.uncomp, rec.comp, rec.lho>>
  OBVIOUS
<1>2. PICK z : z = rec.z64
  OBVIOUS
<1>3. z \in Seq(Nat) /\ Len(z) \in Nat /\ \A k \in 1..3 : fields[k] \in Nat
  <2>1. rec.uncomp \in Nat /\ rec.comp \in Nat /\ rec.lho \in Nat /\ z \in Seq(Nat)
    BY <1>2 DEF CdRecord
  <2>2. fields[1] = rec.uncomp /\ fields[2] = rec.comp /\ fields[3] = rec.lho
    BY <1>1
  <2>3. \A k \in 1..3 : k = 1 \/ k = 2 \/ k = 3
    OBVIOUS
  <2>. QED
    BY <2>1, <2>2, <2>3
<1>. DEFINE P(k) == {j \in 1..k : fields[j] = U32Max}
<1>4. \A k \in 1..3 : IsFiniteSet(P(k)) /\ Cardinality(P(k)) \in Nat /\ Cardinality(P(k)) <= Cardinality(P(3))
  <2>. SUFFICES ASSUME NEW k \in 1..3
                PROVE  /\ IsFiniteSet(P(k)) /\ Cardinality(P(k)) \in Nat
                       /\ Cardinality(P(k)) <= Cardinality(P(3))
    OBVIOUS
  <2>1. PICK a \in Int : a = 1
    OBVIOUS
  <2>2. PICK b \in Int : b = 3
    OBVIOUS
  <2>3. IsFiniteSet(a..b)
    BY FS_Interval
  <2>4. P(3) \subseteq a..b /\ P(k) \subseteq P(3)
    BY <2>1, <2>2
  <2>5. IsFiniteSet(P(3))
    BY <2>3, <2>4, FS_Subset
  <2>6. IsFiniteSet(P(k)) /\ Cardinality(P(k)) <= Cardinality(P(3))
    <3>. HIDE DEF P
    <3>. QED
      BY <2>4, <2>5, FS_Subset
  <2>7. Cardinality(P(k)) \in Nat
    BY <2>6, FS_CardinalityType
  <2>. QED
    BY <2>6, <2>7
<1>5. \A k \in 1..3 : fields[k] = U32Max => Cardinality(P(k)) # 0
  <2>. SUFFICES ASSUME NEW k \in 1..3, fields[k] = U32Max PROVE Cardinality(P(k)) # 0
    OBVIOUS
  <2>1. k \in P(k)
    OBVIOUS
  <2>2. IsFiniteSet(P(k))
    BY <1>4
  <2>. HIDE DEF P
  <2>3. P(k) # {}
    BY <2>1
  <2>. QED
    BY <2>2, <2>3, FS_EmptySet
<1>6. PICK w : w = [k \in 1..3 |-> IF fields[k] = U32Max THEN z[Cardinality(P(k))] ELSE fields[k]]
  OBVIOUS
<1>7. Widened(rec) = IF Cardinality(P(3)) > Len(z) THEN NotWidened ELSE w
  BY <1>1, <1>2, <1>6 DEF Widened, WidenedBy
<1>. HIDE DEF P
<1>8. 3 \in 1..3 /\ 2 \in 1..3 /\ 1 \in 1..3
  OBVIOUS
<1>9. Cardinality(P(3)) <= Len(z) /\ Widened(rec) = w
  BY <1>3, <1>4, <1>7, <1>8
<1>10. \A k \in 1..3 : w[k] \in Nat
  <2>. SUFFICES ASSUME NEW k \in 1..3 PROVE w[k] \in Nat
    OBVIOUS
  <2>1. CASE fields[k] = U32Max
    <3>1. PICK c \in Nat : c = Cardinality(P(k))
      BY <1>4
    <3>2. c \in 1..Len(z)
      BY <1>3, <1>4, <1>5, <1>8, <1>9, <2>1, <3>1
    <3>3. w[k] = z[c]
      BY <1>6, <2>1, <3>1
    <3>. QED
      BY <1>3, <3>2, <3>3
  <2>2. CASE fields[k] # U32Max
    BY <1>3, <1>6, <2>2
  <2>. QED
    BY <2>1, <2>2
<1>. QED
  BY <1>8, <1>9, <1>10 DEF Triple

\* The values of a record: the places in its extra field are those of the values that
\* do not fit.
WidePlaces(r, k) == {j \in 1..k : <<r.uncomp, r.comp, r.lho>>[j] = U32Max}

\* What Widened returns for it.
LEMMA WideIs ==
  ASSUME NEW r
  PROVE  /\ Widened(r) # NotWidened <=> ~(Cardinality(WidePlaces(r, 3)) > Len(r.z64))
         /\ Widened(r) # NotWidened /\ r.lho # U32Max => Widened(r)[3] = r.lho
         /\ Widened(r) # NotWidened =>
              Widened(r)[2] = IF r.comp = U32Max THEN r.z64[Cardinality(WidePlaces(r, 2))] ELSE r.comp
<1>1. PICK f : f = <<r.uncomp, r.comp, r.lho>>
  OBVIOUS
<1>2. PICK w : w = [k \in 1..3 |-> IF f[k] = U32Max THEN r.z64[Cardinality(WidePlaces(r, k))] ELSE f[k]]
  OBVIOUS
<1>3. Widened(r) = IF Cardinality(WidePlaces(r, 3)) > Len(r.z64) THEN NotWidened ELSE w
  BY <1>1, <1>2 DEF Widened, WidenedBy, WidePlaces
<1>4. w # NotWidened
  <2>1. PICK o : o = <<>>
    OBVIOUS
  <2>2. DOMAIN o = {} /\ 1 \in DOMAIN w
    BY <1>2, <2>1
  <2>. QED
    BY <2>1, <2>2 DEF NotWidened
<1>5. r.lho # U32Max => w[3] = r.lho
  <2>1. f[3] = r.lho /\ 3 \in 1..3
    BY <1>1
  <2>. QED
    BY <1>2, <2>1
<1>6. w[2] = IF r.comp = U32Max THEN r.z64[Cardinality(WidePlaces(r, 2))] ELSE r.comp
  <2>1. f[2] = r.comp /\ 2 \in 1..3
    BY <1>1
  <2>. QED
    BY <1>2, <2>1
<1>. QED
  BY <1>3, <1>4, <1>5, <1>6

\* There are three of them at most.
LEMMA WidePlacesAre ==
  ASSUME NEW r PROVE IsFiniteSet(WidePlaces(r, 3)) /\ Cardinality(WidePlaces(r, 3)) \in Nat
<1>1. PICK a \in Int : a = 1
  OBVIOUS
<1>2. PICK b \in Int : b = 3
  OBVIOUS
<1>3. IsFiniteSet(a..b)
  BY FS_Interval
<1>4. WidePlaces(r, 3) \subseteq a..b
  BY <1>1, <1>2 DEF WidePlaces
<1>5. IsFiniteSet(WidePlaces(r, 3))
  BY <1>3, <1>4, FS_Subset
<1>. QED
  BY <1>5, FS_CardinalityType

\* A record that can be read can be read with another place, if that is none that
\* stands for one in the extra field, or the one that it had there.
LEMMA WidenedMoved ==
  ASSUME NEW r, CdRecord(r), Widened(r) # NotWidened, NEW lho \in Nat,
         lho # U32Max \/ lho = Widened(r)[3]
  PROVE  /\ Widened([r EXCEPT !.lho = lho]) # NotWidened
         /\ Widened([r EXCEPT !.lho = lho])[3] = lho
<1>1. PICK x : x = [r EXCEPT !.lho = lho]
  OBVIOUS
<1>2. x.uncomp = r.uncomp /\ x.comp = r.comp /\ x.lho = lho /\ x.z64 = r.z64
  BY <1>1 DEF CdRecord
<1>3. CASE lho # U32Max
  <2>1. WidePlaces(x, 3) \subseteq WidePlaces(r, 3)
    <3>. SUFFICES ASSUME NEW j \in WidePlaces(x, 3) PROVE j \in WidePlaces(r, 3)
      OBVIOUS
    <3>1. j \in 1..3 /\ <<x.uncomp, x.comp, x.lho>>[j] = U32Max
      BY DEF WidePlaces
    <3>2. <<x.uncomp, x.comp, x.lho>>[3] = lho
      BY <1>2
    <3>3. j = 1 \/ j = 2
      BY <1>3, <3>1, <3>2
    <3>4. <<r.uncomp, r.comp, r.lho>>[j] = U32Max
      BY <1>2, <3>1, <3>3
    <3>. QED
      BY <3>1, <3>4 DEF WidePlaces
  <2>2. Cardinality(WidePlaces(x, 3)) <= Cardinality(WidePlaces(r, 3))
    BY <2>1, WidePlacesAre, FS_Subset
  <2>3. ~(Cardinality(WidePlaces(r, 3)) > Len(r.z64))
    BY WideIs
  <2>4. Len(r.z64) \in Nat
    BY DEF CdRecord
  <2>5. ~(Cardinality(WidePlaces(x, 3)) > Len(x.z64))
    <3>1. PICK c \in Nat : c = Cardinality(WidePlaces(x, 3))
      BY WidePlacesAre
    <3>2. PICK d \in Nat : d = Cardinality(WidePlaces(r, 3))
      BY WidePlacesAre
    <3>. QED
      BY <1>2, <2>2, <2>3, <2>4, <3>1, <3>2
  <2>6. Widened(x) # NotWidened
    BY <2>5, WideIs
  <2>7. Widened(x)[3] = lho
    BY <1>2, <1>3, <2>6, WideIs
  <2>. QED
    BY <1>1, <2>6, <2>7
<1>4. CASE lho = U32Max
  <2>1. lho = Widened(r)[3]
    BY <1>4
  <2>2. r.lho = lho
    BY <1>4, <2>1, WideIs
  <2>3. x = r
    BY <1>1, <2>2 DEF CdRecord
  <2>. QED
    BY <1>1, <2>1, <2>3
<1>. QED
  BY <1>3, <1>4

\* A record all of whose values fit can be read.
LEMMA FittingReads ==
  ASSUME NEW r, CdRecord(r), U32Max \notin {r.uncomp, r.comp, r.lho} PROVE Widened(r) # NotWidened
<1>1. WidePlaces(r, 3) = {}
  <2>. SUFFICES ASSUME NEW j \in 1..3 PROVE <<r.uncomp, r.comp, r.lho>>[j] # U32Max
    BY DEF WidePlaces
  <2>1. PICK f : f = <<r.uncomp, r.comp, r.lho>>
    OBVIOUS
  <2>2. f[1] = r.uncomp /\ f[2] = r.comp /\ f[3] = r.lho /\ (j = 1 \/ j = 2 \/ j = 3)
    BY <2>1
  <2>. QED
    BY <2>1, <2>2
<1>2. Cardinality(WidePlaces(r, 3)) = 0
  BY <1>1, FS_EmptySet
<1>3. Len(r.z64) \in Nat
  BY DEF CdRecord
<1>. QED
  BY <1>2, <1>3, WideIs

\* What a record with another place says of the length of the data.
CompIs(r, comp) ==
  \A at \in Nat : Widened([r EXCEPT !.lho = at]) # NotWidened =>
                    Widened([r EXCEPT !.lho = at])[2] = comp

\* It is the same wherever the record puts the entry.
LEMMA CompMoved ==
  ASSUME NEW r, CdRecord(r), Widened(r) # NotWidened PROVE CompIs(r, Widened(r)[2])
<1>. SUFFICES ASSUME NEW at \in Nat, NEW x, x = [r EXCEPT !.lho = at], Widened(x) # NotWidened
              PROVE  Widened(x)[2] = Widened(r)[2]
  BY DEF CompIs
<1>1. x.uncomp = r.uncomp /\ x.comp = r.comp /\ x.z64 = r.z64
  BY DEF CdRecord
<1>2. ASSUME NEW j \in 1..2 PROVE <<x.uncomp, x.comp, x.lho>>[j] = <<r.uncomp, r.comp, r.lho>>[j]
  <2>1. j = 1 \/ j = 2
    OBVIOUS
  <2>. QED
    BY <1>1, <2>1
<1>3. WidePlaces(x, 2) = WidePlaces(r, 2)
  BY <1>2 DEF WidePlaces
<1>4. Widened(x)[2] = IF x.comp = U32Max THEN x.z64[Cardinality(WidePlaces(x, 2))] ELSE x.comp
  BY WideIs
<1>5. Widened(r)[2] = IF r.comp = U32Max THEN r.z64[Cardinality(WidePlaces(r, 2))] ELSE r.comp
  BY WideIs
<1>. QED
  BY <1>1, <1>3, <1>4, <1>5

\* A record without an extra field can only be read if it has the length itself.
LEMMA CompAnew ==
  ASSUME NEW r, CdRecord(r), r.z64 = <<>> PROVE CompIs(r, r.comp)
<1>. SUFFICES ASSUME NEW at \in Nat, NEW x, x = [r EXCEPT !.lho = at], Widened(x) # NotWidened
              PROVE  Widened(x)[2] = r.comp
  BY DEF CompIs
<1>1. x.uncomp = r.uncomp /\ x.comp = r.comp /\ x.z64 = <<>>
  BY DEF CdRecord
<1>2. Widened(x)[2] = IF x.comp = U32Max THEN x.z64[Cardinality(WidePlaces(x, 2))] ELSE x.comp
  BY WideIs
<1>3. x.comp # U32Max
  <2>. SUFFICES ASSUME x.comp = U32Max PROVE FALSE
    OBVIOUS
  <2>1. <<x.uncomp, x.comp, x.lho>>[2] = U32Max /\ 2 \in 1..3
    OBVIOUS
  <2>2. WidePlaces(x, 3) # {}
    BY <2>1 DEF WidePlaces
  <2>3. Cardinality(WidePlaces(x, 3)) # 0
    BY <2>2, WidePlacesAre, FS_EmptySet
  <2>4. Len(x.z64) = 0
    BY <1>1
  <2>5. ~(Cardinality(WidePlaces(x, 3)) > Len(x.z64))
    BY WideIs
  <2>6. PICK c \in Nat : c = Cardinality(WidePlaces(x, 3))
    BY WidePlacesAre
  <2>. QED
    BY <2>3, <2>4, <2>5, <2>6
<1>. QED
  BY <1>1, <1>2, <1>3

\* The entries that are parsed, from records that can be read.
EntryOk(e) ==
  /\ e.name \in Names /\ e.uncomp \in Nat /\ e.comp \in Nat /\ e.lho \in Nat
  /\ CdRecord(e.record) /\ Widened(e.record) # NotWidened /\ e.lho = Widened(e.record)[3]
  /\ e.comp = Widened(e.record)[2] /\ e.name = e.record.name
ParsedIs(ar) ==
  ar.ok => /\ IsSeq(ar.entries) /\ \A i \in 1..Len(ar.entries) : EntryOk(ar.entries[i])
           /\ DirectoryIs(ar.dir) /\ ar.dir.ok

\* What is parsed are entries with numbers.
LEMMA ParseIs == ASSUME NEW zip, Blocks(zip) PROVE ParsedIs(Parse(zip))
<1>1. PICK d : d = Directory(zip, FindEocd(zip))
  OBVIOUS
<1>2. DirectoryIs(d)
  BY <1>1, DirectoryFound
<1>3. ParsedIs(Refused)
  BY DEF ParsedIs, Refused
<1>4. ASSUME d.ok PROVE ParsedIs(ParseAt(zip, d))
  <2>1. d.offset \in Nat /\ d.size \in Nat /\ d.count \in Nat
    BY <1>2, <1>4 DEF DirectoryIs
  <2>2. PICK recs : recs = [i \in 1..d.size |-> At(zip, d.offset + i - 1)]
    OBVIOUS
  <2>3. \A i \in 1..d.size : CellOk(recs[i])
    <3>. SUFFICES ASSUME NEW i \in 1..d.size PROVE CellOk(recs[i])
      OBVIOUS
    <3>1. PICK off \in Nat : off = d.offset + i - 1
      <4>1. d.offset + i - 1 \in Nat
        BY <2>1
      <4>. QED
        BY <4>1
    <3>. QED
      BY <2>2, <3>1, AtIs
  <2>4. PICK es : es = [i \in 1..d.count |-> EntryOf(recs[i], Widened(recs[i]))]
    OBVIOUS
  <2>5. PICK ar : ar = [ok |-> TRUE, dir |-> d, entries |-> es]
    OBVIOUS
  <2>6. ParseAt(zip, d) = IF d.count > d.size THEN Refused
                          ELSE IF \E i \in 1..d.count : ~Readable(recs[i]) THEN Refused ELSE ar
    BY <1>4, <2>2, <2>4, <2>5 DEF ParseAt, ParseCd
  <2>7. ASSUME d.count <= d.size, \A i \in 1..d.count : Readable(recs[i]) PROVE ParsedIs(ar)
    <3>1. IsSeq(es) /\ Len(es) = d.count
      BY <2>1, <2>4 DEF IsSeq
    <3>2. ASSUME NEW i \in 1..d.count PROVE EntryOk(es[i])
      <4>1. i \in 1..d.size /\ Readable(recs[i])
        BY <2>1, <2>7
      <4>2. recs[i].cell = "cdfh" /\ Widened(recs[i]) # NotWidened /\ CellOk(recs[i])
        BY <2>3, <4>1 DEF Readable
      <4>3. CdRecord(recs[i]) /\ Triple(Widened(recs[i]))
        BY <4>2, WidenedIs DEF CellOk
      <4>4. PICK e : e = EntryOf(recs[i], Widened(recs[i]))
        OBVIOUS
      <4>5. /\ e.uncomp = Widened(recs[i])[1] /\ e.comp = Widened(recs[i])[2]
            /\ e.lho = Widened(recs[i])[3] /\ e.record = recs[i] /\ e.name = recs[i].name
        BY <4>4 DEF EntryOf
      <4>6. recs[i].name \in Names
        BY <4>3 DEF CdRecord
      <4>7. EntryOk(e)
        BY <4>2, <4>3, <4>5, <4>6 DEF EntryOk, Triple
      <4>. QED
        BY <2>4, <4>4, <4>7
    <3>3. ar.ok /\ ar.dir = d /\ ar.entries = es
      BY <2>5
    <3>. QED
      BY <1>2, <1>4, <3>1, <3>2, <3>3 DEF ParsedIs
  <2>. QED
    BY <1>3, <2>1, <2>6, <2>7
<1>. QED
  BY <1>1, <1>3, <1>4 DEF Parse, ParseAt

\* Where the data of an entry are.
LEMMA DataOffsetIs ==
  ASSUME NEW zip, Blocks(zip), NEW e, EntryOk(e), DataOffset(zip, e) # NoData
  PROVE  /\ DataOffset(zip, e) \in Nat /\ DataOffset(zip, e) + e.comp <= Len(zip)
         /\ e.lho < DataOffset(zip, e)
<1>1. PICK h : h = At(zip, e.lho)
  OBVIOUS
<1>2. e.lho \in Nat /\ e.comp \in Nat /\ Len(zip) \in Nat
  BY DEF EntryOk, Blocks, IsSeq
<1>3. CellOk(h)
  BY <1>1, <1>2, AtIs
<1>4. h.cell = "lfh" /\ ~(e.lho + 1 + h.extra + e.comp > Len(zip))
      /\ DataOffset(zip, e) = e.lho + 1 + h.extra
  BY <1>1 DEF DataOffset
<1>5. h.extra \in Nat
  BY <1>3, <1>4 DEF CellOk
<1>. QED
  BY <1>2, <1>4, <1>5

\* Cells of a file are cells.
LEMMA CellsFromIs ==
  ASSUME NEW zip, Blocks(zip), NEW at \in Nat, NEW count \in Nat, at + count <= Len(zip)
  PROVE  Blocks(SubSeq(zip, at + 1, at + count)) /\ Len(SubSeq(zip, at + 1, at + count)) = count
<1>1. PICK a \in Nat \ {0} : a = at + 1
  OBVIOUS
<1>2. PICK x : x = SubSeq(zip, a, a + count - 1)
  OBVIOUS
<1>3. a + count - 1 = at + count
  BY <1>1
<1>4. PartOf(zip, a, count, x)
  BY <1>1, <1>2, <1>3, PartIs DEF Blocks
<1>5. Len(zip) \in Nat
  BY DEF Blocks, IsSeq
<1>6. ASSUME NEW k \in 1..count PROVE CellOk(x[k])
  <2>1. a + k - 1 \in 1..Len(zip) /\ x[k] = zip[a + k - 1]
    BY <1>1, <1>4, <1>5 DEF PartOf
  <2>. QED
    BY <2>1 DEF Blocks
<1>. QED
  BY <1>1, <1>2, <1>3, <1>4, <1>6 DEF Blocks, PartOf

\* The data of an entry are as long as it says.
LEMMA EntryDataIs ==
  ASSUME NEW zip, Blocks(zip), NEW e, EntryOk(e), DataOffset(zip, e) # NoData
  PROVE  Blocks(EntryData(zip, e)) /\ Len(EntryData(zip, e)) = e.comp
<1>1. PICK at \in Nat : at = DataOffset(zip, e)
  BY DataOffsetIs
<1>2. PICK count \in Nat : count = e.comp
  BY DEF EntryOk
<1>3. at + count <= Len(zip)
  BY <1>1, <1>2, DataOffsetIs
<1>4. EntryData(zip, e) = SubSeq(zip, at + 1, at + count)
  BY <1>1, <1>2 DEF EntryData, CellsFrom
<1>5. Blocks(SubSeq(zip, at + 1, at + count)) /\ Len(SubSeq(zip, at + 1, at + count)) = count
  BY <1>3, CellsFromIs
<1>. QED
  BY <1>2, <1>4, <1>5

-----------------------------------------------------------------------------
(* Building the index. *)

\* A sequence of members of a set.
ItemsIn(x, R) == IsSeq(x) /\ \A i \in 1..Len(x) : x[i] \in R

\* Two of them behind each other.
LEMMA JoinItems ==
  ASSUME NEW R, NEW s, ItemsIn(s, R), NEW t, ItemsIn(t, R) PROVE ItemsIn(s \o t, R)
<1>1. PICK z : z = s \o t
  OBVIOUS
<1>2. IsSeq(s) /\ IsSeq(t)
  BY DEF ItemsIn
<1>3. JoinOf(s, t, z)
  BY <1>1, <1>2, JoinIs
<1>4. Len(s) \in Nat /\ Len(t) \in Nat
  BY <1>2 DEF IsSeq
<1>5. ASSUME NEW i \in 1..Len(z) PROVE z[i] \in R
  <2>1. CASE i <= Len(s)
    <3>1. i \in 1..Len(s)
      BY <1>3, <1>4, <2>1 DEF JoinOf
    <3>. QED
      BY <1>3, <3>1 DEF JoinOf, ItemsIn
  <2>2. CASE ~(i <= Len(s))
    <3>1. PICK k \in 1..Len(t) : i = Len(s) + k
      <4>1. i - Len(s) \in 1..Len(t) /\ i = Len(s) + (i - Len(s))
        BY <1>3, <1>4, <2>2 DEF JoinOf
      <4>. QED
        BY <4>1
    <3>. QED
      BY <1>3, <3>1 DEF JoinOf, ItemsIn
  <2>. QED
    BY <2>1, <2>2
<1>. QED
  BY <1>1, <1>3, <1>5 DEF ItemsIn, JoinOf

\* A part of one.
LEMMA PartItems ==
  ASSUME NEW R, NEW s, ItemsIn(s, R), NEW a \in Nat \ {0}, NEW b \in Int, b <= Len(s)
  PROVE  ItemsIn(SubSeq(s, a, b), R)
<1>1. PICK x : x = SubSeq(s, a, b)
  OBVIOUS
<1>2. IsSeq(s) /\ Len(s) \in Nat
  BY DEF ItemsIn, IsSeq
<1>3. /\ IsSeq(x) /\ Len(x) = IF a <= b THEN b - a + 1 ELSE 0
      /\ \A i \in 1..Len(x) : x[i] = s[i + a - 1]
  BY <1>1, <1>2, AnyPart
<1>4. ASSUME NEW i \in 1..Len(x) PROVE x[i] \in R
  <2>1. i + a - 1 \in 1..Len(s)
    BY <1>2, <1>3
  <2>. QED
    BY <1>3, <2>1 DEF ItemsIn
<1>. QED
  BY <1>1, <1>3, <1>4 DEF ItemsIn

\* One of them alone.
LEMMA OneItem == ASSUME NEW R, NEW x \in R PROVE ItemsIn(<<x>>, R)
<1>1. PICK o : o = <<x>>
  OBVIOUS
<1>2. Len(o) = 1 /\ o[1] = x /\ o = [i \in 1..1 |-> o[i]]
  BY <1>1
<1>. QED
  BY <1>1, <1>2 DEF ItemsIn, IsSeq

\* A record put among records.
LEMMA InsertedIs ==
  ASSUME NEW R, NEW recs, ItemsIn(recs, R), NEW r \in R PROVE ItemsIn(Inserted(recs, r), R)
<1>. DEFINE T == {i \in 1..Len(recs) : ~Before(r, recs[i])}
<1>1. Len(recs) \in Nat
  BY DEF ItemsIn, IsSeq
<1>2. PICK c \in 0..Len(recs) : c = Cardinality(T)
  <2>1. PICK a \in Int : a = 1
    OBVIOUS
  <2>2. PICK n \in Nat : n = Len(recs)
    BY <1>1
  <2>3. IsFiniteSet(a..n) /\ Cardinality(a..n) = IF a > n THEN 0 ELSE n - a + 1
    BY FS_Interval
  <2>4. T \subseteq a..n
    BY <2>1, <2>2
  <2>5. Cardinality(T) \in Nat /\ Cardinality(T) <= Cardinality(a..n)
    BY <2>3, <2>4, FS_Subset, FS_CardinalityType
  <2>6. Cardinality(a..n) = n
    BY <2>1, <2>2, <2>3
  <2>. HIDE DEF T
  <2>. QED
    BY <2>2, <2>5, <2>6
<1>3. PICK x : x = SubSeq(recs, 1, c)
  OBVIOUS
<1>4. PICK y : y = SubSeq(recs, c + 1, Len(recs))
  OBVIOUS
<1>5. ItemsIn(x, R)
  <2>1. c \in Int /\ c <= Len(recs) /\ 1 \in Nat \ {0}
    BY <1>1
  <2>. QED
    BY <1>3, <2>1, PartItems
<1>6. ItemsIn(y, R)
  <2>1. c + 1 \in Nat \ {0} /\ Len(recs) \in Int /\ Len(recs) <= Len(recs)
    BY <1>1
  <2>. QED
    BY <1>4, <2>1, PartItems
<1>7. ItemsIn(x \o <<r>>, R)
  BY <1>5, OneItem, JoinItems
<1>8. ItemsIn((x \o <<r>>) \o y, R)
  BY <1>6, <1>7, JoinItems
<1>9. Inserted(recs, r) = InsertAt(recs, c + 1, r)
  BY <1>2 DEF Inserted
<1>10. (c + 1) - 1 = c
  BY <1>1
<1>11. InsertAt(recs, c + 1, r) = (x \o <<r>>) \o y
  BY <1>3, <1>4, <1>10 DEF InsertAt
<1>. QED
  BY <1>8, <1>9, <1>11
\* The records in their order, step by step.
SortsTo(recs, f, n) ==
  f = [k \in 0..n |-> IF k = 0 THEN <<>> ELSE Inserted(f[k - 1], recs[k])]

\* The records sorted so far: the recursive function exists.
LEMMA SortsExist ==
  ASSUME NEW recs, NEW m \in Nat PROVE \E f : SortsTo(recs, f, m)
<1>. DEFINE T == {n \in 0..m : \E f : SortsTo(recs, f, n)}
<1>1. 0 \in T
  <2>1. PICK f : f = [k \in 0..0 |-> <<>>]
    OBVIOUS
  <2>2. SortsTo(recs, f, 0)
    BY <2>1 DEF SortsTo
  <2>. QED
    BY <2>2
<1>2. ASSUME NEW n \in 1..m, n - 1 \in T PROVE n \in T
  <2>1. PICK f : SortsTo(recs, f, n - 1)
    BY <1>2
  <2>2. PICK g : g = [k \in 0..n |-> IF k = n THEN Inserted(f[n - 1], recs[n]) ELSE f[k]]
    OBVIOUS
  <2>3. n \in Nat /\ n # 0
    OBVIOUS
  <2>4. \A k \in 0..(n - 1) : f[k] = IF k = 0 THEN <<>> ELSE Inserted(f[k - 1], recs[k])
    BY <2>1 DEF SortsTo
  <2>5. \A k \in 0..n : g[k] = IF k = n THEN Inserted(f[n - 1], recs[n]) ELSE f[k]
    BY <2>2
  <2>6. ASSUME NEW k \in 0..n PROVE g[k] = IF k = 0 THEN <<>> ELSE Inserted(g[k - 1], recs[k])
    <3>1. k # 0 => k - 1 \in 0..n /\ k - 1 # n /\ g[k - 1] = f[k - 1]
      BY <2>3, <2>5
    <3>2. CASE k = n
      BY <2>3, <2>5, <3>1, <3>2
    <3>3. CASE k # n
      <4>1. k \in 0..(n - 1)
        BY <2>3, <3>3
      <4>. QED
        BY <2>4, <2>5, <3>1, <3>3, <4>1
    <3>. QED
      BY <3>2, <3>3
  <2>7. g = [k \in 0..n |-> g[k]]
    BY <2>2
  <2>8. SortsTo(recs, g, n)
    BY <2>6, <2>7 DEF SortsTo
  <2>. QED
    BY <2>3, <2>8
<1>3. m \in T
  <2>. HIDE DEF T
  <2>1. \A k \in 0..m : k \in T
    BY <1>1, <1>2, CountUp
  <2>. QED
    BY <2>1
<1>. QED
  BY <1>3

\* The records in their order ends with the last of them.
SortRuns(recs, f, n) ==
  /\ f[0] = <<>> /\ Sorted(recs) = f[n]
  /\ \A k \in 1..n : f[k] = Inserted(f[k - 1], recs[k])

\* It is the one that Sorted chooses.
LEMMA SortGoes ==
  ASSUME NEW recs, NEW m \in Nat, m = Len(recs)
  PROVE  \E f : SortRuns(recs, f, m)
<1>. DEFINE f == CHOOSE g : g = [n \in 0..Len(recs) |-> IF n = 0 THEN <<>> ELSE Inserted(g[n - 1], recs[n])]
<1>1. SortsTo(recs, f, Len(recs))
  <2>1. \E g : SortsTo(recs, g, Len(recs))
    BY SortsExist
  <2>2. \E g : g = [n \in 0..Len(recs) |-> IF n = 0 THEN <<>> ELSE Inserted(g[n - 1], recs[n])]
    BY <2>1, Zenon DEF SortsTo
  <2>. QED
    BY <2>2, Zenon DEF SortsTo
<1>2. Sorted(recs) = f[Len(recs)]
  BY Zenon DEF Sorted
<1>. HIDE DEF f
<1>3. \A k \in 0..m : f[k] = IF k = 0 THEN <<>> ELSE Inserted(f[k - 1], recs[k])
  BY <1>1 DEF SortsTo
<1>4. f[0] = <<>> /\ \A k \in 1..m : f[k] = Inserted(f[k - 1], recs[k])
  <2>1. f[0] = <<>>
    <3>1. 0 \in 0..m
      OBVIOUS
    <3>. QED
      BY <1>3, <3>1
  <2>2. ASSUME NEW k \in 1..m PROVE f[k] = Inserted(f[k - 1], recs[k])
    <3>1. k \in 0..m /\ k # 0
      OBVIOUS
    <3>. QED
      BY <1>3, <3>1
  <2>. QED
    BY <2>1, <2>2
<1>5. SortRuns(recs, f, m)
  BY <1>2, <1>4 DEF SortRuns
<1>. QED
  BY <1>5

\* Sorting keeps to the records.
LEMMA SortedIs == ASSUME NEW R, NEW recs, ItemsIn(recs, R) PROVE ItemsIn(Sorted(recs), R)
<1>1. PICK m \in Nat : m = Len(recs)
  BY DEF ItemsIn, IsSeq
<1>2. PICK f : SortRuns(recs, f, m)
  BY <1>1, SortGoes
<1>. DEFINE T == {n \in 0..m : ItemsIn(f[n], R)}
<1>3. 0 \in T
  <2>1. ItemsIn(<<>>, R)
    <3>1. PICK o : o = <<>>
      OBVIOUS
    <3>2. Len(o) = 0 /\ o = [i \in 1..0 |-> o[i]]
      BY <3>1
    <3>. QED
      BY <3>1, <3>2 DEF ItemsIn, IsSeq
  <2>. QED
    BY <1>2, <2>1 DEF SortRuns
<1>4. ASSUME NEW n \in 1..m, n - 1 \in T PROVE n \in T
  <2>1. ItemsIn(f[n - 1], R) /\ recs[n] \in R
    BY <1>1, <1>4 DEF ItemsIn
  <2>2. ItemsIn(Inserted(f[n - 1], recs[n]), R)
    BY <2>1, InsertedIs
  <2>3. f[n] = Inserted(f[n - 1], recs[n])
    BY <1>2 DEF SortRuns
  <2>. QED
    BY <2>2, <2>3
<1>5. m \in T
  <2>. HIDE DEF T
  <2>1. \A k \in 0..m : k \in T
    BY <1>3, <1>4, CountUp
  <2>. QED
    BY <2>1
<1>. QED
  BY <1>2, <1>5 DEF SortRuns

\* The chunks of the first entries.
ChunksFit(cps, n) ==
  /\ IsSeq(cps) /\ n = Len(cps)
  /\ \A i \in 1..n : IsSeq(cps[i]) /\ \A k \in 1..Len(cps[i]) : CheckpointOk(cps[i][k])
ChunkOf(cps, i) == IF cps[i] = <<>> THEN <<>> ELSE <<Chunk(cps[i], 0)>>

\* The chunks of the first entries are among those of all.
LEMMA ChunksAre ==
  ASSUME NEW m \in Nat, NEW cps, ChunksFit(cps, m), NEW n \in 0..m
  PROVE  /\ IsSeq(Chunks(cps, n)) /\ Len(Chunks(cps, n)) \in Nat
         /\ Len(Chunks(cps, n)) <= Len(Chunks(cps, m))
         /\ \A k \in 1..Len(Chunks(cps, n)) : ChunkOk(Chunks(cps, n)[k], Chunks(cps, m))
<1>1. PICK S : S = [i \in 1..m |-> ChunkOf(cps, i)]
  OBVIOUS
<1>2. ASSUME NEW i \in 1..m PROVE IsSeq(S[i]) /\ \A k \in 1..Len(S[i]) : S[i][k] = Chunk(cps[i], 0)
  <2>1. PICK o : o = <<Chunk(cps[i], 0)>>
    OBVIOUS
  <2>2. Len(o) = 1 /\ o[1] = Chunk(cps[i], 0) /\ o = [k \in 1..1 |-> o[k]]
    BY <2>1
  <2>3. IsSeq(o) /\ \A k \in 1..Len(o) : o[k] = Chunk(cps[i], 0)
    BY <2>2 DEF IsSeq
  <2>4. PICK z : z = <<>>
    OBVIOUS
  <2>5. Len(z) = 0 /\ z = [k \in 1..0 |-> z[k]]
    BY <2>4
  <2>6. IsSeq(z) /\ \A k \in 1..Len(z) : z[k] = Chunk(cps[i], 0)
    BY <2>5 DEF IsSeq
  <2>7. S[i] = z \/ S[i] = o
    BY <1>1, <2>1, <2>4 DEF ChunkOf
  <2>. QED
    BY <2>3, <2>6, <2>7
<1>3. n \in Nat
  OBVIOUS
<1>4. Pre(S, n) = [i \in 1..n |-> ChunkOf(cps, i)] /\ Pre(S, m) = [i \in 1..m |-> ChunkOf(cps, i)]
  BY <1>1 DEF Pre
<1>5. PICK x : x = FlattenSeq(Pre(S, n))
  OBVIOUS
<1>6. PICK y : y = FlattenSeq(Pre(S, m))
  OBVIOUS
<1>7. x = Chunks(cps, n) /\ y = Chunks(cps, m)
  BY <1>4, <1>5, <1>6 DEF Chunks, ChunkOf
<1>8. FlatOf(S, n, x)
  BY <1>2, <1>5, FlattenOf
<1>9. Len(x) \in Nat /\ Len(y) \in Nat /\ Len(x) <= Len(y)
  BY <1>2, <1>5, <1>6, FlattenLonger
<1>10. ASSUME NEW k \in 1..Len(x) PROVE ChunkOk(x[k], y)
  <2>1. PICK i \in 1..n : \E j \in 1..Len(S[i]) : x[k] = S[i][j]
    BY <1>8 DEF FlatOf
  <2>2. i \in 1..m
    BY <1>3
  <2>3. PICK c : c = Chunk(cps[i], 0)
    OBVIOUS
  <2>4. x[k] = c
    BY <1>2, <2>1, <2>2, <2>3
  <2>5. c.next = 0 /\ c.cps = cps[i]
    BY <2>3 DEF Chunk
  <2>6. IsSeq(cps[i]) /\ \A l \in 1..Len(cps[i]) : CheckpointOk(cps[i][l])
    BY <2>2 DEF ChunksFit
  <2>7. AnySeq(c.cps)
    BY <2>5, <2>6, AnySeqIs
  <2>8. c.next \in 0..Len(y)
    BY <1>9, <2>5
  <2>. QED
    BY <2>4, <2>5, <2>6, <2>7, <2>8 DEF ChunkOk
<1>. QED
  BY <1>7, <1>8, <1>9, <1>10 DEF FlatOf
\* A record as the builder makes it, before it knows the place of its chunk.
Unheaded(r) ==
  /\ r = [hash |-> r.hash, name |-> r.name, ok |-> r.ok, method |-> r.method,
          data |-> r.data, comp |-> r.comp, uncomp |-> r.uncomp, head |-> r.head]
  /\ r.data \in Nat /\ r.comp \in Nat /\ r.uncomp \in Nat

\* A record points to one of the chunks, or to none.
LEMMA HeadedIs ==
  ASSUME NEW m \in Nat, NEW cps, ChunksFit(cps, m), NEW i \in 1..m, NEW r, Unheaded(r)
  PROVE  RecordOk(Headed(r, cps, i), Chunks(cps, m))
<1>1. PICK h \in 0..Len(Chunks(cps, m)) : h = IF cps[i] = <<>> THEN 0 ELSE Len(Chunks(cps, i))
  <2>1. i \in 0..m /\ m \in 0..m
    OBVIOUS
  <2>2. Len(Chunks(cps, m)) \in Nat
    BY <2>1, ChunksAre
  <2>3. Len(Chunks(cps, i)) \in Nat /\ Len(Chunks(cps, i)) <= Len(Chunks(cps, m))
    BY <2>1, ChunksAre
  <2>. QED
    BY <2>2, <2>3
<1>2. PICK x : x = [r EXCEPT !.head = h]
  OBVIOUS
<1>3. x = [hash |-> r.hash, name |-> r.name, ok |-> r.ok, method |-> r.method,
           data |-> r.data, comp |-> r.comp, uncomp |-> r.uncomp, head |-> h]
  BY <1>2 DEF Unheaded
<1>4. x.data = r.data /\ x.comp = r.comp /\ x.uncomp = r.uncomp /\ x.head = h
  BY <1>3
<1>5. Headed(r, cps, i) = x
  BY <1>1, <1>2 DEF Headed
<1>6. RecordOk(x, Chunks(cps, m))
  BY <1>4 DEF RecordOk, Unheaded
<1>. QED
  BY <1>5, <1>6

\* What serialize writes is an index.
LEMMA SerializeIs ==
  ASSUME NEW zip, NEW recs, IsSeq(recs), NEW cps, ChunksFit(cps, Len(recs)),
         \A i \in 1..Len(recs) : Unheaded(recs[i])
  PROVE  ImageOk(Serialize(zip, recs, cps))
<1>1. PICK m \in Nat : m = Len(recs)
  BY DEF IsSeq
<1>2. PICK chunks : chunks = Chunks(cps, m)
  OBVIOUS
<1>3. PICK h : h = [i \in 1..m |-> Headed(recs[i], cps, i)]
  OBVIOUS
<1>. DEFINE R == {h[i] : i \in 1..m}
<1>4. ItemsIn(h, R)
  <2>1. Len(h) = m /\ h = [i \in 1..m |-> h[i]]
    BY <1>3
  <2>. QED
    BY <2>1 DEF ItemsIn, IsSeq
<1>. HIDE DEF R
<1>5. PICK s : s = Sorted(h)
  OBVIOUS
<1>6. ItemsIn(s, R)
  BY <1>4, <1>5, SortedIs
<1>7. ASSUME NEW i \in 1..Len(s) PROVE RecordOk(s[i], chunks)
  <2>1. s[i] \in R
    BY <1>6 DEF ItemsIn
  <2>2. PICK k \in 1..m : s[i] = h[k]
    BY <2>1 DEF R
  <2>3. h[k] = Headed(recs[k], cps, k)
    BY <1>3
  <2>4. Unheaded(recs[k])
    BY <1>1
  <2>5. RecordOk(Headed(recs[k], cps, k), chunks)
    BY <1>1, <1>2, <2>4, HeadedIs
  <2>. QED
    BY <2>2, <2>3, <2>5
<1>8. m \in 0..m
  OBVIOUS
<1>9. IsSeq(chunks) /\ \A k \in 1..Len(chunks) : ChunkOk(chunks[k], chunks)
  BY <1>1, <1>2, <1>8, ChunksAre
<1>10. PICK image : image = Serialize(zip, recs, cps)
  OBVIOUS
<1>11. image.recs = s /\ image.chunks = chunks
  BY <1>1, <1>2, <1>3, <1>5, <1>10 DEF Serialize
<1>12. AnySeq(image.recs) /\ AnySeq(image.chunks)
  BY <1>6, <1>9, <1>11, AnySeqIs DEF ItemsIn
<1>. QED
  BY <1>7, <1>9, <1>10, <1>11, <1>12 DEF ImageOk

\* The checkpoints of an entry.
LEMMA CheckpointsAre ==
  ASSUME NEW zip, Blocks(zip), NEW e, EntryOk(e), DataOffset(zip, e) # NoData
  PROVE  /\ IsSeq(Checkpoints(zip, e).cps)
         /\ \A k \in 1..Len(Checkpoints(zip, e).cps) : CheckpointOk(Checkpoints(zip, e).cps[k])
<1>1. CASE ProviderOf(e.method) = "Deflate"
  <2>1. Blocks(EntryData(zip, e))
    BY EntryDataIs
  <2>2. BuildState(BuildCheckpoints(EntryData(zip, e), e.uncomp))
    BY <2>1, BuildCheckpointsIs
  <2>3. Checkpoints(zip, e) = BuildCheckpoints(EntryData(zip, e), e.uncomp)
    BY <1>1 DEF Checkpoints
  <2>. QED
    BY <2>2, <2>3 DEF BuildState
<1>2. CASE ~(ProviderOf(e.method) = "Deflate")
  <2>1. PICK o : o = <<>>
    OBVIOUS
  <2>2. Len(o) = 0 /\ o = [k \in 1..0 |-> o[k]]
    BY <2>1
  <2>3. Checkpoints(zip, e).cps = o
    BY <1>2, <2>1 DEF Checkpoints
  <2>. QED
    BY <2>2, <2>3 DEF IsSeq
<1>. QED
  BY <1>1, <1>2

\* The record of an entry whose local header is right.
LEMMA RecordIs ==
  ASSUME NEW zip, Blocks(zip), NEW e, EntryOk(e), Record(zip, e).data # NoData
  PROVE  Unheaded(Record(zip, e)) /\ DataOffset(zip, e) # NoData
<1>1. PICK x : x = Record(zip, e)
  OBVIOUS
<1>2. x = [hash |-> NameHash[e.name], name |-> e.name, ok |-> TRUE, method |-> e.method,
           data |-> DataOffset(zip, e), comp |-> e.comp, uncomp |-> e.uncomp, head |-> 0]
  BY <1>1 DEF Record
<1>3. /\ x.hash = NameHash[e.name] /\ x.name = e.name /\ x.ok = TRUE /\ x.method = e.method
      /\ x.data = DataOffset(zip, e) /\ x.comp = e.comp /\ x.uncomp = e.uncomp /\ x.head = 0
  BY <1>2
<1>4. DataOffset(zip, e) # NoData
  BY <1>1, <1>3
<1>5. DataOffset(zip, e) \in Nat
  BY <1>4, DataOffsetIs
<1>. QED
  BY <1>1, <1>2, <1>3, <1>4, <1>5 DEF Unheaded, EntryOk
\* The records of all entries.
LEMMA RecordsAre ==
  ASSUME NEW zip, Blocks(zip), NEW es, IsSeq(es), \A i \in 1..Len(es) : EntryOk(es[i]),
         AllMapped(Records(zip, es))
  PROVE  /\ IsSeq(Records(zip, es)) /\ Len(Records(zip, es)) = Len(es)
         /\ \A i \in 1..Len(es) : Unheaded(Records(zip, es)[i]) /\ DataOffset(zip, es[i]) # NoData
<1>1. PICK m \in Nat : m = Len(es)
  BY DEF IsSeq
<1>2. PICK recs : recs = Records(zip, es)
  OBVIOUS
<1>3. recs = [i \in 1..m |-> Record(zip, es[i])]
  BY <1>1, <1>2 DEF Records
<1>4. Len(recs) = m /\ recs = [i \in 1..m |-> recs[i]] /\ DOMAIN recs = 1..m
  BY <1>3
<1>5. ASSUME NEW i \in 1..m PROVE Unheaded(recs[i]) /\ DataOffset(zip, es[i]) # NoData
  <2>1. recs[i] = Record(zip, es[i]) /\ EntryOk(es[i])
    BY <1>1, <1>3
  <2>2. recs[i].data # NoData
    BY <1>2, <1>4 DEF AllMapped, ToSet
  <2>3. Record(zip, es[i]).data # NoData
    BY <2>1, <2>2
  <2>4. Unheaded(Record(zip, es[i])) /\ DataOffset(zip, es[i]) # NoData
    BY <2>1, <2>3, RecordIs
  <2>. QED
    BY <2>1, <2>4
<1>. QED
  BY <1>1, <1>2, <1>4, <1>5 DEF IsSeq

\* An index that is built is one.
LEMMA EagerIs ==
  ASSUME NEW zip, Blocks(zip), Parse(zip).ok PROVE ImageOk(Eager(zip))
<1>1. PICK es : es = Parse(zip).entries
  OBVIOUS
<1>2. IsSeq(es) /\ \A i \in 1..Len(es) : EntryOk(es[i])
  <2>1. ParsedIs(Parse(zip))
    BY ParseIs
  <2>. QED
    BY <1>1, <2>1 DEF ParsedIs
<1>3. PICK m \in Nat : m = Len(es)
  BY <1>2 DEF IsSeq
<1>4. PICK recs : recs = Records(zip, es)
  OBVIOUS
<1>5. PICK built : built = [i \in 1..m |-> Checkpoints(zip, es[i])]
  OBVIOUS
<1>6. PICK cps : cps = [i \in 1..Len(recs) |-> built[i].cps]
  OBVIOUS
<1>7. Eager(zip) = IF ~AllMapped(recs) \/ \E b \in ToSet(built) : b.failed THEN NoImage
                   ELSE Serialize(zip, recs, cps)
  BY <1>1, <1>3, <1>4, <1>5, <1>6 DEF Eager
<1>8. ImageOk(NoImage)
  BY DEF ImageOk, NoImage
<1>9. CASE ~AllMapped(recs)
  BY <1>7, <1>8, <1>9
<1>10. CASE AllMapped(recs)
  <2>1. /\ IsSeq(recs) /\ Len(recs) = m
        /\ \A i \in 1..m : Unheaded(recs[i]) /\ DataOffset(zip, es[i]) # NoData
    <3>1. AllMapped(Records(zip, es))
      BY <1>4, <1>10
    <3>. QED
      BY <1>2, <1>3, <1>4, <3>1, RecordsAre
  <2>2. ASSUME NEW i \in 1..m
        PROVE  IsSeq(cps[i]) /\ \A k \in 1..Len(cps[i]) : CheckpointOk(cps[i][k])
    <3>1. cps[i] = Checkpoints(zip, es[i]).cps
      BY <1>5, <1>6, <2>1
    <3>2. EntryOk(es[i]) /\ DataOffset(zip, es[i]) # NoData
      BY <1>2, <1>3, <2>1
    <3>3. /\ IsSeq(Checkpoints(zip, es[i]).cps)
          /\ \A k \in 1..Len(Checkpoints(zip, es[i]).cps) : CheckpointOk(Checkpoints(zip, es[i]).cps[k])
      BY <3>2, CheckpointsAre
    <3>. QED
      BY <3>1, <3>3
  <2>3. Len(cps) = m /\ cps = [i \in 1..m |-> cps[i]]
    BY <1>6, <2>1
  <2>4. ChunksFit(cps, m)
    BY <2>2, <2>3 DEF ChunksFit, IsSeq
  <2>5. ImageOk(Serialize(zip, recs, cps))
    BY <2>1, <2>4, SerializeIs
  <2>. QED
    BY <1>7, <1>8, <2>5
<1>. QED
  BY <1>9, <1>10

\* The index that a mount takes is one, whatever the sidecar was.
LEMMA ResolveIndexIs ==
  ASSUME NEW zip, Blocks(zip), Parse(zip).ok, NEW image, ImageOk(image)
  PROVE  ImageOk(ResolveIndex(image, zip))
<1>1. ImageOk(Eager(zip))
  BY EagerIs
<1>. QED
  BY <1>1 DEF ResolveIndex

-----------------------------------------------------------------------------
(* Looking up. *)


\* The bisection, step by step.
HalvesTo(recs, h, f, n) ==
  f = [k \in 0..n |-> IF k = 0 THEN [lo |-> 0, hi |-> Len(recs)] ELSE Halved(recs, h, f[k - 1])]

\* The bounds after each step: the recursive function exists.
LEMMA HalvesExist ==
  ASSUME NEW recs, NEW h, NEW m \in Nat PROVE \E f : HalvesTo(recs, h, f, m)
<1>. DEFINE T == {n \in 0..m : \E f : HalvesTo(recs, h, f, n)}
<1>1. 0 \in T
  <2>1. PICK f : f = [k \in 0..0 |-> [lo |-> 0, hi |-> Len(recs)]]
    OBVIOUS
  <2>2. HalvesTo(recs, h, f, 0)
    BY <2>1 DEF HalvesTo
  <2>. QED
    BY <2>2
<1>2. ASSUME NEW n \in 1..m, n - 1 \in T PROVE n \in T
  <2>1. PICK f : HalvesTo(recs, h, f, n - 1)
    BY <1>2
  <2>2. PICK g : g = [k \in 0..n |-> IF k = n THEN Halved(recs, h, f[n - 1]) ELSE f[k]]
    OBVIOUS
  <2>3. n \in Nat /\ n # 0
    OBVIOUS
  <2>4. \A k \in 0..(n - 1) : f[k] = IF k = 0 THEN [lo |-> 0, hi |-> Len(recs)] ELSE Halved(recs, h, f[k - 1])
    BY <2>1 DEF HalvesTo
  <2>5. \A k \in 0..n : g[k] = IF k = n THEN Halved(recs, h, f[n - 1]) ELSE f[k]
    BY <2>2
  <2>6. ASSUME NEW k \in 0..n PROVE g[k] = IF k = 0 THEN [lo |-> 0, hi |-> Len(recs)] ELSE Halved(recs, h, g[k - 1])
    <3>1. k # 0 => k - 1 \in 0..n /\ k - 1 # n /\ g[k - 1] = f[k - 1]
      BY <2>3, <2>5
    <3>2. CASE k = n
      BY <2>3, <2>5, <3>1, <3>2
    <3>3. CASE k # n
      <4>1. k \in 0..(n - 1)
        BY <2>3, <3>3
      <4>. QED
        BY <2>4, <2>5, <3>1, <3>3, <4>1
    <3>. QED
      BY <3>2, <3>3
  <2>7. g = [k \in 0..n |-> g[k]]
    BY <2>2
  <2>8. HalvesTo(recs, h, g, n)
    BY <2>6, <2>7 DEF HalvesTo
  <2>. QED
    BY <2>3, <2>8
<1>3. m \in T
  <2>. HIDE DEF T
  <2>1. \A k \in 0..m : k \in T
    BY <1>1, <1>2, CountUp
  <2>. QED
    BY <2>1
<1>. QED
  BY <1>3

\* The bisection ends with the last of them.
HalveRuns(recs, h, f, n) ==
  /\ f[0] = [lo |-> 0, hi |-> Len(recs)] /\ LowerBound(recs, h) = f[n].lo
  /\ \A k \in 1..n : f[k] = Halved(recs, h, f[k - 1])

\* It is the one that LowerBound chooses.
LEMMA HalveGoes ==
  ASSUME NEW recs, NEW h, NEW m \in Nat, m = Len(recs)
  PROVE  \E f : HalveRuns(recs, h, f, m)
<1>. DEFINE f == CHOOSE g : g = [n \in 0..Len(recs) |-> IF n = 0 THEN [lo |-> 0, hi |-> Len(recs)] ELSE Halved(recs, h, g[n - 1])]
<1>1. HalvesTo(recs, h, f, Len(recs))
  <2>1. \E g : HalvesTo(recs, h, g, Len(recs))
    BY HalvesExist
  <2>2. \E g : g = [n \in 0..Len(recs) |-> IF n = 0 THEN [lo |-> 0, hi |-> Len(recs)] ELSE Halved(recs, h, g[n - 1])]
    BY <2>1, Zenon DEF HalvesTo
  <2>. QED
    BY <2>2, Zenon DEF HalvesTo
<1>2. LowerBound(recs, h) = f[Len(recs)].lo
  BY Zenon DEF LowerBound
<1>. HIDE DEF f
<1>3. \A k \in 0..m : f[k] = IF k = 0 THEN [lo |-> 0, hi |-> Len(recs)] ELSE Halved(recs, h, f[k - 1])
  BY <1>1 DEF HalvesTo
<1>4. f[0] = [lo |-> 0, hi |-> Len(recs)] /\ \A k \in 1..m : f[k] = Halved(recs, h, f[k - 1])
  <2>1. f[0] = [lo |-> 0, hi |-> Len(recs)]
    <3>1. 0 \in 0..m
      OBVIOUS
    <3>. QED
      BY <1>3, <3>1
  <2>2. ASSUME NEW k \in 1..m PROVE f[k] = Halved(recs, h, f[k - 1])
    <3>1. k \in 0..m /\ k # 0
      OBVIOUS
    <3>. QED
      BY <1>3, <3>1
  <2>. QED
    BY <2>1, <2>2
<1>5. HalveRuns(recs, h, f, m)
  BY <1>2, <1>4 DEF HalveRuns
<1>. QED
  BY <1>5

\* The bisection stays within the records.
Between(s, n) == s.lo \in 0..n /\ s.hi \in 0..n

\* A step keeps the bounds within the records.
LEMMA HalvedIs ==
  ASSUME NEW n \in Nat, NEW recs, NEW h, NEW s, Between(s, n)
  PROVE  Between(Halved(recs, h, s), n)
<1>1. PICK lo \in 0..n : lo = s.lo
  BY DEF Between
<1>2. PICK hi \in 0..n : hi = s.hi
  BY DEF Between
<1>3. CASE lo >= hi
  BY <1>1, <1>2, <1>3 DEF Halved
<1>4. CASE ~(lo >= hi)
  <2>1. PICK d \in Nat \ {0} : d = hi - lo
    <3>1. hi - lo \in Nat \ {0}
      BY <1>4
    <3>. QED
      BY <3>1
  <2>2. d \div 2 \in Nat /\ d \div 2 < d
    OBVIOUS
  <2>3. PICK q \in Nat : q = d \div 2 /\ q < d
    BY <2>2
  <2>4. PICK m \in 0..n : m = lo + q /\ m < hi
    <3>1. lo + q \in 0..n /\ lo + q < hi
      BY <2>1, <2>3
    <3>. QED
      BY <3>1
  <2>5. Middle(s) = m
    BY <1>1, <1>2, <2>1, <2>3, <2>4 DEF Middle
  <2>6. m + 1 \in 0..n
    BY <2>4
  <2>7. PICK l : l = [lo |-> m + 1, hi |-> hi]
    OBVIOUS
  <2>8. PICK r : r = [lo |-> lo, hi |-> m]
    OBVIOUS
  <2>9. Between(l, n) /\ Between(r, n)
    BY <2>4, <2>6, <2>7, <2>8 DEF Between
  <2>10. Halved(recs, h, s) = l \/ Halved(recs, h, s) = r
    BY <1>1, <1>2, <1>4, <2>5, <2>7, <2>8 DEF Halved
  <2>. QED
    BY <2>9, <2>10
<1>. QED
  BY <1>3, <1>4

\* The lower bound is among the records or behind them.
LEMMA LowerBoundIs ==
  ASSUME NEW recs, IsSeq(recs), NEW h PROVE LowerBound(recs, h) \in 0..Len(recs)
<1>1. PICK m \in Nat : m = Len(recs)
  BY DEF IsSeq
<1>2. PICK f : HalveRuns(recs, h, f, m)
  BY <1>1, HalveGoes
<1>. DEFINE T == {n \in 0..m : Between(f[n], m)}
<1>3. 0 \in T
  <2>1. PICK o : o = [lo |-> 0, hi |-> m]
    OBVIOUS
  <2>2. Between(o, m)
    BY <2>1 DEF Between
  <2>. QED
    BY <1>1, <1>2, <2>1, <2>2 DEF HalveRuns
<1>4. ASSUME NEW n \in 1..m, n - 1 \in T PROVE n \in T
  <2>1. Between(f[n - 1], m)
    BY <1>4
  <2>2. Between(Halved(recs, h, f[n - 1]), m)
    BY <2>1, HalvedIs
  <2>3. f[n] = Halved(recs, h, f[n - 1])
    BY <1>2 DEF HalveRuns
  <2>. QED
    BY <2>2, <2>3
<1>5. m \in T
  <2>. HIDE DEF T
  <2>1. \A k \in 0..m : k \in T
    BY <1>3, <1>4, CountUp
  <2>. QED
    BY <2>1
<1>. QED
  BY <1>1, <1>2, <1>5 DEF HalveRuns, Between

\* A record that is found is one of them.
FoundIs(f, n) == f.err = "none" /\ f # NotThere => f.at \in 1..n

\* Lookup finds one of the records.
LEMMA LookupIs ==
  ASSUME NEW image, IsSeq(image.recs), NEW name
  PROVE  FoundIs(Lookup(image, name), Len(image.recs))
<1>1. PICK recs : recs = image.recs
  OBVIOUS
<1>2. PICK m \in Nat : m = Len(recs)
  BY <1>1 DEF IsSeq
<1>3. PICK first \in Nat : first = LowerBound(recs, NameHash[name]) + 1 /\ first >= 1
  <2>1. LowerBound(recs, NameHash[name]) \in 0..m
    BY <1>1, <1>2, LowerBoundIs
  <2>. QED
    BY <2>1
<1>4. PICK ends : ends = {i \in first..m : StopsAt(recs[i], name)}
  OBVIOUS
<1>5. PICK l : l = Lookup(image, name)
  OBVIOUS
<1>6. l = IF ends = {} THEN NotThere ELSE Stop(recs[Min(ends)], name, Min(ends))
  BY <1>1, <1>2, <1>3, <1>4, <1>5 DEF Lookup
<1>7. CASE ends = {}
  BY <1>5, <1>6, <1>7 DEF FoundIs
<1>8. CASE ends # {}
  <2>1. ends \subseteq Nat /\ \A i \in ends : i \in 1..m
    BY <1>3, <1>4
  <2>2. Min(ends) \in ends
    BY <1>8, <2>1, MinIs
  <2>3. PICK i \in 1..m : i = Min(ends)
    BY <2>1, <2>2
  <2>4. l = NotThere \/ l = LookupErr \/ l = Found(i)
    BY <1>6, <1>8, <2>3 DEF Stop
  <2>5. FoundIs(LookupErr, m)
    BY DEF FoundIs, LookupErr
  <2>6. FoundIs(Found(i), m)
    <3>1. Found(i).at = i
      BY DEF Found
    <3>. QED
      BY <3>1 DEF FoundIs
  <2>. QED
    BY <1>1, <1>2, <1>5, <2>4, <2>5, <2>6 DEF FoundIs
<1>. QED
  BY <1>7, <1>8
\* Before the first chunk.
Starting(head) == [err |-> "none", at |-> head, best |-> NoCheckpoint]

\* The walk along a chain, step by step.
VisitsTo(image, head, target, f, n) ==
  f = [k \in 0..n |-> IF k = 0 THEN Starting(head) ELSE Visit(f[k - 1], image.chunks, target)]

\* The checkpoint after each chunk: the recursive function exists.
LEMMA VisitsExist ==
  ASSUME NEW image, NEW head, NEW target, NEW m \in Nat PROVE \E f : VisitsTo(image, head, target, f, m)
<1>. DEFINE T == {n \in 0..m : \E f : VisitsTo(image, head, target, f, n)}
<1>1. 0 \in T
  <2>1. PICK f : f = [k \in 0..0 |-> Starting(head)]
    OBVIOUS
  <2>2. VisitsTo(image, head, target, f, 0)
    BY <2>1 DEF VisitsTo
  <2>. QED
    BY <2>2
<1>2. ASSUME NEW n \in 1..m, n - 1 \in T PROVE n \in T
  <2>1. PICK f : VisitsTo(image, head, target, f, n - 1)
    BY <1>2
  <2>2. PICK g : g = [k \in 0..n |-> IF k = n THEN Visit(f[n - 1], image.chunks, target) ELSE f[k]]
    OBVIOUS
  <2>3. n \in Nat /\ n # 0
    OBVIOUS
  <2>4. \A k \in 0..(n - 1) : f[k] = IF k = 0 THEN Starting(head) ELSE Visit(f[k - 1], image.chunks, target)
    BY <2>1 DEF VisitsTo
  <2>5. \A k \in 0..n : g[k] = IF k = n THEN Visit(f[n - 1], image.chunks, target) ELSE f[k]
    BY <2>2
  <2>6. ASSUME NEW k \in 0..n PROVE g[k] = IF k = 0 THEN Starting(head) ELSE Visit(g[k - 1], image.chunks, target)
    <3>1. k # 0 => k - 1 \in 0..n /\ k - 1 # n /\ g[k - 1] = f[k - 1]
      BY <2>3, <2>5
    <3>2. CASE k = n
      BY <2>3, <2>5, <3>1, <3>2
    <3>3. CASE k # n
      <4>1. k \in 0..(n - 1)
        BY <2>3, <3>3
      <4>. QED
        BY <2>4, <2>5, <3>1, <3>3, <4>1
    <3>. QED
      BY <3>2, <3>3
  <2>7. g = [k \in 0..n |-> g[k]]
    BY <2>2
  <2>8. VisitsTo(image, head, target, g, n)
    BY <2>6, <2>7 DEF VisitsTo
  <2>. QED
    BY <2>3, <2>8
<1>3. m \in T
  <2>. HIDE DEF T
  <2>1. \A k \in 0..m : k \in T
    BY <1>1, <1>2, CountUp
  <2>. QED
    BY <2>1
<1>. QED
  BY <1>3

\* The walk along a chain ends with the last of them.
VisitRuns(image, head, target, f, n) ==
  /\ f[0] = Starting(head) /\ Nearest(image, head, target) = EndOfChain(f[n])
  /\ \A k \in 1..n : f[k] = Visit(f[k - 1], image.chunks, target)

\* It is the one that Nearest chooses.
LEMMA VisitGoes ==
  ASSUME NEW image, NEW head, NEW target, NEW m \in Nat, m = Len(image.chunks)
  PROVE  \E f : VisitRuns(image, head, target, f, m)
<1>. DEFINE f == CHOOSE g : g = [n \in 0..Len(image.chunks) |-> IF n = 0 THEN Starting(head) ELSE Visit(g[n - 1], image.chunks, target)]
<1>1. VisitsTo(image, head, target, f, Len(image.chunks))
  <2>1. \E g : VisitsTo(image, head, target, g, Len(image.chunks))
    BY VisitsExist
  <2>2. \E g : g = [n \in 0..Len(image.chunks) |-> IF n = 0 THEN Starting(head) ELSE Visit(g[n - 1], image.chunks, target)]
    BY <2>1, Zenon DEF VisitsTo
  <2>. QED
    BY <2>2, Zenon DEF VisitsTo
<1>2. Nearest(image, head, target) = EndOfChain(f[Len(image.chunks)])
  BY Zenon DEF Nearest, Starting
<1>. HIDE DEF f
<1>3. \A k \in 0..m : f[k] = IF k = 0 THEN Starting(head) ELSE Visit(f[k - 1], image.chunks, target)
  BY <1>1 DEF VisitsTo
<1>4. f[0] = Starting(head) /\ \A k \in 1..m : f[k] = Visit(f[k - 1], image.chunks, target)
  <2>1. f[0] = Starting(head)
    <3>1. 0 \in 0..m
      OBVIOUS
    <3>. QED
      BY <1>3, <3>1
  <2>2. ASSUME NEW k \in 1..m PROVE f[k] = Visit(f[k - 1], image.chunks, target)
    <3>1. k \in 0..m /\ k # 0
      OBVIOUS
    <3>. QED
      BY <1>3, <3>1
  <2>. QED
    BY <2>1, <2>2
<1>5. VisitRuns(image, head, target, f, m)
  BY <1>2, <1>4 DEF VisitRuns
<1>. QED
  BY <1>5

\* The walk stays within the chunks, and what it has found is a checkpoint.
Walking(st, n) ==
  /\ st = [err |-> st.err, at |-> st.at, best |-> st.best]
  /\ st.at \in 0..n /\ CheckpointOk(st.best)

\* The start of the data is a checkpoint.
LEMMA NoCheckpointIs == CheckpointOk(NoCheckpoint)
<1>1. PICK o : o = <<>>
  OBVIOUS
<1>2. Len(o) = 0 /\ o = [k \in 1..0 |-> o[k]]
  BY <1>1
<1>3. AnySeq(o)
  <2>1. IsSeq(o)
    BY <1>2 DEF IsSeq
  <2>. QED
    BY <2>1, AnySeqIs
<1>4. PICK c : c = NoCheckpoint
  OBVIOUS
<1>5. c.at = 0 /\ c.off = 0 /\ c.window = o
  BY <1>1, <1>4 DEF NoCheckpoint
<1>. QED
  BY <1>3, <1>4, <1>5 DEF CheckpointOk

\* The better one of two checkpoints is a checkpoint.
LEMMA BetterIs ==
  ASSUME NEW best, CheckpointOk(best), NEW cps, IsSeq(cps),
         \A k \in 1..Len(cps) : CheckpointOk(cps[k]), NEW target
  PROVE  CheckpointOk(Better(best, cps, target))
<1>1. PICK n \in Nat : n = Len(cps)
  BY DEF IsSeq
<1>2. PICK below : below = {k \in 1..n : cps[k].off <= target}
  OBVIOUS
<1>3. Better(best, cps, target) = IF below = {} THEN best
        ELSE IF cps[Max(below)].off >= best.off THEN cps[Max(below)] ELSE best
  BY <1>1, <1>2 DEF Better
<1>4. CASE below = {}
  BY <1>3, <1>4
<1>5. CASE below # {}
  <2>1. below \subseteq 0..n /\ \A k \in below : k \in 1..n
    BY <1>2
  <2>2. Max(below) \in below
    BY <1>5, <2>1, MaxIs
  <2>3. PICK k \in 1..n : k = Max(below)
    BY <2>1, <2>2
  <2>4. CheckpointOk(cps[k])
    BY <1>1
  <2>5. Better(best, cps, target) = cps[k] \/ Better(best, cps, target) = best
    BY <1>3, <1>5, <2>3
  <2>. QED
    BY <2>4, <2>5
<1>. QED
  BY <1>4, <1>5

\* One chunk further.
LEMMA VisitIs ==
  ASSUME NEW n \in Nat, NEW chunks, n = Len(chunks), \A k \in 1..n : ChunkOk(chunks[k], chunks),
         NEW st, Walking(st, n), NEW target
  PROVE  Walking(Visit(st, chunks, target), n)
<1>1. CASE st.at = 0 \/ st.err # "none"
  BY <1>1 DEF Visit
<1>2. CASE ~(st.at = 0 \/ st.err # "none")
  <2>1. PICK c : c = chunks[st.at]
    OBVIOUS
  <2>2. st.at \in 1..n
    BY <1>2 DEF Walking
  <2>3. ChunkOk(c, chunks)
    BY <2>1, <2>2
  <2>4. c.next \in 0..n /\ IsSeq(c.cps) /\ \A k \in 1..Len(c.cps) : CheckpointOk(c.cps[k])
    BY <2>3, AnySeqIs DEF ChunkOk
  <2>5. PICK b : b = Better(st.best, c.cps, target)
    OBVIOUS
  <2>6. CheckpointOk(b)
    BY <2>4, <2>5, BetterIs DEF Walking
  <2>7. PICK bad : bad = [st EXCEPT !.err = "vmidx"]
    OBVIOUS
  <2>8. PICK on : on = [st EXCEPT !.at = c.next, !.best = b]
    OBVIOUS
  <2>9. /\ bad = [err |-> "vmidx", at |-> st.at, best |-> st.best]
        /\ on = [err |-> st.err, at |-> c.next, best |-> b]
    BY <2>7, <2>8 DEF Walking
  <2>10. /\ bad.err = "vmidx" /\ bad.at = st.at /\ bad.best = st.best
         /\ on.err = st.err /\ on.at = c.next /\ on.best = b
    BY <2>9
  <2>11. Walking(bad, n) /\ Walking(on, n)
    BY <2>4, <2>6, <2>9, <2>10 DEF Walking
  <2>12. Visit(st, chunks, target) = Visited(st, c, target)
    BY <1>2, <2>1 DEF Visit
  <2>13. Visited(st, c, target) = bad \/ Visited(st, c, target) = on
    BY <2>5, <2>7, <2>8 DEF Visited
  <2>. QED
    BY <2>11, <2>12, <2>13
<1>. QED
  BY <1>1, <1>2

\* What nearest_checkpoint returns is a checkpoint.
LEMMA NearestIs ==
  ASSUME NEW image, ImageOk(image), image.exists, NEW head \in 0..Len(image.chunks), NEW target
  PROVE  CheckpointOk(Nearest(image, head, target).best)
<1>1. PICK m \in Nat : m = Len(image.chunks)
  BY AnySeqIs DEF ImageOk, IsSeq
<1>2. PICK f : VisitRuns(image, head, target, f, m)
  BY <1>1, VisitGoes
<1>. DEFINE T == {n \in 0..m : Walking(f[n], m)}
<1>3. 0 \in T
  <2>1. PICK o : o = Starting(head)
    OBVIOUS
  <2>2. o.err = "none" /\ o.at = head /\ o.best = NoCheckpoint
    BY <2>1 DEF Starting
  <2>3. o = [err |-> o.err, at |-> o.at, best |-> o.best]
    BY <2>1 DEF Starting
  <2>4. Walking(o, m)
    BY <1>1, <2>2, <2>3, NoCheckpointIs DEF Walking
  <2>. QED
    BY <1>2, <2>1, <2>4 DEF VisitRuns
<1>4. ASSUME NEW n \in 1..m, n - 1 \in T PROVE n \in T
  <2>1. Walking(f[n - 1], m)
    BY <1>4
  <2>2. \A k \in 1..m : ChunkOk(image.chunks[k], image.chunks)
    BY <1>1 DEF ImageOk
  <2>3. Walking(Visit(f[n - 1], image.chunks, target), m)
    BY <1>1, <2>1, <2>2, VisitIs
  <2>4. f[n] = Visit(f[n - 1], image.chunks, target)
    BY <1>2 DEF VisitRuns
  <2>. QED
    BY <2>3, <2>4
<1>5. m \in T
  <2>. HIDE DEF T
  <2>1. \A k \in 0..m : k \in T
    BY <1>3, <1>4, CountUp
  <2>. QED
    BY <2>1
<1>6. PICK st : st = f[m]
  OBVIOUS
<1>7. Walking(st, m)
  BY <1>5, <1>6
<1>8. PICK bad : bad = [st EXCEPT !.err = "vmidx"]
  OBVIOUS
<1>9. bad = [err |-> "vmidx", at |-> st.at, best |-> st.best]
  BY <1>7, <1>8 DEF Walking
<1>10. bad.best = st.best
  BY <1>9
<1>11. EndOfChain(st) = st \/ EndOfChain(st) = bad
  BY <1>8 DEF EndOfChain
<1>12. CheckpointOk(EndOfChain(st).best)
  BY <1>7, <1>10, <1>11 DEF Walking
<1>. QED
  BY <1>2, <1>6, <1>12 DEF VisitRuns

-----------------------------------------------------------------------------
(* Reading through the index. *)

\* A read through the index returns as much as it was asked for, or an error.
LEMMA ReadFromIs ==
  ASSUME NEW zip, Blocks(zip), NEW near, CheckpointOk(near.best), NEW rec,
         rec.data \in Nat, rec.comp \in Nat, NEW off \in Nat, NEW len \in Nat
  PROVE  RangeOf(ReadFrom(zip, near, rec, off, len), len)
<1>1. PICK data \in Nat : data = rec.data
  OBVIOUS
<1>2. PICK comp \in Nat : comp = rec.comp
  OBVIOUS
<1>3. PICK x : x = SubSeq(zip, data + 1, data + comp)
  OBVIOUS
<1>4. PICK r : r = ReadRange(rec.method, x, near.best, off, len, rec.uncomp)
  OBVIOUS
<1>5. Len(zip) \in Nat
  BY DEF Blocks, IsSeq
<1>6. data + comp <= Len(zip) => RangeOf(r, len)
  <2>. SUFFICES ASSUME data + comp <= Len(zip) PROVE RangeOf(r, len)
    OBVIOUS
  <2>1. Blocks(x)
    BY <1>3, CellsFromIs
  <2>. QED
    BY <1>4, <2>1, ReadRangeIs
<1>7. /\ RangeOf(Err("unsupported"), len) /\ RangeOf(Err("outside"), len)
      /\ near.err # "none" => RangeOf(Err(near.err), len)
  BY NoRange
<1>8. ReadFrom(zip, near, rec, off, len) =
        IF ProviderOf(rec.method) \notin Builtin THEN Err("unsupported")
        ELSE IF near.err # "none" THEN Err(near.err)
        ELSE IF data + comp > Len(zip) THEN Err("outside") ELSE r
  BY <1>1, <1>2, <1>3, <1>4 DEF ReadFrom, CellsFrom
<1>. QED
  BY <1>5, <1>6, <1>7, <1>8

\* A read of a record returns as many bytes as were asked for.
LEMMA ReadRecordIs ==
  ASSUME NEW zip, Blocks(zip), NEW image, ImageOk(image), image.exists, NEW rec,
         RecordOk(rec, image.chunks), NEW off \in Nat, NEW len \in Nat
  PROVE  RangeOf(ReadRecord(zip, image, rec, off, len), len)
<1>1. rec.head \in 0..Len(image.chunks) /\ rec.data \in Nat /\ rec.comp \in Nat
  BY DEF RecordOk
<1>2. PICK near : near = Nearest(image, rec.head, off)
  OBVIOUS
<1>3. CheckpointOk(near.best)
  BY <1>1, <1>2, NearestIs
<1>4. RangeOf(ReadFrom(zip, near, rec, off, len), len)
  BY <1>1, <1>3, ReadFromIs
<1>. QED
  BY <1>2, <1>4 DEF ReadRecord

\* So does a read of a name.
LEMMA ReadEntryIs ==
  ASSUME NEW zip, Blocks(zip), NEW image, ImageOk(image), image.exists, NEW name,
         NEW off \in Nat, NEW len \in Nat
  PROVE  RangeOf(ReadEntry(zip, image, name, off, len), len)
<1>1. PICK found : found = Lookup(image, name)
  OBVIOUS
<1>2. IsSeq(image.recs)
  BY AnySeqIs DEF ImageOk
<1>3. FoundIs(found, Len(image.recs))
  BY <1>1, <1>2, LookupIs
<1>4. CASE found.err # "none"
  <2>1. RangeOf(Err(found.err), len)
    BY <1>4, NoRange
  <2>. QED
    BY <1>1, <1>4, <2>1 DEF ReadEntry, ReadFound
<1>5. CASE found.err = "none" /\ found = NotThere
  <2>1. RangeOf(Err("notfound"), len)
    BY NoRange
  <2>. QED
    BY <1>1, <1>5, <2>1 DEF ReadEntry, ReadFound
<1>6. CASE found.err = "none" /\ found # NotThere
  <2>1. found.at \in 1..Len(image.recs)
    BY <1>3, <1>6 DEF FoundIs
  <2>2. PICK rec : rec = image.recs[found.at]
    OBVIOUS
  <2>3. RecordOk(rec, image.chunks)
    BY <2>1, <2>2 DEF ImageOk
  <2>4. RangeOf(ReadRecord(zip, image, rec, off, len), len)
    BY <2>3, ReadRecordIs
  <2>. QED
    BY <1>1, <1>6, <2>2, <2>4 DEF ReadEntry, ReadFound
<1>. QED
  BY <1>4, <1>5, <1>6

-----------------------------------------------------------------------------
(* Laying out. *)

\* No cell, one cell, and cells behind cells.
LEMMA NoBlocks == Blocks(<<>>) /\ Len(<<>>) = 0
<1>1. PICK o : o = <<>>
  OBVIOUS
<1>2. Len(o) = 0 /\ o = [k \in 1..0 |-> o[k]]
  BY <1>1
<1>. QED
  BY <1>1, <1>2 DEF Blocks, IsSeq

\* A file of one cell.
LEMMA OneBlock == ASSUME NEW c, CellOk(c) PROVE Blocks(<<c>>) /\ Len(<<c>>) = 1
<1>1. PICK o : o = <<c>>
  OBVIOUS
<1>2. Len(o) = 1 /\ o[1] = c /\ o = [k \in 1..1 |-> o[k]]
  BY <1>1
<1>3. \A i \in 1..Len(o) : CellOk(o[i])
  BY <1>2
<1>. QED
  BY <1>1, <1>2, <1>3 DEF Blocks, IsSeq

\* Two files behind each other.
LEMMA JoinBlocks ==
  ASSUME NEW s, Blocks(s), NEW t, Blocks(t) PROVE Blocks(s \o t)
<1>1. PICK z : z = s \o t
  OBVIOUS
<1>2. IsSeq(s) /\ IsSeq(t)
  BY DEF Blocks
<1>3. JoinOf(s, t, z)
  BY <1>1, <1>2, JoinIs
<1>4. Len(s) \in Nat /\ Len(t) \in Nat
  BY <1>2 DEF IsSeq
<1>5. ASSUME NEW i \in 1..Len(z) PROVE CellOk(z[i])
  <2>1. CASE i <= Len(s)
    <3>1. i \in 1..Len(s)
      BY <1>3, <1>4, <2>1 DEF JoinOf
    <3>2. z[i] = s[i] /\ CellOk(s[i])
      BY <1>3, <3>1 DEF JoinOf, Blocks
    <3>. QED
      BY <3>2
  <2>2. CASE ~(i <= Len(s))
    <3>1. PICK k \in 1..Len(t) : i = Len(s) + k
      <4>1. i - Len(s) \in 1..Len(t) /\ i = Len(s) + (i - Len(s))
        BY <1>3, <1>4, <2>2 DEF JoinOf
      <4>. QED
        BY <4>1
    <3>2. z[i] = t[k] /\ CellOk(t[k])
      BY <1>3, <3>1 DEF JoinOf, Blocks
    <3>. QED
      BY <3>2
  <2>. QED
    BY <2>1, <2>2
<1>. QED
  BY <1>1, <1>3, <1>5 DEF Blocks, JoinOf

\* A function on 1..n is a sequence, for an n below 1 the empty one.
LEMMA CountedIs ==
  ASSUME NEW s, NEW n \in Int PROVE IsSeq([i \in 1..n |-> s[i]])
<1>1. CASE n \in Nat
  BY <1>1, PrefixIs DEF SeqFor
<1>2. CASE ~(n \in Nat)
  <2>1. 1..n = 1..0
    BY <1>2
  <2>2. IsSeq([i \in 1..0 |-> s[i]])
    BY PrefixIs DEF SeqFor
  <2>. QED
    BY <2>1, <2>2
<1>. QED
  BY <1>1, <1>2

\* What the compressor writes are blocks.
LEMMA DeflateIs == ASSUME NEW content, IsSeq(content) PROVE Blocks(Deflate(content))
<1>1. PICK n \in Nat : n = Len(content)
  BY DEF IsSeq
<1>2. PICK B \in Nat \ {0} : B = BlockSize
  BY ProvidersAssumption
<1>. DEFINE Count(k) == IF n - (k - 1) * B < B THEN n - (k - 1) * B ELSE B
            Syms(k) == [j \in 1..Count(k) |-> Coded(content, (k - 1) * B + j)]
            total == IF n = 0 THEN 1 ELSE (n + B - 1) \div B
<1>3. PICK z : z = Deflate(content)
  OBVIOUS
<1>4. z = [k \in 1..total |-> Block(Syms(k), k = total)]
  BY <1>1, <1>2, <1>3 DEF Deflate
<1>. HIDE DEF Syms
<1>5. PICK m \in Int : m = total
  <2>1. PICK a \in Nat : a = n + B - 1
    <3>1. n + B - 1 \in Nat
      BY <1>1, <1>2
    <3>. QED
      BY <3>1
  <2>2. a \div B \in Int
    BY <1>2, <2>1
  <2>3. total = IF n = 0 THEN 1 ELSE a \div B
    BY <2>1
  <2>. HIDE DEF total
  <2>. QED
    BY <2>2, <2>3
<1>. HIDE DEF total
<1>6. z = [k \in 1..m |-> z[k]] /\ \A k \in 1..m : z[k] = Block(Syms(k), k = m)
  BY <1>4, <1>5
<1>7. IsSeq(z) /\ \A k \in 1..Len(z) : k \in 1..m
  <2>1. IsSeq([k \in 1..m |-> z[k]])
    BY CountedIs
  <2>2. IsSeq(z)
    BY <1>6, <2>1
  <2>3. DOMAIN z = 1..m /\ DOMAIN z = 1..Len(z)
    BY <1>6, <2>2 DEF IsSeq
  <2>. QED
    BY <2>2, <2>3
<1>8. ASSUME NEW k \in 1..m PROVE CellOk(z[k])
  <2>1. PICK s : s = Syms(k)
    OBVIOUS
  <2>2. IsSeq(s)
    <3>1. PICK c \in Int : c = Count(k)
      <4>1. PICK p \in Int : p = (k - 1) * B
        BY <1>2
      <4>2. Count(k) = IF n - p < B THEN n - p ELSE B
        BY <4>1
      <4>. HIDE DEF Count
      <4>. QED
        BY <1>2, <4>2
    <3>. HIDE DEF Count
    <3>2. s = [j \in 1..c |-> s[j]]
      BY <2>1, <3>1 DEF Syms
    <3>3. IsSeq([j \in 1..c |-> s[j]])
      BY CountedIs
    <3>. QED
      BY <3>2, <3>3
  <2>3. AnySeq(s)
    BY <2>2, AnySeqIs
  <2>4. PICK c : c = Block(s, k = m)
    OBVIOUS
  <2>5. c.cell = "block" /\ c.syms = s /\ c = Block(c.syms, c.final)
    BY <2>4 DEF Block
  <2>6. CellOk(c)
    BY <2>3, <2>5 DEF CellOk
  <2>. QED
    BY <1>6, <2>1, <2>4, <2>6
<1>. QED
  BY <1>3, <1>7, <1>8 DEF Blocks

\* A record that can be read, or one that is made anew and not yet placed.
Movable(r, stays) == Widened(r) # NotWidened \/ (~stays /\ r.z64 = <<>>)

\* Cells are a local header and as much data as the record says, wherever it puts them.
Fills(cells, record) ==
  /\ Len(cells) > 0 /\ cells[1].cell = "lfh" /\ cells[1].extra \in Nat
  /\ \E comp \in Nat : Len(cells) = 1 + cells[1].extra + comp /\ CompIs(record, comp)

\* A piece that is not refused: cells, and a record of the directory.
PieceIs(p) ==
  p # Refused => /\ Blocks(p.cells) /\ CdRecord(p.record) /\ (p.stays \/ Len(p.cells) > 0)
                 /\ Movable(p.record, p.stays) /\ (p.stays \/ Fills(p.cells, p.record))

\* A piece of cells and a record.
LEMMA PieceHas ==
  ASSUME NEW cells, Blocks(cells), NEW record, CdRecord(record), NEW stays,
         stays \/ Fills(cells, record), Movable(record, stays)
  PROVE  PieceIs(Piece(cells, record, stays))
<1>1. PICK p : p = Piece(cells, record, stays)
  OBVIOUS
<1>2. p.cells = cells /\ p.record = record /\ p.stays = stays
  BY <1>1 DEF Piece
<1>3. Fills(cells, record) => Len(cells) > 0
  BY DEF Fills
<1>. QED
  BY <1>1, <1>2, <1>3 DEF PieceIs

\* A piece that cannot be made.
LEMMA RefusedPiece == PieceIs(Refused)
BY DEF PieceIs

\* A record made anew, for any content and sizes.
LEMMA RecordMade ==
  ASSUME NEW name \in Names, NEW method, NEW crc, NEW comp \in Nat, NEW uncomp \in Nat
  PROVE  CdRecord([cell |-> "cdfh", name |-> name, method |-> method, flags |-> 0, crc |-> crc,
                   comp |-> comp, uncomp |-> uncomp, lho |-> 0, z64 |-> <<>>, meta |-> "none"])
<1>1. PICK r : r = [cell |-> "cdfh", name |-> name, method |-> method, flags |-> 0, crc |-> crc,
                    comp |-> comp, uncomp |-> uncomp, lho |-> 0, z64 |-> <<>>, meta |-> "none"]
  OBVIOUS
<1>2. /\ r.cell = "cdfh" /\ r.name = name /\ r.method = method /\ r.flags = 0 /\ r.crc = crc
      /\ r.comp = comp /\ r.uncomp = uncomp /\ r.lho = 0 /\ r.z64 = <<>> /\ r.meta = "none"
  BY <1>1
<1>3. r = [cell |-> "cdfh", name |-> r.name, method |-> r.method, flags |-> r.flags,
           crc |-> r.crc, comp |-> r.comp, uncomp |-> r.uncomp, lho |-> r.lho,
           z64 |-> r.z64, meta |-> r.meta]
  BY <1>1, <1>2
<1>4. r.z64 \in Seq(Nat)
  BY <1>2
<1>5. r.name \in Names /\ {r.comp, r.uncomp, r.lho} \subseteq Nat
  BY <1>2
<1>. QED
  BY <1>1, <1>3, <1>4, <1>5 DEF CdRecord

\* A local header.
LEMMA HeaderIs ==
  ASSUME NEW name, NEW extra \in Nat
  PROVE  Blocks(<<Lfh(name, extra)>>) /\ Len(<<Lfh(name, extra)>>) = 1
<1>1. PICK c : c = Lfh(name, extra)
  OBVIOUS
<1>2. c.cell = "lfh" /\ c.extra = extra
  BY <1>1 DEF Lfh
<1>3. CellOk(c)
  BY <1>2 DEF CellOk
<1>. QED
  BY <1>1, <1>3, OneBlock

\* Data behind a local header.
LEMMA BehindHeader ==
  ASSUME NEW name, NEW data, Blocks(data)
  PROVE  /\ Blocks(<<Lfh(name, 0)>> \o data)
         /\ \A r : CompIs(r, Len(data)) => Fills(<<Lfh(name, 0)>> \o data, r)
<1>1. PICK h : h = <<Lfh(name, 0)>>
  OBVIOUS
<1>2. Blocks(h) /\ Len(h) = 1
  BY <1>1, HeaderIs
<1>3. Blocks(h \o data)
  BY <1>2, JoinBlocks
<1>4. JoinOf(h, data, h \o data)
  BY <1>2, JoinIs DEF Blocks
<1>5. Len(data) \in Nat
  BY DEF Blocks, IsSeq
<1>6. Len(h \o data) = 1 + Len(data)
  BY <1>2, <1>4 DEF JoinOf
<1>7. (h \o data)[1] = h[1]
  BY <1>2, <1>4 DEF JoinOf
<1>8. h[1].cell = "lfh" /\ h[1].extra = 0
  BY <1>1 DEF Lfh
<1>9. PICK z : z = h \o data
  OBVIOUS
<1>10. Len(z) > 0 /\ z[1].cell = "lfh" /\ z[1].extra = 0 /\ Len(z) = 1 + z[1].extra + Len(data)
  BY <1>5, <1>6, <1>7, <1>8, <1>9
<1>11. \A r : CompIs(r, Len(data)) => Fills(z, r)
  BY <1>5, <1>10 DEF Fills
<1>. QED
  BY <1>1, <1>3, <1>9, <1>11

\* An entry that is written anew.
LEMMA PlacedIs ==
  ASSUME NEW name \in Names, NEW method, NEW content, IsSeq(content), NEW stored, Blocks(stored)
  PROVE  PieceIs(Placed(name, method, content, stored))
<1>1. PICK cells : cells = <<Lfh(name, 0)>> \o stored
  OBVIOUS
<1>2. Blocks(cells) /\ \A r : CompIs(r, Len(stored)) => Fills(cells, r)
  BY <1>1, BehindHeader
<1>3. Len(stored) \in Nat /\ Len(content) \in Nat
  BY DEF Blocks, IsSeq
<1>4. CdRecord(Synth(name, method, content, stored))
  BY <1>3, RecordMade DEF Synth
<1>5. Movable(Synth(name, method, content, stored), FALSE)
  BY DEF Synth, Movable
<1>7. PICK r : r = Synth(name, method, content, stored)
  OBVIOUS
<1>8. r.z64 = <<>> /\ r.comp = Len(stored)
  BY <1>7 DEF Synth
<1>9. CompIs(r, Len(stored))
  BY <1>4, <1>7, <1>8, CompAnew
<1>6. PieceIs(Piece(cells, Synth(name, method, content, stored), FALSE))
  BY <1>2, <1>4, <1>5, <1>7, <1>9, PieceHas
<1>. QED
  BY <1>1, <1>6 DEF Placed

\* An entry whose data are copied.
LEMMA CopiedIs ==
  ASSUME NEW zip, Blocks(zip), NEW e, EntryOk(e), NEW name \in Names PROVE PieceIs(Copied(zip, e, name))
<1>1. CASE DataOffset(zip, e) = NoData
  BY <1>1, RefusedPiece DEF Copied
<1>2. CASE DataOffset(zip, e) # NoData
  <2>1. PICK data : data = EntryData(zip, e)
    OBVIOUS
  <2>2. Blocks(data) /\ Len(data) \in Nat
    BY <1>2, <2>1, EntryDataIs DEF Blocks, IsSeq
  <2>3. PICK cells : cells = <<Lfh(name, 0)>> \o data
    OBVIOUS
  <2>4. Blocks(cells) /\ \A r : CompIs(r, Len(data)) => Fills(cells, r)
    BY <2>2, <2>3, BehindHeader
  <2>5. PICK s : s = Synth(name, e.method, e.crc, data)
    OBVIOUS
  <2>6. PICK r : r = [s EXCEPT !.uncomp = e.uncomp]
    OBVIOUS
  <2>7. s = [cell |-> "cdfh", name |-> name, method |-> e.method, flags |-> 0, crc |-> e.crc,
             comp |-> Len(data), uncomp |-> Len(e.crc), lho |-> 0, z64 |-> <<>>, meta |-> "none"]
    BY <2>5 DEF Synth
  <2>8. r = [cell |-> "cdfh", name |-> name, method |-> e.method, flags |-> 0, crc |-> e.crc,
             comp |-> Len(data), uncomp |-> e.uncomp, lho |-> 0, z64 |-> <<>>, meta |-> "none"]
    BY <2>6, <2>7
  <2>9. CdRecord(r)
    <3>1. e.uncomp \in Nat
      BY DEF EntryOk
    <3>2. CdRecord([cell |-> "cdfh", name |-> name, method |-> e.method, flags |-> 0, crc |-> e.crc,
             comp |-> Len(data), uncomp |-> e.uncomp, lho |-> 0, z64 |-> <<>>, meta |-> "none"])
      BY <2>2, <3>1, RecordMade
    <3>. QED
      BY <2>8, <3>2
  <2>10. Movable(r, FALSE)
    BY <2>8 DEF Movable
  <2>13. r.z64 = <<>> /\ r.comp = Len(data)
    BY <2>8
  <2>14. CompIs(r, Len(data))
    BY <2>9, <2>13, CompAnew
  <2>11. PieceIs(Piece(cells, r, FALSE))
    BY <2>4, <2>9, <2>10, <2>14, PieceHas
  <2>12. Copied(zip, e, name) = Piece(cells, r, FALSE)
    BY <1>2, <2>1, <2>3, <2>5, <2>6 DEF Copied, CopiedData
  <2>. QED
    BY <2>11, <2>12
<1>. QED
  BY <1>1, <1>2

\* An entry that is taken as it is.
LEMMA VerbatimIs ==
  ASSUME NEW zip, Blocks(zip), NEW e, EntryOk(e) PROVE PieceIs(Verbatim(zip, e))
<1>1. CASE e.record.lho = U32Max \/ DataOffset(zip, e) = NoData
  BY <1>1, RefusedPiece DEF Verbatim
<1>2. CASE ~(e.record.lho = U32Max \/ DataOffset(zip, e) = NoData)
  <2>1. PICK off \in Nat : off = DataOffset(zip, e) /\ off + e.comp <= Len(zip) /\ e.lho < off
    BY <1>2, DataOffsetIs
  <2>2. PICK at \in Nat : at = e.lho
    BY DEF EntryOk
  <2>3. PICK comp \in Nat : comp = e.comp
    BY DEF EntryOk
  <2>4. PICK count \in Nat : count = off + comp - at /\ at + count = off + comp
    <3>1. off + comp - at \in Nat /\ at + (off + comp - at) = off + comp
      BY <2>1, <2>2, <2>3
    <3>. QED
      BY <3>1
  <2>5. at + count <= Len(zip)
    BY <2>1, <2>3, <2>4
  <2>6. Blocks(SubSeq(zip, at + 1, at + count)) /\ Fills(SubSeq(zip, at + 1, at + count), e.record)
    <3>1. count > 0
      BY <2>1, <2>2, <2>3, <2>4
    <3>2. PICK cells : cells = SubSeq(zip, at + 1, at + count)
      OBVIOUS
    <3>3. Blocks(cells) /\ Len(cells) = count
      BY <2>5, <3>2, CellsFromIs
    <3>4. PICK h : h = At(zip, at)
      OBVIOUS
    <3>5. h.cell = "lfh" /\ off = at + 1 + h.extra
      BY <1>2, <2>1, <2>2, <3>4 DEF DataOffset
    <3>6. CellOk(h)
      BY <3>4, AtIs
    <3>7. h.extra \in Nat
      BY <3>5, <3>6 DEF CellOk
    <3>8. at < Len(zip) /\ Len(zip) \in Nat
      BY <2>4, <2>5, <3>1 DEF Blocks, IsSeq
    <3>9. cells[1] = h
      <4>1. PICK b \in Nat \ {0} : b = at + 1
        OBVIOUS
      <4>2. PICK x : x = SubSeq(zip, b, b + count - 1)
        OBVIOUS
      <4>3. b + count - 1 = at + count
        BY <4>1
      <4>4. PartOf(zip, b, count, x)
        BY <2>5, <4>1, <4>2, PartIs DEF Blocks
      <4>5. 1 \in 1..count /\ b + 1 - 1 = at + 1
        BY <3>1, <4>1
      <4>6. x[1] = zip[at + 1]
        BY <4>4, <4>5 DEF PartOf
      <4>. QED
        BY <3>2, <3>4, <3>8, <4>1, <4>2, <4>3, <4>6 DEF At
    <3>10. count = 1 + h.extra + comp
      BY <2>4, <3>5, <3>7
    <3>11. CompIs(e.record, comp)
      BY <2>3, CompMoved DEF EntryOk
    <3>12. Fills(cells, e.record)
      BY <3>1, <3>3, <3>5, <3>7, <3>9, <3>10, <3>11 DEF Fills
    <3>. QED
      BY <3>2, <3>3, <3>12
  <2>7. PieceIs(Piece(SubSeq(zip, at + 1, at + count), e.record, FALSE))
    BY <2>6, PieceHas DEF EntryOk, Movable
  <2>8. Verbatim(zip, e) = Piece(SubSeq(zip, at + 1, at + count), e.record, FALSE)
    BY <1>2, <2>1, <2>2, <2>3, <2>4 DEF Verbatim
  <2>. QED
    BY <2>7, <2>8
<1>. QED
  BY <1>1, <1>2

\* A record with another place.
LEMMA RecordMoved ==
  ASSUME NEW r, CdRecord(r), NEW lho \in Nat PROVE CdRecord([r EXCEPT !.lho = lho])
<1>1. PICK x : x = [r EXCEPT !.lho = lho]
  OBVIOUS
<1>2. x = [cell |-> "cdfh", name |-> r.name, method |-> r.method, flags |-> r.flags,
           crc |-> r.crc, comp |-> r.comp, uncomp |-> r.uncomp, lho |-> lho,
           z64 |-> r.z64, meta |-> r.meta]
  BY <1>1 DEF CdRecord
<1>3. /\ x.cell = "cdfh" /\ x.name = r.name /\ x.method = r.method /\ x.flags = r.flags
      /\ x.crc = r.crc /\ x.comp = r.comp /\ x.uncomp = r.uncomp /\ x.lho = lho
      /\ x.z64 = r.z64 /\ x.meta = r.meta
  BY <1>2
<1>4. x = [cell |-> "cdfh", name |-> x.name, method |-> x.method, flags |-> x.flags,
           crc |-> x.crc, comp |-> x.comp, uncomp |-> x.uncomp, lho |-> x.lho,
           z64 |-> x.z64, meta |-> x.meta]
  BY <1>2, <1>3
<1>5. x.name \in Names /\ {x.comp, x.uncomp, x.lho} \subseteq Nat /\ x.z64 \in Seq(Nat)
  BY <1>3 DEF CdRecord
<1>. QED
  BY <1>1, <1>4, <1>5 DEF CdRecord

\* An entry that stays where it is.
LEMMA InPlaceIs == ASSUME NEW e, EntryOk(e) PROVE PieceIs(InPlace(e))
<1>1. PICK r : r = [e.record EXCEPT !.lho = e.lho]
  OBVIOUS
<1>2. CdRecord(r)
  BY <1>1, RecordMoved DEF EntryOk
<1>3. Movable(r, TRUE)
  <2>1. Widened(r) # NotWidened
    BY <1>1, WidenedMoved DEF EntryOk
  <2>. QED
    BY <2>1 DEF Movable
<1>4. PieceIs(Piece(<<>>, r, TRUE))
  BY <1>2, <1>3, NoBlocks, PieceHas
<1>. QED
  BY <1>1, <1>4, RefusedPiece DEF InPlace

\* Pieces behind each other.
PiecesAre(pieces) == IsSeq(pieces) /\ \A i \in 1..Len(pieces) : PieceIs(pieces[i])
Kept(pieces) == \A i \in 1..Len(pieces) : pieces[i] # Refused

\* The cells of some pieces.
LEMMA BodyIs ==
  ASSUME NEW pieces, PiecesAre(pieces), Kept(pieces), NEW n \in 0..Len(pieces)
  PROVE  Blocks(Body(pieces, n))
<1>1. PICK m \in Nat : m = Len(pieces)
  BY DEF PiecesAre, IsSeq
<1>2. PICK S : S = [i \in 1..m |-> pieces[i].cells]
  OBVIOUS
<1>3. ASSUME NEW i \in 1..m PROVE S[i] = pieces[i].cells /\ Blocks(S[i])
  <2>1. PieceIs(pieces[i]) /\ pieces[i] # Refused
    BY <1>1 DEF PiecesAre, Kept
  <2>. QED
    BY <1>2, <2>1 DEF PieceIs
<1>4. n \in 0..m /\ n \in Nat
  BY <1>1
<1>5. PICK x : x = FlattenSeq(Pre(S, n))
  OBVIOUS
<1>6. \A i \in 1..m : IsSeq(S[i])
  BY <1>3 DEF Blocks
<1>7. FlatOf(S, n, x)
  BY <1>4, <1>5, <1>6, FlattenOf
<1>8. Pre(S, n) = [i \in 1..n |-> pieces[i].cells]
  BY <1>2, <1>4 DEF Pre
<1>9. Body(pieces, n) = x
  BY <1>5, <1>8 DEF Body
<1>10. ASSUME NEW j \in 1..Len(x) PROVE CellOk(x[j])
  <2>1. PICK i \in 1..n : \E k \in 1..Len(S[i]) : x[j] = S[i][k]
    BY <1>7 DEF FlatOf
  <2>2. PICK k \in 1..Len(S[i]) : x[j] = S[i][k]
    BY <2>1
  <2>3. i \in 1..m
    BY <1>4
  <2>4. CellOk(S[i][k])
    BY <1>3, <2>3 DEF Blocks
  <2>. QED
    BY <2>2, <2>4
<1>. QED
  BY <1>7, <1>9, <1>10 DEF Blocks, FlatOf

\* The directory of the pieces.
LEMMA RecordsPlaced ==
  ASSUME NEW pieces, PiecesAre(pieces), Kept(pieces), NEW base \in Nat
  PROVE  /\ Blocks(PlacedRecords(base, pieces)) /\ Len(PlacedRecords(base, pieces)) = Len(pieces)
         /\ \A i \in 1..Len(pieces) : CdRecord(PlacedRecords(base, pieces)[i])
<1>1. PICK m \in Nat : m = Len(pieces)
  BY DEF PiecesAre, IsSeq
<1>2. PICK cd : cd = PlacedRecords(base, pieces)
  OBVIOUS
<1>3. cd = [i \in 1..m |-> RecordAt(pieces[i], base + Len(Body(pieces, i - 1)))]
  BY <1>1, <1>2 DEF PlacedRecords
<1>4. Len(cd) = m /\ cd = [i \in 1..m |-> cd[i]]
  BY <1>3
<1>5. ASSUME NEW i \in 1..m PROVE CdRecord(cd[i])
  <2>1. PieceIs(pieces[i]) /\ pieces[i] # Refused
    BY <1>1 DEF PiecesAre, Kept
  <2>2. PICK r : r = pieces[i].record
    OBVIOUS
  <2>3. CdRecord(r)
    BY <2>1, <2>2 DEF PieceIs
  <2>4. r.lho \in Nat
    BY <2>3 DEF CdRecord
  <2>5. i - 1 \in 0..m
    OBVIOUS
  <2>6. Blocks(Body(pieces, i - 1))
    BY <1>1, <2>5, BodyIs
  <2>7. Len(Body(pieces, i - 1)) \in Nat
    BY <2>6 DEF Blocks, IsSeq
  <2>8. PICK offset \in Nat : offset = base + Len(Body(pieces, i - 1))
    <3>1. base + Len(Body(pieces, i - 1)) \in Nat
      BY <2>7
    <3>. QED
      BY <3>1
  <2>9. PICK lho \in Nat : lho = IF pieces[i].stays THEN r.lho ELSE offset
    BY <2>4
  <2>10. CdRecord([r EXCEPT !.lho = lho])
    BY <2>3, RecordMoved
  <2>11. cd[i] = RecordAt(pieces[i], offset)
    BY <1>3, <2>8
  <2>12. RecordAt(pieces[i], offset) = [r EXCEPT !.lho = lho]
    BY <2>2, <2>9 DEF RecordAt
  <2>. QED
    BY <2>10, <2>11, <2>12
<1>6. ASSUME NEW i \in 1..m PROVE CellOk(cd[i])
  <2>1. CdRecord(cd[i])
    BY <1>5
  <2>2. cd[i].cell = "cdfh"
    BY <2>1 DEF CdRecord
  <2>. QED
    BY <2>1, <2>2 DEF CellOk
<1>. QED
  BY <1>1, <1>2, <1>4, <1>5, <1>6 DEF Blocks, IsSeq

\* What a commit lays out are cells.
LEMMA LaidIs ==
  ASSUME NEW pieces, PiecesAre(pieces), NEW base \in Nat
  PROVE  Laid(base, pieces).ok => Blocks(Laid(base, pieces).cells)
<1>1. Refused.ok = FALSE
  BY DEF Refused
<1>2. CASE \E i \in 1..Len(pieces) : pieces[i] = Refused
  BY <1>1, <1>2 DEF Laid
<1>3. CASE Kept(pieces)
  <2>1. PICK m \in Nat : m = Len(pieces)
    BY DEF PiecesAre, IsSeq
  <2>2. PICK body : body = Body(pieces, m)
    OBVIOUS
  <2>3. m \in 0..m
    OBVIOUS
  <2>4. Blocks(body)
    BY <1>3, <2>1, <2>2, <2>3, BodyIs
  <2>5. PICK cd : cd = PlacedRecords(base, pieces)
    OBVIOUS
  <2>6. Blocks(cd) /\ Len(cd) = m
    BY <1>3, <2>1, <2>5, RecordsPlaced
  <2>7. PICK e : e = Eocd(Len(cd), Len(cd), base + Len(body), 0)
    OBVIOUS
  <2>8. CellOk(e)
    <3>1. Len(body) \in Nat
      BY <2>4 DEF Blocks, IsSeq
    <3>2. e.cell = "eocd" /\ e.count = m /\ e.cdSize = m /\ e.cdOffset = base + Len(body)
      BY <2>6, <2>7 DEF Eocd
    <3>. QED
      BY <3>1, <3>2 DEF CellOk
  <2>9. Blocks(body \o cd)
    BY <2>4, <2>6, JoinBlocks
  <2>10. PICK end : end = <<e>>
    OBVIOUS
  <2>11. Blocks(end)
    BY <2>8, <2>10, OneBlock
  <2>12. Blocks((body \o cd) \o end)
    BY <2>9, <2>11, JoinBlocks
  <2>13. PICK z : z = (body \o cd) \o end
    OBVIOUS
  <2>14. PICK done : done = [ok |-> TRUE, cells |-> z]
    OBVIOUS
  <2>15. Laid(base, pieces) = Finished(base, body, cd)
    BY <1>3, <2>1, <2>2, <2>5 DEF Laid, Kept
  <2>16. Finished(base, body, cd) = Refused \/ Finished(base, body, cd) = done
    BY <2>7, <2>10, <2>13, <2>14 DEF Finished
  <2>17. done.cells = z
    BY <2>14
  <2>. QED
    BY <1>1, <2>12, <2>13, <2>15, <2>16, <2>17
<1>. QED
  BY <1>2, <1>3 DEF Kept

-----------------------------------------------------------------------------
(* Parsing what was laid out. *)

\* Where a sequence begins in what is flattened, its elements follow.
LEMMA FlattenPlace ==
  ASSUME NEW s, NEW m \in Nat, \A i \in 1..m : IsSeq(s[i]), NEW n \in 1..m, NEW l \in 1..Len(s[n])
  PROVE  /\ Len(FlattenSeq(Pre(s, n - 1))) + l \in 1..Len(FlattenSeq(Pre(s, m)))
         /\ FlattenSeq(Pre(s, m))[Len(FlattenSeq(Pre(s, n - 1))) + l] = s[n][l]
<1>. DEFINE X(k) == FlattenSeq(Pre(s, k))
<1>0. \A k \in 0..m : IsSeq(X(k))
  BY FlattenOf DEF FlatOf
<1>1. \A k \in 0..m : IsSeq(X(k)) /\ Len(X(k)) \in Nat
  <2>. HIDE DEF X
  <2>. QED
    BY <1>0 DEF IsSeq
<1>2. ASSUME NEW k \in 1..m PROVE JoinOf(X(k - 1), s[k], X(k))
  <2>1. PICK q \in Nat : q = k - 1 /\ q + 1 = k /\ q \in 0..m
    <3>1. k - 1 \in Nat /\ k - 1 + 1 = k /\ k - 1 \in 0..m
      OBVIOUS
    <3>. QED
      BY <3>1
  <2>2. X(q + 1) = X(q) \o s[q + 1]
    BY <2>1, FlattenMore
  <2>3. PICK x : x = X(q)
    OBVIOUS
  <2>4. IsSeq(x) /\ IsSeq(s[k])
    BY <1>1, <2>1, <2>3
  <2>5. JoinOf(x, s[k], x \o s[k])
    BY <2>4, JoinIs
  <2>. QED
    BY <2>1, <2>2, <2>3, <2>5
<1>. HIDE DEF X
<1>3. PICK p \in Nat : p = Len(X(n - 1)) + l
  <2>1. n - 1 \in 0..m
    OBVIOUS
  <2>2. Len(X(n - 1)) \in Nat
    BY <1>1, <2>1
  <2>3. Len(X(n - 1)) + l \in Nat
    BY <2>2
  <2>. QED
    BY <2>3
<1>. DEFINE T == {k \in 0..(m - n) : p \in 1..Len(X(n + k)) /\ X(n + k)[p] = s[n][l]}
<1>4. 0 \in T
  <2>1. JoinOf(X(n - 1), s[n], X(n)) /\ IsSeq(s[n]) /\ n + 0 = n
    BY <1>2
  <2>2. Len(X(n - 1)) \in Nat
    <3>1. n - 1 \in 0..m
      OBVIOUS
    <3>. QED
      BY <1>1, <3>1
  <2>3. p \in 1..Len(X(n)) /\ X(n)[p] = s[n][l]
    <3>1. PICK a \in Nat : a = Len(X(n - 1))
      BY <2>2
    <3>2. PICK b \in Nat : b = Len(s[n])
      BY <2>1 DEF IsSeq
    <3>3. l \in 1..b /\ p = a + l
      BY <1>3, <3>1, <3>2
    <3>4. Len(X(n)) = a + b /\ X(n)[a + l] = s[n][l]
      BY <2>1, <3>1, <3>2 DEF JoinOf
    <3>. QED
      BY <3>3, <3>4
  <2>4. 0 \in 0..(m - n)
    OBVIOUS
  <2>. QED
    BY <2>1, <2>3, <2>4
<1>5. ASSUME NEW k \in 1..(m - n), k - 1 \in T PROVE k \in T
  <2>1. PICK j \in 1..m : j = n + k /\ j - 1 = n + (k - 1)
    <3>1. n + k \in 1..m /\ (n + k) - 1 = n + (k - 1)
      OBVIOUS
    <3>. QED
      BY <3>1
  <2>2. JoinOf(X(j - 1), s[j], X(j)) /\ IsSeq(s[j])
    BY <1>2
  <2>3. p \in 1..Len(X(j - 1)) /\ X(j - 1)[p] = s[n][l]
    BY <1>5, <2>1
  <2>4. p \in 1..Len(X(j)) /\ X(j)[p] = s[n][l]
    <3>0. j - 1 \in 0..m
      OBVIOUS
    <3>1. PICK a \in Nat : a = Len(X(j - 1))
      BY <1>1, <3>0
    <3>2. PICK b \in Nat : b = Len(s[j])
      BY <2>2 DEF IsSeq
    <3>3. Len(X(j)) = a + b /\ X(j)[p] = X(j - 1)[p]
      BY <2>2, <2>3, <3>1, <3>2 DEF JoinOf
    <3>4. p \in 1..a
      BY <2>3, <3>1
    <3>5. p \in 1..(a + b)
      BY <3>4
    <3>6. X(j)[p] = s[n][l]
      BY <2>3, <3>3
    <3>. QED
      BY <3>3, <3>5, <3>6
  <2>5. k \in 0..(m - n)
    OBVIOUS
  <2>. QED
    BY <2>1, <2>4, <2>5
<1>6. m - n \in Nat /\ n + (m - n) = m
  OBVIOUS
<1>7. m - n \in T
  <2>. HIDE DEF T
  <2>1. \A k \in 0..(m - n) : k \in T
    BY <1>4, <1>5, <1>6, CountUp
  <2>. QED
    BY <1>6, <2>1
<1>8. p \in 1..Len(X(m)) /\ X(m)[p] = s[n][l]
  BY <1>6, <1>7
<1>. QED
  BY <1>3, <1>8 DEF X

\* The end record at the end of a file is the one that is found.
LEMMA EocdFound ==
  ASSUME NEW zip, NEW n \in Nat, Len(zip) = n + 1, zip[n + 1].cell = "eocd", zip[n + 1].comment = 0
  PROVE  FindEocd(zip) = n /\ At(zip, n) = zip[n + 1]
<1>1. At(zip, n) = zip[n + 1]
  <2>1. n < Len(zip)
    OBVIOUS
  <2>. QED
    BY <2>1 DEF At
<1>2. EndsFile(zip, n, At(zip, n))
  <2>1. U16Max \in Nat /\ n + U16Max >= Len(zip) - 1 /\ n + 1 + 0 = Len(zip)
    BY ZipAssumption
  <2>. QED
    BY <1>1, <2>1 DEF EndsFile
<1>. DEFINE T == {o \in 0..(Len(zip) - 1) : EndsFile(zip, o, At(zip, o))}
<1>3. n \in T /\ \A o \in T : o \in Nat /\ o <= n
  BY <1>2
<1>. HIDE DEF T
<1>4. LastOf(T) \in T /\ \A p \in T : p <= LastOf(T)
  <2>1. \E o \in T : \A p \in T : p <= o
    BY <1>3
  <2>2. T # {}
    BY <1>3
  <2>3. LastOf(T) = CHOOSE o \in T : \A p \in T : p <= o
    BY <2>2, Zenon DEF LastOf
  <2>. QED
    BY <2>1, <2>3, Zenon
<1>5. LastOf(T) = n
  <2>1. PICK x : x = LastOf(T)
    OBVIOUS
  <2>2. x \in Nat /\ x <= n /\ n <= x
    BY <1>3, <1>4, <2>1
  <2>. QED
    BY <2>1, <2>2
<1>. QED
  BY <1>1, <1>5 DEF FindEocd, T

\* A file that a commit leaves: something up to base, the cells of the pieces, the
\* directory, the end record.
LaidOver(zip, base, body, cd) ==
  /\ base \in Nat /\ Len(body) \in Nat /\ Len(cd) \in Nat
  /\ IsSeq(zip) /\ Len(zip) = base + Len(body) + Len(cd) + 1
  /\ \A k \in 1..Len(body) : zip[base + k] = body[k]
  /\ \A k \in 1..Len(cd) : zip[base + Len(body) + k] = cd[k] /\ cd[k].cell = "cdfh"
  /\ zip[Len(zip)] = Eocd(Len(cd), Len(cd), base + Len(body), 0)

\* Its end record, its directory, and the entries of its records.
LaidEnd(base, body, cd) == Eocd(Len(cd), Len(cd), base + Len(body), 0)
LaidDir(base, body, cd) ==
  [ok |-> TRUE, offset |-> base + Len(body), size |-> Len(cd), count |-> Len(cd)]
LaidEntries(cd) == [i \in 1..Len(cd) |-> EntryOf(cd[i], Widened(cd[i]))]

\* Its end record is the one that is found.
LEMMA LaidEocd ==
  ASSUME NEW zip, NEW base, NEW body, NEW cd, LaidOver(zip, base, body, cd)
  PROVE  /\ FindEocd(zip) = Len(zip) - 1 /\ Len(zip) - 1 \in Nat
         /\ At(zip, Len(zip) - 1) = LaidEnd(base, body, cd)
<1>1. PICK n \in Nat : n = base + Len(body) + Len(cd) /\ Len(zip) = n + 1 /\ Len(zip) - 1 = n
  <2>1. base + Len(body) + Len(cd) \in Nat
    BY DEF LaidOver
  <2>2. Len(zip) = base + Len(body) + Len(cd) + 1
    BY DEF LaidOver
  <2>. QED
    BY <2>1, <2>2
<1>2. zip[n + 1] = LaidEnd(base, body, cd)
  BY <1>1 DEF LaidOver, LaidEnd
<1>3. LaidEnd(base, body, cd).cell = "eocd" /\ LaidEnd(base, body, cd).comment = 0
  BY DEF LaidEnd, Eocd
<1>4. FindEocd(zip) = n /\ At(zip, n) = zip[n + 1]
  BY <1>1, <1>2, <1>3, EocdFound
<1>. QED
  BY <1>1, <1>2, <1>4

\* A directory whose end record points elsewhere has no place to point to.
LEMMA WideRefused ==
  ASSUME NEW zip, NEW base, NEW body, NEW cd, LaidOver(zip, base, body, cd),
         Len(cd) # 0, IsWide(LaidEnd(base, body, cd))
  PROVE  ~Parse(zip).ok
<1>1. PICK n \in Nat : n = Len(zip) - 1
  BY LaidEocd
<1>2. FindEocd(zip) = n /\ At(zip, n) = LaidEnd(base, body, cd)
  BY <1>1, LaidEocd
<1>3. /\ base \in Nat /\ Len(body) \in Nat /\ Len(cd) \in Nat \ {0}
      /\ Len(zip) = base + Len(body) + Len(cd) + 1
  BY DEF LaidOver
<1>4. n > 0 /\ n - 1 < Len(zip) /\ (n - 1) + 1 = base + Len(body) + Len(cd)
  BY <1>1, <1>3
<1>5. At(zip, n - 1).cell = "cdfh"
  <2>1. At(zip, n - 1) = zip[(n - 1) + 1]
    BY <1>4 DEF At
  <2>2. Len(cd) \in 1..Len(cd)
    BY <1>3
  <2>3. zip[base + Len(body) + Len(cd)].cell = "cdfh"
    BY <2>2 DEF LaidOver
  <2>. QED
    BY <1>4, <2>1, <2>3
<1>6. EndRecord(zip, n) = Pad
  BY <1>2, <1>4, <1>5 DEF EndRecord, Eocd64At
<1>7. Pad.cell = "pad"
  BY DEF Pad
<1>8. n # NoEocd
  BY DEF NoEocd
<1>9. Directory(zip, n) = Refused
  BY <1>6, <1>7, <1>8 DEF Directory, DirectoryOf
<1>10. Refused.ok = FALSE
  BY DEF Refused
<1>. QED
  BY <1>2, <1>9, <1>10 DEF Parse, ParseAt

\* Otherwise the entries are those of the records, where all of them can be read.
LEMMA LaidParses ==
  ASSUME NEW zip, NEW base, NEW body, NEW cd, LaidOver(zip, base, body, cd),
         ~IsWide(LaidEnd(base, body, cd))
  PROVE  /\ Parse(zip).ok <=> \A i \in 1..Len(cd) : Readable(cd[i])
         /\ Parse(zip).ok => /\ Parse(zip).entries = LaidEntries(cd)
                             /\ Parse(zip).dir = LaidDir(base, body, cd)
<1>1. PICK n \in Nat : n = Len(zip) - 1
  BY LaidEocd
<1>2. FindEocd(zip) = n /\ At(zip, n) = LaidEnd(base, body, cd)
  BY <1>1, LaidEocd
<1>3. PICK b \in Nat : b = base + Len(body)
  <2>1. base + Len(body) \in Nat
    BY DEF LaidOver
  <2>. QED
    BY <2>1
<1>4. PICK m \in Nat : m = Len(cd)
  BY DEF LaidOver
<1>5. Len(zip) = b + m + 1
  BY <1>3, <1>4 DEF LaidOver
<1>6. PICK e : e = LaidEnd(base, body, cd)
  OBVIOUS
<1>7. e.cell = "eocd" /\ e.disk = 0 /\ e.cdOffset = b /\ e.cdSize = m /\ e.count = m
  BY <1>3, <1>4, <1>6 DEF LaidEnd, Eocd
<1>8. PICK d : d = LaidDir(base, body, cd)
  OBVIOUS
<1>9. d.ok /\ d.offset = b /\ d.size = m /\ d.count = m
  BY <1>3, <1>4, <1>8 DEF LaidDir
<1>10. Directory(zip, n) = d
  <2>1. EndRecord(zip, n) = e
    BY <1>2, <1>6 DEF EndRecord
  <2>2. ~(e.disk # 0 \/ e.cdOffset + e.cdSize > Len(zip))
    BY <1>5, <1>7
  <2>3. DirectoryOf(e, Len(zip)) = d
    BY <1>3, <1>4, <1>7, <1>8, <2>2 DEF DirectoryOf, LaidDir
  <2>4. n # NoEocd
    BY DEF NoEocd
  <2>. QED
    BY <2>1, <2>3, <2>4 DEF Directory
<1>11. PICK recs : recs = [i \in 1..m |-> At(zip, b + i - 1)]
  OBVIOUS
<1>12. ASSUME NEW i \in 1..m PROVE recs[i] = cd[i]
  <2>1. b + i - 1 < Len(zip) /\ (b + i - 1) + 1 = b + i
    BY <1>5
  <2>2. At(zip, b + i - 1) = zip[b + i]
    BY <2>1 DEF At
  <2>3. zip[b + i] = cd[i]
    BY <1>3, <1>4 DEF LaidOver
  <2>. QED
    BY <1>11, <2>2, <2>3
<1>13. PICK ar : ar = [ok |-> TRUE, dir |-> d, entries |-> LaidEntries(cd)]
  OBVIOUS
<1>14. [i \in 1..m |-> EntryOf(recs[i], Widened(recs[i]))] = LaidEntries(cd)
  BY <1>4, <1>12 DEF LaidEntries
<1>15. Parse(zip) = IF \E i \in 1..m : ~Readable(cd[i]) THEN Refused ELSE ar
  <2>1. Parse(zip) = ParseCd(d, recs)
    BY <1>2, <1>9, <1>10, <1>11 DEF Parse, ParseAt
  <2>2. ~(d.count > d.size)
    BY <1>9
  <2>3. (\E i \in 1..d.count : ~Readable(recs[i])) <=> \E i \in 1..m : ~Readable(cd[i])
    BY <1>9, <1>12
  <2>. QED
    BY <1>9, <1>13, <1>14, <2>1, <2>2, <2>3 DEF ParseCd
<1>16. Refused.ok = FALSE
  BY DEF Refused
<1>17. ar.ok /\ ar.entries = LaidEntries(cd) /\ ar.dir = LaidDir(base, body, cd)
  BY <1>8, <1>13
<1>. QED
  BY <1>4, <1>15, <1>16, <1>17

\* What a layout leaves as cells.
LaidCells(z, base, body, cd) ==
  /\ IsSeq(z) /\ Len(z) = Len(body) + Len(cd) + 1
  /\ \A k \in 1..Len(body) : z[k] = body[k]
  /\ \A k \in 1..Len(cd) : z[Len(body) + k] = cd[k]
  /\ z[Len(z)] = LaidEnd(base, body, cd)

\* A layout that succeeds leaves them, and no offset in them exceeds 32 bits.
LEMMA FinishedLays ==
  ASSUME NEW base \in Nat, NEW body, IsSeq(body), NEW cd, IsSeq(cd), Finished(base, body, cd).ok
  PROVE  LaidCells(Finished(base, body, cd).cells, base, body, cd) /\ base + Len(body) <= U32Max
<1>1. PICK end : end = <<LaidEnd(base, body, cd)>>
  OBVIOUS
<1>2. Len(end) = 1 /\ end[1] = LaidEnd(base, body, cd) /\ IsSeq(end)
  <2>1. Len(end) = 1 /\ end[1] = LaidEnd(base, body, cd) /\ end = [k \in 1..1 |-> end[k]]
    BY <1>1
  <2>. QED
    BY <2>1 DEF IsSeq
<1>3. PICK done : done = [ok |-> TRUE, cells |-> (body \o cd) \o end]
  OBVIOUS
<1>4. Refused.ok = FALSE
  BY DEF Refused
<1>5. Finished(base, body, cd) = done /\ ~(base + Len(body) > U32Max)
  BY <1>1, <1>3, <1>4 DEF Finished, LaidEnd
<1>6. PICK x : x = body \o cd
  OBVIOUS
<1>7. PICK z : z = x \o end
  OBVIOUS
<1>8. JoinOf(body, cd, x)
  BY <1>6, JoinIs
<1>9. JoinOf(x, end, z)
  <2>1. IsSeq(x)
    BY <1>8 DEF JoinOf
  <2>. QED
    BY <1>2, <1>7, <2>1, JoinIs
<1>10. PICK b \in Nat : b = Len(body)
  BY DEF IsSeq
<1>11. PICK m \in Nat : m = Len(cd)
  BY DEF IsSeq
<1>12. Len(x) = b + m /\ Len(z) = b + m + 1 /\ IsSeq(z)
  BY <1>2, <1>8, <1>9, <1>10, <1>11 DEF JoinOf
<1>13. ASSUME NEW k \in 1..b PROVE z[k] = body[k]
  <2>1. k \in 1..Len(x)
    BY <1>12
  <2>. QED
    BY <1>8, <1>9, <1>10, <2>1 DEF JoinOf
<1>14. ASSUME NEW k \in 1..m PROVE z[b + k] = cd[k]
  <2>1. b + k \in 1..Len(x)
    BY <1>12
  <2>. QED
    BY <1>8, <1>9, <1>10, <1>11, <2>1 DEF JoinOf
<1>15. z[b + m + 1] = LaidEnd(base, body, cd)
  <2>1. 1 \in 1..Len(end)
    BY <1>2
  <2>. QED
    BY <1>2, <1>9, <1>12, <2>1 DEF JoinOf
<1>16. LaidCells(z, base, body, cd)
  BY <1>10, <1>11, <1>12, <1>13, <1>14, <1>15 DEF LaidCells
<1>17. base + Len(body) <= U32Max
  <2>1. U32Max \in Nat
    BY ZipAssumption
  <2>. QED
    BY <1>5, <1>10, <2>1
<1>. QED
  BY <1>3, <1>5, <1>6, <1>7, <1>16, <1>17

\* The archive of a FULL commit.
LEMMA CellsLaid ==
  ASSUME NEW z, NEW body, NEW cd, LaidCells(z, 0, body, cd), IsSeq(body), IsSeq(cd),
         \A k \in 1..Len(cd) : cd[k].cell = "cdfh"
  PROVE  LaidOver(z, 0, body, cd)
<1>1. PICK b \in Nat : b = Len(body)
  BY DEF IsSeq
<1>2. PICK m \in Nat : m = Len(cd)
  BY DEF IsSeq
<1>3. 0 + b + m + 1 = b + m + 1 /\ 0 + b = b /\ 0 \in Nat
  BY <1>1, <1>2
<1>4. \A k \in 1..b : 0 + k = k
  OBVIOUS
<1>5. IsSeq(z) /\ Len(z) = 0 + b + m + 1
  BY <1>1, <1>2, <1>3 DEF LaidCells
<1>6. \A k \in 1..b : z[0 + k] = body[k]
  BY <1>1, <1>4 DEF LaidCells
<1>7. \A k \in 1..m : z[0 + b + k] = cd[k] /\ cd[k].cell = "cdfh"
  BY <1>1, <1>2, <1>3 DEF LaidCells
<1>8. z[Len(z)] = Eocd(m, m, 0 + b, 0)
  BY <1>1, <1>2 DEF LaidCells, LaidEnd
<1>. QED
  BY <1>1, <1>2, <1>3, <1>5, <1>6, <1>7, <1>8 DEF LaidOver

\* The record of a piece, and where its first cell lies.
PlacedIn(pieces, base, i, off) ==
  /\ PlacedRecords(base, pieces)[i] = RecordAt(pieces[i], base + off) /\ off \in Nat
  /\ Len(pieces[i].cells) > 0 =>
       /\ off + 1 \in 1..Len(Body(pieces, Len(pieces)))
       /\ Body(pieces, Len(pieces))[off + 1] = pieces[i].cells[1]

\* Every piece has its record and its place.
LEMMA PlacedAt ==
  ASSUME NEW pieces, PiecesAre(pieces), Kept(pieces), NEW base \in Nat, NEW i \in 1..Len(pieces)
  PROVE  \E off : PlacedIn(pieces, base, i, off)
<1>0. PICK off : off = Len(Body(pieces, i - 1))
  OBVIOUS
<1>1. PICK m \in Nat : m = Len(pieces)
  BY DEF PiecesAre, IsSeq
<1>2. PICK S : S = [k \in 1..m |-> pieces[k].cells]
  OBVIOUS
<1>3. ASSUME NEW k \in 1..m PROVE S[k] = pieces[k].cells /\ IsSeq(S[k])
  <2>1. PieceIs(pieces[k]) /\ pieces[k] # Refused
    BY <1>1 DEF PiecesAre, Kept
  <2>. QED
    BY <1>2, <2>1 DEF PieceIs, Blocks
<1>4. ASSUME NEW n \in 0..m PROVE Body(pieces, n) = FlattenSeq(Pre(S, n))
  <2>1. \A k \in 1..n : k \in 1..m
    OBVIOUS
  <2>2. Pre(S, n) = [k \in 1..n |-> pieces[k].cells]
    BY <1>3, <2>1 DEF Pre
  <2>. QED
    BY <2>2 DEF Body
<1>5. i \in 1..m /\ i - 1 \in 0..m /\ m \in 0..m
  BY <1>1
<1>6. PlacedRecords(base, pieces)[i] = RecordAt(pieces[i], base + off)
  BY <1>0, <1>1, <1>5 DEF PlacedRecords
<1>7. off \in Nat
  <2>1. Blocks(Body(pieces, i - 1))
    BY <1>1, <1>5, BodyIs
  <2>. QED
    BY <1>0, <2>1 DEF Blocks, IsSeq
<1>8. ASSUME Len(pieces[i].cells) > 0
      PROVE  off + 1 \in 1..Len(Body(pieces, m)) /\ Body(pieces, m)[off + 1] = pieces[i].cells[1]
  <2>1. Len(S[i]) \in Nat
    BY <1>3, <1>5 DEF IsSeq
  <2>2. PICK l \in 1..Len(S[i]) : l = 1
    BY <1>3, <1>5, <1>8, <2>1
  <2>3. \A k \in 1..m : IsSeq(S[k])
    BY <1>3
  <2>4. /\ Len(FlattenSeq(Pre(S, i - 1))) + l \in 1..Len(FlattenSeq(Pre(S, m)))
        /\ FlattenSeq(Pre(S, m))[Len(FlattenSeq(Pre(S, i - 1))) + l] = S[i][l]
    BY <1>5, <2>3, FlattenPlace
  <2>. QED
    BY <1>0, <1>3, <1>4, <1>5, <2>2, <2>4
<1>. QED
  BY <1>1, <1>6, <1>7, <1>8 DEF PlacedIn

-----------------------------------------------------------------------------
(* Where the pieces of a commit lie. *)

\* Numbers that do not fall.
Grows(f, m) ==
  f[0] = 0 /\ (\A k \in 0..m : f[k] \in Nat) /\ \A k \in 1..m : f[k - 1] <= f[k]

\* They are in order.
LEMMA GrowsOrdered ==
  ASSUME NEW m \in Nat, NEW f, Grows(f, m), NEW i \in 0..m, NEW j \in i..m
  PROVE  f[i] <= f[j]
<1>. DEFINE T == {k \in 0..(m - i) : f[i] <= f[i + k]}
<1>1. 0 \in T
  <2>1. f[i] \in Nat /\ i + 0 = i /\ 0 \in 0..(m - i)
    BY DEF Grows
  <2>. QED
    BY <2>1
<1>2. ASSUME NEW k \in 1..(m - i), k - 1 \in T PROVE k \in T
  <2>1. PICK p \in 1..m : p = i + k /\ p - 1 = i + (k - 1)
    <3>1. i + k \in 1..m /\ (i + k) - 1 = i + (k - 1)
      OBVIOUS
    <3>. QED
      BY <3>1
  <2>2. p - 1 \in 0..m /\ p \in 0..m /\ k \in 0..(m - i)
    OBVIOUS
  <2>3. f[p - 1] \in Nat /\ f[p] \in Nat /\ f[i] \in Nat /\ f[p - 1] <= f[p]
    BY <2>2 DEF Grows
  <2>4. f[i] <= f[p - 1]
    BY <1>2, <2>1
  <2>. QED
    BY <2>1, <2>2, <2>3, <2>4
<1>3. m - i \in Nat
  OBVIOUS
<1>4. \A k \in 0..(m - i) : k \in T
  <2>. HIDE DEF T
  <2>. QED
    BY <1>1, <1>2, <1>3, CountUp
<1>5. j - i \in 0..(m - i) /\ i + (j - i) = j
  OBVIOUS
<1>. QED
  BY <1>4, <1>5

\* Every number up to the last lies between two of them.
LEMMA GrowsCover ==
  ASSUME NEW m \in Nat, NEW f, Grows(f, m), NEW k \in 1..f[m]
  PROVE  \E j \in 1..m : f[j - 1] < k /\ k <= f[j]
<1>. DEFINE Inside(j) == f[j - 1] < k /\ k <= f[j]
            T == {j \in 0..m : f[j] < k \/ \E i \in 1..m : Inside(i)}
<1>1. 0 \in T
  <2>1. f[m] \in Nat
    BY DEF Grows
  <2>2. f[0] < k /\ 0 \in 0..m
    BY <2>1 DEF Grows
  <2>. QED
    BY <2>2
<1>2. ASSUME NEW j \in 1..m, j - 1 \in T PROVE j \in T
  <2>1. j \in 0..m /\ j - 1 \in 0..m /\ m \in 0..m
    OBVIOUS
  <2>2. f[j] \in Nat /\ f[j - 1] \in Nat /\ f[m] \in Nat
    BY <2>1 DEF Grows
  <2>3. CASE \E i \in 1..m : Inside(i)
    BY <2>1, <2>3
  <2>4. CASE ~\E i \in 1..m : Inside(i)
    <3>1. f[j - 1] < k
      BY <1>2, <2>4
    <3>2. ~Inside(j)
      BY <2>4
    <3>3. f[j] < k
      BY <2>2, <3>1, <3>2
    <3>. QED
      BY <2>1, <3>3
  <2>. QED
    BY <2>3, <2>4
<1>3. m \in T
  <2>. HIDE DEF T
  <2>1. \A j \in 0..m : j \in T
    BY <1>1, <1>2, CountUp
  <2>. QED
    BY <2>1
<1>4. f[m] \in Nat
  BY DEF Grows
<1>5. ~(f[m] < k)
  BY <1>4
<1>. QED
  BY <1>3, <1>5

\* Where what is flattened ends behind each of its sequences.
LEMMA FlattenGrows ==
  ASSUME NEW s, NEW m \in Nat, \A i \in 1..m : IsSeq(s[i]),
         NEW f, f = [k \in 0..m |-> Len(FlattenSeq(Pre(s, k)))]
  PROVE  Grows(f, m) /\ \A k \in 1..m : f[k] = f[k - 1] + Len(s[k])
<1>1. ASSUME NEW k \in 0..m PROVE IsSeq(FlattenSeq(Pre(s, k)))
  BY FlattenOf DEF FlatOf
<1>2. ASSUME NEW k \in 0..m PROVE f[k] \in Nat
  BY <1>1 DEF IsSeq
<1>3. ASSUME NEW k \in 1..m PROVE f[k] = f[k - 1] + Len(s[k]) /\ f[k - 1] <= f[k]
  <2>1. PICK q \in Nat : q = k - 1 /\ q + 1 = k /\ q \in 0..m /\ k \in 0..m
    <3>1. k - 1 \in Nat /\ k - 1 + 1 = k /\ k - 1 \in 0..m /\ k \in 0..m
      OBVIOUS
    <3>. QED
      BY <3>1
  <2>2. PICK x : x = FlattenSeq(Pre(s, q))
    OBVIOUS
  <2>3. FlattenSeq(Pre(s, k)) = x \o s[k]
    BY <2>1, <2>2, FlattenMore
  <2>4. IsSeq(x) /\ IsSeq(s[k])
    BY <1>1, <2>1, <2>2
  <2>5. JoinOf(x, s[k], x \o s[k])
    BY <2>4, JoinIs
  <2>6. Len(x \o s[k]) = Len(x) + Len(s[k])
    BY <2>5 DEF JoinOf
  <2>7. f[k] = Len(x) + Len(s[k]) /\ f[k - 1] = Len(x)
    BY <2>1, <2>2, <2>3, <2>6
  <2>8. PICK a \in Nat, b \in Nat : a = Len(x) /\ b = Len(s[k])
    BY <2>4 DEF IsSeq
  <2>9. f[k] = a + b /\ f[k - 1] = a
    BY <2>7, <2>8
  <2>10. a <= a + b
    OBVIOUS
  <2>11. f[k - 1] <= f[k]
    BY <2>9, <2>10
  <2>. QED
    BY <2>8, <2>9, <2>11
<1>4. f[0] = 0
  <2>1. Len(<<>>) = 0
    OBVIOUS
  <2>2. 0 \in 0..m
    OBVIOUS
  <2>. QED
    BY <2>1, <2>2, FlattenNone
<1>. QED
  BY <1>2, <1>3, <1>4 DEF Grows

\* A sequence whose elements come one each from the sequences of another one.
Drawn(x, s, m) ==
  IsSeq(x) /\ \A k \in 1..Len(x) : \E n \in 1..m : s[n] = <<x[k]>> /\ Len(FlattenSeq(Pre(s, n - 1))) = k - 1

\* What is flattened from sequences of one element at most.
LEMMA FlattenDrawn ==
  ASSUME NEW s, NEW m \in Nat, \A i \in 1..m : s[i] = <<>> \/ \E p : s[i] = <<p>>,
         NEW x, x = FlattenSeq(Pre(s, m))
  PROVE  Drawn(x, s, m)
<1>1. ASSUME NEW i \in 1..m PROVE IsSeq(s[i]) /\ Len(s[i]) \in {0, 1}
  <2>1. CASE s[i] = <<>>
    BY <2>1 DEF IsSeq
  <2>2. CASE \E p : s[i] = <<p>>
    BY <2>2 DEF IsSeq
  <2>. QED
    BY <2>1, <2>2
<1>2. PICK f : f = [k \in 0..m |-> Len(FlattenSeq(Pre(s, k)))]
  OBVIOUS
<1>3. Grows(f, m) /\ \A k \in 1..m : f[k] = f[k - 1] + Len(s[k])
  BY ZenonT(40), <1>1, <1>2, FlattenGrows
<1>4. m \in 0..m
  OBVIOUS
<1>5. IsSeq(x)
  BY <1>1, <1>4, FlattenOf DEF FlatOf
<1>6. ASSUME NEW k \in 1..Len(x)
      PROVE  \E n \in 1..m : s[n] = <<x[k]>> /\ Len(FlattenSeq(Pre(s, n - 1))) = k - 1
  <2>1. k \in 1..f[m]
    BY <1>2, <1>4
  <2>2. PICK n \in 1..m : f[n - 1] < k /\ k <= f[n]
    BY <1>3, <2>1, GrowsCover
  <2>3. n - 1 \in 0..m /\ n \in 0..m
    OBVIOUS
  <2>4. PICK a \in Nat : a = f[n - 1]
    BY <1>3, <2>3 DEF Grows
  <2>5. f[n] = a + Len(s[n])
    BY <1>3, <2>4
  <2>6. Len(s[n]) = 1 /\ a = k - 1
    <3>1. PICK b \in Nat : b = Len(s[n]) /\ b \in {0, 1}
      BY <1>1
    <3>2. a < k /\ k <= a + b /\ k \in Nat
      BY <2>2, <2>4, <2>5, <3>1
    <3>4. PICK c \in Nat : c = k
      BY <3>2
    <3>5. a < c /\ c <= a + b /\ (b = 0 \/ b = 1)
      BY <3>1, <3>2, <3>4
    <3>6. b = 1 /\ a = c - 1
      BY <3>5
    <3>3. b = 1 /\ a = k - 1
      BY <3>4, <3>6
    <3>. QED
      BY <3>1, <3>3
  <2>7. 1 \in 1..Len(s[n])
    BY <2>6
  <2>8. Len(FlattenSeq(Pre(s, n - 1))) = a
    BY <1>2, <2>3, <2>4
  <2>9. x[Len(FlattenSeq(Pre(s, n - 1))) + 1] = s[n][1]
    BY <1>1, <2>7, FlattenPlace
  <2>10. x[k] = s[n][1]
    BY <2>6, <2>8, <2>9
  <2>11. PICK p : s[n] = <<p>>
    <3>1. s[n] # <<>>
      BY <2>6
    <3>. QED
      BY <3>1
  <2>12. s[n] = <<x[k]>>
    BY <2>10, <2>11
  <2>. QED
    BY <2>6, <2>8, <2>12
<1>. QED
  BY <1>5, <1>6 DEF Drawn
\* Where the cells of each piece end, counted from the first.
Ends(pieces) == [k \in 0..Len(pieces) |-> Len(Body(pieces, k))]

\* Each piece has its cells behind those before it, and a record that says so.
EndsAre(pieces, base) ==
  /\ Grows(Ends(pieces), Len(pieces))
  /\ \A k \in 1..Len(pieces) :
       /\ Ends(pieces)[k] = Ends(pieces)[k - 1] + Len(pieces[k].cells)
       /\ PlacedRecords(base, pieces)[k] = RecordAt(pieces[k], base + Ends(pieces)[k - 1])
       /\ Len(pieces[k].cells) > 0 =>
            /\ Ends(pieces)[k - 1] + 1 \in 1..Len(Body(pieces, Len(pieces)))
            /\ Body(pieces, Len(pieces))[Ends(pieces)[k - 1] + 1] = pieces[k].cells[1]

\* All of this holds of the pieces of a commit.
LEMMA BodyGrows ==
  ASSUME NEW pieces, PiecesAre(pieces), Kept(pieces), NEW base PROVE EndsAre(pieces, base)
<1>1. PICK m \in Nat : m = Len(pieces)
  BY DEF PiecesAre, IsSeq
<1>2. PICK S : S = [k \in 1..m |-> pieces[k].cells]
  OBVIOUS
<1>3. ASSUME NEW k \in 1..m PROVE S[k] = pieces[k].cells /\ IsSeq(S[k])
  <2>1. PieceIs(pieces[k]) /\ pieces[k] # Refused
    BY <1>1 DEF PiecesAre, Kept
  <2>. QED
    BY <1>2, <2>1 DEF PieceIs, Blocks
<1>4. ASSUME NEW n \in 0..m PROVE Body(pieces, n) = FlattenSeq(Pre(S, n))
  <2>1. \A k \in 1..n : k \in 1..m
    OBVIOUS
  <2>2. Pre(S, n) = [k \in 1..n |-> pieces[k].cells]
    BY <1>3, <2>1 DEF Pre
  <2>. QED
    BY <2>2 DEF Body
<1>5. PICK f : f = Ends(pieces)
  OBVIOUS
<1>6. f = [k \in 0..m |-> Len(FlattenSeq(Pre(S, k)))]
  BY <1>1, <1>4, <1>5 DEF Ends
<1>7. Grows(f, m) /\ \A k \in 1..m : f[k] = f[k - 1] + Len(S[k])
  BY ZenonT(40), <1>3, <1>6, FlattenGrows
<1>8. ASSUME NEW k \in 1..m
      PROVE  /\ f[k] = f[k - 1] + Len(pieces[k].cells)
             /\ PlacedRecords(base, pieces)[k] = RecordAt(pieces[k], base + f[k - 1])
             /\ Len(pieces[k].cells) > 0 =>
                  /\ f[k - 1] + 1 \in 1..Len(Body(pieces, m))
                  /\ Body(pieces, m)[f[k - 1] + 1] = pieces[k].cells[1]
  <2>1. k - 1 \in 0..m /\ m \in 0..m
    OBVIOUS
  <2>2. f[k - 1] = Len(Body(pieces, k - 1)) /\ f[k - 1] = Len(FlattenSeq(Pre(S, k - 1)))
    BY <1>4, <1>6, <2>1
  <2>3. PlacedRecords(base, pieces)[k] = RecordAt(pieces[k], base + f[k - 1])
    BY <1>1, <2>2 DEF PlacedRecords
  <2>4. ASSUME Len(pieces[k].cells) > 0
        PROVE  /\ f[k - 1] + 1 \in 1..Len(Body(pieces, m))
               /\ Body(pieces, m)[f[k - 1] + 1] = pieces[k].cells[1]
    <3>1. Len(S[k]) \in Nat
      BY <1>3 DEF IsSeq
    <3>2. PICK l \in 1..Len(S[k]) : l = 1
      BY <1>3, <2>4, <3>1
    <3>3. \A i \in 1..m : IsSeq(S[i])
      BY <1>3
    <3>4. /\ Len(FlattenSeq(Pre(S, k - 1))) + l \in 1..Len(FlattenSeq(Pre(S, m)))
          /\ FlattenSeq(Pre(S, m))[Len(FlattenSeq(Pre(S, k - 1))) + l] = S[k][l]
      BY <3>3, FlattenPlace
    <3>. QED
      BY <1>3, <1>4, <2>1, <2>2, <3>2, <3>4
  <2>5. f[k] = f[k - 1] + Len(pieces[k].cells)
    BY <1>3, <1>7
  <2>. QED
    BY <2>3, <2>4, <2>5
<1>. QED
  BY <1>1, <1>5, <1>7, <1>8 DEF EndsAre
=============================================================================

--------------------------- MODULE SequenceLemmas ---------------------------
(***************************************************************************)
(* What the proofs need of numbers, of sequences and of recursive          *)
(* functions: induction as a fact about sets, the least number of a set,   *)
(* what concatenating and flattening do to lengths and elements, and that  *)
(* a function defined by recursion up to a bound exists.                   *)
(***************************************************************************)
EXTENDS Integers, Sequences, FiniteSetsExt, FiniteSetTheorems, SequenceTheorems,
        SequencesExt, TLAPS

\* A set with 0 in it, and with every n + 1 whose n is in it, holds every natural.
LEMMA SetInduction ==
    ASSUME NEW T, 0 \in T, \A n \in Nat : n \in T => n + 1 \in T
    PROVE  Nat \subseteq T
<1> SUFFICES ASSUME NEW n \in Nat, n \notin T PROVE FALSE
  OBVIOUS
<1> DEFINE U == T \cap (0..n)
           V == U \ {0}
           next == [x \in U |-> x + 1]
<1>1. IsFiniteSet(U)
  <2>1. IsFiniteSet(0..n)
    BY FS_Interval
  <2> QED
    BY <2>1, FS_Subset
<1>2. IsFiniteSet(V) /\ Cardinality(V) = Cardinality(U) - 1 /\ Cardinality(U) \in Nat
  <2> 0 \in U
    OBVIOUS
  <2> HIDE DEF U
  <2> QED BY <1>1, FS_RemoveElement, FS_CardinalityType
<1>3. next \in Injection(U, V)
  <2>1. next \in [U -> V]
    OBVIOUS
  <2>2. \A a, b \in U : next[a] = next[b] => a = b
    OBVIOUS
  <2> QED
    BY <2>1, <2>2 DEF Injection, IsInjective
<1>4. Cardinality(U) <= Cardinality(V)
  <2> HIDE DEF U, V, next
  <2> QED BY <1>2, <1>3, FS_Injection
<1> QED
  BY <1>2, <1>4

\* A set of naturals has a least number, which is its Min.
LEMMA LeastNumber ==
    ASSUME NEW S \in SUBSET Nat, S # {}
    PROVE  Min(S) \in S /\ \A y \in S : Min(S) <= y
<1>1. \E x \in S : \A y \in S : x <= y
  <2> SUFFICES ASSUME \A x \in S : \E y \in S : ~(x <= y) PROVE FALSE
    OBVIOUS
  <2> DEFINE T == {n \in Nat : \A y \in S : n <= y}
  <2>1. 0 \in T
    OBVIOUS
  <2>2. ASSUME NEW n \in Nat, n \in T PROVE n + 1 \in T
    <3>1. n \notin S
      BY <2>2
    <3> QED
      BY <2>2, <3>1
  <2>3. Nat \subseteq T
    <3> HIDE DEF T
    <3> QED
      BY <2>1, <2>2, SetInduction
  <2>4. PICK y \in S : TRUE
    OBVIOUS
  <2>5. y + 1 \in T
    BY <2>3
  <2> QED
    BY <2>5
<1> QED
  BY <1>1 DEF Min

\* Min of two numbers is one of them.
LEMMA LesserOfTwo == \A a, b \in Nat : Min({a, b}) = IF a <= b THEN a ELSE b
<1> TAKE a, b \in Nat
<1>1. Min({a, b}) \in {a, b} /\ \A y \in {a, b} : Min({a, b}) <= y
  BY LeastNumber
<1> QED
  BY <1>1

\* A number as a quotient and a remainder, in both directions.
LEMMA Division ==
    ASSUME NEW x \in Nat, NEW m \in Nat \ {0}
    PROVE  /\ x = m * (x \div m) + (x % m)
           /\ x % m \in 0..(m - 1)
           /\ x \div m \in Nat
OBVIOUS

\* The quotient and the remainder of a number written as m * q + r.
LEMMA DivisionIsUnique ==
    ASSUME NEW m \in Nat \ {0}, NEW q \in Nat, NEW r \in 0..(m - 1)
    PROVE  (m * q + r) \div m = q /\ (m * q + r) % m = r
OBVIOUS

\* Different multiples of m are at least m apart.
LEMMA MultiplesApart ==
    ASSUME NEW m \in Nat \ {0}, NEW a \in Int, NEW b \in Int, a < b
    PROVE  m * a + m <= m * b
OBVIOUS

\* FlattenSeq is a recursion: sum i is sum i - 1 and piece i.
Sums(f, s, n) == f = [i \in 1..n |-> IF i = 1 THEN s[i] ELSE f[i - 1] \o s[i]]

\* Sums, entry by entry.
LEMMA SumsAt ==
    ASSUME NEW s, NEW n, NEW f
    PROVE  Sums(f, s, n) <=>
              /\ f = [i \in 1..n |-> f[i]]
              /\ \A i \in 1..n : f[i] = IF i = 1 THEN s[i] ELSE f[i - 1] \o s[i]
<1>1. ASSUME Sums(f, s, n)
      PROVE  /\ f = [i \in 1..n |-> f[i]]
             /\ \A i \in 1..n : f[i] = IF i = 1 THEN s[i] ELSE f[i - 1] \o s[i]
  BY <1>1, Zenon DEF Sums
<1>2. ASSUME f = [i \in 1..n |-> f[i]],
             \A i \in 1..n : f[i] = IF i = 1 THEN s[i] ELSE f[i - 1] \o s[i]
      PROVE  Sums(f, s, n)
  BY <1>2 DEF Sums
<1> QED BY <1>1, <1>2

\* The sums of n pieces extend to those of n + 1.
LEMMA SumsExtend ==
    ASSUME NEW s, NEW n \in Nat, NEW f, Sums(f, s, n)
    PROVE  \E g : Sums(g, s, n + 1)
<1> DEFINE e == IF n = 0 THEN s[1] ELSE f[n] \o s[n + 1]
           g == [i \in 1..(n+1) |-> IF i = n + 1 THEN e ELSE f[i]]
<1>1. \A i \in 1..n : f[i] = IF i = 1 THEN s[i] ELSE f[i - 1] \o s[i]
  BY SumsAt
<1>2. ASSUME NEW i \in 1..(n+1) PROVE g[i] = IF i = 1 THEN s[i] ELSE g[i - 1] \o s[i]
  <2>1. CASE i = n + 1
    BY <2>1
  <2>2. CASE i # n + 1
    <3>1. i \in 1..n /\ (i # 1 => i - 1 \in 1..n)
      BY <2>2
    <3>2. g[i] = f[i] /\ (i # 1 => g[i - 1] = f[i - 1])
      BY <3>1, <2>2
    <3> QED BY <1>1, <3>1, <3>2
  <2> QED BY <2>1, <2>2
<1>3. g = [i \in 1..(n+1) |-> g[i]]
  OBVIOUS
<1> HIDE DEF g
<1> QED BY <1>2, <1>3, SumsAt

\* The sums of any number of pieces exist.
LEMMA SumsExist == ASSUME NEW s PROVE \A n \in Nat : \E f : Sums(f, s, n)
<1> DEFINE T == {n \in Nat : \E f : Sums(f, s, n)}
<1>1. 0 \in T
  <2>1. Sums([i \in 1..0 |-> s], s, 0)
    BY DEF Sums
  <2> QED BY <2>1
<1>2. ASSUME NEW n \in Nat, n \in T PROVE n + 1 \in T
  BY <1>2, SumsExtend
<1>3. Nat \subseteq T
  <2> HIDE DEF T
  <2> QED BY <1>1, <1>2, SetInduction
<1> QED BY <1>3

\* There is one sequence of sums only.
LEMMA SumsUnique ==
   ASSUME NEW s, NEW n \in Nat, NEW f, NEW g, Sums(f, s, n), Sums(g, s, n)
   PROVE  f = g
<1> DEFINE T == {k \in Nat : k \in 1..n => f[k] = g[k]}
<1>1. 0 \in T
  OBVIOUS
<1>2. ASSUME NEW k \in Nat, k \in T PROVE k + 1 \in T
  <2>1. /\ \A i \in 1..n : f[i] = IF i = 1 THEN s[i] ELSE f[i - 1] \o s[i]
        /\ \A i \in 1..n : g[i] = IF i = 1 THEN s[i] ELSE g[i - 1] \o s[i]
    BY SumsAt
  <2>2. k + 1 - 1 = k
    OBVIOUS
  <2> QED BY <1>2, <2>1, <2>2
<1>3. Nat \subseteq T
  <2> HIDE DEF T
  <2> QED BY <1>1, <1>2, SetInduction
<1>4. \A k \in 1..n : f[k] = g[k]
  BY <1>3
<1> QED
  <2>1. f = [i \in 1..n |-> f[i]] /\ g = [i \in 1..n |-> g[i]]
    BY SumsAt
  <2> QED BY <1>4, <2>1

\* FlattenSeq of some pieces is the last of their sums.
LEMMA FlattenIsSum ==
  ASSUME NEW s, Len(s) \in Nat \ {0}
  PROVE \E f : Sums(f, s, Len(s)) /\ FlattenSeq(s) = f[Len(s)]
<1>1. PICK f : Sums(f, s, Len(s))
  BY SumsExist
<1> DEFINE g == CHOOSE x : Sums(x, s, Len(s))
<1>2. Sums(g, s, Len(s))
  BY <1>1
<1>3. FlattenSeq(s) = g[Len(s)]
  BY DEF FlattenSeq, Sums
<1> QED BY <1>2, <1>3

\* One more piece is appended to what the earlier ones flatten to.
LEMMA FlattenAppend ==
    ASSUME NEW s, NEW t, NEW n \in Nat \ {0}, Len(s) = n, Len(t) = n + 1,
           \A i \in 1..n : t[i] = s[i]
    PROVE  FlattenSeq(t) = FlattenSeq(s) \o t[n + 1]
<1>1. PICK f : Sums(f, s, n) /\ FlattenSeq(s) = f[n]
  BY FlattenIsSum
<1>2. PICK g : Sums(g, t, n + 1) /\ FlattenSeq(t) = g[n + 1]
  <2> n + 1 \in Nat \ {0}
    OBVIOUS
  <2> QED BY FlattenIsSum
<1>3. \A i \in 1..(n+1) : g[i] = IF i = 1 THEN t[i] ELSE g[i - 1] \o t[i]
  BY <1>2, SumsAt
<1> DEFINE h == [i \in 1..n |-> g[i]]
<1>4. Sums(h, s, n)
  <2>1. h = [i \in 1..n |-> h[i]]
    OBVIOUS
  <2>2. ASSUME NEW i \in 1..n PROVE h[i] = IF i = 1 THEN s[i] ELSE h[i - 1] \o s[i]
    <3>1. g[i] = IF i = 1 THEN t[i] ELSE g[i - 1] \o t[i]
      BY <1>3
    <3>2. t[i] = s[i] /\ h[i] = g[i] /\ (i # 1 => h[i - 1] = g[i - 1])
      OBVIOUS
    <3> QED BY <3>1, <3>2
  <2> HIDE DEF h
  <2> QED BY <2>1, <2>2, SumsAt
<1>5. h = f
  <2> HIDE DEF h
  <2> QED BY <1>1, <1>4, SumsUnique
<1>6. g[n] = f[n]
  BY <1>5
<1>7. g[n + 1] = g[n] \o t[n + 1]
  <2>1. g[n + 1] = g[(n + 1) - 1] \o t[n + 1]
    <3>1. n + 1 \in 1..(n+1) /\ n + 1 # 1
      OBVIOUS
    <3> QED BY <1>3, <3>1, Zenon
  <2>2. (n + 1) - 1 = n
    OBVIOUS
  <2> QED BY <2>1, <2>2, Zenon
<1> QED BY <1>1, <1>2, <1>6, <1>7

\* One piece flattens to itself.
LEMMA FlattenOne == ASSUME NEW s, Len(s) = 1 PROVE FlattenSeq(s) = s[1]
<1>1. PICK f : Sums(f, s, 1) /\ FlattenSeq(s) = f[1]
  BY FlattenIsSum
<1> QED
  BY <1>1, SumsAt

\* The first k pieces of s, all of m but the last, put end to end: byte q is
\* in piece q \div m.
FullTo(a, S, m, s, k) ==
    /\ a \in Seq(S)
    /\ Len(a) = m * (k - 1) + Len(s[k])
    /\ \A q \in 0..(Len(a) - 1) : a[q + 1] = s[(q \div m) + 1][(q % m) + 1]

\* The first piece is full to itself.
LEMMA FullToOne ==
    ASSUME NEW S, NEW m \in Nat \ {0}, NEW s, s[1] \in Seq(S), Len(s[1]) <= m
    PROVE  FullTo(s[1], S, m, s, 1)
<1>1. ASSUME NEW q \in 0..(Len(s[1]) - 1)
      PROVE  s[1][q + 1] = s[(q \div m) + 1][(q % m) + 1]
  <2>1. q \in 0..(m - 1)
    OBVIOUS
  <2>2. (q \div m) + 1 = 1 /\ q % m = q
    BY <2>1
  <2> QED
    BY <2>2, Zenon
<1>2. m * (1 - 1) + Len(s[1]) = Len(s[1])
  <2> DEFINE l == Len(s[1])
  <2>1. l \in Nat
    OBVIOUS
  <2> HIDE DEF l
  <2>2. m * (1 - 1) + l = l
    BY <2>1
  <2> QED
    BY <2>2 DEF l
<1> QED
  BY <1>1, <1>2, Zenon DEF FullTo

\* Behind full pieces, one more is found at the next multiple of their length.
LEMMA FullToNext ==
    ASSUME NEW S, NEW m \in Nat \ {0}, NEW s, NEW k \in Nat \ {0},
           NEW a, FullTo(a, S, m, s, k), Len(s[k]) = m,
           s[k + 1] \in Seq(S), Len(s[k + 1]) <= m
    PROVE  FullTo(a \o s[k + 1], S, m, s, k + 1)
<1> DEFINE p == s[k + 1]
<1>1. a \in Seq(S) /\ Len(a) = m * k /\ p \in Seq(S) /\ Len(p) <= m /\ k \in Nat
  BY DEF FullTo
<1> HIDE DEF p
<1>2. Len(a) \in Nat /\ Len(p) \in 0..m
  BY <1>1
<1>3. /\ a \o p \in Seq(S)
      /\ Len(a \o p) = Len(a) + Len(p)
      /\ \A i \in 1..(Len(a) + Len(p)) :
            (a \o p)[i] = IF i <= Len(a) THEN a[i] ELSE p[i - Len(a)]
  BY <1>1, ConcatProperties, ZenonT(60)
<1>4. ASSUME NEW q \in 0..(Len(a \o p) - 1)
      PROVE  (a \o p)[q + 1] = s[(q \div m) + 1][(q % m) + 1]
  <2>1. q \in Nat /\ q + 1 \in 1..(Len(a) + Len(p))
    BY <1>2, <1>3
  <2>2. (a \o p)[q + 1] = IF q + 1 <= Len(a) THEN a[q + 1] ELSE p[(q + 1) - Len(a)]
    BY <1>3, <2>1
  <2>3. CASE q < Len(a)
    <3>1. q \in 0..(Len(a) - 1) /\ (a \o p)[q + 1] = a[q + 1]
      BY <1>2, <2>1, <2>2, <2>3
    <3> QED
      BY <3>1, Zenon DEF FullTo
  <2>4. CASE ~(q < Len(a))
    <3> DEFINE r == q - Len(a)
    <3>1. r \in 0..(m - 1) /\ q = Len(a) + r
      BY <1>2, <2>1, <2>4
    <3>2. (a \o p)[q + 1] = p[r + 1]
      BY <1>2, <2>1, <2>2, <2>4
    <3> HIDE DEF r
    <3>3. (m * k + r) \div m = k /\ (m * k + r) % m = r
      BY <1>1, <3>1, DivisionIsUnique
    <3>4. q \div m = k /\ q % m = r
      BY <1>1, <3>1, <3>3
    <3> QED
      BY <3>2, <3>4, Zenon DEF p
  <2> QED
    BY <2>3, <2>4
<1>5. m * ((k + 1) - 1) = m * k
  OBVIOUS
<1> QED
  <2>1. Len(a \o p) = m * ((k + 1) - 1) + Len(p)
    BY <1>1, <1>3, <1>5, Zenon
  <2> QED
    BY <1>3, <1>4, <2>1, Zenon DEF FullTo, p

\* Pieces that, but for the last, are full flatten to a sequence indexed by piece
\* and place within it.
LEMMA FlattenFull ==
    ASSUME NEW S, NEW m \in Nat \ {0}, NEW s, NEW n \in Nat \ {0}, Len(s) = n,
           \A i \in 1..n : s[i] \in Seq(S) /\ Len(s[i]) <= m,
           \A i \in 1..(n - 1) : Len(s[i]) = m
    PROVE  FullTo(FlattenSeq(s), S, m, s, n)
<1>1. PICK f : Sums(f, s, n) /\ FlattenSeq(s) = f[n]
  BY FlattenIsSum
<1>2. \A k \in 1..n : f[k] = IF k = 1 THEN s[k] ELSE f[k - 1] \o s[k]
  BY <1>1, SumsAt
<1> DEFINE T == {k \in Nat : k \in 1..n => FullTo(f[k], S, m, s, k)}
<1>3. 0 \in T
  OBVIOUS
<1>4. ASSUME NEW k \in Nat, k \in T PROVE k + 1 \in T
  <2> SUFFICES ASSUME k + 1 \in 1..n PROVE FullTo(f[k + 1], S, m, s, k + 1)
    OBVIOUS
  <2>1. f[k + 1] = IF k + 1 = 1 THEN s[k + 1] ELSE f[(k + 1) - 1] \o s[k + 1]
    BY <1>2
  <2>2. s[k + 1] \in Seq(S) /\ Len(s[k + 1]) <= m
    OBVIOUS
  <2>3. CASE k = 0
    <3>1. k + 1 = 1
      BY <2>3
    <3> QED
      BY <2>1, <2>2, <3>1, FullToOne
  <2>4. CASE k # 0
    <3>1. k + 1 # 1 /\ (k + 1) - 1 = k /\ k \in 1..(n - 1) /\ k \in 1..n
      BY <2>4
    <3>2. f[k + 1] = f[k] \o s[k + 1]
      BY <2>1, <3>1, Zenon
    <3>3. FullTo(f[k], S, m, s, k) /\ Len(s[k]) = m
      BY <1>4, <3>1
    <3> QED
      BY <2>2, <2>4, <3>2, <3>3, FullToNext
  <2> QED
    BY <2>3, <2>4
<1>5. Nat \subseteq T
  <2> HIDE DEF T
  <2> QED
    BY <1>3, <1>4, SetInduction
<1>6. n \in T /\ n \in 1..n
  BY <1>5
<1> QED
  BY <1>1, <1>6

\* The first k pieces of s, of any lengths, put end to end: place q is in the
\* piece before which there are fewer than q places and after which there are
\* not, o[i] being how many there are in the first i.
PiecesTo(a, S, s, o, k) ==
    /\ a \in Seq(S)
    /\ Len(a) = o[k]
    /\ \A q \in 1..o[k] : \E i \in 1..k : q \in (o[i - 1] + 1)..o[i] /\ a[q] = s[i][q - o[i - 1]]

\* The first piece begins at no place.
LEMMA PiecesOne ==
    ASSUME NEW S, NEW s, NEW o, s[1] \in Seq(S), o[0] = 0, o[1] = o[0] + Len(s[1])
    PROVE  PiecesTo(s[1], S, s, o, 1)
<1> DEFINE l == Len(s[1])
<1>1. l \in Nat /\ o[1] = 0 + l
  BY DEF l
<1> HIDE DEF l
<1>2. o[1] = l /\ 1 - 1 = 0 /\ 1 \in 1..1
  BY <1>1
<1>3. ASSUME NEW q \in 1..o[1]
      PROVE  q \in (o[1 - 1] + 1)..o[1] /\ q - o[1 - 1] = q
  BY <1>1, <1>2
<1>4. \A q \in 1..o[1] : q \in (o[1 - 1] + 1)..o[1] /\ s[1][q] = s[1][q - o[1 - 1]]
  BY <1>3
<1> QED
  BY <1>2, <1>4 DEF PiecesTo, l

\* One more piece begins where the earlier ones end.
LEMMA PiecesNext ==
    ASSUME NEW S, NEW s, NEW o, NEW k \in Nat \ {0}, NEW a, PiecesTo(a, S, s, o, k),
           s[k + 1] \in Seq(S), o[k + 1] = o[k] + Len(s[k + 1])
    PROVE  PiecesTo(a \o s[k + 1], S, s, o, k + 1)
<1> DEFINE p == s[k + 1]
           l == Len(p)
           n == Len(a)
<1>1. a \in Seq(S) /\ p \in Seq(S) /\ o[k] = n /\ o[k + 1] = n + l
  BY DEF PiecesTo
<1> HIDE DEF p
<1>2. /\ a \o p \in Seq(S)
      /\ Len(a \o p) = n + l
      /\ \A i \in 1..(n + l) : (a \o p)[i] = IF i <= n THEN a[i] ELSE p[i - n]
  BY <1>1, ConcatProperties, ZenonT(60)
<1>3. n \in Nat /\ l \in Nat
  BY <1>1
<1> HIDE DEF n, l
<1>4. ASSUME NEW q \in 1..(n + l)
      PROVE  \E i \in 1..(k + 1) :
                q \in (o[i - 1] + 1)..o[i] /\ (a \o p)[q] = s[i][q - o[i - 1]]
  <2>1. CASE q <= n
    <3>1. q \in 1..o[k] /\ (a \o p)[q] = a[q]
      BY <1>1, <1>2, <1>3, <2>1
    <3>2. PICK i \in 1..k : q \in (o[i - 1] + 1)..o[i] /\ a[q] = s[i][q - o[i - 1]]
      BY <3>1 DEF PiecesTo
    <3>3. i \in 1..(k + 1)
      OBVIOUS
    <3> QED
      BY <3>1, <3>2, <3>3, Zenon
  <2>2. CASE ~(q <= n)
    <3>1. k + 1 \in 1..(k + 1) /\ (k + 1) - 1 = k
      OBVIOUS
    <3>2. (a \o p)[q] = p[q - n] /\ q \in (n + 1)..(n + l)
      BY <1>2, <1>3, <2>2
    <3> QED
      BY <1>1, <3>1, <3>2, Zenon DEF p
  <2> QED
    BY <2>1, <2>2
<1> QED
  BY <1>1, <1>2, <1>4, Zenon DEF PiecesTo, p

\* Pieces of any lengths flatten to a sequence indexed by how many places come
\* before each.
LEMMA FlattenPieces ==
    ASSUME NEW S, NEW s, NEW o, NEW n \in Nat \ {0}, Len(s) = n, o[0] = 0,
           \A i \in 1..n : s[i] \in Seq(S) /\ o[i] = o[i - 1] + Len(s[i])
    PROVE  PiecesTo(FlattenSeq(s), S, s, o, n)
<1>1. PICK f : Sums(f, s, n) /\ FlattenSeq(s) = f[n]
  BY FlattenIsSum
<1>2. \A k \in 1..n : f[k] = IF k = 1 THEN s[k] ELSE f[k - 1] \o s[k]
  BY <1>1, SumsAt
<1> DEFINE T == {k \in Nat : k \in 1..n => PiecesTo(f[k], S, s, o, k)}
<1>3. 0 \in T
  OBVIOUS
<1>4. ASSUME NEW k \in Nat, k \in T PROVE k + 1 \in T
  <2> SUFFICES ASSUME k + 1 \in 1..n PROVE PiecesTo(f[k + 1], S, s, o, k + 1)
    OBVIOUS
  <2>1. f[k + 1] = IF k + 1 = 1 THEN s[k + 1] ELSE f[(k + 1) - 1] \o s[k + 1]
    BY <1>2
  <2>2. s[k + 1] \in Seq(S) /\ o[k + 1] = o[(k + 1) - 1] + Len(s[k + 1])
    BY Zenon
  <2>3. CASE k = 0
    <3>1. k + 1 = 1 /\ 1 - 1 = 0 /\ 1 \in 1..n
      BY <2>3
    <3>2. f[1] = s[1] /\ s[1] \in Seq(S) /\ o[1] = o[0] + Len(s[1])
      BY <1>2, <3>1, Zenon
    <3>3. PiecesTo(s[1], S, s, o, 1)
      BY ONLY <3>2, o[0] = 0, PiecesOne
    <3> QED
      BY ONLY <3>1, <3>2, <3>3, Zenon
  <2>4. CASE k # 0
    <3>1. k + 1 # 1 /\ (k + 1) - 1 = k /\ k \in 1..n
      BY <2>4
    <3>2. f[k + 1] = f[k] \o s[k + 1] /\ o[k + 1] = o[k] + Len(s[k + 1])
      BY <2>1, <2>2, <3>1, Zenon
    <3>3. PiecesTo(f[k], S, s, o, k)
      BY <1>4, <3>1
    <3>4. PiecesTo(f[k] \o s[k + 1], S, s, o, k + 1)
      BY ONLY k \in Nat, <2>2, <2>4, <3>2, <3>3, PiecesNext
    <3> QED
      BY ONLY <3>2, <3>4, Zenon
  <2> QED
    BY <2>3, <2>4
<1>5. Nat \subseteq T
  <2> HIDE DEF T
  <2> QED
    BY <1>3, <1>4, SetInduction
<1>6. n \in T /\ n \in 1..n
  BY <1>5
<1> QED
  BY <1>1, <1>6

\* Whatever the lengths, pieces over a set make a sequence over it.
LEMMA FlattenTypes ==
    ASSUME NEW S, NEW s, Len(s) \in Nat \ {0}, \A i \in 1..Len(s) : s[i] \in Seq(S)
    PROVE  FlattenSeq(s) \in Seq(S)
<1>1. PICK f : Sums(f, s, Len(s)) /\ FlattenSeq(s) = f[Len(s)]
  BY FlattenIsSum
<1>2. \A k \in 1..Len(s) : f[k] = IF k = 1 THEN s[k] ELSE f[k - 1] \o s[k]
  BY <1>1, SumsAt
<1> DEFINE T == {k \in Nat : k \in 1..Len(s) => f[k] \in Seq(S)}
<1>3. 0 \in T
  OBVIOUS
<1>4. ASSUME NEW k \in Nat, k \in T PROVE k + 1 \in T
  <2> SUFFICES ASSUME k + 1 \in 1..Len(s) PROVE f[k + 1] \in Seq(S)
    OBVIOUS
  <2>1. f[k + 1] = IF k + 1 = 1 THEN s[k + 1] ELSE f[(k + 1) - 1] \o s[k + 1]
    BY <1>2
  <2>2. (k + 1) - 1 = k /\ (k # 0 => f[k] \in Seq(S)) /\ s[k + 1] \in Seq(S)
    BY <1>4
  <2>3. k # 0 => f[k] \o s[k + 1] \in Seq(S)
    BY <2>2, ConcatProperties
  <2> QED
    BY <2>1, <2>2, <2>3
<1>5. Nat \subseteq T
  <2> HIDE DEF T
  <2> QED
    BY <1>3, <1>4, SetInduction
<1> QED
  BY <1>1, <1>5

\* A sequence, whatever its elements are.
IsSeq(s) == \E S : s \in Seq(S)

\* Sequences end to end are a sequence, as long as both together.
LEMMA JoinLength ==
    ASSUME NEW s, NEW t, IsSeq(s), IsSeq(t)
    PROVE  /\ IsSeq(s \o t) /\ Len(s \o t) = Len(s) + Len(t)
           /\ Len(s) \in Nat /\ Len(t) \in Nat
<1>1. PICK S : s \in Seq(S)
  BY DEF IsSeq
<1>2. PICK T : t \in Seq(T)
  BY DEF IsSeq
<1>3. s \in Seq(S \cup T) /\ t \in Seq(S \cup T)
  BY <1>1, <1>2, SeqMonotonic
<1>4. s \o t \in Seq(S \cup T) /\ Len(s \o t) = Len(s) + Len(t)
  BY <1>3, ConcatProperties
<1>5. Len(s) \in Nat /\ Len(t) \in Nat
  BY <1>3, LenProperties
<1> QED
  BY <1>4, <1>5 DEF IsSeq

\* A function over the numbers up to n is a sequence of n.
LEMMA FunctionIsSeq ==
    ASSUME NEW n \in Nat, NEW f, f = [k \in 1..n |-> f[k]]
    PROVE  IsSeq(f) /\ Len(f) = n
<1> DEFINE S == {f[k] : k \in 1..n}
<1>1. f \in [1..n -> S]
  OBVIOUS
<1> HIDE DEF S
<1>2. f \in Seq(S) /\ Len(f) = n
  BY <1>1
<1> QED
  BY <1>2 DEF IsSeq

\* Lengths are numbers.
LEMMA LengthIsNumber == ASSUME NEW s, IsSeq(s) PROVE Len(s) \in Nat
BY LenProperties DEF IsSeq

\* Nothing is a sequence of none.
LEMMA NothingIsSeq == IsSeq(<<>>) /\ Len(<<>>) = 0
<1>1. <<>> \in Seq({}) /\ Len(<<>>) = 0
  BY EmptySeq
<1> QED
  BY <1>1 DEF IsSeq

\* Nothing put before or after a sequence leaves it as it is.
LEMMA JoinNothing == ASSUME NEW s, IsSeq(s) PROVE <<>> \o s = s /\ s \o <<>> = s
<1>1. PICK S : s \in Seq(S)
  BY DEF IsSeq
<1> QED
  BY <1>1, ConcatEmptySeq

\* It does not matter which of three sequences are joined first.
LEMMA JoinAssociates ==
    ASSUME NEW s, NEW t, NEW u, IsSeq(s), IsSeq(t), IsSeq(u)
    PROVE  (s \o t) \o u = s \o (t \o u)
<1>1. PICK S : s \in Seq(S)
  BY DEF IsSeq
<1>2. PICK T : t \in Seq(T)
  BY DEF IsSeq
<1>3. PICK U : u \in Seq(U)
  BY DEF IsSeq
<1> DEFINE V == S \cup T \cup U
<1>4. s \in Seq(V) /\ t \in Seq(V) /\ u \in Seq(V)
  BY <1>1, <1>2, <1>3, SeqMonotonic
<1> HIDE DEF V
<1> QED
  BY <1>4, ConcatAssociative

\* No pieces make nothing.
LEMMA FlattenNothing ==
    ASSUME NEW s, s = [i \in 1..0 |-> s[i]]
    PROVE  Len(s) = 0 /\ FlattenSeq(s) = <<>>
<1>1. IsSeq(s) /\ Len(s) = 0
  BY FunctionIsSeq
<1>2. PICK S : s \in Seq(S)
  BY <1>1 DEF IsSeq
<1>3. s = <<>>
  BY <1>1, <1>2, EmptySeq
<1> QED
  BY <1>1, <1>3 DEF FlattenSeq

\* Pieces that are sequences make a sequence.
LEMMA FlattenIsSeq ==
    ASSUME NEW n \in Nat, NEW s, s = [i \in 1..n |-> s[i]], \A i \in 1..n : IsSeq(s[i])
    PROVE  IsSeq(FlattenSeq(s))
<1>1. Len(s) = n
  BY FunctionIsSeq
<1>2. CASE n = 0
  BY <1>2, FlattenNothing, NothingIsSeq
<1>3. CASE n # 0
  <2> DEFINE S == UNION {{s[i][k] : k \in 1..Len(s[i])} : i \in 1..n}
  <2>1. ASSUME NEW i \in 1..n PROVE s[i] \in Seq(S)
    <3> DEFINE t == s[i]
    <3>1. PICK T : t \in Seq(T)
      BY DEF IsSeq
    <3>2. t \in [1..Len(t) -> T] /\ Len(t) \in Nat
      BY <3>1, LenProperties
    <3>3. \A k \in 1..Len(t) : t[k] \in S
      OBVIOUS
    <3> HIDE DEF t, S
    <3>4. t \in [1..Len(t) -> S]
      BY <3>2, <3>3
    <3>5. t \in Seq(S)
      BY <3>2, <3>4
    <3> QED
      BY <3>5 DEF t
  <2> HIDE DEF S
  <2>2. FlattenSeq(s) \in Seq(S)
    BY <1>1, <1>3, <2>1, FlattenTypes
  <2> QED
    BY <2>2 DEF IsSeq
<1> QED
  BY <1>2, <1>3

\* One piece more at the end.
LEMMA FlattenSnoc ==
    ASSUME NEW n \in Nat, NEW s, NEW t, IsSeq(s), Len(s) = n, Len(t) = n + 1,
           \A i \in 1..n : t[i] = s[i], IsSeq(t[n + 1])
    PROVE  FlattenSeq(t) = FlattenSeq(s) \o t[n + 1]
<1>1. CASE n = 0
  <2>1. FlattenSeq(s) = <<>>
    <3>1. PICK S : s \in Seq(S)
      BY DEF IsSeq
    <3>2. s = <<>>
      BY <1>1, <3>1, EmptySeq
    <3> QED
      BY <1>1, <3>2 DEF FlattenSeq
  <2>2. FlattenSeq(t) = t[1]
    BY <1>1, FlattenOne
  <2>3. IsSeq(t[1]) /\ n + 1 = 1
    BY <1>1
  <2>4. <<>> \o t[1] = t[1]
    BY <2>3, JoinNothing
  <2> QED
    BY <2>1, <2>2, <2>3, <2>4, Zenon
<1>2. CASE n # 0
  <2>1. n \in Nat \ {0}
    BY <1>2
  <2> QED
    BY <2>1, FlattenAppend
<1> QED
  BY <1>1, <1>2

-----------------------------------------------------------------------------
(* Recursions that stay in a set.                                          *)

\* A recursion over 0..n whose steps are F's never leaves D.
LEMMA RecursionStays ==
    ASSUME NEW D, NEW F, \A k \in Nat : \A d \in D : F[<<k, d>>] \in D,
           NEW n \in Nat, NEW f, f[0] \in D,
           \A k \in 1..n : f[k - 1] \in D => f[k] = F[<<k, f[k - 1]>>]
    PROVE  \A k \in 0..n : f[k] \in D
<1> DEFINE T == {k \in Nat : k \in 0..n => f[k] \in D}
<1>1. 0 \in T
  OBVIOUS
<1>2. ASSUME NEW k \in Nat, k \in T PROVE k + 1 \in T
  <2> SUFFICES ASSUME k + 1 \in 0..n PROVE f[k + 1] \in D
    OBVIOUS
  <2>1. f[k] \in D /\ (k + 1) - 1 = k /\ k + 1 \in 1..n
    BY <1>2
  <2>2. f[k + 1] = F[<<k + 1, f[k]>>]
    BY <2>1
  <2> QED
    BY <2>1, <2>2
<1>3. Nat \subseteq T
  <2> HIDE DEF T
  <2> QED
    BY <1>1, <1>2, SetInduction
<1> QED
  BY <1>3

\* A recursion over 0..n in D, from z by F.
Recursion(f, D, F, z, n) ==
    /\ f = [k \in 0..n |-> f[k]]
    /\ f[0] = z
    /\ \A k \in 1..n : f[k] = F[<<k, f[k - 1]>>]
    /\ \A k \in 0..n : f[k] \in D

\* There is one, of any length.
LEMMA RecursionExists ==
    ASSUME NEW D, NEW F, \A k \in Nat : \A d \in D : F[<<k, d>>] \in D, NEW z \in D
    PROVE  \A n \in Nat : \E f : Recursion(f, D, F, z, n)
<1> DEFINE R(f, n) == Recursion(f, D, F, z, n)
           T == {n \in Nat : \E f : R(f, n)}
<1>1. 0 \in T
  <2> DEFINE g == [k \in 0..0 |-> z]
  <2>1. g = [k \in 0..0 |-> g[k]] /\ g[0] = z /\ \A k \in 0..0 : g[k] \in D
    OBVIOUS
  <2> HIDE DEF g
  <2>2. R(g, 0)
    BY <2>1 DEF Recursion
  <2> QED
    BY <2>2
<1>2. ASSUME NEW n \in Nat, n \in T PROVE n + 1 \in T
  <2>1. PICK f : R(f, n)
    BY <1>2
  <2> DEFINE e == F[<<n + 1, f[n]>>]
             g == [k \in 0..(n + 1) |-> IF k = n + 1 THEN e ELSE f[k]]
  <2>2. e \in D
    BY <2>1 DEF Recursion
  <2> HIDE DEF e
  <2>3. g[n + 1] = e /\ \A k \in 0..n : g[k] = f[k]
    OBVIOUS
  <2>4. g = [k \in 0..(n + 1) |-> g[k]]
    OBVIOUS
  <2> HIDE DEF g
  <2>5. 0 \in 0..n /\ n \in 0..n /\ \A k \in 0..(n + 1) : k = n + 1 \/ k \in 0..n
    OBVIOUS
  <2>6. f[0] = z /\ \A k \in 0..n : f[k] \in D
    BY <2>1 DEF Recursion
  <2>7. g[0] = z /\ \A k \in 0..(n + 1) : g[k] \in D
    <3>1. g[0] = z
      BY <2>3, <2>5, <2>6
    <3>2. \A k \in 0..(n + 1) : g[k] \in D
      <4> TAKE k \in 0..(n + 1)
      <4>1. CASE k = n + 1
        BY <2>2, <2>3, <4>1
      <4>2. CASE k \in 0..n
        BY <2>3, <2>6, <4>2
      <4> QED
        BY <2>5, <4>1, <4>2
    <3> QED
      BY <3>1, <3>2
  <2>8. ASSUME NEW k \in 1..(n + 1) PROVE g[k] = F[<<k, g[k - 1]>>]
    <3>1. CASE k = n + 1
      <4>1. k - 1 = n /\ g[n] = f[n]
        BY <2>3, <2>5, <3>1
      <4> QED
        BY <2>3, <3>1, <4>1 DEF e
    <3>2. CASE k # n + 1
      <4>1. k \in 1..n /\ k \in 0..n /\ k - 1 \in 0..n
        BY <3>2
      <4>2. g[k] = f[k] /\ g[k - 1] = f[k - 1]
        BY <2>3, <4>1
      <4> QED
        BY <2>1, <4>1, <4>2 DEF Recursion
    <3> QED
      BY <3>1, <3>2
  <2>9. R(g, n + 1)
    BY <2>4, <2>7, <2>8 DEF Recursion
  <2> HIDE DEF R
  <2> QED
    BY <2>9
<1>3. Nat \subseteq T
  <2> HIDE DEF T
  <2> QED
    BY <1>1, <1>2, SetInduction
<1> QED
  BY <1>3

=============================================================================

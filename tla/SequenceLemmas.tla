--------------------------- MODULE SequenceLemmas ---------------------------
(***************************************************************************)
(* Facts about sequences that the proofs of several components share.      *)
(* Induction and recursion over numbers are stated for a set and for a     *)
(* function in place of a predicate and an operator, so that they can be   *)
(* cited like any other fact.                                              *)
(***************************************************************************)
EXTENDS Integers, Sequences, SequencesExt, SequenceTheorems, FiniteSetTheorems,
        WellFoundedInduction, TLAPS

\* Every set of natural numbers that is not empty has a least element.
LEMMA LeastNumber ==
  ASSUME NEW T \in SUBSET Nat, T # {}
  PROVE  \E n \in T : \A m \in T : n <= m
  <1> DEFINE R == OpToRel(<, Nat)
  <1>1. IsWellFoundedOn(R, Nat)
    BY NatLessThanWellFounded
  <1>2. \A m, n \in Nat : m < n => <<m, n>> \in R
    BY DEF OpToRel
  <1> HIDE DEF R
  <1>3. PICK n \in T : \A m \in T : ~(<<m, n>> \in R)
    BY <1>1, WFMin
  <1>4. n \in Nat /\ \A m \in T : m \in Nat /\ ~(m < n)
    BY <1>2, <1>3
  <1>5. \A m \in T : n <= m
    BY <1>4
  <1>6. QED
    BY <1>5

\* Induction up to N.
LEMMA SetInduction ==
  ASSUME NEW N \in Nat, NEW T, 0 \in T, \A n \in 1 .. N : n - 1 \in T => n \in T
  PROVE  \A n \in 0 .. N : n \in T
  <1> DEFINE Bad == {n \in 0 .. N : n \notin T}
  <1> SUFFICES ASSUME Bad # {} PROVE FALSE
    OBVIOUS
  <1>1. Bad \in SUBSET Nat
    OBVIOUS
  <1>2. PICK n \in Bad : \A m \in Bad : n <= m
    BY <1>1, LeastNumber
  <1>3. n \in 1 .. N /\ n - 1 \notin Bad
    BY <1>2
  <1>4. QED
    BY <1>2, <1>3

\* f starts with base, and each value follows from the one before.
Iterates(f, N, base, step) ==
  f[0] = base /\ \A n \in 1 .. N : f[n] = step[<<f[n - 1], n>>]

\* There is a function up to N with a given first value and given steps.
LEMMA Recursion ==
  ASSUME NEW N \in Nat, NEW A, NEW base \in A, NEW step \in [A \X (1 .. N) -> A]
  PROVE  \E f \in [0 .. N -> A] : Iterates(f, N, base, step)
  <1> DEFINE Steps(f, k) == Iterates(f, k, base, step)
             T == {k \in 0 .. N : \E f \in [0 .. k -> A] : Steps(f, k)}
  <1>1. 0 \in T
    <2> DEFINE f == [n \in 0 .. 0 |-> base]
    <2>1. f \in [0 .. 0 -> A] /\ Steps(f, 0)
      BY DEF Iterates
    <2> HIDE DEF f, Steps
    <2>2. QED
      BY <2>1
  <1>2. ASSUME NEW k \in 1 .. N, k - 1 \in T
        PROVE  k \in T
    <2>1. PICK f \in [0 .. k - 1 -> A] : Steps(f, k - 1)
      BY <1>2
    <2> DEFINE x == step[<<f[k - 1], k>>]
               g == [n \in 0 .. k |-> IF n = k THEN x ELSE f[n]]
    <2>2. x \in A
      BY <2>1
    <2> HIDE DEF x
    <2>3. g \in [0 .. k -> A]
      BY <2>1, <2>2
    <2>4. g[0] = base /\ g[k] = x /\ \A n \in 0 .. k - 1 : g[n] = f[n]
      BY <2>1 DEF Iterates
    <2> HIDE DEF g
    <2>5. ASSUME NEW n \in 1 .. k
          PROVE  g[n] = step[<<g[n - 1], n>>]
      <3>1. n - 1 \in 0 .. k - 1 /\ g[n - 1] = f[n - 1]
        BY <2>4
      <3>2. CASE n = k
        BY <2>4, <3>1, <3>2 DEF x
      <3>3. CASE n # k
        <4>1. n \in 1 .. k - 1 /\ g[n] = f[n]
          BY <2>4, <3>3
        <4>2. QED
          BY <2>1, <3>1, <4>1 DEF Iterates
      <3>4. QED
        BY <3>2, <3>3
    <2>6. Steps(g, k)
      BY <2>4, <2>5 DEF Iterates
    <2> HIDE DEF Steps
    <2>7. QED
      BY <2>3, <2>6
  <1> HIDE DEF T
  <1>3. N \in T
    BY <1>1, <1>2, SetInduction
  <1>4. QED
    BY <1>3 DEF T
-----------------------------------------------------------------------------
(* The ends of a sequence.                                                 *)

\* A position is the last one or a position of the front.
LEMMA LastOrBefore ==
  ASSUME NEW n \in Nat, NEW i \in 1 .. n, i # n
  PROVE  i \in 1 .. n - 1
  OBVIOUS

\* A sequence that is not empty is its front and its last element.
LEMMA FrontAndLast ==
  ASSUME NEW S, NEW q \in Seq(S), q # <<>>
  PROVE  /\ Len(q) \in Nat \ {0}
         /\ Front(q) \in Seq(S) /\ Last(q) \in S
         /\ Len(Front(q)) = Len(q) - 1
         /\ \A i \in 1 .. Len(q) - 1 : Front(q)[i] = q[i]
         /\ q = Append(Front(q), Last(q))
  <1>1. Len(q) \in Nat \ {0}
    BY EmptySeq
  <1>2. Last(q) \in S
    BY <1>1 DEF Last
  <1>3. /\ Front(q) \in Seq(S)
        /\ Len(Front(q)) = Len(q) - 1
        /\ \A i \in 1 .. Len(q) - 1 : Front(q)[i] = q[i]
    <2>1. PICK n \in Nat : n = Len(q) - 1
      BY <1>1
    <2>2. \A i \in 1 .. n : q[i] \in S
      BY <1>1, <2>1
    <2>3. /\ SubSeq(q, 1, n) \in Seq(S)
          /\ Len(SubSeq(q, 1, n)) = IF 1 <= n THEN n - 1 + 1 ELSE 0
          /\ \A i \in 1 .. n - 1 + 1 : SubSeq(q, 1, n)[i] = q[1 + i - 1]
      BY <2>1, <2>2, SubSeqProperties
    <2>4. Front(q) = SubSeq(q, 1, n)
      BY <2>1 DEF Front
    <2>5. QED
      BY <2>1, <2>3, <2>4
  <1> DEFINE a == Append(Front(q), Last(q))
  <1>4. a \in Seq(S) /\ Len(a) = Len(q)
    BY <1>1, <1>2, <1>3
  <1>5. \A i \in 1 .. Len(q) : a[i] = q[i]
    BY <1>1, <1>2, <1>3 DEF Last
  <1> HIDE DEF a
  <1>6. a = q
    BY <1>4, <1>5, SeqEqual
  <1>7. QED
    BY <1>1, <1>2, <1>3, <1>6 DEF a

\* What was appended is not part of the front.
LEMMA FrontOfAppend ==
  ASSUME NEW S, NEW q \in Seq(S), NEW x \in S
  PROVE  Front(Append(q, x)) = q
  <1> DEFINE a == Append(q, x)
  <1>1. /\ a \in Seq(S) /\ a # <<>>
        /\ Len(a) = Len(q) + 1 /\ Len(q) \in Nat
        /\ \A i \in 1 .. Len(q) : a[i] = q[i]
    BY AppendProperties
  <1> HIDE DEF a
  <1>2. /\ Front(a) \in Seq(S) /\ Len(Front(a)) = Len(q)
        /\ \A i \in 1 .. Len(q) : Front(a)[i] = q[i]
    BY <1>1, FrontAndLast
  <1>3. Front(a) = q
    BY <1>2, SeqEqual
  <1>4. QED
    BY <1>3 DEF a

\* An element appended to the second of two sequences is appended to both.
LEMMA ConcatAppend ==
  ASSUME NEW S, NEW d \in Seq(S), NEW q \in Seq(S), NEW x \in S
  PROVE  d \o Append(q, x) = Append(d \o q, x)
  <1>1. <<x>> \in Seq(S) /\ d \o q \in Seq(S)
    OBVIOUS
  <1>2. Append(q, x) = q \o <<x>> /\ Append(d \o q, x) = (d \o q) \o <<x>>
    BY <1>1, AppendIsConcat
  <1>3. QED
    BY <1>1, <1>2, ConcatAssociative

\* Four sequences one after the other, taken from the left or from the right.
LEMMA ConcatFour ==
  ASSUME NEW S, NEW a \in Seq(S), NEW q \in Seq(S), NEW b \in Seq(S), NEW e \in Seq(S)
  PROVE  a \o q \o b \o e = a \o (q \o (b \o e))
  <1>1. b \o e \in Seq(S) /\ a \o q \in Seq(S)
    OBVIOUS
  <1>2. ASSUME NEW d \in Seq(S)
        PROVE  (d \o b) \o e = d \o (b \o e)
    BY ConcatAssociative, SMTT(30)
  <1>3. ASSUME NEW f \in Seq(S)
        PROVE  (a \o q) \o f = a \o (q \o f)
    BY ConcatAssociative, SMTT(30)
  <1>4. QED
    BY <1>1, <1>2, <1>3, Zenon

-----------------------------------------------------------------------------
(* Parts of a sequence.                                                    *)

\* The elements of a part of a sequence.
LEMMA PartOf ==
  ASSUME NEW C, NEW q \in Seq(C), NEW a \in 0 .. Len(q), NEW b \in a .. Len(q)
  PROVE  /\ SubSeq(q, a + 1, b) \in Seq(C)
         /\ Len(SubSeq(q, a + 1, b)) = b - a
         /\ \A i \in 1 .. b - a : SubSeq(q, a + 1, b)[i] = q[a + i]
  <1>1. Len(q) \in Nat /\ a \in Nat /\ b \in Nat /\ a + 1 \in Int
    OBVIOUS
  <1>2. \A i \in a + 1 .. b : q[i] \in C
    BY <1>1
  <1>3. /\ SubSeq(q, a + 1, b) \in Seq(C)
        /\ Len(SubSeq(q, a + 1, b)) = IF a + 1 <= b THEN b - (a + 1) + 1 ELSE 0
        /\ \A i \in 1 .. b - (a + 1) + 1 : SubSeq(q, a + 1, b)[i] = q[a + 1 + i - 1]
    BY <1>1, <1>2, SubSeqProperties
  <1>4. QED
    BY <1>1, <1>3

\* A part of a part of a sequence is a part of the sequence.
LEMMA PartOfPart ==
  ASSUME NEW C, NEW q \in Seq(C), NEW a \in 0 .. Len(q), NEW b \in a .. Len(q),
         NEW x \in 0 .. b - a, NEW y \in x .. b - a
  PROVE  SubSeq(SubSeq(q, a + 1, b), x + 1, y) = SubSeq(q, a + x + 1, a + y)
  <1> DEFINE p == SubSeq(q, a + 1, b)
             l == SubSeq(p, x + 1, y)
             r == SubSeq(q, a + x + 1, a + y)
  <1>1. p \in Seq(C) /\ Len(p) = b - a /\ \A i \in 1 .. b - a : p[i] = q[a + i]
    BY PartOf
  <1> HIDE DEF p
  <1>2. x \in 0 .. Len(p) /\ y \in x .. Len(p) /\ a + x \in 0 .. Len(q) /\ a + y \in a + x .. Len(q)
    BY <1>1
  <1>3. l \in Seq(C) /\ Len(l) = y - x /\ \A i \in 1 .. y - x : l[i] = p[x + i]
    BY <1>1, <1>2, PartOf
  <1>4. /\ r \in Seq(C) /\ Len(r) = (a + y) - (a + x)
        /\ \A i \in 1 .. (a + y) - (a + x) : r[i] = q[(a + x) + i]
    BY <1>2, PartOf
  <1> HIDE DEF l, r
  <1>5. Len(l) = Len(r)
    BY <1>2, <1>3, <1>4
  <1>6. ASSUME NEW i \in 1 .. Len(l)
        PROVE  l[i] = r[i]
    <2>1. x + i \in 1 .. b - a /\ i \in 1 .. (a + y) - (a + x) /\ a + (x + i) = (a + x) + i
      BY <1>2, <1>3
    <2>2. l[i] = p[x + i] /\ p[x + i] = q[a + (x + i)] /\ r[i] = q[(a + x) + i]
      BY <1>1, <1>3, <1>4, <2>1
    <2>3. QED
      BY <2>1, <2>2
  <1>7. l = r
    BY <1>3, <1>4, <1>5, <1>6, SeqEqual
  <1>8. QED
    BY <1>7 DEF l, r, p

\* One element more of a sequence.
LEMMA PartAppend ==
  ASSUME NEW C, NEW q \in Seq(C), NEW n \in 1 .. Len(q), NEW a \in 0 .. n - 1
  PROVE  SubSeq(q, a + 1, n) = Append(SubSeq(q, a + 1, n - 1), q[n])
  <1> DEFINE l == SubSeq(q, a + 1, n)
             p == SubSeq(q, a + 1, n - 1)
             r == Append(p, q[n])
  <1>0. /\ Len(q) \in Nat /\ a \in 0 .. Len(q) /\ n \in a .. Len(q)
        /\ n - 1 \in a .. Len(q) /\ q[n] \in C
    OBVIOUS
  <1>1. l \in Seq(C) /\ Len(l) = n - a /\ \A i \in 1 .. n - a : l[i] = q[a + i]
    BY <1>0, PartOf
  <1>2. p \in Seq(C) /\ Len(p) = n - 1 - a /\ \A i \in 1 .. n - 1 - a : p[i] = q[a + i]
    BY <1>0, PartOf
  <1> HIDE DEF l, p
  <1>3. /\ r \in Seq(C) /\ Len(r) = Len(p) + 1
        /\ \A i \in 1 .. Len(p) : r[i] = p[i]
        /\ r[Len(p) + 1] = q[n]
    BY <1>0, <1>2, AppendProperties
  <1> HIDE DEF r
  <1>4. Len(l) = Len(r)
    BY <1>0, <1>1, <1>2, <1>3
  <1>5. ASSUME NEW i \in 1 .. Len(l)
        PROVE  l[i] = r[i]
    <2>1. CASE i = n - a
      <3>1. Len(p) + 1 = i /\ a + i = n /\ i \in 1 .. n - a
        BY <1>0, <1>1, <1>2, <2>1
      <3>2. QED
        BY <1>1, <1>3, <3>1
    <2>2. CASE i # n - a
      <3>1. i \in 1 .. n - 1 - a /\ i \in 1 .. n - a
        BY <1>0, <1>1, <2>2
      <3>2. QED
        BY <1>1, <1>2, <1>3, <3>1
    <2>3. QED
      BY <2>1, <2>2
  <1>6. l = r
    BY <1>1, <1>3, <1>4, <1>5, SeqEqual
  <1>7. QED
    BY <1>6 DEF l, r, p

\* The least number of a set.
LEMMA MinIs ==
  ASSUME NEW I \in SUBSET Int, NEW m \in I, \A i \in I : m <= i
  PROVE  Min(I) = m
  <1>1. Min(I) \in I /\ \A i \in I : Min(I) <= i
    BY Zenon DEF Min
  <1>2. Min(I) <= m /\ m <= Min(I) /\ Min(I) \in Int
    BY <1>1
  <1>3. QED
    BY <1>2

-----------------------------------------------------------------------------
(* FlattenSeq: the batches of the metrics, one after the other.            *)

\* f[n] is the concatenation of the first n elements of s.
Parts(f, s, S) ==
  /\ f \in [1 .. Len(s) -> Seq(S)]
  /\ f[1] = s[1]
  /\ \A n \in 2 .. Len(s) : f[n] = f[n - 1] \o s[n]

\* The partial concatenations that define FlattenSeq exist.
LEMMA FlattenParts ==
  ASSUME NEW S, NEW s \in Seq(Seq(S)), Len(s) > 0
  PROVE  \E f : Parts(f, s, S) /\ FlattenSeq(s) = f[Len(s)]
  <1>0. PICK N \in Nat : N = Len(s) /\ N > 0
    OBVIOUS
  <1> DEFINE A == Seq(S)
             base == <<>>
             Then(a, i) == a \o s[i]
             step == [p \in A \X (1 .. N) |-> Then(p[1], p[2])]
             Rec(f) == [i \in 1 .. N |-> IF i = 1 THEN s[i] ELSE Then(f[i - 1], i)]
  <1>1. \A n \in 1 .. N : s[n] \in A
    BY <1>0
  <1>2. /\ base \in A
        /\ \A a \in A, n \in 1 .. N : Then(a, n) \in A
        /\ Then(base, 1) = s[1]
    BY <1>0, <1>1
  <1>3. FlattenSeq(s) = (CHOOSE f : f = Rec(f))[N]
    BY <1>0 DEF FlattenSeq
  <1> HIDE DEF A, base, Then
  <1>4. step \in [A \X (1 .. N) -> A]
    BY <1>2
  <1>5. \A a \in A, n \in 1 .. N : step[<<a, n>>] = Then(a, n)
    OBVIOUS
  <1> HIDE DEF step
  <1>6. PICK g \in [0 .. N -> A] : Iterates(g, N, base, step)
    <2>1. N \in Nat /\ base \in A
      BY <1>0, <1>2
    <2>2. QED
      BY <1>4, <2>1, Recursion
  <1>7. ASSUME NEW n \in 1 .. N
        PROVE  g[n] = Then(g[n - 1], n)
    <2>1. n - 1 \in 0 .. N
      BY <1>0
    <2>2. g[n - 1] \in A
      BY <1>6, <2>1
    <2>3. QED
      BY <1>5, <1>6, <2>2 DEF Iterates
  <1> DEFINE h == [i \in 1 .. N |-> g[i]]
  <1>8. \A i \in 1 .. N : h[i] = IF i = 1 THEN s[i] ELSE Then(h[i - 1], i)
    BY <1>0, <1>2, <1>6, <1>7 DEF Iterates
  <1>9. h = Rec(h)
    BY <1>8
  <1> DEFINE f == CHOOSE x : x = Rec(x)
  <1> HIDE DEF h
  <1>10. f = Rec(f)
    BY <1>9
  <1> HIDE DEF f
  <1>11. /\ f = [i \in 1 .. N |-> f[i]]
         /\ f[1] = s[1]
         /\ \A n \in 2 .. N : f[n] = Then(f[n - 1], n)
    BY <1>0, <1>10
  <1> DEFINE T == {n \in 0 .. N : n = 0 \/ f[n] \in A}
  <1>12. ASSUME NEW n \in 1 .. N, n - 1 \in T
         PROVE  n \in T
    <2>1. CASE n = 1
      <3>1. f[n] \in A
        BY <1>1, <1>11, <2>1, Zenon
      <3>2. QED
        BY <1>0, <3>1
    <2>2. CASE n # 1
      <3>1. f[n - 1] \in A /\ n \in 2 .. N
        BY <1>0, <1>12, <2>2
      <3>2. f[n] = Then(f[n - 1], n) /\ f[n] \in A
        BY <1>2, <1>11, <3>1
      <3>3. QED
        BY <1>0, <3>2
    <2>3. QED
      BY <2>1, <2>2
  <1>13. 0 \in T
    BY <1>0
  <1> HIDE DEF T
  <1>14. \A n \in 0 .. N : n \in T
    BY <1>0, <1>12, <1>13, SetInduction
  <1>15. \A n \in 1 .. N : f[n] \in A
    BY <1>14 DEF T
  <1>16. f \in [1 .. N -> A]
    BY <1>11, <1>15
  <1>17. FlattenSeq(s) = f[N]
    BY <1>3 DEF f
  <1>18. QED
    <2>1. Parts(f, s, S)
      BY <1>0, <1>11, <1>16 DEF Parts, A, Then
    <2>2. QED
      BY <1>0, <1>17, <2>1

\* A batch added at the end adds its messages at the end.
LEMMA FlattenAppend ==
  ASSUME NEW S, NEW s \in Seq(Seq(S)), NEW x \in Seq(S)
  PROVE  /\ FlattenSeq(s) \in Seq(S)
         /\ FlattenSeq(Append(s, x)) = FlattenSeq(s) \o x
  <1>0. PICK N \in Nat : N = Len(s)
    OBVIOUS
  <1> DEFINE t == Append(s, x)
  <1>1. /\ N \in Nat /\ t \in Seq(Seq(S)) /\ Len(t) = N + 1
        /\ t[N + 1] = x /\ \A n \in 1 .. N : t[n] = s[n]
    BY <1>0
  <1> HIDE DEF t
  <1>2. PICK g : Parts(g, t, S) /\ FlattenSeq(t) = g[N + 1]
    <2>1. Len(t) > 0
      BY <1>0, <1>1
    <2>2. QED
      BY <1>1, <2>1, FlattenParts
  <1>3. CASE N = 0
    <2>1. s = <<>>
      BY <1>0, <1>3, EmptySeq
    <2>2. Len(<<>>) = 0
      OBVIOUS
    <2>3. FlattenSeq(s) = <<>>
      BY <2>1, <2>2 DEF FlattenSeq
    <2>4. FlattenSeq(t) = x
      BY <1>1, <1>2, <1>3 DEF Parts
    <2>5. QED
      BY <2>3, <2>4 DEF t
  <1>4. CASE N # 0
    <2>1. PICK f : Parts(f, s, S) /\ FlattenSeq(s) = f[N]
      <3>1. Len(s) > 0
        BY <1>0, <1>4
      <3>2. QED
        BY <1>0, <3>1, FlattenParts
    <2> DEFINE T == {n \in 0 .. N : n = 0 \/ f[n] = g[n]}
    <2>2. 0 \in T
      BY <1>0
    <2>3. ASSUME NEW n \in 1 .. N, n - 1 \in T
          PROVE  n \in T
      <3>1. CASE n = 1
        BY <1>0, <1>1, <1>2, <2>1, <3>1 DEF Parts
      <3>2. CASE n # 1
        <4>1. f[n - 1] = g[n - 1] /\ n \in 2 .. N /\ n \in 2 .. N + 1
          BY <1>0, <2>3, <3>2
        <4>2. f[n] = f[n - 1] \o s[n] /\ g[n] = g[n - 1] \o t[n] /\ s[n] = t[n]
          BY <1>0, <1>1, <1>2, <2>1, <4>1 DEF Parts
        <4>3. f[n] = g[n]
          BY <4>1, <4>2, Zenon
        <4>4. QED
          BY <1>0, <4>3
      <3>3. QED
        BY <3>1, <3>2
    <2> HIDE DEF T
    <2>4. N \in 0 .. N /\ \A n \in 0 .. N : n \in T
      <3>1. N \in Nat /\ N \in 0 .. N
        BY <1>0
      <3>2. QED
        BY <2>2, <2>3, <3>1, SetInduction
    <2>5. f[N] = g[N]
      BY <1>0, <1>4, <2>4 DEF T
    <2>6. PICK m \in 2 .. Len(t) : m = N + 1 /\ m - 1 = N
      BY <1>0, <1>1, <1>4
    <2>7. g[N + 1] = g[N] \o x
      <3>1. g[m] = g[m - 1] \o t[m]
        BY <1>2, <2>6 DEF Parts
      <3>2. QED
        BY <1>1, <2>6, <3>1, Zenon
    <2>8. f[N] \in Seq(S)
      <3>1. N \in 1 .. N
        BY <1>0, <1>4
      <3>2. QED
        BY <1>0, <2>1, <3>1, Zenon DEF Parts
    <2>9. QED
      BY <1>2, <2>1, <2>5, <2>7, <2>8, Zenon DEF t
  <1>5. QED
    BY <1>3, <1>4
=============================================================================

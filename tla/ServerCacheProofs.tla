------------------------- MODULE ServerCacheProofs -------------------------
(***************************************************************************)
(* Proofs about the caches of the server: the containers of InMemoryCache  *)
(* agree, its list is in the order of use, and both caches implement the   *)
(* store that Backendify relies on.                                        *)
(***************************************************************************)
EXTENDS ServerCache, SequenceLemmas

-----------------------------------------------------------------------------
(* Erasing nodes from the list.                                            *)

NoDuplicates(s) == \A i, j \in 1 .. Len(s) : s[i] = s[j] => i = j

\* e is the part of the first n elements of s that is not in ks, in the same order.
Filtered(e, s, ks, n) ==
  /\ \A i \in 1 .. Len(e) : e[i] \notin ks /\ \E h \in 1 .. n : s[h] = e[i]
  /\ \A h \in 1 .. n : s[h] \notin ks => \E i \in 1 .. Len(e) : e[i] = s[h]
  /\ \A h, g \in 1 .. n :
       (h < g /\ s[h] \notin ks /\ s[g] \notin ks) => Before(e, s[h], s[g])
  /\ NoDuplicates(e)

\* One more node is kept.
LEMMA FilteredAppend ==
  ASSUME NEW S, NEW s \in Seq(S), NEW ks, NoDuplicates(s), NEW n \in 1 .. Len(s),
         NEW e \in Seq(S), Filtered(e, s, ks, n - 1), s[n] \notin ks
  PROVE  Filtered(Append(e, s[n]), s, ks, n)
  <1> DEFINE x == s[n]
             E == Append(e, x)
             L == Len(e)
  <1>1. x \in S /\ n \in Nat /\ n - 1 \in Nat /\ Len(s) \in Nat
    OBVIOUS
  <1>2. /\ L \in Nat /\ Len(E) = L + 1 /\ E[L + 1] = x
        /\ \A i \in 1 .. L : E[i] = e[i]
    BY <1>1, AppendProperties
  <1> HIDE DEF E, L
  <1>3. \A i \in 1 .. L + 1 : i = L + 1 \/ i \in 1 .. L
    BY <1>2
  <1>4. \A h \in 1 .. n : h = n \/ h \in 1 .. n - 1
    BY <1>1
  <1>5. \A h \in 1 .. n - 1 : s[h] # x
    BY <1>1 DEF NoDuplicates
  <1>6. L + 1 \in 1 .. Len(E) /\ \A i \in 1 .. L : i \in 1 .. Len(E) /\ i < L + 1
    BY <1>2
  <1>7. n \in 1 .. n /\ \A h \in 1 .. n - 1 : h \in 1 .. n /\ h < n
    BY <1>1
  <1> HIDE DEF x
  <1>8. ASSUME NEW i \in 1 .. Len(E)
        PROVE  E[i] \notin ks /\ \E h \in 1 .. n : s[h] = E[i]
    <2>1. CASE i = L + 1
      BY <1>2, <1>7, <2>1 DEF x
    <2>2. CASE i \in 1 .. L
      BY <1>2, <1>7, <2>2 DEF Filtered, L
    <2>3. QED
      BY <1>2, <1>3, <2>1, <2>2
  <1>9. ASSUME NEW h \in 1 .. n, s[h] \notin ks
        PROVE  \E i \in 1 .. Len(E) : E[i] = s[h]
    <2>1. CASE h = n
      BY <1>2, <1>6, <2>1 DEF x
    <2>2. CASE h \in 1 .. n - 1
      <3>1. PICK i \in 1 .. L : e[i] = s[h]
        BY <1>9, <2>2 DEF Filtered, L
      <3>2. QED
        BY <1>2, <1>6, <3>1
    <2>3. QED
      BY <1>4, <2>1, <2>2
  <1>10. ASSUME NEW h \in 1 .. n, NEW g \in 1 .. n, h < g, s[h] \notin ks, s[g] \notin ks
         PROVE  Before(E, s[h], s[g])
    <2>1. h \in 1 .. n - 1
      BY <1>1, <1>10
    <2>2. CASE g = n
      <3>1. PICK i \in 1 .. L : e[i] = s[h]
        BY <1>10, <2>1 DEF Filtered, L
      <3>2. E[i] = s[h] /\ E[L + 1] = s[g] /\ i < L + 1 /\ i \in 1 .. Len(E) /\ L + 1 \in 1 .. Len(E)
        BY <1>2, <1>6, <2>2, <3>1 DEF x
      <3>3. QED
        BY <3>2, Zenon DEF Before
    <2>3. CASE g \in 1 .. n - 1
      <3>1. Before(e, s[h], s[g])
        BY <1>10, <2>1, <2>3 DEF Filtered
      <3>2. PICK i, j \in 1 .. L : i < j /\ e[i] = s[h] /\ e[j] = s[g]
        BY <3>1 DEF Before, L
      <3>3. i \in 1 .. Len(E) /\ j \in 1 .. Len(E) /\ i < j /\ E[i] = s[h] /\ E[j] = s[g]
        BY <1>2, <1>6, <3>2
      <3>4. QED
        BY <3>3, Zenon DEF Before
    <2>4. QED
      BY <1>4, <2>2, <2>3
  <1>11. ASSUME NEW i \in 1 .. Len(E), NEW j \in 1 .. Len(E), E[i] = E[j]
         PROVE  i = j
    <2>1. \A l \in 1 .. L : e[l] # x
      BY <1>5 DEF Filtered, L
    <2>2. CASE i \in 1 .. L /\ j \in 1 .. L
      BY <1>2, <1>11, <2>2 DEF Filtered, NoDuplicates, L
    <2>3. CASE i = L + 1 \/ j = L + 1
      BY <1>2, <1>3, <1>11, <2>1, <2>3
    <2>4. QED
      BY <1>2, <1>3, <2>2, <2>3
  <1>12. Filtered(E, s, ks, n)
    BY <1>8, <1>9, <1>10, <1>11 DEF Filtered, NoDuplicates
  <1>13. QED
    BY <1>12 DEF E, x

\* Erased keeps what is not in ks, in order.
LEMMA ErasedIsFiltered ==
  ASSUME NEW S, NEW s \in Seq(S), NEW ks, NoDuplicates(s)
  PROVE  Erased(s, ks) \in Seq(S) /\ Filtered(Erased(s, ks), s, ks, Len(s))
  <1>0. PICK N \in Nat : N = Len(s)
    OBVIOUS
  <1> DEFINE A == Seq(S)
             base == <<>>
             Keep(a, n) == IF s[n] \in ks THEN a ELSE Append(a, s[n])
             step == [p \in A \X (1 .. N) |-> Keep(p[1], p[2])]
             Rec(f) == [n \in 0 .. N |-> IF n = 0 THEN base ELSE Keep(f[n - 1], n)]
  <1>1. \A n \in 1 .. N : s[n] \in S
    BY <1>0
  <1>2. base \in A /\ \A a \in A, n \in 1 .. N : Keep(a, n) \in A
    BY <1>1, AppendProperties
  <1>3. Erased(s, ks) = (CHOOSE f : f = Rec(f))[N]
    BY <1>0 DEF Erased
  <1>4. Filtered(base, s, ks, 0)
    <2>1. Len(base) = 0 /\ 1 .. 0 = {}
      OBVIOUS
    <2>2. QED
      BY <2>1 DEF Filtered, NoDuplicates
  <1> HIDE DEF A, base, Keep
  <1>5. step \in [A \X (1 .. N) -> A]
    BY <1>2
  <1>6. \A a \in A, n \in 1 .. N : step[<<a, n>>] = Keep(a, n)
    OBVIOUS
  <1> HIDE DEF step
  <1>7. PICK g \in [0 .. N -> A] : Iterates(g, N, base, step)
    <2>1. N \in Nat /\ base \in A
      BY <1>0, <1>2
    <2>2. QED
      BY <1>5, <2>1, Recursion
  <1>8. g = Rec(g)
    <2>1. ASSUME NEW n \in 1 .. N
          PROVE  g[n] = Keep(g[n - 1], n)
      <3>1. n - 1 \in 0 .. N
        BY <1>0
      <3>2. g[n - 1] \in A
        BY <1>7, <3>1
      <3>3. QED
        BY <1>6, <1>7, <3>2 DEF Iterates
    <2>2. g[0] = base
      BY <1>7 DEF Iterates
    <2>3. \A n \in 0 .. N : g[n] = IF n = 0 THEN base ELSE Keep(g[n - 1], n)
      BY <1>0, <2>1, <2>2
    <2>4. QED
      BY <1>7, <2>3
  <1> DEFINE f == CHOOSE x : x = Rec(x)
  <1>9. f = Rec(f)
    BY <1>8
  <1> HIDE DEF f
  <1>10. f[0] = base /\ \A n \in 1 .. N : f[n] = Keep(f[n - 1], n)
    <2>1. 0 \in 0 .. N /\ \A n \in 1 .. N : n \in 0 .. N /\ n # 0
      BY <1>0
    <2>2. QED
      BY <1>9, <2>1
  <1> DEFINE T == {n \in 0 .. N : f[n] \in A /\ Filtered(f[n], s, ks, n)}
  <1>11. 0 \in T
    BY <1>0, <1>2, <1>4, <1>10
  <1>12. ASSUME NEW n \in 1 .. N, n - 1 \in T
         PROVE  n \in T
    <2>1. f[n - 1] \in A /\ Filtered(f[n - 1], s, ks, n - 1) /\ n \in 0 .. N
      BY <1>0, <1>12
    <2>2. f[n] = Keep(f[n - 1], n) /\ f[n] \in A
      BY <1>2, <1>10, <2>1
    <2>3. CASE s[n] \in ks
      <3>1. f[n] = f[n - 1]
        BY <2>2, <2>3 DEF Keep
      <3>2. \A h \in 1 .. n : s[h] \notin ks => h \in 1 .. n - 1
        BY <1>0, <2>3
      <3>3. \A h \in 1 .. n - 1 : h \in 1 .. n
        BY <1>0
      <3>4. Filtered(f[n - 1], s, ks, n)
        BY <2>1, <3>2, <3>3 DEF Filtered
      <3>5. QED
        BY <2>1, <2>2, <3>1, <3>4, Zenon
    <2>4. CASE s[n] \notin ks
      <3>1. f[n] = Append(f[n - 1], s[n])
        BY <2>2, <2>4 DEF Keep
      <3>2. n \in 1 .. Len(s)
        BY <1>0
      <3>3. Filtered(Append(f[n - 1], s[n]), s, ks, n)
        BY <2>1, <2>4, <3>2, FilteredAppend DEF A
      <3>4. QED
        BY <2>1, <2>2, <3>1, <3>3, Zenon
    <2>5. QED
      BY <2>3, <2>4
  <1> HIDE DEF T
  <1>13. N \in T
    <2>1. N \in Nat /\ N \in 0 .. N
      BY <1>0
    <2>2. QED
      BY <1>11, <1>12, <2>1, SetInduction
  <1>14. QED
    BY <1>0, <1>3, <1>13 DEF f, T, A

\* The keys of the nodes that are left, and their order.
LEMMA ErasedProperties ==
  ASSUME NEW S, NEW s \in Seq(S), NEW ks, NoDuplicates(s)
  PROVE  /\ Erased(s, ks) \in Seq(S)
         /\ NoDuplicates(Erased(s, ks))
         /\ ToSet(Erased(s, ks)) = ToSet(s) \ ks
         /\ \A a, b : (Before(s, a, b) /\ a \notin ks /\ b \notin ks)
                        => Before(Erased(s, ks), a, b)
  <1> DEFINE e == Erased(s, ks)
  <1>1. e \in Seq(S) /\ Filtered(e, s, ks, Len(s))
    BY ErasedIsFiltered
  <1> HIDE DEF e
  <1>2. DOMAIN e = 1 .. Len(e) /\ DOMAIN s = 1 .. Len(s)
    BY <1>1
  <1>3. ToSet(e) = ToSet(s) \ ks
    BY <1>1, <1>2 DEF Filtered, ToSet
  <1>4. NoDuplicates(e)
    BY <1>1 DEF Filtered
  <1>5. ASSUME NEW a, NEW b, Before(s, a, b), a \notin ks, b \notin ks
        PROVE  Before(e, a, b)
    <2>1. PICK h, g \in 1 .. Len(s) : h < g /\ s[h] = a /\ s[g] = b
      BY <1>5 DEF Before
    <2>2. QED
      BY <1>1, <1>5, <2>1 DEF Filtered
  <1>6. QED
    BY <1>1, <1>3, <1>4, <1>5 DEF e

\* A list without duplicates is as long as its set of keys is large.
LEMMA ListCardinality ==
  ASSUME NEW S, NEW s \in Seq(S), NoDuplicates(s)
  PROVE  IsFiniteSet(ToSet(s)) /\ Cardinality(ToSet(s)) = Len(s)
  <1>1. Len(s) \in Nat /\ DOMAIN s = 1 .. Len(s)
    OBVIOUS
  <1>2. s \in Surjection(1 .. Len(s), ToSet(s)) /\ s \in Injection(1 .. Len(s), ToSet(s))
    BY <1>1 DEF Surjection, Injection, IsInjective, ToSet, NoDuplicates
  <1>3. IsFiniteSet(1 .. Len(s)) /\ Cardinality(1 .. Len(s)) = Len(s)
    BY <1>1, FS_Interval
  <1>4. QED
    BY <1>2, <1>3, FS_Surjection

\* A key that is not in the list is put in front of it.
LEMMA PrependProperties ==
  ASSUME NEW S, NEW e \in Seq(S), NoDuplicates(e), NEW k \in S, k \notin ToSet(e)
  PROVE  /\ <<k>> \o e \in Seq(S)
         /\ Len(<<k>> \o e) = Len(e) + 1
         /\ (<<k>> \o e)[1] = k
         /\ NoDuplicates(<<k>> \o e)
         /\ ToSet(<<k>> \o e) = ToSet(e) \cup {k}
         /\ \A a, b : Before(e, a, b) => Before(<<k>> \o e, a, b)
         /\ \A b \in ToSet(e) : Before(<<k>> \o e, k, b)
  <1> DEFINE p == <<k>> \o e
  <1>0. PICK L \in Nat : L = Len(e)
    OBVIOUS
  <1>1. p \in Seq(S) /\ Len(p) = L + 1 /\ p[1] = k
    BY <1>0
  <1>2. \A i \in 1 .. L : p[i + 1] = e[i]
    BY <1>0
  <1> HIDE DEF p
  <1>3. DOMAIN e = 1 .. L /\ DOMAIN p = 1 .. L + 1
    BY <1>0, <1>1, LenProperties
  <1>4. /\ 1 \in 1 .. L + 1
        /\ \A i \in 1 .. L : i + 1 \in 1 .. L + 1 /\ 1 < i + 1
        /\ \A i \in 1 .. L + 1 : i = 1 \/ (i - 1 \in 1 .. L /\ i = (i - 1) + 1)
    BY <1>0
  <1>5. \A i \in 1 .. L : e[i] \in ToSet(e) /\ e[i] # k
    BY <1>3 DEF ToSet
  <1>6. ToSet(p) = ToSet(e) \cup {k}
    <2>1. ASSUME NEW x \in ToSet(p) PROVE x \in ToSet(e) \cup {k}
      <3>1. PICK i \in 1 .. L + 1 : x = p[i]
        BY <1>3 DEF ToSet
      <3>2. QED
        BY <1>1, <1>2, <1>4, <1>5, <3>1
    <2>2. ASSUME NEW x \in ToSet(e) PROVE x \in ToSet(p)
      <3>1. PICK i \in 1 .. L : x = e[i]
        BY <1>3 DEF ToSet
      <3>2. p[i + 1] = x /\ i + 1 \in DOMAIN p
        BY <1>2, <1>3, <1>4, <3>1
      <3>3. QED
        BY <3>2 DEF ToSet
    <2>3. k \in ToSet(p)
      BY <1>1, <1>3, <1>4 DEF ToSet
    <2>4. QED
      BY <2>1, <2>2, <2>3
  <1>7. NoDuplicates(p)
    <2>1. ASSUME NEW i \in 1 .. L + 1, NEW j \in 1 .. L + 1, p[i] = p[j]
          PROVE  i = j
      <3>1. CASE i = 1 \/ j = 1
        <4>1. ASSUME NEW g \in 1 .. L + 1, g # 1
              PROVE  p[g] # k
          <5>1. g - 1 \in 1 .. L /\ g = (g - 1) + 1
            BY <1>4, <4>1
          <5>2. QED
            BY <1>2, <1>5, <5>1
        <4>2. QED
          BY <1>1, <2>1, <3>1, <4>1
      <3>2. CASE i # 1 /\ j # 1
        <4>1. i - 1 \in 1 .. L /\ j - 1 \in 1 .. L /\ e[i - 1] = e[j - 1]
          BY <1>2, <1>4, <2>1, <3>2
        <4>2. i - 1 = j - 1
          BY <1>0, <4>1 DEF NoDuplicates
        <4>3. QED
          BY <1>0, <4>2
      <3>3. QED
        BY <3>1, <3>2
    <2>2. QED
      BY <1>1, <2>1 DEF NoDuplicates
  <1>8. ASSUME NEW a, NEW b, Before(e, a, b)
        PROVE  Before(p, a, b)
    <2>1. PICK i, j \in 1 .. L : i < j /\ e[i] = a /\ e[j] = b
      BY <1>0, <1>8 DEF Before
    <2>2. /\ i + 1 \in 1 .. Len(p) /\ j + 1 \in 1 .. Len(p) /\ i + 1 < j + 1
          /\ p[i + 1] = a /\ p[j + 1] = b
      BY <1>0, <1>1, <1>2, <1>4, <2>1
    <2>3. QED
      BY <2>2, Zenon DEF Before
  <1>9. ASSUME NEW b \in ToSet(e)
        PROVE  Before(p, k, b)
    <2>1. PICK j \in 1 .. L : e[j] = b
      BY <1>3 DEF ToSet
    <2>2. /\ 1 \in 1 .. Len(p) /\ j + 1 \in 1 .. Len(p) /\ 1 < j + 1
          /\ p[1] = k /\ p[j + 1] = b
      BY <1>1, <1>2, <1>4, <2>1
    <2>3. QED
      BY <2>2, Zenon DEF Before
  <1>10. QED
    BY <1>0, <1>1, <1>6, <1>7, <1>8, <1>9 DEF p

\* Nodes are taken from the back of the list.
LEMMA PrefixProperties ==
  ASSUME NEW S, NEW s \in Seq(S), NoDuplicates(s), NEW n \in 0 .. Len(s)
  PROVE  /\ SubSeq(s, 1, n) \in Seq(S)
         /\ Len(SubSeq(s, 1, n)) = n
         /\ NoDuplicates(SubSeq(s, 1, n))
         /\ ToSet(SubSeq(s, 1, n)) \subseteq ToSet(s)
         /\ \A a, b : (Before(s, a, b) /\ b \in ToSet(SubSeq(s, 1, n)))
                        => Before(SubSeq(s, 1, n), a, b)
  <1> DEFINE p == SubSeq(s, 1, n)
  <1>0. PICK L \in Nat : L = Len(s) /\ DOMAIN s = 1 .. L
    BY LenProperties
  <1>1. n \in Nat /\ n <= L /\ \A i \in 1 .. n : i \in 1 .. L
    BY <1>0
  <1>2. p \in Seq(S) /\ Len(p) = n /\ \A i \in 1 .. n : p[i] = s[i]
    <2>1. \A i \in 1 .. n : s[i] \in S
      BY <1>0, <1>1
    <2>2. /\ p \in Seq(S) /\ Len(p) = IF 1 <= n THEN n - 1 + 1 ELSE 0
          /\ \A i \in 1 .. n - 1 + 1 : p[i] = s[1 + i - 1]
      BY <1>1, <2>1, SubSeqProperties
    <2> HIDE DEF p
    <2>3. QED
      BY <1>1, <2>2
  <1> HIDE DEF p
  <1>3. DOMAIN p = 1 .. n
    BY <1>2, LenProperties
  <1>4. NoDuplicates(p)
    BY <1>0, <1>1, <1>2 DEF NoDuplicates
  <1>5. ToSet(p) \subseteq ToSet(s)
    BY <1>0, <1>1, <1>2, <1>3 DEF ToSet
  <1>6. ASSUME NEW a, NEW b, Before(s, a, b), b \in ToSet(p)
        PROVE  Before(p, a, b)
    <2>1. PICK i, j \in 1 .. L : i < j /\ s[i] = a /\ s[j] = b
      BY <1>0, <1>6 DEF Before
    <2>2. PICK g \in 1 .. n : p[g] = b
      BY <1>3, <1>6 DEF ToSet
    <2>3. g = j
      BY <1>0, <1>1, <1>2, <2>1, <2>2 DEF NoDuplicates
    <2>4. i \in 1 .. Len(p) /\ j \in 1 .. Len(p) /\ i < j /\ p[i] = a /\ p[j] = b
      BY <1>1, <1>2, <2>1, <2>2, <2>3
    <2>5. QED
      BY <2>4, Zenon DEF Before
  <1>7. QED
    BY <1>2, <1>4, <1>5, <1>6 DEF p

-----------------------------------------------------------------------------
(* The inductive invariant of InMemoryCache.                               *)

SizeLimit == IF MaxSize = 0 THEN 1 ELSE MaxSize

\* The three containers hold the same keys, the list each of them once.
Agree ==
  /\ lru_map_ = {k \in Keys : cache_[k] # None}
  /\ ToSet(lru_list_) = lru_map_
  /\ NoDuplicates(lru_list_)

\* The key that was used last is the first of the list.
TouchedFirst == touched # None => lru_list_[1] = touched

Inv ==
  /\ TypeOK
  /\ Agree
  /\ Len(lru_list_) <= SizeLimit
  /\ TouchedFirst

\* The invariant implies the properties that the run checks.
LEMMA InvImplies == Inv => TypeOK /\ ContainersAgree /\ SizeBounded
  <1> SUFFICES ASSUME Inv PROVE TypeOK /\ ContainersAgree /\ SizeBounded
    OBVIOUS
  <1>1. TypeOK /\ Agree /\ Len(lru_list_) <= SizeLimit
    BY DEF Inv
  <1>2. Cardinality(lru_map_) = Len(lru_list_)
    BY <1>1, ListCardinality DEF TypeOK, Agree
  <1>3. QED
    BY <1>1, <1>2 DEF Agree, ContainersAgree, SizeBounded, SizeLimit

\* The cache starts empty.
LEMMA MemoryInit == Init => Inv /\ Store!StoreInit /\ Store!NothingAsked
  <1> SUFFICES ASSUME Init PROVE Inv /\ Store!StoreInit /\ Store!NothingAsked
    OBVIOUS
  <1>0. cache_ = [k \in Keys |-> None] /\ lru_list_ = <<>> /\ lru_map_ = {} /\ now = 0
        /\ reply = None /\ touched = None
    BY DEF Init
  <1>1. TypeOK
    <2>1. <<>> \in Seq(Keys) /\ 0 \in 0 .. MaxTime
      BY InMemoryCacheAssumption
    <2>2. QED
      BY <1>0, <2>1 DEF TypeOK
  <1>2. Len(<<>>) = 0 /\ DOMAIN <<>> = {} /\ 1 .. 0 = {}
    OBVIOUS
  <1>3. Agree
    BY <1>0, <1>2 DEF Agree, ToSet, NoDuplicates
  <1>4. Len(lru_list_) <= SizeLimit /\ TouchedFirst
    BY <1>0, <1>2, InMemoryCacheAssumption DEF SizeLimit, TouchedFirst
  <1>5. Store!StoreInit /\ Store!NothingAsked
    BY <1>0 DEF Init, Store!StoreInit, Store!NothingAsked
  <1>6. QED
    BY <1>1, <1>3, <1>4, <1>5 DEF Inv

-----------------------------------------------------------------------------
(* set.                                                                    *)

\* The list without the old node of the key, or with room for a new one.
Kept(k) ==
  IF k \in lru_map_ THEN Erased(lru_list_, {k})
  ELSE SubSeq(lru_list_, 1, Len(lru_list_) - Evictions)

\* What is left has room for one more node, and is in order.
LEMMA KeptProperties ==
  ASSUME Inv, NEW k \in Keys
  PROVE  /\ Kept(k) \in Seq(Keys) /\ NoDuplicates(Kept(k))
         /\ k \notin ToSet(Kept(k)) /\ ToSet(Kept(k)) \subseteq lru_map_
         /\ Len(Kept(k)) + 1 <= SizeLimit
         /\ k \in lru_map_ => ToSet(Kept(k)) = lru_map_ \ {k}
         /\ \A a, b : (Before(lru_list_, a, b) /\ b \in ToSet(Kept(k)) /\ a # k)
                        => Before(Kept(k), a, b)
  <1>1. /\ lru_list_ \in Seq(Keys) /\ NoDuplicates(lru_list_) /\ ToSet(lru_list_) = lru_map_
        /\ Len(lru_list_) \in Nat /\ Len(lru_list_) <= SizeLimit
    BY DEF Inv, TypeOK, Agree
  <1>2. IsFiniteSet(lru_map_) /\ Cardinality(lru_map_) = Len(lru_list_)
    BY <1>1, ListCardinality
  <1>3. CASE k \in lru_map_
    <2> DEFINE p == Erased(lru_list_, {k})
    <2>1. Kept(k) = p
      BY <1>3 DEF Kept
    <2>2. /\ p \in Seq(Keys) /\ NoDuplicates(p) /\ ToSet(p) = ToSet(lru_list_) \ {k}
          /\ \A a, b : (Before(lru_list_, a, b) /\ a \notin {k} /\ b \notin {k})
                         => Before(p, a, b)
      BY <1>1, ErasedProperties
    <2> HIDE DEF p
    <2>3. Len(p) = Cardinality(lru_map_ \ {k})
      BY <1>1, <2>2, ListCardinality
    <2>4. Cardinality(lru_map_ \ {k}) = Cardinality(lru_map_) - 1
      BY <1>2, <1>3, FS_RemoveElement
    <2>5. Len(p) + 1 <= SizeLimit
      BY <1>1, <1>2, <2>3, <2>4
    <2>6. QED
      BY <1>1, <2>1, <2>2, <2>5, Zenon
  <1>4. CASE k \notin lru_map_
    <2> DEFINE n == Len(lru_list_) - Evictions
               p == SubSeq(lru_list_, 1, n)
    <2>1. Kept(k) = p
      BY <1>4 DEF Kept
    <2>2. n \in 0 .. Len(lru_list_) /\ n + 1 <= SizeLimit
      <3>1. PICK L \in Nat : L = Len(lru_list_) /\ L = Cardinality(lru_map_)
        BY <1>1, <1>2
      <3>2. Evictions = IF L + 1 <= MaxSize THEN 0
                        ELSE IF (L + 1) - MaxSize < L THEN (L + 1) - MaxSize ELSE L
        BY <3>1 DEF Evictions
      <3>3. L <= SizeLimit /\ MaxSize \in Nat
        BY <1>1, <3>1, InMemoryCacheAssumption
      <3>4. n = L - Evictions
        BY <3>1
      <3> HIDE DEF n
      <3>5. n \in 0 .. L /\ n + 1 <= SizeLimit
        BY <3>1, <3>2, <3>3, <3>4 DEF SizeLimit
      <3>6. QED
        BY <3>1, <3>5
    <2> HIDE DEF n
    <2>3. /\ p \in Seq(Keys) /\ NoDuplicates(p) /\ ToSet(p) \subseteq ToSet(lru_list_)
          /\ Len(p) = n
          /\ \A a, b : (Before(lru_list_, a, b) /\ b \in ToSet(p)) => Before(p, a, b)
      BY <1>1, <2>2, PrefixProperties
    <2> HIDE DEF p
    <2>4. QED
      BY <1>1, <1>4, <2>1, <2>2, <2>3
  <1>5. QED
    BY <1>3, <1>4

\* set keeps the containers together, evicts what was used least recently and
\* is the Set of the store.
LEMMA MemorySet ==
  ASSUME Inv, NEW k \in Keys, NEW v \in Values, NEW ttl \in TtlArgs, set(k, v, ttl)
  PROVE  Inv' /\ UseOrderKept /\ Store!Set(k, v, effective_ttl(ttl))
  <1> DEFINE kept == Kept(k)
             gone == lru_map_ \ (ToSet(kept) \cup {k})
             entry == [value |-> v, expiry |-> now + effective_ttl(ttl)]
  <1>1. /\ lru_list_ \in Seq(Keys) /\ ToSet(lru_list_) = lru_map_ /\ lru_map_ \subseteq Keys
        /\ lru_map_ = {x \in Keys : cache_[x] # None}
        /\ cache_ \in [Keys -> CacheEntry \cup {None}] /\ now \in 0 .. MaxTime
    BY DEF Inv, TypeOK, Agree
  <1>2. /\ cache_' = [Dropped(gone) EXCEPT ![k] = entry]
        /\ lru_list_' = <<k>> \o kept
        /\ lru_map_' = (lru_map_ \ gone) \cup {k}
        /\ reply' = TRUE /\ touched' = k /\ now' = now
    BY <1>1 DEF set, Kept
  <1>3. /\ kept \in Seq(Keys) /\ NoDuplicates(kept)
        /\ k \notin ToSet(kept) /\ ToSet(kept) \subseteq lru_map_
        /\ Len(kept) + 1 <= SizeLimit
        /\ k \in lru_map_ => ToSet(kept) = lru_map_ \ {k}
        /\ \A a, b : (Before(lru_list_, a, b) /\ b \in ToSet(kept) /\ a # k)
                       => Before(kept, a, b)
    BY KeptProperties
  <1> HIDE DEF kept
  <1>4. /\ lru_list_' \in Seq(Keys) /\ Len(lru_list_') = Len(kept) + 1
        /\ lru_list_'[1] = k /\ NoDuplicates(lru_list_')
        /\ ToSet(lru_list_') = ToSet(kept) \cup {k}
        /\ \A a, b : Before(kept, a, b) => Before(lru_list_', a, b)
        /\ \A b \in ToSet(kept) : Before(lru_list_', k, b)
    BY <1>2, <1>3, PrependProperties
  <1>5. entry \in CacheEntry /\ entry # None
    <2>1. effective_ttl(ttl) \in Nat
      BY InMemoryCacheAssumption DEF effective_ttl
    <2>2. now + effective_ttl(ttl) \in Nat
      BY <1>1, <2>1, InMemoryCacheAssumption
    <2> HIDE DEF entry
    <2>3. entry \in CacheEntry
      BY <2>2 DEF entry, CacheEntry
    <2>4. QED
      BY <2>3, InMemoryCacheAssumption
  <1>6. /\ lru_map_' = ToSet(lru_list_') /\ lru_map_' \subseteq Keys
        /\ gone \subseteq Keys \ {k}
    BY <1>1, <1>2, <1>3, <1>4
  <1>7. /\ cache_' \in [Keys -> CacheEntry \cup {None}]
        /\ \A x \in Keys : cache_'[x] = IF x = k THEN entry
                                       ELSE IF x \in gone THEN None ELSE cache_[x]
    <2> HIDE DEF entry, gone
    <2>1. Dropped(gone) \in [Keys -> CacheEntry \cup {None}]
      BY <1>1 DEF Dropped
    <2>2. QED
      BY <1>1, <1>2, <1>5, <2>1 DEF Dropped
  <1> HIDE DEF entry
  <1>8. lru_map_' = {x \in Keys : cache_'[x] # None}
    BY <1>1, <1>2, <1>5, <1>6, <1>7
  <1>9. Inv'
    <2>1. TypeOK'
      <3>1. now' \in 0 .. MaxTime /\ touched' \in Keys \cup {None}
        BY <1>1, <1>2
      <3>2. reply' \in Values \cup BOOLEAN \cup {None}
        BY <1>2, Zenon
      <3>3. QED
        BY <1>4, <1>6, <1>7, <3>1, <3>2, Zenon DEF TypeOK
    <2>2. Agree'
      BY <1>4, <1>6, <1>8, Zenon DEF Agree, NoDuplicates
    <2>3. (Len(lru_list_) <= SizeLimit)' /\ TouchedFirst'
      BY <1>2, <1>3, <1>4 DEF TouchedFirst, SizeLimit
    <2>4. QED
      BY <2>1, <2>2, <2>3, Zenon DEF Inv
  <1>10. UseOrderKept
    <2>1. ASSUME NEW a \in ToSet(lru_list_), NEW b \in ToSet(lru_list_),
                 Before(lru_list_, a, b), b \in ToSet(lru_list_'), b # touched'
          PROVE  Before(lru_list_', a, b)
      <3>1. b \in ToSet(kept)
        BY <1>2, <1>4, <2>1
      <3>2. CASE a = k
        BY <1>4, <3>1, <3>2
      <3>3. CASE a # k
        BY <1>3, <1>4, <2>1, <3>1, <3>3
      <3>4. QED
        BY <3>2, <3>3
    <2>2. touched' # None => lru_list_'[1] = touched'
      BY <1>2, <1>4
    <2>3. QED
      BY <2>1, <2>2, Zenon DEF UseOrderKept
  <1>11. Store!Set(k, v, effective_ttl(ttl))
    <2>1. gone \in IF cache_[k] = None THEN SUBSET (Keys \ {k}) ELSE {{}}
      <3>1. CASE cache_[k] = None
        BY <1>6, <3>1
      <3>2. CASE cache_[k] # None
        <4>1. gone = {}
          BY <1>1, <1>3, <3>2
        <4>2. QED
          BY <3>2, <4>1, Zenon
      <3>3. QED
        BY <3>1, <3>2
    <2>2. cache_' = [Store!Forget(gone) EXCEPT
                       ![k] = [value |-> v, expiry |-> now + effective_ttl(ttl)]]
      BY <1>2, Zenon DEF Dropped, Store!Forget, entry
    <2>3. reply' \in {TRUE, ~FALSE}
      BY <1>2, Zenon
    <2>4. Store!Ask(<<"set", k, v, effective_ttl(ttl)>>)
      BY Zenon DEF set, Ask, Store!Ask
    <2>5. QED
      BY <1>2, <2>1, <2>2, <2>3, <2>4, Zenon DEF Store!Set, Store!Put
  <1>12. QED
    BY <1>9, <1>10, <1>11

-----------------------------------------------------------------------------
(* Operations that erase.                                                  *)

\* Erasing nodes leaves a list that is in order and not longer.
LEMMA EraseProperties ==
  ASSUME Inv, NEW gone
  PROVE  /\ Erased(lru_list_, gone) \in Seq(Keys) /\ NoDuplicates(Erased(lru_list_, gone))
         /\ ToSet(Erased(lru_list_, gone)) = lru_map_ \ gone
         /\ Len(Erased(lru_list_, gone)) = Cardinality(lru_map_ \ gone)
         /\ Len(Erased(lru_list_, gone)) <= SizeLimit
         /\ \A a, b : (Before(lru_list_, a, b) /\ a \notin gone /\ b \notin gone)
                        => Before(Erased(lru_list_, gone), a, b)
  <1> DEFINE p == Erased(lru_list_, gone)
  <1>1. /\ lru_list_ \in Seq(Keys) /\ NoDuplicates(lru_list_) /\ ToSet(lru_list_) = lru_map_
        /\ Len(lru_list_) \in Nat /\ Len(lru_list_) <= SizeLimit
    BY DEF Inv, TypeOK, Agree
  <1>2. /\ p \in Seq(Keys) /\ NoDuplicates(p) /\ ToSet(p) = lru_map_ \ gone
        /\ \A a, b : (Before(lru_list_, a, b) /\ a \notin gone /\ b \notin gone)
                       => Before(p, a, b)
    BY <1>1, ErasedProperties
  <1> HIDE DEF p
  <1>3. IsFiniteSet(lru_map_) /\ Cardinality(lru_map_) = Len(lru_list_)
    BY <1>1, ListCardinality
  <1>4. Len(p) = Cardinality(lru_map_ \ gone)
    BY <1>2, ListCardinality
  <1>5. lru_map_ \ gone \in SUBSET lru_map_
    OBVIOUS
  <1>6. /\ Cardinality(lru_map_ \ gone) <= Cardinality(lru_map_)
        /\ IsFiniteSet(lru_map_ \ gone)
    BY <1>3, <1>5, FS_Subset
  <1>7. Cardinality(lru_map_ \ gone) \in Nat /\ SizeLimit \in Nat
    BY <1>6, FS_CardinalityType, InMemoryCacheAssumption DEF SizeLimit
  <1>8. Len(p) <= SizeLimit
    BY <1>1, <1>3, <1>4, <1>6, <1>7
  <1>9. QED
    BY <1>2, <1>4, <1>8 DEF p

\* Dropping the entries of the erased nodes keeps the containers together.
LEMMA DroppedType ==
  ASSUME Inv, NEW gone
  PROVE  /\ Dropped(gone) \in [Keys -> CacheEntry \cup {None}]
         /\ lru_map_ \ gone = {x \in Keys : Dropped(gone)[x] # None}
         /\ Dropped(gone) = Store!Forget(gone)
  <1>1. Dropped(gone) = Store!Forget(gone)
    BY Zenon DEF Dropped, Store!Forget
  <1>2. QED
    BY <1>1 DEF Inv, TypeOK, Agree, Dropped

\* An operation that only erases nodes, or misses.
LEMMA MemoryErase ==
  ASSUME Inv, NEW gone, cache_' = Dropped(gone), lru_map_' = lru_map_ \ gone,
         lru_list_' = Erased(lru_list_, gone), touched' = None, now' \in 0 .. MaxTime,
         reply' \in Values \cup BOOLEAN \cup {None}
  PROVE  Inv' /\ UseOrderKept
  <1>1. /\ lru_list_' \in Seq(Keys) /\ NoDuplicates(lru_list_')
        /\ ToSet(lru_list_') = lru_map_' /\ Len(lru_list_') <= SizeLimit
        /\ \A a, b : (Before(lru_list_, a, b) /\ a \notin gone /\ b \notin gone)
                       => Before(lru_list_', a, b)
    BY EraseProperties, Zenon
  <1>2. /\ cache_' \in [Keys -> CacheEntry \cup {None}]
        /\ lru_map_' = {x \in Keys : cache_'[x] # None}
    BY DroppedType
  <1>3. lru_map_' \subseteq Keys
    BY <1>2
  <1>4. TypeOK'
    BY <1>1, <1>2, <1>3, Zenon DEF TypeOK
  <1>5. Agree' /\ TouchedFirst' /\ (Len(lru_list_) <= SizeLimit)'
    BY <1>1, <1>2, Zenon DEF Agree, NoDuplicates, TouchedFirst, SizeLimit
  <1>6. UseOrderKept
    <2>1. ASSUME NEW a \in ToSet(lru_list_), NEW b \in ToSet(lru_list_),
                 Before(lru_list_, a, b), b \in ToSet(lru_list_')
          PROVE  Before(lru_list_', a, b) \/ a \notin ToSet(lru_list_')
      BY <1>1, <2>1
    <2>2. QED
      BY <2>1, Zenon DEF UseOrderKept
  <1>7. QED
    BY <1>4, <1>5, <1>6, Zenon DEF Inv

\* What has expired is no longer live; what is live has its node.
LEMMA ExpiredProperties ==
  ASSUME Inv, NEW t \in now .. MaxTime
  PROVE  /\ Expired(now) \subseteq {x \in Keys : ~Store!Live(x, t)}
         /\ Expired(now) \subseteq Expired(t)
         /\ \A k \in Keys : Store!Live(k, t) => k \in lru_map_ \ Expired(now)
         /\ t \in 0 .. MaxTime
  <1>1. now \in Nat /\ MaxTime \in Nat /\ t \in Nat /\ now <= t /\ t <= MaxTime
    BY InMemoryCacheAssumption DEF Inv, TypeOK
  <1>2. \A k \in Keys : cache_[k] # None => cache_[k].expiry \in Nat
    BY DEF Inv, TypeOK, CacheEntry
  <1>3. lru_map_ = {k \in Keys : cache_[k] # None}
    BY DEF Inv, Agree
  <1>4. ASSUME NEW k \in Expired(now)
        PROVE  k \in Keys /\ ~Store!Live(k, t) /\ k \in Expired(t)
    BY <1>1, <1>2 DEF Expired, Store!Live
  <1>5. ASSUME NEW k \in Keys, Store!Live(k, t)
        PROVE  k \in lru_map_ \ Expired(now)
    BY <1>1, <1>2, <1>3, <1>5 DEF Expired, Store!Live
  <1>6. QED
    BY <1>1, <1>4, <1>5

\* get answers what the store does, and a hit moves to the front.
LEMMA MemoryGet ==
  ASSUME Inv, NEW k \in Keys, NEW t \in now .. MaxTime, get(k, t)
  PROVE  Inv' /\ UseOrderKept /\ Store!Get(k, t)
  <1> DEFINE expired == Expired(now)
             found == k \in lru_map_ \ expired
             valid == found /\ cache_[k] # None /\ cache_[k].expiry > t
             gone == IF found /\ ~valid THEN expired \cup {k} ELSE expired
  <1>1. /\ cache_' = Dropped(gone) /\ lru_map_' = lru_map_ \ gone
        /\ lru_list_' = IF valid THEN <<k>> \o Erased(lru_list_, expired \cup {k})
                                 ELSE Erased(lru_list_, gone)
        /\ reply' = IF valid THEN cache_[k].value ELSE None
        /\ touched' = IF valid THEN k ELSE None
        /\ now' = t /\ Store!Ask(<<"get", k>>)
    BY Zenon DEF get, Ask, Store!Ask
  <1>2. /\ expired \subseteq {x \in Keys : ~Store!Live(x, t)} /\ expired \subseteq Expired(t)
        /\ Store!Live(k, t) => found
        /\ t \in 0 .. MaxTime
    BY ExpiredProperties
  <1>3. valid <=> Store!Live(k, t)
    BY <1>2 DEF Store!Live
  <1> HIDE DEF expired, valid
  <1>4. gone \subseteq {x \in Keys : ~Store!Live(x, t)}
    BY <1>2, <1>3
  <1> HIDE DEF found
  <1>5. Store!Purge(t)
    <2>1. Dropped(gone) = Store!Forget(gone)
      BY DroppedType
    <2> HIDE DEF gone
    <2>2. QED
      BY <1>1, <1>4, <2>1, Zenon DEF Store!Purge
  <1>6. CASE ~valid
    <2>1. /\ lru_list_' = Erased(lru_list_, gone) /\ reply' = None /\ touched' = None
      BY <1>1, <1>6
    <2>2. Inv' /\ UseOrderKept
      <3> HIDE DEF gone
      <3>1. QED
        BY <1>1, <1>2, <2>1, MemoryErase, Zenon
    <2>3. Store!Get(k, t)
      BY <1>1, <1>3, <1>5, <1>6, <2>1, Zenon DEF Store!Get, Store!Look
    <2>4. QED
      BY <2>2, <2>3
  <1>7. CASE valid
    <2> DEFINE kept == Erased(lru_list_, expired \cup {k})
    <2>1. /\ gone = expired /\ lru_list_' = <<k>> \o kept /\ reply' = cache_[k].value
          /\ touched' = k /\ cache_' = Dropped(expired) /\ lru_map_' = lru_map_ \ expired
      BY <1>1, <1>7
    <2>2. k \in lru_map_ \ expired
      BY <1>7 DEF valid, found
    <2>3. /\ kept \in Seq(Keys) /\ NoDuplicates(kept)
          /\ ToSet(kept) = lru_map_ \ (expired \cup {k})
          /\ Len(kept) = Cardinality(lru_map_ \ (expired \cup {k}))
          /\ \A a, b : (Before(lru_list_, a, b) /\ a \notin expired \cup {k}
                            /\ b \notin expired \cup {k}) => Before(kept, a, b)
      BY EraseProperties
    <2> HIDE DEF kept
    <2>4. /\ lru_list_' \in Seq(Keys) /\ Len(lru_list_') = Len(kept) + 1
          /\ lru_list_'[1] = k /\ NoDuplicates(lru_list_')
          /\ ToSet(lru_list_') = ToSet(kept) \cup {k}
          /\ \A a, b : Before(kept, a, b) => Before(lru_list_', a, b)
          /\ \A b \in ToSet(kept) : Before(lru_list_', k, b)
      BY <2>1, <2>3, PrependProperties
    <2>5. ToSet(lru_list_') = lru_map_'
      BY <2>1, <2>2, <2>3, <2>4
    <2>6. Len(lru_list_') <= SizeLimit
      <3>1. Len(lru_list_') = Cardinality(lru_map_ \ expired)
        BY <2>1, <2>4, <2>5, ListCardinality
      <3>2. QED
        BY <3>1, EraseProperties
    <2>7. /\ cache_' \in [Keys -> CacheEntry \cup {None}]
          /\ lru_map_' = {x \in Keys : cache_'[x] # None}
      BY <2>1, DroppedType
    <2>8. TypeOK'
      <3>1. reply' \in Values
        BY <1>7, <2>1 DEF valid, Inv, TypeOK, CacheEntry
      <3>2. lru_map_' \subseteq Keys
        BY <2>7
      <3>3. reply' \in Values \cup BOOLEAN \cup {None} /\ touched' \in Keys \cup {None}
        BY <2>1, <3>1, Zenon
      <3>4. QED
        BY <1>1, <1>2, <2>4, <2>7, <3>2, <3>3, Zenon DEF TypeOK
    <2>9. Agree' /\ TouchedFirst' /\ (Len(lru_list_) <= SizeLimit)'
      BY <2>1, <2>4, <2>5, <2>6, <2>7, Zenon DEF Agree, NoDuplicates, TouchedFirst, SizeLimit
    <2>10. UseOrderKept
      <3>1. ASSUME NEW a \in ToSet(lru_list_), NEW b \in ToSet(lru_list_),
                   Before(lru_list_, a, b), b \in ToSet(lru_list_'), b # touched'
            PROVE  \/ Before(lru_list_', a, b)
                   \/ a \notin ToSet(lru_list_') /\ a \in Expired(now')
        <4>1. b \in ToSet(kept) /\ b \notin expired \cup {k}
          BY <2>1, <2>3, <2>4, <3>1
        <4>2. CASE a = k
          BY <2>4, <4>1, <4>2
        <4>3. CASE a \in expired
          BY <1>1, <1>2, <2>1, <2>5, <4>3
        <4>4. CASE a \notin expired \cup {k}
          BY <2>3, <2>4, <3>1, <4>1, <4>4
        <4>5. QED
          BY <4>2, <4>3, <4>4
      <3>2. touched' # None => lru_list_'[1] = touched'
        BY <2>1, <2>4
      <3>3. QED
        BY <3>1, <3>2, Zenon DEF UseOrderKept
    <2>11. Store!Get(k, t)
      BY <1>1, <1>3, <1>5, <1>7, <2>1, Zenon DEF Store!Get, Store!Look
    <2>12. QED
      BY <2>8, <2>9, <2>10, <2>11, Zenon DEF Inv
  <1>8. QED
    BY <1>6, <1>7

\* exists erases what has expired and answers whether the entry is live.
LEMMA MemoryExists ==
  ASSUME Inv, NEW k \in Keys, NEW t \in now .. MaxTime, exists(k, t)
  PROVE  Inv' /\ UseOrderKept /\ Store!Exists(k, t)
  <1> DEFINE expired == Expired(now)
  <1>1. /\ cache_' = Dropped(expired) /\ lru_map_' = lru_map_ \ expired
        /\ lru_list_' = Erased(lru_list_, expired)
        /\ reply' = (cache_[k] # None /\ cache_[k].expiry > t)
        /\ touched' = None /\ now' = t /\ Store!Ask(<<"exists", k>>)
    BY Zenon DEF exists, Ask, Store!Ask
  <1>2. expired \subseteq {x \in Keys : ~Store!Live(x, t)} /\ t \in 0 .. MaxTime
    BY ExpiredProperties
  <1> HIDE DEF expired
  <1>3. reply' \in Values \cup BOOLEAN \cup {None} /\ now' \in 0 .. MaxTime
    BY <1>1, <1>2, Zenon
  <1>4. Inv' /\ UseOrderKept
    BY <1>1, <1>3, MemoryErase, Zenon
  <1>5. Dropped(expired) = Store!Forget(expired)
    BY DroppedType
  <1>6. Store!Purge(t)
    BY <1>1, <1>2, <1>5, Zenon DEF Store!Purge
  <1>7. reply' = Store!Live(k, t)
    BY <1>1, Zenon DEF Store!Live
  <1>8. Store!Exists(k, t)
    BY <1>1, <1>6, <1>7, Zenon DEF Store!Exists
  <1>9. QED
    BY <1>4, <1>8

\* remove erases one key.
LEMMA MemoryRemove ==
  ASSUME Inv, NEW k \in Keys, remove(k)
  PROVE  Inv' /\ UseOrderKept /\ Store!Remove(k)
  <1>1. /\ cache_' = Dropped({k}) /\ lru_map_' = lru_map_ \ {k}
        /\ lru_list_' = Erased(lru_list_, {k})
        /\ touched' = None /\ now' = now /\ Store!Ask(<<"remove", k>>)
    BY Zenon DEF remove, Ask, Store!Ask
  <1>2. reply' \in BOOLEAN /\ reply' = (cache_[k] # None)
    <2>1. k \in lru_map_ <=> cache_[k] # None
      BY DEF Inv, Agree
    <2>2. QED
      BY <2>1, Zenon DEF remove
  <1>3. reply' \in Values \cup BOOLEAN \cup {None} /\ now' \in 0 .. MaxTime
    BY <1>1, <1>2, Zenon DEF Inv, TypeOK
  <1>4. Inv' /\ UseOrderKept
    BY <1>1, <1>3, MemoryErase, Zenon
  <1>5. Dropped({k}) = Store!Forget({k})
    BY DroppedType
  <1>6. Store!Remove(k)
    BY <1>1, <1>2, <1>5, Zenon DEF Store!Remove
  <1>7. QED
    BY <1>4, <1>6

\* clear empties the containers.
LEMMA MemoryClear ==
  ASSUME Inv, clear
  PROVE  Inv' /\ UseOrderKept /\ Store!Clear
  <1>1. /\ cache_' = Dropped(Keys) /\ lru_map_' = {} /\ lru_list_' = <<>>
        /\ reply' = TRUE /\ touched' = None /\ now' = now /\ Store!Ask(<<"clear">>)
    BY Zenon DEF clear, Ask, Store!Ask
  <1>2. Len(<<>>) = 0 /\ DOMAIN <<>> = {} /\ 1 .. 0 = {} /\ <<>> \in Seq(Keys)
    OBVIOUS
  <1>3. /\ Dropped(Keys) \in [Keys -> CacheEntry \cup {None}]
        /\ lru_map_ \ Keys = {x \in Keys : Dropped(Keys)[x] # None}
        /\ Dropped(Keys) = Store!Forget(Keys)
        /\ lru_map_ \ Keys = {}
    BY DroppedType DEF Inv, TypeOK
  <1>4. TypeOK'
    <2>1. reply' \in Values \cup BOOLEAN \cup {None}
      BY <1>1, Zenon
    <2>2. QED
      BY <1>1, <1>2, <1>3, <2>1, Zenon DEF Inv, TypeOK
  <1>5. ToSet(lru_list_') = {}
    BY <1>1, <1>2 DEF ToSet
  <1>6. Agree' /\ TouchedFirst' /\ (Len(lru_list_) <= SizeLimit)'
    <2>1. 0 <= SizeLimit
      BY InMemoryCacheAssumption DEF SizeLimit
    <2>2. QED
      BY <1>1, <1>2, <1>3, <1>5, <2>1 DEF Agree, NoDuplicates, TouchedFirst, SizeLimit
  <1>7. UseOrderKept
    BY <1>1, <1>5, Zenon DEF UseOrderKept
  <1>8. Store!Clear
    BY <1>1, <1>3, Zenon DEF Store!Clear
  <1>9. QED
    BY <1>4, <1>6, <1>7, <1>8, Zenon DEF Inv

\* Time passes.
LEMMA MemoryTick ==
  ASSUME Inv, Tick
  PROVE  Inv' /\ UseOrderKept /\ Store!Tick
  <1>1. /\ UNCHANGED <<cache_, lru_list_, lru_map_, asked, reply, touched>>
        /\ now < MaxTime /\ now' = now + 1
    BY DEF Tick
  <1>2. now' \in 0 .. MaxTime
    BY <1>1, InMemoryCacheAssumption DEF Inv, TypeOK
  <1>3. TypeOK'
    BY <1>1, <1>2, Zenon DEF Inv, TypeOK
  <1>4. Agree' /\ TouchedFirst' /\ (Len(lru_list_) <= SizeLimit)'
    BY <1>1 DEF Inv, Agree, NoDuplicates, TouchedFirst, SizeLimit
  <1>5. UseOrderKept
    BY <1>1, Zenon DEF Inv, TouchedFirst, UseOrderKept
  <1>6. Store!Tick
    BY <1>1 DEF Store!Tick
  <1>7. QED
    BY <1>3, <1>4, <1>5, <1>6, Zenon DEF Inv

\* Every step of the cache keeps the invariant and the order of use, and is a
\* step of the store.
LEMMA MemoryNext ==
  ASSUME Inv, Next
  PROVE  Inv' /\ UseOrderKept /\ Store!StoreNext
  <1> DEFINE P == Inv' /\ UseOrderKept /\ Store!StoreNext
  <1>1. ASSUME NEW k \in Keys, NEW v \in Values, NEW ttl \in TtlArgs, set(k, v, ttl) PROVE P
    <2>1. effective_ttl(ttl) \in {effective_ttl(t) : t \in TtlArgs}
      OBVIOUS
    <2>2. Inv' /\ UseOrderKept /\ Store!Set(k, v, effective_ttl(ttl))
      BY <1>1, MemorySet
    <2>3. QED
      BY <2>1, <2>2, Zenon DEF Store!StoreNext
  <1>2. ASSUME NEW k \in Keys, NEW t \in now .. MaxTime, get(k, t) \/ exists(k, t) PROVE P
    BY <1>2, MemoryGet, MemoryExists, Zenon DEF Store!StoreNext
  <1>3. ASSUME NEW k \in Keys, remove(k) PROVE P
    BY <1>3, MemoryRemove, Zenon DEF Store!StoreNext
  <1>4. CASE clear
    BY <1>4, MemoryClear, Zenon DEF Store!StoreNext
  <1>5. CASE Tick
    BY <1>5, MemoryTick, Zenon DEF Store!StoreNext
  <1>6. QED
    BY <1>1, <1>2, <1>3, <1>4, <1>5, Zenon DEF Next

\* Nothing happens to the cache.
LEMMA MemoryStutter ==
  ASSUME Inv, UNCHANGED vars
  PROVE  Inv'
  <1>1. UNCHANGED <<cache_, lru_list_, lru_map_, now, reply, touched>>
    BY DEF vars
  <1>2. TypeOK'
    BY <1>1, Zenon DEF Inv, TypeOK
  <1>3. Agree' /\ TouchedFirst' /\ (Len(lru_list_) <= SizeLimit)'
    BY <1>1 DEF Inv, Agree, NoDuplicates, TouchedFirst, SizeLimit
  <1>4. QED
    BY <1>2, <1>3, Zenon DEF Inv

\* A step of the server is a step of one cache, or of none.
LEMMA MemoryStep ==
  ASSUME Inv, [ServerCacheNext]_serverCacheVars
  PROVE  /\ Inv'
         /\ [UseOrderKept]_vars
         /\ [Store!StoreNext]_(Store!cacheVars)
  <1>1. CASE Next
    BY <1>1, MemoryNext
  <1>2. CASE UNCHANGED vars
    BY <1>2, MemoryStutter DEF vars, Store!cacheVars
  <1>3. QED
    BY <1>1, <1>2 DEF ServerCacheNext, serverCacheVars

\* The invariant holds in every state of the server.
LEMMA MemoryInvariant == ServerCacheSpec => []Inv
  <1>1. ServerCacheInit => Inv
    BY MemoryInit DEF ServerCacheInit
  <1>2. Inv /\ [ServerCacheNext]_serverCacheVars => Inv'
    BY MemoryStep
  <1>3. QED
    BY <1>1, <1>2, PTL DEF ServerCacheSpec

\* Every variable of the in-memory cache keeps its type.
THEOREM MemoryTypeCorrect == ServerCacheSpec => []TypeOK
  BY MemoryInvariant, InvImplies, PTL

\* No operation of the in-memory cache leaves cache_, lru_list_ and lru_map_ with
\* different keys, or a key with two nodes.
THEOREM ContainersStayTogether == ServerCacheSpec => []ContainersAgree
  BY MemoryInvariant, InvImplies, PTL

\* set never leaves more entries than max_size_, or one if that is 0.
THEOREM SizeStaysBounded == ServerCacheSpec => []SizeBounded
  BY MemoryInvariant, InvImplies, PTL

\* The list stays in the order of last use, and eviction takes its end.
THEOREM EvictionIsLeastRecent == ServerCacheSpec => LeastRecentlyUsedGoesFirst
  <1>1. Inv /\ [ServerCacheNext]_serverCacheVars => [UseOrderKept]_vars
    BY MemoryStep
  <1>2. QED
    BY <1>1, MemoryInvariant, PTL DEF ServerCacheSpec, LeastRecentlyUsedGoesFirst

\* The in-memory cache implements the store without losses.
THEOREM MemoryImplementsStore == ServerCacheSpec => StoreSpec
  <1>1. ServerCacheInit => Store!StoreInit /\ Store!NothingAsked
    BY MemoryInit DEF ServerCacheInit
  <1>2. Inv /\ [ServerCacheNext]_serverCacheVars => [Store!StoreNext]_(Store!cacheVars)
    BY MemoryStep
  <1>3. QED
    BY <1>1, <1>2, MemoryInvariant, PTL DEF ServerCacheSpec, StoreSpec, Store!StoreSpec

-----------------------------------------------------------------------------
(* The Redis cache.                                                        *)

\* The data of the Redis server is a function of the keys, and time is bounded.
RedisInv ==
  /\ redisNow \in 0 .. MaxTime
  /\ data = [x \in RedisKeys |-> data[x]]

\* effect is what a command makes of the data.
IsData(effect) == effect = [x \in RedisKeys |-> effect[x]]

\* A command is executed and answered, executed without an answer, or neither.
LEMMA CommandOutcome ==
  ASSUME NEW call, NEW effect, NEW onReply, NEW onNull,
         Redis!redisCommand(call, effect, onReply, onNull)
  PROVE  /\ \/ data' = effect /\ redisReply' = onReply
            \/ data' = effect /\ redisReply' = onNull
            \/ data' = data /\ redisReply' = onNull
         /\ redisNow' = redisNow /\ Redis!RedisStore!Ask(call)
  BY Zenon DEF Redis!redisCommand, Redis!RedisStore!Ask

\* Operations that leave the data to itself, or replace it by data, keep it data.
LEMMA CommandInv ==
  ASSUME RedisInv, NEW effect, IsData(effect), data' \in {data, effect},
         redisNow' = redisNow
  PROVE  RedisInv'
  BY DEF RedisInv, IsData

\* What the commands make of the data is data, and what the store makes of it.
LEMMA Effects ==
  ASSUME RedisInv
  PROVE  /\ \A k \in RedisKeys : \A v, ttl : IsData(Redis!Stored(k, v, ttl))
         /\ \A lost : /\ IsData(Redis!Without(lost))
                      /\ Redis!Without(lost) = Redis!RedisStore!Forget(lost)
         /\ IsData(data)
         /\ Redis!RedisStore!Forget({}) = data
         /\ \A k : Redis!Present(k) <=> Redis!RedisStore!Live(k, redisNow)
         /\ redisNow \in redisNow .. MaxTime
  <1>1. IsData(data) /\ redisNow \in redisNow .. MaxTime
    BY InMemoryCacheAssumption DEF RedisInv, IsData
  <1>2. \A lost : Redis!Without(lost) = Redis!RedisStore!Forget(lost)
    BY Zenon DEF Redis!Without, Redis!RedisStore!Forget
  <1>3. \A lost : IsData(Redis!Without(lost))
    BY DEF IsData, Redis!Without
  <1>4. Redis!RedisStore!Forget({}) = data
    BY DEF RedisInv, Redis!RedisStore!Forget
  <1>5. \A k : Redis!Present(k) <=> Redis!RedisStore!Live(k, redisNow)
    BY Zenon DEF Redis!Present, Redis!RedisStore!Live
  <1>6. ASSUME NEW k \in RedisKeys, NEW v, NEW ttl
        PROVE  IsData(Redis!Stored(k, v, ttl))
    BY DEF RedisInv, IsData, Redis!Stored
  <1>7. QED
    BY <1>1, <1>2, <1>3, <1>4, <1>5, <1>6

\* The times to live of the store.
Ttls == {Redis!Life(t) : t \in TtlArgs \cup {redis_ttl}}

\* The effect of set is that of the Put of the store.
LEMMA StoredIsPut ==
  ASSUME RedisInv, NEW k \in RedisKeys, NEW v \in Values, NEW ttl \in TtlArgs \cup {redis_ttl},
         data' = Redis!Stored(k, v, ttl), redisNow' = redisNow
  PROVE  Redis!Life(ttl) \in Ttls /\ Redis!RedisStore!Put(k, v, Redis!Life(ttl))
  <1> DEFINE l == Redis!Life(ttl)
  <1>1. l \in Ttls
    BY DEF Ttls
  <1>2. data' = [data EXCEPT ![k] = [value |-> v, expiry |-> redisNow + l]]
    BY Zenon DEF Redis!Stored
  <1> HIDE DEF l
  <1>3. Redis!RedisStore!Forget({}) = data
    BY Effects
  <1>4. {} \in IF data[k] = None THEN SUBSET (RedisKeys \ {k}) ELSE {{}}
    OBVIOUS
  <1>5. Redis!RedisStore!Put(k, v, l)
    BY <1>2, <1>3, <1>4, Zenon DEF Redis!RedisStore!Put
  <1>6. QED
    BY <1>1, <1>5 DEF l

\* An operation that does not change the data purges nothing.
LEMMA NothingPurged ==
  ASSUME RedisInv, data' = data, redisNow' = redisNow
  PROVE  Redis!RedisStore!Purge(redisNow)
  <1>1. data' = Redis!RedisStore!Forget({})
    BY Effects
  <1>2. {} \in SUBSET {k \in RedisKeys : ~Redis!RedisStore!Live(k, redisNow)}
    OBVIOUS
  <1>3. QED
    BY <1>1, <1>2, Zenon DEF Redis!RedisStore!Purge

\* A command that was not executed is refused.
LEMMA Refused ==
  ASSUME NEW call \in Redis!RedisStore!Calls, Redis!RedisStore!Ask(call),
         data' = data, redisNow' = redisNow,
         redisReply' = IF call[1] = "get" THEN None ELSE FALSE
  PROVE  Redis!RedisStore!StoreNext
  BY Zenon DEF Redis!RedisStore!Refuse, Redis!RedisStore!StoreNext

\* The operations, and how a refusal of each is reported.
LEMMA CallsOfStore ==
  /\ \A k \in RedisKeys :
       /\ <<"get", k>> \in Redis!RedisStore!Calls
       /\ <<"exists", k>> \in Redis!RedisStore!Calls
       /\ <<"remove", k>> \in Redis!RedisStore!Calls
       /\ \A v \in Values, l \in Ttls : <<"set", k, v, l>> \in Redis!RedisStore!Calls
  /\ <<"clear">> \in Redis!RedisStore!Calls
  /\ \A k, v, l : /\ <<"get", k>>[1] = "get" /\ <<"exists", k>>[1] # "get"
                   /\ <<"remove", k>>[1] # "get" /\ <<"set", k, v, l>>[1] # "get"
  /\ <<"clear">>[1] # "get"
  BY DEF Redis!RedisStore!Calls, Ttls

\* SETEX and SET.
LEMMA RedisSet ==
  ASSUME RedisInv, NEW k \in RedisKeys, NEW v \in Values, NEW ttl \in TtlArgs \cup {redis_ttl},
         Redis!set(k, v, ttl)
  PROVE  RedisInv' /\ Redis!RedisStore!StoreNext
  <1>1. /\ \/ data' = Redis!Stored(k, v, ttl) /\ redisReply' = TRUE
           \/ data' = Redis!Stored(k, v, ttl) /\ redisReply' = FALSE
           \/ data' = data /\ redisReply' = FALSE
        /\ redisNow' = redisNow
        /\ Redis!RedisStore!Ask(<<"set", k, v, Redis!Life(ttl)>>)
    BY CommandOutcome, Zenon DEF Redis!set
  <1>2. RedisInv'
    <2>1. data' \in {data, Redis!Stored(k, v, ttl)}
      BY <1>1, Zenon
    <2>2. IsData(Redis!Stored(k, v, ttl))
      BY Effects
    <2>3. QED
      BY <1>1, <2>1, <2>2, CommandInv
  <1>3. CASE data' = Redis!Stored(k, v, ttl) /\ redisReply' \in {TRUE, FALSE}
    <2>1. Redis!Life(ttl) \in Ttls /\ Redis!RedisStore!Put(k, v, Redis!Life(ttl))
      BY <1>1, <1>3, StoredIsPut
    <2>2. Redis!RedisStore!Set(k, v, Redis!Life(ttl))
      BY <1>1, <1>3, <2>1, Zenon DEF Redis!RedisStore!Set
    <2>3. QED
      BY <1>2, <2>1, <2>2, Zenon DEF Redis!RedisStore!StoreNext, Ttls
  <1>4. CASE data' = data /\ redisReply' = FALSE
    <2>1. Redis!Life(ttl) \in Ttls
      BY DEF Ttls
    <2>2. QED
      BY <1>1, <1>2, <1>4, <2>1, CallsOfStore, Refused, Zenon
  <1>5. QED
    BY <1>1, <1>3, <1>4, Zenon

\* GET, also of a value that does not parse.
LEMMA RedisGet ==
  ASSUME RedisInv, NEW k \in RedisKeys, Redis!get(k) \/ Redis!get_json(k)
  PROVE  RedisInv' /\ Redis!RedisStore!StoreNext
  <1>1. /\ data' = data /\ redisNow' = redisNow /\ Redis!RedisStore!Ask(<<"get", k>>)
        /\ (redisReply' = data[k].value /\ Redis!Present(k)) \/ redisReply' = None
    <2>1. CASE Redis!get(k)
      BY <2>1, CommandOutcome, Zenon DEF Redis!get
    <2>2. CASE Redis!get_json(k)
      BY <2>2, CommandOutcome, Zenon DEF Redis!get_json
    <2>3. QED
      BY <2>1, <2>2
  <1>2. RedisInv'
    BY <1>1 DEF RedisInv
  <1>3. CASE redisReply' = data[k].value /\ Redis!Present(k)
    <2>1. Redis!RedisStore!Live(k, redisNow) /\ redisNow \in redisNow .. MaxTime
      BY <1>3, Effects
    <2>2. Redis!RedisStore!Get(k, redisNow)
      BY <1>1, <1>3, <2>1, NothingPurged, Zenon
         DEF Redis!RedisStore!Get, Redis!RedisStore!Look
    <2>3. QED
      BY <1>2, <2>1, <2>2, Zenon DEF Redis!RedisStore!StoreNext
  <1>4. CASE redisReply' = None
    BY <1>1, <1>2, <1>4, CallsOfStore, Refused, Zenon
  <1>5. QED
    BY <1>1, <1>3, <1>4

\* EXISTS.
LEMMA RedisExists ==
  ASSUME RedisInv, NEW k \in RedisKeys, Redis!exists(k)
  PROVE  RedisInv' /\ Redis!RedisStore!StoreNext
  <1>1. /\ data' = data /\ redisNow' = redisNow /\ Redis!RedisStore!Ask(<<"exists", k>>)
        /\ redisReply' = Redis!Present(k) \/ redisReply' = FALSE
    BY CommandOutcome, Zenon DEF Redis!exists
  <1>2. RedisInv'
    BY <1>1 DEF RedisInv
  <1>3. CASE redisReply' = Redis!Present(k)
    <2>1. redisReply' = Redis!RedisStore!Live(k, redisNow)
      BY <1>3, Zenon DEF Redis!Present, Redis!RedisStore!Live
    <2>2. redisNow \in redisNow .. MaxTime
      BY Effects
    <2>3. Redis!RedisStore!Exists(k, redisNow)
      BY <1>1, <2>1, NothingPurged, Zenon DEF Redis!RedisStore!Exists
    <2>4. QED
      BY <1>2, <2>2, <2>3, Zenon DEF Redis!RedisStore!StoreNext
  <1>4. CASE redisReply' = FALSE
    BY <1>1, <1>2, <1>4, CallsOfStore, Refused, Zenon
  <1>5. QED
    BY <1>1, <1>3, <1>4

\* DEL.
LEMMA RedisRemove ==
  ASSUME RedisInv, NEW k \in RedisKeys, Redis!remove(k)
  PROVE  RedisInv' /\ Redis!RedisStore!StoreNext
  <1>1. /\ \/ data' = Redis!Without({k}) /\ redisReply' = Redis!Present(k)
           \/ data' = Redis!Without({k}) /\ redisReply' = FALSE
           \/ data' = data /\ redisReply' = FALSE
        /\ redisNow' = redisNow /\ Redis!RedisStore!Ask(<<"remove", k>>)
    BY CommandOutcome, Zenon DEF Redis!remove
  <1>2. RedisInv'
    <2>1. data' \in {data, Redis!Without({k})}
      BY <1>1, Zenon
    <2>2. QED
      BY <1>1, <2>1, Effects, CommandInv
  <1>3. CASE data' = Redis!Without({k})
    <2>1. data' = Redis!RedisStore!Forget({k})
      BY <1>3, Effects
    <2>2. redisReply' \in {data[k] # None, Redis!RedisStore!Live(k, redisNow)} \cup {FALSE}
      BY <1>1, Zenon DEF Redis!Present, Redis!RedisStore!Live
    <2>3. Redis!RedisStore!Remove(k)
      BY <1>1, <2>1, <2>2, Zenon DEF Redis!RedisStore!Remove
    <2>4. QED
      BY <1>2, <2>3, Zenon DEF Redis!RedisStore!StoreNext
  <1>4. CASE data' = data /\ redisReply' = FALSE
    BY <1>1, <1>2, <1>4, CallsOfStore, Refused, Zenon
  <1>5. QED
    BY <1>1, <1>3, <1>4, Zenon

\* FLUSHALL.
LEMMA RedisClear ==
  ASSUME RedisInv, Redis!clear
  PROVE  RedisInv' /\ Redis!RedisStore!StoreNext
  <1>1. /\ \/ data' = Redis!Without(RedisKeys) /\ redisReply' = TRUE
           \/ data' = Redis!Without(RedisKeys) /\ redisReply' = FALSE
           \/ data' = data /\ redisReply' = FALSE
        /\ redisNow' = redisNow /\ Redis!RedisStore!Ask(<<"clear">>)
    BY CommandOutcome, Zenon DEF Redis!clear
  <1>2. RedisInv'
    <2>1. data' \in {data, Redis!Without(RedisKeys)}
      BY <1>1, Zenon
    <2>2. QED
      BY <1>1, <2>1, Effects, CommandInv
  <1>3. CASE data' = Redis!Without(RedisKeys) /\ redisReply' \in {TRUE, FALSE}
    <2>1. data' = Redis!RedisStore!Forget(RedisKeys)
      BY <1>3, Effects
    <2>2. Redis!RedisStore!Clear
      BY <1>1, <1>3, <2>1, Zenon DEF Redis!RedisStore!Clear
    <2>3. QED
      BY <1>2, <2>2, Zenon DEF Redis!RedisStore!StoreNext
  <1>4. CASE data' = data /\ redisReply' = FALSE
    BY <1>1, <1>2, <1>4, CallsOfStore, Refused, Zenon
  <1>5. QED
    BY <1>1, <1>3, <1>4, Zenon

\* Other servers, eviction, restarts and time.
LEMMA RedisElsewhere ==
  ASSUME RedisInv,
         \/ \E k \in RedisKeys, v \in Values : Redis!OtherServer(k, v, redis_ttl)
         \/ Redis!Evict \/ Redis!Restart \/ Redis!Tick
  PROVE  RedisInv' /\ Redis!RedisStore!StoreNext
  <1>1. ASSUME NEW k \in RedisKeys, NEW v \in Values, Redis!OtherServer(k, v, redis_ttl)
        PROVE  RedisInv' /\ Redis!RedisStore!StoreNext
    <2>1. /\ data' = Redis!Stored(k, v, redis_ttl) /\ redisNow' = redisNow
          /\ redisAsked' = redisAsked /\ redisReply' = redisReply
      BY <1>1 DEF Redis!OtherServer
    <2>2. RedisInv'
      BY <2>1, Effects, CommandInv
    <2>3. /\ Redis!Life(redis_ttl) \in Ttls
          /\ Redis!RedisStore!Put(k, v, Redis!Life(redis_ttl))
      BY <2>1, StoredIsPut
    <2>4. QED
      BY <2>1, <2>2, <2>3, Zenon DEF Redis!RedisStore!Elsewhere, Redis!RedisStore!StoreNext, Ttls
  <1>2. ASSUME NEW lost \in SUBSET RedisKeys, data' = Redis!Without(lost),
               redisNow' = redisNow, redisAsked' = redisAsked, redisReply' = redisReply
        PROVE  RedisInv' /\ Redis!RedisStore!StoreNext
    <2>1. RedisInv'
      BY <1>2, Effects, CommandInv
    <2>2. data' = Redis!RedisStore!Forget(lost)
      BY <1>2, Effects
    <2>3. QED
      BY <1>2, <2>1, <2>2, Zenon DEF Redis!RedisStore!Elsewhere, Redis!RedisStore!StoreNext
  <1>3. CASE Redis!Evict
    <2>1. PICK k \in RedisKeys : data' = Redis!Without({k})
      BY <1>3 DEF Redis!Evict
    <2>2. /\ {k} \in SUBSET RedisKeys
          /\ redisNow' = redisNow /\ redisAsked' = redisAsked /\ redisReply' = redisReply
      BY <1>3 DEF Redis!Evict
    <2>3. QED
      BY <1>2, <2>1, <2>2
  <1>4. CASE Redis!Restart
    <2>1. PICK lost \in SUBSET RedisKeys : data' = Redis!Without(lost)
      BY <1>4 DEF Redis!Restart
    <2>2. redisNow' = redisNow /\ redisAsked' = redisAsked /\ redisReply' = redisReply
      BY <1>4 DEF Redis!Restart
    <2>3. QED
      BY <1>2, <2>1, <2>2
  <1>5. CASE Redis!Tick
    <2>1. /\ redisNow < MaxTime /\ redisNow' = redisNow + 1
          /\ data' = data /\ redisAsked' = redisAsked /\ redisReply' = redisReply
      BY <1>5 DEF Redis!Tick
    <2>2. RedisInv'
      BY <2>1, InMemoryCacheAssumption DEF RedisInv
    <2>3. Redis!RedisStore!Tick
      BY <2>1 DEF Redis!RedisStore!Tick
    <2>4. QED
      BY <2>2, <2>3, Zenon DEF Redis!RedisStore!StoreNext
  <1>6. QED
    BY <1>1, <1>3, <1>4, <1>5

\* A step of the server keeps the data and is a step of the lossy store.
LEMMA RedisStep ==
  ASSUME RedisInv, [ServerCacheNext]_serverCacheVars
  PROVE  RedisInv' /\ [Redis!RedisStore!StoreNext]_(Redis!RedisStore!cacheVars)
  <1> DEFINE P == RedisInv' /\ Redis!RedisStore!StoreNext
  <1>1. CASE UNCHANGED redisVars
    BY <1>1 DEF redisVars, RedisInv, Redis!RedisStore!cacheVars
  <1>2. CASE Redis!Next
    <2>1. ASSUME NEW k \in RedisKeys, NEW v \in Values, NEW ttl \in TtlArgs,
                 Redis!set(k, v, ttl)
          PROVE  P
      BY <2>1, RedisSet
    <2>2. ASSUME NEW k \in RedisKeys, NEW v \in Values \ NotJson, Redis!set_json(k, v)
          PROVE  P
      BY <2>2, RedisSet DEF Redis!set_json
    <2>3. ASSUME NEW k \in RedisKeys, NEW v \in Values \ NotJson,
                 Redis!OtherServer(k, v, redis_ttl)
          PROVE  P
      BY <2>3, RedisElsewhere
    <2>4. ASSUME NEW k \in RedisKeys,
                 Redis!get(k) \/ Redis!get_json(k) \/ Redis!remove(k) \/ Redis!exists(k)
          PROVE  P
      BY <2>4, RedisGet, RedisRemove, RedisExists, Zenon
    <2>5. ASSUME Redis!clear PROVE P
      BY <2>5, RedisClear
    <2>6. ASSUME Redis!Evict \/ Redis!Restart \/ Redis!Tick PROVE P
      BY <2>6, RedisElsewhere
    <2> HIDE DEF P
    <2>7. P
      BY <1>2, <2>1, <2>2, <2>3, <2>4, <2>5, <2>6 DEF Redis!Next
    <2>8. QED
      BY <2>7 DEF P
  <1>3. QED
    BY <1>1, <1>2 DEF ServerCacheNext, serverCacheVars, redisVars

\* RedisCache implements the lossy store, whatever happens to its connection and
\* to the Redis server.
THEOREM RedisImplementsStore == ServerCacheSpec => RedisStoreSpec
  <1>1. ServerCacheInit
          => RedisInv /\ Redis!RedisStore!StoreInit /\ Redis!RedisStore!NothingAsked
    BY InMemoryCacheAssumption
       DEF ServerCacheInit, Redis!connect, RedisInv, Redis!RedisStore!StoreInit,
           Redis!RedisStore!NothingAsked
  <1>2. RedisInv /\ [ServerCacheNext]_serverCacheVars
          => RedisInv' /\ [Redis!RedisStore!StoreNext]_(Redis!RedisStore!cacheVars)
    BY RedisStep
  <1>3. QED
    BY <1>1, <1>2, PTL
       DEF ServerCacheSpec, RedisStoreSpec, Redis!RedisStoreSpec, Redis!RedisStore!StoreSpec
=============================================================================

-------------------------- MODULE UDPSenderProofs --------------------------
(***************************************************************************)
(* Proofs about UDPSender: the batches and the batching thread.            *)
(***************************************************************************)
EXTENDS UDPSender, SequenceLemmas

Messages == 1 .. MaxMessages

-----------------------------------------------------------------------------
(* The length of a batch is a number.                                      *)

\* The sum that BatchLength adds up is a natural number.
LEMMA TotalType ==
  ASSUME NEW lengths \in Seq(Nat)
  PROVE  Total(lengths) \in Nat
  <1>1. PICK N \in Nat : N = Len(lengths)
    OBVIOUS
  <1> DEFINE step == [p \in Nat \X (1 .. N) |-> p[1] + lengths[p[2]]]
             Rec(f) == [n \in 0 .. N |-> IF n = 0 THEN 0 ELSE f[n - 1] + lengths[n]]
  <1>2. \A n \in 1 .. N : lengths[n] \in Nat
    BY <1>1
  <1>3. Total(lengths) = (CHOOSE f : f = Rec(f))[N]
    BY <1>1 DEF Total
  <1>4. step \in [Nat \X (1 .. N) -> Nat]
    BY <1>2
  <1>5. \A a \in Nat, n \in 1 .. N : step[<<a, n>>] = a + lengths[n]
    OBVIOUS
  <1> HIDE DEF step
  <1>6. PICK g \in [0 .. N -> Nat] : Iterates(g, N, 0, step)
    BY <1>1, <1>4, Recursion
  <1>7. g[0] = 0
    BY <1>6 DEF Iterates
  <1>8. ASSUME NEW n \in 1 .. N
        PROVE  g[n] = g[n - 1] + lengths[n]
    <2>1. n - 1 \in 0 .. N
      BY <1>1
    <2>2. g[n - 1] \in Nat
      BY <1>6, <2>1
    <2>3. QED
      BY <1>5, <1>6, <2>2 DEF Iterates
  <1>9. g = Rec(g)
    <2>1. \A n \in 0 .. N : g[n] = IF n = 0 THEN 0 ELSE g[n - 1] + lengths[n]
      BY <1>1, <1>7, <1>8
    <2>2. QED
      BY <1>6, <2>1
  <1> DEFINE f == CHOOSE x : x = Rec(x)
  <1>10. f = Rec(f)
    BY <1>9
  <1> HIDE DEF f
  <1> DEFINE T == {n \in 0 .. N : f[n] \in Nat}
  <1>11. 0 \in T
    BY <1>1, <1>10
  <1>12. ASSUME NEW n \in 1 .. N, n - 1 \in T
         PROVE  n \in T
    <2>1. f[n] = f[n - 1] + lengths[n]
      <3>1. n \in 0 .. N /\ n # 0
        BY <1>1
      <3>2. QED
        BY <1>10, <3>1
    <2>2. QED
      BY <1>1, <1>2, <1>12, <2>1
  <1> HIDE DEF T
  <1>13. N \in T
    <2>1. N \in Nat /\ N \in 0 .. N
      BY <1>1
    <2>2. QED
      BY <1>11, <1>12, <2>1, SetInduction
  <1>14. QED
    BY <1>3, <1>13 DEF f, T
-----------------------------------------------------------------------------
(* Batches, with the lengths of the messages as a parameter.               *)

TextLength(b, l) == Total([j \in DOMAIN b |-> l[b[j]]]) + Len(b) - 1

KnownIn(q, l) == \A i \in DOMAIN q : \A j \in DOMAIN q[i] : q[i][j] \in 1 .. Len(l)

FullIn(q, l, n) ==
  /\ \A i \in 1 .. Len(q) - 1 : TextLength(q[i], l) > n
  /\ \A i \in DOMAIN q : Len(q[i]) > 1 => TextLength(Front(q[i]), l) <= n

\* queueMessage: the queue with a message more.
Queued(q, l, n, m) ==
  IF q = <<>> \/ TextLength(Last(q), l) > n
  THEN Append(q, <<m>>) ELSE Append(Front(q), Append(Last(q), m))

\* The length of the text of a batch is a number.
LEMMA TextLengthType ==
  ASSUME NEW l \in Seq(Nat), NEW b \in Seq(Messages),
         \A j \in DOMAIN b : b[j] \in 1 .. Len(l)
  PROVE  TextLength(b, l) \in Int
  <1> DEFINE t == [j \in DOMAIN b |-> l[b[j]]]
  <1>1. Len(b) \in Nat /\ DOMAIN b = 1 .. Len(b)
    OBVIOUS
  <1>2. \A j \in 1 .. Len(b) : l[b[j]] \in Nat
    BY <1>1
  <1>3. t \in Seq(Nat)
    BY <1>1, <1>2
  <1> HIDE DEF t
  <1>4. Total(t) \in Nat
    BY <1>3, TotalType
  <1>5. TextLength(b, l) = Total(t) + Len(b) - 1
    BY DEF TextLength, t
  <1>6. QED
    BY <1>1, <1>4, <1>5

\* A message more does not change the text of the batches there are.
LEMMA TextLengthKept ==
  ASSUME NEW l \in Seq(Nat), NEW x \in Nat, NEW b \in Seq(Messages),
         \A j \in DOMAIN b : b[j] \in 1 .. Len(l)
  PROVE  TextLength(b, Append(l, x)) = TextLength(b, l)
  <1>1. \A k \in 1 .. Len(l) : Append(l, x)[k] = l[k]
    OBVIOUS
  <1>2. [j \in DOMAIN b |-> Append(l, x)[b[j]]] = [j \in DOMAIN b |-> l[b[j]]]
    BY <1>1
  <1>3. QED
    BY <1>2 DEF TextLength

\* The batches stay as full as they are when the lengths of messages are added.
LEMMA FullKept ==
  ASSUME NEW l \in Seq(Nat), NEW x \in Nat, NEW q \in Seq(Seq(Messages)), NEW n \in Nat,
         KnownIn(q, l), FullIn(q, l, n)
  PROVE  KnownIn(q, Append(l, x)) /\ FullIn(q, Append(l, x), n)
  <1>1. Len(Append(l, x)) = Len(l) + 1 /\ Len(l) \in Nat
    OBVIOUS
  <1>2. KnownIn(q, Append(l, x))
    BY <1>1 DEF KnownIn
  <1>3. DOMAIN q = 1 .. Len(q) /\ Len(q) \in Nat
    OBVIOUS
  <1>4. ASSUME NEW i \in DOMAIN q
        PROVE  /\ TextLength(q[i], Append(l, x)) = TextLength(q[i], l)
               /\ Len(q[i]) > 1 =>
                    TextLength(Front(q[i]), Append(l, x)) = TextLength(Front(q[i]), l)
    <2>1. q[i] \in Seq(Messages)
      BY <1>3, ElementOfSeq
    <2>2. \A j \in DOMAIN q[i] : q[i][j] \in 1 .. Len(l)
      BY DEF KnownIn
    <2>3. TextLength(q[i], Append(l, x)) = TextLength(q[i], l)
      BY <2>1, <2>2, TextLengthKept
    <2>4. ASSUME Len(q[i]) > 1
          PROVE  TextLength(Front(q[i]), Append(l, x)) = TextLength(Front(q[i]), l)
      <3>1. q[i] # <<>>
        BY <2>4
      <3>2. /\ Front(q[i]) \in Seq(Messages)
            /\ Len(Front(q[i])) = Len(q[i]) - 1
            /\ \A j \in 1 .. Len(q[i]) - 1 : Front(q[i])[j] = q[i][j]
        BY <2>1, <3>1, FrontAndLast
      <3>3. ASSUME NEW j \in DOMAIN Front(q[i])
            PROVE  Front(q[i])[j] \in 1 .. Len(l)
        <4>1. DOMAIN q[i] = 1 .. Len(q[i]) /\ Len(q[i]) \in Nat
          BY <2>1
        <4>2. DOMAIN Front(q[i]) = 1 .. Len(q[i]) - 1
          BY <3>2
        <4>3. j \in 1 .. Len(q[i]) - 1 /\ j \in DOMAIN q[i]
          BY <4>1, <4>2
        <4>4. QED
          BY <2>2, <3>2, <4>3
      <3>4. QED
        BY <3>2, <3>3, TextLengthKept
    <2>5. QED
      BY <2>3, <2>4
  <1>5. FullIn(q, Append(l, x), n)
    <2>1. \A i \in 1 .. Len(q) - 1 : i \in DOMAIN q
      BY <1>3
    <2>2. QED
      BY <1>4, <2>1 DEF FullIn
  <1>6. QED
    BY <1>2, <1>5

\* queueMessage adds to the last batch while it has room, and then opens another.
LEMMA FullGrows ==
  ASSUME NEW l \in Seq(Nat), NEW q \in Seq(Seq(Messages)), NEW n \in Nat,
         NEW m \in Messages, m \in 1 .. Len(l), KnownIn(q, l)
  PROVE  /\ Queued(q, l, n, m) \in Seq(Seq(Messages))
         /\ KnownIn(Queued(q, l, n, m), l)
         /\ FullIn(q, l, n) => FullIn(Queued(q, l, n, m), l, n)
  <1> DEFINE r == Queued(q, l, n, m)
  <1>1. DOMAIN q = 1 .. Len(q) /\ Len(q) \in Nat
    OBVIOUS
  <1>2. CASE q = <<>> \/ TextLength(Last(q), l) > n
    <2>1. r = Append(q, <<m>>)
      BY <1>2, Zenon DEF Queued
    <2>2. <<m>> \in Seq(Messages) /\ Len(<<m>>) = 1 /\ <<m>>[1] = m /\ DOMAIN <<m>> = 1 .. 1
      OBVIOUS
    <2>3. /\ r \in Seq(Seq(Messages)) /\ Len(r) = Len(q) + 1
          /\ r[Len(q) + 1] = <<m>> /\ DOMAIN r = 1 .. Len(q) + 1
          /\ \A i \in 1 .. Len(q) : r[i] = q[i]
      BY <2>1, <2>2, AppendProperties
    <2> HIDE DEF r
    <2>4. ASSUME NEW i \in DOMAIN r
          PROVE  \/ i \in DOMAIN q /\ r[i] = q[i]
                 \/ i = Len(r) /\ r[i] = <<m>>
      BY <1>1, <2>3
    <2>5. KnownIn(r, l)
      <3>1. ASSUME NEW i \in DOMAIN r, NEW j \in DOMAIN r[i]
            PROVE  r[i][j] \in 1 .. Len(l)
        <4>1. CASE i \in DOMAIN q /\ r[i] = q[i]
          BY <4>1 DEF KnownIn
        <4>2. CASE r[i] = <<m>>
          BY <2>2, <4>2
        <4>3. QED
          BY <2>4, <4>1, <4>2
      <3>2. QED
        BY <3>1 DEF KnownIn
    <2>6. ASSUME FullIn(q, l, n), NEW i \in 1 .. Len(r) - 1
          PROVE  TextLength(r[i], l) > n
      <3>1. i \in 1 .. Len(q) /\ r[i] = q[i] /\ q # <<>>
        BY <1>1, <2>3
      <3>2. CASE i = Len(q)
        BY <1>2, <3>1, <3>2 DEF Last
      <3>3. CASE i # Len(q)
        <4>1. i \in 1 .. Len(q) - 1
          BY <1>1, <3>1, <3>3, LastOrBefore
        <4>2. QED
          BY <2>6, <3>1, <4>1 DEF FullIn
      <3>4. QED
        BY <3>2, <3>3
    <2>7. ASSUME FullIn(q, l, n), NEW i \in DOMAIN r, Len(r[i]) > 1
          PROVE  TextLength(Front(r[i]), l) <= n
      <3>1. r[i] # <<m>>
        <4>1. ~(Len(<<m>>) > 1)
          BY <2>2
        <4>2. QED
          BY <2>7, <4>1, Zenon
      <3>2. QED
        BY <2>4, <2>7, <3>1 DEF FullIn
    <2>8. QED
      BY <2>3, <2>5, <2>6, <2>7 DEF FullIn, r
  <1>3. CASE ~(q = <<>> \/ TextLength(Last(q), l) > n)
    <2> DEFINE last == Append(Last(q), m)
    <2>1. r = Append(Front(q), last)
      BY <1>3, Zenon DEF Queued
    <2>2. /\ Len(q) \in Nat \ {0} /\ Front(q) \in Seq(Seq(Messages))
          /\ Last(q) \in Seq(Messages) /\ Last(q) = q[Len(q)]
          /\ Len(Front(q)) = Len(q) - 1
          /\ \A i \in 1 .. Len(q) - 1 : Front(q)[i] = q[i]
      BY <1>3, FrontAndLast DEF Last
    <2>3. /\ last \in Seq(Messages) /\ Len(last) = Len(Last(q)) + 1
          /\ last[Len(Last(q)) + 1] = m /\ DOMAIN last = 1 .. Len(Last(q)) + 1
          /\ \A j \in 1 .. Len(Last(q)) : last[j] = Last(q)[j]
      BY <2>2, AppendProperties
    <2>4. Front(last) = Last(q)
      BY <2>2, FrontOfAppend
    <2> HIDE DEF last
    <2>5. /\ r \in Seq(Seq(Messages)) /\ Len(r) = Len(q)
          /\ r[Len(q)] = last /\ DOMAIN r = 1 .. Len(q)
          /\ \A i \in 1 .. Len(q) - 1 : r[i] = q[i]
      <3>1. PICK k \in Nat : k + 1 = Len(q) /\ k = Len(Front(q)) /\ k = Len(q) - 1
        BY <2>2
      <3>2. /\ r \in Seq(Seq(Messages)) /\ Len(r) = k + 1
            /\ r[k + 1] = last
            /\ \A i \in 1 .. k : r[i] = Front(q)[i]
        BY <2>1, <2>2, <2>3, <3>1, AppendProperties, SMTT(30)
      <3>3. DOMAIN r = 1 .. Len(r)
        BY <3>2, LenProperties
      <3>4. QED
        BY <2>2, <3>1, <3>2, <3>3
    <2> HIDE DEF r
    <2>6. \A i \in 1 .. Len(q) : i = Len(q) \/ i \in 1 .. Len(q) - 1
      BY <1>1, LastOrBefore, Zenon
    <2>7. \A j \in DOMAIN Last(q) : Last(q)[j] \in 1 .. Len(l)
      <3>1. Len(q) \in DOMAIN q
        BY <1>1, <2>2
      <3>2. QED
        BY <2>2, <3>1, Zenon DEF KnownIn
    <2>8. KnownIn(r, l)
      <3>1. ASSUME NEW i \in DOMAIN r, NEW j \in DOMAIN r[i]
            PROVE  r[i][j] \in 1 .. Len(l)
        <4>1. CASE i \in 1 .. Len(q) - 1
          BY <1>1, <2>5, <4>1 DEF KnownIn
        <4>2. CASE i = Len(q)
          <5>1. r[i] = last
            BY <2>5, <4>2
          <5>2. CASE j = Len(Last(q)) + 1
            BY <2>3, <5>1, <5>2
          <5>3. CASE j # Len(Last(q)) + 1
            <6>1. Len(Last(q)) \in Nat /\ DOMAIN Last(q) = 1 .. Len(Last(q))
              BY <2>2, LenProperties
            <6>2. j \in 1 .. Len(Last(q))
              BY <2>3, <5>1, <5>3, <6>1
            <6>3. QED
              BY <2>3, <2>7, <5>1, <6>1, <6>2
          <5>4. QED
            BY <5>2, <5>3
        <4>3. QED
          BY <2>5, <2>6, <4>1, <4>2
      <3>2. QED
        BY <3>1 DEF KnownIn
    <2>9. ASSUME FullIn(q, l, n), NEW i \in 1 .. Len(r) - 1
          PROVE  TextLength(r[i], l) > n
      BY <2>5, <2>9 DEF FullIn
    <2>10. ASSUME FullIn(q, l, n), NEW i \in DOMAIN r, Len(r[i]) > 1
           PROVE  TextLength(Front(r[i]), l) <= n
      <3>1. CASE i \in 1 .. Len(q) - 1
        BY <1>1, <2>5, <2>10, <3>1 DEF FullIn
      <3>2. CASE i = Len(q)
        <4>1. TextLength(Last(q), l) \in Int
          BY <2>2, <2>7, TextLengthType
        <4>2. QED
          BY <1>3, <2>4, <2>5, <3>2, <4>1
      <3>3. QED
        BY <2>5, <2>6, <3>1, <3>2
    <2>11. QED
      BY <2>5, <2>8, <2>9, <2>10 DEF FullIn, r
  <1>4. QED
    BY <1>2, <1>3

\* queueMessage adds its message after all the others.
LEMMA QueuedFlatten ==
  ASSUME NEW l, NEW n, NEW m \in Messages,
         NEW d \in Seq(Seq(Messages)), NEW q \in Seq(Seq(Messages))
  PROVE  FlattenSeq(d \o Queued(q, l, n, m)) = Append(FlattenSeq(d \o q), m)
  <1> DEFINE B == Seq(Messages)
             Flat(s) == FlattenSeq(s)
  <1>1. <<m>> \in B /\ d \o q \in Seq(B)
    OBVIOUS
  <1>2. CASE q = <<>> \/ TextLength(Last(q), l) > n
    <2>1. Queued(q, l, n, m) = Append(q, <<m>>)
      BY <1>2, Zenon DEF Queued
    <2>2. d \o Append(q, <<m>>) = Append(d \o q, <<m>>)
      BY <1>1, ConcatAppend
    <2>3. /\ Flat(Append(d \o q, <<m>>)) = Flat(d \o q) \o <<m>>
          /\ Flat(d \o q) \in B
      BY <1>1, FlattenAppend
    <2> HIDE DEF Flat
    <2>4. Flat(d \o q) \o <<m>> = Append(Flat(d \o q), m)
      BY <2>3, AppendIsConcat
    <2>5. QED
      BY <2>1, <2>2, <2>3, <2>4, Zenon DEF Flat
  <1>3. CASE ~(q = <<>> \/ TextLength(Last(q), l) > n)
    <2>1. Queued(q, l, n, m) = Append(Front(q), Append(Last(q), m))
      BY <1>3, Zenon DEF Queued
    <2>2. Front(q) \in Seq(B) /\ Last(q) \in B /\ q = Append(Front(q), Last(q))
      BY <1>3, FrontAndLast
    <2>3. Append(Last(q), m) \in B /\ d \o Front(q) \in Seq(B)
      BY <2>2
    <2>4. d \o q = Append(d \o Front(q), Last(q))
      <3>1. d \o Append(Front(q), Last(q)) = Append(d \o Front(q), Last(q))
        BY <2>2, ConcatAppend, SMTT(30)
      <3>2. QED
        BY <2>2, <3>1, Zenon
    <2>5. d \o Queued(q, l, n, m) = Append(d \o Front(q), Append(Last(q), m))
      BY <2>1, <2>2, <2>3, ConcatAppend
    <2>6. /\ Flat(d \o q) = Flat(d \o Front(q)) \o Last(q)
          /\ Flat(d \o Queued(q, l, n, m)) = Flat(d \o Front(q)) \o Append(Last(q), m)
          /\ Flat(d \o Front(q)) \in B
      BY <2>2, <2>3, <2>4, <2>5, FlattenAppend
    <2> HIDE DEF Flat
    <2>7. Flat(d \o Front(q)) \o Append(Last(q), m) =
            Append(Flat(d \o Front(q)) \o Last(q), m)
      BY <2>2, <2>6, ConcatAppend, SMTT(30)
    <2>8. QED
      BY <2>6, <2>7, Zenon DEF Flat
  <1>4. QED
    BY <1>2, <1>3

-----------------------------------------------------------------------------
(* The inductive invariant.                                                *)

\* Messages are numbered in the order of send, up to the length of length.
InsideKnown == \A c \in Callers : inside[c] # 0 => inside[c] \in 1 .. Len(length)

\* A caller that is in the queue while there is a batching thread has the lock.
Locked == joinable => ~raced /\ \A c \in Callers : inside[c] # 0 => lock = c

\* The thread takes the queue only when it has sent what it took before.
StagedEmpty == thread \notin {"send", "ended"} => staged = <<>>

Inv ==
  /\ SenderTypeOK
  /\ InsideKnown
  /\ KnownIn(queue, length)
  /\ Locked
  /\ StagedEmpty
  /\ MessagesAreConserved
  /\ ~raced => FullIn(queue, length, m_batchsize)

\* The sender starts without messages.
LEMMA InitInv == Init => Inv
  <1> SUFFICES ASSUME Init PROVE Inv
    OBVIOUS
  <1> USE UDPSenderAssumption
  <1>0. /\ queue = <<>> /\ staged = <<>> /\ datagrams = <<>> /\ accepted = <<>>
        /\ length = <<>> /\ inside = [c \in Callers |-> 0] /\ lock = None
        /\ raced = FALSE /\ m_mustExit = FALSE
    BY Zenon DEF Init
  <1>1. SenderTypeOK
    <2>1. client \in {"dummy", "real", "destroying", "destroyed", "terminated"}
      BY DEF Init, initializeStatsDClient
    <2>2. initialized \in BOOLEAN /\ m_mustExit \in BOOLEAN /\ raced \in BOOLEAN
      BY <1>0, Zenon DEF Init
    <2>3. m_batchsize \in Nat
      <3>1. PICK size \in BatchSizes : m_batchsize = size % SizeModulus
        BY Zenon DEF Init
      <3>2. QED
        BY <3>1
    <2>4. thread \in Threads
      BY DEF Init, Threads
    <2>5. /\ queue \in Seq(Seq(1 .. MaxMessages)) /\ staged \in Seq(Seq(1 .. MaxMessages))
          /\ length \in Seq(Lengths) /\ Len(length) <= MaxMessages
          /\ accepted \in Seq(1 .. MaxMessages) /\ datagrams \in Seq(Seq(1 .. MaxMessages))
      BY <1>0
    <2>6. lock \in Callers \cup {None} /\ inside \in [Callers -> 0 .. MaxMessages]
      BY <1>0
    <2>7. QED
      BY <2>1, <2>2, <2>3, <2>4, <2>5, <2>6, Zenon DEF SenderTypeOK
  <1>2. InsideKnown /\ Locked /\ StagedEmpty
    BY <1>0 DEF InsideKnown, Locked, StagedEmpty
  <1>3. KnownIn(queue, length) /\ FullIn(queue, length, m_batchsize)
    <2>1. Len(queue) = 0 /\ DOMAIN queue = {}
      BY <1>0
    <2>2. 1 .. 0 - 1 = {}
      OBVIOUS
    <2>3. QED
      BY <2>1, <2>2 DEF KnownIn, FullIn
  <1>4. MessagesAreConserved
    <2>1. <<>> \o <<>> \o <<>> = <<>> /\ Len(<<>>) = 0
      OBVIOUS
    <2>2. FlattenSeq(<<>>) = <<>>
      BY <2>1 DEF FlattenSeq
    <2>3. QED
      BY <1>0, <2>1, <2>2 DEF MessagesAreConserved
  <1>5. QED
    BY <1>1, <1>2, <1>3, <1>4 DEF Inv

\* send passes its message on at once, or enters the queue with the lock.
LEMMA SendInv ==
  ASSUME Inv, NEW c \in Callers, NEW len \in Lengths, send(c, len)
  PROVE  Inv'
  <1> USE UDPSenderAssumption
  <1> DEFINE N == Len(length)
  <1>0. /\ UNCHANGED <<client, initialized, m_batchsize, thread, m_mustExit, queue, staged, accepted>>
        /\ length' = Append(length, len) /\ inside[c] = 0 /\ Len(length) < MaxMessages
    BY DEF send, config
  <1>1. /\ length \in Seq(Nat) /\ len \in Nat /\ N \in Nat
        /\ length' \in Seq(Lengths) /\ Len(length') = N + 1 /\ Len(length') <= MaxMessages
        /\ N + 1 \in 1 .. MaxMessages /\ N + 1 # 0
    <2>1. length \in Seq(Lengths) /\ length \in Seq(Nat) /\ len \in Nat
      BY SeqMonotonic DEF Inv, SenderTypeOK
    <2>2. Len(length) \in Nat /\ Len(length') = Len(length) + 1 /\ length' \in Seq(Lengths)
      BY <1>0, <2>1, AppendProperties
    <2>3. QED
      BY <1>0, <2>1, <2>2
  <1> HIDE DEF N
  <1>2. CASE m_batchsize > 0
    <2>1. /\ joinable => lock = None
          /\ lock' = IF joinable THEN c ELSE lock
          /\ inside' = [inside EXCEPT ![c] = N + 1]
          /\ datagrams' = datagrams
      BY <1>2, Zenon DEF send, N
    <2>2. raced' = (raced \/ (~joinable /\ \E d \in Callers : inside[d] # 0))
      BY <1>2, Zenon DEF send
    <2>3. raced' \in BOOLEAN /\ (~raced' => ~raced) /\ (joinable => raced' = raced)
      BY <2>2, Zenon DEF Inv, SenderTypeOK
    <2>4. inside' \in [Callers -> 0 .. MaxMessages] /\ lock' \in Callers \cup {None}
      BY <1>1, <2>1 DEF Inv, SenderTypeOK
    <2>5. SenderTypeOK'
      BY <1>0, <1>1, <2>1, <2>3, <2>4, Zenon DEF Inv, SenderTypeOK
    <2>6. InsideKnown'
      BY <1>1, <2>1 DEF Inv, SenderTypeOK, InsideKnown, N
    <2>7. Locked'
      <3> SUFFICES ASSUME joinable' PROVE ~raced' /\ \A d \in Callers : inside'[d] # 0 => lock' = d
        BY DEF Locked
      <3>1. joinable
        BY <1>0 DEF joinable
      <3>2. ~raced' /\ lock = None /\ lock' = c
        BY <2>1, <2>3, <3>1, Zenon DEF Inv, Locked
      <3>3. \A d \in Callers : inside[d] = 0
        BY <3>1, <3>2 DEF Inv, Locked
      <3>4. \A d \in Callers : d # c => inside'[d] = inside[d]
        BY <2>1 DEF Inv, SenderTypeOK
      <3>5. QED
        BY <3>2, <3>3, <3>4
    <2>8. MessagesAreConserved'
      BY <1>0, <2>1, <2>3 DEF Inv, MessagesAreConserved
    <2>9. KnownIn(queue, length)'
      BY <1>0, <1>1 DEF Inv, KnownIn, N
    <2>10. (~raced => FullIn(queue, length, m_batchsize))'
      <3>1. ASSUME ~raced' PROVE FullIn(queue, Append(length, len), m_batchsize)
        BY <1>1, <2>3, <3>1, FullKept DEF Inv, SenderTypeOK, Messages
      <3>2. QED
        BY <1>0, <3>1 DEF FullIn
    <2>11. StagedEmpty'
      BY <1>0 DEF Inv, StagedEmpty
    <2>12. QED
      BY <2>5, <2>6, <2>7, <2>8, <2>9, <2>10, <2>11, Zenon DEF Inv
  <1>3. CASE ~(m_batchsize > 0)
    <2>1. UNCHANGED <<lock, inside, raced>> /\ datagrams' = Append(datagrams, <<N + 1>>)
      BY <1>3 DEF send, sendToDaemon, N
    <2>2. datagrams' \in Seq(Seq(1 .. MaxMessages))
      <3>1. <<N + 1>> \in Seq(1 .. MaxMessages)
        BY <1>1
      <3>2. QED
        BY <2>1, <3>1, AppendProperties DEF Inv, SenderTypeOK
    <2>3. SenderTypeOK'
      BY <1>0, <1>1, <2>1, <2>2, Zenon DEF Inv, SenderTypeOK
    <2>4. InsideKnown'
      BY <1>1, <2>1 DEF Inv, InsideKnown, N
    <2>5. Locked' /\ StagedEmpty'
      BY <1>0, <2>1 DEF Inv, Locked, StagedEmpty, joinable
    <2>6. MessagesAreConserved'
      BY <1>0, <1>3 DEF MessagesAreConserved
    <2>7. KnownIn(queue, length)'
      BY <1>0, <1>1 DEF Inv, KnownIn, N
    <2>8. (~raced => FullIn(queue, length, m_batchsize))'
      <3>1. ASSUME ~raced' PROVE FullIn(queue, Append(length, len), m_batchsize)
        BY <1>1, <2>1, <3>1, FullKept DEF Inv, SenderTypeOK, Messages
      <3>2. QED
        BY <1>0, <3>1 DEF FullIn
    <2>9. QED
      BY <2>3, <2>4, <2>5, <2>6, <2>7, <2>8, Zenon DEF Inv
  <1>4. QED
    BY <1>2, <1>3

\* queueMessage adds the message of its caller to the queue, or loses it in a race.
LEMMA QueueInv ==
  ASSUME Inv, NEW c \in Callers, queueMessage(c)
  PROVE  Inv'
  <1> USE UDPSenderAssumption
  <1> DEFINE m == inside[c]
             q == Queued(queue, length, m_batchsize, m)
  <1>0. /\ UNCHANGED <<client, initialized, m_batchsize, thread, m_mustExit, staged, raced,
                       length, datagrams>>
        /\ accepted' = Append(accepted, m) /\ inside' = [inside EXCEPT ![c] = 0]
        /\ lock' = IF lock = c THEN None ELSE lock
        /\ m # 0
    BY DEF queueMessage, config
  <1>1. queue' = q \/ (raced /\ queue' = queue)
    BY DEF queueMessage, Opens, Queued, Full, BatchLength, TextLength
  <1>2. /\ length \in Seq(Nat) /\ m \in 1 .. MaxMessages /\ m \in 1 .. Len(length)
        /\ m_batchsize \in Nat
    <2>1. length \in Seq(Nat)
      BY SeqMonotonic DEF Inv, SenderTypeOK
    <2>2. m \in 0 .. MaxMessages /\ m_batchsize \in Nat
      BY DEF Inv, SenderTypeOK
    <2>3. m \in 1 .. Len(length)
      BY <1>0 DEF Inv, InsideKnown
    <2>4. QED
      BY <1>0, <2>1, <2>2, <2>3
  <1> HIDE DEF m
  <1>3. /\ q \in Seq(Seq(1 .. MaxMessages)) /\ KnownIn(q, length)
        /\ FullIn(queue, length, m_batchsize) => FullIn(q, length, m_batchsize)
    BY <1>2, FullGrows DEF Inv, SenderTypeOK, Messages
  <1>4. FlattenSeq(datagrams \o staged \o q) = Append(FlattenSeq(datagrams \o staged \o queue), m)
    <2> DEFINE d == datagrams \o staged
    <2>1. d \in Seq(Seq(Messages)) /\ queue \in Seq(Seq(Messages)) /\ m \in Messages
      BY <1>2 DEF Inv, SenderTypeOK, Messages
    <2> HIDE DEF d
    <2>2. FlattenSeq(d \o q) = Append(FlattenSeq(d \o queue), m)
      BY <2>1, QueuedFlatten
    <2>3. QED
      BY <2>2, Zenon DEF d
  <1> HIDE DEF q
  <1>5. queue' \in Seq(Seq(1 .. MaxMessages)) /\ KnownIn(queue', length)
    BY <1>1, <1>3 DEF Inv, SenderTypeOK
  <1>6. SenderTypeOK'
    <2>1. inside' \in [Callers -> 0 .. MaxMessages] /\ lock' \in Callers \cup {None}
      BY <1>0 DEF Inv, SenderTypeOK
    <2>2. accepted' \in Seq(1 .. MaxMessages)
      BY <1>0, <1>2, AppendProperties DEF Inv, SenderTypeOK
    <2>3. QED
      BY <1>0, <1>5, <2>1, <2>2, Zenon DEF Inv, SenderTypeOK
  <1>7. InsideKnown' /\ StagedEmpty'
    BY <1>0 DEF Inv, SenderTypeOK, InsideKnown, StagedEmpty
  <1>8. Locked'
    BY <1>0 DEF Inv, SenderTypeOK, Locked, joinable
  <1>9. MessagesAreConserved'
    BY <1>0, <1>1, <1>4 DEF Inv, MessagesAreConserved
  <1>10. KnownIn(queue, length)'
    BY <1>0, <1>5 DEF KnownIn
  <1>11. (~raced => FullIn(queue, length, m_batchsize))'
    <2>1. ASSUME ~raced' PROVE FullIn(queue', length, m_batchsize)
      BY <1>0, <1>1, <1>3, <2>1, Zenon DEF Inv
    <2>2. QED
      BY <1>0, <2>1 DEF FullIn
  <1>12. QED
    BY <1>6, <1>7, <1>8, <1>9, <1>10, <1>11, Zenon DEF Inv

\* The end of the program leaves the queues as they are, and nobody in them.
LEMMA TerminationInv ==
  ASSUME Inv, NEW c \in Callers, queueMessage_terminates(c)
  PROVE  Inv'
  <1> USE UDPSenderAssumption
  <1>1. /\ client' = "terminated" /\ thread' = IF joinable THEN "ended" ELSE "none"
        /\ inside' = [d \in Callers |-> 0] /\ lock' = None
        /\ UNCHANGED <<initialized, m_batchsize, m_mustExit, queue, staged, raced, length,
                       accepted, datagrams>>
    BY DEF queueMessage_terminates
  <1>2. /\ inside' \in [Callers -> 0 .. MaxMessages] /\ lock' \in Callers \cup {None}
        /\ thread' \in Threads /\ (thread' # "none" <=> thread # "none")
        /\ \A d \in Callers : inside'[d] = 0
    BY <1>1 DEF Threads, joinable
  <1>3. SenderTypeOK'
    BY <1>1, <1>2, Zenon DEF Inv, SenderTypeOK
  <1>4. InsideKnown' /\ Locked'
    BY <1>1, <1>2 DEF Inv, InsideKnown, Locked, joinable
  <1>5. StagedEmpty'
    BY <1>1, <1>2 DEF Inv, StagedEmpty, joinable
  <1>6. MessagesAreConserved'
    BY <1>1 DEF Inv, MessagesAreConserved
  <1>7. KnownIn(queue, length)' /\ (~raced => FullIn(queue, length, m_batchsize))'
    BY <1>1 DEF Inv, KnownIn, FullIn
  <1>8. QED
    BY <1>3, <1>4, <1>5, <1>6, <1>7, Zenon DEF Inv

\* The thread exchanges the queues when the staged one is empty, sends the staged
\* batches in order, and otherwise changes neither.
LEMMA ThreadInv ==
  ASSUME Inv, check \/ swap \/ sendStaged \/ sleep
  PROVE  Inv'
  <1> USE UDPSenderAssumption
  <1> DEFINE B == Seq(1 .. MaxMessages)
  <1>0. datagrams \in Seq(B) /\ staged \in Seq(B) /\ queue \in Seq(B)
    BY DEF Inv, SenderTypeOK
  <1>1. /\ UNCHANGED <<client, initialized, m_batchsize, m_mustExit, lock, inside, raced,
                       length, accepted>>
        /\ thread \in {"check", "swap", "send", "sleep"} /\ thread' \in Threads \ {"none"}
    BY DEF check, swap, sendStaged, sleep, config, Threads
  <1>2. Locked' /\ InsideKnown'
    BY <1>1 DEF Inv, Locked, InsideKnown, joinable
  <1>3. CASE check \/ sleep
    <2>1. UNCHANGED <<queue, staged, datagrams>> /\ thread # "send"
      BY <1>3 DEF check, sleep
    <2>2. SenderTypeOK'
      BY <1>1, <2>1, Zenon DEF Inv, SenderTypeOK
    <2>3. StagedEmpty' /\ MessagesAreConserved'
      BY <1>1, <2>1 DEF Inv, StagedEmpty, MessagesAreConserved
    <2>4. KnownIn(queue, length)' /\ (~raced => FullIn(queue, length, m_batchsize))'
      BY <1>1, <2>1 DEF Inv, KnownIn, FullIn
    <2>5. QED
      BY <1>2, <2>2, <2>3, <2>4, Zenon DEF Inv
  <1>4. CASE swap
    <2>1. staged' = queue /\ queue' = <<>> /\ thread' = "send" /\ datagrams' = datagrams
          /\ staged = <<>>
      BY <1>4 DEF swap, Inv, StagedEmpty
    <2>2. <<>> \in Seq(B)
      OBVIOUS
    <2>3. SenderTypeOK'
      BY <1>0, <1>1, <2>1, <2>2, Zenon DEF Inv, SenderTypeOK
    <2>4. MessagesAreConserved'
      <3>1. datagrams \o <<>> \o queue = datagrams \o queue \o <<>>
        BY <1>0
      <3>2. QED
        BY <1>1, <2>1, <3>1 DEF Inv, MessagesAreConserved
    <2>5. DOMAIN queue' = {} /\ 1 .. Len(queue') - 1 = {}
      BY <2>1
    <2>6. KnownIn(queue, length)' /\ (~raced => FullIn(queue, length, m_batchsize))'
      BY <2>5 DEF KnownIn, FullIn
    <2>7. StagedEmpty'
      BY <2>1 DEF StagedEmpty
    <2>8. QED
      BY <1>2, <2>3, <2>4, <2>6, <2>7, Zenon DEF Inv
  <1>5. CASE sendStaged
    <2>1. queue' = queue
      BY <1>5 DEF sendStaged
    <2>2. KnownIn(queue, length)' /\ (~raced => FullIn(queue, length, m_batchsize))'
      BY <1>1, <2>1 DEF Inv, KnownIn, FullIn
    <2>3. CASE staged = <<>>
      <3>1. UNCHANGED <<staged, datagrams>>
        BY <1>5, <2>3 DEF sendStaged
      <3>2. SenderTypeOK'
        BY <1>1, <2>1, <3>1, Zenon DEF Inv, SenderTypeOK
      <3>3. StagedEmpty' /\ MessagesAreConserved'
        BY <1>1, <2>1, <2>3, <3>1 DEF Inv, StagedEmpty, MessagesAreConserved
      <3>4. QED
        BY <1>2, <2>2, <3>2, <3>3, Zenon DEF Inv
    <2>4. CASE staged # <<>>
      <3>1. /\ datagrams' = Append(datagrams, Head(staged)) /\ staged' = Tail(staged)
            /\ thread = "send" /\ thread' = thread
        BY <1>5, <2>4 DEF sendStaged, sendToDaemon
      <3>2. Head(staged) \in B /\ Tail(staged) \in Seq(B) /\ staged = <<Head(staged)>> \o Tail(staged)
        BY <1>0, <2>4, HeadTailProperties
      <3>3. datagrams' \in Seq(B) /\ datagrams' = datagrams \o <<Head(staged)>>
        BY <1>0, <3>1, <3>2, AppendProperties, AppendIsConcat
      <3>4. SenderTypeOK'
        BY <1>1, <2>1, <3>1, <3>2, <3>3, Zenon DEF Inv, SenderTypeOK
      <3>5. datagrams' \o staged' = datagrams \o staged
        <4>1. <<Head(staged)>> \in Seq(B)
          BY <3>2
        <4>2. (datagrams \o <<Head(staged)>>) \o Tail(staged) =
                datagrams \o (<<Head(staged)>> \o Tail(staged))
          BY <1>0, <3>2, <4>1, ConcatAssociative, SMTT(30)
        <4>3. QED
          BY <3>1, <3>2, <3>3, <4>2, Zenon
      <3>6. MessagesAreConserved'
        BY <1>1, <2>1, <3>5 DEF Inv, MessagesAreConserved
      <3>7. StagedEmpty'
        BY <3>1 DEF StagedEmpty
      <3>8. QED
        BY <1>2, <2>2, <3>4, <3>6, <3>7, Zenon DEF Inv
    <2>5. QED
      BY <2>3, <2>4
  <1>6. QED
    BY <1>3, <1>4, <1>5

\* The destructor leaves what is queued alone.
LEMMA OtherInv ==
  ASSUME Inv, destroy \/ join \/ UNCHANGED vars
  PROVE  Inv'
  <1>1. UNCHANGED <<initialized, m_batchsize, thread, queue, staged, lock, inside, raced,
                    length, accepted, datagrams>>
    BY DEF destroy, join, vars
  <1>2. client' \in {"dummy", "real", "destroying", "destroyed", "terminated"}
    BY DEF Inv, SenderTypeOK, destroy, join, vars
  <1>3. m_mustExit' \in BOOLEAN
    BY Zenon DEF Inv, SenderTypeOK, destroy, join, vars
  <1>4. SenderTypeOK'
    BY <1>1, <1>2, <1>3, Zenon DEF Inv, SenderTypeOK
  <1>5. InsideKnown' /\ Locked' /\ StagedEmpty' /\ MessagesAreConserved'
    BY <1>1 DEF Inv, InsideKnown, Locked, StagedEmpty, MessagesAreConserved, joinable
  <1>6. KnownIn(queue, length)' /\ (~raced => FullIn(queue, length, m_batchsize))'
    BY <1>1 DEF Inv, KnownIn, FullIn
  <1>7. QED
    BY <1>4, <1>5, <1>6, Zenon DEF Inv

\* The invariant holds in every state of the sender.
LEMMA SenderInvariant == Spec => []Inv
  <1>1. Inv /\ [Next]_vars => Inv'
    <2> SUFFICES ASSUME Inv, [Next]_vars PROVE Inv'
      OBVIOUS
    <2>1. ASSUME NEW c \in Callers, queueMessage(c) PROVE Inv'
      BY <2>1, QueueInv
    <2>2. ASSUME NEW c \in Callers, NEW len \in Lengths, send(c, len) PROVE Inv'
      BY <2>2, SendInv
    <2>3. CASE check \/ swap \/ sendStaged \/ sleep
      BY <2>3, ThreadInv
    <2>4. CASE destroy \/ join \/ Over \/ UNCHANGED vars
      BY <2>4, OtherInv DEF Over
    <2>5. ASSUME NEW c \in Callers, queueMessage_terminates(c) PROVE Inv'
      BY <2>5, TerminationInv
    <2>6. QED
      BY <2>1, <2>2, <2>3, <2>4, <2>5 DEF Next
  <1>2. QED
    BY <1>1, InitInv, PTL DEF Spec

\* Every queued message has been sent, in its place, or waits in it.
THEOREM MessagesStayConserved == Spec => []MessagesAreConserved
  <1>1. Inv => MessagesAreConserved
    BY DEF Inv
  <1>2. QED
    BY <1>1, SenderInvariant, PTL

\* A batch is closed by the message that fills it, and not before.
THEOREM BatchesStayFull == Spec => []BatchesAreFull
  <1>1. Inv => BatchesAreFull
    BY DEF Inv, BatchesAreFull, FullIn, BatchLength, TextLength
  <1>2. QED
    BY <1>1, SenderInvariant, PTL

\* m_batchingMutex keeps the callers apart whenever there is a batching thread.
THEOREM QueueStaysLocked == Spec => []QueueIsLocked
  <1>1. Inv => QueueIsLocked
    BY DEF Inv, Locked, QueueIsLocked
  <1>2. QED
    BY <1>1, SenderInvariant, PTL

\* Every variable keeps its type.
THEOREM SenderTypeCorrect == Spec => []SenderTypeOK
  <1>1. Inv => SenderTypeOK
    BY DEF Inv
  <1>2. QED
    BY <1>1, SenderInvariant, PTL
=============================================================================

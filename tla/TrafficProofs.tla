---------------------------- MODULE TrafficProofs ----------------------------
(***************************************************************************)
(* Proofs about the modules of the main process and its engine through which *)
(* traffic goes: Execute, HttpClient, CookieJars, RecordedStore, MqttRelay, *)
(* ProxyCerts, H2Upstream, MockServers and GrpcFrames.  First what recursion *)
(* rests on, induction and lists of lists.  Then a section each: the       *)
(* inductive invariant with what its parts say, a lemma per group of       *)
(* actions, the step, the theorems.                                        *)
(***************************************************************************)
EXTENDS Execute, HttpClient, CookieJars, RecordedStore, MqttRelay, ProxyCerts,
        H2Upstream, MockServers, GrpcFrames, FiniteSetTheorems, SequenceTheorems,
        WellFoundedInduction, TLAPS

(***************************************************************************)
(* Induction.  A recursive definition is reasoned about by the least       *)
(* number of a set: Recursion gives it its values, Induction its           *)
(* properties.                                                             *)
(***************************************************************************)
Less == {pair \in Nat \X Nat : pair[1] < pair[2]}

\* No number has infinitely many below it.
LEMMA LessWellFounded == IsWellFoundedOn(Less, Nat)
BY NatLessThanWellFounded DEF OpToRel, Less

\* A set of numbers has a least one.
LEMMA LeastOf ==
  ASSUME NEW S, S \subseteq Nat, S # {}
  PROVE  \E n \in S : \A m \in S : n <= m
<1>1. PICK n \in S : \A m \in S : ~ (<<m, n>> \in Less)
  BY LessWellFounded, WFMin
<1>2. ASSUME NEW m \in S PROVE n <= m
  <2>1. m \in Nat /\ n \in Nat
    OBVIOUS
  <2>2. m < n => <<m, n>> \in Less
    BY <2>1 DEF Less
  <2>. QED BY <1>1, <2>1, <2>2
<1>. QED BY <1>2

\* What holds of 0, and of a number's successor when it holds of the number, holds of all.
LEMMA Induction ==
  ASSUME NEW P, P \subseteq Nat, 0 \in P, \A n \in P : n + 1 \in P
  PROVE  P = Nat
<1>1. SUFFICES ASSUME Nat \ P # {} PROVE FALSE
  OBVIOUS
<1>2. PICK n \in Nat \ P : \A m \in Nat \ P : n <= m
  BY <1>1, LeastOf
<1>3. n - 1 \in Nat /\ n - 1 < n /\ (n - 1) + 1 = n
  BY <1>2
<1>. QED BY <1>2, <1>3

Approximates(f, n, a, g) ==
  f[0] = a /\ \A k \in 1 .. n : f[k] = g[f[k - 1]]

\* A function applied again and again has its values.
LEMMA Iterated ==
  ASSUME NEW S, NEW a \in S, NEW g \in [S -> S]
  PROVE  \E f \in [Nat -> S] : f[0] = a /\ \A n \in Nat : f[n + 1] = g[f[n]]
<1> DEFINE P == {n \in Nat : \E f \in [0 .. n -> S] : Approximates(f, n, a, g)}
           Approx(n) == CHOOSE f \in [0 .. n -> S] : Approximates(f, n, a, g)
           F == [n \in Nat |-> Approx(n)[n]]
<1>1. P = Nat
  <2>1. 0 \in P
    <3>1. [k \in 0 .. 0 |-> a] \in [0 .. 0 -> S] /\ Approximates([k \in 0 .. 0 |-> a], 0, a, g)
      BY DEF Approximates
    <3>. QED BY <3>1
  <2>2. ASSUME NEW n \in P PROVE n + 1 \in P
    <3>1. PICK f \in [0 .. n -> S] : Approximates(f, n, a, g)
      OBVIOUS
    <3> DEFINE h == [k \in 0 .. n + 1 |-> IF k = n + 1 THEN g[f[n]] ELSE f[k]]
    <3>2. n \in Nat /\ n \in 0 .. n /\ 0 \in 0 .. n
      OBVIOUS
    <3>3. h \in [0 .. n + 1 -> S]
      <4>1. ASSUME NEW k \in 0 .. n + 1 PROVE (IF k = n + 1 THEN g[f[n]] ELSE f[k]) \in S
        BY <3>2
      <4>. QED BY <4>1
    <3>4. h[0] = a
      BY <3>1, <3>2 DEF Approximates
    <3>5. ASSUME NEW k \in 1 .. n + 1 PROVE h[k] = g[h[k - 1]]
      <4>1. k - 1 \in 0 .. n /\ k \in 0 .. n + 1 /\ k - 1 # n + 1 /\ k - 1 \in 0 .. n + 1
        BY <3>2
      <4>2. h[k - 1] = f[k - 1]
        BY <4>1
      <4>3. CASE k = n + 1
        BY <4>1, <4>2, <4>3, <3>2
      <4>4. CASE k \in 1 .. n
        <5>1. k # n + 1
          BY <4>4, <3>2
        <5>2. h[k] = f[k]
          BY <4>1, <5>1
        <5>. QED BY <3>1, <4>2, <4>4, <5>2 DEF Approximates
      <4>. QED BY <4>3, <4>4, <3>2
    <3>6. Approximates(h, n + 1, a, g)
      BY <3>4, <3>5 DEF Approximates
    <3> HIDE DEF h
    <3>. QED BY <3>2, <3>3, <3>6
  <2> HIDE DEF P
  <2>. QED BY <2>1, <2>2, Induction DEF P
<1>2. ASSUME NEW n \in Nat
      PROVE  Approx(n) \in [0 .. n -> S] /\ Approximates(Approx(n), n, a, g)
  <2>1. \E f \in [0 .. n -> S] : Approximates(f, n, a, g)
    BY <1>1
  <2>. QED BY <2>1
<1> HIDE DEF Approx
<1>3. ASSUME NEW n \in Nat PROVE Approx(n + 1)[n] = Approx(n)[n]
  <2> DEFINE u == Approx(n + 1)
             v == Approx(n)
             Q == {k \in Nat : k <= n => u[k] = v[k]}
  <2>1. Approximates(u, n + 1, a, g) /\ Approximates(v, n, a, g)
    BY <1>2
  <2> HIDE DEF u, v
  <2>2. 0 \in Q
    BY <2>1 DEF Approximates
  <2>3. ASSUME NEW k \in Q PROVE k + 1 \in Q
    <3>1. SUFFICES ASSUME k + 1 <= n PROVE u[k + 1] = v[k + 1]
      OBVIOUS
    <3>2. k + 1 \in 1 .. n /\ k + 1 \in 1 .. n + 1 /\ (k + 1) - 1 = k /\ k <= n
      BY <3>1
    <3>3. u[k + 1] = g[u[(k + 1) - 1]] /\ v[k + 1] = g[v[(k + 1) - 1]]
      BY <2>1, <3>2 DEF Approximates
    <3>. QED BY <3>2, <3>3
  <2>4. Q = Nat
    <3> HIDE DEF Q
    <3>. QED BY <2>2, <2>3, Induction DEF Q
  <2>5. u[n] = v[n]
    BY <2>4
  <2>. QED BY <2>5 DEF u, v
<1>4. F \in [Nat -> S]
  <2>1. ASSUME NEW n \in Nat PROVE Approx(n)[n] \in S
    BY <1>2
  <2>. QED BY <2>1
<1>5. F[0] = a
  BY <1>2 DEF Approximates
<1>6. ASSUME NEW n \in Nat PROVE F[n + 1] = g[F[n]]
  <2>1. F[n + 1] = Approx(n + 1)[n + 1] /\ F[n] = Approx(n)[n]
    OBVIOUS
  <2>2. n + 1 \in Nat /\ n + 1 \in 1 .. n + 1 /\ (n + 1) - 1 = n
    OBVIOUS
  <2>3. Approx(n + 1)[n + 1] = g[Approx(n + 1)[(n + 1) - 1]]
    BY <1>2, <2>2 DEF Approximates
  <2>. QED BY <1>3, <2>1, <2>2, <2>3
<1> HIDE DEF F
<1>. QED BY <1>4, <1>5, <1>6

\* What is defined of 0, and of a number's successor from its value at the number.
LEMMA Recursion ==
  ASSUME NEW S, NEW a \in S, NEW g \in [S -> S]
  PROVE  \E f \in [Nat -> S] : f = [n \in Nat |-> IF n = 0 THEN a ELSE g[f[n - 1]]]
<1>1. PICK f \in [Nat -> S] : f[0] = a /\ \A n \in Nat : f[n + 1] = g[f[n]]
  BY Iterated
<1>2. ASSUME NEW n \in Nat PROVE f[n] = IF n = 0 THEN a ELSE g[f[n - 1]]
  <2>1. CASE n = 0
    BY <1>1, <2>1
  <2>2. CASE n # 0
    <3>1. n - 1 \in Nat /\ (n - 1) + 1 = n
      BY <2>2
    <3>. QED BY <1>1, <2>2, <3>1
  <2>. QED BY <2>1, <2>2
<1>. QED BY <1>2

\* Steps on S that know which number they are.
NumberedSteps(S) == [Nat -> [S -> S]]

\* The same, of a step that knows where it is.
LEMMA IndexedRecursion ==
  ASSUME NEW S, NEW a \in S, NEW g \in NumberedSteps(S)
  PROVE  \E f \in [Nat -> S] : f = [n \in Nat |-> IF n = 0 THEN a ELSE g[n][f[n - 1]]]
<1> DEFINE T == Nat \X S
           h == [p \in T |-> <<p[1] + 1, g[p[1] + 1][p[2]]>>]
           start == <<0, a>>
<1>1. start \in T /\ h \in [T -> T]
  <2>1. ASSUME NEW p \in T PROVE <<p[1] + 1, g[p[1] + 1][p[2]]>> \in T
    <3>1. p[1] + 1 \in Nat /\ p[2] \in S
      OBVIOUS
    <3>2. g[p[1] + 1] \in [S -> S]
      BY <3>1 DEF NumberedSteps
    <3>. QED BY <3>1, <3>2
  <2>. QED BY <2>1
<1> HIDE DEF T, h, start
<1>2. PICK f \in [Nat -> T] : f[0] = start /\ \A n \in Nat : f[n + 1] = h[f[n]]
  BY <1>1, Iterated
<1> USE DEF T, h, start
<1> DEFINE k == [n \in Nat |-> f[n][2]]
<1>3. k \in [Nat -> S]
  <2>1. ASSUME NEW n \in Nat PROVE f[n][2] \in S
    <3>1. f[n] \in T
      BY <1>2
    <3>. QED BY <3>1
  <2>. QED BY <2>1
<1>4. \A n \in Nat : f[n][1] = n
  <2> DEFINE P == {n \in Nat : f[n][1] = n}
  <2>1. 0 \in P
    <3>1. f[0] = start /\ start[1] = 0
      BY <1>2
    <3>2. f[0][1] = 0
      BY ONLY <3>1
    <3>. QED BY <3>2
  <2>2. ASSUME NEW n \in P PROVE n + 1 \in P
    <3>1. n \in Nat /\ f[n] \in T /\ f[n][1] = n /\ f[n + 1] = h[f[n]]
      BY <1>2
    <3>. QED BY <3>1
  <2>3. P = Nat
    <3>1. P \subseteq Nat
      OBVIOUS
    <3> HIDE DEF P
    <3>. QED BY <2>1, <2>2, <3>1, Induction
  <2>. QED BY <2>3
<1>5. ASSUME NEW n \in Nat PROVE k[n] = IF n = 0 THEN a ELSE g[n][k[n - 1]]
  <2>1. CASE n = 0
    BY <1>2, <2>1
  <2>2. CASE n # 0
    <3>1. n - 1 \in Nat /\ (n - 1) + 1 = n
      BY <2>2
    <3>2. f[n] = h[f[n - 1]] /\ f[n - 1] \in T /\ f[n - 1][1] = n - 1
      BY <1>2, <1>4, <3>1
    <3> DEFINE p == f[n - 1]
    <3>3. h[p] = <<p[1] + 1, g[p[1] + 1][p[2]]>> /\ p[1] + 1 = n
      BY <3>1, <3>2
    <3>4. k[n] = f[n][2] /\ k[n - 1] = p[2]
      BY <3>1
    <3> HIDE DEF k, h, p
    <3>5. k[n] = g[n][p[2]]
      <4> DEFINE z == g[p[1] + 1][p[2]]
      <4>1. z = g[n][p[2]]
        BY <3>3
      <4>2. f[n] = <<p[1] + 1, z>>
        BY <3>2, <3>3 DEF p
      <4> HIDE DEF z
      <4>. QED BY <3>4, <4>1, <4>2
    <3>. QED BY <2>2, <3>4, <3>5
  <2>. QED BY <2>1, <2>2
<1> HIDE DEF k
<1>. QED BY <1>3, <1>5

\* Sequences of sequences.
Lists(S) == Seq(Seq(S))

\* Sequences one after the other.
LEMMA Flattened ==
  ASSUME NEW S, NEW ss \in Lists(S)
  PROVE  \E f \in [Nat -> Seq(S)] :
           /\ f[0] = <<>> /\ FlattenSeq(ss) = f[Len(ss)]
           /\ \A i \in 1 .. Len(ss) : f[i] = f[i - 1] \o ss[i]
<1> DEFINE T == Seq(S)
           start == <<>>
           g == [n \in Nat |-> [t \in T |-> IF n \in 1 .. Len(ss) THEN t \o ss[n] ELSE t]]
<1>1. Len(ss) \in Nat /\ start \in T /\ \A i \in 1 .. Len(ss) : ss[i] \in T
  BY LenProperties, EmptySeq, ElementOfSeq DEF Lists
<1>2. g \in NumberedSteps(T)
  <2>1. ASSUME NEW n \in Nat, NEW t \in T
        PROVE (IF n \in 1 .. Len(ss) THEN t \o ss[n] ELSE t) \in T
    <3>1. CASE n \in 1 .. Len(ss)
      BY <1>1, <3>1, ConcatProperties
    <3>. QED BY <3>1
  <2>. QED BY <2>1 DEF NumberedSteps
<1> HIDE DEF T, g, start
<1>3. PICK f \in [Nat -> T] : f = [n \in Nat |-> IF n = 0 THEN start ELSE g[n][f[n - 1]]]
  <2>1. start \in T
    BY <1>1
  <2>. QED BY <2>1, <1>2, IndexedRecursion
<1> USE DEF T, g, start
<1>4. f[0] = <<>>
  BY <1>3
<1>5. ASSUME NEW i \in 1 .. Len(ss) PROVE f[i] = f[i - 1] \o ss[i]
  <2>1. i \in Nat /\ i # 0 /\ i - 1 \in Nat
    BY <1>1
  <2>2. f[i - 1] \in T
    BY <2>1
  <2>3. f[i] = g[i][f[i - 1]]
    <3> HIDE DEF g
    <3>. QED BY <1>3, <2>1
  <2>. QED BY <2>1, <2>2, <2>3
<1> HIDE DEF g, T
<1>6. FlattenSeq(ss) = f[Len(ss)]
  <2>1. CASE Len(ss) = 0
    <3>1. ss = <<>>
      BY <2>1, EmptySeq
    <3>. QED BY <2>1, <3>1, <1>4 DEF FlattenSeq
  <2>2. CASE Len(ss) # 0
    <3> DEFINE h == [i \in 1 .. Len(ss) |-> f[i]]
    <3>1. h = [i \in 1 .. Len(ss) |-> IF i = 1 THEN ss[i] ELSE h[i - 1] \o ss[i]]
      <4>1. ASSUME NEW i \in 1 .. Len(ss)
            PROVE f[i] = IF i = 1 THEN ss[i] ELSE h[i - 1] \o ss[i]
        <5>1. CASE i = 1
          <6>1. f[1] = <<>> \o ss[1] /\ ss[1] \in Seq(S)
            <7>1. 1 \in 1 .. Len(ss) /\ 1 - 1 = 0
              BY <5>1
            <7>2. f[1] = f[0] \o ss[1]
              BY <1>5, <7>1
            <7>. QED BY <1>1, <1>4, <7>1, <7>2 DEF T
          <6>. QED BY <5>1, <6>1, ConcatEmptySeq
        <5>2. CASE i # 1
          <6>1. i - 1 \in 1 .. Len(ss)
            BY <1>1, <5>2
          <6>. QED BY <1>5, <5>2, <6>1
        <5>. QED BY <5>1, <5>2
      <4>. QED BY <4>1
    <3> DEFINE k == CHOOSE c : c = [i \in 1 .. Len(ss) |-> IF i = 1 THEN ss[i] ELSE c[i - 1] \o ss[i]]
    <3>2. k = [i \in 1 .. Len(ss) |-> IF i = 1 THEN ss[i] ELSE k[i - 1] \o ss[i]]
      <4> HIDE DEF h
      <4>. QED BY <3>1
    <3>3. FlattenSeq(ss) = k[Len(ss)]
      BY <2>2 DEF FlattenSeq
    <3> DEFINE P == {n \in Nat : n \in 1 .. Len(ss) => k[n] = f[n]}
    <3> HIDE DEF k, h
    <3>4. 0 \in P
      BY <1>1
    <3>5. ASSUME NEW n \in P PROVE n + 1 \in P
      <4>1. SUFFICES ASSUME n + 1 \in 1 .. Len(ss) PROVE k[n + 1] = f[n + 1]
        OBVIOUS
      <4>2. n \in Nat /\ (n + 1) - 1 = n
        OBVIOUS
      <4>3. k[n + 1] = IF n + 1 = 1 THEN ss[n + 1] ELSE k[n] \o ss[n + 1]
        BY <3>2, <4>1, <4>2
      <4>4. f[n + 1] = f[n] \o ss[n + 1]
        BY <1>5, <4>1, <4>2
      <4>5. CASE n = 0
        <5>1. ss[1] \in Seq(S)
          BY <1>1, <4>1, <4>5 DEF T
        <5>3. n + 1 = 1
          BY <4>5
        <5>2. f[1] = <<>> \o ss[1]
          <6>1. f[n] = <<>>
            BY <1>4, <4>5
          <6>. QED BY <4>4, <5>3, <6>1
        <5>. QED BY <4>3, <5>1, <5>2, <5>3, ConcatEmptySeq
      <4>6. CASE n # 0
        <5>1. n \in 1 .. Len(ss) /\ n + 1 # 1
          BY <1>1, <4>1, <4>2, <4>6
        <5>. QED BY <4>3, <4>4, <5>1
      <4>. QED BY <4>5, <4>6
    <3>6. P = Nat
      <4>1. P \subseteq Nat
        OBVIOUS
      <4> HIDE DEF P
      <4>. QED BY <3>4, <3>5, <4>1, Induction
    <3>. QED BY <1>1, <2>2, <3>3, <3>6
  <2>. QED BY <2>1, <2>2
<1>. QED BY <1>4, <1>5, <1>6 DEF T

\* They make a sequence.
LEMMA FlatIsSeq ==
  ASSUME NEW S, NEW ss \in Lists(S)
  PROVE  FlattenSeq(ss) \in Seq(S)
<1>1. Len(ss) \in Nat
  BY LenProperties DEF Lists
<1>2. PICK f \in [Nat -> Seq(S)] : FlattenSeq(ss) = f[Len(ss)]
  BY Flattened
<1>. QED BY <1>1, <1>2

\* A beginning that is one longer.
LEMMA OneLonger ==
  ASSUME NEW S, NEW seq \in Seq(S), NEW i \in Nat, i + 1 <= Len(seq)
  PROVE  /\ SubSeq(seq, 1, i) \in Seq(S) /\ Len(SubSeq(seq, 1, i)) = i
         /\ SubSeq(seq, 1, i + 1) = Append(SubSeq(seq, 1, i), seq[i + 1])
<1>1. Len(seq) \in Nat /\ \A j \in 1 .. Len(seq) : seq[j] \in S
  BY LenProperties, ElementOfSeq
<1> DEFINE a == SubSeq(seq, 1, i)
           b == SubSeq(seq, 1, i + 1)
<1>2. a \in Seq(S) /\ Len(a) = i /\ \A j \in 1 .. i : a[j] = seq[j]
  <2>1. \A j \in 1 .. i : seq[j] \in S
    BY <1>1
  <2>2. i \in Int /\ 1 \in Int /\ (i - 1) + 1 = i
    OBVIOUS
  <2>3. /\ SubSeq(seq, 1, i) \in Seq(S)
        /\ Len(SubSeq(seq, 1, i)) = IF 1 <= i THEN i - 1 + 1 ELSE 0
        /\ \A j \in 1 .. i - 1 + 1 : SubSeq(seq, 1, i)[j] = seq[1 + j - 1]
    BY <2>1, <2>2, SubSeqProperties
  <2>. QED BY <2>3
<1>3. b \in Seq(S) /\ Len(b) = i + 1 /\ \A j \in 1 .. i + 1 : b[j] = seq[j]
  <2>1. \A j \in 1 .. i + 1 : seq[j] \in S
    BY <1>1
  <2>2. i + 1 \in Int /\ 1 \in Int
    OBVIOUS
  <2>3. /\ SubSeq(seq, 1, i + 1) \in Seq(S)
        /\ Len(SubSeq(seq, 1, i + 1)) = IF 1 <= i + 1 THEN (i + 1) - 1 + 1 ELSE 0
        /\ \A j \in 1 .. (i + 1) - 1 + 1 : SubSeq(seq, 1, i + 1)[j] = seq[1 + j - 1]
    BY <2>1, <2>2, SubSeqProperties
  <2>. QED BY <2>3
<1> HIDE DEF a, b
<1>4. seq[i + 1] \in S
  BY <1>1
<1>5. /\ Append(a, seq[i + 1]) \in Seq(S) /\ Len(Append(a, seq[i + 1])) = i + 1
      /\ \A j \in 1 .. i + 1 : Append(a, seq[i + 1])[j] = IF j <= i THEN a[j] ELSE seq[i + 1]
  BY <1>2, <1>4, AppendProperties
<1>6. \A j \in 1 .. i + 1 : b[j] = Append(a, seq[i + 1])[j]
  BY <1>2, <1>3, <1>5
<1>7. b = Append(a, seq[i + 1])
  BY <1>3, <1>5, <1>6, SeqEqual
<1>. QED BY <1>2, <1>7 DEF a, b

\* Steps on S that know which of N they are.
StepsTo(N, S) == [1 .. N -> [S -> S]]

\* What is defined of 0 .. N alone.
LEMMA BoundedRecursion ==
  ASSUME NEW S, NEW a \in S, NEW N \in Nat, NEW g \in StepsTo(N, S)
  PROVE  \E f \in [0 .. N -> S] : f = [n \in 0 .. N |-> IF n = 0 THEN a ELSE g[n][f[n - 1]]]
<1> DEFINE h == [n \in Nat |-> [x \in S |-> IF n \in 1 .. N THEN g[n][x] ELSE x]]
<1>1. h \in NumberedSteps(S)
  <2>1. ASSUME NEW n \in Nat, NEW x \in S PROVE (IF n \in 1 .. N THEN g[n][x] ELSE x) \in S
    BY DEF StepsTo
  <2>. QED BY <2>1 DEF NumberedSteps
<1>2. \A n \in 1 .. N, x \in S : h[n][x] = g[n][x]
  OBVIOUS
<1> HIDE DEF h
<1>3. PICK k \in [Nat -> S] : k = [n \in Nat |-> IF n = 0 THEN a ELSE h[n][k[n - 1]]]
  BY <1>1, IndexedRecursion
<1> DEFINE f == [n \in 0 .. N |-> k[n]]
<1>4. ASSUME NEW n \in 0 .. N PROVE f[n] = IF n = 0 THEN a ELSE g[n][f[n - 1]]
  <2>1. CASE n = 0
    <3>1. k[0] = a
      BY <1>3
    <3>. QED BY <2>1, <3>1
  <2>2. CASE n # 0
    <3>1. n \in 1 .. N /\ n - 1 \in 0 .. N /\ n \in Nat /\ n - 1 \in Nat
      BY <2>2
    <3>2. k[n] = h[n][k[n - 1]]
      BY <1>3, <2>2, <3>1
    <3>3. k[n - 1] \in S
      BY <3>1
    <3>. QED BY <1>2, <2>2, <3>1, <3>2, <3>3
  <2>. QED BY <2>1, <2>2
<1>5. f \in [0 .. N -> S]
  OBVIOUS
<1> HIDE DEF f
<1>. QED BY <1>4, <1>5

\* Where the elements that are joined come from, in order.
Keeps(s, ss, joined, n, from) ==
  /\ from \in [1 .. Len(joined) -> 1 .. n]
  /\ \A i, j \in 1 .. Len(joined) : i < j => from[i] < from[j]
  /\ \A i \in 1 .. Len(joined) : joined[i] = s[from[i]] /\ ss[from[i]] # <<>>
  /\ \A k \in 1 .. n : ss[k] # <<>> => \E i \in 1 .. Len(joined) : from[i] = k

\* A list of which some elements are joined.
LEMMA Kept ==
  ASSUME NEW S, NEW s \in Seq(S), NEW ss \in Lists(S), Len(ss) = Len(s),
         \A i \in 1 .. Len(s) : ss[i] = <<>> \/ ss[i] = <<s[i]>>
  PROVE  /\ FlattenSeq(ss) \in Seq(S)
         /\ \E from : Keeps(s, ss, FlattenSeq(ss), Len(s), from)
<1> DEFINE len == Len(s)
<1>1. len \in Nat /\ \A i \in 1 .. len : s[i] \in S
  BY LenProperties, ElementOfSeq
<1>2. PICK f \in [Nat -> Seq(S)] :
        /\ f[0] = <<>> /\ FlattenSeq(ss) = f[len]
        /\ \A i \in 1 .. len : f[i] = f[i - 1] \o ss[i]
  <2>1. PICK f \in [Nat -> Seq(S)] :
          /\ f[0] = <<>> /\ FlattenSeq(ss) = f[Len(ss)]
          /\ \A i \in 1 .. Len(ss) : f[i] = f[i - 1] \o ss[i]
    BY Flattened
  <2>2. f[0] = <<>> /\ FlattenSeq(ss) = f[len] /\ \A i \in 1 .. len : f[i] = f[i - 1] \o ss[i]
    BY <2>1
  <2>. QED BY <2>2
<1> DEFINE P == {n \in Nat : n <= len => \E from : Keeps(s, ss, f[n], n, from)}
<1>3. 0 \in P
  <2> DEFINE from == <<>>
  <2>1. Len(f[0]) = 0 /\ 1 .. 0 = {}
    BY <1>2, EmptySeq
  <2>2. Keeps(s, ss, f[0], 0, <<>>)
    BY <2>1 DEF Keeps
  <2>. QED BY <2>2
<1>4. ASSUME NEW n \in P PROVE n + 1 \in P
  <2>1. SUFFICES ASSUME n + 1 <= len PROVE \E from : Keeps(s, ss, f[n + 1], n + 1, from)
    OBVIOUS
  <2>2. n \in Nat /\ (n <= len => \E from : Keeps(s, ss, f[n], n, from))
    OBVIOUS
  <2> HIDE DEF P
  <2> DEFINE old == f[n]
             new == f[n + 1]
             m == Len(old)
  <2>3. PICK from : Keeps(s, ss, old, n, from)
    BY <1>1, <2>1, <2>2
  <2>4. n + 1 \in 1 .. len /\ (n + 1) - 1 = n
    BY <1>1, <2>1, <2>2
  <2>5. new = old \o ss[n + 1] /\ old \in Seq(S) /\ m \in Nat /\ s[n + 1] \in S
    BY <1>1, <1>2, <2>2, <2>4, LenProperties
  <2>6. CASE ss[n + 1] = <<>>
    <3>1. new = old
      BY <2>5, <2>6, ConcatEmptySeq
    <3>2. from \in [1 .. m -> 1 .. n + 1]
      BY <2>2, <2>3 DEF Keeps
    <3>3. \A k \in 1 .. n + 1 : k \in 1 .. n \/ k = n + 1
      <4>1. n \in Nat
        BY <2>2
      <4>. QED BY <4>1
    <3>4. Keeps(s, ss, old, n + 1, from)
      <4> HIDE DEF old
      <4>1. /\ \A i, j \in 1 .. Len(old) : i < j => from[i] < from[j]
            /\ \A i \in 1 .. Len(old) : old[i] = s[from[i]] /\ ss[from[i]] # <<>>
        BY <2>3 DEF Keeps
      <4>2. \A k \in 1 .. n : ss[k] # <<>> => \E i \in 1 .. Len(old) : from[i] = k
        BY <2>3 DEF Keeps
      <4>3. \A k \in 1 .. n + 1 : ss[k] # <<>> => \E i \in 1 .. Len(old) : from[i] = k
        BY <2>6, <3>3, <4>2
      <4>. QED BY <3>2, <4>1, <4>3 DEF Keeps, m
    <3>. QED BY <3>1, <3>4
  <2>7. CASE ss[n + 1] # <<>>
    <3> DEFINE to == [i \in 1 .. m + 1 |-> IF i = m + 1 THEN n + 1 ELSE from[i]]
    <3>1. ss[n + 1] = <<s[n + 1]>>
      BY <2>4, <2>7
    <3> HIDE DEF new, old
    <3>2. new = Append(old, s[n + 1])
      BY <2>5, <3>1, AppendIsConcat
    <3>3. Len(new) = m + 1 /\ (\A i \in 1 .. m : new[i] = old[i]) /\ new[m + 1] = s[n + 1]
      BY <2>5, <3>2, AppendProperties
    <3> HIDE DEF m
    <3>4. /\ from \in [1 .. m -> 1 .. n]
          /\ \A i, j \in 1 .. m : i < j => from[i] < from[j]
          /\ \A i \in 1 .. m : old[i] = s[from[i]] /\ ss[from[i]] # <<>>
          /\ \A k \in 1 .. n : ss[k] # <<>> => \E i \in 1 .. m : from[i] = k
      BY <2>3 DEF Keeps, m
    <3>5. /\ m \in Nat /\ m + 1 \in 1 .. m + 1
          /\ \A i \in 1 .. m + 1 : i \in 1 .. m \/ i = m + 1
          /\ \A i \in 1 .. m : i \in 1 .. m + 1 /\ i # m + 1
          /\ \A k \in 1 .. n + 1 : k \in 1 .. n \/ k = n + 1
          /\ \A k \in 1 .. n : k \in 1 .. n + 1 /\ k < n + 1
          /\ n + 1 \in 1 .. n + 1
      <4>1. m \in Nat /\ n \in Nat
        BY <2>2, <2>5 DEF m
      <4>2. /\ m + 1 \in 1 .. m + 1
            /\ \A i \in 1 .. m + 1 : i \in 1 .. m \/ i = m + 1
            /\ \A i \in 1 .. m : i \in 1 .. m + 1 /\ i # m + 1
        BY <4>1
      <4>3. /\ \A k \in 1 .. n + 1 : k \in 1 .. n \/ k = n + 1
            /\ \A k \in 1 .. n : k \in 1 .. n + 1 /\ k < n + 1
            /\ n + 1 \in 1 .. n + 1
        BY <4>1
      <4>. QED BY <4>1, <4>2, <4>3
    <3>6. (\A i \in 1 .. m : to[i] = from[i] /\ to[i] \in 1 .. n) /\ to[m + 1] = n + 1
      BY <3>4, <3>5
    <3>7. to \in [1 .. m + 1 -> 1 .. n + 1]
      BY <3>4, <3>5
    <3> HIDE DEF to
    <3>8. ASSUME NEW i \in 1 .. m + 1, NEW j \in 1 .. m + 1, i < j PROVE to[i] < to[j]
      <4>1. i \in 1 .. m
        BY <2>5, <3>5, <3>8
      <4>. QED BY <3>4, <3>5, <3>6, <3>8, <4>1
    <3>9. \A i \in 1 .. m + 1 : new[i] = s[to[i]] /\ ss[to[i]] # <<>>
      BY <2>7, <3>3, <3>4, <3>5, <3>6
    <3>10. \A k \in 1 .. n + 1 : ss[k] # <<>> => \E i \in 1 .. m + 1 : to[i] = k
      BY <3>4, <3>5, <3>6
    <3>11. Keeps(s, ss, new, n + 1, to)
      BY <3>3, <3>7, <3>8, <3>9, <3>10 DEF Keeps
    <3>. QED BY <3>11 DEF new
  <2>. QED BY <2>6, <2>7
<1>5. P = Nat
  <2>1. P \subseteq Nat
    OBVIOUS
  <2> HIDE DEF P
  <2>. QED BY <1>3, <1>4, <2>1, Induction
<1>6. \E from : Keeps(s, ss, f[len], len, from)
  <2>1. len \in Nat
    BY <1>1
  <2> HIDE DEF len, P
  <2>2. len \in P /\ len <= len
    BY <1>5, <2>1
  <2>3. \A n \in P : n <= len => \E from : Keeps(s, ss, f[n], n, from)
    BY ONLY DEF P
  <2>. QED BY <2>2, <2>3
<1>. QED BY <1>1, <1>2, <1>6

\* The list that is one longer than the first n of it.
Joined(ss, f) == f[0] = <<>> /\ \A i \in 1 .. Len(ss) : f[i] = f[i - 1] \o ss[i]

\* The lists of two, one after the other.
LEMMA FlatConcat ==
  ASSUME NEW S, NEW ss \in Lists(S), NEW tt \in Lists(S)
  PROVE  ss \o tt \in Lists(S) /\ FlattenSeq(ss \o tt) = FlattenSeq(ss) \o FlattenSeq(tt)
<1> DEFINE T == Seq(S)
           n == Len(ss)
           m == Len(tt)
           uu == ss \o tt
<1>1. /\ ss \in Seq(T) /\ tt \in Seq(T) /\ n \in Nat /\ m \in Nat
      /\ (\A i \in 1 .. n : ss[i] \in T) /\ \A i \in 1 .. m : tt[i] \in T
  <2>1. ss \in Seq(T) /\ tt \in Seq(T)
    BY DEF Lists
  <2> HIDE DEF T
  <2>. QED BY <2>1, LenProperties, ElementOfSeq
<1> HIDE DEF T
<1>2. /\ uu \in Seq(T) /\ Len(uu) = n + m
      /\ (\A i \in 1 .. n : uu[i] = ss[i]) /\ \A i \in 1 .. m : uu[n + i] = tt[i]
  <2>1. /\ uu \in Seq(T) /\ Len(uu) = Len(ss) + Len(tt)
        /\ \A i \in 1 .. Len(ss) + Len(tt) : uu[i] = IF i <= Len(ss) THEN ss[i] ELSE tt[i - Len(ss)]
    BY <1>1, ConcatProperties
  <2> HIDE DEF uu, n, m
  <2>2. \A i \in 1 .. n + m : uu[i] = IF i <= n THEN ss[i] ELSE tt[i - n]
    BY <2>1 DEF n, m
  <2>3. \A i \in 1 .. n : i \in 1 .. n + m /\ i <= n
    BY <1>1
  <2>4. \A i \in 1 .. m : n + i \in 1 .. n + m /\ ~(n + i <= n) /\ (n + i) - n = i
    BY <1>1
  <2>. QED BY <2>1, <2>2, <2>3, <2>4 DEF n, m
<1>3. uu \in Lists(S)
  BY <1>2 DEF Lists, T
<1> HIDE DEF uu
<1>4. PICK f \in [Nat -> T] : FlattenSeq(ss) = f[n] /\ Joined(ss, f)
  BY Flattened DEF T, Joined
<1>5. PICK g \in [Nat -> T] : FlattenSeq(tt) = g[m] /\ Joined(tt, g)
  BY Flattened DEF T, Joined
<1>6. PICK h \in [Nat -> T] : FlattenSeq(uu) = h[Len(uu)] /\ Joined(uu, h)
  BY <1>3, Flattened DEF T, Joined
<1> HIDE DEF n, m
<1>7. /\ f[0] = <<>> /\ (\A i \in 1 .. n : f[i] = f[i - 1] \o ss[i])
      /\ g[0] = <<>> /\ (\A i \in 1 .. m : g[i] = g[i - 1] \o tt[i])
      /\ h[0] = <<>> /\ \A i \in 1 .. n + m : h[i] = h[i - 1] \o uu[i]
  BY <1>2, <1>4, <1>5, <1>6 DEF Joined, n, m
<1>8. \A i \in Nat : i <= n => h[i] = f[i]
  <2> DEFINE P == {i \in Nat : i <= n => h[i] = f[i]}
  <2>1. 0 \in P
    BY <1>7
  <2>2. ASSUME NEW i \in P PROVE i + 1 \in P
    <3>1. SUFFICES ASSUME i + 1 <= n PROVE h[i + 1] = f[i + 1]
      OBVIOUS
    <3>2. i \in Nat /\ (i <= n => h[i] = f[i])
      OBVIOUS
    <3> HIDE DEF P
    <3>3. i + 1 \in 1 .. n /\ i + 1 \in 1 .. n + m /\ (i + 1) - 1 = i /\ i <= n
      BY <1>1, <3>1, <3>2 DEF n, m
    <3>4. h[i + 1] = h[i] \o uu[i + 1] /\ f[i + 1] = f[i] \o ss[i + 1]
      BY <1>7, <3>3
    <3>. QED BY <1>2, <3>2, <3>3, <3>4
  <2>3. P = Nat
    <3>1. P \subseteq Nat
      OBVIOUS
    <3> HIDE DEF P
    <3>. QED BY <2>1, <2>2, <3>1, Induction
  <2>. QED BY <2>3
<1>9. n \in Nat /\ m \in Nat
  BY <1>1
<1>10. \A i \in Nat : i <= m => h[n + i] = f[n] \o g[i]
  <2> DEFINE P == {i \in Nat : i <= m => h[n + i] = f[n] \o g[i]}
  <2>1. 0 \in P
    <3>1. h[n] = f[n] /\ n + 0 = n /\ f[n] \in T
      BY <1>8, <1>9
    <3>2. f[n] \o <<>> = f[n]
      BY <3>1, ConcatEmptySeq DEF T
    <3>. QED BY <1>7, <3>1, <3>2
  <2>2. ASSUME NEW i \in P PROVE i + 1 \in P
    <3>0. i + 1 \in Nat /\ i \in Nat
      OBVIOUS
    <3>1. SUFFICES ASSUME i + 1 <= m PROVE h[n + (i + 1)] = f[n] \o g[i + 1]
      BY <3>0
    <3>2. i \in Nat /\ (i <= m => h[n + i] = f[n] \o g[i])
      OBVIOUS
    <3> HIDE DEF P
    <3>3. i + 1 \in 1 .. m /\ n + (i + 1) \in 1 .. n + m /\ (i + 1) - 1 = i /\ i <= m /\ (n + (i + 1)) - 1 = n + i
      BY <1>9, <3>1, <3>2
    <3>4. h[n + (i + 1)] = h[n + i] \o uu[n + (i + 1)] /\ g[i + 1] = g[i] \o tt[i + 1]
      BY <1>7, <3>3
    <3>5. uu[n + (i + 1)] = tt[i + 1] /\ tt[i + 1] \in T /\ f[n] \in T /\ g[i] \in T
      BY <1>1, <1>2, <1>9, <3>2, <3>3 DEF n, m
    <3>6. h[n + i] = f[n] \o g[i]
      BY <3>2, <3>3
    <3>10. f[n] \in Seq(S) /\ g[i] \in Seq(S) /\ tt[i + 1] \in Seq(S)
      BY <3>5 DEF T
    <3>7. (f[n] \o g[i]) \o tt[i + 1] = f[n] \o (g[i] \o tt[i + 1])
      <4> DEFINE a == f[n]
                 b == g[i]
                 c == tt[i + 1]
      <4>1. a \in Seq(S) /\ b \in Seq(S) /\ c \in Seq(S)
        BY <3>10
      <4> HIDE DEF a, b, c
      <4>2. (a \o b) \o c = a \o (b \o c)
        BY <4>1, ConcatAssociative
      <4>. QED BY <4>2 DEF a, b, c
    <3>. QED BY <3>4, <3>5, <3>6, <3>7
  <2>3. P = Nat
    <3>1. P \subseteq Nat
      OBVIOUS
    <3> HIDE DEF P
    <3>. QED BY <2>1, <2>2, <3>1, Induction
  <2>. QED BY <2>3
<1>11. h[n + m] = f[n] \o g[m]
  BY <1>9, <1>10
<1>12. Len(uu) = n + m
  BY <1>2
<1>. QED BY <1>3, <1>4, <1>5, <1>6, <1>11, <1>12 DEF uu, n, m

\* Every element, or none.
LEMMA FlatAll ==
  ASSUME NEW S, NEW s \in Seq(S), NEW ss \in Lists(S), Len(ss) = Len(s),
         \A i \in 1 .. Len(s) : ss[i] = <<s[i]>>
  PROVE  FlattenSeq(ss) = s
<1> DEFINE n == Len(s)
<1>1. n \in Nat /\ \A i \in 1 .. n : s[i] \in S
  BY LenProperties, ElementOfSeq
<1>2. PICK f \in [Nat -> Seq(S)] : FlattenSeq(ss) = f[Len(ss)] /\ Joined(ss, f)
  BY Flattened DEF Joined
<1>3. f[0] = <<>> /\ \A i \in 1 .. n : f[i] = f[i - 1] \o <<s[i]>>
  BY <1>2 DEF Joined
<1>4. \A i \in Nat : i <= n => f[i] = SubSeq(s, 1, i)
  <2> DEFINE P == {i \in Nat : i <= n => f[i] = SubSeq(s, 1, i)}
  <2>1. 0 \in P
    BY <1>3, SubSeqEmpty
  <2>2. ASSUME NEW i \in P PROVE i + 1 \in P
    <3>1. i \in Nat /\ (i <= n => f[i] = SubSeq(s, 1, i))
      OBVIOUS
    <3>2. SUFFICES ASSUME i + 1 <= n PROVE f[i + 1] = SubSeq(s, 1, i + 1)
      <4>1. i + 1 \in Nat
        BY <3>1
      <4> HIDE DEF n
      <4>. QED BY <4>1
    <3> HIDE DEF P
    <3>3. i + 1 \in 1 .. n /\ (i + 1) - 1 = i /\ i <= n
      <4>1. n \in Nat /\ i \in Nat /\ i + 1 <= n
        BY <1>1, <3>2, <3>1
      <4> HIDE DEF n
      <4>. QED BY <4>1
    <3>4. f[i + 1] = f[i] \o <<s[i + 1]>> /\ s[i + 1] \in S
      BY <1>1, <1>3, <3>3
    <3>5. SubSeq(s, 1, i) \in Seq(S) /\ SubSeq(s, 1, i + 1) = Append(SubSeq(s, 1, i), s[i + 1])
      BY <3>2, <3>1, OneLonger
    <3>6. Append(SubSeq(s, 1, i), s[i + 1]) = SubSeq(s, 1, i) \o <<s[i + 1]>>
      BY <3>4, <3>5, AppendIsConcat
    <3>. QED BY <3>1, <3>3, <3>4, <3>5, <3>6
  <2>3. P = Nat
    <3>1. P \subseteq Nat
      OBVIOUS
    <3> HIDE DEF P
    <3>. QED BY <2>1, <2>2, <3>1, Induction
  <2>. QED BY <2>3
<1>5. f[n] = SubSeq(s, 1, n) /\ SubSeq(s, 1, n) = s
  <2>1. SubSeq(s, 1, n) = s
    BY SubSeqFull
  <2> HIDE DEF n
  <2>2. n \in Nat /\ n <= n
    BY <1>1
  <2>. QED BY <1>4, <2>1, <2>2
<1>. QED BY <1>2, <1>5

\* No element of the list is kept.
LEMMA FlatNone ==
  ASSUME NEW S, NEW s \in Seq(S), NEW ss \in Lists(S), Len(ss) = Len(s),
         \A i \in 1 .. Len(s) : ss[i] = <<>>
  PROVE  FlattenSeq(ss) = <<>>
<1>1. FlattenSeq(ss) \in Seq(S) /\ \E from : Keeps(s, ss, FlattenSeq(ss), Len(s), from)
  BY Kept
<1> DEFINE joined == FlattenSeq(ss)
<1> HIDE DEF joined
<1>2. PICK from : Keeps(s, ss, joined, Len(s), from)
  BY <1>1 DEF joined
<1>3. joined \in Seq(S) /\ Len(joined) \in Nat
  BY <1>1, LenProperties DEF joined
<1>4. CASE Len(joined) # 0
  <2>1. 1 \in 1 .. Len(joined)
    BY <1>3, <1>4
  <2>2. from[1] \in 1 .. Len(s) /\ ss[from[1]] # <<>>
    BY <1>2, <2>1 DEF Keeps
  <2>. QED BY <2>2
<1>. QED BY <1>3, <1>4, EmptySeq DEF joined

-----------------------------------------------------------------------------
(***************************************************************************)
(* Execute: executions over one session and one history.                   *)
(***************************************************************************)
ExecuteValues == Requests \cup {NoValue}

ExecuteTypes ==
  /\ stage \in [Requests -> {"idle", "pre", "sending", "test", "reported", "rejected"}]
  /\ kind \in [Requests -> Kinds]
  /\ scripts \in [Requests -> Nat]
  /\ sessionVar \in ExecuteValues
  /\ sessionObj \in [Requests -> ExecuteValues]
  /\ began \in [Requests -> ExecuteValues]
  /\ errored \in [Requests -> BOOLEAN]
  /\ response \in [Requests -> {"none", "ok", "bad"}]
  /\ sentWith \in [Requests -> ExecuteValues \cup {"unsent"}]
  /\ wrote \subseteq Requests /\ trouble \subseteq Requests /\ jar \subseteq Requests

\* What an execution sees of the session: its own writing, else what it copied.
OwnView(e) == IF e \in wrote THEN e ELSE began[e]

\* An execution works from its own view, and sends it; nothing else sends.
ViewsAreOwn ==
  \A e \in Requests :
    /\ stage[e] = "pre" => sessionObj[e] = OwnView(e)
    /\ stage[e] \in {"idle", "pre"} => sentWith[e] = "unsent"
    /\ stage[e] = "idle" => e \notin wrote
    /\ stage[e] \in {"sending", "test"} => sentWith[e] = OwnView(e)

\* The report tells of all trouble met, at any time.
ErrorsAreTold == \A e \in Requests : errored[e] <=> e \in trouble

\* The lines of the history are of executions that were sent and are over.
LinesAreTrue ==
  \A l \in history : \E e \in Requests :
    /\ l = <<e, e \in trouble>>
    /\ stage[e] = "reported" /\ sentWith[e] # "unsent"

SentAreLogged ==
  \A e \in Requests :
    stage[e] = "reported" /\ sentWith[e] # "unsent" => <<e, e \in trouble>> \in history

ExecuteInv == ExecuteTypes /\ ViewsAreOwn /\ ErrorsAreTold /\ LinesAreTrue /\ SentAreLogged

\* Nothing is under way at the start.
LEMMA ExecuteInitInv == ExecuteInit => ExecuteInv
  BY DEF ExecuteInit, ExecuteInv, ExecuteTypes, ExecuteValues, ViewsAreOwn, OwnView, ErrorsAreTold,
         LinesAreTrue, SentAreLogged, Kinds

\* What a step of execution e does to the others: nothing they look at.
OnlyOf(e) ==
  /\ stage[e] \in {"idle", "pre", "sending", "test"}
  /\ \A d \in Requests \ {e} :
       /\ stage'[d] = stage[d] /\ sessionObj'[d] = sessionObj[d] /\ began'[d] = began[d]
       /\ sentWith'[d] = sentWith[d] /\ errored'[d] = errored[d]
       /\ d \in wrote' <=> d \in wrote
       /\ d \in trouble' <=> d \in trouble

\* Every step that does not finish keeps the history, and does not log.
LEMMA QuietExecution ==
  ASSUME NEW e \in Requests, ExecuteInv, ExecuteTypes', OnlyOf(e), history' = history,
         stage'[e] = "reported" => sentWith'[e] = "unsent",
         errored'[e] <=> e \in trouble',
         /\ stage'[e] = "pre" => sessionObj'[e] = (IF e \in wrote' THEN e ELSE began'[e])
         /\ stage'[e] \in {"idle", "pre"} => sentWith'[e] = "unsent"
         /\ stage'[e] = "idle" => e \notin wrote'
         /\ stage'[e] \in {"sending", "test"} => sentWith'[e] = (IF e \in wrote' THEN e ELSE began'[e])
  PROVE  ExecuteInv'
<1> USE DEF ExecuteInv, OnlyOf
<1>1. ViewsAreOwn'
  BY DEF ViewsAreOwn, OwnView
<1>2. ErrorsAreTold'
  BY DEF ErrorsAreTold
<1>3. LinesAreTrue'
  BY DEF LinesAreTrue
<1>4. SentAreLogged'
  BY DEF SentAreLogged
<1>. QED BY <1>1, <1>2, <1>3, <1>4

\* The pieces every action is made of.
LEMMA Refuses ==
  ASSUME NEW e \in Requests, ExecuteInv, stage[e] \in {"idle", "pre"}, Refuse(e)
  PROVE  ExecuteInv'
<1> USE DEF Refuse, Enter, Trouble
<1>1. ExecuteTypes'
  BY DEF ExecuteInv, ExecuteTypes
<1>2. OnlyOf(e)
  BY DEF OnlyOf, ExecuteInv, ExecuteTypes
<1>3. errored'[e] /\ e \in trouble' /\ stage'[e] = "reported" /\ sentWith'[e] = "unsent"
  BY DEF ExecuteInv, ExecuteTypes, ViewsAreOwn
<1>. QED BY <1>1, <1>2, <1>3, QuietExecution

\* Every step of an execution keeps its view, its errors and its line its own.
LEMMA ExecuteStepInv ==
  ASSUME NEW e \in Requests, ExecuteInv, ExecuteNext,
         \/ RefuseFile(e) \/ RejectEnv(e) \/ CopySession(e)
         \/ ExecuteHttp(e) \/ ExecuteGrpc(e) \/ ExecuteMqtt(e) \/ ExecuteMcp(e)
  PROVE  ExecuteInv'
<1> USE ExecuteAssumption DEF Enter, Trouble
<1>1. CASE RefuseFile(e)
  BY <1>1, Refuses DEF RefuseFile
<1>2. CASE RejectEnv(e)
  <2>1. ExecuteTypes' /\ OnlyOf(e)
    BY <1>2 DEF RejectEnv, ExecuteInv, ExecuteTypes, OnlyOf
  <2>2. stage'[e] = "rejected" /\ (errored'[e] <=> e \in trouble')
    BY <1>2 DEF RejectEnv, ExecuteInv, ExecuteTypes, ErrorsAreTold
  <2>. QED BY <1>2, <2>1, <2>2, QuietExecution DEF RejectEnv
<1>3. CASE CopySession(e)
  <2>1. ExecuteTypes'
    BY <1>3 DEF CopySession, ExecuteInv, ExecuteTypes
  <2>2. OnlyOf(e)
    BY <1>3 DEF CopySession, ExecuteInv, ExecuteTypes, OnlyOf
  <2>3. /\ stage'[e] = "pre" /\ sentWith'[e] = "unsent" /\ e \notin wrote'
        /\ sessionObj'[e] = began'[e] /\ (errored'[e] <=> e \in trouble')
    BY <1>3 DEF CopySession, ExecuteInv, ExecuteTypes, ErrorsAreTold, ViewsAreOwn
  <2>4. history' = history
    BY <1>3 DEF CopySession
  <2>. QED BY <2>1, <2>2, <2>3, <2>4, QuietExecution
<1>4. CASE SandboxSend(e)
  <2>1. ExecuteTypes' /\ OnlyOf(e)
    BY <1>4 DEF SandboxSend, ExecuteInv, ExecuteTypes, OnlyOf
  <2>. QED BY <1>4, <2>1, QuietExecution DEF SandboxSend, ExecuteInv, ErrorsAreTold, ViewsAreOwn, OwnView
<1>5. CASE PreScript(e)
  <2>1. ExecuteTypes'
    BY <1>5 DEF PreScript, ExecuteInv, ExecuteTypes, ExecuteValues
  <2>2. OnlyOf(e)
    BY <1>5 DEF PreScript, ExecuteInv, ExecuteTypes, OnlyOf
  <2>3. /\ stage'[e] = "pre" /\ sentWith'[e] = "unsent" /\ history' = history
        /\ sessionObj'[e] = (IF e \in wrote' THEN e ELSE began'[e])
    BY <1>5 DEF PreScript, ExecuteInv, ExecuteTypes, ViewsAreOwn, OwnView
  <2>4. errored'[e] <=> e \in trouble'
    BY <1>5 DEF PreScript, ExecuteInv, ExecuteTypes, ErrorsAreTold
  <2>. QED BY <2>1, <2>2, <2>3, <2>4, QuietExecution
<1>6. CASE AcquireToken(e)
  <2>1. ExecuteTypes'
    BY <1>6 DEF AcquireToken, ExecuteInv, ExecuteTypes, ExecuteValues
  <2>2. OnlyOf(e)
    BY <1>6 DEF AcquireToken, ExecuteInv, ExecuteTypes, OnlyOf
  <2>3. /\ stage'[e] = "pre" /\ sentWith'[e] = "unsent" /\ history' = history
        /\ sessionObj'[e] = (IF e \in wrote' THEN e ELSE began'[e])
    BY <1>6 DEF AcquireToken, ExecuteInv, ExecuteTypes, ViewsAreOwn, OwnView
  <2>4. errored'[e] <=> e \in trouble'
    BY <1>6 DEF AcquireToken, ExecuteInv, ExecuteTypes, ErrorsAreTold
  <2>. QED BY <2>1, <2>2, <2>3, <2>4, QuietExecution
<1>7. CASE RefuseToken(e) \/ RefuseBody(e)
  BY <1>7, Refuses DEF RefuseToken, RefuseBody
<1>8. CASE Send(e)
  <2>1. ExecuteTypes'
    BY <1>8 DEF Send, ExecuteInv, ExecuteTypes
  <2>2. OnlyOf(e)
    BY <1>8 DEF Send, ExecuteInv, ExecuteTypes, OnlyOf
  <2>3. /\ stage'[e] = "sending" /\ history' = history
        /\ sentWith'[e] = (IF e \in wrote' THEN e ELSE began'[e])
    BY <1>8 DEF Send, ExecuteInv, ExecuteTypes, ViewsAreOwn, OwnView
  <2>4. errored'[e] <=> e \in trouble'
    BY <1>8 DEF Send, ExecuteInv, ErrorsAreTold
  <2>. QED BY <2>1, <2>2, <2>3, <2>4, QuietExecution
<1>9. CASE Answer(e) \/ TransportError(e) \/ TestScript(e)
  <2>1. ExecuteTypes'
    <3>1. CASE Answer(e) BY <3>1 DEF Answer, ExecuteInv, ExecuteTypes
    <3>2. CASE TransportError(e) BY <3>2 DEF TransportError, ExecuteInv, ExecuteTypes
    <3>3. CASE TestScript(e) BY <3>3 DEF TestScript, ExecuteInv, ExecuteTypes, ExecuteValues
    <3>. QED BY <1>9, <3>1, <3>2, <3>3
  <2>2. OnlyOf(e)
    BY <1>9 DEF Answer, TransportError, TestScript, ExecuteInv, ExecuteTypes, OnlyOf
  <2>3. /\ stage'[e] = "test" /\ history' = history
        /\ sentWith'[e] = (IF e \in wrote' THEN e ELSE began'[e])
    BY <1>9 DEF Answer, TransportError, TestScript, ExecuteInv, ExecuteTypes, ViewsAreOwn, OwnView
  <2>4. errored'[e] <=> e \in trouble'
    BY <1>9 DEF Answer, TransportError, TestScript, ExecuteInv, ExecuteTypes, ErrorsAreTold
  <2>. QED BY <2>1, <2>2, <2>3, <2>4, QuietExecution
<1>10. CASE Finish(e)
  <2>1. ExecuteTypes'
    BY <1>10 DEF Finish, ExecuteInv, ExecuteTypes
  <2>2. OnlyOf(e)
    BY <1>10 DEF Finish, ExecuteInv, ExecuteTypes, OnlyOf
  <2>3. /\ stage[e] = "test" /\ stage'[e] = "reported" /\ sentWith' = sentWith
        /\ sentWith[e] # "unsent"
    BY <1>10 DEF Finish, ExecuteInv, ExecuteTypes, ExecuteValues, ViewsAreOwn, OwnView
  <2>4. (errored'[e] <=> e \in trouble') /\ history' = history \cup {<<e, e \in trouble'>>}
    <3>1. PICK mismatch \in BOOLEAN :
            /\ Trouble(e, response[e] = "bad" \/ mismatch)
            /\ history' = history \cup {<<e, errored[e] \/ response[e] = "bad" \/ mismatch>>}
      BY <1>10 DEF Finish
    <3>2. errored'[e] <=> (errored[e] \/ response[e] = "bad" \/ mismatch)
      BY <3>1 DEF ExecuteInv, ExecuteTypes
    <3>3. e \in trouble' <=> (errored[e] \/ response[e] = "bad" \/ mismatch)
      BY <3>1 DEF ExecuteInv, ExecuteTypes, ErrorsAreTold
    <3>4. (e \in trouble') = (errored[e] \/ response[e] = "bad" \/ mismatch)
      BY <3>3
    <3>. QED BY <3>1, <3>2, <3>3, <3>4, Zenon
  <2>5. ViewsAreOwn'
    BY <2>2, <2>3 DEF ExecuteInv, ViewsAreOwn, OwnView, OnlyOf
  <2>6. ErrorsAreTold'
    BY <2>2, <2>4 DEF ExecuteInv, ErrorsAreTold, OnlyOf
  <2>7. LinesAreTrue'
    <3> SUFFICES ASSUME NEW l \in history'
                 PROVE  \E d \in Requests : /\ l = <<d, d \in trouble'>>
                                            /\ stage'[d] = "reported" /\ sentWith'[d] # "unsent"
      BY DEF LinesAreTrue
    <3>1. CASE l = <<e, e \in trouble'>>
      BY <3>1, <2>3
    <3>2. CASE l \in history
      <4> PICK d \in Requests : l = <<d, d \in trouble>> /\ stage[d] = "reported" /\ sentWith[d] # "unsent"
        BY <3>2 DEF ExecuteInv, LinesAreTrue
      <4>1. d # e
        BY <2>3
      <4>. QED BY <4>1, <2>2, <2>3 DEF OnlyOf
    <3>. QED BY <3>1, <3>2, <2>4
  <2>8. SentAreLogged'
    BY <2>2, <2>3, <2>4 DEF ExecuteInv, SentAreLogged, OnlyOf
  <2>. QED BY <2>1, <2>5, <2>6, <2>7, <2>8 DEF ExecuteInv
<1>. QED
  BY <1>1, <1>2, <1>3, <1>4, <1>5, <1>6, <1>7, <1>8, <1>9, <1>10
  DEF ExecuteHttp, ExecuteGrpc, ExecuteMqtt, ExecuteMcp, ExecuteCall

\* The invariant is inductive.
LEMMA ExecuteNextInv == ExecuteInv /\ [ExecuteNext]_executeVars => ExecuteInv'
<1>1. ASSUME ExecuteInv, ExecuteNext PROVE ExecuteInv'
  BY <1>1, ExecuteStepInv DEF ExecuteNext
<1>2. ASSUME ExecuteInv, UNCHANGED executeVars PROVE ExecuteInv'
  BY <1>2 DEF executeVars, ExecuteInv, ExecuteTypes, ExecuteValues, ViewsAreOwn, OwnView, ErrorsAreTold,
              LinesAreTrue, SentAreLogged
<1>. QED BY <1>1, <1>2

\* What the property says follows from the invariant.
LEMMA ExecuteInvApart == ExecuteInv => ExecutionsKeepApart
<1> SUFFICES ASSUME ExecuteInv PROVE ExecutionsKeepApart
  OBVIOUS
<1>1. SentWithItsOwnView
  BY DEF ExecuteInv, ViewsAreOwn, OwnView, SentWithItsOwnView
<1>2. ASSUME NEW e \in Requests
      PROVE  {l \in history : l[1] = e} =
               IF stage[e] = "reported" /\ sentWith[e] # "unsent" THEN {<<e, e \in trouble>>} ELSE {}
  <2>1. \A l \in history : l[1] = e =>
          l = <<e, e \in trouble>> /\ stage[e] = "reported" /\ sentWith[e] # "unsent"
    BY DEF ExecuteInv, LinesAreTrue
  <2>2. stage[e] = "reported" /\ sentWith[e] # "unsent" => <<e, e \in trouble>> \in history
    BY DEF ExecuteInv, SentAreLogged
  <2>. QED BY <2>1, <2>2
<1>. QED BY <1>1, <1>2 DEF ExecutionsKeepApart, HistoryTellsTheVerdict, ExecuteInv, ErrorsAreTold

\* Executions over one session and one history do not meet: each is sent with its own
\* view of the session, and its line in the history tells its own verdict (main/execute.ts).
THEOREM ExecutionsApart == ExecuteSpec => []ExecutionsKeepApart
<1>1. ExecuteSpec => []ExecuteInv
  BY ExecuteInitInv, ExecuteNextInv, PTL DEF ExecuteSpec
<1>. QED BY <1>1, ExecuteInvApart, PTL

-----------------------------------------------------------------------------
(***************************************************************************)
(* HttpClient: a request through its redirects.                            *)
(***************************************************************************)
Hops == [method : {"GET", "HEAD", "POST"}, body : BOOLEAN, status : Statuses \cup {0}]

HttpTypes ==
  /\ exchanged \in Seq(Hops)
  /\ wire \in {"idle", "request", "redirect", "body", "gone"}
  /\ settled \in {"no", "resolved", "rejected"}
  /\ late \in BOOLEAN

\* Something is awaited of a hop only while the promise is open; a redirect that
\* is followed has a hop to go.
Awaited ==
  /\ wire = "idle" => exchanged = <<>> /\ timer = "off"
  /\ wire # "gone" => settled = "no"
  /\ wire \in {"request", "redirect", "body"} => exchanged # <<>>
  /\ wire = "redirect" => Len(exchanged) <= MAX_REDIRECTS
  /\ ~late /\ Len(exchanged) <= MAX_REDIRECTS + 1

\* A redirect before hop i turned the request into a GET.
TurnedBefore(hops, i) ==
  \E j \in 1 .. i - 1 :
    hops[j].status = 303 \/ (hops[j].status \in {301, 302} /\ hops[1].method = "POST")

\* Each hop is what the first and the statuses between make of it.
Chained(hops) ==
  \A i \in 2 .. Len(hops) :
    IF TurnedBefore(hops, i) THEN hops[i].method = "GET" /\ ~hops[i].body
                             ELSE hops[i].method = hops[1].method /\ hops[i].body = hops[1].body

HttpInv == HttpTypes /\ Awaited /\ Chained(exchanged)

\* A status that arrives at the last hop changes nothing of what led to it.
LEMMA MetChained ==
  ASSUME NEW status \in Statuses, exchanged \in Seq(Hops), exchanged # <<>>, Chained(exchanged), Met(status)
  PROVE  /\ exchanged' \in Seq(Hops) /\ Len(exchanged') = Len(exchanged) /\ Chained(exchanged')
<1> DEFINE n == Len(exchanged)
<1>1. n \in Nat \ {0}
  OBVIOUS
<1>2. exchanged' \in Seq(Hops) /\ Len(exchanged') = n
  <2> DEFINE hop == [exchanged[n] EXCEPT !.status = status]
  <2>1. exchanged[n] \in Hops
    BY <1>1
  <2>2. hop \in Hops
    BY <2>1 DEF Hops
  <2>3. exchanged' = [exchanged EXCEPT ![n] = hop]
    BY DEF Met
  <2> HIDE DEF hop
  <2>. QED BY <1>1, <2>2, <2>3
<1>3. ASSUME NEW i \in 1 .. n
      PROVE  /\ exchanged'[i].method = exchanged[i].method
             /\ exchanged'[i].body = exchanged[i].body
             /\ i # n => exchanged'[i].status = exchanged[i].status
  <2>1. exchanged[i] \in Hops /\ exchanged'[i] = IF i = n THEN [exchanged[n] EXCEPT !.status = status]
                                                        ELSE exchanged[i]
    BY <1>1 DEF Met
  <2>. QED BY <2>1 DEF Hops
<1>4. ASSUME NEW i \in 2 .. n
      PROVE  TurnedBefore(exchanged', i) <=> TurnedBefore(exchanged, i)
  BY <1>1, <1>3 DEF TurnedBefore
<1>. QED BY <1>1, <1>2, <1>3, <1>4 DEF Chained

\* The next hop is made from the last, and goes on as the first began.
LEMMA HopChained ==
  ASSUME NEW hops \in Seq(Hops), hops # <<>>, Chained(hops), hops[Len(hops)].status \in Redirects,
         NEW method \in {"GET", "HEAD", "POST"}, NEW body \in BOOLEAN,
         IF BecomesGet(hops[Len(hops)].method, hops[Len(hops)].status)
           THEN method = "GET" /\ body = FALSE
           ELSE method = hops[Len(hops)].method /\ body = hops[Len(hops)].body
  PROVE  Chained(Append(hops, Hop(method, body)))
<1> DEFINE n == Len(hops)
           more == Append(hops, Hop(method, body))
<1>1. n \in Nat \ {0} /\ Len(more) = n + 1 /\ more[n + 1] = Hop(method, body)
      /\ \A i \in 1 .. n : more[i] = hops[i]
  BY DEF Hop, Hops
<1>2. ASSUME NEW i \in 1 .. n PROVE TurnedBefore(more, i) <=> TurnedBefore(hops, i)
  BY <1>1 DEF TurnedBefore
<1>3. TurnedBefore(more, n + 1) <=>
        \/ TurnedBefore(hops, n)
        \/ hops[n].status = 303 \/ (hops[n].status \in {301, 302} /\ hops[1].method = "POST")
  BY <1>1 DEF TurnedBefore
<1> HIDE DEF more
<1>4. IF TurnedBefore(hops, n) THEN hops[n].method = "GET" /\ ~hops[n].body
                               ELSE hops[n].method = hops[1].method /\ hops[n].body = hops[1].body
  BY <1>1 DEF Chained, TurnedBefore
<1>5. IF TurnedBefore(more, n + 1)
        THEN more[n + 1].method = "GET" /\ ~more[n + 1].body
        ELSE more[n + 1].method = more[1].method /\ more[n + 1].body = more[1].body
  <2>1. hops[1] \in Hops /\ hops[n] \in Hops /\ more[1] = hops[1]
    BY <1>1
  <2>2. more[n + 1].method = method /\ more[n + 1].body = body
    BY <1>1 DEF Hop
  <2>. QED BY <1>3, <1>4, <2>1, <2>2 DEF BecomesGet, Hops
<1>6. ASSUME NEW i \in 2 .. n + 1
      PROVE  IF TurnedBefore(more, i) THEN more[i].method = "GET" /\ ~more[i].body
                                      ELSE more[i].method = more[1].method /\ more[i].body = more[1].body
  <2>1. CASE i = n + 1
    BY <2>1, <1>5
  <2>2. CASE i \in 2 .. n
    BY <2>2, <1>1, <1>2 DEF Chained
  <2>. QED BY <2>1, <2>2, <1>1
<1>. QED BY <1>1, <1>6 DEF Chained, more

\* wire = "redirect" means that the last hop met one.
RedirectMet == wire = "redirect" => LastHop.status \in Redirects

\* The invariant is inductive, with what a redirect under way was met with.
LEMMA HttpNextInv == HttpInv /\ RedirectMet /\ [HttpNext]_httpVars => (HttpInv /\ RedirectMet)'
<1> SUFFICES ASSUME HttpInv, RedirectMet, [HttpNext]_httpVars PROVE (HttpInv /\ RedirectMet)'
  OBVIOUS
<1> USE HttpAssumption DEF HttpInv
<1>1. CASE SendHttp
  <2>1. PICK method \in {"GET", "HEAD", "POST"}, body \in BOOLEAN : DoRequest(method, body)
    BY <1>1 DEF SendHttp
  <2>2. exchanged = <<>> /\ settled = "no"
    BY <1>1 DEF SendHttp, Awaited
  <2>3. CASE exchanged' = exchanged
    BY <1>1, <2>1, <2>2, <2>3 DEF SendHttp, DoRequest, HttpTypes, Awaited, Chained, RedirectMet, Hop
  <2>4. CASE exchanged' = Append(exchanged, Hop(method, body)) /\ wire' = "request"
    <3>1. exchanged' = <<Hop(method, body)>> /\ Hop(method, body) \in Hops
      BY <2>2, <2>4 DEF Hop, Hops
    <3>2. exchanged' \in Seq(Hops) /\ Len(exchanged') = 1
      BY <3>1
    <3>3. settled' = "no" /\ ~late' /\ late' \in BOOLEAN
      BY <2>1, <2>2, <2>4 DEF DoRequest, Awaited, HttpTypes
    <3>. QED BY <2>4, <3>2, <3>3 DEF HttpTypes, Awaited, Chained, RedirectMet
  <2>. QED BY <2>1, <2>3, <2>4 DEF DoRequest
<1>2. CASE NextHop
  <2> DEFINE n == Len(exchanged)
             method == IF BecomesGet(LastHop.method, LastHop.status) THEN "GET" ELSE LastHop.method
             body == IF BecomesGet(LastHop.method, LastHop.status) THEN FALSE ELSE LastHop.body
  <2>1. wire = "redirect" /\ exchanged # <<>> /\ exchanged \in Seq(Hops) /\ n \in 1 .. MAX_REDIRECTS
        /\ settled = "no"
    BY <1>2 DEF NextHop, Awaited, HttpTypes
  <2>2. LastHop \in Hops /\ LastHop.status \in Redirects
    BY <2>1 DEF LastHop, RedirectMet
  <2>3. method \in {"GET", "HEAD", "POST"} /\ body \in BOOLEAN
    BY <2>2 DEF Hops
  <2>4. DoRequest(method, body)
    BY <1>2 DEF NextHop
  <2>5. Chained(Append(exchanged, Hop(method, body)))
    <3>1. IF BecomesGet(exchanged[n].method, exchanged[n].status)
            THEN method = "GET" /\ body = FALSE
            ELSE method = exchanged[n].method /\ body = exchanged[n].body
      BY DEF LastHop
    <3> HIDE DEF method, body
    <3>. QED BY <2>1, <2>2, <2>3, <3>1, HopChained DEF LastHop
  <2> HIDE DEF method, body
  <2>6. CASE exchanged' = exchanged /\ wire' = "gone"
    BY <2>1, <2>4, <2>6 DEF DoRequest, HttpTypes, Awaited, RedirectMet
  <2>7. CASE exchanged' = Append(exchanged, Hop(method, body)) /\ wire' = "request"
    <3>1. Hop(method, body) \in Hops
      BY <2>3 DEF Hop, Hops
    <3>2. exchanged' \in Seq(Hops) /\ Len(exchanged') = n + 1 /\ exchanged' # <<>>
      BY <2>1, <2>7, <3>1
    <3>3. settled' = "no" /\ ~late' /\ late' \in BOOLEAN
      BY <2>1, <2>4, <2>7 DEF DoRequest, Awaited, HttpTypes
    <3>. QED BY <2>1, <2>5, <2>7, <3>2, <3>3 DEF HttpTypes, Awaited, RedirectMet
  <2>. QED BY <2>4, <2>6, <2>7 DEF DoRequest
<1>3. CASE NextHopThrows
  BY <1>3 DEF NextHopThrows, HttpTypes, Awaited, RedirectMet
<1>4. CASE BodyEnds \/ ConnectionFails \/ Timeout
  BY <1>4 DEF BodyEnds, ConnectionFails, Timeout, Settle, HttpTypes, Awaited, RedirectMet
<1>5. ASSUME NEW status \in Statuses, FinalResponse(status) \/ RedirectResponse(status)
      PROVE  (HttpInv /\ RedirectMet)'
  <2>1. wire = "request" /\ Met(status) /\ exchanged # <<>> /\ settled = "no"
    BY <1>5 DEF FinalResponse, RedirectResponse, Responds, Awaited
  <2>2. exchanged' \in Seq(Hops) /\ Len(exchanged') = Len(exchanged) /\ Chained(exchanged')
    BY <2>1, MetChained DEF HttpTypes
  <2>3. exchanged'[Len(exchanged')].status = status
    BY <2>1, <2>2 DEF Met, HttpTypes, Hops
  <2>4. late' = late
    BY <1>5 DEF FinalResponse, RedirectResponse
  <2>5. CASE FinalResponse(status)
    BY <2>1, <2>2, <2>4, <2>5 DEF FinalResponse, HttpTypes, Awaited, RedirectMet
  <2>6. CASE RedirectResponse(status)
    <3>1. status \in Redirects /\ (wire' = "gone" \/ (wire' = "redirect" /\ Len(exchanged) <= MAX_REDIRECTS /\ settled' = settled))
      BY <2>6, <2>1 DEF RedirectResponse, Followed, HttpTypes
    <3>2. settled' \in {"no", "resolved", "rejected"} /\ exchanged' # <<>>
      BY <2>1, <2>2, <2>6 DEF RedirectResponse, Settle, HttpTypes
    <3>. QED BY <2>1, <2>2, <2>3, <2>4, <3>1, <3>2 DEF HttpTypes, Awaited, RedirectMet, LastHop
  <2>. QED BY <1>5, <2>5, <2>6
<1>6. CASE UNCHANGED httpVars
  BY <1>6 DEF httpVars, HttpTypes, Awaited, RedirectMet, LastHop
<1>. QED BY <1>1, <1>2, <1>3, <1>4, <1>5, <1>6 DEF HttpNext

\* What the property says follows from the chain of the hops.
LEMMA HttpInvKeeps == HttpInv => RedirectsKeepTheRequest
<1> SUFFICES ASSUME HttpInv PROVE RedirectsKeepTheRequest
  OBVIOUS
<1>1. ASSUME NEW i \in 2 .. Len(exchanged)
      PROVE  LET before == {exchanged[j].status : j \in 1 .. i - 1}
                 first == exchanged[1]
             IN  IF 303 \in before \/ (before \cap {301, 302} # {} /\ first.method = "POST")
                   THEN exchanged[i].method = "GET" /\ ~exchanged[i].body
                   ELSE exchanged[i].method = first.method /\ exchanged[i].body = first.body
  <2> DEFINE before == {exchanged[j].status : j \in 1 .. i - 1}
  <2>1. \A s : s \in before <=> \E j \in 1 .. i - 1 : exchanged[j].status = s
    OBVIOUS
  <2> HIDE DEF before
  <2>2. before \cap {301, 302} # {} <=> 301 \in before \/ 302 \in before
    OBVIOUS
  <2>3. (303 \in before \/ (before \cap {301, 302} # {} /\ exchanged[1].method = "POST"))
          <=> TurnedBefore(exchanged, i)
    BY <2>1, <2>2 DEF TurnedBefore
  <2>4. IF TurnedBefore(exchanged, i)
          THEN exchanged[i].method = "GET" /\ ~exchanged[i].body
          ELSE exchanged[i].method = exchanged[1].method /\ exchanged[i].body = exchanged[1].body
    BY DEF HttpInv, Chained
  <2>. QED BY <2>3, <2>4 DEF before
<1>2. ~late /\ Len(exchanged) <= MAX_REDIRECTS + 1
  BY DEF HttpInv, Awaited
<1>. QED BY <1>1, <1>2 DEF RedirectsKeepTheRequest

\* However many redirects are allowed: no hop goes out after the promise has settled, and each
\* carries the request on as it was, or as the GET a redirect made of it (engine/http.ts).
THEOREM RequestSurvivesRedirects == HttpSpec => []RedirectsKeepTheRequest
<1>1. HttpInit => HttpInv /\ RedirectMet
  <2> SUFFICES ASSUME HttpInit PROVE HttpInv /\ RedirectMet
    OBVIOUS
  <2>1. exchanged = <<>> /\ Len(exchanged) = 0 /\ exchanged \in Seq(Hops)
    BY DEF HttpInit
  <2>2. Chained(exchanged)
    BY <2>1 DEF Chained
  <2>3. HttpTypes
    BY <2>1 DEF HttpInit, HttpTypes
  <2>4. wire = "idle" /\ timer = "off" /\ settled = "no" /\ ~late /\ 0 <= MAX_REDIRECTS + 1
    BY HttpAssumption DEF HttpInit
  <2>5. Awaited /\ RedirectMet
    BY <2>1, <2>4 DEF Awaited, RedirectMet
  <2>. QED BY <2>2, <2>3, <2>5 DEF HttpInv
<1>2. HttpSpec => [](HttpInv /\ RedirectMet)
  BY <1>1, HttpNextInv, PTL DEF HttpSpec
<1>. QED BY <1>2, HttpInvKeeps, PTL

-----------------------------------------------------------------------------
(***************************************************************************)
(* CookieJars: the jar, its file and the saves that are under way.         *)
(***************************************************************************)
JarTypes ==
  /\ now \in Nat
  /\ cookies \subseteq Cookies
  /\ cookieFile \in (SUBSET Cookies) \cup {TornJar}
  /\ save \in [Saves -> [stage : {"unused", "begun", "open", "over"}, text : SUBSET Cookies]]
  /\ unsaved \in BOOLEAN /\ crossed \in BOOLEAN

\* One cookie of an identity.
OfOneEach(cs) == \A c, d \in cs : SameIdentity(c, d) => c = d

JarsAreSets ==
  /\ OfOneEach(cookies) /\ OfOneEach(cookieFile)
  /\ \A s \in Saves : OfOneEach(save[s].text)

\* As long as no save has met another, there is one at most, and what it has still to
\* write, or has written, is the jar but for what has expired.
SaveIsOnItsWay ==
  ~crossed =>
    /\ \A s, t \in Saving : s = t
    /\ ~unsaved =>
         /\ Saving = {} => LoadJar = PurgeExpired(cookies)
         /\ \A s \in Saving : PurgeExpired(save[s].text) = PurgeExpired(cookies)

JarInv == JarTypes /\ JarsAreSets /\ SaveIsOnItsWay

\* A cookie's time is a number.
LEMMA CookieExpires == \A c \in Cookies : c.expires \in Nat
  BY JarAssumption DEF Cookies, Session

\* A torn file is not mistaken for a jar.
LEMMA TornIsNoJar == \A cs \in SUBSET Cookies : cs # TornJar
<1>1. [torn |-> TRUE] \notin Cookies
  <2> SUFFICES ASSUME [torn |-> TRUE] \in Cookies PROVE FALSE
    OBVIOUS
  <2>1. DOMAIN [torn |-> TRUE] = {"host", "path", "secure", "expires"}
    BY DEF Cookies
  <2>. QED BY <2>1
<1>. QED BY <1>1 DEF TornJar

\* What is purged is purged of the same again later.
LEMMA PurgeTwice ==
  ASSUME NEW cs \in SUBSET Cookies
  PROVE  PurgeExpired(PurgeExpired(cs)) = PurgeExpired(cs) /\ PurgeExpired(cs) \subseteq cs
  BY DEF PurgeExpired

\* The changes keep one cookie of an identity.
LEMMA ChangesKeepSets ==
  ASSUME NEW cs \in SUBSET Cookies, OfOneEach(cs), NEW c \in Cookies
  PROVE  /\ StoreOne(cs, c) \in SUBSET Cookies /\ OfOneEach(StoreOne(cs, c))
         /\ SetCookie(cs, c) \in SUBSET Cookies /\ OfOneEach(SetCookie(cs, c))
         /\ Without(cs, c) \in SUBSET Cookies /\ OfOneEach(Without(cs, c))
         /\ \A hosts, only : Clear(cs, hosts, only) \in SUBSET Cookies /\ OfOneEach(Clear(cs, hosts, only))
         /\ PurgeExpired(cs) \in SUBSET Cookies /\ OfOneEach(PurgeExpired(cs))
  BY DEF StoreOne, SetCookie, Without, Clear, PurgeExpired, OfOneEach, SameIdentity

\* A change of the jar, and the save it begins.
LEMMA ChangesInv ==
  ASSUME NEW s \in Saves, JarInv, NEW cs \in SUBSET Cookies, OfOneEach(cs), Changes(s, cs)
  PROVE  JarInv'
<1> USE DEF JarInv, Changes
<1>1. PurgeExpired(cs) \in SUBSET Cookies /\ OfOneEach(PurgeExpired(cs))
  BY DEF PurgeExpired, OfOneEach
<1>2. JarTypes'
  BY <1>1 DEF JarTypes
<1>3. JarsAreSets'
  BY <1>1 DEF JarsAreSets, JarTypes, OfOneEach
<1>4. Saving' = Saving \cup {s} /\ s \notin Saving
  BY DEF Saving, JarTypes
<1>5. ASSUME ~crossed' PROVE Saving' = {s} /\ save'[s].text = cookies' /\ now' = now
  BY <1>4, <1>5 DEF JarTypes
<1>6. SaveIsOnItsWay'
  BY <1>5 DEF SaveIsOnItsWay, PurgeExpired
<1>. QED BY <1>2, <1>3, <1>6

\* What is read from the file is a jar as it should be.
LEMMA LoadJarSets ==
  ASSUME JarInv
  PROVE  LoadJar \in SUBSET Cookies /\ OfOneEach(LoadJar) /\ PurgeExpired(LoadJar) = LoadJar
  BY DEF JarInv, JarTypes, JarsAreSets, LoadJar, PurgeExpired, OfOneEach

\* The invariant is inductive.
LEMMA JarNextInv == JarInv /\ [JarNext]_jarVars => JarInv'
<1> SUFFICES ASSUME JarInv, [JarNext]_jarVars PROVE JarInv'
  OBVIOUS
<1> USE DEF JarInv
<1>0. cookies \in SUBSET Cookies /\ OfOneEach(cookies) /\ {} \in SUBSET Cookies /\ OfOneEach({})
  BY DEF JarTypes, JarsAreSets, OfOneEach
<1>1. ASSUME NEW s \in Saves, ResponseArrives(s) PROVE JarInv'
  BY <1>0, <1>1, ChangesInv, ChangesKeepSets DEF ResponseArrives
<1>2. ASSUME NEW s \in Saves, CookieSet(s) PROVE JarInv'
  BY <1>0, <1>2, ChangesInv, ChangesKeepSets DEF CookieSet
<1>3. ASSUME NEW s \in Saves, CookieDelete(s) PROVE JarInv'
  BY <1>0, <1>3, ChangesInv, ChangesKeepSets DEF CookieDelete
<1>4. ASSUME NEW s \in Saves, CookieClear(s) PROVE JarInv'
  <2>1. PICK hosts \in {Hosts} \cup {{h} : h \in Hosts}, only \in BOOLEAN : Changes(s, Clear(cookies, hosts, only))
    BY <1>4 DEF CookieClear
  <2>2. Clear(cookies, hosts, only) \in SUBSET Cookies /\ OfOneEach(Clear(cookies, hosts, only))
    BY <1>0 DEF Clear, OfOneEach
  <2>. QED BY <2>1, <2>2, ChangesInv
<1>5. ASSUME NEW s \in Saves, CookieSetMany(s) PROVE JarInv'
  <2>1. PICK c \in Cookies, replace \in BOOLEAN : Changes(s, SetCookie(IF replace THEN {} ELSE cookies, c))
    BY <1>5 DEF CookieSetMany
  <2>2. SetCookie({}, c) \in SUBSET Cookies /\ OfOneEach(SetCookie({}, c))
        /\ SetCookie(cookies, c) \in SUBSET Cookies /\ OfOneEach(SetCookie(cookies, c))
    BY <1>0, ChangesKeepSets
  <2>. QED BY <2>1, <2>2, ChangesInv
<1>6. ASSUME NEW s \in Saves, SaveOpens(s) PROVE JarInv'
  <2>1. JarTypes'
    BY <1>6 DEF SaveOpens, JarTypes
  <2>2. JarsAreSets'
    BY <1>6 DEF SaveOpens, JarTypes, JarsAreSets, OfOneEach, TornJar
  <2>3. Saving' = Saving /\ s \in Saving /\ \A t \in Saves : save'[t].text = save[t].text
    BY <1>6 DEF SaveOpens, JarTypes, Saving
  <2>4. SaveIsOnItsWay'
    BY <1>6, <2>3 DEF SaveOpens, SaveIsOnItsWay, PurgeExpired, Saving
  <2>. QED BY <2>1, <2>2, <2>4
<1>7. ASSUME NEW s \in Saves, SaveFills(s) PROVE JarInv'
  <2>1. JarTypes'
    BY <1>7 DEF SaveFills, JarTypes
  <2>2. JarsAreSets'
    BY <1>7 DEF SaveFills, JarTypes, JarsAreSets, OfOneEach, TornJar
  <2>3. Saving' = Saving \ {s} /\ s \in Saving
    BY <1>7 DEF SaveFills, JarTypes, Saving
  <2>4. ASSUME ~crossed' PROVE Saving' = {} /\ cookieFile' = save[s].text /\ cookieFile' # TornJar
    <3>1. Saving = {s}
      BY <1>7, <2>3, <2>4 DEF SaveFills, SaveIsOnItsWay
    <3>. QED BY <1>7, <2>3, <3>1, TornIsNoJar DEF SaveFills, JarTypes
  <2>5. ASSUME ~crossed', ~unsaved' PROVE LoadJar' = PurgeExpired(cookies)'
    <3>1. PurgeExpired(save[s].text) = PurgeExpired(cookies)
      BY <1>7, <2>3, <2>5 DEF SaveFills, SaveIsOnItsWay
    <3>. QED BY <1>7, <2>4, <2>5, <3>1 DEF SaveFills, LoadJar, PurgeExpired
  <2>. QED BY <2>1, <2>2, <2>4, <2>5 DEF SaveIsOnItsWay
<1>8. ASSUME NEW s \in Saves, SaveFails(s) PROVE JarInv'
  <2>1. JarTypes'
    BY <1>8 DEF SaveFails, JarTypes, Saving
  <2>2. JarsAreSets'
    BY <1>8 DEF SaveFails, JarTypes, JarsAreSets, OfOneEach, Saving
  <2>. QED BY <1>8, <2>1, <2>2 DEF SaveFails, SaveIsOnItsWay
<1>9. CASE SendWithCookies
  <2>1. JarTypes' /\ JarsAreSets'
    BY <1>9 DEF SendWithCookies, JarTypes, JarsAreSets, OfOneEach, PurgeExpired
  <2>2. PurgeExpired(cookies)' = PurgeExpired(cookies) /\ LoadJar' = LoadJar /\ Saving' = Saving
        /\ \A s \in Saves : PurgeExpired(save[s].text)' = PurgeExpired(save[s].text)
    BY <1>9 DEF SendWithCookies, PurgeExpired, LoadJar, Saving
  <2>. QED BY <1>9, <2>1, <2>2 DEF SendWithCookies, SaveIsOnItsWay, Saving
<1>10. CASE RedirectFails
  <2>1. JarTypes' /\ JarsAreSets'
    BY <1>0, <1>10, ChangesKeepSets DEF RedirectFails, JarTypes, JarsAreSets
  <2>2. Saving' = Saving
    BY <1>10 DEF RedirectFails, Saving
  <2>. QED BY <1>10, <2>1, <2>2 DEF RedirectFails, SaveIsOnItsWay
<1>11. CASE JarRestart
  <2>1. LoadJar \in SUBSET Cookies /\ OfOneEach(LoadJar) /\ PurgeExpired(LoadJar) = LoadJar
    BY LoadJarSets
  <2>2. JarTypes'
    BY <1>11, <2>1 DEF JarRestart, JarTypes, Saving
  <2>3. JarsAreSets'
    BY <1>11, <2>1 DEF JarRestart, JarTypes, JarsAreSets, OfOneEach, Saving
  <2>4. Saving' = {}
    BY <1>11 DEF JarRestart, Saving, JarTypes
  <2>5. LoadJar' = LoadJar /\ PurgeExpired(cookies)' = PurgeExpired(LoadJar)
    BY <1>11 DEF JarRestart, LoadJar, PurgeExpired
  <2>. QED BY <2>1, <2>2, <2>3, <2>4, <2>5 DEF SaveIsOnItsWay
<1>12. CASE CliSaves
  <2>1. JarTypes' /\ JarsAreSets'
    BY <1>12, LoadJarSets, ChangesKeepSets DEF CliSaves, JarTypes, JarsAreSets
  <2>. QED BY <1>12, <2>1 DEF CliSaves, SaveIsOnItsWay
<1>13. CASE TimePasses
  <2>1. JarTypes' /\ JarsAreSets'
    BY <1>13 DEF TimePasses, JarTypes, JarsAreSets, OfOneEach
  <2>2. ASSUME NEW cs \in SUBSET Cookies
        PROVE  PurgeExpired(cs)' = {c \in PurgeExpired(cs) : c.expires > now'}
    BY <1>13, CookieExpires DEF TimePasses, PurgeExpired, JarTypes
  <2>3. LoadJar' = {c \in LoadJar : c.expires > now'}
    BY <1>13, <2>2 DEF TimePasses, LoadJar, JarTypes
  <2>4. Saving' = Saving /\ Saving \subseteq Saves
    BY <1>13 DEF TimePasses, Saving
  <2>5. \A s \in Saves : save[s].text \in SUBSET Cookies
    BY DEF JarTypes
  <2>6. PurgeExpired(cookies)' = {c \in PurgeExpired(cookies) : c.expires > now'}
        /\ \A s \in Saves : PurgeExpired(save[s].text)' = {c \in PurgeExpired(save[s].text) : c.expires > now'}
    BY <1>0, <1>13, <2>2, <2>5 DEF TimePasses, PurgeExpired
  <2>. QED BY <1>13, <2>1, <2>3, <2>4, <2>6 DEF TimePasses, SaveIsOnItsWay
<1>14. CASE UNCHANGED jarVars
  BY <1>14 DEF jarVars, JarTypes, JarsAreSets, SaveIsOnItsWay, Saving, LoadJar, PurgeExpired, OfOneEach
<1>. QED
  BY <1>1, <1>2, <1>3, <1>4, <1>5, <1>6, <1>7, <1>8, <1>9, <1>10, <1>11, <1>12, <1>13, <1>14 DEF JarNext

\* For any hosts, any number of saves and any clock: when no save has met another, failed or met
\* the CLI, the next start of the app finds the jar; and only fitting cookies are sent
\* (engine/cookies.ts, main/cookie-store.ts).
THEOREM JarSurvives == JarSpec => []JarIsKept
<1>1. JarInit => JarInv
  <2> SUFFICES ASSUME JarInit PROVE JarInv
    OBVIOUS
  <2>1. JarTypes
    BY DEF JarInit, JarTypes, NoSave
  <2>2. JarsAreSets
    BY DEF JarInit, JarsAreSets, OfOneEach, NoSave
  <2>3. Saving = {} /\ LoadJar = {} /\ PurgeExpired(cookies) = {}
    BY DEF JarInit, Saving, LoadJar, PurgeExpired, NoSave
  <2>. QED BY <2>1, <2>2, <2>3 DEF JarInv, SaveIsOnItsWay
<1>2. JarSpec => []JarInv
  BY <1>1, JarNextInv, PTL DEF JarSpec
<1>3. JarInv => JarIsKept
  BY DEF JarInv, JarIsKept, SaveIsOnItsWay, JarsAreSets, OfOneEach, CookieHeader, PurgeExpired
<1>. QED BY <1>2, <1>3, PTL

-----------------------------------------------------------------------------
(***************************************************************************)
(* RecordedStore: the store stays bounded, for every cap, every file found *)
(* and every interleaving of the app and the CLI.                          *)
(***************************************************************************)

StoreTypes ==
  /\ recorded \in Nat
  /\ counts \in [Processes -> Nat \cup {Uncounted}]
  /\ at \in [Processes -> {"idle", "append", "trim", "write"}]
  /\ count \in [Processes -> Nat]
  /\ kept \in [Processes -> Nat]
  /\ share \in [Processes -> Nat]
  /\ mishap \in BOOLEAN

\* What process p answers for: the lines it last counted, and while it is about
\* to append also those it has counted for that.
Covers(p) == {share[p]} \cup IF at[p] = "append" THEN {count[p]} ELSE {}

\* Every line is one that was found or that one of the two answers for.
Covered ==
  \A i \in Covers("app"), j \in Covers("cli") : recorded <= Found + i + j

\* A cached count is what the process answers for; what a trim keeps is within
\* the cap; and outside a trim no process answers for more than twice the cap.
Accounted ==
  \A p \in Processes :
    /\ counts[p] # Uncounted /\ at[p] \in {"idle", "append"} => counts[p] = share[p]
    /\ at[p] = "append" /\ counts[p] # Uncounted => count[p] = share[p]
    /\ at[p] = "write" => kept[p] <= RECORDED_CAP
    /\ at[p] \in {"idle", "append"} => share[p] <= 2 * RECORDED_CAP

StoreInv == StoreTypes /\ (~mishap => Covered /\ Accounted)

USE StoreAssumption DEF StoreAssumption, Processes

\* The lines found at the start are all there is.
LEMMA StoreInitInv == StoreInit => StoreInv
<1> SUFFICES ASSUME StoreInit PROVE StoreInv
  OBVIOUS
<1>1. StoreTypes BY DEF StoreInit, StoreTypes
<1>2. Covered BY DEF StoreInit, Covered, Covers
<1>3. Accounted BY DEF StoreInit, Accounted
<1> QED BY <1>1, <1>2, <1>3 DEF StoreInv

\* Every step preserves the types.
LEMMA TypesInductive == StoreTypes /\ [StoreNext]_storeVars => StoreTypes'
<1> SUFFICES ASSUME StoreTypes, [StoreNext]_storeVars PROVE StoreTypes'
  OBVIOUS
<1> USE DEF StoreTypes
<1>1. ASSUME NEW p \in Processes, StoreStep(p) PROVE StoreTypes'
  <2>1. CASE Count(p) BY <2>1 DEF Count
  <2>2. CASE AddLine(p) BY <2>2 DEF AddLine
  <2>3. CASE AppendFails(p) BY <2>3 DEF AppendFails
  <2>4. CASE ReadNewest(p) BY <2>4 DEF ReadNewest
  <2>5. CASE WriteBack(p) BY <2>5 DEF WriteBack
  <2>6. CASE TrimFails(p) BY <2>6 DEF TrimFails
  <2>7. CASE Restart(p) BY <2>7 DEF Restart
  <2> QED BY <1>1, <2>1, <2>2, <2>3, <2>4, <2>5, <2>6, <2>7 DEF StoreStep
<1>2. CASE RecordedClear
  BY <1>2 DEF RecordedClear
<1>3. CASE UNCHANGED storeVars
  BY <1>3 DEF storeVars
<1> QED BY <1>1, <1>2, <1>3 DEF StoreNext

\* The step of one process, by the name of the other.
LEMMA StepInductive ==
  ASSUME NEW p \in Processes, StoreInv, ~mishap, StoreStep(p), StoreTypes', ~mishap'
  PROVE  Covered' /\ Accounted'
<1> USE DEF StoreInv, StoreTypes, Covered, Covers, Accounted
<1>1. CASE Count(p) BY <1>1 DEF Count
<1>2. CASE AddLine(p)
  <2>1. CASE p = "app" BY <1>2, <2>1 DEF AddLine
  <2>2. CASE p = "cli" BY <1>2, <2>2 DEF AddLine
  <2> QED BY <2>1, <2>2
<1>3. CASE AppendFails(p) BY <1>3 DEF AppendFails
<1>4. CASE ReadNewest(p) BY <1>4 DEF ReadNewest
<1>5. CASE WriteBack(p) BY <1>5 DEF WriteBack
<1>6. CASE TrimFails(p) BY <1>6 DEF TrimFails
<1>7. CASE Restart(p) BY <1>7 DEF Restart
<1> QED BY <1>1, <1>2, <1>3, <1>4, <1>5, <1>6, <1>7 DEF StoreStep

\* The invariant is inductive.
LEMMA StoreInvInductive == StoreInv /\ [StoreNext]_storeVars => StoreInv'
<1> SUFFICES ASSUME StoreInv, [StoreNext]_storeVars PROVE StoreInv'
  OBVIOUS
<1>1. StoreTypes' BY TypesInductive DEF StoreInv
<1>2. ASSUME ~mishap' PROVE ~mishap
  BY <1>2 DEF StoreNext, StoreStep, storeVars, Count, AddLine, AppendFails, ReadNewest,
              WriteBack, TrimFails, Restart, RecordedClear
<1>3. ASSUME ~mishap', \E p \in Processes : StoreStep(p) PROVE Covered' /\ Accounted'
  BY <1>1, <1>2, <1>3, StepInductive
<1>4. ASSUME ~mishap', RecordedClear PROVE Covered' /\ Accounted'
  BY <1>1, <1>2, <1>4 DEF RecordedClear, StoreInv, StoreTypes, Covered, Covers, Accounted
<1>5. ASSUME ~mishap', UNCHANGED storeVars PROVE Covered' /\ Accounted'
  BY <1>2, <1>5 DEF storeVars, StoreInv, StoreTypes, Covered, Covers, Accounted
<1> QED BY <1>1, <1>3, <1>4, <1>5 DEF StoreNext, StoreInv

\* recorded.jsonl stays within what was found plus twice the cap for each of the
\* two processes, outside a trim and unless a trim failed or was cut short.
THEOREM StoreBounded == StoreSpec => []StoreStaysBounded
<1>1. StoreInv => StoreStaysBounded
  BY DEF StoreInv, StoreTypes, Covered, Covers, Accounted, StoreStaysBounded
<1> QED BY <1>1, StoreInitInv, StoreInvInductive, PTL DEF StoreSpec

HIDE StoreAssumption DEF StoreAssumption, Processes

-----------------------------------------------------------------------------
(***************************************************************************)
(* MqttRelay: what the relay says of a session is what happened, and it    *)
(* gives one exchange for each.                                            *)
(***************************************************************************)

RelayTypes ==
  /\ relay \in {"idle", "listening", "stopping", "stopped"}
  /\ client \in [Sessions -> {"none", "open", "ended", "closing", "closed"}]
  /\ broker \in [Sessions -> {"none", "open", "closed"}]
  /\ dead \subseteq Sessions /\ goodbye \subseteq Sessions
  /\ fault \subseteq Sessions /\ sent \subseteq Sessions
  /\ emits \in [Sessions -> {0, 1}]
  /\ exchange \in [Sessions -> {"clean", "errored", NoSession}]

\* The close of the client's socket is what records a session.
ClosedIsEmitted ==
  \A s \in Sessions : /\ emits[s] = 1 <=> client[s] = "closed"
                      /\ emits[s] = 0 <=> exchange[s] = NoSession

\* What was sent was decoded, or the decoder was dropped.
GoodbyesFollowed == goodbye \subseteq sent /\ sent \subseteq goodbye \cup dead

\* A session is recorded as what the decoder and the sockets told by then.
Truthful ==
  \A s \in Sessions :
    exchange[s] # NoSession =>
      IF s \in fault THEN exchange[s] = "errored"
                     ELSE (s \in sent \cup dead <=> exchange[s] = "clean")

\* A relay that has stopped has no session left.
Drained == relay = "stopped" => \A s \in Sessions : client[s] \in {"none", "closed"}

RelayInv == RelayTypes /\ ClosedIsEmitted /\ GoodbyesFollowed /\ Truthful /\ Drained

USE RelayAssumption

\* The invariant holds at the start.
LEMMA RelayInitInv == RelayInit => RelayInv
  BY DEF RelayInit, RelayInv, RelayTypes, ClosedIsEmitted, GoodbyesFollowed, Truthful, Drained

\* What a step can change of the exchanges: those of one session whose client is known.
RecordsOne(s) ==
  /\ emits[s] = 0 /\ client'[s] # "none"
  /\ emits' = [emits EXCEPT ![s] = 1]
  /\ \E v \in {"clean", "errored"} : exchange' = [exchange EXCEPT ![s] = v]

\* The steps that leave the exchanges alone keep what was said of them.
LEMMA QuietStep ==
  ASSUME RelayInv, RelayTypes', UNCHANGED records,
         \A s \in Sessions : client[s] = "closed" <=> client'[s] = "closed",
         \A s \in Sessions : client[s] = "closed" =>
           /\ s \in fault <=> s \in fault'
           /\ s \in sent \cup dead <=> s \in sent' \cup dead'
  PROVE  ClosedIsEmitted' /\ Truthful'
<1>1. ClosedIsEmitted'
  BY DEF RelayInv, ClosedIsEmitted, records
<1>2. \A s \in Sessions : exchange[s] # NoSession => client[s] = "closed"
  BY DEF RelayInv, RelayTypes, ClosedIsEmitted
<1>3. Truthful'
  BY <1>2 DEF RelayInv, Truthful, records
<1>. QED BY <1>1, <1>3

\* Every step keeps the invariant and records one session or none.
LEMMA RelayNextInv ==
  ASSUME RelayInv, [RelayNext]_relayVars
  PROVE  RelayInv' /\ (UNCHANGED records \/ \E s \in Sessions : RecordsOne(s))
<1> USE DEF legs, decoded, records
<1>1. CASE Start
  <2>1. RelayTypes' /\ GoodbyesFollowed' /\ Drained'
    BY <1>1 DEF Start, RelayInv, RelayTypes, GoodbyesFollowed, Drained
  <2>2. ClosedIsEmitted' /\ Truthful'
    BY <1>1, <2>1, QuietStep DEF Start
  <2>. QED BY <1>1, <2>1, <2>2 DEF Start, RelayInv
<1>2. CASE StopRelay
  <2>1. RelayTypes' /\ GoodbyesFollowed' /\ Drained'
    BY <1>2 DEF StopRelay, RelayInv, RelayTypes, GoodbyesFollowed, Drained
  <2>2. \A s \in Sessions : client[s] = "closed" <=> client'[s] = "closed"
    BY <1>2 DEF StopRelay
  <2>3. ClosedIsEmitted' /\ Truthful'
    BY <1>2, <2>1, <2>2, QuietStep DEF StopRelay
  <2>. QED BY <1>2, <2>1, <2>3 DEF StopRelay, RelayInv
<1>3. CASE RelayStopped
  <2>1. RelayTypes' /\ GoodbyesFollowed' /\ Drained'
    BY <1>3 DEF RelayStopped, RelayInv, RelayTypes, GoodbyesFollowed, Drained
  <2>2. ClosedIsEmitted' /\ Truthful'
    BY <1>3, <2>1, QuietStep DEF RelayStopped
  <2>. QED BY <1>3, <2>1, <2>2 DEF RelayStopped, RelayInv
<1>4. ASSUME NEW s \in Sessions, HandleConnection(s) PROVE RelayInv' /\ UNCHANGED records
  <2>1. RelayTypes' /\ GoodbyesFollowed' /\ Drained'
    BY <1>4 DEF HandleConnection, RelayInv, RelayTypes, GoodbyesFollowed, Drained
  <2>2. \A q \in Sessions : client[q] = "closed" <=> client'[q] = "closed"
    BY <1>4 DEF HandleConnection, RelayInv, RelayTypes
  <2>3. ClosedIsEmitted' /\ Truthful'
    BY <1>4, <2>1, <2>2, QuietStep DEF HandleConnection
  <2>. QED BY <1>4, <2>1, <2>3 DEF HandleConnection, RelayInv
<1>5. ASSUME NEW s \in Sessions, Feed(s) PROVE RelayInv' /\ UNCHANGED records
  <2>1. RelayTypes' /\ GoodbyesFollowed' /\ Drained'
    BY <1>5 DEF Feed, RelayInv, RelayTypes, GoodbyesFollowed, Drained
  <2>2. \A q \in Sessions : client[q] = "closed" => (q \in sent \cup dead <=> q \in sent' \cup dead')
    BY <1>5 DEF Feed
  <2>3. ClosedIsEmitted' /\ Truthful'
    BY <1>5, <2>1, <2>2, QuietStep DEF Feed
  <2>. QED BY <1>5, <2>1, <2>3 DEF Feed, RelayInv
<1>6. ASSUME NEW s \in Sessions, HangUp(s) PROVE RelayInv' /\ UNCHANGED records
  <2>1. RelayTypes' /\ GoodbyesFollowed' /\ Drained'
    BY <1>6 DEF HangUp, RelayInv, RelayTypes, GoodbyesFollowed, Drained
  <2>2. \A q \in Sessions : client[q] = "closed" <=> client'[q] = "closed"
    BY <1>6 DEF HangUp, RelayInv, RelayTypes
  <2>3. ClosedIsEmitted' /\ Truthful'
    BY <1>6, <2>1, <2>2, QuietStep DEF HangUp
  <2>. QED BY <1>6, <2>1, <2>3 DEF HangUp, RelayInv
<1>7. ASSUME NEW s \in Sessions, SocketError(s) PROVE RelayInv' /\ UNCHANGED records
  <2>1. RelayTypes' /\ GoodbyesFollowed' /\ Drained'
    BY <1>7 DEF SocketError, RelayInv, RelayTypes, GoodbyesFollowed, Drained
  <2>2. \A q \in Sessions : client[q] = "closed" <=> client'[q] = "closed"
    BY <1>7 DEF SocketError, RelayInv, RelayTypes
  <2>3. \A q \in Sessions : client[q] = "closed" => (q \in fault <=> q \in fault')
    BY <1>7 DEF SocketError
  <2>4. ClosedIsEmitted' /\ Truthful'
    BY <1>7, <2>1, <2>2, <2>3, QuietStep DEF SocketError
  <2>. QED BY <1>7, <2>1, <2>4 DEF SocketError, RelayInv
<1>8. ASSUME NEW s \in Sessions, ClientClose(s) PROVE RelayInv' /\ RecordsOne(s)
  <2>1. emits[s] = 0 /\ Verdict(s) \in {"clean", "errored"}
    BY <1>8 DEF ClientClose, RelayInv, RelayTypes, ClosedIsEmitted, Verdict
  <2>2. /\ client'[s] = "closed" /\ emits'[s] = 1 /\ exchange'[s] = Verdict(s)
        /\ emits' = [emits EXCEPT ![s] = 1]
        /\ \A q \in Sessions \ {s} :
             client'[q] = client[q] /\ emits'[q] = emits[q] /\ exchange'[q] = exchange[q]
    BY <1>8, <2>1 DEF ClientClose, RelayInv, RelayTypes
  <2>3. RelayTypes'
    BY <1>8, <2>1, <2>2 DEF ClientClose, RelayInv, RelayTypes
  <2>4. ClosedIsEmitted'
    BY <2>1, <2>2 DEF RelayInv, ClosedIsEmitted
  <2>5. Truthful'
    BY <1>8, <2>1, <2>2 DEF ClientClose, RelayInv, Truthful, GoodbyesFollowed, Verdict
  <2>6. GoodbyesFollowed' /\ Drained'
    BY <1>8, <2>2 DEF ClientClose, RelayInv, GoodbyesFollowed, Drained
  <2>7. RecordsOne(s)
    BY <1>8, <2>1, <2>2 DEF ClientClose, RecordsOne
  <2>. QED BY <2>3, <2>4, <2>5, <2>6, <2>7 DEF RelayInv
<1>9. CASE UNCHANGED relayVars
  BY <1>9 DEF relayVars, RelayInv, RelayTypes, ClosedIsEmitted, GoodbyesFollowed, Truthful, Drained
<1>. QED BY <1>1, <1>2, <1>3, <1>4, <1>5, <1>6, <1>7, <1>8, <1>9 DEF RelayNext

\* The invariant is one of the specification.
LEMMA RelayInductive == RelaySpec => []RelayInv
<1>1. RelayInv /\ [RelayNext]_relayVars => RelayInv'
  BY RelayNextInv
<1>. QED BY <1>1, RelayInitInv, PTL DEF RelaySpec

\* A session that was taken stays so.
LEMMA TakenStays ==
  ASSUME RelayInv, [RelayNext]_relayVars, NEW s \in Sessions, client[s] # "none"
  PROVE  client'[s] # "none"
  BY DEF RelayInv, RelayTypes, RelayNext, relayVars, legs, Start, StopRelay, RelayStopped,
     HandleConnection, Feed, HangUp, SocketError, ClientClose

\* Every step maps to a step of OneExchange or to a stutter.
LEMMA RelayStepRefines ==
  RelayInv /\ [RelayNext]_relayVars => [Exchanges!Next]_Exchanges!vars
<1> SUFFICES ASSUME RelayInv, [RelayNext]_relayVars PROVE Exchanges!Next
  OBVIOUS
<1>1. ASSUME NEW s \in Sessions PROVE Exchanges!EmitsOnce(s)
  <2>1. UNCHANGED records \/ \E q \in Sessions : RecordsOne(q)
    BY RelayNextInv
  <2>2. CASE UNCHANGED records
    BY <2>2 DEF records, Exchanges!EmitsOnce
  <2>3. ASSUME NEW q \in Sessions, RecordsOne(q) PROVE Exchanges!EmitsOnce(s)
    BY <2>3 DEF RecordsOne, RelayInv, RelayTypes, Exchanges!EmitsOnce
  <2>. QED BY <2>1, <2>2, <2>3
<1>. QED BY <1>1, TakenStays DEF Exchanges!Next

(***************************************************************************)
(* For any set of sessions and any order of their events, the relay gives  *)
(* one exchange for each, and what it says of the close is what happened,  *)
(* although it is read off a decoder that may have stopped.                *)
(***************************************************************************)
THEOREM RelayIsTrue == RelaySpec => RelayKeepsItsPromise
<1>1. RelayInit => Exchanges!Init
  BY DEF RelayInit, Exchanges!Init
<1>2. RelayInv => RelayRecordsTheClose
  <2>1. RelayInv => \A s \in Sessions : exchange[s] = NoSession <=> client[s] # "closed"
    BY DEF RelayInv, RelayTypes, ClosedIsEmitted
  <2>. QED BY <2>1 DEF RelayInv, Truthful, Drained, RelayRecordsTheClose
<1>. QED BY <1>1, <1>2, RelayStepRefines, RelayInductive, PTL
         DEF RelaySpec, RelayKeepsItsPromise, RelayKeepsOneExchange, Exchanges!Spec

HIDE RelayAssumption

-----------------------------------------------------------------------------
(***************************************************************************)
(* ProxyCerts: what is served is usable, and the CA stays.                 *)
(***************************************************************************)
KeyPems == CertCalls \cup {NoPem, TornPem}
Pems == KeyPems \cup [key : CertCalls, signer : KeyPems]
Bundles == {b \in [PemFiles -> Pems] : b["caKey"] \in KeyPems}
CertSteps == {"unused", "wipe", "read ca", "ca crt", "ca key", "read leaf", "leaf crt", "leaf key", "done", "over"}
CertRecords == [step : CertSteps, holds : Bundles, regenerates : BOOLEAN]

CertTypes ==
  /\ pems \in Bundles
  /\ cert \in [CertCalls -> CertRecords]
  /\ died \in BOOLEAN /\ entangled \in BOOLEAN

\* The two files of a pair belong together, or neither is there.
CaSound == pems["caCrt"] = pems["caKey"] /\ pems["caCrt"] \in CertCalls \cup {NoPem}
LeafSound == pems["leafCrt"] = NoPem \/ pems["leafCrt"].key = pems["leafKey"]

\* The CA a user has need not be the one on disk any more.
CaGivenUp == installed = NoPem \/ <<"ca", installed>> \in expired

HoldsCa(c) ==
  /\ cert[c].holds["caCrt"] = pems["caCrt"] /\ cert[c].holds["caKey"] = pems["caCrt"]
  /\ pems["caCrt"] \in CertCalls /\ CaSound

\* Where the one call in progress is, and what is on disk then.
Progress(c) ==
  CASE cert[c].step = "ca crt"    -> CaGivenUp /\ CaSound /\ LeafSound
    [] cert[c].step = "ca key"    -> /\ pems["caCrt"] = c /\ cert[c].holds["caCrt"] = c
                                     /\ CaGivenUp /\ LeafSound
    [] cert[c].step = "read leaf" -> HoldsCa(c) /\ LeafSound
    [] cert[c].step = "leaf crt"  -> HoldsCa(c) /\ LeafSound
    [] cert[c].step = "leaf key"  -> /\ HoldsCa(c)
                                     /\ pems["leafCrt"] = Leaf(c, pems["caCrt"])
                                     /\ cert[c].holds["leafCrt"] = Leaf(c, pems["caCrt"])
    [] cert[c].step = "done"      -> HoldsCa(c) /\ LeafSound /\ Usable(cert[c].holds)
    [] OTHER                      -> CaSound /\ LeafSound

CaKept == installed # NoPem /\ <<"ca", installed>> \notin expired => pems["caCrt"] = installed

Untangled ==
  /\ \A c, d \in Ensuring : c = d
  /\ Ensuring = {} => CaSound /\ LeafSound
  /\ \A c \in Ensuring : Progress(c)
  /\ \A c \in CertCalls : served[c] # NoPems => Usable(served[c])
  /\ CaKept

CertInv == CertTypes /\ (~died /\ ~entangled => Untangled)

\* The step and what is held of one call; the others stay.
LEMMA CertStep ==
  ASSUME CertTypes, NEW c \in CertCalls, NEW step \in CertSteps, NEW holds \in Bundles,
         cert' = [cert EXCEPT ![c].step = step, ![c].holds = holds]
  PROVE  /\ cert' \in [CertCalls -> CertRecords]
         /\ cert'[c].step = step /\ cert'[c].holds = holds
         /\ \A d \in CertCalls : d # c => cert'[d] = cert[d]
<1>1. cert[c] \in CertRecords
  BY DEF CertTypes
<1>2. [cert[c] EXCEPT !.step = step, !.holds = holds] \in CertRecords
  BY <1>1 DEF CertRecords
<1>3. /\ [cert[c] EXCEPT !.step = step, !.holds = holds].step = step
      /\ [cert[c] EXCEPT !.step = step, !.holds = holds].holds = holds
  BY <1>1 DEF CertRecords
<1>4. cert' = [cert EXCEPT ![c] = [cert[c] EXCEPT !.step = step, !.holds = holds]]
  BY <1>1 DEF CertTypes
<1>. QED BY <1>2, <1>3, <1>4 DEF CertTypes

\* A call goes on without having read or written.
LEMMA CertMoves ==
  ASSUME CertTypes, NEW c \in CertCalls, NEW step \in CertSteps, At(c, step)
  PROVE  /\ cert' \in [CertCalls -> CertRecords]
         /\ cert'[c].step = step /\ cert'[c].holds = cert[c].holds
         /\ \A d \in CertCalls : d # c => cert'[d] = cert[d]
<1>1. cert[c] \in CertRecords /\ cert \in [CertCalls -> CertRecords]
  BY DEF CertTypes
<1>2. /\ [cert[c] EXCEPT !.step = step] \in CertRecords
      /\ [cert[c] EXCEPT !.step = step].step = step
      /\ [cert[c] EXCEPT !.step = step].holds = cert[c].holds
  BY <1>1 DEF CertRecords
<1>3. cert' = [cert EXCEPT ![c] = [cert[c] EXCEPT !.step = step]]
  BY DEF At
<1>. QED BY <1>1, <1>2, <1>3

\* What a write comes to, for the call and for the disk.
Written(c, step, f, pem) ==
  /\ CertTypes'
  /\ cert'[c].step = step /\ cert'[c].holds[f] = pem /\ pems'[f] = pem
  /\ \A g \in PemFiles : g # f => cert'[c].holds[g] = cert[c].holds[g] /\ pems'[g] = pems[g]
  /\ \A d \in CertCalls : d # c => cert'[d] = cert[d]
  /\ UNCHANGED <<expired, served, entangled, died, installed>>

\* A call writes one of the four files.
LEMMA CertWrites ==
  ASSUME CertTypes, NEW c \in CertCalls, NEW step \in CertSteps, NEW f \in PemFiles, NEW pem \in Pems,
         f = "caKey" => pem \in KeyPems,
         Writes(c, step, f, pem)
  PROVE  Written(c, step, f, pem)
<1>1. /\ cert[c] \in CertRecords /\ cert \in [CertCalls -> CertRecords]
      /\ cert[c].holds \in Bundles /\ pems \in Bundles
  BY DEF CertTypes, CertRecords
<1>. DEFINE holds == [cert[c].holds EXCEPT ![f] = pem]
            new == [cert[c] EXCEPT !.step = step, !.holds = holds]
<1>2. /\ holds \in Bundles /\ holds[f] = pem
      /\ \A g \in PemFiles : g # f => holds[g] = cert[c].holds[g]
  BY <1>1 DEF Bundles, PemFiles
<1>3. /\ pems' \in Bundles /\ pems'[f] = pem
      /\ \A g \in PemFiles : g # f => pems'[g] = pems[g]
  BY <1>1 DEF Bundles, PemFiles, Writes
<1>4. cert' = [cert EXCEPT ![c] = new]
  BY <1>1 DEF Writes, Holds, CertRecords
<1>. HIDE DEF holds
<1>5. new \in CertRecords /\ new.step = step /\ new.holds = holds
  BY <1>1, <1>2 DEF CertRecords
<1>. HIDE DEF new
<1>6. /\ cert' \in [CertCalls -> CertRecords] /\ cert'[c] = new
      /\ \A d \in CertCalls : d # c => cert'[d] = cert[d]
  BY <1>1, <1>4, <1>5
<1>7. UNCHANGED <<expired, served, entangled, died, installed>>
  BY DEF Writes
<1>8. CertTypes'
  BY <1>3, <1>6, <1>7 DEF CertTypes
<1>. QED BY <1>2, <1>3, <1>5, <1>6, <1>7, <1>8 DEF Written

\* The call in progress is alone: what it does is all that has to be looked at.
LEMMA CertAlone ==
  ASSUME CertInv, ~died, ~entangled, NEW c \in CertCalls, cert[c].step \notin {"unused", "over"},
         \A d \in CertCalls : d # c => cert'[d] = cert[d],
         IF cert'[c].step \in {"unused", "over"} THEN (CaSound /\ LeafSound)' ELSE Progress(c)',
         \A d \in CertCalls : served'[d] # NoPems => Usable(served'[d]),
         CaKept'
  PROVE  Untangled'
<1>1. \A d \in CertCalls : d # c => cert[d].step \in {"unused", "over"}
  BY DEF CertInv, Untangled, Ensuring
<1>2. Ensuring' \in {{}, {c}} /\ (Ensuring' = {} <=> cert'[c].step \in {"unused", "over"})
  BY <1>1 DEF Ensuring
<1>3. Ensuring' = {} => (CaSound /\ LeafSound)'
  BY <1>2
<1>4. \A d \in Ensuring' : d = c
  BY <1>2
<1>5. ASSUME Ensuring' = {c} PROVE \A d \in Ensuring' : Progress(d)'
  BY <1>2, <1>4, <1>5
<1>6. \A d, e \in Ensuring' : d = e
  BY <1>4
<1>. QED BY <1>2, <1>3, <1>5, <1>6 DEF Untangled

\* What is known when a call takes a step and nothing has gone wrong.
LEMMA CertNow ==
  ASSUME CertInv, ~died, ~entangled, NEW c \in CertCalls, cert[c].step \notin {"unused", "over"}
  PROVE  Progress(c) /\ CaKept /\ \A d \in CertCalls : served[d] # NoPems => Usable(served[d])
BY DEF CertInv, Untangled, Ensuring

\* A call begins, alone or not.
LEMMA CertsBegin ==
  ASSUME CertInv, NEW c \in CertCalls, EnsureProxyCerts(c) PROVE CertInv'
<1>1. /\ cert[c].step = "unused" /\ UNCHANGED <<pems, expired, served, died, installed>>
      /\ entangled' = (entangled \/ Ensuring # {})
  BY DEF EnsureProxyCerts
<1>2. PICK wipes \in BOOLEAN :
        cert' = [cert EXCEPT ![c].step = IF wipes THEN "wipe" ELSE "read ca", ![c].regenerates = wipes]
  BY DEF EnsureProxyCerts
<1>. DEFINE step == IF wipes THEN "wipe" ELSE "read ca"
            new == [cert[c] EXCEPT !.step = step, !.regenerates = wipes]
<1>3. cert[c] \in CertRecords /\ cert \in [CertCalls -> CertRecords] /\ step \in CertSteps
  BY DEF CertInv, CertTypes, CertSteps
<1>4. cert' = [cert EXCEPT ![c] = new]
  BY <1>2, <1>3 DEF CertRecords
<1>5. new \in CertRecords /\ new.step = step
  BY <1>3 DEF CertRecords
<1>. HIDE DEF new
<1>6. /\ cert' \in [CertCalls -> CertRecords] /\ cert'[c].step \in {"wipe", "read ca"}
      /\ \A d \in CertCalls : d # c => cert'[d] = cert[d]
  BY <1>3, <1>4, <1>5
<1>7. CertTypes'
  BY <1>1, <1>6 DEF CertInv, CertTypes
<1>8. ASSUME ~died, ~entangled, Ensuring = {} PROVE Untangled'
  <2>1. CaSound' /\ LeafSound' /\ CaKept'
    BY <1>1, <1>8 DEF CertInv, Untangled, CaSound, LeafSound, CaKept
  <2>2. Ensuring' = {c}
    BY <1>6, <1>8 DEF Ensuring
  <2>3. Progress(c)'
    BY <1>6, <2>1 DEF Progress
  <2>4. \A d \in CertCalls : served'[d] # NoPems => Usable(served'[d])
    BY <1>1, <1>8 DEF CertInv, Untangled
  <2>. QED BY <2>1, <2>2, <2>3, <2>4 DEF Untangled
<1>. QED BY <1>1, <1>7, <1>8 DEF CertInv

\* "Regenerate CA" wipes the four files.
LEMMA CertsRegenerate ==
  ASSUME CertInv, NEW c \in CertCalls, RegenerateProxyCa(c) PROVE CertInv'
<1>1. /\ cert[c].step = "wipe" /\ pems' = NoPems /\ installed' = NoPem
      /\ UNCHANGED <<expired, served, entangled, died>>
  BY DEF RegenerateProxyCa
<1>2. /\ cert' \in [CertCalls -> CertRecords] /\ cert'[c].step = "read ca"
      /\ \A d \in CertCalls : d # c => cert'[d] = cert[d]
  BY CertMoves DEF RegenerateProxyCa, CertInv, CertSteps
<1>3. CertTypes'
  BY <1>1, <1>2 DEF CertInv, CertTypes, NoPems, Bundles, Pems, KeyPems, PemFiles
<1>4. ASSUME ~died, ~entangled PROVE Untangled'
  <2>1. CaSound' /\ LeafSound' /\ CaKept'
    BY <1>1 DEF CaSound, LeafSound, CaKept, NoPems, PemFiles
  <2>2. Progress(c)'
    BY <1>2, <2>1 DEF Progress
  <2>. QED BY <1>1, <1>2, <1>4, <2>1, <2>2, CertAlone, CertNow
<1>. QED BY <1>1, <1>3, <1>4 DEF CertInv

\* The CA on disk is usable and kept, or a new one is due.
LEMMA CertsReadCa ==
  ASSUME CertInv, NEW c \in CertCalls, ReadCa(c) PROVE CertInv'
<1>. DEFINE holds == [NoPems EXCEPT !["caCrt"] = pems["caCrt"], !["caKey"] = pems["caKey"]]
            step == IF CaUsable(pems["caCrt"], pems["caKey"]) THEN "read leaf" ELSE "ca crt"
<1>1. /\ cert[c].step = "read ca" /\ cert' = [cert EXCEPT ![c].holds = holds, ![c].step = step]
      /\ UNCHANGED <<pems, expired, served, entangled, died, installed>>
  BY DEF ReadCa
<1>2. /\ holds \in Bundles /\ holds["caCrt"] = pems["caCrt"] /\ holds["caKey"] = pems["caKey"]
      /\ step \in CertSteps
  BY DEF CertInv, CertTypes, NoPems, Bundles, Pems, KeyPems, PemFiles, CertSteps
<1>. HIDE DEF holds, step
<1>3. cert' = [cert EXCEPT ![c].step = step, ![c].holds = holds]
  BY <1>1
<1>4. /\ cert' \in [CertCalls -> CertRecords]
      /\ cert'[c].step = step /\ cert'[c].holds = holds
      /\ \A d \in CertCalls : d # c => cert'[d] = cert[d]
  BY <1>2, <1>3, CertStep DEF CertInv
<1>5. CertTypes'
  BY <1>1, <1>4 DEF CertInv, CertTypes
<1>6. ASSUME ~died, ~entangled PROVE Untangled'
  <2>1. CaSound /\ LeafSound /\ CaKept
    BY <1>1, <1>6, CertNow DEF Progress
  <2>2. CaSound' /\ LeafSound' /\ CaKept'
    BY <1>1, <2>1 DEF CaSound, LeafSound, CaKept
  <2>3. CASE CaUsable(pems["caCrt"], pems["caKey"])
    <3>1. cert'[c].step = "read leaf"
      BY <1>4, <2>3 DEF step
    <3>2. HoldsCa(c)'
      BY <1>1, <1>2, <1>4, <2>1, <2>2, <2>3 DEF HoldsCa, CaUsable, CaSound
    <3>3. Progress(c)'
      BY <3>1, <3>2, <2>2 DEF Progress
    <3>. QED BY <1>1, <1>4, <1>6, <2>2, <3>1, <3>3, CertAlone, CertNow
  <2>4. CASE ~CaUsable(pems["caCrt"], pems["caKey"])
    <3>1. cert'[c].step = "ca crt"
      BY <1>4, <2>4 DEF step
    <3>2. CaGivenUp
      BY <2>1, <2>4, CertsAssumption DEF CaGivenUp, CaUsable, CaSound, CaKept
    <3>3. CaGivenUp'
      BY <1>1, <3>2 DEF CaGivenUp
    <3>4. Progress(c)'
      BY <3>1, <3>3, <2>2 DEF Progress
    <3>. QED BY <1>1, <1>4, <1>6, <2>2, <3>1, <3>4, CertAlone, CertNow
  <2>. QED BY <2>3, <2>4
<1>. QED BY <1>1, <1>5, <1>6 DEF CertInv

\* The certificate of the new CA is written before its key.
LEMMA CertsCreateCaCrt ==
  ASSUME CertInv, NEW c \in CertCalls, CreateCaCrt(c) PROVE CertInv'
<1>1. c \in Pems /\ "caCrt" \in PemFiles /\ "ca key" \in CertSteps
  BY DEF Pems, KeyPems, PemFiles, CertSteps
<1>2. cert[c].step = "ca crt" /\ Writes(c, "ca key", "caCrt", c)
  BY DEF CreateCaCrt
<1>3. /\ CertTypes'
      /\ cert'[c].step = "ca key" /\ cert'[c].holds["caCrt"] = c /\ pems'["caCrt"] = c
      /\ \A g \in PemFiles : g # "caCrt" => pems'[g] = pems[g]
      /\ \A d \in CertCalls : d # c => cert'[d] = cert[d]
      /\ UNCHANGED <<expired, served, entangled, died, installed>>
  <2>1. CertTypes
    BY DEF CertInv
  <2>2. Written(c, "ca key", "caCrt", c)
    BY <1>1, <1>2, <2>1, CertWrites
  <2>. QED BY <2>2 DEF Written
<1>4. ASSUME ~died, ~entangled PROVE Untangled'
  <2>1. CaGivenUp /\ LeafSound
    BY <1>2, <1>4, CertNow DEF Progress
  <2>2. CaGivenUp' /\ LeafSound' /\ CaKept'
    BY <1>3, <2>1 DEF CaGivenUp, LeafSound, CaKept, PemFiles
  <2>3. Progress(c)'
    BY <1>3, <2>2 DEF Progress
  <2>. QED BY <1>2, <1>3, <1>4, <2>2, <2>3, CertAlone, CertNow
<1>. QED BY <1>3, <1>4 DEF CertInv

\* With its key the new CA is whole.
LEMMA CertsCreateCaKey ==
  ASSUME CertInv, NEW c \in CertCalls, CreateCaKey(c) PROVE CertInv'
<1>1. c \in Pems /\ c \in KeyPems /\ "caKey" \in PemFiles /\ "leaf crt" \in CertSteps
  BY DEF Pems, KeyPems, PemFiles, CertSteps
<1>2. cert[c].step = "ca key" /\ Writes(c, "leaf crt", "caKey", c)
  BY DEF CreateCaKey
<1>3. /\ CertTypes'
      /\ cert'[c].step = "leaf crt" /\ cert'[c].holds["caKey"] = c /\ pems'["caKey"] = c
      /\ \A g \in PemFiles : g # "caKey" => pems'[g] = pems[g] /\ cert'[c].holds[g] = cert[c].holds[g]
      /\ \A d \in CertCalls : d # c => cert'[d] = cert[d]
      /\ UNCHANGED <<expired, served, entangled, died, installed>>
  <2>1. CertTypes
    BY DEF CertInv
  <2>2. Written(c, "leaf crt", "caKey", c)
    BY <1>1, <1>2, <2>1, CertWrites
  <2>. QED BY <2>2 DEF Written
<1>4. ASSUME ~died, ~entangled PROVE Untangled'
  <2>1. pems["caCrt"] = c /\ cert[c].holds["caCrt"] = c /\ LeafSound /\ CaKept
    BY <1>2, <1>4, CertNow DEF Progress
  <2>2. HoldsCa(c)' /\ LeafSound' /\ CaKept'
    BY <1>3, <2>1 DEF HoldsCa, CaSound, LeafSound, CaKept, PemFiles
  <2>3. Progress(c)'
    BY <1>3, <2>2 DEF Progress
  <2>. QED BY <1>2, <1>3, <1>4, <2>2, <2>3, CertAlone, CertNow
<1>. QED BY <1>3, <1>4 DEF CertInv

\* The leaf on disk is usable under the CA and kept, or a new one is due.
LEMMA CertsReadLeaf ==
  ASSUME CertInv, NEW c \in CertCalls, ReadLeaf(c) PROVE CertInv'
<1>. DEFINE holds == [cert[c].holds EXCEPT !["leafCrt"] = pems["leafCrt"], !["leafKey"] = pems["leafKey"]]
            usable == LeafUsable(pems["leafCrt"], pems["leafKey"], cert[c].holds["caCrt"])
            step == IF usable THEN "done" ELSE "leaf crt"
<1>0. cert[c] \in CertRecords /\ cert \in [CertCalls -> CertRecords] /\ cert[c].holds \in Bundles /\ pems \in Bundles
  BY DEF CertInv, CertTypes, CertRecords
<1>1. /\ cert[c].step = "read leaf" /\ UNCHANGED <<pems, expired, served, entangled, died, installed>>
      /\ cert' = [cert EXCEPT ![c].step = step, ![c].holds = holds]
  BY <1>0 DEF ReadLeaf, CertRecords, Bundles
<1>2. /\ holds \in Bundles /\ step \in CertSteps
      /\ holds["leafCrt"] = pems["leafCrt"] /\ holds["leafKey"] = pems["leafKey"]
      /\ holds["caCrt"] = cert[c].holds["caCrt"] /\ holds["caKey"] = cert[c].holds["caKey"]
  BY <1>0 DEF Bundles, PemFiles, CertSteps
<1>. HIDE DEF holds, step, usable
<1>4. /\ cert' \in [CertCalls -> CertRecords]
      /\ cert'[c].step = step /\ cert'[c].holds = holds
      /\ \A d \in CertCalls : d # c => cert'[d] = cert[d]
  BY <1>1, <1>2, CertStep DEF CertInv
<1>5. CertTypes'
  BY <1>1, <1>4 DEF CertInv, CertTypes
<1>6. ASSUME ~died, ~entangled PROVE Untangled'
  <2>1. HoldsCa(c) /\ LeafSound /\ CaKept
    BY <1>1, <1>6, CertNow DEF Progress
  <2>2. HoldsCa(c)' /\ LeafSound' /\ CaKept'
    BY <1>1, <1>2, <1>4, <2>1 DEF HoldsCa, CaSound, LeafSound, CaKept
  <2>3. CASE usable
    <3>1. cert'[c].step = "done"
      BY <1>4, <2>3 DEF step
    <3>2. Usable(holds)
      BY <1>2, <2>1, <2>3 DEF Usable, usable, LeafUsable, LeafSound
    <3>3. Usable(cert[c].holds)'
      BY <1>4, <3>2 DEF Usable
    <3>4. Progress(c)'
      BY <3>1, <3>3, <2>2 DEF Progress
    <3>. QED BY <1>1, <1>4, <1>6, <2>2, <3>1, <3>4, CertAlone, CertNow
  <2>4. CASE ~usable
    <3>1. cert'[c].step = "leaf crt"
      BY <1>4, <2>4 DEF step
    <3>2. Progress(c)'
      BY <3>1, <2>2 DEF Progress
    <3>. QED BY <1>1, <1>4, <1>6, <2>2, <3>1, <3>2, CertAlone, CertNow
  <2>. QED BY <2>3, <2>4
<1>. QED BY <1>1, <1>5, <1>6 DEF CertInv

\* The leaf's certificate is written before its key.
LEMMA CertsCreateLeafCrt ==
  ASSUME CertInv, NEW c \in CertCalls, CreateLeafCrt(c) PROVE CertInv'
<1>. DEFINE leaf == Leaf(c, cert[c].holds["caKey"])
<1>1. leaf \in Pems /\ "leafCrt" \in PemFiles /\ "leaf key" \in CertSteps
  BY DEF CertInv, CertTypes, CertRecords, Bundles, Leaf, Pems, PemFiles, CertSteps
<1>2. cert[c].step = "leaf crt" /\ Writes(c, "leaf key", "leafCrt", leaf)
  BY DEF CreateLeafCrt
<1>. HIDE DEF leaf
<1>3. /\ CertTypes'
      /\ cert'[c].step = "leaf key" /\ cert'[c].holds["leafCrt"] = leaf /\ pems'["leafCrt"] = leaf
      /\ \A g \in PemFiles : g # "leafCrt" => pems'[g] = pems[g] /\ cert'[c].holds[g] = cert[c].holds[g]
      /\ \A d \in CertCalls : d # c => cert'[d] = cert[d]
      /\ UNCHANGED <<expired, served, entangled, died, installed>>
  <2>1. CertTypes
    BY DEF CertInv
  <2>2. Written(c, "leaf key", "leafCrt", leaf)
    BY <1>1, <1>2, <2>1, CertWrites
  <2>. QED BY <2>2 DEF Written
<1>4. ASSUME ~died, ~entangled PROVE Untangled'
  <2>1. HoldsCa(c) /\ CaKept
    BY <1>2, <1>4, CertNow DEF Progress
  <2>2. HoldsCa(c)' /\ CaKept' /\ leaf = Leaf(c, pems'["caCrt"])
    BY <1>3, <2>1 DEF HoldsCa, CaSound, CaKept, PemFiles, leaf
  <2>3. Progress(c)'
    BY <1>3, <2>2 DEF Progress
  <2>. QED BY <1>2, <1>3, <1>4, <2>2, <2>3, CertAlone, CertNow
<1>. QED BY <1>3, <1>4 DEF CertInv

\* With its key the leaf is whole.
LEMMA CertsCreateLeafKey ==
  ASSUME CertInv, NEW c \in CertCalls, CreateLeafKey(c) PROVE CertInv'
<1>1. c \in Pems /\ "leafKey" \in PemFiles /\ "done" \in CertSteps
  BY DEF Pems, KeyPems, PemFiles, CertSteps
<1>2. cert[c].step = "leaf key" /\ Writes(c, "done", "leafKey", c)
  BY DEF CreateLeafKey
<1>3. /\ CertTypes'
      /\ cert'[c].step = "done" /\ cert'[c].holds["leafKey"] = c /\ pems'["leafKey"] = c
      /\ \A g \in PemFiles : g # "leafKey" => pems'[g] = pems[g] /\ cert'[c].holds[g] = cert[c].holds[g]
      /\ \A d \in CertCalls : d # c => cert'[d] = cert[d]
      /\ UNCHANGED <<expired, served, entangled, died, installed>>
  <2>1. CertTypes
    BY DEF CertInv
  <2>2. Written(c, "done", "leafKey", c)
    BY <1>1, <1>2, <2>1, CertWrites
  <2>. QED BY <2>2 DEF Written
<1>4. ASSUME ~died, ~entangled PROVE Untangled'
  <2>1. /\ HoldsCa(c) /\ CaKept /\ pems["leafCrt"] = Leaf(c, pems["caCrt"])
        /\ cert[c].holds["leafCrt"] = Leaf(c, pems["caCrt"])
    BY <1>2, <1>4, CertNow DEF Progress
  <2>2. HoldsCa(c)' /\ CaKept'
    BY <1>3, <2>1 DEF HoldsCa, CaSound, CaKept, PemFiles
  <2>3. LeafSound' /\ Usable(cert[c].holds)'
    BY <1>3, <2>1 DEF HoldsCa, LeafSound, Usable, Leaf, PemFiles
  <2>4. Progress(c)'
    BY <1>3, <2>2, <2>3 DEF Progress
  <2>. QED BY <1>2, <1>3, <1>4, <2>2, <2>4, CertAlone, CertNow
<1>. QED BY <1>3, <1>4 DEF CertInv

\* What is served is what the call holds.
LEMMA CertsReady ==
  ASSUME CertInv, NEW c \in CertCalls, ProxyCertsReady(c) PROVE CertInv'
<1>1. /\ cert[c].step = "done" /\ served' = [served EXCEPT ![c] = cert[c].holds]
      /\ installed' \in {installed, cert[c].holds["caCrt"]}
      /\ UNCHANGED <<pems, expired, entangled, died>>
  BY DEF ProxyCertsReady
<1>2. /\ cert' \in [CertCalls -> CertRecords] /\ cert'[c].step = "over"
      /\ \A d \in CertCalls : d # c => cert'[d] = cert[d]
  BY CertMoves DEF ProxyCertsReady, CertInv, CertSteps
<1>3. CertTypes'
  BY <1>1, <1>2 DEF CertInv, CertTypes
<1>4. ASSUME ~died, ~entangled PROVE Untangled'
  <2>1. HoldsCa(c) /\ LeafSound /\ Usable(cert[c].holds) /\ CaKept
    BY <1>1, <1>4, CertNow DEF Progress
  <2>2. CaSound' /\ LeafSound' /\ CaKept'
    BY <1>1, <2>1 DEF HoldsCa, CaSound, LeafSound, CaKept
  <2>3. \A d \in CertCalls : served'[d] # NoPems => Usable(served'[d])
    BY <1>1, <1>4, <2>1, CertNow
  <2>. QED BY <1>1, <1>2, <1>4, <2>2, <2>3, CertAlone
<1>. QED BY <1>1, <1>3, <1>4 DEF CertInv

\* A crash between the writes of a pair is remembered; any other leaves whole pairs.
LEMMA CertsCrashes ==
  ASSUME CertInv, CertsCrash PROVE CertInv'
<1>1. /\ cert' = [c \in CertCalls |-> IF c \in Ensuring THEN [cert[c] EXCEPT !.step = "over"] ELSE cert[c]]
      /\ died' = (died \/ \E c \in Ensuring : cert[c].step \in {"ca crt", "ca key", "leaf crt", "leaf key"})
      /\ UNCHANGED <<expired, served, entangled, installed>>
  BY DEF CertsCrash
<1>2. PICK c \in Ensuring :
       pems' \in {pems} \cup {[pems EXCEPT ![f] = TornPem] : f \in
                   {g \in PemFiles : <<cert[c].step, g>> \in {<<"ca crt", "caCrt">>, <<"ca key", "caKey">>,
                                                            <<"leaf crt", "leafCrt">>, <<"leaf key", "leafKey">>}}}
  BY DEF CertsCrash
<1>3. \/ pems' = pems
      \/ /\ cert[c].step \in {"ca crt", "ca key", "leaf crt", "leaf key"}
         /\ \E f \in PemFiles : pems' = [pems EXCEPT ![f] = TornPem]
  BY <1>2
<1>4. pems' \in Bundles
  <2>1. pems \in Bundles
    BY DEF CertInv, CertTypes
  <2>2. ASSUME NEW f \in PemFiles PROVE [pems EXCEPT ![f] = TornPem] \in Bundles
    <3>1. TornPem \in KeyPems /\ TornPem \in Pems
      BY DEF Pems, KeyPems
    <3>. QED BY <2>1, <3>1 DEF Bundles, PemFiles
  <2>. QED BY <1>3, <2>1, <2>2
<1>5. ASSUME NEW d \in CertCalls
      PROVE  [cert[d] EXCEPT !.step = "over"] \in CertRecords /\ [cert[d] EXCEPT !.step = "over"].step = "over"
  <2>1. cert[d] \in CertRecords
    BY DEF CertInv, CertTypes
  <2>. QED BY <2>1 DEF CertRecords, CertSteps
<1>6. cert' \in [CertCalls -> CertRecords] /\ \A d \in CertCalls : cert'[d].step \in {"unused", "over"}
  BY <1>1, <1>5 DEF CertInv, CertTypes, Ensuring
<1>7. CertTypes'
  BY <1>1, <1>4, <1>6 DEF CertInv, CertTypes
<1>8. ASSUME ~died', ~entangled PROVE Untangled'
  <2>1. ~died /\ pems' = pems /\ cert[c].step \notin {"ca crt", "ca key", "leaf crt", "leaf key"}
    BY <1>1, <1>3, <1>8
  <2>2. c \in CertCalls /\ cert[c].step \notin {"unused", "over"} /\ cert[c].step \in CertSteps
    BY DEF Ensuring, CertInv, CertTypes, CertRecords
  <2>3. Progress(c) /\ CaKept /\ \A d \in CertCalls : served[d] # NoPems => Usable(served[d])
    BY <1>8, <2>1, <2>2, CertNow
  <2>4. CaSound /\ LeafSound
    BY <2>1, <2>2, <2>3 DEF Progress, CertSteps, HoldsCa
  <2>5. CaSound' /\ LeafSound' /\ CaKept'
    BY <1>1, <2>1, <2>3, <2>4 DEF CaSound, LeafSound, CaKept
  <2>6. Ensuring' = {}
    BY <1>6 DEF Ensuring
  <2>. QED BY <1>1, <2>3, <2>5, <2>6 DEF Untangled
<1>. QED BY <1>1, <1>7, <1>8 DEF CertInv

\* The invariant is inductive.
LEMMA CertsNextInv == CertInv /\ [CertsNext]_certVars => CertInv'
<1> SUFFICES ASSUME CertInv, [CertsNext]_certVars PROVE CertInv'
  OBVIOUS
<1>1. ASSUME NEW c \in CertCalls,
       \/ EnsureProxyCerts(c) \/ RegenerateProxyCa(c) \/ ReadCa(c) \/ CreateCaCrt(c) \/ CreateCaKey(c)
       \/ ReadLeaf(c) \/ CreateLeafCrt(c) \/ CreateLeafKey(c) \/ ProxyCertsReady(c)
      PROVE  CertInv'
  BY <1>1, CertsBegin, CertsRegenerate, CertsReadCa, CertsCreateCaCrt, CertsCreateCaKey, CertsReadLeaf,
     CertsCreateLeafCrt, CertsCreateLeafKey, CertsReady
<1>2. CASE CertsCrash
  BY <1>2, CertsCrashes
<1>3. CASE CertsExpire
  <2>1. Ensuring = {} /\ UNCHANGED <<pems, cert, served, entangled, died, installed>> /\ expired \subseteq expired'
    BY <1>3 DEF CertsExpire
  <2>2. CertTypes'
    BY <2>1 DEF CertInv, CertTypes
  <2>3. Ensuring' = {}
    BY <2>1 DEF Ensuring
  <2>4. ASSUME Untangled PROVE Untangled'
    <3>1. CaSound' /\ LeafSound' /\ CaKept'
      BY <2>1, <2>4 DEF Untangled, CaSound, LeafSound, CaKept
    <3>. QED BY <2>1, <2>3, <2>4, <3>1 DEF Untangled
  <2>. QED BY <2>1, <2>2, <2>4 DEF CertInv
<1>4. CASE UNCHANGED certVars
  <2>1. UNCHANGED <<pems, cert, expired, served, entangled, died, installed>>
    BY <1>4 DEF certVars
  <2>2. CertTypes'
    BY <2>1 DEF CertInv, CertTypes
  <2>3. ASSUME Untangled PROVE Untangled'
    <3>1. Ensuring' = Ensuring
      BY <2>1 DEF Ensuring
    <3>2. (CaSound' <=> CaSound) /\ (LeafSound' <=> LeafSound) /\ (CaKept' <=> CaKept) /\ (CaGivenUp' <=> CaGivenUp)
      BY <2>1 DEF CaSound, LeafSound, CaKept, CaGivenUp
    <3>3. ASSUME NEW c \in Ensuring PROVE Progress(c)'
      <4>1. HoldsCa(c)' <=> HoldsCa(c)
        BY <2>1, <3>2 DEF HoldsCa
      <4>2. Usable(cert[c].holds)' <=> Usable(cert[c].holds)
        BY <2>1 DEF Usable
      <4>3. Progress(c)
        BY <2>3 DEF Untangled
      <4>. QED BY <2>1, <3>2, <4>1, <4>2, <4>3 DEF Progress
    <3>. QED BY <2>1, <2>3, <3>1, <3>2, <3>3 DEF Untangled
  <2>. QED BY <2>1, <2>2, <2>3 DEF CertInv
<1>. QED
  BY <1>1, <1>2, <1>3, <1>4 DEF CertsNext

\* For any number of calls that ensure the certificates: unless one died between the writes of a
\* pair, what each serves is a CA with a leaf it signed and their keys, and the CA a user has
\* installed is not replaced before its time (main/proxy-certs.ts).
THEOREM CertsStand == CertsSpec => []CertsStandUp
<1>1. CertsInit => CertInv
  <2> SUFFICES ASSUME CertsInit PROVE CertInv
    OBVIOUS
  <2>1. NoPems \in Bundles /\ NoPems["caCrt"] = NoPem /\ NoPems["caKey"] = NoPem /\ NoPems["leafCrt"] = NoPem
    BY DEF NoPems, Bundles, Pems, KeyPems, PemFiles
  <2>2. NoCert \in CertRecords
    BY <2>1 DEF NoCert, CertRecords, CertSteps
  <2>3. CertTypes
    BY <2>1, <2>2 DEF CertsInit, CertTypes
  <2>4. Ensuring = {}
    BY DEF CertsInit, Ensuring, NoCert
  <2>5. CaSound /\ LeafSound /\ CaKept
    BY <2>1 DEF CertsInit, CaSound, LeafSound, CaKept
  <2>6. \A c \in CertCalls : served[c] = NoPems
    BY DEF CertsInit
  <2>. QED BY <2>3, <2>4, <2>5, <2>6 DEF CertInv, Untangled
<1>2. CertInv => CertsStandUp
  BY DEF CertInv, Untangled, CaKept, CertsStandUp, CertsAreUsable
<1>. QED
  BY <1>1, <1>2, CertsNextInv, PTL DEF CertsSpec

-----------------------------------------------------------------------------
(***************************************************************************)
(* H2Upstream, whose names Init, Next, vars and Spec are: probes tell the  *)
(* target.                                                                 *)
(***************************************************************************)
ProbeStates == [phase : Asking \cup {"unused", "settled"}, target : Targets \cup {None}, run : 0 .. MaxRuns]

\* A probe that asks was dialed for a target, in this run or an earlier one.
ProbesDated ==
  /\ \A p \in Probes : probe[p].run \in 0 .. run
  /\ \A p \in Probes : probe[p].phase \in Asking => probe[p].target \in Targets
  /\ target \in Targets \/ (state = "stopped" /\ \A p \in Probes : probe[p].phase \notin Asking)

\* While the run has not forgotten its own probe, that is the one that asks.
OwnProbeIsShared ==
  state = "listening" /\ ~orphaned =>
    \A p \in Probes : probe[p].phase \in Asking /\ probe[p].run = run => h2Probe = p

UpstreamInv == TypeOK /\ ProbesDated /\ OwnAnswerIsTheTargets /\ OwnProbeIsShared

\* Dispatching streams keeps the types of the session and of the streams.
LEMMA OverTypes ==
  ASSUME TypeOK, target \in Targets, NEW S \in SUBSET Streams, OverH1(S) \/ OverH2(S)
  PROVE  /\ h2Upstream' \in [target : Targets, answered : BOOLEAN] \cup {None}
         /\ stream' \in [Streams -> [at : {"absent", "waiting", "h1", "h2", "gone"},
                                     probe : Probes \cup {None}, over : Targets \cup {None}]]
<1>1. SharedSession \in [target : Targets, answered : BOOLEAN]
  BY DEF TypeOK, SharedSession
<1>2. SharedSession.target \in Targets
  BY <1>1
<1>3. CASE OverH1(S)
  BY <1>3 DEF TypeOK, OverH1
<1>4. CASE OverH2(S)
  BY <1>1, <1>2, <1>4 DEF TypeOK, OverH2
<1>. QED BY <1>3, <1>4

\* Streams that end keep theirs.
LEMMA GoneTypes ==
  ASSUME TypeOK, NEW S \in SUBSET Streams, Gone(S)
  PROVE  stream' \in [Streams -> [at : {"absent", "waiting", "h1", "h2", "gone"},
                                  probe : Probes \cup {None}, over : Targets \cup {None}]]
BY DEF TypeOK, Gone

\* What leaves the state, the answer and the probes alone.
LEMMA UpstreamSame ==
  ASSUME UpstreamInv, UNCHANGED <<state, target, run, h2Support, stray, orphaned, h2Probe, probe>>, TypeOK'
  PROVE  UpstreamInv'
BY DEF UpstreamInv, ProbesDated, OwnAnswerIsTheTargets, AnswerIsTheTargets, OwnProbeIsShared

\* A probe that settles, with a proven answer or without one.
LEMMA FinishKeeps ==
  ASSUME UpstreamInv, NEW p \in Probes, probe[p].phase \in Asking,
         NEW answer \in {"yes", "no"}, NEW definitive \in BOOLEAN,
         definitive => ((answer = "yes") <=> (probe[p].target \in SpeaksH2)),
         FinishProbe(p, answer, definitive)
  PROVE  UpstreamInv'
<1>1. /\ h2Support' = IF definitive THEN answer ELSE h2Support
      /\ stray' = IF definitive THEN probe[p].target # target ELSE stray
      /\ orphaned' = (orphaned \/ h2Probe \notin {None, p})
      /\ h2Probe' = None
      /\ probe' = [probe EXCEPT ![p].phase = "settled"]
      /\ UNCHANGED <<state, target, run>>
      /\ OverH2(Waiting(p)) \/ OverH1(Waiting(p))
  BY DEF FinishProbe
<1>2. TypeOK /\ probe[p] \in ProbeStates /\ probe \in [Probes -> ProbeStates]
  BY DEF UpstreamInv, TypeOK, ProbeStates
<1>3. /\ probe' \in [Probes -> ProbeStates]
      /\ probe'[p] = [probe[p] EXCEPT !.phase = "settled"]
      /\ probe'[p].phase = "settled" /\ probe'[p].run = probe[p].run
      /\ \A q \in Probes : q # p => probe'[q] = probe[q]
  BY <1>1, <1>2 DEF ProbeStates
<1>4. TypeOK'
  <2>1. target \in Targets /\ Waiting(p) \in SUBSET Streams
    BY DEF UpstreamInv, ProbesDated, Waiting
  <2>2. h2Support' \in Answers /\ stray' \in BOOLEAN /\ orphaned' \in BOOLEAN /\ h2Probe' \in Probes \cup {None}
    BY <1>1, <1>2 DEF TypeOK, Answers
  <2>3. /\ h2Upstream' \in [target : Targets, answered : BOOLEAN] \cup {None}
        /\ stream' \in [Streams -> [at : {"absent", "waiting", "h1", "h2", "gone"},
                                   probe : Probes \cup {None}, over : Targets \cup {None}]]
    <3>. DEFINE S == Waiting(p)
    <3>1. S \in SUBSET Streams /\ (OverH1(S) \/ OverH2(S))
      BY <1>1, <2>1
    <3>. HIDE DEF S
    <3>. QED BY <1>2, <2>1, <3>1, OverTypes
  <2>4. state' = state /\ target' = target /\ run' = run
    BY <1>1
  <2>. QED BY <1>2, <1>3, <2>2, <2>3, <2>4 DEF TypeOK, ProbeStates
<1>5. ProbesDated'
  BY <1>1, <1>3 DEF UpstreamInv, ProbesDated, Asking
<1>6. OwnAnswerIsTheTargets'
  <2>1. CASE definitive
    <3>1. CASE probe[p].target = target
      <4>1. h2Support' = answer /\ target' = target
        BY <1>1, <2>1
      <4>2. (answer = "yes") <=> (target \in SpeaksH2)
        BY <2>1, <3>1
      <4>. QED BY <4>1, <4>2 DEF OwnAnswerIsTheTargets, AnswerIsTheTargets
    <3>2. CASE probe[p].target # target
      <4>1. stray' = (probe[p].target # target)
        BY <1>1, <2>1
      <4>. QED BY <3>2, <4>1 DEF OwnAnswerIsTheTargets
    <3>. QED BY <3>1, <3>2
  <2>2. CASE ~definitive
    BY <1>1, <2>2 DEF UpstreamInv, OwnAnswerIsTheTargets, AnswerIsTheTargets
  <2>. QED BY <2>1, <2>2
<1>7. OwnProbeIsShared'
  <2>1. SUFFICES ASSUME state = "listening", ~orphaned, h2Probe \in {None, p},
                        NEW q \in Probes, probe'[q].phase \in Asking, probe'[q].run = run
                 PROVE  FALSE
    BY <1>1 DEF OwnProbeIsShared
  <2>2. q # p
    BY <1>3, <2>1 DEF Asking
  <2>3. h2Probe = q
    BY <1>3, <2>1, <2>2 DEF UpstreamInv, OwnProbeIsShared
  <2>. QED BY <2>1, <2>2, <2>3, UpstreamAssumption
<1>. QED BY <1>4, <1>5, <1>6, <1>7 DEF UpstreamInv

\* The invariant is inductive.
LEMMA UpstreamNextInv == UpstreamInv /\ [Next]_vars => UpstreamInv'
<1> SUFFICES ASSUME UpstreamInv, [Next]_vars PROVE UpstreamInv'
  OBVIOUS
<1>0. TypeOK
  BY DEF UpstreamInv
<1>00. state # "stopped" => target \in Targets
  BY DEF UpstreamInv, ProbesDated
<1>1. ASSUME NEW s \in Streams, GrpcStream(s) PROVE UpstreamInv'
  <2>1. TypeOK'
    BY <1>0, <1>00, <1>1, OverTypes DEF GrpcStream, Serving, TypeOK
  <2>. QED BY <1>1, <2>1, UpstreamSame DEF GrpcStream
<1>2. ASSUME NEW s \in Streams, KnownStream(s) PROVE UpstreamInv'
  <2>1. TypeOK'
    BY <1>0, <1>00, <1>2, OverTypes DEF KnownStream, Serving, TypeOK
  <2>. QED BY <1>2, <2>1, UpstreamSame DEF KnownStream
<1>3. ASSUME NEW s \in Streams, SharedProbe(s) PROVE UpstreamInv'
  <2>1. TypeOK'
    BY <1>0, <1>3 DEF SharedProbe, Wait, TypeOK
  <2>. QED BY <1>3, <2>1, UpstreamSame DEF SharedProbe
<1>4. ASSUME NEW s \in Streams, NEW p \in Probes, NewProbe(s, p) PROVE UpstreamInv'
  <2>. DEFINE new == [phase |-> "dialing", target |-> target, run |-> run]
  <2>1. /\ h2Probe = None /\ h2Probe' = p /\ probe' = [probe EXCEPT ![p] = new] /\ Wait(s, p)
        /\ state # "stopped"
        /\ UNCHANGED <<state, target, run, h2Support, stray, orphaned, h2Upstream>>
    BY <1>4 DEF NewProbe, Serving
  <2>2. /\ new \in ProbeStates /\ new.phase = "dialing" /\ new.run = run /\ new.target = target
        /\ probe \in [Probes -> ProbeStates] /\ run \in 0 .. MaxRuns
    BY <1>0 DEF TypeOK, ProbeStates, Asking
  <2>. HIDE DEF new
  <2>3. /\ probe' \in [Probes -> ProbeStates] /\ probe'[p] = new
        /\ \A q \in Probes : q # p => probe'[q] = probe[q]
    BY <2>1, <2>2
  <2>4. TypeOK'
    <3>1. stream' \in [Streams -> [at : {"absent", "waiting", "h1", "h2", "gone"},
                             probe : Probes \cup {None}, over : Targets \cup {None}]]
      BY <1>0, <2>1 DEF Wait, TypeOK
    <3>. QED BY <1>0, <2>1, <2>3, <3>1 DEF TypeOK, ProbeStates
  <2>5. ProbesDated'
    BY <1>00, <2>1, <2>2, <2>3, UpstreamAssumption DEF UpstreamInv, ProbesDated
  <2>6. OwnAnswerIsTheTargets'
    BY <2>1 DEF UpstreamInv, OwnAnswerIsTheTargets, AnswerIsTheTargets
  <2>7. OwnProbeIsShared'
    <3>1. ASSUME state = "listening", ~orphaned, NEW q \in Probes, probe[q].phase \in Asking, probe[q].run = run
          PROVE  FALSE
      BY <2>1, <3>1, UpstreamAssumption DEF UpstreamInv, OwnProbeIsShared
    <3>. QED BY <2>1, <2>3, <3>1 DEF OwnProbeIsShared
  <2>. QED BY <2>4, <2>5, <2>6, <2>7 DEF UpstreamInv
<1>5. ASSUME NEW s \in Streams, StreamEnd(s) PROVE UpstreamInv'
  <2>1. TypeOK'
    BY <1>0, <1>5, GoneTypes DEF StreamEnd, TypeOK
  <2>. QED BY <1>5, <2>1, UpstreamSame DEF StreamEnd
<1>6. ASSUME NEW p \in Probes, ProbeConnect(p) PROVE UpstreamInv'
  <2>1. /\ probe[p].phase = "dialing" /\ probe' = [probe EXCEPT ![p].phase = "connected"]
        /\ UNCHANGED <<state, target, run, h2Support, stray, orphaned, h2Probe, h2Upstream, stream>>
    BY <1>6 DEF ProbeConnect
  <2>2. probe[p] \in ProbeStates /\ probe \in [Probes -> ProbeStates]
    BY <1>0 DEF TypeOK, ProbeStates
  <2>3. /\ probe' \in [Probes -> ProbeStates]
        /\ \A q \in Probes : /\ probe'[q].run = probe[q].run /\ probe'[q].target = probe[q].target
                             /\ probe'[q].phase \in Asking <=> probe[q].phase \in Asking
    BY <2>1, <2>2 DEF ProbeStates, Asking
  <2>4. TypeOK'
    BY <1>0, <2>1, <2>3 DEF TypeOK, ProbeStates
  <2>5. ProbesDated' /\ OwnProbeIsShared' /\ OwnAnswerIsTheTargets'
    BY <2>1, <2>3 DEF UpstreamInv, ProbesDated, OwnProbeIsShared, OwnAnswerIsTheTargets, AnswerIsTheTargets
  <2>. QED BY <2>4, <2>5 DEF UpstreamInv
<1>7. ASSUME NEW p \in Probes, ProbeSettings(p) PROVE UpstreamInv'
  BY <1>7, FinishKeeps DEF ProbeSettings, Asking
<1>8. ASSUME NEW p \in Probes, ProbeFraming(p) PROVE UpstreamInv'
  BY <1>8, FinishKeeps DEF ProbeFraming, Asking
<1>9. ASSUME NEW p \in Probes, ProbeInconclusive(p) PROVE UpstreamInv'
  BY <1>9, FinishKeeps DEF ProbeInconclusive
<1>10. CASE SessionSettings
  <2>1. /\ h2Upstream # None /\ h2Upstream.target \in SpeaksH2
        /\ h2Upstream' = [h2Upstream EXCEPT !.answered = TRUE] /\ h2Support' = "yes"
        /\ stray' = (h2Upstream.target # target)
        /\ UNCHANGED <<state, target, run, orphaned, h2Probe, probe, stream>>
    BY <1>10 DEF SessionSettings
  <2>2. TypeOK'
    BY <1>0, <2>1 DEF TypeOK, Answers
  <2>3. OwnAnswerIsTheTargets'
    BY <2>1 DEF OwnAnswerIsTheTargets, AnswerIsTheTargets
  <2>4. ProbesDated' /\ OwnProbeIsShared'
    BY <2>1 DEF UpstreamInv, ProbesDated, OwnProbeIsShared
  <2>. QED BY <2>2, <2>3, <2>4 DEF UpstreamInv
<1>11. CASE SessionLost
  <2>1. TypeOK'
    BY <1>0, <1>11, GoneTypes DEF SessionLost, TypeOK
  <2>. QED BY <1>11, <2>1, UpstreamSame DEF SessionLost
<1>12. ASSUME NEW t \in Targets, StartRun(t) PROVE UpstreamInv'
  <2>1. /\ state' = "listening" /\ target' = t /\ run' = run + 1 /\ run < MaxRuns
        /\ h2Support' = "unknown" /\ stray' = FALSE /\ orphaned' = FALSE /\ h2Probe' = None
        /\ UNCHANGED <<probe, h2Upstream, stream>>
    BY <1>12 DEF StartRun
  <2>2. run \in 0 .. MaxRuns /\ run' \in 0 .. MaxRuns
    BY <1>0, <2>1, UpstreamAssumption DEF TypeOK
  <2>3. TypeOK'
    BY <1>0, <2>1, <2>2 DEF TypeOK, Answers
  <2>4. \A p \in Probes : probe[p].run \in 0 .. run
    BY DEF UpstreamInv, ProbesDated
  <2>5. ProbesDated'
    BY <2>1, <2>2, <2>4 DEF UpstreamInv, ProbesDated
  <2>6. OwnProbeIsShared'
    <3>1. \A p \in Probes : probe'[p].run # run'
      BY <2>1, <2>2, <2>4
    <3>. QED BY <3>1 DEF OwnProbeIsShared
  <2>7. OwnAnswerIsTheTargets'
    BY <2>1 DEF OwnAnswerIsTheTargets, AnswerIsTheTargets
  <2>. QED BY <2>3, <2>5, <2>6, <2>7 DEF UpstreamInv
<1>13. CASE StopBegin
  <2>1. /\ state = "listening" /\ state' = "stopping" /\ h2Upstream' = None /\ h2Support' = "unknown"
        /\ stray' = FALSE /\ orphaned' = FALSE /\ h2Probe' = None
        /\ UNCHANGED <<target, run, probe>>
    BY <1>13 DEF StopBegin
  <2>2. TypeOK'
    BY <1>0, <1>13, <2>1, GoneTypes DEF StopBegin, TypeOK, Answers
  <2>3. ProbesDated' /\ OwnProbeIsShared' /\ OwnAnswerIsTheTargets'
    BY <2>1 DEF UpstreamInv, ProbesDated, OwnProbeIsShared, OwnAnswerIsTheTargets, AnswerIsTheTargets
  <2>. QED BY <2>2, <2>3 DEF UpstreamInv
<1>14. CASE DestroySockets
  <2>1. TypeOK'
    BY <1>0, <1>14, GoneTypes DEF DestroySockets, TypeOK, Live
  <2>. QED BY <1>14, <2>1, UpstreamSame DEF DestroySockets
<1>15. CASE StopEnd
  <2>1. /\ state' = "stopped"
        /\ state = "stopping" /\ UNCHANGED <<target, run, h2Support, stray, orphaned, h2Probe, probe, h2Upstream, stream>>
    BY <1>15 DEF StopEnd
  <2>2. TypeOK'
    BY <1>0, <2>1 DEF TypeOK
  <2>3. ProbesDated' /\ OwnProbeIsShared' /\ OwnAnswerIsTheTargets'
    BY <2>1 DEF UpstreamInv, ProbesDated, OwnProbeIsShared, OwnAnswerIsTheTargets, AnswerIsTheTargets
  <2>. QED BY <2>2, <2>3 DEF UpstreamInv
<1>16. CASE UNCHANGED vars
  <2>1. TypeOK'
    BY <1>0, <1>16 DEF TypeOK, vars
  <2>. QED BY <1>16, <2>1, UpstreamSame DEF vars
<1>. QED
  BY <1>1, <1>2, <1>3, <1>4, <1>5, <1>6, <1>7, <1>8, <1>9, <1>10, <1>11, <1>12, <1>13, <1>14, <1>15, <1>16
  DEF Next, Arrive, ProbeAnswer

\* Nothing is known or asked at the start.
LEMMA UpstreamInitInv == Init => UpstreamInv
<1> SUFFICES ASSUME Init PROVE UpstreamInv
  OBVIOUS
<1>1. Unused \in ProbeStates /\ Unused.phase = "unused" /\ Unused.run = 0
  BY UpstreamAssumption DEF Unused, ProbeStates
<1>2. TypeOK
  <2>1. Absent \in [at : {"absent", "waiting", "h1", "h2", "gone"},
                    probe : Probes \cup {None}, over : Targets \cup {None}]
    BY DEF Absent
  <2>. QED BY <1>1, <2>1, UpstreamAssumption DEF Init, TypeOK, Answers, ProbeStates
<1>3. ProbesDated /\ OwnProbeIsShared /\ OwnAnswerIsTheTargets
  BY <1>1 DEF Init, ProbesDated, OwnProbeIsShared, OwnAnswerIsTheTargets, AnswerIsTheTargets, Asking
<1>. QED BY <1>2, <1>3 DEF UpstreamInv

\* For any targets, streams and probes, and however a server is stopped and started: the cached
\* answer is the current target's unless another target's probe or session wrote it, and those who
\* ask at once share one probe unless an earlier run's has cleared it (engine/record-proxy.ts).
THEOREM TargetIsTold == Spec => []ProbesTellTheTarget
<1>1. UpstreamInv => ProbesTellTheTarget
  BY DEF UpstreamInv, ProbesTellTheTarget, OneProbePerRun, OwnProbeIsShared
<1>. QED
  BY <1>1, UpstreamInitInv, UpstreamNextInv, PTL DEF Spec

\* What was learnt of a target stays for the run, unless it or what replaces it is a stray answer.
THEOREM AnswerStays == Spec => AnswerIsStable
<1>1. UpstreamInv /\ [Next]_vars =>
        (h2Support # "unknown" /\ h2Support' # h2Support => state' # state \/ stray \/ stray')
  <2> SUFFICES ASSUME UpstreamInv, UpstreamInv', [Next]_vars, h2Support # "unknown", h2Support' # h2Support,
                      state' = state, ~stray, ~stray'
               PROVE  FALSE
    BY UpstreamNextInv
  <2>1. h2Support \in Answers /\ h2Support' \in Answers
    BY DEF UpstreamInv, TypeOK
  <2>2. target' = target
    BY DEF Next, Arrive, ProbeAnswer, GrpcStream, KnownStream, SharedProbe, NewProbe, StreamEnd, ProbeConnect,
       ProbeSettings, ProbeFraming, ProbeInconclusive, FinishProbe, SessionSettings, SessionLost, StartRun,
       StopBegin, DestroySockets, StopEnd, vars
  <2>3. h2Support' # "unknown"
    BY DEF Next, Arrive, ProbeAnswer, GrpcStream, KnownStream, SharedProbe, NewProbe, StreamEnd, ProbeConnect,
       ProbeSettings, ProbeFraming, ProbeInconclusive, FinishProbe, SessionSettings, SessionLost, StartRun,
       StopBegin, DestroySockets, StopEnd, vars
  <2>. QED BY <2>1, <2>2, <2>3 DEF UpstreamInv, OwnAnswerIsTheTargets, AnswerIsTheTargets, Answers
<1>. QED
  BY <1>1, UpstreamInitInv, UpstreamNextInv, PTL DEF Spec, AnswerIsStable

-----------------------------------------------------------------------------
(***************************************************************************)
(* MockServers: whatever the collection holds, the table answers for the   *)
(* request that fits best.                                                 *)
(***************************************************************************)
\* A request file: what it answers for.
FilesKnown == requestFiles \in [FileIds -> RequestFiles]

\* Wildcards can be counted.
LEMMA CountsAreNumbers ==
  ASSUME FilesKnown, NEW i \in FileIds PROVE ParamCount(i) \in Nat
<1>1. PICK n \in 0 .. MaxSegments : requestFiles[i].segments \in [1 .. n -> Literals \cup {Param}]
  BY DEF FilesKnown, RequestFiles, Segmented
<1>2. IsFiniteSet(1 .. n)
  <2>1. n \in Int /\ 1 \in Int
    BY <1>1, MockAssumption
  <2>. QED BY <2>1, FS_Interval
<1>3. {k \in DOMAIN requestFiles[i].segments : requestFiles[i].segments[k] = Param} \subseteq 1 .. n
  BY <1>1
<1>. QED BY <1>2, <1>3, FS_Subset, FS_CardinalityType DEF ParamCount

\* The order in which a table is searched.
LEMMA BeforeOrders ==
  ASSUME FilesKnown
  PROVE  /\ \A i, j \in FileIds : i = j \/ Before(i, j) \/ Before(j, i)
         /\ \A i \in FileIds : ~Before(i, i)
         /\ \A i, j, k \in FileIds : Before(i, j) /\ Before(j, k) => Before(i, k)
<1>1. \A i \in FileIds : i \in Nat /\ ParamCount(i) \in Nat
  BY CountsAreNumbers, MockAssumption DEF FileIds
<1>. QED BY <1>1 DEF Before

\* The requests of a set are ranked without gaps.
LEMMA Ranks ==
  ASSUME FilesKnown, NEW files, files \subseteq FileIds
  PROVE  /\ Cardinality(files) \in Nat
         /\ \A n \in 1 .. Cardinality(files) : \E i \in files : Rank(files, i) = n - 1
         /\ \A i \in files : Rank(files, i) \in 0 .. Cardinality(files) - 1
         /\ \A i, j \in files : Before(i, j) => Rank(files, i) < Rank(files, j)
<1> DEFINE Below(i) == {j \in files : Before(j, i)}
           size == Cardinality(files)
<1>1. IsFiniteSet(files) /\ size \in Nat
  <2>1. IsFiniteSet(FileIds)
    BY FS_Interval, MockAssumption DEF FileIds
  <2>. QED BY <2>1, FS_Subset, FS_CardinalityType
<1>2. ASSUME NEW i \in files PROVE IsFiniteSet(Below(i)) /\ Cardinality(Below(i)) \in 0 .. size - 1
  <2>1. Below(i) \subseteq files \ {i}
    BY BeforeOrders
  <2>2. IsFiniteSet(files \ {i}) /\ Cardinality(files \ {i}) = size - 1
    BY <1>1, FS_RemoveElement
  <2>3. IsFiniteSet(Below(i)) /\ Cardinality(Below(i)) <= size - 1
    BY <2>1, <2>2, FS_Subset
  <2>. QED BY <2>3, FS_CardinalityType
<1>3. ASSUME NEW i \in files, NEW j \in files, Before(i, j)
      PROVE  Cardinality(Below(i)) < Cardinality(Below(j))
  <2>1. Below(i) \cup {i} \subseteq Below(j) /\ i \notin Below(i)
    BY <1>3, BeforeOrders
  <2>2. Cardinality(Below(i) \cup {i}) = Cardinality(Below(i)) + 1
    BY <1>2, <2>1, FS_AddElement
  <2>3. Cardinality(Below(i) \cup {i}) <= Cardinality(Below(j))
    BY <1>2, <2>1, FS_Subset
  <2>4. Cardinality(Below(i)) \in Nat /\ Cardinality(Below(j)) \in Nat
    BY <1>2, FS_CardinalityType
  <2>. QED BY <2>2, <2>3, <2>4
<1> DEFINE rank == [i \in files |-> Cardinality(Below(i))]
<1>4. rank \in [files -> 0 .. size - 1]
  BY <1>2
<1>5. ASSUME NEW i \in files, NEW j \in files, rank[i] = rank[j] PROVE i = j
  <2>1. Cardinality(Below(i)) = Cardinality(Below(j)) /\ Cardinality(Below(i)) \in Nat
    BY <1>2, <1>5
  <2>2. ~Before(i, j) /\ ~Before(j, i)
    BY <1>3, <2>1
  <2>. QED BY <2>2, BeforeOrders
<1>6. \A n \in 0 .. size - 1 : \E i \in files : rank[i] = n
  <2>1. rank \in Injection(files, 0 .. size - 1)
    BY <1>4, <1>5 DEF Injection, IsInjective
  <2>2. IsFiniteSet(0 .. size - 1) /\ Cardinality(0 .. size - 1) = size
    BY <1>1, FS_Interval
  <2>3. rank \in Surjection(files, 0 .. size - 1)
    BY <2>1, <2>2, FS_Injection
  <2>. QED BY <2>3 DEF Surjection
<1>7. ASSUME NEW n \in 1 .. size PROVE \E i \in files : Cardinality(Below(i)) = n - 1
  <2>1. n - 1 \in 0 .. size - 1
    BY <1>1
  <2>2. PICK i \in files : rank[i] = n - 1
    BY <1>6, <2>1
  <2>. QED BY <2>2
<1>. QED BY <1>1, <1>2, <1>3, <1>7 DEF Rank

\* A table holds each of its requests, in the order of the search.
LEMMA TableOrdered ==
  ASSUME FilesKnown, NEW files, files \subseteq FileIds
  PROVE  LET table == MostSpecificFirst(files)
             size == Cardinality(files)
         IN  /\ size \in Nat
             /\ \A n \in 1 .. size : table[n] \in files
             /\ \A i \in files : \E n \in 1 .. size : table[n] = i
             /\ \A m, n \in 1 .. size : m < n => Before(table[m], table[n])
<1> DEFINE table == MostSpecificFirst(files)
           size == Cardinality(files)
<1>1. size \in Nat
  BY Ranks
<1>2. ASSUME NEW n \in 1 .. size PROVE table[n] \in files /\ Rank(files, table[n]) = n - 1
  <2>1. \E i \in files : Rank(files, i) = n - 1
    BY Ranks
  <2>2. table[n] = CHOOSE i \in files : Rank(files, i) = n - 1
    BY DEF MostSpecificFirst
  <2>. QED BY <2>1, <2>2
<1> HIDE DEF table
<1>3. ASSUME NEW i \in files, NEW j \in files, Rank(files, i) = Rank(files, j) PROVE i = j
  <2>1. Rank(files, i) \in 0 .. size - 1 /\ Rank(files, j) \in 0 .. size - 1
    BY Ranks
  <2>2. ~Before(i, j) /\ ~Before(j, i)
    BY Ranks, <1>3, <2>1, <1>1
  <2>. QED BY <2>2, BeforeOrders
<1>4. ASSUME NEW i \in files PROVE \E n \in 1 .. size : table[n] = i
  <2>1. PICK n \in Nat : n = Rank(files, i) + 1 /\ n \in 1 .. size
    BY Ranks, <1>1
  <2>2. Rank(files, table[n]) = Rank(files, i) /\ table[n] \in files
    BY <1>2, <2>1, Ranks
  <2>. QED BY <1>3, <2>1, <2>2
<1>5. ASSUME NEW m \in 1 .. size, NEW n \in 1 .. size, m < n PROVE Before(table[m], table[n])
  <2>1. /\ table[m] \in files /\ Rank(files, table[m]) = m - 1
        /\ table[n] \in files /\ Rank(files, table[n]) = n - 1
    BY <1>2
  <2>2. table[m] # table[n]
    BY <1>1, <1>5, <2>1
  <2>3. ~Before(table[n], table[m])
    <3>1. Before(table[n], table[m]) => n - 1 < m - 1
      BY <2>1, Ranks
    <3>. QED BY <1>1, <1>5, <3>1
  <2>. QED BY <2>1, <2>2, <2>3, BeforeOrders
<1>. QED BY <1>1, <1>2, <1>4, <1>5 DEF table

\* The search stops at the first route that matches.
LEMMA FirstMatch ==
  ASSUME NEW routes, Len(routes) \in Nat, NEW path
  PROVE  LET r == MatchRoute(routes, path)
         IN  \/ r = 0 /\ \A n \in 1 .. Len(routes) : ~Matches(routes[n], path)
             \/ /\ r \in 1 .. Len(routes) /\ Matches(routes[r], path)
                /\ \A n \in 1 .. Len(routes) : Matches(routes[n], path) => r <= n
<1> DEFINE hits == {n \in 1 .. Len(routes) : Matches(routes[n], path)}
<1>1. MatchRoute(routes, path) = IF hits # {} THEN Min(hits) ELSE 0
  BY DEF MatchRoute, SelectInSeq
<1>2. CASE hits = {}
  BY <1>1, <1>2
<1>3. CASE hits # {}
  <2>1. \E n \in hits : \A m \in hits : n <= m
    <3>1. hits \subseteq Nat
      OBVIOUS
    <3>. HIDE DEF hits
    <3>. QED BY <1>3, <3>1, LeastOf
  <2>2. Min(hits) \in hits /\ \A m \in hits : Min(hits) <= m
    BY <2>1 DEF Min
  <2>. QED BY <1>1, <1>3, <2>2
<1>. QED BY <1>2, <1>3

\* What a table finds for a path, or that it finds nothing.
Finds(routes, files, path) ==
  LET r == MatchRoute(routes, path)
  IN  \/ r = 0 /\ \A i \in files : ~Fits(i, path)
      \/ /\ r # 0 /\ routes[r].file \in files /\ Fits(routes[r].file, path)
         /\ \A j \in files : Fits(j, path) => routes[r].file = j \/ Before(routes[r].file, j)

\* What is found is of the request that goes before every other that fits.
LEMMA TableFinds ==
  ASSUME FilesKnown, NEW files, files \subseteq FileIds, NEW path
  PROVE  Finds(RouteTable(files), files, path)
<1> DEFINE routes == RouteTable(files)
           table == MostSpecificFirst(files)
           size == Cardinality(files)
<1>1. /\ size \in Nat
      /\ \A n \in 1 .. size : table[n] \in files
      /\ \A i \in files : \E n \in 1 .. size : table[n] = i
      /\ \A m, n \in 1 .. size : m < n => Before(table[m], table[n])
  BY TableOrdered
<1>2. routes = [n \in 1 .. size |-> Route(table[n])]
  BY DEF RouteTable
<1> SUFFICES Finds(routes, files, path)
  OBVIOUS
<1> HIDE DEF routes, table, size
<1>3. Len(routes) = size
  BY <1>1, <1>2
<1>4. ASSUME NEW n \in 1 .. size
      PROVE  routes[n].file = table[n] /\ (Matches(routes[n], path) <=> Fits(table[n], path))
  BY <1>2 DEF Route, Matches, Fits
<1>5. CASE /\ MatchRoute(routes, path) = 0
           /\ \A n \in 1 .. size : ~Matches(routes[n], path)
  BY <1>1, <1>4, <1>5 DEF Finds
<1>6. CASE /\ MatchRoute(routes, path) \in 1 .. size
           /\ Matches(routes[MatchRoute(routes, path)], path)
           /\ \A n \in 1 .. size : Matches(routes[n], path) => MatchRoute(routes, path) <= n
  <2>1. PICK r \in 1 .. size : r = MatchRoute(routes, path)
    BY <1>6
  <2>2. routes[r].file = table[r] /\ table[r] \in files /\ Fits(table[r], path) /\ r # 0
    BY <1>1, <1>4, <1>6, <2>1
  <2>3. ASSUME NEW j \in files, Fits(j, path) PROVE table[r] = j \/ Before(table[r], j)
    <3>1. PICK n \in 1 .. size : table[n] = j
      BY <1>1
    <3>2. r <= n
      BY <1>4, <1>6, <2>1, <2>3, <3>1
    <3>3. r = n \/ r < n
      BY <1>1, <3>2
    <3>. QED BY <1>1, <3>1, <3>3
  <2>. QED BY <2>1, <2>2, <2>3 DEF Finds
<1>. QED BY <1>1, <1>3, <1>5, <1>6, FirstMatch

ExampleFiles == {i \in FileIds : requestFiles[i].examples # "none"}
SpecFiles ==
  {i \in FileIds : /\ requestFiles[i].spec
                   /\ \A j \in 1 .. i - 1 :
                        requestFiles[j].spec => requestFiles[j].segments # requestFiles[i].segments}

\* A specification that is left out has one before it that fits the same paths.
LEMMA ShapesAreKept ==
  ASSUME FilesKnown, NEW i \in FileIds, requestFiles[i].spec
  PROVE  \E j \in SpecFiles : /\ j = i \/ Before(j, i)
                              /\ \A path : Fits(i, path) => Fits(j, path)
<1> DEFINE same == {j \in FileIds : requestFiles[j].spec /\ requestFiles[j].segments = requestFiles[i].segments}
<1>1. PICK j \in same : \A k \in same : j <= k
  <2>1. same \subseteq Nat /\ i \in same
    BY MockAssumption DEF FileIds
  <2>. HIDE DEF same
  <2>. QED BY <2>1, LeastOf
<1>2. j \in FileIds /\ j \in Nat /\ i \in Nat /\ j <= i
  BY <1>1, MockAssumption DEF FileIds
<1>3. j \in SpecFiles
  <2>1. ASSUME NEW k \in 1 .. j - 1, requestFiles[k].spec
        PROVE  requestFiles[k].segments # requestFiles[j].segments
    <3>1. k \in FileIds /\ ~(j <= k)
      BY <1>2, MockAssumption DEF FileIds
    <3>. QED BY <1>1, <2>1, <3>1
  <2>. QED BY <1>1, <1>2, <2>1 DEF SpecFiles
<1>4. ParamCount(j) = ParamCount(i) /\ \A path : Fits(i, path) => Fits(j, path)
  BY <1>1 DEF ParamCount, Fits
<1>. QED BY <1>2, <1>3, <1>4 DEF Before

\* Tables that were just built answer rightly.
LEMMA TablesAnswer ==
  ASSUME FilesKnown, NEW server, server.routes = BuildRoutes, server.specRoutes = BuildSpecRoutes, NEW path
  PROVE  AnswersRightly(Handle(server, path, "-"), path)
<1> DEFINE r == MatchRoute(server.routes, path)
           p == MatchRoute(server.specRoutes, path)
           got == Handle(server, path, "-")
<1>1. Finds(server.routes, ExampleFiles, path)
  BY TableFinds DEF BuildRoutes, ExampleFiles
<1>2. Finds(server.specRoutes, SpecFiles, path)
  BY TableFinds DEF BuildSpecRoutes, SpecFiles
<1>3. /\ r # 0 => got.source = "example" /\ got.file = server.routes[r].file
      /\ r = 0 /\ p # 0 => got.source = "spec" /\ got.file = server.specRoutes[p].file
      /\ r = 0 /\ p = 0 => got.source = "nothing"
  BY DEF Handle
<1> SUFFICES AnswersRightly(got, path)
  OBVIOUS
<1> HIDE DEF r, p, got
<1>4. \A i \in FileIds : ParamCount(i) \in Nat /\ i \in Nat
  BY CountsAreNumbers, MockAssumption DEF FileIds
<1>5. CASE r # 0
  <2>1. /\ got.file \in ExampleFiles /\ Fits(got.file, path)
        /\ \A j \in ExampleFiles : Fits(j, path) => got.file = j \/ Before(got.file, j)
    BY <1>1, <1>3, <1>5 DEF Finds, r
  <2>2. \A j : j \in Able("example", path) <=> j \in ExampleFiles /\ Fits(j, path)
    BY DEF Able, Has, ExampleFiles
  <2>3. got.file \in Best("example", path)
    <3>1. got.file \in FileIds /\ got.file \in Able("example", path)
      BY <2>1, <2>2 DEF ExampleFiles
    <3>2. ASSUME NEW j \in Able("example", path)
          PROVE  ParamCount(got.file) < ParamCount(j) \/ (ParamCount(got.file) = ParamCount(j) /\ got.file <= j)
      <4>1. j \in FileIds /\ (got.file = j \/ Before(got.file, j))
        BY <2>1, <2>2 DEF ExampleFiles
      <4>. QED BY <1>4, <3>1, <4>1 DEF Before
    <3>. QED BY <3>1, <3>2 DEF Best
  <2>. QED BY <1>3, <1>5, <2>1, <2>2, <2>3 DEF AnswersRightly
<1>6. CASE r = 0
  <2>1. Able("example", path) = {}
    BY <1>1, <1>6 DEF Able, Has, ExampleFiles, Finds, r
  <2>2. \A i \in Able("spec", path) :
          \E j \in SpecFiles : Fits(j, path) /\ (j = i \/ Before(j, i))
    BY ShapesAreKept DEF Able, Has
  <2>3. SpecFiles \subseteq FileIds /\ \A j \in SpecFiles : Fits(j, path) => j \in Able("spec", path)
    BY DEF SpecFiles, Able, Has
  <2>4. CASE p = 0
    <3>1. Able("spec", path) = {}
      BY <1>2, <2>2, <2>4 DEF Finds, p
    <3>. QED BY <1>3, <1>6, <2>1, <2>4, <3>1 DEF AnswersRightly
  <2>5. CASE p # 0
    <3>1. /\ got.file \in SpecFiles /\ Fits(got.file, path)
          /\ \A j \in SpecFiles : Fits(j, path) => got.file = j \/ Before(got.file, j)
      BY <1>2, <1>3, <1>6, <2>5 DEF Finds, p
    <3>2. ASSUME NEW i \in Able("spec", path) PROVE got.file = i \/ Before(got.file, i)
      <4>1. PICK j \in SpecFiles : Fits(j, path) /\ (j = i \/ Before(j, i))
        BY <2>2
      <4>2. got.file = j \/ Before(got.file, j)
        BY <3>1, <4>1
      <4>3. i \in FileIds /\ j \in FileIds /\ got.file \in FileIds
        BY <2>3, <3>1 DEF Able
      <4>. QED BY <4>1, <4>2, <4>3, BeforeOrders
    <3>3. got.file \in Best("spec", path)
      <4>1. got.file \in FileIds /\ got.file \in Able("spec", path)
        BY <2>3, <3>1
      <4>2. ASSUME NEW j \in Able("spec", path)
            PROVE  ParamCount(got.file) < ParamCount(j) \/ (ParamCount(got.file) = ParamCount(j) /\ got.file <= j)
        <5>1. j \in FileIds /\ (got.file = j \/ Before(got.file, j))
          BY <3>2 DEF Able
        <5>. QED BY <1>4, <4>1, <5>1 DEF Before
      <4>. QED BY <4>1, <4>2 DEF Best
    <3>4. Able("spec", path) # {}
      BY <2>3, <3>1
    <3>. QED BY <1>3, <1>6, <2>1, <2>5, <3>3, <3>4 DEF AnswersRightly
  <2>. QED BY <2>4, <2>5
<1>. QED BY <1>5, <1>6

MockTypes ==
  /\ FilesKnown
  /\ mockServer \in Servers \cup {NoServer} /\ mockStopping \subseteq Servers /\ overlapped \in BOOLEAN
  /\ mock = [s \in Servers |-> [f \in {"state", "routes", "specRoutes"} |-> mock[s][f]]]

\* Without an overlap one call has the registry: who listens is in it, and is
\* gone before another is made.
OneCall ==
  ~overlapped =>
    /\ Listening \cup mockStopping \subseteq {mockServer}
    /\ \A s, t \in Starting : s = t
    /\ Starting # {} => mockStopping = {}
    /\ \A s \in Servers : mock[s].state = "building" => Listening = {}

AnswersHold == \A s \in Listening : \A path : AnswersRightly(Handle(mock[s], path, "-"), path)

MockInv == MockTypes /\ OneCall /\ AnswersHold

\* An example that is made the active one changes nothing of who answers.
LEMMA AnswersKept ==
  ASSUME FilesKnown, FilesKnown', NEW got, NEW path,
         \A i \in FileIds : /\ requestFiles'[i].segments = requestFiles[i].segments
                            /\ requestFiles'[i].spec = requestFiles[i].spec
                            /\ (requestFiles'[i].examples = "none" <=> requestFiles[i].examples = "none")
  PROVE  AnswersRightly(got, path)' <=> AnswersRightly(got, path)
<1>1. \A i \in FileIds : /\ ParamCount(i)' = ParamCount(i) /\ (Fits(i, path)' <=> Fits(i, path))
                         /\ \A source : Has(i, source)' <=> Has(i, source)
  BY DEF ParamCount, Fits, Has
<1>2. \A source : Able(source, path)' = Able(source, path)
  BY <1>1 DEF Able
<1>3. \A source : Best(source, path)' = Best(source, path)
  BY <1>1, <1>2 DEF Best, Able
<1>. QED BY <1>2, <1>3 DEF AnswersRightly

\* An answer depends on the tables alone.
LEMMA HandleKept ==
  ASSUME NEW server, NEW other, NEW path, other.routes = server.routes, other.specRoutes = server.specRoutes
  PROVE  Handle(other, path, "-") = Handle(server, path, "-")
BY DEF Handle

\* Who listens is unchanged, or is somebody whose tables were just built.
LEMMA AnswersHoldNext ==
  ASSUME MockTypes, AnswersHold, FilesKnown',
         UNCHANGED requestFiles \/ ExampleSetActive,
         \A s \in Listening' :
           \/ /\ s \in Listening
              /\ mock'[s].routes = mock[s].routes /\ mock'[s].specRoutes = mock[s].specRoutes
           \/ mock'[s].routes = BuildRoutes /\ mock'[s].specRoutes = BuildSpecRoutes
  PROVE  AnswersHold'
<1>1. \A i \in FileIds : /\ requestFiles'[i].segments = requestFiles[i].segments
                         /\ requestFiles'[i].spec = requestFiles[i].spec
                         /\ (requestFiles'[i].examples = "none" <=> requestFiles[i].examples = "none")
  <2>1. CASE ExampleSetActive
    <3>1. PICK i \in FileIds : /\ requestFiles[i].examples = "none active"
                              /\ requestFiles' = [requestFiles EXCEPT ![i].examples = "second active"]
      BY <2>1 DEF ExampleSetActive
    <3>2. \A j \in FileIds : requestFiles[j] \in RequestFiles
      BY DEF MockTypes, FilesKnown
    <3>3. \A j \in FileIds : requestFiles'[j] = IF j = i THEN [requestFiles[i] EXCEPT !.examples = "second active"]
                                                       ELSE requestFiles[j]
      BY <3>1 DEF MockTypes, FilesKnown
    <3>4. ASSUME NEW j \in FileIds PROVE
             /\ requestFiles'[j].segments = requestFiles[j].segments /\ requestFiles'[j].spec = requestFiles[j].spec
             /\ (requestFiles'[j].examples = "none" <=> requestFiles[j].examples = "none")
      <4>1. CASE j = i
        <5>1. PICK file \in RequestFiles : file = requestFiles[i]
          BY <3>2
        <5>2. requestFiles'[j] = [file EXCEPT !.examples = "second active"] /\ file.examples # "none"
          BY <3>1, <3>3, <4>1, <5>1
        <5>3. /\ [file EXCEPT !.examples = "second active"].segments = file.segments
              /\ [file EXCEPT !.examples = "second active"].spec = file.spec
              /\ [file EXCEPT !.examples = "second active"].examples # "none"
          BY DEF RequestFiles
        <5>. QED BY <4>1, <5>1, <5>2, <5>3
      <4>2. CASE j # i
        BY <3>3, <4>2
      <4>. QED BY <4>1, <4>2
    <3>. QED BY <3>4
  <2>2. CASE UNCHANGED requestFiles
    BY <2>2
  <2>. QED BY <2>1, <2>2
<1>2. ASSUME NEW s \in Listening', NEW path PROVE AnswersRightly(Handle(mock[s], path, "-"), path)'
  <2>1. PICK server : server = mock'[s]
    OBVIOUS
  <2>2. PICK got : got = Handle(server, path, "-")
    OBVIOUS
  <2>3. AnswersRightly(got, path)
    <3>1. CASE /\ s \in Listening
               /\ mock'[s].routes = mock[s].routes /\ mock'[s].specRoutes = mock[s].specRoutes
      <4>1. got = Handle(mock[s], path, "-")
        BY <2>1, <2>2, <3>1, HandleKept
      <4>. QED BY <3>1, <4>1 DEF AnswersHold
    <3>2. CASE mock'[s].routes = BuildRoutes /\ mock'[s].specRoutes = BuildSpecRoutes
      BY <2>1, <2>2, <3>2, TablesAnswer DEF MockTypes
    <3>. QED BY <3>1, <3>2
  <2>4. AnswersRightly(got, path)'
    BY <1>1, <2>3, AnswersKept DEF MockTypes
  <2>5. Handle(mock[s], path, "-")' = got
    BY <2>1, <2>2
  <2>. QED BY <2>4, <2>5 DEF AnswersRightly
<1>. QED BY <1>2 DEF AnswersHold

\* Nothing was started yet.
LEMMA MockInitInv == MockInit => MockInv
<1> SUFFICES ASSUME MockInit PROVE MockInv
  OBVIOUS
<1>1. FilesKnown
  BY DEF MockInit, FilesKnown
<1>2. \A s \in Servers : mock[s].state = "unused"
  BY DEF MockInit
<1>3. MockTypes
  BY <1>1 DEF MockInit, MockTypes
<1>. QED BY <1>2, <1>3 DEF MockInv, OneCall, AnswersHold, MockInit, Starting, Listening

\* A call's state is set and nothing else of it.
SetTo(s, became) == mock' = [mock EXCEPT ![s].state = became]

\* The tables of a call stay.
LEMMA StateSet ==
  ASSUME MockTypes, NEW s \in Servers, NEW became, SetTo(s, became)
  PROVE  /\ mock' = [t \in Servers |-> [f \in {"state", "routes", "specRoutes"} |-> mock'[t][f]]]
         /\ mock'[s].state = became
         /\ \A t \in Servers : /\ mock'[t].routes = mock[t].routes /\ mock'[t].specRoutes = mock[t].specRoutes
                               /\ t # s => mock'[t] = mock[t]
BY DEF MockTypes, SetTo

\* A call that was not listening is set to a state other than that.
LEMMA CallMoves ==
  ASSUME MockInv, NEW s \in Servers \ Listening, NEW became, became # "listening", SetTo(s, became),
         UNCHANGED <<requestFiles, mockServer, mockStopping>>, overlapped' \in BOOLEAN
  PROVE  /\ MockTypes' /\ AnswersHold' /\ Listening' = Listening
         /\ Starting' = IF became \in {"building", "reporting"} THEN Starting \cup {s} ELSE Starting \ {s}
<1>1. /\ mock' = [t \in Servers |-> [f \in {"state", "routes", "specRoutes"} |-> mock'[t][f]]]
      /\ mock'[s].state = became
      /\ \A t \in Servers : /\ mock'[t].routes = mock[t].routes /\ mock'[t].specRoutes = mock[t].specRoutes
                            /\ t # s => mock'[t] = mock[t]
  BY StateSet DEF MockInv
<1>2. FilesKnown'
  BY DEF MockInv, MockTypes, FilesKnown
<1>3. MockTypes'
  BY <1>1, <1>2 DEF MockInv, MockTypes
<1>4. Listening' = Listening
  BY <1>1 DEF Listening
<1>5. Starting' = IF became \in {"building", "reporting"} THEN Starting \cup {s} ELSE Starting \ {s}
  BY <1>1 DEF Starting
<1>6. AnswersHold'
  <2>1. \A t \in Listening' : /\ t \in Listening
                              /\ mock'[t].routes = mock[t].routes /\ mock'[t].specRoutes = mock[t].specRoutes
    BY <1>1, <1>4 DEF Listening
  <2>. QED BY <1>2, <2>1, AnswersHoldNext DEF MockInv
<1>. QED BY <1>3, <1>4, <1>5, <1>6

\* A start is asked for.
LEMMA MockStartInv == ASSUME MockInv, NEW s \in Servers, MockStart(s) PROVE MockInv'
<1> DEFINE became == IF mockServer # NoServer /\ mockServer \in Listening THEN "reporting" ELSE "building"
<1>1. /\ mock[s].state = "unused" /\ SetTo(s, became) /\ UNCHANGED <<requestFiles, mockServer, mockStopping>>
      /\ overlapped' = (overlapped \/ Busy)
  BY DEF MockStart, SetTo
<1>2. became \in {"building", "reporting"} /\ (became = "building" => mockServer \notin Listening)
  BY MockAssumption DEF Listening
<1> HIDE DEF became
<1>3. overlapped' \in BOOLEAN /\ s \notin Listening
  BY <1>1 DEF Listening, MockInv, MockTypes
<1>4. MockTypes' /\ AnswersHold' /\ Listening' = Listening /\ Starting' = Starting \cup {s}
  BY <1>1, <1>2, <1>3, CallMoves
<1>5. OneCall'
  <2> SUFFICES ASSUME ~overlapped'
               PROVE  /\ (Listening \cup mockStopping \subseteq {mockServer})'
                      /\ \A t, u \in Starting' : t = u
                      /\ Starting' # {} => mockStopping' = {}
                      /\ \A t \in Servers : mock'[t].state = "building" => Listening' = {}
    BY DEF OneCall
  <2>1. ~overlapped /\ Starting = {} /\ mockStopping = {}
    BY <1>1 DEF Busy
  <2>2. Listening \subseteq {mockServer}
    BY <2>1 DEF MockInv, OneCall
  <2>3. ASSUME NEW t \in Servers, mock'[t].state = "building" PROVE Listening = {}
    <3>1. CASE t = s
      <4>1. became = "building"
        BY <1>1, <2>3, <3>1, StateSet DEF MockInv
      <4>. QED BY <1>2, <2>2, <4>1
    <3>2. CASE t # s
      <4>1. mock[t].state = "building"
        BY <1>1, <2>3, <3>2, StateSet DEF MockInv
      <4>. QED BY <2>1, <4>1 DEF Starting
    <3>. QED BY <3>1, <3>2
  <2>. QED BY <1>1, <1>4, <2>1, <2>2, <2>3
<1>. QED BY <1>4, <1>5 DEF MockInv

\* A start fails, or has reported the server that listens.
LEMMA MockStartEndsInv ==
  ASSUME MockInv, NEW s \in Servers, MockStartFails(s) \/ MockReports(s) PROVE MockInv'
<1>1. /\ s \notin Listening /\ SetTo(s, "over")
      /\ UNCHANGED <<requestFiles, mockServer, mockStopping, overlapped>>
  BY DEF MockStartFails, MockReports, SetTo, Listening
<1>2. MockTypes' /\ AnswersHold' /\ Listening' = Listening /\ Starting' = Starting \ {s}
  BY <1>1, CallMoves DEF MockInv, MockTypes
<1>3. \A t \in Servers : mock'[t].state = "building" => mock[t].state = "building"
  BY <1>1, StateSet DEF MockInv
<1>4. OneCall'
  BY <1>1, <1>2, <1>3 DEF OneCall, MockInv
<1>. QED BY <1>2, <1>4 DEF MockInv

\* A server listens: alone, with the tables of the collection as it is.
LEMMA MockListensInv == ASSUME MockInv, NEW s \in Servers, MockListens(s) PROVE MockInv'
<1>1. /\ mock[s].state = "building" /\ mockServer' = s
      /\ UNCHANGED <<requestFiles, mockStopping, overlapped>>
      /\ mock' = [mock EXCEPT ![s] =
                    [state |-> "listening", routes |-> BuildRoutes, specRoutes |-> BuildSpecRoutes]]
  BY DEF MockListens
<1>2. /\ mock'[s].state = "listening" /\ mock'[s].routes = BuildRoutes /\ mock'[s].specRoutes = BuildSpecRoutes
      /\ \A t \in Servers : t # s => mock'[t] = mock[t]
      /\ mock' = [t \in Servers |-> [f \in {"state", "routes", "specRoutes"} |-> mock'[t][f]]]
  <2>1. mock = [t \in Servers |-> [f \in {"state", "routes", "specRoutes"} |-> mock[t][f]]]
    BY DEF MockInv, MockTypes
  <2>. QED BY <1>1, <2>1
<1>3. FilesKnown' /\ MockTypes'
  BY <1>1, <1>2 DEF MockInv, MockTypes, FilesKnown
<1>4. Listening' = Listening \cup {s} /\ Starting' = Starting \ {s} /\ s \in Starting
  BY <1>1, <1>2 DEF Listening, Starting
<1>5. AnswersHold'
  <2>1. \A t \in Listening' :
          \/ /\ t \in Listening
             /\ mock'[t].routes = mock[t].routes /\ mock'[t].specRoutes = mock[t].specRoutes
          \/ mock'[t].routes = BuildRoutes /\ mock'[t].specRoutes = BuildSpecRoutes
    BY <1>2, <1>4 DEF Listening
  <2>. QED BY <1>1, <1>3, <2>1, AnswersHoldNext DEF MockInv
<1>6. OneCall'
  <2>1. ~overlapped => Listening = {} /\ mockStopping = {} /\ Starting = {s}
    BY <1>1, <1>4 DEF MockInv, OneCall
  <2>2. ~overlapped => \A t \in Servers : mock'[t].state # "building"
    BY <1>2, <2>1 DEF Starting
  <2>. QED BY <1>1, <1>4, <2>1, <2>2 DEF OneCall
<1>. QED BY <1>3, <1>5, <1>6 DEF MockInv

\* A stop, up to its await and after it.
LEMMA MockStopInv == ASSUME MockInv, MockStop PROVE MockInv'
<1>1. /\ mockServer # NoServer /\ mockStopping' = {mockServer} /\ overlapped' = (overlapped \/ Busy)
      /\ UNCHANGED <<requestFiles, mockServer, mock>>
  BY DEF MockStop
<1>2. FilesKnown' /\ MockTypes' /\ Listening' = Listening /\ Starting' = Starting
  BY <1>1 DEF MockInv, MockTypes, FilesKnown, Listening, Starting
<1>3. AnswersHold'
  BY <1>1, <1>2, AnswersHoldNext DEF MockInv
<1>4. OneCall'
  BY <1>1, <1>2 DEF MockInv, OneCall, Busy
<1>. QED BY <1>2, <1>3, <1>4 DEF MockInv

\* A stop returns: who listened was its server.
LEMMA MockStoppedInv == ASSUME MockInv, MockStopped PROVE MockInv'
<1>1. /\ mockStopping # {} /\ mockServer' = NoServer /\ mockStopping' = {}
      /\ UNCHANGED <<requestFiles, overlapped>>
      /\ mock' = [s \in Servers |-> IF s \in mockStopping THEN [mock[s] EXCEPT !.state = "over"] ELSE mock[s]]
  BY DEF MockStopped
<1>2. /\ mock' = [t \in Servers |-> [f \in {"state", "routes", "specRoutes"} |-> mock'[t][f]]]
      /\ \A t \in Servers : /\ mock'[t].routes = mock[t].routes /\ mock'[t].specRoutes = mock[t].specRoutes
                            /\ mock'[t].state = IF t \in mockStopping THEN "over" ELSE mock[t].state
  <2>1. mock = [t \in Servers |-> [f \in {"state", "routes", "specRoutes"} |-> mock[t][f]]]
    BY DEF MockInv, MockTypes
  <2>. QED BY <1>1, <2>1
<1>3. FilesKnown' /\ MockTypes'
  BY <1>1, <1>2 DEF MockInv, MockTypes, FilesKnown
<1>4. Listening' = Listening \ mockStopping /\ Starting' = Starting \ mockStopping
  BY <1>2 DEF Listening, Starting
<1>5. AnswersHold'
  <2>1. \A t \in Listening' : /\ t \in Listening
                              /\ mock'[t].routes = mock[t].routes /\ mock'[t].specRoutes = mock[t].specRoutes
    BY <1>2, <1>4 DEF Listening
  <2>. QED BY <1>1, <1>3, <2>1, AnswersHoldNext DEF MockInv
<1>6. OneCall'
  <2>1. ~overlapped => Listening' = {} /\ Starting' = {}
    BY <1>1, <1>4 DEF MockInv, OneCall
  <2>2. ~overlapped => \A t \in Servers : mock'[t].state = "building" => Listening' = {}
    BY <2>1
  <2>. QED BY <1>1, <2>1, <2>2 DEF OneCall
<1>. QED BY <1>3, <1>5, <1>6 DEF MockInv

\* An example is made the active one.
LEMMA ExampleSetActiveInv == ASSUME MockInv, ExampleSetActive PROVE MockInv'
<1>1. UNCHANGED <<mockServer, mock, mockStopping, overlapped>>
  BY DEF ExampleSetActive
<1>2. FilesKnown'
  <2>1. PICK i \in FileIds : requestFiles' = [requestFiles EXCEPT ![i].examples = "second active"]
    BY DEF ExampleSetActive
  <2>2. requestFiles[i] \in RequestFiles
    BY DEF MockInv, MockTypes, FilesKnown
  <2>3. [requestFiles[i] EXCEPT !.examples = "second active"] \in RequestFiles
    BY <2>2 DEF RequestFiles, Examples
  <2>. QED BY <2>1, <2>3 DEF MockInv, MockTypes, FilesKnown
<1>3. MockTypes' /\ Listening' = Listening /\ Starting' = Starting
  BY <1>1, <1>2 DEF MockInv, MockTypes, Listening, Starting
<1>4. AnswersHold'
  BY <1>1, <1>2, <1>3, AnswersHoldNext DEF MockInv
<1>5. OneCall'
  BY <1>1, <1>3 DEF MockInv, OneCall
<1>. QED BY <1>3, <1>4, <1>5 DEF MockInv

\* Whatever the collection holds, and however many servers were started: an answer is of the
\* request that fits best, and what listens can be stopped while calls do not overlap
\* (core/mock/router.ts, main/ipc-handlers.ts).
THEOREM AnswersRight == MockSpec => []MockAnswersRightly
<1>1. MockInv /\ [MockNext]_mockVars => MockInv'
  <2> SUFFICES ASSUME MockInv, [MockNext]_mockVars PROVE MockInv'
    OBVIOUS
  <2>1. CASE UNCHANGED mockVars
    <3>1. UNCHANGED <<requestFiles, mockServer, mock, mockStopping, overlapped>>
      BY <2>1 DEF mockVars
    <3>2. FilesKnown' /\ MockTypes' /\ Listening' = Listening /\ Starting' = Starting
      BY <3>1 DEF MockInv, MockTypes, FilesKnown, Listening, Starting
    <3>3. AnswersHold'
      BY <3>1, <3>2, AnswersHoldNext DEF MockInv
    <3>. QED BY <3>1, <3>2, <3>3 DEF MockInv, OneCall
  <2>. QED BY <2>1, MockStartInv, MockListensInv, MockStartEndsInv, MockStopInv, MockStoppedInv,
              ExampleSetActiveInv DEF MockNext
<1>2. MockInv => MockAnswersRightly
  BY DEF MockInv, OneCall, AnswersHold, MockAnswersRightly
<1>. QED BY <1>1, <1>2, MockInitInv, PTL DEF MockSpec

-----------------------------------------------------------------------------
(***************************************************************************)
(* GrpcFrames: however a stream is cut into chunks, the capture holds what *)
(* its frames say.                                                         *)
(***************************************************************************)
Streamed == Seq(Bytes)
FramePlaces == [at : Nat, payload : Nat]

\* A length is a number, be the header there or not.
LEMMA LengthsAreNumbers ==
  ASSUME NEW s \in Streamed, NEW begin \in Nat
  PROVE  LengthAt(s, begin) \in Nat
<1>1. CASE begin + HeaderLength <= Len(s)
  <2>1. begin + HeaderLength \in 1 .. Len(s)
    BY <1>1, FramesAssumption, LenProperties DEF Streamed
  <2>2. s[begin + HeaderLength] \in Bytes
    BY <2>1, ElementOfSeq DEF Streamed
  <2>. QED BY <1>1, <2>2, FramesAssumption DEF LengthAt, Bytes
<1>2. CASE ~(begin + HeaderLength <= Len(s))
  BY <1>2 DEF LengthAt
<1>. QED BY <1>1, <1>2

NextPlace(s, p) ==
  [at |-> p.at + HeaderLength + LengthAt(s, p.at), payload |-> p.payload + LengthAt(s, p.at)]

\* The frames of a stream follow one another.
LEMMA FramesFollow ==
  ASSUME NEW s \in Streamed
  PROVE  /\ Frames(s) \in [Nat -> FramePlaces]
         /\ Frames(s)[0] = [at |-> 0, payload |-> 0]
         /\ \A k \in Nat : Frames(s)[k + 1] = NextPlace(s, Frames(s)[k])
<1> DEFINE start == [at |-> 0, payload |-> 0]
           g == [p \in FramePlaces |-> NextPlace(s, p)]
<1>1. start \in FramePlaces /\ g \in [FramePlaces -> FramePlaces]
  <2>1. ASSUME NEW p \in FramePlaces PROVE NextPlace(s, p) \in FramePlaces
    <3>1. p.at \in Nat /\ p.payload \in Nat
      BY DEF FramePlaces
    <3>2. LengthAt(s, p.at) \in Nat
      BY <3>1, LengthsAreNumbers
    <3>. QED BY <3>1, <3>2, FramesAssumption DEF FramePlaces, NextPlace
  <2>. QED BY <2>1 DEF FramePlaces
<1>2. PICK f \in [Nat -> FramePlaces] : f = [n \in Nat |-> IF n = 0 THEN start ELSE g[f[n - 1]]]
  <2> HIDE DEF start, g
  <2>. QED BY <1>1, Recursion
<1>3. f = [n \in Nat |-> IF n = 0 THEN start ELSE NextPlace(s, f[n - 1])]
  <2>1. ASSUME NEW n \in Nat, n # 0 PROVE g[f[n - 1]] = NextPlace(s, f[n - 1])
    <3>1. n - 1 \in Nat
      BY <2>1
    <3>2. f[n - 1] \in FramePlaces
      BY <3>1
    <3>. QED BY <3>2
  <2>. QED BY <1>2, <2>1
<1> DEFINE frame == Frames(s)
<1>4. frame = [n \in Nat |-> IF n = 0 THEN start ELSE NextPlace(s, frame[n - 1])]
  BY <1>3 DEF Frames, NextPlace
<1> HIDE DEF start, g, frame
<1>5. frame[0] = start /\ \A k \in Nat : frame[k + 1] = NextPlace(s, frame[k])
  <2>1. frame[0] = start
    BY <1>4
  <2>2. ASSUME NEW k \in Nat PROVE frame[k + 1] = NextPlace(s, frame[k])
    <3>1. k + 1 \in Nat /\ k + 1 # 0 /\ (k + 1) - 1 = k
      OBVIOUS
    <3>2. frame[k + 1] = NextPlace(s, frame[(k + 1) - 1])
      BY <1>4, <3>1
    <3>. QED BY <3>1, <3>2
  <2>. QED BY <2>1, <2>2
<1>6. \A n \in Nat : frame[n] \in FramePlaces
  <2> DEFINE P == {n \in Nat : frame[n] \in FramePlaces}
  <2>1. 0 \in P
    BY <1>1, <1>5
  <2>2. ASSUME NEW n \in P PROVE n + 1 \in P
    <3>1. n \in Nat /\ n + 1 \in Nat /\ frame[n] \in FramePlaces
      OBVIOUS
    <3>2. g[frame[n]] \in FramePlaces /\ g[frame[n]] = NextPlace(s, frame[n])
      BY <1>1, <3>1 DEF g
    <3>. QED BY <1>5, <3>1, <3>2
  <2> HIDE DEF P
  <2>3. P = Nat
    <3>1. P \subseteq Nat
      BY DEF P
    <3>. QED BY <2>1, <2>2, <3>1, Induction
  <2>. QED BY <2>3 DEF P
<1>7. frame \in [Nat -> FramePlaces]
  BY <1>4, <1>6
<1>. QED BY <1>5, <1>7 DEF start, frame

\* What is known of a frame's place.
LEMMA FramePlace ==
  ASSUME NEW s \in Streamed, NEW k \in Nat
  PROVE  /\ Frames(s)[k].at \in Nat /\ Frames(s)[k].payload \in Nat
         /\ LengthAt(s, Frames(s)[k].at) \in Nat
         /\ Frames(s)[k + 1].at = Frames(s)[k].at + HeaderLength + LengthAt(s, Frames(s)[k].at)
         /\ Frames(s)[k + 1].payload = Frames(s)[k].payload + LengthAt(s, Frames(s)[k].at)
<1>1. Frames(s)[k] \in FramePlaces /\ Frames(s)[k + 1] = NextPlace(s, Frames(s)[k])
  BY FramesFollow
<1>2. Frames(s)[k].at \in Nat /\ Frames(s)[k].payload \in Nat
  BY <1>1 DEF FramePlaces
<1>3. LengthAt(s, Frames(s)[k].at) \in Nat
  BY <1>2, LengthsAreNumbers
<1>. QED BY <1>1, <1>2, <1>3 DEF NextPlace

\* A frame starts after those before it.
LEMMA FramesAscend ==
  ASSUME NEW s \in Streamed, NEW j \in Nat, NEW k \in Nat, j <= k
  PROVE  Frames(s)[j].at <= Frames(s)[k].at
<1> DEFINE F == Frames(s)
           P == {n \in Nat : F[j].at <= F[j + n].at}
<1>1. 0 \in P
  BY FramePlace
<1>2. ASSUME NEW n \in P PROVE n + 1 \in P
  <2>1. n \in Nat /\ j + n \in Nat /\ j + (n + 1) = (j + n) + 1 /\ F[j].at <= F[j + n].at
    OBVIOUS
  <2>2. F[j].at \in Nat /\ F[j + n].at \in Nat /\ LengthAt(s, F[j + n].at) \in Nat
        /\ F[(j + n) + 1].at = F[j + n].at + HeaderLength + LengthAt(s, F[j + n].at)
    BY <2>1, FramePlace
  <2> HIDE DEF F
  <2>3. F[j].at <= F[(j + n) + 1].at
    BY <2>1, <2>2, FramesAssumption
  <2>. QED BY <2>1, <2>3
<1>3. k - j \in Nat /\ j + (k - j) = k
  OBVIOUS
<1>4. P = Nat
  <2>1. P \subseteq Nat
    OBVIOUS
  <2> HIDE DEF P
  <2>. QED BY <1>1, <1>2, <2>1, Induction
<1>. QED BY <1>3, <1>4

\* More of a stream changes nothing of the frames whose headers were there.
LEMMA FramesStay ==
  ASSUME NEW s \in Streamed, NEW chunk \in Streamed, NEW m \in Nat,
         m > 0 => Frames(s)[m - 1].at + HeaderLength <= Len(s)
  PROVE  /\ \A k \in 0 .. m : Frames(s \o chunk)[k] = Frames(s)[k]
         /\ \A k \in 0 .. m - 1 : LengthAt(s \o chunk, Frames(s)[k].at) = LengthAt(s, Frames(s)[k].at)
<1> DEFINE t == s \o chunk
           F == Frames(s)
           G == Frames(t)
           P == {n \in Nat : n <= m => G[n] = F[n]}
<1>1. t \in Streamed /\ Len(s) \in Nat /\ Len(chunk) \in Nat /\ Len(t) = Len(s) + Len(chunk)
      /\ \A i \in 1 .. Len(s) : t[i] = s[i]
  <2>1. Len(s) \in Nat /\ Len(chunk) \in Nat
    BY LenProperties DEF Streamed
  <2>. QED BY <2>1, ConcatProperties DEF Streamed
<1>2. ASSUME NEW k \in Nat, k < m PROVE LengthAt(t, F[k].at) = LengthAt(s, F[k].at)
  <2>1. m - 1 \in Nat /\ k <= m - 1
    BY <1>2
  <2>2. F[k].at <= F[m - 1].at /\ F[k].at \in Nat /\ F[m - 1].at \in Nat
    BY <2>1, FramesAscend, FramePlace
  <2> HIDE DEF t, F
  <2>4. F[m - 1].at + HeaderLength <= Len(s)
    BY <1>2 DEF F
  <2>5. HeaderLength \in Nat /\ HeaderLength >= 1
    BY FramesAssumption
  <2>3. F[k].at + HeaderLength \in 1 .. Len(s) /\ F[k].at + HeaderLength <= Len(t)
    BY <1>1, <2>2, <2>4, <2>5
  <2>. QED BY <1>1, <2>3 DEF LengthAt
<1>3. 0 \in P
  BY <1>1, FramesFollow
<1>4. ASSUME NEW n \in P PROVE n + 1 \in P
  <2>1. SUFFICES ASSUME n + 1 <= m PROVE G[n + 1] = F[n + 1]
    OBVIOUS
  <2>2. n \in Nat /\ n < m /\ G[n] = F[n]
    BY <2>1
  <2>3. G[n + 1] = NextPlace(t, G[n]) /\ F[n + 1] = NextPlace(s, F[n])
    BY <1>1, <2>2, FramesFollow
  <2>4. LengthAt(t, F[n].at) = LengthAt(s, F[n].at)
    BY <1>2, <2>2
  <2> HIDE DEF G, F, t
  <2>. QED BY <2>2, <2>3, <2>4 DEF NextPlace
<1>5. P = Nat
  <2>1. P \subseteq Nat
    OBVIOUS
  <2> HIDE DEF P
  <2>. QED BY <1>3, <1>4, <2>1, Induction
<1>6. \A k \in 0 .. m : k \in Nat
  OBVIOUS
<1>. QED BY <1>2, <1>5, <1>6
-----------------------------------------------------------------------------
Entries == [bytes : Nat, compressed : BOOLEAN, truncated : BOOLEAN, whole : BOOLEAN, kept : Streamed]
CaptureType == [messages : Nat, captured : Seq(Entries), header : Streamed, payloadLeft : Nat,
                budget : Nat, current : Nat]

\* What the capture holds when the first p bytes of t have been walked.
Located(c, t, p) ==
  /\ c.messages > 0 => Frames(t)[c.messages - 1].at + HeaderLength <= p
  /\ c.payloadLeft > 0 =>
       /\ c.messages > 0 /\ c.header = <<>>
       /\ Frames(t)[c.messages].at = p + c.payloadLeft
  /\ c.payloadLeft = 0 =>
       /\ Frames(t)[c.messages].at <= p /\ p < Frames(t)[c.messages].at + HeaderLength
       /\ c.header = SubSeq(t, Frames(t)[c.messages].at + 1, p)

FrameKept(c, t, p) ==
  /\ Len(c.captured) = Least(c.messages, GRPC_MESSAGE_CAP)
  /\ \A k \in 1 .. Len(c.captured) : c.captured[k] = Shown(t, p, Frames(t)[k - 1])
  /\ c.current = IF c.payloadLeft > 0 /\ c.messages <= GRPC_MESSAGE_CAP THEN c.messages ELSE NoEntry
  /\ c.messages <= GRPC_MESSAGE_CAP =>
       c.budget = PROXY_BODY_CAP - Least(Frames(t)[c.messages].payload - c.payloadLeft, PROXY_BODY_CAP)

ParsedTo(c, t, p) == c \in CaptureType /\ Located(c, t, p) /\ FrameKept(c, t, p)

\* Whatever is shown of a frame is an entry.
LEMMA ShownIsEntry ==
  ASSUME NEW t \in Streamed, NEW p \in 0 .. Len(t), NEW frame \in FramePlaces,
         frame.at + HeaderLength <= p
  PROVE  Shown(t, p, frame) \in Entries
<1> DEFINE a == frame.at + HeaderLength
           length == LengthAt(t, frame.at)
           have == Least(length, p - a)
           held == Least(have, PROXY_BODY_CAP - Least(frame.payload, PROXY_BODY_CAP))
           slice == SubSeq(t, a + 1, a + held)
<1>1. frame.at \in Nat /\ frame.payload \in Nat /\ length \in Nat /\ Len(t) \in Nat
  BY LengthsAreNumbers, LenProperties DEF FramePlaces, Streamed
<1>2. a \in Nat /\ have \in Nat /\ held \in Nat /\ a + held <= Len(t)
  <2>1. a \in Nat
    BY <1>1, FramesAssumption
  <2>2. PICK room \in Nat : room = PROXY_BODY_CAP - Least(frame.payload, PROXY_BODY_CAP)
    BY <1>1, FramesAssumption DEF Least
  <2>3. p \in Nat /\ a <= p /\ p <= Len(t)
    BY <1>1
  <2>4. have \in Nat /\ have <= p - a
    <3> HIDE DEF a, length
    <3>. QED BY <1>1, <2>1, <2>3 DEF Least
  <2>5. held \in Nat /\ held <= have
    <3> HIDE DEF have
    <3>. QED BY <2>2, <2>4 DEF Least
  <2> HIDE DEF a, have, held
  <2>. QED BY <1>1, <2>1, <2>3, <2>4, <2>5
<1>3. slice \in Streamed
  <2> HIDE DEF a, held
  <2>1. \A i \in a + 1 .. a + held : t[i] \in Bytes
    BY <1>2, ElementOfSeq DEF Streamed
  <2>. QED BY <1>2, <2>1, SubSeqProperties DEF Streamed
<1>4. Shown(t, p, frame) = [bytes |-> length, compressed |-> t[frame.at + 1] = 1, whole |-> have = length,
                            kept |-> slice, truncated |-> held < have]
  BY DEF Shown
<1> HIDE DEF length, have, held, slice
<1>. QED BY <1>1, <1>3, <1>4 DEF Entries

\* A frame that has passed whole is shown alike from then on.
LEMMA PassedIsPassed ==
  ASSUME NEW t \in Streamed, NEW p \in Nat, NEW q \in Nat, NEW k \in Nat,
         Frames(t)[k + 1].at <= p, Frames(t)[k + 1].at <= q
  PROVE  Shown(t, p, Frames(t)[k]) = Shown(t, q, Frames(t)[k])
<1> DEFINE f == Frames(t)[k]
           length == LengthAt(t, f.at)
<1>1. f.at \in Nat /\ length \in Nat /\ Frames(t)[k + 1].at = f.at + HeaderLength + length
  BY FramePlace
<1>2. Least(length, p - (f.at + HeaderLength)) = length
  <2> HIDE DEF f, length
  <2>. QED BY <1>1, FramesAssumption DEF Least
<1>3. Least(length, q - (f.at + HeaderLength)) = length
  <2> HIDE DEF f, length
  <2>. QED BY <1>1, FramesAssumption DEF Least
<1>. QED BY <1>2, <1>3 DEF Shown

\* More of a stream changes nothing of what was parsed of it.
LEMMA ParsedStays ==
  ASSUME NEW s \in Streamed, NEW chunk \in Streamed, NEW c, ParsedTo(c, s, Len(s))
  PROVE  ParsedTo(c, s \o chunk, Len(s))
<1> DEFINE t == s \o chunk
           p == Len(s)
           m == c.messages
           F == Frames(s)
<1>1. t \in Streamed /\ p \in Nat /\ Len(t) \in Nat /\ p <= Len(t) /\ \A i \in 1 .. p : t[i] = s[i]
  <2>1. Len(s) \in Nat /\ Len(chunk) \in Nat
    BY LenProperties DEF Streamed
  <2>. QED BY <2>1, ConcatProperties DEF Streamed
<1>2. c \in CaptureType /\ Located(c, s, p) /\ FrameKept(c, s, p)
  BY DEF ParsedTo
<1>3. m \in Nat /\ c.payloadLeft \in Nat /\ c.captured \in Seq(Entries)
  BY <1>2 DEF CaptureType
<1>4. /\ \A k \in 0 .. m : Frames(t)[k] = F[k]
      /\ \A k \in 0 .. m - 1 : LengthAt(t, F[k].at) = LengthAt(s, F[k].at)
  <2>1. m > 0 => F[m - 1].at + HeaderLength <= Len(s)
    BY <1>2 DEF Located
  <2>. QED BY <1>3, <2>1, FramesStay
<1> HIDE DEF t
<1>5. \A a \in Nat, n \in Nat : n <= p => SubSeq(t, a + 1, n) = SubSeq(s, a + 1, n)
  <2>1. SUFFICES ASSUME NEW a \in Nat, NEW n \in Nat, n <= p
                 PROVE  SubSeq(t, a + 1, n) = SubSeq(s, a + 1, n)
    OBVIOUS
  <2>2. \A i \in a + 1 .. n : i \in 1 .. p /\ t[i] = s[i] /\ t[i] \in Bytes /\ s[i] \in Bytes
    <3>1. \A i \in 1 .. p : s[i] \in Bytes
      BY ElementOfSeq DEF Streamed
    <3>. QED BY <1>1, <2>1, <3>1
  <2>3. /\ SubSeq(t, a + 1, n) \in Seq(Bytes) /\ Len(SubSeq(t, a + 1, n)) = IF a + 1 <= n THEN n - (a + 1) + 1 ELSE 0
        /\ \A i \in 1 .. n - (a + 1) + 1 : SubSeq(t, a + 1, n)[i] = t[(a + 1) + i - 1]
    BY <2>2, SubSeqProperties
  <2>4. /\ SubSeq(s, a + 1, n) \in Seq(Bytes) /\ Len(SubSeq(s, a + 1, n)) = IF a + 1 <= n THEN n - (a + 1) + 1 ELSE 0
        /\ \A i \in 1 .. n - (a + 1) + 1 : SubSeq(s, a + 1, n)[i] = s[(a + 1) + i - 1]
    BY <2>2, SubSeqProperties
  <2>5. ASSUME NEW i \in 1 .. Len(SubSeq(t, a + 1, n)) PROVE SubSeq(t, a + 1, n)[i] = SubSeq(s, a + 1, n)[i]
    <3>1. i \in 1 .. n - (a + 1) + 1 /\ (a + 1) + i - 1 \in a + 1 .. n
      BY <2>3
    <3>. QED BY <2>2, <2>3, <2>4, <3>1
  <2>. QED BY <2>3, <2>4, <2>5, SeqEqual
<1>6. Located(c, t, p)
  <2>1. m \in 0 .. m /\ (m > 0 => m - 1 \in 0 .. m)
    BY <1>3
  <2>2. F[m].at \in Nat
    BY <1>3, FramePlace
  <2>3. SubSeq(t, F[m].at + 1, p) = SubSeq(s, F[m].at + 1, p)
    <3>1. p <= p
      BY <1>1
    <3> HIDE DEF p, F
    <3>. QED BY <1>1, <1>5, <2>2, <3>1
  <2> HIDE DEF p, F
  <2>4. Frames(t)[m] = F[m] /\ (m > 0 => Frames(t)[m - 1] = F[m - 1])
    BY <1>4, <2>1
  <2>. QED BY <1>2, <2>1, <2>3, <2>4 DEF Located, F
<1>7. ASSUME NEW k \in 1 .. Len(c.captured) PROVE Shown(t, p, Frames(t)[k - 1]) = Shown(s, p, F[k - 1])
  <2>1. Len(c.captured) \in Nat /\ Len(c.captured) <= m
    <3>1. Len(c.captured) = Least(m, GRPC_MESSAGE_CAP)
      BY <1>2 DEF FrameKept
    <3>. QED BY <1>3, <3>1, FramesAssumption DEF Least
  <2>2. k - 1 \in Nat /\ k - 1 <= m - 1 /\ m > 0 /\ m - 1 \in Nat /\ k - 1 \in 0 .. m - 1 /\ k - 1 \in 0 .. m
    BY <1>3, <2>1
  <2> DEFINE f == F[k - 1]
             a == f.at + HeaderLength
             length == LengthAt(s, f.at)
             have == Least(length, p - a)
             held == Least(have, PROXY_BODY_CAP - Least(f.payload, PROXY_BODY_CAP))
  <2>3. Frames(t)[k - 1] = f /\ LengthAt(t, f.at) = length
    BY <1>4, <2>2
  <2>4. f.at \in Nat /\ f.payload \in Nat /\ length \in Nat /\ F[m - 1].at \in Nat /\ f.at <= F[m - 1].at
    BY <2>2, FramePlace, FramesAscend
  <2>5. F[m - 1].at + HeaderLength <= p
    BY <1>2, <2>2 DEF Located
  <2>6. a \in Nat /\ a <= p
    <3> HIDE DEF f, p, F
    <3>. QED BY <1>1, <2>4, <2>5, FramesAssumption
  <2>7. have \in Nat /\ held \in Nat /\ a + held \in Nat /\ a + held <= p
    <3>1. have \in Nat /\ have <= p - a
      <4> HIDE DEF f, p, a, length
      <4>. QED BY <1>1, <2>4, <2>6 DEF Least
    <3>2. PICK room \in Nat : room = PROXY_BODY_CAP - Least(f.payload, PROXY_BODY_CAP)
      <4> HIDE DEF f
      <4>. QED BY <2>4, FramesAssumption DEF Least
    <3>3. held \in Nat /\ held <= have
      <4> HIDE DEF f, p, a, length, have
      <4>. QED BY <3>1, <3>2 DEF Least
    <3> HIDE DEF f, p, a, length, have, held
    <3>. QED BY <1>1, <2>6, <3>1, <3>3
  <2>8. SubSeq(t, a + 1, a + held) = SubSeq(s, a + 1, a + held)
    <3> HIDE DEF a, held
    <3>. QED BY <1>5, <2>6, <2>7
  <2>9. t[f.at + 1] = s[f.at + 1]
    <3> HIDE DEF f, p
    <3>1. f.at + 1 \in 1 .. p
      BY <1>1, <2>4, <2>6, FramesAssumption
    <3>. QED BY <1>1, <3>1
  <2>10. Shown(s, p, f) = [bytes |-> length, compressed |-> s[f.at + 1] = 1, whole |-> have = length,
                           kept |-> SubSeq(s, a + 1, a + held), truncated |-> held < have]
    BY DEF Shown
  <2>11. Shown(t, p, f) = [bytes |-> length, compressed |-> t[f.at + 1] = 1, whole |-> have = length,
                           kept |-> SubSeq(t, a + 1, a + held), truncated |-> held < have]
    BY <2>3 DEF Shown
  <2>12. Shown(t, p, f) = Shown(s, p, f)
    <3> HIDE DEF f, a, length, have, held
    <3>. QED BY <2>8, <2>9, <2>10, <2>11
  <2>. QED BY <2>3, <2>12
<1>8. FrameKept(c, t, p)
  <2>1. m \in 0 .. m
    BY <1>3
  <2>2. Frames(t)[m] = Frames(s)[m]
    BY <1>4, <2>1
  <2>. QED BY <1>2, <1>7, <2>2 DEF FrameKept
<1>. QED BY <1>2, <1>6, <1>8 DEF ParsedTo, t
-----------------------------------------------------------------------------
\* A piece of a stream, and what comes after it.
LEMMA InPieces ==
  ASSUME NEW t \in Streamed, NEW a \in Nat, NEW b \in Nat, NEW n \in Nat,
         a <= b, b <= n, n <= Len(t)
  PROVE  /\ SubSeq(t, a + 1, b) \in Streamed /\ Len(SubSeq(t, a + 1, b)) = b - a
         /\ SubSeq(t, a + 1, b) \o SubSeq(t, b + 1, n) = SubSeq(t, a + 1, n)
         /\ \A i \in 1 .. b - a : SubSeq(t, a + 1, b)[i] = t[a + i]
         /\ \A k \in 0 .. n - b : SubSeq(SubSeq(t, b + 1, n), 1, k) = SubSeq(t, b + 1, b + k)
<1>1. Len(t) \in Nat /\ \A i \in 1 .. Len(t) : t[i] \in Bytes
  BY LenProperties, ElementOfSeq DEF Streamed
<1>2. /\ SubSeq(t, a + 1, b) \in Streamed /\ Len(SubSeq(t, a + 1, b)) = b - a
      /\ \A i \in 1 .. b - a : SubSeq(t, a + 1, b)[i] = t[a + i]
  <2>1. \A i \in a + 1 .. b : t[i] \in Bytes
    BY <1>1
  <2>2. /\ SubSeq(t, a + 1, b) \in Seq(Bytes)
        /\ Len(SubSeq(t, a + 1, b)) = IF a + 1 <= b THEN b - (a + 1) + 1 ELSE 0
        /\ \A i \in 1 .. b - (a + 1) + 1 : SubSeq(t, a + 1, b)[i] = t[(a + 1) + i - 1]
    BY <2>1, SubSeqProperties
  <2>3. ASSUME NEW i \in 1 .. b - a PROVE SubSeq(t, a + 1, b)[i] = t[a + i]
    <3>1. i \in 1 .. b - (a + 1) + 1 /\ (a + 1) + i - 1 = a + i
      OBVIOUS
    <3>. QED BY <2>2, <3>1
  <2>. QED BY <2>2, <2>3 DEF Streamed
<1>3. SubSeq(t, a + 1, b) \o SubSeq(t, b + 1, n) = SubSeq(t, a + 1, n)
  <2>1. a + 1 \in 1 .. Len(t) + 1 /\ b \in (a + 1) - 1 .. Len(t) /\ n \in b .. Len(t)
    BY <1>1
  <2>. QED BY <2>1, ConcatAdjacentSubSeq DEF Streamed
<1>4. ASSUME NEW k \in 0 .. n - b PROVE SubSeq(SubSeq(t, b + 1, n), 1, k) = SubSeq(t, b + 1, b + k)
  <2>1. CASE k = 0
    <3>1. SubSeq(SubSeq(t, b + 1, n), 1, k) = <<>>
      BY <2>1, SubSeqEmpty
    <3>2. SubSeq(t, b + 1, b + k) = <<>>
      BY <2>1, SubSeqEmpty
    <3>. QED BY <3>1, <3>2
  <2>2. CASE k > 0
    <3>1. /\ b + 1 \in 1 .. Len(t) /\ n \in 1 .. Len(t)
          /\ 1 \in 1 .. n - (b + 1) + 1 /\ k \in 1 .. n - (b + 1) + 1
      BY <1>1, <2>2
    <3>2. SubSeq(SubSeq(t, b + 1, n), 1, k) = SubSeq(t, (b + 1) + 1 - 1, (b + 1) + k - 1)
      BY <3>1, SubSeqOfSubSeq DEF Streamed
    <3>3. (b + 1) + 1 - 1 = b + 1 /\ (b + 1) + k - 1 = b + k
      OBVIOUS
    <3>. QED BY <3>2, <3>3
  <2>. QED BY <2>1, <2>2
<1>. QED BY <1>2, <1>3, <1>4

\* Adjacent pieces make one.
LEMMA PiecesJoin ==
  ASSUME NEW t \in Streamed, NEW a \in Nat, NEW b \in Nat, NEW n \in Nat,
         a <= b, b <= n, n <= Len(t)
  PROVE  SubSeq(t, a + 1, b) \o SubSeq(t, b + 1, n) = SubSeq(t, a + 1, n)
BY InPieces

\* What is shown, field by field.
LEMMA ShownFields ==
  ASSUME NEW t, NEW p, NEW f
  PROVE  LET length == LengthAt(t, f.at)
             a == f.at + HeaderLength
             have == Least(length, p - a)
             held == Least(have, PROXY_BODY_CAP - Least(f.payload, PROXY_BODY_CAP))
         IN /\ Shown(t, p, f).bytes = length
            /\ Shown(t, p, f).kept = SubSeq(t, a + 1, a + held)
            /\ (Shown(t, p, f).compressed <=> t[f.at + 1] = 1)
            /\ (Shown(t, p, f).whole <=> have = length)
            /\ (Shown(t, p, f).truncated <=> held < have)
BY DEF Shown

Grows(t, p, q, f, left, take, budget) ==
  LET keep == Least(take, budget)
      slice == SubSeq(t, p + 1, q)
      old == Shown(t, p, f)
      new == Shown(t, q, f)
  IN /\ budget \in Nat /\ keep \in Nat
     /\ Len(slice) = take
     /\ ~old.whole
     /\ new.bytes = old.bytes /\ (new.compressed <=> old.compressed)
     /\ (new.whole <=> left = take)
     /\ (new.truncated <=> old.truncated \/ keep < Len(slice))
     /\ new.kept = old.kept \o SubSeq(slice, 1, keep)
     /\ budget - keep = PROXY_BODY_CAP - Least(f.payload + LengthAt(t, f.at) - (left - take), PROXY_BODY_CAP)

\* More of a frame's payload passes: what is kept of it, and what the budget comes to.
LEMMA ShownGrows ==
  ASSUME NEW t \in Streamed, NEW p \in Nat, NEW take \in Nat \ {0}, NEW q \in Nat, q = p + take, q <= Len(t),
         NEW f \in FramePlaces, NEW left \in Nat, take <= left,
         f.at + HeaderLength <= p, f.at + HeaderLength + LengthAt(t, f.at) = p + left,
         NEW budget,
         budget = PROXY_BODY_CAP - Least(f.payload + LengthAt(t, f.at) - left, PROXY_BODY_CAP)
  PROVE  Grows(t, p, q, f, left, take, budget)
<1>0. \A d, b, n \in Nat : d <= b /\ b <= n /\ n <= Len(t) =>
        SubSeq(t, d + 1, b) \o SubSeq(t, b + 1, n) = SubSeq(t, d + 1, n)
  BY PiecesJoin
<1> DEFINE keep == Least(take, budget)
           slice == SubSeq(t, p + 1, q)
           a == f.at + HeaderLength
           length == LengthAt(t, f.at)
           room == PROXY_BODY_CAP - Least(f.payload, PROXY_BODY_CAP)
           have == Least(length, p - a)
           held == Least(have, room)
           have2 == Least(length, q - a)
           held2 == Least(have2, room)
<1>1. f.at \in Nat /\ f.payload \in Nat /\ length \in Nat /\ Len(t) \in Nat
  BY LengthsAreNumbers, LenProperties DEF FramePlaces, Streamed
<1>2. a \in Nat /\ a <= p /\ a + length = p + left
  BY <1>1, FramesAssumption
<1>5. /\ budget \in Nat /\ keep \in Nat /\ keep <= take
      /\ have = p - a /\ have # length /\ (have2 = length <=> left = take)
      /\ held \in Nat /\ held <= have /\ held2 = held + keep
      /\ (keep > 0 => held = have)
      /\ (held2 < have2 <=> held < have \/ keep < take)
      /\ budget - keep = PROXY_BODY_CAP - Least(f.payload + length - (left - take), PROXY_BODY_CAP)
  <2>1. f.payload + length - left = f.payload + (p - a)
    <3>1. length - left = p - a
      <4> HIDE DEF a, length
      <4>. QED BY <1>1, <1>2
    <3> HIDE DEF a, length
    <3>. QED BY <1>1, <1>2, <3>1
  <2>2. f.payload + length - (left - take) = f.payload + (p - a) + take
    <3>1. length - (left - take) = (p - a) + take
      <4> HIDE DEF a, length
      <4>. QED BY <1>1, <1>2
    <3>2. PICK y \in Int : y = length - (left - take)
      <4> HIDE DEF length
      <4>. QED BY <1>1
    <3>3. PICK z \in Int : z = (p - a) + take
      <4> HIDE DEF a
      <4>. QED BY <1>2
    <3>4. f.payload + length - (left - take) = f.payload + y
      <4> HIDE DEF length
      <4>. QED BY <1>1, <3>2
    <3>5. f.payload + (p - a) + take = f.payload + z
      <4> HIDE DEF a
      <4>. QED BY <1>1, <1>2, <3>3
    <3>. QED BY <3>1, <3>2, <3>3, <3>4, <3>5
  <2>3. PICK pay \in Nat : pay = f.payload
    BY <1>1
  <2>4. have = p - a /\ have2 = (p - a) + take /\ have # length /\ (have2 = length <=> left = take)
    <3> HIDE DEF a, length
    <3>. QED BY <1>1, <1>2 DEF Least
  <2>5. PICK x \in Nat : x = p - a
    BY <1>2
  <2>6. budget = PROXY_BODY_CAP - Least(pay + x, PROXY_BODY_CAP) /\ room = PROXY_BODY_CAP - Least(pay, PROXY_BODY_CAP)
    BY <2>1, <2>3, <2>5
  <2>7. have = x /\ have2 = x + take
    BY <2>4, <2>5
  <2>8. held = Least(x, room) /\ held2 = Least(x + take, room)
    BY <2>7
  <2>9. f.payload + length - (left - take) = pay + x + take
    BY <2>2, <2>3, <2>5
  <2> HIDE DEF have, have2, held, held2, room, a, length
  <2>10. /\ budget \in Nat /\ keep \in Nat /\ keep <= take
         /\ held \in Nat /\ held <= x /\ held2 = held + keep
         /\ (keep > 0 => held = x)
         /\ (held2 < x + take <=> held < x \/ keep < take)
         /\ budget - keep = PROXY_BODY_CAP - Least(pay + x + take, PROXY_BODY_CAP)
    BY <2>6, <2>8, FramesAssumption DEF Least
  <2>. QED BY <2>4, <2>7, <2>9, <2>10
<1>6. slice \in Streamed /\ Len(slice) = take
  <2>1. p <= q /\ q - p = take /\ q <= q
    OBVIOUS
  <2>. QED BY <2>1, InPieces
<1>7. SubSeq(t, a + 1, a + held2) = SubSeq(t, a + 1, a + held) \o SubSeq(slice, 1, keep)
  <2>1. a + held \in Nat /\ a + held2 \in Nat /\ a <= a + held /\ a + held2 <= Len(t) /\ a + held2 = (a + held) + keep
    <3> HIDE DEF a, held, held2, have, have2, keep, length
    <3>. QED BY <1>1, <1>2, <1>5
  <2>2. SubSeq(t, a + 1, a + held) \o SubSeq(t, (a + held) + 1, a + held2) = SubSeq(t, a + 1, a + held2)
    <3> HIDE DEF a, held, held2, keep
    <3>1. a + held <= a + held2
      BY <1>5, <2>1
    <3>2. PICK b \in Nat, n \in Nat : b = a + held /\ n = a + held2 /\ b <= n /\ a <= b /\ n <= Len(t)
      BY <2>1, <3>1
    <3>3. PICK d \in Nat : d = a
      BY <1>2
    <3>4. d <= b
      BY <3>2, <3>3
    <3>5. SubSeq(t, d + 1, b) \o SubSeq(t, b + 1, n) = SubSeq(t, d + 1, n)
      BY <1>0, <3>2, <3>4
    <3>. QED BY <3>2, <3>3, <3>5
  <2>3. SubSeq(t, (a + held) + 1, a + held2) = SubSeq(slice, 1, keep)
    <3>1. SubSeq(slice, 1, keep) = SubSeq(t, p + 1, p + keep)
      <4>1. p <= q /\ p <= p /\ keep \in 0 .. q - p
        <5> HIDE DEF keep
        <5>. QED BY <1>5
      <4> HIDE DEF keep
      <4>. QED BY <4>1, InPieces
    <3>2. CASE keep = 0
      <4>1. SubSeq(t, p + 1, p + keep) = <<>>
        <5> HIDE DEF keep
        <5>. QED BY <3>2, SubSeqEmpty
      <4>2. SubSeq(t, (a + held) + 1, a + held2) = <<>>
        <5>1. a + held2 < (a + held) + 1 /\ a + held2 \in Int /\ (a + held) + 1 \in Int
          <6> HIDE DEF a, held, held2, keep
          <6>. QED BY <2>1, <3>2
        <5> HIDE DEF a, held, held2
        <5>. QED BY <5>1, SubSeqEmpty
      <4>. QED BY <3>1, <4>1, <4>2
    <3>3. CASE keep > 0
      <4>1. a + held = p
        <5> HIDE DEF a, held, keep, have
        <5>. QED BY <1>2, <1>5, <3>3
      <4> HIDE DEF a, held, held2, keep, slice
      <4>. QED BY <2>1, <3>1, <4>1
    <3>4. keep = 0 \/ keep > 0
      <4> HIDE DEF keep
      <4>. QED BY <1>5
    <3>. QED BY <3>2, <3>3, <3>4
  <2>. QED BY <2>2, <2>3
<1> HIDE DEF keep, slice, a, length, have, have2, held, held2, room
<1>8. /\ ~Shown(t, p, f).whole
      /\ Shown(t, q, f).bytes = Shown(t, p, f).bytes
      /\ (Shown(t, q, f).compressed <=> Shown(t, p, f).compressed)
      /\ (Shown(t, q, f).whole <=> left = take)
      /\ (Shown(t, q, f).truncated <=> Shown(t, p, f).truncated \/ keep < Len(slice))
      /\ Shown(t, q, f).kept = Shown(t, p, f).kept \o SubSeq(slice, 1, keep)
  <2>1. /\ Shown(t, p, f).bytes = length /\ Shown(t, p, f).kept = SubSeq(t, a + 1, a + held)
        /\ (Shown(t, p, f).compressed <=> t[f.at + 1] = 1) /\ (Shown(t, p, f).whole <=> have = length)
        /\ (Shown(t, p, f).truncated <=> held < have)
    BY ShownFields DEF length, a, have, held, room
  <2>2. /\ Shown(t, q, f).bytes = length /\ Shown(t, q, f).kept = SubSeq(t, a + 1, a + held2)
        /\ (Shown(t, q, f).compressed <=> t[f.at + 1] = 1) /\ (Shown(t, q, f).whole <=> have2 = length)
        /\ (Shown(t, q, f).truncated <=> held2 < have2)
    BY ShownFields DEF length, a, have2, held2, room
  <2>6. held2 < have2 <=> held < have \/ keep < Len(slice)
    BY <1>5, <1>6
  <2>. QED BY <1>5, <1>7, <2>1, <2>2, <2>6
<1>. QED BY <1>5, <1>6, <1>8 DEF keep, slice, length, Grows
-----------------------------------------------------------------------------
\* What a turn over payload makes of the capture.
AfterPayload(c, slice) ==
  LET n == [Retain(c, slice) EXCEPT !.payloadLeft = @ - Len(slice)]
  IN IF n.payloadLeft = 0 THEN FinishMessage(n) ELSE n

\* A message that is not kept: only the rest of its payload is counted down.
LEMMA PayloadSkipped ==
  ASSUME NEW c \in CaptureType, c.current = NoEntry, NEW slice
  PROVE  AfterPayload(c, slice) = [c EXCEPT !.payloadLeft = @ - Len(slice)]
<1> DEFINE n == [c EXCEPT !.payloadLeft = @ - Len(slice)]
<1>1. Retain(c, slice) = c
  BY DEF Retain
<1>2. n.current = NoEntry
  BY DEF CaptureType
<1>3. FinishMessage(n) = n
  <2> HIDE DEF n
  <2>. QED BY <1>2 DEF FinishMessage
<1>4. AfterPayload(c, slice) = IF n.payloadLeft = 0 THEN FinishMessage(n) ELSE n
  BY <1>1 DEF AfterPayload
<1> HIDE DEF n
<1>5. AfterPayload(c, slice) = n
  BY <1>3, <1>4
<1>. QED BY <1>5 DEF n

Extended(n, c, m, slice, left) ==
  LET e == c.captured[m]
      keep == Least(Len(slice), c.budget)
  IN /\ n \in CaptureType
     /\ n.messages = c.messages /\ n.header = c.header /\ n.payloadLeft = left
     /\ n.budget = c.budget - keep
     /\ n.current = IF left = 0 THEN NoEntry ELSE m
     /\ Len(n.captured) = Len(c.captured)
     /\ \A k \in 1 .. Len(c.captured) : k # m => n.captured[k] = c.captured[k]
     /\ n.captured[m].bytes = e.bytes
     /\ (n.captured[m].compressed <=> e.compressed)
     /\ n.captured[m].kept = e.kept \o SubSeq(slice, 1, keep)
     /\ (n.captured[m].truncated <=> e.truncated \/ keep < Len(slice))
     /\ (n.captured[m].whole <=> e.whole \/ left = 0)

\* A message that is kept: its entry grows, and is whole in the end.
LEMMA PayloadKept ==
  ASSUME NEW c \in CaptureType, NEW m \in 1 .. Len(c.captured), c.current = m,
         NEW slice \in Streamed, NEW left \in Nat, left = c.payloadLeft - Len(slice)
  PROVE  Extended(AfterPayload(c, slice), c, m, slice, left)
<1> DEFINE e == c.captured[m]
           keep == Least(Len(slice), c.budget)
           more == e.kept \o SubSeq(slice, 1, keep)
           cut == e.truncated \/ keep < Len(slice)
           grown == [e EXCEPT !.kept = more, !.truncated = cut]
           closed == [grown EXCEPT !.whole = TRUE]
           r == [c EXCEPT !.captured[m] = grown, !.budget = @ - keep]
           n == [r EXCEPT !.payloadLeft = left]
           done == [n EXCEPT !.captured[m].whole = TRUE, !.current = NoEntry]
<1>1. /\ c.messages \in Nat /\ c.captured \in Seq(Entries) /\ c.header \in Streamed
      /\ c.payloadLeft \in Nat /\ c.budget \in Nat /\ c.current \in Nat
  BY DEF CaptureType
<1>2. Len(slice) \in Nat /\ Len(c.captured) \in Nat /\ m \in Nat /\ m # NoEntry
  <2>1. Len(slice) \in Nat /\ Len(c.captured) \in Nat
    BY <1>1, LenProperties DEF Streamed
  <2>. QED BY <2>1 DEF NoEntry
<1>3. keep \in Nat /\ keep <= Len(slice) /\ keep <= c.budget /\ c.budget - keep \in Nat
  BY <1>1, <1>2 DEF Least
<1>4. e \in Entries
  BY <1>1, ElementOfSeq
<1>5. more \in Streamed /\ cut \in BOOLEAN
  <2>1. SubSeq(slice, 1, keep) \in Seq(Bytes)
    <3> HIDE DEF keep
    <3>1. \A i \in 1 .. keep : slice[i] \in Bytes
      BY <1>2, <1>3, ElementOfSeq DEF Streamed
    <3>. QED BY <1>3, <3>1, SubSeqProperties
  <2>2. e.kept \in Seq(Bytes) /\ e.truncated \in BOOLEAN
    BY <1>4 DEF Entries, Streamed
  <2>3. more \in Seq(Bytes)
    <3> HIDE DEF e, keep
    <3>. QED BY <2>1, <2>2, ConcatProperties
  <2>. QED BY <2>3 DEF Streamed
<1>6. /\ grown \in Entries /\ grown.bytes = e.bytes /\ (grown.compressed <=> e.compressed) /\ grown.kept = more
      /\ (grown.truncated <=> cut) /\ (grown.whole <=> e.whole)
  <2> HIDE DEF e, more, cut
  <2>. QED BY <1>4, <1>5 DEF Entries
<1>7. /\ closed \in Entries /\ closed.bytes = e.bytes /\ (closed.compressed <=> e.compressed) /\ closed.kept = more
      /\ (closed.truncated <=> cut) /\ closed.whole
  <2> HIDE DEF e, more, cut, grown
  <2>1. closed \in Entries /\ closed.bytes = grown.bytes /\ (closed.compressed <=> grown.compressed)
        /\ closed.kept = grown.kept /\ (closed.truncated <=> grown.truncated) /\ closed.whole
    BY <1>6 DEF Entries
  <2>. QED BY <1>6, <2>1
<1>8. r = Retain(c, slice)
  <2> HIDE DEF keep
  <2>. QED BY <1>2 DEF Retain, keep
<1> HIDE DEF e, keep, more, cut, grown
<1>9. /\ n \in CaptureType /\ n.messages = c.messages /\ n.header = c.header /\ n.payloadLeft = left
      /\ n.budget = c.budget - keep /\ n.current = m /\ n.captured = [c.captured EXCEPT ![m] = grown]
  <2>1. [c.captured EXCEPT ![m] = grown] \in Seq(Entries)
    BY <1>1, <1>6, ExceptSeq
  <2>. QED BY <1>1, <1>3, <2>1 DEF CaptureType
<1>10. /\ Len(n.captured) = Len(c.captured) /\ n.captured[m] = grown
       /\ \A k \in 1 .. Len(c.captured) : k # m => n.captured[k] = c.captured[k]
  <2> HIDE DEF n
  <2>. QED BY <1>1, <1>6, <1>9, ExceptSeq
<1>11. n = [Retain(c, slice) EXCEPT !.payloadLeft = @ - Len(slice)]
  BY <1>8 DEF CaptureType
<1>12. AfterPayload(c, slice) = IF left = 0 THEN FinishMessage(n) ELSE n
  <2>1. AfterPayload(c, slice) = IF n.payloadLeft = 0 THEN FinishMessage(n) ELSE n
    BY <1>11 DEF AfterPayload
  <2> HIDE DEF n
  <2>. QED BY <1>9, <2>1
<1> HIDE DEF n
<1>13. FinishMessage(n) = done
  BY <1>2, <1>9 DEF FinishMessage
<1>14. /\ done \in CaptureType /\ done.messages = c.messages /\ done.header = c.header /\ done.payloadLeft = left
       /\ done.budget = c.budget - keep /\ done.current = NoEntry
       /\ done.captured = [n.captured EXCEPT ![m] = closed]
  <2>1. n.captured \in Seq(Entries) /\ m \in 1 .. Len(n.captured)
    BY <1>9, <1>10 DEF CaptureType
  <2>2. [n.captured EXCEPT ![m] = closed] \in Seq(Entries)
    <3> HIDE DEF closed
    <3>. QED BY <1>7, <2>1, ExceptSeq
  <2>3. done = [n EXCEPT !.captured = [@ EXCEPT ![m] = closed], !.current = NoEntry]
    BY <1>10 DEF closed
  <2> HIDE DEF closed, done
  <2>. QED BY <1>9, <2>2, <2>3 DEF CaptureType, NoEntry
<1>15. /\ Len(done.captured) = Len(c.captured) /\ done.captured[m] = closed
       /\ \A k \in 1 .. Len(c.captured) : k # m => done.captured[k] = c.captured[k]
  <2>1. n.captured \in Seq(Entries) /\ m \in 1 .. Len(n.captured)
    BY <1>9, <1>10 DEF CaptureType
  <2> HIDE DEF done, closed
  <2>. QED BY <1>7, <1>10, <1>14, <2>1, ExceptSeq
<1> HIDE DEF done, closed
<1>16. CASE left = 0
  <2>1. AfterPayload(c, slice) = done
    BY <1>12, <1>13, <1>16
  <2>. QED BY <1>7, <1>14, <1>15, <1>16, <2>1 DEF e, keep, more, cut, Extended
<1>17. CASE left # 0
  <2>1. AfterPayload(c, slice) = n
    BY <1>12, <1>17
  <2>. QED BY <1>6, <1>9, <1>10, <1>17, <2>1 DEF e, keep, more, cut, Extended
<1>. QED BY <1>16, <1>17
\* A turn that takes of the payload.
LEMMA PayloadTurn ==
  ASSUME NEW t \in Streamed, NEW p \in Nat, NEW take \in Nat \ {0}, NEW q \in Nat, q = p + take, q <= Len(t),
         NEW c, ParsedTo(c, t, p), take <= c.payloadLeft
  PROVE  ParsedTo(AfterPayload(c, SubSeq(t, p + 1, q)), t, q)
<1>1. \A k \in Nat : Frames(t)[k + 1].at <= p /\ Frames(t)[k + 1].at <= q
                      => Shown(t, p, Frames(t)[k]) = Shown(t, q, Frames(t)[k])
  BY PassedIsPassed
<1> DEFINE slice == SubSeq(t, p + 1, q)
           m == c.messages
           F == Frames(t)
           n == AfterPayload(c, slice)
<1>2. c \in CaptureType /\ Located(c, t, p) /\ FrameKept(c, t, p)
  BY DEF ParsedTo
<1>3. /\ m \in Nat /\ c.captured \in Seq(Entries) /\ c.header \in Streamed
      /\ c.payloadLeft \in Nat /\ c.budget \in Nat /\ c.current \in Nat /\ c.payloadLeft > 0
  BY <1>2 DEF CaptureType
<1>4. slice \in Streamed /\ Len(slice) = take
  <2>1. p <= q /\ q - p = take /\ q <= q
    OBVIOUS
  <2>. QED BY <2>1, InPieces
<1>5. PICK left \in Nat : left = c.payloadLeft - take
  BY <1>3
<1>6. m > 0 /\ m - 1 \in Nat /\ c.header = <<>> /\ F[m].at = p + c.payloadLeft /\ F[m - 1].at + HeaderLength <= p
  BY <1>2, <1>3 DEF Located
<1>7. PICK j \in Nat : j = m - 1 /\ j + 1 = m
  BY <1>3, <1>6
<1>8. /\ F[j] \in FramePlaces /\ F[j].at \in Nat /\ F[j].payload \in Nat /\ LengthAt(t, F[j].at) \in Nat
      /\ F[m].at = F[j].at + HeaderLength + LengthAt(t, F[j].at)
      /\ F[m].payload = F[j].payload + LengthAt(t, F[j].at)
  <2>1. F[j] \in FramePlaces
    BY FramesFollow
  <2>2. /\ F[j].at \in Nat /\ F[j].payload \in Nat /\ LengthAt(t, F[j].at) \in Nat
        /\ F[j + 1].at = F[j].at + HeaderLength + LengthAt(t, F[j].at)
        /\ F[j + 1].payload = F[j].payload + LengthAt(t, F[j].at)
    BY FramePlace
  <2> HIDE DEF F
  <2>. QED BY <1>7, <2>1, <2>2
<1>9. PICK start \in Nat : start = F[j].at
  <2> HIDE DEF F
  <2>. QED BY <1>8
<1>10. start + HeaderLength <= p
  <2> HIDE DEF F
  <2>. QED BY <1>6, <1>7, <1>9
<1>11. start <= p /\ start <= q /\ start + HeaderLength <= q
  BY <1>10, FramesAssumption
<1>12. F[m - 1].at + HeaderLength <= q
  <2> HIDE DEF F
  <2>. QED BY <1>7, <1>9, <1>11
<1>13. Len(c.captured) = Least(m, GRPC_MESSAGE_CAP) /\ Len(c.captured) \in Nat
  BY <1>2, <1>3, LenProperties DEF FrameKept
<1>14. ASSUME NEW k \in 1 .. Len(c.captured), k # m PROVE c.captured[k] = Shown(t, q, F[k - 1])
  <2>1. k - 1 \in Nat /\ (k - 1) + 1 = k /\ k \in Nat /\ k <= j
    <3>1. k \in Nat /\ k - 1 \in Nat /\ (k - 1) + 1 = k /\ k <= Len(c.captured)
      BY <1>13
    <3>2. Len(c.captured) <= m
      <4> HIDE DEF m
      <4>. QED BY <1>3, <1>13, FramesAssumption DEF Least
    <3> HIDE DEF m
    <3>. QED BY <1>3, <1>7, <1>13, <1>14, <3>1, <3>2
  <2>2. F[k].at <= F[j].at /\ F[k].at \in Nat
    BY <2>1, FramesAscend, FramePlace
  <2>3. F[k].at <= p /\ F[k].at <= q
    <3>1. F[k].at <= start
      <4> HIDE DEF F
      <4>. QED BY <1>9, <2>2
    <3> HIDE DEF F
    <3>. QED BY <1>11, <2>2, <3>1
  <2>4. PICK i \in Nat : i = k - 1 /\ i + 1 = k
    BY <2>1
  <2>5. F[i + 1].at <= p /\ F[i + 1].at <= q
    BY <2>3, <2>4
  <2>6. Shown(t, p, F[i]) = Shown(t, q, F[i])
    BY <1>1, <2>5
  <2>7. c.captured[k] = Shown(t, p, F[k - 1])
    BY <1>2 DEF FrameKept
  <2>. QED BY <2>4, <2>6, <2>7
<1>15. CASE m > GRPC_MESSAGE_CAP
  <2>1. c.current = NoEntry
    <3>1. ~(m <= GRPC_MESSAGE_CAP)
      BY <1>3, <1>15, FramesAssumption
    <3>. QED BY <1>2, <3>1 DEF FrameKept
  <2>2. n = [c EXCEPT !.payloadLeft = left]
    <3>1. n = [c EXCEPT !.payloadLeft = c.payloadLeft - Len(slice)]
      <4> HIDE DEF slice
      <4>. QED BY <1>2, <2>1, PayloadSkipped
    <3> HIDE DEF n, slice
    <3>. QED BY <1>4, <1>5, <3>1
  <2> HIDE DEF n
  <2>3. /\ n \in CaptureType /\ n.messages = m /\ n.captured = c.captured /\ n.header = <<>>
        /\ n.payloadLeft = left /\ n.current = NoEntry
    BY <1>2, <1>6, <2>1, <2>2 DEF CaptureType
  <2>4. Located(n, t, q)
    <3>2. left > 0 => F[m].at = q + left
      BY <1>3, <1>5, <1>6
    <3>3. left = 0 => F[m].at = q
      BY <1>3, <1>5, <1>6
    <3>4. SubSeq(t, q + 1, q) = <<>>
      BY SubSeqEmpty
    <3>5. q < q + HeaderLength /\ q <= q
      BY FramesAssumption
    <3> HIDE DEF F
    <3>. QED BY <1>6, <2>3, <1>12, <3>2, <3>3, <3>4, <3>5 DEF Located, F
  <2>5. FrameKept(n, t, q)
    <3>1. ~(m <= GRPC_MESSAGE_CAP)
      BY <1>3, <1>15, FramesAssumption
    <3>2. \A k \in 1 .. Len(c.captured) : k # m
      BY <1>13, <1>15, FramesAssumption DEF Least
    <3>. QED BY <1>13, <1>14, <2>3, <3>1, <3>2 DEF FrameKept
  <2>. QED BY <2>3, <2>4, <2>5 DEF ParsedTo, n
<1>16. CASE m <= GRPC_MESSAGE_CAP
  <2>1. /\ c.current = m /\ Len(c.captured) = m /\ m \in 1 .. Len(c.captured)
        /\ c.budget = PROXY_BODY_CAP - Least(F[m].payload - c.payloadLeft, PROXY_BODY_CAP)
        /\ c.captured[m] = Shown(t, p, F[m - 1])
    <3>1. Len(c.captured) = m /\ m \in 1 .. Len(c.captured)
      BY <1>3, <1>6, <1>13, <1>16, FramesAssumption DEF Least
    <3>. QED BY <1>2, <1>3, <1>16, <3>1 DEF FrameKept
  <2> DEFINE e == c.captured[m]
             keep == Least(take, c.budget)
             new == Shown(t, q, F[j])
  <2>2. e = Shown(t, p, F[j])
    BY <1>7, <2>1
  <2>3. /\ keep \in Nat
        /\ ~e.whole
        /\ new.bytes = e.bytes /\ (new.compressed <=> e.compressed)
        /\ (new.whole <=> left = 0)
        /\ (new.truncated <=> e.truncated \/ keep < Len(slice))
        /\ new.kept = e.kept \o SubSeq(slice, 1, keep)
        /\ c.budget - keep = PROXY_BODY_CAP - Least(F[m].payload - left, PROXY_BODY_CAP)
    <3> DEFINE f == F[j]
    <3>1. /\ f \in FramePlaces /\ f.at + HeaderLength <= p
          /\ f.at + HeaderLength + LengthAt(t, f.at) = p + c.payloadLeft
      <4> HIDE DEF F
      <4>. QED BY <1>6, <1>7, <1>8
    <3>4. c.budget = PROXY_BODY_CAP - Least(f.payload + LengthAt(t, f.at) - c.payloadLeft, PROXY_BODY_CAP)
      <4>1. F[m].payload = f.payload + LengthAt(t, f.at)
        <5> HIDE DEF F
        <5>. QED BY <1>8
      <4>2. f.payload \in Nat /\ LengthAt(t, f.at) \in Nat /\ F[m].payload \in Nat
        <5>1. f.payload \in Nat /\ LengthAt(t, f.at) \in Nat
          <6> HIDE DEF F
          <6>. QED BY <1>8
        <5> HIDE DEF F, f
        <5>. QED BY <4>1, <5>1
      <4> HIDE DEF F, f, m
      <4>3. F[m].payload - c.payloadLeft = f.payload + LengthAt(t, f.at) - c.payloadLeft
        BY <1>3, <4>1, <4>2
      <4>. QED BY <2>1, <4>3
    <3> HIDE DEF F, f
    <3>2. Grows(t, p, q, f, c.payloadLeft, take, c.budget)
      BY <1>3, <3>1, <3>4, ShownGrows
    <3>3. c.payloadLeft = take <=> left = 0
      BY <1>3, <1>5
    <3>5. /\ keep \in Nat
          /\ ~Shown(t, p, f).whole
          /\ new.bytes = Shown(t, p, f).bytes /\ (new.compressed <=> Shown(t, p, f).compressed)
          /\ (new.whole <=> c.payloadLeft = take)
          /\ (new.truncated <=> Shown(t, p, f).truncated \/ keep < Len(slice))
          /\ new.kept = Shown(t, p, f).kept \o SubSeq(slice, 1, keep)
      BY <3>2 DEF f, Grows
    <3>6. c.budget - keep = PROXY_BODY_CAP - Least(F[m].payload - left, PROXY_BODY_CAP)
      <4>1. c.budget - keep = PROXY_BODY_CAP - Least(f.payload + LengthAt(t, f.at) - (c.payloadLeft - take), PROXY_BODY_CAP)
        <5> HIDE DEF f
        <5>. QED BY <3>2 DEF Grows
      <4>2. F[m].payload = f.payload + LengthAt(t, f.at) /\ f.payload \in Nat /\ LengthAt(t, f.at) \in Nat
        <5> HIDE DEF F
        <5>. QED BY <1>8 DEF f
      <4> HIDE DEF F, f, keep, m
      <4>3. f.payload + LengthAt(t, f.at) - (c.payloadLeft - take) = F[m].payload - left
        BY <1>3, <1>5, <4>2
      <4>. QED BY <4>1, <4>3
    <3>7. e = Shown(t, p, f)
      BY <2>2 DEF f
    <3> HIDE DEF keep, new, e, slice
    <3>. QED BY <3>3, <3>5, <3>6, <3>7
  <2>4. /\ n \in CaptureType
        /\ n.messages = m /\ n.header = c.header /\ n.payloadLeft = left
        /\ n.budget = c.budget - keep
        /\ n.current = IF left = 0 THEN NoEntry ELSE m
        /\ Len(n.captured) = Len(c.captured)
        /\ \A k \in 1 .. Len(c.captured) : k # m => n.captured[k] = c.captured[k]
        /\ n.captured[m].bytes = e.bytes
        /\ (n.captured[m].compressed <=> e.compressed)
        /\ n.captured[m].kept = e.kept \o SubSeq(slice, 1, keep)
        /\ (n.captured[m].truncated <=> e.truncated \/ keep < Len(slice))
        /\ (n.captured[m].whole <=> e.whole \/ left = 0)
    <3>1. left = c.payloadLeft - Len(slice)
      BY <1>4, <1>5
    <3>2. slice \in Streamed
      BY <1>4
    <3>3. Extended(AfterPayload(c, slice), c, m, slice, left)
      <4> HIDE DEF slice, m, n, e, keep, new
      <4>. QED BY <1>2, <2>1, <3>1, <3>2, PayloadKept
    <3> DEFINE thrift == Least(Len(slice), c.budget)
    <3>4. thrift = keep
      BY <1>4
    <3>5. Extended(n, c, m, slice, left)
      BY <3>3
    <3> HIDE DEF slice, thrift, keep, n
    <3>. QED BY <3>4, <3>5 DEF Extended, thrift
  <2>5. n.captured[m] = new
    <3>1. n.captured[m] \in Entries
      <4>1. n.captured \in Seq(Entries)
        BY <2>4 DEF CaptureType
      <4> HIDE DEF n
      <4>. QED BY <2>1, <2>4, <4>1, ElementOfSeq
    <3>2. new \in Entries
      <4>1. q \in 0 .. Len(t) /\ F[j].at + HeaderLength <= q
        <5>1. Len(t) \in Nat
          BY LenProperties DEF Streamed
        <5> HIDE DEF F
        <5>. QED BY <1>6, <1>7, <1>8, <5>1, FramesAssumption
      <4>. QED BY <1>8, <4>1, ShownIsEntry
    <3> DEFINE x == n.captured[m]
    <3>3. /\ x.bytes = new.bytes /\ x.kept = new.kept /\ (x.compressed <=> new.compressed)
          /\ (x.truncated <=> new.truncated) /\ (x.whole <=> new.whole)
      <4> HIDE DEF new, n, e, keep, slice
      <4>. QED BY <2>3, <2>4
    <3>4. x \in Entries
      BY <3>1
    <3> HIDE DEF new, x
    <3>5. x = new
      BY <3>2, <3>3, <3>4 DEF Entries
    <3>. QED BY <3>5 DEF x
  <2> HIDE DEF n, new, e, keep
  <2>6. Located(n, t, q)
    <3>2. left > 0 => F[m].at = q + left
      BY <1>3, <1>5, <1>6
    <3>3. left = 0 => F[m].at = q
      BY <1>3, <1>5, <1>6
    <3>4. SubSeq(t, q + 1, q) = <<>>
      BY SubSeqEmpty
    <3>5. q < q + HeaderLength /\ q <= q
      BY FramesAssumption
    <3> HIDE DEF F
    <3>. QED BY <1>6, <2>4, <1>12, <3>2, <3>3, <3>4, <3>5 DEF Located, F
  <2>7. FrameKept(n, t, q)
    <3>1. ASSUME NEW k \in 1 .. Len(n.captured) PROVE n.captured[k] = Shown(t, q, F[k - 1])
      <4>1. CASE k = m
        BY <1>7, <2>5, <4>1 DEF new
      <4>2. CASE k # m
        BY <1>14, <2>4, <4>2
      <4>. QED BY <4>1, <4>2
    <3>2. n.current = IF left > 0 /\ m <= GRPC_MESSAGE_CAP THEN m ELSE NoEntry
      BY <1>16, <2>4
    <3>3. n.budget = PROXY_BODY_CAP - Least(F[m].payload - left, PROXY_BODY_CAP)
      BY <2>3, <2>4
    <3> HIDE DEF F
    <3>. QED BY <1>13, <2>4, <3>1, <3>2, <3>3 DEF FrameKept, F
  <2>. QED BY <2>4, <2>6, <2>7 DEF ParsedTo, n
<1>. QED BY <1>3, <1>15, <1>16, FramesAssumption
-----------------------------------------------------------------------------
\* The entry of a message whose header has come; an empty one is whole.
FirstEntry(compressed, length) ==
  IF length = 0 THEN [Entry(compressed, length) EXCEPT !.whole = TRUE] ELSE Entry(compressed, length)

Begun(n, c, compressed, length) ==
  LET held == Len(c.captured) < GRPC_MESSAGE_CAP
  IN /\ n \in CaptureType
     /\ n.messages = c.messages + 1 /\ n.header = <<>> /\ n.payloadLeft = length /\ n.budget = c.budget
     /\ n.current = IF held /\ length > 0 THEN Len(c.captured) + 1 ELSE NoEntry
     /\ ~held => n.captured = c.captured
     /\ held => n.captured = Append(c.captured, FirstEntry(compressed, length))

\* A message begins: below the cap it has an entry, and an empty one is whole at once.
LEMMA MessageBegins ==
  ASSUME NEW c \in CaptureType, NEW compressed \in BOOLEAN, NEW length \in Nat
  PROVE  Begun(BeginMessage(c, compressed, length), c, compressed, length)
<1> DEFINE b == BeginMessage(c, compressed, length)
           n == [c EXCEPT !.messages = @ + 1, !.payloadLeft = length, !.header = <<>>]
           e == Entry(compressed, length)
           m == Len(c.captured) + 1
           held == [n EXCEPT !.captured = Append(@, e), !.current = m]
           skipped == [n EXCEPT !.current = NoEntry]
           closed == [e EXCEPT !.whole = TRUE]
           done == [held EXCEPT !.captured[m].whole = TRUE, !.current = NoEntry]
<1>1. /\ c.messages \in Nat /\ c.captured \in Seq(Entries) /\ c.header \in Streamed
      /\ c.payloadLeft \in Nat /\ c.budget \in Nat /\ c.current \in Nat /\ Len(c.captured) \in Nat
  BY LenProperties DEF CaptureType
<1>2. e \in Entries /\ closed \in Entries
  <2>1. PICK none \in Streamed : none = <<>>
    BY EmptySeq DEF Streamed
  <2>2. e = [bytes |-> length, compressed |-> compressed, truncated |-> FALSE, whole |-> FALSE, kept |-> none]
    BY <2>1 DEF Entry
  <2> HIDE DEF e
  <2>3. e \in Entries
    BY <2>2 DEF Entries
  <2>4. closed \in Entries
    BY <2>3 DEF Entries
  <2>. QED BY <2>3, <2>4
<1>3. /\ n \in CaptureType /\ n.messages = c.messages + 1 /\ n.header = <<>> /\ n.payloadLeft = length
      /\ n.budget = c.budget /\ n.captured = c.captured
  <2>1. PICK none \in Streamed : none = <<>>
    BY EmptySeq DEF Streamed
  <2>4. PICK more \in Nat : more = c.messages + 1
    BY <1>1
  <2>2. n = [c EXCEPT !.messages = more, !.payloadLeft = length, !.header = none]
    BY <2>1, <2>4
  <2> HIDE DEF n
  <2>3. /\ n \in CaptureType /\ n.messages = more /\ n.header = none /\ n.payloadLeft = length
        /\ n.budget = c.budget /\ n.captured = c.captured
    BY <2>2 DEF CaptureType
  <2>. QED BY <2>1, <2>3, <2>4
<1>4. /\ Append(c.captured, e) \in Seq(Entries) /\ Append(c.captured, closed) \in Seq(Entries)
      /\ Len(Append(c.captured, e)) = m /\ Append(c.captured, e)[m] = e
  <2> HIDE DEF e, closed
  <2>. QED BY <1>1, <1>2, AppendProperties
<1>5. b = IF Len(c.captured) >= GRPC_MESSAGE_CAP THEN skipped ELSE IF length = 0 THEN FinishMessage(held) ELSE held
  BY DEF BeginMessage, CaptureType
<1> HIDE DEF e, closed, n, b
<1>6. CASE ~(Len(c.captured) < GRPC_MESSAGE_CAP)
  <2>1. b = skipped
    BY <1>1, <1>5, <1>6, FramesAssumption
  <2>2. /\ skipped \in CaptureType /\ skipped.messages = c.messages + 1 /\ skipped.header = <<>>
        /\ skipped.payloadLeft = length /\ skipped.budget = c.budget /\ skipped.captured = c.captured
        /\ skipped.current = NoEntry
    BY <1>3 DEF CaptureType, NoEntry
  <2> HIDE DEF skipped
  <2>. QED BY <1>6, <2>1, <2>2 DEF Begun, b
<1>7. CASE Len(c.captured) < GRPC_MESSAGE_CAP
  <2>1. /\ held \in CaptureType /\ held.messages = c.messages + 1 /\ held.header = <<>>
        /\ held.payloadLeft = length /\ held.budget = c.budget /\ held.captured = Append(c.captured, e)
        /\ held.current = m
    <3> DEFINE more == Append(c.captured, e)
    <3>1. held = [n EXCEPT !.captured = more, !.current = m]
      BY <1>3
    <3>2. more \in Seq(Entries) /\ m \in Nat
      BY <1>1, <1>4
    <3> HIDE DEF held, more, m
    <3>3. held \in CaptureType /\ held.messages = n.messages /\ held.header = n.header /\ held.payloadLeft = n.payloadLeft
          /\ held.budget = n.budget /\ held.captured = more /\ held.current = m
      BY <1>3, <3>1, <3>2 DEF CaptureType
    <3>. QED BY <1>3, <3>3 DEF more
  <2>2. m # NoEntry
    BY <1>1 DEF NoEntry
  <2> HIDE DEF held
  <2>3. CASE length # 0
    <3>1. b = held
      BY <1>1, <1>5, <1>7, <2>3, FramesAssumption
    <3>. QED BY <1>7, <2>1, <2>3, <3>1 DEF Begun, FirstEntry, b, e
  <2>4. CASE length = 0
    <3>1. b = FinishMessage(held)
      BY <1>1, <1>5, <1>7, <2>4, FramesAssumption
    <3>2. FinishMessage(held) = done
      BY <2>1, <2>2 DEF FinishMessage
    <3>4. [Append(c.captured, e) EXCEPT ![m] = closed] = Append(c.captured, closed)
      <4> DEFINE x == Append(c.captured, e)
                 y == Append(c.captured, closed)
      <4>1. m \in 1 .. m
        BY <1>1
      <4>2. /\ [x EXCEPT ![m] = closed] \in Seq(Entries) /\ Len([x EXCEPT ![m] = closed]) = m
            /\ \A i \in 1 .. m : [x EXCEPT ![m] = closed][i] = IF i = m THEN closed ELSE x[i]
        <5>1. x \in Seq(Entries) /\ Len(x) = m
          BY <1>4
        <5> HIDE DEF x, m
        <5>. QED BY <1>2, <4>1, <5>1, ExceptSeq
      <4>3. Len(y) = m /\ y[m] = closed /\ \A i \in 1 .. Len(c.captured) : y[i] = c.captured[i] /\ x[i] = c.captured[i]
        BY <1>1, <1>2, AppendProperties
      <4>4. \A i \in 1 .. m : i # m => i \in 1 .. Len(c.captured)
        BY <1>1
      <4>5. y \in Seq(Entries)
        BY <1>4
      <4> HIDE DEF x, y, m
      <4>6. \A i \in 1 .. m : [x EXCEPT ![m] = closed][i] = y[i]
        BY <4>2, <4>3, <4>4
      <4>7. [x EXCEPT ![m] = closed] = y
        <5> DEFINE z == [x EXCEPT ![m] = closed]
        <5>1. z \in Seq(Entries) /\ Len(z) = Len(y) /\ \A i \in 1 .. Len(z) : z[i] = y[i]
          BY <4>2, <4>3, <4>6
        <5> HIDE DEF z
        <5>2. z = y
          BY <4>5, <5>1, SeqEqual
        <5>. QED BY <5>2 DEF z
      <4>. QED BY <4>7 DEF x, y
    <3>5. held.captured[m] = e
      BY <1>4, <2>1
    <3>6. done = [held EXCEPT !.captured = [@ EXCEPT ![m] = closed], !.current = NoEntry]
      BY <3>5 DEF closed
    <3> HIDE DEF done
    <3>7. /\ done \in CaptureType /\ done.messages = c.messages + 1 /\ done.header = <<>>
          /\ done.payloadLeft = length /\ done.budget = c.budget /\ done.captured = Append(c.captured, closed)
          /\ done.current = NoEntry
      BY <1>4, <2>1, <3>4, <3>6 DEF CaptureType, NoEntry
    <3>. QED BY <1>7, <2>4, <3>1, <3>2, <3>7 DEF Begun, FirstEntry, b, e, closed
  <2>. QED BY <2>3, <2>4
<1>. QED BY <1>6, <1>7
-----------------------------------------------------------------------------
\* What a turn over a header makes of the capture.
AfterHeader(c, h) ==
  IF Len(h) = HeaderLength THEN BeginMessage(c, h[1] = 1, h[HeaderLength]) ELSE [c EXCEPT !.header = h]

\* Nothing of a message's payload has come yet.
LEMMA ShownAtFirst ==
  ASSUME NEW t \in Streamed, NEW f \in FramePlaces, NEW q \in Nat, q = f.at + HeaderLength, q <= Len(t),
         NEW length, length = LengthAt(t, f.at), NEW compressed \in BOOLEAN, compressed <=> t[f.at + 1] = 1
  PROVE  /\ length \in Nat
         /\ Shown(t, q, f) = FirstEntry(compressed, length)
<1> DEFINE e == Entry(compressed, length)
           x == IF length = 0 THEN [e EXCEPT !.whole = TRUE] ELSE e
           s == Shown(t, q, f)
           have == Least(length, q - (f.at + HeaderLength))
           held == Least(have, PROXY_BODY_CAP - Least(f.payload, PROXY_BODY_CAP))
<1>1. f.at \in Nat /\ f.payload \in Nat /\ length \in Nat
  BY LengthsAreNumbers DEF FramePlaces
<1>2. have = 0 /\ held = 0
  <2>1. have = 0
    BY <1>1, FramesAssumption DEF Least
  <2> HIDE DEF have
  <2>. QED BY <1>1, <2>1, FramesAssumption DEF Least
<1>3. SubSeq(t, q + 1, q) = <<>>
  BY SubSeqEmpty
<1>4. /\ s.bytes = length /\ s.kept = SubSeq(t, q + 1, q + held)
      /\ (s.compressed <=> t[f.at + 1] = 1) /\ (s.whole <=> have = length) /\ (s.truncated <=> held < have)
  BY ShownFields
<1>5. /\ s.bytes = length /\ s.kept = <<>> /\ (s.compressed <=> compressed)
      /\ (s.whole <=> length = 0) /\ ~s.truncated
  <2>1. q + held = q
    <3> HIDE DEF held
    <3>. QED BY <1>2
  <2>2. s.kept = <<>>
    BY <1>3, <1>4, <2>1
  <2>3. (s.whole <=> length = 0) /\ ~s.truncated
    <3> HIDE DEF s, held, have
    <3>. QED BY <1>1, <1>2, <1>4
  <2> HIDE DEF s, held, have
  <2>. QED BY <1>4, <2>2, <2>3
<1>6. s \in Entries
  <2>1. q \in 0 .. Len(t) /\ f.at + HeaderLength <= q
    <3>1. Len(t) \in Nat
      BY LenProperties DEF Streamed
    <3>. QED BY <3>1
  <2>. QED BY <2>1, ShownIsEntry
<1>7. /\ x \in Entries /\ x.bytes = length /\ x.kept = <<>> /\ (x.compressed <=> compressed)
      /\ (x.whole <=> length = 0) /\ ~x.truncated
  <2>1. PICK none \in Streamed : none = <<>>
    BY EmptySeq DEF Streamed
  <2>2. e = [bytes |-> length, compressed |-> compressed, truncated |-> FALSE, whole |-> FALSE, kept |-> none]
    BY <2>1 DEF Entry
  <2>3. /\ e \in Entries /\ e.bytes = length /\ e.kept = none /\ (e.compressed <=> compressed)
        /\ ~e.whole /\ ~e.truncated
    <3> HIDE DEF e
    <3>. QED BY <1>1, <2>2 DEF Entries
  <2> HIDE DEF e
  <2> DEFINE y == [e EXCEPT !.whole = TRUE]
  <2>4. /\ y \in Entries /\ y.bytes = e.bytes /\ y.kept = e.kept /\ (y.compressed <=> e.compressed)
        /\ y.whole /\ (y.truncated <=> e.truncated)
    BY <2>3 DEF Entries
  <2>5. x = IF length = 0 THEN y ELSE e
    OBVIOUS
  <2> HIDE DEF x, y
  <2>6. CASE length = 0
    BY <2>1, <2>3, <2>4, <2>5, <2>6
  <2>7. CASE length # 0
    BY <2>1, <2>3, <2>5, <2>7
  <2>. QED BY <2>6, <2>7
<1> HIDE DEF s, x
<1>8. s.bytes = x.bytes /\ s.kept = x.kept /\ (s.compressed <=> x.compressed) /\ (s.whole <=> x.whole)
      /\ (s.truncated <=> x.truncated)
  BY <1>5, <1>7
<1>9. s = x
  BY <1>6, <1>7, <1>8 DEF Entries
<1>. QED BY <1>1, <1>9 DEF s, x, FirstEntry

\* A turn that takes of a header.
LEMMA HeaderTurn ==
  ASSUME NEW t \in Streamed, NEW p \in Nat, NEW take \in Nat \ {0}, NEW q \in Nat, q = p + take, q <= Len(t),
         NEW c, ParsedTo(c, t, p), c.payloadLeft = 0, take <= HeaderLength - Len(c.header)
  PROVE  ParsedTo(AfterHeader(c, c.header \o SubSeq(t, p + 1, q)), t, q)
<1>1. \A d, b, n \in Nat : d <= b /\ b <= n /\ n <= Len(t) =>
        SubSeq(t, d + 1, b) \o SubSeq(t, b + 1, n) = SubSeq(t, d + 1, n)
  BY PiecesJoin
<1>2. \A d, b \in Nat : d <= b /\ b <= Len(t) =>
        /\ SubSeq(t, d + 1, b) \in Streamed /\ Len(SubSeq(t, d + 1, b)) = b - d
        /\ \A i \in 1 .. b - d : SubSeq(t, d + 1, b)[i] = t[d + i]
  <2>1. \A b \in Nat : b <= b
    OBVIOUS
  <2>. QED BY <2>1, InPieces
<1>3. \A k \in Nat : Frames(t)[k + 1].at <= p /\ Frames(t)[k + 1].at <= q
                      => Shown(t, p, Frames(t)[k]) = Shown(t, q, Frames(t)[k])
  BY PassedIsPassed
<1> DEFINE m == c.messages
           F == Frames(t)
           h == c.header \o SubSeq(t, p + 1, q)
           n == AfterHeader(c, h)
<1>4. c \in CaptureType /\ Located(c, t, p) /\ FrameKept(c, t, p)
  BY DEF ParsedTo
<1>5. /\ m \in Nat /\ c.captured \in Seq(Entries) /\ c.header \in Streamed
      /\ c.payloadLeft \in Nat /\ c.budget \in Nat /\ c.current \in Nat
      /\ Len(c.captured) \in Nat /\ Len(t) \in Nat
  BY <1>4, LenProperties DEF CaptureType, Streamed
<1>6. F[m] \in FramePlaces /\ F[m].at \in Nat /\ F[m].payload \in Nat /\ LengthAt(t, F[m].at) \in Nat
  <2>1. F[m] \in FramePlaces
    BY <1>5, FramesFollow
  <2>. QED BY <1>5, <2>1, FramePlace
<1>7. PICK begin \in Nat : begin = F[m].at
  BY <1>6
<1>8. begin <= p /\ p < begin + HeaderLength /\ c.header = SubSeq(t, begin + 1, p)
  <2> HIDE DEF F
  <2>. QED BY <1>4, <1>7 DEF Located, F
<1>9. /\ h = SubSeq(t, begin + 1, q) /\ h \in Streamed /\ Len(h) = q - begin
      /\ Len(c.header) = p - begin
      /\ \A i \in 1 .. q - begin : h[i] = t[begin + i]
  <2>1. p <= q /\ begin <= q /\ p <= Len(t)
    BY <1>5, <1>8
  <2>2. h = SubSeq(t, begin + 1, q)
    <3> HIDE DEF F
    <3>. QED BY <1>1, <1>8, <2>1
  <2>3. Len(c.header) = p - begin
    BY <1>2, <1>8, <2>1
  <2> HIDE DEF h
  <2>. QED BY <1>2, <2>1, <2>2, <2>3
<1>10. q - begin <= HeaderLength /\ begin <= q /\ p <= q
  BY <1>5, <1>8, <1>9, FramesAssumption
<1> HIDE DEF h
<1>11. Len(c.captured) = Least(m, GRPC_MESSAGE_CAP)
  BY <1>4 DEF FrameKept
<1>12. ASSUME NEW k \in 1 .. Len(c.captured) PROVE c.captured[k] = Shown(t, q, F[k - 1])
  <2>1. k - 1 \in Nat /\ (k - 1) + 1 = k /\ k \in Nat /\ k <= m
    BY <1>5, <1>11, FramesAssumption DEF Least
  <2>2. F[k].at <= F[m].at /\ F[k].at \in Nat
    BY <1>5, <2>1, FramesAscend, FramePlace
  <2>3. F[k].at <= p /\ F[k].at <= q
    <3>1. PICK here \in Nat : here = F[k].at
      <4> HIDE DEF F
      <4>. QED BY <2>2
    <3>2. here <= begin
      <4> HIDE DEF F, m
      <4>. QED BY <1>7, <2>2, <3>1
    <3>3. here <= p /\ here <= q
      BY <1>8, <1>10, <3>2
    <3> HIDE DEF F, m
    <3>. QED BY <3>1, <3>3
  <2>4. PICK i \in Nat : i = k - 1 /\ i + 1 = k
    BY <2>1
  <2>5. F[i + 1].at <= p /\ F[i + 1].at <= q
    BY <2>3, <2>4
  <2>6. Shown(t, p, F[i]) = Shown(t, q, F[i])
    BY <1>3, <2>5
  <2>7. c.captured[k] = Shown(t, p, F[k - 1])
    BY <1>4 DEF FrameKept
  <2>. QED BY <2>4, <2>6, <2>7
<1>13. m > 0 => m - 1 \in Nat /\ F[m - 1].at \in Nat /\ F[m - 1].at + HeaderLength <= q
  <2>1. SUFFICES ASSUME m > 0 PROVE m - 1 \in Nat /\ F[m - 1].at \in Nat /\ F[m - 1].at + HeaderLength <= q
    OBVIOUS
  <2>2. m - 1 \in Nat
    BY <1>5, <2>1
  <2>3. F[m - 1].at \in Nat
    BY <2>2, FramePlace
  <2>4. F[m - 1].at + HeaderLength <= p
    BY <1>4, <2>1 DEF Located
  <2>5. PICK start \in Nat : start = F[m - 1].at
    <3> HIDE DEF F, m
    <3>. QED BY <2>3
  <2>6. start + HeaderLength <= p
    <3> HIDE DEF F, m
    <3>. QED BY <2>4, <2>5
  <2>7. start + HeaderLength <= q
    BY <1>10, <2>6, FramesAssumption
  <2> HIDE DEF F, m
  <2>. QED BY <2>2, <2>5, <2>7
<1>14. c.current = NoEntry
  BY <1>4 DEF FrameKept
<1>15. CASE q - begin < HeaderLength
  <2>1. n = [c EXCEPT !.header = h]
    BY <1>9, <1>15, FramesAssumption DEF AfterHeader
  <2> HIDE DEF n
  <2>2. /\ n \in CaptureType /\ n.messages = m /\ n.captured = c.captured /\ n.header = h
        /\ n.payloadLeft = 0 /\ n.budget = c.budget /\ n.current = NoEntry
    BY <1>4, <1>9, <1>14, <2>1 DEF CaptureType
  <2>3. Located(n, t, q)
    <3>1. F[m].at <= q /\ q < F[m].at + HeaderLength
      <4> HIDE DEF F
      <4>. QED BY <1>7, <1>10, <1>15, FramesAssumption
    <3>2. h = SubSeq(t, F[m].at + 1, q)
      <4> HIDE DEF F
      <4>. QED BY <1>7, <1>9
    <3> HIDE DEF F, m
    <3>. QED BY <1>13, <2>2, <3>1, <3>2 DEF Located, F, m
  <2>4. FrameKept(n, t, q)
    <3>1. m <= GRPC_MESSAGE_CAP =>
            n.budget = PROXY_BODY_CAP - Least(F[m].payload - n.payloadLeft, PROXY_BODY_CAP)
      BY <1>4, <2>2 DEF FrameKept
    <3> HIDE DEF F, m
    <3>. QED BY <1>11, <1>12, <2>2, <3>1 DEF FrameKept, F
  <2>. QED BY <2>2, <2>3, <2>4 DEF ParsedTo, n, h
<1>16. CASE q - begin = HeaderLength
  <2> DEFINE length == LengthAt(t, begin)
             compressed == (h[1] = 1)
             x == FirstEntry(compressed, length)
  <2>1. /\ length \in Nat /\ h[HeaderLength] = length /\ compressed \in BOOLEAN
        /\ q = begin + HeaderLength /\ F[m + 1].at = q + length /\ F[m + 1].payload = F[m].payload + length
        /\ F[(m + 1) - 1] = F[m] /\ F[m + 1].payload \in Nat /\ m + 1 \in Nat
    <3>1. q = begin + HeaderLength /\ HeaderLength \in 1 .. q - begin
      BY <1>10, <1>16, FramesAssumption
    <3>2. h[HeaderLength] = t[begin + HeaderLength]
      BY <1>9, <3>1
    <3>3. length = t[begin + HeaderLength]
      BY <3>1 DEF LengthAt
    <3>4. F[m + 1].at = F[m].at + HeaderLength + LengthAt(t, F[m].at)
          /\ F[m + 1].payload = F[m].payload + LengthAt(t, F[m].at)
      BY <1>5, FramePlace
    <3>5. (m + 1) - 1 = m
      BY <1>5
    <3>6. length \in Nat
      BY <1>6, <1>7
    <3>7. h[HeaderLength] = length
      BY <3>2, <3>3
    <3> HIDE DEF F, m, length
    <3>8. F[m + 1].at = begin + HeaderLength + length /\ F[m + 1].payload = F[m].payload + length
      BY <1>7, <3>4 DEF length
    <3>9. F[m + 1].payload \in Nat
      BY <1>6, <3>6, <3>8
    <3>. QED BY <1>5, <3>1, <3>5, <3>6, <3>7, <3>8, <3>9
  <2>2. Begun(n, c, compressed, length)
    <3>1. n = BeginMessage(c, compressed, length)
      BY <1>9, <1>16, <2>1 DEF AfterHeader
    <3> HIDE DEF n, compressed, length
    <3>. QED BY <1>4, <2>1, <3>1, MessageBegins
  <2>3. Shown(t, q, F[m]) = x
    <3>1. compressed <=> t[F[m].at + 1] = 1
      <4>1. 1 \in 1 .. q - begin
        BY <2>1, FramesAssumption
      <4>2. h[1] = t[begin + 1]
        BY <1>9, <4>1
      <4>. QED BY <1>7, <4>2
    <3>2. q = F[m].at + HeaderLength /\ length = LengthAt(t, F[m].at)
      BY <1>7, <2>1
    <3> DEFINE f == F[m]
    <3>3. f \in FramePlaces /\ q = f.at + HeaderLength /\ length = LengthAt(t, f.at) /\ (compressed <=> t[f.at + 1] = 1)
      BY <1>6, <3>1, <3>2
    <3> HIDE DEF f, compressed, length
    <3>4. Shown(t, q, f) = x
      BY <2>1, <3>3, ShownAtFirst
    <3>. QED BY <3>4 DEF f
  <2> HIDE DEF n, x, compressed, length
  <2>4. /\ n \in CaptureType /\ n.messages = m + 1 /\ n.header = <<>> /\ n.payloadLeft = length /\ n.budget = c.budget
        /\ n.current = (IF Len(c.captured) < GRPC_MESSAGE_CAP /\ length > 0 THEN Len(c.captured) + 1 ELSE NoEntry)
        /\ (~(Len(c.captured) < GRPC_MESSAGE_CAP) => n.captured = c.captured)
        /\ (Len(c.captured) < GRPC_MESSAGE_CAP => n.captured = Append(c.captured, x))
    BY <2>2 DEF Begun, x
  <2>5. Located(n, t, q)
    <3>1. F[(m + 1) - 1].at + HeaderLength <= q
      <4> HIDE DEF F
      <4>. QED BY <1>7, <2>1, FramesAssumption
    <3>2. length = 0 => F[m + 1].at = q
      <4> HIDE DEF F
      <4>. QED BY <2>1
    <3>3. SubSeq(t, q + 1, q) = <<>>
      BY SubSeqEmpty
    <3>4. q < q + HeaderLength /\ q <= q /\ m + 1 > 0
      BY <1>5, FramesAssumption
    <3> HIDE DEF F, m
    <3>. QED BY <2>1, <2>4, <3>1, <3>2, <3>3, <3>4 DEF Located, F
  <2>6. CASE ~(Len(c.captured) < GRPC_MESSAGE_CAP)
    <3>1. n.captured = c.captured /\ n.current = NoEntry
      BY <2>4, <2>6
    <3>2. Len(c.captured) = Least(m + 1, GRPC_MESSAGE_CAP) /\ ~(m + 1 <= GRPC_MESSAGE_CAP)
      BY <1>5, <1>11, <2>6, FramesAssumption DEF Least
    <3>3. FrameKept(n, t, q)
      <4> HIDE DEF F, m
      <4>. QED BY <1>12, <2>4, <3>1, <3>2 DEF FrameKept, F
    <3>. QED BY <2>4, <2>5, <3>3 DEF ParsedTo, n, h
  <2>7. CASE Len(c.captured) < GRPC_MESSAGE_CAP
    <3>1. Len(c.captured) = m /\ m < GRPC_MESSAGE_CAP /\ m + 1 <= GRPC_MESSAGE_CAP /\ Least(m + 1, GRPC_MESSAGE_CAP) = m + 1
      BY <1>5, <1>11, <2>7, FramesAssumption DEF Least
    <3>2. x \in Entries
      <4>1. q \in 0 .. Len(t) /\ F[m].at + HeaderLength <= q
        <5> HIDE DEF F
        <5>. QED BY <1>5, <1>7, <2>1, FramesAssumption
      <4>2. Shown(t, q, F[m]) \in Entries
        BY <1>6, <4>1, ShownIsEntry
      <4>. QED BY <2>3, <4>2
    <3>3. /\ n.captured = Append(c.captured, x) /\ Len(n.captured) = m + 1 /\ n.captured[m + 1] = x
          /\ \A k \in 1 .. m : n.captured[k] = c.captured[k]
      BY <1>5, <2>4, <2>7, <3>1, <3>2, AppendProperties
    <3>4. ASSUME NEW k \in 1 .. m + 1 PROVE n.captured[k] = Shown(t, q, F[k - 1])
      <4>1. CASE k = m + 1
        BY <2>1, <2>3, <3>3, <4>1
      <4>2. CASE k # m + 1
        <5>1. k \in 1 .. m
          BY <1>5, <4>2
        <5>. QED BY <1>12, <3>1, <3>3, <5>1
      <4>. QED BY <4>1, <4>2
    <3>5. n.budget = PROXY_BODY_CAP - Least(F[m + 1].payload - length, PROXY_BODY_CAP)
      <4>1. c.budget = PROXY_BODY_CAP - Least(F[m].payload - 0, PROXY_BODY_CAP)
        <5>1. m <= GRPC_MESSAGE_CAP
          BY <1>5, <3>1, FramesAssumption
        <5>. QED BY <1>4, <5>1 DEF FrameKept
      <4>2. F[m].payload - 0 = F[m + 1].payload - length
        <5> HIDE DEF F, m
        <5>. QED BY <1>6, <2>1
      <4>3. n.budget = c.budget
        BY <2>4
      <4> HIDE DEF F, m
      <4>. QED BY <4>1, <4>2, <4>3
    <3>6. n.current = IF length > 0 THEN m + 1 ELSE NoEntry
      BY <2>4, <2>7, <3>1
    <3>7. FrameKept(n, t, q)
      <4> HIDE DEF F, m
      <4>. QED BY <2>4, <3>1, <3>3, <3>4, <3>5, <3>6 DEF FrameKept, F
    <3>. QED BY <2>4, <2>5, <3>7 DEF ParsedTo, n, h
  <2>. QED BY <2>6, <2>7
<1>. QED BY <1>10, <1>15, <1>16, FramesAssumption
-----------------------------------------------------------------------------
Walks(s, chunk) ==
  {l \in [capture : CaptureType, off : 0 .. Len(chunk)] : ParsedTo(l.capture, s \o chunk, Len(s) + l.off)}

\* A turn of the loop walks on, until the chunk is through.
LEMMA TurnWalks ==
  ASSUME NEW s \in Streamed, NEW chunk \in Streamed, NEW l \in Walks(s, chunk)
  PROVE  /\ Turn(l, chunk) \in Walks(s, chunk)
         /\ l.off \in 0 .. Len(chunk) /\ Turn(l, chunk).off \in 0 .. Len(chunk)
         /\ Turn(l, chunk).off >= l.off
         /\ l.off < Len(chunk) => Turn(l, chunk).off > l.off
<1> DEFINE t == s \o chunk
           c == l.capture
           p == Len(s) + l.off
           r == Turn(l, chunk)
<1>1. l = [capture |-> c, off |-> l.off] /\ c \in CaptureType /\ l.off \in 0 .. Len(chunk) /\ ParsedTo(c, t, p)
  BY DEF Walks
<1>2. /\ Len(s) \in Nat /\ Len(chunk) \in Nat /\ t \in Streamed /\ Len(t) = Len(s) + Len(chunk)
      /\ \A i \in 1 .. Len(s) + Len(chunk) : t[i] = IF i <= Len(s) THEN s[i] ELSE chunk[i - Len(s)]
  <2>1. Len(s) \in Nat /\ Len(chunk) \in Nat
    BY LenProperties DEF Streamed
  <2>. QED BY <2>1, ConcatProperties DEF Streamed
<1>3. p \in Nat /\ l.off \in Nat
  BY <1>1, <1>2
<1>4. c.payloadLeft \in Nat /\ c.header \in Streamed /\ Len(c.header) \in Nat
  BY <1>1, LenProperties DEF CaptureType, Streamed
<1>5. ASSUME NEW take \in Nat \ {0}, take <= Len(chunk) - l.off
      PROVE  /\ p + take \in Nat /\ p + take <= Len(t) /\ l.off + take \in 0 .. Len(chunk)
             /\ SubSeq(chunk, l.off + 1, l.off + take) = SubSeq(t, p + 1, p + take)
             /\ p + take = Len(s) + (l.off + take)
  <2>1. p + 1 \in Len(s) + 1 .. Len(s) + Len(chunk) /\ p + take \in Len(s) + 1 .. Len(s) + Len(chunk)
    BY <1>2, <1>3, <1>5
  <2>2. SubSeq(t, p + 1, p + take) = SubSeq(chunk, (p + 1) - Len(s), (p + take) - Len(s))
    <3> HIDE DEF p
    <3>. QED BY <2>1, SubSeqOfConcat2 DEF Streamed
  <2>3. (p + 1) - Len(s) = l.off + 1 /\ (p + take) - Len(s) = l.off + take
    BY <1>2, <1>3
  <2>4. SubSeq(chunk, l.off + 1, l.off + take) = SubSeq(t, p + 1, p + take)
    BY <2>2, <2>3
  <2>5. p + take \in Nat /\ p + take <= Len(t) /\ l.off + take \in 0 .. Len(chunk) /\ p + take = Len(s) + (l.off + take)
    BY <1>2, <1>3, <1>5
  <2>. QED BY <2>4, <2>5
<1>6. ASSUME NEW take \in Nat \ {0}, take <= Len(chunk) - l.off, NEW n, ParsedTo(n, t, p + take),
             r = [capture |-> n, off |-> l.off + take]
      PROVE  r \in Walks(s, chunk) /\ r.off \in 0 .. Len(chunk) /\ r.off > l.off
  <2>1. /\ l.off + take \in 0 .. Len(chunk) /\ p + take = Len(s) + (l.off + take)
    BY <1>5, <1>6
  <2>2. n \in CaptureType
    BY <1>6 DEF ParsedTo
  <2>3. r \in [capture : CaptureType, off : 0 .. Len(chunk)] /\ r.capture = n /\ r.off = l.off + take
    <3> HIDE DEF r
    <3>. QED BY <1>6, <2>1, <2>2
  <2>4. ParsedTo(r.capture, s \o chunk, Len(s) + r.off)
    <3> HIDE DEF r, p
    <3>. QED BY <1>6, <2>1, <2>3 DEF t
  <2>5. r \in Walks(s, chunk)
    <3> HIDE DEF r
    <3>. QED BY <2>3, <2>4 DEF Walks
  <2> HIDE DEF r
  <2>. QED BY <1>3, <2>1, <2>3, <2>5
<1>7. CASE l.off = Len(chunk)
  <2>1. r = l
    BY <1>2, <1>7 DEF Turn
  <2>. QED BY <1>1, <1>2, <1>7, <2>1
<1>8. CASE l.off # Len(chunk)
  <2>1. l.off < Len(chunk) /\ Len(chunk) - l.off # 0 /\ Len(chunk) - l.off \in Nat
    BY <1>1, <1>2, <1>8
  <2>2. CASE c.payloadLeft > 0
    <3> DEFINE take == Least(c.payloadLeft, Len(chunk) - l.off)
               slice == SubSeq(chunk, l.off + 1, l.off + take)
    <3>1. take \in Nat \ {0} /\ take <= Len(chunk) - l.off /\ take <= c.payloadLeft
      BY <1>4, <2>1, <2>2 DEF Least
    <3>2. slice = SubSeq(t, p + 1, p + take) /\ p + take \in Nat /\ p + take <= Len(t)
      <4> HIDE DEF take, t, p
      <4>. QED BY <1>5, <3>1
    <3>3. Len(slice) = take
      <4>1. p <= p + take /\ (p + take) - p = take /\ p + take <= p + take
        <5> HIDE DEF take, t, p, slice
        <5>. QED BY <1>3, <3>1
      <4> HIDE DEF take, t, p, slice
      <4>2. PICK q \in Nat : q = p + take
        BY <3>2
      <4>3. Len(SubSeq(t, p + 1, q)) = q - p
        BY <1>2, <1>3, <3>2, <4>1, <4>2, InPieces
      <4>. QED BY <3>2, <4>1, <4>2, <4>3
    <3>4. r = [capture |-> AfterPayload(c, slice), off |-> l.off + take]
      <4> DEFINE n == [Retain(c, slice) EXCEPT !.payloadLeft = @ - take]
      <4>1. r = [capture |-> IF n.payloadLeft = 0 THEN FinishMessage(n) ELSE n, off |-> l.off + take]
        BY <2>1, <2>2 DEF Turn
      <4>2. n = [Retain(c, slice) EXCEPT !.payloadLeft = @ - Len(slice)]
        <5> HIDE DEF slice, take
        <5>. QED BY <3>3
      <4>3. AfterPayload(c, slice) = IF n.payloadLeft = 0 THEN FinishMessage(n) ELSE n
        <5> HIDE DEF n, slice
        <5>. QED BY <4>2 DEF AfterPayload
      <4>. QED BY <4>1, <4>3
    <3>5. ParsedTo(AfterPayload(c, slice), t, p + take)
      <4> HIDE DEF take, t, p, slice, c
      <4>1. PICK q \in Nat : q = p + take
        BY <3>2
      <4>2. ParsedTo(AfterPayload(c, SubSeq(t, p + 1, q)), t, q)
        BY <1>1, <1>2, <1>3, <3>1, <3>2, <4>1, PayloadTurn
      <4>. QED BY <3>2, <4>1, <4>2
    <3> HIDE DEF take, t, p, slice, c, r
    <3>6. r \in Walks(s, chunk) /\ r.off \in 0 .. Len(chunk) /\ r.off > l.off
      BY <1>6, <3>1, <3>4, <3>5
    <3>7. r.off >= l.off
      BY <1>2, <1>3, <3>6
    <3>. QED BY <1>1, <3>6, <3>7 DEF r
  <2>3. CASE c.payloadLeft = 0
    <3> DEFINE take == Least(HeaderLength - Len(c.header), Len(chunk) - l.off)
               slice == SubSeq(chunk, l.off + 1, l.off + take)
               h == c.header \o slice
    <3>1. take \in Nat \ {0} /\ take <= Len(chunk) - l.off /\ take <= HeaderLength - Len(c.header)
      <4>1. Len(c.header) < HeaderLength
        <5> DEFINE begin == Frames(t)[c.messages].at
        <5>1. begin <= p /\ p < begin + HeaderLength /\ c.header = SubSeq(t, begin + 1, p)
          BY <1>1, <2>3 DEF ParsedTo, Located
        <5>2. c.messages \in Nat
          BY <1>1 DEF CaptureType
        <5>3. begin \in Nat
          BY <1>2, <5>2, FramePlace
        <5>4. p <= Len(t) /\ p <= p
          BY <1>1, <1>2, <1>3
        <5> HIDE DEF t, p, begin, c
        <5>5. Len(SubSeq(t, begin + 1, p)) = p - begin
          BY <1>2, <1>3, <5>1, <5>3, <5>4, InPieces
        <5>. QED BY <1>3, <5>1, <5>3, <5>5, FramesAssumption
      <4>. QED BY <1>4, <2>1, <4>1, FramesAssumption DEF Least
    <3>2. slice = SubSeq(t, p + 1, p + take) /\ p + take \in Nat /\ p + take <= Len(t)
      <4> HIDE DEF take, t, p
      <4>. QED BY <1>5, <3>1
    <3>4. r = [capture |-> AfterHeader(c, h), off |-> l.off + take]
      <4>1. ~(c.payloadLeft > 0)
        BY <2>3
      <4>. QED BY <2>1, <4>1 DEF Turn, AfterHeader, HeaderSoFar
    <3>5. ParsedTo(AfterHeader(c, h), t, p + take)
      <4> HIDE DEF take, t, p, slice, c
      <4>1. PICK q \in Nat : q = p + take
        BY <3>2
      <4>2. ParsedTo(AfterHeader(c, c.header \o SubSeq(t, p + 1, q)), t, q)
        BY <1>1, <1>2, <1>3, <2>3, <3>1, <3>2, <4>1, HeaderTurn
      <4>. QED BY <3>2, <4>1, <4>2
    <3> HIDE DEF take, t, p, slice, c, r, h
    <3>6. r \in Walks(s, chunk) /\ r.off \in 0 .. Len(chunk) /\ r.off > l.off
      BY <1>6, <3>1, <3>4, <3>5
    <3>7. r.off >= l.off
      BY <1>2, <1>3, <3>6
    <3>. QED BY <1>1, <3>6, <3>7 DEF r
  <2>. QED BY <1>4, <2>2, <2>3
<1>. QED BY <1>7, <1>8

\* push walks the whole chunk.
LEMMA PushParses ==
  ASSUME NEW s \in Streamed, NEW chunk \in Streamed, NEW c, ParsedTo(c, s, Len(s))
  PROVE  ParsedTo(Push(c, chunk), s \o chunk, Len(s \o chunk))
<1> DEFINE S == Walks(s, chunk)
           start == [capture |-> c, off |-> 0]
           g == [l \in S |-> Turn(l, chunk)]
           size == Len(chunk)
<1>1. Len(s) \in Nat /\ size \in Nat /\ Len(s \o chunk) = Len(s) + size
  <2>1. Len(s) \in Nat /\ size \in Nat
    BY LenProperties DEF Streamed
  <2>. QED BY <2>1, ConcatProperties DEF Streamed
<1>2. start \in S
  <2>1. ParsedTo(c, s \o chunk, Len(s))
    BY ParsedStays
  <2>2. c \in CaptureType
    BY DEF ParsedTo
  <2>3. Len(s) + 0 = Len(s) /\ 0 \in 0 .. size
    BY <1>1
  <2>4. start.capture = c /\ start.off = 0 /\ start \in [capture : CaptureType, off : 0 .. Len(chunk)]
    BY <2>2, <2>3
  <2> HIDE DEF start
  <2>. QED BY <2>1, <2>3, <2>4 DEF Walks
<1>3. g \in [S -> S]
  BY TurnWalks
<1>4. PICK f \in [Nat -> S] : f = [n \in Nat |-> IF n = 0 THEN start ELSE g[f[n - 1]]]
  <2> HIDE DEF S, start, g
  <2>. QED BY <1>2, <1>3, Recursion
<1>5. f = [n \in Nat |-> IF n = 0 THEN start ELSE Turn(f[n - 1], chunk)]
  <2>1. ASSUME NEW n \in Nat, n # 0 PROVE g[f[n - 1]] = Turn(f[n - 1], chunk)
    <3>1. n - 1 \in Nat
      BY <2>1
    <3>2. f[n - 1] \in S
      <4> HIDE DEF S
      <4>. QED BY <3>1
    <3>. QED BY <3>2
  <2> HIDE DEF g
  <2>. QED BY <1>4, <2>1
<1> DEFINE turn == CHOOSE x : x = [n \in Nat |-> IF n = 0 THEN start ELSE Turn(x[n - 1], chunk)]
<1>6. turn = [n \in Nat |-> IF n = 0 THEN start ELSE Turn(turn[n - 1], chunk)]
  BY <1>5
<1>7. Push(c, chunk) = turn[size].capture
  BY DEF Push
<1> HIDE DEF turn, start
<1> DEFINE P == {n \in Nat : turn[n] \in S /\ turn[n].off \in Nat /\ (n <= size => turn[n].off >= n)}
<1>8. 0 \in P
  BY <1>2, <1>6 DEF start
<1>9. ASSUME NEW n \in P PROVE n + 1 \in P
  <2>1. n \in Nat /\ n + 1 \in Nat /\ (n + 1) - 1 = n /\ n + 1 # 0
    OBVIOUS
  <2>2. turn[n + 1] = Turn(turn[n], chunk)
    <3>1. turn[n + 1] = Turn(turn[(n + 1) - 1], chunk)
      <4> HIDE DEF P
      <4>. QED BY <1>6, <2>1
    <3>. QED BY <2>1, <3>1
  <2>3. turn[n] \in S /\ turn[n].off \in Nat /\ (n <= size => turn[n].off >= n)
    OBVIOUS
  <2> DEFINE l == turn[n]
             r == Turn(turn[n], chunk)
  <2>4. /\ r \in S /\ l.off \in 0 .. size /\ r.off \in 0 .. size /\ r.off >= l.off
        /\ (l.off < size => r.off > l.off)
    BY <2>3, TurnWalks
  <2> HIDE DEF S, r
  <2>5. r.off \in Nat /\ (n + 1 <= size => r.off >= n + 1)
    BY <1>1, <2>1, <2>3, <2>4
  <2>. QED BY <2>1, <2>2, <2>4, <2>5 DEF r
<1>10. P = Nat
  <2>1. P \subseteq Nat
    OBVIOUS
  <2> HIDE DEF P
  <2>. QED BY <1>8, <1>9, <2>1, Induction
<1>11. turn[size] \in S /\ turn[size].off \in Nat /\ turn[size].off >= size
  <2>1. size \in P
    BY <1>1, <1>10
  <2>2. size <= size
    BY <1>1
  <2> HIDE DEF S
  <2>. QED BY <2>1, <2>2
<1>12. ParsedTo(turn[size].capture, s \o chunk, Len(s) + turn[size].off) /\ turn[size].off \in 0 .. size
  BY <1>11 DEF Walks
<1>13. turn[size].off = size
  BY <1>1, <1>11, <1>12
<1>. QED BY <1>1, <1>7, <1>12, <1>13
-----------------------------------------------------------------------------
\* The preview is the head of the body.
HeadTeed == bodyTee = [bytes |-> Len(teed), chunks |-> SubSeq(teed, 1, Least(Len(teed), PROXY_BODY_CAP))]

FramesInv == teed \in Streamed /\ ParsedTo(capture, teed, Len(teed)) /\ HeadTeed

\* Before the first byte.
LEMMA FramesInitially ==
  ASSUME FramesInit PROVE FramesInv
<1>1. PICK none \in Streamed : none = <<>> /\ Len(none) = 0
  BY EmptySeq DEF Streamed
<1>2. PICK nothing \in Seq(Entries) : nothing = <<>> /\ Len(nothing) = 0
  BY EmptySeq
<1>3. capture = [messages |-> 0, captured |-> nothing, header |-> none, payloadLeft |-> 0,
                 budget |-> PROXY_BODY_CAP, current |-> 0]
  BY <1>1, <1>2 DEF FramesInit, NoEntry
<1>4. /\ capture \in CaptureType /\ capture.messages = 0 /\ capture.captured = nothing /\ capture.header = none
      /\ capture.payloadLeft = 0 /\ capture.budget = PROXY_BODY_CAP /\ capture.current = 0
  BY <1>3, FramesAssumption DEF CaptureType
<1>5. teed = none /\ SubSeq(none, 1, 0) = <<>>
  BY <1>1, SubSeqEmpty DEF FramesInit
<1>6. Frames(none)[0].at = 0 /\ Frames(none)[0].payload = 0
  BY FramesFollow
<1>7. Located(capture, none, 0)
  BY <1>1, <1>4, <1>5, <1>6, FramesAssumption DEF Located
<1>8. FrameKept(capture, none, 0)
  <2>1. Least(0, GRPC_MESSAGE_CAP) = 0 /\ PROXY_BODY_CAP - Least(0 - 0, PROXY_BODY_CAP) = PROXY_BODY_CAP
    BY FramesAssumption DEF Least
  <2>2. \A k \in 1 .. Len(capture.captured) : FALSE
    BY <1>2, <1>4
  <2>. QED BY <1>2, <1>4, <1>6, <2>1, <2>2 DEF FrameKept, NoEntry
<1>9. HeadTeed
  <2>1. Least(0, PROXY_BODY_CAP) = 0
    BY FramesAssumption DEF Least
  <2>. QED BY <1>1, <1>5, <2>1 DEF HeadTeed, FramesInit
<1>. QED BY <1>1, <1>4, <1>5, <1>7, <1>8, <1>9 DEF FramesInv, ParsedTo

\* What BodyTee keeps stays the head of what it is pushed.
LEMMA TeeKeepsHead ==
  ASSUME NEW s \in Streamed, NEW chunk \in Streamed, NEW tee,
         tee = [bytes |-> Len(s), chunks |-> SubSeq(s, 1, Least(Len(s), PROXY_BODY_CAP))]
  PROVE  TeeChunk(tee, chunk) =
           [bytes |-> Len(s \o chunk), chunks |-> SubSeq(s \o chunk, 1, Least(Len(s \o chunk), PROXY_BODY_CAP))]
<1> DEFINE t == s \o chunk
           held == Least(Len(s), PROXY_BODY_CAP)
           held2 == Least(Len(t), PROXY_BODY_CAP)
           room == PROXY_BODY_CAP - Len(tee.chunks)
           more == Least(room, Len(chunk))
<1>1. t \in Streamed /\ Len(s) \in Nat /\ Len(chunk) \in Nat /\ Len(t) = Len(s) + Len(chunk)
  <2>1. Len(s) \in Nat /\ Len(chunk) \in Nat
    BY LenProperties DEF Streamed
  <2>. QED BY <2>1, ConcatProperties DEF Streamed
<1>2. held \in Nat /\ held <= Len(s) /\ held2 \in Nat /\ held2 <= Len(t) /\ held <= held2
  <2> HIDE DEF t
  <2>. QED BY <1>1, FramesAssumption DEF Least
<1>3. SubSeq(t, 1, held) = SubSeq(s, 1, held)
  <2>1. CASE held = 0
    <3>1. SubSeq(t, 1, held) = <<>>
      <4> HIDE DEF held, t
      <4>. QED BY <2>1, SubSeqEmpty
    <3>2. SubSeq(s, 1, held) = <<>>
      <4> HIDE DEF held, t
      <4>. QED BY <2>1, SubSeqEmpty
    <3>. QED BY <3>1, <3>2
  <2>2. CASE held > 0
    <3>1. 1 \in 1 .. Len(s) /\ held \in 1 .. Len(s)
      <4> HIDE DEF held
      <4>. QED BY <1>1, <1>2, <2>2
    <3> HIDE DEF held
    <3>. QED BY <3>1, SubSeqOfConcat1 DEF Streamed
  <2>3. held = 0 \/ held > 0
    <3> HIDE DEF held
    <3>. QED BY <1>2
  <2>. QED BY <2>1, <2>2, <2>3
<1>4. Len(tee.chunks) = held /\ tee.chunks = SubSeq(s, 1, held) /\ tee.bytes = Len(s)
  <2>1. tee.chunks = SubSeq(s, 1, held) /\ tee.bytes = Len(s)
    OBVIOUS
  <2>2. Len(SubSeq(s, 0 + 1, held)) = held - 0
    <3>1. 0 <= held /\ held <= held /\ 0 \in Nat
      <4> HIDE DEF held
      <4>. QED BY <1>2
    <3> HIDE DEF held
    <3>. QED BY <1>2, <3>1, InPieces
  <2>3. 0 + 1 = 1 /\ held - 0 = held
    <3> HIDE DEF held
    <3>. QED BY <1>2
  <2> HIDE DEF held
  <2>. QED BY <2>1, <2>2, <2>3
<1>5. room = PROXY_BODY_CAP - held
  <2> HIDE DEF held
  <2>. QED BY <1>4
<1>6. TeeChunk(tee, chunk) = [bytes |-> tee.bytes + Len(chunk),
                              chunks |-> IF room <= 0 THEN tee.chunks ELSE tee.chunks \o SubSeq(chunk, 1, more)]
  BY DEF TeeChunk
<1>7. (IF room <= 0 THEN tee.chunks ELSE tee.chunks \o SubSeq(chunk, 1, more)) = SubSeq(t, 1, held2)
  <2>1. CASE room <= 0
    <3>1. held2 = held
      <4> HIDE DEF room, t
      <4>. QED BY <1>1, <1>5, <2>1, FramesAssumption DEF Least
    <3> HIDE DEF room, held, held2, t
    <3>. QED BY <1>3, <1>4, <2>1, <3>1
  <2>2. CASE ~(room <= 0)
    <3>1. held = Len(s) /\ more \in Nat /\ held2 = Len(s) + more /\ more <= Len(chunk)
      <4>1. held = Len(s)
        <5> HIDE DEF room
        <5>. QED BY <1>1, <1>5, <2>2, FramesAssumption DEF Least
      <4> HIDE DEF room, t
      <4>. QED BY <1>1, <1>5, <2>2, <4>1, FramesAssumption DEF Least
    <3> HIDE DEF room, held, held2, more
    <3>2. SubSeq(chunk, 1, more) = SubSeq(t, held + 1, held2)
      <4>1. CASE more = 0
        <5>1. SubSeq(chunk, 1, more) = <<>>
          BY <4>1, SubSeqEmpty
        <5>2. held2 < held + 1 /\ held + 1 \in Int /\ held2 \in Int
          BY <1>2, <3>1, <4>1
        <5>3. SubSeq(t, held + 1, held2) = <<>>
          BY <5>2, SubSeqEmpty
        <5>. QED BY <5>1, <5>3
      <4>2. CASE more # 0
        <5>1. held + 1 \in Len(s) + 1 .. Len(s) + Len(chunk) /\ held2 \in Len(s) + 1 .. Len(s) + Len(chunk)
          BY <1>1, <1>2, <3>1, <4>2
        <5>2. SubSeq(s \o chunk, held + 1, held2) = SubSeq(chunk, (held + 1) - Len(s), held2 - Len(s))
          BY <5>1, SubSeqOfConcat2 DEF Streamed
        <5>3. (held + 1) - Len(s) = 1 /\ held2 - Len(s) = more
          BY <1>1, <3>1
        <5>. QED BY <5>2, <5>3
      <4>. QED BY <4>1, <4>2
    <3>4. SubSeq(t, 1, held) \o SubSeq(t, held + 1, held2) = SubSeq(t, 1, held2)
      <4>1. 1 \in 1 .. Len(t) + 1 /\ held \in 1 - 1 .. Len(t) /\ held2 \in held .. Len(t)
        <5> HIDE DEF t
        <5>. QED BY <1>1, <1>2
      <4> HIDE DEF t
      <4>. QED BY <1>1, <4>1, ConcatAdjacentSubSeq DEF Streamed
    <3> HIDE DEF t
    <3>. QED BY <1>3, <1>4, <2>2, <3>2, <3>4
  <2>. QED BY <2>1, <2>2
<1>8. tee.bytes + Len(chunk) = Len(t)
  BY <1>1, <1>4
<1>. QED BY <1>6, <1>7, <1>8

\* A chunk passes: the capture and the preview are those of the longer stream.
LEMMA ChunkStep ==
  ASSUME FramesInv, ChunkPasses PROVE FramesInv'
<1>1. PICK n \in 1 .. MaxStream - Len(teed) : \E chunk \in [1 .. n -> Bytes] :
        /\ teed' = teed \o chunk
        /\ capture' = Push(capture, chunk)
        /\ bodyTee' = TeeChunk(bodyTee, chunk)
  BY DEF ChunkPasses
<1>2. PICK chunk \in [1 .. n -> Bytes] :
        /\ teed' = teed \o chunk
        /\ capture' = Push(capture, chunk)
        /\ bodyTee' = TeeChunk(bodyTee, chunk)
  BY <1>1
<1>3. chunk \in Streamed /\ teed \in Streamed
  <2>1. teed \in Streamed /\ Len(teed) \in Nat
    BY LenProperties DEF FramesInv, Streamed
  <2>2. n \in Nat
    BY <1>1, <2>1, FramesAssumption
  <2>. QED BY <1>2, <2>1, <2>2 DEF Streamed
<1>4. teed \o chunk \in Streamed
  BY <1>3, ConcatProperties DEF Streamed
<1>5. ParsedTo(Push(capture, chunk), teed \o chunk, Len(teed \o chunk))
  BY <1>3, PushParses DEF FramesInv
<1>6. TeeChunk(bodyTee, chunk) =
        [bytes |-> Len(teed \o chunk), chunks |-> SubSeq(teed \o chunk, 1, Least(Len(teed \o chunk), PROXY_BODY_CAP))]
  BY <1>3, TeeKeepsHead DEF FramesInv, HeadTeed
<1>7. ParsedTo(capture, teed, Len(teed))'
  BY <1>2, <1>5
<1>8. HeadTeed'
  BY <1>2, <1>6 DEF HeadTeed
<1>. QED BY <1>2, <1>4, <1>7, <1>8 DEF FramesInv

\* The invariant says what was to be shown.
LEMMA FramesShown ==
  ASSUME FramesInv PROVE FramesAreTheWire
<1> DEFINE m == capture.messages
           F == Frames(teed)
           p == Len(teed)
<1>1. teed \in Streamed /\ capture \in CaptureType /\ Located(capture, teed, p) /\ FrameKept(capture, teed, p) /\ HeadTeed
  BY DEF FramesInv, ParsedTo
<1>2. /\ m \in Nat /\ p \in Nat /\ capture.payloadLeft \in Nat /\ capture.captured \in Seq(Entries)
      /\ DOMAIN capture.captured = 1 .. Len(capture.captured)
  BY <1>1, LenProperties DEF CaptureType, Streamed
<1>3. ASSUME NEW k \in 0 .. p + 1 PROVE k < m <=> F[k].at + HeaderLength <= p
  <2>1. k \in Nat /\ F[k].at \in Nat /\ F[m].at \in Nat
    <3>1. k \in Nat
      BY <1>2
    <3>. QED BY <1>1, <1>2, <3>1, FramePlace
  <2>2. CASE k < m
    <3>1. m - 1 \in Nat /\ k <= m - 1 /\ m > 0
      BY <1>2, <2>1, <2>2
    <3>2. F[k].at <= F[m - 1].at /\ F[m - 1].at \in Nat
      BY <1>1, <2>1, <3>1, FramesAscend, FramePlace
    <3>3. F[m - 1].at + HeaderLength <= p
      BY <1>1, <3>1 DEF Located
    <3> HIDE DEF F, p
    <3>. QED BY <1>2, <2>1, <2>2, <3>2, <3>3, FramesAssumption
  <2>3. CASE ~(k < m)
    <3>1. m <= k
      BY <1>2, <2>1, <2>3
    <3>2. F[m].at <= F[k].at
      BY <1>1, <1>2, <2>1, <3>1, FramesAscend
    <3>3. p < F[m].at + HeaderLength
      <4>1. CASE capture.payloadLeft > 0
        <5>1. F[m].at = p + capture.payloadLeft
          BY <1>1, <4>1 DEF Located
        <5> HIDE DEF F, p
        <5>. QED BY <1>2, <2>1, <4>1, <5>1, FramesAssumption
      <4>2. CASE capture.payloadLeft = 0
        BY <1>1, <4>2 DEF Located
      <4>. QED BY <1>2, <4>1, <4>2
    <3> HIDE DEF F, p
    <3>. QED BY <1>2, <2>1, <2>3, <3>2, <3>3, FramesAssumption
  <2>. QED BY <2>2, <2>3
<1>4. \A k \in DOMAIN capture.captured : capture.captured[k] = Shown(teed, p, F[k - 1])
  BY <1>1, <1>2 DEF FrameKept
<1>5. Len(capture.captured) = Least(m, GRPC_MESSAGE_CAP)
  BY <1>1 DEF FrameKept
<1>6. /\ bodyTee.chunks = SubSeq(teed, 1, Least(p, PROXY_BODY_CAP)) /\ bodyTee.bytes = p
  BY <1>1 DEF HeadTeed
<1>7. Truncated(bodyTee) <=> p > PROXY_BODY_CAP
  <2> DEFINE held == Least(p, PROXY_BODY_CAP)
  <2>1. held \in Nat /\ held <= p /\ 0 <= held /\ held <= held /\ 0 \in Nat /\ (p > held <=> p > PROXY_BODY_CAP)
    <3> HIDE DEF p
    <3>. QED BY <1>2, FramesAssumption DEF Least
  <2>2. Len(SubSeq(teed, 0 + 1, held)) = held - 0
    <3> HIDE DEF held
    <3>. QED BY <1>1, <2>1, InPieces
  <2>3. 0 + 1 = 1 /\ held - 0 = held
    <3> HIDE DEF held
    <3>. QED BY <2>1
  <2>4. Len(bodyTee.chunks) = held
    <3> HIDE DEF held
    <3>. QED BY <1>6, <2>2, <2>3 DEF held
  <2> HIDE DEF held, p
  <2>. QED BY <1>6, <2>1, <2>4 DEF Truncated
<1>. QED BY <1>3, <1>4, <1>5, <1>6, <1>7 DEF FramesAreTheWire

\* However a stream is cut into chunks, what the record proxy keeps of its frames
\* (GrpcFrameCapture) and of its body (BodyTee) is what the stream says.
THEOREM FramesRight == FramesSpec => []FramesAreTheWire
<1>1. FramesInit => FramesInv
  BY FramesInitially
<1>2. FramesInv /\ [FramesNext]_frameVars => FramesInv'
  <2>1. SUFFICES ASSUME FramesInv, [FramesNext]_frameVars PROVE FramesInv'
    OBVIOUS
  <2>2. CASE FramesNext
    BY <2>1, <2>2, ChunkStep DEF FramesNext
  <2>3. CASE UNCHANGED frameVars
    BY <2>1, <2>3 DEF frameVars, FramesInv, HeadTeed
  <2>. QED BY <2>1, <2>2, <2>3
<1>3. FramesInv => FramesAreTheWire
  BY FramesShown
<1>. QED BY <1>1, <1>2, <1>3, PTL DEF FramesSpec
=============================================================================

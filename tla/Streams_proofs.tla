----------------------------- MODULE Streams_proofs -----------------------------
(***************************************************************************)
(* Theorems about Streams.  What its recursive functions compute is proved *)
(* by induction on sets of numbers (Induction): the induction theorems of  *)
(* the library take an operator, a set is an ordinary parameter.           *)
(***************************************************************************)
EXTENDS Streams, SequenceTheorems, WellFoundedInduction, TLAPS

-----------------------------------------------------------------------------
(* Induction *)

\* Every non-empty set of natural numbers has a least element.
LEMMA LeastNumber ==
  ASSUME NEW T, T \subseteq Nat, T # {}
  PROVE  \E n \in T : \A m \in T : n <= m
<1> DEFINE R == {p \in Nat \X Nat : p[1] < p[2]}
<1>1. IsWellFoundedOn(R, Nat)
  BY NatLessThanWellFounded, Zenon DEF OpToRel
<1>2. PICK n \in T : \A m \in T : ~(<<m, n>> \in R)
  <2> HIDE DEF R
  <2> QED BY <1>1, WFMin
<1>3. ASSUME NEW m \in T PROVE n <= m
  <2>1. ~(<<m, n>> \in R) /\ m \in Nat /\ n \in Nat
    BY <1>2
  <2>2. ~(m < n)
    BY <2>1
  <2> QED BY <2>1, <2>2
<1> QED BY <1>3

\* A set that has 0, and with every number its successor, has them all.
LEMMA Induction ==
  ASSUME NEW S, 0 \in S, \A n \in Nat : n \in S => n + 1 \in S
  PROVE  \A n \in Nat : n \in S
<1>1. SUFFICES ASSUME NEW k \in Nat, k \notin S PROVE FALSE
  OBVIOUS
<1> DEFINE T == {n \in Nat : n \notin S}
<1>2. PICK n \in T : \A m \in T : n <= m
  BY <1>1, LeastNumber
<1>3. n \in Nat /\ n # 0 /\ n - 1 \in Nat
  BY <1>2
<1>4. n - 1 \in S
  BY <1>2, <1>3
<1>5. (n - 1) + 1 \in S
  BY <1>3, <1>4
<1> QED BY <1>2, <1>3, <1>5

\* Two functions that agree at M, and at each later number if at the one before it.
SameSteps(M, N, f, g) == \A n \in M + 1 .. N : f[n - 1] = g[n - 1] => f[n] = g[n]

LEMMA SameValues ==
  ASSUME NEW M \in Nat, NEW N \in Nat, NEW f, NEW g, f[M] = g[M], SameSteps(M, N, f, g)
  PROVE  \A n \in M .. N : f[n] = g[n]
<1> DEFINE T == {n \in Nat : n \in M .. N => f[n] = g[n]}
<1>1. 0 \in T
  <2>1. 0 \in M .. N => M = 0
    OBVIOUS
  <2> QED BY <2>1
<1>2. ASSUME NEW n \in Nat, n \in T PROVE n + 1 \in T
  <2>1. SUFFICES ASSUME n + 1 \in M .. N PROVE f[n + 1] = g[n + 1]
    OBVIOUS
  <2>2. CASE n + 1 = M
    BY <2>2
  <2>3. CASE n + 1 # M
    <3>1. n + 1 \in M + 1 .. N /\ (n + 1) - 1 = n /\ n \in M .. N
      BY <2>1, <2>3
    <3>2. f[n] = g[n]
      BY <1>2, <3>1
    <3> QED BY <3>1, <3>2 DEF SameSteps
  <2> QED BY <2>2, <2>3
<1>3. \A n \in Nat : n \in T
  <2> HIDE DEF T
  <2> QED BY <1>1, <1>2, Induction
<1> QED BY <1>3

\* The functions computed up to N by recursion from a, the step given as a
\* function of the index and the last value.
Computed(A, a, N, next) ==
    {f \in [0 .. N -> A] :
        /\ f[0] = a
        /\ \A n \in 1 .. N : f[n] = next[<<n, f[n - 1]>>]}

LEMMA Recursion ==
  ASSUME NEW A, NEW a \in A, NEW N \in Nat, NEW next \in [(1 .. N) \X A -> A]
  PROVE  Computed(A, a, N, next) # {}
<1> DEFINE P(m) ==
      m <= N =>
        \E f \in [0 .. m -> A] :
           /\ f[0] = a
           /\ \A n \in 1 .. m : f[n] = next[<<n, f[n - 1]>>]
<1>1. P(0)
  <2> DEFINE f == [n \in 0 .. 0 |-> a]
  <2>1. f \in [0 .. 0 -> A] /\ f[0] = a
    OBVIOUS
  <2> HIDE DEF f
  <2>2. \A n \in 1 .. 0 : f[n] = next[<<n, f[n - 1]>>]
    OBVIOUS
  <2> QED BY <2>1, <2>2
<1>2. ASSUME NEW m \in Nat, P(m) PROVE P(m + 1)
  <2>1. SUFFICES ASSUME m + 1 <= N
        PROVE  \E f \in [0 .. m + 1 -> A] :
                  /\ f[0] = a
                  /\ \A n \in 1 .. m + 1 : f[n] = next[<<n, f[n - 1]>>]
    OBVIOUS
  <2>2. PICK f \in [0 .. m -> A] :
             /\ f[0] = a
             /\ \A n \in 1 .. m : f[n] = next[<<n, f[n - 1]>>]
    <3>1. m <= N
      BY <2>1
    <3> QED BY <1>2, <3>1
  <2> DEFINE g == [n \in 0 .. m + 1 |-> IF n <= m THEN f[n] ELSE next[<<m + 1, f[m]>>]]
  <2>3. next[<<m + 1, f[m]>>] \in A
    <3>1. m + 1 \in 1 .. N /\ f[m] \in A
      BY <2>1, <2>2
    <3> QED BY <3>1
  <2>4. g \in [0 .. m + 1 -> A]
    BY <2>2, <2>3
  <2>5. g[0] = a
    BY <2>2
  <2>6. ASSUME NEW n \in 1 .. m + 1 PROVE g[n] = next[<<n, g[n - 1]>>]
    <3>1. CASE n \in 1 .. m
      <4>1. f[n] = next[<<n, f[n - 1]>>]
        BY <2>2, <3>1
      <4>2. n \in 0 .. m + 1 /\ n - 1 \in 0 .. m + 1 /\ n <= m /\ n - 1 <= m
        BY <3>1
      <4>3. g[n] = f[n] /\ g[n - 1] = f[n - 1]
        BY <4>2
      <4> HIDE DEF g
      <4> QED BY <4>1, <4>3
    <3>2. CASE n = m + 1
      <4>1. n \in 0 .. m + 1 /\ n - 1 \in 0 .. m + 1 /\ ~(n <= m) /\ n - 1 <= m /\ n - 1 = m
        BY <3>2
      <4>2. g[n] = next[<<m + 1, f[m]>>] /\ g[n - 1] = f[m]
        BY <4>1
      <4> HIDE DEF g
      <4> QED BY <4>2, <3>2
    <3>3. n \in 1 .. m \/ n = m + 1
      OBVIOUS
    <3> QED BY <3>1, <3>2, <3>3
  <2> HIDE DEF g
  <2> QED BY <2>4, <2>5, <2>6
<1>3. P(N)
  <2> HIDE DEF P
  <2> DEFINE T == {m \in Nat : P(m)}
  <2>1. 0 \in T /\ \A m \in Nat : m \in T => m + 1 \in T
    BY <1>1, <1>2
  <2>2. \A m \in Nat : m \in T
    <3> HIDE DEF T
    <3> QED BY <2>1, Induction
  <2> QED BY <2>2
<1> QED BY <1>3 DEF Computed

-----------------------------------------------------------------------------
(* FlattenSeq *)

\* f[n] is the concatenation of the first n sequences of ss.
Joined(S, ss) ==
    {f \in [0 .. Len(ss) -> Seq(S)] :
        /\ f[0] = <<>>
        /\ \A n \in 1 .. Len(ss) : f[n] = f[n - 1] \o ss[n]}

LEMMA JoinedExists ==
  ASSUME NEW S, NEW ss \in Seq(Seq(S))
  PROVE  Joined(S, ss) # {}
<1> DEFINE N == Len(ss)
           next == [p \in (1 .. N) \X Seq(S) |-> p[2] \o ss[p[1]]]
<1>1. N \in Nat /\ \A n \in 1 .. N : ss[n] \in Seq(S)
  BY LenProperties
<1>2. <<>> \in Seq(S)
  BY EmptySeq
<1>3. next \in [(1 .. N) \X Seq(S) -> Seq(S)]
  <2>1. ASSUME NEW p \in (1 .. N) \X Seq(S) PROVE p[2] \o ss[p[1]] \in Seq(S)
    <3>1. p[2] \in Seq(S) /\ ss[p[1]] \in Seq(S)
      BY <1>1
    <3> QED BY <3>1, ConcatProperties
  <2> QED BY <2>1
<1>4. \A n \in 1 .. N, s \in Seq(S) : next[<<n, s>>] = s \o ss[n]
  OBVIOUS
<1>5. PICK f \in Computed(Seq(S), <<>>, N, next) : TRUE
  <2> HIDE DEF N, next
  <2>1. Computed(Seq(S), <<>>, N, next) # {}
    BY <1>1, <1>2, <1>3, Recursion
  <2> QED BY <2>1
<1>7. /\ f \in [0 .. N -> Seq(S)]
      /\ f[0] = <<>>
      /\ \A n \in 1 .. N : f[n] = next[<<n, f[n - 1]>>]
  <2> HIDE DEF N, next
  <2> QED BY DEF Computed
<1>6. \A n \in 1 .. N : f[n] = f[n - 1] \o ss[n]
  <2> TAKE n \in 1 .. N
  <2>1. f[n - 1] \in Seq(S)
    <3>1. n - 1 \in 0 .. N
      BY <1>1
    <3> QED BY <1>7, <3>1
  <2> HIDE DEF next
  <2> QED BY <1>4, <1>7, <2>1
<1> QED BY <1>6, <1>7 DEF Joined

LEMMA FlattenIsJoined ==
  ASSUME NEW S, NEW ss \in Seq(Seq(S)), NEW f \in Joined(S, ss)
  PROVE  FlattenSeq(ss) = f[Len(ss)] /\ FlattenSeq(ss) \in Seq(S)
<1>0. /\ Len(ss) \in Nat
      /\ \A n \in 1 .. Len(ss) : ss[n] \in Seq(S)
  BY LenProperties
<1>1. /\ f \in [0 .. Len(ss) -> Seq(S)]
      /\ f[0] = <<>>
      /\ \A n \in 1 .. Len(ss) : f[n] = f[n - 1] \o ss[n]
  BY DEF Joined
<1>2. CASE Len(ss) = 0
  <2>1. ss = <<>>
    BY <1>2, EmptySeq
  <2> QED BY <1>1, <1>2, <2>1 DEF FlattenSeq
<1>3. CASE Len(ss) # 0
  <2> DEFINE Step(g) == [i \in 1 .. Len(ss) |-> IF i = 1 THEN ss[i] ELSE g[i - 1] \o ss[i]]
             h == [i \in 1 .. Len(ss) |-> f[i]]
             flatten == CHOOSE g : g = Step(g)
  <2>1. h = Step(h)
    <3>1. ASSUME NEW i \in 1 .. Len(ss)
          PROVE  f[i] = IF i = 1 THEN ss[i] ELSE h[i - 1] \o ss[i]
      <4>1. CASE i = 1
        <5>1. f[1] = <<>> \o ss[1] /\ ss[1] \in Seq(S)
          <6>1. 1 \in 1 .. Len(ss) /\ 1 - 1 = 0
            BY <1>0, <1>3
          <6> QED BY <1>0, <1>1, <6>1
        <5>2. f[1] = ss[1]
          BY <5>1, ConcatEmptySeq
        <5> QED BY <5>2, <4>1
      <4>2. CASE i # 1
        <5>1. i - 1 \in 1 .. Len(ss)
          BY <1>0, <4>2
        <5> QED BY <1>1, <5>1, <4>2
      <4> QED BY <4>1, <4>2
    <3> QED BY <3>1
  <2>2. flatten = Step(flatten)
    <3> HIDE DEF h, Step
    <3> QED BY <2>1
  <2>3. FlattenSeq(ss) = flatten[Len(ss)]
    BY <1>3 DEF FlattenSeq
  <2> HIDE DEF flatten
  <2>4. \A i \in 1 .. Len(ss) :
           flatten[i] = IF i = 1 THEN ss[i] ELSE flatten[i - 1] \o ss[i]
    BY <2>2
  <2>5. \A i \in 1 .. Len(ss) : h[i] = IF i = 1 THEN ss[i] ELSE h[i - 1] \o ss[i]
    <3> HIDE DEF h
    <3> QED BY <2>1
  <2>6. \A i \in 1 .. Len(ss) : flatten[i] = h[i]
    <3> HIDE DEF h
    <3>1. 1 \in 1 .. Len(ss)
      BY <1>0, <1>3
    <3>2. flatten[1] = h[1]
      BY <2>4, <2>5, <3>1
    <3>3. ASSUME NEW i \in 1 + 1 .. Len(ss), flatten[i - 1] = h[i - 1]
          PROVE  flatten[i] = h[i]
      <4>1. i \in 1 .. Len(ss) /\ i # 1
        BY <1>0
      <4> QED BY <2>4, <2>5, <3>3, <4>1
    <3>4. SameSteps(1, Len(ss), flatten, h)
      BY <3>3 DEF SameSteps
    <3> QED BY <1>0, <3>2, <3>4, SameValues
  <2>7. Len(ss) \in 1 .. Len(ss) /\ Len(ss) \in 0 .. Len(ss)
    BY <1>0, <1>3
  <2>8. flatten[Len(ss)] = f[Len(ss)] /\ f[Len(ss)] \in Seq(S)
    BY <1>1, <2>6, <2>7
  <2> HIDE DEF h, Step
  <2> QED BY <2>3, <2>8
<1> QED BY <1>2, <1>3

LEMMA FlattenEmpty == FlattenSeq(<<>>) = <<>>
  BY DEF FlattenSeq

LEMMA FlattenType ==
  ASSUME NEW S, NEW ss \in Seq(Seq(S))
  PROVE  FlattenSeq(ss) \in Seq(S)
  BY JoinedExists, FlattenIsJoined

LEMMA FlattenOne ==
  ASSUME NEW s
  PROVE  FlattenSeq(<<s>>) = s
<1> DEFINE Step(g) == [i \in 1 .. Len(<<s>>) |-> IF i = 1 THEN <<s>>[i] ELSE g[i - 1] \o <<s>>[i]]
           flatten == CHOOSE g : g = Step(g)
           h == [i \in 1 .. 1 |-> s]
<1>0. Len(<<s>>) = 1 /\ <<s>>[1] = s
  OBVIOUS
<1>1. h = Step(h)
  BY <1>0
<1>2. flatten = Step(flatten)
  <2> HIDE DEF h, Step
  <2> QED BY <1>1
<1>3. FlattenSeq(<<s>>) = flatten[Len(<<s>>)]
  BY <1>0 DEF FlattenSeq
<1> HIDE DEF flatten
<1> QED BY <1>0, <1>2, <1>3

LEMMA ConcatIsAssociative ==
  \A S : \A a, b, c \in Seq(S) : a \o (b \o c) = (a \o b) \o c
<1> TAKE S
<1> TAKE a, b, c \in Seq(S)
<1>1. (a \o b) \o c = a \o (b \o c)
  BY ConcatAssociative
<1> QED BY <1>1

LEMMA ConcatAppend ==
  \A S : \A s, t \in Seq(S), e \in S : s \o (<<e>> \o t) = Append(s, e) \o t
<1> SUFFICES ASSUME NEW S, NEW s \in Seq(S), NEW t \in Seq(S), NEW e \in S
             PROVE  s \o (<<e>> \o t) = Append(s, e) \o t
  OBVIOUS
<1>1. <<e>> \in Seq(S) /\ Append(s, e) = s \o <<e>>
  BY AppendIsConcat
<1>2. s \o (<<e>> \o t) = (s \o <<e>>) \o t
  BY <1>1, ConcatAssociative
<1> QED BY <1>1, <1>2

LEMMA FlattenConcat ==
  ASSUME NEW S, NEW ss \in Seq(Seq(S)), NEW tt \in Seq(Seq(S))
  PROVE  FlattenSeq(ss \o tt) = FlattenSeq(ss) \o FlattenSeq(tt)
<1> DEFINE m == Len(ss)
           k == Len(tt)
<1>0. /\ m \in Nat /\ k \in Nat
      /\ ss \o tt \in Seq(Seq(S)) /\ Len(ss \o tt) = m + k
      /\ \A n \in 1 .. m : (ss \o tt)[n] = ss[n]
      /\ \A n \in 1 .. m + k : n > m => (ss \o tt)[n] = tt[n - m]
      /\ \A n \in 1 .. k : tt[n] \in Seq(S)
  BY ConcatProperties, LenProperties
<1>1. PICK f \in Joined(S, ss) : TRUE
  BY JoinedExists
<1>2. PICK h \in Joined(S, tt) : TRUE
  BY JoinedExists
<1>3. /\ f \in [0 .. m -> Seq(S)] /\ f[0] = <<>>
      /\ \A n \in 1 .. m : f[n] = f[n - 1] \o ss[n]
  BY DEF Joined
<1>4. /\ h \in [0 .. k -> Seq(S)] /\ h[0] = <<>>
      /\ \A n \in 1 .. k : h[n] = h[n - 1] \o tt[n]
  BY DEF Joined
<1> DEFINE g == [n \in 0 .. m + k |-> IF n <= m THEN f[n] ELSE f[m] \o h[n - m]]
<1>5. FlattenSeq(ss) = f[m] /\ FlattenSeq(tt) = h[k] /\ f[m] \in Seq(S)
  BY <1>0, <1>3, FlattenIsJoined
<1> HIDE DEF m, k
<1>6. ASSUME NEW n \in 0 .. m + k PROVE g[n] \in Seq(S)
  <2>1. CASE n <= m
    BY <1>0, <1>3, <2>1
  <2>2. CASE ~(n <= m)
    <3>1. n - m \in 0 .. k
      BY <1>0, <2>2
    <3>2. h[n - m] \in Seq(S)
      BY <1>4, <3>1
    <3>3. f[m] \o h[n - m] \in Seq(S)
      BY <1>5, <3>2, ConcatProperties, SMTT(30)
    <3> QED BY <3>3, <2>2
  <2> QED BY <2>1, <2>2
<1>7. ASSUME NEW n \in 1 .. m + k PROVE g[n] = g[n - 1] \o (ss \o tt)[n]
  <2>0. n - 1 \in 0 .. m + k
    BY <1>0
  <2>1. CASE n <= m
    <3>1. n \in 1 .. m /\ n - 1 <= m
      BY <1>0, <2>1
    <3>2. g[n] = f[n] /\ g[n - 1] = f[n - 1]
      BY <2>0, <3>1
    <3> QED BY <1>0, <1>3, <3>1, <3>2
  <2>2. CASE n > m
    <3>1. n - m \in 1 .. k /\ n - m - 1 \in 0 .. k
      BY <1>0, <2>2
    <3>6. n \in 0 .. m + k /\ ~(n <= m)
      BY <1>0, <2>2
    <3>2. g[n] = f[m] \o h[n - m]
      BY <3>6
    <3>7. (ss \o tt)[n] = tt[n - m]
      BY <1>0, <2>2
    <3>3. h[n - m] = h[n - m - 1] \o tt[n - m] /\ h[n - m - 1] \in Seq(S)
           /\ tt[n - m] \in Seq(S)
      BY <1>0, <1>4, <3>1
    <3>4. g[n - 1] = f[m] \o h[n - m - 1]
      <4>1. CASE n = m + 1
        <5>1. g[n - 1] = f[m] /\ n - m - 1 = 0
          BY <1>0, <2>0, <4>1
        <5> QED BY <1>4, <1>5, <5>1, ConcatEmptySeq
      <4>2. CASE n # m + 1
        <5>1. ~(n - 1 <= m) /\ n - 1 - m = n - m - 1
          BY <1>0, <2>2, <4>2
        <5> QED BY <2>0, <5>1
      <4> QED BY <4>1, <4>2
    <3> HIDE DEF g
    <3>5. f[m] \o (h[n - m - 1] \o tt[n - m]) = (f[m] \o h[n - m - 1]) \o tt[n - m]
      <4> DEFINE x == f[m]
                 y == h[n - m - 1]
                 z == tt[n - m]
      <4>1. x \in Seq(S) /\ y \in Seq(S) /\ z \in Seq(S)
        BY <1>5, <3>3
      <4> HIDE DEF x, y, z
      <4>2. x \o (y \o z) = (x \o y) \o z
        BY <4>1, ConcatAssociative, SMTT(30)
      <4> QED BY <4>2 DEF x, y, z
    <3> QED BY <3>2, <3>7, <3>3, <3>4, <3>5
  <2>3. n <= m \/ n > m
    BY <1>0
  <2> QED BY <2>1, <2>2, <2>3
<1>8. g \in Joined(S, ss \o tt)
  <2>1. g \in [0 .. m + k -> Seq(S)] /\ g[0] = <<>>
    BY <1>0, <1>3, <1>6
  <2> HIDE DEF g
  <2> QED BY <1>0, <1>7, <2>1 DEF Joined
<1>9. g[m + k] = f[m] \o h[k]
  <2>1. CASE k = 0
    <3>1. g[m + k] = f[m]
      BY <1>0, <2>1
    <3> QED BY <1>4, <1>5, <2>1, <3>1, ConcatEmptySeq
  <2>2. CASE k # 0
    <3>1. m + k \in 0 .. m + k /\ ~(m + k <= m) /\ (m + k) - m = k
      BY <1>0, <2>2
    <3>2. \A n \in 0 .. m + k : ~(n <= m) => g[n] = f[m] \o h[n - m]
      OBVIOUS
    <3> HIDE DEF g
    <3>3. g[m + k] = f[m] \o h[(m + k) - m]
      BY <3>1, <3>2, Zenon
    <3> QED BY <3>1, <3>3, Zenon
  <2> QED BY <2>1, <2>2
<1>10. FlattenSeq(ss \o tt) = g[m + k]
  <2> HIDE DEF g
  <2> QED BY <1>0, <1>8, FlattenIsJoined
<1> QED BY <1>5, <1>9, <1>10 DEF m, k

LEMMA FlattenAppend ==
  ASSUME NEW S, NEW ss \in Seq(Seq(S)), NEW s \in Seq(S)
  PROVE  FlattenSeq(Append(ss, s)) = FlattenSeq(ss) \o s
<1>1. Append(ss, s) = ss \o <<s>> /\ <<s>> \in Seq(Seq(S))
  BY AppendIsConcat
<1>2. FlattenSeq(ss \o <<s>>) = FlattenSeq(ss) \o FlattenSeq(<<s>>)
  BY <1>1, FlattenConcat
<1> QED BY <1>1, <1>2, FlattenOne

-----------------------------------------------------------------------------
(* Remaining lengths *)

LEMMA Arithmetic ==
  /\ \A a, b \in Nat : a * b \in Nat
  /\ \A d \in Nat : d % Base \in Nat
  /\ \A v, m, d, x \in Nat : v + m * (d + Base * x) = (v + d * m) + (m * Base) * x
<1>1. Base \in Nat \ {0}
  BY StreamsAssumption
<1>2. ASSUME NEW a \in Nat, NEW b \in Nat PROVE a * b \in Nat
  OBVIOUS
<1>3. ASSUME NEW d \in Nat PROVE d % Base \in Nat
  BY <1>1
<1>4. ASSUME NEW v \in Nat, NEW m \in Nat, NEW d \in Nat, NEW x \in Nat
      PROVE  v + m * (d + Base * x) = (v + d * m) + (m * Base) * x
  BY <1>1
<1> QED BY <1>2, <1>3, <1>4

\* r[n] is what the loop of RemainingLength has read after n digits.
Reading == [value : Nat, multiplier : Nat]
Readings(digits) ==
    {r \in [0 .. Len(digits) -> Reading] :
        /\ r[0] = [value |-> 0, multiplier |-> 1]
        /\ \A n \in 1 .. Len(digits) :
              r[n] = [value |-> r[n - 1].value + (digits[n] % Base) * r[n - 1].multiplier,
                      multiplier |-> r[n - 1].multiplier * Base]}

LEMMA ReadingsExist ==
  ASSUME NEW digits \in Seq(Nat)
  PROVE  Readings(digits) # {}
<1> DEFINE N == Len(digits)
           After(n, r) == [value |-> r.value + (digits[n] % Base) * r.multiplier,
                           multiplier |-> r.multiplier * Base]
           next == [p \in (1 .. N) \X Reading |-> After(p[1], p[2])]
           zero == [value |-> 0, multiplier |-> 1]
<1>1. N \in Nat /\ \A n \in 1 .. N : digits[n] \in Nat
  BY LenProperties
<1>2. zero \in Reading
  BY DEF Reading
<1>3. ASSUME NEW n \in 1 .. N, NEW r \in Reading PROVE After(n, r) \in Reading
  <2>1. r.value \in Nat /\ r.multiplier \in Nat /\ Base \in Nat /\ digits[n] \in Nat
    BY <1>1, StreamsAssumption DEF Reading
  <2>2. (digits[n] % Base) * r.multiplier \in Nat /\ r.multiplier * Base \in Nat
    BY <2>1, Arithmetic
  <2> QED BY <2>1, <2>2 DEF Reading
<1>4. next \in [(1 .. N) \X Reading -> Reading]
  <2> HIDE DEF After, N
  <2> QED BY <1>3
<1>5. \A n \in 1 .. N, r \in Reading : next[<<n, r>>] = After(n, r)
  <2> HIDE DEF After, N
  <2> QED OBVIOUS
<1>6. PICK r \in Computed(Reading, zero, N, next) : TRUE
  <2> HIDE DEF N, next, zero
  <2> QED BY <1>1, <1>2, <1>4, Recursion
<1>7. /\ r \in [0 .. N -> Reading]
      /\ r[0] = zero
      /\ \A n \in 1 .. N : r[n] = next[<<n, r[n - 1]>>]
  <2> HIDE DEF N, next, zero
  <2> QED BY DEF Computed
<1>8. \A n \in 1 .. N : r[n] = After(n, r[n - 1])
  <2> TAKE n \in 1 .. N
  <2>1. n - 1 \in 0 .. N
    BY <1>1
  <2>2. r[n - 1] \in Reading
    BY <1>7, <2>1
  <2> HIDE DEF N, next, After
  <2> QED BY <1>5, <1>7, <2>2
<1> QED BY <1>7, <1>8 DEF Readings

LEMMA LengthIsRead ==
  ASSUME NEW digits \in Seq(Nat), NEW r \in Readings(digits)
  PROVE  RemainingLength(digits) = r[Len(digits)].value
<1> DEFINE N == Len(digits)
           At(g, n) ==
             IF n = 0 THEN [value |-> 0, multiplier |-> 1]
             ELSE [value |-> g[n - 1].value + (digits[n] % Base) * g[n - 1].multiplier,
                   multiplier |-> g[n - 1].multiplier * Base]
           Step(g) == [n \in 0 .. N |-> At(g, n)]
           read == CHOOSE g : g = Step(g)
<1>1. N \in Nat
  BY LenProperties
<1>2. r = Step(r)
  <2>1. r \in [0 .. N -> Reading]
    BY DEF Readings
  <2>2. ASSUME NEW n \in 0 .. N PROVE r[n] = At(r, n)
    <3>1. n = 0 \/ n \in 1 .. N
      BY <1>1
    <3> QED BY <3>1 DEF Readings
  <2> HIDE DEF At
  <2> QED BY <2>1, <2>2
<1>3. read = Step(read)
  <2> HIDE DEF Step
  <2> QED BY <1>2
<1>4. RemainingLength(digits) = read[N].value
  BY DEF RemainingLength
<1>5. read[0] = r[0]
  <2> HIDE DEF read
  <2>1. 0 \in 0 .. N
    BY <1>1
  <2>2. Step(read)[0] = [value |-> 0, multiplier |-> 1]
    BY <2>1
  <2> HIDE DEF Step
  <2> QED BY <1>3, <2>2 DEF Readings
<1>6. SameSteps(0, N, read, r)
  <2> HIDE DEF read
  <2> SUFFICES ASSUME NEW n \in 0 + 1 .. N, read[n - 1] = r[n - 1]
               PROVE  read[n] = r[n]
    BY DEF SameSteps
  <2>1. n \in 0 .. N /\ n \in 1 .. N /\ n # 0
    BY <1>1
  <2>2. Step(read)[n] = [value |-> r[n - 1].value + (digits[n] % Base) * r[n - 1].multiplier,
                         multiplier |-> r[n - 1].multiplier * Base]
    BY <2>1
  <2>3. read[n] = Step(read)[n]
    <3> HIDE DEF Step
    <3> QED BY <1>3
  <2> HIDE DEF Step
  <2> QED BY <2>1, <2>2, <2>3 DEF Readings
<1>7. read[N] = r[N]
  <2> HIDE DEF read, N
  <2>1. N \in 0 .. N
    BY <1>1
  <2> QED BY <1>1, <1>5, <1>6, <2>1, SameValues
<1> QED BY <1>4, <1>7

LEMMA LengthType ==
  ASSUME NEW digits \in Seq(Nat)
  PROVE  RemainingLength(digits) \in Nat
<1>1. PICK r \in Readings(digits) : TRUE
  BY ReadingsExist
<1>2. Len(digits) \in 0 .. Len(digits)
  BY LenProperties
<1>3. r[Len(digits)] \in Reading
  BY <1>2 DEF Readings
<1> QED BY <1>3, LengthIsRead DEF Reading

\* c[n] is the number that the digits from n on write.
Countings(digits) ==
    {c \in [1 .. Len(digits) + 1 -> Nat] :
        /\ c[Len(digits) + 1] = 0
        /\ \A n \in 1 .. Len(digits) : c[n] = (digits[n] % Base) + Base * c[n + 1]}

LEMMA CountingsExist ==
  ASSUME NEW digits \in Seq(Nat)
  PROVE  Countings(digits) # {}
<1> DEFINE N == Len(digits)
           After(n, x) == (digits[N + 1 - n] % Base) + Base * x
           next == [p \in (1 .. N) \X Nat |-> After(p[1], p[2])]
<1>1. N \in Nat /\ \A n \in 1 .. N : digits[n] \in Nat
  BY LenProperties
<1>3. ASSUME NEW n \in 1 .. N, NEW x \in Nat PROVE After(n, x) \in Nat
  <2>1. digits[N + 1 - n] \in Nat /\ Base \in Nat
    BY <1>1, StreamsAssumption
  <2>2. digits[N + 1 - n] % Base \in Nat /\ Base * x \in Nat
    BY <2>1, Arithmetic
  <2> QED BY <2>2
<1>4. next \in [(1 .. N) \X Nat -> Nat]
  <2> HIDE DEF After, N
  <2> QED BY <1>3
<1>5. \A n \in 1 .. N, x \in Nat : next[<<n, x>>] = After(n, x)
  <2> HIDE DEF After, N
  <2> TAKE n \in 1 .. N, x \in Nat
  <2>1. <<n, x>> \in (1 .. N) \X Nat
    OBVIOUS
  <2> QED BY <2>1
<1>6. PICK g \in Computed(Nat, 0, N, next) : TRUE
  <2> HIDE DEF N, next
  <2>1. Computed(Nat, 0, N, next) # {}
    BY <1>1, <1>4, Recursion
  <2> QED BY <2>1
<1>7. /\ g \in [0 .. N -> Nat]
      /\ g[0] = 0
      /\ \A n \in 1 .. N : g[n] = next[<<n, g[n - 1]>>]
  <2> HIDE DEF N, next
  <2> QED BY DEF Computed
<1>8. \A n \in 1 .. N : g[n] = After(n, g[n - 1])
  <2> TAKE n \in 1 .. N
  <2>1. n - 1 \in 0 .. N
    BY <1>1
  <2>2. g[n - 1] \in Nat
    BY <1>7, <2>1
  <2> HIDE DEF N, next, After
  <2> QED BY <1>5, <1>7, <2>2
<1> DEFINE c == [n \in 1 .. N + 1 |-> g[N + 1 - n]]
<1>9. c \in [1 .. N + 1 -> Nat] /\ c[N + 1] = 0
  <2>1. N + 1 \in 1 .. N + 1 /\ (N + 1) - (N + 1) = 0
    BY <1>1
  <2>2. ASSUME NEW n \in 1 .. N + 1 PROVE g[N + 1 - n] \in Nat
    <3>1. N + 1 - n \in 0 .. N
      BY <1>1
    <3> QED BY <1>7, <3>1
  <2> QED BY <1>7, <2>1, <2>2
<1>10. ASSUME NEW n \in 1 .. N PROVE c[n] = (digits[n] % Base) + Base * c[n + 1]
  <2>1. /\ N + 1 - n \in 1 .. N /\ N + 1 - (N + 1 - n) = n
        /\ n \in 1 .. N + 1 /\ n + 1 \in 1 .. N + 1
        /\ (N + 1 - n) - 1 = N + 1 - (n + 1)
    BY <1>1
  <2>2. c[n] = g[N + 1 - n] /\ c[n + 1] = g[N + 1 - (n + 1)]
    BY <2>1
  <2>3. g[N + 1 - n] = (digits[n] % Base) + Base * g[(N + 1 - n) - 1]
    BY <1>8, <2>1
  <2> HIDE DEF N, c
  <2> QED BY <2>1, <2>2, <2>3
<1> HIDE DEF c
<1> QED BY <1>9, <1>10 DEF Countings

LEMMA NumberIsCounted ==
  ASSUME NEW digits \in Seq(Nat), NEW c \in Countings(digits)
  PROVE  Number(digits) = c[1]
<1> DEFINE N == Len(digits)
           At(g, n) == IF n > N THEN 0 ELSE (digits[n] % Base) + Base * g[n + 1]
           Step(g) == [n \in 1 .. N + 1 |-> At(g, n)]
           number == CHOOSE g : g = Step(g)
<1>1. N \in Nat
  BY LenProperties
<1>2. c = Step(c)
  <2>1. c \in [1 .. N + 1 -> Nat]
    BY DEF Countings
  <2>2. ASSUME NEW n \in 1 .. N + 1 PROVE c[n] = At(c, n)
    <3>1. CASE n = N + 1
      BY <1>1, <3>1 DEF Countings
    <3>2. CASE n # N + 1
      <4>1. n \in 1 .. N /\ ~(n > N)
        BY <1>1, <3>2
      <4> QED BY <4>1 DEF Countings
    <3> QED BY <3>1, <3>2
  <2> HIDE DEF At
  <2> QED BY <2>1, <2>2
<1>3. number = Step(number)
  <2> HIDE DEF Step
  <2> QED BY <1>2
<1>4. Number(digits) = number[1]
  BY DEF Number
<1> HIDE DEF number
<1>5. \A n \in 1 .. N + 1 : number[n] = At(number, n) /\ c[n] = At(c, n)
  <2>1. \A n \in 1 .. N + 1 : Step(number)[n] = At(number, n) /\ Step(c)[n] = At(c, n)
    <3> HIDE DEF At
    <3> QED OBVIOUS
  <2> HIDE DEF Step, At
  <2> QED BY <1>2, <1>3, <2>1
<1> DEFINE down == [i \in 0 .. N |-> number[N + 1 - i]]
           same == [i \in 0 .. N |-> c[N + 1 - i]]
<1>6. SameSteps(0, N, down, same)
  <2>1. SUFFICES ASSUME NEW i \in 0 + 1 .. N, down[i - 1] = same[i - 1]
                 PROVE  down[i] = same[i]
    BY DEF SameSteps
  <2>2. /\ i \in 0 .. N /\ i - 1 \in 0 .. N
        /\ N + 1 - i \in 1 .. N + 1 /\ ~(N + 1 - i > N)
        /\ N + 1 - (i - 1) = (N + 1 - i) + 1
    BY <1>1
  <2>3. number[(N + 1 - i) + 1] = c[(N + 1 - i) + 1]
    BY <2>1, <2>2
  <2>4. At(number, N + 1 - i) = At(c, N + 1 - i)
    BY <2>2, <2>3
  <2>5. number[N + 1 - i] = c[N + 1 - i]
    <3> HIDE DEF At, N
    <3> QED BY <1>5, <2>2, <2>4
  <2> QED BY <2>2, <2>5
<1>7. down[0] = same[0]
  <2>1. /\ 0 \in 0 .. N /\ N + 1 - 0 = N + 1
        /\ N + 1 \in 1 .. N + 1 /\ N + 1 > N
    BY <1>1
  <2>2. number[N + 1] = 0 /\ c[N + 1] = 0
    BY <1>5, <2>1
  <2> QED BY <2>1, <2>2
<1>8. down[N] = same[N]
  <2>1. N \in 0 .. N /\ 0 \in Nat
    BY <1>1
  <2> HIDE DEF down, same, N
  <2> QED BY <1>1, <1>6, <1>7, <2>1, SameValues
<1>9. N \in 0 .. N /\ N + 1 - N = 1
  BY <1>1
<1>10. down[N] = number[1] /\ same[N] = c[1]
  <2>1. down[N] = number[N + 1 - N] /\ same[N] = c[N + 1 - N]
    BY <1>9
  <2> HIDE DEF N, down, same
  <2> QED BY <1>9, <2>1
<1> HIDE DEF down, same
<1> QED BY <1>4, <1>8, <1>10

(***************************************************************************)
(* The loop of _decode_remaining_length computes the number that the       *)
(* digits write: after n digits, its value and its multiplier times the    *)
(* number that the other digits write make up the whole.                   *)
(***************************************************************************)
THEOREM LengthIsTheNumber ==
  ASSUME NEW digits \in Seq(Nat)
  PROVE  RemainingLength(digits) = Number(digits)
<1> DEFINE N == Len(digits)
<1>1. N \in Nat /\ \A n \in 1 .. N : digits[n] \in Nat
  BY LenProperties
<1>2. PICK r \in Readings(digits) : TRUE
  BY ReadingsExist
<1>3. PICK c \in Countings(digits) : TRUE
  BY CountingsExist
<1>4. /\ r \in [0 .. N -> Reading]
      /\ r[0] = [value |-> 0, multiplier |-> 1]
      /\ \A n \in 1 .. N :
            r[n] = [value |-> r[n - 1].value + (digits[n] % Base) * r[n - 1].multiplier,
                    multiplier |-> r[n - 1].multiplier * Base]
  BY DEF Readings
<1>5. /\ c \in [1 .. N + 1 -> Nat]
      /\ c[N + 1] = 0
      /\ \A n \in 1 .. N : c[n] = (digits[n] % Base) + Base * c[n + 1]
  BY DEF Countings
<1> HIDE DEF N
<1> DEFINE Whole(n) == r[n].value + r[n].multiplier * c[n + 1]
           T == {n \in Nat : n <= N => Whole(n) = c[1]}
<1>6. 0 \in T
  <2>1. r[0].value = 0 /\ r[0].multiplier = 1 /\ c[1] \in Nat
    BY <1>1, <1>4, <1>5
  <2> QED BY <2>1
<1>7. ASSUME NEW n \in Nat, n \in T PROVE n + 1 \in T
  <2>1. SUFFICES ASSUME n + 1 <= N PROVE Whole(n + 1) = c[1]
    OBVIOUS
  <2>2. Whole(n) = c[1]
    BY <1>1, <1>7, <2>1
  <2>3. n + 1 \in 1 .. N /\ (n + 1) - 1 = n /\ n \in 0 .. N /\ (n + 1) + 1 \in 1 .. N + 1
    BY <1>1, <2>1
  <2> DEFINE v == r[n].value
             m == r[n].multiplier
             d == digits[n + 1] % Base
             x == c[(n + 1) + 1]
  <2>4. v \in Nat /\ m \in Nat
    BY <1>4, <2>3 DEF Reading
  <2>5. d \in Nat /\ x \in Nat
    <3>1. digits[n + 1] \in Nat
      BY <1>1, <2>3
    <3> QED BY <1>5, <2>3, <3>1, Arithmetic
  <2>6. r[n + 1].value = v + d * m /\ r[n + 1].multiplier = m * Base
    <3>1. r[n + 1] = [value |-> r[(n + 1) - 1].value + d * r[(n + 1) - 1].multiplier,
                      multiplier |-> r[(n + 1) - 1].multiplier * Base]
      BY <1>4, <2>3
    <3> QED BY <2>3, <3>1
  <2>7. c[n + 1] = d + Base * x
    BY <1>5, <2>3
  <2>8. Whole(n) = v + m * (d + Base * x) /\ Whole(n + 1) = (v + d * m) + (m * Base) * x
    BY <2>6, <2>7
  <2> HIDE DEF v, m, d, x, Whole
  <2> QED BY <2>2, <2>4, <2>5, <2>8, Arithmetic
<1>8. Whole(N) = c[1]
  <2>1. N \in T
    <3> HIDE DEF T
    <3> QED BY <1>1, <1>6, <1>7, Induction
  <2> QED BY <1>1, <2>1
<1>9. Whole(N) = r[N].value
  <2>1. N \in 0 .. N
    BY <1>1
  <2>2. r[N].value \in Nat /\ r[N].multiplier \in Nat
    BY <1>4, <2>1 DEF Reading
  <2> QED BY <1>5, <2>2
<1>10. RemainingLength(digits) = r[N].value /\ Number(digits) = c[1]
  BY LengthIsRead, NumberIsCounted DEF N
<1> QED BY <1>8, <1>9, <1>10

-----------------------------------------------------------------------------
(* Encoding a length *)

LEMMA Division ==
  ASSUME NEW n \in Nat
  PROVE  /\ n % Base \in 0 .. Base - 1 /\ n \div Base \in Nat
         /\ n = (n % Base) + Base * (n \div Base)
         /\ n < Base => n % Base = n
         /\ ((n % Base) + Base) % Base = n % Base
         /\ n >= Base => n \div Base < n
<1>1. n % Base \in 0 .. Base - 1 /\ n \div Base \in Nat
  BY StreamsAssumption
<1>2. n = (n % Base) + Base * (n \div Base)
  BY StreamsAssumption
<1>3. n < Base => n % Base = n
  BY StreamsAssumption
<1>4. ASSUME NEW d \in 0 .. Base - 1 PROVE (d + Base) % Base = d
  BY StreamsAssumption
<1>5. n >= Base => n \div Base < n
  BY StreamsAssumption
<1> QED BY <1>1, <1>2, <1>3, <1>4, <1>5

\* One more digit in front.
LEMMA NumberOfMore ==
  ASSUME NEW d \in Nat, NEW digits \in Seq(Nat)
  PROVE  Number(<<d>> \o digits) = (d % Base) + Base * Number(digits)
<1> DEFINE N == Len(digits)
           more == <<d>> \o digits
<1>1. PICK c \in Countings(digits) : TRUE
  BY CountingsExist
<1>2. /\ c \in [1 .. N + 1 -> Nat] /\ c[N + 1] = 0
      /\ \A n \in 1 .. N : c[n] = (digits[n] % Base) + Base * c[n + 1]
  BY <1>1 DEF Countings
<1>3. Number(digits) = c[1]
  BY NumberIsCounted
<1>4. /\ N \in Nat /\ <<d>> \in Seq(Nat) /\ Len(<<d>>) = 1 /\ <<d>>[1] = d
  BY LenProperties
<1>5. /\ more \in Seq(Nat) /\ Len(more) = N + 1 /\ more[1] = d
      /\ \A n \in 2 .. N + 1 : more[n] = digits[n - 1]
  <2>1. /\ more \in Seq(Nat) /\ Len(more) = 1 + N
        /\ \A n \in 1 .. 1 + N : more[n] = IF n <= 1 THEN <<d>>[n] ELSE digits[n - 1]
    BY <1>4, ConcatProperties
  <2>2. 1 \in 1 .. 1 + N /\ \A n \in 2 .. N + 1 : n \in 1 .. 1 + N /\ ~(n <= 1)
    BY <1>4
  <2> HIDE DEF more, N
  <2> QED BY <1>4, <2>1, <2>2
<1> HIDE DEF more, N
<1> DEFINE e == [n \in 1 .. (N + 1) + 1 |-> IF n = 1 THEN (d % Base) + Base * c[1] ELSE c[n - 1]]
<1>6. (d % Base) + Base * c[1] \in Nat
  <2>1. 1 \in 1 .. N + 1 /\ Base \in Nat
    BY <1>4, StreamsAssumption
  <2>2. c[1] \in Nat
    BY <1>2, <2>1
  <2>3. d % Base \in Nat /\ Base * c[1] \in Nat
    BY <2>1, <2>2, Arithmetic
  <2> QED BY <2>3
<1>7. e \in [1 .. (N + 1) + 1 -> Nat]
  <2>1. \A n \in 1 .. (N + 1) + 1 : n # 1 => n - 1 \in 1 .. N + 1
    BY <1>4
  <2> QED BY <1>2, <1>6, <2>1
<1>8. e[1] = (d % Base) + Base * c[1] /\ \A n \in 2 .. (N + 1) + 1 : e[n] = c[n - 1]
  BY <1>4
<1> HIDE DEF e
<1>9. e[(N + 1) + 1] = 0
  <2>1. (N + 1) + 1 \in 2 .. (N + 1) + 1 /\ ((N + 1) + 1) - 1 = N + 1
    BY <1>4
  <2> QED BY <1>2, <1>8, <2>1
<1>10. ASSUME NEW n \in 1 .. N + 1 PROVE e[n] = (more[n] % Base) + Base * e[n + 1]
  <2>1. CASE n = 1
    <3>1. 1 + 1 \in 2 .. (N + 1) + 1 /\ (1 + 1) - 1 = 1
      BY <1>4
    <3>2. e[1 + 1] = c[1]
      BY <1>8, <3>1
    <3> QED BY <1>5, <1>8, <2>1, <3>2
  <2>2. CASE n # 1
    <3>1. /\ n - 1 \in 1 .. N /\ n \in 2 .. N + 1 /\ n \in 2 .. (N + 1) + 1
          /\ n + 1 \in 2 .. (N + 1) + 1 /\ (n + 1) - 1 = (n - 1) + 1
      BY <1>4, <2>2
    <3>2. e[n] = c[n - 1] /\ e[n + 1] = c[(n - 1) + 1] /\ more[n] = digits[n - 1]
      BY <1>5, <1>8, <3>1
    <3> QED BY <1>2, <3>1, <3>2
  <2> QED BY <2>1, <2>2
<1>11. e \in Countings(more)
  BY <1>5, <1>7, <1>9, <1>10 DEF Countings
<1>12. Number(more) = e[1]
  BY <1>5, <1>11, NumberIsCounted
<1> QED BY <1>3, <1>8, <1>12 DEF more

LEMMA NumberOfOne ==
  ASSUME NEW d \in Nat
  PROVE  Number(<<d>>) = d % Base
<1>1. <<>> \in Seq(Nat) /\ Len(<<>>) = 0 /\ <<d>> \in Seq(Nat) /\ <<d>> \o <<>> = <<d>>
  BY EmptySeq, ConcatEmptySeq
<1>2. PICK c \in Countings(<<>>) : TRUE
  BY <1>1, CountingsExist
<1>3. c[1] = 0
  <2>1. Len(<<>>) + 1 = 1
    BY <1>1
  <2> QED BY <2>1 DEF Countings
<1>4. Number(<<>>) = 0
  BY <1>1, <1>2, <1>3, NumberIsCounted
<1>5. Number(<<d>> \o <<>>) = (d % Base) + Base * Number(<<>>)
  BY <1>1, NumberOfMore
<1>6. d % Base \in Nat /\ Base \in Nat
  BY StreamsAssumption, Arithmetic
<1> QED BY <1>1, <1>4, <1>5, <1>6

\* What the encoder writes of n, if f is right about the digits after the first.
EncodedAt(f, n) == IF n < Base THEN <<n>> ELSE <<(n % Base) + Base>> \o f[n \div Base]

LEMMA EncodingExists ==
  ASSUME NEW N \in Nat
  PROVE  \E f : f = [n \in 0 .. N |-> EncodedAt(f, n)]
<1> DEFINE P(m) == \E f : \A n \in 0 .. m : f[n] = EncodedAt(f, n)
<1>0. Base \in Nat /\ 0 < Base
  BY StreamsAssumption
<1>1. P(0)
  <2> DEFINE f == [n \in 0 .. 0 |-> <<0>>]
  <2>1. \A n \in 0 .. 0 : n = 0 /\ f[n] = <<0>>
    OBVIOUS
  <2> HIDE DEF f
  <2>2. \A n \in 0 .. 0 : f[n] = EncodedAt(f, n)
    BY <1>0, <2>1 DEF EncodedAt
  <2> QED BY <2>2
<1>2. ASSUME NEW m \in Nat, P(m) PROVE P(m + 1)
  <2>1. PICK f : \A n \in 0 .. m : f[n] = EncodedAt(f, n)
    BY <1>2
  <2> DEFINE g == [n \in 0 .. m + 1 |-> IF n = m + 1 THEN EncodedAt(f, m + 1) ELSE f[n]]
  <2>2. g[m + 1] = EncodedAt(f, m + 1) /\ \A n \in 0 .. m : g[n] = f[n]
    <3>1. m + 1 \in 0 .. m + 1 /\ \A n \in 0 .. m : n \in 0 .. m + 1 /\ n # m + 1
      OBVIOUS
    <3> QED BY <3>1
  <2> HIDE DEF g
  <2>3. ASSUME NEW n \in 0 .. m + 1 PROVE EncodedAt(g, n) = EncodedAt(f, n)
    <3>1. CASE n < Base
      BY <3>1 DEF EncodedAt
    <3>2. CASE ~(n < Base)
      <4>1. n \div Base \in Nat /\ n \div Base < n
        BY <1>0, <3>2, Division
      <4>2. n \div Base \in 0 .. m
        BY <4>1
      <4> QED BY <2>2, <3>2, <4>2 DEF EncodedAt
    <3> QED BY <3>1, <3>2
  <2>4. ASSUME NEW n \in 0 .. m + 1 PROVE g[n] = EncodedAt(g, n)
    <3>1. n = m + 1 \/ n \in 0 .. m
      OBVIOUS
    <3> QED BY <2>1, <2>2, <2>3, <3>1
  <2> QED BY <2>4
<1> HIDE DEF P
<1> DEFINE T == {m \in Nat : P(m)}
<1>3. 0 \in T /\ \A m \in Nat : m \in T => m + 1 \in T
  BY <1>1, <1>2
<1>4. \A m \in Nat : m \in T
  <2> HIDE DEF T
  <2> QED BY <1>3, Induction
<1>5. PICK f : \A n \in 0 .. N : f[n] = EncodedAt(f, n)
  BY <1>4 DEF P
<1> DEFINE h == [n \in 0 .. N |-> f[n]]
<1>6. \A n \in 0 .. N : h[n] = f[n]
  OBVIOUS
<1>7. ASSUME NEW n \in 0 .. N PROVE f[n] = EncodedAt(h, n)
  <2> HIDE DEF h
  <2>1. CASE n < Base
    BY <1>5, <2>1 DEF EncodedAt
  <2>2. CASE ~(n < Base)
    <3>1. n \div Base \in Nat /\ n \div Base < n
      BY <1>0, <2>2, Division
    <3>2. n \div Base \in 0 .. N
      BY <3>1
    <3> QED BY <1>5, <1>6, <2>2, <3>2 DEF EncodedAt
  <2> QED BY <2>1, <2>2
<1>8. h = [n \in 0 .. N |-> EncodedAt(h, n)]
  <2>1. h = [n \in 0 .. N |-> f[n]]
    OBVIOUS
  <2> HIDE DEF h
  <2> QED BY <1>7, <2>1
<1> QED BY <1>8

LEMMA EncodingIs ==
  ASSUME NEW N \in Nat
  PROVE  \E f : EncodeRemainingLength(N) = f[N] /\ \A n \in 0 .. N : f[n] = EncodedAt(f, n)
<1> DEFINE f == CHOOSE f : f = [n \in 0 .. N |-> EncodedAt(f, n)]
<1>1. EncodeRemainingLength(N) = f[N]
  BY DEF EncodeRemainingLength, EncodedAt
<1>2. f = [n \in 0 .. N |-> EncodedAt(f, n)]
  BY EncodingExists
<1> HIDE DEF f
<1>3. \A n \in 0 .. N : f[n] = EncodedAt(f, n)
  BY <1>2
<1> QED BY <1>1, <1>3

\* Digits as they stand in a header: all but the last marked.
Marked(digits) ==
    /\ digits \in Seq(0 .. 2 * Base - 1) /\ Len(digits) \in Nat \ {0}
    /\ digits[Len(digits)] < Base
    /\ \A j \in 1 .. Len(digits) - 1 : digits[j] >= Base

LEMMA MarkedMore ==
  ASSUME NEW d \in Base .. 2 * Base - 1, NEW digits, Marked(digits)
  PROVE  Marked(<<d>> \o digits) /\ Len(<<d>> \o digits) = Len(digits) + 1
<1> DEFINE N == Len(digits)
           more == <<d>> \o digits
           S == 0 .. 2 * Base - 1
<1>1. N \in Nat \ {0} /\ Base \in Nat /\ d >= Base /\ d \in S
  BY StreamsAssumption DEF Marked
<1>2. digits \in Seq(S) /\ <<d>> \in Seq(S) /\ Len(<<d>>) = 1 /\ <<d>>[1] = d
  BY <1>1 DEF Marked
<1>3. /\ more \in Seq(S) /\ Len(more) = 1 + N
      /\ \A n \in 1 .. 1 + N : more[n] = IF n <= 1 THEN <<d>>[n] ELSE digits[n - 1]
  <2> HIDE DEF S
  <2> QED BY <1>2, ConcatProperties
<1> HIDE DEF more
<1>4. more[Len(more)] = digits[N]
  <2>1. 1 + N \in 1 .. 1 + N /\ ~(1 + N <= 1) /\ (1 + N) - 1 = N
    BY <1>1
  <2> QED BY <1>3, <2>1
<1>5. ASSUME NEW j \in 1 .. Len(more) - 1 PROVE more[j] >= Base
  <2>1. CASE j = 1
    <3>1. 1 \in 1 .. 1 + N /\ 1 <= 1
      BY <1>1
    <3>2. more[1] = d
      BY <1>2, <1>3, <3>1
    <3> QED BY <1>1, <2>1, <3>2
  <2>2. CASE j # 1
    <3>1. j \in 1 .. 1 + N /\ ~(j <= 1) /\ j - 1 \in 1 .. N - 1
      BY <1>1, <1>3, <2>2
    <3>2. more[j] = digits[j - 1] /\ digits[j - 1] >= Base
      BY <1>3, <3>1 DEF Marked
    <3> QED BY <3>2
  <2> QED BY <2>1, <2>2
<1>6. Len(more) = N + 1 /\ Len(more) \in Nat \ {0} /\ digits[N] < Base
  BY <1>1, <1>3 DEF Marked
<1>7. Marked(more)
  BY <1>3, <1>4, <1>5, <1>6 DEF Marked
<1> QED BY <1>6, <1>7 DEF more

\* f is the encoding of the lengths up to N.
Encodes(N, f) == \A n \in 0 .. N : f[n] = EncodedAt(f, n)

LEMMA EncodedWell ==
  ASSUME NEW length \in Nat, NEW f, Encodes(length, f)
  PROVE  \A n \in 0 .. length : Marked(f[n]) /\ Number(f[n]) = n
<1> DEFINE Good(n) == Marked(f[n]) /\ Number(f[n]) = n
           T == {m \in Nat : \A n \in 0 .. length : n < m => Good(n)}
<1>0. Base \in Nat /\ Base > 1
  BY StreamsAssumption
<1>2. 0 \in T
  <2>1. \A n \in 0 .. length : ~(n < 0)
    OBVIOUS
  <2> HIDE DEF Good
  <2> QED BY <2>1
<1>3. ASSUME NEW m \in Nat, m \in T PROVE m + 1 \in T
  <2>1. SUFFICES ASSUME NEW n \in 0 .. length, n < m + 1 PROVE Good(n)
    <3> HIDE DEF Good
    <3> QED OBVIOUS
  <2>2. f[n] = EncodedAt(f, n) /\ n \in Nat
    BY DEF Encodes
  <2>3. CASE n < Base
    <3>1. f[n] = <<n>>
      BY <2>2, <2>3 DEF EncodedAt
    <3>2. n \in 0 .. 2 * Base - 1
      BY <1>0, <2>2, <2>3
    <3>3. /\ <<n>> \in Seq(0 .. 2 * Base - 1) /\ Len(<<n>>) = 1 /\ <<n>>[1] = n
          /\ \A j \in 1 .. 1 - 1 : <<n>>[j] >= Base
      BY <3>2
    <3>4. Marked(<<n>>)
      BY <2>3, <3>3 DEF Marked
    <3>5. Number(<<n>>) = n
      BY <2>2, <2>3, NumberOfOne, Division
    <3> QED BY <3>1, <3>4, <3>5
  <2>4. CASE ~(n < Base)
    <3> DEFINE d == (n % Base) + Base
               q == n \div Base
    <3>1. /\ n % Base \in 0 .. Base - 1 /\ q \in Nat /\ n = (n % Base) + Base * q
          /\ d % Base = n % Base /\ q < n
      <4>1. n >= Base
        BY <1>0, <2>2, <2>4
      <4> QED BY <2>2, <4>1, Division, Zenon
    <3>2. f[n] = <<d>> \o f[q]
      BY <2>2, <2>4 DEF EncodedAt
    <3>3. d \in Base .. 2 * Base - 1 /\ d \in Nat
      BY <1>0, <3>1
    <3>4. q \in 0 .. length /\ q < m
      BY <2>1, <2>2, <3>1
    <3>5. Good(q)
      <4> HIDE DEF Good, q
      <4> QED BY <1>3, <3>4
    <3> HIDE DEF d, q
    <3>6. Marked(<<d>> \o f[q])
      BY <3>3, <3>5, MarkedMore
    <3>7. f[q] \in Seq(Nat)
      <4>1. \A b \in 0 .. 2 * Base - 1 : b \in Nat
        BY <1>0
      <4>2. f[q] \in Seq(0 .. 2 * Base - 1)
        BY <3>5 DEF Marked
      <4> QED BY <4>1, <4>2, SeqMonotonic
    <3>8. Number(<<d>> \o f[q]) = n
      BY <3>1, <3>3, <3>5, <3>7, NumberOfMore
    <3> QED BY <3>2, <3>6, <3>8
  <2> QED BY <2>3, <2>4
<1>4. \A m \in Nat : m \in T
  <2> HIDE DEF T
  <2> QED BY <1>2, <1>3, Induction
<1>5. ASSUME NEW n \in 0 .. length PROVE Good(n)
  <2>1. n + 1 \in T /\ n < n + 1
    BY <1>4
  <2> HIDE DEF Good
  <2> QED BY <2>1
<1> QED BY <1>5

(***************************************************************************)
(* encode_remaining_length writes digits of which only the last has no     *)
(* mark, and which write the length it was given.                          *)
(***************************************************************************)
THEOREM EncodedIsTheLength ==
  ASSUME NEW length \in Nat
  PROVE  /\ Marked(EncodeRemainingLength(length))
         /\ Number(EncodeRemainingLength(length)) = length
<1>1. PICK f : EncodeRemainingLength(length) = f[length] /\ Encodes(length, f)
  BY EncodingIs DEF Encodes
<1>2. length \in 0 .. length
  OBVIOUS
<1> QED BY <1>1, <1>2, EncodedWell

\* The powers of the base, and the first number that takes another digit.
Powers == {p \in [0 .. MaxDigits -> Nat] :
              /\ p[0] = 1
              /\ \A k \in 1 .. MaxDigits : p[k] = Base * p[k - 1]}

LEMMA PowersExist == Powers # {}
<1> DEFINE next == [p \in (1 .. MaxDigits) \X Nat |-> Base * p[2]]
<1>1. MaxDigits \in Nat /\ Base \in Nat
  BY StreamsAssumption
<1>2. next \in [(1 .. MaxDigits) \X Nat -> Nat]
  BY <1>1, Arithmetic
<1>3. \A k \in 1 .. MaxDigits, x \in Nat : next[<<k, x>>] = Base * x
  OBVIOUS
<1> HIDE DEF next
<1>4. PICK p \in Computed(Nat, 1, MaxDigits, next) : TRUE
  <2>1. Computed(Nat, 1, MaxDigits, next) # {}
    BY <1>1, <1>2, Recursion
  <2> QED BY <2>1
<1>5. p \in [0 .. MaxDigits -> Nat] /\ p[0] = 1
  BY DEF Computed
<1>6. ASSUME NEW k \in 1 .. MaxDigits PROVE p[k] = Base * p[k - 1]
  <2>1. k - 1 \in 0 .. MaxDigits
    BY <1>1
  <2>2. p[k] = next[<<k, p[k - 1]>>] /\ p[k - 1] \in Nat
    BY <1>5, <2>1 DEF Computed
  <2> QED BY <1>3, <2>2
<1> QED BY <1>5, <1>6 DEF Powers

LEMMA LimitIsPower ==
  ASSUME NEW p \in Powers
  PROVE  LengthLimit = p[MaxDigits] - 1
<1> DEFINE At(g, k) == IF k = 0 THEN 1 ELSE Base * g[k - 1]
           Step(g) == [k \in 0 .. MaxDigits |-> At(g, k)]
           power == CHOOSE g : g = Step(g)
<1>1. MaxDigits \in Nat
  BY StreamsAssumption
<1>2. p = Step(p)
  <2>1. p \in [0 .. MaxDigits -> Nat]
    BY DEF Powers
  <2>2. ASSUME NEW k \in 0 .. MaxDigits PROVE p[k] = At(p, k)
    <3>1. k = 0 \/ k \in 1 .. MaxDigits
      BY <1>1
    <3>2. k = 0 => k \notin 1 .. MaxDigits
      OBVIOUS
    <3> QED BY <3>1, <3>2 DEF Powers
  <2> HIDE DEF At
  <2> QED BY <2>1, <2>2
<1>3. power = Step(power)
  <2> HIDE DEF Step
  <2> QED BY <1>2
<1>4. LengthLimit = power[MaxDigits] - 1
  BY DEF LengthLimit
<1> HIDE DEF power
<1>5. \A k \in 0 .. MaxDigits : power[k] = At(power, k)
  <2>1. \A k \in 0 .. MaxDigits : Step(power)[k] = At(power, k)
    <3> HIDE DEF At
    <3> QED OBVIOUS
  <2> HIDE DEF Step, At
  <2> QED BY <1>3, <2>1
<1>6. power[0] = p[0]
  <2>1. 0 \in 0 .. MaxDigits
    BY <1>1
  <2> QED BY <1>5, <2>1 DEF Powers
<1>7. SameSteps(0, MaxDigits, power, p)
  <2> SUFFICES ASSUME NEW k \in 0 + 1 .. MaxDigits, power[k - 1] = p[k - 1]
               PROVE  power[k] = p[k]
    BY DEF SameSteps
  <2>1. k \in 0 .. MaxDigits /\ k \in 1 .. MaxDigits /\ k # 0
    BY <1>1
  <2> QED BY <1>5, <2>1 DEF Powers
<1>8. MaxDigits \in 0 .. MaxDigits
  BY <1>1
<1>9. power[MaxDigits] = p[MaxDigits]
  BY <1>1, <1>6, <1>7, <1>8, SameValues
<1> QED BY <1>4, <1>9

\* No length that is not refused takes more digits than a header may have.
LEMMA DigitsSuffice ==
  ASSUME NEW length \in Nat, length <= LengthLimit
  PROVE  Len(EncodeRemainingLength(length)) <= MaxDigits
<1>1. PICK f : EncodeRemainingLength(length) = f[length] /\ Encodes(length, f)
  BY EncodingIs DEF Encodes
<1>2. PICK p \in Powers : TRUE
  BY PowersExist
<1>3. /\ p \in [0 .. MaxDigits -> Nat] /\ p[0] = 1
      /\ \A k \in 1 .. MaxDigits : p[k] = Base * p[k - 1]
  BY DEF Powers
<1>0. Base \in Nat /\ 0 < Base /\ MaxDigits \in Nat /\ MaxDigits # 0
  BY StreamsAssumption
<1>4. \A n \in 0 .. length : Marked(f[n])
  BY <1>1, EncodedWell
<1> DEFINE Short(k) == k \in 1 .. MaxDigits => \A n \in 0 .. length : n < p[k] => Len(f[n]) <= k
           T == {k \in Nat : Short(k)}
<1>5. 0 \in T
  OBVIOUS
<1>6. ASSUME NEW k \in Nat, k \in T PROVE k + 1 \in T
  <2>1. SUFFICES ASSUME k + 1 \in 1 .. MaxDigits, NEW n \in 0 .. length, n < p[k + 1]
                 PROVE  Len(f[n]) <= k + 1
    OBVIOUS
  <2>2. f[n] = EncodedAt(f, n) /\ n \in Nat
    BY <1>1 DEF Encodes
  <2>3. CASE n < Base
    <3>1. f[n] = <<n>>
      BY <2>2, <2>3 DEF EncodedAt
    <3>2. Len(f[n]) = 1
      BY <3>1
    <3> QED BY <3>2
  <2>4. CASE ~(n < Base)
    <3> DEFINE d == (n % Base) + Base
               q == n \div Base
               x == p[k]
    <3>1. n >= Base
      BY <1>0, <2>2, <2>4
    <3>2. n % Base \in 0 .. Base - 1 /\ q \in Nat /\ n = (n % Base) + Base * q /\ q < n
      BY <2>2, <3>1, Division, Zenon
    <3>3. p[k + 1] = Base * x /\ x \in Nat
      <4>1. (k + 1) - 1 = k /\ k \in 0 .. MaxDigits
        BY <1>0, <2>1
      <4> QED BY <1>3, <2>1, <4>1
    <3>4. f[n] = <<d>> \o f[q]
      BY <2>2, <2>4 DEF EncodedAt
    <3>5. d \in Base .. 2 * Base - 1
      BY <1>0, <3>2
    <3>6. q \in 0 .. length
      BY <2>2, <3>2
    <3> HIDE DEF d, q, x
    <3>7. q < x
      <4>1. Base * q < Base * x
        BY <1>0, <2>1, <2>2, <3>2, <3>3
      <4>2. ASSUME q >= x PROVE FALSE
        <5>1. Base * x <= Base * q
          BY <1>0, <3>2, <3>3, <4>2
        <5>2. Base * x \in Nat /\ Base * q \in Nat
          BY <1>0, <3>2, <3>3
        <5> QED BY <4>1, <5>1, <5>2
      <4> QED BY <3>2, <3>3, <4>2
    <3>8. k # 0
      <4>1. k = 0 => x = 1
        BY <1>3 DEF x
      <4>2. k = 0 => p[k + 1] = Base
        BY <1>0, <3>3, <4>1
      <4> QED BY <2>1, <2>4, <4>2
    <3>9. k \in 1 .. MaxDigits
      BY <1>0, <2>1, <3>8
    <3>10. Len(f[q]) <= k
      BY <1>6, <3>6, <3>7, <3>9 DEF x
    <3>11. Len(<<d>> \o f[q]) = Len(f[q]) + 1 /\ Len(f[q]) \in Nat
      BY <1>4, <3>5, <3>6, MarkedMore DEF Marked
    <3> QED BY <3>4, <3>10, <3>11
  <2> QED BY <2>3, <2>4
<1>7. \A k \in Nat : k \in T
  <2> HIDE DEF T
  <2> QED BY <1>5, <1>6, Induction
<1>8. /\ MaxDigits \in T /\ MaxDigits \in 1 .. MaxDigits /\ MaxDigits \in 0 .. MaxDigits
      /\ length \in 0 .. length
  BY <1>0, <1>7
<1>9. length < p[MaxDigits]
  <2>1. p[MaxDigits] \in Nat /\ LengthLimit = p[MaxDigits] - 1
    BY <1>3, <1>8, LimitIsPower
  <2> QED BY <2>1
<1> QED BY <1>1, <1>8, <1>9

-----------------------------------------------------------------------------
(* Headers and packets *)

LEMMA BytesOf ==
  ASSUME NEW b \in ByteString
  PROVE  /\ Len(b) \in Nat
         /\ \A i \in 1 .. Len(b) : b[i] \in Bytes /\ b[i] \in Nat
<1>1. Len(b) \in Nat /\ \A i \in 1 .. Len(b) : b[i] \in Bytes
  BY LenProperties DEF ByteString
<1>2. Bytes \subseteq Nat
  BY StreamsAssumption
<1> QED BY <1>1, <1>2

LEMMA DigitsType ==
  ASSUME NEW b \in ByteString, NEW at \in Nat, NEW k \in DigitCount(b, at)
  PROVE  /\ k \in 1 .. MaxDigits /\ at + k <= Len(b)
         /\ Digits(b, at, k) \in Seq(Nat)
         /\ RemainingLength(Digits(b, at, k)) \in Nat
<1>1. k \in 1 .. MaxDigits /\ at + k <= Len(b) /\ MaxDigits \in Nat
  BY StreamsAssumption DEF DigitCount
<1>2. ASSUME NEW i \in at + 1 .. at + k PROVE b[i] \in Nat
  <2>1. i \in 1 .. Len(b)
    BY <1>1, BytesOf
  <2> QED BY <2>1, BytesOf
<1>3. at + 1 \in Int /\ at + k \in Int
  BY <1>1
<1>4. Digits(b, at, k) \in Seq(Nat)
  BY <1>2, <1>3, SubSeqProperties DEF Digits
<1> QED BY <1>1, <1>4, LengthType

\* Only one length can be read at an offset.
LEMMA OneCount ==
  ASSUME NEW b, NEW at \in Nat, NEW k \in DigitCount(b, at), NEW l \in DigitCount(b, at),
         b \in ByteString
  PROVE  k = l
<1>1. /\ k \in 1 .. MaxDigits /\ at + k <= Len(b) /\ b[at + k] < Base
      /\ \A j \in 1 .. k - 1 : b[at + j] >= Base
      /\ l \in 1 .. MaxDigits /\ at + l <= Len(b) /\ b[at + l] < Base
      /\ \A j \in 1 .. l - 1 : b[at + j] >= Base
      /\ MaxDigits \in Nat /\ Base \in Nat
  BY StreamsAssumption DEF DigitCount
<1>2. b[at + k] \in Nat /\ b[at + l] \in Nat
  <2>1. at + k \in 1 .. Len(b) /\ at + l \in 1 .. Len(b)
    BY <1>1, BytesOf
  <2> QED BY <2>1, BytesOf
<1>3. ~(k < l)
  <2> SUFFICES ASSUME k < l PROVE FALSE
    OBVIOUS
  <2>1. k \in 1 .. l - 1
    BY <1>1
  <2>2. b[at + k] >= Base /\ b[at + k] < Base
    BY <1>1, <2>1
  <2> QED BY <1>1, <1>2, <2>2
<1>4. ~(l < k)
  <2> SUFFICES ASSUME l < k PROVE FALSE
    OBVIOUS
  <2>1. l \in 1 .. k - 1
    BY <1>1
  <2>2. b[at + l] >= Base /\ b[at + l] < Base
    BY <1>1, <2>1
  <2> QED BY <1>1, <1>2, <2>2
<1> QED BY <1>1, <1>3, <1>4

LEMMA OneEnd ==
  ASSUME NEW b \in ByteString, NEW at \in Nat,
         NEW e \in PacketEnd(b, at), NEW f \in PacketEnd(b, at)
  PROVE  e = f
<1>1. PICK k \in DigitCount(b, at + 1) : e = at + 1 + k + RemainingLength(Digits(b, at + 1, k))
  BY DEF PacketEnd
<1>2. PICK l \in DigitCount(b, at + 1) : f = at + 1 + l + RemainingLength(Digits(b, at + 1, l))
  BY DEF PacketEnd
<1>3. k = l
  <2>1. at + 1 \in Nat
    OBVIOUS
  <2> QED BY <2>1, OneCount
<1> QED BY <1>1, <1>2, <1>3

\* IsPacket in the terms of the scan.
LEMMA PacketByScan ==
  ASSUME NEW s \in ByteString
  PROVE  IsPacket(s) <=> \E k \in DigitCount(s, 1) :
                            Len(s) = 1 + k + RemainingLength(Digits(s, 1, k))
<1>0. Len(s) \in Nat /\ MaxDigits \in Nat
  BY BytesOf, StreamsAssumption
<1>1. ASSUME NEW k \in 1 .. MaxDigits
      PROVE  /\ 1 + k = k + 1 /\ 1 + 1 = 2
             /\ (\A j \in 2 .. k : s[j] >= Base) <=> (\A j \in 1 .. k - 1 : s[1 + j] >= Base)
  <2>1. ASSUME NEW j \in 2 .. k PROVE j - 1 \in 1 .. k - 1 /\ 1 + (j - 1) = j
    BY <1>0
  <2>2. ASSUME NEW j \in 1 .. k - 1 PROVE 1 + j \in 2 .. k
    BY <1>0
  <2>3. ASSUME \A j \in 2 .. k : s[j] >= Base
        PROVE  \A j \in 1 .. k - 1 : s[1 + j] >= Base
    BY <2>2, <2>3
  <2>4. ASSUME \A j \in 1 .. k - 1 : s[1 + j] >= Base, NEW j \in 2 .. k
        PROVE  s[j] >= Base
    <3>1. s[1 + (j - 1)] >= Base
      BY <2>1, <2>4
    <3> QED BY <2>1, <3>1
  <2> QED BY <1>0, <2>3, <2>4
<1>2. ASSUME NEW k \in 1 .. MaxDigits
      PROVE  k \in DigitCount(s, 1) <=>
               /\ k + 1 <= Len(s) /\ s[k + 1] < Base
               /\ \A j \in 2 .. k : s[j] >= Base
  BY <1>1 DEF DigitCount
<1>3. ASSUME NEW k \in DigitCount(s, 1)
      PROVE  /\ k \in 1 .. MaxDigits
             /\ Number(SubSeq(s, 2, k + 1)) = RemainingLength(Digits(s, 1, k))
  <2>1. k \in 1 .. MaxDigits /\ Digits(s, 1, k) \in Seq(Nat)
    BY DigitsType
  <2>2. Digits(s, 1, k) = SubSeq(s, 2, k + 1)
    BY <1>1, <2>1 DEF Digits
  <2> QED BY <2>1, <2>2, LengthIsTheNumber
<1>4. ASSUME IsPacket(s)
      PROVE  \E k \in DigitCount(s, 1) : Len(s) = 1 + k + RemainingLength(Digits(s, 1, k))
  <2>1. PICK k \in 1 .. MaxDigits :
             /\ k + 1 <= Len(s) /\ s[k + 1] < Base
             /\ \A j \in 2 .. k : s[j] >= Base
             /\ Len(s) = 1 + k + Number(SubSeq(s, 2, k + 1))
    BY <1>4 DEF IsPacket
  <2>2. k \in DigitCount(s, 1)
    BY <1>2, <2>1
  <2> QED BY <1>3, <2>1, <2>2
<1>5. ASSUME NEW k \in DigitCount(s, 1), Len(s) = 1 + k + RemainingLength(Digits(s, 1, k))
      PROVE  IsPacket(s)
  <2>1. /\ k \in 1 .. MaxDigits
        /\ Number(SubSeq(s, 2, k + 1)) = RemainingLength(Digits(s, 1, k))
    BY <1>3
  <2>2. k + 1 <= Len(s) /\ s[k + 1] < Base /\ \A j \in 2 .. k : s[j] >= Base
    BY <1>2, <2>1
  <2> QED BY <1>5, <2>1, <2>2 DEF IsPacket
<1> QED BY <1>4, <1>5

\* The header of a part of b is the one in b.
LEMMA PartHeader ==
  ASSUME NEW b \in ByteString, NEW at \in 0 .. Len(b), NEW e \in at + 1 .. Len(b)
  PROVE  LET s == SubSeq(b, at + 1, e)
         IN  /\ s \in ByteString /\ Len(s) = e - at /\ s[1] = b[at + 1]
             /\ \A k : k \in DigitCount(s, 1) <=> k \in DigitCount(b, at + 1) /\ at + 1 + k <= e
             /\ \A k \in DigitCount(s, 1) : Digits(s, 1, k) = Digits(b, at + 1, k)
             /\ e = Len(b) => (TooManyDigits(s, 1) <=> TooManyDigits(b, at + 1))
<1> DEFINE s == SubSeq(b, at + 1, e)
<1>0. /\ Len(b) \in Nat /\ at \in Nat /\ e \in Nat /\ at + 1 <= e /\ e <= Len(b)
      /\ MaxDigits \in Nat \ {0}
  BY BytesOf, StreamsAssumption
<1>1. s \in ByteString /\ Len(s) = e - at /\ \A i \in 1 .. e - at : s[i] = b[at + i]
  <2>1. ASSUME NEW i \in at + 1 .. e PROVE b[i] \in Bytes
    <3>1. i \in 1 .. Len(b)
      BY <1>0
    <3> QED BY <3>1, BytesOf
  <2>2. at + 1 \in Int /\ e \in Int /\ at + 1 <= e /\ e - (at + 1) + 1 = e - at
    BY <1>0
  <2>3. /\ s \in Seq(Bytes)
        /\ Len(s) = IF at + 1 <= e THEN e - (at + 1) + 1 ELSE 0
        /\ \A i \in 1 .. e - (at + 1) + 1 : s[i] = b[(at + 1) + i - 1]
    BY <2>1, <2>2, SubSeqProperties
  <2>4. \A i \in 1 .. e - at : (at + 1) + i - 1 = at + i
    BY <1>0
  <2> HIDE DEF s
  <2> QED BY <2>2, <2>3, <2>4 DEF ByteString
<1>2. 1 \in 1 .. e - at
  BY <1>0
<1>3. ASSUME NEW k \in 1 .. MaxDigits, at + 1 + k <= e
      PROVE  Digits(s, 1, k) = Digits(b, at + 1, k)
  <2>1. /\ at + 1 \in 1 .. Len(b) /\ e \in 1 .. Len(b)
        /\ 1 + 1 \in 1 .. e - (at + 1) + 1 /\ 1 + k \in 1 .. e - (at + 1) + 1
    BY <1>0, <1>3
  <2>2. SubSeq(s, 1 + 1, 1 + k) = SubSeq(b, (at + 1) + (1 + 1) - 1, (at + 1) + (1 + k) - 1)
    BY <2>1, SubSeqOfSubSeq DEF ByteString
  <2>3. (at + 1) + (1 + 1) - 1 = (at + 1) + 1 /\ (at + 1) + (1 + k) - 1 = (at + 1) + k
    BY <1>0
  <2> HIDE DEF s
  <2> QED BY <2>2, <2>3 DEF Digits
<1> HIDE DEF s
<1>4. ASSUME NEW k \in 1 .. MaxDigits, at + 1 + k <= e, NEW j \in 1 .. k
      PROVE  s[1 + j] = b[(at + 1) + j]
  <2>1. 1 + j \in 1 .. e - at /\ at + (1 + j) = (at + 1) + j
    BY <1>0, <1>4
  <2> QED BY <1>1, <2>1
<1>5. ASSUME NEW k
      PROVE  k \in DigitCount(s, 1) <=> k \in DigitCount(b, at + 1) /\ at + 1 + k <= e
  <2>1. ASSUME NEW n \in 1 .. MaxDigits
        PROVE  /\ 1 + n <= Len(s) <=> at + 1 + n <= e
               /\ at + 1 + n <= e => (at + 1) + n <= Len(b)
               /\ n \in 1 .. n /\ \A j \in 1 .. n - 1 : j \in 1 .. n
    BY <1>0, <1>1
  <2>2. ASSUME NEW n \in 1 .. MaxDigits, at + 1 + n <= e
        PROVE  /\ s[1 + n] = b[(at + 1) + n]
               /\ \A j \in 1 .. n - 1 : s[1 + j] = b[(at + 1) + j]
    BY <1>4, <2>1, <2>2
  <2>3. ASSUME NEW n \in 1 .. MaxDigits, at + 1 + n <= e
        PROVE  n \in DigitCount(s, 1) <=> n \in DigitCount(b, at + 1)
    BY <2>1, <2>2, <2>3 DEF DigitCount
  <2>4. ASSUME k \in DigitCount(s, 1) PROVE k \in 1 .. MaxDigits /\ at + 1 + k <= e
    BY <2>1, <2>4 DEF DigitCount
  <2>5. ASSUME k \in DigitCount(b, at + 1) PROVE k \in 1 .. MaxDigits
    BY <2>5 DEF DigitCount
  <2> QED BY <2>3, <2>4, <2>5
<1>6. ASSUME NEW k \in DigitCount(s, 1) PROVE Digits(s, 1, k) = Digits(b, at + 1, k)
  <2>1. k \in 1 .. MaxDigits /\ at + 1 + k <= e
    BY <1>5 DEF DigitCount
  <2> QED BY <1>3, <2>1
<1>7. ASSUME e = Len(b) PROVE TooManyDigits(s, 1) <=> TooManyDigits(b, at + 1)
  <2>1. 1 + MaxDigits <= Len(s) <=> (at + 1) + MaxDigits <= Len(b)
    BY <1>0, <1>1, <1>7
  <2>2. ASSUME (at + 1) + MaxDigits <= Len(b), NEW j \in 1 .. MaxDigits
        PROVE  s[1 + j] = b[(at + 1) + j]
    <3>1. MaxDigits \in 1 .. MaxDigits /\ at + 1 + MaxDigits <= e
      BY <1>0, <1>7, <2>2
    <3> QED BY <1>4, <3>1
  <2> QED BY <2>1, <2>2 DEF TooManyDigits
<1> QED BY <1>1, <1>2, <1>5, <1>6, <1>7 DEF s

\* A part of b is a packet where PacketEnd says so, and only there.
LEMMA PacketEnds ==
  ASSUME NEW b \in ByteString, NEW at \in 0 .. Len(b), NEW e \in at + 1 .. Len(b)
  PROVE  IsPacket(SubSeq(b, at + 1, e)) <=> e \in PacketEnd(b, at)
<1> DEFINE s == SubSeq(b, at + 1, e)
<1>0. Len(b) \in Nat /\ at \in Nat /\ at + 1 \in Nat /\ e \in Nat /\ at + 1 <= e /\ e <= Len(b)
  BY BytesOf
<1>1. /\ s \in ByteString /\ Len(s) = e - at
      /\ \A k : k \in DigitCount(s, 1) <=> k \in DigitCount(b, at + 1) /\ at + 1 + k <= e
      /\ \A k \in DigitCount(s, 1) : Digits(s, 1, k) = Digits(b, at + 1, k)
  BY PartHeader
<1> HIDE DEF s
<1>2. ASSUME NEW k \in DigitCount(b, at + 1)
      PROVE  k \in 1 .. MaxDigits /\ k \in Nat /\ k # 0 /\ RemainingLength(Digits(b, at + 1, k)) \in Nat
  BY <1>0, StreamsAssumption, DigitsType
<1>3. ASSUME IsPacket(s) PROVE e \in PacketEnd(b, at)
  <2>1. PICK k \in DigitCount(s, 1) : Len(s) = 1 + k + RemainingLength(Digits(s, 1, k))
    BY <1>1, <1>3, PacketByScan
  <2>2. k \in DigitCount(b, at + 1) /\ Digits(s, 1, k) = Digits(b, at + 1, k)
    BY <1>1, <2>1
  <2>3. e - at = 1 + k + RemainingLength(Digits(b, at + 1, k))
    BY <1>1, <2>1, <2>2
  <2>4. e = at + 1 + k + RemainingLength(Digits(b, at + 1, k)) /\ e \in at + 2 .. Len(b)
    BY <1>0, <1>2, <2>2, <2>3
  <2> QED BY <2>2, <2>4 DEF PacketEnd
<1>4. ASSUME e \in PacketEnd(b, at) PROVE IsPacket(s)
  <2>1. PICK k \in DigitCount(b, at + 1) :
             e = at + 1 + k + RemainingLength(Digits(b, at + 1, k))
    BY <1>4 DEF PacketEnd
  <2>2. at + 1 + k <= e
    BY <1>0, <1>2, <2>1
  <2>3. k \in DigitCount(s, 1) /\ Digits(s, 1, k) = Digits(b, at + 1, k)
    BY <1>1, <2>1, <2>2
  <2>4. Len(s) = 1 + k + RemainingLength(Digits(s, 1, k))
    BY <1>0, <1>1, <1>2, <2>1, <2>3
  <2> QED BY <1>1, <2>3, <2>4, PacketByScan
<1> QED BY <1>3, <1>4 DEF s

\* So is the verdict on it: of a whole packet's, and of what is left at the end.
LEMMA PacketHeader ==
  ASSUME NEW b \in ByteString, NEW at \in 0 .. Len(b), NEW e \in PacketEnd(b, at)
  PROVE  /\ HeaderRejected(SubSeq(b, at + 1, e), 0) <=> HeaderRejected(b, at)
         /\ BodyRejected(SubSeq(b, at + 1, e), 0, e - at) <=> BodyRejected(b, at, e)
<1> DEFINE s == SubSeq(b, at + 1, e)
<1>0. /\ Len(b) \in Nat /\ at \in Nat /\ at + 1 \in Nat /\ 0 + 1 = 1
      /\ e \in at + 1 .. Len(b) /\ e \in Nat /\ MaxDigits \in Nat /\ Base \in Nat
  BY BytesOf, StreamsAssumption DEF PacketEnd
<1>1. /\ s \in ByteString /\ Len(s) = e - at /\ s[1] = b[at + 1]
      /\ \A k : k \in DigitCount(s, 1) <=> k \in DigitCount(b, at + 1) /\ at + 1 + k <= e
      /\ \A k \in DigitCount(s, 1) : Digits(s, 1, k) = Digits(b, at + 1, k)
  BY <1>0, PartHeader
<1> HIDE DEF s
<1>2. PICK k \in DigitCount(b, at + 1) : e = at + 1 + k + RemainingLength(Digits(b, at + 1, k))
  BY DEF PacketEnd
<1>3. k \in 1 .. MaxDigits /\ k \in Nat /\ RemainingLength(Digits(b, at + 1, k)) \in Nat
  BY <1>0, DigitsType
<1>4. k \in DigitCount(s, 1) /\ Digits(s, 1, k) = Digits(b, at + 1, k)
  <2>1. at + 1 + k <= e
    BY <1>0, <1>2, <1>3
  <2> QED BY <1>1, <2>1
<1>5. ASSUME NEW x \in ByteString, NEW o \in Nat, k \in DigitCount(x, o)
      PROVE  ~TooManyDigits(x, o)
  <2>1. x[o + k] < Base /\ o + k \in 1 .. Len(x)
    BY <1>0, <1>3, <1>5, BytesOf DEF DigitCount
  <2>2. x[o + k] \in Nat
    BY <2>1, BytesOf
  <2>3. ~(x[o + k] >= Base)
    BY <1>0, <2>1, <2>2
  <2>4. k \in 1 .. MaxDigits
    BY <1>3
  <2> QED BY <2>3, <2>4 DEF TooManyDigits
<1>6. ~TooManyDigits(s, 1) /\ ~TooManyDigits(b, at + 1)
  BY <1>0, <1>1, <1>2, <1>4, <1>5
<1>7. \A l : (l \in DigitCount(b, at + 1) => l = k) /\ (l \in DigitCount(s, 1) => l = k)
  BY <1>0, <1>1, <1>4, OneCount
<1>8. HeaderRejected(s, 0) <=> HeaderRejected(b, at)
  BY <1>0, <1>4, <1>6, <1>7 DEF HeaderRejected
<1>9. BodyRejected(s, 0, e - at) <=> BodyRejected(b, at, e)
  <2>1. (e - at) - (0 + 1 + k) = e - (at + 1 + k)
    BY <1>0, <1>3
  <2>2. BodyRejected(b, at, e) <=> e - (at + 1 + k) < MinBody[b[at + 1]]
    BY <1>7 DEF BodyRejected
  <2>3. BodyRejected(s, 0, e - at) <=> (e - at) - (0 + 1 + k) < MinBody[s[0 + 1]]
    BY <1>0, <1>4, <1>7 DEF BodyRejected
  <2> QED BY <1>0, <1>1, <2>1, <2>2, <2>3
<1> QED BY <1>8, <1>9 DEF s

LEMMA RestHeader ==
  ASSUME NEW b \in ByteString, NEW at \in 0 .. Len(b), at < Len(b)
  PROVE  HeaderRejected(SubSeq(b, at + 1, Len(b)), 0) <=> HeaderRejected(b, at)
<1> DEFINE s == SubSeq(b, at + 1, Len(b))
<1>0. Len(b) \in Nat /\ at \in Nat /\ at + 1 \in Nat /\ 0 + 1 = 1 /\ Len(b) \in at + 1 .. Len(b)
  BY BytesOf
<1>1. /\ \A k : k \in DigitCount(s, 1) <=> k \in DigitCount(b, at + 1) /\ at + 1 + k <= Len(b)
      /\ \A k \in DigitCount(s, 1) : Digits(s, 1, k) = Digits(b, at + 1, k)
      /\ TooManyDigits(s, 1) <=> TooManyDigits(b, at + 1)
  BY <1>0, PartHeader
<1> HIDE DEF s
<1>2. \A k : k \in DigitCount(s, 1) <=> k \in DigitCount(b, at + 1)
  <2>1. \A k \in DigitCount(b, at + 1) : at + 1 + k <= Len(b)
    BY DEF DigitCount
  <2> QED BY <1>1, <2>1
<1>3. HeaderRejected(s, 0) <=> HeaderRejected(b, at)
  BY <1>0, <1>1, <1>2 DEF HeaderRejected
<1> QED BY <1>3 DEF s

\* What is left when no packet is complete and the header was not refused is short.
LEMMA RestIsShort ==
  ASSUME NEW b \in ByteString, NEW at \in 0 .. Len(b), PacketEnd(b, at) = {},
         ~(at < Len(b) /\ HeaderRejected(b, at))
  PROVE  Len(b) - at < 1 + MaxDigits + MaxPacketBytes
<1>0. /\ Len(b) \in Nat /\ at \in Nat /\ at <= Len(b) /\ at + 1 \in Nat
      /\ MaxDigits \in Nat \ {0} /\ MaxPacketBytes \in Nat \ {0} /\ Base \in Nat
  BY BytesOf, StreamsAssumption
<1>1. CASE at = Len(b)
  BY <1>0, <1>1
<1>2. CASE at # Len(b) /\ DigitCount(b, at + 1) # {}
  <2>1. PICK k \in DigitCount(b, at + 1) : TRUE
    BY <1>2
  <2> DEFINE length == RemainingLength(Digits(b, at + 1, k))
  <2>2. k \in 1 .. MaxDigits /\ length \in Nat /\ (at + 1) + k <= Len(b)
    BY <1>0, DigitsType
  <2>3. ~(length > MaxPacketBytes)
    BY <1>0, <1>2 DEF HeaderRejected
  <2>4. at + 1 + k + length \notin at + 2 .. Len(b)
    BY DEF PacketEnd
  <2> HIDE DEF length
  <2> QED BY <1>0, <2>2, <2>3, <2>4
<1>3. CASE at # Len(b) /\ DigitCount(b, at + 1) = {}
  <2> SUFFICES ASSUME Len(b) - at >= 1 + MaxDigits + MaxPacketBytes PROVE FALSE
    BY <1>0
  <2>1. (at + 1) + MaxDigits <= Len(b)
    BY <1>0
  <2> DEFINE T == {j \in 1 .. MaxDigits : ~(b[(at + 1) + j] >= Base)}
  <2>2. T # {}
    <3>1. ~TooManyDigits(b, at + 1)
      BY <1>0, <1>3 DEF HeaderRejected
    <3> QED BY <2>1, <3>1 DEF TooManyDigits
  <2>3. PICK k \in T : \A j \in T : k <= j
    <3>1. T \subseteq Nat
      BY <1>0
    <3> HIDE DEF T
    <3> QED BY <2>2, <3>1, LeastNumber
  <2>4. k \in 1 .. MaxDigits /\ (at + 1) + k <= Len(b)
    BY <1>0, <2>1
  <2>5. ASSUME NEW j \in 1 .. k - 1 PROVE b[(at + 1) + j] >= Base
    <3>1. j \in 1 .. MaxDigits /\ ~(k <= j)
      BY <1>0, <2>4
    <3>2. j \notin T
      <4> HIDE DEF T
      <4> QED BY <2>3, <3>1
    <3> QED BY <3>1, <3>2
  <2>6. b[(at + 1) + k] < Base
    <3>1. (at + 1) + k \in 1 .. Len(b)
      BY <1>0, <2>4
    <3>2. b[(at + 1) + k] \in Nat
      BY <3>1, BytesOf
    <3> QED BY <1>0, <3>2
  <2>7. k \in DigitCount(b, at + 1)
    BY <2>4, <2>5, <2>6 DEF DigitCount
  <2> QED BY <1>3, <2>7
<1> QED BY <1>1, <1>2, <1>3

-----------------------------------------------------------------------------
(* DecodePackets *)

Failed(b) == [error |-> TRUE, packets |-> <<>>, rest |-> b]

\* What DecodePackets makes of the bytes after `at`, if f is right about those
\* after the first packet.
DecodedAt(b, f, at) ==
    IF at < Len(b) /\ HeaderRejected(b, at) THEN Failed(b)
    ELSE IF PacketEnd(b, at) = {}
    THEN [error |-> FALSE, packets |-> <<>>, rest |-> SubSeq(b, at + 1, Len(b))]
    ELSE LET end   == CHOOSE e \in PacketEnd(b, at) : TRUE
             later == f[end]
         IN  IF BodyRejected(b, at, end) \/ later.error THEN Failed(b)
             ELSE [later EXCEPT !.packets = <<SubSeq(b, at + 1, end)>> \o @]

IsDecoding(b, f) == f = [at \in 0 .. Len(b) |-> DecodedAt(b, f, at)]

\* Only the bytes after the first packet matter.
LEMMA DecodedLater ==
  ASSUME NEW b, NEW at, NEW f, NEW g,
         \A e \in at + 2 .. Len(b) : f[e] = g[e]
  PROVE  DecodedAt(b, f, at) = DecodedAt(b, g, at)
<1>1. CASE PacketEnd(b, at) = {}
  BY <1>1 DEF DecodedAt
<1>2. CASE PacketEnd(b, at) # {}
  <2> DEFINE end == CHOOSE e \in PacketEnd(b, at) : TRUE
  <2>1. end \in PacketEnd(b, at)
    BY <1>2
  <2>2. f[end] = g[end]
    <3> HIDE DEF end
    <3> QED BY <2>1 DEF PacketEnd
  <2> QED BY <1>2, <2>2 DEF DecodedAt
<1> QED BY <1>1, <1>2

LEMMA DecodingExists ==
  ASSUME NEW b \in ByteString
  PROVE  \E f : IsDecoding(b, f)
<1> DEFINE N == Len(b)
           P(m) == m <= N + 1 =>
                     \E f : \A at \in N + 1 - m .. N : f[at] = DecodedAt(b, f, at)
<1>0. N \in Nat
  BY BytesOf
<1> HIDE DEF N
<1>1. P(0)
  <2>1. \A at \in N + 1 - 0 .. N : FALSE
    BY <1>0
  <2> QED BY <2>1
<1>2. ASSUME NEW m \in Nat, P(m) PROVE P(m + 1)
  <2>1. SUFFICES ASSUME m + 1 <= N + 1
        PROVE  \E f : \A at \in N + 1 - (m + 1) .. N : f[at] = DecodedAt(b, f, at)
    OBVIOUS
  <2>2. PICK f : \A at \in N + 1 - m .. N : f[at] = DecodedAt(b, f, at)
    <3>1. m <= N + 1
      BY <1>0, <2>1
    <3> QED BY <1>2, <3>1
  <2> DEFINE n == N - m
             g == [at \in 0 .. N |-> IF at = n THEN DecodedAt(b, f, n) ELSE f[at]]
  <2>3. n \in 0 .. N /\ N + 1 - (m + 1) = n /\ N + 1 - m = n + 1
    BY <1>0, <2>1
  <2>4. g[n] = DecodedAt(b, f, n) /\ \A e \in n + 1 .. N : g[e] = f[e]
    <3> HIDE DEF n
    <3>1. n \in 0 .. N
      BY <2>3
    <3>2. \A e \in n + 1 .. N : e \in 0 .. N /\ e # n
      BY <1>0, <3>1
    <3> QED BY <3>1, <3>2
  <2> HIDE DEF g
  <2>5. ASSUME NEW at \in n .. N PROVE g[at] = DecodedAt(b, g, at)
    <3> HIDE DEF n
    <3>1. \A e \in at + 2 .. N : f[e] = g[e]
      <4>1. \A e \in at + 2 .. N : e \in n + 1 .. N
        BY <1>0, <2>3
      <4> QED BY <2>4, <4>1
    <3>2. DecodedAt(b, f, at) = DecodedAt(b, g, at)
      BY <3>1, DecodedLater DEF N
    <3>3. CASE at = n
      BY <2>4, <3>2, <3>3
    <3>4. CASE at # n
      <4>1. at \in n + 1 .. N
        BY <1>0, <2>3, <3>4
      <4>2. f[at] = DecodedAt(b, f, at)
        BY <2>2, <2>3, <4>1
      <4> QED BY <2>4, <3>2, <4>1, <4>2
    <3> QED BY <3>3, <3>4
  <2> HIDE DEF n
  <2> QED BY <2>3, <2>5
<1>3. P(N + 1)
  <2> HIDE DEF P
  <2> DEFINE T == {m \in Nat : P(m)}
  <2>1. 0 \in T /\ \A m \in Nat : m \in T => m + 1 \in T
    BY <1>1, <1>2
  <2>2. \A m \in Nat : m \in T
    <3> HIDE DEF T
    <3> QED BY <2>1, Induction
  <2> QED BY <1>0, <2>2
<1>4. PICK f : \A at \in 0 .. N : f[at] = DecodedAt(b, f, at)
  <2>1. N + 1 <= N + 1 /\ N + 1 - (N + 1) = 0
    BY <1>0
  <2> QED BY <1>3, <2>1
<1> DEFINE h == [at \in 0 .. N |-> f[at]]
<1>5. ASSUME NEW at \in 0 .. N PROVE DecodedAt(b, f, at) = DecodedAt(b, h, at)
  <2>1. \A e \in at + 2 .. N : e \in 0 .. N
    BY <1>0
  <2>2. \A e \in at + 2 .. N : f[e] = h[e]
    BY <2>1
  <2> HIDE DEF h
  <2> QED BY <2>2, DecodedLater DEF N
<1>6. h = [at \in 0 .. N |-> DecodedAt(b, f, at)]
  BY <1>4
<1>7. h = [at \in 0 .. N |-> DecodedAt(b, h, at)]
  <2> HIDE DEF h
  <2> QED BY <1>5, <1>6
<1> HIDE DEF h
<1> QED BY <1>7 DEF IsDecoding, N

\* f is the decoding of b from every offset.
Decodes(b, f) == \A at \in 0 .. Len(b) : f[at] = DecodedAt(b, f, at)

LEMMA DecodePacketsIs ==
  ASSUME NEW b \in ByteString
  PROVE  \E f : DecodePackets(b) = f[0] /\ Decodes(b, f)
<1> DEFINE f == CHOOSE f : f = [at \in 0 .. Len(b) |-> DecodedAt(b, f, at)]
<1>1. DecodePackets(b) = f[0]
  BY DEF DecodePackets, DecodedAt, Failed
<1>2. f = [at \in 0 .. Len(b) |-> DecodedAt(b, f, at)]
  BY DecodingExists DEF IsDecoding
<1> HIDE DEF f
<1>3. Decodes(b, f)
  BY <1>2 DEF Decodes
<1> QED BY <1>1, <1>3

Packets == ByteString \ {<<>>}
Decoded == [error : BOOLEAN, packets : Seq(Packets), rest : ByteString]

\* No prefix of b is a packet.
NoneWaits(b) == \A n \in 1 .. Len(b) : ~IsPacket(SubSeq(b, 1, n))

\* A packet that decode_packets takes out of what begins with it.
Accepted(p) == IsPacket(p) /\ ~HeaderRejected(p, 0) /\ ~BodyRejected(p, 0, Len(p))

\* d takes b apart: whole packets that are taken out, and less than one.
TakenApart(b, d) ==
    /\ FlattenSeq(d.packets) \o d.rest = b
    /\ \A i \in DOMAIN d.packets : Accepted(d.packets[i])
    /\ NoneWaits(d.rest)
    /\ Len(d.rest) < 1 + MaxDigits + MaxPacketBytes

LEMMA PacketsAreBytes == Seq(Packets) \subseteq Seq(ByteString) /\ Seq(Packets) \subseteq Seq(Seq(Bytes))
<1>1. Packets \subseteq ByteString
  BY DEF Packets
<1>2. \A ps \in Seq(Packets) : ps \in Seq(ByteString)
  BY <1>1, SeqMonotonic
<1> QED BY <1>2 DEF ByteString

LEMMA PartType ==
  ASSUME NEW b \in ByteString, NEW at \in 0 .. Len(b), NEW e \in 0 .. Len(b)
  PROVE  /\ SubSeq(b, at + 1, e) \in ByteString
         /\ Len(SubSeq(b, at + 1, e)) = IF at + 1 <= e THEN e - at ELSE 0
<1>0. Len(b) \in Nat /\ at + 1 \in Int /\ e \in Int /\ e - (at + 1) + 1 = e - at
  BY BytesOf
<1>1. ASSUME NEW i \in at + 1 .. e PROVE b[i] \in Bytes
  <2>1. i \in 1 .. Len(b)
    BY <1>0
  <2> QED BY <2>1, BytesOf
<1> QED BY <1>0, <1>1, SubSeqProperties DEF ByteString

\* The bytes after `at`, when no packet is complete.
LEMMA NonePending ==
  ASSUME NEW b \in ByteString, NEW at \in 0 .. Len(b), PacketEnd(b, at) = {}
  PROVE  NoneWaits(SubSeq(b, at + 1, Len(b)))
<1> DEFINE rest == SubSeq(b, at + 1, Len(b))
<1>0. Len(b) \in Nat /\ at \in Nat /\ at <= Len(b) /\ Len(b) \in 0 .. Len(b)
  BY BytesOf
<1>1. Len(rest) = IF at + 1 <= Len(b) THEN Len(b) - at ELSE 0
  BY <1>0, PartType
<1>2. ASSUME NEW n \in 1 .. Len(rest) PROVE ~IsPacket(SubSeq(rest, 1, n))
  <2>1. n \in 1 .. Len(b) - at /\ at + 1 <= Len(b)
    BY <1>0, <1>1
  <2>2. /\ at + 1 \in 1 .. Len(b) /\ Len(b) \in 1 .. Len(b)
        /\ 1 \in 1 .. Len(b) - (at + 1) + 1 /\ n \in 1 .. Len(b) - (at + 1) + 1
    BY <1>0, <2>1
  <2>3. SubSeq(rest, 1, n) = SubSeq(b, (at + 1) + 1 - 1, (at + 1) + n - 1)
    BY <2>2, SubSeqOfSubSeq DEF ByteString
  <2>4. (at + 1) + 1 - 1 = at + 1 /\ (at + 1) + n - 1 = at + n
    BY <1>0, <2>1
  <2>5. at + n \in at + 1 .. Len(b)
    BY <1>0, <2>1
  <2> HIDE DEF rest
  <2> QED BY <2>3, <2>4, <2>5, PacketEnds
<1> HIDE DEF rest
<1> QED BY <1>2 DEF NoneWaits, rest

LEMMA DecodedWell ==
  ASSUME NEW b \in ByteString, NEW f, NEW at \in 0 .. Len(b),
         \A e \in at + 2 .. Len(b) :
            /\ f[e] \in Decoded
            /\ ~f[e].error => TakenApart(SubSeq(b, e + 1, Len(b)), f[e])
  PROVE  LET d == DecodedAt(b, f, at)
         IN  /\ d \in Decoded
             /\ ~d.error => TakenApart(SubSeq(b, at + 1, Len(b)), d)
<1> DEFINE d == DecodedAt(b, f, at)
           rest == SubSeq(b, at + 1, Len(b))
<1>0. Len(b) \in Nat /\ at \in Nat /\ at <= Len(b) /\ Len(b) \in 0 .. Len(b)
  BY BytesOf
<1>1. Failed(b) \in Decoded /\ Failed(b).error
  BY EmptySeq DEF Failed, Decoded
<1>2. CASE at < Len(b) /\ HeaderRejected(b, at)
  <2>1. d = Failed(b)
    BY <1>2 DEF DecodedAt
  <2> QED BY <1>1, <2>1
<1>3. CASE ~(at < Len(b) /\ HeaderRejected(b, at)) /\ PacketEnd(b, at) = {}
  <2>1. d = [error |-> FALSE, packets |-> <<>>, rest |-> rest]
    BY <1>3 DEF DecodedAt
  <2>2. rest \in ByteString /\ Len(rest) = IF at + 1 <= Len(b) THEN Len(b) - at ELSE 0
    BY <1>0, PartType
  <2>3. NoneWaits(rest)
    BY <1>3, NonePending
  <2>4. Len(b) - at < 1 + MaxDigits + MaxPacketBytes
    BY <1>3, RestIsShort
  <2>5. Len(rest) < 1 + MaxDigits + MaxPacketBytes
    BY <1>0, <2>2, <2>4
  <2>6. FlattenSeq(<<>>) \o rest = rest
    BY <2>2, FlattenEmpty, ConcatEmptySeq DEF ByteString
  <2> HIDE DEF rest, d
  <2>7. d \in Decoded
    BY <2>1, <2>2, EmptySeq DEF Decoded
  <2>8. TakenApart(rest, d)
    BY <2>1, <2>3, <2>5, <2>6 DEF TakenApart
  <2> QED BY <2>7, <2>8 DEF d, rest
<1>4. CASE ~(at < Len(b) /\ HeaderRejected(b, at)) /\ PacketEnd(b, at) # {}
  <2> DEFINE end   == CHOOSE e \in PacketEnd(b, at) : TRUE
             later == f[end]
             packet == SubSeq(b, at + 1, end)
  <2>1. end \in PacketEnd(b, at)
    BY <1>4
  <2>2. d = IF BodyRejected(b, at, end) \/ later.error THEN Failed(b)
            ELSE [later EXCEPT !.packets = <<packet>> \o @]
    BY <1>4 DEF DecodedAt
  <2> HIDE DEF end
  <2>3. end \in at + 2 .. Len(b)
    BY <2>1 DEF PacketEnd
  <2>4. end \in Nat /\ end \in at + 1 .. Len(b) /\ end \in 0 .. Len(b) /\ at + 1 <= end /\ end <= Len(b)
    BY <1>0, <2>3
  <2>5. later \in Decoded /\ (~later.error => TakenApart(SubSeq(b, end + 1, Len(b)), later))
    BY <2>3
  <2>6. CASE BodyRejected(b, at, end) \/ later.error
    <3>1. d = Failed(b)
      BY <2>2, <2>6
    <3> QED BY <1>1, <3>1
  <2>7. CASE ~(BodyRejected(b, at, end) \/ later.error)
    <3>1. d = [later EXCEPT !.packets = <<packet>> \o @]
      BY <2>2, <2>7
    <3>2. packet \in ByteString /\ Len(packet) = end - at
      BY <2>4, PartType
    <3>3. packet # <<>>
      BY <1>0, <2>4, <3>2
    <3>4. packet \in Packets /\ <<packet>> \in Seq(Packets)
      BY <3>2, <3>3 DEF Packets
    <3>5. Accepted(packet)
      <4>1. IsPacket(packet)
        BY <2>1, <2>4, PacketEnds
      <4>2. ~HeaderRejected(b, at) /\ ~BodyRejected(b, at, end)
        BY <1>0, <1>4, <2>4, <2>7
      <4>3. ~HeaderRejected(packet, 0) /\ ~BodyRejected(packet, 0, end - at)
        <5> HIDE DEF packet
        <5> QED BY <2>1, <4>2, PacketHeader DEF packet
      <4> HIDE DEF packet
      <4> QED BY <3>2, <4>1, <4>3 DEF Accepted
    <3> DEFINE after == SubSeq(b, end + 1, Len(b))
    <3>6. after \in ByteString
      BY <1>0, <2>4, PartType
    <3>7. packet \o after = rest
      <4>1. at + 1 \in 1 .. Len(b) + 1 /\ end \in (at + 1) - 1 .. Len(b) /\ Len(b) \in end .. Len(b)
        BY <1>0, <2>4
      <4> QED BY <4>1, ConcatAdjacentSubSeq DEF ByteString
    <3>8. later \in Decoded /\ TakenApart(after, later)
      BY <2>5, <2>7
    <3> HIDE DEF later, packet, after, rest, d
    <3>9. /\ later.error \in BOOLEAN /\ later.packets \in Seq(Packets) /\ later.rest \in ByteString
          /\ later = [error |-> later.error, packets |-> later.packets, rest |-> later.rest]
      BY <3>8 DEF Decoded
    <3>10. d = [error |-> later.error, packets |-> <<packet>> \o later.packets, rest |-> later.rest]
      BY <3>1, <3>9
    <3>11. <<packet>> \o later.packets \in Seq(Packets)
      BY <3>4, <3>9, ConcatProperties
    <3>12. d \in Decoded
      BY <3>9, <3>10, <3>11 DEF Decoded
    <3>13. FlattenSeq(<<packet>> \o later.packets) = packet \o FlattenSeq(later.packets)
      <4>1. <<packet>> \in Seq(Seq(Bytes)) /\ later.packets \in Seq(Seq(Bytes))
        BY <3>4, <3>9, PacketsAreBytes
      <4>2. FlattenSeq(<<packet>> \o later.packets) = FlattenSeq(<<packet>>) \o FlattenSeq(later.packets)
        BY <4>1, FlattenConcat
      <4> QED BY <4>2, FlattenOne
    <3>14. FlattenSeq(<<packet>> \o later.packets) \o later.rest = rest
      <4>1. FlattenSeq(later.packets) \in Seq(Bytes)
        BY <3>9, PacketsAreBytes, FlattenType
      <4>2. packet \in Seq(Bytes) /\ later.rest \in Seq(Bytes)
        BY <3>2, <3>9 DEF ByteString
      <4>3. (packet \o FlattenSeq(later.packets)) \o later.rest
              = packet \o (FlattenSeq(later.packets) \o later.rest)
        <5>1. \A x, y, z \in Seq(Bytes) : x \o (y \o z) = (x \o y) \o z
          BY ConcatIsAssociative, SMTT(30)
        <5> QED BY <4>1, <4>2, <5>1, Zenon
      <4>4. FlattenSeq(later.packets) \o later.rest = after
        BY <3>8 DEF TakenApart
      <4> QED BY <3>7, <3>13, <4>3, <4>4
    <3>15. ASSUME NEW i \in DOMAIN (<<packet>> \o later.packets)
           PROVE  Accepted((<<packet>> \o later.packets)[i])
      <4> DEFINE all == <<packet>> \o later.packets
      <4>1. /\ Len(<<packet>>) = 1 /\ <<packet>>[1] = packet
            /\ Len(later.packets) \in Nat /\ DOMAIN later.packets = 1 .. Len(later.packets)
        BY <3>9, LenProperties
      <4>2. Len(all) = 1 + Len(later.packets)
             /\ \A j \in 1 .. 1 + Len(later.packets) :
                   all[j] = IF j <= 1 THEN <<packet>>[j] ELSE later.packets[j - 1]
        BY <3>4, <3>9, <4>1, ConcatProperties
      <4>3. i \in 1 .. 1 + Len(later.packets)
        BY <3>11, <4>2, LenProperties
      <4> HIDE DEF all
      <4>4. CASE i = 1
        BY <3>5, <4>1, <4>2, <4>3, <4>4 DEF all
      <4>5. CASE i # 1
        <5>1. i - 1 \in DOMAIN later.packets /\ ~(i <= 1)
          BY <4>1, <4>3, <4>5
        <5>2. Accepted(later.packets[i - 1])
          BY <3>8, <5>1 DEF TakenApart
        <5> QED BY <4>2, <4>3, <5>1, <5>2 DEF all
      <4> QED BY <4>4, <4>5
    <3>16. NoneWaits(later.rest) /\ Len(later.rest) < 1 + MaxDigits + MaxPacketBytes
      BY <3>8 DEF TakenApart
    <3>17. TakenApart(rest, d)
      BY <3>10, <3>14, <3>15, <3>16 DEF TakenApart
    <3> QED BY <3>12, <3>17 DEF d, rest
  <2> QED BY <2>6, <2>7
<1> QED BY <1>2, <1>3, <1>4

LEMMA DecodingIsWell ==
  ASSUME NEW b \in ByteString, NEW f, Decodes(b, f)
  PROVE  \A at \in 0 .. Len(b) :
            /\ f[at] \in Decoded
            /\ ~f[at].error => TakenApart(SubSeq(b, at + 1, Len(b)), f[at])
<1>0. Len(b) \in Nat
  BY BytesOf
<1> DEFINE Good(at) == /\ f[at] \in Decoded
                       /\ ~f[at].error => TakenApart(SubSeq(b, at + 1, Len(b)), f[at])
           T == {m \in Nat : \A at \in 0 .. Len(b) : Len(b) - at < m => Good(at)}
<1>2. 0 \in T
  <2>1. \A at \in 0 .. Len(b) : ~(Len(b) - at < 0)
    BY <1>0
  <2> HIDE DEF Good
  <2> QED BY <2>1
<1>3. ASSUME NEW m \in Nat, m \in T PROVE m + 1 \in T
  <2>1. SUFFICES ASSUME NEW at \in 0 .. Len(b), Len(b) - at < m + 1 PROVE Good(at)
    <3> HIDE DEF Good
    <3> QED OBVIOUS
  <2>2. ASSUME NEW e \in at + 2 .. Len(b) PROVE Good(e)
    <3>1. e \in 0 .. Len(b) /\ Len(b) - e < m
      BY <1>0, <2>1
    <3> HIDE DEF Good
    <3> QED BY <1>3, <3>1
  <2>3. LET d == DecodedAt(b, f, at)
        IN  d \in Decoded /\ (~d.error => TakenApart(SubSeq(b, at + 1, Len(b)), d))
    BY <2>2, DecodedWell
  <2> QED BY <2>3 DEF Decodes
<1>4. \A m \in Nat : m \in T
  <2> HIDE DEF T
  <2> QED BY <1>2, <1>3, Induction
<1>5. ASSUME NEW at \in 0 .. Len(b) PROVE Good(at)
  <2>1. Len(b) + 1 \in T /\ Len(b) - at < Len(b) + 1
    BY <1>0, <1>4
  <2> HIDE DEF Good
  <2> QED BY <2>1
<1> QED BY <1>5

(***************************************************************************)
(* decode_packets, of any bytes: unless it raises, the packets it returns  *)
(* and the rest are the bytes it was given, each packet is one, none waits *)
(* in the rest, and the rest is short.                                     *)
(***************************************************************************)
THEOREM DecodeTakesApart ==
  ASSUME NEW b \in ByteString
  PROVE  /\ DecodePackets(b) \in Decoded
         /\ ~DecodePackets(b).error => TakenApart(b, DecodePackets(b))
<1>1. PICK f : DecodePackets(b) = f[0] /\ Decodes(b, f)
  BY DecodePacketsIs
<1>2. 0 \in 0 .. Len(b)
  BY BytesOf
<1>3. SubSeq(b, 0 + 1, Len(b)) = b
  BY SubSeqFull DEF ByteString
<1> QED BY <1>1, <1>2, <1>3, DecodingIsWell

-----------------------------------------------------------------------------
(* Decoding in pieces *)

\* What comes of decoding, whichever bytes an error leaves.
Outcome(d) == <<d.error, d.packets, IF d.error THEN <<>> ELSE d.rest>>

\* The parts of a string after `at` are those of its rest.
LEMMA PartOfRest ==
  ASSUME NEW b \in ByteString, NEW at \in 0 .. Len(b),
         NEW i \in at .. Len(b), NEW e \in i .. Len(b)
  PROVE  LET s == SubSeq(b, at + 1, Len(b))
         IN  SubSeq(s, i - at + 1, e - at) = SubSeq(b, i + 1, e)
<1> DEFINE s == SubSeq(b, at + 1, Len(b))
<1>0. Len(b) \in Nat /\ at \in Nat /\ i \in Nat /\ e \in Nat /\ at <= i /\ i <= e /\ e <= Len(b)
  BY BytesOf
<1>1. s \in ByteString /\ Len(s) = Len(b) - at
  <2>1. Len(b) \in 0 .. Len(b) /\ (at + 1 <= Len(b) \/ Len(b) - at = 0)
    BY <1>0
  <2> QED BY <2>1, PartType
<1>2. CASE i = e
  <2>1. /\ i + 1 \in Int /\ e \in Int /\ ~(i + 1 <= e)
        /\ i - at + 1 \in Int /\ e - at \in Int /\ ~(i - at + 1 <= e - at)
    BY <1>0, <1>2
  <2>2. /\ \A k \in i + 1 .. e : b[k] \in Bytes
        /\ \A k \in i - at + 1 .. e - at : s[k] \in Bytes
    <3> HIDE DEF s
    <3> QED BY <2>1
  <2>3. /\ SubSeq(b, i + 1, e) \in Seq(Bytes) /\ Len(SubSeq(b, i + 1, e)) = 0
        /\ SubSeq(s, i - at + 1, e - at) \in Seq(Bytes) /\ Len(SubSeq(s, i - at + 1, e - at)) = 0
    <3> HIDE DEF s
    <3> QED BY <2>1, <2>2, SubSeqProperties
  <2> HIDE DEF s
  <2>4. SubSeq(b, i + 1, e) = <<>> /\ SubSeq(s, i - at + 1, e - at) = <<>>
    BY <2>3, EmptySeq
  <2> QED BY <2>4 DEF s
<1>3. CASE i # e
  <2>1. /\ at + 1 \in 1 .. Len(b) /\ Len(b) \in 1 .. Len(b)
        /\ i - at + 1 \in 1 .. Len(b) - (at + 1) + 1 /\ e - at \in 1 .. Len(b) - (at + 1) + 1
    BY <1>0, <1>3
  <2>2. SubSeq(s, i - at + 1, e - at)
          = SubSeq(b, (at + 1) + (i - at + 1) - 1, (at + 1) + (e - at) - 1)
    BY <2>1, SubSeqOfSubSeq DEF ByteString
  <2>3. (at + 1) + (i - at + 1) - 1 = i + 1 /\ (at + 1) + (e - at) - 1 = e
    BY <1>0
  <2> HIDE DEF s
  <2> QED BY <2>2, <2>3 DEF s
<1> QED BY <1>2, <1>3

\* The packet at `at` is the first of the rest of the string.
LEMMA PacketOfRest ==
  ASSUME NEW b \in ByteString, NEW at \in 0 .. Len(b), NEW e \in at + 1 .. Len(b)
  PROVE  LET s == SubSeq(b, at + 1, Len(b))
         IN  /\ e - at \in PacketEnd(s, 0) <=> e \in PacketEnd(b, at)
             /\ e \in PacketEnd(b, at) =>
                   (BodyRejected(s, 0, e - at) <=> BodyRejected(b, at, e))
<1> DEFINE s == SubSeq(b, at + 1, Len(b))
           p == SubSeq(b, at + 1, e)
<1>0. /\ Len(b) \in Nat /\ at \in Nat /\ e \in Nat /\ at + 1 <= e /\ e <= Len(b)
      /\ at \in at .. Len(b) /\ e \in at .. Len(b) /\ Len(b) \in 0 .. Len(b)
      /\ 0 + 1 = 1 /\ at - at + 1 = 1 /\ (e - at) - 0 = e - at
  BY BytesOf
<1>1. s \in ByteString /\ Len(s) = Len(b) - at
  BY <1>0, PartType
<1>2. SubSeq(s, 1, e - at) = p
  <2>1. SubSeq(s, at - at + 1, e - at) = SubSeq(b, at + 1, e)
    BY <1>0, PartOfRest
  <2> HIDE DEF s
  <2> QED BY <1>0, <2>1
<1> HIDE DEF s, p
<1>3. 0 \in 0 .. Len(s) /\ e - at \in 0 + 1 .. Len(s)
  BY <1>0, <1>1
<1>4. e - at \in PacketEnd(s, 0) <=> e \in PacketEnd(b, at)
  <2>1. IsPacket(p) <=> e \in PacketEnd(b, at)
    BY <1>0, PacketEnds DEF p
  <2>2. IsPacket(SubSeq(s, 0 + 1, e - at)) <=> e - at \in PacketEnd(s, 0)
    BY <1>1, <1>3, PacketEnds
  <2> QED BY <1>0, <1>2, <2>1, <2>2
<1>5. ASSUME e \in PacketEnd(b, at)
      PROVE  BodyRejected(s, 0, e - at) <=> BodyRejected(b, at, e)
  <2>1. BodyRejected(p, 0, e - at) <=> BodyRejected(b, at, e)
    BY <1>5, PacketHeader DEF p
  <2>2. BodyRejected(SubSeq(s, 0 + 1, e - at), 0, (e - at) - 0) <=> BodyRejected(s, 0, e - at)
    BY <1>1, <1>3, <1>4, <1>5, PacketHeader
  <2> QED BY <1>0, <1>2, <2>1, <2>2
<1> QED BY <1>4, <1>5 DEF s

\* A packet ends at one place.
LEMMA OneEndOnly ==
  ASSUME NEW b \in ByteString, NEW at \in 0 .. Len(b), NEW e \in PacketEnd(b, at)
  PROVE  (CHOOSE end \in PacketEnd(b, at) : TRUE) = e
<1>1. (CHOOSE end \in PacketEnd(b, at) : TRUE) \in PacketEnd(b, at)
  OBVIOUS
<1> QED BY <1>1, OneEnd

\* What DecodePackets does after `at`, it does with the rest of the string alone.
LEMMA DecodedByRest ==
  ASSUME NEW b \in ByteString, NEW at \in 0 .. Len(b), NEW f, NEW g,
         \A e \in at + 2 .. Len(b) :
            f[e] \in Decoded /\ g[e - at] \in Decoded /\ Outcome(f[e]) = Outcome(g[e - at])
  PROVE  Outcome(DecodedAt(b, f, at))
            = Outcome(DecodedAt(SubSeq(b, at + 1, Len(b)), g, 0))
<1> DEFINE s == SubSeq(b, at + 1, Len(b))
           db == DecodedAt(b, f, at)
           ds == DecodedAt(s, g, 0)
<1>0. /\ Len(b) \in Nat /\ at \in Nat /\ at <= Len(b) /\ Len(b) \in 0 .. Len(b)
      /\ at + 1 <= Len(b) \/ Len(b) - at = 0
  BY BytesOf
<1>1. s \in ByteString /\ Len(s) = Len(b) - at
  BY <1>0, PartType
<1>2. at < Len(b) /\ HeaderRejected(b, at) <=> 0 < Len(s) /\ HeaderRejected(s, 0)
  <2>1. at < Len(b) <=> 0 < Len(s)
    BY <1>0, <1>1
  <2>2. ASSUME at < Len(b) PROVE HeaderRejected(s, 0) <=> HeaderRejected(b, at)
    BY <2>2, RestHeader
  <2> QED BY <2>1, <2>2
<1>3. \A e \in at + 1 .. Len(b) :
         /\ e - at \in PacketEnd(s, 0) <=> e \in PacketEnd(b, at)
         /\ e \in PacketEnd(b, at) => (BodyRejected(s, 0, e - at) <=> BodyRejected(b, at, e))
  BY PacketOfRest
<1>4. \A x : Outcome(Failed(x)) = <<TRUE, <<>>, <<>>>>
  BY DEF Outcome, Failed
<1>5. CASE at < Len(b) /\ HeaderRejected(b, at)
  <2>1. db = Failed(b) /\ ds = Failed(s)
    BY <1>2, <1>5 DEF DecodedAt
  <2> QED BY <1>4, <2>1
<1>6. CASE ~(at < Len(b) /\ HeaderRejected(b, at)) /\ PacketEnd(b, at) = {}
  <2>1. ASSUME NEW n \in PacketEnd(s, 0) PROVE FALSE
    <3> HIDE DEF s
    <3>1. n \in 0 + 2 .. Len(s)
      BY DEF PacketEnd
    <3>2. n + at \in at + 1 .. Len(b) /\ (n + at) - at = n
      BY <1>0, <1>1, <3>1
    <3> QED BY <1>3, <1>6, <3>2
  <2>2. PacketEnd(s, 0) = {}
    BY <2>1
  <2>3. SubSeq(s, 0 + 1, Len(s)) = s
    <3> HIDE DEF s
    <3> QED BY <1>1, SubSeqFull DEF ByteString
  <2>4. db = [error |-> FALSE, packets |-> <<>>, rest |-> s]
    BY <1>6 DEF DecodedAt
  <2>5. ds = [error |-> FALSE, packets |-> <<>>, rest |-> s]
    <3> HIDE DEF s
    <3> QED BY <1>2, <1>6, <2>2, <2>3 DEF DecodedAt
  <2> HIDE DEF db, ds
  <2> QED BY <2>4, <2>5 DEF db, ds
<1>7. CASE ~(at < Len(b) /\ HeaderRejected(b, at)) /\ PacketEnd(b, at) # {}
  <2> DEFINE e == CHOOSE end \in PacketEnd(b, at) : TRUE
             packet == SubSeq(b, at + 1, e)
             lb == f[e]
             ls == g[e - at]
  <2>1. e \in PacketEnd(b, at)
    BY <1>7
  <2>2. db = IF BodyRejected(b, at, e) \/ lb.error THEN Failed(b)
             ELSE [lb EXCEPT !.packets = <<packet>> \o @]
    BY <1>7 DEF DecodedAt
  <2> HIDE DEF e, s
  <2>3. e \in at + 2 .. Len(b)
    BY <2>1 DEF PacketEnd
  <2>4. /\ e \in at + 1 .. Len(b) /\ e \in at .. Len(b) /\ at \in at .. Len(b) /\ e \in Nat
        /\ at - at + 1 = 0 + 1 /\ 0 \in 0 .. Len(s)
    BY <1>0, <1>1, <2>3
  <2>5. e - at \in PacketEnd(s, 0) /\ (BodyRejected(s, 0, e - at) <=> BodyRejected(b, at, e))
    BY <1>3, <2>1, <2>4
  <2>6. (CHOOSE end \in PacketEnd(s, 0) : TRUE) = e - at
    BY <1>1, <2>4, <2>5, OneEndOnly
  <2>7. SubSeq(s, 0 + 1, e - at) = packet
    <3>0. at \in at .. Len(b) /\ e \in at .. Len(b)
      BY <2>4
    <3>1. SubSeq(s, at - at + 1, e - at) = SubSeq(b, at + 1, e)
      BY <2>4, <3>0, PartOfRest DEF s
    <3> QED BY <2>4, <3>1
  <2>8. ds = IF BodyRejected(s, 0, e - at) \/ ls.error THEN Failed(s)
             ELSE [ls EXCEPT !.packets = <<packet>> \o @]
    <3>1. ds = IF BodyRejected(s, 0, e - at) \/ ls.error THEN Failed(s)
               ELSE [ls EXCEPT !.packets = <<SubSeq(s, 0 + 1, e - at)>> \o @]
      BY <1>2, <1>7, <2>5, <2>6 DEF DecodedAt
    <3> HIDE DEF ds, ls, packet
    <3> QED BY <2>7, <3>1
  <2>9. lb \in Decoded /\ ls \in Decoded /\ Outcome(lb) = Outcome(ls)
    BY <2>3
  <2> HIDE DEF lb, ls, packet, db, ds
  <2>10. lb.error = ls.error /\ lb.packets = ls.packets /\ (~lb.error => lb.rest = ls.rest)
    BY <2>9 DEF Outcome
  <2>11. /\ lb = [error |-> lb.error, packets |-> lb.packets, rest |-> lb.rest]
         /\ ls = [error |-> ls.error, packets |-> ls.packets, rest |-> ls.rest]
    BY <2>9 DEF Decoded
  <2>12. CASE BodyRejected(b, at, e) \/ lb.error
    <3>1. db = Failed(b) /\ ds = Failed(s)
      BY <2>2, <2>5, <2>8, <2>10, <2>12
    <3> QED BY <1>4, <3>1 DEF db, ds, s
  <2>13. CASE ~(BodyRejected(b, at, e) \/ lb.error)
    <3>1. db = [lb EXCEPT !.packets = <<packet>> \o @] /\ ds = [ls EXCEPT !.packets = <<packet>> \o @]
      BY <2>2, <2>5, <2>8, <2>10, <2>13
    <3>2. /\ db = [error |-> lb.error, packets |-> <<packet>> \o lb.packets, rest |-> lb.rest]
          /\ ds = [error |-> ls.error, packets |-> <<packet>> \o ls.packets, rest |-> ls.rest]
      BY <2>11, <3>1
    <3>3. db = ds
      BY <2>10, <2>13, <3>2
    <3> QED BY <3>3 DEF db, ds, s
  <2> QED BY <2>12, <2>13
<1> QED BY <1>5, <1>6, <1>7

\* To go on from an offset is to decode what is left.
LEMMA DecodingFrom ==
  ASSUME NEW b \in ByteString, NEW f, Decodes(b, f), NEW at \in 0 .. Len(b)
  PROVE  Outcome(f[at]) = Outcome(DecodePackets(SubSeq(b, at + 1, Len(b))))
<1> DEFINE Good(x, h, i) == Outcome(h[i]) = Outcome(DecodePackets(SubSeq(x, i + 1, Len(x))))
           P(m) == \A x \in ByteString : \A h : Decodes(x, h) =>
                      \A i \in 0 .. Len(x) : Len(x) - i < m => Good(x, h, i)
           T == {m \in Nat : P(m)}
<1>1. P(0)
  <2>1. ASSUME NEW x \in ByteString, NEW i \in 0 .. Len(x) PROVE ~(Len(x) - i < 0)
    BY BytesOf
  <2> HIDE DEF Good
  <2> QED BY <2>1
<1>2. ASSUME NEW m \in Nat, P(m) PROVE P(m + 1)
  <2>1. SUFFICES ASSUME NEW x \in ByteString, NEW h, Decodes(x, h),
                        NEW i \in 0 .. Len(x), Len(x) - i < m + 1
                 PROVE  Good(x, h, i)
    <3> HIDE DEF Good
    <3> QED OBVIOUS
  <2> DEFINE s == SubSeq(x, i + 1, Len(x))
  <2>2. /\ Len(x) \in Nat /\ i \in Nat /\ i <= Len(x) /\ Len(x) \in 0 .. Len(x)
        /\ i + 1 <= Len(x) \/ Len(x) - i = 0
    BY BytesOf
  <2>3. s \in ByteString /\ Len(s) = Len(x) - i
    BY <2>2, PartType
  <2> HIDE DEF s
  <2>4. PICK g : DecodePackets(s) = g[0] /\ Decodes(s, g)
    BY <2>3, DecodePacketsIs
  <2>5. ASSUME NEW e \in i + 2 .. Len(x)
        PROVE  h[e] \in Decoded /\ g[e - i] \in Decoded /\ Outcome(h[e]) = Outcome(g[e - i])
    <3>1. /\ e \in 0 .. Len(x) /\ e - i \in 0 .. Len(s) /\ e \in i .. Len(x)
          /\ Len(x) \in e .. Len(x)
          /\ Len(x) - e < m /\ Len(s) - (e - i) < m /\ Len(s) = Len(x) - i
      BY <2>1, <2>2, <2>3
    <3>2. h[e] \in Decoded /\ g[e - i] \in Decoded
      BY <2>1, <2>3, <2>4, <3>1, DecodingIsWell
    <3>3. Good(x, h, e) /\ Good(s, g, e - i)
      <4> HIDE DEF Good
      <4> QED BY <1>2, <2>1, <2>3, <2>4, <3>1
    <3>4. SubSeq(s, e - i + 1, Len(x) - i) = SubSeq(x, e + 1, Len(x))
      BY <3>1, PartOfRest DEF s
    <3> QED BY <3>1, <3>2, <3>3, <3>4
  <2>6. Outcome(DecodedAt(x, h, i)) = Outcome(DecodedAt(s, g, 0))
    BY <2>5, DecodedByRest DEF s
  <2>7. h[i] = DecodedAt(x, h, i) /\ g[0] = DecodedAt(s, g, 0)
    <3>1. 0 \in 0 .. Len(s)
      BY <2>2, <2>3
    <3> QED BY <2>1, <2>4, <3>1 DEF Decodes
  <2> QED BY <2>4, <2>6, <2>7 DEF s
<1> HIDE DEF P
<1>3. 0 \in T /\ \A m \in Nat : m \in T => m + 1 \in T
  BY <1>1, <1>2
<1>4. \A m \in Nat : m \in T
  <2> HIDE DEF T
  <2> QED BY <1>3, Induction
<1>5. Len(b) - at < Len(b) + 1 /\ Len(b) + 1 \in Nat
  BY BytesOf
<1>6. P(Len(b) + 1)
  BY <1>4, <1>5
<1> QED BY <1>5, <1>6 DEF P

\* e is d with the packets ps before it.
After(ps, d, e) ==
    /\ e.error = d.error
    /\ ~d.error => e.packets = ps \o d.packets /\ e.rest = d.rest

\* A packet that is accepted is taken off the bytes that follow it.
LEMMA DecodeAfterPacket ==
  ASSUME NEW p \in Packets, Accepted(p), NEW x \in ByteString
  PROVE  After(<<p>>, DecodePackets(x), DecodePackets(p \o x))
<1> DEFINE b == p \o x
           e == Len(p)
           d == DecodePackets(x)
<1>1. p \in Seq(Bytes) /\ x \in Seq(Bytes) /\ p # <<>>
  BY DEF Packets, ByteString
<1>2. /\ b \in Seq(Bytes) /\ Len(b) = e + Len(x) /\ e \in Nat /\ e # 0 /\ Len(x) \in Nat
      /\ \A i \in 1 .. e + Len(x) : b[i] = IF i <= e THEN p[i] ELSE x[i - e]
  BY <1>1, ConcatProperties, LenProperties, EmptySeq
<1>3. SubSeq(b, 0 + 1, e) = p
  <2>1. 1 \in 1 .. e /\ e \in 1 .. e /\ 0 + 1 = 1
    BY <1>2
  <2>2. SubSeq(b, 1, e) = SubSeq(p, 1, e)
    BY <1>1, <2>1, SubSeqOfConcat1
  <2> HIDE DEF b
  <2> QED BY <1>1, <2>1, <2>2, SubSeqFull
<1>4. SubSeq(b, e + 1, Len(b)) = x
  <2>1. CASE x = <<>>
    <3>1. b = p /\ Len(b) = e /\ e + 1 > e /\ Len(x) = 0
      BY <1>1, <1>2, <2>1, ConcatEmptySeq
    <3>2. SubSeq(p, e + 1, e) \in Seq(Bytes) /\ Len(SubSeq(p, e + 1, e)) = 0
      <4>1. e + 1 \in Int /\ e \in Int /\ ~(e + 1 <= e) /\ e + 1 .. e = {}
        BY <1>2
      <4> QED BY <1>1, <4>1, SubSeqProperties
    <3>3. SubSeq(p, e + 1, e) = <<>>
      BY <3>2, EmptySeq
    <3> HIDE DEF b
    <3> QED BY <2>1, <3>1, <3>3
  <2>2. CASE x # <<>>
    <3>1. Len(x) # 0
      BY <1>1, <2>2, EmptySeq
    <3>2. /\ e + 1 \in e + 1 .. e + Len(x) /\ e + Len(x) \in e + 1 .. e + Len(x)
          /\ (e + 1) - e = 1 /\ (e + Len(x)) - e = Len(x)
      BY <1>2, <3>1
    <3>3. SubSeq(b, e + 1, e + Len(x)) = SubSeq(x, (e + 1) - e, (e + Len(x)) - e)
      BY <1>1, <3>2, SubSeqOfConcat2
    <3> HIDE DEF b
    <3> QED BY <1>1, <1>2, <3>2, <3>3, SubSeqFull
  <2> QED BY <2>1, <2>2
<1> HIDE DEF b
<1>5. b \in ByteString /\ 0 \in 0 .. Len(b) /\ e \in 0 + 1 .. Len(b) /\ e \in 0 .. Len(b) /\ e - 0 = e
  BY <1>2 DEF ByteString
<1>6. e \in PacketEnd(b, 0)
  <2>1. IsPacket(SubSeq(b, 0 + 1, e))
    BY <1>3 DEF Accepted
  <2> QED BY <1>5, <2>1, PacketEnds
<1>7. ~HeaderRejected(b, 0) /\ ~BodyRejected(b, 0, e)
  <2>1. /\ HeaderRejected(SubSeq(b, 0 + 1, e), 0) <=> HeaderRejected(b, 0)
        /\ BodyRejected(SubSeq(b, 0 + 1, e), 0, e - 0) <=> BodyRejected(b, 0, e)
    BY <1>5, <1>6, PacketHeader
  <2> QED BY <1>3, <1>5, <2>1 DEF Accepted
<1>8. (CHOOSE end \in PacketEnd(b, 0) : TRUE) = e
  BY <1>5, <1>6, OneEndOnly
<1>9. PICK f : DecodePackets(b) = f[0] /\ Decodes(b, f)
  BY <1>5, DecodePacketsIs
<1>10. f[e] \in Decoded /\ d \in Decoded /\ Outcome(f[e]) = Outcome(d)
  <2>1. f[e] \in Decoded
    BY <1>5, <1>9, DecodingIsWell
  <2>2. d \in Decoded
    BY DecodeTakesApart
  <2>3. Outcome(f[e]) = Outcome(DecodePackets(SubSeq(b, e + 1, Len(b))))
    BY <1>5, <1>9, DecodingFrom
  <2> QED BY <1>4, <2>1, <2>2, <2>3
<1>11. f[0] = IF f[e].error THEN Failed(b) ELSE [f[e] EXCEPT !.packets = <<p>> \o @]
  <2>1. f[0] = DecodedAt(b, f, 0)
    BY <1>5, <1>9 DEF Decodes
  <2> HIDE DEF e
  <2> QED BY <1>3, <1>6, <1>7, <1>8, <2>1 DEF DecodedAt
<1> HIDE DEF d, e
<1>12. f[e].error = d.error /\ f[e].packets = d.packets /\ (~d.error => f[e].rest = d.rest)
  BY <1>10 DEF Outcome
<1>13. f[e] = [error |-> f[e].error, packets |-> f[e].packets, rest |-> f[e].rest]
  BY <1>10 DEF Decoded
<1>14. CASE d.error
  <2>1. f[0] = Failed(b)
    BY <1>11, <1>12, <1>14
  <2>2. f[0].error
    BY <2>1 DEF Failed
  <2>3. f[0].error = d.error
    BY <1>10, <1>14, <2>1 DEF Failed, Decoded
  <2> QED BY <1>9, <1>14, <2>3 DEF After, b, d
<1>15. CASE ~d.error
  <2>1. f[0] = [f[e] EXCEPT !.packets = <<p>> \o @]
    BY <1>11, <1>12, <1>15
  <2>2. f[0] = [error |-> f[e].error, packets |-> <<p>> \o f[e].packets, rest |-> f[e].rest]
    BY <1>13, <2>1
  <2>3. f[0].error = d.error /\ f[0].packets = <<p>> \o d.packets /\ f[0].rest = d.rest
    BY <1>12, <1>15, <2>2
  <2> QED BY <1>9, <2>3 DEF After, b, d
<1> QED BY <1>14, <1>15

\* So is every packet of a sequence of them.
LEMMA DecodeAfterPackets ==
  ASSUME NEW ps \in Seq(Packets), \A i \in DOMAIN ps : Accepted(ps[i]), NEW x \in ByteString
  PROVE  After(ps, DecodePackets(x), DecodePackets(FlattenSeq(ps) \o x))
<1> DEFINE Good(qs, y) == After(qs, DecodePackets(y), DecodePackets(FlattenSeq(qs) \o y))
           P(n) == \A qs \in Seq(Packets) :
                      Len(qs) = n /\ (\A i \in DOMAIN qs : Accepted(qs[i])) =>
                         \A y \in ByteString : Good(qs, y)
           T == {n \in Nat : P(n)}
<1>1. P(0)
  <2> SUFFICES ASSUME NEW qs \in Seq(Packets), Len(qs) = 0, NEW y \in ByteString
               PROVE  Good(qs, y)
    OBVIOUS
  <2>1. qs = <<>>
    BY EmptySeq
  <2>2. FlattenSeq(qs) \o y = y
    BY <2>1, FlattenEmpty, ConcatEmptySeq DEF ByteString
  <2>3. DecodePackets(y) \in Decoded
    BY DecodeTakesApart
  <2>4. qs \o DecodePackets(y).packets = DecodePackets(y).packets
    BY <2>1, <2>3, ConcatEmptySeq DEF Decoded
  <2> QED BY <2>2, <2>4 DEF After
<1>2. ASSUME NEW n \in Nat, P(n) PROVE P(n + 1)
  <2>1. SUFFICES ASSUME NEW qs \in Seq(Packets), Len(qs) = n + 1,
                        \A i \in DOMAIN qs : Accepted(qs[i]), NEW y \in ByteString
                 PROVE  Good(qs, y)
    <3> HIDE DEF Good
    <3> QED OBVIOUS
  <2>2. PICK rs \in Seq(Packets), p \in Packets : qs = Append(rs, p)
    <3>1. qs # <<>>
      BY <2>1, EmptySeq
    <3> QED BY <3>1, SequenceEmptyOrAppend
  <2>3. /\ Len(rs) \in Nat /\ Len(rs) = n /\ DOMAIN rs = 1 .. n /\ DOMAIN qs = 1 .. n + 1
        /\ \A i \in 1 .. n : qs[i] = rs[i]
        /\ qs[n + 1] = p
    BY <2>1, <2>2, AppendProperties, LenProperties
  <2>4. Accepted(p) /\ \A i \in DOMAIN rs : Accepted(rs[i])
    <3>1. n + 1 \in DOMAIN qs /\ \A i \in DOMAIN rs : i \in DOMAIN qs
      BY <2>3
    <3> QED BY <2>1, <2>3, <3>1
  <2>5. p \in Seq(Bytes) /\ y \in Seq(Bytes) /\ rs \in Seq(Seq(Bytes)) /\ p \o y \in ByteString
    <3>1. p \in Seq(Bytes) /\ y \in Seq(Bytes) /\ rs \in Seq(Seq(Bytes))
      BY PacketsAreBytes DEF Packets, ByteString
    <3> QED BY <3>1, ConcatProperties DEF ByteString
  <2>6. FlattenSeq(qs) \o y = FlattenSeq(rs) \o (p \o y)
    <3>1. FlattenSeq(qs) = FlattenSeq(rs) \o p /\ FlattenSeq(rs) \in Seq(Bytes)
      BY <2>2, <2>5, FlattenAppend, FlattenType
    <3>2. (FlattenSeq(rs) \o p) \o y = FlattenSeq(rs) \o (p \o y)
      BY <2>5, <3>1, ConcatAssociative, SMTT(30)
    <3> QED BY <3>1, <3>2
  <2> DEFINE d == DecodePackets(y)
             later == DecodePackets(p \o y)
             all == DecodePackets(FlattenSeq(rs) \o (p \o y))
  <2>7. After(<<p>>, d, later)
    BY <2>4, DecodeAfterPacket
  <2>8. After(rs, later, all)
    <3>1. Good(rs, p \o y)
      <4> HIDE DEF Good
      <4>1. Len(rs) = n /\ \A i \in DOMAIN rs : Accepted(rs[i])
        BY <2>3, <2>4
      <4>2. \A z \in ByteString : Good(rs, z)
        BY <1>2, <4>1
      <4> QED BY <2>5, <4>2
    <3> QED BY <3>1
  <2>9. d \in Decoded
    BY DecodeTakesApart
  <2> HIDE DEF d, later, all
  <2>10. rs \o (<<p>> \o d.packets) = qs \o d.packets
    <3>1. d.packets \in Seq(Packets)
      BY <2>9 DEF Decoded
    <3> DEFINE t == d.packets
    <3> HIDE DEF t
    <3>2. t \in Seq(Packets)
      BY <3>1 DEF t
    <3>3. rs \o (<<p>> \o t) = Append(rs, p) \o t
      BY <3>2, ConcatAppend, SMTT(30)
    <3> QED BY <2>2, <3>3 DEF t
  <2>11. After(qs, d, all)
    BY <2>7, <2>8, <2>10 DEF After
  <2> QED BY <2>6, <2>11 DEF d, all
<1> HIDE DEF P
<1>3. 0 \in T /\ \A n \in Nat : n \in T => n + 1 \in T
  BY <1>1, <1>2
<1>4. \A n \in Nat : n \in T
  <2> HIDE DEF T
  <2> QED BY <1>3, Induction
<1>5. Len(ps) \in Nat
  BY LenProperties
<1>6. P(Len(ps))
  BY <1>4, <1>5
<1> QED BY <1>6 DEF P

(***************************************************************************)
(* Where a stream is cut does not matter to decode_packets: to decode the  *)
(* rest of what was decoded, with more bytes after it, is to decode all of *)
(* them at once, also when they do not decode.                             *)
(***************************************************************************)
THEOREM DecodeInPieces ==
  ASSUME NEW a \in ByteString, NEW data \in ByteString, ~DecodePackets(a).error
  PROVE  LET first == DecodePackets(a)
         IN  After(first.packets, DecodePackets(first.rest \o data), DecodePackets(a \o data))
<1> DEFINE first == DecodePackets(a)
           before == FlattenSeq(first.packets)
<1>1. first \in Decoded /\ TakenApart(a, first)
  BY DecodeTakesApart
<1> HIDE DEF first
<1>2. first.packets \in Seq(Packets) /\ first.rest \in Seq(Bytes) /\ data \in Seq(Bytes)
  BY <1>1 DEF Decoded, ByteString
<1>3. first.rest \o data \in ByteString /\ before \in Seq(Bytes)
  BY <1>2, ConcatProperties, PacketsAreBytes, FlattenType DEF ByteString
<1>4. before \o first.rest = a /\ \A i \in DOMAIN first.packets : Accepted(first.packets[i])
  BY <1>1 DEF TakenApart
<1>5. After(first.packets, DecodePackets(first.rest \o data),
            DecodePackets(before \o (first.rest \o data)))
  BY <1>2, <1>3, <1>4, DecodeAfterPackets
<1>6. before \o (first.rest \o data) = (before \o first.rest) \o data
  <2>1. \A u, v, w \in Seq(Bytes) : u \o (v \o w) = (u \o v) \o w
    BY ConcatIsAssociative, SMTT(30)
  <2> HIDE DEF before
  <2> QED BY <1>2, <1>3, <2>1, Zenon
<1> HIDE DEF before
<1>7. before \o (first.rest \o data) = a \o data
  BY <1>4, <1>6
<1> QED BY <1>5, <1>7 DEF first

-----------------------------------------------------------------------------
(* What the bridge writes *)

LEMMA FrameHeader ==
  ASSUME 0 .. 2 * Base - 1 \subseteq Bytes, NEW first \in Bytes, NEW body \in ByteString
  PROVE  LET digits == EncodeRemainingLength(Len(body))
             s == MqttFrame(first, body)
             k == Len(digits)
         IN  /\ s \in ByteString /\ Len(s) = 1 + k + Len(body) /\ s[1] = first
             /\ \A j \in 1 .. k : s[1 + j] = digits[j]
             /\ SubSeq(s, 1 + 1, 1 + k) = digits
             /\ digits \in Seq(Nat) /\ Marked(digits) /\ k \in Nat \ {0}
             /\ RemainingLength(digits) = Len(body)
<1> DEFINE digits == EncodeRemainingLength(Len(body))
           k == Len(digits)
           header == <<first>> \o digits
           s == header \o body
<1>0. Len(body) \in Nat /\ body \in Seq(Bytes)
  BY BytesOf DEF ByteString
<1>1. Marked(digits) /\ Number(digits) = Len(body)
  BY <1>0, EncodedIsTheLength
<1>2. digits \in Seq(Bytes) /\ digits \in Seq(Nat) /\ k \in Nat \ {0}
  <2>1. digits \in Seq(0 .. 2 * Base - 1) /\ k \in Nat \ {0}
    BY <1>1 DEF Marked
  <2>2. 0 .. 2 * Base - 1 \subseteq Nat
    BY StreamsAssumption
  <2> HIDE DEF digits
  <2> QED BY <2>1, <2>2, SeqMonotonic
<1>3. RemainingLength(digits) = Len(body)
  <2> HIDE DEF digits
  <2> QED BY <1>1, <1>2, LengthIsTheNumber
<1> HIDE DEF digits
<1>4. <<first>> \in Seq(Bytes) /\ Len(<<first>>) = 1 /\ <<first>>[1] = first
  OBVIOUS
<1>5. /\ header \in Seq(Bytes) /\ Len(header) = 1 + k
      /\ \A i \in 1 .. 1 + k : header[i] = IF i <= 1 THEN <<first>>[i] ELSE digits[i - 1]
  BY <1>2, <1>4, ConcatProperties
<1>6. SubSeq(header, 2, 1 + k) = digits
  <2>1. /\ 2 \in 1 + 1 .. 1 + k /\ 1 + k \in 1 + 1 .. 1 + k
        /\ 2 - 1 = 1 /\ (1 + k) - 1 = k
    BY <1>2
  <2>2. SubSeq(header, 2, 1 + k) = SubSeq(digits, 2 - Len(<<first>>), (1 + k) - Len(<<first>>))
    BY <1>2, <1>4, <2>1, SubSeqOfConcat2
  <2>3. SubSeq(digits, 1, k) = digits
    BY <1>2, SubSeqFull
  <2> HIDE DEF header, k
  <2> QED BY <1>4, <2>1, <2>2, <2>3
<1> HIDE DEF header
<1>7. /\ s \in Seq(Bytes) /\ Len(s) = (1 + k) + Len(body)
      /\ \A i \in 1 .. (1 + k) + Len(body) :
            s[i] = IF i <= 1 + k THEN header[i] ELSE body[i - (1 + k)]
  <2> HIDE DEF k
  <2> QED BY <1>0, <1>5, ConcatProperties
<1>8. SubSeq(s, 1 + 1, 1 + k) = digits
  <2>1. 2 \in 1 .. 1 + k /\ 1 + k \in 1 .. 1 + k /\ 1 + 1 = 2
    BY <1>2
  <2>2. SubSeq(s, 2, 1 + k) = SubSeq(header, 2, 1 + k)
    <3> HIDE DEF k
    <3> QED BY <1>0, <1>5, <2>1, SubSeqOfConcat1
  <2> HIDE DEF s, k
  <2> QED BY <1>6, <2>1, <2>2
<1> HIDE DEF s
<1>9. s[1] = first
  <2>1. 1 \in 1 .. (1 + k) + Len(body) /\ 1 <= 1 + k /\ 1 \in 1 .. 1 + k /\ 1 <= 1
    BY <1>0, <1>2
  <2>2. s[1] = header[1]
    BY <1>7, <2>1
  <2>3. header[1] = <<first>>[1]
    BY <1>5, <2>1
  <2> QED BY <1>4, <2>2, <2>3
<1>10. ASSUME NEW j \in 1 .. k PROVE s[1 + j] = digits[j]
  <2>1. /\ 1 + j \in 1 .. (1 + k) + Len(body) /\ 1 + j <= 1 + k /\ 1 + j \in 1 .. 1 + k
        /\ ~(1 + j <= 1) /\ (1 + j) - 1 = j
    BY <1>0, <1>2
  <2>2. s[1 + j] = header[1 + j]
    BY <1>7, <2>1
  <2>3. header[1 + j] = digits[(1 + j) - 1]
    BY <1>5, <2>1
  <2> QED BY <2>1, <2>2, <2>3
<1> QED BY <1>1, <1>2, <1>3, <1>7, <1>8, <1>9, <1>10 DEF ByteString, MqttFrame, s, header, digits

LEMMA FrameIsAccepted ==
  ASSUME 0 .. 2 * Base - 1 \subseteq Bytes, NEW first \in Bytes, NEW body \in ByteString,
         Len(body) <= LengthLimit, Len(body) <= MaxPacketBytes, MinBody[first] <= Len(body)
  PROVE  MqttFrame(first, body) \in Packets /\ Accepted(MqttFrame(first, body))
<1> DEFINE digits == EncodeRemainingLength(Len(body))
           s == MqttFrame(first, body)
           k == Len(digits)
<1>0. Len(body) \in Nat /\ MaxDigits \in Nat /\ Base \in Nat /\ MaxPacketBytes \in Nat /\ 0 + 1 = 1
  BY BytesOf, StreamsAssumption
<1>1. /\ s \in ByteString /\ Len(s) = 1 + k + Len(body) /\ s[1] = first
      /\ \A j \in 1 .. k : s[1 + j] = digits[j]
      /\ SubSeq(s, 1 + 1, 1 + k) = digits
      /\ digits \in Seq(Nat) /\ Marked(digits) /\ k \in Nat \ {0}
      /\ RemainingLength(digits) = Len(body)
  BY FrameHeader
<1>2. k <= MaxDigits
  BY <1>0, DigitsSuffice
<1> HIDE DEF s, digits
<1>3. digits[k] < Base /\ (\A j \in 1 .. k - 1 : digits[j] >= Base) /\ \A j \in 1 .. k : digits[j] \in Nat
  BY <1>1, LenProperties DEF Marked
<1> HIDE DEF k
<1>4. k \in DigitCount(s, 1)
  <2>1. k \in 1 .. MaxDigits /\ 1 + k <= Len(s) /\ k \in 1 .. k /\ \A j \in 1 .. k - 1 : j \in 1 .. k
    BY <1>0, <1>1, <1>2
  <2> QED BY <1>1, <1>3, <2>1 DEF DigitCount
<1>5. \A l \in DigitCount(s, 1) : l = k
  BY <1>0, <1>1, <1>4, OneCount
<1>6. Digits(s, 1, k) = digits
  BY <1>1 DEF Digits
<1>7. IsPacket(s)
  BY <1>1, <1>4, <1>6, PacketByScan
<1>8. ~TooManyDigits(s, 1)
  <2>1. k \in 1 .. MaxDigits /\ k \in 1 .. k
    BY <1>1, <1>0, <1>2
  <2>2. s[1 + k] = digits[k] /\ digits[k] \in Nat
    BY <1>1, <1>3, <2>1
  <2>3. ~(s[1 + k] >= Base)
    BY <1>0, <1>3, <2>2
  <2> QED BY <2>1, <2>3 DEF TooManyDigits
<1>9. ~HeaderRejected(s, 0)
  <2>1. ~(RemainingLength(Digits(s, 1, k)) > MaxPacketBytes)
    BY <1>0, <1>1, <1>6
  <2> QED BY <1>0, <1>5, <1>8, <2>1 DEF HeaderRejected
<1>10. ~BodyRejected(s, 0, Len(s))
  <2>1. Len(s) - (0 + 1 + k) = Len(body)
    BY <1>0, <1>1
  <2>2. MinBody[first] \in Nat
    BY StreamsAssumption
  <2>3. ~(Len(s) - (0 + 1 + k) < MinBody[s[0 + 1]])
    BY <1>0, <1>1, <2>1, <2>2
  <2> QED BY <1>0, <1>5, <2>3 DEF BodyRejected
<1>11. s # <<>>
  <2>1. Len(s) # 0
    BY <1>0, <1>1
  <2> QED BY <2>1, EmptySeq
<1>12. s \in Packets /\ Accepted(s)
  BY <1>1, <1>7, <1>9, <1>10, <1>11 DEF Packets, Accepted
<1> QED BY <1>12 DEF s

(***************************************************************************)
(* A packet that _frame writes, of a body that is long enough for its type *)
(* and no longer than decode_packets takes, is the first that              *)
(* decode_packets reads of it and whatever follows.                        *)
(***************************************************************************)
THEOREM FrameIsDecoded ==
  ASSUME 0 .. 2 * Base - 1 \subseteq Bytes,
         NEW first \in Bytes, NEW body \in ByteString, NEW x \in ByteString,
         Len(body) <= LengthLimit, Len(body) <= MaxPacketBytes, MinBody[first] <= Len(body)
  PROVE  After(<<MqttFrame(first, body)>>, DecodePackets(x),
               DecodePackets(MqttFrame(first, body) \o x))
<1>1. MqttFrame(first, body) \in Packets /\ Accepted(MqttFrame(first, body))
  BY FrameIsAccepted
<1> QED BY <1>1, DecodeAfterPacket

-----------------------------------------------------------------------------
(* The specification *)

LEMMA FrameType ==
  ASSUME NEW data \in Frames
  PROVE  data \in ByteString /\ data # <<>>
<1>1. PICK n \in 1 .. MaxFrame : data \in [1 .. n -> Bytes]
  BY DEF Frames
<1>2. n \in Nat /\ n # 0
  BY <1>1, StreamsAssumption
<1>3. data \in Seq(Bytes) /\ Len(data) = n
  BY <1>1, <1>2
<1> QED BY <1>2, <1>3 DEF ByteString

\* What a step that reads a frame works on, and what comes of it.
LEMMA Reads ==
  ASSUME TypeOK, NEW data \in Frames
  PROVE  LET all == buffer \o data
             d   == DecodePackets(all)
         IN  /\ all \in Packets
             /\ received \o data \in ByteString
             /\ d \in Decoded
             /\ ~d.error => TakenApart(all, d)
<1> DEFINE all == buffer \o data
<1>1. buffer \in Seq(Bytes) /\ received \in Seq(Bytes) /\ data \in Seq(Bytes) /\ data # <<>>
  BY FrameType DEF TypeOK, ByteString
<1>2. all \in ByteString /\ received \o data \in ByteString
  BY <1>1, ConcatProperties DEF ByteString
<1>3. all # <<>>
  BY <1>1, ConcatEqualIffEmpty
<1>4. DecodePackets(all) \in Decoded /\ (~DecodePackets(all).error => TakenApart(all, DecodePackets(all)))
  <2> HIDE DEF all
  <2> QED BY <1>2, DecodeTakesApart
<1> QED BY <1>2, <1>3, <1>4 DEF Packets

\* What went out and what is buffered still is what came in.
LEMMA NothingLost ==
  ASSUME TypeOK, NEW data \in Frames, FlattenSeq(passed) \o buffer = received,
         NEW ps \in Seq(Packets), NEW rest \in ByteString,
         FlattenSeq(ps) \o rest = buffer \o data
  PROVE  FlattenSeq(passed \o ps) \o rest = received \o data
<1> DEFINE before == FlattenSeq(passed)
           now == FlattenSeq(ps)
<1>1. passed \in Seq(Seq(Bytes)) /\ ps \in Seq(Seq(Bytes))
  BY PacketsAreBytes DEF TypeOK, Packets
<1>2. before \in Seq(Bytes) /\ now \in Seq(Bytes)
  BY <1>1, FlattenType
<1>3. buffer \in Seq(Bytes) /\ data \in Seq(Bytes) /\ rest \in Seq(Bytes)
  BY FrameType DEF TypeOK, ByteString
<1>4. FlattenSeq(passed \o ps) = before \o now
  BY <1>1, FlattenConcat
<1>5. \A x, y, z \in Seq(Bytes) : x \o (y \o z) = (x \o y) \o z
  BY ConcatIsAssociative, SMTT(30)
<1>6. (before \o now) \o rest = before \o (now \o rest)
  <2> HIDE DEF before, now
  <2> QED BY <1>2, <1>3, <1>5, Zenon
<1>7. before \o (buffer \o data) = (before \o buffer) \o data
  <2> HIDE DEF before, now
  <2> QED BY <1>2, <1>3, <1>5, Zenon
<1>8. now \o rest = buffer \o data /\ before \o buffer = received
  OBVIOUS
<1> HIDE DEF before, now
<1> QED BY <1>4, <1>6, <1>7, <1>8

\* TypeOK: whatever the peers send, buffers and packets are bytes, no empty packet
\* is passed on, and only the appliance's stream closes the session.
THEOREM StreamsTypeOK == Spec => []TypeOK
<1>1. Init => TypeOK
  BY EmptySeq DEF Init, TypeOK, ByteString
<1>2. TypeOK /\ [Next]_vars => TypeOK'
  <2> SUFFICES ASSUME TypeOK, [Next]_vars PROVE TypeOK'
    OBVIOUS
  <2> DEFINE d(data) == DecodePackets(buffer \o data)
  <2>1. ASSUME NEW data \in Frames
        PROVE  /\ buffer \o data \in ByteString \ {<<>>}
               /\ received \o data \in ByteString
               /\ d(data).rest \in ByteString
               /\ passed \o d(data).packets \in Seq(ByteString \ {<<>>})
               /\ Append(passed, buffer \o data) \in Seq(ByteString \ {<<>>})
    <3>1. d(data) \in Decoded /\ buffer \o data \in Packets /\ received \o data \in ByteString
      BY Reads
    <3>2. d(data).rest \in ByteString /\ d(data).packets \in Seq(Packets)
      BY <3>1 DEF Decoded
    <3>3. passed \in Seq(Packets)
      BY DEF TypeOK, Packets
    <3> HIDE DEF d
    <3>4. passed \o d(data).packets \in Seq(Packets) /\ Append(passed, buffer \o data) \in Seq(Packets)
      BY <3>1, <3>2, <3>3, ConcatProperties, AppendProperties
    <3> QED BY <3>1, <3>2, <3>4 DEF Packets
  <2>2. ASSUME NEW data \in Frames, HandleDeviceBytes(data) PROVE TypeOK'
    <3>1. \/ closed' = TRUE /\ buffer' = buffer \o data /\ UNCHANGED passed
          \/ buffer' = d(data).rest /\ passed' = passed \o d(data).packets /\ UNCHANGED closed
      BY <2>2 DEF HandleDeviceBytes, TailKept
    <3>2. side = "device" /\ received' = received \o data /\ UNCHANGED <<side, cut>>
      BY <2>2 DEF HandleDeviceBytes
    <3> HIDE DEF d
    <3> QED BY <2>1, <3>1, <3>2 DEF TypeOK
  <2>3. ASSUME NEW data \in Frames, HandleUpstreamBytes(data) PROVE TypeOK'
    <3>1. \/ buffer' = <<>> /\ passed' = Append(passed, buffer \o data)
          \/ buffer' = d(data).rest /\ passed' = passed \o d(data).packets
      BY <2>3 DEF HandleUpstreamBytes, TailKept, Emptied
    <3>2. received' = received \o data /\ UNCHANGED <<side, closed, cut>>
      BY <2>3 DEF HandleUpstreamBytes, StaysOpen
    <3>3. <<>> \in ByteString
      BY EmptySeq DEF ByteString
    <3> HIDE DEF d
    <3> QED BY <2>1, <3>1, <3>2, <3>3 DEF TypeOK
  <2>4. CASE FallbackDropsBuffer
    BY <2>4, EmptySeq DEF FallbackDropsBuffer, TypeOK, ByteString
  <2>5. CASE UNCHANGED vars
    BY <2>5 DEF vars, TypeOK
  <2> QED BY <2>2, <2>3, <2>4, <2>5 DEF Next
<1> QED BY <1>1, <1>2, PTL DEF Spec

\* HandledAsSent: however an appliance's bytes are cut into frames, an open session
\* handles its packets one by one, in order, each once it is complete.
THEOREM StreamsHandledAsSent == Spec => []HandledAsSent
<1>1. Init => HandledAsSent
  <2> SUFFICES ASSUME Init PROVE HandledAsSent
    OBVIOUS
  <2>1. passed = <<>> /\ buffer = <<>> /\ received = <<>>
    BY DEF Init
  <2>2. FlattenSeq(passed) \o buffer = received
    BY <2>1, FlattenEmpty, EmptySeq, ConcatEmptySeq
  <2>3. DOMAIN passed = {} /\ 1 .. Len(buffer) = {}
    BY <2>1
  <2> QED BY <2>2, <2>3 DEF HandledAsSent, PacketWaits
<1>2. TypeOK /\ HandledAsSent /\ [Next]_vars => HandledAsSent'
  <2> SUFFICES ASSUME TypeOK, HandledAsSent, [Next]_vars, side' = "device", ~closed'
               PROVE  /\ FlattenSeq(passed') \o buffer' = received'
                      /\ \A i \in DOMAIN passed' : IsPacket(passed'[i])
                      /\ ~PacketWaits'
    BY DEF HandledAsSent
  <2>1. ASSUME NEW data \in Frames, HandleDeviceBytes(data)
        PROVE  /\ FlattenSeq(passed') \o buffer' = received'
               /\ \A i \in DOMAIN passed' : IsPacket(passed'[i])
               /\ ~PacketWaits'
    <3> DEFINE d == DecodePackets(buffer \o data)
    <3>1. /\ side = "device" /\ ~closed /\ ~d.error
          /\ received' = received \o data
          /\ buffer' = d.rest /\ passed' = passed \o d.packets
      BY <2>1 DEF HandleDeviceBytes, TailKept
    <3>2. /\ FlattenSeq(passed) \o buffer = received
          /\ \A i \in DOMAIN passed : IsPacket(passed[i])
      BY <3>1 DEF HandledAsSent
    <3>3. d \in Decoded /\ TakenApart(buffer \o data, d)
      BY <3>1, Reads
    <3> HIDE DEF d
    <3>4. d.packets \in Seq(Packets) /\ d.rest \in ByteString /\ passed \in Seq(Packets)
      BY <3>3 DEF Decoded, TypeOK, Packets
    <3>5. FlattenSeq(passed \o d.packets) \o d.rest = received \o data
      BY <3>2, <3>3, <3>4, NothingLost DEF TakenApart
    <3>6. ASSUME NEW i \in DOMAIN (passed \o d.packets) PROVE IsPacket((passed \o d.packets)[i])
      <4> DEFINE m == Len(passed)
                 k == Len(d.packets)
                 both == passed \o d.packets
      <4>1. /\ m \in Nat /\ k \in Nat /\ DOMAIN passed = 1 .. m /\ DOMAIN d.packets = 1 .. k
            /\ both \in Seq(Packets) /\ Len(both) = m + k
            /\ \A j \in 1 .. m + k : both[j] = IF j <= m THEN passed[j] ELSE d.packets[j - m]
        BY <3>4, LenProperties, ConcatProperties
      <4>2. i \in 1 .. m + k
        BY <4>1, LenProperties
      <4> HIDE DEF m, k, both
      <4>3. CASE i <= m
        <5>1. i \in DOMAIN passed /\ both[i] = passed[i]
          BY <4>1, <4>2, <4>3
        <5> QED BY <3>2, <5>1 DEF both
      <4>4. CASE ~(i <= m)
        <5>1. i - m \in DOMAIN d.packets /\ both[i] = d.packets[i - m]
          BY <4>1, <4>2, <4>4
        <5> QED BY <3>3, <5>1 DEF both, TakenApart, Accepted
      <4> QED BY <4>3, <4>4
    <3>7. ~PacketWaits'
      BY <3>1, <3>3 DEF TakenApart, NoneWaits, PacketWaits
    <3> QED BY <3>1, <3>5, <3>6, <3>7
  <2>2. CASE UNCHANGED vars
    BY <2>2 DEF vars, HandledAsSent, PacketWaits
  <2>3. ASSUME NEW data \in Frames, HandleUpstreamBytes(data) PROVE FALSE
    BY <2>3 DEF HandleUpstreamBytes
  <2>4. CASE FallbackDropsBuffer
    BY <2>4 DEF FallbackDropsBuffer
  <2> QED BY <2>1, <2>2, <2>3, <2>4 DEF Next
<1> QED BY <1>1, <1>2, StreamsTypeOK, PTL DEF Spec

\* RelayedAsSent: the relay passes down the cloud's bytes, all of them until a
\* fallback cuts a packet, and never holds a whole packet back.
THEOREM StreamsRelayedAsSent == Spec => []RelayedAsSent
<1>0. ASSUME NEW b, b = <<>> PROVE NoneWaits(b)
  <2>1. 1 .. Len(b) = {}
    BY <1>0
  <2> QED BY <2>1 DEF NoneWaits
<1>1. Init => RelayedAsSent
  <2> SUFFICES ASSUME Init PROVE RelayedAsSent
    OBVIOUS
  <2>1. passed = <<>> /\ buffer = <<>> /\ received = <<>>
    BY DEF Init
  <2>2. FlattenSeq(passed) \o buffer = received
    BY <2>1, FlattenEmpty, EmptySeq, ConcatEmptySeq
  <2>3. ~PacketWaits
    BY <1>0, <2>1 DEF NoneWaits, PacketWaits
  <2> QED BY <2>2, <2>3 DEF RelayedAsSent
<1>2. TypeOK /\ RelayedAsSent /\ [Next]_vars => RelayedAsSent'
  <2> SUFFICES ASSUME TypeOK, RelayedAsSent, [Next]_vars, side' = "cloud"
               PROVE  /\ ~cut' => FlattenSeq(passed') \o buffer' = received'
                      /\ ~PacketWaits'
    BY DEF RelayedAsSent
  <2>1. ASSUME NEW data \in Frames, HandleUpstreamBytes(data)
        PROVE  /\ ~cut' => FlattenSeq(passed') \o buffer' = received'
               /\ ~PacketWaits'
    <3> DEFINE all == buffer \o data
               d == DecodePackets(all)
    <3>1. /\ side = "cloud" /\ received' = received \o data /\ cut' = cut
          /\ buffer' = IF d.error THEN <<>> ELSE d.rest
          /\ passed' = IF d.error THEN Append(passed, all) ELSE passed \o d.packets
      BY <2>1 DEF HandleUpstreamBytes, TailKept, Emptied
    <3>2. ~cut => FlattenSeq(passed) \o buffer = received
      BY <3>1 DEF RelayedAsSent
    <3>3. /\ all \in Packets /\ d \in Decoded
          /\ ~d.error => TakenApart(all, d)
      BY Reads
    <3>4. CASE d.error
      <4>1. buffer' = <<>> /\ passed' = Append(passed, all)
        BY <3>1, <3>4
      <4>2. ~PacketWaits'
        BY <1>0, <4>1 DEF NoneWaits, PacketWaits
      <4>3. passed \in Seq(Packets)
        BY DEF TypeOK, Packets
      <4>4. Append(passed, all) = passed \o <<all>> /\ <<all>> \in Seq(Packets)
        <5> HIDE DEF all
        <5> QED BY <3>3, <4>3, AppendIsConcat
      <4>5. FlattenSeq(<<all>>) \o <<>> = all /\ <<>> \in ByteString
        <5>1. all \in Seq(Bytes) /\ FlattenSeq(<<all>>) = all
          BY <3>3, FlattenOne DEF Packets, ByteString
        <5> HIDE DEF all
        <5> QED BY <5>1, ConcatEmptySeq, EmptySeq DEF ByteString
      <4>6. ASSUME ~cut PROVE FlattenSeq(passed \o <<all>>) \o <<>> = received \o data
        BY <3>2, <4>4, <4>5, <4>6, NothingLost
      <4> QED BY <3>1, <4>1, <4>2, <4>4, <4>6
    <3>5. CASE ~d.error
      <4>1. buffer' = d.rest /\ passed' = passed \o d.packets /\ TakenApart(all, d)
        BY <3>1, <3>3, <3>5
      <4> HIDE DEF d
      <4>2. ~PacketWaits'
        BY <4>1 DEF TakenApart, NoneWaits, PacketWaits
      <4>3. d.packets \in Seq(Packets) /\ d.rest \in ByteString
        BY <3>3 DEF Decoded
      <4>4. ASSUME ~cut PROVE FlattenSeq(passed \o d.packets) \o d.rest = received \o data
        BY <3>2, <4>1, <4>3, <4>4, NothingLost DEF TakenApart
      <4> QED BY <3>1, <4>1, <4>2, <4>4
    <3> QED BY <3>4, <3>5
  <2>2. CASE UNCHANGED vars
    BY <2>2 DEF vars, RelayedAsSent, PacketWaits
  <2>3. ASSUME NEW data \in Frames, HandleDeviceBytes(data) PROVE FALSE
    BY <2>3 DEF HandleDeviceBytes
  <2>4. CASE FallbackDropsBuffer
    <3>1. cut' = TRUE /\ buffer' = <<>>
      BY <2>4 DEF FallbackDropsBuffer
    <3> QED BY <1>0, <3>1 DEF NoneWaits, PacketWaits
  <2> QED BY <2>1, <2>2, <2>3, <2>4 DEF Next
<1> QED BY <1>1, <1>2, StreamsTypeOK, PTL DEF Spec

\* BufferIsBounded: an open session buffers less than one packet of the largest size,
\* whatever lengths its peers declare.
THEOREM StreamsBufferIsBounded == Spec => []BufferIsBounded
<1>0. 0 < 1 + MaxDigits + MaxPacketBytes /\ Len(<<>>) = 0
  BY StreamsAssumption
<1>1. Init => BufferIsBounded
  BY <1>0 DEF Init, BufferIsBounded
<1>2. TypeOK /\ BufferIsBounded /\ [Next]_vars => BufferIsBounded'
  <2> SUFFICES ASSUME TypeOK, BufferIsBounded, [Next]_vars, ~closed'
               PROVE  Len(buffer') < 1 + MaxDigits + MaxPacketBytes
    BY DEF BufferIsBounded
  <2>1. ASSUME NEW data \in Frames, HandleDeviceBytes(data) \/ HandleUpstreamBytes(data)
        PROVE  Len(buffer') < 1 + MaxDigits + MaxPacketBytes
    <3> DEFINE d == DecodePackets(buffer \o data)
    <3>1. buffer' = <<>> \/ (~d.error /\ buffer' = d.rest)
      BY <2>1 DEF HandleDeviceBytes, HandleUpstreamBytes, TailKept, Emptied
    <3>2. ~d.error => TakenApart(buffer \o data, d)
      BY Reads
    <3> HIDE DEF d
    <3> QED BY <1>0, <3>1, <3>2 DEF TakenApart
  <2>2. CASE FallbackDropsBuffer
    BY <1>0, <2>2 DEF FallbackDropsBuffer
  <2>3. CASE UNCHANGED vars
    BY <2>3 DEF vars, BufferIsBounded
  <2> QED BY <2>1, <2>2, <2>3 DEF Next
<1> QED BY <1>1, <1>2, StreamsTypeOK, PTL DEF Spec

(***************************************************************************)
(* An open session has handled exactly the packets that one call of        *)
(* decode_packets takes out of everything it has read; one that closed     *)
(* itself has read bytes that do not decode, or more than the cap.         *)
(***************************************************************************)
InOneGo ==
    side = "device" =>
        /\ ~closed => /\ ~DecodePackets(received).error
                      /\ passed = DecodePackets(received).packets
                      /\ buffer = DecodePackets(received).rest
        /\ closed => DecodePackets(received).error \/ Len(buffer) > 2 * MaxPacketBytes

LEMMA DecodeNothing ==
  /\ DecodePackets(<<>>) \in Decoded /\ ~DecodePackets(<<>>).error
  /\ DecodePackets(<<>>).packets = <<>> /\ DecodePackets(<<>>).rest = <<>>
<1>1. <<>> \in ByteString /\ Len(<<>>) = 0 /\ 0 \in 0 .. Len(<<>>) /\ 0 + 1 = 1
  BY EmptySeq DEF ByteString
<1>2. PICK f : DecodePackets(<<>>) = f[0] /\ Decodes(<<>>, f)
  BY <1>1, DecodePacketsIs
<1>3. f[0] = DecodedAt(<<>>, f, 0)
  BY <1>1, <1>2 DEF Decodes
<1>4. PacketEnd(<<>>, 0) = {}
  BY <1>1 DEF PacketEnd
<1>5. SubSeq(<<>>, 0 + 1, Len(<<>>)) = <<>>
  BY <1>1, SubSeqFull DEF ByteString
<1>6. f[0] = [error |-> FALSE, packets |-> <<>>, rest |-> <<>>]
  <2>1. ~(0 < Len(<<>>) /\ HeaderRejected(<<>>, 0))
    BY <1>1
  <2>2. DecodedAt(<<>>, f, 0) = [error |-> FALSE, packets |-> <<>>, rest |-> SubSeq(<<>>, 0 + 1, Len(<<>>))]
    BY <1>4, <2>1, Zenon DEF DecodedAt
  <2> QED BY <1>3, <1>5, <2>2, Zenon
<1> QED BY <1>1, <1>2, <1>6, DecodeTakesApart

\* What a frame adds to the decoding of everything that was read.
LEMMA ReadsOn ==
  ASSUME TypeOK, InOneGo, side = "device", ~closed, NEW data \in Frames
  PROVE  After(passed, DecodePackets(buffer \o data), DecodePackets(received \o data))
<1>1. /\ ~DecodePackets(received).error
      /\ passed = DecodePackets(received).packets
      /\ buffer = DecodePackets(received).rest
  BY DEF InOneGo
<1>2. received \in ByteString /\ data \in ByteString
  BY FrameType DEF TypeOK
<1>3. After(DecodePackets(received).packets,
            DecodePackets(DecodePackets(received).rest \o data), DecodePackets(received \o data))
  BY <1>1, <1>2, DecodeInPieces
<1> QED BY <1>1, <1>3

\* InOneGo: how the appliance's bytes are cut into frames makes no difference to what
\* is handled, nor, but for the cap on the buffer, to whether the session is closed.
THEOREM StreamsInOneGo == Spec => []InOneGo
<1>1. Init => InOneGo
  BY DecodeNothing DEF Init, InOneGo
<1>2. TypeOK /\ InOneGo /\ [Next]_vars => InOneGo'
  <2> SUFFICES ASSUME TypeOK, InOneGo, [Next]_vars PROVE InOneGo'
    OBVIOUS
  <2>1. ASSUME NEW data \in Frames, HandleDeviceBytes(data) PROVE InOneGo'
    <3> DEFINE d == DecodePackets(buffer \o data)
               whole == DecodePackets(received \o data)
    <3>1. /\ side = "device" /\ ~closed /\ side' = side /\ received' = received \o data
          /\ \/ /\ Len(buffer \o data) > 2 * MaxPacketBytes \/ d.error
                /\ closed' = TRUE /\ buffer' = buffer \o data
             \/ /\ ~d.error
                /\ closed' = closed /\ buffer' = d.rest /\ passed' = passed \o d.packets
      BY <2>1 DEF HandleDeviceBytes, TailKept
    <3>2. After(passed, d, whole)
      BY <3>1, ReadsOn
    <3>3. whole = DecodePackets(received')
      BY <3>1
    <3> HIDE DEF d, whole
    <3>4. whole.error = d.error /\ (~d.error => whole.packets = passed \o d.packets /\ whole.rest = d.rest)
      BY <3>2 DEF After
    <3>5. CASE closed' = TRUE
      <4>1. whole.error \/ Len(buffer') > 2 * MaxPacketBytes
        BY <3>1, <3>4, <3>5
      <4> QED BY <3>3, <3>5, <4>1 DEF InOneGo
    <3>6. CASE closed' # TRUE
      <4>1. ~whole.error /\ passed' = whole.packets /\ buffer' = whole.rest /\ ~closed'
        BY <3>1, <3>4, <3>6
      <4> QED BY <3>3, <4>1 DEF InOneGo
    <3> QED BY <3>5, <3>6
  <2>2. CASE UNCHANGED vars
    BY <2>2 DEF vars, InOneGo
  <2>3. ASSUME NEW data \in Frames, HandleUpstreamBytes(data) PROVE InOneGo'
    BY <2>3 DEF HandleUpstreamBytes, InOneGo
  <2>4. CASE FallbackDropsBuffer
    BY <2>4 DEF FallbackDropsBuffer, InOneGo
  <2> QED BY <2>1, <2>2, <2>3, <2>4 DEF Next
<1> QED BY <1>1, <1>2, StreamsTypeOK, PTL DEF Spec

(***************************************************************************)
(* The session closes itself over bytes that do not decode, however they   *)
(* are cut, or over a frame that is longer than the largest packet less    *)
(* the bytes of its length: together with a packet that is nearly complete *)
(* it exceeds the cap, even if all of it is legal.                         *)
(***************************************************************************)
CloseHasCause ==
    ~closed /\ closed' =>
        \/ DecodePackets(received').error
        \/ \E data \in Frames : /\ received' = received \o data
                               /\ Len(data) + MaxDigits > MaxPacketBytes

LEMMA CloseStep ==
  TypeOK /\ InOneGo /\ BufferIsBounded /\ [Next]_vars => CloseHasCause
<1> SUFFICES ASSUME TypeOK, InOneGo, BufferIsBounded, [Next]_vars, ~closed, closed'
             PROVE  CloseHasCause
  BY DEF CloseHasCause
<1>1. ASSUME NEW data \in Frames, HandleDeviceBytes(data) PROVE CloseHasCause
  <2> DEFINE d == DecodePackets(buffer \o data)
             whole == DecodePackets(received \o data)
  <2>1. /\ side = "device" /\ received' = received \o data
        /\ Len(buffer \o data) > 2 * MaxPacketBytes \/ d.error \/ closed' = closed
    BY <1>1 DEF HandleDeviceBytes
  <2>2. After(passed, d, whole)
    BY <2>1, ReadsOn
  <2>3. CASE Len(buffer \o data) > 2 * MaxPacketBytes
    <3>1. buffer \in Seq(Bytes) /\ data \in Seq(Bytes)
          /\ Len(buffer) < 1 + MaxDigits + MaxPacketBytes
      BY FrameType DEF TypeOK, ByteString, BufferIsBounded
    <3>2. Len(buffer \o data) = Len(buffer) + Len(data)
          /\ Len(buffer) \in Nat /\ Len(data) \in Nat
      BY <3>1, ConcatProperties, LenProperties
    <3>3. Len(data) + MaxDigits > MaxPacketBytes
      BY <2>3, <3>1, <3>2, StreamsAssumption
    <3> QED BY <2>1, <3>3 DEF CloseHasCause
  <2>4. CASE d.error
    <3>1. whole = DecodePackets(received')
      BY <2>1
    <3> HIDE DEF d, whole
    <3> QED BY <2>2, <2>4, <3>1 DEF After, CloseHasCause
  <2> HIDE DEF d
  <2> QED BY <2>1, <2>3, <2>4, Zenon
<1>2. CASE UNCHANGED vars
  BY <1>2 DEF vars
<1>3. ASSUME NEW data \in Frames, HandleUpstreamBytes(data) PROVE FALSE
  BY <1>3 DEF HandleUpstreamBytes, StaysOpen
<1>4. CASE FallbackDropsBuffer
  BY <1>4 DEF FallbackDropsBuffer
<1> QED BY <1>1, <1>2, <1>3, <1>4 DEF Next

\* CloseHasCause: frames of up to MAX_PACKET_BYTES + 4096 reach the session
\* (max_msg_size), so this names every close that legal packets can meet.
THEOREM StreamsCloseHasCause == Spec => [][CloseHasCause]_vars
BY CloseStep, StreamsTypeOK, StreamsInOneGo, StreamsBufferIsBounded, PTL DEF Spec
=============================================================================

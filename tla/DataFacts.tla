----------------------------- MODULE DataFacts -----------------------------
(***************************************************************************)
(* Facts about data that several proofs need.  In place of induction: a    *)
(* set of finite sets has a minimal one, and a set of numbers a least one. *)
(* Of sequences: where their parts are when they are put together, and     *)
(* what FlattenSeq makes of them.                                          *)
(***************************************************************************)
EXTENDS Integers, SequencesExt, FiniteSets, FiniteSetTheorems, SequenceTheorems,
        WellFoundedInduction, TLAPS

\* Of finite sets that are not none, one has no other below it.
LEMMA MinimalSet ==
    ASSUME NEW F, F # {}, \A T \in F : IsFiniteSet(T)
    PROVE  \E T \in F : \A U \in F : U \subseteq T => U = T
<1> DEFINE S == UNION F
<1>1. IsWellFoundedOn(StrictSubsetOrdering(S), FiniteSubsetsOf(S))
  BY FS_StrictSubsetOrderingWellFounded
<1>2. F \in SUBSET FiniteSubsetsOf(S)
  BY DEF FiniteSubsetsOf
<1>3. PICK T \in F : \A U \in F : <<U, T>> \notin StrictSubsetOrdering(S)
  BY <1>1, <1>2, WFMin
<1> QED  BY <1>3 DEF StrictSubsetOrdering

\* The least of some numbers: a property of all numbers has a least counterexample.
LEMMA LeastNumber ==
    ASSUME NEW T \in SUBSET Nat, T # {}
    PROVE  \E n \in T : \A m \in T : n <= m
<1> DEFINE F == {0 .. n : n \in T}
<1>1. \A n \in T : IsFiniteSet(0 .. n)
  <2>1. ASSUME NEW n \in T PROVE IsFiniteSet(0 .. n)
    <3>1. n \in Int /\ 0 \in Int
      OBVIOUS
    <3> QED  BY <3>1, FS_Interval, Zenon
  <2> QED  BY <2>1
<1>2. F # {} /\ \A I \in F : IsFiniteSet(I)
  BY <1>1, Zenon
<1>3. PICK I \in F : \A J \in F : J \subseteq I => J = I
  <2> HIDE DEF F
  <2> QED  BY <1>2, MinimalSet
<1>4. PICK n \in T : I = 0 .. n
  BY Zenon
<1>5. \A m \in T : 0 .. m \subseteq 0 .. n => 0 .. m = 0 .. n
  BY <1>3, <1>4, Zenon
<1>6. ASSUME NEW m \in T PROVE n <= m
  <2> SUFFICES ASSUME m < n PROVE FALSE
    OBVIOUS
  <2>1. 0 .. m \subseteq 0 .. n
    OBVIOUS
  <2>2. n \in 0 .. m
    BY <1>5, <2>1
  <2> QED  BY <2>2
<1> QED  BY <1>6

\* What a recursive definition over numbers says of a function up to n.
RecursiveTo(n, base, step, down, g) ==
    \A x \in 0 .. n : g[x] = IF x = 0 THEN base ELSE step[<<x, g[down[x]]>>]

LEMMA RecursionAgrees ==
    ASSUME NEW base, NEW step, NEW down \in [Nat -> Nat], \A x \in Nat : x # 0 => down[x] < x,
           NEW m \in Nat, NEW n \in Nat, m <= n,
           NEW g, RecursiveTo(m, base, step, down, g),
           NEW h, RecursiveTo(n, base, step, down, h)
    PROVE  \A x \in 0 .. m : g[x] = h[x]
<1> DEFINE T == {x \in 0 .. m : g[x] # h[x]}
<1>1. SUFFICES ASSUME T # {} PROVE FALSE
  OBVIOUS
<1>2. PICK x \in T : \A y \in T : x <= y
  <2>1. T \in SUBSET Nat
    OBVIOUS
  <2> HIDE DEF T
  <2> QED  BY <1>1, <2>1, LeastNumber
<1>3. x \in 0 .. m /\ x \in 0 .. n /\ g[x] # h[x]
  OBVIOUS
<1>4. x # 0 => down[x] \in 0 .. m /\ ~(x <= down[x])
  BY <1>3
<1>5. x # 0 => g[down[x]] = h[down[x]]
  BY <1>2, <1>4
<1> QED  BY <1>3, <1>5 DEF RecursiveTo

Recursive(base, step, down, f) ==
    \A x \in Nat : f[x] = IF x = 0 THEN base ELSE step[<<x, f[down[x]]>>]

\* A function can be defined by recursion to smaller numbers.
LEMMA RecursionOnNat ==
    ASSUME NEW S, NEW base \in S, NEW step \in [Nat \X S -> S],
           NEW down \in [Nat -> Nat], \A x \in Nat : x # 0 => down[x] < x
    PROVE  \E f \in [Nat -> S] : Recursive(base, step, down, f)
<1> DEFINE Good(n, g) == g \in [0 .. n -> S] /\ RecursiveTo(n, base, step, down, g)
           T == {n \in Nat : ~ \E g : Good(n, g)}
<1>1. T = {}
  <2> SUFFICES ASSUME T # {} PROVE FALSE
    OBVIOUS
  <2>1. PICK n \in T : \A m \in T : n <= m
    <3>1. T \in SUBSET Nat
      OBVIOUS
    <3> HIDE DEF T
    <3> QED  BY <3>1, LeastNumber
  <2>2. n \in Nat /\ ~ \E g : Good(n, g)
    OBVIOUS
  <2>3. n # 0
    <3> DEFINE g == [x \in 0 .. 0 |-> base]
    <3>1. Good(0, g)
      BY DEF RecursiveTo
    <3> HIDE DEF g, Good
    <3> QED  BY <2>2, <3>1
  <2>4. PICK h : Good(n - 1, h)
    <3>1. n - 1 \in Nat /\ ~(n <= n - 1)
      BY <2>2, <2>3
    <3> QED  BY <2>1, <3>1
  <2> DEFINE g == [x \in 0 .. n |-> IF x = n THEN step[<<n, h[down[n]]>>] ELSE h[x]]
  <2>5. down[n] \in 0 .. n - 1 /\ n - 1 \in Nat /\ h \in [0 .. n - 1 -> S]
    BY <2>2, <2>3, <2>4, SMTT(60)
  <2>6. g \in [0 .. n -> S]
    <3>1. h[down[n]] \in S
      BY <2>5
    <3>2. step[<<n, h[down[n]]>>] \in S
      BY <2>2, <3>1
    <3>3. \A x \in 0 .. n : x # n => h[x] \in S
      <4>1. \A x \in 0 .. n : x # n => x \in 0 .. n - 1
        BY <2>2
      <4> QED  BY <2>5, <4>1
    <3> QED  BY <3>2, <3>3
  <2>7. \A x \in 0 .. n : x # 0 => down[x] \in 0 .. n - 1 /\ g[down[x]] = h[down[x]]
    <3>1. \A x \in 0 .. n : x # 0 => down[x] \in 0 .. n - 1
      BY <2>2, SMTT(60)
    <3>2. \A y \in 0 .. n - 1 : g[y] = h[y]
      BY <2>2
    <3> HIDE DEF g
    <3> QED  BY <3>1, <3>2
  <2>8. RecursiveTo(n, base, step, down, g)
    <3>1. \A x \in 0 .. n - 1 : h[x] = IF x = 0 THEN base ELSE step[<<x, h[down[x]]>>]
      BY <2>4 DEF RecursiveTo
    <3>2. \A x \in 0 .. n : g[x] = IF x = n THEN step[<<n, h[down[n]]>>] ELSE h[x]
      OBVIOUS
    <3> HIDE DEF g
    <3>3. ASSUME NEW x \in 0 .. n
          PROVE  g[x] = IF x = 0 THEN base ELSE step[<<x, g[down[x]]>>]
      <4>1. CASE x = n
        BY <2>2, <2>3, <2>7, <3>2, <4>1
      <4>2. CASE x # n
        <5>1. x \in 0 .. n - 1
          BY <2>2, <4>2
        <5> QED  BY <2>7, <3>1, <3>2, <4>2, <5>1
      <4> QED  BY <4>1, <4>2
    <3> QED  BY <3>3 DEF RecursiveTo
  <2> HIDE DEF g
  <2> QED  BY <2>2, <2>6, <2>8
<1>2. \A n \in Nat : \E g : Good(n, g)
  BY <1>1
<1> DEFINE G(n) == CHOOSE g : Good(n, g)
<1>3. \A n \in Nat : Good(n, G(n))
  <2> HIDE DEF Good
  <2> QED  BY <1>2
<1> DEFINE f == [x \in Nat |-> G(x)[x]]
<1>4. \A n \in Nat : G(n) \in [0 .. n -> S] /\ RecursiveTo(n, base, step, down, G(n))
  BY <1>3
<1> HIDE DEF G, Good, T
<1>5. f \in [Nat -> S]
  <2>1. ASSUME NEW x \in Nat PROVE G(x)[x] \in S
    BY <1>4
  <2> QED  BY <2>1
<1>6. ASSUME NEW x \in Nat
      PROVE  f[x] = IF x = 0 THEN base ELSE step[<<x, f[down[x]]>>]
  <2>1. G(x)[x] = IF x = 0 THEN base ELSE step[<<x, G(x)[down[x]]>>]
    <3>1. x \in 0 .. x
      OBVIOUS
    <3> QED  BY <1>4, <3>1 DEF RecursiveTo
  <2>2. ASSUME x # 0 PROVE G(x)[down[x]] = f[down[x]]
    <3>1. down[x] \in Nat /\ down[x] <= x /\ down[x] \in 0 .. down[x]
      BY <2>2
    <3>2. \A y \in 0 .. down[x] : G(down[x])[y] = G(x)[y]
      <4>1. /\ RecursiveTo(down[x], base, step, down, G(down[x]))
            /\ RecursiveTo(x, base, step, down, G(x))
        BY <1>4, <3>1
      <4> QED  BY <3>1, <4>1, RecursionAgrees, SMTT(60)
    <3> QED  BY <3>1, <3>2
  <2> QED  BY <2>1, <2>2
<1> HIDE DEF f
<1> QED  BY <1>5, <1>6 DEF Recursive

\* What was appended is at the end, and what was there before is where it was.
LEMMA LastPart ==
    ASSUME NEW S, NEW a \in Seq(S), NEW p \in Seq(S)
    PROVE  SubSeq(a \o p, Len(a) + 1, Len(a) + Len(p)) = p
<1> DEFINE s == a \o p
           m == Len(a) + 1
           n == Len(a) + Len(p)
<1>1. /\ s \in Seq(S) /\ Len(s) = n /\ m \in 1 .. n + 1 /\ n \in Nat /\ Len(p) = n - m + 1
      /\ \A k \in 1 .. Len(p) : s[m + k - 1] = p[k]
  BY SMTT(60)
<1> HIDE DEF s, m, n
<1>2. /\ SubSeq(s, m, n) \in Seq(S) /\ Len(SubSeq(s, m, n)) = n - m + 1
      /\ \A k \in 1 .. n - m + 1 : SubSeq(s, m, n)[k] = s[m + k - 1]
  BY <1>1, SubSeqProperties
<1>3. SubSeq(s, m, n) = p
  BY <1>1, <1>2
<1> QED  BY <1>3 DEF s, m, n

LEMMA EarlierPart ==
    ASSUME NEW S, NEW a \in Seq(S), NEW p \in Seq(S), NEW m \in 1 .. Len(a) + 1, NEW n \in m - 1 .. Len(a)
    PROVE  SubSeq(a \o p, m, n) = SubSeq(a, m, n)
<1> DEFINE s == a \o p
<1>1. s \in Seq(S) /\ Len(s) >= Len(a) /\ \A k \in 1 .. Len(a) : s[k] = a[k] /\ s[k] \in S /\ a[k] \in S
  OBVIOUS
<1> HIDE DEF s
<1>2. \A k \in m .. n : k \in 1 .. Len(a)
  OBVIOUS
<1>3. /\ SubSeq(s, m, n) \in Seq(S) /\ Len(SubSeq(s, m, n)) = n - m + 1
      /\ \A k \in 1 .. n - m + 1 : SubSeq(s, m, n)[k] = s[m + k - 1]
  BY <1>1, <1>2, SubSeqProperties
<1>4. /\ SubSeq(a, m, n) \in Seq(S) /\ Len(SubSeq(a, m, n)) = n - m + 1
      /\ \A k \in 1 .. n - m + 1 : SubSeq(a, m, n)[k] = a[m + k - 1]
  BY <1>1, <1>2, SubSeqProperties
<1>5. \A k \in 1 .. n - m + 1 : m + k - 1 \in 1 .. Len(a)
  OBVIOUS
<1>6. SubSeq(s, m, n) = SubSeq(a, m, n)
  BY <1>1, <1>3, <1>4, <1>5
<1> QED  BY <1>6 DEF s

\* What is appended leaves the parts before it where they are.
Joins(S, a, p, c) ==
    /\ c \in Seq(S) /\ Len(c) = Len(a) + Len(p)
    /\ Len(a) \in Nat /\ Len(c) \in Nat /\ Len(a) <= Len(c)
    /\ \A k \in 1 .. Len(a) : c[k] = a[k]
    /\ \A k \in 1 .. Len(p) : c[Len(a) + k] = p[k]
    /\ SubSeq(c, Len(a) + 1, Len(c)) = p
    /\ \A i, j \in Nat : 1 <= i /\ i <= j + 1 /\ j <= Len(a) => SubSeq(c, i, j) = SubSeq(a, i, j)
    /\ SubSeq(c, 1, Len(a)) = a

LEMMA AppendedPart ==
    ASSUME NEW S, NEW a \in Seq(S), NEW p \in Seq(S)
    PROVE  Joins(S, a, p, a \o p)
<1>1. /\ a \o p \in Seq(S) /\ Len(a \o p) = Len(a) + Len(p) /\ Len(p) \in Nat /\ Len(a) \in Nat
      /\ \A k \in 1 .. Len(a) : (a \o p)[k] = a[k]
      /\ \A k \in 1 .. Len(p) : (a \o p)[Len(a) + k] = p[k]
  OBVIOUS
<1>2. SubSeq(a \o p, Len(a) + 1, Len(a) + Len(p)) = p
  BY LastPart
<1>3. \A i, j \in Nat : 1 <= i /\ i <= j + 1 /\ j <= Len(a) => SubSeq(a \o p, i, j) = SubSeq(a, i, j)
  BY <1>1, EarlierPart
<1>4. SubSeq(a, 1, Len(a)) = a
  BY SubSeqFull
<1>5. SubSeq(a \o p, 1, Len(a)) = SubSeq(a, 1, Len(a))
  BY <1>1, <1>3
<1> QED  BY <1>1, <1>2, <1>3, <1>4, <1>5 DEF Joins

-----------------------------------------------------------------------------
(* Sequences that are joined (FlattenSeq).                                 *)

\* The function that FlattenSeq defines by recursion.
JoinBody(s, n, F) == [i \in 1 .. n |-> IF i = 1 THEN s[i] ELSE F[i - 1] \o s[i]]
Joined(s, n) == CHOOSE F : F = JoinBody(s, n, F)

LEMMA JoinedExists ==
    ASSUME NEW s, NEW n \in Nat
    PROVE  Joined(s, n) = JoinBody(s, n, Joined(s, n))
<1> DEFINE T == {m \in Nat : ~ \E F : F = JoinBody(s, m, F)}
<1>1. T = {}
  <2> SUFFICES ASSUME T # {} PROVE FALSE
    OBVIOUS
  <2>1. PICK m \in T : \A k \in T : m <= k
    <3>1. T \in SUBSET Nat
      OBVIOUS
    <3> HIDE DEF T
    <3> QED  BY <3>1, LeastNumber
  <2>2. m \in Nat /\ ~ \E F : F = JoinBody(s, m, F)
    OBVIOUS
  <2>3. m # 0
    <3>1. [i \in 1 .. 0 |-> 0] = JoinBody(s, 0, [i \in 1 .. 0 |-> 0])
      BY DEF JoinBody
    <3> QED  BY <2>2, <3>1
  <2>4. PICK F : F = JoinBody(s, m - 1, F)
    <3>1. m - 1 \in Nat /\ ~(m <= m - 1)
      BY <2>2, <2>3
    <3> QED  BY <2>1, <3>1
  <2> DEFINE G == [i \in 1 .. m |-> IF i = 1 THEN s[i] ELSE F[i - 1] \o s[i]]
  <2>5. \A i \in 1 .. m - 1 : F[i] = G[i]
    <3>1. \A i \in 1 .. m - 1 : F[i] = IF i = 1 THEN s[i] ELSE F[i - 1] \o s[i]
      BY <2>4 DEF JoinBody
    <3> QED  BY <2>2, <3>1
  <2>6. G = JoinBody(s, m, G)
    <3>1. \A i \in 1 .. m : i # 1 => F[i - 1] = G[i - 1]
      <4> HIDE DEF G
      <4> QED  BY <2>2, <2>5
    <3> QED  BY <3>1 DEF JoinBody
  <2> QED  BY <2>2, <2>6
<1>2. \E F : F = JoinBody(s, n, F)
  BY <1>1
<1> QED  BY <1>2 DEF Joined

LEMMA FlattenIs ==
    ASSUME NEW s, Len(s) # 0
    PROVE  FlattenSeq(s) = Joined(s, Len(s))[Len(s)]
BY DEF FlattenSeq, Joined, JoinBody

Agree(p, q, n) == \A i \in 1 .. n : p[i] = q[i]

\* What has been joined before the end does not depend on the rest.
LEMMA JoinedAgree ==
    ASSUME NEW p, NEW q, NEW n \in Nat, NEW m \in Nat, n <= m, Agree(p, q, n)
    PROVE  Agree(Joined(p, n), Joined(q, m), n)
<1> DEFINE T == {i \in 1 .. n : Joined(p, n)[i] # Joined(q, m)[i]}
<1>1. T = {}
  <2> SUFFICES ASSUME T # {} PROVE FALSE
    OBVIOUS
  <2>1. PICK k \in T : \A i \in T : k <= i
    <3>1. T \in SUBSET Nat
      OBVIOUS
    <3> HIDE DEF T
    <3> QED  BY <3>1, LeastNumber
  <2>2. /\ \A i \in 1 .. n : Joined(p, n)[i] = IF i = 1 THEN p[i] ELSE Joined(p, n)[i - 1] \o p[i]
        /\ \A i \in 1 .. m : Joined(q, m)[i] = IF i = 1 THEN q[i] ELSE Joined(q, m)[i - 1] \o q[i]
    <3>1. /\ Joined(p, n) = JoinBody(p, n, Joined(p, n))
          /\ Joined(q, m) = JoinBody(q, m, Joined(q, m))
      BY JoinedExists
    <3> QED  BY <3>1 DEF JoinBody
  <2>3. k \in 1 .. n /\ k \in 1 .. m /\ Joined(p, n)[k] # Joined(q, m)[k]
    OBVIOUS
  <2>4. CASE k = 1
    BY <2>2, <2>3, <2>4 DEF Agree
  <2>5. CASE k # 1
    <3>1. k - 1 \in 1 .. n /\ ~(k <= k - 1)
      BY <2>3, <2>5
    <3>2. Joined(p, n)[k - 1] = Joined(q, m)[k - 1]
      BY <2>1, <3>1
    <3> QED  BY <2>2, <2>3, <2>5, <3>2 DEF Agree
  <2> QED  BY <2>4, <2>5
<1> QED  BY <1>1 DEF Agree

\* A sequence is joined from the front.
LEMMA JoinedType ==
    ASSUME NEW S, NEW s \in Seq(Seq(S))
    PROVE  \A i \in 1 .. Len(s) : Joined(s, Len(s))[i] \in Seq(S)
<1> DEFINE n == Len(s)
           T == {i \in 1 .. n : Joined(s, n)[i] \notin Seq(S)}
<1>1. n \in Nat /\ \A i \in 1 .. n : s[i] \in Seq(S)
  OBVIOUS
<1> HIDE DEF n
<1>2. T = {}
  <2> SUFFICES ASSUME T # {} PROVE FALSE
    OBVIOUS
  <2>1. PICK k \in T : \A i \in T : k <= i
    <3>1. T \in SUBSET Nat
      OBVIOUS
    <3> HIDE DEF T
    <3> QED  BY <3>1, LeastNumber
  <2>2. \A i \in 1 .. n : Joined(s, n)[i] = IF i = 1 THEN s[i] ELSE Joined(s, n)[i - 1] \o s[i]
    <3>1. Joined(s, n) = JoinBody(s, n, Joined(s, n))
      BY <1>1, JoinedExists
    <3> QED  BY <3>1 DEF JoinBody
  <2>3. k \in 1 .. n /\ Joined(s, n)[k] \notin Seq(S)
    OBVIOUS
  <2>4. CASE k = 1
    BY <1>1, <2>2, <2>3, <2>4
  <2>5. CASE k # 1
    <3>1. k - 1 \in 1 .. n /\ ~(k <= k - 1)
      BY <1>1, <2>3, <2>5
    <3>2. Joined(s, n)[k - 1] \in Seq(S)
      BY <2>1, <3>1
    <3>3. s[k] \in Seq(S) /\ Joined(s, n)[k] = Joined(s, n)[k - 1] \o s[k]
      BY <1>1, <2>2, <2>3, <2>5
    <3>4. Joined(s, n)[k - 1] \o s[k] \in Seq(S)
      BY <3>2, <3>3
    <3> QED  BY <2>3, <3>3, <3>4
  <2> QED  BY <2>4, <2>5
<1> QED  BY <1>2 DEF n

LEMMA FlattenNone ==
    ASSUME NEW s, s = <<>>
    PROVE  FlattenSeq(s) = <<>>
BY DEF FlattenSeq

LEMMA FlattenType ==
    ASSUME NEW S, NEW s \in Seq(Seq(S))
    PROVE  FlattenSeq(s) \in Seq(S)
<1>1. CASE Len(s) = 0
  <2>1. s = <<>>
    BY <1>1
  <2>2. FlattenSeq(s) = <<>>
    BY <2>1, FlattenNone, Zenon
  <2> QED  BY <2>2
<1>2. CASE Len(s) # 0
  BY <1>2, FlattenIs, JoinedType
<1> QED  BY <1>1, <1>2

LEMMA FlattenLast ==
    ASSUME NEW S, NEW p \in Seq(Seq(S)), NEW q \in Seq(Seq(S)), Len(q) = Len(p) + 1,
           \A i \in 1 .. Len(p) : p[i] = q[i]
    PROVE  FlattenSeq(q) = FlattenSeq(p) \o q[Len(q)]
<1> DEFINE n == Len(p)
           m == Len(q)
<1>1. n \in Nat /\ m = n + 1 /\ m \in Nat /\ q[m] \in Seq(S)
  OBVIOUS
<1>2. n = 0 => p = <<>>
  OBVIOUS
<1>3. (n # 0 => FlattenSeq(p) = Joined(p, n)[n]) /\ FlattenSeq(q) = Joined(q, m)[m]
  BY <1>1, FlattenIs
<1> HIDE DEF n, m
<1>4. \A i \in 1 .. m : Joined(q, m)[i] = IF i = 1 THEN q[i] ELSE Joined(q, m)[i - 1] \o q[i]
  <2>1. Joined(q, m) = JoinBody(q, m, Joined(q, m))
    BY <1>1, JoinedExists
  <2> QED  BY <2>1 DEF JoinBody
<1>5. CASE n = 0
  <2>1. FlattenSeq(p) = <<>>
    BY <1>2, <1>5, FlattenNone
  <2>2. FlattenSeq(q) = q[m]
    BY <1>1, <1>3, <1>4, <1>5
  <2> QED  BY <1>1, <2>1, <2>2 DEF m
<1>6. CASE n # 0
  <2>1. Joined(p, n)[n] = Joined(q, m)[n]
    <3>1. Agree(p, q, n)
      BY DEF Agree, n
    <3>2. n \in 1 .. n /\ n <= m
      BY <1>1, <1>6
    <3>3. Agree(Joined(p, n), Joined(q, m), n)
      <4>1. n \in Nat /\ m \in Nat
        BY <1>1
      <4>2. n <= m
        BY <3>2
      <4> QED  BY <3>1, <4>1, <4>2, JoinedAgree, Zenon
    <3> QED  BY <3>2, <3>3 DEF Agree
  <2>2. Joined(q, m)[m] = Joined(q, m)[n] \o q[m]
    <3>1. m \in 1 .. m /\ m # 1 /\ m - 1 = n
      BY <1>1, <1>6
    <3> QED  BY <1>4, <3>1
  <2> QED  BY <1>3, <1>6, <2>1, <2>2 DEF m
<1> QED  BY <1>5, <1>6

\* The first k of some sequences, joined.
UpTo(F, k) == FlattenSeq([j \in 1 .. k |-> F[j]])
UpToIs(S, F, k) ==
    /\ UpTo(F, k) \in Seq(S)
    /\ k = 0 => UpTo(F, k) = <<>>
    /\ k # 0 => UpTo(F, k) = UpTo(F, k - 1) \o F[k]

LEMMA UpToGrows ==
    ASSUME NEW S, NEW n \in Nat, NEW F \in [1 .. n -> Seq(S)], NEW k \in 0 .. n
    PROVE  UpToIs(S, F, k)
<1> DEFINE P(i) == [j \in 1 .. i |-> F[j]]
<1>1. \A i \in 0 .. n : P(i) \in Seq(Seq(S)) /\ Len(P(i)) = i
  OBVIOUS
<1>2. UpTo(F, k) = FlattenSeq(P(k)) /\ UpTo(F, k - 1) = FlattenSeq(P(k - 1))
  BY DEF UpTo
<1>3. UpTo(F, k) \in Seq(S)
  <2> HIDE DEF P
  <2>1. P(k) \in Seq(Seq(S))
    BY <1>1
  <2> QED  BY <1>2, <2>1, FlattenType
<1>4. ASSUME k = 0 PROVE UpTo(F, k) = <<>>
  <2>1. P(k) = <<>>
    BY <1>4
  <2> QED  BY <1>2, <2>1, FlattenNone, Zenon
<1>5. ASSUME k # 0 PROVE UpTo(F, k) = UpTo(F, k - 1) \o F[k]
  <2>1. k - 1 \in 0 .. n /\ k \in Nat /\ k \in 1 .. k
    BY <1>5
  <2>2. P(k)[k] = F[k] /\ \A i \in 1 .. k - 1 : P(k - 1)[i] = P(k)[i]
    BY <2>1
  <2> HIDE DEF P
  <2>3. /\ P(k - 1) \in Seq(Seq(S)) /\ P(k) \in Seq(Seq(S))
        /\ Len(P(k - 1)) = k - 1 /\ Len(P(k)) = k
    BY <1>1, <2>1
  <2>4. Len(P(k)) = Len(P(k - 1)) + 1 /\ \A i \in 1 .. Len(P(k - 1)) : P(k - 1)[i] = P(k)[i]
    BY <2>1, <2>2, <2>3
  <2>5. FlattenSeq(P(k)) = FlattenSeq(P(k - 1)) \o P(k)[Len(P(k))]
    BY <2>3, <2>4, FlattenLast, Zenon
  <2> QED  BY <1>2, <2>2, <2>3, <2>5
<1> QED  BY <1>3, <1>4, <1>5 DEF UpToIs
==============================================================================

------------------------------ MODULE ByteProofs ------------------------------
(***************************************************************************)
(* Proofs about the wire format of the generated messages (WireFormat,     *)
(* ProtoWire), for words of any width: Size is the length of what Marshal  *)
(* writes, and numbers and bytes that are written are read as they were.   *)
(***************************************************************************)
EXTENDS ProtoWire, SequenceTheorems, DataFacts, TLAPS

-----------------------------------------------------------------------------
(* The integers of WireFormat.                                             *)

LEMMA OctetsAreNumbers == \A x \in Octets : x \in Nat /\ x <= 255
BY DEF Octets

LEMMA TwoToIs == TwoTo = [n \in Nat |-> IF n = 0 THEN 1 ELSE 2 * TwoTo[n - 1]]
<1> DEFINE down == [n \in Nat |-> IF n = 0 THEN 0 ELSE n - 1]
           step == [p \in Nat \X Nat |-> 2 * p[2]]
<1>1. down \in [Nat -> Nat] /\ \A n \in Nat : n # 0 => down[n] < n
  OBVIOUS
<1>2. step \in [Nat \X Nat -> Nat]
  OBVIOUS
<1>3. PICK f \in [Nat -> Nat] : Recursive(1, step, down, f)
  <2>1. 1 \in Nat
    OBVIOUS
  <2> HIDE DEF down, step
  <2> QED  BY <1>1, <1>2, <2>1, RecursionOnNat, Zenon
<1>4. f = [n \in Nat |-> IF n = 0 THEN 1 ELSE 2 * f[n - 1]]
  <2>1. \A n \in Nat : f[n] = IF n = 0 THEN 1 ELSE step[<<n, f[down[n]]>>]
    BY <1>3 DEF Recursive
  <2>2. \A n \in Nat : \A v \in Nat : step[<<n, v>>] = 2 * v
    OBVIOUS
  <2>3. \A n \in Nat : down[n] \in Nat /\ f[down[n]] \in Nat
                       /\ (n # 0 => down[n] = n - 1)
    BY <1>1
  <2> HIDE DEF step, down
  <2>4. \A n \in Nat : f[n] = IF n = 0 THEN 1 ELSE 2 * f[n - 1]
    BY <2>1, <2>2, <2>3, ZenonT(120)
  <2> QED  BY <2>4
<1> QED  BY <1>4 DEF TwoTo

LEMMA BitLenIs == BitLen = [w \in Nat |-> IF w = 0 THEN 0 ELSE 1 + BitLen[w \div 2]]
<1> DEFINE down == [n \in Nat |-> n \div 2]
           step == [p \in Nat \X Nat |-> 1 + p[2]]
<1>1. down \in [Nat -> Nat] /\ \A n \in Nat : n # 0 => down[n] < n
  OBVIOUS
<1>2. step \in [Nat \X Nat -> Nat]
  OBVIOUS
<1>3. PICK f \in [Nat -> Nat] : Recursive(0, step, down, f)
  <2>1. 0 \in Nat
    OBVIOUS
  <2> HIDE DEF down, step
  <2> QED  BY <1>1, <1>2, <2>1, RecursionOnNat, Zenon
<1>4. f = [w \in Nat |-> IF w = 0 THEN 0 ELSE 1 + f[w \div 2]]
  <2>1. \A n \in Nat : f[n] = IF n = 0 THEN 0 ELSE step[<<n, f[down[n]]>>]
    BY <1>3 DEF Recursive
  <2>2. \A n \in Nat : \A v \in Nat : step[<<n, v>>] = 1 + v
    OBVIOUS
  <2>3. \A n \in Nat : down[n] \in Nat /\ f[down[n]] \in Nat
                       /\ (n # 0 => down[n] = n \div 2)
    BY <1>1
  <2> HIDE DEF step, down
  <2>4. ASSUME NEW n \in Nat PROVE f[n] = IF n = 0 THEN 0 ELSE 1 + f[n \div 2]
    <3>1. n # 0 => f[n] = step[<<n, f[n \div 2]>>] /\ f[n \div 2] \in Nat
      BY <2>1, <2>3, Zenon
    <3>2. n = 0 => f[n] = 0
      BY <2>1, Zenon
    <3> QED  BY <2>2, <3>1, <3>2, Zenon
  <2> QED  BY <2>4
<1> QED  BY <1>4 DEF BitLen

LEMMA VarintIs ==
    Varint = [w \in Nat |-> IF w < 128 THEN <<w>>
                            ELSE <<128 + (w % 128)>> \o Varint[w \div 128]]
<1> DEFINE down == [n \in Nat |-> n \div 128]
           step == [p \in Nat \X Seq(Nat) |->
                       IF p[1] < 128 THEN <<p[1]>> ELSE <<128 + (p[1] % 128)>> \o p[2]]
<1>1. down \in [Nat -> Nat] /\ \A n \in Nat : n # 0 => down[n] < n
  OBVIOUS
<1>2. step \in [Nat \X Seq(Nat) -> Seq(Nat)]
  OBVIOUS
<1>3. PICK f \in [Nat -> Seq(Nat)] : Recursive(<<0>>, step, down, f)
  <2>1. <<0>> \in Seq(Nat)
    OBVIOUS
  <2> HIDE DEF down, step
  <2> QED  BY <1>1, <1>2, <2>1, RecursionOnNat, Zenon
<1>4. f = [w \in Nat |-> IF w < 128 THEN <<w>> ELSE <<128 + (w % 128)>> \o f[w \div 128]]
  <2>1. \A n \in Nat : f[n] = IF n = 0 THEN <<0>> ELSE step[<<n, f[down[n]]>>]
    BY <1>3 DEF Recursive
  <2>2. \A n \in Nat : \A v \in Seq(Nat) : step[<<n, v>>] = IF n < 128 THEN <<n>> ELSE <<128 + (n % 128)>> \o v
    BY ZenonT(60)
  <2>3. \A n \in Nat : down[n] \in Nat /\ f[down[n]] \in Seq(Nat)
                       /\ (n # 0 => down[n] = n \div 128)
    BY <1>1
  <2> HIDE DEF step, down
  <2>4. ASSUME NEW n \in Nat
        PROVE  f[n] = IF n < 128 THEN <<n>> ELSE <<128 + (n % 128)>> \o f[n \div 128]
    <3>1. n # 0 => f[n] = step[<<n, f[n \div 128]>>] /\ f[n \div 128] \in Seq(Nat)
      BY <2>1, <2>3, ZenonT(60)
    <3>2. n = 0 => f[n] = <<n>> /\ n < 128
      <4>1. n = 0 => f[n] = <<n>>
        BY <2>1, Zenon
      <4>2. n = 0 => n < 128
        OBVIOUS
      <4> QED  BY <4>1, <4>2, Zenon
    <3> QED  BY <2>2, <3>1, <3>2, ZenonT(120)
  <2> QED  BY <2>4, ZenonT(60)
<1> QED  BY <1>4, ZenonT(60) DEF Varint

LEMMA TwoToType ==
    \A n \in Nat : TwoTo[n] \in Nat /\ TwoTo[n] >= 1 /\ (n # 0 => TwoTo[n] = 2 * TwoTo[n - 1])
<1> DEFINE T == {n \in Nat : ~(TwoTo[n] \in Nat /\ TwoTo[n] >= 1)}
<1>1. \A n \in Nat : TwoTo[n] = IF n = 0 THEN 1 ELSE 2 * TwoTo[n - 1]
  BY TwoToIs
<1>2. T = {}
  <2> SUFFICES ASSUME T # {} PROVE FALSE
    OBVIOUS
  <2>1. PICK n \in T : \A m \in T : n <= m
    <3>1. T \in SUBSET Nat
      OBVIOUS
    <3> HIDE DEF T
    <3> QED  BY <3>1, LeastNumber
  <2>2. n \in Nat /\ ~(TwoTo[n] \in Nat /\ TwoTo[n] >= 1)
    OBVIOUS
  <2>3. n # 0 => n - 1 \in Nat /\ ~(n <= n - 1)
    BY <2>2
  <2>4. n # 0 => TwoTo[n - 1] \in Nat /\ TwoTo[n - 1] >= 1
    BY <2>1, <2>3
  <2> QED  BY <1>1, <2>2, <2>4
<1> QED  BY <1>1, <1>2

LEMMA BitLenType ==
    \A w \in Nat : BitLen[w] \in Nat /\ BitLen[w] = IF w = 0 THEN 0 ELSE 1 + BitLen[w \div 2]
<1> DEFINE T == {n \in Nat : BitLen[n] \notin Nat}
<1>1. \A n \in Nat : BitLen[n] = IF n = 0 THEN 0 ELSE 1 + BitLen[n \div 2]
  BY BitLenIs
<1>2. T = {}
  <2> SUFFICES ASSUME T # {} PROVE FALSE
    OBVIOUS
  <2>1. PICK n \in T : \A m \in T : n <= m
    <3>1. T \in SUBSET Nat
      OBVIOUS
    <3> HIDE DEF T
    <3> QED  BY <3>1, LeastNumber
  <2>2. n \in Nat /\ BitLen[n] \notin Nat
    OBVIOUS
  <2>3. n # 0 => n \div 2 \in Nat /\ ~(n <= n \div 2)
    BY <2>2
  <2>4. n # 0 => BitLen[n \div 2] \in Nat
    BY <2>1, <2>3
  <2> QED  BY <1>1, <2>2, <2>4
<1> QED  BY <1>1, <1>2

\* The words of n bits are those below 1 << n.
LEMMA BitLenBounds ==
    ASSUME NEW n \in Nat, NEW w \in Nat
    PROVE  w < TwoTo[n] <=> BitLen[w] <= n
<1> DEFINE Fits(x, k) == x < TwoTo[k] <=> BitLen[x] <= k
           T == {k \in Nat : \E x \in Nat : ~Fits(x, k)}
<1>1. T = {}
  <2> SUFFICES ASSUME T # {} PROVE FALSE
    OBVIOUS
  <2>1. PICK k \in T : \A m \in T : k <= m
    <3>1. T \in SUBSET Nat
      OBVIOUS
    <3> HIDE DEF T
    <3> QED  BY <3>1, LeastNumber
  <2>2. k \in Nat
    OBVIOUS
  <2>3. PICK x \in Nat : ~Fits(x, k)
    OBVIOUS
  <2>4. k # 0 => Fits(x \div 2, k - 1)
    <3>1. k # 0 => k - 1 \in Nat /\ ~(k <= k - 1) /\ x \div 2 \in Nat
      BY <2>2
    <3>2. k # 0 => k - 1 \notin T
      BY <2>1, <3>1
    <3> HIDE DEF Fits
    <3> QED  BY <3>1, <3>2
  <2>5. /\ BitLen[x] \in Nat /\ BitLen[x] = IF x = 0 THEN 0 ELSE 1 + BitLen[x \div 2]
        /\ BitLen[x \div 2] \in Nat
    BY BitLenType
  <2>6. TwoTo[k] \in Nat /\ TwoTo[k] >= 1 /\ (k # 0 => TwoTo[k] = 2 * TwoTo[k - 1] /\ TwoTo[k - 1] \in Nat)
    BY <2>2, TwoToType
  <2>7. k = 0 => TwoTo[k] = 1
    BY TwoToIs
  <2>8. Fits(x, k)
    <3>1. CASE k = 0
      BY <2>2, <2>5, <2>7, <3>1
    <3>2. CASE k # 0
      <4>1. x < 2 * TwoTo[k - 1] <=> x \div 2 < TwoTo[k - 1]
        BY <2>6, <3>2
      <4>2. x < TwoTo[k] <=> BitLen[x \div 2] <= k - 1
        BY <2>4, <2>6, <3>2, <4>1
      <4>3. CASE x = 0
        BY <2>2, <2>5, <2>6, <4>3
      <4>4. CASE x # 0
        BY <2>2, <2>5, <4>2, <4>4
      <4> QED  BY <4>3, <4>4
    <3> QED  BY <3>1, <3>2
  <2> QED  BY <2>3, <2>8
<1>2. n \notin T
  BY <1>1
<1> QED  BY <1>2

\* Seven bits make a septet.
LEMMA BitLenBySeptets ==
    ASSUME NEW w \in Nat
    PROVE  /\ w \in 1 .. 127 => BitLen[w] \in 1 .. 7
           /\ w >= 128 => BitLen[w] = 7 + BitLen[w \div 128]
<1>1. \A x \in Nat : /\ BitLen[x] \in Nat /\ x \div 2 \in Nat
                     /\ x = 0 => BitLen[x] = 0
                     /\ x # 0 => BitLen[x] = 1 + BitLen[x \div 2]
  BY BitLenType
<1>2. \A x \in Nat : x < 2 => BitLen[x] <= 1
  BY <1>1
<1>3. \A x \in Nat : x < 4 => BitLen[x] <= 2
  <2>1. \A x \in Nat : x < 4 => x \div 2 \in Nat /\ x \div 2 < 2
    OBVIOUS
  <2> QED  BY <1>1, <1>2, <2>1
<1>4. \A x \in Nat : x < 8 => BitLen[x] <= 3
  <2>1. \A x \in Nat : x < 8 => x \div 2 \in Nat /\ x \div 2 < 4
    OBVIOUS
  <2> QED  BY <1>1, <1>3, <2>1
<1>5. \A x \in Nat : x < 32 => BitLen[x] <= 5
  <2>1. \A x \in Nat : x < 16 => x \div 2 \in Nat /\ x \div 2 < 8
    OBVIOUS
  <2>2. \A x \in Nat : x < 16 => BitLen[x] <= 4
    BY <1>1, <1>4, <2>1
  <2>3. \A x \in Nat : x < 32 => x \div 2 \in Nat /\ x \div 2 < 16
    OBVIOUS
  <2> QED  BY <1>1, <2>2, <2>3
<1>6. w < 128 => BitLen[w] <= 7
  <2>1. \A x \in Nat : x < 64 => x \div 2 \in Nat /\ x \div 2 < 32
    OBVIOUS
  <2>2. \A x \in Nat : x < 64 => BitLen[x] <= 6
    BY <1>1, <1>5, <2>1
  <2>3. w < 128 => w \div 2 \in Nat /\ w \div 2 < 64
    OBVIOUS
  <2> QED  BY <1>1, <2>2, <2>3
<1>7. w >= 128 => BitLen[w] = 7 + BitLen[w \div 128]
  <2>1. w >= 128 => /\ w # 0 /\ w \div 2 # 0 /\ w \div 4 # 0 /\ w \div 8 # 0
                    /\ w \div 16 # 0 /\ w \div 32 # 0 /\ w \div 64 # 0
    OBVIOUS
  <2>2. /\ (w \div 2) \div 2 = w \div 4 /\ (w \div 4) \div 2 = w \div 8
        /\ (w \div 8) \div 2 = w \div 16 /\ (w \div 16) \div 2 = w \div 32
        /\ (w \div 32) \div 2 = w \div 64 /\ (w \div 64) \div 2 = w \div 128
    OBVIOUS
  <2>3. /\ w \div 2 \in Nat /\ w \div 4 \in Nat /\ w \div 8 \in Nat /\ w \div 16 \in Nat
        /\ w \div 32 \in Nat /\ w \div 64 \in Nat /\ w \div 128 \in Nat
    OBVIOUS
  <2>4. w >= 128 =>
            /\ BitLen[w] = 1 + BitLen[w \div 2] /\ BitLen[w \div 2] = 1 + BitLen[w \div 4]
            /\ BitLen[w \div 4] = 1 + BitLen[w \div 8] /\ BitLen[w \div 8] = 1 + BitLen[w \div 16]
            /\ BitLen[w \div 16] = 1 + BitLen[w \div 32] /\ BitLen[w \div 32] = 1 + BitLen[w \div 64]
            /\ BitLen[w \div 64] = 1 + BitLen[w \div 128]
    <3>1. ASSUME NEW x \in Nat, NEW y \in Nat, x \div 2 = y, x # 0
          PROVE  BitLen[x] = 1 + BitLen[y]
      BY <1>1, <3>1
    <3>2. w >= 128 => /\ BitLen[w] = 1 + BitLen[w \div 2]
                      /\ BitLen[w \div 2] = 1 + BitLen[w \div 4]
      BY <2>1, <2>2, <2>3, <3>1, ZenonT(120)
    <3>3. w >= 128 => /\ BitLen[w \div 4] = 1 + BitLen[w \div 8]
                      /\ BitLen[w \div 8] = 1 + BitLen[w \div 16]
      BY <2>1, <2>2, <2>3, <3>1, ZenonT(120)
    <3>4. w >= 128 => /\ BitLen[w \div 16] = 1 + BitLen[w \div 32]
                      /\ BitLen[w \div 32] = 1 + BitLen[w \div 64]
      BY <2>1, <2>2, <2>3, <3>1, ZenonT(120)
    <3>5. w >= 128 => BitLen[w \div 64] = 1 + BitLen[w \div 128]
      BY <2>1, <2>2, <2>3, <3>1, ZenonT(60)
    <3> QED  BY <3>2, <3>3, <3>4, <3>5, Zenon
  <2>5. BitLen[w \div 128] \in Nat
    BY <1>1, <2>3, Zenon
  <2> QED  BY <2>4, <2>5
<1> QED  BY <1>1, <1>6, <1>7, SMTT(60)

\* What a varint looks like.
VarintShape(w, v) ==
    /\ v \in Seq(Octets) /\ Len(v) = VarintLen(w) /\ Len(v) >= 1 /\ v[Len(v)] < 128
    /\ \A k \in 1 .. Len(v) - 1 : v[k] >= 128

LEMMA VarintLenStep ==
    ASSUME NEW w \in Nat
    PROVE  /\ w < 128 => VarintLen(w) = 1
           /\ w >= 128 => VarintLen(w) = 1 + VarintLen(w \div 128) /\ VarintLen(w) \in Nat
<1>1. BitLen[w] \in Nat /\ BitLen[w \div 128] \in Nat /\ w \div 128 \in Nat
  BY BitLenType
<1>2. w < 128 => VarintLen(w) = 1
  <2>1. BitLen[1] \in 1 .. 7 /\ (w \in 1 .. 127 => BitLen[w] \in 1 .. 7)
    BY BitLenBySeptets
  <2>2. \A n \in 1 .. 7 : (n + 6) \div 7 = 1
    OBVIOUS
  <2>3. w < 128 => w = 0 \/ w \in 1 .. 127
    OBVIOUS
  <2> QED  BY <2>1, <2>2, <2>3 DEF VarintLen
<1>3. ASSUME w >= 128 PROVE VarintLen(w) = 1 + VarintLen(w \div 128) /\ VarintLen(w) \in Nat
  <2>1. w # 0 /\ w \div 128 # 0
    BY <1>3
  <2>2. VarintLen(w) = (BitLen[w] + 6) \div 7 /\ VarintLen(w \div 128) = (BitLen[w \div 128] + 6) \div 7
    BY <2>1 DEF VarintLen
  <2>3. BitLen[w] = 7 + BitLen[w \div 128]
    BY <1>3, BitLenBySeptets
  <2>4. \A n \in Nat : ((7 + n) + 6) \div 7 = 1 + ((n + 6) \div 7) /\ ((7 + n) + 6) \div 7 \in Nat
    OBVIOUS
  <2> QED  BY <1>1, <2>2, <2>3, <2>4
<1> QED  BY <1>2, <1>3

\* sovApiSki is the number of bytes that the loop of encodeVarintApiSki writes, for
\* every number: the varint fills just the room that was made for it, and all of
\* its bytes but the last say that another one follows.
THEOREM VarintFits == \A w \in Nat : VarintShape(w, Varint[w])
<1> DEFINE T == {w \in Nat : ~VarintShape(w, Varint[w])}
<1>1. T = {}
  <2> SUFFICES ASSUME T # {} PROVE FALSE
    OBVIOUS
  <2>1. PICK w \in T : \A m \in T : w <= m
    <3>1. T \in SUBSET Nat
      OBVIOUS
    <3> HIDE DEF T
    <3> QED  BY <3>1, LeastNumber
  <2>2. w \in Nat /\ ~VarintShape(w, Varint[w])
    OBVIOUS
  <2>3. Varint[w] = IF w < 128 THEN <<w>> ELSE <<128 + (w % 128)>> \o Varint[w \div 128]
    BY <2>2, VarintIs, ZenonT(60)
  <2>4. CASE w < 128
    <3>1. Varint[w] = <<w>> /\ w \in Octets /\ VarintLen(w) = 1
      BY <2>2, <2>3, <2>4, VarintLenStep DEF Octets
    <3>2. VarintShape(w, <<w>>)
      BY <2>4, <3>1 DEF VarintShape
    <3> QED  BY <2>2, <3>1, <3>2
  <2>5. CASE ~(w < 128)
    <3>1. w \div 128 \in Nat /\ ~(w <= w \div 128) /\ 128 + (w % 128) \in Octets
      BY <2>2, <2>5 DEF Octets
    <3>2. w \div 128 \notin T
      BY <2>1, <3>1
    <3>3. VarintShape(w \div 128, Varint[w \div 128])
      BY <3>1, <3>2
    <3>4. VarintLen(w) = 1 + VarintLen(w \div 128)
      BY <2>2, <2>5, VarintLenStep
    <3> DEFINE u == Varint[w \div 128]
               x == 128 + (w % 128)
    <3>5. Varint[w] = <<x>> \o u
      BY <2>3, <2>5
    <3>6. x >= 128
      BY <2>2
    <3>7. u \in Seq(Octets) /\ Len(u) = VarintLen(w \div 128) /\ Len(u) >= 1 /\ u[Len(u)] < 128
          /\ \A k \in 1 .. Len(u) - 1 : u[k] >= 128
      BY <3>3 DEF VarintShape
    <3>8. x \in Octets
      BY <3>1
    <3> HIDE DEF u, x, T
    <3> DEFINE v == <<x>> \o u
    <3>9. /\ v \in Seq(Octets) /\ Len(v) = 1 + Len(u) /\ v[1] = x
          /\ \A k \in 1 .. Len(u) : v[k + 1] = u[k]
      BY <3>7, <3>8
    <3>10. Len(u) \in Nat
      BY <3>7
    <3> HIDE DEF v
    <3>11. Len(v) = VarintLen(w) /\ Len(v) >= 1 /\ v[Len(v)] < 128
      <4>1. Len(u) \in 1 .. Len(u) /\ Len(v) = Len(u) + 1
        BY <3>7, <3>9, <3>10
      <4> QED  BY <3>4, <3>7, <3>9, <3>10, <4>1
    <3>12. \A k \in 1 .. Len(v) - 1 : v[k] >= 128
      <4>1. ASSUME NEW k \in 1 .. Len(v) - 1 PROVE v[k] >= 128
        <5>1. CASE k = 1
          BY <3>6, <3>9, <5>1
        <5>2. CASE k # 1
          <6>1. k - 1 \in 1 .. Len(u) - 1 /\ k - 1 \in 1 .. Len(u) /\ (k - 1) + 1 = k
            BY <3>9, <3>10, <5>2
          <6> QED  BY <3>7, <3>9, <6>1, SMTT(60)
        <5> QED  BY <5>1, <5>2
      <4> QED  BY <4>1
    <3>13. VarintShape(w, v)
      BY <3>9, <3>11, <3>12 DEF VarintShape
    <3> QED  BY <2>2, <3>5, <3>13 DEF v
  <2> QED  BY <2>4, <2>5
<1> QED  BY <1>1

-----------------------------------------------------------------------------
(* Reading a varint.                                                       *)

\* What Septets computes, from the last byte back.
IsSeptets(F, b, i, j) ==
    \A k \in i .. j : F[k] = (b[k] % 128) + (IF k = j THEN 0 ELSE 128 * F[k + 1])

SeptetsBody(F, b, i, j) ==
    [k \in i .. j |-> (b[k] % 128) + (IF k = j THEN 0 ELSE 128 * F[k + 1])]

LEMMA SeptetsExist ==
    ASSUME NEW b, NEW i \in Nat, NEW j \in Nat, i <= j, \A k \in i .. j : b[k] \in Nat
    PROVE  \E F : F = SeptetsBody(F, b, i, j)
<1> DEFINE down == [n \in Nat |-> IF n = 0 THEN 0 ELSE n - 1]
           step == [p \in Nat \X Nat |->
                       IF p[1] <= j - i THEN (b[j - p[1]] % 128) + 128 * p[2] ELSE 0]
           base == b[j] % 128
<1>1. down \in [Nat -> Nat] /\ \A n \in Nat : n # 0 => down[n] < n
  OBVIOUS
<1>2. step \in [Nat \X Nat -> Nat]
  <2>1. \A x \in Nat : x <= j - i => b[j - x] \in Nat
    OBVIOUS
  <2>2. \A x \in Nat, y \in Nat : x <= j - i => (b[j - x] % 128) + 128 * y \in Nat
    BY <2>1
  <2> QED  BY <2>2
<1>3. base \in Nat
  OBVIOUS
<1>4. PICK h \in [Nat -> Nat] : Recursive(base, step, down, h)
  <2> HIDE DEF down, step, base
  <2> QED  BY <1>1, <1>2, <1>3, RecursionOnNat, Zenon
<1>5. h[0] = base /\ \A n \in Nat : n # 0 => h[n] = step[<<n, h[n - 1]>>]
  <2>1. \A n \in Nat : n # 0 => down[n] = n - 1
    OBVIOUS
  <2> HIDE DEF down, step, base
  <2>2. \A n \in Nat : n # 0 => h[n] = step[<<n, h[n - 1]>>]
    BY <1>4, <2>1, Zenon DEF Recursive
  <2>3. h[0] = base
    BY <1>4 DEF Recursive
  <2> QED  BY <2>2, <2>3
<1>6. \A n \in 1 .. j - i : h[n] = (b[j - n] % 128) + 128 * h[n - 1]
  <2>1. \A n \in 1 .. j - i : \A y \in Nat : step[<<n, y>>] = (b[j - n] % 128) + 128 * y
    OBVIOUS
  <2>2. \A n \in 1 .. j - i : n \in Nat /\ n # 0 /\ h[n - 1] \in Nat
    BY <1>4
  <2> HIDE DEF step
  <2> QED  BY <1>5, <2>1, <2>2, ZenonT(120)
<1> DEFINE F == [k \in i .. j |-> h[j - k]]
<1>7. \A k \in i .. j : F[k] = (b[k] % 128) + (IF k = j THEN 0 ELSE 128 * F[k + 1])
  <2>1. ASSUME NEW k \in i .. j, k # j PROVE h[j - k] = (b[k] % 128) + 128 * h[j - (k + 1)]
    <3>1. j - k \in 1 .. j - i /\ j - (j - k) = k /\ (j - k) - 1 = j - (k + 1)
      BY <2>1
    <3> QED  BY <1>6, <3>1
  <2>2. h[j - j] = b[j] % 128 /\ j \in i .. j
    BY <1>5
  <2>3. \A k \in i .. j : k # j => k + 1 \in i .. j
    OBVIOUS
  <2>4. \A k \in i .. j : F[k] = h[j - k]
    OBVIOUS
  <2>5. ASSUME NEW k \in i .. j
        PROVE  F[k] = (b[k] % 128) + (IF k = j THEN 0 ELSE 128 * F[k + 1])
    <3> HIDE DEF F
    <3>1. CASE k = j
      <4>1. F[k] = b[k] % 128 /\ (b[k] % 128) \in Nat
        BY <2>2, <2>4, <3>1
      <4> QED  BY <3>1, <4>1
    <3>2. CASE k # j
      BY <2>1, <2>3, <2>4, <3>2
    <3> QED  BY <3>1, <3>2
  <2> QED  BY <2>5
<1>8. F = SeptetsBody(F, b, i, j)
  BY <1>7 DEF SeptetsBody
<1> HIDE DEF F
<1> QED  BY <1>8

\* What encodeVarintApiSki has written, at b[i].
Holds(b, i, v) == \A k \in 1 .. Len(v) : b[(i + k) - 1] = v[k]

LEMMA SeptetsAdd ==
    ASSUME NEW w \in Nat, NEW b, NEW i \in Nat, Holds(b, i, Varint[w]),
           NEW F, IsSeptets(F, b, i, (i + Len(Varint[w])) - 1)
    PROVE  F[i] = w
<1> DEFINE Adds(x) == \A n \in Nat :
               Holds(b, n, Varint[x]) /\ IsSeptets(F, b, n, (n + Len(Varint[x])) - 1) => F[n] = x
           T == {x \in Nat : ~Adds(x)}
<1>1. T = {}
  <2> SUFFICES ASSUME T # {} PROVE FALSE
    OBVIOUS
  <2>1. PICK x \in T : \A m \in T : x <= m
    <3>1. T \in SUBSET Nat
      OBVIOUS
    <3> HIDE DEF T
    <3> QED  BY <3>1, LeastNumber
  <2>2. x \in Nat /\ ~Adds(x)
    OBVIOUS
  <2>3. PICK n \in Nat : /\ Holds(b, n, Varint[x]) /\ F[n] # x
                         /\ IsSeptets(F, b, n, (n + Len(Varint[x])) - 1)
    BY <2>2
  <2>4. Varint[x] = IF x < 128 THEN <<x>> ELSE <<128 + (x % 128)>> \o Varint[x \div 128]
    BY <2>2, VarintIs, ZenonT(60)
  <2>5. CASE x < 128
    <3>1. Varint[x] = <<x>>
      BY <2>4, <2>5
    <3>2. (n + Len(Varint[x])) - 1 = n /\ Len(Varint[x]) = 1 /\ Varint[x][1] = x /\ (n + 1) - 1 = n
      BY <3>1
    <3>3. b[n] = x
      BY <2>3, <3>2, SMTT(60) DEF Holds
    <3>4. F[n] = (b[n] % 128) + 0
      <4>1. n \in n .. n
        OBVIOUS
      <4> QED  BY <2>3, <3>2, <4>1 DEF IsSeptets
    <3> QED  BY <2>2, <2>3, <2>5, <3>3, <3>4, SMTT(60)
  <2>6. CASE ~(x < 128)
    <3> DEFINE y == x \div 128
               u == Varint[y]
               v == Varint[x]
    <3>1. y \in Nat /\ ~(x <= y) /\ x = 128 * y + (x % 128) /\ 128 + (x % 128) \in Nat
          /\ (128 + (x % 128)) % 128 = x % 128 /\ x % 128 \in Nat
      BY <2>2, <2>6, SMTT(60)
    <3>2. Adds(y)
      <4>1. y \notin T
        BY <2>1, <3>1
      <4> HIDE DEF Adds
      <4> QED  BY <3>1, <4>1
    <3>3. u \in Seq(Octets) /\ Len(u) >= 1
      BY <3>1, VarintFits, ZenonT(60) DEF VarintShape
    <3>4. v = <<128 + (x % 128)>> \o u
      BY <2>4, <2>6
    <3> HIDE DEF u, v, y
    <3>5. /\ Len(v) = 1 + Len(u) /\ v[1] = 128 + (x % 128) /\ Len(u) \in Nat
          /\ \A k \in 1 .. Len(u) : v[k + 1] = u[k]
      BY <3>3, <3>4, SMTT(60)
    <3>6. b[n] = 128 + (x % 128)
      <4>1. 1 \in 1 .. Len(v) /\ (n + 1) - 1 = n
        BY <3>5
      <4> QED  BY <2>3, <3>5, <4>1, ZenonT(60) DEF Holds, v
    <3>7. Holds(b, n + 1, u)
      <4>1. ASSUME NEW k \in 1 .. Len(u) PROVE b[((n + 1) + k) - 1] = u[k]
        <5>1. k + 1 \in 1 .. Len(v) /\ ((n + 1) + k) - 1 = (n + (k + 1)) - 1
          BY <3>5
        <5>2. b[(n + (k + 1)) - 1] = v[k + 1]
          BY <2>3, <5>1 DEF Holds, v
        <5> QED  BY <3>5, <5>1, <5>2
      <4> QED  BY <4>1 DEF Holds
    <3>8. /\ (n + Len(v)) - 1 = ((n + 1) + Len(u)) - 1
          /\ (n + Len(v)) - 1 \in Nat /\ (n + Len(v)) - 1 > n
      BY <3>3, <3>5, SMTT(60)
    <3>9. IsSeptets(F, b, n, (n + Len(v)) - 1)
      BY <2>3 DEF v
    <3>10. IsSeptets(F, b, n + 1, ((n + 1) + Len(u)) - 1)
      <4>1. \A k \in n + 1 .. (n + Len(v)) - 1 : k \in n .. (n + Len(v)) - 1
        OBVIOUS
      <4> QED  BY <3>8, <3>9, <4>1 DEF IsSeptets
    <3>11. F[n + 1] = y
      <4>1. n + 1 \in Nat
        OBVIOUS
      <4> QED  BY <3>2, <3>7, <3>10, <4>1, Zenon DEF u
    <3>12. F[n] = (b[n] % 128) + 128 * F[n + 1]
      <4>1. n \in n .. (n + Len(v)) - 1 /\ n # (n + Len(v)) - 1
        BY <3>8, SMTT(60)
      <4> QED  BY <3>9, <4>1, ZenonT(60) DEF IsSeptets
    <3> QED  BY <2>2, <2>3, <3>1, <3>6, <3>11, <3>12
  <2> QED  BY <2>5, <2>6
<1>2. Adds(w)
  BY <1>1
<1> QED  BY <1>2

\* The indices at which a varint may end, and the first of them.
Ends(b, i, max) == {k \in 0 .. max - 1 : i + k <= Len(b) /\ b[i + k] < 128}
First(ends) == CHOOSE k \in ends : \A j \in ends : k <= j

LEMMA VarintEnds ==
    ASSUME NEW w \in Nat, NEW b \in Seq(Octets), NEW i \in Nat \ {0}, NEW max \in Nat,
           VarintLen(w) <= max, (i + Len(Varint[w])) - 1 <= Len(b), Holds(b, i, Varint[w])
    PROVE  Ends(b, i, max) # {} /\ First(Ends(b, i, max)) = VarintLen(w) - 1
<1>1. PICK v : v = Varint[w]
  OBVIOUS
<1>2. PICK last : last = VarintLen(w) - 1
  OBVIOUS
<1>3. /\ v \in Seq(Octets) /\ Len(v) = VarintLen(w) /\ Len(v) >= 1 /\ v[Len(v)] < 128
      /\ \A k \in 1 .. Len(v) - 1 : v[k] >= 128
  BY <1>1, VarintFits DEF VarintShape
<1>4. \A k \in 1 .. Len(v) : b[(i + k) - 1] = v[k]
  BY <1>1 DEF Holds
<1>5. Len(v) \in Nat /\ Len(b) \in Nat
  BY <1>3
<1>6. last \in Nat /\ last + 1 = Len(v) /\ i + last <= Len(b) /\ last < max
  <2>1. (i + Len(v)) - 1 <= Len(b)
    BY <1>1
  <2> QED  BY <1>2, <1>3, <1>5, <2>1, SMTT(60)
<1>7. b[i + last] < 128
  <2>1. Len(v) \in 1 .. Len(v) /\ (i + Len(v)) - 1 = i + last
    BY <1>3, <1>5, <1>6, SMTT(40)
  <2> QED  BY <1>3, <1>4, <2>1
<1>8. \A k \in Nat : k < last => ~(b[i + k] < 128)
  <2>1. ASSUME NEW k \in Nat, k < last PROVE ~(b[i + k] < 128)
    <3>1. /\ k + 1 \in 1 .. Len(v) /\ k + 1 \in 1 .. Len(v) - 1 /\ (i + (k + 1)) - 1 = i + k
      BY <1>5, <1>6, <2>1
    <3>2. b[i + k] = v[k + 1] /\ v[k + 1] >= 128
      BY <1>3, <1>4, <3>1
    <3>3. v[k + 1] \in Octets
      BY <1>3, <3>1
    <3> QED  BY <3>2, <3>3, OctetsAreNumbers, SMTT(60)
  <2> QED  BY <2>1
<1>9. last \in Ends(b, i, max)
  BY <1>6, <1>7 DEF Ends
<1>10. \A k \in Ends(b, i, max) : k \in Nat /\ last <= k
  BY <1>6, <1>8 DEF Ends
<1>11. \A k \in Ends(b, i, max) : k <= last => k = last
  BY <1>6, <1>10
<1>12. First(Ends(b, i, max)) = last
  BY <1>9, <1>10, <1>11 DEF First
<1> QED  BY <1>2, <1>9, <1>12

LEMMA SeptetsOfVarint ==
    ASSUME NEW w \in Nat, NEW b \in Seq(Octets), NEW i \in Nat \ {0},
           (i + Len(Varint[w])) - 1 <= Len(b), Holds(b, i, Varint[w])
    PROVE  Septets(b, i, (i + Len(Varint[w])) - 1) = w
<1> DEFINE j == (i + Len(Varint[w])) - 1
           from == CHOOSE F : F = SeptetsBody(F, b, i, j)
<1>1. Len(Varint[w]) \in Nat /\ Len(Varint[w]) >= 1
  BY VarintFits DEF VarintShape
<1>2. j \in Nat /\ i <= j /\ \A k \in i .. j : b[k] \in Nat
  <2>1. j \in Nat /\ i <= j /\ j <= Len(b)
    BY <1>1
  <2> HIDE DEF j
  <2>2. \A k \in i .. j : b[k] \in Octets
    BY <2>1
  <2> QED  BY <2>1, <2>2, OctetsAreNumbers
<1> HIDE DEF j
<1>3. \E F : F = SeptetsBody(F, b, i, j)
  <2>1. i \in Nat
    OBVIOUS
  <2> QED  BY <1>2, <2>1, SeptetsExist, Zenon
<1>4. from = SeptetsBody(from, b, i, j)
  BY <1>3
<1>5. IsSeptets(from, b, i, j)
  <2> HIDE DEF from
  <2> QED  BY <1>4 DEF IsSeptets, SeptetsBody
<1>6. from[i] = w
  <2> HIDE DEF from
  <2> QED  BY <1>5, SeptetsAdd DEF j
<1>7. Septets(b, i, j) = from[i]
  BY DEF Septets, SeptetsBody
<1> QED  BY <1>6, <1>7 DEF j

\* A word that encodeVarintApiSki has written anywhere in a buffer is read back by
\* the loops over shift, for any width of words: they stop at its last byte, no
\* bit is lost, and the shift stays below the width.
THEOREM VarintIsRead ==
    ASSUME WordBits \in Nat \ {0}, NEW w \in Nat, w < TwoTo[WordBits],
           NEW b \in Seq(Octets), NEW i \in Nat \ {0},
           (i + Len(Varint[w])) - 1 <= Len(b), Holds(b, i, Varint[w])
    PROVE  ReadVarint(b, i) = [ok |-> TRUE, next |-> i + VarintLen(w), word |-> w]
<1>1. VarintLen(w) \in Nat /\ VarintLen(w) >= 1 /\ Len(Varint[w]) = VarintLen(w)
  BY VarintFits DEF VarintShape
<1>2. MaxVarint \in Nat /\ VarintLen(w) <= MaxVarint
  <2>1. BitLen[w] <= WordBits /\ BitLen[w] \in Nat
    BY BitLenBounds, BitLenType
  <2>2. BitLen[1] = 1
    <3>1. BitLen[1] = 1 + BitLen[0] /\ BitLen[0] = 0
      BY BitLenType
    <3> QED  BY <3>1
  <2>3. BitLen[IF w = 0 THEN 1 ELSE w] \in Nat /\ BitLen[IF w = 0 THEN 1 ELSE w] <= WordBits
    BY <2>1, <2>2
  <2>4. \A m \in Nat, n \in Nat : m <= n => (m + 6) \div 7 <= (n + 6) \div 7 /\ (n + 6) \div 7 \in Nat
    OBVIOUS
  <2> QED  BY <2>3, <2>4 DEF VarintLen, MaxVarint
<1> DEFINE n == First(Ends(b, i, MaxVarint))
<1>3. Ends(b, i, MaxVarint) # {} /\ n = VarintLen(w) - 1
  BY <1>2, VarintEnds
<1>4. ReadVarint(b, i) = [ok |-> TRUE, next |-> (i + n) + 1, word |-> Word(Septets(b, i, i + n))]
  BY <1>3 DEF ReadVarint, Ends, First
<1> HIDE DEF n
<1>5. (i + n) + 1 = i + VarintLen(w) /\ i + n = (i + Len(Varint[w])) - 1
  BY <1>1, <1>3, SMTT(60)
<1>6. Septets(b, i, i + n) = w
  BY <1>5, SeptetsOfVarint
<1>7. Word(w) = w
  <2>1. TwoTo[WordBits] \in Nat /\ TwoTo[WordBits] >= 1
    BY TwoToType
  <2>2. \A m \in Nat : w < m => w % m = w
    OBVIOUS
  <2> QED  BY <2>1, <2>2 DEF Word
<1> QED  BY <1>4, <1>5, <1>6, <1>7

-----------------------------------------------------------------------------
(* How long what Marshal writes is.                                        *)

\* The function that Total defines by recursion.
TotalBody(lengths, F) ==
    [k \in {0} \cup DOMAIN lengths |-> IF k = 0 THEN 0 ELSE F[k - 1] + lengths[k]]
Totals(lengths) == CHOOSE F : F = TotalBody(lengths, F)

LEMMA TotalsExist ==
    ASSUME NEW n \in Nat, NEW L \in [1 .. n -> Nat]
    PROVE  Totals(L) = TotalBody(L, Totals(L))
<1> DEFINE down == [x \in Nat |-> IF x = 0 THEN 0 ELSE x - 1]
           step == [p \in Nat \X Nat |-> IF p[1] \in 1 .. n THEN p[2] + L[p[1]] ELSE 0]
<1>1. down \in [Nat -> Nat] /\ \A x \in Nat : x # 0 => down[x] < x /\ down[x] = x - 1
  OBVIOUS
<1>2. step \in [Nat \X Nat -> Nat]
  <2>1. \A x \in 1 .. n : L[x] \in Nat
    OBVIOUS
  <2>2. \A x \in Nat, y \in Nat : x \in 1 .. n => y + L[x] \in Nat
    BY <2>1
  <2> QED  BY <2>2
<1>3. PICK h \in [Nat -> Nat] : Recursive(0, step, down, h)
  <2>1. 0 \in Nat
    OBVIOUS
  <2> HIDE DEF down, step
  <2> QED  BY <1>1, <1>2, <2>1, RecursionOnNat, Zenon
<1>4. \A x \in 1 .. n : \A y \in Nat : step[<<x, y>>] = y + L[x]
  <2>1. ASSUME NEW x \in 1 .. n, NEW y \in Nat PROVE step[<<x, y>>] = y + L[x]
    <3>1. <<x, y>> \in Nat \X Nat
      <4>1. x \in Nat
        OBVIOUS
      <4> QED  BY <4>1, Zenon
    <3>2. step[<<x, y>>] = IF <<x, y>>[1] \in 1 .. n THEN <<x, y>>[2] + L[<<x, y>>[1]] ELSE 0
      BY <3>1, Zenon
    <3>3. <<x, y>>[1] = x /\ <<x, y>>[2] = y
      OBVIOUS
    <3> QED  BY <3>2, <3>3, Zenon
  <2> QED  BY <2>1
<1>5. \A x \in 1 .. n : h[x] = h[x - 1] + L[x]
  <2> HIDE DEF down, step
  <2>1. ASSUME NEW x \in 1 .. n PROVE h[x] = h[x - 1] + L[x]
    <3>1. x \in Nat /\ x # 0 /\ x - 1 \in Nat
      OBVIOUS
    <3>2. h[x] = step[<<x, h[down[x]]>>] /\ down[x] = x - 1
      BY <1>1, <1>3, <3>1 DEF Recursive
    <3>3. h[x - 1] \in Nat
      BY <1>3, <3>1
    <3> QED  BY <1>4, <3>2, <3>3
  <2> QED  BY <2>1
<1>6. h[0] = 0
  BY <1>3 DEF Recursive
<1> DEFINE F == [k \in {0} \cup DOMAIN L |-> h[k]]
<1>7. F = TotalBody(L, F)
  <2>1. DOMAIN L = 1 .. n
    OBVIOUS
  <2>2. \A k \in {0} \cup 1 .. n : F[k] = h[k]
    BY <2>1
  <2>3. ASSUME NEW k \in {0} \cup 1 .. n
        PROVE  h[k] = IF k = 0 THEN 0 ELSE F[k - 1] + L[k]
    <3> HIDE DEF F
    <3>1. CASE k = 0
      BY <1>6, <3>1
    <3>2. CASE k # 0
      <4>1. k \in 1 .. n /\ k - 1 \in {0} \cup 1 .. n
        BY <3>2
      <4> QED  BY <1>5, <2>2, <3>2, <4>1
    <3> QED  BY <3>1, <3>2
  <2> QED  BY <2>1, <2>3 DEF TotalBody
<1>8. \E G : G = TotalBody(L, G)
  <2> HIDE DEF F
  <2> QED  BY <1>7
<1> QED  BY <1>8 DEF Totals

LEMMA TotalIs ==
    ASSUME NEW n \in Nat, NEW L \in [1 .. n -> Nat]
    PROVE  /\ Total(L) = Totals(L)[n] /\ Totals(L)[0] = 0
           /\ \A k \in 1 .. n : Totals(L)[k] = Totals(L)[k - 1] + L[k]
<1>1. DOMAIN L = 1 .. n /\ Len(L) = n
  OBVIOUS
<1>2. Total(L) = Totals(L)[Len(L)]
  BY DEF Total, Totals, TotalBody
<1>3. Totals(L) = TotalBody(L, Totals(L))
  BY TotalsExist
<1> QED  BY <1>1, <1>2, <1>3 DEF TotalBody

\* Bytes, and what is counted for them.
Counted(b, n) == b \in Seq(Octets) /\ n \in Nat /\ Len(b) = n

LEMMA FlattenCounted ==
    ASSUME NEW n \in Nat, NEW F, F = [k \in 1 .. n |-> F[k]],
           NEW L, L = [k \in 1 .. n |-> L[k]],
           \A k \in 1 .. n : Counted(F[k], L[k])
    PROVE  Counted(FlattenSeq(F), Total(L))
<1>1. F \in [1 .. n -> Seq(Octets)] /\ L \in [1 .. n -> Nat] /\ \A k \in 1 .. n : Len(F[k]) = L[k]
  BY DEF Counted
<1>2. PICK G : G = Totals(L)
  OBVIOUS
<1>3. Total(L) = G[n] /\ G[0] = 0 /\ \A k \in 1 .. n : G[k] = G[k - 1] + L[k]
  BY <1>1, <1>2, TotalIs
<1> DEFINE T == {k \in 0 .. n : ~Counted(UpTo(F, k), G[k])}
<1>4. T = {}
  <2> SUFFICES ASSUME T # {} PROVE FALSE
    OBVIOUS
  <2>1. PICK k \in T : \A i \in T : k <= i
    <3>1. T \in SUBSET Nat
      OBVIOUS
    <3> HIDE DEF T
    <3> QED  BY <3>1, LeastNumber
  <2>2. k \in 0 .. n /\ ~Counted(UpTo(F, k), G[k])
    OBVIOUS
  <2>3. UpToIs(Octets, F, k)
    BY <1>1, <2>2, UpToGrows
  <2>4. /\ UpTo(F, k) \in Seq(Octets) /\ (k = 0 => UpTo(F, k) = <<>>)
        /\ (k # 0 => UpTo(F, k) = UpTo(F, k - 1) \o F[k])
    BY <2>3 DEF UpToIs
  <2>5. k # 0
    BY <1>3, <2>2, <2>4 DEF Counted
  <2>6. k - 1 \in 0 .. n /\ ~(k <= k - 1) /\ k \in 1 .. n
    BY <2>2, <2>5
  <2>7. Counted(UpTo(F, k - 1), G[k - 1])
    BY <2>1, <2>6
  <2>8. F[k] \in Seq(Octets) /\ L[k] \in Nat /\ Len(F[k]) = L[k]
    BY <1>1, <2>6
  <2>9. Counted(UpTo(F, k - 1) \o F[k], G[k - 1] + L[k])
    <3>1. ASSUME NEW a \in Seq(Octets), NEW c \in Seq(Octets)
          PROVE  /\ a \o c \in Seq(Octets) /\ Len(a \o c) = Len(a) + Len(c)
                 /\ Len(a) + Len(c) \in Nat
      OBVIOUS
    <3> QED  BY <2>7, <2>8, <3>1 DEF Counted
  <2> QED  BY <1>3, <2>2, <2>4, <2>5, <2>6, <2>9
<1>5. Counted(UpTo(F, n), G[n])
  BY <1>4
<1>6. UpTo(F, n) = FlattenSeq(F)
  BY DEF UpTo
<1> QED  BY <1>3, <1>5, <1>6

LEMMA WordIs ==
    ASSUME WordBits \in Nat \ {0}, NEW v \in Int
    PROVE  Word(v) \in Nat /\ Word(v) < TwoTo[WordBits]
<1>1. TwoTo[WordBits] \in Nat /\ TwoTo[WordBits] >= 1
  BY TwoToType
<1>2. \A n \in Nat : n >= 1 => v % n \in Nat /\ v % n < n
  OBVIOUS
<1> QED  BY <1>1, <1>2 DEF Word

LEMMA VarintCounted ==
    ASSUME NEW w \in Nat
    PROVE  Counted(Varint[w], VarintLen(w))
<1>1. Varint[w] \in Seq(Octets) /\ Len(Varint[w]) = VarintLen(w)
  BY VarintFits DEF VarintShape
<1> QED  BY <1>1 DEF Counted

LEMMA JoinedCounted ==
    ASSUME NEW a, NEW m, Counted(a, m), NEW b, NEW n, Counted(b, n)
    PROVE  Counted(a \o b, m + n)
<1>1. a \in Seq(Octets) /\ b \in Seq(Octets) /\ m \in Nat /\ n \in Nat /\ Len(a) = m /\ Len(b) = n
  BY DEF Counted
<1>2. a \o b \in Seq(Octets) /\ Len(a \o b) = Len(a) + Len(b)
  BY <1>1
<1> QED  BY <1>1, <1>2 DEF Counted

LEMMA OneCounted ==
    ASSUME NEW x \in Octets
    PROVE  Counted(<<x>>, 1)
BY DEF Counted

LEMMA PrefixedCounted ==
    ASSUME NEW b, NEW n, Counted(b, n)
    PROVE  Counted(Prefixed(b), VarintLen(n) + n)
<1>1. n \in Nat /\ Len(b) = n
  BY DEF Counted
<1>2. Counted(Varint[n], VarintLen(n))
  BY <1>1, VarintCounted
<1>3. Counted(Varint[n] \o b, VarintLen(n) + n)
  BY <1>2, JoinedCounted
<1> QED  BY <1>1, <1>3 DEF Prefixed

LEMMA TaggedCounted ==
    ASSUME NEW x \in Octets, NEW b, NEW n, Counted(b, n)
    PROVE  Counted(<<x>> \o b, 1 + n)
BY OneCounted, JoinedCounted

-----------------------------------------------------------------------------
(* What is written is read.                                                *)

LEMMA RemainderIs ==
    ASSUME NEW a \in Nat, a >= 1, NEW q \in Int, NEW r \in Int, r >= 0, r < a
    PROVE  (q * a + r) % a = r
OBVIOUS

LEMMA Divided ==
    ASSUME NEW a \in Nat, a >= 1, NEW v \in Int
    PROVE  /\ v = (v \div a) * a + (v % a) /\ v \div a \in Int
           /\ v % a \in Int /\ v % a >= 0 /\ v % a < a
OBVIOUS

LEMMA DoubleRemainder ==
    ASSUME NEW a \in Nat, a >= 1, NEW v \in Int
    PROVE  (v % (2 * a)) % a = v % a
<1>1. PICK w : w = v % (2 * a)
  OBVIOUS
<1>2. PICK q : q = v \div (2 * a)
  OBVIOUS
<1>3. v = q * (2 * a) + w /\ q \in Int /\ w \in Int
  <2>1. 2 * a \in Nat /\ 2 * a >= 1
    OBVIOUS
  <2> QED  BY <1>1, <1>2, <2>1, Divided
<1>4. PICK d : d = w \div a
  OBVIOUS
<1>5. PICK r : r = w % a
  OBVIOUS
<1>6. w = d * a + r /\ d \in Int /\ r \in Int /\ r >= 0 /\ r < a
  BY <1>3, <1>4, <1>5, Divided
<1>7. v = (2 * q + d) * a + r /\ 2 * q + d \in Int
  BY <1>3, <1>6
<1>8. v % a = r
  BY <1>6, <1>7, RemainderIs
<1> QED  BY <1>1, <1>5, <1>8

\* The low bits of a number are those of its low bits.
LEMMA LowBits ==
    ASSUME NEW h \in Nat, NEW n \in Nat, h <= n, NEW v \in Int
    PROVE  (v % TwoTo[n]) % TwoTo[h] = v % TwoTo[h]
<1> DEFINE Low(k) == \A x \in Int : (x % TwoTo[k]) % TwoTo[h] = x % TwoTo[h]
           T == {k \in Nat : h <= k /\ ~Low(k)}
<1>1. T = {}
  <2> SUFFICES ASSUME T # {} PROVE FALSE
    OBVIOUS
  <2>1. PICK k \in T : \A i \in T : k <= i
    <3>1. T \in SUBSET Nat
      OBVIOUS
    <3> HIDE DEF T
    <3> QED  BY <3>1, LeastNumber
  <2>2. k \in Nat /\ h <= k
    OBVIOUS
  <2>3. PICK x \in Int : (x % TwoTo[k]) % TwoTo[h] # x % TwoTo[h]
    OBVIOUS
  <2>4. TwoTo[h] \in Nat /\ TwoTo[h] >= 1 /\ TwoTo[k] \in Nat /\ TwoTo[k] >= 1
    BY <2>2, TwoToType
  <2>5. k # h
    <3>1. \A a \in Nat : a >= 1 => (x % a) % a = x % a
      OBVIOUS
    <3> QED  BY <2>3, <2>4, <3>1
  <2>6. k - 1 \in Nat /\ h <= k - 1 /\ ~(k <= k - 1) /\ k # 0
    BY <2>2, <2>5
  <2>7. Low(k - 1)
    <3>1. k - 1 \notin T
      BY <2>1, <2>6
    <3> HIDE DEF Low
    <3> QED  BY <2>6, <3>1
  <2>8. PICK a : a = TwoTo[k - 1]
    OBVIOUS
  <2>9. a \in Nat /\ a >= 1 /\ TwoTo[k] = 2 * a
    BY <2>2, <2>6, <2>8, TwoToType
  <2>10. PICK y : y = x % TwoTo[k]
    OBVIOUS
  <2>11. y \in Int /\ y % a = x % a
    <3>1. y \in Int
      BY <2>4, <2>10
    <3> QED  BY <2>9, <2>10, <3>1, DoubleRemainder
  <2>12. (y % a) % TwoTo[h] = y % TwoTo[h] /\ (x % a) % TwoTo[h] = x % TwoTo[h]
    BY <2>7, <2>8, <2>11
  <2> QED  BY <2>3, <2>10, <2>11, <2>12
<1>2. Low(n)
  BY <1>1
<1> QED  BY <1>2

LEMMA SignedIs ==
    ASSUME NEW n \in Nat, n # 0, NEW v \in Int, -TwoTo[n - 1] <= v, v < TwoTo[n - 1]
    PROVE  Signed(v % TwoTo[n], n) = v
<1>1. PICK a : a = TwoTo[n - 1]
  OBVIOUS
<1>2. a \in Nat /\ a >= 1 /\ TwoTo[n] = 2 * a /\ -a <= v /\ v < a
  <2>1. n - 1 \in Nat
    OBVIOUS
  <2> QED  BY <1>1, <2>1, TwoToType
<1>3. v % (2 * a) = IF v >= 0 THEN v ELSE v + 2 * a
  <2>1. 2 * a \in Nat /\ 2 * a >= 1
    BY <1>2
  <2>2. CASE v >= 0
    <3>1. (0 * (2 * a) + v) % (2 * a) = v
      <4>1. 0 \in Int /\ v < 2 * a
        BY <1>2
      <4> QED  BY <2>1, <2>2, <4>1, RemainderIs
    <3>2. 0 * (2 * a) + v = v
      BY <2>1
    <3> QED  BY <2>2, <3>1, <3>2
  <2>3. CASE ~(v >= 0)
    <3>1. v + 2 * a \in Int /\ v + 2 * a >= 0 /\ v + 2 * a < 2 * a /\ -1 \in Int
      BY <1>2, <2>3
    <3>2. ((-1) * (2 * a) + (v + 2 * a)) % (2 * a) = v + 2 * a
      BY <2>1, <3>1, RemainderIs
    <3>3. (-1) * (2 * a) + (v + 2 * a) = v
      BY <1>2
    <3> QED  BY <2>3, <3>2, <3>3
  <2> QED  BY <2>2, <2>3
<1>4. PICK w : w = v % (2 * a)
  OBVIOUS
<1>5. Signed(w, n) = IF w < a THEN w ELSE w - 2 * a
  BY <1>1, <1>2 DEF Signed
<1> QED  BY <1>2, <1>3, <1>4, <1>5

\* Where v is, if it was written after p and before s.
IsWritten(b, p, v, s) ==
    /\ b \in Seq(Octets) /\ Len(b) = Len(p) + Len(v) + Len(s)
    /\ \A k \in 1 .. Len(v) : b[Len(p) + k] = v[k]

LEMMA Written ==
    ASSUME NEW p \in Seq(Octets), NEW v \in Seq(Octets), NEW s \in Seq(Octets)
    PROVE  IsWritten((p \o v) \o s, p, v, s)
BY SMTT(60) DEF IsWritten

AreJoined(x, y, z) ==
    /\ x \o (y \o z) = (x \o y) \o z
    /\ x \o y \in Seq(Octets) /\ Len(x \o y) = Len(x) + Len(y) /\ Len(x) \in Nat
    /\ y \o z \in Seq(Octets) /\ Len((x \o y) \o z) = Len(x \o y) + Len(z) /\ Len(x \o y) \in Nat

LEMMA Joining ==
    ASSUME NEW x \in Seq(Octets), NEW y \in Seq(Octets), NEW z \in Seq(Octets)
    PROVE  AreJoined(x, y, z)
BY SMTT(60) DEF AreJoined

PartIs(b, i, j, x) ==
    /\ x \in Seq(Octets) /\ Len(x) = j - i + 1
    /\ \A k \in 1 .. j - i + 1 : x[k] = b[i + k - 1]

LEMMA Parts ==
    ASSUME NEW b \in Seq(Octets), NEW i \in Nat, NEW j \in Nat, i >= 1, i <= j + 1, j <= Len(b)
    PROVE  PartIs(b, i, j, SubSeq(b, i, j))
<1>1. \A k \in i .. j : b[k] \in Octets
  OBVIOUS
<1>2. i \in Int /\ j \in Int
  OBVIOUS
<1>3. /\ SubSeq(b, i, j) \in Seq(Octets) /\ Len(SubSeq(b, i, j)) = j - i + 1
      /\ \A k \in 1 .. j - i + 1 : SubSeq(b, i, j)[k] = b[i + k - 1]
  BY <1>1, <1>2, SubSeqProperties
<1> QED  BY <1>3 DEF PartIs

LEMMA WordIsRead ==
    ASSUME WordBits \in Nat \ {0}, NEW w \in Nat, w < TwoTo[WordBits],
           NEW p \in Seq(Octets), NEW s \in Seq(Octets)
    PROVE  ReadVarint((p \o Varint[w]) \o s, Len(p) + 1)
               = [ok |-> TRUE, next |-> Len(p \o Varint[w]) + 1, word |-> w]
<1>1. PICK v : v = Varint[w]
  OBVIOUS
<1>2. PICK b : b = (p \o v) \o s
  OBVIOUS
<1>3. v \in Seq(Octets) /\ Len(v) = VarintLen(w)
  BY <1>1, VarintFits DEF VarintShape
<1>4. /\ b \in Seq(Octets) /\ Len(b) = Len(p) + Len(v) + Len(s)
      /\ \A k \in 1 .. Len(v) : b[Len(p) + k] = v[k]
  <2>1. IsWritten(b, p, v, s)
    BY <1>2, <1>3, Written
  <2> QED  BY <2>1 DEF IsWritten
<1>5. Len(p) \in Nat /\ Len(v) \in Nat /\ Len(s) \in Nat /\ Len(p \o v) = Len(p) + Len(v)
  BY <1>3, SMTT(40)
<1>6. Holds(b, Len(p) + 1, v)
  <2>1. \A k \in 1 .. Len(v) : ((Len(p) + 1) + k) - 1 = Len(p) + k
    BY <1>5
  <2> QED  BY <1>4, <2>1 DEF Holds
<1>7. Len(p) + 1 \in Nat \ {0} /\ ((Len(p) + 1) + Len(v)) - 1 <= Len(b)
  BY <1>4, <1>5
<1>8. ReadVarint(b, Len(p) + 1) = [ok |-> TRUE, next |-> (Len(p) + 1) + VarintLen(w), word |-> w]
  BY <1>1, <1>4, <1>6, <1>7, VarintIsRead
<1>9. (Len(p) + 1) + VarintLen(w) = Len(p \o v) + 1
  BY <1>3, <1>5
<1> QED  BY <1>1, <1>2, <1>8, <1>9

\* The values of the integer fields.
InBits(kind, v) ==
    /\ v \in Int
    /\ kind = "int32" => -TwoTo[HalfBits - 1] <= v /\ v < TwoTo[HalfBits - 1]
    /\ kind = "uint32" => 0 <= v /\ v < TwoTo[HalfBits]
    /\ kind = "int64" => -TwoTo[WordBits - 1] <= v /\ v < TwoTo[WordBits - 1]
    /\ kind = "uint64" => 0 <= v /\ v < TwoTo[WordBits]

LEMMA RangeIs ==
    ASSUME WordBits \in Nat \ {0}, HalfBits \in Nat \ {0},
           NEW kind \in Integral, NEW v \in FieldRange(kind)
    PROVE  InBits(kind, v)
<1>1. /\ TwoTo[HalfBits] \in Nat /\ TwoTo[HalfBits - 1] \in Nat
      /\ TwoTo[WordBits] \in Nat /\ TwoTo[WordBits - 1] \in Nat
  <2>1. HalfBits - 1 \in Nat /\ WordBits - 1 \in Nat
    OBVIOUS
  <2> QED  BY <2>1, TwoToType
<1>2. CASE kind = "int32"
  <2>1. v \in -TwoTo[HalfBits - 1] .. TwoTo[HalfBits - 1] - 1
    BY <1>2, Zenon DEF FieldRange
  <2> QED  BY <1>1, <1>2, <2>1 DEF InBits
<1>3. CASE kind = "uint32"
  <2>1. v \in 0 .. TwoTo[HalfBits] - 1
    BY <1>3 DEF FieldRange
  <2> QED  BY <1>1, <1>3, <2>1 DEF InBits
<1>4. CASE kind = "int64"
  <2>1. v \in -TwoTo[WordBits - 1] .. TwoTo[WordBits - 1] - 1
    BY <1>4 DEF FieldRange
  <2> QED  BY <1>1, <1>4, <2>1 DEF InBits
<1>5. CASE kind = "uint64"
  <2>1. v \in 0 .. TwoTo[WordBits] - 1
    BY <1>5 DEF FieldRange
  <2> QED  BY <1>1, <1>5, <2>1 DEF InBits
<1> QED  BY <1>2, <1>3, <1>4, <1>5 DEF Integral

LEMMA SmallRemainder ==
    ASSUME NEW a \in Nat, NEW v \in Int, 0 <= v, v < a
    PROVE  v % a = v
OBVIOUS

NumberAt(r, kind, v, next) == r.ok = TRUE /\ r.next = next /\ FromWord(kind, r.word) = v
BytesAt(b, r, v, next) == r.ok = TRUE /\ r.next = next /\ SubSeq(b, r.from, r.next - 1) = v

\* An integer of any kind that is written, wherever in a buffer, is read as it
\* was, and reading goes on behind it: negative numbers and enums are extended to
\* the whole word by Marshal and cut to their width by Unmarshal.
THEOREM NumberIsRead ==
    ASSUME WordBits \in Nat, HalfBits \in Nat \ {0}, HalfBits <= WordBits,
           NEW kind \in Integral, NEW v \in FieldRange(kind),
           NEW p \in Seq(Octets), NEW s \in Seq(Octets)
    PROVE  NumberAt(ReadVarint((p \o Varint[Word(v)]) \o s, Len(p) + 1), kind, v,
                    Len(p \o Varint[Word(v)]) + 1)
<1>r. PICK r : r = ReadVarint((p \o Varint[Word(v)]) \o s, Len(p) + 1)
  OBVIOUS
<1> SUFFICES NumberAt(r, kind, v, Len(p \o Varint[Word(v)]) + 1)
  BY <1>r
<1> USE DEF NumberAt
<1>1. WordBits \in Nat \ {0} /\ InBits(kind, v)
  <2>1. WordBits \in Nat \ {0}
    OBVIOUS
  <2> QED  BY <2>1, RangeIs
<1>2. WordBits \in Nat \ {0} /\ v \in Int
  BY <1>1 DEF InBits
<1>3. PICK w : w = Word(v)
  OBVIOUS
<1>4. w \in Nat /\ w < TwoTo[WordBits] /\ w = v % TwoTo[WordBits]
  BY <1>2, <1>3, WordIs DEF Word
<1>5. r = [ok |-> TRUE, next |-> Len(p \o Varint[w]) + 1, word |-> w]
  BY <1>r, <1>2, <1>3, <1>4, WordIsRead
<1>6. w % TwoTo[HalfBits] = v % TwoTo[HalfBits]
  BY <1>2, <1>4, LowBits
<1>7. TwoTo[HalfBits] \in Nat /\ TwoTo[WordBits] \in Nat
  BY TwoToType
<1>8. CASE kind = "int32"
  <2>1. -TwoTo[HalfBits - 1] <= v /\ v < TwoTo[HalfBits - 1]
    BY <1>1, <1>8 DEF InBits
  <2>2. Signed(v % TwoTo[HalfBits], HalfBits) = v
    BY <1>2, <2>1, SignedIs
  <2>3. FromWord(kind, w) = Signed(w % TwoTo[HalfBits], HalfBits)
    BY <1>8 DEF FromWord
  <2> QED  BY <1>3, <1>5, <1>6, <2>2, <2>3
<1>9. CASE kind = "uint32"
  <2>1. 0 <= v /\ v < TwoTo[HalfBits]
    BY <1>1, <1>9 DEF InBits
  <2>2. FromWord(kind, w) = w % TwoTo[HalfBits]
    BY <1>9 DEF FromWord
  <2>3. v % TwoTo[HalfBits] = v
    BY <1>2, <1>7, <2>1, SmallRemainder
  <2> QED  BY <1>3, <1>5, <1>6, <2>2, <2>3
<1>10. CASE kind = "int64"
  <2>1. -TwoTo[WordBits - 1] <= v /\ v < TwoTo[WordBits - 1]
    BY <1>1, <1>10 DEF InBits
  <2>2. Signed(v % TwoTo[WordBits], WordBits) = v
    BY <1>2, <2>1, SignedIs
  <2>3. FromWord(kind, w) = Signed(w, WordBits)
    BY <1>10 DEF FromWord
  <2> QED  BY <1>3, <1>4, <1>5, <2>2, <2>3
<1>11. CASE kind = "uint64"
  <2>1. 0 <= v /\ v < TwoTo[WordBits]
    BY <1>1, <1>11 DEF InBits
  <2>2. FromWord(kind, w) = w
    BY <1>11 DEF FromWord
  <2>3. v % TwoTo[WordBits] = v
    BY <1>2, <1>7, <2>1, SmallRemainder
  <2> QED  BY <1>3, <1>4, <1>5, <2>2, <2>3
<1> QED  BY <1>8, <1>9, <1>10, <1>11 DEF Integral

\* Bytes that are written with their length, wherever in a buffer, are read as
\* they were, and reading goes on behind them.  No slice is longer than an int.
THEOREM BytesAreRead ==
    ASSUME WordBits \in Nat \ {0}, NEW v \in Seq(Octets), Len(v) < TwoTo[WordBits - 1],
           NEW p \in Seq(Octets), NEW s \in Seq(Octets)
    PROVE  BytesAt((p \o Prefixed(v)) \o s, ReadLength((p \o Prefixed(v)) \o s, Len(p) + 1), v,
                   Len(p \o Prefixed(v)) + 1)
<1>b. PICK b : b = (p \o Prefixed(v)) \o s
  OBVIOUS
<1>r. PICK r : r = ReadLength(b, Len(p) + 1)
  OBVIOUS
<1> SUFFICES BytesAt(b, r, v, Len(p \o Prefixed(v)) + 1)
  BY <1>b, <1>r
<1>1. PICK n : n = Len(v)
  OBVIOUS
<1>2. PICK u : u = Varint[n]
  OBVIOUS
<1>3. n \in Nat /\ u \in Seq(Octets) /\ Len(u) \in Nat /\ Len(p) \in Nat /\ Len(s) \in Nat
  <2>1. n \in Nat /\ Len(p) \in Nat /\ Len(s) \in Nat
    BY <1>1
  <2>2. u \in Seq(Octets)
    BY <1>2, <2>1, VarintFits DEF VarintShape
  <2> QED  BY <2>1, <2>2
<1>4. n < TwoTo[WordBits - 1] /\ TwoTo[WordBits] = 2 * TwoTo[WordBits - 1] /\ TwoTo[WordBits - 1] \in Nat
  <2>1. WordBits - 1 \in Nat /\ WordBits \in Nat /\ WordBits # 0
    OBVIOUS
  <2> QED  BY <1>1, <2>1, TwoToType
<1>5. n < TwoTo[WordBits]
  BY <1>3, <1>4, SMTT(60)
<1>6. b = (p \o u) \o (v \o s) /\ v \o s \in Seq(Octets)
  <2>1. Prefixed(v) = u \o v
    BY <1>1, <1>2 DEF Prefixed
  <2>2. AreJoined(p, u, v)
    BY <1>3, Joining
  <2>3. p \o u \in Seq(Octets)
    BY <2>2 DEF AreJoined
  <2>4. AreJoined(p \o u, v, s)
    BY <2>3, Joining
  <2> QED  BY <1>b, <2>1, <2>2, <2>4, Zenon DEF AreJoined
<1>7. PICK i : i = Len(p \o u) + 1
  OBVIOUS
<1>8. ReadVarint(b, Len(p) + 1) = [ok |-> TRUE, next |-> i, word |-> n]
  BY <1>2, <1>3, <1>5, <1>6, <1>7, WordIsRead, ZenonT(40)
<1>9. /\ p \o u \in Seq(Octets) /\ b = ((p \o u) \o v) \o s /\ Len(p \o u) \in Nat
      /\ i = Len(p \o u) + 1 /\ Len(p \o Prefixed(v)) = Len(p \o u) + n
  <2>1. Prefixed(v) = u \o v
    BY <1>1, <1>2 DEF Prefixed
  <2>2. AreJoined(p, u, v)
    BY <1>3, Joining
  <2>3. b = ((p \o u) \o v) \o s /\ p \o Prefixed(v) = (p \o u) \o v
    BY <1>b, <2>1, <2>2, Zenon DEF AreJoined
  <2> QED  BY <1>1, <1>7, <2>2, <2>3, Zenon DEF AreJoined
<1>10. /\ b \in Seq(Octets) /\ Len(b) = Len(p \o u) + n + Len(s)
       /\ \A k \in 1 .. n : b[Len(p \o u) + k] = v[k]
  <2>1. IsWritten(b, p \o u, v, s)
    BY <1>9, Written
  <2> QED  BY <1>1, <2>1 DEF IsWritten
<1>11. Signed(n, WordBits) = n
  BY <1>4 DEF Signed
<1>12. i \in Nat /\ i >= 1 /\ i + n <= Len(b) + 1
  BY <1>3, <1>9, <1>10, SMTT(60)
<1>13. r = [ok |-> TRUE, from |-> i, next |-> i + n]
  <2>1. ~(Signed(n, WordBits) < 0) /\ ~(i + n > Len(b) + 1)
    BY <1>3, <1>11, <1>12
  <2>2. PICK x : x = ReadVarint(b, Len(p) + 1)
    OBVIOUS
  <2>3. x.ok = TRUE /\ x.next = i /\ x.word = n
    BY <1>8, <2>2
  <2>4. ReadLength(b, Len(p) + 1) =
            IF ~x.ok \/ Signed(x.word, WordBits) < 0 \/ x.next + x.word > Len(b) + 1
            THEN Fail ELSE [ok |-> TRUE, from |-> x.next, next |-> x.next + x.word]
    BY <2>2 DEF ReadLength
  <2> QED  BY <1>r, <2>1, <2>3, <2>4, Zenon
<1>14. SubSeq(b, i, (i + n) - 1) = v
  <2>1. /\ i \in 1 .. Len(b) + 1 /\ (i + n) - 1 \in i - 1 .. Len(b)
        /\ ((i + n) - 1) - i + 1 = n
    <3>1. i \in Nat /\ n \in Nat /\ Len(b) \in Nat /\ i >= 1 /\ i + n <= Len(b) + 1
      BY <1>3, <1>10, <1>12
    <3> QED  BY <3>1
  <2>2. /\ SubSeq(b, i, (i + n) - 1) \in Seq(Octets) /\ Len(SubSeq(b, i, (i + n) - 1)) = n
        /\ \A k \in 1 .. n : SubSeq(b, i, (i + n) - 1)[k] = b[i + k - 1]
    <3> DEFINE j == (i + n) - 1
    <3>1. i \in 1 .. Len(b) + 1 /\ j \in i - 1 .. Len(b) /\ j - i + 1 = n
      BY <2>1
    <3> HIDE DEF j
    <3>2. /\ SubSeq(b, i, j) \in Seq(Octets) /\ Len(SubSeq(b, i, j)) = j - i + 1
          /\ \A k \in 1 .. j - i + 1 : SubSeq(b, i, j)[k] = b[i + k - 1]
      <4>1. b \in Seq(Octets) /\ i \in Nat /\ j \in Nat /\ i >= 1 /\ i <= j + 1 /\ j <= Len(b)
        BY <1>3, <1>10, <1>12, <3>1
      <4>2. PartIs(b, i, j, SubSeq(b, i, j))
        BY <4>1, Parts
      <4> QED  BY <4>2, Zenon DEF PartIs
    <3> QED  BY <3>1, <3>2, Zenon DEF j
  <2>3. \A k \in 1 .. n : i + k - 1 = Len(p \o u) + k
    BY <1>9
  <2>4. \A k \in 1 .. n : SubSeq(b, i, (i + n) - 1)[k] = v[k]
    BY <1>10, <2>2, <2>3
  <2>5. PICK x : x = SubSeq(b, i, (i + n) - 1)
    OBVIOUS
  <2>6. x \in Seq(Octets) /\ Len(x) = Len(v) /\ \A k \in 1 .. Len(v) : x[k] = v[k]
    BY <1>1, <2>2, <2>4, <2>5, Zenon
  <2>7. x = v
    BY <2>6
  <2> QED  BY <2>5, <2>7
<1>15. i + n = Len(p \o Prefixed(v)) + 1
  BY <1>3, <1>9
<1>16. r.ok = TRUE /\ r.from = i /\ r.next = i + n
  BY <1>13
<1> QED  BY <1>14, <1>15, <1>16, Zenon DEF BytesAt

-----------------------------------------------------------------------------
(* The rows of the messages.                                               *)

Scalars == Integral \cup FixedKinds \cup {"bool", "bytes"}

\* A case of Unmarshal is for what a row of Marshal writes: the tag is the number
\* and the wire type, and fits a byte with its highest bit clear.
RowReads(row, u) ==
    /\ u.name = row.name /\ u.number \in 1 .. 15 /\ row.tag = 8 * u.number + WireType(u.kind)
    /\ u.kind \in Scalars \/ Embeds(u)
    /\ row.kind = IF u.kind \in Integral THEN "varint" ELSE u.kind
    /\ u.repeated \in BOOLEAN /\ (u.repeated => Embeds(u))

\* Size counts the fields that Marshal writes, in the same order.
RowsCount(marshal, size) ==
    /\ \E n \in Nat : DOMAIN marshal = 1 .. n
    /\ DOMAIN size = DOMAIN marshal
    /\ \A k \in DOMAIN marshal :
           size[k].kind = marshal[k].kind /\ size[k].name = marshal[k].name

\* Unmarshal has a case for every row, and a row is for every case.
RowsRead(marshal, unmarshal) ==
    /\ \A k \in DOMAIN marshal : \E u \in unmarshal : RowReads(marshal[k], u)
    /\ \A u \in unmarshal : \E k \in DOMAIN marshal : RowReads(marshal[k], u)
    /\ \A j, k \in DOMAIN marshal : marshal[j].name = marshal[k].name => j = k
    /\ \A u, w \in unmarshal : u.name = w.name \/ u.number = w.number => u = w

\* Equal compares every field, by the Equal of its type if it embeds messages.
RowsCompare(equal, unmarshal) ==
    /\ \A u \in unmarshal : \E e \in equal :
           e.name = u.name /\ e.kind = IF Embeds(u) THEN u.kind ELSE "value"
    /\ \A e \in equal : \E u \in unmarshal :
           e.name = u.name /\ e.kind = IF Embeds(u) THEN u.kind ELSE "value"

RowsAgree(marshal, size, unmarshal, equal) ==
    /\ RowsCount(marshal, size) /\ RowsRead(marshal, unmarshal)
    /\ RowsCompare(equal, unmarshal)

LEMMA TypesAre == Types = {"CryptOpArgs", "CryptOpOut", "KeyInfo", "KeyRef",
                     "KeyEntry", "Keyring", "KeyTome", "SigHeader",
                     "KeyTomeCrypt", "Err", "LoginInfo", "LoginCreateResponse",
                     "CategoryInfo", "StationInfo", "MediaTrackInfo",
                     "MediaProviderInfo"}
BY Zenon DEF Types, Unmarshals

LEMMA WireTypeIs ==
    ASSUME NEW kind
    PROVE  /\ kind \in Integral \cup {"bool"} => WireType(kind) = 0
           /\ kind = "fixed64" => WireType(kind) = 1
           /\ kind = "fixed32" => WireType(kind) = 5
           /\ kind \notin Integral \cup {"bool", "fixed64", "fixed32"} => WireType(kind) = 2
BY Zenon DEF WireType, Integral

\* The tables of the generated messages agree: of each of the sixteen types, Size
\* counts just the fields that MarshalToSizedBuffer writes, Unmarshal has a case for
\* each of them and no other, no name or number is taken twice, each tag is a byte,
\* and Equal compares all fields.
THEOREM TablesOfMessages ==
    \A t \in Types : RowsAgree(Marshals[t], Sizes[t], Unmarshals[t], Equals[t])
<1>1. RowsAgree(CryptOpArgsMarshal, CryptOpArgsSize, CryptOpArgsUnmarshal, CryptOpArgsEqual)
  <2>1. RowsCount(CryptOpArgsMarshal, CryptOpArgsSize)
    BY DEF RowsCount, Put, Count, CryptOpArgsMarshal, CryptOpArgsSize
  <2>2. RowsRead(CryptOpArgsMarshal, CryptOpArgsUnmarshal)
    BY TypesAre, WireTypeIs DEF RowsRead, RowReads, Scalars, Embeds, Integral, FixedKinds,
       Put, Read, Collect, CryptOpArgsMarshal, CryptOpArgsUnmarshal
  <2>3. RowsCompare(CryptOpArgsEqual, CryptOpArgsUnmarshal)
    BY TypesAre DEF RowsCompare, Embeds, Same, SameMsg, Read, Collect, CryptOpArgsEqual, CryptOpArgsUnmarshal
  <2> QED  BY <2>1, <2>2, <2>3 DEF RowsAgree
<1>2. RowsAgree(CryptOpOutMarshal, CryptOpOutSize, CryptOpOutUnmarshal, CryptOpOutEqual)
  <2>1. RowsCount(CryptOpOutMarshal, CryptOpOutSize)
    BY DEF RowsCount, Put, Count, CryptOpOutMarshal, CryptOpOutSize
  <2>2. RowsRead(CryptOpOutMarshal, CryptOpOutUnmarshal)
    BY TypesAre, WireTypeIs DEF RowsRead, RowReads, Scalars, Embeds, Integral, FixedKinds,
       Put, Read, Collect, CryptOpOutMarshal, CryptOpOutUnmarshal
  <2>3. RowsCompare(CryptOpOutEqual, CryptOpOutUnmarshal)
    BY TypesAre DEF RowsCompare, Embeds, Same, SameMsg, Read, Collect, CryptOpOutEqual, CryptOpOutUnmarshal
  <2> QED  BY <2>1, <2>2, <2>3 DEF RowsAgree
<1>3. RowsAgree(KeyInfoMarshal, KeyInfoSize, KeyInfoUnmarshal, KeyInfoEqual)
  <2>1. RowsCount(KeyInfoMarshal, KeyInfoSize)
    BY DEF RowsCount, Put, Count, KeyInfoMarshal, KeyInfoSize
  <2>2. RowsRead(KeyInfoMarshal, KeyInfoUnmarshal)
    BY TypesAre, WireTypeIs DEF RowsRead, RowReads, Scalars, Embeds, Integral, FixedKinds,
       Put, Read, Collect, KeyInfoMarshal, KeyInfoUnmarshal
  <2>3. RowsCompare(KeyInfoEqual, KeyInfoUnmarshal)
    BY TypesAre DEF RowsCompare, Embeds, Same, SameMsg, Read, Collect, KeyInfoEqual, KeyInfoUnmarshal
  <2> QED  BY <2>1, <2>2, <2>3 DEF RowsAgree
<1>4. RowsAgree(KeyRefMarshal, KeyRefSize, KeyRefUnmarshal, KeyRefEqual)
  <2>1. RowsCount(KeyRefMarshal, KeyRefSize)
    BY DEF RowsCount, Put, Count, KeyRefMarshal, KeyRefSize
  <2>2. RowsRead(KeyRefMarshal, KeyRefUnmarshal)
    BY TypesAre, WireTypeIs DEF RowsRead, RowReads, Scalars, Embeds, Integral, FixedKinds,
       Put, Read, Collect, KeyRefMarshal, KeyRefUnmarshal
  <2>3. RowsCompare(KeyRefEqual, KeyRefUnmarshal)
    BY TypesAre DEF RowsCompare, Embeds, Same, SameMsg, Read, Collect, KeyRefEqual, KeyRefUnmarshal
  <2> QED  BY <2>1, <2>2, <2>3 DEF RowsAgree
<1>5. RowsAgree(KeyEntryMarshal, KeyEntrySize, KeyEntryUnmarshal, KeyEntryEqual)
  <2>1. RowsCount(KeyEntryMarshal, KeyEntrySize)
    BY DEF RowsCount, Put, Count, KeyEntryMarshal, KeyEntrySize
  <2>2. RowsRead(KeyEntryMarshal, KeyEntryUnmarshal)
    BY TypesAre, WireTypeIs DEF RowsRead, RowReads, Scalars, Embeds, Integral, FixedKinds,
       Put, Read, Collect, KeyEntryMarshal, KeyEntryUnmarshal
  <2>3. RowsCompare(KeyEntryEqual, KeyEntryUnmarshal)
    BY TypesAre DEF RowsCompare, Embeds, Same, SameMsg, Read, Collect, KeyEntryEqual, KeyEntryUnmarshal
  <2> QED  BY <2>1, <2>2, <2>3 DEF RowsAgree
<1>6. RowsAgree(KeyringMarshal, KeyringSize, KeyringUnmarshal, KeyringEqual)
  <2>1. RowsCount(KeyringMarshal, KeyringSize)
    BY DEF RowsCount, Put, Count, KeyringMarshal, KeyringSize
  <2>2. RowsRead(KeyringMarshal, KeyringUnmarshal)
    BY TypesAre, WireTypeIs DEF RowsRead, RowReads, Scalars, Embeds, Integral, FixedKinds,
       Put, Read, Collect, KeyringMarshal, KeyringUnmarshal
  <2>3. RowsCompare(KeyringEqual, KeyringUnmarshal)
    BY TypesAre DEF RowsCompare, Embeds, Same, SameMsg, Read, Collect, KeyringEqual, KeyringUnmarshal
  <2> QED  BY <2>1, <2>2, <2>3 DEF RowsAgree
<1>7. RowsAgree(KeyTomeMarshal, KeyTomeSize, KeyTomeUnmarshal, KeyTomeEqual)
  <2>1. RowsCount(KeyTomeMarshal, KeyTomeSize)
    BY DEF RowsCount, Put, Count, KeyTomeMarshal, KeyTomeSize
  <2>2. RowsRead(KeyTomeMarshal, KeyTomeUnmarshal)
    BY TypesAre, WireTypeIs DEF RowsRead, RowReads, Scalars, Embeds, Integral, FixedKinds,
       Put, Read, Collect, KeyTomeMarshal, KeyTomeUnmarshal
  <2>3. RowsCompare(KeyTomeEqual, KeyTomeUnmarshal)
    BY TypesAre DEF RowsCompare, Embeds, Same, SameMsg, Read, Collect, KeyTomeEqual, KeyTomeUnmarshal
  <2> QED  BY <2>1, <2>2, <2>3 DEF RowsAgree
<1>8. RowsAgree(SigHeaderMarshal, SigHeaderSize, SigHeaderUnmarshal, SigHeaderEqual)
  <2>1. RowsCount(SigHeaderMarshal, SigHeaderSize)
    BY DEF RowsCount, Put, Count, SigHeaderMarshal, SigHeaderSize
  <2>2. RowsRead(SigHeaderMarshal, SigHeaderUnmarshal)
    BY TypesAre, WireTypeIs DEF RowsRead, RowReads, Scalars, Embeds, Integral, FixedKinds,
       Put, Read, Collect, SigHeaderMarshal, SigHeaderUnmarshal
  <2>3. RowsCompare(SigHeaderEqual, SigHeaderUnmarshal)
    BY TypesAre DEF RowsCompare, Embeds, Same, SameMsg, Read, Collect, SigHeaderEqual, SigHeaderUnmarshal
  <2> QED  BY <2>1, <2>2, <2>3 DEF RowsAgree
<1>9. RowsAgree(KeyTomeCryptMarshal, KeyTomeCryptSize, KeyTomeCryptUnmarshal, KeyTomeCryptEqual)
  <2>1. RowsCount(KeyTomeCryptMarshal, KeyTomeCryptSize)
    BY DEF RowsCount, Put, Count, KeyTomeCryptMarshal, KeyTomeCryptSize
  <2>2. RowsRead(KeyTomeCryptMarshal, KeyTomeCryptUnmarshal)
    BY TypesAre, WireTypeIs DEF RowsRead, RowReads, Scalars, Embeds, Integral, FixedKinds,
       Put, Read, Collect, KeyTomeCryptMarshal, KeyTomeCryptUnmarshal
  <2>3. RowsCompare(KeyTomeCryptEqual, KeyTomeCryptUnmarshal)
    BY TypesAre DEF RowsCompare, Embeds, Same, SameMsg, Read, Collect, KeyTomeCryptEqual, KeyTomeCryptUnmarshal
  <2> QED  BY <2>1, <2>2, <2>3 DEF RowsAgree
<1>10. RowsAgree(ErrMarshal, ErrSize, ErrUnmarshal, ErrEqual)
  <2>1. RowsCount(ErrMarshal, ErrSize)
    BY DEF RowsCount, Put, Count, ErrMarshal, ErrSize
  <2>2. RowsRead(ErrMarshal, ErrUnmarshal)
    BY TypesAre, WireTypeIs DEF RowsRead, RowReads, Scalars, Embeds, Integral, FixedKinds,
       Put, Read, Collect, ErrMarshal, ErrUnmarshal
  <2>3. RowsCompare(ErrEqual, ErrUnmarshal)
    BY TypesAre DEF RowsCompare, Embeds, Same, SameMsg, Read, Collect, ErrEqual, ErrUnmarshal
  <2> QED  BY <2>1, <2>2, <2>3 DEF RowsAgree
<1>11. RowsAgree(LoginInfoMarshal, LoginInfoSize, LoginInfoUnmarshal, LoginInfoEqual)
  <2>1. RowsCount(LoginInfoMarshal, LoginInfoSize)
    BY DEF RowsCount, Put, Count, LoginInfoMarshal, LoginInfoSize
  <2>2. RowsRead(LoginInfoMarshal, LoginInfoUnmarshal)
    BY TypesAre, WireTypeIs DEF RowsRead, RowReads, Scalars, Embeds, Integral, FixedKinds,
       Put, Read, Collect, LoginInfoMarshal, LoginInfoUnmarshal
  <2>3. RowsCompare(LoginInfoEqual, LoginInfoUnmarshal)
    BY TypesAre DEF RowsCompare, Embeds, Same, SameMsg, Read, Collect, LoginInfoEqual, LoginInfoUnmarshal
  <2> QED  BY <2>1, <2>2, <2>3 DEF RowsAgree
<1>12. RowsAgree(LoginCreateResponseMarshal, LoginCreateResponseSize, LoginCreateResponseUnmarshal, LoginCreateResponseEqual)
  <2>1. RowsCount(LoginCreateResponseMarshal, LoginCreateResponseSize)
    BY DEF RowsCount, Put, Count, LoginCreateResponseMarshal, LoginCreateResponseSize
  <2>2. RowsRead(LoginCreateResponseMarshal, LoginCreateResponseUnmarshal)
    BY TypesAre, WireTypeIs DEF RowsRead, RowReads, Scalars, Embeds, Integral, FixedKinds,
       Put, Read, Collect, LoginCreateResponseMarshal, LoginCreateResponseUnmarshal
  <2>3. RowsCompare(LoginCreateResponseEqual, LoginCreateResponseUnmarshal)
    BY TypesAre DEF RowsCompare, Embeds, Same, SameMsg, Read, Collect, LoginCreateResponseEqual, LoginCreateResponseUnmarshal
  <2> QED  BY <2>1, <2>2, <2>3 DEF RowsAgree
<1>13. RowsAgree(CategoryInfoMarshal, CategoryInfoSize, CategoryInfoUnmarshal, CategoryInfoEqual)
  <2>1. RowsCount(CategoryInfoMarshal, CategoryInfoSize)
    BY DEF RowsCount, Put, Count, CategoryInfoMarshal, CategoryInfoSize
  <2>2. RowsRead(CategoryInfoMarshal, CategoryInfoUnmarshal)
    BY TypesAre, WireTypeIs DEF RowsRead, RowReads, Scalars, Embeds, Integral, FixedKinds,
       Put, Read, Collect, CategoryInfoMarshal, CategoryInfoUnmarshal
  <2>3. RowsCompare(CategoryInfoEqual, CategoryInfoUnmarshal)
    BY TypesAre DEF RowsCompare, Embeds, Same, SameMsg, Read, Collect, CategoryInfoEqual, CategoryInfoUnmarshal
  <2> QED  BY <2>1, <2>2, <2>3 DEF RowsAgree
<1>14. RowsAgree(StationInfoMarshal, StationInfoSize, StationInfoUnmarshal, StationInfoEqual)
  <2>1. RowsCount(StationInfoMarshal, StationInfoSize)
    BY DEF RowsCount, Put, Count, StationInfoMarshal, StationInfoSize
  <2>2. RowsRead(StationInfoMarshal, StationInfoUnmarshal)
    BY TypesAre, WireTypeIs DEF RowsRead, RowReads, Scalars, Embeds, Integral, FixedKinds,
       Put, Read, Collect, StationInfoMarshal, StationInfoUnmarshal
  <2>3. RowsCompare(StationInfoEqual, StationInfoUnmarshal)
    BY TypesAre DEF RowsCompare, Embeds, Same, SameMsg, Read, Collect, StationInfoEqual, StationInfoUnmarshal
  <2> QED  BY <2>1, <2>2, <2>3 DEF RowsAgree
<1>15. RowsAgree(MediaTrackInfoMarshal, MediaTrackInfoSize, MediaTrackInfoUnmarshal, MediaTrackInfoEqual)
  <2>1. RowsCount(MediaTrackInfoMarshal, MediaTrackInfoSize)
    BY DEF RowsCount, Put, Count, MediaTrackInfoMarshal, MediaTrackInfoSize
  <2>2. RowsRead(MediaTrackInfoMarshal, MediaTrackInfoUnmarshal)
    BY TypesAre, WireTypeIs DEF RowsRead, RowReads, Scalars, Embeds, Integral, FixedKinds,
       Put, Read, Collect, MediaTrackInfoMarshal, MediaTrackInfoUnmarshal
  <2>3. RowsCompare(MediaTrackInfoEqual, MediaTrackInfoUnmarshal)
    BY TypesAre DEF RowsCompare, Embeds, Same, SameMsg, Read, Collect, MediaTrackInfoEqual, MediaTrackInfoUnmarshal
  <2> QED  BY <2>1, <2>2, <2>3 DEF RowsAgree
<1>16. RowsAgree(MediaProviderInfoMarshal, MediaProviderInfoSize, MediaProviderInfoUnmarshal, MediaProviderInfoEqual)
  <2>1. RowsCount(MediaProviderInfoMarshal, MediaProviderInfoSize)
    BY DEF RowsCount, Put, Count, MediaProviderInfoMarshal, MediaProviderInfoSize
  <2>2. RowsRead(MediaProviderInfoMarshal, MediaProviderInfoUnmarshal)
    BY TypesAre, WireTypeIs DEF RowsRead, RowReads, Scalars, Embeds, Integral, FixedKinds,
       Put, Read, Collect, MediaProviderInfoMarshal, MediaProviderInfoUnmarshal
  <2>3. RowsCompare(MediaProviderInfoEqual, MediaProviderInfoUnmarshal)
    BY TypesAre DEF RowsCompare, Embeds, Same, SameMsg, Read, Collect, MediaProviderInfoEqual, MediaProviderInfoUnmarshal
  <2> QED  BY <2>1, <2>2, <2>3 DEF RowsAgree
<1> QED
  BY <1>1, <1>2, <1>3, <1>4, <1>5, <1>6, <1>7, <1>8, <1>9, <1>10, <1>11, <1>12, <1>13, <1>14, <1>15, <1>16, TypesAre
     DEF Marshals, Sizes, Unmarshals, Equals

\* The row of Unmarshal for a row of Marshal.
LEMMA RowFound ==
    ASSUME NEW t \in Types, NEW k \in DOMAIN Marshals[t]
    PROVE  /\ RowOf(t, Marshals[t][k].name) \in Unmarshals[t]
           /\ RowReads(Marshals[t][k], RowOf(t, Marshals[t][k].name))
<1>1. RowsRead(Marshals[t], Unmarshals[t])
  BY TablesOfMessages DEF RowsAgree
<1>2. PICK u \in Unmarshals[t] : RowReads(Marshals[t][k], u)
  BY <1>1 DEF RowsRead
<1>3. u.name = Marshals[t][k].name
  BY <1>2 DEF RowReads
<1>4. \A w \in Unmarshals[t] : w.name = u.name => w = u
  BY <1>1 DEF RowsRead
<1>5. RowOf(t, Marshals[t][k].name) = u
  BY <1>3, <1>4 DEF RowOf
<1> QED  BY <1>2, <1>5

LEMMA NamedRow ==
    ASSUME NEW t \in Types, NEW u \in Unmarshals[t]
    PROVE  RowOf(t, u.name) = u
<1>1. \A w \in Unmarshals[t] : w.name = u.name => w = u
  BY TablesOfMessages DEF RowsAgree, RowsRead
<1> QED  BY <1>1 DEF RowOf

LEMMA RowWritten ==
    ASSUME NEW t \in Types, NEW u \in Unmarshals[t]
    PROVE  \E k \in DOMAIN Marshals[t] : RowReads(Marshals[t][k], u)
BY TablesOfMessages DEF RowsAgree, RowsRead

\* The kinds of fields.
KindOf(u) ==
    \/ u.kind \in Integral /\ ~Embeds(u)
    \/ u.kind = "bool" /\ ~Embeds(u)
    \/ u.kind = "bytes" /\ ~Embeds(u)
    \/ u.kind \in FixedKinds /\ ~Embeds(u)
    \/ Embeds(u) /\ u.kind \notin Scalars

LEMMA KindIs ==
    ASSUME NEW u, u.kind \in Scalars \/ Embeds(u)
    PROVE  KindOf(u)
BY TypesAre DEF KindOf, Scalars, Embeds, Integral, FixedKinds

\* The values of each kind.
ValueOf(u, v) ==
    /\ u.kind \in Integral => v \in FieldRange(u.kind)
    /\ u.kind = "bool" => v \in BOOLEAN
    /\ u.kind = "bytes" => v \in Seq(Octets) /\ FitsInt(Len(v))
    /\ u.kind \in FixedKinds => v \in [1 .. Fixed(u.kind) -> Octets] /\ IsFloat(u.kind, v)
    /\ u.kind \notin Scalars => IsList(v) /\ (Len(v) > 1 => u.repeated)

LEMMA ValueIs ==
    ASSUME NEW u, NEW v
    PROVE  IsValue(u, v) <=> ValueOf(u, v)
<1>1. CASE u.kind \in Integral
  <2>1. u.kind # "bool" /\ u.kind # "bytes" /\ u.kind \notin FixedKinds /\ u.kind \in Scalars
    BY <1>1 DEF Integral, FixedKinds, Scalars
  <2> QED  BY <1>1, <2>1, Zenon DEF IsValue, ValueOf
<1>2. CASE u.kind = "bool"
  <2>1. u.kind \notin Integral /\ u.kind # "bytes" /\ u.kind \notin FixedKinds /\ u.kind \in Scalars
    BY <1>2 DEF Integral, FixedKinds, Scalars
  <2> QED  BY <1>2, <2>1, Zenon DEF IsValue, ValueOf
<1>3. CASE u.kind = "bytes"
  <2>1. u.kind \notin Integral /\ u.kind # "bool" /\ u.kind \notin FixedKinds /\ u.kind \in Scalars
    BY <1>3 DEF Integral, FixedKinds, Scalars
  <2> QED  BY <1>3, <2>1, Zenon DEF IsValue, ValueOf
<1>4. CASE u.kind \in FixedKinds
  <2>1. u.kind \notin Integral /\ u.kind # "bool" /\ u.kind # "bytes" /\ u.kind \in Scalars
    BY <1>4 DEF Integral, FixedKinds, Scalars
  <2>2. IsFloat(u.kind, v) => v \in [1 .. Fixed(u.kind) -> Octets]
    BY Zenon DEF IsFloat
  <2> QED  BY <1>4, <2>1, <2>2, Zenon DEF IsValue, ValueOf
<1>5. CASE u.kind \notin Scalars
  <2>1. u.kind \notin Integral /\ u.kind # "bool" /\ u.kind # "bytes" /\ u.kind \notin FixedKinds
    BY <1>5 DEF Scalars
  <2> QED  BY <1>5, <2>1, Zenon DEF IsValue, ValueOf
<1> QED  BY <1>1, <1>2, <1>3, <1>4, <1>5 DEF Scalars

\* What is written and counted for the messages in a field.
PartsCounted(u, v, E, Z) == Embeds(u) => \A k \in 1 .. Len(v) : Counted(E[k], Z[k])

LEMMA RowCounted ==
    ASSUME WordBits \in Nat \ {0}, HalfBits \in Nat \ {0}, NEW row, NEW u, RowReads(row, u),
           NEW count, count.kind = row.kind,
           NEW v, NEW E, NEW Z, IsValue(u, v), PartsCounted(u, v, E, Z)
    PROVE  Counted(MarshalRow(row, v, E), SizeRow(count, v, Z))
<1>1. Counted(<<>>, 0) /\ row.tag \in Octets
  <2>1. WireType(u.kind) \in 0 .. 5 /\ u.number \in 1 .. 15 /\ row.tag = 8 * u.number + WireType(u.kind)
    BY WireTypeIs DEF RowReads
  <2>2. row.tag \in Octets
    BY <2>1 DEF Octets
  <2> QED  BY <2>2 DEF Counted
<1>k. KindOf(u) /\ row.kind = IF u.kind \in Integral THEN "varint" ELSE u.kind
  BY KindIs DEF RowReads
<1>v. ValueOf(u, v)
  BY ValueIs
<1>2. CASE u.kind \in Integral
  <2>1. v \in Int
    <3>1. u.kind \in Integral /\ v \in FieldRange(u.kind)
      BY <1>2, <1>v DEF ValueOf
    <3> QED  BY <3>1, RangeIs DEF InBits
  <2>k. row.kind = "varint"
    BY <1>2, <1>k
  <2>2. MarshalRow(row, v, E) = IF v = 0 THEN <<>> ELSE <<row.tag>> \o Varint[Word(v)]
    BY <2>k DEF MarshalRow
  <2>3. SizeRow(count, v, Z) = IF v = 0 THEN 0 ELSE 1 + VarintLen(Word(v))
    BY <2>k DEF SizeRow
  <2>4. Counted(<<row.tag>> \o Varint[Word(v)], 1 + VarintLen(Word(v)))
    BY <1>1, <2>1, WordIs, VarintCounted, TaggedCounted
  <2> QED  BY <1>1, <2>2, <2>3, <2>4
<1>3. CASE u.kind = "bool"
  <2>k. row.kind = "bool"
    BY <1>3, <1>k DEF Integral
  <2>1. v \in BOOLEAN
    BY <1>3, <1>v DEF ValueOf
  <2>2. MarshalRow(row, v, E) = IF v THEN <<row.tag, 1>> ELSE <<>>
    BY <2>k DEF MarshalRow
  <2>3. SizeRow(count, v, Z) = IF v THEN 2 ELSE 0
    BY <2>k DEF SizeRow
  <2>4. Counted(<<row.tag, 1>>, 2)
    <3>1. 1 \in Octets
      BY DEF Octets
    <3> QED  BY <1>1, <3>1 DEF Counted
  <2> QED  BY <1>1, <2>1, <2>2, <2>3, <2>4, Zenon
<1>4. CASE u.kind = "bytes"
  <2>k. row.kind = "bytes"
    BY <1>4, <1>k DEF Integral
  <2>1. v \in Seq(Octets) /\ Len(v) \in Nat
    BY <1>4, <1>v DEF ValueOf
  <2>2. MarshalRow(row, v, E) = IF v = <<>> THEN <<>> ELSE <<row.tag>> \o Prefixed(v)
    BY <2>k DEF MarshalRow
  <2>3. SizeRow(count, v, Z) = IF v = <<>> THEN 0 ELSE (1 + Len(v)) + VarintLen(Len(v))
    BY <2>k DEF SizeRow
  <2>4. Counted(v, Len(v)) /\ Counted(Varint[Len(v)], VarintLen(Len(v)))
    BY <2>1, VarintCounted DEF Counted
  <2>5. Counted(<<row.tag>> \o Prefixed(v), 1 + (VarintLen(Len(v)) + Len(v)))
    BY <1>1, <2>4, PrefixedCounted, TaggedCounted
  <2>6. 1 + (VarintLen(Len(v)) + Len(v)) = (1 + Len(v)) + VarintLen(Len(v))
    BY <2>1, <2>4 DEF Counted
  <2> QED  BY <1>1, <2>2, <2>3, <2>5, <2>6
<1>5. CASE u.kind \in FixedKinds
  <2>k. row.kind = u.kind /\ u.kind \in {"fixed32", "fixed64"}
    BY <1>5, <1>k DEF Integral, FixedKinds
  <2>1. v \in [1 .. Fixed(row.kind) -> Octets] /\ Fixed(row.kind) \in Nat
    BY <1>5, <1>v, <2>k DEF ValueOf, Fixed
  <2>2. MarshalRow(row, v, E) = IF v = ZeroBytes(row.kind) THEN <<>> ELSE <<row.tag>> \o v
    BY <2>k DEF MarshalRow
  <2>3. SizeRow(count, v, Z) = IF v = ZeroBytes(row.kind) THEN 0 ELSE 1 + Fixed(row.kind)
    BY <2>k DEF SizeRow
  <2>4. Counted(v, Fixed(row.kind))
    BY <2>1 DEF Counted
  <2>5. Counted(<<row.tag>> \o v, 1 + Fixed(row.kind))
    BY <1>1, <2>4, TaggedCounted
  <2> QED  BY <1>1, <2>2, <2>3, <2>5
<1>6. CASE Embeds(u) /\ u.kind \notin Scalars
  <2>k. row.kind \notin {"varint", "bool", "bytes", "fixed32", "fixed64"}
    <3>1. u.kind \in Types
      BY <1>6 DEF Embeds
    <3>2. row.kind = u.kind
      BY <1>6, <1>k DEF Scalars
    <3> QED  BY <3>1, <3>2, TypesAre
  <2>1. PICK n \in Nat : DOMAIN v = 1 .. n /\ \A k \in 1 .. n : Counted(E[k], Z[k])
    <3>2. v = [k \in 1 .. Len(v) |-> v[k]] /\ Len(v) \in Nat
      <4>1. IsList(v)
        BY <1>6, <1>v DEF ValueOf
      <4> QED  BY <4>1, Zenon DEF IsList
    <3>3. DOMAIN v = 1 .. Len(v)
      BY <3>2
    <3> QED  BY <1>6, <3>2, <3>3 DEF PartsCounted
  <2> DEFINE F == [k \in 1 .. n |-> <<row.tag>> \o Prefixed(E[k])]
             L == [k \in 1 .. n |-> (1 + Z[k]) + VarintLen(Z[k])]
  <2>2. MarshalRow(row, v, E) = FlattenSeq(F)
    BY <2>k, <2>1 DEF MarshalRow
  <2>3. SizeRow(count, v, Z) = Total(L)
    BY <2>k, <2>1 DEF SizeRow
  <2>4. ASSUME NEW k \in 1 .. n PROVE Counted(F[k], L[k])
    <3>1. Counted(E[k], Z[k]) /\ Z[k] \in Nat
      BY <2>1 DEF Counted
    <3>2. Counted(Varint[Z[k]], VarintLen(Z[k]))
      BY <3>1, VarintCounted
    <3>3. Counted(<<row.tag>> \o Prefixed(E[k]), 1 + (VarintLen(Z[k]) + Z[k]))
      BY <1>1, <3>1, PrefixedCounted, TaggedCounted
    <3>4. 1 + (VarintLen(Z[k]) + Z[k]) = (1 + Z[k]) + VarintLen(Z[k])
      BY <3>1, <3>2 DEF Counted
    <3> QED  BY <3>3, <3>4
  <2>5. F = [k \in 1 .. n |-> F[k]] /\ L = [k \in 1 .. n |-> L[k]]
    OBVIOUS
  <2> HIDE DEF F, L
  <2>6. Counted(FlattenSeq(F), Total(L))
    BY <2>4, <2>5, FlattenCounted
  <2> QED  BY <2>2, <2>3, <2>6
<1> QED  BY <1>k, <1>2, <1>3, <1>4, <1>5, <1>6 DEF KindOf

-----------------------------------------------------------------------------
(* Size and Marshal.                                                       *)

\* What is written and counted for the fields of a message, if E and Z are that
\* for the messages in it.
WithParts(t, m, E) ==
    FlattenSeq([k \in DOMAIN Marshals[t] |->
        MarshalRow(Marshals[t][k], m[Marshals[t][k].name], E[k])])
WithSizes(t, m, Z) ==
    Total([k \in DOMAIN Sizes[t] |->
        SizeRow(Sizes[t][k], m[Sizes[t][k].name], Z[k])])

\* The fields of a message are of their kinds, and the parts of those that embed
\* messages are counted.
HasValues(t, m) == \A u \in Unmarshals[t] : IsValue(u, m[u.name])
AllCounted(t, m, E, Z) ==
    \A k \in DOMAIN Marshals[t] :
        LET n == Marshals[t][k].name
        IN PartsCounted(RowOf(t, n), m[n], E[k], Z[k])

LEMMA MessageCounted ==
    ASSUME WordBits \in Nat \ {0}, HalfBits \in Nat \ {0}, NEW t \in Types, NEW m, NEW E, NEW Z,
           HasValues(t, m), AllCounted(t, m, E, Z)
    PROVE  Counted(WithParts(t, m, E), WithSizes(t, m, Z))
<1>1. RowsCount(Marshals[t], Sizes[t])
  BY TablesOfMessages DEF RowsAgree
<1>2. PICK n \in Nat : DOMAIN Marshals[t] = 1 .. n
  BY <1>1 DEF RowsCount
<1>3. /\ DOMAIN Sizes[t] = 1 .. n
      /\ \A k \in 1 .. n : /\ Sizes[t][k].kind = Marshals[t][k].kind
                           /\ Sizes[t][k].name = Marshals[t][k].name
  BY <1>1, <1>2 DEF RowsCount
<1> DEFINE F == [k \in 1 .. n |-> MarshalRow(Marshals[t][k], m[Marshals[t][k].name], E[k])]
           L == [k \in 1 .. n |-> SizeRow(Sizes[t][k], m[Sizes[t][k].name], Z[k])]
<1>4. WithParts(t, m, E) = FlattenSeq(F) /\ WithSizes(t, m, Z) = Total(L)
  BY <1>2, <1>3 DEF WithParts, WithSizes
<1>5. ASSUME NEW k \in 1 .. n PROVE Counted(F[k], L[k])
  <2>1. PICK row : row = Marshals[t][k]
    OBVIOUS
  <2>2. PICK count : count = Sizes[t][k]
    OBVIOUS
  <2>3. PICK u : u = RowOf(t, row.name)
    OBVIOUS
  <2>4. u \in Unmarshals[t] /\ RowReads(row, u)
    BY <1>2, <2>1, <2>3, RowFound
  <2>5. PICK v : v = m[row.name]
    OBVIOUS
  <2>6. count.kind = row.kind /\ count.name = row.name /\ u.name = row.name
    BY <1>3, <2>1, <2>2, <2>4 DEF RowReads
  <2>7. IsValue(u, v)
    BY <2>4, <2>5, <2>6 DEF HasValues
  <2>8. PartsCounted(u, v, E[k], Z[k])
    BY <1>2, <2>1, <2>3, <2>5 DEF AllCounted
  <2>9. Counted(MarshalRow(row, v, E[k]), SizeRow(count, v, Z[k]))
    BY <2>4, <2>6, <2>7, <2>8, RowCounted
  <2>10. F[k] = MarshalRow(row, v, E[k]) /\ L[k] = SizeRow(count, v, Z[k])
    BY <2>1, <2>2, <2>5, <2>6
  <2> QED  BY <2>9, <2>10
<1>6. F = [k \in 1 .. n |-> F[k]] /\ L = [k \in 1 .. n |-> L[k]]
  OBVIOUS
<1> HIDE DEF F, L
<1>7. Counted(FlattenSeq(F), Total(L))
  BY <1>5, <1>6, FlattenCounted
<1> QED  BY <1>4, <1>7

\* The fields of a message that embed others are slices.
IsEmbedding(t, m) ==
    \A u \in Unmarshals[t] : Embeds(u) => DOMAIN m[u.name] = 1 .. Len(m[u.name])

LEMMA EmbeddingIs ==
    ASSUME NEW t \in Types, NEW m, HasValues(t, m)
    PROVE  IsEmbedding(t, m)
<1>1. ASSUME NEW u \in Unmarshals[t], Embeds(u) PROVE DOMAIN m[u.name] = 1 .. Len(m[u.name])
  <2>1. u.kind \notin Scalars
    BY <1>1, TypesAre DEF Embeds, Scalars, Integral, FixedKinds
  <2>2. ValueOf(u, m[u.name])
    BY ValueIs DEF HasValues
  <2>3. PICK v : v = m[u.name]
    OBVIOUS
  <2>4. v = [k \in 1 .. Len(v) |-> v[k]]
    BY <2>1, <2>2, <2>3, Zenon DEF ValueOf, IsList
  <2> QED  BY <2>3, <2>4
<1> QED  BY <1>1 DEF IsEmbedding

\* The operators of each level.
MessageAt(l, t, m) ==
    \/ l = 1 /\ Message1(t, m)
    \/ l = 2 /\ Message2(t, m)
    \/ l = 3 /\ Message3(t, m)
    \/ l = 4 /\ Message4(t, m)
    \/ l = 5 /\ IsMessage(t, m)
MarshalAt(l, t, m) ==
    CASE l = 0 -> Marshal0(t, m)
      [] l = 1 -> Marshal1(t, m)
      [] l = 2 -> Marshal2(t, m)
      [] l = 3 -> Marshal3(t, m)
      [] l = 4 -> Marshal4(t, m)
      [] OTHER -> Marshal(t, m)
SizeAt(l, t, m) ==
    CASE l = 0 -> Size0(t, m)
      [] l = 1 -> Size1(t, m)
      [] l = 2 -> Size2(t, m)
      [] l = 3 -> Size3(t, m)
      [] l = 4 -> Size4(t, m)
      [] OTHER -> Size(t, m)

\* What the messages in each field are written as and measured.
EncodedAt(l, t, m) ==
    [k \in DOMAIN Marshals[t] |->
        [j \in DOMAIN m[Marshals[t][k].name] |->
            MarshalAt(l - 1, Marshals[t][k].kind, m[Marshals[t][k].name][j])]]
MeasuredAt(l, t, m) ==
    [k \in DOMAIN Sizes[t] |->
        [j \in DOMAIN m[Sizes[t][k].name] |->
            SizeAt(l - 1, Sizes[t][k].kind, m[Sizes[t][k].name][j])]]

\* The messages of a level embed those of the level below.
EmbedsBelow(l, t, m) ==
    \A u \in Unmarshals[t] :
        Embeds(u) => \A k \in DOMAIN m[u.name] : MessageAt(l - 1, u.kind, m[u.name][k])

LEMMA MessageLevel ==
    ASSUME NEW l \in 1 .. 5, NEW t, NEW m
    PROVE  MessageAt(l, t, m) <=>
               /\ t \in Types /\ m = [n \in Names(t) |-> m[n]]
               /\ HasValues(t, m) /\ EmbedsBelow(l, t, m) /\ FitsInt(Len(MarshalAt(l, t, m)))
<1>1. CASE l = 1
  <2>1. \A x, y : MessageAt(0, x, y) <=> Message0(x, y)
    BY DEF MessageAt, Message0
  <2>2. (MessageAt(l, t, m) <=> Message1(t, m)) /\ MarshalAt(l, t, m) = Marshal1(t, m) /\ l - 1 = 0
    BY <1>1 DEF MessageAt, MarshalAt
  <2> QED  BY <2>1, <2>2, Zenon DEF Message1, MessageWith, HasValues, EmbedsBelow
<1>2. CASE l = 2
  <2>1. \A x, y : MessageAt(1, x, y) <=> Message1(x, y)
    BY DEF MessageAt
  <2>2. (MessageAt(l, t, m) <=> Message2(t, m)) /\ MarshalAt(l, t, m) = Marshal2(t, m) /\ l - 1 = 1
    BY <1>2 DEF MessageAt, MarshalAt
  <2> QED  BY <2>1, <2>2, Zenon DEF Message2, MessageWith, HasValues, EmbedsBelow
<1>3. CASE l = 3
  <2>1. \A x, y : MessageAt(2, x, y) <=> Message2(x, y)
    BY DEF MessageAt
  <2>2. (MessageAt(l, t, m) <=> Message3(t, m)) /\ MarshalAt(l, t, m) = Marshal3(t, m) /\ l - 1 = 2
    BY <1>3 DEF MessageAt, MarshalAt
  <2> QED  BY <2>1, <2>2, Zenon DEF Message3, MessageWith, HasValues, EmbedsBelow
<1>4. CASE l = 4
  <2>1. \A x, y : MessageAt(3, x, y) <=> Message3(x, y)
    BY DEF MessageAt
  <2>2. (MessageAt(l, t, m) <=> Message4(t, m)) /\ MarshalAt(l, t, m) = Marshal4(t, m) /\ l - 1 = 3
    BY <1>4 DEF MessageAt, MarshalAt
  <2> QED  BY <2>1, <2>2, Zenon DEF Message4, MessageWith, HasValues, EmbedsBelow
<1>5. CASE l = 5
  <2>1. \A x, y : MessageAt(4, x, y) <=> Message4(x, y)
    BY DEF MessageAt
  <2>2. (MessageAt(l, t, m) <=> IsMessage(t, m)) /\ MarshalAt(l, t, m) = Marshal(t, m) /\ l - 1 = 4
    BY <1>5 DEF MessageAt, MarshalAt
  <2> QED  BY <2>1, <2>2, Zenon DEF IsMessage, MessageWith, HasValues, EmbedsBelow
<1> QED  BY <1>1, <1>2, <1>3, <1>4, <1>5

LEMMA MarshalLevel ==
    ASSUME NEW l \in 1 .. 5, NEW t, NEW m
    PROVE  MarshalAt(l, t, m) = WithParts(t, m, EncodedAt(l, t, m))
<1>1. CASE l = 1
  <2>1. \A x, y : MarshalAt(0, x, y) = Marshal0(x, y)
    BY DEF MarshalAt
  <2>2. MarshalAt(l, t, m) = Marshal1(t, m) /\ l - 1 = 0
    BY <1>1 DEF MarshalAt
  <2> QED  BY <2>1, <2>2, Zenon DEF Marshal1, MarshalWith, FieldsWith, WithParts, EncodedAt
<1>2. CASE l = 2
  <2>1. \A x, y : MarshalAt(1, x, y) = Marshal1(x, y)
    BY DEF MarshalAt
  <2>2. MarshalAt(l, t, m) = Marshal2(t, m) /\ l - 1 = 1
    BY <1>2 DEF MarshalAt
  <2> QED  BY <2>1, <2>2, Zenon DEF Marshal2, MarshalWith, FieldsWith, WithParts, EncodedAt
<1>3. CASE l = 3
  <2>1. \A x, y : MarshalAt(2, x, y) = Marshal2(x, y)
    BY DEF MarshalAt
  <2>2. MarshalAt(l, t, m) = Marshal3(t, m) /\ l - 1 = 2
    BY <1>3 DEF MarshalAt
  <2> QED  BY <2>1, <2>2, Zenon DEF Marshal3, MarshalWith, FieldsWith, WithParts, EncodedAt
<1>4. CASE l = 4
  <2>1. \A x, y : MarshalAt(3, x, y) = Marshal3(x, y)
    BY DEF MarshalAt
  <2>2. MarshalAt(l, t, m) = Marshal4(t, m) /\ l - 1 = 3
    BY <1>4 DEF MarshalAt
  <2> QED  BY <2>1, <2>2, Zenon DEF Marshal4, MarshalWith, FieldsWith, WithParts, EncodedAt
<1>5. CASE l = 5
  <2>1. \A x, y : MarshalAt(4, x, y) = Marshal4(x, y)
    BY DEF MarshalAt
  <2>2. MarshalAt(l, t, m) = Marshal(t, m) /\ l - 1 = 4
    BY <1>5 DEF MarshalAt
  <2> QED  BY <2>1, <2>2, Zenon DEF Marshal, Fields, FieldsWith, WithParts, EncodedAt
<1> QED  BY <1>1, <1>2, <1>3, <1>4, <1>5

LEMMA SizeLevel ==
    ASSUME NEW l \in 1 .. 5, NEW t, NEW m
    PROVE  SizeAt(l, t, m) = WithSizes(t, m, MeasuredAt(l, t, m))
<1>1. CASE l = 1
  <2>1. \A x, y : SizeAt(0, x, y) = Size0(x, y)
    BY DEF SizeAt
  <2>2. SizeAt(l, t, m) = Size1(t, m) /\ l - 1 = 0
    BY <1>1 DEF SizeAt
  <2> QED  BY <2>1, <2>2, Zenon DEF Size1, SizeWith, WithSizes, MeasuredAt
<1>2. CASE l = 2
  <2>1. \A x, y : SizeAt(1, x, y) = Size1(x, y)
    BY DEF SizeAt
  <2>2. SizeAt(l, t, m) = Size2(t, m) /\ l - 1 = 1
    BY <1>2 DEF SizeAt
  <2> QED  BY <2>1, <2>2, Zenon DEF Size2, SizeWith, WithSizes, MeasuredAt
<1>3. CASE l = 3
  <2>1. \A x, y : SizeAt(2, x, y) = Size2(x, y)
    BY DEF SizeAt
  <2>2. SizeAt(l, t, m) = Size3(t, m) /\ l - 1 = 2
    BY <1>3 DEF SizeAt
  <2> QED  BY <2>1, <2>2, Zenon DEF Size3, SizeWith, WithSizes, MeasuredAt
<1>4. CASE l = 4
  <2>1. \A x, y : SizeAt(3, x, y) = Size3(x, y)
    BY DEF SizeAt
  <2>2. SizeAt(l, t, m) = Size4(t, m) /\ l - 1 = 3
    BY <1>4 DEF SizeAt
  <2> QED  BY <2>1, <2>2, Zenon DEF Size4, SizeWith, WithSizes, MeasuredAt
<1>5. CASE l = 5
  <2>1. \A x, y : SizeAt(4, x, y) = Size4(x, y)
    BY DEF SizeAt
  <2>2. SizeAt(l, t, m) = Size(t, m) /\ l - 1 = 4
    BY <1>5 DEF SizeAt
  <2> QED  BY <2>1, <2>2, Zenon DEF Size, SizeWith, WithSizes, MeasuredAt
<1> QED  BY <1>1, <1>2, <1>3, <1>4, <1>5

\* The messages of a level are counted if those of the level below are.
CountedAt(l) ==
    \A t, m : MessageAt(l, t, m) => Counted(MarshalAt(l, t, m), SizeAt(l, t, m))

LEMMA LevelCounted ==
    ASSUME WordBits \in Nat \ {0}, HalfBits \in Nat \ {0}, NEW l \in 1 .. 5, CountedAt(l - 1)
    PROVE  CountedAt(l)
<1> SUFFICES ASSUME NEW t, NEW m, MessageAt(l, t, m)
             PROVE  Counted(MarshalAt(l, t, m), SizeAt(l, t, m))
  BY DEF CountedAt
<1>1. t \in Types /\ HasValues(t, m) /\ EmbedsBelow(l, t, m)
  BY MessageLevel
<1>2. PICK E : E = EncodedAt(l, t, m)
  OBVIOUS
<1>3. PICK Z : Z = MeasuredAt(l, t, m)
  OBVIOUS
<1>4. AllCounted(t, m, E, Z)
  <2>1. ASSUME NEW k \in DOMAIN Marshals[t],
               NEW u, u = RowOf(t, Marshals[t][k].name), Embeds(u),
               NEW j \in 1 .. Len(m[Marshals[t][k].name])
        PROVE  Counted(E[k][j], Z[k][j])
    <3>1. u \in Unmarshals[t] /\ RowReads(Marshals[t][k], u)
      BY <1>1, <2>1, RowFound
    <3>2. u.name = Marshals[t][k].name /\ u.kind = Marshals[t][k].kind
      <4>1. u.kind \notin Integral
        BY <2>1, TypesAre DEF Embeds, Integral
      <4> QED  BY <3>1, <4>1 DEF RowReads
    <3>3. k \in DOMAIN Sizes[t] /\ Sizes[t][k].kind = u.kind /\ Sizes[t][k].name = u.name
      BY <1>1, <3>2, TablesOfMessages DEF RowsAgree, RowsCount
    <3>4. j \in DOMAIN m[u.name]
      BY <1>1, <2>1, <3>1, <3>2, EmbeddingIs DEF IsEmbedding
    <3>5. MessageAt(l - 1, u.kind, m[u.name][j])
      BY <1>1, <2>1, <3>1, <3>4 DEF EmbedsBelow
    <3>6. /\ E[k][j] = MarshalAt(l - 1, u.kind, m[u.name][j])
          /\ Z[k][j] = SizeAt(l - 1, u.kind, m[u.name][j])
      BY <1>2, <1>3, <3>2, <3>3, <3>4, ZenonT(60) DEF EncodedAt, MeasuredAt
    <3> QED  BY <3>5, <3>6 DEF CountedAt
  <2> QED  BY <2>1, Zenon DEF AllCounted, PartsCounted
<1>5. MarshalAt(l, t, m) = WithParts(t, m, E) /\ SizeAt(l, t, m) = WithSizes(t, m, Z)
  BY <1>2, <1>3, MarshalLevel, SizeLevel
<1>6. Counted(WithParts(t, m, E), WithSizes(t, m, Z))
  BY <1>1, <1>4, MessageCounted
<1> QED  BY <1>5, <1>6

LEMMA AllLevelsCounted ==
    ASSUME WordBits \in Nat \ {0}, HalfBits \in Nat \ {0}
    PROVE  \A l \in 0 .. 5 : CountedAt(l)
<1>1. CountedAt(0)
  BY DEF CountedAt, MessageAt
<1>2. ASSUME NEW l \in 1 .. 5, CountedAt(l - 1) PROVE CountedAt(l)
  BY <1>2, LevelCounted
<1>3. CountedAt(1)
  BY <1>1, <1>2
<1>4. CountedAt(2)
  BY <1>2, <1>3
<1>5. CountedAt(3)
  BY <1>2, <1>4
<1>6. CountedAt(4)
  BY <1>2, <1>5
<1>7. CountedAt(5)
  BY <1>2, <1>6
<1> QED  BY <1>1, <1>3, <1>4, <1>5, <1>6, <1>7

\* Size is the length of what Marshal writes, for every message of each of the
\* sixteen types and any width of words: Marshal allocates Size bytes and fills them
\* from the end, so a smaller number makes it panic and a larger one leaves zeros in
\* front.
THEOREM SizeIsMarshalled ==
    ASSUME WordBits \in Nat \ {0}, HalfBits \in Nat \ {0}, NEW t, NEW m, IsMessage(t, m)
    PROVE  Marshal(t, m) \in Seq(Octets) /\ Size(t, m) = Len(Marshal(t, m))
<1>1. MessageAt(5, t, m) /\ MarshalAt(5, t, m) = Marshal(t, m) /\ SizeAt(5, t, m) = Size(t, m)
  BY DEF MessageAt, MarshalAt, SizeAt
<1>2. CountedAt(5)
  BY AllLevelsCounted
<1> QED  BY <1>1, <1>2 DEF CountedAt, Counted
==============================================================================

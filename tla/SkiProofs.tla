----------------------------- MODULE SkiProofs -----------------------------
(***************************************************************************)
(* Proofs about KeyTome, for any keys, any tomes and any number of         *)
(* goroutines that merge and marshal: a merge that no other overlaps loses *)
(* no key, and what stays with the caller has a key of the tome against    *)
(* it; in a tome that is not mixed, what a public key stands for never     *)
(* changes, and every key held is found between merges and after loading.  *)
(***************************************************************************)
EXTENDS KeyTome, DataFacts, FiniteSetTheorems, SequenceTheorems, TLAPS

-----------------------------------------------------------------------------
(* Rings: the newest key, and keys by public key.                          *)

LEMMA HeldIn ==
    ASSUME NEW rings, NEW h
    PROVE  h \in Held(rings) <=>
               \E k \in DOMAIN rings : \E e \in rings[k].keys : h = <<rings[k].name, e>>
BY DEF Held

LEMMA LatestIsLast ==
    ASSUME NEW keys \in SUBSET Entries, keys # {}
    PROVE  Latest(keys) \in keys /\ \A f \in keys : f.time <= Latest(keys).time
<1> DEFINE Later(e) == {f \in keys : f.time > e.time}
           F == {Later(e) : e \in keys}
<1>1. \A T \in F : IsFiniteSet(T)
  <2>1. ASSUME NEW e \in keys PROVE IsFiniteSet(Later(e))
    BY FS_Subset, TomeAssumption
  <2> QED  BY <2>1
<1>2. PICK T \in F : \A U \in F : U \subseteq T => U = T
  <2>1. F # {}
    OBVIOUS
  <2> HIDE DEF F
  <2> QED  BY <1>1, <2>1, MinimalSet
<1>3. PICK e \in keys : T = Later(e)
  OBVIOUS
<1>4. ASSUME NEW f \in keys PROVE f.time <= e.time
  <2> SUFFICES ASSUME f.time > e.time PROVE FALSE
    BY TomeAssumption
  <2>1. f \in Later(e) /\ f \notin Later(f)
    BY TomeAssumption
  <2>2. Later(f) \subseteq Later(e)
    BY TomeAssumption
  <2> QED  BY <1>2, <1>3, <2>1, <2>2
<1> QED  BY <1>4 DEF Latest

LEMMA FetchKeyFinds ==
    ASSUME NEW ring \in Rings, NEW pub
    PROVE  LET found == {e \in ring.keys : e.pub = pub}
           IN IF found = {} THEN FetchKey(ring, pub) = None
              ELSE /\ FetchKey(ring, pub) \in found
                   /\ \A f \in found : f.time <= FetchKey(ring, pub).time
<1> DEFINE found == {e \in ring.keys : e.pub = pub}
<1>1. found \in SUBSET Entries
  BY DEF Rings
<1>2. found # {} => FetchKey(ring, pub) = Latest(found)
  BY Zenon DEF FetchKey, Latest
<1> QED  BY <1>1, <1>2, LatestIsLast DEF FetchKey

LEMMA FetchNewestFinds ==
    ASSUME NEW ring, IsRing(ring)
    PROVE  IF ring.keys = {} THEN FetchNewestKey(ring) = None
           ELSE FetchNewestKey(ring) \in ring.keys
BY FetchKeyFinds, LatestIsLast DEF IsRing, Rings, FetchNewestKey

LEMMA OptimizedRingIsRing ==
    ASSUME NEW ring, ring.name \in RingNames, ring.keys \in SUBSET Entries
    PROVE  /\ IsRing(OptimizedRing(ring))
           /\ OptimizedRing(ring).name = ring.name /\ OptimizedRing(ring).keys = ring.keys
BY LatestIsLast DEF OptimizedRing, Ring, IsRing, Rings

\* What MergeKeys does to a ring, its newest key and the source's keys.
LEMMA MergeKeysKeeps ==
    ASSUME NEW ring, IsRing(ring), NEW src, IsRing(src)
    PROVE  /\ IsRing(MergeKeys(ring, src))
           /\ MergeKeys(ring, src).name = ring.name
           /\ MergeKeys(ring, src).keys = ring.keys \cup Fresh(ring, src)
<1>1. Fresh(ring, src) \in SUBSET Entries
  BY DEF Fresh, IsRing, Rings
<1>2. NewestOf(ring, src) # None =>
          \E e \in ring.keys \cup Fresh(ring, src) : e.pub = NewestOf(ring, src)
  BY <1>1, LatestIsLast, FetchNewestFinds, TomeAssumption DEF NewestOf, IsRing, Rings
<1>3. NewestOf(ring, src) \in {e.pub : e \in Entries} \cup {None}
  BY <1>1, <1>2 DEF IsRing, Rings
<1> QED  BY <1>1, <1>2, <1>3 DEF MergeKeys, Ring, IsRing, Rings

\* Every key of the source is in the ring afterwards, or stays as a problem; what
\* stays has a key of the ring against it.
LEMMA MergeKeysAccounts ==
    ASSUME NEW ring, IsRing(ring), NEW src, IsRing(src)
    PROVE  /\ ring.keys \cup src.keys = MergeKeys(ring, src).keys \cup Problems(ring, src)
           /\ Problems(ring, src) \in SUBSET src.keys
           /\ \A e \in Problems(ring, src) : \E g \in ring.keys :
                  g.pub = e.pub /\ (g # e \/ e.pub \in ShortPubs)
           /\ \A e \in Fresh(ring, src) : \A g \in ring.keys : g.pub # e.pub
<1>1. \A e \in src.keys : FetchKey(ring, e.pub) # None =>
          FetchKey(ring, e.pub) \in ring.keys /\ FetchKey(ring, e.pub).pub = e.pub
  BY FetchKeyFinds DEF IsRing
<1>2. \A e \in src.keys : FetchKey(ring, e.pub) = None => \A g \in ring.keys : g.pub # e.pub
  BY FetchKeyFinds, TomeAssumption DEF IsRing, Rings
<1>3. MergeKeys(ring, src).keys = ring.keys \cup Fresh(ring, src)
  BY MergeKeysKeeps
<1> QED  BY <1>1, <1>2, <1>3 DEF Problems, Fresh

\* Both of a ring with the name of the source's.
RingMerged(ring, src, merged, left) ==
    /\ IsRing(merged) /\ merged.name = src.name /\ merged.keys = ring.keys \cup Fresh(ring, src)
    /\ left \in SUBSET src.keys /\ left \in SUBSET Entries /\ src.name \in RingNames
    /\ ring.keys \cup src.keys = merged.keys \cup left
    /\ \A e \in left : \E g \in ring.keys : g.pub = e.pub /\ (g # e \/ e.pub \in ShortPubs)

LEMMA MergeKeysMerges ==
    ASSUME NEW ring, IsRing(ring), NEW src, IsRing(src), ring.name = src.name
    PROVE  RingMerged(ring, src, MergeKeys(ring, src), Problems(ring, src))
<1>1. PICK merged : merged = MergeKeys(ring, src)
  OBVIOUS
<1>2. PICK left : left = Problems(ring, src)
  OBVIOUS
<1>3. IsRing(merged) /\ merged.name = src.name /\ merged.keys = ring.keys \cup Fresh(ring, src)
  BY <1>1, MergeKeysKeeps
<1>4. /\ ring.keys \cup src.keys = merged.keys \cup left
      /\ left \in SUBSET src.keys
      /\ \A e \in left : \E g \in ring.keys : g.pub = e.pub /\ (g # e \/ e.pub \in ShortPubs)
  BY <1>1, <1>2, MergeKeysAccounts, Zenon
<1>5. src.name \in RingNames /\ src.keys \in SUBSET Entries
  BY DEF IsRing, Rings
<1>6. left \in SUBSET Entries
  BY <1>4, <1>5
<1>7. RingMerged(ring, src, merged, left)
  BY <1>3, <1>4, <1>5, <1>6, Zenon DEF RingMerged
<1> QED  BY <1>1, <1>2, <1>7, Zenon

-----------------------------------------------------------------------------
(* Sequences of rings: sorting, and searching what is sorted.              *)

Ascending(rings) == \A j, k \in DOMAIN rings : j < k => rings[j].name < rings[k].name

LEMMA SeqOfRings ==
    ASSUME NEW rings \in Seq(Rings)
    PROVE  /\ Len(rings) \in Nat /\ DOMAIN rings = 1 .. Len(rings)
           /\ \A k \in DOMAIN rings : /\ rings[k] \in Rings /\ rings[k].name \in Int
                                      /\ rings[k].keys \in SUBSET Entries
<1>1. Len(rings) \in Nat /\ DOMAIN rings = 1 .. Len(rings) /\ \A k \in DOMAIN rings : rings[k] \in Rings
  OBVIOUS
<1>2. \A r \in Rings : r.name \in Int /\ r.keys \in SUBSET Entries
  BY TomeAssumption DEF Rings
<1> QED  BY <1>1, <1>2

\* The rings that come before a ring, with itself, are as many as its place.
LEMMA PlacesAreTaken ==
    ASSUME NEW rings \in Seq(Rings)
    PROVE  /\ \A i \in DOMAIN rings : \E k \in DOMAIN rings : Cardinality(Before(rings, k)) = i
           /\ \A k \in DOMAIN rings : Cardinality(Before(rings, k)) \in DOMAIN rings
           /\ \A j, k \in DOMAIN rings : j # k /\ j \in Before(rings, k) =>
                  Cardinality(Before(rings, j)) < Cardinality(Before(rings, k))
<1> DEFINE N == Len(rings)
           D == 1 .. N
           r == [k \in D |-> Cardinality(Before(rings, k))]
<1>1. N \in Nat /\ DOMAIN rings = D /\ \A k \in D : rings[k].name \in Int
  BY SeqOfRings
<1>2. IsFiniteSet(D) /\ Cardinality(D) = N
  <2>1. 1 \in Int /\ N \in Int
    BY <1>1
  <2>2. IsFiniteSet(1 .. N) /\ Cardinality(1 .. N) = IF 1 > N THEN 0 ELSE N - 1 + 1
    BY <2>1, FS_Interval, Zenon
  <2> QED  BY <1>1, <2>2
<1> HIDE DEF N, D
<1>3. ASSUME NEW k \in D
      PROVE  /\ Before(rings, k) \in SUBSET D /\ k \in Before(rings, k)
             /\ IsFiniteSet(Before(rings, k)) /\ Cardinality(Before(rings, k)) \in Nat
             /\ Cardinality(Before(rings, k)) \in D
  <2>1. Before(rings, k) \in SUBSET D /\ k \in Before(rings, k)
    BY <1>1 DEF Before, D
  <2>2. IsFiniteSet(Before(rings, k)) /\ Cardinality(Before(rings, k)) <= N
    BY <1>2, <2>1, FS_Subset
  <2>3. Cardinality(Before(rings, k)) \in Nat /\ Cardinality(Before(rings, k)) # 0
    BY <2>1, <2>2, FS_CardinalityType, FS_EmptySet
  <2> QED  BY <1>1, <2>1, <2>2, <2>3 DEF D
<1>4. ASSUME NEW j \in D, NEW k \in D, j # k, j \in Before(rings, k)
      PROVE  Cardinality(Before(rings, j)) < Cardinality(Before(rings, k))
  <2>1. Before(rings, j) \subseteq Before(rings, k) /\ k \notin Before(rings, j)
    BY <1>1, <1>4 DEF Before, D
  <2>2. Before(rings, j) # Before(rings, k)
    BY <1>3, <2>1
  <2> QED  BY <1>3, <2>1, <2>2, FS_Subset
<1>5. \A j, k \in D : j # k => j \in Before(rings, k) \/ k \in Before(rings, j)
  BY <1>1 DEF Before, D
<1>6. \A j, k \in D : r[j] = r[k] => j = k
  BY <1>3, <1>4, <1>5
<1>7. r \in Injection(D, D)
  <2>1. r \in [D -> D]
    BY <1>3
  <2> QED  BY <1>6, <2>1 DEF Injection, IsInjective
<1>8. r \in Surjection(D, D)
  BY <1>2, <1>7, FS_Injection, Zenon
<1>9. \A i \in D : \E k \in D : r[k] = i
  BY <1>8 DEF Surjection
<1> QED  BY <1>1, <1>3, <1>4, <1>9

LEMMA OptimizedSorts ==
    ASSUME NEW rings \in Seq(Rings)
    PROVE  /\ Optimized(rings) \in Seq(Rings) /\ DOMAIN Optimized(rings) = DOMAIN rings
           /\ \A i \in DOMAIN rings : \E k \in DOMAIN rings : Optimized(rings)[i] = rings[k]
           /\ Held(Optimized(rings)) = Held(rings)
           /\ Distinct(rings) => Ascending(Optimized(rings))
<1> DEFINE D == DOMAIN rings
           c(k) == Cardinality(Before(rings, k))
           at(i) == CHOOSE k \in D : c(k) = i
<1>1. D = 1 .. Len(rings) /\ Len(rings) \in Nat /\ \A k \in D : rings[k] \in Rings /\ rings[k].name \in Int
  BY SeqOfRings
<1>2. \A i \in D : at(i) \in D /\ c(at(i)) = i
  BY PlacesAreTaken
<1>3. \A k \in D : c(k) \in D /\ at(c(k)) = k
  <2>1. \A k \in D : c(k) \in D
    BY PlacesAreTaken
  <2>2. ASSUME NEW j \in D, NEW k \in D, c(j) = c(k) PROVE j = k
    <3> SUFFICES ASSUME j # k PROVE FALSE
      OBVIOUS
    <3>1. j \in Before(rings, k) \/ k \in Before(rings, j)
      BY <1>1 DEF Before
    <3>2. c(j) < c(k) \/ c(k) < c(j)
      BY <3>1, PlacesAreTaken
    <3> QED  BY <1>1, <2>1, <2>2, <3>2
  <2> QED  BY <1>2, <2>1, <2>2
<1>4. Optimized(rings) = [i \in D |-> rings[at(i)]]
  BY DEF Optimized
<1> HIDE DEF at, c
<1>5. Optimized(rings) \in Seq(Rings) /\ DOMAIN Optimized(rings) = D
  <2>1. \A i \in 1 .. Len(rings) : rings[at(i)] \in Rings
    BY <1>1, <1>2
  <2> QED  BY <1>1, <1>4, <2>1
<1>6. \A i \in D : \E k \in D : Optimized(rings)[i] = rings[k]
  BY <1>2, <1>4
<1>7. \A k \in D : \E i \in D : Optimized(rings)[i] = rings[k]
  BY <1>3, <1>4
<1>8. Held(Optimized(rings)) = Held(rings)
  <2> DEFINE sorted == Optimized(rings)
  <2>1. ASSUME NEW h \in Held(sorted) PROVE h \in Held(rings)
    <3>1. PICK i \in D : \E e \in sorted[i].keys : h = <<sorted[i].name, e>>
      BY <1>5, HeldIn
    <3>2. PICK k \in D : sorted[i] = rings[k]
      BY <1>6
    <3> HIDE DEF sorted
    <3> QED  BY <3>1, <3>2, HeldIn
  <2>2. ASSUME NEW h \in Held(rings) PROVE h \in Held(sorted)
    <3>1. PICK k \in D : \E e \in rings[k].keys : h = <<rings[k].name, e>>
      BY HeldIn
    <3>2. PICK i \in D : sorted[i] = rings[k]
      BY <1>7
    <3>3. DOMAIN sorted = D
      BY <1>5
    <3> HIDE DEF sorted
    <3> QED  BY <3>1, <3>2, <3>3, HeldIn
  <2> QED  BY <2>1, <2>2
<1>9. ASSUME Distinct(rings), NEW i \in D, NEW j \in D, i < j
      PROVE  rings[at(i)].name < rings[at(j)].name
  <2>1. at(i) # at(j)
    BY <1>1, <1>2, <1>9
  <2>2. at(j) \notin Before(rings, at(i))
    <3> SUFFICES ASSUME at(j) \in Before(rings, at(i)) PROVE FALSE
      OBVIOUS
    <3>1. c(at(j)) < c(at(i))
      BY <1>2, <2>1, PlacesAreTaken DEF c
    <3> QED  BY <1>1, <1>2, <1>9, <3>1
  <2>3. rings[at(i)].name # rings[at(j)].name
    BY <1>2, <1>9, <2>1 DEF Distinct
  <2> QED  BY <1>1, <1>2, <2>2, <2>3 DEF Before
<1>10. Distinct(rings) => Ascending(Optimized(rings))
  BY <1>4, <1>5, <1>9 DEF Ascending
<1> QED  BY <1>5, <1>6, <1>8, <1>10

\* sort.Search: in rings that ascend, and if there is a ring of that name, it is
\* where the halving of the interval ends.
LEMMA SearchFinds ==
    ASSUME NEW rings \in Seq(Rings), Ascending(rings), NEW at \in DOMAIN rings
    PROVE  Search(rings, rings[at].name) = at
<1> DEFINE n == Len(rings)
           name == rings[at].name
           I == (0 .. n) \X (0 .. n)
           Half(b) == IF rings[((b[1] + b[2]) \div 2) + 1].name >= name
                      THEN <<b[1], (b[1] + b[2]) \div 2>>
                      ELSE <<((b[1] + b[2]) \div 2) + 1, b[2]>>
           Body(F) == [b \in I |-> IF b[1] >= b[2] THEN b[1] ELSE F[Half(b)]]
           From == CHOOSE F : F = Body(F)
           End(b) == IF b[1] >= b[2] \/ at - 1 <= b[1] THEN b[1]
                     ELSE IF at - 1 >= b[2] THEN b[2] ELSE at - 1
           G == [b \in I |-> End(b)]
<1>1. Search(rings, name) = From[<<0, n>>] + 1
  BY Zenon DEF Search
<1>2. n \in Nat /\ at \in 1 .. n /\ \A k \in 1 .. n : rings[k].name \in Int
  BY SeqOfRings
<1>3. \A k \in 1 .. n : rings[k].name >= name <=> k >= at
  BY <1>2 DEF Ascending
<1> HIDE DEF n, name
<1>4. ASSUME NEW b \in I, b[1] < b[2]
      PROVE  /\ Half(b) \in I /\ Half(b)[1] <= Half(b)[2]
             /\ Half(b)[2] - Half(b)[1] < b[2] - b[1]
             /\ End(b) = End(Half(b))
  <2> DEFINE mid == (b[1] + b[2]) \div 2
  <2>1. b = <<b[1], b[2]>> /\ b[1] \in 0 .. n /\ b[2] \in 0 .. n
    OBVIOUS
  <2>2. mid \in Nat /\ b[1] <= mid /\ mid < b[2] /\ mid + 1 \in 1 .. n
    BY <1>2, <1>4, <2>1, SMTT(60)
  <2>3. rings[mid + 1].name >= name <=> mid + 1 >= at
    BY <1>3, <2>2
  <2> HIDE DEF mid
  <2>4. Half(b) = IF mid + 1 >= at THEN <<b[1], mid>> ELSE <<mid + 1, b[2]>>
    BY <2>3 DEF mid
  <2> HIDE DEF Half
  <2> QED  BY <1>2, <1>4, <2>1, <2>2, <2>4, SMTT(60)
<1> HIDE DEF Half
<1>5. G = Body(G)
  BY <1>4
<1>6. From = Body(From)
  <2>1. \E F : F = Body(F)
    BY <1>5
  <2> HIDE DEF Body
  <2> QED  BY <2>1
<1>7. ASSUME NEW b \in I PROVE From[b] = End(b)
  <2> DEFINE T == {m \in Nat : \E a \in I : a[1] <= a[2] /\ m = a[2] - a[1] /\ From[a] # End(a)}
  <2> HIDE DEF From, End
  <2>1. \A a \in I : From[a] = IF a[1] >= a[2] THEN a[1] ELSE From[Half(a)]
    BY <1>6
  <2>2. \A a \in I : a[1] >= a[2] => From[a] = End(a)
    BY <2>1 DEF End
  <2>3. T = {}
    <3> SUFFICES ASSUME T # {} PROVE FALSE
      OBVIOUS
    <3>1. PICK m \in T : \A k \in T : m <= k
      <4>1. T \in SUBSET Nat
        OBVIOUS
      <4> HIDE DEF T
      <4> QED  BY <4>1, LeastNumber
    <3>2. PICK a \in I : a[1] <= a[2] /\ m = a[2] - a[1] /\ From[a] # End(a)
      OBVIOUS
    <3>3. a[1] < a[2]
      BY <2>2, <3>2, SMTT(60)
    <3>4. From[Half(a)] # End(Half(a))
      BY <1>4, <2>1, <3>2, <3>3, SMTT(60)
    <3>5. /\ Half(a) \in I /\ Half(a)[1] <= Half(a)[2]
          /\ Half(a)[2] - Half(a)[1] < m
      BY <1>4, <3>2, <3>3
    <3>6. Half(a)[2] - Half(a)[1] \in Nat
      <4> DEFINE c == Half(a)
      <4>1. n \in Nat /\ c \in I /\ c[1] <= c[2]
        BY <1>2, <3>5
      <4> HIDE DEF c
      <4>2. c[1] \in 0 .. n /\ c[2] \in 0 .. n
        BY <4>1
      <4>3. c[2] - c[1] \in Nat
        BY <4>1, <4>2, SMTT(60)
      <4> QED  BY <4>3 DEF c
    <3>7. Half(a)[2] - Half(a)[1] \in T
      BY <3>4, <3>5, <3>6
    <3>8. m \in Nat
      OBVIOUS
    <3> HIDE DEF T
    <3> QED  BY <3>1, <3>5, <3>6, <3>7, <3>8, SMTT(60)
  <2> QED  BY <2>2, <2>3, SMTT(60)
<1>8. <<0, n>> \in I /\ End(<<0, n>>) = at - 1
  BY <1>2
<1>9. From[<<0, n>>] = at - 1
  <2> HIDE DEF From, End, I
  <2> QED  BY <1>7, <1>8
<1> HIDE DEF From
<1> QED  BY <1>1, <1>2, <1>9 DEF name

\* KeyTome.FetchKeyring names a ring of that name, and the only one if the rings
\* ascend; then it finds it, known to be sorted or not.
LEMMA FetchKeyringIs ==
    ASSUME NEW rings \in Seq(Rings), NEW isSorted \in BOOLEAN, NEW name
    PROVE  LET at == FetchKeyring(rings, isSorted, name)
           IN /\ at # None => at \in DOMAIN rings /\ rings[at].name = name
              /\ Ascending(rings) => (at = None <=> \A k \in DOMAIN rings : rings[k].name # name)
<1> DEFINE all == {k \in DOMAIN rings : rings[k].name = name}
<1>1. DOMAIN rings = 1 .. Len(rings) /\ Len(rings) \in Nat /\ None \notin DOMAIN rings
  BY SeqOfRings, TomeAssumption
<1>2. all # {} => \E k \in all : \A j \in all : k <= j
  <2>1. all \in SUBSET Nat
    BY <1>1
  <2> HIDE DEF all
  <2> QED  BY <2>1, LeastNumber
<1>3. \A k \in all : Ascending(rings) => Search(rings, name) = k
  BY SearchFinds
<1>4. CASE isSorted
  <2>1. FetchKeyring(rings, isSorted, name) = IF Search(rings, name) \in all THEN Search(rings, name) ELSE None
    BY <1>4 DEF FetchKeyring
  <2> QED  BY <1>1, <1>3, <2>1
<1>5. CASE ~isSorted
  <2>1. FetchKeyring(rings, isSorted, name) =
            IF all = {} THEN None ELSE CHOOSE k \in all : \A j \in all : k <= j
    BY <1>5 DEF FetchKeyring
  <2> QED  BY <1>1, <1>2, <2>1
<1> QED  BY <1>4, <1>5

LEMMA NotFetched ==
    ASSUME NEW rings \in Seq(Rings), NEW isSorted \in BOOLEAN, NEW name,
           Ascending(rings), FetchKeyring(rings, isSorted, name) = None
    PROVE  \A k \in DOMAIN rings : rings[k].name # name
BY FetchKeyringIs

-----------------------------------------------------------------------------
(* What is held by a sequence of rings that has been changed.              *)

WellFormed(rings) == rings \in Seq(Rings) /\ \A k \in DOMAIN rings : IsRing(rings[k])
HeldBy(ring) == {<<ring.name, e>> : e \in ring.keys}

LEMMA HeldByRings ==
    ASSUME NEW rings
    PROVE  \A h : h \in Held(rings) <=> \E k \in DOMAIN rings : h \in HeldBy(rings[k])
BY HeldIn DEF HeldBy

LEMMA HeldConcat ==
    ASSUME NEW a, WellFormed(a), NEW b, WellFormed(b)
    PROVE  /\ WellFormed(a \o b) /\ Held(a \o b) = Held(a) \cup Held(b)
           /\ DOMAIN (a \o b) = 1 .. Len(a) + Len(b)
           /\ \A k \in DOMAIN (a \o b) : (a \o b)[k] = IF k <= Len(a) THEN a[k] ELSE b[k - Len(a)]
<1>1. /\ a \in Seq(Rings) /\ b \in Seq(Rings) /\ Len(a) \in Nat /\ Len(b) \in Nat
      /\ DOMAIN a = 1 .. Len(a) /\ DOMAIN b = 1 .. Len(b)
  BY DEF WellFormed
<1>2. /\ a \o b \in Seq(Rings) /\ Len(a \o b) = Len(a) + Len(b) /\ DOMAIN (a \o b) = 1 .. Len(a) + Len(b)
      /\ \A k \in 1 .. Len(a) + Len(b) : (a \o b)[k] = IF k <= Len(a) THEN a[k] ELSE b[k - Len(a)]
  BY <1>1
<1> DEFINE c == a \o b
<1>3. \A k \in DOMAIN a : k \in DOMAIN c /\ c[k] = a[k]
  BY <1>1, <1>2
<1>4. \A k \in DOMAIN b : k + Len(a) \in DOMAIN c /\ c[k + Len(a)] = b[k]
  BY <1>1, <1>2
<1>5. \A k \in DOMAIN c : (\E j \in DOMAIN a : c[k] = a[j]) \/ (\E j \in DOMAIN b : c[k] = b[j])
  BY <1>1, <1>2
<1> HIDE DEF c
<1>6. WellFormed(c)
  BY <1>2, <1>5 DEF WellFormed, c
<1>7. Held(c) = Held(a) \cup Held(b)
  <2>1. \A h : h \in Held(c) <=> h \in Held(a) \/ h \in Held(b)
    BY <1>3, <1>4, <1>5, HeldByRings
  <2> QED  BY <2>1
<1> QED  BY <1>2, <1>6, <1>7 DEF c

LEMMA HeldAppend ==
    ASSUME NEW a, WellFormed(a), NEW ring, IsRing(ring)
    PROVE  WellFormed(Append(a, ring)) /\ Held(Append(a, ring)) = Held(a) \cup HeldBy(ring)
<1>1. a \in Seq(Rings) /\ ring \in Rings
  BY DEF WellFormed, IsRing
<1> DEFINE c == Append(a, ring)
<1>2. c \in Seq(Rings) /\ DOMAIN c = DOMAIN a \cup {Len(a) + 1} /\ c[Len(a) + 1] = ring
      /\ \A k \in DOMAIN a : c[k] = a[k]
  BY <1>1
<1> HIDE DEF c
<1>3. WellFormed(c)
  BY <1>2 DEF WellFormed
<1>4. \A h : h \in Held(c) <=> h \in Held(a) \/ h \in HeldBy(ring)
  BY <1>2, HeldByRings
<1> QED  BY <1>3, <1>4 DEF c

\* A ring is replaced.
LEMMA HeldReplaced ==
    ASSUME NEW a, WellFormed(a), NEW at \in DOMAIN a, NEW ring, IsRing(ring)
    PROVE  LET c == [a EXCEPT ![at] = ring]
           IN /\ WellFormed(c) /\ DOMAIN c = DOMAIN a /\ Len(c) = Len(a) /\ c[at] = ring
              /\ \A k \in DOMAIN a : k # at => c[k] = a[k]
              /\ \A h : h \in Held(c) <=>
                     h \in HeldBy(ring) \/ \E k \in DOMAIN a : k # at /\ h \in HeldBy(a[k])
<1> DEFINE c == [a EXCEPT ![at] = ring]
<1>1. a \in Seq(Rings) /\ ring \in Rings
  BY DEF WellFormed, IsRing
<1>2. c \in Seq(Rings) /\ DOMAIN c = DOMAIN a /\ Len(c) = Len(a) /\ c[at] = ring
      /\ \A k \in DOMAIN a : k # at => c[k] = a[k]
  BY <1>1
<1> HIDE DEF c
<1>3. WellFormed(c)
  BY <1>2 DEF WellFormed
<1>4. \A h : h \in Held(c) <=>
          h \in HeldBy(ring) \/ \E k \in DOMAIN a : k # at /\ h \in HeldBy(a[k])
  BY <1>2, HeldByRings
<1> QED  BY <1>2, <1>3, <1>4 DEF c

\* The ring that was merged leaves the source; the last one takes its place.
LEMMA HeldWithoutCurrent ==
    ASSUME NEW mg, WellFormed(mg.src), mg.i \in 1 .. Len(mg.src)
    PROVE  LET w == WithoutCurrent(mg)
           IN /\ WellFormed(w) /\ Len(w) = Len(mg.src) - 1
              /\ \A j \in 1 .. Len(mg.src) - 1 :
                     w[j] = mg.src[IF j = mg.i THEN Len(mg.src) ELSE j]
              /\ Held(mg.src) = Held(w) \cup HeldBy(mg.src[mg.i])
<1> DEFINE src == mg.src
           n == Len(mg.src)
           w == WithoutCurrent(mg)
<1>1. src \in Seq(Rings) /\ n \in Nat /\ n >= 1 /\ DOMAIN src = 1 .. n
  BY DEF WellFormed
<1>2. /\ w \in Seq(Rings) /\ Len(w) = n - 1 /\ DOMAIN w = 1 .. n - 1
      /\ \A j \in 1 .. n - 1 : w[j] = src[IF j = mg.i THEN n ELSE j]
  <2> DEFINE r == [src EXCEPT ![mg.i] = src[n]]
  <2>1. r \in Seq(Rings) /\ Len(r) = n /\ \A j \in 1 .. n : r[j] = src[IF j = mg.i THEN n ELSE j]
    BY <1>1
  <2>2. w = SubSeq(r, 1, n - 1)
    BY DEF WithoutCurrent
  <2> HIDE DEF r, w
  <2> QED  BY <1>1, <2>1, <2>2
<1>3. \A j \in DOMAIN w : \E k \in DOMAIN src : w[j] = src[k]
  BY <1>1, <1>2
<1>4. \A k \in DOMAIN src : k # mg.i => \E j \in DOMAIN w : w[j] = src[k]
  <2>1. ASSUME NEW k \in DOMAIN src, k # mg.i, k # n PROVE k \in DOMAIN w /\ w[k] = src[k]
    BY <1>1, <1>2, <2>1, SMTT(60)
  <2>2. ASSUME n # mg.i PROVE mg.i \in DOMAIN w /\ w[mg.i] = src[n]
    BY <1>1, <1>2, <2>2, SMTT(60)
  <2> QED  BY <2>1, <2>2
<1> HIDE DEF w
<1>5. WellFormed(w)
  BY <1>2, <1>3 DEF WellFormed
<1>6. \A h : h \in Held(src) <=> h \in Held(w) \/ h \in HeldBy(src[mg.i])
  BY <1>1, <1>3, <1>4, HeldByRings, SMTT(60)
<1> QED  BY <1>2, <1>5, <1>6 DEF w

\* The first rings of a sequence.
LEMMA FirstRingsAre ==
    ASSUME WellFormed(keyrings), NEW n \in Nat
    PROVE  /\ WellFormed(FirstRings(n)) /\ (n = Len(keyrings) => FirstRings(n) = keyrings)
           /\ \A k \in DOMAIN FirstRings(n) : k \in DOMAIN keyrings /\ FirstRings(n)[k] = keyrings[k]
<1> DEFINE to == IF n <= Len(keyrings) THEN n ELSE Len(keyrings)
<1>1. keyrings \in Seq(Rings) /\ Len(keyrings) \in Nat /\ DOMAIN keyrings = 1 .. Len(keyrings)
  BY DEF WellFormed
<1>2. to \in Nat /\ to <= Len(keyrings) /\ FirstRings(n) = SubSeq(keyrings, 1, to)
  BY <1>1 DEF FirstRings
<1> HIDE DEF to
<1>3. /\ FirstRings(n) \in Seq(Rings) /\ Len(FirstRings(n)) = to /\ DOMAIN FirstRings(n) = 1 .. to
      /\ \A k \in 1 .. to : FirstRings(n)[k] = keyrings[k]
  BY <1>1, <1>2
<1>4. n = Len(keyrings) => FirstRings(n) = keyrings
  BY <1>1, <1>3 DEF to
<1>5. \A k \in DOMAIN FirstRings(n) : k \in DOMAIN keyrings /\ FirstRings(n)[k] = keyrings[k]
  BY <1>1, <1>2, <1>3
<1>6. WellFormed(FirstRings(n))
  BY <1>3, <1>5 DEF WellFormed
<1> QED  BY <1>4, <1>5, <1>6

-----------------------------------------------------------------------------
(* The inductive invariant of KeyTome.                                     *)

MergeRec == [pc : {"idle", "match", "store", "sort", "done"}, src : Seq(Rings), i : Nat,
             room : Nat, problems : Seq(Rings)]

RingTypes ==
    /\ WellFormed(keyrings) /\ WellFormed(saved.keyrings)
    /\ saved \in [keyrings : Seq(Rings), sortedByName : BOOLEAN, mixed : BOOLEAN, merging : BOOLEAN]
    /\ merge \in [Mergers -> MergeRec]
    /\ \A m \in Mergers : WellFormed(merge[m].src) /\ WellFormed(merge[m].problems)
OtherTypes ==
    /\ sortedByName \in BOOLEAN /\ loaded \in BOOLEAN /\ mixed \in BOOLEAN /\ raced \in BOOLEAN
    /\ rev \in 1 .. MaxMerges + 1 /\ given \subseteq RingNames \X Entries

TomeTypes == RingTypes /\ OtherTypes

\* Where a merge is in its source.
Placed(mg) ==
    /\ mg.pc \in {"match", "store"} => mg.i \in 1 .. Len(mg.src) + 1
    /\ mg.pc = "store" => mg.i = Len(mg.src) + 1
    /\ mg.pc \in {"idle", "done"} => mg.problems = <<>>

\* A key against which the tome has one.
Clashes(h) == \E g \in Held(keyrings) :
    g[1] = h[1] /\ g[2].pub = h[2].pub /\ (g # h \/ h[2].pub \in ShortPubs)

\* In every step of a merge that no other overlaps the keys are accounted for,
\* and the rings it stores follow those of the tome.
Conserved(mg) ==
    /\ mg.pc # "idle" => Held(keyrings) \cup Held(mg.src) \cup Held(mg.problems) = given
    /\ mg.pc = "sort" => Held(mg.src) \subseteq Held(keyrings)
    /\ mg.pc = "store" => mg.room = Len(keyrings)
Reasons(mg) ==
    /\ \A h \in Held(mg.problems) : Clashes(h)
    /\ mg.pc = "done" => \A h \in Held(mg.src) : Clashes(h)

\* The rings of the source up to i are new to the tome, and differ in name.
Fits(mg) == mg.pc \in {"match", "store"} =>
    /\ Distinct(mg.src)
    /\ \A j \in 1 .. mg.i - 1 : \A k \in DOMAIN keyrings : mg.src[j].name # keyrings[k].name

\* The rings are to be sorted.
Unsorted(mg) == mg.pc = "sort" /\ mg.src # <<>>

Apart ==
    /\ raced => mixed
    /\ ~raced => \A m, n \in Mergers : Under(m) /\ Under(n) => m = n

Merges ==
    \A m \in Mergers :
        /\ Placed(merge[m])
        /\ ~raced /\ Under(m) => Conserved(merge[m]) /\ Reasons(merge[m])
        /\ ~mixed => Fits(merge[m])

\* The rings are in order, but between the last two steps of a merge.
Ordered ==
    /\ ~mixed => Distinct(keyrings)
    /\ ~mixed /\ (\A m \in Mergers : ~Unsorted(merge[m])) => Ascending(keyrings)
    /\ ~saved.mixed /\ ~saved.merging => Ascending(saved.keyrings)

\* What was loaded into a new manager is what was saved.
Loads == loaded => ~Merging /\ (~mixed => keyrings = saved.keyrings)

TomeInv == TomeTypes /\ Apart /\ Merges /\ Ordered /\ Loads

-----------------------------------------------------------------------------
(* The steps of KeyTome.                                                   *)

LEMMA HeldType ==
    ASSUME NEW rings \in Seq(Rings)
    PROVE  Held(rings) \subseteq RingNames \X Entries
<1>1. \A k \in DOMAIN rings : rings[k].name \in RingNames /\ rings[k].keys \in SUBSET Entries
  <2>1. \A r \in Rings : r.name \in RingNames /\ r.keys \in SUBSET Entries
    BY DEF Rings
  <2> QED  BY <2>1, SeqOfRings
<1> QED  BY <1>1, HeldIn

LEMMA NoRings == WellFormed(<<>>) /\ Held(<<>>) = {} /\ Ascending(<<>>) /\ Distinct(<<>>)
BY DEF WellFormed, Held, Ascending, Distinct

LEMMA AscendingIsDistinct ==
    ASSUME NEW rings \in Seq(Rings), Ascending(rings)
    PROVE  Distinct(rings)
<1>1. /\ DOMAIN rings \subseteq Int /\ \A k \in DOMAIN rings : rings[k].name \in Int
  BY SeqOfRings
<1> QED  BY <1>1 DEF Ascending, Distinct

LEMMA OptimizedIsWellFormed ==
    ASSUME NEW rings, WellFormed(rings)
    PROVE  WellFormed(Optimized(rings)) /\ Held(Optimized(rings)) = Held(rings)
BY OptimizedSorts DEF WellFormed

\* Without a merge nothing is promised of one.
LEMMA NoMerge ==
    /\ Idle \in MergeRec /\ Idle.pc = "idle" /\ WellFormed(Idle.src) /\ WellFormed(Idle.problems)
    /\ Placed(Idle) /\ Fits(Idle) /\ ~Unsorted(Idle)
<1>1. <<>> \in Seq(Rings)
  OBVIOUS
<1> QED  BY <1>1, NoRings DEF Idle, MergeRec, Placed, Fits, Unsorted

LEMMA TomeInitInv == TomeInit => TomeInv
<1> SUFFICES ASSUME TomeInit PROVE TomeInv
  OBVIOUS
<1>1. WellFormed(<<>>) /\ <<>> \in Seq(Rings)
  BY NoRings DEF WellFormed
<1>2. TomeTypes
  <2>1. RingTypes
    BY <1>1, NoMerge DEF TomeInit, RingTypes
  <2>2. rev \in 1 .. MaxMerges + 1
    BY TomeAssumption DEF TomeInit
  <2> QED  BY <2>1, <2>2 DEF TomeInit, OtherTypes, TomeTypes
<1>3. \A m \in Mergers : merge[m] = Idle /\ ~Under(m)
  BY NoMerge DEF TomeInit, Under
<1>4. Apart /\ Merges /\ Ordered /\ Loads
  BY <1>3, NoRings, NoMerge DEF TomeInit, Apart, Merges, Ordered, Loads
<1> QED  BY <1>2, <1>4 DEF TomeInv

\* A step of one merge: what becomes of it, if all others are idle or merges have
\* overlapped.
LEMMA MergeFrame ==
    ASSUME TomeInv, NEW m \in Mergers, NEW mg \in MergeRec, Becomes(m, mg),
           WellFormed(mg.src), WellFormed(mg.problems), Placed(mg),
           WellFormed(keyrings'), OtherTypes', saved' = saved, ~loaded',
           raced => raced', mixed => mixed', raced' => mixed',
           ~raced' => \A n \in Mergers \ {m} : ~Under(n),
           ~raced' /\ mg.pc # "idle" => Conserved(mg)' /\ Reasons(mg)',
           ~mixed' => Fits(mg)' /\ Distinct(keyrings'),
           ~mixed' /\ ~Unsorted(mg) => Ascending(keyrings')
    PROVE  TomeInv'
<1>1. /\ merge \in [Mergers -> MergeRec] /\ merge' \in [Mergers -> MergeRec]
      /\ merge'[m] = mg /\ \A n \in Mergers \ {m} : merge'[n] = merge[n]
  BY DEF Becomes, TomeInv, TomeTypes, RingTypes
<1>2. TomeTypes'
  <2>1. \A n \in Mergers : WellFormed(merge'[n].src) /\ WellFormed(merge'[n].problems)
    BY <1>1 DEF TomeInv, TomeTypes, RingTypes
  <2>2. RingTypes'
    BY <1>1, <2>1 DEF TomeInv, TomeTypes, RingTypes
  <2> QED  BY <2>2 DEF TomeTypes
<1>3. ~raced' => \A n \in Mergers : n # m => merge'[n].pc = "idle"
  BY <1>1 DEF Under
<1>4. Apart'
  BY <1>3 DEF Apart, Under
<1>5. Merges'
  <2> SUFFICES ASSUME NEW n \in Mergers
               PROVE  /\ Placed(merge[n])'
                      /\ ~raced' /\ Under(n)' => Conserved(merge[n])' /\ Reasons(merge[n])'
                      /\ ~mixed' => Fits(merge[n])'
    BY DEF Merges
  <2>1. CASE n = m
    <3>1. Placed(merge[n])'
      BY <1>1, <2>1 DEF Placed
    <3>2. ~raced' /\ Under(n)' => Conserved(merge[n])'
      BY <1>1, <2>1 DEF Under, Conserved
    <3>3. ~raced' /\ Under(n)' => Reasons(merge[n])'
      BY <1>1, <2>1 DEF Under, Reasons, Clashes
    <3>4. ~mixed' => Fits(merge[n])'
      BY <1>1, <2>1 DEF Fits
    <3> QED  BY <3>1, <3>2, <3>3, <3>4
  <2>2. CASE n # m
    <3>1. Placed(merge[n])'
      BY <1>1, <2>2 DEF TomeInv, Merges, Placed
    <3>2. ~raced' => merge'[n].pc = "idle"
      BY <1>3, <2>2
    <3>3. ~mixed' => Fits(merge[n])'
      BY <3>2 DEF Fits
    <3> QED  BY <3>1, <3>2, <3>3 DEF Under
  <2> QED  BY <2>1, <2>2
<1>6. Ordered'
  <2>1. ~mixed' /\ (\A n \in Mergers : ~Unsorted(merge[n])') => Ascending(keyrings')
    <3>1. Unsorted(merge[m])' <=> Unsorted(mg)
      BY <1>1 DEF Unsorted
    <3> QED  BY <3>1
  <2> QED  BY <2>1 DEF TomeInv, Ordered
<1> QED  BY <1>2, <1>4, <1>5, <1>6 DEF TomeInv, Loads

\* What the invariant says of a merge that is under way.
MergeFacts(m, old) ==
    /\ old \in MergeRec /\ merge[m] = old /\ WellFormed(old.src) /\ WellFormed(old.problems)
    /\ old.src \in Seq(Rings) /\ old.problems \in Seq(Rings)
    /\ Placed(old) /\ WellFormed(keyrings) /\ keyrings \in Seq(Rings)
    /\ sortedByName \in BOOLEAN /\ raced \in BOOLEAN /\ mixed \in BOOLEAN
MergeHolds(m, old) ==
    /\ ~raced => Conserved(old) /\ Reasons(old) /\ \A n \in Mergers \ {m} : ~Under(n)
    /\ raced => mixed
    /\ ~mixed => Fits(old) /\ Distinct(keyrings)
    /\ ~mixed /\ ~Unsorted(old) => Ascending(keyrings)
    /\ ~loaded

LEMMA UnderWay ==
    ASSUME TomeInv, NEW m \in Mergers, merge[m].pc # "idle", NEW old, old = merge[m]
    PROVE  MergeFacts(m, old) /\ MergeHolds(m, old)
<1>1. merge[m] \in MergeRec /\ WellFormed(merge[m].src) /\ WellFormed(merge[m].problems)
  BY DEF TomeInv, TomeTypes, RingTypes
<1>2. MergeFacts(m, old)
  BY <1>1, Zenon DEF TomeInv, TomeTypes, RingTypes, OtherTypes, WellFormed, Merges, MergeFacts
<1>3. Under(m) /\ Merging
  BY DEF Under, Merging
<1>4. ~raced => \A n \in Mergers \ {m} : ~Under(n)
  BY <1>3 DEF TomeInv, Apart
<1>5. ~raced => Conserved(old) /\ Reasons(old)
  BY <1>3, Zenon DEF TomeInv, Merges
<1>6. raced => mixed
  BY DEF TomeInv, Apart
<1>7. ~mixed => Fits(old) /\ Distinct(keyrings)
  BY Zenon DEF TomeInv, Merges, Ordered
<1>8. ~mixed /\ ~Unsorted(old) => Ascending(keyrings)
  <2>1. \A n \in Mergers : ~Under(n) => ~Unsorted(merge[n])
    BY DEF Under, Unsorted
  <2> QED  BY <1>4, <1>6, <2>1 DEF TomeInv, Ordered
<1>9. ~loaded
  BY <1>3 DEF TomeInv, Loads
<1> QED  BY <1>2, <1>4, <1>5, <1>6, <1>7, <1>8, <1>9, Zenon DEF MergeHolds

\* A merge begins: the tome is sorted if it has to be, and holds what it held.
LEMMA BeginStep == ASSUME TomeInv, NEW m \in Mergers, MergeBegin(m) PROVE TomeInv'
<1>1. PICK src \in Sources :
          /\ Becomes(m, [Idle EXCEPT !.pc = "match", !.src = src])
          /\ given' = Held(keyrings) \cup Held(src)
          /\ mixed' = (mixed \/ Merging \/ ~Distinct(src))
  BY DEF MergeBegin
<1>2. WellFormed(src) /\ src \in Seq(Rings) /\ Len(src) \in Nat
  BY TomeAssumption DEF WellFormed
<1>3. PICK mg : mg = [Idle EXCEPT !.pc = "match", !.src = src]
  OBVIOUS
<1>4. /\ mg.pc = "match" /\ mg.src = src /\ mg.i = 1 /\ mg.problems = <<>>
      /\ mg = [pc |-> "match", src |-> src, i |-> 1, room |-> 0, problems |-> <<>>]
  BY <1>3 DEF Idle
<1>5. mg \in MergeRec /\ WellFormed(mg.problems) /\ Placed(mg) /\ ~Unsorted(mg)
  <2>1. <<>> \in Seq(Rings)
    OBVIOUS
  <2> QED  BY <1>2, <1>4, <2>1, NoRings DEF MergeRec, Placed, Unsorted
<1>6. /\ WellFormed(keyrings) /\ keyrings \in Seq(Rings) /\ ~Under(m) /\ rev <= MaxMerges
      /\ saved' = saved /\ raced' = (raced \/ Merging) /\ sortedByName' = TRUE
      /\ loaded' = FALSE /\ rev' = rev + 1
      /\ keyrings' = keyrings \/ keyrings' = Optimized(keyrings)
  BY DEF MergeBegin, TomeInv, TomeTypes, RingTypes, WellFormed
<1>7. WellFormed(keyrings') /\ Held(keyrings') = Held(keyrings)
  BY <1>6, OptimizedIsWellFormed
<1>8. ~Merging => \A n \in Mergers : ~Under(n) /\ ~Unsorted(merge[n])
  BY DEF Merging, Under, Unsorted
<1>9. ~mixed' => Ascending(keyrings') /\ Distinct(keyrings')
  <2>1. ~mixed' => Ascending(keyrings) /\ Distinct(keyrings)
    BY <1>1, <1>8, Zenon DEF TomeInv, Ordered
  <2>2. ~mixed' => Ascending(keyrings')
    BY <1>6, <2>1, OptimizedSorts
  <2>3. keyrings' \in Seq(Rings)
    BY <1>7 DEF WellFormed
  <2> QED  BY <2>2, <2>3, AscendingIsDistinct
<1>10. OtherTypes'
  <2>1. given' \subseteq RingNames \X Entries
    BY <1>1, <1>2, <1>6, HeldType
  <2>2. rev' \in 1 .. MaxMerges + 1
    BY <1>6, TomeAssumption DEF TomeInv, TomeTypes, OtherTypes
  <2>3. raced' \in BOOLEAN /\ mixed' \in BOOLEAN
    BY <1>1, <1>6, Zenon DEF TomeInv, TomeTypes, OtherTypes
  <2> QED  BY <1>6, <2>1, <2>2, <2>3, Zenon DEF OtherTypes
<1>11. (raced => raced') /\ (mixed => mixed') /\ (raced' => mixed') /\ ~loaded'
  BY <1>1, <1>6, Zenon DEF TomeInv, Apart
<1>12. ~raced' => \A n \in Mergers \ {m} : ~Under(n)
  BY <1>6, <1>8
<1>13. Conserved(mg)' /\ Reasons(mg)'
  BY <1>1, <1>4, <1>7, NoRings DEF Conserved, Reasons
<1>14. ~mixed' => Fits(mg)'
  <2>1. ~mixed' => Distinct(mg.src)
    BY <1>1, <1>4, Zenon
  <2>2. 1 .. mg.i - 1 = {}
    BY <1>4
  <2> QED  BY <2>1, <2>2, Zenon DEF Fits
<1>15. Becomes(m, mg)
  BY <1>1, <1>3
<1> QED
  BY <1>2, <1>4, <1>5, <1>6, <1>7, <1>9, <1>10, <1>11, <1>12, <1>13, <1>14, <1>15, MergeFrame, Zenon

\* The frame of a step within a merge.
LEMMA StepFrame ==
    ASSUME TomeInv, NEW m \in Mergers, merge[m].pc # "idle", NEW mg \in MergeRec, Becomes(m, mg),
           UNCHANGED <<sortedByName, rev, given, saved, loaded, raced, mixed>>,
           WellFormed(mg.src), WellFormed(mg.problems), Placed(mg), WellFormed(keyrings'),
           ~raced => Conserved(mg)' /\ Reasons(mg)',
           ~mixed => Fits(mg)' /\ Distinct(keyrings'),
           ~mixed /\ ~Unsorted(mg) => Ascending(keyrings')
    PROVE  TomeInv'
<1>1. PICK old : old = merge[m]
  OBVIOUS
<1>2. MergeHolds(m, old)
  BY <1>1, UnderWay
<1>3. OtherTypes'
  BY DEF TomeInv, TomeTypes, OtherTypes
<1>4. /\ (raced' <=> raced) /\ (mixed' <=> mixed) /\ saved' = saved /\ ~loaded' /\ (raced' => mixed')
      /\ ~raced' => \A n \in Mergers \ {m} : ~Under(n)
  BY <1>2 DEF MergeHolds
<1>5. (raced => raced') /\ (mixed => mixed')
  BY <1>4, Zenon
<1>6. ~raced' /\ mg.pc # "idle" => Conserved(mg)' /\ Reasons(mg)'
  BY <1>4, Zenon
<1>7. /\ ~mixed' => Fits(mg)' /\ Distinct(keyrings')
      /\ ~mixed' /\ ~Unsorted(mg) => Ascending(keyrings')
  BY <1>4, Zenon
<1> QED  BY <1>3, <1>4, <1>5, <1>6, <1>7, MergeFrame, Zenon

\* A ring of the source that is new to the tome stays where it is.
LEMMA MatchNewStep ==
    ASSUME TomeInv, NEW m \in Mergers, MergeMatch(m),
           FetchKeyring(keyrings, sortedByName, merge[m].src[merge[m].i].name) = None
    PROVE  TomeInv'
<1>1. PICK old : old = merge[m]
  OBVIOUS
<1>2. PICK ring : ring = old.src[old.i]
  OBVIOUS
<1>3. PICK mg : mg = MatchNew(old, ring)
  OBVIOUS
<1>4. old.pc = "match" /\ old.i <= Len(old.src)
  BY <1>1 DEF MergeMatch
<1>5. MergeFacts(m, old) /\ MergeHolds(m, old)
  BY <1>1, <1>4, UnderWay
<1>6. /\ old \in MergeRec /\ WellFormed(old.src) /\ WellFormed(old.problems) /\ old.src \in Seq(Rings)
      /\ WellFormed(keyrings) /\ keyrings \in Seq(Rings) /\ sortedByName \in BOOLEAN
  BY <1>5, Zenon DEF MergeFacts
<1>7. old.i \in 1 .. Len(old.src) /\ old.i \in DOMAIN old.src /\ IsRing(ring)
  <2>1. Placed(old)
    BY <1>5, Zenon DEF MergeFacts
  <2> QED  BY <1>2, <1>4, <1>6, <2>1 DEF Placed, WellFormed
<1>8. /\ Becomes(m, mg) /\ keyrings' = keyrings
      /\ UNCHANGED <<sortedByName, rev, given, saved, loaded, raced, mixed>>
  BY <1>1, <1>2, <1>3 DEF MergeMatch
<1>9. PICK new : new = OptimizedRing(ring)
  OBVIOUS
<1>10. /\ mg.pc = "match" /\ mg.problems = old.problems /\ mg.i = old.i + 1 /\ mg.room = old.room
       /\ mg.src = [old.src EXCEPT ![old.i] = new]
       /\ mg = [pc |-> "match", src |-> mg.src, i |-> old.i + 1, room |-> old.room,
                problems |-> old.problems]
  BY <1>3, <1>4, <1>6, <1>9 DEF MatchNew, MergeRec
<1>11. IsRing(new) /\ new.name = ring.name /\ HeldBy(new) = HeldBy(ring)
  BY <1>7, <1>9, OptimizedRingIsRing DEF IsRing, Rings, HeldBy
<1>12. /\ WellFormed(mg.src) /\ DOMAIN mg.src = DOMAIN old.src /\ Len(mg.src) = Len(old.src)
       /\ \A k \in DOMAIN old.src : mg.src[k].name = old.src[k].name
       /\ Held(mg.src) = Held(old.src)
  <2>1. \A h : h \in Held(mg.src) <=> h \in Held(old.src)
    BY <1>2, <1>6, <1>7, <1>10, <1>11, HeldReplaced, HeldByRings, SMTT(60)
  <2> QED  BY <1>2, <1>6, <1>7, <1>10, <1>11, <2>1, HeldReplaced
<1>13. mg \in MergeRec
  <2>1. mg.src \in Seq(Rings) /\ old.i + 1 \in Nat
    BY <1>7, <1>12 DEF WellFormed
  <2> QED  BY <1>6, <1>10, <2>1 DEF MergeRec
<1>14. Placed(mg) /\ ~Unsorted(mg)
  BY <1>6, <1>7, <1>10, <1>12 DEF Placed, Unsorted
<1>15. ~raced => Conserved(mg)' /\ Reasons(mg)'
  <2>1. ~raced => Conserved(mg)'
    BY <1>4, <1>5, <1>8, <1>10, <1>12 DEF MergeHolds, Conserved
  <2>2. ~raced => Reasons(mg)'
    BY <1>5, <1>8, <1>10 DEF MergeHolds, Reasons, Clashes
  <2> QED  BY <2>1, <2>2
<1>16. ~Unsorted(old)
  BY <1>4 DEF Unsorted
<1>17. ~mixed => Distinct(keyrings') /\ Ascending(keyrings')
  BY <1>5, <1>8, <1>16 DEF MergeHolds
<1>18. ~mixed => Fits(mg)'
  <2>1. ~mixed => Distinct(mg.src)
    BY <1>4, <1>5, <1>12 DEF MergeHolds, Fits, Distinct
  <2>2. ~mixed => \A k \in DOMAIN keyrings : ring.name # keyrings[k].name
    <3>1. ~mixed => Ascending(keyrings)
      BY <1>8, <1>17
    <3>2. PICK name : name = ring.name
      OBVIOUS
    <3>3. FetchKeyring(keyrings, sortedByName, name) = None
      BY <1>1, <1>2, <3>2
    <3>4. ~mixed => \A k \in DOMAIN keyrings : keyrings[k].name # name
      BY <1>6, <3>1, <3>3, NotFetched, SMTT(60)
    <3> QED  BY <3>2, <3>4
  <2>3. ~mixed => \A j \in 1 .. old.i : \A k \in DOMAIN keyrings : mg.src[j].name # keyrings[k].name
    <3>1. \A j \in 1 .. old.i : j \in DOMAIN old.src /\ (j = old.i \/ j \in 1 .. old.i - 1)
      BY <1>6, <1>7
    <3>2. ~mixed => \A j \in 1 .. old.i - 1 : \A k \in DOMAIN keyrings :
              old.src[j].name # keyrings[k].name
      BY <1>4, <1>5 DEF MergeHolds, Fits
    <3> QED  BY <1>2, <1>12, <2>2, <3>1, <3>2, SMTT(60)
  <2>4. mg.i - 1 = old.i
    BY <1>7, <1>10
  <2> QED  BY <1>8, <2>1, <2>3, <2>4 DEF Fits
<1>19. WellFormed(mg.problems) /\ WellFormed(keyrings') /\ merge[m].pc # "idle"
  BY <1>1, <1>4, <1>6, <1>8, <1>10
<1> QED  BY <1>8, <1>12, <1>13, <1>14, <1>15, <1>17, <1>18, <1>19, StepFrame, Zenon

\* A ring that the tome has takes over the keys it does not have; the source gives
\* up its ring, and what clashes is kept for the caller.
LEMMA MatchKnownStep ==
    ASSUME TomeInv, NEW m \in Mergers, MergeMatch(m),
           FetchKeyring(keyrings, sortedByName, merge[m].src[merge[m].i].name) # None
    PROVE  TomeInv'
<1>1. PICK old : old = merge[m]
  OBVIOUS
<1>2. PICK src : src = old.src[old.i]
  OBVIOUS
<1>3. PICK at : at = FetchKeyring(keyrings, sortedByName, src.name)
  OBVIOUS
<1>4. PICK ring : ring = keyrings[at]
  OBVIOUS
<1>5. PICK merged : merged = MergeKeys(ring, src)
  OBVIOUS
<1>6. PICK left : left = Problems(ring, src)
  OBVIOUS
<1>7. PICK problem : problem = OptimizedRing(Ring(src.name, left, None))
  OBVIOUS
<1>8. PICK mg : mg = MatchKnown(old, src, left)
  OBVIOUS
<1>9. old.pc = "match" /\ old.i <= Len(old.src) /\ at # None
  BY <1>1, <1>2, <1>3 DEF MergeMatch
<1>10. MergeFacts(m, old) /\ MergeHolds(m, old)
  BY <1>1, <1>9, UnderWay
<1>11. /\ old \in MergeRec /\ WellFormed(old.src) /\ WellFormed(old.problems) /\ old.src \in Seq(Rings)
       /\ WellFormed(keyrings) /\ keyrings \in Seq(Rings) /\ sortedByName \in BOOLEAN
  BY <1>10, Zenon DEF MergeFacts
<1>12. old.i \in 1 .. Len(old.src) /\ old.i \in DOMAIN old.src /\ IsRing(src)
  <2>1. Placed(old)
    BY <1>10, Zenon DEF MergeFacts
  <2> QED  BY <1>2, <1>9, <1>11, <2>1 DEF Placed, WellFormed
<1>13. /\ keyrings' = [keyrings EXCEPT ![at] = merged] /\ Becomes(m, mg)
       /\ UNCHANGED <<sortedByName, rev, given, saved, loaded, raced, mixed>>
  <2>1. /\ Becomes(m, MatchKnown(old, src, Problems(keyrings[at], src)))
        /\ keyrings' = [keyrings EXCEPT ![at] = MergeKeys(@, src)]
    BY <1>1, <1>2, <1>3, <1>9 DEF MergeMatch
  <2>2. UNCHANGED <<sortedByName, rev, given, saved, loaded, raced, mixed>>
    BY DEF MergeMatch
  <2> QED  BY <1>4, <1>5, <1>6, <1>8, <2>1, <2>2
<1>14. at \in DOMAIN keyrings /\ ring.name = src.name /\ IsRing(ring)
  BY <1>3, <1>4, <1>9, <1>11, FetchKeyringIs, SMTT(60) DEF WellFormed
<1>15. /\ IsRing(merged) /\ merged.name = src.name /\ merged.keys = ring.keys \cup Fresh(ring, src)
       /\ left \in SUBSET src.keys /\ left \in SUBSET Entries /\ src.name \in RingNames
       /\ ring.keys \cup src.keys = merged.keys \cup left
       /\ \A e \in left : \E g \in ring.keys : g.pub = e.pub /\ (g # e \/ e.pub \in ShortPubs)
  <2>1. RingMerged(ring, src, merged, left)
    BY <1>5, <1>6, <1>12, <1>14, MergeKeysMerges, Zenon
  <2> QED  BY <2>1, Zenon DEF RingMerged
<1>16. IsRing(problem) /\ HeldBy(problem) = {<<src.name, e>> : e \in left}
  <2>1. PICK r : r = Ring(src.name, left, None)
    OBVIOUS
  <2>2. r.name = src.name /\ r.keys = left
    BY <2>1 DEF Ring
  <2>3. IsRing(OptimizedRing(r)) /\ OptimizedRing(r).name = src.name /\ OptimizedRing(r).keys = left
    BY <1>15, <2>2, OptimizedRingIsRing
  <2>4. problem = OptimizedRing(r)
    BY <1>7, <2>1, Zenon
  <2> QED  BY <2>3, <2>4, Zenon DEF HeldBy
<1>17. /\ WellFormed(keyrings') /\ DOMAIN keyrings' = DOMAIN keyrings
       /\ \A k \in DOMAIN keyrings : keyrings'[k].name = keyrings[k].name
       /\ \A h : h \in Held(keyrings') <=> h \in Held(keyrings) \/ h \in HeldBy(merged)
  <2>1. \A h : h \in HeldBy(ring) => h \in HeldBy(merged)
    BY <1>14, <1>15 DEF HeldBy
  <2>2. /\ WellFormed(keyrings') /\ DOMAIN keyrings' = DOMAIN keyrings /\ keyrings'[at] = merged
        /\ \A k \in DOMAIN keyrings : k # at => keyrings'[k] = keyrings[k]
        /\ \A h : h \in Held(keyrings') <=>
               h \in HeldBy(merged) \/ \E k \in DOMAIN keyrings : k # at /\ h \in HeldBy(keyrings[k])
    BY <1>11, <1>13, <1>14, <1>15, HeldReplaced, Zenon
  <2>3. \A h : h \in Held(keyrings) <=> \E k \in DOMAIN keyrings : h \in HeldBy(keyrings[k])
    BY HeldByRings
  <2>4. \A h : h \in Held(keyrings') <=> h \in Held(keyrings) \/ h \in HeldBy(merged)
    BY <1>4, <1>14, <2>1, <2>2, <2>3
  <2>5. \A k \in DOMAIN keyrings : keyrings'[k].name = keyrings[k].name
    BY <1>4, <1>14, <1>15, <2>2
  <2> QED  BY <2>2, <2>4, <2>5
<1>18. /\ mg = [pc |-> "match", src |-> mg.src, i |-> old.i, room |-> old.room, problems |-> mg.problems]
       /\ mg.pc = "match" /\ mg.i = old.i /\ mg.src = WithoutCurrent(old)
       /\ mg.problems = IF left = {} THEN old.problems ELSE Append(old.problems, problem)
  BY <1>7, <1>8, <1>9, <1>11 DEF MatchKnown, MergeRec
<1>19. /\ WellFormed(mg.problems)
       /\ \A h : h \in Held(mg.problems) <=>
              h \in Held(old.problems) \/ \E e \in left : h = <<src.name, e>>
  BY <1>11, <1>16, <1>18, HeldAppend
<1>20. /\ WellFormed(mg.src) /\ Len(mg.src) = Len(old.src) - 1
       /\ \A j \in 1 .. Len(old.src) - 1 :
              mg.src[j] = old.src[IF j = old.i THEN Len(old.src) ELSE j]
       /\ Held(old.src) = Held(mg.src) \cup HeldBy(src)
  BY <1>2, <1>11, <1>12, <1>18, HeldWithoutCurrent
<1>21. mg \in MergeRec
  <2>1. mg.src \in Seq(Rings) /\ mg.problems \in Seq(Rings)
    BY <1>19, <1>20 DEF WellFormed
  <2>2. old.i \in Nat /\ old.room \in Nat
    BY <1>11 DEF MergeRec
  <2>3. PICK q : q = mg.src
    OBVIOUS
  <2>4. PICK r : r = mg.problems
    OBVIOUS
  <2>5. mg = [pc |-> "match", src |-> q, i |-> old.i, room |-> old.room, problems |-> r]
    BY <1>18, <2>3, <2>4, Zenon
  <2>6. q \in Seq(Rings) /\ r \in Seq(Rings)
    BY <2>1, <2>3, <2>4, Zenon
  <2> QED  BY <2>2, <2>5, <2>6 DEF MergeRec
<1>22. Len(old.src) \in Nat /\ DOMAIN old.src = 1 .. Len(old.src)
       /\ DOMAIN mg.src = 1 .. Len(old.src) - 1
  BY <1>11, <1>20 DEF WellFormed
<1>23. Placed(mg) /\ ~Unsorted(mg)
  BY <1>12, <1>18, <1>20, <1>22 DEF Placed, Unsorted
<1>24. ~raced => Conserved(mg)'
  <2>1. \A h : h \in HeldBy(src) => h \in HeldBy(merged) \/ \E e \in left : h = <<src.name, e>>
    BY <1>15 DEF HeldBy
  <2>2. \A h : h \in HeldBy(merged) => h \in Held(keyrings) \/ h \in HeldBy(src)
    <3>1. \A e \in merged.keys : e \in ring.keys \/ e \in src.keys
      BY <1>15
    <3>2. \A h : h \in HeldBy(ring) => h \in Held(keyrings)
      BY <1>4, <1>14, HeldByRings
    <3> QED  BY <1>14, <1>15, <3>1, <3>2 DEF HeldBy
  <2>3. \A e \in left : <<src.name, e>> \in HeldBy(src)
    BY <1>15 DEF HeldBy
  <2>4. ~raced => Held(keyrings) \cup Held(old.src) \cup Held(old.problems) = given
    BY <1>9, <1>10 DEF MergeHolds, Conserved
  <2>5. ~raced => \A h : h \in Held(keyrings') \cup Held(mg.src) \cup Held(mg.problems) <=> h \in given
    BY <1>17, <1>19, <1>20, <2>1, <2>2, <2>3, <2>4
  <2>6. ~raced => Held(keyrings') \cup Held(mg.src) \cup Held(mg.problems) = given'
    BY <1>13, <2>5
  <2> QED  BY <1>18, <2>6 DEF Conserved
<1>25. ~raced => Reasons(mg)'
  <2>1. ~raced => \A h \in Held(old.problems) : Clashes(h)'
    BY <1>10, <1>17 DEF MergeHolds, Reasons, Clashes
  <2>2. ASSUME NEW e \in left, NEW h, h = <<src.name, e>> PROVE Clashes(h)'
    <3>1. PICK g \in ring.keys : g.pub = e.pub /\ (g # e \/ e.pub \in ShortPubs)
      BY <1>15
    <3>2. <<src.name, g>> \in Held(keyrings')
      BY <1>4, <1>14, <1>17, HeldIn
    <3> QED  BY <2>2, <3>1, <3>2 DEF Clashes
  <2> QED  BY <1>18, <1>19, <2>1, <2>2 DEF Reasons
<1>26. ~mixed => Fits(mg)'
  <2>1. ~mixed => Distinct(mg.src)
    <3> DEFINE from(j) == IF j = old.i THEN Len(old.src) ELSE j
    <3> SUFFICES ASSUME ~mixed, NEW j \in 1 .. Len(old.src) - 1, NEW k \in 1 .. Len(old.src) - 1,
                        mg.src[j].name = mg.src[k].name
                 PROVE  j = k
      BY <1>22 DEF Distinct
    <3>1. from(j) \in DOMAIN old.src /\ from(k) \in DOMAIN old.src
      BY <1>12, <1>22, SMTT(60)
    <3>2. old.src[from(j)].name = old.src[from(k)].name
      BY <1>20
    <3>3. Distinct(old.src)
      BY <1>9, <1>10 DEF MergeHolds, Fits
    <3>4. from(j) = from(k)
      BY <3>1, <3>2, <3>3 DEF Distinct
    <3> QED  BY <1>22, <3>4
  <2>2. ~mixed => \A j \in 1 .. old.i - 1 : \A k \in DOMAIN keyrings :
            old.src[j].name # keyrings[k].name
    BY <1>9, <1>10 DEF MergeHolds, Fits
  <2>3. \A j \in 1 .. old.i - 1 : mg.src[j] = old.src[j]
    BY <1>12, <1>20, <1>22, SMTT(60)
  <2>4. ~mixed => \A j \in 1 .. mg.i - 1 : \A k \in DOMAIN keyrings' :
            mg.src[j].name # keyrings'[k].name
    BY <1>17, <1>18, <2>2, <2>3
  <2> QED  BY <2>1, <2>4 DEF Fits
<1>27. ~mixed => Distinct(keyrings') /\ Ascending(keyrings')
  <2>1. ~Unsorted(old)
    BY <1>9 DEF Unsorted
  <2>2. ~mixed => Distinct(keyrings) /\ Ascending(keyrings)
    BY <1>10, <2>1, Zenon DEF MergeHolds
  <2> QED  BY <1>17, <2>2 DEF Distinct, Ascending
<1>28. merge[m].pc # "idle"
  BY <1>1, <1>9
<1> QED
  BY <1>13, <1>17, <1>19, <1>20, <1>21, <1>23, <1>24, <1>25, <1>26, <1>27, <1>28, StepFrame, Zenon

\* The tome's slice is read.
LEMMA AppendStep == ASSUME TomeInv, NEW m \in Mergers, MergeAppend(m) PROVE TomeInv'
<1>1. PICK old : old = merge[m]
  OBVIOUS
<1>2. PICK mg : mg = [old EXCEPT !.pc = "store", !.room = Len(keyrings)]
  OBVIOUS
<1>3. old.pc = "match" /\ old.i > Len(old.src)
  BY <1>1 DEF MergeAppend
<1>4. MergeFacts(m, old) /\ MergeHolds(m, old)
  BY <1>1, <1>3, UnderWay
<1>5. /\ old \in MergeRec /\ WellFormed(old.src) /\ WellFormed(old.problems) /\ old.src \in Seq(Rings)
      /\ old.i \in 1 .. Len(old.src) + 1 /\ Len(old.src) \in Nat
      /\ WellFormed(keyrings) /\ Len(keyrings) \in Nat
  BY <1>3, <1>4 DEF MergeFacts, Placed
<1>6. /\ Becomes(m, mg) /\ keyrings' = keyrings
      /\ UNCHANGED <<sortedByName, rev, given, saved, loaded, raced, mixed>>
  BY <1>1, <1>2 DEF MergeAppend
<1>7. /\ mg.pc = "store" /\ mg.src = old.src /\ mg.problems = old.problems
      /\ mg.i = old.i /\ mg.room = Len(keyrings)
      /\ mg = [pc |-> "store", src |-> old.src, i |-> old.i, room |-> Len(keyrings),
               problems |-> old.problems]
  BY <1>2, <1>5 DEF MergeRec
<1>8. mg \in MergeRec
  BY <1>5, <1>7 DEF MergeRec
<1>9. Placed(mg) /\ ~Unsorted(mg) /\ ~Unsorted(old)
  BY <1>3, <1>5, <1>7 DEF Placed, Unsorted
<1>10. ~raced => Conserved(mg)'
  BY <1>3, <1>4, <1>6, <1>7 DEF MergeHolds, Conserved
<1>11. ~raced => Reasons(mg)'
  BY <1>4, <1>6, <1>7 DEF MergeHolds, Reasons, Clashes
<1>12. ~mixed => Fits(mg)'
  BY <1>3, <1>4, <1>6, <1>7 DEF MergeHolds, Fits
<1>13. ~mixed => Distinct(keyrings') /\ Ascending(keyrings')
  BY <1>4, <1>6, <1>9 DEF MergeHolds
<1>14. /\ WellFormed(mg.src) /\ WellFormed(mg.problems) /\ WellFormed(keyrings')
       /\ merge[m].pc # "idle"
  BY <1>1, <1>3, <1>5, <1>6, <1>7
<1> QED
  BY <1>6, <1>8, <1>9, <1>10, <1>11, <1>12, <1>13, <1>14, StepFrame, Zenon

\* What a concatenation of rings of different names has.
LEMMA DistinctConcat ==
    ASSUME NEW a, WellFormed(a), Distinct(a), NEW b, WellFormed(b), Distinct(b),
           \A l \in DOMAIN b : \A k \in DOMAIN a : b[l].name # a[k].name
    PROVE  Distinct(a \o b)
<1>1. /\ Len(a) \in Nat /\ Len(b) \in Nat /\ DOMAIN a = 1 .. Len(a) /\ DOMAIN b = 1 .. Len(b)
  BY DEF WellFormed
<1>2. PICK c : c = a \o b
  OBVIOUS
<1>3. /\ DOMAIN c = 1 .. Len(a) + Len(b)
      /\ \A k \in DOMAIN c : c[k] = IF k <= Len(a) THEN a[k] ELSE b[k - Len(a)]
  BY <1>2, HeldConcat
<1>4. ASSUME NEW j \in DOMAIN c, NEW k \in DOMAIN c, c[j].name = c[k].name PROVE j = k
  <2>1. CASE j <= Len(a) /\ k <= Len(a)
    BY <1>1, <1>3, <1>4, <2>1 DEF Distinct
  <2>2. CASE j > Len(a) /\ k > Len(a)
    <3>1. j - Len(a) \in DOMAIN b /\ k - Len(a) \in DOMAIN b
      BY <1>1, <1>3, <2>2, SMTT(60)
    <3>2. j - Len(a) = k - Len(a)
      BY <1>1, <1>3, <1>4, <2>2, <3>1, SMTT(60) DEF Distinct
    <3> QED  BY <1>1, <1>3, <3>2
  <2>3. CASE j <= Len(a) /\ k > Len(a)
    BY <1>1, <1>3, <1>4, <2>3, SMTT(60)
  <2>4. CASE j > Len(a) /\ k <= Len(a)
    <3>1. j - Len(a) \in DOMAIN b /\ k \in DOMAIN a
      BY <1>1, <1>3, <2>4, SMTT(60)
    <3>2. c[j] = b[j - Len(a)] /\ c[k] = a[k]
      BY <1>1, <1>3, <2>4
    <3> QED  BY <1>4, <3>1, <3>2
  <2> QED  BY <1>1, <1>3, <2>1, <2>2, <2>3, <2>4
<1> QED  BY <1>2, <1>4 DEF Distinct

\* The rings that are new are stored: their names are new if no merge overlaps.
LEMMA StoreStep == ASSUME TomeInv, NEW m \in Mergers, MergeStore(m) PROVE TomeInv'
<1>1. PICK old : old = merge[m]
  OBVIOUS
<1>2. PICK mg : mg = [old EXCEPT !.pc = "sort"]
  OBVIOUS
<1>3. old.pc = "store"
  BY <1>1 DEF MergeStore
<1>4. MergeFacts(m, old) /\ MergeHolds(m, old)
  BY <1>1, <1>3, UnderWay
<1>5. /\ old \in MergeRec /\ WellFormed(old.src) /\ WellFormed(old.problems) /\ old.src \in Seq(Rings)
      /\ old.i = Len(old.src) + 1 /\ Len(old.src) \in Nat /\ DOMAIN old.src = 1 .. Len(old.src)
      /\ old.room \in Nat /\ WellFormed(keyrings)
  BY <1>3, <1>4 DEF MergeFacts, Placed, MergeRec
<1>6. /\ Becomes(m, mg)
      /\ keyrings' = IF old.src = <<>> THEN keyrings ELSE FirstRings(old.room) \o old.src
      /\ UNCHANGED <<sortedByName, rev, given, saved, loaded, raced, mixed>>
  BY <1>1, <1>2 DEF MergeStore
<1>7. /\ mg.pc = "sort" /\ mg.src = old.src /\ mg.problems = old.problems
      /\ mg = [pc |-> "sort", src |-> old.src, i |-> old.i, room |-> old.room,
               problems |-> old.problems]
  BY <1>2, <1>5 DEF MergeRec
<1>8. mg \in MergeRec /\ Placed(mg) /\ (~Unsorted(mg) => old.src = <<>>)
  BY <1>5, <1>7 DEF MergeRec, Placed, Unsorted
<1>9. WellFormed(FirstRings(old.room)) /\ (old.room = Len(keyrings) => FirstRings(old.room) = keyrings)
  BY <1>5, FirstRingsAre
<1>10. WellFormed(keyrings')
  BY <1>5, <1>6, <1>9, HeldConcat
<1>11. ~raced => keyrings' = IF old.src = <<>> THEN keyrings ELSE keyrings \o old.src
  BY <1>3, <1>4, <1>6, <1>9 DEF MergeHolds, Conserved
<1>12. ~raced => Held(keyrings') = Held(keyrings) \cup Held(old.src)
  BY <1>5, <1>11, HeldConcat, NoRings
<1>13. ~raced => Conserved(mg)'
  BY <1>3, <1>4, <1>6, <1>7, <1>12 DEF MergeHolds, Conserved
<1>14. ~raced => Reasons(mg)'
  BY <1>4, <1>7, <1>12 DEF MergeHolds, Reasons, Clashes
<1>15. ~mixed => Fits(mg)'
  BY <1>7 DEF Fits
<1>16. ~mixed => Distinct(keyrings')
  <2> SUFFICES ASSUME ~mixed PROVE Distinct(keyrings')
    OBVIOUS
  <2>1. ~raced /\ Distinct(keyrings) /\ Fits(old)
    BY <1>4, Zenon DEF MergeHolds
  <2>2. Distinct(old.src) /\ \A l \in DOMAIN old.src : \A k \in DOMAIN keyrings :
            old.src[l].name # keyrings[k].name
    BY <1>3, <1>5, <2>1 DEF Fits
  <2>3. Distinct(keyrings \o old.src)
    BY <1>5, <2>1, <2>2, DistinctConcat
  <2> QED  BY <1>11, <2>1, <2>3
<1>17. ~mixed /\ ~Unsorted(mg) => Ascending(keyrings')
  BY <1>3, <1>4, <1>6, <1>8 DEF MergeHolds, Unsorted
<1>18. WellFormed(mg.src) /\ WellFormed(mg.problems) /\ merge[m].pc # "idle"
  BY <1>1, <1>3, <1>5, <1>7
<1> QED
  BY <1>6, <1>8, <1>10, <1>13, <1>14, <1>15, <1>16, <1>17, <1>18, StepFrame, Zenon

\* The tome is in order again, and the caller has the problems.
LEMMA SortStep == ASSUME TomeInv, NEW m \in Mergers, MergeSort(m) PROVE TomeInv'
<1>1. PICK old : old = merge[m]
  OBVIOUS
<1>2. PICK mg : mg = [old EXCEPT !.pc = "done", !.src = Optimized(old.problems), !.problems = <<>>]
  OBVIOUS
<1>3. old.pc = "sort"
  BY <1>1 DEF MergeSort
<1>4. MergeFacts(m, old) /\ MergeHolds(m, old)
  BY <1>1, <1>3, UnderWay
<1>5. /\ old \in MergeRec /\ WellFormed(old.problems) /\ old.problems \in Seq(Rings)
      /\ WellFormed(keyrings) /\ keyrings \in Seq(Rings)
  BY <1>4, Zenon DEF MergeFacts
<1>6. /\ Becomes(m, mg)
      /\ keyrings' = IF old.src = <<>> THEN keyrings ELSE Optimized(keyrings)
      /\ UNCHANGED <<sortedByName, rev, given, saved, loaded, raced, mixed>>
  BY <1>1, <1>2 DEF MergeSort, InOrder
<1>7. /\ mg.pc = "done" /\ mg.src = Optimized(old.problems) /\ mg.problems = <<>>
      /\ mg = [pc |-> "done", src |-> mg.src, i |-> old.i, room |-> old.room, problems |-> <<>>]
  BY <1>2, <1>5 DEF MergeRec
<1>8. WellFormed(mg.src) /\ Held(mg.src) = Held(old.problems)
  BY <1>5, <1>7, OptimizedIsWellFormed
<1>9. mg \in MergeRec /\ WellFormed(mg.problems) /\ Placed(mg) /\ ~Unsorted(mg)
  <2>1. <<>> \in Seq(Rings)
    OBVIOUS
  <2>2. old.i \in Nat /\ old.room \in Nat /\ mg.src \in Seq(Rings)
    BY <1>5, <1>8 DEF MergeRec, WellFormed
  <2>3. mg \in MergeRec
    <3>1. PICK q : q = mg.src
      OBVIOUS
    <3>2. mg = [pc |-> "done", src |-> q, i |-> old.i, room |-> old.room, problems |-> <<>>]
      BY <1>7, <3>1, Zenon
    <3>3. q \in Seq(Rings)
      BY <2>2, <3>1, Zenon
    <3> QED  BY <2>1, <2>2, <3>2, <3>3 DEF MergeRec
  <2> QED  BY <1>7, <2>3, NoRings DEF Placed, Unsorted
<1>10. WellFormed(keyrings') /\ Held(keyrings') = Held(keyrings)
  BY <1>5, <1>6, OptimizedIsWellFormed
<1>11. ~mixed => Ascending(keyrings')
  BY <1>4, <1>5, <1>6, OptimizedSorts DEF MergeHolds, Unsorted
<1>12. ~mixed => Distinct(keyrings')
  <2>1. keyrings' \in Seq(Rings)
    BY <1>10 DEF WellFormed
  <2> QED  BY <1>11, <2>1, AscendingIsDistinct
<1>13. ~raced => Conserved(mg)'
  BY <1>3, <1>4, <1>6, <1>7, <1>8, <1>10, NoRings DEF MergeHolds, Conserved
<1>14. ~raced => Reasons(mg)'
  BY <1>4, <1>7, <1>8, <1>10, NoRings DEF MergeHolds, Reasons, Clashes
<1>15. ~mixed => Fits(mg)'
  BY <1>7 DEF Fits
<1>16. merge[m].pc # "idle"
  BY <1>1, <1>3
<1> QED
  BY <1>6, <1>8, <1>9, <1>10, <1>11, <1>12, <1>13, <1>14, <1>15, <1>16, StepFrame, Zenon

\* MergeTome returns.
LEMMA ReturnStep == ASSUME TomeInv, NEW m \in Mergers, MergeReturn(m) PROVE TomeInv'
<1>1. PICK old : old = merge[m]
  OBVIOUS
<1>2. PICK mg : mg = Idle
  OBVIOUS
<1>3. /\ old.pc = "done" /\ Becomes(m, mg) /\ given' = {}
      /\ UNCHANGED <<keyrings, sortedByName, rev, saved, loaded, raced, mixed>>
  BY <1>1, <1>2 DEF MergeReturn
<1>4. MergeFacts(m, old) /\ MergeHolds(m, old)
  BY <1>1, <1>3, UnderWay
<1>5. /\ mg \in MergeRec /\ mg.pc = "idle" /\ WellFormed(mg.src) /\ WellFormed(mg.problems)
      /\ Placed(mg) /\ ~Unsorted(mg)
  BY <1>2, NoMerge, Zenon
<1>6. WellFormed(keyrings')
  BY <1>3, <1>4 DEF MergeFacts
<1>7. OtherTypes'
  BY <1>3 DEF TomeInv, TomeTypes, OtherTypes
<1>8. /\ (raced' <=> raced) /\ (mixed' <=> mixed) /\ saved' = saved /\ ~loaded' /\ (raced' => mixed')
      /\ ~raced' => \A n \in Mergers \ {m} : ~Under(n)
  BY <1>3, <1>4 DEF MergeHolds
<1>9. ~mixed' => Fits(mg)'
  BY <1>5 DEF Fits
<1>10. ~mixed' => Distinct(keyrings') /\ Ascending(keyrings')
  BY <1>3, <1>4 DEF MergeHolds, Unsorted
<1> QED
  BY <1>3, <1>5, <1>6, <1>7, <1>8, <1>9, <1>10, MergeFrame, Zenon

\* The rings that are zeroed out keep their names and their order.
LEMMA ZeroedOutKeeps ==
    ASSUME WellFormed(keyrings)
    PROVE  /\ WellFormed(ZeroedOut) /\ DOMAIN ZeroedOut = DOMAIN keyrings /\ Len(ZeroedOut) = Len(keyrings)
           /\ \A k \in DOMAIN keyrings : ZeroedOut[k].name = keyrings[k].name
<1>1. keyrings \in Seq(Rings) /\ DOMAIN keyrings = 1 .. Len(keyrings) /\ Len(keyrings) \in Nat
  BY DEF WellFormed
<1>2. \A r \in Rings : IsRing(Ring(r.name, {}, None)) /\ Ring(r.name, {}, None) \in Rings
                       /\ Ring(r.name, {}, None).name = r.name
  BY DEF Rings, IsRing, Ring
<1>3. \A k \in 1 .. Len(keyrings) :
          /\ Ring(keyrings[k].name, {}, None) \in Rings /\ IsRing(Ring(keyrings[k].name, {}, None))
          /\ Ring(keyrings[k].name, {}, None).name = keyrings[k].name
  BY <1>1, <1>2
<1> QED  BY <1>1, <1>3 DEF ZeroedOut, WellFormed

\* With the lock for itself there is no merge.
LEMMA NoneUnder ==
    ASSUME ~Merging
    PROVE  \A m \in Mergers : ~Under(m) /\ merge[m].pc = "idle" /\ ~Unsorted(merge[m])
BY DEF Merging, Under, Unsorted

\* What is left of the invariant when all merges are idle.
LEMMA AtRest ==
    ASSUME TomeInv, ~Merging, UNCHANGED <<merge, raced>>, mixed => mixed',
           WellFormed(keyrings'), WellFormed(saved.keyrings), UNCHANGED saved, OtherTypes',
           ~mixed' => Distinct(keyrings') /\ Ascending(keyrings'),
           loaded' => (~mixed' => keyrings' = saved.keyrings)
    PROVE  TomeInv'
<1>1. \A m \in Mergers : ~Under(m) /\ merge[m].pc = "idle" /\ ~Under(m)'
  BY NoneUnder DEF Under
<1>2. TomeTypes'
  <2>1. RingTypes'
    BY DEF TomeInv, TomeTypes, RingTypes
  <2> QED  BY <2>1 DEF TomeTypes
<1>3. Apart'
  <2>1. raced' => mixed'
    BY Zenon DEF TomeInv, Apart
  <2> QED  BY <1>1, <2>1 DEF Apart
<1>4. Merges'
  <2>1. ASSUME NEW m \in Mergers PROVE Placed(merge[m])' /\ Fits(merge[m])'
    BY <1>1 DEF TomeInv, Merges, Placed, Fits
  <2> QED  BY <1>1, <2>1 DEF Merges
<1>5. Ordered'
  BY Zenon DEF TomeInv, Ordered
<1>6. Loads'
  BY <1>1 DEF Loads, Merging
<1> QED  BY <1>2, <1>3, <1>4, <1>5, <1>6 DEF TomeInv

LEMMA ClearStep == ASSUME TomeInv, Clear PROVE TomeInv'
<1>1. /\ ~Merging /\ keyrings' = ZeroedOut /\ loaded' = FALSE /\ WellFormed(keyrings)
      /\ UNCHANGED <<sortedByName, rev, merge, given, saved, raced, mixed>>
  BY DEF Clear, TomeInv, TomeTypes, RingTypes
<1>2. /\ WellFormed(keyrings') /\ DOMAIN keyrings' = DOMAIN keyrings
      /\ \A k \in DOMAIN keyrings : keyrings'[k].name = keyrings[k].name
  BY <1>1, ZeroedOutKeeps
<1>3. OtherTypes'
  BY <1>1 DEF TomeInv, TomeTypes, OtherTypes
<1>4. ~mixed => Distinct(keyrings) /\ Ascending(keyrings)
  BY <1>1, NoneUnder DEF TomeInv, Ordered
<1>5. ~mixed => Distinct(keyrings') /\ Ascending(keyrings')
  BY <1>2, <1>4 DEF Distinct, Ascending
<1>6. WellFormed(saved.keyrings)
  BY DEF TomeInv, TomeTypes, RingTypes
<1>7. (mixed' <=> mixed) /\ ~loaded'
  BY <1>1
<1> QED  BY <1>1, <1>2, <1>3, <1>5, <1>6, <1>7, AtRest, Zenon

LEMMA MarshalStep == ASSUME TomeInv, MarshalTome PROVE TomeInv'
<1>1. /\ saved' = [keyrings |-> keyrings, sortedByName |-> sortedByName,
                   mixed |-> mixed, merging |-> Merging]
      /\ loaded' = FALSE /\ WellFormed(keyrings)
      /\ UNCHANGED <<keyrings, sortedByName, rev, merge, given, raced, mixed>>
  BY DEF MarshalTome, TomeInv, TomeTypes, RingTypes
<1>2. TomeTypes'
  <2>1. Merging \in BOOLEAN
    BY DEF Merging
  <2>2. saved' \in [keyrings : Seq(Rings), sortedByName : BOOLEAN, mixed : BOOLEAN, merging : BOOLEAN]
        /\ saved'.keyrings = keyrings
    BY <1>1, <2>1 DEF TomeInv, TomeTypes, OtherTypes, WellFormed
  <2>3. RingTypes'
    BY <1>1, <2>2 DEF TomeInv, TomeTypes, RingTypes
  <2> QED  BY <1>1, <2>3 DEF TomeInv, TomeTypes, OtherTypes
<1>3. Apart' /\ Loads'
  BY <1>1 DEF TomeInv, Apart, Under, Loads
<1>4. Merges'
  BY <1>1 DEF TomeInv, Merges, Under, Placed, Conserved, Reasons, Clashes, Fits
<1>5. Ordered'
  <2>1. /\ saved'.keyrings = keyrings /\ (saved'.mixed <=> mixed) /\ (saved'.merging <=> Merging)
        /\ (mixed' <=> mixed) /\ keyrings' = keyrings /\ merge' = merge
    BY <1>1
  <2>2. ~saved'.mixed /\ ~saved'.merging => Ascending(saved'.keyrings)
    BY <2>1, NoneUnder DEF TomeInv, Ordered
  <2>3. ~mixed' => Distinct(keyrings')
    BY <2>1 DEF TomeInv, Ordered
  <2>4. ~mixed' /\ (\A m \in Mergers : ~Unsorted(merge'[m])) => Ascending(keyrings')
    BY <2>1 DEF TomeInv, Ordered
  <2>5. (\A m \in Mergers : ~Unsorted(merge[m])') <=> (\A m \in Mergers : ~Unsorted(merge'[m]))
    BY DEF Unsorted
  <2> QED  BY <2>2, <2>3, <2>4, <2>5 DEF Ordered
<1> QED  BY <1>2, <1>3, <1>4, <1>5 DEF TomeInv

\* Only a manager that had no ring has just the rings that were saved.
LEMMA UnmarshalStep == ASSUME TomeInv, UnmarshalTome PROVE TomeInv'
<1>1. /\ ~Merging /\ keyrings' = ZeroedOut \o saved.keyrings
      /\ sortedByName' = (sortedByName \/ saved.sortedByName) /\ loaded' = TRUE
      /\ mixed' = (mixed \/ saved.mixed \/ saved.merging \/ keyrings # <<>>)
      /\ UNCHANGED <<rev, merge, given, saved, raced>>
      /\ WellFormed(keyrings) /\ WellFormed(saved.keyrings)
  BY DEF UnmarshalTome, WithSaved, TomeInv, TomeTypes, RingTypes
<1>2. WellFormed(keyrings')
  BY <1>1, ZeroedOutKeeps, HeldConcat
<1>3. ~mixed' => ~saved.mixed /\ ~saved.merging /\ keyrings' = saved.keyrings
  <2>1. keyrings = <<>> => ZeroedOut = <<>>
    BY DEF ZeroedOut
  <2>2. <<>> \o saved.keyrings = saved.keyrings
    BY <1>1, ConcatEmptySeq DEF WellFormed
  <2>3. ~mixed' => ~saved.mixed /\ ~saved.merging /\ keyrings = <<>>
    BY <1>1, Zenon
  <2> QED  BY <1>1, <2>1, <2>2, <2>3, Zenon
<1>4. OtherTypes'
  <2>1. sortedByName' \in BOOLEAN /\ mixed' \in BOOLEAN
    BY <1>1, Zenon DEF TomeInv, TomeTypes, RingTypes, OtherTypes
  <2> QED  BY <1>1, <2>1 DEF TomeInv, TomeTypes, OtherTypes
<1>5. ~mixed' => Distinct(keyrings') /\ Ascending(keyrings')
  <2>1. ~mixed' => Ascending(saved.keyrings)
    BY <1>3, Zenon DEF TomeInv, Ordered
  <2>2. saved.keyrings \in Seq(Rings)
    BY <1>1 DEF WellFormed
  <2> QED  BY <1>3, <2>1, <2>2, AscendingIsDistinct
<1>6. mixed => mixed'
  BY <1>1, Zenon
<1> QED  BY <1>1, <1>2, <1>3, <1>4, <1>5, <1>6, AtRest, Zenon

LEMMA RestartStep == ASSUME TomeInv, RestartTome PROVE TomeInv'
<1>1. /\ keyrings' = <<>> /\ sortedByName' = FALSE /\ merge' = [m \in Mergers |-> Idle] /\ given' = {}
      /\ loaded' = FALSE /\ mixed' = FALSE /\ raced' = FALSE /\ UNCHANGED <<rev, saved>>
  BY DEF RestartTome
<1>2. \A m \in Mergers : merge'[m] = Idle /\ ~Under(m)'
  BY <1>1, NoMerge DEF Under
<1>3. TomeTypes'
  <2>1. RingTypes'
    BY <1>1, <1>2, NoRings, NoMerge DEF TomeInv, TomeTypes, RingTypes
  <2> QED  BY <1>1, <2>1 DEF TomeInv, TomeTypes, OtherTypes
<1>4. Merges'
  <2>1. ASSUME NEW m \in Mergers PROVE Placed(merge[m])' /\ Fits(merge[m])'
    BY <1>2, NoMerge DEF Placed, Fits
  <2> QED  BY <1>2, <2>1 DEF Merges
<1>5. Apart' /\ Ordered' /\ Loads'
  BY <1>1, <1>2, NoRings DEF TomeInv, Apart, Ordered, Loads
<1> QED  BY <1>3, <1>4, <1>5 DEF TomeInv

LEMMA TomeStutter == ASSUME TomeInv, UNCHANGED tomeVars PROVE TomeInv'
<1>1. TomeTypes'
  BY DEF tomeVars, TomeInv, TomeTypes, RingTypes, OtherTypes
<1>2. Apart' /\ Loads'
  BY DEF tomeVars, TomeInv, Apart, Under, Loads, Merging
<1>3. Merges'
  BY DEF tomeVars, TomeInv, Merges, Under, Placed, Conserved, Reasons, Clashes, Fits
<1>4. Ordered'
  BY DEF tomeVars, TomeInv, Ordered, Unsorted
<1> QED  BY <1>1, <1>2, <1>3, <1>4 DEF TomeInv

LEMMA TomeInvCorrect == TomeSpec => []TomeInv
<1>1. ASSUME TomeInv, NEW m \in Mergers, MergeBegin(m) \/ MergeStep(m) \/ MergeReturn(m)
      PROVE  TomeInv'
  BY <1>1, BeginStep, MatchNewStep, MatchKnownStep, AppendStep, StoreStep, SortStep, ReturnStep
     DEF MergeStep
<1>2. TomeInv /\ [TomeNext]_tomeVars => TomeInv'
  BY <1>1, ClearStep, MarshalStep, UnmarshalStep, RestartStep, TomeStutter DEF TomeNext
<1> QED  BY TomeInitInv, <1>2, PTL DEF TomeSpec

-----------------------------------------------------------------------------
(* What is known as a ring's newest key is its newest: of the rings of the *)
(* tome, of those that were saved and of those that will be appended.      *)

NewestKnown(ring) ==
    \A e \in ring.keys : FetchNewestKey(ring) # None /\ e.time <= FetchNewestKey(ring).time

NewestInv ==
    /\ \A k \in DOMAIN keyrings : NewestKnown(keyrings[k])
    /\ \A k \in DOMAIN saved.keyrings : NewestKnown(saved.keyrings[k])
    /\ \A m \in Mergers : merge[m].pc \in {"match", "store"} =>
           \A j \in 1 .. merge[m].i - 1 : NewestKnown(merge[m].src[j])

\* A key with the newest time is found, by the public key it is known by.
LEMMA KnownByPub ==
    ASSUME NEW ring, IsRing(ring), NEW last \in ring.keys, ring.newest = last.pub,
           \A e \in ring.keys : e.time <= last.time
    PROVE  NewestKnown(ring)
<1>1. ring \in Rings /\ ring.keys # {} /\ ring.keys \in SUBSET Entries /\ ring.newest # None
  BY TomeAssumption DEF IsRing, Rings
<1>2. FetchNewestKey(ring) = FetchKey(ring, last.pub)
  BY <1>1 DEF FetchNewestKey
<1>3. FetchKey(ring, last.pub) \in ring.keys /\ last.time <= FetchKey(ring, last.pub).time
  BY <1>1, FetchKeyFinds
<1> QED  BY <1>1, <1>2, <1>3, TomeAssumption DEF NewestKnown

LEMMA OptimizedKnows ==
    ASSUME NEW ring, ring.name \in RingNames, ring.keys \in SUBSET Entries
    PROVE  NewestKnown(OptimizedRing(ring))
<1> DEFINE sorted == OptimizedRing(ring)
<1>1. IsRing(sorted) /\ sorted.keys = ring.keys
  BY OptimizedRingIsRing
<1>2. ring.keys # {} => sorted.newest = Latest(ring.keys).pub
  BY DEF OptimizedRing, Ring
<1> HIDE DEF sorted
<1>3. CASE ring.keys # {}
  <2> DEFINE last == Latest(ring.keys)
  <2>1. last \in sorted.keys /\ sorted.newest = last.pub /\ \A e \in sorted.keys : e.time <= last.time
    BY <1>1, <1>2, <1>3, LatestIsLast
  <2> HIDE DEF last
  <2> QED  BY <1>1, <2>1, KnownByPub DEF sorted
<1> QED  BY <1>1, <1>3 DEF NewestKnown, sorted

LEMMA MergedKnows ==
    ASSUME NEW ring, IsRing(ring), NewestKnown(ring), NEW src, IsRing(src)
    PROVE  NewestKnown(MergeKeys(ring, src))
<1> DEFINE merged == MergeKeys(ring, src)
           fresh == Fresh(ring, src)
           old == FetchNewestKey(ring)
<1>1. IsRing(merged) /\ merged.keys = ring.keys \cup fresh /\ fresh \in SUBSET Entries
      /\ ring.keys \in SUBSET Entries /\ merged.newest = NewestOf(ring, src)
  BY MergeKeysKeeps DEF Fresh, IsRing, Rings, MergeKeys, Ring
<1>2. IF ring.keys = {} THEN old = None ELSE old \in ring.keys /\ old # None
  BY <1>1, FetchNewestFinds, TomeAssumption
<1>3. fresh # {} => Latest(fresh) \in fresh /\ \A e \in fresh : e.time <= Latest(fresh).time
  BY <1>1, LatestIsLast
<1>4. \A e \in ring.keys : e.time <= old.time
  BY DEF NewestKnown
<1>5. merged.newest =
          IF fresh # {} /\ (old = None \/ (old # None /\ Latest(fresh).time >= old.time))
          THEN Latest(fresh).pub ELSE IF old = None THEN None ELSE old.pub
  BY <1>1 DEF NewestOf
<1>6. \A e \in ring.keys \cup fresh : e.time \in Int
  BY <1>1, TomeAssumption
<1> HIDE DEF merged, fresh, old
<1>7. CASE fresh # {} /\ (old = None \/ (old # None /\ Latest(fresh).time >= old.time))
  <2>1. \A e \in merged.keys : e.time <= Latest(fresh).time
    BY <1>1, <1>2, <1>3, <1>4, <1>6, <1>7
  <2> QED  BY <1>1, <1>3, <1>5, <1>7, <2>1, KnownByPub DEF merged
<1>8. CASE old # None /\ (fresh = {} \/ ~(Latest(fresh).time >= old.time))
  <2>1. \A e \in merged.keys : e.time <= old.time
    BY <1>1, <1>2, <1>3, <1>4, <1>6, <1>8
  <2> QED  BY <1>1, <1>2, <1>5, <1>8, <2>1, KnownByPub DEF merged
<1>9. CASE old = None /\ fresh = {}
  BY <1>1, <1>2, <1>9 DEF NewestKnown, merged
<1> QED  BY <1>7, <1>8, <1>9

LEMMA NewestInitInv == TomeInit => NewestInv
BY DEF TomeInit, Idle, NewestInv

\* A step of one merge: the rings of the others stay as they are.
LEMMA NewestFrame ==
    ASSUME TomeInv, NewestInv, NEW m \in Mergers, NEW mg, Becomes(m, mg), saved' = saved,
           \A k \in DOMAIN keyrings' : NewestKnown(keyrings'[k]),
           mg.pc \in {"match", "store"} => \A j \in 1 .. mg.i - 1 : NewestKnown(mg.src[j])
    PROVE  NewestInv'
<1>1. merge'[m] = mg /\ \A n \in Mergers : n # m => merge'[n] = merge[n]
  BY DEF Becomes, TomeInv, TomeTypes, RingTypes
<1>2. \A n \in Mergers : merge'[n].pc \in {"match", "store"} =>
          \A j \in 1 .. merge'[n].i - 1 : NewestKnown(merge'[n].src[j])
  BY <1>1 DEF NewestInv
<1> QED  BY <1>2 DEF NewestInv, NewestKnown

LEMMA NewestMatch ==
    ASSUME TomeInv, NewestInv, NEW m \in Mergers, MergeMatch(m) PROVE NewestInv'
<1>1. PICK old : old = merge[m]
  OBVIOUS
<1>2. PICK src : src = old.src[old.i]
  OBVIOUS
<1>3. PICK at : at = FetchKeyring(keyrings, sortedByName, src.name)
  OBVIOUS
<1>4. old.pc = "match" /\ old.i <= Len(old.src)
  BY <1>1 DEF MergeMatch
<1>5. MergeFacts(m, old)
  BY <1>1, <1>4, UnderWay
<1>6. /\ old \in MergeRec /\ WellFormed(old.src) /\ old.src \in Seq(Rings)
      /\ WellFormed(keyrings) /\ keyrings \in Seq(Rings) /\ sortedByName \in BOOLEAN
      /\ Placed(old) /\ saved' = saved
  BY <1>5, Zenon DEF MergeFacts, MergeMatch
<1>7. /\ old.i \in 1 .. Len(old.src) /\ old.i \in DOMAIN old.src /\ IsRing(src)
      /\ src.name \in RingNames /\ src.keys \in SUBSET Entries
  BY <1>2, <1>4, <1>6 DEF Placed, WellFormed, IsRing, Rings
<1>8. \A j \in 1 .. old.i - 1 : NewestKnown(old.src[j])
  BY <1>1, <1>4 DEF NewestInv
<1>9. CASE at = None
  <2>1. PICK mg : mg = MatchNew(old, src)
    OBVIOUS
  <2>2. Becomes(m, mg) /\ keyrings' = keyrings
    BY <1>1, <1>2, <1>3, <1>9, <2>1 DEF MergeMatch
  <2>3. PICK new : new = OptimizedRing(src)
    OBVIOUS
  <2>4. mg.i = old.i + 1 /\ mg.src = [old.src EXCEPT ![old.i] = new]
    BY <1>6, <2>1, <2>3 DEF MatchNew, MergeRec
  <2>5. \A j \in 1 .. old.i : mg.src[j] = IF j = old.i THEN new ELSE old.src[j]
    BY <1>6, <1>7, <2>4
  <2>6. NewestKnown(new)
    BY <1>7, <2>3, OptimizedKnows
  <2>7. \A j \in 1 .. old.i : NewestKnown(mg.src[j])
    BY <1>7, <1>8, <2>5, <2>6, SMTT(60)
  <2>8. mg.i - 1 = old.i
    BY <1>7, <2>4
  <2>9. \A k \in DOMAIN keyrings' : NewestKnown(keyrings'[k])
    BY <2>2 DEF NewestInv
  <2> QED  BY <1>6, <2>2, <2>7, <2>8, <2>9, NewestFrame
<1>10. CASE at # None
  <2>1. PICK ring : ring = keyrings[at]
    OBVIOUS
  <2>2. PICK mg : mg = MatchKnown(old, src, Problems(ring, src))
    OBVIOUS
  <2>3. PICK merged : merged = MergeKeys(ring, src)
    OBVIOUS
  <2>4. Becomes(m, mg) /\ keyrings' = [keyrings EXCEPT ![at] = merged]
    BY <1>1, <1>2, <1>3, <1>10, <2>1, <2>2, <2>3 DEF MergeMatch
  <2>5. mg.src = WithoutCurrent(old) /\ mg.i = old.i
    BY <1>6, <2>2 DEF MatchKnown, MergeRec
  <2>6. at \in DOMAIN keyrings /\ IsRing(ring)
    BY <1>3, <1>6, <1>10, <2>1, FetchKeyringIs DEF WellFormed
  <2>7. NewestKnown(merged)
    BY <1>7, <2>1, <2>3, <2>6, MergedKnows DEF NewestInv
  <2>8. \A k \in DOMAIN keyrings' : keyrings'[k] = IF k = at THEN merged ELSE keyrings[k]
    BY <2>4, <2>6
  <2>9. \A k \in DOMAIN keyrings' : NewestKnown(keyrings'[k])
    BY <2>4, <2>7, <2>8 DEF NewestInv
  <2>10. \A j \in 1 .. old.i - 1 : mg.src[j] = old.src[j]
    <3>1. \A j \in 1 .. Len(old.src) - 1 :
              mg.src[j] = old.src[IF j = old.i THEN Len(old.src) ELSE j]
      BY <1>6, <1>7, <2>5, HeldWithoutCurrent
    <3>2. Len(old.src) \in Nat
      BY <1>6
    <3> QED  BY <1>7, <3>1, <3>2, SMTT(60)
  <2>11. \A j \in 1 .. mg.i - 1 : NewestKnown(mg.src[j])
    BY <1>8, <2>5, <2>10
  <2> QED  BY <1>6, <2>4, <2>9, <2>11, NewestFrame
<1> QED  BY <1>9, <1>10

LEMMA NewestStore ==
    ASSUME TomeInv, NewestInv, NEW m \in Mergers, MergeStore(m) PROVE NewestInv'
<1>1. PICK old : old = merge[m]
  OBVIOUS
<1>2. PICK mg : mg = [old EXCEPT !.pc = "sort"]
  OBVIOUS
<1>3. old.pc = "store" /\ Becomes(m, mg) /\ saved' = saved
      /\ keyrings' = IF old.src = <<>> THEN keyrings ELSE FirstRings(old.room) \o old.src
  BY <1>1, <1>2 DEF MergeStore
<1>4. MergeFacts(m, old)
  BY <1>1, <1>3, UnderWay
<1>5. /\ old \in MergeRec /\ WellFormed(old.src) /\ old.room \in Nat /\ WellFormed(keyrings)
      /\ old.i - 1 = Len(old.src) /\ DOMAIN old.src = 1 .. Len(old.src) /\ Len(old.src) \in Nat
  BY <1>3, <1>4 DEF MergeFacts, Placed, MergeRec, WellFormed
<1>6. PICK first : first = FirstRings(old.room)
  OBVIOUS
<1>7. WellFormed(first) /\ \A k \in DOMAIN first : k \in DOMAIN keyrings /\ first[k] = keyrings[k]
  BY <1>5, <1>6, FirstRingsAre
<1>8. DOMAIN first = 1 .. Len(first) /\ Len(first) \in Nat
  BY <1>7 DEF WellFormed
<1>9. \A k \in DOMAIN old.src : NewestKnown(old.src[k])
  BY <1>1, <1>3, <1>5 DEF NewestInv
<1>10. \A k \in DOMAIN first : NewestKnown(first[k])
  BY <1>7 DEF NewestInv
<1>11. \A k \in DOMAIN (first \o old.src) : NewestKnown((first \o old.src)[k])
  <2>1. PICK c : c = first \o old.src
    OBVIOUS
  <2>2. /\ DOMAIN c = 1 .. Len(first) + Len(old.src)
        /\ \A k \in DOMAIN c : c[k] = IF k <= Len(first) THEN first[k] ELSE old.src[k - Len(first)]
    BY <1>5, <1>7, <2>1, HeldConcat
  <2>3. \A k \in DOMAIN c : NewestKnown(c[k])
    BY <1>5, <1>8, <1>9, <1>10, <2>2
  <2> QED  BY <2>1, <2>3
<1>12. \A k \in DOMAIN keyrings' : NewestKnown(keyrings'[k])
  BY <1>3, <1>6, <1>11 DEF NewestInv
<1>13. mg.pc = "sort"
  BY <1>2, <1>5 DEF MergeRec
<1> QED  BY <1>3, <1>12, <1>13, NewestFrame

LEMMA NewestMerge ==
    ASSUME TomeInv, NewestInv, NEW m \in Mergers, MergeBegin(m) \/ MergeStep(m) \/ MergeReturn(m)
    PROVE  NewestInv'
<1>1. WellFormed(keyrings) /\ keyrings \in Seq(Rings)
  BY DEF TomeInv, TomeTypes, RingTypes, WellFormed
<1>2. \A k \in DOMAIN Optimized(keyrings) : NewestKnown(Optimized(keyrings)[k])
  BY <1>1, OptimizedSorts DEF NewestInv
<1>3. \A k \in DOMAIN keyrings : NewestKnown(keyrings[k])
  BY DEF NewestInv
<1>4. CASE MergeBegin(m)
  <2>1. PICK src \in Sources : Becomes(m, [Idle EXCEPT !.pc = "match", !.src = src])
    BY <1>4 DEF MergeBegin
  <2>2. PICK mg : mg = [Idle EXCEPT !.pc = "match", !.src = src]
    OBVIOUS
  <2>3. mg.i = 1
    BY <2>2 DEF Idle
  <2>4. Becomes(m, mg) /\ saved' = saved /\ (keyrings' = keyrings \/ keyrings' = Optimized(keyrings))
    BY <1>4, <2>1, <2>2 DEF MergeBegin
  <2> QED  BY <1>2, <1>3, <2>3, <2>4, NewestFrame
<1>5. CASE MergeAppend(m)
  <2>1. PICK old : old = merge[m]
    OBVIOUS
  <2>2. PICK mg : mg = [old EXCEPT !.pc = "store", !.room = Len(keyrings)]
    OBVIOUS
  <2>3. Becomes(m, mg) /\ keyrings' = keyrings /\ saved' = saved /\ old.pc = "match"
    BY <1>5, <2>1, <2>2 DEF MergeAppend
  <2>4. mg.i = old.i /\ mg.src = old.src
    BY <2>1, <2>2 DEF TomeInv, TomeTypes, RingTypes, MergeRec
  <2>5. \A j \in 1 .. mg.i - 1 : NewestKnown(mg.src[j])
    BY <2>1, <2>3, <2>4 DEF NewestInv
  <2> QED  BY <1>3, <2>3, <2>5, NewestFrame
<1>6. CASE MergeSort(m)
  <2>1. PICK mg : mg = [merge[m] EXCEPT !.pc = "done", !.src = Optimized(merge[m].problems),
                                        !.problems = <<>>]
    OBVIOUS
  <2>2. /\ Becomes(m, mg) /\ saved' = saved
        /\ keyrings' = keyrings \/ keyrings' = Optimized(keyrings)
    BY <1>6, <2>1 DEF MergeSort, InOrder
  <2>3. mg.pc = "done"
    BY <2>1 DEF TomeInv, TomeTypes, RingTypes, MergeRec
  <2> QED  BY <1>2, <1>3, <2>2, <2>3, NewestFrame
<1>7. CASE MergeReturn(m)
  <2>1. PICK mg : mg = Idle
    OBVIOUS
  <2>2. Becomes(m, mg) /\ saved' = saved /\ keyrings' = keyrings /\ mg.pc = "idle"
    BY <1>7, <2>1, NoMerge DEF MergeReturn
  <2> QED  BY <1>3, <2>2, NewestFrame
<1> QED  BY <1>4, <1>5, <1>6, <1>7, NewestMatch, NewestStore DEF MergeStep

LEMMA NewestStep == ASSUME TomeInv, NewestInv, [TomeNext]_tomeVars PROVE NewestInv'
<1>1. /\ WellFormed(keyrings) /\ WellFormed(saved.keyrings)
  BY DEF TomeInv, TomeTypes, RingTypes
<1>2. \A k \in DOMAIN keyrings : ZeroedOut[k].keys = {}
  BY DEF ZeroedOut, Ring
<1>3. DOMAIN ZeroedOut = DOMAIN keyrings /\ WellFormed(ZeroedOut)
  BY <1>1, ZeroedOutKeeps
<1>4. CASE Clear
  BY <1>2, <1>3, <1>4 DEF Clear, NewestInv, NewestKnown
<1>5. CASE MarshalTome
  BY <1>5 DEF MarshalTome, NewestInv, NewestKnown
<1>6. CASE UnmarshalTome
  <2>1. PICK zeroed : zeroed = ZeroedOut
    OBVIOUS
  <2>2. PICK c : c = zeroed \o saved.keyrings
    OBVIOUS
  <2>3. /\ keyrings' = c /\ merge' = merge /\ saved' = saved
        /\ DOMAIN saved.keyrings = 1 .. Len(saved.keyrings) /\ Len(saved.keyrings) \in Nat
        /\ DOMAIN zeroed = 1 .. Len(zeroed) /\ Len(zeroed) \in Nat
    BY <1>1, <1>3, <1>6, <2>1, <2>2 DEF UnmarshalTome, WithSaved, WellFormed
  <2>4. /\ DOMAIN c = 1 .. Len(zeroed) + Len(saved.keyrings)
        /\ \A k \in DOMAIN c : c[k] = IF k <= Len(zeroed) THEN zeroed[k]
                                      ELSE saved.keyrings[k - Len(zeroed)]
    BY <1>1, <1>3, <2>1, <2>2, HeldConcat
  <2>5. \A k \in DOMAIN zeroed : NewestKnown(zeroed[k])
    BY <1>2, <1>3, <2>1 DEF NewestKnown
  <2>6. \A k \in DOMAIN c : NewestKnown(c[k])
    BY <2>3, <2>4, <2>5 DEF NewestInv
  <2> QED  BY <2>3, <2>6 DEF NewestInv, NewestKnown
<1>7. CASE RestartTome
  BY <1>7 DEF RestartTome, Idle, NewestInv, NewestKnown
<1>8. CASE UNCHANGED tomeVars
  BY <1>8 DEF tomeVars, NewestInv, NewestKnown
<1> QED
  BY <1>4, <1>5, <1>6, <1>7, <1>8, NewestMerge DEF TomeNext

-----------------------------------------------------------------------------
(* What KeyTome promises.                                                  *)

\* For any tomes, rings of one name in them included, any number of goroutines and
\* whatever else they do: a merge that no other overlaps leaves every key of the
\* tome and of the source in one of them, and no other key; what stays in the
\* source has a key of the tome against it; and what is known as a ring's newest
\* key is a key of it.
THEOREM MergesAreExact == TomeSpec => []MergeIsExact
<1>1. ASSUME TomeInv PROVE TomeTypeOK
  <2>1. /\ \A k \in DOMAIN keyrings : IsRing(keyrings[k])
        /\ \A k \in DOMAIN saved.keyrings : IsRing(saved.keyrings[k])
        /\ \A m \in Mergers : /\ \A k \in DOMAIN merge[m].src : IsRing(merge[m].src[k])
                              /\ \A k \in DOMAIN merge[m].problems : IsRing(merge[m].problems[k])
    BY <1>1 DEF TomeInv, TomeTypes, RingTypes, WellFormed
  <2>2. \A m \in Mergers : merge[m].pc \in {"idle", "match", "store", "sort", "done"}
    BY <1>1 DEF TomeInv, TomeTypes, RingTypes, MergeRec
  <2>3. {sortedByName, loaded, raced, mixed} \subseteq BOOLEAN
    BY <1>1, Zenon DEF TomeInv, TomeTypes, OtherTypes
  <2>4. rev \in 1 .. MaxMerges + 1 /\ given \subseteq RingNames \X Entries
    BY <1>1 DEF TomeInv, TomeTypes, OtherTypes
  <2>5. \A rings \in {keyrings, saved.keyrings} \cup
                      UNION {{merge[m].src, merge[m].problems} : m \in Mergers} :
            \A k \in DOMAIN rings : IsRing(rings[k])
    BY <2>1
  <2> QED  BY <2>2, <2>3, <2>4, <2>5 DEF TomeTypeOK
<1>2. ASSUME TomeInv, ~raced, NEW m \in Mergers, merge[m].pc = "done"
      PROVE  /\ Held(keyrings) \cup Held(merge[m].src) = given
             /\ \A h \in Held(merge[m].src) : Clashes(h)
  <2>1. Placed(merge[m]) /\ Conserved(merge[m]) /\ Reasons(merge[m])
    BY <1>2 DEF TomeInv, Merges, Under
  <2> QED  BY <1>2, <2>1, NoRings DEF Placed, Conserved, Reasons
<1>3. TomeInv => KeysConserved
  BY <1>2 DEF KeysConserved
<1>4. TomeInv => LeftForAReason
  BY <1>2 DEF Clashes, LeftForAReason
<1>5. TomeInv => MergeIsExact
  BY <1>1, <1>3, <1>4 DEF MergeIsExact
<1> QED  BY <1>5, TomeInvCorrect, PTL

\* In the order of their names, a ring is found by the name it has.
LEMMA FetchKeyringFinds ==
    ASSUME TomeInv, ~Merging, ~mixed
    PROVE  /\ \A name : LET at == FetchKeyring(keyrings, sortedByName, name)
                       IN IF \E k \in DOMAIN keyrings : keyrings[k].name = name
                          THEN at # None /\ at \in DOMAIN keyrings /\ keyrings[at].name = name
                          ELSE at = None
           /\ \A k \in DOMAIN keyrings : FetchKeyring(keyrings, sortedByName, keyrings[k].name) = k
<1>1. keyrings \in Seq(Rings) /\ sortedByName \in BOOLEAN /\ Ascending(keyrings) /\ Distinct(keyrings)
  BY NoneUnder DEF TomeInv, TomeTypes, RingTypes, OtherTypes, WellFormed, Ordered
<1>2. ASSUME NEW name
      PROVE  LET at == FetchKeyring(keyrings, sortedByName, name)
             IN IF \E k \in DOMAIN keyrings : keyrings[k].name = name
                THEN at # None /\ at \in DOMAIN keyrings /\ keyrings[at].name = name
                ELSE at = None
  BY <1>1, FetchKeyringIs
<1>3. ASSUME NEW k \in DOMAIN keyrings
      PROVE  FetchKeyring(keyrings, sortedByName, keyrings[k].name) = k
  BY <1>1, <1>2 DEF Distinct
<1> QED  BY <1>2, <1>3

\* Every key held is found by its public key, and the newest of its ring.
LEMMA HeldIsFetched == TomeInv /\ NewestInv => FetchFinds
<1> SUFFICES ASSUME TomeInv, NewestInv, ~Merging, ~mixed, NEW h \in Held(keyrings)
             PROVE  /\ Fetch(h[1], h[2].pub) # None /\ Fetch(h[1], h[2].pub).time >= h[2].time
                    /\ Fetch(h[1], None) # None /\ Fetch(h[1], None).time >= h[2].time
  BY DEF FetchFinds
<1>1. PICK k \in DOMAIN keyrings : \E e \in keyrings[k].keys : h = <<keyrings[k].name, e>>
  BY HeldIn
<1>2. PICK e \in keyrings[k].keys : h = <<keyrings[k].name, e>>
  BY <1>1
<1>3. IsRing(keyrings[k]) /\ keyrings[k] \in Rings /\ keyrings[k].keys \in SUBSET Entries
  BY DEF TomeInv, TomeTypes, RingTypes, WellFormed, IsRing, Rings
<1>4. e.pub # None /\ e.time \in Int /\ k # None
  <2>1. FetchKeyring(keyrings, sortedByName, keyrings[k].name) # None
    BY FetchKeyringFinds
  <2> QED  BY <1>3, <2>1, FetchKeyringFinds, TomeAssumption
<1>5. Fetch(h[1], e.pub) = FetchKey(keyrings[k], e.pub) /\ Fetch(h[1], None) = FetchNewestKey(keyrings[k])
  BY <1>2, <1>4, FetchKeyringFinds DEF Fetch
<1>6. FetchKey(keyrings[k], e.pub) \in keyrings[k].keys /\ e.time <= FetchKey(keyrings[k], e.pub).time
  BY <1>2, <1>3, FetchKeyFinds
<1>7. FetchNewestKey(keyrings[k]) \in keyrings[k].keys /\ e.time <= FetchNewestKey(keyrings[k]).time
  BY <1>2, <1>3, FetchNewestFinds DEF NewestInv, NewestKnown
<1> QED  BY <1>2, <1>3, <1>4, <1>5, <1>6, <1>7, TomeAssumption

\* An export has what its guide names, if the tome holds it.
LEMMA ExportsWhatIsNamed == TomeInv => ExportIsExact
<1> SUFFICES ASSUME TomeInv, ~Merging, ~mixed, NEW guide \in Sources
             PROVE  Exported(guide) =
                        {h \in Held(keyrings) : \E k \in DOMAIN guide :
                            /\ guide[k].name = h[1]
                            /\ \/ guide[k].keys = {}
                               \/ \E e \in guide[k].keys : e.pub = h[2].pub
                                  /\ Fetch(h[1], e.pub) = h[2]}
  BY DEF ExportIsExact
<1> DEFINE Source(k) == FetchKeyring(keyrings, sortedByName, guide[k].name)
           Picked(k) == IF guide[k].keys = {} THEN keyrings[Source(k)].keys
                        ELSE {FetchKey(keyrings[Source(k)], e.pub) : e \in guide[k].keys} \ {None}
           Named(h, k) == /\ guide[k].name = h[1]
                          /\ \/ guide[k].keys = {}
                             \/ \E e \in guide[k].keys : e.pub = h[2].pub
                                /\ Fetch(h[1], e.pub) = h[2]
<1>1. \A k \in DOMAIN guide : \A e \in guide[k].keys : e \in Entries /\ e.pub # None
  BY TomeAssumption DEF IsRing, Rings
<1>2. \A h : h \in Exported(guide) <=>
          \E k \in DOMAIN guide : Source(k) # None /\ \E e \in Picked(k) : h = <<guide[k].name, e>>
  BY DEF Exported
<1>3. \A k \in DOMAIN guide : Source(k) # None =>
          /\ Source(k) \in DOMAIN keyrings /\ keyrings[Source(k)].name = guide[k].name
          /\ keyrings[Source(k)] \in Rings
  BY FetchKeyringFinds DEF TomeInv, TomeTypes, RingTypes, WellFormed, IsRing
<1>4. \A k \in DOMAIN guide : \A e \in guide[k].keys : Source(k) # None =>
          Fetch(guide[k].name, e.pub) = FetchKey(keyrings[Source(k)], e.pub)
  BY <1>1 DEF Fetch
<1>5. ASSUME NEW j \in DOMAIN keyrings
      PROVE  \A k \in DOMAIN guide : guide[k].name = keyrings[j].name => Source(k) = j /\ Source(k) # None
  BY FetchKeyringFinds
<1> HIDE DEF Source
<1>6. ASSUME NEW h, NEW k \in DOMAIN guide, Source(k) # None, NEW e \in Picked(k), h = <<guide[k].name, e>>
      PROVE  h \in Held(keyrings) /\ Named(h, k)
  <2> DEFINE ring == keyrings[Source(k)]
  <2>1. ring \in Rings /\ ring.name = guide[k].name /\ Source(k) \in DOMAIN keyrings
    BY <1>3, <1>6
  <2>2. CASE guide[k].keys = {}
    <3>1. e \in ring.keys
      BY <1>6, <2>2
    <3> QED  BY <1>6, <2>1, <2>2, <3>1, HeldIn
  <2>3. CASE guide[k].keys # {}
    <3>1. PICK f \in guide[k].keys : e = FetchKey(ring, f.pub) /\ e # None
      BY <1>6, <2>3
    <3>2. e \in ring.keys /\ e.pub = f.pub
      BY <2>1, <3>1, FetchKeyFinds
    <3>3. h \in Held(keyrings)
      BY <1>6, <2>1, <3>2, HeldIn
    <3>4. Fetch(h[1], f.pub) = h[2]
      BY <1>4, <1>6, <3>1
    <3> QED  BY <1>6, <3>2, <3>3, <3>4
  <2> QED  BY <2>2, <2>3
<1>7. ASSUME NEW h \in Held(keyrings), NEW k \in DOMAIN guide, Named(h, k)
      PROVE  Source(k) # None /\ \E e \in Picked(k) : h = <<guide[k].name, e>>
  <2>1. PICK j \in DOMAIN keyrings : \E e \in keyrings[j].keys : h = <<keyrings[j].name, e>>
    BY HeldIn
  <2>2. PICK e \in keyrings[j].keys : h = <<keyrings[j].name, e>>
    BY <2>1
  <2>3. Source(k) = j /\ Source(k) # None /\ keyrings[j] \in Rings
    BY <1>3, <1>5, <1>7, <2>2
  <2>4. CASE guide[k].keys = {}
    BY <1>7, <2>2, <2>3, <2>4
  <2>5. CASE guide[k].keys # {}
    <3>1. PICK f \in guide[k].keys : Fetch(h[1], f.pub) = h[2]
      BY <1>7, <2>5
    <3>2. e = FetchKey(keyrings[Source(k)], f.pub)
      BY <1>4, <1>7, <2>2, <2>3, <3>1
    <3>3. e # None
      BY <2>2, <2>3, TomeAssumption DEF Rings
    <3> QED  BY <1>7, <2>2, <2>3, <2>5, <3>2, <3>3
  <2> QED  BY <2>4, <2>5
<1> HIDE DEF Picked
<1>8. \A h : h \in Exported(guide) <=> h \in Held(keyrings) /\ \E k \in DOMAIN guide : Named(h, k)
  <2> HIDE DEF Named
  <2> QED  BY <1>2, <1>6, <1>7
<1> QED  BY <1>8

\* Whenever no merge is under way, and if none has overlapped another and no tome
\* with two rings of a name was merged or loaded: every key held is found, by its
\* public key and as the newest of its ring, and an export has just the keys its
\* guide names, for any tomes.
THEOREM KeysFound == TomeSpec => []KeysAreFound
<1>1. TomeSpec => [](TomeInv /\ NewestInv)
  <2>1. TomeInv /\ NewestInv /\ TomeInv' /\ [TomeNext]_tomeVars => NewestInv'
    BY NewestStep
  <2> QED  BY <2>1, TomeInvCorrect, NewestInitInv, PTL DEF TomeSpec
<1>2. TomeInv /\ NewestInv => KeysAreFound
  BY HeldIsFetched, ExportsWhatIsNamed DEF KeysAreFound
<1> QED  BY <1>1, <1>2, PTL

\* What was saved between merges is found after it was loaded into a new manager,
\* whatever ran beside the Marshal but a merge.
THEOREM UnmarshalFinds == TomeSpec => []UnmarshalRestores
<1>1. ASSUME TomeInv, FetchFinds PROVE UnmarshalRestores
  BY <1>1 DEF TomeInv, Loads, FetchFinds, UnmarshalRestores
<1> QED  BY <1>1, KeysFound, TomeInvCorrect, PTL DEF KeysAreFound


\* The keys of a ring that is merged into have other public keys than those it gets.
LEMMA MatchKeeps ==
    ASSUME TomeInv, NEW m \in Mergers, MergeMatch(m), ~mixed,
           NEW h \in Held(keyrings), NEW g \in Held(keyrings)', g[1] = h[1], g[2].pub = h[2].pub
    PROVE  g \in Held(keyrings)
<1>1. PICK old : old = merge[m]
  OBVIOUS
<1>2. PICK src : src = old.src[old.i]
  OBVIOUS
<1>3. PICK at : at = FetchKeyring(keyrings, sortedByName, src.name)
  OBVIOUS
<1> SUFFICES ASSUME at # None PROVE g \in Held(keyrings)
  BY <1>1, <1>2, <1>3 DEF MergeMatch
<1>4. PICK ring : ring = keyrings[at]
  OBVIOUS
<1>5. PICK merged : merged = MergeKeys(ring, src)
  OBVIOUS
<1>6. old.pc = "match" /\ old.i <= Len(old.src)
  BY <1>1 DEF MergeMatch
<1>7. MergeFacts(m, old) /\ MergeHolds(m, old)
  BY <1>1, <1>6, UnderWay
<1>8. /\ WellFormed(keyrings) /\ keyrings \in Seq(Rings) /\ sortedByName \in BOOLEAN
      /\ Placed(old) /\ WellFormed(old.src) /\ Distinct(keyrings)
  BY <1>7, Zenon DEF MergeFacts, MergeHolds
<1>9. IsRing(src)
  BY <1>2, <1>6, <1>8 DEF Placed, WellFormed
<1>10. at \in DOMAIN keyrings /\ IsRing(ring)
  BY <1>3, <1>4, <1>8, FetchKeyringIs DEF WellFormed
<1>11. keyrings' = [keyrings EXCEPT ![at] = merged]
  BY <1>1, <1>2, <1>3, <1>4, <1>5 DEF MergeMatch
<1>12. /\ IsRing(merged) /\ merged.name = ring.name /\ merged.keys = ring.keys \cup Fresh(ring, src)
       /\ \A e \in Fresh(ring, src) : \A f \in ring.keys : f.pub # e.pub
  BY <1>5, <1>9, <1>10, MergeKeysKeeps, MergeKeysAccounts
<1>13. \/ g \in HeldBy(merged)
       \/ \E k \in DOMAIN keyrings : k # at /\ g \in HeldBy(keyrings[k])
  BY <1>8, <1>10, <1>11, <1>12, HeldReplaced, ZenonT(60)
<1>14. CASE g \in HeldBy(merged)
  <2>1. PICK e \in merged.keys : g = <<merged.name, e>>
    BY <1>14 DEF HeldBy
  <2>2. PICK j \in DOMAIN keyrings : \E f \in keyrings[j].keys : h = <<keyrings[j].name, f>>
    BY HeldIn
  <2>3. PICK f \in keyrings[j].keys : h = <<keyrings[j].name, f>>
    BY <2>2
  <2>4. j = at
    BY <1>4, <1>8, <1>10, <1>12, <2>1, <2>3 DEF Distinct
  <2>5. e \in ring.keys
    BY <1>4, <1>12, <2>1, <2>3, <2>4
  <2> QED  BY <1>4, <1>10, <1>12, <2>1, <2>5, HeldIn
<1>15. CASE \E k \in DOMAIN keyrings : g \in HeldBy(keyrings[k])
  BY <1>15, HeldByRings
<1> QED  BY <1>13, <1>14, <1>15

\* The rings that are stored have names of their own, and none is overwritten.
LEMMA StoreKeeps ==
    ASSUME TomeInv, NEW m \in Mergers, MergeStore(m), ~mixed
    PROVE  /\ Held(keyrings) \subseteq Held(keyrings')
           /\ \A h \in Held(keyrings), g \in Held(keyrings') : g[1] = h[1] => g \in Held(keyrings)
<1>1. PICK old : old = merge[m]
  OBVIOUS
<1>2. old.pc = "store"
      /\ keyrings' = IF old.src = <<>> THEN keyrings ELSE FirstRings(old.room) \o old.src
  BY <1>1 DEF MergeStore
<1>3. MergeFacts(m, old) /\ MergeHolds(m, old)
  BY <1>1, <1>2, UnderWay
<1>4. /\ WellFormed(keyrings) /\ WellFormed(old.src) /\ Placed(old) /\ Fits(old) /\ Conserved(old)
      /\ old \in MergeRec
  BY <1>3, Zenon DEF MergeFacts, MergeHolds
<1>5. /\ old.room = Len(keyrings) /\ old.room \in Nat /\ Len(old.src) \in Nat
      /\ DOMAIN old.src = 1 .. Len(old.src) /\ old.i = Len(old.src) + 1
  BY <1>2, <1>4 DEF Conserved, MergeRec, Placed, WellFormed
<1>6. FirstRings(old.room) = keyrings
  BY <1>4, <1>5, FirstRingsAre
<1>7. Held(keyrings') = Held(keyrings) \cup Held(old.src)
  BY <1>2, <1>4, <1>6, HeldConcat, NoRings
<1>8. \A l \in DOMAIN old.src : \A k \in DOMAIN keyrings : old.src[l].name # keyrings[k].name
  BY <1>2, <1>4, <1>5 DEF Fits
<1>9. \A h \in Held(keyrings), g \in Held(old.src) : g[1] # h[1]
  BY <1>8, HeldIn
<1> QED  BY <1>7, <1>9

\* A ring that is merged into keeps its keys.
LEMMA MatchGrows ==
    ASSUME TomeInv, NEW m \in Mergers, MergeMatch(m)
    PROVE  Held(keyrings) \subseteq Held(keyrings')
<1>1. PICK old : old = merge[m]
  OBVIOUS
<1>2. PICK src : src = old.src[old.i]
  OBVIOUS
<1>3. PICK at : at = FetchKeyring(keyrings, sortedByName, src.name)
  OBVIOUS
<1>4. CASE at = None
  BY <1>1, <1>2, <1>3, <1>4 DEF MergeMatch
<1>5. CASE at # None
  <2>1. PICK merged : merged = MergeKeys(keyrings[at], src)
    OBVIOUS
  <2>2. old.pc = "match" /\ old.i <= Len(old.src)
    BY <1>1 DEF MergeMatch
  <2>3. MergeFacts(m, old)
    BY <1>1, <2>2, UnderWay
  <2>4. /\ WellFormed(keyrings) /\ keyrings \in Seq(Rings) /\ sortedByName \in BOOLEAN
        /\ Placed(old) /\ WellFormed(old.src)
    BY <2>3, Zenon DEF MergeFacts
  <2>5. IsRing(src)
    BY <1>2, <2>2, <2>4 DEF Placed, WellFormed
  <2>6. at \in DOMAIN keyrings /\ IsRing(keyrings[at])
    BY <1>3, <1>5, <2>4, FetchKeyringIs DEF WellFormed
  <2>7. keyrings' = [keyrings EXCEPT ![at] = merged]
    BY <1>1, <1>2, <1>3, <1>5, <2>1 DEF MergeMatch
  <2>8. IsRing(merged) /\ merged.name = keyrings[at].name /\ keyrings[at].keys \subseteq merged.keys
    BY <2>1, <2>5, <2>6, MergeKeysKeeps
  <2>9. \A h : h \in Held(keyrings') <=>
            h \in HeldBy(merged) \/ \E k \in DOMAIN keyrings : k # at /\ h \in HeldBy(keyrings[k])
    BY <2>4, <2>6, <2>7, <2>8, HeldReplaced
  <2>10. \A h : h \in HeldBy(keyrings[at]) => h \in HeldBy(merged)
    BY <2>8 DEF HeldBy
  <2> QED  BY <2>9, <2>10, HeldByRings
<1> QED  BY <1>4, <1>5

\* Until merges have overlapped, or two rings have had one name, no step of a merge
\* takes a key out of the tome or changes what a public key of it stands for.
THEOREM MergesKeepKeys == TomeSpec => KeysStand
<1> DEFINE A == ~mixed /\ (\E m \in Mergers : MergeBegin(m) \/ MergeStep(m)) =>
                    \A h \in Held(keyrings) : KeysOf(h)' = KeysOf(h)
<1>1. ASSUME TomeInv, ~mixed, NEW m \in Mergers, MergeBegin(m) \/ MergeStep(m),
             NEW h \in Held(keyrings)
      PROVE  KeysOf(h)' = KeysOf(h)
  <2>1. WellFormed(keyrings)
    BY <1>1 DEF TomeInv, TomeTypes, RingTypes
  <2>2. MergeBegin(m) \/ MergeAppend(m) \/ MergeSort(m) => Held(keyrings') = Held(keyrings)
    BY <2>1, OptimizedIsWellFormed DEF MergeBegin, MergeAppend, MergeSort, InOrder
  <2>3. Held(keyrings) \subseteq Held(keyrings')
    BY <1>1, <2>2, MatchGrows, StoreKeeps DEF MergeStep
  <2>4. \A g \in Held(keyrings') : g[1] = h[1] /\ g[2].pub = h[2].pub => g \in Held(keyrings)
    BY <1>1, <2>2, MatchKeeps, StoreKeeps DEF MergeStep
  <2> QED  BY <2>3, <2>4 DEF KeysOf
<1>2. TomeInv /\ [TomeNext]_tomeVars => [A]_tomeVars
  BY <1>1
<1>3. TomeSpec => [][A]_tomeVars
  BY <1>2, TomeInvCorrect, PTL DEF TomeSpec
<1> QED  BY <1>3 DEF KeysStand
=============================================================================

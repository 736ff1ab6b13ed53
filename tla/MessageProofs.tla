---------------------------- MODULE MessageProofs ----------------------------
(***************************************************************************)
(* Proofs about the transfer of messages (MessageTransfer), for words of   *)
(* any width and messages, fields and payloads of any number and content.  *)
(***************************************************************************)
EXTENDS MessageTransfer, ByteProofs

-----------------------------------------------------------------------------
(* A field is read.                                                        *)

LEMMA TwoToGrows ==
    ASSUME NEW n \in Nat, NEW m \in Nat, m <= n
    PROVE  TwoTo[m] <= TwoTo[n]
<1> DEFINE T == {k \in Nat : m <= k /\ ~(TwoTo[m] <= TwoTo[k])}
<1>1. T = {}
  <2> SUFFICES ASSUME T # {} PROVE FALSE
    OBVIOUS
  <2>1. PICK k \in T : \A i \in T : k <= i
    <3>1. T \in SUBSET Nat
      OBVIOUS
    <3> HIDE DEF T
    <3> QED  BY <3>1, LeastNumber
  <2>2. k \in Nat /\ m <= k /\ ~(TwoTo[m] <= TwoTo[k]) /\ TwoTo[m] \in Nat /\ TwoTo[k] \in Nat
    BY TwoToType
  <2>3. k # m
    BY <2>2
  <2>4. k - 1 \in Nat /\ m <= k - 1 /\ ~(k <= k - 1) /\ k # 0
    BY <2>2, <2>3
  <2>5. TwoTo[m] <= TwoTo[k - 1]
    BY <2>1, <2>4
  <2>6. TwoTo[k] = 2 * TwoTo[k - 1] /\ TwoTo[k - 1] \in Nat
    BY <2>2, <2>4, TwoToType
  <2> QED  BY <2>2, <2>5, <2>6
<1> QED  BY <1>1

LEMMA WidthsAre ==
    /\ WordBits \in Nat \ {0} /\ HalfBits \in Nat \ {0} /\ HalfBits <= WordBits
    /\ TwoTo[WordBits] \in Nat /\ TwoTo[WordBits] >= 128
    /\ TwoTo[HalfBits - 1] \in Nat /\ TwoTo[HalfBits - 1] >= 16
    /\ TwoTo[HalfBits] = 2 * TwoTo[HalfBits - 1]
    /\ TwoTo[WordBits - 1] \in Nat /\ TwoTo[WordBits - 1] >= 1
<1>1. /\ WordBits \in Nat /\ HalfBits \in Nat /\ 7 <= WordBits /\ 4 <= HalfBits - 1
      /\ HalfBits - 1 \in Nat /\ WordBits - 1 \in Nat /\ HalfBits <= WordBits
  BY Widths
<1>2. TwoTo[4] = 16 /\ TwoTo[7] = 128
  <2>1. TwoTo[0] = 1
    BY TwoToIs
  <2>2. /\ TwoTo[1] = 2 * TwoTo[0] /\ TwoTo[2] = 2 * TwoTo[1] /\ TwoTo[3] = 2 * TwoTo[2]
        /\ TwoTo[4] = 2 * TwoTo[3] /\ TwoTo[5] = 2 * TwoTo[4] /\ TwoTo[6] = 2 * TwoTo[5]
        /\ TwoTo[7] = 2 * TwoTo[6]
    <3>1. \A n \in 1 .. 7 : TwoTo[n] = 2 * TwoTo[n - 1]
      BY TwoToType
    <3> QED  BY <3>1
  <2> QED  BY <2>1, <2>2
<1>3. TwoTo[4] <= TwoTo[HalfBits - 1] /\ TwoTo[7] <= TwoTo[WordBits]
  BY <1>1, TwoToGrows
<1>4. HalfBits # 0 /\ WordBits # 0
  BY <1>1
<1> QED  BY <1>1, <1>2, <1>3, <1>4, TwoToType

\* The bytes c behind the tag of a field are the value x: of a message, the bytes
\* it is written as.
IsContent(u, c, x) ==
    /\ c \in Seq(Octets)
    /\ u.kind \in Integral => x \in FieldRange(u.kind) /\ c = Varint[Word(x)]
    /\ u.kind = "bool" => x = TRUE /\ c = <<1>>
    /\ u.kind \in FixedKinds => x \in [1 .. Fixed(u.kind) -> Octets] /\ c = x
    /\ u.kind \notin Integral \cup FixedKinds \cup {"bool"} =>
           x \in Seq(Octets) /\ FitsInt(Len(x)) /\ c = Prefixed(x)

FoundAt(f, u, x, next) ==
    f = [ok |-> TRUE, known |-> TRUE, row |-> u, value |-> x, next |-> next]

LEMMA ContentIsRead ==
    ASSUME NEW u, u.kind \in Scalars \/ Embeds(u), NEW c, NEW x, IsContent(u, c, x),
           NEW p \in Seq(Octets), NEW s \in Seq(Octets)
    PROVE  FoundAt(Content(u, (p \o c) \o s, Len(p) + 1), u, x, Len(p \o c) + 1)
<1>1. WordBits \in Nat \ {0} /\ HalfBits \in Nat \ {0} /\ HalfBits <= WordBits /\ WordBits \in Nat
  BY WidthsAre
<1>2. PICK b : b = (p \o c) \o s
  OBVIOUS
<1>3. PICK i : i = Len(p) + 1
  OBVIOUS
<1>4. c \in Seq(Octets)
  BY DEF IsContent
<1>5. CASE u.kind \in Integral
  <2>1. x \in FieldRange(u.kind) /\ c = Varint[Word(x)]
    BY <1>5 DEF IsContent
  <2>2. PICK r : r = ReadVarint(b, i)
    OBVIOUS
  <2>3. r.ok = TRUE /\ r.next = Len(p \o c) + 1 /\ FromWord(u.kind, r.word) = x
    <3>2. r = ReadVarint((p \o Varint[Word(x)]) \o s, Len(p) + 1)
      BY <1>2, <1>3, <2>1, <2>2
    <3>3. NumberAt(ReadVarint((p \o Varint[Word(x)]) \o s, Len(p) + 1), u.kind, x,
                   Len(p \o Varint[Word(x)]) + 1)
      <4>1. x \in FieldRange(u.kind)
        BY <2>1
      <4> QED  BY <1>1, <1>5, <4>1, NumberIsRead, Zenon
    <3> QED  BY <2>1, <3>2, <3>3 DEF NumberAt
  <2>4. WireType(u.kind) = 0
    BY <1>5, WireTypeIs
  <2>5. Content(u, b, i) = [ok |-> TRUE, known |-> TRUE, row |-> u,
                            value |-> FromWord(u.kind, r.word), next |-> r.next]
    BY <2>2, <2>3, <2>4 DEF Content, Found, WordFound, BytesFound
  <2> QED  BY <1>2, <1>3, <2>3, <2>5 DEF FoundAt
<1>6. CASE u.kind = "bool"
  <2>1. x = TRUE /\ c = <<1>>
    BY <1>6 DEF IsContent
  <2>2. Varint[1] = <<1>> /\ 1 < TwoTo[WordBits]
    <3>1. 1 < TwoTo[WordBits]
      BY WidthsAre, SMTT(60)
    <3>2. Varint[1] = <<1>>
      BY VarintIs
    <3> QED  BY <3>1, <3>2
  <2>3. PICK r : r = ReadVarint(b, i)
    OBVIOUS
  <2>4. r = [ok |-> TRUE, next |-> Len(p \o c) + 1, word |-> 1]
    BY <1>1, <1>2, <1>3, <2>1, <2>2, <2>3, WordIsRead
  <2>5. WireType(u.kind) = 0
    BY <1>6, WireTypeIs
  <2>6. FromWord(u.kind, 1) = TRUE
    <3>1. u.kind \notin {"int32", "uint32"} /\ u.kind # "int64" /\ u.kind # "uint64"
      BY <1>6
    <3>2. FromWord(u.kind, 1) = (1 # 0)
      BY <1>6, <3>1, Zenon DEF FromWord
    <3>3. (1 # 0) = TRUE
      OBVIOUS
    <3> QED  BY <3>2, <3>3, Zenon
  <2>7. Content(u, b, i) = [ok |-> TRUE, known |-> TRUE, row |-> u,
                            value |-> FromWord(u.kind, r.word), next |-> r.next]
    <3>1. r.ok
      BY <2>4
    <3> QED  BY <2>3, <2>5, <3>1 DEF Content, Found, WordFound, BytesFound
  <2>8. r.word = 1 /\ r.next = Len(p \o c) + 1
    BY <2>4
  <2>9. FromWord(u.kind, r.word) = x
    BY <2>1, <2>6, <2>8, Zenon
  <2> QED  BY <1>2, <1>3, <2>7, <2>8, <2>9, Zenon DEF FoundAt
<1>7. CASE u.kind \in FixedKinds
  <2>1. x \in [1 .. Fixed(u.kind) -> Octets] /\ c = x /\ Fixed(u.kind) \in Nat
    BY <1>7 DEF IsContent, Fixed
  <2>2. PICK n : n = Fixed(u.kind)
    OBVIOUS
  <2>3. n \in Nat /\ n >= 1 /\ Len(c) = n /\ Len(p) \in Nat /\ Len(p \o c) = Len(p) + n
    BY <2>1, <2>2, SMTT(60) DEF Fixed
  <2>4. PICK end : end = i + n
    OBVIOUS
  <2>5. IsWritten(b, p, c, s)
    BY <1>2, <1>4, Written
  <2>6. /\ i \in Nat /\ i >= 1 /\ end - 1 \in Nat /\ i <= (end - 1) + 1 /\ end - 1 <= Len(b)
        /\ b \in Seq(Octets) /\ ~(end > Len(b) + 1) /\ end = Len(p \o c) + 1
    <3>1. b \in Seq(Octets) /\ Len(b) = Len(p) + Len(c) + Len(s) /\ Len(s) \in Nat
      BY <2>5 DEF IsWritten
    <3> QED  BY <1>3, <2>3, <2>4, <3>1, SMTT(60)
  <2>7. PartIs(b, i, end - 1, SubSeq(b, i, end - 1))
    BY <2>6, Parts
  <2>8. PICK y : y = SubSeq(b, i, end - 1)
    OBVIOUS
  <2>9. y = c
    <3>1. y \in Seq(Octets) /\ Len(y) = n
      BY <1>3, <2>3, <2>4, <2>7, <2>8 DEF PartIs
    <3>2. \A k \in 1 .. n : y[k] = b[Len(p) + k]
      <4>1. \A k \in 1 .. n : y[k] = b[i + k - 1]
        BY <1>3, <2>3, <2>4, <2>7, <2>8 DEF PartIs
      <4>2. \A k \in 1 .. n : i + k - 1 = Len(p) + k
        BY <1>3, <2>3
      <4> QED  BY <4>1, <4>2
    <3>3. \A k \in 1 .. n : b[Len(p) + k] = c[k]
      BY <2>3, <2>5 DEF IsWritten
    <3> QED  BY <1>4, <2>3, <3>1, <3>2, <3>3, SMTT(120)
  <2>10. WireType(u.kind) \in {1, 5} /\ WireType(u.kind) # 0
    BY <1>7, WireTypeIs DEF FixedKinds
  <2>11. Content(u, b, i) = [ok |-> TRUE, known |-> TRUE, row |-> u, value |-> y, next |-> end]
    BY <2>2, <2>4, <2>6, <2>8, <2>10 DEF Content, Found, WordFound, BytesFound
  <2> QED  BY <1>2, <1>3, <2>1, <2>6, <2>9, <2>11, Zenon DEF FoundAt
<1>8. CASE u.kind \notin Integral \cup FixedKinds \cup {"bool"}
  <2>1. x \in Seq(Octets) /\ Len(x) < TwoTo[WordBits - 1] /\ c = Prefixed(x)
    BY <1>8 DEF IsContent, FitsInt
  <2>2. PICK r : r = ReadLength(b, i)
    OBVIOUS
  <2>3. r.ok = TRUE /\ r.next = Len(p \o c) + 1 /\ SubSeq(b, r.from, r.next - 1) = x
    <3>1. b = (p \o Prefixed(x)) \o s /\ r = ReadLength(b, Len(p) + 1)
      BY <1>2, <1>3, <2>1, <2>2
    <3>2. BytesAt((p \o Prefixed(x)) \o s, ReadLength((p \o Prefixed(x)) \o s, Len(p) + 1), x,
                  Len(p \o Prefixed(x)) + 1)
      BY <1>1, <2>1, BytesAreRead
    <3> QED  BY <2>1, <3>1, <3>2 DEF BytesAt
  <2>4. WireType(u.kind) = 2
    BY <1>8, WireTypeIs DEF FixedKinds
  <2>5. Content(u, b, i) = [ok |-> TRUE, known |-> TRUE, row |-> u,
                            value |-> SubSeq(b, r.from, r.next - 1), next |-> r.next]
    BY <2>2, <2>3, <2>4 DEF Content, Found, WordFound, BytesFound
  <2> QED  BY <1>2, <1>3, <2>3, <2>5 DEF FoundAt
<1> QED  BY <1>5, <1>6, <1>7, <1>8

LEMMA TagIs ==
    ASSUME NEW u, NEW row, RowReads(row, u), NEW w, w = row.tag
    PROVE  /\ w \in Nat /\ w < 128 /\ w % 8 = WireType(u.kind) /\ w % 8 # 4 /\ w \in Octets
           /\ u.number > 0 /\ Signed((w \div 8) % TwoTo[HalfBits], HalfBits) = u.number
<1>1. /\ w \in Nat /\ w < 128 /\ w \div 8 = u.number /\ w % 8 = WireType(u.kind)
      /\ u.number \in 1 .. 15 /\ WireType(u.kind) \in {0, 1, 2, 5}
  <2>1. WireType(u.kind) \in {0, 1, 2, 5}
    BY WireTypeIs
  <2>2. u.number \in 1 .. 15 /\ w = 8 * u.number + WireType(u.kind)
    BY DEF RowReads
  <2>3. \A n \in 1 .. 15 : \A k \in {0, 1, 2, 5} :
            /\ 8 * n + k \in Nat /\ 8 * n + k < 128
            /\ (8 * n + k) \div 8 = n /\ (8 * n + k) % 8 = k
    OBVIOUS
  <2> QED  BY <2>1, <2>2, <2>3, ZenonT(60)
<1>2. u.number \in Nat /\ u.number < TwoTo[HalfBits - 1] /\ u.number < TwoTo[HalfBits]
      /\ TwoTo[HalfBits] \in Nat
  BY <1>1, WidthsAre
<1>3. u.number % TwoTo[HalfBits] = u.number
  BY <1>2, SmallRemainder
<1>4. Signed((w \div 8) % TwoTo[HalfBits], HalfBits) = u.number
  BY <1>1, <1>2, <1>3 DEF Signed
<1> QED  BY <1>1, <1>4 DEF Octets

FieldFrom(t, u, b, i, j) == FieldAt(t, b, i) = Content(u, b, j)

LEMMA TagIsRead ==
    ASSUME NEW t \in Types, NEW u \in Unmarshals[t], NEW row, RowReads(row, u),
           NEW p \in Seq(Octets), NEW d \in Seq(Octets), NEW b, b = (p \o <<row.tag>>) \o d
    PROVE  FieldFrom(t, u, b, Len(p) + 1, Len(p \o <<row.tag>>) + 1)
<1>1. PICK w : w = row.tag
  OBVIOUS
<1>2. /\ w \in Nat /\ w < 128 /\ w % 8 = WireType(u.kind) /\ w % 8 # 4
      /\ u.number > 0 /\ Signed((w \div 8) % TwoTo[HalfBits], HalfBits) = u.number
  BY <1>1, TagIs
<1>3. Varint[w] = <<w>>
  BY <1>2, VarintIs
<1>4. PICK r : r = ReadVarint(b, Len(p) + 1)
  OBVIOUS
<1>5. r = [ok |-> TRUE, next |-> Len(p \o <<w>>) + 1, word |-> w]
  <2>1. w < TwoTo[WordBits] /\ WordBits \in Nat \ {0} /\ w \in Nat
    BY <1>2, WidthsAre, SMTT(40)
  <2>2. ReadVarint((p \o Varint[w]) \o d, Len(p) + 1)
            = [ok |-> TRUE, next |-> Len(p \o Varint[w]) + 1, word |-> w]
    BY <2>1, WordIsRead, Zenon
  <2> QED  BY <1>1, <1>3, <1>4, <2>2, Zenon
<1>6. {r1 \in Unmarshals[t] : r1.number = u.number} = {u}
  <2>1. \A r1 \in Unmarshals[t] : r1.number = u.number => r1 = u
    BY TablesOfMessages DEF RowsAgree, RowsRead
  <2> QED  BY <2>1
<1>7. FieldAt(t, b, Len(p) + 1) = Content(u, b, r.next)
  <2>1. r.ok = TRUE /\ r.word = w
    BY <1>5
  <2>2. w % 8 # 4 /\ ~(u.number <= 0)
    <3>1. u.number \in Int
      BY SMTT(60) DEF RowReads
    <3> QED  BY <1>2, <3>1, SMTT(60)
  <2>3. (CHOOSE r1 \in {u} : TRUE) = u
    OBVIOUS
  <2>4. {u} # {}
    OBVIOUS
  <2> QED  BY <1>2, <1>4, <1>6, <2>1, <2>2, <2>3, <2>4 DEF FieldAt, FieldWith, NumberOf
<1>8. r.next = Len(p \o <<w>>) + 1
  BY <1>5
<1> QED  BY <1>1, <1>7, <1>8, Zenon DEF FieldFrom

LEMMA FieldIsRead ==
    ASSUME NEW t \in Types, NEW u \in Unmarshals[t], NEW row, RowReads(row, u),
           NEW c, NEW x, IsContent(u, c, x), NEW p \in Seq(Octets), NEW s \in Seq(Octets)
    PROVE  FoundAt(FieldAt(t, (p \o (<<row.tag>> \o c)) \o s, Len(p) + 1), u, x,
                   Len(p \o (<<row.tag>> \o c)) + 1)
<1>1. PICK w : w = row.tag
  OBVIOUS
<1>2. u.kind \in Scalars \/ Embeds(u)
  BY DEF RowReads
<1>3. c \in Seq(Octets) /\ <<w>> \in Seq(Octets)
  <2>1. w \in Octets
    BY <1>1, TagIs
  <2> QED  BY <2>1 DEF IsContent
<1>4. PICK b : b = (p \o (<<w>> \o c)) \o s
  OBVIOUS
<1>5. /\ b = (p \o <<w>>) \o (c \o s) /\ c \o s \in Seq(Octets) /\ p \o <<w>> \in Seq(Octets)
      /\ b = ((p \o <<w>>) \o c) \o s /\ p \o (<<w>> \o c) = (p \o <<w>>) \o c
  <2>1. AreJoined(p, <<w>>, c)
    BY <1>3, Joining
  <2>2. p \o <<w>> \in Seq(Octets)
    BY <2>1 DEF AreJoined
  <2>3. AreJoined(p \o <<w>>, c, s)
    BY <1>3, <2>2, Joining
  <2> QED  BY <1>4, <2>1, <2>2, <2>3, Zenon DEF AreJoined
<1>6. FieldAt(t, b, Len(p) + 1) = Content(u, b, Len(p \o <<w>>) + 1)
  <2>1. PICK d \in Seq(Octets) : d = c \o s
    BY <1>5
  <2>2. b = (p \o <<row.tag>>) \o d
    BY <1>1, <1>5, <2>1
  <2>3. FieldFrom(t, u, b, Len(p) + 1, Len(p \o <<row.tag>>) + 1)
    BY <2>2, TagIsRead
  <2> QED  BY <1>1, <2>3, Zenon DEF FieldFrom
<1>7. FoundAt(Content(u, b, Len(p \o <<w>>) + 1), u, x, Len((p \o <<w>>) \o c) + 1)
  BY <1>2, <1>5, ContentIsRead
<1> QED  BY <1>1, <1>4, <1>5, <1>6, <1>7, Zenon

-----------------------------------------------------------------------------
(* The loop of Unmarshal.                                                  *)

UnmarshalAt(l, t, m, b) ==
    CASE l = 0 -> Unmarshal0(t, m, b)
      [] l = 1 -> Unmarshal1(t, m, b)
      [] l = 2 -> Unmarshal2(t, m, b)
      [] l = 3 -> Unmarshal3(t, m, b)
      [] l = 4 -> Unmarshal4(t, m, b)
      [] OTHER -> Unmarshal(t, m, b)

\* The states of the loop, and the function of its rounds.
State(i, x) == [ok |-> TRUE, at |-> i, msg |-> x]
EmbeddedIn(l, t, b, s) ==
    LET f == FieldAt(t, b, s.at)
    IN UnmarshalAt(l - 1, f.row.kind, Target(f.row, s.msg[f.row.name]), f.value)
NextState(l, t, b, s) ==
    IF Decoded(b, s) THEN s ELSE Round(s, FieldAt(t, b, s.at), EmbeddedIn(l, t, b, s))
LoopBody(F, l, t, m, b, n) ==
    [k \in 0 .. n |-> IF k = 0 THEN State(1, m) ELSE NextState(l, t, b, F[k - 1])]
IsLoop(F, l, t, m, b) == F = LoopBody(F, l, t, m, b, Len(b))
Ended(F, b) ==
    LET end == F[CHOOSE k \in 0 .. Len(b) : Decoded(b, F[k])]
    IN IF end.ok THEN [ok |-> TRUE, msg |-> end.msg] ELSE Fail

LEMMA LoopExists ==
    ASSUME NEW l, NEW t, NEW m, NEW b, NEW n \in Nat
    PROVE  \E F : F = LoopBody(F, l, t, m, b, n)
<1> DEFINE T == {h \in Nat : ~ \E F : F = LoopBody(F, l, t, m, b, h)}
<1>1. T = {}
  <2> SUFFICES ASSUME T # {} PROVE FALSE
    OBVIOUS
  <2>1. PICK h \in T : \A k \in T : h <= k
    <3>1. T \in SUBSET Nat
      OBVIOUS
    <3> HIDE DEF T
    <3> QED  BY <3>1, LeastNumber
  <2>2. h \in Nat /\ ~ \E F : F = LoopBody(F, l, t, m, b, h)
    OBVIOUS
  <2>3. h # 0
    <3> DEFINE F0 == [k \in 0 .. 0 |-> State(1, m)]
    <3>1. F0 = LoopBody(F0, l, t, m, b, 0)
      BY DEF LoopBody
    <3> HIDE DEF F0
    <3> QED  BY <2>2, <3>1
  <2>4. PICK F : F = LoopBody(F, l, t, m, b, h - 1)
    <3>1. h - 1 \in Nat /\ ~(h <= h - 1)
      BY <2>2, <2>3
    <3> QED  BY <2>1, <3>1
  <2> DEFINE G == [k \in 0 .. h |-> IF k = 0 THEN State(1, m) ELSE NextState(l, t, b, F[k - 1])]
  <2>5. \A k \in 0 .. h - 1 : F[k] = G[k]
    <3>1. \A k \in 0 .. h - 1 : F[k] = IF k = 0 THEN State(1, m) ELSE NextState(l, t, b, F[k - 1])
      BY <2>4 DEF LoopBody
    <3> QED  BY <2>2, <3>1
  <2>6. G = LoopBody(G, l, t, m, b, h)
    <3>1. \A k \in 0 .. h : k # 0 => F[k - 1] = G[k - 1]
      <4> HIDE DEF G
      <4> QED  BY <2>2, <2>5
    <3> QED  BY <3>1 DEF LoopBody
  <2> QED  BY <2>2, <2>6
<1> QED  BY <1>1

LEMMA UnmarshalLevel ==
    ASSUME NEW l \in 1 .. 5, NEW t, NEW m, NEW b \in Seq(Octets)
    PROVE  \E F : IsLoop(F, l, t, m, b) /\ UnmarshalAt(l, t, m, b) = Ended(F, b)
<1>1. Len(b) \in Nat
  OBVIOUS
<1>2. CASE l = 1
  <2> DEFINE B(F) == [k \in 0 .. Len(b) |->
                         IF k = 0 THEN [ok |-> TRUE, at |-> 1, msg |-> m]
                         ELSE LET s == F[k - 1]
                              IN IF Decoded(b, s) THEN s
                                 ELSE RoundWith(Unmarshal0, s, FieldAt(t, b, s.at))]
  <2>1. \A x, y, z : UnmarshalAt(0, x, y, z) = Unmarshal0(x, y, z)
    BY DEF UnmarshalAt
  <2>2. UnmarshalAt(l, t, m, b) = Unmarshal1(t, m, b) /\ l - 1 = 0
    BY <1>2 DEF UnmarshalAt
  <2>3. \A F : B(F) = LoopBody(F, l, t, m, b, Len(b))
    BY <2>1, <2>2, ZenonT(60) DEF LoopBody, NextState, EmbeddedIn, RoundWith, State
  <2>4. PICK F : F = CHOOSE G : G = B(G)
    OBVIOUS
  <2>5. Unmarshal1(t, m, b) = Ended(F, b)
    BY <2>4 DEF Unmarshal1, UnmarshalWith, Outcome, Ended
  <2>6. F = B(F)
    <3> HIDE DEF B
    <3>1. PICK H : H = LoopBody(H, l, t, m, b, Len(b))
      BY <1>1, LoopExists, ZenonT(60)
    <3>2. H = B(H)
      BY <2>3, <3>1
    <3> QED  BY <2>4, <3>2
  <2>7. IsLoop(F, l, t, m, b)
    BY <2>3, <2>6, Zenon DEF IsLoop
  <2> QED  BY <2>2, <2>5, <2>7
<1>3. CASE l = 2
  <2> DEFINE B(F) == [k \in 0 .. Len(b) |->
                         IF k = 0 THEN [ok |-> TRUE, at |-> 1, msg |-> m]
                         ELSE LET s == F[k - 1]
                              IN IF Decoded(b, s) THEN s
                                 ELSE RoundWith(Unmarshal1, s, FieldAt(t, b, s.at))]
  <2>1. \A x, y, z : UnmarshalAt(1, x, y, z) = Unmarshal1(x, y, z)
    BY DEF UnmarshalAt
  <2>2. UnmarshalAt(l, t, m, b) = Unmarshal2(t, m, b) /\ l - 1 = 1
    BY <1>3 DEF UnmarshalAt
  <2>3. \A F : B(F) = LoopBody(F, l, t, m, b, Len(b))
    BY <2>1, <2>2, ZenonT(60) DEF LoopBody, NextState, EmbeddedIn, RoundWith, State
  <2>4. PICK F : F = CHOOSE G : G = B(G)
    OBVIOUS
  <2>5. Unmarshal2(t, m, b) = Ended(F, b)
    BY <2>4 DEF Unmarshal2, UnmarshalWith, Outcome, Ended
  <2>6. F = B(F)
    <3> HIDE DEF B
    <3>1. PICK H : H = LoopBody(H, l, t, m, b, Len(b))
      BY <1>1, LoopExists, ZenonT(60)
    <3>2. H = B(H)
      BY <2>3, <3>1
    <3> QED  BY <2>4, <3>2
  <2>7. IsLoop(F, l, t, m, b)
    BY <2>3, <2>6, Zenon DEF IsLoop
  <2> QED  BY <2>2, <2>5, <2>7
<1>4. CASE l = 3
  <2> DEFINE B(F) == [k \in 0 .. Len(b) |->
                         IF k = 0 THEN [ok |-> TRUE, at |-> 1, msg |-> m]
                         ELSE LET s == F[k - 1]
                              IN IF Decoded(b, s) THEN s
                                 ELSE RoundWith(Unmarshal2, s, FieldAt(t, b, s.at))]
  <2>1. \A x, y, z : UnmarshalAt(2, x, y, z) = Unmarshal2(x, y, z)
    BY DEF UnmarshalAt
  <2>2. UnmarshalAt(l, t, m, b) = Unmarshal3(t, m, b) /\ l - 1 = 2
    BY <1>4 DEF UnmarshalAt
  <2>3. \A F : B(F) = LoopBody(F, l, t, m, b, Len(b))
    BY <2>1, <2>2, ZenonT(60) DEF LoopBody, NextState, EmbeddedIn, RoundWith, State
  <2>4. PICK F : F = CHOOSE G : G = B(G)
    OBVIOUS
  <2>5. Unmarshal3(t, m, b) = Ended(F, b)
    BY <2>4 DEF Unmarshal3, UnmarshalWith, Outcome, Ended
  <2>6. F = B(F)
    <3> HIDE DEF B
    <3>1. PICK H : H = LoopBody(H, l, t, m, b, Len(b))
      BY <1>1, LoopExists, ZenonT(60)
    <3>2. H = B(H)
      BY <2>3, <3>1
    <3> QED  BY <2>4, <3>2
  <2>7. IsLoop(F, l, t, m, b)
    BY <2>3, <2>6, Zenon DEF IsLoop
  <2> QED  BY <2>2, <2>5, <2>7
<1>5. CASE l = 4
  <2> DEFINE B(F) == [k \in 0 .. Len(b) |->
                         IF k = 0 THEN [ok |-> TRUE, at |-> 1, msg |-> m]
                         ELSE LET s == F[k - 1]
                              IN IF Decoded(b, s) THEN s
                                 ELSE RoundWith(Unmarshal3, s, FieldAt(t, b, s.at))]
  <2>1. \A x, y, z : UnmarshalAt(3, x, y, z) = Unmarshal3(x, y, z)
    BY DEF UnmarshalAt
  <2>2. UnmarshalAt(l, t, m, b) = Unmarshal4(t, m, b) /\ l - 1 = 3
    BY <1>5 DEF UnmarshalAt
  <2>3. \A F : B(F) = LoopBody(F, l, t, m, b, Len(b))
    BY <2>1, <2>2, ZenonT(60) DEF LoopBody, NextState, EmbeddedIn, RoundWith, State
  <2>4. PICK F : F = CHOOSE G : G = B(G)
    OBVIOUS
  <2>5. Unmarshal4(t, m, b) = Ended(F, b)
    BY <2>4 DEF Unmarshal4, UnmarshalWith, Outcome, Ended
  <2>6. F = B(F)
    <3> HIDE DEF B
    <3>1. PICK H : H = LoopBody(H, l, t, m, b, Len(b))
      BY <1>1, LoopExists, ZenonT(60)
    <3>2. H = B(H)
      BY <2>3, <3>1
    <3> QED  BY <2>4, <3>2
  <2>7. IsLoop(F, l, t, m, b)
    BY <2>3, <2>6, Zenon DEF IsLoop
  <2> QED  BY <2>2, <2>5, <2>7
<1>6. CASE l = 5
  <2> DEFINE B(F) == [k \in 0 .. Len(b) |->
                         IF k = 0 THEN [ok |-> TRUE, at |-> 1, msg |-> m]
                         ELSE LET s == F[k - 1]
                              IN IF Decoded(b, s) THEN s
                                 ELSE RoundWith(Unmarshal4, s, FieldAt(t, b, s.at))]
  <2>1. \A x, y, z : UnmarshalAt(4, x, y, z) = Unmarshal4(x, y, z)
    BY DEF UnmarshalAt
  <2>2. UnmarshalAt(l, t, m, b) = Unmarshal(t, m, b) /\ l - 1 = 4
    BY <1>6 DEF UnmarshalAt
  <2>3. \A F : B(F) = LoopBody(F, l, t, m, b, Len(b))
    BY <2>1, <2>2, ZenonT(60) DEF LoopBody, NextState, EmbeddedIn, RoundWith, State
  <2>4. PICK F : F = CHOOSE G : G = B(G)
    OBVIOUS
  <2>5. Unmarshal(t, m, b) = Ended(F, b)
    BY <2>4 DEF Unmarshal, UnmarshalWith, Outcome, Ended
  <2>6. F = B(F)
    <3> HIDE DEF B
    <3>1. PICK H : H = LoopBody(H, l, t, m, b, Len(b))
      BY <1>1, LoopExists, ZenonT(60)
    <3>2. H = B(H)
      BY <2>3, <3>1
    <3> QED  BY <2>4, <3>2
  <2>7. IsLoop(F, l, t, m, b)
    BY <2>3, <2>6, Zenon DEF IsLoop
  <2> QED  BY <2>2, <2>5, <2>7
<1> QED  BY <1>2, <1>3, <1>4, <1>5, <1>6

LEMMA LoopIs ==
    ASSUME NEW F, NEW l, NEW t, NEW m, NEW b \in Seq(Octets), IsLoop(F, l, t, m, b)
    PROVE  /\ F[0] = State(1, m)
           /\ \A k \in 1 .. Len(b) : F[k] = NextState(l, t, b, F[k - 1])
<1>1. Len(b) \in Nat /\ F = LoopBody(F, l, t, m, b, Len(b))
  BY DEF IsLoop
<1> QED  BY <1>1 DEF LoopBody

\* The state in which the loop has ended is that of all further rounds.
LEMMA LoopStays ==
    ASSUME NEW F, NEW l, NEW t, NEW m, NEW b \in Seq(Octets), IsLoop(F, l, t, m, b),
           NEW k \in 0 .. Len(b), Decoded(b, F[k]), NEW h \in k .. Len(b)
    PROVE  F[h] = F[k]
<1> DEFINE T == {i \in k .. Len(b) : F[i] # F[k]}
<1>1. T = {}
  <2> SUFFICES ASSUME T # {} PROVE FALSE
    OBVIOUS
  <2>1. PICK i \in T : \A j \in T : i <= j
    <3>1. T \in SUBSET Nat
      OBVIOUS
    <3> HIDE DEF T
    <3> QED  BY <3>1, LeastNumber
  <2>2. i \in k .. Len(b) /\ F[i] # F[k] /\ k \in Nat /\ Len(b) \in Nat
    OBVIOUS
  <2>3. i - 1 \in k .. Len(b) /\ ~(i <= i - 1) /\ i \in 1 .. Len(b)
    BY <2>2
  <2>4. F[i - 1] = F[k]
    BY <2>1, <2>3
  <2>5. F[i] = NextState(l, t, b, F[i - 1])
    BY <2>3, LoopIs
  <2> QED  BY <2>2, <2>4, <2>5 DEF NextState
<1> QED  BY <1>1

LEMMA LoopEnds ==
    ASSUME NEW F, NEW l, NEW t, NEW m, NEW b \in Seq(Octets), IsLoop(F, l, t, m, b),
           NEW k \in 0 .. Len(b), Decoded(b, F[k])
    PROVE  Ended(F, b) = IF F[k].ok THEN [ok |-> TRUE, msg |-> F[k].msg] ELSE Fail
<1>1. PICK h : h = CHOOSE i \in 0 .. Len(b) : Decoded(b, F[i])
  OBVIOUS
<1>2. h \in 0 .. Len(b) /\ Decoded(b, F[h])
  BY <1>1
<1>3. Len(b) \in Nat
  OBVIOUS
<1>4. h \in k .. Len(b) \/ k \in h .. Len(b)
  BY <1>2, <1>3
<1>5. F[h] = F[k]
  BY <1>2, <1>4, LoopStays
<1>6. Ended(F, b) = IF F[h].ok THEN [ok |-> TRUE, msg |-> F[h].msg] ELSE Fail
  BY <1>1 DEF Ended
<1> QED  BY <1>5, <1>6

\* A round that finds a field of the message.
TakenOf(u, v, old, y) ==
    IF ~Embeds(u) THEN v ELSE IF u.repeated THEN Append(old, y) ELSE <<y>>

IsDecoded(l, t, m, b, y) == UnmarshalAt(l, t, m, b) = [ok |-> TRUE, msg |-> y]
TakesTo(F, b, k, u, v, x, y, j) ==
    /\ k + 1 \in 0 .. Len(b)
    /\ F[k + 1] = State(j, [x EXCEPT ![u.name] = TakenOf(u, v, x[u.name], y)])

LEMMA LoopTakes ==
    ASSUME NEW F, NEW l, NEW t, NEW m, NEW b \in Seq(Octets), IsLoop(F, l, t, m, b),
           NEW k \in 0 .. Len(b), NEW i \in Nat, NEW x, F[k] = State(i, x), k < i, i <= Len(b),
           NEW u, NEW v, NEW j, FoundAt(FieldAt(t, b, i), u, v, j),
           NEW y, Embeds(u) => IsDecoded(l - 1, u.kind, Target(u, x[u.name]), v, y)
    PROVE  TakesTo(F, b, k, u, v, x, y, j)
<1>1. k + 1 \in 1 .. Len(b) /\ (k + 1) - 1 = k /\ Len(b) \in Nat
  OBVIOUS
<1>2. F[k + 1] = NextState(l, t, b, F[k])
  BY <1>1, LoopIs
<1>3. PICK s : s = F[k]
  OBVIOUS
<1>4. s.ok = TRUE /\ s.at = i /\ s.msg = x
  BY <1>3 DEF State
<1>5. ~Decoded(b, s)
  BY <1>1, <1>4 DEF Decoded
<1>6. PICK f : f = FieldAt(t, b, i)
  OBVIOUS
<1>7. f.ok = TRUE /\ f.known = TRUE /\ f.row = u /\ f.value = v /\ f.next = j
  BY <1>6 DEF FoundAt
<1>8. PICK e : e = EmbeddedIn(l, t, b, s)
  OBVIOUS
<1>9. Embeds(u) => e.ok = TRUE /\ e.msg = y
  <2>1. e = UnmarshalAt(l - 1, u.kind, Target(u, x[u.name]), v)
    BY <1>4, <1>6, <1>7, <1>8, Zenon DEF EmbeddedIn
  <2> QED  BY <2>1 DEF IsDecoded
<1>10. Taken(f, x[u.name], e) = TakenOf(u, v, x[u.name], y)
  BY <1>7, <1>9, Zenon DEF Taken, TakenOf
<1>11. F[k + 1] = Round(s, f, e)
  BY <1>2, <1>3, <1>4, <1>5, <1>6, <1>8 DEF NextState
<1>12. Round(s, f, e) =
           [ok |-> TRUE, at |-> f.next,
            msg |-> [s.msg EXCEPT ![f.row.name] = Taken(f, s.msg[f.row.name], e)]]
  <2>1. f.ok /\ f.known /\ ~(Embeds(f.row) /\ ~e.ok)
    BY <1>7, <1>9, Zenon
  <2> QED  BY <2>1 DEF Round
<1>13. f.next = j /\ f.row = u /\ s.msg = x
  BY <1>4, <1>7
<1>14. PICK z : z = Taken(f, s.msg[f.row.name], e)
  OBVIOUS
<1>15. z = TakenOf(u, v, x[u.name], y)
  BY <1>10, <1>13, <1>14, Zenon
<1>16. F[k + 1] = [ok |-> TRUE, at |-> f.next, msg |-> [s.msg EXCEPT ![f.row.name] = z]]
  BY <1>11, <1>12, <1>14, Zenon
<1>17. F[k + 1] = State(j, [x EXCEPT ![u.name] = z])
  BY <1>13, <1>16, Zenon DEF State
<1>18. F[k + 1] = State(j, [x EXCEPT ![u.name] = TakenOf(u, v, x[u.name], y)])
  BY <1>15, <1>17
<1> QED  BY <1>1, <1>18 DEF TakesTo

\* A round that passes over a field that is not known.
LEMMA LoopPasses ==
    ASSUME NEW F, NEW l, NEW t, NEW m, NEW b \in Seq(Octets), IsLoop(F, l, t, m, b),
           NEW k \in 0 .. Len(b), NEW i \in Nat, NEW x, F[k] = State(i, x), k < i, i <= Len(b),
           NEW j, FieldAt(t, b, i) = [ok |-> TRUE, known |-> FALSE, next |-> j]
    PROVE  k + 1 \in 0 .. Len(b) /\ F[k + 1] = State(j, x)
<1>1. k + 1 \in 1 .. Len(b) /\ (k + 1) - 1 = k /\ Len(b) \in Nat
  OBVIOUS
<1>2. F[k + 1] = NextState(l, t, b, F[k])
  BY <1>1, LoopIs
<1>3. PICK s : s = F[k]
  OBVIOUS
<1>4. s = State(i, x) /\ s.ok = TRUE /\ s.at = i /\ s.msg = x
  BY <1>3 DEF State
<1>5. ~Decoded(b, s)
  BY <1>1, <1>4 DEF Decoded
<1>6. PICK f : f = FieldAt(t, b, i)
  OBVIOUS
<1>7. f.ok = TRUE /\ f.known = FALSE /\ f.next = j
  BY <1>6
<1>8. PICK e : e = EmbeddedIn(l, t, b, s)
  OBVIOUS
<1>9. F[k + 1] = Round(s, f, e)
  BY <1>2, <1>3, <1>4, <1>5, <1>6, <1>8 DEF NextState
<1>10. Round(s, f, e) = [s EXCEPT !.at = f.next]
  <2>1. f.ok /\ ~f.known
    BY <1>7, Zenon
  <2> QED  BY <2>1 DEF Round
<1>11. [s EXCEPT !.at = f.next] = State(j, x)
  <2>1. f.next = j
    BY <1>7
  <2>2. PICK z : z = TRUE
    OBVIOUS
  <2>3. \A h : State(h, x) = [ok |-> z, at |-> h, msg |-> x]
    BY <2>2, Zenon DEF State
  <2>4. [s EXCEPT !.at = j] = State(j, x)
    BY <1>4, <2>3
  <2> QED  BY <2>1, <2>4, Zenon
<1> QED  BY <1>1, <1>9, <1>10, <1>11

-----------------------------------------------------------------------------
(* The elements of a row: what is written for its value, or for each of    *)
(* the messages in it.                                                     *)

LEMMA FlattenOne ==
    ASSUME NEW S, NEW c \in Seq(S)
    PROVE  FlattenSeq([j \in 1 .. 1 |-> c]) = c
<1> DEFINE F == [j \in 1 .. 1 |-> c]
<1>1. F \in [1 .. 1 -> Seq(S)] /\ F[1] = c /\ F = [j \in 1 .. 1 |-> F[j]]
  OBVIOUS
<1>2. [j \in 1 .. 0 |-> F[j]] = <<>>
  OBVIOUS
<1> HIDE DEF F
<1>3. UpToIs(S, F, 1) /\ UpToIs(S, F, 0)
  <2>1. 1 \in Nat /\ 1 \in 0 .. 1 /\ 0 \in 0 .. 1
    OBVIOUS
  <2> QED  BY <1>1, <2>1, UpToGrows, Zenon
<1>4. UpTo(F, 1) = UpTo(F, 0) \o F[1] /\ UpTo(F, 0) = <<>>
  BY <1>3 DEF UpToIs
<1>5. UpTo(F, 1) = c
  BY <1>1, <1>4
<1> QED  BY <1>1, <1>5 DEF UpTo, F

Continues(S, F, k, h) == \E r \in Seq(S) : UpTo(F, h) = UpTo(F, k) \o r

LEMMA FlattenSplit ==
    ASSUME NEW S, NEW n \in Nat, NEW F \in [1 .. n -> Seq(S)], NEW k \in 0 .. n, NEW h \in k .. n
    PROVE  Continues(S, F, k, h)
<1> DEFINE T == {i \in k .. n : ~ \E r \in Seq(S) : UpTo(F, i) = UpTo(F, k) \o r}
<1>1. T = {}
  <2> SUFFICES ASSUME T # {} PROVE FALSE
    OBVIOUS
  <2>1. PICK i \in T : \A j \in T : i <= j
    <3>1. T \in SUBSET Nat
      OBVIOUS
    <3> HIDE DEF T
    <3> QED  BY <3>1, LeastNumber
  <2>2. i \in k .. n /\ ~ \E r \in Seq(S) : UpTo(F, i) = UpTo(F, k) \o r
    OBVIOUS
  <2>3. i \in 0 .. n /\ UpToIs(S, F, k) /\ UpToIs(S, F, i)
    BY <2>2, UpToGrows, SMTT(60)
  <2>4. UpTo(F, k) \in Seq(S)
    BY <2>3 DEF UpToIs
  <2>5. i # k
    <3>1. UpTo(F, k) = UpTo(F, k) \o <<>> /\ <<>> \in Seq(S)
      BY <2>4
    <3> QED  BY <2>2, <3>1
  <2>6. i - 1 \in k .. n /\ ~(i <= i - 1) /\ i \in 1 .. n /\ i # 0
    BY <2>2, <2>5
  <2>7. PICK r \in Seq(S) : UpTo(F, i - 1) = UpTo(F, k) \o r
    BY <2>1, <2>6
  <2>8. F[i] \in Seq(S) /\ UpTo(F, i) = UpTo(F, i - 1) \o F[i]
    BY <2>3, <2>6 DEF UpToIs
  <2>9. r \o F[i] \in Seq(S) /\ UpTo(F, i) = UpTo(F, k) \o (r \o F[i])
    <3>1. ASSUME NEW a \in Seq(S), NEW c \in Seq(S), NEW d \in Seq(S)
          PROVE  (a \o c) \o d = a \o (c \o d) /\ c \o d \in Seq(S)
      BY SMTT(40)
    <3>2. PICK a \in Seq(S) : a = UpTo(F, k)
      BY <2>4
    <3>3. PICK d \in Seq(S) : d = F[i]
      BY <2>8
    <3>4. (a \o r) \o d = a \o (r \o d) /\ r \o d \in Seq(S)
      BY <3>1, ZenonT(60)
    <3> QED  BY <2>7, <2>8, <3>2, <3>3, <3>4, Zenon
  <2> QED  BY <2>2, <2>9
<1> QED  BY <1>1 DEF Continues

LEMMA ZeroIs ==
    ASSUME NEW u
    PROVE  /\ u.kind \in Integral => ZeroOf(u) = 0
           /\ u.kind = "bool" => ZeroOf(u) = FALSE
           /\ u.kind \in FixedKinds => ZeroOf(u) = ZeroBytes(u.kind)
           /\ u.kind \notin Integral \cup FixedKinds \cup {"bool"} => ZeroOf(u) = <<>>
<1>1. u.kind = "bool" => u.kind \notin Integral
  BY DEF Integral
<1>2. u.kind \in FixedKinds => u.kind \notin Integral /\ u.kind # "bool"
  BY DEF Integral, FixedKinds
<1> QED  BY <1>1, <1>2, Zenon DEF ZeroOf

LEMMA ZeroIsValue ==
    ASSUME NEW u, u.kind \in Scalars \/ Embeds(u)
    PROVE  IsValue(u, ZeroOf(u))
<1>1. CASE u.kind \in Integral
  <2>1. ZeroOf(u) = 0 /\ u.kind \notin FixedKinds /\ u.kind # "bool" /\ u.kind # "bytes" /\ u.kind \in Scalars
    BY <1>1, ZeroIs DEF Integral, FixedKinds, Scalars
  <2>2. 0 \in FieldRange(u.kind)
    <3>1. /\ 0 \in -TwoTo[HalfBits - 1] .. TwoTo[HalfBits - 1] - 1
          /\ 0 \in 0 .. TwoTo[HalfBits] - 1
          /\ 0 \in -TwoTo[WordBits - 1] .. TwoTo[WordBits - 1] - 1
          /\ 0 \in 0 .. TwoTo[WordBits] - 1
      BY WidthsAre
    <3>2. u.kind = "int32" => 0 \in FieldRange(u.kind)
      BY <3>1, Zenon DEF FieldRange
    <3>3. u.kind = "uint32" => 0 \in FieldRange(u.kind)
      BY <3>1 DEF FieldRange
    <3>4. u.kind = "int64" => 0 \in FieldRange(u.kind)
      BY <3>1 DEF FieldRange
    <3>5. u.kind = "uint64" => 0 \in FieldRange(u.kind)
      BY <3>1 DEF FieldRange
    <3> QED  BY <1>1, <3>2, <3>3, <3>4, <3>5 DEF Integral
  <2>3. ValueOf(u, 0)
    BY <2>1, <2>2 DEF ValueOf
  <2> QED  BY <2>1, <2>3, ValueIs
<1>2. CASE u.kind = "bool"
  <2>1. ZeroOf(u) = FALSE /\ u.kind \notin FixedKinds /\ u.kind \notin Integral /\ u.kind # "bytes" /\ u.kind \in Scalars
    BY <1>2, ZeroIs DEF Integral, FixedKinds, Scalars
  <2>2. ValueOf(u, FALSE)
    BY <2>1, Zenon DEF ValueOf
  <2> QED  BY <2>1, <2>2, ValueIs, Zenon
<1>3. CASE u.kind \in FixedKinds
  <2>1. ZeroOf(u) = ZeroBytes(u.kind) /\ u.kind # "bool" /\ u.kind \notin Integral /\ u.kind # "bytes" /\ u.kind \in Scalars
    BY <1>3, ZeroIs DEF Integral, FixedKinds, Scalars
  <2>2. ZeroBytes(u.kind) \in [1 .. Fixed(u.kind) -> Octets]
    BY DEF ZeroBytes, Octets
  <2>3. IsFloat(u.kind, ZeroBytes(u.kind))
    <3>1. Fixed(u.kind) \in {4, 8}
      BY DEF Fixed
    <3>2. \A k \in 1 .. Fixed(u.kind) : ZeroBytes(u.kind)[k] = 0
      BY DEF ZeroBytes
    <3>3. ZeroBytes(u.kind)[Fixed(u.kind)] = 0
      BY <3>1, <3>2
    <3> QED  BY <2>2, <3>3 DEF IsFloat
  <2>4. ValueOf(u, ZeroBytes(u.kind))
    BY <2>1, <2>2, <2>3 DEF ValueOf
  <2> QED  BY <2>1, <2>4, ValueIs
<1>4. CASE u.kind \notin Integral \cup FixedKinds \cup {"bool"}
  <2>1. ZeroOf(u) = <<>>
    BY <1>4, ZeroIs
  <2>2. Len(<<>>) = 0 /\ <<>> \in Seq(Octets) /\ FitsInt(0) /\ IsList(<<>>)
    <3>1. <<>> = [k \in 1 .. 0 |-> <<>>[k]] /\ Len(<<>>) = 0
      OBVIOUS
    <3>2. FitsInt(0)
      BY WidthsAre DEF FitsInt
    <3> QED  BY <3>1, <3>2 DEF IsList
  <2>3. ValueOf(u, <<>>)
    BY <1>4, <2>2 DEF ValueOf
  <2> QED  BY <2>1, <2>3, ValueIs
<1> QED  BY <1>1, <1>2, <1>3, <1>4

ScalarBytes(u, v) ==
    CASE u.kind \in Integral -> Varint[Word(v)]
      [] u.kind = "bool" -> <<1>>
      [] u.kind \in FixedKinds -> v
      [] OTHER -> Prefixed(v)
HowMany(u, v) == IF Embeds(u) THEN Len(v) ELSE IF v = ZeroOf(u) THEN 0 ELSE 1
ElementsOf(row, u, v, E) ==
    [j \in 1 .. HowMany(u, v) |->
        <<row.tag>> \o (IF Embeds(u) THEN Prefixed(E[j]) ELSE ScalarBytes(u, v))]
ElementValue(u, v, E, j) == IF Embeds(u) THEN E[j] ELSE v

\* The messages in a field are written as bytes that fit a slice.
AreEncoded(u, v, E) ==
    Embeds(u) => \A j \in 1 .. Len(v) : E[j] \in Seq(Octets) /\ FitsInt(Len(E[j]))

LEMMA HowManyIs ==
    ASSUME NEW u, u.kind \in Scalars \/ Embeds(u), NEW v, IsValue(u, v)
    PROVE  HowMany(u, v) \in Nat /\ (HowMany(u, v) = 0 <=> v = ZeroOf(u))
<1>1. CASE Embeds(u)
  <2>1. u.kind \notin Scalars
    BY <1>1, TypesAre DEF Embeds, Scalars, Integral, FixedKinds
  <2>2. ZeroOf(u) = <<>>
    BY <2>1, ZeroIs DEF Scalars
  <2>3. IsList(v)
    BY <2>1, ValueIs DEF ValueOf
  <2>4. v = [k \in 1 .. Len(v) |-> v[k]] /\ Len(v) \in Nat
    BY <2>3, Zenon DEF IsList
  <2>5. Len(v) = 0 <=> v = <<>>
    <3>1. Len(v) = 0 => v = <<>>
      BY <2>4
    <3> QED  BY <3>1
  <2> QED  BY <1>1, <2>2, <2>4, <2>5 DEF HowMany
<1>2. CASE ~Embeds(u)
  BY <1>2 DEF HowMany
<1> QED  BY <1>1, <1>2

LEMMA ElementIs ==
    ASSUME NEW u, NEW row, RowReads(row, u), NEW v, IsValue(u, v), NEW E, AreEncoded(u, v, E),
           NEW j \in 1 .. HowMany(u, v)
    PROVE  \E c : /\ ElementsOf(row, u, v, E)[j] = <<row.tag>> \o c
                  /\ IsContent(u, c, ElementValue(u, v, E, j))
<1>1. KindOf(u)
  BY KindIs DEF RowReads
<1>2. ValueOf(u, v)
  BY ValueIs
<1>3. WordBits \in Nat \ {0} /\ HalfBits \in Nat \ {0}
  BY WidthsAre
<1>4. CASE Embeds(u) /\ u.kind \notin Scalars
  <2>1. E[j] \in Seq(Octets) /\ FitsInt(Len(E[j]))
    BY <1>4 DEF AreEncoded, HowMany
  <2>2. Prefixed(E[j]) \in Seq(Octets)
    <3>1. Counted(E[j], Len(E[j]))
      BY <2>1 DEF Counted
    <3>2. Counted(Prefixed(E[j]), VarintLen(Len(E[j])) + Len(E[j]))
      BY <3>1, PrefixedCounted
    <3> QED  BY <3>2 DEF Counted
  <2>3. ElementsOf(row, u, v, E)[j] = <<row.tag>> \o Prefixed(E[j])
    BY <1>4 DEF ElementsOf
  <2>4. IsContent(u, Prefixed(E[j]), E[j])
    BY <1>4, <2>1, <2>2 DEF IsContent, Scalars
  <2> QED  BY <1>4, <2>3, <2>4 DEF ElementValue
<1>5. CASE ~Embeds(u)
  <2>1. v # ZeroOf(u)
    BY <1>5 DEF HowMany
  <2>2. PICK c : c = ScalarBytes(u, v)
    OBVIOUS
  <2>3. ElementsOf(row, u, v, E)[j] = <<row.tag>> \o c
    BY <1>5, <2>2 DEF ElementsOf
  <2>4. IsContent(u, c, v)
    <3>1. CASE u.kind \in Integral
      <4>1. v \in FieldRange(u.kind) /\ u.kind \notin FixedKinds /\ u.kind # "bool"
        BY <1>2, <3>1 DEF ValueOf, Integral, FixedKinds
      <4>2. c = Varint[Word(v)]
        BY <2>2, <3>1, <4>1, Zenon DEF ScalarBytes
      <4>3. c \in Seq(Octets)
        <5>1. v \in Int
          BY <1>3, <3>1, <4>1, RangeIs DEF InBits
        <5>2. Word(v) \in Nat
          BY <1>3, <5>1, WordIs
        <5> QED  BY <4>2, <5>2, VarintCounted DEF Counted
      <4> QED  BY <3>1, <4>1, <4>2, <4>3 DEF IsContent
    <3>2. CASE u.kind = "bool"
      <4>1. u.kind \notin Integral /\ u.kind \notin FixedKinds
        BY <3>2 DEF Integral, FixedKinds
      <4>2. v = TRUE
        <5>1. v \in BOOLEAN /\ ZeroOf(u) = FALSE
          BY <1>2, <3>2, ZeroIs DEF ValueOf
        <5> QED  BY <2>1, <5>1, Zenon
      <4>3. c = <<1>>
        BY <2>2, <3>2, <4>1 DEF ScalarBytes
      <4>4. c \in Seq(Octets)
        BY <4>3 DEF Octets
      <4> QED  BY <3>2, <4>1, <4>2, <4>3, <4>4, Zenon DEF IsContent
    <3>3. CASE u.kind \in FixedKinds
      <4>1. u.kind \notin Integral /\ u.kind # "bool" /\ v \in [1 .. Fixed(u.kind) -> Octets]
        BY <1>2, <3>3 DEF ValueOf, Integral, FixedKinds
      <4>2. c = v
        BY <2>2, <3>3, <4>1 DEF ScalarBytes
      <4>3. c \in Seq(Octets)
        BY <4>1, <4>2 DEF Fixed
      <4> QED  BY <3>3, <4>1, <4>2, <4>3 DEF IsContent
    <3>4. CASE u.kind = "bytes"
      <4>1. /\ u.kind \notin Integral /\ u.kind # "bool" /\ u.kind \notin FixedKinds
            /\ v \in Seq(Octets) /\ FitsInt(Len(v))
        BY <1>2, <3>4 DEF ValueOf, Integral, FixedKinds
      <4>2. c = Prefixed(v)
        BY <2>2, <4>1 DEF ScalarBytes
      <4>3. c \in Seq(Octets)
        <5>1. Counted(v, Len(v))
          BY <4>1 DEF Counted
        <5>2. Counted(c, VarintLen(Len(v)) + Len(v))
          BY <4>2, <5>1, PrefixedCounted
        <5> QED  BY <5>2 DEF Counted
      <4> QED  BY <4>1, <4>2, <4>3 DEF IsContent
    <3> QED  BY <1>1, <1>5, <3>1, <3>2, <3>3, <3>4 DEF KindOf
  <2> QED  BY <1>5, <2>3, <2>4 DEF ElementValue
<1> QED  BY <1>1, <1>4, <1>5 DEF KindOf

\* Each of them is at least a tag.
ElementsAre(n, els) == els \in [1 .. n -> Seq(Octets)] /\ \A j \in 1 .. n : Len(els[j]) >= 1

LEMMA ElementsOfRow ==
    ASSUME NEW u, NEW row, RowReads(row, u), NEW v, IsValue(u, v), NEW E, AreEncoded(u, v, E)
    PROVE  ElementsAre(HowMany(u, v), ElementsOf(row, u, v, E))
<1>1. row.tag \in Octets
  <2>1. WireType(u.kind) \in 0 .. 5 /\ u.number \in 1 .. 15 /\ row.tag = 8 * u.number + WireType(u.kind)
    BY WireTypeIs DEF RowReads
  <2> QED  BY <2>1 DEF Octets
<1>2. PICK els : els = ElementsOf(row, u, v, E)
  OBVIOUS
<1>3. els = [j \in 1 .. HowMany(u, v) |-> els[j]]
  BY <1>2 DEF ElementsOf
<1>4. ASSUME NEW j \in 1 .. HowMany(u, v) PROVE els[j] \in Seq(Octets) /\ Len(els[j]) >= 1
  <2>1. PICK c : els[j] = <<row.tag>> \o c /\ IsContent(u, c, ElementValue(u, v, E, j))
    BY <1>2, ElementIs
  <2>2. c \in Seq(Octets)
    BY <2>1 DEF IsContent
  <2>3. Counted(<<row.tag>> \o c, 1 + Len(c)) /\ Len(c) \in Nat
    <3>1. Counted(c, Len(c))
      BY <2>2 DEF Counted
    <3> QED  BY <1>1, <2>2, <3>1, TaggedCounted
  <2> QED  BY <2>1, <2>3 DEF Counted
<1> QED  BY <1>2, <1>3, <1>4 DEF ElementsAre

LEMMA RowIsElements ==
    ASSUME NEW u, NEW row, RowReads(row, u), NEW v, IsValue(u, v), NEW E, AreEncoded(u, v, E)
    PROVE  MarshalRow(row, v, E) = FlattenSeq(ElementsOf(row, u, v, E))
<1>1. KindOf(u) /\ row.kind = IF u.kind \in Integral THEN "varint" ELSE u.kind
  BY KindIs DEF RowReads
<1>2. ValueOf(u, v)
  BY ValueIs
<1>3. ElementsAre(HowMany(u, v), ElementsOf(row, u, v, E))
  BY ElementsOfRow
<1>4. CASE Embeds(u) /\ u.kind \notin Scalars
  <2>1. row.kind \notin {"varint", "bool", "bytes", "fixed32", "fixed64"}
    <3>1. u.kind \in Types
      BY <1>4 DEF Embeds
    <3>2. row.kind = u.kind
      BY <1>1, <1>4 DEF Scalars
    <3> QED  BY <3>1, <3>2, TypesAre
  <2>2. DOMAIN v = 1 .. Len(v)
    <3>1. IsList(v)
      BY <1>2, <1>4 DEF ValueOf
    <3>2. v = [k \in 1 .. Len(v) |-> v[k]]
      BY <3>1, Zenon DEF IsList
    <3> QED  BY <3>2
  <2>3. MarshalRow(row, v, E) = FlattenSeq([k \in 1 .. Len(v) |-> <<row.tag>> \o Prefixed(E[k])])
    BY <2>1, <2>2 DEF MarshalRow
  <2>4. ElementsOf(row, u, v, E) = [k \in 1 .. Len(v) |-> <<row.tag>> \o Prefixed(E[k])]
    BY <1>4, Zenon DEF ElementsOf, HowMany
  <2> QED  BY <2>3, <2>4, Zenon
<1>5. CASE ~Embeds(u)
  <2>1. PICK c : c = <<row.tag>> \o ScalarBytes(u, v)
    OBVIOUS
  <2>2. v = ZeroOf(u) => ElementsOf(row, u, v, E) = <<>>
    BY <1>5 DEF ElementsOf, HowMany
  <2>3. v # ZeroOf(u) => ElementsOf(row, u, v, E) = [j \in 1 .. 1 |-> c] /\ c \in Seq(Octets)
    <3> SUFFICES ASSUME v # ZeroOf(u)
                 PROVE  ElementsOf(row, u, v, E) = [j \in 1 .. 1 |-> c] /\ c \in Seq(Octets)
      OBVIOUS
    <3>1. HowMany(u, v) = 1
      BY <1>5 DEF HowMany
    <3>2. ElementsOf(row, u, v, E) = [j \in 1 .. 1 |-> c]
      BY <1>5, <2>1, <3>1 DEF ElementsOf
    <3>3. c = ElementsOf(row, u, v, E)[1]
      BY <3>2
    <3> QED  BY <1>3, <3>1, <3>2, <3>3 DEF ElementsAre
  <2>4. FlattenSeq(ElementsOf(row, u, v, E)) = IF v = ZeroOf(u) THEN <<>> ELSE c
    BY <2>2, <2>3, FlattenNone, FlattenOne, Zenon
  <2>5. MarshalRow(row, v, E) = IF v = ZeroOf(u) THEN <<>> ELSE c
    <3>1. CASE u.kind \in Integral
      <4>1. row.kind = "varint" /\ ZeroOf(u) = 0 /\ c = <<row.tag>> \o Varint[Word(v)]
        <5>1. u.kind \notin FixedKinds /\ u.kind # "bool"
          BY <3>1 DEF Integral, FixedKinds
        <5>2. ScalarBytes(u, v) = Varint[Word(v)]
          BY <3>1, <5>1, Zenon DEF ScalarBytes
        <5> QED  BY <1>1, <2>1, <3>1, <5>2, ZeroIs
      <4> QED  BY <4>1 DEF MarshalRow
    <3>2. CASE u.kind = "bool"
      <4>1. u.kind \notin Integral
        BY <3>2 DEF Integral
      <4>2. row.kind = "bool" /\ ZeroOf(u) = FALSE /\ c = <<row.tag>> \o <<1>> /\ v \in BOOLEAN
        <5>1. u.kind \notin FixedKinds
          BY <3>2 DEF FixedKinds
        <5>2. ScalarBytes(u, v) = <<1>>
          BY <3>2, <4>1, <5>1, Zenon DEF ScalarBytes
        <5>3. row.kind = "bool" /\ ZeroOf(u) = FALSE
          BY <1>1, <3>2, <4>1, ZeroIs
        <5>4. v \in BOOLEAN
          BY <1>2, <3>2 DEF ValueOf
        <5> QED  BY <2>1, <5>2, <5>3, <5>4, Zenon
      <4>3. c = <<row.tag, 1>>
        <5>1. <<row.tag>> \o <<1>> = <<row.tag, 1>>
          <6>1. PICK x : x = row.tag
            OBVIOUS
          <6> DEFINE S == {x, 1}
          <6>2. <<x>> \in Seq(S) /\ <<1>> \in Seq(S) /\ <<x, 1>> \in Seq(S)
            OBVIOUS
          <6> HIDE DEF S
          <6>3. PICK y : y = <<x>> \o <<1>>
            OBVIOUS
          <6>4. y \in Seq(S) /\ Len(y) = 2 /\ y[1] = x /\ y[2] = 1
            BY <6>2, <6>3
          <6>5. <<x>> \o <<1>> = <<x, 1>>
            <7>1. PICK z : z = <<x, 1>>
              OBVIOUS
            <7>2. z \in Seq(S) /\ Len(z) = 2 /\ z[1] = x /\ z[2] = 1
              BY <6>2, <7>1
            <7>3. \A k \in 1 .. 2 : y[k] = z[k]
              BY <6>4, <7>2
            <7>4. y = z
              BY <6>4, <7>2, <7>3
            <7> QED  BY <6>3, <7>1, <7>4
          <6> QED  BY <6>1, <6>5
        <5> QED  BY <4>2, <5>1, Zenon
      <4>4. MarshalRow(row, v, E) = IF v THEN <<row.tag, 1>> ELSE <<>>
        BY <4>2 DEF MarshalRow
      <4> QED  BY <4>2, <4>3, <4>4, Zenon
    <3>3. CASE u.kind = "bytes"
      <4>1. u.kind \notin Integral /\ u.kind \notin FixedKinds /\ u.kind # "bool"
        BY <3>3 DEF Integral, FixedKinds
      <4>2. row.kind = "bytes" /\ ZeroOf(u) = <<>> /\ c = <<row.tag>> \o Prefixed(v)
        BY <1>1, <2>1, <3>3, <4>1, ZeroIs DEF ScalarBytes
      <4> QED  BY <4>2 DEF MarshalRow
    <3>4. CASE u.kind \in FixedKinds
      <4>1. u.kind \notin Integral /\ u.kind # "bool"
        BY <3>4 DEF Integral, FixedKinds
      <4>2. row.kind = u.kind /\ ZeroOf(u) = ZeroBytes(u.kind) /\ c = <<row.tag>> \o v
        BY <1>1, <2>1, <3>4, <4>1, ZeroIs DEF ScalarBytes
      <4>3. row.kind \in {"fixed32", "fixed64"}
        BY <3>4, <4>2 DEF FixedKinds
      <4> QED  BY <4>2, <4>3 DEF MarshalRow
    <3> QED  BY <1>1, <1>5, <3>1, <3>2, <3>3, <3>4 DEF KindOf
  <2> QED  BY <2>4, <2>5, Zenon
<1> QED  BY <1>1, <1>4, <1>5 DEF KindOf

-----------------------------------------------------------------------------
(* The elements of a row are read.                                         *)

\* One of some sequences that were written between p and q.
PlaceIs(b, p, els, j, r) ==
    /\ p \o UpTo(els, j - 1) \in Seq(Octets) /\ r \in Seq(Octets)
    /\ b = ((p \o UpTo(els, j - 1)) \o els[j]) \o r
    /\ p \o UpTo(els, j) = (p \o UpTo(els, j - 1)) \o els[j]
    /\ Len(p \o UpTo(els, j)) = Len(p \o UpTo(els, j - 1)) + Len(els[j])
    /\ Len(p \o UpTo(els, j)) <= Len(b)
    /\ Len(p \o UpTo(els, j - 1)) \in Nat /\ Len(els[j]) \in Nat

LEMMA Places ==
    ASSUME NEW n \in Nat, NEW els \in [1 .. n -> Seq(Octets)],
           NEW p \in Seq(Octets), NEW q \in Seq(Octets),
           NEW b, b = (p \o FlattenSeq(els)) \o q, NEW j \in 1 .. n
    PROVE  \E r : PlaceIs(b, p, els, j, r)
<1>1. j \in 0 .. n /\ j - 1 \in 0 .. n /\ n \in j .. n /\ j # 0
  OBVIOUS
<1>2. UpToIs(Octets, els, j) /\ UpToIs(Octets, els, j - 1)
  BY <1>1, UpToGrows
<1>3. PICK a \in Seq(Octets) : a = UpTo(els, j - 1)
  BY <1>2 DEF UpToIs
<1>4. PICK c \in Seq(Octets) : c = els[j]
  OBVIOUS
<1>5. UpTo(els, j) = a \o c
  BY <1>1, <1>2, <1>3, <1>4 DEF UpToIs
<1>6. FlattenSeq(els) = UpTo(els, n)
  BY DEF UpTo
<1>7. PICK d \in Seq(Octets) : UpTo(els, n) = UpTo(els, j) \o d
  <2>1. Continues(Octets, els, j, n)
    BY <1>1, FlattenSplit
  <2> QED  BY <2>1 DEF Continues
<1>8. AreJoined(p, a, c) /\ AreJoined(a, c, d)
  BY Joining
<1>9. p \o a \in Seq(Octets) /\ a \o c \in Seq(Octets)
  BY <1>8 DEF AreJoined
<1>10. AreJoined(p, a \o c, d)
  BY <1>9, Joining
<1>11. PICK e \in Seq(Octets) : e = (p \o a) \o c
  <2>1. AreJoined(p \o a, c, d)
    BY <1>9, Joining
  <2> QED  BY <2>1 DEF AreJoined
<1>12. AreJoined(e, d, q)
  BY Joining
<1>13. PICK r \in Seq(Octets) : r = d \o q
  BY <1>12 DEF AreJoined
<1>14. b = e \o r
  <2>1. p \o (a \o c) = e
    BY <1>8, <1>11, Zenon DEF AreJoined
  <2>2. p \o FlattenSeq(els) = p \o ((a \o c) \o d)
    BY <1>5, <1>6, <1>7
  <2>3. p \o FlattenSeq(els) = e \o d
    BY <1>10, <2>1, <2>2, Zenon DEF AreJoined
  <2> QED  BY <1>12, <1>13, <2>3, Zenon DEF AreJoined
<1>15. p \o UpTo(els, j) = e
  BY <1>5, <1>8, <1>11, Zenon DEF AreJoined
<1>16. Len(e) = Len(p \o a) + Len(c) /\ Len(b) = Len(e) + Len(r) /\ Len(r) \in Nat /\ Len(e) \in Nat
       /\ Len(p \o a) \in Nat /\ Len(c) \in Nat
  <2>1. /\ \A y, z \in Seq(Octets) : Len(y \o z) = Len(y) + Len(z)
        /\ \A y \in Seq(Octets) : Len(y) \in Nat
    OBVIOUS
  <2> QED  BY <1>9, <1>11, <1>14, <2>1
<1>17. PlaceIs(b, p, els, j, r)
  BY <1>3, <1>4, <1>9, <1>11, <1>14, <1>15, <1>16 DEF PlaceIs
<1> QED  BY <1>17

\* What a field is after the first j elements of its row.
After(u, old, v, Y, j) ==
    IF j = 0 THEN old
    ELSE IF ~Embeds(u) THEN v
    ELSE IF u.repeated THEN old \o SubSeq(Y, 1, j)
    ELSE <<Y[1]>>

\* What the messages in a field are decoded to.
AreDecoded(l, u, old, v, E, Y) ==
    Embeds(u) => /\ Len(Y) = Len(v)
                 /\ u.repeated => IsList(old) /\ IsList(Y)
                 /\ \A j \in 1 .. Len(v) :
                       IsDecoded(l - 1, u.kind, Target(u, old), E[j], Y[j])

LEMMA AppendedNext ==
    ASSUME NEW old, IsList(old), NEW Y, IsList(Y), NEW j \in 1 .. Len(Y)
    PROVE  /\ Append(old \o SubSeq(Y, 1, j - 1), Y[j]) = old \o SubSeq(Y, 1, j)
           /\ Append(old, Y[1]) = old \o SubSeq(Y, 1, 1)
<1>1. /\ old = [k \in 1 .. Len(old) |-> old[k]] /\ Len(old) \in Nat
      /\ Y = [k \in 1 .. Len(Y) |-> Y[k]] /\ Len(Y) \in Nat
  BY Zenon DEF IsList
<1>2. PICK S : S = {old[k] : k \in 1 .. Len(old)} \cup {Y[k] : k \in 1 .. Len(Y)}
  OBVIOUS
<1>3. old \in Seq(S) /\ Y \in Seq(S)
  BY <1>1, <1>2
<1>4. ASSUME NEW h \in 1 .. Len(Y)
      PROVE  SubSeq(Y, 1, h) \in Seq(S) /\ SubSeq(Y, 1, h) = Append(SubSeq(Y, 1, h - 1), Y[h])
             /\ SubSeq(Y, 1, h - 1) \in Seq(S) /\ Y[h] \in S
  BY <1>3
<1>5. \A a \in Seq(S), c \in Seq(S), z \in S : Append(a \o c, z) = a \o Append(c, z)
  BY SMTT(60)
<1>6. Append(old \o SubSeq(Y, 1, j - 1), Y[j]) = old \o SubSeq(Y, 1, j)
  <2>1. PICK c \in Seq(S) : c = SubSeq(Y, 1, j - 1)
    BY <1>4
  <2>2. PICK z \in S : z = Y[j]
    BY <1>4
  <2>3. SubSeq(Y, 1, j) = Append(c, z)
    BY <1>4, <2>1, <2>2
  <2>4. Append(old \o c, z) = old \o Append(c, z)
    BY <1>3, <1>5
  <2> QED  BY <2>1, <2>2, <2>3, <2>4, Zenon
<1>7. Append(old, Y[1]) = old \o SubSeq(Y, 1, 1)
  <2>1. 1 \in 1 .. Len(Y)
    OBVIOUS
  <2>2. SubSeq(Y, 1, 0) = <<>> /\ 1 - 1 = 0
    BY <1>3
  <2>3. SubSeq(Y, 1, 1) = Append(<<>>, Y[1]) /\ Y[1] \in S
    BY <1>4, <2>1, <2>2
  <2>4. Append(old \o <<>>, Y[1]) = old \o Append(<<>>, Y[1])
    BY <1>3, <1>5, <2>3
  <2> QED  BY <1>3, <2>3, <2>4
<1> QED  BY <1>6, <1>7

AfterIs(l, u, v, old, E, Y, j) ==
    /\ TakenOf(u, ElementValue(u, v, E, j), After(u, old, v, Y, j - 1), Y[j]) = After(u, old, v, Y, j)
    /\ Embeds(u) => IsDecoded(l - 1, u.kind, Target(u, After(u, old, v, Y, j - 1)), E[j], Y[j])

LEMMA AfterNext ==
    ASSUME NEW l, NEW u, u.kind \in Scalars \/ Embeds(u), NEW v, IsValue(u, v),
           NEW old, NEW E, NEW Y, AreDecoded(l, u, old, v, E, Y), NEW j \in 1 .. HowMany(u, v)
    PROVE  AfterIs(l, u, v, old, E, Y, j)
<1>1. j \in Nat /\ j # 0 /\ HowMany(u, v) \in Nat
  BY HowManyIs
<1>2. CASE ~Embeds(u)
  BY <1>1, <1>2 DEF TakenOf, ElementValue, After, AfterIs
<1>3. CASE Embeds(u)
  <2>1. HowMany(u, v) = Len(v) /\ Len(Y) = Len(v)
    BY <1>3 DEF HowMany, AreDecoded
  <2>2. IsDecoded(l - 1, u.kind, Target(u, old), E[j], Y[j])
    BY <1>3, <2>1 DEF AreDecoded
  <2>3. CASE u.repeated
    <3>1. IsList(old) /\ IsList(Y) /\ j \in 1 .. Len(Y)
      BY <1>3, <2>1, <2>3 DEF AreDecoded
    <3>2. /\ Append(old \o SubSeq(Y, 1, j - 1), Y[j]) = old \o SubSeq(Y, 1, j)
          /\ Append(old, Y[1]) = old \o SubSeq(Y, 1, 1)
      BY <3>1, AppendedNext
    <3>3. Append(After(u, old, v, Y, j - 1), Y[j]) = After(u, old, v, Y, j)
      <4>1. CASE j = 1
        BY <1>3, <2>3, <3>2, <4>1 DEF After
      <4>2. CASE j # 1
        <5>1. j - 1 # 0
          BY <1>1, <4>2
        <5> QED  BY <1>1, <1>3, <2>3, <3>2, <5>1 DEF After
      <4> QED  BY <4>1, <4>2
    <3>4. \A x : Target(u, x) = Target(u, old)
      BY <2>3 DEF Target
    <3> QED  BY <1>3, <2>2, <2>3, <3>3, <3>4 DEF TakenOf, AfterIs, ElementValue
  <2>4. CASE ~u.repeated
    <3>1. u.kind \notin Scalars
      BY <1>3, TypesAre DEF Embeds, Scalars, Integral, FixedKinds
    <3>2. ~(Len(v) > 1) /\ Len(v) \in Nat
      <4>1. ValueOf(u, v)
        BY ValueIs
      <4>2. IsList(v) /\ ~(Len(v) > 1)
        BY <2>4, <3>1, <4>1 DEF ValueOf
      <4> QED  BY <4>2, Zenon DEF IsList
    <3>3. j = 1 /\ j - 1 = 0
      BY <2>1, <3>2
    <3> QED  BY <1>3, <2>2, <2>4, <3>3 DEF TakenOf, After, AfterIs, ElementValue
  <2> QED  BY <2>3, <2>4
<1> QED  BY <1>2, <1>3

\* The state of the loop when the first j elements of a row have been read.
RowState(u, x, p, els, v, Y, j) ==
    State(Len(p \o UpTo(els, j)) + 1, [x EXCEPT ![u.name] = After(u, x[u.name], v, Y, j)])
RowReached(F, b, k, u, x, p, els, v, Y, j) ==
    /\ k + j \in 0 .. Len(b) /\ F[k + j] = RowState(u, x, p, els, v, Y, j)
    /\ k + j < Len(p \o UpTo(els, j)) + 1 /\ Len(p \o UpTo(els, j)) \in Nat

LEMMA RowIsRead ==
    ASSUME NEW F, NEW l, NEW t \in Types, NEW m0, NEW b \in Seq(Octets), IsLoop(F, l, t, m0, b),
           NEW u \in Unmarshals[t], NEW row, RowReads(row, u), NEW v, IsValue(u, v),
           NEW E, AreEncoded(u, v, E), NEW els, els = ElementsOf(row, u, v, E),
           NEW p \in Seq(Octets), NEW q \in Seq(Octets), b = (p \o FlattenSeq(els)) \o q,
           NEW x, x = [n \in Names(t) |-> x[n]], NEW Y, AreDecoded(l, u, x[u.name], v, E, Y),
           NEW k \in Nat, k < Len(p) + 1, F[k] = State(Len(p) + 1, x),
           NEW j \in 0 .. HowMany(u, v)
    PROVE  RowReached(F, b, k, u, x, p, els, v, Y, j)
<1> DEFINE h == HowMany(u, v)
           T == {i \in 0 .. h : ~RowReached(F, b, k, u, x, p, els, v, Y, i)}
<1>1. u.kind \in Scalars \/ Embeds(u)
  BY DEF RowReads
<1>2. h \in Nat
  BY <1>1, HowManyIs
<1>3. els \in [1 .. h -> Seq(Octets)] /\ \A i \in 1 .. h : Len(els[i]) >= 1
  BY ElementsOfRow DEF ElementsAre
<1> HIDE DEF h
<1>4. Len(p) \in Nat /\ Len(b) \in Nat /\ Len(p) <= Len(b)
  <2>1. FlattenSeq(els) \in Seq(Octets)
    <3>1. UpToIs(Octets, els, h) /\ UpTo(els, h) = FlattenSeq(els)
      <4>1. h \in 0 .. h
        BY <1>2
      <4>2. UpToIs(Octets, els, h)
        BY <1>2, <1>3, <4>1, UpToGrows
      <4>3. els = [i \in 1 .. h |-> els[i]]
        BY <1>3
      <4> QED  BY <4>2, <4>3 DEF UpTo
    <3> QED  BY <3>1 DEF UpToIs
  <2>2. IsWritten(b, p, FlattenSeq(els), q)
    BY <2>1, Written
  <2>3. Len(b) = Len(p) + Len(FlattenSeq(els)) + Len(q) /\ Len(FlattenSeq(els)) \in Nat /\ Len(q) \in Nat
    BY <2>1, <2>2 DEF IsWritten
  <2> QED  BY <2>3
<1>5. T = {}
  <2> SUFFICES ASSUME T # {} PROVE FALSE
    OBVIOUS
  <2>1. PICK i \in T : \A g \in T : i <= g
    <3>1. T \in SUBSET Nat
      BY <1>2
    <3> HIDE DEF T
    <3> QED  BY <3>1, LeastNumber
  <2>2. i \in 0 .. h /\ ~RowReached(F, b, k, u, x, p, els, v, Y, i)
    OBVIOUS
  <2> HIDE DEF T
  <2>3. i # 0
    <3>1. UpToIs(Octets, els, 0)
      <4>1. 0 \in 0 .. h
        BY <1>2
      <4> QED  BY <1>2, <1>3, <4>1, UpToGrows
    <3>2. p \o UpTo(els, 0) = p
      BY <3>1, SMTT(60) DEF UpToIs
    <3>3. [x EXCEPT ![u.name] = After(u, x[u.name], v, Y, 0)] = x
      <4>1. After(u, x[u.name], v, Y, 0) = x[u.name]
        BY DEF After
      <4>2. [x EXCEPT ![u.name] = x[u.name]] = x
        OBVIOUS
      <4> QED  BY <4>1, <4>2
    <3>4. RowState(u, x, p, els, v, Y, 0) = State(Len(p) + 1, x)
      BY <3>2, <3>3 DEF RowState
    <3>5. k + 0 = k /\ k \in 0 .. Len(b)
      BY <1>4
    <3>6. RowReached(F, b, k, u, x, p, els, v, Y, 0)
      BY <1>4, <3>2, <3>4, <3>5 DEF RowReached
    <3> QED  BY <2>2, <3>6
  <2>4. i \in 1 .. h /\ i - 1 \in 0 .. h /\ ~(i <= i - 1)
    BY <1>2, <2>2, <2>3, SMTT(60)
  <2>5. RowReached(F, b, k, u, x, p, els, v, Y, i - 1)
    BY <2>1, <2>4 DEF T
  <2>6. PICK c : els[i] = <<row.tag>> \o c /\ IsContent(u, c, ElementValue(u, v, E, i))
    BY <2>4, ElementIs DEF h
  <2>7. PICK r : PlaceIs(b, p, els, i, r)
    BY <1>2, <1>3, <2>4, Places
  <2>8. PICK a : a = p \o UpTo(els, i - 1)
    OBVIOUS
  <2>9. a \in Seq(Octets) /\ r \in Seq(Octets) /\ b = (a \o els[i]) \o r /\ a \o els[i] = p \o UpTo(els, i)
    BY <2>7, <2>8 DEF PlaceIs
  <2>10. Len(a) \in Nat /\ Len(els[i]) \in Nat /\ Len(p \o UpTo(els, i)) = Len(a) + Len(els[i])
         /\ Len(p \o UpTo(els, i)) <= Len(b) /\ Len(els[i]) >= 1
    BY <1>3, <2>4, <2>7, <2>8 DEF PlaceIs
  <2>11. FoundAt(FieldAt(t, b, Len(a) + 1), u, ElementValue(u, v, E, i), Len(p \o UpTo(els, i)) + 1)
    <3>1. FoundAt(FieldAt(t, (a \o (<<row.tag>> \o c)) \o r, Len(a) + 1), u, ElementValue(u, v, E, i),
                  Len(a \o (<<row.tag>> \o c)) + 1)
      BY <2>6, <2>9, FieldIsRead
    <3> QED  BY <2>6, <2>9, <3>1
  <2>12. PICK y : y = [x EXCEPT ![u.name] = After(u, x[u.name], v, Y, i - 1)]
    OBVIOUS
  <2>13. u.name \in Names(t) /\ y[u.name] = After(u, x[u.name], v, Y, i - 1)
    <3>1. u.name \in Names(t)
      BY DEF Names
    <3> QED  BY <2>12, <3>1
  <2>14. PICK d : d = (k + i) - 1
    OBVIOUS
  <2>15. d \in Nat /\ d \in 0 .. Len(b) /\ d + 1 = k + i /\ k + (i - 1) = d /\ d < Len(a) + 1
    BY <2>4, <2>5, <2>8, <2>14, SMTT(60) DEF RowReached
  <2>16. F[d] = State(Len(a) + 1, y)
    BY <2>5, <2>8, <2>12, <2>15 DEF RowReached, RowState
  <2>17. AfterIs(l, u, v, x[u.name], E, Y, i)
    <3>1. i \in 1 .. HowMany(u, v)
      BY <2>4 DEF h
    <3> QED  BY <1>1, <3>1, AfterNext
  <2>18. /\ TakenOf(u, ElementValue(u, v, E, i), y[u.name], Y[i]) = After(u, x[u.name], v, Y, i)
         /\ Embeds(u) => IsDecoded(l - 1, u.kind, Target(u, y[u.name]), ElementValue(u, v, E, i), Y[i])
    BY <2>13, <2>17, Zenon DEF AfterIs, ElementValue
  <2>19. Len(a) + 1 \in Nat /\ Len(a) + 1 <= Len(b)
    BY <2>10, SMTT(60)
  <2>20. /\ d + 1 \in 0 .. Len(b)
         /\ F[d + 1] = State(Len(p \o UpTo(els, i)) + 1,
                             [y EXCEPT ![u.name] = TakenOf(u, ElementValue(u, v, E, i), y[u.name], Y[i])])
    <3>1. PICK e : e = Len(p \o UpTo(els, i)) + 1
      OBVIOUS
    <3>2. PICK z : z = ElementValue(u, v, E, i)
      OBVIOUS
    <3>3. PICK w : w = Y[i]
      OBVIOUS
    <3>4. PICK g : g = Len(a) + 1
      OBVIOUS
    <3>5. g \in Nat /\ g <= Len(b) /\ d < g /\ F[d] = State(g, y)
      BY <2>15, <2>16, <2>19, <3>4
    <3>6. FoundAt(FieldAt(t, b, g), u, z, e)
      BY <2>11, <3>1, <3>2, <3>4, Zenon
    <3>7. Embeds(u) => IsDecoded(l - 1, u.kind, Target(u, y[u.name]), z, w)
      BY <2>18, <3>2, <3>3, Zenon
    <3>8. TakesTo(F, b, d, u, z, y, w, e)
      BY <2>15, <3>5, <3>6, <3>7, LoopTakes
    <3> QED  BY <3>1, <3>2, <3>3, <3>8, Zenon DEF TakesTo
  <2>21. [y EXCEPT ![u.name] = After(u, x[u.name], v, Y, i)]
             = [x EXCEPT ![u.name] = After(u, x[u.name], v, Y, i)]
    BY <2>12
  <2>22. F[k + i] = RowState(u, x, p, els, v, Y, i)
    BY <2>15, <2>18, <2>20, <2>21, Zenon DEF RowState
  <2>23. k + i < Len(p \o UpTo(els, i)) + 1 /\ Len(p \o UpTo(els, i)) \in Nat
    BY <2>10, <2>15, SMTT(60)
  <2>24. RowReached(F, b, k, u, x, p, els, v, Y, i)
    BY <2>15, <2>20, <2>22, <2>23 DEF RowReached
  <2> QED  BY <2>2, <2>24
<1>6. j \in 0 .. h
  BY DEF h
<1> QED  BY <1>5, <1>6

-----------------------------------------------------------------------------
(* All rows of a message are read.                                         *)

MergedAt(l, t, x, m) ==
    CASE l = 0 -> Merged0(t, x, m)
      [] l = 1 -> Merged1(t, x, m)
      [] l = 2 -> Merged2(t, x, m)
      [] l = 3 -> Merged3(t, x, m)
      [] l = 4 -> Merged4(t, x, m)
      [] OTHER -> Merged(t, x, m)

\* What a field with the values old and v is merged to.
MergedRow(l, u, old, v) ==
    IF v = ZeroOf(u) THEN old
    ELSE IF u.repeated THEN old \o v
    ELSE IF Embeds(u) /\ old # <<>> THEN <<MergedAt(l - 1, u.kind, old[1], v[1])>>
    ELSE v

LEMMA MergedLevel ==
    ASSUME NEW l \in 1 .. 5, NEW t, NEW x, NEW m
    PROVE  MergedAt(l, t, x, m) = [n \in Names(t) |-> MergedRow(l, RowOf(t, n), x[n], m[n])]
<1>1. CASE l = 1
  <2>1. \A a, c, d : MergedAt(0, a, c, d) = Merged0(a, c, d)
    BY DEF MergedAt
  <2>2. MergedAt(l, t, x, m) = Merged1(t, x, m) /\ l - 1 = 0
    BY <1>1 DEF MergedAt
  <2>3. Merged1(t, x, m) = [n \in Names(t) |->
            IF m[n] = ZeroOf(RowOf(t, n)) THEN x[n]
            ELSE IF RowOf(t, n).repeated THEN x[n] \o m[n]
            ELSE IF Embeds(RowOf(t, n)) /\ x[n] # <<>>
            THEN <<Merged0(RowOf(t, n).kind, x[n][1], m[n][1])>>
            ELSE m[n]]
    BY DEF Merged1, MergedWith
  <2>4. \A n \in Names(t) :
            (IF m[n] = ZeroOf(RowOf(t, n)) THEN x[n]
             ELSE IF RowOf(t, n).repeated THEN x[n] \o m[n]
             ELSE IF Embeds(RowOf(t, n)) /\ x[n] # <<>>
             THEN <<Merged0(RowOf(t, n).kind, x[n][1], m[n][1])>>
             ELSE m[n]) = MergedRow(l, RowOf(t, n), x[n], m[n])
    BY <2>1, <2>2 DEF MergedRow
  <2> QED  BY <2>2, <2>3, <2>4
<1>2. CASE l = 2
  <2>1. \A a, c, d : MergedAt(1, a, c, d) = Merged1(a, c, d)
    BY DEF MergedAt
  <2>2. MergedAt(l, t, x, m) = Merged2(t, x, m) /\ l - 1 = 1
    BY <1>2 DEF MergedAt
  <2>3. Merged2(t, x, m) = [n \in Names(t) |->
            IF m[n] = ZeroOf(RowOf(t, n)) THEN x[n]
            ELSE IF RowOf(t, n).repeated THEN x[n] \o m[n]
            ELSE IF Embeds(RowOf(t, n)) /\ x[n] # <<>>
            THEN <<Merged1(RowOf(t, n).kind, x[n][1], m[n][1])>>
            ELSE m[n]]
    BY DEF Merged2, MergedWith
  <2>4. \A n \in Names(t) :
            (IF m[n] = ZeroOf(RowOf(t, n)) THEN x[n]
             ELSE IF RowOf(t, n).repeated THEN x[n] \o m[n]
             ELSE IF Embeds(RowOf(t, n)) /\ x[n] # <<>>
             THEN <<Merged1(RowOf(t, n).kind, x[n][1], m[n][1])>>
             ELSE m[n]) = MergedRow(l, RowOf(t, n), x[n], m[n])
    BY <2>1, <2>2 DEF MergedRow
  <2> QED  BY <2>2, <2>3, <2>4
<1>3. CASE l = 3
  <2>1. \A a, c, d : MergedAt(2, a, c, d) = Merged2(a, c, d)
    BY DEF MergedAt
  <2>2. MergedAt(l, t, x, m) = Merged3(t, x, m) /\ l - 1 = 2
    BY <1>3 DEF MergedAt
  <2>3. Merged3(t, x, m) = [n \in Names(t) |->
            IF m[n] = ZeroOf(RowOf(t, n)) THEN x[n]
            ELSE IF RowOf(t, n).repeated THEN x[n] \o m[n]
            ELSE IF Embeds(RowOf(t, n)) /\ x[n] # <<>>
            THEN <<Merged2(RowOf(t, n).kind, x[n][1], m[n][1])>>
            ELSE m[n]]
    BY DEF Merged3, MergedWith
  <2>4. \A n \in Names(t) :
            (IF m[n] = ZeroOf(RowOf(t, n)) THEN x[n]
             ELSE IF RowOf(t, n).repeated THEN x[n] \o m[n]
             ELSE IF Embeds(RowOf(t, n)) /\ x[n] # <<>>
             THEN <<Merged2(RowOf(t, n).kind, x[n][1], m[n][1])>>
             ELSE m[n]) = MergedRow(l, RowOf(t, n), x[n], m[n])
    BY <2>1, <2>2 DEF MergedRow
  <2> QED  BY <2>2, <2>3, <2>4
<1>4. CASE l = 4
  <2>1. \A a, c, d : MergedAt(3, a, c, d) = Merged3(a, c, d)
    BY DEF MergedAt
  <2>2. MergedAt(l, t, x, m) = Merged4(t, x, m) /\ l - 1 = 3
    BY <1>4 DEF MergedAt
  <2>3. Merged4(t, x, m) = [n \in Names(t) |->
            IF m[n] = ZeroOf(RowOf(t, n)) THEN x[n]
            ELSE IF RowOf(t, n).repeated THEN x[n] \o m[n]
            ELSE IF Embeds(RowOf(t, n)) /\ x[n] # <<>>
            THEN <<Merged3(RowOf(t, n).kind, x[n][1], m[n][1])>>
            ELSE m[n]]
    BY DEF Merged4, MergedWith
  <2>4. \A n \in Names(t) :
            (IF m[n] = ZeroOf(RowOf(t, n)) THEN x[n]
             ELSE IF RowOf(t, n).repeated THEN x[n] \o m[n]
             ELSE IF Embeds(RowOf(t, n)) /\ x[n] # <<>>
             THEN <<Merged3(RowOf(t, n).kind, x[n][1], m[n][1])>>
             ELSE m[n]) = MergedRow(l, RowOf(t, n), x[n], m[n])
    BY <2>1, <2>2 DEF MergedRow
  <2> QED  BY <2>2, <2>3, <2>4
<1>5. CASE l = 5
  <2>1. \A a, c, d : MergedAt(4, a, c, d) = Merged4(a, c, d)
    BY DEF MergedAt
  <2>2. MergedAt(l, t, x, m) = Merged(t, x, m) /\ l - 1 = 4
    BY <1>5 DEF MergedAt
  <2>3. Merged(t, x, m) = [n \in Names(t) |->
            IF m[n] = ZeroOf(RowOf(t, n)) THEN x[n]
            ELSE IF RowOf(t, n).repeated THEN x[n] \o m[n]
            ELSE IF Embeds(RowOf(t, n)) /\ x[n] # <<>>
            THEN <<Merged4(RowOf(t, n).kind, x[n][1], m[n][1])>>
            ELSE m[n]]
    BY DEF Merged, MergedWith
  <2>4. \A n \in Names(t) :
            (IF m[n] = ZeroOf(RowOf(t, n)) THEN x[n]
             ELSE IF RowOf(t, n).repeated THEN x[n] \o m[n]
             ELSE IF Embeds(RowOf(t, n)) /\ x[n] # <<>>
             THEN <<Merged4(RowOf(t, n).kind, x[n][1], m[n][1])>>
             ELSE m[n]) = MergedRow(l, RowOf(t, n), x[n], m[n])
    BY <2>1, <2>2 DEF MergedRow
  <2> QED  BY <2>2, <2>3, <2>4
<1> QED  BY <1>1, <1>2, <1>3, <1>4, <1>5

\* A message, apart from whether what it is written as fits a slice.
IsTyped(l, t, m) ==
    t \in Types /\ m = [n \in Names(t) |-> m[n]] /\ HasValues(t, m) /\ EmbedsBelow(l, t, m)

LEMMA MessageTyped ==
    ASSUME NEW l \in 0 .. 5, NEW t, NEW m, MessageAt(l, t, m)
    PROVE  l \in 1 .. 5 /\ IsTyped(l, t, m) /\ FitsInt(Len(MarshalAt(l, t, m)))
           /\ MarshalAt(l, t, m) \in Seq(Octets)
<1>1. l # 0
  BY DEF MessageAt
<1>2. l \in 1 .. 5
  BY <1>1
<1>3. CountedAt(l)
  BY <1>2, WidthsAre, AllLevelsCounted
<1>4. MarshalAt(l, t, m) \in Seq(Octets)
  BY <1>3 DEF CountedAt, Counted
<1> QED  BY <1>2, <1>4, MessageLevel DEF IsTyped

LEMMA NameIs ==
    ASSUME NEW t \in Types, NEW n \in Names(t)
    PROVE  /\ RowOf(t, n) \in Unmarshals[t] /\ RowOf(t, n).name = n
           /\ RowOf(t, n).kind \in Scalars \/ Embeds(RowOf(t, n))
           /\ \E i \in DOMAIN Marshals[t] : Marshals[t][i].name = n
<1>1. PICK u \in Unmarshals[t] : u.name = n
  BY DEF Names
<1>2. RowOf(t, n) = u
  BY <1>1, NamedRow
<1>3. PICK i \in DOMAIN Marshals[t] : RowReads(Marshals[t][i], u)
  BY RowWritten
<1> QED  BY <1>1, <1>2, <1>3 DEF RowReads

LEMMA ZeroTyped ==
    ASSUME NEW l \in 1 .. 5, NEW t \in Types
    PROVE  IsTyped(l, t, Zero(t))
<1>1. PICK m : m = Zero(t)
  OBVIOUS
<1>2. m = [n \in Names(t) |-> m[n]] /\ \A n \in Names(t) : m[n] = ZeroOf(RowOf(t, n))
  BY <1>1 DEF Zero
<1>3. ASSUME NEW u \in Unmarshals[t]
      PROVE  u.name \in Names(t) /\ m[u.name] = ZeroOf(u) /\ (u.kind \in Scalars \/ Embeds(u))
  <2>1. u.name \in Names(t) /\ RowOf(t, u.name) = u
    BY NamedRow DEF Names
  <2> QED  BY <1>2, <2>1, NameIs
<1>4. HasValues(t, m)
  BY <1>3, ZeroIsValue, Zenon DEF HasValues
<1>5. EmbedsBelow(l, t, m)
  <2>1. ASSUME NEW u \in Unmarshals[t], Embeds(u), NEW k \in DOMAIN m[u.name] PROVE FALSE
    <3>1. u.kind \notin Scalars
      BY <2>1, TypesAre DEF Embeds, Scalars, Integral, FixedKinds
    <3>2. m[u.name] = <<>>
      BY <1>3, <3>1, ZeroIs DEF Scalars
    <3> QED  BY <3>2
  <2> QED  BY <2>1 DEF EmbedsBelow
<1> QED  BY <1>1, <1>2, <1>4, <1>5, Zenon DEF IsTyped

\* The value of a field of a message with others in it.
EmbeddedValue(l, u, v) ==
    Embeds(u) => /\ u.kind \notin Scalars /\ IsList(v) /\ Len(v) \in Nat /\ DOMAIN v = 1 .. Len(v)
                 /\ (Len(v) > 1 => u.repeated) /\ ZeroOf(u) = <<>>
                 /\ \A j \in 1 .. Len(v) : MessageAt(l - 1, u.kind, v[j])

LEMMA ValueTyped ==
    ASSUME NEW l \in 1 .. 5, NEW t, NEW m, IsTyped(l, t, m), NEW u \in Unmarshals[t]
    PROVE  EmbeddedValue(l, u, m[u.name]) /\ IsValue(u, m[u.name])
<1>1. IsValue(u, m[u.name]) /\ t \in Types /\ IsEmbedding(t, m)
  BY EmbeddingIs DEF IsTyped, HasValues
<1>2. ASSUME Embeds(u) PROVE EmbeddedValue(l, u, m[u.name])
  <2>1. u.kind \notin Scalars
    BY <1>2, TypesAre DEF Embeds, Scalars, Integral, FixedKinds
  <2>2. ZeroOf(u) = <<>>
    BY <2>1, ZeroIs DEF Scalars
  <2>3. IsList(m[u.name]) /\ (Len(m[u.name]) > 1 => u.repeated)
    BY <1>1, <2>1, ValueIs, Zenon DEF ValueOf
  <2>4. Len(m[u.name]) \in Nat
    BY <2>3, Zenon DEF IsList
  <2>5. DOMAIN m[u.name] = 1 .. Len(m[u.name])
    BY <1>1, <1>2, Zenon DEF IsEmbedding
  <2>6. \A j \in 1 .. Len(m[u.name]) : MessageAt(l - 1, u.kind, m[u.name][j])
    BY <1>2, <2>5, Zenon DEF IsTyped, EmbedsBelow
  <2> QED  BY <2>1, <2>2, <2>3, <2>4, <2>5, <2>6, Zenon DEF EmbeddedValue
<1> QED  BY <1>1, <1>2 DEF EmbeddedValue

LEMMA MergedZero ==
    ASSUME NEW l \in 0 .. 5, NEW t, NEW m, MessageAt(l, t, m)
    PROVE  MergedAt(l, t, Zero(t), m) = m
<1>1. l \in 1 .. 5 /\ IsTyped(l, t, m)
  BY MessageTyped
<1>2. t \in Types /\ m = [n \in Names(t) |-> m[n]]
  BY <1>1 DEF IsTyped
<1>3. ASSUME NEW n \in Names(t) PROVE MergedRow(l, RowOf(t, n), Zero(t)[n], m[n]) = m[n]
  <2>1. PICK u : u = RowOf(t, n)
    OBVIOUS
  <2>2. u \in Unmarshals[t] /\ u.name = n
    BY <1>2, <2>1, NameIs
  <2>3. Zero(t)[n] = ZeroOf(u)
    BY <2>1 DEF Zero
  <2>4. u.repeated => Embeds(u)
    BY <1>2, <2>2, RowWritten DEF RowReads
  <2>5. EmbeddedValue(l, u, m[n])
    BY <1>1, <2>2, ValueTyped
  <2>6. CASE m[n] = ZeroOf(u)
    BY <2>1, <2>3, <2>6 DEF MergedRow
  <2>7. CASE m[n] # ZeroOf(u) /\ u.repeated
    <3>1. ZeroOf(u) = <<>> /\ IsList(m[n])
      BY <2>4, <2>5, <2>7 DEF EmbeddedValue
    <3>2. <<>> \o m[n] = m[n]
      <4>1. PICK v : v = m[n]
        OBVIOUS
      <4>2. v = [k \in 1 .. Len(v) |-> v[k]] /\ Len(v) \in Nat
        BY <3>1, <4>1, Zenon DEF IsList
      <4>3. PICK S : S = {v[k] : k \in 1 .. Len(v)}
        OBVIOUS
      <4>4. v \in Seq(S)
        BY <4>2, <4>3
      <4>5. <<>> \o v = v
        BY <4>4
      <4> QED  BY <4>1, <4>5
    <3> QED  BY <2>1, <2>3, <2>7, <3>1, <3>2 DEF MergedRow
  <2>8. CASE m[n] # ZeroOf(u) /\ ~u.repeated
    <3>1. Embeds(u) => ZeroOf(u) = <<>>
      BY <2>5 DEF EmbeddedValue
    <3> QED  BY <2>1, <2>3, <2>8, <3>1 DEF MergedRow
  <2> QED  BY <2>6, <2>7, <2>8
<1>4. MergedAt(l, t, Zero(t), m) = [n \in Names(t) |-> MergedRow(l, RowOf(t, n), Zero(t)[n], m[n])]
  BY <1>1, MergedLevel
<1> QED  BY <1>2, <1>3, <1>4

\* The rows of a message, as they are written.
NameOf(t, i) == Marshals[t][i].name
RowsOf(l, t, m) ==
    [i \in DOMAIN Marshals[t] |->
        MarshalRow(Marshals[t][i], m[NameOf(t, i)], EncodedAt(l, t, m)[i])]
ElementsAt(l, t, m, i) ==
    ElementsOf(Marshals[t][i], RowOf(t, NameOf(t, i)), m[NameOf(t, i)], EncodedAt(l, t, m)[i])

\* A row of a message: its elements, and how the messages in it are encoded.
RowIs(l, t, m, i, u) ==
    /\ u \in Unmarshals[t] /\ RowReads(Marshals[t][i], u) /\ u.name = NameOf(t, i)
    /\ u.name \in Names(t) /\ u = RowOf(t, NameOf(t, i))
    /\ IsValue(u, m[u.name]) /\ EmbeddedValue(l, u, m[u.name])
    /\ AreEncoded(u, m[u.name], EncodedAt(l, t, m)[i])
    /\ Embeds(u) => \A j \in 1 .. Len(m[u.name]) :
                        EncodedAt(l, t, m)[i][j] = MarshalAt(l - 1, u.kind, m[u.name][j])
    /\ RowsOf(l, t, m)[i] = FlattenSeq(ElementsAt(l, t, m, i))
    /\ ElementsAre(HowMany(u, m[u.name]), ElementsAt(l, t, m, i))

LEMMA RowOfMessage ==
    ASSUME NEW l \in 1 .. 5, NEW t, NEW m, IsTyped(l, t, m), NEW i \in DOMAIN Marshals[t]
    PROVE  RowIs(l, t, m, i, RowOf(t, NameOf(t, i)))
<1>1. PICK u : u = RowOf(t, NameOf(t, i))
  OBVIOUS
<1>2. t \in Types
  BY DEF IsTyped
<1>3. u \in Unmarshals[t] /\ RowReads(Marshals[t][i], u)
  BY <1>1, <1>2, RowFound DEF NameOf
<1>4. u.name = NameOf(t, i) /\ u.name \in Names(t)
  <2>1. u.name = NameOf(t, i)
    BY <1>3 DEF RowReads, NameOf
  <2>2. u.name \in Names(t)
    BY <1>3 DEF Names
  <2> QED  BY <2>1, <2>2
<1>5. EmbeddedValue(l, u, m[u.name]) /\ IsValue(u, m[u.name])
  BY <1>3, ValueTyped
<1>6. PICK E : E = EncodedAt(l, t, m)[i]
  OBVIOUS
<1>7. ASSUME Embeds(u), NEW j \in 1 .. Len(m[u.name])
      PROVE  E[j] = MarshalAt(l - 1, u.kind, m[u.name][j]) /\ E[j] \in Seq(Octets) /\ FitsInt(Len(E[j]))
  <2>1. u.kind = Marshals[t][i].kind
    <3>1. u.kind \notin Integral
      BY <1>7, TypesAre DEF Embeds, Integral
    <3> QED  BY <1>3, <3>1 DEF RowReads
  <2>2. j \in DOMAIN m[u.name] /\ MessageAt(l - 1, u.kind, m[u.name][j])
    BY <1>5, <1>7, SMTT(60) DEF EmbeddedValue
  <2>3. E[j] = MarshalAt(l - 1, u.kind, m[u.name][j])
    BY <1>4, <1>6, <2>1, <2>2 DEF EncodedAt, NameOf
  <2>4. l - 1 \in 0 .. 5
    OBVIOUS
  <2>5. /\ MarshalAt(l - 1, u.kind, m[u.name][j]) \in Seq(Octets)
        /\ FitsInt(Len(MarshalAt(l - 1, u.kind, m[u.name][j])))
    BY <2>2, <2>4, MessageTyped
  <2> QED  BY <2>3, <2>5
<1>8. AreEncoded(u, m[u.name], E)
  BY <1>7 DEF AreEncoded
<1>9. PICK els : els = ElementsOf(Marshals[t][i], u, m[u.name], E)
  OBVIOUS
<1>10. els = ElementsAt(l, t, m, i)
  BY <1>1, <1>4, <1>6, <1>9 DEF ElementsAt
<1>11. MarshalRow(Marshals[t][i], m[u.name], E) = FlattenSeq(els)
  BY <1>3, <1>5, <1>8, <1>9, RowIsElements
<1>12. RowsOf(l, t, m)[i] = FlattenSeq(els)
  BY <1>4, <1>6, <1>11 DEF RowsOf
<1>13. ElementsAre(HowMany(u, m[u.name]), els)
  BY <1>3, <1>5, <1>8, <1>9, ElementsOfRow
<1>14. RowIs(l, t, m, i, u)
  BY <1>1, <1>3, <1>4, <1>5, <1>6, <1>7, <1>8, <1>10, <1>12, <1>13 DEF RowIs
<1> QED  BY <1>1, <1>14

\* They are all that is written.
RowsAre(l, t, m, n) ==
    /\ n \in Nat /\ DOMAIN Marshals[t] = 1 .. n /\ RowsOf(l, t, m) \in [1 .. n -> Seq(Octets)]
    /\ MarshalAt(l, t, m) = FlattenSeq(RowsOf(l, t, m)) /\ MarshalAt(l, t, m) = UpTo(RowsOf(l, t, m), n)
    /\ MarshalAt(l, t, m) \in Seq(Octets)

LEMMA FlattenElements ==
    ASSUME NEW S, NEW n \in Nat, NEW F \in [1 .. n -> Seq(S)]
    PROVE  FlattenSeq(F) = UpTo(F, n) /\ FlattenSeq(F) \in Seq(S)
<1>1. F = [j \in 1 .. n |-> F[j]]
  OBVIOUS
<1>2. FlattenSeq(F) = UpTo(F, n)
  BY <1>1 DEF UpTo
<1>3. UpToIs(S, F, n)
  <2>1. n \in 0 .. n
    OBVIOUS
  <2> QED  BY <2>1, UpToGrows
<1> QED  BY <1>2, <1>3 DEF UpToIs

LEMMA RowsOfMessage ==
    ASSUME NEW l \in 1 .. 5, NEW t, NEW m, IsTyped(l, t, m)
    PROVE  \E n : RowsAre(l, t, m, n)
<1>1. t \in Types
  BY DEF IsTyped
<1>2. PICK n \in Nat : DOMAIN Marshals[t] = 1 .. n
  BY <1>1, TablesOfMessages DEF RowsAgree, RowsCount
<1>3. PICK R : R = RowsOf(l, t, m)
  OBVIOUS
<1>4. ASSUME NEW i \in 1 .. n PROVE R[i] \in Seq(Octets)
  <2>1. PICK u : u = RowOf(t, NameOf(t, i))
    OBVIOUS
  <2>2. RowIs(l, t, m, i, u)
    BY <1>2, <2>1, RowOfMessage
  <2>3. R[i] = FlattenSeq(ElementsAt(l, t, m, i))
    BY <1>3, <2>2 DEF RowIs
  <2>4. PICK els : els = ElementsAt(l, t, m, i)
    OBVIOUS
  <2>5. PICK h : h = HowMany(u, m[u.name])
    OBVIOUS
  <2>6. h \in Nat /\ els \in [1 .. h -> Seq(Octets)]
    <3>1. IsValue(u, m[u.name]) /\ (u.kind \in Scalars \/ Embeds(u))
      BY <2>2 DEF RowIs, RowReads
    <3> QED  BY <2>2, <2>4, <2>5, <3>1, HowManyIs DEF RowIs, ElementsAre
  <2> QED  BY <2>3, <2>4, <2>6, FlattenElements
<1>5. R \in [1 .. n -> Seq(Octets)]
  <2>1. R = [i \in 1 .. n |-> R[i]]
    BY <1>2, <1>3 DEF RowsOf
  <2> QED  BY <1>4, <2>1
<1>6. MarshalAt(l, t, m) = FlattenSeq(R)
  <2>1. MarshalAt(l, t, m) = WithParts(t, m, EncodedAt(l, t, m))
    BY MarshalLevel
  <2> QED  BY <1>3, <2>1, Zenon DEF WithParts, RowsOf, NameOf
<1>7. FlattenSeq(R) = UpTo(R, n) /\ FlattenSeq(R) \in Seq(Octets)
  BY <1>5, FlattenElements
<1> QED  BY <1>2, <1>3, <1>5, <1>6, <1>7 DEF RowsAre

\* Unmarshal reads the messages of a level into any others.
ReadsAt(l) ==
    \A t, x, m : IsTyped(l, t, x) /\ MessageAt(l, t, m) =>
                     IsDecoded(l, t, x, MarshalAt(l, t, m), MergedAt(l, t, x, m))

\* What the messages in a field are decoded to, and what it is then.
RowMerges(l, u, old, v, E, Y) ==
    /\ AreDecoded(l, u, old, v, E, Y)
    /\ After(u, old, v, Y, HowMany(u, v)) = MergedRow(l, u, old, v)

LEMMA TargetTyped ==
    ASSUME NEW l \in 1 .. 5, NEW u, Embeds(u), NEW old, EmbeddedValue(l, u, old),
           l - 1 \in 1 .. 5
    PROVE  IsTyped(l - 1, u.kind, Target(u, old))
<1>1. u.kind \in Types
  BY DEF Embeds
<1>2. CASE old = <<>> \/ u.repeated
  <2>1. Target(u, old) = Zero(u.kind)
    BY <1>2 DEF Target
  <2> QED  BY <1>1, <2>1, ZeroTyped
<1>3. CASE old # <<>> /\ ~u.repeated
  <2>1. Target(u, old) = old[1]
    BY <1>3 DEF Target
  <2>2. IsList(old) /\ Len(old) \in Nat /\ \A j \in 1 .. Len(old) : MessageAt(l - 1, u.kind, old[j])
    BY DEF EmbeddedValue
  <2>3. Len(old) # 0
    <3>1. old = [k \in 1 .. Len(old) |-> old[k]]
      BY <2>2, Zenon DEF IsList
    <3>2. Len(old) = 0 => old = <<>>
      BY <3>1
    <3> QED  BY <1>3, <3>2
  <2>4. MessageAt(l - 1, u.kind, old[1])
    BY <2>2, <2>3
  <2> QED  BY <2>1, <2>4, MessageTyped
<1> QED  BY <1>2, <1>3

LEMMA ListIs ==
    ASSUME NEW v, IsList(v)
    PROVE  /\ Len(v) = 0 => v = <<>>
           /\ Len(v) = 1 => <<v[1]>> = v
           /\ SubSeq(v, 1, Len(v)) = v
<1>1. v = [k \in 1 .. Len(v) |-> v[k]] /\ Len(v) \in Nat
  BY Zenon DEF IsList
<1>2. PICK S : S = {v[k] : k \in 1 .. Len(v)}
  OBVIOUS
<1>3. v \in Seq(S)
  BY <1>1, <1>2
<1>4. Len(v) = 0 => v = <<>>
  BY <1>3
<1>5. SubSeq(v, 1, Len(v)) = v
  BY <1>3
<1>6. ASSUME Len(v) = 1 PROVE <<v[1]>> = v
  <2>1. v[1] \in S
    BY <1>3, <1>6
  <2>2. PICK z : z = <<v[1]>>
    OBVIOUS
  <2>3. z \in Seq(S) /\ Len(z) = 1 /\ z[1] = v[1]
    BY <2>1, <2>2
  <2>4. z = v
    BY <1>3, <1>6, <2>3
  <2> QED  BY <2>2, <2>4
<1> QED  BY <1>4, <1>5, <1>6

LEMMA RowDecoded ==
    ASSUME NEW l \in 1 .. 5, ReadsAt(l - 1), NEW t, NEW x, NEW m, IsTyped(l, t, x), IsTyped(l, t, m),
           NEW i \in DOMAIN Marshals[t], NEW u, u = RowOf(t, NameOf(t, i))
    PROVE  \E Y : RowMerges(l, u, x[u.name], m[u.name], EncodedAt(l, t, m)[i], Y)
<1>1. RowIs(l, t, m, i, u)
  BY RowOfMessage
<1>2. PICK old : old = x[u.name]
  OBVIOUS
<1>3. PICK v : v = m[u.name]
  OBVIOUS
<1>4. PICK E : E = EncodedAt(l, t, m)[i]
  OBVIOUS
<1>5. u \in Unmarshals[t] /\ RowReads(Marshals[t][i], u) /\ IsValue(u, v) /\ EmbeddedValue(l, u, v)
  BY <1>1, <1>3 DEF RowIs
<1>6. EmbeddedValue(l, u, old)
  BY <1>2, <1>5, ValueTyped
<1>7. (u.kind \in Scalars \/ Embeds(u)) /\ (u.repeated => Embeds(u))
  BY <1>5 DEF RowReads
<1>8. HowMany(u, v) = 0 <=> v = ZeroOf(u)
  BY <1>5, <1>7, HowManyIs
<1>9. CASE v = ZeroOf(u)
  <2>1. PICK Y : Y = <<>>
    OBVIOUS
  <2>2. Embeds(u) => IsList(old) /\ IsList(Y) /\ Len(v) = 0 /\ Len(Y) = 0
    <3>1. Len(<<>>) = 0 /\ IsList(<<>>)
      <4>1. <<>> = [k \in 1 .. 0 |-> <<>>[k]] /\ Len(<<>>) = 0
        OBVIOUS
      <4> QED  BY <4>1 DEF IsList
    <3> QED  BY <1>5, <1>6, <1>9, <2>1, <3>1 DEF EmbeddedValue
  <2>3. AreDecoded(l, u, old, v, E, Y)
    BY <2>2 DEF AreDecoded
  <2>4. After(u, old, v, Y, HowMany(u, v)) = old /\ MergedRow(l, u, old, v) = old
    BY <1>8, <1>9 DEF After, MergedRow
  <2> QED  BY <1>2, <1>3, <1>4, <2>3, <2>4 DEF RowMerges
<1>10. CASE v # ZeroOf(u) /\ ~Embeds(u)
  <2>1. PICK Y : Y = <<>>
    OBVIOUS
  <2>2. AreDecoded(l, u, old, v, E, Y)
    BY <1>10 DEF AreDecoded
  <2>3. After(u, old, v, Y, HowMany(u, v)) = v /\ MergedRow(l, u, old, v) = v
    BY <1>7, <1>8, <1>10 DEF After, MergedRow
  <2> QED  BY <1>2, <1>3, <1>4, <2>2, <2>3 DEF RowMerges
<1>11. CASE v # ZeroOf(u) /\ Embeds(u)
  <2> DEFINE Y == [j \in 1 .. Len(v) |-> MergedAt(l - 1, u.kind, Target(u, old), v[j])]
  <2>1. /\ Len(v) \in Nat /\ IsList(v) /\ ZeroOf(u) = <<>> /\ (Len(v) > 1 => u.repeated)
        /\ \A j \in 1 .. Len(v) : MessageAt(l - 1, u.kind, v[j])
    BY <1>5, <1>11 DEF EmbeddedValue
  <2>2. HowMany(u, v) = Len(v) /\ Len(v) # 0
    BY <1>8, <1>11 DEF HowMany
  <2>3. l - 1 \in 1 .. 5 /\ l - 1 \in 0 .. 5
    <3>1. l - 1 \in 0 .. 5 /\ MessageAt(l - 1, u.kind, v[1])
      BY <2>1, <2>2
    <3> QED  BY <3>1, MessageTyped
  <2>4. IsTyped(l - 1, u.kind, Target(u, old))
    BY <1>6, <1>11, <2>3, TargetTyped
  <2>5. Len(Y) = Len(v) /\ IsList(Y) /\ \A j \in 1 .. Len(v) : Y[j] = MergedAt(l - 1, u.kind, Target(u, old), v[j])
    <3>1. Len(Y) = Len(v)
      BY <2>1
    <3>2. Y = [k \in 1 .. Len(v) |-> Y[k]]
      OBVIOUS
    <3>3. \A j \in 1 .. Len(v) : Y[j] = MergedAt(l - 1, u.kind, Target(u, old), v[j])
      OBVIOUS
    <3> HIDE DEF Y
    <3>4. IsList(Y)
      BY <2>1, <3>1, <3>2, Zenon DEF IsList
    <3> QED  BY <3>1, <3>3, <3>4
  <2> HIDE DEF Y
  <2>6. \A j \in 1 .. Len(v) : E[j] = MarshalAt(l - 1, u.kind, v[j])
    BY <1>1, <1>3, <1>4, <1>11 DEF RowIs
  <2>7. \A j \in 1 .. Len(v) : IsDecoded(l - 1, u.kind, Target(u, old), E[j], Y[j])
    BY <2>1, <2>4, <2>5, <2>6 DEF ReadsAt
  <2>8. IsList(old)
    BY <1>6, <1>11 DEF EmbeddedValue
  <2>9. AreDecoded(l, u, old, v, E, Y)
    BY <2>5, <2>7, <2>8 DEF AreDecoded
  <2>10. After(u, old, v, Y, Len(v)) = MergedRow(l, u, old, v)
    <3>1. ASSUME Target(u, old) = Zero(u.kind), NEW j \in 1 .. Len(v) PROVE Y[j] = v[j]
      BY <2>1, <2>3, <2>5, <3>1, MergedZero
    <3>2. CASE u.repeated
      <4>1. Target(u, old) = Zero(u.kind)
        BY <3>2 DEF Target
      <4>2. \A j \in 1 .. Len(v) : Y[j] = v[j]
        BY <3>1, <4>1
      <4>3. Y = v
        <5>1. v = [k \in 1 .. Len(v) |-> v[k]] /\ Y = [k \in 1 .. Len(Y) |-> Y[k]]
          BY <2>1, <2>5, Zenon DEF IsList
        <5> QED  BY <2>5, <4>2, <5>1
      <4>4. SubSeq(Y, 1, Len(v)) = v
        BY <2>1, <4>3, ListIs
      <4> QED  BY <1>11, <2>2, <3>2, <4>4 DEF After, MergedRow
    <3>3. CASE ~u.repeated
      <4>1. Len(v) = 1 /\ After(u, old, v, Y, Len(v)) = <<Y[1]>>
        BY <1>11, <2>1, <2>2, <3>3 DEF After
      <4>2. CASE old = <<>>
        <5>1. Target(u, old) = Zero(u.kind)
          BY <4>2 DEF Target
        <5>2. Y[1] = v[1]
          BY <3>1, <4>1, <5>1
        <5>3. <<v[1]>> = v
          BY <2>1, <4>1, ListIs
        <5>4. MergedRow(l, u, old, v) = v
          BY <1>11, <3>3, <4>2 DEF MergedRow
        <5> QED  BY <4>1, <5>2, <5>3, <5>4
      <4>3. CASE old # <<>>
        <5>1. Target(u, old) = old[1]
          BY <3>3, <4>3 DEF Target
        <5>2. Y[1] = MergedAt(l - 1, u.kind, old[1], v[1])
          BY <2>5, <4>1, <5>1
        <5>3. MergedRow(l, u, old, v) = <<MergedAt(l - 1, u.kind, old[1], v[1])>>
          BY <1>11, <3>3, <4>3 DEF MergedRow
        <5> QED  BY <4>1, <5>2, <5>3
      <4> QED  BY <4>2, <4>3
    <3> QED  BY <3>2, <3>3
  <2> QED  BY <1>2, <1>3, <1>4, <2>2, <2>9, <2>10 DEF RowMerges
<1> QED  BY <1>9, <1>10, <1>11

\* The message when the first i rows have been read.
Halfway(l, t, x, m, i) ==
    [n \in Names(t) |-> IF \E h \in 1 .. i : NameOf(t, h) = n THEN MergedAt(l, t, x, m)[n] ELSE x[n]]

HalfwayBounds(l, t, x, m, n) ==
    Halfway(l, t, x, m, 0) = x /\ Halfway(l, t, x, m, n) = MergedAt(l, t, x, m)

LEMMA HalfwayEnds ==
    ASSUME NEW l \in 1 .. 5, NEW t, NEW x, IsTyped(l, t, x), NEW m,
           NEW n \in Nat, DOMAIN Marshals[t] = 1 .. n
    PROVE  HalfwayBounds(l, t, x, m, n)
<1>1. t \in Types /\ x = [c \in Names(t) |-> x[c]]
  BY DEF IsTyped
<1>2. Halfway(l, t, x, m, 0) = x
  BY <1>1 DEF Halfway
<1>3. ASSUME NEW c \in Names(t) PROVE \E h \in 1 .. n : NameOf(t, h) = c
  BY <1>1, NameIs DEF NameOf
<1>4. PICK y : y = MergedAt(l, t, x, m)
  OBVIOUS
<1>5. y = [c \in Names(t) |-> y[c]]
  <2>1. y = [c \in Names(t) |-> MergedRow(l, RowOf(t, c), x[c], m[c])]
    BY <1>4, MergedLevel
  <2> QED  BY <2>1
<1>6. Halfway(l, t, x, m, n) = [c \in Names(t) |-> y[c]]
  BY <1>3, <1>4 DEF Halfway
<1> QED  BY <1>2, <1>4, <1>5, <1>6 DEF HalfwayBounds

HalfwaySteps(l, t, x, m, i, u) ==
    /\ Halfway(l, t, x, m, i - 1)[u.name] = x[u.name]
    /\ [Halfway(l, t, x, m, i - 1) EXCEPT ![u.name] = MergedRow(l, u, x[u.name], m[u.name])]
           = Halfway(l, t, x, m, i)
    /\ Halfway(l, t, x, m, i - 1) = [c \in Names(t) |-> Halfway(l, t, x, m, i - 1)[c]]

LEMMA HalfwayNext ==
    ASSUME NEW l \in 1 .. 5, NEW t \in Types, NEW x, NEW m,
           NEW n \in Nat, DOMAIN Marshals[t] = 1 .. n, NEW i \in 1 .. n,
           NEW u, u = RowOf(t, NameOf(t, i)), u.name = NameOf(t, i), u.name \in Names(t)
    PROVE  HalfwaySteps(l, t, x, m, i, u)
<1>1. \A h \in 1 .. n : NameOf(t, h) = u.name => h = i
  BY TablesOfMessages DEF RowsAgree, RowsRead, NameOf
<1>2. ~ \E h \in 1 .. i - 1 : NameOf(t, h) = u.name
  BY <1>1
<1>3. \E h \in 1 .. i : NameOf(t, h) = u.name
  OBVIOUS
<1>4. \A c \in Names(t) : c # u.name =>
          ((\E h \in 1 .. i - 1 : NameOf(t, h) = c) <=> (\E h \in 1 .. i : NameOf(t, h) = c))
  OBVIOUS
<1>5. MergedAt(l, t, x, m)[u.name] = MergedRow(l, u, x[u.name], m[u.name])
  BY MergedLevel
<1>6. PICK y : y = Halfway(l, t, x, m, i - 1)
  OBVIOUS
<1>7. PICK z : z = Halfway(l, t, x, m, i)
  OBVIOUS
<1>8. y = [c \in Names(t) |-> y[c]] /\ z = [c \in Names(t) |-> z[c]]
  BY <1>6, <1>7 DEF Halfway
<1>9. y[u.name] = x[u.name]
  BY <1>2, <1>6 DEF Halfway
<1>10. z[u.name] = MergedRow(l, u, x[u.name], m[u.name])
  BY <1>3, <1>5, <1>7 DEF Halfway
<1>11. ASSUME NEW c \in Names(t), c # u.name PROVE y[c] = z[c]
  <2>1. CASE \E h \in 1 .. i - 1 : NameOf(t, h) = c
    BY <1>4, <1>6, <1>7, <1>11, <2>1 DEF Halfway
  <2>2. CASE ~ \E h \in 1 .. i - 1 : NameOf(t, h) = c
    BY <1>4, <1>6, <1>7, <1>11, <2>2 DEF Halfway
  <2> QED  BY <2>1, <2>2
<1>12. [y EXCEPT ![u.name] = MergedRow(l, u, x[u.name], m[u.name])] = z
  BY <1>8, <1>10, <1>11
<1> QED  BY <1>6, <1>7, <1>8, <1>9, <1>12 DEF HalfwaySteps

\* The state of the loop when the first i rows have been read.
RowsReached(F, b, l, t, x, m, p, i, k) ==
    /\ k \in 0 .. Len(b) /\ k < Len(p \o UpTo(RowsOf(l, t, m), i)) + 1
    /\ Len(p \o UpTo(RowsOf(l, t, m), i)) \in Nat
    /\ F[k] = State(Len(p \o UpTo(RowsOf(l, t, m), i)) + 1, Halfway(l, t, x, m, i))

LEMMA RowsAreRead ==
    ASSUME NEW F, NEW l \in 1 .. 5, ReadsAt(l - 1), NEW t, NEW m0, NEW b \in Seq(Octets),
           IsLoop(F, l, t, m0, b), NEW x, NEW m, IsTyped(l, t, x), IsTyped(l, t, m),
           NEW n, RowsAre(l, t, m, n), NEW p \in Seq(Octets), NEW q \in Seq(Octets),
           b = (p \o MarshalAt(l, t, m)) \o q,
           NEW k \in Nat, k < Len(p) + 1, F[k] = State(Len(p) + 1, x), NEW i \in 0 .. n
    PROVE  \E h : RowsReached(F, b, l, t, x, m, p, i, h)
<1>1. PICK R : R = RowsOf(l, t, m)
  OBVIOUS
<1>2. /\ n \in Nat /\ DOMAIN Marshals[t] = 1 .. n /\ R \in [1 .. n -> Seq(Octets)]
      /\ b = (p \o FlattenSeq(R)) \o q
  BY <1>1 DEF RowsAre
<1>3. t \in Types /\ x = [c \in Names(t) |-> x[c]]
  BY DEF IsTyped
<1> DEFINE T == {c \in 0 .. n : ~ \E h : RowsReached(F, b, l, t, x, m, p, c, h)}
<1>4. T = {}
  <2> SUFFICES ASSUME T # {} PROVE FALSE
    OBVIOUS
  <2>1. PICK c \in T : \A d \in T : c <= d
    <3>1. T \in SUBSET Nat
      BY <1>2
    <3> HIDE DEF T
    <3> QED  BY <3>1, LeastNumber
  <2>2. c \in 0 .. n /\ ~ \E h : RowsReached(F, b, l, t, x, m, p, c, h)
    OBVIOUS
  <2>3. c # 0
    <3> SUFFICES ASSUME c = 0 PROVE FALSE
      OBVIOUS
    <3>1. UpTo(R, 0) = <<>>
      <4>1. 0 \in 0 .. n
        BY <1>2
      <4>2. UpToIs(Octets, R, 0)
        BY <1>2, <4>1, UpToGrows
      <4> QED  BY <4>2 DEF UpToIs
    <3>2. p \o UpTo(R, 0) = p
      BY <3>1, SMTT(60)
    <3>3. Halfway(l, t, x, m, 0) = x
      <4>1. HalfwayBounds(l, t, x, m, n)
        BY <1>2, HalfwayEnds
      <4> QED  BY <4>1 DEF HalfwayBounds
    <3>4. Len(p) \in Nat /\ Len(b) \in Nat /\ Len(p) <= Len(b)
      <4>1. FlattenSeq(R) \in Seq(Octets)
        BY <1>2, FlattenElements
      <4>2. IsWritten(b, p, FlattenSeq(R), q)
        BY <1>2, <4>1, Written
      <4>3. PICK g \in Seq(Octets) : g = FlattenSeq(R)
        BY <4>1
      <4>4. Len(g) \in Nat /\ Len(q) \in Nat /\ Len(p) \in Nat /\ Len(b) = Len(p) + Len(g) + Len(q)
        BY <4>2, <4>3, SMTT(60) DEF IsWritten
      <4> QED  BY <4>4, SMTT(60)
    <3>5. k \in 0 .. Len(b)
      BY <3>4
    <3>6. RowsReached(F, b, l, t, x, m, p, 0, k)
      BY <1>1, <3>2, <3>3, <3>4, <3>5 DEF RowsReached
    <3> QED  BY <2>2, <3>6
  <2>4. c \in 1 .. n /\ c - 1 \in 0 .. n /\ ~(c <= c - 1)
    BY <1>2, <2>2, <2>3, SMTT(60)
  <2>5. PICK h : RowsReached(F, b, l, t, x, m, p, c - 1, h)
    BY <2>1, <2>4
  <2> HIDE DEF T
  <2>6. PICK u : u = RowOf(t, NameOf(t, c))
    OBVIOUS
  <2>7. RowIs(l, t, m, c, u)
    BY <1>2, <2>4, <2>6, RowOfMessage
  <2>8. PICK r : PlaceIs(b, p, R, c, r)
    BY <1>2, <2>4, Places
  <2>9. PICK a : a = p \o UpTo(R, c - 1)
    OBVIOUS
  <2>10. a \in Seq(Octets) /\ r \in Seq(Octets) /\ b = (a \o R[c]) \o r /\ a \o R[c] = p \o UpTo(R, c)
    BY <2>8, <2>9 DEF PlaceIs
  <2>11. PICK els : els = ElementsAt(l, t, m, c)
    OBVIOUS
  <2>12. R[c] = FlattenSeq(els)
    BY <1>1, <2>7, <2>11 DEF RowIs
  <2>13. PICK v : v = m[u.name]
    OBVIOUS
  <2>14. PICK E : E = EncodedAt(l, t, m)[c]
    OBVIOUS
  <2>15. els = ElementsOf(Marshals[t][c], u, v, E)
    <3>1. u.name = NameOf(t, c)
      BY <2>7 DEF RowIs
    <3> QED  BY <2>6, <2>11, <2>13, <2>14, <3>1 DEF ElementsAt
  <2>16. PICK y : y = Halfway(l, t, x, m, c - 1)
    OBVIOUS
  <2>17. /\ y[u.name] = x[u.name] /\ y = [d \in Names(t) |-> y[d]]
         /\ [y EXCEPT ![u.name] = MergedRow(l, u, x[u.name], v)] = Halfway(l, t, x, m, c)
    <3>1. u.name = NameOf(t, c) /\ u.name \in Names(t)
      BY <2>7 DEF RowIs
    <3>2. HalfwaySteps(l, t, x, m, c, u)
      BY <1>2, <1>3, <2>4, <2>6, <3>1, HalfwayNext
    <3> QED  BY <2>13, <2>16, <3>2, Zenon DEF HalfwaySteps
  <2>18. PICK Y : RowMerges(l, u, x[u.name], v, E, Y)
    BY <1>2, <2>4, <2>6, <2>13, <2>14, RowDecoded
  <2>19. /\ u \in Unmarshals[t] /\ RowReads(Marshals[t][c], u) /\ IsValue(u, v) /\ AreEncoded(u, v, E)
    BY <2>7, <2>13, <2>14 DEF RowIs
  <2>20. AreDecoded(l, u, y[u.name], v, E, Y) /\ After(u, y[u.name], v, Y, HowMany(u, v)) = MergedRow(l, u, x[u.name], v)
    BY <2>17, <2>18 DEF RowMerges
  <2>21. h \in Nat /\ h < Len(a) + 1 /\ F[h] = State(Len(a) + 1, y)
    BY <1>1, <2>5, <2>9, <2>16 DEF RowsReached
  <2>22. PICK z : z = HowMany(u, v)
    OBVIOUS
  <2>23. z \in Nat /\ z \in 0 .. HowMany(u, v)
    <3>1. u.kind \in Scalars \/ Embeds(u)
      BY <2>19 DEF RowReads
    <3>2. z \in Nat
      BY <2>19, <2>22, <3>1, HowManyIs
    <3> QED  BY <2>22, <3>2
  <2>24. RowReached(F, b, h, u, y, a, els, v, Y, z)
    <3>1. b = (a \o FlattenSeq(els)) \o r
      BY <2>10, <2>12
    <3> QED  BY <1>3, <2>10, <2>15, <2>17, <2>19, <2>20, <2>21, <2>23, <3>1, RowIsRead, ZenonT(60)
  <2>25. UpTo(els, z) = R[c]
    <3>1. els = [j \in 1 .. z |-> els[j]]
      BY <2>15, <2>22 DEF ElementsOf
    <3> QED  BY <2>12, <3>1 DEF UpTo
  <2>26. PICK e : e = h + z
    OBVIOUS
  <2>27. PICK g : g = Len(p \o UpTo(R, c))
    OBVIOUS
  <2>28. e \in 0 .. Len(b) /\ e < g + 1 /\ g \in Nat
         /\ F[e] = State(g + 1, [y EXCEPT ![u.name] = After(u, y[u.name], v, Y, z)])
    <3>1. a \o UpTo(els, z) = p \o UpTo(R, c)
      BY <2>10, <2>25
    <3> QED  BY <2>24, <2>26, <2>27, <3>1 DEF RowReached, RowState
  <2>29. F[e] = State(g + 1, Halfway(l, t, x, m, c))
    BY <2>17, <2>20, <2>22, <2>28
  <2>30. RowsReached(F, b, l, t, x, m, p, c, e)
    BY <1>1, <2>27, <2>28, <2>29 DEF RowsReached
  <2> QED  BY <2>2, <2>30
<1> QED  BY <1>4

\* The loop has read what m was written as, from x on.
HasRead(F, b, l, t, x, m, p, k) ==
    /\ k \in Nat /\ k \in 0 .. Len(b) /\ k < Len(p \o MarshalAt(l, t, m)) + 1
    /\ p \o MarshalAt(l, t, m) \in Seq(Octets)
    /\ F[k] = State(Len(p \o MarshalAt(l, t, m)) + 1, MergedAt(l, t, x, m))

LEMMA MessageIsRead ==
    ASSUME NEW F, NEW l \in 1 .. 5, ReadsAt(l - 1), NEW t, NEW m0, NEW b \in Seq(Octets),
           IsLoop(F, l, t, m0, b), NEW x, NEW m, IsTyped(l, t, x), IsTyped(l, t, m),
           NEW p \in Seq(Octets), NEW q \in Seq(Octets), b = (p \o MarshalAt(l, t, m)) \o q,
           NEW k \in Nat, k < Len(p) + 1, F[k] = State(Len(p) + 1, x)
    PROVE  \E h : HasRead(F, b, l, t, x, m, p, h)
<1>1. PICK n : RowsAre(l, t, m, n)
  BY RowsOfMessage
<1>2. n \in Nat /\ n \in 0 .. n /\ DOMAIN Marshals[t] = 1 .. n /\ UpTo(RowsOf(l, t, m), n) = MarshalAt(l, t, m)
      /\ MarshalAt(l, t, m) \in Seq(Octets)
  BY <1>1 DEF RowsAre
<1>3. PICK h : RowsReached(F, b, l, t, x, m, p, n, h)
  BY <1>1, <1>2, RowsAreRead
<1>4. Halfway(l, t, x, m, n) = MergedAt(l, t, x, m)
  <2>1. HalfwayBounds(l, t, x, m, n)
    BY <1>2, HalfwayEnds
  <2> QED  BY <2>1 DEF HalfwayBounds
<1>5. p \o MarshalAt(l, t, m) \in Seq(Octets)
  BY <1>2
<1>6. h \in 0 .. Len(b) /\ h \in Nat
  BY <1>3 DEF RowsReached
<1>7. HasRead(F, b, l, t, x, m, p, h)
  BY <1>2, <1>3, <1>4, <1>5, <1>6 DEF RowsReached, HasRead
<1> QED  BY <1>7

\* The run of the loop on what m was written as and some more.
LEMMA RunReads ==
    ASSUME NEW F, NEW l \in 1 .. 5, ReadsAt(l - 1), NEW t, NEW b \in Seq(Octets),
           NEW x, NEW m, IsLoop(F, l, t, x, b), IsTyped(l, t, x), IsTyped(l, t, m),
           NEW q \in Seq(Octets), b = MarshalAt(l, t, m) \o q
    PROVE  \E h : HasRead(F, b, l, t, x, m, <<>>, h)
<1>1. PICK p \in Seq(Octets) : p = <<>>
  <2>1. <<>> \in Seq(Octets)
    OBVIOUS
  <2> QED  BY <2>1, Zenon
<1>2. MarshalAt(l, t, m) \in Seq(Octets)
  BY RowsOfMessage DEF RowsAre
<1>3. b = (p \o MarshalAt(l, t, m)) \o q
  BY <1>1, <1>2
<1>4. 0 \in Nat /\ Len(p) = 0 /\ 0 < Len(p) + 1
  BY <1>1
<1>5. F[0] = State(Len(p) + 1, x)
  <2>1. F[0] = State(1, x)
    BY LoopIs
  <2> QED  BY <1>4, <2>1
<1>6. \E h : HasRead(F, b, l, t, x, m, p, h)
  BY <1>2, <1>3, <1>4, <1>5, MessageIsRead
<1> QED  BY <1>1, <1>6

EndsWith(F, b, y) == Ended(F, b) = [ok |-> TRUE, msg |-> y]

LEMMA RunEnds ==
    ASSUME NEW F, NEW l \in 1 .. 5, NEW t, NEW m0, NEW b \in Seq(Octets), IsLoop(F, l, t, m0, b),
           NEW x, NEW m, NEW p, NEW k, HasRead(F, b, l, t, x, m, p, k), b = p \o MarshalAt(l, t, m)
    PROVE  EndsWith(F, b, MergedAt(l, t, x, m))
<1>1. PICK y : y = MergedAt(l, t, x, m)
  OBVIOUS
<1>2. k \in 0 .. Len(b) /\ F[k] = State(Len(b) + 1, y) /\ Len(b) \in Nat
  BY <1>1 DEF HasRead
<1>3. PICK i : i = Len(b) + 1
  OBVIOUS
<1>4. i > Len(b)
  BY <1>2, <1>3
<1>5. F[k].ok = TRUE /\ F[k].at = i /\ F[k].msg = y
  BY <1>2, <1>3 DEF State
<1>6. Decoded(b, F[k])
  BY <1>4, <1>5 DEF Decoded
<1>7. Ended(F, b) = IF F[k].ok THEN [ok |-> TRUE, msg |-> F[k].msg] ELSE Fail
  BY <1>2, <1>6, LoopEnds
<1> QED  BY <1>1, <1>5, <1>7, Zenon DEF EndsWith

LEMMA LevelReads ==
    ASSUME NEW l \in 1 .. 5, ReadsAt(l - 1)
    PROVE  ReadsAt(l)
<1> SUFFICES ASSUME NEW t, NEW x, NEW m, IsTyped(l, t, x), MessageAt(l, t, m)
             PROVE  IsDecoded(l, t, x, MarshalAt(l, t, m), MergedAt(l, t, x, m))
  BY DEF ReadsAt
<1>1. IsTyped(l, t, m) /\ MarshalAt(l, t, m) \in Seq(Octets)
  BY MessageTyped
<1>2. PICK b \in Seq(Octets) : b = MarshalAt(l, t, m)
  BY <1>1
<1>3. PICK F : IsLoop(F, l, t, x, b) /\ UnmarshalAt(l, t, x, b) = Ended(F, b)
  BY UnmarshalLevel
<1>4. PICK q \in Seq(Octets) : q = <<>>
  <2>1. <<>> \in Seq(Octets)
    OBVIOUS
  <2> QED  BY <2>1, Zenon
<1>5. b = MarshalAt(l, t, m) \o q /\ b = <<>> \o MarshalAt(l, t, m)
  BY <1>2, <1>4
<1>6. PICK h : HasRead(F, b, l, t, x, m, <<>>, h)
  BY <1>1, <1>3, <1>5, RunReads
<1>7. EndsWith(F, b, MergedAt(l, t, x, m))
  <2>1. PICK p : p = <<>>
    OBVIOUS
  <2>2. HasRead(F, b, l, t, x, m, p, h) /\ b = p \o MarshalAt(l, t, m)
    BY <1>5, <1>6, <2>1
  <2> QED  BY <1>3, <2>2, RunEnds
<1> QED  BY <1>2, <1>3, <1>7, Zenon DEF IsDecoded, EndsWith

LEMMA AllLevelsRead == \A l \in 0 .. 5 : ReadsAt(l)
<1>1. ReadsAt(0)
  BY DEF ReadsAt, MessageAt
<1>2. ASSUME NEW l \in 1 .. 5, ReadsAt(l - 1) PROVE ReadsAt(l)
  BY <1>2, LevelReads
<1>3. ReadsAt(1)
  BY <1>1, <1>2
<1>4. ReadsAt(2)
  BY <1>2, <1>3
<1>5. ReadsAt(3)
  BY <1>2, <1>4
<1>6. ReadsAt(4)
  BY <1>2, <1>5
<1>7. ReadsAt(5)
  BY <1>2, <1>6
<1> QED  BY <1>1, <1>3, <1>4, <1>5, <1>6, <1>7

-----------------------------------------------------------------------------
(* What is read.                                                           *)

LEMMA TopLevel ==
    ASSUME NEW t
    PROVE  /\ \A m : MessageAt(5, t, m) <=> IsMessage(t, m)
           /\ \A m : MarshalAt(5, t, m) = Marshal(t, m)
           /\ \A m, b : UnmarshalAt(5, t, m, b) = Unmarshal(t, m, b)
           /\ \A x, m : MergedAt(5, t, x, m) = Merged(t, x, m)
BY DEF MessageAt, MarshalAt, UnmarshalAt, MergedAt

\* Unmarshal reads what Marshal has written: into any message of the type, it merges
\* the one that was written; into a new one, it gives that back.
THEOREM MergedIsRead ==
    ASSUME NEW t, NEW x, NEW m, IsMessage(t, x), IsMessage(t, m)
    PROVE  /\ Unmarshal(t, x, Marshal(t, m)) = [ok |-> TRUE, msg |-> Merged(t, x, m)]
           /\ Unmarshal(t, Zero(t), Marshal(t, m)) = [ok |-> TRUE, msg |-> m]
<1>1. MessageAt(5, t, x) /\ MessageAt(5, t, m)
  BY TopLevel
<1>2. t \in Types /\ IsTyped(5, t, x) /\ IsTyped(5, t, Zero(t))
  BY <1>1, MessageTyped, ZeroTyped DEF IsTyped
<1>3. ReadsAt(5)
  BY AllLevelsRead
<1>4. IsDecoded(5, t, x, MarshalAt(5, t, m), MergedAt(5, t, x, m))
  BY <1>1, <1>2, <1>3 DEF ReadsAt
<1>5. IsDecoded(5, t, Zero(t), MarshalAt(5, t, m), MergedAt(5, t, Zero(t), m))
  BY <1>1, <1>2, <1>3 DEF ReadsAt
<1>6. MergedAt(5, t, Zero(t), m) = m
  BY <1>1, MergedZero
<1> QED  BY <1>4, <1>5, <1>6, TopLevel, ZenonT(120) DEF IsDecoded

-----------------------------------------------------------------------------
(* Equal.                                                                  *)

EqualAt(l, t, x, m) ==
    CASE l = 0 -> Equal0(t, x, m)
      [] l = 1 -> Equal1(t, x, m)
      [] l = 2 -> Equal2(t, x, m)
      [] l = 3 -> Equal3(t, x, m)
      [] l = 4 -> Equal4(t, x, m)
      [] OTHER -> Equal(t, x, m)

EqualRow(l, e, y, z) ==
    IF e.kind = "value" THEN y = z
    ELSE Len(y) = Len(z) /\ \A k \in DOMAIN y : EqualAt(l - 1, e.kind, y[k], z[k])

LEMMA EqualLevel ==
    ASSUME NEW l \in 1 .. 5, NEW t, NEW x, NEW m
    PROVE  EqualAt(l, t, x, m) <=> \A e \in Equals[t] : EqualRow(l, e, x[e.name], m[e.name])
<1>1. CASE l = 1
  <2>1. \A a, c, d : EqualAt(0, a, c, d) <=> Equal0(a, c, d)
    BY DEF EqualAt
  <2>2. (EqualAt(l, t, x, m) <=> Equal1(t, x, m)) /\ l - 1 = 0
    BY <1>1 DEF EqualAt
  <2> QED  BY <2>1, <2>2, Zenon DEF Equal1, EqualWith, EqualRow
<1>2. CASE l = 2
  <2>1. \A a, c, d : EqualAt(1, a, c, d) <=> Equal1(a, c, d)
    BY DEF EqualAt
  <2>2. (EqualAt(l, t, x, m) <=> Equal2(t, x, m)) /\ l - 1 = 1
    BY <1>2 DEF EqualAt
  <2> QED  BY <2>1, <2>2, Zenon DEF Equal2, EqualWith, EqualRow
<1>3. CASE l = 3
  <2>1. \A a, c, d : EqualAt(2, a, c, d) <=> Equal2(a, c, d)
    BY DEF EqualAt
  <2>2. (EqualAt(l, t, x, m) <=> Equal3(t, x, m)) /\ l - 1 = 2
    BY <1>3 DEF EqualAt
  <2> QED  BY <2>1, <2>2, Zenon DEF Equal3, EqualWith, EqualRow
<1>4. CASE l = 4
  <2>1. \A a, c, d : EqualAt(3, a, c, d) <=> Equal3(a, c, d)
    BY DEF EqualAt
  <2>2. (EqualAt(l, t, x, m) <=> Equal4(t, x, m)) /\ l - 1 = 3
    BY <1>4 DEF EqualAt
  <2> QED  BY <2>1, <2>2, Zenon DEF Equal4, EqualWith, EqualRow
<1>5. CASE l = 5
  <2>1. \A a, c, d : EqualAt(4, a, c, d) <=> Equal4(a, c, d)
    BY DEF EqualAt
  <2>2. (EqualAt(l, t, x, m) <=> Equal(t, x, m)) /\ l - 1 = 4
    BY <1>5 DEF EqualAt
  <2> QED  BY <2>1, <2>2, Zenon DEF Equal, EqualWith, EqualRow
<1> QED  BY <1>1, <1>2, <1>3, <1>4, <1>5

EqualsAt(l) ==
    \A t, x, m : MessageAt(l, t, x) /\ MessageAt(l, t, m) => (EqualAt(l, t, x, m) <=> x = m)

LEMMA ListsEqual ==
    ASSUME NEW y, NEW z, IsList(y), IsList(z), Len(y) = Len(z), \A k \in 1 .. Len(y) : y[k] = z[k]
    PROVE  y = z
<1>1. y = [k \in 1 .. Len(y) |-> y[k]] /\ z = [k \in 1 .. Len(z) |-> z[k]]
  BY Zenon DEF IsList
<1> QED  BY <1>1

LEMMA LevelEqual ==
    ASSUME NEW l \in 1 .. 5, EqualsAt(l - 1)
    PROVE  EqualsAt(l)
<1> SUFFICES ASSUME NEW t, NEW x, NEW m, MessageAt(l, t, x), MessageAt(l, t, m)
             PROVE  EqualAt(l, t, x, m) <=> x = m
  BY DEF EqualsAt
<1>1. IsTyped(l, t, x) /\ IsTyped(l, t, m) /\ l - 1 \in 0 .. 5
  BY MessageTyped
<1>2. t \in Types /\ x = [n \in Names(t) |-> x[n]] /\ m = [n \in Names(t) |-> m[n]]
  BY <1>1 DEF IsTyped
<1>3. /\ \A u \in Unmarshals[t] : \E e \in Equals[t] :
              e.name = u.name /\ e.kind = IF Embeds(u) THEN u.kind ELSE "value"
      /\ \A e \in Equals[t] : \E u \in Unmarshals[t] :
              e.name = u.name /\ e.kind = IF Embeds(u) THEN u.kind ELSE "value"
  BY <1>2, TablesOfMessages DEF RowsAgree, RowsCompare
<1>4. ASSUME x = m, NEW e \in Equals[t] PROVE EqualRow(l, e, x[e.name], m[e.name])
  <2>1. PICK u \in Unmarshals[t] : e.name = u.name /\ e.kind = IF Embeds(u) THEN u.kind ELSE "value"
    BY <1>3
  <2>2. PICK y : y = x[e.name]
    OBVIOUS
  <2>3. CASE ~Embeds(u)
    BY <1>4, <2>1, <2>3 DEF EqualRow
  <2>4. CASE Embeds(u)
    <3>1. EmbeddedValue(l, u, y)
      BY <1>1, <2>1, <2>2, ValueTyped
    <3>2. \A k \in DOMAIN y : MessageAt(l - 1, u.kind, y[k])
      BY <2>4, <3>1 DEF EmbeddedValue
    <3>3. \A k \in DOMAIN y : EqualAt(l - 1, u.kind, y[k], y[k])
      BY <3>2 DEF EqualsAt
    <3>4. EqualRow(l, e, y, y)
      BY <2>1, <2>4, <3>3 DEF EqualRow
    <3> QED  BY <1>4, <2>2, <3>4
  <2> QED  BY <2>3, <2>4
<1>5. ASSUME EqualAt(l, t, x, m), NEW n \in Names(t) PROVE x[n] = m[n]
  <2>1. PICK u \in Unmarshals[t] : u.name = n
    BY DEF Names
  <2>2. PICK e \in Equals[t] : e.name = n /\ e.kind = IF Embeds(u) THEN u.kind ELSE "value"
    BY <1>3, <2>1
  <2>3. EqualRow(l, e, x[n], m[n])
    BY <1>5, <2>2, EqualLevel
  <2>4. CASE ~Embeds(u)
    BY <2>2, <2>3, <2>4 DEF EqualRow
  <2>5. CASE Embeds(u)
    <3>1. e.kind = u.kind /\ e.kind # "value"
      BY <2>2, <2>5, TypesAre DEF Embeds
    <3>2. EmbeddedValue(l, u, x[n]) /\ EmbeddedValue(l, u, m[n])
      BY <1>1, <2>1, ValueTyped
    <3>3. PICK y : y = x[n]
      OBVIOUS
    <3>4. PICK z : z = m[n]
      OBVIOUS
    <3>5. Len(y) = Len(z) /\ \A k \in DOMAIN y : EqualAt(l - 1, u.kind, y[k], z[k])
      BY <2>3, <3>1, <3>3, <3>4 DEF EqualRow
    <3>6. /\ IsList(y) /\ IsList(z) /\ DOMAIN y = 1 .. Len(y)
          /\ \A k \in 1 .. Len(y) : MessageAt(l - 1, u.kind, y[k])
          /\ \A k \in 1 .. Len(z) : MessageAt(l - 1, u.kind, z[k])
      BY <2>5, <3>2, <3>3, <3>4 DEF EmbeddedValue
    <3>7. \A k \in 1 .. Len(y) : y[k] = z[k]
      BY <3>5, <3>6 DEF EqualsAt
    <3>8. y = z
      BY <3>5, <3>6, <3>7, ListsEqual
    <3> QED  BY <3>3, <3>4, <3>8
  <2> QED  BY <2>4, <2>5
<1>6. EqualAt(l, t, x, m) => x = m
  BY <1>2, <1>5
<1>7. x = m => EqualAt(l, t, x, m)
  BY <1>4, EqualLevel
<1> QED  BY <1>6, <1>7

LEMMA AllLevelsEqual == EqualsAt(5)
<1>1. EqualsAt(0)
  BY DEF EqualsAt, MessageAt
<1>2. ASSUME NEW l \in 1 .. 5, EqualsAt(l - 1) PROVE EqualsAt(l)
  BY <1>2, LevelEqual
<1>3. EqualsAt(1)
  BY <1>1, <1>2
<1>4. EqualsAt(2)
  BY <1>2, <1>3
<1>5. EqualsAt(3)
  BY <1>2, <1>4
<1>6. EqualsAt(4)
  BY <1>2, <1>5
<1> QED  BY <1>2, <1>6

\* Equal holds of two messages just if Marshal writes the same bytes for them, which
\* is just if they are the same.
THEOREM EqualIsSameBytes ==
    ASSUME NEW t, NEW x, NEW m, IsMessage(t, x), IsMessage(t, m)
    PROVE  /\ Equal(t, x, m) <=> x = m
           /\ Equal(t, x, m) <=> Marshal(t, x) = Marshal(t, m)
<1>1. MessageAt(5, t, x) /\ MessageAt(5, t, m)
  BY TopLevel
<1>2. EqualAt(5, t, x, m) <=> x = m
  BY <1>1, AllLevelsEqual DEF EqualsAt
<1>3. Equal(t, x, m) <=> x = m
  BY <1>2 DEF EqualAt
<1>4. ASSUME Marshal(t, x) = Marshal(t, m) PROVE x = m
  <2>1. PICK r : r = Unmarshal(t, Zero(t), Marshal(t, x))
    OBVIOUS
  <2>2. r = [ok |-> TRUE, msg |-> x] /\ r = [ok |-> TRUE, msg |-> m]
    BY <1>4, <2>1, MergedIsRead, ZenonT(40)
  <2>3. r.msg = x /\ r.msg = m
    BY <2>2
  <2> QED  BY <2>3
<1> QED  BY <1>3, <1>4

-----------------------------------------------------------------------------
(* Some of the fields of a message.                                        *)

LEMMA UpToSame ==
    ASSUME NEW F, NEW G, NEW c, \A j \in 1 .. c : F[j] = G[j]
    PROVE  UpTo(F, c) = UpTo(G, c)
<1>1. [j \in 1 .. c |-> F[j]] = [j \in 1 .. c |-> G[j]]
  OBVIOUS
<1> QED  BY <1>1, Zenon DEF UpTo

Associates(S, x, y, z) == (x \o y) \o z = x \o (y \o z) /\ x \o y \in Seq(S) /\ y \o z \in Seq(S)

LEMMA JoinedTwice ==
    ASSUME NEW S, NEW x \in Seq(S), NEW y \in Seq(S), NEW z \in Seq(S)
    PROVE  Associates(S, x, y, z)
BY SMTT(60) DEF Associates

\* What is empty adds nothing.
LEMMA UpToEmpty ==
    ASSUME NEW S, NEW n \in Nat, NEW H \in [1 .. n -> Seq(S)], NEW c \in 0 .. n,
           \A j \in 1 .. c : H[j] = <<>>
    PROVE  UpTo(H, c) = <<>>
<1>1. c \in Nat
  OBVIOUS
<1> DEFINE T == {d \in 0 .. c : UpTo(H, d) # <<>>}
<1>2. T = {}
  <2> SUFFICES ASSUME T # {} PROVE FALSE
    OBVIOUS
  <2>1. PICK d \in T : \A e \in T : d <= e
    <3>1. T \in SUBSET Nat
      BY <1>1
    <3> HIDE DEF T
    <3> QED  BY <3>1, LeastNumber
  <2>2. d \in 0 .. n /\ d \in 0 .. c /\ UpTo(H, d) # <<>>
    OBVIOUS
  <2>3. UpToIs(S, H, d)
    BY <2>2, UpToGrows
  <2>4. d # 0 /\ UpTo(H, d) = UpTo(H, d - 1) \o H[d]
    BY <2>2, <2>3 DEF UpToIs
  <2>5. d - 1 \in 0 .. c /\ ~(d <= d - 1) /\ d \in 1 .. c
    BY <2>2, <2>4
  <2>6. UpTo(H, d - 1) = <<>> /\ H[d] = <<>>
    BY <2>1, <2>5
  <2>7. <<>> \o <<>> = <<>>
    OBVIOUS
  <2> QED  BY <2>2, <2>4, <2>6, <2>7
<1>3. c \in 0 .. c
  BY <1>1
<1> QED  BY <1>2, <1>3

LEMMA UpToTail ==
    ASSUME NEW S, NEW n \in Nat, NEW F \in [1 .. n -> Seq(S)], NEW H \in [1 .. n -> Seq(S)],
           NEW c \in 0 .. n, \A j \in 1 .. c : H[j] = <<>>, \A j \in (c + 1) .. n : H[j] = F[j]
    PROVE  UpTo(F, n) = UpTo(F, c) \o UpTo(H, n)
<1>1. c \in Nat
  OBVIOUS
<1>2. UpTo(H, c) = <<>>
  BY UpToEmpty
<1> DEFINE T == {d \in c .. n : UpTo(F, d) # UpTo(F, c) \o UpTo(H, d)}
<1>3. T = {}
  <2> SUFFICES ASSUME T # {} PROVE FALSE
    OBVIOUS
  <2>1. PICK d \in T : \A e \in T : d <= e
    <3>1. T \in SUBSET Nat
      BY <1>1
    <3> HIDE DEF T
    <3> QED  BY <3>1, LeastNumber
  <2>2. d \in c .. n /\ d \in 0 .. n /\ UpTo(F, d) # UpTo(F, c) \o UpTo(H, d)
    OBVIOUS
  <2>3. UpToIs(S, F, d) /\ UpToIs(S, H, d) /\ UpToIs(S, F, c)
    BY <2>2, UpToGrows
  <2>4. UpTo(F, c) \in Seq(S) /\ UpTo(F, c) \o <<>> = UpTo(F, c)
    BY <2>3 DEF UpToIs
  <2>5. d # c
    BY <1>2, <2>2, <2>4
  <2>6. d - 1 \in c .. n /\ ~(d <= d - 1) /\ d \in (c + 1) .. n /\ d # 0 /\ d \in 1 .. n /\ d - 1 \in 0 .. n
    BY <2>2, <2>5
  <2>7. UpTo(F, d - 1) = UpTo(F, c) \o UpTo(H, d - 1)
    BY <2>1, <2>6
  <2>8. UpTo(F, d) = UpTo(F, d - 1) \o F[d] /\ UpTo(H, d) = UpTo(H, d - 1) \o F[d] /\ F[d] \in Seq(S)
    BY <2>3, <2>6 DEF UpToIs
  <2>9. UpTo(H, d - 1) \in Seq(S)
    <3>1. UpToIs(S, H, d - 1)
      BY <2>6, UpToGrows
    <3> QED  BY <3>1 DEF UpToIs
  <2>10. PICK x \in Seq(S) : x = UpTo(F, c)
    BY <2>4
  <2>11. PICK y \in Seq(S) : y = UpTo(H, d - 1)
    BY <2>9
  <2>12. PICK z \in Seq(S) : z = F[d]
    BY <2>8
  <2>13. (x \o y) \o z = x \o (y \o z)
    <3>1. Associates(S, x, y, z)
      BY JoinedTwice
    <3> QED  BY <3>1 DEF Associates
  <2> QED  BY <2>2, <2>7, <2>8, <2>10, <2>11, <2>12, <2>13, Zenon
<1>4. n \in c .. n
  OBVIOUS
<1> QED  BY <1>3, <1>4

FlatSlices(F, H, c, n) ==
    /\ FlattenSeq(SubSeq(F, 1, c)) = UpTo(F, c)
    /\ FlattenSeq(SubSeq(F, c + 1, n)) = UpTo(H, n)

LEMMA UpToSlice ==
    ASSUME NEW S, NEW n \in Nat, NEW F \in [1 .. n -> Seq(S)], NEW H \in [1 .. n -> Seq(S)],
           NEW c \in 0 .. n, \A j \in 1 .. c : H[j] = <<>>, \A j \in (c + 1) .. n : H[j] = F[j]
    PROVE  FlatSlices(F, H, c, n)
<1>1. F \in Seq(Seq(S)) /\ Len(F) = n
  OBVIOUS
<1>2. SubSeq(F, 1, c) = [j \in 1 .. c |-> F[j]]
  BY <1>1
<1>3. PICK m : m = n - c
  OBVIOUS
<1>4. m \in Nat /\ c \in Nat /\ c + m = n
  BY <1>3
<1>5. PICK G : G = [j \in 1 .. m |-> F[c + j]]
  OBVIOUS
<1>6. G \in [1 .. m -> Seq(S)] /\ \A j \in 1 .. m : G[j] = F[c + j]
  BY <1>4, <1>5
<1>7. SubSeq(F, c + 1, n) = G
  <2>1. PICK y : y = SubSeq(F, c + 1, n)
    OBVIOUS
  <2>2. y \in Seq(Seq(S)) /\ Len(y) = m /\ \A j \in 1 .. m : y[j] = F[c + j]
    <3>1. c + 1 \in Int /\ n \in Int /\ \A j \in (c + 1) .. n : F[j] \in Seq(S)
      BY <1>4
    <3>2. /\ SubSeq(F, c + 1, n) \in Seq(Seq(S))
          /\ Len(SubSeq(F, c + 1, n)) = IF c + 1 <= n THEN n - (c + 1) + 1 ELSE 0
          /\ \A j \in 1 .. n - (c + 1) + 1 : SubSeq(F, c + 1, n)[j] = F[(c + 1) + j - 1]
      BY <3>1, SubSeqProperties
    <3>3. n - (c + 1) + 1 = m /\ (IF c + 1 <= n THEN n - (c + 1) + 1 ELSE 0) = m
      BY <1>3, <1>4
    <3>4. \A j \in 1 .. m : (c + 1) + j - 1 = c + j
      BY <1>4
    <3> QED  BY <2>1, <3>2, <3>3, <3>4
  <2>3. G \in Seq(Seq(S)) /\ Len(G) = m
    BY <1>4, <1>6
  <2> QED  BY <1>6, <2>1, <2>2, <2>3, SMTT(60)
<1>8. FlattenSeq(G) = UpTo(G, m)
  BY <1>4, <1>6, FlattenElements
<1> DEFINE T == {d \in 0 .. m : UpTo(G, d) # UpTo(H, c + d)}
<1>9. T = {}
  <2> SUFFICES ASSUME T # {} PROVE FALSE
    OBVIOUS
  <2>1. PICK d \in T : \A e \in T : d <= e
    <3>1. T \in SUBSET Nat
      BY <1>4
    <3> HIDE DEF T
    <3> QED  BY <3>1, LeastNumber
  <2>2. d \in 0 .. m /\ UpTo(G, d) # UpTo(H, c + d)
    OBVIOUS
  <2>3. PICK e : e = c + d
    OBVIOUS
  <2>4. e \in 0 .. n /\ UpToIs(S, G, d) /\ UpToIs(S, H, e)
    <3>1. e \in 0 .. n
      BY <1>4, <2>2, <2>3
    <3> QED  BY <1>4, <1>6, <2>2, <3>1, UpToGrows
  <2>5. CASE d = 0
    <3>1. e = c /\ UpTo(G, d) = <<>>
      BY <1>4, <2>3, <2>4, <2>5 DEF UpToIs
    <3>2. UpTo(H, c) = <<>>
      BY UpToEmpty, ZenonT(60)
    <3> QED  BY <2>2, <2>3, <3>1, <3>2
  <2>6. CASE d # 0
    <3>1. d - 1 \in 0 .. m /\ ~(d <= d - 1) /\ d \in 1 .. m /\ e # 0 /\ e \in (c + 1) .. n /\ e - 1 = c + (d - 1)
      BY <1>4, <2>2, <2>3, <2>6
    <3>2. UpTo(G, d - 1) = UpTo(H, e - 1)
      BY <2>1, <3>1
    <3>3. UpTo(G, d) = UpTo(G, d - 1) \o G[d] /\ UpTo(H, e) = UpTo(H, e - 1) \o H[e]
      BY <2>4, <2>6, <3>1 DEF UpToIs
    <3>4. G[d] = H[e]
      BY <1>6, <2>3, <3>1
    <3> QED  BY <2>2, <2>3, <3>2, <3>3, <3>4, Zenon
  <2> QED  BY <2>5, <2>6
<1>10. UpTo(G, m) = UpTo(H, n)
  BY <1>4, <1>9, SMTT(40)
<1> QED  BY <1>2, <1>7, <1>8, <1>10 DEF UpTo, FlatSlices

\* The first j elements of a value.
FirstOf(u, v, j) ==
    IF Embeds(u) THEN SubSeq(v, 1, j) ELSE IF j = 0 THEN ZeroOf(u) ELSE v

SliceIs(v, w, j) ==
    IsList(w) /\ Len(w) = j /\ DOMAIN w = 1 .. j /\ \A h \in 1 .. j : w[h] = v[h]

LEMMA Slices ==
    ASSUME NEW v, IsList(v), NEW j \in 0 .. Len(v)
    PROVE  SliceIs(v, SubSeq(v, 1, j), j)
<1>1. v = [k \in 1 .. Len(v) |-> v[k]] /\ Len(v) \in Nat
  BY Zenon DEF IsList
<1>2. PICK S : S = {v[k] : k \in 1 .. Len(v)}
  OBVIOUS
<1>3. v \in Seq(S)
  BY <1>1, <1>2
<1>4. PICK w : w = SubSeq(v, 1, j)
  OBVIOUS
<1>5. w \in Seq(S) /\ Len(w) = j /\ \A h \in 1 .. j : w[h] = v[h]
  BY <1>1, <1>3, <1>4
<1>6. w = [k \in 1 .. Len(w) |-> w[k]] /\ Len(w) \in Nat /\ DOMAIN w = 1 .. j
  BY <1>5
<1>7. IsList(w)
  BY <1>6, Zenon DEF IsList
<1> QED  BY <1>4, <1>5, <1>6, <1>7 DEF SliceIs

LEMMA FirstIs ==
    ASSUME NEW l \in 1 .. 5, NEW t, NEW m, IsTyped(l, t, m), NEW u \in Unmarshals[t],
           NEW j \in 0 .. HowMany(u, m[u.name])
    PROVE  /\ IsValue(u, FirstOf(u, m[u.name], j))
           /\ EmbeddedValue(l, u, FirstOf(u, m[u.name], j))
           /\ j = 0 => FirstOf(u, m[u.name], j) = ZeroOf(u)
<1>1. PICK v : v = m[u.name]
  OBVIOUS
<1>2. EmbeddedValue(l, u, v) /\ IsValue(u, v)
  BY <1>1, ValueTyped
<1>3. u.kind \in Scalars \/ Embeds(u)
  BY NameIs, RowWritten DEF IsTyped, RowReads
<1>4. CASE ~Embeds(u)
  <2>1. FirstOf(u, v, j) = IF j = 0 THEN ZeroOf(u) ELSE v
    BY <1>4 DEF FirstOf
  <2>2. IsValue(u, ZeroOf(u))
    BY <1>3, ZeroIsValue
  <2>3. EmbeddedValue(l, u, FirstOf(u, v, j))
    BY <1>4 DEF EmbeddedValue
  <2> QED  BY <1>1, <1>2, <2>1, <2>2, <2>3
<1>5. CASE Embeds(u)
  <2>1. PICK w : w = SubSeq(v, 1, j)
    OBVIOUS
  <2>2. FirstOf(u, v, j) = w /\ HowMany(u, v) = Len(v)
    BY <1>5, <2>1 DEF FirstOf, HowMany
  <2>3. /\ u.kind \notin Scalars /\ IsList(v) /\ Len(v) \in Nat /\ (Len(v) > 1 => u.repeated)
        /\ ZeroOf(u) = <<>> /\ \A h \in 1 .. Len(v) : MessageAt(l - 1, u.kind, v[h])
    BY <1>2, <1>5 DEF EmbeddedValue
  <2>4. SliceIs(v, w, j)
    BY <1>1, <2>1, <2>2, <2>3, Slices
  <2>5. IsList(w) /\ Len(w) = j /\ j \in Nat /\ (Len(w) > 1 => u.repeated)
    BY <1>1, <2>2, <2>3, <2>4 DEF SliceIs
  <2>6. ValueOf(u, w)
    <3>1. u.kind \notin Integral /\ u.kind # "bool" /\ u.kind # "bytes" /\ u.kind \notin FixedKinds
      BY <2>3 DEF Scalars
    <3> QED  BY <2>5, <3>1, Zenon DEF ValueOf
  <2>7. IsValue(u, w)
    BY <2>6, ValueIs
  <2>8. EmbeddedValue(l, u, w)
    <3>1. DOMAIN w = 1 .. Len(w)
      BY <2>4 DEF SliceIs
    <3>2. \A h \in 1 .. Len(w) : MessageAt(l - 1, u.kind, w[h])
      BY <1>1, <2>2, <2>3, <2>4 DEF SliceIs
    <3> QED  BY <2>3, <2>5, <3>1, <3>2, Zenon DEF EmbeddedValue
  <2>9. j = 0 => w = <<>>
    BY <2>5, ListIs
  <2> QED  BY <1>1, <2>2, <2>3, <2>7, <2>8, <2>9
<1> QED  BY <1>4, <1>5

\* The first j elements of a row.
LEMMA RowCut ==
    ASSUME NEW l \in 1 .. 5, NEW t, NEW m, NEW y, IsTyped(l, t, m), IsTyped(l, t, y),
           NEW i \in DOMAIN Marshals[t], NEW u, u = RowOf(t, NameOf(t, i)),
           NEW j \in 0 .. HowMany(u, m[u.name]), y[u.name] = FirstOf(u, m[u.name], j)
    PROVE  RowsOf(l, t, y)[i] = UpTo(ElementsAt(l, t, m, i), j)
<1>1. RowIs(l, t, m, i, u) /\ RowIs(l, t, y, i, u)
  BY RowOfMessage
<1>2. PICK v : v = m[u.name]
  OBVIOUS
<1>3. PICK w : w = y[u.name]
  OBVIOUS
<1>4. u.name = NameOf(t, i) /\ (u.kind \in Scalars \/ Embeds(u)) /\ IsValue(u, v) /\ IsValue(u, w)
  BY <1>1, <1>2, <1>3 DEF RowIs, RowReads
<1>5. HowMany(u, v) \in Nat /\ (HowMany(u, w) = 0 <=> w = ZeroOf(u)) /\ j \in Nat
  BY <1>2, <1>4, HowManyIs
<1>6. PICK els : els = ElementsAt(l, t, m, i)
  OBVIOUS
<1>7. PICK fst : fst = ElementsAt(l, t, y, i)
  OBVIOUS
<1>8. PICK E : E = EncodedAt(l, t, m)[i]
  OBVIOUS
<1>9. PICK D : D = EncodedAt(l, t, y)[i]
  OBVIOUS
<1>10. els = ElementsOf(Marshals[t][i], u, v, E) /\ fst = ElementsOf(Marshals[t][i], u, w, D)
  BY <1>2, <1>3, <1>4, <1>6, <1>7, <1>8, <1>9 DEF ElementsAt
<1>11. HowMany(u, w) = j /\ \A h \in 1 .. j : fst[h] = els[h]
  <2>1. CASE ~Embeds(u)
    <3>1. w = IF j = 0 THEN ZeroOf(u) ELSE v
      BY <1>2, <1>3, <2>1 DEF FirstOf
    <3>2. HowMany(u, v) = IF v = ZeroOf(u) THEN 0 ELSE 1
      BY <2>1 DEF HowMany
    <3>3. HowMany(u, w) = IF w = ZeroOf(u) THEN 0 ELSE 1
      BY <2>1 DEF HowMany
    <3>4. HowMany(u, w) = j
      BY <1>2, <1>5, <3>1, <3>2, <3>3
    <3>5. ASSUME NEW h \in 1 .. j PROVE fst[h] = els[h]
      <4>1. w = v /\ h \in 1 .. HowMany(u, v) /\ h \in 1 .. HowMany(u, w)
        BY <1>2, <1>5, <3>1, <3>4
      <4> QED  BY <1>10, <2>1, <4>1 DEF ElementsOf
    <3> QED  BY <3>4, <3>5
  <2>2. CASE Embeds(u)
    <3>1. IsList(v) /\ Len(v) \in Nat /\ HowMany(u, v) = Len(v) /\ HowMany(u, w) = Len(w) /\ w = SubSeq(v, 1, j)
      BY <1>1, <1>2, <1>3, <2>2 DEF RowIs, EmbeddedValue, HowMany, FirstOf
    <3>2. SliceIs(v, w, j)
      BY <1>2, <3>1, Slices
    <3>3. Len(w) = j /\ \A h \in 1 .. j : w[h] = v[h]
      BY <3>2 DEF SliceIs
    <3>4. /\ \A h \in 1 .. Len(v) : E[h] = MarshalAt(l - 1, u.kind, v[h])
          /\ \A h \in 1 .. Len(w) : D[h] = MarshalAt(l - 1, u.kind, w[h])
      BY <1>1, <1>2, <1>3, <1>8, <1>9, <2>2 DEF RowIs
    <3>5. ASSUME NEW h \in 1 .. j PROVE fst[h] = els[h]
      <4>1. h \in 1 .. HowMany(u, v) /\ h \in 1 .. HowMany(u, w) /\ h \in 1 .. Len(v) /\ h \in 1 .. Len(w)
        BY <1>2, <1>5, <3>1, <3>3
      <4>2. D[h] = E[h]
        BY <3>3, <3>4, <4>1
      <4> QED  BY <1>10, <2>2, <4>1, <4>2 DEF ElementsOf
    <3> QED  BY <3>1, <3>3, <3>5
  <2> QED  BY <2>1, <2>2
<1>12. RowsOf(l, t, y)[i] = FlattenSeq(fst)
  BY <1>1, <1>7 DEF RowIs
<1>13. fst = [h \in 1 .. j |-> fst[h]]
  <2>1. fst = [h \in 1 .. HowMany(u, w) |-> fst[h]]
    BY <1>10 DEF ElementsOf
  <2> QED  BY <1>11, <2>1
<1>14. FlattenSeq(fst) = UpTo(fst, j)
  BY <1>13 DEF UpTo
<1>15. UpTo(fst, j) = UpTo(els, j)
  BY <1>11, UpToSame
<1> QED  BY <1>6, <1>12, <1>14, <1>15

\* Rows in I, and the first j elements of row c.
PartOf(t, m, I, c, j) ==
    [n \in Names(t) |->
        IF \E i \in I : NameOf(t, i) = n THEN m[n]
        ELSE IF n = NameOf(t, c) THEN FirstOf(RowOf(t, n), m[n], j)
        ELSE ZeroOf(RowOf(t, n))]
IsPartial(l, t, m, n, I, c, j) ==
    /\ IsTyped(l, t, m) /\ n \in Nat /\ DOMAIN Marshals[t] = 1 .. n /\ I \in SUBSET (1 .. n)
    /\ c \in 0 .. n /\ j \in Nat /\ (c = 0 => j = 0)
    /\ c # 0 => j <= HowMany(RowOf(t, NameOf(t, c)), m[NameOf(t, c)])

PartFields(l, t, m, n, I, c, j, y) ==
    /\ y = [d \in Names(t) |-> y[d]]
    /\ \A u \in Unmarshals[t] : \E i \in 1 .. n :
          /\ u.name = NameOf(t, i) /\ u = RowOf(t, NameOf(t, i)) /\ u.name \in Names(t)
          /\ i \in I => y[u.name] = m[u.name]
          /\ i \notin I /\ i = c => y[u.name] = FirstOf(u, m[u.name], j) /\ j \in 0 .. HowMany(u, m[u.name])
          /\ i \notin I /\ i # c => y[u.name] = ZeroOf(u)

LEMMA PartFieldsAre ==
    ASSUME NEW l \in 1 .. 5, NEW t, NEW m, NEW n, NEW I, NEW c, NEW j, IsPartial(l, t, m, n, I, c, j)
    PROVE  PartFields(l, t, m, n, I, c, j, PartOf(t, m, I, c, j))
<1>1. /\ IsTyped(l, t, m) /\ n \in Nat /\ DOMAIN Marshals[t] = 1 .. n /\ I \in SUBSET (1 .. n)
      /\ c \in 0 .. n /\ j \in Nat /\ (c = 0 => j = 0)
      /\ c # 0 => j <= HowMany(RowOf(t, NameOf(t, c)), m[NameOf(t, c)])
  BY DEF IsPartial
<1>2. t \in Types
  BY <1>1 DEF IsTyped
<1>3. PICK y : y = PartOf(t, m, I, c, j)
  OBVIOUS
<1>4. y = [d \in Names(t) |-> y[d]]
  BY <1>3 DEF PartOf
<1>5. ASSUME NEW u \in Unmarshals[t]
      PROVE  \E i \in 1 .. n :
                /\ u.name = NameOf(t, i) /\ u = RowOf(t, NameOf(t, i)) /\ u.name \in Names(t)
                /\ i \in I => y[u.name] = m[u.name]
                /\ i \notin I /\ i = c => y[u.name] = FirstOf(u, m[u.name], j) /\ j \in 0 .. HowMany(u, m[u.name])
                /\ i \notin I /\ i # c => y[u.name] = ZeroOf(u)
  <2>1. PICK i \in 1 .. n : RowReads(Marshals[t][i], u)
    BY <1>1, <1>2, RowWritten
  <2>2. u.name = NameOf(t, i) /\ u.name \in Names(t)
    BY <2>1 DEF RowReads, NameOf, Names
  <2>3. u = RowOf(t, NameOf(t, i))
    BY <1>2, <2>2, NamedRow
  <2>4. \A h \in 1 .. n : NameOf(t, h) = NameOf(t, i) => h = i
    BY <1>1, <1>2, TablesOfMessages DEF RowsAgree, RowsRead, NameOf
  <2>5. PICK d : d = NameOf(t, i)
    OBVIOUS
  <2>6. y[d] = IF \E h \in I : NameOf(t, h) = d THEN m[d]
               ELSE IF d = NameOf(t, c) THEN FirstOf(u, m[d], j) ELSE ZeroOf(u)
    BY <1>3, <2>2, <2>3, <2>5 DEF PartOf
  <2>7. i \in I => y[d] = m[d]
    BY <2>5, <2>6
  <2>8. i \notin I => ~ \E h \in I : NameOf(t, h) = d
    BY <1>1, <2>4, <2>5
  <2>9. i \notin I /\ i = c => y[d] = FirstOf(u, m[d], j) /\ j \in 0 .. HowMany(u, m[d])
    <3>1. i = c => c # 0 /\ j \in 0 .. HowMany(u, m[d])
      <4>1. HowMany(u, m[d]) \in Nat
        <5>1. RowIs(l, t, m, i, u)
          BY <1>1, <2>3, RowOfMessage
        <5> QED  BY <2>2, <2>5, <5>1, HowManyIs DEF RowIs, RowReads
      <4> QED  BY <1>1, <2>3, <2>5, <4>1
    <3> QED  BY <2>5, <2>6, <2>8, <3>1
  <2>10. i \notin I /\ i # c => y[d] = ZeroOf(u)
    <3>1. CASE c # 0
      <4>1. i # c => d # NameOf(t, c)
        BY <1>1, <2>4, <2>5, <3>1
      <4> QED  BY <2>6, <2>8, <4>1
    <3>2. CASE c = 0
      <4>1. FirstOf(u, m[d], j) = ZeroOf(u)
        <5>1. HowMany(u, m[d]) \in Nat
          <6>1. RowIs(l, t, m, i, u)
            BY <1>1, <2>3, RowOfMessage
          <6> QED  BY <2>2, <2>5, <6>1, HowManyIs DEF RowIs, RowReads
        <5>2. j = 0 /\ j \in 0 .. HowMany(u, m[d])
          BY <1>1, <3>2, <5>1
        <5> QED  BY <1>1, <2>2, <2>5, <5>2, FirstIs
      <4> QED  BY <2>6, <2>8, <4>1
    <3> QED  BY <3>1, <3>2
  <2> QED  BY <2>2, <2>3, <2>5, <2>7, <2>9, <2>10
<1> QED  BY <1>3, <1>4, <1>5, Zenon DEF PartFields

LEMMA PartTyped ==
    ASSUME NEW l \in 1 .. 5, NEW t, NEW m, NEW n, NEW I, NEW c, NEW j, IsPartial(l, t, m, n, I, c, j)
    PROVE  IsTyped(l, t, PartOf(t, m, I, c, j))
<1>1. IsTyped(l, t, m) /\ t \in Types /\ n \in Nat
  BY DEF IsPartial, IsTyped
<1>2. PICK y : y = PartOf(t, m, I, c, j)
  OBVIOUS
<1>3. PartFields(l, t, m, n, I, c, j, y)
  BY <1>2, PartFieldsAre
<1>4. y = [d \in Names(t) |-> y[d]]
  BY <1>3 DEF PartFields
<1>5. ASSUME NEW u \in Unmarshals[t]
      PROVE  IsValue(u, y[u.name]) /\ EmbeddedValue(l, u, y[u.name])
  <2>1. PICK i \in 1 .. n :
          /\ i \in I => y[u.name] = m[u.name]
          /\ i \notin I /\ i = c => y[u.name] = FirstOf(u, m[u.name], j) /\ j \in 0 .. HowMany(u, m[u.name])
          /\ i \notin I /\ i # c => y[u.name] = ZeroOf(u)
    BY <1>3 DEF PartFields
  <2>2. CASE i \in I
    BY <1>1, <2>1, <2>2, ValueTyped
  <2>3. CASE i \notin I /\ i = c
    BY <1>1, <2>1, <2>3, FirstIs
  <2>4. CASE i \notin I /\ i # c
    <3>1. PICK h : h = 0
      OBVIOUS
    <3>2. u.kind \in Scalars \/ Embeds(u)
      BY <1>1, RowWritten DEF RowReads
    <3>3. HowMany(u, m[u.name]) \in Nat
      BY <1>1, <3>2, ValueTyped, HowManyIs
    <3>4. h \in 0 .. HowMany(u, m[u.name])
      BY <3>1, <3>3
    <3>5. /\ IsValue(u, FirstOf(u, m[u.name], h)) /\ EmbeddedValue(l, u, FirstOf(u, m[u.name], h))
          /\ FirstOf(u, m[u.name], h) = ZeroOf(u)
      BY <1>1, <3>1, <3>4, FirstIs
    <3> QED  BY <2>1, <2>4, <3>5
  <2> QED  BY <2>2, <2>3, <2>4
<1>6. HasValues(t, y)
  BY <1>5 DEF HasValues
<1>7. EmbedsBelow(l, t, y)
  <2>1. ASSUME NEW u \in Unmarshals[t], Embeds(u), NEW k \in DOMAIN y[u.name]
        PROVE  MessageAt(l - 1, u.kind, y[u.name][k])
    BY <1>5, <2>1 DEF EmbeddedValue
  <2> QED  BY <2>1 DEF EmbedsBelow
<1> QED  BY <1>1, <1>2, <1>4, <1>6, <1>7, Zenon DEF IsTyped

\* The rows of a part.
PartRows(l, t, m, n, I, c, j, y) ==
    /\ \A i \in I : RowsOf(l, t, y)[i] = RowsOf(l, t, m)[i]
    /\ c # 0 /\ c \notin I => RowsOf(l, t, y)[c] = UpTo(ElementsAt(l, t, m, c), j)
    /\ \A i \in 1 .. n : i \notin I /\ i # c => RowsOf(l, t, y)[i] = <<>>

LEMMA PartRowsAre ==
    ASSUME NEW l \in 1 .. 5, NEW t, NEW m, NEW n, NEW I, NEW c, NEW j, IsPartial(l, t, m, n, I, c, j),
           NEW y, y = PartOf(t, m, I, c, j)
    PROVE  PartRows(l, t, m, n, I, c, j, y)
<1>1. /\ IsTyped(l, t, m) /\ t \in Types /\ n \in Nat /\ DOMAIN Marshals[t] = 1 .. n
      /\ I \in SUBSET (1 .. n) /\ c \in 0 .. n
  BY DEF IsPartial, IsTyped
<1>2. IsTyped(l, t, y) /\ PartFields(l, t, m, n, I, c, j, y)
  BY PartTyped, PartFieldsAre
<1>3. ASSUME NEW i \in 1 .. n, NEW u, u = RowOf(t, NameOf(t, i))
      PROVE  /\ u.name = NameOf(t, i)
             /\ i \in I => y[u.name] = m[u.name]
             /\ i \notin I /\ i = c => y[u.name] = FirstOf(u, m[u.name], j) /\ j \in 0 .. HowMany(u, m[u.name])
             /\ i \notin I /\ i # c => y[u.name] = ZeroOf(u)
             /\ IsValue(u, m[u.name]) /\ (u.kind \in Scalars \/ Embeds(u)) /\ u \in Unmarshals[t]
  <2>1. RowIs(l, t, m, i, u)
    BY <1>1, <1>3, RowOfMessage
  <2>2. u \in Unmarshals[t] /\ u.name = NameOf(t, i) /\ IsValue(u, m[u.name]) /\ (u.kind \in Scalars \/ Embeds(u))
    BY <2>1 DEF RowIs, RowReads
  <2>3. PICK h \in 1 .. n :
          /\ u.name = NameOf(t, h)
          /\ h \in I => y[u.name] = m[u.name]
          /\ h \notin I /\ h = c => y[u.name] = FirstOf(u, m[u.name], j) /\ j \in 0 .. HowMany(u, m[u.name])
          /\ h \notin I /\ h # c => y[u.name] = ZeroOf(u)
    BY <1>2, <2>2 DEF PartFields
  <2>4. h = i
    BY <1>1, <2>2, <2>3, TablesOfMessages, ZenonT(60) DEF RowsAgree, RowsRead, NameOf
  <2> QED  BY <2>2, <2>3, <2>4
<1>4. ASSUME NEW i \in I PROVE RowsOf(l, t, y)[i] = RowsOf(l, t, m)[i]
  <2>1. PICK u : u = RowOf(t, NameOf(t, i))
    OBVIOUS
  <2>2. i \in DOMAIN Marshals[t] /\ y[NameOf(t, i)] = m[NameOf(t, i)]
    BY <1>1, <1>3, <1>4, <2>1
  <2>3. EncodedAt(l, t, y)[i] = EncodedAt(l, t, m)[i]
    BY <2>2 DEF EncodedAt, NameOf
  <2> QED  BY <2>2, <2>3 DEF RowsOf
<1>5. ASSUME c # 0, c \notin I PROVE RowsOf(l, t, y)[c] = UpTo(ElementsAt(l, t, m, c), j)
  <2>1. PICK u : u = RowOf(t, NameOf(t, c))
    OBVIOUS
  <2>2. c \in 1 .. n
    BY <1>1, <1>5
  <2>3. y[u.name] = FirstOf(u, m[u.name], j) /\ j \in 0 .. HowMany(u, m[u.name])
    BY <1>3, <1>5, <2>1, <2>2
  <2> QED  BY <1>1, <1>2, <2>1, <2>2, <2>3, RowCut
<1>6. ASSUME NEW i \in 1 .. n, i \notin I, i # c PROVE RowsOf(l, t, y)[i] = <<>>
  <2>1. PICK u : u = RowOf(t, NameOf(t, i))
    OBVIOUS
  <2>2. PICK h : h = 0
    OBVIOUS
  <2>3. y[u.name] = ZeroOf(u) /\ IsValue(u, m[u.name]) /\ (u.kind \in Scalars \/ Embeds(u)) /\ u \in Unmarshals[t]
    BY <1>3, <1>6, <2>1
  <2>4. HowMany(u, m[u.name]) \in Nat
    BY <2>3, HowManyIs
  <2>5. h \in 0 .. HowMany(u, m[u.name])
    BY <2>2, <2>4
  <2>6. y[u.name] = FirstOf(u, m[u.name], h)
    BY <1>1, <2>2, <2>3, <2>5, FirstIs
  <2>7. RowsOf(l, t, y)[i] = UpTo(ElementsAt(l, t, m, i), h)
    BY <1>1, <1>2, <2>1, <2>5, <2>6, RowCut
  <2>8. PICK els : els = ElementsAt(l, t, m, i)
    OBVIOUS
  <2>9. [g \in 1 .. 0 |-> els[g]] = <<>>
    OBVIOUS
  <2>10. UpTo(els, 0) = <<>>
    BY <2>9, FlattenNone DEF UpTo
  <2> QED  BY <2>2, <2>7, <2>8, <2>10
<1> QED  BY <1>4, <1>5, <1>6 DEF PartRows

LEMMA UpToRest ==
    ASSUME NEW S, NEW n \in Nat, NEW F \in [1 .. n -> Seq(S)], NEW c \in 0 .. n,
           \A j \in (c + 1) .. n : F[j] = <<>>
    PROVE  UpTo(F, n) = UpTo(F, c)
<1>1. c \in Nat
  OBVIOUS
<1> DEFINE T == {d \in c .. n : UpTo(F, d) # UpTo(F, c)}
<1>2. T = {}
  <2> SUFFICES ASSUME T # {} PROVE FALSE
    OBVIOUS
  <2>1. PICK d \in T : \A e \in T : d <= e
    <3>1. T \in SUBSET Nat
      BY <1>1
    <3> HIDE DEF T
    <3> QED  BY <3>1, LeastNumber
  <2>2. d \in c .. n /\ d \in 0 .. n /\ UpTo(F, d) # UpTo(F, c)
    OBVIOUS
  <2>3. d # c
    BY <2>2
  <2>4. d - 1 \in c .. n /\ ~(d <= d - 1) /\ d \in (c + 1) .. n /\ d # 0 /\ d - 1 \in 0 .. n
    BY <2>2, <2>3
  <2>5. UpTo(F, d - 1) = UpTo(F, c) /\ F[d] = <<>>
    BY <2>1, <2>4
  <2>6. UpToIs(S, F, d) /\ UpToIs(S, F, d - 1)
    BY <2>2, <2>4, UpToGrows
  <2>7. UpTo(F, d) = UpTo(F, d - 1) \o F[d] /\ UpTo(F, d - 1) \in Seq(S)
    BY <2>4, <2>6 DEF UpToIs
  <2>8. PICK x \in Seq(S) : x = UpTo(F, d - 1)
    BY <2>7
  <2>9. x \o <<>> = x
    OBVIOUS
  <2> QED  BY <2>2, <2>5, <2>7, <2>8, <2>9
<1>3. n \in c .. n
  OBVIOUS
<1> QED  BY <1>2, <1>3

\* The first c rows, and the rows after them.
LEMMA RowsBefore ==
    ASSUME NEW l \in 1 .. 5, NEW t, NEW m, IsTyped(l, t, m), NEW n, RowsAre(l, t, m, n), NEW c \in 0 .. n,
           NEW y, y = PartOf(t, m, 1 .. c, 0, 0)
    PROVE  IsTyped(l, t, y) /\ MarshalAt(l, t, y) = UpTo(RowsOf(l, t, m), c)
<1>1. n \in Nat /\ DOMAIN Marshals[t] = 1 .. n /\ RowsOf(l, t, m) \in [1 .. n -> Seq(Octets)]
  BY DEF RowsAre
<1>2. PICK I : I = 1 .. c
  OBVIOUS
<1>3. PICK z : z = 0
  OBVIOUS
<1>4. IsPartial(l, t, m, n, I, z, z)
  BY <1>1, <1>2, <1>3 DEF IsPartial
<1>5. y = PartOf(t, m, I, z, z)
  BY <1>2, <1>3
<1>6. IsTyped(l, t, y) /\ PartRows(l, t, m, n, I, z, z, y)
  BY <1>4, <1>5, PartTyped, PartRowsAre
<1>7. PICK h : RowsAre(l, t, y, h)
  BY <1>6, RowsOfMessage
<1>8. h = n
  BY <1>1, <1>7 DEF RowsAre
<1>9. PICK F : F = RowsOf(l, t, m)
  OBVIOUS
<1>10. PICK G : G = RowsOf(l, t, y)
  OBVIOUS
<1>11. G \in [1 .. n -> Seq(Octets)] /\ MarshalAt(l, t, y) = UpTo(G, n)
  BY <1>7, <1>8, <1>10 DEF RowsAre
<1>12. (\A i \in 1 .. c : G[i] = F[i]) /\ \A i \in (c + 1) .. n : G[i] = <<>>
  <2>1. \A i \in I : G[i] = F[i]
    BY <1>6, <1>9, <1>10, Zenon DEF PartRows
  <2>2. \A i \in 1 .. n : i \notin I /\ i # z => G[i] = <<>>
    BY <1>6, <1>10, Zenon DEF PartRows
  <2>3. \A i \in (c + 1) .. n : i \in 1 .. n /\ i \notin I /\ i # z
    BY <1>1, <1>2, <1>3
  <2> QED  BY <1>2, <2>1, <2>2, <2>3
<1>13. UpTo(G, n) = UpTo(G, c)
  BY <1>1, <1>11, <1>12, UpToRest
<1>14. UpTo(G, c) = UpTo(F, c)
  BY <1>12, UpToSame
<1> QED  BY <1>6, <1>9, <1>11, <1>13, <1>14

RowsSplit(l, t, m, n, c, y) ==
    /\ MarshalAt(l, t, m) = UpTo(RowsOf(l, t, m), c) \o MarshalAt(l, t, y)
    /\ FlattenSeq(SubSeq(RowsOf(l, t, m), 1, c)) = UpTo(RowsOf(l, t, m), c)
    /\ FlattenSeq(SubSeq(RowsOf(l, t, m), c + 1, n)) = MarshalAt(l, t, y)

LEMMA RowsAfter ==
    ASSUME NEW l \in 1 .. 5, NEW t, NEW m, IsTyped(l, t, m), NEW n, RowsAre(l, t, m, n), NEW c \in 0 .. n,
           NEW y, y = PartOf(t, m, (c + 1) .. n, 0, 0)
    PROVE  IsTyped(l, t, y) /\ RowsSplit(l, t, m, n, c, y)
<1>1. /\ n \in Nat /\ DOMAIN Marshals[t] = 1 .. n /\ RowsOf(l, t, m) \in [1 .. n -> Seq(Octets)]
      /\ MarshalAt(l, t, m) = UpTo(RowsOf(l, t, m), n)
  BY DEF RowsAre
<1>2. PICK I : I = (c + 1) .. n
  OBVIOUS
<1>3. PICK z : z = 0
  OBVIOUS
<1>4. IsPartial(l, t, m, n, I, z, z)
  <2>1. I \in SUBSET (1 .. n)
    BY <1>1, <1>2
  <2> QED  BY <1>1, <1>3, <2>1 DEF IsPartial
<1>5. y = PartOf(t, m, I, z, z)
  BY <1>2, <1>3
<1>6. IsTyped(l, t, y) /\ PartRows(l, t, m, n, I, z, z, y)
  BY <1>4, <1>5, PartTyped, PartRowsAre
<1>7. PICK h : RowsAre(l, t, y, h)
  BY <1>6, RowsOfMessage
<1>8. h = n
  BY <1>1, <1>7 DEF RowsAre
<1>9. PICK F : F = RowsOf(l, t, m)
  OBVIOUS
<1>10. PICK G : G = RowsOf(l, t, y)
  OBVIOUS
<1>11. G \in [1 .. n -> Seq(Octets)] /\ MarshalAt(l, t, y) = UpTo(G, n)
  BY <1>7, <1>8, <1>10 DEF RowsAre
<1>12. (\A i \in (c + 1) .. n : G[i] = F[i]) /\ \A i \in 1 .. c : G[i] = <<>>
  <2>1. \A i \in I : G[i] = F[i]
    BY <1>6, <1>9, <1>10, Zenon DEF PartRows
  <2>2. \A i \in 1 .. n : i \notin I /\ i # z => G[i] = <<>>
    BY <1>6, <1>10, Zenon DEF PartRows
  <2>3. \A i \in 1 .. c : i \in 1 .. n /\ i \notin I /\ i # z
    BY <1>1, <1>2, <1>3
  <2> QED  BY <1>2, <2>1, <2>2, <2>3
<1>13. UpTo(F, n) = UpTo(F, c) \o UpTo(G, n)
  BY <1>1, <1>9, <1>11, <1>12, UpToTail
<1>14. FlattenSeq(SubSeq(F, 1, c)) = UpTo(F, c) /\ FlattenSeq(SubSeq(F, c + 1, n)) = UpTo(G, n)
  <2>1. F \in [1 .. n -> Seq(Octets)]
    BY <1>1, <1>9
  <2>2. G \in [1 .. n -> Seq(Octets)]
    BY <1>11
  <2>3. FlatSlices(F, G, c, n)
    BY <1>1, <1>12, <2>1, <2>2, UpToSlice
  <2> QED  BY <2>3 DEF FlatSlices
<1> QED  BY <1>1, <1>6, <1>9, <1>11, <1>13, <1>14 DEF RowsSplit

\* The first c - 1 rows and the first j elements of the next.
IsBefore(l, t, m, c, j, y) ==
    /\ IsTyped(l, t, y)
    /\ MarshalAt(l, t, y) = UpTo(RowsOf(l, t, m), c - 1) \o UpTo(ElementsAt(l, t, m, c), j)

LEMMA ElementsBefore ==
    ASSUME NEW l \in 1 .. 5, NEW t, NEW m, IsTyped(l, t, m), NEW n, RowsAre(l, t, m, n), NEW c \in 1 .. n,
           NEW j \in Nat, j <= HowMany(RowOf(t, NameOf(t, c)), m[NameOf(t, c)]),
           NEW y, y = PartOf(t, m, 1 .. c - 1, c, j)
    PROVE  IsBefore(l, t, m, c, j, y)
<1>1. n \in Nat /\ DOMAIN Marshals[t] = 1 .. n /\ RowsOf(l, t, m) \in [1 .. n -> Seq(Octets)]
  BY DEF RowsAre
<1>2. PICK I : I = 1 .. c - 1
  OBVIOUS
<1>4. IsPartial(l, t, m, n, I, c, j)
  <2>1. I \in SUBSET (1 .. n) /\ c \in 0 .. n /\ c # 0
    BY <1>1, <1>2
  <2> QED  BY <1>1, <2>1 DEF IsPartial
<1>5. y = PartOf(t, m, I, c, j)
  BY <1>2
<1>6. IsTyped(l, t, y) /\ PartRows(l, t, m, n, I, c, j, y)
  BY <1>4, <1>5, PartTyped, PartRowsAre
<1>7. PICK h : RowsAre(l, t, y, h)
  BY <1>6, RowsOfMessage
<1>8. h = n
  BY <1>1, <1>7 DEF RowsAre
<1>9. PICK F : F = RowsOf(l, t, m)
  OBVIOUS
<1>10. PICK G : G = RowsOf(l, t, y)
  OBVIOUS
<1>11. G \in [1 .. n -> Seq(Octets)] /\ MarshalAt(l, t, y) = UpTo(G, n)
  BY <1>7, <1>8, <1>10 DEF RowsAre
<1>12. /\ \A i \in 1 .. c - 1 : G[i] = F[i]
       /\ \A i \in (c + 1) .. n : G[i] = <<>>
       /\ G[c] = UpTo(ElementsAt(l, t, m, c), j)
  <2>1. \A i \in I : G[i] = F[i]
    BY <1>6, <1>9, <1>10, Zenon DEF PartRows
  <2>2. \A i \in 1 .. n : i \notin I /\ i # c => G[i] = <<>>
    BY <1>6, <1>10, Zenon DEF PartRows
  <2>3. \A i \in (c + 1) .. n : i \in 1 .. n /\ i \notin I /\ i # c
    BY <1>1, <1>2
  <2>4. c # 0 /\ c \notin I
    BY <1>2
  <2>5. G[c] = UpTo(ElementsAt(l, t, m, c), j)
    BY <1>6, <1>10, <2>4, Zenon DEF PartRows
  <2> QED  BY <1>2, <2>1, <2>2, <2>3, <2>5
<1>13. UpTo(G, n) = UpTo(G, c)
  <2>1. c \in 0 .. n
    OBVIOUS
  <2> QED  BY <1>1, <1>11, <1>12, <2>1, UpToRest
<1>14. UpTo(G, c - 1) = UpTo(F, c - 1)
  BY <1>12, UpToSame
<1>15. UpTo(G, c) = UpTo(G, c - 1) \o G[c]
  <2>1. c \in 0 .. n /\ c # 0
    OBVIOUS
  <2>2. UpToIs(Octets, G, c)
    BY <1>1, <1>11, <2>1, UpToGrows
  <2> QED  BY <2>1, <2>2 DEF UpToIs
<1> QED  BY <1>6, <1>9, <1>11, <1>12, <1>13, <1>14, <1>15 DEF IsBefore

-----------------------------------------------------------------------------
(* A message that is cut short.                                            *)

LEMMA CutJoined ==
    ASSUME NEW S, NEW p \in Seq(S), NEW e \in Seq(S), NEW r \in Seq(S),
           NEW k \in Nat, Len(p) <= k, k <= Len(p) + Len(e)
    PROVE  SubSeq((p \o e) \o r, 1, k) = p \o SubSeq(e, 1, k - Len(p))
<1>1. PICK a : a = p \o e
  OBVIOUS
<1>2. PICK b : b = a \o r
  OBVIOUS
<1>3. Joins(S, p, e, a)
  BY <1>1, AppendedPart
<1>4. a \in Seq(S)
  BY <1>3 DEF Joins
<1>5. Joins(S, a, r, b)
  BY <1>2, <1>4, AppendedPart
<1>6. /\ b \in Seq(S) /\ Len(b) = Len(p) + Len(e) + Len(r)
      /\ Len(a) = Len(p) + Len(e) /\ Len(p) \in Nat /\ Len(e) \in Nat /\ Len(r) \in Nat
  BY <1>3, <1>5 DEF Joins
<1>7. /\ \A i \in 1 .. Len(p) : b[i] = p[i]
      /\ \A i \in 1 .. Len(e) : b[Len(p) + i] = e[i]
  <2>1. \A i \in 1 .. Len(a) : b[i] = a[i]
    BY <1>5 DEF Joins
  <2>2. \A i \in 1 .. Len(p) : a[i] = p[i] /\ i \in 1 .. Len(a)
    BY <1>6, <1>3 DEF Joins
  <2>3. \A i \in 1 .. Len(e) : a[Len(p) + i] = e[i] /\ Len(p) + i \in 1 .. Len(a)
    BY <1>6, <1>3 DEF Joins
  <2> QED  BY <2>1, <2>2, <2>3
<1>8. PICK h : h = k - Len(p)
  OBVIOUS
<1>9. h \in Nat /\ h <= Len(e) /\ k = Len(p) + h /\ k <= Len(b)
  BY <1>6, <1>8
<1>10. PICK d : d = SubSeq(e, 1, h)
  OBVIOUS
<1>11. d \in Seq(S) /\ Len(d) = h /\ \A i \in 1 .. h : d[i] = e[i]
  BY <1>6, <1>9, <1>10, SMTT(60)
<1>12. PICK x : x = SubSeq(b, 1, k)
  OBVIOUS
<1>13. x \in Seq(S) /\ Len(x) = k /\ \A i \in 1 .. k : x[i] = b[i]
  BY <1>6, <1>9, <1>12
<1>14. PICK y : y = p \o d
  OBVIOUS
<1>15. /\ y \in Seq(S) /\ Len(y) = k
       /\ \A i \in 1 .. Len(p) : y[i] = p[i]
       /\ \A i \in 1 .. h : y[Len(p) + i] = d[i]
  <2>1. Joins(S, p, d, y)
    BY <1>11, <1>14, AppendedPart
  <2> QED  BY <1>9, <1>11, <2>1 DEF Joins
<1>16. ASSUME NEW i \in 1 .. k PROVE x[i] = y[i]
  <2>1. CASE i <= Len(p)
    BY <1>6, <1>7, <1>13, <1>15, <2>1
  <2>2. CASE i > Len(p)
    <3>1. PICK g : g = i - Len(p)
      OBVIOUS
    <3>2. g \in 1 .. h /\ g \in 1 .. Len(e) /\ i = Len(p) + g
      BY <1>6, <1>9, <2>2, <3>1
    <3>3. x[i] = e[g] /\ y[i] = e[g]
      BY <1>7, <1>11, <1>13, <1>15, <3>2
    <3> QED  BY <3>3
  <2> QED  BY <1>6, <2>1, <2>2
<1>17. x = y
  BY <1>13, <1>15, <1>16
<1> QED  BY <1>1, <1>2, <1>8, <1>10, <1>12, <1>14, <1>17

\* k falls on part c of the parts F, h bytes behind its start.
IsCut(F, n, k, c, h) ==
    /\ c \in 1 .. n /\ h \in Nat /\ h < Len(F[c])
    /\ SubSeq(UpTo(F, n), 1, k) = UpTo(F, c - 1) \o SubSeq(F[c], 1, h)

LEMMA Cuts ==
    ASSUME NEW S, NEW n \in Nat, NEW F \in [1 .. n -> Seq(S)], NEW k \in Nat, k < Len(UpTo(F, n))
    PROVE  \E c, h : IsCut(F, n, k, c, h)
<1> DEFINE T == {d \in 0 .. n : k < Len(UpTo(F, d))}
<1>1. n \in T
  OBVIOUS
<1>2. PICK c \in T : \A d \in T : c <= d
  <2>1. T \in SUBSET Nat /\ T # {}
    <3>1. \A d \in T : d \in Nat
      OBVIOUS
    <3> HIDE DEF T
    <3> QED  BY <1>1, <3>1
  <2> HIDE DEF T
  <2> QED  BY <2>1, LeastNumber
<1>3. c \in 0 .. n /\ k < Len(UpTo(F, c))
  BY <1>2
<1>4. UpToIs(S, F, c)
  BY <1>3, UpToGrows
<1>5. c # 0
  <2> SUFFICES ASSUME c = 0 PROVE FALSE
    OBVIOUS
  <2>1. UpTo(F, c) = <<>>
    BY <1>4 DEF UpToIs
  <2>2. Len(UpTo(F, c)) = 0
    BY <2>1
  <2> QED  BY <1>3, <2>2
<1>6. c \in 1 .. n /\ c - 1 \in 0 .. n /\ ~(c <= c - 1) /\ F[c] \in Seq(S)
  BY <1>3, <1>5
<1>7. UpToIs(S, F, c - 1)
  BY <1>6, UpToGrows
<1>8. PICK p \in Seq(S) : p = UpTo(F, c - 1)
  BY <1>7 DEF UpToIs
<1>9. PICK e \in Seq(S) : e = F[c]
  BY <1>6
<1>10. UpTo(F, c) = p \o e
  BY <1>4, <1>5, <1>8, <1>9, Zenon DEF UpToIs
<1>11. ~(k < Len(p))
  BY <1>2, <1>6, <1>8
<1>12. Len(p) <= k /\ k < Len(p) + Len(e) /\ Len(p) \in Nat /\ Len(e) \in Nat
  <2>1. Len(p \o e) = Len(p) + Len(e)
    OBVIOUS
  <2> QED  BY <1>3, <1>10, <1>11, <2>1
<1>13. PICK r \in Seq(S) : UpTo(F, n) = (p \o e) \o r
  <2>1. c \in 0 .. n /\ n \in c .. n
    BY <1>3
  <2>2. Continues(S, F, c, n)
    BY <2>1, FlattenSplit
  <2> QED  BY <1>10, <2>2 DEF Continues
<1>14. PICK h : h = k - Len(p)
  OBVIOUS
<1>15. h \in Nat /\ h < Len(e) /\ k <= Len(p) + Len(e)
  BY <1>12, <1>14
<1>16. SubSeq(UpTo(F, n), 1, k) = p \o SubSeq(e, 1, h)
  <2>1. SubSeq((p \o e) \o r, 1, k) = p \o SubSeq(e, 1, k - Len(p))
    BY <1>12, CutJoined, SMTT(40)
  <2> QED  BY <1>13, <1>14, <2>1
<1>17. IsCut(F, n, k, c, h)
  BY <1>6, <1>8, <1>9, <1>15, <1>16 DEF IsCut
<1> QED  BY <1>17

LEMMA CutVarint ==
    ASSUME NEW w \in Nat, NEW p \in Seq(Octets), NEW k \in Nat, k < Len(Varint[w]),
           NEW b, b = p \o SubSeq(Varint[w], 1, k)
    PROVE  ReadVarint(b, Len(p) + 1) = Fail
<1>1. VarintShape(w, Varint[w])
  BY VarintFits
<1>2. PICK v \in Seq(Octets) : v = Varint[w]
  BY <1>1 DEF VarintShape
<1>3. \A i \in 1 .. Len(v) - 1 : ~(v[i] < 128)
  <2>1. \A i \in 1 .. Len(v) - 1 : v[i] >= 128 /\ v[i] \in Int
    <3>1. \A i \in 1 .. Len(v) - 1 : v[i] \in Octets
      OBVIOUS
    <3> QED  BY <1>1, <1>2, <3>1, OctetsAreNumbers, SMTT(60) DEF VarintShape
  <2> QED  BY <2>1
<1>4. PICK d : d = SubSeq(v, 1, k)
  OBVIOUS
<1>5. d \in Seq(Octets) /\ Len(d) = k /\ \A i \in 1 .. k : d[i] = v[i]
  BY <1>2, <1>4
<1>6. Len(p) \in Nat /\ Len(b) = Len(p) + k /\ \A i \in 1 .. k : b[Len(p) + i] = d[i]
  <2>1. Joins(Octets, p, d, b)
    BY <1>2, <1>4, <1>5, AppendedPart
  <2> QED  BY <1>5, <2>1 DEF Joins
<1>7. PICK i : i = Len(p) + 1
  OBVIOUS
<1>8. ASSUME NEW h \in Nat, i + h <= Len(b), b[i + h] < 128 PROVE FALSE
  <2>1. h + 1 \in 1 .. k /\ i + h = Len(p) + (h + 1) /\ h + 1 \in 1 .. Len(v) - 1
    BY <1>2, <1>6, <1>7, <1>8
  <2>2. b[i + h] = v[h + 1]
    BY <1>5, <1>6, <2>1
  <2> QED  BY <1>3, <1>8, <2>1, <2>2
<1>9. {h \in 0 .. MaxVarint - 1 : i + h <= Len(b) /\ b[i + h] < 128} = {}
  <2>1. \A h \in 0 .. MaxVarint - 1 : ~(i + h <= Len(b) /\ b[i + h] < 128)
    <3>1. \A h \in 0 .. MaxVarint - 1 : h \in Nat
      <4>1. \A g, h : h \in 0 .. g => h \in Nat
        OBVIOUS
      <4> QED  BY <4>1
    <3> QED  BY <1>8, <3>1
  <2> QED  BY <2>1
<1> QED  BY <1>7, <1>9 DEF ReadVarint

LEMMA CutLength ==
    ASSUME NEW x \in Seq(Octets), FitsInt(Len(x)), NEW p \in Seq(Octets), NEW k \in Nat,
           k < Len(Prefixed(x)), NEW b, b = p \o SubSeq(Prefixed(x), 1, k)
    PROVE  ReadLength(b, Len(p) + 1) = Fail
<1>1. PICK w \in Nat : w = Len(x)
  OBVIOUS
<1>2. VarintShape(w, Varint[w])
  BY VarintFits
<1>3. PICK v \in Seq(Octets) : v = Varint[w]
  BY <1>2 DEF VarintShape
<1>4. Prefixed(x) = v \o x
  BY <1>1, <1>3 DEF Prefixed
<1>5. Joins(Octets, v, x, v \o x)
  BY AppendedPart
<1>6. Len(v \o x) = Len(v) + w /\ Len(v) \in Nat
  BY <1>1, <1>5 DEF Joins
<1>7. CASE k < Len(v)
  <2>1. SubSeq(v \o x, 1, k) = SubSeq(v, 1, k)
    <3>1. 1 \in Nat /\ 1 <= k + 1 /\ k <= Len(v)
      BY <1>6, <1>7
    <3> QED  BY <1>5, <3>1 DEF Joins
  <2>2. ReadVarint(b, Len(p) + 1) = Fail
    BY <1>1, <1>3, <1>4, <1>7, <2>1, CutVarint
  <2>3. ~Fail.ok
    BY DEF Fail
  <2> QED  BY <2>2, <2>3 DEF ReadLength
<1>8. CASE Len(v) <= k
  <2>1. PICK h : h = k - Len(v)
    OBVIOUS
  <2>2. h \in Nat /\ h < w
    BY <1>4, <1>6, <1>8, <2>1
  <2>3. PICK d : d = SubSeq(x, 1, h)
    OBVIOUS
  <2>4. d \in Seq(Octets) /\ Len(d) = h
    BY <1>1, <2>2, <2>3
  <2>5. SubSeq(v \o x, 1, k) = v \o d
    <3>1. PICK r \in Seq(Octets) : r = <<>>
      <4>1. <<>> \in Seq(Octets)
        OBVIOUS
      <4> QED  BY <4>1
    <3>2. SubSeq((v \o x) \o r, 1, k) = v \o SubSeq(x, 1, k - Len(v))
      <4>1. Len(v) <= k /\ k <= Len(v) + Len(x)
        BY <1>1, <1>4, <1>6, <1>8
      <4> QED  BY <4>1, CutJoined, ZenonT(60)
    <3>3. PICK y \in Seq(Octets) : y = v \o x
      BY <1>5 DEF Joins
    <3>4. y \o r = y
      BY <3>1
    <3> QED  BY <2>1, <2>3, <3>2, <3>3, <3>4
  <2>6. b = (p \o v) \o d /\ Joins(Octets, p \o v, d, (p \o v) \o d)
    <3>1. AreJoined(p, v, d)
      BY <2>4, Joining
    <3>2. p \o v \in Seq(Octets)
      BY <3>1 DEF AreJoined
    <3> QED  BY <1>4, <2>4, <2>5, <3>1, <3>2, AppendedPart, Zenon DEF AreJoined
  <2>7. PICK r : r = ReadVarint(b, Len(p) + 1)
    OBVIOUS
  <2>8. w < TwoTo[WordBits - 1] /\ w < TwoTo[WordBits] /\ WordBits \in Nat \ {0}
    <3>1. TwoTo[WordBits] = 2 * TwoTo[WordBits - 1]
      BY WidthsAre, TwoToType
    <3> QED  BY <1>1, <3>1, WidthsAre, SMTT(60) DEF FitsInt
  <2>9. r = [ok |-> TRUE, next |-> Len(p \o v) + 1, word |-> w]
    <3>1. ReadVarint((p \o Varint[w]) \o d, Len(p) + 1)
              = [ok |-> TRUE, next |-> Len(p \o Varint[w]) + 1, word |-> w]
      BY <2>4, <2>8, WordIsRead
    <3> QED  BY <1>3, <2>6, <2>7, <3>1, Zenon
  <2>10. r.next + r.word > Len(b) + 1
    <3>1. r.next = Len(p \o v) + 1 /\ r.word = w
      BY <2>9
    <3>2. Len(b) = Len(p \o v) + h /\ Len(p \o v) \in Nat
      BY <2>4, <2>6 DEF Joins
    <3> QED  BY <2>2, <3>1, <3>2
  <2> QED  BY <2>7, <2>10 DEF ReadLength
<1> QED  BY <1>6, <1>7, <1>8

\* What is left of the bytes behind a tag is an error.
LEMMA CutContent ==
    ASSUME NEW u, u.kind \in Scalars \/ Embeds(u), NEW c, NEW x, IsContent(u, c, x),
           NEW p \in Seq(Octets), NEW k \in Nat, k < Len(c), NEW b, b = p \o SubSeq(c, 1, k)
    PROVE  Content(u, b, Len(p) + 1) = Fail
<1>1. PICK i : i = Len(p) + 1
  OBVIOUS
<1>2. c \in Seq(Octets) /\ ~Fail.ok
  BY DEF IsContent, Fail
<1>3. CASE u.kind \in Integral \cup {"bool"}
  <2>1. PICK w \in Nat : c = Varint[w]
    <3>1. CASE u.kind \in Integral
      <4>1. x \in FieldRange(u.kind) /\ c = Varint[Word(x)]
        BY <3>1 DEF IsContent
      <4>2. x \in Int
        <5>1. WordBits \in Nat \ {0} /\ HalfBits \in Nat \ {0}
          BY WidthsAre
        <5> QED  BY <3>1, <4>1, <5>1, RangeIs DEF InBits
      <4>3. Word(x) \in Nat
        BY <4>2, WordIs, WidthsAre
      <4> QED  BY <4>1, <4>3
    <3>2. CASE u.kind = "bool"
      <4>1. c = <<1>> /\ Varint[1] = <<1>>
        BY <3>2, VarintIs DEF IsContent
      <4> QED  BY <4>1
    <3> QED  BY <1>3, <3>1, <3>2
  <2>2. ReadVarint(b, i) = Fail
    BY <1>1, <2>1, CutVarint
  <2>3. WireType(u.kind) = 0
    BY <1>3, WireTypeIs
  <2> QED  BY <1>1, <1>2, <2>2, <2>3 DEF Content, Found, WordFound, BytesFound
<1>4. CASE u.kind \in FixedKinds
  <2>1. Fixed(u.kind) \in Nat /\ Len(c) = Fixed(u.kind)
    <3>1. x \in [1 .. Fixed(u.kind) -> Octets] /\ c = x /\ Fixed(u.kind) \in Nat
      BY <1>4 DEF IsContent, Fixed
    <3> QED  BY <3>1
  <2>2. Len(b) = Len(p) + k /\ Len(p) \in Nat
    <3>1. PICK d : d = SubSeq(c, 1, k)
      OBVIOUS
    <3>2. d \in Seq(Octets) /\ Len(d) = k
      BY <1>2, <3>1
    <3> QED  BY <3>1, <3>2
  <2>3. i + Fixed(u.kind) > Len(b) + 1
    BY <1>1, <2>1, <2>2
  <2>4. WireType(u.kind) \in {1, 5} /\ WireType(u.kind) # 0
    BY <1>4, WireTypeIs DEF FixedKinds
  <2> QED  BY <1>1, <2>3, <2>4 DEF Content, Found, WordFound, BytesFound
<1>5. CASE u.kind \notin Integral \cup FixedKinds \cup {"bool"}
  <2>1. x \in Seq(Octets) /\ FitsInt(Len(x)) /\ c = Prefixed(x)
    BY <1>5 DEF IsContent
  <2>2. ReadLength(b, i) = Fail
    BY <1>1, <2>1, CutLength
  <2>3. WireType(u.kind) = 2
    BY <1>5, WireTypeIs DEF FixedKinds
  <2> QED  BY <1>1, <1>2, <2>2, <2>3 DEF Content, Found, WordFound, BytesFound
<1> QED  BY <1>3, <1>4, <1>5

LEMMA LoopFails ==
    ASSUME NEW F, NEW l, NEW t, NEW m, NEW b \in Seq(Octets), IsLoop(F, l, t, m, b),
           NEW k \in 0 .. Len(b), NEW i \in Nat, NEW x, F[k] = State(i, x), k < i, i <= Len(b),
           FieldAt(t, b, i) = Fail
    PROVE  Ended(F, b) = Fail
<1>1. k + 1 \in 1 .. Len(b) /\ k + 1 \in 0 .. Len(b) /\ (k + 1) - 1 = k /\ Len(b) \in Nat
  OBVIOUS
<1>2. F[k + 1] = NextState(l, t, b, F[k])
  BY <1>1, LoopIs
<1>3. PICK s : s = F[k]
  OBVIOUS
<1>4. s.ok = TRUE /\ s.at = i /\ ~Fail.ok
  BY <1>3 DEF State, Fail
<1>5. ~Decoded(b, s)
  BY <1>1, <1>4 DEF Decoded
<1>6. Round(s, FieldAt(t, b, s.at), EmbeddedIn(l, t, b, s)) = Fail
  BY <1>4 DEF Round
<1>7. F[k + 1] = Fail
  BY <1>2, <1>3, <1>5, <1>6 DEF NextState
<1>8. Decoded(b, F[k + 1])
  BY <1>4, <1>7 DEF Decoded
<1>9. Ended(F, b) = IF F[k + 1].ok THEN [ok |-> TRUE, msg |-> F[k + 1].msg] ELSE Fail
  BY <1>1, <1>8, LoopEnds
<1> QED  BY <1>4, <1>7, <1>9

\* What is cut off: the message y is left, and a part of the next field, whose tag
\* is that of the row, and which has the bytes d.
CutOff(l, t, b, y, u, row, d, x, g) ==
    /\ IsTyped(l, t, y) /\ u \in Unmarshals[t] /\ RowReads(row, u) /\ IsContent(u, d, x)
    /\ g \in Nat /\ g < Len(<<row.tag>> \o d)
    /\ b = MarshalAt(l, t, y) \o SubSeq(<<row.tag>> \o d, 1, g)

LEMMA CutMessage ==
    ASSUME NEW l \in 1 .. 5, NEW t, NEW m, IsTyped(l, t, m), NEW k \in Nat, k < Len(MarshalAt(l, t, m)),
           NEW b, b = SubSeq(MarshalAt(l, t, m), 1, k)
    PROVE  \E y, u, row, d, x, g : CutOff(l, t, b, y, u, row, d, x, g)
<1>1. PICK n : RowsAre(l, t, m, n)
  BY RowsOfMessage
<1>2. PICK F : F = RowsOf(l, t, m)
  OBVIOUS
<1>3. /\ n \in Nat /\ DOMAIN Marshals[t] = 1 .. n /\ F \in [1 .. n -> Seq(Octets)]
      /\ MarshalAt(l, t, m) = UpTo(F, n)
  BY <1>1, <1>2 DEF RowsAre
<1>4. PICK c, h : IsCut(F, n, k, c, h)
  BY <1>3, Cuts
<1>5. c \in 1 .. n /\ h \in Nat /\ h < Len(F[c]) /\ b = UpTo(F, c - 1) \o SubSeq(F[c], 1, h)
  BY <1>3, <1>4 DEF IsCut
<1>6. PICK u : u = RowOf(t, NameOf(t, c))
  OBVIOUS
<1>7. RowIs(l, t, m, c, u)
  BY <1>3, <1>5, <1>6, RowOfMessage
<1>8. PICK v : v = m[u.name]
  OBVIOUS
<1>9. PICK E : E = EncodedAt(l, t, m)[c]
  OBVIOUS
<1>10. PICK row : row = Marshals[t][c]
  OBVIOUS
<1>11. PICK els : els = ElementsAt(l, t, m, c)
  OBVIOUS
<1>12. PICK z : z = HowMany(u, v)
  OBVIOUS
<1>13. /\ u \in Unmarshals[t] /\ RowReads(row, u) /\ u.name = NameOf(t, c) /\ IsValue(u, v) /\ AreEncoded(u, v, E)
       /\ F[c] = FlattenSeq(els)
  BY <1>2, <1>7, <1>8, <1>9, <1>10, <1>11 DEF RowIs
<1>14. els = ElementsOf(row, u, v, E)
  BY <1>6, <1>8, <1>9, <1>10, <1>11, <1>13 DEF ElementsAt
<1>15. z \in Nat
  BY <1>12, <1>13, HowManyIs DEF RowReads
<1>16. els \in [1 .. z -> Seq(Octets)]
  BY <1>12, <1>13, <1>14, ElementsOfRow DEF ElementsAre
<1>17. F[c] = UpTo(els, z)
  BY <1>13, <1>15, <1>16, FlattenElements
<1>18. PICK j, g : IsCut(els, z, h, j, g)
  <2>1. h < Len(UpTo(els, z))
    BY <1>5, <1>17
  <2> QED  BY <1>5, <1>15, <1>16, <2>1, Cuts
<1>19. /\ j \in 1 .. z /\ g \in Nat /\ g < Len(els[j])
       /\ SubSeq(F[c], 1, h) = UpTo(els, j - 1) \o SubSeq(els[j], 1, g)
  BY <1>17, <1>18 DEF IsCut
<1>20. PICK y : y = PartOf(t, m, 1 .. c - 1, c, j - 1)
  OBVIOUS
<1>21. IsTyped(l, t, y) /\ MarshalAt(l, t, y) = UpTo(F, c - 1) \o UpTo(els, j - 1)
  <2>1. PICK i : i = j - 1
    OBVIOUS
  <2>2. i \in Nat /\ i <= HowMany(RowOf(t, NameOf(t, c)), m[NameOf(t, c)])
    BY <1>6, <1>8, <1>12, <1>13, <1>15, <1>19, <2>1
  <2>3. y = PartOf(t, m, 1 .. c - 1, c, i)
    BY <1>20, <2>1
  <2>4. IsBefore(l, t, m, c, i, y)
    BY <1>1, <1>5, <2>2, <2>3, ElementsBefore
  <2> QED  BY <1>2, <1>11, <2>1, <2>4 DEF IsBefore
<1>22. b = MarshalAt(l, t, y) \o SubSeq(els[j], 1, g)
  <2>1. PICK p \in Seq(Octets) : p = UpTo(F, c - 1)
    <3>1. c - 1 \in 0 .. n
      BY <1>3, <1>5
    <3>2. UpToIs(Octets, F, c - 1)
      BY <1>3, <3>1, UpToGrows
    <3> QED  BY <3>2 DEF UpToIs
  <2>2. PICK e \in Seq(Octets) : e = UpTo(els, j - 1)
    <3>1. j - 1 \in 0 .. z
      BY <1>15, <1>19
    <3>2. UpToIs(Octets, els, j - 1)
      BY <1>15, <1>16, <3>1, UpToGrows
    <3> QED  BY <3>2 DEF UpToIs
  <2>3. PICK s \in Seq(Octets) : s = SubSeq(els[j], 1, g)
    <3>1. els[j] \in Seq(Octets)
      BY <1>16, <1>19
    <3>2. SubSeq(els[j], 1, g) \in Seq(Octets)
      BY <1>19, <3>1
    <3> QED  BY <3>2
  <2>4. AreJoined(p, e, s)
    BY Joining
  <2> QED  BY <1>5, <1>19, <1>21, <2>1, <2>2, <2>3, <2>4, Zenon DEF AreJoined
<1>23. PICK d : els[j] = <<row.tag>> \o d /\ IsContent(u, d, ElementValue(u, v, E, j))
  <2>1. j \in 1 .. HowMany(u, v)
    BY <1>12, <1>19
  <2> QED  BY <1>13, <1>14, <2>1, ElementIs
<1>24. CutOff(l, t, b, y, u, row, d, ElementValue(u, v, E, j), g)
  BY <1>13, <1>19, <1>21, <1>22, <1>23 DEF CutOff
<1> QED  BY <1>24

\* A part of a field, behind a message, is an error.
LEMMA CutFails ==
    ASSUME NEW l \in 1 .. 5, NEW t, NEW x0, IsTyped(l, t, x0), NEW b \in Seq(Octets),
           NEW y, NEW u, NEW row, NEW d, NEW x, NEW g, CutOff(l, t, b, y, u, row, d, x, g), g # 0
    PROVE  UnmarshalAt(l, t, x0, b) = Fail
<1>1. /\ IsTyped(l, t, y) /\ u \in Unmarshals[t] /\ RowReads(row, u) /\ IsContent(u, d, x)
      /\ g \in Nat /\ g < Len(<<row.tag>> \o d)
      /\ b = MarshalAt(l, t, y) \o SubSeq(<<row.tag>> \o d, 1, g) /\ t \in Types
  BY DEF CutOff, IsTyped
<1>2. PICK p \in Seq(Octets) : p = MarshalAt(l, t, y)
  <2>1. PICK n : RowsAre(l, t, y, n)
    BY <1>1, RowsOfMessage
  <2> QED  BY <2>1 DEF RowsAre
<1>3. PICK w \in Seq(Octets) : w = <<row.tag>> /\ Len(w) = 1
  <2>1. row.tag \in Octets
    BY <1>1, TagIs
  <2>2. <<row.tag>> \in Seq(Octets) /\ Len(<<row.tag>>) = 1
    BY <2>1
  <2> QED  BY <2>2
<1>4. d \in Seq(Octets) /\ Len(w \o d) = 1 + Len(d) /\ Len(d) \in Nat
  <2>1. d \in Seq(Octets)
    BY <1>1 DEF IsContent
  <2>2. Joins(Octets, w, d, w \o d)
    BY <2>1, AppendedPart
  <2> QED  BY <1>3, <2>1, <2>2 DEF Joins
<1>5. PICK h : h = g - 1
  OBVIOUS
<1>6. h \in Nat /\ h < Len(d) /\ Len(w) <= g /\ g <= Len(w) + Len(d) /\ g - Len(w) = h
  BY <1>1, <1>3, <1>4, <1>5
<1>7. PICK s \in Seq(Octets) : s = SubSeq(d, 1, h)
  <2>1. SubSeq(d, 1, h) \in Seq(Octets)
    BY <1>4, <1>6
  <2> QED  BY <2>1
<1>8. SubSeq(w \o d, 1, g) = w \o s
  <2>1. PICK r \in Seq(Octets) : r = <<>>
    <3>1. <<>> \in Seq(Octets)
      OBVIOUS
    <3> QED  BY <3>1, Zenon
  <2>2. SubSeq((w \o d) \o r, 1, g) = w \o SubSeq(d, 1, g - Len(w))
    <3>1. w \in Seq(Octets) /\ d \in Seq(Octets) /\ g \in Nat
          /\ Len(w) <= g /\ g <= Len(w) + Len(d)
      BY <1>1, <1>4, <1>6
    <3> QED  BY <2>1, <3>1, CutJoined, SMTT(40)
  <2>3. PICK a \in Seq(Octets) : a = w \o d
    <3>1. Joins(Octets, w, d, w \o d)
      BY <1>4, AppendedPart
    <3> QED  BY <3>1, Zenon DEF Joins
  <2>4. a \o r = a
    BY <2>1
  <2> QED  BY <1>6, <1>7, <2>2, <2>3, <2>4
<1>9. PICK q \in Seq(Octets) : q = w \o s
  <2>1. Joins(Octets, w, s, w \o s)
    BY AppendedPart
  <2> QED  BY <2>1, Zenon DEF Joins
<1>10. b = p \o q /\ b = (p \o w) \o s /\ p \o w \in Seq(Octets)
  <2>1. AreJoined(p, w, s)
    BY Joining
  <2> QED  BY <1>1, <1>2, <1>3, <1>8, <1>9, <2>1, Zenon DEF AreJoined
<1>11. FieldAt(t, b, Len(p) + 1) = Fail
  <2>1. b = (p \o <<row.tag>>) \o s
    BY <1>3, <1>10
  <2>2. FieldFrom(t, u, b, Len(p) + 1, Len(p \o <<row.tag>>) + 1)
    BY <1>1, <2>1, TagIsRead
  <2>3. PICK a \in Seq(Octets) : a = p \o w
    BY <1>10
  <2>4. Content(u, b, Len(a) + 1) = Fail
    <3>1. u.kind \in Scalars \/ Embeds(u)
      BY <1>1 DEF RowReads
    <3>2. b = a \o SubSeq(d, 1, h)
      BY <1>7, <1>10, <2>3
    <3> QED  BY <1>1, <1>6, <3>1, <3>2, CutContent
  <2> QED  BY <1>3, <2>2, <2>3, <2>4, Zenon DEF FieldFrom
<1>12. PICK F : IsLoop(F, l, t, x0, b) /\ UnmarshalAt(l, t, x0, b) = Ended(F, b)
  BY UnmarshalLevel, ZenonT(60)
<1>13. PICK k : HasRead(F, b, l, t, x0, y, <<>>, k)
  <2>1. ReadsAt(l - 1)
    <3>1. l - 1 \in 0 .. 5
      OBVIOUS
    <3> QED  BY <3>1, AllLevelsRead
  <2>2. b = MarshalAt(l, t, y) \o q
    BY <1>2, <1>10
  <2> QED  BY <1>1, <1>12, <2>1, <2>2, RunReads
<1>14. PICK i : i = Len(p) + 1
  OBVIOUS
<1>15. k \in 0 .. Len(b) /\ k < i /\ F[k] = State(i, MergedAt(l, t, x0, y))
  <2>1. <<>> \o p = p
    OBVIOUS
  <2> QED  BY <1>2, <1>13, <1>14, <2>1 DEF HasRead
<1>16. i \in Nat /\ i <= Len(b)
  <2>1. Joins(Octets, p, q, p \o q) /\ Joins(Octets, w, s, w \o s)
    BY AppendedPart
  <2>2. Len(q) >= 1 /\ Len(q) \in Nat
    <3>1. Len(s) \in Nat
      OBVIOUS
    <3> QED  BY <1>3, <1>9, <2>1, <3>1 DEF Joins
  <2>3. Len(b) = Len(p) + Len(q) /\ Len(p) \in Nat
    BY <1>10, <2>1 DEF Joins
  <2> QED  BY <1>14, <2>2, <2>3
<1>17. PICK y1 : y1 = MergedAt(l, t, x0, y)
  OBVIOUS
<1>18. Ended(F, b) = Fail
  <2>1. FieldAt(t, b, i) = Fail
    BY <1>11, <1>14
  <2>2. F[k] = State(i, y1)
    BY <1>15, <1>17
  <2> QED  BY <1>12, <1>15, <1>16, <2>1, <2>2, LoopFails
<1> QED  BY <1>12, <1>18

\* What Unmarshal makes of b is an error, or a message that is written as b.
IsReadTo(t, b, y) ==
    IsMessage(t, y) /\ Marshal(t, y) = b /\ Unmarshal(t, Zero(t), b) = [ok |-> TRUE, msg |-> y]
ReadsCut(t, b) == Unmarshal(t, Zero(t), b) = Fail \/ \E y : IsReadTo(t, b, y)

\* A message that is cut anywhere is refused, unless it was cut between two fields
\* or between two of the messages in a slice: then the message that is left is read.
THEOREM CutIsSeen ==
    ASSUME NEW t, NEW m, IsMessage(t, m), NEW k \in Nat, k < Len(Marshal(t, m))
    PROVE  ReadsCut(t, SubSeq(Marshal(t, m), 1, k))
<1>1. IsTyped(5, t, m) /\ Marshal(t, m) \in Seq(Octets) /\ FitsInt(Len(Marshal(t, m))) /\ t \in Types
  <2>1. MessageAt(5, t, m) /\ MarshalAt(5, t, m) = Marshal(t, m)
    BY TopLevel
  <2> QED  BY <2>1, MessageTyped DEF IsTyped
<1>2. PICK b \in Seq(Octets) : b = SubSeq(Marshal(t, m), 1, k) /\ Len(b) = k
  <2>1. PICK a \in Seq(Octets) : a = Marshal(t, m)
    BY <1>1
  <2>2. SubSeq(a, 1, k) \in Seq(Octets) /\ Len(SubSeq(a, 1, k)) = k
    BY <2>1
  <2> QED  BY <2>1, <2>2
<1>3. PICK y, u, row, d, x, g : CutOff(5, t, b, y, u, row, d, x, g)
  <2>1. MarshalAt(5, t, m) = Marshal(t, m)
    BY TopLevel
  <2>2. PICK l \in 1 .. 5 : l = 5
    OBVIOUS
  <2>3. IsTyped(l, t, m) /\ k < Len(MarshalAt(l, t, m)) /\ b = SubSeq(MarshalAt(l, t, m), 1, k)
    BY <1>1, <1>2, <2>1, <2>2
  <2>4. \E y, u, row, d, x, g : CutOff(l, t, b, y, u, row, d, x, g)
    BY <2>3, CutMessage
  <2> QED  BY <2>2, <2>4, Zenon
<1>4. IsTyped(5, t, Zero(t))
  BY <1>1, ZeroTyped
<1>5. CASE g # 0
  <2>1. UnmarshalAt(5, t, Zero(t), b) = Fail
    BY <1>3, <1>4, <1>5, CutFails
  <2> QED  BY <1>2, <2>1, TopLevel DEF ReadsCut
<1>6. CASE g = 0
  <2>1. IsTyped(5, t, y) /\ b = MarshalAt(5, t, y)
    <3>1. /\ IsTyped(5, t, y) /\ u \in Unmarshals[t] /\ RowReads(row, u) /\ IsContent(u, d, x)
          /\ b = MarshalAt(5, t, y) \o SubSeq(<<row.tag>> \o d, 1, g)
      BY <1>3 DEF CutOff
    <3>2. PICK p \in Seq(Octets) : p = MarshalAt(5, t, y)
      <4>1. PICK n : RowsAre(5, t, y, n)
        BY <3>1, RowsOfMessage
      <4> QED  BY <4>1 DEF RowsAre
    <3>3. PICK e \in Seq(Octets) : e = <<row.tag>> \o d
      <4>1. <<row.tag>> \in Seq(Octets)
        <5>1. row.tag \in Octets
          BY <3>1, TagIs
        <5> QED  BY <5>1
      <4>2. d \in Seq(Octets)
        BY <3>1 DEF IsContent
      <4>3. Joins(Octets, <<row.tag>>, d, <<row.tag>> \o d)
        BY <4>1, <4>2, AppendedPart
      <4> QED  BY <4>3, Zenon DEF Joins
    <3>4. SubSeq(e, 1, 0) = <<>> /\ p \o <<>> = p
      OBVIOUS
    <3> QED  BY <1>6, <3>1, <3>2, <3>3, <3>4, Zenon
  <2>2. MessageAt(5, t, y)
    <3>1. FitsInt(Len(b))
      <4>1. Len(b) < Len(Marshal(t, m)) /\ Len(b) \in Nat /\ Len(Marshal(t, m)) \in Nat
        BY <1>1, <1>2
      <4>2. TwoTo[WordBits - 1] \in Nat /\ Len(Marshal(t, m)) < TwoTo[WordBits - 1]
        BY <1>1, WidthsAre DEF FitsInt
      <4> QED  BY <4>1, <4>2 DEF FitsInt
    <3>2. 5 \in 1 .. 5
      OBVIOUS
    <3>3. t \in Types /\ y = [n \in Names(t) |-> y[n]] /\ HasValues(t, y) /\ EmbedsBelow(5, t, y)
      BY <2>1, Zenon DEF IsTyped
    <3> QED  BY <2>1, <3>1, <3>2, <3>3, MessageLevel, Zenon
  <2>3. IsMessage(t, y) /\ Marshal(t, y) = b
    BY <2>1, <2>2, TopLevel
  <2>4. Unmarshal(t, Zero(t), b) = [ok |-> TRUE, msg |-> y]
    BY <2>3, MergedIsRead
  <2>5. IsReadTo(t, b, y)
    BY <2>3, <2>4, Zenon DEF IsReadTo
  <2> QED  BY <1>2, <2>5, Zenon DEF ReadsCut
<1> QED  BY <1>5, <1>6

-----------------------------------------------------------------------------
(* Two messages in a buffer.                                               *)

\* The loop ends with what is left in the buffer.
LEMMA RestIsRead ==
    ASSUME NEW F, NEW l \in 1 .. 5, NEW t, NEW m0, NEW b \in Seq(Octets),
           IsLoop(F, l, t, m0, b), NEW x, NEW m, IsTyped(l, t, x), IsTyped(l, t, m),
           NEW p \in Seq(Octets), b = p \o MarshalAt(l, t, m),
           NEW k \in Nat, k < Len(p) + 1, F[k] = State(Len(p) + 1, x)
    PROVE  EndsWith(F, b, MergedAt(l, t, x, m))
<1>1. PICK q \in Seq(Octets) : q = <<>>
  <2>1. <<>> \in Seq(Octets)
    OBVIOUS
  <2> QED  BY <2>1, Zenon
<1>2. b = (p \o MarshalAt(l, t, m)) \o q
  <2>1. b \o q = b
    BY <1>1
  <2> QED  BY <2>1
<1>3. ReadsAt(l - 1)
  <2>1. l - 1 \in 0 .. 5
    OBVIOUS
  <2> QED  BY <2>1, AllLevelsRead
<1>4. PICK h : HasRead(F, b, l, t, x, m, p, h)
  BY <1>2, <1>3, MessageIsRead
<1> QED  BY <1>4, RunEnds

FirstRead(F, b, p, m, k) ==
    k \in Nat /\ k \in 0 .. Len(b) /\ k < Len(p) + 1 /\ F[k] = State(Len(p) + 1, m)

\* The loop has read the message that the buffer starts with.
LEMMA FirstIsRead ==
    ASSUME NEW F, NEW l \in 1 .. 5, NEW t, NEW b \in Seq(Octets),
           IsLoop(F, l, t, Zero(t), b), NEW m, MessageAt(l, t, m),
           NEW p \in Seq(Octets), p = MarshalAt(l, t, m), NEW q \in Seq(Octets), b = p \o q
    PROVE  \E k \in Nat : FirstRead(F, b, p, m, k)
<1>1. IsTyped(l, t, m) /\ t \in Types
  <2>1. l \in 0 .. 5
    OBVIOUS
  <2> QED  BY <2>1, MessageTyped DEF IsTyped
<1>2. IsTyped(l, t, Zero(t))
  BY <1>1, ZeroTyped
<1>3. ReadsAt(l - 1)
  <2>1. l - 1 \in 0 .. 5
    OBVIOUS
  <2> QED  BY <2>1, AllLevelsRead
<1>4. PICK k : HasRead(F, b, l, t, Zero(t), m, <<>>, k)
  BY <1>1, <1>2, <1>3, RunReads
<1>5. <<>> \o p = p
  OBVIOUS
<1>6. MergedAt(l, t, Zero(t), m) = m
  <2>1. l \in 0 .. 5
    OBVIOUS
  <2> QED  BY <2>1, MergedZero
<1>7. k \in Nat /\ FirstRead(F, b, p, m, k)
  BY <1>4, <1>5, <1>6, Zenon DEF HasRead, FirstRead
<1> QED  BY <1>7

ReadsTo(t, b, y) == Unmarshal(t, Zero(t), b) = [ok |-> TRUE, msg |-> y]

\* Two messages behind each other in a buffer are read as the second merged into
\* the first.
THEOREM BothAreRead ==
    ASSUME NEW t, NEW x, NEW m, IsMessage(t, x), IsMessage(t, m)
    PROVE  ReadsTo(t, Marshal(t, x) \o Marshal(t, m), Merged(t, x, m))
<1>1. PICK l \in 1 .. 5 : l = 5 /\ l \in 0 .. 5
  OBVIOUS
<1>2. MessageAt(l, t, x) /\ MessageAt(l, t, m)
  BY <1>1, TopLevel
<1>3. IsTyped(l, t, x) /\ IsTyped(l, t, m)
  BY <1>1, <1>2, MessageTyped
<1>4. PICK p \in Seq(Octets) : p = MarshalAt(l, t, x)
  BY <1>1, <1>2, MessageTyped
<1>5. PICK q \in Seq(Octets) : q = MarshalAt(l, t, m)
  BY <1>1, <1>2, MessageTyped
<1>6. PICK b \in Seq(Octets) : b = p \o q
  <2>1. Joins(Octets, p, q, p \o q)
    BY AppendedPart
  <2> QED  BY <2>1, Zenon DEF Joins
<1>7. PICK F : IsLoop(F, l, t, Zero(t), b) /\ UnmarshalAt(l, t, Zero(t), b) = Ended(F, b)
  BY UnmarshalLevel
<1>8. PICK k \in Nat : FirstRead(F, b, p, x, k)
  BY <1>2, <1>4, <1>6, <1>7, FirstIsRead
<1>9. k \in Nat /\ k < Len(p) + 1 /\ F[k] = State(Len(p) + 1, x)
  BY <1>8 DEF FirstRead
<1>10. EndsWith(F, b, MergedAt(l, t, x, m))
  BY <1>3, <1>5, <1>6, <1>7, <1>9, RestIsRead
<1>11. /\ MarshalAt(l, t, x) = Marshal(t, x) /\ MarshalAt(l, t, m) = Marshal(t, m)
       /\ UnmarshalAt(l, t, Zero(t), b) = Unmarshal(t, Zero(t), b)
       /\ MergedAt(l, t, x, m) = Merged(t, x, m)
  BY <1>1, TopLevel, Zenon
<1> QED  BY <1>4, <1>5, <1>6, <1>7, <1>10, <1>11, Zenon DEF EndsWith, ReadsTo

-----------------------------------------------------------------------------
(* Fields of other versions.                                               *)

LEMMA MergedRowZero ==
    ASSUME NEW l \in 1 .. 5, NEW t, NEW m, IsTyped(l, t, m), NEW u \in Unmarshals[t]
    PROVE  MergedRow(l, u, ZeroOf(u), m[u.name]) = m[u.name]
<1>1. PICK v : v = m[u.name]
  OBVIOUS
<1>2. u.repeated => Embeds(u)
  BY RowWritten DEF RowReads, IsTyped
<1>3. EmbeddedValue(l, u, v)
  BY <1>1, ValueTyped
<1>4. CASE v = ZeroOf(u)
  BY <1>1, <1>4 DEF MergedRow
<1>5. CASE v # ZeroOf(u) /\ u.repeated
  <2>1. ZeroOf(u) = <<>> /\ IsList(v)
    BY <1>2, <1>3, <1>5 DEF EmbeddedValue
  <2>2. <<>> \o v = v
    <3>1. v = [k \in 1 .. Len(v) |-> v[k]] /\ Len(v) \in Nat
      BY <2>1, Zenon DEF IsList
    <3>2. PICK S : S = {v[k] : k \in 1 .. Len(v)}
      OBVIOUS
    <3>3. v \in Seq(S)
      BY <3>1, <3>2
    <3> QED  BY <3>3
  <2> QED  BY <1>1, <1>5, <2>1, <2>2 DEF MergedRow
<1>6. CASE v # ZeroOf(u) /\ ~u.repeated
  <2>1. Embeds(u) => ZeroOf(u) = <<>>
    BY <1>3 DEF EmbeddedValue
  <2> QED  BY <1>1, <1>6, <2>1 DEF MergedRow
<1> QED  BY <1>4, <1>5, <1>6

\* The rows of a message are merged with the others.
LEMMA PartsMerge ==
    ASSUME NEW l \in 1 .. 5, NEW t, NEW m, IsTyped(l, t, m), NEW n, RowsAre(l, t, m, n), NEW c \in 0 .. n,
           NEW x, x = PartOf(t, m, 1 .. c, 0, 0), NEW y, y = PartOf(t, m, (c + 1) .. n, 0, 0)
    PROVE  MergedAt(l, t, x, y) = m
<1>1. n \in Nat /\ DOMAIN Marshals[t] = 1 .. n /\ t \in Types /\ m = [d \in Names(t) |-> m[d]]
  BY DEF RowsAre, IsTyped
<1>2. PICK I : I = 1 .. c
  OBVIOUS
<1>3. PICK H : H = (c + 1) .. n
  OBVIOUS
<1>4. PICK z : z = 0
  OBVIOUS
<1>5. I \in SUBSET (1 .. n) /\ H \in SUBSET (1 .. n) /\ z \in 0 .. n /\ z \in Nat
      /\ (\A i \in 1 .. n : i # z /\ (i \in I <=> i \notin H))
  BY <1>1, <1>2, <1>3, <1>4
<1>6. IsPartial(l, t, m, n, I, z, z) /\ IsPartial(l, t, m, n, H, z, z)
  BY <1>1, <1>4, <1>5 DEF IsPartial
<1>7. x = PartOf(t, m, I, z, z) /\ y = PartOf(t, m, H, z, z)
  BY <1>2, <1>3, <1>4
<1>8. PartFields(l, t, m, n, I, z, z, x) /\ PartFields(l, t, m, n, H, z, z, y)
  BY <1>6, <1>7, PartFieldsAre
<1>9. ASSUME NEW d \in Names(t) PROVE MergedRow(l, RowOf(t, d), x[d], y[d]) = m[d]
  <2>1. PICK u : u = RowOf(t, d)
    OBVIOUS
  <2>2. u \in Unmarshals[t] /\ u.name = d
    BY <1>1, <2>1, NameIs
  <2>3. PICK i \in 1 .. n :
            /\ u.name = NameOf(t, i) /\ (i \in I => x[u.name] = m[u.name])
            /\ (i \notin I /\ i # z => x[u.name] = ZeroOf(u))
    BY <1>8, <2>2 DEF PartFields
  <2>4. PICK h \in 1 .. n :
            /\ u.name = NameOf(t, h) /\ (h \in H => y[u.name] = m[u.name])
            /\ (h \notin H /\ h # z => y[u.name] = ZeroOf(u))
    BY <1>8, <2>2 DEF PartFields
  <2>5. i = h
    <3>1. \A a, e \in 1 .. n : NameOf(t, a) = NameOf(t, e) => a = e
      BY <1>1, TablesOfMessages DEF RowsAgree, RowsRead, NameOf
    <3>2. NameOf(t, i) = NameOf(t, h)
      BY <2>3, <2>4
    <3> QED  BY <3>1, <3>2
  <2>6. CASE i \in I
    <3>1. x[d] = m[d] /\ y[d] = ZeroOf(u)
      BY <1>5, <2>2, <2>3, <2>4, <2>5, <2>6
    <3> QED  BY <2>1, <3>1 DEF MergedRow
  <2>7. CASE i \notin I
    <3>1. x[d] = ZeroOf(u) /\ y[d] = m[d]
      BY <1>5, <2>2, <2>3, <2>4, <2>5, <2>7
    <3>2. MergedRow(l, u, ZeroOf(u), m[u.name]) = m[u.name]
      BY <2>2, MergedRowZero
    <3> QED  BY <2>1, <2>2, <3>1, <3>2
  <2> QED  BY <2>6, <2>7
<1>10. MergedAt(l, t, x, y) = [d \in Names(t) |-> MergedRow(l, RowOf(t, d), x[d], y[d])]
  BY MergedLevel
<1> QED  BY <1>1, <1>9, <1>10

-----------------------------------------------------------------------------
(* Fields of other versions are skipped.                                   *)

BodyBytes(u) ==
    CASE u.type = 0 -> Varint[u.word]
      [] u.type \in {1, 5} -> u.bytes
      [] u.type = 2 -> Prefixed(u.bytes)
      [] OTHER -> <<>>
PartIsBytes(u, w, c) ==
    /\ w = 8 * u.number + u.type /\ w \in Nat /\ w < TwoTo[WordBits] /\ w % 8 = u.type
    /\ c \in Seq(Octets) /\ PartBytes(u) = Varint[w] \o c
    /\ u.type = 0 => u.word \in Nat /\ u.word < TwoTo[WordBits] /\ c = Varint[u.word]
    /\ u.type = 1 => Len(c) = 8
    /\ u.type = 2 => u.bytes \in Seq(Octets) /\ FitsInt(Len(u.bytes)) /\ c = Prefixed(u.bytes)
    /\ u.type = 5 => Len(c) = 4
    /\ u.type \in {3, 4} => Len(c) = 0

LEMMA BodyIsBytes ==
    ASSUME NEW u, IsPart(u), NEW c, c = BodyBytes(u)
    PROVE  /\ c \in Seq(Octets)
           /\ u.type = 0 => c = Varint[u.word]
           /\ u.type = 1 => Len(c) = 8
           /\ u.type = 2 => c = Prefixed(u.bytes)
           /\ u.type = 5 => Len(c) = 4
           /\ u.type \in {3, 4} => Len(c) = 0
<1>1. u.type \in 0 .. 5
  BY DEF IsPart
<1>2. CASE u.type = 0
  <2>1. c = Varint[u.word] /\ u.word \in Nat
    BY <1>2 DEF BodyBytes, IsPart
  <2> QED  BY <1>2, <2>1, VarintFits DEF VarintShape
<1>3. CASE u.type = 1
  <2>1. c = u.bytes /\ u.bytes \in [1 .. 8 -> Octets]
    BY <1>3 DEF BodyBytes, IsPart
  <2>2. PICK n \in Nat : n = 8
    OBVIOUS
  <2>3. c \in [1 .. n -> Octets]
    BY <2>1, <2>2
  <2>4. c \in Seq(Octets) /\ Len(c) = n
    BY <2>3
  <2> QED  BY <1>3, <2>2, <2>4
<1>4. CASE u.type = 2
  <2>1. c = Prefixed(u.bytes)
    BY <1>4 DEF BodyBytes
  <2>2. u.bytes \in Seq(Octets)
    BY <1>4 DEF IsPart
  <2>3. PICK n : n = Len(u.bytes)
    OBVIOUS
  <2>4. n \in Nat
    BY <2>2, <2>3
  <2>5. Varint[n] \in Seq(Octets)
    BY <2>4, VarintFits DEF VarintShape
  <2>6. c \in Seq(Octets)
    BY <2>1, <2>2, <2>3, <2>5 DEF Prefixed
  <2> QED  BY <1>4, <2>1, <2>6
<1>5. CASE u.type = 5
  <2>1. c = u.bytes /\ u.bytes \in [1 .. 4 -> Octets]
    BY <1>5 DEF BodyBytes, IsPart
  <2>2. PICK n \in Nat : n = 4
    OBVIOUS
  <2>3. c \in [1 .. n -> Octets]
    BY <2>1, <2>2
  <2>4. c \in Seq(Octets) /\ Len(c) = n
    BY <2>3
  <2> QED  BY <1>5, <2>2, <2>4
<1>6. CASE u.type \in {3, 4}
  <2>1. c = <<>>
    BY <1>6 DEF BodyBytes
  <2> QED  BY <1>6, <2>1
<1> QED  BY <1>1, <1>2, <1>3, <1>4, <1>5, <1>6

LEMMA Eights ==
    ASSUME NEW n \in Nat, NEW k \in 0 .. 5, n >= 1
    PROVE  (8 * n + k) % 8 = k /\ (8 * n + k) \div 8 = n /\ 8 * n + k \in Nat
OBVIOUS

LEMMA PartHasBytes ==
    ASSUME NEW u, IsPart(u)
    PROVE  \E w, c : PartIsBytes(u, w, c)
<1>1. PICK w : w = 8 * u.number + u.type
  OBVIOUS
<1>2. PICK c : c = BodyBytes(u)
  OBVIOUS
<1>3. w \in Nat /\ w < TwoTo[WordBits] /\ w % 8 = u.type
  BY <1>1, Eights DEF IsPart
<1>4. PartBytes(u) = Varint[w] \o c
  BY <1>1, <1>2 DEF PartBytes, BodyBytes
<1>5. /\ u.type = 0 => u.word \in Nat /\ u.word < TwoTo[WordBits]
      /\ u.type = 2 => u.bytes \in Seq(Octets) /\ FitsInt(Len(u.bytes))
  BY Zenon DEF IsPart
<1>6. /\ c \in Seq(Octets)
      /\ u.type = 0 => c = Varint[u.word]
      /\ u.type = 1 => Len(c) = 8
      /\ u.type = 2 => c = Prefixed(u.bytes)
      /\ u.type = 5 => Len(c) = 4
      /\ u.type \in {3, 4} => Len(c) = 0
  BY <1>2, BodyIsBytes
<1>7. PartIsBytes(u, w, c)
  BY <1>1, <1>3, <1>4, <1>5, <1>6, Zenon DEF PartIsBytes
<1> QED  BY <1>7

\* What was read ends before j.
ReadTo(x, j) == x.ok = TRUE /\ x.next = j

LEMMA BodyIsRead ==
    ASSUME NEW u, NEW w, NEW c, PartIsBytes(u, w, c), NEW d \in Nat, u.type = 4 => d > 0, u.type \in 0 .. 5,
           NEW p \in Seq(Octets), NEW r \in Seq(Octets), NEW b, b = (p \o c) \o r,
           NEW tag, ReadTo(tag, Len(p) + 1)
    PROVE  ReadTo(BodyAt(b, tag, u.type, d), Len(p \o c) + 1)
<1>1. c \in Seq(Octets) /\ Len(p \o c) = Len(p) + Len(c) /\ Len(p) \in Nat
  BY DEF PartIsBytes
<1>2. tag.ok = TRUE /\ tag.next = Len(p) + 1
  BY DEF ReadTo
<1>3. CASE u.type = 0
  <2>1. c = Varint[u.word] /\ u.word \in Nat /\ u.word < TwoTo[WordBits]
    BY <1>3 DEF PartIsBytes
  <2>2. ReadVarint(b, Len(p) + 1) = [ok |-> TRUE, next |-> Len(p \o c) + 1, word |-> u.word]
    BY <2>1, WordIsRead, WidthsAre
  <2>3. BodyAt(b, tag, u.type, d) = ReadVarint(b, Len(p) + 1)
    BY <1>2, <1>3 DEF BodyAt
  <2> QED  BY <2>2, <2>3 DEF ReadTo
<1>4. CASE u.type = 1
  <2>1. Len(c) = 8
    BY <1>4 DEF PartIsBytes
  <2>2. BodyAt(b, tag, u.type, d) = [ok |-> TRUE, next |-> tag.next + 8]
    BY <1>4 DEF BodyAt
  <2>3. tag.next + 8 = Len(p \o c) + 1
    BY <1>1, <1>2, <2>1
  <2> QED  BY <2>2, <2>3 DEF ReadTo
<1>5. CASE u.type = 2
  <2>1. u.bytes \in Seq(Octets) /\ Len(u.bytes) < TwoTo[WordBits - 1] /\ c = Prefixed(u.bytes)
    BY <1>5 DEF PartIsBytes, FitsInt
  <2>2. BytesAt(b, ReadLength(b, Len(p) + 1), u.bytes, Len(p \o c) + 1)
    BY <2>1, BytesAreRead, WidthsAre
  <2>3. BodyAt(b, tag, u.type, d) = ReadLength(b, Len(p) + 1)
    BY <1>2, <1>5 DEF BodyAt
  <2> QED  BY <2>2, <2>3 DEF BytesAt, ReadTo
<1>6. CASE u.type = 5
  <2>1. Len(c) = 4
    BY <1>6 DEF PartIsBytes
  <2>2. BodyAt(b, tag, u.type, d) = [ok |-> TRUE, next |-> tag.next + 4]
    BY <1>6 DEF BodyAt
  <2>3. tag.next + 4 = Len(p \o c) + 1
    BY <1>1, <1>2, <2>1
  <2> QED  BY <2>2, <2>3 DEF ReadTo
<1>7. CASE u.type \in {3, 4}
  <2>1. Len(c) = 0
    BY <1>7 DEF PartIsBytes
  <2>2. BodyAt(b, tag, u.type, d) = tag
    BY <1>7 DEF BodyAt
  <2> QED  BY <1>1, <1>2, <2>1, <2>2 DEF ReadTo
<1> QED  BY <1>3, <1>4, <1>5, <1>6, <1>7

SkipState(i, d) == [ok |-> TRUE, at |-> i, depth |-> d, done |-> d = 0]
SkipRound(b, s, tag, body) ==
    IF ~tag.ok \/ ~body.ok \/ body.next > Len(b) + 1 THEN Fail
    ELSE SkipState(body.next, NextDepth(tag.word % 8, s.depth))

LEMMA RoundSkips ==
    ASSUME NEW b, NEW s, NEW tag, tag = ReadVarint(b, s.at)
    PROVE  SkipPart(b, s) = SkipRound(b, s, tag, BodyAt(b, tag, tag.word % 8, s.depth))
BY Zenon DEF SkipPart, SkipTo, SkipRound, SkipState

SkipAt(s, i, d) == s.ok = TRUE /\ s.at = i /\ s.depth = d
PassedTo(s, i, d) == SkipAt(s, i, d) /\ (Skipped(s) <=> d = 0)

LEMMA PartIsSkipped ==
    ASSUME NEW u, IsPart(u), NEW d \in Nat, NEW e \in Nat, e = Opened(u.type) + d,
           NEW a \in Seq(Octets), NEW r \in Seq(Octets), NEW b, b = (a \o PartBytes(u)) \o r,
           NEW s, SkipAt(s, Len(a) + 1, d)
    PROVE  PassedTo(SkipPart(b, s), Len(a \o PartBytes(u)) + 1, e)
<1>1. PICK w, c : PartIsBytes(u, w, c)
  BY PartHasBytes
<1>2. u.type \in 0 .. 5 /\ (u.type = 4 => d > 0)
  BY DEF IsPart, Opened
<1>3. /\ w \in Nat /\ w < TwoTo[WordBits] /\ w % 8 = u.type /\ c \in Seq(Octets)
      /\ PartBytes(u) = Varint[w] \o c
  BY <1>1 DEF PartIsBytes
<1>4. PICK v \in Seq(Octets) : v = Varint[w]
  BY <1>3, VarintFits DEF VarintShape
<1>5. PICK p \in Seq(Octets) : p = a \o v
  <2>1. Joins(Octets, a, v, a \o v)
    BY AppendedPart
  <2> QED  BY <2>1, Zenon DEF Joins
<1>6. a \o PartBytes(u) = p \o c /\ p \o c \in Seq(Octets)
  <2>1. AreJoined(a, v, c)
    BY <1>3, Joining
  <2>2. AreJoined(p, c, c)
    BY <1>3, Joining
  <2> QED  BY <1>3, <1>4, <1>5, <2>1, <2>2, Zenon DEF AreJoined
<1>7. b = (p \o c) \o r
  BY <1>6
<1>8. PICK tag : tag = ReadVarint(b, Len(a) + 1)
  OBVIOUS
<1>9. tag.ok = TRUE /\ tag.next = Len(p) + 1 /\ tag.word = w
  <2>1. PICK z \in Seq(Octets) : z = c \o r
    <3>1. Joins(Octets, c, r, c \o r)
      BY <1>3, AppendedPart
    <3> QED  BY <3>1, Zenon DEF Joins
  <2>2. b = p \o z
    <3>1. AreJoined(p, c, r)
      BY <1>3, Joining
    <3> QED  BY <1>7, <2>1, <3>1 DEF AreJoined
  <2>3. ReadVarint((a \o Varint[w]) \o z, Len(a) + 1)
            = [ok |-> TRUE, next |-> Len(a \o Varint[w]) + 1, word |-> w]
    BY <1>3, WordIsRead, WidthsAre
  <2> QED  BY <1>4, <1>5, <1>8, <2>2, <2>3
<1>10. PICK body : body = BodyAt(b, tag, u.type, d)
  OBVIOUS
<1>11. body.ok = TRUE /\ body.next = Len(p \o c) + 1
  <2>1. ReadTo(tag, Len(p) + 1)
    BY <1>9 DEF ReadTo
  <2>2. ReadTo(body, Len(p \o c) + 1)
    BY <1>1, <1>2, <1>7, <1>10, <2>1, BodyIsRead
  <2> QED  BY <2>2 DEF ReadTo
<1>12. body.next <= Len(b) + 1 /\ body.next \in Nat /\ Len(b) \in Nat
  <2>1. PICK y \in Seq(Octets) : y = p \o c
    BY <1>6
  <2>2. Joins(Octets, y, r, y \o r)
    BY AppendedPart
  <2> QED  BY <1>7, <1>11, <2>1, <2>2 DEF Joins
<1>13. s.ok = TRUE /\ s.at = Len(a) + 1 /\ s.depth = d
  BY DEF SkipAt
<1>14. PICK x : x = SkipPart(b, s)
  OBVIOUS
<1>15. x = SkipRound(b, s, tag, body)
  BY <1>3, <1>8, <1>9, <1>10, <1>13, <1>14, RoundSkips
<1>16. NextDepth(tag.word % 8, s.depth) = e
  BY <1>3, <1>9, <1>13, SMTT(60) DEF Opened, NextDepth
<1>17. x = SkipState(body.next, e)
  <2>1. ~(~tag.ok \/ ~body.ok \/ body.next > Len(b) + 1)
    BY <1>9, <1>11, <1>12
  <2> QED  BY <1>15, <1>16, <2>1, Zenon DEF SkipRound
<1>18. x.ok = TRUE /\ x.at = body.next /\ x.depth = e /\ x.done = (e = 0)
  BY <1>17, Zenon DEF SkipState
<1> QED  BY <1>6, <1>11, <1>14, <1>18, Zenon DEF PassedTo, SkipAt, Skipped

\* The rounds of skipApiSki on b from i on.
SkipBody(F, b, i, n) ==
    [k \in 0 .. n |->
        IF k = 0 THEN [ok |-> TRUE, at |-> i, depth |-> 0, done |-> FALSE]
        ELSE IF Skipped(F[k - 1]) THEN F[k - 1] ELSE SkipPart(b, F[k - 1])]
IsSkip(F, b, i) == F = SkipBody(F, b, i, Len(b) + 1)
SkipEnded(F, b) ==
    LET end == F[CHOOSE k \in 0 .. Len(b) + 1 : Skipped(F[k])]
    IN IF end.ok THEN [ok |-> TRUE, next |-> end.at] ELSE Fail

LEMMA SkipExists ==
    ASSUME NEW b, NEW i, NEW n \in Nat
    PROVE  \E F : F = SkipBody(F, b, i, n)
<1> DEFINE T == {h \in Nat : ~ \E F : F = SkipBody(F, b, i, h)}
<1>1. PICK s0 : s0 = [ok |-> TRUE, at |-> i, depth |-> 0, done |-> FALSE]
  OBVIOUS
<1>2. \A F, h : SkipBody(F, b, i, h) =
          [k \in 0 .. h |-> IF k = 0 THEN s0
                            ELSE IF Skipped(F[k - 1]) THEN F[k - 1] ELSE SkipPart(b, F[k - 1])]
  BY <1>1, Zenon DEF SkipBody
<1>3. T = {}
  <2> SUFFICES ASSUME T # {} PROVE FALSE
    OBVIOUS
  <2>1. PICK h \in T : \A k \in T : h <= k
    <3>1. T \in SUBSET Nat
      OBVIOUS
    <3> HIDE DEF T
    <3> QED  BY <3>1, LeastNumber
  <2>2. h \in Nat /\ ~ \E F : F = SkipBody(F, b, i, h)
    OBVIOUS
  <2>3. h # 0
    <3> DEFINE F0 == [k \in 0 .. 0 |-> s0]
    <3>1. F0 = SkipBody(F0, b, i, 0)
      BY <1>2
    <3> HIDE DEF F0
    <3> QED  BY <2>2, <3>1
  <2>4. PICK F : F = SkipBody(F, b, i, h - 1)
    <3>1. h - 1 \in Nat /\ ~(h <= h - 1)
      BY <2>2, <2>3
    <3> QED  BY <2>1, <3>1
  <2> DEFINE G == [k \in 0 .. h |-> IF k = 0 THEN s0
                                    ELSE IF Skipped(F[k - 1]) THEN F[k - 1] ELSE SkipPart(b, F[k - 1])]
  <2>5. \A k \in 0 .. h - 1 : F[k] = G[k]
    <3>1. \A k \in 0 .. h - 1 : F[k] = IF k = 0 THEN s0
                                       ELSE IF Skipped(F[k - 1]) THEN F[k - 1] ELSE SkipPart(b, F[k - 1])
      BY <1>2, <2>4
    <3> QED  BY <2>2, <3>1
  <2>6. G = SkipBody(G, b, i, h)
    <3>1. \A k \in 0 .. h : k # 0 => F[k - 1] = G[k - 1]
      <4> HIDE DEF G
      <4> QED  BY <2>2, <2>5
    <3>2. SkipBody(G, b, i, h) =
              [k \in 0 .. h |-> IF k = 0 THEN s0
                                ELSE IF Skipped(G[k - 1]) THEN G[k - 1] ELSE SkipPart(b, G[k - 1])]
      <4> HIDE DEF G
      <4> QED  BY <1>2
    <3>3. \A k \in 0 .. h :
              (IF k = 0 THEN s0 ELSE IF Skipped(F[k - 1]) THEN F[k - 1] ELSE SkipPart(b, F[k - 1]))
              = (IF k = 0 THEN s0 ELSE IF Skipped(G[k - 1]) THEN G[k - 1] ELSE SkipPart(b, G[k - 1]))
      <4> HIDE DEF G
      <4> QED  BY <3>1
    <3> QED  BY <3>2, <3>3, Zenon
  <2> QED  BY <2>2, <2>6
<1> QED  BY <1>3

LEMMA SkipIs ==
    ASSUME NEW b \in Seq(Octets), NEW i
    PROVE  \E F : IsSkip(F, b, i) /\ Skip(b, i) = SkipEnded(F, b)
<1> DEFINE B(F) == [k \in 0 .. Len(b) + 1 |->
               IF k = 0 THEN [ok |-> TRUE, at |-> i, depth |-> 0, done |-> FALSE]
               ELSE LET s == F[k - 1] IN IF Skipped(s) THEN s ELSE SkipPart(b, s)]
<1>1. \A F : B(F) = SkipBody(F, b, i, Len(b) + 1)
  BY Zenon DEF SkipBody
<1>2. PICK F : F = CHOOSE G : G = B(G)
  OBVIOUS
<1>3. Skip(b, i) = SkipEnded(F, b)
  BY <1>2, Zenon DEF Skip, SkipEnded
<1>4. F = B(F)
  <2> HIDE DEF B
  <2>1. Len(b) + 1 \in Nat
    OBVIOUS
  <2>2. PICK H : H = SkipBody(H, b, i, Len(b) + 1)
    BY <2>1, SkipExists
  <2>3. H = B(H)
    BY <1>1, <2>2
  <2> QED  BY <1>2, <2>3
<1>5. IsSkip(F, b, i)
  BY <1>1, <1>4, Zenon DEF IsSkip
<1> QED  BY <1>3, <1>5

LEMMA SkipRounds ==
    ASSUME NEW F, NEW b \in Seq(Octets), NEW i, IsSkip(F, b, i)
    PROVE  /\ SkipAt(F[0], i, 0) /\ ~Skipped(F[0])
           /\ \A k \in 1 .. Len(b) + 1 :
                 F[k] = IF Skipped(F[k - 1]) THEN F[k - 1] ELSE SkipPart(b, F[k - 1])
<1>1. PICK s0 : s0 = [ok |-> TRUE, at |-> i, depth |-> 0, done |-> FALSE]
  OBVIOUS
<1>2. Len(b) + 1 \in Nat
  OBVIOUS
<1>3. F = [k \in 0 .. Len(b) + 1 |-> IF k = 0 THEN s0
               ELSE IF Skipped(F[k - 1]) THEN F[k - 1] ELSE SkipPart(b, F[k - 1])]
  BY <1>1, Zenon DEF SkipBody, IsSkip
<1>4. F[0] = s0
  BY <1>2, <1>3
<1>5. SkipAt(s0, i, 0) /\ ~Skipped(s0)
  BY <1>1, Zenon DEF SkipAt, Skipped
<1>6. \A k \in 1 .. Len(b) + 1 :
          F[k] = IF Skipped(F[k - 1]) THEN F[k - 1] ELSE SkipPart(b, F[k - 1])
  BY <1>2, <1>3
<1> QED  BY <1>4, <1>5, <1>6

LEMMA SkipStays ==
    ASSUME NEW F, NEW b \in Seq(Octets), NEW i, IsSkip(F, b, i),
           NEW k \in 0 .. Len(b) + 1, Skipped(F[k]), NEW h \in k .. Len(b) + 1
    PROVE  F[h] = F[k]
<1> DEFINE T == {j \in k .. Len(b) + 1 : F[j] # F[k]}
<1>1. T = {}
  <2> SUFFICES ASSUME T # {} PROVE FALSE
    OBVIOUS
  <2>1. PICK j \in T : \A g \in T : j <= g
    <3>1. T \in SUBSET Nat
      OBVIOUS
    <3> HIDE DEF T
    <3> QED  BY <3>1, LeastNumber
  <2>2. j \in k .. Len(b) + 1 /\ F[j] # F[k] /\ k \in Nat /\ Len(b) \in Nat
    OBVIOUS
  <2>3. j - 1 \in k .. Len(b) + 1 /\ ~(j <= j - 1) /\ j \in 1 .. Len(b) + 1
    BY <2>2
  <2>4. F[j - 1] = F[k]
    BY <2>1, <2>3
  <2>5. F[j] = IF Skipped(F[j - 1]) THEN F[j - 1] ELSE SkipPart(b, F[j - 1])
    BY <2>3, SkipRounds
  <2> QED  BY <2>2, <2>4, <2>5
<1> QED  BY <1>1

SkipsTo(r, j) == r = [ok |-> TRUE, next |-> j]
LEMMA SkipEnds ==
    ASSUME NEW F, NEW b \in Seq(Octets), NEW i, IsSkip(F, b, i),
           NEW k \in 0 .. Len(b) + 1, Skipped(F[k]), NEW j, NEW d, SkipAt(F[k], j, d)
    PROVE  SkipsTo(SkipEnded(F, b), j)
<1>1. PICK h : h = CHOOSE g \in 0 .. Len(b) + 1 : Skipped(F[g])
  OBVIOUS
<1>2. h \in 0 .. Len(b) + 1 /\ Skipped(F[h])
  BY <1>1
<1>3. Len(b) \in Nat
  OBVIOUS
<1>4. h \in k .. Len(b) + 1 \/ k \in h .. Len(b) + 1
  BY <1>2, <1>3
<1>5. F[h] = F[k]
  BY <1>2, <1>4, SkipStays
<1>6. SkipEnded(F, b) = IF F[h].ok THEN [ok |-> TRUE, next |-> F[h].at] ELSE Fail
  BY <1>1, Zenon DEF SkipEnded
<1>7. F[k].ok = TRUE /\ F[k].at = j
  BY DEF SkipAt
<1> QED  BY <1>5, <1>6, <1>7, Zenon DEF SkipsTo

\* The groups that are open behind part k of a field.
DepthAt(f, k) == IF k = 0 THEN 0 ELSE f[k].depth
PartsAre(f, n, els) ==
    /\ n = Len(f) /\ n \in Nat /\ n >= 1
    /\ els \in [1 .. n -> Seq(Octets)] /\ \A k \in 1 .. n : Len(els[k]) >= 1
    /\ FieldBytes(f) = FlattenSeq(els)
    /\ \A k \in 1 .. n : /\ IsPart(f[k]) /\ els[k] = PartBytes(f[k])
                         /\ DepthAt(f, k) = Opened(f[k].type) + DepthAt(f, k - 1)
    /\ \A k \in 0 .. n : DepthAt(f, k) \in Nat /\ (k # 0 => (DepthAt(f, k) = 0 <=> k = n))

LEMMA PartOctets ==
    ASSUME NEW u, IsPart(u)
    PROVE  PartBytes(u) \in Seq(Octets) /\ Len(PartBytes(u)) >= 1
<1>1. PICK w, c : PartIsBytes(u, w, c)
  BY PartHasBytes
<1>2. w \in Nat /\ c \in Seq(Octets) /\ PartBytes(u) = Varint[w] \o c
  BY <1>1 DEF PartIsBytes
<1>3. PICK v \in Seq(Octets) : v = Varint[w] /\ Len(v) >= 1
  BY <1>2, VarintFits DEF VarintShape
<1>4. Joins(Octets, v, c, v \o c)
  BY <1>2, AppendedPart
<1> QED  BY <1>2, <1>3, <1>4 DEF Joins

LEMMA FieldParts ==
    ASSUME NEW f, IsField(f)
    PROVE  \E n, els : PartsAre(f, n, els)
<1>1. PICK n : n = Len(f)
  OBVIOUS
<1>2. n \in Nat /\ n >= 1
  BY <1>1, Zenon DEF IsField, IsList
<1>3. \A k \in 1 .. n :
          /\ IsPart(f[k])
          /\ f[k].depth = Opened(f[k].type) + (IF k = 1 THEN 0 ELSE f[k - 1].depth)
          /\ IF k = n THEN f[k].depth = 0 ELSE f[k].depth \in Nat \ {0}
  BY <1>1 DEF IsField
<1>4. PICK els : els = [k \in 1 .. n |-> PartBytes(f[k])]
  OBVIOUS
<1>5. els \in [1 .. n -> Seq(Octets)] /\ \A k \in 1 .. n : Len(els[k]) >= 1
  BY <1>3, <1>4, PartOctets
<1>6. FieldBytes(f) = FlattenSeq(els)
  BY <1>1, <1>4 DEF FieldBytes
<1>7. \A k \in 1 .. n : IsPart(f[k]) /\ els[k] = PartBytes(f[k])
  BY <1>3, <1>4
<1>8. \A k \in 1 .. n : DepthAt(f, k) = Opened(f[k].type) + DepthAt(f, k - 1)
  BY <1>2, <1>3 DEF DepthAt
<1>9. \A k \in 0 .. n : DepthAt(f, k) \in Nat /\ (k # 0 => (DepthAt(f, k) = 0 <=> k = n))
  BY <1>2, <1>3 DEF DepthAt
<1>10. PartsAre(f, n, els)
  BY <1>1, <1>2, <1>5, <1>6, <1>7, <1>8, <1>9, Zenon DEF PartsAre
<1> QED  BY <1>10

SkipReached(F, b, p, els, f, n, k) ==
    /\ SkipAt(F[k], Len(p \o UpTo(els, k)) + 1, DepthAt(f, k)) /\ (Skipped(F[k]) <=> k = n)
    /\ k < Len(p \o UpTo(els, k)) + 1 /\ Len(p \o UpTo(els, k)) \in Nat
    /\ Len(p \o UpTo(els, k)) <= Len(b)

\* Its parts are passed one after the other.
LEMMA PartsAreSkipped ==
    ASSUME NEW f, NEW n, NEW els, PartsAre(f, n, els), NEW p \in Seq(Octets), NEW q \in Seq(Octets),
           NEW b \in Seq(Octets), b = (p \o FlattenSeq(els)) \o q,
           NEW F, IsSkip(F, b, Len(p) + 1), NEW k \in 0 .. n
    PROVE  SkipReached(F, b, p, els, f, n, k)
<1> DEFINE T == {j \in 0 .. n : ~SkipReached(F, b, p, els, f, n, j)}
<1>1. /\ n \in Nat /\ n >= 1 /\ els \in [1 .. n -> Seq(Octets)]
      /\ \A j \in 1 .. n : Len(els[j]) >= 1
  BY DEF PartsAre
<1>2. \A j \in 1 .. n : /\ IsPart(f[j]) /\ els[j] = PartBytes(f[j])
                        /\ DepthAt(f, j) = Opened(f[j].type) + DepthAt(f, j - 1)
  BY DEF PartsAre
<1>3. \A j \in 0 .. n : DepthAt(f, j) \in Nat /\ (j # 0 => (DepthAt(f, j) = 0 <=> j = n))
  BY DEF PartsAre
<1>4. Len(p) \in Nat /\ Len(b) \in Nat /\ Len(p) <= Len(b)
  <2>1. FlattenSeq(els) \in Seq(Octets)
    BY <1>1, FlattenElements
  <2>2. IsWritten(b, p, FlattenSeq(els), q)
    BY <2>1, Written
  <2>3. Len(b) = Len(p) + Len(FlattenSeq(els)) + Len(q) /\ Len(FlattenSeq(els)) \in Nat /\ Len(q) \in Nat
    BY <2>1, <2>2 DEF IsWritten
  <2> QED  BY <2>3
<1>5. T = {}
  <2> SUFFICES ASSUME T # {} PROVE FALSE
    OBVIOUS
  <2>1. PICK i \in T : \A g \in T : i <= g
    <3>1. T \in SUBSET Nat
      BY <1>1
    <3> HIDE DEF T
    <3> QED  BY <3>1, LeastNumber
  <2>2. i \in 0 .. n /\ ~SkipReached(F, b, p, els, f, n, i)
    OBVIOUS
  <2> HIDE DEF T
  <2>3. i # 0
    <3>1. UpToIs(Octets, els, 0)
      <4>1. 0 \in 0 .. n
        BY <1>1
      <4> QED  BY <1>1, <4>1, UpToGrows
    <3>2. p \o UpTo(els, 0) = p
      BY <3>1 DEF UpToIs
    <3>3. SkipAt(F[0], Len(p) + 1, 0) /\ ~Skipped(F[0])
      BY SkipRounds
    <3>4. DepthAt(f, 0) = 0 /\ 0 # n
      BY <1>1 DEF DepthAt
    <3>5. SkipReached(F, b, p, els, f, n, 0)
      BY <1>4, <3>2, <3>3, <3>4 DEF SkipReached
    <3> QED  BY <2>2, <3>5
  <2>4. i \in 1 .. n /\ i - 1 \in 0 .. n /\ ~(i <= i - 1) /\ i - 1 # n
    BY <1>1, <2>2, <2>3
  <2>5. SkipReached(F, b, p, els, f, n, i - 1)
    BY <2>1, <2>4 DEF T
  <2>6. PICK r : PlaceIs(b, p, els, i, r)
    BY <1>1, <2>4, Places
  <2>7. PICK a : a = p \o UpTo(els, i - 1)
    OBVIOUS
  <2>8. a \in Seq(Octets) /\ r \in Seq(Octets) /\ b = (a \o els[i]) \o r /\ a \o els[i] = p \o UpTo(els, i)
    BY <2>6, <2>7 DEF PlaceIs
  <2>9. Len(a) \in Nat /\ Len(els[i]) \in Nat /\ Len(p \o UpTo(els, i)) = Len(a) + Len(els[i])
        /\ Len(p \o UpTo(els, i)) <= Len(b) /\ Len(els[i]) >= 1
    BY <1>1, <2>4, <2>6, <2>7 DEF PlaceIs
  <2>10. SkipAt(F[i - 1], Len(a) + 1, DepthAt(f, i - 1)) /\ ~Skipped(F[i - 1]) /\ i - 1 < Len(a) + 1
    BY <2>4, <2>5, <2>7 DEF SkipReached
  <2>11. F[i] = SkipPart(b, F[i - 1])
    <3>1. i \in 1 .. Len(b) + 1
      BY <1>1, <1>4, <2>4, <2>9, <2>10
    <3> QED  BY <2>10, <3>1, SkipRounds
  <2>12. PassedTo(F[i], Len(p \o UpTo(els, i)) + 1, DepthAt(f, i))
    <3>1. PICK d \in Nat : d = DepthAt(f, i - 1)
      BY <1>3, <2>4
    <3>2. PICK e \in Nat : e = DepthAt(f, i)
      BY <1>3, <2>2
    <3>3. e = Opened(f[i].type) + d /\ IsPart(f[i]) /\ els[i] = PartBytes(f[i])
      BY <1>2, <2>4, <3>1, <3>2
    <3>4. PassedTo(SkipPart(b, F[i - 1]), Len(a \o PartBytes(f[i])) + 1, e)
      BY <2>8, <2>10, <3>1, <3>3, PartIsSkipped
    <3> QED  BY <2>8, <2>11, <3>2, <3>3, <3>4
  <2>13. SkipAt(F[i], Len(p \o UpTo(els, i)) + 1, DepthAt(f, i)) /\ (Skipped(F[i]) <=> i = n)
    BY <1>3, <2>2, <2>3, <2>12 DEF PassedTo
  <2>14. i < Len(p \o UpTo(els, i)) + 1 /\ Len(p \o UpTo(els, i)) \in Nat
    BY <2>4, <2>9, <2>10, SMTT(60)
  <2> QED  BY <2>2, <2>9, <2>13, <2>14 DEF SkipReached
<1> QED  BY <1>5

LEMMA FieldIsSkipped ==
    ASSUME NEW f, IsField(f), NEW p \in Seq(Octets), NEW q \in Seq(Octets),
           NEW b \in Seq(Octets), b = (p \o FieldBytes(f)) \o q
    PROVE  SkipsTo(Skip(b, Len(p) + 1), Len(p \o FieldBytes(f)) + 1)
<1>1. PICK n, els : PartsAre(f, n, els)
  BY FieldParts
<1>2. n \in Nat /\ els \in [1 .. n -> Seq(Octets)] /\ FieldBytes(f) = FlattenSeq(els) /\ n \in 0 .. n
  BY <1>1 DEF PartsAre
<1>3. PICK F : IsSkip(F, b, Len(p) + 1) /\ Skip(b, Len(p) + 1) = SkipEnded(F, b)
  BY SkipIs
<1>4. SkipReached(F, b, p, els, f, n, n)
  BY <1>1, <1>2, <1>3, PartsAreSkipped
<1>5. UpTo(els, n) = FieldBytes(f)
  BY <1>2, FlattenElements
<1>6. PICK j : j = Len(p \o FieldBytes(f)) + 1
  OBVIOUS
<1>7. SkipAt(F[n], j, DepthAt(f, n)) /\ Skipped(F[n]) /\ n \in 0 .. Len(b) + 1
  BY <1>2, <1>4, <1>5, <1>6 DEF SkipReached
<1>8. SkipsTo(SkipEnded(F, b), j)
  BY <1>3, <1>7, SkipEnds
<1> QED  BY <1>3, <1>6, <1>8

TagAt(tag, w) == tag.ok = TRUE /\ tag.word = w
LEMMA TagOfPart ==
    ASSUME NEW u, NEW w, NEW c, PartIsBytes(u, w, c), NEW a \in Seq(Octets), NEW r \in Seq(Octets),
           NEW b, b = (a \o PartBytes(u)) \o r
    PROVE  TagAt(ReadVarint(b, Len(a) + 1), w)
<1>1. w \in Nat /\ w < TwoTo[WordBits] /\ c \in Seq(Octets) /\ PartBytes(u) = Varint[w] \o c
  BY DEF PartIsBytes
<1>2. PICK v \in Seq(Octets) : v = Varint[w]
  BY <1>1, VarintFits DEF VarintShape
<1>3. PICK z \in Seq(Octets) : z = c \o r
  <2>1. Joins(Octets, c, r, c \o r)
    BY <1>1, AppendedPart
  <2> QED  BY <2>1, Zenon DEF Joins
<1>4. b = (a \o v) \o z
  <2>1. AreJoined(a, v, c)
    BY <1>1, Joining
  <2>2. PICK p \in Seq(Octets) : p = a \o v
    BY <2>1, Zenon DEF AreJoined
  <2>3. AreJoined(p, c, r)
    BY <1>1, Joining
  <2>4. b = (p \o c) \o r
    BY <1>1, <1>2, <2>1, <2>2, Zenon DEF AreJoined
  <2> QED  BY <1>3, <2>2, <2>3, <2>4, Zenon DEF AreJoined
<1>5. ReadVarint((a \o Varint[w]) \o z, Len(a) + 1)
          = [ok |-> TRUE, next |-> Len(a \o Varint[w]) + 1, word |-> w]
  BY <1>1, WordIsRead, WidthsAre
<1> QED  BY <1>2, <1>4, <1>5 DEF TagAt

IsUnknown(t, f) == f[1].number \notin {row.number : row \in Unmarshals[t]}
PassesAt(x, j) == x = [ok |-> TRUE, known |-> FALSE, next |-> j]

LEMMA SmallNumber ==
    ASSUME NEW n \in Nat, n < TwoTo[HalfBits - 1]
    PROVE  Signed(n % TwoTo[HalfBits], HalfBits) = n
<1>1. PICK h \in Nat : h = TwoTo[HalfBits - 1] /\ TwoTo[HalfBits] = 2 * h
  BY WidthsAre
<1>2. n % TwoTo[HalfBits] = n
  BY <1>1
<1> QED  BY <1>1, <1>2 DEF Signed

\* A field whose number the message does not have is passed.
LEMMA UnknownIsPassed ==
    ASSUME NEW t \in Types, NEW f, IsField(f), IsUnknown(t, f),
           NEW p \in Seq(Octets), NEW q \in Seq(Octets),
           NEW b \in Seq(Octets), b = (p \o FieldBytes(f)) \o q
    PROVE  PassesAt(FieldAt(t, b, Len(p) + 1), Len(p \o FieldBytes(f)) + 1)
<1>1. PICK n, els : PartsAre(f, n, els)
  BY FieldParts
<1>2. n \in Nat /\ n >= 1 /\ els \in [1 .. n -> Seq(Octets)] /\ FieldBytes(f) = FlattenSeq(els)
  BY <1>1 DEF PartsAre
<1>3. PICK i : i = 1
  OBVIOUS
<1>4. i \in 1 .. n /\ i - 1 = 0
  BY <1>2, <1>3
<1>5. IsPart(f[i]) /\ els[i] = PartBytes(f[i]) /\ DepthAt(f, i) \in Nat
      /\ DepthAt(f, i) = Opened(f[i].type) + DepthAt(f, i - 1)
  BY <1>1, <1>4 DEF PartsAre
<1>6. f[i].type # 4
  BY <1>4, <1>5 DEF DepthAt, Opened
<1>7. PICK w, c : PartIsBytes(f[i], w, c)
  BY <1>5, PartHasBytes
<1>8. PICK r : PlaceIs(b, p, els, i, r)
  BY <1>2, <1>4, Places
<1>9. b = (p \o PartBytes(f[i])) \o r /\ r \in Seq(Octets)
  <2>1. UpToIs(Octets, els, 0)
    <3>1. 0 \in 0 .. n
      BY <1>2
    <3> QED  BY <1>2, <3>1, UpToGrows
  <2>2. p \o UpTo(els, i - 1) = p
    BY <1>4, <2>1 DEF UpToIs
  <2> QED  BY <1>5, <1>8, <2>2 DEF PlaceIs
<1>10. PICK tag : tag = ReadVarint(b, Len(p) + 1)
  OBVIOUS
<1>11. tag.ok = TRUE /\ tag.word = w
  <2>1. TagAt(tag, w)
    BY <1>7, <1>9, <1>10, TagOfPart
  <2> QED  BY <2>1 DEF TagAt
<1>12. PICK number : number = f[i].number
  OBVIOUS
<1>13. number \in Nat /\ number > 0 /\ number < TwoTo[HalfBits - 1]
  <2>1. f[1].number < TwoTo[HalfBits - 1]
    BY Zenon DEF IsField
  <2> QED  BY <1>3, <1>5, <1>12, <2>1, SMTT(60) DEF IsPart
<1>14. w % 8 # 4 /\ w \div 8 = number
  <2>1. w = 8 * number + f[i].type /\ f[i].type \in 0 .. 5
    BY <1>5, <1>7, <1>12 DEF PartIsBytes, IsPart
  <2>2. PICK k \in 0 .. 5 : k = f[i].type /\ k # 4
    BY <1>6, <2>1
  <2>3. w = 8 * number + k /\ number >= 1
    BY <1>13, <2>1, <2>2
  <2>4. w % 8 = k /\ w \div 8 = number
    BY <1>13, <2>3, Eights
  <2> QED  BY <2>2, <2>4
<1>15. Signed((tag.word \div 8) % TwoTo[HalfBits], HalfBits) = number
  BY <1>11, <1>13, <1>14, SmallNumber
<1>16. {row \in Unmarshals[t] : row.number = number} = {}
  BY <1>3, <1>12 DEF IsUnknown
<1>17. SkipsTo(Skip(b, Len(p) + 1), Len(p \o FieldBytes(f)) + 1)
  BY FieldIsSkipped
<1>18. PICK skip : skip = Skip(b, Len(p) + 1)
  OBVIOUS
<1>19. skip.ok = TRUE /\ skip.next = Len(p \o FieldBytes(f)) + 1
  BY <1>17, <1>18 DEF SkipsTo
<1>20. tag.word % 8 # 4 /\ ~(number <= 0)
  BY <1>11, <1>13, <1>14
<1>21. FieldAt(t, b, Len(p) + 1) = [ok |-> TRUE, known |-> FALSE, next |-> skip.next]
  BY <1>10, <1>11, <1>15, <1>16, <1>18, <1>19, <1>20, Zenon DEF FieldAt, FieldWith, NumberOf, PassedOver
<1> QED  BY <1>19, <1>21, Zenon DEF PassesAt

LEMMA FieldsAreRows ==
    ASSUME NEW t, NEW m
    PROVE  Fields(t, m) = RowsOf(5, t, m)
<1>1. PICK l : l = 5
  OBVIOUS
<1>2. \A s, x : MarshalAt(l - 1, s, x) = Marshal4(s, x)
  BY <1>1 DEF MarshalAt
<1>3. \A k \in DOMAIN Marshals[t] :
          EncodedAt(l, t, m)[k] = [j \in DOMAIN m[Marshals[t][k].name] |->
                                      Marshal4(Marshals[t][k].kind, m[Marshals[t][k].name][j])]
  <2>1. EncodedAt(l, t, m) = [k \in DOMAIN Marshals[t] |->
                                 [j \in DOMAIN m[Marshals[t][k].name] |->
                                     Marshal4(Marshals[t][k].kind, m[Marshals[t][k].name][j])]]
    BY <1>2, Zenon DEF EncodedAt
  <2> QED  BY <2>1
<1>4. RowsOf(l, t, m) =
          [k \in DOMAIN Marshals[t] |->
              MarshalRow(Marshals[t][k], m[Marshals[t][k].name],
                         [j \in DOMAIN m[Marshals[t][k].name] |->
                             Marshal4(Marshals[t][k].kind, m[Marshals[t][k].name][j])])]
  BY <1>3, Zenon DEF RowsOf, NameOf
<1>5. Fields(t, m) = RowsOf(l, t, m)
  BY <1>4, Zenon DEF Fields, FieldsWith
<1> QED  BY <1>1, <1>5

\* The encoding of m with field f behind c of its rows.
WithField(t, m, c, f) ==
    FlattenSeq(SubSeq(Fields(t, m), 1, c)) \o FieldBytes(f)
        \o FlattenSeq(SubSeq(Fields(t, m), c + 1, Len(Fields(t, m))))

LEMMA FieldOctets ==
    ASSUME NEW f, IsField(f)
    PROVE  FieldBytes(f) \in Seq(Octets) /\ Len(FieldBytes(f)) >= 1
<1>1. PICK n, els : PartsAre(f, n, els)
  BY FieldParts
<1>2. n \in Nat /\ n >= 1 /\ els \in [1 .. n -> Seq(Octets)] /\ FieldBytes(f) = FlattenSeq(els)
      /\ \A k \in 1 .. n : Len(els[k]) >= 1
  BY <1>1 DEF PartsAre
<1>3. FieldBytes(f) \in Seq(Octets) /\ FieldBytes(f) = UpTo(els, n)
  BY <1>2, FlattenElements
<1>4. PICK i : i = n
  OBVIOUS
<1>5. i \in 0 .. n /\ i - 1 \in 0 .. n /\ i # 0 /\ i \in 1 .. n
  BY <1>2, <1>4
<1>6. UpToIs(Octets, els, i) /\ UpToIs(Octets, els, i - 1)
  BY <1>2, <1>5, UpToGrows
<1>7. PICK a \in Seq(Octets) : a = UpTo(els, i - 1)
  BY <1>6 DEF UpToIs
<1>8. PICK e \in Seq(Octets) : e = els[i] /\ Len(e) >= 1
  BY <1>2, <1>5
<1>9. Joins(Octets, a, e, a \o e)
  BY AppendedPart
<1>10. FieldBytes(f) = a \o e
  BY <1>3, <1>4, <1>5, <1>6, <1>7, <1>8 DEF UpToIs
<1>11. Len(a \o e) = Len(a) + Len(e) /\ Len(a) \in Nat /\ Len(e) \in Nat
  BY <1>9 DEF Joins
<1> QED  BY <1>3, <1>8, <1>10, <1>11

\* Where unknown fields are inserted between those of a message, Unmarshal
\* reads the message that was written.
THEOREM UnknownFieldsPassed ==
    ASSUME NEW t, NEW m, IsMessage(t, m), NEW c \in 0 .. Len(Fields(t, m)),
           NEW f, IsField(f), IsUnknown(t, f)
    PROVE  WithField(t, m, c, f) \in Seq(Octets) /\ ReadsTo(t, WithField(t, m, c, f), m)
<1>1. PICK l \in 1 .. 5 : l = 5 /\ l \in 0 .. 5
  OBVIOUS
<1>2. MessageAt(l, t, m)
  BY <1>1, TopLevel
<1>3. IsTyped(l, t, m) /\ FitsInt(Len(MarshalAt(l, t, m)))
  BY <1>1, <1>2, MessageTyped
<1>4. PICK n : RowsAre(l, t, m, n)
  BY <1>3, RowsOfMessage
<1>5. t \in Types
  BY <1>3 DEF IsTyped
<1>6. Fields(t, m) = RowsOf(l, t, m) /\ Len(Fields(t, m)) = n /\ n \in Nat
  <2>1. Fields(t, m) = RowsOf(l, t, m)
    BY <1>1, FieldsAreRows
  <2>2. RowsOf(l, t, m) \in [1 .. n -> Seq(Octets)] /\ n \in Nat
    BY <1>4 DEF RowsAre
  <2> QED  BY <2>1, <2>2
<1>7. c \in 0 .. n
  BY <1>6
<1>8. PICK x : x = PartOf(t, m, 1 .. c, 0, 0)
  OBVIOUS
<1>9. PICK y : y = PartOf(t, m, (c + 1) .. n, 0, 0)
  OBVIOUS
<1>10. IsTyped(l, t, x) /\ MarshalAt(l, t, x) = UpTo(RowsOf(l, t, m), c)
  BY <1>3, <1>4, <1>7, <1>8, RowsBefore
<1>11. IsTyped(l, t, y) /\ RowsSplit(l, t, m, n, c, y)
  BY <1>3, <1>4, <1>7, <1>9, RowsAfter
<1>12. PICK p \in Seq(Octets) : p = MarshalAt(l, t, x)
  <2>1. PICK h : RowsAre(l, t, x, h)
    BY <1>10, RowsOfMessage
  <2> QED  BY <2>1 DEF RowsAre
<1>13. PICK e \in Seq(Octets) : e = MarshalAt(l, t, y)
  <2>1. PICK h : RowsAre(l, t, y, h)
    BY <1>11, RowsOfMessage
  <2> QED  BY <2>1 DEF RowsAre
<1>14. MarshalAt(l, t, m) = p \o e
  BY <1>10, <1>11, <1>12, <1>13 DEF RowsSplit
<1>15. MessageAt(l, t, x)
  <2>1. Joins(Octets, p, e, p \o e)
    BY AppendedPart
  <2>2. FitsInt(Len(p))
    <3>1. Len(p) <= Len(p \o e) /\ Len(p) \in Nat /\ Len(p \o e) \in Nat
      BY <2>1 DEF Joins
    <3> QED  BY <1>3, <1>14, <3>1, WidthsAre, SMTT(60) DEF FitsInt
  <2> QED  BY <1>10, <1>12, <2>2, MessageLevel DEF IsTyped
<1>16. PICK g \in Seq(Octets) : g = FieldBytes(f) /\ Len(g) >= 1
  BY FieldOctets
<1>17. PICK a \in Seq(Octets) : a = p \o g /\ Len(a) = Len(p) + Len(g)
  <2>1. Joins(Octets, p, g, p \o g)
    BY AppendedPart
  <2> QED  BY <2>1, Zenon DEF Joins
<1>18. PICK b \in Seq(Octets) : b = a \o e /\ Len(a) <= Len(b)
  <2>1. Joins(Octets, a, e, a \o e)
    BY AppendedPart
  <2> QED  BY <2>1, Zenon DEF Joins
<1>19. WithField(t, m, c, f) = b
  BY <1>6, <1>10, <1>11, <1>12, <1>13, <1>16, <1>17, <1>18 DEF WithField, RowsSplit
<1>20. PICK F : IsLoop(F, l, t, Zero(t), b) /\ UnmarshalAt(l, t, Zero(t), b) = Ended(F, b)
  BY UnmarshalLevel
<1>21. PICK k \in Nat : FirstRead(F, b, p, x, k)
  <2>1. PICK q \in Seq(Octets) : q = g \o e
    <3>1. Joins(Octets, g, e, g \o e)
      BY AppendedPart
    <3> QED  BY <3>1, Zenon DEF Joins
  <2>2. b = p \o q
    <3>1. AreJoined(p, g, e)
      BY Joining
    <3> QED  BY <1>17, <1>18, <2>1, <3>1, Zenon DEF AreJoined
  <2> QED  BY <1>12, <1>15, <1>20, <2>2, FirstIsRead
<1>22. k \in 0 .. Len(b) /\ k < Len(p) + 1 /\ F[k] = State(Len(p) + 1, x)
  BY <1>21 DEF FirstRead
<1>23. PICK i \in Nat : i = Len(p) + 1
  OBVIOUS
<1>24. FieldAt(t, b, i) = [ok |-> TRUE, known |-> FALSE, next |-> Len(a) + 1]
  <2>1. PassesAt(FieldAt(t, b, Len(p) + 1), Len(p \o FieldBytes(f)) + 1)
    BY <1>5, <1>16, <1>17, <1>18, UnknownIsPassed
  <2> QED  BY <1>16, <1>17, <1>23, <2>1, Zenon DEF PassesAt
<1>25. k + 1 \in Nat /\ k < i /\ i <= Len(b) /\ k + 1 < Len(a) + 1 /\ F[k] = State(i, x)
  BY <1>16, <1>17, <1>18, <1>22, <1>23
<1>26. F[k + 1] = State(Len(a) + 1, x)
  BY <1>20, <1>22, <1>24, <1>25, LoopPasses
<1>27. EndsWith(F, b, MergedAt(l, t, x, y))
  BY <1>10, <1>11, <1>13, <1>18, <1>20, <1>25, <1>26, RestIsRead
<1>28. MergedAt(l, t, x, y) = m
  BY <1>3, <1>4, <1>7, <1>8, <1>9, PartsMerge
<1>29. UnmarshalAt(l, t, Zero(t), b) = Unmarshal(t, Zero(t), b)
  BY <1>1, TopLevel, Zenon
<1>30. ReadsTo(t, WithField(t, m, c, f), m)
  BY <1>19, <1>20, <1>27, <1>28, <1>29, Zenon DEF EndsWith, ReadsTo
<1> QED  BY <1>18, <1>19, <1>30, Zenon

-----------------------------------------------------------------------------
(* What is packed and signed is unpacked (SignedPayload).                  *)

TwoByteLengths == {k \in Nat : k < 65536}

\* The length of the SigHeader is read from its two bytes, unless there is a carry
\* from the low byte when the lowest bit of the high byte is set.
LengthOf(low, high) == low + 256 * high
CarryLost(low, high) == low >= 254 /\ high % 2 = 1

LEMMA HeaderEndIs ==
    ASSUME NEW low \in Octets, NEW high \in Octets, NEW b, b[1] = low, b[2] = high
    PROVE  HeaderEnd(b) = 2 + LengthOf(low, high) <=> ~CarryLost(low, high)
<1>1. low \in Nat /\ high \in Nat
  BY DEF Octets
<1>2. HeaderEnd(b) = IF 2 + low >= 256 /\ high % 2 = 1 THEN 2 + low - 256 + 256 * high
                     ELSE 2 + low + 256 * high
  BY <1>1 DEF HeaderEnd
<1> QED  BY <1>1, <1>2 DEF CarryLost, LengthOf

LEMMA TwoBytes ==
    ASSUME NEW n \in Nat, n < 65536
    PROVE  /\ n % 256 \in Octets /\ (n \div 256) \in Octets /\ (n \div 256) % 256 = n \div 256
           /\ n = (n % 256) + 256 * (n \div 256)
<1>1. n = (n % 256) + 256 * (n \div 256) /\ n % 256 \in Nat /\ n % 256 < 256 /\ (n \div 256) \in Nat
  OBVIOUS
<1>2. n \div 256 < 256
  BY <1>1
<1>3. (n \div 256) % 256 = n \div 256
  BY <1>1, <1>2
<1> QED  BY <1>1, <1>2, <1>3 DEF Octets

\* The parts of a payload, by where they begin and end.
PartsOf(pre, m, header, body, sz, sig) ==
    LET b2 == pre \o m
        b3 == b2 \o header
        b4 == b3 \o body
        b5 == b4 \o sz
        b6 == b5 \o sig
    IN /\ Len(b2) = Len(pre) + Len(m) /\ Len(b3) = Len(b2) + Len(header)
       /\ Len(b4) = Len(b3) + Len(body) /\ Len(b5) = Len(b4) + 1
       /\ Len(b6) = Len(b5) + Len(sig)
       /\ \A k \in 1 .. Len(pre) : b6[k] = pre[k]
       /\ SubSeq(b6, Len(pre) + 1, Len(b2)) = m /\ SubSeq(b6, Len(b2) + 1, Len(b3)) = header
       /\ SubSeq(b6, Len(b3) + 1, Len(b4)) = body /\ SubSeq(b6, 1, Len(b4)) = b4
       /\ b6[Len(b5)] = sz[1] /\ SubSeq(b6, Len(b5) + 1, Len(b6)) = sig

LEMMA PartsAreFound ==
    ASSUME NEW S, NEW pre \in Seq(S), NEW m \in Seq(S), NEW header \in Seq(S), NEW body \in Seq(S),
           NEW sz \in Seq(S), Len(sz) = 1, NEW sig \in Seq(S)
    PROVE  PartsOf(pre, m, header, body, sz, sig)
<1> DEFINE b2 == pre \o m
           b3 == b2 \o header
           b4 == b3 \o body
           b5 == b4 \o sz
           b6 == b5 \o sig
           n1 == Len(pre)
           n2 == Len(b2)
           n3 == Len(b3)
           n4 == Len(b4)
           n5 == Len(b5)
           n6 == Len(b6)
<1> HIDE DEF b2, b3, b4, b5, b6, n1, n2, n3, n4, n5, n6
<1>2. /\ b2 \in Seq(S) /\ n2 = n1 + Len(m) /\ n1 \in Nat /\ n2 \in Nat /\ n1 <= n2
      /\ \A k \in 1 .. n1 : b2[k] = pre[k]
      /\ SubSeq(b2, n1 + 1, n2) = m
  <2>1. Joins(S, pre, m, b2)
    BY AppendedPart DEF b2
  <2> QED  BY <2>1, Zenon DEF Joins, n1, n2
<1>3. /\ b3 \in Seq(S) /\ n3 = n2 + Len(header) /\ n3 \in Nat /\ n2 <= n3
      /\ \A k \in 1 .. n2 : b3[k] = b2[k]
      /\ SubSeq(b3, n2 + 1, n3) = header
      /\ \A i, j \in Nat : 1 <= i /\ i <= j + 1 /\ j <= n2 => SubSeq(b3, i, j) = SubSeq(b2, i, j)
  <2>1. Joins(S, b2, header, b3)
    BY <1>2, AppendedPart DEF b3
  <2> QED  BY <2>1, Zenon DEF Joins, n2, n3
<1>4. /\ b4 \in Seq(S) /\ n4 = n3 + Len(body) /\ n4 \in Nat /\ n3 <= n4
      /\ \A k \in 1 .. n3 : b4[k] = b3[k]
      /\ SubSeq(b4, n3 + 1, n4) = body
      /\ \A i, j \in Nat : 1 <= i /\ i <= j + 1 /\ j <= n3 => SubSeq(b4, i, j) = SubSeq(b3, i, j)
  <2>1. Joins(S, b3, body, b4)
    BY <1>3, AppendedPart DEF b4
  <2> QED  BY <2>1, Zenon DEF Joins, n3, n4
<1>5. /\ b5 \in Seq(S) /\ n5 = n4 + 1 /\ n5 \in Nat /\ n4 <= n5
      /\ \A k \in 1 .. n4 : b5[k] = b4[k]
      /\ b5[n4 + 1] = sz[1] /\ SubSeq(b5, 1, n4) = b4
      /\ \A i, j \in Nat : 1 <= i /\ i <= j + 1 /\ j <= n4 => SubSeq(b5, i, j) = SubSeq(b4, i, j)
  <2>1. 1 \in 1 .. Len(sz)
    OBVIOUS
  <2>2. Joins(S, b4, sz, b5)
    BY <1>4, AppendedPart DEF b5
  <2> QED  BY <2>1, <2>2, Zenon DEF Joins, n4, n5
<1>6. /\ b6 \in Seq(S) /\ n6 = n5 + Len(sig) /\ n6 \in Nat /\ n5 <= n6
      /\ \A k \in 1 .. n5 : b6[k] = b5[k]
      /\ SubSeq(b6, n5 + 1, n6) = sig
      /\ \A i, j \in Nat : 1 <= i /\ i <= j + 1 /\ j <= n5 => SubSeq(b6, i, j) = SubSeq(b5, i, j)
  <2>1. Joins(S, b5, sig, b6)
    BY <1>5, AppendedPart DEF b6
  <2> QED  BY <2>1, Zenon DEF Joins, n5, n6
<1>7. \A k \in 1 .. n1 : b6[k] = pre[k]
  <2> SUFFICES ASSUME NEW k \in 1 .. n1 PROVE b6[k] = pre[k]
    OBVIOUS
  <2>1. k \in 1 .. n2 /\ k \in 1 .. n3 /\ k \in 1 .. n4 /\ k \in 1 .. n5
    BY <1>2, <1>3, <1>4, <1>5, SMTT(40)
  <2>2. b2[k] = pre[k]
    BY <1>2, Zenon
  <2>3. b3[k] = b2[k]
    BY <1>3, <2>1, Zenon
  <2>4. b4[k] = b3[k]
    BY <1>4, <2>1, Zenon
  <2>5. b5[k] = b4[k]
    BY <1>5, <2>1, Zenon
  <2>6. b6[k] = b5[k]
    BY <1>6, <2>1, Zenon
  <2> QED  BY <2>2, <2>3, <2>4, <2>5, <2>6
<1>8. b6[n5] = sz[1]
  <2>1. n5 \in 1 .. n5
    BY <1>4, <1>5, SMTT(60)
  <2> QED  BY <1>5, <1>6, <2>1, Zenon
<1>9. \A i, j \in Nat : 1 <= i /\ i <= j + 1 /\ j <= n4 => SubSeq(b6, i, j) = SubSeq(b4, i, j)
  <2> SUFFICES ASSUME NEW i \in Nat, NEW j \in Nat, 1 <= i, i <= j + 1, j <= n4
               PROVE  SubSeq(b6, i, j) = SubSeq(b4, i, j)
    OBVIOUS
  <2>1. j <= n5
    BY <1>4, <1>5
  <2>2. SubSeq(b6, i, j) = SubSeq(b5, i, j)
    BY <1>6, <2>1, Zenon
  <2>3. SubSeq(b5, i, j) = SubSeq(b4, i, j)
    BY <1>5, Zenon
  <2> QED  BY <2>2, <2>3
<1>10. \A i, j \in Nat : 1 <= i /\ i <= j + 1 /\ j <= n3 => SubSeq(b6, i, j) = SubSeq(b3, i, j)
  <2> SUFFICES ASSUME NEW i \in Nat, NEW j \in Nat, 1 <= i, i <= j + 1, j <= n3
               PROVE  SubSeq(b6, i, j) = SubSeq(b3, i, j)
    OBVIOUS
  <2>1. j <= n4
    BY <1>3, <1>4
  <2> QED  BY <1>4, <1>9, <2>1, Zenon
<1>11. \A i, j \in Nat : 1 <= i /\ i <= j + 1 /\ j <= n2 => SubSeq(b6, i, j) = SubSeq(b2, i, j)
  <2> SUFFICES ASSUME NEW i \in Nat, NEW j \in Nat, 1 <= i, i <= j + 1, j <= n2
               PROVE  SubSeq(b6, i, j) = SubSeq(b2, i, j)
    OBVIOUS
  <2>1. j <= n3
    BY <1>2, <1>3
  <2> QED  BY <1>3, <1>10, <2>1, Zenon
<1>12. /\ n1 + 1 \in Nat /\ 1 <= n1 + 1 /\ n1 + 1 <= n2 + 1 /\ n2 <= n2
       /\ n2 + 1 \in Nat /\ 1 <= n2 + 1 /\ n2 + 1 <= n3 + 1 /\ n3 <= n3
       /\ n3 + 1 \in Nat /\ 1 <= n3 + 1 /\ n3 + 1 <= n4 + 1 /\ n4 <= n4
       /\ 1 \in Nat /\ 1 <= 1 /\ 1 <= n4 + 1
  BY <1>2, <1>3, <1>4, SMTT(60)
<1>13. SubSeq(b6, n1 + 1, n2) = m
  BY <1>2, <1>11, <1>12, Zenon
<1>14. SubSeq(b6, n2 + 1, n3) = header
  BY <1>3, <1>10, <1>12, Zenon
<1>15. SubSeq(b6, n3 + 1, n4) = body
  BY <1>4, <1>9, <1>12, Zenon
<1>16. SubSeq(b6, 1, n4) = b4
  <2>1. SubSeq(b6, 1, n4) = SubSeq(b5, 1, n4)
    BY <1>4, <1>5, <1>6, <1>12, ZenonT(40)
  <2> QED  BY <1>5, <2>1
<1> QED  BY <1>2, <1>3, <1>4, <1>5, <1>6, <1>7, <1>8, <1>13, <1>14, <1>15, <1>16, Zenon
            DEF PartsOf, b2, b3, b4, b5, b6, n1, n2, n3, n4, n5, n6

\* A payload begins with two bytes, and one byte is before the signature.
PayloadOf(pre, m, header, body, sz, sig) ==
    LET hashed == pre \o m \o header \o body
        b == hashed \o sz \o sig
        hdrEnd == 2 + Len(m)
        headerEnd == hdrEnd + Len(header)
        bodyEnd == headerEnd + Len(body)
    IN /\ b[1] = pre[1] /\ b[2] = pre[2]
       /\ Len(b) = bodyEnd + 1 + Len(sig)
       /\ SubSeq(b, 3, hdrEnd) = m /\ SubSeq(b, hdrEnd + 1, headerEnd) = header
       /\ SubSeq(b, headerEnd + 1, bodyEnd) = body /\ SubSeq(b, 1, bodyEnd) = hashed
       /\ SubSeq(b, bodyEnd + 2, bodyEnd + 1 + b[bodyEnd + 1]) = sig

LEMMA PayloadParts ==
    ASSUME NEW pre \in Seq(Octets), Len(pre) = 2, NEW m \in Seq(Octets), NEW header \in Seq(Octets),
           NEW body \in Seq(Octets), NEW sz \in Seq(Octets), Len(sz) = 1, NEW sig \in Seq(Octets),
           sz[1] = Len(sig)
    PROVE  PayloadOf(pre, m, header, body, sz, sig)
<1> DEFINE b2 == pre \o m
           b3 == b2 \o header
           b4 == b3 \o body
           b5 == b4 \o sz
           b == b5 \o sig
           hdrEnd == 2 + Len(m)
           headerEnd == hdrEnd + Len(header)
           bodyEnd == headerEnd + Len(body)
<1>1. PartsOf(pre, m, header, body, sz, sig)
  BY PartsAreFound
<1> HIDE DEF b2, b3, b4, b5, b
<1>2. /\ Len(b2) = Len(pre) + Len(m) /\ Len(b3) = Len(b2) + Len(header)
      /\ Len(b4) = Len(b3) + Len(body) /\ Len(b5) = Len(b4) + 1
      /\ Len(b) = Len(b5) + Len(sig)
      /\ \A k \in 1 .. Len(pre) : b[k] = pre[k]
      /\ SubSeq(b, Len(pre) + 1, Len(b2)) = m /\ SubSeq(b, Len(b2) + 1, Len(b3)) = header
      /\ SubSeq(b, Len(b3) + 1, Len(b4)) = body /\ SubSeq(b, 1, Len(b4)) = b4
      /\ b[Len(b5)] = sz[1] /\ SubSeq(b, Len(b5) + 1, Len(b)) = sig
  BY <1>1, Zenon DEF PartsOf, b2, b3, b4, b5, b
<1>3. b[1] = pre[1] /\ b[2] = pre[2]
  BY <1>2
<1>4. Len(m) \in Nat /\ Len(header) \in Nat /\ Len(body) \in Nat /\ Len(sig) \in Nat
  OBVIOUS
<1>5. /\ hdrEnd = Len(b2) /\ headerEnd = Len(b3) /\ bodyEnd = Len(b4) /\ Len(pre) + 1 = 3
      /\ bodyEnd + 1 = Len(b5) /\ bodyEnd + 2 = Len(b5) + 1 /\ bodyEnd + 1 + Len(sig) = Len(b)
  BY <1>2, <1>4
<1> HIDE DEF hdrEnd, headerEnd, bodyEnd
<1>6. SubSeq(b, 3, hdrEnd) = m /\ SubSeq(b, hdrEnd + 1, headerEnd) = header
      /\ SubSeq(b, headerEnd + 1, bodyEnd) = body /\ SubSeq(b, 1, bodyEnd) = b4
  BY <1>2, <1>5
<1>7. SubSeq(b, bodyEnd + 2, bodyEnd + 1 + b[bodyEnd + 1]) = sig
  BY <1>2, <1>5
<1> QED  BY <1>3, <1>5, <1>6, <1>7, Zenon DEF PayloadOf, b2, b3, b4, b5, b, hdrEnd, headerEnd, bodyEnd

\* What PackAndSign makes of the length of the SigHeader and of the four parts.
Packed(m, header, body, sig) == Hashed(m, header, body) \o <<Len(sig)>> \o sig

LEMMA PackIs ==
    ASSUME NEW key, NEW hashKit, NEW codec, NEW header, NEW body, NEW m,
           m = Marshal("SigHeader", HeaderOf(key, hashKit, codec, header, body))
    PROVE  Pack(key, hashKit, codec, header, body)
             = Packed(m, header, body, SignatureOf(Hashed(m, header, body)))
BY DEF Pack, Packed

HeaderRead(m) == Unmarshal("SigHeader", Zero("SigHeader"), m)

LEMMA UnpackIs ==
    ASSUME NEW b, NEW hdr, HeaderRead(SubSeq(b, 3, HeaderEnd(b))) = [ok |-> TRUE, msg |-> hdr],
           LET bodyEnd == HeaderEnd(b) + hdr.HeaderSz + hdr.BodySz
           IN /\ ~(Len(b) < 50) /\ ~(HeaderEnd(b) > Len(b) - 10) /\ ~(bodyEnd > Len(b) - 1)
              /\ SubSeq(b, bodyEnd + 2, bodyEnd + 1 + b[bodyEnd + 1]) = SignatureOf(SubSeq(b, 1, bodyEnd))
    PROVE  LET headerEnd == HeaderEnd(b) + hdr.HeaderSz
           IN Unpack(b) = [ok |-> TRUE, header |-> SubSeq(b, HeaderEnd(b) + 1, headerEnd),
                           body |-> SubSeq(b, headerEnd + 1, headerEnd + hdr.BodySz),
                           codec |-> hdr.HeaderCodec, hashKit |-> hdr.HashKitID,
                           signer |-> [kit |-> hdr.SignerCryptoKit, pub |-> hdr.SignerPubKey]]
<1>1. HeaderRead(SubSeq(b, 3, HeaderEnd(b))).ok = TRUE
      /\ HeaderRead(SubSeq(b, 3, HeaderEnd(b))).msg = hdr
  OBVIOUS
<1> QED  BY <1>1, Zenon DEF Unpack, UnpackWith, HeaderRead

\* Where the parts are in a buffer b that begins with the bytes low and high.
HasParts(b, low, high, hashed, m, header, body, sig) ==
    LET hdrEnd == 2 + Len(m)
        headerEnd == hdrEnd + Len(header)
        bodyEnd == headerEnd + Len(body)
    IN /\ b[1] = low /\ b[2] = high
       /\ Len(b) = bodyEnd + 1 + Len(sig)
       /\ SubSeq(b, 3, hdrEnd) = m /\ SubSeq(b, hdrEnd + 1, headerEnd) = header
       /\ SubSeq(b, headerEnd + 1, bodyEnd) = body /\ SubSeq(b, 1, bodyEnd) = hashed
       /\ SubSeq(b, bodyEnd + 2, bodyEnd + 1 + b[bodyEnd + 1]) = sig

LEMMA BufferHasParts ==
    ASSUME NEW low \in Octets, NEW high \in Octets, NEW m \in Seq(Octets), NEW header \in Seq(Octets),
           NEW body \in Seq(Octets), NEW sig \in Seq(Octets), Len(sig) \in Octets,
           NEW hashed, hashed = <<low, high>> \o m \o header \o body,
           NEW b, b = hashed \o <<Len(sig)>> \o sig
    PROVE  HasParts(b, low, high, hashed, m, header, body, sig)
<1> DEFINE pre == <<low, high>>
           sz == <<Len(sig)>>
<1>1. pre \in Seq(Octets) /\ Len(pre) = 2 /\ pre[1] = low /\ pre[2] = high
  OBVIOUS
<1>2. sz \in Seq(Octets) /\ Len(sz) = 1 /\ sz[1] = Len(sig)
  OBVIOUS
<1>3. b = hashed \o sz \o sig /\ hashed = pre \o m \o header \o body
  OBVIOUS
<1> HIDE DEF pre, sz
<1>4. PayloadOf(pre, m, header, body, sz, sig)
  BY <1>1, <1>2, PayloadParts
<1> QED  BY <1>1, <1>3, <1>4, Zenon DEF PayloadOf, HasParts

\* What UnpackAndVerify reads.
HeaderReads(m, hdr) == HeaderRead(m) = [ok |-> TRUE, msg |-> hdr]
Reads(b, header, body, hdr) ==
    Unpack(b) = [ok |-> TRUE, header |-> header, body |-> body,
                 codec |-> hdr.HeaderCodec, hashKit |-> hdr.HashKitID,
                 signer |-> [kit |-> hdr.SignerCryptoKit, pub |-> hdr.SignerPubKey]]

LEMMA BufferIsRead ==
    ASSUME NEW b, NEW low \in Octets, NEW high \in Octets, NEW hashed, NEW m \in Seq(Octets),
           NEW header \in Seq(Octets), NEW body \in Seq(Octets), NEW sig \in Seq(Octets),
           HasParts(b, low, high, hashed, m, header, body, sig), Len(m) = LengthOf(low, high),
           ~CarryLost(low, high), Len(sig) >= 47, sig = SignatureOf(hashed),
           NEW hdr, hdr.HeaderSz = Len(header), hdr.BodySz = Len(body),
           HeaderReads(m, hdr)
    PROVE  Reads(b, header, body, hdr)
<1> DEFINE hdrEnd == 2 + Len(m)
           headerEnd == hdrEnd + Len(header)
           bodyEnd == headerEnd + Len(body)
<1>1. /\ b[1] = low /\ b[2] = high
      /\ Len(b) = bodyEnd + 1 + Len(sig)
      /\ SubSeq(b, 3, hdrEnd) = m /\ SubSeq(b, hdrEnd + 1, headerEnd) = header
      /\ SubSeq(b, headerEnd + 1, bodyEnd) = body /\ SubSeq(b, 1, bodyEnd) = hashed
      /\ SubSeq(b, bodyEnd + 2, bodyEnd + 1 + b[bodyEnd + 1]) = sig
  BY Zenon DEF HasParts
<1>2. Len(m) \in Nat /\ Len(header) \in Nat /\ Len(body) \in Nat /\ Len(sig) \in Nat
  OBVIOUS
<1>3. ~(Len(b) < 50) /\ ~(hdrEnd > Len(b) - 10) /\ ~(bodyEnd > Len(b) - 1)
  <2>1. bodyEnd \in Nat /\ hdrEnd \in Nat /\ bodyEnd >= hdrEnd /\ hdrEnd >= 2
    BY <1>2, SMTT(60)
  <2>2. Len(b) = bodyEnd + 1 + Len(sig) /\ Len(sig) \in Nat /\ Len(sig) >= 47
    BY <1>1, <1>2, Zenon
  <2> HIDE DEF bodyEnd, hdrEnd
  <2> QED  BY <2>1, <2>2
<1>4. HeaderEnd(b) = hdrEnd
  <2>1. HeaderEnd(b) = 2 + LengthOf(low, high)
    BY <1>1, HeaderEndIs, Zenon
  <2> QED  BY <2>1, Zenon
<1> HIDE DEF hdrEnd
<1>5. Unpack(b) = [ok |-> TRUE, header |-> SubSeq(b, hdrEnd + 1, headerEnd),
                   body |-> SubSeq(b, headerEnd + 1, bodyEnd),
                   codec |-> hdr.HeaderCodec, hashKit |-> hdr.HashKitID,
                   signer |-> [kit |-> hdr.SignerCryptoKit, pub |-> hdr.SignerPubKey]]
  <2>1. headerEnd = HeaderEnd(b) + hdr.HeaderSz /\ bodyEnd = HeaderEnd(b) + hdr.HeaderSz + hdr.BodySz
    BY <1>4
  <2>2. HeaderRead(SubSeq(b, 3, HeaderEnd(b))) = [ok |-> TRUE, msg |-> hdr]
    BY <1>1, <1>4 DEF HeaderReads
  <2>3. SubSeq(b, bodyEnd + 2, bodyEnd + 1 + b[bodyEnd + 1]) = SignatureOf(SubSeq(b, 1, bodyEnd))
    BY <1>1
  <2> HIDE DEF headerEnd, bodyEnd
  <2>4. /\ ~(Len(b) < 50) /\ ~(HeaderEnd(b) > Len(b) - 10) /\ ~(bodyEnd > Len(b) - 1)
    BY <1>3, <1>4
  <2> QED  BY <1>4, <2>1, <2>2, <2>3, <2>4, UnpackIs
<1> QED  BY <1>1, <1>5 DEF Reads

LEMMA SignedIsRead ==
    ASSUME NEW low \in Octets, NEW high \in Octets, NEW m \in Seq(Octets), NEW header \in Seq(Octets),
           NEW body \in Seq(Octets), NEW sig \in Seq(Octets), Len(m) = LengthOf(low, high),
           ~CarryLost(low, high), Len(sig) >= 47, Len(sig) \in Octets,
           NEW hashed, hashed = <<low, high>> \o m \o header \o body, sig = SignatureOf(hashed),
           NEW b, b = hashed \o <<Len(sig)>> \o sig,
           NEW hdr, hdr.HeaderSz = Len(header), hdr.BodySz = Len(body),
           HeaderReads(m, hdr)
    PROVE  Reads(b, header, body, hdr)
<1>1. HasParts(b, low, high, hashed, m, header, body, sig)
  BY BufferHasParts, Zenon
<1> QED  BY <1>1, BufferIsRead, Zenon

\* The two bytes that PackAndSign writes are the length of the SigHeader.
LEMMA LengthBytes ==
    ASSUME NEW n \in TwoByteLengths, NEW low, low = n % 256, NEW high, high = n \div 256
    PROVE  low \in Octets /\ high \in Octets /\ high % 256 = high /\ n = LengthOf(low, high)
<1>1. n \in Nat /\ n < 65536
  BY DEF TwoByteLengths
<1>2. low \in Octets /\ high \in Octets /\ high % 256 = high /\ n = low + 256 * high
  BY <1>1, TwoBytes
<1> QED  BY <1>2 DEF LengthOf

LEMMA SignatureLengths == \A n \in 47 .. 255 : n \in Octets /\ n >= 47
BY DEF Octets

\* The payload and its signer are found in b.
UnpacksTo(b, key, hashKit, codec, header, body) ==
    Unpack(b) = [ok |-> TRUE, header |-> header, body |-> body, codec |-> codec, hashKit |-> hashKit,
                 signer |-> [kit |-> key.kit, pub |-> key.pub]]

\* What the header of a packing says.
LEMMA HeaderSays ==
    ASSUME NEW key, NEW hashKit, NEW codec, NEW header, NEW body,
           NEW hdr, hdr = HeaderOf(key, hashKit, codec, header, body)
    PROVE  /\ hdr.HeaderSz = Len(header) /\ hdr.BodySz = Len(body) /\ hdr.HeaderCodec = codec
           /\ hdr.HashKitID = hashKit /\ hdr.SignerCryptoKit = key.kit /\ hdr.SignerPubKey = key.pub
BY SMTT(60) DEF HeaderOf

\* What PackAndSign makes of a payload is unpacked to the parts it was made of, by
\* whoever signed it, if its SigHeader is a message with a length that HeaderEnd
\* reads, and the signature fits its byte and makes up the 50 bytes that
\* UnpackAndVerify wants.
THEOREM PackedIsUnpacked ==
    ASSUME NEW key, NEW hashKit, NEW codec, NEW header \in Seq(Octets), NEW body \in Seq(Octets),
           NEW hdr, hdr = HeaderOf(key, hashKit, codec, header, body), IsMessage("SigHeader", hdr),
           NEW m, m = Marshal("SigHeader", hdr),
           Len(m) \in TwoByteLengths, ~CarryLost(Len(m) % 256, Len(m) \div 256),
           NEW sig \in Seq(Octets), sig = SignatureOf(Hashed(m, header, body)), Len(sig) \in 47 .. 255
    PROVE  /\ Pack(key, hashKit, codec, header, body) \in Seq(Octets)
           /\ UnpacksTo(Pack(key, hashKit, codec, header, body), key, hashKit, codec, header, body)
<1>1. PICK low, high : low = Len(m) % 256 /\ high = Len(m) \div 256
  OBVIOUS
<1>2. ~CarryLost(low, high)
  BY <1>1, Zenon
<1>3. low \in Octets /\ high \in Octets /\ high % 256 = high /\ Len(m) = LengthOf(low, high)
  <2>1. PICK n \in TwoByteLengths : n = Len(m)
    OBVIOUS
  <2>2. low \in Octets /\ high \in Octets /\ high % 256 = high /\ n = LengthOf(low, high)
    BY <1>1, <2>1, LengthBytes, SMTT(60)
  <2> QED  BY <2>1, <2>2, SMTT(60)
<1>4. m \in Seq(Octets)
  BY SizeIsMarshalled, WidthsAre, SMTT(60)
<1>5. PICK hashed : hashed = Hashed(m, header, body)
  OBVIOUS
<1>6. hashed = <<low, high>> \o m \o header \o body
  <2>1. Len(m) % 256 = low /\ (Len(m) \div 256) % 256 = high
    BY <1>1, <1>3
  <2> QED  BY <1>5, <2>1, ZenonT(60) DEF Hashed
<1>7. PICK b : b = hashed \o <<Len(sig)>> \o sig
  BY Zenon
<1>8. Pack(key, hashKit, codec, header, body) = b
  <2>1. Pack(key, hashKit, codec, header, body) = Packed(m, header, body, SignatureOf(Hashed(m, header, body)))
    BY PackIs, SMTT(60)
  <2> QED  BY <1>5, <1>7, <2>1, Zenon DEF Packed
<1>9. /\ hdr.HeaderSz = Len(header) /\ hdr.BodySz = Len(body) /\ hdr.HeaderCodec = codec
      /\ hdr.HashKitID = hashKit /\ hdr.SignerCryptoKit = key.kit /\ hdr.SignerPubKey = key.pub
  BY HeaderSays, SMTT(60)
<1>10. Len(sig) \in Octets /\ Len(sig) >= 47
  BY SignatureLengths
<1>11. HeaderReads(m, hdr)
  BY MergedIsRead, Zenon DEF HeaderReads, HeaderRead
<1>12. Reads(b, header, body, hdr)
  BY <1>2, <1>3, <1>4, <1>5, <1>6, <1>7, <1>9, <1>10, <1>11, SignedIsRead, ZenonT(60)
<1>13. b \in Seq(Octets)
  <2>1. <<low, high>> \in Seq(Octets) /\ <<Len(sig)>> \in Seq(Octets)
    BY <1>3, <1>10, SMTT(60)
  <2>2. \A x, y \in Seq(Octets) : x \o y \in Seq(Octets)
    OBVIOUS
  <2>3. hashed \in Seq(Octets)
    BY <1>4, <1>6, <2>1, <2>2, Zenon
  <2> QED  BY <1>7, <2>1, <2>2, <2>3, Zenon
<1>14. UnpacksTo(b, key, hashKit, codec, header, body)
  BY <1>8, <1>9, <1>12, Zenon DEF Reads, UnpacksTo
<1> QED  BY <1>8, <1>13, <1>14, Zenon

-----------------------------------------------------------------------------
(* The transfer.                                                           *)

SamplesTyped == type \in Types /\ IsMessage(type, written) /\ IsMessage(type, other)

\* What is on the wire is what was sent, one way or another.
WireIs ==
    CASE how = "new" -> wire = <<>> /\ ~received
      [] how = "plain" -> wire = Marshal(type, written)
      [] how = "unknown" ->
             \E c \in 0 .. Len(Fields(type, written)), f \in UnknownFields :
                 IsUnknown(type, f) /\ wire = WithField(type, written, c, f)
      [] how = "both" -> wire = Marshal(type, written) \o Marshal(type, other)
      [] how = "part" ->
             \E n \in 0 .. Len(Marshal(type, written)) - 1 :
                 wire = SubSeq(Marshal(type, written), 1, n)
      [] how = "signed" ->
             \E p \in Payloads : wire = Pack(p.signer, p.hashKit, p.codec, p.header, p.body)
      [] OTHER -> FALSE

\* What was read is what Unmarshal or UnpackAndVerify makes of it.
GotIs ==
    received =>
        got = IF how = "signed" THEN Unpack(wire) ELSE Unmarshal(type, Zero(type), wire)

TransferInv == received \in BOOLEAN /\ SamplesTyped /\ WireIs /\ GotIs

LEMMA TransferBegins == Init => TransferInv
<1> SUFFICES ASSUME Init PROVE TransferInv
  OBVIOUS
<1>1. type \in Types /\ how = "new" /\ wire = <<>> /\ received = FALSE
  BY DEF Init
<1>2. PICK p \in Samples[type] : written = p[1] /\ other = p[2]
  BY DEF Init
<1>3. IsMessage(type, p[1]) /\ IsMessage(type, p[2])
  BY <1>1, SamplesAreMessages
<1>4. SamplesTyped
  BY <1>1, <1>2, <1>3 DEF SamplesTyped
<1>5. WireIs
  BY <1>1 DEF WireIs
<1>6. GotIs
  BY <1>1 DEF GotIs
<1> QED  BY <1>1, <1>4, <1>5, <1>6 DEF TransferInv

\* Nothing is sent when something was received.
LEMMA ArriveKeeps ==
    ASSUME TransferInv, NEW kind, NEW bytes, Arrive(kind, bytes)
    PROVE  SamplesTyped' /\ GotIs' /\ received' \in BOOLEAN /\ ~received'
           /\ how' = kind /\ wire' = bytes
           /\ type' = type /\ written' = written /\ other' = other
<1>1. how = "new" /\ how' = kind /\ wire' = bytes
      /\ type' = type /\ written' = written /\ other' = other /\ received' = received /\ got' = got
  BY DEF Arrive
<1>2. ~received
  BY <1>1 DEF TransferInv, WireIs
<1>3. SamplesTyped'
  BY <1>1 DEF TransferInv, SamplesTyped
<1>4. GotIs'
  BY <1>1, <1>2 DEF GotIs
<1> QED  BY <1>1, <1>2, <1>3, <1>4 DEF TransferInv

LEMMA TransferSteps == TransferInv /\ [Next]_vars => TransferInv'
<1> SUFFICES ASSUME TransferInv, [Next]_vars PROVE TransferInv'
  OBVIOUS
<1>1. CASE SendPlain
  <2>1. Arrive("plain", Marshal(type, written))
    BY <1>1 DEF SendPlain
  <2>2. SamplesTyped' /\ GotIs' /\ received' \in BOOLEAN /\ how' = "plain"
        /\ wire' = Marshal(type', written')
    BY <2>1, ArriveKeeps
  <2>3. WireIs'
    BY <2>2 DEF WireIs
  <2> QED  BY <2>2, <2>3 DEF TransferInv
<1>2. CASE SendUnknown
  <2>1. PICK c \in 0 .. Len(Fields(type, written)), f \in UnknownFields :
            IsUnknown(type, f) /\ Arrive("unknown", WithField(type, written, c, f))
    BY <1>2, Zenon DEF SendUnknown, IsUnknown, WithField
  <2>2. SamplesTyped' /\ GotIs' /\ received' \in BOOLEAN /\ how' = "unknown"
        /\ wire' = WithField(type, written, c, f) /\ type' = type /\ written' = written
    BY <2>1, ArriveKeeps
  <2>3. WireIs'
    <3>1. \E a \in 0 .. Len(Fields(type', written')), g \in UnknownFields :
              IsUnknown(type', g) /\ wire' = WithField(type', written', a, g)
      BY <2>1, <2>2
    <3> QED  BY <2>2, <3>1 DEF WireIs
  <2> QED  BY <2>2, <2>3 DEF TransferInv
<1>3. CASE SendBoth
  <2>1. Arrive("both", Marshal(type, written) \o Marshal(type, other))
    BY <1>3 DEF SendBoth
  <2>2. SamplesTyped' /\ GotIs' /\ received' \in BOOLEAN /\ how' = "both"
        /\ wire' = Marshal(type', written') \o Marshal(type', other')
    BY <2>1, ArriveKeeps
  <2>3. WireIs'
    BY <2>2 DEF WireIs
  <2> QED  BY <2>2, <2>3 DEF TransferInv
<1>4. CASE SendPart
  <2>1. PICK n \in 0 .. Len(Marshal(type, written)) - 1 :
            Arrive("part", SubSeq(Marshal(type, written), 1, n))
    BY <1>4 DEF SendPart
  <2>2. SamplesTyped' /\ GotIs' /\ received' \in BOOLEAN /\ how' = "part"
        /\ wire' = SubSeq(Marshal(type, written), 1, n) /\ type' = type /\ written' = written
    BY <2>1, ArriveKeeps
  <2>3. WireIs'
    <3>1. \E h \in 0 .. Len(Marshal(type', written')) - 1 :
              wire' = SubSeq(Marshal(type', written'), 1, h)
      BY <2>2
    <3> QED  BY <2>2, <3>1 DEF WireIs
  <2> QED  BY <2>2, <2>3 DEF TransferInv
<1>5. CASE SendSigned
  <2>1. PICK p \in Payloads :
            Arrive("signed", Pack(p.signer, p.hashKit, p.codec, p.header, p.body))
    BY <1>5 DEF SendSigned
  <2>2. SamplesTyped' /\ GotIs' /\ received' \in BOOLEAN /\ how' = "signed"
        /\ wire' = Pack(p.signer, p.hashKit, p.codec, p.header, p.body)
    BY <2>1, ArriveKeeps
  <2>3. WireIs'
    BY <2>2 DEF WireIs
  <2> QED  BY <2>2, <2>3 DEF TransferInv
<1>6. CASE Receive
  <2>1. /\ how # "new" /\ received' = TRUE
        /\ got' = IF how = "signed" THEN Unpack(wire) ELSE Unmarshal(type, Zero(type), wire)
        /\ type' = type /\ written' = written /\ other' = other /\ wire' = wire /\ how' = how
    BY <1>6 DEF Receive
  <2>2. SamplesTyped'
    BY <2>1 DEF TransferInv, SamplesTyped
  <2>3. WireIs'
    BY <2>1 DEF TransferInv, WireIs
  <2>4. GotIs'
    BY <2>1 DEF GotIs
  <2> QED  BY <2>1, <2>2, <2>3, <2>4 DEF TransferInv
<1>7. CASE UNCHANGED vars
  BY <1>7 DEF vars, TransferInv, SamplesTyped, WireIs, GotIs
<1> QED  BY <1>1, <1>2, <1>3, <1>4, <1>5, <1>6, <1>7 DEF Next

\* What was sent is on the wire, and what was read is what Unmarshal makes of it:
\* the invariant that the others follow from.
THEOREM TransferInvCorrect == Spec => []TransferInv
BY TransferBegins, TransferSteps, PTL DEF Spec

\* Size and Equal agree with Marshal whatever is written.
THEOREM WrittenAgreesCorrect == Spec => []WrittenAgrees
<1>1. TransferInv => WrittenAgrees
  <2> SUFFICES ASSUME TransferInv PROVE WrittenAgrees
    OBVIOUS
  <2>1. IsMessage(type, written) /\ IsMessage(type, other)
    BY DEF TransferInv, SamplesTyped
  <2>2. Size(type, written) = Len(Marshal(type, written))
    BY <2>1, SizeIsMarshalled, WidthsAre
  <2>3. Equal(type, written, other) <=> Marshal(type, written) = Marshal(type, other)
    BY <2>1, EqualIsSameBytes
  <2> QED  BY <2>2, <2>3 DEF WrittenAgrees, SizeIsLength, EqualMeansSameBytes
<1> QED  BY <1>1, TransferInvCorrect, PTL

\* Two messages in a buffer are always read as their merge.
THEOREM MergesAppendedCorrect == Spec => []MergesAppended
<1>1. TransferInv => MergesAppended
  <2> SUFFICES ASSUME TransferInv, received, how = "both"
               PROVE  got.ok /\ got.msg = Merged(type, written, other)
    BY DEF MergesAppended
  <2>1. IsMessage(type, written) /\ IsMessage(type, other)
    BY DEF TransferInv, SamplesTyped
  <2>2. wire = Marshal(type, written) \o Marshal(type, other)
    BY DEF TransferInv, WireIs
  <2>3. got = Unmarshal(type, Zero(type), wire)
    BY DEF TransferInv, GotIs
  <2>4. got = [ok |-> TRUE, msg |-> Merged(type, written, other)]
    BY <2>1, <2>2, <2>3, BothAreRead DEF ReadsTo
  <2> QED  BY <2>4
<1> QED  BY <1>1, TransferInvCorrect, PTL

\* What one of the ways to send it makes of a message, and of what is read of it.
MessageRead ==
    received /\ how \in {"plain", "unknown"} => got = [ok |-> TRUE, msg |-> written]
CutRead ==
    received /\ how = "part" =>
        got = Fail \/ (IsMessage(type, got.msg) /\ Marshal(type, got.msg) = wire)
ParcelRead ==
    received /\ how = "signed" =>
        \E p \in Payloads :
            UnpacksTo(Pack(p.signer, p.hashKit, p.codec, p.header, p.body),
                      p.signer, p.hashKit, p.codec, p.header, p.body)
            /\ wire = Pack(p.signer, p.hashKit, p.codec, p.header, p.body)

LEMMA PlainReads ==
    ASSUME TransferInv, how = "plain"
    PROVE  wire \in Seq(Octets) /\ MessageRead
<1>1. IsMessage(type, written)
  BY DEF TransferInv, SamplesTyped
<1>2. wire = Marshal(type, written)
  BY DEF TransferInv, WireIs
<1>3. wire \in Seq(Octets)
  BY <1>1, <1>2, SizeIsMarshalled, WidthsAre
<1>4. received => got = Unmarshal(type, Zero(type), wire)
  BY DEF TransferInv, GotIs
<1>5. Unmarshal(type, Zero(type), Marshal(type, written)) = [ok |-> TRUE, msg |-> written]
  BY <1>1, MergedIsRead
<1> QED  BY <1>2, <1>3, <1>4, <1>5 DEF MessageRead

LEMMA UnknownReads ==
    ASSUME TransferInv, how = "unknown"
    PROVE  wire \in Seq(Octets) /\ MessageRead
<1>1. IsMessage(type, written)
  BY DEF TransferInv, SamplesTyped
<1>2. PICK c \in 0 .. Len(Fields(type, written)), f \in UnknownFields :
          IsUnknown(type, f) /\ wire = WithField(type, written, c, f)
  BY DEF TransferInv, WireIs
<1>3. IsField(f)
  BY FieldsAreClosed
<1>4. WithField(type, written, c, f) \in Seq(Octets) /\ ReadsTo(type, WithField(type, written, c, f), written)
  BY <1>1, <1>2, <1>3, UnknownFieldsPassed
<1>5. received => got = Unmarshal(type, Zero(type), wire)
  BY DEF TransferInv, GotIs
<1> QED  BY <1>2, <1>4, <1>5, Zenon DEF MessageRead, ReadsTo

LEMMA CutReads ==
    ASSUME TransferInv, how = "part"
    PROVE  wire \in Seq(Octets) /\ CutRead
<1>1. IsMessage(type, written)
  BY DEF TransferInv, SamplesTyped
<1>2. PICK n \in 0 .. Len(Marshal(type, written)) - 1 : wire = SubSeq(Marshal(type, written), 1, n)
  BY DEF TransferInv, WireIs
<1>3. PICK b \in Seq(Octets) : b = Marshal(type, written)
  BY <1>1, SizeIsMarshalled, WidthsAre
<1>4. n \in Nat /\ n < Len(b)
  BY <1>3
<1>5. wire \in Seq(Octets)
  BY <1>2, <1>3, <1>4
<1>6. ReadsCut(type, wire)
  BY <1>1, <1>2, <1>3, <1>4, CutIsSeen
<1>7. received => got = Unmarshal(type, Zero(type), wire)
  BY DEF TransferInv, GotIs
<1>8. ASSUME NEW y, IsReadTo(type, wire, y), received
      PROVE  IsMessage(type, got.msg) /\ Marshal(type, got.msg) = wire
  <2>1. IsMessage(type, y) /\ Marshal(type, y) = wire
    BY <1>8, Zenon DEF IsReadTo
  <2>2. got = [ok |-> TRUE, msg |-> y]
    BY <1>7, <1>8, Zenon DEF IsReadTo
  <2>3. got.msg = y
    BY <2>2
  <2> QED  BY <2>1, <2>3
<1> QED  BY <1>5, <1>6, <1>7, <1>8 DEF CutRead, ReadsCut

LEMMA SignedReads ==
    ASSUME TransferInv, how = "signed"
    PROVE  wire \in Seq(Octets) /\ ParcelRead
<1>1. PICK p \in Payloads : wire = Pack(p.signer, p.hashKit, p.codec, p.header, p.body)
  BY DEF TransferInv, WireIs
<1>2. PICK hdr : hdr = HeaderFor(p)
  OBVIOUS
<1>3. PICK m : m = Marshal("SigHeader", hdr)
  OBVIOUS
<1>4. PICK sig : sig = SignatureFor(p)
  BY SMTT(60)
<1>5. /\ p.header \in Seq(Octets) /\ p.body \in Seq(Octets) /\ IsMessage("SigHeader", hdr)
      /\ Len(m) < 254 /\ sig \in Seq(Octets) /\ Len(sig) \in 47 .. 255
  BY <1>2, <1>3, <1>4, PayloadsAreSigned
<1>6. hdr = HeaderOf(p.signer, p.hashKit, p.codec, p.header, p.body)
      /\ sig = SignatureOf(Hashed(m, p.header, p.body))
  BY <1>2, <1>3, <1>4, Zenon DEF HeaderFor, SignatureFor
<1>7. Len(m) \in TwoByteLengths /\ ~CarryLost(Len(m) % 256, Len(m) \div 256)
  <2>1. m \in Seq(Octets)
    BY <1>3, <1>5, SizeIsMarshalled, WidthsAre, SMTT(60)
  <2>2. PICK n \in Nat : n = Len(m) /\ n < 254
    BY <1>5, <2>1, SMTT(60)
  <2>3. n % 256 = n
    BY <2>2, SMTT(60)
  <2> QED  BY <2>2, <2>3, SMTT(60) DEF TwoByteLengths, CarryLost
<1>8. /\ Pack(p.signer, p.hashKit, p.codec, p.header, p.body) \in Seq(Octets)
      /\ UnpacksTo(Pack(p.signer, p.hashKit, p.codec, p.header, p.body),
                   p.signer, p.hashKit, p.codec, p.header, p.body)
  BY <1>3, <1>5, <1>6, <1>7, PackedIsUnpacked, ZenonT(60)
<1> QED  BY <1>1, <1>8 DEF ParcelRead

\* What was written is always read, with fields of other versions or without, and
\* what is cut is an error or the message of the fields that are there.
THEOREM ReadAgreesCorrect == Spec => []ReadAgrees
<1>1. TransferInv => ReadAgrees
  <2> SUFFICES ASSUME TransferInv PROVE ReadAgrees
    OBVIOUS
  <2>1. type \in Types /\ IsMessage(type, written) /\ IsMessage(type, other) /\ received \in BOOLEAN
    BY DEF TransferInv, SamplesTyped
  <2>2. how \in {"new", "plain", "unknown", "both", "part", "signed"}
    BY DEF TransferInv, WireIs
  <2>3. wire \in Seq(Octets) /\ MessageRead /\ CutRead
    <3>1. CASE how = "new"
      <4>1. wire = <<>> /\ ~received
        BY <3>1 DEF TransferInv, WireIs
      <4> QED  BY <4>1 DEF MessageRead, CutRead
    <3>2. CASE how = "plain"
      BY <3>2, PlainReads DEF CutRead
    <3>3. CASE how = "unknown"
      BY <3>3, UnknownReads DEF CutRead
    <3>4. CASE how = "both"
      <4>1. wire = Marshal(type, written) \o Marshal(type, other)
        BY <3>4 DEF TransferInv, WireIs
      <4>2. Marshal(type, written) \in Seq(Octets) /\ Marshal(type, other) \in Seq(Octets)
        BY <2>1, SizeIsMarshalled, WidthsAre
      <4>3. \A x, y \in Seq(Octets) : x \o y \in Seq(Octets)
        OBVIOUS
      <4>4. wire \in Seq(Octets)
        BY <4>1, <4>2, <4>3, Zenon
      <4> QED  BY <3>4, <4>4 DEF MessageRead, CutRead
    <3>5. CASE how = "part"
      BY <3>5, CutReads DEF MessageRead
    <3>6. CASE how = "signed"
      BY <3>6, SignedReads DEF MessageRead, CutRead
    <3> QED  BY <2>2, <3>1, <3>2, <3>3, <3>4, <3>5, <3>6
  <2>4. received /\ how \in {"plain", "unknown"} => got.ok = TRUE /\ got.msg = written
    BY <2>3 DEF MessageRead
  <2>5. received /\ how = "part" /\ got.ok => IsMessage(type, got.msg) /\ Marshal(type, got.msg) = wire
    BY <2>3 DEF CutRead, Fail
  <2>6. Equal(type, written, written)
    BY <2>1, EqualIsSameBytes
  <2>7. TypeOK
    BY <2>1, <2>2, <2>3, <2>4, <2>5 DEF TypeOK
  <2>8. ReadsBackEqual
    BY <2>4, <2>6 DEF ReadsBackEqual
  <2>9. TruncationSeen
    BY <2>5 DEF TruncationSeen
  <2> QED  BY <2>7, <2>8, <2>9 DEF ReadAgrees
<1> QED  BY <1>1, TransferInvCorrect, PTL

\* A payload that was signed is always accepted, as the one it was and as its signer's.
THEOREM SignedReadsBackCorrect == Spec => []SignedReadsBack
<1>1. TransferInv => SignedReadsBack
  <2> SUFFICES ASSUME TransferInv, received, how = "signed"
               PROVE  /\ got.ok
                      /\ [signer |-> got.signer, hashKit |-> got.hashKit, codec |-> got.codec,
                          header |-> got.header, body |-> got.body] \in Payloads
                      /\ wire = Pack(got.signer, got.hashKit, got.codec, got.header, got.body)
    BY DEF SignedReadsBack
  <2>1. PICK p \in Payloads :
            UnpacksTo(Pack(p.signer, p.hashKit, p.codec, p.header, p.body),
                      p.signer, p.hashKit, p.codec, p.header, p.body)
            /\ wire = Pack(p.signer, p.hashKit, p.codec, p.header, p.body)
    BY SignedReads DEF ParcelRead
  <2>2. p = [signer |-> [kit |-> p.signer.kit, pub |-> p.signer.pub], hashKit |-> p.hashKit,
             codec |-> p.codec, header |-> p.header, body |-> p.body]
    BY PayloadsAreSigned
  <2>3. p.signer = [kit |-> p.signer.kit, pub |-> p.signer.pub]
    BY <2>2
  <2>4. got = Unpack(wire)
    BY DEF TransferInv, GotIs
  <2>5. got = [ok |-> TRUE, header |-> p.header, body |-> p.body, codec |-> p.codec,
               hashKit |-> p.hashKit, signer |-> [kit |-> p.signer.kit, pub |-> p.signer.pub]]
    BY <2>1, <2>4, Zenon DEF UnpacksTo
  <2>6. got.ok = TRUE /\ got.header = p.header /\ got.body = p.body /\ got.codec = p.codec
        /\ got.hashKit = p.hashKit /\ got.signer = p.signer
    BY <2>3, <2>5
  <2>7. [signer |-> got.signer, hashKit |-> got.hashKit, codec |-> got.codec,
         header |-> got.header, body |-> got.body] = p
    BY <2>2, <2>3, <2>6, Zenon
  <2>8. wire = Pack(got.signer, got.hashKit, got.codec, got.header, got.body)
    BY <2>1, <2>6, Zenon
  <2> QED  BY <2>6, <2>7, <2>8
<1> QED  BY <1>1, TransferInvCorrect, PTL
==============================================================================

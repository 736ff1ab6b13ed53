----------------------------- MODULE WireFormat -----------------------------
(***************************************************************************)
(* The wire format of the generated messages (src/ski/api.ski.pb.go,       *)
(* src/amp/apps/amp.app.av/av/av.pb.go): how integers are written and      *)
(* read, and what Marshal and Size do with the rows that MessageTables     *)
(* lists for each message.  A message is a function from the names of its  *)
(* fields to their values; a pointer is a sequence of length at most one,  *)
(* and a float is the sequence of its bytes.  ProtoWire adds what          *)
(* Unmarshal and Equal do.                                                 *)
(***************************************************************************)
EXTENDS Integers, SequencesExt, MessageTables

CONSTANTS
    WordBits,     \* bits of an int, an int64 and a uint64 (64 in the code)
    HalfBits      \* bits of an int32, a uint32 and of an enum (32)

Octets == 0 .. 255

-----------------------------------------------------------------------------
(* Integers.                                                               *)

\* 1 << n
TwoTo[n \in Nat] == IF n = 0 THEN 1 ELSE 2 * TwoTo[n - 1]

Signed(w, bits) == IF w < TwoTo[bits - 1] THEN w ELSE w - TwoTo[bits]

\* uint64(v)
Word(v) == v % TwoTo[WordBits]

\* math_bits.Len64
BitLen[w \in Nat] == IF w = 0 THEN 0 ELSE 1 + BitLen[w \div 2]

\* sovApiSki: w | 1 has a bit more than w just if w is zero.
VarintLen(w) == (BitLen[IF w = 0 THEN 1 ELSE w] + 6) \div 7

\* encodeVarintApiSki
Varint[w \in Nat] ==
    IF w < 128 THEN <<w>> ELSE <<128 + (w % 128)>> \o Varint[w \div 128]

Fail == [ok |-> FALSE]
MaxVarint == (WordBits + 6) \div 7    \* shift >= 64 ends a varint

\* The septets of b[i] to b[j], the low ones first.
Septets(b, i, j) ==
    LET from[k \in i .. j] == (b[k] % 128) + (IF k = j THEN 0 ELSE 128 * from[k + 1])
    IN from[i]

\* The loop over shift: the word that starts at b[i] and where it ends.  Bits
\* beyond the word are lost.
ReadVarint(b, i) ==
    LET ends == {k \in 0 .. MaxVarint - 1 : i + k <= Len(b) /\ b[i + k] < 128}
    IN IF ends = {} THEN Fail
       ELSE LET n == CHOOSE k \in ends : \A j \in ends : k <= j
            IN [ok |-> TRUE, next |-> i + n + 1, word |-> Word(Septets(b, i, i + n))]

\* What the case of a kind makes of the word it has read.  The mutant forgets
\* that an enum may be negative.
MutantFromWord(kind, w) ==
    CASE kind \in {"int32", "uint32"} -> w % TwoTo[HalfBits]
      [] kind = "int64" -> Signed(w, WordBits)
      [] kind = "uint64" -> w
      [] kind = "bool" -> w # 0
FromWord(kind, w) ==
    CASE kind = "int32"  -> Signed(w % TwoTo[HalfBits], HalfBits)
      [] kind = "uint32" -> w % TwoTo[HalfBits]
      [] kind = "int64"  -> Signed(w, WordBits)
      [] kind = "uint64" -> w
      [] kind = "bool"   -> w # 0

\* byteLen and postIndex: a length that is negative or leads past the end is
\* an error.  (A postIndex that overflows is an error like one past the end.)  The mutant
\* takes what there is.
MutantReadLength(b, i) ==
    LET v == ReadVarint(b, i)
    IN IF ~v.ok THEN Fail
       ELSE [ok |-> TRUE, from |-> v.next,
             next |-> IF v.next + v.word > Len(b) + 1 THEN Len(b) + 1
                                                      ELSE v.next + v.word]
ReadLength(b, i) ==
    LET v == ReadVarint(b, i)
    IN IF ~v.ok \/ Signed(v.word, WordBits) < 0 \/ v.next + v.word > Len(b) + 1
       THEN Fail
       ELSE [ok |-> TRUE, from |-> v.next, next |-> v.next + v.word]

-----------------------------------------------------------------------------
(* Writing.  Message types are embedded in each other five deep:           *)
(* CryptOpArgs, KeyTome, Keyring, KeyEntry and KeyInfo.  The level of an   *)
(* operator is the depth of the messages that it writes or measures.       *)

Fixed(kind) == IF kind = "fixed32" THEN 4 ELSE 8
ZeroBytes(kind) == [k \in 1 .. Fixed(kind) |-> 0]

Prefixed(bytes) == Varint[Len(bytes)] \o bytes

\* One field: nothing if it has its zero value.  Of the messages in it there
\* is what they are written as.
MarshalRow(row, v, embedded) ==
    CASE row.kind = "varint" -> IF v = 0 THEN <<>> ELSE <<row.tag>> \o Varint[Word(v)]
      [] row.kind = "bool" -> IF v THEN <<row.tag, 1>> ELSE <<>>
      [] row.kind = "bytes" -> IF v = <<>> THEN <<>> ELSE <<row.tag>> \o Prefixed(v)
      [] row.kind \in {"fixed32", "fixed64"} ->
             IF v = ZeroBytes(row.kind) THEN <<>> ELSE <<row.tag>> \o v
      [] OTHER -> FlattenSeq([k \in DOMAIN v |-> <<row.tag>> \o Prefixed(embedded[k])])

\* MarshalToSizedBuffer, which writes the fields back to front into a buffer of
\* Size bytes.
FieldsWith(Inner(_, _), t, m) ==
    [k \in DOMAIN Marshals[t] |->
        LET row == Marshals[t][k]
            v == m[row.name]
        IN MarshalRow(row, v, [j \in DOMAIN v |-> Inner(row.kind, v[j])])]
MarshalWith(Inner(_, _), t, m) == FlattenSeq(FieldsWith(Inner, t, m))

Marshal0(t, m) == <<>>
Marshal1(t, m) == MarshalWith(Marshal0, t, m)
Marshal2(t, m) == MarshalWith(Marshal1, t, m)
Marshal3(t, m) == MarshalWith(Marshal2, t, m)
Marshal4(t, m) == MarshalWith(Marshal3, t, m)
Fields(t, m) == FieldsWith(Marshal4, t, m)
Marshal(t, m) == FlattenSeq(Fields(t, m))

\* n += l, one after the other.
Total(lengths) ==
    LET n[k \in {0} \cup DOMAIN lengths] == IF k = 0 THEN 0 ELSE n[k - 1] + lengths[k]
    IN n[Len(lengths)]

SizeRow(row, v, sizes) ==
    CASE row.kind = "varint" -> IF v = 0 THEN 0 ELSE 1 + VarintLen(Word(v))
      [] row.kind = "bool" -> IF v THEN 2 ELSE 0
      [] row.kind = "bytes" ->
             IF v = <<>> THEN 0 ELSE 1 + Len(v) + VarintLen(Len(v))
      [] row.kind \in {"fixed32", "fixed64"} ->
             IF v = ZeroBytes(row.kind) THEN 0 ELSE 1 + Fixed(row.kind)
      [] OTHER -> Total([k \in DOMAIN v |-> LET l == sizes[k] IN 1 + l + VarintLen(l)])

SizeWith(Inner(_, _), t, m) ==
    Total([k \in DOMAIN Sizes[t] |->
        LET row == Sizes[t][k]
            v == m[row.name]
        IN SizeRow(row, v, [j \in DOMAIN v |-> Inner(row.kind, v[j])])])

Size0(t, m) == 0
Size1(t, m) == SizeWith(Size0, t, m)
Size2(t, m) == SizeWith(Size1, t, m)
Size3(t, m) == SizeWith(Size2, t, m)
Size4(t, m) == SizeWith(Size3, t, m)
Size(t, m) == SizeWith(Size4, t, m)
=============================================================================

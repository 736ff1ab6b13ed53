----------------------------- MODULE ProtoWire -----------------------------
(***************************************************************************)
(* What Unmarshal and Equal of the generated messages do with the rows     *)
(* that MessageTables lists for them.  The generated functions differ only *)
(* in their fields (src/ski/api.ski.pb.go,                                 *)
(* src/amp/apps/amp.app.av/av/av.pb.go).                                   *)
(***************************************************************************)
EXTENDS WireFormat

Types == DOMAIN Unmarshals

-----------------------------------------------------------------------------
(* The messages.                                                           *)

Names(t) == {row.name : row \in Unmarshals[t]}
RowOf(t, n) == CHOOSE row \in Unmarshals[t] : row.name = n

\* The field is an embedded message, or a slice of them.
Embeds(row) == row.kind \in Types

Integral == {"int32", "uint32", "int64", "uint64"}
FixedKinds == {"fixed32", "fixed64"}

ZeroOf(row) ==
    CASE row.kind \in Integral -> 0
      [] row.kind = "bool" -> FALSE
      [] row.kind \in FixedKinds -> ZeroBytes(row.kind)
      [] OTHER -> <<>>

\* The zero value of a message's type.
Zero(t) == [n \in Names(t) |-> ZeroOf(RowOf(t, n))]

\* The values of the integer fields.
FieldRange(kind) ==
    CASE kind = "int32" -> -TwoTo[HalfBits - 1] .. TwoTo[HalfBits - 1] - 1
      [] kind = "uint32" -> 0 .. TwoTo[HalfBits] - 1
      [] kind = "int64" -> -TwoTo[WordBits - 1] .. TwoTo[WordBits - 1] - 1
      [] kind = "uint64" -> 0 .. TwoTo[WordBits] - 1

\* The values of a field; no slice is longer than an int, and a pointer is to
\* one message or to none.
FitsInt(n) == n < TwoTo[WordBits - 1]
IsList(s) == s = [k \in 1 .. Len(s) |-> s[k]] /\ Len(s) \in Nat

\* The bytes of a float that is equal to itself and to no other: it is not minus
\* zero, and if its exponent is all ones it is infinite.
IsFloat(kind, v) ==
    LET n == Fixed(kind)
        infinite == IF kind = "fixed32" THEN 128 ELSE 240
    IN /\ v \in [1 .. n -> Octets]
       /\ v[n] = 128 => \E k \in 1 .. n - 1 : v[k] # 0
       /\ v[n] \in {127, 255} /\ v[n - 1] >= infinite =>
              v[n - 1] = infinite /\ \A k \in 1 .. n - 2 : v[k] = 0

IsValue(row, v) ==
    CASE row.kind \in Integral -> v \in FieldRange(row.kind)
      [] row.kind = "bool" -> v \in BOOLEAN
      [] row.kind = "bytes" -> v \in Seq(Octets) /\ FitsInt(Len(v))
      [] row.kind \in FixedKinds -> IsFloat(row.kind, v)
      [] OTHER -> IsList(v) /\ (Len(v) > 1 => row.repeated)
MessageWith(Inner(_, _), t, m) ==
    /\ t \in Types /\ m = [n \in Names(t) |-> m[n]]
    /\ \A row \in Unmarshals[t] :
          /\ IsValue(row, m[row.name])
          /\ Embeds(row) => \A k \in DOMAIN m[row.name] : Inner(row.kind, m[row.name][k])

\* Messages by how deep others are embedded in them; what they are written as
\* fits a slice as well.
Message0(t, m) == FALSE
Message1(t, m) == MessageWith(Message0, t, m) /\ FitsInt(Len(Marshal1(t, m)))
Message2(t, m) == MessageWith(Message1, t, m) /\ FitsInt(Len(Marshal2(t, m)))
Message3(t, m) == MessageWith(Message2, t, m) /\ FitsInt(Len(Marshal3(t, m)))
Message4(t, m) == MessageWith(Message3, t, m) /\ FitsInt(Len(Marshal4(t, m)))
IsMessage(t, m) == MessageWith(Message4, t, m) /\ FitsInt(Len(Marshal(t, m)))

-----------------------------------------------------------------------------
(* Reading.                                                                *)

WireType(kind) ==
    CASE kind \in Integral \cup {"bool"} -> 0
      [] kind = "fixed64" -> 1
      [] kind = "fixed32" -> 5
      [] OTHER -> 2

\* What follows a tag, where depth groups are open: a group has nothing but parts.
BodyAt(b, tag, type, depth) ==
    CASE type = 0 -> ReadVarint(b, tag.next)
      [] type = 1 -> [ok |-> TRUE, next |-> tag.next + 8]
      [] type = 2 -> ReadLength(b, tag.next)
      [] type = 5 -> [ok |-> TRUE, next |-> tag.next + 4]
      [] type = 3 \/ (type = 4 /\ depth > 0) -> tag
      [] OTHER -> Fail
NextDepth(type, depth) ==
    CASE type = 3 -> depth + 1 [] type = 4 -> depth - 1 [] OTHER -> depth

\* A round of the loop in skipApiSki, which ends when no group is open.
SkipTo(b, tag, body, depth) ==
    IF ~tag.ok \/ ~body.ok \/ body.next > Len(b) + 1 THEN Fail
    ELSE [ok |-> TRUE, at |-> body.next, depth |-> depth, done |-> depth = 0]
SkipPart(b, s) ==
    LET tag == ReadVarint(b, s.at)
        type == tag.word % 8
    IN SkipTo(b, tag, BodyAt(b, tag, type, s.depth), NextDepth(type, s.depth))
Skipped(s) == ~s.ok \/ s.done

\* skipApiSki: where the field that starts at b[i] ends; a group is skipped
\* with all it contains.  A round takes at least one byte.
Skip(b, i) ==
    LET after[k \in 0 .. Len(b) + 1] ==
            IF k = 0 THEN [ok |-> TRUE, at |-> i, depth |-> 0, done |-> FALSE]
            ELSE LET s == after[k - 1] IN IF Skipped(s) THEN s ELSE SkipPart(b, s)
        end == after[CHOOSE k \in 0 .. Len(b) + 1 : Skipped(after[k])]
    IN IF end.ok THEN [ok |-> TRUE, next |-> end.at] ELSE Fail

\* What the case of a row reads from b[i] on: of a message, the bytes.
Found(row, value, next) ==
    [ok |-> TRUE, known |-> TRUE, row |-> row, value |-> value, next |-> next]
WordFound(row, word) ==
    IF word.ok THEN Found(row, FromWord(row.kind, word.word), word.next) ELSE Fail
BytesFound(row, b, len) ==
    IF len.ok THEN Found(row, SubSeq(b, len.from, len.next - 1), len.next) ELSE Fail
Content(row, b, i) ==
    LET end == i + Fixed(row.kind)
    IN CASE WireType(row.kind) = 0 -> WordFound(row, ReadVarint(b, i))
         [] WireType(row.kind) \in {1, 5} ->
              IF end > Len(b) + 1 THEN Fail ELSE Found(row, SubSeq(b, i, end - 1), end)
         [] OTHER -> BytesFound(row, b, ReadLength(b, i))

\* The field at b[i] with its tag, which is passed over if its number is not known.
NumberOf(tag) == Signed((tag.word \div 8) % TwoTo[HalfBits], HalfBits)
PassedOver(skip) ==
    IF skip.ok THEN [ok |-> TRUE, known |-> FALSE, next |-> skip.next] ELSE Fail
FieldWith(t, b, i, tag) ==
    LET rows == {row \in Unmarshals[t] : row.number = NumberOf(tag)}
        row == CHOOSE r \in rows : TRUE
    IN IF ~tag.ok \/ tag.word % 8 = 4 \/ NumberOf(tag) <= 0 THEN Fail
       ELSE IF rows = {} THEN PassedOver(Skip(b, i))
       ELSE IF tag.word % 8 # WireType(row.kind) THEN Fail
       ELSE Content(row, b, tag.next)
FieldAt(t, b, i) == FieldWith(t, b, i, ReadVarint(b, i))

\* Where an embedded message is decoded into: a new one at the end of a slice,
\* the one a pointer points to already or a new one.  The mutant starts anew.
MutantTarget(row, old) == Zero(row.kind)
Target(row, old) ==
    IF old = <<>> \/ row.repeated THEN Zero(row.kind) ELSE old[1]

\* What a field f that was read makes of its field in m: the last of a scalar
\* stands.  Of an embedded message there is what it was decoded to.
Taken(f, old, embedded) ==
    IF ~Embeds(f.row) THEN f.value
    ELSE IF f.row.repeated THEN Append(old, embedded.msg)
    ELSE <<embedded.msg>>

\* A round of the loop of Unmarshal that has read the field f.  (What an error
\* leaves in the message is not modelled.)
Round(s, f, embedded) ==
    IF ~f.ok THEN Fail
    ELSE IF ~f.known THEN [s EXCEPT !.at = f.next]
    ELSE IF Embeds(f.row) /\ ~embedded.ok THEN Fail
    ELSE [ok |-> TRUE, at |-> f.next,
          msg |-> [s.msg EXCEPT ![f.row.name] = Taken(f, @, embedded)]]
Decoded(b, s) == ~s.ok \/ s.at > Len(b)

\* The same with the Unmarshal of a message that f embeds.
RoundWith(Inner(_, _, _), s, f) ==
    Round(s, f, Inner(f.row.kind, Target(f.row, s.msg[f.row.name]), f.value))

\* Unmarshal from b into m: the fields in any order.  A round takes at least
\* one byte.
Outcome(end) == IF end.ok THEN [ok |-> TRUE, msg |-> end.msg] ELSE Fail
UnmarshalWith(Inner(_, _, _), t, m, b) ==
    LET after[k \in 0 .. Len(b)] ==
            IF k = 0 THEN [ok |-> TRUE, at |-> 1, msg |-> m]
            ELSE LET s == after[k - 1]
                 IN IF Decoded(b, s) THEN s ELSE RoundWith(Inner, s, FieldAt(t, b, s.at))
    IN Outcome(after[CHOOSE k \in 0 .. Len(b) : Decoded(b, after[k])])

Unmarshal0(t, m, b) == Fail
Unmarshal1(t, m, b) == UnmarshalWith(Unmarshal0, t, m, b)
Unmarshal2(t, m, b) == UnmarshalWith(Unmarshal1, t, m, b)
Unmarshal3(t, m, b) == UnmarshalWith(Unmarshal2, t, m, b)
Unmarshal4(t, m, b) == UnmarshalWith(Unmarshal3, t, m, b)
Unmarshal(t, m, b) == UnmarshalWith(Unmarshal4, t, m, b)

-----------------------------------------------------------------------------
\* Equal: field by field, messages by their own Equal.
EqualWith(Inner(_, _, _), t, m1, m2) ==
    \A row \in Equals[t] :
        LET v1 == m1[row.name]
            v2 == m2[row.name]
        IN IF row.kind = "value" THEN v1 = v2
           ELSE /\ Len(v1) = Len(v2)
                /\ \A k \in DOMAIN v1 : Inner(row.kind, v1[k], v2[k])

Equal0(t, m1, m2) == TRUE
Equal1(t, m1, m2) == EqualWith(Equal0, t, m1, m2)
Equal2(t, m1, m2) == EqualWith(Equal1, t, m1, m2)
Equal3(t, m1, m2) == EqualWith(Equal2, t, m1, m2)
Equal4(t, m1, m2) == EqualWith(Equal3, t, m1, m2)
Equal(t, m1, m2) == EqualWith(Equal4, t, m1, m2)
=============================================================================

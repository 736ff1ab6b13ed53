-------------------------- MODULE MessageTransfer --------------------------
(***************************************************************************)
(* A message that is written by one version of the program and read by     *)
(* another: as it is, with fields the reader does not know, after another  *)
(* message of the same type in the same buffer, or cut short; and payloads *)
(* that are signed by one host and unpacked by another.  The generated     *)
(* functions have to agree with each other whatever happens.               *)
(***************************************************************************)
EXTENDS SignedPayload

CONSTANTS
    Samples,        \* message type -> messages that are written, with others
    UnknownFields,  \* fields of other versions, as the parts they are made of
    Payloads        \* the payloads that are signed

\* An int has at least as many bits as an int32, and both hold a tag.
ASSUME Widths == WordBits \in Nat /\ HalfBits \in Nat /\ 5 <= HalfBits
                 /\ 7 <= WordBits /\ HalfBits <= WordBits

ASSUME SamplesAreMessages ==
    \A t \in Types : \A p \in Samples[t] : IsMessage(t, p[1]) /\ IsMessage(t, p[2])

\* A part is a tag and what a value of its wire type is made of: a word, bytes,
\* or the start or the end of a group.  Groups are closed where the field ends,
\* and not before; depth is the number of those that are open behind a part.
IsPart(u) ==
    /\ u.number \in Nat /\ u.number >= 1 /\ u.type \in 0 .. 5
    /\ 8 * u.number + u.type < TwoTo[WordBits]
    /\ u.type = 0 => u.word \in Nat /\ u.word < TwoTo[WordBits]
    /\ u.type = 1 => u.bytes \in [1 .. 8 -> Octets]
    /\ u.type = 2 => u.bytes \in Seq(Octets) /\ FitsInt(Len(u.bytes))
    /\ u.type = 5 => u.bytes \in [1 .. 4 -> Octets]
Opened(type) == CASE type = 3 -> 1 [] type = 4 -> -1 [] OTHER -> 0
IsField(f) ==
    /\ IsList(f) /\ Len(f) >= 1
    /\ \A k \in 1 .. Len(f) :
          /\ IsPart(f[k])
          /\ f[k].depth = Opened(f[k].type) + (IF k = 1 THEN 0 ELSE f[k - 1].depth)
          /\ IF k = Len(f) THEN f[k].depth = 0 ELSE f[k].depth \in Nat \ {0}
    /\ f[1].number < TwoTo[HalfBits - 1]
ASSUME FieldsAreClosed == \A f \in UnknownFields : IsField(f)

\* The SigHeader of a payload is one that HeaderEnd can pass, and the signature
\* has a length that fits its byte and that UnpackAndVerify accepts.
HeaderFor(p) == HeaderOf(p.signer, p.hashKit, p.codec, p.header, p.body)
SignatureFor(p) == SignatureOf(Hashed(Marshal("SigHeader", HeaderFor(p)), p.header, p.body))
ASSUME PayloadsAreSigned ==
    \A p \in Payloads :
        /\ p = [signer |-> [kit |-> p.signer.kit, pub |-> p.signer.pub], hashKit |-> p.hashKit,
                codec |-> p.codec, header |-> p.header, body |-> p.body]
        /\ p.header \in Seq(Octets) /\ p.body \in Seq(Octets)
        /\ IsMessage("SigHeader", HeaderFor(p))
        /\ Len(Marshal("SigHeader", HeaderFor(p))) < 254
        /\ SignatureFor(p) \in Seq(Octets) /\ Len(SignatureFor(p)) \in 47 .. 255

VARIABLES
    type,     \* the type of the messages
    written,  \* the message that is written
    other,    \* another one of the same type
    wire,     \* the bytes
    how,      \* what happened to them
    received, \* they have been read
    got       \* what was made of them

vars == <<type, written, other, wire, how, received, got>>

-----------------------------------------------------------------------------
(* The transfer.                                                           *)

PartBytes(u) ==
    Varint[8 * u.number + u.type] \o
        (CASE u.type = 0 -> Varint[u.word]
           [] u.type \in {1, 5} -> u.bytes
           [] u.type = 2 -> Prefixed(u.bytes)
           [] OTHER -> <<>>)
FieldBytes(f) == FlattenSeq([k \in 1 .. Len(f) |-> PartBytes(f[k])])

Init == /\ type \in Types
        /\ \E p \in Samples[type] : written = p[1] /\ other = p[2]
        /\ wire = <<>>
        /\ how = "new"
        /\ received = FALSE
        /\ got = Fail

Arrive(kind, bytes) == /\ how = "new"
                       /\ how' = kind
                       /\ wire' = bytes
                       /\ UNCHANGED <<type, written, other, received, got>>

SendPlain == other = written /\ Arrive("plain", Marshal(type, written))

SendUnknown ==
    other = written /\ \E cut \in 0 .. Len(Fields(type, written)), f \in UnknownFields :
        LET fields == Fields(type, written)
        IN /\ f[1].number \notin {row.number : row \in Unmarshals[type]}
           /\ Arrive("unknown", FlattenSeq(SubSeq(fields, 1, cut)) \o FieldBytes(f)
                                  \o FlattenSeq(SubSeq(fields, cut + 1, Len(fields))))

SendBoth == Arrive("both", Marshal(type, written) \o Marshal(type, other))

SendPart ==
    other = written /\ \E n \in 0 .. Len(Marshal(type, written)) - 1 :
        Arrive("part", SubSeq(Marshal(type, written), 1, n))

\* PackAndSign; it does not matter which messages of the type are there.
SendSigned ==
    /\ type = "SigHeader" /\ written = Zero(type) /\ other = written
    /\ \E p \in Payloads :
           Arrive("signed", Pack(p.signer, p.hashKit, p.codec, p.header, p.body))

\* Unmarshal, or UnpackAndVerify
Receive == /\ how # "new" /\ ~received
           /\ received' = TRUE
           /\ got' = IF how = "signed" THEN Unpack(wire)
                                       ELSE Unmarshal(type, Zero(type), wire)
           /\ UNCHANGED <<type, written, other, wire, how>>

Next == SendPlain \/ SendUnknown \/ SendBoth \/ SendPart \/ SendSigned \/ Receive

Spec == Init /\ [][Next]_vars

-----------------------------------------------------------------------------
(* What the generated functions promise each other.                        *)

\* Two messages in one: the fields of the second that are set replace those of
\* the first, slices are appended, embedded messages are merged in turn.
MergedWith(Inner(_, _, _), t, m1, m2) ==
    [n \in Names(t) |->
        LET row == RowOf(t, n)
        IN IF m2[n] = ZeroOf(row) THEN m1[n]
           ELSE IF row.repeated THEN m1[n] \o m2[n]
           ELSE IF Embeds(row) /\ m1[n] # <<>>
           THEN <<Inner(row.kind, m1[n][1], m2[n][1])>>
           ELSE m2[n]]

Merged0(t, m1, m2) == m2
Merged1(t, m1, m2) == MergedWith(Merged0, t, m1, m2)
Merged2(t, m1, m2) == MergedWith(Merged1, t, m1, m2)
Merged3(t, m1, m2) == MergedWith(Merged2, t, m1, m2)
Merged4(t, m1, m2) == MergedWith(Merged3, t, m1, m2)
Merged(t, m1, m2) == MergedWith(Merged4, t, m1, m2)

\* A message has the fields of its type, with integers of their width, and what
\* arrives is made of bytes.
TypeOK ==
    /\ how \in {"new", "plain", "unknown", "both", "part", "signed"} /\ received \in BOOLEAN
    /\ type \in Types /\ IsMessage(type, written) /\ IsMessage(type, other)
    /\ wire \in Seq(Octets)
    /\ received /\ how \in {"plain", "unknown", "part"} /\ got.ok => IsMessage(type, got.msg)

\* Size is the length of what Marshal writes: MarshalToSizedBuffer fills a
\* buffer of that size from its end, and a shorter one makes it panic, a
\* longer one leaves zeros in front.
SizeIsLength ==
    how = "new" => Size(type, written) = Len(Marshal(type, written))

\* Unmarshal gives back a message Equal to the one that was written, also
\* from a version of the program whose messages have more fields.
ReadsBackEqual ==
    received /\ how \in {"plain", "unknown"} => got.ok /\ Equal(type, got.msg, written)

\* Two messages in one buffer are read as their merge: scalars of the second
\* win, repeated fields are appended, embedded messages are merged.
MergesAppended ==
    received /\ how = "both" => got.ok /\ got.msg = Merged(type, written, other)

\* A buffer that was cut is an error, unless it was cut between two fields.
TruncationSeen ==
    received /\ how = "part" /\ got.ok => Marshal(type, got.msg) = wire

\* Equal holds of just the messages that have the same encoding.
EqualMeansSameBytes ==
    how = "new" =>
        (Equal(type, written, other) <=> Marshal(type, written) = Marshal(type, other))

\* UnpackAndVerify accepts what PackAndSign has made, and finds in it the
\* payload and the signer that were put in.
SignedReadsBack ==
    received /\ how = "signed" =>
        /\ got.ok
        /\ [signer |-> got.signer, hashKit |-> got.hashKit, codec |-> got.codec,
            header |-> got.header, body |-> got.body] \in Payloads
        /\ wire = Pack(got.signer, got.hashKit, got.codec, got.header, got.body)

\* Size, Marshal and Equal of every message type agree: Size is the number of
\* bytes that Marshal writes, and messages are equal just if their bytes are.
WrittenAgrees == SizeIsLength /\ EqualMeansSameBytes

\* Unmarshal agrees with Marshal: what is read is what was written, whatever
\* fields of another version stand between, and one cut within a field is refused.
ReadAgrees == TypeOK /\ ReadsBackEqual /\ TruncationSeen
=============================================================================

-------------------------- MODULE MCMessageTransfer --------------------------
(***************************************************************************)
(* The messages, fields and payloads of the run of MessageTransfer.        *)
(***************************************************************************)
EXTENDS MessageTransfer, FiniteSets

\* Values of every width, and messages with all their fields.
RECURSIVE Full(_)

ValuesOf(row) ==
    CASE row.kind = "int32" -> {1, -1}
      [] row.kind = "uint32" -> {TwoTo[HalfBits] - 1}
      [] row.kind = "int64" -> {200, -1}
      [] row.kind = "uint64" -> {TwoTo[WordBits] - 1}
      [] row.kind = "bool" -> {TRUE}
      [] row.kind = "bytes" -> {<<7>>}
      [] row.kind = "fixed32" -> {<<1, 2, 3, 4>>}
      [] row.kind = "fixed64" -> {<<1, 2, 3, 4, 5, 6, 7, 8>>}
      [] row.repeated -> {<<Zero(row.kind)>>, <<Full(row.kind), Zero(row.kind)>>}
      [] OTHER -> {<<Zero(row.kind)>>, <<Full(row.kind)>>}

Full(t) == [n \in Names(t) |->
               CHOOSE v \in ValuesOf(RowOf(t, n)) :
                   \/ Cardinality(ValuesOf(RowOf(t, n))) = 1
                   \/ v # CHOOSE w \in ValuesOf(RowOf(t, n)) : TRUE]

\* Messages with at most two fields or all, and others to compare each with and
\* to write after it.
Messages(t) ==
    LET zero == Zero(t)
    IN {zero, Full(t)} \cup
       UNION {{[zero EXCEPT ![p[1]] = v, ![p[2]] = w] :
                  v \in ValuesOf(RowOf(t, p[1])), w \in ValuesOf(RowOf(t, p[2]))} :
              p \in Names(t) \X Names(t)}
Others(t, m) == {Full(t), m} \cup {[m EXCEPT ![n] = Full(t)[n]] : n \in Names(t)}
SampleMessages ==
    [t \in Types |-> UNION {{<<m, o>> : o \in Others(t, m)} : m \in Messages(t)}]

\* A varint, a fixed64, bytes, groups with a field and with a group in them, a
\* fixed32, and a number with a tag of two bytes.
Word0(number, word) == [number |-> number, type |-> 0, word |-> word, depth |-> 0]
Bytes0(number, wireType, bytes) ==
    [number |-> number, type |-> wireType, bytes |-> bytes, depth |-> 0]
Edge(number, wireType, depth) == [number |-> number, type |-> wireType, depth |-> depth]
In(u, depth) == [u EXCEPT !.depth = depth]
SampleFields ==
    {<<Word0(15, 129)>>, <<Bytes0(15, 1, <<0, 8, 16, 0, 0, 0, 0, 255>>)>>,
     <<Bytes0(15, 2, <<8, 8>>)>>,
     <<Edge(15, 3, 1), In(Word0(1, 5), 1), Edge(15, 4, 0)>>,
     <<Edge(15, 3, 1), Edge(1, 3, 2), In(Bytes0(2, 2, <<9>>), 2), Edge(1, 4, 1),
       Edge(15, 4, 0)>>,
     <<Bytes0(15, 5, <<0, 0, 0, 0>>)>>, <<Word0(16, 7)>>}

\* Payloads to sign with a key of 32 bytes, and a signature of 64 bytes that
\* depends on what is signed.
SamplePayloads ==
    [signer : [kit : {1, 2}, pub : {[k \in 1 .. 32 |-> k]}], hashKit : {0, 3},
     codec : {0, 200}, header : {<<>>, <<0, 4>>}, body : {<<>>, <<8>>, <<0, 0, 0>>}]
SampleSignature(hashed) ==
    [k \in 1 .. 64 |-> (k + Len(hashed) + FoldFunction(+, 0, hashed)) % 256]
==============================================================================

---------------------------- MODULE MessageRows ----------------------------
(***************************************************************************)
(* The rows of the lists in SkiMessages and AvMessages.  A kind is one of  *)
(* those named in WireFormat or the type of an embedded message.           *)
(***************************************************************************)

\* MarshalToSizedBuffer writes the tag and the field.
Put(tag, kind, name) == [tag |-> tag, kind |-> kind, name |-> name]

\* Size counts the field.
Count(kind, name) == [kind |-> kind, name |-> name]

\* Unmarshal sets the field with a number, or appends to it.
Read(number, kind, name) ==
    [number |-> number, kind |-> kind, name |-> name, repeated |-> FALSE]
Collect(number, kind, name) ==
    [number |-> number, kind |-> kind, name |-> name, repeated |-> TRUE]

\* Equal compares the values, or the messages.
Same(name) == [kind |-> "value", name |-> name]
SameMsg(kind, name) == [kind |-> kind, name |-> name]
=============================================================================

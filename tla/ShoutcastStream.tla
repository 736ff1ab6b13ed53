-------------------------- MODULE ShoutcastStream --------------------------
(***************************************************************************)
(* Stream.Read of src/amp/apps/amp.app.shoutcast/stream.go: a server sends *)
(* a metadata block after every metaint bytes of audio, and Read takes the *)
(* blocks out, wherever the reads of the connection happen to end.         *)
(*                                                                         *)
(* A byte is a record: an audio byte has its number, a block begins with   *)
(* its length and goes on with bytes that stand for its title.             *)
(***************************************************************************)
EXTENDS Naturals, SequencesExt

CONSTANTS
    MetaInt,      \* stream.metaint
    MetaUnit,     \* bytes per unit of a block's length (16)
    Titles,       \* a block has a title, or is empty
    BlockUnits,   \* its length in units
    NBlocks,      \* bound: blocks of the stream
    BufSizes      \* what callers give to Read

ASSUME StreamAssumption ==
    /\ MetaInt \in Nat \ {0} /\ MetaUnit \in Nat \ {0} /\ NBlocks \in Nat
    /\ Titles \subseteq Nat /\ BlockUnits \subseteq Nat /\ BufSizes \subseteq Nat

Byte(kind, n) == [kind |-> kind, n |-> n]
Stale == Byte("stale", 0)        \* what the caller's buffer had before
Empty == [units |-> 0, title |-> 0]
Blocks == {Empty} \cup [units : BlockUnits, title : Titles]

VARIABLES
    blocks,       \* what the server sends
    at,           \* bytes that were read from the connection
    pos,          \* stream.pos
    metadata,     \* stream.metadata: its raw bytes
    rd,           \* the Read in progress: its local variables
    out,          \* what the callers of Read have got (history)
    told,         \* calls of MetadataCallbackFunc (history)
    cut,          \* a block that reaches behind the n bytes that count has been
                  \* taken to be in the buffer, whose rest is stale (history)
    ended         \* an error has been returned

streamVars == <<blocks, at, pos, metadata, rd, out, told, cut, ended>>

Audio(k) == [j \in 1 .. MetaInt |-> Byte("audio", (k - 1) * MetaInt + j)]
Text(b) == [j \in 1 .. b.units * MetaUnit |-> Byte("meta", b.title)]
Sent == FlattenSeq([k \in DOMAIN blocks |->
            Audio(k) \o <<Byte("length", blocks[k].units)>> \o Text(blocks[k])])

NotReading == [pc |-> "idle", buf |-> <<>>, n |-> 0, checked |-> 0, unchecked |-> 0]

StreamInit ==
    /\ blocks \in [1 .. NBlocks -> Blocks]
    /\ at = 0 /\ pos = 0 /\ metadata = <<>> /\ rd = NotReading
    /\ out = <<>> /\ told = <<>> /\ cut = FALSE /\ ended = FALSE

-----------------------------------------------------------------------------
(* extractMetadata.                                                        *)

\* Its result for the rest of the buffer: the block's text or <<>>, and bytes that
\* it read itself.  A length of 0 is no block.  The mutant has no buffer of its own.
MutantOwnBuffer(bufIn, metaLen) == [text |-> Tail(bufIn), took |-> 0, ok |-> TRUE]
OwnBuffer(bufIn, metaLen) ==
    LET want == metaLen - (Len(bufIn) - 1)
        rest == Len(Sent) - at
        took == IF want <= rest THEN want ELSE rest
    IN [text |-> Tail(bufIn) \o SubSeq(Sent, at + 1, at + took), took |-> took,
        ok |-> took = want]

MetaLen(bufIn) == bufIn[1].n * MetaUnit
ExtractMetadata(bufIn) ==
    IF MetaLen(bufIn) = 0 THEN [text |-> <<>>, took |-> 0, ok |-> TRUE]
    ELSE IF Len(bufIn) >= MetaLen(bufIn) + 1
    THEN [text |-> SubSeq(bufIn, 2, MetaLen(bufIn) + 1), took |-> 0, ok |-> TRUE]
    ELSE OwnBuffer(bufIn, MetaLen(bufIn))

\* Metadata.Equals: a title that is sent again is not told.  The mutant tells all.
MutantEquals(a, b) == FALSE
Equals(a, b) == a = b

-----------------------------------------------------------------------------
(* Read.                                                                   *)

\* The connection gives some bytes, up to the size of the buffer.
ReadBytes ==
    /\ rd.pc = "idle" /\ ~ended /\ at < Len(Sent)
    /\ \E size \in BufSizes : \E n \in 1 .. size :
        /\ at + n <= Len(Sent) /\ at' = at + n
        /\ rd' = [pc |-> "check", n |-> n, checked |-> 0, unchecked |-> n,
                  buf |-> [j \in 1 .. size |-> IF j <= n THEN Sent[at + j] ELSE Stale]]
    /\ UNCHANGED <<blocks, pos, metadata, out, told, cut, ended>>

\* copy(buf[to:], buf[from:])
Shifted(buf, to, from) ==
    [j \in DOMAIN buf |-> IF j > to /\ j + (from - to) <= Len(buf) THEN buf[j + (from - to)]
                          ELSE buf[j]]

\* Is there a byte at the next block's place?
AtBlock == pos + rd.unchecked > MetaInt

\* One round of the loop.
TakeBlock ==
    /\ rd.pc = "check" /\ AtBlock
    /\ LET offset == MetaInt - pos
           from == rd.checked + offset
           bufIn == SubSeq(rd.buf, from + 1, Len(rd.buf))
           skip == MetaLen(bufIn) + 1
           x == ExtractMetadata(bufIn)
       IN /\ at' = at + x.took
          /\ cut' = (cut \/ (from + skip > rd.n /\ rd.n < Len(rd.buf)))
          /\ IF x.ok /\ x.text # <<>> /\ ~Equals(x.text, metadata)
             THEN metadata' = x.text /\ told' = Append(told, x.text)
             ELSE UNCHANGED <<metadata, told>>
          /\ ended' = (ended \/ ~x.ok)
          /\ rd' = IF offset + skip > rd.unchecked
                   THEN [rd EXCEPT !.n = from, !.unchecked = 0]
                   ELSE [rd EXCEPT !.checked = from, !.n = @ - skip,
                                   !.unchecked = rd.n - skip - from,
                                   !.buf = Shifted(@, from, from + skip)]
    /\ pos' = 0
    /\ UNCHANGED <<blocks, out>>

\* The mutant counts all that is returned, not what is behind the last block.
MutantCountBytes == pos + rd.n
CountBytes == pos + rd.unchecked

ReadReturns ==
    /\ rd.pc = "check" /\ ~AtBlock
    /\ pos' = CountBytes /\ out' = out \o SubSeq(rd.buf, 1, rd.n) /\ rd' = NotReading
    /\ UNCHANGED <<blocks, at, metadata, told, cut, ended>>

StreamNext == ReadBytes \/ TakeBlock \/ ReadReturns

StreamSpec == StreamInit /\ [][StreamNext]_streamVars

-----------------------------------------------------------------------------
StreamTypeOK ==
    /\ blocks \in [1 .. NBlocks -> Blocks]
    /\ at \in 0 .. Len(Sent) /\ pos \in 0 .. MetaInt
    /\ rd.pc \in {"idle", "check"} /\ rd.n \in 0 .. Len(rd.buf)
    /\ rd.checked + rd.unchecked <= rd.n
    /\ cut \in BOOLEAN /\ ended \in BOOLEAN

AllAudio == FlattenSeq([k \in DOMAIN blocks |-> Audio(k)])
Announced == FlattenSeq([k \in DOMAIN blocks |->
                 IF blocks[k].units = 0 THEN <<>> ELSE <<Text(blocks[k])>>])
Changes(texts) == FlattenSeq([k \in DOMAIN texts |->
                     IF k > 1 /\ texts[k] = texts[k - 1] THEN <<>> ELSE <<texts[k]>>])

\* The callers get the audio, in order and with nothing between: all of it
\* when the connection has given all.
InOrderAndWhole ==
    /\ IsPrefix(out, AllAudio)
    /\ rd.pc = "idle" /\ at = Len(Sent) => out = AllAudio

\* Titles are told in order, each change once, none that was not sent.
ToldTruly ==
    /\ IsPrefix(told, Changes(Announced))
    /\ rd.pc = "idle" /\ at = Len(Sent) => told = Changes(Announced)

\* Both hold wherever reads and blocks end, as long as no block reaches behind
\* the bytes that count where these end before the buffer does: in a read shorter
\* than the buffer, or in one that an earlier block has been taken out of.  Such
\* a block is taken to be in the buffer, and its rest is read as audio later.
AudioIfNotCut == ~cut => InOrderAndWhole
TitlesIfNotCut == ~cut => ToldTruly

\* Reads of any length split the stream into its audio and its titles, as long as
\* no block of metadata is cut off by the end of the bytes that count in a buffer.
StreamIsSplit == StreamTypeOK /\ AudioIfNotCut /\ TitlesIfNotCut
=============================================================================

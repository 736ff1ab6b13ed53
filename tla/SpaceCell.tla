----------------------------- MODULE SpaceCell -----------------------------
(***************************************************************************)
(* One cell of a mounted space and the pins on it                          *)
(* (src/amp/apps/amp.app.space/app.spaces.db.go).  Every pin is a          *)
(* goroutine running cellPin.execute: it commits the transaction of its    *)
(* request, if any, to the database and pushes it to the pins that         *)
(* maintain sync (commitTx, pushToPins); then it answers with a snapshot   *)
(* and, if its request asks for that, keeps in sync (addSync,              *)
(* pushSnapshot, the loop on changes).                                     *)
(*                                                                         *)
(* A transaction is named by the pin that commits it; a database state is  *)
(* the set of transactions in it.  plCell.rev is left out: nothing reads   *)
(* the revisions it hands out.                                             *)
(***************************************************************************)
EXTENDS Naturals, Sequences

CONSTANTS
    Pins,
    Committers,   \* the pins whose request carries a CommitTx
    Syncers,      \* the pins with StateSync_Maintain
    Onces,        \* the pins with StateSync_CloseOnSync
    NoPin,
    ChangesCap    \* capacity of cellPin.changes (4 in the code)

ASSUME SpaceCellAssumption ==
    /\ Committers \subseteq Pins /\ Syncers \subseteq Pins
    /\ Onces \subseteq Pins \ Syncers
    /\ NoPin \notin Pins
    /\ ChangesCap \in Nat \ {0}

VARIABLES
    db,         \* the transactions in the database
    cellPins,   \* plCell.pins
    pc,         \* where each pin's goroutine is
    closing,    \* the pins whose context is closing or request is cancelled
    todo,       \* the pins the fast pass of a committer has still to try
    missed,     \* the pins it found without room
    blockedOn,  \* the pin the slow pass of a committer is blocked on
    changes,    \* cellPin.changes
    snap,       \* the snapshot a pin has read
    hand,       \* the change a pin has received and not yet pushed
    seen        \* what a pin's client has been sent

cellVars == <<db, cellPins, pc, closing, todo, missed, blockedOn, changes, snap, hand, seen>>

CellInit ==
    /\ db = {} /\ cellPins = {} /\ closing = {}
    /\ pc = [p \in Pins |-> "new"]
    /\ todo = [p \in Pins |-> {}]
    /\ missed = [p \in Pins |-> {}]
    /\ blockedOn = [p \in Pins |-> NoPin]
    /\ changes = [p \in Pins |-> <<>>]
    /\ snap = [p \in Pins |-> {}]
    /\ hand = [p \in Pins |-> NoPin]
    /\ seen = [p \in Pins |-> {}]

Goto(p, l) == pc' = [pc EXCEPT ![p] = l]

\* What execute does once the commit is out: the switch on StateSync.  The
\* mutant reads the snapshot first and enters the list of pins afterwards.
MutantAfterCommit(p) == IF p \in Syncers \cup Onces THEN "read" ELSE "end"
AfterCommit(p) == CASE p \in Syncers -> "sync"
                    [] p \in Onces   -> "read"
                    [] OTHER         -> "end"

-----------------------------------------------------------------------------
(* commitTx and pushToPins                                                 *)

\* The database transaction commits, or fails and ends the pin.
Commit(p) ==
    /\ pc[p] = "new"
    /\ IF p \in Committers
       THEN \/ db' = db \cup {p} /\ Goto(p, "push")
            \/ UNCHANGED db /\ Goto(p, "end")
       ELSE UNCHANGED db /\ Goto(p, AfterCommit(p))
    /\ UNCHANGED <<cellPins, closing, todo, missed, blockedOn, changes, snap, hand, seen>>

\* The list of pins is copied under pinsMu.
CopyPins(p) ==
    /\ pc[p] = "push"
    /\ todo' = [todo EXCEPT ![p] = cellPins]
    /\ Goto(p, "fast")
    /\ UNCHANGED <<db, cellPins, closing, missed, blockedOn, changes, snap, hand, seen>>

\* The channel of q takes a transaction without blocking.
MutantRoom(q) == Len(changes[q]) <= ChangesCap
Room(q) == Len(changes[q]) < ChangesCap
Send(p, q) == changes' = [changes EXCEPT ![q] = Append(@, p)]

\* The fast pass serves whoever has room.
FastPush(p) ==
    /\ pc[p] = "fast"
    /\ \/ \E q \in todo[p] :
            /\ todo' = [todo EXCEPT ![p] = @ \ {q}]
            /\ IF Room(q)
               THEN Send(p, q) /\ UNCHANGED missed
               ELSE missed' = [missed EXCEPT ![p] = @ \cup {q}] /\ UNCHANGED changes
            /\ UNCHANGED pc
       \/ todo[p] = {} /\ Goto(p, "slow") /\ UNCHANGED <<todo, missed, changes>>
    /\ UNCHANGED <<db, cellPins, closing, blockedOn, snap, hand, seen>>

\* The slow pass takes the pins it missed one at a time.
SlowNext(p) ==
    /\ pc[p] = "slow" /\ blockedOn[p] = NoPin
    /\ \/ \E q \in missed[p] :
            /\ blockedOn' = [blockedOn EXCEPT ![p] = q]
            /\ missed' = [missed EXCEPT ![p] = @ \ {q}]
            /\ UNCHANGED pc
       \/ missed[p] = {} /\ Goto(p, AfterCommit(p)) /\ UNCHANGED <<missed, blockedOn>>
    /\ UNCHANGED <<db, cellPins, closing, todo, changes, snap, hand, seen>>

\* pin.ctx.Closing() releases the slow pass; the mutant has no such case.
MutantGaveUp(q) == FALSE
GaveUp(q) == q \in closing

SlowPush(p) ==
    LET q == blockedOn[p]
    IN /\ pc[p] = "slow" /\ q # NoPin
       /\ \/ Room(q) /\ Send(p, q)
          \/ GaveUp(q) /\ UNCHANGED changes
       /\ blockedOn' = [blockedOn EXCEPT ![p] = NoPin]
       /\ UNCHANGED <<db, cellPins, pc, closing, todo, missed, snap, hand, seen>>

-----------------------------------------------------------------------------
(* execute: the answer and the sync                                        *)

AddSync(p) ==
    /\ pc[p] = "sync"
    /\ cellPins' = cellPins \cup {p}
    /\ Goto(p, "read")
    /\ UNCHANGED <<db, closing, todo, missed, blockedOn, changes, snap, hand, seen>>

\* pushSnapshot reads the database in one read transaction.
ReadSnapshot(p) ==
    /\ pc[p] = "read"
    /\ snap' = [snap EXCEPT ![p] = db]
    /\ Goto(p, "answer")
    /\ UNCHANGED <<db, cellPins, closing, todo, missed, blockedOn, changes, hand, seen>>

\* op.PushTx of the snapshot; it fails only if the pin or its request closes.
PushSnapshot(p) ==
    /\ pc[p] = "answer"
    /\ \/ /\ seen' = [seen EXCEPT ![p] = @ \cup snap[p]]
          /\ Goto(p, IF p \in Syncers THEN "loop" ELSE "end")
       \/ p \in closing /\ Goto(p, "end") /\ UNCHANGED seen
    /\ UNCHANGED <<db, cellPins, closing, todo, missed, blockedOn, changes, snap, hand>>

ReceiveChange(p) ==
    /\ pc[p] = "loop" /\ changes[p] # <<>>
    /\ hand' = [hand EXCEPT ![p] = Head(changes[p])]
    /\ changes' = [changes EXCEPT ![p] = Tail(@)]
    /\ Goto(p, "deliver")
    /\ UNCHANGED <<db, cellPins, closing, todo, missed, blockedOn, snap, seen>>

\* op.PushTx of a change; the mutant's loop runs only once.
MutantDeliver(p) ==
    /\ pc[p] = "deliver"
    /\ seen' = [seen EXCEPT ![p] = @ \cup {hand[p]}] /\ Goto(p, "end")
    /\ hand' = [hand EXCEPT ![p] = NoPin]
    /\ UNCHANGED <<db, cellPins, closing, todo, missed, blockedOn, changes, snap>>
Deliver(p) ==
    /\ pc[p] = "deliver"
    /\ \/ seen' = [seen EXCEPT ![p] = @ \cup {hand[p]}] /\ Goto(p, "loop")
       \/ p \in closing /\ Goto(p, "end") /\ UNCHANGED seen
    /\ hand' = [hand EXCEPT ![p] = NoPin]
    /\ UNCHANGED <<db, cellPins, closing, todo, missed, blockedOn, changes, snap>>

\* The loop ends on Closing.  Nothing takes the pin out of cellPins:
\* removeSync hangs on OnChildClosing of the pin's own task, which has no
\* children.
LeaveLoop(p) ==
    /\ pc[p] = "loop" /\ p \in closing
    /\ Goto(p, "end")
    /\ UNCHANGED <<db, cellPins, closing, todo, missed, blockedOn, changes, snap, hand, seen>>

\* The client or the session closes the pin's request, or the pin is idle
\* (IdleClose) because it has ended.
ClosePin(p) ==
    /\ pc[p] # "new"
    /\ closing' = closing \cup {p}
    /\ UNCHANGED <<db, cellPins, pc, todo, missed, blockedOn, changes, snap, hand, seen>>

-----------------------------------------------------------------------------
PinStep(p) ==
    \/ CopyPins(p) \/ FastPush(p) \/ SlowNext(p) \/ SlowPush(p)
    \/ AddSync(p) \/ ReadSnapshot(p) \/ ReceiveChange(p) \/ LeaveLoop(p)

PushToClient(p) == PushSnapshot(p) \/ Deliver(p)

CellNext == \E p \in Pins : Commit(p) \/ PinStep(p) \/ PushToClient(p) \/ ClosePin(p)

\* A pin that is launched runs on, and one that has ended is closed by
\* IdleClose.  PushTx waits for room in the session's txOut, so it returns
\* when the client reads, which it may stop to do for good, or when the pin or
\* its request is closed.
CellFairness == \A p \in Pins : /\ WF_cellVars(PinStep(p) \/ (p \in closing /\ PushToClient(p)))
                            /\ WF_cellVars(pc[p] = "end" /\ ClosePin(p))

CellSafetySpec == CellInit /\ [][CellNext]_cellVars
CellSpec == CellSafetySpec /\ CellFairness

-----------------------------------------------------------------------------
Queued(p) == {changes[p][i] : i \in 1 .. Len(changes[p])}

\* The type invariant: in particular a changes channel never overflows, and
\* only pins that maintain sync are ever listed.
CellTypeOK ==
    /\ db \in SUBSET Committers
    /\ cellPins \in SUBSET Syncers
    /\ pc \in [Pins -> {"new", "push", "fast", "slow", "sync", "read",
                        "answer", "loop", "deliver", "end"}]
    /\ closing \in SUBSET Pins
    /\ todo \in [Pins -> SUBSET Syncers]
    /\ missed \in [Pins -> SUBSET Syncers]
    /\ blockedOn \in [Pins -> Syncers \cup {NoPin}]
    /\ changes \in [Pins -> Seq(Committers)]
    /\ \A p \in Pins : Len(changes[p]) <= ChangesCap
    /\ snap \in [Pins -> SUBSET Committers]
    /\ hand \in [Pins -> Committers \cup {NoPin}]
    /\ seen \in [Pins -> SUBSET Committers]

\* The commit of c is on its way to the pin p: pushToPins has not copied the
\* list yet, or has still to push to p.
OnTheWay(c, p) ==
    \/ pc[c] = "push"
    \/ pc[c] = "fast" /\ p \in todo[c] \cup missed[c]
    \/ pc[c] = "slow" /\ p \in missed[c] \cup {blockedOn[c]}

\* No update is lost between a snapshot and the changes after it: once a pin
\* in sync has read its snapshot, every committed transaction is in what its
\* client was sent, in the snapshot, in the channel, in the pin's hand or on
\* the way, whatever commits run between addSync, the read and the answer.
NoLostUpdate ==
    \A p \in Syncers : pc[p] \in {"answer", "loop", "deliver"} =>
        p \in closing \/
        \A c \in db : \/ c \in seen[p] \cup Queued(p) \cup {hand[p]}
                      \/ pc[p] = "answer" /\ c \in snap[p]
                      \/ OnTheWay(c, p)

\* PushTx holds the pin while its client does not read.
Stalled(p) == pc[p] \in {"answer", "deliver"} /\ p \notin closing

\* The slow pass of c is held up by an open pin whose client has stopped reading.
HeldUp(c) == \E q \in Syncers : blockedOn[c] = q /\ Stalled(q)

\* A pin in sync sends its client every transaction that is committed, unless
\* it is closed while it is at it (a pin that ends of itself is closed too,
\* but only then), its client has stopped reading for good, or that of
\* another pin has, which then holds up the commit's slow pass.
InSync == \A p \in Syncers : \A c \in Committers :
    \/ (c \in db /\ pc[p] = "loop")
          ~> (c \in seen[p] \/ (p \in closing /\ pc[p] # "end"))
    \/ <>[](Stalled(p) \/ HeldUp(c))

\* A committer gets through pushToPins: no full channel of a closed pin that
\* is still listed holds it up for good.  Only an open pin does, whose client
\* has stopped reading: nothing in the code bounds that wait.
CommitReturns == \A c \in Committers :
    (c \in db ~> pc[c] \notin {"push", "fast", "slow"}) \/ <>[]HeldUp(c)

=============================================================================

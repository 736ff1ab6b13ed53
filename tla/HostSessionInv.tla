--------------------------- MODULE HostSessionInv ---------------------------
(***************************************************************************)
(* The inductive invariant behind the safety properties of HostSession, as *)
(* named parts.  HostSessionProofs proves that every step preserves it.    *)
(***************************************************************************)
EXTENDS HostSession

\* What each caller of closeOp holds, and that only a goroutine that waits
\* for its call of closeOp has one in progress.
CallShape ==
    /\ \A c \in Callers :
         /\ callPc[c] \in {"detach", "quiet"} => callId[c] \in Reqs
         /\ IF callPc[c] \in {"send", "cancel", "pin"}
            THEN callOp[c] \in Ops /\ closed[callOp[c]]
            ELSE callOp[c] = NoOp
    /\ callPc[Inbox] # "idle" => inPc \in {"close", "closeAll"}
    /\ \A a \in Apps : callPc[a] # "idle" => appPc[a] = "fail"
    /\ \A o \in Ops : callPc[o] # "idle" => pinPc[o] \in {"synced", "end"}

\* No app and no pin has the op.
Unsubmitted(o) ==
    /\ ~started[o] /\ pinPc[o] = "none"
    /\ \A a \in Apps : appIn[a] # o /\ appOp[a] # o

\* What the session task has in hand.
InboxShape ==
    /\ inPc \in {"close", "add", "await", "submit", "send"} => inTx \in Tx
    /\ inPc \in {"add", "await", "submit", "send"} => inTx.kind = "Open"
    /\ inPc \in {"await", "submit", "send"} =>
           inOp \in Ops /\ opId[inOp] = inTx.req /\ Unsubmitted(inOp)
    /\ inPc = "await" => inTx.parent \in Reqs /\ openOps[inTx.parent] \in Ops
    /\ inPc = "send" => opApp[inOp] \in Apps
    /\ inPc = "exit" => callPc[Inbox] = "idle"

\* Whatever an app or a pin works on is a registered op of that app.
AppShape ==
    /\ \A a \in Apps :
         /\ appPc[a] \in {"serve", "launched", "fail"} => appOp[a] \in Ops
         /\ appOp[a] # NoOp =>
                opId[appOp[a]] \in Reqs /\ opApp[appOp[a]] = a
         /\ appPc[a] = "serve" => pinPc[appOp[a]] = "none"
         /\ appIn[a] # NoOp =>
                /\ opId[appIn[a]] \in Reqs /\ opApp[appIn[a]] = a
                /\ appIn[a] # appOp[a] /\ pinPc[appIn[a]] = "none"
    /\ \A o \in Ops : pinPc[o] # "none" \/ started[o] => opId[o] \in Reqs
    /\ \A o \in Ops : started[o] => opApp[o] \in Apps

ShapeInv == CallShape /\ InboxShape /\ AppShape

\* A registered op stays in openOps until a call of closeOp detaches it, and
\* that call stays with it until it has closed its cancel channel.
NoLostClose ==
    /\ \A r \in Reqs : openOps[r] # NoOp =>
           opId[openOps[r]] = r /\ ~closed[openOps[r]]
    /\ \A o \in Ops : IF opId[o] \in Reqs THEN openOps[opId[o]] = o \/ closed[o]
                                         ELSE ~closed[o]
    /\ \A o \in Ops : closed[o] /\ ~cancel[o] =>
           \E c \in Callers : callOp[c] = o /\ callPc[c] \in {"send", "cancel"}

\* While closeAllReqs runs, what is still open is in its snapshot or is the
\* request it is closing.
SnapshotCovers ==
    /\ inPc = "closeAll" =>
         \A r \in Reqs : openOps[r] # NoOp =>
             r \in toClose \/ (callPc[Inbox] = "detach" /\ callId[Inbox] = r)
    /\ NoOpSurvivesInbox

CloseInv == NoLostClose /\ SnapshotCovers

ParentInv ==
    /\ \A o \in Ops : opId[o] = NoReq => opParent[o] = NoOp
    /\ ChildServedByParent

\* With fresh IDs an ID names one op, and each caller closes by its own ID.
OwnerInv ==
    FreshIds =>
      /\ \A o1, o2 \in Ops : opId[o1] = opId[o2] /\ opId[o1] \in Reqs => o1 = o2
      /\ inPc = "add" => inTx.req \notin UsedIds
      /\ inPc = "close" /\ inTx.kind = "Open" =>
           /\ \A o \in Ops : opId[o] = inTx.req => Unsubmitted(o)
           /\ callPc[Inbox] # "quiet"
           /\ callPc[Inbox] = "detach" => callId[Inbox] = inTx.req
           /\ callOp[Inbox] # NoOp => opId[callOp[Inbox]] = inTx.req
      /\ \A o \in Ops : /\ callPc[o] # "quiet"
                        /\ callPc[o] = "detach" => callId[o] = opId[o]
      /\ \A a \in Apps : /\ callPc[a] # "quiet"
                         /\ callPc[a] = "detach" => callId[a] = opId[appOp[a]]
      /\ ClosesOwnOp

SessionInv == ShapeInv /\ CloseInv /\ ParentInv /\ OwnerInv
=============================================================================

---------------------------- MODULE HostSession ----------------------------
(***************************************************************************)
(* The request lifecycle of one logged-in session of the host              *)
(* (src/amp/host/host.go).  Four kinds of goroutine share it:              *)
(*                                                                         *)
(*   - the session task (consumeInbox): registers the requests ("client    *)
(*     ops") the client opens, hands them to apps, closes them;            *)
(*   - one loop per app context: serves the op in the app's inbox (a       *)
(*     channel of capacity one) by launching a pin;                        *)
(*   - one goroutine per pin: pushes messages to the client and reports    *)
(*     the end of its request with OnComplete;                             *)
(*   - the transport's reader and writer tasks.                            *)
(*                                                                         *)
(* They meet in openOps (under openOpsMu), in the channels started and     *)
(* cancel of every op, in the bounded channel txOut, and in closeOp, which *)
(* any of them may be running at the same time as any other.               *)
(***************************************************************************)
EXTENDS Naturals

CONSTANTS
    MaxOps,     \* how many clientOps the session allocates at most
    Reqs,       \* the request IDs the client uses
    Apps,       \* the apps a request's URL can name
    Inbox,      \* the session task, as a caller of closeOp
    NoOp, NoReq, NoApp, NoTx,
    OutCap,     \* capacity of session.txOut (4 in the code)
    FreshIds    \* TRUE: the client never opens a request with a used ID

Ops == 1 .. MaxOps    \* the clientOps, in the order of their allocation
Callers == {Inbox} \cup Apps \cup Ops    \* the goroutines that run closeOp

ASSUME HostSessionAssumption ==
    /\ MaxOps \in Nat /\ OutCap \in Nat \ {0}
    /\ FreshIds \in BOOLEAN
    /\ NoOp \notin Ops /\ NoReq \notin Reqs /\ NoApp \notin Apps
    /\ Apps \cap Ops = {} /\ Inbox \notin Apps \cup Ops
    /\ NoTx \notin [kind : {"Open", "Closed"}, req : Reqs,
                    parent : Reqs \cup {NoReq}]

Tx == [kind : {"Open", "Closed"}, req : Reqs, parent : Reqs \cup {NoReq}]

VARIABLES
    closing,    \* the session context has begun to close
    viaPc,      \* where the writer task is, whose end closes the transport
    txOut,      \* how many messages the channel session.txOut holds
    inPc,       \* where the session task is
    inTx,       \* the message it is handling
    inOp,       \* the op it is handling
    toClose,    \* the IDs closeAllReqs still has to close
    openOps,    \* request ID -> open op
    opId,       \* clientOp.req.ID
    opApp,      \* clientOp.appCtx
    opParent,   \* clientOp.parent, as the op whose pin it is
    started,    \* clientOp.pin is assigned and the channel started closed
    closed,     \* clientOp.closed
    cancel,     \* the channel clientOp.cancel is closed
    pinPc,      \* where the goroutine of the op's pin is
    pinClosing, \* the context of the op's pin is closing
    appPc,      \* where the loop of each app context is
    appIn,      \* the op in each app context's inbox (capacity one)
    appOp,      \* the op each app context is serving
    callPc,     \* where each caller of closeOp is
    callId,     \* the request ID it was called with
    callOp      \* the op it has detached

inVars   == <<inPc, inTx, inOp, toClose>>
opVars   == <<openOps, opId, opApp, opParent, started, closed, cancel>>
pinVars  == <<pinPc, pinClosing>>
appVars  == <<appPc, appIn, appOp>>
callVars == <<callPc, callId, callOp>>
vars == <<closing, viaPc, txOut, inVars, opVars, pinVars, appVars, callVars>>

Init ==
    /\ closing = FALSE
    /\ viaPc = "idle"
    /\ txOut = 0
    /\ inPc = "idle" /\ inTx = NoTx /\ inOp = NoOp /\ toClose = {}
    /\ openOps = [r \in Reqs |-> NoOp]
    /\ opId = [o \in Ops |-> NoReq]
    /\ opApp = [o \in Ops |-> NoApp]
    /\ opParent = [o \in Ops |-> NoOp]
    /\ started = [o \in Ops |-> FALSE]
    /\ closed = [o \in Ops |-> FALSE]
    /\ cancel = [o \in Ops |-> FALSE]
    /\ pinPc = [o \in Ops |-> "none"]
    /\ pinClosing = [o \in Ops |-> FALSE]
    /\ \E boot \in Apps :    \* handleLogin has started the space app
           appPc = [a \in Apps |-> IF a = boot THEN "idle" ELSE "none"]
    /\ appIn = [a \in Apps |-> NoOp]
    /\ appOp = [a \in Apps |-> NoOp]
    /\ callPc = [c \in Callers |-> "idle"]
    /\ callId = [c \in Callers |-> NoReq]
    /\ callOp = [c \in Callers |-> NoOp]

-----------------------------------------------------------------------------
(* closeOp, run by any of its callers.                                     *)

\* The operators named Mutant... are faults a careless edit could bring in;
\* nothing below uses them.  Each run's properties are known to notice them.

\* addClientOp is the one holder of openOpsMu that waits while it holds it.
MuFree == inPc # "await"

\* The call closeOp(r, err, TRUE); closeOp(r, nil, FALSE) starts at "quiet".
StartClose(c, r, at) ==
    /\ callPc' = [callPc EXCEPT ![c] = at]
    /\ callId' = [callId EXCEPT ![c] = r]
    /\ UNCHANGED callOp

\* detachOp, then the compare-and-swap on closed: the call goes on only with
\* an op that was registered under the ID and that no call has closed.
Detach(c) ==
    LET r == callId[c]
        o == openOps[r]
    IN /\ callPc[c] \in {"detach", "quiet"}
       /\ MuFree
       /\ openOps' = [openOps EXCEPT ![r] = NoOp]
       /\ IF o # NoOp /\ ~closed[o]
          THEN /\ closed' = [closed EXCEPT ![o] = TRUE]
               /\ callOp' = [callOp EXCEPT ![c] = o]
               /\ callPc' = [callPc EXCEPT ![c] =
                                IF callPc[c] = "quiet" THEN "cancel" ELSE "send"]
          ELSE /\ callPc' = [callPc EXCEPT ![c] = "idle"]
               /\ UNCHANGED <<closed, callOp>>
       /\ callId' = [callId EXCEPT ![c] = NoReq]
       /\ UNCHANGED <<closing, viaPc, txOut, inVars, opId, opApp, opParent,
                      started, cancel, pinVars, appVars>>

\* The channel txOut takes a message without blocking.
MutantRoom == txOut <= OutCap
Room == txOut < OutCap

\* sendClose: blocks on a full txOut until the session is closing, and then
\* the notice may be lost.  The mutant returns on ErrShuttingDown.
MutantSendClose(c) ==
    /\ callPc[c] = "send"
    /\ \/ Room /\ txOut' = txOut + 1 /\ callPc' = [callPc EXCEPT ![c] = "cancel"]
       \/ closing /\ UNCHANGED txOut /\ callPc' = [callPc EXCEPT ![c] = "pin"]
    /\ UNCHANGED <<closing, viaPc, inVars, opVars, pinVars, appVars,
                   callId, callOp>>
SendClose(c) ==
    /\ callPc[c] = "send"
    /\ \/ Room /\ txOut' = txOut + 1
       \/ closing /\ UNCHANGED txOut
    /\ callPc' = [callPc EXCEPT ![c] = "cancel"]
    /\ UNCHANGED <<closing, viaPc, inVars, opVars, pinVars, appVars,
                   callId, callOp>>

CloseCancel(c) ==
    /\ callPc[c] = "cancel"
    /\ cancel' = [cancel EXCEPT ![callOp[c]] = TRUE]
    /\ callPc' = [callPc EXCEPT ![c] = "pin"]
    /\ UNCHANGED <<closing, viaPc, txOut, inVars, openOps, opId, opApp,
                   opParent, started, closed, pinVars, appVars,
                   callId, callOp>>

\* op.pin != nil; the mutant takes a cancelled op for one without a pin.
MutantHasPin(o) == started[o] /\ ~cancel[o]
HasPin(o) == started[o]

\* if op.pin != nil: close the pin's context.
ClosePin(c) ==
    LET o == callOp[c]
    IN /\ callPc[c] = "pin"
       /\ pinClosing' = [pinClosing EXCEPT ![o] = pinClosing[o] \/ HasPin(o)]
       /\ callPc' = [callPc EXCEPT ![c] = "idle"]
       /\ callOp' = [callOp EXCEPT ![c] = NoOp]
       /\ UNCHANGED <<closing, viaPc, txOut, inVars, opVars, pinPc, appVars,
                      callId>>

CloseStep(c) == Detach(c) \/ SendClose(c) \/ CloseCancel(c) \/ ClosePin(c)

-----------------------------------------------------------------------------
(* The session task: consumeInbox, handleIncomingOp, addClientOp,          *)
(* submitToApp, closeAllReqs.                                              *)

UsedIds == {opId[o] : o \in Ops}    \* with NoReq while an op is left

\* The task turns to closeOp for the ID of the message in hand; FinishTx
\* resumes it.
InboxClose(r, at) ==
    /\ inPc' = "close"
    /\ StartClose(Inbox, r, at)

\* A message of the client reaches the task through the reader.  A Closed
\* status closes the request without a notice; an attribute that is neither
\* a transaction nor a PinRequest is refused; all else goes to addClientOp.
\* (MaxOps bounds the requests: the client opens none that could not get an
\* op.)
RecvTx ==
    /\ inPc = "idle"
    /\ \E tx \in Tx :
         /\ inTx' = tx
         /\ \/ /\ tx.kind = "Closed" /\ tx.parent = NoReq
               /\ InboxClose(tx.req, "quiet")
            \/ /\ tx.kind = "Open"
               /\ NoReq \in UsedIds
               /\ FreshIds => tx.req \notin UsedIds
               /\ \/ InboxClose(tx.req, "detach")
                  \/ inPc' = "add" /\ UNCHANGED callVars
    /\ UNCHANGED <<closing, viaPc, txOut, inOp, toClose, opVars, pinVars,
                   appVars>>

\* closeOp(newReqID, err, true); the mutant names the context of the message.
MutantRefusedId == IF inTx.parent # NoReq THEN inTx.parent ELSE inTx.req
RefusedId == inTx.req

Refuse == InboxClose(RefusedId, "detach") /\ UNCHANGED <<inTx, inOp, toClose>>

\* addClientOp up to the wait for the parent.  The op is registered before
\* its parent is looked up.
AddClientOp ==
    LET r == inTx.req
    IN /\ inPc = "add"
       /\ IF openOps[r] # NoOp
          THEN Refuse /\ UNCHANGED opVars
          ELSE \E o \in Ops :
               /\ opId[o] = NoReq /\ \A x \in 1 .. o - 1 : opId[x] # NoReq
               /\ opId' = [opId EXCEPT ![o] = r]
               /\ openOps' = [openOps EXCEPT ![r] = o]
               /\ UNCHANGED <<opApp, opParent, started, closed, cancel>>
               /\ IF inTx.parent # NoReq /\ openOps'[inTx.parent] = NoOp
                  THEN Refuse
                  ELSE /\ inPc' = IF inTx.parent = NoReq THEN "submit"
                                                         ELSE "await"
                       /\ inOp' = o
                       /\ UNCHANGED <<inTx, toClose, callVars>>
       /\ UNCHANGED <<closing, viaPc, txOut, pinVars, appVars>>

Parent == openOps[inTx.parent]   \* stable while openOpsMu is held

\* <-op.started; the mutant does not wait.
MutantReady(o) == TRUE
Ready(o) == started[o]

\* parentReq.WaitOnReady(), with openOpsMu held: blocks until the parent has
\* started, then refuses if the parent is cancelled or its pin is closing.
WaitOnReady ==
    /\ inPc = "await"
    /\ Ready(Parent)
    /\ IF cancel[Parent] \/ pinClosing[Parent]
       THEN Refuse /\ UNCHANGED opVars
       ELSE /\ opApp' = [opApp EXCEPT ![inOp] = opApp[Parent]]
            /\ opParent' = [opParent EXCEPT ![inOp] = Parent]
            /\ inPc' = "submit"
            /\ UNCHANGED <<openOps, opId, started, closed, cancel,
                           inTx, inOp, toClose, callVars>>
    /\ UNCHANGED <<closing, viaPc, txOut, pinVars, appVars>>

\* submitToApp up to the send: a URL that does not parse or names no app, or
\* an app that does not start, refuses the request; a child keeps its
\* parent's app; a missing app context is started unless the session closes.
SubmitToApp ==
    /\ inPc = "submit"
    /\ \/ Refuse /\ UNCHANGED <<opVars, appVars>>
       \/ \E a \in Apps :
            /\ opApp[inOp] \in {NoApp, a}
            /\ appPc[a] = "none" => ~closing
            /\ appPc' = [appPc EXCEPT ![a] = IF @ = "none" THEN "idle" ELSE @]
            /\ opApp' = [opApp EXCEPT ![inOp] = a]
            /\ inPc' = "send"
            /\ UNCHANGED <<openOps, opId, opParent, started, closed, cancel,
                           appIn, appOp, inTx, inOp, toClose, callVars>>
    /\ UNCHANGED <<closing, viaPc, txOut, pinVars>>

\* op.appCtx.inbox <- op
SendToApp ==
    LET a == opApp[inOp]
    IN /\ inPc = "send"
       /\ appIn[a] = NoOp
       /\ appIn' = [appIn EXCEPT ![a] = inOp]
       /\ inPc' = "idle" /\ inTx' = NoTx /\ inOp' = NoOp
       /\ UNCHANGED <<closing, viaPc, txOut, toClose, opVars, pinVars,
                      appPc, appOp, callVars>>

\* The call of closeOp has returned.
FinishTx ==
    /\ inPc = "close" /\ callPc[Inbox] = "idle"
    /\ inPc' = "idle" /\ inTx' = NoTx /\ inOp' = NoOp
    /\ UNCHANGED <<closing, viaPc, txOut, toClose, opVars, pinVars, appVars,
                   callVars>>

\* The keys of openOps; the mutant forgets those whose op is not on service.
MutantOpenIds == {r \in Reqs : openOps[r] # NoOp /\ started[openOps[r]]}
OpenIds == {r \in Reqs : openOps[r] # NoOp}

\* closeAllReqs: the open IDs are snapshot, then closed one by one.
CloseAllReqs ==
    /\ inPc = "idle" /\ closing
    /\ toClose' = OpenIds
    /\ inPc' = "closeAll"
    /\ UNCHANGED <<closing, viaPc, txOut, inTx, inOp, opVars, pinVars,
                   appVars, callVars>>

CloseNextReq ==
    /\ inPc = "closeAll" /\ callPc[Inbox] = "idle"
    /\ \E r \in toClose :
         /\ toClose' = toClose \ {r}
         /\ StartClose(Inbox, r, "detach")
    /\ UNCHANGED <<closing, viaPc, txOut, inPc, inTx, inOp, opVars, pinVars,
                   appVars>>

InboxExit ==
    /\ inPc = "closeAll" /\ callPc[Inbox] = "idle" /\ toClose = {}
    /\ inPc' = "exit"
    /\ UNCHANGED <<closing, viaPc, txOut, inTx, inOp, toClose, opVars,
                   pinVars, appVars, callVars>>

InboxStep == \/ AddClientOp \/ WaitOnReady \/ SubmitToApp \/ SendToApp
             \/ FinishTx \/ CloseAllReqs \/ CloseNextReq \/ InboxExit

-----------------------------------------------------------------------------
(* The loop of an app context (appContextForAppID, startOp).               *)

TakeOp(a) ==
    /\ appPc[a] = "idle" /\ appIn[a] # NoOp
    /\ appPc' = [appPc EXCEPT ![a] = "serve"]
    /\ appOp' = [appOp EXCEPT ![a] = appIn[a]]
    /\ appIn' = [appIn EXCEPT ![a] = NoOp]
    /\ UNCHANGED <<closing, viaPc, txOut, inVars, opVars, pinVars, callVars>>

\* ServeRequest of the parent's pin if the op has one, of the app instance
\* otherwise; op.parent is dropped.  It launches a pin, or fails, and then
\* the loop closes the request itself; started stays open for ever.
ServeRequest(a) ==
    LET o == appOp[a]
    IN /\ appPc[a] = "serve"
       /\ opParent' = [opParent EXCEPT ![o] = NoOp]
       /\ \/ /\ pinPc' = [pinPc EXCEPT ![o] = "run"]
             /\ appPc' = [appPc EXCEPT ![a] = "launched"]
             /\ UNCHANGED callVars
          \/ /\ StartClose(a, opId[o], "detach")
             /\ appPc' = [appPc EXCEPT ![a] = "fail"]
             /\ UNCHANGED pinPc
       /\ UNCHANGED <<closing, viaPc, txOut, inVars, openOps, opId, opApp,
                      started, closed, cancel, pinClosing, appIn, appOp>>

\* op.pin is assigned only once ServeRequest has returned, while the pin is
\* already running; then started is closed.
OpStarted(a) ==
    /\ appPc[a] = "launched"
    /\ started' = [started EXCEPT ![appOp[a]] = TRUE]
    /\ appPc' = [appPc EXCEPT ![a] = "idle"]
    /\ appOp' = [appOp EXCEPT ![a] = NoOp]
    /\ UNCHANGED <<closing, viaPc, txOut, inVars, openOps, opId, opApp,
                   opParent, closed, cancel, pinVars, appIn, callVars>>

OpFailed(a) ==
    /\ appPc[a] = "fail" /\ callPc[a] = "idle"
    /\ appPc' = [appPc EXCEPT ![a] = "idle"]
    /\ appOp' = [appOp EXCEPT ![a] = NoOp]
    /\ UNCHANGED <<closing, viaPc, txOut, inVars, opVars, pinVars, appIn,
                   callVars>>

AppExit(a) ==
    /\ appPc[a] = "idle" /\ closing
    /\ appPc' = [appPc EXCEPT ![a] = "exit"]
    /\ UNCHANGED <<closing, viaPc, txOut, inVars, opVars, pinVars, appIn,
                   appOp, callVars>>

AppStep(a) == \/ TakeOp(a) \/ ServeRequest(a) \/ OpStarted(a) \/ OpFailed(a)
              \/ AppExit(a)

-----------------------------------------------------------------------------
(* The goroutine of a pin: PushTx to the client, OnComplete at the end.    *)

\* The message enters txOut, or PushTx gives up on cancel or on the closing
\* of op.pin.  A message with the Closed status ends the request in PushTx.
PushTx(o) ==
    /\ pinPc[o] = "run"
    /\ \/ Room /\ txOut' = txOut + 1
       \/ (cancel[o] \/ (started[o] /\ pinClosing[o])) /\ UNCHANGED txOut
    /\ \/ UNCHANGED <<pinPc, callVars>>
       \/ /\ StartClose(o, opId[o], "detach")
          /\ pinPc' = [pinPc EXCEPT ![o] = "synced"]
    /\ UNCHANGED <<closing, viaPc, inVars, opVars, pinClosing, appVars>>

\* The pin's OnRun returns and reports OnComplete: its work is done or has
\* failed, its context is closing, or it has pushed its last message.
PinReturns(o) ==
    /\ \/ pinPc[o] = "run"
       \/ pinPc[o] = "synced" /\ callPc[o] = "idle"
    /\ StartClose(o, opId[o], "detach")
    /\ pinPc' = [pinPc EXCEPT ![o] = "end"]
    /\ UNCHANGED <<closing, viaPc, txOut, inVars, opVars, pinClosing, appVars>>

PinDone(o) ==
    /\ pinPc[o] = "end" /\ callPc[o] = "idle"
    /\ pinPc' = [pinPc EXCEPT ![o] = "done"]
    /\ UNCHANGED <<closing, viaPc, txOut, inVars, opVars, pinClosing,
                   appVars, callVars>>

\* The pin's context closes below a closing session.  (It also closes when
\* its goroutine is done, with nobody left to see it.)
PinCtxClose(o) ==
    /\ closing /\ pinPc[o] \notin {"none", "done"}
    /\ pinClosing' = [pinClosing EXCEPT ![o] = TRUE]
    /\ UNCHANGED <<closing, viaPc, txOut, inVars, opVars, pinPc, appVars,
                   callVars>>

-----------------------------------------------------------------------------
(* The session context and the transport's two tasks (StartNewSession).    *)

\* <-sess.Done(): the session task and everything below it has ended.
Done ==
    /\ closing /\ inPc = "exit"
    /\ \A a \in Apps : appPc[a] \in {"none", "exit"}
    /\ \A o \in Ops : pinPc[o] \in {"none", "done"}

\* RecvTx of the transport fails, or sess.Close() is called elsewhere.
SessClose ==
    /\ closing' = TRUE
    /\ UNCHANGED <<viaPc, txOut, inVars, opVars, pinVars, appVars, callVars>>

WriterTake ==
    /\ viaPc = "idle" /\ txOut > 0
    /\ viaPc' = "sending" /\ txOut' = txOut - 1
    /\ UNCHANGED <<closing, inVars, opVars, pinVars, appVars, callVars>>

\* via.SendTx returns; its errors are only logged.  It has no deadline: while
\* the client reads nothing it does not return.
WriterSent ==
    /\ viaPc = "sending" /\ viaPc' = "idle"
    /\ UNCHANGED <<closing, txOut, inVars, opVars, pinVars, appVars, callVars>>

WriterDone ==
    /\ viaPc = "idle" /\ Done /\ viaPc' = "closed"
    /\ UNCHANGED <<closing, txOut, inVars, opVars, pinVars, appVars, callVars>>

-----------------------------------------------------------------------------
Next ==
    \/ RecvTx \/ InboxStep
    \/ \E c \in Callers : CloseStep(c)
    \/ \E a \in Apps : AppStep(a)
    \/ \E o \in Ops : \/ PushTx(o) \/ PinReturns(o) \/ PinDone(o)
                      \/ PinCtxClose(o)
    \/ SessClose \/ WriterTake \/ WriterSent \/ WriterDone

\* Every goroutine runs; the client need not read (WriterSent is not fair) nor
\* write, and a pin has to return only once its context is closing or its last
\* message is pushed.  Two
\* guards that others may keep disabling are strongly fair: a select picks at
\* random among its ready cases, so the session task cannot overlook Closing
\* for ever while the client keeps sending, and the senders blocked on a
\* channel are served in order.
PinMustReturn(o) == (pinClosing[o] \/ pinPc[o] = "synced") /\ PinReturns(o)

Fairness ==
    /\ WF_vars(InboxStep) /\ SF_vars(CloseAllReqs)
    /\ \A c \in Callers : WF_vars(CloseStep(c))
    /\ SF_vars(\E c \in Callers : SendClose(c))
    /\ \A a \in Apps : WF_vars(AppStep(a))
    /\ \A o \in Ops : WF_vars(PinMustReturn(o) \/ PinDone(o) \/ PinCtxClose(o))
    /\ WF_vars(WriterTake \/ WriterDone)

SafetySpec == Init /\ [][Next]_vars
Spec == SafetySpec /\ Fairness

-----------------------------------------------------------------------------
\* The type invariant of the session's state.
TypeOK ==
    /\ closing \in BOOLEAN /\ viaPc \in {"idle", "sending", "closed"}
    /\ txOut \in 0 .. OutCap
    /\ inPc \in {"idle", "close", "add", "await", "submit", "send",
                 "closeAll", "exit"}
    /\ inTx \in Tx \cup {NoTx} /\ inOp \in Ops \cup {NoOp}
    /\ toClose \in SUBSET Reqs
    /\ openOps \in [Reqs -> Ops \cup {NoOp}]
    /\ opId \in [Ops -> Reqs \cup {NoReq}]
    /\ opApp \in [Ops -> Apps \cup {NoApp}]
    /\ opParent \in [Ops -> Ops \cup {NoOp}]
    /\ started \in [Ops -> BOOLEAN] /\ closed \in [Ops -> BOOLEAN]
    /\ cancel \in [Ops -> BOOLEAN]
    /\ pinPc \in [Ops -> {"none", "run", "synced", "end", "done"}]
    /\ pinClosing \in [Ops -> BOOLEAN]
    /\ appPc \in [Apps -> {"none", "idle", "serve", "launched", "fail", "exit"}]
    /\ appIn \in [Apps -> Ops \cup {NoOp}]
    /\ appOp \in [Apps -> Ops \cup {NoOp}]
    /\ callPc \in [Callers -> {"idle", "detach", "quiet", "send", "cancel", "pin"}]
    /\ callId \in [Callers -> Reqs \cup {NoReq}]
    /\ callOp \in [Callers -> Ops \cup {NoOp}]

\* Once the session is done, every op it ever registered has had its cancel
\* channel closed: no goroutine of the program that waits for the end of a
\* request (WaitOnReady, PushTx) is left behind by consumeInbox, closeAllReqs
\* and the closeOp calls that race with them.
DoneCancelsAll == Done => \A o \in Ops : opId[o] # NoReq => cancel[o]

\* After consumeInbox has returned no request is open: nothing registers one
\* behind the snapshot that closeAllReqs takes.
NoOpSurvivesInbox == inPc = "exit" => \A r \in Reqs : openOps[r] = NoOp

\* The end of a session is the end of its requests: closeAllReqs and the calls
\* of closeOp that race with it leave none registered behind the session task,
\* and none uncancelled once the session is done.
RequestsAreEnded == NoOpSurvivesInbox /\ DoneCancelsAll

\* A request sent in the context of a parent reaches the app only as a child
\* of an op of the same app that has started and has its pin (addClientOp,
\* WaitOnReady): startOp never takes it for a root request.
ChildServedByParent ==
    /\ inPc \in {"submit", "send"} /\ inTx.parent # NoReq
           => opParent[inOp] # NoOp
    /\ \A o \in Ops : opParent[o] # NoOp =>
           /\ started[opParent[o]]
           /\ opApp[o] = opApp[opParent[o]]

\* closeOp works by request ID, yet if the client does not reuse IDs a pin
\* closes only its own request, an app only the one it failed to serve, and
\* a refusal never a request that an app already has.
ClosesOwnOp ==
    FreshIds =>
      /\ \A o \in Ops : callOp[o] \in {o, NoOp}
      /\ \A a \in Apps : callOp[a] \in {appOp[a], NoOp}
      /\ inPc = "close" /\ inTx.kind = "Open" /\ callOp[Inbox] # NoOp
           => /\ pinPc[callOp[Inbox]] = "none"
              /\ \A a \in Apps : callOp[Inbox] \notin {appIn[a], appOp[a]}

\* The client has stopped reading for good: the writer task is held in
\* SendTx, and the channel txOut fills up behind it.
Stalled == viaPc = "sending"

\* A request that closeOp has detached is cancelled in the end: no caller of
\* closeOp stays blocked on a full txOut, but in an open session whose client
\* has stopped reading; the session's closing frees it even there.
CloseCancels ==
    \/ \A o \in Ops : closed[o] ~> cancel[o]
    \/ <>[](Stalled /\ ~closing)

\* The two ways the session task blocks for good: it waits under openOpsMu
\* for a parent that cannot start any more, or sends to the full inbox of an
\* app context whose loop has gone.
ParentNeverStarts ==
    /\ inPc = "await" /\ ~started[Parent]
    /\ LET a == opApp[Parent]
       IN Parent = inOp \/ appPc[a] = "exit"
                        \/ (appPc[a] = "fail" /\ callPc[a] = "detach")
InboxNeverTaken ==
    /\ inPc = "send"
    /\ appPc[opApp[inOp]] = "exit" /\ appIn[opApp[inOp]] # NoOp

\* If its pin was assigned before closeOp cancels a request, the goroutine
\* of the pin ends (closeOp, host.go:338-343), unless the session task has
\* blocked with openOpsMu held, or the session is open and its client has
\* stopped reading.
PinEndsWithRequest ==
    \/ \A o \in Ops : (closed[o] /\ started[o] /\ ~cancel[o])
                          ~> (pinPc[o] = "done" \/ ParentNeverStarts)
    \/ <>[](Stalled /\ ~closing)

\* What closeOp is after at host.go:338-343: when it is through with a request,
\* the context of a pin that runs for the request is closing.  (A pin that has
\* pushed its last message ends by itself.)
RequestClosesPin ==
    \A o \in Ops :
        cancel[o] /\ pinPc[o] = "run" /\ (\A c \in Callers : callOp[c] # o)
            => pinClosing[o]


\* What the comment at host.go:107-112 promises: a session that is closed
\* completes and then closes the transport, if its client goes on reading.
SessionCloses == []<>~Stalled => (closing ~> viaPc = "closed")

\* The abstract life of the requests that this module implements: an op is
\* opened by addClientOp, closed by the closeOp that wins the compare-and-swap
\* and cancelled when its channel closes; its pin has ended when OnRun returns.
LifePhase(o) ==
    IF opId[o] = NoReq THEN "none"
    ELSE IF ~closed[o] THEN "open"
    ELSE IF ~cancel[o] THEN "closed" ELSE "cancelled"

LifePin(o) ==
    IF pinPc[o] = "none" THEN "none"
    ELSE IF pinPc[o] \in {"end", "done"} THEN "ended" ELSE "running"

Life == INSTANCE RequestLife WITH
            phase <- [o \in Ops |-> LifePhase(o)],
            pin <- [o \in Ops |-> LifePin(o)],
            over <- Done

\* The session implements the abstract life of requests: each is opened,
\* closed and cancelled once and in this order, its pin is launched at most
\* once and ends, and <-sess.Done() signals only when every request has been
\* cancelled, with nothing happening to a request after it.
ImplementsLife == Life!Spec

=============================================================================

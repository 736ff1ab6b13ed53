------------------------------ MODULE AppAttr ------------------------------
(***************************************************************************)
(* Attributes that an app keeps in the user's home space: GetAppAttr and   *)
(* PutAppAttr of src/amp/host/host.go.  Each makes a request without an ID *)
(* that goes through the space app's inbox, is served by its loop, and     *)
(* runs as a pin beside both (launchPin, cellPin.execute).                 *)
(*                                                                         *)
(* A request without an ID is in no table: closeOp does nothing, so cancel *)
(* is never closed and a failed request is never started.                  *)
(* The session is taken to be open while calls are made; the space app     *)
(* closes with it.  Contexts are external: a context that has closed       *)
(* starts no child, and is done when what runs below it is.                *)
(***************************************************************************)
EXTENDS Naturals

CONSTANTS
    AttrCalls,
    NoCall

ASSUME AttrAssumption == NoCall \notin AttrCalls

VARIABLES
    kind,         \* what each call is
    callPc,       \* where it is
    space,        \* the context of the space app
    queued,       \* the app's inbox: at most one request
    spaceLoop,    \* what its loop does, and for which request
    assigned,     \* op.pin is set
    started,      \* op.started is closed
    pinCtx,       \* the context of the pin
    pinPc,        \* its goroutine
    sees,         \* the goroutine had op.pin when it came to wait in PushTx
    again,        \* the second pin of a put: its goroutine
    writes,       \* commits of the put's transaction
    fails,        \* commits of it that failed (history)
    refused       \* ServeRequest failed for this call (history)

attrVars == <<kind, callPc, space, queued, spaceLoop, assigned, started, pinCtx,
              pinPc, sees, again, writes, fails, refused>>
pinVars == <<pinCtx, pinPc, sees, again, writes, fails>>
loopVars == <<spaceLoop, assigned, started, refused>>

Ended == {"ok", "error"}
LoopIdle == [pc |-> "idle", call |-> NoCall]

AttrInit ==
    /\ kind \in [AttrCalls -> {"get", "put"}]
    /\ callPc = [c \in AttrCalls |-> "new"]
    /\ space = "open" /\ queued = {} /\ spaceLoop = LoopIdle
    /\ assigned = {} /\ started = {} /\ refused = {} /\ sees = {}
    /\ pinCtx = [c \in AttrCalls |-> "none"] /\ pinPc = [c \in AttrCalls |-> "none"]
    /\ again = [c \in AttrCalls |-> "none"] /\ writes = [c \in AttrCalls |-> 0]
    /\ fails = [c \in AttrCalls |-> 0]

CallGoes(c, from, to) == callPc[c] = from /\ callPc' = [callPc EXCEPT ![c] = to]

-----------------------------------------------------------------------------
(* The caller.                                                             *)

\* pinAppAttr; submitToApp up to the send.
Begin(c) ==
    /\ space = "open" /\ CallGoes(c, "new", "send")
    /\ UNCHANGED <<kind, space, queued, loopVars, pinVars>>

\* The send to the inbox: its channel outlives the loop.
SendToApp(c) ==
    /\ queued = {} /\ CallGoes(c, "send", "wait") /\ queued' = {c}
    /\ UNCHANGED <<kind, space, loopVars, pinVars>>

\* WaitOnReady: nothing closes cancel.
WaitOnReady(c) ==
    /\ c \in started
    /\ CallGoes(c, "wait", IF pinCtx[c] # "open" THEN "error"
                           ELSE IF kind[c] = "get" THEN "read" ELSE "again")
    /\ UNCHANGED <<kind, space, queued, loopVars, pinVars>>

\* Close of the pin's context.
CloseAttrPin(c) == [pinCtx EXCEPT ![c] = IF @ = "open" THEN "closing" ELSE @]

\* The pin offers its snapshot to the outlet, a channel of no capacity.
Offers(c) == pinPc[c] = "push"

\* GetAppAttr takes what the outlet offers; the attribute may not be in it.
Take(c) ==
    /\ callPc[c] = "read" /\ Offers(c)
    /\ \E pc \in Ended : CallGoes(c, "read", pc)
    /\ pinPc' = [pinPc EXCEPT ![c] = "ran"] /\ pinCtx' = CloseAttrPin(c)
    /\ UNCHANGED <<kind, space, queued, loopVars, sees, again, writes, fails>>

\* ... or gives up with the pin.  The mutant does not.
MutantGivesUp(c) == FALSE
GivesUp(c) == pinCtx[c] # "open"

GiveUp(c) ==
    /\ GivesUp(c) /\ CallGoes(c, "read", "error")
    /\ UNCHANGED <<kind, space, queued, loopVars, pinVars>>

\* PutAppAttr serves its request once more, which the pin hands to launchPin,
\* and closes the first pin.
ServeAgain(c) ==
    /\ \/ /\ space = "open" /\ CallGoes(c, "again", "ok")
          /\ again' = [again EXCEPT ![c] = "commit"] /\ pinCtx' = CloseAttrPin(c)
       \/ /\ CallGoes(c, "again", "error") /\ UNCHANGED <<again, pinCtx>>
    /\ UNCHANGED <<kind, space, queued, loopVars, pinPc, sees, writes, fails>>

-----------------------------------------------------------------------------
(* The loop of the space app.                                              *)

ServeAttr(c) ==
    /\ spaceLoop = LoopIdle /\ c \in queued
    /\ queued' = {} /\ spaceLoop' = [pc |-> "serve", call |-> c]
    /\ UNCHANGED <<kind, callPc, space, assigned, started, refused, pinVars>>

\* launchPin starts the pin's task, or ServeRequest fails, and closeOp finds no
\* request to close.
LaunchAttrPin(c) ==
    /\ spaceLoop = [pc |-> "serve", call |-> c]
    /\ \/ /\ space = "open"
          /\ spaceLoop' = [spaceLoop EXCEPT !.pc = "assign"]
          /\ pinCtx' = [pinCtx EXCEPT ![c] = "open"]
          /\ pinPc' = [pinPc EXCEPT ![c] = IF kind[c] = "put" THEN "commit" ELSE "snapshot"]
          /\ UNCHANGED refused
       \/ /\ spaceLoop' = LoopIdle /\ refused' = refused \cup {c}
          /\ UNCHANGED <<pinCtx, pinPc>>
    /\ UNCHANGED <<kind, callPc, space, queued, assigned, started, sees, again, writes, fails>>

\* op.pin is assigned ...
Assign(c) ==
    /\ spaceLoop = [pc |-> "assign", call |-> c]
    /\ spaceLoop' = [spaceLoop EXCEPT !.pc = "start"] /\ assigned' = assigned \cup {c}
    /\ UNCHANGED <<kind, callPc, space, queued, started, refused, pinVars>>

\* ... and the request has started.
Start(c) ==
    /\ spaceLoop = [pc |-> "start", call |-> c]
    /\ spaceLoop' = LoopIdle /\ started' = started \cup {c}
    /\ UNCHANGED <<kind, callPc, space, queued, assigned, refused, pinVars>>

LoopLeaves ==
    /\ spaceLoop = LoopIdle /\ space = "closing"
    /\ spaceLoop' = [spaceLoop EXCEPT !.pc = "left"]
    /\ UNCHANGED <<kind, callPc, space, queued, assigned, started, refused, pinVars>>

-----------------------------------------------------------------------------
(* The pins.                                                               *)

\* A put's pin commits, whatever becomes of its context.  The mutant stops with
\* it.
MutantCommits(c) == pinPc[c] = "commit" /\ pinCtx[c] = "open"
Commits(c) == pinPc[c] = "commit"

\* commitTx: what it returns to execute goes to OnComplete, which finds no
\* request to tell of it.
CommitTx(c) ==
    \/ writes' = [writes EXCEPT ![c] = @ + 1] /\ UNCHANGED fails
    \/ fails' = [fails EXCEPT ![c] = @ + 1] /\ UNCHANGED writes

CommitPin(c) ==
    /\ Commits(c) /\ pinPc' = [pinPc EXCEPT ![c] = "ran"] /\ CommitTx(c)
    /\ UNCHANGED <<kind, callPc, space, queued, loopVars, pinCtx, sees, again>>

CommitAgain(c) ==
    /\ again[c] = "commit" /\ again' = [again EXCEPT ![c] = "ran"] /\ CommitTx(c)
    /\ UNCHANGED <<kind, callPc, space, queued, loopVars, pinCtx, pinPc, sees>>

\* A get's pin pushes its snapshot.  pinClosed looks at op.pin once: if it is
\* not assigned yet, nothing but a reader ends the wait.
PushTx(c) ==
    /\ pinPc[c] = "snapshot" /\ pinPc' = [pinPc EXCEPT ![c] = "push"]
    /\ sees' = IF c \in assigned THEN sees \cup {c} ELSE sees
    /\ UNCHANGED <<kind, callPc, space, queued, loopVars, pinCtx, again, writes, fails>>

\* The mutant waits for a reader only.
MutantPushEnds(c) == FALSE /\ UNCHANGED attrVars
PushEnds(c) ==
    /\ Offers(c) /\ c \in sees /\ pinCtx[c] # "open"
    /\ pinPc' = [pinPc EXCEPT ![c] = "ran"]
    /\ UNCHANGED <<kind, callPc, space, queued, loopVars, pinCtx, sees, again, writes, fails>>

\* A second after it has run the pin's context closes by itself.
IdleClose(c) ==
    /\ pinPc[c] = "ran" /\ pinCtx[c] = "open" /\ pinCtx' = CloseAttrPin(c)
    /\ UNCHANGED <<kind, callPc, space, queued, loopVars, pinPc, sees, again, writes, fails>>

CloseSpace ==
    /\ space = "open" /\ space' = "closing"
    /\ UNCHANGED <<kind, callPc, queued, loopVars, pinVars>>

CloseWithSpace(c) ==
    /\ space = "closing" /\ pinCtx[c] = "open" /\ pinCtx' = CloseAttrPin(c)
    /\ UNCHANGED <<kind, callPc, space, queued, loopVars, pinPc, sees, again, writes, fails>>

PinClosed(c) ==
    /\ pinCtx[c] = "closing" /\ pinPc[c] = "ran" /\ pinCtx' = [pinCtx EXCEPT ![c] = "closed"]
    /\ UNCHANGED <<kind, callPc, space, queued, loopVars, pinPc, sees, again, writes, fails>>

SpaceClosed ==
    /\ space = "closing" /\ spaceLoop.pc = "left"
    /\ \A c \in AttrCalls : pinCtx[c] \in {"none", "closed"} /\ again[c] # "commit"
    /\ space' = "closed"
    /\ UNCHANGED <<kind, callPc, queued, loopVars, pinVars>>

-----------------------------------------------------------------------------
CallSteps(c) == SendToApp(c) \/ WaitOnReady(c) \/ Take(c) \/ GiveUp(c) \/ ServeAgain(c)
LoopSteps(c) == ServeAttr(c) \/ LaunchAttrPin(c) \/ Assign(c) \/ Start(c)
PinSteps(c) == CommitPin(c) \/ PushTx(c) \/ PushEnds(c)
ContextSteps(c) == CloseWithSpace(c) \/ PinClosed(c)

AttrNext ==
    \/ \E c \in AttrCalls : \/ Begin(c) \/ CallSteps(c) \/ LoopSteps(c) \/ PinSteps(c)
                            \/ CommitAgain(c) \/ ContextSteps(c) \/ IdleClose(c)
    \/ LoopLeaves \/ CloseSpace \/ SpaceClosed

AttrSafety == AttrInit /\ [][AttrNext]_attrVars

\* Goroutines run (each takes finitely many steps, so that it is enough to let one
\* of a kind go on); the loop may leave, once its context closes, before it takes
\* what is in the inbox.
AttrFairness ==
    /\ WF_attrVars(\E c \in AttrCalls : CallSteps(c))
    /\ WF_attrVars(\E c \in AttrCalls : PinSteps(c) \/ CommitAgain(c))
    /\ WF_attrVars(\E c \in AttrCalls : ContextSteps(c))
    /\ WF_attrVars(LoopLeaves \/ \E c \in AttrCalls : LoopSteps(c))
    /\ WF_attrVars(SpaceClosed)

AttrSpec == AttrSafety /\ AttrFairness

-----------------------------------------------------------------------------
AttrTypeOK ==
    /\ kind \in [AttrCalls -> {"get", "put"}]
    /\ callPc \in [AttrCalls -> {"new", "send", "wait", "read", "again"} \cup Ended]
    /\ space \in {"open", "closing", "closed"}
    /\ queued \subseteq AttrCalls
    /\ spaceLoop \in [pc : {"idle", "serve", "assign", "start", "left"}, call : AttrCalls \cup {NoCall}]
    /\ assigned \subseteq AttrCalls /\ started \subseteq assigned
    /\ sees \subseteq assigned /\ refused \subseteq AttrCalls
    /\ pinCtx \in [AttrCalls -> {"none", "open", "closing", "closed"}]
    /\ pinPc \in [AttrCalls -> {"none", "commit", "snapshot", "push", "ran"}]
    /\ again \in [AttrCalls -> {"none", "commit", "ran"}]
    /\ writes \in [AttrCalls -> 0 .. 2] /\ fails \in [AttrCalls -> 0 .. 2]

\* Two ways in which a call never returns: the space app has refused its
\* request, or has left and will not take it.
Forgotten(c) ==
    \/ c \in refused
    \/ spaceLoop.pc = "left" /\ (c \in queued \/ callPc[c] = "send")

\* Any other call returns, whenever the space app closes.
AttrReturns ==
    \A c \in AttrCalls : callPc[c] # "new" ~> (callPc[c] \in Ended \/ Forgotten(c))

\* A put that has returned without an error is committed by both of its pins,
\* although PutAppAttr waits for neither and closes one of them: it is stored in
\* the end, unless the database refuses both commits, which nobody learns.
PutIsStored ==
    \A c \in AttrCalls : (kind[c] = "put" /\ callPc[c] = "ok") ~> writes[c] + fails[c] = 2

\* A pin that came to PushTx before op.pin was assigned, and whose caller has
\* gone without its snapshot.
Blind(c) == Offers(c) /\ c \notin sees /\ callPc[c] \in Ended

\* With that exception the space app completes once it closes.
SpaceEnds == space = "closing" ~> (space = "closed" \/ \E c \in AttrCalls : Blind(c))

\* GetAppAttr and PutAppAttr return, a put that returned without an error comes
\* to be committed, and neither keeps the space app from closing, with the exceptions
\* that the three parts name.
AttrsComplete == []AttrTypeOK /\ AttrReturns /\ PutIsStored /\ SpaceEnds
=============================================================================

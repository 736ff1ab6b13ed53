------------------------- MODULE HostSessionProofs -------------------------
(***************************************************************************)
(* The safety properties of HostSession hold for any number of ops, IDs    *)
(* and apps and any capacity of txOut.  The invariant SessionInv is proved *)
(* in layers: types and shapes first, then what each property needs.       *)
(***************************************************************************)
EXTENDS HostSessionInv, TLAPS

LEMMA TxFields ==
    ASSUME NEW tx \in Tx
    PROVE  tx.req \in Reqs /\ tx.parent \in Reqs \cup {NoReq}
           /\ tx.kind \in {"Open", "Closed"}
BY DEF Tx

\* The session task, the apps and the pins are distinct callers of closeOp,
\* and the null values are no members.
LEMMA Distinct ==
    /\ Inbox \in Callers /\ Apps \subseteq Callers /\ Ops \subseteq Callers
    /\ \A c \in Callers : c = Inbox \/ c \in Apps \/ c \in Ops
    /\ Inbox \notin Apps /\ Inbox \notin Ops /\ Apps \cap Ops = {}
    /\ NoOp \notin Ops /\ NoReq \notin Reqs /\ NoApp \notin Apps
BY HostSessionAssumption DEF Callers

LEMMA SetTrue ==
    ASSUME NEW S, NEW f \in [S -> BOOLEAN], NEW x
    PROVE  [f EXCEPT ![x] = TRUE] \in [S -> BOOLEAN]
OBVIOUS

-----------------------------------------------------------------------------
(* Types and shapes.                                                       *)

TypeShape == TypeOK /\ ShapeInv

LEMMA InitTypeShape == Init => TypeShape
<1> SUFFICES ASSUME Init PROVE TypeShape
    OBVIOUS
<1>1. TypeOK
  <2>1. txOut \in 0 .. OutCap
      BY HostSessionAssumption DEF Init
  <2>2. appPc \in [Apps -> {"none", "idle", "serve", "launched", "fail", "exit"}]
      BY DEF Init
  <2>3. QED BY <2>1, <2>2 DEF Init, TypeOK
<1>2. CallShape BY HostSessionAssumption, Distinct DEF Init, CallShape
<1>3. InboxShape BY DEF Init, InboxShape
<1>4. AppShape BY DEF Init, AppShape
<1>5. QED BY <1>1, <1>2, <1>3, <1>4 DEF TypeShape, ShapeInv

LEMMA TypeStep == TypeShape /\ [Next]_vars => TypeOK'
<1> SUFFICES ASSUME TypeOK, ShapeInv, [Next]_vars PROVE TypeOK'
    BY DEF TypeShape
<1> USE HostSessionAssumption, Distinct, TxFields
    DEF TypeOK, ShapeInv, CallShape, InboxShape, AppShape,
        inVars, opVars, pinVars, appVars, callVars
<1>1. ASSUME RecvTx PROVE TypeOK'
    BY <1>1, SMTT(60) DEF RecvTx, InboxClose, StartClose
<1>2. ASSUME AddClientOp PROVE TypeOK'
  <2>1. inTx \in Tx /\ inTx.req \in Reqs BY <1>2 DEF AddClientOp
  <2>2. CASE openOps[inTx.req] # NoOp
      BY <1>2, <2>1, <2>2, SMTT(60) DEF AddClientOp, Refuse, RefusedId, InboxClose, StartClose
  <2>3. CASE openOps[inTx.req] = NoOp
    <3>1. PICK o \in Ops :
              /\ opId' = [opId EXCEPT ![o] = inTx.req]
              /\ openOps' = [openOps EXCEPT ![inTx.req] = o]
              /\ \/ Refuse
                 \/ /\ inPc' \in {"submit", "await"} /\ inOp' = o
                    /\ UNCHANGED <<inTx, toClose, callVars>>
              /\ UNCHANGED <<opApp, opParent, started, closed, cancel>>
        BY <1>2, <2>3 DEF AddClientOp
    <3>2. UNCHANGED <<closing, viaPc, txOut, pinVars, appVars>>
        BY <1>2 DEF AddClientOp
    <3>3. QED BY <2>1, <3>1, <3>2, SMTT(60) DEF Refuse, RefusedId, InboxClose, StartClose
  <2>4. QED BY <2>2, <2>3
<1>3. ASSUME WaitOnReady PROVE TypeOK'
    BY <1>3, SMTT(60) DEF WaitOnReady, Ready, Parent, Refuse, RefusedId, InboxClose, StartClose
<1>4. ASSUME SubmitToApp PROVE TypeOK'
    BY <1>4, SMTT(60) DEF SubmitToApp, Refuse, RefusedId, InboxClose, StartClose
<1>5. ASSUME SendToApp PROVE TypeOK'
    BY <1>5 DEF SendToApp
<1>6. ASSUME FinishTx \/ CloseAllReqs \/ CloseNextReq \/ InboxExit
      PROVE  TypeOK'
    BY <1>6, SMTT(60) DEF FinishTx, CloseAllReqs, OpenIds, CloseNextReq, InboxExit,
                 StartClose
<1>7. ASSUME NEW c \in Callers, CloseStep(c) PROVE TypeOK'
  <2>1. CASE Detach(c)
    <3>1. callId[c] \in Reqs /\ openOps[callId[c]] \in Ops \cup {NoOp}
        BY <2>1 DEF Detach
    <3>2. openOps' \in [Reqs -> Ops \cup {NoOp}] BY <2>1, <3>1 DEF Detach
    <3>3. closed' \in [Ops -> BOOLEAN]
      <4>1. \/ closed' = closed
            \/ closed' = [closed EXCEPT ![openOps[callId[c]]] = TRUE]
          BY <2>1 DEF Detach
      <4>2. QED BY <4>1, SetTrue
    <3>4. /\ callPc' \in [Callers -> {"idle", "detach", "quiet", "send",
                                      "cancel", "pin"}]
          /\ callId' \in [Callers -> Reqs \cup {NoReq}]
          /\ callOp' \in [Callers -> Ops \cup {NoOp}]
        BY <2>1, <3>1, SMTT(60) DEF Detach
    <3>5. QED BY <2>1, <3>2, <3>3, <3>4 DEF Detach
  <2>2. CASE SendClose(c)   BY <2>2 DEF SendClose, Room
  <2>3. CASE CloseCancel(c) BY <2>3 DEF CloseCancel
  <2>4. CASE ClosePin(c)    BY <2>4 DEF ClosePin, HasPin
  <2>5. QED BY <1>7, <2>1, <2>2, <2>3, <2>4 DEF CloseStep
<1>8. ASSUME NEW a \in Apps, AppStep(a) PROVE TypeOK'
  <2>1. CASE TakeOp(a)       BY <2>1 DEF TakeOp
  <2>2. CASE ServeRequest(a)
    <3>1. appOp[a] \in Ops /\ a \in Callers /\ opId[appOp[a]] \in Reqs \cup {NoReq}
        BY <2>2 DEF ServeRequest
    <3>2. CASE UNCHANGED callVars BY <2>2, <3>1, <3>2, SMTT(60) DEF ServeRequest
    <3>3. CASE StartClose(a, opId[appOp[a]], "detach") /\ UNCHANGED pinPc
        BY <2>2, <3>1, <3>3, SMTT(60) DEF ServeRequest, StartClose
    <3>4. QED BY <2>2, <3>2, <3>3 DEF ServeRequest
  <2>3. CASE OpStarted(a)    BY <2>3 DEF OpStarted
  <2>4. CASE OpFailed(a)     BY <2>4 DEF OpFailed
  <2>5. CASE AppExit(a)      BY <2>5 DEF AppExit
  <2>6. QED BY <1>8, <2>1, <2>2, <2>3, <2>4, <2>5 DEF AppStep
<1>9. ASSUME NEW o \in Ops,
             PushTx(o) \/ PinReturns(o) \/ PinDone(o) \/ PinCtxClose(o)
      PROVE  TypeOK'
  <2>1. CASE PushTx(o)      BY <2>1, SMTT(60) DEF PushTx, Room, StartClose
  <2>2. CASE PinReturns(o)  BY <2>2 DEF PinReturns, StartClose
  <2>3. CASE PinDone(o)     BY <2>3 DEF PinDone
  <2>4. CASE PinCtxClose(o) BY <2>4 DEF PinCtxClose
  <2>5. QED BY <1>9, <2>1, <2>2, <2>3, <2>4
<1>10. ASSUME SessClose \/ WriterTake \/ WriterSent \/ WriterDone PROVE TypeOK'
  <2>1. txOut' \in 0 .. OutCap BY <1>10 DEF SessClose, WriterTake, WriterSent, WriterDone
  <2>2. closing' \in BOOLEAN /\ viaPc' \in {"idle", "sending", "closed"}
      BY <1>10 DEF SessClose, WriterTake, WriterSent, WriterDone
  <2>3. UNCHANGED <<inVars, opVars, pinVars, appVars, callVars>>
      BY <1>10 DEF SessClose, WriterTake, WriterSent, WriterDone
  <2>4. QED BY <2>1, <2>2, <2>3
<1>11. CASE UNCHANGED vars BY <1>11 DEF vars
<1>12. QED
    BY <1>1, <1>2, <1>3, <1>4, <1>5, <1>6, <1>7, <1>8, <1>9, <1>10, <1>11
    DEF Next, InboxStep

-----------------------------------------------------------------------------
(* What the steps of closeOp do to the callers.                            *)

\* detachOp: the call ends, or goes on with a registered op that is now
\* closed; the other callers see nothing.
LEMMA DetachEffect ==
    ASSUME TypeShape, NEW c \in Callers, Detach(c)
    PROVE  /\ callId[c] \in Reqs /\ inPc # "await"
           /\ openOps' = [openOps EXCEPT ![callId[c]] = NoOp]
           /\ \A d \in Callers \ {c} : /\ callPc'[d] = callPc[d]
                                       /\ callId'[d] = callId[d]
                                       /\ callOp'[d] = callOp[d]
           /\ \/ /\ openOps[callId[c]] \in Ops /\ ~closed[openOps[callId[c]]]
                 /\ closed' = [closed EXCEPT ![openOps[callId[c]]] = TRUE]
                 /\ callOp'[c] = openOps[callId[c]]
                 /\ callPc'[c] \in {"cancel", "send"}
              \/ /\ openOps[callId[c]] = NoOp \/ closed[openOps[callId[c]]]
                 /\ closed' = closed
                 /\ callOp'[c] = NoOp /\ callPc'[c] = "idle"
           /\ UNCHANGED <<closing, txOut, inPc, inTx, inOp, toClose, opId, opApp,
                          opParent, started, cancel, pinPc, pinClosing,
                          appPc, appIn, appOp>>
<1> USE DEF TypeShape, ShapeInv, CallShape, TypeOK
<1>1. callId[c] \in Reqs /\ inPc # "await" /\ callOp[c] = NoOp
    BY DEF Detach, MuFree
<1>2. openOps[callId[c]] \in Ops \cup {NoOp} BY <1>1
<1>3. UNCHANGED <<closing, txOut, inPc, inTx, inOp, toClose, opId, opApp,
                  opParent, started, cancel, pinPc, pinClosing,
                  appPc, appIn, appOp>>
    BY DEF Detach, inVars, pinVars, appVars
<1>4. CASE openOps[callId[c]] # NoOp /\ ~closed[openOps[callId[c]]]
    BY <1>1, <1>2, <1>3, <1>4 DEF Detach
<1>5. CASE ~(openOps[callId[c]] # NoOp /\ ~closed[openOps[callId[c]]])
    BY <1>1, <1>2, <1>3, <1>5 DEF Detach
<1>6. QED BY <1>4, <1>5

LEMMA StartCloseEffect ==
    ASSUME TypeOK, NEW c \in Callers, NEW r, NEW at, StartClose(c, r, at)
    PROVE  /\ callPc'[c] = at /\ callId'[c] = r /\ callOp' = callOp
           /\ \A d \in Callers \ {c} : /\ callPc'[d] = callPc[d]
                                       /\ callId'[d] = callId[d]
BY DEF TypeOK, StartClose

LEMMA CallShapeStep == TypeShape /\ [Next]_vars => CallShape'
<1> SUFFICES ASSUME TypeShape, [Next]_vars PROVE CallShape'
    OBVIOUS
<1> USE Distinct, TxFields
    DEF TypeShape, TypeOK, ShapeInv, CallShape,
        InboxShape, AppShape, inVars, opVars, pinVars, appVars, callVars
<1>1. ASSUME RecvTx PROVE CallShape'
    BY <1>1 DEF RecvTx, InboxClose, StartClose
<1>2. ASSUME AddClientOp PROVE CallShape'
    BY <1>2 DEF AddClientOp, Refuse, RefusedId, InboxClose, StartClose
<1>3. ASSUME WaitOnReady PROVE CallShape'
    BY <1>3, SMTT(60) DEF WaitOnReady, Ready, Parent, Refuse, RefusedId, InboxClose, StartClose
<1>4. ASSUME SubmitToApp PROVE CallShape'
    BY <1>4, SMTT(60) DEF SubmitToApp, Refuse, RefusedId, InboxClose, StartClose
<1>5. ASSUME SendToApp PROVE CallShape'
    BY <1>5 DEF SendToApp
<1>6. ASSUME FinishTx PROVE CallShape'
    BY <1>6 DEF FinishTx
<1>7. ASSUME CloseAllReqs PROVE CallShape'
    BY <1>7 DEF CloseAllReqs, OpenIds
<1>8. ASSUME CloseNextReq PROVE CallShape'
    BY <1>8 DEF CloseNextReq, StartClose
<1>9. ASSUME InboxExit PROVE CallShape'
    BY <1>9 DEF InboxExit
<1>10. ASSUME NEW c \in Callers, CloseStep(c) PROVE CallShape'
  <2>1. CASE Detach(c)
    <3>2. \A x \in Ops : closed[x] => closed'[x]
        BY <2>1, DetachEffect, SMTT(120)
    <3>3. \A d \in Callers : d # c =>
              IF callPc'[d] \in {"send", "cancel", "pin"}
              THEN callOp'[d] \in Ops /\ closed'[callOp'[d]]
              ELSE callOp'[d] = NoOp
        BY <2>1, <3>2, DetachEffect
    <3>4. IF callPc'[c] \in {"send", "cancel", "pin"}
          THEN callOp'[c] \in Ops /\ closed'[callOp'[c]]
          ELSE callOp'[c] = NoOp
        BY <2>1, DetachEffect
    <3>5. callPc[c] # "idle" BY <2>1 DEF Detach
    <3>6. QED BY <2>1, <3>3, <3>4, <3>5, DetachEffect
  <2>2. CASE SendClose(c)
    BY <2>2 DEF SendClose, Room
  <2>3. CASE CloseCancel(c)
    BY <2>3 DEF CloseCancel
  <2>4. CASE ClosePin(c)
    BY <2>4 DEF ClosePin, HasPin
  <2>5. QED BY <1>10, <2>1, <2>2, <2>3, <2>4 DEF CloseStep
<1>11. ASSUME NEW a \in Apps, AppStep(a) PROVE CallShape'
  <2>1. CASE TakeOp(a)
    BY <2>1 DEF TakeOp
  <2>2. CASE ServeRequest(a)
    <3>1. appOp[a] \in Ops /\ opId[appOp[a]] \in Reqs /\ callPc[a] = "idle"
        BY <2>2, HostSessionAssumption DEF ServeRequest
    <3>2. CASE UNCHANGED callVars BY <2>2, <3>1, <3>2, SMTT(60) DEF ServeRequest
    <3>3. CASE StartClose(a, opId[appOp[a]], "detach") /\ UNCHANGED pinPc
        BY <2>2, <3>1, <3>3 DEF ServeRequest, StartClose
    <3>4. QED BY <2>2, <3>2, <3>3 DEF ServeRequest
  <2>3. CASE OpStarted(a)
    BY <2>3 DEF OpStarted
  <2>4. CASE OpFailed(a)
    BY <2>4 DEF OpFailed
  <2>5. CASE AppExit(a)
    BY <2>5 DEF AppExit
  <2>6. QED BY <1>11, <2>1, <2>2, <2>3, <2>4, <2>5 DEF AppStep
<1>12. ASSUME NEW o \in Ops,
             PushTx(o) \/ PinReturns(o) \/ PinDone(o) \/ PinCtxClose(o)
      PROVE CallShape'
  <2>1. CASE PushTx(o)
    BY <2>1, SMTT(60) DEF PushTx, Room, StartClose
  <2>2. CASE PinReturns(o)
    BY <2>2 DEF PinReturns, StartClose
  <2>3. CASE PinDone(o)
    BY <2>3 DEF PinDone
  <2>4. CASE PinCtxClose(o)
    BY <2>4 DEF PinCtxClose
  <2>5. QED BY <1>12, <2>1, <2>2, <2>3, <2>4
<1>13. ASSUME SessClose \/ WriterTake \/ WriterSent \/ WriterDone PROVE CallShape'
    BY <1>13 DEF SessClose, WriterTake, WriterSent, WriterDone
<1>14. CASE UNCHANGED vars BY <1>14 DEF vars
<1>15. QED
    BY <1>1, <1>2, <1>3, <1>4, <1>5, <1>6, <1>7, <1>8, <1>9,
       <1>10, <1>11, <1>12, <1>13, <1>14
    DEF Next, InboxStep

LEMMA InboxShapeStep == TypeShape /\ [Next]_vars => InboxShape'
<1> SUFFICES ASSUME TypeShape, [Next]_vars PROVE InboxShape'
    OBVIOUS
<1> USE Distinct, TxFields
    DEF TypeShape, TypeOK, ShapeInv, CallShape,
        InboxShape, AppShape, Unsubmitted, inVars, opVars, pinVars, appVars, callVars
<1>1. ASSUME RecvTx PROVE InboxShape'
    BY <1>1 DEF RecvTx, InboxClose, StartClose
<1>2. ASSUME AddClientOp PROVE InboxShape'
    BY <1>2 DEF AddClientOp, Refuse, RefusedId, InboxClose, StartClose
<1>3. ASSUME WaitOnReady PROVE InboxShape'
    BY <1>3 DEF WaitOnReady, Ready, Parent, Refuse, RefusedId, InboxClose, StartClose
<1>4. ASSUME SubmitToApp PROVE InboxShape'
    BY <1>4 DEF SubmitToApp, Refuse, RefusedId, InboxClose, StartClose
<1>5. ASSUME SendToApp PROVE InboxShape'
    BY <1>5 DEF SendToApp
<1>6. ASSUME FinishTx PROVE InboxShape'
    BY <1>6 DEF FinishTx
<1>7. ASSUME CloseAllReqs PROVE InboxShape'
    BY <1>7 DEF CloseAllReqs, OpenIds
<1>8. ASSUME CloseNextReq PROVE InboxShape'
    BY <1>8 DEF CloseNextReq, StartClose
<1>9. ASSUME InboxExit PROVE InboxShape'
    BY <1>9 DEF InboxExit
<1>10. ASSUME NEW c \in Callers, CloseStep(c) PROVE InboxShape'
  <2>1. CASE Detach(c)
    <3>1. inPc = "exit" => callPc'[Inbox] = "idle"
      <4>1. inPc = "exit" => c # Inbox BY <2>1 DEF Detach
      <4>2. c # Inbox => callPc'[Inbox] = callPc[Inbox]
          BY <2>1, DetachEffect
      <4>3. QED BY <4>1, <4>2
    <3>2. inPc # "await" BY <2>1, DetachEffect
    <3>3. UNCHANGED <<inPc, inTx, inOp, opId, opApp, started, pinPc, appIn, appOp>>
        BY <2>1, DetachEffect
    <3>4. QED BY <3>1, <3>2, <3>3
  <2>2. CASE SendClose(c)
    BY <2>2 DEF SendClose, Room
  <2>3. CASE CloseCancel(c)
    BY <2>3 DEF CloseCancel
  <2>4. CASE ClosePin(c)
    BY <2>4 DEF ClosePin, HasPin
  <2>5. QED BY <1>10, <2>1, <2>2, <2>3, <2>4 DEF CloseStep
<1>11. ASSUME NEW a \in Apps, AppStep(a) PROVE InboxShape'
  <2>1. CASE TakeOp(a)
    BY <2>1 DEF TakeOp
  <2>2. CASE ServeRequest(a)
    BY <2>2 DEF ServeRequest, StartClose
  <2>3. CASE OpStarted(a)
    BY <2>3 DEF OpStarted
  <2>4. CASE OpFailed(a)
    BY <2>4 DEF OpFailed
  <2>5. CASE AppExit(a)
    BY <2>5 DEF AppExit
  <2>6. QED BY <1>11, <2>1, <2>2, <2>3, <2>4, <2>5 DEF AppStep
<1>12. ASSUME NEW o \in Ops,
             PushTx(o) \/ PinReturns(o) \/ PinDone(o) \/ PinCtxClose(o)
      PROVE InboxShape'
  <2>1. CASE PushTx(o)
    BY <2>1 DEF PushTx, Room, StartClose
  <2>2. CASE PinReturns(o)
    BY <2>2 DEF PinReturns, StartClose
  <2>3. CASE PinDone(o)
    BY <2>3 DEF PinDone
  <2>4. CASE PinCtxClose(o)
    BY <2>4 DEF PinCtxClose
  <2>5. QED BY <1>12, <2>1, <2>2, <2>3, <2>4
<1>13. ASSUME SessClose \/ WriterTake \/ WriterSent \/ WriterDone PROVE InboxShape'
    BY <1>13, SMTT(60) DEF SessClose, WriterTake, WriterSent, WriterDone
<1>14. CASE UNCHANGED vars BY <1>14 DEF vars
<1>15. QED
    BY <1>1, <1>2, <1>3, <1>4, <1>5, <1>6, <1>7, <1>8, <1>9,
       <1>10, <1>11, <1>12, <1>13, <1>14
    DEF Next, InboxStep

LEMMA AppShapeStep == TypeShape /\ [Next]_vars => AppShape'
<1> SUFFICES ASSUME TypeShape, [Next]_vars PROVE AppShape'
    OBVIOUS
<1> USE Distinct, TxFields
    DEF TypeShape, TypeOK, ShapeInv, CallShape,
        InboxShape, AppShape, Unsubmitted, inVars, opVars, pinVars, appVars, callVars
<1>1. ASSUME RecvTx PROVE AppShape'
    BY <1>1 DEF RecvTx, InboxClose, StartClose
<1>2. ASSUME AddClientOp PROVE AppShape'
    BY <1>2, SMTT(60) DEF AddClientOp, Refuse, RefusedId, InboxClose, StartClose
<1>3. ASSUME WaitOnReady PROVE AppShape'
    BY <1>3 DEF WaitOnReady, Ready, Parent, Refuse, RefusedId, InboxClose, StartClose
<1>4. ASSUME SubmitToApp PROVE AppShape'
    BY <1>4, SMTT(60) DEF SubmitToApp, Refuse, RefusedId, InboxClose, StartClose
<1>5. ASSUME SendToApp PROVE AppShape'
    BY <1>5 DEF SendToApp
<1>6. ASSUME FinishTx PROVE AppShape'
    BY <1>6 DEF FinishTx
<1>7. ASSUME CloseAllReqs PROVE AppShape'
    BY <1>7 DEF CloseAllReqs, OpenIds
<1>8. ASSUME CloseNextReq PROVE AppShape'
    BY <1>8 DEF CloseNextReq, StartClose
<1>9. ASSUME InboxExit PROVE AppShape'
    BY <1>9 DEF InboxExit
<1>10. ASSUME NEW c \in Callers, CloseStep(c) PROVE AppShape'
  <2>1. CASE Detach(c)
    BY <2>1 DEF Detach
  <2>2. CASE SendClose(c)
    BY <2>2 DEF SendClose, Room
  <2>3. CASE CloseCancel(c)
    BY <2>3 DEF CloseCancel
  <2>4. CASE ClosePin(c)
    BY <2>4 DEF ClosePin, HasPin
  <2>5. QED BY <1>10, <2>1, <2>2, <2>3, <2>4 DEF CloseStep
<1>11. ASSUME NEW a \in Apps, AppStep(a) PROVE AppShape'
  <2>1. CASE TakeOp(a)
    BY <2>1 DEF TakeOp
  <2>2. CASE ServeRequest(a)
    BY <2>2 DEF ServeRequest, StartClose
  <2>3. CASE OpStarted(a)
    BY <2>3 DEF OpStarted
  <2>4. CASE OpFailed(a)
    BY <2>4 DEF OpFailed
  <2>5. CASE AppExit(a)
    BY <2>5 DEF AppExit
  <2>6. QED BY <1>11, <2>1, <2>2, <2>3, <2>4, <2>5 DEF AppStep
<1>12. ASSUME NEW o \in Ops,
             PushTx(o) \/ PinReturns(o) \/ PinDone(o) \/ PinCtxClose(o)
      PROVE AppShape'
  <2>1. CASE PushTx(o)
    BY <2>1 DEF PushTx, Room, StartClose
  <2>2. CASE PinReturns(o)
    BY <2>2 DEF PinReturns, StartClose
  <2>3. CASE PinDone(o)
    BY <2>3 DEF PinDone
  <2>4. CASE PinCtxClose(o)
    BY <2>4 DEF PinCtxClose
  <2>5. QED BY <1>12, <2>1, <2>2, <2>3, <2>4
<1>13. ASSUME SessClose \/ WriterTake \/ WriterSent \/ WriterDone PROVE AppShape'
    BY <1>13 DEF SessClose, WriterTake, WriterSent, WriterDone
<1>14. CASE UNCHANGED vars BY <1>14 DEF vars
<1>15. QED
    BY <1>1, <1>2, <1>3, <1>4, <1>5, <1>6, <1>7, <1>8, <1>9,
       <1>10, <1>11, <1>12, <1>13, <1>14
    DEF Next, InboxStep

LEMMA TypeShapeStep == TypeShape /\ [Next]_vars => TypeShape'
BY TypeStep, CallShapeStep, InboxShapeStep, AppShapeStep
DEF TypeShape, ShapeInv

\* The type invariant of the session is an invariant, whatever the numbers of
\* ops, request IDs and apps and the capacity of txOut: the channels and maps
\* of host.go only ever hold what they are declared to hold.
THEOREM TypeCorrect == SafetySpec => []TypeOK
<1>1. Init => TypeShape BY InitTypeShape
<1>2. TypeShape /\ [Next]_vars => TypeShape' BY TypeShapeStep
<1>3. TypeShape => TypeOK BY DEF TypeShape
<1>4. QED BY <1>1, <1>2, <1>3, PTL DEF SafetySpec

-----------------------------------------------------------------------------
(* No request is lost by closeOp, none survives consumeInbox.              *)

LEMMA NoLostCloseStep == TypeShape /\ NoLostClose /\ [Next]_vars => NoLostClose'
<1> SUFFICES ASSUME TypeShape /\ NoLostClose, [Next]_vars PROVE NoLostClose'
    OBVIOUS
<1> USE Distinct, TxFields
    DEF TypeShape, TypeOK, ShapeInv, CallShape, InboxShape, AppShape,
        NoLostClose, inVars, opVars, pinVars, appVars, callVars
<1>1. ASSUME RecvTx PROVE NoLostClose'
    BY <1>1 DEF RecvTx, InboxClose, StartClose
<1>2. ASSUME AddClientOp PROVE NoLostClose'
    BY <1>2, SMTT(60) DEF AddClientOp, Refuse, RefusedId, InboxClose, StartClose
<1>3. ASSUME WaitOnReady PROVE NoLostClose'
    BY <1>3 DEF WaitOnReady, Ready, Parent, Refuse, RefusedId, InboxClose, StartClose
<1>4. ASSUME SubmitToApp PROVE NoLostClose'
    BY <1>4 DEF SubmitToApp, Refuse, RefusedId, InboxClose, StartClose
<1>5. ASSUME SendToApp PROVE NoLostClose'
    BY <1>5 DEF SendToApp
<1>6. ASSUME FinishTx PROVE NoLostClose'
    BY <1>6 DEF FinishTx
<1>7. ASSUME CloseAllReqs PROVE NoLostClose'
    BY <1>7 DEF CloseAllReqs, OpenIds
<1>8. ASSUME CloseNextReq PROVE NoLostClose'
    BY <1>8, SMTT(60) DEF CloseNextReq, StartClose
<1>9. ASSUME InboxExit PROVE NoLostClose'
    BY <1>9 DEF InboxExit
<1>10. ASSUME NEW c \in Callers, CloseStep(c) PROVE NoLostClose'
  <2>1. CASE Detach(c)
    <3> DEFINE r == callId[c]
    <3>1. /\ r \in Reqs /\ openOps' = [openOps EXCEPT ![r] = NoOp]
          /\ UNCHANGED <<opId, cancel>>
        BY <2>1, DetachEffect
    <3>2. \A x \in Ops : closed[x] => closed'[x]
        BY <2>1, DetachEffect, SMTT(60)
    <3>3. \A x \in Ops : closed'[x] => closed[x] \/ (x = openOps[r] /\
                                             callOp'[c] = x /\
                                             callPc'[c] \in {"send", "cancel"})
        BY <2>1, DetachEffect
    <3>4. openOps[r] # NoOp => closed'[openOps[r]]
        BY <2>1, DetachEffect
    <3>5. \A d \in Callers : callPc[d] \in {"send", "cancel"} =>
              callPc'[d] = callPc[d] /\ callOp'[d] = callOp[d]
      <4>1. callPc[c] \in {"detach", "quiet"} BY <2>1 DEF Detach
      <4>2. QED BY <2>1, <4>1, DetachEffect
    <3>6. \A q \in Reqs : openOps'[q] # NoOp =>
              opId'[openOps'[q]] = q /\ ~closed'[openOps'[q]]
        BY <3>1, <3>3
    <3>7. \A x \in Ops : IF opId'[x] \in Reqs
                         THEN openOps'[opId'[x]] = x \/ closed'[x]
                         ELSE ~closed'[x]
        BY <3>1, <3>2, <3>3, <3>4
    <3>8. \A x \in Ops : closed'[x] /\ ~cancel'[x] =>
              \E d \in Callers : callOp'[d] = x
                                /\ callPc'[d] \in {"send", "cancel"}
        BY <3>1, <3>3, <3>5, SMTT(60)
    <3>9. QED BY <3>6, <3>7, <3>8
  <2>2. CASE SendClose(c)
    BY <2>2 DEF SendClose, Room
  <2>3. CASE CloseCancel(c)
    BY <2>3 DEF CloseCancel
  <2>4. CASE ClosePin(c)
    BY <2>4, SMTT(60) DEF ClosePin, HasPin
  <2>5. QED BY <1>10, <2>1, <2>2, <2>3, <2>4 DEF CloseStep
<1>11. ASSUME NEW a \in Apps, AppStep(a) PROVE NoLostClose'
  <2>1. CASE TakeOp(a)
    BY <2>1 DEF TakeOp
  <2>2. CASE ServeRequest(a)
    BY <2>2 DEF ServeRequest, StartClose
  <2>3. CASE OpStarted(a)
    BY <2>3 DEF OpStarted
  <2>4. CASE OpFailed(a)
    BY <2>4 DEF OpFailed
  <2>5. CASE AppExit(a)
    BY <2>5 DEF AppExit
  <2>6. QED BY <1>11, <2>1, <2>2, <2>3, <2>4, <2>5 DEF AppStep
<1>12. ASSUME NEW o \in Ops,
             PushTx(o) \/ PinReturns(o) \/ PinDone(o) \/ PinCtxClose(o)
      PROVE NoLostClose'
  <2>1. CASE PushTx(o)
    BY <2>1, SMTT(60) DEF PushTx, Room, StartClose
  <2>2. CASE PinReturns(o)
    BY <2>2 DEF PinReturns, StartClose
  <2>3. CASE PinDone(o)
    BY <2>3 DEF PinDone
  <2>4. CASE PinCtxClose(o)
    BY <2>4 DEF PinCtxClose
  <2>5. QED BY <1>12, <2>1, <2>2, <2>3, <2>4
<1>13. ASSUME SessClose \/ WriterTake \/ WriterSent \/ WriterDone PROVE NoLostClose'
    BY <1>13 DEF SessClose, WriterTake, WriterSent, WriterDone
<1>14. CASE UNCHANGED vars BY <1>14 DEF vars
<1>15. QED
    BY <1>1, <1>2, <1>3, <1>4, <1>5, <1>6, <1>7, <1>8, <1>9,
       <1>10, <1>11, <1>12, <1>13, <1>14
    DEF Next, InboxStep

LEMMA SnapshotStep == TypeShape /\ SnapshotCovers /\ [Next]_vars => SnapshotCovers'
<1> SUFFICES ASSUME TypeShape /\ SnapshotCovers, [Next]_vars PROVE SnapshotCovers'
    OBVIOUS
<1> USE Distinct, TxFields
    DEF TypeShape, TypeOK, ShapeInv, CallShape, InboxShape, AppShape,
        SnapshotCovers, NoOpSurvivesInbox, inVars, opVars, pinVars, appVars, callVars
<1>1. ASSUME RecvTx PROVE SnapshotCovers'
    BY <1>1 DEF RecvTx, InboxClose, StartClose
<1>2. ASSUME AddClientOp PROVE SnapshotCovers'
    BY <1>2 DEF AddClientOp, Refuse, RefusedId, InboxClose, StartClose
<1>3. ASSUME WaitOnReady PROVE SnapshotCovers'
    BY <1>3 DEF WaitOnReady, Ready, Parent, Refuse, RefusedId, InboxClose, StartClose
<1>4. ASSUME SubmitToApp PROVE SnapshotCovers'
    BY <1>4 DEF SubmitToApp, Refuse, RefusedId, InboxClose, StartClose
<1>5. ASSUME SendToApp PROVE SnapshotCovers'
    BY <1>5 DEF SendToApp
<1>6. ASSUME FinishTx PROVE SnapshotCovers'
    BY <1>6 DEF FinishTx
<1>7. ASSUME CloseAllReqs PROVE SnapshotCovers'
    BY <1>7 DEF CloseAllReqs, OpenIds
<1>8. ASSUME CloseNextReq PROVE SnapshotCovers'
    BY <1>8 DEF CloseNextReq, StartClose
<1>9. ASSUME InboxExit PROVE SnapshotCovers'
    BY <1>9 DEF InboxExit
<1>10. ASSUME NEW c \in Callers, CloseStep(c) PROVE SnapshotCovers'
  <2>1. CASE Detach(c)
    BY <2>1 DEF Detach
  <2>2. CASE SendClose(c)
    BY <2>2 DEF SendClose, Room
  <2>3. CASE CloseCancel(c)
    BY <2>3 DEF CloseCancel
  <2>4. CASE ClosePin(c)
    BY <2>4 DEF ClosePin, HasPin
  <2>5. QED BY <1>10, <2>1, <2>2, <2>3, <2>4 DEF CloseStep
<1>11. ASSUME NEW a \in Apps, AppStep(a) PROVE SnapshotCovers'
  <2>1. CASE TakeOp(a)
    BY <2>1 DEF TakeOp
  <2>2. CASE ServeRequest(a)
    BY <2>2 DEF ServeRequest, StartClose
  <2>3. CASE OpStarted(a)
    BY <2>3 DEF OpStarted
  <2>4. CASE OpFailed(a)
    BY <2>4 DEF OpFailed
  <2>5. CASE AppExit(a)
    BY <2>5 DEF AppExit
  <2>6. QED BY <1>11, <2>1, <2>2, <2>3, <2>4, <2>5 DEF AppStep
<1>12. ASSUME NEW o \in Ops,
             PushTx(o) \/ PinReturns(o) \/ PinDone(o) \/ PinCtxClose(o)
      PROVE SnapshotCovers'
  <2>1. CASE PushTx(o)
    BY <2>1 DEF PushTx, Room, StartClose
  <2>2. CASE PinReturns(o)
    BY <2>2 DEF PinReturns, StartClose
  <2>3. CASE PinDone(o)
    BY <2>3 DEF PinDone
  <2>4. CASE PinCtxClose(o)
    BY <2>4 DEF PinCtxClose
  <2>5. QED BY <1>12, <2>1, <2>2, <2>3, <2>4
<1>13. ASSUME SessClose \/ WriterTake \/ WriterSent \/ WriterDone PROVE SnapshotCovers'
    BY <1>13 DEF SessClose, WriterTake, WriterSent, WriterDone
<1>14. CASE UNCHANGED vars BY <1>14 DEF vars
<1>15. QED
    BY <1>1, <1>2, <1>3, <1>4, <1>5, <1>6, <1>7, <1>8, <1>9,
       <1>10, <1>11, <1>12, <1>13, <1>14
    DEF Next, InboxStep

LEMMA InitCloseInv == Init => CloseInv
BY Distinct
DEF Init, CloseInv, NoLostClose, SnapshotCovers, NoOpSurvivesInbox

LEMMA DoneCancels == TypeShape /\ CloseInv => DoneCancelsAll
<1> SUFFICES ASSUME TypeShape, CloseInv, Done,
                    NEW o \in Ops, opId[o] # NoReq
             PROVE  cancel[o]
    BY DEF DoneCancelsAll
<1>1. opId[o] \in Reqs BY DEF TypeShape, TypeOK
<1>2. closed[o]
    BY <1>1, Distinct
    DEF Done, CloseInv, NoLostClose, SnapshotCovers, NoOpSurvivesInbox
<1>3. ASSUME NEW c \in Callers PROVE callPc[c] = "idle"
  <2>1. CASE c = Inbox
      BY <2>1 DEF Done, TypeShape, ShapeInv, InboxShape
  <2>2. CASE c \in Apps
      BY <2>2 DEF Done, TypeShape, ShapeInv, CallShape
  <2>3. CASE c \in Ops
      BY <2>3 DEF Done, TypeShape, ShapeInv, CallShape
  <2>4. QED BY <2>1, <2>2, <2>3, Distinct
<1>4. QED BY <1>2, <1>3 DEF CloseInv, NoLostClose

\* consumeInbox, closeAllReqs and the calls of closeOp that race with them
\* leave no request open behind the session task, and none uncancelled once
\* the session is done.
THEOREM RequestsEnd == SafetySpec => []RequestsAreEnded
<1> DEFINE Inv == TypeShape /\ CloseInv
<1>1. Init => Inv BY InitTypeShape, InitCloseInv
<1>2. Inv /\ [Next]_vars => Inv'
    BY TypeShapeStep, NoLostCloseStep, SnapshotStep DEF CloseInv
<1>3. Inv => RequestsAreEnded
    BY DoneCancels DEF CloseInv, SnapshotCovers, RequestsAreEnded
<1>4. QED BY <1>1, <1>2, <1>3, PTL DEF SafetySpec

-----------------------------------------------------------------------------
(* A child request is served by its parent's pin.                          *)

LEMMA ParentStep == TypeShape /\ ParentInv /\ [Next]_vars => ParentInv'
<1> SUFFICES ASSUME TypeShape /\ ParentInv, [Next]_vars PROVE ParentInv'
    OBVIOUS
<1> USE Distinct, TxFields
    DEF TypeShape, TypeOK, ShapeInv, CallShape, InboxShape, AppShape,
        Unsubmitted, ParentInv, ChildServedByParent, inVars, opVars, pinVars, appVars, callVars
<1>1. ASSUME RecvTx PROVE ParentInv'
    BY <1>1 DEF RecvTx, InboxClose, StartClose
<1>2. ASSUME AddClientOp PROVE ParentInv'
    BY <1>2 DEF AddClientOp, Refuse, RefusedId, InboxClose, StartClose
<1>3. ASSUME WaitOnReady PROVE ParentInv'
    BY <1>3, SMTT(60) DEF WaitOnReady, Ready, Parent, Refuse, RefusedId, InboxClose, StartClose
<1>4. ASSUME SubmitToApp PROVE ParentInv'
    BY <1>4 DEF SubmitToApp, Refuse, RefusedId, InboxClose, StartClose
<1>5. ASSUME SendToApp PROVE ParentInv'
    BY <1>5 DEF SendToApp
<1>6. ASSUME FinishTx PROVE ParentInv'
    BY <1>6 DEF FinishTx
<1>7. ASSUME CloseAllReqs PROVE ParentInv'
    BY <1>7 DEF CloseAllReqs, OpenIds
<1>8. ASSUME CloseNextReq PROVE ParentInv'
    BY <1>8 DEF CloseNextReq, StartClose
<1>9. ASSUME InboxExit PROVE ParentInv'
    BY <1>9 DEF InboxExit
<1>10. ASSUME NEW c \in Callers, CloseStep(c) PROVE ParentInv'
  <2>1. CASE Detach(c)
    BY <2>1 DEF Detach
  <2>2. CASE SendClose(c)
    BY <2>2 DEF SendClose, Room
  <2>3. CASE CloseCancel(c)
    BY <2>3 DEF CloseCancel
  <2>4. CASE ClosePin(c)
    BY <2>4 DEF ClosePin, HasPin
  <2>5. QED BY <1>10, <2>1, <2>2, <2>3, <2>4 DEF CloseStep
<1>11. ASSUME NEW a \in Apps, AppStep(a) PROVE ParentInv'
  <2>1. CASE TakeOp(a)
    BY <2>1 DEF TakeOp
  <2>2. CASE ServeRequest(a)
    BY <2>2 DEF ServeRequest, StartClose
  <2>3. CASE OpStarted(a)
    BY <2>3 DEF OpStarted
  <2>4. CASE OpFailed(a)
    BY <2>4 DEF OpFailed
  <2>5. CASE AppExit(a)
    BY <2>5 DEF AppExit
  <2>6. QED BY <1>11, <2>1, <2>2, <2>3, <2>4, <2>5 DEF AppStep
<1>12. ASSUME NEW o \in Ops,
             PushTx(o) \/ PinReturns(o) \/ PinDone(o) \/ PinCtxClose(o)
      PROVE ParentInv'
  <2>1. CASE PushTx(o)
    BY <2>1 DEF PushTx, Room, StartClose
  <2>2. CASE PinReturns(o)
    BY <2>2 DEF PinReturns, StartClose
  <2>3. CASE PinDone(o)
    BY <2>3 DEF PinDone
  <2>4. CASE PinCtxClose(o)
    BY <2>4 DEF PinCtxClose
  <2>5. QED BY <1>12, <2>1, <2>2, <2>3, <2>4
<1>13. ASSUME SessClose \/ WriterTake \/ WriterSent \/ WriterDone PROVE ParentInv'
    BY <1>13 DEF SessClose, WriterTake, WriterSent, WriterDone
<1>14. CASE UNCHANGED vars BY <1>14 DEF vars
<1>15. QED
    BY <1>1, <1>2, <1>3, <1>4, <1>5, <1>6, <1>7, <1>8, <1>9,
       <1>10, <1>11, <1>12, <1>13, <1>14
    DEF Next, InboxStep

LEMMA InitParentInv == Init => ParentInv
BY Distinct DEF Init, ParentInv, ChildServedByParent

\* startOp takes no child for a root request: whatever was sent in the
\* context of a parent reaches its app with the pin of a started parent of
\* the same app.
THEOREM ChildrenServed == SafetySpec => []ChildServedByParent
<1> DEFINE Inv == TypeShape /\ ParentInv
<1>1. Init => Inv BY InitTypeShape, InitParentInv
<1>2. Inv /\ [Next]_vars => Inv' BY TypeShapeStep, ParentStep
<1>3. Inv => ChildServedByParent BY SMTT(60) DEF ParentInv
<1>4. QED BY <1>1, <1>2, <1>3, PTL DEF SafetySpec

-----------------------------------------------------------------------------
(* With fresh IDs closeOp only reaches the caller's own request.           *)

LEMMA OwnerStep == TypeShape /\ CloseInv /\ OwnerInv /\ [Next]_vars => OwnerInv'
<1> SUFFICES ASSUME TypeShape /\ CloseInv /\ OwnerInv, [Next]_vars PROVE OwnerInv'
    OBVIOUS
<1> USE Distinct, TxFields
    DEF TypeShape, TypeOK, ShapeInv, CallShape, InboxShape, AppShape,
        CloseInv, NoLostClose, Unsubmitted, OwnerInv, ClosesOwnOp, UsedIds,
        inVars, opVars, pinVars, appVars, callVars
<1>1. ASSUME RecvTx PROVE OwnerInv'
    BY <1>1, SMTT(60) DEF RecvTx, InboxClose, StartClose
<1>2. ASSUME AddClientOp PROVE OwnerInv'
  <2> SUFFICES ASSUME FreshIds PROVE OwnerInv'
      OBVIOUS
  <2>1. inTx \in Tx /\ inTx.req \in Reqs /\ inTx.kind = "Open"
      BY <1>2 DEF AddClientOp
  <2>2. \A x \in Ops : opId[x] # inTx.req
      BY <1>2 DEF AddClientOp
  <2>3. openOps[inTx.req] = NoOp
      BY <2>1, <2>2
  <2>4. PICK o \in Ops :
            /\ opId[o] = NoReq
            /\ opId' = [opId EXCEPT ![o] = inTx.req]
            /\ \/ Refuse
               \/ inPc' \in {"submit", "await"} /\ UNCHANGED <<inTx, callVars>>
      BY <1>2, <2>3 DEF AddClientOp
  <2>5. UNCHANGED <<started, pinVars, appVars>>
      BY <1>2, <2>3 DEF AddClientOp
  <2>6. /\ Unsubmitted(o)' /\ opId'[o] = inTx.req
        /\ \A x \in Ops \ {o} : opId'[x] = opId[x]
      BY <2>4, <2>5
  <2>7. callPc[Inbox] = "idle" /\ callOp[Inbox] = NoOp
      BY <1>2, SMTT(60) DEF AddClientOp
  <2>8. CASE Refuse
    <3>1. /\ inPc' = "close" /\ inTx' = inTx /\ callOp' = callOp
          /\ callPc'[Inbox] = "detach" /\ callId'[Inbox] = inTx.req
          /\ \A d \in Callers \ {Inbox} : /\ callPc'[d] = callPc[d]
                                         /\ callId'[d] = callId[d]
        BY <2>8 DEF Refuse, RefusedId, InboxClose, StartClose
    <3>2. \A o1, o2 \in Ops :
              opId'[o1] = opId'[o2] /\ opId'[o1] \in Reqs => o1 = o2
        BY <2>2, <2>6
    <3>3. \A x \in Ops : opId'[x] = inTx.req => x = o
        BY <2>2, <2>6
    <3>4. \A x \in Ops : callPc[x] # "idle" => x # o
        BY <2>4
    <3>5. \A c \in Apps : callPc[c] # "idle" => appOp[c] \in Ops \ {o}
        BY <2>4
    <3>6. ClosesOwnOp' BY <2>5, <2>7, <3>1
    <3>7. QED BY <2>1, <2>5, <2>6, <2>7, <3>1, <3>2, <3>3, <3>4, <3>5, <3>6
  <2>9. CASE inPc' \in {"submit", "await"} /\ UNCHANGED <<inTx, callVars>>
    <3>1. \A o1, o2 \in Ops :
              opId'[o1] = opId'[o2] /\ opId'[o1] \in Reqs => o1 = o2
        BY <2>2, <2>6
    <3>2. \A x \in Ops : callPc[x] # "idle" => x # o
        BY <2>4
    <3>3. \A c \in Apps : callPc[c] # "idle" => appOp[c] \in Ops \ {o}
        BY <2>4
    <3>4. QED BY <2>5, <2>6, <2>9, <3>1, <3>2, <3>3
  <2>10. QED BY <2>4, <2>8, <2>9
<1>3. ASSUME WaitOnReady PROVE OwnerInv'
    BY <1>3, SMTT(60) DEF WaitOnReady, Ready, Parent, Refuse, RefusedId, InboxClose, StartClose
<1>4. ASSUME SubmitToApp PROVE OwnerInv'
  <2>1. CASE Refuse /\ UNCHANGED <<opVars, appVars>>
    <3>1. UNCHANGED pinVars BY <1>4 DEF SubmitToApp
    <3>2. callPc[Inbox] = "idle" /\ opId[inOp] = inTx.req /\ Unsubmitted(inOp)
        BY <1>4 DEF SubmitToApp
    <3>3. /\ inPc' = "close" /\ inTx' = inTx /\ callOp' = callOp
          /\ callPc'[Inbox] = "detach" /\ callId'[Inbox] = inTx.req
          /\ \A d \in Callers \ {Inbox} : /\ callPc'[d] = callPc[d]
                                         /\ callId'[d] = callId[d]
        BY <2>1 DEF Refuse, RefusedId, InboxClose, StartClose
    <3>4. inOp \in Ops /\ inTx.req \in Reqs BY <1>4 DEF SubmitToApp
    <3>5. FreshIds => \A x \in Ops : opId[x] = inTx.req => x = inOp
        BY <3>2, <3>4
    <3>6. callOp[Inbox] = NoOp BY <3>2
    <3>7. FreshIds => ClosesOwnOp' BY <2>1, <3>1, <3>3, <3>6
    <3>8. QED BY <2>1, <3>1, <3>2, <3>3, <3>5, <3>6, <3>7, SMTT(60)
  <2>2. CASE inPc' = "send" /\ UNCHANGED <<opId, started, appOp, appIn, callVars>>
      BY <1>4, <2>2 DEF SubmitToApp
  <2>3. QED BY <1>4, <2>1, <2>2 DEF SubmitToApp
<1>5. ASSUME SendToApp PROVE OwnerInv'
    BY <1>5 DEF SendToApp
<1>6. ASSUME FinishTx PROVE OwnerInv'
    BY <1>6 DEF FinishTx
<1>7. ASSUME CloseAllReqs PROVE OwnerInv'
    BY <1>7 DEF CloseAllReqs, OpenIds
<1>8. ASSUME CloseNextReq PROVE OwnerInv'
    BY <1>8 DEF CloseNextReq, StartClose
<1>9. ASSUME InboxExit PROVE OwnerInv'
    BY <1>9 DEF InboxExit
<1>10. ASSUME NEW c \in Callers, CloseStep(c) PROVE OwnerInv'
  <2>1. CASE Detach(c)
    <3> SUFFICES ASSUME FreshIds PROVE OwnerInv'
        OBVIOUS
    <3> DEFINE r == callId[c]
    <3>1. /\ r \in Reqs /\ callPc'[c] \in {"idle", "cancel", "send"}
          /\ callOp'[c] # NoOp => callOp'[c] \in Ops /\ opId[callOp'[c]] = r
        BY <2>1, DetachEffect
    <3>2. \A d \in Callers \ {c} : /\ callPc'[d] = callPc[d]
                                 /\ callId'[d] = callId[d]
                                 /\ callOp'[d] = callOp[d]
        BY <2>1, DetachEffect
    <3>3. UNCHANGED <<inPc, inTx, opId, started, pinPc, appIn, appOp>>
        BY <2>1, DetachEffect
    <3>4. callPc[c] \in {"detach", "quiet"} BY <2>1 DEF Detach
    <3>5. c \in Ops => callOp'[c] \in {c, NoOp}
        BY <3>1, <3>4
    <3>6. c \in Apps => callOp'[c] \in {appOp[c], NoOp}
        BY <3>1, <3>4
    <3>7. inPc = "close" /\ inTx.kind = "Open" /\ c = Inbox => r = inTx.req
        BY <3>4
    <3>8. inPc = "close" /\ inTx.kind = "Open" /\ callOp'[Inbox] # NoOp
              => opId[callOp'[Inbox]] = inTx.req /\ callOp'[Inbox] \in Ops
        BY <3>1, <3>2, <3>7
    <3>9. \A o \in Ops : callOp'[o] \in {o, NoOp}
        BY <3>2, <3>5
    <3>10. \A a \in Apps : callOp'[a] \in {appOp[a], NoOp}
        BY <3>2, <3>6
    <3>11. ClosesOwnOp'
        BY <3>3, <3>8, <3>9, <3>10
    <3>12. \A d \in Callers : callPc'[d] \in {"detach", "quiet"} =>
               callPc'[d] = callPc[d] /\ callId'[d] = callId[d]
        BY <3>1, <3>2
    <3>13. QED BY <3>3, <3>8, <3>11, <3>12
  <2>2. CASE SendClose(c)
    BY <2>2 DEF SendClose, Room
  <2>3. CASE CloseCancel(c)
    BY <2>3 DEF CloseCancel
  <2>4. CASE ClosePin(c)
    BY <2>4 DEF ClosePin, HasPin
  <2>5. QED BY <1>10, <2>1, <2>2, <2>3, <2>4 DEF CloseStep
<1>11. ASSUME NEW a \in Apps, AppStep(a) PROVE OwnerInv'
  <2>1. CASE TakeOp(a)
    BY <2>1, SMTT(60) DEF TakeOp
  <2>2. CASE ServeRequest(a)
    BY <2>2 DEF ServeRequest, StartClose
  <2>3. CASE OpStarted(a)
    BY <2>3, SMTT(60) DEF OpStarted
  <2>4. CASE OpFailed(a)
    BY <2>4, SMTT(60) DEF OpFailed
  <2>5. CASE AppExit(a)
    BY <2>5 DEF AppExit
  <2>6. QED BY <1>11, <2>1, <2>2, <2>3, <2>4, <2>5 DEF AppStep
<1>12. ASSUME NEW o \in Ops,
             PushTx(o) \/ PinReturns(o) \/ PinDone(o) \/ PinCtxClose(o)
      PROVE OwnerInv'
  <2>1. CASE PushTx(o)
    BY <2>1, SMTT(60) DEF PushTx, Room, StartClose
  <2>2. CASE PinReturns(o)
    BY <2>2 DEF PinReturns, StartClose
  <2>3. CASE PinDone(o)
    BY <2>3 DEF PinDone
  <2>4. CASE PinCtxClose(o)
    BY <2>4 DEF PinCtxClose
  <2>5. QED BY <1>12, <2>1, <2>2, <2>3, <2>4
<1>13. ASSUME SessClose \/ WriterTake \/ WriterSent \/ WriterDone PROVE OwnerInv'
    BY <1>13 DEF SessClose, WriterTake, WriterSent, WriterDone
<1>14. CASE UNCHANGED vars BY <1>14 DEF vars
<1>15. QED
    BY <1>1, <1>2, <1>3, <1>4, <1>5, <1>6, <1>7, <1>8, <1>9,
       <1>10, <1>11, <1>12, <1>13, <1>14
    DEF Next, InboxStep

LEMMA InitOwnerInv == Init => OwnerInv
BY Distinct DEF Init, OwnerInv, ClosesOwnOp, Unsubmitted, UsedIds

\* If the client never reuses a request ID, a pin that completes closes its
\* own request, an app that cannot serve a request closes that one, and a
\* refusal never closes a request that an app already has.
THEOREM OwnRequestClosed == SafetySpec => []ClosesOwnOp
<1> DEFINE Inv == TypeShape /\ CloseInv /\ OwnerInv
<1>1. Init => Inv BY InitTypeShape, InitCloseInv, InitOwnerInv
<1>2. Inv /\ [Next]_vars => Inv'
    BY TypeShapeStep, NoLostCloseStep, SnapshotStep, OwnerStep DEF CloseInv
<1>3. Inv => ClosesOwnOp BY DEF OwnerInv, ClosesOwnOp
<1>4. QED BY <1>1, <1>2, <1>3, PTL DEF SafetySpec

-----------------------------------------------------------------------------
(* HostSession implements RequestLife.                                     *)

CancelAfterClose == \A o \in Ops : cancel[o] => closed[o]

LifeInv == TypeShape /\ CloseInv /\ CancelAfterClose

\* What each step does to the state that the mapping reads.
LEMMA CancelStep == TypeShape /\ CancelAfterClose /\ [Next]_vars => CancelAfterClose'
<1> SUFFICES ASSUME TypeShape, CancelAfterClose, [Next]_vars
             PROVE  CancelAfterClose'
    OBVIOUS
<1> USE Distinct
    DEF TypeShape, TypeOK, ShapeInv, CallShape, CancelAfterClose,
        inVars, opVars, pinVars, appVars, callVars
<1>1. CASE RecvTx \/ InboxStep
    BY <1>1 DEF InboxStep, RecvTx, AddClientOp, WaitOnReady, SubmitToApp,
       SendToApp, FinishTx, CloseAllReqs, CloseNextReq, InboxExit, Refuse
<1>2. ASSUME NEW c \in Callers, CloseStep(c) PROVE CancelAfterClose'
    BY <1>2, SMTT(60) DEF CloseStep, Detach, SendClose, CloseCancel, ClosePin
<1>3. ASSUME NEW a \in Apps, AppStep(a) PROVE CancelAfterClose'
    BY <1>3 DEF AppStep, TakeOp, ServeRequest, OpStarted, OpFailed, AppExit
<1>4. ASSUME NEW o \in Ops,
             PushTx(o) \/ PinReturns(o) \/ PinDone(o) \/ PinCtxClose(o)
      PROVE CancelAfterClose'
    BY <1>4 DEF PushTx, PinReturns, PinDone, PinCtxClose
<1>5. CASE SessClose \/ WriterTake \/ WriterSent \/ WriterDone
    BY <1>5 DEF SessClose, WriterTake, WriterSent, WriterDone
<1>6. CASE UNCHANGED vars BY <1>6 DEF vars
<1>7. QED BY <1>1, <1>2, <1>3, <1>4, <1>5, <1>6 DEF Next

LEMMA LifeInvStep == LifeInv /\ [Next]_vars => LifeInv'
BY TypeShapeStep, NoLostCloseStep, SnapshotStep, CancelStep DEF LifeInv, CloseInv

\* When the session is done no goroutine of it is left, and nothing that the
\* mapping reads changes any more.
LEMMA DoneFrozen ==
    ASSUME LifeInv, Done, [Next]_vars
    PROVE  Done' /\ UNCHANGED <<opId, closed, cancel, pinPc>>
<1> USE Distinct
    DEF LifeInv, TypeShape, TypeOK, ShapeInv, CallShape, InboxShape, AppShape,
        Done, inVars, opVars, pinVars, appVars, callVars
<1>1. \A c \in Callers : callPc[c] = "idle"
    OBVIOUS
<1>2. ASSUME RecvTx \/ InboxStep PROVE FALSE
    BY <1>1, <1>2 DEF InboxStep, RecvTx, AddClientOp, WaitOnReady, SubmitToApp,
       SendToApp, FinishTx, CloseAllReqs, CloseNextReq, InboxExit
<1>3. ASSUME NEW c \in Callers, CloseStep(c) PROVE FALSE
    BY <1>1, <1>3 DEF CloseStep, Detach, SendClose, CloseCancel, ClosePin
<1>4. ASSUME NEW a \in Apps, AppStep(a) PROVE FALSE
    BY <1>4 DEF AppStep, TakeOp, ServeRequest, OpStarted, OpFailed, AppExit
<1>5. ASSUME NEW o \in Ops,
             PushTx(o) \/ PinReturns(o) \/ PinDone(o) \/ PinCtxClose(o)
      PROVE FALSE
    BY <1>5 DEF PushTx, PinReturns, PinDone, PinCtxClose
<1>6. CASE SessClose \/ WriterTake \/ WriterSent \/ WriterDone
    BY <1>6 DEF SessClose, WriterTake, WriterSent, WriterDone
<1>7. CASE UNCHANGED vars BY <1>7 DEF vars
<1>8. QED BY <1>2, <1>3, <1>4, <1>5, <1>6, <1>7 DEF Next

\* A step that moves no request is a stutter of the abstract life, or the
\* step in which the session becomes done.
LEMMA LifeSame ==
    ASSUME LifeInv, [Next]_vars,
           UNCHANGED <<opId, closed, cancel>>,
           \A o \in Ops : LifePin(o)' = LifePin(o)
    PROVE  [Life!Next]_(Life!lifeVars)
<1>1. \A o \in Ops : LifePhase(o)' = LifePhase(o)
    BY DEF LifePhase
<1>2. UNCHANGED <<[o \in Ops |-> LifePhase(o)], [o \in Ops |-> LifePin(o)]>>
    BY <1>1
<1>3. CASE Done' = Done
    BY <1>2, <1>3 DEF Life!lifeVars
<1>4. CASE ~Done /\ Done'
  <2>1. DoneCancelsAll'
    <3>1. (TypeShape /\ CloseInv => DoneCancelsAll)'
        BY DoneCancels, PTL
    <3>2. QED BY <3>1, LifeInvStep DEF LifeInv
  <2>2. \A o \in Ops : LifePhase(o) \in {"none", "cancelled"}
    <3>1. \A o \in Ops : opId[o] # NoReq => cancel[o]
        BY <1>4, <2>1 DEF DoneCancelsAll
    <3>2. QED BY <3>1 DEF LifePhase, LifeInv, CancelAfterClose
  <2>3. \A o \in Ops : LifePin(o) # "running"
      BY <1>4 DEF Done, LifePin
  <2>4. Life!Finish
      BY <1>2, <1>4, <2>2, <2>3 DEF Life!Finish
  <2>5. QED BY <2>4 DEF Life!Next
<1>5. CASE Done /\ ~Done'
    BY <1>5, DoneFrozen
<1>6. QED BY <1>3, <1>4, <1>5 DEF Done

\* A step that changes one request's phase, or one request's pin, while the
\* session is not done.
LEMMA LifePhaseStep ==
    ASSUME NEW o \in Ops, ~Done, ~Done',
           \A x \in Ops \ {o} : LifePhase(x)' = LifePhase(x),
           \A x \in Ops : LifePin(x)' = LifePin(x),
           \/ LifePhase(o) = "none" /\ LifePhase(o)' = "open"
           \/ LifePhase(o) = "open" /\ LifePhase(o)' = "closed"
           \/ LifePhase(o) = "closed" /\ LifePhase(o)' = "cancelled"
    PROVE  [Life!Next]_(Life!lifeVars)
<1>1. ([x \in Ops |-> LifePhase(x)])' =
          [[x \in Ops |-> LifePhase(x)] EXCEPT ![o] = LifePhase(o)']
    OBVIOUS
<1>2. ([x \in Ops |-> LifePin(x)])' = [x \in Ops |-> LifePin(x)]
    OBVIOUS
<1>3. Done' = Done BY DEF Done
<1>4. Life!Open(o) \/ Life!Close(o) \/ Life!Cancel(o)
    BY <1>1, <1>2, <1>3 DEF Life!Open, Life!Close, Life!Cancel, Life!Advance
<1>5. QED BY <1>4 DEF Life!Next

LEMMA LifePinStep ==
    ASSUME NEW o \in Ops, ~Done, ~Done',
           \A x \in Ops : LifePhase(x)' = LifePhase(x),
           \A x \in Ops \ {o} : LifePin(x)' = LifePin(x),
           \/ /\ LifePhase(o) # "none"
              /\ LifePin(o) = "none" /\ LifePin(o)' = "running"
           \/ LifePin(o) = "running" /\ LifePin(o)' = "ended"
    PROVE  [Life!Next]_(Life!lifeVars)
<1>1. ([x \in Ops |-> LifePin(x)])' =
          [[x \in Ops |-> LifePin(x)] EXCEPT ![o] = LifePin(o)']
    OBVIOUS
<1>2. ([x \in Ops |-> LifePhase(x)])' = [x \in Ops |-> LifePhase(x)]
    OBVIOUS
<1>3. Done' = Done BY DEF Done
<1>4. Life!Launch(o) \/ Life!End(o)
    BY <1>1, <1>2, <1>3 DEF Life!Launch, Life!End
<1>5. QED BY <1>4 DEF Life!Next

LEMMA LifeStep == LifeInv /\ [Next]_vars => [Life!Next]_(Life!lifeVars)
<1> SUFFICES ASSUME LifeInv, [Next]_vars PROVE [Life!Next]_(Life!lifeVars)
    OBVIOUS
<1> USE DEF inVars, opVars, pinVars, appVars, callVars
<1> DEFINE Quiet == UNCHANGED <<opId, closed, cancel, pinPc>>
<1>1. CASE Quiet
    BY <1>1, LifeSame DEF LifePin
<1>2. CASE AddClientOp
  <2>1. CASE UNCHANGED opId
      BY <1>1, <1>2, <2>1 DEF AddClientOp
  <2>2. CASE opId' # opId
    <3>1. PICK o \in Ops : /\ opId[o] = NoReq
                           /\ opId' = [opId EXCEPT ![o] = inTx.req]
        BY <1>2, <2>2 DEF AddClientOp
    <3>2. inTx.req \in Reqs /\ opId \in [Ops -> Reqs \cup {NoReq}]
        BY <1>2, TxFields DEF AddClientOp, LifeInv, TypeShape, TypeOK, ShapeInv,
           InboxShape
    <3>3. UNCHANGED <<closed, cancel, pinPc>>
        BY <1>2 DEF AddClientOp, Refuse
    <3>4. inPc = "add" /\ inPc' # "exit"
        BY <1>2 DEF AddClientOp, Refuse, RefusedId, InboxClose
    <3>5. ~closed[o]
        BY <3>1, Distinct DEF LifeInv, CloseInv, NoLostClose
    <3>6. LifePhase(o) = "none" /\ LifePhase(o)' = "open"
        BY <3>1, <3>2, <3>3, <3>5, Distinct DEF LifePhase
    <3>7. \A x \in Ops \ {o} : LifePhase(x)' = LifePhase(x)
        BY <3>1, <3>2, <3>3 DEF LifePhase
    <3>8. \A x \in Ops : LifePin(x)' = LifePin(x)
        BY <3>3 DEF LifePin
    <3>9. QED BY <3>4, <3>6, <3>7, <3>8, LifePhaseStep DEF Done
  <2>3. QED BY <2>1, <2>2
<1>3. ASSUME RecvTx \/ (InboxStep /\ ~AddClientOp) PROVE Quiet
    BY <1>3 DEF RecvTx, InboxStep, WaitOnReady, SubmitToApp, SendToApp,
       FinishTx, CloseAllReqs, CloseNextReq, InboxExit, Refuse
<1>4. ASSUME NEW c \in Callers, CloseStep(c), ~Quiet
      PROVE  [Life!Next]_(Life!lifeVars)
  <2>1. callPc[c] # "idle" /\ UNCHANGED <<inPc, appPc, opId, pinPc>>
      BY <1>4 DEF CloseStep, Detach, SendClose, CloseCancel, ClosePin
  <2>2. ~Done /\ ~Done'
      BY <2>1, Distinct DEF Done, LifeInv, TypeShape, ShapeInv, CallShape
  <2>3. \A x \in Ops : LifePin(x)' = LifePin(x)
      BY <2>1 DEF LifePin
  <2>4. CASE Detach(c)
    <3>1. callId[c] \in Reqs
        BY <2>4, DetachEffect DEF LifeInv
    <3>2. openOps[callId[c]] # NoOp /\ ~closed[openOps[callId[c]]]
        BY <1>4, <2>4 DEF Detach
    <3>3. PICK o \in Ops : o = openOps[callId[c]]
        BY <3>1, <3>2 DEF LifeInv, TypeShape, TypeOK
    <3>4. /\ ~closed[o] /\ opId[o] \in Reqs
          /\ closed' = [closed EXCEPT ![o] = TRUE] /\ UNCHANGED cancel
        BY <2>4, <3>1, <3>2, <3>3 DEF Detach, LifeInv, CloseInv, NoLostClose
    <3>5. ~cancel[o] /\ closed'[o]
        BY <3>4 DEF LifeInv, CancelAfterClose, TypeShape, TypeOK
    <3>6. LifePhase(o) = "open" /\ LifePhase(o)' = "closed"
        BY <2>1, <3>4, <3>5, Distinct DEF LifePhase
    <3>7. \A x \in Ops \ {o} : LifePhase(x)' = LifePhase(x)
        BY <2>1, <3>4 DEF LifePhase, LifeInv, TypeShape, TypeOK
    <3>8. QED BY <2>2, <2>3, <3>6, <3>7, LifePhaseStep
  <2>5. CASE CloseCancel(c)
    <3>1. PICK o \in Ops : o = callOp[c] /\ closed[o]
        BY <2>5 DEF CloseCancel, LifeInv, TypeShape, ShapeInv, CallShape
    <3>2. opId[o] # NoReq
        BY <3>1, Distinct DEF LifeInv, CloseInv, NoLostClose
    <3>3. cancel' = [cancel EXCEPT ![o] = TRUE] /\ UNCHANGED closed
        BY <2>5, <3>1 DEF CloseCancel
    <3>4. cancel[o] \/ ~cancel[o]
        OBVIOUS
    <3>5. CASE cancel[o]
        BY <1>4, <2>1, <3>1, <3>3, <3>5 DEF LifeInv, TypeShape, TypeOK
    <3>6. CASE ~cancel[o]
      <4>1. LifePhase(o) = "closed" /\ LifePhase(o)' = "cancelled"
          BY <2>1, <3>1, <3>2, <3>3, <3>6 DEF LifePhase, LifeInv, TypeShape, TypeOK
      <4>2. \A x \in Ops \ {o} : LifePhase(x)' = LifePhase(x)
          BY <2>1, <3>3 DEF LifePhase, LifeInv, TypeShape, TypeOK
      <4>3. QED BY <2>2, <2>3, <3>1, <4>1, <4>2, LifePhaseStep
    <3>7. QED BY <3>5, <3>6
  <2>6. QED BY <1>4, <2>4, <2>5 DEF CloseStep, SendClose, ClosePin
<1>5. ASSUME NEW a \in Apps, AppStep(a), ~Quiet
      PROVE  [Life!Next]_(Life!lifeVars)
  <2>1. /\ appPc[a] = "serve" /\ appPc'[a] = "launched"
        /\ pinPc' = [pinPc EXCEPT ![appOp[a]] = "run"]
        /\ UNCHANGED <<inPc, opId, closed, cancel>>
      BY <1>5 DEF AppStep, TakeOp, ServeRequest, OpStarted, OpFailed, AppExit,
         LifeInv, TypeShape, TypeOK
  <2>2. PICK o \in Ops : o = appOp[a] /\ opId[o] \in Reqs /\ pinPc[o] = "none"
      BY <2>1, Distinct
      DEF LifeInv, TypeShape, ShapeInv, AppShape
  <2>3. ~Done /\ ~Done'
      BY <2>1 DEF Done
  <2>4. \A x \in Ops : LifePhase(x)' = LifePhase(x)
      BY <2>1 DEF LifePhase
  <2>5. /\ LifePin(o) = "none" /\ LifePin(o)' = "running"
        /\ \A x \in Ops \ {o} : LifePin(x)' = LifePin(x)
      BY <2>1, <2>2 DEF LifePin, LifeInv, TypeShape, TypeOK
  <2>6. LifePhase(o) # "none"
      BY <2>2, Distinct DEF LifePhase
  <2>7. QED BY <2>2, <2>3, <2>4, <2>5, <2>6, LifePinStep
<1>6. ASSUME NEW o \in Ops,
             PushTx(o) \/ PinReturns(o) \/ PinDone(o) \/ PinCtxClose(o)
      PROVE [Life!Next]_(Life!lifeVars)
  <2>1. UNCHANGED <<opId, closed, cancel>>
      BY <1>6 DEF PushTx, PinReturns, PinDone, PinCtxClose
  <2>2. pinPc \in [Ops -> {"none", "run", "synced", "end", "done"}]
      BY DEF LifeInv, TypeShape, TypeOK
  <2>3. CASE PushTx(o) \/ PinDone(o) \/ PinCtxClose(o)
    <3>1. \A x \in Ops : LifePin(x)' = LifePin(x)
        BY <2>2, <2>3 DEF LifePin, PushTx, PinDone, PinCtxClose
    <3>2. QED BY <2>1, <3>1, LifeSame
  <2>4. CASE PinReturns(o)
    <3>1. pinPc[o] \in {"run", "synced"} /\ pinPc' = [pinPc EXCEPT ![o] = "end"]
        BY <2>4 DEF PinReturns
    <3>2. ~Done /\ ~Done'
        BY <2>2, <3>1 DEF Done
    <3>3. /\ LifePin(o) = "running" /\ LifePin(o)' = "ended"
          /\ \A x \in Ops \ {o} : LifePin(x)' = LifePin(x)
        BY <2>2, <3>1 DEF LifePin
    <3>4. \A x \in Ops : LifePhase(x)' = LifePhase(x)
        BY <2>1 DEF LifePhase
    <3>5. QED BY <3>2, <3>3, <3>4, LifePinStep
  <2>5. QED BY <1>6, <2>3, <2>4
<1>7. ASSUME SessClose \/ WriterTake \/ WriterSent \/ WriterDone PROVE Quiet
    BY <1>7 DEF SessClose, WriterTake, WriterSent, WriterDone
<1>8. CASE UNCHANGED vars
    BY <1>1, <1>8 DEF vars
<1>9. QED BY <1>1, <1>2, <1>3, <1>4, <1>5, <1>6, <1>7, <1>8 DEF Next

LEMMA InitLife == Init => LifeInv /\ Life!Init
<1> SUFFICES ASSUME Init PROVE LifeInv /\ Life!Init
    OBVIOUS
<1>1. LifeInv
    BY InitTypeShape, InitCloseInv DEF LifeInv, CancelAfterClose, Init
<1>2. ~Done BY DEF Init, Done
<1>3. \A o \in Ops : LifePhase(o) = "none" /\ LifePin(o) = "none"
    BY DEF Init, LifePhase, LifePin
<1>4. QED BY <1>1, <1>2, <1>3 DEF Life!Init, Done

\* The session implements the abstract life of its requests: every step of
\* any of its goroutines, in any order, is a step of RequestLife or none.
THEOREM SessionImplementsLife == SafetySpec => ImplementsLife
<1>1. Init => LifeInv /\ Life!Init BY InitLife
<1>2. LifeInv /\ [Next]_vars => LifeInv' BY LifeInvStep
<1>3. LifeInv /\ [Next]_vars => [Life!Next]_(Life!lifeVars) BY LifeStep
<1>4. QED BY <1>1, <1>2, <1>3, PTL DEF SafetySpec, ImplementsLife, Life!Spec
=============================================================================

----------------------------- MODULE TcpService -----------------------------
(***************************************************************************)
(* The TCP service (src/amp/host/tcp_service/tcp.service.go) and the tasks *)
(* the host starts below it for every connection (StartNewSession,         *)
(* src/amp/host/host.go).  The goroutines are the accept loop (Serve), the *)
(* callers of Stop (GracefulStop on a signal, and OnClosing of the         *)
(* service's context), and a reader and a writer task per session, both of *)
(* them children of the service's context.                                 *)
(*                                                                         *)
(* Every critical section of srv.mu is one step; muHeld says that one was  *)
(* left without unlocking.  A session that closes need not complete, and   *)
(* its task may stop taking messages: HostSession says when.               *)
(* The operators named Mutant... are faults a careless edit could bring    *)
(* in; nothing else uses them.                                             *)
(***************************************************************************)
EXTENDS Naturals

CONSTANTS Conns, NoConn

ASSUME TcpServiceAssumption == NoConn \notin Conns

Stoppers == {"signal", "onClosing"}    \* the goroutines that call Stop

VARIABLES
    stopped,     \* srv.stopped
    muHeld,      \* srv.mu is locked for good
    sessions,    \* srv.sessions, by connection
    connOpen,    \* the connections that are open
    lisOpen,     \* the listener is open
    ctxClosing,  \* the service's context is closing
    servePc,     \* where the accept loop is
    serveConn,   \* the connection it is adding
    sess,        \* the host session of each connection
    reader, writer,    \* its two tasks; a reader with a message is in "hand"
    stopPc       \* where each caller of Stop is

serveVars == <<servePc, serveConn>>
sessVars == <<sess, reader, writer>>
serviceVars == <<stopped, muHeld, sessions, connOpen, lisOpen, ctxClosing, serveVars,
          sessVars, stopPc>>

\* The service runs: StartService has returned.
ServiceInit ==
    /\ stopped = FALSE /\ muHeld = FALSE /\ lisOpen = TRUE /\ ctxClosing = FALSE
    /\ sessions = {} /\ connOpen = {}
    /\ servePc = "accept" /\ serveConn = NoConn
    /\ sess = [k \in Conns |-> "none"]
    /\ reader = [k \in Conns |-> "none"]
    /\ writer = [k \in Conns |-> "none"]
    /\ stopPc = [s \in Stoppers |-> "idle"]

\* What tryCloseSess does under srv.mu.
CloseSess(k) ==
    /\ ~muHeld
    /\ sessions' = sessions \ {k}
    /\ connOpen' = IF k \in sessions THEN connOpen \ {k} ELSE connOpen

-----------------------------------------------------------------------------
(* Serve and addClient                                                     *)

Accept ==
    /\ servePc = "accept" /\ lisOpen
    /\ \E k \in Conns :
         /\ sess[k] = "none" /\ k # serveConn
         /\ serveConn' = k /\ connOpen' = connOpen \cup {k}
    /\ servePc' = "add"
    /\ UNCHANGED <<stopped, muHeld, sessions, lisOpen, ctxClosing, sessVars,
                   stopPc>>

AcceptFails ==
    /\ servePc = "accept" /\ servePc' = "delay"
    /\ UNCHANGED <<stopped, muHeld, sessions, connOpen, lisOpen, ctxClosing,
                   serveConn, sessVars, stopPc>>

\* The delay ends with the timer or with Closing.
Retry ==
    /\ servePc = "delay" /\ servePc' = "accept"
    /\ UNCHANGED <<stopped, muHeld, sessions, connOpen, lisOpen, ctxClosing,
                   serveConn, sessVars, stopPc>>
ServeExit ==
    /\ servePc = "delay" /\ ctxClosing /\ servePc' = "exit"
    /\ UNCHANGED <<stopped, muHeld, sessions, connOpen, lisOpen, ctxClosing,
                   serveConn, sessVars, stopPc>>

\* srv.stopped.Load() with srv.mu held; the mutant does not look.
MutantRefused == FALSE
Refused == stopped

\* addClient up to StartNewSession.  A refused connection is closed, and the
\* function returns without unlocking srv.mu.  (sess is set so that the
\* connection is not accepted again.)
AddClient ==
    /\ servePc = "add" /\ ~muHeld
    /\ IF Refused
       THEN /\ connOpen' = connOpen \ {serveConn}
            /\ muHeld' = TRUE
            /\ servePc' = "accept"
            /\ sess' = [sess EXCEPT ![serveConn] = "closed"]
            /\ UNCHANGED sessions
       ELSE /\ sessions' = sessions \cup {serveConn}
            /\ servePc' = "start"
            /\ UNCHANGED <<muHeld, connOpen, sess>>
    /\ UNCHANGED <<stopped, lisOpen, ctxClosing, serveConn, reader, writer,
                   stopPc>>

\* StartNewSession starts the session task, or fails.  The mutant goes on
\* without a session.
MutantStartNewSession ==
    /\ servePc = "start"
    /\ servePc' = "writer"
    /\ \/ sess' = [sess EXCEPT ![serveConn] = "open"]
       \/ UNCHANGED sess
    /\ UNCHANGED <<stopped, muHeld, sessions, connOpen, lisOpen, ctxClosing,
                   serveConn, reader, writer, stopPc>>
StartNewSession ==
    /\ servePc = "start"
    /\ \/ servePc' = "writer" /\ sess' = [sess EXCEPT ![serveConn] = "open"]
       \/ servePc' = "fail" /\ sess' = [sess EXCEPT ![serveConn] = "closed"]
    /\ UNCHANGED <<stopped, muHeld, sessions, connOpen, lisOpen, ctxClosing,
                   serveConn, reader, writer, stopPc>>

\* tryCloseSess after StartNewSession has failed.
StartFailed ==
    /\ servePc = "fail" /\ CloseSess(serveConn) /\ servePc' = "accept"
    /\ UNCHANGED <<stopped, muHeld, lisOpen, ctxClosing, serveConn, sessVars,
                   stopPc>>

\* from.StartChild for the writer, then for the reader: neither error is
\* looked at, and a context that is closing starts no child.
Started == IF ctxClosing THEN "none" ELSE "run"
StartWriter ==
    /\ servePc = "writer" /\ servePc' = "reader"
    /\ writer' = [writer EXCEPT ![serveConn] = Started]
    /\ UNCHANGED <<stopped, muHeld, sessions, connOpen, lisOpen, ctxClosing,
                   serveConn, sess, reader, stopPc>>
StartReader ==
    /\ servePc = "reader" /\ servePc' = "accept"
    /\ reader' = [reader EXCEPT ![serveConn] = Started]
    /\ UNCHANGED <<stopped, muHeld, sessions, connOpen, lisOpen, ctxClosing,
                   serveConn, sess, writer, stopPc>>

ServeStep == \/ Retry \/ AddClient \/ StartNewSession \/ StartFailed
             \/ StartWriter \/ StartReader

-----------------------------------------------------------------------------
(* The session of a connection and its two tasks                           *)

\* RecvTx gives the reader a message for the session task.
ReaderTakes(k) ==
    /\ reader[k] = "run" /\ k \in connOpen
    /\ reader' = [reader EXCEPT ![k] = "hand"]
    /\ UNCHANGED <<stopped, muHeld, sessions, connOpen, lisOpen, ctxClosing,
                   serveVars, sess, writer, stopPc>>

\* sess.txIn <- tx: the session task, in the login or in consumeInbox, takes it.
HandOver(k) ==
    /\ reader[k] = "hand" /\ sess[k] # "closed"
    /\ reader' = [reader EXCEPT ![k] = "run"]
    /\ UNCHANGED <<stopped, muHeld, sessions, connOpen, lisOpen, ctxClosing,
                   serveVars, sess, writer, stopPc>>

Close(k) == sess' = [sess EXCEPT ![k] = IF @ = "open" THEN "closing" ELSE @]

\* RecvTx fails (the client has gone, or the connection is closed) and the
\* reader closes the session; or <-sessDone while it holds a message.
ReaderEnds(k) ==
    /\ \/ reader[k] = "run" /\ Close(k)
       \/ reader[k] = "hand" /\ sess[k] = "closed" /\ UNCHANGED sess
    /\ reader' = [reader EXCEPT ![k] = "done"]
    /\ UNCHANGED <<stopped, muHeld, sessions, connOpen, lisOpen, ctxClosing,
                   serveVars, writer, stopPc>>

\* The session closes by itself: the login has failed or has timed out.
SessionEnds(k) ==
    /\ sess[k] = "open" /\ Close(k)
    /\ UNCHANGED <<stopped, muHeld, sessions, connOpen, lisOpen, ctxClosing,
                   serveVars, reader, writer, stopPc>>

\* sess.Done(): all that runs below the session has ended.
SessionDone(k) ==
    /\ sess[k] = "closing" /\ sess' = [sess EXCEPT ![k] = "closed"]
    /\ UNCHANGED <<stopped, muHeld, sessions, connOpen, lisOpen, ctxClosing,
                   serveVars, reader, writer, stopPc>>

\* <-sessDone, then via.Close().
WriterEnds(k) ==
    /\ writer[k] = "run" /\ sess[k] = "closed"
    /\ CloseSess(k)
    /\ writer' = [writer EXCEPT ![k] = "done"]
    /\ UNCHANGED <<stopped, muHeld, lisOpen, ctxClosing, serveVars, sess,
                   reader, stopPc>>

ConnStep(k) == \/ ReaderTakes(k) \/ HandOver(k) \/ ReaderEnds(k)
               \/ SessionEnds(k) \/ SessionDone(k) \/ WriterEnds(k)

-----------------------------------------------------------------------------
(* Stop                                                                    *)

\* GracefulStop on a signal; OnClosing once the context closes.  Only the
\* first caller goes on.
Stop(s) ==
    /\ stopPc[s] = "idle"
    /\ s = "onClosing" => ctxClosing
    /\ stopped' = TRUE
    /\ stopPc' = [stopPc EXCEPT ![s] = IF stopped THEN "done" ELSE "pass"]
    /\ UNCHANGED <<muHeld, sessions, connOpen, lisOpen, ctxClosing, serveVars,
                   sessVars>>

\* Every registered session is closed; the mutant unregisters them only.
MutantClosedByStop == {}
ClosedByStop == sessions

CloseSessions(s) ==
    /\ stopPc[s] = "pass" /\ ~muHeld
    /\ sessions' = {} /\ connOpen' = connOpen \ ClosedByStop
    /\ stopPc' = [stopPc EXCEPT ![s] = "context"]
    /\ UNCHANGED <<stopped, muHeld, lisOpen, ctxClosing, serveVars, sessVars>>

CloseContext(s) ==
    /\ stopPc[s] = "context" /\ ctxClosing' = TRUE
    /\ stopPc' = [stopPc EXCEPT ![s] = "listener"]
    /\ UNCHANGED <<stopped, muHeld, sessions, connOpen, lisOpen, serveVars,
                   sessVars>>

CloseListener(s) ==
    /\ stopPc[s] = "listener" /\ lisOpen' = FALSE
    /\ stopPc' = [stopPc EXCEPT ![s] = "done"]
    /\ UNCHANGED <<stopped, muHeld, sessions, connOpen, ctxClosing, serveVars,
                   sessVars>>

\* srv.Close(): the second signal, or the closing of the host.
SrvClose ==
    /\ ctxClosing' = TRUE
    /\ UNCHANGED <<stopped, muHeld, sessions, connOpen, lisOpen, serveVars,
                   sessVars, stopPc>>

-----------------------------------------------------------------------------
StopStep(s) == CloseSessions(s) \/ CloseContext(s) \/ CloseListener(s)

ServiceNext ==
    \/ Accept \/ AcceptFails \/ ServeExit \/ ServeStep
    \/ \E k \in Conns : ConnStep(k)
    \/ \E s \in Stoppers : Stop(s) \/ StopStep(s)
    \/ SrvClose

\* The session has no reader and gets none: the service's context was closing
\* when StartReader came.
NoReader(k) == reader[k] = "none" /\ ~(servePc = "reader" /\ serveConn = k)

\* Every goroutine runs.  Accept fails at once when the listener is closed; a
\* read and a write (which the writer's end waits for) when the connection is.
\* After the first retry the loop finds Closing ready before its timer.  A
\* session without a reader is in its login, and LoginTimeout ends it there
\* (host.go:384); of the others none has to take messages or to complete.  The
\* client owes nothing.
ServiceFairness ==
    /\ WF_serviceVars(ServeStep) /\ SF_serviceVars(ServeExit)
    /\ WF_serviceVars(~lisOpen /\ AcceptFails)
    /\ \A k \in Conns :
         /\ WF_serviceVars((k \notin connOpen \/ reader[k] = "hand") /\ ReaderEnds(k))
         /\ WF_serviceVars(NoReader(k) /\ (SessionEnds(k) \/ SessionDone(k)))
         /\ WF_serviceVars(k \notin connOpen /\ WriterEnds(k))
    /\ \A s \in Stoppers : WF_serviceVars(StopStep(s))
    /\ WF_serviceVars(Stop("onClosing"))

ServiceSafetySpec == ServiceInit /\ [][ServiceNext]_serviceVars
ServiceSpec == ServiceSafetySpec /\ ServiceFairness

-----------------------------------------------------------------------------
\* The type invariant: in particular a task runs only for a session that was
\* started.
ServiceTypeOK ==
    /\ stopped \in BOOLEAN /\ muHeld \in BOOLEAN
    /\ lisOpen \in BOOLEAN /\ ctxClosing \in BOOLEAN
    /\ sessions \in SUBSET Conns /\ connOpen \in SUBSET Conns
    /\ servePc \in {"accept", "delay", "add", "start", "writer", "reader",
                    "fail", "exit"}
    /\ serveConn \in Conns \cup {NoConn}
    /\ servePc \in {"add", "start", "writer", "reader", "fail"} => serveConn \in Conns
    /\ sess \in [Conns -> {"none", "open", "closing", "closed"}]
    /\ reader \in [Conns -> {"none", "run", "hand", "done"}]
    /\ writer \in [Conns -> {"none", "run", "done"}]
    /\ servePc \in {"writer", "reader"} => sess[serveConn] # "none"
    /\ \A k \in Conns : sess[k] = "none" => reader[k] = "none" /\ writer[k] = "none"
    /\ stopPc \in [Stoppers -> {"idle", "pass", "context", "listener", "done"}]

\* A connection is open exactly while it is registered, or until addClient
\* has decided on it: whichever of the writer, the failed start and Stop comes
\* first closes it, and no connection is forgotten open.
OpenMeansRegistered ==
    connOpen = sessions \cup (IF servePc = "add" THEN {serveConn} ELSE {})

\* Once Stop has closed the sessions it found, no other is ever registered.
NoneAfterStop ==
    (\E s \in Stoppers : stopPc[s] \in {"context", "listener"}) \/ ~lisOpen
        => sessions = {}

\* <-srv.Done(): the context is closing, Serve has returned and no reader or
\* writer task is left.
SrvDone ==
    /\ ctxClosing /\ servePc = "exit"
    /\ \A k \in Conns : reader[k] # "run" /\ writer[k] # "run"

\* A session that has begun is stuck: it closes and does not complete, or its
\* task takes no more of its reader's messages and so never learns of the end
\* of its connection.
Stuck(k) == /\ reader[k] # "none"
            /\ sess[k] = "closing" \/ (sess[k] = "open" /\ reader[k] = "hand")

\* A stop completes, unless addClient has left the lock behind or a session is
\* stuck for good: no order of accepts, failing starts, logins without a reader
\* and stops keeps the service by itself.
StopsUnlessStuck ==
    (stopped ~> (SrvDone \/ muHeld)) \/ \E k \in Conns : <>[]Stuck(k)

\* main.go:73, "Block on tcp shutdown completion, then initiate host
\* shutdown.": a service that is stopped completes, if its sessions do.
ServiceStops == (\A k \in Conns : []<>~Stuck(k)) => (stopped ~> SrvDone)

\* Every connection is accounted for: an open one is registered or about to be,
\* and none is registered once Stop has closed those it found.
ConnsAreAccounted == OpenMeansRegistered /\ NoneAfterStop
=============================================================================

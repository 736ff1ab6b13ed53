------------------------------ MODULE LibHost ------------------------------
(***************************************************************************)
(* The host as a library (src/cmd/libarchost/main.go) and the transport of *)
(* its session (src/amp/host/lib_service/lib.service.go).  The client has  *)
(* a thread that begins, ends and shuts down, one that pushes messages and *)
(* one that waits for them with a buffer of its own; below them are the    *)
(* host's reader and writer tasks (StartNewSession).  A session that       *)
(* closes is taken to complete (HostSession says when it does).            *)
(***************************************************************************)
EXTENDS Naturals

CONSTANTS
    Hosts,        \* hosts that are started; bound of the calls of SessionBegin
    Bufs,         \* buffers
    None          \* no host, no session, no buffer

ASSUME LibAssumption == None \notin Hosts /\ None \notin Bufs

VARIABLES
    gHost, gService, gSession,     \* the globals
    up,           \* each host: not started, up, closing, done
    open,         \* the sessions whose closing channel is open, by host
    lost,         \* hosts that SessionBegin has replaced before they were done (history)
    mainPc,       \* the first thread
    pushPc,       \* the second: the session in EnqueueIncoming, or None
    waitPc,       \* the third: idle, or where DequeueOutgoing is
    waitOn,       \* ... and of which session
    mine,         \* the buffer of that thread
    free,         \* sess.free, by host: at most one buffer
    sending       \* the buffers that SendTx of a session offers, by host: at most one

libVars == <<gHost, gService, gSession, up, open, lost, mainPc, pushPc, waitPc,
             waitOn, mine, free, sending>>
globals == <<gHost, gService, gSession>>
threads == <<pushPc, waitPc, waitOn, mine, free, sending>>

LibInit ==
    /\ gHost = None /\ gService = None /\ gSession = None
    /\ up = [h \in Hosts |-> "none"] /\ open = {} /\ lost = {}
    /\ mainPc = "idle" /\ pushPc = None /\ waitPc = "idle" /\ waitOn = None
    /\ mine = None /\ free = [h \in Hosts |-> {}] /\ sending = [h \in Hosts |-> {}]

-----------------------------------------------------------------------------
(* The first thread.                                                       *)

\* Call_SessionBegin: only a session that is set makes it return at once.  If
\* the service or the session fails the new host is closed, and the globals stay.
SessionBegin(h) ==
    /\ mainPc = "idle" /\ gSession = None /\ up[h] = "none"
    /\ gHost' = h /\ gService' = h
    /\ lost' = IF gHost # None /\ up[gHost] # "done" THEN lost \cup {gHost} ELSE lost
    /\ \/ gSession' = h /\ up' = [up EXCEPT ![h] = "up"] /\ open' = open \cup {h}
       \/ up' = [up EXCEPT ![h] = "closing"] /\ UNCHANGED <<gSession, open>>
    /\ UNCHANGED <<mainPc, threads>>

\* Call_SessionEnd: libSession.Close
SessionEnd ==
    /\ mainPc = "idle" /\ gSession # None
    /\ open' = open \ {gSession} /\ gSession' = None
    /\ UNCHANGED <<gHost, gService, up, lost, mainPc, threads>>

\* Call_Shutdown: it closes the host and waits until that is done.  The
\* mutants forget to close it, and to wait.
MutantStopped(h) == up
Stopped(h) == [up EXCEPT ![h] = IF @ = "up" THEN "closing" ELSE @]

MutantShutdown ==
    /\ mainPc = "idle" /\ gService # None
    /\ gService' = None /\ gSession' = None
    /\ up' = Stopped(gHost)
    /\ UNCHANGED <<gHost, open, lost, mainPc, threads>>
Shutdown ==
    /\ mainPc = "idle" /\ gService # None
    /\ gService' = None /\ gSession' = None /\ mainPc' = "waiting"
    /\ up' = Stopped(gHost)
    /\ UNCHANGED <<gHost, open, lost, threads>>

ShutdownReturns ==
    /\ mainPc = "waiting" /\ up[gHost] = "done" /\ mainPc' = "idle"
    /\ UNCHANGED <<globals, up, open, lost, threads>>

\* The host closes, and its session's writer closes the transport.
TransportCloses(h) ==
    /\ up[h] = "closing" /\ open' = open \ {h}
    /\ h \in open
    /\ UNCHANGED <<globals, up, lost, mainPc, threads>>

HostDone(h) ==
    /\ up[h] = "closing" /\ h \notin open /\ up' = [up EXCEPT ![h] = "done"]
    /\ UNCHANGED <<globals, open, lost, mainPc, threads>>

-----------------------------------------------------------------------------
(* Messages to the host: Call_PushMsg and EnqueueIncoming.                 *)

mainVars == <<globals, up, open, lost, mainPc>>

Push ==
    /\ pushPc = None /\ gSession # None /\ pushPc' = gSession
    /\ UNCHANGED <<mainVars, waitPc, waitOn, mine, free, sending>>

PushReturns ==
    /\ pushPc # None /\ pushPc' = None
    /\ UNCHANGED <<mainVars, waitPc, waitOn, mine, free, sending>>

\* RecvTx has taken the message, or the session closes.
PushTaken == pushPc \in open /\ PushReturns
PushClosed == pushPc \notin open /\ PushReturns

-----------------------------------------------------------------------------
(* Messages to the client: Call_WaitOnMsg, DequeueOutgoing, SendTx.        *)

Fresh == {b \in Bufs : b # mine /\ \A h \in Hosts : b \notin free[h] \cup sending[h]}

\* Call_Realloc: the buffer is long enough, or freed, or a new one.
Realloc ==
    /\ waitPc = "idle" /\ gSession # None
    /\ mine' \in Fresh \cup {None}
    /\ UNCHANGED <<mainVars, pushPc, waitPc, waitOn, free, sending>>

WaitOnMsg ==
    /\ waitPc = "idle" /\ gSession # None
    /\ waitPc' = "retain" /\ waitOn' = gSession
    /\ UNCHANGED <<mainVars, pushPc, mine, free, sending>>

\* The buffer is retained in the pool, or freed if that is full.  The mutant
\* has a pool that is never full.
MutantIsFull(h) == FALSE
IsFull(h) == free[h] # {}

Retain ==
    /\ waitPc = "retain" /\ waitPc' = "wait"
    /\ \/ ~IsFull(waitOn) /\ free' = [free EXCEPT ![waitOn] = @ \cup {mine}] /\ UNCHANGED mine
       \/ IsFull(waitOn) /\ mine' = None /\ UNCHANGED free
    /\ UNCHANGED <<mainVars, pushPc, waitOn, sending>>

Deliver ==
    /\ waitPc = "wait" /\ waitPc' = "idle" /\ waitOn' = None
    /\ mine' \in sending[waitOn]
    /\ sending' = [sending EXCEPT ![waitOn] = {}]
    /\ UNCHANGED <<mainVars, pushPc, free>>

\* The session closes: the buffer is both the caller's and in the pool.  The
\* mutant waits for a message only.
MutantWaitClosed == FALSE /\ UNCHANGED libVars
WaitClosed ==
    /\ waitPc = "wait" /\ waitOn \notin open
    /\ waitPc' = "idle" /\ waitOn' = None
    /\ UNCHANGED <<mainVars, pushPc, mine, free, sending>>

\* SendTx takes the pooled buffer if there is one; MarshalToBuffer replaces it
\* if it is too small.  The mutant leaves it in the pool.
MutantPool(h) == free
Pool(h) == [free EXCEPT ![h] = {}]

SendTx(h) ==
    /\ up[h] \in {"up", "closing"} /\ sending[h] = {}
    /\ \E b \in (free[h] \ {None}) \cup Fresh : sending' = [sending EXCEPT ![h] = {b}]
    /\ free' = Pool(h)
    /\ UNCHANGED <<mainVars, pushPc, waitPc, waitOn, mine>>

SendClosed(h) ==
    /\ sending[h] # {} /\ h \notin open /\ sending' = [sending EXCEPT ![h] = {}]
    /\ UNCHANGED <<mainVars, pushPc, waitPc, waitOn, mine, free>>

-----------------------------------------------------------------------------
LibNext ==
    \/ \E h \in Hosts : \/ SessionBegin(h) \/ TransportCloses(h) \/ HostDone(h)
                        \/ SendTx(h) \/ SendClosed(h)
    \/ SessionEnd \/ Shutdown \/ ShutdownReturns
    \/ Push \/ PushTaken \/ PushClosed
    \/ Realloc \/ WaitOnMsg \/ Retain \/ Deliver \/ WaitClosed

LibSafety == LibInit /\ [][LibNext]_libVars

\* Threads that can return do, and a host that closes gets there.
LibFairness ==
    /\ WF_libVars(\E h \in Hosts : TransportCloses(h) \/ HostDone(h))
    /\ WF_libVars(ShutdownReturns) /\ WF_libVars(PushClosed)
    /\ WF_libVars(Retain \/ WaitClosed)

LibSpec == LibSafety /\ LibFairness

-----------------------------------------------------------------------------
Slots == {{}} \cup {{b} : b \in Bufs \cup {None}}

\* Each variable has its type: a pool and a transfer hold one buffer at most.
LibTypeOK ==
    /\ {gHost, gService, gSession, pushPc, waitOn} \subseteq Hosts \cup {None}
    /\ up \in [Hosts -> {"none", "up", "closing", "done"}]
    /\ open \subseteq Hosts /\ lost \subseteq Hosts
    /\ mainPc \in {"idle", "waiting"} /\ waitPc \in {"idle", "retain", "wait"}
    /\ mine \in Bufs \cup {None}
    /\ free \in [Hosts -> Slots] /\ sending \in [Hosts -> Slots]

\* While a session is open, the buffer its client works with is neither in the
\* pool nor being filled by the host, and no buffer is both.
OneOwner ==
    \A h \in open :
        /\ waitPc = "idle" /\ mine # None => mine \notin free[h] \cup sending[h]
        /\ free[h] \cap sending[h] = {}

\* A thread of the client does not stay in a session that has closed.
CallsReturn ==
    /\ (pushPc # None /\ pushPc \notin open) ~> pushPc = None
    /\ (waitPc # "idle" /\ waitOn \notin open) ~> waitPc = "idle"

\* When Call_Shutdown has returned every host is done, but for those that
\* another SessionBegin has replaced, after SessionEnd or a failure.
ShutdownLeavesNone ==
    mainPc = "idle" /\ gService = None => \A h \in Hosts : up[h] \in {"none", "done"} \/ h \in lost

ShutdownEnds == mainPc = "waiting" ~> mainPc = "idle"

\* A buffer is with the client or the host but never with both, and a shutdown
\* that has returned leaves no host behind that was still known.
BuffersAndHosts == LibTypeOK /\ OneOwner /\ ShutdownLeavesNone

\* No thread of the client stays in a call: PushMsg and WaitOnMsg return once
\* their session has closed, Shutdown once the host is done.
CallsComplete == CallsReturn /\ ShutdownEnds
=============================================================================

----------------------------- MODULE HostLogin -----------------------------
(***************************************************************************)
(* The login of a session: handleLogin of src/amp/host/host.go, with the   *)
(* reader and the writer of StartNewSession and the context of the space   *)
(* app that it starts.  After it the session's inbox is HostSession's.     *)
(* The client may send anything at any time, and may stop reading.         *)
(***************************************************************************)
EXTENDS Naturals, Sequences

CONSTANTS
    LoginOutCap,  \* capacity of session.txOut (4)
    MaxSent       \* bound: messages of the client

ASSUME LoginAssumption == LoginOutCap \in Nat /\ MaxSent \in Nat

\* "login" names a user, "nobody" does not.
Messages == {"login", "nobody", "response", "request"}

VARIABLES
    sent,         \* what the client has sent (history)
    reader,       \* the reader task: the message it has, "none", or "left"
    loginPc,      \* the session task
    answered,     \* messages that it has taken
    loginOut,     \* txOut
    writer,       \* the writer task: sending or not, or "left"
    timer,        \* the login's timer: running, fired, or its tick taken
    sessCtx,      \* the session's context
    spaceCtx,     \* the context of the space app
    viaOpen       \* the transport

loginVars == <<sent, reader, loginPc, answered, loginOut, writer, timer, sessCtx, spaceCtx, viaOpen>>

LoginInit ==
    /\ sent = <<>> /\ reader = "none" /\ loginPc = "new" /\ answered = <<>>
    /\ loginOut = <<>> /\ writer = "free" /\ timer = "running"
    /\ sessCtx = "open" /\ spaceCtx = "none" /\ viaOpen = TRUE

Waits == {"login", "response"}
CloseSess == sessCtx' = IF sessCtx = "open" THEN "closing" ELSE sessCtx

-----------------------------------------------------------------------------
(* StartNewSession: the session's task and timer, the reader and the writer. *)

Begun == loginPc # "new"

StartNewSession ==
    /\ ~Begun /\ loginPc' = "login"
    /\ UNCHANGED <<sent, reader, answered, loginOut, writer, timer, sessCtx, spaceCtx, viaOpen>>

RecvTx(m) ==
    /\ Begun /\ reader = "none" /\ viaOpen /\ Len(sent) < MaxSent
    /\ reader' = m /\ sent' = Append(sent, m)
    /\ UNCHANGED <<loginPc, answered, loginOut, writer, timer, sessCtx, spaceCtx, viaOpen>>

\* The transport fails or has been closed.
RecvFails ==
    /\ Begun /\ reader = "none" /\ reader' = "left" /\ CloseSess
    /\ UNCHANGED <<sent, loginPc, answered, loginOut, writer, timer, spaceCtx, viaOpen>>

\* The session is done before it has taken the message.  The mutant stays.
MutantReaderLeaves == FALSE
ReaderLeaves == reader \in Messages /\ sessCtx = "done"

ReaderDone ==
    /\ ReaderLeaves /\ reader' = "left"
    /\ UNCHANGED <<sent, loginPc, answered, loginOut, writer, timer, sessCtx, spaceCtx, viaOpen>>

WriterTakes ==
    /\ writer = "free" /\ loginOut # <<>>
    /\ writer' = "sending" /\ loginOut' = Tail(loginOut)
    /\ UNCHANGED <<sent, reader, loginPc, answered, timer, sessCtx, spaceCtx, viaOpen>>

\* The client takes it, or the sending fails.
WriterSends ==
    /\ writer = "sending" /\ writer' = "free"
    /\ UNCHANGED <<sent, reader, loginPc, answered, loginOut, timer, sessCtx, spaceCtx, viaOpen>>

WriterDone ==
    /\ writer = "free" /\ sessCtx = "done" /\ writer' = "left" /\ viaOpen' = FALSE
    /\ UNCHANGED <<sent, reader, loginPc, answered, loginOut, timer, sessCtx, spaceCtx>>

-----------------------------------------------------------------------------
(* handleLogin.                                                            *)

\* Does tx.Load read m as what is expected, and is that enough?  (Any
\* LoginResponse will do.)  The mutant takes whatever comes.
MutantLoads(m) == m # "nobody"
Loads(m) == m = loginPc

\* nextTxValue takes a message ...
NextTx ==
    /\ loginPc \in Waits /\ reader \in Messages
    /\ reader' = "none" /\ answered' = Append(answered, reader)
    /\ loginPc' = IF ~Loads(reader) THEN "failed"
                  ELSE IF loginPc = "login" THEN "space" ELSE "checkpoint"
    /\ UNCHANGED <<sent, loginOut, writer, timer, sessCtx, spaceCtx, viaOpen>>

\* ... or the timer's only tick, or the closing.  The mutant has no timer.
MutantTicks == FALSE
Ticks == timer = "fired"

NextTxFails ==
    /\ loginPc \in Waits /\ loginPc' = "failed"
    /\ \/ Ticks /\ timer' = "taken"
       \/ sessCtx # "open" /\ UNCHANGED timer
    /\ UNCHANGED <<sent, reader, answered, loginOut, writer, sessCtx, spaceCtx, viaOpen>>

Fire ==
    /\ Begun /\ timer = "running" /\ timer' = "fired"
    /\ UNCHANGED <<sent, reader, loginPc, answered, loginOut, writer, sessCtx, spaceCtx, viaOpen>>

\* appContextForAppID: it fails below a session that closes, or for the app's own reasons.
StartSpace ==
    /\ loginPc = "space"
    /\ \/ sessCtx = "open" /\ spaceCtx' = "open" /\ loginPc' = "challenge"
       \/ loginPc' = "failed" /\ UNCHANGED spaceCtx
    /\ UNCHANGED <<sent, reader, answered, loginOut, writer, timer, sessCtx, viaOpen>>

\* LoginChallenge and LoginCheckpoint go to txOut, or the session closes.
Room == Len(loginOut) < LoginOutCap

SendMeta ==
    /\ loginPc \in {"challenge", "checkpoint"}
    /\ \/ /\ Room /\ loginOut' = Append(loginOut, loginPc)
          /\ loginPc' = IF loginPc = "challenge" THEN "response" ELSE "inbox"
       \/ sessCtx # "open" /\ loginPc' = "failed" /\ UNCHANGED loginOut
    /\ UNCHANGED <<sent, reader, answered, writer, timer, sessCtx, spaceCtx, viaOpen>>

\* A login that fails closes the session's context.
LoginFails ==
    /\ loginPc = "failed" /\ loginPc' = "left" /\ CloseSess
    /\ UNCHANGED <<sent, reader, answered, loginOut, writer, timer, spaceCtx, viaOpen>>

\* consumeInbox.
ConsumeInbox ==
    /\ loginPc = "inbox"
    /\ \/ reader \in Messages /\ reader' = "none" /\ answered' = Append(answered, reader)
          /\ UNCHANGED loginPc
       \/ sessCtx # "open" /\ loginPc' = "left" /\ UNCHANGED <<reader, answered>>
    /\ UNCHANGED <<sent, loginOut, writer, timer, sessCtx, spaceCtx, viaOpen>>

-----------------------------------------------------------------------------
(* The contexts.                                                           *)

HostCloses ==
    /\ Begun /\ sessCtx = "open" /\ CloseSess
    /\ UNCHANGED <<sent, reader, loginPc, answered, loginOut, writer, timer, spaceCtx, viaOpen>>

SpaceCloses ==
    /\ sessCtx = "closing" /\ spaceCtx = "open" /\ spaceCtx' = "closed"
    /\ UNCHANGED <<sent, reader, loginPc, answered, loginOut, writer, timer, sessCtx, viaOpen>>

\* The session is done when its task has left and nothing below it is open.
\* The mutant looks at its task only.
MutantBelow == TRUE
Below == spaceCtx # "open"

SessDone ==
    /\ sessCtx = "closing" /\ loginPc = "left" /\ Below /\ sessCtx' = "done"
    /\ UNCHANGED <<sent, reader, loginPc, answered, loginOut, writer, timer, spaceCtx, viaOpen>>

-----------------------------------------------------------------------------
HandleLogin == NextTx \/ NextTxFails \/ StartSpace \/ SendMeta \/ LoginFails
LoginTask == HandleLogin \/ ConsumeInbox
Contexts == SpaceCloses \/ SessDone

LoginNext ==
    \/ StartNewSession \/ \E m \in Messages : RecvTx(m)
    \/ RecvFails \/ ReaderDone \/ WriterTakes \/ WriterSends \/ WriterDone
    \/ Fire \/ LoginTask \/ HostCloses \/ Contexts

LoginSafety == LoginInit /\ [][LoginNext]_loginVars

\* The client need send nothing; what it is sent it takes, or the sending fails.
LoginFairness ==
    /\ WF_loginVars(LoginTask) /\ WF_loginVars(Contexts) /\ WF_loginVars(Fire)
    /\ WF_loginVars(WriterTakes \/ WriterSends) /\ WF_loginVars(WriterDone)
    /\ WF_loginVars(ReaderDone) /\ WF_loginVars(~viaOpen /\ RecvFails)

LoginSpec == LoginSafety /\ LoginFairness

-----------------------------------------------------------------------------
LoginTypeOK ==
    /\ sent \in Seq(Messages) /\ Len(sent) <= MaxSent
    /\ reader \in Messages \cup {"none", "left"}
    /\ loginPc \in Waits \cup {"new", "space", "challenge", "checkpoint", "failed", "inbox", "left"}
    /\ loginOut \in Seq({"challenge", "checkpoint"}) /\ Len(loginOut) <= LoginOutCap
    /\ writer \in {"free", "sending", "left"} /\ timer \in {"running", "fired", "taken"}
    /\ sessCtx \in {"open", "closing", "done"} /\ spaceCtx \in {"none", "open", "closed"}
    /\ viaOpen \in BOOLEAN

\* Requests are served only behind a Login that names a user and a
\* LoginResponse, and none of the client's messages is skipped or reordered.
ServedBehindLogin ==
    /\ SubSeq(sent, 1, Len(answered)) = answered
    /\ loginPc = "inbox" => Len(answered) >= 2 /\ answered[1] = "login" /\ answered[2] = "response"

\* When the transport has been closed nothing of the session runs: a space app
\* that a failed login had started has closed.
NothingBehind == ~viaOpen => spaceCtx # "open" /\ loginPc = "left"

\* A login succeeds or the transport is closed, whatever the client does.
LoginEnds == Begun ~> (loginPc = "inbox" \/ ~viaOpen)

\* The reader leaves in the end, even if it has a message nobody takes.
ReaderEnds == ~viaOpen ~> reader = "left"

\* No client is served but behind a complete login, and a login that fails, or a
\* client that leaves, leaves neither a task nor a space app behind.
LoginGuards == LoginTypeOK /\ ServedBehindLogin /\ NothingBehind

\* A login ends whatever the client sends or leaves out, and so does the reader.
LoginCompletes == LoginEnds /\ ReaderEnds
=============================================================================

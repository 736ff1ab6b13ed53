--------------------------- MODULE SpotifySession ---------------------------
(***************************************************************************)
(* How the spotify app comes by its session (app.spotify.go and            *)
(* oauth/oauth.go in src/amp/apps/amp.app.av/spotify).  The app's loop     *)
(* serves one request at a time; a request is ready once the session is,   *)
(* and the request for /auth, which the client sends after its user has    *)
(* signed in, brings the token.  OnClosing runs beside the loop.           *)
(*                                                                         *)
(* The library calls MakeReady from PinAndServe, before the pin starts.    *)
(* The token is kept with GetAppAttr and PutAppAttr, which may store        *)
(* nothing, or never return (AppAttr); the calls to the provider answer or *)
(* fail.                                                                   *)
(***************************************************************************)
EXTENDS Naturals

CONSTANTS
    SpotReqs,
    NoSpotReq

ASSUME SpotAssumption == NoSpotReq \notin SpotReqs

VARIABLES
    path,         \* what each request is for: "browse" or "auth"
    spotReq,      \* where it is
    spotApp,      \* the app's context
    spotLoop,     \* what the loop does, and for which request
    token,        \* auth.token is set
    storedToken,  \* the token is in the user's space
    client,       \* app.client is set
    respot,       \* app.respot: none, started or logged in
    ready,        \* sessReady is closed
    ending,       \* endSession: steps that it has to do
    failedLogin,  \* a login has failed (history)
    lateStart          \* a session was started after the app began to close (history)

spotVars == <<path, spotReq, spotApp, spotLoop, token, storedToken, client, respot,
              ready, ending, failedLogin, lateStart>>
tokens == <<token, storedToken>>
session == <<client, respot, ready>>
history == <<failedLogin, lateStart>>

Resting == [pc |-> "idle", req |-> NoSpotReq]

SpotInit ==
    /\ path \in [SpotReqs -> {"browse", "auth"}]
    /\ spotReq = [r \in SpotReqs |-> "new"]
    /\ spotApp = "open" /\ spotLoop = Resting
    /\ token = FALSE /\ storedToken \in BOOLEAN
    /\ client = FALSE /\ respot = "none" /\ ready = FALSE
    /\ ending = 0 /\ failedLogin = FALSE /\ lateStart = FALSE

At(r, pc) == spotLoop = [pc |-> pc, req |-> r]
Go(pc) == spotLoop' = [spotLoop EXCEPT !.pc = pc] /\ UNCHANGED spotReq

\* MakeReady returns: the request is served, or completes with an error.
Finish(r, outcome) == spotReq' = [spotReq EXCEPT ![r] = outcome] /\ spotLoop' = Resting

-----------------------------------------------------------------------------
(* Requests: the inbox has room for one.                                   *)

SendReq(r) ==
    /\ spotReq[r] = "new" /\ spotApp = "open"
    /\ \A q \in SpotReqs : spotReq[q] # "queued"
    /\ spotReq' = [spotReq EXCEPT ![r] = "queued"]
    /\ UNCHANGED <<path, spotApp, spotLoop, tokens, session, ending, history>>

\* MakeReady, and the first look of waitForSession at the signal.
MakeReady(r) ==
    /\ spotLoop = Resting /\ spotReq[r] = "queued"
    /\ spotReq' = [spotReq EXCEPT ![r] = IF path[r] = "browse" /\ ready THEN "served" ELSE "serving"]
    /\ spotLoop' = IF path[r] = "browse" /\ ready THEN Resting
                   ELSE [pc |-> IF path[r] = "auth" THEN "exchange" ELSE "connect", req |-> r]
    /\ UNCHANGED <<path, spotApp, tokens, session, ending, history>>

\* PutAppAttr returns, whether the token is stored or not.
PutToken == storedToken' \in {storedToken, TRUE}

\* handleAuthURL and OnTokenUpdated: a token that could not be stored is kept,
\* but the request fails.
Exchange(r) ==
    /\ At(r, "exchange")
    /\ \/ token' = TRUE /\ PutToken /\ (Go("connect") \/ Finish(r, "failed"))
       \/ token' = TRUE /\ UNCHANGED storedToken /\ Go("forgotten")
       \/ Finish(r, "failed") /\ UNCHANGED tokens
    /\ UNCHANGED <<path, spotApp, session, ending, history>>

-----------------------------------------------------------------------------
(* tryConnect.  (Nobody else holds sessMu, and resetSignal does nothing to a *)
(* channel that is there.)                                                  *)

\* AwaitingAuth: a token that is there or stored will do; otherwise the client
\* is asked to sign in.
AwaitingAuth(r) ==
    /\ At(r, "connect")
    /\ \/ (token \/ storedToken) /\ token' = TRUE /\ client' = TRUE /\ Go("user")
       \/ ~token /\ Go("ask") /\ UNCHANGED <<token, client>>
       \/ ~token /\ Go("forgotten") /\ UNCHANGED <<token, client>>
    /\ UNCHANGED <<path, spotApp, storedToken, respot, ready, ending, history>>

\* The client has been told to sign in, and tryConnect returns without an error;
\* the session's output may be full.
ClientAsked(r) ==
    /\ At(r, "ask") /\ Go("wait")
    /\ UNCHANGED <<path, spotApp, tokens, session, ending, history>>

\* CurrentUser: a token that is renewed for it is stored.  The client may have
\* been taken away by endSession.
CurrentUser(r) ==
    /\ At(r, "user")
    /\ \/ client /\ PutToken /\ Go("respot") /\ UNCHANGED client
       \/ client /\ PutToken /\ client' = FALSE /\ Finish(r, "failed")
       \/ client /\ Go("forgotten") /\ UNCHANGED <<storedToken, client>>
       \/ ~client /\ Go("panicked") /\ UNCHANGED <<storedToken, client>>
    /\ UNCHANGED <<path, spotApp, token, respot, ready, ending, history>>

\* A session is started if there is none, logged in or not.  The mutant does not
\* log in.
MutantAfterStart == "signal"
AfterStart == "login"

StartRespot(r) ==
    /\ At(r, "respot")
    /\ \/ respot = "none" /\ respot' = "started" /\ Go(AfterStart) /\ lateStart' = (spotApp # "open")
       \/ respot = "none" /\ Finish(r, "failed") /\ UNCHANGED <<respot, lateStart>>
       \/ respot # "none" /\ Go("signal") /\ UNCHANGED <<respot, lateStart>>
    /\ UNCHANGED <<path, spotApp, tokens, client, ready, ending, failedLogin>>

\* Login: if it fails the session stays where it is.
Login(r) ==
    /\ At(r, "login")
    /\ \/ respot # "none" /\ respot' = "loggedIn" /\ Go("signal") /\ UNCHANGED failedLogin
       \/ respot # "none" /\ Finish(r, "failed") /\ failedLogin' = TRUE /\ UNCHANGED respot
       \/ respot = "none" /\ Go("panicked") /\ UNCHANGED <<respot, failedLogin>>
    /\ UNCHANGED <<path, spotApp, tokens, client, ready, ending, lateStart>>

\* The signal, and the end of MakeReady.
Signal(r) ==
    /\ At(r, "signal") /\ ready' = TRUE /\ Finish(r, "served")
    /\ UNCHANGED <<path, spotApp, tokens, client, respot, ending, history>>

\* waitForSession: only the loop itself could make it ready.  The mutant does not
\* look at the app's closing.
MutantGivesUpWaiting == FALSE
GivesUpWaiting == spotApp # "open"

WaitForSession(r) ==
    /\ At(r, "wait")
    /\ \/ ready /\ Finish(r, "served")
       \/ GivesUpWaiting /\ Finish(r, "failed")
    /\ UNCHANGED <<path, spotApp, tokens, session, ending, history>>

-----------------------------------------------------------------------------
(* Closing.                                                                *)

CloseSpotApp ==
    /\ spotApp = "open" /\ spotApp' = "closing" /\ ending' = 2
    /\ UNCHANGED <<path, spotReq, spotLoop, tokens, session, history>>

\* endSession takes no lock.  The mutant leaves the session open.
MutantRespotClosed == respot
RespotClosed == "none"

EndSession ==
    /\ ending > 0 /\ ending' = ending - 1
    /\ IF ending = 2 THEN client' = FALSE /\ UNCHANGED respot
       ELSE respot' = RespotClosed /\ UNCHANGED client
    /\ UNCHANGED <<path, spotReq, spotApp, spotLoop, tokens, ready, history>>

SpotLoopLeaves ==
    /\ spotLoop = Resting /\ spotApp = "closing" /\ Go("left")
    /\ UNCHANGED <<path, spotApp, tokens, session, ending, history>>

SpotAppClosed ==
    /\ spotApp = "closing" /\ spotLoop.pc = "left" /\ ending = 0 /\ spotApp' = "closed"
    /\ UNCHANGED <<path, spotReq, spotLoop, tokens, session, ending, history>>

-----------------------------------------------------------------------------
TryConnect(r) == AwaitingAuth(r) \/ CurrentUser(r) \/ StartRespot(r) \/ Login(r) \/ Signal(r)
SpotLoop == SpotLoopLeaves \/ \E r \in SpotReqs :
                MakeReady(r) \/ Exchange(r) \/ TryConnect(r) \/ WaitForSession(r)

SpotNext ==
    \/ SpotLoop \/ CloseSpotApp \/ EndSession \/ SpotAppClosed
    \/ \E r \in SpotReqs : SendReq(r) \/ ClientAsked(r)

SpotSafety == SpotInit /\ [][SpotNext]_spotVars

\* The loop and OnClosing run, and the provider's answers come or fail; but a
\* client need not read that it is asked, nor does a call that AppAttr has
\* forgotten return.
SpotFairness == WF_spotVars(SpotLoop) /\ WF_spotVars(EndSession) /\ WF_spotVars(SpotAppClosed)

SpotSpec == SpotSafety /\ SpotFairness

-----------------------------------------------------------------------------
SpotTypeOK ==
    /\ path \in [SpotReqs -> {"browse", "auth"}]
    /\ spotReq \in [SpotReqs -> {"new", "queued", "serving", "served", "failed"}]
    /\ spotApp \in {"open", "closing", "closed"}
    /\ spotLoop \in [pc : {"idle", "exchange", "connect", "user", "respot", "login", "signal",
                           "ask", "wait", "forgotten", "panicked", "left"},
                    req : SpotReqs \cup {NoSpotReq}]
    /\ {token, storedToken, client, ready, failedLogin, lateStart} \subseteq BOOLEAN
    /\ respot \in {"none", "started", "loggedIn"} /\ ending \in 0 .. 2
    /\ \A r \in SpotReqs : spotReq[r] = "serving" <=> spotLoop.req = r

\* While the app is open and no login has failed before, requests are served
\* with a session that is logged in.  (After a failed login the next request
\* finds app.respot set and signals a session that is not.)
ReadyIsLoggedIn == spotApp = "open" /\ ready /\ ~failedLogin => respot = "loggedIn"

\* An app that has closed leaves no session behind, but one that was started
\* while it closed (endSession takes no lock).
NoSessionBehind == spotApp = "closed" => respot = "none" \/ lateStart

\* A request in the inbox is taken, unless the app closes, its loop asks for a
\* session or waits for one, which is when the request for /auth should be taken,
\* or the loop is in a GetAppAttr or PutAppAttr that never returns.
RequestTaken ==
    \A r \in SpotReqs :
        spotReq[r] = "queued" ~>
            \/ spotReq[r] # "queued" \/ spotApp # "open"
            \/ spotLoop.pc \in {"ask", "wait"} /\ ~ready
            \/ spotLoop.pc = "forgotten"

\* A request that waits for a session ends with the app.
WaitEnds == (spotLoop.pc = "wait" /\ spotApp # "open") ~> spotLoop.pc # "wait"

\* A request is only let through on a session that is logged in, and none is left
\* behind by the closing of the app, with the exceptions that the parts name.
SessionsAreReal == SpotTypeOK /\ ReadyIsLoggedIn /\ NoSessionBehind

\* Whatever becomes of a login, a request is taken, and one that waits for a
\* session ends with the app; only a loop that waits, or is forgotten, keeps
\* others waiting.
SpotCompletes == RequestTaken /\ WaitEnds
=============================================================================

---------------------------- MODULE RequestLife ----------------------------
(***************************************************************************)
(* What a session of the host promises of its requests, whoever closes     *)
(* them and in whatever order: a request is opened once, closed once and   *)
(* cancelled once, in that order; its pin is launched at most once and     *)
(* ends; and a session is over only when every request it ever opened has  *)
(* been cancelled and every pin it launched has ended, after which nothing *)
(* happens to any request.  HostSession implements this specification.     *)
(***************************************************************************)
CONSTANT Ops     \* the requests

VARIABLES
    phase,       \* how far each request has come
    pin,         \* its pin
    over         \* the session is over

lifeVars == <<phase, pin, over>>

Init ==
    /\ phase = [o \in Ops |-> "none"]
    /\ pin = [o \in Ops |-> "none"]
    /\ over = FALSE

Advance(o, from, to) ==
    /\ ~over
    /\ phase[o] = from
    /\ phase' = [phase EXCEPT ![o] = to]
    /\ UNCHANGED <<pin, over>>

Open(o) == Advance(o, "none", "open")
Close(o) == Advance(o, "open", "closed")
Cancel(o) == Advance(o, "closed", "cancelled")

\* An app launches the pin of a request that was opened; it may have been
\* closed in the meantime.
Launch(o) ==
    /\ ~over
    /\ phase[o] # "none" /\ pin[o] = "none"
    /\ pin' = [pin EXCEPT ![o] = "running"]
    /\ UNCHANGED <<phase, over>>

End(o) ==
    /\ ~over
    /\ pin[o] = "running"
    /\ pin' = [pin EXCEPT ![o] = "ended"]
    /\ UNCHANGED <<phase, over>>

Finish ==
    /\ ~over
    /\ \A o \in Ops : phase[o] \in {"none", "cancelled"} /\ pin[o] # "running"
    /\ over' = TRUE
    /\ UNCHANGED <<phase, pin>>

Next ==
    \/ \E o \in Ops : Open(o) \/ Close(o) \/ Cancel(o) \/ Launch(o) \/ End(o)
    \/ Finish

Spec == Init /\ [][Next]_lifeVars
=============================================================================

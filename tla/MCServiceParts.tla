--------------------------- MODULE MCServiceParts ---------------------------
(***************************************************************************)
(* The TCP service, the pins of a cell and the messages, checked in one    *)
(* run: they share no state, and a behaviour is one of a part with the     *)
(* others at rest in an initial state, where nothing is enabled that their *)
(* fairness is about.  Of the pins two commit, one of which then maintains *)
(* sync itself, a third maintains sync only; changes holds one             *)
(* transaction, so that a pin that lags behind fills it.                   *)
(***************************************************************************)
EXTENDS SpaceCell, TcpService, MCMessageTransfer

VARIABLE part        \* the part that runs

\* The messages at rest have one initial state.
AtRest == type = "KeyRef" /\ written = Zero(type) /\ other = written

PartInit ==
    /\ part \in {"cell", "service", "messages"}
    /\ CellInit /\ ServiceInit /\ Init
    /\ part = "messages" \/ AtRest

CellPart == part = "cell" /\ CellNext /\ UNCHANGED <<serviceVars, vars>>
ServicePart == part = "service" /\ ServiceNext /\ UNCHANGED <<cellVars, vars>>
MessagePart == part = "messages" /\ Next /\ UNCHANGED <<cellVars, serviceVars>>

PartNext == UNCHANGED part /\ (CellPart \/ ServicePart \/ MessagePart)

PartSpec ==
    /\ PartInit /\ [][PartNext]_<<part, cellVars, serviceVars, vars>>
    /\ CellFairness /\ ServiceFairness
=============================================================================

----------------------------- MODULE MCHostParts -----------------------------
(***************************************************************************)
(* The parts of the host that do not act on each other's state, checked in *)
(* one run: a behaviour is one of a part, with the others at rest in an    *)
(* initial state.  No action that a part's fairness is about is enabled in *)
(* an initial state of that part, so that a part at rest is fair.          *)
(***************************************************************************)
EXTENDS AssetServing, SpaceMount, LibHost, AppAttr, SpotifySession, HostLogin,
        ShoutcastStream, ArcGate

VARIABLE part        \* the part that runs

\* A part at rest has one initial state.
Rest(p, resting) == part = p \/ resting

PartsInit ==
    /\ part \in {"assets", "mount", "lib", "attr", "spotify", "login", "stream",
                "gate"}
    /\ AssetInit /\ Rest("assets", pubCell = CHOOSE f \in [Pubs -> Cells] : TRUE)
    /\ MountInit /\ LibInit /\ LoginInit
    /\ AttrInit /\ Rest("attr", kind = [c \in AttrCalls |-> "get"])
    /\ SpotInit /\ Rest("spotify", ~storedToken /\ path = [r \in SpotReqs |-> "auth"])
    /\ StreamInit /\ Rest("stream", blocks = [k \in 1 .. NBlocks |-> Empty])
    /\ GateInit /\ Rest("gate", \A d \in Docs : \A size \in DocSizes : disk[d].size <= size)

Assets == part = "assets" /\ AssetNext
          /\ UNCHANGED <<mountVars, libVars, attrVars, spotVars, loginVars, streamVars, gateVars>>
Mount == part = "mount" /\ MountNext
         /\ UNCHANGED <<assetVars, libVars, attrVars, spotVars, loginVars, streamVars, gateVars>>
Lib == part = "lib" /\ LibNext
       /\ UNCHANGED <<assetVars, mountVars, attrVars, spotVars, loginVars, streamVars, gateVars>>
Attr == part = "attr" /\ AttrNext
        /\ UNCHANGED <<assetVars, mountVars, libVars, spotVars, loginVars, streamVars, gateVars>>
Spotify == part = "spotify" /\ SpotNext
           /\ UNCHANGED <<assetVars, mountVars, libVars, attrVars, loginVars, streamVars, gateVars>>
Logins == part = "login" /\ LoginNext
          /\ UNCHANGED <<assetVars, mountVars, libVars, attrVars, spotVars, streamVars, gateVars>>
Streams == part = "stream" /\ StreamNext
           /\ UNCHANGED <<assetVars, mountVars, libVars, attrVars, spotVars, loginVars, gateVars>>
Gate == part = "gate" /\ GateNext
        /\ UNCHANGED <<assetVars, mountVars, libVars, attrVars, spotVars, loginVars, streamVars>>

PartsNext == UNCHANGED part /\
    (Assets \/ Mount \/ Lib \/ Attr \/ Spotify \/ Logins \/ Streams \/ Gate)

partsVars == <<part, assetVars, mountVars, libVars, attrVars, spotVars, loginVars,
               streamVars, gateVars>>

PartsSpec ==
    /\ PartsInit /\ [][PartsNext]_partsVars
    /\ AssetFairness /\ MountFairness /\ LibFairness /\ AttrFairness
    /\ SpotFairness /\ LoginFairness /\ GateFairness
=============================================================================

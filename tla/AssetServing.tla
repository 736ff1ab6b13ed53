---------------------------- MODULE AssetServing ----------------------------
(***************************************************************************)
(* The asset server (src/amp/assets/assetServer.go), the cells that        *)
(* publish assets on it (the tracks of the spotify app, the files of the   *)
(* file system app), and the http requests for them.  An app serves one    *)
(* pin at a time; http requests and the closing of an asset's context run  *)
(* beside it.                                                              *)
(* The task package is external: StartChild fails below a context that     *)
(* closes, a context that is idle long enough closes, a context is closed  *)
(* when its children are, and OnClosing runs once.                         *)
(***************************************************************************)
EXTENDS Naturals

CONSTANTS
    Tracks,       \* spotify trackCells
    Files,        \* filesys fsItems
    Pubs,         \* publications, in any order; bound of the calls of PublishAsset
    Gets,         \* http requests
    NoPub

ASSUME AssetAssumption == Tracks \cap Files = {} /\ NoPub \notin Pubs

Cells == Tracks \cup Files

VARIABLES
    serving,      \* srv.Context is open
    assets,       \* srv.assets, by publication
    pubCtx,       \* the context of each asset
    pubCell,      \* the cell that published it
    publisher,    \* PublishAsset in progress: where it is, and for which asset
    link,         \* trackCell.assetLink, fsItem.contentURL
    late,         \* OnClosing has run before the asset was inserted (history)
    get           \* http requests: where they are, and for which asset

assetVars == <<serving, assets, pubCtx, pubCell, publisher, link, late, get>>

AssetInit ==
    /\ serving = TRUE /\ assets = {} /\ late = {}
    /\ pubCtx = [p \in Pubs |-> "none"]
    /\ pubCell \in [Pubs -> Cells]
    /\ publisher = [pc |-> "idle", pub |-> NoPub]
    /\ link = [c \in Cells |-> NoPub]
    /\ get = [g \in Gets |-> [pc |-> "new", pub |-> NoPub]]

-----------------------------------------------------------------------------
(* PinInto of a cell, and PublishAsset.                                    *)

\* A file that has a link already is not published again; a track is.  The
\* asset's context starts as a child of the server's.  If it cannot, PinInto
\* returns the error and the link stays as it was.
MayStart == serving

PinCell(p) ==
    /\ publisher.pc = "idle" /\ pubCtx[p] = "none" /\ MayStart
    /\ pubCell[p] \in Files => link[pubCell[p]] = NoPub
    /\ pubCtx' = [pubCtx EXCEPT ![p] = "open"]
    /\ publisher' = [pc |-> "start", pub |-> p]
    /\ UNCHANGED <<serving, assets, pubCell, link, late, get>>

\* CloseWhenIdle
Arm ==
    /\ publisher.pc = "start" /\ publisher' = [publisher EXCEPT !.pc = "armed"]
    /\ UNCHANGED <<serving, assets, pubCtx, pubCell, link, late, get>>

Insert ==
    /\ publisher.pc = "armed" /\ publisher' = [publisher EXCEPT !.pc = "inserted"]
    /\ assets' = assets \cup {publisher.pub}
    /\ UNCHANGED <<serving, pubCtx, pubCell, link, late, get>>

\* PublishAsset has returned the URL.
SetLink ==
    /\ publisher.pc = "inserted" /\ publisher' = [pc |-> "idle", pub |-> NoPub]
    /\ link' = [link EXCEPT ![pubCell[publisher.pub]] = publisher.pub]
    /\ UNCHANGED <<serving, assets, pubCtx, pubCell, late, get>>

-----------------------------------------------------------------------------
(* The contexts.                                                           *)

\* Who reads the asset, below its context.  The mutant misses them.
MutantReaders(p) == {}
Readers(p) == {g \in Gets : get[g].pc = "serving" /\ get[g].pub = p}

\* The expiry of an asset that nobody reads.
Expire(p) ==
    /\ pubCtx[p] = "open" /\ Readers(p) = {}
    /\ publisher # [pc |-> "start", pub |-> p]
    /\ pubCtx' = [pubCtx EXCEPT ![p] = "closing"]
    /\ UNCHANGED <<serving, assets, pubCell, publisher, link, late, get>>

\* The host closes, and the server with it.
ServerCloses ==
    /\ serving /\ serving' = FALSE
    /\ UNCHANGED <<assets, pubCtx, pubCell, publisher, link, late, get>>

CloseWithServer(p) ==
    /\ ~serving /\ pubCtx[p] = "open"
    /\ pubCtx' = [pubCtx EXCEPT ![p] = "closing"]
    /\ UNCHANGED <<serving, assets, pubCell, publisher, link, late, get>>

\* OnClosing: the entry is deleted, whether or not it is there yet.  The mutant
\* leaves it.
MutantWithout(p) == assets
Without(p) == assets \ {p}

Delete(p) ==
    /\ pubCtx[p] = "closing" /\ pubCtx' = [pubCtx EXCEPT ![p] = "deleted"]
    /\ assets' = Without(p)
    /\ late' = IF publisher.pub = p THEN late \cup {p} ELSE late
    /\ UNCHANGED <<serving, pubCell, publisher, link, get>>

\* Then opts.OnExpired clears the link of the cell, whatever it is.  The mutant
\* has no OnExpired.
MutantOnExpired(c) == link
OnExpired(c) == [link EXCEPT ![c] = NoPub]

Notify(p) ==
    /\ pubCtx[p] = "deleted" /\ pubCtx' = [pubCtx EXCEPT ![p] = "notified"]
    /\ link' = OnExpired(pubCell[p])
    /\ UNCHANGED <<serving, assets, pubCell, publisher, late, get>>

Closed(p) ==
    /\ pubCtx[p] = "notified" /\ Readers(p) = {}
    /\ pubCtx' = [pubCtx EXCEPT ![p] = "closed"]
    /\ UNCHANGED <<serving, assets, pubCell, publisher, link, late, get>>

-----------------------------------------------------------------------------
(* The http handler.                                                       *)

Lookup(g) ==
    /\ get[g].pc = "new"
    /\ \/ \E p \in assets : get' = [get EXCEPT ![g] = [pc |-> "found", pub |-> p]]
       \/ get' = [get EXCEPT ![g].pc = "ended"]       \* NotFound
    /\ UNCHANGED <<serving, assets, pubCtx, pubCell, publisher, link, late>>

\* NewAssetReader
OpenReader(g) ==
    /\ get[g].pc = "found"
    /\ \E pc \in {"opened", "ended"} : get' = [get EXCEPT ![g].pc = pc]
    /\ UNCHANGED <<serving, assets, pubCtx, pubCell, publisher, link, late>>

\* The error of StartChild is dropped: the handler goes on with no context and
\* panics at Done(), and the reader stays open.
StartServing(g) ==
    /\ get[g].pc = "opened"
    /\ get' = [get EXCEPT ![g].pc =
                  IF pubCtx[get[g].pub] = "open" THEN "serving" ELSE "panicked"]
    /\ UNCHANGED <<serving, assets, pubCtx, pubCell, publisher, link, late>>

\* ServeContent returns: at the end, with the client, or because the reader
\* was closed under it.  The mutant has no OnClosing for the reader.
MutantServed(g) ==
    /\ get[g].pc = "serving" /\ pubCtx[get[g].pub] = "open"
    /\ get' = [get EXCEPT ![g].pc = "ended"]
    /\ UNCHANGED <<serving, assets, pubCtx, pubCell, publisher, link, late>>
Served(g) ==
    /\ get[g].pc = "serving" /\ get' = [get EXCEPT ![g].pc = "ended"]
    /\ UNCHANGED <<serving, assets, pubCtx, pubCell, publisher, link, late>>

-----------------------------------------------------------------------------
AssetNext ==
    \/ \E p \in Pubs : \/ PinCell(p) \/ Expire(p) \/ CloseWithServer(p)
                       \/ Delete(p) \/ Notify(p) \/ Closed(p)
    \/ Arm \/ Insert \/ SetLink \/ ServerCloses
    \/ \E g \in Gets : Lookup(g) \/ OpenReader(g) \/ StartServing(g) \/ Served(g)

AssetSafety == AssetInit /\ [][AssetNext]_assetVars

\* Contexts that close run, and a reader that was closed makes ServeContent end.
AssetFairness ==
    /\ WF_assetVars(\E p \in Pubs : CloseWithServer(p) \/ Delete(p) \/ Notify(p) \/ Closed(p))
    /\ WF_assetVars(~serving /\ \E g \in Gets : Served(g))

AssetSpec == AssetSafety /\ AssetFairness

-----------------------------------------------------------------------------
Gone == {"deleted", "notified", "closed"}

\* Each variable has its type, and who is served reads below an open context.
AssetTypeOK ==
    /\ \A g \in Gets : get[g].pc = "serving" => pubCtx[get[g].pub] \notin {"none", "closed"}
    /\ serving \in BOOLEAN /\ assets \subseteq Pubs /\ late \subseteq Pubs
    /\ pubCtx \in [Pubs -> {"none", "open", "closing"} \cup Gone]
    /\ pubCell \in [Pubs -> Cells]
    /\ publisher \in [pc : {"idle", "start", "armed", "inserted"}, pub : Pubs \cup {NoPub}]
    /\ link \in [Cells -> Pubs \cup {NoPub}]
    /\ get \in [Gets -> [pc : {"new", "found", "opened", "serving", "ended", "panicked"},
                         pub : Pubs \cup {NoPub}]]

\* An asset that has expired is not in the map, unless it expired while it was
\* being published.
MapHasLiveAssets == \A p \in assets : pubCtx[p] \in Gone => p \in late

\* A link that a client can see is that of an asset in the map or of one that is
\* about to clear it, with the same exception.
LinksAreServed ==
    \A c \in Cells : link[c] # NoPub =>
        \/ link[c] \in assets
        \/ pubCtx[link[c]] = "deleted"
        \/ link[c] \in late

\* When the host closes, every asset's context closes in the end: no http
\* request and no late publication holds it.
AssetsEnd == ~serving ~> \A p \in Pubs : pubCtx[p] \in {"none", "closed"}

\* Whatever the order of publishing, reading, expiry and closing, a request that
\* is served reads below an open context, an expired asset has left the map, and
\* a link that a cell shows is served or about to be cleared; both but for the
\* asset that expires while it is being published.
AssetsAreServed == AssetTypeOK /\ MapHasLiveAssets /\ LinksAreServed
=============================================================================

---------------------------- MODULE ServerProofs ----------------------------
(***************************************************************************)
(* Proofs about the parts that accept connections and answer requests, for *)
(* any number of them.  TcpService: no connection is forgotten open, and   *)
(* none is registered once Stop has closed the sessions.  AssetServing:    *)
(* what is served is live, and a link is that of an asset which is served, *)
(* but for an asset that expires while it is being published.  ArcGate:    *)
(* requests that race to read a file into the cache all send the same      *)
(* edition of it.  LibHost, for any number of hosts and buffers: a buffer  *)
(* has one owner, and Call_Shutdown leaves no host but those that were     *)
(* lost.                                                                   *)
(***************************************************************************)
EXTENDS TcpService, AssetServing, ArcGate, LibHost, TLAPS

-----------------------------------------------------------------------------
(* TcpService.                                                             *)

\* The caller of Stop that went past the compare-and-swap, and how far it is:
\* what it has closed stays closed.
StopShape ==
    /\ ~stopped => \A s \in Stoppers : stopPc[s] = "idle"
    /\ \A s \in Stoppers : stopPc[s] = "pass" =>
           /\ lisOpen
           /\ \A t \in Stoppers \ {s} : stopPc[t] \notin {"pass", "context", "listener"}
    /\ ~lisOpen => stopped
    /\ NoneAfterStop

\* A connection is registered once, by addClient.
Seen ==
    /\ \A k \in sessions : sess[k] = "none" => servePc = "start" /\ serveConn = k
    /\ servePc = "add" => sess[serveConn] = "none" /\ serveConn \notin sessions

Inv == ServiceTypeOK /\ Seen /\ OpenMeansRegistered /\ StopShape

\* Every step keeps the types.
LEMMA TypeStep ==
    ASSUME ServiceTypeOK, [ServiceNext]_serviceVars
    PROVE  ServiceTypeOK'
<1> USE TcpServiceAssumption
<1>1. CASE Accept \/ AcceptFails \/ ServeExit \/ Retry
  BY <1>1 DEF ServiceTypeOK, Accept, AcceptFails, ServeExit, Retry, sessVars
<1>2. CASE AddClient
  BY <1>2 DEF ServiceTypeOK, AddClient
<1>3. CASE StartNewSession \/ StartFailed
  BY <1>3 DEF ServiceTypeOK, StartNewSession, StartFailed, CloseSess, sessVars
<1>4. CASE StartWriter \/ StartReader
  BY <1>4 DEF ServiceTypeOK, StartWriter, StartReader, Started
<1>5. ASSUME NEW k \in Conns, ConnStep(k)
      PROVE  ServiceTypeOK'
  <2>1. Close(k) => sess' \in [Conns -> {"none", "open", "closing", "closed"}]
                    /\ \A j \in Conns : sess'[j] = "none" <=> sess[j] = "none"
    BY DEF ServiceTypeOK, Close
  <2>2. CASE ReaderTakes(k) \/ HandOver(k)
    BY <2>2 DEF ServiceTypeOK, ReaderTakes, HandOver, serveVars
  <2>3. CASE ReaderEnds(k)
    BY <2>1, <2>3 DEF ServiceTypeOK, ReaderEnds, serveVars
  <2>4. CASE SessionEnds(k)
    BY <2>1, <2>4 DEF ServiceTypeOK, SessionEnds, serveVars
  <2>5. CASE SessionDone(k) \/ WriterEnds(k)
    BY <2>5 DEF ServiceTypeOK, SessionDone, WriterEnds, CloseSess, serveVars
  <2> QED  BY <1>5, <2>2, <2>3, <2>4, <2>5 DEF ConnStep
<1>6. ASSUME NEW s \in Stoppers, Stop(s) \/ StopStep(s)
      PROVE  ServiceTypeOK'
  BY <1>6, ZenonT(60) DEF ServiceTypeOK, Stop, StopStep, CloseSessions, CloseContext,
              CloseListener, serveVars, sessVars
<1>7. CASE SrvClose
  BY <1>7 DEF ServiceTypeOK, SrvClose, serveVars, sessVars
<1>8. CASE UNCHANGED serviceVars
  BY <1>8 DEF ServiceTypeOK, serviceVars, serveVars, sessVars
<1> QED
  BY <1>1, <1>2, <1>3, <1>4, <1>5, <1>6, <1>7, <1>8 DEF ServiceNext, ServeStep

LEMMA TypeInit == ServiceInit => ServiceTypeOK
<1> SUFFICES ASSUME ServiceInit PROVE ServiceTypeOK
  OBVIOUS
<1>1. /\ stopped \in BOOLEAN /\ muHeld \in BOOLEAN /\ lisOpen \in BOOLEAN
      /\ ctxClosing \in BOOLEAN
  BY DEF ServiceInit
<1> QED  BY <1>1 DEF ServiceInit, ServiceTypeOK

\* The state of the service always has its type; a reader or a writer task
\* belongs to a session that was started.
THEOREM ServiceTypeCorrect == ServiceSafetySpec => []ServiceTypeOK
  BY TypeInit, TypeStep, PTL DEF ServiceSafetySpec

\* Every step keeps a connection from being registered twice.
LEMMA SeenStep ==
    ASSUME ServiceTypeOK, Seen, [ServiceNext]_serviceVars
    PROVE  Seen'
<1> USE TcpServiceAssumption
<1>1. CASE Accept
  BY <1>1 DEF Accept, Seen, ServiceTypeOK, sessVars
<1>2. CASE AcceptFails \/ ServeExit \/ Retry
  BY <1>2 DEF AcceptFails, ServeExit, Retry, Seen, sessVars
<1>3. CASE AddClient
  BY <1>3 DEF AddClient, Seen, ServiceTypeOK
<1>4. CASE StartNewSession
  BY <1>4 DEF StartNewSession, Seen, ServiceTypeOK
<1>5. CASE StartFailed \/ StartWriter \/ StartReader
  BY <1>5 DEF StartFailed, CloseSess, StartWriter, StartReader, Seen, sessVars
<1>6. ASSUME NEW k \in Conns, ConnStep(k)
      PROVE  Seen'
  <2>1. /\ sessions' \subseteq sessions /\ UNCHANGED <<servePc, serveConn>>
        /\ \A j \in Conns : sess'[j] = "none" <=> sess[j] = "none"
    BY <1>6 DEF ConnStep, ReaderTakes, HandOver, ReaderEnds, SessionEnds, SessionDone,
                Close, WriterEnds, CloseSess, serveVars, ServiceTypeOK
  <2> QED  BY <2>1 DEF Seen, ServiceTypeOK
<1>7. ASSUME NEW s \in Stoppers, Stop(s) \/ StopStep(s)
      PROVE  Seen'
  BY <1>7 DEF Stop, StopStep, CloseSessions, CloseContext, CloseListener,
              serveVars, sessVars, Seen
<1>8. CASE SrvClose \/ UNCHANGED serviceVars
  BY <1>8 DEF SrvClose, serviceVars, serveVars, sessVars, Seen
<1> QED  BY <1>1, <1>2, <1>3, <1>4, <1>5, <1>6, <1>7, <1>8 DEF ServiceNext, ServeStep

\* Every step keeps the connections accounted for.
LEMMA StopStepInv ==
    ASSUME Inv, [ServiceNext]_serviceVars
    PROVE  OpenMeansRegistered' /\ StopShape'
<1> USE DEF Inv
<1>0. ServiceTypeOK /\ Seen /\ ServiceTypeOK'
  BY TypeStep
<1>a. servePc = "add" => sess[serveConn] = "none" /\ serveConn \notin sessions
  BY DEF Seen
<1>1. CASE Accept
  BY <1>1 DEF Accept, OpenMeansRegistered, StopShape, NoneAfterStop
<1>2. CASE AcceptFails \/ ServeExit \/ Retry
  BY <1>2 DEF AcceptFails, ServeExit, Retry, OpenMeansRegistered, StopShape,
              NoneAfterStop
<1>3. CASE AddClient
  <2>1. CASE stopped
    BY <1>3, <1>a, <2>1 DEF AddClient, Refused, OpenMeansRegistered, StopShape,
                      NoneAfterStop
  <2>2. CASE ~stopped
    BY <1>3, <2>2 DEF AddClient, Refused, OpenMeansRegistered, StopShape,
                      NoneAfterStop
  <2> QED  BY <2>1, <2>2
<1>4. CASE StartNewSession \/ StartWriter \/ StartReader
  BY <1>4 DEF StartNewSession, StartWriter, StartReader, OpenMeansRegistered,
              StopShape, NoneAfterStop
<1>5. CASE StartFailed
  BY <1>5 DEF StartFailed, CloseSess, OpenMeansRegistered, StopShape,
              NoneAfterStop
<1>6. ASSUME NEW k \in Conns, ConnStep(k) /\ ~WriterEnds(k)
      PROVE  OpenMeansRegistered' /\ StopShape'
  BY <1>6 DEF ConnStep, ReaderTakes, HandOver, ReaderEnds, SessionEnds, SessionDone,
              serveVars, OpenMeansRegistered, StopShape, NoneAfterStop
<1>7. ASSUME NEW k \in Conns, WriterEnds(k)
      PROVE  OpenMeansRegistered' /\ StopShape'
  BY <1>7, <1>a DEF WriterEnds, CloseSess, serveVars, OpenMeansRegistered, StopShape,
              NoneAfterStop
<1>8. ASSUME NEW s \in Stoppers, Stop(s)
      PROVE  OpenMeansRegistered' /\ StopShape'
  BY <1>8 DEF Stop, serveVars, OpenMeansRegistered, StopShape, NoneAfterStop
<1>9. ASSUME NEW s \in Stoppers, CloseSessions(s)
      PROVE  OpenMeansRegistered' /\ StopShape'
  BY <1>9, <1>a DEF CloseSessions, ClosedByStop, serveVars, OpenMeansRegistered,
              StopShape, NoneAfterStop
<1>10. ASSUME NEW s \in Stoppers, CloseContext(s) \/ CloseListener(s)
       PROVE  OpenMeansRegistered' /\ StopShape'
  <2>1. OpenMeansRegistered'
    BY <1>10 DEF CloseContext, CloseListener, serveVars, OpenMeansRegistered
  <2>2. /\ \A t \in Stoppers \ {s} : stopPc'[t] = stopPc[t] /\ stopPc[t] # "pass"
        /\ stopPc'[s] \in {"listener", "done"} /\ stopped /\ sessions = {}
        /\ stopPc[s] \in {"context", "listener"}
        /\ UNCHANGED <<stopped, sessions>>
    BY <1>0, <1>10 DEF CloseContext, CloseListener, StopShape, NoneAfterStop,
                       ServiceTypeOK
  <2>3. StopShape'
    BY <2>2 DEF StopShape, NoneAfterStop
  <2> QED  BY <2>1, <2>3
<1>11. CASE SrvClose
  BY <1>11 DEF SrvClose, serveVars, OpenMeansRegistered, StopShape,
               NoneAfterStop
<1>12. CASE UNCHANGED serviceVars
  BY <1>12 DEF serviceVars, serveVars, OpenMeansRegistered, StopShape, NoneAfterStop
<1> QED
  BY <1>1, <1>2, <1>3, <1>4, <1>5, <1>6, <1>7, <1>8, <1>9, <1>10, <1>11, <1>12
     DEF ServiceNext, ServeStep, StopStep

\* Whatever the order of accepts, failed starts, ends of sessions and stops,
\* no open connection is unregistered, and none is registered after a stop.
THEOREM ConnectionsAccounted == ServiceSafetySpec => []ConnsAreAccounted
<1>1. ServiceInit => Inv
  BY TypeInit DEF ServiceInit, Inv, Seen, OpenMeansRegistered, StopShape, NoneAfterStop, Stoppers
<1>2. Inv /\ [ServiceNext]_serviceVars => Inv'
  BY TypeStep, SeenStep, StopStepInv DEF Inv
<1>3. Inv => ConnsAreAccounted
  BY DEF Inv, StopShape, ConnsAreAccounted
<1> QED  BY <1>1, <1>2, <1>3, PTL DEF ServiceSafetySpec

-----------------------------------------------------------------------------
(* AssetServing.                                                           *)

\* A publication in progress and a request know their asset.
Known ==
    /\ publisher.pc # "idle" => publisher.pub \in Pubs
    /\ \A g \in Gets : get[g].pc \in {"found", "opened", "serving"} => get[g].pub \in Pubs

\* What is still to be inserted, or to be linked, is live or late; a link is of
\* an asset that its cell has published.
Progress ==
    /\ publisher.pc \in {"start", "armed"} =>
           (pubCtx[publisher.pub] \in Gone => publisher.pub \in late)
    /\ publisher.pc = "inserted" =>
           publisher.pub \in assets \/ publisher.pub \in late
    /\ \A c \in Cells : link[c] # NoPub => pubCell[link[c]] = c

AssetInv == AssetTypeOK /\ Known /\ MapHasLiveAssets /\ LinksAreServed /\ Progress

LEMMA AssetInitInv == AssetInit => AssetInv
BY AssetAssumption
   DEF AssetInit, AssetInv, AssetTypeOK, Known, MapHasLiveAssets, LinksAreServed,
       Progress, Gone

\* Every step keeps the types, and the requests below contexts that are open.
LEMMA AssetTypeStep ==
    ASSUME AssetTypeOK, Known, [AssetNext]_assetVars
    PROVE  AssetTypeOK' /\ Known'
<1> USE AssetAssumption DEF AssetTypeOK, Known, Gone
<1>1. ASSUME NEW p \in Pubs, PinCell(p)
      PROVE  AssetTypeOK' /\ Known'
  BY <1>1 DEF PinCell
<1>2. CASE Arm \/ Insert
  BY <1>2 DEF Arm, Insert
<1>3. CASE SetLink
  BY <1>3 DEF SetLink
<1>4. ASSUME NEW p \in Pubs, Expire(p) \/ CloseWithServer(p) \/ Delete(p)
      PROVE  AssetTypeOK' /\ Known'
  BY <1>4 DEF Expire, CloseWithServer, Delete, Without
<1>5. ASSUME NEW p \in Pubs, Notify(p)
      PROVE  AssetTypeOK' /\ Known'
  BY <1>5 DEF Notify, OnExpired
<1>6. ASSUME NEW p \in Pubs, Closed(p)
      PROVE  AssetTypeOK' /\ Known'
  <2>1. \A g \in Gets : get[g].pc = "serving" => get[g].pub # p
    BY <1>6 DEF Closed, Readers
  <2> QED  BY <1>6, <2>1 DEF Closed
<1>7. CASE ServerCloses
  BY <1>7 DEF ServerCloses
<1>8. ASSUME NEW g \in Gets, Lookup(g)
      PROVE  AssetTypeOK' /\ Known'
  BY <1>8, SMTT(60) DEF Lookup
<1>9. ASSUME NEW g \in Gets, OpenReader(g) \/ StartServing(g) \/ Served(g)
      PROVE  AssetTypeOK' /\ Known'
  BY <1>9 DEF OpenReader, StartServing, Served
<1>10. CASE UNCHANGED assetVars
  BY <1>10 DEF assetVars
<1> QED
  BY <1>1, <1>2, <1>3, <1>4, <1>5, <1>6, <1>7, <1>8, <1>9, <1>10 DEF AssetNext

\* Every step keeps the map and the links true to the assets.
LEMMA AssetStep ==
    ASSUME AssetInv, [AssetNext]_assetVars
    PROVE  MapHasLiveAssets' /\ LinksAreServed' /\ Progress'
<1> USE AssetAssumption
    DEF AssetInv, AssetTypeOK, Known, MapHasLiveAssets, LinksAreServed, Progress, Gone
<1>1. ASSUME NEW p \in Pubs, PinCell(p)
      PROVE  MapHasLiveAssets' /\ LinksAreServed' /\ Progress'
  BY <1>1 DEF PinCell
<1>2. CASE Arm
  BY <1>2 DEF Arm
<1>3. CASE Insert
  BY <1>3 DEF Insert
<1>4. CASE SetLink
  BY <1>4 DEF SetLink, Cells
<1>5. ASSUME NEW p \in Pubs, Expire(p) \/ CloseWithServer(p)
      PROVE  MapHasLiveAssets' /\ LinksAreServed' /\ Progress'
  BY <1>5 DEF Expire, CloseWithServer
<1>6. ASSUME NEW p \in Pubs, Delete(p)
      PROVE  MapHasLiveAssets' /\ LinksAreServed' /\ Progress'
  BY <1>6 DEF Delete, Without
<1>7. ASSUME NEW p \in Pubs, Notify(p)
      PROVE  MapHasLiveAssets' /\ LinksAreServed' /\ Progress'
  \* The link of the cell is cleared, and no other cell has a link to p.
  BY <1>7 DEF Notify, OnExpired
<1>8. ASSUME NEW p \in Pubs, Closed(p)
      PROVE  MapHasLiveAssets' /\ LinksAreServed' /\ Progress'
  BY <1>8 DEF Closed
<1>9. CASE ServerCloses \/ UNCHANGED assetVars
  BY <1>9 DEF ServerCloses, assetVars
<1>10. ASSUME NEW g \in Gets, Lookup(g) \/ OpenReader(g) \/ StartServing(g) \/ Served(g)
       PROVE  MapHasLiveAssets' /\ LinksAreServed' /\ Progress'
  BY <1>10 DEF Lookup, OpenReader, StartServing, Served
<1> QED
  BY <1>1, <1>2, <1>3, <1>4, <1>5, <1>6, <1>7, <1>8, <1>9, <1>10 DEF AssetNext

LEMMA AssetInvCorrect == AssetSafety => []AssetInv
<1>1. AssetInv /\ [AssetNext]_assetVars => AssetInv'
  BY AssetTypeStep, AssetStep DEF AssetInv
<1> QED  BY AssetInitInv, <1>1, PTL DEF AssetSafety

\* No request is served below a context that has closed, whatever the order in
\* which assets are published, read, expire and are closed with the server.
THEOREM ServedBelowOpenContext == AssetSafety => []AssetTypeOK
  BY AssetInvCorrect, PTL DEF AssetInv

\* An asset that has expired is not in the map, unless it expired while
\* PublishAsset was still on its way to insert it.
THEOREM ExpiredAssetsLeave == AssetSafety => []MapHasLiveAssets
  BY AssetInvCorrect, PTL DEF AssetInv

\* A link that a cell shows is served or about to be cleared, with the same
\* exception, although a cell may have published several assets.
THEOREM ShownLinksAreServed == AssetSafety => []LinksAreServed
  BY AssetInvCorrect, PTL DEF AssetInv

\* The three together: what is served is open, what has expired is gone, and
\* what is shown is served, for any numbers of cells, publications and requests.
THEOREM AssetsServed == AssetSafety => []AssetsAreServed
<1>1. AssetInv => AssetsAreServed
  BY DEF AssetInv, AssetsAreServed
<1> QED  BY <1>1, AssetInvCorrect, PTL

-----------------------------------------------------------------------------
(* ArcGate.                                                                *)

GatePcs == {"new", "template", "lookup", "lock", "locked", "send"} \cup Answered
EntryType == [size : DocSizes, len : DocSizes \cup {0}, edition : 0 .. Editions]

WebState == [pc : GatePcs, want : Docs \cup {"template", "fixed", "missing"},
             entry : EntryType \cup {NoEntry}]

\* What GateTypeOK does not say: the requests, the lock and the sizes of the scan.
WebType ==
    /\ web \in [WebReqs -> WebState]
    /\ scanned \in [Docs -> DocSizes] /\ wwwMu \in WebReqs \cup {NoWebReq}
    /\ \A r \in WebReqs : web[r].pc \in {"lookup", "lock", "locked", "send", "error"} =>
           web[r].want \in Docs
    /\ \A r \in WebReqs : web[r].pc = "template" => web[r].want = "template"

\* An entry is as RescanWWW has made it, or complete: it is read once at most.
EntriesStand == \A d \in Docs :
    \/ www[d] = [size |-> scanned[d], len |-> 0, edition |-> 0]
    \/ www[d].len = www[d].size

\* Who holds the lock knows the entry as it is; who has let it go and does not
\* ask for it again has the entry that everybody else gets, or could not read
\* the file.
CopiesStand == \A r \in WebReqs :
    /\ web[r].pc = "locked" => web[r].entry = www[web[r].want]
    /\ web[r].pc = "send" \/ (web[r].pc = "sent" /\ web[r].want \in Docs) =>
           \/ web[r].entry = www[web[r].want] /\ ~Recache(web[r].entry)
           \/ web[r].pc = "send" /\ r \in unread /\ Recache(web[r].entry)

GateInv == GateTypeOK /\ WebType /\ EntriesStand /\ CopiesStand /\ SmallDocsAreSent

LEMMA GateInitInv == GateInit => GateInv
<1> SUFFICES ASSUME GateInit PROVE GateInv
  OBVIOUS
<1> USE GateAssumption DEF GateInit
<1>1. /\ \A d \in Docs : disk[d].size \in DocSizes /\ disk[d].size \in Nat
      /\ \A r \in WebReqs : web[r].pc = "new"
  OBVIOUS
<1>2. GateTypeOK
  <2>1. disk \in [Docs -> [size : DocSizes, edition : 1 .. Editions]]
    OBVIOUS
  <2>2. www \in [Docs -> [size : DocSizes, len : DocSizes \cup {0}, edition : 0 .. Editions]]
    BY <1>1
  <2> QED  BY <1>1, <2>1, <2>2 DEF GateTypeOK
<1>3. WebType
  BY <1>1 DEF WebType, WebState, GatePcs, Answered
<1>4. EntriesStand /\ CopiesStand /\ SmallDocsAreSent
  BY <1>1 DEF EntriesStand, CopiesStand, SmallDocsAreSent
<1> QED  BY <1>2, <1>3, <1>4 DEF GateInv

\* A step changes one request.
LEMMA WebStep ==
    ASSUME WebType, NEW r \in WebReqs, NEW e \in WebState, web' = [web EXCEPT ![r] = e]
    PROVE  /\ web' \in [WebReqs -> WebState] /\ web'[r] = e
           /\ \A q \in WebReqs : q # r => web'[q] = web[q]
BY DEF WebType

\* The handlers that do not come to the cache.
LEMMA GateOutside ==
    ASSUME GateInv, NEW r \in WebReqs,
           ServeHTTP(r) \/ RedirectToHTTPS(r) \/ ServeTemplate(r)
    PROVE  GateInv'
<1>1. PICK e \in WebState :
          /\ web' = [web EXCEPT ![r] = e]
          /\ e.pc \in {"lookup", "template", "fixed", "missing", "refused", "sent", "failed"}
          /\ e.pc = "lookup" => e.want \in Docs
          /\ e.pc = "template" => e.want = "template"
          /\ e.pc = "sent" => e.want \notin Docs
  <2>1. CASE ServeHTTP(r) \/ RedirectToHTTPS(r)
    BY <2>1, ZenonT(60) DEF ServeHTTP, RedirectToHTTPS, WebState, GatePcs, Answered
  <2>2. CASE ServeTemplate(r)
    <3>1. web[r] \in WebState /\ web[r].pc = "template" /\ web[r].want = "template"
      BY <2>2 DEF ServeTemplate, GateInv, WebType
    <3>2. PICK pc \in {"sent", "failed"} : web' = [web EXCEPT ![r] = [web[r] EXCEPT !.pc = pc]]
      BY <2>2, <3>1 DEF ServeTemplate, WebState
    <3>3. [web[r] EXCEPT !.pc = pc] \in WebState
      BY <3>1 DEF WebState, GatePcs, Answered
    <3> QED  BY <3>1, <3>2, <3>3, GateAssumption DEF WebState
  <2> QED  BY <2>1, <2>2
<1>2. web[r].pc # "locked" /\ statusErr' \in BOOLEAN
      /\ UNCHANGED <<disk, scanned, www, wwwMu, unread>>
  BY DEF ServeHTTP, RedirectToHTTPS, ServeTemplate, GateInv, GateTypeOK
<1>3. /\ web' \in [WebReqs -> WebState] /\ web'[r] = e
      /\ \A q \in WebReqs : q # r => web'[q] = web[q]
  BY <1>1, WebStep DEF GateInv
<1> HIDE DEF GatePcs
<1>4. GateTypeOK'
  BY <1>1, <1>2, <1>3 DEF GateInv, GateTypeOK, Answered
<1>5. WebType'
  BY <1>1, <1>2, <1>3 DEF GateInv, WebType
<1>6. EntriesStand' /\ CopiesStand' /\ SmallDocsAreSent'
  BY <1>1, <1>2, <1>3 DEF GateInv, EntriesStand, CopiesStand, SmallDocsAreSent
<1> QED  BY <1>4, <1>5, <1>6 DEF GateInv

\* A file is edited: the cache does not know.
LEMMA GateEdit ==
    ASSUME GateInv, (\E d \in Docs : Edit(d)) \/ UNCHANGED gateVars
    PROVE  GateInv'
<1>1. UNCHANGED <<scanned, www, wwwMu, statusErr, web, unread>>
  BY DEF Edit, gateVars
<1>2. disk' \in [Docs -> [size : DocSizes, edition : 1 .. Editions]]
  BY GateAssumption DEF Edit, gateVars, GateInv, GateTypeOK
<1> QED
  BY <1>1, <1>2
     DEF GateInv, GateTypeOK, WebType, EntriesStand, CopiesStand, SmallDocsAreSent, Recache

\* A step of serveFile: the request r, which wants a file, goes on as e.
FileStep(r, e) ==
    /\ web[r] \in WebState /\ web[r].want \in Docs
    /\ e \in WebState /\ e.want = web[r].want /\ e.pc # "template"
    /\ web' \in [WebReqs -> WebState] /\ web'[r] = e
    /\ \A q \in WebReqs : q # r => web'[q] = web[q]
    /\ disk' = disk /\ scanned' = scanned /\ statusErr' = statusErr

LEMMA WebStateIs ==
    ASSUME GateInv, NEW r \in WebReqs
    PROVE  /\ web[r] \in WebState /\ web[r].pc \in GatePcs
           /\ web[r].want \in Docs \cup {"template", "fixed", "missing"}
           /\ web[r].entry \in EntryType \cup {NoEntry}
BY DEF GateInv, WebType, WebState

LEMMA EntryIs ==
    ASSUME GateInv, NEW d \in Docs
    PROVE  /\ www \in [Docs -> EntryType] /\ www[d] \in EntryType
           /\ www[d] = [size |-> scanned[d], len |-> 0, edition |-> 0] \/ www[d].len = www[d].size
BY DEF GateInv, GateTypeOK, EntriesStand, EntryType

LEMMA WebStateMade ==
    ASSUME NEW pc \in GatePcs, NEW want \in Docs, NEW entry \in EntryType \cup {NoEntry}
    PROVE  [pc |-> pc, want |-> want, entry |-> entry] \in WebState
BY DEF WebState

LEMMA WebStateReplaced ==
    ASSUME NEW x \in WebState, NEW pc, NEW entry
    PROVE  [x EXCEPT !.pc = pc, !.entry = entry] = [pc |-> pc, want |-> x.want, entry |-> entry]
<1>1. PICK p, w, n : x = [pc |-> p, want |-> w, entry |-> n]
  BY DEF WebState
<1>2. PICK y : y = [x EXCEPT !.pc = pc]
  OBVIOUS
<1>3. y = [pc |-> pc, want |-> w, entry |-> n]
  BY <1>1, <1>2
<1>4. [y EXCEPT !.entry = entry] = [pc |-> pc, want |-> w, entry |-> entry]
  BY <1>3
<1>5. [x EXCEPT !.pc = pc, !.entry = entry] = [y EXCEPT !.entry = entry]
  BY <1>2
<1>6. x.want = w
  BY <1>1
<1> QED  BY <1>4, <1>5, <1>6

LEMMA EntryNumbers == ASSUME NEW x \in EntryType PROVE x.len \in Nat /\ x.size \in Nat
<1>1. x.size \in DocSizes /\ x.len \in DocSizes \cup {0}
  BY DEF EntryType
<1>2. \A n \in DocSizes \cup {0} : n \in Nat
  BY GateAssumption
<1> QED  BY <1>1, <1>2

\* What is read of a file is complete.
LEMMA ContentsIs ==
    ASSUME NEW file \in [size : DocSizes, edition : 1 .. Editions], NEW x,
           x = [size |-> file.size, len |-> file.size, edition |-> file.edition]
    PROVE  x \in EntryType /\ x.len = x.size /\ x.size \in Nat
<1>1. file.size \in DocSizes /\ file.edition \in 0 .. Editions
  BY GateAssumption
<1>2. x \in EntryType
  BY <1>1 DEF EntryType
<1> QED  BY <1>2, EntryNumbers

LEMMA ServeSteps ==
    ASSUME GateInv, NEW r \in WebReqs, web[r].pc \in {"lookup", "lock", "locked", "send"},
           NEW pc \in GatePcs, pc # "template", NEW entry \in EntryType \cup {NoEntry},
           web' = [web EXCEPT ![r] = [pc |-> pc, want |-> web[r].want, entry |-> entry]],
           UNCHANGED <<disk, scanned, statusErr>>
    PROVE  FileStep(r, [pc |-> pc, want |-> web[r].want, entry |-> entry])
<1>1. PICK e : e = [pc |-> pc, want |-> web[r].want, entry |-> entry]
  OBVIOUS
<1>2. web[r].want \in Docs
  BY DEF GateInv, WebType
<1>3. e \in WebState /\ e.want = web[r].want /\ e.pc # "template"
  <2>1. e \in WebState
    BY <1>1, <1>2, WebStateMade
  <2> QED  BY <1>1, <2>1
<1>4. web' \in [WebReqs -> WebState] /\ web'[r] = e /\ \A q \in WebReqs : q # r => web'[q] = web[q]
  BY <1>1, <1>3, WebStep DEF GateInv
<1>5. FileStep(r, e)
  BY <1>2, <1>3, <1>4, WebStateIs DEF FileStep
<1> QED  BY <1>1, <1>5

\* The types, if the lock is with the request that is locked.
LEMMA ServeTypes ==
    ASSUME GateInv, NEW r \in WebReqs, NEW e, FileStep(r, e),
           www' \in [Docs -> EntryType], unread' \subseteq WebReqs,
           wwwMu' \in WebReqs \cup {NoWebReq},
           \A q \in WebReqs : web'[q].pc = "locked" <=> wwwMu' = q
    PROVE  GateTypeOK' /\ WebType'
<1>1. WebType'
  <2>1. scanned' \in [Docs -> DocSizes]
    BY DEF GateInv, WebType, FileStep
  <2>2. \A q \in WebReqs : web'[q].pc \in {"lookup", "lock", "locked", "send", "error"} =>
            web'[q].want \in Docs
    BY DEF GateInv, WebType, FileStep
  <2>3. \A q \in WebReqs : web'[q].pc = "template" => web'[q].want = "template"
    BY DEF GateInv, WebType, FileStep
  <2>4. web' \in [WebReqs -> WebState]
    BY DEF FileStep
  <2> QED  BY <2>1, <2>2, <2>3, <2>4, Zenon DEF WebType
<1>2. GateTypeOK'
  <2>1. disk' \in [Docs -> [size : DocSizes, edition : 1 .. Editions]] /\ statusErr' \in BOOLEAN
    BY Zenon DEF GateInv, GateTypeOK, FileStep
  <2>2. \A q \in WebReqs : web'[q].pc \in GatePcs
    <3>1. web' \in [WebReqs -> WebState]
      BY DEF FileStep
    <3> QED  BY <3>1 DEF WebState
  <2> QED  BY <2>1, <2>2, Zenon DEF GateTypeOK, EntryType, GatePcs
<1> QED  BY <1>1, <1>2

\* What is known of the entries, if they stay as they are.
LEMMA ServeCopies ==
    ASSUME GateInv, NEW r \in WebReqs, NEW e, FileStep(r, e),
           www' = www, unread \subseteq unread', e.pc # "error",
           e.pc = "locked" => e.entry = www[e.want],
           e.pc \in {"send", "sent"} => \/ e.entry = www[e.want] /\ ~Recache(e.entry)
                                        \/ e.pc = "send" /\ r \in unread' /\ Recache(e.entry)
    PROVE  EntriesStand' /\ CopiesStand' /\ SmallDocsAreSent'
<1>1. EntriesStand'
  BY DEF GateInv, EntriesStand, FileStep
<1>2. CopiesStand'
  <2> SUFFICES ASSUME NEW q \in WebReqs
               PROVE  /\ web'[q].pc = "locked" => web'[q].entry = www[web'[q].want]
                      /\ web'[q].pc = "send" \/ (web'[q].pc = "sent" /\ web'[q].want \in Docs) =>
                             \/ web'[q].entry = www[web'[q].want] /\ ~Recache(web'[q].entry)
                             \/ web'[q].pc = "send" /\ q \in unread' /\ Recache(web'[q].entry)
    BY DEF CopiesStand, Recache
  <2>1. CASE q = r
    BY <2>1 DEF FileStep
  <2>2. CASE q # r
    <3>1. web'[q] = web[q]
      BY <2>2 DEF FileStep
    <3> QED  BY <3>1 DEF GateInv, CopiesStand
  <2> QED  BY <2>1, <2>2
<1>3. SmallDocsAreSent'
  BY DEF GateInv, SmallDocsAreSent, FileStep
<1> QED  BY <1>1, <1>2, <1>3

\* The read lock: a copy that is complete, or too large to be kept, is sent.
LEMMA GateLooks == ASSUME GateInv, NEW r \in WebReqs, LookupDoc(r) PROVE GateInv'
<1>1. web[r].pc = "lookup" /\ wwwMu = NoWebReq /\ web[r].want \in Docs
      /\ UNCHANGED <<disk, scanned, www, wwwMu, statusErr, unread>>
  BY DEF LookupDoc, GateInv, WebType
<1>2. PICK entry : entry = www[web[r].want]
  OBVIOUS
<1>3. PICK pc : pc = (IF Recache(entry) THEN "lock" ELSE "send")
  OBVIOUS
<1>4. pc \in GatePcs /\ pc \in {"lock", "send"} /\ (pc = "send" => ~Recache(entry))
  BY <1>3 DEF GatePcs
<1>5. entry \in EntryType
  BY <1>1, <1>2, EntryIs
<1>6. web' = [web EXCEPT ![r] = [pc |-> pc, want |-> web[r].want, entry |-> entry]]
  <2>1. web' = [web EXCEPT ![r] = [web[r] EXCEPT !.pc = pc, !.entry = entry]]
    <3>1. web' = [web EXCEPT ![r].pc = pc, ![r].entry = entry]
      BY <1>2, <1>3, Zenon DEF LookupDoc
    <3>2. web \in [WebReqs -> WebState]
      BY DEF GateInv, WebType
    <3> QED  BY <3>1, <3>2
  <2>2. [web[r] EXCEPT !.pc = pc, !.entry = entry] = [pc |-> pc, want |-> web[r].want, entry |-> entry]
    BY WebStateIs, WebStateReplaced, Zenon
  <2> QED  BY <2>1, <2>2
<1>7. PICK e : e = [pc |-> pc, want |-> web[r].want, entry |-> entry]
  OBVIOUS
<1>8. FileStep(r, e) /\ e.pc = pc /\ e.want = web[r].want /\ e.entry = entry
  <2>1. FileStep(r, e)
    BY <1>1, <1>4, <1>5, <1>6, <1>7, ServeSteps
  <2> QED  BY <1>7, <2>1
<1>9. GateTypeOK' /\ WebType'
  <2>1. \A q \in WebReqs : web'[q].pc = "locked" <=> wwwMu' = q
    BY <1>1, <1>4, <1>8, GateAssumption DEF GateInv, GateTypeOK, FileStep
  <2>2. www' \in [Docs -> EntryType] /\ unread' \subseteq WebReqs
    BY <1>1, EntryIs DEF GateInv, GateTypeOK
  <2>3. wwwMu' \in WebReqs \cup {NoWebReq}
    BY <1>1 DEF GateInv, WebType
  <2> QED  BY <1>8, <2>1, <2>2, <2>3, ServeTypes
<1>10. EntriesStand' /\ CopiesStand' /\ SmallDocsAreSent'
  BY <1>1, <1>2, <1>4, <1>8, ServeCopies
<1> QED  BY <1>9, <1>10 DEF GateInv

\* The lock is taken, and the entry copied again.
LEMMA GateLocks == ASSUME GateInv, NEW r \in WebReqs, LockWww(r) PROVE GateInv'
<1>1. web[r].pc = "lock" /\ wwwMu = NoWebReq /\ wwwMu' = r /\ web[r].want \in Docs
      /\ UNCHANGED <<disk, scanned, www, statusErr, unread>>
  BY DEF LockWww, MuFree, GateInv, WebType
<1>2. PICK entry : entry = www[web[r].want]
  OBVIOUS
<1>3. PICK pc : pc = "locked"
  OBVIOUS
<1>4. pc \in GatePcs /\ pc = "locked"
  BY <1>3 DEF GatePcs
<1>5. entry \in EntryType
  BY <1>1, <1>2, EntryIs
<1>6. web' = [web EXCEPT ![r] = [pc |-> pc, want |-> web[r].want, entry |-> entry]]
  <2>1. web' = [web EXCEPT ![r] = [web[r] EXCEPT !.pc = pc, !.entry = entry]]
    <3>1. web' = [web EXCEPT ![r].pc = pc, ![r].entry = entry]
      BY <1>1, <1>2, <1>3, Zenon DEF LockWww
    <3>2. web \in [WebReqs -> WebState]
      BY DEF GateInv, WebType
    <3> QED  BY <3>1, <3>2, WebStateIs DEF WebState
  <2>2. [web[r] EXCEPT !.pc = pc, !.entry = entry] = [pc |-> pc, want |-> web[r].want, entry |-> entry]
    BY WebStateIs, WebStateReplaced, Zenon
  <2> QED  BY <2>1, <2>2
<1>7. PICK e : e = [pc |-> pc, want |-> web[r].want, entry |-> entry]
  OBVIOUS
<1>8. FileStep(r, e) /\ e.pc = pc /\ e.want = web[r].want /\ e.entry = entry
  <2>1. FileStep(r, e)
    BY <1>1, <1>4, <1>5, <1>6, <1>7, ServeSteps
  <2> QED  BY <1>7, <2>1
<1>9. GateTypeOK' /\ WebType'
  <2>1. \A q \in WebReqs : web'[q].pc = "locked" <=> wwwMu' = q
    BY <1>1, <1>4, <1>8, GateAssumption DEF GateInv, GateTypeOK, FileStep
  <2>2. www' \in [Docs -> EntryType] /\ unread' \subseteq WebReqs
    BY <1>1, EntryIs DEF GateInv, GateTypeOK
  <2>3. wwwMu' \in WebReqs \cup {NoWebReq}
    BY <1>1
  <2> QED  BY <1>8, <2>1, <2>2, <2>3, ServeTypes
<1>10. EntriesStand' /\ CopiesStand' /\ SmallDocsAreSent'
  BY <1>1, <1>2, <1>4, <1>8, ServeCopies
<1> QED  BY <1>9, <1>10 DEF GateInv

\* The file cannot be read: what is sent is empty.
LEMMA GateFails == ASSUME GateInv, NEW r \in WebReqs, ReadFails(r) PROVE GateInv'
<1>1. web[r].pc = "locked" /\ Recache(web[r].entry) /\ wwwMu' = NoWebReq /\ web[r].want \in Docs
      /\ unread' = unread \cup {r} /\ UNCHANGED <<disk, scanned, www, statusErr>>
  BY DEF ReadFails, StillEmpty, GateInv, WebType
<1>2. PICK entry : entry = web[r].entry
  OBVIOUS
<1>3. PICK pc : pc = "send"
  OBVIOUS
<1>4. pc \in GatePcs /\ pc = "send"
  BY <1>3 DEF GatePcs
<1>5. entry \in EntryType \cup {NoEntry} /\ entry = www[web[r].want]
  BY <1>1, <1>2, WebStateIs, Zenon DEF GateInv, CopiesStand
<1>6. web' = [web EXCEPT ![r] = [pc |-> pc, want |-> web[r].want, entry |-> entry]]
  <2>1. web' = [web EXCEPT ![r] = [web[r] EXCEPT !.pc = pc, !.entry = entry]]
    <3>1. web' = [web EXCEPT ![r].pc = pc]
      BY <1>1, <1>2, <1>3, Zenon DEF ReadFails
    <3>2. web \in [WebReqs -> WebState] /\ web[r].entry = entry
      BY <1>2 DEF GateInv, WebType
    <3> QED  BY <3>1, <3>2, WebStateIs DEF WebState
  <2>2. [web[r] EXCEPT !.pc = pc, !.entry = entry] = [pc |-> pc, want |-> web[r].want, entry |-> entry]
    BY WebStateIs, WebStateReplaced, Zenon
  <2> QED  BY <2>1, <2>2
<1>7. PICK e : e = [pc |-> pc, want |-> web[r].want, entry |-> entry]
  OBVIOUS
<1>8. FileStep(r, e) /\ e.pc = pc /\ e.want = web[r].want /\ e.entry = entry
  <2>1. FileStep(r, e)
    BY <1>1, <1>4, <1>5, <1>6, <1>7, ServeSteps
  <2> QED  BY <1>7, <2>1
<1>9. GateTypeOK' /\ WebType'
  <2>1. \A q \in WebReqs : web'[q].pc = "locked" <=> wwwMu' = q
    BY <1>1, <1>4, <1>8, GateAssumption DEF GateInv, GateTypeOK, FileStep
  <2>2. www' \in [Docs -> EntryType] /\ unread' \subseteq WebReqs
    BY <1>1, EntryIs DEF GateInv, GateTypeOK
  <2>3. wwwMu' \in WebReqs \cup {NoWebReq}
    BY <1>1
  <2> QED  BY <1>8, <2>1, <2>2, <2>3, ServeTypes
<1>10. EntriesStand' /\ CopiesStand' /\ SmallDocsAreSent'
  BY <1>1, <1>2, <1>4, <1>5, <1>8, ServeCopies
<1> QED  BY <1>9, <1>10 DEF GateInv

\* Somebody else has read the file since the lookup.
LEMMA GateHasRead == ASSUME GateInv, NEW r \in WebReqs, HasBeenRead(r) PROVE GateInv'
<1>1. web[r].pc = "locked" /\ ~Recache(web[r].entry) /\ wwwMu' = NoWebReq /\ web[r].want \in Docs
      /\ UNCHANGED <<disk, scanned, www, statusErr, unread>>
  BY DEF HasBeenRead, StillEmpty, GateInv, WebType
<1>2. PICK entry : entry = web[r].entry
  OBVIOUS
<1>3. PICK pc : pc = "send"
  OBVIOUS
<1>4. pc \in GatePcs /\ pc = "send"
  BY <1>3 DEF GatePcs
<1>5. entry \in EntryType \cup {NoEntry} /\ entry = www[web[r].want]
  BY <1>1, <1>2, WebStateIs, Zenon DEF GateInv, CopiesStand
<1>6. web' = [web EXCEPT ![r] = [pc |-> pc, want |-> web[r].want, entry |-> entry]]
  <2>1. web' = [web EXCEPT ![r] = [web[r] EXCEPT !.pc = pc, !.entry = entry]]
    <3>1. web' = [web EXCEPT ![r].pc = pc]
      BY <1>1, <1>2, <1>3, Zenon DEF HasBeenRead
    <3>2. web \in [WebReqs -> WebState] /\ web[r].entry = entry
      BY <1>2 DEF GateInv, WebType
    <3> QED  BY <3>1, <3>2, WebStateIs DEF WebState
  <2>2. [web[r] EXCEPT !.pc = pc, !.entry = entry] = [pc |-> pc, want |-> web[r].want, entry |-> entry]
    BY WebStateIs, WebStateReplaced, Zenon
  <2> QED  BY <2>1, <2>2
<1>7. PICK e : e = [pc |-> pc, want |-> web[r].want, entry |-> entry]
  OBVIOUS
<1>8. FileStep(r, e) /\ e.pc = pc /\ e.want = web[r].want /\ e.entry = entry
  <2>1. FileStep(r, e)
    BY <1>1, <1>4, <1>5, <1>6, <1>7, ServeSteps
  <2> QED  BY <1>7, <2>1
<1>9. GateTypeOK' /\ WebType'
  <2>1. \A q \in WebReqs : web'[q].pc = "locked" <=> wwwMu' = q
    BY <1>1, <1>4, <1>8, GateAssumption DEF GateInv, GateTypeOK, FileStep
  <2>2. www' \in [Docs -> EntryType] /\ unread' \subseteq WebReqs
    BY <1>1, EntryIs DEF GateInv, GateTypeOK
  <2>3. wwwMu' \in WebReqs \cup {NoWebReq}
    BY <1>1
  <2> QED  BY <1>8, <2>1, <2>2, <2>3, ServeTypes
<1>10. EntriesStand' /\ CopiesStand' /\ SmallDocsAreSent'
  BY <1>1, <1>2, <1>4, <1>5, <1>8, ServeCopies
<1> QED  BY <1>9, <1>10 DEF GateInv

\* The file is read: nobody else has a copy that is used.
LEMMA GateReads == ASSUME GateInv, NEW r \in WebReqs, ReadDoc(r) PROVE GateInv'
<1>1. web[r].pc = "locked" /\ Recache(web[r].entry) /\ wwwMu' = NoWebReq /\ web[r].want \in Docs
      /\ www' = [www EXCEPT ![web[r].want] = Contents(web[r].want)]
      /\ UNCHANGED <<disk, scanned, statusErr, unread>>
  BY DEF ReadDoc, StillEmpty, GateInv, WebType
<1>2. PICK entry : entry = Contents(web[r].want)
  OBVIOUS
<1>3. PICK pc : pc = "send"
  OBVIOUS
<1>4. pc \in GatePcs /\ pc = "send"
  BY <1>3 DEF GatePcs
<1>5. entry \in EntryType /\ entry.len = entry.size /\ entry.size \in Nat /\ ~Recache(entry)
  <2>1. disk[web[r].want] \in [size : DocSizes, edition : 1 .. Editions]
    BY <1>1 DEF GateInv, GateTypeOK
  <2>2. entry = [size |-> disk[web[r].want].size, len |-> disk[web[r].want].size,
                 edition |-> disk[web[r].want].edition]
    BY <1>2 DEF Contents
  <2>3. entry \in EntryType /\ entry.len = entry.size /\ entry.size \in Nat
    BY <2>1, <2>2, ContentsIs
  <2> QED  BY <2>3 DEF Recache
<1>6. web' = [web EXCEPT ![r] = [pc |-> pc, want |-> web[r].want, entry |-> entry]]
  <2>1. web' = [web EXCEPT ![r] = [web[r] EXCEPT !.pc = pc, !.entry = entry]]
    <3>1. web' = [web EXCEPT ![r].pc = pc, ![r].entry = entry]
      BY <1>1, <1>2, <1>3, Zenon DEF ReadDoc
    <3>2. web \in [WebReqs -> WebState]
      BY DEF GateInv, WebType
    <3> QED  BY <3>1, <3>2, WebStateIs DEF WebState
  <2>2. [web[r] EXCEPT !.pc = pc, !.entry = entry] = [pc |-> pc, want |-> web[r].want, entry |-> entry]
    BY WebStateIs, WebStateReplaced, Zenon
  <2> QED  BY <2>1, <2>2
<1>7. PICK e : e = [pc |-> pc, want |-> web[r].want, entry |-> entry]
  OBVIOUS
<1>8. FileStep(r, e) /\ e.pc = pc /\ e.want = web[r].want /\ e.entry = entry
  <2>1. FileStep(r, e)
    BY <1>1, <1>4, <1>5, <1>6, <1>7, ServeSteps
  <2> QED  BY <1>7, <2>1
<1>9. /\ www' \in [Docs -> EntryType] /\ www'[web[r].want] = entry
      /\ \A d \in Docs : d # web[r].want => www'[d] = www[d]
  <2>1. www \in [Docs -> EntryType]
    BY <1>1, EntryIs
  <2> QED  BY <1>1, <1>2, <1>5, <2>1
<1>10. GateTypeOK' /\ WebType'
  <2>1. \A q \in WebReqs : web'[q].pc = "locked" <=> wwwMu' = q
    BY <1>1, <1>4, <1>8, GateAssumption DEF GateInv, GateTypeOK, FileStep
  <2>2. unread' \subseteq WebReqs
    BY <1>1 DEF GateInv, GateTypeOK
  <2>3. wwwMu' \in WebReqs \cup {NoWebReq}
    BY <1>1
  <2> QED  BY <1>8, <1>9, <2>1, <2>2, <2>3, ServeTypes
<1>11. EntriesStand'
  <2>1. scanned' = scanned
    BY <1>1
  <2> QED  BY <1>5, <1>9, <2>1 DEF GateInv, EntriesStand
<1>12. CopiesStand'
  <2>1. web[r].entry = www[web[r].want]
    BY <1>1 DEF GateInv, CopiesStand
  <2> SUFFICES ASSUME NEW q \in WebReqs
               PROVE  /\ web'[q].pc = "locked" => web'[q].entry = www'[web'[q].want]
                      /\ web'[q].pc = "send" \/ (web'[q].pc = "sent" /\ web'[q].want \in Docs) =>
                             \/ web'[q].entry = www'[web'[q].want] /\ ~Recache(web'[q].entry)
                             \/ web'[q].pc = "send" /\ q \in unread' /\ Recache(web'[q].entry)
    BY DEF CopiesStand, Recache
  <2>2. CASE q = r
    BY <1>4, <1>5, <1>8, <1>9, <2>2 DEF FileStep
  <2>3. CASE q # r
    <3>1. web'[q] = web[q] /\ web[q].pc # "locked"
      BY <1>1, <1>8, <2>3 DEF GateInv, GateTypeOK, FileStep
    <3>2. web[q].pc = "send" => web[q].want \in Docs
      BY DEF GateInv, WebType
    <3>3. web[q].pc = "send" \/ (web[q].pc = "sent" /\ web[q].want \in Docs) =>
              \/ web[q].entry = www[web[q].want] /\ ~Recache(web[q].entry)
              \/ web[q].pc = "send" /\ q \in unread /\ Recache(web[q].entry)
      BY DEF GateInv, CopiesStand
    <3>4. web[q].want = web[r].want => www[web[q].want] = web[r].entry
      BY <2>1
    <3>5. web[q].want # web[r].want /\ web[q].want \in Docs => www'[web[q].want] = www[web[q].want]
      BY <1>9
    <3>6. unread' = unread
      BY <1>1
    <3> QED  BY <1>1, <3>1, <3>2, <3>3, <3>4, <3>5, <3>6
  <2> QED  BY <2>2, <2>3
<1>13. SmallDocsAreSent'
  BY <1>1, <1>4, <1>8 DEF GateInv, SmallDocsAreSent, FileStep
<1> QED  BY <1>10, <1>11, <1>12, <1>13 DEF GateInv

\* An entry that is not complete is an error.
LEMMA GateSends == ASSUME GateInv, NEW r \in WebReqs, SendDoc(r) PROVE GateInv'
<1>1. web[r].pc = "send" /\ web[r].want \in Docs
      /\ UNCHANGED <<disk, scanned, www, wwwMu, statusErr, unread>>
  BY DEF SendDoc, GateInv, WebType
<1>2. PICK entry : entry = web[r].entry
  OBVIOUS
<1>3. PICK pc : pc = (IF web[r].entry.len = web[r].entry.size THEN "sent" ELSE "error")
  OBVIOUS
<1>4. pc \in GatePcs /\ pc \in {"sent", "error"} /\ (pc = "sent" <=> entry.len = entry.size)
  BY <1>2, <1>3 DEF GatePcs, Answered
<1>5. entry \in EntryType \cup {NoEntry}
  BY <1>2, WebStateIs
<1>6. web' = [web EXCEPT ![r] = [pc |-> pc, want |-> web[r].want, entry |-> entry]]
  <2>1. web' = [web EXCEPT ![r] = [web[r] EXCEPT !.pc = pc, !.entry = entry]]
    <3>1. web' = [web EXCEPT ![r].pc = pc]
      BY <1>1, <1>2, <1>3, Zenon DEF SendDoc
    <3>2. web \in [WebReqs -> WebState] /\ web[r].entry = entry
      BY <1>2 DEF GateInv, WebType
    <3> QED  BY <3>1, <3>2, WebStateIs DEF WebState
  <2>2. [web[r] EXCEPT !.pc = pc, !.entry = entry] = [pc |-> pc, want |-> web[r].want, entry |-> entry]
    BY WebStateIs, WebStateReplaced, Zenon
  <2> QED  BY <2>1, <2>2
<1>7. PICK e : e = [pc |-> pc, want |-> web[r].want, entry |-> entry]
  OBVIOUS
<1>8. FileStep(r, e) /\ e.pc = pc /\ e.want = web[r].want /\ e.entry = entry
  <2>1. FileStep(r, e)
    BY <1>1, <1>4, <1>5, <1>6, <1>7, ServeSteps
  <2> QED  BY <1>7, <2>1
<1>9. \/ entry = www[web[r].want] /\ ~Recache(entry)
      \/ r \in unread /\ Recache(entry)
  BY <1>1, <1>2 DEF GateInv, CopiesStand
<1>10. GateTypeOK' /\ WebType'
  <2>1. \A q \in WebReqs : web'[q].pc = "locked" <=> wwwMu' = q
    BY <1>1, <1>4, <1>8 DEF GateInv, GateTypeOK, FileStep
  <2>2. www' \in [Docs -> EntryType] /\ unread' \subseteq WebReqs
    BY <1>1, EntryIs DEF GateInv, GateTypeOK
  <2>3. wwwMu' \in WebReqs \cup {NoWebReq}
    BY <1>1 DEF GateInv, WebType
  <2> QED  BY <1>8, <2>1, <2>2, <2>3, ServeTypes
<1>11. EntriesStand'
  BY <1>1 DEF GateInv, EntriesStand
<1>12. entry \in EntryType => entry.len \in Nat /\ entry.size \in Nat
  BY EntryNumbers
<1>13. entry.len \in Nat /\ entry.size \in Nat
  BY <1>5, <1>12 DEF NoEntry
<1>14. CopiesStand'
  <2>1. pc = "sent" => ~Recache(entry)
    BY <1>4, <1>13 DEF Recache
  <2>2. pc = "sent" => entry = www[web[r].want] /\ ~Recache(entry)
    BY <1>9, <2>1
  <2> SUFFICES ASSUME NEW q \in WebReqs
               PROVE  /\ web'[q].pc = "locked" => web'[q].entry = www[web'[q].want]
                      /\ web'[q].pc = "send" \/ (web'[q].pc = "sent" /\ web'[q].want \in Docs) =>
                             \/ web'[q].entry = www[web'[q].want] /\ ~Recache(web'[q].entry)
                             \/ web'[q].pc = "send" /\ q \in unread /\ Recache(web'[q].entry)
    BY <1>1 DEF CopiesStand, Recache
  <2>3. CASE q = r
    BY <1>4, <1>8, <2>2, <2>3 DEF FileStep
  <2>4. CASE q # r
    <3>1. web'[q] = web[q]
      BY <1>8, <2>4 DEF FileStep
    <3> QED  BY <3>1 DEF GateInv, CopiesStand
  <2> QED  BY <2>3, <2>4
<1>15. SmallDocsAreSent'
  <2>1. pc = "error" => r \in unread \/ scanned[web[r].want] >= CacheLimit
    <3> SUFFICES ASSUME pc = "error", r \notin unread PROVE scanned[web[r].want] >= CacheLimit
      OBVIOUS
    <3>1. entry = www[web[r].want] /\ ~Recache(entry) /\ entry.len # entry.size
      BY <1>4, <1>9
    <3>2. entry.len = 0 /\ entry.size = scanned[web[r].want]
      <4>1. entry = [size |-> scanned[web[r].want], len |-> 0, edition |-> 0]
        BY <1>1, <3>1, EntryIs
      <4> QED  BY <4>1
    <3> QED  BY <1>13, <3>1, <3>2, GateAssumption DEF Recache
  <2> QED  BY <1>1, <1>4, <1>8, <2>1 DEF GateInv, SmallDocsAreSent, FileStep
<1> QED  BY <1>10, <1>11, <1>14, <1>15 DEF GateInv

\* serveFile: an entry is written only while it is asked for, which a complete
\* one never is again.
LEMMA GateServes == ASSUME GateInv, NEW r \in WebReqs, ServeFile(r) PROVE GateInv'
BY GateLooks, GateLocks, GateReads, GateFails, GateHasRead, GateSends DEF ServeFile

LEMMA GateInvCorrect == GateSafety => []GateInv
<1>1. GateInv /\ [GateNext]_gateVars => GateInv'
  BY GateOutside, GateEdit, GateServes DEF GateNext
<1> QED  BY GateInitInv, <1>1, PTL DEF GateSafety

\* The handlers have the cache's lock one at a time and its entries keep their
\* bounds, however requests and edits come.
THEOREM GateTypeCorrect == GateSafety => []GateTypeOK
  BY GateInvCorrect, PTL DEF GateInv

\* All visitors get one edition of a file, for any number of requests that race
\* to read it and of edits meanwhile: what has been sent is still the entry.
THEOREM VisitorsGetOneEdition == GateSafety => []OneEdition
<1>1. GateInv => OneEdition
  BY DEF GateInv, CopiesStand, OneEdition
<1> QED  BY <1>1, GateInvCorrect, PTL

\* The two together, and that only a file which cannot be read, or was above the
\* limit when the server started, is answered with an error.
THEOREM VisitorsAreServed == GateSafety => []DocsAreServed
<1>1. GateInv => SmallDocsAreSent
  BY DEF GateInv
<1>2. GateTypeOK /\ OneEdition /\ SmallDocsAreSent => DocsAreServed
  BY DEF DocsAreServed
<1> QED  BY <1>1, <1>2, GateTypeCorrect, VisitorsGetOneEdition, GateInvCorrect, PTL

-----------------------------------------------------------------------------
(* LibHost.                                                                *)

\* A host that was not started has nothing; one that is done is closed.
HostsStarted == \A h \in Hosts :
    /\ up[h] = "none" => h \notin open /\ free[h] = {} /\ sending[h] = {}
    /\ up[h] = "done" => h \notin open

\* The globals are of the newest host, and only its session may be open.
Current ==
    /\ gSession # None => gSession \in open /\ up[gSession] = "up"
    /\ gService # None => gHost # None /\ mainPc = "idle"
    /\ mainPc = "waiting" => gHost # None /\ gSession = None
    /\ \A h \in open : h = gHost /\ (h = gSession \/ mainPc = "waiting")
    /\ gHost # None => up[gHost] # "none"

\* Every other host is done or lost.
Accounted == \A h \in Hosts :
    \/ up[h] \in {"none", "done"} \/ h \in lost
    \/ h = gHost /\ (gService # None \/ mainPc = "waiting")

Control == LibTypeOK /\ HostsStarted /\ Current /\ Accounted

\* The third thread waits on a session that was started; no host sends None.
Waiting ==
    /\ waitPc # "idle" => waitOn \in Hosts /\ up[waitOn] # "none"
    /\ \A h \in Hosts : None \notin sending[h]

\* The owners of the buffers of an open session.  Its buffers are the thread's
\* only after they were retained, and before a message is there.  A thread that
\* still waits on an older session has brought nothing into the pool, and what it
\* gets from that session is not being sent by this one.
Owners == \A h \in open :
    /\ mine # None /\ ~(waitPc = "wait" /\ waitOn = h) => mine \notin free[h] \cup sending[h]
    /\ free[h] \cap sending[h] = {}
    /\ waitPc # "idle" /\ waitOn # h =>
           free[h] = {} /\ sending[h] \cap (free[waitOn] \cup sending[waitOn]) = {}

LibInv == Control /\ Waiting /\ Owners

LEMMA LibInitInv == LibInit => LibInv
BY LibAssumption
   DEF LibInit, LibInv, Control, LibTypeOK, Slots, HostsStarted, Current, Accounted, Waiting, Owners

-----------------------------------------------------------------------------
\* The first thread and the host keep the control.
LEMMA MainControl ==
    ASSUME Control, NEW h \in Hosts,
           \/ SessionBegin(h) \/ SessionEnd \/ Shutdown \/ ShutdownReturns
           \/ TransportCloses(h) \/ HostDone(h)
    PROVE  Control'
<1> USE LibAssumption
    DEF Control, LibTypeOK, HostsStarted, Current, Accounted, globals, threads
<1>1. CASE SessionBegin(h)
  BY <1>1 DEF SessionBegin
<1>2. CASE SessionEnd
  BY <1>2 DEF SessionEnd
<1>3. CASE Shutdown
  BY <1>3 DEF Shutdown, Stopped
<1>4. CASE ShutdownReturns
  BY <1>4 DEF ShutdownReturns
<1>5. CASE TransportCloses(h)
  BY <1>5 DEF TransportCloses
<1>6. CASE HostDone(h)
  BY <1>6 DEF HostDone
<1> QED  BY <1>1, <1>2, <1>3, <1>4, <1>5, <1>6

\* The first thread and the host keep the buffers' owners: a session that
\* begins has no buffers yet.
LEMMA MainOwners ==
    ASSUME LibInv, NEW h \in Hosts,
           \/ SessionBegin(h) \/ SessionEnd \/ Shutdown \/ ShutdownReturns
           \/ TransportCloses(h) \/ HostDone(h)
    PROVE  Waiting' /\ Owners'
<1> USE LibAssumption
    DEF LibInv, Control, LibTypeOK, HostsStarted, Waiting, Owners, globals, threads
<1>1. CASE SessionBegin(h)
  BY <1>1 DEF SessionBegin
<1>2. CASE SessionEnd
  BY <1>2 DEF SessionEnd
<1>3. CASE Shutdown
  BY <1>3 DEF Shutdown, Stopped
<1>4. CASE ShutdownReturns
  BY <1>4 DEF ShutdownReturns
<1>5. CASE TransportCloses(h)
  BY <1>5 DEF TransportCloses
<1>6. CASE HostDone(h)
  BY <1>6 DEF HostDone
<1> QED  BY <1>1, <1>2, <1>3, <1>4, <1>5, <1>6

-----------------------------------------------------------------------------
\* The messages of the client touch no buffer.
LEMMA PushInv == ASSUME LibInv, Push \/ PushTaken \/ PushClosed PROVE LibInv'
BY LibAssumption
   DEF LibInv, Control, LibTypeOK, Slots, HostsStarted, Current, Accounted, Waiting, Owners,
       Push, PushTaken, PushClosed, PushReturns, mainVars, globals

\* The messages of the host.
LEMMA MessageControl ==
    ASSUME LibInv, NEW h \in Hosts,
           \/ Realloc \/ WaitOnMsg \/ Retain \/ Deliver \/ WaitClosed
           \/ SendTx(h) \/ SendClosed(h)
    PROVE  Control'
<1> USE LibAssumption
    DEF LibInv, Control, LibTypeOK, Waiting, HostsStarted, Current, Accounted, mainVars, globals
<1>1. CASE Realloc
  BY <1>1 DEF Realloc, Fresh
<1>2. CASE WaitOnMsg
  BY <1>2 DEF WaitOnMsg
<1>3. CASE Retain
  BY <1>3 DEF Retain, IsFull, Slots
<1>4. CASE Deliver
  BY <1>4 DEF Deliver, Slots
<1>5. CASE WaitClosed
  BY <1>5 DEF WaitClosed
<1>6. CASE SendTx(h)
  BY <1>6 DEF SendTx, Pool, Slots, Fresh
<1>7. CASE SendClosed(h)
  BY <1>7 DEF SendClosed, Slots
<1> QED  BY <1>1, <1>2, <1>3, <1>4, <1>5, <1>6, <1>7

LEMMA MessageOwners ==
    ASSUME LibInv, NEW h \in Hosts,
           \/ Realloc \/ WaitOnMsg \/ Retain \/ Deliver \/ WaitClosed
           \/ SendTx(h) \/ SendClosed(h)
    PROVE  Waiting' /\ Owners'
<1> USE LibAssumption
    DEF LibInv, Control, LibTypeOK, Waiting, Owners, mainVars, globals
<1>1. CASE Realloc
  BY <1>1 DEF Realloc, Fresh
<1>2. CASE WaitOnMsg
  \* The session that is waited on is the one that is open.
  BY <1>2 DEF WaitOnMsg, Current, HostsStarted
<1>3. CASE Retain
  BY <1>3 DEF Retain, IsFull
<1>4. CASE Deliver
  BY <1>4 DEF Deliver
<1>5. CASE WaitClosed
  BY <1>5 DEF WaitClosed
<1>6. CASE SendTx(h)
  BY <1>6 DEF SendTx, Pool, Fresh
<1>7. CASE SendClosed(h)
  BY <1>7 DEF SendClosed
<1> QED  BY <1>1, <1>2, <1>3, <1>4, <1>5, <1>6, <1>7

-----------------------------------------------------------------------------
LEMMA LibStep == LibInv /\ [LibNext]_libVars => LibInv'
<1> SUFFICES ASSUME LibInv, [LibNext]_libVars PROVE LibInv'
  OBVIOUS
<1>1. CASE UNCHANGED libVars
  BY <1>1 DEF libVars, LibInv, Control, LibTypeOK, HostsStarted, Current, Accounted, Waiting, Owners
<1>2. CASE \E h \in Hosts : SessionBegin(h) \/ TransportCloses(h) \/ HostDone(h)
  BY <1>2, MainControl, MainOwners DEF LibInv
<1>3. CASE \E h \in Hosts : SendTx(h) \/ SendClosed(h)
  BY <1>3, MessageControl, MessageOwners DEF LibInv
<1>4. CASE SessionEnd \/ Shutdown \/ ShutdownReturns
  <2>1. PICK h \in Hosts : TRUE
    BY <1>4, LibAssumption DEF SessionEnd, Shutdown, ShutdownReturns, LibInv, Control, LibTypeOK, Current
  <2> QED  BY <1>4, <2>1, MainControl, MainOwners DEF LibInv
<1>5. CASE Push \/ PushTaken \/ PushClosed
  BY <1>5, PushInv
<1>6. CASE Realloc \/ WaitOnMsg \/ Retain \/ Deliver \/ WaitClosed
  <2>1. PICK h \in Hosts : TRUE
    BY <1>6 DEF Realloc, WaitOnMsg, Retain, Deliver, WaitClosed, LibInv, Control, LibTypeOK, Waiting
  <2> QED  BY <1>6, <2>1, MessageControl, MessageOwners DEF LibInv
<1> QED  BY <1>1, <1>2, <1>3, <1>4, <1>5, <1>6 DEF LibNext

LEMMA LibInvCorrect == LibSafety => []LibInv
BY LibInitInv, LibStep, PTL DEF LibSafety

\* A pool has room for one buffer, and SendTx fills one at a time.
THEOREM LibTypeCorrect == LibSafety => []LibTypeOK
  BY LibInvCorrect, PTL DEF LibInv, Control

\* The host never writes to a buffer that the client of its open session works
\* with, also if the client still waits on a session that has been closed.
THEOREM BuffersHaveOneOwner == LibSafety => []OneOwner
<1>1. LibInv => OneOwner
  BY DEF LibInv, Owners, OneOwner
<1> QED  BY <1>1, LibInvCorrect, PTL

\* Call_Shutdown returns when the host is done; only a host that a new session
\* has replaced is left.
THEOREM ShutdownIsComplete == LibSafety => []ShutdownLeavesNone
<1>1. LibInv => ShutdownLeavesNone
  BY DEF LibInv, Control, Accounted, ShutdownLeavesNone
<1> QED  BY <1>1, LibInvCorrect, PTL

\* The three together: buffers and hosts of the C interface, for any number of
\* either, whatever calls of the client's threads race.
THEOREM BuffersAndHostsKept == LibSafety => []BuffersAndHosts
<1>1. LibTypeOK /\ OneOwner /\ ShutdownLeavesNone => BuffersAndHosts
  BY DEF BuffersAndHosts
<1> QED  BY <1>1, LibTypeCorrect, BuffersHaveOneOwner, ShutdownIsComplete, PTL
=============================================================================

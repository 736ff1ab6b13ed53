----------------------------- MODULE SpaceMount -----------------------------
(***************************************************************************)
(* The home space of a user who has more than one session, as after a      *)
(* client reconnects (homePlanet, mountSpace, launchPin and the closing of *)
(* a space in src/amp/apps/amp.app.space/app.spaces.db.go).  Each session  *)
(* has its own instance of the space app; the instances open the same      *)
(* database directory, which badger lets one of them have at a time.       *)
(* An app instance serves one request at a time; its closing, the spaces   *)
(* below it and their pins run beside it.                                  *)
(***************************************************************************)
EXTENDS Naturals

CONSTANTS
    Instances,    \* of the space app, one per session
    SpacePins,    \* in all spaces together
    NoInst

ASSUME MountAssumption == NoInst \notin Instances

VARIABLES
    app,          \* the context of each instance
    loop,         \* what its loop is doing
    planet,       \* plSess.ctx of its home space
    home,         \* appInst.home is set; it is never reset
    mounted,      \* appInst.plSess has the space
    table,        \* references of its symbol table
    issuer,       \* references of the table's issuer
    dir,          \* who has the database open
    leaked,       \* instances that have given up without closing it (history)
    pinOf,        \* the instance in whose space each pin runs
    blind         \* the pins that wait for a reader who will not come (history)

mountVars == <<app, loop, planet, home, mounted, table, issuer, dir, leaked, pinOf, blind>>
closeVars == <<table, issuer, dir>>
pinPlace == <<pinOf, blind>>

MountInit ==
    /\ app = [i \in Instances |-> "none"]
    /\ loop = [i \in Instances |-> "idle"]
    /\ planet = [i \in Instances |-> "none"]
    /\ home = {} /\ mounted = {} /\ leaked = {}
    /\ table = [i \in Instances |-> 0] /\ issuer = [i \in Instances |-> 0]
    /\ dir = NoInst
    /\ pinOf = [p \in SpacePins |-> NoInst] /\ blind = {}

Step(i, from, to) == loop[i] = from /\ loop' = [loop EXCEPT ![i] = to]

-----------------------------------------------------------------------------
(* A session logs in and its app starts; requests come and the app closes. *)

StartApp(i) ==
    /\ app[i] = "none" /\ app' = [app EXCEPT ![i] = "open"]
    /\ UNCHANGED <<loop, planet, home, mounted, closeVars, leaked, pinPlace>>

CloseApp(i) ==
    /\ app[i] = "open" /\ app' = [app EXCEPT ![i] = "closing"]
    /\ UNCHANGED <<loop, planet, home, mounted, closeVars, leaked, pinPlace>>

\* ServeRequest and homePlanet; the loop may take one more request while the
\* app closes.
Request(i) ==
    /\ app[i] \in {"open", "closing"}
    /\ Step(i, "idle", IF i \in home THEN "launch" ELSE "mount")
    /\ UNCHANGED <<app, planet, home, mounted, closeVars, leaked, pinPlace>>

\* The loop has left and nothing below the context is open.  The mutant does
\* not wait for the space.
MutantNothingBelow(i) == loop[i] = "idle"
NothingBelow(i) == loop[i] = "idle" /\ planet[i] \in {"none", "closed"}

AppClosed(i) ==
    /\ app[i] = "closing" /\ NothingBelow(i)
    /\ app' = [app EXCEPT ![i] = "closed"]
    /\ UNCHANGED <<loop, planet, home, mounted, closeVars, leaked, pinPlace>>

-----------------------------------------------------------------------------
(* mountSpace.                                                             *)

\* badger.Open: it fails if the directory is in use.
OpenDb(i) ==
    /\ loop[i] = "mount"
    /\ \/ /\ dir = NoInst /\ dir' = i /\ Step(i, "mount", "table")
       \/ dir # NoInst /\ Step(i, "mount", "idle") /\ UNCHANGED dir
    /\ UNCHANGED <<app, planet, home, mounted, table, issuer, leaked, pinPlace>>

\* CreateTable with a badger issuer; if it fails the database is closed.  The
\* mutant leaves it open.
MutantCreateTable(i) ==
    /\ \/ /\ Step(i, "table", "start")
          /\ table' = [table EXCEPT ![i] = 1] /\ issuer' = [issuer EXCEPT ![i] = 1]
       \/ Step(i, "table", "idle") /\ UNCHANGED <<table, issuer>>
    /\ UNCHANGED <<app, planet, home, mounted, dir, leaked, pinPlace>>
CreateTable(i) ==
    /\ \/ /\ Step(i, "table", "start")
          /\ table' = [table EXCEPT ![i] = 1] /\ issuer' = [issuer EXCEPT ![i] = 1]
          /\ UNCHANGED dir
       \/ Step(i, "table", "idle") /\ dir' = NoInst /\ UNCHANGED <<table, issuer>>
    /\ UNCHANGED <<app, planet, home, mounted, leaked, pinPlace>>

\* StartChild fails once the app closes; then nothing closes the database.
StartPlanet(i) ==
    /\ \/ /\ app[i] = "open" /\ Step(i, "start", "launch")
          /\ planet' = [planet EXCEPT ![i] = "open"]
          /\ home' = home \cup {i} /\ mounted' = mounted \cup {i}
          /\ UNCHANGED leaked
       \/ /\ app[i] = "closing" /\ Step(i, "start", "idle")
          /\ leaked' = leaked \cup {i} /\ UNCHANGED <<planet, home, mounted>>
    /\ UNCHANGED <<app, closeVars, pinPlace>>

\* getCell and launchPin: a pin starts below a cell of the space, or the
\* request fails because the space is closing.
LaunchPin(i) ==
    /\ Step(i, "launch", "idle")
    /\ \/ /\ planet[i] = "open"
          /\ \E p \in SpacePins : pinOf[p] = NoInst /\ pinOf' = [pinOf EXCEPT ![p] = i]
       \/ UNCHANGED pinOf
    /\ UNCHANGED <<app, planet, home, mounted, closeVars, leaked, blind>>

-----------------------------------------------------------------------------
(* The contexts below the app.                                             *)

PinEnds(p) ==
    /\ pinOf[p] # NoInst /\ p \notin blind /\ pinOf' = [pinOf EXCEPT ![p] = NoInst]
    /\ UNCHANGED <<app, loop, planet, home, mounted, closeVars, leaked, blind>>

\* A pin came to PushTx before its request had op.pin, and nothing will cancel
\* the request or read what it offers (AppAttr): it never ends.
PinGoesBlind(p) ==
    /\ pinOf[p] # NoInst /\ p \notin blind /\ blind' = blind \cup {p}
    /\ UNCHANGED <<app, loop, planet, home, mounted, closeVars, leaked, pinOf>>

PlanetCloses(i) ==
    /\ app[i] = "closing" /\ planet[i] = "open"
    /\ planet' = [planet EXCEPT ![i] = "closing"]
    /\ UNCHANGED <<app, loop, home, mounted, closeVars, leaked, pinPlace>>

\* OnClosed runs when every cell and pin of the space is closed; the mutant is
\* OnClosing.
MutantQuiet(i) == TRUE
Quiet(i) == \A p \in SpacePins : pinOf[p] # i

\* onPlanetClosed.  The mutant leaves the space in the map.
MutantUnmounted(i) == mounted
Unmounted(i) == mounted \ {i}

Unmount(i) ==
    /\ planet[i] = "closing" /\ Quiet(i)
    /\ planet' = [planet EXCEPT ![i] = "unmounted"] /\ mounted' = Unmounted(i)
    /\ UNCHANGED <<app, loop, home, closeVars, leaked, pinPlace>>

\* symTable.Close: the last reference of the table closes its issuer, whose
\* last reference closes the database.
CloseTable(i) ==
    /\ planet[i] = "unmounted" /\ planet' = [planet EXCEPT ![i] = "tableClosed"]
    /\ table' = [table EXCEPT ![i] = @ - 1]
    /\ issuer' = IF table[i] = 1 THEN [issuer EXCEPT ![i] = @ - 1] ELSE issuer
    /\ dir' = IF issuer'[i] = 0 /\ dir = i THEN NoInst ELSE dir
    /\ UNCHANGED <<app, loop, home, mounted, leaked, pinPlace>>

\* pl.db.Close does nothing to a database that is closed already.
CloseDb(i) ==
    /\ planet[i] = "tableClosed" /\ planet' = [planet EXCEPT ![i] = "closed"]
    /\ dir' = IF dir = i THEN NoInst ELSE dir
    /\ UNCHANGED <<app, loop, home, mounted, table, issuer, leaked, pinPlace>>

-----------------------------------------------------------------------------
Serve(i) == OpenDb(i) \/ CreateTable(i) \/ StartPlanet(i) \/ LaunchPin(i)
Closing(i) == AppClosed(i) \/ PlanetCloses(i) \/ Unmount(i) \/ CloseTable(i) \/ CloseDb(i)

MountNext ==
    \/ \E i \in Instances : \/ StartApp(i) \/ CloseApp(i) \/ Request(i)
                            \/ Serve(i) \/ Closing(i)
    \/ \E p \in SpacePins : PinEnds(p) \/ PinGoesBlind(p)

MountSafety == MountInit /\ [][MountNext]_mountVars

\* Goroutines run, and a pin whose space closes ends if it sees that
\* (SpaceCell): one that is blind does not.
MountFairness ==
    /\ \A i \in Instances : WF_mountVars(Serve(i)) /\ WF_mountVars(Closing(i))
    /\ \A p \in SpacePins : WF_mountVars(pinOf[p] # NoInst /\ planet[pinOf[p]] = "closing" /\ PinEnds(p))

MountSpec == MountSafety /\ MountFairness

-----------------------------------------------------------------------------
\* Each variable has its type, and the map has the spaces that are mounted.
MountTypeOK ==
    /\ app \in [Instances -> {"none", "open", "closing", "closed"}]
    /\ loop \in [Instances -> {"idle", "mount", "table", "start", "launch"}]
    /\ planet \in [Instances -> {"none", "open", "closing", "unmounted", "tableClosed", "closed"}]
    /\ mounted = {i \in Instances : planet[i] \in {"open", "closing"}}
    /\ home \subseteq Instances /\ mounted \subseteq home /\ leaked \subseteq Instances
    /\ table \in [Instances -> {0, 1}] /\ issuer \in [Instances -> {0, 1}]
    /\ dir \in Instances \cup {NoInst}
    /\ pinOf \in [SpacePins -> Instances \cup {NoInst}] /\ blind \subseteq SpacePins

\* A pin that runs has the open database of its own session, although spaces
\* are closed while requests are being served and other sessions mount theirs.
PinsHaveDb == \A p \in SpacePins : pinOf[p] # NoInst => dir = pinOf[p]

\* Whoever has the database open is an instance that has not closed yet, or one
\* whose app closed between the opening and the start of the space (the error
\* return of StartChild in mountSpace).
HolderIsLive == dir # NoInst => app[dir] \in {"open", "closing"} \/ dir \in leaked

\* Except in that case, a session that closes lets another one mount the space,
\* unless a blind pin keeps its space from closing.
DirReleased == \A i \in Instances :
    app[i] = "closing" ~> dir # i \/ i \in leaked \/ \E p \in blind : pinOf[p] = i

\* Whoever closes first, nothing is closed twice, a pin that runs has the open
\* database of its own session, and a database that is open has a session that
\* will close it, but for the error return of mountSpace.
SpacesHaveDb == MountTypeOK /\ PinsHaveDb /\ HolderIsLive
=============================================================================

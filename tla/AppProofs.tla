------------------------------ MODULE AppProofs ------------------------------
(***************************************************************************)
(* Proofs about apps.  SpaceCell: no update is lost between the snapshot   *)
(* of a pin and the changes that follow it.                                *)
(* SpaceMount, for any number of sessions and pins: a pin that runs has    *)
(* the database of its own session open, and the database directory is     *)
(* held by nobody who could not give it back, but for the error return of  *)
(* mountSpace.  SpotifySession, for any number of requests: a request is   *)
(* let through on a session that is logged in, with the exceptions that    *)
(* its properties name.  AppAttr, for any number of calls: a put writes    *)
(* twice at most, and the loop starts no request that has no pin.          *)
(* ShoutcastStream, for any metaint, any blocks and any sizes of reads:    *)
(* Read splits what the server sends into audio and titles.                *)
(***************************************************************************)
EXTENDS SpaceCell, SpaceMount, SpotifySession, AppAttr, ShoutcastStream, DataFacts,
        SequenceTheorems, TLAPS

-----------------------------------------------------------------------------
(* SpaceCell.                                                              *)

\* What a pin does, its request asks for.
Roles ==
    \A p \in Pins : /\ pc[p] \in {"push", "fast", "slow"} => p \in Committers
                    /\ pc[p] \in {"sync", "loop", "deliver"} => p \in Syncers

\* A pin has a change in hand exactly while it delivers it.
Holds == \A p \in Pins : IF pc[p] = "deliver" THEN hand[p] \in Committers
                                              ELSE hand[p] = NoPin

TypeInv == CellTypeOK /\ Roles /\ Holds

\* A pin in sync is listed from before it reads its snapshot.
Listed == \A p \in Syncers :
    pc[p] \in {"read", "answer", "loop", "deliver"} => p \in cellPins

SyncInv == TypeInv /\ Listed /\ NoLostUpdate

\* The values a sequence holds, after an Append and after a Tail.
LEMMA AppendElems ==
    ASSUME NEW S, NEW s \in Seq(S), NEW e \in S
    PROVE  /\ Append(s, e) \in Seq(S)
           /\ Len(Append(s, e)) = Len(s) + 1
           /\ \A i \in 1 .. Len(s) : Append(s, e)[i] = s[i]
           /\ Append(s, e)[Len(s) + 1] = e
  OBVIOUS

LEMMA TailElems ==
    ASSUME NEW S, NEW s \in Seq(S), s # <<>>
    PROVE  /\ Tail(s) \in Seq(S) /\ Head(s) \in S /\ Head(s) = s[1]
           /\ Len(s) \in Nat \ {0} /\ Len(Tail(s)) = Len(s) - 1
           /\ \A i \in 2 .. Len(s) : Tail(s)[i - 1] = s[i]
  OBVIOUS

\* A send keeps the channels within their type and capacity.
LEMMA SendType ==
    ASSUME CellTypeOK, NEW p \in Committers, NEW q \in Syncers, Room(q), Send(p, q)
    PROVE  /\ changes' \in [Pins -> Seq(Committers)]
           /\ \A x \in Pins : Len(changes'[x]) <= ChangesCap
<1>1. q \in Pins /\ changes[q] \in Seq(Committers) /\ Len(changes[q]) \in Nat
  BY SpaceCellAssumption DEF CellTypeOK
<1>2. /\ Append(changes[q], p) \in Seq(Committers)
      /\ Len(Append(changes[q], p)) = Len(changes[q]) + 1
  BY <1>1, AppendElems
<1> QED  BY <1>1, <1>2, SpaceCellAssumption DEF CellTypeOK, Room, Send

\* A step of a goroutine to a place its role allows.
LEMMA GotoType ==
    ASSUME TypeInv, NEW p \in Pins, NEW l, Goto(p, l),
           l \in {"push", "fast", "slow", "sync", "read", "answer", "loop",
                  "deliver", "end"},
           l \in {"push", "fast", "slow"} => p \in Committers,
           l \in {"sync", "loop", "deliver"} => p \in Syncers
    PROVE  /\ pc' \in [Pins -> {"new", "push", "fast", "slow", "sync", "read",
                                "answer", "loop", "deliver", "end"}]
           /\ Roles'
<1>1. pc' = [pc EXCEPT ![p] = l]
  BY DEF Goto
<1>2. pc \in [Pins -> {"new", "push", "fast", "slow", "sync", "read",
                       "answer", "loop", "deliver", "end"}]
  BY DEF TypeInv, CellTypeOK
<1>3. pc' \in [Pins -> {"new", "push", "fast", "slow", "sync", "read",
                        "answer", "loop", "deliver", "end"}]
  BY <1>1, <1>2
<1>4. ASSUME NEW x \in Pins
      PROVE  pc'[x] = IF x = p THEN l ELSE pc[x]
  BY <1>1, <1>2
<1> QED  BY <1>3, <1>4 DEF Roles, TypeInv

\* Every step preserves the types and the roles.
LEMMA TypeRolesStep ==
    ASSUME TypeInv, [CellNext]_cellVars
    PROVE  CellTypeOK' /\ Roles'
<1> DEFINE PcOK == pc' \in [Pins -> {"new", "push", "fast", "slow", "sync",
                                "read", "answer", "loop", "deliver", "end"}]
                   /\ Roles'
<1> USE SpaceCellAssumption
<1>0. CellTypeOK /\ Roles /\ Holds
  BY DEF TypeInv
<1>a. ASSUME UNCHANGED pc
      PROVE  PcOK
  BY <1>0, <1>a DEF CellTypeOK, Roles
<1>b. ASSUME NEW p \in Pins
      PROVE  /\ AfterCommit(p) \in {"sync", "read", "end"}
             /\ AfterCommit(p) = "sync" => p \in Syncers
  BY DEF AfterCommit
<1>1. ASSUME NEW p \in Pins, Commit(p)
      PROVE  CellTypeOK' /\ Roles'
  <2>1. PcOK
    BY <1>1, <1>b, GotoType DEF Commit
  <2>2. db' \in SUBSET Committers
    BY <1>0, <1>1 DEF Commit, CellTypeOK
  <2> QED  BY <1>0, <1>1, <2>1, <2>2 DEF CellTypeOK, Commit
<1>2. ASSUME NEW p \in Pins, CopyPins(p)
      PROVE  CellTypeOK' /\ Roles'
  <2>1. PcOK
    BY <1>0, <1>2, GotoType DEF CopyPins, Roles
  <2> QED  BY <1>0, <1>2, <2>1 DEF CellTypeOK, CopyPins
<1>3. ASSUME NEW p \in Pins, FastPush(p)
      PROVE  CellTypeOK' /\ Roles'
  <2>1. p \in Committers
    BY <1>0, <1>3 DEF FastPush, Roles
  <2>2. PcOK
    BY <1>3, <1>a, <2>1, GotoType DEF FastPush
  <2>3. ASSUME NEW q \in todo[p], Room(q), Send(p, q), UNCHANGED missed,
               todo' = [todo EXCEPT ![p] = @ \ {q}]
        PROVE  CellTypeOK' /\ Roles'
    <3>1. q \in Syncers
      BY <1>0, <2>3 DEF CellTypeOK
    <3> QED  BY <1>0, <1>3, <2>1, <2>2, <2>3, <3>1, SendType
             DEF CellTypeOK, FastPush
  <2>4. CASE UNCHANGED changes
    <3>1. CASE UNCHANGED <<todo, missed>>
      BY <1>0, <1>3, <2>2, <2>4, <3>1 DEF CellTypeOK, FastPush
    <3>2. ASSUME NEW q \in todo[p], todo' = [todo EXCEPT ![p] = @ \ {q}],
                 missed' = [missed EXCEPT ![p] = @ \cup {q}]
          PROVE  CellTypeOK' /\ Roles'
      <4>1. q \in Syncers
        BY <1>0, <3>2 DEF CellTypeOK
      <4> QED  BY <1>0, <1>3, <2>2, <2>4, <3>2, <4>1
               DEF CellTypeOK, FastPush
    <3> QED  BY <1>3, <2>3, <3>1, <3>2 DEF FastPush
  <2> QED  BY <1>3, <2>3, <2>4 DEF FastPush
<1>4. ASSUME NEW p \in Pins, SlowNext(p)
      PROVE  CellTypeOK' /\ Roles'
  <2>1. PcOK
    BY <1>4, <1>a, <1>b, GotoType DEF SlowNext
  <2>2. /\ blockedOn' \in [Pins -> Syncers \cup {NoPin}]
        /\ missed' \in [Pins -> SUBSET Syncers]
    <3>1. CASE UNCHANGED <<blockedOn, missed>>
      BY <1>0, <3>1 DEF CellTypeOK
    <3>2. ASSUME NEW q \in missed[p],
                 blockedOn' = [blockedOn EXCEPT ![p] = q],
                 missed' = [missed EXCEPT ![p] = @ \ {q}]
          PROVE  /\ blockedOn' \in [Pins -> Syncers \cup {NoPin}]
                 /\ missed' \in [Pins -> SUBSET Syncers]
      <4>1. q \in Syncers
        BY <1>0, <3>2 DEF CellTypeOK
      <4> QED  BY <1>0, <3>2, <4>1 DEF CellTypeOK
    <3> QED  BY <1>4, <3>1, <3>2 DEF SlowNext
  <2> QED  BY <1>0, <1>4, <2>1, <2>2 DEF CellTypeOK, SlowNext
<1>5. ASSUME NEW p \in Pins, SlowPush(p)
      PROVE  CellTypeOK' /\ Roles'
  <2>1. p \in Committers /\ blockedOn[p] \in Syncers
    BY <1>0, <1>5 DEF SlowPush, CellTypeOK, Roles
  <2>2. PcOK
    BY <1>5, <1>a DEF SlowPush
  <2>3. /\ changes' \in [Pins -> Seq(Committers)]
        /\ \A x \in Pins : Len(changes'[x]) <= ChangesCap
    BY <1>0, <1>5, <2>1, SendType DEF SlowPush, CellTypeOK
  <2> QED  BY <1>0, <1>5, <2>2, <2>3 DEF CellTypeOK, SlowPush
<1>6. ASSUME NEW p \in Pins, AddSync(p) \/ ReadSnapshot(p)
      PROVE  CellTypeOK' /\ Roles'
  <2>1. PcOK
    BY <1>6, GotoType DEF AddSync, ReadSnapshot
  <2>2. cellPins' \in SUBSET Syncers
    BY <1>0, <1>6 DEF CellTypeOK, Roles, AddSync, ReadSnapshot
  <2> QED  BY <1>0, <1>6, <2>1, <2>2, ZenonT(60) DEF CellTypeOK, AddSync, ReadSnapshot
<1>7. ASSUME NEW p \in Pins, PushSnapshot(p)
      PROVE  CellTypeOK' /\ Roles'
  <2>1. PcOK
    BY <1>7, GotoType DEF PushSnapshot
  <2>2. seen' \in [Pins -> SUBSET Committers]
    <3>1. CASE UNCHANGED seen
      BY <1>0, <3>1 DEF CellTypeOK
    <3>2. CASE seen' = [seen EXCEPT ![p] = @ \cup snap[p]]
      <4>1. seen[p] \cup snap[p] \in SUBSET Committers
        BY <1>0 DEF CellTypeOK
      <4> QED  BY <1>0, <3>2, <4>1 DEF CellTypeOK
    <3> QED  BY <1>7, <3>1, <3>2 DEF PushSnapshot
  <2> QED  BY <1>0, <1>7, <2>1, <2>2 DEF CellTypeOK, PushSnapshot
<1>8. ASSUME NEW p \in Pins, ReceiveChange(p)
      PROVE  CellTypeOK' /\ Roles'
  <2>1. /\ changes[p] \in Seq(Committers) /\ changes[p] # <<>>
        /\ Len(changes[p]) <= ChangesCap
    BY <1>0, <1>8 DEF CellTypeOK, ReceiveChange
  <2>2. /\ Tail(changes[p]) \in Seq(Committers)
        /\ Head(changes[p]) \in Committers
        /\ Len(Tail(changes[p])) <= ChangesCap
    BY <2>1, TailElems
  <2>3. PcOK
    BY <1>0, <1>8, GotoType DEF ReceiveChange, Roles
  <2> QED  BY <1>0, <1>8, <2>2, <2>3 DEF CellTypeOK, ReceiveChange
<1>9. ASSUME NEW p \in Pins, Deliver(p)
      PROVE  CellTypeOK' /\ Roles'
  <2>1. PcOK
    BY <1>0, <1>9, GotoType DEF Deliver, Roles
  <2>2. seen' \in [Pins -> SUBSET Committers]
    <3>1. CASE UNCHANGED seen
      BY <1>0, <3>1 DEF CellTypeOK
    <3>2. CASE seen' = [seen EXCEPT ![p] = @ \cup {hand[p]}]
      <4>1. seen[p] \cup {hand[p]} \in SUBSET Committers
        BY <1>0, <1>9 DEF CellTypeOK, Holds, Deliver
      <4> QED  BY <1>0, <3>2, <4>1 DEF CellTypeOK
    <3> QED  BY <1>9, <3>1, <3>2 DEF Deliver
  <2> QED  BY <1>0, <1>9, <2>1, <2>2 DEF CellTypeOK, Deliver
<1>10. ASSUME NEW p \in Pins, LeaveLoop(p)
       PROVE  CellTypeOK' /\ Roles'
  <2>1. PcOK
    BY <1>10, GotoType DEF LeaveLoop
  <2> QED  BY <1>0, <1>10, <2>1 DEF CellTypeOK, LeaveLoop
<1>11. ASSUME NEW p \in Pins, ClosePin(p)
       PROVE  CellTypeOK' /\ Roles'
  <2>1. PcOK
    BY <1>11, <1>a DEF ClosePin
  <2> QED  BY <1>0, <1>11, <2>1 DEF CellTypeOK, ClosePin
<1>12. CASE UNCHANGED cellVars
  BY <1>0, <1>12 DEF CellTypeOK, Roles, cellVars
<1> QED
  BY <1>1, <1>2, <1>3, <1>4, <1>5, <1>6, <1>7, <1>8, <1>9, <1>10, <1>11, <1>12
     DEF CellNext, PinStep, PushToClient

\* Every step preserves what is in the hand of a pin.
LEMMA HoldsStep ==
    ASSUME TypeInv, [CellNext]_cellVars
    PROVE  Holds'
<1>0. CellTypeOK /\ Holds
  BY DEF TypeInv
<1>1. ASSUME NEW p \in Pins, NEW l, Goto(p, l), l # "deliver", UNCHANGED hand,
             pc[p] # "deliver"
      PROVE  Holds'
  BY <1>0, <1>1 DEF CellTypeOK, Holds, Goto
<1>2. CASE UNCHANGED <<pc, hand>>
  BY <1>0, <1>2 DEF Holds
<1>3. ASSUME NEW p \in Pins, AfterCommit(p) = "deliver"
      PROVE  FALSE
  BY <1>3 DEF AfterCommit
<1>4. ASSUME NEW p \in Pins,
             \/ Commit(p) \/ CopyPins(p) \/ FastPush(p) \/ SlowNext(p)
             \/ SlowPush(p) \/ AddSync(p) \/ ReadSnapshot(p) \/ PushSnapshot(p)
             \/ LeaveLoop(p) \/ ClosePin(p)
      PROVE  Holds'
  <2>1. UNCHANGED hand
    BY <1>4 DEF Commit, CopyPins, FastPush, SlowNext, SlowPush, AddSync,
                ReadSnapshot, PushSnapshot, LeaveLoop, ClosePin
  <2>2. UNCHANGED pc \/ \E l : Goto(p, l) /\ l # "deliver" /\ pc[p] # "deliver"
    BY <1>3, <1>4 DEF Commit, CopyPins, FastPush, SlowNext, SlowPush, AddSync,
                      ReadSnapshot, PushSnapshot, LeaveLoop, ClosePin
  <2> QED  BY <1>1, <1>2, <2>1, <2>2
<1>5. ASSUME NEW p \in Pins, ReceiveChange(p)
      PROVE  Holds'
  <2>1. /\ changes[p] \in Seq(Committers) /\ changes[p] # <<>>
    BY <1>0, <1>5 DEF CellTypeOK, ReceiveChange
  <2>2. Head(changes[p]) \in Committers
    BY <2>1, TailElems
  <2> QED  BY <1>0, <1>5, <2>2 DEF CellTypeOK, Holds, ReceiveChange, Goto
<1>6. ASSUME NEW p \in Pins, Deliver(p)
      PROVE  Holds'
  BY <1>0, <1>6 DEF CellTypeOK, Holds, Deliver, Goto
<1>7. CASE UNCHANGED cellVars
  BY <1>2, <1>7 DEF cellVars
<1> QED  BY <1>4, <1>5, <1>6, <1>7 DEF CellNext, PinStep, PushToClient

LEMMA TypeStep ==
    ASSUME TypeInv, [CellNext]_cellVars
    PROVE  TypeInv'
  BY TypeRolesStep, HoldsStep DEF TypeInv

\* The state of a cell and its pins always has its type; no channel overflows
\* and only pins that maintain sync are listed.
THEOREM CellTypeCorrect == CellSafetySpec => []CellTypeOK
<1>1. CellInit => TypeInv
  <2> SUFFICES ASSUME CellInit PROVE TypeInv
    OBVIOUS
  <2>1. <<>> \in Seq(Committers) /\ Len(<<>>) = 0
    OBVIOUS
  <2> QED  BY <2>1, SpaceCellAssumption DEF CellInit, TypeInv, CellTypeOK, Roles, Holds
<1>2. TypeInv /\ [CellNext]_cellVars => TypeInv'
  BY TypeStep
<1>3. TypeInv => CellTypeOK
  BY DEF TypeInv
<1> QED  BY <1>1, <1>2, <1>3, PTL DEF CellSafetySpec

-----------------------------------------------------------------------------
(* NoLostUpdate                                                            *)

\* NoLostUpdate for one pin and one transaction.
Served(c, p) ==
    \/ c \in seen[p] \cup Queued(p) \cup {hand[p]}
    \/ pc[p] = "answer" /\ c \in snap[p]
    \/ OnTheWay(c, p)

InSyncNow(p) == pc[p] \in {"answer", "loop", "deliver"} /\ p \notin closing

LEMMA ServedAll ==
    NoLostUpdate <=> \A p \in Syncers : \A c \in db : InSyncNow(p) => Served(c, p)
  BY DEF NoLostUpdate, InSyncNow, Served

\* A send adds its transaction to one channel.
LEMMA SendQueued ==
    ASSUME CellTypeOK, NEW x \in Committers, NEW q \in Syncers, Send(x, q)
    PROVE  /\ x \in Queued(q)'
           /\ \A p \in Pins : Queued(p) \subseteq Queued(p)'
<1>1. q \in Pins /\ changes[q] \in Seq(Committers) /\ Len(changes[q]) \in Nat
  BY SpaceCellAssumption DEF CellTypeOK
<1>2. /\ changes'[q] = Append(changes[q], x)
      /\ \A p \in Pins \ {q} : changes'[p] = changes[p]
  BY <1>1 DEF CellTypeOK, Send
<1>3. /\ Len(changes'[q]) = Len(changes[q]) + 1
      /\ \A i \in 1 .. Len(changes[q]) : changes'[q][i] = changes[q][i]
      /\ changes'[q][Len(changes[q]) + 1] = x
  BY <1>1, <1>2, AppendElems, SpaceCellAssumption
<1>4. x \in Queued(q)' /\ Queued(q) \subseteq Queued(q)'
  BY <1>1, <1>3 DEF Queued
<1>5. \A p \in Pins \ {q} : Queued(p)' = Queued(p)
  BY <1>2 DEF Queued
<1> QED  BY <1>4, <1>5

\* A receive moves the head of the channel into the pin's hand.
LEMMA ReceiveQueued ==
    ASSUME CellTypeOK, NEW x \in Pins, ReceiveChange(x)
    PROVE  \A p \in Pins : Queued(p) \cup {hand[p]}
                              \subseteq Queued(p)' \cup {hand'[p], hand[p]}
<1>1. changes[x] \in Seq(Committers) /\ changes[x] # <<>>
  BY DEF CellTypeOK, ReceiveChange
<1>2. /\ changes'[x] = Tail(changes[x]) /\ hand'[x] = Head(changes[x])
      /\ \A p \in Pins \ {x} : changes'[p] = changes[p]
  BY DEF CellTypeOK, ReceiveChange
<1>3. /\ Head(changes[x]) = changes[x][1]
      /\ Len(changes[x]) \in Nat \ {0}
      /\ Len(Tail(changes[x])) = Len(changes[x]) - 1
      /\ \A i \in 2 .. Len(changes[x]) : Tail(changes[x])[i - 1] = changes[x][i]
  BY <1>1, TailElems
<1>4. ASSUME NEW i \in 1 .. Len(changes[x])
      PROVE  changes[x][i] \in Queued(x)' \cup {hand'[x]}
  <2>1. CASE i = 1
    BY <1>2, <1>3, <2>1
  <2>2. CASE i # 1
    <3>1. i - 1 \in 1 .. Len(changes'[x]) /\ changes'[x][i - 1] = changes[x][i]
      BY <1>2, <1>3, <2>2
    <3> QED  BY <3>1 DEF Queued
  <2> QED  BY <2>1, <2>2
<1>5. Queued(x) \subseteq Queued(x)' \cup {hand'[x]}
  BY <1>4 DEF Queued
<1>6. \A p \in Pins \ {x} : Queued(p)' = Queued(p)
  BY <1>2 DEF Queued
<1> QED  BY <1>5, <1>6

\* A pin enters the list before it reads, and nothing takes it out.
LEMMA ListedStep ==
    ASSUME TypeInv, Listed, [CellNext]_cellVars
    PROVE  Listed'
<1>0. CellTypeOK /\ Roles
  BY DEF TypeInv
<1>1. ASSUME NEW x \in Pins, NEW l, Goto(x, l), cellPins \subseteq cellPins',
             x \in Syncers => x \in cellPins'
      PROVE  Listed'
  BY <1>0, <1>1 DEF CellTypeOK, Listed, Goto
<1>2. ASSUME NEW x \in Pins, NEW l, Goto(x, l), UNCHANGED cellPins,
             l \notin {"read", "answer", "loop", "deliver"}
      PROVE  Listed'
  BY <1>0, <1>2 DEF CellTypeOK, Listed, Goto
<1>3. CASE UNCHANGED <<pc, cellPins>>
  BY <1>3 DEF Listed
<1>4. ASSUME NEW x \in Pins, Goto(x, AfterCommit(x)), UNCHANGED cellPins
      PROVE  Listed'
  <2>1. CASE x \in Syncers
    <3>1. AfterCommit(x) = "sync"
      BY <2>1, SpaceCellAssumption DEF AfterCommit
    <3> QED  BY <1>2, <1>4, <3>1
  <2>2. CASE x \notin Syncers /\ x \in Onces
    BY <1>1, <1>4, <2>2
  <2>3. CASE x \notin Syncers \cup Onces
    BY <1>2, <1>4, <2>3 DEF AfterCommit
  <2> QED  BY <2>1, <2>2, <2>3
<1>5. ASSUME NEW x \in Pins, Commit(x)
      PROVE  Listed'
  BY <1>2, <1>4, <1>5 DEF Commit
<1>6. ASSUME NEW x \in Pins, CopyPins(x) \/ FastPush(x) \/ SlowPush(x)
                             \/ LeaveLoop(x) \/ ClosePin(x)
      PROVE  Listed'
  BY <1>2, <1>3, <1>6 DEF CopyPins, FastPush, SlowPush, LeaveLoop, ClosePin
<1>7. ASSUME NEW x \in Pins, SlowNext(x)
      PROVE  Listed'
  BY <1>3, <1>4, <1>7 DEF SlowNext
<1>8. ASSUME NEW x \in Pins, AddSync(x)
      PROVE  Listed'
  BY <1>1, <1>8 DEF AddSync
<1>9. ASSUME NEW x \in Pins, ReadSnapshot(x) \/ ReceiveChange(x)
      PROVE  Listed'
  BY <1>0, <1>1, <1>9 DEF ReadSnapshot, ReceiveChange, Listed, Roles
<1>10. ASSUME NEW x \in Pins, PushSnapshot(x)
       PROVE  Listed'
  <2>1. x \in Syncers => x \in cellPins
    BY <1>10 DEF PushSnapshot, Listed
  <2> QED  BY <1>1, <1>2, <1>10, <2>1 DEF PushSnapshot
<1>11. ASSUME NEW x \in Pins, Deliver(x)
       PROVE  Listed'
  <2>1. x \in Syncers => x \in cellPins
    BY <1>11 DEF Deliver, Listed
  <2> QED  BY <1>1, <1>2, <1>11, <2>1 DEF Deliver
<1>12. CASE UNCHANGED cellVars
  BY <1>3, <1>12 DEF cellVars
<1> QED
  BY <1>5, <1>6, <1>7, <1>8, <1>9, <1>10, <1>11, <1>12 DEF CellNext, PinStep, PushToClient

\* Every step keeps every transaction of the database served.
LEMMA ServedStep ==
    ASSUME SyncInv, [CellNext]_cellVars
    PROVE  NoLostUpdate'
<1> USE SpaceCellAssumption
<1>0. CellTypeOK /\ Roles /\ Holds /\ Listed
  BY DEF SyncInv, TypeInv
<1> SUFFICES ASSUME NEW p \in Syncers, NEW c \in db', InSyncNow(p)'
             PROVE  Served(c, p)'
  BY DEF NoLostUpdate, InSyncNow, Served
<1>1. p \in Pins /\ (c \in db /\ InSyncNow(p) => Served(c, p))
  BY ServedAll DEF SyncInv
<1>a. ASSUME UNCHANGED changes
      PROVE  Queued(p)' = Queued(p)
  BY <1>a DEF Queued
<1>2. ASSUME NEW x \in Pins, Commit(x)
      PROVE  Served(c, p)'
  <2>1. UNCHANGED <<changes, seen, hand, snap, todo, missed, blockedOn, closing>>
    BY <1>2 DEF Commit
  <2>2. p # x => pc'[p] = pc[p]
    BY <1>0, <1>1, <1>2 DEF Commit, Goto, CellTypeOK
  <2>3. p # x
    <3>1. pc'[x] \in {"push", "end"} \/ pc'[x] = AfterCommit(x)
      BY <1>0, <1>2 DEF Commit, Goto, CellTypeOK
    <3> QED  BY <3>1 DEF InSyncNow, AfterCommit
  <2>4. CASE c \in db
    <3>1. Served(c, p)
      BY <1>1, <2>1, <2>2, <2>3, <2>4 DEF InSyncNow
    <3>2. OnTheWay(c, p) => OnTheWay(c, p)'
      <4>1. OnTheWay(c, p) => c # x
        BY <1>2 DEF OnTheWay, Commit
      <4>2. c # x => pc'[c] = pc[c]
        BY <1>0, <1>2, <2>4 DEF Commit, Goto, CellTypeOK
      <4> QED  BY <2>1, <4>1, <4>2 DEF OnTheWay
    <3> QED  BY <1>a, <2>1, <2>2, <2>3, <3>1, <3>2 DEF Served
  <2>5. CASE c \notin db
    <3>1. c = x /\ pc'[x] = "push"
      BY <1>0, <1>2, <2>5 DEF Commit, Goto, CellTypeOK
    <3> QED  BY <3>1 DEF Served, OnTheWay
  <2> QED  BY <2>4, <2>5
<1>3. ASSUME NEW x \in Pins, CopyPins(x)
      PROVE  Served(c, p)'
  <2>1. /\ UNCHANGED <<db, changes, seen, hand, snap, missed, blockedOn, closing>>
        /\ x # p /\ pc'[p] = pc[p] /\ (c # x => pc'[c] = pc[c] /\ todo'[c] = todo[c])
        /\ pc'[x] = "fast" /\ todo'[x] = cellPins
    BY <1>0, <1>1, <1>3 DEF CopyPins, Goto, CellTypeOK, InSyncNow
  <2>2. Served(c, p) /\ p \in cellPins
    BY <1>0, <1>1, <2>1 DEF InSyncNow, Listed
  <2>3. OnTheWay(c, p) => OnTheWay(c, p)'
    BY <2>1, <2>2 DEF OnTheWay
  <2> QED  BY <1>a, <2>1, <2>2, <2>3 DEF Served
<1>4. ASSUME NEW x \in Pins, FastPush(x)
      PROVE  Served(c, p)'
  <2>1. /\ UNCHANGED <<db, seen, hand, snap, blockedOn, closing>>
        /\ x # p /\ pc'[p] = pc[p]
        /\ c # x => pc'[c] = pc[c] /\ todo'[c] = todo[c] /\ missed'[c] = missed[c]
        /\ x \in Committers
    BY <1>0, <1>1, <1>4 DEF FastPush, Goto, CellTypeOK, InSyncNow, Roles
  <2>2. Served(c, p)
    BY <1>1, <2>1 DEF InSyncNow
  <2>3. CASE todo[x] = {} /\ Goto(x, "slow") /\ UNCHANGED <<todo, missed, changes>>
    <3>1. OnTheWay(c, p) => OnTheWay(c, p)'
      BY <1>0, <1>4, <2>1, <2>3 DEF OnTheWay, FastPush, Goto, CellTypeOK
    <3> QED  BY <1>a, <2>1, <2>2, <2>3, <3>1 DEF Served
  <2>4. ASSUME NEW q \in todo[x], Send(x, q), UNCHANGED <<missed, pc>>,
               todo' = [todo EXCEPT ![x] = @ \ {q}]
        PROVE  Served(c, p)'
    <3>1. x \in Queued(q)' /\ Queued(p) \subseteq Queued(p)'
      BY <1>0, <1>1, <2>1, <2>4, SendQueued DEF CellTypeOK
    <3>2. OnTheWay(c, p) => OnTheWay(c, p)' \/ (c = x /\ p = q)
      BY <1>0, <2>1, <2>4 DEF OnTheWay, CellTypeOK
    <3> QED  BY <2>1, <2>2, <2>4, <3>1, <3>2 DEF Served
  <2>5. ASSUME NEW q \in todo[x], UNCHANGED <<changes, pc>>,
               todo' = [todo EXCEPT ![x] = @ \ {q}],
               missed' = [missed EXCEPT ![x] = @ \cup {q}]
        PROVE  Served(c, p)'
    <3>1. OnTheWay(c, p) => OnTheWay(c, p)'
      BY <1>0, <2>1, <2>5 DEF OnTheWay, CellTypeOK
    <3> QED  BY <1>a, <2>1, <2>2, <2>5, <3>1 DEF Served
  <2> QED  BY <1>4, <2>3, <2>4, <2>5 DEF FastPush
<1>5. ASSUME NEW x \in Pins, SlowNext(x)
      PROVE  Served(c, p)'
  <2>1. /\ UNCHANGED <<db, changes, seen, hand, snap, todo, closing>>
        /\ x # p => pc'[p] = pc[p]
        /\ c # x => pc'[c] = pc[c] /\ blockedOn'[c] = blockedOn[c]
                    /\ missed'[c] = missed[c]
    BY <1>0, <1>1, <1>5 DEF SlowNext, Goto, CellTypeOK
  <2>2. x # p
    <3>1. pc'[x] \in {"slow"} \/ pc'[x] = AfterCommit(x)
      BY <1>0, <1>5 DEF SlowNext, Goto, CellTypeOK
    <3> QED  BY <3>1 DEF InSyncNow, AfterCommit
  <2>3. Served(c, p)
    BY <1>1, <2>1, <2>2 DEF InSyncNow
  <2>4. OnTheWay(c, p) => OnTheWay(c, p)'
    <3>1. CASE c # x
      BY <2>1, <3>1 DEF OnTheWay
    <3>2. CASE c = x /\ missed[x] = {}
      BY <1>1, <1>5, <3>2, SpaceCellAssumption DEF OnTheWay, SlowNext
    <3>3. ASSUME c = x, NEW q \in missed[x], UNCHANGED pc,
                 blockedOn' = [blockedOn EXCEPT ![x] = q],
                 missed' = [missed EXCEPT ![x] = @ \ {q}]
          PROVE  OnTheWay(c, p) => OnTheWay(c, p)'
      BY <1>0, <1>1, <1>5, <2>1, <3>3 DEF OnTheWay, SlowNext, CellTypeOK
    <3> QED  BY <1>5, <3>1, <3>2, <3>3 DEF SlowNext
  <2> QED  BY <1>a, <2>1, <2>2, <2>3, <2>4 DEF Served
<1>6. ASSUME NEW x \in Pins, SlowPush(x)
      PROVE  Served(c, p)'
  <2>1. /\ UNCHANGED <<db, seen, hand, snap, todo, missed, pc, closing>>
        /\ c # x => blockedOn'[c] = blockedOn[c]
        /\ x \in Committers /\ blockedOn[x] \in Syncers
    BY <1>0, <1>1, <1>6 DEF SlowPush, CellTypeOK, Roles
  <2>2. Served(c, p)
    BY <1>1, <2>1 DEF InSyncNow
  <2>3. OnTheWay(c, p) => OnTheWay(c, p)' \/ (c = x /\ blockedOn[x] = p)
    BY <2>1 DEF OnTheWay
  <2>4. ASSUME NEW q \in Syncers, q = blockedOn[x], Send(x, q)
        PROVE  Served(c, p)'
    <3>1. x \in Queued(q)' /\ Queued(p) \subseteq Queued(p)'
      BY <1>0, <1>1, <2>1, <2>4, SendQueued
    <3> QED  BY <2>1, <2>2, <2>3, <2>4, <3>1 DEF Served
  <2>5. CASE GaveUp(blockedOn[x]) /\ UNCHANGED changes
    <3>1. blockedOn[x] # p
      BY <2>1, <2>5 DEF GaveUp, InSyncNow
    <3> QED  BY <1>a, <2>1, <2>2, <2>3, <2>5, <3>1 DEF Served
  <2> QED  BY <1>6, <2>1, <2>4, <2>5 DEF SlowPush
\* A step of p's goroutine to or between the places where it is in sync.
<1>7. ASSUME NEW x \in Pins, NEW l, Goto(x, l), pc[x] \notin {"push", "fast", "slow"},
             UNCHANGED <<db, changes, todo, missed, blockedOn, closing>>
      PROVE  /\ x # p => pc'[p] = pc[p]
             /\ x = p => pc'[p] = l
             /\ Queued(p)' = Queued(p)
             /\ OnTheWay(c, p) => OnTheWay(c, p)'
  <2>1. c # x => pc'[c] = pc[c]
    BY <1>0, <1>7 DEF Goto, CellTypeOK
  <2> QED  BY <1>0, <1>1, <1>7, <1>a, <2>1 DEF Goto, CellTypeOK, OnTheWay
<1>8. ASSUME NEW x \in Pins, AddSync(x)
      PROVE  Served(c, p)'
  <2>1. x # p /\ UNCHANGED <<db, closing, seen, hand, snap>>
    BY <1>0, <1>8 DEF AddSync, Goto, CellTypeOK, InSyncNow
  <2> QED  BY <1>1, <1>7, <1>8, <2>1 DEF AddSync, Served, InSyncNow
<1>9. ASSUME NEW x \in Pins, ReadSnapshot(x)
      PROVE  Served(c, p)'
  <2>1. CASE x = p
    BY <1>0, <1>7, <1>9, <2>1 DEF ReadSnapshot, Served, CellTypeOK
  <2>2. CASE x # p
    BY <1>0, <1>1, <1>7, <1>9, <2>2 DEF ReadSnapshot, Served, InSyncNow, CellTypeOK
  <2> QED  BY <2>1, <2>2
<1>10. ASSUME NEW x \in Pins, PushSnapshot(x)
       PROVE  Served(c, p)'
  <2>1. CASE x = p
    <3>1. Served(c, p) /\ pc[p] = "answer"
      BY <1>1, <1>10, <2>1 DEF PushSnapshot, InSyncNow
    <3>2. seen'[p] = seen[p] \cup snap[p]
      BY <1>0, <1>10, <2>1 DEF PushSnapshot, InSyncNow, CellTypeOK, Goto
    <3> QED  BY <1>7, <1>10, <2>1, <3>1, <3>2 DEF PushSnapshot, Served
  <2>2. CASE x # p
    <3>1. UNCHANGED <<db, closing, hand, snap>> /\ seen'[p] = seen[p]
      BY <1>0, <1>1, <1>10, <2>2 DEF PushSnapshot, CellTypeOK
    <3> QED  BY <1>1, <1>7, <1>10, <2>2, <3>1 DEF PushSnapshot, Served, InSyncNow
  <2> QED  BY <2>1, <2>2
<1>11. ASSUME NEW x \in Pins, ReceiveChange(x)
       PROVE  Served(c, p)'
  <2>1. /\ UNCHANGED <<db, seen, snap, todo, missed, blockedOn, closing>>
        /\ \A y \in Pins : pc'[y] = IF y = x THEN "deliver" ELSE pc[y]
        /\ pc[x] = "loop"
    BY <1>0, <1>11 DEF ReceiveChange, Goto, CellTypeOK
  <2>2. Served(c, p)
    BY <1>1, <2>1 DEF InSyncNow
  <2>3. Queued(p) \cup {hand[p]} \subseteq Queued(p)' \cup {hand'[p], hand[p]}
    BY <1>0, <1>1, <1>11, ReceiveQueued
  <2>4. hand'[p] = hand[p] \/ (x = p /\ hand[p] = NoPin)
    BY <1>0, <1>1, <1>11, <2>1 DEF ReceiveChange, Holds, CellTypeOK
  <2>5. OnTheWay(c, p) => OnTheWay(c, p)'
    BY <1>0, <2>1 DEF OnTheWay, CellTypeOK
  <2> QED  BY <1>0, <2>1, <2>2, <2>3, <2>4, <2>5 DEF Served, CellTypeOK
<1>12. ASSUME NEW x \in Pins, Deliver(x)
       PROVE  Served(c, p)'
  <2>1. CASE x = p
    <3>1. Served(c, p) /\ pc[p] = "deliver"
      BY <1>1, <1>12, <2>1 DEF Deliver, InSyncNow
    <3>2. seen'[p] = seen[p] \cup {hand[p]}
      BY <1>0, <1>12, <2>1 DEF Deliver, InSyncNow, CellTypeOK, Goto
    <3> QED  BY <1>7, <1>12, <2>1, <3>1, <3>2 DEF Deliver, Served
  <2>2. CASE x # p
    <3>1. UNCHANGED <<db, closing, snap>> /\ seen'[p] = seen[p]
          /\ hand'[p] = hand[p]
      BY <1>0, <1>1, <1>12, <2>2 DEF Deliver, CellTypeOK
    <3> QED  BY <1>1, <1>7, <1>12, <2>2, <3>1 DEF Deliver, Served, InSyncNow
  <2> QED  BY <2>1, <2>2
<1>13. ASSUME NEW x \in Pins, LeaveLoop(x)
       PROVE  Served(c, p)'
  <2>1. x # p
    BY <1>0, <1>13 DEF LeaveLoop, Goto, CellTypeOK, InSyncNow
  <2> QED  BY <1>1, <1>7, <1>13, <2>1 DEF LeaveLoop, Served, InSyncNow
<1>14. ASSUME NEW x \in Pins, ClosePin(x)
       PROVE  Served(c, p)'
  BY <1>1, <1>14, <1>a DEF ClosePin, Served, InSyncNow, OnTheWay
<1>15. CASE UNCHANGED cellVars
  BY <1>1, <1>15, <1>a DEF cellVars, Served, InSyncNow, OnTheWay
<1> QED
  BY <1>2, <1>3, <1>4, <1>5, <1>6, <1>8, <1>9, <1>10, <1>11, <1>12, <1>13,
     <1>14, <1>15 DEF CellNext, PinStep, PushToClient

\* Whatever the interleaving of commits with the addSync, the snapshot and
\* the loop of a pin, the pin misses no transaction.
THEOREM NoUpdateLost == CellSafetySpec => []NoLostUpdate
<1>1. CellInit => SyncInv
  <2> SUFFICES ASSUME CellInit PROVE SyncInv
    OBVIOUS
  <2>1. <<>> \in Seq(Committers) /\ Len(<<>>) = 0
    OBVIOUS
  <2>2. TypeInv
    BY <2>1, SpaceCellAssumption DEF CellInit, TypeInv, CellTypeOK, Roles, Holds
  <2>3. Listed /\ NoLostUpdate
    BY SpaceCellAssumption DEF CellInit, Listed, NoLostUpdate
  <2> QED  BY <2>2, <2>3 DEF SyncInv
<1>2. SyncInv /\ [CellNext]_cellVars => SyncInv'
  BY TypeStep, ListedStep, ServedStep DEF SyncInv
<1>3. SyncInv => NoLostUpdate
  BY DEF SyncInv
<1> QED  BY <1>1, <1>2, <1>3, PTL DEF CellSafetySpec

-----------------------------------------------------------------------------
(* SpaceMount.                                                             *)

Mounting == {"table", "start"}
HasDb == {"open", "closing", "unmounted"}

\* An instance mounts its space once, while its app is there.
Lifecycle == \A i \in Instances :
    /\ i \in home <=> planet[i] # "none"
    /\ loop[i] \in {"mount"} \cup Mounting => planet[i] = "none"
    /\ loop[i] = "launch" => i \in home
    /\ app[i] = "none" => loop[i] = "idle" /\ planet[i] = "none"
    /\ app[i] = "closed" => loop[i] = "idle" /\ planet[i] \in {"none", "closed"}
    /\ planet[i] \notin {"none", "open"} => app[i] # "open"

\* Who has the directory is on its way to a space, has one, or has given up;
\* and nobody else is.
Holder == \A i \in Instances :
    dir = i <=> loop[i] \in Mounting \/ planet[i] \in HasDb \/ i \in leaked

\* The references of the table and of its issuer go with the space.
References == \A i \in Instances :
    /\ planet[i] \in HasDb => table[i] = 1 /\ issuer[i] = 1
    /\ i \in leaked => planet[i] = "none" /\ loop[i] \in {"idle", "mount"}
    /\ loop[i] = "start" => table[i] = 1 /\ issuer[i] = 1

\* A pin runs in a space that is mounted.
PinsMounted == \A p \in SpacePins : pinOf[p] # NoInst => planet[pinOf[p]] \in {"open", "closing"}

MountInv == MountTypeOK /\ Lifecycle /\ Holder /\ References /\ PinsMounted

LEMMA MountInitInv == MountInit => MountInv
BY MountAssumption
   DEF MountInit, MountInv, MountTypeOK, Lifecycle, Holder, References, PinsMounted,
       Mounting, HasDb

\* An app starts, closes and is asked for something.
LEMMA AppStep ==
    ASSUME MountInv, NEW i \in Instances,
           StartApp(i) \/ CloseApp(i) \/ Request(i) \/ AppClosed(i)
    PROVE  MountInv'
<1> USE MountAssumption
    DEF MountInv, MountTypeOK, Lifecycle, Holder, References, PinsMounted, Mounting, HasDb
<1>1. CASE StartApp(i)
  BY <1>1 DEF StartApp, closeVars, pinPlace
<1>2. CASE CloseApp(i)
  BY <1>2 DEF CloseApp, closeVars, pinPlace
<1>3. CASE Request(i)
  BY <1>3 DEF Request, Step, closeVars, pinPlace
<1>4. CASE AppClosed(i)
  BY <1>4 DEF AppClosed, NothingBelow, closeVars, pinPlace
<1> QED  BY <1>1, <1>2, <1>3, <1>4

\* mountSpace and launchPin, in the app's loop.
LEMMA ServeStep ==
    ASSUME MountInv, NEW i \in Instances, Serve(i)
    PROVE  MountInv'
<1> USE MountAssumption
    DEF MountInv, MountTypeOK, Lifecycle, Holder, References, PinsMounted, Mounting, HasDb
<1>1. CASE OpenDb(i)
  BY <1>1 DEF OpenDb, Step, pinPlace
<1>2. CASE CreateTable(i)
  BY <1>2 DEF CreateTable, Step, pinPlace
<1>3. CASE StartPlanet(i)
  BY <1>3 DEF StartPlanet, Step, closeVars, pinPlace
<1>4. CASE LaunchPin(i)
  BY <1>4, SMTT(60) DEF LaunchPin, Step, closeVars
<1> QED  BY <1>1, <1>2, <1>3, <1>4 DEF Serve

\* The contexts below the app close.
LEMMA ClosingStep ==
    ASSUME MountInv, NEW i \in Instances,
           PlanetCloses(i) \/ Unmount(i) \/ CloseTable(i) \/ CloseDb(i)
    PROVE  MountInv'
<1> USE MountAssumption
    DEF MountInv, MountTypeOK, Lifecycle, Holder, References, PinsMounted, Mounting, HasDb
<1>1. CASE PlanetCloses(i)
  BY <1>1 DEF PlanetCloses, closeVars, pinPlace
<1>2. CASE Unmount(i)
  \* No pin is left in the space.
  BY <1>2 DEF Unmount, Unmounted, Quiet, closeVars, pinPlace
<1>3. CASE CloseTable(i)
  \* The table has its only reference, and so has the issuer: the database is
  \* closed here.
  BY <1>3 DEF CloseTable, pinPlace
<1>4. CASE CloseDb(i)
  BY <1>4 DEF CloseDb, pinPlace
<1> QED  BY <1>1, <1>2, <1>3, <1>4

LEMMA MountStep == MountInv /\ [MountNext]_mountVars => MountInv'
<1> SUFFICES ASSUME MountInv, [MountNext]_mountVars PROVE MountInv'
  OBVIOUS
<1>1. ASSUME NEW p \in SpacePins, PinEnds(p) \/ PinGoesBlind(p) PROVE MountInv'
  BY <1>1, MountAssumption DEF PinEnds, PinGoesBlind, closeVars, MountInv, MountTypeOK, Lifecycle, Holder, References,
     PinsMounted, Mounting, HasDb
<1>2. CASE UNCHANGED mountVars
  BY <1>2 DEF mountVars, MountInv, MountTypeOK, Lifecycle, Holder, References,
     PinsMounted, Mounting, HasDb
<1> QED  BY <1>1, <1>2, AppStep, ServeStep, ClosingStep DEF MountNext, Closing

LEMMA MountInvCorrect == MountSafety => []MountInv
BY MountInitInv, MountStep, PTL DEF MountSafety

\* The map of mounted spaces is the spaces that are open or closing, and no
\* table or issuer is closed twice.
THEOREM MountTypeCorrect == MountSafety => []MountTypeOK
  BY MountInvCorrect, PTL DEF MountInv

\* A pin never works on a closed database, nor on another session's.
THEOREM PinsHaveTheirDb == MountSafety => []PinsHaveDb
<1>1. MountInv => PinsHaveDb
  BY DEF MountInv, MountTypeOK, Holder, PinsMounted, PinsHaveDb, HasDb
<1> QED  BY <1>1, MountInvCorrect, PTL

\* The directory is held by a session that is there, except after an error
\* return of mountSpace.
THEOREM HolderIsThere == MountSafety => []HolderIsLive
<1>1. MountInv => HolderIsLive
  BY MountAssumption DEF MountInv, MountTypeOK, Lifecycle, Holder, HolderIsLive, HasDb, Mounting
<1> QED  BY <1>1, MountInvCorrect, PTL

\* The three together: for any number of sessions of one user, spaces, tables
\* and the database are opened and closed in step.
THEOREM SpacesKeepDb == MountSafety => []SpacesHaveDb
<1>1. MountTypeOK /\ PinsHaveDb /\ HolderIsLive => SpacesHaveDb
  BY DEF SpacesHaveDb
<1> QED  BY <1>1, MountTypeCorrect, PinsHaveTheirDb, HolderIsThere, PTL

-----------------------------------------------------------------------------
(* SpotifySession.                                                         *)

\* The loop has a request exactly while it works on one.
LoopHasReq == spotLoop.pc \in {"idle", "left"} <=> spotLoop.req = NoSpotReq

\* A session that is not logged in has just been started, or its login has
\* failed; a request about to signal has one, unless endSession has run.
LoginFollows ==
    /\ respot = "started" => failedLogin \/ spotLoop.pc = "login"
    /\ spotLoop.pc = "signal" /\ spotApp = "open" => respot # "none"

\* endSession runs once the app closes; what it leaves behind was started late.
EndsOnce ==
    /\ spotApp # "closing" => ending = 0
    /\ spotApp # "open" /\ ending = 0 => respot = "none" \/ lateStart
    /\ spotApp = "closed" => spotLoop.pc = "left"

\* The parts of the type invariant that the loop's steps are about, and the rest.
LoopType ==
    /\ spotReq \in [SpotReqs -> {"new", "queued", "serving", "served", "failed"}]
    /\ spotLoop \in [pc : {"idle", "exchange", "connect", "user", "respot", "login", "signal",
                           "ask", "wait", "forgotten", "panicked", "left"},
                    req : SpotReqs \cup {NoSpotReq}]
    /\ \A r \in SpotReqs : spotReq[r] = "serving" <=> spotLoop.req = r
    /\ LoopHasReq
DataType ==
    /\ path \in [SpotReqs -> {"browse", "auth"}] /\ spotApp \in {"open", "closing", "closed"}
    /\ token \in BOOLEAN /\ storedToken \in BOOLEAN /\ client \in BOOLEAN /\ ready \in BOOLEAN
    /\ failedLogin \in BOOLEAN /\ lateStart \in BOOLEAN
    /\ respot \in {"none", "started", "loggedIn"} /\ ending \in 0 .. 2

SpotInv == LoopType /\ DataType /\ LoginFollows /\ EndsOnce /\ ReadyIsLoggedIn

LEMMA SpotTypeParts == LoopType /\ DataType => SpotTypeOK
BY DEF LoopType, DataType, SpotTypeOK

LEMMA SpotInitInv == SpotInit => SpotInv
<1>1. SpotInit => LoopType
  BY SpotAssumption DEF SpotInit, LoopType, LoopHasReq, Resting
<1>2. SpotInit => DataType
  <2>1. SpotInit => ending \in 0 .. 2
    BY SMT DEF SpotInit
  <2> QED  BY <2>1, Zenon DEF SpotInit, DataType
<1>3. SpotInit => LoginFollows /\ EndsOnce /\ ReadyIsLoggedIn
  BY DEF SpotInit, LoginFollows, EndsOnce, ReadyIsLoggedIn, Resting
<1> QED  BY <1>1, <1>2, <1>3, SpotTypeParts DEF SpotInv

\* Where the loop goes on to with a request.
LoopAims == {"connect", "user", "respot", "login", "signal", "ask", "wait", "forgotten", "panicked"}

\* The loop goes on with its request, or is done with it.
LEMMA LoopMoves ==
    ASSUME LoopType, NEW r \in SpotReqs, spotLoop.req = r,
           \/ \E to \in LoopAims : Go(to)
           \/ \E outcome \in {"served", "failed"} : Finish(r, outcome)
    PROVE  LoopType'
<1> USE SpotAssumption DEF LoopType, LoopHasReq, LoopAims
<1>1. ASSUME NEW to \in LoopAims, Go(to)
      PROVE  LoopType'
  BY <1>1 DEF Go
<1>2. ASSUME NEW outcome \in {"served", "failed"}, Finish(r, outcome)
      PROVE  LoopType'
  BY <1>2 DEF Finish, Resting
<1> QED  BY <1>1, <1>2

\* Every step keeps the types, and one request at most in the loop.
LEMMA SpotTypeStep ==
    ASSUME LoopType, DataType, [SpotNext]_spotVars
    PROVE  LoopType' /\ DataType'
<1> USE DEF tokens, session, history
<1>1. ASSUME NEW r \in SpotReqs, SendReq(r) PROVE LoopType' /\ DataType'
  BY <1>1 DEF SendReq, LoopType, LoopHasReq, DataType
<1>2. ASSUME NEW r \in SpotReqs, MakeReady(r) PROVE LoopType' /\ DataType'
  <2>1. LoopType'
    BY <1>2, SpotAssumption DEF MakeReady, LoopType, LoopHasReq, Resting, DataType
  <2> QED  BY <1>2, <2>1 DEF MakeReady, DataType
<1>3. ASSUME NEW r \in SpotReqs,
             \/ Exchange(r) \/ AwaitingAuth(r) \/ CurrentUser(r) \/ StartRespot(r) \/ Login(r)
             \/ Signal(r) \/ WaitForSession(r) \/ ClientAsked(r)
      PROVE  LoopType' /\ DataType'
  <2>1. LoopType'
    BY <1>3, LoopMoves
       DEF Exchange, AwaitingAuth, CurrentUser, StartRespot, AfterStart, Login, Signal,
           WaitForSession, ClientAsked, At, LoopAims
  <2>2. DataType'
    BY <1>3, ZenonT(120)
       DEF DataType, Exchange, PutToken, AwaitingAuth, CurrentUser, StartRespot, Login, Signal,
           WaitForSession, ClientAsked
  <2> QED  BY <2>1, <2>2
<1>4. CASE CloseSpotApp \/ EndSession \/ SpotAppClosed \/ UNCHANGED spotVars
  <2>1. UNCHANGED <<path, spotReq, spotLoop, token, storedToken, ready, failedLogin, lateStart>>
    BY <1>4 DEF CloseSpotApp, EndSession, SpotAppClosed, spotVars
  <2>2. /\ spotApp' \in {"open", "closing", "closed"} /\ ending' \in 0 .. 2
        /\ respot' \in {respot, "none"}
    BY <1>4 DEF CloseSpotApp, EndSession, RespotClosed, SpotAppClosed, spotVars, DataType
  <2>3. client' \in BOOLEAN
    BY <1>4 DEF CloseSpotApp, EndSession, SpotAppClosed, spotVars, DataType
  <2> QED  BY <2>1, <2>2, <2>3 DEF LoopType, LoopHasReq, DataType
<1>5. CASE SpotLoopLeaves
  BY <1>5 DEF SpotLoopLeaves, Go, Resting, LoopType, LoopHasReq, DataType
<1> QED  BY <1>1, <1>2, <1>3, <1>4, <1>5 DEF SpotNext, SpotLoop, TryConnect

\* Every step keeps the session what the loop and the app take it for.
LEMMA SpotStep ==
    ASSUME SpotInv, [SpotNext]_spotVars
    PROVE  LoginFollows' /\ EndsOnce' /\ ReadyIsLoggedIn'
<1> USE SpotAssumption
    DEF SpotInv, LoopType, LoopHasReq, DataType, LoginFollows, EndsOnce, ReadyIsLoggedIn,
        tokens, session, history, Resting, At, Go, Finish
<1>1. ASSUME NEW r \in SpotReqs, SendReq(r) \/ MakeReady(r)
      PROVE  LoginFollows' /\ EndsOnce' /\ ReadyIsLoggedIn'
  BY <1>1 DEF SendReq, MakeReady
<1>2. ASSUME NEW r \in SpotReqs, Exchange(r) \/ AwaitingAuth(r) \/ CurrentUser(r)
      PROVE  LoginFollows' /\ EndsOnce' /\ ReadyIsLoggedIn'
  \* Nothing of the session changes, and the loop stays short of it.
  <2>1. /\ UNCHANGED <<respot, ready, spotApp, ending, failedLogin, lateStart>>
        /\ spotLoop.pc \in {"exchange", "connect", "user"}
        /\ spotLoop'.pc \notin {"login", "signal", "left"}
    <3>1. CASE Exchange(r)
      BY <3>1 DEF Exchange
    <3>2. CASE AwaitingAuth(r)
      BY <3>2 DEF AwaitingAuth
    <3>3. CASE CurrentUser(r)
      BY <3>3 DEF CurrentUser
    <3> QED  BY <1>2, <3>1, <3>2, <3>3
  <2> QED  BY <2>1
<1>3. ASSUME NEW r \in SpotReqs, StartRespot(r) \/ Login(r)
      PROVE  LoginFollows' /\ EndsOnce' /\ ReadyIsLoggedIn'
  \* Nobody but the loop, which is here, could have left a session that is
  \* started and not logged in.
  <2>1. CASE StartRespot(r)
    <3>1. spotApp # "open" => lateStart' \/ (respot' = respot /\ lateStart' = lateStart)
      BY <2>1 DEF StartRespot
    <3>2. /\ spotLoop'.pc = "signal" => respot # "none" /\ respot' = respot
          /\ respot' = "started" => respot = "started" \/ spotLoop'.pc = "login"
          /\ UNCHANGED <<spotApp, ready, ending, failedLogin>> /\ spotLoop.pc = "respot"
          /\ respot = "loggedIn" => respot' = "loggedIn"
      BY <2>1 DEF StartRespot, AfterStart
    <3> QED  BY <3>1, <3>2
  <2>2. CASE Login(r)
    BY <1>3, <2>2 DEF Login
  <2> QED  BY <1>3, <2>1, <2>2
<1>4. ASSUME NEW r \in SpotReqs, Signal(r) \/ WaitForSession(r) \/ ClientAsked(r)
      PROVE  LoginFollows' /\ EndsOnce' /\ ReadyIsLoggedIn'
  BY <1>4 DEF Signal, WaitForSession, ClientAsked
<1>5. CASE CloseSpotApp \/ EndSession \/ SpotLoopLeaves \/ SpotAppClosed
  BY <1>5 DEF CloseSpotApp, EndSession, RespotClosed, SpotLoopLeaves, SpotAppClosed
<1>6. CASE UNCHANGED spotVars
  BY <1>6 DEF spotVars
<1> QED  BY <1>1, <1>2, <1>3, <1>4, <1>5, <1>6 DEF SpotNext, SpotLoop, TryConnect

LEMMA SpotInvCorrect == SpotSafety => []SpotInv
<1>1. SpotInv /\ [SpotNext]_spotVars => SpotInv'
  BY SpotTypeStep, SpotStep DEF SpotInv
<1> QED  BY SpotInitInv, <1>1, PTL DEF SpotSafety

\* While the app is open a request is let through on a session that is logged
\* in, in every order of sign-ins, failed exchanges and retries, as long as no
\* login has failed.
THEOREM LetThroughOnLogin == SpotSafety => []ReadyIsLoggedIn
  BY SpotInvCorrect, PTL DEF SpotInv

\* An app that is closed has no session, but one which the loop started after
\* the app began to close: endSession takes no lock.
THEOREM NoneLeftBehind == SpotSafety => []NoSessionBehind
<1>1. SpotInv => NoSessionBehind
  BY DEF SpotInv, EndsOnce, NoSessionBehind
<1> QED  BY <1>1, SpotInvCorrect, PTL

\* The two together, with the types, for any number of requests.
THEOREM SpotifySessionsReal == SpotSafety => []SessionsAreReal
<1>1. SpotInv => SpotTypeOK
  BY SpotTypeParts DEF SpotInv
<1>2. SpotTypeOK /\ ReadyIsLoggedIn /\ NoSessionBehind => SessionsAreReal
  BY DEF SessionsAreReal
<1> QED  BY <1>1, <1>2, LetThroughOnLogin, NoneLeftBehind, SpotInvCorrect, PTL

-----------------------------------------------------------------------------
(* AppAttr.                                                                *)

\* The loop has a call exactly while it serves one.
LoopHasCall == spaceLoop.pc \in {"idle", "left"} <=> spaceLoop.call = NoCall

\* A call goes through the inbox once, waits while the loop has it, and only
\* goes on when its request has started.
CallOnce == \A c \in AttrCalls :
    /\ callPc[c] \in {"new", "send"} => c \notin queued /\ spaceLoop.call # c
    /\ callPc[c] \in {"new", "send"} \/ c \in queued => c \notin assigned
    /\ c \in queued => callPc[c] = "wait" /\ spaceLoop.call # c
    /\ spaceLoop.call = c => callPc[c] = "wait" /\ c \notin started
    /\ c \in assigned => c \in started \/ spaceLoop = [pc |-> "start", call |-> c]
    /\ spaceLoop = [pc |-> "start", call |-> c] => c \in assigned
    /\ callPc[c] \notin {"new", "send", "wait"} => c \in started

\* A request that was refused is nowhere any more.
RefusedIsGone == \A c \in refused :
    callPc[c] = "wait" /\ c \notin queued /\ c \notin assigned /\ spaceLoop.call # c

\* Each of the two pins of a put commits once, whether that fails or not, and a
\* pin is launched once.
PinWrites == \A c \in AttrCalls :
    /\ c \notin assigned /\ spaceLoop # [pc |-> "assign", call |-> c] => pinPc[c] = "none"
    /\ callPc[c] \notin Ended => again[c] = "none"
    /\ writes[c] + fails[c] =
                   (IF kind[c] = "put" /\ pinPc[c] = "ran" THEN 1 ELSE 0)
                   + (IF again[c] = "ran" THEN 1 ELSE 0)
    /\ kind[c] = "get" => pinPc[c] # "commit" /\ again[c] = "none" /\ callPc[c] # "again"
    /\ kind[c] = "put" => pinPc[c] \notin {"snapshot", "push"} /\ callPc[c] # "read"

AttrInv == AttrTypeOK /\ LoopHasCall /\ CallOnce /\ RefusedIsGone /\ PinWrites

\* What the steps leave alone, besides the types.
AttrParts == LoopHasCall /\ CallOnce /\ RefusedIsGone /\ PinWrites

LEMMA AttrInitInv == AttrInit => AttrInv
BY AttrAssumption
   DEF AttrInit, LoopIdle, AttrInv, AttrTypeOK, LoopHasCall, CallOnce, RefusedIsGone, PinWrites, Ended

\* Every step keeps the types: it changes a call at a time.
LEMMA AttrTypeStep ==
    ASSUME AttrInv, [AttrNext]_attrVars
    PROVE  AttrTypeOK'
<1> USE AttrAssumption
    DEF AttrInv, AttrTypeOK, Ended, CallGoes, CloseAttrPin, loopVars, pinVars, LoopIdle
<1>1. ASSUME NEW c \in AttrCalls, Begin(c) \/ SendToApp(c) \/ WaitOnReady(c) PROVE AttrTypeOK'
  BY <1>1 DEF Begin, SendToApp, WaitOnReady
<1>2. ASSUME NEW c \in AttrCalls, Take(c) \/ GiveUp(c) \/ ServeAgain(c) PROVE AttrTypeOK'
  BY <1>2 DEF Take, Offers, GiveUp, ServeAgain
<1>3. ASSUME NEW c \in AttrCalls, LoopSteps(c) PROVE AttrTypeOK'
  BY <1>3 DEF LoopSteps, ServeAttr, LaunchAttrPin, Assign, Start, LoopHasCall, CallOnce
<1>4. ASSUME NEW c \in AttrCalls, CommitPin(c) \/ CommitAgain(c) PROVE AttrTypeOK'
  <2>1. writes[c] \in {0, 1} /\ fails[c] \in {0, 1}
    BY <1>4 DEF CommitPin, Commits, CommitAgain, PinWrites
  <2> QED  BY <1>4, <2>1 DEF CommitPin, CommitAgain, CommitTx
<1>5. ASSUME NEW c \in AttrCalls, PushTx(c) \/ PushEnds(c) PROVE AttrTypeOK'
  BY <1>5 DEF PushTx, PushEnds
<1>6. ASSUME NEW c \in AttrCalls, ContextSteps(c) \/ IdleClose(c) PROVE AttrTypeOK'
  BY <1>6 DEF ContextSteps, CloseWithSpace, PinClosed, IdleClose
<1>7. CASE LoopLeaves \/ CloseSpace \/ SpaceClosed \/ UNCHANGED attrVars
  BY <1>7 DEF LoopLeaves, CloseSpace, SpaceClosed, attrVars
<1> QED
  BY <1>1, <1>2, <1>3, <1>4, <1>5, <1>6, <1>7 DEF AttrNext, CallSteps, PinSteps

\* Every step keeps a call in one place and its pins' commits counted.
LEMMA AttrStep ==
    ASSUME AttrInv, [AttrNext]_attrVars
    PROVE  AttrParts'
<1> USE AttrAssumption
    DEF AttrInv, AttrTypeOK, AttrParts, LoopHasCall, CallOnce, RefusedIsGone, PinWrites, Ended,
        CallGoes, loopVars, pinVars, LoopIdle
<1>1. ASSUME NEW c \in AttrCalls, Begin(c) \/ SendToApp(c) PROVE AttrParts'
  BY <1>1 DEF Begin, SendToApp
<1>2. ASSUME NEW c \in AttrCalls, WaitOnReady(c) PROVE AttrParts'
  BY <1>2 DEF WaitOnReady
<1>3. ASSUME NEW c \in AttrCalls, Take(c) \/ GiveUp(c) PROVE AttrParts'
  BY <1>3 DEF Take, Offers, GiveUp
<1>4. ASSUME NEW c \in AttrCalls, ServeAgain(c) PROVE AttrParts'
  BY <1>4 DEF ServeAgain
<1>5. ASSUME NEW c \in AttrCalls, ServeAttr(c) PROVE AttrParts'
  BY <1>5 DEF ServeAttr
<1>6. ASSUME NEW c \in AttrCalls, LaunchAttrPin(c) PROVE AttrParts'
  <2>0. /\ spaceLoop = [pc |-> "serve", call |-> c] /\ callPc[c] = "wait"
        /\ c \notin started /\ c \notin assigned /\ c \notin queued /\ pinPc[c] = "none"
        /\ UNCHANGED <<kind, callPc, queued, assigned, started, again, writes, fails>>
    BY <1>6 DEF LaunchAttrPin
  <2>1. CASE /\ spaceLoop' = [spaceLoop EXCEPT !.pc = "assign"]
             /\ pinPc' = [pinPc EXCEPT ![c] = IF kind[c] = "put" THEN "commit" ELSE "snapshot"]
             /\ UNCHANGED refused
    <3>1. spaceLoop' = [pc |-> "assign", call |-> c]
      BY <2>0, <2>1
    <3>2. LoopHasCall' /\ CallOnce' /\ RefusedIsGone'
      BY <2>0, <2>1, <3>1
    <3>3. /\ pinPc'[c] = (IF kind[c] = "put" THEN "commit" ELSE "snapshot")
          /\ \A d \in AttrCalls : d # c => pinPc'[d] = pinPc[d]
      BY <2>1
    <3>4. PinWrites'
      <4>1. \A d \in AttrCalls :
                /\ kind[d] = "put" => pinPc'[d] \notin {"snapshot", "push"}
                /\ kind[d] = "get" => pinPc'[d] # "commit"
                /\ pinPc'[d] = "ran" <=> pinPc[d] = "ran"
        BY <2>0, <3>3, ZenonT(120)
      <4>2. \A d \in AttrCalls : d \notin assigned /\ d # c => pinPc'[d] = "none"
        <5>1. \A d \in AttrCalls : spaceLoop # [pc |-> "assign", call |-> d]
          BY <2>0
        <5>2. \A d \in AttrCalls : d \notin assigned => pinPc[d] = "none"
          BY <5>1
        <5> QED  BY <5>2, <3>3
      <4> QED  BY <2>0, <3>1, <4>1, <4>2, ZenonT(60)
    <3> QED  BY <3>2, <3>4
  <2>2. CASE spaceLoop' = LoopIdle /\ refused' = refused \cup {c} /\ UNCHANGED pinPc
    <3>1. LoopHasCall' /\ CallOnce' /\ RefusedIsGone'
      BY <2>0, <2>2
    <3>2. PinWrites'
      BY <2>0, <2>2, ZenonT(60)
    <3> QED  BY <3>1, <3>2
  <2> QED  BY <1>6, <2>1, <2>2 DEF LaunchAttrPin
<1>7. ASSUME NEW c \in AttrCalls, Assign(c) \/ Start(c) PROVE AttrParts'
  BY <1>7 DEF Assign, Start
<1>8. ASSUME NEW c \in AttrCalls, CommitPin(c) PROVE AttrParts'
  BY <1>8 DEF CommitPin, Commits, CommitTx
<1>9. ASSUME NEW c \in AttrCalls, CommitAgain(c) PROVE AttrParts'
  BY <1>9 DEF CommitAgain, CommitTx
<1>10. ASSUME NEW c \in AttrCalls, PushTx(c) \/ PushEnds(c) PROVE AttrParts'
  BY <1>10 DEF PushTx, PushEnds, Offers
<1>11. ASSUME NEW c \in AttrCalls, ContextSteps(c) \/ IdleClose(c) PROVE AttrParts'
  BY <1>11 DEF ContextSteps, CloseWithSpace, PinClosed, IdleClose
<1>12. CASE LoopLeaves \/ CloseSpace \/ SpaceClosed \/ UNCHANGED attrVars
  BY <1>12 DEF LoopLeaves, CloseSpace, SpaceClosed, attrVars
<1> QED
  BY <1>1, <1>2, <1>3, <1>4, <1>5, <1>6, <1>7, <1>8, <1>9, <1>10, <1>11, <1>12
     DEF AttrNext, CallSteps, LoopSteps, PinSteps

LEMMA AttrInvCorrect == AttrSafety => []AttrInv
<1>1. AttrInv /\ [AttrNext]_attrVars => AttrInv'
  BY AttrTypeStep, AttrStep DEF AttrInv, AttrParts
<1> QED  BY AttrInitInv, <1>1, PTL DEF AttrSafety

\* A request starts only once its pin is assigned, and a put is committed twice at
\* most, whatever closes while its two pins are on their way.
THEOREM AttrTypeCorrect == AttrSafety => []AttrTypeOK
  BY AttrInvCorrect, PTL DEF AttrInv

\* The pins of a put commit at most once each, whether that succeeds or fails, and
\* those of a get never, for any number of calls that share the space app.
THEOREM PinsWriteOnce == AttrSafety => []PinWrites
  BY AttrInvCorrect, PTL DEF AttrInv

\* A call whose request the space app has refused waits for good: closeOp finds
\* no request without an ID, so that nothing tells the caller.
THEOREM RefusedCallWaits == AttrSafety => [](\A c \in refused : callPc[c] = "wait")
<1>1. AttrInv => \A c \in refused : callPc[c] = "wait"
  BY DEF AttrInv, RefusedIsGone
<1> QED  BY <1>1, AttrInvCorrect, PTL

-----------------------------------------------------------------------------
(* ShoutcastStream.                                                        *)

StreamByte == [kind : {"audio", "length", "meta", "stale"}, n : Nat]

\* What the server sends up to its k-th block, and the titles in it.
BlockOf(b, k) == Audio(k) \o <<Byte("length", b[k].units)>> \o Text(b[k])
SentOf(b, k) == FlattenSeq([j \in 1 .. k |-> BlockOf(b, j)])
AnnouncedOf(b, k) == FlattenSeq([j \in 1 .. k |-> IF b[j].units = 0 THEN <<>> ELSE <<Text(b[j])>>])
LastOf(texts) == IF texts = <<>> THEN <<>> ELSE texts[Len(texts)]

StreamTypes ==
    /\ blocks \in [1 .. NBlocks -> Blocks] /\ at \in 0 .. Len(Sent) /\ pos \in 0 .. MetaInt
    /\ rd \in [pc : {"idle", "check"}, buf : Seq(StreamByte), n : Nat, checked : Nat, unchecked : Nat]
    /\ rd.n <= Len(rd.buf) /\ rd.checked + rd.unchecked <= rd.n
    /\ rd.pc = "idle" => rd = NotReading
    /\ cut \in BOOLEAN /\ ended \in BOOLEAN

\* Where Read is in the stream: k blocks are behind it, and pos bytes of audio.  The
\* bytes of the buffer that it has not looked at are the next ones of the stream,
\* and those before them are audio.
SplitAt(k) ==
    /\ at - rd.unchecked = Len(SentOf(blocks, k)) + pos
    /\ k = NBlocks => pos = 0
    /\ rd.checked + rd.unchecked = rd.n \/ (rd.unchecked = 0 /\ pos = 0)
    /\ Len(out) + (rd.n - rd.unchecked) = k * MetaInt + pos
    /\ out \in Seq(StreamByte) /\ \A i \in 1 .. Len(out) : out[i] = Byte("audio", i)
    /\ \A j \in 1 .. rd.n - rd.unchecked : rd.buf[j] = Byte("audio", Len(out) + j)
    /\ \A j \in 1 .. rd.unchecked : rd.buf[rd.n - rd.unchecked + j] = Sent[at - rd.unchecked + j]
    /\ told = Changes(AnnouncedOf(blocks, k)) /\ metadata = LastOf(AnnouncedOf(blocks, k))

StreamInv == StreamTypes /\ (~cut => \E k \in 0 .. NBlocks : SplitAt(k))

LEMMA StreamConstants ==
    /\ MetaInt \in Nat /\ MetaInt >= 1 /\ MetaUnit \in Nat /\ MetaUnit >= 1 /\ NBlocks \in Nat
    /\ Titles \subseteq Nat /\ BlockUnits \subseteq Nat /\ BufSizes \subseteq Nat
BY StreamAssumption

\* How one sequence begins another (IsPrefix), by their elements.
Starts(s, t) == Len(s) <= Len(t) /\ \A i \in 1 .. Len(s) : s[i] = t[i]

LEMMA StartsIsPrefix ==
    ASSUME NEW S, NEW s \in Seq(S), NEW t \in Seq(S), Starts(s, t)
    PROVE  IsPrefix(s, t)
<1>1. Len(s) \in Nat /\ Len(t) \in Nat /\ Len(s) <= Len(t) /\ \A i \in 1 .. Len(s) : s[i] = t[i]
  BY DEF Starts
<1>2. /\ SubSeq(t, 1, Len(s)) \in Seq(S) /\ Len(SubSeq(t, 1, Len(s))) = Len(s)
      /\ \A i \in 1 .. Len(s) : SubSeq(t, 1, Len(s))[i] = t[i]
  <2> DEFINE n == Len(s)
  <2>1. 1 \in 1 .. Len(t) + 1 /\ n \in 0 .. Len(t) /\ \A i \in 1 .. n : t[i] \in S
    BY <1>1
  <2>2. \A i \in 1 .. n : 1 + i - 1 = i
    BY <1>1
  <2> HIDE DEF n
  <2>3. SubSeq(t, 1, n) = [i \in 1 .. n |-> t[1 + i - 1]]
    BY <2>1
  <2> QED  BY <1>1, <2>1, <2>2, <2>3 DEF n
<1>3. SubSeq(t, 1, Len(s)) = s
  BY <1>1, <1>2
<1>4. SubSeq(s, 1, Len(s)) = s
  BY SubSeqFull
<1> QED  BY <1>1, <1>3, <1>4 DEF IsPrefix

LEMMA StartsLonger ==
    ASSUME NEW S, NEW s \in Seq(S), NEW x \in Seq(S)
    PROVE  Starts(s, s \o x)
BY DEF Starts

LEMMA StartsThrough ==
    ASSUME NEW S, NEW s \in Seq(S), NEW t \in Seq(S), NEW u \in Seq(S), Starts(s, t), Starts(t, u)
    PROVE  Starts(s, u)
<1>1. Len(s) \in Nat /\ Len(t) \in Nat /\ Len(u) \in Nat
  OBVIOUS
<1> QED  BY <1>1 DEF Starts

\* Sequences of which each begins the next.
LEMMA ChainOfPrefixes ==
    ASSUME NEW S, NEW n \in Nat, NEW F \in [0 .. n -> Seq(S)], \A k \in 1 .. n : Starts(F[k - 1], F[k]),
           NEW k \in 0 .. n, NEW m \in 0 .. n, k <= m
    PROVE  Starts(F[k], F[m])
<1> DEFINE T == {i \in k .. n : ~Starts(F[k], F[i])}
<1>1. T = {}
  <2> SUFFICES ASSUME T # {} PROVE FALSE
    OBVIOUS
  <2>1. PICK j \in T : \A i \in T : j <= i
    <3>1. T \in SUBSET Nat
      OBVIOUS
    <3> HIDE DEF T
    <3> QED  BY <3>1, LeastNumber
  <2>2. j \in k .. n /\ ~Starts(F[k], F[j])
    OBVIOUS
  <2>3. j # k
    BY <2>2 DEF Starts
  <2>4. j - 1 \in k .. n /\ ~(j <= j - 1) /\ j - 1 \in 0 .. n /\ j \in 1 .. n
    BY <2>2, <2>3
  <2>5. Starts(F[k], F[j - 1]) /\ Starts(F[j - 1], F[j])
    BY <2>1, <2>4
  <2>6. F[k] \in Seq(S) /\ F[j] \in Seq(S) /\ F[j - 1] \in Seq(S)
    BY <2>4
  <2> QED  BY <2>2, <2>5, <2>6, StartsThrough
<1>2. m \in k .. n
  OBVIOUS
<1> QED  BY <1>1, <1>2

LEMMA ByteTypes ==
    ASSUME NEW n \in Nat
    PROVE  /\ Byte("audio", n) \in StreamByte /\ Byte("length", n) \in StreamByte
           /\ Byte("meta", n) \in StreamByte /\ Stale \in StreamByte
BY DEF Byte, StreamByte, Stale

LEMMA AudioShape ==
    ASSUME NEW k \in Nat \ {0}
    PROVE  /\ Audio(k) \in Seq(StreamByte) /\ Len(Audio(k)) = MetaInt
           /\ \A j \in 1 .. MetaInt : Audio(k)[j] = Byte("audio", (k - 1) * MetaInt + j)
<1>1. \A j \in 1 .. MetaInt : Byte("audio", (k - 1) * MetaInt + j) \in StreamByte
  <2>1. (k - 1) * MetaInt \in Nat
    BY StreamConstants
  <2>2. \A j \in 1 .. MetaInt : (k - 1) * MetaInt + j \in Nat
    BY <2>1
  <2> QED  BY <2>2, ByteTypes
<1> QED  BY <1>1, StreamConstants DEF Audio

\* A block: its audio, its length and its text.
LEMMA BlockShape ==
    ASSUME NEW b \in [1 .. NBlocks -> Blocks], NEW k \in 1 .. NBlocks
    PROVE  /\ b[k].units \in Nat /\ b[k].title \in Nat /\ b[k].units * MetaUnit \in Nat
           /\ Audio(k) \in Seq(StreamByte) /\ Len(Audio(k)) = MetaInt
           /\ Text(b[k]) \in Seq(StreamByte) /\ Len(Text(b[k])) = b[k].units * MetaUnit
           /\ Byte("length", b[k].units) \in StreamByte
           /\ BlockOf(b, k) \in Seq(StreamByte)
           /\ Len(BlockOf(b, k)) = MetaInt + 1 + b[k].units * MetaUnit
<1>1. b[k].units \in Nat /\ b[k].title \in Nat
  <2>1. b[k] = Empty \/ b[k] \in [units : BlockUnits, title : Titles]
    BY DEF Blocks
  <2>2. b[k] = Empty => b[k].units = 0 /\ b[k].title = 0
    BY DEF Empty
  <2>3. b[k] \in [units : BlockUnits, title : Titles] => b[k].units \in BlockUnits /\ b[k].title \in Titles
    OBVIOUS
  <2>4. BlockUnits \subseteq Nat /\ Titles \subseteq Nat
    BY StreamConstants
  <2>5. CASE b[k] = Empty
    BY <2>2, <2>5
  <2>6. CASE b[k] \in [units : BlockUnits, title : Titles]
    BY <2>3, <2>4, <2>6, Zenon
  <2> QED  BY <2>1, <2>5, <2>6, Zenon
<1>2. b[k].units * MetaUnit \in Nat
  BY <1>1, StreamConstants
<1>3. Audio(k) \in Seq(StreamByte) /\ Len(Audio(k)) = MetaInt
  <2>1. k \in Nat \ {0}
    BY StreamConstants
  <2> QED  BY <2>1, AudioShape
<1>4. Text(b[k]) \in Seq(StreamByte) /\ Len(Text(b[k])) = b[k].units * MetaUnit
  <2>1. Byte("meta", b[k].title) \in StreamByte
    BY <1>1, ByteTypes
  <2> DEFINE n == b[k].units * MetaUnit
  <2>2. n \in Nat /\ Text(b[k]) = [j \in 1 .. n |-> Byte("meta", b[k].title)]
    BY <1>2 DEF Text
  <2> HIDE DEF n
  <2> QED  BY <2>1, <2>2, SMTT(60) DEF n
<1>5. Byte("length", b[k].units) \in StreamByte
  BY <1>1, ByteTypes
<1>6. BlockOf(b, k) \in Seq(StreamByte) /\ Len(BlockOf(b, k)) = MetaInt + 1 + b[k].units * MetaUnit
  <2> HIDE DEF Byte
  <2> DEFINE n == b[k].units * MetaUnit
             a == Audio(k)
             l == <<Byte("length", b[k].units)>>
             t == Text(b[k])
  <2>1. l \in Seq(StreamByte) /\ Len(l) = 1
    BY <1>5
  <2>2. a \in Seq(StreamByte) /\ t \in Seq(StreamByte)
    BY <1>3, <1>4
  <2>3. Len(a) = MetaInt /\ Len(t) = n /\ n \in Nat /\ MetaInt \in Nat
    BY <1>2, <1>3, <1>4, StreamConstants
  <2>4. BlockOf(b, k) = a \o l \o t
    BY DEF BlockOf
  <2> HIDE DEF l, n, a, t
  <2>5. Joins(StreamByte, a, l, a \o l)
    BY <2>1, <2>2, AppendedPart, Zenon
  <2>6. a \o l \in Seq(StreamByte) /\ Len(a \o l) = Len(a) + Len(l)
    BY <2>5, Zenon DEF Joins
  <2>7. Joins(StreamByte, a \o l, t, a \o l \o t)
    BY <2>2, <2>6, AppendedPart, Zenon
  <2>8. a \o l \o t \in Seq(StreamByte) /\ Len(a \o l \o t) = Len(a \o l) + Len(t)
    BY <2>7, Zenon DEF Joins
  <2>9. Len(a \o l \o t) = MetaInt + 1 + n
    BY <2>1, <2>3, <2>6, <2>8
  <2> QED  BY <2>4, <2>8, <2>9, Zenon DEF n
<1> QED  BY <1>1, <1>2, <1>3, <1>4, <1>5, <1>6

LEMMA BlockBytes ==
    ASSUME NEW b \in [1 .. NBlocks -> Blocks], NEW k \in 1 .. NBlocks
    PROVE  /\ \A j \in 1 .. MetaInt : BlockOf(b, k)[j] = Byte("audio", (k - 1) * MetaInt + j)
           /\ BlockOf(b, k)[MetaInt + 1] = Byte("length", b[k].units)
           /\ \A j \in 1 .. Len(Text(b[k])) : BlockOf(b, k)[MetaInt + 1 + j] = Text(b[k])[j]
<1> DEFINE a == Audio(k)
           l == <<Byte("length", b[k].units)>>
           t == Text(b[k])
<1>1. /\ a \in Seq(StreamByte) /\ Len(a) = MetaInt /\ t \in Seq(StreamByte)
      /\ MetaInt \in Nat /\ Len(t) \in Nat
  <2>1. a \in Seq(StreamByte) /\ Len(a) = MetaInt /\ t \in Seq(StreamByte)
    BY BlockShape
  <2> HIDE DEF a, t
  <2> QED  BY <2>1, StreamConstants
<1>2. l \in Seq(StreamByte) /\ Len(l) = 1 /\ l[1] = Byte("length", b[k].units)
  <2>1. Byte("length", b[k].units) \in StreamByte
    BY BlockShape
  <2> QED  BY <2>1
<1>3. \A j \in 1 .. MetaInt : a[j] = Byte("audio", (k - 1) * MetaInt + j)
  BY DEF Audio
<1>4. BlockOf(b, k) = a \o l \o t
  BY DEF BlockOf
<1> HIDE DEF a, l, t
<1>5. Joins(StreamByte, a, l, a \o l)
  BY <1>1, <1>2, AppendedPart, Zenon
<1>6. Joins(StreamByte, a \o l, t, a \o l \o t)
  <2>1. a \o l \in Seq(StreamByte)
    BY <1>5, Zenon DEF Joins
  <2> QED  BY <1>1, <2>1, AppendedPart, Zenon
<1>7. /\ Len(a \o l) = Len(a) + Len(l)
      /\ \A j \in 1 .. Len(a) : (a \o l)[j] = a[j]
      /\ \A j \in 1 .. Len(l) : (a \o l)[Len(a) + j] = l[j]
  BY <1>5, Zenon DEF Joins
<1>8. /\ \A j \in 1 .. Len(a \o l) : (a \o l \o t)[j] = (a \o l)[j]
      /\ \A j \in 1 .. Len(t) : (a \o l \o t)[Len(a \o l) + j] = t[j]
  BY <1>6, Zenon DEF Joins
<1> DEFINE c == a \o l
           s == a \o l \o t
<1>9. /\ Len(c) = MetaInt + 1 /\ c[MetaInt + 1] = l[1]
      /\ \A j \in 1 .. MetaInt : c[j] = a[j]
      /\ \A j \in 1 .. Len(c) : s[j] = c[j]
      /\ \A j \in 1 .. Len(t) : s[Len(c) + j] = t[j]
  <2> HIDE DEF c, s
  <2>1. /\ Len(c) = Len(a) + Len(l) /\ \A j \in 1 .. Len(a) : c[j] = a[j]
        /\ \A j \in 1 .. Len(l) : c[Len(a) + j] = l[j]
        /\ \A j \in 1 .. Len(c) : s[j] = c[j]
        /\ \A j \in 1 .. Len(t) : s[Len(c) + j] = t[j]
    BY <1>7, <1>8, Zenon DEF c, s
  <2> QED  BY <1>1, <1>2, <2>1
<1>10. BlockOf(b, k) = s
  BY <1>4
<1> HIDE DEF c, s
<1>11. \A j \in 1 .. MetaInt : BlockOf(b, k)[j] = a[j]
  <2>1. MetaInt \in Nat /\ Len(c) = MetaInt + 1
    BY <1>1, <1>9, Zenon
  <2>2. \A j \in 1 .. MetaInt : j \in 1 .. Len(c)
    BY <2>1
  <2> QED  BY <1>9, <1>10, <2>2, Zenon
<1>12. BlockOf(b, k)[MetaInt + 1] = Byte("length", b[k].units)
  BY <1>1, <1>2, <1>9, <1>10
<1>13. \A j \in 1 .. Len(t) : BlockOf(b, k)[MetaInt + 1 + j] = t[j]
  BY <1>9, <1>10
<1> QED  BY <1>3, <1>11, <1>12, <1>13 DEF t

\* The stream, block by block.
LEMMA SentGrows ==
    ASSUME NEW b \in [1 .. NBlocks -> Blocks], NEW k \in 0 .. NBlocks
    PROVE  /\ SentOf(b, k) \in Seq(StreamByte)
           /\ k = 0 => SentOf(b, k) = <<>>
           /\ k # 0 => SentOf(b, k) = SentOf(b, k - 1) \o BlockOf(b, k)
<1> DEFINE F == [j \in 1 .. NBlocks |-> BlockOf(b, j)]
<1>1. F \in [1 .. NBlocks -> Seq(StreamByte)]
  BY BlockShape
<1>2. UpToIs(StreamByte, F, k)
  <2> HIDE DEF F
  <2>1. NBlocks \in Nat
    BY StreamConstants
  <2> QED  BY <1>1, <2>1, UpToGrows, Zenon
<1>3. \A i \in 0 .. NBlocks : SentOf(b, i) = UpTo(F, i)
  <2>1. \A i \in 0 .. NBlocks : [j \in 1 .. i |-> BlockOf(b, j)] = [j \in 1 .. i |-> F[j]]
    BY StreamConstants
  <2> QED  BY <2>1 DEF SentOf, UpTo
<1>4. k # 0 => k - 1 \in 0 .. NBlocks /\ F[k] = BlockOf(b, k)
  BY StreamConstants
<1> HIDE DEF F
<1> QED  BY <1>2, <1>3, <1>4, Zenon DEF UpToIs

LEMMA SentStarts ==
    ASSUME NEW b \in [1 .. NBlocks -> Blocks], NEW k \in 0 .. NBlocks, NEW m \in 0 .. NBlocks, k <= m
    PROVE  Starts(SentOf(b, k), SentOf(b, m))
<1> DEFINE F == [i \in 0 .. NBlocks |-> SentOf(b, i)]
<1>1. F \in [0 .. NBlocks -> Seq(StreamByte)]
  BY SentGrows
<1>2. \A i \in 1 .. NBlocks : Starts(F[i - 1], F[i])
  <2> SUFFICES ASSUME NEW i \in 1 .. NBlocks PROVE Starts(F[i - 1], F[i])
    OBVIOUS
  <2>1. i \in 0 .. NBlocks /\ i - 1 \in 0 .. NBlocks /\ i # 0
    BY StreamConstants
  <2>2. SentOf(b, i) = SentOf(b, i - 1) \o BlockOf(b, i) /\ SentOf(b, i - 1) \in Seq(StreamByte)
    BY <2>1, SentGrows
  <2>3. BlockOf(b, i) \in Seq(StreamByte)
    BY BlockShape
  <2>4. Starts(SentOf(b, i - 1), SentOf(b, i))
    BY <2>2, <2>3, StartsLonger
  <2> QED  BY <2>1, <2>4
<1> HIDE DEF F
<1>3. NBlocks \in Nat
  BY StreamConstants
<1>4. Starts(F[k], F[m])
  BY <1>1, <1>2, <1>3, ChainOfPrefixes, Zenon
<1> QED  BY <1>4 DEF F

\* Where the parts of the k-th block are in the whole stream; h blocks are before it.
BlockAt(b, k, h, sent) ==
    LET from == Len(SentOf(b, h))
        size == b[k].units * MetaUnit
    IN /\ from \in Nat /\ size \in Nat /\ Len(sent) \in Nat
       /\ Len(SentOf(b, k)) = from + MetaInt + 1 + size
       /\ Len(SentOf(b, k)) <= Len(sent)
       /\ \A j \in 1 .. MetaInt : sent[from + j] = Byte("audio", h * MetaInt + j)
       /\ sent[from + MetaInt + 1] = Byte("length", b[k].units)
       /\ \A j \in 1 .. size : sent[from + MetaInt + 1 + j] = Text(b[k])[j]

LEMMA BlockIsAt ==
    ASSUME NEW b \in [1 .. NBlocks -> Blocks], NEW k \in 1 .. NBlocks
    PROVE  BlockAt(b, k, k - 1, SentOf(b, NBlocks))
<1> DEFINE before == SentOf(b, k - 1)
           after == SentOf(b, k)
           sent == SentOf(b, NBlocks)
           x == BlockOf(b, k)
           size == b[k].units * MetaUnit
           from == Len(before)
<1>1. k - 1 \in 0 .. NBlocks /\ k \in 0 .. NBlocks /\ NBlocks \in 0 .. NBlocks /\ k <= NBlocks /\ k # 0
  BY StreamConstants
<1>2. after = before \o x /\ before \in Seq(StreamByte) /\ sent \in Seq(StreamByte)
  BY <1>1, SentGrows
<1>3. /\ x \in Seq(StreamByte) /\ Len(x) = MetaInt + 1 + size /\ size \in Nat
      /\ Len(Text(b[k])) = size
  BY BlockShape
<1>4. Starts(after, sent)
  BY <1>1, SentStarts
<1>5. /\ \A j \in 1 .. MetaInt : x[j] = Byte("audio", (k - 1) * MetaInt + j)
      /\ x[MetaInt + 1] = Byte("length", b[k].units)
      /\ \A j \in 1 .. size : x[MetaInt + 1 + j] = Text(b[k])[j]
  BY <1>3, BlockBytes, ZenonT(40)
<1> HIDE DEF before, after, sent, x, size
<1>6. Joins(StreamByte, before, x, after)
  BY <1>2, <1>3, AppendedPart, Zenon
<1>7. /\ from \in Nat /\ Len(after) = from + Len(x) /\ Len(after) \in Nat
      /\ \A j \in 1 .. Len(x) : after[from + j] = x[j]
  BY <1>6, Zenon DEF Joins
<1>8. /\ Len(after) = from + MetaInt + 1 + size /\ Len(after) <= Len(sent) /\ Len(sent) \in Nat
      /\ \A j \in 1 .. MetaInt + 1 + size : sent[from + j] = x[j]
  <2>1. Len(sent) \in Nat
    BY <1>2
  <2>2. Len(after) <= Len(sent) /\ \A i \in 1 .. Len(after) : after[i] = sent[i]
    BY <1>4, Zenon DEF Starts
  <2> HIDE DEF from
  <2>3. Len(after) = from + MetaInt + 1 + size
    BY <1>3, <1>7, StreamConstants
  <2>4. \A j \in 1 .. MetaInt + 1 + size : from + j \in 1 .. Len(after) /\ j \in 1 .. Len(x)
    BY <1>3, <1>7, <2>3, StreamConstants
  <2> QED  BY <1>7, <2>1, <2>2, <2>3, <2>4
<1> HIDE DEF from
<1>9. \A j \in 1 .. MetaInt : sent[from + j] = Byte("audio", (k - 1) * MetaInt + j)
  <2>1. \A j \in 1 .. MetaInt : j \in 1 .. MetaInt + 1 + size
    BY <1>3, StreamConstants
  <2> QED  BY <1>5, <1>8, <2>1, Zenon
<1>10. sent[from + MetaInt + 1] = Byte("length", b[k].units)
  <2>1. MetaInt + 1 \in 1 .. MetaInt + 1 + size /\ from + (MetaInt + 1) = from + MetaInt + 1
    BY <1>3, <1>7, StreamConstants
  <2> QED  BY <1>5, <1>8, <2>1
<1>11. \A j \in 1 .. size : sent[from + MetaInt + 1 + j] = Text(b[k])[j]
  <2> SUFFICES ASSUME NEW j \in 1 .. size PROVE sent[from + MetaInt + 1 + j] = Text(b[k])[j]
    OBVIOUS
  <2>1. MetaInt + 1 + j \in 1 .. MetaInt + 1 + size
        /\ from + (MetaInt + 1 + j) = from + MetaInt + 1 + j
    BY <1>3, <1>7, StreamConstants
  <2>2. sent[from + (MetaInt + 1 + j)] = x[MetaInt + 1 + j]
    BY <1>8, <2>1, Zenon
  <2> QED  BY <1>5, <2>1, <2>2
<1> QED  BY <1>3, <1>7, <1>8, <1>9, <1>10, <1>11, Zenon DEF BlockAt, before, after, sent, size, from

\* The audio of the stream, block by block.
AudioOf(k) == FlattenSeq([j \in 1 .. k |-> Audio(j)])

LEMMA AudioGrows ==
    ASSUME NEW k \in Nat
    PROVE  /\ AudioOf(k) \in Seq(StreamByte)
           /\ k = 0 => AudioOf(k) = <<>>
           /\ k # 0 => AudioOf(k) = AudioOf(k - 1) \o Audio(k)
<1> DEFINE F == [j \in 1 .. k |-> Audio(j)]
<1>1. F \in [1 .. k -> Seq(StreamByte)]
  BY AudioShape
<1>2. UpToIs(StreamByte, F, k)
  <2> HIDE DEF F
  <2>1. k \in 0 .. k
    OBVIOUS
  <2> QED  BY <1>1, <2>1, UpToGrows, Zenon
<1>3. \A i \in 0 .. k : AudioOf(i) = UpTo(F, i)
  <2>1. \A i \in 0 .. k : [j \in 1 .. i |-> Audio(j)] = [j \in 1 .. i |-> F[j]]
    OBVIOUS
  <2> QED  BY <2>1 DEF AudioOf, UpTo
<1>4. k \in 0 .. k /\ (k # 0 => k - 1 \in 0 .. k /\ F[k] = Audio(k))
  OBVIOUS
<1> HIDE DEF F
<1> QED  BY <1>2, <1>3, <1>4, Zenon DEF UpToIs

Numbered(s, n) == Len(s) = n /\ \A i \in 1 .. n : s[i] = Byte("audio", i)

LEMMA AudioIs ==
    ASSUME NEW n \in Nat
    PROVE  Numbered(AudioOf(n), n * MetaInt)
<1> DEFINE T == {k \in Nat : ~Numbered(AudioOf(k), k * MetaInt)}
<1>1. T = {}
  <2> SUFFICES ASSUME T # {} PROVE FALSE
    OBVIOUS
  <2>1. PICK k \in T : \A i \in T : k <= i
    <3>1. T \in SUBSET Nat
      OBVIOUS
    <3> HIDE DEF T
    <3> QED  BY <3>1, LeastNumber
  <2>2. k \in Nat /\ ~Numbered(AudioOf(k), k * MetaInt)
    OBVIOUS
  <2>3. CASE k = 0
    <3>1. AudioOf(k) = <<>> /\ k * MetaInt = 0
      BY <2>3, AudioGrows, StreamConstants
    <3>2. Numbered(<<>>, 0)
      BY DEF Numbered
    <3> QED  BY <2>2, <3>1, <3>2
  <2>4. CASE k # 0
    <3>1. k - 1 \in Nat /\ ~(k <= k - 1)
      BY <2>2, <2>4
    <3>2. Numbered(AudioOf(k - 1), (k - 1) * MetaInt)
      BY <2>1, <3>1
    <3> DEFINE s == AudioOf(k - 1)
               m == (k - 1) * MetaInt
    <3>3. AudioOf(k) = s \o Audio(k) /\ s \in Seq(StreamByte)
      BY <2>2, <2>4, <3>1, AudioGrows
    <3>4. m \in Nat /\ k * MetaInt = m + MetaInt /\ MetaInt \in Nat
      BY <2>2, <3>1, StreamConstants
    <3>5. /\ Audio(k) \in Seq(StreamByte) /\ Len(Audio(k)) = MetaInt
          /\ \A j \in 1 .. MetaInt : Audio(k)[j] = Byte("audio", m + j)
      BY <2>2, <2>4, AudioShape
    <3>6. Len(s) = m /\ \A i \in 1 .. m : s[i] = Byte("audio", i)
      BY <3>2, Zenon DEF Numbered
    <3> HIDE DEF s, m
    <3> DEFINE t == s \o Audio(k)
    <3>7. Joins(StreamByte, s, Audio(k), t)
      BY <3>3, <3>5, AppendedPart, Zenon
    <3> HIDE DEF t
    <3>8. /\ Len(t) = Len(s) + Len(Audio(k)) /\ \A i \in 1 .. Len(s) : t[i] = s[i]
          /\ \A i \in 1 .. Len(Audio(k)) : t[Len(s) + i] = Audio(k)[i]
      BY <3>7, Zenon DEF Joins
    <3>9. Len(t) = m + MetaInt
      BY <3>5, <3>6, <3>8
    <3>10. ASSUME NEW i \in 1 .. m + MetaInt PROVE t[i] = Byte("audio", i)
      <4>1. CASE i <= m
        <5>1. i \in 1 .. m
          BY <3>4, <4>1
        <5> QED  BY <3>6, <3>8, <5>1
      <4>2. CASE i > m
        <5>1. i - m \in 1 .. MetaInt /\ i = m + (i - m)
          BY <3>4, <4>2
        <5>2. t[m + (i - m)] = Audio(k)[i - m] /\ Audio(k)[i - m] = Byte("audio", m + (i - m))
          BY <3>5, <3>6, <3>8, <5>1
        <5> QED  BY <5>1, <5>2
      <4> QED  BY <3>4, <4>1, <4>2
    <3>11. Numbered(t, m + MetaInt)
      BY <3>9, <3>10 DEF Numbered
    <3>12. Numbered(AudioOf(k), k * MetaInt)
      BY <3>3, <3>4, <3>11, Zenon DEF t
    <3> QED  BY <2>2, <3>12
  <2> QED  BY <2>3, <2>4
<1> QED  BY <1>1

\* The titles that the first k blocks announce.
LEMMA AnnouncedGrows ==
    ASSUME NEW b \in [1 .. NBlocks -> Blocks], NEW k \in 0 .. NBlocks
    PROVE  /\ AnnouncedOf(b, k) \in Seq(Seq(StreamByte))
           /\ k = 0 => AnnouncedOf(b, k) = <<>>
           /\ k # 0 => AnnouncedOf(b, k) = AnnouncedOf(b, k - 1) \o
                           (IF b[k].units = 0 THEN <<>> ELSE <<Text(b[k])>>)
<1> DEFINE E(j) == IF b[j].units = 0 THEN <<>> ELSE <<Text(b[j])>>
           F == [j \in 1 .. NBlocks |-> E(j)]
           T == Seq(StreamByte)
<1>1. F \in [1 .. NBlocks -> Seq(T)]
  <2>1. ASSUME NEW j \in 1 .. NBlocks PROVE E(j) \in Seq(T)
    <3>1. Text(b[j]) \in T
      BY BlockShape
    <3> HIDE DEF T
    <3> QED  BY <3>1
  <2> HIDE DEF E, T
  <2> QED  BY <2>1
<1> HIDE DEF E, T
<1>2. UpToIs(T, F, k)
  <2>1. NBlocks \in Nat
    BY StreamConstants
  <2> HIDE DEF F
  <2> QED  BY <1>1, <2>1, UpToGrows, Zenon
<1>3. \A i \in 0 .. NBlocks : AnnouncedOf(b, i) = UpTo(F, i)
  <2>1. \A i \in 0 .. NBlocks : [j \in 1 .. i |-> E(j)] = [j \in 1 .. i |-> F[j]]
    BY StreamConstants
  <2>2. \A i \in 0 .. NBlocks : AnnouncedOf(b, i) = FlattenSeq([j \in 1 .. i |-> E(j)])
    BY DEF AnnouncedOf, E
  <2> HIDE DEF F
  <2> QED  BY <2>1, <2>2 DEF UpTo
<1>4. k # 0 => k - 1 \in 0 .. NBlocks /\ F[k] = E(k)
  BY StreamConstants
<1> HIDE DEF F
<1>5. /\ AnnouncedOf(b, k) \in Seq(T) /\ (k = 0 => AnnouncedOf(b, k) = <<>>)
      /\ (k # 0 => AnnouncedOf(b, k) = AnnouncedOf(b, k - 1) \o E(k))
  BY <1>2, <1>3, <1>4, Zenon DEF UpToIs
<1> QED  BY <1>5, Zenon DEF E, T

\* A title that follows is told if it is another one.
LEMMA ChangesGrow ==
    ASSUME NEW S, NEW texts \in Seq(S), NEW x \in S
    PROVE  /\ Changes(texts) \in Seq(S)
           /\ Changes(Append(texts, x)) = Changes(texts) \o
                  (IF Len(texts) # 0 /\ texts[Len(texts)] = x THEN <<>> ELSE <<x>>)
<1> DEFINE E(t, k) == IF k > 1 /\ t[k] = t[k - 1] THEN <<>> ELSE <<t[k]>>
           P(t) == [k \in DOMAIN t |-> E(t, k)]
           n == Len(texts)
           q == Append(texts, x)
<1>1. /\ n \in Nat /\ DOMAIN texts = 1 .. n /\ q \in Seq(S) /\ DOMAIN q = 1 .. n + 1 /\ q[n + 1] = x
      /\ \A k \in 1 .. n : q[k] = texts[k]
  OBVIOUS
<1>2. Changes(texts) = FlattenSeq(P(texts)) /\ Changes(q) = FlattenSeq(P(q))
  BY DEF Changes
<1> HIDE DEF q, n
<1>3. \A k \in 1 .. n : E(q, k) = E(texts, k)
  <2> SUFFICES ASSUME NEW k \in 1 .. n PROVE E(q, k) = E(texts, k)
    OBVIOUS
  <2>1. k > 1 => k - 1 \in 1 .. n
    BY <1>1
  <2> QED  BY <1>1, <2>1
<1>4. \A k \in 1 .. n : E(texts, k) \in Seq(S)
  BY <1>1
<1>5. E(q, n + 1) = (IF n # 0 /\ texts[n] = x THEN <<>> ELSE <<x>>) /\ E(q, n + 1) \in Seq(S)
  <2>1. n + 1 > 1 <=> n # 0
    BY <1>1
  <2>2. n # 0 => n \in 1 .. n /\ q[n + 1 - 1] = texts[n]
    BY <1>1
  <2>3. q[n + 1] = x
    BY <1>1
  <2> QED  BY <2>1, <2>2, <2>3
<1> HIDE DEF E
<1>6. P(texts) \in Seq(Seq(S)) /\ Len(P(texts)) = n
  BY <1>1, <1>4
<1>7. P(q) \in Seq(Seq(S)) /\ Len(P(q)) = n + 1
  <2>1. \A k \in 1 .. n + 1 : E(q, k) \in Seq(S)
    BY <1>1, <1>3, <1>4, <1>5
  <2> QED  BY <1>1, <2>1
<1>8. \A k \in 1 .. n : P(texts)[k] = P(q)[k]
  BY <1>1, <1>3
<1>9. P(q)[n + 1] = E(q, n + 1)
  BY <1>1
<1> HIDE DEF P
<1>10. Len(P(q)) = Len(P(texts)) + 1 /\ \A i \in 1 .. Len(P(texts)) : P(texts)[i] = P(q)[i]
  BY <1>6, <1>7, <1>8
<1>11. FlattenSeq(P(q)) = FlattenSeq(P(texts)) \o P(q)[Len(P(q))]
  BY <1>6, <1>7, <1>10, FlattenLast, Zenon
<1>12. FlattenSeq(P(texts)) \in Seq(S)
  BY <1>6, FlattenType
<1> QED  BY <1>2, <1>5, <1>7, <1>9, <1>11, <1>12 DEF n, q

LEMMA NoChanges == Changes(<<>>) = <<>>
<1>1. [k \in DOMAIN <<>> |-> IF k > 1 /\ <<>>[k] = <<>>[k - 1] THEN <<>> ELSE <<<<>>[k]>>] = <<>>
  OBVIOUS
<1> QED  BY <1>1, FlattenNone DEF Changes

\* What Read tells when it has taken the k-th block, after h others.
Tells(b, k, h) ==
    LET before == AnnouncedOf(b, h)
        after == AnnouncedOf(b, k)
        x == Text(b[k])
    IN /\ before \in Seq(Seq(StreamByte)) /\ after \in Seq(Seq(StreamByte))
       /\ Changes(before) \in Seq(Seq(StreamByte)) /\ Changes(after) \in Seq(Seq(StreamByte))
       /\ b[k].units = 0 => Changes(after) = Changes(before) /\ LastOf(after) = LastOf(before)
       /\ b[k].units # 0 =>
              /\ x # <<>> /\ LastOf(after) = x
              /\ Changes(after) = IF LastOf(before) = x THEN Changes(before) ELSE Append(Changes(before), x)
       /\ Starts(Changes(before), Changes(after))

LEMMA BlockTells ==
    ASSUME NEW b \in [1 .. NBlocks -> Blocks], NEW k \in 1 .. NBlocks
    PROVE  Tells(b, k, k - 1)
<1> DEFINE before == AnnouncedOf(b, k - 1)
           after == AnnouncedOf(b, k)
           x == Text(b[k])
           S == Seq(StreamByte)
<1>1. k \in 0 .. NBlocks /\ k - 1 \in 0 .. NBlocks /\ k # 0
  BY StreamConstants
<1>2. before \in Seq(S) /\ after = before \o (IF b[k].units = 0 THEN <<>> ELSE <<x>>)
  BY <1>1, AnnouncedGrows
<1>3. x \in S /\ Len(x) = b[k].units * MetaUnit /\ b[k].units \in Nat
  BY BlockShape
<1>4. b[k].units # 0 => x # <<>>
  <2>1. b[k].units # 0 => b[k].units * MetaUnit # 0
    BY <1>3, StreamConstants
  <2>2. x = <<>> => Len(x) = 0
    OBVIOUS
  <2> QED  BY <1>3, <2>1, <2>2
<1> HIDE DEF before, after, x, S
<1>5. Changes(before) \in Seq(S)
      /\ Changes(Append(before, x)) = Changes(before) \o
             (IF Len(before) # 0 /\ before[Len(before)] = x THEN <<>> ELSE <<x>>)
  BY <1>2, <1>3, ChangesGrow
<1>6. CASE b[k].units = 0
  <2>1. after = before
    BY <1>2, <1>6
  <2>2. Starts(Changes(before), Changes(before))
    BY <1>5 DEF Starts
  <2> QED  BY <1>2, <1>5, <1>6, <2>1, <2>2, Zenon DEF Tells, before, after, x, S
<1>7. CASE b[k].units # 0
  <2>1. after = Append(before, x) /\ after \in Seq(S) /\ LastOf(after) = x
    BY <1>2, <1>3, <1>7 DEF LastOf
  <2>2. LastOf(before) = x <=> Len(before) # 0 /\ before[Len(before)] = x
    <3>1. before = <<>> <=> Len(before) = 0
      BY <1>2
    <3> QED  BY <1>4, <1>7, <3>1 DEF LastOf
  <2>3. Changes(after) = IF LastOf(before) = x THEN Changes(before) ELSE Append(Changes(before), x)
    <3> DEFINE c == Changes(before)
    <3>1. c \in Seq(S) /\ Changes(after) = c \o (IF LastOf(before) = x THEN <<>> ELSE <<x>>)
      BY <1>5, <2>1, <2>2
    <3> HIDE DEF c
    <3>2. c \o <<>> = c /\ c \o <<x>> = Append(c, x)
      BY <1>3, <3>1
    <3> QED  BY <3>1, <3>2 DEF c
  <2>4. Changes(after) \in Seq(S) /\ Starts(Changes(before), Changes(after))
    <3> DEFINE c == Changes(before)
    <3>1. c \in Seq(S) /\ (Changes(after) = c \/ Changes(after) = Append(c, x))
      BY <1>5, <2>3
    <3> HIDE DEF c
    <3>2. Append(c, x) \in Seq(S) /\ Starts(c, c) /\ Starts(c, Append(c, x))
      BY <1>3, <3>1 DEF Starts
    <3> QED  BY <3>1, <3>2 DEF c
  <2> QED  BY <1>2, <1>4, <1>5, <1>7, <2>1, <2>3, <2>4, Zenon DEF Tells, before, after, x, S
<1> QED  BY <1>6, <1>7

LEMMA TellsStarts ==
    ASSUME NEW b \in [1 .. NBlocks -> Blocks], NEW k \in 0 .. NBlocks
    PROVE  /\ Changes(AnnouncedOf(b, k)) \in Seq(Seq(StreamByte))
           /\ Changes(AnnouncedOf(b, NBlocks)) \in Seq(Seq(StreamByte))
           /\ Starts(Changes(AnnouncedOf(b, k)), Changes(AnnouncedOf(b, NBlocks)))
<1> DEFINE S == Seq(StreamByte)
           F == [i \in 0 .. NBlocks |-> Changes(AnnouncedOf(b, i))]
<1>1. NBlocks \in Nat /\ NBlocks \in 0 .. NBlocks /\ k <= NBlocks
  BY StreamConstants
<1>2. \A i \in 1 .. NBlocks : /\ F[i - 1] = Changes(AnnouncedOf(b, i - 1))
                              /\ F[i] = Changes(AnnouncedOf(b, i))
  BY <1>1
<1>3. F[0] \in Seq(S)
  <2>1. AnnouncedOf(b, 0) = <<>>
    <3>1. 0 \in 0 .. NBlocks
      BY <1>1
    <3> QED  BY <3>1, AnnouncedGrows
  <2>2. F[0] = <<>>
    BY <1>1, <2>1, NoChanges
  <2> HIDE DEF F, S
  <2> QED  BY <2>2
<1>4. \A i \in 1 .. NBlocks : F[i] \in Seq(S) /\ Starts(F[i - 1], F[i])
  BY <1>2, BlockTells, ZenonT(60) DEF Tells
<1>5. \A i \in 0 .. NBlocks : F[i] \in Seq(S)
  <2> HIDE DEF F
  <2>1. \A i \in 0 .. NBlocks : i = 0 \/ i \in 1 .. NBlocks
    BY <1>1
  <2> QED  BY <1>3, <1>4, <2>1
<1>6. F \in [0 .. NBlocks -> Seq(S)]
  <2> HIDE DEF S
  <2> QED  BY <1>5
<1>7. Starts(F[k], F[NBlocks])
  <2> HIDE DEF F
  <2> QED  BY <1>1, <1>4, <1>6, ChainOfPrefixes, Zenon
<1> QED  BY <1>1, <1>5, <1>7

-----------------------------------------------------------------------------
(* The steps of Read.                                                      *)

LEMMA StreamIs ==
    ASSUME blocks \in [1 .. NBlocks -> Blocks]
    PROVE  /\ Sent = SentOf(blocks, NBlocks) /\ Sent \in Seq(StreamByte) /\ Len(Sent) \in Nat
           /\ Announced = AnnouncedOf(blocks, NBlocks) /\ AllAudio = AudioOf(NBlocks)
<1>1. DOMAIN blocks = 1 .. NBlocks /\ NBlocks \in 0 .. NBlocks
  BY StreamConstants
<1>2. Sent = SentOf(blocks, NBlocks)
  BY <1>1 DEF Sent, SentOf, BlockOf
<1>3. SentOf(blocks, NBlocks) \in Seq(StreamByte)
  BY <1>1, SentGrows
<1>4. Len(Sent) \in Nat
  BY <1>2, <1>3
<1>5. Announced = AnnouncedOf(blocks, NBlocks) /\ AllAudio = AudioOf(NBlocks)
  BY <1>1 DEF Announced, AnnouncedOf, AllAudio, AudioOf
<1> QED  BY <1>2, <1>3, <1>4, <1>5

\* What extractMetadata takes for a block.
LEMMA OwnBufferIs ==
    ASSUME NEW bufIn \in Seq(StreamByte), NEW metaLen \in Nat, Len(bufIn) >= 1, Len(bufIn) < metaLen + 1,
           NEW x, x = OwnBuffer(bufIn, metaLen), Len(Sent) \in Nat, at \in 0 .. Len(Sent)
    PROVE  LET want == metaLen - (Len(bufIn) - 1)
           IN /\ x.took \in Nat /\ x.took <= want /\ at + x.took <= Len(Sent) /\ x.ok \in BOOLEAN
              /\ at + want <= Len(Sent) =>
                     /\ x.took = want /\ x.ok = TRUE
                     /\ x.text = Tail(bufIn) \o SubSeq(Sent, at + 1, at + want)
<1> DEFINE want == metaLen - (Len(bufIn) - 1)
           rest == Len(Sent) - at
           took == IF want <= rest THEN want ELSE rest
<1>1. /\ x.took = took /\ x.ok = (took = want)
      /\ x.text = Tail(bufIn) \o SubSeq(Sent, at + 1, at + took)
  BY DEF OwnBuffer
<1>2. want \in Nat /\ rest \in Nat /\ at \in Nat /\ Len(Sent) = at + rest
  <2>1. Len(bufIn) \in Nat
    OBVIOUS
  <2> QED  BY <2>1
<1> HIDE DEF want, rest
<1>3. took \in Nat /\ took <= want /\ at + took <= Len(Sent)
  BY <1>2
<1>4. at + want <= Len(Sent) => took = want
  BY <1>2
<1> HIDE DEF took
<1> QED  BY <1>1, <1>2, <1>3, <1>4 DEF want

\* The rest of the buffer, which begins with the byte at the block's place.
LEMMA RestOfBuffer ==
    ASSUME NEW buf \in Seq(StreamByte), NEW from \in Nat, from < Len(buf)
    PROVE  LET bufIn == SubSeq(buf, from + 1, Len(buf))
           IN /\ bufIn \in Seq(StreamByte) /\ Len(bufIn) = Len(buf) - from
              /\ \A j \in 1 .. Len(buf) - from : bufIn[j] = buf[from + j]
              /\ bufIn[1] = buf[from + 1] /\ MetaLen(bufIn) \in Nat
<1> DEFINE bufIn == SubSeq(buf, from + 1, Len(buf))
           n == Len(buf)
<1>1. n \in Nat /\ \A j \in 1 .. n : buf[j] \in StreamByte
  OBVIOUS
<1>2. \A j \in from + 1 .. n : buf[j] \in StreamByte
  BY <1>1
<1> HIDE DEF n
<1>3. /\ bufIn \in Seq(StreamByte) /\ Len(bufIn) = n - (from + 1) + 1
      /\ \A j \in 1 .. n - (from + 1) + 1 : bufIn[j] = buf[from + 1 + j - 1]
  <2>1. /\ from + 1 \in 1 .. Len(buf) + 1 /\ n \in from + 1 - 1 .. Len(buf)
    BY <1>1 DEF n
  <2>2. bufIn = SubSeq(buf, from + 1, n)
    BY DEF n
  <2> HIDE DEF bufIn
  <2> QED  BY <1>1, <1>2, <2>1, <2>2, SubSeqProperties, SMTT(60)
<1> HIDE DEF bufIn
<1>4. n - (from + 1) + 1 = n - from /\ n - from >= 1 /\ \A j \in 1 .. n - from : from + 1 + j - 1 = from + j
  BY <1>1 DEF n
<1>5. Len(bufIn) = n - from /\ \A j \in 1 .. n - from : bufIn[j] = buf[from + j]
  BY <1>3, <1>4
<1>6. bufIn[1] = buf[from + 1] /\ bufIn[1] \in StreamByte
  BY <1>1, <1>2, <1>4, <1>5 DEF n
<1>7. MetaLen(bufIn) \in Nat
  <2>1. bufIn[1].n \in Nat
    BY <1>6 DEF StreamByte
  <2> QED  BY <2>1, StreamConstants DEF MetaLen
<1> QED  BY <1>3, <1>5, <1>6, <1>7, Zenon DEF n, bufIn

LEMMA ExtractTypes ==
    ASSUME NEW bufIn \in Seq(StreamByte), Len(bufIn) >= 1, MetaLen(bufIn) \in Nat,
           Len(Sent) \in Nat, at \in 0 .. Len(Sent), NEW x, x = ExtractMetadata(bufIn)
    PROVE  x.took \in Nat /\ at + x.took \in 0 .. Len(Sent) /\ x.ok \in BOOLEAN
<1>1. at \in Nat
  OBVIOUS
<1>2. CASE MetaLen(bufIn) # 0 /\ ~(Len(bufIn) >= MetaLen(bufIn) + 1)
  <2>1. x = OwnBuffer(bufIn, MetaLen(bufIn))
    BY <1>2, Zenon DEF ExtractMetadata
  <2>2. Len(bufIn) < MetaLen(bufIn) + 1
    <3>1. Len(bufIn) \in Nat
      OBVIOUS
    <3> QED  BY <1>2, <3>1
  <2>3. x.took \in Nat /\ at + x.took <= Len(Sent) /\ x.ok \in BOOLEAN
    BY <2>1, <2>2, OwnBufferIs
  <2> QED  BY <1>1, <2>3
<1>3. CASE ~(MetaLen(bufIn) # 0 /\ ~(Len(bufIn) >= MetaLen(bufIn) + 1))
  <2>1. x.took = 0 /\ x.ok = TRUE
    BY <1>3 DEF ExtractMetadata
  <2>2. x.took = 0
    BY <2>1
  <2>3. x.took \in Nat /\ at + x.took = at
    BY <1>1, <2>2
  <2>4. x.ok \in BOOLEAN
    BY <2>1, Zenon
  <2> QED  BY <2>3, <2>4
<1> QED  BY <1>2, <1>3

StreamVarTypes(r) ==
    /\ r \in [pc : {"idle", "check"}, buf : Seq(StreamByte), n : Nat, checked : Nat, unchecked : Nat]
    /\ r.n <= Len(r.buf) /\ r.checked + r.unchecked <= r.n
    /\ r.pc = "idle" => r = NotReading

LEMMA NotReadingTyped == StreamVarTypes(NotReading)
BY DEF StreamVarTypes, NotReading

LEMMA TypesInit == StreamInit => StreamTypes
<1> SUFFICES ASSUME StreamInit PROVE StreamTypes
  OBVIOUS
<1>1. blocks \in [1 .. NBlocks -> Blocks] /\ at = 0 /\ pos = 0 /\ rd = NotReading
  BY DEF StreamInit
<1>2. cut \in BOOLEAN /\ ended \in BOOLEAN
  BY Zenon DEF StreamInit
<1>3. at \in 0 .. Len(Sent) /\ pos \in 0 .. MetaInt
  BY <1>1, StreamIs, StreamConstants
<1> QED  BY <1>1, <1>2, <1>3, NotReadingTyped, Zenon DEF StreamTypes, StreamVarTypes

LEMMA SentStands ==
    ASSUME blocks' = blocks
    PROVE  Sent' = Sent
BY DEF Sent

LEMMA TypesRead ==
    ASSUME StreamTypes, ReadBytes
    PROVE  StreamTypes'
<1>1. PICK size \in BufSizes : \E n \in 1 .. size :
          /\ at + n <= Len(Sent) /\ at' = at + n
          /\ rd' = [pc |-> "check", n |-> n, checked |-> 0, unchecked |-> n,
                    buf |-> [j \in 1 .. size |-> IF j <= n THEN Sent[at + j] ELSE Stale]]
  BY DEF ReadBytes
<1>2. PICK n \in 1 .. size :
          /\ at + n <= Len(Sent) /\ at' = at + n
          /\ rd' = [pc |-> "check", n |-> n, checked |-> 0, unchecked |-> n,
                    buf |-> [j \in 1 .. size |-> IF j <= n THEN Sent[at + j] ELSE Stale]]
  BY <1>1
<1>3. /\ blocks \in [1 .. NBlocks -> Blocks] /\ at \in 0 .. Len(Sent) /\ pos \in 0 .. MetaInt
      /\ cut \in BOOLEAN /\ ended \in BOOLEAN
  BY DEF StreamTypes
<1>4. UNCHANGED <<blocks, pos, cut, ended>> /\ Sent' = Sent
  BY SentStands DEF ReadBytes
<1>5. size \in Nat /\ n \in Nat /\ n <= size /\ at \in Nat /\ Len(Sent) \in Nat /\ Sent \in Seq(StreamByte)
  BY <1>3, StreamConstants, StreamIs
<1> DEFINE buf == [j \in 1 .. size |-> IF j <= n THEN Sent[at + j] ELSE Stale]
<1>6. buf \in Seq(StreamByte) /\ Len(buf) = size
  <2>1. \A j \in 1 .. size : j <= n => at + j \in 1 .. Len(Sent)
    BY <1>2, <1>5
  <2>2. \A i \in 1 .. Len(Sent) : Sent[i] \in StreamByte
    BY <1>5
  <2>3. Stale \in StreamByte
    BY ByteTypes
  <2>4. \A j \in 1 .. size : (IF j <= n THEN Sent[at + j] ELSE Stale) \in StreamByte
    BY <2>1, <2>2, <2>3
  <2> QED  BY <1>5, <2>4
<1> HIDE DEF buf
<1>7. rd' = [pc |-> "check", n |-> n, checked |-> 0, unchecked |-> n, buf |-> buf]
  BY <1>2 DEF buf
<1>8. StreamVarTypes(rd')
  BY <1>5, <1>6, <1>7 DEF StreamVarTypes
<1>9. at' \in 0 .. Len(Sent)
  BY <1>2, <1>5
<1> QED  BY <1>3, <1>4, <1>8, <1>9, Zenon DEF StreamTypes, StreamVarTypes

LEMMA TypesReturn ==
    ASSUME StreamTypes, ReadReturns
    PROVE  StreamTypes'
<1>1. /\ blocks \in [1 .. NBlocks -> Blocks] /\ at \in 0 .. Len(Sent) /\ pos \in 0 .. MetaInt
      /\ cut \in BOOLEAN /\ ended \in BOOLEAN /\ rd.unchecked \in Nat
  BY DEF StreamTypes
<1>2. UNCHANGED <<blocks, at, cut, ended>> /\ Sent' = Sent /\ rd' = NotReading /\ pos' = pos + rd.unchecked
      /\ ~(pos + rd.unchecked > MetaInt)
  BY SentStands DEF ReadReturns, CountBytes, AtBlock
<1>3. pos' \in 0 .. MetaInt
  BY <1>1, <1>2, StreamConstants, SMTT(60)
<1> QED  BY <1>1, <1>2, <1>3, NotReadingTyped, Zenon DEF StreamTypes, StreamVarTypes

\* What TakeBlock makes of the buffer and of the bytes that it counts.
Taken(r, from, skip, fits) ==
    IF fits THEN [r EXCEPT !.checked = from, !.n = @ - skip, !.unchecked = r.n - skip - from,
                           !.buf = Shifted(@, from, from + skip)]
    ELSE [r EXCEPT !.n = from, !.unchecked = 0]

LEMMA TakenTypes ==
    ASSUME NEW r, StreamVarTypes(r), r.pc = "check", NEW from \in Nat, NEW skip \in Nat,
           from < r.n, NEW fits \in BOOLEAN, fits => from + skip <= r.n,
           r.checked <= from
    PROVE  StreamVarTypes(Taken(r, from, skip, fits))
<1>1. /\ r \in [pc : {"idle", "check"}, buf : Seq(StreamByte), n : Nat, checked : Nat, unchecked : Nat]
      /\ r.n <= Len(r.buf) /\ r.checked + r.unchecked <= r.n
  BY DEF StreamVarTypes
<1>2. CASE fits
  <2> DEFINE new == Shifted(r.buf, from, from + skip)
             size == Len(r.buf)
  <2>1. size \in Nat /\ r.buf \in Seq(StreamByte) /\ DOMAIN r.buf = 1 .. size
    BY <1>1
  <2>2. new \in Seq(StreamByte) /\ Len(new) = Len(r.buf)
    <3>1. \A j \in 1 .. size : r.buf[j] \in StreamByte
      BY <2>1
    <3> HIDE DEF size
    <3>2. \A j \in 1 .. size : j + (from + skip - from) <= size => j + (from + skip - from) \in 1 .. size
      BY <2>1
    <3>3. new = [j \in 1 .. size |-> IF j > from /\ j + (from + skip - from) <= size
                                     THEN r.buf[j + (from + skip - from)] ELSE r.buf[j]]
      BY <2>1 DEF Shifted, size
    <3> HIDE DEF new
    <3> QED  BY <2>1, <3>1, <3>2, <3>3 DEF size
  <2> HIDE DEF new, size
  <2>3. Taken(r, from, skip, fits) = [r EXCEPT !.checked = from, !.n = r.n - skip,
                                               !.unchecked = r.n - skip - from, !.buf = new]
    BY <1>2 DEF Taken, new
  <2>4. r.n - skip \in Nat /\ r.n - skip - from \in Nat /\ r.n - skip <= Len(new)
        /\ from + (r.n - skip - from) <= r.n - skip
    BY <1>1, <1>2, <2>1, <2>2, SMTT(60) DEF size
  <2> QED  BY <1>1, <2>2, <2>3, <2>4 DEF StreamVarTypes
<1>3. CASE ~fits
  <2>1. Taken(r, from, skip, fits) = [r EXCEPT !.n = from, !.unchecked = 0]
    BY <1>3 DEF Taken
  <2>2. from <= Len(r.buf) /\ r.checked + 0 <= from
    BY <1>1
  <2> DEFINE t == [r EXCEPT !.n = from, !.unchecked = 0]
  <2>3. t \in [pc : {"idle", "check"}, buf : Seq(StreamByte), n : Nat, checked : Nat, unchecked : Nat]
    BY <1>1
  <2>4. t.n = from /\ t.buf = r.buf /\ t.checked = r.checked /\ t.unchecked = 0 /\ t.pc = "check"
    BY <1>1
  <2> HIDE DEF t
  <2>5. t.n <= Len(t.buf) /\ t.checked + t.unchecked <= t.n /\ t.pc # "idle"
    BY <2>2, <2>4
  <2>6. StreamVarTypes(t)
    BY <2>3, <2>5, Zenon DEF StreamVarTypes
  <2> QED  BY <2>1, <2>6 DEF t
<1> QED  BY <1>2, <1>3

\* One round of the loop, in the names that the proofs use.
Round(offset, from, bufIn, skip, x) ==
    /\ offset = MetaInt - pos /\ from = rd.checked + offset
    /\ bufIn = SubSeq(rd.buf, from + 1, Len(rd.buf)) /\ skip = MetaLen(bufIn) + 1
    /\ x = ExtractMetadata(bufIn)

LEMMA RoundTaken ==
    ASSUME TakeBlock, NEW offset, NEW from, NEW bufIn, NEW skip, NEW x, Round(offset, from, bufIn, skip, x)
    PROVE  /\ rd.pc = "check" /\ pos + rd.unchecked > MetaInt
           /\ at' = at + x.took /\ pos' = 0 /\ UNCHANGED <<blocks, out>>
           /\ cut' = (cut \/ (from + skip > rd.n /\ rd.n < Len(rd.buf)))
           /\ ended' = (ended \/ ~x.ok)
           /\ IF x.ok /\ x.text # <<>> /\ x.text # metadata
              THEN metadata' = x.text /\ told' = Append(told, x.text)
              ELSE UNCHANGED <<metadata, told>>
           /\ rd' = Taken(rd, from, skip, ~(offset + skip > rd.unchecked))
BY DEF TakeBlock, Round, AtBlock, Taken, Equals

\* Where the block is that the round takes.
LEMMA RoundTypes ==
    ASSUME StreamTypes, rd.pc = "check", pos + rd.unchecked > MetaInt,
           NEW offset, NEW from, NEW bufIn, NEW skip, NEW x, Round(offset, from, bufIn, skip, x)
    PROVE  /\ offset \in Nat /\ from \in Nat /\ skip \in Nat /\ skip >= 1 /\ MetaLen(bufIn) \in Nat
           /\ from < rd.n /\ rd.checked <= from /\ from < Len(rd.buf)
           /\ offset + skip <= rd.unchecked => from + skip <= rd.n
           /\ bufIn \in Seq(StreamByte) /\ Len(bufIn) = Len(rd.buf) - from
           /\ \A j \in 1 .. Len(rd.buf) - from : bufIn[j] = rd.buf[from + j]
           /\ bufIn[1] = rd.buf[from + 1]
           /\ x.took \in Nat /\ at + x.took \in 0 .. Len(Sent) /\ x.ok \in BOOLEAN
<1>1. /\ blocks \in [1 .. NBlocks -> Blocks] /\ at \in 0 .. Len(Sent) /\ pos \in Nat /\ pos <= MetaInt
      /\ rd.buf \in Seq(StreamByte) /\ rd.n \in Nat /\ rd.checked \in Nat /\ rd.unchecked \in Nat
      /\ rd.n <= Len(rd.buf) /\ rd.checked + rd.unchecked <= rd.n
  BY StreamConstants DEF StreamTypes
<1>2. Len(rd.buf) \in Nat
  BY <1>1
<1>3. /\ offset = MetaInt - pos /\ from = rd.checked + offset
      /\ bufIn = SubSeq(rd.buf, from + 1, Len(rd.buf)) /\ skip = MetaLen(bufIn) + 1
      /\ x = ExtractMetadata(bufIn)
  BY Zenon DEF Round
<1>4. offset \in Nat /\ from \in Nat /\ rd.checked <= from /\ from < rd.n /\ from < Len(rd.buf)
  <2>1. offset = MetaInt - pos /\ from = rd.checked + offset
    BY <1>3, Zenon
  <2>2. /\ pos \in Nat /\ pos <= MetaInt /\ rd.n \in Nat /\ rd.checked \in Nat /\ rd.unchecked \in Nat
        /\ rd.n <= Len(rd.buf) /\ rd.checked + rd.unchecked <= rd.n
    BY <1>1, Zenon
  <2> DEFINE size == Len(rd.buf)
  <2>3. size \in Nat /\ rd.n <= size /\ MetaInt \in Nat
    BY <1>2, <2>2, StreamConstants
  <2> HIDE DEF size
  <2>4. offset \in Nat /\ from \in Nat /\ rd.checked <= from
    BY <2>1, <2>2, <2>3, SMTT(60)
  <2>5. from < rd.n
    BY <2>1, <2>2, <2>3, SMTT(60)
  <2>6. from < size
    BY <2>2, <2>3, <2>4, <2>5
  <2> QED  BY <2>4, <2>5, <2>6 DEF size
<1>5. /\ bufIn \in Seq(StreamByte) /\ Len(bufIn) = Len(rd.buf) - from
      /\ \A j \in 1 .. Len(rd.buf) - from : bufIn[j] = rd.buf[from + j]
      /\ bufIn[1] = rd.buf[from + 1] /\ MetaLen(bufIn) \in Nat
  BY <1>1, <1>3, <1>4, RestOfBuffer, ZenonT(60)
<1>6. skip \in Nat /\ skip >= 1 /\ Len(bufIn) >= 1
  BY <1>2, <1>3, <1>4, <1>5, SMTT(60)
<1>7. offset + skip <= rd.unchecked => from + skip <= rd.n
  <2>1. rd.n \in Nat /\ rd.checked \in Nat /\ rd.unchecked \in Nat /\ rd.checked + rd.unchecked <= rd.n
    BY <1>1, Zenon
  <2>2. from = rd.checked + offset
    BY <1>3, Zenon
  <2> QED  BY <1>4, <1>6, <2>1, <2>2, SMTT(60)
<1>8. x.took \in Nat /\ at + x.took \in 0 .. Len(Sent) /\ x.ok \in BOOLEAN
  <2>1. Len(Sent) \in Nat
    BY <1>1, StreamIs
  <2> QED  BY <1>1, <1>3, <1>5, <1>6, <2>1, ExtractTypes, Zenon
<1> QED  BY <1>4, <1>5, <1>6, <1>7, <1>8, Zenon

LEMMA TypesTake ==
    ASSUME StreamTypes, TakeBlock
    PROVE  StreamTypes'
<1>1. PICK offset, from, bufIn, skip, x : Round(offset, from, bufIn, skip, x)
  BY Zenon DEF Round
<1>2. /\ rd.pc = "check" /\ pos + rd.unchecked > MetaInt
      /\ at' = at + x.took /\ pos' = 0 /\ UNCHANGED <<blocks, out>>
      /\ cut' = (cut \/ (from + skip > rd.n /\ rd.n < Len(rd.buf)))
      /\ ended' = (ended \/ ~x.ok)
      /\ rd' = Taken(rd, from, skip, ~(offset + skip > rd.unchecked))
  BY <1>1, RoundTaken, ZenonT(120)
<1>3. /\ from \in Nat /\ skip \in Nat /\ from < rd.n /\ rd.checked <= from
      /\ offset + skip <= rd.unchecked => from + skip <= rd.n
      /\ at + x.took \in 0 .. Len(Sent) /\ x.ok \in BOOLEAN /\ offset \in Nat
  BY <1>1, <1>2, RoundTypes, Zenon
<1>4. /\ blocks \in [1 .. NBlocks -> Blocks] /\ cut \in BOOLEAN /\ ended \in BOOLEAN
      /\ StreamVarTypes(rd) /\ rd.unchecked \in Nat
  <2>1. rd.unchecked \in Nat
    BY DEF StreamTypes
  <2> QED  BY <2>1, Zenon DEF StreamTypes, StreamVarTypes
<1>5. StreamVarTypes(rd')
  <2> DEFINE fits == ~(offset + skip > rd.unchecked)
  <2>1. fits \in BOOLEAN /\ (fits => from + skip <= rd.n)
    BY <1>3, <1>4
  <2> HIDE DEF fits
  <2>2. StreamVarTypes(Taken(rd, from, skip, fits))
    BY <1>2, <1>3, <1>4, <2>1, TakenTypes, Zenon
  <2> QED  BY <1>2, <2>2 DEF fits
<1>6. Sent' = Sent /\ pos' \in 0 .. MetaInt
  BY <1>2, SentStands, StreamConstants
<1>7. cut' \in BOOLEAN /\ ended' \in BOOLEAN
  BY <1>2, <1>4, Zenon
<1> QED  BY <1>2, <1>3, <1>4, <1>5, <1>6, <1>7, Zenon DEF StreamTypes, StreamVarTypes

-----------------------------------------------------------------------------
(* Read keeps its place in the stream.                                     *)

LEMMA NextIsAt ==
    ASSUME blocks \in [1 .. NBlocks -> Blocks], NEW k \in 0 .. NBlocks, k # NBlocks
    PROVE  /\ BlockAt(blocks, k + 1, k, Sent) /\ k \in Nat /\ k + 1 \in 1 .. NBlocks
           /\ k * MetaInt \in Nat /\ (k + 1) * MetaInt = k * MetaInt + MetaInt
<1>1. k + 1 \in 1 .. NBlocks /\ k + 1 - 1 = k /\ k \in Nat
  BY StreamConstants
<1>2. BlockAt(blocks, k + 1, k + 1 - 1, SentOf(blocks, NBlocks))
  BY <1>1, BlockIsAt
<1>3. BlockAt(blocks, k + 1, k, Sent)
  BY <1>1, <1>2, StreamIs
<1>4. k * MetaInt \in Nat /\ (k + 1) * MetaInt = k * MetaInt + MetaInt
  BY <1>1, StreamConstants
<1> QED  BY <1>1, <1>3, <1>4

LEMMA SplitInit ==
    ASSUME StreamInit
    PROVE  SplitAt(0)
<1>1. /\ blocks \in [1 .. NBlocks -> Blocks] /\ at = 0 /\ pos = 0 /\ metadata = <<>>
      /\ rd = NotReading /\ out = <<>> /\ told = <<>>
  BY DEF StreamInit
<1>2. rd.n = 0 /\ rd.checked = 0 /\ rd.unchecked = 0
  BY <1>1 DEF NotReading
<1>3. SentOf(blocks, 0) = <<>> /\ AnnouncedOf(blocks, 0) = <<>>
  <2>1. 0 \in 0 .. NBlocks
    BY StreamConstants
  <2> QED  BY <1>1, <2>1, SentGrows, AnnouncedGrows
<1>4. at - rd.unchecked = Len(SentOf(blocks, 0)) + pos /\ Len(out) + (rd.n - rd.unchecked) = 0 * MetaInt + pos
  BY <1>1, <1>2, <1>3, StreamConstants
<1>5. told = Changes(AnnouncedOf(blocks, 0)) /\ metadata = LastOf(AnnouncedOf(blocks, 0))
  BY <1>1, <1>3, NoChanges DEF LastOf
<1>6. out \in Seq(StreamByte) /\ \A i \in 1 .. Len(out) : out[i] = Byte("audio", i)
  BY <1>1
<1>7. rd.checked + rd.unchecked = rd.n
      /\ \A j \in 1 .. rd.n - rd.unchecked : rd.buf[j] = Byte("audio", Len(out) + j)
  BY <1>2
<1>8. \A j \in 1 .. rd.unchecked : rd.buf[rd.n - rd.unchecked + j] = Sent[at - rd.unchecked + j]
  BY <1>2
<1> QED  BY <1>1, <1>4, <1>5, <1>6, <1>7, <1>8, Zenon DEF SplitAt

LEMMA SplitRead ==
    ASSUME StreamTypes, NEW k \in 0 .. NBlocks, SplitAt(k), ReadBytes
    PROVE  SplitAt(k)'
<1>1. PICK size \in BufSizes : \E n \in 1 .. size :
          /\ at + n <= Len(Sent) /\ at' = at + n
          /\ rd' = [pc |-> "check", n |-> n, checked |-> 0, unchecked |-> n,
                    buf |-> [j \in 1 .. size |-> IF j <= n THEN Sent[at + j] ELSE Stale]]
  BY DEF ReadBytes
<1>2. PICK n \in 1 .. size :
          /\ at + n <= Len(Sent) /\ at' = at + n
          /\ rd' = [pc |-> "check", n |-> n, checked |-> 0, unchecked |-> n,
                    buf |-> [j \in 1 .. size |-> IF j <= n THEN Sent[at + j] ELSE Stale]]
  BY <1>1
<1>3. /\ UNCHANGED <<blocks, pos, metadata, out, told>> /\ Sent' = Sent /\ rd.pc = "idle"
  BY SentStands DEF ReadBytes
<1>4. rd.n = 0 /\ rd.unchecked = 0 /\ at \in Nat /\ size \in Nat /\ n \in Nat /\ n <= size
  <2>1. rd = NotReading /\ at \in Nat
    BY <1>3 DEF StreamTypes
  <2>2. size \in Nat
    BY StreamConstants
  <2> QED  BY <2>1, <2>2 DEF NotReading
<1>5. /\ rd'.n = n /\ rd'.checked = 0 /\ rd'.unchecked = n
      /\ rd'.buf = [j \in 1 .. size |-> IF j <= n THEN Sent[at + j] ELSE Stale]
  BY <1>2
<1>6. /\ at - rd.unchecked = Len(SentOf(blocks, k)) + pos
      /\ k = NBlocks => pos = 0
      /\ Len(out) + (rd.n - rd.unchecked) = k * MetaInt + pos
      /\ out \in Seq(StreamByte) /\ \A i \in 1 .. Len(out) : out[i] = Byte("audio", i)
      /\ told = Changes(AnnouncedOf(blocks, k)) /\ metadata = LastOf(AnnouncedOf(blocks, k))
  BY Zenon DEF SplitAt
<1>7. at' - rd'.unchecked = at - rd.unchecked /\ rd'.n - rd'.unchecked = rd.n - rd.unchecked
      /\ rd'.checked + rd'.unchecked = rd'.n
  BY <1>2, <1>4, <1>5
<1>8. \A j \in 1 .. rd'.n - rd'.unchecked : rd'.buf[j] = Byte("audio", Len(out) + j)
  BY <1>4, <1>5
<1>9. \A j \in 1 .. rd'.unchecked : rd'.buf[rd'.n - rd'.unchecked + j] = Sent[at' - rd'.unchecked + j]
  <2>1. rd'.n - rd'.unchecked = 0 /\ at' - rd'.unchecked = at /\ rd'.unchecked = n
    BY <1>2, <1>4, <1>5
  <2>2. ASSUME NEW j \in 1 .. n PROVE rd'.buf[0 + j] = Sent[at + j]
    <3>1. 0 + j = j /\ j \in 1 .. size /\ j <= n
      BY <1>4
    <3> QED  BY <1>5, <3>1
  <2> QED  BY <2>1, <2>2
<1> QED  BY <1>3, <1>6, <1>7, <1>8, <1>9, Zenon DEF SplitAt

\* The parts of the invariant, with what they say of types.
LEMMA SplitParts ==
    ASSUME StreamTypes, NEW k \in 0 .. NBlocks, SplitAt(k)
    PROVE  /\ at = Len(SentOf(blocks, k)) + pos + rd.unchecked
           /\ Len(out) + (rd.n - rd.unchecked) = k * MetaInt + pos
           /\ Len(SentOf(blocks, k)) \in Nat /\ k * MetaInt \in Nat /\ Len(out) \in Nat /\ at \in Nat
           /\ Len(Sent) \in Nat /\ at <= Len(Sent) /\ pos \in Nat /\ pos <= MetaInt
           /\ rd.n \in Nat /\ rd.checked \in Nat /\ rd.unchecked \in Nat /\ rd.unchecked <= rd.n
           /\ rd.checked + rd.unchecked <= rd.n
           /\ rd.checked + rd.unchecked = rd.n \/ (rd.unchecked = 0 /\ pos = 0)
           /\ k = NBlocks => pos = 0 /\ rd.unchecked = 0 /\ at = Len(Sent)
           /\ blocks \in [1 .. NBlocks -> Blocks] /\ out \in Seq(StreamByte)
           /\ rd.buf \in Seq(StreamByte) /\ Len(rd.buf) \in Nat /\ rd.n <= Len(rd.buf)
<1>1. /\ blocks \in [1 .. NBlocks -> Blocks] /\ at \in Nat /\ at <= Len(Sent) /\ pos \in Nat /\ pos <= MetaInt
      /\ rd.n \in Nat /\ rd.checked \in Nat /\ rd.unchecked \in Nat
      /\ rd.buf \in Seq(StreamByte) /\ rd.n <= Len(rd.buf) /\ rd.checked + rd.unchecked <= rd.n
  <2>1. /\ blocks \in [1 .. NBlocks -> Blocks] /\ at \in 0 .. Len(Sent) /\ pos \in 0 .. MetaInt
        /\ rd \in [pc : {"idle", "check"}, buf : Seq(StreamByte), n : Nat, checked : Nat, unchecked : Nat]
        /\ rd.n <= Len(rd.buf) /\ rd.checked + rd.unchecked <= rd.n
    BY Zenon DEF StreamTypes
  <2>2. Len(Sent) \in Nat
    BY <2>1, StreamIs
  <2> QED  BY <2>1, <2>2, StreamConstants
<1>2. /\ at - rd.unchecked = Len(SentOf(blocks, k)) + pos
      /\ Len(out) + (rd.n - rd.unchecked) = k * MetaInt + pos
      /\ k = NBlocks => pos = 0 /\ out \in Seq(StreamByte)
      /\ rd.checked + rd.unchecked = rd.n \/ (rd.unchecked = 0 /\ pos = 0)
      /\ out \in Seq(StreamByte)
  BY Zenon DEF SplitAt
<1>3. SentOf(blocks, k) \in Seq(StreamByte)
  BY <1>1, SentGrows
<1>4. /\ Len(SentOf(blocks, k)) \in Nat /\ Len(out) \in Nat /\ Len(Sent) \in Nat /\ Len(rd.buf) \in Nat
      /\ Sent = SentOf(blocks, NBlocks)
  BY <1>1, <1>2, <1>3, StreamIs, SMTT(120)
<1>5. k * MetaInt \in Nat
  BY StreamConstants
<1> DEFINE F == Len(SentOf(blocks, k))
           L == Len(Sent)
<1>6. at = F + pos + rd.unchecked /\ rd.unchecked <= rd.n
  <2> HIDE DEF F
  <2>1. F \in Nat /\ at - rd.unchecked = F + pos
    BY <1>2, <1>4 DEF F
  <2> QED  BY <1>1, <2>1, SMTT(60)
<1>7. k = NBlocks => pos = 0 /\ rd.unchecked = 0 /\ at = L
  <2>1. k = NBlocks => F = L
    BY <1>4
  <2>2. F \in Nat /\ L \in Nat /\ at <= L
    BY <1>1, <1>4
  <2> HIDE DEF F, L
  <2> QED  BY <1>1, <1>2, <1>6, <2>1, <2>2, SMTT(60)
<1> QED  BY <1>1, <1>2, <1>4, <1>5, <1>6, <1>7, Zenon DEF F, L

\* The bytes before the next block, whether Read has looked at them or not, are audio.
LEMMA AudioBefore ==
    ASSUME StreamTypes, NEW k \in 0 .. NBlocks, SplitAt(k), NEW m \in Nat, m <= rd.unchecked, pos + m <= MetaInt
    PROVE  \A j \in 1 .. (rd.n - rd.unchecked) + m : rd.buf[j] = Byte("audio", Len(out) + j)
<1> DEFINE F == Len(SentOf(blocks, k))
           looked == rd.n - rd.unchecked
<1>1. /\ at = F + pos + rd.unchecked /\ Len(out) + looked = k * MetaInt + pos
      /\ F \in Nat /\ k * MetaInt \in Nat /\ Len(out) \in Nat /\ at \in Nat /\ pos \in Nat
      /\ rd.n \in Nat /\ rd.unchecked \in Nat /\ looked \in Nat
      /\ k = NBlocks => rd.unchecked = 0
      /\ blocks \in [1 .. NBlocks -> Blocks]
  BY SplitParts, SMTT(40)
<1>2. /\ \A j \in 1 .. looked : rd.buf[j] = Byte("audio", Len(out) + j)
      /\ \A j \in 1 .. rd.unchecked : rd.buf[looked + j] = Sent[at - rd.unchecked + j]
  BY Zenon DEF SplitAt
<1> HIDE DEF looked, F
<1> SUFFICES ASSUME NEW j \in 1 .. looked + m PROVE rd.buf[j] = Byte("audio", Len(out) + j)
  BY Zenon DEF looked
<1>3. CASE j <= looked
  <2>1. j \in 1 .. looked
    BY <1>1, <1>3
  <2> QED  BY <1>2, <2>1
<1>4. CASE j > looked
  <2> DEFINE i == j - looked
  <2>1. i \in 1 .. m /\ i \in 1 .. rd.unchecked /\ j = looked + i /\ pos + i \in 1 .. MetaInt /\ rd.unchecked # 0
        /\ i \in Nat
    BY <1>1, <1>4, StreamConstants, SMTT(60)
  <2>2. \A h \in 1 .. MetaInt : Sent[F + h] = Byte("audio", k * MetaInt + h)
    <3>1. BlockAt(blocks, k + 1, k, Sent)
      BY <1>1, <2>1, NextIsAt
    <3> QED  BY <3>1, Zenon DEF BlockAt, F
  <2> HIDE DEF i
  <2>3. rd.buf[j] = Sent[at - rd.unchecked + i]
    BY <1>2, <2>1
  <2>4. at - rd.unchecked + i = F + (pos + i)
    BY <1>1, <2>1, SMTT(60)
  <2>5. Sent[F + (pos + i)] = Byte("audio", k * MetaInt + (pos + i))
    BY <2>1, <2>2
  <2>6. k * MetaInt + (pos + i) = Len(out) + j
    <3> DEFINE t == k * MetaInt
    <3>1. t \in Nat /\ Len(out) + looked = t + pos
      BY <1>1
    <3>2. Len(out) \in Nat /\ looked \in Nat /\ pos \in Nat /\ i \in Nat /\ j = looked + i
      BY <1>1, <2>1, Zenon
    <3> HIDE DEF t
    <3>3. t + (pos + i) = Len(out) + j
      BY <3>1, <3>2
    <3> QED  BY <3>3 DEF t
  <2> QED  BY <2>3, <2>4, <2>5, <2>6
<1>5. looked \in Nat /\ j \in Nat
  BY <1>1
<1> QED  BY <1>3, <1>4, <1>5

LEMMA SplitReturn ==
    ASSUME StreamTypes, NEW k \in 0 .. NBlocks, SplitAt(k), ReadReturns
    PROVE  SplitAt(k)'
<1> DEFINE F == Len(SentOf(blocks, k))
           looked == rd.n - rd.unchecked
           t == k * MetaInt
           part == SubSeq(rd.buf, 1, rd.n)
<1>1. /\ UNCHANGED <<blocks, at, metadata, told>> /\ Sent' = Sent /\ rd' = NotReading
      /\ pos' = pos + rd.unchecked /\ ~(pos + rd.unchecked > MetaInt)
      /\ out' = out \o part
  BY SentStands DEF ReadReturns, CountBytes, AtBlock
<1>2. /\ at = F + pos + rd.unchecked /\ Len(out) + looked = t + pos
      /\ F \in Nat /\ t \in Nat /\ Len(out) \in Nat /\ at \in Nat /\ pos \in Nat
      /\ rd.n \in Nat /\ rd.unchecked \in Nat /\ looked \in Nat /\ rd.unchecked <= rd.n
      /\ k = NBlocks => rd.unchecked = 0 /\ pos = 0
      /\ rd.buf \in Seq(StreamByte) /\ rd.n <= Len(rd.buf) /\ out \in Seq(StreamByte)
  BY SplitParts, SMTT(60)
<1>3. \A j \in 1 .. rd.n : rd.buf[j] = Byte("audio", Len(out) + j)
  <2>1. pos + rd.unchecked <= MetaInt
    BY <1>1, <1>2, StreamConstants, SMTT(60)
  <2>2. \A j \in 1 .. looked + rd.unchecked : rd.buf[j] = Byte("audio", Len(out) + j)
    <3>1. rd.unchecked <= rd.unchecked
      BY <1>2, SMTT(60)
    <3> HIDE DEF looked
    <3>2. \A j \in 1 .. (rd.n - rd.unchecked) + rd.unchecked : rd.buf[j] = Byte("audio", Len(out) + j)
      BY <1>2, <2>1, <3>1, AudioBefore, Zenon
    <3> QED  BY <3>2, Zenon DEF looked
  <2>3. looked + rd.unchecked = rd.n
    BY <1>2, SMTT(60)
  <2> QED  BY <2>2, <2>3
<1>4. part \in Seq(StreamByte) /\ Len(part) = rd.n /\ \A j \in 1 .. rd.n : part[j] = rd.buf[j]
  <2> DEFINE n == rd.n
             buf == rd.buf
  <2>1. /\ n \in Nat /\ buf \in Seq(StreamByte) /\ n <= Len(buf) /\ part = SubSeq(buf, 1, n)
        /\ \A j \in 1 .. n : buf[j] \in StreamByte
    BY <1>2, SMTT(40)
  <2> HIDE DEF n, buf, part
  <2>2. part \in Seq(StreamByte) /\ Len(part) = n /\ \A j \in 1 .. n : part[j] = buf[j]
    <3>1. 1 \in 1 .. Len(buf) + 1 /\ n \in 1 - 1 .. Len(buf)
      BY <2>1
    <3>2. /\ part \in Seq(StreamByte) /\ Len(part) = n - 1 + 1
          /\ \A j \in 1 .. n - 1 + 1 : part[j] = buf[1 + j - 1]
      BY <2>1, <3>1, SubSeqProperties
    <3>3. n - 1 + 1 = n /\ \A j \in 1 .. n : 1 + j - 1 = j
      BY <2>1
    <3> QED  BY <3>2, <3>3
  <2> QED  BY <2>2 DEF n, buf
<1> HIDE DEF part, looked, t, F
<1>5. Joins(StreamByte, out, part, out')
  BY <1>1, <1>2, <1>4, AppendedPart
<1>6. /\ out' \in Seq(StreamByte) /\ Len(out') = Len(out) + rd.n
      /\ \A i \in 1 .. Len(out) : out'[i] = out[i]
      /\ \A j \in 1 .. rd.n : out'[Len(out) + j] = part[j]
  <2>1. /\ out' \in Seq(StreamByte) /\ Len(out') = Len(out) + Len(part)
        /\ \A i \in 1 .. Len(out) : out'[i] = out[i]
        /\ \A j \in 1 .. Len(part) : out'[Len(out) + j] = part[j]
    BY <1>5, Zenon DEF Joins
  <2> QED  BY <1>4, <2>1
<1>7. \A i \in 1 .. Len(out) : out[i] = Byte("audio", i)
  BY Zenon DEF SplitAt
<1>8. \A i \in 1 .. Len(out') : out'[i] = Byte("audio", i)
  <2> SUFFICES ASSUME NEW i \in 1 .. Len(out) + rd.n PROVE out'[i] = Byte("audio", i)
    BY <1>6
  <2>1. CASE i <= Len(out)
    <3>1. i \in 1 .. Len(out)
      BY <1>2, <2>1
    <3> QED  BY <1>6, <1>7, <3>1
  <2>2. CASE i > Len(out)
    <3>1. i - Len(out) \in 1 .. rd.n /\ Len(out) + (i - Len(out)) = i
      BY <1>2, <2>2, SMTT(60)
    <3>2. out'[Len(out) + (i - Len(out))] = Byte("audio", Len(out) + (i - Len(out)))
      BY <1>3, <1>4, <1>6, <3>1, SMTT(60)
    <3> QED  BY <3>1, <3>2
  <2> QED  BY <1>2, <2>1, <2>2
<1>9. rd'.n = 0 /\ rd'.checked = 0 /\ rd'.unchecked = 0
  BY <1>1 DEF NotReading
<1>10. at' - rd'.unchecked = F + pos' /\ Len(out') + (rd'.n - rd'.unchecked) = t + pos'
  <2>1. looked + rd.unchecked = rd.n
    BY <1>2, SMTT(60) DEF looked
  <2>2. F \in Nat /\ t \in Nat /\ pos \in Nat /\ looked \in Nat /\ Len(out) \in Nat /\ rd.unchecked \in Nat
        /\ rd.n \in Nat
    BY <1>2, Zenon
  <2>3. at = F + pos + rd.unchecked /\ Len(out) + looked = t + pos
    BY <1>2, Zenon
  <2>4. at' - 0 = F + (pos + rd.unchecked)
    BY <1>1, <2>2, <2>3, SMTT(40)
  <2>5. Len(out) + rd.n + (0 - 0) = t + (pos + rd.unchecked)
    <3>1. \A l, n, u, w, q, p \in Nat : w + u = n /\ l + w = q + p => l + n + (0 - 0) = q + (p + u)
      OBVIOUS
    <3>2. Len(out) \in Nat /\ looked + rd.unchecked = rd.n /\ Len(out) + looked = t + pos
      BY <2>1, <2>2, <2>3, Zenon
    <3> QED  BY <2>2, <3>1, <3>2, SMTT(120)
  <2> QED  BY <1>1, <1>6, <1>9, <2>4, <2>5
<1>11. (k = NBlocks => pos' = 0) /\ rd'.checked + rd'.unchecked = rd'.n
  BY <1>1, <1>2, <1>9
<1>12. /\ \A j \in 1 .. rd'.n - rd'.unchecked : rd'.buf[j] = Byte("audio", Len(out') + j)
       /\ \A j \in 1 .. rd'.unchecked : rd'.buf[rd'.n - rd'.unchecked + j] = Sent[at' - rd'.unchecked + j]
  BY <1>9
<1>13. told = Changes(AnnouncedOf(blocks, k)) /\ metadata = LastOf(AnnouncedOf(blocks, k))
  BY Zenon DEF SplitAt
<1>14. at' - rd'.unchecked = Len(SentOf(blocks', k)) + pos' /\ Len(out') + (rd'.n - rd'.unchecked) = k * MetaInt + pos'
  BY <1>1, <1>10 DEF F, t
<1> QED  BY <1>1, <1>6, <1>8, <1>11, <1>12, <1>13, <1>14, Zenon DEF SplitAt

\* What a round of the loop finds: the k-th block ends at the byte from of the buffer.
Finds(k, from, bufIn) ==
    LET F == Len(SentOf(blocks, k))
    IN /\ k # NBlocks /\ rd.checked + rd.unchecked = rd.n
       /\ at = F + MetaInt + (rd.n - from)
       /\ Len(out) + from = (k + 1) * MetaInt
       /\ MetaLen(bufIn) = blocks[k + 1].units * MetaUnit
       /\ \A j \in 1 .. from : rd.buf[j] = Byte("audio", Len(out) + j)
       /\ \A j \in 1 .. rd.n - from : rd.buf[from + j] = Sent[F + MetaInt + j]

LEMMA RoundFinds ==
    ASSUME StreamTypes, NEW k \in 0 .. NBlocks, SplitAt(k), rd.pc = "check", pos + rd.unchecked > MetaInt,
           NEW offset, NEW from, NEW bufIn, NEW skip, NEW x, Round(offset, from, bufIn, skip, x)
    PROVE  Finds(k, from, bufIn)
<1> DEFINE F == Len(SentOf(blocks, k))
           t == k * MetaInt
<1>1. /\ at = F + pos + rd.unchecked /\ Len(out) + (rd.n - rd.unchecked) = t + pos
      /\ F \in Nat /\ t \in Nat /\ Len(out) \in Nat /\ at \in Nat /\ pos \in Nat /\ pos <= MetaInt
      /\ rd.n \in Nat /\ rd.unchecked \in Nat /\ rd.checked \in Nat /\ rd.unchecked <= rd.n
      /\ rd.checked + rd.unchecked = rd.n \/ (rd.unchecked = 0 /\ pos = 0)
      /\ k = NBlocks => rd.unchecked = 0 /\ pos = 0
      /\ blocks \in [1 .. NBlocks -> Blocks]
  BY SplitParts, Zenon
<1>2. /\ offset \in Nat /\ from \in Nat /\ from < rd.n /\ bufIn[1] = rd.buf[from + 1]
      /\ offset = MetaInt - pos /\ from = rd.checked + offset
  <2>1. offset \in Nat /\ from \in Nat /\ from < rd.n /\ bufIn[1] = rd.buf[from + 1]
    BY RoundTypes, ZenonT(60)
  <2> QED  BY <2>1, Zenon DEF Round
<1> HIDE DEF F, t
<1>3. MetaInt \in Nat /\ MetaInt >= 1
  BY StreamConstants
<1>4. k # NBlocks /\ rd.checked + rd.unchecked = rd.n
  <2>1. ~(rd.unchecked = 0 /\ pos = 0)
    BY <1>3
  <2> QED  BY <1>1, <2>1, Zenon
<1>5. /\ at = F + MetaInt + (rd.n - from) /\ Len(out) + from = t + MetaInt
      /\ from = (rd.n - rd.unchecked) + offset /\ offset <= rd.unchecked /\ pos + offset <= MetaInt
      /\ rd.n - rd.unchecked = rd.checked /\ rd.n - from = rd.unchecked - offset
  <2>1. /\ at = F + pos + rd.unchecked /\ Len(out) + (rd.n - rd.unchecked) = t + pos
        /\ F \in Nat /\ t \in Nat /\ Len(out) \in Nat /\ pos \in Nat /\ pos <= MetaInt
        /\ rd.n \in Nat /\ rd.unchecked \in Nat /\ rd.checked \in Nat
    BY <1>1, Zenon
  <2>2. rd.n - rd.unchecked = rd.checked
    BY <1>4, <2>1, SMTT(60)
  <2>3. MetaInt \in Nat /\ offset \in Nat /\ from \in Nat /\ pos + rd.unchecked > MetaInt
        /\ rd.checked + rd.unchecked = rd.n /\ offset = MetaInt - pos /\ from = rd.checked + offset
    BY <1>2, <1>3, <1>4, Zenon
  <2> DEFINE n == rd.n
             u == rd.unchecked
             c == rd.checked
             l == Len(out)
             h == F + pos + u
  <2>4. /\ F \in Nat /\ t \in Nat /\ l \in Nat /\ pos \in Nat /\ n \in Nat /\ u \in Nat /\ c \in Nat
        /\ l + c = t + pos /\ c + u = n /\ from = c + offset /\ pos + u > MetaInt /\ n - u = c
    BY <2>1, <2>2, <2>3
  <2> HIDE DEF n, u, c, l
  <2>6. /\ from = (n - u) + offset /\ offset <= u /\ pos + offset <= MetaInt
        /\ n - u = c /\ n - from = u - offset
    BY <2>3, <2>4
  <2>8. l + from = t + MetaInt
    <3>1. l + c + offset = t + pos + offset
      BY <2>4
    <3> QED  BY <2>3, <2>4, <3>1
  <2>5. h = F + MetaInt + (n - from)
    <3>1. n - from = u - (MetaInt - pos)
      BY <2>3, <2>6, Zenon
    <3>2. F + MetaInt + (u - (MetaInt - pos)) = F + pos + u
      BY <2>3, <2>4
    <3> QED  BY <3>1, <3>2
  <2> HIDE DEF h
  <2>7. at = h
    BY <2>1, Zenon DEF h, u
  <2> QED  BY <2>5, <2>6, <2>7, <2>8, Zenon DEF n, u, c, l
<1>6. /\ BlockAt(blocks, k + 1, k, Sent) /\ (k + 1) * MetaInt = t + MetaInt
  BY <1>1, <1>4, NextIsAt DEF t
<1>7. \A j \in 1 .. from : rd.buf[j] = Byte("audio", Len(out) + j)
  <2>1. \A j \in 1 .. (rd.n - rd.unchecked) + offset : rd.buf[j] = Byte("audio", Len(out) + j)
    BY <1>2, <1>5, AudioBefore, Zenon
  <2> QED  BY <1>5, <2>1
<1>8. \A j \in 1 .. rd.n - from : rd.buf[from + j] = Sent[F + MetaInt + j]
  <2>1. \A j \in 1 .. rd.unchecked : rd.buf[rd.n - rd.unchecked + j] = Sent[at - rd.unchecked + j]
    BY Zenon DEF SplitAt
  <2> SUFFICES ASSUME NEW j \in 1 .. rd.n - from PROVE rd.buf[from + j] = Sent[F + MetaInt + j]
    OBVIOUS
  <2>2. /\ offset + j \in 1 .. rd.unchecked
        /\ rd.n - rd.unchecked + (offset + j) = from + j
    <3>1. /\ rd.n \in Nat /\ rd.unchecked \in Nat /\ offset \in Nat /\ from \in Nat
          /\ rd.n - from = rd.unchecked - offset /\ from = (rd.n - rd.unchecked) + offset
      BY <1>1, <1>2, <1>5, Zenon
    <3> QED  BY <3>1
  <2>3. at - rd.unchecked + (offset + j) = F + MetaInt + j
    <3>1. /\ at = F + pos + rd.unchecked /\ F \in Nat /\ pos \in Nat /\ rd.unchecked \in Nat /\ j \in Nat
      BY <1>1, <1>2
    <3> QED  BY <1>2, <1>3, <3>1
  <2>4. rd.buf[rd.n - rd.unchecked + (offset + j)] = Sent[at - rd.unchecked + (offset + j)]
    BY <2>1, <2>2, Zenon
  <2> QED  BY <2>2, <2>3, <2>4
<1>9. MetaLen(bufIn) = blocks[k + 1].units * MetaUnit
  <2>1. Sent[F + MetaInt + 1] = Byte("length", blocks[k + 1].units)
    BY <1>6, Zenon DEF BlockAt, F
  <2>2. 1 \in 1 .. rd.n - from
    BY <1>1, <1>2, SMTT(40)
  <2>3. bufIn[1] = Byte("length", blocks[k + 1].units)
    BY <1>2, <1>8, <2>1, <2>2, Zenon
  <2>4. bufIn[1].n = blocks[k + 1].units
    BY <2>3 DEF Byte
  <2> QED  BY <2>4 DEF MetaLen
<1>10. Len(out) + from = (k + 1) * MetaInt
  BY <1>5, <1>6
<1> QED  BY <1>4, <1>5, <1>7, <1>8, <1>9, <1>10, Zenon DEF Finds, F

\* The text that extractMetadata gives is the block's, wherever it gets its bytes.
LEMMA RoundText ==
    ASSUME StreamTypes, NEW k \in 0 .. NBlocks, SplitAt(k), rd.pc = "check", pos + rd.unchecked > MetaInt,
           NEW offset, NEW from, NEW bufIn, NEW skip, NEW x, Round(offset, from, bufIn, skip, x),
           from + skip <= rd.n \/ rd.n = Len(rd.buf)
    PROVE  /\ x.ok = TRUE
           /\ x.text = IF blocks[k + 1].units = 0 THEN <<>> ELSE Text(blocks[k + 1])
           /\ at + x.took = IF from + skip <= rd.n THEN at ELSE Len(SentOf(blocks, k + 1))
<1> DEFINE F == Len(SentOf(blocks, k))
           size == blocks[k + 1].units * MetaUnit
           text == Text(blocks[k + 1])
           n == rd.n
           E == Len(SentOf(blocks, k + 1))
<1>1. Finds(k, from, bufIn)
  BY RoundFinds, Zenon
<1>2. /\ k # NBlocks /\ at = F + MetaInt + (n - from) /\ MetaLen(bufIn) = size
      /\ \A j \in 1 .. n - from : rd.buf[from + j] = Sent[F + MetaInt + j]
  BY <1>1, Zenon DEF Finds
<1>3. /\ from \in Nat /\ from < n /\ bufIn \in Seq(StreamByte) /\ Len(bufIn) = Len(rd.buf) - from
      /\ \A j \in 1 .. Len(rd.buf) - from : bufIn[j] = rd.buf[from + j]
  <2> HIDE DEF n
  <2>1. /\ from \in Nat /\ from < rd.n /\ bufIn \in Seq(StreamByte) /\ Len(bufIn) = Len(rd.buf) - from
        /\ \A j \in 1 .. Len(rd.buf) - from : bufIn[j] = rd.buf[from + j]
    BY RoundTypes
  <2> QED  BY <2>1, Zenon DEF n
<1>4. skip = size + 1 /\ x = ExtractMetadata(bufIn)
  BY <1>2, Zenon DEF Round
<1>5. /\ F \in Nat /\ at \in Nat /\ n \in Nat /\ Len(rd.buf) \in Nat /\ n <= Len(rd.buf) /\ Len(Sent) \in Nat
      /\ at <= Len(Sent) /\ blocks \in [1 .. NBlocks -> Blocks] /\ MetaInt \in Nat
  BY SplitParts, StreamConstants, Zenon
<1>6. BlockAt(blocks, k + 1, k, Sent) /\ k + 1 \in 1 .. NBlocks
  BY <1>2, <1>5, NextIsAt, Zenon
<1>7. /\ size \in Nat /\ E = F + MetaInt + 1 + size /\ E <= Len(Sent)
      /\ \A j \in 1 .. size : Sent[F + MetaInt + 1 + j] = text[j]
  BY <1>6, Zenon DEF BlockAt
<1>8. text \in Seq(StreamByte) /\ Len(text) = size /\ (blocks[k + 1].units = 0 => size = 0)
      /\ (blocks[k + 1].units # 0 => size # 0)
  <2>1. /\ text \in Seq(StreamByte) /\ Len(text) = size /\ blocks[k + 1].units \in Nat
    BY <1>5, <1>6, BlockShape, Zenon
  <2>2. blocks[k + 1].units = 0 => size = 0
    BY StreamConstants
  <2>3. blocks[k + 1].units # 0 => size # 0
    BY <2>1, StreamConstants
  <2> QED  BY <2>1, <2>2, <2>3
<1>9. \A j \in 1 .. size : j + 1 <= n - from => bufIn[j + 1] = text[j]
  <2> SUFFICES ASSUME NEW j \in 1 .. size, j + 1 <= n - from PROVE bufIn[j + 1] = text[j]
    OBVIOUS
  <2> HIDE DEF F, size, text
  <2>1. j + 1 \in 1 .. n - from /\ j + 1 \in 1 .. Len(rd.buf) - from
    <3> HIDE DEF n
    <3>1. PICK l : l = Len(rd.buf)
      OBVIOUS
    <3>2. from \in Nat /\ n \in Nat /\ l \in Nat /\ n <= l /\ size \in Nat
      BY <1>3, <1>5, <1>7, <3>1, Zenon
    <3>3. j \in Nat /\ j >= 1
      BY <3>2
    <3>4. j + 1 \in 1 .. n - from /\ j + 1 \in 1 .. l - from
      BY <3>2, <3>3
    <3> QED  BY <3>1, <3>4, Zenon
  <2>2. bufIn[j + 1] = Sent[F + MetaInt + (j + 1)]
    BY <1>2, <1>3, <2>1
  <2>3. F + MetaInt + (j + 1) = F + MetaInt + 1 + j
    BY <1>5, <1>7
  <2> QED  BY <1>7, <2>2, <2>3
<1> HIDE DEF F, size, text, n, E
<1>10. CASE size = 0
  <2>1. x.text = <<>> /\ x.took = 0 /\ x.ok = TRUE
    BY <1>2, <1>4, <1>10 DEF ExtractMetadata
  <2>2. from + skip <= n /\ at + 0 = at
    BY <1>3, <1>4, <1>5, <1>10
  <2>3. blocks[k + 1].units = 0
    BY <1>8, <1>10
  <2> QED  BY <2>1, <2>2, <2>3 DEF n
<1>11. CASE size # 0 /\ from + skip <= n
  <2>1. Len(bufIn) >= size + 1
    BY <1>3, <1>4, <1>5, <1>7, <1>11, SMTT(60)
  <2>2. x.text = SubSeq(bufIn, 2, size + 1) /\ x.took = 0 /\ x.ok = TRUE
    BY <1>2, <1>4, <1>11, <2>1 DEF ExtractMetadata
  <2>3. /\ SubSeq(bufIn, 2, size + 1) \in Seq(StreamByte) /\ Len(SubSeq(bufIn, 2, size + 1)) = size
        /\ \A j \in 1 .. size : SubSeq(bufIn, 2, size + 1)[j] = bufIn[j + 1]
    <3> DEFINE m == 2
               h == size + 1
               s == SubSeq(bufIn, m, h)
    <3>1. /\ m \in 1 .. Len(bufIn) + 1 /\ h \in m - 1 .. Len(bufIn)
          /\ \A j \in m .. h : bufIn[j] \in StreamByte
          /\ h - m + 1 = size /\ \A j \in 1 .. size : m + j - 1 = j + 1
      BY <1>3, <1>7, <2>1, SMTT(60)
    <3> HIDE DEF m, h
    <3>2. s \in Seq(StreamByte) /\ Len(s) = h - m + 1 /\ \A j \in 1 .. h - m + 1 : s[j] = bufIn[m + j - 1]
      BY <1>3, <3>1, SubSeqProperties, SMTT(60)
    <3> HIDE DEF s
    <3>3. s \in Seq(StreamByte) /\ Len(s) = size /\ \A j \in 1 .. size : s[j] = bufIn[j + 1]
      BY <3>1, <3>2
    <3> QED  BY <3>3 DEF s, m, h
  <2> DEFINE s == SubSeq(bufIn, 2, size + 1)
  <2> HIDE DEF s
  <2>4. \A j \in 1 .. size : s[j] = text[j]
    <3>1. \A j \in 1 .. size : j + 1 <= n - from
      BY <1>3, <1>4, <1>5, <1>7, <1>11
    <3> QED  BY <1>9, <2>3, <3>1 DEF s
  <2>5. s = text
    <3>1. s \in Seq(StreamByte) /\ Len(s) = size
      BY <2>3 DEF s
    <3> QED  BY <1>8, <2>4, <3>1
  <2>6. blocks[k + 1].units # 0 /\ at + 0 = at
    BY <1>5, <1>8, <1>11
  <2> QED  BY <1>11, <2>2, <2>5, <2>6 DEF s, n, text
<1>12. CASE size # 0 /\ ~(from + skip <= n)
  <2>1. n = Len(rd.buf)
    BY <1>12 DEF n
  <2> DEFINE rest == n - from
             want == size - (Len(bufIn) - 1)
  <2>2. Len(bufIn) = rest /\ rest \in Nat /\ rest >= 1 /\ rest < size + 1 /\ rest - 1 <= size
    BY <1>3, <1>4, <1>5, <1>7, <1>12, <2>1, SMTT(30)
  <2>3. at + want = E /\ at + want <= Len(Sent) /\ want \in Nat /\ want = size - (rest - 1)
    <3> HIDE DEF rest
    <3>1. at = F + MetaInt + rest
      BY <1>2 DEF rest
    <3> QED  BY <1>5, <1>7, <2>2, <3>1
  <2>4. x = OwnBuffer(bufIn, size)
    <3>1. ~(Len(bufIn) >= MetaLen(bufIn) + 1)
      BY <1>2, <1>7, <2>2
    <3> QED  BY <1>2, <1>4, <1>12, <3>1 DEF ExtractMetadata
  <2>5. /\ x.took = want /\ x.ok = TRUE
        /\ x.text = Tail(bufIn) \o SubSeq(Sent, at + 1, at + want)
    <3>1. at \in 0 .. Len(Sent) /\ Len(bufIn) >= 1 /\ Len(bufIn) < size + 1
      BY <1>5, <2>2
    <3> QED  BY <1>3, <1>5, <1>7, <2>3, <2>4, <3>1, OwnBufferIs
  <2> DEFINE a == Tail(bufIn)
             p == SubSeq(Sent, at + 1, at + want)
  <2>6. a \in Seq(StreamByte) /\ Len(a) = rest - 1 /\ \A j \in 1 .. rest - 1 : a[j] = bufIn[j + 1]
    <3>1. bufIn # <<>> /\ Len(bufIn) = rest /\ bufIn \in Seq(StreamByte) /\ rest \in Nat
      BY <1>3, <2>2
    <3> HIDE DEF rest
    <3> QED  BY <3>1
  <2>7. p \in Seq(StreamByte) /\ Len(p) = want /\ \A j \in 1 .. want : p[j] = Sent[at + j]
    <3> DEFINE m == at + 1
               h == at + want
    <3>1. Sent \in Seq(StreamByte)
      BY <1>5, StreamIs
    <3> HIDE DEF want
    <3>2. /\ m \in 1 .. Len(Sent) + 1 /\ h \in m - 1 .. Len(Sent)
          /\ h - m + 1 = want /\ \A j \in 1 .. want : m + j - 1 = at + j
      BY <1>5, <2>3, SMTT(60)
    <3>3. \A j \in m .. h : Sent[j] \in StreamByte
      <4>1. \A j \in 1 .. Len(Sent) : Sent[j] \in StreamByte
        BY <3>1
      <4>2. \A j \in m .. h : j \in 1 .. Len(Sent)
        BY <1>5, <2>3
      <4> QED  BY <4>1, <4>2
    <3> DEFINE s == SubSeq(Sent, m, h)
    <3> HIDE DEF m, h
    <3>4. s \in Seq(StreamByte) /\ Len(s) = h - m + 1 /\ \A j \in 1 .. h - m + 1 : s[j] = Sent[m + j - 1]
      BY <3>1, <3>2, <3>3, SubSeqProperties
    <3> HIDE DEF s
    <3>5. s \in Seq(StreamByte) /\ Len(s) = want /\ \A j \in 1 .. want : s[j] = Sent[at + j]
      BY <3>2, <3>4
    <3> QED  BY <3>5 DEF s, m, h
  <2> HIDE DEF a, p
  <2> DEFINE s == a \o p
  <2>8. Joins(StreamByte, a, p, s)
    BY <2>6, <2>7, AppendedPart
  <2> HIDE DEF s
  <2>9. /\ s \in Seq(StreamByte) /\ Len(s) = Len(a) + Len(p) /\ \A j \in 1 .. Len(a) : s[j] = a[j]
        /\ \A j \in 1 .. Len(p) : s[Len(a) + j] = p[j]
    BY <2>8, Zenon DEF Joins
  <2>10. Len(s) = size
    <3>1. Len(s) = (rest - 1) + want
      BY <2>6, <2>7, <2>9
    <3> HIDE DEF rest, want
    <3> QED  BY <1>7, <2>2, <2>3, <3>1
  <2>11. ASSUME NEW j \in 1 .. size PROVE s[j] = text[j]
    <3> HIDE DEF want
    <3>1. CASE j <= rest - 1
      <4>1. j \in 1 .. rest - 1 /\ j \in 1 .. Len(a) /\ j + 1 <= n - from
        BY <2>2, <2>6, <3>1
      <4> QED  BY <1>9, <2>6, <2>9, <4>1
    <3>2. CASE ~(j <= rest - 1)
      <4> DEFINE i == j - (rest - 1)
      <4>1. i \in 1 .. want /\ Len(a) + i = j /\ i \in Nat
        <5>1. /\ size \in Nat /\ rest \in Nat /\ want = size - (rest - 1) /\ Len(a) = rest - 1 /\ j \in Nat
              /\ j <= size /\ ~(j <= rest - 1)
          BY <1>7, <2>2, <2>3, <2>6, <3>2
        <5> HIDE DEF rest
        <5> QED  BY <2>2, <2>3, <5>1
      <4>2. s[j] = Sent[at + i]
        BY <2>7, <2>9, <4>1
      <4>3. at + i = F + MetaInt + 1 + j
        <5>1. at = F + MetaInt + rest
          BY <1>2
        <5> HIDE DEF rest
        <5> QED  BY <1>5, <1>7, <2>2, <5>1
      <4> QED  BY <1>7, <4>2, <4>3
    <3> QED  BY <3>1, <3>2
  <2>12. s = text
    BY <1>8, <2>9, <2>10, <2>11, SMTT(60)
  <2>13. blocks[k + 1].units # 0
    BY <1>8, <1>12
  <2> QED  BY <1>12, <2>3, <2>5, <2>12, <2>13 DEF s, a, p, n, text, E
<1> QED  BY <1>10, <1>11, <1>12

LEMMA ShiftedBytes ==
    ASSUME NEW S, NEW buf \in Seq(S), NEW to, NEW from
    PROVE  \A j \in 1 .. Len(buf) : Shifted(buf, to, from)[j] =
               IF j > to /\ j + (from - to) <= Len(buf) THEN buf[j + (from - to)] ELSE buf[j]
BY DEF Shifted

LEMMA SplitTake ==
    ASSUME StreamTypes, NEW k \in 0 .. NBlocks, SplitAt(k), TakeBlock, ~cut'
    PROVE  k + 1 \in 0 .. NBlocks /\ SplitAt(k + 1)'
<1>1. PICK offset, from, bufIn, skip, x : Round(offset, from, bufIn, skip, x)
  BY Zenon DEF Round
<1> DEFINE F == Len(SentOf(blocks, k))
           E == Len(SentOf(blocks, k + 1))
           size == blocks[k + 1].units * MetaUnit
           n == rd.n
           t == (k + 1) * MetaInt
<1>2. /\ rd.pc = "check" /\ pos + rd.unchecked > MetaInt
      /\ at' = at + x.took /\ pos' = 0 /\ UNCHANGED <<blocks, out>>
      /\ cut' = (cut \/ (from + skip > n /\ n < Len(rd.buf)))
      /\ IF x.ok /\ x.text # <<>> /\ x.text # metadata
         THEN metadata' = x.text /\ told' = Append(told, x.text)
         ELSE UNCHANGED <<metadata, told>>
      /\ rd' = Taken(rd, from, skip, ~(offset + skip > rd.unchecked))
  BY <1>1, RoundTaken, ZenonT(120)
<1>3. Finds(k, from, bufIn)
  BY <1>1, <1>2, RoundFinds, Zenon
<1>4. /\ k # NBlocks /\ rd.checked + rd.unchecked = n /\ at = F + MetaInt + (n - from)
      /\ Len(out) + from = t /\ MetaLen(bufIn) = size
      /\ \A j \in 1 .. from : rd.buf[j] = Byte("audio", Len(out) + j)
      /\ \A j \in 1 .. n - from : rd.buf[from + j] = Sent[F + MetaInt + j]
  BY <1>3, Zenon DEF Finds
<1>5. /\ offset \in Nat /\ from \in Nat /\ from < n /\ skip \in Nat /\ skip >= 1
      /\ from = rd.checked + offset /\ skip = size + 1
  <2>1. from = rd.checked + offset /\ skip = size + 1
    BY <1>1, <1>4, Zenon DEF Round
  <2>2. offset \in Nat /\ from \in Nat /\ from < rd.n /\ skip \in Nat /\ skip >= 1
    BY <1>1, <1>2, RoundTypes, Zenon
  <2> QED  BY <2>1, <2>2
<1>6. /\ F \in Nat /\ Len(out) \in Nat /\ at \in Nat /\ n \in Nat /\ rd.checked \in Nat /\ rd.unchecked \in Nat
      /\ Len(rd.buf) \in Nat /\ n <= Len(rd.buf) /\ blocks \in [1 .. NBlocks -> Blocks] /\ MetaInt \in Nat
      /\ out \in Seq(StreamByte) /\ rd.buf \in Seq(StreamByte)
  BY SplitParts, StreamConstants, Zenon
<1>7. k + 1 \in 1 .. NBlocks /\ BlockAt(blocks, k + 1, k, Sent)
  BY <1>4, <1>6, NextIsAt, Zenon
<1>8. size \in Nat /\ E = F + MetaInt + 1 + size
  BY <1>7, Zenon DEF BlockAt
<1>9. offset + skip > rd.unchecked <=> from + skip > n
  <2> HIDE DEF n
  <2>1. /\ offset \in Nat /\ skip \in Nat /\ rd.unchecked \in Nat /\ rd.checked \in Nat /\ n \in Nat
        /\ from = rd.checked + offset /\ rd.checked + rd.unchecked = n
    BY <1>4, <1>5, <1>6, Zenon
  <2> QED  BY <2>1
<1>10. from + skip <= n \/ n = Len(rd.buf)
  <2>1. ~(from + skip > n /\ n < Len(rd.buf))
    BY <1>2
  <2>2. from + skip > n \/ from + skip <= n
    <3> HIDE DEF n
    <3> QED  BY <1>5, <1>6, SMTT(40)
  <2>3. n < Len(rd.buf) \/ n = Len(rd.buf)
    <3> HIDE DEF n
    <3> QED  BY <1>6
  <2> QED  BY <2>1, <2>2, <2>3
<1>11. /\ x.ok = TRUE
       /\ x.text = IF blocks[k + 1].units = 0 THEN <<>> ELSE Text(blocks[k + 1])
       /\ at + x.took = IF from + skip <= n THEN at ELSE E
  BY <1>1, <1>2, <1>10, RoundText, Zenon
<1> DEFINE before == AnnouncedOf(blocks, k)
           after == AnnouncedOf(blocks, k + 1)
           text == Text(blocks[k + 1])
<1>12. told' = Changes(after) /\ metadata' = LastOf(after)
  <2>1. told = Changes(before) /\ metadata = LastOf(before)
    BY Zenon DEF SplitAt
  <2>2. Tells(blocks, k + 1, k)
    <3>1. k + 1 - 1 = k
      BY StreamConstants
    <3>2. Tells(blocks, k + 1, k + 1 - 1)
      <4>1. blocks \in [1 .. NBlocks -> Blocks]
        BY <1>6, Zenon
      <4>2. \A i \in 1 .. NBlocks : Tells(blocks, i, i - 1)
        BY <4>1, BlockTells, Zenon
      <4>3. k + 1 \in 1 .. NBlocks
        BY <1>7, Zenon
      <4> QED  BY <4>2, <4>3
    <3> QED  BY <3>1, <3>2
  <2>3. /\ blocks[k + 1].units = 0 => Changes(after) = Changes(before) /\ LastOf(after) = LastOf(before)
        /\ blocks[k + 1].units # 0 =>
               /\ text # <<>> /\ LastOf(after) = text
               /\ Changes(after) = IF LastOf(before) = text THEN Changes(before) ELSE Append(Changes(before), text)
    BY <2>2, Zenon DEF Tells
  <2> HIDE DEF before, after, text
  <2>4. CASE blocks[k + 1].units = 0
    <3>1. x.text = <<>>
      BY <1>11, <2>4
    <3>2. UNCHANGED <<metadata, told>>
      BY <1>2, <3>1
    <3> QED  BY <2>1, <2>3, <2>4, <3>2
  <2>5. CASE blocks[k + 1].units # 0
    <3>1. x.text = text /\ x.ok /\ text # <<>>
      BY <1>11, <2>3, <2>5 DEF text
    <3>2. IF text # metadata THEN metadata' = text /\ told' = Append(told, text) ELSE UNCHANGED <<metadata, told>>
      BY <1>2, <3>1
    <3> QED  BY <2>1, <2>3, <2>5, <3>2
  <2> QED  BY <2>4, <2>5
<1>13. /\ out' \in Seq(StreamByte) /\ \A i \in 1 .. Len(out') : out'[i] = Byte("audio", i)
  BY <1>2, Zenon DEF SplitAt
<1>14. rd \in [pc : {"idle", "check"}, buf : Seq(StreamByte), n : Nat, checked : Nat, unchecked : Nat]
  BY Zenon DEF StreamTypes
<1>15. Sent' = Sent
  BY <1>2, SentStands
<1> HIDE DEF F, E, size, n, t, before, after, text
<1>18. /\ F \in Nat /\ at \in Nat /\ n \in Nat /\ Len(rd.buf) \in Nat /\ n <= Len(rd.buf) /\ MetaInt \in Nat
       /\ offset \in Nat /\ from \in Nat /\ from < n /\ skip \in Nat /\ skip >= 1 /\ skip = size + 1
       /\ size \in Nat /\ E = F + MetaInt + 1 + size
  BY <1>5, <1>6, <1>8, Zenon
<1>16. CASE from + skip <= n
  <2>1. Taken(rd, from, skip, TRUE) = [rd EXCEPT !.checked = from, !.n = n - skip, !.unchecked = n - skip - from,
                                                 !.buf = Shifted(rd.buf, from, from + skip)]
    BY DEF Taken, n
  <2>2. ~(offset + skip > rd.unchecked) = TRUE
    <3>1. ~(from + skip > n)
      BY <1>16, <1>18
    <3> QED  BY <1>9, <3>1, Zenon
  <2>3. rd' = Taken(rd, from, skip, TRUE)
    BY <1>2, <2>2, Zenon
  <2>4. /\ rd'.checked = from /\ rd'.n = n - skip /\ rd'.unchecked = n - skip - from
        /\ rd'.buf = Shifted(rd.buf, from, from + skip)
    BY <1>14, <2>1, <2>3
  <2>5. /\ rd'.n - rd'.unchecked = from /\ rd'.checked + rd'.unchecked = rd'.n
    <3>1. n - skip - (n - skip - from) = from /\ from + (n - skip - from) = n - skip
      BY <1>18
    <3> QED  BY <2>4, <3>1
  <2>6. at' = at /\ at' - rd'.unchecked = E
    <3>1. at' = at
      BY <1>2, <1>11, <1>16
    <3>2. at - (n - skip - from) = F + MetaInt + 1 + size
      <4> DEFINE rest == n - from
      <4>1. rest \in Nat /\ n - skip - from = rest - skip /\ at = F + MetaInt + rest
        <5>1. at = F + MetaInt + rest
          BY <1>4, Zenon
        <5> QED  BY <1>16, <1>18, <5>1
      <4> HIDE DEF rest
      <4> QED  BY <1>18, <4>1
    <3> QED  BY <1>8, <2>4, <3>1, <3>2
  <2> DEFINE new == rd'.buf
             old == rd.buf
             m == Len(old)
  <2>7. \A j \in 1 .. m : new[j] = IF j > from /\ j + ((from + skip) - from) <= m
                                  THEN old[j + ((from + skip) - from)] ELSE old[j]
    <3>1. new = Shifted(old, from, from + skip) /\ old \in Seq(StreamByte)
      BY <1>6, <2>4, Zenon
    <3> HIDE DEF new, old
    <3> QED  BY <3>1, ShiftedBytes, Zenon DEF m
  <2>8. m \in Nat /\ n <= m /\ (from + skip) - from = skip
    <3>1. m \in Nat /\ n <= m
      BY <1>18, Zenon
    <3>2. (from + skip) - from = skip
      BY <1>18
    <3> QED  BY <3>1, <3>2, Zenon
  <2>9. \A j \in 1 .. from : old[j] = Byte("audio", Len(out) + j)
    BY <1>4
  <2>10. \A j \in 1 .. n - from : old[from + j] = Sent[F + MetaInt + j]
    BY <1>4
  <2> HIDE DEF new, old, m
  <2>11. \A j \in 1 .. rd'.n - rd'.unchecked : new[j] = Byte("audio", Len(out') + j)
    <3>1. \A j \in 1 .. from : j \in 1 .. m /\ ~(j > from)
      BY <1>18, <2>8
    <3>2. \A j \in 1 .. from : new[j] = old[j]
      BY <2>7, <3>1
    <3>3. out' = out
      BY <1>2
    <3> QED  BY <2>5, <2>9, <3>2, <3>3
  <2>12. \A j \in 1 .. rd'.unchecked : new[rd'.n - rd'.unchecked + j] = Sent[at' - rd'.unchecked + j]
    <3> SUFFICES ASSUME NEW j \in 1 .. n - skip - from PROVE new[from + j] = Sent[E + j]
      BY <2>4, <2>5, <2>6
    <3>1. /\ from + j \in 1 .. m /\ from + j > from /\ from + j + skip <= m /\ skip + j \in 1 .. n - from
          /\ from + j + skip = from + (skip + j)
      BY <1>16, <1>18, <2>8
    <3>2. new[from + j] = old[from + (skip + j)]
      BY <2>7, <2>8, <3>1
    <3>3. old[from + (skip + j)] = Sent[F + MetaInt + (skip + j)]
      BY <2>10, <3>1
    <3>4. F + MetaInt + (skip + j) = E + j
      BY <1>18
    <3> QED  BY <3>2, <3>3, <3>4
  <2>13. Len(out') + (rd'.n - rd'.unchecked) = t + 0
    BY <1>2, <1>4, <1>5, <1>6, <2>5, SMTT(60)
  <2>14. E + 0 = E
    BY <1>18
  <2> QED  BY <1>2, <1>7, <1>12, <1>13, <1>15, <2>5, <2>6, <2>11, <2>12, <2>13, <2>14, StreamConstants
           DEF SplitAt, new, E, t, after
<1>17. CASE ~(from + skip <= n)
  <2>1. Taken(rd, from, skip, FALSE) = [rd EXCEPT !.n = from, !.unchecked = 0]
    BY DEF Taken
  <2> DEFINE fits == ~(offset + skip > rd.unchecked)
  <2>2. fits = FALSE
    <3>1. from + skip > n
      BY <1>17, <1>18
    <3> QED  BY <1>9, <3>1, Zenon
  <2>3. rd' = Taken(rd, from, skip, FALSE)
    <3>1. rd' = Taken(rd, from, skip, fits)
      BY <1>2, Zenon
    <3> HIDE DEF fits
    <3> QED  BY <2>2, <3>1
  <2>4. rd'.n = from /\ rd'.unchecked = 0 /\ rd'.buf = rd.buf
    BY <1>14, <2>1, <2>3
  <2>5. at' = E /\ at' - rd'.unchecked = E + 0 /\ rd'.n - rd'.unchecked = from
    <3>1. at' = E
      BY <1>2, <1>11, <1>17
    <3>2. E - 0 = E + 0 /\ from - 0 = from
      BY <1>18
    <3> QED  BY <2>4, <3>1, <3>2
  <2>6. \A j \in 1 .. rd'.n - rd'.unchecked : rd'.buf[j] = Byte("audio", Len(out') + j)
    BY <1>2, <1>4, <2>4, <2>5
  <2>7. \A j \in 1 .. rd'.unchecked : rd'.buf[rd'.n - rd'.unchecked + j] = Sent[at' - rd'.unchecked + j]
    BY <2>4
  <2>8. Len(out') + (rd'.n - rd'.unchecked) = t + 0
    BY <1>2, <1>4, <1>5, <1>6, <2>5, SMTT(60)
  <2> QED  BY <1>2, <1>7, <1>12, <1>13, <1>15, <2>4, <2>5, <2>6, <2>7, <2>8, StreamConstants
           DEF SplitAt, E, t, after
<1> QED  BY <1>16, <1>17

\* The type invariant, and where Read is in the stream until a block has been cut off.
LEMMA StreamInvCorrect == StreamSpec => []StreamInv
<1>1. StreamInit => StreamInv
  <2> SUFFICES ASSUME StreamInit PROVE StreamInv
    OBVIOUS
  <2>1. 0 \in 0 .. NBlocks
    BY StreamConstants
  <2> QED  BY <2>1, TypesInit, SplitInit, Zenon DEF StreamInv
<1>2. StreamInv /\ [StreamNext]_streamVars => StreamInv'
  <2> SUFFICES ASSUME StreamInv, [StreamNext]_streamVars PROVE StreamInv'
    OBVIOUS
  <2>1. StreamTypes /\ (~cut => \E k \in 0 .. NBlocks : SplitAt(k))
    BY Zenon DEF StreamInv
  <2>2. CASE ReadBytes
    <3>1. StreamTypes' /\ cut' = cut
      BY <2>1, <2>2, TypesRead, Zenon DEF ReadBytes
    <3>2. ASSUME NEW k \in 0 .. NBlocks, SplitAt(k) PROVE SplitAt(k)'
      BY <2>1, <2>2, <3>2, SplitRead, Zenon
    <3> QED  BY <2>1, <3>1, <3>2, Zenon DEF StreamInv
  <2>3. CASE TakeBlock
    <3>1. StreamTypes' /\ (~cut' => ~cut)
      BY <2>1, <2>3, TypesTake, Zenon DEF TakeBlock
    <3>2. ASSUME NEW k \in 0 .. NBlocks, SplitAt(k), ~cut' PROVE k + 1 \in 0 .. NBlocks /\ SplitAt(k + 1)'
      BY <2>1, <2>3, <3>2, SplitTake, Zenon
    <3> QED  BY <2>1, <3>1, <3>2, Zenon DEF StreamInv
  <2>4. CASE ReadReturns
    <3>1. StreamTypes' /\ cut' = cut
      BY <2>1, <2>4, TypesReturn, Zenon DEF ReadReturns
    <3>2. ASSUME NEW k \in 0 .. NBlocks, SplitAt(k) PROVE SplitAt(k)'
      BY <2>1, <2>4, <3>2, SplitReturn, Zenon
    <3> QED  BY <2>1, <3>1, <3>2, Zenon DEF StreamInv
  <2>5. CASE UNCHANGED streamVars
    <3>1. UNCHANGED <<blocks, at, pos, metadata, rd, out, told, cut, ended>>
      BY <2>5 DEF streamVars
    <3>2. Sent' = Sent
      BY <3>1, SentStands
    <3>3. StreamTypes'
      BY <2>1, <3>1, <3>2 DEF StreamTypes
    <3>4. ASSUME NEW k \in 0 .. NBlocks, SplitAt(k) PROVE SplitAt(k)'
      BY <3>1, <3>2, <3>4 DEF SplitAt
    <3> QED  BY <2>1, <3>1, <3>3, <3>4, Zenon DEF StreamInv
  <2> QED  BY <2>2, <2>3, <2>4, <2>5, Zenon DEF StreamNext
<1> QED  BY <1>1, <1>2, PTL DEF StreamSpec

\* Stream.Read splits what the server sends, wherever the reads of the connection end:
\* its callers get the audio in order and with nothing between, all of it when all has
\* been read, and each change of the title is told once, in order.  Until a block has
\* been cut off by the end of the bytes that count in a buffer.
THEOREM StreamSplit == StreamSpec => []StreamIsSplit
<1>1. StreamInv => StreamIsSplit
  <2> SUFFICES ASSUME StreamInv PROVE StreamIsSplit
    OBVIOUS
  <2>1. StreamTypes /\ (~cut => \E k \in 0 .. NBlocks : SplitAt(k))
    BY Zenon DEF StreamInv
  <2>2. StreamTypeOK
    <3>1. /\ blocks \in [1 .. NBlocks -> Blocks] /\ at \in 0 .. Len(Sent) /\ pos \in 0 .. MetaInt
          /\ rd \in [pc : {"idle", "check"}, buf : Seq(StreamByte), n : Nat, checked : Nat, unchecked : Nat]
          /\ rd.n <= Len(rd.buf) /\ rd.checked + rd.unchecked <= rd.n
      BY <2>1, Zenon DEF StreamTypes
    <3>2. cut \in BOOLEAN /\ ended \in BOOLEAN
      BY <2>1, Zenon DEF StreamTypes
    <3>3. rd.pc \in {"idle", "check"} /\ rd.n \in 0 .. Len(rd.buf)
      BY <3>1
    <3> QED  BY <3>1, <3>2, <3>3, Zenon DEF StreamTypeOK
  <2>3. ASSUME ~cut PROVE InOrderAndWhole /\ ToldTruly
    <3>1. PICK k \in 0 .. NBlocks : SplitAt(k)
      BY <2>1, <2>3, Zenon
    <3>2. /\ at = Len(SentOf(blocks, k)) + pos + rd.unchecked
          /\ Len(out) + (rd.n - rd.unchecked) = k * MetaInt + pos
          /\ Len(out) \in Nat /\ k * MetaInt \in Nat /\ pos \in Nat /\ pos <= MetaInt
          /\ rd.n \in Nat /\ rd.unchecked \in Nat /\ rd.unchecked <= rd.n
          /\ k = NBlocks => pos = 0 /\ rd.unchecked = 0
          /\ blocks \in [1 .. NBlocks -> Blocks] /\ out \in Seq(StreamByte)
          /\ Len(SentOf(blocks, k)) \in Nat
      BY <2>1, <3>1, SplitParts, Zenon
    <3>3. /\ AllAudio = AudioOf(NBlocks) /\ Announced = AnnouncedOf(blocks, NBlocks)
      BY <3>2, StreamIs
    <3>4. /\ \A i \in 1 .. Len(out) : out[i] = Byte("audio", i)
          /\ told = Changes(AnnouncedOf(blocks, k))
      BY <3>1, Zenon DEF SplitAt
    <3>5. /\ AllAudio \in Seq(StreamByte) /\ Len(AllAudio) = NBlocks * MetaInt
          /\ \A i \in 1 .. NBlocks * MetaInt : AllAudio[i] = Byte("audio", i)
      <4>1. NBlocks \in Nat
        BY StreamConstants
      <4>2. Numbered(AudioOf(NBlocks), NBlocks * MetaInt) /\ AudioOf(NBlocks) \in Seq(StreamByte)
        BY <4>1, AudioIs, AudioGrows, Zenon
      <4> QED  BY <3>3, <4>2, Zenon DEF Numbered
    <3>6. Len(out) <= NBlocks * MetaInt
      <4>1. Len(out) <= k * MetaInt + pos
        <5> DEFINE t == k * MetaInt
        <5>1. Len(out) + (rd.n - rd.unchecked) = t + pos /\ t \in Nat
          BY <3>2
        <5> HIDE DEF t
        <5>2. Len(out) <= t + pos
          BY <3>2, <5>1, SMTT(60)
        <5> QED  BY <5>2 DEF t
      <4>2. k * MetaInt + pos <= NBlocks * MetaInt
        <5>1. CASE k = NBlocks
          BY <3>2, <5>1
        <5>2. CASE k # NBlocks
          <6>1. k + 1 <= NBlocks /\ k \in Nat
            BY <5>2, StreamConstants
          <6>2. k * MetaInt + MetaInt = (k + 1) * MetaInt /\ (k + 1) * MetaInt <= NBlocks * MetaInt
            <7>1. NBlocks * MetaInt = (k + 1) * MetaInt + (NBlocks - (k + 1)) * MetaInt
              BY <6>1, StreamConstants
            <7>2. (NBlocks - (k + 1)) * MetaInt >= 0
              BY <6>1, StreamConstants
            <7> QED  BY <6>1, <7>1, <7>2, StreamConstants
          <6> DEFINE t == k * MetaInt
                     u == (k + 1) * MetaInt
                     v == NBlocks * MetaInt
          <6>3. t \in Nat /\ u \in Nat /\ v \in Nat /\ t + MetaInt = u /\ u <= v
            BY <6>1, <6>2, StreamConstants
          <6>4. pos \in Nat /\ pos <= MetaInt /\ MetaInt \in Nat
            BY <3>2, StreamConstants
          <6> HIDE DEF t, u, v
          <6>5. t + pos <= v
            BY <6>3, <6>4
          <6> QED  BY <6>5 DEF t, v
        <5> QED  BY <5>1, <5>2
      <4> QED  BY <3>2, <4>1, <4>2, StreamConstants
    <3>7. IsPrefix(out, AllAudio)
      <4> DEFINE m == NBlocks * MetaInt
      <4>1. m \in Nat /\ Len(out) \in Nat /\ Len(out) <= m
        BY <3>2, <3>6, StreamConstants
      <4>2. /\ Len(AllAudio) = m /\ \A i \in 1 .. m : AllAudio[i] = Byte("audio", i)
        BY <3>5
      <4> HIDE DEF m
      <4>3. Starts(out, AllAudio)
        BY <3>4, <4>1, <4>2 DEF Starts
      <4> QED  BY <3>2, <3>5, <4>3, StartsIsPrefix, Zenon
    <3>8. IsPrefix(told, Changes(Announced))
      <4>1. /\ Changes(AnnouncedOf(blocks, k)) \in Seq(Seq(StreamByte))
            /\ Changes(AnnouncedOf(blocks, NBlocks)) \in Seq(Seq(StreamByte))
            /\ Starts(Changes(AnnouncedOf(blocks, k)), Changes(AnnouncedOf(blocks, NBlocks)))
        BY <3>2, TellsStarts, Zenon
      <4> QED  BY <3>3, <3>4, <4>1, StartsIsPrefix, Zenon
    <3>9. ASSUME rd.pc = "idle", at = Len(Sent) PROVE k = NBlocks /\ rd.n = 0
      <4>1. rd = NotReading
        BY <2>1, <3>9, Zenon DEF StreamTypes
      <4>2. rd.n = 0 /\ rd.unchecked = 0
        BY <4>1 DEF NotReading
      <4>3. CASE k # NBlocks
        <5>1. BlockAt(blocks, k + 1, k, Sent)
          BY <3>2, <4>3, NextIsAt, Zenon
        <5> DEFINE F == Len(SentOf(blocks, k))
                   size == blocks[k + 1].units * MetaUnit
                   E == Len(SentOf(blocks, k + 1))
        <5>2. F \in Nat /\ size \in Nat /\ E = F + MetaInt + 1 + size /\ E <= Len(Sent) /\ Len(Sent) \in Nat
          BY <5>1, Zenon DEF BlockAt
        <5>3. Len(Sent) = F + pos + 0 /\ pos \in Nat /\ pos <= MetaInt
          BY <3>2, <3>9, <4>2
        <5> HIDE DEF F, size, E
        <5> QED  BY <5>2, <5>3, StreamConstants
      <4> QED  BY <4>2, <4>3
    <3>10. rd.pc = "idle" /\ at = Len(Sent) => out = AllAudio
      <4> SUFFICES ASSUME rd.pc = "idle", at = Len(Sent) PROVE out = AllAudio
        OBVIOUS
      <4>1. k = NBlocks /\ rd.n = 0
        BY <3>9
      <4> DEFINE m == NBlocks * MetaInt
      <4>2. Len(out) = m
        <5>1. pos = 0 /\ rd.unchecked = 0 /\ rd.n - rd.unchecked = 0
          BY <3>2, <4>1
        <5> QED  BY <3>2, <4>1, <5>1
      <4>3. /\ Len(AllAudio) = m /\ \A i \in 1 .. m : AllAudio[i] = Byte("audio", i)
            /\ AllAudio \in Seq(StreamByte)
        BY <3>5
      <4> HIDE DEF m
      <4>4. out \in Seq(StreamByte) /\ \A i \in 1 .. m : out[i] = AllAudio[i]
        <5>1. out \in Seq(StreamByte)
          BY <3>2, Zenon
        <5> QED  BY <3>4, <4>2, <4>3, <5>1
      <4> QED  BY <4>2, <4>3, <4>4
    <3>11. rd.pc = "idle" /\ at = Len(Sent) => told = Changes(Announced)
      BY <3>3, <3>4, <3>9
    <3> QED  BY <3>7, <3>8, <3>10, <3>11, Zenon DEF InOrderAndWhole, ToldTruly
  <2> QED  BY <2>2, <2>3, Zenon DEF StreamIsSplit, AudioIfNotCut, TitlesIfNotCut
<1> QED  BY <1>1, StreamInvCorrect, PTL
==============================================================================

--------------------------- MODULE HostPartProofs ---------------------------
(***************************************************************************)
(* Proofs about what the sessions of a host go through or share before     *)
(* their requests are served.  SymbolTable: its type correctness, and that *)
(* every ID that the issuer alone hands out names the value it was issued  *)
(* for, and no other.                                                      *)
(* HostLogin, for any capacity of txOut and any number of messages: nobody *)
(* is served before logging in, and a failed login leaves nothing running. *)
(***************************************************************************)
EXTENDS SymbolTable, HostLogin, SequenceTheorems, TLAPS

-----------------------------------------------------------------------------
(* SymbolTable.                                                            *)

\* An ID of the issuer's own is in the hands of one call until that call writes
\* its name.
Fresh ==
    /\ \A i \in OwnIds : i >= nextId => valOf[i] = NoVal /\ i \notin lost
    /\ \A c \in Callers : symID[c] \in OwnIds =>
           /\ symID[c] < nextId /\ reassignID[c]
           /\ valOf[symID[c]] = NoVal /\ symID[c] \notin lost
           /\ \A d \in Callers \ {c} : symID[d] # symID[c]

\* What the database has under an ID of the issuer's own, it has in both directions.
Assoc == \A v \in Values : idOf[v] \in OwnIds => valOf[idOf[v]] = v

\* AnswersResolve, with what GetSymbolID finds in the database.
Resolve == /\ Assoc
           /\ AnswersResolve

Inv == TableTypeOK /\ Fresh /\ Resolve

\* What the assumption on the constants says of the sets of IDs.
LEMMA Consts ==
    /\ FirstId \in Nat \ {0} /\ MaxId \in Nat /\ FirstId <= MaxId
    /\ Lease \in Nat \ {0}
    /\ Issued \subseteq IDs /\ Explicit \subseteq IDs
    /\ OwnIds \subseteq Issued /\ Explicit \cap OwnIds = {} /\ 0 \notin IDs
    /\ NoVal \notin Values
  BY SymbolTableAssumption DEF Issued, OwnIds, IDs

\* Every step preserves the types.
LEMMA TypeStep ==
    ASSUME TableTypeOK, [TableNext]_tableVars
    PROVE  TableTypeOK'
<1> USE Consts
<1>0. ASSUME NEW v \in Values, NEW id \in IDs \cup {0}, Answer(v, id)
      PROVE  answers' \in [Values -> SUBSET IDs]
  <2>1. (answers[v] \cup {id}) \ {0} \in SUBSET IDs
    BY DEF TableTypeOK
  <2> QED  BY <1>0, <2>1 DEF Answer, TableTypeOK
<1>1. ASSUME NEW c \in Callers, GetSymbolID(c)
      PROVE  TableTypeOK'
  <2>1. PICK v \in Values :
           \/ Answer(v, idOf[v]) /\ UNCHANGED callVars
           \/ /\ pc' = [pc EXCEPT ![c] = "issue"]
              /\ val' = [val EXCEPT ![c] = v]
              /\ UNCHANGED <<symID, reassignID, stale, answers>>
    BY <1>1 DEF GetSymbolID
  <2>2. UNCHANGED <<idOf, valOf, nextId, leased, lost>>
    BY <1>1 DEF GetSymbolID
  <2>3. CASE Answer(v, idOf[v]) /\ UNCHANGED callVars
    <3>1. answers' \in [Values -> SUBSET IDs]
      BY <1>0, <2>3 DEF TableTypeOK
    <3> QED  BY <2>2, <2>3, <3>1 DEF TableTypeOK, callVars
  <2> QED  BY <2>1, <2>2, <2>3 DEF TableTypeOK
<1>2. ASSUME NEW c \in Callers, SetSymbolID(c)
      PROVE  TableTypeOK'
  BY <1>2 DEF TableTypeOK, SetSymbolID
<1>3. ASSUME NEW c \in Callers, IssueNextID(c)
      PROVE  TableTypeOK'
  BY <1>3 DEF TableTypeOK, IssueNextID, Renew, Issued, IDs
<1>4. ASSUME NEW c \in Callers, Commit(c)
      PROVE  TableTypeOK'
  <2>1. val[c] \in Values /\ symID[c] \in IDs
    BY <1>4 DEF Commit, TableTypeOK
  <2>2. answers' \in [Values -> SUBSET IDs]
    BY <1>0, <1>4, <2>1 DEF Commit
  <2>3. /\ idOf' \in [Values -> IDs \cup {0}]
        /\ valOf' \in [IDs -> Values \cup {NoVal}]
    BY <1>4, <2>1 DEF Commit, TableTypeOK
  <2>4. stale' \in [Callers -> BOOLEAN]
    BY <1>4 DEF Commit, TableTypeOK, Readers
  <2> QED  BY <1>4, <2>2, <2>3, <2>4 DEF TableTypeOK, Commit, Return
<1>5. ASSUME NEW c \in Callers, Conflict(c)
      PROVE  TableTypeOK'
  BY <1>5 DEF TableTypeOK, Conflict
<1>6. ASSUME NEW c \in Callers, CommitFails(c)
      PROVE  TableTypeOK'
  <2>1. val[c] \in Values /\ symID[c] \in IDs
    BY <1>6 DEF CommitFails, TableTypeOK
  <2>2. answers' \in [Values -> SUBSET IDs]
    BY <1>0, <1>6, <2>1 DEF CommitFails
  <2> QED  BY <1>6, <2>2 DEF TableTypeOK, CommitFails, Return
<1>7. CASE RestartTable
  BY <1>7 DEF TableTypeOK, RestartTable, OpenSequence, Issued
<1>8. CASE UNCHANGED tableVars
  BY <1>8 DEF TableTypeOK, tableVars, callVars
<1> QED  BY <1>1, <1>2, <1>3, <1>4, <1>5, <1>6, <1>7, <1>8 DEF TableNext

LEMMA TypeInit == TableInit => TableTypeOK
  BY Consts DEF TableInit, TableTypeOK, OpenSequence, Issued

\* The tables, the issuer and the calls always have their types.
THEOREM TableTypeCorrect == TableSpec => []TableTypeOK
  BY TypeInit, TypeStep, PTL DEF TableSpec

-----------------------------------------------------------------------------
(* AnswersResolve                                                          *)

\* Every step leaves an ID of the issuer's own in at most one call, and free until then.
LEMMA FreshStep ==
    ASSUME TableTypeOK, Fresh, [TableNext]_tableVars
    PROVE  Fresh'
<1> USE Consts
<1>1. ASSUME NEW c \in Callers, GetSymbolID(c)
      PROVE  Fresh'
  BY <1>1 DEF Fresh, GetSymbolID, callVars
<1>2. ASSUME NEW c \in Callers, SetSymbolID(c)
      PROVE  Fresh'
  <2>1. PICK id \in Explicit : symID' = [symID EXCEPT ![c] = id]
    BY <1>2 DEF SetSymbolID
  <2>2. /\ symID'[c] \notin OwnIds
        /\ \A d \in Callers \ {c} : /\ symID'[d] = symID[d]
                                    /\ reassignID'[d] = reassignID[d]
    BY <1>2, <2>1 DEF SetSymbolID, TableTypeOK
  <2>3. UNCHANGED <<nextId, valOf, lost>>
    BY <1>2 DEF SetSymbolID
  <2> QED  BY <2>2, <2>3 DEF Fresh
<1>3. ASSUME NEW c \in Callers, IssueNextID(c)
      PROVE  Fresh'
  <2>1. /\ symID'[c] = nextId /\ reassignID'[c] = TRUE
        /\ nextId' = nextId + 1 /\ UNCHANGED <<valOf, lost>>
        /\ \A d \in Callers \ {c} : /\ symID'[d] = symID[d]
                                    /\ reassignID'[d] = reassignID[d]
    BY <1>3 DEF IssueNextID, TableTypeOK
  <2>2. \A d \in Callers : symID[d] \in OwnIds => symID[d] # nextId
    BY DEF Fresh, TableTypeOK, Issued
  <2>3. nextId \in OwnIds => valOf[nextId] = NoVal /\ nextId \notin lost
    <3>1. nextId \in Nat
      BY DEF TableTypeOK, Issued
    <3> QED  BY <3>1 DEF Fresh
  <2>4. nextId \in Nat /\ \A i \in OwnIds : i \in Nat
    BY DEF Issued, TableTypeOK
  <2>5. \A i \in OwnIds : i >= nextId' => valOf'[i] = NoVal /\ i \notin lost'
    BY <2>1, <2>4 DEF Fresh
  <2>6. \A d \in Callers \ {c} : symID'[d] \in OwnIds =>
           /\ symID'[d] < nextId' /\ reassignID'[d]
           /\ valOf'[symID'[d]] = NoVal /\ symID'[d] \notin lost'
           /\ symID'[d] # symID'[c]
           /\ \A e \in Callers \ {d} : symID'[e] # symID'[d]
    BY <2>1, <2>2, <2>4, SMTT(60) DEF Fresh
  <2>7. symID'[c] \in OwnIds =>
           /\ symID'[c] < nextId' /\ reassignID'[c]
           /\ valOf'[symID'[c]] = NoVal /\ symID'[c] \notin lost'
           /\ \A d \in Callers \ {c} : symID'[d] # symID'[c]
    BY <2>1, <2>2, <2>3, <2>4
  <2> QED  BY <2>5, <2>6, <2>7 DEF Fresh
<1>4. ASSUME NEW c \in Callers, Commit(c)
      PROVE  Fresh'
  <2>1. /\ symID'[c] = 0 /\ UNCHANGED <<nextId, lost>>
        /\ \A d \in Callers \ {c} : /\ symID'[d] = symID[d]
                                    /\ reassignID'[d] = reassignID[d]
    BY <1>4 DEF Commit, Return, TableTypeOK
  <2>2. \A i \in IDs : valOf'[i] # valOf[i] => i = symID[c]
    BY <1>4 DEF Commit, TableTypeOK
  <2>3. symID[c] \in OwnIds => symID[c] < nextId
    BY DEF Fresh
  <2>4. \A i \in OwnIds : i >= nextId => i # symID[c]
    BY <2>3 DEF TableTypeOK, Issued
  <2>5. \A d \in Callers \ {c} : symID[d] \in OwnIds => symID[d] # symID[c]
    BY DEF Fresh
  <2> QED  BY <2>1, <2>2, <2>4, <2>5 DEF Fresh
<1>5. ASSUME NEW c \in Callers, Conflict(c)
      PROVE  Fresh'
  BY <1>5 DEF Fresh, Conflict
<1>6. ASSUME NEW c \in Callers, CommitFails(c)
      PROVE  Fresh'
  <2>1. /\ symID'[c] = 0 /\ UNCHANGED <<nextId, valOf>>
        /\ lost' = lost \cup {symID[c]}
        /\ \A d \in Callers \ {c} : /\ symID'[d] = symID[d]
                                    /\ reassignID'[d] = reassignID[d]
    BY <1>6 DEF CommitFails, Return, TableTypeOK
  <2>2. symID[c] \in OwnIds => symID[c] < nextId
    BY DEF Fresh
  <2>3. \A i \in OwnIds : i >= nextId => i # symID[c]
    BY <2>2 DEF TableTypeOK, Issued
  <2>4. \A d \in Callers \ {c} : symID[d] \in OwnIds => symID[d] # symID[c]
    BY DEF Fresh
  <2> QED  BY <2>1, <2>3, <2>4 DEF Fresh
<1>7. CASE RestartTable
  <2>1. nextId <= nextId' /\ UNCHANGED <<valOf, lost>>
    BY <1>7 DEF RestartTable, OpenSequence, TableTypeOK, Issued
  <2>2. \A c \in Callers : symID'[c] = 0
    BY <1>7 DEF RestartTable
  <2>3. nextId' \in Nat /\ nextId \in Nat /\ \A i \in OwnIds : i \in Nat
    BY <1>7 DEF TableTypeOK, RestartTable, OpenSequence, Issued
  <2>4. \A i \in OwnIds : i >= nextId' => i >= nextId
    BY <2>1, <2>3
  <2> QED  BY <2>1, <2>2, <2>4 DEF Fresh
<1>8. CASE UNCHANGED tableVars
  BY <1>8 DEF Fresh, tableVars, callVars
<1> QED  BY <1>1, <1>2, <1>3, <1>4, <1>5, <1>6, <1>7, <1>8 DEF TableNext

\* Every step leaves the issuer's own IDs named, in the database and in the answers.
LEMMA ResolveStep ==
    ASSUME TableTypeOK, Fresh, Resolve, [TableNext]_tableVars
    PROVE  Resolve'
<1> USE Consts
<1>1. ASSUME NEW c \in Callers, GetSymbolID(c)
      PROVE  Resolve'
  <2>1. PICK v \in Values : Answer(v, idOf[v]) \/ UNCHANGED answers
    BY <1>1 DEF GetSymbolID
  <2>2. UNCHANGED <<idOf, valOf, lost>>
    BY <1>1 DEF GetSymbolID
  <2>3. \A w \in Values : answers'[w] \subseteq answers[w] \cup {idOf[w]}
    BY <2>1 DEF Answer, TableTypeOK
  <2> QED  BY <2>2, <2>3 DEF Resolve, Assoc, AnswersResolve
<1>2. ASSUME NEW c \in Callers,
             SetSymbolID(c) \/ IssueNextID(c) \/ Conflict(c)
      PROVE  Resolve'
  BY <1>2 DEF Resolve, Assoc, AnswersResolve, SetSymbolID, IssueNextID, Conflict
<1>3. ASSUME NEW c \in Callers, Commit(c)
      PROVE  Resolve'
  <2>1. val[c] \in Values /\ symID[c] \in IDs
    BY <1>3 DEF Commit, TableTypeOK
  <2>2. \A v \in Values : idOf'[v] = IF v = val[c] THEN symID[c] ELSE idOf[v]
    BY <1>3, <2>1 DEF Commit, TableTypeOK
  <2>3. symID[c] \in OwnIds => valOf[symID[c]] = NoVal /\ reassignID[c]
    BY DEF Fresh
  <2>4. \A i \in OwnIds : valOf'[i] = IF i = symID[c] THEN val[c] ELSE valOf[i]
    BY <1>3, <2>1, <2>3 DEF Commit, TableTypeOK
  <2>5. \A v \in Values : answers'[v] \subseteq
            answers[v] \cup (IF v = val[c] THEN {symID[c]} ELSE {})
    BY <1>3, <2>1 DEF Commit, Answer, TableTypeOK
  <2>6. Assoc'
    BY <2>1, <2>2, <2>3, <2>4 DEF Resolve, Assoc, AnswersResolve
  <2>7. ASSUME NEW v \in Values, NEW id \in answers'[v] \cap OwnIds
        PROVE  valOf'[id] = v \/ (id \in lost' /\ valOf'[id] = NoVal)
    <3>1. CASE id \in answers[v]
      <4>1. valOf[id] = v \/ (id \in lost /\ valOf[id] = NoVal)
        BY <2>7, <3>1 DEF Resolve, AnswersResolve
      <4>2. id # symID[c]
        BY <2>1, <2>7, <4>1 DEF Fresh
      <4>3. lost' = lost
        BY <1>3 DEF Commit
      <4> QED  BY <2>4, <2>7, <4>1, <4>2, <4>3
    <3>2. CASE v = val[c] /\ id = symID[c]
      BY <2>4, <2>7, <3>2
    <3> QED  BY <2>5, <2>7, <3>1, <3>2
  <2> QED  BY <2>6, <2>7 DEF Resolve, AnswersResolve
<1>4. ASSUME NEW c \in Callers, CommitFails(c)
      PROVE  Resolve'
  <2>1. val[c] \in Values /\ symID[c] \in IDs
    BY <1>4 DEF CommitFails, TableTypeOK
  <2>2. UNCHANGED <<idOf, valOf>> /\ lost' = lost \cup {symID[c]}
    BY <1>4 DEF CommitFails
  <2>3. \A v \in Values : answers'[v] \subseteq
            answers[v] \cup (IF v = val[c] THEN {symID[c]} ELSE {})
    BY <1>4, <2>1 DEF CommitFails, Answer, TableTypeOK
  <2>4. symID[c] \in OwnIds => valOf[symID[c]] = NoVal
    BY DEF Fresh
  <2>5. AnswersResolve'
    BY <2>2, <2>3, <2>4 DEF Resolve, AnswersResolve
  <2> QED  BY <2>2, <2>5 DEF Resolve, Assoc
<1>5. CASE RestartTable
  BY <1>5 DEF Resolve, Assoc, AnswersResolve, RestartTable
<1>6. CASE UNCHANGED tableVars
  BY <1>6 DEF Resolve, Assoc, AnswersResolve, tableVars
<1> QED  BY <1>1, <1>2, <1>3, <1>4, <1>5, <1>6 DEF TableNext

\* Across conflicts, retries and restarts, an ID that the issuer alone hands out
\* and a call has returned for a value names that value, or nothing if its own
\* commit failed.
THEOREM AnswersStand == TableSpec => []AnswersResolve
<1>1. TableInit => Inv
  <2> SUFFICES ASSUME TableInit PROVE Inv
    OBVIOUS
  <2>1. Fresh
    BY Consts DEF TableInit, Fresh, Issued, IDs
  <2>2. Resolve
    BY Consts DEF TableInit, Resolve, Assoc, AnswersResolve, IDs
  <2> QED  BY TypeInit, <2>1, <2>2 DEF Inv
<1>2. Inv /\ [TableNext]_tableVars => Inv'
  BY TypeStep, FreshStep, ResolveStep DEF Inv
<1>3. Inv => AnswersResolve
  BY DEF Inv, Resolve, AnswersResolve
<1> QED  BY <1>1, <1>2, <1>3, PTL DEF TableSpec

-----------------------------------------------------------------------------
(* OnlyRetriesReplace                                                      *)

\* A call that is about to write an issued ID, and whose transaction would not
\* conflict, still finds no ID for its value.
Unassociated ==
    \A c \in Callers :
        /\ pc[c] \in {"issue", "commit"}
        /\ ~stale[c]
        => idOf[val[c]] = 0

\* A commit reaches the calls that have read the entry it writes: they are
\* stale from then on.
LEMMA UnassociatedStep ==
    ASSUME TableTypeOK, Unassociated, [TableNext]_tableVars
    PROVE  Unassociated'
<1> USE Consts
<1>1. ASSUME NEW c \in Callers, GetSymbolID(c)
      PROVE  Unassociated'
  <2>1. PICK v \in Values :
           \/ UNCHANGED callVars
           \/ /\ idOf[v] = 0
              /\ pc' = [pc EXCEPT ![c] = "issue"] /\ val' = [val EXCEPT ![c] = v]
              /\ UNCHANGED <<symID, stale>>
    BY <1>1 DEF GetSymbolID
  <2>2. UNCHANGED idOf
    BY <1>1 DEF GetSymbolID
  <2> QED  BY <2>1, <2>2 DEF Unassociated, callVars, TableTypeOK
<1>2. ASSUME NEW c \in Callers, SetSymbolID(c)
      PROVE  Unassociated'
  <2>1. PICK id \in Explicit : symID' = [symID EXCEPT ![c] = id]
    BY <1>2 DEF SetSymbolID
  <2>2. pc'[c] = "set"
    BY <1>2, <2>1 DEF SetSymbolID, TableTypeOK
  <2>3. \A d \in Callers \ {c} : /\ pc'[d] = pc[d] /\ val'[d] = val[d]
                                 /\ symID'[d] = symID[d] /\ stale'[d] = stale[d]
    BY <1>2, <2>1 DEF SetSymbolID, TableTypeOK
  <2>4. UNCHANGED idOf
    BY <1>2 DEF SetSymbolID
  <2> QED  BY <2>2, <2>3, <2>4 DEF Unassociated
<1>3. ASSUME NEW c \in Callers, IssueNextID(c)
      PROVE  Unassociated'
  <2>1. stale[c] \/ idOf[val[c]] = 0
    BY <1>3 DEF IssueNextID, Unassociated
  <2>2. /\ pc[c] = "issue" /\ UNCHANGED <<idOf, val, stale>>
        /\ \A d \in Callers \ {c} : pc'[d] = pc[d] /\ symID'[d] = symID[d]
    BY <1>3 DEF IssueNextID, TableTypeOK
  <2> QED  BY <2>1, <2>2 DEF Unassociated
<1>4. ASSUME NEW c \in Callers, Commit(c)
      PROVE  Unassociated'
  <2>1. /\ pc'[c] = "idle"
        /\ \A d \in Callers \ {c} : /\ pc'[d] = pc[d] /\ val'[d] = val[d]
                                    /\ symID'[d] = symID[d]
    BY <1>4 DEF Commit, Return, TableTypeOK
  <2>2. \A d \in Callers \ {c} :
           stale'[d] = (stale[d] \/ d \in Readers(val[c]))
    BY <1>4 DEF Commit
  <2>3. \A v \in Values : v # val[c] => idOf'[v] = idOf[v]
    BY <1>4 DEF Commit, TableTypeOK
  <2>4. ASSUME NEW d \in Callers, ~stale'[d],
               pc'[d] \in {"issue", "commit"}
        PROVE  idOf'[val'[d]] = 0
    <3>1. d # c
      BY <2>1, <2>4
    <3>2. ~stale[d] /\ d \notin Readers(val[c])
      BY <2>2, <2>4, <3>1
    <3>3. val[d] # val[c] /\ val[d] \in Values
      BY <2>1, <2>4, <3>1, <3>2 DEF Readers, TableTypeOK
    <3> QED  BY <2>1, <2>3, <2>4, <3>1, <3>2, <3>3 DEF Unassociated
  <2> QED  BY <2>4 DEF Unassociated
<1>5. ASSUME NEW c \in Callers, Conflict(c) \/ CommitFails(c)
      PROVE  Unassociated'
  <2>1. /\ pc'[c] \in {"retry", "idle"} /\ UNCHANGED idOf
        /\ \A d \in Callers \ {c} : /\ pc'[d] = pc[d] /\ val'[d] = val[d]
                                    /\ symID'[d] = symID[d] /\ stale'[d] = stale[d]
    BY <1>5 DEF Conflict, CommitFails, Return, TableTypeOK
  <2> QED  BY <2>1 DEF Unassociated
<1>6. CASE RestartTable
  BY <1>6 DEF Unassociated, RestartTable
<1>7. CASE UNCHANGED tableVars
  BY <1>7 DEF Unassociated, tableVars, callVars
<1> QED  BY <1>1, <1>2, <1>3, <1>4, <1>5, <1>6, <1>7 DEF TableNext

\* A value that has an ID gets another one only by SetSymbolID, or by the
\* retry of a call that had met a conflict.
THEOREM AssociationsStand == TableSpec => OnlyRetriesReplace
<1> DEFINE Replaces(v) == \E c \in Callers :
               val[c] = v /\ pc[c] \in {"retry", "set"}
<1>1. TableInit => TableTypeOK /\ Unassociated
  BY TypeInit DEF TableInit, Unassociated
<1>2. TableTypeOK /\ Unassociated /\ [TableNext]_tableVars => (TableTypeOK /\ Unassociated)'
  BY TypeStep, UnassociatedStep
<1>3. TableTypeOK /\ Unassociated /\ [TableNext]_tableVars =>
        [\A v \in Values : idOf[v] # 0 /\ idOf'[v] # idOf[v] => Replaces(v)]_tableVars
  <2> SUFFICES ASSUME TableTypeOK, Unassociated, TableNext,
                      NEW v \in Values, idOf[v] # 0, idOf'[v] # idOf[v]
               PROVE  Replaces(v)
    OBVIOUS
  <2>1. PICK c \in Callers : Commit(c)
    BY DEF TableNext, GetSymbolID, SetSymbolID, IssueNextID, Conflict, CommitFails, RestartTable
  <2>2. val[c] = v
    BY <2>1 DEF Commit, TableTypeOK
  <2>3. pc[c] \in {"retry", "set"} \/ (pc[c] = "commit" /\ ~stale[c])
    BY <2>1 DEF Commit
  <2> QED  BY <2>2, <2>3 DEF Unassociated
<1> QED  BY <1>1, <1>2, <1>3, PTL DEF TableSpec, OnlyRetriesReplace


-----------------------------------------------------------------------------
(* HostLogin.                                                              *)

\* The reader holds the only message that was sent and not taken; when it leaves
\* it may drop one.
Taken ==
    /\ answered \in Seq(Messages)
    /\ reader = "none" => sent = answered
    /\ reader \in Messages => sent = Append(answered, reader)
    /\ reader = "left" => sent = answered \/ \E m \in Messages : sent = Append(answered, m)

\* What was taken tells how far the login is.
Steps ==
    /\ loginPc \in {"new", "login"} => answered = <<>>
    /\ loginPc \in {"space", "challenge", "response"} =>
           Len(answered) = 1 /\ answered[1] = "login"
    /\ loginPc \in {"checkpoint", "inbox"} =>
           Len(answered) >= 2 /\ answered[1] = "login" /\ answered[2] = "response"

\* A session that is done has nothing below it and its task has left, and only
\* then is the transport closed.
Done ==
    /\ sessCtx = "done" => spaceCtx # "open" /\ loginPc = "left"
    /\ ~viaOpen => sessCtx = "done"

LoginInv == LoginTypeOK /\ Taken /\ Steps /\ Done

LEMMA LoginInitInv == LoginInit => LoginInv
BY LoginAssumption
   DEF LoginInit, LoginInv, LoginTypeOK, Taken, Steps, Done, Waits, Messages

\* Every step keeps the types: txOut never has more than its capacity.
LEMMA LoginTypeStep ==
    ASSUME LoginTypeOK, [LoginNext]_loginVars
    PROVE  LoginTypeOK'
<1> USE LoginAssumption DEF LoginTypeOK, Waits, Messages
<1>1. CASE StartNewSession
  BY <1>1 DEF StartNewSession
<1>2. ASSUME NEW m \in Messages, RecvTx(m) PROVE LoginTypeOK'
  <2>1. sent' \in Seq(Messages) /\ Len(sent') = Len(sent) + 1
    BY <1>2 DEF RecvTx
  <2> QED  BY <1>2, <2>1 DEF RecvTx
<1>3. CASE RecvFails \/ ReaderDone \/ WriterSends \/ WriterDone \/ Fire
  BY <1>3 DEF RecvFails, ReaderDone, ReaderLeaves, WriterSends, WriterDone, Fire, CloseSess
<1>4. CASE WriterTakes
  <2>1. loginOut' \in Seq({"challenge", "checkpoint"}) /\ Len(loginOut') = Len(loginOut) - 1
    BY <1>4 DEF WriterTakes
  <2> QED  BY <1>4, <2>1 DEF WriterTakes
<1>5. CASE NextTx \/ NextTxFails \/ StartSpace
  BY <1>5 DEF NextTx, NextTxFails, StartSpace, Ticks
<1>6. CASE SendMeta
  <2>1. CASE Room /\ loginOut' = Append(loginOut, loginPc)
    <3>1. loginOut' \in Seq({"challenge", "checkpoint"}) /\ Len(loginOut') = Len(loginOut) + 1
      BY <1>6, <2>1 DEF SendMeta
    <3> QED  BY <1>6, <2>1, <3>1 DEF SendMeta, Room
  <2>2. CASE UNCHANGED loginOut
    BY <1>6, <2>2 DEF SendMeta
  <2> QED  BY <1>6, <2>1, <2>2 DEF SendMeta
<1>7. CASE LoginFails \/ ConsumeInbox
  BY <1>7 DEF LoginFails, CloseSess, ConsumeInbox
<1>8. CASE HostCloses \/ Contexts \/ UNCHANGED loginVars
  BY <1>8 DEF HostCloses, CloseSess, Contexts, SpaceCloses, SessDone, loginVars
<1> QED
  BY <1>1, <1>2, <1>3, <1>4, <1>5, <1>6, <1>7, <1>8 DEF LoginNext, LoginTask, HandleLogin

\* The session task takes the message that the reader has: all that was sent
\* is then taken, and nothing that was taken changes.
LEMMA TakeStep ==
    ASSUME LoginInv, reader \in Messages, reader' = "none",
           answered' = Append(answered, reader), sent' = sent
    PROVE  /\ Taken'
           /\ Len(answered') = Len(answered) + 1
           /\ answered'[Len(answered) + 1] = reader
           /\ \A k \in 1 .. Len(answered) : answered'[k] = answered[k]
BY DEF LoginInv, Taken, Messages

\* Every step keeps what was taken in order, and the login's progress.
LEMMA LoginStep ==
    ASSUME LoginInv, [LoginNext]_loginVars
    PROVE  Taken' /\ Steps' /\ Done'
<1> USE DEF LoginInv, LoginTypeOK, Steps, Done
<1>1. CASE StartNewSession
  BY <1>1 DEF StartNewSession, Begun, Taken
<1>2. ASSUME NEW m \in Messages, RecvTx(m) PROVE Taken' /\ Steps' /\ Done'
  BY <1>2 DEF RecvTx, Taken, Messages
<1>3. CASE RecvFails
  BY <1>3 DEF RecvFails, CloseSess, Taken, Messages
<1>4. CASE ReaderDone
  BY <1>4 DEF ReaderDone, ReaderLeaves, Taken, Messages
<1>5. CASE WriterTakes \/ WriterSends \/ WriterDone \/ Fire
  BY <1>5 DEF WriterTakes, WriterSends, WriterDone, Fire, Taken
<1>6. CASE NextTx
  <2>1. Taken' /\ Len(answered') = Len(answered) + 1
        /\ answered'[Len(answered) + 1] = reader
        /\ \A k \in 1 .. Len(answered) : answered'[k] = answered[k]
    BY <1>6, TakeStep DEF NextTx
  <2>2. Steps'
    <3>1. CASE loginPc = "login"
      BY <1>6, <3>1, <2>1 DEF NextTx, Waits, Loads, Taken
    <3>2. CASE loginPc = "response"
      <4>1. Len(answered') = 2 /\ answered'[1] = "login" /\ answered'[2] = reader
        <5>1. Len(answered) = 1 /\ answered[1] = "login"
          BY <3>2
        <5> HIDE DEF LoginInv
        <5> QED  BY <5>1, <2>1
      <4>2. loginPc' = "failed" \/ (loginPc' = "checkpoint" /\ reader = "response")
        BY <1>6, <3>2 DEF NextTx, Loads
      <4> QED  BY <4>1, <4>2
    <3> QED  BY <1>6, <3>1, <3>2 DEF NextTx, Waits
  <2>3. Done'
    BY <1>6 DEF NextTx, Waits
  <2> QED  BY <2>1, <2>2, <2>3
<1>7. CASE NextTxFails \/ StartSpace \/ SendMeta \/ LoginFails
  <2>1. Taken'
    BY <1>7 DEF NextTxFails, StartSpace, SendMeta, LoginFails, Taken
  <2>2. Steps'
    BY <1>7 DEF NextTxFails, StartSpace, SendMeta, LoginFails, Waits
  <2>3. Done'
    BY <1>7 DEF NextTxFails, StartSpace, SendMeta, LoginFails, Waits, CloseSess
  <2> QED  BY <2>1, <2>2, <2>3
<1>8. CASE ConsumeInbox
  <2>1. CASE reader \in Messages /\ reader' = "none" /\ answered' = Append(answered, reader)
             /\ UNCHANGED loginPc
    <3>1. Taken' /\ Len(answered') = Len(answered) + 1
          /\ \A k \in 1 .. Len(answered) : answered'[k] = answered[k]
      BY <1>8, <2>1, TakeStep DEF ConsumeInbox
    <3> QED  BY <1>8, <2>1, <3>1 DEF ConsumeInbox, Taken
  <2>2. CASE sessCtx # "open" /\ loginPc' = "left" /\ UNCHANGED <<reader, answered>>
    BY <1>8, <2>2 DEF ConsumeInbox, Taken
  <2> QED  BY <1>8, <2>1, <2>2 DEF ConsumeInbox
<1>9. CASE HostCloses \/ Contexts \/ UNCHANGED loginVars
  BY <1>9 DEF HostCloses, CloseSess, Contexts, SpaceCloses, SessDone, Below, loginVars, Taken
<1> QED
  BY <1>1, <1>2, <1>3, <1>4, <1>5, <1>6, <1>7, <1>8, <1>9 DEF LoginNext, LoginTask, HandleLogin

LEMMA LoginInvCorrect == LoginSafety => []LoginInv
<1>1. LoginInv /\ [LoginNext]_loginVars => LoginInv'
  BY LoginTypeStep, LoginStep DEF LoginInv
<1> QED  BY LoginInitInv, <1>1, PTL DEF LoginSafety

\* txOut never holds more than its capacity, and the session's tasks are where
\* the code has a place for them.
THEOREM LoginTypeCorrect == LoginSafety => []LoginTypeOK
  BY LoginInvCorrect, PTL DEF LoginInv

\* The client is served only behind a Login that names a user and a
\* LoginResponse, in the order it sent them, whatever else it sends and
\* whenever the timer fires or the host closes.
THEOREM ServiceIsBehindLogin == LoginSafety => []ServedBehindLogin
<1>1. ASSUME LoginInv PROVE SubSeq(sent, 1, Len(answered)) = answered
  <2>1. answered \in Seq(Messages) /\ sent \in Seq(Messages)
    BY <1>1 DEF LoginInv, LoginTypeOK, Taken
  <2>2. \/ sent = answered
        \/ \E m \in Messages : sent = Append(answered, m)
    BY <1>1 DEF LoginInv, LoginTypeOK, Taken
  <2>3. Len(answered) <= Len(sent) /\ \A k \in 1 .. Len(answered) : sent[k] = answered[k]
    BY <2>1, <2>2
  <2> QED  BY <2>1, <2>3
<1>2. LoginInv => ServedBehindLogin
  BY <1>1 DEF LoginInv, Steps, ServedBehindLogin
<1> QED  BY <1>2, LoginInvCorrect, PTL

\* When the transport is closed the session's task has left and no space app
\* that a failed login has started is open.
THEOREM NothingIsLeftBehind == LoginSafety => []NothingBehind
<1>1. LoginInv => NothingBehind
  BY DEF LoginInv, Done, NothingBehind
<1> QED  BY <1>1, LoginInvCorrect, PTL

\* The three together: the login guards the service, and leaves nothing behind
\* when it fails, for any number of messages.
THEOREM LoginIsGuarded == LoginSafety => []LoginGuards
<1>1. LoginTypeOK /\ ServedBehindLogin /\ NothingBehind => LoginGuards
  BY DEF LoginGuards
<1> QED  BY <1>1, LoginTypeCorrect, ServiceIsBehindLogin, NothingIsLeftBehind, PTL
=============================================================================

---------------------------- MODULE SymbolTable ----------------------------
(***************************************************************************)
(* The symbol table of a space (src/amp/badger/symbol_table): a database   *)
(* that maps values (byte strings) to IDs and IDs back to values, and an   *)
(* issuer of IDs that lives in the same database.  Any number of           *)
(* goroutines call GetSymbolID and SetSymbolID, each call in a badger      *)
(* transaction of its own; a transaction whose reads another one has       *)
(* overwritten fails with ErrConflict, and is retried.                     *)
(*                                                                         *)
(* IDs are numbers, 0 is none.  The empty value, hard-wired to 0, is left  *)
(* out.  GetSymbol only reads the map from IDs to values.                  *)
(* The operators named Mutant... are faults a careless edit could bring    *)
(* in; nothing else uses them.                                             *)
(***************************************************************************)
EXTENDS Naturals, FiniteSets

CONSTANTS
    Callers,      \* the goroutines
    Values, NoVal,
    FirstId,      \* TableOpts.IssuerInitsAt, the floor of the issued IDs
    MaxId,        \* bound: no ID above it is issued
    Explicit,     \* the IDs that SetSymbolID is called with, issued ones too
    Lease,        \* how many IDs badger's sequence leases at once
    CommitErrors  \* TRUE: a commit may fail for a reason other than a conflict

ASSUME SymbolTableAssumption ==
    /\ FirstId \in Nat \ {0} /\ MaxId \in Nat /\ FirstId <= MaxId
    /\ Explicit \subseteq 1 .. MaxId
    /\ Lease \in Nat \ {0}
    /\ CommitErrors \in BOOLEAN
    /\ NoVal \notin Values

IDs == 1 .. MaxId
Issued == FirstId .. MaxId
OwnIds == Issued \ Explicit    \* those that only the issuer hands out

VARIABLES
    idOf,      \* the entries value => ID
    valOf,     \* the entries ID => value
    nextId,    \* the next ID of the issuer
    leased,    \* the sequence key in the database: IDs below it may be in use
    pc,        \* where each call is
    val,       \* the value it was called with
    symID,     \* the ID it is about to assign
    reassignID,
    stale,     \* its transaction has read an entry that was overwritten since
    answers,   \* history: the IDs that calls have returned for each value
    lost       \* history: the IDs whose assignment failed to commit

callVars == <<pc, val, symID, reassignID, stale>>
tableVars == <<idOf, valOf, nextId, leased, callVars, answers, lost>>

\* NewBadgerIssuer: the sequence key is set unless the database has it, then
\* the sequence takes its first lease.  The mutant sets it at every start.
MutantOpenSequence(key) == FirstId
OpenSequence(key) == IF key = 0 THEN FirstId ELSE key

TableInit ==
    /\ idOf = [v \in Values |-> 0]
    /\ valOf = [i \in IDs |-> NoVal]
    /\ nextId = OpenSequence(0) /\ leased = OpenSequence(0) + Lease
    /\ pc = [c \in Callers |-> "idle"]
    /\ val = [c \in Callers |-> NoVal]
    /\ symID = [c \in Callers |-> 0]
    /\ reassignID = [c \in Callers |-> FALSE]
    /\ stale = [c \in Callers |-> FALSE]
    /\ answers = [v \in Values |-> {}] /\ lost = {}

Answer(v, id) == answers' = [answers EXCEPT ![v] = (@ \cup {id}) \ {0}]

-----------------------------------------------------------------------------
\* The transaction's read.  GetSymbolID(v, FALSE) and a value that has an ID
\* are answered at once; GetSymbolID(v, TRUE) goes on to issue an ID.
GetSymbolID(c) ==
    /\ pc[c] = "idle"
    /\ \E v \in Values :
         \/ Answer(v, idOf[v]) /\ UNCHANGED callVars
         \/ /\ idOf[v] = 0
            /\ pc' = [pc EXCEPT ![c] = "issue"]
            /\ val' = [val EXCEPT ![c] = v]
            /\ UNCHANGED <<symID, reassignID, stale, answers>>
    /\ UNCHANGED <<idOf, valOf, nextId, leased, lost>>

\* SetSymbolID(v, id) of an ID other than 0: the ID gets the value's name
\* only if the value had no ID before, and then it loses the name it had.
SetSymbolID(c) ==
    /\ pc[c] = "idle"
    /\ \E v \in Values, id \in Explicit :
         /\ idOf[v] # id
         /\ pc' = [pc EXCEPT ![c] = "set"]
         /\ val' = [val EXCEPT ![c] = v]
         /\ symID' = [symID EXCEPT ![c] = id]
         /\ reassignID' = [reassignID EXCEPT ![c] = (idOf[v] = 0)]
    /\ UNCHANGED <<idOf, valOf, nextId, leased, stale, answers, lost>>

\* The sequence renews its lease when it is used up; the mutant does not.
MutantRenew == leased
Renew == IF nextId = leased THEN leased + Lease ELSE leased

\* Issuer.IssueNextID
IssueNextID(c) ==
    /\ pc[c] = "issue"
    /\ nextId < MaxId
    /\ nextId' = nextId + 1
    /\ leased' = Renew
    /\ symID' = [symID EXCEPT ![c] = nextId]
    /\ reassignID' = [reassignID EXCEPT ![c] = TRUE]
    /\ pc' = [pc EXCEPT ![c] = "commit"]
    /\ UNCHANGED <<idOf, valOf, val, stale, answers, lost>>

Return(c) ==
    /\ pc' = [pc EXCEPT ![c] = "idle"]
    /\ val' = [val EXCEPT ![c] = NoVal]
    /\ symID' = [symID EXCEPT ![c] = 0]
    /\ reassignID' = [reassignID EXCEPT ![c] = FALSE]

\* The transactions that are open and have read the entry of v.  The mutant
\* opens the transaction only after it has issued the ID.
MutantReaders(v) == {c \in Callers : pc[c] \in {"set", "commit"} /\ val[c] = v}
Readers(v) == {c \in Callers : pc[c] \in {"issue", "set", "commit"} /\ val[c] = v}

\* The transaction commits; it wrote both entries, or only value => ID.
Commit(c) ==
    /\ pc[c] \in {"set", "commit", "retry"}
    /\ pc[c] # "retry" => ~stale[c]
    /\ idOf' = [idOf EXCEPT ![val[c]] = symID[c]]
    /\ valOf' = IF reassignID[c] THEN [valOf EXCEPT ![symID[c]] = val[c]]
                                ELSE valOf
    /\ stale' = [d \in Callers |-> d # c /\ (stale[d] \/ d \in Readers(val[c]))]
    /\ Answer(val[c], symID[c])
    /\ Return(c)
    /\ UNCHANGED <<nextId, leased, lost>>

\* ErrConflict: the writes are tried again in a new transaction, which reads
\* nothing and so meets no conflict.
Conflict(c) ==
    /\ pc[c] \in {"set", "commit"} /\ stale[c]
    /\ pc' = [pc EXCEPT ![c] = "retry"]
    /\ stale' = [stale EXCEPT ![c] = FALSE]
    /\ UNCHANGED <<idOf, valOf, nextId, leased, val, symID, reassignID, answers,
                   lost>>

\* Another error of Set or Commit leaves the loop; the err it is in is not
\* the err that is checked afterwards, and the call returns the ID.
CommitFails(c) ==
    /\ CommitErrors
    /\ pc[c] \in {"set", "commit", "retry"}
    /\ stale' = [stale EXCEPT ![c] = FALSE]
    /\ lost' = lost \cup {symID[c]}
    /\ Answer(val[c], symID[c])
    /\ Return(c)
    /\ UNCHANGED <<idOf, valOf, nextId, leased>>

\* The process stops and starts again: the calls are gone.  Issuer.Close gives
\* the rest of the lease back to the database, a crash loses it.
RestartTable ==
    /\ \E key \in {nextId, leased} : /\ nextId' = OpenSequence(key)
                                     /\ leased' = OpenSequence(key) + Lease
    /\ nextId' <= MaxId
    /\ pc' = [c \in Callers |-> "idle"]
    /\ val' = [c \in Callers |-> NoVal]
    /\ symID' = [c \in Callers |-> 0]
    /\ reassignID' = [c \in Callers |-> FALSE]
    /\ stale' = [c \in Callers |-> FALSE]
    /\ UNCHANGED <<idOf, valOf, answers, lost>>

TableNext ==
    \/ \E c \in Callers : \/ GetSymbolID(c) \/ SetSymbolID(c) \/ IssueNextID(c)
                          \/ Commit(c) \/ Conflict(c) \/ CommitFails(c)
    \/ RestartTable

TableSpec == TableInit /\ [][TableNext]_tableVars

-----------------------------------------------------------------------------
\* The type invariant: in particular a call that is about to write has a value
\* and an ID.
TableTypeOK ==
    /\ idOf \in [Values -> IDs \cup {0}]
    /\ valOf \in [IDs -> Values \cup {NoVal}]
    /\ nextId \in Issued
    /\ leased \in Nat /\ nextId <= leased
    /\ pc \in [Callers -> {"idle", "issue", "set", "commit", "retry"}]
    /\ val \in [Callers -> Values \cup {NoVal}]
    /\ symID \in [Callers -> IDs \cup {0}]
    /\ reassignID \in [Callers -> BOOLEAN]
    /\ stale \in [Callers -> BOOLEAN]
    /\ answers \in [Values -> SUBSET IDs] /\ lost \in SUBSET IDs
    /\ \A c \in Callers : /\ pc[c] # "idle" => val[c] \in Values
                          /\ pc[c] \in {"set", "commit", "retry"} => symID[c] \in IDs

\* GetSymbol gives the value of every ID that a call has issued and returned
\* for it, unless the ID's own commit failed, in which case it names nothing:
\* across conflicts, retries and restarts the issuer gives no ID to two values.
\* (SetSymbolID may take an issued ID for another value, and the ID's name is
\* then overwritten: those IDs are left out.)
AnswersResolve ==
    \A v \in Values : \A id \in answers[v] \cap OwnIds :
        valOf[id] = v \/ (id \in lost /\ valOf[id] = NoVal)

\* An association of the database changes only by SetSymbolID, or by the retry
\* of a call that had met a conflict.
OnlyRetriesReplace ==
    [][\A v \in Values :
           idOf[v] # 0 /\ idOf'[v] # idOf[v] =>
               \E c \in Callers : val[c] = v /\ pc[c] \in {"retry", "set"}]_tableVars

\* table.go:44, "All methods are concurrency-safe.": without SetSymbolID a
\* value gets one ID, whoever asks for it.
OneIdPerValue == \A v \in Values : Cardinality(answers[v]) <= 1

=============================================================================

------------------------------ MODULE ArcGate ------------------------------
(***************************************************************************)
(* The web server of src/cmd/arcgate/main.go: handlers run at once; files  *)
(* are kept in memory once they have been asked for, templates are         *)
(* executed for each request, and the failure of one is remembered.        *)
(* RescanWWW is called once, before anything is served, so that no entry   *)
(* disappears.  The files on the disk may be edited while they are served. *)
(***************************************************************************)
EXTENDS Naturals

CONSTANTS
    WebReqs,      \* http requests
    Docs,         \* plain files below www
    DocSizes,     \* their sizes
    CacheLimit,   \* CacheSizeLimit
    Editions,     \* bound: how often a file is edited
    NoWebReq

ASSUME GateAssumption ==
    /\ NoWebReq \notin WebReqs /\ Docs \cap {"template", "fixed", "missing"} = {}
    /\ DocSizes \subseteq Nat /\ CacheLimit \in Nat /\ Editions \in Nat \ {0}

VARIABLES
    disk,         \* the files: [size, edition]
    scanned,      \* their sizes when RescanWWW ran (history)
    www,          \* the entries: [size, len, edition], len of FileData
    wwwMu,        \* who holds the lock for writing
    statusErr,    \* an error that answers every request
    web,          \* requests: where they are, what they want, their copy of the entry
    unread        \* requests whose ReadFile has failed (history)

gateVars == <<disk, scanned, www, wwwMu, statusErr, web, unread>>

NoEntry == [size |-> 0, len |-> 0, edition |-> 0]

GateInit ==
    /\ disk \in [Docs -> [size : DocSizes, edition : {1}]]
    /\ scanned = [d \in Docs |-> disk[d].size]
    /\ www = [d \in Docs |-> [size |-> disk[d].size, len |-> 0, edition |-> 0]]
    /\ wwwMu = NoWebReq /\ statusErr = FALSE /\ unread = {}
    /\ web = [r \in WebReqs |-> [pc |-> "new", want |-> "fixed", entry |-> NoEntry]]

Edit(d) ==
    /\ disk[d].edition < Editions
    /\ \E size \in DocSizes : disk' = [disk EXCEPT ![d] = [size |-> size, edition |-> @.edition + 1]]
    /\ UNCHANGED <<scanned, www, wwwMu, statusErr, web, unread>>

-----------------------------------------------------------------------------
(* The handlers.                                                           *)

\* ServeHTTP: a link or a page is a template, the rest of an organization's
\* answers are fixed.
ServeHTTP(r) ==
    /\ web[r].pc = "new"
    /\ \E want \in Docs \cup {"template", "fixed", "missing"} :
           web' = [web EXCEPT ![r] = [pc |-> IF statusErr THEN "refused"
                                             ELSE IF want \in Docs THEN "lookup"
                                             ELSE want,
                                      want |-> want, entry |-> NoEntry]]
    /\ UNCHANGED <<disk, scanned, www, wwwMu, statusErr, unread>>

\* The handler of the http port: what is not the index page is redirected.  It
\* does not look at statusErr.
RedirectToHTTPS(r) ==
    /\ web[r].pc = "new"
    /\ \E want \in Docs \cup {"template", "fixed"} :
           web' = [web EXCEPT ![r] = [pc |-> IF want \in Docs THEN "lookup" ELSE want,
                                      want |-> want, entry |-> NoEntry]]
    /\ UNCHANGED <<disk, scanned, www, wwwMu, statusErr, unread>>

\* serveTemplate, or serveFile of a template: what fails for one client is
\* an error for all.
ServeTemplate(r) ==
    /\ web[r].pc = "template"
    /\ \/ web' = [web EXCEPT ![r].pc = "sent"] /\ UNCHANGED statusErr
       \/ web' = [web EXCEPT ![r].pc = "failed"] /\ statusErr' = TRUE
    /\ UNCHANGED <<disk, scanned, www, wwwMu, unread>>

\* fileEntry.recache
Recache(entry) == entry.len < entry.size /\ entry.size < CacheLimit

\* serveFile: the entry is copied under the read lock.
LookupDoc(r) ==
    /\ web[r].pc = "lookup" /\ wwwMu = NoWebReq
    /\ LET entry == www[web[r].want]
       IN web' = [web EXCEPT ![r].pc = IF Recache(entry) THEN "lock" ELSE "send",
                             ![r].entry = entry]
    /\ UNCHANGED <<disk, scanned, www, wwwMu, statusErr, unread>>

\* The mutant does not look whether somebody has the lock.
MutantMuFree(r) == TRUE
MuFree(r) == wwwMu = NoWebReq

LockWww(r) ==
    /\ web[r].pc = "lock" /\ MuFree(r)
    /\ wwwMu' = r
    /\ web' = [web EXCEPT ![r].pc = "locked", ![r].entry = www[web[r].want]]
    /\ UNCHANGED <<disk, scanned, www, statusErr, unread>>

\* What the file has now, with its size.  The mutant keeps the old size.
MutantContents(d) == [size |-> www[d].size, len |-> disk[d].size, edition |-> disk[d].edition]
Contents(d) == [size |-> disk[d].size, len |-> disk[d].size, edition |-> disk[d].edition]

\* Another request may have read the file since the lookup.  The mutant reads
\* it again.
MutantStillEmpty(r) == TRUE
StillEmpty(r) == Recache(web[r].entry)

ReadDoc(r) ==
    /\ web[r].pc = "locked" /\ StillEmpty(r)
    /\ web' = [web EXCEPT ![r].pc = "send", ![r].entry = Contents(web[r].want)]
    /\ www' = [www EXCEPT ![web[r].want] = Contents(web[r].want)]
    /\ wwwMu' = NoWebReq
    /\ UNCHANGED <<disk, scanned, statusErr, unread>>

\* The mutant returns with the lock.
MutantReadFails(r) ==
    /\ web[r].pc = "locked" /\ StillEmpty(r)
    /\ web' = [web EXCEPT ![r].pc = "send"] /\ unread' = unread \cup {r}
    /\ UNCHANGED <<disk, scanned, www, wwwMu, statusErr>>
ReadFails(r) ==
    /\ web[r].pc = "locked" /\ StillEmpty(r)
    /\ web' = [web EXCEPT ![r].pc = "send"] /\ unread' = unread \cup {r}
    /\ wwwMu' = NoWebReq
    /\ UNCHANGED <<disk, scanned, www, statusErr>>

HasBeenRead(r) ==
    /\ web[r].pc = "locked" /\ ~StillEmpty(r)
    /\ web' = [web EXCEPT ![r].pc = "send"] /\ wwwMu' = NoWebReq
    /\ UNCHANGED <<disk, scanned, www, statusErr, unread>>

\* An entry that is not complete is an internal error.
SendDoc(r) ==
    /\ web[r].pc = "send"
    /\ web' = [web EXCEPT ![r].pc =
                  IF web[r].entry.len = web[r].entry.size THEN "sent" ELSE "error"]
    /\ UNCHANGED <<disk, scanned, www, wwwMu, statusErr, unread>>

-----------------------------------------------------------------------------
ServeFile(r) ==
    LookupDoc(r) \/ LockWww(r) \/ ReadDoc(r) \/ ReadFails(r) \/ HasBeenRead(r) \/ SendDoc(r)

GateNext ==
    \/ \E r \in WebReqs : ServeHTTP(r) \/ RedirectToHTTPS(r) \/ ServeTemplate(r) \/ ServeFile(r)
    \/ \E d \in Docs : Edit(d)

\* Handlers run; each takes finitely many steps, so that it is enough to let one
\* of them go on.
GateFairness ==
    WF_gateVars(\E r \in WebReqs : ServeTemplate(r) \/ ServeFile(r))

GateSafety == GateInit /\ [][GateNext]_gateVars

GateSpec == GateSafety /\ GateFairness

-----------------------------------------------------------------------------
Answered == {"sent", "fixed", "missing", "refused", "failed", "error"}

\* Each variable has its type, and one handler at most is in the locked part.
GateTypeOK ==
    /\ disk \in [Docs -> [size : DocSizes, edition : 1 .. Editions]]
    /\ www \in [Docs -> [size : DocSizes, len : DocSizes \cup {0}, edition : 0 .. Editions]]
    /\ statusErr \in BOOLEAN /\ unread \subseteq WebReqs
    /\ \A r \in WebReqs : web[r].pc \in {"new", "template", "lookup", "lock", "locked", "send"} \cup Answered
    /\ \A r \in WebReqs : web[r].pc = "locked" <=> wwwMu = r

\* However requests race each other and the editing of a file, all clients get
\* the same edition of it: they are told the same Last-Modified, of the scan.
OneEdition ==
    \A q, r \in WebReqs :
        web[q].want \in Docs /\ web[q].want = web[r].want /\ web[q].pc = "sent" /\ web[r].pc = "sent"
            => web[q].entry.edition = web[r].entry.edition

\* A file that was below the cache's limit is served, even if it has grown or
\* shrunk before it is read, unless it cannot be read.
SmallDocsAreSent ==
    \A r \in WebReqs : web[r].pc = "error" =>
        r \in unread \/ scanned[web[r].want] >= CacheLimit

\* Every request is answered, whoever fails with the lock held.
WebAnswered == \A r \in WebReqs : web[r].pc # "new" ~> web[r].pc \in Answered

\* Requests that race to read a file into the cache hold the lock one at a time,
\* and all visitors get the same edition of it, also if it has been edited since
\* the scan.
DocsAreServed == GateTypeOK /\ OneEdition /\ SmallDocsAreSent
=============================================================================

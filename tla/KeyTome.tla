------------------------------ MODULE KeyTome ------------------------------
(***************************************************************************)
(* The keys of an enclave (KeyTomeMgr in src/ski/ski.support.go): keyrings *)
(* by name, merged with the tomes of others, looked up by name and public  *)
(* key, exported, saved and loaded.                                        *)
(*                                                                         *)
(* The manager's lock is taken for reading by MergeTome and Marshal, as by *)
(* the lookups, so that any number of them run at once; Clear and          *)
(* Unmarshal have it to themselves.  Merges interleave here between the    *)
(* rounds of MergeTome and within its append.  What a race leaves of one   *)
(* sort or one MergeKeys is not modelled any finer: once merges have       *)
(* overlapped, or while one runs beside a Marshal, nothing is promised.    *)
(*                                                                         *)
(* The keys of a ring are a set: a ring is sorted whenever it is searched, *)
(* and two entries that agree in every field cannot be told apart (a ring  *)
(* that is new to the tome keeps both).  The rings are a sequence, since   *)
(* they are searched while their order is being restored.  A name and a    *)
(* public key are numbers, in their order.                                 *)
(***************************************************************************)
EXTENDS Integers, Sequences, FiniteSets

CONSTANTS
    Mergers,      \* the goroutines that merge tomes into this one
    RingNames,        \* of keyrings
    Entries,      \* keys: [pub, time], an entry is all its fields
    ShortPubs,    \* public keys of less than MinPubKeyPrefixSz bytes
    Sources,      \* the sequences of rings that are merged
    None,         \* no public key, no keyring, no entry
    MaxMerges     \* bound: merges of a behaviour

\* A ring; what is known as its newest public key is a key's.
Rings == [name : RingNames, keys : SUBSET Entries, newest : {e.pub : e \in Entries} \cup {None}]
IsRing(r) == r \in Rings /\ (r.newest # None => \E e \in r.keys : e.pub = r.newest)

ASSUME TomeAssumption ==
    /\ RingNames \subseteq Int /\ MaxMerges \in Nat
    /\ IsFiniteSet(Entries) /\ \A e \in Entries : e.time \in Int
    /\ None \notin Int /\ None \notin Entries /\ None \notin {e.pub : e \in Entries}
    /\ \A src \in Sources : src \in Seq(Rings) /\ \A k \in DOMAIN src : IsRing(src[k])

VARIABLES
    keyrings,      \* tome.Keyrings: rings [name, keys, newest]
    sortedByName,  \* tome.SortedByName
    rev,           \* tome.Rev
    merge,         \* each goroutine's MergeTome, as its local variables
    given,         \* keys of the tome and of the source when it began (history)
    saved,         \* what Marshal has written, and in which state
    loaded,        \* Unmarshal was the last operation
    raced,         \* two merges have overlapped (history)
    mixed          \* rings may share a name or be out of order (history)

tomeVars == <<keyrings, sortedByName, rev, merge, given, saved, loaded, raced, mixed>>

Held(rings) == UNION {{<<rings[k].name, e>> : e \in rings[k].keys} : k \in DOMAIN rings}
Ring(name, keys, newest) == [name |-> name, keys |-> keys, newest |-> newest]

\* No two rings of a tome have one name.
Distinct(rings) == \A j, k \in DOMAIN rings : rings[j].name = rings[k].name => j = k

\* KeyTome.Optimize: rings by name; those of one name stay in their order (they
\* do in sort.Sort if there are no more than twelve rings).
Before(rings, k) ==
    {j \in DOMAIN rings : \/ rings[j].name < rings[k].name
                          \/ rings[j].name = rings[k].name /\ j <= k}
Optimized(rings) ==
    [i \in DOMAIN rings |-> rings[CHOOSE k \in DOMAIN rings : Cardinality(Before(rings, k)) = i]]

-----------------------------------------------------------------------------
(* Lookups.                                                                *)

\* Keyring.FetchKey: of several keys with the public key the newest is first.
FetchKey(ring, pub) ==
    LET found == {e \in ring.keys : e.pub = pub}
    IN IF found = {} THEN None
       ELSE CHOOSE e \in found : \A f \in found : f.time <= e.time

Latest(keys) == CHOOSE e \in keys : \A f \in keys : f.time <= e.time

\* Keyring.FetchNewestKey
FetchNewestKey(ring) ==
    IF ring.keys = {} THEN None
    ELSE IF ring.newest # None THEN FetchKey(ring, ring.newest)
    ELSE Latest(ring.keys)

\* Keyring.Optimize
OptimizedRing(ring) ==
    Ring(ring.name, ring.keys, IF ring.keys = {} THEN None ELSE Latest(ring.keys).pub)

\* sort.Search for the first name that is not below the wanted one: it halves the
\* interval until it is empty.
Search(rings, name) ==
    LET From[b \in (0 .. Len(rings)) \X (0 .. Len(rings))] ==
            LET mid == (b[1] + b[2]) \div 2
            IN IF b[1] >= b[2] THEN b[1]
               ELSE From[IF rings[mid + 1].name >= name THEN <<b[1], mid>> ELSE <<mid + 1, b[2]>>]
    IN From[<<0, Len(rings)>>] + 1

\* KeyTome.FetchKeyring: where the ring is.  It is searched for from end to end
\* if the rings are not known to be sorted.
FetchKeyring(rings, isSorted, name) ==
    LET at == Search(rings, name)
        all == {k \in DOMAIN rings : rings[k].name = name}
    IN IF isSorted
       THEN IF at \in all THEN at ELSE None
       ELSE IF all = {} THEN None ELSE CHOOSE k \in all : \A j \in all : k <= j

\* KeyTomeMgr.FetchKey, by public key (no key is another's prefix) or, with None,
\* the newest.
Fetch(name, pub) ==
    LET at == FetchKeyring(keyrings, sortedByName, name)
    IN IF at = None THEN None
       ELSE IF pub = None THEN FetchNewestKey(keyrings[at])
       ELSE FetchKey(keyrings[at], pub)

\* KeyTome.ExportUsingGuide without ErrorOnKeyNotFound: the keys it marshals.
Exported(guide) ==
    LET Source(k) == FetchKeyring(keyrings, sortedByName, guide[k].name)
        Picked(k) == IF guide[k].keys = {} THEN keyrings[Source(k)].keys
                     ELSE {FetchKey(keyrings[Source(k)], e.pub) : e \in guide[k].keys} \ {None}
    IN UNION {{<<guide[k].name, e>> : e \in Picked(k)} :
                 k \in {k \in DOMAIN guide : Source(k) # None}}

-----------------------------------------------------------------------------
(* Merging.                                                                *)

\* Keyring.MergeKeys: the source's keys whose public key the ring does not
\* have; those that clash with a key of the ring stay in the source.  The
\* mutants drop what clashes, give back all that is left, forget the newest key
\* of the ring, and add every key.
Fresh(ring, src) == {e \in src.keys : FetchKey(ring, e.pub) = None}

MutantProblems(ring, src) == {}
MutantLeft(ring, src) == src.keys
Problems(ring, src) ==
    {e \in src.keys \ Fresh(ring, src) :
        FetchKey(ring, e.pub) # e \/ e.pub \in ShortPubs}

MutantNewestOf(ring, src) ==
    IF Fresh(ring, src) = {} THEN ring.newest ELSE Latest(Fresh(ring, src)).pub
NewestOf(ring, src) ==
    LET old == FetchNewestKey(ring)
        fresh == Fresh(ring, src)
        new == Latest(fresh)
    IN IF fresh # {} /\ (old = None \/ (old # None /\ new.time >= old.time)) THEN new.pub
       ELSE IF old = None THEN None ELSE old.pub

MutantMergeKeys(ring, src) ==
    Ring(ring.name, ring.keys \cup src.keys, NewestOf(ring, src))
MergeKeys(ring, src) ==
    Ring(ring.name, ring.keys \cup Fresh(ring, src), NewestOf(ring, src))

Idle == [pc |-> "idle", src |-> <<>>, i |-> 1, room |-> 0, problems |-> <<>>]

Under(m) == merge[m].pc # "idle"
Merging == \E m \in Mergers : Under(m)
Becomes(m, mg) == merge' = [merge EXCEPT ![m] = mg]

\* KeyTomeMgr.MergeTome takes the lock for reading; Rev++ and, if needed,
\* Optimize.
MergeBegin(m) ==
    /\ ~Under(m) /\ rev <= MaxMerges
    /\ \E src \in Sources :
        /\ Becomes(m, [Idle EXCEPT !.pc = "match", !.src = src])
        /\ given' = Held(keyrings) \cup Held(src)
        /\ mixed' = (mixed \/ Merging \/ ~Distinct(src))
    /\ raced' = (raced \/ Merging)
    /\ rev' = rev + 1
    /\ keyrings' = IF sortedByName THEN keyrings ELSE Optimized(keyrings)
    /\ sortedByName' = TRUE
    /\ loaded' = FALSE
    /\ UNCHANGED saved

\* The last ring of the source takes the place of the one that was merged.
WithoutCurrent(mg) ==
    LET last == Len(mg.src)
    IN SubSeq([mg.src EXCEPT ![mg.i] = mg.src[last]], 1, last - 1)

\* One round of the loop over the source's rings: a ring that is new to the tome
\* stays where it is ...
MatchNew(mg, src) == [mg EXCEPT !.src[mg.i] = OptimizedRing(src), !.i = mg.i + 1]

\* ... and one that is not leaves the source, but for what clashes.
MatchKnown(mg, src, left) ==
    [mg EXCEPT !.src = WithoutCurrent(mg),
               !.problems = IF left = {} THEN @
                            ELSE Append(@, OptimizedRing(Ring(src.name, left, None)))]

MergeMatch(m) ==
    LET mg == merge[m]
        src == mg.src[mg.i]
        at == FetchKeyring(keyrings, sortedByName, src.name)
    IN /\ mg.pc = "match" /\ mg.i <= Len(mg.src)
       /\ \/ at = None /\ Becomes(m, MatchNew(mg, src)) /\ UNCHANGED keyrings
          \/ /\ at # None
             /\ Becomes(m, MatchKnown(mg, src, Problems(keyrings[at], src)))
             /\ keyrings' = [keyrings EXCEPT ![at] = MergeKeys(@, src)]
       /\ UNCHANGED <<sortedByName, rev, given, saved, loaded, raced, mixed>>

\* The new rings are appended: the tome's slice is read ...
MergeAppend(m) ==
    /\ merge[m].pc = "match" /\ merge[m].i > Len(merge[m].src)
    /\ Becomes(m, [merge[m] EXCEPT !.pc = "store", !.room = Len(keyrings)])
    /\ UNCHANGED <<keyrings, sortedByName, rev, given, saved, loaded, raced, mixed>>

\* ... and written, over what others have stored meanwhile.
FirstRings(n) == SubSeq(keyrings, 1, IF n <= Len(keyrings) THEN n ELSE Len(keyrings))

MergeStore(m) ==
    /\ merge[m].pc = "store"
    /\ keyrings' = IF merge[m].src = <<>> THEN keyrings
                   ELSE FirstRings(merge[m].room) \o merge[m].src
    /\ Becomes(m, [merge[m] EXCEPT !.pc = "sort"])
    /\ UNCHANGED <<sortedByName, rev, given, saved, loaded, raced, mixed>>

\* They are sorted, and what clashed is given back.  The mutant leaves them as
\* they were appended.
MutantInOrder(rings, added) == rings
InOrder(rings, added) == IF added = <<>> THEN rings ELSE Optimized(rings)

MergeSort(m) ==
    /\ merge[m].pc = "sort"
    /\ keyrings' = InOrder(keyrings, merge[m].src)
    /\ Becomes(m, [merge[m] EXCEPT !.pc = "done", !.src = Optimized(merge[m].problems),
                                   !.problems = <<>>])
    /\ UNCHANGED <<sortedByName, rev, given, saved, loaded, raced, mixed>>

\* The lock is released and MergeTome returns.
MergeReturn(m) ==
    /\ merge[m].pc = "done"
    /\ Becomes(m, Idle) /\ given' = {}
    /\ UNCHANGED <<keyrings, sortedByName, rev, saved, loaded, raced, mixed>>

MergeStep(m) == MergeMatch(m) \/ MergeAppend(m) \/ MergeStore(m) \/ MergeSort(m)

-----------------------------------------------------------------------------
(* The other operations of the manager.                                    *)

\* Keyring.ZeroOut of every ring: the names stay.  The mutant keeps what is
\* known as the newest key.
MutantZeroedOut ==
    [k \in DOMAIN keyrings |-> Ring(keyrings[k].name, {}, keyrings[k].newest)]
ZeroedOut == [k \in DOMAIN keyrings |-> Ring(keyrings[k].name, {}, None)]

Clear ==
    /\ ~Merging /\ keyrings' = ZeroedOut /\ loaded' = FALSE
    /\ UNCHANGED <<sortedByName, rev, merge, given, saved, raced, mixed>>

\* The lock is taken for reading: merges may be under way (and then it may panic
\* as well, with a buffer that has become too small: Restart).
MarshalTome ==
    /\ saved' = [keyrings |-> keyrings, sortedByName |-> sortedByName,
                 mixed |-> mixed, merging |-> Merging]
    /\ loaded' = FALSE
    /\ UNCHANGED <<keyrings, sortedByName, rev, merge, given, raced, mixed>>

\* The generated Unmarshal appends to Keyrings, and a flag that was not set has
\* not been written.  (Rev is overwritten; here it only counts the merges.)  The
\* mutant zeroes out what it has read.
MutantWithSaved ==
    [k \in 1 .. Len(keyrings) + Len(saved.keyrings) |->
        Ring((keyrings \o saved.keyrings)[k].name, {}, None)]
WithSaved == ZeroedOut \o saved.keyrings

UnmarshalTome ==
    /\ ~Merging /\ Len(keyrings) + Len(saved.keyrings) <= 2 * Cardinality(RingNames)
    /\ keyrings' = WithSaved
    /\ sortedByName' = (sortedByName \/ saved.sortedByName)
    /\ loaded' = TRUE
    /\ mixed' = (mixed \/ saved.mixed \/ saved.merging \/ keyrings # <<>>)
    /\ UNCHANGED <<rev, merge, given, saved, raced>>

\* A new manager: the program has ended, between two operations or in a merge,
\* and only what was saved is left.
RestartTome ==
    /\ keyrings' = <<>> /\ sortedByName' = FALSE
    /\ merge' = [m \in Mergers |-> Idle] /\ given' = {}
    /\ loaded' = FALSE /\ raced' = FALSE /\ mixed' = FALSE
    /\ UNCHANGED <<rev, saved>>

TomeInit ==
    /\ keyrings = <<>> /\ sortedByName = FALSE /\ rev = 1
    /\ merge = [m \in Mergers |-> Idle] /\ given = {}
    /\ loaded = FALSE /\ raced = FALSE /\ mixed = FALSE
    /\ saved = [keyrings |-> <<>>, sortedByName |-> FALSE, mixed |-> FALSE, merging |-> FALSE]

TomeNext ==
    \/ \E m \in Mergers : MergeBegin(m) \/ MergeStep(m) \/ MergeReturn(m)
    \/ Clear \/ MarshalTome \/ UnmarshalTome \/ RestartTome

TomeSpec == TomeInit /\ [][TomeNext]_tomeVars

-----------------------------------------------------------------------------
TomeTypeOK ==
    /\ \A rings \in {keyrings, saved.keyrings} \cup
                     UNION {{merge[m].src, merge[m].problems} : m \in Mergers} :
           \A k \in DOMAIN rings : IsRing(rings[k])
    /\ {sortedByName, loaded, raced, mixed} \subseteq BOOLEAN
    /\ rev \in 1 .. MaxMerges + 1
    /\ \A m \in Mergers : merge[m].pc \in {"idle", "match", "store", "sort", "done"}
    /\ given \subseteq RingNames \X Entries

(* raced: the callers of MergeTome have not kept two of them apart.        *)
(*                                                                         *)
(* mixed: besides, a tome with two rings of a name was merged, or          *)
(* Unmarshal appended to the rings that a used manager has zeroed out, or  *)
(* what it loaded was saved while a merge ran.  A tome may then hold two   *)
(* rings of a name, and find one of them, or rings that are out of order.  *)

\* A merge that no other overlaps loses no key and makes none: when MergeTome
\* returns, every key of the tome and of the source is in one of them.
KeysConserved ==
    \A m \in Mergers : merge[m].pc = "done" /\ ~raced =>
        Held(keyrings) \cup Held(merge[m].src) = given

\* What such a merge leaves in the source has a key of the tome against it: one
\* with the same public key.  (A public key that is too short is only noticed then.)
LeftForAReason ==
    \A m \in Mergers : merge[m].pc = "done" /\ ~raced =>
        \A h \in Held(merge[m].src) : \E g \in Held(keyrings) :
            /\ g[1] = h[1] /\ g[2].pub = h[2].pub
            /\ g # h \/ h[2].pub \in ShortPubs

\* A merge never changes what a public key of the tome stands for.
KeysOf(h) == {g \in Held(keyrings) : g[1] = h[1] /\ g[2].pub = h[2].pub}

KeysStand ==
    [][~mixed /\ (\E m \in Mergers : MergeBegin(m) \/ MergeStep(m)) =>
           \A h \in Held(keyrings) : KeysOf(h)' = KeysOf(h)]_tomeVars

\* While no merge runs every key can be found: the newest of its ring with its
\* public key, and the newest of the ring if none is named.
FetchFinds ==
    ~Merging /\ ~mixed =>
        \A h \in Held(keyrings) :
            /\ Fetch(h[1], h[2].pub) # None /\ Fetch(h[1], h[2].pub).time >= h[2].time
            /\ Fetch(h[1], None) # None /\ Fetch(h[1], None).time >= h[2].time

\* An export by names and public keys has all the keys of the guide that the
\* tome holds, and no other.
ExportIsExact ==
    ~Merging /\ ~mixed =>
        \A guide \in Sources :
            Exported(guide) =
                {h \in Held(keyrings) : \E k \in DOMAIN guide :
                    /\ guide[k].name = h[1]
                    /\ \/ guide[k].keys = {}
                       \/ \E e \in guide[k].keys : e.pub = h[2].pub
                          /\ Fetch(h[1], e.pub) = h[2]}

\* What was saved between merges can be found after it was loaded into a new
\* manager.
UnmarshalRestores ==
    loaded /\ ~mixed => \A h \in Held(saved.keyrings) : Fetch(h[1], h[2].pub) # None

\* A merge that no other overlaps takes over every key of a tome but those that
\* clash, which stay with the caller, and the rings it leaves are well formed;
\* a Marshal beside it does not change that.
MergeIsExact == TomeTypeOK /\ KeysConserved /\ LeftForAReason

\* Between merges, and unless the tome is mixed, every key held can be found by
\* its public key, the newest of a ring without one, and an export has just the
\* keys that its guide names.
KeysAreFound == FetchFinds /\ ExportIsExact

-----------------------------------------------------------------------------
(* What the comments say, and the code does not do.                        *)

\* "THREADSAFE" (MergeTome): whatever runs beside it, a merge takes no key out of
\* the tome.
MergesLoseNothing ==
    [][(\E m \in Mergers : MergeStep(m)) => Held(keyrings) \subseteq Held(keyrings')]_tomeVars
=============================================================================

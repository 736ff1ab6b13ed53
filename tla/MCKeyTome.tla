----------------------------- MODULE MCKeyTome -----------------------------
EXTENDS KeyTome, TLC

CONSTANTS m1, m2

MCMergers == {m1, m2}
TomeSymmetry == Permutations(MCMergers)

MCNames == 1 .. 3

\* Two keys with one public key, one of another, and one with a short one.
Old == [pub |-> 1, time |-> 1]
New == [pub |-> 1, time |-> 2]
Other == [pub |-> 2, time |-> 2]
Short == [pub |-> 3, time |-> 1]
MCEntries == {Old, New, Other, Short}
MCShortPubs == {3}

\* One ring of at most two keys; two rings, not in the order of their names; and
\* two rings of one name.
MCSources ==
    {<<Ring(1, s, None)>> : s \in {s \in SUBSET MCEntries : Cardinality(s) <= 2}} \cup
    {<<Ring(n, {e}, None), Ring(1, s, None)>> :
        n \in {2, 3}, e \in {New, Short}, s \in {{}, {Old}, {Old, Other}, {New, Short}}} \cup
    {<<Ring(2, {Old}, None), Ring(2, {New}, None)>>}
=============================================================================

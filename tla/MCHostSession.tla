--------------------------- MODULE MCHostSession ---------------------------
(* HostSession on small sets.  Reqs and Apps are interchangeable.     *)
EXTENDS HostSession, TLC

Symmetry == Permutations(Reqs) \cup Permutations(Apps)
=============================================================================

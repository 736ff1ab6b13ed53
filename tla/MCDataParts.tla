---------------------------- MODULE MCDataParts ----------------------------
(***************************************************************************)
(* The symbol table and the key tome, checked in one run: they share no    *)
(* state, and a behaviour is one of a part with the other at rest in its   *)
(* initial state.                                                          *)
(***************************************************************************)
EXTENDS MCSymbolTable, MCKeyTome

VARIABLE part        \* the part that runs

DataInit == part \in {"table", "tome"} /\ TableInit /\ TomeInit

TableStep == part = "table" /\ TableNext /\ UNCHANGED tomeVars
TomeStep == part = "tome" /\ TomeNext /\ UNCHANGED tableVars

DataNext == UNCHANGED part /\ (TableStep \/ TomeStep)

DataSpec == DataInit /\ [][DataNext]_<<part, tableVars, tomeVars>>

Symmetry == TableSymmetry \cup TomeSymmetry
=============================================================================

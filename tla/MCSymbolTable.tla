--------------------------- MODULE MCSymbolTable ---------------------------
(* SymbolTable with interchangeable callers and values.                    *)
EXTENDS SymbolTable, TLC

TableSymmetry == Permutations(Callers) \cup Permutations(Values)
=============================================================================

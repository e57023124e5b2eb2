--------------------------- MODULE MCSymbolTable ---------------------------
(***************************************************************************)
(* SymbolTable with more names than the table has room for, so that both   *)
(* the full table and the failing assertion are reached.                   *)
(***************************************************************************)
EXTENDS SymbolTable

CONSTANTS n1, n2, n3, n4

MCName == {n1, n2, n3, n4}
=============================================================================

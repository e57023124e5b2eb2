------------------------------ MODULE Symbols ------------------------------
(***************************************************************************)
(* The symbol table of src/symbol.c as operators on a table value.         *)
(*                                                                         *)
(* `table' is the used prefix of the static array syms[SYMBOL_MAX]: the    *)
(* counter `pos' of the C code is Len(table), entry i + 1 of the sequence  *)
(* is syms[i].name.  A SYMBOL* is the 1-based index of the entry it points *)
(* to, and NULL is 0; two pointers are equal in C iff the indices are.     *)
(***************************************************************************)
EXTENDS Naturals, Sequences

CONSTANTS
  Name,          \* the identifiers that programs are written with
  SYMBOL_MAX     \* capacity of syms[]

ASSUME SymbolMaxAssumption == SYMBOL_MAX \in Nat \ {0}

NULL == 0

SearchFromSecond(table, name) == {i \in 2 .. Len(table) : table[i] = name}   \* mutant
SearchTooShort(table, name) == {i \in 1 .. Len(table) - 1 : table[i] = name} \* mutant
Matches(table, name) == {i \in 1 .. Len(table) : table[i] = name}

(***************************************************************************)
(* lookup_symbol scans upwards and returns the first entry with the name.  *)
(***************************************************************************)
lookup_symbol(table, name) ==
  IF Matches(table, name) = {}
  THEN NULL
  ELSE CHOOSE i \in Matches(table, name) :
         \A j \in Matches(table, name) : i <= j

FullTooLate(table) == Len(table) = SYMBOL_MAX + 1   \* mutant
Full(table)        == Len(table) = SYMBOL_MAX

(***************************************************************************)
(* make_symbol stores a copy of the name at the end.  Its assertion is the *)
(* guard Full(table), which the callers test.                              *)
(***************************************************************************)
MakeAtFront(table, name) == <<name>> \o table        \* mutant
make_symbol(table, name) == Append(table, name)

(***************************************************************************)
(* The table after lookup_make_symbol, when that call returns at all.      *)
(***************************************************************************)
lookup_make_symbol(table, name) ==
  IF lookup_symbol(table, name) # NULL THEN table ELSE make_symbol(table, name)
=============================================================================

------------------------------- MODULE Funcs -------------------------------
(***************************************************************************)
(* The function table of src/func.c as operators on a table value.         *)
(*                                                                         *)
(* Functions and methods are registered in one array, funcs[FUNC_MAX].  An *)
(* entry of the model is the record [sym, decl]: the symbol the C code     *)
(* compares, and the position in the program of the declaration that gave  *)
(* the entry its type, def_args, body and receiver.  Equality of `sym' is  *)
(* equality of SYMBOL pointers, that is of names (SymbolTable).            *)
(***************************************************************************)
EXTENDS Naturals, Sequences

CONSTANT FUNC_MAX      \* capacity of funcs[]

ASSUME FuncMaxAssumption == FUNC_MAX \in Nat \ {0}

Entries(table, s) == {i \in 1 .. Len(table) : table[i].sym = s}

(***************************************************************************)
(* lookup_func scans downwards: the most recent entry wins, whether it is  *)
(* a function or a method of any class.  0 stands for NULL.                *)
(***************************************************************************)
lookup_func(table, s) ==
  IF Entries(table, s) = {}
  THEN 0
  ELSE CHOOSE i \in Entries(table, s) : \A j \in Entries(table, s) : j <= i

FuncsFullTooLate(table) == Len(table) = FUNC_MAX + 1   \* mutant
FuncsFull(table)        == Len(table) = FUNC_MAX

(* make_func and make_method differ only in fields the declaration holds.  *)
make_func(table, s, decl) == Append(table, [sym |-> s, decl |-> decl])
=============================================================================

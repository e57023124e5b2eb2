---------------------------- MODULE SymbolTable ----------------------------
(***************************************************************************)
(* The life of the symbol table during one parse: the grammar's actions    *)
(* call lookup_make_symbol and lookup_symbol in whatever order the source  *)
(* program dictates, store the SYMBOL* they get in AST nodes and FUNC      *)
(* entries, and compare those pointers much later.                         *)
(***************************************************************************)
EXTENDS Symbols

VARIABLES
  syms,     \* syms[0 .. pos-1]
  held,     \* every <<name, pointer>> a call has handed out so far
  failed    \* ASSERT_FAIL("out of bounds.") has ended the process

vars == <<syms, held, failed>>

Init ==
  /\ syms = <<>>
  /\ held = {}
  /\ failed = FALSE

(* lookup_symbol: reads the table; its NULL result is handed out as well. *)
Lookup(name) ==
  /\ ~failed
  /\ held' = held \cup {<<name, lookup_symbol(syms, name)>>}
  /\ UNCHANGED <<syms, failed>>

(* lookup_make_symbol, first return: the name is there. *)
LookupFinds(name) ==
  /\ ~failed
  /\ lookup_symbol(syms, name) # NULL
  /\ held' = held \cup {<<name, lookup_symbol(syms, name)>>}
  /\ UNCHANGED <<syms, failed>>

(* lookup_make_symbol, second return: make_symbol appends it. *)
MakeSymbol(name) ==
  /\ ~failed
  /\ lookup_symbol(syms, name) = NULL
  /\ ~Full(syms)
  /\ syms' = make_symbol(syms, name)
  /\ held' = held \cup {<<name, Len(syms) + 1>>}
  /\ UNCHANGED failed

(* make_symbol on a full table: the assertion fails and the process exits. *)
MakeSymbolFails(name) ==
  /\ ~failed
  /\ lookup_symbol(syms, name) = NULL
  /\ Full(syms)
  /\ failed' = TRUE
  /\ UNCHANGED <<syms, held>>

Next ==
  \E name \in Name :
    \/ Lookup(name)
    \/ LookupFinds(name)
    \/ MakeSymbol(name)
    \/ MakeSymbolFails(name)

Spec == Init /\ [][Next]_vars

-----------------------------------------------------------------------------
(* Shape of the state: a table within its capacity, pointers into it. *)
TypeOK ==
  /\ syms \in Seq(Name)
  /\ Len(syms) <= SYMBOL_MAX
  /\ held \subseteq (Name \X (0 .. Len(syms)))
  /\ failed \in BOOLEAN

(***************************************************************************)
(* Comparing pointers is comparing names: any two non-NULL pointers the    *)
(* table ever handed out, however long ago, are equal exactly when they    *)
(* were handed out for the same name.  lookup_func (func.c:22) depends on  *)
(* it.                                                                     *)
(***************************************************************************)
PointersAgree ==
  \A a, b \in held :
    (a[2] # NULL /\ b[2] # NULL) => (a[2] = b[2] <=> a[1] = b[1])

(***************************************************************************)
(* A pointer handed out earlier still points at its own name, and a lookup *)
(* made now returns that same pointer: the array never moves and no entry  *)
(* is overwritten.                                                         *)
(***************************************************************************)
PointersLive ==
  \A a \in held :
    a[2] # NULL => /\ syms[a[2]] = a[1]
                   /\ lookup_symbol(syms, a[1]) = a[2]

(***************************************************************************)
(* The process gives up only for want of room: at that moment SYMBOL_MAX   *)
(* pairwise different names are stored, so no entry was wasted on a        *)
(* duplicate.                                                              *)
(***************************************************************************)
CapacityIsForDistinctNames ==
  /\ \A i, j \in 1 .. Len(syms) : syms[i] = syms[j] => i = j
  /\ failed => Len(syms) = SYMBOL_MAX

(***************************************************************************)
(* Refinement: the identity of a name is the index lookup_symbol finds.    *)
(***************************************************************************)
Abstract == INSTANCE Interner WITH
  Ident <- 1 .. SYMBOL_MAX,
  NoIdent <- NULL,
  ident <- [n \in Name |-> lookup_symbol(syms, n)],
  stopped <- failed

(* The table is an interner: identities are unique and permanent. *)
ImplementsInterner == Abstract!Spec
=============================================================================

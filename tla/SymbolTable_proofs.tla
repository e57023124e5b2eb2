------------------------ MODULE SymbolTable_proofs -------------------------
(***************************************************************************)
(* Proofs, for every set of names and every capacity, of the invariants of *)
(* SymbolTable and of its refinement of Interner.                          *)
(***************************************************************************)
EXTENDS SymbolTable, TLAPS

(* No name is stored twice. *)
Distinct(table) ==
  \A i, j \in 1 .. Len(table) : table[i] = table[j] => i = j

(* Every pointer handed out points at the name it was handed out for. *)
HeldPointsAtName ==
  \A a \in held : a[2] # NULL => syms[a[2]] = a[1]

(* The inductive invariant. *)
IInv ==
  /\ TypeOK
  /\ Distinct(syms)
  /\ HeldPointsAtName
  /\ failed => Len(syms) = SYMBOL_MAX

-----------------------------------------------------------------------------
(***************************************************************************)
(* On a table without duplicates lookup_symbol is the inverse of indexing: *)
(* it returns an entry iff that entry holds the name ...                   *)
(***************************************************************************)
LEMMA LookupFinds_entry ==
  ASSUME NEW table \in Seq(Name), Distinct(table), NEW i \in 1 .. Len(table)
  PROVE  lookup_symbol(table, table[i]) = i
<1>1. Matches(table, table[i]) = {i}
  BY DEF Matches, Distinct
<1>2. (CHOOSE k \in {i} : \A j \in {i} : k <= j) = i
  OBVIOUS
<1> QED
  BY <1>1, <1>2 DEF lookup_symbol

(* ... and NULL iff no entry does. *)
LEMMA Lookup_null ==
  ASSUME NEW table \in Seq(Name), Distinct(table), NEW name \in Name
  PROVE  /\ lookup_symbol(table, name) \in 0 .. Len(table)
         /\ lookup_symbol(table, name) = NULL
              <=> \A i \in 1 .. Len(table) : table[i] # name
         /\ lookup_symbol(table, name) # NULL
              => table[lookup_symbol(table, name)] = name
<1>1. CASE \A i \in 1 .. Len(table) : table[i] # name
  BY <1>1 DEF lookup_symbol, Matches, NULL
<1>2. CASE \E i \in 1 .. Len(table) : table[i] = name
  <2>1. PICK i \in 1 .. Len(table) : table[i] = name
    BY <1>2
  <2>2. lookup_symbol(table, name) = i
    BY <2>1, LookupFinds_entry
  <2> QED
    BY <2>1, <2>2 DEF NULL
<1> QED
  BY <1>1, <1>2

(* Storing a name that is not there keeps the table free of duplicates and *)
(* moves nothing.                                                          *)
LEMMA MakeSymbol_table ==
  ASSUME NEW table \in Seq(Name), Distinct(table), NEW name \in Name,
         lookup_symbol(table, name) = NULL
  PROVE  /\ make_symbol(table, name) \in Seq(Name)
         /\ Len(make_symbol(table, name)) = Len(table) + 1
         /\ Distinct(make_symbol(table, name))
         /\ \A i \in 1 .. Len(table) : make_symbol(table, name)[i] = table[i]
         /\ make_symbol(table, name)[Len(table) + 1] = name
<1> DEFINE new == make_symbol(table, name)
<1>1. /\ new \in Seq(Name)
      /\ Len(new) = Len(table) + 1
      /\ \A i \in 1 .. Len(table) : new[i] = table[i]
      /\ new[Len(table) + 1] = name
  BY DEF make_symbol
<1>2. \A i \in 1 .. Len(table) : table[i] # name
  BY Lookup_null
<1>3. Distinct(new)
  <2> SUFFICES ASSUME NEW i \in 1 .. Len(table) + 1, NEW j \in 1 .. Len(table) + 1,
                      new[i] = new[j]
               PROVE  i = j
    BY <1>1 DEF Distinct
  <2> HIDE DEF new
  <2>1. CASE i \in 1 .. Len(table) /\ j \in 1 .. Len(table)
    BY <2>1, <1>1 DEF Distinct
  <2>2. CASE i = Len(table) + 1 /\ j \in 1 .. Len(table)
    BY <2>2, <1>1, <1>2
  <2>3. CASE i \in 1 .. Len(table) /\ j = Len(table) + 1
    BY <2>3, <1>1, <1>2
  <2>4. CASE i = Len(table) + 1 /\ j = Len(table) + 1
    BY <2>4
  <2> QED
    BY <2>1, <2>2, <2>3, <2>4
<1> QED
  BY <1>1, <1>3

-----------------------------------------------------------------------------
LEMMA IInv_init == Init => IInv
<1> SUFFICES ASSUME Init PROVE IInv
  OBVIOUS
<1>1. syms \in Seq(Name) /\ Len(syms) = 0
  BY DEF Init
<1>2. TypeOK
  <2>1. Len(syms) <= SYMBOL_MAX
    BY <1>1, SymbolMaxAssumption
  <2>2. held \subseteq (Name \X (0 .. Len(syms))) /\ failed \in BOOLEAN
    BY DEF Init
  <2> QED
    BY <1>1, <2>1, <2>2 DEF TypeOK
<1>3. Distinct(syms)
  BY <1>1 DEF Distinct
<1> QED
  BY <1>2, <1>3 DEF Init, IInv, HeldPointsAtName

LEMMA IInv_step == IInv /\ [Next]_vars => IInv'
<1> SUFFICES ASSUME IInv, [Next]_vars PROVE IInv'
  OBVIOUS
<1> USE DEF IInv, TypeOK
<1>1. ASSUME NEW name \in Name, Lookup(name) PROVE IInv'
  <2>1. /\ lookup_symbol(syms, name) \in 0 .. Len(syms)
        /\ lookup_symbol(syms, name) # NULL
             => syms[lookup_symbol(syms, name)] = name
    BY Lookup_null
  <2> QED
    BY <1>1, <2>1 DEF Lookup, HeldPointsAtName, Distinct
<1>2. ASSUME NEW name \in Name, LookupFinds(name) PROVE IInv'
  <2>1. /\ lookup_symbol(syms, name) \in 0 .. Len(syms)
        /\ syms[lookup_symbol(syms, name)] = name
    BY <1>2, Lookup_null DEF LookupFinds
  <2> QED
    BY <1>2, <2>1 DEF LookupFinds, HeldPointsAtName, Distinct
<1>3. ASSUME NEW name \in Name, MakeSymbol(name) PROVE IInv'
  <2>1. /\ syms' = make_symbol(syms, name)
        /\ held' = held \cup {<<name, Len(syms) + 1>>}
        /\ ~failed'
        /\ Len(syms) # SYMBOL_MAX
    BY <1>3 DEF MakeSymbol, Full
  <2>2. /\ syms' \in Seq(Name)
        /\ Len(syms') = Len(syms) + 1
        /\ Distinct(syms')
        /\ \A i \in 1 .. Len(syms) : syms'[i] = syms[i]
        /\ syms'[Len(syms) + 1] = name
    BY <1>3, <2>1, MakeSymbol_table DEF MakeSymbol
  <2>3. TypeOK'
    BY <1>3, <2>1, <2>2, SymbolMaxAssumption DEF MakeSymbol
  <2>4. HeldPointsAtName'
    <3> SUFFICES ASSUME NEW a \in held', a[2] # NULL
                 PROVE  syms'[a[2]] = a[1]
      BY DEF HeldPointsAtName
    <3>1. CASE a \in held
      <4>1. a[2] \in 1 .. Len(syms)
        BY <3>1 DEF NULL
      <4> QED
        BY <3>1, <4>1, <2>2 DEF HeldPointsAtName
    <3>2. CASE a = <<name, Len(syms) + 1>>
      BY <3>2, <2>2
    <3> QED
      BY <2>1, <3>1, <3>2
  <2> QED
    BY <2>1, <2>2, <2>3, <2>4 DEF Distinct
<1>4. ASSUME NEW name \in Name, MakeSymbolFails(name) PROVE IInv'
  BY <1>4 DEF MakeSymbolFails, Full, HeldPointsAtName, Distinct
<1>5. CASE UNCHANGED vars
  BY <1>5 DEF vars, HeldPointsAtName, Distinct
<1> QED
  BY <1>1, <1>2, <1>3, <1>4, <1>5 DEF Next

(* The invariants, read off IInv. *)
LEMMA IInv_implies ==
  IInv => TypeOK /\ PointersAgree /\ PointersLive /\ CapacityIsForDistinctNames
<1> SUFFICES ASSUME IInv
             PROVE  TypeOK /\ PointersAgree /\ PointersLive
                      /\ CapacityIsForDistinctNames
  OBVIOUS
<1>1. TypeOK /\ CapacityIsForDistinctNames
  BY DEF IInv, CapacityIsForDistinctNames, Distinct
<1>2. ASSUME NEW a \in held, a[2] # NULL
      PROVE  /\ a[2] \in 1 .. Len(syms)
             /\ syms[a[2]] = a[1]
             /\ lookup_symbol(syms, a[1]) = a[2]
  <2>1. a[2] \in 1 .. Len(syms) /\ syms[a[2]] = a[1]
    BY <1>2 DEF IInv, TypeOK, HeldPointsAtName, NULL
  <2> QED
    BY <2>1, LookupFinds_entry DEF IInv, TypeOK
<1>3. PointersLive
  BY <1>2 DEF PointersLive
<1>4. PointersAgree
  BY <1>2 DEF PointersAgree, IInv, Distinct
<1> QED
  BY <1>1, <1>3, <1>4

(* IInv is an invariant of the specification. *)
LEMMA IInv_invariant == Spec => []IInv
BY IInv_init, IInv_step, PTL DEF Spec

(* The table keeps its shape and never exceeds its capacity. *)
THEOREM SymbolTable_TypeOK == Spec => []TypeOK
BY IInv_invariant, IInv_implies, PTL

(* Equality of SYMBOL pointers is equality of names. *)
THEOREM SymbolTable_PointersAgree == Spec => []PointersAgree
BY IInv_invariant, IInv_implies, PTL

(* No pointer handed out is ever invalidated or redirected. *)
THEOREM SymbolTable_PointersLive == Spec => []PointersLive
BY IInv_invariant, IInv_implies, PTL

(* The out-of-bounds assertion fails only on SYMBOL_MAX different names. *)
THEOREM SymbolTable_Capacity == Spec => []CapacityIsForDistinctNames
BY IInv_invariant, IInv_implies, PTL

-----------------------------------------------------------------------------
(***************************************************************************)
(* Refinement.  The abstract identities are the values of lookup_symbol.   *)
(***************************************************************************)
LEMMA Refinement_init == Init => Abstract!Init
<1> SUFFICES ASSUME Init PROVE Abstract!Init
  OBVIOUS
<1>1. \A n \in Name : lookup_symbol(syms, n) = NULL
  BY DEF Init, lookup_symbol, Matches
<1> QED
  BY <1>1 DEF Abstract!Init, Init

LEMMA Refinement_step ==
  IInv /\ [Next]_vars => [Abstract!Next]_(Abstract!vars)
<1> SUFFICES ASSUME IInv, [Next]_vars
             PROVE  [Abstract!Next]_(Abstract!vars)
  OBVIOUS
<1> DEFINE ident == [n \in Name |-> lookup_symbol(syms, n)]
<1>1. ASSUME syms' = syms, failed' = failed
      PROVE  UNCHANGED Abstract!vars
  BY <1>1 DEF Abstract!vars
<1>2. ASSUME NEW name \in Name, Lookup(name)
      PROVE  UNCHANGED Abstract!vars
  BY <1>1, <1>2 DEF Lookup
<1>3. ASSUME NEW name \in Name, LookupFinds(name)
      PROVE  UNCHANGED Abstract!vars
  BY <1>1, <1>3 DEF LookupFinds
<1>4. ASSUME NEW name \in Name, MakeSymbol(name)
      PROVE  Abstract!Intern(name)
  <2> DEFINE new == Len(syms) + 1
  <2>1. /\ syms \in Seq(Name) /\ Distinct(syms) /\ Len(syms) <= SYMBOL_MAX
        /\ lookup_symbol(syms, name) = NULL
        /\ syms' = make_symbol(syms, name)
        /\ ~failed /\ failed' = failed
        /\ Len(syms) # SYMBOL_MAX
    BY <1>4 DEF MakeSymbol, IInv, TypeOK, Full
  <2>2. /\ syms' \in Seq(Name) /\ Distinct(syms')
        /\ Len(syms') = new
        /\ \A i \in 1 .. Len(syms) : syms'[i] = syms[i]
        /\ syms'[new] = name
    BY <2>1, MakeSymbol_table
  <2>3. new \in 1 .. SYMBOL_MAX
    BY <2>1, SymbolMaxAssumption
  <2>4. \A n \in Name : lookup_symbol(syms, n) # new
    BY <2>1, Lookup_null
  <2>5. lookup_symbol(syms', name) = new
    BY <2>2, LookupFinds_entry
  <2>6. ASSUME NEW n \in Name, n # name
        PROVE  lookup_symbol(syms', n) = lookup_symbol(syms, n)
    <3>1. CASE lookup_symbol(syms, n) = NULL
      <4>1. \A i \in 1 .. Len(syms) : syms[i] # n
        BY <3>1, <2>1, Lookup_null
      <4>2. \A i \in 1 .. Len(syms') : syms'[i] # n
        BY <4>1, <2>2, <2>6
      <4> QED
        BY <3>1, <4>2, <2>2, Lookup_null
    <3>2. CASE lookup_symbol(syms, n) # NULL
      <4>1. /\ lookup_symbol(syms, n) \in 1 .. Len(syms)
            /\ syms[lookup_symbol(syms, n)] = n
        BY <3>2, <2>1, Lookup_null DEF NULL
      <4>2. /\ lookup_symbol(syms, n) \in 1 .. Len(syms')
            /\ syms'[lookup_symbol(syms, n)] = n
        BY <4>1, <2>1, <2>2
      <4> QED
        BY <4>2, <2>2, LookupFinds_entry
    <3> QED
      BY <3>1, <3>2
  <2>7. ident' = [ident EXCEPT ![name] = new]
    <3>1. ident' = [n \in Name |-> lookup_symbol(syms', n)]
      OBVIOUS
    <3>2. ASSUME NEW n \in Name
          PROVE  lookup_symbol(syms', n) = [ident EXCEPT ![name] = new][n]
      BY <2>5, <2>6
    <3> QED
      BY <3>1, <3>2
  <2>8. new \in Abstract!Fresh
    BY <2>3, <2>4 DEF Abstract!Fresh
  <2> QED
    BY <2>1, <2>7, <2>8 DEF Abstract!Intern
<1>5. ASSUME NEW name \in Name, MakeSymbolFails(name)
      PROVE  Abstract!GiveUp
  <2>1. /\ syms \in Seq(Name) /\ Distinct(syms)
        /\ Len(syms) = SYMBOL_MAX
        /\ lookup_symbol(syms, name) = NULL
        /\ ~failed /\ failed' = TRUE /\ syms' = syms
    BY <1>5 DEF MakeSymbolFails, IInv, TypeOK, Full
  <2>2. ASSUME NEW i \in 1 .. SYMBOL_MAX
        PROVE  \E n \in Name : lookup_symbol(syms, n) = i
    <3>1. syms[i] \in Name
      BY <2>1, SymbolMaxAssumption
    <3>2. lookup_symbol(syms, syms[i]) = i
      BY <2>1, LookupFinds_entry
    <3> QED
      BY <3>1, <3>2
  <2>3. Abstract!Fresh = {}
    BY <2>2 DEF Abstract!Fresh
  <2> QED
    BY <2>1, <2>3 DEF Abstract!GiveUp
<1>6. CASE UNCHANGED vars
  BY <1>1, <1>6 DEF vars
<1> QED
  BY <1>2, <1>3, <1>4, <1>5, <1>6 DEF Next, Abstract!Next

(***************************************************************************)
(* The table implements the interner: names keep one identity for ever,    *)
(* no two share one, and the program gives up only when none is left.      *)
(***************************************************************************)
THEOREM SymbolTable_refines == Spec => ImplementsInterner
<1>1. Abstract!Init /\ [][Abstract!Next]_(Abstract!vars) => Abstract!Spec
  BY DEF Abstract!Spec
<1> QED
  BY <1>1, Refinement_init, Refinement_step, IInv_invariant, PTL
     DEF Spec, ImplementsInterner
=============================================================================

--------------------------- MODULE Layouts_proofs ---------------------------
(***************************************************************************)
(* Proofs, for all programs, of the invariants of Layouts: whatever the    *)
(* order of the declarations, the layout of a class begins with that of    *)
(* its superclass, and a member keeps its index.                           *)
(*                                                                         *)
(* Every class climbs to its root on its own; that two climbs agree where  *)
(* they meet is what has to be shown.  The equations fields = fields of    *)
(* the superclass followed by one's own say what a climb computes without  *)
(* mentioning one: a climb that ends shows that they have a solution, and  *)
(* its layout is what any solution gives.                                  *)
(***************************************************************************)
EXTENDS Layouts, SequenceTheorems, TLAPS

FieldSeq == Seq(FieldDefElem)

SuperNode(p, i) == search_ast_by_sym(p, SuperOf(p, i))

Solution(p, F) ==
  \A i \in DOMAIN F :
    /\ i \in 1 .. Len(p)
    /\ F[i] \in FieldSeq
    /\ SuperOf(p, i) = None => F[i] = Own(p, i)
    /\ SuperOf(p, i) # None => /\ SuperNode(p, i) \in DOMAIN F
                               /\ F[i] = F[SuperNode(p, i)] \o Own(p, i)

(* The nodes visited have been left for their superclass's, with their own *)
(* fields put before what they were called with.                           *)
Visited ==
  /\ at \in DOMAIN climb
  /\ pos \in DOMAIN climb
  /\ climb[pos] = <<>>
  /\ \A i \in DOMAIN climb \ {at} :
       /\ SuperOf(program, i) # None
       /\ SuperNode(program, i) \in DOMAIN climb
       /\ climb[SuperNode(program, i)] = Own(program, i) \o climb[i]

(* What a node was called with is the end of what the current one was. *)
Suffixes ==
  \A i \in DOMAIN climb : \E q \in FieldSeq : climb[at] = q \o climb[i]

(* The fields of the class are those of the current node and then climb's. *)
Agrees ==
  \A F : Solution(program, F) /\ pos \in DOMAIN F =>
    at \in DOMAIN F /\ F[pos] = F[at] \o climb[at]

Climbing ==
  /\ pos \in 1 .. Len(program)
  /\ program[pos].op = "DEF_CLASS"
  /\ Visited
  /\ Suffixes
  /\ Agrees

(* The layout of a class that has been compiled solves the equations. *)
Solved(k) ==
  LET d == klass_def_map[k].decl IN
  /\ d \in 1 .. Len(program)
  /\ program[d].op = "DEF_CLASS"
  /\ program[d].sym = k
  /\ \E F : Solution(program, F) /\ d \in DOMAIN F
  /\ \A F : Solution(program, F) /\ d \in DOMAIN F => Fields(k) = WithId(F[d])

(* The inductive invariant. *)
IInv ==
  /\ LayoutShape
  /\ at # 0 => Climbing
  /\ \A k \in DOMAIN klass_def_map : Solved(k)

-----------------------------------------------------------------------------
(* Declarations of a program. *)
LEMMA ProgramTypes ==
  ASSUME NEW p \in Programs
  PROVE  /\ Len(p) \in Nat
         /\ \A name : search_ast_by_sym(p, name) \in 0 .. Len(p)
         /\ \A i \in 1 .. Len(p) :
              /\ Own(p, i) \in FieldSeq
              /\ SuperOf(p, i) \in Klass \cup {None}
              /\ p[i].op = "DEF_CLASS" => p[i].sym \in Klass
<1>1. p \in Seq(Declaration)
  BY LayoutAssumption
<1>2. Len(p) \in Nat /\ \A i \in 1 .. Len(p) : p[i] \in Declaration
  BY <1>1
<1>3. ASSUME NEW i \in 1 .. Len(p)
      PROVE  /\ Own(p, i) \in FieldSeq
             /\ SuperOf(p, i) \in Klass \cup {None}
             /\ p[i].op = "DEF_CLASS" => p[i].sym \in Klass
  <2>1. <<>> \in FieldSeq
    BY DEF FieldSeq
  <2> QED
    BY <1>2, <2>1, LayoutAssumption DEF Own, SuperOf, FieldSeq
<1>4. \A name : search_ast_by_sym(p, name) \in 0 .. Len(p)
  BY <1>2 DEF search_ast_by_sym, FirstBearing
<1> QED
  BY <1>2, <1>3, <1>4

(* Solutions at the root of a climb and above a superclass. *)
LEMMA SolutionRoot ==
  ASSUME NEW p, NEW F, Solution(p, F), NEW i \in DOMAIN F, SuperOf(p, i) = None
  PROVE  F[i] = Own(p, i)
BY DEF Solution

LEMMA SolutionStep ==
  ASSUME NEW p, NEW F, Solution(p, F), NEW i \in DOMAIN F, SuperOf(p, i) # None
  PROVE  /\ SuperNode(p, i) \in DOMAIN F
         /\ F[i] = F[SuperNode(p, i)] \o Own(p, i)
         /\ F[i] \in FieldSeq
         /\ F[SuperNode(p, i)] \in FieldSeq
         /\ i \in 1 .. Len(p)
BY DEF Solution

LEMMA FieldsConcat ==
  ASSUME NEW a \in FieldSeq, NEW b \in FieldSeq
  PROVE  a \o b \in FieldSeq
BY ConcatProperties DEF FieldSeq

LEMMA FieldsAssociate ==
  ASSUME NEW a \in FieldSeq, NEW b \in FieldSeq, NEW c \in FieldSeq
  PROVE  (a \o b) \o c = a \o (b \o c)
BY ConcatAssociative DEF FieldSeq

LEMMA NoFields ==
  ASSUME NEW a \in FieldSeq
  PROVE  /\ <<>> \in FieldSeq
         /\ a \o <<>> = a
         /\ <<>> \o a = a
BY ConcatEmptySeq, EmptySeq DEF FieldSeq

LEMMA FieldsCancel ==
  ASSUME NEW a \in FieldSeq, NEW b \in FieldSeq, NEW c \in FieldSeq,
         a \o c = b \o c
  PROVE  a = b
BY ConcatSimplifications DEF FieldSeq

(* What holds of a class keeps holding while other declarations are read. *)
LEMMA SolvedStable ==
  ASSUME NEW k \in DOMAIN klass_def_map, Solved(k),
         program' = program,
         k \in DOMAIN klass_def_map', klass_def_map'[k] = klass_def_map[k]
  PROVE  Solved(k)'
BY DEF Solved, Fields

-----------------------------------------------------------------------------
(* exec_def_class_codegen begins a climb at the class itself. *)
LEMMA BeginStep ==
  ASSUME IInv, exec_def_class_codegen
  PROVE  IInv'
<1> USE DEF IInv
<1>1. pos \in 1 .. Len(program) /\ program \in Programs /\ Len(program) \in Nat
  BY ProgramTypes DEF exec_def_class_codegen, LayoutShape
<1>2. climb' = [i \in {pos} |-> <<>>]
  BY DEF exec_def_class_codegen, Put, EmptyMap
<1>3. LayoutShape'
  <2>1. /\ DOMAIN climb' \subseteq 1 .. Len(program)
        /\ \A i \in DOMAIN climb' : climb'[i] \in Seq(FieldDefElem)
    <3>1. <<>> \in Seq(FieldDefElem)
      OBVIOUS
    <3> QED
      BY <1>1, <1>2, <3>1
  <2>2. /\ program' = program /\ phase' = phase /\ pos' = pos
        /\ klass_def_map' = klass_def_map /\ at' = pos
    BY DEF exec_def_class_codegen
  <2>3. at' \in 0 .. Len(program)
    BY <1>1, <2>2
  <2> QED
    BY <2>1, <2>2, <2>3 DEF LayoutShape, KlassDefs
<1>4. Climbing'
  <2>1. Visited'
    BY <1>1, <1>2 DEF Visited, exec_def_class_codegen
  <2>2. Suffixes'
    <3>1. <<>> \in FieldSeq
      BY DEF FieldSeq
    <3>2. <<>> = <<>> \o <<>>
      BY <3>1, NoFields
    <3> QED
      BY <3>1, <3>2, <1>2 DEF Suffixes, exec_def_class_codegen
  <2>3. Agrees'
    <3> SUFFICES ASSUME NEW F, Solution(program, F), pos \in DOMAIN F
                 PROVE  F[pos] = F[pos] \o <<>>
      BY <1>2 DEF Agrees, exec_def_class_codegen
    <3>1. F[pos] \in FieldSeq
      BY DEF Solution
    <3> QED
      BY <3>1, NoFields
  <2> QED
    BY <1>1, <2>1, <2>2, <2>3 DEF Climbing, exec_def_class_codegen
<1>5. \A k \in DOMAIN klass_def_map' : Solved(k)'
  BY DEF exec_def_class_codegen, Solved, Fields
<1> QED
  BY <1>3, <1>4, <1>5

(* A call that fails leaves everything as it was. *)
LEMMA FailStep ==
  ASSUME IInv, NEW how, Fail(how), UNCHANGED program
  PROVE  IInv'
<1>1. UNCHANGED <<program, pos, at, climb, klass_def_map>>
  BY DEF Fail
<1>2. LayoutShape'
  BY <1>1 DEF IInv, LayoutShape
<1>3. at' # 0 => Climbing'
  BY <1>1 DEF IInv, Climbing, Visited, Suffixes, Agrees
<1>4. ASSUME NEW k \in DOMAIN klass_def_map'
      PROVE  Solved(k)'
  BY <1>1, SolvedStable DEF IInv
<1> QED
  BY <1>2, <1>3, <1>4 DEF IInv

(* The call for the superclass keeps the equations about the climb. *)
LEMMA ClimbStep ==
  ASSUME IInv, at # 0, SuperOf(program, at) # None,
         NEW sp, sp = SuperNode(program, at), sp # 0, sp \notin DOMAIN climb,
         climb' = Put(climb, sp, Own(program, at) \o climb[at]), at' = sp,
         UNCHANGED <<program, phase, pos, klass_def_map>>
  PROVE  IInv'
<1> DEFINE own == Own(program, at)
           new == own \o climb[at]
<1>1. /\ LayoutShape /\ Climbing
      /\ \A k \in DOMAIN klass_def_map : Solved(k)
  BY DEF IInv
<1>2. /\ program \in Programs
      /\ at \in 1 .. Len(program)
      /\ sp \in 1 .. Len(program)
      /\ own \in FieldSeq
  BY <1>1, ProgramTypes DEF LayoutShape, SuperNode
<1>3. \A i \in DOMAIN climb : climb[i] \in FieldSeq
  BY <1>1 DEF LayoutShape, FieldSeq
<1>4. at \in DOMAIN climb /\ pos \in DOMAIN climb
  BY <1>1 DEF Climbing, Visited
<1>5. new \in FieldSeq
  BY <1>2, <1>3, <1>4, FieldsConcat
<1>6. /\ DOMAIN climb' = DOMAIN climb \cup {sp}
      /\ climb'[sp] = new
      /\ \A i \in DOMAIN climb : climb'[i] = climb[i]
  BY DEF Put
<1> HIDE DEF own, new
<1>7. LayoutShape'
  <2>1. /\ DOMAIN climb' \subseteq 1 .. Len(program)
        /\ \A i \in DOMAIN climb' : climb'[i] \in Seq(FieldDefElem)
    BY <1>1, <1>2, <1>3, <1>5, <1>6 DEF LayoutShape, FieldSeq
  <2>2. at' \in 0 .. Len(program)
    BY <1>2
  <2> QED
    BY <1>1, <2>1, <2>2 DEF LayoutShape
<1>8. Visited'
  <2>1. at' \in DOMAIN climb' /\ pos' \in DOMAIN climb' /\ climb'[pos'] = <<>>
    BY <1>1, <1>4, <1>6 DEF Climbing, Visited
  <2>2. ASSUME NEW i \in DOMAIN climb' \ {sp}
        PROVE  /\ SuperOf(program, i) # None
               /\ SuperNode(program, i) \in DOMAIN climb'
               /\ climb'[SuperNode(program, i)] = Own(program, i) \o climb'[i]
    <3>1. CASE i = at
      BY <3>1, <1>4, <1>6 DEF own, new
    <3>2. CASE i # at
      BY <3>2, <1>1, <1>6 DEF Climbing, Visited
    <3> QED
      BY <3>1, <3>2
  <2> QED
    BY <2>1, <2>2 DEF Visited
<1>9. Suffixes'
  <2> SUFFICES ASSUME NEW i \in DOMAIN climb'
               PROVE  \E q \in FieldSeq : new = q \o climb'[i]
    BY <1>6 DEF Suffixes
  <2>1. CASE i = sp
    BY <2>1, <1>5, <1>6, NoFields
  <2>2. CASE i # sp
    <3>1. i \in DOMAIN climb /\ climb'[i] = climb[i]
      BY <2>2, <1>6
    <3>2. PICK q \in FieldSeq : climb[at] = q \o climb[i]
      BY <3>1, <1>1 DEF Climbing, Suffixes
    <3>3. own \in FieldSeq /\ climb[i] \in FieldSeq
      BY <3>1, <1>2, <1>3 DEF own
    <3>4. (own \o q) \o climb[i] = own \o (q \o climb[i])
      BY <3>3, FieldsAssociate
    <3>5. own \o q \in FieldSeq
      BY <3>3, FieldsConcat
    <3> QED
      BY <3>1, <3>2, <3>4, <3>5 DEF new
  <2> QED
    BY <2>1, <2>2
<1>10. Agrees'
  <2> SUFFICES ASSUME NEW F, Solution(program, F), pos \in DOMAIN F
               PROVE  sp \in DOMAIN F /\ F[pos] = F[sp] \o new
    BY <1>6 DEF Agrees
  <2>1. at \in DOMAIN F /\ F[pos] = F[at] \o climb[at]
    BY <1>1 DEF Climbing, Agrees
  <2>2. /\ sp \in DOMAIN F
        /\ F[at] = F[sp] \o own
        /\ F[sp] \in FieldSeq
    BY <2>1, SolutionStep DEF own
  <2>3. (F[sp] \o own) \o climb[at] = F[sp] \o new
    BY <2>2, <1>2, <1>3, <1>4, FieldsAssociate DEF new
  <2> QED
    BY <2>1, <2>2, <2>3
<1>11. Climbing'
  BY <1>1, <1>8, <1>9, <1>10 DEF Climbing
<1>12. ASSUME NEW k \in DOMAIN klass_def_map'
       PROVE  Solved(k)'
  BY <1>1, SolvedStable
<1> QED
  BY <1>7, <1>11, <1>12 DEF IInv

-----------------------------------------------------------------------------
(* A climb that has come to its root has a layout, and the equations one   *)
(* solution for each node of the climb: what is left of the layout when    *)
(* what the node was called with is taken from its end.                    *)
LEMMA RootSolves ==
  ASSUME LayoutShape, Climbing, at # 0, SuperOf(program, at) = None
  PROVE  LET fields == Own(program, at) \o climb[at] IN
         /\ fields \in FieldSeq
         /\ \E F : Solution(program, F) /\ pos \in DOMAIN F
         /\ \A F : Solution(program, F) /\ pos \in DOMAIN F => F[pos] = fields
<1> DEFINE own    == Own(program, at)
           fields == own \o climb[at]
           Rest(i) == CHOOSE q \in FieldSeq : fields = q \o climb[i]
           G == [i \in DOMAIN climb |-> Rest(i)]
<1>1. /\ program \in Programs
      /\ own \in FieldSeq
      /\ at \in DOMAIN climb /\ pos \in DOMAIN climb
  BY ProgramTypes DEF LayoutShape, Climbing, Visited
<1>2. ASSUME NEW i \in DOMAIN climb
      PROVE  /\ climb[i] \in FieldSeq
             /\ i \in 1 .. Len(program)
             /\ Own(program, i) \in FieldSeq
  BY <1>1, ProgramTypes DEF LayoutShape, FieldSeq
<1>3. fields \in FieldSeq
  BY <1>1, <1>2, FieldsConcat
<1>4. ASSUME NEW F, Solution(program, F), pos \in DOMAIN F
      PROVE  F[pos] = fields
  <2>1. at \in DOMAIN F /\ F[pos] = F[at] \o climb[at]
    BY <1>4 DEF Climbing, Agrees
  <2> QED
    BY <2>1, <1>4, SolutionRoot
<1>5. ASSUME NEW i \in DOMAIN climb
      PROVE  Rest(i) \in FieldSeq /\ fields = Rest(i) \o climb[i]
  <2>1. PICK q \in FieldSeq : climb[at] = q \o climb[i]
    BY DEF Climbing, Suffixes
  <2>2. own \o (q \o climb[i]) = (own \o q) \o climb[i]
    BY <1>1, <1>2, FieldsAssociate
  <2>3. own \o q \in FieldSeq
    BY <1>1, FieldsConcat
  <2>4. \E r \in FieldSeq : fields = r \o climb[i]
    BY <2>1, <2>2, <2>3
  <2> QED
    BY <2>4
<1> HIDE DEF own, fields, Rest
<1>6. Solution(program, G)
  <2> SUFFICES ASSUME NEW i \in DOMAIN climb
               PROVE  /\ i \in 1 .. Len(program)
                      /\ Rest(i) \in FieldSeq
                      /\ SuperOf(program, i) = None => Rest(i) = Own(program, i)
                      /\ SuperOf(program, i) # None =>
                           /\ SuperNode(program, i) \in DOMAIN climb
                           /\ Rest(i) = Rest(SuperNode(program, i)) \o Own(program, i)
    BY DEF Solution
  <2>1. CASE i = at
    <3>1. fields = own \o climb[at] /\ own = Own(program, i)
      BY <2>1 DEF fields, own
    <3>2. Rest(i) = own
      <4>1. PICK r \in FieldSeq : r = Rest(i) /\ fields = r \o climb[i]
        BY <1>5
      <4>2. PICK o \in FieldSeq : o = own /\ fields = o \o climb[i]
        BY <2>1, <3>1, <1>2
      <4>3. climb[i] \in FieldSeq /\ r \o climb[i] = o \o climb[i]
        BY <4>1, <4>2, <1>2
      <4> QED
        BY <4>1, <4>2, <4>3, FieldsCancel
    <3> QED
      BY <2>1, <3>1, <3>2, <1>2, <1>5
  <2>2. CASE i # at
    <3> DEFINE s == SuperNode(program, i)
    <3>1. /\ SuperOf(program, i) # None
          /\ s \in DOMAIN climb
          /\ climb[s] = Own(program, i) \o climb[i]
      BY <2>2 DEF Climbing, Visited
    <3> HIDE DEF s
    <3>2. fields = Rest(s) \o (Own(program, i) \o climb[i]) /\ Rest(s) \in FieldSeq
      BY <3>1, <1>5
    <3>3. Rest(s) \o (Own(program, i) \o climb[i])
            = (Rest(s) \o Own(program, i)) \o climb[i]
      BY <3>2, <1>2, FieldsAssociate
    <3>4. Rest(s) \o Own(program, i) \in FieldSeq
      BY <3>2, <1>2, FieldsConcat
    <3>5. Rest(i) \o climb[i] = (Rest(s) \o Own(program, i)) \o climb[i]
      BY <3>2, <3>3, <1>5
    <3>6. Rest(i) = Rest(s) \o Own(program, i)
      BY <3>4, <3>5, <1>2, <1>5, FieldsCancel
    <3> QED
      BY <3>1, <3>6, <1>2, <1>5 DEF s
  <2> QED
    BY <2>1, <2>2
<1>7. pos \in DOMAIN G
  BY <1>1
<1> HIDE DEF G
<1> QED
  BY <1>3, <1>4, <1>6, <1>7 DEF fields, own

(* makeKlassDef records what the equations give for the class. *)
LEMMA MakeStep ==
  ASSUME IInv, makeKlassDef
  PROVE  IInv'
<1> DEFINE fields == Own(program, at) \o climb[at]
           entry  == [decl |-> pos, fields |-> WithId(fields)]
           name   == program[pos].sym
<1>1. /\ LayoutShape /\ Climbing /\ at # 0
      /\ SuperOf(program, at) = None
      /\ program' = program
      /\ \A k \in DOMAIN klass_def_map : Solved(k)
  BY DEF IInv, makeKlassDef
<1>2. CASE Fail("assert")
  BY <1>1, <1>2, FailStep
<1>3. CASE /\ klass_def_map' = Put(klass_def_map, name, entry)
           /\ at' = 0 /\ climb' = EmptyMap /\ pos' = NextDeclaration
           /\ phase' = phase
  <2>1. /\ fields \in FieldSeq
        /\ \E F : Solution(program, F) /\ pos \in DOMAIN F
        /\ \A F : Solution(program, F) /\ pos \in DOMAIN F => F[pos] = fields
    BY <1>1, RootSolves
  <2>2. /\ pos \in 1 .. Len(program)
        /\ program[pos].op = "DEF_CLASS"
        /\ Len(program) \in Nat
        /\ name \in Klass
    BY <1>1, ProgramTypes DEF Climbing, LayoutShape
  <2> HIDE DEF fields
  <2>3. WithId(fields) \in Seq([name : Member \cup {ID}, kind : Kinds])
    <3> DEFINE E == [name : Member \cup {ID}, kind : Kinds]
    <3>1. fields \in [1 .. Len(fields) -> FieldDefElem] /\ Len(fields) \in Nat
      BY <2>1 DEF FieldSeq
    <3>2. FieldDefElem \subseteq E
      BY DEF FieldDefElem, E
    <3> HIDE DEF E
    <3>3. fields \in Seq(E)
      <4>1. fields \in [1 .. Len(fields) -> E]
        BY <3>1, <3>2
      <4> QED
        BY <4>1, <3>1
    <3>4. <<IdField>> \in Seq(E)
      BY DEF IdField, Kinds, E
    <3>5. <<IdField>> \o fields \in Seq(E)
      BY <3>3, <3>4, ConcatProperties
    <3> QED
      BY <3>5 DEF WithId, E
  <2>4. entry \in KlassDefs
    BY <2>2, <2>3 DEF KlassDefs
  <2>5. /\ DOMAIN klass_def_map' = DOMAIN klass_def_map \cup {name}
        /\ klass_def_map'[name] = entry
        /\ \A k \in DOMAIN klass_def_map \ {name} :
             klass_def_map'[k] = klass_def_map[k]
    BY <1>3 DEF Put
  <2>6. entry.decl = pos /\ entry.fields = WithId(fields)
    OBVIOUS
  <2> HIDE DEF entry
  <2>7. LayoutShape'
    <3>1. pos' \in 1 .. Len(program) + 1 /\ at' \in 0 .. Len(program)
      BY <1>3, <2>2 DEF NextDeclaration
    <3>2. DOMAIN climb' = {}
      BY <1>3 DEF EmptyMap
    <3>3. /\ DOMAIN klass_def_map' \subseteq Klass
          /\ \A k \in DOMAIN klass_def_map' : klass_def_map'[k] \in KlassDefs
      BY <1>1, <2>2, <2>4, <2>5 DEF LayoutShape
    <3> QED
      BY <1>1, <1>3, <3>1, <3>2, <3>3 DEF LayoutShape
  <2>8. ASSUME NEW k \in DOMAIN klass_def_map'
        PROVE  Solved(k)'
    <3>1. CASE k = name
      <4>1. klass_def_map'[k].decl = pos /\ Fields(k)' = WithId(fields)
        BY <3>1, <2>5, <2>6 DEF Fields
      <4> QED
        BY <3>1, <4>1, <1>1, <2>1, <2>2 DEF Solved
    <3>2. CASE k # name
      BY <3>2, <1>1, <2>5, <2>8, SolvedStable
    <3> QED
      BY <3>1, <3>2
  <2> QED
    BY <1>3, <2>7, <2>8 DEF IInv
<1> QED
  BY <1>2, <1>3 DEF makeKlassDef, Before

(* The compiler goes on to the next declaration, outside any climb. *)
LEMMA MoveOnStep ==
  ASSUME IInv, at = 0, pos <= Len(program), pos' = pos + 1,
         UNCHANGED <<program, at, climb, klass_def_map>>
  PROVE  IInv'
<1>1. LayoutShape /\ (at # 0 => Climbing)
  BY DEF IInv
<1>2. at' = 0
  OBVIOUS
<1>3. LayoutShape'
  <2>1. pos' \in 1 .. Len(program) + 1
    BY <1>1, ProgramTypes DEF LayoutShape
  <2> QED
    BY <1>1, <2>1 DEF LayoutShape
<1>4. ASSUME NEW k \in DOMAIN klass_def_map'
      PROVE  Solved(k)'
  BY SolvedStable DEF IInv
<1> QED
  BY <1>2, <1>3, <1>4 DEF IInv

(* Whatever else happens, the layouts stay. *)
LEMMA IInvStays ==
  ASSUME IInv, UNCHANGED <<program, pos, at, climb, klass_def_map>>
  PROVE  IInv'
<1>1. LayoutShape'
  BY DEF IInv, LayoutShape
<1>2. at' # 0 => Climbing'
  BY DEF IInv, Climbing, Visited, Suffixes, Agrees
<1>3. ASSUME NEW k \in DOMAIN klass_def_map'
      PROVE  Solved(k)'
  BY SolvedStable DEF IInv
<1> QED
  BY <1>1, <1>2, <1>3 DEF IInv

LEMMA InitIInv ==
  ASSUME NothingCompiled
  PROVE  IInv
<1>1. program \in Programs /\ Len(program) \in Nat
  BY ProgramTypes DEF NothingCompiled
<1>2. LayoutShape
  BY <1>1 DEF NothingCompiled, LayoutShape, EmptyMap
<1> QED
  BY <1>2 DEF NothingCompiled, IInv, EmptyMap

LEMMA ClassStep ==
  ASSUME IInv, ClassCodegen
  PROVE  IInv'
<1>1. CASE exec_def_class_codegen
  BY <1>1, BeginStep
<1>2. CASE read_junk
  BY <1>2, FailStep DEF read_junk
<1>3. CASE getFieldDef
  <2> DEFINE sp == search_ast_by_sym(program, SuperOf(program, at))
  <2>1. /\ at # 0
        /\ SuperOf(program, at) # None
        /\ UNCHANGED program
        /\ sp = SuperNode(program, at)
    BY <1>3 DEF getFieldDef, SuperNode
  <2>2. CASE Fail("assert") \/ Fail("crash")
    BY <2>1, <2>2, FailStep
  <2>3. CASE /\ ~Missing(sp) /\ ~ComesBack(sp)
             /\ climb' = Put(climb, sp, Before(Own(program, at), climb[at]))
             /\ at' = sp
             /\ UNCHANGED <<phase, pos, klass_def_map>>
    <3>1. sp # 0 /\ sp \notin DOMAIN climb
      BY <2>3 DEF Missing, ComesBack
    <3>2. climb' = Put(climb, sp, Own(program, at) \o climb[at])
      BY <2>3 DEF Before
    <3> HIDE DEF sp
    <3> QED
      BY <2>1, <2>3, <3>1, <3>2, ClimbStep
  <2> QED
    BY <1>3, <2>2, <2>3 DEF getFieldDef
<1>4. CASE makeKlassDef
  BY <1>4, MakeStep
<1> QED
  BY <1>1, <1>2, <1>3, <1>4 DEF ClassCodegen

LEMMA StepIInv ==
  ASSUME IInv, [LayoutNext]_layout_vars
  PROVE  IInv'
<1>1. CASE PassOver
  <2>1. at = 0
    BY <1>1 DEF PassOver, IInv, Climbing
  <2> QED
    BY <1>1, <2>1, MoveOnStep DEF PassOver, NextDeclaration
<1>2. CASE UNCHANGED layout_vars
  BY <1>2, IInvStays DEF layout_vars
<1> QED
  BY <1>1, <1>2, ClassStep DEF LayoutNext

(***************************************************************************)
(* The state of exec_def_class_codegen and getFieldDef keeps its shape,    *)
(* and every compiled class has the layout its ancestors prescribe.        *)
(***************************************************************************)
THEOREM Layouts_IInv == LayoutSpec => []IInv
<1>1. LayoutInit => IInv
  BY InitIInv DEF LayoutInit
<1>2. IInv /\ [LayoutNext]_layout_vars => IInv'
  BY StepIInv
<1> QED
  BY <1>1, <1>2, PTL DEF LayoutSpec

(* Type correctness of the compilation of classes. *)
THEOREM Layouts_TypeOK == LayoutSpec => []LayoutTypeOK
<1> DEFINE PhaseOK == phase \in {"codegen", "assert", "crash"}
<1>1. LayoutInit => PhaseOK
  BY DEF LayoutInit
<1>2. PhaseOK /\ [LayoutNext]_layout_vars => PhaseOK'
  BY DEF LayoutNext, ClassCodegen, exec_def_class_codegen, read_junk, getFieldDef,
         makeKlassDef, PassOver, Fail, layout_vars
<1>3. IInv /\ PhaseOK => LayoutTypeOK
  BY DEF IInv, LayoutTypeOK
<1> QED
  BY <1>1, <1>2, <1>3, Layouts_IInv, PTL DEF LayoutSpec

-----------------------------------------------------------------------------
LEMMA IInvExtends ==
  ASSUME IInv
  PROVE  LayoutsExtend
<1> SUFFICES ASSUME NEW k \in DOMAIN klass_def_map, NEW s \in DOMAIN klass_def_map,
                    Inherits(k, s)
             PROVE  Fields(k) = Fields(s) \o program[klass_def_map[k].decl].def_vars
  BY DEF LayoutsExtend
<1> DEFINE d == klass_def_map[k].decl
           e == klass_def_map[s].decl
<1>1. Solved(k) /\ Solved(s) /\ LayoutShape
  BY DEF IInv
<1>2. /\ d \in 1 .. Len(program)
      /\ SuperOf(program, d) = s
      /\ Own(program, d) = program[d].def_vars
      /\ SuperNode(program, d) = e
  BY <1>1 DEF Solved, Inherits, SuperOf, Own, SuperNode
<1>3. s # None
  BY <1>1, LayoutAssumption DEF LayoutShape
<1>4. PICK F : Solution(program, F) /\ d \in DOMAIN F
  BY <1>1 DEF Solved
<1> HIDE DEF d, e
<1>5. /\ e \in DOMAIN F
      /\ F[d] = F[e] \o Own(program, d)
      /\ F[e] \in FieldSeq
  BY <1>2, <1>3, <1>4, SolutionStep
<1>6. Fields(k) = WithId(F[d]) /\ Fields(s) = WithId(F[e])
  BY <1>1, <1>4, <1>5 DEF Solved, d, e
<1>7. <<IdField>> \o (F[e] \o Own(program, d))
        = (<<IdField>> \o F[e]) \o Own(program, d)
  <2> DEFINE E  == [name : Member \cup {ID}, kind : Kinds]
             id == <<IdField>>
  <2>1. id \in Seq(E)
    BY DEF IdField, Kinds
  <2>2. FieldDefElem \subseteq E
    BY DEF FieldDefElem
  <2>3. Own(program, d) \in FieldSeq
    BY <1>1, <1>2, ProgramTypes DEF LayoutShape
  <2> HIDE DEF E, id
  <2>4. F[e] \in Seq(E) /\ Own(program, d) \in Seq(E)
    BY <1>5, <2>2, <2>3, SeqMonotonic DEF FieldSeq
  <2>5. \A f, g \in Seq(E) : (id \o f) \o g = id \o (f \o g)
    BY <2>1, ConcatAssociative
  <2> QED
    BY <2>4, <2>5 DEF id
<1> QED
  BY <1>2, <1>5, <1>6, <1>7 DEF WithId, d

(* The layout of a class is that of its superclass and its own fields. *)
THEOREM Layouts_LayoutsExtend == LayoutSpec => []LayoutsExtend
BY Layouts_IInv, IInvExtends, PTL

(* What the first field of a name is does not depend on what follows it. *)
LEMMA FirstStays ==
  ASSUME NEW E, NEW f \in Seq(E), NEW g \in Seq(E), NEW m,
         getFieldDistance(f, m) # -1
  PROVE  getFieldDistance(f \o g, m) = getFieldDistance(f, m)
<1>1. /\ Len(f \o g) = Len(f) + Len(g)
      /\ Len(f) \in Nat /\ Len(g) \in Nat
      /\ \A i \in 1 .. Len(f) : (f \o g)[i] = f[i]
  BY ConcatProperties
<1>2. PICK i \in 1 .. Len(f) :
        f[i].name = m /\ \A j \in 1 .. i - 1 : f[j].name # m
  BY DEF getFieldDistance, FirstsNamed
<1>3. FirstsNamed(f, m) = {i}
  BY <1>1, <1>2 DEF FirstsNamed
<1>4. FirstsNamed(f \o g, m) = {i}
  <2>1. i \in FirstsNamed(f \o g, m)
    BY <1>1, <1>2 DEF FirstsNamed
  <2>2. ASSUME NEW j \in FirstsNamed(f \o g, m)
        PROVE  j = i
    BY <1>1, <1>2, <2>1 DEF FirstsNamed
  <2> QED
    BY <2>1, <2>2
<1> QED
  BY <1>3, <1>4 DEF getFieldDistance

LEMMA IInvIndex ==
  ASSUME IInv
  PROVE  MembersKeepTheirIndex
<1> SUFFICES ASSUME NEW k \in DOMAIN klass_def_map, NEW s \in DOMAIN klass_def_map,
                    Inherits(k, s), NEW m \in Member,
                    getFieldDistance(Fields(s), m) # -1
             PROVE  getFieldDistance(Fields(k), m) = getFieldDistance(Fields(s), m)
  BY DEF MembersKeepTheirIndex
<1> DEFINE E == [name : Member \cup {ID}, kind : Kinds]
           d == klass_def_map[k].decl
<1>1. Fields(k) = Fields(s) \o program[d].def_vars
  BY IInvExtends DEF LayoutsExtend
<1>2. Fields(s) \in Seq(E)
  BY DEF IInv, LayoutShape, KlassDefs, Fields
<1>3. program[d].def_vars \in FieldSeq
  <2>1. program \in Programs /\ Solved(k)
    BY DEF IInv, LayoutShape
  <2>2. Own(program, d) \in FieldSeq /\ program[d].op = "DEF_CLASS"
    BY <2>1, ProgramTypes DEF Solved
  <2> QED
    BY <2>2 DEF Own
<1>4. FieldDefElem \subseteq E
  BY DEF FieldDefElem
<1> HIDE DEF E, d
<1>5. program[d].def_vars \in Seq(E)
  BY <1>3, <1>4, SeqMonotonic DEF FieldSeq
<1> QED
  BY <1>1, <1>2, <1>5, FirstStays

(* A member has the same index in a class and in its superclass. *)
THEOREM Layouts_MembersKeepTheirIndex == LayoutSpec => []MembersKeepTheirIndex
BY Layouts_IInv, IInvIndex, PTL

-----------------------------------------------------------------------------
(***************************************************************************)
(* Failures.  A climb stays within the ancestors its class names, and what *)
(* it carries is storable unless a node it has left declares otherwise.    *)
(***************************************************************************)
WithinAncestors == at # 0 => DOMAIN climb \subseteq ClimbFrom(pos)

Carried ==
  at # 0 =>
    \/ \E j \in DOMAIN climb : ~Storable(Own(program, j))
    \/ Storable(climb[at])

CInv ==
  /\ IInv
  /\ WithinAncestors
  /\ Carried
  /\ LayoutAssertHasACause
  /\ LayoutCrashHasACause

LEMMA ClimbFromClosed ==
  ASSUME NEW i \in 1 .. Len(program)
  PROVE  /\ i \in ClimbFrom(i)
         /\ \A j \in ClimbFrom(i) : SuperNodes(j) \subseteq ClimbFrom(i)
BY DEF ClimbFrom, SuperNodes

LEMMA ClimbFromLeast ==
  ASSUME NEW i, NEW S \in SUBSET (1 .. Len(program)),
         i \in S, \A a \in S : SuperNodes(a) \subseteq S
  PROVE  ClimbFrom(i) \subseteq S
BY DEF ClimbFrom

LEMMA StorableConcat ==
  ASSUME NEW f \in FieldSeq, NEW g \in FieldSeq, Storable(f), Storable(g)
  PROVE  Storable(f \o g)
<1>1. /\ Len(f \o g) = Len(f) + Len(g)
      /\ Len(f) \in Nat /\ Len(g) \in Nat
      /\ \A i \in 1 .. Len(f) + Len(g) :
           (f \o g)[i] = IF i <= Len(f) THEN f[i] ELSE g[i - Len(f)]
  BY ConcatProperties DEF FieldSeq
<1> SUFFICES ASSUME NEW i \in 1 .. Len(f) + Len(g)
             PROVE  (f \o g)[i].kind \in {"INT", "BOOLTYPE", "DOUBLE", "STRING"}
  BY <1>1 DEF Storable
<1>2. CASE i <= Len(f)
  BY <1>1, <1>2 DEF Storable
<1>3. CASE ~(i <= Len(f))
  <2>1. i - Len(f) \in 1 .. Len(g)
    BY <1>1, <1>3
  <2> QED
    BY <1>1, <1>3, <2>1 DEF Storable
<1> QED
  BY <1>2, <1>3

(* While a class is climbed, the state the causes are read off. *)
LEMMA ClimbFacts ==
  ASSUME CInv, at # 0
  PROVE  /\ program \in Programs
         /\ pos \in DOMAIN climb /\ at \in DOMAIN climb
         /\ DOMAIN climb \subseteq 1 .. Len(program)
         /\ \A i \in DOMAIN climb :
              climb[i] \in FieldSeq /\ Own(program, i) \in FieldSeq
         /\ \A i \in DOMAIN climb \ {at} :
              /\ SuperOf(program, i) # None
              /\ SuperNode(program, i) \in DOMAIN climb
         /\ DOMAIN climb \subseteq ClimbFrom(pos)
<1>1. LayoutShape /\ Visited
  BY DEF CInv, IInv, Climbing
<1>2. program \in Programs
  BY <1>1 DEF LayoutShape
<1>3. \A i \in 1 .. Len(program) : Own(program, i) \in FieldSeq
  BY <1>2, ProgramTypes
<1> QED
  BY <1>1, <1>2, <1>3 DEF CInv, LayoutShape, Visited, WithinAncestors, FieldSeq

LEMMA StepCInv ==
  ASSUME CInv, [LayoutNext]_layout_vars
  PROVE  CInv'
<1>1. IInv'
  BY StepIInv DEF CInv
<1>2. CASE UNCHANGED layout_vars
  <2>1. UNCHANGED <<program, phase, pos, at, climb, klass_def_map>>
    BY <1>2 DEF layout_vars
  <2> QED
    BY <1>1, <2>1 DEF CInv, WithinAncestors, Carried, LayoutAssertHasACause,
                      LayoutCrashHasACause, ClimbFrom, SuperNodes
<1>3. ASSUME phase' = "codegen", WithinAncestors', Carried'
      PROVE  CInv'
  BY <1>1, <1>3 DEF CInv, LayoutAssertHasACause, LayoutCrashHasACause
<1>4. ASSUME NEW how \in {"assert", "crash"}, Fail(how), program' = program,
             how = "assert" => LayoutAssertHasACause',
             how = "crash" => LayoutCrashHasACause'
      PROVE  CInv'
  <2>1. UNCHANGED <<program, pos, at, climb, klass_def_map>> /\ phase' = how
    BY <1>4 DEF Fail
  <2> QED
    BY <1>1, <1>4, <2>1 DEF CInv, WithinAncestors, Carried, LayoutAssertHasACause,
                            LayoutCrashHasACause, ClimbFrom, SuperNodes
<1>5. CASE exec_def_class_codegen
  <2>1. /\ program' = program /\ pos' = pos /\ phase' = "codegen" /\ at' = pos
        /\ climb' = [i \in {pos} |-> <<>>]
    BY <1>5 DEF exec_def_class_codegen, Put, EmptyMap
  <2>2. pos \in 1 .. Len(program)
    BY <1>5, ProgramTypes DEF CInv, IInv, LayoutShape, exec_def_class_codegen
  <2>3. WithinAncestors'
    BY <2>1, <2>2, ClimbFromClosed DEF WithinAncestors, ClimbFrom, SuperNodes
  <2>4. Carried'
    BY <2>1 DEF Carried, Storable
  <2> QED
    BY <1>3, <2>1, <2>3, <2>4
<1>6. CASE read_junk
  <2>1. at # 0 /\ JunkMemory /\ ReadsJunk(program, at) /\ Fail("crash")
        /\ program' = program
    BY <1>6 DEF read_junk
  <2>2. at \in ClimbFrom(pos) /\ pos' = pos
    BY <2>1, ClimbFacts DEF Fail
  <2>3. LayoutCrashHasACause'
    BY <2>1, <2>2 DEF LayoutCrashHasACause, ClimbFrom, SuperNodes
  <2> QED
    BY <1>4, <2>1, <2>3
<1>7. CASE getFieldDef
  <2> DEFINE sp == search_ast_by_sym(program, SuperOf(program, at))
  <2>1. /\ at # 0
        /\ SuperOf(program, at) # None
        /\ phase = "codegen"
        /\ program' = program
        /\ sp = SuperNode(program, at)
    BY <1>7 DEF getFieldDef, SuperNode
  <2>2. at \in DOMAIN climb /\ at \in ClimbFrom(pos) /\ sp \in 0 .. Len(program)
    BY <2>1, ClimbFacts, ProgramTypes
  <2>3. CASE Missing(sp) /\ Fail("assert")
    <3>1. SuperNodes(at) = {}
      BY <2>3 DEF SuperNodes, Missing
    <3>2. LayoutAssertHasACause'
      BY <2>1, <2>2, <2>3, <3>1
      DEF LayoutAssertHasACause, Fail, ClimbFrom, SuperNodes
    <3> QED
      BY <1>4, <2>1, <2>3, <3>2
  <2>4. CASE ~Missing(sp) /\ ComesBack(sp) /\ Fail("crash")
    <3>1. sp \in DOMAIN climb
      BY <2>4 DEF ComesBack
    <3>2. ASSUME NEW i \in DOMAIN climb
          PROVE  SuperNodes(i) # {} /\ SuperNodes(i) \subseteq DOMAIN climb
      <4>1. SuperOf(program, i) # None /\ SuperNode(program, i) \in DOMAIN climb
        BY <2>1, <3>1, ClimbFacts
      <4> QED
        BY <2>1, <4>1, ClimbFacts DEF SuperNodes, SuperNode
    <3>3. ClimbFrom(pos) \subseteq DOMAIN climb
      BY <2>1, <3>2, ClimbFacts, ClimbFromLeast
    <3>4. LayoutCrashHasACause'
      BY <2>1, <2>4, <3>2, <3>3
      DEF LayoutCrashHasACause, Fail, ClimbFrom, SuperNodes
    <3> QED
      BY <1>4, <2>1, <2>4, <3>4
  <2>5. CASE /\ ~Missing(sp) /\ ~ComesBack(sp)
             /\ climb' = Put(climb, sp, Before(Own(program, at), climb[at]))
             /\ at' = sp
             /\ UNCHANGED <<phase, pos, klass_def_map>>
    <3>1. /\ DOMAIN climb' = DOMAIN climb \cup {sp}
          /\ climb'[sp] = Own(program, at) \o climb[at]
      BY <2>5 DEF Put, Before
    <3>2. sp \in ClimbFrom(pos)
      <4>1. sp \in SuperNodes(at)
        BY <2>1, <2>2, <2>5 DEF SuperNodes, Missing
      <4> QED
        BY <4>1, <2>1, <2>2, ClimbFacts, ClimbFromClosed
    <3>3. WithinAncestors'
      BY <2>1, <2>5, <3>1, <3>2, ClimbFacts DEF WithinAncestors, ClimbFrom, SuperNodes
    <3>4. Carried'
      <4>1. CASE \E j \in DOMAIN climb : ~Storable(Own(program, j))
        BY <4>1, <2>1, <3>1 DEF Carried
      <4>2. CASE \A j \in DOMAIN climb : Storable(Own(program, j))
        <5>1. Storable(climb[at]) /\ Storable(Own(program, at))
          BY <4>2, <2>1, <2>2 DEF CInv, Carried
        <5>2. Storable(Own(program, at) \o climb[at])
          BY <5>1, <2>1, <2>2, ClimbFacts, StorableConcat
        <5> QED
          BY <5>2, <2>5, <3>1 DEF Carried
      <4> QED
        BY <4>1, <4>2
    <3> QED
      BY <1>3, <2>1, <2>5, <3>3, <3>4
  <2> QED
    BY <1>7, <2>3, <2>4, <2>5 DEF getFieldDef
<1>8. CASE makeKlassDef
  <2> DEFINE fields == Before(Own(program, at), climb[at])
  <2>1. at # 0 /\ phase = "codegen" /\ program' = program
    BY <1>8 DEF makeKlassDef
  <2>2. CASE ~Storable(fields) /\ Fail("assert")
    <3>1. \E j \in DOMAIN climb : ~Storable(Own(program, j))
      <4> SUFFICES ASSUME \A j \in DOMAIN climb : Storable(Own(program, j))
                   PROVE  FALSE
        OBVIOUS
      <4>1. at \in DOMAIN climb
        BY <2>1, ClimbFacts
      <4>2. Storable(climb[at]) /\ Storable(Own(program, at))
        BY <4>1, <2>1 DEF CInv, Carried
      <4> QED
        BY <4>1, <4>2, <2>1, <2>2, ClimbFacts, StorableConcat DEF Before
    <3>2. DOMAIN climb \subseteq ClimbFrom(pos)
      BY <2>1, ClimbFacts
    <3>3. LayoutAssertHasACause'
      BY <2>1, <2>2, <3>1, <3>2 DEF LayoutAssertHasACause, Fail, ClimbFrom, SuperNodes
    <3> QED
      BY <1>4, <2>1, <2>2, <3>3
  <2>3. CASE at' = 0 /\ phase' = phase
    BY <1>3, <2>1, <2>3 DEF WithinAncestors, Carried
  <2> QED
    BY <1>8, <2>2, <2>3 DEF makeKlassDef
<1>9. CASE PassOver
  <2>1. at' = 0 /\ phase' = "codegen"
    BY <1>9 DEF CInv, IInv, Climbing, PassOver
  <2> QED
    BY <1>3, <2>1 DEF WithinAncestors, Carried
<1> QED
  BY <1>2, <1>5, <1>6, <1>7, <1>8, <1>9 DEF LayoutNext, ClassCodegen

LEMMA Layouts_CInv == LayoutSpec => []CInv
<1>1. LayoutInit => CInv
  BY InitIInv DEF CInv, LayoutInit, NothingCompiled, WithinAncestors, Carried,
                  LayoutAssertHasACause, LayoutCrashHasACause
<1>2. CInv /\ [LayoutNext]_layout_vars => CInv'
  BY StepCInv
<1> QED
  BY <1>1, <1>2, PTL DEF LayoutSpec

(* The assertions of getFieldDef and astType2LLVMType fail only on a class *)
(* with an ancestor that nobody declares or that has a field of a kind     *)
(* without an LLVM type.                                                   *)
THEOREM Layouts_AssertHasACause == LayoutSpec => []LayoutAssertHasACause
<1>1. CInv => LayoutAssertHasACause
  BY DEF CInv
<1> QED
  BY <1>1, Layouts_CInv, PTL

(* Compiling a class crashes only if its ancestors go on for ever, or on   *)
(* memory that nobody initialised.                                         *)
THEOREM Layouts_CrashHasACause == LayoutSpec => []LayoutCrashHasACause
<1>1. CInv => LayoutCrashHasACause
  BY DEF CInv
<1> QED
  BY <1>1, Layouts_CInv, PTL
=============================================================================

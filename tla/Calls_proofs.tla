----------------------------- MODULE Calls_proofs -----------------------------
(***************************************************************************)
(* For every program and every order of the classes: what the calls of a   *)
(* module reach.  First calls through a variable, which find a function by *)
(* its place in the method array (Dispatch_...), then calls by name, which *)
(* find one by its place in the text (Linking_...).                        *)
(***************************************************************************)
EXTENDS Compiler_proofs

-----------------------------------------------------------------------------
(***************************************************************************)
(* Calls through a variable: which function one executes, and when it      *)
(* finds none.                                                             *)
(*                                                                         *)
(* A call and main's stores are compiled at different positions of the     *)
(* text, and each takes the row of a class from the class map it finds.    *)
(* The invariant DInv says what the maps, the instructions and the stores  *)
(* are in terms of the text up to the position they were made at; whether  *)
(* two positions give a class the same row is then a question about the    *)
(* text alone (RowStable, RowInjective).                                   *)
(***************************************************************************)

(***************************************************************************)
(* The text read up to declaration P: the classes defined before it, the   *)
(* method of a class that is still there, and the row a class then has.    *)
(***************************************************************************)
ClassesBefore(p, P) == {k \in Klass : \E c \in ClassDecls(p, k) : c < P}

Left(p, k, P) ==
  {m \in MethodDecls(p, k) :
     /\ m < P
     /\ \A i \in m + 1 .. P - 1 : i \notin MethodDecls(p, k) \cup ClassDecls(p, k)}

Row(p, k, P) ==
  Cardinality({j \in ClassesBefore(p, P) : KlassRank[j] < KlassRank[k]}) * RowLen + 0

(* LLVM gives a name to one function only. *)
NamesAreUnique ==
  \A f, g \in 1 .. Len(llvm) :
    llvm[f].named /\ llvm[g].named /\ llvm[f].sym = llvm[g].sym => f = g

(* What a call instruction refers to. *)
CallsReach ==
  \A f \in 1 .. Len(llvm) : \A i \in 1 .. Len(Code(f)) :
    LET in == Code(f)[i] IN
    /\ in.op = "call" => /\ in.fn \in 1 .. Len(llvm)
                         /\ llvm[in.fn].named
                         /\ llvm[in.fn].own <= llvm[f].own
    /\ in.op = "slot" => /\ in.klass \in ClassesBefore(program, llvm[f].own)
                         /\ in.slot = Row(program, in.klass, llvm[f].own)

(* What main's stores put into the array. *)
StoresReach ==
  \A f \in 1 .. Len(llvm) :
    /\ llvm[f].stores # {} =>
         /\ llvm[f].sym = Main
         /\ program[llvm[f].own].op = "DEF_FUNC"
    /\ \A st \in llvm[f].stores :
         \E k \in ClassesBefore(program, llvm[f].own) :
           /\ st[1] = Row(program, k, llvm[f].own)
           /\ llvm[st[2]].own \in Left(program, k, llvm[f].own)

(* And that nothing is missing, once main is finished. *)
StoresComplete ==
  \A f \in Real :
    f # cur /\ llvm[f].sym = Main /\ program[llvm[f].own].op = "DEF_FUNC" =>
      \A k \in ClassesBefore(program, llvm[f].own) :
        Left(program, k, llvm[f].own) # {}
          => \E st \in llvm[f].stores : st[1] = Row(program, k, llvm[f].own)

(* The class map and the method map after the declarations visited. *)
Reached == IF cur = 0 THEN pos ELSE pos + 1

MapsFollowText ==
  /\ phase = "parse" =>
       klasses = {} /\ llvm = <<>> /\ \A k \in Klass : method_map[k] = 0
  /\ phase = "codegen" =>
       /\ klasses = ClassesBefore(program, Reached)
       /\ \A k \in Klass :
            IF method_map[k] = 0 THEN Left(program, k, Reached) = {}
            ELSE llvm[method_map[k]].own \in Left(program, k, Reached)
       /\ \A f \in 1 .. Len(llvm) : llvm[f].own <= pos

(* The array of the running program. *)
TableIsMains ==
  IF stack = <<>> THEN \A s \in Slots : table[s] = 0
  ELSE /\ llvm[stack[1].fn].named /\ llvm[stack[1].fn].sym = Main
       /\ \A i \in 1 .. Len(stack) : llvm[stack[i].fn].own <= MainPos
       /\ \A s \in Slots : table[s] # 0 =>
            \E k \in ClassesBefore(program, MainPos) :
              /\ s = Row(program, k, MainPos)
              /\ llvm[table[s]].own \in Left(program, k, MainPos)
       /\ program[MainPos].op = "DEF_FUNC" =>
            \A k \in ClassesBefore(program, MainPos) :
              Left(program, k, MainPos) # {}
                => /\ Row(program, k, MainPos) \in Slots
                   /\ table[Row(program, k, MainPos)] # 0

(* No class that sorts before k appears between declarations i and M. *)
Stable(p, k, i, M) ==
  \A c \in DeclsOf(p, "DEF_CLASS") :
    (i < c /\ c < M /\ KlassRank[p[c].sym] < KlassRank[k])
      => \E b \in ClassDecls(p, p[c].sym) : b < i

(* The two properties to be proved, told with the operators above. *)
SlotsDispatch ==
  \A i \in 1 .. Len(stack) - 1 :
    LET call == Pending(stack[i]) IN
    call.op = "slot" /\ Stable(program, call.klass, llvm[stack[i].fn].own, MainPos)
      => llvm[stack[i + 1].fn].own \in Left(program, call.klass, MainPos)

EmptySlots ==
  phase = "crash" /\ stack # <<>> =>
    LET call == Code(top.fn)[top.pc] IN
    \/ Left(program, call.klass, MainPos) = {}
    \/ ~Stable(program, call.klass, llvm[top.fn].own, MainPos)
    \/ program[MainPos].op = "DEF_METHOD"

DInv ==
  /\ NamesAreUnique
  /\ CallsReach
  /\ StoresReach
  /\ StoresComplete
  /\ MapsFollowText
  /\ TableIsMains
  /\ SlotsDispatch
  /\ EmptySlots

-----------------------------------------------------------------------------
(***************************************************************************)
(* Facts about the text.                                                   *)
(***************************************************************************)
LEMMA ClassesStep ==
  ASSUME NEW p \in Programs, NEW P \in 1 .. Len(p)
  PROVE  ClassesBefore(p, P + 1) =
           ClassesBefore(p, P) \cup (IF p[P].op = "DEF_CLASS" THEN {p[P].sym} ELSE {})
<1>1. /\ Len(p) \in Nat /\ p[P] \in Declarations
      /\ p[P].op = "DEF_CLASS" => p[P].sym \in Klass
  BY ProgramShape, DeclarationShape
<1>2. ASSUME NEW k \in Klass
      PROVE  k \in ClassesBefore(p, P + 1) <=>
               k \in ClassesBefore(p, P) \/ (p[P].op = "DEF_CLASS" /\ p[P].sym = k)
  <2>1. \A c \in ClassDecls(p, k) : c < P + 1 <=> c < P \/ c = P
    BY <1>1 DEF ClassDecls, DeclsOf
  <2>2. P \in ClassDecls(p, k) <=> p[P].op = "DEF_CLASS" /\ p[P].sym = k
    BY DEF ClassDecls, DeclsOf
  <2> QED
    BY <2>1, <2>2 DEF ClassesBefore
<1>3. ClassesBefore(p, P + 1) \subseteq Klass /\ ClassesBefore(p, P) \subseteq Klass
  BY DEF ClassesBefore
<1> QED
  BY <1>1, <1>2, <1>3

LEMMA LeftStep ==
  ASSUME NEW p \in Programs, NEW P \in 1 .. Len(p), NEW k \in Klass
  PROVE  Left(p, k, P + 1) =
           IF P \in MethodDecls(p, k) THEN {P}
           ELSE IF P \in ClassDecls(p, k) THEN {}
           ELSE Left(p, k, P)
<1> DEFINE D == MethodDecls(p, k) \cup ClassDecls(p, k)
           M == MethodDecls(p, k)
<1>1. Len(p) \in Nat /\ P \in Nat /\ M \subseteq 1 .. Len(p) /\ M \subseteq D
  BY ProgramShape DEF MethodDecls, DeclsOf
<1>2. /\ Left(p, k, P + 1) =
           {m \in M : m < P + 1 /\ \A i \in m + 1 .. (P + 1) - 1 : i \notin D}
      /\ Left(p, k, P) = {m \in M : m < P /\ \A i \in m + 1 .. P - 1 : i \notin D}
  BY DEF Left
<1>3. P \in MethodDecls(p, k) <=> P \in M
  OBVIOUS
<1>4. P \in M \/ P \in ClassDecls(p, k) <=> P \in D
  OBVIOUS
<1> HIDE DEF D, M
<1>5. (P + 1) - 1 = P
  BY <1>1
<1>6. CASE P \in D
  <2>1. \A m \in M : m < P => P \in m + 1 .. P
    BY <1>1
  <2>2. \A m \in M : m < P + 1 => m < P \/ m = P
    BY <1>1
  <2>3. P \in M => P < P + 1 /\ \A i \in P + 1 .. P : i \notin D
    BY <1>1
  <2>4. Left(p, k, P + 1) = {m \in M : m = P}
    BY <1>2, <1>5, <1>6, <2>1, <2>2, <2>3
  <2> QED
    BY <1>3, <1>4, <1>6, <2>4
<1>7. CASE P \notin D
  <2>1. \A m \in M : m < P + 1 <=> m < P
    BY <1>1, <1>7
  <2>2. ASSUME NEW m \in M
        PROVE  (\A i \in m + 1 .. P : i \notin D) <=> (\A i \in m + 1 .. P - 1 : i \notin D)
    <3>1. m \in Nat
      BY <1>1
    <3>2. \A i \in m + 1 .. P : i \in m + 1 .. P - 1 \/ i = P
      BY <1>1, <3>1
    <3>3. \A i \in m + 1 .. P - 1 : i \in m + 1 .. P
      BY <1>1, <3>1
    <3> QED
      BY <1>7, <3>2, <3>3
  <2>3. Left(p, k, P + 1) = Left(p, k, P)
    BY <1>2, <1>5, <2>1, <2>2
  <2> QED
    BY <1>3, <1>4, <1>7, <2>3
<1> QED
  BY <1>6, <1>7

LEMMA LeftShape ==
  ASSUME NEW p \in Programs, NEW P \in Nat, NEW k \in Klass, NEW m \in Left(p, k, P)
  PROVE  m \in 1 .. Len(p) /\ m < P /\ p[m].op = "DEF_METHOD"
BY DEF Left, MethodDecls, DeclsOf

(* A declaration of a callable changes neither. *)
LEMMA CallableKeeps ==
  ASSUME NEW p \in Programs, NEW P \in 1 .. Len(p), p[P].op \in Callables
  PROVE  /\ ClassesBefore(p, P + 1) = ClassesBefore(p, P)
         /\ \A k \in Klass : Row(p, k, P + 1) = Row(p, k, P)
         /\ p[P].op = "DEF_FUNC" => \A k \in Klass : Left(p, k, P + 1) = Left(p, k, P)
<1>1. p[P].op # "DEF_CLASS"
  BY DEF Callables
<1>2. ClassesBefore(p, P + 1) = ClassesBefore(p, P)
  <2>1. ClassesBefore(p, P + 1) =
          ClassesBefore(p, P) \cup (IF p[P].op = "DEF_CLASS" THEN {p[P].sym} ELSE {})
    BY ClassesStep
  <2> QED
    BY <1>1, <2>1
<1>3. \A k \in Klass : Row(p, k, P + 1) = Row(p, k, P)
  BY <1>2 DEF Row
<1>4. ASSUME p[P].op = "DEF_FUNC", NEW k \in Klass PROVE Left(p, k, P + 1) = Left(p, k, P)
  <2>1. P \notin MethodDecls(p, k) /\ P \notin ClassDecls(p, k)
    BY <1>4 DEF MethodDecls, ClassDecls, DeclsOf
  <2> QED
    BY <2>1, LeftStep
<1> QED
  BY <1>2, <1>3, <1>4

LEMMA ClassesFinite ==
  ASSUME NEW p \in Programs, NEW P
  PROVE  IsFiniteSet(ClassesBefore(p, P))
<1> DEFINE n == Len(p)
           I == 1 .. n
           f == [c \in I |-> p[c].sym]
           S == {f[c] : c \in I}
<1>1. n \in Nat
  BY ProgramShape
<1>2. IsFiniteSet(I)
  <2> HIDE DEF n
  <2> QED
    BY <1>1, FS_Interval
<1>3. IsFiniteSet(S)
  <2>1. f \in Surjection(I, S)
    BY DEF Surjection
  <2> HIDE DEF I, S, f
  <2> QED
    BY <1>2, <2>1, FS_Surjection
<1>4. ClassesBefore(p, P) \subseteq S
  BY DEF ClassesBefore, ClassDecls, DeclsOf
<1> HIDE DEF S
<1> QED
  BY <1>3, <1>4, FS_Subset

(* Different classes have different rows. *)
LEMMA RowInjective ==
  ASSUME NEW p \in Programs, NEW P,
         NEW j \in ClassesBefore(p, P), NEW k \in ClassesBefore(p, P),
         Row(p, j, P) = Row(p, k, P)
  PROVE  j = k
<1> DEFINE C == ClassesBefore(p, P)
           Below(x) == {i \in C : KlassRank[i] < KlassRank[x]}
<1>1. C \subseteq Klass /\ j \in Klass /\ k \in Klass /\ KlassRank \in [Klass -> Nat]
  BY RankAssumption DEF ClassesBefore
<1>2. ASSUME NEW x \in C, NEW y \in C, KlassRank[x] < KlassRank[y]
      PROVE  /\ Cardinality(Below(x)) \in Nat /\ Cardinality(Below(y)) \in Nat
             /\ Cardinality(Below(x)) < Cardinality(Below(y))
  <2>1. IsFiniteSet(Below(y)) /\ IsFiniteSet(Below(x))
    <3>1. IsFiniteSet(C) /\ Below(y) \subseteq C /\ Below(x) \subseteq C
      BY ClassesFinite
    <3> HIDE DEF C, Below
    <3> QED
      BY <3>1, FS_Subset
  <2>2. x \in Below(y) /\ Below(x) \subseteq Below(y) \ {x}
    BY <1>1, <1>2
  <2> HIDE DEF C, Below
  <2>3. /\ IsFiniteSet(Below(y) \ {x})
        /\ Cardinality(Below(y) \ {x}) = Cardinality(Below(y)) - 1
    BY <2>1, <2>2, FS_RemoveElement
  <2>4. Cardinality(Below(x)) <= Cardinality(Below(y) \ {x})
    BY <2>2, <2>3, FS_Subset
  <2>5. Cardinality(Below(x)) \in Nat /\ Cardinality(Below(y)) \in Nat
    BY <2>1, FS_CardinalityType
  <2> QED
    BY <2>3, <2>4, <2>5
<1>3. \A x : Row(p, x, P) = Cardinality(Below(x)) * RowLen + 0
  BY DEF Row
<1>4. \A a, b, r \in Nat : r # 0 /\ a < b => a * r + 0 # b * r + 0
  <2> SUFFICES ASSUME NEW a \in Nat, NEW b \in Nat, NEW r \in Nat, r # 0, a < b,
                      a * r + 0 = b * r + 0
               PROVE  FALSE
    OBVIOUS
  <2>1. PICK e \in Nat : b = a + (e + 1)
    <3>1. b - a - 1 \in Nat
      OBVIOUS
    <3>2. b = a + ((b - a - 1) + 1)
      OBVIOUS
    <3> QED
      BY <3>1, <3>2
  <2>2. b * r = a * r + (e + 1) * r
    BY <2>1
  <2>3. (e + 1) * r = e * r + r /\ e * r \in Nat /\ a * r \in Nat
    OBVIOUS
  <2> QED
    BY <2>2, <2>3
<1> HIDE DEF C, Below
<1>5. RowLen \in Nat /\ RowLen # 0
  BY RowAssumption
<1>6. ASSUME NEW x \in C, NEW y \in C, KlassRank[x] < KlassRank[y]
      PROVE  Row(p, x, P) # Row(p, y, P)
  BY <1>2, <1>3, <1>4, <1>5, <1>6
<1>7. ~(KlassRank[j] < KlassRank[k]) /\ ~(KlassRank[k] < KlassRank[j])
  BY <1>6 DEF C
<1>8. KlassRank[j] = KlassRank[k]
  BY <1>1, <1>7
<1> QED
  BY <1>1, <1>8, RankAssumption

(* A row stays where it is as long as no class sorts in before it. *)
LEMMA RowStable ==
  ASSUME NEW p \in Programs, NEW i \in 1 .. Len(p), NEW M \in Nat, i <= M,
         p[i].op \in Callables, NEW k \in ClassesBefore(p, i), Stable(p, k, i, M)
  PROVE  Row(p, k, i) = Row(p, k, M) /\ k \in ClassesBefore(p, M)
<1>1. \A x : \A c \in ClassDecls(p, x) : c \in Nat /\ p[c].op = "DEF_CLASS" /\ p[c].sym = x
  BY ProgramShape DEF ClassDecls, DeclsOf
<1>2. i \in Nat /\ p[i].op # "DEF_CLASS"
  BY DEF Callables
<1>3. \A x \in ClassesBefore(p, i) : x \in ClassesBefore(p, M)
  BY <1>1, <1>2 DEF ClassesBefore
<1>4. ASSUME NEW x \in ClassesBefore(p, M), KlassRank[x] < KlassRank[k]
      PROVE  x \in ClassesBefore(p, i)
  <2>1. PICK c \in ClassDecls(p, x) : c < M
    BY DEF ClassesBefore
  <2>2. x \in Klass
    BY DEF ClassesBefore
  <2>3. CASE c < i
    BY <2>2, <2>3 DEF ClassesBefore
  <2>4. CASE i < c
    <3>1. c \in DeclsOf(p, "DEF_CLASS") /\ p[c].sym = x
      BY DEF ClassDecls
    <3>2. \E b \in ClassDecls(p, x) : b < i
      BY <1>4, <2>1, <2>4, <3>1 DEF Stable
    <3> QED
      BY <2>2, <3>2 DEF ClassesBefore
  <2>5. c # i /\ c \in Nat
    BY <1>1, <1>2
  <2> QED
    BY <1>2, <2>3, <2>4, <2>5
<1>5. {x \in ClassesBefore(p, i) : KlassRank[x] < KlassRank[k]}
        = {x \in ClassesBefore(p, M) : KlassRank[x] < KlassRank[k]}
  BY <1>3, <1>4
<1> QED
  BY <1>3, <1>5 DEF Row

-----------------------------------------------------------------------------
(***************************************************************************)
(* Steps that leave the module alone.                                      *)
(***************************************************************************)
LEMMA ModuleStays ==
  ASSUME DInv, UNCHANGED <<program, llvm>>
  PROVE  NamesAreUnique' /\ CallsReach' /\ StoresReach'
<1>1. NamesAreUnique'
  BY DEF DInv, NamesAreUnique
<1>2. CallsReach'
  BY DEF DInv, CallsReach, Code
<1>3. StoresReach'
  BY DEF DInv, StoresReach
<1> QED
  BY <1>1, <1>2, <1>3

(* The same functions, and the same one under construction. *)
LEMMA StoresStay ==
  ASSUME StoresComplete, UNCHANGED <<program, llvm, cur>>
  PROVE  StoresComplete'
<1>1. Real' = Real
  BY DEF Real, Stubs
<1> QED
  BY <1>1 DEF StoresComplete

LEMMA RunStays ==
  ASSUME DInv, UNCHANGED <<program, llvm, stack, table>>
  PROVE  TableIsMains' /\ SlotsDispatch'
<1>1. MainPos' = MainPos
  BY DEF MainPos
<1>2. TableIsMains'
  BY <1>1 DEF DInv, TableIsMains, Slots
<1>3. \A i : Pending(stack[i])' = Pending(stack[i])
  BY DEF Pending, Code
<1>4. SlotsDispatch'
  BY <1>1, <1>3 DEF DInv, SlotsDispatch
<1> QED
  BY <1>2, <1>4

(* The compiler, while it is not writing code. *)
LEMMA QuietStep ==
  ASSUME DInv, UNCHANGED <<program, llvm, cur, stack, table>>, stack = <<>>, MapsFollowText'
  PROVE  DInv'
<1>1. StoresComplete'
  BY StoresStay DEF DInv
<1>2. EmptySlots'
  BY DEF EmptySlots
<1> QED
  BY <1>1, <1>2, ModuleStays, RunStays DEF DInv

LEMMA ParseKeeps ==
  ASSUME IInv, DInv, Parse
  PROVE  DInv'
<1>1. /\ phase = "parse" /\ UNCHANGED <<program, back, lli>>
  BY DEF Parse
<1>2. /\ UNCHANGED <<klasses, method_map, vars, llvm, cur, stack, table>>
      /\ stack = <<>> /\ cur = 0
      /\ klasses = {} /\ llvm = <<>> /\ \A k \in Klass : method_map[k] = 0
  BY <1>1 DEF back, lli, IInv, LiveFrames, Reading, DInv, MapsFollowText
<1>3. phase' = "codegen" => pos' = 1
  BY <1>1 DEF Parse, make_ast_def_var, make_ast_call_func, make_ast_call_method,
              make_ast_def_class, make_ast_def_func, make_ast_def_method,
              Reduce, NextNode, Stop
<1>4. program \in Programs
  BY DEF IInv
<1>5. ClassesBefore(program, 1) = {}
  <2>1. \A k : \A c \in ClassDecls(program, k) : ~(c < 1)
    BY <1>4, ProgramShape DEF ClassDecls, DeclsOf
  <2> QED
    BY <2>1 DEF ClassesBefore
<1>6. \A k : Left(program, k, 1) = {}
  BY <1>4, ProgramShape DEF Left, MethodDecls, DeclsOf
<1>7. MapsFollowText'
  <2>1. /\ klasses' = {} /\ llvm' = <<>> /\ \A k \in Klass : method_map'[k] = 0
        /\ program' = program /\ cur' = 0
    BY <1>1, <1>2
  <2>2. phase' = "codegen" => Reached' = 1
    BY <1>3, <2>1 DEF Reached
  <2>3. \A f \in 1 .. Len(llvm') : FALSE
    BY <2>1
  <2> QED
    BY <2>1, <2>2, <2>3, <1>5, <1>6 DEF MapsFollowText
<1> QED
  BY <1>1, <1>2, <1>7, QuietStep

(* Giving up. *)
LEMMA StopKeeps ==
  ASSUME IInv, DInv, phase = "codegen", phase' \notin {"parse", "codegen"},
         UNCHANGED <<program, llvm, cur, lli>>
  PROVE  DInv'
<1>1. UNCHANGED <<stack, table>> /\ stack = <<>>
  BY DEF lli, IInv, LiveFrames
<1>2. MapsFollowText'
  BY DEF MapsFollowText
<1> QED
  BY <1>1, <1>2, QuietStep

LEMMA DefClassKeeps ==
  ASSUME IInv, DInv, exec_def_class_codegen
  PROVE  DInv'
<1>1. /\ phase = "codegen" /\ cur = 0 /\ pos <= Len(program)
      /\ program[pos].op = "DEF_CLASS"
      /\ UNCHANGED <<program, work, front, lli>>
  BY DEF exec_def_class_codegen
<1>2. CASE phase' \in {"assert", "crash"} /\ UNCHANGED back
  BY <1>1, <1>2, StopKeeps DEF back
<1>3. CASE /\ klasses' = klasses \cup {program[pos].sym}
           /\ method_map' = [method_map EXCEPT ![program[pos].sym] = 0]
           /\ pos' = pos + 1
           /\ UNCHANGED <<phase, vars, llvm, cur>>
  <2>1. /\ program \in Programs /\ pos \in 1 .. Len(program) /\ Len(program) \in Nat
        /\ program[pos].sym \in Klass /\ method_map \in [Klass -> 0 .. Len(llvm)]
        /\ stack = <<>> /\ UNCHANGED <<stack, table>> /\ llvm \in Seq(Functions)
    BY <1>1, ProgramShape, DeclarationShape DEF IInv, TypeOK, LiveFrames, lli
  <2>2. /\ klasses = ClassesBefore(program, pos)
        /\ \A k \in Klass : IF method_map[k] = 0 THEN Left(program, k, pos) = {}
                            ELSE llvm[method_map[k]].own \in Left(program, k, pos)
        /\ \A f \in 1 .. Len(llvm) : llvm[f].own <= pos
    BY <1>1 DEF DInv, MapsFollowText, Reached
  <2>3. klasses' = ClassesBefore(program, pos + 1)
    <3>1. ClassesBefore(program, pos + 1)
            = ClassesBefore(program, pos)
                \cup (IF program[pos].op = "DEF_CLASS" THEN {program[pos].sym} ELSE {})
      BY <2>1, ClassesStep
    <3> QED
      BY <1>1, <1>3, <2>2, <3>1
  <2>4. ASSUME NEW k \in Klass
        PROVE  IF method_map'[k] = 0 THEN Left(program, k, pos + 1) = {}
               ELSE llvm[method_map'[k]].own \in Left(program, k, pos + 1)
    <3>1. Left(program, k, pos + 1) =
            IF pos \in MethodDecls(program, k) THEN {pos}
            ELSE IF pos \in ClassDecls(program, k) THEN {} ELSE Left(program, k, pos)
      BY <2>1, LeftStep
    <3>2. pos \notin MethodDecls(program, k)
      BY <1>1 DEF MethodDecls, DeclsOf
    <3>3. pos \in ClassDecls(program, k) <=> program[pos].sym = k
      BY <1>1, <2>1 DEF ClassDecls, DeclsOf
    <3>4. method_map'[k] = IF k = program[pos].sym THEN 0 ELSE method_map[k]
      BY <1>3, <2>1
    <3> QED
      BY <2>2, <3>1, <3>2, <3>3, <3>4
  <2>5. \A f \in 1 .. Len(llvm) : llvm[f].own <= pos + 1
    <3>1. \A f \in 1 .. Len(llvm) : llvm[f].own \in Nat
      BY <2>1, FunctionShape
    <3> QED
      BY <2>1, <2>2, <3>1
  <2>6. phase' = "codegen" /\ cur' = 0 /\ program' = program /\ llvm' = llvm /\ pos' = pos + 1
    BY <1>1, <1>3
  <2>7. Reached' = pos + 1
    BY <2>6 DEF Reached
  <2>8. MapsFollowText'
    BY <2>3, <2>4, <2>5, <2>6, <2>7 DEF MapsFollowText
  <2> QED
    BY <2>1, <2>6, <1>3, <2>8, QuietStep
<1> QED
  BY <1>2, <1>3 DEF exec_def_class_codegen, Stop

LEMMA WriteKeeps ==
  ASSUME IInv, DInv, WriteBitcodeToFile
  PROVE  DInv'
BY StopKeeps DEF WriteBitcodeToFile, back

-----------------------------------------------------------------------------
(***************************************************************************)
(* Steps that write code.                                                  *)
(***************************************************************************)
(* Before anything runs, only the facts about the module are at stake. *)
LEMMA BeforeRun ==
  ASSUME IInv, DInv, phase = "codegen", UNCHANGED <<program, lli>>,
         NamesAreUnique', CallsReach', StoresReach', StoresComplete', MapsFollowText'
  PROVE  DInv'
<1>1. stack = <<>> /\ UNCHANGED <<stack, table>> /\ \A s \in Slots : table[s] = 0
  BY DEF lli, IInv, LiveFrames, DInv, TableIsMains
<1>2. TableIsMains' /\ EmptySlots'
  BY <1>1 DEF TableIsMains, EmptySlots, Slots
<1>3. SlotsDispatch'
  BY <1>1 DEF SlotsDispatch
<1> QED
  BY <1>2, <1>3 DEF DInv

(* The function being compiled. *)
LEMMA CurrentFunction ==
  ASSUME IInv, DInv, phase = "codegen", cur # 0
  PROVE  /\ cur \in 1 .. Len(llvm) /\ cur \in Real /\ llvm[cur].own = pos
         /\ pos \in 1 .. Len(program) /\ program[pos].op \in Callables
         /\ llvm[cur].sym = program[pos].sym
         /\ program \in Programs
         /\ klasses = ClassesBefore(program, pos)
         /\ \A f \in 1 .. Len(llvm) : llvm[f].own <= pos
         /\ \A k \in Klass : getMethodArrayIndex(k) = Row(program, k, pos)
<1>1. /\ cur \in Real /\ llvm[cur].own = pos /\ program \in Programs
      /\ cur \in 1 .. Len(llvm)
  BY DEF IInv, Translating, Real
<1>2. /\ pos \in 1 .. Len(program) /\ program[pos].op \in Callables
      /\ llvm[cur].sym = program[pos].sym
  BY <1>1 DEF IInv, Functional
<1>3. /\ klasses = ClassesBefore(program, pos + 1)
      /\ \A f \in 1 .. Len(llvm) : llvm[f].own <= pos
  BY DEF DInv, MapsFollowText, Reached
<1>4. klasses = ClassesBefore(program, pos)
  BY <1>1, <1>2, <1>3, CallableKeeps
<1>5. \A k \in Klass : getMethodArrayIndex(k) = Row(program, k, pos)
  BY <1>4 DEF getMethodArrayIndex, getMethodId, getDefId, Row
<1> QED
  BY <1>1, <1>2, <1>3, <1>4, <1>5

(* A statement that appends one instruction. *)
LEMMA StatementKeeps ==
  ASSUME IInv, DInv, phase = "codegen", cur # 0,
         NEW instr \in Instrs, Grown(llvm', instr), NamesAreUnique',
         instr.op = "call" => instr.fn \in 1 .. Len(llvm') /\ llvm'[instr.fn].named,
         instr.op = "slot" => /\ instr.klass \in klasses
                              /\ instr.slot = getMethodArrayIndex(instr.klass),
         UNCHANGED <<program, phase, pos, klasses, method_map, cur, lli>>
  PROVE  DInv'
<1>1. /\ cur \in 1 .. Len(llvm) /\ llvm[cur].own = pos /\ klasses = ClassesBefore(program, pos)
      /\ klasses \subseteq Klass /\ pos \in Nat
      /\ \A f \in 1 .. Len(llvm) : llvm[f].own <= pos
      /\ \A k \in Klass : getMethodArrayIndex(k) = Row(program, k, pos)
  BY CurrentFunction DEF IInv, TypeOK
<1>2. /\ Real' = Real
      /\ Len(llvm) \in Nat /\ Len(llvm') \in Nat /\ llvm \in Seq(Functions)
      /\ \A f \in 1 .. Len(llvm) : f \in 1 .. Len(llvm')
      /\ \A f \in 1 .. Len(llvm') : \A i \in 1 .. Len(Code(f)') :
           /\ f \in 1 .. Len(llvm)
           /\ \/ i \in 1 .. Len(Code(f)) /\ Code(f)'[i] = Code(f)[i]
              \/ f = cur /\ i = Done /\ Code(f)'[i] = instr
  BY GrownFunctions DEF IInv, TypeOK
<1>3. /\ \A f \in 1 .. Len(llvm) :
           /\ llvm'[f].sym = llvm[f].sym /\ llvm'[f].named = llvm[f].named
           /\ llvm'[f].own = llvm[f].own /\ llvm'[f].stores = llvm[f].stores
      /\ \A f \in 1 .. Len(llvm') :
           f \in 1 .. Len(llvm) \/ (llvm'[f].own = 0 /\ llvm'[f].stores = {})
  <2>1. \A f \in 1 .. Len(llvm') : f \in 1 .. Len(llvm) \/ f \in Len(llvm) + 1 .. Len(llvm')
    BY <1>2
  <2> QED
    BY <2>1 DEF Grown
<1>4. \A f \in 1 .. Len(llvm') : llvm'[f].own <= pos
  BY <1>1, <1>3
<1>5. CallsReach'
  <2> SUFFICES ASSUME NEW f \in 1 .. Len(llvm'), NEW i \in 1 .. Len(Code(f)')
               PROVE  LET in == Code(f)'[i] IN
                      /\ in.op = "call" => /\ in.fn \in 1 .. Len(llvm')
                                           /\ llvm'[in.fn].named
                                           /\ llvm'[in.fn].own <= llvm'[f].own
                      /\ in.op = "slot" => /\ in.klass \in ClassesBefore(program, llvm'[f].own)
                                           /\ in.slot = Row(program, in.klass, llvm'[f].own)
    BY DEF CallsReach
  <2>1. f \in 1 .. Len(llvm) /\ llvm'[f].own = llvm[f].own
    BY <1>2, <1>3
  <2>2. CASE i \in 1 .. Len(Code(f)) /\ Code(f)'[i] = Code(f)[i]
    <3> DEFINE in == Code(f)[i]
    <3>1. /\ in.op = "call" => /\ in.fn \in 1 .. Len(llvm)
                               /\ llvm[in.fn].named /\ llvm[in.fn].own <= llvm[f].own
          /\ in.op = "slot" => /\ in.klass \in ClassesBefore(program, llvm[f].own)
                               /\ in.slot = Row(program, in.klass, llvm[f].own)
      BY <2>1, <2>2 DEF DInv, CallsReach
    <3> HIDE DEF in
    <3>2. Code(f)'[i] = in
      BY <2>2 DEF in
    <3> QED
      BY <2>1, <3>1, <3>2, <1>2, <1>3
  <2>3. CASE f = cur /\ Code(f)'[i] = instr
    <3>1. llvm'[f].own = pos
      BY <1>1, <2>1, <2>3
    <3>2. instr.op = "call" => llvm'[instr.fn].own <= pos
      BY <1>4
    <3>3. instr.op = "slot" => /\ instr.klass \in ClassesBefore(program, pos)
                               /\ instr.slot = Row(program, instr.klass, pos)
      BY <1>1
    <3> QED
      BY <2>3, <3>1, <3>2, <3>3
  <2> QED
    BY <1>2, <2>2, <2>3
<1>6. StoresReach'
  <2> SUFFICES ASSUME NEW f \in 1 .. Len(llvm')
               PROVE  /\ llvm'[f].stores # {} =>
                           llvm'[f].sym = Main /\ program[llvm'[f].own].op = "DEF_FUNC"
                      /\ \A st \in llvm'[f].stores :
                           \E k \in ClassesBefore(program, llvm'[f].own) :
                             /\ st[1] = Row(program, k, llvm'[f].own)
                             /\ llvm'[st[2]].own \in Left(program, k, llvm'[f].own)
    BY DEF StoresReach
  <2>1. CASE f \in 1 .. Len(llvm)
    <3>1. \A st \in llvm[f].stores : llvm'[st[2]].own = llvm[st[2]].own
      BY <1>3, <2>1 DEF IInv, Functional, Real
    <3>2. /\ llvm[f].stores # {} => llvm[f].sym = Main /\ program[llvm[f].own].op = "DEF_FUNC"
          /\ \A st \in llvm[f].stores :
               \E k \in ClassesBefore(program, llvm[f].own) :
                 /\ st[1] = Row(program, k, llvm[f].own)
                 /\ llvm[st[2]].own \in Left(program, k, llvm[f].own)
      BY <2>1 DEF DInv, StoresReach
    <3>3. llvm'[f].stores = llvm[f].stores /\ llvm'[f].own = llvm[f].own /\ llvm'[f].sym = llvm[f].sym
      BY <1>3, <2>1
    <3> QED
      BY <3>1, <3>2, <3>3
  <2>2. CASE llvm'[f].stores = {}
    BY <2>2
  <2> QED
    BY <1>3, <2>1, <2>2
<1>7. StoresComplete'
  <2>1. \A f \in Real : /\ llvm'[f].own = llvm[f].own /\ llvm'[f].sym = llvm[f].sym
                        /\ llvm'[f].stores = llvm[f].stores
    BY <1>3 DEF Real
  <2>2. ASSUME NEW f \in Real', f # cur', llvm'[f].sym = Main,
               program'[llvm'[f].own].op = "DEF_FUNC",
               NEW k \in ClassesBefore(program', llvm'[f].own),
               Left(program', k, llvm'[f].own) # {}
        PROVE  \E st \in llvm'[f].stores : st[1] = Row(program', k, llvm'[f].own)
    <3> DEFINE o == llvm[f].own
    <3>1. f \in Real /\ llvm'[f].own = o /\ llvm'[f].stores = llvm[f].stores
      BY <1>2, <2>1
    <3>2. f # cur /\ llvm[f].sym = Main /\ program[o].op = "DEF_FUNC"
      BY <2>1, <2>2, <3>1
    <3>3. k \in ClassesBefore(program, o) /\ Left(program, k, o) # {}
      BY <2>2, <3>1
    <3>4. \E st \in llvm[f].stores : st[1] = Row(program, k, o)
      BY <3>1, <3>2, <3>3 DEF DInv, StoresComplete
    <3> QED
      BY <3>1, <3>4
  <2> QED
    BY <2>2 DEF StoresComplete
<1>8. MapsFollowText'
  <2>1. Reached' = Reached
    BY DEF Reached
  <2>2. \A k \in Klass : method_map[k] # 0 => llvm'[method_map[k]].own = llvm[method_map[k]].own
    BY <1>3 DEF IInv, Functional, Real
  <2> QED
    BY <1>4, <2>1, <2>2 DEF DInv, MapsFollowText
<1> QED
  BY <1>5, <1>6, <1>7, <1>8, BeforeRun

(* getOrInsertFunction gives a name only to the first of that name. *)
LEMMA StubUnique ==
  ASSUME TypeOK, NamesAreUnique, NEW n \in Name
  PROVE  LET m == getOrInsertFunction(n) IN
         \A f, g \in 1 .. Len(m) : m[f].named /\ m[g].named /\ m[f].sym = m[g].sym => f = g
<1> DEFINE m == getOrInsertFunction(n)
           stub == [sym |-> n, named |-> TRUE, own |-> 0, decl |-> 0,
                    code |-> <<>>, stores |-> {}]
<1>1. llvm \in Seq(Functions) /\ stub \in Functions
  BY DEF TypeOK, Functions
<1>2. CASE Named(n) # {}
  BY <1>2 DEF getOrInsertFunction, NamesAreUnique
<1>3. CASE Named(n) = {}
  <2>1. m = Append(llvm, stub)
    BY <1>3 DEF getOrInsertFunction
  <2>2. stub.sym = n
    OBVIOUS
  <2>3. \A f \in 1 .. Len(llvm) : ~(llvm[f].named /\ llvm[f].sym = n)
    BY <1>3 DEF Named
  <2> HIDE DEF m, stub
  <2>4. /\ \A f \in 1 .. Len(m) : f \in 1 .. Len(llvm) \/ f = Len(llvm) + 1
        /\ \A f \in 1 .. Len(llvm) : m[f] = llvm[f]
        /\ m[Len(llvm) + 1] = stub
    BY <1>1, <2>1
  <2>5. \A f, g \in 1 .. Len(m) : m[f].named /\ m[g].named /\ m[f].sym = m[g].sym => f = g
    BY <2>2, <2>3, <2>4 DEF NamesAreUnique
  <2> QED
    BY <2>5 DEF m
<1> QED
  BY <1>2, <1>3

LEMMA EmitKeepsNames ==
  ASSUME NEW module \in Seq(Functions), NEW instr \in Instrs, cur \in 1 .. Len(module)
  PROVE  \A f \in 1 .. Len(module) :
           /\ Emit(module, instr)[f].sym = module[f].sym
           /\ Emit(module, instr)[f].named = module[f].named
<1> DEFINE new == Emit(module, instr)
           fn == [module[cur] EXCEPT !.code = Append(module[cur].code, instr)]
<1>1. module[cur] \in Functions
  OBVIOUS
<1>2. Append(module[cur].code, instr) \in Seq(Instrs)
  BY <1>1, FunctionShape
<1>3. fn \in Functions /\ fn.sym = module[cur].sym /\ fn.named = module[cur].named
  BY <1>1, <1>2, WithCode
<1>4. new = [module EXCEPT ![cur] = fn]
  BY DEF Emit
<1>5. \A f \in 1 .. Len(module) : new[f] = IF f = cur THEN fn ELSE module[f]
  <2> HIDE DEF fn, new
  <2> QED
    BY <1>3, <1>4, ExceptSeq
<1> HIDE DEF fn, new
<1>6. \A f \in 1 .. Len(module) : new[f].sym = module[f].sym /\ new[f].named = module[f].named
  BY <1>3, <1>5
<1> QED
  BY <1>6 DEF new

LEMMA DefVarKeeps ==
  ASSUME IInv, DInv, exec_def_var_codegen
  PROVE  DInv'
<1> DEFINE n == Head(work)
           instr == [op |-> "alloc", var |-> n.sym, klass |-> n.klass]
<1>1. /\ phase = "codegen" /\ cur # 0 /\ work # <<>> /\ n.op = "DEF_VAR"
      /\ UNCHANGED <<program, pos, klasses, method_map, cur, front, lli>>
  BY DEF exec_def_var_codegen, Compiling
<1>2. n \in VarNodes /\ cur \in 1 .. Len(llvm)
  BY <1>1, CodegenHead, StatementShape
<1>3. CASE phase' = "assert" /\ UNCHANGED <<work, vars, llvm>>
  BY <1>1, <1>3, StopKeeps
<1>4. CASE /\ llvm' = Emit(llvm, instr)
           /\ UNCHANGED phase
  <2>1. instr \in Instrs /\ instr.op = "alloc"
    BY <1>2, VarNodeShape DEF Instrs
  <2>2. TypeOK /\ llvm \in Seq(Functions) /\ Len(llvm) \in Nat /\ NamesAreUnique
    BY DEF IInv, TypeOK, DInv
  <2> HIDE DEF instr
  <2>3. Grown(llvm', instr) /\ Len(llvm') = Len(llvm)
    <3>1. Len(llvm) + 1 .. Len(llvm) = {}
      BY <2>2
    <3> QED
      BY <1>2, <1>4, <2>1, <2>2, <3>1, EmitGrows
  <2>4. NamesAreUnique'
    <3>1. \A f \in 1 .. Len(llvm) : llvm'[f].sym = llvm[f].sym /\ llvm'[f].named = llvm[f].named
      BY <1>2, <1>4, <2>1, <2>2, EmitKeepsNames
    <3> QED
      BY <2>2, <2>3, <3>1 DEF NamesAreUnique
  <2> QED
    BY <1>1, <1>4, <2>1, <2>3, <2>4, StatementKeeps
<1> QED
  BY <1>3, <1>4 DEF exec_def_var_codegen, Stop

(* The module after a call statement: perhaps a stub, and the instruction. *)
LEMMA StubThenEmit ==
  ASSUME IInv, DInv, cur \in 1 .. Len(llvm), NEW n \in Name, NEW instr \in Instrs,
         NEW module, module = getOrInsertFunction(n),
         llvm' = Emit(module, instr)
  PROVE  /\ Grown(llvm', instr)
         /\ NamesAreUnique'
         /\ FunctionNamed(module, n) \in 1 .. Len(llvm')
         /\ llvm'[FunctionNamed(module, n)].named
<1>1. TypeOK /\ NamesAreUnique /\ Len(llvm) \in Nat
  BY DEF IInv, DInv, TypeOK
<1>2. /\ module \in Seq(Functions)
      /\ Len(llvm) <= Len(module)
      /\ \A f \in 1 .. Len(llvm) : module[f] = llvm[f]
      /\ \A f \in Len(llvm) + 1 .. Len(module) :
           module[f].own = 0 /\ module[f].code = <<>> /\ module[f].stores = {}
      /\ FunctionNamed(module, n) \in 1 .. Len(module)
      /\ module[FunctionNamed(module, n)].named
  BY <1>1, StubShape
<1>3. \A f, g \in 1 .. Len(module) :
        module[f].named /\ module[g].named /\ module[f].sym = module[g].sym => f = g
  BY <1>1, StubUnique
<1>4. Grown(llvm', instr) /\ Len(llvm') = Len(module)
  BY <1>1, <1>2, EmitGrows
<1>5. cur \in 1 .. Len(module)
  BY <1>1, <1>2
<1>6. \A f \in 1 .. Len(module) : llvm'[f].sym = module[f].sym /\ llvm'[f].named = module[f].named
  BY <1>2, <1>5, EmitKeepsNames
<1>7. NamesAreUnique'
  BY <1>3, <1>4, <1>6 DEF NamesAreUnique
<1> QED
  BY <1>2, <1>4, <1>6, <1>7

LEMMA CallFuncKeeps ==
  ASSUME IInv, DInv, exec_call_func_codegen
  PROVE  DInv'
<1> DEFINE n == Head(work)
           module == getOrInsertFunction(n.sym)
           instr == [op |-> "call", sym |-> n.sym, arg |-> n.arg,
                     fn |-> FunctionNamed(module, n.sym)]
<1>1. /\ phase = "codegen" /\ cur # 0 /\ work # <<>> /\ n.op = "CALL_FUNC"
      /\ UNCHANGED <<program, pos, klasses, method_map, vars, cur, front, lli>>
  BY DEF exec_call_func_codegen, Compiling
<1>2. /\ cur \in 1 .. Len(llvm)
      /\ n.sym \in Name /\ n.arg \in Var \cup {None}
  BY <1>1, CodegenHead, StatementShape
<1>3. CASE phase' \in {"crash", "undefined"} /\ UNCHANGED <<work, llvm>>
  BY <1>1, <1>3, StopKeeps
<1>4. CASE llvm' = Emit(module, instr) /\ UNCHANGED phase
  <2>1. TypeOK
    BY DEF IInv
  <2>2. module \in Seq(Functions) /\ FunctionNamed(module, n.sym) \in 1 .. Len(module)
    BY <1>2, <2>1, StubShape
  <2>3. instr \in Instrs /\ instr.op = "call" /\ instr.fn = FunctionNamed(module, n.sym)
    <3>1. FunctionNamed(module, n.sym) \in Nat \ {0}
      BY <2>2
    <3> HIDE DEF module
    <3> QED
      BY <1>2, <3>1 DEF Instrs
  <2>4. module = getOrInsertFunction(n.sym)
    OBVIOUS
  <2> HIDE DEF module, instr
  <2>5. /\ Grown(llvm', instr) /\ NamesAreUnique'
        /\ instr.fn \in 1 .. Len(llvm') /\ llvm'[instr.fn].named
    BY <1>2, <1>4, <2>3, <2>4, StubThenEmit
  <2> QED
    BY <1>1, <1>4, <2>3, <2>5, StatementKeeps
<1> QED
  BY <1>3, <1>4 DEF exec_call_func_codegen, Stop

LEMMA CallMethodKeeps ==
  ASSUME IInv, DInv, exec_call_method_codegen
  PROVE  DInv'
<1> DEFINE n == Head(work)
           k == vars[n.reciever].klass
           module == getOrInsertFunction(n.sym)
           crash == LastRegistered(n.sym) = 0 \/ Unknown(n.reciever) \/ k = Prim
           bad == Foreign(n.reciever) \/ getMethodArrayIndex(k) \notin Slots
           instr == [op |-> "slot", sym |-> n.sym, reciever |-> n.reciever,
                     klass |-> k, slot |-> getMethodArrayIndex(k)]
<1>1. /\ phase = "codegen" /\ cur # 0 /\ work # <<>> /\ n.op = "CALL_METHOD"
      /\ UNCHANGED <<program, pos, klasses, method_map, vars, cur, front, lli>>
  BY DEF exec_call_method_codegen, Compiling
<1>2. /\ cur \in 1 .. Len(llvm) /\ n.reciever \in Var
  BY <1>1, CodegenHead, StatementShape
<1>3. CASE phase' \in {"crash", "undefined"} /\ UNCHANGED <<work, llvm>>
  BY <1>1, <1>3, StopKeeps
<1>4. CASE ~crash /\ ~bad /\ llvm' = Emit(module, instr) /\ UNCHANGED phase
  <2>1. n.sym \in Name
    BY <1>4, LastRegisteredIs
  <2>2. k \in klasses /\ k \in Klass /\ getMethodArrayIndex(k) \in Slots
    BY <1>1, <1>2, <1>4, NotMine DEF IInv, TypeOK
  <2>3. instr \in Instrs /\ instr.op = "slot"
        /\ instr.klass = k /\ instr.slot = getMethodArrayIndex(k)
    BY <1>2, <2>1, <2>2 DEF Instrs
  <2>4. module = getOrInsertFunction(n.sym)
    OBVIOUS
  <2> HIDE DEF module, instr
  <2>5. Grown(llvm', instr) /\ NamesAreUnique'
    BY <1>2, <1>4, <2>1, <2>3, <2>4, StubThenEmit
  <2>6. instr.op # "call"
    BY <2>3
  <2> HIDE DEF k
  <2> QED
    BY <1>1, <1>4, <2>2, <2>3, <2>5, <2>6, StatementKeeps
<1> QED
  BY <1>3, <1>4 DEF exec_call_method_codegen, Stop, MethodStub

(* A function is begun. *)
LEMMA BeginKeeps ==
  ASSUME IInv, DInv, phase = "codegen", cur = 0, pos \in 1 .. Len(program),
         program[pos].op \in Callables,
         NEW decl, decl = LastRegistered(program[pos].sym),
         NEW fn, fn = Len(llvm) + 1,
         NEW map, BeginFunction(program[pos], decl, map),
         method_map' = IF program[pos].op = "DEF_METHOD"
                       THEN addMethod(program[pos].reciever, fn)
                       ELSE method_map,
         UNCHANGED <<program, front, lli>>
  PROVE  DInv'
<1> DEFINE d == program[pos]
           new == NewFunction(d.sym, decl)
<1>1. /\ program \in Programs /\ Len(program) \in Nat /\ pos \in Nat
      /\ d.sym \in Name
      /\ d.op = "DEF_METHOD" => d.reciever \in Klass
      /\ d.op = "DEF_FUNC" \/ d.op = "DEF_METHOD"
  BY ProgramShape, CallableShape DEF IInv, Callables
<1>2. /\ llvm \in Seq(Functions) /\ Len(llvm) \in Nat
      /\ method_map \in [Klass -> 0 .. Len(llvm)]
  BY DEF IInv, TypeOK
<1>3. decl \in Nat
  <2>1. pos \in CallableDecls(program, d.sym)
    BY DEF CallableDecls
  <2>2. decl # 0
    BY <2>1, LastRegisteredNone
  <2>3. decl \in CallableDecls(program, d.sym)
    BY <2>2, LastRegisteredIs
  <2> QED
    BY <1>1, <2>3 DEF CallableDecls
<1>4. /\ new \in Functions
      /\ new.sym = d.sym /\ new.own = pos /\ new.named = (Named(d.sym) = {})
      /\ new.code = <<>> /\ new.stores = {}
  BY <1>1, <1>3 DEF NewFunction, Functions
<1>5. /\ llvm' = Append(llvm, new) /\ cur' = fn
      /\ UNCHANGED <<phase, pos, klasses, program, stack, table>>
  BY DEF BeginFunction, front, lli
<1>6. /\ \A f \in 1 .. Len(llvm) : llvm'[f] = llvm[f] /\ f # fn
      /\ llvm'[fn] = new
      /\ \A f \in 1 .. Len(llvm') : f \in 1 .. Len(llvm) \/ f = fn
      /\ \A f \in 1 .. Len(llvm) : f \in 1 .. Len(llvm')
      /\ fn \in 1 .. Len(llvm') /\ fn # 0
  <2> HIDE DEF new
  <2> QED
    BY <1>2, <1>4, <1>5
<1> HIDE DEF new
<1>7. NamesAreUnique'
  <2>1. \A f \in 1 .. Len(llvm) : new.named => ~(llvm[f].named /\ llvm[f].sym = new.sym)
    BY <1>4 DEF Named
  <2> QED
    BY <1>6, <2>1 DEF DInv, NamesAreUnique
<1>8. CallsReach'
  <2> SUFFICES ASSUME NEW f \in 1 .. Len(llvm'), NEW i \in 1 .. Len(Code(f)')
               PROVE  LET in == Code(f)'[i] IN
                      /\ in.op = "call" => /\ in.fn \in 1 .. Len(llvm')
                                           /\ llvm'[in.fn].named
                                           /\ llvm'[in.fn].own <= llvm'[f].own
                      /\ in.op = "slot" => /\ in.klass \in ClassesBefore(program, llvm'[f].own)
                                           /\ in.slot = Row(program, in.klass, llvm'[f].own)
    BY <1>5 DEF CallsReach
  <2>1. f \in 1 .. Len(llvm)
    BY <1>4, <1>6 DEF Code
  <2>2. Code(f)' = Code(f) /\ llvm'[f] = llvm[f]
    BY <1>6, <2>1 DEF Code
  <2> DEFINE in == Code(f)[i]
  <2>3. /\ in.op = "call" => /\ in.fn \in 1 .. Len(llvm)
                             /\ llvm[in.fn].named /\ llvm[in.fn].own <= llvm[f].own
        /\ in.op = "slot" => /\ in.klass \in ClassesBefore(program, llvm[f].own)
                             /\ in.slot = Row(program, in.klass, llvm[f].own)
    BY <2>1, <2>2 DEF DInv, CallsReach
  <2> HIDE DEF in
  <2>4. Code(f)'[i] = in
    BY <2>2 DEF in
  <2> QED
    BY <1>6, <2>2, <2>3, <2>4
<1>9. StoresReach'
  <2> SUFFICES ASSUME NEW f \in 1 .. Len(llvm')
               PROVE  /\ llvm'[f].stores # {} =>
                           llvm'[f].sym = Main /\ program'[llvm'[f].own].op = "DEF_FUNC"
                      /\ \A st \in llvm'[f].stores :
                           \E k \in ClassesBefore(program', llvm'[f].own) :
                             /\ st[1] = Row(program', k, llvm'[f].own)
                             /\ llvm'[st[2]].own \in Left(program', k, llvm'[f].own)
    BY DEF StoresReach
  <2>1. CASE f \in 1 .. Len(llvm)
    <3>1. \A st \in llvm[f].stores : llvm'[st[2]] = llvm[st[2]]
      BY <1>6, <2>1 DEF IInv, Functional, Real
    <3>2. /\ llvm[f].stores # {} => llvm[f].sym = Main /\ program[llvm[f].own].op = "DEF_FUNC"
          /\ \A st \in llvm[f].stores :
               \E k \in ClassesBefore(program, llvm[f].own) :
                 /\ st[1] = Row(program, k, llvm[f].own)
                 /\ llvm[st[2]].own \in Left(program, k, llvm[f].own)
      BY <2>1 DEF DInv, StoresReach
    <3>3. llvm'[f] = llvm[f]
      BY <1>6, <2>1
    <3> QED
      BY <1>5, <3>1, <3>2, <3>3
  <2>2. CASE f = fn
    BY <1>4, <1>6, <2>2
  <2> QED
    BY <1>6, <2>1, <2>2
<1>10. StoresComplete'
  <2>1. ASSUME NEW f \in Real', f # cur', llvm'[f].sym = Main,
               program'[llvm'[f].own].op = "DEF_FUNC",
               NEW k \in ClassesBefore(program', llvm'[f].own),
               Left(program', k, llvm'[f].own) # {}
        PROVE  \E st \in llvm'[f].stores : st[1] = Row(program', k, llvm'[f].own)
    <3> DEFINE o == llvm[f].own
    <3>1. f \in 1 .. Len(llvm') /\ llvm'[f].own # 0
      BY <2>1 DEF Real, Stubs
    <3>2. f \in 1 .. Len(llvm) /\ llvm'[f] = llvm[f] /\ f # 0
      BY <1>2, <1>5, <1>6, <2>1, <3>1
    <3>3. f \in Real
      BY <3>1, <3>2 DEF Real, Stubs
    <3>4. f # cur /\ llvm[f].sym = Main /\ program[o].op = "DEF_FUNC"
      BY <1>5, <2>1, <3>2
    <3>5. k \in ClassesBefore(program, o) /\ Left(program, k, o) # {}
      BY <1>5, <2>1, <3>2
    <3>6. \E st \in llvm[f].stores : st[1] = Row(program, k, o)
      BY <3>3, <3>4, <3>5 DEF DInv, StoresComplete
    <3> QED
      BY <1>5, <3>2, <3>6
  <2> QED
    BY <2>1 DEF StoresComplete
<1>11. MapsFollowText'
  <2>1. Reached = pos /\ Reached' = pos + 1
    BY <1>5, <1>6 DEF Reached
  <2>2. /\ klasses = ClassesBefore(program, pos)
        /\ \A k \in Klass : IF method_map[k] = 0 THEN Left(program, k, pos) = {}
                            ELSE llvm[method_map[k]].own \in Left(program, k, pos)
        /\ \A f \in 1 .. Len(llvm) : llvm[f].own <= pos
    BY <2>1 DEF DInv, MapsFollowText
  <2>3. klasses' = ClassesBefore(program, pos + 1)
    BY <1>1, <1>5, <2>2, CallableKeeps
  <2>4. \A f \in 1 .. Len(llvm') : llvm'[f].own <= pos
    BY <1>1, <1>4, <1>6, <2>2
  <2>5. ASSUME NEW k \in Klass
        PROVE  IF method_map'[k] = 0 THEN Left(program, k, pos + 1) = {}
               ELSE llvm'[method_map'[k]].own \in Left(program, k, pos + 1)
    <3>1. Left(program, k, pos + 1) =
            IF pos \in MethodDecls(program, k) THEN {pos}
            ELSE IF pos \in ClassDecls(program, k) THEN {} ELSE Left(program, k, pos)
      BY <1>1, LeftStep
    <3>2. pos \notin ClassDecls(program, k)
      BY DEF ClassDecls, DeclsOf, Callables
    <3>3. pos \in MethodDecls(program, k) <=> d.op = "DEF_METHOD" /\ d.reciever = k
      BY DEF MethodDecls, DeclsOf
    <3>4. method_map[k] # 0 => llvm'[method_map[k]] = llvm[method_map[k]]
      BY <1>6 DEF IInv, Functional, Real
    <3>5. CASE d.op = "DEF_METHOD" /\ d.reciever = k
      <4>1. method_map'[k] = fn
        BY <1>2, <3>5 DEF addMethod
      <4> QED
        BY <1>4, <1>6, <3>1, <3>3, <3>5, <4>1
    <3>6. CASE ~(d.op = "DEF_METHOD" /\ d.reciever = k)
      <4>1. method_map'[k] = method_map[k]
        BY <1>1, <1>2, <3>6 DEF addMethod
      <4>2. Left(program, k, pos + 1) = Left(program, k, pos)
        BY <3>1, <3>2, <3>3, <3>6
      <4> QED
        BY <2>2, <3>4, <4>1, <4>2
    <3> QED
      BY <3>5, <3>6
  <2> QED
    BY <1>5, <2>1, <2>3, <2>4, <2>5 DEF MapsFollowText
<1> QED
  BY <1>7, <1>8, <1>9, <1>10, <1>11, BeforeRun

LEMMA DefFuncKeeps ==
  ASSUME IInv, DInv, exec_def_func_codegen
  PROVE  DInv'
<1> DEFINE d == program[pos]
           decl == LastRegistered(d.sym)
<1>1. /\ phase = "codegen" /\ cur = 0 /\ pos <= Len(program) /\ d.op = "DEF_FUNC"
      /\ UNCHANGED <<program, front, lli>>
  BY DEF exec_def_func_codegen
<1>2. pos \in 1 .. Len(program)
  BY <1>1, ProgramShape DEF IInv, TypeOK
<1>3. CASE phase' = "assert" /\ UNCHANGED back
  BY <1>1, <1>3, StopKeeps DEF back
<1>4. CASE BeginFunction(d, decl, vars) /\ UNCHANGED method_map
  BY <1>1, <1>2, <1>4, BeginKeeps DEF Callables
<1> QED
  BY <1>3, <1>4 DEF exec_def_func_codegen, Stop

LEMMA DefMethodKeeps ==
  ASSUME IInv, DInv, exec_def_method_codegen
  PROVE  DInv'
<1> DEFINE d == program[pos]
           decl == LastRegistered(d.sym)
           fn == Len(llvm) + 1
<1>1. /\ phase = "codegen" /\ cur = 0 /\ pos <= Len(program) /\ d.op = "DEF_METHOD"
      /\ UNCHANGED <<program, front, lli>>
  BY DEF exec_def_method_codegen
<1>2. pos \in 1 .. Len(program)
  BY <1>1, ProgramShape DEF IInv, TypeOK
<1>3. CASE phase' = "assert" /\ UNCHANGED back
  BY <1>1, <1>3, StopKeeps DEF back
<1>4. CASE BeginFunction(d, decl, WithThis(d, decl, fn)) /\ method_map' = addMethod(d.reciever, fn)
  BY <1>1, <1>2, <1>4, BeginKeeps DEF Callables
<1> QED
  BY <1>3, <1>4 DEF exec_def_method_codegen, Stop

(* A function is finished, main with its stores. *)
LEMMA FinishedKeeps ==
  ASSUME IInv, DInv, phase = "codegen", cur # 0, cur' = 0, pos' = pos + 1,
         NEW main, main = (program[pos].op = "DEF_FUNC" /\ program[pos].sym = Main),
         Len(llvm') = Len(llvm),
         \A f \in 1 .. Len(llvm) :
           /\ llvm'[f].sym = llvm[f].sym /\ llvm'[f].named = llvm[f].named
           /\ llvm'[f].own = llvm[f].own /\ llvm'[f].code = llvm[f].code
           /\ llvm'[f].stores = IF main /\ f = cur THEN setFuncPtrArry ELSE llvm[f].stores,
         UNCHANGED <<program, phase, klasses, method_map, lli>>
  PROVE  DInv'
<1>1. /\ cur \in 1 .. Len(llvm) /\ cur \in Real /\ llvm[cur].own = pos
      /\ pos \in 1 .. Len(program) /\ program[pos].op \in Callables
      /\ llvm[cur].sym = program[pos].sym
      /\ program \in Programs
      /\ klasses = ClassesBefore(program, pos)
      /\ \A f \in 1 .. Len(llvm) : llvm[f].own <= pos
      /\ \A k \in Klass : getMethodArrayIndex(k) = Row(program, k, pos)
  BY CurrentFunction
<1>2. /\ \A k \in Klass :
           IF method_map[k] = 0 THEN Left(program, k, pos + 1) = {}
           ELSE /\ llvm[method_map[k]].own \in Left(program, k, pos + 1)
                /\ method_map[k] \in Real
      /\ klasses = ClassesBefore(program, pos + 1)
      /\ klasses \subseteq Klass
  BY DEF DInv, MapsFollowText, Reached, IInv, Functional, TypeOK
<1>3. main => \A k \in Klass : Left(program, k, pos + 1) = Left(program, k, pos)
  BY <1>1, CallableKeeps
<1>4. NamesAreUnique'
  BY DEF DInv, NamesAreUnique
<1>5. CallsReach'
  <2> SUFFICES ASSUME NEW f \in 1 .. Len(llvm'), NEW i \in 1 .. Len(Code(f)')
               PROVE  LET in == Code(f)'[i] IN
                      /\ in.op = "call" => /\ in.fn \in 1 .. Len(llvm')
                                           /\ llvm'[in.fn].named
                                           /\ llvm'[in.fn].own <= llvm'[f].own
                      /\ in.op = "slot" => /\ in.klass \in ClassesBefore(program, llvm'[f].own)
                                           /\ in.slot = Row(program, in.klass, llvm'[f].own)
    BY DEF CallsReach
  <2>1. f \in 1 .. Len(llvm) /\ Code(f)' = Code(f) /\ llvm'[f].own = llvm[f].own
    BY DEF Code
  <2> DEFINE in == Code(f)[i]
  <2>2. /\ in.op = "call" => /\ in.fn \in 1 .. Len(llvm)
                             /\ llvm[in.fn].named /\ llvm[in.fn].own <= llvm[f].own
        /\ in.op = "slot" => /\ in.klass \in ClassesBefore(program, llvm[f].own)
                             /\ in.slot = Row(program, in.klass, llvm[f].own)
    BY <2>1 DEF DInv, CallsReach
  <2>3. Code(f)'[i] = in
    BY <2>1
  <2> HIDE DEF in
  <2> QED
    BY <2>1, <2>2, <2>3
<1>6. StoresReach'
  <2>1. ASSUME NEW f \in 1 .. Len(llvm)
        PROVE  /\ llvm'[f].stores # {} =>
                    llvm'[f].sym = Main /\ program'[llvm'[f].own].op = "DEF_FUNC"
               /\ \A st \in llvm'[f].stores :
                    \E k \in ClassesBefore(program', llvm'[f].own) :
                      /\ st[1] = Row(program', k, llvm'[f].own)
                      /\ llvm'[st[2]].own \in Left(program', k, llvm'[f].own)
    <3>1. CASE main /\ f = cur
      <4>1. /\ llvm'[f].own = pos /\ llvm'[f].sym = Main /\ llvm'[f].stores = setFuncPtrArry
            /\ program'[llvm'[f].own].op = "DEF_FUNC"
        BY <1>1, <3>1
      <4>2. ASSUME NEW st \in setFuncPtrArry
            PROVE  \E k \in ClassesBefore(program, pos) :
                     /\ st[1] = Row(program, k, pos)
                     /\ llvm'[st[2]].own \in Left(program, k, pos)
        <5>1. PICK k \in klasses : /\ method_map[k] # 0
                                   /\ st = <<getMethodArrayIndex(k), method_map[k]>>
          BY DEF setFuncPtrArry
        <5>2. st[1] = Row(program, k, pos) /\ k \in ClassesBefore(program, pos) /\ k \in Klass
          BY <1>1, <1>2, <5>1
        <5>3. st[2] = method_map[k] /\ llvm[st[2]].own \in Left(program, k, pos)
          BY <1>2, <1>3, <3>1, <5>1, <5>2
        <5>4. llvm'[st[2]].own = llvm[st[2]].own
          BY <1>2, <5>1, <5>2, <5>3 DEF Real
        <5> QED
          BY <5>2, <5>3, <5>4
      <4> QED
        BY <4>1, <4>2
    <3>2. CASE ~(main /\ f = cur)
      <4>1. \A st \in llvm[f].stores : llvm'[st[2]].own = llvm[st[2]].own
        BY DEF IInv, Functional, Real
      <4>2. /\ llvm[f].stores # {} => llvm[f].sym = Main /\ program[llvm[f].own].op = "DEF_FUNC"
            /\ \A st \in llvm[f].stores :
                 \E k \in ClassesBefore(program, llvm[f].own) :
                   /\ st[1] = Row(program, k, llvm[f].own)
                   /\ llvm[st[2]].own \in Left(program, k, llvm[f].own)
        BY DEF DInv, StoresReach
      <4>3. /\ llvm'[f].stores = llvm[f].stores /\ llvm'[f].own = llvm[f].own
            /\ llvm'[f].sym = llvm[f].sym
        BY <3>2
      <4> QED
        BY <4>1, <4>2, <4>3
    <3> QED
      BY <3>1, <3>2
  <2> QED
    BY <2>1 DEF StoresReach
<1>7. Real' = Real
  BY DEF Real, Stubs
<1>8. StoresComplete'
  <2>1. ASSUME NEW f \in Real', f # cur', llvm'[f].sym = Main,
               program'[llvm'[f].own].op = "DEF_FUNC",
               NEW k \in ClassesBefore(program', llvm'[f].own),
               Left(program', k, llvm'[f].own) # {}
        PROVE  \E st \in llvm'[f].stores : st[1] = Row(program', k, llvm'[f].own)
    <3> DEFINE o == llvm[f].own
    <3>1. f \in Real /\ f \in 1 .. Len(llvm) /\ llvm'[f].own = o /\ llvm'[f].sym = llvm[f].sym
      BY <1>7, <2>1 DEF Real
    <3>2. /\ llvm[f].sym = Main /\ program[o].op = "DEF_FUNC"
          /\ k \in ClassesBefore(program, o) /\ Left(program, k, o) # {}
      BY <2>1, <3>1
    <3>3. CASE f # cur
      <4>1. \E st \in llvm[f].stores : st[1] = Row(program, k, o)
        BY <3>1, <3>2, <3>3 DEF DInv, StoresComplete
      <4> QED
        BY <3>1, <3>3, <4>1
    <3>4. CASE f = cur
      <4>1. o = pos /\ main /\ llvm'[f].stores = setFuncPtrArry
        BY <1>1, <3>1, <3>2, <3>4
      <4>2. k \in klasses /\ k \in Klass /\ method_map[k] # 0
        BY <1>1, <1>2, <1>3, <3>2, <4>1
      <4>3. <<getMethodArrayIndex(k), method_map[k]>> \in setFuncPtrArry
        BY <4>2 DEF setFuncPtrArry
      <4> QED
        BY <1>1, <3>1, <4>1, <4>2, <4>3
    <3> QED
      BY <3>3, <3>4
  <2> QED
    BY <2>1 DEF StoresComplete
<1>9. MapsFollowText'
  <2>1. Reached' = pos + 1 /\ phase' = "codegen"
    BY DEF Reached
  <2>2. \A f \in 1 .. Len(llvm') : llvm'[f].own <= pos + 1
    <3>1. \A f \in 1 .. Len(llvm) : llvm[f].own \in Nat
      BY FunctionShape DEF IInv, TypeOK
    <3>2. pos \in Nat
      BY <1>1
    <3> QED
      BY <1>1, <3>1, <3>2
  <2>3. \A k \in Klass : method_map[k] # 0 => llvm'[method_map[k]].own = llvm[method_map[k]].own
    BY <1>2 DEF Real
  <2>4. \A k \in Klass :
          IF method_map'[k] = 0 THEN Left(program, k, pos + 1) = {}
          ELSE llvm'[method_map'[k]].own \in Left(program, k, pos + 1)
    BY <1>2, <2>3
  <2> QED
    BY <1>2, <2>1, <2>2, <2>4 DEF MapsFollowText
<1> QED
  BY <1>4, <1>5, <1>6, <1>8, <1>9, BeforeRun

LEMMA FinishKeeps ==
  ASSUME IInv, DInv, finish_function
  PROVE  DInv'
<1> DEFINE main == program[pos].op = "DEF_FUNC" /\ program[pos].sym = Main
           bad == main /\ \E s \in setFuncPtrArry : s[1] \notin Slots
<1>1. /\ phase = "codegen" /\ cur # 0
      /\ UNCHANGED <<program, work, klasses, method_map, vars, front, lli>>
  BY DEF finish_function
<1>2. /\ cur \in 1 .. Len(llvm) /\ llvm \in Seq(Functions)
      /\ method_map \in [Klass -> 0 .. Len(llvm)] /\ klasses \subseteq Klass
  BY <1>1, CurrentFunction DEF IInv, TypeOK
<1>3. CASE phase' = "undefined" /\ UNCHANGED <<pos, llvm, cur>>
  BY <1>1, <1>3, StopKeeps
<1>4. CASE /\ ~bad
           /\ llvm' = IF main THEN [llvm EXCEPT ![cur].stores = setFuncPtrArry] ELSE llvm
           /\ cur' = 0 /\ pos' = pos + 1 /\ UNCHANGED phase
  <2>1. CASE ~main
    <3>1. llvm' = llvm
      BY <1>4, <2>1
    <3>2. main = (program[pos].op = "DEF_FUNC" /\ program[pos].sym = Main)
      OBVIOUS
    <3> HIDE DEF main, bad
    <3> QED
      BY <1>1, <1>4, <2>1, <3>1, <3>2, FinishedKeeps
  <2>2. CASE main
    <3> DEFINE g == [llvm[cur] EXCEPT !.stores = setFuncPtrArry]
    <3>1. setFuncPtrArry \in SUBSET (Slots \X (Nat \ {0}))
      <4> SUFFICES ASSUME NEW s \in setFuncPtrArry PROVE s \in Slots \X (Nat \ {0})
        OBVIOUS
      <4>1. s[1] \in Slots
        BY <1>4, <2>2
      <4>2. PICK k \in klasses : /\ method_map[k] # 0
                                 /\ s = <<getMethodArrayIndex(k), method_map[k]>>
        BY DEF setFuncPtrArry
      <4>3. method_map[k] \in Nat \ {0}
        BY <1>2, <4>2
      <4> QED
        BY <4>1, <4>2, <4>3
    <3>2. /\ g \in Functions /\ g.stores = setFuncPtrArry
          /\ g.sym = llvm[cur].sym /\ g.named = llvm[cur].named
          /\ g.own = llvm[cur].own /\ g.code = llvm[cur].code
      <4>1. llvm[cur] \in Functions
        BY <1>2
      <4> QED
        BY <3>1, <4>1, WithStores
    <3>3. llvm' = [llvm EXCEPT ![cur] = g]
      BY <1>4, <2>2
    <3>4. /\ Len(llvm') = Len(llvm)
          /\ \A f \in 1 .. Len(llvm) : llvm'[f] = IF f = cur THEN g ELSE llvm[f]
      <4> HIDE DEF g
      <4> QED
        BY <1>2, <3>2, <3>3, ExceptSeq
    <3>5. main = (program[pos].op = "DEF_FUNC" /\ program[pos].sym = Main)
      OBVIOUS
    <3> HIDE DEF main, bad, g
    <3>6. \A f \in 1 .. Len(llvm) :
            /\ llvm'[f].sym = llvm[f].sym /\ llvm'[f].named = llvm[f].named
            /\ llvm'[f].own = llvm[f].own /\ llvm'[f].code = llvm[f].code
            /\ llvm'[f].stores = IF main /\ f = cur THEN setFuncPtrArry ELSE llvm[f].stores
      BY <2>2, <3>2, <3>4
    <3> QED
      BY <1>1, <1>4, <3>4, <3>5, <3>6, FinishedKeeps
  <2> QED
    BY <2>1, <2>2
<1> QED
  BY <1>3, <1>4 DEF finish_function, Stop

-----------------------------------------------------------------------------
(***************************************************************************)
(* The running program.                                                    *)
(***************************************************************************)
(* The module is final. *)
LEMMA RunKeeps ==
  ASSUME IInv, DInv, phase' \notin {"parse", "codegen"}, UNCHANGED <<program, back>>,
         TableIsMains', SlotsDispatch', EmptySlots'
  PROVE  DInv'
<1>1. UNCHANGED <<llvm, cur>>
  BY DEF back
<1>2. StoresComplete'
  BY <1>1, StoresStay DEF DInv
<1>3. MapsFollowText'
  BY DEF MapsFollowText
<1> QED
  BY <1>1, <1>2, <1>3, ModuleStays DEF DInv

(* The array after a function has been entered. *)
LEMMA StoresValue ==
  ASSUME NEW f, NEW s \in Slots
  PROVE  IF \E st \in llvm[f].stores : st[1] = s
         THEN \E st \in llvm[f].stores : st[1] = s /\ AfterStores(f)[s] = st[2]
         ELSE AfterStores(f)[s] = table[s]
<1> DEFINE here == {st \in llvm[f].stores : st[1] = s}
<1>1. AfterStores(f)[s] = IF here = {} THEN table[s] ELSE (CHOOSE st \in here : TRUE)[2]
  BY DEF AfterStores
<1>2. here # {} => (CHOOSE st \in here : TRUE) \in here
  OBVIOUS
<1> QED
  BY <1>1, <1>2

(* The function that lli starts. *)
LEMMA MainFunction ==
  ASSUME IInv, NEW m \in Real
  PROVE  /\ m \in 1 .. Len(llvm) /\ m # 0
         /\ llvm[m].own \in 1 .. Len(program) /\ llvm[m].own \in Nat
         /\ program[llvm[m].own].op \in {"DEF_FUNC", "DEF_METHOD"}
         /\ program \in Programs
         /\ \A st \in llvm[m].stores : st[1] \in Slots /\ st[2] # 0 /\ st[2] \in Nat
<1>1. /\ m \in 1 .. Len(llvm) /\ m # 0
      /\ llvm[m].own \in 1 .. Len(program)
      /\ program[llvm[m].own].op \in {"DEF_FUNC", "DEF_METHOD"}
      /\ program \in Programs
  BY DEF Real, IInv, Functional, TypeOK, Callables
<1>2. llvm[m].stores \subseteq (Slots \X (Nat \ {0}))
  BY <1>1, FunctionShape DEF IInv, TypeOK
<1> QED
  BY <1>1, <1>2

LEMMA LoadKeeps ==
  ASSUME IInv, DInv, Load
  PROVE  DInv'
<1>1. /\ phase = "written" /\ UNCHANGED <<program, pos, work, front, back>>
  BY DEF Load
<1>2. /\ stack = <<>> /\ cur = 0
      /\ \A s \in Slots : table[s] = 0
  BY <1>1 DEF IInv, LiveFrames, Translating, DInv, TableIsMains
<1>3. UNCHANGED <<program, llvm, cur>>
  BY <1>1 DEF back
<1>4. CASE phase' = "unresolved" /\ UNCHANGED lli
  <2>1. UNCHANGED <<stack, table>>
    BY <1>4 DEF lli
  <2>2. EmptySlots'
    BY <1>4 DEF EmptySlots
  <2> QED
    BY <1>1, <1>3, <1>4, <2>1, <2>2, RunStays, RunKeeps
<1>5. CASE /\ phase' = "running"
           /\ \E m \in Mains : stack' = <<Frame(m, <<>>)>> /\ table' = AfterStores(m)
  <2>1. PICK m \in Mains : stack' = <<Frame(m, <<>>)>> /\ table' = AfterStores(m)
    BY <1>5
  <2>2. m \in Real /\ llvm[m].named /\ llvm[m].sym = Main
    BY DEF Mains, Real, Named
  <2>3. stack' # <<>> /\ Len(stack') = 1 /\ stack'[1].fn = m
    <3> DEFINE fr == Frame(m, <<>>)
    <3>1. stack' = <<fr>> /\ fr.fn = m
      BY <2>1 DEF Frame
    <3> HIDE DEF fr
    <3> QED
      BY <3>1
  <2> DEFINE M == llvm[m].own
  <2>4. MainPos' = M
    BY <1>3, <2>3 DEF MainPos
  <2>5. /\ M \in 1 .. Len(program) /\ M \in Nat /\ m # 0
        /\ m \in 1 .. Len(llvm)
        /\ \A st \in llvm[m].stores : st[1] \in Slots /\ st[2] # 0
    BY <2>2, MainFunction
  <2>6. ASSUME NEW s \in Slots, table'[s] # 0
        PROVE  \E k \in ClassesBefore(program, M) :
                 s = Row(program, k, M) /\ llvm[table'[s]].own \in Left(program, k, M)
    <3>1. PICK st \in llvm[m].stores : st[1] = s /\ table'[s] = st[2]
      BY <1>2, <2>1, <2>6, StoresValue
    <3> QED
      BY <2>5, <3>1 DEF DInv, StoresReach
  <2>7. ASSUME program[M].op = "DEF_FUNC", NEW k \in ClassesBefore(program, M),
               Left(program, k, M) # {}
        PROVE  Row(program, k, M) \in Slots /\ table'[Row(program, k, M)] # 0
    <3> DEFINE s == Row(program, k, M)
    <3>1. PICK st \in llvm[m].stores : st[1] = s
      BY <1>2, <2>2, <2>5, <2>7 DEF DInv, StoresComplete
    <3>2. s \in Slots
      BY <2>5, <3>1
    <3> HIDE DEF s
    <3>3. \E x \in llvm[m].stores : x[1] = s /\ table'[s] = x[2]
      BY <2>1, <3>1, <3>2, StoresValue
    <3> QED
      BY <2>5, <3>2, <3>3 DEF s
  <2>8. TableIsMains'
    <3>1. \A i \in 1 .. Len(stack') : llvm'[stack'[i].fn].own <= M
      <4>1. \A i \in 1 .. 1 : i = 1
        OBVIOUS
      <4>2. M <= M
        BY <2>5
      <4> QED
        BY <1>3, <2>3, <4>1, <4>2
    <3> HIDE DEF M
    <3>2. /\ llvm'[stack'[1].fn].named /\ llvm'[stack'[1].fn].sym = Main
      BY <1>3, <2>2, <2>3
    <3> QED
      BY <1>3, <2>3, <2>4, <2>6, <2>7, <3>1, <3>2 DEF TableIsMains, Slots
  <2>9. SlotsDispatch'
    BY <2>3 DEF SlotsDispatch
  <2>10. EmptySlots'
    BY <1>5 DEF EmptySlots
  <2> QED
    BY <1>1, <1>5, <2>8, <2>9, <2>10, RunKeeps
<1> QED
  BY <1>4, <1>5 DEF Load

(* The stack, while the program runs and moves on. *)
LEMMA AdvancedShape ==
  ASSUME IInv, phase = "running"
  PROVE  /\ Len(stack) \in Nat \ {0} /\ stack # <<>>
         /\ Advanced \in Seq(Frames) /\ Len(Advanced) = Len(stack)
         /\ \A i \in 1 .. Len(stack) : Advanced[i].fn = stack[i].fn
         /\ \A i \in 1 .. Len(stack) - 1 : Advanced[i] = stack[i]
         /\ Advanced[Len(stack)].fn = top.fn
         /\ Advanced[Len(stack)].pc - 1 = top.pc
<1> DEFINE T  == Frames
           n  == Len(stack)
           fr == [stack[n] EXCEPT !.pc = @ + 1]
<1>1. /\ stack \in Seq(T) /\ n \in Nat \ {0} /\ n \in 1 .. Len(stack) /\ stack # <<>>
      /\ stack[n] = top /\ top \in Frames
  BY Running DEF top
<1>2. fr \in T /\ fr.fn = top.fn /\ fr.pc - 1 = top.pc
  <2>1. \A x \in Frames : LET y == [x EXCEPT !.pc = x.pc + 1] IN
                           y \in Frames /\ y.fn = x.fn /\ y.pc = x.pc + 1 /\ x.pc \in Nat
    BY DEF Frames
  <2>2. fr = [top EXCEPT !.pc = top.pc + 1]
    BY <1>1
  <2> HIDE DEF fr
  <2>3. fr \in T /\ fr.fn = top.fn /\ fr.pc = top.pc + 1 /\ top.pc \in Nat
    BY <1>1, <2>1, <2>2
  <2> HIDE DEF T
  <2> QED
    BY <2>3
<1>3. Advanced = [stack EXCEPT ![n] = fr]
  BY DEF Advanced
<1> HIDE DEF T, fr, n
<1>4. /\ Advanced \in Seq(T) /\ Len(Advanced) = Len(stack)
      /\ \A i \in 1 .. Len(stack) : Advanced[i] = IF i = n THEN fr ELSE stack[i]
  BY <1>1, <1>2, <1>3, ExceptSeq
<1>5. \A i \in 1 .. Len(stack) : Advanced[i].fn = stack[i].fn
  BY <1>1, <1>2, <1>4
<1>6. \A i \in 1 .. n - 1 : Advanced[i] = stack[i]
  BY <1>1, <1>4
<1>7. Advanced[n] = fr
  BY <1>1, <1>4
<1> QED
  BY <1>1, <1>2, <1>4, <1>5, <1>6, <1>7 DEF T, n

(* What is known of the program that runs. *)
LEMMA TheRun ==
  ASSUME IInv, DInv, phase = "running"
  PROVE  /\ Len(stack) \in Nat \ {0} /\ stack # <<>>
         /\ llvm[stack[1].fn].named /\ llvm[stack[1].fn].sym = Main
         /\ stack[1].fn \in Real
         /\ MainPos \in 1 .. Len(program) /\ MainPos \in Nat
         /\ program[MainPos].op \in {"DEF_FUNC", "DEF_METHOD"}
         /\ \A i \in 1 .. Len(stack) : llvm[stack[i].fn].own <= MainPos
         /\ \A s \in Slots : table[s] # 0 =>
              \E k \in ClassesBefore(program, MainPos) :
                /\ s = Row(program, k, MainPos)
                /\ llvm[table[s]].own \in Left(program, k, MainPos)
         /\ program[MainPos].op = "DEF_FUNC" =>
              \A k \in ClassesBefore(program, MainPos) :
                Left(program, k, MainPos) # {}
                  => /\ Row(program, k, MainPos) \in Slots
                     /\ table[Row(program, k, MainPos)] # 0
<1>1. Len(stack) \in Nat \ {0} /\ stack # <<>> /\ stack[1].fn \in Real
  BY Running
<1>2. /\ MainPos \in 1 .. Len(program) /\ MainPos \in Nat
      /\ program[MainPos].op \in {"DEF_FUNC", "DEF_METHOD"}
  BY <1>1, MainFunction DEF MainPos
<1> QED
  BY <1>1, <1>2 DEF DInv, TableIsMains

(* The same frames, or fewer, with the same array. *)
LEMMA FramesStay ==
  ASSUME IInv, DInv, phase = "running", phase' \in {"running", "exited"},
         UNCHANGED <<program, back, table>>,
         Len(stack') \in Nat \ {0}, Len(stack') <= Len(stack), stack' # <<>>,
         \A i \in 1 .. Len(stack') : stack'[i].fn = stack[i].fn,
         \A i \in 1 .. Len(stack') - 1 : stack'[i].pc = stack[i].pc
  PROVE  DInv'
<1>1. /\ Len(stack) \in Nat \ {0} /\ stack # <<>> /\ UNCHANGED <<program, llvm, table>>
      /\ \A i \in 1 .. Len(stack') : i \in 1 .. Len(stack)
      /\ \A i \in 1 .. Len(stack') - 1 :
           i \in 1 .. Len(stack') /\ i + 1 \in 1 .. Len(stack') /\ i \in 1 .. Len(stack) - 1
      /\ 1 \in 1 .. Len(stack')
  BY Running DEF back
<1>2. MainPos' = MainPos /\ stack'[1].fn = stack[1].fn
  BY <1>1 DEF MainPos
<1>3. TableIsMains'
  BY <1>1, <1>2 DEF DInv, TableIsMains, Slots
<1>4. SlotsDispatch'
  <2> SUFFICES ASSUME NEW i \in 1 .. Len(stack') - 1
               PROVE  LET call == llvm'[stack'[i].fn].code[stack'[i].pc - 1] IN
                      call.op = "slot"
                        /\ Stable(program', call.klass, llvm'[stack'[i].fn].own, MainPos')
                      => llvm'[stack'[i + 1].fn].own \in Left(program', call.klass, MainPos')
    BY DEF SlotsDispatch, Pending, Code
  <2>1. llvm'[stack'[i].fn].code[stack'[i].pc - 1] = Pending(stack[i])
    BY <1>1 DEF Pending, Code
  <2> DEFINE call == Pending(stack[i])
  <2>2. call.op = "slot" /\ Stable(program, call.klass, llvm[stack[i].fn].own, MainPos)
          => llvm[stack[i + 1].fn].own \in Left(program, call.klass, MainPos)
    BY <1>1 DEF DInv, SlotsDispatch
  <2>3. stack'[i].fn = stack[i].fn /\ stack'[i + 1].fn = stack[i + 1].fn
    BY <1>1
  <2> HIDE DEF call
  <2>4. llvm'[stack'[i].fn].code[stack'[i].pc - 1] = call
    BY <2>1 DEF call
  <2> QED
    BY <1>1, <1>2, <2>2, <2>3, <2>4
<1>5. EmptySlots'
  BY DEF EmptySlots
<1> QED
  BY <1>3, <1>4, <1>5, RunKeeps

LEMMA AllocKeeps ==
  ASSUME IInv, DInv, RunAlloc, UNCHANGED <<program, pos, work, front, back>>
  PROVE  DInv'
<1> DEFINE T  == Frames
           A  == Advanced
           n  == Len(stack)
           in == Code(top.fn)[top.pc]
           fr == [A[n] EXCEPT !.env[in.var] = in.klass]
<1>1. phase = "running" /\ in \in Instrs /\ in.op = "alloc"
  BY Current DEF RunAlloc
<1>2. in.klass \in Objects
  BY <1>1 DEF Instrs, Objects
<1>3. /\ A \in Seq(T) /\ Len(A) = n /\ n \in Nat \ {0} /\ n \in 1 .. Len(A)
      /\ \A i \in 1 .. n : A[i].fn = stack[i].fn
      /\ \A i \in 1 .. n - 1 : A[i] = stack[i]
  BY <1>1, AdvancedShape
<1>4. stack' = [A EXCEPT ![n] = fr] /\ UNCHANGED <<phase, table>>
  BY DEF RunAlloc
<1>5. A[n] \in Frames
  <2> HIDE DEF A, T
  <2>1. A[n] \in T
    BY <1>3
  <2> QED
    BY <2>1 DEF T
<1>6. fr \in T /\ fr.fn = A[n].fn
  <2> HIDE DEF in, A
  <2> QED
    BY <1>2, <1>5 DEF Frames, Objects
<1> HIDE DEF T, A, n, in, fr
<1>7. /\ Len(stack') = n /\ stack' \in Seq(T)
      /\ \A i \in 1 .. n : stack'[i] = IF i = n THEN fr ELSE A[i]
  BY <1>3, <1>4, <1>6, ExceptSeq
<1>8. stack' # <<>> /\ Len(stack') \in Nat \ {0} /\ Len(stack') <= n
  BY <1>3, <1>7
<1>9. \A i \in 1 .. n : stack'[i].fn = stack[i].fn
  BY <1>3, <1>6, <1>7
<1>10. \A i \in 1 .. n - 1 : stack'[i].pc = stack[i].pc
  BY <1>3, <1>7
<1> QED
  BY <1>1, <1>4, <1>7, <1>8, <1>9, <1>10, FramesStay DEF n

LEMMA ReturnKeeps ==
  ASSUME IInv, DInv, RunReturn, UNCHANGED <<program, pos, work, front, back>>
  PROVE  DInv'
<1> DEFINE T == Frames
<1>1. phase = "running" /\ UNCHANGED table
  BY DEF RunReturn
<1>2. stack \in Seq(T) /\ Len(stack) \in Nat \ {0} /\ stack # <<>>
  BY <1>1, Running
<1>3. CASE phase' = "exited" /\ UNCHANGED stack
  BY <1>1, <1>2, <1>3, FramesStay
<1>4. CASE /\ Len(stack) # 1 /\ UNCHANGED phase
           /\ stack' = SubSeq(stack, 1, Len(stack) - 1)
  <2> DEFINE m == Len(stack) - 1
  <2>1. m \in Nat \ {0} /\ m <= Len(stack) /\ stack' = SubSeq(stack, 1, m)
    BY <1>2, <1>4
  <2> HIDE DEF T, m
  <2>2. /\ Len(stack') = m /\ stack' \in Seq(T)
        /\ \A i \in 1 .. m : stack'[i] = stack[i]
    BY <1>2, <2>1
  <2>3. /\ Len(stack') \in Nat \ {0} /\ stack' # <<>> /\ Len(stack') <= Len(stack)
        /\ \A i \in 1 .. Len(stack') : stack'[i].fn = stack[i].fn
        /\ \A i \in 1 .. Len(stack') - 1 : stack'[i].pc = stack[i].pc
    BY <1>2, <2>1, <2>2
  <2> QED
    BY <1>1, <1>4, <2>3, FramesStay
<1> QED
  BY <1>3, <1>4 DEF RunReturn, Stop

(* A function is entered. *)
LEMMA EnterKeeps ==
  ASSUME IInv, DInv, phase = "running", NEW f \in Real, NEW actuals,
         Frame(f, actuals) \in Frames, Enter(f, actuals),
         llvm[f].own <= MainPos,
         llvm[f].stores # {} => f = stack[1].fn,
         NEW call, call = Code(top.fn)[top.pc],
         call.op = "slot" /\ Stable(program, call.klass, llvm[top.fn].own, MainPos)
           => llvm[f].own \in Left(program, call.klass, MainPos),
         UNCHANGED <<program, back>>
  PROVE  DInv'
<1> DEFINE T  == Frames
           A  == Advanced
           n  == Len(stack)
           fr == Frame(f, actuals)
           M  == MainPos
<1>1. /\ A \in Seq(T) /\ Len(A) = n /\ n \in Nat \ {0} /\ stack # <<>>
      /\ \A i \in 1 .. n : A[i].fn = stack[i].fn
      /\ \A i \in 1 .. n - 1 : A[i] = stack[i]
      /\ A[n].fn = top.fn /\ A[n].pc - 1 = top.pc
  BY AdvancedShape
<1>2. fr \in T /\ fr.fn = f
  BY DEF Frame
<1>3. /\ stack' = Append(A, fr) /\ table' = AfterStores(f) /\ phase' = phase
      /\ UNCHANGED <<program, llvm>>
  BY DEF Enter, back
<1> HIDE DEF T, A, fr, n, M
<1>4. /\ Len(stack') = n + 1 /\ stack' # <<>> /\ Len(stack') - 1 = n
      /\ \A i \in 1 .. n : stack'[i] = A[i]
      /\ stack'[n + 1] = fr
      /\ \A i \in 1 .. Len(stack') : i \in 1 .. n \/ i = n + 1
      /\ 1 \in 1 .. n
  BY <1>1, <1>2, <1>3
<1>5. stack'[1].fn = stack[1].fn
  BY <1>1, <1>4
<1>6. MainPos' = M
  BY <1>3, <1>5 DEF MainPos, M
<1>7. /\ llvm[stack[1].fn].named /\ llvm[stack[1].fn].sym = Main
      /\ llvm[stack[1].fn].own = M /\ stack[1].fn \in 1 .. Len(llvm)
      /\ \A i \in 1 .. n : llvm[stack[i].fn].own <= M
      /\ \A s \in Slots : table[s] # 0 =>
           \E k \in ClassesBefore(program, M) :
             s = Row(program, k, M) /\ llvm[table[s]].own \in Left(program, k, M)
      /\ program[M].op = "DEF_FUNC" =>
           \A k \in ClassesBefore(program, M) :
             Left(program, k, M) # {}
               => Row(program, k, M) \in Slots /\ table[Row(program, k, M)] # 0
  BY TheRun DEF M, n, MainPos, Real
<1>8. ASSUME NEW s \in Slots, table'[s] # 0
      PROVE  \E k \in ClassesBefore(program, M) :
               s = Row(program, k, M) /\ llvm[table'[s]].own \in Left(program, k, M)
  <2>1. CASE \E st \in llvm[f].stores : st[1] = s
    <3>1. PICK st \in llvm[f].stores : st[1] = s /\ table'[s] = st[2]
      BY <1>3, <2>1, StoresValue
    <3>2. f = stack[1].fn /\ f \in 1 .. Len(llvm) /\ llvm[f].own = M
      BY <1>7, <3>1
    <3> QED
      BY <3>1, <3>2 DEF DInv, StoresReach
  <2>2. CASE ~\E st \in llvm[f].stores : st[1] = s
    <3>1. table'[s] = table[s]
      BY <1>3, <2>2, StoresValue
    <3> QED
      BY <1>7, <1>8, <3>1
  <2> QED
    BY <2>1, <2>2
<1>9. ASSUME program[M].op = "DEF_FUNC", NEW k \in ClassesBefore(program, M),
             Left(program, k, M) # {}
      PROVE  Row(program, k, M) \in Slots /\ table'[Row(program, k, M)] # 0
  <2> DEFINE s == Row(program, k, M)
  <2>1. s \in Slots /\ table[s] # 0
    BY <1>7, <1>9
  <2> HIDE DEF s
  <2>2. \/ \E st \in llvm[f].stores : table'[s] = st[2]
        \/ table'[s] = table[s]
    BY <1>3, <2>1, StoresValue
  <2>3. \A st \in llvm[f].stores : st[2] # 0
    BY MainFunction
  <2> QED
    BY <2>1, <2>2, <2>3 DEF s
<1>10. TableIsMains'
  <2>1. \A i \in 1 .. Len(stack') : llvm'[stack'[i].fn].own <= M
    BY <1>1, <1>2, <1>3, <1>4, <1>7 DEF M
  <2>2. llvm'[stack'[1].fn].named /\ llvm'[stack'[1].fn].sym = Main
    BY <1>3, <1>5, <1>7
  <2>3. /\ Slots' = Slots /\ program' = program /\ llvm' = llvm
        /\ stack' # <<>> /\ MainPos' = M
    BY <1>3, <1>4, <1>6 DEF Slots
  <2>4. \A s \in Slots' : table'[s] # 0 =>
          \E k \in ClassesBefore(program', MainPos') :
            /\ s = Row(program', k, MainPos')
            /\ llvm'[table'[s]].own \in Left(program', k, MainPos')
    BY <1>8, <2>3
  <2>5. program'[MainPos'].op = "DEF_FUNC" =>
          \A k \in ClassesBefore(program', MainPos') :
            Left(program', k, MainPos') # {}
              => /\ Row(program', k, MainPos') \in Slots'
                 /\ table'[Row(program', k, MainPos')] # 0
    BY <1>9, <2>3
  <2> QED
    BY <2>1, <2>2, <2>3, <2>4, <2>5 DEF TableIsMains
<1>11. SlotsDispatch'
  <2> SUFFICES ASSUME NEW i \in 1 .. Len(stack') - 1
               PROVE  LET c == llvm'[stack'[i].fn].code[stack'[i].pc - 1] IN
                      c.op = "slot"
                        /\ Stable(program', c.klass, llvm'[stack'[i].fn].own, MainPos')
                      => llvm'[stack'[i + 1].fn].own \in Left(program', c.klass, MainPos')
    BY DEF SlotsDispatch, Pending, Code
  <2>1. i \in 1 .. n
    BY <1>4
  <2>2. CASE i = n
    <3>1. stack'[i].fn = top.fn /\ stack'[i].pc - 1 = top.pc /\ stack'[i + 1].fn = f
      BY <1>1, <1>2, <1>4, <2>1, <2>2
    <3>2. llvm'[stack'[i].fn].code[stack'[i].pc - 1] = call
      BY <1>3, <3>1 DEF Code
    <3>3. call.op = "slot" /\ Stable(program, call.klass, llvm[top.fn].own, M)
            => llvm[f].own \in Left(program, call.klass, M)
      BY DEF M
    <3> QED
      BY <1>3, <1>6, <3>1, <3>2, <3>3
  <2>3. CASE i # n
    <3>1. i \in 1 .. n - 1 /\ i + 1 \in 1 .. n
      BY <1>1, <2>1, <2>3
    <3>2. stack'[i] = stack[i] /\ stack'[i + 1].fn = stack[i + 1].fn
      BY <1>1, <1>4, <2>1, <3>1
    <3> DEFINE c == Pending(stack[i])
    <3>3. llvm'[stack'[i].fn].code[stack'[i].pc - 1] = c
      BY <1>3, <3>2 DEF Pending, Code
    <3>4. c.op = "slot" /\ Stable(program, c.klass, llvm[stack[i].fn].own, M)
            => llvm[stack[i + 1].fn].own \in Left(program, c.klass, M)
      BY <3>1 DEF DInv, SlotsDispatch, M, n
    <3> HIDE DEF c
    <3> QED
      BY <1>3, <1>6, <3>2, <3>3, <3>4
  <2> QED
    BY <2>2, <2>3
<1>12. EmptySlots'
  BY <1>3 DEF EmptySlots
<1> QED
  BY <1>3, <1>10, <1>11, <1>12, RunKeeps

LEMMA CallKeeps ==
  ASSUME IInv, DInv, RunCall, UNCHANGED <<program, pos, work, front, back>>
  PROVE  DInv'
<1> DEFINE in == Code(top.fn)[top.pc]
           actuals == IF in.arg = None THEN <<>> ELSE <<top.env[in.arg]>>
<1>1. /\ phase = "running" /\ top.pc \in 1 .. Len(Code(top.fn))
      /\ in \in Instrs /\ in.op = "call"
  BY Current DEF RunCall
<1>2. in.arg \in Var \cup {None} /\ in.fn \in Nat \ {0}
  BY <1>1 DEF Instrs
<1>3. top \in Frames /\ top.fn \in Real /\ ~CallsStub /\ Len(stack) \in Nat \ {0}
  BY <1>1, Running
<1>4. top.fn \in 1 .. Len(llvm)
  BY <1>3 DEF Real
<1>5. /\ in.fn \in 1 .. Len(llvm) /\ llvm[in.fn].named
      /\ llvm[in.fn].own <= llvm[top.fn].own
  BY <1>1, <1>4 DEF DInv, CallsReach
<1>6. in.fn \in Real
  BY <1>1, <1>4, <1>5 DEF CallsStub, Real, IInv, LiveFrames
<1>7. /\ llvm[in.fn].own \in Nat /\ llvm[top.fn].own \in Nat /\ MainPos \in Nat
      /\ llvm[top.fn].own <= MainPos
  <2>1. llvm[top.fn].own <= MainPos /\ MainPos \in Nat
    BY <1>1, <1>3, TheRun DEF top
  <2> QED
    BY <1>3, <1>6, <2>1, MainFunction
<1>8. llvm[in.fn].own <= MainPos
  BY <1>5, <1>7
<1>9. llvm[in.fn].stores # {} => in.fn = stack[1].fn
  <2>1. llvm[in.fn].stores # {} => llvm[in.fn].sym = Main
    BY <1>5 DEF DInv, StoresReach
  <2>2. /\ llvm[stack[1].fn].named /\ llvm[stack[1].fn].sym = Main
        /\ stack[1].fn \in 1 .. Len(llvm)
    BY <1>1, TheRun DEF Real
  <2> QED
    BY <1>5, <2>1, <2>2 DEF DInv, NamesAreUnique
<1>10. actuals \in Seq(Objects)
  <2>1. CASE in.arg = None
    BY <2>1
  <2>2. CASE in.arg # None
    <3>1. top.env[in.arg] \in Objects
      BY <1>2, <1>3, <2>2 DEF Frames, Objects
    <3> DEFINE x == top.env[in.arg]
    <3>2. actuals = <<x>> /\ x \in Objects
      BY <2>2, <3>1
    <3> HIDE DEF x, actuals
    <3> QED
      BY <3>2
  <2> QED
    BY <2>1, <2>2
<1>11. Enter(in.fn, actuals)
  BY DEF RunCall
<1>12. in = Code(top.fn)[top.pc] /\ in.op # "slot"
  BY <1>1
<1> HIDE DEF in, actuals
<1>13. Frame(in.fn, actuals) \in Frames
  BY <1>6, <1>10, FrameType
<1> QED
  BY <1>1, <1>6, <1>8, <1>9, <1>11, <1>12, <1>13, EnterKeeps

LEMMA SlotKeeps ==
  ASSUME IInv, DInv, RunSlot, UNCHANGED <<program, pos, work, front, back>>
  PROVE  DInv'
<1> DEFINE in == Code(top.fn)[top.pc]
           x  == top.env[in.reciever]
           o  == llvm[top.fn].own
<1>1. /\ phase = "running" /\ in \in Instrs /\ in.op = "slot"
      /\ top.pc \in 1 .. Len(Code(top.fn))
  BY Current DEF RunSlot
<1>2. in.slot \in Slots /\ in.reciever \in Var
  BY <1>1 DEF Instrs
<1>3. top.fn \in Real /\ top.fn \in 1 .. Len(llvm) /\ top \in Frames /\ Len(stack) \in Nat \ {0}
  BY <1>1, Running DEF Real
<1>4. /\ o \in 1 .. Len(program) /\ program[o].op \in Callables /\ program \in Programs
      /\ o <= MainPos /\ MainPos \in Nat
  <2>1. /\ o \in 1 .. Len(program) /\ program[o].op \in Callables
        /\ program \in Programs
    BY <1>3, MainFunction DEF Callables
  <2>2. o <= MainPos /\ MainPos \in Nat
    BY <1>1, <1>3, TheRun DEF top
  <2> QED
    BY <2>1, <2>2
<1>5. in.klass \in ClassesBefore(program, o) /\ in.slot = Row(program, in.klass, o)
  BY <1>1, <1>3 DEF DInv, CallsReach
<1>6. Stable(program, in.klass, o, MainPos)
        => /\ in.slot = Row(program, in.klass, MainPos)
           /\ in.klass \in ClassesBefore(program, MainPos)
  <2> HIDE DEF in, o
  <2> QED
    BY <1>4, <1>5, RowStable
<1>7. CASE table[in.slot] = 0 /\ Stop("crash") /\ UNCHANGED lli
  <2>1. /\ phase' = "crash" /\ UNCHANGED <<stack, table, llvm, program>>
    BY <1>7 DEF Stop, lli, back
  <2>2. \/ Left(program, in.klass, MainPos) = {}
        \/ ~Stable(program, in.klass, o, MainPos)
        \/ program[MainPos].op = "DEF_METHOD"
    <3> SUFFICES ASSUME Left(program, in.klass, MainPos) # {},
                        Stable(program, in.klass, o, MainPos),
                        program[MainPos].op # "DEF_METHOD"
                 PROVE  FALSE
      OBVIOUS
    <3>1. program[MainPos].op = "DEF_FUNC"
      BY <1>1, TheRun
    <3>2. table[Row(program, in.klass, MainPos)] # 0
      BY <1>1, <1>6, <3>1, TheRun
    <3> QED
      BY <1>6, <1>7, <3>2
  <2>3. EmptySlots'
    <3>1. MainPos' = MainPos /\ top' = top /\ Code(top.fn)' = Code(top.fn)
      BY <2>1 DEF MainPos, top, Code
    <3> QED
      BY <2>1, <2>2, <3>1 DEF EmptySlots, Code
  <2> QED
    BY <2>1, <2>3, RunStays, RunKeeps
<1>8. CASE table[in.slot] # 0 /\ Enter(table[in.slot], <<x, None>>)
  <2> DEFINE f == table[in.slot]
  <2>1. f \in Real /\ f \in 1 .. Len(llvm)
    BY <1>1, <1>2, <1>8, Running DEF Real
  <2>2. PICK k \in ClassesBefore(program, MainPos) :
          in.slot = Row(program, k, MainPos) /\ llvm[f].own \in Left(program, k, MainPos)
    BY <1>1, <1>2, <1>8, TheRun
  <2>3. k \in Klass
    BY <2>2 DEF ClassesBefore
  <2>4. llvm[f].own < MainPos /\ program[llvm[f].own].op = "DEF_METHOD" /\ llvm[f].own \in Nat
    BY <1>4, <2>2, <2>3, <2>1, LeftShape, MainFunction
  <2>5. llvm[f].own <= MainPos /\ llvm[f].stores = {}
    <3> HIDE DEF f
    <3>1. llvm[f].own <= MainPos
      BY <1>4, <2>4
    <3>2. llvm[f].stores = {}
      BY <2>1, <2>4 DEF DInv, StoresReach
    <3> QED
      BY <3>1, <3>2
  <2>6. Stable(program, in.klass, o, MainPos) => llvm[f].own \in Left(program, in.klass, MainPos)
    <3> HIDE DEF in, o, f
    <3>1. Stable(program, in.klass, o, MainPos) => k = in.klass
      BY <1>4, <1>6, <2>2, RowInjective
    <3> QED
      BY <2>2, <3>1
  <2>7. <<x, None>> \in Seq(Objects)
    <3>1. None \in Objects /\ x \in Objects
      BY <1>2, <1>3 DEF Frames, Objects
    <3> HIDE DEF x
    <3> QED
      BY <3>1
  <2>8. in = Code(top.fn)[top.pc] /\ o = llvm[top.fn].own /\ Enter(f, <<x, None>>)
    BY <1>8
  <2> HIDE DEF in, x, f
  <2>9. Frame(f, <<x, None>>) \in Frames
    BY <2>1, <2>7, FrameType
  <2> QED
    BY <1>1, <2>1, <2>5, <2>6, <2>8, <2>9, EnterKeeps
<1> QED
  BY <1>7, <1>8 DEF RunSlot

-----------------------------------------------------------------------------
LEMMA DInv_init == Init => DInv
<1> SUFFICES ASSUME Init PROVE DInv
  OBVIOUS
<1>1. /\ llvm = <<>> /\ stack = <<>> /\ klasses = {} /\ phase = "parse"
      /\ method_map = [k \in Klass |-> 0] /\ table = [s \in Slots |-> 0]
  BY DEF Init
<1>2. \A f \in 1 .. Len(llvm) : FALSE
  BY <1>1
<1>3. NamesAreUnique /\ CallsReach /\ StoresReach
  BY <1>2 DEF NamesAreUnique, CallsReach, StoresReach
<1>4. StoresComplete
  BY <1>2 DEF StoresComplete, Real
<1>5. MapsFollowText
  BY <1>1 DEF MapsFollowText
<1>6. TableIsMains /\ EmptySlots
  BY <1>1 DEF TableIsMains, EmptySlots
<1>7. SlotsDispatch
  BY <1>1 DEF SlotsDispatch
<1> QED
  BY <1>3, <1>4, <1>5, <1>6, <1>7 DEF DInv

LEMMA IdleKeeps ==
  ASSUME DInv, UNCHANGED all
  PROVE  DInv'
<1>1. UNCHANGED <<program, phase, pos, klasses, method_map, llvm, cur, stack, table>>
  BY DEF all, back, lli
<1>2. StoresComplete'
  BY <1>1, StoresStay DEF DInv
<1>3. MapsFollowText'
  <2>1. Reached' = Reached
    BY <1>1 DEF Reached
  <2> QED
    BY <1>1, <2>1 DEF DInv, MapsFollowText
<1>4. EmptySlots'
  <2>1. MainPos' = MainPos /\ top' = top /\ Code(top.fn)' = Code(top.fn)
    BY <1>1 DEF MainPos, top, Code
  <2> QED
    BY <1>1, <2>1 DEF DInv, EmptySlots, Code
<1> QED
  BY <1>1, <1>2, <1>3, <1>4, ModuleStays, RunStays DEF DInv

LEMMA DInv_step == IInv /\ DInv /\ [Next]_all => DInv'
<1> SUFFICES ASSUME IInv, DInv, [Next]_all PROVE DInv'
  OBVIOUS
<1>1. CASE Parse
  BY <1>1, ParseKeeps
<1>2. CASE exec_def_class_codegen
  BY <1>2, DefClassKeeps
<1>3. CASE exec_def_func_codegen
  BY <1>3, DefFuncKeeps
<1>4. CASE exec_def_method_codegen
  BY <1>4, DefMethodKeeps
<1>5. CASE exec_def_var_codegen
  BY <1>5, DefVarKeeps
<1>6. CASE exec_call_func_codegen
  BY <1>6, CallFuncKeeps
<1>7. CASE exec_call_method_codegen
  BY <1>7, CallMethodKeeps
<1>8. CASE finish_function
  BY <1>8, FinishKeeps
<1>9. CASE WriteBitcodeToFile
  BY <1>9, WriteKeeps
<1>10. CASE Load
  BY <1>10, LoadKeeps
<1>11. CASE RunAlloc /\ UNCHANGED <<program, pos, work, front, back>>
  BY <1>11, AllocKeeps
<1>12. CASE RunCall /\ UNCHANGED <<program, pos, work, front, back>>
  BY <1>12, CallKeeps
<1>13. CASE RunSlot /\ UNCHANGED <<program, pos, work, front, back>>
  BY <1>13, SlotKeeps
<1>14. CASE RunReturn /\ UNCHANGED <<program, pos, work, front, back>>
  BY <1>14, ReturnKeeps
<1>15. CASE UNCHANGED all
  BY <1>15, IdleKeeps
<1> QED
  BY <1>1, <1>2, <1>3, <1>4, <1>5, <1>6, <1>7, <1>8, <1>9, <1>10, <1>11, <1>12, <1>13,
     <1>14, <1>15 DEF Next, Codegen, Run

LEMMA DInv_invariant == Spec => []DInv
BY IInv_init, IInv_step, DInv_init, DInv_step, PTL DEF Spec

(* A method call executes the function compiled for the newest method of   *)
(* the receiver's declared class that main's stores still find: the slot   *)
(* the call was compiled with (exec_call_method, from getDefId at that     *)
(* moment) and the one main fills (setFuncPtrArry, from getDefId at the    *)
(* end) are the same as long as no class is added in between that sorts    *)
(* before it, in any program, of any number of classes.                    *)
THEOREM Dispatch_DispatchesToStaticClass == Spec => []DispatchesToStaticClass
<1>1. DInv => DispatchesToStaticClass
  <2>1. \A k : Surviving(k) = Left(program, k, MainPos)
    BY DEF Surviving, Left
  <2>2. \A k, i : StableId(k, i) <=> Stable(program, k, i, MainPos)
    BY DEF StableId, Stable
  <2> QED
    BY <2>1, <2>2 DEF DInv, SlotsDispatch, DispatchesToStaticClass
<1> QED
  BY DInv_invariant, <1>1, PTL

(* A running program calls address 0 only when the receiver's class has no *)
(* method left, when a class added later moved its index, or when lli      *)
(* started a method called main, which exec_def_method_codegen gives no    *)
(* stores: exec_def_func_codegen alone calls setFuncPtrArry.               *)
THEOREM Dispatch_EmptySlotHasACause == Spec => []EmptySlotHasACause
<1>1. DInv => EmptySlotHasACause
  <2>1. \A k : Surviving(k) = Left(program, k, MainPos)
    BY DEF Surviving, Left
  <2>2. \A k, i : StableId(k, i) <=> Stable(program, k, i, MainPos)
    BY DEF StableId, Stable
  <2> QED
    BY <2>1, <2>2 DEF DInv, EmptySlots, EmptySlotHasACause
<1> QED
  BY DInv_invariant, <1>1, PTL

-----------------------------------------------------------------------------
(***************************************************************************)
(* Calls by name: which of a written module stay unresolved, and what an   *)
(* assertion of code generation is due to.                                 *)
(*                                                                         *)
(* LLVM gives a name to the first function created with it.  A declaration *)
(* creates a function with a body, a call of a name that is not there yet  *)
(* creates a stub, and the one that comes second gets a name of LLVM's     *)
(* own.  So the order in which the text mentions and declares a name       *)
(* decides what its calls reach.  The invariant LInv says so of every      *)
(* state: registered functions, interned names and generated code are      *)
(* those of the text read up to here, Mentioning, Early and Declared being *)
(* that part of the text.  A table that is full holds different names, or  *)
(* different callables, of the text, and counting them gives the causes of *)
(* the two capacity assertions.  The proofs use IInv and DInv.             *)
(***************************************************************************)

(***************************************************************************)
(* The text read up to statement s of the body compiled for declaration P: *)
(* the declarations whose bodies mention n in a call there, whether that   *)
(* is ahead of every declaration of n, and whether n is declared before P. *)
(***************************************************************************)
Body(p, i) == p[Greatest(CallableDecls(p, p[i].sym))].body

CallOps == {"CALL_FUNC", "CALL_METHOD"}

Past(i, j, P, s) == i < P \/ (i = P /\ j < s)

Mentioning(p, n, P, s) ==
  {i \in 1 .. Len(p) :
     /\ p[i].op \in Callables
     /\ \E j \in 1 .. Len(Body(p, i)) :
          Body(p, i)[j].op \in CallOps /\ Body(p, i)[j].sym = n /\ Past(i, j, P, s)}

Early(p, n, P, s) == \E i \in Mentioning(p, n, P, s) : \A d \in CallableDecls(p, n) : i < d

Declared(p, n, P) == \E d \in CallableDecls(p, n) : d < P

(* The statement the code generator is at. *)
Here == IF cur = 0 THEN 1 ELSE Done

(* The functions of module m that have the name n. *)
NamedIn(m, n) == {f \in 1 .. Len(m) : m[f].sym = n /\ m[f].named}

(* What a program's text is made of: every name, and every callable. *)
AllNames == UNION {NamesIn(n) : n \in UNION {NodesOf(i) : i \in 1 .. Len(program)}}
AllCallables == {i \in 1 .. Len(program) : program[i].op \in Callables}

(* Callables are registered in the order of the text, each once. *)
FuncsFollowText ==
  /\ \A i, j \in 1 .. Len(funcs) : i < j => funcs[i].decl < funcs[j].decl
  /\ phase = "parse" => \A j \in 1 .. Len(funcs) : funcs[j].decl < pos
  /\ \A i \in AllCallables :
       phase = "codegen" \/ (phase = "parse" /\ i < pos)
         => \E j \in 1 .. Len(funcs) : funcs[j].decl = i

(* Symbols are different names of the text, the defined classes included. *)
Clean(t) ==
  /\ t \in Seq(Name)
  /\ \A i, j \in 1 .. Len(t) : t[i] = t[j] => i = j
  /\ \A i \in 1 .. Len(t) : t[i] \in AllNames

SymbolsFollowText ==
  /\ Clean(syms)
  /\ phase = "parse" =>
       \A c \in DeclsOf(program, "DEF_CLASS") :
         c < pos => \E i \in 1 .. Len(syms) : syms[i] = program[c].sym

(* The first claim to a name, by a declaration or by a call, decides what  *)
(* has it: a function with a body, or a stub.                              *)
NamesFollowText ==
  phase \in {"codegen", "written"} =>
    \A n \in Name \cup {Main} :
      /\ Named(n) = {} <=>
           ~Declared(program, n, Reached) /\ Mentioning(program, n, pos, Here) = {}
      /\ \A f \in Named(n) : f \in Stubs <=> Early(program, n, pos, Here)

(* The instruction that exec_def_var_codegen, exec_call_func_codegen or    *)
(* exec_call_method_codegen makes of statement s.                          *)
Translates(in, s) ==
  \/ /\ s.op = "DEF_VAR" /\ in.op = "alloc"
     /\ in.var = s.sym /\ in.klass = s.klass
  \/ /\ s.op = "CALL_FUNC" /\ in.op = "call"
     /\ in.sym = s.sym /\ in.arg = s.arg
  \/ /\ s.op = "CALL_METHOD" /\ in.op = "slot"
     /\ in.sym = s.sym /\ in.reciever = s.reciever

(* What a function's instructions come from, and which functions the       *)
(* module has.                                                             *)
CodeFollowsText ==
  /\ \A f \in Stubs : llvm[f].code = <<>>
  /\ \A f \in Real :
       /\ llvm[f].decl = Greatest(CallableDecls(program, llvm[f].sym))
       /\ f # cur => Len(Code(f)) = Len(Body(program, llvm[f].own))
       /\ \A i \in 1 .. Len(Code(f)) :
            LET in == Code(f)[i]
                s  == Body(program, llvm[f].own)[i]
            IN  /\ Translates(in, s)
                /\ in.op = "call" => llvm[in.fn].sym = s.sym

ModuleFollowsText ==
  /\ phase \in {"codegen", "written"} =>
       \A i \in AllCallables : i < Reached => \E f \in Real : llvm[f].own = i
  /\ phase = "written" => cur = 0 /\ pos > Len(program)

LInv ==
  /\ FuncsFollowText
  /\ SymbolsFollowText
  /\ NamesFollowText
  /\ CodeFollowsText
  /\ ModuleFollowsText
  /\ UnresolvedIffUsedFirst
  /\ AssertHasACause

-----------------------------------------------------------------------------
(***************************************************************************)
(* Facts about the text.                                                   *)
(***************************************************************************)

(* The greatest member is the one that bounds the others. *)
LEMMA GreatestIs ==
  ASSUME NEW n \in Nat, NEW S, S \subseteq 1 .. n, NEW g \in S, \A j \in S : j <= g
  PROVE  Greatest(S) = g
<1>1. Greatest(S) \in S /\ \A j \in S : j <= Greatest(S)
  BY HasGreatest
<1>2. \A j \in S : j \in Nat
  OBVIOUS
<1>3. \A a, b \in Nat : a <= b /\ b <= a => a = b
  OBVIOUS
<1> QED
  BY <1>1, <1>2, <1>3

LEMMA BodyShape ==
  ASSUME NEW p \in Programs, NEW i \in 1 .. Len(p), p[i].op \in Callables
  PROVE  LET g == Greatest(CallableDecls(p, p[i].sym)) IN
         /\ g \in CallableDecls(p, p[i].sym) /\ g \in 1 .. Len(p) /\ p[g].op \in Callables
         /\ \A d \in CallableDecls(p, p[i].sym) : d <= g
         /\ p[g] \in Declarations
         /\ p[g].args \in Seq(VarNodes)
         /\ Body(p, i) = p[g].body
         /\ Body(p, i) \in Seq(Statements) /\ Len(Body(p, i)) \in Nat
<1> DEFINE S == CallableDecls(p, p[i].sym)
           g == Greatest(S)
<1>1. Len(p) \in Nat /\ S \subseteq 1 .. Len(p) /\ i \in S
  BY ProgramShape DEF CallableDecls
<1>2. g \in S /\ \A d \in S : d <= g
  <2> HIDE DEF S
  <2> QED
    BY <1>1, HasGreatest
<1>3. g \in 1 .. Len(p) /\ p[g].op \in Callables
  BY <1>2 DEF CallableDecls
<1>4. p[g] \in Declarations
  BY <1>3, ProgramShape
<1>5. p[g].body \in Seq(Statements) /\ p[g].args \in Seq(VarNodes)
  BY <1>3, <1>4, CallableShape
<1>6. Body(p, i) = p[g].body
  BY DEF Body
<1> QED
  BY <1>2, <1>3, <1>4, <1>5, <1>6

(* One statement more. *)
LEMMA MentionStatement ==
  ASSUME NEW p \in Programs, NEW P \in 1 .. Len(p), p[P].op \in Callables,
         NEW s \in 1 .. Len(Body(p, P)), NEW n
  PROVE  LET b == Body(p, P)[s] IN
         /\ \A i \in Mentioning(p, n, P, s) : i <= P /\ i \in Nat
         /\ Mentioning(p, n, P, s + 1) = Mentioning(p, n, P, s)
              \cup (IF b.op \in CallOps /\ b.sym = n THEN {P} ELSE {})
<1>1. /\ Len(p) \in Nat /\ P \in Nat /\ s \in Nat
      /\ \A i \in 1 .. Len(p) : i \in Nat
  BY ProgramShape, BodyShape
<1>2. \A i \in Mentioning(p, n, P, s) : i <= P /\ i \in Nat
  BY <1>1 DEF Mentioning, Past
<1>3. ASSUME NEW i \in 1 .. Len(p), NEW j \in Nat
      PROVE  Past(i, j, P, s + 1) <=> Past(i, j, P, s) \/ (i = P /\ j = s)
  BY <1>1 DEF Past
<1>4. ASSUME NEW i \in 1 .. Len(p), p[i].op \in Callables
      PROVE  i \in Mentioning(p, n, P, s + 1) <=>
               \/ i \in Mentioning(p, n, P, s)
               \/ i = P /\ Body(p, P)[s].op \in CallOps /\ Body(p, P)[s].sym = n
  <2>1. \A j \in 1 .. Len(Body(p, i)) : j \in Nat
    BY <1>4, BodyShape
  <2> QED
    BY <1>3, <1>4, <2>1 DEF Mentioning
<1>5. Mentioning(p, n, P, s + 1) \subseteq {i \in 1 .. Len(p) : p[i].op \in Callables}
      /\ Mentioning(p, n, P, s) \subseteq {i \in 1 .. Len(p) : p[i].op \in Callables}
  BY DEF Mentioning
<1> QED
  BY <1>2, <1>4, <1>5

(* One declaration more. *)
LEMMA MentionDeclaration ==
  ASSUME NEW p \in Programs, NEW P \in 1 .. Len(p), NEW s, NEW n,
         s = IF p[P].op \in Callables THEN Len(Body(p, P)) + 1 ELSE 1
  PROVE  Mentioning(p, n, P + 1, 1) = Mentioning(p, n, P, s)
<1>1. Len(p) \in Nat /\ P \in Nat
  BY ProgramShape
<1>2. ASSUME NEW i \in 1 .. Len(p), p[i].op \in Callables, NEW j \in 1 .. Len(Body(p, i))
      PROVE  Past(i, j, P + 1, 1) <=> Past(i, j, P, s)
  <2>1. i \in Nat /\ j \in Nat /\ Len(Body(p, i)) \in Nat /\ 1 <= j /\ j <= Len(Body(p, i))
    BY <1>1, <1>2, BodyShape
  <2>2. i < P + 1 <=> i < P \/ i = P
    BY <1>1, <2>1
  <2>3. i = P => j < s
    BY <1>2, <2>1
  <2>4. ~(i = P + 1 /\ j < 1)
    BY <2>1
  <2> QED
    BY <2>2, <2>3, <2>4 DEF Past
<1> QED
  BY <1>2 DEF Mentioning

LEMMA MentionNothing ==
  ASSUME NEW p \in Programs, NEW n
  PROVE  Mentioning(p, n, 1, 1) = {}
<1>1. \A i \in 1 .. Len(p) : p[i].op \in Callables =>
        \A j \in 1 .. Len(Body(p, i)) : ~Past(i, j, 1, 1)
  <2> TAKE i \in 1 .. Len(p)
  <2> HAVE p[i].op \in Callables
  <2> TAKE j \in 1 .. Len(Body(p, i))
  <2>1. i \in Nat /\ j \in Nat /\ 1 <= i /\ 1 <= j
    BY ProgramShape, BodyShape
  <2> QED
    BY <2>1 DEF Past
<1> QED
  BY <1>1 DEF Mentioning

LEMMA DeclaredStep ==
  ASSUME NEW p \in Programs, NEW P \in 1 .. Len(p), NEW n
  PROVE  /\ Declared(p, n, P + 1) <=>
              Declared(p, n, P) \/ (p[P].op \in Callables /\ p[P].sym = n)
         /\ ~Declared(p, n, 1)
<1>1. P \in Nat /\ Len(p) \in Nat /\ \A d \in CallableDecls(p, n) : d \in Nat /\ d >= 1
  BY ProgramShape DEF CallableDecls
<1>2. \A d \in CallableDecls(p, n) : d < P + 1 <=> d < P \/ d = P
  BY <1>1
<1>3. P \in CallableDecls(p, n) <=> p[P].op \in Callables /\ p[P].sym = n
  BY DEF CallableDecls
<1>4. P < P + 1
  BY <1>1
<1>5. ~Declared(p, n, 1)
  BY <1>1 DEF Declared
<1>6. Declared(p, n, P + 1) <=>
        Declared(p, n, P) \/ (p[P].op \in Callables /\ p[P].sym = n)
  BY <1>2, <1>3, <1>4 DEF Declared
<1> QED
  BY <1>5, <1>6

(* At the end of the text. *)
LEMMA MentionAll ==
  ASSUME NEW n, program \in Programs
  PROVE  LET P == Len(program) + 1 IN
         /\ Early(program, n, P, 1) <=> UsedFirst(n)
         /\ Declared(program, n, P) <=> CallableDecls(program, n) # {}
<1>1. Len(program) \in Nat
  BY ProgramShape
<1>2. \A i \in 1 .. Len(program) : \A j : Past(i, j, Len(program) + 1, 1)
  BY <1>1 DEF Past
<1>3. \A i : Body(program, i) = CompiledBody(i)
  BY DEF Body, CompiledBody
<1>4. \A i \in 1 .. Len(program) :
        i \in Mentioning(program, n, Len(program) + 1, 1) <=>
          program[i].op \in Callables /\ Mentions(i, n, CallOps)
  BY <1>2, <1>3 DEF Mentioning, Mentions
<1>5. Mentioning(program, n, Len(program) + 1, 1) \subseteq 1 .. Len(program)
  BY DEF Mentioning
<1>6. Early(program, n, Len(program) + 1, 1) <=> UsedFirst(n)
  BY <1>4, <1>5 DEF Early, UsedFirst, CallOps
<1>7. Declared(program, n, Len(program) + 1) <=> CallableDecls(program, n) # {}
  <2>1. \A d \in CallableDecls(program, n) : d < Len(program) + 1
    BY <1>1 DEF CallableDecls
  <2> QED
    BY <2>1 DEF Declared
<1> QED
  BY <1>6, <1>7

-----------------------------------------------------------------------------
(***************************************************************************)
(* What a full table says of the text.                                     *)
(***************************************************************************)
LEMMA ImageFinite ==
  ASSUME NEW I, IsFiniteSet(I), NEW f, f = [i \in I |-> f[i]]
  PROVE  IsFiniteSet({f[i] : i \in I})
<1> DEFINE S == {f[i] : i \in I}
<1>1. f \in Surjection(I, S)
  BY DEF Surjection
<1> HIDE DEF S
<1>2. IsFiniteSet(S)
  BY <1>1, FS_Surjection
<1> QED
  BY <1>2 DEF S

LEMMA NodesFinite ==
  ASSUME NEW d \in Declarations
  PROVE  IsFiniteSet({Nodes(d)[j] : j \in 1 .. Len(Nodes(d))})
<1> DEFINE N == Nodes(d)
           I == 1 .. Len(N)
           f == [j \in I |-> N[j]]
<1>1. Len(N) \in Nat
  BY NodesShape
<1>2. IsFiniteSet(I)
  <2> HIDE DEF N
  <2> QED
    BY <1>1, FS_Interval
<1>3. IsFiniteSet({f[j] : j \in I})
  <2>1. f = [j \in I |-> f[j]]
    OBVIOUS
  <2> HIDE DEF I, f
  <2> QED
    BY <1>2, <2>1, ImageFinite
<1> QED
  BY <1>3

LEMMA NodesOfDeclaration ==
  ASSUME program \in Programs, NEW i \in 1 .. Len(program)
  PROVE  /\ IsFiniteSet(NodesOf(i))
         /\ \A j \in 1 .. Len(Nodes(program[i])) : Nodes(program[i])[j] \in NodesOf(i)
         /\ program[i].op \in Callables =>
              LET g == Greatest(CallableDecls(program, program[i].sym)) IN
              \A j \in 1 .. Len(Nodes(program[g])) : Nodes(program[g])[j] \in NodesOf(i)
<1> DEFINE g   == Greatest(CallableDecls(program, program[i].sym))
           own == {Nodes(program[i])[j] : j \in 1 .. Len(Nodes(program[i]))}
           run == {Nodes(program[g])[j] : j \in 1 .. Len(Nodes(program[g]))}
<1>1. NodesOf(i) = own \cup IF program[i].op = "DEF_CLASS" THEN {} ELSE run
  BY DEF NodesOf
<1>2. program[i] \in Declarations /\ IsFiniteSet(own)
  <2>1. program[i] \in Declarations
    BY ProgramShape
  <2> QED
    BY <2>1, NodesFinite
<1>3. program[i].op # "DEF_CLASS" => program[i].op \in Callables
  BY <1>2, DeclarationShape DEF Callables
<1>4. program[i].op \in Callables => IsFiniteSet(run)
  <2> SUFFICES ASSUME program[i].op \in Callables PROVE IsFiniteSet(run)
    OBVIOUS
  <2>1. program[g] \in Declarations
    BY BodyShape
  <2> QED
    BY <2>1, NodesFinite
<1>5. program[i].op \in Callables => program[i].op # "DEF_CLASS"
  BY DEF Callables
<1>6. IsFiniteSet(NodesOf(i))
  <2> HIDE DEF own, run
  <2>1. CASE program[i].op = "DEF_CLASS"
    BY <1>1, <1>2, <2>1
  <2>2. CASE program[i].op # "DEF_CLASS"
    BY <1>1, <1>2, <1>3, <1>4, <2>2, FS_Union
  <2> QED
    BY <2>1, <2>2
<1> QED
  BY <1>1, <1>5, <1>6

LEMMA NamesInFinite ==
  ASSUME NEW n
  PROVE  IsFiniteSet(NamesIn(n))
<1> DEFINE A == {n.sym} \ {None}
           B == CASE n.op = "DEF_VAR"   -> {n.klass} \ {Prim}
                  [] n.op = "DEF_CLASS" -> {n.super} \ {None}
                  [] n.op \in {"CALL_METHOD", "DEF_METHOD"} -> {n.reciever}
                  [] OTHER -> {}
<1>1. \A x, y : IsFiniteSet({x}) /\ IsFiniteSet({x} \ {y})
  BY FS_Singleton, FS_Difference
<1>2. IsFiniteSet(A) /\ IsFiniteSet(B)
  BY <1>1, FS_EmptySet
<1>3. NamesIn(n) = A \cup B
  BY DEF NamesIn
<1> HIDE DEF A, B
<1> QED
  BY <1>2, <1>3, FS_Union

LEMMA NamesFinite ==
  ASSUME program \in Programs
  PROVE  IsFiniteSet(AllNames)
<1> DEFINE I == 1 .. Len(program)
           f == [i \in I |-> NodesOf(i)]
           T == {f[i] : i \in I}
           N == UNION T
           g == [n \in N |-> NamesIn(n)]
           U == {g[n] : n \in N}
<1>1. IsFiniteSet(I)
  BY ProgramShape, FS_Interval
<1>2. IsFiniteSet(T)
  <2>1. f = [i \in I |-> f[i]]
    OBVIOUS
  <2> HIDE DEF I, f
  <2> QED
    BY <1>1, <2>1, ImageFinite
<1>3. IsFiniteSet(N)
  <2>1. \A t \in T : IsFiniteSet(t)
    BY NodesOfDeclaration
  <2> HIDE DEF T
  <2> QED
    BY <1>2, <2>1, FS_UNION
<1>4. IsFiniteSet(U)
  <2>1. g = [n \in N |-> g[n]]
    OBVIOUS
  <2> HIDE DEF N, g
  <2> QED
    BY <1>3, <2>1, ImageFinite
<1>5. \A u \in U : IsFiniteSet(u)
  BY NamesInFinite
<1>6. IsFiniteSet(UNION U)
  <2> HIDE DEF U
  <2> QED
    BY <1>4, <1>5, FS_UNION
<1>7. AllNames = UNION U
  <2>1. N = UNION {NodesOf(i) : i \in I}
    OBVIOUS
  <2> HIDE DEF N
  <2>2. U = {NamesIn(n) : n \in N}
    OBVIOUS
  <2> QED
    BY <2>1, <2>2 DEF AllNames
<1> QED
  BY <1>6, <1>7

(* More different members than a set has room for. *)
LEMMA TooManyMembers ==
  ASSUME NEW S, IsFiniteSet(S), NEW m \in Nat, NEW k \in Nat, m > k,
         NEW f \in [1 .. m -> S], \A i, j \in 1 .. m : f[i] = f[j] => i = j
  PROVE  Cardinality(S) > k
<1>1. IsFiniteSet(1 .. m) /\ Cardinality(1 .. m) = m
  BY FS_Interval
<1>2. Cardinality(S) \in Nat
  BY FS_CardinalityType
<1>3. ASSUME Cardinality(S) < m PROVE FALSE
  BY <1>1, <1>3, FS_PigeonHole
<1> QED
  BY <1>2, <1>3

LEMMA TooManyNames ==
  ASSUME program \in Programs, NEW t, Clean(t), TooLong(t)
  PROVE  Cardinality(AllNames) > SYMBOL_MAX
<1>1. t \in Seq(Name) /\ Len(t) \in Nat /\ Len(t) > SYMBOL_MAX /\ SYMBOL_MAX \in Nat
  BY SymbolMaxAssumption DEF Clean, TooLong
<1>2. t \in [1 .. Len(t) -> AllNames]
  BY <1>1 DEF Clean
<1>3. \A i, j \in 1 .. Len(t) : t[i] = t[j] => i = j
  BY DEF Clean
<1> QED
  BY <1>1, <1>2, <1>3, NamesFinite, TooManyMembers

LEMMA TooManyFuncs ==
  ASSUME IInv, FuncsFollowText, phase = "parse", FuncsFull(funcs), pos \in AllCallables
  PROVE  Cardinality(AllCallables) > FUNC_MAX
<1> DEFINE m == FUNC_MAX + 1
           f == [i \in 1 .. m |-> IF i = m THEN pos ELSE funcs[i].decl]
<1>1. FUNC_MAX \in Nat /\ Len(funcs) = FUNC_MAX /\ m \in Nat /\ m > FUNC_MAX
  BY FuncMaxAssumption DEF FuncsFull
<1>2. \A i \in 1 .. m : i # m => i \in 1 .. Len(funcs)
  BY <1>1
<1>3. \A i \in 1 .. Len(funcs) : /\ funcs[i].decl \in AllCallables
                                 /\ funcs[i].decl < pos
  BY DEF IInv, Tables, CallableDecls, AllCallables, FuncsFollowText
<1>4. pos \in Nat /\ AllCallables \subseteq Nat
  BY ProgramShape DEF IInv, AllCallables
<1>5. f \in [1 .. m -> AllCallables]
  BY <1>2, <1>3
<1>6. ASSUME NEW i \in 1 .. m, NEW j \in 1 .. m, i < j PROVE f[i] # f[j]
  <2>1. i # m /\ i \in 1 .. Len(funcs)
    BY <1>1, <1>2, <1>6
  <2>2. CASE j = m
    BY <1>3, <1>4, <2>1, <2>2
  <2>3. CASE j # m
    <3>1. funcs[i].decl < funcs[j].decl
      BY <1>2, <1>6, <2>1, <2>3 DEF FuncsFollowText
    <3>2. f[i] = funcs[i].decl /\ f[j] = funcs[j].decl
      BY <2>1, <2>3
    <3>3. funcs[i].decl \in Nat /\ funcs[j].decl \in Nat
      BY <1>2, <1>3, <1>4, <2>1, <2>3
    <3> HIDE DEF f
    <3> QED
      BY <3>1, <3>2, <3>3
  <2> QED
    BY <2>2, <2>3
<1>7. \A i, j \in 1 .. m : f[i] = f[j] => i = j
  <2> HIDE DEF f
  <2>1. \A i, j \in 1 .. m : i < j \/ j < i \/ i = j
    BY <1>1
  <2> QED
    BY <1>6, <2>1
<1>8. IsFiniteSet(AllCallables)
  <2>1. IsFiniteSet(1 .. Len(program)) /\ AllCallables \subseteq 1 .. Len(program)
    BY ProgramShape, FS_Interval DEF IInv, AllCallables
  <2> QED
    BY <2>1, FS_Subset
<1> HIDE DEF f, m
<1>9. Cardinality(AllCallables) > FUNC_MAX
  BY <1>1, <1>5, <1>7, <1>8, TooManyMembers
<1> QED
  BY <1>9

(* Interning a name of the text keeps the table clean. *)
Adds(t, new, x) ==
  /\ Clean(new)
  /\ \A i \in 1 .. Len(t) : \E j \in 1 .. Len(new) : new[j] = t[i]
  /\ \E j \in 1 .. Len(new) : new[j] = x

LEMMA InternClean ==
  ASSUME NEW t, Clean(t), NEW x \in Name, x \in AllNames
  PROVE  Adds(t, lookup_make_symbol(t, x), x)
<1> DEFINE new == lookup_make_symbol(t, x)
<1>1. t \in Seq(Name) /\ Len(t) \in Nat
  BY DEF Clean
<1>2. CASE lookup_symbol(t, x) # NULL
  <2>1. Matches(t, x) # {}
    BY <1>2 DEF lookup_symbol
  <2>2. \E j \in 1 .. Len(t) : t[j] = x
    BY <2>1 DEF Matches
  <2>3. new = t
    BY <1>2 DEF lookup_make_symbol
  <2> QED
    BY <2>2, <2>3 DEF Adds
<1>3. CASE lookup_symbol(t, x) = NULL
  <2>1. \A i \in 1 .. Len(t) : t[i] # x
    BY <1>1, <1>3, SymbolFound
  <2>2. new = Append(t, x)
    BY <1>3 DEF lookup_make_symbol, make_symbol
  <2> HIDE DEF new
  <2>3. /\ new \in Seq(Name) /\ Len(new) = Len(t) + 1
        /\ \A i \in 1 .. Len(t) : new[i] = t[i] /\ i \in 1 .. Len(new)
        /\ new[Len(t) + 1] = x /\ Len(t) + 1 \in 1 .. Len(new)
        /\ \A i \in 1 .. Len(new) : i \in 1 .. Len(t) \/ i = Len(t) + 1
    BY <1>1, <2>2
  <2>4. \A i, j \in 1 .. Len(new) : new[i] = new[j] => i = j
    BY <2>1, <2>3 DEF Clean
  <2>5. \A i \in 1 .. Len(new) : new[i] \in AllNames
    BY <2>3 DEF Clean
  <2>6. Clean(new)
    BY <2>3, <2>4, <2>5 DEF Clean
  <2>7. Adds(t, new, x)
    BY <2>3, <2>6 DEF Adds
  <2> QED
    BY <2>7 DEF new
<1> QED
  BY <1>2, <1>3

-----------------------------------------------------------------------------
(***************************************************************************)
(* Parsing.                                                                *)
(***************************************************************************)

(* Every step of the parser gives up, or interns the names of its node and *)
(* registers the callable it declares.                                     *)
Twice(a, b) == lookup_make_symbol(lookup_make_symbol(syms, a), b)

LEMMA ParseShape ==
  ASSUME IInv, Parse
  PROVE  LET n == Head(work) IN
         /\ phase = "parse" /\ UNCHANGED <<program, back, lli>>
         /\ \/ phase' = "crash" /\ UNCHANGED <<pos, work, syms, funcs>>
            \/ /\ phase' = "assert" /\ UNCHANGED <<pos, work, syms, funcs>>
               /\ \/ n.op = "DEF_VAR" /\ ~get_type_by_name(n.klass)
                  \/ \E a \in NamesIn(n) \cap Name : TooLong(lookup_make_symbol(syms, a))
                  \/ \E a, b \in NamesIn(n) \cap Name : TooLong(Twice(a, b))
                  \/ n.op \in Callables /\ FuncsFull(funcs)
            \/ /\ \E a, b \in NamesIn(n) \cap Name :
                    /\ syms' = Twice(a, b)
                    /\ n.op \notin {"CALL_METHOD", "DEF_VAR"} => n.sym \in {a, b}
               /\ funcs' = IF n.op \in Callables THEN make_func(funcs, n.sym, pos) ELSE funcs
               /\ NextNode
<1> DEFINE n == Head(work)
           A == NamesIn(n) \cap Name
           Goal == \/ phase' = "crash" /\ UNCHANGED <<pos, work, syms, funcs>>
                   \/ /\ phase' = "assert" /\ UNCHANGED <<pos, work, syms, funcs>>
                      /\ \/ n.op = "DEF_VAR" /\ ~get_type_by_name(n.klass)
                         \/ \E a \in A : TooLong(lookup_make_symbol(syms, a))
                         \/ \E a, b \in A : TooLong(Twice(a, b))
                         \/ n.op \in Callables /\ FuncsFull(funcs)
                   \/ /\ \E a, b \in A :
                           /\ syms' = Twice(a, b)
                           /\ n.op \notin {"CALL_METHOD", "DEF_VAR"} => n.sym \in {a, b}
                      /\ funcs' = IF n.op \in Callables THEN make_func(funcs, n.sym, pos)
                                  ELSE funcs
                      /\ NextNode
<1>1. /\ phase = "parse" /\ UNCHANGED <<program, back, lli>>
      /\ \/ make_ast_def_var(n)
         \/ make_ast_call_func(n)
         \/ make_ast_call_method(n)
         \/ make_ast_def_class(n)
         \/ make_ast_def_func(n)
         \/ make_ast_def_method(n)
  BY DEF Parse
<1>2. n \in Statements \/ n \in Declarations
  BY <1>1, ParseHead
<1>3. ASSUME NEW a \in A, NEW b \in A, NEW registers \in BOOLEAN,
             registers <=> n.op \in Callables, registers => b = n.sym,
             n.op \notin {"CALL_METHOD", "DEF_VAR"} => n.sym \in {a, b},
             Reduce(a, b, registers)
      PROVE  Goal
  <2>1. interned(a, b) = Twice(a, b)
    BY DEF interned, Twice
  <2> HIDE DEF n, A
  <2>2. CASE TooLong(Twice(a, b)) \/ (registers /\ FuncsFull(funcs))
    <3>1. phase' = "assert" /\ UNCHANGED <<pos, work, syms, funcs>>
      BY <1>3, <2>1, <2>2 DEF Reduce, Stop
    <3> QED
      BY <1>3, <2>2, <3>1
  <2>3. CASE ~(TooLong(Twice(a, b)) \/ (registers /\ FuncsFull(funcs)))
    <3>1. /\ syms' = Twice(a, b)
          /\ funcs' = IF registers THEN make_func(funcs, b, pos) ELSE funcs
          /\ NextNode
      BY <1>3, <2>1, <2>3 DEF Reduce
    <3> QED
      BY <1>3, <3>1
  <2> QED
    BY <2>2, <2>3
<1> HIDE DEF Goal
<1>4. ASSUME make_ast_def_var(n) PROVE Goal
  <2>1. n.op = "DEF_VAR" /\ n \in VarNodes
    BY <1>2, <1>4, DeclarationShape, StatementShape DEF make_ast_def_var
  <2>2. n.sym \in Name /\ n.sym # None /\ n.klass \in Name \cup {Prim}
    BY <2>1, VarNodeShape, Constants
  <2>3. CASE ~get_type_by_name(n.klass)
    BY <1>4, <2>1, <2>3 DEF make_ast_def_var, Stop, Goal
  <2>4. CASE get_type_by_name(n.klass)
    <3>1. Reduce(IF n.klass = Prim THEN n.sym ELSE n.klass, n.sym, FALSE)
      BY <1>4, <2>4 DEF make_ast_def_var
    <3>2. n.sym \in A /\ (n.klass # Prim => n.klass \in A)
      BY <2>1, <2>2 DEF NamesIn
    <3> HIDE DEF n, A
    <3> QED
      BY <1>3, <2>1, <3>1, <3>2 DEF Callables
  <2> QED
    BY <2>3, <2>4
<1>5. ASSUME make_ast_call_func(n) PROVE Goal
  <2>1. n.op = "CALL_FUNC" /\ n.sym \in Name
    BY <1>2, <1>5, DeclarationShape, StatementShape DEF make_ast_call_func
  <2>2. n.sym \in A
    BY <2>1, Constants DEF NamesIn
  <2>3. Reduce(n.sym, n.sym, FALSE)
    BY <1>5 DEF make_ast_call_func
  <2> HIDE DEF n, A
  <2> QED
    BY <1>3, <2>1, <2>2, <2>3 DEF Callables
<1>6. ASSUME make_ast_call_method(n) PROVE Goal
  <2>1. n.op = "CALL_METHOD" /\ n.reciever \in Name /\ n.sym \in Name \cup {None}
    BY <1>2, <1>6, DeclarationShape, StatementShape, Constants DEF make_ast_call_method
  <2>2. n.reciever \in A
    BY <2>1 DEF NamesIn
  <2>3. CASE n.sym # None
    <3>1. n.sym \in A
      BY <2>1, <2>3 DEF NamesIn
    <3>2. Reduce(n.reciever, n.sym, FALSE)
      BY <1>6, <2>3 DEF make_ast_call_method
    <3> HIDE DEF n, A
    <3> QED
      BY <1>3, <2>1, <2>2, <3>1, <3>2 DEF Callables
  <2>4. CASE n.sym = None
    BY <1>6, <2>2, <2>4 DEF make_ast_call_method, Stop, Goal
  <2> QED
    BY <2>3, <2>4
<1>7. ASSUME make_ast_def_class(n) PROVE Goal
  <2>1. n.op = "DEF_CLASS" /\ n.sym \in Name /\ n.super \in Name \cup {None}
    BY <1>2, <1>7, DeclarationShape, StatementShape, Constants DEF make_ast_def_class
  <2>2. n.sym \in A /\ (n.super # None => n.super \in A)
    BY <2>1, Constants DEF NamesIn
  <2>3. Reduce(n.sym, IF n.super = None THEN n.sym ELSE n.super, FALSE)
    BY <1>7 DEF make_ast_def_class
  <2> HIDE DEF n, A
  <2> QED
    BY <1>3, <2>1, <2>2, <2>3 DEF Callables
<1>8. ASSUME make_ast_def_func(n) PROVE Goal
  <2>1. n.op = "DEF_FUNC" /\ n.sym \in Name
    BY <1>2, <1>8, StatementShape, CallableShape DEF make_ast_def_func, Callables
  <2>2. n.sym \in A
    BY <2>1, Constants DEF NamesIn
  <2>3. Reduce(n.sym, n.sym, TRUE)
    BY <1>8 DEF make_ast_def_func
  <2> HIDE DEF n, A
  <2> QED
    BY <1>3, <2>1, <2>2, <2>3 DEF Callables
<1>9. ASSUME make_ast_def_method(n) PROVE Goal
  <2>1. n.op = "DEF_METHOD" /\ n.sym \in Name /\ n.reciever \in Name
    BY <1>2, <1>9, StatementShape, CallableShape, Constants DEF make_ast_def_method, Callables
  <2>2. n.sym \in A /\ n.reciever \in A
    BY <2>1, Constants DEF NamesIn
  <2>3. Reduce(n.reciever, n.sym, TRUE)
    BY <1>9 DEF make_ast_def_method
  <2> HIDE DEF n, A
  <2> QED
    BY <1>3, <2>1, <2>2, <2>3 DEF Callables
<1>10. Goal
  BY <1>1, <1>4, <1>5, <1>6, <1>7, <1>8, <1>9
<1> QED
  BY <1>1, <1>10 DEF Goal

(* The node the parser is at belongs to the text. *)
LEMMA ParseNames ==
  ASSUME IInv, phase = "parse"
  PROVE  /\ Head(work) \in NodesOf(pos) /\ pos \in 1 .. Len(program)
         /\ NamesIn(Head(work)) \subseteq AllNames
<1> DEFINE N == Nodes(program[pos])
           j == Len(N) - Len(work) + 1
<1>1. pos \in 1 .. Len(program) /\ j \in 1 .. Len(N) /\ Head(work) = N[j]
  BY ParseHead
<1>2. Head(work) \in NodesOf(pos)
  <2> HIDE DEF j
  <2> QED
    BY <1>1, NodesOfDeclaration DEF IInv
<1>3. NamesIn(Head(work)) \subseteq AllNames
  BY <1>1, <1>2 DEF AllNames
<1> QED
  BY <1>1, <1>2, <1>3

LEMMA NextShape ==
  ASSUME IInv, phase = "parse", NextNode
  PROVE  \/ /\ Head(work) \in Statements
            /\ phase' = "parse" /\ pos' = pos
         \/ /\ Head(work) = program[pos]
            /\ phase' = "parse" /\ pos' = pos + 1
         \/ /\ Head(work) = program[pos]
            /\ phase' = "codegen" /\ pos' = 1 /\ pos = Len(program)
<1>1. /\ pos \in 1 .. Len(program) /\ Len(program) \in Nat
      /\ Len(work) \in 1 .. Len(Nodes(program[pos])) /\ work \in Seq(Node)
      /\ IF Len(work) = 1 THEN Head(work) = program[pos] ELSE Head(work) \in Statements
  BY ParseHead
<1>2. Len(work) = 1 \/ Len(work) > 1
  <2> DEFINE m == Len(Nodes(program[pos]))
             l == Len(work)
  <2>1. m \in Nat /\ l \in 1 .. m
    BY <1>1, ParseHead
  <2> HIDE DEF m, l
  <2>2. l = 1 \/ l > 1
    BY <2>1
  <2> QED
    BY <2>2 DEF l
<1> QED
  BY <1>1, <1>2 DEF NextNode

LEMMA ParseFuncs ==
  ASSUME IInv, FuncsFollowText, phase = "parse", program' = program,
         funcs' = IF Head(work).op \in Callables THEN make_func(funcs, Head(work).sym, pos)
                  ELSE funcs,
         NextNode
  PROVE  FuncsFollowText'
<1> DEFINE n == Head(work)
           F == [sym : Name, decl : Nat \ {0}]
<1>1. /\ pos \in 1 .. Len(program) /\ Len(program) \in Nat /\ pos \in Nat
      /\ AllCallables' = AllCallables /\ AllCallables \subseteq 1 .. Len(program)
  BY ParseHead DEF AllCallables
<1>2. /\ Len(funcs) \in Nat
      /\ \A i, j \in 1 .. Len(funcs) : i < j => funcs[i].decl < funcs[j].decl
      /\ \A j \in 1 .. Len(funcs) : funcs[j].decl < pos /\ funcs[j].decl \in Nat
      /\ \A i \in AllCallables : i < pos => \E j \in 1 .. Len(funcs) : funcs[j].decl = i
  BY <1>1 DEF FuncsFollowText, IInv, TypeOK, Tables, CallableDecls
<1>3. \/ n \in Statements /\ phase' = "parse" /\ pos' = pos
      \/ n = program[pos] /\ phase' = "parse" /\ pos' = pos + 1
      \/ n = program[pos] /\ phase' = "codegen" /\ pos' = 1 /\ pos = Len(program)
  BY NextShape
<1>4. n.op \in Callables => n = program[pos] /\ pos \in AllCallables
  BY <1>1, <1>3, StatementShape DEF Callables, AllCallables
<1>5. n = program[pos] /\ n.op \notin Callables => pos \notin AllCallables
  BY DEF AllCallables
<1>6. \A i \in AllCallables : phase' = "codegen" \/ (phase' = "parse" /\ i < pos')
                                => i < pos \/ (i = pos /\ n = program[pos])
  BY <1>1, <1>3
<1> HIDE DEF n
<1>7. CASE n.op \notin Callables
  <2>1. funcs' = funcs
    BY <1>7 DEF n
  <2>2. phase' = "parse" => \A j \in 1 .. Len(funcs') : funcs'[j].decl < pos'
    BY <1>1, <1>2, <1>3, <2>1
  <2> QED
    BY <1>1, <1>2, <1>5, <1>6, <1>7, <2>1, <2>2 DEF FuncsFollowText
<1>8. CASE n.op \in Callables
  <2> DEFINE e == [sym |-> n.sym, decl |-> pos]
  <2>1. funcs' = Append(funcs, e) /\ e.decl = pos
    BY <1>8 DEF n, make_func
  <2> HIDE DEF e
  <2>2. /\ Len(funcs') = Len(funcs) + 1
        /\ \A j \in 1 .. Len(funcs) : funcs'[j] = funcs[j] /\ j \in 1 .. Len(funcs')
        /\ funcs'[Len(funcs) + 1] = e /\ Len(funcs) + 1 \in 1 .. Len(funcs')
        /\ \A j \in 1 .. Len(funcs') : j \in 1 .. Len(funcs) \/ j = Len(funcs) + 1
    <3>1. funcs \in Seq(F)
      BY DEF IInv, TypeOK
    <3> HIDE DEF F
    <3> QED
      BY <1>2, <2>1, <3>1
  <2>3. \A i, j \in 1 .. Len(funcs') : i < j => funcs'[i].decl < funcs'[j].decl
    <3> TAKE i, j \in 1 .. Len(funcs')
    <3> HAVE i < j
    <3>1. i \in 1 .. Len(funcs) /\ funcs'[i] = funcs[i]
      BY <1>2, <2>2
    <3>2. CASE j = Len(funcs) + 1
      BY <1>2, <2>1, <2>2, <3>1, <3>2
    <3>3. CASE j \in 1 .. Len(funcs)
      BY <1>2, <2>2, <3>1, <3>3
    <3> QED
      BY <2>2, <3>2, <3>3
  <2>4. phase' = "parse" => \A j \in 1 .. Len(funcs') : funcs'[j].decl < pos'
    <3>1. phase' = "parse" => pos' = pos + 1
      BY <1>3, <1>8, StatementShape DEF Callables
    <3>2. \A j \in 1 .. Len(funcs') : funcs'[j].decl < pos + 1
      BY <1>1, <1>2, <2>1, <2>2
    <3> QED
      BY <3>1, <3>2
  <2>5. \A i \in AllCallables :
          i < pos \/ i = pos => \E j \in 1 .. Len(funcs') : funcs'[j].decl = i
    BY <1>2, <2>1, <2>2
  <2> QED
    BY <1>1, <1>6, <2>3, <2>4, <2>5 DEF FuncsFollowText
<1> QED
  BY <1>7, <1>8

LEMMA CleanStays ==
  ASSUME program' = program
  PROVE  AllNames' = AllNames /\ AllCallables' = AllCallables
<1>1. \A i : NodesOf(i)' = NodesOf(i)
  BY DEF NodesOf
<1> QED
  BY <1>1 DEF AllNames, AllCallables

LEMMA ParseSyms ==
  ASSUME IInv, SymbolsFollowText, phase = "parse", program' = program,
         NEW a \in NamesIn(Head(work)) \cap Name, NEW b \in NamesIn(Head(work)) \cap Name,
         syms' = Twice(a, b),
         Head(work).op \notin {"CALL_METHOD", "DEF_VAR"} => Head(work).sym \in {a, b},
         NextNode
  PROVE  SymbolsFollowText'
<1> DEFINE n == Head(work)
           once == lookup_make_symbol(syms, a)
<1>1. a \in Name /\ a \in AllNames /\ b \in Name /\ b \in AllNames
  BY ParseNames
<1>2. Clean(syms) /\ AllNames' = AllNames
  BY CleanStays DEF SymbolsFollowText
<1>3. once = lookup_make_symbol(syms, a)
  OBVIOUS
<1>4. syms' = lookup_make_symbol(once, b)
  BY DEF Twice
<1> HIDE DEF once
<1>8. Adds(syms, once, a)
  BY <1>1, <1>2, <1>3, InternClean
<1>5. Adds(once, syms', b)
  <2>1. Clean(once)
    BY <1>8 DEF Adds
  <2>2. Adds(once, lookup_make_symbol(once, b), b)
    BY <1>1, <2>1, InternClean
  <2> QED
    BY <1>4, <2>2
<1>6. Clean(syms)'
  BY <1>2, <1>5 DEF Clean, Adds
<1>7. ASSUME phase' = "parse", NEW c \in DeclsOf(program, "DEF_CLASS"), c < pos'
      PROVE  \E i \in 1 .. Len(syms') : syms'[i] = program[c].sym
  <2>1. c \in 1 .. Len(program) /\ program[c].op = "DEF_CLASS" /\ pos \in Nat /\ c \in Nat
    BY ParseHead DEF DeclsOf
  <2>2. c < pos \/ (c = pos /\ n = program[pos])
    <3>1. \/ pos' = pos
          \/ n = program[pos] /\ pos' = pos + 1
      BY <1>7, NextShape
    <3> QED
      BY <1>7, <2>1, <3>1
  <2>3. CASE c < pos
    <3>1. \E i \in 1 .. Len(syms) : syms[i] = program[c].sym
      BY <2>3 DEF SymbolsFollowText
    <3> QED
      BY <1>8, <1>5, <3>1 DEF Adds
  <2>4. CASE c = pos /\ n = program[pos]
    <3>1. program[c].sym \in {a, b}
      BY <2>1, <2>4
    <3> QED
      BY <1>8, <1>5, <3>1 DEF Adds
  <2> QED
    BY <2>2, <2>3, <2>4
<1> QED
  BY <1>6, <1>7 DEF SymbolsFollowText

(* The parser's assertions. *)
LEMMA ParseAsserts ==
  ASSUME IInv, FuncsFollowText, SymbolsFollowText, phase = "parse", program' = program,
         LET n == Head(work) IN
         \/ n.op = "DEF_VAR" /\ ~get_type_by_name(n.klass)
         \/ \E a \in NamesIn(n) \cap Name : TooLong(lookup_make_symbol(syms, a))
         \/ \E a, b \in NamesIn(n) \cap Name : TooLong(Twice(a, b))
         \/ n.op \in Callables /\ FuncsFull(funcs)
  PROVE  AssertHasACause'
<1> DEFINE n == Head(work)
<1>1. /\ n \in NodesOf(pos) /\ pos \in 1 .. Len(program)
      /\ \A a \in NamesIn(n) \cap Name : a \in Name \cap AllNames
      /\ Clean(syms) /\ program \in Programs
  BY ParseNames DEF SymbolsFollowText, IInv
<1>2. /\ AllNames' = AllNames /\ AllCallables' = AllCallables
      /\ \A i : KlassesIn(i)' = KlassesIn(i)
  <2>1. \A i : NodesOf(i)' = NodesOf(i)
    BY DEF NodesOf
  <2> QED
    BY <2>1, CleanStays DEF KlassesIn
<1>3. SUFFICES \/ Cardinality(AllNames) > SYMBOL_MAX
               \/ Cardinality(AllCallables) > FUNC_MAX
               \/ \E i \in 1 .. Len(program) : \E k \in KlassesIn(i) :
                    ~\E c \in ClassDecls(program, k) : c < i
  BY <1>2 DEF AssertHasACause, AllNames, AllCallables
<1>4. CASE n.op = "DEF_VAR" /\ ~get_type_by_name(n.klass)
  <2>1. n.klass # Prim /\ lookup_symbol(syms, n.klass) = NULL
    BY <1>4 DEF get_type_by_name
  <2>2. \A i \in 1 .. Len(syms) : syms[i] # n.klass
    BY <1>1, <2>1, SymbolFound DEF Clean
  <2>3. n.klass \in KlassesIn(pos)
    BY <1>1, <1>4, <2>1 DEF KlassesIn
  <2>4. ~\E c \in ClassDecls(program, n.klass) : c < pos
    BY <2>2 DEF SymbolsFollowText, ClassDecls
  <2> QED
    BY <1>1, <2>3, <2>4
<1>5. CASE \E a \in NamesIn(n) \cap Name : TooLong(lookup_make_symbol(syms, a))
  <2>1. PICK a \in Name \cap AllNames : TooLong(lookup_make_symbol(syms, a))
    BY <1>1, <1>5
  <2>2. Clean(lookup_make_symbol(syms, a))
    BY <1>1, InternClean DEF Adds
  <2> QED
    BY <1>1, <2>1, <2>2, TooManyNames
<1>6. CASE \E a, b \in NamesIn(n) \cap Name : TooLong(Twice(a, b))
  <2>1. PICK a \in Name \cap AllNames, b \in Name \cap AllNames : TooLong(Twice(a, b))
    BY <1>1, <1>6
  <2>2. Clean(lookup_make_symbol(syms, a))
    BY <1>1, InternClean DEF Adds
  <2>3. Clean(Twice(a, b))
    BY <1>1, <2>1, <2>2, InternClean DEF Twice, Adds
  <2> QED
    BY <1>1, <2>1, <2>3, TooManyNames
<1>7. CASE n.op \in Callables /\ FuncsFull(funcs)
  <2>1. n = program[pos]
    BY <1>7, ParseHead, StatementShape DEF Callables
  <2>2. pos \in AllCallables
    BY <1>1, <1>7, <2>1 DEF AllCallables
  <2> QED
    BY <1>7, <2>2, TooManyFuncs
<1> QED
  BY <1>4, <1>5, <1>6, <1>7

LEMMA ParseLinks ==
  ASSUME IInv, DInv, LInv, Parse
  PROVE  LInv'
<1> DEFINE n == Head(work)
<1>1. /\ phase = "parse" /\ UNCHANGED <<program, back, lli>>
      /\ \/ phase' = "crash" /\ UNCHANGED <<pos, work, syms, funcs>>
         \/ /\ phase' = "assert" /\ UNCHANGED <<pos, work, syms, funcs>>
            /\ \/ n.op = "DEF_VAR" /\ ~get_type_by_name(n.klass)
               \/ \E a \in NamesIn(n) \cap Name : TooLong(lookup_make_symbol(syms, a))
               \/ \E a, b \in NamesIn(n) \cap Name : TooLong(Twice(a, b))
               \/ n.op \in Callables /\ FuncsFull(funcs)
         \/ /\ \E a, b \in NamesIn(n) \cap Name :
                 /\ syms' = Twice(a, b)
                 /\ n.op \notin {"CALL_METHOD", "DEF_VAR"} => n.sym \in {a, b}
            /\ funcs' = IF n.op \in Callables THEN make_func(funcs, n.sym, pos) ELSE funcs
            /\ NextNode
  BY ParseShape
<1>2. /\ UNCHANGED <<program, llvm, cur>> /\ llvm = <<>> /\ cur = 0
  BY <1>1 DEF back, DInv, MapsFollowText, IInv, Reading
<1>3. CodeFollowsText'
  <2>1. \A f : f \notin Stubs' /\ f \notin Real'
    BY <1>2 DEF Stubs, Real
  <2> QED
    BY <2>1 DEF CodeFollowsText
<1>4. \/ phase' \in {"crash", "assert"} /\ UNCHANGED <<pos, work, syms, funcs>>
      \/ phase' = "parse"
      \/ phase' = "codegen" /\ pos' = 1
  BY <1>1, NextShape
<1>5. NamesFollowText' /\ ModuleFollowsText'
  <2>1. CASE phase' = "codegen" /\ pos' = 1
    <3>1. Reached' = 1 /\ Here' = 1 /\ program \in Programs /\ Len(program) \in Nat \ {0}
      BY <1>2, <2>1, ProgramShape DEF Reached, Here, IInv
    <3>2. \A x : Named(x)' = {}
      BY <1>2 DEF Named
    <3>3. \A x : ~Declared(program, x, 1) /\ Mentioning(program, x, 1, 1) = {}
      BY <3>1, DeclaredStep, MentionNothing
    <3>4. NamesFollowText'
      BY <1>2, <2>1, <3>1, <3>2, <3>3 DEF NamesFollowText
    <3>5. \A i \in AllCallables' : ~(i < 1)
      BY DEF AllCallables
    <3> QED
      BY <2>1, <3>1, <3>4, <3>5 DEF ModuleFollowsText
  <2>2. CASE phase' \notin {"codegen", "written"}
    BY <2>2 DEF NamesFollowText, ModuleFollowsText
  <2> QED
    BY <1>4, <2>1, <2>2
<1>6. UnresolvedIffUsedFirst'
  BY <1>4 DEF UnresolvedIffUsedFirst
<1>7. CASE phase' \in {"crash", "assert"} /\ UNCHANGED <<pos, work, syms, funcs>>
  <2>1. FuncsFollowText' /\ SymbolsFollowText'
    <3>1. AllNames' = AllNames /\ AllCallables' = AllCallables
      BY <1>2, CleanStays
    <3>2. FuncsFollowText'
      BY <1>7, <3>1 DEF LInv, FuncsFollowText
    <3>3. SymbolsFollowText'
      BY <1>7, <3>1 DEF LInv, SymbolsFollowText, Clean
    <3> QED
      BY <3>2, <3>3
  <2>2. CASE phase' = "crash"
    <3>1. AssertHasACause'
      BY <2>2 DEF AssertHasACause
    <3> QED
      BY <1>3, <1>5, <1>6, <2>1, <3>1 DEF LInv
  <2>3. CASE phase' = "assert"
    <3>1. \/ n.op = "DEF_VAR" /\ ~get_type_by_name(n.klass)
          \/ \E a \in NamesIn(n) \cap Name : TooLong(lookup_make_symbol(syms, a))
          \/ \E a, b \in NamesIn(n) \cap Name : TooLong(Twice(a, b))
          \/ n.op \in Callables /\ FuncsFull(funcs)
      BY <1>1, <2>3, NextShape
    <3>2. AssertHasACause'
      BY <1>1, <3>1, ParseAsserts DEF LInv
    <3> QED
      BY <1>3, <1>5, <1>6, <2>1, <3>2 DEF LInv
  <2> QED
    BY <1>7, <2>2, <2>3
<1>8. CASE phase' \in {"parse", "codegen"}
  <2>1. PICK a \in NamesIn(n) \cap Name, b \in NamesIn(n) \cap Name :
          /\ syms' = Twice(a, b)
          /\ n.op \notin {"CALL_METHOD", "DEF_VAR"} => n.sym \in {a, b}
          /\ funcs' = IF n.op \in Callables THEN make_func(funcs, n.sym, pos) ELSE funcs
          /\ NextNode
    BY <1>1, <1>8
  <2>2. FuncsFollowText'
    BY <1>1, <2>1, ParseFuncs DEF LInv
  <2>3. SymbolsFollowText'
    BY <1>1, <2>1, ParseSyms DEF LInv
  <2>4. AssertHasACause'
    BY <1>8 DEF AssertHasACause
  <2> QED
    BY <1>3, <1>5, <1>6, <2>2, <2>3, <2>4 DEF LInv
<1> QED
  BY <1>4, <1>7, <1>8

-----------------------------------------------------------------------------
(***************************************************************************)
(* Code generation.                                                        *)
(***************************************************************************)

(* The newest entry of the function table is the last declaration.         *)
LEMMA LastRegisteredGreatest ==
  ASSUME IInv, FuncsFollowText, phase = "codegen", NEW i \in AllCallables
  PROVE  LastRegistered(program[i].sym) = Greatest(CallableDecls(program, program[i].sym))
<1> DEFINE s == program[i].sym
           E == Entries(funcs, s)
           l == Greatest(E)
           D == CallableDecls(program, s)
<1>1. /\ Len(funcs) \in Nat /\ Len(program) \in Nat
      /\ \A j \in 1 .. Len(funcs) : funcs[j].decl \in CallableDecls(program, funcs[j].sym)
      /\ \A j, k \in 1 .. Len(funcs) : j < k => funcs[j].decl < funcs[k].decl
      /\ \A d \in AllCallables : \E j \in 1 .. Len(funcs) : funcs[j].decl = d
  BY ProgramShape DEF IInv, Tables, TypeOK, FuncsFollowText
<1>2. ASSUME NEW d \in D PROVE \E j \in E : funcs[j].decl = d
  <2>1. PICK j \in 1 .. Len(funcs) : funcs[j].decl = d
    BY <1>1 DEF CallableDecls, AllCallables
  <2>2. program[d].sym = funcs[j].sym /\ program[d].sym = s
    BY <1>1, <2>1 DEF CallableDecls
  <2> QED
    BY <2>1, <2>2 DEF Entries
<1>3. i \in D /\ D \subseteq 1 .. Len(program)
  BY DEF AllCallables, CallableDecls
<1>4. l \in E /\ \A j \in E : j <= l
  <2>1. E # {} /\ E \subseteq 1 .. Len(funcs)
    BY <1>2, <1>3 DEF Entries
  <2> HIDE DEF E
  <2> QED
    BY <1>1, <2>1, HasGreatest
<1>5. /\ lookup_func(funcs, s) = l /\ l # 0 /\ l \in 1 .. Len(funcs)
      /\ E \subseteq 1 .. Len(funcs) /\ funcs[l].decl \in D
  <2>1. l \in 1 .. Len(funcs) /\ funcs[l].sym = s
    BY <1>4 DEF Entries
  <2>2. lookup_func(funcs, s) = l
    BY <1>4 DEF lookup_func, Greatest
  <2> QED
    BY <1>1, <2>1, <2>2 DEF Entries
<1>6. LastRegistered(s) = funcs[l].decl
  BY <1>5 DEF LastRegistered
<1> HIDE DEF l, D, E
<1>7. \A d \in D : d <= funcs[l].decl
  <2> TAKE d \in D
  <2>1. PICK j \in E : funcs[j].decl = d
    BY <1>2
  <2>2. j \in 1 .. Len(funcs) /\ j <= l /\ (j = l \/ j < l)
    BY <1>1, <1>4, <1>5
  <2>3. funcs[l].decl \in Nat /\ d \in Nat
    <3>1. \A e \in 1 .. Len(program) : e \in Nat
      BY <1>1
    <3>2. D \subseteq 1 .. Len(program) /\ funcs[l].decl \in D
      BY <1>3, <1>5
    <3> QED
      BY <3>1, <3>2
  <2> QED
    BY <1>1, <1>5, <2>1, <2>2, <2>3
<1>8. Greatest(D) = funcs[l].decl
  BY <1>1, <1>3, <1>5, <1>7, GreatestIs
<1> QED
  BY <1>6, <1>8 DEF D

(* Where the code generator is in the text. *)
LEMMA CurrentBody ==
  ASSUME IInv, DInv, CodeFollowsText, phase = "codegen", cur # 0
  PROVE  /\ pos \in AllCallables /\ cur \in Real /\ cur \in 1 .. Len(llvm)
         /\ llvm[cur].own = pos
         /\ llvm[cur].decl = Greatest(CallableDecls(program, program[pos].sym))
         /\ Here = Done /\ Done \in Nat \ {0} /\ Reached = pos + 1
         /\ work # <<>> => /\ Done \in 1 .. Len(Body(program, pos))
                           /\ Head(work) = Body(program, pos)[Done]
         /\ work = <<>> => Done = Len(Body(program, pos)) + 1
<1> DEFINE b == Body(program, pos)
<1>1. /\ cur \in Real /\ cur \in 1 .. Len(llvm) /\ llvm[cur].own = pos
      /\ pos \in AllCallables
      /\ llvm[cur].sym = program[pos].sym
      /\ program \in Programs
  BY CurrentFunction DEF AllCallables
<1>2. llvm[cur].decl = Greatest(CallableDecls(program, program[pos].sym))
  BY <1>1 DEF CodeFollowsText
<1>3. AsCompiled(cur).body = b
  BY <1>2 DEF AsCompiled, Body
<1>4. Here = Done /\ Reached = pos + 1
  BY DEF Here, Reached
<1>5. /\ work \in Seq(Statements) /\ Len(Code(cur)) + Len(work) = Len(b)
      /\ Len(Code(cur)) \in Nat /\ Len(work) \in Nat
      /\ \A j \in 1 .. Len(work) : work[j] = b[Len(Code(cur)) + j]
  <2>1. Code(cur) \in Seq(Instrs)
    BY <1>1, FunctionShape DEF Code, IInv, TypeOK
  <2> QED
    BY <1>3, <2>1 DEF IInv, Translating
<1> HIDE DEF b
<1>6. CASE work = <<>>
  BY <1>1, <1>2, <1>4, <1>5, <1>6 DEF Done, b
<1>7. CASE work # <<>>
  <2>1. Len(work) >= 1 /\ Head(work) = work[1] /\ 1 \in 1 .. Len(work)
    <3> DEFINE T == Statements
    <3>1. work \in Seq(T)
      BY <1>5
    <3> HIDE DEF T
    <3> QED
      BY <1>7, <3>1
  <2>2. Done \in 1 .. Len(b) /\ Head(work) = b[Done]
    BY <1>5, <2>1 DEF Done
  <2> QED
    BY <1>1, <1>2, <1>4, <1>5, <1>7, <2>2 DEF Done, b
<1> QED
  BY <1>6, <1>7

LEMMA StubNames ==
  ASSUME TypeOK, NEW n \in Name, NEW x
  PROVE  NamedIn(getOrInsertFunction(n), x) =
           IF x = n /\ Named(n) = {} THEN {Len(llvm) + 1} ELSE Named(x)
<1>1. \A y : Named(y) = NamedIn(llvm, y)
  BY DEF Named, NamedIn
<1>2. CASE Named(n) # {}
  BY <1>1, <1>2 DEF getOrInsertFunction
<1>3. CASE Named(n) = {}
  <2> DEFINE e == [sym |-> n, named |-> TRUE, own |-> 0, decl |-> 0,
                   code |-> <<>>, stores |-> {}]
             m == getOrInsertFunction(n)
  <2>1. m = Append(llvm, e) /\ e.sym = n /\ e.named
    BY <1>3 DEF getOrInsertFunction
  <2>2. llvm \in Seq(Functions) /\ Len(llvm) \in Nat
    BY DEF TypeOK
  <2> HIDE DEF e, m
  <2>3. /\ Len(m) = Len(llvm) + 1 /\ m[Len(llvm) + 1] = e
        /\ \A f \in 1 .. Len(llvm) : m[f] = llvm[f]
    <3> DEFINE T == Functions
    <3>1. llvm \in Seq(T)
      BY <2>2
    <3> HIDE DEF T
    <3> QED
      BY <2>1, <3>1
  <2>4. \A f : f \in 1 .. Len(m) <=> f \in 1 .. Len(llvm) \/ f = Len(llvm) + 1
    BY <2>2, <2>3
  <2>5. Len(llvm) + 1 \notin 1 .. Len(llvm)
    BY <2>2
  <2>6. NamedIn(m, x) = Named(x) \cup (IF x = n THEN {Len(llvm) + 1} ELSE {})
    BY <2>1, <2>3, <2>4, <2>5 DEF NamedIn, Named
  <2> QED
    BY <1>3, <2>6 DEF m
<1> QED
  BY <1>2, <1>3

LEMMA EmitNames ==
  ASSUME NEW module \in Seq(Functions), NEW instr \in Instrs, cur \in 1 .. Len(module), NEW x
  PROVE  NamedIn(Emit(module, instr), x) = NamedIn(module, x)
<1>1. Len(Emit(module, instr)) = Len(module)
  BY DEF Emit
<1>2. \A f \in 1 .. Len(module) :
        /\ Emit(module, instr)[f].sym = module[f].sym
        /\ Emit(module, instr)[f].named = module[f].named
  BY EmitKeepsNames
<1> HIDE DEF Emit
<1> QED
  BY <1>1, <1>2 DEF NamedIn

-----------------------------------------------------------------------------
(* Steps that leave the tables of the parser alone. *)
LEMMA TextStays ==
  ASSUME FuncsFollowText, SymbolsFollowText, UNCHANGED <<program, syms, funcs>>,
         phase' # "parse", phase' = "codegen" => phase = "codegen"
  PROVE  FuncsFollowText' /\ SymbolsFollowText'
<1>1. AllNames' = AllNames /\ AllCallables' = AllCallables
  BY CleanStays
<1>2. FuncsFollowText'
  BY <1>1 DEF FuncsFollowText
<1>3. SymbolsFollowText'
  BY <1>1 DEF SymbolsFollowText, Clean
<1> QED
  BY <1>2, <1>3

LEMMA StopLinks ==
  ASSUME LInv, phase = "codegen", phase' \in {"assert", "crash", "undefined"},
         UNCHANGED <<program, syms, funcs, llvm, cur>>, AssertHasACause'
  PROVE  LInv'
<1>1. FuncsFollowText' /\ SymbolsFollowText'
  BY TextStays DEF LInv
<1>2. NamesFollowText' /\ ModuleFollowsText' /\ UnresolvedIffUsedFirst'
  BY DEF NamesFollowText, ModuleFollowsText, UnresolvedIffUsedFirst
<1>3. CodeFollowsText'
  BY DEF LInv, CodeFollowsText, Code, Real, Stubs
<1> QED
  BY <1>1, <1>2, <1>3 DEF LInv

(* What one statement does to the names of the module. *)
LEMMA StatementNames ==
  ASSUME IInv, DInv, LInv, phase = "codegen", cur # 0, work # <<>>,
         NEW instr \in Instrs, Grown(llvm', instr),
         \A x : Named(x)' = IF /\ Head(work).op \in CallOps /\ x = Head(work).sym
                               /\ Named(x) = {}
                            THEN {Len(llvm) + 1} ELSE Named(x),
         UNCHANGED <<program, phase, pos, cur>>
  PROVE  NamesFollowText'
<1>1. /\ program \in Programs /\ pos \in 1 .. Len(program) /\ program[pos].op \in Callables
      /\ Here = Done /\ Done \in Nat \ {0} /\ Reached = pos + 1 /\ pos \in Nat
      /\ Done \in 1 .. Len(Body(program, pos)) /\ Head(work) = Body(program, pos)[Done]
      /\ cur \in 1 .. Len(llvm)
  BY CurrentBody, CurrentFunction, ProgramShape DEF LInv
<1>2. /\ Len(llvm) \in Nat /\ Len(llvm') \in Nat /\ Len(llvm) <= Len(llvm')
      /\ \A f \in 1 .. Len(llvm) : llvm'[f].own = llvm[f].own
      /\ \A f \in Len(llvm) + 1 .. Len(llvm') : llvm'[f].own = 0
  BY GrownFunctions DEF Grown
<1>3. Reached' = Reached /\ Here' = Done + 1
  <2>1. Code(cur) \in Seq(Instrs)
    BY <1>1, FunctionShape DEF Code, IInv, TypeOK
  <2>2. Code(cur)' = Append(Code(cur), instr)
    BY <1>1 DEF Grown, Code
  <2>3. Len(Code(cur)') = Len(Code(cur)) + 1
    <3> DEFINE T == Instrs
    <3>1. instr \in T /\ Code(cur) \in Seq(T)
      BY <2>1
    <3> HIDE DEF T
    <3> QED
      BY <2>2, <3>1
  <2>4. Done' = Done + 1
    BY <2>3 DEF Done
  <2>5. Here' = Done'
    BY DEF Here
  <2> QED
    BY <2>4, <2>5 DEF Reached
<1> SUFFICES ASSUME NEW n \in Name \cup {Main}
             PROVE  /\ Named(n)' = {} <=>
                         ~Declared(program, n, Reached)
                         /\ Mentioning(program, n, pos, Done + 1) = {}
                    /\ \A f \in Named(n)' : f \in Stubs' <=> Early(program, n, pos, Done + 1)
  BY <1>3 DEF NamesFollowText
<1> DEFINE b == Head(work).op \in CallOps /\ Head(work).sym = n
           M == Mentioning(program, n, pos, Done)
           N == Mentioning(program, n, pos, Done + 1)
<1>4. /\ N = M \cup (IF b THEN {pos} ELSE {})
      /\ \A i \in M : i <= pos /\ i \in Nat
  <2> DEFINE a == Body(program, pos)[Done]
  <2>1. /\ \A i \in M : i <= pos /\ i \in Nat
        /\ N = M \cup (IF a.op \in CallOps /\ a.sym = n THEN {pos} ELSE {})
    BY <1>1, MentionStatement
  <2>2. b <=> a.op \in CallOps /\ a.sym = n
    BY <1>1
  <2> HIDE DEF a, b, M, N
  <2> QED
    BY <2>1, <2>2
<1>5. /\ Named(n) = {} <=> ~Declared(program, n, pos + 1) /\ M = {}
      /\ \A f \in Named(n) : f \in Stubs <=> Early(program, n, pos, Done)
  BY <1>1 DEF LInv, NamesFollowText
<1>6. Named(n) \subseteq 1 .. Len(llvm) /\ \A f \in Named(n) : f \in Stubs' <=> f \in Stubs
  BY <1>2 DEF Named, Stubs
<1>7. Named(n)' = IF b /\ Named(n) = {} THEN {Len(llvm) + 1} ELSE Named(n)
  OBVIOUS
<1>8. /\ Early(program, n, pos, Done) <=> \E i \in M : \A d \in CallableDecls(program, n) : i < d
      /\ Early(program, n, pos, Done + 1)
           <=> \E i \in N : \A d \in CallableDecls(program, n) : i < d
  BY DEF Early
<1>9. CallableDecls(program, n) \subseteq Nat
  BY ProgramShape, <1>1 DEF CallableDecls
<1>10. ~Declared(program, n, pos + 1) => \A d \in CallableDecls(program, n) : pos < d
  BY <1>1, <1>9 DEF Declared
<1>11. (\A d \in CallableDecls(program, n) : pos < d) => ~Declared(program, n, pos + 1)
  BY <1>1, <1>9 DEF Declared
<1>12. Named(n)' \subseteq 1 .. Len(llvm')
  BY DEF Named
<1> HIDE DEF b, M, N
<1>13. CASE ~b
  <2>1. N = M /\ Named(n)' = Named(n)
    BY <1>4, <1>7, <1>13
  <2> QED
    BY <1>1, <1>5, <1>6, <1>8, <2>1 DEF N
<1>14. CASE b /\ Named(n) = {}
  <2>1. Named(n)' = {Len(llvm) + 1} /\ N # {} /\ pos \in N
    BY <1>4, <1>7, <1>14
  <2>2. Len(llvm) + 1 \in Stubs'
    BY <1>2, <1>12, <2>1 DEF Stubs
  <2>3. Early(program, n, pos, Done + 1)
    BY <1>5, <1>8, <1>10, <1>14, <2>1
  <2> QED
    BY <2>1, <2>2, <2>3 DEF N
<1>15. CASE b /\ Named(n) # {}
  <2>1. Named(n)' = Named(n) /\ N = M \cup {pos}
    BY <1>4, <1>7, <1>15
  <2>2. Early(program, n, pos, Done + 1) => Early(program, n, pos, Done)
    <3>1. ASSUME \A d \in CallableDecls(program, n) : pos < d
          PROVE  Early(program, n, pos, Done)
      <4>1. M # {}
        BY <1>5, <1>11, <1>15, <3>1
      <4>2. PICK i \in M : TRUE
        BY <4>1
      <4>3. \A d \in CallableDecls(program, n) : i < d
        BY <1>1, <1>4, <1>9, <3>1, <4>2
      <4> QED
        BY <1>8, <4>2, <4>3
    <3> QED
      BY <1>8, <2>1, <3>1
  <2>3. Early(program, n, pos, Done) => Early(program, n, pos, Done + 1)
    BY <1>8, <2>1
  <2> QED
    BY <1>5, <1>6, <1>15, <2>1, <2>2, <2>3 DEF N
<1> QED
  BY <1>13, <1>14, <1>15

LEMMA StatementCode ==
  ASSUME IInv, DInv, CodeFollowsText, phase = "codegen", cur # 0, work # <<>>,
         NEW instr \in Instrs, Grown(llvm', instr),
         Translates(instr, Head(work)),
         instr.op = "call" => llvm'[instr.fn].sym = Head(work).sym,
         UNCHANGED <<program, phase, pos, cur>>
  PROVE  CodeFollowsText'
<1>1. /\ Done \in 1 .. Len(Body(program, pos)) /\ Head(work) = Body(program, pos)[Done]
      /\ cur \in Real /\ llvm[cur].own = pos
  BY CurrentBody
<1>2. /\ Real' = Real /\ Len(llvm) \in Nat
      /\ \A f \in 1 .. Len(llvm') : \A i \in 1 .. Len(Code(f)') :
           /\ f \in 1 .. Len(llvm)
           /\ \/ i \in 1 .. Len(Code(f)) /\ Code(f)'[i] = Code(f)[i]
              \/ f = cur /\ i = Done /\ Code(f)'[i] = instr
  BY GrownFunctions
<1>3. \A f \in 1 .. Len(llvm) :
        /\ llvm'[f].sym = llvm[f].sym /\ llvm'[f].own = llvm[f].own
        /\ llvm'[f].decl = llvm[f].decl
        /\ f # cur => Code(f)' = Code(f)
  BY DEF Grown, Code
<1>4. \A f \in 1 .. Len(llvm) : \A i \in 1 .. Len(Code(f)) :
        Code(f)[i].op = "call" => Code(f)[i].fn \in 1 .. Len(llvm)
  BY DEF DInv, CallsReach
<1>5. ASSUME NEW f \in Stubs' PROVE llvm'[f].code = <<>>
  <2>1. f \in 1 .. Len(llvm') /\ llvm'[f].own = 0 /\ Len(llvm') \in Nat
    BY DEF Stubs, Grown
  <2>2. CASE f \in 1 .. Len(llvm)
    <3>1. f \in Stubs /\ f # cur
      BY <1>1, <1>3, <2>1, <2>2 DEF Stubs, Real
    <3> QED
      BY <1>3, <2>2, <3>1 DEF CodeFollowsText, Code
  <2>3. CASE f \notin 1 .. Len(llvm)
    <3>1. f \in Len(llvm) + 1 .. Len(llvm')
      BY <1>2, <2>1, <2>3
    <3> QED
      BY <3>1 DEF Grown
  <2> QED
    BY <2>2, <2>3
<1>6. ASSUME NEW f \in Real
      PROVE  /\ llvm'[f].decl = Greatest(CallableDecls(program, llvm'[f].sym))
             /\ f # cur => Len(Code(f)') = Len(Body(program, llvm'[f].own))
             /\ \A i \in 1 .. Len(Code(f)') :
                  LET in == Code(f)'[i]
                      s  == Body(program, llvm'[f].own)[i]
                  IN  /\ Translates(in, s)
                      /\ in.op = "call" => llvm'[in.fn].sym = s.sym
  <2>1. /\ f \in 1 .. Len(llvm) /\ f \in 1 .. Len(llvm')
        /\ llvm'[f].sym = llvm[f].sym /\ llvm'[f].own = llvm[f].own
        /\ llvm'[f].decl = llvm[f].decl
    BY <1>2, <1>3 DEF Real
  <2>2. /\ llvm[f].decl = Greatest(CallableDecls(program, llvm[f].sym))
        /\ f # cur => Len(Code(f)) = Len(Body(program, llvm[f].own))
    BY DEF CodeFollowsText
  <2>3. ASSUME NEW i \in 1 .. Len(Code(f)')
        PROVE  LET in == Code(f)'[i]
                   s  == Body(program, llvm[f].own)[i]
               IN  /\ Translates(in, s)
                   /\ in.op = "call" => llvm'[in.fn].sym = s.sym
    <3>1. CASE i \in 1 .. Len(Code(f)) /\ Code(f)'[i] = Code(f)[i]
      <4> DEFINE in == Code(f)[i]
                 s  == Body(program, llvm[f].own)[i]
      <4>1. /\ Translates(in, s)
            /\ in.op = "call" => llvm[in.fn].sym = s.sym
        BY <3>1 DEF CodeFollowsText
      <4>2. in.op = "call" => llvm'[in.fn].sym = llvm[in.fn].sym
        BY <1>3, <1>4, <2>1, <3>1
      <4> QED
        BY <3>1, <4>1, <4>2
    <3>2. CASE f = cur /\ i = Done /\ Code(f)'[i] = instr
      BY <1>1, <3>2
    <3> QED
      BY <1>2, <2>1, <3>1, <3>2
  <2>4. f # cur => Len(Code(f)') = Len(Code(f))
    BY <1>3, <2>1
  <2> QED
    BY <2>1, <2>2, <2>3, <2>4
<1>7. /\ \A f \in Stubs' : llvm'[f].code = <<>>
      /\ \A f \in Real' :
           /\ llvm'[f].decl = Greatest(CallableDecls(program', llvm'[f].sym))
           /\ f # cur' => Len(Code(f)') = Len(Body(program', llvm'[f].own))
           /\ \A i \in 1 .. Len(Code(f)') :
                LET in == Code(f)'[i]
                    s  == Body(program', llvm'[f].own)[i]
                IN  /\ Translates(in, s)
                    /\ in.op = "call" => llvm'[in.fn].sym = s.sym
  BY <1>2, <1>5, <1>6
<1> QED
  BY <1>7 DEF CodeFollowsText

LEMMA StatementLinks ==
  ASSUME IInv, DInv, LInv, phase = "codegen", cur # 0, work # <<>>,
         NEW instr \in Instrs, Grown(llvm', instr),
         \A x : Named(x)' = IF /\ Head(work).op \in CallOps /\ x = Head(work).sym
                               /\ Named(x) = {}
                            THEN {Len(llvm) + 1} ELSE Named(x),
         Translates(instr, Head(work)),
         instr.op = "call" => llvm'[instr.fn].sym = Head(work).sym,
         UNCHANGED <<program, phase, pos, cur, front>>
  PROVE  LInv'
<1>1. FuncsFollowText' /\ SymbolsFollowText'
  BY TextStays DEF LInv, front
<1>2. NamesFollowText'
  BY StatementNames
<1>3. CodeFollowsText'
  BY StatementCode DEF LInv
<1>4. ModuleFollowsText'
  <2>1. AllCallables' = AllCallables /\ Reached' = Reached /\ Real' = Real
    BY CleanStays, GrownFunctions DEF Reached
  <2>2. \A f \in Real : llvm'[f].own = llvm[f].own
    BY DEF Grown, Real
  <2>3. \A i \in AllCallables' : i < Reached' => \E f \in Real' : llvm'[f].own = i
    BY <2>1, <2>2 DEF LInv, ModuleFollowsText
  <2> QED
    BY <2>3 DEF ModuleFollowsText
<1>5. UnresolvedIffUsedFirst' /\ AssertHasACause'
  BY DEF UnresolvedIffUsedFirst, AssertHasACause
<1> QED
  BY <1>1, <1>2, <1>3, <1>4, <1>5 DEF LInv

(* A call to n puts n into the module, unless it is there. *)
LEMMA CallNames ==
  ASSUME IInv, DInv, cur \in 1 .. Len(llvm), NEW n \in Name, NEW instr \in Instrs,
         NEW module, module = getOrInsertFunction(n),
         llvm' = Emit(module, instr)
  PROVE  /\ \A x : Named(x)' = IF x = n /\ Named(x) = {} THEN {Len(llvm) + 1} ELSE Named(x)
         /\ llvm'[FunctionNamed(module, n)].sym = n
<1>1. TypeOK
  BY DEF IInv
<1>2. /\ module \in Seq(Functions) /\ cur \in 1 .. Len(module)
      /\ FunctionNamed(module, n) \in 1 .. Len(module)
      /\ module[FunctionNamed(module, n)].sym = n
  <2>1. Len(llvm) \in Nat /\ Len(llvm) <= Len(module)
    BY <1>1, StubShape DEF TypeOK
  <2>2. /\ module \in Seq(Functions)
        /\ FunctionNamed(module, n) \in 1 .. Len(module)
        /\ module[FunctionNamed(module, n)].sym = n
    BY <1>1, StubShape
  <2>3. Len(module) \in Nat
    BY <2>2
  <2> QED
    BY <2>1, <2>2, <2>3
<1>3. ASSUME NEW x
      PROVE  Named(x)' = IF x = n /\ Named(x) = {} THEN {Len(llvm) + 1} ELSE Named(x)
  <2>1. Named(x)' = NamedIn(llvm', x)
    BY DEF Named, NamedIn
  <2>2. NamedIn(llvm', x) = NamedIn(module, x)
    BY <1>2, EmitNames
  <2>3. NamedIn(module, x) = IF x = n /\ Named(n) = {} THEN {Len(llvm) + 1} ELSE Named(x)
    BY <1>1, StubNames
  <2> QED
    BY <2>1, <2>2, <2>3
<1>4. llvm'[FunctionNamed(module, n)].sym = n
  BY <1>2, EmitKeepsNames
<1> QED
  BY <1>3, <1>4

-----------------------------------------------------------------------------
LEMMA Shifted ==
  ASSUME NEW x \in Nat, NEW y \in Nat, NEW l, l = x + y + 1
  PROVE  (\A s \in 1 .. y : x + s \in 1 .. l) /\ \A a \in 1 .. x : a \in 1 .. l
OBVIOUS

(* The statements and arguments compiled for a declaration are its nodes. *)
LEMMA BodyNodes ==
  ASSUME program \in Programs, NEW i \in AllCallables,
         NEW g, g = Greatest(CallableDecls(program, program[i].sym))
  PROVE  /\ \A s \in 1 .. Len(Body(program, i)) : Body(program, i)[s] \in NodesOf(i)
         /\ \A a \in 1 .. Len(program[g].args) :
              program[g].args[a] \in NodesOf(i) /\ program[g].args[a] \in VarNodes
<1> DEFINE d == program[g]
           N == Nodes(d)
           A == d.args
           B == d.body
<1>1. i \in 1 .. Len(program) /\ program[i].op \in Callables
  BY DEF AllCallables
<1>2. /\ d \in Declarations /\ d.op \in Callables /\ Body(program, i) = B
      /\ A \in Seq(VarNodes) /\ B \in Seq(Statements)
  BY <1>1, BodyShape
<1>3. \A j \in 1 .. Len(N) : N[j] \in NodesOf(i)
  BY <1>1, NodesOfDeclaration
<1>4. /\ Len(N) = Len(A) + Len(B) + 1
      /\ \A a \in 1 .. Len(A) : N[a] = A[a]
      /\ \A s \in 1 .. Len(B) : N[Len(A) + s] = B[s]
  BY <1>2, CallableNodes
<1> HIDE DEF N, A, B
<1>5. Len(A) \in Nat /\ Len(B) \in Nat
  BY <1>2
<1>6. /\ \A s \in 1 .. Len(B) : Len(A) + s \in 1 .. Len(N)
      /\ \A a \in 1 .. Len(A) : a \in 1 .. Len(N)
  BY <1>4, <1>5, Shifted
<1>7. /\ \A s \in 1 .. Len(B) : B[s] \in NodesOf(i)
      /\ \A a \in 1 .. Len(A) : A[a] \in NodesOf(i)
  BY <1>3, <1>4, <1>6
<1>8. \A a \in 1 .. Len(A) : A[a] \in VarNodes
  <2> DEFINE T == VarNodes
  <2>1. A \in Seq(T)
    BY <1>2
  <2> HIDE DEF T
  <2>2. \A a \in 1 .. Len(A) : A[a] \in T
    BY <2>1
  <2> QED
    BY <2>2 DEF T
<1> QED
  BY <1>2, <1>7, <1>8 DEF A, B

(* A class that is used before its definition. *)
LEMMA UsedTooEarly ==
  ASSUME program' = program, NEW i \in 1 .. Len(program), NEW k \in KlassesIn(i),
         k \in Klass, k \notin ClassesBefore(program, i)
  PROVE  AssertHasACause'
<1>1. \A j : KlassesIn(j)' = KlassesIn(j)
  <2>1. \A j : NodesOf(j)' = NodesOf(j)
    BY DEF NodesOf
  <2> QED
    BY <2>1 DEF KlassesIn
<1>2. ~\E c \in ClassDecls(program, k) : c < i
  BY DEF ClassesBefore
<1> QED
  BY <1>1, <1>2 DEF AssertHasACause

LEMMA DefVarLinks ==
  ASSUME IInv, DInv, LInv, exec_def_var_codegen
  PROVE  LInv'
<1> DEFINE n == Head(work)
           instr == [op |-> "alloc", var |-> n.sym, klass |-> n.klass]
<1>1. /\ phase = "codegen" /\ cur # 0 /\ work # <<>> /\ n.op = "DEF_VAR"
      /\ UNCHANGED <<program, pos, klasses, method_map, cur, front, lli>>
  BY DEF exec_def_var_codegen, Compiling
<1>2. /\ cur \in 1 .. Len(llvm)
      /\ n.sym \in Var /\ n.klass \in Klass \cup {Prim}
  BY <1>1, CodegenHead, StatementShape, VarNodeShape
<1>3. CASE /\ ~Compiled(n.klass) /\ phase' = "assert"
           /\ UNCHANGED <<work, vars, llvm>>
  <2>1. n.klass \in Klass /\ n.klass \notin klasses /\ n.klass # Prim
    BY <1>2, <1>3 DEF Compiled
  <2>2. /\ klasses = ClassesBefore(program, pos) /\ pos \in 1 .. Len(program)
        /\ program \in Programs
    BY <1>1, CurrentFunction
  <2>3. n \in NodesOf(pos)
    BY <1>1, <2>2, CurrentBody, BodyNodes DEF LInv
  <2>4. n.klass \in KlassesIn(pos)
    BY <1>1, <2>1, <2>3 DEF KlassesIn
  <2>5. AssertHasACause'
    BY <1>1, <2>1, <2>2, <2>4, UsedTooEarly
  <2> QED
    BY <1>1, <1>3, <2>5, StopLinks DEF front
<1>4. CASE /\ Compiled(n.klass)
           /\ llvm' = Emit(llvm, instr)
           /\ UNCHANGED phase
  <2>1. /\ instr \in Instrs /\ instr.op = "alloc"
    BY <1>2 DEF Instrs
  <2>2. TypeOK /\ llvm \in Seq(Functions) /\ Len(llvm) \in Nat
    BY DEF IInv, TypeOK
  <2> HIDE DEF instr
  <2>3. Grown(llvm', instr)
    <3>1. \A f \in Len(llvm) + 1 .. Len(llvm) : FALSE
      BY <2>2
    <3> QED
      BY <1>2, <1>4, <2>1, <2>2, <3>1, EmitGrows
  <2>4. \A x : Named(x)' = Named(x)
    <3> TAKE x
    <3>1. NamedIn(llvm', x) = NamedIn(llvm, x)
      BY <1>2, <1>4, <2>1, <2>2, EmitNames
    <3> QED
      BY <3>1 DEF Named, NamedIn
  <2>5. n.op \notin CallOps /\ Translates(instr, n)
    BY <1>1 DEF CallOps, Translates, instr
  <2> QED
    BY <1>1, <1>4, <2>1, <2>3, <2>4, <2>5, StatementLinks
<1> QED
  BY <1>3, <1>4 DEF exec_def_var_codegen, Stop

LEMMA CallFuncLinks ==
  ASSUME IInv, DInv, LInv, exec_call_func_codegen
  PROVE  LInv'
<1> DEFINE n == Head(work)
           module == getOrInsertFunction(n.sym)
           instr == [op |-> "call", sym |-> n.sym, arg |-> n.arg,
                     fn |-> FunctionNamed(module, n.sym)]
<1>1. /\ phase = "codegen" /\ cur # 0 /\ work # <<>> /\ n.op = "CALL_FUNC"
      /\ UNCHANGED <<program, pos, klasses, method_map, vars, cur, front, lli>>
  BY DEF exec_call_func_codegen, Compiling
<1>2. /\ cur \in 1 .. Len(llvm)
      /\ n.sym \in Name /\ n.arg \in Var \cup {None}
  BY <1>1, CodegenHead, StatementShape
<1>3. CASE phase' \in {"crash", "undefined"} /\ UNCHANGED <<work, llvm>>
  <2>1. AssertHasACause'
    BY <1>3 DEF AssertHasACause
  <2> QED
    BY <1>1, <1>3, <2>1, StopLinks DEF front
<1>4. CASE llvm' = Emit(module, instr) /\ UNCHANGED phase
  <2>1. TypeOK
    BY DEF IInv
  <2>2. module \in Seq(Functions) /\ FunctionNamed(module, n.sym) \in 1 .. Len(module)
    BY <1>2, <2>1, StubShape
  <2>3. /\ instr \in Instrs /\ instr.op = "call" /\ instr.sym = n.sym
        /\ instr.fn = FunctionNamed(module, n.sym)
    <3>1. FunctionNamed(module, n.sym) \in Nat \ {0}
      BY <2>2
    <3> HIDE DEF module
    <3> QED
      BY <1>2, <3>1 DEF Instrs
  <2>4. module = getOrInsertFunction(n.sym)
    OBVIOUS
  <2> HIDE DEF module, instr
  <2>5. Grown(llvm', instr)
    BY <1>2, <1>4, <2>3, <2>4, StubThenEmit
  <2>6. /\ \A x : Named(x)' = IF x = n.sym /\ Named(x) = {} THEN {Len(llvm) + 1} ELSE Named(x)
        /\ llvm'[instr.fn].sym = n.sym
    BY <1>2, <1>4, <2>3, <2>4, CallNames
  <2>7. n.op \in CallOps /\ Translates(instr, n)
    BY <1>1 DEF CallOps, Translates, instr
  <2> QED
    BY <1>1, <1>4, <2>3, <2>5, <2>6, <2>7, StatementLinks
<1> QED
  BY <1>3, <1>4 DEF exec_call_func_codegen, Stop

LEMMA CallMethodLinks ==
  ASSUME IInv, DInv, LInv, exec_call_method_codegen
  PROVE  LInv'
<1> DEFINE n == Head(work)
           k == vars[n.reciever].klass
           module == getOrInsertFunction(n.sym)
           crash == LastRegistered(n.sym) = 0 \/ Unknown(n.reciever) \/ k = Prim
           bad == Foreign(n.reciever) \/ getMethodArrayIndex(k) \notin Slots
           instr == [op |-> "slot", sym |-> n.sym, reciever |-> n.reciever,
                     klass |-> k, slot |-> getMethodArrayIndex(k)]
<1>1. /\ phase = "codegen" /\ cur # 0 /\ work # <<>> /\ n.op = "CALL_METHOD"
      /\ UNCHANGED <<program, pos, klasses, method_map, vars, cur, front, lli>>
  BY DEF exec_call_method_codegen, Compiling
<1>2. /\ cur \in 1 .. Len(llvm) /\ n.reciever \in Var
  BY <1>1, CodegenHead, StatementShape
<1>3. CASE phase' \in {"crash", "undefined"} /\ UNCHANGED <<work, llvm>>
  <2>1. AssertHasACause'
    BY <1>3 DEF AssertHasACause
  <2> QED
    BY <1>1, <1>3, <2>1, StopLinks DEF front
<1>4. CASE ~crash /\ ~bad /\ llvm' = Emit(module, instr) /\ UNCHANGED phase
  <2>1. n.sym \in Name
    BY <1>4, LastRegisteredIs
  <2>2. k \in klasses /\ k \in Klass /\ getMethodArrayIndex(k) \in Slots
    BY <1>1, <1>2, <1>4, NotMine DEF IInv, TypeOK
  <2>3. instr \in Instrs /\ instr.op # "call"
    BY <1>2, <2>1, <2>2 DEF Instrs
  <2>4. module = getOrInsertFunction(n.sym)
    OBVIOUS
  <2> HIDE DEF module, instr
  <2>5. Grown(llvm', instr)
    BY <1>2, <1>4, <2>1, <2>3, <2>4, StubThenEmit
  <2>6. \A x : Named(x)' = IF x = n.sym /\ Named(x) = {} THEN {Len(llvm) + 1} ELSE Named(x)
    BY <1>2, <1>4, <2>1, <2>3, <2>4, CallNames
  <2>7. n.op \in CallOps /\ Translates(instr, n)
    BY <1>1 DEF CallOps, Translates, instr
  <2> HIDE DEF k, bad, crash
  <2> QED
    BY <1>1, <1>4, <2>3, <2>5, <2>6, <2>7, StatementLinks
<1> QED
  BY <1>3, <1>4 DEF exec_call_method_codegen, Stop, MethodStub

-----------------------------------------------------------------------------
LEMMA DefClassLinks ==
  ASSUME IInv, DInv, LInv, exec_def_class_codegen
  PROVE  LInv'
<1>1. /\ phase = "codegen" /\ cur = 0 /\ pos <= Len(program)
      /\ program[pos].op = "DEF_CLASS"
      /\ UNCHANGED <<program, work, front, lli>>
  BY DEF exec_def_class_codegen
<1>2. program \in Programs /\ pos \in 1 .. Len(program) /\ pos \in Nat
  BY <1>1, ProgramShape DEF IInv, TypeOK
<1>3. CASE SuperMissing(pos) /\ phase' = "assert" /\ UNCHANGED back
  <2>1. \A i : SuperMissing(i)' <=> SuperMissing(i)
    <3>1. \A i : SuperDecls(i)' = SuperDecls(i)
      BY <1>1 DEF SuperDecls
    <3>2. \A i : Climb(i)' = Climb(i)
      BY <1>1, <3>1 DEF Climb
    <3> QED
      BY <1>1, <3>1, <3>2 DEF SuperMissing
  <2>2. pos \in DeclsOf(program, "DEF_CLASS")
    BY <1>1, <1>2 DEF DeclsOf
  <2>3. AssertHasACause'
    BY <1>1, <1>3, <2>1, <2>2 DEF AssertHasACause
  <2> QED
    BY <1>1, <1>3, <2>3, StopLinks DEF front, back
<1>4. CASE phase' = "crash" /\ UNCHANGED back
  <2>1. AssertHasACause'
    BY <1>4 DEF AssertHasACause
  <2> QED
    BY <1>1, <1>4, <2>1, StopLinks DEF front, back
<1>5. CASE pos' = pos + 1 /\ UNCHANGED <<phase, vars, llvm, cur>>
  <2>1. /\ Reached = pos /\ Reached' = pos + 1 /\ Here = 1 /\ Here' = 1
        /\ Stubs' = Stubs /\ Real' = Real /\ AllCallables' = AllCallables
        /\ \A x : Named(x)' = Named(x)
    BY <1>1, <1>5, CleanStays DEF Reached, Here, Stubs, Real, Named
  <2>2. FuncsFollowText' /\ SymbolsFollowText'
    BY <1>1, <1>5, TextStays DEF LInv, front
  <2>3. CodeFollowsText'
    BY <1>1, <1>5, <2>1 DEF LInv, CodeFollowsText, Code
  <2>4. NamesFollowText'
    <3>1. \A x : /\ Declared(program, x, pos + 1) <=> Declared(program, x, pos)
                 /\ Mentioning(program, x, pos + 1, 1) = Mentioning(program, x, pos, 1)
      <4>1. program[pos].op \notin Callables
        BY <1>1 DEF Callables
      <4> QED
        BY <1>2, <4>1, DeclaredStep, MentionDeclaration
    <3>2. \A x : Early(program, x, pos + 1, 1) <=> Early(program, x, pos, 1)
      BY <3>1 DEF Early
    <3> QED
      BY <1>1, <1>5, <2>1, <3>1, <3>2 DEF LInv, NamesFollowText
  <2>5. ModuleFollowsText'
    <3>1. \A i \in AllCallables : i < pos + 1 => i < pos
      <4>1. pos \notin AllCallables /\ \A i \in AllCallables : i \in Nat
        BY <1>1, <1>2, ProgramShape DEF AllCallables, Callables
      <4> QED
        BY <1>2, <4>1
    <3> QED
      BY <1>1, <1>5, <2>1, <3>1 DEF LInv, ModuleFollowsText
  <2>6. UnresolvedIffUsedFirst' /\ AssertHasACause'
    BY <1>1, <1>5 DEF UnresolvedIffUsedFirst, AssertHasACause
  <2> QED
    BY <2>2, <2>3, <2>4, <2>5, <2>6 DEF LInv
<1> QED
  BY <1>3, <1>4, <1>5 DEF exec_def_class_codegen, Stop

(* A function is begun: it gets its name, unless something has it. *)
LEMMA BeginLinks ==
  ASSUME IInv, DInv, LInv, phase = "codegen", cur = 0, pos \in 1 .. Len(program),
         program[pos].op \in Callables,
         NEW decl, decl = LastRegistered(program[pos].sym),
         NEW map, BeginFunction(program[pos], decl, map),
         NEW L, L = Len(llvm) + 1,
         UNCHANGED <<program, front, lli>>
  PROVE  LInv'
<1> DEFINE d == program[pos]
           new == NewFunction(d.sym, decl)
<1>1. /\ program \in Programs /\ Len(program) \in Nat /\ pos \in Nat /\ pos # 0
      /\ d.sym \in Name /\ pos \in AllCallables
      /\ llvm \in Seq(Functions) /\ Len(llvm) \in Nat
  <2>1. program \in Programs /\ llvm \in Seq(Functions) /\ Len(llvm) \in Nat
    BY DEF IInv, TypeOK
  <2>2. Len(program) \in Nat /\ d \in Declarations
    BY <2>1, ProgramShape
  <2>3. d.sym \in Name
    BY <2>2, CallableShape
  <2>4. pos \in AllCallables
    BY DEF AllCallables
  <2> QED
    BY <2>1, <2>2, <2>3, <2>4
<1>2. decl = Greatest(CallableDecls(program, d.sym))
  BY <1>1, LastRegisteredGreatest DEF LInv
<1>3. /\ new.sym = d.sym /\ new.own = pos /\ new.decl = decl /\ new.code = <<>>
      /\ new.named <=> Named(d.sym) = {}
  BY DEF NewFunction
<1>4. llvm' = Append(llvm, new) /\ cur' = L /\ UNCHANGED <<phase, pos>>
  BY DEF BeginFunction
<1>5. UNCHANGED <<syms, funcs>>
  BY DEF front
<1> HIDE DEF new
<1>6. /\ Len(llvm') = L /\ llvm'[L] = new
      /\ \A f \in 1 .. Len(llvm) : llvm'[f] = llvm[f]
  <2> DEFINE T == Functions
  <2>1. llvm \in Seq(T)
    BY <1>1
  <2> HIDE DEF T
  <2> QED
    BY <1>4, <2>1
<1> HIDE DEF d
<1>7. /\ \A f : f \in 1 .. Len(llvm') <=> f \in 1 .. Len(llvm) \/ f = L
      /\ L \notin 1 .. Len(llvm)
  BY <1>1, <1>6
<1>8. /\ Stubs' = Stubs /\ Real' = Real \cup {L}
      /\ \A f \in 1 .. Len(llvm) : Code(f)' = Code(f)
      /\ Code(L)' = <<>>
  <2>1. Stubs' = Stubs
    BY <1>1, <1>3, <1>6, <1>7 DEF Stubs
  <2>2. L \notin Stubs
    BY <1>7 DEF Stubs
  <2>3. \A f : f \in Real' <=> f \in Real \/ f = L
    BY <1>7, <2>1, <2>2 DEF Real
  <2>4. \A f \in 1 .. Len(llvm) : Code(f)' = Code(f)
    BY <1>6 DEF Code
  <2>5. Code(L)' = <<>>
    BY <1>3, <1>6 DEF Code
  <2> QED
    BY <2>1, <2>3, <2>4, <2>5
<1>9. Reached = pos /\ Reached' = pos + 1 /\ Here = 1 /\ Here' = 1
  <2>1. cur' # 0 /\ Done' = 1
    BY <1>1, <1>4, <1>8 DEF Done
  <2>2. Here' = Done'
    BY <2>1 DEF Here
  <2> QED
    BY <1>4, <2>1, <2>2 DEF Reached, Here
<1>10. ASSUME NEW x
       PROVE  Named(x)' = Named(x) \cup (IF x = d.sym /\ Named(x) = {} THEN {L} ELSE {})
  <2>1. \A f : f \in Named(x)' <=>
                 \/ f \in 1 .. Len(llvm) /\ llvm[f].sym = x /\ llvm[f].named
                 \/ f = L /\ d.sym = x /\ Named(d.sym) = {}
    BY <1>3, <1>6, <1>7 DEF Named
  <2>2. \A f : f \in Named(x) <=> f \in 1 .. Len(llvm) /\ llvm[f].sym = x /\ llvm[f].named
    BY DEF Named
  <2> QED
    BY <2>1, <2>2
<1>11. FuncsFollowText' /\ SymbolsFollowText'
  BY <1>4, <1>5, TextStays DEF LInv
<1>12. NamesFollowText'
  <2> SUFFICES ASSUME NEW n \in Name \cup {Main}
               PROVE  /\ Named(n)' = {} <=> ~Declared(program, n, pos + 1)
                                            /\ Mentioning(program, n, pos, 1) = {}
                      /\ \A f \in Named(n)' : f \in Stubs <=> Early(program, n, pos, 1)
    BY <1>4, <1>8, <1>9 DEF NamesFollowText
  <2>1. /\ Named(n) = {} <=> ~Declared(program, n, pos)
                             /\ Mentioning(program, n, pos, 1) = {}
        /\ \A f \in Named(n) : f \in Stubs <=> Early(program, n, pos, 1)
    BY <1>9 DEF LInv, NamesFollowText
  <2>2. Declared(program, n, pos + 1) <=> Declared(program, n, pos) \/ d.sym = n
    BY <1>1, DeclaredStep DEF d
  <2>3. L \notin Stubs
    BY <1>7 DEF Stubs
  <2>4. Mentioning(program, n, pos, 1) = {} => ~Early(program, n, pos, 1)
    BY DEF Early
  <2>5. Named(n)' = Named(n) \cup (IF n = d.sym /\ Named(n) = {} THEN {L} ELSE {})
    BY <1>10
  <2>6. CASE n = d.sym /\ Named(n) = {}
    BY <2>1, <2>2, <2>3, <2>4, <2>5, <2>6
  <2>7. CASE ~(n = d.sym /\ Named(n) = {})
    <3>1. Named(n)' = Named(n)
      BY <2>5, <2>7
    <3> QED
      BY <2>1, <2>2, <2>7, <3>1
  <2> QED
    BY <2>6, <2>7
<1>13. CodeFollowsText'
  <2>1. \A f \in Stubs' : llvm'[f].code = <<>>
    BY <1>6, <1>8 DEF LInv, CodeFollowsText, Stubs
  <2>2. ASSUME NEW f \in Real
        PROVE  /\ llvm'[f].decl = Greatest(CallableDecls(program, llvm'[f].sym))
               /\ Len(Code(f)') = Len(Body(program, llvm'[f].own))
               /\ \A i \in 1 .. Len(Code(f)') :
                    LET in == Code(f)'[i]
                        s  == Body(program, llvm'[f].own)[i]
                    IN  /\ Translates(in, s)
                        /\ in.op = "call" => llvm'[in.fn].sym = s.sym
    <3>1. f \in 1 .. Len(llvm) /\ llvm'[f] = llvm[f] /\ Code(f)' = Code(f) /\ f # cur
      BY <1>1, <1>6, <1>8 DEF Real
    <3>2. /\ llvm[f].decl = Greatest(CallableDecls(program, llvm[f].sym))
          /\ Len(Code(f)) = Len(Body(program, llvm[f].own))
          /\ \A i \in 1 .. Len(Code(f)) :
               LET in == Code(f)[i]
                   s  == Body(program, llvm[f].own)[i]
               IN  /\ Translates(in, s)
                   /\ in.op = "call" => llvm[in.fn].sym = s.sym
      BY <3>1 DEF LInv, CodeFollowsText
    <3>3. \A i \in 1 .. Len(Code(f)) :
            Code(f)[i].op = "call" => llvm'[Code(f)[i].fn] = llvm[Code(f)[i].fn]
      BY <1>6, <3>1 DEF DInv, CallsReach
    <3> QED
      BY <3>1, <3>2, <3>3
  <2>3. /\ llvm'[L].decl = Greatest(CallableDecls(program, llvm'[L].sym))
        /\ \A i \in 1 .. Len(Code(L)') : FALSE
    <3>1. Len(Code(L)') = 0
      BY <1>8
    <3> QED
      BY <1>2, <1>3, <1>6, <3>1
  <2>4. \A f \in Real' :
          /\ llvm'[f].decl = Greatest(CallableDecls(program', llvm'[f].sym))
          /\ f # cur' => Len(Code(f)') = Len(Body(program', llvm'[f].own))
          /\ \A i \in 1 .. Len(Code(f)') :
               LET in == Code(f)'[i]
                   s  == Body(program', llvm'[f].own)[i]
               IN  /\ Translates(in, s)
                   /\ in.op = "call" => llvm'[in.fn].sym = s.sym
    BY <1>4, <1>8, <2>2, <2>3
  <2> QED
    BY <2>1, <2>4 DEF CodeFollowsText
<1>14. ModuleFollowsText'
  <2>1. \A i \in AllCallables : i < pos + 1 => i < pos \/ i = pos
    BY <1>1 DEF AllCallables
  <2>2. \A i \in AllCallables : i < pos => \E f \in Real : llvm[f].own = i
    BY <1>9 DEF LInv, ModuleFollowsText
  <2>3. \A f \in Real : f \in Real' /\ llvm'[f].own = llvm[f].own
    BY <1>6, <1>8 DEF Real
  <2>4. L \in Real' /\ llvm'[L].own = pos
    BY <1>3, <1>6, <1>8
  <2>5. \A i \in AllCallables : i < pos + 1 => \E f \in Real' : llvm'[f].own = i
    BY <2>1, <2>2, <2>3, <2>4
  <2> QED
    BY <1>4, <1>9, <2>5, CleanStays DEF ModuleFollowsText
<1>15. UnresolvedIffUsedFirst' /\ AssertHasACause'
  BY <1>4 DEF UnresolvedIffUsedFirst, AssertHasACause
<1> QED
  BY <1>11, <1>12, <1>13, <1>14, <1>15 DEF LInv

(* The common failure of a declaration: a class it names is not compiled. *)
LEMMA ArgsLinks ==
  ASSUME IInv, DInv, LInv, phase = "codegen", cur = 0, pos \in 1 .. Len(program),
         program[pos].op \in Callables,
         \/ ~ArgsCompiled(program[LastRegistered(program[pos].sym)].args)
         \/ program[pos].op = "DEF_METHOD" /\ program[pos].reciever \notin klasses,
         program' = program
  PROVE  AssertHasACause'
<1> DEFINE g == LastRegistered(program[pos].sym)
<1>1. pos \in AllCallables /\ program \in Programs /\ program[pos] \in Declarations
  BY ProgramShape DEF AllCallables, IInv
<1>2. g = Greatest(CallableDecls(program, program[pos].sym))
  BY <1>1, LastRegisteredGreatest DEF LInv
<1>3. klasses = ClassesBefore(program, pos)
  BY DEF DInv, MapsFollowText, Reached
<1>4. CASE ~ArgsCompiled(program[g].args)
  <2>1. PICK a \in 1 .. Len(program[g].args) : ~Compiled(program[g].args[a].klass)
    BY <1>4 DEF ArgsCompiled
  <2> DEFINE n == program[g].args[a]
  <2>2. n \in NodesOf(pos) /\ n \in VarNodes
    BY <1>1, <1>2, BodyNodes
  <2>3. n.op = "DEF_VAR" /\ n.klass \in Klass \cup {Prim}
    BY <2>2, VarNodeShape
  <2>4. n.klass \in Klass /\ n.klass # Prim /\ n.klass \notin klasses
    BY <2>1, <2>3 DEF Compiled
  <2> HIDE DEF n
  <2>5. n.klass \in KlassesIn(pos)
    BY <2>2, <2>3, <2>4 DEF KlassesIn
  <2> QED
    BY <1>3, <2>4, <2>5, UsedTooEarly
<1>5. CASE program[pos].op = "DEF_METHOD" /\ program[pos].reciever \notin klasses
  <2>1. program[pos].reciever \in Klass
    BY <1>1, <1>5, CallableShape
  <2>2. program[pos].reciever \in KlassesIn(pos)
    BY <1>5 DEF KlassesIn
  <2> QED
    BY <1>3, <1>5, <2>1, <2>2, UsedTooEarly
<1> QED
  BY <1>4, <1>5

LEMMA DefFuncLinks ==
  ASSUME IInv, DInv, LInv, exec_def_func_codegen
  PROVE  LInv'
<1> DEFINE d == program[pos]
           decl == LastRegistered(d.sym)
<1>1. /\ phase = "codegen" /\ cur = 0 /\ pos <= Len(program) /\ d.op = "DEF_FUNC"
      /\ UNCHANGED <<program, front, lli>>
  BY DEF exec_def_func_codegen
<1>2. pos \in 1 .. Len(program) /\ d.op \in Callables
  BY <1>1, ProgramShape DEF IInv, TypeOK, Callables
<1>3. CASE ~ArgsCompiled(program[decl].args) /\ phase' = "assert" /\ UNCHANGED back
  <2>1. AssertHasACause'
    BY <1>1, <1>2, <1>3, ArgsLinks
  <2> QED
    BY <1>1, <1>3, <2>1, StopLinks DEF front, back
<1>4. CASE BeginFunction(d, decl, vars)
  BY <1>1, <1>2, <1>4, BeginLinks
<1> QED
  BY <1>3, <1>4 DEF exec_def_func_codegen, Stop

LEMMA DefMethodLinks ==
  ASSUME IInv, DInv, LInv, exec_def_method_codegen
  PROVE  LInv'
<1> DEFINE d == program[pos]
           decl == LastRegistered(d.sym)
           fn == Len(llvm) + 1
<1>1. /\ phase = "codegen" /\ cur = 0 /\ pos <= Len(program) /\ d.op = "DEF_METHOD"
      /\ UNCHANGED <<program, front, lli>>
  BY DEF exec_def_method_codegen
<1>2. pos \in 1 .. Len(program) /\ d.op \in Callables
  BY <1>1, ProgramShape DEF IInv, TypeOK, Callables
<1>3. CASE /\ d.reciever \notin klasses \/ ~ArgsCompiled(program[decl].args)
           /\ phase' = "assert" /\ UNCHANGED back
  <2>1. AssertHasACause'
    BY <1>1, <1>2, <1>3, ArgsLinks
  <2> QED
    BY <1>1, <1>3, <2>1, StopLinks DEF front, back
<1>4. CASE BeginFunction(d, decl, WithThis(d, decl, fn))
  BY <1>1, <1>2, <1>4, BeginLinks
<1> QED
  BY <1>3, <1>4 DEF exec_def_method_codegen, Stop

(* A function is finished; main gets its stores. *)
LEMMA FinishLinks ==
  ASSUME IInv, DInv, LInv, finish_function
  PROVE  LInv'
<1>1. /\ phase = "codegen" /\ cur # 0 /\ work = <<>>
      /\ UNCHANGED <<program, work, klasses, method_map, vars, front, lli>>
  BY DEF finish_function
<1>2. CASE phase' = "undefined" /\ UNCHANGED <<pos, llvm, cur>>
  <2>1. AssertHasACause'
    BY <1>2 DEF AssertHasACause
  <2> QED
    BY <1>1, <1>2, <2>1, StopLinks DEF front
<1>3. CASE /\ llvm' = [llvm EXCEPT ![cur].stores = setFuncPtrArry] \/ llvm' = llvm
           /\ cur' = 0 /\ pos' = pos + 1 /\ UNCHANGED phase
  <2>1. /\ cur \in Real /\ cur \in 1 .. Len(llvm) /\ llvm[cur].own = pos
        /\ Here = Done /\ Done = Len(Body(program, pos)) + 1 /\ Reached = pos + 1
        /\ program \in Programs /\ pos \in 1 .. Len(program) /\ program[pos].op \in Callables
        /\ Len(Body(program, pos)) \in Nat
    BY <1>1, CurrentBody, CurrentFunction, BodyShape DEF LInv
  <2>2. /\ Len(llvm') = Len(llvm)
        /\ \A f \in 1 .. Len(llvm) :
             /\ llvm'[f].sym = llvm[f].sym /\ llvm'[f].named = llvm[f].named
             /\ llvm'[f].own = llvm[f].own /\ llvm'[f].decl = llvm[f].decl
             /\ llvm'[f].code = llvm[f].code
    <3>1. llvm \in Seq(Functions) /\ DOMAIN llvm = 1 .. Len(llvm)
      BY DEF IInv, TypeOK
    <3>2. CASE llvm' = [llvm EXCEPT ![cur].stores = setFuncPtrArry]
      <4> DEFINE g == [llvm[cur] EXCEPT !.stores = setFuncPtrArry]
      <4>1. /\ g.sym = llvm[cur].sym /\ g.named = llvm[cur].named
            /\ g.own = llvm[cur].own /\ g.decl = llvm[cur].decl /\ g.code = llvm[cur].code
        <5>1. llvm[cur] \in Functions
          BY <2>1, <3>1
        <5> HIDE DEF setFuncPtrArry
        <5> QED
          BY <5>1 DEF Functions
      <4>2. llvm' = [llvm EXCEPT ![cur] = g]
        BY <3>2
      <4> HIDE DEF g
      <4>3. /\ Len(llvm') = Len(llvm)
            /\ \A f \in 1 .. Len(llvm) : llvm'[f] = IF f = cur THEN g ELSE llvm[f]
        BY <3>1, <4>2
      <4> QED
        BY <4>1, <4>3
    <3> QED
      BY <1>3, <3>2
  <2>3. /\ Reached' = pos + 1 /\ Here' = 1
        /\ Stubs' = Stubs /\ Real' = Real /\ AllCallables' = AllCallables
        /\ \A x : Named(x)' = Named(x)
        /\ \A f \in 1 .. Len(llvm) : Code(f)' = Code(f)
    <3>1. Stubs' = Stubs
      BY <2>2 DEF Stubs
    <3>2. Real' = Real
      BY <2>2, <3>1 DEF Real
    <3>3. \A x : Named(x)' = Named(x)
      BY <2>2 DEF Named
    <3>4. \A f \in 1 .. Len(llvm) : Code(f)' = Code(f)
      BY <2>2 DEF Code
    <3> QED
      BY <1>1, <1>3, <3>1, <3>2, <3>3, <3>4, CleanStays DEF Reached, Here
  <2>4. FuncsFollowText' /\ SymbolsFollowText'
    BY <1>1, <1>3, TextStays DEF LInv, front
  <2>5. NamesFollowText'
    <3>1. \A x : Mentioning(program, x, pos + 1, 1) = Mentioning(program, x, pos, Done)
      BY <2>1, MentionDeclaration
    <3>2. \A x : Early(program, x, pos + 1, 1) <=> Early(program, x, pos, Done)
      BY <3>1 DEF Early
    <3> QED
      BY <1>1, <1>3, <2>1, <2>3, <3>1, <3>2 DEF LInv, NamesFollowText
  <2>6. CodeFollowsText'
    <3>1. \A f \in Stubs : llvm'[f].code = <<>>
      BY <2>2 DEF LInv, CodeFollowsText, Stubs
    <3>2. ASSUME NEW f \in Real
          PROVE  /\ llvm'[f].decl = Greatest(CallableDecls(program, llvm'[f].sym))
                 /\ Len(Code(f)') = Len(Body(program, llvm'[f].own))
                 /\ \A i \in 1 .. Len(Code(f)') :
                      LET in == Code(f)'[i]
                          s  == Body(program, llvm'[f].own)[i]
                      IN  /\ Translates(in, s)
                          /\ in.op = "call" => llvm'[in.fn].sym = s.sym
      <4>1. /\ f \in 1 .. Len(llvm) /\ Code(f)' = Code(f)
            /\ llvm'[f].sym = llvm[f].sym /\ llvm'[f].own = llvm[f].own
            /\ llvm'[f].decl = llvm[f].decl
        BY <2>2, <2>3 DEF Real
      <4>2. Len(Code(f)) = Len(Body(program, llvm[f].own))
        <5>1. CASE f = cur
          <6>1. Len(Code(cur)) \in Nat
            <7>1. Code(cur) \in Seq(Instrs)
              BY <2>1, FunctionShape DEF Code, IInv, TypeOK
            <7> QED
              BY <7>1
          <6> QED
            BY <2>1, <5>1, <6>1 DEF Done
        <5>2. CASE f # cur
          BY <5>2 DEF LInv, CodeFollowsText
        <5> QED
          BY <5>1, <5>2
      <4>3. /\ llvm[f].decl = Greatest(CallableDecls(program, llvm[f].sym))
            /\ \A i \in 1 .. Len(Code(f)) :
                 LET in == Code(f)[i]
                     s  == Body(program, llvm[f].own)[i]
                 IN  /\ Translates(in, s)
                     /\ in.op = "call" => llvm[in.fn].sym = s.sym
        BY DEF LInv, CodeFollowsText
      <4>4. \A i \in 1 .. Len(Code(f)) :
              Code(f)[i].op = "call" => llvm'[Code(f)[i].fn].sym = llvm[Code(f)[i].fn].sym
        BY <2>2, <4>1 DEF DInv, CallsReach
      <4> QED
        BY <4>1, <4>2, <4>3, <4>4
    <3>3. /\ \A f \in Stubs' : llvm'[f].code = <<>>
          /\ \A f \in Real' :
               /\ llvm'[f].decl = Greatest(CallableDecls(program', llvm'[f].sym))
               /\ f # cur' => Len(Code(f)') = Len(Body(program', llvm'[f].own))
               /\ \A i \in 1 .. Len(Code(f)') :
                    LET in == Code(f)'[i]
                        s  == Body(program', llvm'[f].own)[i]
                    IN  /\ Translates(in, s)
                        /\ in.op = "call" => llvm'[in.fn].sym = s.sym
      BY <1>1, <2>3, <3>1, <3>2
    <3> QED
      BY <3>3 DEF CodeFollowsText
  <2>7. ModuleFollowsText'
    <3>1. \A i \in AllCallables : i < Reached => \E f \in Real : llvm[f].own = i
      BY <1>1 DEF LInv, ModuleFollowsText
    <3>2. \A f \in Real : llvm'[f].own = llvm[f].own
      BY <2>2 DEF Real
    <3>3. \A i \in AllCallables' : i < Reached' => \E f \in Real' : llvm'[f].own = i
      BY <2>1, <2>3, <3>1, <3>2
    <3> QED
      BY <1>1, <1>3, <3>3 DEF ModuleFollowsText
  <2>8. UnresolvedIffUsedFirst' /\ AssertHasACause'
    BY <1>1, <1>3 DEF UnresolvedIffUsedFirst, AssertHasACause
  <2> QED
    BY <2>4, <2>5, <2>6, <2>7, <2>8 DEF LInv
<1> QED
  BY <1>2, <1>3 DEF finish_function, Stop

LEMMA WriteLinks ==
  ASSUME IInv, DInv, LInv, WriteBitcodeToFile
  PROVE  LInv'
<1>1. /\ phase = "codegen" /\ phase' = "written" /\ cur = 0 /\ pos > Len(program)
      /\ UNCHANGED <<program, pos, syms, funcs, llvm, cur>>
  BY DEF WriteBitcodeToFile, AllVisited, front, back
<1>2. FuncsFollowText' /\ SymbolsFollowText'
  BY <1>1, TextStays DEF LInv
<1>3. /\ Stubs' = Stubs /\ Real' = Real /\ Reached' = Reached /\ Here' = Here
      /\ AllCallables' = AllCallables /\ \A x : Named(x)' = Named(x)
  BY <1>1, CleanStays DEF Stubs, Real, Reached, Here, Named
<1>4. NamesFollowText' /\ CodeFollowsText' /\ ModuleFollowsText'
  BY <1>1, <1>3 DEF LInv, NamesFollowText, CodeFollowsText, ModuleFollowsText, Code
<1>5. UnresolvedIffUsedFirst' /\ AssertHasACause'
  BY <1>1 DEF UnresolvedIffUsedFirst, AssertHasACause
<1> QED
  BY <1>2, <1>4, <1>5 DEF LInv

-----------------------------------------------------------------------------
(***************************************************************************)
(* Loading and running.                                                    *)
(***************************************************************************)
LEMMA MainResolved ==
  ASSUME IInv, DInv, LInv, phase = "written"
  PROVE  Mains = {} <=> CallableDecls(program, Main) = {} \/ UsedFirst(Main)
<1> DEFINE P == Len(program) + 1
           M == Mentioning(program, Main, P, 1)
<1>1. cur = 0 /\ pos = P /\ program \in Programs /\ Reached = P /\ Here = 1
  <2>1. cur = 0 /\ pos > Len(program) /\ pos \in 1 .. Len(program) + 1 /\ program \in Programs
    BY DEF LInv, ModuleFollowsText, IInv, TypeOK
  <2>2. Len(program) \in Nat
    BY <2>1, ProgramShape
  <2> QED
    BY <2>1, <2>2 DEF Reached, Here
<1>2. /\ Named(Main) = {} <=> ~Declared(program, Main, P) /\ M = {}
      /\ \A f \in Named(Main) : f \in Stubs <=> Early(program, Main, P, 1)
  BY <1>1 DEF LInv, NamesFollowText
<1>3. /\ Early(program, Main, P, 1) <=> UsedFirst(Main)
      /\ Declared(program, Main, P) <=> CallableDecls(program, Main) # {}
  BY <1>1, MentionAll
<1>4. CallableDecls(program, Main) = {} /\ M # {} => Early(program, Main, P, 1)
  BY DEF Early
<1>5. M = {} => ~Early(program, Main, P, 1)
  BY DEF Early
<1> HIDE DEF M
<1> QED
  BY <1>2, <1>3, <1>4, <1>5 DEF Mains

LEMMA CallsResolved ==
  ASSUME IInv, DInv, LInv, phase = "written"
  PROVE  CallsStub <=> \E n \in Name : CalledByName(n) /\ UsedFirst(n)
<1> DEFINE P == Len(program) + 1
<1>1. /\ cur = 0 /\ program \in Programs /\ Reached = P /\ Here = 1 /\ pos = P
      /\ Len(program) \in Nat
  <2>1. cur = 0 /\ pos > Len(program) /\ pos \in 1 .. Len(program) + 1 /\ program \in Programs
    BY DEF LInv, ModuleFollowsText, IInv, TypeOK
  <2>2. Len(program) \in Nat
    BY <2>1, ProgramShape
  <2> QED
    BY <2>1, <2>2 DEF Reached, Here
<1>2. ASSUME NEW n \in Name, NEW f \in Named(n)
      PROVE  f \in Stubs <=> UsedFirst(n)
  BY <1>1, MentionAll DEF LInv, NamesFollowText
<1>3. ASSUME NEW f \in Real, NEW i \in 1 .. Len(Code(f)), Code(f)[i].op = "call"
      PROVE  LET s == Body(program, llvm[f].own)[i] IN
             s.sym \in Name /\ Code(f)[i].fn \in Named(s.sym)
  <2> DEFINE s == Body(program, llvm[f].own)[i]
             in == Code(f)[i]
  <2>1. in.sym = s.sym /\ llvm[in.fn].sym = s.sym
    BY <1>3 DEF LInv, CodeFollowsText, Translates
  <2>2. f \in 1 .. Len(llvm)
    BY DEF Real
  <2>3. in.fn \in 1 .. Len(llvm) /\ llvm[in.fn].named
    BY <1>3, <2>2 DEF DInv, CallsReach
  <2>4. llvm[in.fn].sym \in Name
    BY <2>3, FunctionShape DEF IInv, TypeOK
  <2> HIDE DEF s, in
  <2>5. in.fn \in Named(s.sym)
    BY <2>1, <2>3 DEF Named
  <2> QED
    BY <2>1, <2>4, <2>5 DEF s, in
<1>4. ASSUME CallsStub
      PROVE  \E n \in Name : CalledByName(n) /\ UsedFirst(n)
  <2>0. PICK f \in 1 .. Len(llvm) :
          \E i \in 1 .. Len(Code(f)) : Code(f)[i].op = "call" /\ Code(f)[i].fn \in Stubs
    BY <1>4 DEF CallsStub
  <2>1. PICK i \in 1 .. Len(Code(f)) : Code(f)[i].op = "call" /\ Code(f)[i].fn \in Stubs
    BY <2>0
  <2>2. f \in Real
    <3>1. \A g \in Stubs : Len(Code(g)) = 0
      BY DEF LInv, CodeFollowsText, Code
    <3>2. f \notin Stubs
      BY <2>1, <3>1
    <3> QED
      BY <3>2 DEF Real
  <2> DEFINE o == llvm[f].own
             n == Body(program, o)[i].sym
  <2>3. o \in 1 .. Len(program) /\ program[o].op \in Callables
    BY <2>2 DEF IInv, Functional
  <2>4. /\ i \in 1 .. Len(Body(program, o)) /\ Body(program, o)[i].op = "CALL_FUNC"
    <3>1. f # cur
      BY <1>1, <2>1
    <3> QED
      BY <2>1, <2>2, <3>1 DEF LInv, CodeFollowsText, Translates
  <2>5. n \in Name /\ Code(f)[i].fn \in Named(n)
    BY <1>3, <2>1, <2>2
  <2>6. UsedFirst(n)
    BY <1>2, <2>1, <2>5
  <2>7. CalledByName(n)
    <3>1. Body(program, o) = CompiledBody(o)
      BY DEF Body, CompiledBody
    <3> QED
      BY <2>3, <2>4, <3>1 DEF CalledByName, Mentions
  <2> QED
    BY <2>5, <2>6, <2>7
<1>5. ASSUME NEW n \in Name, CalledByName(n), UsedFirst(n)
      PROVE  CallsStub
  <2>1. PICK p \in 1 .. Len(program) :
          program[p].op \in Callables /\ Mentions(p, n, {"CALL_FUNC"})
    BY <1>5 DEF CalledByName
  <2>2. PICK i \in 1 .. Len(Body(program, p)) :
          Body(program, p)[i].op = "CALL_FUNC" /\ Body(program, p)[i].sym = n
    <3>1. Body(program, p) = CompiledBody(p)
      BY DEF Body, CompiledBody
    <3> QED
      BY <2>1, <3>1 DEF Mentions
  <2>3. PICK f \in Real : llvm[f].own = p
    <3>1. p \in AllCallables /\ p < Reached
      BY <1>1, <2>1 DEF AllCallables
    <3> QED
      BY <3>1 DEF LInv, ModuleFollowsText
  <2>4. f \in 1 .. Len(llvm) /\ f # cur
    BY <1>1, <2>3 DEF Real
  <2>5. i \in 1 .. Len(Code(f)) /\ Code(f)[i].op = "call"
    BY <2>2, <2>3, <2>4 DEF LInv, CodeFollowsText, Translates
  <2>6. Code(f)[i].fn \in Named(n)
    BY <1>3, <2>2, <2>3, <2>5
  <2>7. Code(f)[i].fn \in Stubs
    BY <1>2, <1>5, <2>6
  <2> QED
    BY <2>4, <2>5, <2>7 DEF CallsStub
<1> QED
  BY <1>4, <1>5

(* The text decides for good. *)
LEMMA TextDecides ==
  ASSUME program' = program
  PROVE  \A n : (UsedFirst(n)' <=> UsedFirst(n)) /\ (CalledByName(n)' <=> CalledByName(n))
<1>1. \A i : CompiledBody(i)' = CompiledBody(i)
  BY DEF CompiledBody
<1>2. \A i, n, ops : Mentions(i, n, ops)' <=> Mentions(i, n, ops)
  BY <1>1 DEF Mentions
<1> QED
  BY <1>2 DEF UsedFirst, CalledByName

LEMMA AfterCompilation ==
  ASSUME LInv, phase \in {"written", "running"},
         phase' \in {"unresolved", "running", "exited", "crash"},
         UNCHANGED <<program, syms, funcs, llvm, cur>>,
         UnresolvedIffUsedFirst'
  PROVE  LInv'
<1>1. FuncsFollowText' /\ SymbolsFollowText'
  BY TextStays DEF LInv
<1>2. CodeFollowsText'
  BY DEF LInv, CodeFollowsText, Code, Real, Stubs
<1>3. NamesFollowText' /\ ModuleFollowsText' /\ AssertHasACause'
  BY DEF NamesFollowText, ModuleFollowsText, AssertHasACause
<1> QED
  BY <1>1, <1>2, <1>3 DEF LInv

LEMMA LoadLinks ==
  ASSUME IInv, DInv, LInv, Load
  PROVE  LInv'
<1>1. phase = "written" /\ UNCHANGED <<program, syms, funcs, llvm, cur>>
  BY DEF Load, front, back
<1>2. \/ (CallsStub \/ Mains = {}) /\ phase' = "unresolved"
      \/ ~CallsStub /\ Mains # {} /\ phase' = "running"
  BY DEF Load
<1>3. /\ Mains = {} <=> CallableDecls(program, Main) = {} \/ UsedFirst(Main)
      /\ CallsStub <=> \E n \in Name : CalledByName(n) /\ UsedFirst(n)
  BY <1>1, MainResolved, CallsResolved
<1>4. UnresolvedIffUsedFirst'
  BY <1>1, <1>2, <1>3, TextDecides DEF UnresolvedIffUsedFirst
<1> QED
  BY <1>1, <1>2, <1>4, AfterCompilation

LEMMA RunLinks ==
  ASSUME LInv, phase = "running", phase' \in {"running", "exited", "crash"},
         UNCHANGED <<program, pos, work, front, back>>
  PROVE  LInv'
<1>1. UNCHANGED <<program, syms, funcs, llvm, cur>>
  BY DEF front, back
<1>2. UnresolvedIffUsedFirst'
  BY <1>1, TextDecides DEF LInv, UnresolvedIffUsedFirst
<1> QED
  BY <1>1, <1>2, AfterCompilation

LEMMA IdleLinks ==
  ASSUME LInv, UNCHANGED all
  PROVE  LInv'
<1>1. UNCHANGED <<program, phase, pos, syms, funcs, llvm, cur>>
  BY DEF all, front, back
<1>2. /\ AllNames' = AllNames /\ AllCallables' = AllCallables
      /\ Stubs' = Stubs /\ Real' = Real /\ Reached' = Reached /\ Here' = Here
      /\ \A x : Named(x)' = Named(x)
      /\ \A f : Code(f)' = Code(f)
  BY <1>1, CleanStays DEF Stubs, Real, Reached, Here, Done, Code, Named
<1>3. FuncsFollowText' /\ SymbolsFollowText'
  BY <1>1, <1>2 DEF LInv, FuncsFollowText, SymbolsFollowText, Clean
<1>4. NamesFollowText' /\ CodeFollowsText' /\ ModuleFollowsText'
  BY <1>1, <1>2 DEF LInv, NamesFollowText, CodeFollowsText, ModuleFollowsText
<1>5. UnresolvedIffUsedFirst'
  BY <1>1, TextDecides DEF LInv, UnresolvedIffUsedFirst
<1>6. AssertHasACause'
  <2>1. \A i : /\ NodesOf(i)' = NodesOf(i) /\ SuperDecls(i)' = SuperDecls(i)
               /\ KlassesIn(i)' = KlassesIn(i)
    BY <1>1 DEF NodesOf, SuperDecls, KlassesIn
  <2>2. \A i : Climb(i)' = Climb(i)
    BY <1>1, <2>1 DEF Climb
  <2>3. \A i : SuperMissing(i)' <=> SuperMissing(i)
    BY <1>1, <2>1, <2>2 DEF SuperMissing
  <2> QED
    BY <1>1, <2>1, <2>3 DEF LInv, AssertHasACause
<1> QED
  BY <1>3, <1>4, <1>5, <1>6 DEF LInv

-----------------------------------------------------------------------------
LEMMA LInv_init == Init => LInv
<1> SUFFICES ASSUME Init PROVE LInv
  OBVIOUS
<1>1. /\ llvm = <<>> /\ phase = "parse" /\ syms = <<>> /\ funcs = <<>> /\ pos = 1
      /\ program \in Programs
  BY DEF Init
<1>2. /\ \A f \in 1 .. Len(llvm) : FALSE
      /\ \A f \in 1 .. Len(syms) : FALSE
      /\ \A f \in 1 .. Len(funcs) : FALSE
      /\ \A i \in 1 .. Len(program) : ~(i < 1)
  BY <1>1
<1>3. FuncsFollowText
  BY <1>1, <1>2 DEF FuncsFollowText, AllCallables
<1>4. SymbolsFollowText
  BY <1>1, <1>2 DEF SymbolsFollowText, Clean, DeclsOf
<1>5. NamesFollowText /\ ModuleFollowsText /\ UnresolvedIffUsedFirst /\ AssertHasACause
  BY <1>1 DEF NamesFollowText, ModuleFollowsText, UnresolvedIffUsedFirst, AssertHasACause
<1>6. CodeFollowsText
  BY <1>2 DEF CodeFollowsText, Stubs, Real
<1> QED
  BY <1>3, <1>4, <1>5, <1>6 DEF LInv

LEMMA LInv_step == IInv /\ DInv /\ LInv /\ [Next]_all => LInv'
<1> SUFFICES ASSUME IInv, DInv, LInv, [Next]_all PROVE LInv'
  OBVIOUS
<1>1. CASE Parse
  BY <1>1, ParseLinks
<1>2. CASE exec_def_class_codegen
  BY <1>2, DefClassLinks
<1>3. CASE exec_def_func_codegen
  BY <1>3, DefFuncLinks
<1>4. CASE exec_def_method_codegen
  BY <1>4, DefMethodLinks
<1>5. CASE exec_def_var_codegen
  BY <1>5, DefVarLinks
<1>6. CASE exec_call_func_codegen
  BY <1>6, CallFuncLinks
<1>7. CASE exec_call_method_codegen
  BY <1>7, CallMethodLinks
<1>8. CASE finish_function
  BY <1>8, FinishLinks
<1>9. CASE WriteBitcodeToFile
  BY <1>9, WriteLinks
<1>10. CASE Load
  BY <1>10, LoadLinks
<1>11. CASE Run
  <2>1. phase = "running" /\ UNCHANGED <<program, pos, work, front, back>>
    BY <1>11 DEF Run, RunAlloc, RunCall, RunSlot, RunReturn, Executing
  <2>2. phase' \in {"running", "exited", "crash"}
    BY <1>11, <2>1 DEF Run, RunAlloc, RunCall, RunSlot, RunReturn, Enter, Stop
  <2> QED
    BY <2>1, <2>2, RunLinks
<1>12. CASE UNCHANGED all
  BY <1>12, IdleLinks
<1> QED
  BY <1>1, <1>2, <1>3, <1>4, <1>5, <1>6, <1>7, <1>8, <1>9, <1>10, <1>11, <1>12
     DEF Next, Codegen

LEMMA LInv_invariant == Spec => []LInv
BY IInv_init, IInv_step, DInv_init, DInv_step, LInv_init, LInv_step, PTL DEF Spec

(* Whether the module links is decided by the text alone: lli reports an   *)
(* unresolved symbol exactly when main, or a function some call names, is  *)
(* mentioned in a call ahead of its first declaration, so that the stub of *)
(* getOrInsertFunction has the name and LLVM renames the real function.    *)
THEOREM Linking_UnresolvedIffUsedFirst == Spec => []UnresolvedIffUsedFirst
<1>1. LInv => UnresolvedIffUsedFirst
  BY DEF LInv
<1> QED
  BY <1>1, LInv_invariant, PTL

(* ASSERT_FAIL fires only on programs that overfill a table (symbol.c,     *)
(* func.c), use a class before its definition (get_type_by_name,           *)
(* KlassDefMap::get) or extend a class nobody defines (getFieldDef).       *)
THEOREM Linking_AssertHasACause == Spec => []AssertHasACause
<1>1. LInv => AssertHasACause
  BY DEF LInv
<1> QED
  BY <1>1, LInv_invariant, PTL
=============================================================================

---------------------------- MODULE Objects_proofs ----------------------------
(***************************************************************************)
(* Proofs, for all programs, of the invariants of Objects: a program that  *)
(* keeps to the type discipline of ObjectTypes does not fail, its          *)
(* variables hold what their types promise, and $ID tells classes apart.   *)
(*                                                                         *)
(* The shape of the state holds of every program (ShapeInv).  Soundness of *)
(* the type discipline is the rest (SoundInv), with three parts.  While a  *)
(* body is compiled, the map of variables, which all functions share and   *)
(* nobody clears, agrees with the text on every name in scope, and the     *)
(* LLVM type of the last value is that of its type.  Compiled code is what *)
(* its nodes call for, and remains so when classes are added.  While it    *)
(* runs, memory has objects laid out by their class and arrays that live   *)
(* as long as their frame, each variable points to one of its type, and a  *)
(* frame below the top waits in the call that made the next.  A call       *)
(* through the method array arrives because main fills the row its class   *)
(* had in the caller with its method (Placed, under RowsStay).             *)
(***************************************************************************)
EXTENDS ObjectCorrectness, Layouts_proofs, FiniteSetTheorems

(* Sequences whose elements have nothing in common. *)
LEMMA SequenceDomain ==
  ASSUME NEW s, IsSequence(s)
  PROVE  /\ Len(s) \in Nat
         /\ DOMAIN s = 1 .. Len(s)
BY DEF IsSequence

LEMMA SequenceFrom ==
  ASSUME NEW k \in Nat, NEW t, t = [i \in 1 .. k |-> t[i]]
  PROVE  IsSequence(t) /\ Len(t) = k
<1> DEFINE R == {t[j] : j \in DOMAIN t}
<1>1. DOMAIN t = 1 .. k
  OBVIOUS
<1>2. t \in [1 .. k -> R]
  BY <1>1
<1> HIDE DEF R
<1>3. t \in Seq(R) /\ Len(t) = k
  BY <1>2
<1> QED
  BY <1>3 DEF R, IsSequence

LEMMA SequenceOver ==
  ASSUME NEW T, NEW s \in Seq(T)
  PROVE  IsSequence(s)
<1>1. Len(s) \in Nat /\ s = [i \in 1 .. Len(s) |-> s[i]]
  OBVIOUS
<1> QED
  BY <1>1, SequenceFrom

LEMMA SequenceAppend ==
  ASSUME NEW s, IsSequence(s), NEW e
  PROVE  /\ IsSequence(Append(s, e))
         /\ Len(Append(s, e)) = Len(s) + 1
         /\ Append(s, e)[Len(s) + 1] = e
         /\ \A j \in 1 .. Len(s) : Append(s, e)[j] = s[j]
         /\ DOMAIN Append(s, e) = 1 .. Len(s) + 1
<1> DEFINE T == {s[j] : j \in DOMAIN s} \cup {e}
           t == Append(s, e)
<1>1. s \in [1 .. Len(s) -> T] /\ Len(s) \in Nat
  <2>1. s \in Seq({s[j] : j \in DOMAIN s})
    BY DEF IsSequence
  <2> QED
    BY <2>1
<1>2. s \in Seq(T) /\ e \in T
  BY <1>1
<1> HIDE DEF T
<1>3. /\ t \in Seq(T) /\ Len(t) = Len(s) + 1
      /\ t[Len(s) + 1] = e
      /\ \A j \in 1 .. Len(s) : t[j] = s[j]
  BY <1>2, AppendProperties
<1>4. DOMAIN t = 1 .. Len(s) + 1
  BY <1>3
<1>5. IsSequence(t)
  BY <1>3, SequenceOver
<1> QED
  BY <1>3, <1>4, <1>5

(* A sequence with one element less at its end. *)
LEMMA SequenceFront ==
  ASSUME NEW s, IsSequence(s), Len(s) > 1
  PROVE  /\ IsSequence(SubSeq(s, 1, Len(s) - 1))
         /\ Len(SubSeq(s, 1, Len(s) - 1)) = Len(s) - 1
         /\ \A j \in 1 .. Len(s) - 1 : SubSeq(s, 1, Len(s) - 1)[j] = s[j]
<1> DEFINE T == {s[j] : j \in DOMAIN s}
           t == SubSeq(s, 1, Len(s) - 1)
<1>1. s \in Seq(T) /\ Len(s) \in Nat
  BY DEF IsSequence
<1> HIDE DEF T
<1>2. /\ t \in Seq(T)
      /\ Len(t) = Len(s) - 1
      /\ \A j \in 1 .. Len(s) - 1 : t[j] = s[j]
  BY <1>1, SubSeqProperties
<1> QED
  BY <1>2, SequenceOver

-----------------------------------------------------------------------------
(* The types of LLVM. *)
LEMMA LLVMTypes ==
  \A type : LLVMType(type) \in Types
BY DEF LLVMType, Types

LEMMA LayoutTypes ==
  ASSUME IInv, NEW k \in DOMAIN klass_def_map
  PROVE  /\ IsSequence(Fields(k)) /\ Len(Fields(k)) >= 1
         /\ Fields(k)[1] = IdField
         /\ FieldTypes(k) \in Seq(Types)
         /\ Len(FieldTypes(k)) = Len(Fields(k))
         /\ \A i \in 1 .. Len(Fields(k)) : FieldTypes(k)[i] = LLVMType(Fields(k)[i])
<1> DEFINE E == [name : Member \cup {ID}, kind : Kinds]
           d == klass_def_map[k].decl
<1>1. Solved(k) /\ LayoutShape
  BY DEF IInv
<1>2. Fields(k) \in Seq(E)
  BY <1>1 DEF LayoutShape, KlassDefs, Fields
<1>3. PICK F : Solution(program, F) /\ d \in DOMAIN F
  BY <1>1 DEF Solved
<1>4. Fields(k) = WithId(F[d]) /\ F[d] \in FieldSeq
  BY <1>1, <1>3 DEF Solved, Solution
<1> HIDE DEF d
<1>5. Len(Fields(k)) >= 1 /\ Fields(k)[1] = IdField
  <2> DEFINE g == F[d]
  <2>1. g \in Seq(FieldDefElem)
    BY <1>4 DEF FieldSeq
  <2> HIDE DEF g
  <2>2. Len(<<IdField>> \o g) = 1 + Len(g) /\ (<<IdField>> \o g)[1] = IdField
    BY <2>1
  <2> QED
    BY <1>4, <2>1, <2>2 DEF WithId, g
<1> HIDE DEF E
<1>6. IsSequence(Fields(k))
  BY <1>2, SequenceOver
<1>7. Len(Fields(k)) \in Nat
  BY <1>6, SequenceDomain
<1>8. FieldTypes(k) \in [1 .. Len(Fields(k)) -> Types]
  BY LLVMTypes DEF FieldTypes
<1>9. FieldTypes(k) \in Seq(Types) /\ Len(FieldTypes(k)) = Len(Fields(k))
  BY <1>7, <1>8
<1>10. \A i \in 1 .. Len(Fields(k)) : FieldTypes(k)[i] = LLVMType(Fields(k)[i])
  BY DEF FieldTypes
<1> QED
  BY <1>5, <1>6, <1>9, <1>10

LEMMA TypesOfTypes ==
  ASSUME IInv, NEW type, IsType(type), MakeTrouble(type) = "none"
  PROVE  TypesOf(type) \in Seq(Types)
<1>1. CASE type.kind = "KLASS"
  <2>1. type.klass \in DOMAIN klass_def_map
    BY <1>1 DEF MakeTrouble
  <2> QED
    BY <1>1, <2>1, LayoutTypes DEF TypesOf
<1>2. CASE type.kind = "ARRAY"
  <2>1. type.size \in Int
    BY <1>2 DEF IsType
  <2>2. PICK k \in Nat : 1 .. type.size = 1 .. k
    BY <2>1
  <2>3. ElemTypes(type) \in [1 .. k -> Types]
    BY <2>2, LLVMTypes DEF ElemTypes
  <2> QED
    BY <1>2, <2>3 DEF TypesOf
<1>3. CASE type.kind \notin {"KLASS", "ARRAY"}
  BY <1>3 DEF TypesOf
<1> QED
  BY <1>1, <1>2, <1>3
-----------------------------------------------------------------------------
(***************************************************************************)
(* The shape of the state, for every program, well typed or not.           *)
(***************************************************************************)
Callables == {j \in 1 .. Len(program) : Callable(program[j])}

(* How far compilation has got, and what there is of code and classes. *)
Progress ==
  /\ phase \in {"parse", "codegen", "running", "exited"} \cup Failures
  /\ ret \in Types \cup {"none"}
  /\ n \in Nat
  /\ phase = "parse" => n = 0 /\ at = 0
  /\ at # 0 => n = 0
  /\ n # 0 => pos \in Callables /\ n <= Len(Here.body) + 1
  /\ DOMAIN klass_def_map = ClassesBefore(program, pos)
  /\ DOMAIN code = {j \in Callables : j < pos \/ (j = pos /\ n # 0)}
  /\ phase \in {"running", "exited"} => pos > Len(program) /\ n = 0 /\ at = 0

InstructionShape(ins) ==
  /\ ins.i \in {"def", "new"} => IsSequence(ins.types)
  /\ ins.i = "call" => ins.to \in Callables

CodeShape ==
  \A f \in DOMAIN code :
    /\ IsSequence(code[f])
    /\ Len(code[f]) = IF f < pos THEN Len(program[f].body) ELSE n - 1
    /\ \A m \in 1 .. Len(code[f]) : InstructionShape(code[f][m])

VariableShape(x) ==
  /\ x.home \in DOMAIN code
  /\ IsType(x.type)
  /\ x.home = pos => /\ MakeTrouble(x.type) = "none"
                     /\ x.types = TypesOf(x.type)
VarsShape == \A v \in DOMAIN vars : VariableShape(vars[v])

HeapShape ==
  /\ IsSequence(heap)
  /\ \A b \in 1 .. Len(heap) :
       /\ DOMAIN heap[b].cells = DOMAIN heap[b].types
       /\ IsSequence(heap[b].cells)
       /\ heap[b] = [type |-> heap[b].type, types |-> heap[b].types,
                     cells |-> heap[b].cells, home |-> heap[b].home,
                     live |-> heap[b].live]

FrameShape(frame) ==
  /\ frame.fn \in DOMAIN code
  /\ frame.pc \in 1 .. Len(code[frame.fn]) + 1
  /\ frame = [fn |-> frame.fn, pc |-> frame.pc, acc |-> frame.acc, env |-> frame.env]
StackShape ==
  /\ IsSequence(stack)
  /\ phase = "running" => Len(stack) > 0
  /\ \A f \in 1 .. Len(stack) : FrameShape(stack[f])

SlotsShape == \A row \in DOMAIN slots : slots[row] \in Callables

ShapeInv ==
  /\ IInv /\ Progress
  /\ CodeShape /\ VarsShape
  /\ HeapShape /\ StackShape

LEMMA ShapeTypeOK ==
  ASSUME ShapeInv
  PROVE  ObjectTypeOK
<1>1. DOMAIN code \subseteq 1 .. Len(program)
  BY DEF ShapeInv, Progress, Callables
<1>2. n # 0 => pos <= Len(program) /\ n <= Len(Here.body) + 1
  BY DEF ShapeInv, Progress, Callables
<1> QED
  BY <1>1, <1>2 DEF ShapeInv, Progress, VarsShape, VariableShape, HeapShape,
                    StackShape, FrameShape, ObjectTypeOK

(* The declarations of a program are as the parser builds them. *)
LEMMA CallableShape ==
  ASSUME ShapeInv, NEW i \in Callables
  PROVE  /\ IsType(program[i].type)
         /\ IsSequence(program[i].def_args)
         /\ \A j \in 1 .. Len(program[i].def_args) : IsType(program[i].def_args[j].type)
         /\ IsSequence(program[i].body)
         /\ \A m \in 1 .. Len(program[i].body) :
              /\ program[i].body[m].op \in {"DEF_VAR", "NEW_CLASS"} =>
                   IsType(program[i].body[m].type)
              /\ program[i].body[m].op = "VALUEDATA" =>
                   /\ program[i].body[m].type.kind \in {"INT", "BOOLTYPE", "DOUBLE", "STRING"}
                   /\ program[i].body[m].type.kind = "STRING" =>
                        program[i].body[m].val = String
<1>1. program \in Seq(Declaration)
  BY LayoutAssumption DEF ShapeInv, IInv, LayoutShape
<1>2. program[i] \in Declaration /\ Callable(program[i])
  BY <1>1 DEF Callables
<1> HIDE DEF ShapeInv
<1> QED
  BY <1>2, ObjectAssumption

LEMMA ParamTypes ==
  ASSUME ShapeInv, NEW i \in Callables
  PROVE  /\ IsSequence(Params(program[i]))
         /\ \A j \in 1 .. Len(Params(program[i])) : IsType(Params(program[i])[j].type)
         /\ Params(program[i]) = ParamsOf(program[i])
<1> DEFINE d == program[i]
           this == [name |-> This, type |-> KlassType(d.klass)]
<1>1. /\ IsSequence(d.def_args)
      /\ \A j \in 1 .. Len(d.def_args) : IsType(d.def_args[j].type)
  BY CallableShape
<1>2. /\ Params(d) = IF d.op = "DEF_METHOD" /\ d.def_args # <<>>
                     THEN <<this>> \o d.def_args ELSE d.def_args
      /\ ParamsOf(d) = Params(d)
  BY DEF Params, ParamsOf, KlassType, This
<1>3. IsType(this.type)
  BY DEF IsType, KlassType, Kinds
<1> HIDE DEF this, d
<1>4. CASE d.op = "DEF_METHOD" /\ d.def_args # <<>>
  <2> DEFINE args == d.def_args
             T == {args[j] : j \in DOMAIN args} \cup {this}
  <2>1. args \in Seq(T) /\ <<this>> \in Seq(T) /\ DOMAIN args = 1 .. Len(args)
    BY <1>1 DEF IsSequence
  <2>2. \A x \in T : IsType(x.type)
    BY <1>1, <1>3, <2>1
  <2> HIDE DEF T
  <2>3. <<this>> \o args \in Seq(T)
    BY <2>1, ConcatProperties
  <2>4. IsSequence(<<this>> \o args)
    BY <2>3, SequenceOver
  <2>5. \A j \in 1 .. Len(<<this>> \o args) : (<<this>> \o args)[j] \in T
    BY <2>3
  <2> QED
    BY <1>2, <1>4, <2>2, <2>4, <2>5 DEF d
<1>5. CASE ~(d.op = "DEF_METHOD" /\ d.def_args # <<>>)
  BY <1>1, <1>2, <1>5 DEF d
<1> QED
  BY <1>4, <1>5
-----------------------------------------------------------------------------
(* What the parts of the shape depend on. *)
LEMMA CodeShapeSame ==
  ASSUME CodeShape, UNCHANGED <<program, pos, n, code>>
  PROVE  CodeShape'
BY DEF CodeShape, InstructionShape, Callables

LEMMA VariableShapeSame ==
  ASSUME NEW x, VariableShape(x), UNCHANGED <<pos, klass_def_map>>,
         DOMAIN code \subseteq DOMAIN code'
  PROVE  VariableShape(x)'
BY DEF VariableShape, MakeTrouble, TypesOf, FieldTypes, Fields

LEMMA VarsShapeSame ==
  ASSUME VarsShape, UNCHANGED <<vars, pos, klass_def_map>>,
         DOMAIN code \subseteq DOMAIN code'
  PROVE  VarsShape'
BY VariableShapeSame DEF VarsShape

LEMMA StackShapeSame ==
  ASSUME StackShape, UNCHANGED <<stack, code>>, phase' = "running" => phase = "running"
  PROVE  StackShape'
BY DEF StackShape, FrameShape

(* A failure, or the end of parsing, changes the phase only. *)
LEMMA PhaseShape ==
  ASSUME ShapeInv, NEW how \in Failures \cup {"codegen"}, phase' = how,
         UNCHANGED <<program, pos, at, climb, klass_def_map, compile_vars, run_vars>>
  PROVE  ShapeInv'
<1>1. UNCHANGED <<program, pos, at, climb, klass_def_map, n, ret, vars, code, heap, stack>>
  BY DEF compile_vars, run_vars
<1>2. IInv'
  BY <1>1, IInvStays DEF ShapeInv
<1>3. Progress'
  BY <1>1 DEF ShapeInv, Progress, Callables, Failures, Here
<1>4. CodeShape' /\ VarsShape'
  BY <1>1, CodeShapeSame, VarsShapeSame DEF ShapeInv
<1>5. HeapShape'
  BY <1>1 DEF ShapeInv, HeapShape
<1>6. StackShape'
  BY <1>1, StackShapeSame DEF ShapeInv, Failures
<1> QED
  BY <1>2, <1>3, <1>4, <1>5, <1>6 DEF ShapeInv

LEMMA StopShape ==
  ASSUME ShapeInv, NEW how \in Failures, Stop(how)
  PROVE  ShapeInv'
BY PhaseShape DEF Stop, Fail

LEMMA WrongShape ==
  ASSUME ShapeInv, NEW how \in Failures, Wrong(how)
  PROVE  ShapeInv'
BY PhaseShape DEF Wrong

LEMMA ParseShape ==
  ASSUME ShapeInv, yyparse
  PROVE  ShapeInv'
<1>1. phase' \in Failures \cup {"codegen"}
  BY DEF yyparse, Failures
<1> QED
  BY <1>1, PhaseShape DEF yyparse

(* Classes before the next declaration. *)
LEMMA ClassesNext ==
  ASSUME NEW p, NEW i \in 1 .. Len(p), Len(p) \in Nat
  PROVE  ClassesBefore(p, i + 1) =
           IF p[i].op = "DEF_CLASS" THEN ClassesBefore(p, i) \cup {p[i].sym}
           ELSE ClassesBefore(p, i)
<1>1. \A j : j \in Decls(p, "DEF_CLASS") \cap (1 .. i) <=>
             \/ j \in Decls(p, "DEF_CLASS") \cap (1 .. i - 1)
             \/ j = i /\ p[i].op = "DEF_CLASS"
  BY DEF Decls
<1>2. i + 1 - 1 = i
  OBVIOUS
<1>3. ClassesBefore(p, i + 1) = {p[j].sym : j \in Decls(p, "DEF_CLASS") \cap (1 .. i)}
  BY <1>2 DEF ClassesBefore
<1> QED
  BY <1>1, <1>3 DEF ClassesBefore

LEMMA ClassShape ==
  ASSUME ShapeInv, CompileClass
  PROVE  ShapeInv'
<1>1. /\ n = 0 /\ ClassCodegen /\ phase = "codegen" /\ program' = program
      /\ UNCHANGED <<n, ret, vars, code, heap, stack>>
  BY DEF CompileClass, ClassCodegen, compile_vars, run_vars, exec_def_class_codegen,
         read_junk, getFieldDef, makeKlassDef
<1>2. IInv' /\ IInv
  BY <1>1, ClassStep DEF ShapeInv
<1>3. /\ phase' \in {"codegen"} \cup Failures
      /\ \/ pos' = pos /\ klass_def_map' = klass_def_map
         \/ /\ pos' = pos + 1 /\ pos <= Len(program)
            /\ program[pos].op = "DEF_CLASS"
            /\ DOMAIN klass_def_map' = DOMAIN klass_def_map \cup {program[pos].sym}
            /\ at' = 0
  <2>1. CASE exec_def_class_codegen \/ read_junk \/ getFieldDef
    BY <2>1, <1>1 DEF exec_def_class_codegen, read_junk, getFieldDef, Fail, Failures
  <2>2. CASE makeKlassDef
    <3>1. at # 0 => pos \in 1 .. Len(program) /\ program[pos].op = "DEF_CLASS"
      BY <1>2 DEF IInv, Climbing
    <3>2. pos \in Int /\ Len(program) \in Nat
      BY <1>2, ProgramTypes DEF IInv, LayoutShape
    <3> QED
      BY <2>2, <3>1, <3>2, <1>1 DEF makeKlassDef, Fail, Failures, Put, NextDeclaration
  <2> QED
    BY <1>1, <2>1, <2>2 DEF ClassCodegen
<1>4. /\ program \in Programs /\ Len(program) \in Nat /\ pos \in 1 .. Len(program) + 1
  BY <1>2, ProgramTypes DEF IInv, LayoutShape
<1>5. DOMAIN klass_def_map = ClassesBefore(program, pos)
      /\ DOMAIN code = {j \in Callables : j < pos}
  BY <1>1 DEF ShapeInv, Progress
<1>6. CASE pos' = pos /\ klass_def_map' = klass_def_map
  <2>1. Progress'
    BY <1>1, <1>3, <1>6 DEF ShapeInv, Progress, Callables, Failures
  <2>2. CodeShape' /\ VarsShape'
    BY <1>1, <1>6, CodeShapeSame, VarsShapeSame DEF ShapeInv
  <2>3. HeapShape' /\ StackShape'
    BY <1>1, <1>3, StackShapeSame DEF ShapeInv, HeapShape, Failures
  <2> QED
    BY <1>2, <2>1, <2>2, <2>3 DEF ShapeInv
<1>7. CASE /\ pos' = pos + 1 /\ pos <= Len(program)
           /\ program[pos].op = "DEF_CLASS"
           /\ DOMAIN klass_def_map' = DOMAIN klass_def_map \cup {program[pos].sym}
           /\ at' = 0
  <2>1. DOMAIN klass_def_map' = ClassesBefore(program, pos + 1)
    <3>1. pos \in 1 .. Len(program)
      BY <1>4, <1>7
    <3> QED
      BY <3>1, <1>4, <1>5, <1>7, ClassesNext
  <2>2. pos \notin Callables
    BY <1>7 DEF Callables, Callable
  <2>3. DOMAIN code' = {j \in Callables : j < pos + 1}
    BY <1>1, <1>4, <1>5, <2>2 DEF Callables
  <2>4. Progress'
    BY <1>1, <1>3, <1>7, <2>1, <2>3 DEF ShapeInv, Progress, Callables, Failures
  <2>5. ASSUME NEW f \in DOMAIN code
        PROVE  f < pos /\ f < pos + 1 /\ f # pos + 1
    BY <1>4, <1>5 DEF Callables
  <2>6. CodeShape'
    BY <1>1, <1>7, <2>5 DEF ShapeInv, CodeShape, InstructionShape, Callables
  <2>7. VarsShape'
    BY <1>1, <1>7, <2>5 DEF ShapeInv, VarsShape, VariableShape
  <2>8. HeapShape' /\ StackShape'
    BY <1>1, <1>3, StackShapeSame DEF ShapeInv, HeapShape, Failures
  <2> QED
    BY <1>2, <2>4, <2>6, <2>7, <2>8 DEF ShapeInv
<1> QED
  BY <1>3, <1>6, <1>7
-----------------------------------------------------------------------------
(* A non-empty set of positions has a last and a first one. *)
LEMMA LatestIn ==
  ASSUME NEW k \in Nat, NEW S, S \subseteq 1 .. k, S # {}
  PROVE  Latest(S) \in S /\ \A j \in S : j <= Latest(S)
<1> DEFINE Above(i) == i .. k
           T == {Above(i) : i \in S}
           R == StrictSubsetOrdering(1 .. k)
<1>1. IsWellFoundedOn(R, FiniteSubsetsOf(1 .. k))
  BY FS_Interval, FS_StrictSubsetOrderingWellFounded
<1>2. T \subseteq FiniteSubsetsOf(1 .. k) /\ T # {}
  <2>1. \A i \in S : Above(i) \subseteq 1 .. k
    OBVIOUS
  <2>2. IsFiniteSet(1 .. k)
    BY FS_Interval
  <2>3. \A i \in S : IsFiniteSet(Above(i))
    BY <2>1, <2>2, FS_Subset
  <2> QED
    BY <2>1, <2>3 DEF FiniteSubsetsOf
<1>3. PICK x \in T : \A y \in T : ~(<<y, x>> \in R)
  <2> HIDE DEF R, T
  <2> QED
    BY <1>1, <1>2, WFMin
<1>4. PICK i \in S : x = Above(i)
  OBVIOUS
<1>5. ASSUME NEW j \in S
      PROVE  j <= i
  <2> SUFFICES ASSUME i < j
               PROVE  FALSE
    OBVIOUS
  <2>1. Above(j) \subseteq Above(i) /\ i \in Above(i) \ Above(j)
        /\ Above(i) \in SUBSET (1 .. k) /\ Above(j) \in SUBSET (1 .. k)
    OBVIOUS
  <2>2. <<Above(j), Above(i)>> \in R
    BY <2>1 DEF StrictSubsetOrdering
  <2> QED
    BY <2>2, <1>3, <1>4
<1> QED
  BY <1>5 DEF Latest

LEMMA EarliestIn ==
  ASSUME NEW k \in Nat, NEW S, S \subseteq 1 .. k, S # {}
  PROVE  \E i \in S : \A j \in S : i <= j
<1> DEFINE T == {(k + 1) - i : i \in S}
<1>1. T \subseteq 1 .. k /\ T # {}
  <2>1. \A i \in S : (k + 1) - i \in 1 .. k
    OBVIOUS
  <2>2. PICK i \in S : TRUE
    OBVIOUS
  <2>3. (k + 1) - i \in T
    OBVIOUS
  <2> QED
    BY <2>1, <2>3
<1>2. Latest(T) \in T /\ \A j \in T : j <= Latest(T)
  <2> HIDE DEF T
  <2> QED
    BY <1>1, LatestIn
<1>3. PICK i \in S : Latest(T) = (k + 1) - i
  BY <1>2
<1>4. ASSUME NEW j \in S
      PROVE  i <= j
  <2>1. (k + 1) - j <= (k + 1) - i
    BY <1>2, <1>3
  <2> QED
    BY <2>1
<1> QED
  BY <1>4

-----------------------------------------------------------------------------
(* What a function's parameters do to the shared map. *)
LEMMA ParamVars ==
  ASSUME ShapeInv, begin_function, ~Stop("undefined"), ~Stop("assert")
  PROVE  LET ps == Params(Here) IN
         /\ pos \in Callables
         /\ DOMAIN vars' = DOMAIN vars \cup {ps[i].name : i \in 1 .. Len(ps)}
         /\ \A i \in 1 .. Len(ps) :
              ps[i].type.kind # "ARRAY" /\ MakeTrouble(ps[i].type) = "none"
         /\ \A v \in DOMAIN vars' :
              LET named == {i \in 1 .. Len(ps) : ps[i].name = v} IN
              IF named = {} THEN v \in DOMAIN vars /\ vars'[v] = vars[v]
              ELSE /\ Latest(named) \in named
                   /\ vars'[v] = NewVariable(-Latest(named), ps[Latest(named)].type)
<1> DEFINE ps == Params(Here)
           named(v) == {i \in 1 .. Len(ps) : ps[i].name = v}
           troubles == {MakeTrouble(ps[i].type) : i \in 1 .. Len(ps)} \ {"none"}
<1>1. pos \in Callables
  <2>1. pos \in 1 .. Len(program) + 1 /\ Len(program) \in Nat
    BY ProgramTypes DEF ShapeInv, IInv, LayoutShape
  <2> QED
    BY <2>1 DEF begin_function, Callables, Here
<1>2. Len(ps) \in Nat
  BY <1>1, ParamTypes, SequenceDomain DEF Here
<1>3. /\ ~\E i \in 1 .. Len(ps) : ps[i].type.kind = "ARRAY"
      /\ troubles = {}
      /\ vars' = [v \in DOMAIN vars \cup {ps[i].name : i \in 1 .. Len(ps)} |->
                    IF named(v) = {} THEN vars[v]
                    ELSE NewVariable(-Latest(named(v)), ps[Latest(named(v))].type)]
  BY DEF begin_function, Latest
<1>4. \A v : named(v) # {} => Latest(named(v)) \in named(v)
  <2> SUFFICES ASSUME NEW v, named(v) # {}
               PROVE  Latest(named(v)) \in named(v)
    OBVIOUS
  <2>1. named(v) \subseteq 1 .. Len(ps)
    OBVIOUS
  <2> HIDE DEF named, ps
  <2> QED
    BY <2>1, <1>2, LatestIn
<1>5. \A i \in 1 .. Len(ps) : ps[i].type.kind # "ARRAY" /\ MakeTrouble(ps[i].type) = "none"
  BY <1>3
<1>6. ASSUME NEW v \in DOMAIN vars'
      PROVE  IF named(v) = {} THEN v \in DOMAIN vars /\ vars'[v] = vars[v]
             ELSE /\ Latest(named(v)) \in named(v)
                  /\ vars'[v] = NewVariable(-Latest(named(v)), ps[Latest(named(v))].type)
  <2>1. CASE named(v) = {}
    BY <1>3, <2>1
  <2>2. CASE named(v) # {}
    BY <1>3, <1>4, <2>2
  <2> QED
    BY <2>1, <2>2
<1>7. DOMAIN vars' = DOMAIN vars \cup {ps[i].name : i \in 1 .. Len(ps)}
  BY <1>3
<1> QED
  BY <1>1, <1>5, <1>6, <1>7
-----------------------------------------------------------------------------
(* The steps of the compilation of functions. *)
LEMMA PosFacts ==
  ASSUME ShapeInv
  PROVE  /\ program \in Programs
         /\ Len(program) \in Nat
         /\ pos \in 1 .. Len(program) + 1
         /\ n \in Nat
BY ProgramTypes DEF ShapeInv, IInv, LayoutShape, Progress

LEMMA MadeShape ==
  ASSUME ShapeInv, NEW slot, NEW type, IsType(type), MakeTrouble(type) = "none"
  PROVE  /\ NewVariable(slot, type).home = pos
         /\ NewVariable(slot, type).slot = slot
         /\ NewVariable(slot, type).type = type
         /\ NewVariable(slot, type).types = TypesOf(type)
BY DEF NewVariable

LEMMA VarsShapeNext ==
  ASSUME UNCHANGED <<pos, klass_def_map>>,
         \A v \in DOMAIN vars' :
           /\ vars'[v].home \in DOMAIN code'
           /\ IsType(vars'[v].type)
           /\ vars'[v].home = pos =>
                /\ MakeTrouble(vars'[v].type) = "none"
                /\ vars'[v].types = TypesOf(vars'[v].type)
  PROVE  VarsShape'
BY DEF VarsShape, VariableShape, MakeTrouble, TypesOf, FieldTypes, Fields

LEMMA BeginFunctionShape ==
  ASSUME ShapeInv, begin_function
  PROVE  ShapeInv'
<1> DEFINE ps == Params(Here)
           named(v) == {i \in 1 .. Len(ps) : ps[i].name = v}
<1>1. CASE \E how \in {"undefined", "assert"} : Stop(how)
  BY <1>1, StopShape DEF Failures
<1>2. CASE ~\E how \in {"undefined", "assert"} : Stop(how)
  <2>1. /\ phase = "codegen" /\ at = 0 /\ n = 0 /\ n' = 1 /\ ret' = "none"
        /\ code' = Put(code, pos, <<>>)
        /\ UNCHANGED <<program, phase, pos, at, climb, klass_def_map, heap, stack>>
        /\ pos \in Callables
    BY <1>2, PosFacts DEF begin_function, layout_vars, run_vars, Callables, Here
  <2>2. IInv'
    BY <2>1, IInvStays DEF ShapeInv
  <2>3. /\ DOMAIN code = {j \in Callables : j < pos}
        /\ DOMAIN code' = DOMAIN code \cup {pos}
        /\ code'[pos] = <<>>
        /\ \A f \in DOMAIN code : code'[f] = code[f] /\ f # pos
    BY <2>1, PosFacts DEF Put, ShapeInv, Progress, Callables
  <2>4. Len(Here.body) \in Nat
    BY <2>1, CallableShape, SequenceDomain DEF Here
  <2>5. Progress'
    <3>1. DOMAIN code' = {j \in Callables : j < pos \/ j = pos}
      BY <2>1, <2>3
    <3> QED
      BY <2>1, <2>3, <2>4, <3>1 DEF ShapeInv, Progress, Callables, Here
  <2>6. CodeShape'
    <3>1. IsSequence(<<>>) /\ Len(<<>>) = 0
      <4>1. <<>> \in Seq({})
        OBVIOUS
      <4> QED
        BY <4>1, SequenceOver
    <3>2. pos \notin DOMAIN code /\ \A f \in DOMAIN code : f < pos
      BY <2>1, <2>3, PosFacts DEF Callables
    <3> QED
      BY <2>1, <2>3, <3>1, <3>2 DEF ShapeInv, CodeShape, InstructionShape, Callables
  <2>7. VarsShape'
    <3>1. ASSUME NEW v \in DOMAIN vars'
          PROVE  /\ vars'[v].home \in DOMAIN code'
                 /\ IsType(vars'[v].type)
                 /\ vars'[v].home = pos =>
                      /\ MakeTrouble(vars'[v].type) = "none"
                      /\ vars'[v].types = TypesOf(vars'[v].type)
      <4>1. CASE v \in DOMAIN vars /\ vars'[v] = vars[v]
        BY <2>3, <4>1 DEF ShapeInv, VarsShape, VariableShape
      <4>2. CASE ~(v \in DOMAIN vars /\ vars'[v] = vars[v])
        <5>1. PICK i \in 1 .. Len(ps) :
                MakeTrouble(ps[i].type) = "none" /\ vars'[v] = NewVariable(-i, ps[i].type)
          BY <1>2, <4>2, ParamVars
        <5>2. IsType(ps[i].type)
          BY <2>1, ParamTypes DEF Here
        <5>3. /\ vars'[v].home = pos
              /\ vars'[v].type = ps[i].type
              /\ vars'[v].types = TypesOf(ps[i].type)
          BY <5>1, <5>2, MadeShape
        <5> HIDE DEF ps
        <5> QED
          BY <2>3, <5>1, <5>2, <5>3
      <4> QED
        BY <4>1, <4>2
    <3> QED
      BY <2>1, <3>1, VarsShapeNext
  <2>8. HeapShape' /\ StackShape'
    BY <2>1, <2>3 DEF ShapeInv, HeapShape, StackShape, FrameShape
  <2> QED
    BY <2>2, <2>5, <2>6, <2>7, <2>8 DEF ShapeInv
<1> QED
  BY <1>1, <1>2

(* An instruction is appended to the code of the current function. *)
LEMMA EmitCode ==
  ASSUME ShapeInv, NEW op, Compiling(op), NEW ins, NEW type, Emit(ins, type)
  PROVE  /\ UNCHANGED <<program, phase, pos, at, climb, klass_def_map, heap, stack, out>>
         /\ phase = "codegen" /\ at = 0
         /\ pos \in Callables /\ pos \in DOMAIN code
         /\ n \in 1 .. Len(program[pos].body) /\ n' = n + 1
         /\ Len(program[pos].body) \in Nat
         /\ Len(code[pos]) = n - 1
         /\ ret' = type
         /\ program[pos].body[n].op = op
         /\ DOMAIN code' = DOMAIN code
         /\ \A f \in DOMAIN code \ {pos} : code'[f] = code[f]
         /\ IsSequence(code'[pos]) /\ Len(code'[pos]) = n
         /\ code'[pos][n] = ins
         /\ \A m \in 1 .. n - 1 : code'[pos][m] = code[pos][m]
<1>1. /\ UNCHANGED <<program, phase, pos, at, climb, klass_def_map, heap, stack, out>>
      /\ phase = "codegen" /\ at = 0 /\ n # 0 /\ n <= Len(program[pos].body)
      /\ n' = n + 1 /\ ret' = type
      /\ program[pos].body[n].op = op
      /\ code' = Put(code, pos, Append(code[pos], ins))
  BY DEF Compiling, Emit, layout_vars, run_vars, Here, Node
<1>2. pos \in Callables /\ pos \in DOMAIN code
  BY <1>1 DEF ShapeInv, Progress
<1>3. Len(program[pos].body) \in Nat
  BY <1>2, CallableShape, SequenceDomain
<1>4. pos \in Nat /\ n \in Nat
  BY PosFacts
<1>5. IsSequence(code[pos]) /\ Len(code[pos]) = n - 1
  BY <1>2, <1>4 DEF ShapeInv, CodeShape
<1>6. /\ IsSequence(Append(code[pos], ins)) /\ Len(Append(code[pos], ins)) = n
      /\ Append(code[pos], ins)[n] = ins
      /\ \A m \in 1 .. n - 1 : Append(code[pos], ins)[m] = code[pos][m]
  BY <1>4, <1>5, SequenceAppend
<1>7. /\ DOMAIN code' = DOMAIN code
      /\ \A f \in DOMAIN code \ {pos} : code'[f] = code[f]
      /\ code'[pos] = Append(code[pos], ins)
  BY <1>1, <1>2 DEF Put
<1> QED
  BY <1>1, <1>2, <1>3, <1>4, <1>5, <1>6, <1>7

LEMMA EmitShape ==
  ASSUME ShapeInv, NEW op, Compiling(op), NEW ins, NEW type \in Types \cup {"none"},
         Emit(ins, type), InstructionShape(ins), VarsShape'
  PROVE  ShapeInv'
<1>1. /\ UNCHANGED <<program, phase, pos, at, climb, klass_def_map, heap, stack>>
      /\ phase = "codegen" /\ at = 0
      /\ pos \in Callables /\ pos \in DOMAIN code
      /\ n \in 1 .. Len(program[pos].body) /\ n' = n + 1
      /\ Len(program[pos].body) \in Nat
      /\ ret' = type
      /\ DOMAIN code' = DOMAIN code
  BY EmitCode
<1>2. IInv'
  BY <1>1, IInvStays DEF ShapeInv
<1>3. Progress'
  BY <1>1 DEF ShapeInv, Progress, Callables, Here
<1>4. CodeShape'
  <2> SUFFICES ASSUME NEW f \in DOMAIN code
               PROVE  /\ IsSequence(code'[f])
                      /\ Len(code'[f]) = IF f < pos THEN Len(program[f].body) ELSE n
                      /\ \A m \in 1 .. Len(code'[f]) : InstructionShape(code'[f][m])
    BY <1>1 DEF CodeShape, InstructionShape, Callables
  <2>1. CASE f # pos
    <3>1. f < pos
      BY <1>1, <2>1 DEF ShapeInv, Progress
    <3>2. code'[f] = code[f]
      BY <2>1, EmitCode
    <3> QED
      BY <3>1, <3>2 DEF ShapeInv, CodeShape
  <2>2. CASE f = pos
    <3>1. /\ IsSequence(code'[pos]) /\ Len(code'[pos]) = n
          /\ code'[pos][n] = ins
          /\ \A m \in 1 .. n - 1 : code'[pos][m] = code[pos][m]
          /\ Len(code[pos]) = n - 1
      BY EmitCode
    <3>2. \A m \in 1 .. n - 1 : InstructionShape(code[pos][m])
      BY <1>1, <3>1 DEF ShapeInv, CodeShape
    <3>3. ASSUME NEW m \in 1 .. n
          PROVE  InstructionShape(code'[pos][m])
      <4>1. m = n \/ m \in 1 .. n - 1
        BY <1>1
      <4> QED
        BY <4>1, <3>1, <3>2
    <3>4. ~(pos < pos)
      BY PosFacts
    <3> QED
      BY <2>2, <3>1, <3>3, <3>4
  <2> QED
    BY <2>1, <2>2
<1>5. HeapShape'
  BY <1>1 DEF ShapeInv, HeapShape
<1>6. StackShape'
  <2> SUFFICES ASSUME NEW i \in 1 .. Len(stack)
               PROVE  FrameShape(stack[i])'
    BY <1>1 DEF ShapeInv, StackShape
  <2> DEFINE f == stack[i].fn
  <2>1. /\ f \in DOMAIN code /\ stack[i].pc \in 1 .. Len(code[f]) + 1
        /\ stack[i] = [fn |-> stack[i].fn, pc |-> stack[i].pc,
                       acc |-> stack[i].acc, env |-> stack[i].env]
    BY DEF ShapeInv, StackShape, FrameShape
  <2>2. IsSequence(code[f])
    BY <2>1 DEF ShapeInv, CodeShape
  <2> HIDE DEF f
  <2>3. Len(code[f]) \in Nat
    BY <2>2, SequenceDomain
  <2>4. Len(code'[f]) >= Len(code[f]) /\ Len(code'[f]) \in Nat
    <3>1. CASE f = pos
      <4>1. Len(code[pos]) = n - 1 /\ Len(code'[pos]) = n /\ n \in Nat
        BY EmitCode, PosFacts
      <4> QED
        BY <3>1, <4>1
    <3>2. CASE f # pos
      <4>1. code'[f] = code[f]
        BY <2>1, <3>2, EmitCode
      <4> QED
        BY <2>3, <4>1
    <3> QED
      BY <3>1, <3>2
  <2> QED
    BY <1>1, <2>1, <2>3, <2>4 DEF FrameShape, f
<1> QED
  BY <1>2, <1>3, <1>4, <1>5, <1>6 DEF ShapeInv

LEMMA EmitSameVars ==
  ASSUME ShapeInv, NEW op, Compiling(op), NEW ins, NEW type \in Types \cup {"none"},
         Emit(ins, type), InstructionShape(ins), UNCHANGED vars
  PROVE  ShapeInv'
<1>1. VarsShape'
  BY EmitCode, VarsShapeSame DEF ShapeInv
<1> QED
  BY <1>1, EmitShape
(* Where a name is first among the fields of a class. *)
LEMMA FieldIndexIn ==
  ASSUME IInv, NEW k \in DOMAIN klass_def_map, NEW m,
         getFieldDistance(Fields(k), m) # -1
  PROVE  /\ FieldIndex(k, m) \in 1 .. Len(Fields(k))
         /\ Fields(k)[FieldIndex(k, m)].name = m
         /\ \A j \in 1 .. FieldIndex(k, m) - 1 : Fields(k)[j].name # m
         /\ FieldTypes(k)[FieldIndex(k, m)] = LLVMType(Fields(k)[FieldIndex(k, m)])
<1> DEFINE i == CHOOSE i \in FirstsNamed(Fields(k), m) : TRUE
<1>1. i \in FirstsNamed(Fields(k), m) /\ getFieldDistance(Fields(k), m) = i - 1
  BY DEF getFieldDistance
<1>2. Len(Fields(k)) \in Nat
  BY LayoutTypes, SequenceDomain
<1>3. i \in 1 .. Len(Fields(k)) /\ FieldIndex(k, m) = i
  BY <1>1, <1>2 DEF FirstsNamed, FieldIndex
<1> HIDE DEF i
<1> QED
  BY <1>1, <1>3, LayoutTypes DEF FirstsNamed

LEMMA FoundVariable ==
  ASSUME ShapeInv, NEW name, VariableTrouble(name) = "none"
  PROVE  /\ name \in DOMAIN vars
         /\ vars[name].home = pos
         /\ IsType(vars[name].type)
         /\ MakeTrouble(vars[name].type) = "none"
         /\ vars[name].types = TypesOf(vars[name].type)
BY DEF VariableTrouble, ShapeInv, VarsShape, VariableShape

LEMMA FoundMember ==
  ASSUME ShapeInv, NEW name, NEW member, MemberTrouble(name, member) = "none"
  PROVE  LET k == vars[name].type.klass IN
         /\ VariableTrouble(name) = "none"
         /\ vars[name].type.kind = "KLASS"
         /\ k \in DOMAIN klass_def_map
         /\ vars[name].types = FieldTypes(k)
         /\ getFieldDistance(Fields(k), member) # -1
         /\ \A i : Cell(MemberOf(i, name, member)) = FieldTypes(k)[FieldIndex(k, member)]
         /\ \A i : Cell(MemberOf(i, name, member)) \in Types
<1> DEFINE k == vars[name].type.klass
<1>1. VariableTrouble(name) = "none"
  BY DEF MemberTrouble
<1>2. /\ name \in DOMAIN vars
      /\ MakeTrouble(vars[name].type) = "none"
      /\ vars[name].types = TypesOf(vars[name].type)
  BY <1>1, FoundVariable
<1>3. vars[name].type.kind = "KLASS" /\ getFieldDistance(Fields(k), member) # -1
  BY <1>2 DEF MemberTrouble, HasMember
<1>4. k \in DOMAIN klass_def_map /\ vars[name].types = FieldTypes(k)
  BY <1>2, <1>3 DEF MakeTrouble, TypesOf
<1>5. \A i : Cell(MemberOf(i, name, member)) = FieldTypes(k)[FieldIndex(k, member)]
  BY <1>4 DEF Cell, MemberOf, Through
<1>6. FieldTypes(k)[FieldIndex(k, member)] \in Types
  <2>1. FieldTypes(k)[FieldIndex(k, member)] = LLVMType(Fields(k)[FieldIndex(k, member)])
    BY <1>3, <1>4, FieldIndexIn DEF ShapeInv
  <2> QED
    BY <2>1, LLVMTypes
<1> QED
  BY <1>1, <1>3, <1>4, <1>5, <1>6

LEMMA FoundCallable ==
  ASSUME NEW name
  PROVE  lookup_func(name) \in Callables \cup {0}
BY DEF lookup_func, Callables

LEMMA RetType ==
  ASSUME ShapeInv
  PROVE  ret \in Types \cup {"none"}
BY DEF ShapeInv, Progress

LEMMA DefVarShape ==
  ASSUME ShapeInv, exec_def_var_codegen
  PROVE  ShapeInv'
<1> DEFINE ins == [i |-> "def", slot |-> n, type |-> Node.type,
                   types |-> TypesOf(Node.type), id |-> IdOf(Node.type)]
           made == NewVariable(n, Node.type)
<1>1. Compiling("DEF_VAR")
  BY DEF exec_def_var_codegen
<1>2. CASE Stop(MakeTrouble(Node.type)) /\ MakeTrouble(Node.type) # "none"
  BY <1>2, StopShape DEF MakeTrouble, Failures
<1>3. CASE /\ MakeTrouble(Node.type) = "none"
           /\ vars' = Put(vars, Node.sym, made)
           /\ Emit(ins, "i32")
  <2>1. /\ pos \in Callables /\ n \in 1 .. Len(program[pos].body)
        /\ program[pos].body[n].op = "DEF_VAR"
        /\ UNCHANGED <<pos, klass_def_map>> /\ DOMAIN code' = DOMAIN code /\ pos \in DOMAIN code
    BY <1>1, <1>3, EmitCode
  <2>2. IsType(Node.type)
    BY <2>1, CallableShape DEF Node, Here
  <2>3. TypesOf(Node.type) \in Seq(Types)
    BY <2>2, <1>3, TypesOfTypes DEF ShapeInv
  <2>4. IsSequence(TypesOf(Node.type))
    BY <2>3, SequenceOver
  <2>5. InstructionShape(ins)
    BY <2>4 DEF InstructionShape
  <2>6. /\ made.home = pos /\ made.type = Node.type /\ made.types = TypesOf(Node.type)
    BY <1>3, <2>2, MadeShape
  <2> HIDE DEF ins, made
  <2>7. VarsShape'
    <3>1. ASSUME NEW v \in DOMAIN vars'
          PROVE  /\ vars'[v].home \in DOMAIN code'
                 /\ IsType(vars'[v].type)
                 /\ vars'[v].home = pos =>
                      /\ MakeTrouble(vars'[v].type) = "none"
                      /\ vars'[v].types = TypesOf(vars'[v].type)
      <4>1. vars'[v] = made \/ (v \in DOMAIN vars /\ vars'[v] = vars[v])
        BY <1>3 DEF Put
      <4> QED
        BY <4>1, <1>3, <2>1, <2>2, <2>6 DEF ShapeInv, VarsShape, VariableShape
    <3> QED
      BY <2>1, <3>1, VarsShapeNext
  <2> QED
    BY <1>1, <1>3, <2>5, <2>7, EmitShape DEF Types
<1> QED
  BY <1>2, <1>3 DEF exec_def_var_codegen

LEMMA NewClassShape ==
  ASSUME ShapeInv, exec_new_class_codegen
  PROVE  ShapeInv'
<1> DEFINE ins == [i |-> "new", type |-> Node.type,
                   types |-> TypesOf(Node.type), id |-> IdOf(Node.type)]
           how == IF Node.type.kind # "KLASS" THEN "assert" ELSE MakeTrouble(Node.type)
<1>1. Compiling("NEW_CLASS")
  BY DEF exec_new_class_codegen
<1>2. CASE Stop(how) /\ how # "none"
  <2>1. how \in Failures
    BY <1>2 DEF MakeTrouble, Failures
  <2> QED
    BY <1>2, <2>1, StopShape
<1>3. CASE MakeTrouble(Node.type) = "none" /\ Emit(ins, "ptr") /\ UNCHANGED vars
  <2>1. /\ pos \in Callables /\ n \in 1 .. Len(program[pos].body)
        /\ program[pos].body[n].op = "NEW_CLASS"
    BY <1>1, <1>3, EmitCode
  <2>2. IsType(Node.type)
    BY <2>1, CallableShape DEF Node, Here
  <2>3. TypesOf(Node.type) \in Seq(Types)
    BY <2>2, <1>3, TypesOfTypes DEF ShapeInv
  <2>4. IsSequence(TypesOf(Node.type))
    BY <2>3, SequenceOver
  <2>5. InstructionShape(ins)
    BY <2>4 DEF InstructionShape
  <2> HIDE DEF ins
  <2> QED
    BY <1>1, <1>3, <2>5, EmitSameVars DEF Types
<1> QED
  BY <1>2, <1>3 DEF exec_new_class_codegen

LEMMA ValueShape ==
  ASSUME ShapeInv, exec_value \/ exec_print_codegen
  PROVE  ShapeInv'
<1>1. CASE exec_value
  <2> DEFINE ins == [i |-> "const", val |-> Node.val]
  <2>1. InstructionShape(ins)
    BY DEF InstructionShape
  <2>2. Compiling("VALUEDATA") /\ Emit(ins, LLVMType(Node.type)) /\ UNCHANGED vars
    BY <1>1 DEF exec_value
  <2> HIDE DEF ins
  <2> QED
    BY <2>1, <2>2, LLVMTypes, EmitSameVars
<1>2. CASE exec_print_codegen
  <2> DEFINE ins == [i |-> "print", type |-> ret]
  <2>1. InstructionShape(ins)
    BY DEF InstructionShape
  <2>2. Compiling("PRINTDATA") /\ Emit(ins, "i32") /\ UNCHANGED vars
    BY <1>2 DEF exec_print_codegen
  <2> HIDE DEF ins
  <2> QED
    BY <2>1, <2>2, EmitSameVars DEF Types
<1> QED
  BY <1>1, <1>2

(* Why a name cannot be used. *)
LEMMA Troubles ==
  ASSUME NEW name, NEW x
  PROVE  /\ VariableTrouble(name) \in Failures \cup {"none"}
         /\ MemberTrouble(name, x) \in Failures \cup {"none"}
         /\ ElementTrouble(name, x) \in Failures \cup {"none"}
<1>1. VariableTrouble(name) \in Failures \cup {"none"}
  BY DEF VariableTrouble, Failures
<1> QED
  BY <1>1 DEF MemberTrouble, ElementTrouble, Failures

LEMMA VariableAccessShape ==
  ASSUME ShapeInv, exec_get_var_codegen \/ exec_set_var_codegen
  PROVE  ShapeInv'
<1> DEFINE how == IF NullSymbol(Node.sym) THEN "crash" ELSE VariableTrouble(Node.sym)
<1>1. how \in Failures \cup {"none"}
  BY Troubles DEF Failures
<1>2. CASE Stop(how) /\ how # "none"
  BY <1>1, <1>2, StopShape
<1>3. CASE Stop("malformed")
  BY <1>3, StopShape DEF Failures
<1>4. ASSUME NEW op, Compiling(op), NEW i \in {"load", "store"},
             NEW type \in Types \cup {"none"},
             Emit([i |-> i, slot |-> vars[Node.sym].slot], type), UNCHANGED vars
      PROVE  ShapeInv'
  <2> DEFINE ins == [i |-> i, slot |-> vars[Node.sym].slot]
  <2>1. InstructionShape(ins)
    BY DEF InstructionShape
  <2> HIDE DEF ins
  <2> QED
    BY <1>4, <2>1, EmitSameVars DEF ins
<1>5. CASE exec_get_var_codegen
  <2>1. LLVMType(vars[Node.sym].type) \in Types \cup {"none"}
    BY LLVMTypes
  <2> QED
    BY <1>2, <1>4, <1>5, <2>1 DEF exec_get_var_codegen
<1>6. CASE exec_set_var_codegen
  BY <1>2, <1>3, <1>4, <1>6, RetType DEF exec_set_var_codegen
<1> QED
  BY <1>5, <1>6

LEMMA MemberAccessShape ==
  ASSUME ShapeInv, exec_get_member_var_codegen \/ exec_set_member_var_codegen
  PROVE  ShapeInv'
<1>1. CASE Stop("malformed") \/ Stop("assert") \/ Stop("crash")
  BY <1>1, StopShape DEF Failures
<1>2. CASE Stop(MemberTrouble(Node.sym, Node.member))
           /\ MemberTrouble(Node.sym, Node.member) # "none"
  BY <1>2, Troubles, StopShape
<1>3. ASSUME NEW op, Compiling(op), NEW i \in {"get", "set"},
             NEW type \in Types \cup {"none"},
             Emit(MemberOf(i, Node.sym, Node.member), type), UNCHANGED vars
      PROVE  ShapeInv'
  <2> DEFINE ins == MemberOf(i, Node.sym, Node.member)
  <2>1. ins.i = i
    BY DEF MemberOf, Through
  <2> HIDE DEF ins
  <2>2. InstructionShape(ins)
    BY <2>1 DEF InstructionShape
  <2> QED
    BY <1>3, <2>2, EmitSameVars DEF ins
<1>4. CASE exec_get_member_var_codegen
  <2>1. MemberTrouble(Node.sym, Node.member) = "none" =>
          Cell(MemberOf("get", Node.sym, Node.member)) \in Types \cup {"none"}
    BY FoundMember
  <2> QED
    BY <1>1, <1>2, <1>3, <1>4, <2>1 DEF exec_get_member_var_codegen
<1>5. CASE exec_set_member_var_codegen
  BY <1>1, <1>2, <1>3, <1>5, RetType DEF exec_set_member_var_codegen
<1> QED
  BY <1>4, <1>5

LEMMA ElementAccessShape ==
  ASSUME ShapeInv, exec_get_array_var_codegen \/ exec_set_array_var_codegen
  PROVE  ShapeInv'
<1>1. CASE Stop("malformed") \/ Stop("crash")
  BY <1>1, StopShape DEF Failures
<1>2. CASE Stop(ElementTrouble(Node.sym, Node.index))
           /\ ElementTrouble(Node.sym, Node.index) # "none"
  BY <1>2, Troubles, StopShape
<1>3. ASSUME NEW op, Compiling(op), NEW i \in {"get", "set"},
             NEW type \in Types \cup {"none"},
             Emit(Through(i, Node.sym, Node.index + 1), type), UNCHANGED vars
      PROVE  ShapeInv'
  <2> DEFINE ins == Through(i, Node.sym, Node.index + 1)
  <2>1. ins.i = i
    BY DEF Through
  <2> HIDE DEF ins
  <2>2. InstructionShape(ins)
    BY <2>1 DEF InstructionShape
  <2> QED
    BY <1>3, <2>2, EmitSameVars DEF ins
<1>4. CASE exec_get_array_var_codegen
  <2>1. LLVMType([kind |-> vars[Node.sym].type.elem_kind]) \in Types \cup {"none"}
    BY LLVMTypes
  <2> QED
    BY <1>2, <1>3, <1>4, <2>1 DEF exec_get_array_var_codegen
<1>5. CASE exec_set_array_var_codegen
  BY <1>1, <1>2, <1>3, <1>5, RetType DEF exec_set_array_var_codegen
<1> QED
  BY <1>4, <1>5

LEMMA CallShape ==
  ASSUME ShapeInv, exec_call_func_codegen \/ exec_call_method_codegen
  PROVE  ShapeInv'
<1> DEFINE f == lookup_func(Node.sym)
<1>1. CASE Stop("malformed") \/ Stop("crash") \/ Stop("undefined")
  BY <1>1, StopShape DEF Failures
<1>2. LLVMType(program[f].type) \in Types \cup {"none"}
  BY LLVMTypes
<1>3. CASE exec_call_func_codegen
  <2>1. CASE f # 0 /\ Emit([i |-> "call", to |-> f], LLVMType(program[f].type))
             /\ UNCHANGED vars
    <3> DEFINE ins == [i |-> "call", to |-> f]
    <3>1. f \in Callables
      BY <2>1, FoundCallable
    <3>2. InstructionShape(ins)
      BY <3>1 DEF InstructionShape
    <3>3. Compiling("CALL_FUNC")
      BY <1>3 DEF exec_call_func_codegen
    <3> HIDE DEF ins, f
    <3> QED
      BY <1>2, <2>1, <3>2, <3>3, EmitSameVars DEF ins
  <2> QED
    BY <1>1, <1>3, <2>1 DEF exec_call_func_codegen
<1>4. CASE exec_call_method_codegen
  <2> DEFINE ins == [i |-> "send", slot |-> vars[Node.reciever].slot,
                     row |-> getDefId(vars[Node.reciever].type.klass), as |-> f]
             how == IF f = 0 THEN "crash" ELSE VariableTrouble(Node.reciever)
  <2>1. CASE Stop(how) /\ how # "none"
    <3>1. how \in Failures
      BY <2>1, Troubles DEF Failures
    <3> QED
      BY <2>1, <3>1, StopShape
  <2>2. CASE Emit(ins, LLVMType(program[f].type)) /\ UNCHANGED vars
    <3>1. InstructionShape(ins)
      BY DEF InstructionShape
    <3>2. Compiling("CALL_METHOD")
      BY <1>4 DEF exec_call_method_codegen
    <3> HIDE DEF ins, f
    <3> QED
      BY <1>2, <2>2, <3>1, <3>2, EmitSameVars
  <2> QED
    BY <1>1, <1>4, <2>1, <2>2 DEF exec_call_method_codegen
<1> QED
  BY <1>3, <1>4
(* The end of a function. *)
LEMMA ReturnShape ==
  ASSUME ShapeInv, makeReturn
  PROVE  ShapeInv'
<1>1. CASE Stop("malformed") \/ Stop("undefined")
  BY <1>1, StopShape DEF Failures
<1>2. CASE /\ n' = 0 /\ pos' = NextDeclaration
           /\ UNCHANGED <<program, phase, at, climb, klass_def_map, ret, vars, code, run_vars>>
  <2>1. /\ phase = "codegen" /\ at = 0 /\ n # 0 /\ n > Len(program[pos].body)
        /\ pos' = pos + 1
        /\ UNCHANGED <<program, phase, at, climb, klass_def_map, vars, code, heap, stack>>
    BY <1>2 DEF makeReturn, NextDeclaration, run_vars, Here
  <2>2. /\ pos \in Callables /\ n <= Len(program[pos].body) + 1
        /\ DOMAIN code = {j \in Callables : j < pos \/ j = pos}
        /\ DOMAIN klass_def_map = ClassesBefore(program, pos)
    BY <2>1 DEF ShapeInv, Progress, Here
  <2>3. Len(program[pos].body) \in Nat /\ n \in Nat /\ Len(program) \in Nat
        /\ pos \in 1 .. Len(program)
    BY <2>2, CallableShape, SequenceDomain, PosFacts DEF Callables
  <2>4. n - 1 = Len(program[pos].body)
    BY <2>1, <2>2, <2>3
  <2>5. IInv'
    BY <2>1, <2>3, MoveOnStep DEF ShapeInv
  <2>6. Progress'
    <3>1. DOMAIN klass_def_map = ClassesBefore(program, pos + 1)
      BY <2>2, <2>3, ClassesNext DEF Callables, Callable
    <3>2. DOMAIN code = {j \in Callables : j < pos + 1}
      BY <2>2, <2>3 DEF Callables
    <3> QED
      BY <1>2, <2>1, <3>1, <3>2 DEF ShapeInv, Progress, Callables
  <2>7. ASSUME NEW f \in DOMAIN code
        PROVE  f < pos + 1 /\ f # pos + 1 /\ (f = pos \/ f < pos) /\ ~(f = pos /\ f < pos)
    BY <2>2, <2>3 DEF Callables
  <2>8. CodeShape'
    <3> SUFFICES ASSUME NEW f \in DOMAIN code
                 PROVE  /\ IsSequence(code[f])
                        /\ Len(code[f]) = Len(program[f].body)
                        /\ \A m \in 1 .. Len(code[f]) : InstructionShape(code[f][m])
      BY <2>1, <2>7 DEF CodeShape, InstructionShape, Callables
    <3>1. Len(code[f]) = IF f < pos THEN Len(program[f].body) ELSE n - 1
      BY DEF ShapeInv, CodeShape
    <3>2. Len(code[f]) = Len(program[f].body)
      BY <2>4, <2>7, <3>1
    <3> QED
      BY <3>2 DEF ShapeInv, CodeShape
  <2>9. VarsShape'
    BY <2>1, <2>7 DEF ShapeInv, VarsShape, VariableShape
  <2>10. HeapShape' /\ StackShape'
    BY <2>1, StackShapeSame DEF ShapeInv, HeapShape
  <2> QED
    BY <2>5, <2>6, <2>8, <2>9, <2>10 DEF ShapeInv
<1> QED
  BY <1>1, <1>2 DEF makeReturn

-----------------------------------------------------------------------------
(* The running program. *)
LEMMA StartShape ==
  ASSUME ShapeInv, WriteBitcodeToFile
  PROVE  ShapeInv'
<1>1. CASE phase' = "unresolved" /\ UNCHANGED stack
  BY <1>1, PhaseShape DEF WriteBitcodeToFile, Failures, run_vars
<1>2. CASE /\ lookup_func(Main) # 0 /\ phase' = "running"
           /\ stack' = <<Frame(lookup_func(Main), EmptyMap)>>
  <2> DEFINE f == lookup_func(Main)
             frame == Frame(f, EmptyMap)
  <2>1. /\ at = 0 /\ n = 0 /\ pos > Len(program)
        /\ UNCHANGED <<program, pos, at, climb, klass_def_map, n, ret, vars, code, heap>>
    BY <1>2 DEF WriteBitcodeToFile, compile_vars
  <2>2. f \in Callables
    BY <1>2, FoundCallable
  <2>3. f \in DOMAIN code
    BY <2>1, <2>2, PosFacts DEF ShapeInv, Progress, Callables
  <2>4. frame.fn = f /\ frame.pc = 1
    BY DEF Frame
  <2>5. Len(code[f]) \in Nat
    BY <2>3, SequenceDomain DEF ShapeInv, CodeShape
  <2> HIDE DEF f
  <2>6. FrameShape(frame)
    BY <2>3, <2>4, <2>5 DEF FrameShape, Frame
  <2> HIDE DEF frame
  <2>7. IsSequence(<<frame>>) /\ Len(<<frame>>) = 1 /\ <<frame>>[1] = frame
    <3>1. <<frame>> \in Seq({frame})
      OBVIOUS
    <3> QED
      BY <3>1, SequenceOver
  <2>8. stack' = <<frame>>
    BY <1>2 DEF frame, f
  <2>9. StackShape'
    <3>1. \A i \in 1 .. Len(stack') : stack'[i] = frame
      BY <2>7, <2>8
    <3> QED
      BY <2>1, <2>6, <2>7, <2>8, <3>1 DEF StackShape, FrameShape
  <2>10. IInv' /\ CodeShape' /\ VarsShape' /\ HeapShape'
    BY <2>1, IInvStays, CodeShapeSame, VarsShapeSame DEF ShapeInv, HeapShape
  <2>11. Progress'
    BY <2>1, <1>2 DEF ShapeInv, Progress, Callables
  <2> QED
    BY <2>9, <2>10, <2>11 DEF ShapeInv
<1> QED
  BY <1>1, <1>2 DEF WriteBitcodeToFile

(* What every step of the running program is given. *)
LEMMA RunFacts ==
  ASSUME ShapeInv, Running
  PROVE  /\ pos > Len(program) /\ n = 0 /\ at = 0 /\ DOMAIN code = Callables
         /\ IsSequence(stack) /\ Len(stack) \in Nat /\ Len(stack) > 0
         /\ top.fn \in Callables /\ top.pc \in Nat /\ top.pc >= 1
         /\ IsSequence(code[top.fn]) /\ Len(code[top.fn]) \in Nat
         /\ Len(code[top.fn]) = Len(program[top.fn].body)
         /\ top.pc <= Len(code[top.fn]) + 1
         /\ top.pc <= Len(code[top.fn]) => InstructionShape(Instr)
<1>1. /\ pos > Len(program) /\ n = 0 /\ at = 0
  BY DEF Running, ShapeInv, Progress
<1>2. DOMAIN code = Callables
  BY <1>1, PosFacts DEF ShapeInv, Progress, Callables
<1>3. IsSequence(stack) /\ Len(stack) \in Nat /\ Len(stack) > 0
  BY SequenceDomain DEF Running, ShapeInv, StackShape
<1>4. FrameShape(top)
  BY <1>3 DEF ShapeInv, StackShape, top
<1> DEFINE f == top.fn
<1>5. f \in Callables /\ top.pc \in 1 .. Len(code[f]) + 1
  BY <1>2, <1>4 DEF FrameShape
<1> HIDE DEF f
<1>6. f < pos
  BY <1>1, <1>5, PosFacts DEF Callables
<1>7. IsSequence(code[f]) /\ Len(code[f]) = Len(program[f].body)
      /\ \A m \in 1 .. Len(code[f]) : InstructionShape(code[f][m])
  BY <1>2, <1>5, <1>6 DEF ShapeInv, CodeShape
<1>8. Len(code[f]) \in Nat
  BY <1>7, SequenceDomain
<1>9. top.pc \in Nat /\ top.pc >= 1 /\ top.pc <= Len(code[f]) + 1
  BY <1>5, <1>8
<1>10. top.pc <= Len(code[f]) => InstructionShape(code[f][top.pc])
  BY <1>7, <1>8, <1>9
<1> QED
  BY <1>1, <1>2, <1>3, <1>5, <1>7, <1>8, <1>9, <1>10 DEF f, Instr

LEMMA RunShape ==
  ASSUME ShapeInv, Running, phase' \in {"running", "exited"},
         UNCHANGED <<program, pos, at, climb, klass_def_map, compile_vars>>,
         HeapShape', StackShape'
  PROVE  ShapeInv'
<1>1. UNCHANGED <<program, pos, at, climb, klass_def_map, n, ret, vars, code>>
  BY DEF compile_vars
<1>2. IInv' /\ CodeShape' /\ VarsShape'
  BY <1>1, IInvStays, CodeShapeSame, VarsShapeSame DEF ShapeInv
<1>3. Progress'
  BY <1>1, RunFacts DEF ShapeInv, Progress, Callables
<1> QED
  BY <1>2, <1>3 DEF ShapeInv

(* The frame on the top goes on to its next instruction. *)
LEMMA StepStack ==
  ASSUME ShapeInv, Running, NEW acc, NEW env
  PROVE  /\ IsSequence(Step(acc, env)) /\ Len(Step(acc, env)) = Len(stack)
         /\ \A i \in 1 .. Len(stack) - 1 : Step(acc, env)[i] = stack[i]
         /\ Step(acc, env)[Len(stack)] =
              [fn |-> top.fn, pc |-> top.pc + 1, acc |-> acc, env |-> env]
<1> DEFINE frame == [top EXCEPT !.pc = @ + 1, !.acc = acc, !.env = env]
           new == [fn |-> top.fn, pc |-> top.pc + 1, acc |-> acc, env |-> env]
<1>1. IsSequence(stack) /\ Len(stack) \in Nat /\ Len(stack) > 0 /\ DOMAIN stack = 1 .. Len(stack)
  BY RunFacts, SequenceDomain
<1>2. top = [fn |-> top.fn, pc |-> top.pc, acc |-> top.acc, env |-> top.env]
  BY <1>1 DEF ShapeInv, StackShape, FrameShape, top
<1>3. frame = new
  <2> DEFINE t == top
             d == t.pc + 1
  <2>1. t = [fn |-> t.fn, pc |-> t.pc, acc |-> t.acc, env |-> t.env]
    BY <1>2
  <2>2. frame = [t EXCEPT !.pc = d, !.acc = acc, !.env = env]
    OBVIOUS
  <2>3. new = [fn |-> t.fn, pc |-> d, acc |-> acc, env |-> env]
    OBVIOUS
  <2>4. PICK t1 : t1 = [t EXCEPT !.pc = d]
    OBVIOUS
  <2>5. PICK t2 : t2 = [t1 EXCEPT !.acc = acc]
    OBVIOUS
  <2>6. PICK t3 : t3 = [t2 EXCEPT !.env = env]
    OBVIOUS
  <2> HIDE DEF t, d, new
  <2>7. t1 = [fn |-> t.fn, pc |-> d, acc |-> t.acc, env |-> t.env]
    BY <2>1, <2>4
  <2>8. t2 = [fn |-> t.fn, pc |-> d, acc |-> acc, env |-> t.env]
    BY <2>5, <2>7
  <2>9. t3 = [fn |-> t.fn, pc |-> d, acc |-> acc, env |-> env]
    BY <2>6, <2>8
  <2>10. frame = t3
    BY <2>2, <2>4, <2>5, <2>6
  <2> QED
    BY <2>3, <2>9, <2>10
<1> HIDE DEF new, frame
<1>4. Step(acc, env) = [stack EXCEPT ![Len(stack)] = new]
  BY <1>3 DEF Step, Replaced, frame
<1>5. /\ DOMAIN Step(acc, env) = 1 .. Len(stack)
      /\ Step(acc, env)[Len(stack)] = new
      /\ \A i \in 1 .. Len(stack) - 1 : Step(acc, env)[i] = stack[i]
      /\ Step(acc, env) = [i \in 1 .. Len(stack) |-> Step(acc, env)[i]]
  <2> DEFINE s == Step(acc, env)
             k == Len(stack)
  <2>1. k \in Nat /\ k > 0 /\ DOMAIN stack = 1 .. k /\ s = [stack EXCEPT ![k] = new]
    BY <1>1, <1>4
  <2> HIDE DEF s, k
  <2>2. DOMAIN s = 1 .. k /\ s[k] = new
    BY <2>1
  <2>3. \A i \in 1 .. k - 1 : s[i] = stack[i]
    BY <2>1
  <2>4. s = [i \in 1 .. k |-> s[i]]
    BY <2>1
  <2> QED
    BY <2>2, <2>3, <2>4 DEF s, k
<1>6. IsSequence(Step(acc, env)) /\ Len(Step(acc, env)) = Len(stack)
  BY <1>1, <1>5, SequenceFrom
<1> QED
  BY <1>5, <1>6 DEF new

LEMMA StepShape ==
  ASSUME ShapeInv, Running, top.pc <= Len(code[top.fn]), NEW acc, NEW env,
         stack' = Step(acc, env), Still, HeapShape'
  PROVE  ShapeInv'
<1>1. UNCHANGED <<program, phase, pos, at, climb, klass_def_map, compile_vars, code>>
  BY DEF Still, layout_vars, compile_vars
<1>2. StackShape'
  <2>1. /\ IsSequence(stack') /\ Len(stack') = Len(stack) /\ Len(stack) \in Nat
        /\ Len(stack) > 0
        /\ \A i \in 1 .. Len(stack) - 1 : stack'[i] = stack[i]
        /\ stack'[Len(stack)] = [fn |-> top.fn, pc |-> top.pc + 1, acc |-> acc, env |-> env]
    BY StepStack, RunFacts
  <2>2. ASSUME NEW i \in 1 .. Len(stack)
        PROVE  FrameShape(stack'[i])
    <3>1. CASE i # Len(stack)
      BY <2>1, <3>1 DEF ShapeInv, StackShape
    <3>2. CASE i = Len(stack)
      <4> DEFINE frame == stack'[i]
                 f == top.fn
                 c == top.pc
      <4>1. /\ f \in DOMAIN code /\ c \in Nat /\ Len(code[f]) \in Nat
            /\ c <= Len(code[f])
        BY RunFacts
      <4>2. frame = [fn |-> f, pc |-> c + 1, acc |-> acc, env |-> env]
        BY <2>1, <3>2
      <4> HIDE DEF frame, f, c
      <4>3. frame.fn = f /\ frame.pc = c + 1 /\ frame.acc = acc /\ frame.env = env
        BY <4>2
      <4>4. frame.pc \in 1 .. Len(code[f]) + 1
        BY <4>1, <4>3
      <4>5. FrameShape(frame)
        BY <4>1, <4>2, <4>3, <4>4 DEF FrameShape
      <4> QED
        BY <4>5 DEF frame
    <3> QED
      BY <3>1, <3>2
  <2> QED
    BY <1>1, <2>1, <2>2 DEF StackShape, FrameShape
<1> QED
  BY <1>1, <1>2, RunShape DEF Running

LEMMA HeapSame ==
  ASSUME ShapeInv, UNCHANGED heap
  PROVE  HeapShape'
BY DEF ShapeInv, HeapShape

(* Memory that has just been allocated. *)
LEMMA FreshShape ==
  ASSUME IsSequence(Instr.types), NEW home
  PROVE  /\ DOMAIN Fresh(home).cells = DOMAIN Instr.types
         /\ Fresh(home) = [type |-> Instr.type, types |-> Instr.types,
                           cells |-> [i \in DOMAIN Instr.types |-> Undef],
                           home |-> home, live |-> TRUE]
         /\ Object = [type |-> Instr.type, types |-> Instr.types,
                      cells |-> [i \in DOMAIN Instr.types |->
                                   IF i = 1 THEN Number(Instr.id) ELSE Undef],
                      home |-> 0, live |-> TRUE]
<1>1. DOMAIN Instr.types = 1 .. Len(Instr.types)
  BY SequenceDomain
<1> DEFINE D == DOMAIN Instr.types
           id == Number(Instr.id)
           type == Instr.type
           types == Instr.types
<1>2. \A h : Fresh(h) = [type |-> type, types |-> types,
                         cells |-> [i \in D |-> Undef], home |-> h, live |-> TRUE]
  BY <1>1 DEF Fresh
<1>3. Object = [Fresh(0) EXCEPT !.cells[1] = id]
  BY DEF Object
<1> HIDE DEF D, id, type, types
<1>4. Object = [type |-> type, types |-> types,
                cells |-> [i \in D |-> IF i = 1 THEN id ELSE Undef],
                home |-> 0, live |-> TRUE]
  BY <1>2, <1>3
<1> QED
  BY <1>2, <1>4 DEF D, id, type, types

LEMMA AppendShape ==
  ASSUME ShapeInv, IsSequence(Instr.types), NEW home,
         heap' = Append(heap, Object) \/ heap' = Append(heap, Fresh(home))
  PROVE  HeapShape'
<1>1. PICK block :
        /\ heap' = Append(heap, block)
        /\ DOMAIN block.cells = DOMAIN block.types
        /\ IsSequence(block.cells)
        /\ block = [type |-> block.type, types |-> block.types,
                    cells |-> block.cells, home |-> block.home, live |-> block.live]
  <2>1. PICK k \in Nat : DOMAIN Instr.types = 1 .. k
    BY SequenceDomain
  <2>2. PICK block :
          /\ heap' = Append(heap, block)
          /\ DOMAIN block.types = 1 .. k
          /\ \E cells : /\ cells = [i \in 1 .. k |-> cells[i]]
                        /\ block = [type |-> block.type, types |-> block.types,
                                    cells |-> cells, home |-> block.home,
                                    live |-> block.live]
    <3>1. PICK old, new : /\ old = [i \in 1 .. k |-> Undef]
                          /\ new = [i \in 1 .. k |-> IF i = 1 THEN Number(Instr.id) ELSE Undef]
      OBVIOUS
    <3>2. old = [i \in 1 .. k |-> old[i]] /\ new = [i \in 1 .. k |-> new[i]]
      BY <3>1
    <3>3. /\ Fresh(home) = [type |-> Instr.type, types |-> Instr.types,
                            cells |-> old, home |-> home, live |-> TRUE]
          /\ Object = [type |-> Instr.type, types |-> Instr.types,
                       cells |-> new, home |-> 0, live |-> TRUE]
      BY <2>1, <3>1, FreshShape
    <3> QED
      BY <2>1, <3>2, <3>3
  <2>3. PICK cells : /\ cells = [i \in 1 .. k |-> cells[i]]
                     /\ block = [type |-> block.type, types |-> block.types,
                                 cells |-> cells, home |-> block.home, live |-> block.live]
    BY <2>2
  <2>4. block.cells = cells
    BY <2>3
  <2>5. IsSequence(cells) /\ DOMAIN cells = 1 .. k
    BY <2>3, SequenceFrom
  <2> QED
    BY <2>2, <2>3, <2>4, <2>5
<1>2. /\ IsSequence(heap') /\ Len(heap') = Len(heap) + 1 /\ Len(heap) \in Nat
      /\ heap'[Len(heap) + 1] = block
      /\ \A b \in 1 .. Len(heap) : heap'[b] = heap[b]
  BY <1>1, SequenceAppend, SequenceDomain DEF ShapeInv, HeapShape
<1>3. ASSUME NEW b \in 1 .. Len(heap')
      PROVE  /\ DOMAIN heap'[b].cells = DOMAIN heap'[b].types
             /\ IsSequence(heap'[b].cells)
             /\ heap'[b] = [type |-> heap'[b].type, types |-> heap'[b].types,
                            cells |-> heap'[b].cells, home |-> heap'[b].home,
                            live |-> heap'[b].live]
  <2>1. b = Len(heap) + 1 \/ b \in 1 .. Len(heap)
    BY <1>2
  <2>2. CASE b = Len(heap) + 1
    BY <1>1, <1>2, <2>2
  <2>3. CASE b \in 1 .. Len(heap)
    BY <1>2, <2>3 DEF ShapeInv, HeapShape
  <2> QED
    BY <2>1, <2>2, <2>3
<1> QED
  BY <1>2, <1>3 DEF HeapShape

LEMMA AllocateShape ==
  ASSUME ShapeInv, run_def \/ run_new
  PROVE  ShapeInv'
<1>1. /\ Running /\ top.pc <= Len(code[top.fn]) /\ Instr.i \in {"def", "new"} /\ Still
  BY DEF run_def, run_new, At
<1>2. IsSequence(Instr.types)
  BY <1>1, RunFacts DEF InstructionShape
<1>3. HeapShape'
  <2>1. CASE UNCHANGED heap
    BY <2>1, HeapSame
  <2>2. CASE \E home : heap' = Append(heap, Object) \/ heap' = Append(heap, Fresh(home))
    BY <2>2, <1>2, AppendShape
  <2> QED
    BY <2>1, <2>2 DEF run_def, run_new
<1>4. \E acc, env : stack' = Step(acc, env)
  BY DEF run_def, run_new
<1> QED
  BY <1>1, <1>3, <1>4, StepShape

LEMMA SimpleShape ==
  ASSUME ShapeInv, run_simple \/ run_get \/ run_print
  PROVE  ShapeInv'
<1>1. CASE Wrong("undefined")
  BY <1>1, WrongShape DEF Failures
<1>2. CASE ~Wrong("undefined")
  <2>1. /\ Running /\ top.pc <= Len(code[top.fn]) /\ Still /\ UNCHANGED heap
        /\ \E acc, env : stack' = Step(acc, env)
    BY <1>2 DEF run_simple, run_get, run_print, At
  <2> QED
    BY <2>1, HeapSame, StepShape
<1> QED
  BY <1>1, <1>2

(* A store through a pointer. *)
LEMMA StoreHeap ==
  ASSUME ShapeInv, run_set, ~Wrong("undefined"), NEW b \in 1 .. Len(heap), b = Pointer[2]
  PROVE  /\ IsSequence(heap') /\ Len(heap') = Len(heap)
         /\ \A c \in 1 .. Len(heap) : c # b => heap'[c] = heap[c]
         /\ heap'[b] = [type |-> heap[b].type, types |-> heap[b].types,
                        cells |-> heap'[b].cells,
                        home |-> heap[b].home, live |-> heap[b].live]
         /\ DOMAIN heap'[b].cells = DOMAIN heap[b].cells
         /\ IsSequence(heap'[b].cells)
         /\ \A i \in DOMAIN heap[b].cells :
              heap'[b].cells[i] = IF i = Instr.idx THEN top.acc ELSE heap[b].cells[i]
<1> DEFINE k == Len(heap)
           block == heap[b]
           idx == Instr.idx
           val == top.acc
           h == heap'
<1>1. k \in Nat /\ DOMAIN heap = 1 .. k
  BY SequenceDomain DEF ShapeInv, HeapShape
<1>2. h = [heap EXCEPT ![b].cells[idx] = val]
  BY DEF run_set
<1>3. block = [type |-> block.type, types |-> block.types, cells |-> block.cells,
               home |-> block.home, live |-> block.live]
  BY DEF ShapeInv, HeapShape
<1> HIDE DEF idx, val, h
<1>4. PICK cells : cells = [block.cells EXCEPT ![idx] = val]
  OBVIOUS
<1>5. PICK new : new = [block EXCEPT !.cells = cells]
  OBVIOUS
<1>6. h = [heap EXCEPT ![b] = new]
  BY <1>1, <1>2, <1>4, <1>5
<1>7. new = [type |-> block.type, types |-> block.types, cells |-> cells,
             home |-> block.home, live |-> block.live]
  <2> HIDE DEF block
  <2> QED
    BY <1>3, <1>5
<1>8. DOMAIN cells = DOMAIN block.cells
      /\ \A i \in DOMAIN block.cells : cells[i] = IF i = idx THEN val ELSE block.cells[i]
  BY <1>4
<1>15. IsSequence(cells)
  <2>1. IsSequence(block.cells)
    BY DEF ShapeInv, HeapShape
  <2>2. PICK l \in Nat : DOMAIN block.cells = 1 .. l
    BY <2>1, SequenceDomain
  <2> HIDE DEF block
  <2>3. cells = [i \in 1 .. l |-> cells[i]]
    BY <1>4, <2>2
  <2> QED
    BY <2>3, SequenceFrom
<1> HIDE DEF k, block
<1>9. b \in 1 .. k
  BY DEF k
<1>10. DOMAIN h = 1 .. k /\ h[b] = new
  BY <1>1, <1>6, <1>9
<1>11. \A c \in 1 .. k : c # b => h[c] = heap[c]
  BY <1>1, <1>6
<1>12. h = [c \in 1 .. k |-> h[c]]
  BY <1>1, <1>6
<1>13. IsSequence(h) /\ Len(h) = k
  BY <1>1, <1>12, SequenceFrom
<1>14. new.cells = cells
  BY <1>7
<1> QED
  BY <1>7, <1>8, <1>10, <1>11, <1>13, <1>14, <1>15 DEF k, block, h, idx, val

(* A pointer that reaches no block leaves memory as it is.                 *)
LEMMA SetShape ==
  ASSUME ShapeInv, run_set
  PROVE  ShapeInv'
<1>1. CASE Wrong("undefined")
  BY <1>1, WrongShape DEF Failures
<1>2. CASE ~Wrong("undefined")
  <2> DEFINE b == Pointer[2]
             idx == Instr.idx
             val == top.acc
  <2>1. /\ Running /\ top.pc <= Len(code[top.fn]) /\ Still
        /\ stack' = Step(val, top.env)
        /\ heap' = [heap EXCEPT ![b].cells[idx] = val]
    BY <1>2 DEF run_set, At
  <2>2. DOMAIN heap = 1 .. Len(heap)
    BY SequenceDomain DEF ShapeInv, HeapShape
  <2>3. CASE b \in 1 .. Len(heap)
    <3> DEFINE c == b
    <3>1. c \in 1 .. Len(heap) /\ c = Pointer[2]
      BY <2>3
    <3> HIDE DEF b, c
    <3>2. /\ IsSequence(heap') /\ Len(heap') = Len(heap)
          /\ \A d \in 1 .. Len(heap) : d # c => heap'[d] = heap[d]
          /\ heap'[c] = [type |-> heap[c].type, types |-> heap[c].types,
                         cells |-> heap'[c].cells,
                         home |-> heap[c].home, live |-> heap[c].live]
          /\ DOMAIN heap'[c].cells = DOMAIN heap[c].cells
          /\ IsSequence(heap'[c].cells)
      BY <1>2, <3>1, StoreHeap
    <3>3. DOMAIN heap'[c].cells = DOMAIN heap'[c].types
      <4>1. DOMAIN heap[c].cells = DOMAIN heap[c].types
        BY <3>1 DEF ShapeInv, HeapShape
      <4>2. heap'[c].types = heap[c].types
        BY <3>2
      <4> QED
        BY <3>2, <4>1, <4>2
    <3>4. heap'[c] = [type |-> heap'[c].type, types |-> heap'[c].types,
                      cells |-> heap'[c].cells, home |-> heap'[c].home,
                      live |-> heap'[c].live]
      BY <3>2
    <3>5. ASSUME NEW d \in 1 .. Len(heap), d # c
          PROVE  /\ DOMAIN heap'[d].cells = DOMAIN heap'[d].types
                 /\ IsSequence(heap'[d].cells)
                 /\ heap'[d] = [type |-> heap'[d].type, types |-> heap'[d].types,
                                cells |-> heap'[d].cells, home |-> heap'[d].home,
                                live |-> heap'[d].live]
      BY <3>2, <3>5 DEF ShapeInv, HeapShape
    <3>6. HeapShape'
      BY <3>2, <3>3, <3>4, <3>5 DEF HeapShape
    <3> QED
      BY <2>1, <3>6, StepShape
  <2>4. CASE b \notin 1 .. Len(heap)
    <3> HIDE DEF b, idx, val
    <3>1. heap = [c \in 1 .. Len(heap) |-> heap[c]]
      <4>1. heap \in Seq({heap[c] : c \in DOMAIN heap})
        BY DEF ShapeInv, HeapShape, IsSequence
      <4> QED
        BY <4>1
    <3>2. \A c \in 1 .. Len(heap) : heap'[c] = heap[c]
      BY <2>1, <2>2, <2>4
    <3>3. heap' = [c \in 1 .. Len(heap) |-> heap'[c]]
      BY <2>1, <2>2
    <3>4. heap' = heap
      BY <3>1, <3>2, <3>3
    <3> QED
      BY <2>1, <3>4, HeapSame, StepShape
  <2> QED
    BY <2>3, <2>4
<1> QED
  BY <1>1, <1>2

(* A call puts a frame on the stack. *)
LEMMA CallStack ==
  ASSUME ShapeInv, Running, top.pc <= Len(code[top.fn]), NEW f \in Callables, NEW args,
         Call(f, args)
  PROVE  LET caller == [fn |-> top.fn, pc |-> top.pc + 1, acc |-> top.acc, env |-> top.env]
             env    == [i \in {-j : j \in 1 .. Len(args)} |-> args[-i]]
         IN  /\ IsSequence(stack') /\ Len(stack') = Len(stack) + 1
             /\ \A i \in 1 .. Len(stack) - 1 : stack'[i] = stack[i]
             /\ stack'[Len(stack)] = caller
             /\ stack'[Len(stack) + 1] = Frame(f, env)
             /\ FrameShape(caller) /\ FrameShape(Frame(f, env))
<1> DEFINE k == Len(stack)
           s == Step(top.acc, top.env)
           caller == [fn |-> top.fn, pc |-> top.pc + 1, acc |-> top.acc, env |-> top.env]
           env == [i \in {-j : j \in 1 .. Len(args)} |-> args[-i]]
<1>1. /\ IsSequence(s) /\ Len(s) = k /\ s[k] = caller /\ k \in Nat /\ k > 0
      /\ \A i \in 1 .. k - 1 : s[i] = stack[i]
  BY StepStack, RunFacts
<1>2. stack' = Append(s, Frame(f, env))
  BY DEF Call
<1>3. FrameShape(caller)
  <2> DEFINE g == top.fn
             c == top.pc
  <2>1. g \in DOMAIN code /\ c \in Nat /\ Len(code[g]) \in Nat /\ c <= Len(code[g])
    BY RunFacts
  <2>2. caller = [fn |-> g, pc |-> c + 1, acc |-> caller.acc, env |-> caller.env]
    OBVIOUS
  <2> HIDE DEF g, c, caller
  <2>3. caller.fn = g /\ caller.pc = c + 1
    BY <2>2
  <2>4. caller.pc \in 1 .. Len(code[g]) + 1
    BY <2>1, <2>3
  <2> QED
    BY <2>1, <2>2, <2>3, <2>4 DEF FrameShape
<1>4. FrameShape(Frame(f, env))
  <2> DEFINE frame == Frame(f, env)
  <2>1. f \in DOMAIN code
    BY RunFacts
  <2>2. Len(code[f]) \in Nat
    BY <2>1, SequenceDomain DEF ShapeInv, CodeShape
  <2>3. frame.fn = f /\ frame.pc = 1
        /\ frame = [fn |-> f, pc |-> 1, acc |-> frame.acc, env |-> frame.env]
    BY DEF Frame
  <2> HIDE DEF frame
  <2>4. frame.pc \in 1 .. Len(code[f]) + 1
    BY <2>2, <2>3
  <2>5. FrameShape(frame)
    BY <2>1, <2>3, <2>4 DEF FrameShape
  <2> QED
    BY <2>5 DEF frame
<1> HIDE DEF s, k, caller, env
<1>5. /\ IsSequence(stack') /\ Len(stack') = k + 1
      /\ stack'[k + 1] = Frame(f, env)
      /\ \A i \in 1 .. k : stack'[i] = s[i]
  BY <1>1, <1>2, SequenceAppend
<1>6. k \in 1 .. k /\ \A i \in 1 .. k - 1 : i \in 1 .. k
  BY <1>1
<1>7. stack'[k] = caller /\ \A i \in 1 .. k - 1 : stack'[i] = stack[i]
  BY <1>1, <1>5, <1>6
<1> QED
  BY <1>3, <1>4, <1>5, <1>7 DEF k, caller, env

LEMMA CallsShape ==
  ASSUME ShapeInv, SlotsShape, run_call \/ run_send
  PROVE  ShapeInv'
<1>1. CASE Wrong("undefined") \/ Wrong("crash")
  BY <1>1, WrongShape DEF Failures
<1>2. CASE ~(Wrong("undefined") \/ Wrong("crash"))
  <2>1. PICK f : /\ Running /\ top.pc <= Len(code[top.fn]) /\ Still /\ UNCHANGED heap
                 /\ \/ Instr.i = "call" /\ f = Instr.to
                    \/ f = Target /\ f # 0
                 /\ \E args : Call(f, args)
    BY <1>2 DEF run_call, run_send, At
  <2>2. f \in Callables
    BY <2>1, RunFacts DEF InstructionShape, Target, SlotsShape
  <2>3. PICK caller, frame :
          /\ IsSequence(stack') /\ Len(stack') = Len(stack) + 1
          /\ \A i \in 1 .. Len(stack) - 1 : stack'[i] = stack[i]
          /\ stack'[Len(stack)] = caller
          /\ stack'[Len(stack) + 1] = frame
          /\ FrameShape(caller) /\ FrameShape(frame)
    BY <2>1, <2>2, CallStack
  <2>4. Len(stack) \in Nat /\ Len(stack) > 0
    BY <2>1, RunFacts
  <2>5. UNCHANGED <<program, phase, pos, at, climb, klass_def_map, compile_vars, code>>
    BY <2>1 DEF Still, layout_vars, compile_vars
  <2>6. ASSUME NEW i \in 1 .. Len(stack) + 1
        PROVE  FrameShape(stack'[i])
    <3>1. i = Len(stack) + 1 \/ i = Len(stack) \/ i \in 1 .. Len(stack) - 1
      BY <2>4
    <3>2. CASE i \in 1 .. Len(stack) - 1
      <4>1. i \in 1 .. Len(stack)
        BY <2>4, <3>2
      <4> QED
        BY <2>3, <3>2, <4>1 DEF ShapeInv, StackShape
    <3> QED
      BY <2>3, <3>1, <3>2
  <2>7. StackShape'
    BY <2>3, <2>4, <2>5, <2>6 DEF StackShape, FrameShape
  <2> QED
    BY <2>1, <2>5, <2>7, HeapSame, RunShape DEF Running
<1> QED
  BY <1>1, <1>2

(* A function returns. *)
LEMMA ReturnStack ==
  ASSUME ShapeInv, run_return, Len(stack) # 1
  PROVE  LET k == Len(stack) - 1 IN
         /\ IsSequence(stack') /\ Len(stack') = k /\ k > 0 /\ k \in Nat
         /\ \A i \in 1 .. k - 1 : stack'[i] = stack[i]
         /\ stack'[k] = [fn |-> stack[k].fn, pc |-> stack[k].pc,
                         acc |-> top.acc, env |-> stack[k].env]
<1> DEFINE k == Len(stack) - 1
           s == SubSeq(stack, 1, k)
           acc == top.acc
<1>1. Len(stack) > 1 /\ k \in Nat /\ k > 0 /\ IsSequence(stack)
  <2>1. Running
    BY DEF run_return
  <2>2. IsSequence(stack) /\ Len(stack) \in Nat /\ Len(stack) > 0
    BY <2>1, RunFacts
  <2>3. \A l \in Nat : l > 0 /\ l # 1 => l > 1 /\ l - 1 \in Nat /\ l - 1 > 0
    OBVIOUS
  <2> QED
    BY <2>2, <2>3
<1>2. IsSequence(s) /\ Len(s) = k /\ \A i \in 1 .. k : s[i] = stack[i]
  BY <1>1, SequenceFront
<1>3. stack' = [s EXCEPT ![k].acc = acc]
  BY DEF run_return
<1>4. stack[k] = [fn |-> stack[k].fn, pc |-> stack[k].pc,
                  acc |-> stack[k].acc, env |-> stack[k].env]
  <2>1. k \in 1 .. Len(stack)
    BY <1>1
  <2> QED
    BY <2>1 DEF ShapeInv, StackShape, FrameShape
<1> DEFINE new == [stack[k] EXCEPT !.acc = acc]
<1> HIDE DEF s, acc, k
<1>5. new = [fn |-> stack[k].fn, pc |-> stack[k].pc, acc |-> acc, env |-> stack[k].env]
  BY <1>4
<1>6. DOMAIN s = 1 .. k /\ s[k] = stack[k]
  BY <1>1, <1>2, SequenceDomain
<1>7. stack' = [s EXCEPT ![k] = new]
  BY <1>3, <1>6
<1> HIDE DEF new
<1>8. /\ DOMAIN stack' = 1 .. k /\ stack'[k] = new
      /\ \A i \in 1 .. k - 1 : stack'[i] = s[i]
      /\ stack' = [i \in 1 .. k |-> stack'[i]]
  <2> DEFINE t == stack'
  <2>1. t = [s EXCEPT ![k] = new] /\ DOMAIN s = 1 .. k /\ k \in Nat /\ k > 0
    BY <1>1, <1>6, <1>7
  <2> HIDE DEF t
  <2>2. DOMAIN t = 1 .. k /\ t[k] = new
    BY <2>1
  <2>3. \A i \in 1 .. k - 1 : t[i] = s[i]
    BY <2>1
  <2>4. t = [i \in 1 .. k |-> t[i]]
    BY <2>1
  <2> QED
    BY <2>2, <2>3, <2>4 DEF t
<1>9. IsSequence(stack') /\ Len(stack') = k
  BY <1>1, <1>8, SequenceFrom
<1>10. \A i \in 1 .. k - 1 : i \in 1 .. k
  BY <1>1
<1> QED
  BY <1>1, <1>2, <1>5, <1>8, <1>9, <1>10 DEF k, acc

LEMMA ReleasedShape ==
  ASSUME ShapeInv, run_return
  PROVE  /\ HeapShape'
         /\ Len(heap') = Len(heap)
         /\ \A b \in 1 .. Len(heap) :
              heap'[b] = [type |-> heap[b].type, types |-> heap[b].types,
                          cells |-> heap[b].cells, home |-> heap[b].home,
                          live |-> IF heap[b].home = Len(stack) THEN FALSE ELSE heap[b].live]

<1> DEFINE k == Len(heap)
           Gone(b) == heap[b].home = Len(stack)
<1>1. k \in Nat /\ heap' = [b \in 1 .. k |-> Released(heap[b])]
  BY SequenceDomain DEF ShapeInv, HeapShape, run_return
<1>2. ASSUME NEW b \in 1 .. k
      PROVE  heap'[b] = [type |-> heap[b].type, types |-> heap[b].types,
                         cells |-> heap[b].cells, home |-> heap[b].home,
                         live |-> IF Gone(b) THEN FALSE ELSE heap[b].live]
  <2> DEFINE block == heap[b]
  <2>1. block = [type |-> block.type, types |-> block.types, cells |-> block.cells,
                 home |-> block.home, live |-> block.live]
    BY DEF ShapeInv, HeapShape
  <2>2. heap'[b] = IF Gone(b) THEN [block EXCEPT !.live = FALSE] ELSE block
    BY <1>1 DEF Released
  <2> HIDE DEF block
  <2> DEFINE dead == [type |-> block.type, types |-> block.types, cells |-> block.cells,
                      home |-> block.home, live |-> FALSE]
  <2>3. [block EXCEPT !.live = FALSE] = dead
    <3>1. PICK d : d = [block EXCEPT !.live = FALSE]
      OBVIOUS
    <3>2. \A x \in {"type", "types", "cells", "home"} : d[x] = block[x]
      BY <2>1, <3>1
    <3>3. d.live = FALSE
      BY <2>1, <3>1
    <3>4. DOMAIN d = {"type", "types", "cells", "home", "live"} /\ d = [x \in DOMAIN d |-> d[x]]
      BY <2>1, <3>1
    <3> QED
      BY <3>1, <3>2, <3>3, <3>4
  <2>4. CASE Gone(b)
    BY <2>2, <2>3, <2>4 DEF block
  <2>5. CASE ~Gone(b)
    BY <2>1, <2>2, <2>5 DEF block
  <2> QED
    BY <2>4, <2>5
<1>3. heap' = [b \in 1 .. k |-> heap'[b]]
  BY <1>1
<1>4. IsSequence(heap') /\ Len(heap') = k
  <2> HIDE DEF k
  <2> QED
    BY <1>1, <1>3, SequenceFrom
<1> HIDE DEF Gone
<1>5. ASSUME NEW b \in 1 .. k
      PROVE  /\ DOMAIN heap'[b].cells = DOMAIN heap'[b].types
             /\ IsSequence(heap'[b].cells)
             /\ heap'[b] = [type |-> heap'[b].type, types |-> heap'[b].types,
                            cells |-> heap'[b].cells, home |-> heap'[b].home,
                            live |-> heap'[b].live]
  <2> DEFINE new == heap'[b]
             live == IF Gone(b) THEN FALSE ELSE heap[b].live
  <2>1. DOMAIN heap[b].cells = DOMAIN heap[b].types /\ IsSequence(heap[b].cells)
    BY DEF ShapeInv, HeapShape
  <2>2. new = [type |-> heap[b].type, types |-> heap[b].types,
               cells |-> heap[b].cells, home |-> heap[b].home, live |-> live]
    BY <1>2
  <2> HIDE DEF new, live
  <2>3. new.cells = heap[b].cells /\ new.types = heap[b].types
    BY <2>2
  <2>4. new = [type |-> new.type, types |-> new.types, cells |-> new.cells,
               home |-> new.home, live |-> new.live]
    BY <2>2
  <2> QED
    BY <2>1, <2>3, <2>4 DEF new
<1>6. HeapShape'
  BY <1>4, <1>5 DEF HeapShape
<1> QED
  BY <1>2, <1>4, <1>6 DEF Gone

LEMMA ReturnsShape ==
  ASSUME ShapeInv, run_return
  PROVE  ShapeInv'
<1>1. /\ Running /\ UNCHANGED <<program, pos, at, climb, klass_def_map, compile_vars, code>>
  BY DEF run_return, compile_vars
<1>2. CASE phase' = "exited" /\ UNCHANGED stack
  <2>1. StackShape'
    BY <1>1, <1>2, StackShapeSame DEF ShapeInv
  <2> QED
    BY <1>1, <1>2, <2>1, ReleasedShape, RunShape
<1>3. CASE Len(stack) # 1 /\ UNCHANGED phase
  <2> DEFINE k == Len(stack) - 1
  <2>1. /\ IsSequence(stack') /\ Len(stack') = k /\ k > 0 /\ k \in Nat
        /\ \A i \in 1 .. k - 1 : stack'[i] = stack[i]
        /\ stack'[k] = [fn |-> stack[k].fn, pc |-> stack[k].pc,
                        acc |-> top.acc, env |-> stack[k].env]
    BY <1>3, ReturnStack
  <2>2. \A i \in 1 .. k : FrameShape(stack[i])
    BY <2>1, RunFacts DEF ShapeInv, StackShape, run_return
  <2> HIDE DEF k
  <2>3. k \in 1 .. k
    BY <2>1
  <2>4. FrameShape(stack'[k])
    <3> DEFINE t == stack'[k]
               old == stack[k]
               acc == top.acc
    <3>1. t = [fn |-> old.fn, pc |-> old.pc, acc |-> acc, env |-> old.env]
          /\ FrameShape(old)
      BY <2>1, <2>2, <2>3
    <3> HIDE DEF t, old, acc
    <3>2. FrameShape(t)
      BY <3>1 DEF FrameShape
    <3> QED
      BY <3>2 DEF t
  <2>5. ASSUME NEW i \in 1 .. k
        PROVE  FrameShape(stack'[i])
    <3>1. i = k \/ i \in 1 .. k - 1
      BY <2>1
    <3> QED
      BY <2>1, <2>2, <2>4, <3>1
  <2>6. StackShape'
    BY <1>1, <2>1, <2>5 DEF StackShape, FrameShape
  <2> QED
    BY <1>1, <1>3, <2>6, ReleasedShape, RunShape DEF Running
<1> QED
  BY <1>2, <1>3 DEF run_return

-----------------------------------------------------------------------------
(* Declarations are never changed. *)
LEMMA ProgramStays ==
  ASSUME [ObjectNext]_object_vars
  PROVE  program' = program
<1>1. CASE UNCHANGED object_vars
  BY <1>1 DEF object_vars, layout_vars
<1>2. CASE yyparse \/ CompileClass \/ WriteBitcodeToFile
  BY <1>2 DEF yyparse, CompileClass, WriteBitcodeToFile, ClassCodegen, exec_def_class_codegen,
              read_junk, getFieldDef, makeKlassDef
<1>3. CASE CompileFunction
  BY <1>3 DEF CompileFunction, begin_function, exec_value, exec_def_var_codegen,
              exec_new_class_codegen, exec_get_var_codegen, exec_set_var_codegen,
              exec_get_member_var_codegen, exec_set_member_var_codegen,
              exec_get_array_var_codegen, exec_set_array_var_codegen, exec_print_codegen,
              exec_call_func_codegen, exec_call_method_codegen, makeReturn,
              Stop, Emit, layout_vars
<1>4. CASE Run
  BY <1>4 DEF Run, run_def, run_new, run_simple, run_get, run_set, run_print, run_call,
              run_send, run_return, Wrong, Still, layout_vars
<1> QED
  BY <1>1, <1>2, <1>3, <1>4 DEF ObjectNext

(* Only makeReturn writes the method array, at the end of main. *)
LEMMA SlotsStay ==
  ASSUME ShapeInv, [ObjectNext]_object_vars
  PROVE  \/ UNCHANGED <<pos, slots>>
         \/ program[pos].op = "DEF_CLASS" /\ pos' = pos + 1 /\ UNCHANGED slots
         \/ /\ pos \in Callables /\ n # 0 /\ pos' = pos + 1
            /\ slots' = IF program[pos].op = "DEF_FUNC" /\ program[pos].sym = Main
                        THEN setFuncPtrArry ELSE slots
<1>1. CASE UNCHANGED object_vars
  BY <1>1 DEF object_vars, layout_vars, compile_vars
<1>2. CASE yyparse \/ WriteBitcodeToFile
  BY <1>2 DEF yyparse, WriteBitcodeToFile, compile_vars
<1>3. CASE CompileClass
  <2>1. ClassCodegen /\ UNCHANGED slots
    BY <1>3 DEF CompileClass, compile_vars
  <2>2. CASE exec_def_class_codegen \/ read_junk \/ getFieldDef
    BY <2>1, <2>2 DEF exec_def_class_codegen, read_junk, getFieldDef, Fail
  <2>3. CASE makeKlassDef
    <3>1. program[pos].op = "DEF_CLASS"
      BY <2>3 DEF makeKlassDef, ShapeInv, IInv, Climbing
    <3> QED
      BY <2>1, <2>3, <3>1 DEF makeKlassDef, Fail, NextDeclaration
  <2> QED
    BY <2>1, <2>2, <2>3 DEF ClassCodegen
<1>4. CASE makeReturn
  <2>1. pos \in Callables /\ n # 0
    BY <1>4 DEF makeReturn, ShapeInv, Progress
  <2> QED
    BY <1>4, <2>1 DEF makeReturn, Stop, Fail, compile_vars, NextDeclaration, Here
<1>5. CASE CompileFunction /\ ~makeReturn
  BY <1>5 DEF CompileFunction, begin_function, exec_value, exec_def_var_codegen,
              exec_new_class_codegen, exec_get_var_codegen, exec_set_var_codegen,
              exec_get_member_var_codegen, exec_set_member_var_codegen,
              exec_get_array_var_codegen, exec_set_array_var_codegen, exec_print_codegen,
              exec_call_func_codegen, exec_call_method_codegen,
              Stop, Fail, Emit, layout_vars, compile_vars
<1>6. CASE Run
  BY <1>6 DEF Run, run_def, run_new, run_simple, run_get, run_set, run_print, run_call,
              run_send, run_return, Wrong, Still, layout_vars, compile_vars
<1> QED
  BY <1>1, <1>2, <1>3, <1>4, <1>5, <1>6 DEF ObjectNext

(* It has the last method a class got since it was compiled. *)
LEMMA MethodMap ==
  ASSUME ShapeInv, NEW k, MethodsSince(k) # {}
  PROVE  method_map(k) \in MethodsSince(k) /\ method_map(k) \in Callables
<1>1. MethodsSince(k) \subseteq Callables
  BY DEF MethodsSince, ShapeInv, Progress
<1>2. MethodsSince(k) \subseteq 1 .. Len(program) /\ Len(program) \in Nat
  BY <1>1, PosFacts DEF Callables
<1>3. Latest(MethodsSince(k)) \in MethodsSince(k)
  BY <1>2, LatestIn
<1>4. method_map(k) = Latest(MethodsSince(k))
  BY DEF method_map, Latest
<1> QED
  BY <1>1, <1>3, <1>4

LEMMA StepSlots ==
  ASSUME ShapeInv, SlotsShape, [ObjectNext]_object_vars
  PROVE  SlotsShape'
<1>1. program' = program
  BY ProgramStays
<1>2. ASSUME NEW row \in DOMAIN setFuncPtrArry
      PROVE  setFuncPtrArry[row] \in Callables
  <2>1. \E k \in WithMethod : getDefId(k) = row
    BY DEF setFuncPtrArry
  <2>2. PICK k \in WithMethod : setFuncPtrArry[row] = method_map(k)
    BY <2>1 DEF setFuncPtrArry
  <2> QED
    BY <2>2, MethodMap DEF WithMethod
<1>3. slots' = slots \/ slots' = setFuncPtrArry
  BY SlotsStay
<1> QED
  BY <1>1, <1>2, <1>3 DEF SlotsShape, Callables

LEMMA InitShape ==
  ASSUME ObjectInit
  PROVE  ShapeInv
<1>1. /\ NothingCompiled /\ phase = "parse" /\ n = 0 /\ ret = "none"
      /\ DOMAIN vars = {} /\ DOMAIN code = {} /\ heap = <<>> /\ stack = <<>>
      /\ pos = 1 /\ at = 0 /\ DOMAIN klass_def_map = {}
  BY DEF ObjectInit, EmptyMap, NothingCompiled
<1>2. IInv
  BY <1>1, InitIInv
<1>3. IsSequence(<<>>) /\ Len(<<>>) = 0
  <2>1. <<>> \in Seq({})
    OBVIOUS
  <2> QED
    BY <2>1, SequenceOver
<1>4. Progress
  <2>1. ClassesBefore(program, pos) = {}
    BY <1>1 DEF ClassesBefore
  <2>2. {j \in Callables : j < pos \/ (j = pos /\ n # 0)} = {}
    BY <1>1 DEF Callables
  <2> QED
    BY <1>1, <2>1, <2>2 DEF Progress
<1>5. CodeShape /\ VarsShape /\ HeapShape /\ StackShape
  BY <1>1, <1>3 DEF CodeShape, VarsShape, HeapShape, StackShape
<1> QED
  BY <1>2, <1>4, <1>5 DEF ShapeInv

LEMMA StepShapeInv ==
  ASSUME ShapeInv, SlotsShape, [ObjectNext]_object_vars
  PROVE  ShapeInv'
<1>1. CASE UNCHANGED object_vars
  <2>1. UNCHANGED <<program, phase, pos, at, climb, klass_def_map, n, ret, vars, code,
                    heap, stack>>
    BY <1>1 DEF object_vars, layout_vars, compile_vars, run_vars
  <2>2. IInv' /\ CodeShape' /\ VarsShape' /\ HeapShape' /\ StackShape'
    BY <2>1, IInvStays, CodeShapeSame, VarsShapeSame, HeapSame, StackShapeSame
    DEF ShapeInv
  <2>3. Progress'
    BY <2>1 DEF ShapeInv, Progress, Callables, Here
  <2> QED
    BY <2>2, <2>3 DEF ShapeInv
<1>2. CASE CompileFunction
  BY <1>2, BeginFunctionShape, ValueShape, DefVarShape, NewClassShape,
     VariableAccessShape, MemberAccessShape, ElementAccessShape, CallShape, ReturnShape
  DEF CompileFunction
<1>3. CASE Run
  BY <1>3, AllocateShape, SimpleShape, SetShape, CallsShape, ReturnsShape DEF Run
<1> QED
  BY <1>1, <1>2, <1>3, ParseShape, ClassShape, StartShape DEF ObjectNext

LEMMA Objects_Shape == ObjectSpec => [](ShapeInv /\ SlotsShape)
<1>1. ObjectInit => ShapeInv /\ SlotsShape
  BY InitShape DEF ObjectInit, EmptyMap, SlotsShape
<1>2. ShapeInv /\ SlotsShape /\ [ObjectNext]_object_vars => (ShapeInv /\ SlotsShape)'
  BY StepShapeInv, StepSlots
<1> QED
  BY <1>1, <1>2, PTL DEF ObjectSpec

(***************************************************************************)
(* Whatever the program, compilation and the running program keep to their *)
(* shape: code and frames belong to functions of the program, a variable   *)
(* of the shared map to one that has been compiled, a frame is at an       *)
(* instruction or at the end, and memory has a cell for each of its types. *)
(***************************************************************************)
THEOREM Objects_TypeOK == ObjectSpec => []ObjectTypeOK
<1>1. ShapeInv => ObjectTypeOK
  BY ShapeTypeOK
<1> QED
  BY <1>1, Objects_Shape, PTL
-----------------------------------------------------------------------------
(***************************************************************************)
(* Soundness of the type discipline.  For a well-typed program: climbs go  *)
(* to earlier declarations, the shared map agrees with the text on every   *)
(* name in scope, instructions are those their nodes call for; the map of  *)
(* classes, and with it every layout in the code, is never overwritten.    *)
(***************************************************************************)
ClimbsDown ==
  at # 0 => /\ \A i \in DOMAIN climb : at <= i
            /\ Storable(climb[at])

NamesBound ==
  n # 0 =>
    \A v \in Names(program, pos, n) :
      /\ v \in DOMAIN vars
      /\ vars[v].home = pos
      /\ vars[v].slot = Binder(program, pos, n, v)
      /\ vars[v].type = TypeOfName(program, pos, n, v)

ValueKnown ==
  n # 0 /\ Makers(program, pos, n) # {} => ret = LLVMType(ValueType(program, pos, n))

(* The row of class k in the method array when declaration i is compiled. *)
Row(p, i, k) == Cardinality({j \in ClassesBefore(p, i) : KlassRank[j] < KlassRank[k]})

(* The instruction that node m of declaration f calls for. *)
Allocates(ins, type) ==
  /\ ins.type = type
  /\ ins.types = TypesOf(type)
  /\ type.kind = "KLASS" => type.klass \in DOMAIN klass_def_map
  /\ ClassesFirst(program) => ins.id = IdOf(type)

Translates(f, m, ins) ==
  LET node == program[f].body[m]
      type == TypeOfName(program, f, m, node.sym)
      slot == Binder(program, f, m, node.sym)
  IN  /\ node.op = "VALUEDATA" => ins.i = "const" /\ ins.val = node.val
      /\ node.op = "DEF_VAR" => ins.i = "def" /\ ins.slot = m /\ Allocates(ins, node.type)
      /\ node.op = "NEW_CLASS" => ins.i = "new" /\ Allocates(ins, node.type)
      /\ node.op = "GET_VAR" => ins.i = "load" /\ ins.slot = slot
      /\ node.op = "SET_VAR" => ins.i = "store" /\ ins.slot = slot
      /\ node.op \in {"GET_MEMBER_VAR", "SET_MEMBER_VAR"} =>
           /\ ins.i = IF node.op = "GET_MEMBER_VAR" THEN "get" ELSE "set"
           /\ ins.slot = slot
           /\ ins.idx = FieldIndex(type.klass, node.member)
           /\ ins.types = FieldTypes(type.klass)
      /\ node.op \in {"GET_ARRAY_VAR", "SET_ARRAY_VAR"} =>
           /\ ins.i = IF node.op = "GET_ARRAY_VAR" THEN "get" ELSE "set"
           /\ ins.slot = slot
           /\ ins.idx = node.index + 1
           /\ ins.types = ElemTypes(type)
      /\ node.op = "PRINTDATA" =>
           ins.i = "print" /\ ins.type = LLVMType(ValueType(program, f, m))
      /\ node.op = "CALL_FUNC" => ins.i = "call" /\ ins.to = Callee(program, node.sym)
      /\ node.op = "CALL_METHOD" =>
           /\ ins.i = "send"
           /\ ins.slot = Binder(program, f, m, node.reciever)
           /\ ins.row = Row(program, f, TypeOfName(program, f, m, node.reciever).klass)
           /\ ins.as = Callee(program, node.sym)

CodeTranslates ==
  \A f \in DOMAIN code : \A m \in 1 .. Len(code[f]) : Translates(f, m, code[f][m])

(* Memory: what a block is, and what a value of a type points to. *)
BlockTyped(x) ==
  LET type == x.type IN
  /\ type.kind \in {"KLASS", "ARRAY"}
  /\ type.kind = "KLASS" =>
       /\ type = KlassType(type.klass)
       /\ type.klass \in DOMAIN klass_def_map
       /\ x.types = FieldTypes(type.klass)
       /\ x.home = 0
       /\ x.live = TRUE
       /\ ClassesFirst(program) => x.cells[1] = Number(getDefId(type.klass))
  /\ type.kind = "ARRAY" => x.types = ElemTypes(type)

BlocksTyped == \A b \in 1 .. Len(heap) : BlockTyped(heap[b])

PointsTo(value, type, depth) ==
  \E b \in 1 .. Len(heap) :
    /\ value = Ref(b)
    /\ type.kind = "KLASS" =>
         /\ heap[b].type.kind = "KLASS"
         /\ type.klass \in Ancestors(program, heap[b].type.klass)
    /\ type.kind # "KLASS" =>
         heap[b].type = type /\ heap[b].home = depth /\ heap[b].live = TRUE

Binders(f, m) ==
  {h \in 1 .. m - 1 : program[f].body[h].op = "DEF_VAR"}
    \cup {-j : j \in 1 .. Len(ParamsOf(program[f]))}

EnvHolds(f, m, env, depth) ==
  \A b \in Binders(f, m) :
    LET type == TypeOfBinder(program, f, b) IN
    /\ b \in DOMAIN env
    /\ type.kind \in {"KLASS", "ARRAY"} => PointsTo(env[b], type, depth)

AccHolds(f, m, acc) ==
  /\ ValueType(program, f, m).kind = "KLASS" =>
       PointsTo(acc, ValueType(program, f, m), 0)
  /\ m > 1 /\ program[f].body[m - 1].op = "VALUEDATA" =>
       acc = program[f].body[m - 1].val

(* A frame that is not on top is in the call that made the next one. *)
Calls(caller, callee) ==
  LET node == program[caller.fn].body[caller.pc - 1] IN
  /\ caller.pc > 1
  /\ node.op \in {"CALL_FUNC", "CALL_METHOD"}
  /\ Callee(program, node.sym) = callee.fn

FramesTyped ==
  phase = "running" =>
    /\ \A d \in 1 .. Len(stack) : EnvHolds(stack[d].fn, stack[d].pc, stack[d].env, d)
    /\ \A d \in 1 .. Len(stack) - 1 : Calls(stack[d], stack[d + 1])
    /\ AccHolds(top.fn, top.pc, top.acc)

Sound ==
  /\ phase \notin Failures
  /\ phase \in {"parse", "codegen"} => heap = <<>>
  /\ ClimbsDown
  /\ NamesBound /\ ValueKnown /\ CodeTranslates
  /\ FramesTyped

(* After main, the row a class has there leads to its method; and nothing  *)
(* runs that is declared later.                                            *)
SlotsFollow ==
  pos > Callee(program, Main) =>
    \A g \in Decls(program, "DEF_METHOD") : g < Callee(program, Main) =>
      LET row == Row(program, Callee(program, Main), program[g].klass)
      IN  row \in DOMAIN slots /\ slots[row] = g

MainIsLast == \A d \in 1 .. Len(stack) : stack[d].fn <= Callee(program, Main)

Placed == SlotsFollow /\ MainIsLast

(* Failures that are not the text's: junk in memory, too many classes. *)
Excused ==
  \/ JunkMemory /\ phase = "crash"
  \/ ~RowsSuffice(program) /\ phase = "undefined"

SoundInv ==
  /\ ShapeInv /\ SlotsShape
  /\ WellTyped(program) /\ RowsStay(program) => /\ BlocksTyped /\ Placed
                                                /\ Sound \/ Excused
-----------------------------------------------------------------------------
(* The text of a well-typed program.  Names tell its declarations apart.   *)
LEMMA UniqueNames ==
  ASSUME NEW p \in Programs, WellTyped(p), NEW i \in 1 .. Len(p)
  PROVE  /\ search_ast_by_sym(p, p[i].sym) = i
         /\ Callee(p, p[i].sym) = i
         /\ p[i].op = "DEF_CLASS" => DeclOf(p, p[i].sym) = i
<1>1. \A j \in 1 .. Len(p) : p[j].sym = p[i].sym => j = i
  BY DEF WellTyped
<1>2. Len(p) \in Nat
  BY ProgramTypes
<1>3. FirstBearing(p, p[i].sym) = {i}
  <2>1. \A j \in 1 .. i - 1 : j \in 1 .. Len(p) /\ j # i
    BY <1>2
  <2> QED
    BY <1>1, <2>1 DEF FirstBearing
<1>4. search_ast_by_sym(p, p[i].sym) = i
  BY <1>3 DEF search_ast_by_sym
<1>5. Callee(p, p[i].sym) = i
  BY <1>1 DEF Callee
<1>6. p[i].op = "DEF_CLASS" => DeclOf(p, p[i].sym) = i
  BY <1>1 DEF DeclOf, Decls
<1> QED
  BY <1>4, <1>5, <1>6

LEMMA ClassText ==
  ASSUME NEW p \in Programs, WellTyped(p), NEW i \in Decls(p, "DEF_CLASS")
  PROVE  /\ i \in 1 .. Len(p) /\ Len(p) \in Nat
         /\ p[i].op = "DEF_CLASS"
         /\ p[i].sym \in Klass /\ p[i].sym # Nobody
         /\ DeclOf(p, p[i].sym) = i
         /\ p[i].super \in ClassesBefore(p, i) \cup {Nobody}
         /\ SuperOf(p, i) = p[i].super
         /\ p[i].def_vars \in FieldSeq /\ Own(p, i) = p[i].def_vars
         /\ \A j \in 1 .. Len(p[i].def_vars) :
              /\ p[i].def_vars[j].kind \in Integral \cup {"DOUBLE", "STRING"}
              /\ \A h \in 1 .. j - 1 : p[i].def_vars[h].name # p[i].def_vars[j].name
<1>1. i \in 1 .. Len(p) /\ p[i].op = "DEF_CLASS"
  BY DEF Decls
<1>2. Len(p) \in Nat /\ p[i].sym \in Klass
      /\ Own(p, i) \in FieldSeq /\ Own(p, i) = p[i].def_vars /\ SuperOf(p, i) = p[i].super
  BY <1>1, ProgramTypes DEF Own, SuperOf
<1>3. p[i].sym # Nobody
  BY <1>2, LayoutAssumption DEF None, Nobody
<1>4. ClassTypes(p, i)
  BY <1>1 DEF WellTyped
<1>5. DeclOf(p, p[i].sym) = i
  BY <1>1, UniqueNames
<1> QED
  BY <1>1, <1>2, <1>3, <1>4, <1>5 DEF ClassTypes

AllClasses(p) == ClassesBefore(p, Len(p) + 1)

LEMMA ClassNames ==
  ASSUME NEW p \in Programs, WellTyped(p), NEW i \in 1 .. Len(p) + 1,
         NEW k \in ClassesBefore(p, i)
  PROVE  /\ DeclOf(p, k) \in Decls(p, "DEF_CLASS")
         /\ DeclOf(p, k) \in 1 .. i - 1
         /\ p[DeclOf(p, k)].sym = k
         /\ k \in AllClasses(p)
         /\ k \in Klass /\ k # Nobody
<1>1. PICK j \in Decls(p, "DEF_CLASS") \cap (1 .. i - 1) : p[j].sym = k
  BY DEF ClassesBefore
<1>2. DeclOf(p, k) = j /\ k \in Klass /\ k # Nobody
  BY <1>1, ClassText
<1>3. Len(p) \in Nat /\ j \in 1 .. Len(p)
  BY <1>1, ClassText
<1>4. j \in 1 .. (Len(p) + 1) - 1
  BY <1>3
<1>5. k \in AllClasses(p)
  BY <1>1, <1>4 DEF AllClasses, ClassesBefore
<1> QED
  BY <1>1, <1>2, <1>5

LEMMA ClassesGrow ==
  ASSUME NEW p, Len(p) \in Nat, NEW i \in 1 .. Len(p) + 1, NEW j \in 1 .. Len(p) + 1, i <= j
  PROVE  ClassesBefore(p, i) \subseteq ClassesBefore(p, j)
<1>1. 1 .. i - 1 \subseteq 1 .. j - 1
  OBVIOUS
<1> QED
  BY <1>1 DEF ClassesBefore

(* The superclass of a class. *)
SuperOfClass(p, k) == p[DeclOf(p, k)].super

LEMMA SuperText ==
  ASSUME NEW p \in Programs, WellTyped(p), NEW k \in AllClasses(p),
         SuperOfClass(p, k) # Nobody
  PROVE  /\ SuperOfClass(p, k) \in AllClasses(p)
         /\ DeclOf(p, SuperOfClass(p, k)) < DeclOf(p, k)
         /\ SuperOfClass(p, k) \in ClassesBefore(p, DeclOf(p, k))
         /\ SuperNode(p, DeclOf(p, k)) = DeclOf(p, SuperOfClass(p, k))
<1> DEFINE i == DeclOf(p, k)
           s == SuperOfClass(p, k)
<1>1. Len(p) \in Nat /\ Len(p) + 1 \in 1 .. Len(p) + 1
  BY ProgramTypes
<1>2. i \in Decls(p, "DEF_CLASS")
  BY <1>1, ClassNames DEF AllClasses
<1> HIDE DEF i
<1>3. s \in ClassesBefore(p, i) /\ i \in 1 .. Len(p) /\ SuperOf(p, i) = s
  BY <1>2, ClassText DEF SuperOfClass, i
<1> HIDE DEF s
<1>4. i \in 1 .. Len(p) + 1
  BY <1>1, <1>3
<1>5. /\ s \in AllClasses(p) /\ DeclOf(p, s) \in 1 .. i - 1
      /\ p[DeclOf(p, s)].sym = s /\ DeclOf(p, s) \in Decls(p, "DEF_CLASS")
  BY <1>3, <1>4, ClassNames
<1>6. SuperNode(p, i) = DeclOf(p, s)
  BY <1>3, <1>5, UniqueNames DEF SuperNode, Decls
<1>7. DeclOf(p, s) < i
  BY <1>3, <1>5
<1> QED
  BY <1>3, <1>5, <1>6, <1>7 DEF i, s

(* Ancestors. *)
Upward(p, S) == \A c \in S : SuperOfClass(p, c) \in S \cup {Nobody}

LEMMA AncestorsLeast ==
  ASSUME NEW p, NEW k, NEW S, S \subseteq AllClasses(p), k \in S, Upward(p, S)
  PROVE  Ancestors(p, k) \subseteq S
BY DEF Ancestors, AllClasses, Upward, SuperOfClass

LEMMA AncestorsUp ==
  ASSUME NEW p, NEW k \in AllClasses(p)
  PROVE  /\ k \in Ancestors(p, k)
         /\ Ancestors(p, k) \subseteq AllClasses(p)
         /\ Upward(p, AllClasses(p)) => Upward(p, Ancestors(p, k))
<1>1. k \in Ancestors(p, k) /\ Ancestors(p, k) \subseteq AllClasses(p)
  BY DEF Ancestors, AllClasses
<1>2. ASSUME Upward(p, AllClasses(p)), NEW c \in Ancestors(p, k),
             SuperOfClass(p, c) # Nobody
      PROVE  SuperOfClass(p, c) \in Ancestors(p, k)
  <2>1. SuperOfClass(p, c) \in AllClasses(p)
    BY <1>1, <1>2 DEF Upward
  <2> SUFFICES ASSUME NEW S \in SUBSET AllClasses(p), k \in S, Upward(p, S)
               PROVE  SuperOfClass(p, c) \in S
    BY <2>1 DEF Ancestors, AllClasses, Upward, SuperOfClass
  <2>2. c \in S
    BY AncestorsLeast
  <2> QED
    BY <1>2, <2>2 DEF Upward
<1> QED
  BY <1>1, <1>2 DEF Upward

LEMMA AllUpward ==
  ASSUME NEW p \in Programs, WellTyped(p)
  PROVE  Upward(p, AllClasses(p))
BY SuperText DEF Upward

LEMMA AncestorsTransitive ==
  ASSUME NEW p \in Programs, WellTyped(p), NEW k \in AllClasses(p),
         NEW a \in Ancestors(p, k), NEW b \in Ancestors(p, a)
  PROVE  b \in Ancestors(p, k)
<1>1. Ancestors(p, k) \subseteq AllClasses(p) /\ Upward(p, Ancestors(p, k))
  BY AncestorsUp, AllUpward
<1>2. Ancestors(p, a) \subseteq Ancestors(p, k)
  BY <1>1, AncestorsLeast
<1> QED
  BY <1>2

(* A class is its superclass's ancestors and itself. *)
LEMMA AncestorsOfSuper ==
  ASSUME NEW p \in Programs, WellTyped(p), NEW k \in AllClasses(p)
  PROVE  /\ SuperOfClass(p, k) = Nobody => Ancestors(p, k) = {k}
         /\ SuperOfClass(p, k) # Nobody =>
              Ancestors(p, k) = {k} \cup Ancestors(p, SuperOfClass(p, k))
<1> DEFINE s == SuperOfClass(p, k)
<1>1. k \in Ancestors(p, k) /\ Upward(p, Ancestors(p, k))
      /\ Ancestors(p, k) \subseteq AllClasses(p)
  BY AncestorsUp, AllUpward
<1>2. CASE s = Nobody
  <2>1. Upward(p, {k})
    BY <1>2 DEF Upward
  <2>2. Ancestors(p, k) \subseteq {k}
    BY <2>1, AncestorsLeast
  <2> QED
    BY <1>1, <1>2, <2>2
<1>3. CASE s # Nobody
  <2>1. s \in AllClasses(p)
    BY <1>3, SuperText
  <2>2. s \in Ancestors(p, s) /\ Upward(p, Ancestors(p, s))
        /\ Ancestors(p, s) \subseteq AllClasses(p)
    BY <2>1, AncestorsUp, AllUpward
  <2>3. Upward(p, {k} \cup Ancestors(p, s))
    BY <1>3, <2>2 DEF Upward
  <2>4. Ancestors(p, k) \subseteq {k} \cup Ancestors(p, s)
    BY <2>2, <2>3, AncestorsLeast
  <2>5. s \in Ancestors(p, k)
    BY <1>1, <1>3 DEF Upward
  <2>6. Ancestors(p, s) \subseteq Ancestors(p, k)
    BY <2>5, AncestorsTransitive
  <2> QED
    BY <1>1, <1>3, <2>4, <2>6
<1> QED
  BY <1>2, <1>3

(* An ancestor is declared no later. *)
LEMMA AncestorsEarlier ==
  ASSUME NEW p \in Programs, WellTyped(p), NEW k \in AllClasses(p),
         NEW a \in Ancestors(p, k)
  PROVE  DeclOf(p, a) <= DeclOf(p, k) /\ a \in AllClasses(p)
<1> DEFINE S == {c \in AllClasses(p) : DeclOf(p, c) <= DeclOf(p, k)}
<1>1. ASSUME NEW c \in AllClasses(p)
      PROVE  DeclOf(p, c) \in 1 .. Len(p) /\ Len(p) \in Nat
             /\ DeclOf(p, c) \in Decls(p, "DEF_CLASS")
  <2>1. Len(p) \in Nat /\ Len(p) + 1 \in 1 .. Len(p) + 1
    BY ProgramTypes
  <2>2. DeclOf(p, c) \in Decls(p, "DEF_CLASS")
    BY <2>1, ClassNames DEF AllClasses
  <2> QED
    BY <2>1, <2>2 DEF Decls
<1>2. k \in S
  BY <1>1
<1>3. Upward(p, S)
  <2> SUFFICES ASSUME NEW c \in S, SuperOfClass(p, c) # Nobody
               PROVE  SuperOfClass(p, c) \in S
    BY DEF Upward
  <2>1. SuperOfClass(p, c) \in AllClasses(p)
        /\ DeclOf(p, SuperOfClass(p, c)) < DeclOf(p, c)
    BY SuperText
  <2> QED
    BY <1>1, <2>1
<1> HIDE DEF S
<1>4. Ancestors(p, k) \subseteq S
  BY <1>2, <1>3, AncestorsLeast DEF S
<1> QED
  BY <1>4 DEF S

LEMMA AncestorSame ==
  ASSUME NEW p \in Programs, WellTyped(p), NEW k \in AllClasses(p),
         NEW a \in Ancestors(p, k), a # k
  PROVE  DeclOf(p, a) < DeclOf(p, k)
<1>1. Len(p) \in Nat /\ Len(p) + 1 \in 1 .. Len(p) + 1
  BY ProgramTypes
<1>2. a \in AllClasses(p) /\ DeclOf(p, a) <= DeclOf(p, k)
  BY AncestorsEarlier
<1>3. p[DeclOf(p, a)].sym = a /\ p[DeclOf(p, k)].sym = k
      /\ DeclOf(p, a) \in 1 .. Len(p) + 1 - 1 /\ DeclOf(p, k) \in 1 .. Len(p) + 1 - 1
  BY <1>1, <1>2, ClassNames DEF AllClasses
<1> QED
  BY <1>1, <1>2, <1>3
-----------------------------------------------------------------------------
(* The layouts of the classes of a well-typed program.                     *)
OwnVars(k) == program[DeclOf(program, k)].def_vars
Inherited(k) ==
  IF SuperOfClass(program, k) = Nobody THEN <<IdField>> ELSE Fields(SuperOfClass(program, k))

LEMMA CompiledClass ==
  ASSUME ShapeInv, WellTyped(program), NEW k \in DOMAIN klass_def_map
  PROVE  /\ k \in AllClasses(program)
         /\ DeclOf(program, k) \in Decls(program, "DEF_CLASS") /\ DeclOf(program, k) < pos
         /\ klass_def_map[k].decl = DeclOf(program, k)
         /\ Fields(k) = Inherited(k) \o OwnVars(k)
         /\ SuperOfClass(program, k) # Nobody => SuperOfClass(program, k) \in DOMAIN klass_def_map
<1> DEFINE d == DeclOf(program, k)
           s == SuperOfClass(program, k)
<1>1. /\ program \in Programs /\ pos \in 1 .. Len(program) + 1 /\ Len(program) \in Nat
      /\ DOMAIN klass_def_map = ClassesBefore(program, pos)
  BY PosFacts DEF ShapeInv, Progress
<1>2. /\ k \in AllClasses(program) /\ d \in Decls(program, "DEF_CLASS") /\ d \in 1 .. pos - 1
      /\ program[d].sym = k
  BY <1>1, ClassNames
<1>3. Solved(k) /\ IInv
  BY DEF ShapeInv, IInv, Solved
<1>4. klass_def_map[k].decl = d
  BY <1>1, <1>3, UniqueNames DEF Solved
<1>5. d < pos
  BY <1>1, <1>2
<1>6. SuperOf(program, d) = s /\ Own(program, d) = OwnVars(k)
  BY <1>1, <1>2, ClassText DEF SuperOfClass, OwnVars
<1>7. CASE s = Nobody
  <2>1. PICK F : Solution(program, F) /\ d \in DOMAIN F
    BY <1>3, <1>4 DEF Solved
  <2>2. Fields(k) = WithId(F[d])
    BY <1>3, <1>4, <2>1 DEF Solved
  <2>3. F[d] = OwnVars(k)
    BY <1>6, <1>7, <2>1 DEF Solution, None, Nobody
  <2> QED
    BY <1>2, <1>4, <1>5, <1>7, <2>2, <2>3 DEF WithId, Inherited
<1>8. CASE s # Nobody
  <2>1. /\ s \in AllClasses(program) /\ s \in ClassesBefore(program, d)
        /\ SuperNode(program, d) = DeclOf(program, s)
    BY <1>1, <1>2, <1>8, SuperText
  <2>2. s \in DOMAIN klass_def_map
    <3>1. d \in 1 .. Len(program) + 1 /\ d <= pos
      BY <1>1, <1>2, <1>5
    <3> QED
      BY <1>1, <2>1, <3>1, ClassesGrow
  <2>3. klass_def_map[s].decl = DeclOf(program, s)
    <3>1. Solved(s)
      BY <2>2, <1>3 DEF IInv
    <3> QED
      BY <1>1, <3>1, UniqueNames DEF Solved
  <2>4. Inherits(k, s)
    BY <1>4, <1>6, <2>1, <2>2, <2>3 DEF Inherits, SuperNode, SuperOfClass
  <2>5. Fields(k) = Fields(s) \o OwnVars(k)
    BY <1>3, <1>4, <2>2, <2>4, IInvExtends DEF LayoutsExtend, OwnVars
  <2> QED
    BY <1>2, <1>4, <1>5, <1>8, <2>2, <2>5 DEF Inherited
<1> QED
  BY <1>7, <1>8

LEMMA LayoutParts ==
  ASSUME ShapeInv, WellTyped(program), NEW k \in DOMAIN klass_def_map
  PROVE  /\ Len(Inherited(k)) \in Nat /\ Len(OwnVars(k)) \in Nat
         /\ Len(Inherited(k)) > 0
         /\ Len(Fields(k)) = Len(Inherited(k)) + Len(OwnVars(k))
         /\ \A i \in 1 .. Len(Inherited(k)) : Fields(k)[i] = Inherited(k)[i]
         /\ \A j \in 1 .. Len(OwnVars(k)) : Fields(k)[Len(Inherited(k)) + j] = OwnVars(k)[j]
<1> DEFINE E == [name : Member \cup {ID}, kind : Kinds]
           q == Inherited(k)
           o == OwnVars(k)
<1>1. IInv /\ program \in Programs
  BY PosFacts DEF ShapeInv
<1>2. \A c \in DOMAIN klass_def_map : Fields(c) \in Seq(E)
  BY <1>1 DEF IInv, LayoutShape, KlassDefs, Fields
<1>3. q \in Seq(E) /\ Len(q) > 0
  <2>1. CASE SuperOfClass(program, k) = Nobody
    <3>1. <<IdField>> \in Seq(E) /\ Len(<<IdField>>) > 0
      BY DEF IdField, Kinds
    <3> QED
      BY <2>1, <3>1 DEF Inherited
  <2>2. CASE SuperOfClass(program, k) # Nobody
    <3>1. PICK s \in DOMAIN klass_def_map : q = Fields(s)
      BY <2>2, CompiledClass DEF Inherited
    <3>2. Len(Fields(s)) >= 1 /\ IsSequence(Fields(s))
      BY <1>1, LayoutTypes
    <3>3. Len(Fields(s)) \in Nat
      BY <3>2, SequenceDomain
    <3>4. Fields(s) \in Seq(E)
      BY <1>2
    <3> HIDE DEF E, q
    <3> QED
      BY <3>1, <3>2, <3>3, <3>4
  <2> QED
    BY <2>1, <2>2
<1>4. o \in FieldSeq
  BY <1>1, CompiledClass, ClassText DEF OwnVars
<1>5. FieldDefElem \subseteq E
  BY DEF FieldDefElem
<1>6. Fields(k) = q \o o
  BY CompiledClass
<1> HIDE DEF E, q, o
<1>7. o \in Seq(E)
  BY <1>4, <1>5, SeqMonotonic DEF FieldSeq
<1>8. /\ Len(q \o o) = Len(q) + Len(o) /\ Len(q) \in Nat /\ Len(o) \in Nat
      /\ \A i \in 1 .. Len(q) + Len(o) :
           (q \o o)[i] = IF i <= Len(q) THEN q[i] ELSE o[i - Len(q)]
  BY <1>3, <1>7, ConcatProperties
<1>9. \A i \in 1 .. Len(q) : (q \o o)[i] = q[i]
  BY <1>8
<1>10. \A j \in 1 .. Len(o) : (q \o o)[Len(q) + j] = o[j]
  <2> SUFFICES ASSUME NEW j \in 1 .. Len(o)
               PROVE  (q \o o)[Len(q) + j] = o[j]
    OBVIOUS
  <2>1. Len(q) + j \in 1 .. Len(q) + Len(o) /\ ~(Len(q) + j <= Len(q)) /\ (Len(q) + j) - Len(q) = j
    BY <1>8
  <2> QED
    BY <1>8, <2>1
<1> QED
  BY <1>3, <1>6, <1>8, <1>9, <1>10 DEF q, o

(* The layout of a class begins with that of each of its ancestors.        *)
Begins(a, k) ==
  /\ Len(Fields(a)) <= Len(Fields(k))
  /\ \A i \in 1 .. Len(Fields(a)) : Fields(k)[i] = Fields(a)[i]

LEMMA AncestorLayout ==
  ASSUME ShapeInv, WellTyped(program), NEW k \in DOMAIN klass_def_map,
         NEW a \in Ancestors(program, k)
  PROVE  a \in DOMAIN klass_def_map /\ Begins(a, k)
<1> DEFINE S == {c \in DOMAIN klass_def_map : Begins(c, k)}
<1>1. \A c \in DOMAIN klass_def_map : c \in AllClasses(program) /\ Len(Fields(c)) \in Nat
  BY CompiledClass, LayoutTypes, SequenceDomain DEF ShapeInv
<1>2. k \in S
  BY <1>1 DEF Begins
<1>3. Upward(program, S)
  <2> SUFFICES ASSUME NEW c \in S, SuperOfClass(program, c) # Nobody
               PROVE  SuperOfClass(program, c) \in S
    BY DEF Upward
  <2> DEFINE s == SuperOfClass(program, c)
  <2>1. s \in DOMAIN klass_def_map /\ Inherited(c) = Fields(s)
    BY CompiledClass DEF Inherited
  <2>2. /\ Len(Fields(s)) <= Len(Fields(c))
        /\ \A i \in 1 .. Len(Fields(s)) : Fields(c)[i] = Fields(s)[i]
    BY <2>1, LayoutParts
  <2>3. Begins(c, k)
    OBVIOUS
  <2>4. Len(Fields(s)) \in Nat /\ Len(Fields(c)) \in Nat /\ Len(Fields(k)) \in Nat
    BY <1>1, <2>1
  <2> HIDE DEF s
  <2>5. Begins(s, k)
    BY <2>2, <2>3, <2>4 DEF Begins
  <2> QED
    BY <2>1, <2>5 DEF s
<1> HIDE DEF S
<1>4. Ancestors(program, k) \subseteq S
  BY <1>1, <1>2, <1>3, AncestorsLeast DEF S
<1> QED
  BY <1>4 DEF S

(* The names of the fields of a class are its members and the number's.    *)
LEMMA MembersHaveFields ==
  ASSUME ShapeInv, WellTyped(program), NEW k \in DOMAIN klass_def_map,
         NEW m \in Members(program, k)
  PROVE  /\ \E i \in 1 .. Len(Fields(k)) : Fields(k)[i].name = m
         /\ m \in Member
<1>1. PICK a \in Ancestors(program, k) : m \in OwnMembers(program, a)
  BY DEF Members
<1>2. a \in DOMAIN klass_def_map /\ Begins(a, k)
  BY AncestorLayout
<1>3. PICK j \in 1 .. Len(OwnVars(a)) : OwnVars(a)[j].name = m
  BY <1>1 DEF OwnMembers, OwnVars
<1> DEFINE i == Len(Inherited(a)) + j
<1>4. i \in 1 .. Len(Fields(a)) /\ Fields(a)[i] = OwnVars(a)[j]
  BY <1>2, LayoutParts
<1>5. Len(Fields(k)) \in Nat /\ Len(Fields(a)) \in Nat
  BY <1>2, LayoutTypes, SequenceDomain DEF ShapeInv
<1>6. OwnVars(a) \in FieldSeq
  BY <1>2, CompiledClass, ClassText, PosFacts DEF OwnVars
<1>7. m \in Member
  <2> DEFINE o == OwnVars(a)
  <2>1. o \in Seq(FieldDefElem) /\ j \in 1 .. Len(o) /\ o[j].name = m
    BY <1>3, <1>6 DEF FieldSeq
  <2> HIDE DEF o
  <2>2. o[j] \in FieldDefElem
    BY <2>1
  <2> QED
    BY <2>1, <2>2 DEF FieldDefElem
<1> HIDE DEF i
<1>8. i \in 1 .. Len(Fields(k)) /\ Fields(k)[i].name = m
  BY <1>2, <1>3, <1>4, <1>5 DEF Begins
<1> QED
  BY <1>7, <1>8

FieldsNamed(k) ==
  \A i \in 1 .. Len(Fields(k)) :
    /\ Fields(k)[i].kind \in Integral \cup {"DOUBLE", "STRING"}
    /\ Fields(k)[i].name # ID => Fields(k)[i].name \in Members(program, k)

LEMMA FieldsHaveMembers ==
  ASSUME ShapeInv, WellTyped(program), NEW k \in DOMAIN klass_def_map
  PROVE  FieldsNamed(k)
<1> SUFFICES ASSUME ~FieldsNamed(k)
             PROVE  FALSE
  OBVIOUS
<1> DEFINE Bad == {c \in DOMAIN klass_def_map : ~FieldsNamed(c)}
           D == {DeclOf(program, c) : c \in Bad}
<1>1. \A c \in DOMAIN klass_def_map :
        /\ DeclOf(program, c) \in 1 .. Len(program)
        /\ c \in AllClasses(program)
  BY CompiledClass DEF Decls
<1>2. program \in Programs /\ Len(program) \in Nat
  BY PosFacts
<1>3. PICK c \in Bad : \A b \in Bad : DeclOf(program, c) <= DeclOf(program, b)
  <2>1. D \subseteq 1 .. Len(program) /\ D # {}
    BY <1>1
  <2> HIDE DEF D
  <2>2. PICK i \in D : \A j \in D : i <= j
    BY <1>2, <2>1, EarliestIn
  <2> QED
    BY <2>2 DEF D
<1> DEFINE q == Inherited(c)
           o == OwnVars(c)
<1>4. c \in DOMAIN klass_def_map /\ c \in AllClasses(program) /\ ~FieldsNamed(c)
  BY <1>1
<1>5. c \in Ancestors(program, c)
  BY <1>4, AncestorsUp
<1>6. \A j \in 1 .. Len(o) :
        /\ o[j].kind \in Integral \cup {"DOUBLE", "STRING"}
        /\ o[j].name \in Members(program, c)
  <2>1. DeclOf(program, c) \in Decls(program, "DEF_CLASS")
    BY <1>4, CompiledClass
  <2>2. \A j \in 1 .. Len(o) : o[j].kind \in Integral \cup {"DOUBLE", "STRING"}
    BY <1>2, <2>1, ClassText DEF OwnVars
  <2>3. \A j \in 1 .. Len(o) : o[j].name \in OwnMembers(program, c)
    BY DEF OwnMembers, OwnVars
  <2> QED
    BY <1>5, <2>2, <2>3 DEF Members
<1>7. \A i \in 1 .. Len(q) :
        /\ q[i].kind \in Integral \cup {"DOUBLE", "STRING"}
        /\ q[i].name # ID => q[i].name \in Members(program, c)
  <2>1. CASE SuperOfClass(program, c) = Nobody
    <3>1. q = <<IdField>>
      BY <2>1 DEF Inherited
    <3>2. \A i \in 1 .. Len(q) : q[i] = IdField
      BY <3>1
    <3> QED
      BY <3>2 DEF IdField, Integral
  <2>2. CASE SuperOfClass(program, c) # Nobody
    <3> DEFINE s == SuperOfClass(program, c)
    <3>1. s \in DOMAIN klass_def_map /\ q = Fields(s)
      BY <1>4, <2>2, CompiledClass DEF Inherited
    <3>2. DeclOf(program, s) < DeclOf(program, c)
      BY <1>2, <1>4, <2>2, SuperText
    <3>3. FieldsNamed(s)
      <4>1. DeclOf(program, s) \in Int /\ DeclOf(program, c) \in Int
        BY <1>1, <1>4, <3>1
      <4> QED
        BY <1>3, <3>1, <3>2, <4>1
    <3>4. Members(program, s) \subseteq Members(program, c)
      BY <1>2, <1>4, <2>2, AncestorsOfSuper DEF Members
    <3> QED
      BY <3>1, <3>3, <3>4 DEF FieldsNamed
  <2> QED
    BY <2>1, <2>2
<1>8. ASSUME NEW i \in 1 .. Len(Fields(c))
      PROVE  /\ Fields(c)[i].kind \in Integral \cup {"DOUBLE", "STRING"}
             /\ Fields(c)[i].name # ID => Fields(c)[i].name \in Members(program, c)
  <2>1. /\ Len(q) \in Nat /\ Len(o) \in Nat /\ Len(Fields(c)) = Len(q) + Len(o)
        /\ \A h \in 1 .. Len(q) : Fields(c)[h] = q[h]
        /\ \A j \in 1 .. Len(o) : Fields(c)[Len(q) + j] = o[j]
    BY <1>4, LayoutParts
  <2> HIDE DEF q, o
  <2>2. CASE i \in 1 .. Len(q)
    BY <1>7, <2>1, <2>2
  <2>3. CASE i \notin 1 .. Len(q)
    <3>1. PICK j \in 1 .. Len(o) : i = Len(q) + j
      <4>1. i - Len(q) \in 1 .. Len(o) /\ i = Len(q) + (i - Len(q))
        BY <2>1, <2>3
      <4> QED
        BY <4>1
    <3>2. Fields(c)[i] = o[j]
      BY <2>1, <3>1
    <3> QED
      BY <1>6, <3>2
  <2> QED
    BY <2>2, <2>3
<1> QED
  BY <1>4, <1>8 DEF FieldsNamed

(* A member's field is not the number's, and is where FieldIndex says.     *)
LEMMA MemberIndex ==
  ASSUME ShapeInv, WellTyped(program), NEW k \in DOMAIN klass_def_map,
         NEW m \in Members(program, k)
  PROVE  /\ getFieldDistance(Fields(k), m) # -1
         /\ FieldIndex(k, m) \in 2 .. Len(Fields(k))
         /\ Fields(k)[FieldIndex(k, m)].name = m
         /\ \A j \in 1 .. FieldIndex(k, m) - 1 : Fields(k)[j].name # m
         /\ Fields(k)[FieldIndex(k, m)].kind \in Integral \cup {"DOUBLE", "STRING"}
         /\ FieldTypes(k)[FieldIndex(k, m)] = LLVMType(Fields(k)[FieldIndex(k, m)])
<1> DEFINE f == Fields(k)
           S == {i \in 1 .. Len(f) : f[i].name = m}
<1>1. IInv
  BY DEF ShapeInv
<1>2. Len(f) \in Nat /\ f[1] = IdField
  BY <1>1, LayoutTypes, SequenceDomain
<1>3. S # {} /\ m \in Member
  BY MembersHaveFields
<1>4. PICK i \in S : \A j \in S : i <= j
  <2>1. S \subseteq 1 .. Len(f)
    OBVIOUS
  <2> HIDE DEF S, f
  <2> QED
    BY <1>2, <1>3, <2>1, EarliestIn
<1>5. i \in FirstsNamed(f, m)
  <2>1. \A j \in 1 .. i - 1 : j \in 1 .. Len(f) /\ ~(i <= j)
    BY <1>2
  <2> QED
    BY <1>4, <2>1 DEF FirstsNamed
<1>6. getFieldDistance(f, m) # -1
  <2> DEFINE c == CHOOSE j \in FirstsNamed(f, m) : TRUE
  <2>1. c \in FirstsNamed(f, m) /\ getFieldDistance(f, m) = c - 1
    BY <1>5 DEF getFieldDistance
  <2>2. c \in 1 .. Len(f)
    BY <2>1 DEF FirstsNamed
  <2> HIDE DEF c
  <2> QED
    BY <1>2, <2>1, <2>2
<1> HIDE DEF f
<1>7. /\ FieldIndex(k, m) \in 1 .. Len(f) /\ f[FieldIndex(k, m)].name = m
      /\ \A j \in 1 .. FieldIndex(k, m) - 1 : f[j].name # m
      /\ FieldTypes(k)[FieldIndex(k, m)] = LLVMType(f[FieldIndex(k, m)])
  BY <1>1, <1>6, FieldIndexIn DEF f
<1>8. FieldIndex(k, m) # 1
  BY <1>2, <1>3, <1>7, LayoutAssumption DEF IdField
<1>9. FieldIndex(k, m) \in 2 .. Len(f)
  BY <1>2, <1>7, <1>8
<1>10. f[FieldIndex(k, m)].kind \in Integral \cup {"DOUBLE", "STRING"}
  BY <1>7, FieldsHaveMembers DEF FieldsNamed, f
<1> QED
  BY <1>6, <1>7, <1>9, <1>10 DEF f

(* A member keeps its index, and what is stored there, in every subclass.  *)
LEMMA IndexInherited ==
  ASSUME ShapeInv, WellTyped(program), NEW k \in DOMAIN klass_def_map,
         NEW a \in Ancestors(program, k), NEW m \in Members(program, a)
  PROVE  /\ FieldIndex(k, m) = FieldIndex(a, m)
         /\ Fields(k)[FieldIndex(k, m)] = Fields(a)[FieldIndex(a, m)]
         /\ m \in Members(program, k)
<1> DEFINE i == FieldIndex(k, m)
           j == FieldIndex(a, m)
<1>1. a \in DOMAIN klass_def_map /\ Begins(a, k)
  BY AncestorLayout
<1>2. m \in Members(program, k)
  BY CompiledClass, AncestorsTransitive, PosFacts DEF Members
<1>3. /\ i \in 2 .. Len(Fields(k)) /\ Fields(k)[i].name = m
      /\ \A h \in 1 .. i - 1 : Fields(k)[h].name # m
  BY <1>2, MemberIndex
<1>4. /\ j \in 2 .. Len(Fields(a)) /\ Fields(a)[j].name = m
      /\ \A h \in 1 .. j - 1 : Fields(a)[h].name # m
  BY <1>1, MemberIndex
<1>5. Len(Fields(k)) \in Nat /\ Len(Fields(a)) \in Nat
  BY <1>1, LayoutTypes, SequenceDomain DEF ShapeInv
<1> HIDE DEF i, j
<1>6. Fields(k)[j] = Fields(a)[j]
  BY <1>1, <1>4, <1>5 DEF Begins
<1>7. ~(j < i)
  BY <1>3, <1>4, <1>6, <1>5
<1>8. ~(i < j)
  <2> SUFFICES ASSUME i < j
               PROVE  FALSE
    OBVIOUS
  <2>1. i \in 1 .. Len(Fields(a)) /\ i \in 1 .. j - 1
    BY <1>3, <1>4, <1>5
  <2>2. Fields(k)[i] = Fields(a)[i]
    BY <1>1, <2>1 DEF Begins
  <2> QED
    BY <1>3, <1>4, <2>1, <2>2
<1>9. i = j
  BY <1>3, <1>4, <1>5, <1>7, <1>8
<1> QED
  BY <1>2, <1>6, <1>9 DEF i, j

(* MemberKind: the uppermost declaration decides.                          *)
LEMMA MemberKindIs ==
  ASSUME ShapeInv, WellTyped(program), NEW k \in DOMAIN klass_def_map,
         NEW m \in Members(program, k)
  PROVE  MemberKind(program, k, m) = Fields(k)[FieldIndex(k, m)].kind
<1> DEFINE Owns(a) == /\ m \in OwnMembers(program, a)
                      /\ \A b \in Ancestors(program, a) \ {a} : m \notin OwnMembers(program, b)
           Some == {a \in Ancestors(program, k) : m \in OwnMembers(program, a)}
           D == {DeclOf(program, a) : a \in Some}
<1>1. program \in Programs /\ Len(program) \in Nat /\ k \in AllClasses(program)
  BY PosFacts, CompiledClass
<1>2. \A a \in Ancestors(program, k) :
        a \in DOMAIN klass_def_map /\ a \in AllClasses(program)
        /\ DeclOf(program, a) \in 1 .. Len(program)
  BY AncestorLayout, CompiledClass DEF Decls
<1>3. \E a \in Ancestors(program, k) : Owns(a)
  <2>1. D \subseteq 1 .. Len(program)
    BY <1>2
  <2>2. D # {}
    BY DEF Members
  <2>3. PICK i \in D : \A j \in D : i <= j
    <3> HIDE DEF D
    <3> QED
      BY <1>1, <2>1, <2>2, EarliestIn
  <2>4. PICK a \in Some : \A b \in Some : DeclOf(program, a) <= DeclOf(program, b)
    BY <2>3
  <2>5. ASSUME NEW b \in Ancestors(program, a) \ {a}
        PROVE  m \notin OwnMembers(program, b)
    <3>1. DeclOf(program, b) < DeclOf(program, a)
      BY <1>1, <1>2, AncestorSame
    <3>2. b \in Ancestors(program, k)
      BY <1>1, AncestorsTransitive
    <3>3. DeclOf(program, b) \in Int /\ DeclOf(program, a) \in Int
      BY <1>2, <3>2
    <3> QED
      BY <2>4, <3>1, <3>2, <3>3
  <2> QED
    BY <2>4, <2>5
<1> DEFINE a == CHOOSE a \in Ancestors(program, k) : Owns(a)
           vs == program[DeclOf(program, a)].def_vars
           c == CHOOSE j \in 1 .. Len(vs) : vs[j].name = m
<1>4. MemberKind(program, k, m) = vs[c].kind
  BY DEF MemberKind
<1>5. a \in Ancestors(program, k) /\ Owns(a)
  BY <1>3
<1> HIDE DEF a
<1>6. a \in DOMAIN klass_def_map /\ a \in AllClasses(program) /\ vs = OwnVars(a)
  BY <1>2, <1>5 DEF OwnVars
<1>7. c \in 1 .. Len(vs) /\ vs[c].name = m
  BY <1>5 DEF OwnMembers
<1> HIDE DEF c
<1>8. a \in Ancestors(program, a) /\ m \in Members(program, a)
  BY <1>5, <1>6, AncestorsUp DEF Members
<1> HIDE DEF vs
<1> DEFINE q == Inherited(a)
           i == FieldIndex(a, m)
<1>9. /\ Len(q) \in Nat /\ Len(vs) \in Nat /\ Len(Fields(a)) = Len(q) + Len(vs)
      /\ \A h \in 1 .. Len(q) : Fields(a)[h] = q[h]
      /\ \A j \in 1 .. Len(vs) : Fields(a)[Len(q) + j] = vs[j]
  BY <1>6, LayoutParts
<1>10. \A h \in 1 .. Len(q) : q[h].name # m
  <2>1. CASE SuperOfClass(program, a) = Nobody
    <3>1. \A h \in 1 .. Len(q) : q[h] = IdField
      BY <2>1 DEF Inherited
    <3>2. m # ID
      BY MembersHaveFields, LayoutAssumption
    <3> QED
      BY <3>1, <3>2 DEF IdField
  <2>2. CASE SuperOfClass(program, a) # Nobody
    <3> DEFINE s == SuperOfClass(program, a)
    <3>1. s \in DOMAIN klass_def_map /\ q = Fields(s)
      BY <1>6, <2>2, CompiledClass DEF Inherited
    <3>2. FieldsNamed(s)
      BY <3>1, FieldsHaveMembers
    <3>3. m # ID
      BY MembersHaveFields, LayoutAssumption
    <3>4. Ancestors(program, s) \subseteq Ancestors(program, a) \ {a}
      <4>1. Ancestors(program, s) \subseteq Ancestors(program, a)
        BY <1>1, <1>6, <2>2, AncestorsOfSuper
      <4>2. s \in AllClasses(program) /\ DeclOf(program, s) < DeclOf(program, a)
        BY <1>1, <1>6, <2>2, SuperText
      <4>3. a \in Ancestors(program, s) => DeclOf(program, a) <= DeclOf(program, s)
        BY <1>1, <4>2, AncestorsEarlier
      <4>4. DeclOf(program, s) \in Int /\ DeclOf(program, a) \in Int
        BY <1>2, <1>5, <3>1, CompiledClass DEF Decls
      <4> QED
        BY <4>1, <4>2, <4>3, <4>4
    <3>5. m \notin Members(program, s)
      BY <1>5, <3>4 DEF Members
    <3> QED
      BY <3>1, <3>2, <3>3, <3>5 DEF FieldsNamed
  <2> QED
    BY <2>1, <2>2
<1>11. /\ i \in 2 .. Len(Fields(a)) /\ Fields(a)[i].name = m
  BY <1>6, <1>8, MemberIndex
<1> HIDE DEF q, i
<1>12. PICK j \in 1 .. Len(vs) : i = Len(q) + j
  <2>1. i \notin 1 .. Len(q)
    BY <1>9, <1>10, <1>11
  <2>2. i - Len(q) \in 1 .. Len(vs) /\ i = Len(q) + (i - Len(q))
    BY <1>9, <1>11, <2>1
  <2> QED
    BY <2>2
<1>13. vs[j].name = m /\ Fields(a)[i] = vs[j]
  BY <1>9, <1>11, <1>12
<1>14. j = c
  <2>1. \A x \in 1 .. Len(vs) : \A h \in 1 .. x - 1 : vs[h].name # vs[x].name
    BY <1>1, <1>6, CompiledClass, ClassText DEF OwnVars
  <2>2. ~(j < c) /\ ~(c < j)
    BY <1>7, <1>9, <1>13, <2>1
  <2> QED
    BY <1>7, <1>9, <2>2
<1>15. Fields(k)[FieldIndex(k, m)] = Fields(a)[i]
  BY <1>5, <1>8, IndexInherited DEF i
<1> QED
  BY <1>4, <1>13, <1>14, <1>15
-----------------------------------------------------------------------------
(* What the text says of names and values, one node after the other.       *)
LEMMA LatestIs ==
  ASSUME NEW S, S \subseteq Int, NEW x \in S, \A y \in S : y <= x
  PROVE  Latest(S) = x
<1>1. \A z \in S : (\A y \in S : y <= z) => z = x
  OBVIOUS
<1> QED
  BY <1>1 DEF Latest

LEMMA DefinersStep ==
  ASSUME NEW p, NEW i, NEW m \in Nat \ {0}, NEW v
  PROVE  Definers(p, i, m + 1, v) =
           Definers(p, i, m, v)
             \cup (IF p[i].body[m].op = "DEF_VAR" /\ p[i].body[m].sym = v THEN {m} ELSE {})
<1>1. 1 .. (m + 1) - 1 = (1 .. m - 1) \cup {m}
  OBVIOUS
<1> HIDE DEF Definers
<1> QED
  BY <1>1 DEF Definers

LEMMA NamesStep ==
  ASSUME NEW p, NEW i, NEW m \in Nat \ {0}
  PROVE  Names(p, i, m + 1) =
           Names(p, i, m)
             \cup (IF p[i].body[m].op = "DEF_VAR" THEN {p[i].body[m].sym} ELSE {})
<1>1. 1 .. (m + 1) - 1 = (1 .. m - 1) \cup {m}
  OBVIOUS
<1> DEFINE P == {ParamsOf(p[i])[j].name : j \in 1 .. Len(ParamsOf(p[i]))}
           G(x) == {g \in 1 .. x - 1 : p[i].body[g].op = "DEF_VAR"}
           V(x) == {p[i].body[h].sym : h \in G(x)}
<1>2. \A x : Names(p, i, x) = P \cup V(x)
  BY DEF Names
<1>3. G(m + 1) = G(m) \cup (IF p[i].body[m].op = "DEF_VAR" THEN {m} ELSE {})
  BY <1>1
<1>4. V(m + 1) = V(m) \cup (IF p[i].body[m].op = "DEF_VAR" THEN {p[i].body[m].sym} ELSE {})
  BY <1>3
<1> HIDE DEF P, V
<1> QED
  BY <1>2, <1>4

LEMMA BinderStep ==
  ASSUME NEW p, NEW i, NEW m \in Nat \ {0}, NEW v
  PROVE  IF p[i].body[m].op = "DEF_VAR" /\ p[i].body[m].sym = v
         THEN /\ Binder(p, i, m + 1, v) = m
              /\ TypeOfName(p, i, m + 1, v) = p[i].body[m].type
         ELSE /\ Binder(p, i, m + 1, v) = Binder(p, i, m, v)
              /\ TypeOfName(p, i, m + 1, v) = TypeOfName(p, i, m, v)
<1> DEFINE D == Definers(p, i, m + 1, v)
<1>1. CASE p[i].body[m].op = "DEF_VAR" /\ p[i].body[m].sym = v
  <2>1. D = Definers(p, i, m, v) \cup {m}
    BY <1>1, DefinersStep
  <2>2. \A y \in Definers(p, i, m, v) : y \in Nat /\ y < m
    BY DEF Definers
  <2>3. D \subseteq Int /\ m \in D /\ \A y \in D : y <= m
    BY <2>1, <2>2
  <2> HIDE DEF D
  <2>4. Latest(D) = m
    BY <2>3, LatestIs
  <2>5. Binder(p, i, m + 1, v) = m
    BY <2>3, <2>4 DEF Binder, D
  <2> QED
    BY <1>1, <2>5 DEF TypeOfName, TypeOfBinder
<1>2. CASE ~(p[i].body[m].op = "DEF_VAR" /\ p[i].body[m].sym = v)
  <2>1. Definers(p, i, m + 1, v) = Definers(p, i, m, v) \cup {}
    BY <1>2, DefinersStep, Zenon
  <2>2. Definers(p, i, m + 1, v) = Definers(p, i, m, v)
    BY <2>1
  <2>3. Binder(p, i, m + 1, v) = Binder(p, i, m, v)
    BY <2>2 DEF Binder
  <2> QED
    BY <1>2, <2>3 DEF TypeOfName
<1> QED
  BY <1>1, <1>2

LEMMA MakersStep ==
  ASSUME NEW p, NEW i, NEW m \in Nat \ {0}
  PROVE  IF p[i].body[m].op \notin Assignments
         THEN /\ Makers(p, i, m + 1) # {}
              /\ ValueType(p, i, m + 1) = NodeType(p, i, m)
         ELSE /\ Makers(p, i, m + 1) = Makers(p, i, m)
              /\ ValueType(p, i, m + 1) = ValueType(p, i, m)
<1> DEFINE M == Makers(p, i, m + 1)
<1>1. 1 .. (m + 1) - 1 = (1 .. m - 1) \cup {m}
  OBVIOUS
<1>2. M = Makers(p, i, m) \cup (IF p[i].body[m].op \notin Assignments THEN {m} ELSE {})
  BY <1>1 DEF Makers
<1>3. CASE p[i].body[m].op \notin Assignments
  <2>1. \A y \in Makers(p, i, m) : y \in Nat /\ y < m
    BY DEF Makers
  <2>2. M \subseteq Int /\ m \in M /\ \A y \in M : y <= m
    BY <1>2, <1>3, <2>1
  <2> HIDE DEF M
  <2>3. Latest(M) = m
    BY <2>2, LatestIs
  <2> QED
    BY <1>3, <2>2, <2>3 DEF ValueType, M
<1>4. CASE p[i].body[m].op \in Assignments
  <2>1. M = Makers(p, i, m)
    BY <1>2, <1>4
  <2> QED
    BY <1>4, <2>1 DEF ValueType
<1> QED
  BY <1>3, <1>4

LEMMA FirstNode ==
  ASSUME NEW p, NEW i
  PROVE  /\ Names(p, i, 1) = {ParamsOf(p[i])[j].name : j \in 1 .. Len(ParamsOf(p[i]))}
         /\ \A v : Definers(p, i, 1, v) = {}
         /\ Makers(p, i, 1) = {}
         /\ ValueType(p, i, 1) = Basic("ANY")
<1>1. 1 .. 1 - 1 = {}
  OBVIOUS
<1>2. Makers(p, i, 1) = {}
  BY <1>1 DEF Makers
<1>3. \A v : Definers(p, i, 1, v) = {}
  BY <1>1 DEF Definers
<1>4. Names(p, i, 1) = {ParamsOf(p[i])[j].name : j \in 1 .. Len(ParamsOf(p[i]))}
  BY <1>1 DEF Names
<1> QED
  BY <1>2, <1>3, <1>4 DEF ValueType

(* A name in scope stands for a variable defined or for a parameter. *)
LEMMA BinderIn ==
  ASSUME NEW p, NEW i, NEW m \in Nat, Len(ParamsOf(p[i])) \in Nat, NEW v \in Names(p, i, m)
  PROVE  \/ /\ Binder(p, i, m, v) \in 1 .. m - 1
            /\ p[i].body[Binder(p, i, m, v)].op = "DEF_VAR"
            /\ p[i].body[Binder(p, i, m, v)].sym = v
            /\ TypeOfName(p, i, m, v) = p[i].body[Binder(p, i, m, v)].type
         \/ \E j \in 1 .. Len(ParamsOf(p[i])) :
              /\ Binder(p, i, m, v) = -j
              /\ ParamsOf(p[i])[j].name = v
              /\ TypeOfName(p, i, m, v) = ParamsOf(p[i])[j].type
<1> DEFINE D == Definers(p, i, m, v)
           N == ParamsNamed(p, i, v)
           l == Len(ParamsOf(p[i]))
<1>1. CASE D # {}
  <2>1. D \subseteq 1 .. m
    BY DEF Definers
  <2> HIDE DEF D
  <2>2. Latest(D) \in D
    BY <1>1, <2>1, LatestIn
  <2>3. Binder(p, i, m, v) = Latest(D)
    BY <1>1 DEF Binder, D
  <2> DEFINE b == Binder(p, i, m, v)
  <2>4. b \in 1 .. m - 1 /\ p[i].body[b].op = "DEF_VAR" /\ p[i].body[b].sym = v
    BY <2>2, <2>3 DEF D, Definers
  <2>5. b > 0
    BY <2>4
  <2>6. TypeOfName(p, i, m, v) = p[i].body[b].type
    BY <2>5 DEF TypeOfName, TypeOfBinder
  <2> QED
    BY <2>4, <2>6
<1>2. CASE D = {}
  <2>1. N # {}
    BY <1>2 DEF Definers, Names, ParamsNamed
  <2>2. N \subseteq 1 .. l
    BY DEF ParamsNamed
  <2> HIDE DEF N, l
  <2>3. Latest(N) \in N
    BY <2>1, <2>2, LatestIn DEF l
  <2>4. Binder(p, i, m, v) = -Latest(N)
    BY <1>2 DEF Binder, N
  <2>5. PICK j \in 1 .. l : Latest(N) = j /\ ParamsOf(p[i])[j].name = v
    BY <2>3 DEF N, ParamsNamed, l
  <2>6. j \in Nat /\ ~(-j > 0) /\ -(-j) = j
    BY <2>5
  <2>7. TypeOfName(p, i, m, v) = ParamsOf(p[i])[j].type
    BY <2>4, <2>5, <2>6 DEF TypeOfName, TypeOfBinder
  <2> QED
    BY <2>4, <2>5, <2>7 DEF l
<1> QED
  BY <1>1, <1>2

-----------------------------------------------------------------------------
(* The functions of a well-typed program. *)
LEMMA CallableText ==
  ASSUME ShapeInv, WellTyped(program), NEW f \in Callables
  PROVE  /\ CallableTypes(program, f)
         /\ f \in 1 .. Len(program)
         /\ program[f].op # "DEF_CLASS"
         /\ Len(program[f].body) \in Nat
         /\ Len(ParamsOf(program[f])) \in Nat
         /\ \A j \in 1 .. Len(ParamsOf(program[f])) :
              /\ IsType(ParamsOf(program[f])[j].type)
              /\ ParamsOf(program[f])[j].type.kind # "ARRAY"
              /\ Makeable(program, f, ParamsOf(program[f])[j].type)
         /\ IsType(program[f].type) /\ Makeable(program, f, program[f].type)
<1>1. f \in 1 .. Len(program) /\ program[f].op # "DEF_CLASS"
  BY DEF Callables, Callable
<1>2. CallableTypes(program, f)
  BY <1>1 DEF WellTyped
<1>3. IsSequence(program[f].body) /\ IsType(program[f].type)
  BY CallableShape
<1>4. IsSequence(ParamsOf(program[f]))
      /\ \A j \in 1 .. Len(ParamsOf(program[f])) : IsType(ParamsOf(program[f])[j].type)
  BY ParamTypes
<1>5. Len(program[f].body) \in Nat /\ Len(ParamsOf(program[f])) \in Nat
  BY <1>3, <1>4, SequenceDomain
<1> QED
  BY <1>1, <1>2, <1>3, <1>4, <1>5 DEF CallableTypes

LEMMA DefinedText ==
  ASSUME ShapeInv, WellTyped(program), NEW f \in Callables,
         NEW h \in 1 .. Len(program[f].body), program[f].body[h].op = "DEF_VAR"
  PROVE  /\ IsType(program[f].body[h].type)
         /\ Makeable(program, f, program[f].body[h].type)
<1>1. NodeTypes(program, f, h)
  BY CallableText DEF CallableTypes
<1>2. Makeable(program, f, program[f].body[h].type)
  BY <1>1 DEF NodeTypes
<1> QED
  BY <1>2, CallableShape

LEMMA NameText ==
  ASSUME ShapeInv, WellTyped(program), NEW f \in Callables,
         NEW m \in 1 .. Len(program[f].body) + 1, NEW v \in Names(program, f, m)
  PROVE  /\ IsType(TypeOfName(program, f, m, v))
         /\ Makeable(program, f, TypeOfName(program, f, m, v))
         /\ Binder(program, f, m, v) \in Binders(f, m)
         /\ TypeOfName(program, f, m, v) = TypeOfBinder(program, f, Binder(program, f, m, v))
<1>1. /\ Len(program[f].body) \in Nat /\ Len(ParamsOf(program[f])) \in Nat /\ m \in Nat
      /\ 1 .. m - 1 \subseteq 1 .. Len(program[f].body)
  BY CallableText
<1> DEFINE b == Binder(program, f, m, v)
<1>2. CASE /\ b \in 1 .. m - 1
           /\ program[f].body[b].op = "DEF_VAR"
           /\ TypeOfName(program, f, m, v) = program[f].body[b].type
  BY <1>1, <1>2, DefinedText DEF Binders, TypeOfName
<1>3. CASE \E j \in 1 .. Len(ParamsOf(program[f])) :
             b = -j /\ TypeOfName(program, f, m, v) = ParamsOf(program[f])[j].type
  BY <1>3, CallableText DEF Binders, TypeOfName
<1> QED
  BY <1>1, <1>2, <1>3, BinderIn
-----------------------------------------------------------------------------
(* A value that may be assigned has the type of what it is assigned to.    *)
LEMMA AssignableType ==
  ASSUME NEW p, NEW from, NEW to, Assignable(p, from, to)
  PROVE  /\ LLVMType(from) = LLVMType(to)
         /\ to.kind \in Kinds => from.kind # "ANY"
BY DEF Assignable, LLVMType, SameKind, Integral, Kinds

LEMMA SameKindType ==
  ASSUME NEW from, NEW kind, SameKind(from.kind, kind)
  PROVE  /\ \A to : to.kind = kind => LLVMType(from) = LLVMType(to)
         /\ kind \in Kinds => from.kind # "ANY"
BY DEF LLVMType, SameKind, Integral, Kinds

LEMMA ValueFits ==
  ASSUME ShapeInv, ValueKnown, n # 0, ValueType(program, pos, n).kind # "ANY"
  PROVE  ret = LLVMType(ValueType(program, pos, n))
BY DEF ValueKnown, ValueType, Basic

LEMMA MakeableMade ==
  ASSUME ShapeInv, NEW type, IsType(type), Makeable(program, pos, type)
  PROVE  MakeTrouble(type) = "none"
BY DEF ShapeInv, Progress, IsType, Makeable, MakeTrouble, NotConstant, Kinds

(* Where a type mentions a class, the class has been compiled. *)
LEMMA MakeableClass ==
  ASSUME ShapeInv, NEW f \in Callables, f <= pos, NEW type, Makeable(program, f, type),
         type.kind = "KLASS"
  PROVE  type.klass \in DOMAIN klass_def_map
<1>1. f \in 1 .. Len(program) + 1 /\ pos \in 1 .. Len(program) + 1 /\ Len(program) \in Nat
  BY PosFacts DEF Callables
<1>2. ClassesBefore(program, f) \subseteq ClassesBefore(program, pos)
  BY <1>1, ClassesGrow
<1> QED
  BY <1>2 DEF Makeable, ShapeInv, Progress

(* What a compiled class means to those compiled later. *)
Grows ==
  /\ program' = program
  /\ DOMAIN klass_def_map \subseteq DOMAIN klass_def_map'
  /\ \A k \in DOMAIN klass_def_map : klass_def_map'[k] = klass_def_map[k]

LEMMA GrowsLayout ==
  ASSUME Grows
  PROVE  /\ \A k \in DOMAIN klass_def_map : FieldTypes(k)' = FieldTypes(k)
         /\ \A k \in DOMAIN klass_def_map : \A m : FieldIndex(k, m)' = FieldIndex(k, m)
         /\ \A type : (type.kind = "KLASS" => type.klass \in DOMAIN klass_def_map) =>
              TypesOf(type)' = TypesOf(type)
<1>1. \A k \in DOMAIN klass_def_map : FieldTypes(k)' = FieldTypes(k)
  BY DEF Grows, FieldTypes, Fields
<1>2. \A k \in DOMAIN klass_def_map : \A m : FieldIndex(k, m)' = FieldIndex(k, m)
  BY DEF Grows, FieldIndex, Fields
<1>3. \A type : (type.kind = "KLASS" => type.klass \in DOMAIN klass_def_map) =>
              TypesOf(type)' = TypesOf(type)
  BY <1>1 DEF TypesOf
<1> QED
  BY <1>1, <1>2, <1>3

LEMMA TranslatesGrow ==
  ASSUME ShapeInv, WellTyped(program), Grows,
         ClassesFirst(program) => klass_def_map' = klass_def_map,
         NEW f \in Callables, f <= pos, NEW m \in 1 .. Len(program[f].body), NEW ins,
         Translates(f, m, ins)
  PROVE  Translates(f, m, ins)'
<1> DEFINE node == program[f].body[m]
           type == TypeOfName(program, f, m, node.sym)
<1>1. ASSUME NEW t, Allocates(ins, t)
      PROVE  Allocates(ins, t)'
  <2>1. /\ ins.type = t /\ ins.types = TypesOf(t)
        /\ t.kind = "KLASS" => t.klass \in DOMAIN klass_def_map
        /\ ClassesFirst(program) => ins.id = IdOf(t)
    BY <1>1 DEF Allocates
  <2>2. TypesOf(t)' = TypesOf(t)
    BY <2>1, GrowsLayout
  <2>3. ClassesFirst(program) => IdOf(t)' = IdOf(t)
    BY DEF IdOf, getDefId
  <2>4. program' = program /\ DOMAIN klass_def_map \subseteq DOMAIN klass_def_map'
    BY DEF Grows
  <2> QED
    BY <2>1, <2>2, <2>3, <2>4 DEF Allocates
<1>2. ASSUME node.op \in {"GET_MEMBER_VAR", "SET_MEMBER_VAR"}
      PROVE  \E k : /\ k = type.klass
                    /\ FieldTypes(k)' = FieldTypes(k)
                    /\ \A x : FieldIndex(k, x)' = FieldIndex(k, x)
  <2>1. NodeTypes(program, f, m) /\ m \in 1 .. Len(program[f].body) + 1
    BY CallableText DEF CallableTypes
  <2>2. node.sym \in Names(program, f, m) /\ type.kind = "KLASS"
    BY <1>2, <2>1 DEF NodeTypes, HasMemberNamed, HasNamed
  <2>3. Makeable(program, f, type)
    BY <2>1, <2>2, NameText
  <2>4. type.klass \in DOMAIN klass_def_map
    BY <2>2, <2>3, MakeableClass
  <2> QED
    BY <2>4, GrowsLayout
<1>3. \A t : ElemTypes(t)' = ElemTypes(t)
  BY DEF ElemTypes, LLVMType
<1>4. program' = program
  BY DEF Grows
<1>5. ASSUME node.op \in {"GET_MEMBER_VAR", "SET_MEMBER_VAR"}
      PROVE  Translates(f, m, ins)'
  <2>1. PICK k : /\ k = type.klass
                 /\ FieldTypes(k)' = FieldTypes(k)
                 /\ \A x : FieldIndex(k, x)' = FieldIndex(k, x)
    BY <1>2, <1>5
  <2>2. /\ ins.i = IF node.op = "GET_MEMBER_VAR" THEN "get" ELSE "set"
        /\ ins.slot = Binder(program, f, m, node.sym)
        /\ ins.idx = FieldIndex(k, node.member)
        /\ ins.types = FieldTypes(k)
    BY <1>5, <2>1 DEF Translates
  <2>3. k = (type.klass)' /\ node' = node
    BY <1>4, <2>1
  <2> QED
    BY <1>4, <1>5, <2>1, <2>2, <2>3 DEF Translates
<1>6. ASSUME node.op \notin {"GET_MEMBER_VAR", "SET_MEMBER_VAR"}
      PROVE  Translates(f, m, ins)'
  BY <1>1, <1>3, <1>4, <1>6 DEF Translates
<1> QED
  BY <1>5, <1>6

LEMMA TranslatesSame ==
  ASSUME ShapeInv, WellTyped(program), UNCHANGED <<program, klass_def_map>>,
         NEW f \in Callables, f <= pos, NEW m \in 1 .. Len(program[f].body), NEW ins,
         Translates(f, m, ins)
  PROVE  Translates(f, m, ins)'
BY TranslatesGrow DEF Grows

LEMMA CodeOf ==
  ASSUME ShapeInv, NEW f \in DOMAIN code
  PROVE  /\ f \in Callables /\ f <= pos
         /\ Len(code[f]) \in Nat /\ Len(program[f].body) \in Nat
         /\ Len(code[f]) <= Len(program[f].body)
<1>1. f \in Callables /\ (f < pos \/ (f = pos /\ n # 0)) /\ f \in Int /\ pos \in Int /\ n \in Nat
  BY PosFacts DEF ShapeInv, Progress, Callables
<1>2. IsSequence(code[f]) /\ IsSequence(program[f].body)
  BY <1>1, CallableShape DEF ShapeInv, CodeShape
<1>3. Len(code[f]) \in Nat /\ Len(program[f].body) \in Nat
  BY <1>2, SequenceDomain
<1>4. Len(code[f]) = IF f < pos THEN Len(program[f].body) ELSE n - 1
  BY DEF ShapeInv, CodeShape
<1>5. f = pos => n <= Len(program[f].body) + 1
  BY <1>1 DEF ShapeInv, Progress, Here
<1> QED
  BY <1>1, <1>3, <1>4, <1>5

(* Steps that leave the code and the classes as they are. *)
LEMMA CodeTranslatesGrow ==
  ASSUME ShapeInv, WellTyped(program), Grows, CodeTranslates, UNCHANGED code,
         ClassesFirst(program) => klass_def_map' = klass_def_map
  PROVE  CodeTranslates'
<1> SUFFICES ASSUME NEW f \in DOMAIN code, NEW m \in 1 .. Len(code[f])
             PROVE  Translates(f, m, code[f][m])'
  BY DEF CodeTranslates
<1>1. f \in Callables /\ f <= pos /\ m \in 1 .. Len(program[f].body)
  BY CodeOf
<1>2. Translates(f, m, code[f][m])
  BY DEF CodeTranslates
<1>3. \A ins : Translates(f, m, ins) => Translates(f, m, ins)'
  BY <1>1, TranslatesGrow
<1> QED
  BY <1>2, <1>3
-----------------------------------------------------------------------------
(* Numbers of classes and rows of the method array. *)
LEMMA ClassesFinite ==
  ASSUME NEW p, NEW i \in Int
  PROVE  IsFiniteSet(ClassesBefore(p, i))
<1> DEFINE I == Decls(p, "DEF_CLASS") \cap (1 .. i - 1)
           C == ClassesBefore(p, i)
           f == [j \in I |-> p[j].sym]
<1>1. C = {f[j] : j \in I}
  BY DEF ClassesBefore
<1>2. IsFiniteSet(I)
  <2>1. IsFiniteSet(1 .. i - 1)
    BY FS_Interval
  <2>2. I \subseteq 1 .. i - 1
    OBVIOUS
  <2> HIDE DEF I
  <2> QED
    BY <2>1, <2>2, FS_Subset
<1>3. f \in Surjection(I, C)
  <2>1. f \in [I -> C]
    BY <1>1
  <2> HIDE DEF I, f, C
  <2> QED
    BY <1>1, <2>1 DEF Surjection
<1> HIDE DEF I, f, C
<1>4. IsFiniteSet(C)
  BY <1>2, <1>3, FS_Surjection
<1> QED
  BY <1>4 DEF C

(* Different classes have different numbers. *)
LEMMA NumbersDiffer ==
  ASSUME ShapeInv, WellTyped(program), NEW j \in DOMAIN klass_def_map,
         NEW k \in DOMAIN klass_def_map, getDefId(j) = getDefId(k)
  PROVE  j = k
<1> DEFINE C == DOMAIN klass_def_map
           Below(x) == {i \in C : KlassRank[i] < KlassRank[x]}
<1>1. C \subseteq Klass /\ KlassRank \in [Klass -> Nat]
      /\ \A x, y \in Klass : KlassRank[x] = KlassRank[y] => x = y
  <2>1. \A x \in C : x \in Klass
    BY CompiledClass, ClassNames, PosFacts DEF AllClasses
  <2> QED
    BY <2>1, LayoutAssumption
<1>2. IsFiniteSet(C)
  BY ClassesFinite, PosFacts DEF ShapeInv, Progress
<1>3. ASSUME NEW x \in C, NEW y \in C, KlassRank[x] < KlassRank[y]
      PROVE  Cardinality(Below(x)) # Cardinality(Below(y))
  <2>1. IsFiniteSet(Below(y)) /\ IsFiniteSet(Below(x))
    <3>1. Below(y) \subseteq C /\ Below(x) \subseteq C
      OBVIOUS
    <3> HIDE DEF C, Below
    <3> QED
      BY <1>2, <3>1, FS_Subset
  <2>2. x \in Below(y) /\ Below(x) \subseteq Below(y) \ {x}
    BY <1>1, <1>3
  <2> HIDE DEF C, Below
  <2>3. /\ IsFiniteSet(Below(y) \ {x})
        /\ Cardinality(Below(y) \ {x}) = Cardinality(Below(y)) - 1
    BY <2>1, <2>2, FS_RemoveElement
  <2>4. Cardinality(Below(x)) <= Cardinality(Below(y) \ {x})
    BY <2>2, <2>3, FS_Subset
  <2>5. Cardinality(Below(x)) \in Nat /\ Cardinality(Below(y)) \in Nat
    BY <2>1, FS_CardinalityType
  <2> QED
    BY <2>3, <2>4, <2>5
<1>4. Cardinality(Below(j)) = Cardinality(Below(k))
  BY DEF getDefId
<1>5. ~(KlassRank[j] < KlassRank[k]) /\ ~(KlassRank[k] < KlassRank[j])
  BY <1>3, <1>4
<1> QED
  BY <1>1, <1>5

LEMMA RowNow ==
  ASSUME ShapeInv, NEW k
  PROVE  getDefId(k) = Row(program, pos, k)
BY DEF ShapeInv, Progress, getDefId, Row

(* If the array has a row for every class, a call stays in it. *)
LEMMA RowFits ==
  ASSUME ShapeInv, WellTyped(program), RowsSuffice(program), NEW k \in DOMAIN klass_def_map
  PROVE  ~OffTheArray(k)
<1> DEFINE all == AllClasses(program)
           below == {j \in DOMAIN klass_def_map : KlassRank[j] < KlassRank[k]}
<1>1. /\ Len(program) \in Nat /\ pos \in 1 .. Len(program) + 1
      /\ DOMAIN klass_def_map = ClassesBefore(program, pos)
  BY PosFacts DEF ShapeInv, Progress
<1>2. IsFiniteSet(all)
  BY <1>1, ClassesFinite DEF AllClasses
<1>3. DOMAIN klass_def_map \subseteq all
  <2>1. Len(program) + 1 \in 1 .. Len(program) + 1 /\ pos <= Len(program) + 1
    BY <1>1
  <2> QED
    BY <1>1, <2>1, ClassesGrow DEF AllClasses
<1>4. k \in all /\ ~(KlassRank[k] < KlassRank[k])
  <2>1. k \in Klass
    BY <1>1, PosFacts, ClassNames
  <2>2. KlassRank[k] \in Nat
    BY <2>1, LayoutAssumption
  <2> QED
    BY <1>3, <2>2
<1>5. below \subseteq all \ {k}
  BY <1>3, <1>4
<1>6. getDefId(k) = Cardinality(below)
  BY DEF getDefId
<1>7. Cardinality(all) <= RowLen /\ RowLen \in Nat
  BY RowAssumption DEF RowsSuffice, AllClasses
<1> HIDE DEF all, below
<1>8. IsFiniteSet(all \ {k}) /\ Cardinality(all \ {k}) = Cardinality(all) - 1
  BY <1>2, <1>4, FS_RemoveElement
<1>9. Cardinality(below) <= Cardinality(all \ {k}) /\ IsFiniteSet(below)
  BY <1>5, <1>8, FS_Subset
<1>10. Cardinality(below) \in Nat /\ Cardinality(all) \in Nat
  BY <1>2, <1>9, FS_CardinalityType
<1> QED
  BY <1>6, <1>7, <1>8, <1>9, <1>10 DEF OffTheArray

-----------------------------------------------------------------------------
(* Parsing: every class a type mentions is declared, so its name is in the *)
(* symbol table.                                                           *)
LEMMA ParamsParts ==
  ASSUME ShapeInv, NEW f \in Callables
  PROVE  LET d == program[f]
             ps == ParamsOf(program[f])
         IN  /\ Len(d.def_args) \in Nat
             /\ IF d.op = "DEF_METHOD" /\ d.def_args # <<>>
                THEN /\ Len(ps) = Len(d.def_args) + 1
                     /\ ps[1] = [name |-> This, type |-> KlassType(d.klass)]
                     /\ \A j \in 1 .. Len(d.def_args) : ps[j + 1] = d.def_args[j]
                ELSE ps = d.def_args
<1> DEFINE d == program[f]
           this == [name |-> "this", type |-> KlassType(d.klass)]
           args == d.def_args
           T == {args[j] : j \in DOMAIN args} \cup {this}
<1>1. IsSequence(args)
  BY CallableShape
<1>2. args \in Seq(T) /\ this \in T
  BY <1>1 DEF IsSequence
<1>3. ParamsOf(d) = IF d.op = "DEF_METHOD" /\ args # <<>> THEN <<this>> \o args ELSE args
  BY DEF ParamsOf
<1> HIDE DEF T, args, this
<1>4. /\ Len(<<this>> \o args) = Len(args) + 1
      /\ (<<this>> \o args)[1] = this
      /\ \A j \in 1 .. Len(args) : (<<this>> \o args)[j + 1] = args[j]
      /\ Len(args) \in Nat
  BY <1>2
<1> QED
  BY <1>3, <1>4 DEF args, this, This

LEMMA ArgumentTypes ==
  ASSUME ShapeInv, WellTyped(program), NEW f \in Callables,
         NEW j \in 1 .. Len(program[f].def_args)
  PROVE  /\ IsType(program[f].def_args[j].type)
         /\ Makeable(program, f, program[f].def_args[j].type)
<1> DEFINE ps == ParamsOf(program[f])
<1>1. PICK h \in 1 .. Len(ps) : ps[h] = program[f].def_args[j]
  <2> DEFINE k == Len(program[f].def_args)
  <2>1. k \in Nat /\ j \in 1 .. k
    BY ParamsParts
  <2>2. CASE program[f].op = "DEF_METHOD" /\ program[f].def_args # <<>>
    <3>1. Len(ps) = k + 1 /\ ps[j + 1] = program[f].def_args[j]
      BY <2>2, ParamsParts
    <3>2. j + 1 \in 1 .. k + 1
      BY <2>1
    <3> QED
      BY <3>1, <3>2
  <2>3. CASE ~(program[f].op = "DEF_METHOD" /\ program[f].def_args # <<>>)
    BY <2>3, ParamsParts
  <2> QED
    BY <2>2, <2>3
<1> QED
  BY <1>1, CallableText

LEMMA ClassesInterned ==
  ASSUME NEW p, NEW i
  PROVE  ClassesBefore(p, i) \subseteq UNION {DeclInterns(p[j]) : j \in 1 .. i - 1}
BY DEF ClassesBefore, Decls, DeclInterns

LEMMA MakeableKnown ==
  ASSUME ShapeInv, NEW f, NEW type, IsType(type), Makeable(program, f, type),
         NEW names, UNION {DeclInterns(program[j]) : j \in 1 .. f - 1} \subseteq names
  PROVE  ~UnknownType(type, names)
<1>1. ClassesBefore(program, f) \subseteq names
  BY ClassesInterned
<1>2. type.kind = "KLASS" => type.klass \in names
  BY <1>1 DEF Makeable
<1>3. type.kind # "KLASS" => type.elem_kind # "KLASS"
  BY DEF Makeable, IsType
<1>4. type.kind = "KLASS" => type.elem_kind # "KLASS"
  BY DEF IsType
<1> QED
  BY <1>2, <1>3, <1>4 DEF UnknownType

LEMMA NoTypeMissing ==
  ASSUME ShapeInv, WellTyped(program)
  PROVE  ~TypeMissing(program)
<1> SUFFICES ASSUME NEW i \in 1 .. Len(program), Callable(program[i])
             PROVE  /\ ~UnknownType(program[i].type,
                                    InternedBefore(program, i, Len(program[i].body) + 1))
                    /\ \A j \in 1 .. Len(program[i].def_args) :
                         ~UnknownType(program[i].def_args[j].type,
                            (UNION {DeclInterns(program[h]) : h \in 1 .. i - 1})
                              \cup {program[i].def_args[h].name : h \in 1 .. j - 1})
                    /\ \A m \in 1 .. Len(program[i].body) :
                         program[i].body[m].op \in {"DEF_VAR", "NEW_CLASS"} =>
                           ~UnknownType(program[i].body[m].type, InternedBefore(program, i, m))
  BY DEF TypeMissing
<1>1. i \in Callables
  BY DEF Callables
<1>2. \A m : UNION {DeclInterns(program[j]) : j \in 1 .. i - 1}
              \subseteq InternedBefore(program, i, m)
  BY DEF InternedBefore, InternedFirst
<1>3. IsType(program[i].type) /\ Makeable(program, i, program[i].type)
  BY <1>1, CallableText
<1>4. ASSUME NEW m \in 1 .. Len(program[i].body), program[i].body[m].op \in {"DEF_VAR", "NEW_CLASS"}
      PROVE  ~UnknownType(program[i].body[m].type, InternedBefore(program, i, m))
  <2>1. IsType(program[i].body[m].type)
    BY <1>1, <1>4, CallableShape
  <2>2. NodeTypes(program, i, m)
    BY <1>1, CallableText DEF CallableTypes
  <2>3. Makeable(program, i, program[i].body[m].type)
    BY <1>4, <2>2 DEF NodeTypes
  <2> QED
    BY <1>2, <2>1, <2>3, MakeableKnown
<1>5. ~UnknownType(program[i].type, InternedBefore(program, i, Len(program[i].body) + 1))
  BY <1>2, <1>3, MakeableKnown
<1>6. ASSUME NEW j \in 1 .. Len(program[i].def_args)
      PROVE  ~UnknownType(program[i].def_args[j].type,
                            (UNION {DeclInterns(program[h]) : h \in 1 .. i - 1})
                              \cup {program[i].def_args[h].name : h \in 1 .. j - 1})
  <2>1. /\ IsType(program[i].def_args[j].type)
        /\ Makeable(program, i, program[i].def_args[j].type)
    BY <1>1, ArgumentTypes
  <2> QED
    BY <2>1, MakeableKnown
<1> QED
  BY <1>4, <1>5, <1>6

(* Steps that do not touch what has been compiled. *)
LEMMA ParseSound ==
  ASSUME ShapeInv, WellTyped(program), Sound, BlocksTyped, yyparse
  PROVE  Sound' /\ BlocksTyped'
<1>1. phase' = "codegen" /\ UNCHANGED <<program, pos, at, climb, klass_def_map,
                                         compile_vars, run_vars>>
  BY NoTypeMissing DEF yyparse
<1>2. n = 0 /\ at = 0 /\ heap = <<>> /\ phase = "parse"
  BY DEF Sound, yyparse, ShapeInv, Progress
<1>3. CodeTranslates'
  BY <1>1, CodeTranslatesGrow DEF Sound, Grows, compile_vars
<1>4. BlocksTyped'
  <2>1. heap' = <<>>
    BY <1>1, <1>2 DEF run_vars
  <2> QED
    BY <2>1 DEF BlocksTyped
<1>5. n' = 0 /\ at' = 0 /\ heap' = <<>>
  BY <1>1, <1>2 DEF compile_vars, run_vars
<1> QED
  BY <1>1, <1>3, <1>4, <1>5 DEF Sound, ClimbsDown, NamesBound, ValueKnown, FramesTyped, Failures
-----------------------------------------------------------------------------
(* Compiling a class.  Its climb goes to earlier declarations only, and    *)
(* the map of classes has no entry for it yet.                             *)
LEMMA NoBlocks ==
  ASSUME heap' = <<>>
  PROVE  BlocksTyped'
BY DEF BlocksTyped

LEMMA ClimbNode ==
  ASSUME ShapeInv, WellTyped(program), ClimbsDown, at # 0
  PROVE  /\ at \in 1 .. Len(program) /\ at \in DOMAIN climb
         /\ climb[at] \in FieldSeq /\ Own(program, at) \in FieldSeq
         /\ Storable(Own(program, at) \o climb[at])
         /\ SuperOf(program, at) # None =>
              /\ SuperNode(program, at) # 0
              /\ SuperNode(program, at) < at
              /\ SuperNode(program, at) \in Int
<1>1. IInv /\ program \in Programs /\ Len(program) \in Nat
  BY PosFacts DEF ShapeInv
<1>2. at \in 1 .. Len(program)
  BY <1>1 DEF IInv, LayoutShape
<1>3. at \in DOMAIN climb /\ climb[at] \in FieldSeq
  BY <1>1 DEF IInv, LayoutShape, Climbing, Visited, FieldSeq
<1>4. Own(program, at) \in FieldSeq
  BY <1>1, <1>2, ProgramTypes
<1>5. Storable(Own(program, at))
  <2>1. CASE program[at].op = "DEF_CLASS"
    <3>1. at \in Decls(program, "DEF_CLASS")
      BY <1>2, <2>1 DEF Decls
    <3> QED
      BY <1>1, <3>1, ClassText DEF Storable, Integral
  <2>2. CASE program[at].op # "DEF_CLASS"
    BY <2>2 DEF Own, Storable
  <2> QED
    BY <2>1, <2>2
<1>6. Storable(climb[at])
  BY DEF ClimbsDown
<1>7. ASSUME SuperOf(program, at) # None
      PROVE  /\ SuperNode(program, at) # 0
             /\ SuperNode(program, at) < at
             /\ SuperNode(program, at) \in Int
  <2>1. at \in Decls(program, "DEF_CLASS")
    BY <1>2, <1>7 DEF SuperOf, Decls
  <2>2. /\ DeclOf(program, program[at].sym) = at
        /\ program[at].super \in ClassesBefore(program, at)
        /\ SuperOf(program, at) = program[at].super
    BY <1>1, <1>7, <2>1, ClassText DEF None, Nobody
  <2>3. PICK j \in Decls(program, "DEF_CLASS") \cap (1 .. at - 1) : program[j].sym = program[at].super
    BY <2>2 DEF ClassesBefore
  <2>4. SuperNode(program, at) = j
    BY <1>1, <2>2, <2>3, UniqueNames DEF SuperNode, Decls
  <2> QED
    BY <1>2, <2>3, <2>4
<1> QED
  BY <1>2, <1>3, <1>4, <1>5, <1>6, <1>7, StorableConcat

LEMMA ClassSound ==
  ASSUME ShapeInv, WellTyped(program), Sound, BlocksTyped, CompileClass
  PROVE  BlocksTyped' /\ (Sound' \/ Excused')
<1>1. /\ UNCHANGED <<program, n, ret, vars, code, heap, stack, out>>
      /\ n = 0 /\ phase = "codegen" /\ heap = <<>>
      /\ ClassCodegen
  BY DEF CompileClass, compile_vars, run_vars, ClassCodegen, exec_def_class_codegen,
         read_junk, getFieldDef, makeKlassDef, Sound
<1>2. BlocksTyped'
  BY <1>1, NoBlocks
<1>3. /\ IInv /\ program \in Programs /\ Len(program) \in Nat
      /\ pos \in 1 .. Len(program) + 1
      /\ DOMAIN klass_def_map = ClassesBefore(program, pos)
      /\ DOMAIN code = {j \in Callables : j < pos}
  BY <1>1, PosFacts DEF ShapeInv, Progress
<1>4. ASSUME ClimbsDown', CodeTranslates', phase' = "codegen"
      PROVE  Sound'
  BY <1>1, <1>4 DEF Sound, NamesBound, ValueKnown, FramesTyped, Failures
<1>5. ASSUME UNCHANGED klass_def_map, ClimbsDown', phase' = "codegen"
      PROVE  Sound'
  <2>1. CodeTranslates'
    BY <1>1, <1>5, CodeTranslatesGrow DEF Sound, Grows
  <2> QED
    BY <1>4, <1>5, <2>1
<1>6. ASSUME exec_def_class_codegen
      PROVE  Sound'
  <2>1. /\ UNCHANGED klass_def_map /\ phase' = "codegen"
        /\ at' = pos /\ climb' = Put(EmptyMap, pos, <<>>)
    BY <1>6 DEF exec_def_class_codegen
  <2>2. DOMAIN climb' = {pos} /\ climb'[pos] = <<>>
    BY <2>1 DEF Put, EmptyMap
  <2>3. Storable(<<>>)
    BY DEF Storable
  <2>4. ClimbsDown'
    BY <1>3, <2>1, <2>2, <2>3 DEF ClimbsDown, Storable
  <2> QED
    BY <1>5, <2>1, <2>4
<1>7. ASSUME read_junk
      PROVE  JunkMemory /\ phase' = "crash"
  BY <1>7 DEF read_junk, Fail
<1>8. ASSUME getFieldDef
      PROVE  Sound'
  <2> DEFINE sp == SuperNode(program, at)
  <2>1. at # 0 /\ SuperOf(program, at) # None /\ ClimbsDown
    BY <1>8 DEF getFieldDef, Sound
  <2>2. /\ at \in 1 .. Len(program) /\ at \in DOMAIN climb
        /\ Storable(Own(program, at) \o climb[at])
        /\ sp # 0 /\ sp < at /\ sp \in Int
    BY <2>1, ClimbNode
  <2>3. DOMAIN climb \subseteq 1 .. Len(program) /\ \A i \in DOMAIN climb : at <= i
    BY <1>3, <2>1 DEF IInv, LayoutShape, ClimbsDown
  <2>4. ~Missing(sp) /\ ~ComesBack(sp)
    BY <2>2, <2>3 DEF Missing, ComesBack
  <2>5. /\ climb' = Put(climb, sp, Own(program, at) \o climb[at])
        /\ at' = sp /\ UNCHANGED klass_def_map /\ phase' = "codegen"
    BY <1>1, <1>8, <2>4 DEF getFieldDef, SuperNode, Before
  <2>6. DOMAIN climb' = DOMAIN climb \cup {sp} /\ climb'[sp] = Own(program, at) \o climb[at]
    BY <2>5 DEF Put
  <2>7. Storable(climb'[at'])
    BY <2>2, <2>5, <2>6
  <2>8. \A i \in DOMAIN climb' : sp <= i
    BY <2>2, <2>3, <2>6
  <2>9. ClimbsDown'
    BY <2>5, <2>7, <2>8 DEF ClimbsDown, Storable
  <2> QED
    BY <1>5, <2>5, <2>9
<1>9. ASSUME makeKlassDef
      PROVE  Sound'
  <2>1. at # 0 /\ ClimbsDown /\ pos \in 1 .. Len(program) /\ program[pos].op = "DEF_CLASS"
    BY <1>3, <1>9 DEF makeKlassDef, Sound, IInv, Climbing
  <2>2. Storable(Own(program, at) \o climb[at])
    BY <2>1, ClimbNode
  <2>3. /\ at' = 0 /\ phase' = "codegen"
        /\ \E r : klass_def_map' = Put(klass_def_map, program[pos].sym, r)
    BY <1>1, <1>9, <2>2 DEF makeKlassDef, Before
  <2>4. program[pos].sym \notin DOMAIN klass_def_map
    <3>1. \A j \in 1 .. pos - 1 : j \in 1 .. Len(program) /\ j # pos
      BY <2>1, <1>3
    <3> QED
      BY <1>3, <2>1, <3>1 DEF ClassesBefore, WellTyped
  <2>5. Grows
    BY <1>1, <2>3, <2>4 DEF Grows, Put
  <2>6. CodeTranslates'
    <3>1. CASE ClassesFirst(program)
      <4>1. DOMAIN code = {}
        <5>1. \A j \in Callables : j \in 1 .. Len(program) /\ Callable(program[j])
          BY DEF Callables
        <5>2. \A j \in Callables : pos < j
          BY <2>1, <3>1, <5>1 DEF ClassesFirst
        <5> QED
          BY <1>3, <2>1, <5>1, <5>2
      <4> QED
        BY <1>1, <4>1 DEF CodeTranslates
    <3>2. CASE ~ClassesFirst(program)
      BY <1>1, <2>5, <3>2, CodeTranslatesGrow DEF Sound
    <3> QED
      BY <3>1, <3>2
  <2>7. ClimbsDown'
    BY <2>3 DEF ClimbsDown
  <2> QED
    BY <1>4, <2>3, <2>6, <2>7
<1> QED
  BY <1>1, <1>2, <1>6, <1>7, <1>8, <1>9 DEF ClassCodegen, Excused
-----------------------------------------------------------------------------
(* A function begins with its parameters in the map, each under its name.  *)
LEMMA BeginSound ==
  ASSUME ShapeInv, WellTyped(program), Sound, BlocksTyped, begin_function
  PROVE  Sound' /\ BlocksTyped'
<1> DEFINE ps == ParamsOf(program[pos])
           named(v) == {i \in 1 .. Len(ps) : ps[i].name = v}
<1>1. /\ phase = "codegen" /\ at = 0 /\ n = 0 /\ heap = <<>>
      /\ pos \in Callables
  BY PosFacts DEF begin_function, Callables, Here, Sound
<1>2. /\ Params(Here) = ps /\ Len(ps) \in Nat
      /\ \A j \in 1 .. Len(ps) :
           /\ ps[j].type.kind # "ARRAY"
           /\ IsType(ps[j].type) /\ Makeable(program, pos, ps[j].type)
  BY <1>1, ParamTypes, CallableText DEF Here
<1>3. \A j \in 1 .. Len(ps) : MakeTrouble(ps[j].type) = "none"
  BY <1>2, MakeableMade
<1>4. /\ n' = 1 /\ ret' = "none" /\ code' = Put(code, pos, <<>>)
      /\ UNCHANGED <<program, phase, pos, at, climb, klass_def_map, heap, stack, out>>
  <2> HIDE DEF ps
  <2>1. {MakeTrouble(ps[i].type) : i \in 1 .. Len(ps)} \ {"none"} = {}
    BY <1>3
  <2>2. ~NoReceiver(Here)
    BY <1>1, CallableText DEF NoReceiver, CallableTypes, Here, ShapeInv, Progress
  <2> QED
    BY <1>2, <2>1, <2>2 DEF begin_function, layout_vars, run_vars
<1>5. ~Stop("undefined") /\ ~Stop("assert")
  BY <1>1, <1>4 DEF Stop, Fail
<1>6. /\ DOMAIN vars' = DOMAIN vars \cup {ps[i].name : i \in 1 .. Len(ps)}
      /\ \A v \in DOMAIN vars' : named(v) # {} =>
           /\ Latest(named(v)) \in named(v)
           /\ vars'[v] = NewVariable(-Latest(named(v)), ps[Latest(named(v))].type)
  <2> DEFINE qs == Params(Here)
             N(v) == {i \in 1 .. Len(qs) : qs[i].name = v}
  <2>1. /\ DOMAIN vars' = DOMAIN vars \cup {qs[i].name : i \in 1 .. Len(qs)}
        /\ \A v \in DOMAIN vars' : N(v) # {} =>
             /\ Latest(N(v)) \in N(v)
             /\ vars'[v] = NewVariable(-Latest(N(v)), qs[Latest(N(v))].type)
    BY <1>5, ParamVars
  <2>2. qs = ps
    BY <1>2
  <2> HIDE DEF qs, ps
  <2> QED
    BY <2>1, <2>2
<1>7. NamesBound'
  <2> SUFFICES ASSUME NEW v \in Names(program, pos, 1)
               PROVE  /\ v \in DOMAIN vars'
                      /\ vars'[v].home = pos
                      /\ vars'[v].slot = Binder(program, pos, 1, v)
                      /\ vars'[v].type = TypeOfName(program, pos, 1, v)
    BY <1>4 DEF NamesBound
  <2> DEFINE l == Latest(named(v))
  <2>1. v \in DOMAIN vars' /\ named(v) # {}
    BY <1>6, FirstNode
  <2>2. l \in 1 .. Len(ps) /\ vars'[v] = NewVariable(-l, ps[l].type)
    BY <1>6, <2>1
  <2>3. Binder(program, pos, 1, v) = -l
    BY FirstNode DEF Binder, ParamsNamed
  <2>4. TypeOfName(program, pos, 1, v) = ps[l].type
    <3> HIDE DEF l
    <3>1. ~(-l > 0) /\ -(-l) = l
      BY <1>2, <2>2
    <3> QED
      BY <2>3, <3>1 DEF TypeOfName, TypeOfBinder
  <2>5. IsType(ps[l].type) /\ MakeTrouble(ps[l].type) = "none"
    BY <1>2, <1>3, <2>2
  <2> HIDE DEF l, ps
  <2> QED
    BY <2>1, <2>2, <2>3, <2>4, <2>5, MadeShape
<1>8. CodeTranslates'
  <2> SUFFICES ASSUME NEW f \in DOMAIN code', NEW m \in 1 .. Len(code'[f])
               PROVE  Translates(f, m, code[f][m])'
    BY DEF CodeTranslates
  <2>1. f # pos
    <3>1. code'[pos] = <<>>
      BY <1>4 DEF Put
    <3> QED
      BY <3>1
  <2>2. f \in DOMAIN code /\ code'[f] = code[f]
    BY <1>4, <2>1 DEF Put
  <2>3. f \in Callables /\ f <= pos /\ m \in 1 .. Len(program[f].body)
    BY <2>2, CodeOf
  <2>4. Translates(f, m, code[f][m])
    BY <2>2 DEF Sound, CodeTranslates
  <2>5. \A ins : Translates(f, m, ins) => Translates(f, m, ins)'
    BY <1>4, <2>3, TranslatesSame
  <2> QED
    BY <2>2, <2>4, <2>5
<1>9. ValueKnown'
  <2>1. Makers(program, pos, 1) = {}
    BY FirstNode
  <2> QED
    BY <1>4, <2>1 DEF ValueKnown
<1>10. heap' = <<>> /\ phase' = "codegen" /\ at' = 0
  BY <1>1, <1>4
<1> QED
  BY <1>7, <1>8, <1>9, <1>10, NoBlocks DEF Sound, ClimbsDown, FramesTyped, Failures

(* What the expression or statement that is being compiled is known to be. *)
LEMMA CompilingText ==
  ASSUME ShapeInv, WellTyped(program), Sound, NEW op, Compiling(op)
  PROVE  /\ pos \in Callables /\ n \in 1 .. Len(program[pos].body) /\ n # 0
         /\ Node = program[pos].body[n] /\ Node.op = op
         /\ NodeTypes(program, pos, n)
         /\ phase = "codegen"
         /\ NamesBound /\ ValueKnown
<1>1. /\ pos \in Callables /\ n # 0 /\ n <= Len(program[pos].body) /\ n \in Nat
      /\ Node = program[pos].body[n] /\ Node.op = op /\ phase = "codegen"
  BY PosFacts DEF Compiling, Here, Node, ShapeInv, Progress
<1>2. n \in 1 .. Len(program[pos].body)
  BY <1>1, CallableText
<1>3. NodeTypes(program, pos, n)
  BY <1>1, <1>2, CallableText DEF CallableTypes
<1> QED
  BY <1>1, <1>2, <1>3 DEF Sound

(* The instruction it becomes, the type of its value and the variable it   *)
(* defines are those the text promises.                                    *)
LEMMA EmitSound ==
  ASSUME ShapeInv, WellTyped(program), Sound, BlocksTyped,
         NEW op, Compiling(op), NEW ins, NEW type, Emit(ins, type),
         Translates(pos, n, ins),
         type = IF op \in Assignments THEN ret ELSE LLVMType(NodeType(program, pos, n)),
         IF op = "DEF_VAR" THEN vars' = Put(vars, Node.sym, NewVariable(n, Node.type))
         ELSE UNCHANGED vars
  PROVE  Sound' /\ BlocksTyped'
<1> DEFINE node == program[pos].body[n]
<1>1. /\ UNCHANGED <<program, phase, pos, at, climb, klass_def_map, heap, stack, out>>
      /\ phase = "codegen" /\ at = 0
      /\ pos \in Callables /\ pos \in DOMAIN code
      /\ n \in 1 .. Len(program[pos].body) /\ n' = n + 1
      /\ Len(program[pos].body) \in Nat
      /\ ret' = type
      /\ node.op = op
      /\ DOMAIN code' = DOMAIN code
      /\ \A f \in DOMAIN code \ {pos} : code'[f] = code[f]
      /\ IsSequence(code'[pos]) /\ Len(code'[pos]) = n
      /\ code'[pos][n] = ins
      /\ \A m \in 1 .. n - 1 : code'[pos][m] = code[pos][m]
      /\ Len(code[pos]) = n - 1
  BY EmitCode
<1>2. n \in Nat \ {0} /\ n + 1 # 0 /\ Node = node
  BY <1>1 DEF Node, Here
<1>3. NamesBound'
  <2> SUFFICES ASSUME NEW v \in Names(program, pos, n + 1)
               PROVE  /\ v \in DOMAIN vars'
                      /\ vars'[v].home = pos
                      /\ vars'[v].slot = Binder(program, pos, n + 1, v)
                      /\ vars'[v].type = TypeOfName(program, pos, n + 1, v)
    BY <1>1 DEF NamesBound
  <2>1. CASE op = "DEF_VAR" /\ node.sym = v
    <3>1. v \in DOMAIN vars' /\ vars'[v] = NewVariable(n, node.type)
      BY <1>2, <2>1 DEF Put
    <3>2. Binder(program, pos, n + 1, v) = n /\ TypeOfName(program, pos, n + 1, v) = node.type
      BY <1>1, <1>2, <2>1, BinderStep
    <3> QED
      BY <3>1, <3>2 DEF NewVariable
  <2>2. CASE ~(op = "DEF_VAR" /\ node.sym = v)
    <3>1. v \in Names(program, pos, n)
      BY <1>1, <1>2, <2>2, NamesStep
    <3>2. /\ v \in DOMAIN vars
          /\ vars[v].home = pos
          /\ vars[v].slot = Binder(program, pos, n, v)
          /\ vars[v].type = TypeOfName(program, pos, n, v)
      BY <1>2, <3>1 DEF Sound, NamesBound
    <3>3. v \in DOMAIN vars' /\ vars'[v] = vars[v]
      BY <1>2, <2>2, <3>2 DEF Put
    <3>4. /\ Binder(program, pos, n + 1, v) = Binder(program, pos, n, v)
          /\ TypeOfName(program, pos, n + 1, v) = TypeOfName(program, pos, n, v)
      <4>1. n \in Nat \ {0}
        BY <1>2
      <4>2. ~(program[pos].body[n].op = "DEF_VAR" /\ program[pos].body[n].sym = v)
        BY <1>1, <2>2
      <4> QED
        BY <4>1, <4>2, BinderStep
    <3> QED
      BY <3>2, <3>3, <3>4
  <2> QED
    BY <2>1, <2>2
<1>4. ValueKnown'
  <2> SUFFICES ASSUME Makers(program, pos, n + 1) # {}
               PROVE  ret' = LLVMType(ValueType(program, pos, n + 1))
    BY <1>1 DEF ValueKnown
  <2>1. CASE op \in Assignments
    <3>1. /\ Makers(program, pos, n + 1) = Makers(program, pos, n)
          /\ ValueType(program, pos, n + 1) = ValueType(program, pos, n)
      BY <1>1, <1>2, <2>1, MakersStep
    <3> QED
      BY <1>1, <1>2, <2>1, <3>1 DEF Sound, ValueKnown
  <2>2. CASE op \notin Assignments
    <3>1. ValueType(program, pos, n + 1) = NodeType(program, pos, n)
      BY <1>1, <1>2, <2>2, MakersStep
    <3> QED
      BY <1>1, <2>2, <3>1
  <2> QED
    BY <2>1, <2>2
<1>5. CodeTranslates'
  <2> SUFFICES ASSUME NEW f \in DOMAIN code', NEW m \in 1 .. Len(code'[f])
               PROVE  Translates(f, m, code[f][m])'
    BY DEF CodeTranslates
  <2>1. CASE f = pos /\ m = n
    <3>1. f \in Callables /\ f <= pos /\ m \in 1 .. Len(program[f].body)
      <4>1. pos <= pos
        BY PosFacts
      <4> QED
        BY <1>1, <2>1, <4>1
    <3>2. UNCHANGED <<program, klass_def_map>>
      BY <1>1
    <3>3. \A i : Translates(f, m, i) => Translates(f, m, i)'
      BY <3>1, <3>2, TranslatesSame
    <3>4. Translates(f, m, ins) /\ code'[f][m] = ins
      BY <1>1, <2>1
    <3> QED
      BY <3>3, <3>4
  <2>2. CASE ~(f = pos /\ m = n)
    <3>1. f \in DOMAIN code /\ m \in 1 .. Len(code[f]) /\ code'[f][m] = code[f][m]
      BY <1>1, <2>2
    <3>2. f \in Callables /\ f <= pos /\ m \in 1 .. Len(program[f].body)
      BY <3>1, CodeOf
    <3>3. Translates(f, m, code[f][m])
      BY <3>1 DEF Sound, CodeTranslates
    <3>4. \A i : Translates(f, m, i) => Translates(f, m, i)'
      BY <1>1, <3>2, TranslatesSame
    <3> QED
      BY <3>1, <3>3, <3>4
  <2> QED
    BY <2>1, <2>2
<1>6. heap' = <<>> /\ phase' = "codegen" /\ at' = 0
  BY <1>1 DEF Sound
<1> QED
  BY <1>3, <1>4, <1>5, <1>6, NoBlocks DEF Sound, ClimbsDown, FramesTyped, Failures
-----------------------------------------------------------------------------
(* Every name a well-typed node uses is in the symbol table and in the map. *)
LEMMA BoundName ==
  ASSUME ShapeInv, WellTyped(program), NamesBound, n # 0, pos \in Callables,
         n \in 1 .. Len(program[pos].body) + 1, NEW v \in Names(program, pos, n)
  PROVE  LET type == TypeOfName(program, pos, n, v) IN
         /\ VariableTrouble(v) = "none"
         /\ v \in DOMAIN vars
         /\ vars[v].slot = Binder(program, pos, n, v)
         /\ vars[v].type = type
         /\ vars[v].types = TypesOf(type)
         /\ IsType(type) /\ MakeTrouble(type) = "none"
         /\ Makeable(program, pos, type)
<1>1. /\ v \in DOMAIN vars /\ vars[v].home = pos
      /\ vars[v].slot = Binder(program, pos, n, v)
      /\ vars[v].type = TypeOfName(program, pos, n, v)
  BY DEF NamesBound
<1>2. VariableTrouble(v) = "none"
  BY <1>1 DEF VariableTrouble
<1>3. /\ IsType(vars[v].type) /\ MakeTrouble(vars[v].type) = "none"
      /\ vars[v].types = TypesOf(vars[v].type)
  BY <1>2, FoundVariable
<1> QED
  BY <1>1, <1>2, <1>3, NameText

LEMMA InternedName ==
  ASSUME ShapeInv, WellTyped(program), NEW f \in Callables,
         NEW m \in 1 .. Len(program[f].body) + 1, NEW v \in Names(program, f, m)
  PROVE  \/ v \in InternedBefore(program, f, m)
         \/ v = This /\ TypeOfName(program, f, m, v).kind = "KLASS"
<1> DEFINE d == program[f]
           ps == ParamsOf(d)
<1>1. Len(ps) \in Nat /\ m \in Nat /\ Len(d.body) \in Nat
  BY CallableText
<1>2. ASSUME NEW h \in 1 .. m - 1, d.body[h].op = "DEF_VAR", d.body[h].sym = v
      PROVE  v \in InternedBefore(program, f, m)
  <2>1. v \in NodeInterns(d.body[h])
    BY <1>2 DEF NodeInterns
  <2> QED
    BY <2>1 DEF InternedBefore, InternedFirst
<1>3. ASSUME NEW j \in 1 .. Len(d.def_args), d.def_args[j].name = v
      PROVE  v \in InternedBefore(program, f, m)
  BY <1>3 DEF InternedBefore, InternedFirst
<1>4. ASSUME NEW j \in 1 .. Len(ps), ps[j].name = v, TypeOfName(program, f, m, v) = ps[j].type
      PROVE  \/ v \in InternedBefore(program, f, m)
             \/ v = This /\ TypeOfName(program, f, m, v).kind = "KLASS"
  <2>1. CASE d.op = "DEF_METHOD" /\ d.def_args # <<>>
    <3>1. /\ Len(ps) = Len(d.def_args) + 1 /\ Len(d.def_args) \in Nat
          /\ ps[1] = [name |-> This, type |-> KlassType(d.klass)]
          /\ \A i \in 1 .. Len(d.def_args) : ps[i + 1] = d.def_args[i]
      BY <2>1, ParamsParts
    <3> HIDE DEF ps, d
    <3>2. CASE j = 1
      BY <1>4, <3>1, <3>2 DEF KlassType
    <3>3. CASE j # 1
      <4>1. j - 1 \in 1 .. Len(d.def_args) /\ (j - 1) + 1 = j
        BY <3>1, <3>3
      <4> QED
        BY <1>3, <1>4, <3>1, <4>1
    <3> QED
      BY <3>2, <3>3
  <2>2. CASE ~(d.op = "DEF_METHOD" /\ d.def_args # <<>>)
    <3>1. ps = d.def_args
      BY <2>2, ParamsParts
    <3> HIDE DEF ps, d
    <3>2. j \in 1 .. Len(d.def_args) /\ d.def_args[j].name = v
      BY <1>4, <3>1
    <3> QED
      BY <1>3, <3>2
  <2> QED
    BY <2>1, <2>2
<1>5. \/ \E j \in 1 .. Len(ps) : ps[j].name = v /\ TypeOfName(program, f, m, v) = ps[j].type
      \/ \E h \in 1 .. m - 1 : d.body[h].op = "DEF_VAR" /\ d.body[h].sym = v
  BY <1>1, BinderIn
<1> HIDE DEF d, ps
<1> QED
  BY <1>2, <1>4, <1>5

LEMMA NameSymbol ==
  ASSUME ShapeInv, WellTyped(program), NEW f \in Callables,
         NEW m \in 1 .. Len(program[f].body), NEW v \in Names(program, f, m),
         program[f].body[m].sym = v,
         program[f].body[m].op \in {"SET_MEMBER_VAR", "GET_VAR", "SET_VAR"}
  PROVE  v \in InternedBefore(program, f, m)
<1>1. m \in 1 .. Len(program[f].body) + 1 /\ f \in 1 .. Len(program) /\ Len(program) \in Nat
      /\ program[f].op # "DEF_CLASS"
  BY CallableText, PosFacts
<1>2. CASE v = "this"
  <2>1. PICK j \in 1 .. f : /\ program[j].op # "DEF_CLASS"
                            /\ \E h \in 1 .. Len(program[j].body) :
                                 /\ j < f \/ h < m
                                 /\ program[j].body[h].op = "GET_MEMBER_VAR"
                                 /\ program[j].body[h].sym = "this"
    BY <1>1, <1>2 DEF WellTyped, ThisIsReadFirst
  <2>2. PICK h \in 1 .. Len(program[j].body) :
          /\ j < f \/ h < m
          /\ program[j].body[h].op = "GET_MEMBER_VAR"
          /\ program[j].body[h].sym = "this"
    BY <2>1
  <2>3. v \in NodeInterns(program[j].body[h])
    BY <1>2, <2>2 DEF NodeInterns
  <2>4. CASE j < f
    <3>1. v \in DeclInterns(program[j])
      BY <2>1, <2>3 DEF DeclInterns
    <3>2. j \in 1 .. f - 1
      BY <1>1, <2>4
    <3> QED
      BY <3>1, <3>2 DEF InternedBefore, InternedFirst
  <2>5. CASE ~(j < f)
    <3>1. j = f /\ h \in 1 .. m - 1
      BY <1>1, <2>2, <2>5
    <3> QED
      BY <2>3, <3>1 DEF InternedBefore, InternedFirst
  <2> QED
    BY <2>4, <2>5
<1>3. CASE v # "this"
  BY <1>1, <1>3, InternedName DEF This
<1> QED
  BY <1>2, <1>3

LEMMA MemberSymbol ==
  ASSUME ShapeInv, WellTyped(program), NEW k \in DOMAIN klass_def_map,
         NEW member \in Members(program, k), NEW m
  PROVE  member \in InternedBefore(program, pos, m)
<1>1. PICK a \in Ancestors(program, k) : member \in OwnMembers(program, a)
  BY DEF Members
<1>2. /\ program \in Programs /\ k \in AllClasses(program) /\ DeclOf(program, k) < pos
      /\ DeclOf(program, k) \in Decls(program, "DEF_CLASS")
  BY CompiledClass, PosFacts
<1>3. DeclOf(program, a) <= DeclOf(program, k) /\ a \in AllClasses(program)
  BY <1>2, AncestorsEarlier
<1>4. /\ DeclOf(program, a) \in 1 .. pos - 1
      /\ program[DeclOf(program, a)].op = "DEF_CLASS"
  <2>1. DeclOf(program, a) \in Decls(program, "DEF_CLASS") /\ Len(program) \in Nat
    <3>1. Len(program) \in Nat
      BY PosFacts
    <3>2. Len(program) + 1 \in 1 .. Len(program) + 1
      BY <3>1
    <3> QED
      BY <1>2, <1>3, <3>1, <3>2, ClassNames DEF AllClasses
  <2> QED
    BY <1>2, <1>3, <2>1, PosFacts DEF Decls
<1>5. member \in DeclInterns(program[DeclOf(program, a)])
  BY <1>1, <1>4 DEF OwnMembers, DeclInterns
<1> QED
  BY <1>4, <1>5 DEF InternedBefore, InternedFirst
-----------------------------------------------------------------------------
(* Compiling one node after the other: no failure, and the right code.     *)
LEMMA ConstantSound ==
  ASSUME ShapeInv, WellTyped(program), Sound, BlocksTyped, exec_value
  PROVE  Sound' /\ BlocksTyped'
<1> DEFINE ins == [i |-> "const", val |-> Node.val]
<1>1. /\ Compiling("VALUEDATA") /\ Emit(ins, LLVMType(Node.type)) /\ UNCHANGED vars
  BY DEF exec_value
<1>2. /\ Node = program[pos].body[n] /\ Node.op = "VALUEDATA"
  BY <1>1, CompilingText
<1>3. Translates(pos, n, ins)
  BY <1>2 DEF Translates
<1>4. LLVMType(Node.type) = LLVMType(NodeType(program, pos, n))
  BY <1>2 DEF NodeType
<1> HIDE DEF ins
<1> QED
  BY <1>1, <1>3, <1>4, EmitSound DEF Assignments

LEMMA MadeType ==
  ASSUME ShapeInv, WellTyped(program), pos \in Callables, NEW type, IsType(type),
         Makeable(program, pos, type), NEW ins, ins.type = type, ins.types = TypesOf(type),
         ins.id = IdOf(type)
  PROVE  MakeTrouble(type) = "none" /\ Allocates(ins, type)
<1>1. pos <= pos
  BY PosFacts
<1> QED
  BY <1>1, MakeableMade, MakeableClass DEF Allocates

LEMMA DefVarSound ==
  ASSUME ShapeInv, WellTyped(program), Sound, BlocksTyped, exec_def_var_codegen
  PROVE  Sound' /\ BlocksTyped'
<1> DEFINE ins == [i |-> "def", slot |-> n, type |-> Node.type,
                   types |-> TypesOf(Node.type), id |-> IdOf(Node.type)]
<1>1. Compiling("DEF_VAR")
  BY DEF exec_def_var_codegen
<1>2. /\ pos \in Callables /\ n \in 1 .. Len(program[pos].body)
      /\ Node = program[pos].body[n] /\ Node.op = "DEF_VAR"
      /\ NodeTypes(program, pos, n)
  BY <1>1, CompilingText
<1>3. IsType(Node.type) /\ Makeable(program, pos, Node.type)
  BY <1>2, DefinedText
<1>4. MakeTrouble(Node.type) = "none" /\ Allocates(ins, Node.type)
  BY <1>2, <1>3, MadeType
<1>5. Emit(ins, "i32") /\ vars' = Put(vars, Node.sym, NewVariable(n, Node.type))
  BY <1>4 DEF exec_def_var_codegen
<1>6. Translates(pos, n, ins)
  BY <1>2, <1>4 DEF Translates
<1>7. "i32" = LLVMType(NodeType(program, pos, n))
  BY <1>2 DEF NodeType, LLVMType, Basic
<1> HIDE DEF ins
<1> QED
  BY <1>1, <1>5, <1>6, <1>7, EmitSound DEF Assignments

LEMMA NewClassSound ==
  ASSUME ShapeInv, WellTyped(program), Sound, BlocksTyped, exec_new_class_codegen
  PROVE  Sound' /\ BlocksTyped'
<1> DEFINE ins == [i |-> "new", type |-> Node.type,
                   types |-> TypesOf(Node.type), id |-> IdOf(Node.type)]
<1>1. Compiling("NEW_CLASS")
  BY DEF exec_new_class_codegen
<1>2. /\ pos \in Callables /\ n \in 1 .. Len(program[pos].body)
      /\ Node = program[pos].body[n] /\ Node.op = "NEW_CLASS"
      /\ NodeTypes(program, pos, n)
  BY <1>1, CompilingText
<1>3. Node.type.kind = "KLASS" /\ Makeable(program, pos, Node.type)
  BY <1>2 DEF NodeTypes
<1>4. IsType(Node.type)
  BY <1>2, CallableShape
<1>5. MakeTrouble(Node.type) = "none" /\ Allocates(ins, Node.type)
  BY <1>2, <1>3, <1>4, MadeType
<1>6. Emit(ins, "ptr") /\ UNCHANGED vars
  BY <1>3, <1>5 DEF exec_new_class_codegen
<1>7. Translates(pos, n, ins)
  BY <1>2, <1>5 DEF Translates
<1>8. "ptr" = LLVMType(NodeType(program, pos, n))
  BY <1>2, <1>3 DEF NodeType, LLVMType
<1> HIDE DEF ins
<1> QED
  BY <1>1, <1>6, <1>7, <1>8, EmitSound DEF Assignments

LEMMA GetVarSound ==
  ASSUME ShapeInv, WellTyped(program), Sound, BlocksTyped, exec_get_var_codegen
  PROVE  Sound' /\ BlocksTyped'
<1> DEFINE ins == [i |-> "load", slot |-> vars[Node.sym].slot]
           type == TypeOfName(program, pos, n, Node.sym)
<1>1. Compiling("GET_VAR")
  BY DEF exec_get_var_codegen
<1>2. /\ pos \in Callables /\ n \in 1 .. Len(program[pos].body) /\ n # 0
      /\ Node = program[pos].body[n] /\ Node.op = "GET_VAR"
      /\ NodeTypes(program, pos, n) /\ NamesBound
      /\ n \in 1 .. Len(program[pos].body) + 1
  BY <1>1, CompilingText, CallableText
<1>3. Node.sym \in Names(program, pos, n)
  BY <1>2 DEF NodeTypes
<1>4. /\ VariableTrouble(Node.sym) = "none"
      /\ vars[Node.sym].slot = Binder(program, pos, n, Node.sym)
      /\ vars[Node.sym].type = type
  BY <1>2, <1>3, BoundName
<1>5. ~NullSymbol(Node.sym)
  BY <1>2, <1>3, NameSymbol DEF NullSymbol
<1>6. Emit(ins, LLVMType(type)) /\ UNCHANGED vars
  BY <1>4, <1>5 DEF exec_get_var_codegen
<1>7. Translates(pos, n, ins)
  BY <1>2, <1>4 DEF Translates
<1>8. type = NodeType(program, pos, n)
  BY <1>2 DEF NodeType
<1> HIDE DEF ins, type
<1> QED
  BY <1>1, <1>6, <1>7, <1>8, EmitSound DEF Assignments

LEMMA SetVarSound ==
  ASSUME ShapeInv, WellTyped(program), Sound, BlocksTyped, exec_set_var_codegen
  PROVE  Sound' /\ BlocksTyped'
<1> DEFINE ins == [i |-> "store", slot |-> vars[Node.sym].slot]
           type == TypeOfName(program, pos, n, Node.sym)
           value == ValueType(program, pos, n)
<1>1. Compiling("SET_VAR")
  BY DEF exec_set_var_codegen
<1>2. /\ pos \in Callables /\ n \in 1 .. Len(program[pos].body) /\ n # 0
      /\ Node = program[pos].body[n] /\ Node.op = "SET_VAR"
      /\ NodeTypes(program, pos, n) /\ NamesBound /\ ValueKnown
      /\ n \in 1 .. Len(program[pos].body) + 1
  BY <1>1, CompilingText, CallableText
<1>3. Node.sym \in Names(program, pos, n) /\ Assignable(program, value, type)
  BY <1>2 DEF NodeTypes
<1>4. /\ VariableTrouble(Node.sym) = "none"
      /\ vars[Node.sym].slot = Binder(program, pos, n, Node.sym)
      /\ vars[Node.sym].type = type
      /\ IsType(type)
  BY <1>2, <1>3, BoundName
<1>5. ~NullSymbol(Node.sym)
  BY <1>2, <1>3, NameSymbol DEF NullSymbol
<1>6. LLVMType(value) = LLVMType(type) /\ value.kind # "ANY"
  <2>1. type.kind \in Kinds
    BY <1>4 DEF IsType
  <2> HIDE DEF type, value
  <2> QED
    BY <1>3, <2>1, AssignableType
<1>7. MayStore(LLVMType(vars[Node.sym].type))
  BY <1>2, <1>4, <1>6, ValueFits DEF MayStore
<1>8. Emit(ins, ret) /\ UNCHANGED vars
  BY <1>4, <1>5, <1>7 DEF exec_set_var_codegen
<1>9. Translates(pos, n, ins)
  BY <1>2, <1>4 DEF Translates
<1> HIDE DEF ins, type, value
<1> QED
  BY <1>1, <1>8, <1>9, EmitSound DEF Assignments
-----------------------------------------------------------------------------
(* A member: its field is in the layout of the class of the variable.      *)
LEMMA MemberText ==
  ASSUME ShapeInv, WellTyped(program), Sound,
         NEW op \in {"GET_MEMBER_VAR", "SET_MEMBER_VAR"}, Compiling(op)
  PROVE  LET type == TypeOfName(program, pos, n, Node.sym)
             k    == type.klass
         IN  /\ Node.sym \in Names(program, pos, n)
             /\ type.kind = "KLASS" /\ k \in DOMAIN klass_def_map
             /\ Node.member \in Members(program, k)
             /\ ~NullSymbol(Node.member)
             /\ MemberTrouble(Node.sym, Node.member) = "none"
             /\ vars[Node.sym].slot = Binder(program, pos, n, Node.sym)
             /\ vars[Node.sym].type = type
             /\ vars[Node.sym].types = FieldTypes(k)
             /\ \A i : Cell(MemberOf(i, Node.sym, Node.member))
                         = LLVMType(Basic(MemberKind(program, k, Node.member)))
             /\ MemberKind(program, k, Node.member) \in Kinds
<1> DEFINE type == TypeOfName(program, pos, n, Node.sym)
           k == type.klass
           member == Node.member
<1>1. /\ pos \in Callables /\ n \in 1 .. Len(program[pos].body) /\ n # 0
      /\ Node = program[pos].body[n] /\ Node.op = op
      /\ NodeTypes(program, pos, n) /\ NamesBound
      /\ n \in 1 .. Len(program[pos].body) + 1
      /\ pos <= pos
  BY CompilingText, CallableText, PosFacts
<1>2. HasMemberNamed(program, pos, n, Node.sym, member)
  BY <1>1 DEF NodeTypes
<1>3. /\ Node.sym \in Names(program, pos, n) /\ type.kind = "KLASS"
      /\ member \in Members(program, k)
  BY <1>2 DEF HasMemberNamed, HasNamed
<1>4. /\ VariableTrouble(Node.sym) = "none" /\ Node.sym \in DOMAIN vars
      /\ vars[Node.sym].slot = Binder(program, pos, n, Node.sym)
      /\ vars[Node.sym].type = type
      /\ vars[Node.sym].types = TypesOf(type)
      /\ Makeable(program, pos, type)
  BY <1>1, <1>3, BoundName
<1>5. k \in DOMAIN klass_def_map
  BY <1>1, <1>3, <1>4, MakeableClass
<1>6. ~NullSymbol(member)
  BY <1>3, <1>5, MemberSymbol DEF NullSymbol
<1>7. /\ getFieldDistance(Fields(k), member) # -1
      /\ FieldTypes(k)[FieldIndex(k, member)] = LLVMType(Fields(k)[FieldIndex(k, member)])
      /\ Fields(k)[FieldIndex(k, member)].kind \in Integral \cup {"DOUBLE", "STRING"}
      /\ MemberKind(program, k, member) = Fields(k)[FieldIndex(k, member)].kind
  BY <1>3, <1>5, MemberIndex, MemberKindIs
<1>8. MemberTrouble(Node.sym, member) = "none"
  BY <1>3, <1>4, <1>7 DEF MemberTrouble, HasMember
<1>9. vars[Node.sym].types = FieldTypes(k)
  BY <1>3, <1>4 DEF TypesOf
<1>10. \A i : Cell(MemberOf(i, Node.sym, member)) = FieldTypes(k)[FieldIndex(k, member)]
  BY <1>4, <1>9 DEF Cell, MemberOf, Through
<1>11. \A x : LLVMType(x) = LLVMType(Basic(x.kind))
  BY DEF LLVMType, Basic
<1>12. MemberKind(program, k, member) \in Kinds
  BY <1>7 DEF Kinds, Integral
<1> HIDE DEF type, k, member
<1>13. \A i : Cell(MemberOf(i, Node.sym, member)) = LLVMType(Basic(MemberKind(program, k, member)))
  BY <1>7, <1>10, <1>11
<1> QED
  BY <1>3, <1>4, <1>5, <1>6, <1>8, <1>9, <1>12, <1>13 DEF type, k, member

LEMMA GetMemberSound ==
  ASSUME ShapeInv, WellTyped(program), Sound, BlocksTyped, exec_get_member_var_codegen
  PROVE  Sound' /\ BlocksTyped'
<1> DEFINE ins == MemberOf("get", Node.sym, Node.member)
           k == TypeOfName(program, pos, n, Node.sym).klass
<1>1. Compiling("GET_MEMBER_VAR")
  BY DEF exec_get_member_var_codegen
<1>2. Node = program[pos].body[n] /\ Node.op = "GET_MEMBER_VAR"
  BY <1>1, CompilingText
<1>3. /\ ~NullSymbol(Node.member)
      /\ MemberTrouble(Node.sym, Node.member) = "none"
      /\ vars[Node.sym].slot = Binder(program, pos, n, Node.sym)
      /\ vars[Node.sym].type = TypeOfName(program, pos, n, Node.sym)
      /\ vars[Node.sym].types = FieldTypes(k)
      /\ Cell(ins) = LLVMType(Basic(MemberKind(program, k, Node.member)))
  BY <1>1, MemberText
<1>4. Emit(ins, Cell(ins)) /\ UNCHANGED vars
  BY <1>3 DEF exec_get_member_var_codegen
<1>5. Translates(pos, n, ins)
  BY <1>2, <1>3 DEF Translates, MemberOf, Through
<1>6. Cell(ins) = LLVMType(NodeType(program, pos, n))
  BY <1>2, <1>3 DEF NodeType
<1> HIDE DEF ins
<1> QED
  BY <1>1, <1>4, <1>5, <1>6, EmitSound DEF Assignments

LEMMA SetMemberSound ==
  ASSUME ShapeInv, WellTyped(program), Sound, BlocksTyped, exec_set_member_var_codegen
  PROVE  Sound' /\ BlocksTyped'
<1> DEFINE ins == MemberOf("set", Node.sym, Node.member)
           k == TypeOfName(program, pos, n, Node.sym).klass
           value == ValueType(program, pos, n)
           kind == MemberKind(program, k, Node.member)
<1>1. Compiling("SET_MEMBER_VAR")
  BY DEF exec_set_member_var_codegen
<1>2. /\ pos \in Callables /\ n \in 1 .. Len(program[pos].body) /\ n # 0
      /\ Node = program[pos].body[n] /\ Node.op = "SET_MEMBER_VAR"
      /\ NodeTypes(program, pos, n) /\ ValueKnown
  BY <1>1, CompilingText
<1>3. /\ Node.sym \in Names(program, pos, n)
      /\ ~NullSymbol(Node.member)
      /\ MemberTrouble(Node.sym, Node.member) = "none"
      /\ vars[Node.sym].slot = Binder(program, pos, n, Node.sym)
      /\ vars[Node.sym].type = TypeOfName(program, pos, n, Node.sym)
      /\ vars[Node.sym].types = FieldTypes(k)
      /\ Cell(ins) = LLVMType(Basic(kind))
      /\ kind \in Kinds
  BY <1>1, MemberText
<1>4. ~NullSymbol(Node.sym)
  BY <1>2, <1>3, NameSymbol DEF NullSymbol
<1>5. SameKind(value.kind, kind)
  BY <1>2 DEF NodeTypes
<1>6. LLVMType(value) = LLVMType(Basic(kind)) /\ value.kind # "ANY"
  <2>1. Basic(kind).kind = kind
    BY DEF Basic
  <2> HIDE DEF kind, value
  <2> QED
    BY <1>3, <1>5, <2>1, SameKindType
<1>7. MayStore(Cell(ins))
  BY <1>2, <1>3, <1>6, ValueFits DEF MayStore
<1>8. Emit(ins, ret) /\ UNCHANGED vars
  BY <1>3, <1>4, <1>7 DEF exec_set_member_var_codegen
<1>9. Translates(pos, n, ins)
  BY <1>2, <1>3 DEF Translates, MemberOf, Through
<1> HIDE DEF ins
<1> QED
  BY <1>1, <1>8, <1>9, EmitSound DEF Assignments

(* An element of an array: its index is constant and within the array.     *)
LEMMA ElementText ==
  ASSUME ShapeInv, WellTyped(program), Sound,
         NEW op \in {"GET_ARRAY_VAR", "SET_ARRAY_VAR"}, Compiling(op)
  PROVE  LET type == TypeOfName(program, pos, n, Node.sym) IN
         /\ ElementTrouble(Node.sym, Node.index) = "none"
         /\ op = "SET_ARRAY_VAR" => ~NullSymbol(Node.sym)
         /\ vars[Node.sym].slot = Binder(program, pos, n, Node.sym)
         /\ vars[Node.sym].type = type
         /\ vars[Node.sym].types = ElemTypes(type)
         /\ type.elem_kind \in Kinds
<1> DEFINE type == TypeOfName(program, pos, n, Node.sym)
<1>1. /\ pos \in Callables /\ n \in 1 .. Len(program[pos].body) /\ n # 0
      /\ Node = program[pos].body[n] /\ Node.op = op
      /\ NodeTypes(program, pos, n) /\ NamesBound
      /\ n \in 1 .. Len(program[pos].body) + 1
  BY CompilingText, CallableText
<1>2. HasElement(program, pos, n, Node.sym, Node.index)
  BY <1>1 DEF NodeTypes
<1>3. /\ Node.sym \in Names(program, pos, n) /\ type.kind = "ARRAY"
      /\ Node.index \in 0 .. type.size - 1
  BY <1>2 DEF HasElement, HasNamed
<1>4. /\ VariableTrouble(Node.sym) = "none" /\ Node.sym \in DOMAIN vars
      /\ vars[Node.sym].slot = Binder(program, pos, n, Node.sym)
      /\ vars[Node.sym].type = type
      /\ vars[Node.sym].types = TypesOf(type)
      /\ IsType(type)
  BY <1>1, <1>3, BoundName
<1>5. ~NullSymbol(Node.sym)
  BY <1>1, <1>3, InternedName DEF NullSymbol
<1>6. type.elem_kind \in Kinds /\ type.size \in Int
  BY <1>3, <1>4 DEF IsType
<1> HIDE DEF type
<1>7. Node.index # NotConstant
  BY <1>3, <1>6 DEF NotConstant
<1>8. ElementTrouble(Node.sym, Node.index) = "none"
  BY <1>3, <1>4, <1>7 DEF ElementTrouble
<1>9. vars[Node.sym].types = ElemTypes(type)
  BY <1>3, <1>4 DEF TypesOf
<1> QED
  BY <1>4, <1>5, <1>6, <1>8, <1>9 DEF type

LEMMA GetElementSound ==
  ASSUME ShapeInv, WellTyped(program), Sound, BlocksTyped, exec_get_array_var_codegen
  PROVE  Sound' /\ BlocksTyped'
<1> DEFINE ins == Through("get", Node.sym, Node.index + 1)
           t == LLVMType([kind |-> vars[Node.sym].type.elem_kind])
<1>1. Compiling("GET_ARRAY_VAR")
  BY DEF exec_get_array_var_codegen
<1>2. Node = program[pos].body[n] /\ Node.op = "GET_ARRAY_VAR"
  BY <1>1, CompilingText
<1>3. /\ ElementTrouble(Node.sym, Node.index) = "none"
      /\ vars[Node.sym].slot = Binder(program, pos, n, Node.sym)
      /\ vars[Node.sym].type = TypeOfName(program, pos, n, Node.sym)
      /\ vars[Node.sym].types = ElemTypes(TypeOfName(program, pos, n, Node.sym))
  BY <1>1, ElementText
<1>4. Emit(ins, t) /\ UNCHANGED vars
  BY <1>3 DEF exec_get_array_var_codegen
<1>5. Translates(pos, n, ins)
  BY <1>2, <1>3 DEF Translates, Through
<1>6. t = LLVMType(NodeType(program, pos, n))
  BY <1>2, <1>3 DEF NodeType, LLVMType, Basic
<1> HIDE DEF ins, t
<1> QED
  BY <1>1, <1>4, <1>5, <1>6, EmitSound DEF Assignments

LEMMA SetElementSound ==
  ASSUME ShapeInv, WellTyped(program), Sound, BlocksTyped, exec_set_array_var_codegen
  PROVE  Sound' /\ BlocksTyped'
<1> DEFINE ins == Through("set", Node.sym, Node.index + 1)
           type == TypeOfName(program, pos, n, Node.sym)
           value == ValueType(program, pos, n)
<1>1. Compiling("SET_ARRAY_VAR")
  BY DEF exec_set_array_var_codegen
<1>2. /\ n # 0 /\ Node = program[pos].body[n] /\ Node.op = "SET_ARRAY_VAR"
      /\ NodeTypes(program, pos, n) /\ ValueKnown
  BY <1>1, CompilingText
<1>3. /\ ElementTrouble(Node.sym, Node.index) = "none"
      /\ ~NullSymbol(Node.sym)
      /\ vars[Node.sym].slot = Binder(program, pos, n, Node.sym)
      /\ vars[Node.sym].type = type
      /\ vars[Node.sym].types = ElemTypes(type)
      /\ type.elem_kind \in Kinds
  BY <1>1, ElementText
<1>4. SameKind(value.kind, type.elem_kind)
  BY <1>2 DEF NodeTypes
<1>5. LLVMType(value) = LLVMType([kind |-> type.elem_kind]) /\ value.kind # "ANY"
  <2> HIDE DEF type, value
  <2> QED
    BY <1>3, <1>4, SameKindType
<1>6. MayStore(LLVMType([kind |-> vars[Node.sym].type.elem_kind]))
  BY <1>2, <1>3, <1>5, ValueFits DEF MayStore
<1>7. Emit(ins, ret) /\ UNCHANGED vars
  BY <1>3, <1>6 DEF exec_set_array_var_codegen
<1>8. Translates(pos, n, ins)
  BY <1>2, <1>3 DEF Translates, Through
<1> HIDE DEF ins
<1> QED
  BY <1>1, <1>7, <1>8, EmitSound DEF Assignments
-----------------------------------------------------------------------------
(* Statements, calls and the end of a function.                            *)
LEMMA PrintSound ==
  ASSUME ShapeInv, WellTyped(program), Sound, BlocksTyped, exec_print_codegen
  PROVE  Sound' /\ BlocksTyped'
<1> DEFINE ins == [i |-> "print", type |-> ret]
           value == ValueType(program, pos, n)
<1>1. Compiling("PRINTDATA") /\ Emit(ins, "i32") /\ UNCHANGED vars
  BY DEF exec_print_codegen
<1>2. /\ n \in 1 .. Len(program[pos].body) /\ n # 0
      /\ Node = program[pos].body[n] /\ Node.op = "PRINTDATA"
      /\ NodeTypes(program, pos, n) /\ ValueKnown
  BY <1>1, CompilingText
<1>3. ret = LLVMType(value)
  <2>1. \/ value.kind \in Integral \cup {"DOUBLE"}
        \/ n > 1 /\ program[pos].body[n - 1].op = "VALUEDATA"
    BY <1>2 DEF NodeTypes
  <2>2. CASE value.kind \in Integral \cup {"DOUBLE"}
    <3>1. value.kind # "ANY"
      BY <2>2 DEF Integral
    <3> QED
      BY <1>2, <3>1, ValueFits
  <2>3. CASE n > 1 /\ program[pos].body[n - 1].op = "VALUEDATA"
    <3>1. n - 1 \in 1 .. n - 1
      BY <1>2, <2>3
    <3>2. n - 1 \in Makers(program, pos, n)
      BY <2>3, <3>1 DEF Makers, Assignments
    <3> QED
      BY <1>2, <3>2 DEF ValueKnown
  <2> QED
    BY <2>1, <2>2, <2>3
<1>4. Translates(pos, n, ins)
  BY <1>2, <1>3 DEF Translates
<1>5. "i32" = LLVMType(NodeType(program, pos, n))
  BY <1>2 DEF NodeType, LLVMType, Basic
<1> HIDE DEF ins
<1> QED
  BY <1>1, <1>4, <1>5, EmitSound DEF Assignments

(* The declaration a call means is the one lookup_func finds. *)
LEMMA CalleeFound ==
  ASSUME ShapeInv, WellTyped(program), NEW g \in Callables
  PROVE  /\ lookup_func(program[g].sym) = g
         /\ Callee(program, program[g].sym) = g
         /\ g # 0
<1>1. g \in 1 .. Len(program) /\ Callable(program[g]) /\ program \in Programs
      /\ Len(program) \in Nat
  BY PosFacts DEF Callables
<1>2. {j \in 1 .. Len(program) : Callable(program[j]) /\ program[j].sym = program[g].sym} = {g}
  BY <1>1 DEF WellTyped
<1>3. lookup_func(program[g].sym) = g
  BY <1>2 DEF lookup_func
<1> QED
  BY <1>1, <1>3, UniqueNames

(* The program starts in main, which has no parameters. *)
LEMMA MainText ==
  ASSUME ShapeInv, WellTyped(program)
  PROVE  LET i == Callee(program, Main) IN
         /\ i \in Callables /\ i \in Decls(program, "DEF_FUNC")
         /\ program[i].sym = Main /\ program[i].def_args = <<>>
         /\ lookup_func(Main) = i /\ i # 0
<1>1. PICK i \in Decls(program, "DEF_FUNC") : program[i].sym = Main /\ program[i].def_args = <<>>
  BY DEF WellTyped, Main
<1>2. i \in Callables
  BY <1>1 DEF Decls, Callables, Callable
<1>3. lookup_func(Main) = i /\ Callee(program, Main) = i /\ i # 0
  BY <1>1, <1>2, CalleeFound
<1> QED
  BY <1>1, <1>2, <1>3

LEMMA ArgumentFit ==
  ASSUME ShapeInv, WellTyped(program), ValueKnown, n # 0, NEW g \in Callables, NEW given,
         given \/ program[g].def_args = <<>>,
         FitsArgument(program, g, ValueType(program, pos, n))
  PROVE  ArgumentFits(program[g], given)
<1> DEFINE value == ValueType(program, pos, n)
           arg == program[g].def_args[1].type
<1> SUFFICES ASSUME program[g].def_args # <<>>
             PROVE  given /\ ret = LLVMType(arg)
  BY DEF ArgumentFits
<1>1. given
  OBVIOUS
<1>2. Len(program[g].def_args) = 1 /\ Assignable(program, value, arg)
  BY DEF FitsArgument
<1>3. IsType(arg)
  BY <1>2, CallableShape
<1>4. LLVMType(value) = LLVMType(arg) /\ value.kind # "ANY"
  <2>1. arg.kind \in Kinds
    BY <1>3 DEF IsType
  <2> HIDE DEF arg, value
  <2> QED
    BY <1>2, <2>1, AssignableType
<1>5. ret = LLVMType(arg)
  BY <1>4, ValueFits
<1> QED
  BY <1>1, <1>5

LEMMA CallFuncSound ==
  ASSUME ShapeInv, WellTyped(program), Sound, BlocksTyped, exec_call_func_codegen
  PROVE  Sound' /\ BlocksTyped'
<1>1. Compiling("CALL_FUNC")
  BY DEF exec_call_func_codegen
<1>2. /\ pos \in Callables /\ n \in 1 .. Len(program[pos].body) /\ n # 0
      /\ Node = program[pos].body[n] /\ Node.op = "CALL_FUNC"
      /\ NodeTypes(program, pos, n) /\ ValueKnown
  BY <1>1, CompilingText
<1>3. PICK g \in Decls(program, "DEF_FUNC") \cap (1 .. pos - 1) :
        /\ program[g].sym = Node.sym
        /\ Node.set_args \/ program[g].def_args = <<>>
        /\ FitsArgument(program, g, ValueType(program, pos, n))
  BY <1>2 DEF NodeTypes
<1>4. g \in Callables
  BY <1>3 DEF Decls, Callables, Callable
<1>5. lookup_func(Node.sym) = g /\ Callee(program, Node.sym) = g /\ g # 0
  BY <1>3, <1>4, CalleeFound
<1>6. ArgumentFits(program[g], Node.set_args)
  BY <1>2, <1>3, <1>4, ArgumentFit
<1> DEFINE ins == [i |-> "call", to |-> g]
<1>7. Emit(ins, LLVMType(program[g].type)) /\ UNCHANGED vars
  BY <1>5, <1>6 DEF exec_call_func_codegen
<1>8. Translates(pos, n, ins)
  BY <1>2, <1>5 DEF Translates
<1>9. program[g].type = NodeType(program, pos, n)
  BY <1>2, <1>5 DEF NodeType
<1> HIDE DEF ins
<1> QED
  BY <1>1, <1>7, <1>8, <1>9, EmitSound DEF Assignments

LEMMA CallMethodSound ==
  ASSUME ShapeInv, WellTyped(program), Sound, BlocksTyped, exec_call_method_codegen
  PROVE  BlocksTyped' /\ (Sound' \/ Excused')
<1>1. Compiling("CALL_METHOD")
  BY DEF exec_call_method_codegen
<1>2. /\ pos \in Callables /\ n \in 1 .. Len(program[pos].body) /\ n # 0
      /\ Node = program[pos].body[n] /\ Node.op = "CALL_METHOD"
      /\ NodeTypes(program, pos, n) /\ ValueKnown /\ NamesBound
      /\ n \in 1 .. Len(program[pos].body) + 1
  BY <1>1, CompilingText, CallableText
<1>3. PICK g \in Decls(program, "DEF_METHOD") \cap (1 .. pos - 1) :
        /\ program[g].sym = Node.sym
        /\ Node.reciever \in Names(program, pos, n)
        /\ TypeOfName(program, pos, n, Node.reciever) = KlassType(program[g].klass)
        /\ FitsArgument(program, g, ValueType(program, pos, n))
  BY <1>2 DEF NodeTypes
<1>4. g \in Callables /\ program[g].op = "DEF_METHOD"
  BY <1>3 DEF Decls, Callables, Callable
<1>5. lookup_func(Node.sym) = g /\ Callee(program, Node.sym) = g /\ g # 0
  BY <1>3, <1>4, CalleeFound
<1>6. ArgumentFits(program[g], TRUE)
  BY <1>2, <1>3, <1>4, ArgumentFit
<1>7. /\ VariableTrouble(Node.reciever) = "none"
      /\ vars[Node.reciever].slot = Binder(program, pos, n, Node.reciever)
      /\ vars[Node.reciever].type = KlassType(program[g].klass)
  BY <1>2, <1>3, BoundName
<1>8. vars[Node.reciever].type.kind = "KLASS" /\ vars[Node.reciever].type.klass = program[g].klass
  BY <1>7 DEF KlassType
<1>9. CASE OffTheArray(program[g].klass)
  <2>1. Stop("undefined")
    BY <1>5, <1>6, <1>7, <1>8, <1>9 DEF exec_call_method_codegen
  <2>2. phase' = "undefined" /\ UNCHANGED <<program, heap>> /\ heap = <<>>
    BY <1>2, <2>1, CompilingText, <1>1 DEF Stop, Fail, run_vars, Sound
  <2>3. program[g].klass \in DOMAIN klass_def_map
    <3>1. MakeTrouble(vars[Node.reciever].type) = "none"
      BY <1>7, FoundVariable
    <3> QED
      BY <1>8, <3>1 DEF MakeTrouble
  <2>4. ~RowsSuffice(program)
    BY <1>9, <2>3, RowFits
  <2> QED
    BY <2>2, <2>4, NoBlocks DEF Excused
<1>10. CASE ~OffTheArray(program[g].klass)
  <2> DEFINE ins == [i |-> "send", slot |-> vars[Node.reciever].slot,
                     row |-> getDefId(program[g].klass), as |-> g]
  <2>1. Emit(ins, LLVMType(program[g].type)) /\ UNCHANGED vars
    BY <1>5, <1>6, <1>7, <1>8, <1>10 DEF exec_call_method_codegen
  <2>2. getDefId(program[g].klass) =
          Row(program, pos, TypeOfName(program, pos, n, Node.reciever).klass)
    BY <1>3, RowNow DEF KlassType
  <2>3. Translates(pos, n, ins)
    BY <1>2, <1>5, <1>7, <2>2 DEF Translates
  <2>4. program[g].type = NodeType(program, pos, n)
    BY <1>2, <1>5 DEF NodeType
  <2> HIDE DEF ins
  <2> QED
    BY <1>1, <2>1, <2>3, <2>4, EmitSound DEF Assignments
<1> QED
  BY <1>9, <1>10

LEMMA MakeReturnSound ==
  ASSUME ShapeInv, WellTyped(program), Sound, BlocksTyped, makeReturn
  PROVE  BlocksTyped' /\ (Sound' \/ Excused')
<1> DEFINE value == ValueType(program, pos, n)
           type == program[pos].type
<1>1. /\ phase = "codegen" /\ at = 0 /\ n # 0 /\ n > Len(program[pos].body)
      /\ n <= Len(program[pos].body) + 1 /\ n \in Nat
      /\ pos \in Callables /\ Len(program[pos].body) \in Nat
      /\ heap = <<>>
  BY PosFacts, CallableText DEF makeReturn, ShapeInv, Progress, Here, Sound
<1>2. n = Len(program[pos].body) + 1
  BY <1>1
<1>3. Assignable(program, value, type) /\ IsType(type)
  BY <1>1, <1>2, CallableText DEF CallableTypes
<1>4. LLVMType(value) = LLVMType(type) /\ value.kind # "ANY"
  <2>1. type.kind \in Kinds
    BY <1>3 DEF IsType
  <2> HIDE DEF type, value
  <2> QED
    BY <1>3, <2>1, AssignableType
<1>5. MayStore(LLVMType(Here.type))
  BY <1>1, <1>4, ValueFits DEF MayStore, Here, Sound
<1>6. CASE Stop("undefined") /\ \E k \in WithMethod : OffTheArray(k)
  <2>1. phase' = "undefined" /\ UNCHANGED <<program, heap>>
    BY <1>6 DEF Stop, Fail, run_vars
  <2>2. ~RowsSuffice(program)
    BY <1>6, RowFits DEF WithMethod
  <2> QED
    BY <1>1, <2>1, <2>2, NoBlocks DEF Excused
<1>7. CASE n' = 0 /\ UNCHANGED <<program, phase, at, climb, klass_def_map, ret, vars, code,
                                 heap, stack, out>>
  <2>1. CodeTranslates'
    BY <1>7, CodeTranslatesGrow DEF Sound, Grows
  <2>2. heap' = <<>> /\ phase' = "codegen" /\ at' = 0
    BY <1>1, <1>7
  <2> QED
    BY <1>7, <2>1, <2>2, NoBlocks DEF Sound, ClimbsDown, NamesBound, ValueKnown, FramesTyped,
                                      Failures
<1> QED
  BY <1>5, <1>6, <1>7 DEF makeReturn, run_vars

LEMMA CompileSound ==
  ASSUME ShapeInv, WellTyped(program), Sound, BlocksTyped, CompileFunction
  PROVE  BlocksTyped' /\ (Sound' \/ Excused')
BY BeginSound, ConstantSound, DefVarSound, NewClassSound, GetVarSound, SetVarSound,
   GetMemberSound, SetMemberSound, GetElementSound, SetElementSound, PrintSound,
   CallFuncSound, CallMethodSound, MakeReturnSound DEF CompileFunction

LEMMA StartSound ==
  ASSUME ShapeInv, WellTyped(program), Sound, BlocksTyped, WriteBitcodeToFile
  PROVE  Sound' /\ BlocksTyped'
<1>1. PICK g \in Decls(program, "DEF_FUNC") : g = Callee(program, Main)
  BY MainText
<1>2. g \in Callables /\ program[g].def_args = <<>>
  BY <1>1, MainText
<1>3. lookup_func(Main) = g /\ g # 0
  BY <1>1, MainText
<1>4. /\ phase = "codegen" /\ at = 0 /\ n = 0 /\ heap = <<>>
      /\ phase' = "running" /\ stack' = <<Frame(g, EmptyMap)>>
      /\ UNCHANGED <<program, pos, at, climb, klass_def_map, n, ret, vars, code, heap, out>>
  BY <1>3 DEF WriteBitcodeToFile, compile_vars, Sound
<1>5. CodeTranslates'
  BY <1>4, CodeTranslatesGrow DEF Sound, Grows
<1>6. /\ Len(stack') = 1 /\ stack'[1] = Frame(g, EmptyMap)
  BY <1>4
<1>7. ParamsOf(program[g]) = <<>>
  BY <1>2 DEF ParamsOf
<1>8. EnvHolds(g, 1, EmptyMap, 1)'
  <2>1. Binders(g, 1) = {}
    BY <1>7 DEF Binders
  <2> QED
    BY <1>4, <2>1 DEF EnvHolds, Binders
<1>9. AccHolds(g, 1, Undef)'
  <2>1. ValueType(program, g, 1).kind # "KLASS"
    BY FirstNode DEF Basic
  <2> QED
    BY <1>4, <2>1 DEF AccHolds
<1>10. FramesTyped'
  <2>1. top' = Frame(g, EmptyMap)
    BY <1>6 DEF top
  <2>2. /\ top'.fn = g /\ top'.pc = 1 /\ top'.acc = Undef
        /\ stack'[1].fn = g /\ stack'[1].pc = 1 /\ stack'[1].env = EmptyMap
    BY <1>6, <2>1 DEF Frame
  <2>3. 1 .. Len(stack') - 1 = {} /\ 1 .. Len(stack') = {1}
    BY <1>6
  <2> QED
    BY <1>8, <1>9, <2>2, <2>3 DEF FramesTyped
<1>11. heap' = <<>> /\ phase' = "running" /\ at' = 0 /\ n' = 0
  BY <1>4
<1> QED
  BY <1>5, <1>10, <1>11, NoBlocks DEF Sound, ClimbsDown, NamesBound, ValueKnown, Failures
-----------------------------------------------------------------------------
(* The running program.  What the current instruction and its frame are.   *)
LEMMA RunText ==
  ASSUME ShapeInv, WellTyped(program), Sound, Running, top.pc <= Len(code[top.fn])
  PROVE  /\ top.fn \in Callables /\ top.pc \in 1 .. Len(program[top.fn].body)
         /\ top.pc \in Nat \ {0} /\ top.fn <= pos
         /\ Translates(top.fn, top.pc, Instr)
         /\ NodeTypes(program, top.fn, top.pc)
         /\ EnvHolds(top.fn, top.pc, top.env, Len(stack))
         /\ AccHolds(top.fn, top.pc, top.acc)
         /\ LET op == program[top.fn].body[top.pc].op IN
            /\ Instr.i = "const" => op = "VALUEDATA"
            /\ Instr.i = "def" => op = "DEF_VAR"
            /\ Instr.i = "new" => op = "NEW_CLASS"
            /\ Instr.i = "load" => op = "GET_VAR"
            /\ Instr.i = "store" => op = "SET_VAR"
            /\ Instr.i = "get" => op \in {"GET_MEMBER_VAR", "GET_ARRAY_VAR"}
            /\ Instr.i = "set" => op \in {"SET_MEMBER_VAR", "SET_ARRAY_VAR"}
            /\ Instr.i = "print" => op = "PRINTDATA"
            /\ Instr.i = "call" => op = "CALL_FUNC"
            /\ Instr.i = "send" => op = "CALL_METHOD"
<1> DEFINE f == top.fn
           m == top.pc
           op == program[f].body[m].op
<1>1. /\ f \in Callables /\ m \in Nat /\ m >= 1 /\ DOMAIN code = Callables
      /\ Len(code[f]) = Len(program[f].body) /\ Len(code[f]) \in Nat
      /\ Len(stack) \in Nat /\ Len(stack) > 0
  BY RunFacts
<1>2. m \in 1 .. Len(code[f]) /\ m \in Nat \ {0}
  BY <1>1
<1>3. f <= pos
  BY <1>1, CodeOf
<1>4. Translates(f, m, Instr)
  BY <1>1, <1>2 DEF Sound, CodeTranslates, Instr
<1>5. NodeTypes(program, f, m)
  BY <1>1, <1>2, CallableText DEF CallableTypes
<1>6. EnvHolds(f, m, top.env, Len(stack)) /\ AccHolds(f, m, top.acc)
  BY <1>1 DEF Sound, FramesTyped, Running, top
<1> HIDE DEF f, m
<1>7. op \in {"VALUEDATA", "DEF_VAR", "NEW_CLASS", "GET_VAR", "SET_VAR", "GET_MEMBER_VAR",
              "SET_MEMBER_VAR", "GET_ARRAY_VAR", "SET_ARRAY_VAR", "PRINTDATA", "CALL_FUNC",
              "CALL_METHOD"}
  BY <1>5 DEF NodeTypes
<1>8. /\ op = "VALUEDATA" => Instr.i = "const"
      /\ op = "DEF_VAR" => Instr.i = "def"
      /\ op = "NEW_CLASS" => Instr.i = "new"
      /\ op = "GET_VAR" => Instr.i = "load"
      /\ op = "SET_VAR" => Instr.i = "store"
      /\ op \in {"GET_MEMBER_VAR", "GET_ARRAY_VAR"} => Instr.i = "get"
      /\ op \in {"SET_MEMBER_VAR", "SET_ARRAY_VAR"} => Instr.i = "set"
      /\ op = "PRINTDATA" => Instr.i = "print"
      /\ op = "CALL_FUNC" => Instr.i = "call"
      /\ op = "CALL_METHOD" => Instr.i = "send"
  BY <1>4 DEF Translates
<1> HIDE DEF op
<1>9. /\ Instr.i = "const" => op = "VALUEDATA"
      /\ Instr.i = "def" => op = "DEF_VAR"
      /\ Instr.i = "new" => op = "NEW_CLASS"
      /\ Instr.i = "load" => op = "GET_VAR"
      /\ Instr.i = "store" => op = "SET_VAR"
      /\ Instr.i = "get" => op \in {"GET_MEMBER_VAR", "GET_ARRAY_VAR"}
      /\ Instr.i = "set" => op \in {"SET_MEMBER_VAR", "SET_ARRAY_VAR"}
      /\ Instr.i = "print" => op = "PRINTDATA"
      /\ Instr.i = "call" => op = "CALL_FUNC"
      /\ Instr.i = "send" => op = "CALL_METHOD"
  BY <1>7, <1>8
<1> QED
  BY <1>1, <1>2, <1>3, <1>4, <1>5, <1>6, <1>9 DEF f, m, op

(* Blocks that stay where they are, as what they are. *)
Keeps(b) ==
  /\ heap'[b].type = heap[b].type
  /\ heap'[b].home = heap[b].home
  /\ heap'[b].live = heap[b].live
HeapKeeps == Len(heap) \in Nat /\ Len(heap') \in Nat /\ Len(heap) <= Len(heap')
             /\ \A b \in 1 .. Len(heap) : Keeps(b)

LEMMA PointsStill ==
  ASSUME HeapKeeps, program' = program, NEW value, NEW type, NEW depth,
         PointsTo(value, type, depth)
  PROVE  PointsTo(value, type, depth)'
BY DEF HeapKeeps, Keeps, PointsTo

LEMMA EnvStill ==
  ASSUME HeapKeeps, program' = program, NEW f, NEW m, NEW env, NEW depth,
         EnvHolds(f, m, env, depth)
  PROVE  EnvHolds(f, m, env, depth)'
<1>1. Binders(f, m)' = Binders(f, m)
  BY DEF Binders
<1>2. \A value, type : PointsTo(value, type, depth) => PointsTo(value, type, depth)'
  BY PointsStill
<1> QED
  BY <1>1, <1>2 DEF EnvHolds

LEMMA BindersStep ==
  ASSUME NEW f, NEW m \in Nat \ {0}
  PROVE  Binders(f, m + 1) =
           Binders(f, m) \cup (IF program[f].body[m].op = "DEF_VAR" THEN {m} ELSE {})
<1> DEFINE D(x) == {h \in 1 .. x - 1 : program[f].body[h].op = "DEF_VAR"}
<1>1. 1 .. (m + 1) - 1 = (1 .. m - 1) \cup {m}
  OBVIOUS
<1>2. D(m + 1) = D(m) \cup (IF program[f].body[m].op = "DEF_VAR" THEN {m} ELSE {})
  BY <1>1
<1> QED
  BY <1>2 DEF Binders

(* A node that is no definition leaves the variables of a frame as they are. *)
LEMMA EnvNext ==
  ASSUME NEW f, NEW m \in Nat \ {0}, NEW env, NEW depth, EnvHolds(f, m, env, depth),
         program[f].body[m].op # "DEF_VAR"
  PROVE  EnvHolds(f, m + 1, env, depth)
<1>1. Binders(f, m + 1) = Binders(f, m) \cup {}
  BY BindersStep
<1> QED
  BY <1>1 DEF EnvHolds

LEMMA AccNext ==
  ASSUME NEW f, NEW m \in Nat \ {0}, NEW acc,
         LET node == program[f].body[m] IN
         IF node.op \in Assignments THEN AccHolds(f, m, acc)
         ELSE /\ NodeType(program, f, m).kind = "KLASS" =>
                   PointsTo(acc, NodeType(program, f, m), 0)
              /\ node.op = "VALUEDATA" => acc = node.val
  PROVE  AccHolds(f, m + 1, acc)
<1> DEFINE node == program[f].body[m]
<1>1. (m + 1) - 1 = m
  OBVIOUS
<1>2. CASE node.op \in Assignments
  <2>1. ValueType(program, f, m + 1) = ValueType(program, f, m)
    BY <1>2, MakersStep
  <2>2. node.op # "VALUEDATA"
    BY <1>2 DEF Assignments
  <2> QED
    BY <1>1, <1>2, <2>1, <2>2 DEF AccHolds
<1>3. CASE node.op \notin Assignments
  <2>1. ValueType(program, f, m + 1) = NodeType(program, f, m)
    BY <1>3, MakersStep
  <2> QED
    BY <1>1, <1>3, <2>1 DEF AccHolds
<1> QED
  BY <1>2, <1>3

(* A reference of a class may be used as one of a class it extends. *)
LEMMA PointsUp ==
  ASSUME ShapeInv, WellTyped(program), BlocksTyped, NEW value, NEW from, NEW to, NEW d, NEW e,
         from.kind = "KLASS" => PointsTo(value, from, d),
         Assignable(program, from, to), to.kind = "KLASS"
  PROVE  PointsTo(value, to, e)
<1>1. from.kind = "KLASS" /\ to.klass \in Ancestors(program, from.klass)
  BY DEF Assignable
<1>2. PICK b \in 1 .. Len(heap) : /\ value = Ref(b)
                                  /\ heap[b].type.kind = "KLASS"
                                  /\ from.klass \in Ancestors(program, heap[b].type.klass)
  BY <1>1 DEF PointsTo
<1>3. heap[b].type.klass \in DOMAIN klass_def_map
  BY <1>2 DEF BlocksTyped, BlockTyped
<1>4. heap[b].type.klass \in AllClasses(program) /\ program \in Programs
  BY <1>3, CompiledClass, PosFacts
<1>5. to.klass \in Ancestors(program, heap[b].type.klass)
  BY <1>1, <1>2, <1>4, AncestorsTransitive
<1> QED
  BY <1>2, <1>5 DEF PointsTo

(* What is left to show of a step that stays in its frame. *)
LEMMA StepSound ==
  ASSUME ShapeInv, WellTyped(program), Sound, Running, top.pc <= Len(code[top.fn]),
         NEW acc, NEW env, stack' = Step(acc, env), Still, HeapKeeps,
         NEW f, NEW m, NEW k, f = top.fn, m = top.pc, k = Len(stack),
         EnvHolds(f, m + 1, env, k)', AccHolds(f, m + 1, acc)'
  PROVE  Sound'
<1>1. /\ UNCHANGED <<program, phase, pos, at, climb, klass_def_map, n, ret, vars, code>>
      /\ phase = "running" /\ n = 0 /\ at = 0
      /\ k \in Nat /\ k > 0
  BY RunFacts DEF Still, layout_vars, compile_vars, Running
<1>2. /\ Len(stack') = k
      /\ \A i \in 1 .. k - 1 : stack'[i] = stack[i]
      /\ stack'[k] = [fn |-> f, pc |-> m + 1, acc |-> acc, env |-> env]
  BY StepStack
<1>3. /\ \A d \in 1 .. k : EnvHolds(stack[d].fn, stack[d].pc, stack[d].env, d)
      /\ \A d \in 1 .. k - 1 : Calls(stack[d], stack[d + 1])
  BY <1>1 DEF Sound, FramesTyped
<1>4. ASSUME NEW d \in 1 .. k
      PROVE  EnvHolds(stack[d].fn, stack[d].pc, stack[d].env, d)'
  <2>1. CASE d = k
    <3>1. stack'[d].fn = f /\ stack'[d].pc = m + 1 /\ stack'[d].env = env
      BY <1>2, <2>1
    <3> QED
      BY <2>1, <3>1
  <2>2. CASE d # k
    <3>1. stack'[d] = stack[d]
      BY <1>1, <1>2, <2>2
    <3>2. \A g, h, e : EnvHolds(g, h, e, d) => EnvHolds(g, h, e, d)'
      BY <1>1, EnvStill
    <3> QED
      BY <1>3, <3>1, <3>2
  <2> QED
    BY <2>1, <2>2
<1>5. ASSUME NEW d \in 1 .. k - 1
      PROVE  Calls(stack[d], stack[d + 1])'
  <2>1. stack'[d] = stack[d] /\ Calls(stack[d], stack[d + 1])
    BY <1>2, <1>3
  <2>2. stack'[d + 1].fn = stack[d + 1].fn
    <3>1. CASE d + 1 = k
      BY <1>2, <3>1 DEF top
    <3>2. CASE d + 1 # k
      BY <1>1, <1>2, <3>2
    <3> QED
      BY <3>1, <3>2
  <2> QED
    BY <1>1, <2>1, <2>2 DEF Calls
<1>6. top' = [fn |-> f, pc |-> m + 1, acc |-> acc, env |-> env]
  BY <1>2 DEF top
<1>7. AccHolds(top.fn, top.pc, top.acc)'
  BY <1>6
<1>8. FramesTyped'
  BY <1>2, <1>4, <1>5, <1>7 DEF FramesTyped
<1>9. CodeTranslates'
  BY <1>1, CodeTranslatesGrow DEF Sound, Grows
<1> QED
  BY <1>1, <1>8, <1>9 DEF Sound, ClimbsDown, NamesBound, ValueKnown, Failures
-----------------------------------------------------------------------------
(* Steps that do not touch memory. *)
LEMMA BlockStill ==
  ASSUME UNCHANGED <<program, klass_def_map>>, NEW x, BlockTyped(x)
  PROVE  BlockTyped(x)'
<1>1. \A k : FieldTypes(k)' = FieldTypes(k) /\ getDefId(k)' = getDefId(k)
  BY DEF FieldTypes, Fields, getDefId
<1>2. \A type : ElemTypes(type)' = ElemTypes(type)
  BY DEF ElemTypes, LLVMType
<1> QED
  BY <1>1, <1>2 DEF BlockTyped

LEMMA BlocksStill ==
  ASSUME ShapeInv, UNCHANGED heap
  PROVE  /\ HeapKeeps
         /\ BlocksTyped /\ UNCHANGED <<program, klass_def_map>> => BlocksTyped'
<1>1. HeapKeeps
  <2>1. Len(heap) \in Nat
    BY SequenceDomain DEF ShapeInv, HeapShape
  <2> QED
    BY <2>1 DEF HeapKeeps, Keeps
<1>2. ASSUME BlocksTyped, UNCHANGED <<program, klass_def_map>>
      PROVE  BlocksTyped'
  <2> SUFFICES ASSUME NEW b \in 1 .. Len(heap)
               PROVE  BlockTyped(heap[b])'
    BY <1>2 DEF BlocksTyped
  <2>1. BlockTyped(heap[b])
    BY <1>2 DEF BlocksTyped
  <2>2. \A x : BlockTyped(x) => BlockTyped(x)'
    BY <1>2, BlockStill
  <2> QED
    BY <2>1, <2>2
<1> QED
  BY <1>1, <1>2

LEMMA EnvStore ==
  ASSUME NEW f, NEW m, NEW env, NEW depth, EnvHolds(f, m, env, depth), NEW slot, NEW x,
         TypeOfBinder(program, f, slot).kind \in {"KLASS", "ARRAY"} =>
           PointsTo(x, TypeOfBinder(program, f, slot), depth)
  PROVE  EnvHolds(f, m, Put(env, slot, x), depth)
BY DEF EnvHolds, Put

LEMMA QuietSound ==
  ASSUME ShapeInv, WellTyped(program), Sound, BlocksTyped, Running,
         top.pc <= Len(code[top.fn]),
         NEW acc, NEW env, stack' = Step(acc, env), Still, UNCHANGED heap,
         program[top.fn].body[top.pc].op # "DEF_VAR",
         EnvHolds(top.fn, top.pc, env, Len(stack)), AccHolds(top.fn, top.pc + 1, acc)
  PROVE  Sound' /\ BlocksTyped'
<1>1. PICK f, m, k : f = top.fn /\ m = top.pc /\ k = Len(stack)
  OBVIOUS
<1>2. UNCHANGED <<program, klass_def_map>> /\ HeapKeeps /\ BlocksTyped'
  BY BlocksStill DEF Still, layout_vars
<1>3. m \in Nat \ {0}
  BY <1>1, RunText
<1>4. EnvHolds(f, m + 1, env, k)
  BY <1>1, <1>3, EnvNext
<1>5. EnvHolds(f, m + 1, env, k)'
  BY <1>2, <1>4, EnvStill
<1>6. AccHolds(f, m + 1, acc)'
  <2>1. AccHolds(f, m + 1, acc)
    BY <1>1
  <2>2. \A value, type : PointsTo(value, type, 0) => PointsTo(value, type, 0)'
    BY <1>2, PointsStill
  <2> QED
    BY <1>2, <2>1, <2>2 DEF AccHolds
<1> QED
  BY <1>1, <1>2, <1>5, <1>6, StepSound

LEMMA SimpleSound ==
  ASSUME ShapeInv, WellTyped(program), Sound, BlocksTyped, run_simple
  PROVE  Sound' /\ BlocksTyped'
<1> DEFINE f == top.fn
           m == top.pc
           node == program[f].body[m]
           k == Len(stack)
<1>1. Running /\ m <= Len(code[f]) /\ UNCHANGED heap /\ Still
      /\ Instr.i \in {"const", "load", "store"}
  BY DEF run_simple
<1>2. /\ f \in Callables /\ m \in 1 .. Len(program[f].body) /\ m \in Nat \ {0}
      /\ Translates(f, m, Instr) /\ NodeTypes(program, f, m)
      /\ EnvHolds(f, m, top.env, k) /\ AccHolds(f, m, top.acc)
  BY <1>1, RunText
<1>3. CASE Instr.i = "const"
  <2>1. node.op = "VALUEDATA"
    BY <1>1, <1>3, RunText
  <2>2. Instr.val = node.val
    BY <1>2, <2>1 DEF Translates
  <2>3. NodeType(program, f, m).kind # "KLASS"
    BY <1>2, <2>1, CallableShape DEF NodeType
  <2>4. AccHolds(f, m + 1, Instr.val)
    BY <1>2, <2>1, <2>2, <2>3, AccNext DEF Assignments
  <2>5. stack' = Step(Instr.val, top.env)
    BY <1>3 DEF run_simple
  <2> QED
    BY <1>1, <1>2, <2>1, <2>4, <2>5, QuietSound
<1>4. CASE Instr.i = "load"
  <2> DEFINE v == node.sym
             type == TypeOfName(program, f, m, v)
             b == Binder(program, f, m, v)
  <2>1. node.op = "GET_VAR"
    BY <1>1, <1>4, RunText
  <2>2. Instr.slot = b /\ v \in Names(program, f, m)
    BY <1>2, <2>1 DEF Translates, NodeTypes
  <2>3. b \in Binders(f, m) /\ type = TypeOfBinder(program, f, b)
    <3>1. m \in 1 .. Len(program[f].body) + 1
      BY <1>2, CallableText
    <3> QED
      BY <1>2, <2>2, <3>1, NameText
  <2>4. type.kind = "KLASS" => PointsTo(top.env[b], type, 0)
    <3> HIDE DEF b, type, k
    <3> QED
      BY <1>2, <2>3 DEF EnvHolds, PointsTo
  <2>5. AccHolds(f, m + 1, top.env[b])
    <3>1. NodeType(program, f, m) = type
      BY <2>1 DEF NodeType
    <3> HIDE DEF b, type
    <3> QED
      BY <1>2, <2>1, <2>4, <3>1, AccNext DEF Assignments
  <2>6. stack' = Step(top.env[Instr.slot], top.env)
    BY <1>4 DEF run_simple
  <2> QED
    BY <1>1, <1>2, <2>1, <2>2, <2>5, <2>6, QuietSound
<1>5. CASE Instr.i = "store"
  <2> DEFINE v == node.sym
             type == TypeOfName(program, f, m, v)
             b == Binder(program, f, m, v)
             value == ValueType(program, f, m)
  <2>1. node.op = "SET_VAR"
    BY <1>1, <1>5, RunText
  <2>2. Instr.slot = b /\ v \in Names(program, f, m) /\ Assignable(program, value, type)
    BY <1>2, <2>1 DEF Translates, NodeTypes
  <2>3. b \in Binders(f, m) /\ type = TypeOfBinder(program, f, b)
    <3>1. m \in 1 .. Len(program[f].body) + 1
      BY <1>2, CallableText
    <3> QED
      BY <1>2, <2>2, <3>1, NameText
  <2>4. type.kind \in {"KLASS", "ARRAY"} => PointsTo(top.acc, type, k)
    <3>1. value.kind = "KLASS" => PointsTo(top.acc, value, 0)
      BY <1>2 DEF AccHolds
    <3>2. type.kind # "ARRAY"
      BY <2>2 DEF Assignable
    <3> HIDE DEF type, value, k
    <3> QED
      BY <2>2, <3>1, <3>2, PointsUp
  <2>5. EnvHolds(f, m, Put(top.env, Instr.slot, top.acc), k)
    <3> HIDE DEF type, b, k
    <3> QED
      BY <1>2, <2>2, <2>3, <2>4, EnvStore
  <2>6. AccHolds(f, m + 1, top.acc)
    BY <1>2, <2>1, AccNext DEF Assignments
  <2>7. stack' = Step(top.acc, Put(top.env, Instr.slot, top.acc))
    BY <1>5 DEF run_simple
  <2> QED
    BY <1>1, <2>1, <2>5, <2>6, <2>7, QuietSound
<1> QED
  BY <1>1, <1>3, <1>4, <1>5

LEMMA PrintedSound ==
  ASSUME ShapeInv, WellTyped(program), Sound, BlocksTyped, run_print
  PROVE  Sound' /\ BlocksTyped'
<1> DEFINE f == top.fn
           m == top.pc
           body == program[f].body
           value == ValueType(program, f, m)
<1>1. Running /\ m <= Len(code[f]) /\ Instr.i = "print"
  BY DEF run_print, At
<1>2. /\ f \in Callables /\ m \in 1 .. Len(body) /\ m \in Nat \ {0}
      /\ Translates(f, m, Instr) /\ NodeTypes(program, f, m)
      /\ EnvHolds(f, m, top.env, Len(stack)) /\ AccHolds(f, m, top.acc)
      /\ body[m].op = "PRINTDATA"
  BY <1>1, RunText
<1>3. Instr.type = LLVMType(value)
  BY <1>2 DEF Translates
<1>4. ~(Instr.type = "ptr" /\ top.acc # String)
  <2>1. \/ value.kind \in Integral \cup {"DOUBLE"}
        \/ m > 1 /\ body[m - 1].op = "VALUEDATA"
    BY <1>2 DEF NodeTypes
  <2>2. CASE value.kind \in Integral \cup {"DOUBLE"}
    BY <1>3, <2>2 DEF Integral, LLVMType
  <2>3. CASE m > 1 /\ body[m - 1].op = "VALUEDATA"
    <3> HIDE DEF body
    <3>1. m - 1 \in 1 .. Len(body) /\ m - 1 \in Nat \ {0} /\ (m - 1) + 1 = m
      BY <1>2, <2>3
    <3>2. value = NodeType(program, f, m - 1)
      <4>1. body[m - 1].op \notin Assignments
        BY <2>3 DEF Assignments
      <4> QED
        BY <3>1, <4>1, MakersStep DEF body
    <3>3. value = body[m - 1].type /\ top.acc = body[m - 1].val
      BY <1>2, <2>3, <3>2 DEF NodeType, AccHolds, body
    <3>4. /\ body[m - 1].type.kind \in {"INT", "BOOLTYPE", "DOUBLE", "STRING"}
          /\ body[m - 1].type.kind = "STRING" => body[m - 1].val = String
      BY <1>2, <2>3, <3>1, CallableShape DEF body
    <3> QED
      BY <1>3, <3>3, <3>4 DEF LLVMType
  <2> QED
    BY <2>1, <2>2, <2>3
<1>5. stack' = Step(Count, top.env) /\ UNCHANGED heap /\ Still
  BY <1>4 DEF run_print
<1>6. AccHolds(f, m + 1, Count)
  <2>1. NodeType(program, f, m).kind # "KLASS"
    BY <1>2 DEF NodeType, Basic
  <2> QED
    BY <1>2, <2>1, AccNext DEF Assignments
<1> QED
  BY <1>1, <1>2, <1>5, <1>6, QuietSound
-----------------------------------------------------------------------------
(* Allocation.  A new block is what the definition promises.               *)
LEMMA Appended ==
  ASSUME ShapeInv, BlocksTyped, UNCHANGED <<program, klass_def_map>>,
         NEW x, BlockTyped(x), heap' = Append(heap, x)
  PROVE  /\ HeapKeeps /\ BlocksTyped'
         /\ Len(heap) + 1 \in 1 .. Len(heap')
         /\ heap'[Len(heap) + 1] = x
<1>1. /\ IsSequence(heap) /\ Len(heap) \in Nat
  BY SequenceDomain DEF ShapeInv, HeapShape
<1>2. /\ Len(heap') = Len(heap) + 1
      /\ heap'[Len(heap) + 1] = x
      /\ \A b \in 1 .. Len(heap) : heap'[b] = heap[b]
  BY <1>1, SequenceAppend
<1>3. HeapKeeps
  BY <1>1, <1>2 DEF HeapKeeps, Keeps
<1>4. BlocksTyped'
  <2> SUFFICES ASSUME NEW b \in 1 .. Len(heap')
               PROVE  BlockTyped(heap[b])'
    BY DEF BlocksTyped
  <2>1. BlockTyped(heap'[b])
    BY <1>1, <1>2 DEF BlocksTyped
  <2>2. \A y : BlockTyped(y) => BlockTyped(y)'
    BY BlockStill
  <2> QED
    BY <2>1, <2>2
<1> QED
  BY <1>1, <1>2, <1>3, <1>4

LEMMA AllocatedTypes ==
  ASSUME ShapeInv, NEW type, IsType(type), Allocates(Instr, type),
         type.kind \in {"KLASS", "ARRAY"}, IsSequence(Instr.types), NEW depth
  PROVE  /\ type.kind = "KLASS" => BlockTyped(Object) /\ Object.type = type
         /\ type.kind = "ARRAY" => /\ BlockTyped(Fresh(depth)) /\ Fresh(depth).type = type
                                   /\ Fresh(depth).home = depth /\ Fresh(depth).live = TRUE
<1>1. /\ Instr.type = type /\ Instr.types = TypesOf(type)
      /\ type.kind = "KLASS" => type.klass \in DOMAIN klass_def_map
      /\ ClassesFirst(program) => Instr.id = IdOf(type)
  BY DEF Allocates
<1>2. ASSUME type.kind = "KLASS"
      PROVE  BlockTyped(Object) /\ Object.type = type
  <2> DEFINE k == type.klass
  <2>1. type = KlassType(k) /\ k \in DOMAIN klass_def_map
    BY <1>1, <1>2 DEF IsType, KlassType
  <2>2. Instr.types = FieldTypes(k) /\ IInv
    BY <1>1, <1>2 DEF TypesOf, ShapeInv
  <2>3. 1 \in DOMAIN Instr.types
    <3>1. Len(FieldTypes(k)) \in Nat /\ Len(FieldTypes(k)) >= 1
      BY <2>1, <2>2, LayoutTypes
    <3> QED
      BY <2>2, <3>1, SequenceDomain
  <2>4. ClassesFirst(program) => Instr.id = getDefId(k)
    BY <1>1, <1>2 DEF IdOf
  <2>5. /\ Object.type = type /\ Object.types = FieldTypes(k)
        /\ Object.home = 0 /\ Object.live = TRUE
        /\ Object.cells[1] = Number(Instr.id)
    BY <1>1, <2>2, <2>3, FreshShape
  <2> QED
    BY <1>2, <2>1, <2>4, <2>5 DEF BlockTyped
<1>3. ASSUME type.kind = "ARRAY"
      PROVE  /\ BlockTyped(Fresh(depth)) /\ Fresh(depth).type = type
             /\ Fresh(depth).home = depth /\ Fresh(depth).live = TRUE
  <2>1. Instr.types = ElemTypes(type)
    BY <1>1, <1>3 DEF TypesOf
  <2>2. /\ Fresh(depth).type = type /\ Fresh(depth).types = ElemTypes(type)
        /\ Fresh(depth).home = depth /\ Fresh(depth).live = TRUE
    BY <1>1, <2>1, FreshShape
  <2> QED
    BY <1>3, <2>2 DEF BlockTyped
<1> QED
  BY <1>2, <1>3

LEMMA EnvDefine ==
  ASSUME program' = program, NEW f, NEW m \in Nat \ {0}, NEW env, NEW k, NEW x, NEW type,
         program[f].body[m].op = "DEF_VAR", type = program[f].body[m].type,
         EnvHolds(f, m, env, k)',
         type.kind \in {"KLASS", "ARRAY"} => PointsTo(x, type, k)'
  PROVE  EnvHolds(f, m + 1, Put(env, m, x), k)'
<1>1. /\ Binders(f, m + 1)' = Binders(f, m) \cup {m}
      /\ Binders(f, m)' = Binders(f, m)
  BY BindersStep DEF Binders
<1>2. TypeOfBinder(program, f, m) = type
  BY DEF TypeOfBinder
<1> SUFFICES ASSUME NEW b \in Binders(f, m) \cup {m}
             PROVE  /\ b \in DOMAIN Put(env, m, x)
                    /\ TypeOfBinder(program, f, b).kind \in {"KLASS", "ARRAY"} =>
                         PointsTo(Put(env, m, x)[b], TypeOfBinder(program, f, b), k)'
  BY <1>1 DEF EnvHolds
<1>3. CASE b = m
  BY <1>2, <1>3 DEF Put
<1>4. CASE b # m
  <2>1. b \in DOMAIN env /\ Put(env, m, x)[b] = env[b] /\ b \in DOMAIN Put(env, m, x)
    BY <1>1, <1>4 DEF EnvHolds, Put
  <2>2. TypeOfBinder(program, f, b).kind \in {"KLASS", "ARRAY"} =>
          PointsTo(env[b], TypeOfBinder(program, f, b), k)'
    BY <1>1, <1>4 DEF EnvHolds
  <2> QED
    BY <2>1, <2>2
<1> QED
  BY <1>3, <1>4

LEMMA AccMade ==
  ASSUME program' = program, NEW f, NEW m \in Nat \ {0}, NEW acc, NEW type,
         program[f].body[m].op \notin Assignments \cup {"VALUEDATA"},
         type = NodeType(program, f, m),
         type.kind = "KLASS" => PointsTo(acc, type, 0)'
  PROVE  AccHolds(f, m + 1, acc)'
<1>1. ValueType(program, f, m + 1) = type
  BY MakersStep
<1>2. (m + 1) - 1 = m
  OBVIOUS
<1> QED
  BY <1>1, <1>2 DEF AccHolds

LEMMA RunDefSound ==
  ASSUME ShapeInv, WellTyped(program), Sound, BlocksTyped, run_def
  PROVE  Sound' /\ BlocksTyped'
<1>1. PICK f, m, k, env, type :
        /\ f = top.fn /\ m = top.pc /\ k = Len(stack) /\ env = top.env
        /\ type = program[f].body[m].type
  OBVIOUS
<1>2. Running /\ m <= Len(code[f]) /\ Instr.i = "def" /\ Still
  BY <1>1 DEF run_def, At
<1>3. UNCHANGED <<program, klass_def_map>>
  BY <1>2 DEF Still, layout_vars
<1>4. /\ f \in Callables /\ m \in 1 .. Len(program[f].body) /\ m \in Nat \ {0}
      /\ Translates(f, m, Instr)
      /\ EnvHolds(f, m, env, k)
      /\ program[f].body[m].op = "DEF_VAR"
  BY <1>1, <1>2, RunText
<1>5. Instr.slot = m /\ Allocates(Instr, type)
  BY <1>1, <1>4 DEF Translates
<1>6. IsType(type)
  BY <1>1, <1>4, CallableShape
<1>7. IsSequence(Instr.types)
  BY <1>1, <1>2, RunFacts DEF InstructionShape
<1>8. Instr.type = type /\ (type.kind = "KLASS" => type.klass \in DOMAIN klass_def_map)
  BY <1>5 DEF Allocates
<1>9. ASSUME NEW x, stack' = Step(Number(-1), Put(env, m, x)), HeapKeeps, BlocksTyped',
             type.kind \in {"KLASS", "ARRAY"} => PointsTo(x, type, k)'
      PROVE  Sound' /\ BlocksTyped'
  <2>1. EnvHolds(f, m, env, k)'
    BY <1>3, <1>4, <1>9, EnvStill
  <2>2. EnvHolds(f, m + 1, Put(env, m, x), k)'
    BY <1>1, <1>3, <1>4, <1>9, <2>1, EnvDefine
  <2>3. AccHolds(f, m + 1, Number(-1))'
    <3>1. NodeType(program, f, m) = Basic("INT") /\ Basic("INT").kind # "KLASS"
      BY <1>4 DEF NodeType, Basic
    <3> QED
      BY <1>3, <1>4, <3>1, AccMade DEF Assignments
  <2> QED
    BY <1>1, <1>2, <1>9, <2>2, <2>3, StepSound
<1>10. CASE type.kind \in {"KLASS", "ARRAY"}
  <2>0. PICK b : b = Len(heap) + 1
    OBVIOUS
  <2>1. PICK x : /\ heap' = Append(heap, x) /\ BlockTyped(x) /\ x.type = type
                 /\ type.kind = "ARRAY" => x.home = k /\ x.live = TRUE
    <3>1. heap' = Append(heap, IF type.kind = "KLASS" THEN Object ELSE Fresh(k))
      BY <1>1, <1>8, <1>10 DEF run_def
    <3>2. CASE type.kind = "KLASS"
      BY <1>5, <1>6, <1>7, <3>1, <3>2, AllocatedTypes
    <3>3. CASE type.kind = "ARRAY"
      <4>1. /\ BlockTyped(Fresh(k)) /\ Fresh(k).type = type
            /\ Fresh(k).home = k /\ Fresh(k).live = TRUE
        BY <1>5, <1>6, <1>7, <3>3, AllocatedTypes
      <4>2. heap' = Append(heap, Fresh(k))
        BY <3>1, <3>3
      <4> QED
        BY <4>1, <4>2
    <3> QED
      BY <1>10, <3>2, <3>3
  <2>2. /\ HeapKeeps /\ BlocksTyped' /\ b \in 1 .. Len(heap') /\ heap'[b] = x
    BY <1>3, <2>0, <2>1, Appended
  <2>3. PICK c : c = Ref(b)
    OBVIOUS
  <2>4. PointsTo(c, type, k)'
    <3>1. /\ type.kind = "KLASS" => type.klass \in Ancestors(program, type.klass)
          /\ program' = program
      BY <1>3, <1>8, CompiledClass, AncestorsUp, PosFacts
    <3>2. /\ b \in 1 .. Len(heap') /\ heap'[b].type = type
          /\ type.kind # "KLASS" => heap'[b].home = k /\ heap'[b].live = TRUE
      BY <1>10, <2>1, <2>2
    <3> QED
      BY <2>3, <3>1, <3>2 DEF PointsTo
  <2>5. stack' = Step(Number(-1), Put(env, m, c))
    BY <1>1, <1>5, <1>8, <1>10, <2>0, <2>3 DEF run_def
  <2> QED
    BY <1>9, <2>2, <2>4, <2>5
<1>11. CASE type.kind \notin {"KLASS", "ARRAY"}
  <2>1. stack' = Step(Number(-1), Put(env, m, Undef)) /\ UNCHANGED heap
    BY <1>1, <1>5, <1>8, <1>11 DEF run_def
  <2>2. HeapKeeps /\ BlocksTyped'
    BY <1>3, <2>1, BlocksStill
  <2> QED
    BY <1>9, <1>11, <2>1, <2>2
<1> QED
  BY <1>10, <1>11

LEMMA RunNewSound ==
  ASSUME ShapeInv, WellTyped(program), Sound, BlocksTyped, run_new
  PROVE  Sound' /\ BlocksTyped'
<1>1. PICK f, m, k, env, type, b, acc :
        /\ f = top.fn /\ m = top.pc /\ k = Len(stack) /\ env = top.env
        /\ type = program[f].body[m].type /\ b = Len(heap) + 1 /\ acc = Ref(b)
  OBVIOUS
<1>2. Running /\ m <= Len(code[f]) /\ Instr.i = "new" /\ Still
  BY <1>1 DEF run_new, At
<1>3. UNCHANGED <<program, klass_def_map>>
  BY <1>2 DEF Still, layout_vars
<1>4. /\ f \in Callables /\ m \in 1 .. Len(program[f].body) /\ m \in Nat \ {0}
      /\ Translates(f, m, Instr) /\ NodeTypes(program, f, m)
      /\ EnvHolds(f, m, env, k)
      /\ program[f].body[m].op = "NEW_CLASS"
  BY <1>1, <1>2, RunText
<1>5. Allocates(Instr, type) /\ type.kind = "KLASS"
  BY <1>1, <1>4 DEF Translates, NodeTypes
<1>6. IsType(type)
  BY <1>1, <1>4, CallableShape
<1>7. IsSequence(Instr.types)
  BY <1>1, <1>2, RunFacts DEF InstructionShape
<1>8. type.klass \in DOMAIN klass_def_map
  BY <1>5 DEF Allocates
<1>9. heap' = Append(heap, Object) /\ stack' = Step(acc, env)
  BY <1>1 DEF run_new
<1>10. BlockTyped(Object) /\ Object.type = type
  BY <1>5, <1>6, <1>7, AllocatedTypes
<1>11. PICK x : heap' = Append(heap, x) /\ BlockTyped(x) /\ x.type = type
  BY <1>9, <1>10
<1>12. HeapKeeps /\ BlocksTyped' /\ b \in 1 .. Len(heap') /\ heap'[b] = x
  BY <1>1, <1>3, <1>11, Appended
<1>13. PointsTo(acc, type, 0)'
  <2>1. type.klass \in Ancestors(program, type.klass) /\ program' = program
    BY <1>3, <1>8, CompiledClass, AncestorsUp, PosFacts
  <2>2. b \in 1 .. Len(heap') /\ heap'[b].type = type
    BY <1>11, <1>12
  <2> QED
    BY <1>1, <1>5, <2>1, <2>2 DEF PointsTo
<1>14. EnvHolds(f, m + 1, env, k)'
  <2>1. EnvHolds(f, m + 1, env, k)
    BY <1>4, EnvNext
  <2> QED
    BY <1>3, <1>12, <2>1, EnvStill
<1>15. AccHolds(f, m + 1, acc)'
  <2>1. NodeType(program, f, m) = type
    BY <1>1, <1>4 DEF NodeType
  <2> QED
    BY <1>3, <1>4, <1>13, <2>1, AccMade DEF Assignments
<1> QED
  BY <1>1, <1>2, <1>9, <1>12, <1>14, <1>15, StepSound
-----------------------------------------------------------------------------
(* Access through a pointer.  The block is there, and as the type of the   *)
(* variable says up to the cell; no member is at the place of the number.  *)
LEMMA ReachesObject ==
  ASSUME ShapeInv, WellTyped(program), BlocksTyped, NEW c \in DOMAIN klass_def_map,
         NEW type, type = KlassType(c), NEW depth, NEW v, PointsTo(v, type, depth),
         NEW member \in Members(program, c), NEW ins,
         ins.idx = FieldIndex(c, member), ins.types = FieldTypes(c)
  PROVE  /\ Reaches(v, ins)
         /\ \E b \in 1 .. Len(heap) : v = Ref(b) /\ v[2] = b
         /\ ins.idx # 1
<1>1. PICK b \in 1 .. Len(heap) : /\ v = Ref(b)
                                  /\ heap[b].type.kind = "KLASS"
                                  /\ c \in Ancestors(program, heap[b].type.klass)
  BY DEF PointsTo, KlassType
<1>2. PICK d : d = heap[b].type.klass
  OBVIOUS
<1>3. d \in DOMAIN klass_def_map /\ heap[b].types = FieldTypes(d) /\ heap[b].live = TRUE
  BY <1>1, <1>2 DEF BlocksTyped, BlockTyped
<1>4. Begins(c, d)
  BY <1>1, <1>2, <1>3, AncestorLayout
<1>5. ins.idx \in 2 .. Len(Fields(c))
  BY MemberIndex
<1>6. /\ Len(FieldTypes(c)) = Len(Fields(c)) /\ Len(FieldTypes(d)) = Len(Fields(d))
      /\ Len(Fields(c)) \in Nat /\ Len(Fields(d)) \in Nat
  BY <1>3, LayoutTypes DEF ShapeInv
<1>7. ins.idx <= Len(FieldTypes(d)) /\ ins.idx <= Len(FieldTypes(c)) /\ ins.idx \in Int
  BY <1>4, <1>5, <1>6 DEF Begins
<1>8. \A i \in 1 .. ins.idx : FieldTypes(d)[i] = FieldTypes(c)[i]
  BY <1>4, <1>5, <1>6 DEF Begins, FieldTypes
<1>9. v[1] = "ref" /\ v[2] = b
  BY <1>1 DEF Ref
<1>10. Reaches(v, ins)
  BY <1>3, <1>7, <1>8, <1>9 DEF Reaches
<1> QED
  BY <1>1, <1>5, <1>9, <1>10

LEMMA ReachesArray ==
  ASSUME BlocksTyped, NEW type, type.kind = "ARRAY", type.size \in Int,
         NEW depth, NEW v, PointsTo(v, type, depth),
         NEW ins, ins.idx \in 1 .. type.size, ins.types = ElemTypes(type)
  PROVE  /\ Reaches(v, ins)
         /\ \E b \in 1 .. Len(heap) : v = Ref(b) /\ v[2] = b /\ heap[b].type = type
<1>1. PICK b \in 1 .. Len(heap) : v = Ref(b) /\ heap[b].type = type /\ heap[b].live = TRUE
  BY DEF PointsTo
<1>2. heap[b].types = ElemTypes(type)
  BY <1>1 DEF BlocksTyped, BlockTyped
<1>3. Len(ElemTypes(type)) = type.size
  <2>1. type.size \in Nat
    OBVIOUS
  <2> QED
    BY <2>1 DEF ElemTypes
<1>4. v[1] = "ref" /\ v[2] = b
  BY <1>1 DEF Ref
<1>5. Reaches(v, ins)
  BY <1>1, <1>2, <1>3, <1>4 DEF Reaches
<1> QED
  BY <1>1, <1>4, <1>5

LEMMA AccessText ==
  ASSUME ShapeInv, WellTyped(program), Sound, BlocksTyped, Running,
         top.pc <= Len(code[top.fn]), Instr.i \in {"get", "set"}
  PROVE  /\ Reaches(Pointer, Instr)
         /\ \E b \in 1 .. Len(heap) :
              /\ Pointer[2] = b
              /\ heap[b].type.kind = "KLASS" => Instr.idx # 1
         /\ LET op == program[top.fn].body[top.pc].op IN
            /\ Instr.i = "get" => /\ op \in {"GET_MEMBER_VAR", "GET_ARRAY_VAR"}
                                  /\ NodeType(program, top.fn, top.pc).kind # "KLASS"
            /\ Instr.i = "set" => op \in {"SET_MEMBER_VAR", "SET_ARRAY_VAR"}
<1>1. PICK f, m, k, node, v, type, slot :
        /\ f = top.fn /\ m = top.pc /\ k = Len(stack) /\ node = program[f].body[m]
        /\ v = node.sym /\ type = TypeOfName(program, f, m, v)
        /\ slot = Binder(program, f, m, v)
  OBVIOUS
<1>2. /\ f \in Callables /\ f <= pos /\ m \in 1 .. Len(program[f].body)
      /\ Translates(f, m, Instr) /\ NodeTypes(program, f, m)
      /\ EnvHolds(f, m, top.env, k)
      /\ Instr.i = "get" => node.op \in {"GET_MEMBER_VAR", "GET_ARRAY_VAR"}
      /\ Instr.i = "set" => node.op \in {"SET_MEMBER_VAR", "SET_ARRAY_VAR"}
  BY <1>1, RunText
<1>3. m \in 1 .. Len(program[f].body) + 1
  BY <1>2, CallableText
<1>4. ASSUME v \in Names(program, f, m), type.kind \in {"KLASS", "ARRAY"}, Instr.slot = slot
      PROVE  /\ PointsTo(Pointer, type, k) /\ IsType(type)
             /\ type.kind = "KLASS" => type.klass \in DOMAIN klass_def_map
  <2>1. /\ IsType(type) /\ Makeable(program, f, type)
        /\ slot \in Binders(f, m) /\ type = TypeOfBinder(program, f, slot)
    <3>1. /\ IsType(TypeOfName(program, f, m, v))
          /\ Makeable(program, f, TypeOfName(program, f, m, v))
          /\ Binder(program, f, m, v) \in Binders(f, m)
          /\ TypeOfName(program, f, m, v) = TypeOfBinder(program, f, Binder(program, f, m, v))
      BY <1>2, <1>3, <1>4, NameText
    <3> QED
      BY <1>1, <3>1
  <2>2. PointsTo(top.env[slot], type, k)
    BY <1>2, <1>4, <2>1 DEF EnvHolds
  <2>3. type.kind = "KLASS" => type.klass \in DOMAIN klass_def_map
    BY <1>2, <2>1, MakeableClass
  <2> QED
    BY <1>4, <2>1, <2>2, <2>3 DEF Pointer
<1>5. CASE node.op \in {"GET_MEMBER_VAR", "SET_MEMBER_VAR"}
  <2>1. HasMemberNamed(program, f, m, v, node.member)
    BY <1>1, <1>2, <1>5 DEF NodeTypes
  <2>2. /\ v \in Names(program, f, m) /\ type.kind = "KLASS"
        /\ node.member \in Members(program, type.klass)
    BY <1>1, <2>1 DEF HasMemberNamed, HasNamed
  <2>3. /\ Instr.slot = slot /\ Instr.idx = FieldIndex(type.klass, node.member)
        /\ Instr.types = FieldTypes(type.klass)
    BY <1>1, <1>2, <1>5 DEF Translates
  <2>4. PointsTo(Pointer, type, k) /\ type.klass \in DOMAIN klass_def_map /\ IsType(type)
    BY <1>4, <2>2, <2>3
  <2>5. type = KlassType(type.klass)
    BY <2>2, <2>4 DEF IsType, KlassType
  <2>6. /\ Reaches(Pointer, Instr) /\ Instr.idx # 1
        /\ \E b \in 1 .. Len(heap) : Pointer = Ref(b) /\ Pointer[2] = b
    BY <2>2, <2>3, <2>4, <2>5, ReachesObject
  <2>7. node.op = "GET_MEMBER_VAR" => NodeType(program, f, m).kind # "KLASS"
    <3>1. ASSUME node.op = "GET_MEMBER_VAR"
          PROVE  NodeType(program, f, m).kind = MemberKind(program, type.klass, node.member)
      BY <1>1, <3>1 DEF NodeType, Basic
    <3>2. /\ MemberKind(program, type.klass, node.member)
               = Fields(type.klass)[FieldIndex(type.klass, node.member)].kind
          /\ Fields(type.klass)[FieldIndex(type.klass, node.member)].kind
               \in Integral \cup {"DOUBLE", "STRING"}
      BY <2>2, <2>4, MemberKindIs, MemberIndex
    <3> QED
      BY <3>1, <3>2 DEF Integral
  <2> QED
    BY <1>1, <1>2, <1>5, <2>6, <2>7
<1>6. CASE node.op \in {"GET_ARRAY_VAR", "SET_ARRAY_VAR"}
  <2>1. HasElement(program, f, m, v, node.index)
    BY <1>1, <1>2, <1>6 DEF NodeTypes
  <2>2. /\ v \in Names(program, f, m) /\ type.kind = "ARRAY"
        /\ node.index \in 0 .. type.size - 1
    BY <1>1, <2>1 DEF HasElement, HasNamed
  <2>3. /\ Instr.slot = slot /\ Instr.idx = node.index + 1
        /\ Instr.types = ElemTypes(type)
    BY <1>1, <1>2, <1>6 DEF Translates
  <2>4. PointsTo(Pointer, type, k) /\ IsType(type)
    BY <1>4, <2>2, <2>3
  <2>5. type.size \in Int
    BY <2>2, <2>4 DEF IsType
  <2>6. Instr.idx \in 1 .. type.size
    BY <2>2, <2>3, <2>5
  <2>7. /\ Reaches(Pointer, Instr)
        /\ \E b \in 1 .. Len(heap) : Pointer = Ref(b) /\ Pointer[2] = b /\ heap[b].type = type
    BY <2>2, <2>3, <2>4, <2>5, <2>6, ReachesArray
  <2>8. node.op = "GET_ARRAY_VAR" => NodeType(program, f, m).kind # "KLASS"
    <3>1. ASSUME node.op = "GET_ARRAY_VAR"
          PROVE  NodeType(program, f, m).kind = type.elem_kind
      BY <1>1, <3>1 DEF NodeType, Basic
    <3>2. type.elem_kind # "KLASS"
      <4>1. Makeable(program, f, type)
        BY <1>1, <1>2, <1>3, <2>2, NameText
      <4> QED
        BY <2>2, <4>1 DEF Makeable
    <3> QED
      BY <3>1, <3>2
  <2> QED
    BY <1>1, <1>2, <1>6, <2>2, <2>7, <2>8
<1>7. Instr.i = "get" \/ Instr.i = "set"
  OBVIOUS
<1> QED
  BY <1>2, <1>5, <1>6, <1>7

LEMMA RunGetSound ==
  ASSUME ShapeInv, WellTyped(program), Sound, BlocksTyped, run_get
  PROVE  Sound' /\ BlocksTyped'
<1> DEFINE f == top.fn
           m == top.pc
           x == heap[Pointer[2]].cells[Instr.idx]
<1>1. Running /\ m <= Len(code[f]) /\ Instr.i = "get"
  BY DEF run_get, At
<1>2. /\ Reaches(Pointer, Instr)
      /\ program[f].body[m].op \in {"GET_MEMBER_VAR", "GET_ARRAY_VAR"}
      /\ NodeType(program, f, m).kind # "KLASS"
  BY <1>1, AccessText
<1>3. stack' = Step(x, top.env) /\ UNCHANGED heap /\ Still
  BY <1>2 DEF run_get
<1>4. m \in Nat \ {0} /\ EnvHolds(f, m, top.env, Len(stack))
  BY <1>1, RunText
<1>5. program[f].body[m].op \notin Assignments \cup {"VALUEDATA", "DEF_VAR"}
  BY <1>2 DEF Assignments
<1>6. AccHolds(f, m + 1, x)
  <2> HIDE DEF x
  <2> QED
    BY <1>2, <1>4, <1>5, AccNext
<1> HIDE DEF x
<1> QED
  BY <1>1, <1>3, <1>4, <1>5, <1>6, QuietSound

LEMMA StoredTyped ==
  ASSUME ShapeInv, UNCHANGED <<program, klass_def_map>>, NEW x, NEW y, BlockTyped(x),
         y.type = x.type, y.types = x.types, y.home = x.home, y.live = x.live,
         x.type.kind = "KLASS" => y.cells[1] = x.cells[1]
  PROVE  BlockTyped(y)'
<1>1. BlockTyped(y)
  BY DEF BlockTyped
<1> QED
  BY <1>1, BlockStill

LEMMA RunSetSound ==
  ASSUME ShapeInv, WellTyped(program), Sound, BlocksTyped, run_set
  PROVE  Sound' /\ BlocksTyped'
<1>1. PICK f, m, k, env, acc, idx :
        /\ f = top.fn /\ m = top.pc /\ k = Len(stack) /\ env = top.env /\ acc = top.acc
        /\ idx = Instr.idx
  OBVIOUS
<1>2. Running /\ m <= Len(code[f]) /\ Instr.i = "set"
  BY <1>1 DEF run_set, At
<1>3. /\ Reaches(Pointer, Instr)
      /\ program[f].body[m].op \in {"SET_MEMBER_VAR", "SET_ARRAY_VAR"}
  BY <1>1, <1>2, AccessText
<1>4. PICK b \in 1 .. Len(heap) : /\ b = Pointer[2]
                                  /\ heap[b].type.kind = "KLASS" => idx # 1
  BY <1>1, <1>2, AccessText
<1>5. /\ stack' = Step(acc, env) /\ Still
      /\ heap' = [heap EXCEPT ![Pointer[2]].cells[Instr.idx] = top.acc]
  BY <1>1, <1>3 DEF run_set
<1>6. UNCHANGED <<program, klass_def_map, phase>>
  BY <1>5 DEF Still, layout_vars
<1>7. ~Wrong("undefined")
  BY <1>2, <1>6 DEF Wrong, Running
<1>8. /\ Len(heap') = Len(heap) /\ Len(heap) \in Nat
      /\ \A c \in 1 .. Len(heap) : c # b => heap'[c] = heap[c]
      /\ heap'[b] = [type |-> heap[b].type, types |-> heap[b].types,
                     cells |-> heap'[b].cells,
                     home |-> heap[b].home, live |-> heap[b].live]
      /\ \A i \in DOMAIN heap[b].cells : i # idx => heap'[b].cells[i] = heap[b].cells[i]
  <2>1. Len(heap) \in Nat
    BY SequenceDomain DEF ShapeInv, HeapShape
  <2> QED
    BY <1>1, <1>4, <1>7, <2>1, StoreHeap
<1>9. /\ heap'[b].type = heap[b].type /\ heap'[b].types = heap[b].types
      /\ heap'[b].home = heap[b].home /\ heap'[b].live = heap[b].live
  BY <1>8
<1>10. HeapKeeps
  BY <1>8, <1>9 DEF HeapKeeps, Keeps
<1>11. BlocksTyped'
  <2> SUFFICES ASSUME NEW c \in 1 .. Len(heap)
               PROVE  BlockTyped(heap[c])'
    BY <1>8 DEF BlocksTyped
  <2>1. BlockTyped(heap[c])
    BY DEF BlocksTyped
  <2>2. PICK x, y : x = heap[c] /\ y = heap'[c]
    OBVIOUS
  <2>3. /\ y.type = x.type /\ y.types = x.types /\ y.home = x.home /\ y.live = x.live
    BY <1>8, <1>9, <2>2
  <2>4. x.type.kind = "KLASS" => y.cells[1] = x.cells[1]
    <3>1. CASE c # b
      BY <1>8, <2>2, <3>1
    <3>2. ASSUME c = b, x.type.kind = "KLASS"
          PROVE  y.cells[1] = x.cells[1]
      <4>1. 1 \in DOMAIN heap[b].cells
        <5>1. DOMAIN heap[b].cells = DOMAIN heap[b].types
          BY DEF ShapeInv, HeapShape
        <5>2. /\ heap[b].type.klass \in DOMAIN klass_def_map
              /\ heap[b].types = FieldTypes(heap[b].type.klass)
          BY <2>1, <2>2, <3>2 DEF BlockTyped
        <5>3. PICK d \in DOMAIN klass_def_map : heap[b].types = FieldTypes(d)
          BY <5>2
        <5>4. Len(Fields(d)) \in Nat /\ Len(Fields(d)) >= 1
          BY LayoutTypes DEF ShapeInv
        <5> QED
          BY <5>1, <5>3, <5>4 DEF FieldTypes
      <4> QED
        BY <1>4, <1>8, <2>2, <3>2, <4>1
    <3> QED
      BY <3>1, <3>2
  <2>5. BlockTyped(y)'
    BY <1>6, <2>1, <2>2, <2>3, <2>4, StoredTyped
  <2> QED
    BY <2>2, <2>5
<1>12. /\ m \in Nat \ {0} /\ EnvHolds(f, m, env, k) /\ AccHolds(f, m, acc)
       /\ program[f].body[m].op # "DEF_VAR" /\ program[f].body[m].op \in Assignments
  BY <1>1, <1>2, <1>3, RunText DEF Assignments
<1>13. EnvHolds(f, m + 1, env, k)'
  <2>1. EnvHolds(f, m + 1, env, k)
    BY <1>12, EnvNext
  <2> QED
    BY <1>6, <1>10, <2>1, EnvStill
<1>14. AccHolds(f, m + 1, acc)'
  <2>1. AccHolds(f, m + 1, acc)
    BY <1>12, AccNext
  <2>2. \A value, type : PointsTo(value, type, 0) => PointsTo(value, type, 0)'
    BY <1>6, <1>10, PointsStill
  <2> QED
    BY <1>6, <2>1, <2>2 DEF AccHolds
<1> QED
  BY <1>1, <1>2, <1>5, <1>10, <1>11, <1>13, <1>14, StepSound

-----------------------------------------------------------------------------
(* Calls.  The callee's frame has an argument of the right type for each   *)
(* parameter.                                                              *)
LEMMA CalledEnv ==
  ASSUME NEW g, Len(ParamsOf(program[g])) \in Nat, NEW args, Len(args) = Len(ParamsOf(program[g])),
         NEW depth,
         \A j \in 1 .. Len(args) :
           LET type == ParamsOf(program[g])[j].type IN
           type.kind \in {"KLASS", "ARRAY"} => PointsTo(args[j], type, depth)
  PROVE  EnvHolds(g, 1, [i \in {-j : j \in 1 .. Len(args)} |-> args[-i]], depth)
<1> DEFINE env == [i \in {-j : j \in 1 .. Len(args)} |-> args[-i]]
           ps  == ParamsOf(program[g])
<1> SUFFICES ASSUME NEW b \in Binders(g, 1)
             PROVE  /\ b \in DOMAIN env
                    /\ TypeOfBinder(program, g, b).kind \in {"KLASS", "ARRAY"} =>
                         PointsTo(env[b], TypeOfBinder(program, g, b), depth)
  BY DEF EnvHolds
<1>1. PICK j \in 1 .. Len(args) : b = -j
  <2>1. Binders(g, 1) = {-j : j \in 1 .. Len(args)}
    <3>1. {h \in 1 .. 1 - 1 : program[g].body[h].op = "DEF_VAR"} = {}
      OBVIOUS
    <3> QED
      BY <3>1 DEF Binders
  <2> QED
    BY <2>1
<1>2. b \in DOMAIN env /\ -b = j /\ ~(b > 0) /\ env[b] = args[j]
  BY <1>1
<1>3. TypeOfBinder(program, g, b) = ps[j].type
  BY <1>2 DEF TypeOfBinder
<1> QED
  BY <1>2, <1>3

LEMMA CallSound ==
  ASSUME ShapeInv, WellTyped(program), Sound, BlocksTyped, Running,
         top.pc <= Len(code[top.fn]),
         NEW f, NEW m, f = top.fn, m = top.pc, NEW g \in Callables, NEW args, Call(g, args),
         Still, UNCHANGED heap,
         program[f].body[m].op \in {"CALL_FUNC", "CALL_METHOD"},
         Callee(program, program[f].body[m].sym) = g,
         Len(args) = Len(ParamsOf(program[g])),
         \A j \in 1 .. Len(args) :
           LET type == ParamsOf(program[g])[j].type IN
           type.kind = "KLASS" => PointsTo(args[j], type, 0)
  PROVE  Sound' /\ BlocksTyped'
<1>1. PICK k, acc, env, new :
        /\ k = Len(stack) /\ acc = top.acc /\ env = top.env
        /\ new = [i \in {-j : j \in 1 .. Len(args)} |-> args[-i]]
  OBVIOUS
<1>2. /\ UNCHANGED <<program, phase, pos, at, climb, klass_def_map, n, ret, vars, code>>
      /\ phase = "running" /\ n = 0 /\ at = 0 /\ k \in Nat /\ k > 0
  BY <1>1, RunFacts DEF Still, layout_vars, compile_vars, Running
<1>3. HeapKeeps /\ BlocksTyped'
  BY <1>2, BlocksStill
<1>4. m \in Nat \ {0} /\ EnvHolds(f, m, env, k)
  BY <1>1, RunText
<1>5. /\ Len(stack') = k + 1
      /\ \A i \in 1 .. k - 1 : stack'[i] = stack[i]
      /\ stack'[k] = [fn |-> f, pc |-> m + 1, acc |-> acc, env |-> env]
      /\ stack'[k + 1] = [fn |-> g, pc |-> 1, acc |-> Undef, env |-> new]
  BY <1>1, CallStack DEF Frame
<1>6. /\ \A d \in 1 .. k : EnvHolds(stack[d].fn, stack[d].pc, stack[d].env, d)
      /\ \A d \in 1 .. k - 1 : Calls(stack[d], stack[d + 1])
  BY <1>1, <1>2 DEF Sound, FramesTyped
<1>7. EnvHolds(g, 1, new, k + 1)
  <2>1. Len(ParamsOf(program[g])) \in Nat
    BY CallableText
  <2>2. \A j \in 1 .. Len(args) : ParamsOf(program[g])[j].type.kind # "ARRAY"
    BY CallableText
  <2>3. \A j \in 1 .. Len(args) :
          LET type == ParamsOf(program[g])[j].type IN
          type.kind \in {"KLASS", "ARRAY"} => PointsTo(args[j], type, k + 1)
    BY <2>2 DEF PointsTo
  <2> QED
    BY <1>1, <2>1, <2>3, CalledEnv
<1>8. EnvHolds(f, m + 1, env, k)
  <2>1. program[f].body[m].op # "DEF_VAR"
    OBVIOUS
  <2> QED
    BY <1>4, <2>1, EnvNext
<1>9. \A h, p, e, d : EnvHolds(h, p, e, d) => EnvHolds(h, p, e, d)'
  BY <1>2, <1>3, EnvStill
<1>10. ASSUME NEW d \in 1 .. k + 1
       PROVE  EnvHolds(stack[d].fn, stack[d].pc, stack[d].env, d)'
  <2>1. CASE d = k + 1
    <3>1. stack'[d].fn = g /\ stack'[d].pc = 1 /\ stack'[d].env = new
      BY <1>5, <2>1
    <3> QED
      BY <1>7, <1>9, <2>1, <3>1
  <2>2. CASE d = k
    <3>1. stack'[d].fn = f /\ stack'[d].pc = m + 1 /\ stack'[d].env = env
      BY <1>5, <2>2
    <3> QED
      BY <1>8, <1>9, <2>2, <3>1
  <2>3. CASE d \in 1 .. k - 1
    <3>1. stack'[d] = stack[d]
      BY <1>5, <2>3
    <3>2. EnvHolds(stack[d].fn, stack[d].pc, stack[d].env, d)
      <4>1. d \in 1 .. k
        BY <1>2, <2>3
      <4> QED
        BY <1>6, <4>1
    <3> QED
      BY <1>9, <3>1, <3>2
  <2>4. d = k + 1 \/ d = k \/ d \in 1 .. k - 1
    BY <1>2
  <2> QED
    BY <2>1, <2>2, <2>3, <2>4
<1>11. ASSUME NEW d \in 1 .. k
       PROVE  Calls(stack[d], stack[d + 1])'
  <2>1. CASE d = k
    <3>1. /\ stack'[d].fn = f /\ stack'[d].pc = m + 1
          /\ stack'[d + 1].fn = g
      BY <1>5, <2>1
    <3>2. (m + 1) - 1 = m /\ m + 1 > 1
      BY <1>4
    <3> QED
      BY <1>2, <3>1, <3>2 DEF Calls
  <2>2. CASE d \in 1 .. k - 1
    <3>1. stack'[d] = stack[d] /\ Calls(stack[d], stack[d + 1])
      <4>1. stack'[d] = stack[d]
        BY <1>5, <2>2
      <4>2. Calls(stack[d], stack[d + 1])
        BY <1>6, <2>2
      <4> QED
        BY <4>1, <4>2
    <3>2. stack'[d + 1].fn = stack[d + 1].fn
      <4>1. CASE d + 1 = k
        <5>1. stack'[d + 1].fn = f /\ stack[d + 1].fn = f
          BY <1>1, <1>5, <4>1 DEF top
        <5> QED
          BY <5>1
      <4>2. CASE d + 1 # k
        BY <1>2, <1>5, <2>2, <4>2
      <4> QED
        BY <4>1, <4>2
    <3> QED
      BY <1>2, <3>1, <3>2 DEF Calls
  <2> QED
    BY <1>2, <2>1, <2>2
<1>12. AccHolds(top.fn, top.pc, top.acc)'
  <2>1. top' = [fn |-> g, pc |-> 1, acc |-> Undef, env |-> new]
    BY <1>5 DEF top
  <2>2. AccHolds(g, 1, Undef)'
    <3>1. ValueType(program, g, 1).kind # "KLASS"
      BY FirstNode DEF Basic
    <3> QED
      BY <1>2, <3>1 DEF AccHolds
  <2> QED
    BY <2>1, <2>2
<1>13. FramesTyped'
  <2>1. (k + 1) - 1 = k
    BY <1>2
  <2> QED
    BY <1>5, <1>10, <1>11, <1>12, <2>1 DEF FramesTyped
<1>14. CodeTranslates'
  BY <1>2, CodeTranslatesGrow DEF Sound, Grows
<1> QED
  BY <1>2, <1>3, <1>13, <1>14 DEF Sound, ClimbsDown, NamesBound, ValueKnown, Failures

(* The value at hand is one for the callee's argument. *)
LEMMA ArgumentPoints ==
  ASSUME ShapeInv, WellTyped(program), Sound, BlocksTyped, Running,
         top.pc <= Len(code[top.fn]), NEW g \in Callables, program[g].def_args # <<>>,
         FitsArgument(program, g, ValueType(program, top.fn, top.pc))
  PROVE  /\ Len(program[g].def_args) = 1
         /\ program[g].def_args[1].type.kind = "KLASS" =>
              PointsTo(top.acc, program[g].def_args[1].type, 0)
<1>1. PICK value : value = ValueType(program, top.fn, top.pc)
  OBVIOUS
<1>2. /\ Len(program[g].def_args) = 1
      /\ Assignable(program, value, program[g].def_args[1].type)
  BY <1>1 DEF FitsArgument
<1>3. value.kind = "KLASS" => PointsTo(top.acc, value, 0)
  BY <1>1, RunText DEF AccHolds
<1> QED
  BY <1>2, <1>3, PointsUp

LEMMA RunCallSound ==
  ASSUME ShapeInv, WellTyped(program), Sound, BlocksTyped, run_call
  PROVE  Sound' /\ BlocksTyped'
<1>1. PICK f, m, node : f = top.fn /\ m = top.pc /\ node = program[f].body[m]
  OBVIOUS
<1>2. Running /\ m <= Len(code[f]) /\ Instr.i = "call" /\ Still /\ UNCHANGED heap
  BY <1>1 DEF run_call, At
<1>3. /\ Translates(f, m, Instr) /\ NodeTypes(program, f, m) /\ node.op = "CALL_FUNC"
  BY <1>1, <1>2, RunText
<1>4. PICK g \in Decls(program, "DEF_FUNC") :
        program[g].sym = node.sym /\ FitsArgument(program, g, ValueType(program, f, m))
  BY <1>1, <1>3 DEF NodeTypes
<1>5. g \in Callables /\ program[g].op = "DEF_FUNC"
  BY <1>4 DEF Decls, Callables, Callable
<1>6. Callee(program, node.sym) = g /\ Instr.to = g
  <2>1. Callee(program, node.sym) = g
    BY <1>4, <1>5, CalleeFound
  <2> QED
    BY <1>1, <1>3, <2>1 DEF Translates
<1>7. ParamsOf(program[g]) = program[g].def_args
  BY <1>5 DEF ParamsOf
<1>8. PICK args : args = IF program[g].def_args = <<>> THEN <<>> ELSE <<top.acc>>
  OBVIOUS
<1>9. Call(g, args)
  BY <1>6, <1>8 DEF run_call
<1>10. /\ Len(args) = Len(ParamsOf(program[g]))
       /\ \A j \in 1 .. Len(args) :
            LET type == ParamsOf(program[g])[j].type IN
            type.kind = "KLASS" => PointsTo(args[j], type, 0)
  <2>1. CASE program[g].def_args = <<>>
    BY <1>7, <1>8, <2>1
  <2>2. CASE program[g].def_args # <<>>
    <3>1. /\ Len(program[g].def_args) = 1
          /\ program[g].def_args[1].type.kind = "KLASS" =>
               PointsTo(top.acc, program[g].def_args[1].type, 0)
      BY <1>1, <1>2, <1>4, <1>5, <2>2, ArgumentPoints
    <3>2. args = <<top.acc>>
      BY <1>8, <2>2
    <3>3. Len(args) = 1 /\ args[1] = top.acc
      BY <3>2
    <3> QED
      BY <1>7, <3>1, <3>3
  <2> QED
    BY <2>1, <2>2
<1> QED
  BY <1>1, <1>2, <1>3, <1>5, <1>6, <1>9, <1>10, CallSound

(***************************************************************************)
(* A call through the method array reaches the method its text means: the  *)
(* row the receiver's class had in the caller is the one it has in main.   *)
(***************************************************************************)
LEMMA RowsAgree ==
  ASSUME ShapeInv, WellTyped(program), RowsStay(program), NEW f \in Callables,
         f <= Callee(program, Main), NEW m \in 1 .. Len(program[f].body),
         program[f].body[m].op = "CALL_METHOD", NEW k,
         k = TypeOfName(program, f, m, program[f].body[m].reciever).klass
  PROVE  Row(program, f, k) = Row(program, Callee(program, Main), k)
<1> DEFINE main == Callee(program, Main)
           Below(i) == {j \in ClassesBefore(program, i) : KlassRank[j] < KlassRank[k]}
<1>1. /\ main \in 1 .. Len(program) /\ f \in 1 .. Len(program) /\ Len(program) \in Nat
      /\ Callable(program[f])
  BY MainText, PosFacts DEF Callables
<1>2. ASSUME NEW c \in Decls(program, "DEF_CLASS"), f < c, c < main
      PROVE  ~(KlassRank[program[c].sym] < KlassRank[k])
  BY <1>1, <1>2 DEF RowsStay
<1>3. \A c \in Decls(program, "DEF_CLASS") : c # f /\ c \in Int
  BY <1>1 DEF Decls, Callable
<1> HIDE DEF main
<1>4. Below(f) \subseteq Below(main)
  BY <1>1 DEF ClassesBefore, main
<1>5. ASSUME NEW j \in Below(main)
      PROVE  j \in Below(f)
  <2>1. PICK c \in Decls(program, "DEF_CLASS") : c \in 1 .. main - 1 /\ program[c].sym = j
    BY DEF ClassesBefore
  <2>2. ~(f < c)
    BY <1>1, <1>2, <2>1
  <2>3. c \in 1 .. f - 1
    BY <1>1, <1>3, <2>1, <2>2
  <2> QED
    BY <2>1, <2>3 DEF ClassesBefore
<1>6. Below(f) = Below(main)
  BY <1>4, <1>5
<1> QED
  BY <1>6 DEF Row, main

LEMMA SendTarget ==
  ASSUME ShapeInv, WellTyped(program), RowsStay(program), Sound, Placed, Running,
         top.pc <= Len(code[top.fn]), Instr.i = "send", NEW node,
         node = program[top.fn].body[top.pc]
  PROVE  \E g \in Decls(program, "DEF_METHOD") :
           /\ g \in Callables /\ g # 0 /\ g < top.fn
           /\ program[g].sym = node.sym /\ Callee(program, node.sym) = g
           /\ node.reciever \in Names(program, top.fn, top.pc)
           /\ TypeOfName(program, top.fn, top.pc, node.reciever) = KlassType(program[g].klass)
           /\ FitsArgument(program, g, ValueType(program, top.fn, top.pc))
           /\ Target = g /\ Instr.as = g
           /\ Instr.slot = Binder(program, top.fn, top.pc, node.reciever)
<1>1. PICK f, m, v : f = top.fn /\ m = top.pc /\ v = node.reciever
  OBVIOUS
<1>2. /\ Translates(f, m, Instr) /\ NodeTypes(program, f, m) /\ node.op = "CALL_METHOD"
      /\ f \in Callables /\ m \in 1 .. Len(program[f].body) /\ node = program[f].body[m]
  BY <1>1, RunText
<1>3. PICK g \in Decls(program, "DEF_METHOD") \cap (1 .. f - 1) :
        /\ program[g].sym = node.sym
        /\ v \in Names(program, f, m)
        /\ TypeOfName(program, f, m, v) = KlassType(program[g].klass)
        /\ FitsArgument(program, g, ValueType(program, f, m))
  BY <1>1, <1>2 DEF NodeTypes
<1>4. g \in Callables /\ program[g].op = "DEF_METHOD" /\ f \in Int /\ g \in Int /\ g < f
  BY <1>2, <1>3 DEF Decls, Callables, Callable
<1>5. g # 0 /\ Callee(program, node.sym) = g
  BY <1>3, <1>4, CalleeFound
<1>6. /\ Instr.row = Row(program, f, program[g].klass) /\ Instr.as = g
      /\ Instr.slot = Binder(program, f, m, v)
  BY <1>1, <1>2, <1>3, <1>5 DEF Translates, KlassType
<1> DEFINE main == Callee(program, Main)
<1>7. /\ main \in Callables /\ main \in Int /\ pos \in Int /\ main < pos /\ f <= main
  <2>1. main \in 1 .. Len(program) /\ Len(program) \in Nat /\ pos \in Int
    BY MainText, PosFacts DEF Callables
  <2>2. pos > Len(program) /\ Len(stack) \in Nat /\ Len(stack) > 0
    BY RunFacts
  <2>3. f <= main
    BY <1>1, <2>2 DEF Placed, MainIsLast, top
  <2> QED
    BY <2>1, <2>2, <2>3, MainText
<1>8. Row(program, f, program[g].klass) = Row(program, main, program[g].klass)
  <2>1. program[g].klass = TypeOfName(program, f, m, v).klass
    BY <1>3 DEF KlassType
  <2> QED
    BY <1>1, <1>2, <1>7, <2>1, RowsAgree
<1>9. Target = g
  <2>1. g < main
    BY <1>4, <1>7
  <2>2. Instr.row \in DOMAIN slots /\ slots[Instr.row] = g
    BY <1>3, <1>6, <1>7, <1>8, <2>1 DEF Placed, SlotsFollow
  <2> QED
    BY <2>2 DEF Target
<1> QED
  BY <1>1, <1>3, <1>4, <1>5, <1>6, <1>9

LEMMA RunSendSound ==
  ASSUME ShapeInv, WellTyped(program), RowsStay(program), Sound, BlocksTyped, Placed,
         run_send
  PROVE  Sound' /\ BlocksTyped'
<1>1. PICK f, m, k, node, v : /\ f = top.fn /\ m = top.pc /\ k = Len(stack)
                              /\ node = program[f].body[m] /\ v = node.reciever
  OBVIOUS
<1>2. Running /\ m <= Len(code[f]) /\ Instr.i = "send"
  BY <1>1 DEF run_send, At
<1>3. /\ Translates(f, m, Instr) /\ NodeTypes(program, f, m) /\ node.op = "CALL_METHOD"
      /\ f \in Callables /\ m \in 1 .. Len(program[f].body) /\ EnvHolds(f, m, top.env, k)
  BY <1>1, <1>2, RunText
<1>4. PICK g \in Decls(program, "DEF_METHOD") :
        /\ g \in Callables /\ g # 0 /\ Callee(program, node.sym) = g
        /\ v \in Names(program, f, m)
        /\ TypeOfName(program, f, m, v) = KlassType(program[g].klass)
        /\ FitsArgument(program, g, ValueType(program, f, m))
        /\ Target = g /\ Instr.as = g
        /\ Instr.slot = Binder(program, f, m, v)
  BY <1>1, <1>2, SendTarget
<1>5. g \in Callables /\ program[g].op = "DEF_METHOD"
  BY <1>4 DEF Decls
<1>6. g # 0 /\ Callee(program, node.sym) = g
  BY <1>4
<1>7. Target = g /\ Instr.as = g /\ Instr.slot = Binder(program, f, m, v)
  BY <1>4
<1>8. SameParameters(program[g], program[g])
  BY DEF SameParameters
<1>9. PICK args : args = IF program[g].def_args = <<>> THEN <<>> ELSE <<Pointer, top.acc>>
  OBVIOUS
<1>10. Call(g, args) /\ Still /\ UNCHANGED heap
  BY <1>6, <1>7, <1>8, <1>9 DEF run_send
<1>11. PointsTo(Pointer, KlassType(program[g].klass), 0)
  <2>1. m \in 1 .. Len(program[f].body) + 1
    BY <1>3, CallableText
  <2>2. /\ Binder(program, f, m, v) \in Binders(f, m)
        /\ TypeOfName(program, f, m, v) = TypeOfBinder(program, f, Binder(program, f, m, v))
    BY <1>3, <1>4, <2>1, NameText
  <2>3. PICK b : b = Binder(program, f, m, v)
    OBVIOUS
  <2>4. b \in Binders(f, m) /\ TypeOfBinder(program, f, b) = KlassType(program[g].klass)
    BY <1>4, <2>2, <2>3
  <2>5. TypeOfBinder(program, f, b).kind = "KLASS"
    BY <2>4 DEF KlassType
  <2>6. PointsTo(top.env[b], KlassType(program[g].klass), k)
    BY <1>3, <2>4, <2>5 DEF EnvHolds
  <2> QED
    BY <1>7, <2>3, <2>4, <2>5, <2>6 DEF PointsTo, Pointer
<1>12. /\ Len(args) = Len(ParamsOf(program[g]))
       /\ \A j \in 1 .. Len(args) :
            LET type == ParamsOf(program[g])[j].type IN
            type.kind = "KLASS" => PointsTo(args[j], type, 0)
  <2>1. CASE program[g].def_args = <<>>
    <3>1. ParamsOf(program[g]) = <<>>
      BY <2>1 DEF ParamsOf
    <3> QED
      BY <1>9, <2>1, <3>1
  <2>2. CASE program[g].def_args # <<>>
    <3>1. /\ Len(program[g].def_args) = 1
          /\ program[g].def_args[1].type.kind = "KLASS" =>
               PointsTo(top.acc, program[g].def_args[1].type, 0)
      BY <1>1, <1>2, <1>4, <1>5, <2>2, ArgumentPoints
    <3>2. args = <<Pointer, top.acc>>
      BY <1>9, <2>2
    <3>3. Len(args) = 2 /\ args[1] = Pointer /\ args[2] = top.acc
      BY <3>2
    <3>4. /\ Len(ParamsOf(program[g])) = 2
          /\ ParamsOf(program[g])[1] = [name |-> This, type |-> KlassType(program[g].klass)]
          /\ ParamsOf(program[g])[2] = program[g].def_args[1]
      <4>1. /\ Len(ParamsOf(program[g])) = Len(program[g].def_args) + 1
            /\ ParamsOf(program[g])[1] = [name |-> This, type |-> KlassType(program[g].klass)]
            /\ \A j \in 1 .. Len(program[g].def_args) :
                 ParamsOf(program[g])[j + 1] = program[g].def_args[j]
        BY <1>5, <2>2, ParamsParts
      <4>2. ParamsOf(program[g])[1 + 1] = program[g].def_args[1]
        <5>1. 1 \in 1 .. Len(program[g].def_args)
          BY <3>1
        <5> QED
          BY <4>1, <5>1
      <4>3. 1 + 1 = 2
        OBVIOUS
      <4> QED
        BY <3>1, <4>1, <4>2, <4>3
    <3>5. ParamsOf(program[g])[1].type = KlassType(program[g].klass)
      BY <3>4
    <3>6. \A j \in 1 .. 2 : j = 1 \/ j = 2
      OBVIOUS
    <3> QED
      BY <1>11, <3>1, <3>3, <3>4, <3>5, <3>6
  <2> QED
    BY <2>1, <2>2
<1>13. program[f].body[m].op \in {"CALL_FUNC", "CALL_METHOD"}
  BY <1>1, <1>3
<1> QED
  BY <1>1, <1>2, <1>5, <1>6, <1>10, <1>12, <1>13, CallSound

(* A return.  Objects stay; the arrays that go are those of the frame.     *)
LEMMA ReleasedBlocks ==
  ASSUME ShapeInv, WellTyped(program), BlocksTyped, run_return, NEW k, k = Len(stack)
  PROVE  /\ k \in Nat /\ k > 0
         /\ UNCHANGED <<program, pos, at, climb, klass_def_map, n, ret, vars, code>>
         /\ BlocksTyped'
         /\ \A value, type, d :
              d # k \/ type.kind = "KLASS" =>
                (PointsTo(value, type, d) => PointsTo(value, type, d)')
<1>1. k \in Nat /\ k > 0
  BY RunFacts DEF run_return
<1>2. UNCHANGED <<program, pos, at, climb, klass_def_map, n, ret, vars, code>>
  BY DEF run_return, compile_vars
<1>3. Len(heap') = Len(heap) /\ Len(heap) \in Nat
  <2>1. Len(heap) \in Nat
    BY SequenceDomain DEF ShapeInv, HeapShape
  <2> QED
    BY <2>1, ReleasedShape
<1>4. ASSUME NEW b \in 1 .. Len(heap)
      PROVE  /\ heap'[b].type = heap[b].type /\ heap'[b].types = heap[b].types
             /\ heap'[b].cells = heap[b].cells /\ heap'[b].home = heap[b].home
             /\ heap[b].home # k => heap'[b].live = heap[b].live
  <2>1. heap'[b] = [type |-> heap[b].type, types |-> heap[b].types,
                    cells |-> heap[b].cells, home |-> heap[b].home,
                    live |-> IF heap[b].home = k THEN FALSE ELSE heap[b].live]
    BY ReleasedShape
  <2>2. PICK x, y, live :
          /\ x = heap[b] /\ y = heap'[b]
          /\ live = (IF x.home = k THEN FALSE ELSE x.live)
    OBVIOUS
  <2>3. y = [type |-> x.type, types |-> x.types, cells |-> x.cells, home |-> x.home,
             live |-> live]
    BY <2>1, <2>2
  <2>4. /\ y.type = x.type /\ y.types = x.types /\ y.cells = x.cells /\ y.home = x.home
        /\ y.live = live
    BY <2>3
  <2>5. x.home # k => live = x.live
    BY <2>2
  <2> QED
    BY <2>2, <2>4, <2>5
<1>5. BlocksTyped'
  <2> SUFFICES ASSUME NEW b \in 1 .. Len(heap)
               PROVE  BlockTyped(heap[b])'
    BY <1>3 DEF BlocksTyped
  <2>1. PICK x, y : x = heap[b] /\ y = heap'[b]
    OBVIOUS
  <2>2. BlockTyped(x)
    BY <2>1 DEF BlocksTyped
  <2>3. /\ y.type = x.type /\ y.types = x.types /\ y.cells = x.cells /\ y.home = x.home
        /\ x.home # k => y.live = x.live
    BY <1>4, <2>1
  <2>4. BlockTyped(y)
    BY <1>1, <2>2, <2>3 DEF BlockTyped
  <2>5. BlockTyped(y)'
    BY <1>2, <2>4, BlockStill
  <2> QED
    BY <2>1, <2>5
<1>6. ASSUME NEW value, NEW type, NEW d, d # k \/ type.kind = "KLASS", PointsTo(value, type, d)
      PROVE  PointsTo(value, type, d)'
  <2>1. PICK b \in 1 .. Len(heap) :
          /\ value = Ref(b)
          /\ type.kind = "KLASS" =>
               /\ heap[b].type.kind = "KLASS"
               /\ type.klass \in Ancestors(program, heap[b].type.klass)
          /\ type.kind # "KLASS" =>
               heap[b].type = type /\ heap[b].home = d /\ heap[b].live = TRUE
    BY <1>6 DEF PointsTo
  <2>2. b \in 1 .. Len(heap') /\ program' = program
    BY <1>2, <1>3
  <2> QED
    BY <1>4, <1>6, <2>1, <2>2 DEF PointsTo
<1> QED
  BY <1>1, <1>2, <1>5, <1>6

(* The value of the callee is one of the type the caller expects. *)
LEMMA ReturnedValue ==
  ASSUME ShapeInv, WellTyped(program), Sound, BlocksTyped, Running,
         top.pc > Len(code[top.fn]), NEW caller, caller.pc \in Nat, Calls(caller, top)
  PROVE  LET type == ValueType(program, caller.fn, caller.pc) IN
         /\ type.kind = "KLASS" => PointsTo(top.acc, type, 0)
         /\ program[caller.fn].body[caller.pc - 1].op # "VALUEDATA"
<1>1. PICK f, m, node, value :
        /\ f = caller.fn /\ m = caller.pc - 1 /\ node = program[f].body[m]
        /\ value = ValueType(program, top.fn, top.pc)
  OBVIOUS
<1>2. /\ m \in Nat \ {0} /\ m + 1 = caller.pc
      /\ node.op \in {"CALL_FUNC", "CALL_METHOD"} /\ Callee(program, node.sym) = top.fn
  BY <1>1 DEF Calls
<1>3. ValueType(program, f, m + 1) = program[top.fn].type
  <2>1. node.op \notin Assignments
    BY <1>2 DEF Assignments
  <2>2. NodeType(program, f, m) = program[top.fn].type
    BY <1>1, <1>2 DEF NodeType
  <2> QED
    BY <1>1, <1>2, <2>1, <2>2, MakersStep
<1>4. /\ top.fn \in Callables
      /\ top.pc = Len(program[top.fn].body) + 1
  <2>1. /\ top.fn \in Callables
        /\ top.pc \in Nat /\ Len(code[top.fn]) \in Nat
        /\ Len(code[top.fn]) = Len(program[top.fn].body)
        /\ top.pc <= Len(code[top.fn]) + 1
    BY RunFacts
  <2>2. \A x, y \in Nat : x <= y + 1 /\ x > y => x = y + 1
    OBVIOUS
  <2> QED
    BY <2>1, <2>2
<1>5. Assignable(program, value, program[top.fn].type)
  BY <1>1, <1>4, CallableText DEF CallableTypes
<1>6. value.kind = "KLASS" => PointsTo(top.acc, value, 0)
  BY <1>1 DEF Sound, FramesTyped, Running, AccHolds
<1>7. program[top.fn].type.kind = "KLASS" => PointsTo(top.acc, program[top.fn].type, 0)
  BY <1>5, <1>6, PointsUp
<1> QED
  BY <1>1, <1>2, <1>3, <1>7

LEMMA RunReturnSound ==
  ASSUME ShapeInv, WellTyped(program), Sound, BlocksTyped, run_return
  PROVE  Sound' /\ BlocksTyped'
<1>1. PICK k, acc : k = Len(stack) /\ acc = top.acc
  OBVIOUS
<1>2. /\ k \in Nat /\ k > 0
      /\ UNCHANGED <<program, pos, at, climb, klass_def_map, n, ret, vars, code>>
      /\ BlocksTyped'
      /\ \A value, type, d :
           d # k \/ type.kind = "KLASS" =>
             (PointsTo(value, type, d) => PointsTo(value, type, d)')
  BY <1>1, ReleasedBlocks
<1>3. /\ phase = "running" /\ Running /\ n = 0 /\ at = 0 /\ top.pc > Len(code[top.fn])
  BY RunFacts DEF run_return, Running
<1>4. CodeTranslates'
  BY <1>2, CodeTranslatesGrow DEF Sound, Grows
<1>5. ASSUME phase' \in {"running", "exited"}, FramesTyped'
      PROVE  Sound'
  BY <1>2, <1>3, <1>4, <1>5 DEF Sound, ClimbsDown, NamesBound, ValueKnown, Failures
<1>6. CASE k = 1
  <2>1. phase' = "exited"
    BY <1>1, <1>6 DEF run_return
  <2>2. FramesTyped'
    BY <2>1 DEF FramesTyped
  <2> QED
    BY <1>2, <1>5, <2>1, <2>2
<1>7. CASE k # 1
  <2>1. PICK j : j = k - 1
    OBVIOUS
  <2>2. /\ Len(stack') = j /\ j \in Nat /\ j > 0 /\ j + 1 = k
        /\ \A i \in 1 .. j - 1 : stack'[i] = stack[i]
        /\ stack'[j] = [fn |-> stack[j].fn, pc |-> stack[j].pc,
                        acc |-> acc, env |-> stack[j].env]
        /\ phase' = "running"
    <3>1. phase' = phase
      BY <1>1, <1>7 DEF run_return
    <3> QED
      BY <1>1, <1>2, <1>3, <1>7, <2>1, <3>1, ReturnStack
  <2>3. /\ \A d \in 1 .. k : EnvHolds(stack[d].fn, stack[d].pc, stack[d].env, d)
        /\ \A d \in 1 .. k - 1 : Calls(stack[d], stack[d + 1])
    BY <1>1, <1>3 DEF Sound, FramesTyped
  <2>4. ASSUME NEW d \in 1 .. j
        PROVE  /\ stack'[d].fn = stack[d].fn /\ stack'[d].pc = stack[d].pc
               /\ stack'[d].env = stack[d].env
    <3>1. CASE d = j
      BY <2>2, <3>1
    <3>2. CASE d # j
      BY <2>2, <3>2
    <3> QED
      BY <3>1, <3>2
  <2>5. ASSUME NEW d \in 1 .. j
        PROVE  EnvHolds(stack[d].fn, stack[d].pc, stack[d].env, d)'
    <3>1. PICK f, m, env : f = stack[d].fn /\ m = stack[d].pc /\ env = stack[d].env
      OBVIOUS
    <3>2. EnvHolds(f, m, env, d) /\ d # k
      BY <1>2, <2>2, <2>3, <3>1
    <3>3. Binders(f, m)' = Binders(f, m)
      BY <1>2 DEF Binders
    <3>4. EnvHolds(f, m, env, d)'
      BY <1>2, <3>2, <3>3 DEF EnvHolds
    <3> QED
      BY <2>4, <3>1, <3>4
  <2>6. ASSUME NEW d \in 1 .. j - 1
        PROVE  Calls(stack[d], stack[d + 1])'
    <3>1. d \in 1 .. j /\ d + 1 \in 1 .. j /\ d \in 1 .. k - 1
      BY <2>2
    <3> QED
      BY <1>2, <2>3, <2>4, <3>1 DEF Calls
  <2>7. AccHolds(top.fn, top.pc, top.acc)'
    <3>1. PICK f, p : f = stack[j].fn /\ p = stack[j].pc
      OBVIOUS
    <3>2. p \in Nat
      <4>1. /\ FrameShape(stack[j]) /\ Len(code[stack[j].fn]) \in Nat
        BY <1>1, <1>2, <2>2, SequenceDomain DEF ShapeInv, StackShape, FrameShape, CodeShape
      <4> QED
        BY <3>1, <4>1 DEF FrameShape
    <3>3. stack[k] = top /\ Calls(stack[j], top)
      BY <1>1, <2>2, <2>3 DEF top
    <3>4. /\ ValueType(program, f, p).kind = "KLASS" => PointsTo(acc, ValueType(program, f, p), 0)
          /\ program[f].body[p - 1].op # "VALUEDATA"
      BY <1>1, <1>3, <3>1, <3>2, <3>3, ReturnedValue
    <3>5. AccHolds(f, p, acc)'
      BY <1>2, <3>4 DEF AccHolds
    <3>6. top' = [fn |-> f, pc |-> p, acc |-> acc, env |-> stack[j].env]
      BY <2>2, <3>1 DEF top
    <3> QED
      BY <3>5, <3>6
  <2>8. FramesTyped'
    BY <2>2, <2>5, <2>6, <2>7 DEF FramesTyped
  <2> QED
    BY <1>2, <1>5, <2>2, <2>8
<1> QED
  BY <1>6, <1>7

-----------------------------------------------------------------------------
(* Main is compiled after the methods it can reach and their classes.      *)
LEMMA MainFills ==
  ASSUME ShapeInv, WellTyped(program), pos = Callee(program, Main), n # 0,
         NEW g \in Decls(program, "DEF_METHOD"), g < pos
  PROVE  LET row == Row(program, pos, program[g].klass)
         IN  row \in DOMAIN setFuncPtrArry /\ setFuncPtrArry[row] = g
<1> DEFINE k == program[g].klass
           row == Row(program, pos, k)
<1>1. /\ pos \in Callables /\ g \in Callables /\ program[g].op = "DEF_METHOD"
      /\ pos \in 1 .. Len(program) /\ g \in 1 .. Len(program) /\ Len(program) \in Nat
      /\ program \in Programs
  BY MainText, PosFacts DEF Callables, Callable, Decls
<1>2. k \in ClassesBefore(program, g)
  BY <1>1, CallableText DEF CallableTypes
<1>3. k \in DOMAIN klass_def_map
  <2>1. g \in 1 .. Len(program) + 1 /\ pos \in 1 .. Len(program) + 1 /\ g <= pos
    BY <1>1
  <2> QED
    BY <1>1, <1>2, <2>1, ClassesGrow DEF ShapeInv, Progress
<1>4. klass_def_map[k].decl = DeclOf(program, k)
  BY <1>3, CompiledClass
<1>5. DeclOf(program, k) < g
  <2>1. g \in 1 .. Len(program) + 1
    BY <1>1
  <2>2. DeclOf(program, k) \in 1 .. g - 1
    BY <1>1, <1>2, <2>1, ClassNames
  <2> QED
    BY <1>1, <2>2
<1>6. MethodsSince(k) = {g}
  <2>1. g \in DOMAIN code
    BY <1>1 DEF ShapeInv, Progress
  <2>2. \A j \in DOMAIN code : j \in 1 .. Len(program)
    BY DEF ShapeInv, Progress, Callables
  <2>3. ASSUME NEW j \in MethodsSince(k)
        PROVE  j = g
    <3>1. j \in Decls(program, "DEF_METHOD") /\ program[j].klass = k
      BY <2>2 DEF MethodsSince, Decls
    <3> QED
      BY <3>1 DEF WellTyped
  <2>4. g \in MethodsSince(k)
    BY <1>1, <1>4, <1>5, <2>1 DEF MethodsSince
  <2> QED
    BY <2>3, <2>4
<1>7. method_map(k) = g
  BY <1>6, MethodMap
<1>8. k \in WithMethod /\ getDefId(k) = row
  BY <1>3, <1>6, RowNow DEF WithMethod
<1>9. \A j \in WithMethod : getDefId(j) = row => j = k
  BY <1>3, <1>8, NumbersDiffer DEF WithMethod
<1> HIDE DEF k, row
<1>10. (CHOOSE j \in WithMethod : getDefId(j) = row) = k
  BY <1>8, <1>9
<1> QED
  BY <1>7, <1>8, <1>10 DEF setFuncPtrArry, k, row

LEMMA SlotsNext ==
  ASSUME ShapeInv, WellTyped(program), SlotsFollow, [ObjectNext]_object_vars
  PROVE  SlotsFollow'
<1> DEFINE main == Callee(program, Main)
<1>1. program' = program
  BY ProgramStays
<1>2. /\ main \in Int /\ pos \in Int
      /\ program[main].op = "DEF_FUNC" /\ program[main].sym = Main
      /\ main \in 1 .. Len(program)
  BY MainText, PosFacts DEF Decls
<1> SUFFICES ASSUME pos' > main, NEW g \in Decls(program, "DEF_METHOD"), g < main
             PROVE  LET row == Row(program, main, program[g].klass)
                    IN  row \in DOMAIN slots' /\ slots'[row] = g
  BY <1>1 DEF SlotsFollow
<1>3. CASE pos > main /\ slots' = slots
  BY <1>3 DEF SlotsFollow
<1>4. CASE pos = main /\ n # 0 /\ slots' = setFuncPtrArry
  BY <1>4, MainFills
<1>5. \/ pos > main /\ slots' = slots
      \/ pos = main /\ n # 0 /\ slots' = setFuncPtrArry
  <2>1. CASE UNCHANGED <<pos, slots>>
    BY <2>1
  <2>2. CASE program[pos].op = "DEF_CLASS" /\ pos' = pos + 1 /\ UNCHANGED slots
    <3>1. pos # main
      BY <1>2, <2>2
    <3> QED
      BY <1>2, <2>2, <3>1
  <2>3. CASE /\ pos \in Callables /\ n # 0 /\ pos' = pos + 1
             /\ slots' = IF program[pos].op = "DEF_FUNC" /\ program[pos].sym = Main
                         THEN setFuncPtrArry ELSE slots
    <3>1. CASE pos = main
      BY <1>2, <2>3, <3>1
    <3>2. CASE pos # main
      <4>1. program[pos].sym # Main
        BY <1>2, <2>3, <3>2 DEF WellTyped, Callables
      <4> QED
        BY <1>2, <2>3, <3>2, <4>1
    <3> QED
      BY <3>1, <3>2
  <2> QED
    BY <2>1, <2>2, <2>3, SlotsStay
<1> QED
  BY <1>3, <1>4, <1>5

(* A call goes to an earlier declaration. *)
LEMMA StackNext ==
  ASSUME ShapeInv, WellTyped(program), RowsStay(program), Sound, Placed, ObjectNext
  PROVE  MainIsLast'
<1> DEFINE main == Callee(program, Main)
<1>1. program' = program
  BY ProgramStays
<1>2. main \in Int /\ main \in Callables
  BY MainText DEF Callables
<1>3. ASSUME NEW d \in 1 .. Len(stack)
      PROVE  stack[d].fn <= main
  BY DEF Placed, MainIsLast
<1>4. CASE UNCHANGED stack
  BY <1>1, <1>3, <1>4 DEF MainIsLast
<1>5. CASE WriteBitcodeToFile
  <2>1. UNCHANGED stack \/ stack' = <<Frame(main, EmptyMap)>>
    BY <1>5, MainText DEF WriteBitcodeToFile
  <2>2. CASE stack' = <<Frame(main, EmptyMap)>>
    <3>1. Len(stack') = 1 /\ stack'[1].fn = main
      BY <2>2 DEF Frame
    <3>2. \A d \in 1 .. Len(stack') : stack'[d].fn <= main
      BY <1>2, <3>1
    <3> QED
      BY <1>1, <3>2 DEF MainIsLast
  <2> QED
    BY <1>4, <2>1, <2>2
<1>6. CASE Running /\ \E acc, env : stack' = Step(acc, env)
  <2>1. PICK acc, env : stack' = Step(acc, env)
    BY <1>6
  <2>2. Len(stack) \in Nat /\ Len(stack) > 0
    BY <1>6, RunFacts
  <2>3. /\ Len(stack') = Len(stack)
        /\ \A d \in 1 .. Len(stack) : stack'[d].fn = stack[d].fn
    <3>1. /\ Len(Step(acc, env)) = Len(stack)
          /\ \A d \in 1 .. Len(stack) - 1 : Step(acc, env)[d] = stack[d]
          /\ Step(acc, env)[Len(stack)] =
               [fn |-> top.fn, pc |-> top.pc + 1, acc |-> acc, env |-> env]
      BY <1>6, StepStack
    <3>2. ASSUME NEW d \in 1 .. Len(stack)
          PROVE  Step(acc, env)[d].fn = stack[d].fn
      <4>1. d = Len(stack) \/ d \in 1 .. Len(stack) - 1
        BY <2>2
      <4> QED
        BY <3>1, <4>1 DEF top
    <3> QED
      BY <2>1, <3>1, <3>2
  <2> QED
    BY <1>1, <1>3, <2>3 DEF MainIsLast
<1>7. CASE run_call \/ run_send
  <2>1. CASE UNCHANGED stack
    BY <1>4, <2>1
  <2>2. CASE ~UNCHANGED stack
    <3>1. PICK g \in Callables :
            Running /\ top.pc <= Len(code[top.fn]) /\ g < top.fn /\ \E args : Call(g, args)
      <4>1. CASE run_call
        <5>1. Running /\ top.pc <= Len(code[top.fn]) /\ Instr.i = "call"
          BY <4>1 DEF run_call, At
        <5>2. PICK f, m, node : f = top.fn /\ m = top.pc /\ node = program[f].body[m]
          OBVIOUS
        <5>3. /\ Translates(f, m, Instr) /\ NodeTypes(program, f, m)
              /\ node.op = "CALL_FUNC" /\ f \in Callables
          BY <5>1, <5>2, RunText
        <5>4. PICK g \in Decls(program, "DEF_FUNC") \cap (1 .. f - 1) :
                program[g].sym = node.sym
          BY <5>2, <5>3 DEF NodeTypes
        <5>5. g \in Callables /\ f \in Int
          BY <5>3, <5>4 DEF Decls, Callables, Callable
        <5>6. Instr.to = g
          <6>1. Callee(program, node.sym) = g
            BY <5>4, <5>5, CalleeFound
          <6> QED
            BY <5>2, <5>3, <6>1 DEF Translates
        <5> QED
          BY <4>1, <5>1, <5>2, <5>4, <5>5, <5>6 DEF run_call
      <4>2. CASE run_send
        <5>1. Running /\ top.pc <= Len(code[top.fn]) /\ Instr.i = "send"
          BY <4>2 DEF run_send, At
        <5>2. PICK g \in Callables : g < top.fn /\ Target = g
          BY <5>1, SendTarget
        <5> QED
          BY <2>2, <4>2, <5>1, <5>2 DEF run_send, Wrong, run_vars
      <4> QED
        BY <1>7, <4>1, <4>2
    <3>2. PICK caller, frame :
            /\ Len(stack') = Len(stack) + 1
            /\ \A i \in 1 .. Len(stack) - 1 : stack'[i] = stack[i]
            /\ stack'[Len(stack)] = caller /\ caller.fn = top.fn
            /\ stack'[Len(stack) + 1] = frame /\ frame.fn = g
      <4>1. PICK args : Call(g, args)
        BY <3>1
      <4> DEFINE caller == [fn |-> top.fn, pc |-> top.pc + 1, acc |-> top.acc, env |-> top.env]
                 frame  == Frame(g, [i \in {-j : j \in 1 .. Len(args)} |-> args[-i]])
      <4>2. caller.fn = top.fn /\ frame.fn = g
        BY DEF Frame
      <4>3. /\ Len(stack') = Len(stack) + 1
            /\ \A i \in 1 .. Len(stack) - 1 : stack'[i] = stack[i]
            /\ stack'[Len(stack)] = caller /\ stack'[Len(stack) + 1] = frame
        BY <3>1, <4>1, CallStack
      <4> HIDE DEF caller, frame
      <4> QED
        BY <4>2, <4>3
    <3>3. Len(stack) \in Nat /\ Len(stack) > 0 /\ top.fn <= main /\ top.fn \in Int /\ g \in Int
      BY <1>3, <3>1, RunFacts DEF top, Callables
    <3>4. ASSUME NEW d \in 1 .. Len(stack')
          PROVE  stack'[d].fn <= main
      <4>1. d = Len(stack) + 1 \/ d = Len(stack) \/ d \in 1 .. Len(stack) - 1
        BY <3>2, <3>3
      <4>2. g <= main
        BY <1>2, <3>1, <3>3
      <4>3. \A i \in 1 .. Len(stack) - 1 : i \in 1 .. Len(stack)
        BY <3>3
      <4> QED
        BY <1>3, <3>2, <3>3, <4>1, <4>2, <4>3
    <3> QED
      BY <1>1, <3>4 DEF MainIsLast
  <2> QED
    BY <2>1, <2>2
<1>8. CASE run_return
  <2>1. CASE UNCHANGED stack
    BY <1>4, <2>1
  <2>2. CASE ~UNCHANGED stack
    <3>1. Running /\ Len(stack) # 1
      BY <1>8, <2>2 DEF run_return
    <3>2. Len(stack) \in Nat /\ Len(stack) > 0
      BY <3>1, RunFacts
    <3>3. /\ Len(stack') = Len(stack) - 1
          /\ \A d \in 1 .. Len(stack) - 1 : stack'[d].fn = stack[d].fn
      BY <1>8, <3>1, <3>2, ReturnStack
    <3>4. \A d \in 1 .. Len(stack') : d \in 1 .. Len(stack) /\ stack'[d].fn = stack[d].fn
      BY <3>2, <3>3
    <3> QED
      BY <1>1, <1>3, <3>4 DEF MainIsLast
  <2> QED
    BY <2>1, <2>2
<1>9. CASE yyparse \/ CompileClass \/ CompileFunction
  <2>1. UNCHANGED stack
    BY <1>9 DEF yyparse, CompileClass, CompileFunction, begin_function, exec_value,
                exec_def_var_codegen,
                exec_new_class_codegen, exec_get_var_codegen, exec_set_var_codegen,
                exec_get_member_var_codegen, exec_set_member_var_codegen,
                exec_get_array_var_codegen, exec_set_array_var_codegen, exec_print_codegen,
                exec_call_func_codegen, exec_call_method_codegen, makeReturn,
                Stop, Emit, run_vars
  <2> QED
    BY <1>4, <2>1
<1>10. CASE run_def \/ run_new \/ run_simple \/ run_get \/ run_set \/ run_print
  <2>1. UNCHANGED stack \/ (Running /\ \E acc, env : stack' = Step(acc, env))
    BY <1>10 DEF run_def, run_new, run_simple, run_get, run_set, run_print, Wrong, run_vars, At
  <2> QED
    BY <1>4, <1>6, <2>1
<1> QED
  BY <1>5, <1>7, <1>8, <1>9, <1>10 DEF ObjectNext, Run

-----------------------------------------------------------------------------
(* The invariant. *)
LEMMA RunSound ==
  ASSUME ShapeInv, WellTyped(program), RowsStay(program), Sound, BlocksTyped, Placed, Run
  PROVE  Sound' /\ BlocksTyped'
BY RunDefSound, RunNewSound, SimpleSound, RunGetSound, RunSetSound, PrintedSound,
   RunCallSound, RunSendSound, RunReturnSound
DEF Run

(* Nothing happens after a failure. *)
LEMMA FailedStays ==
  ASSUME phase \in Failures
  PROVE  ~ObjectNext
<1>1. phase \notin {"parse", "codegen", "running"}
  BY DEF Failures
<1>2. ~yyparse /\ ~WriteBitcodeToFile
  BY <1>1 DEF yyparse, WriteBitcodeToFile
<1>3. ~CompileClass
  BY <1>1 DEF CompileClass, ClassCodegen, exec_def_class_codegen, read_junk, getFieldDef,
              makeKlassDef
<1>4. ~CompileFunction
  BY <1>1 DEF CompileFunction, Compiling, begin_function, exec_value, exec_def_var_codegen,
              exec_new_class_codegen, exec_get_var_codegen, exec_set_var_codegen,
              exec_get_member_var_codegen, exec_set_member_var_codegen,
              exec_get_array_var_codegen, exec_set_array_var_codegen, exec_print_codegen,
              exec_call_func_codegen, exec_call_method_codegen, makeReturn
<1>5. ~Run
  BY <1>1 DEF Run, Running, At, run_def, run_new, run_simple, run_get, run_set, run_print,
              run_call, run_send, run_return
<1> QED
  BY <1>2, <1>3, <1>4, <1>5 DEF ObjectNext

LEMMA StutterSound ==
  ASSUME ShapeInv, WellTyped(program), UNCHANGED object_vars
  PROVE  /\ BlocksTyped => BlocksTyped'
         /\ Sound => Sound'
<1>1. UNCHANGED <<program, phase, pos, at, climb, klass_def_map, n, ret, vars, code,
                  heap, stack>>
  BY DEF object_vars, layout_vars, compile_vars, run_vars
<1>2. HeapKeeps /\ (BlocksTyped => BlocksTyped')
  BY <1>1, BlocksStill
<1>3. ASSUME Sound
      PROVE  Sound'
  <2>1. CodeTranslates'
    BY <1>1, <1>3, CodeTranslatesGrow DEF Sound, Grows
  <2>2. FramesTyped'
    <3>1. \A f, m, env, d : EnvHolds(f, m, env, d) => EnvHolds(f, m, env, d)'
      BY <1>1, <1>2, EnvStill
    <3>2. \A value, type, d : PointsTo(value, type, d) => PointsTo(value, type, d)'
      BY <1>1, <1>2, PointsStill
    <3>3. \A f, m, acc : AccHolds(f, m, acc) => AccHolds(f, m, acc)'
      BY <1>1, <3>2 DEF AccHolds
    <3>4. \A a, b : Calls(a, b) => Calls(a, b)'
      BY <1>1 DEF Calls
    <3>5. top' = top
      BY <1>1 DEF top
    <3> QED
      BY <1>1, <1>3, <3>1, <3>3, <3>4, <3>5 DEF Sound, FramesTyped
  <2> QED
    BY <1>1, <1>3, <2>1, <2>2 DEF Sound, ClimbsDown, NamesBound, ValueKnown
<1> QED
  BY <1>2, <1>3

LEMMA InitSound ==
  ASSUME ObjectInit
  PROVE  SoundInv
<1>1. ShapeInv /\ SlotsShape
  BY InitShape DEF ObjectInit, EmptyMap, SlotsShape
<1>2. /\ phase = "parse" /\ pos = 1 /\ at = 0 /\ n = 0 /\ DOMAIN code = {} /\ heap = <<>>
      /\ stack = <<>>
  BY DEF ObjectInit, NothingCompiled, EmptyMap
<1>3. BlocksTyped
  BY <1>2 DEF BlocksTyped
<1>4. Sound
  BY <1>2 DEF Sound, Failures, ClimbsDown, NamesBound, ValueKnown, CodeTranslates, FramesTyped
<1>5. ASSUME WellTyped(program)
      PROVE  Placed
  <2>1. Callee(program, Main) \in 1 .. Len(program) /\ Len(program) \in Nat
    BY <1>1, <1>5, MainText, PosFacts DEF Callables
  <2>2. ~(pos > Callee(program, Main)) /\ 1 .. Len(stack) = {}
    BY <1>2, <2>1
  <2> QED
    BY <2>2 DEF Placed, SlotsFollow, MainIsLast
<1> QED
  BY <1>1, <1>3, <1>4, <1>5 DEF SoundInv

LEMMA StepSoundInv ==
  ASSUME SoundInv, [ObjectNext]_object_vars
  PROVE  SoundInv'
<1>1. ShapeInv /\ ShapeInv' /\ SlotsShape'
  BY StepShapeInv, StepSlots DEF SoundInv
<1>2. program' = program
  BY ProgramStays
<1>3. ASSUME WellTyped(program), RowsStay(program)
      PROVE  BlocksTyped' /\ Placed' /\ (Sound' \/ Excused')
  <2>1. BlocksTyped /\ Placed /\ (Sound \/ Excused)
    BY <1>3 DEF SoundInv
  <2>2. SlotsFollow'
    BY <1>1, <1>3, <2>1, SlotsNext DEF Placed
  <2>3. CASE UNCHANGED object_vars
    <3>1. phase' = phase /\ stack' = stack
      BY <2>3 DEF object_vars, layout_vars, run_vars
    <3>2. Placed' /\ (Excused => Excused')
      BY <1>2, <2>1, <2>2, <3>1 DEF Placed, MainIsLast, Excused
    <3> QED
      BY <1>1, <1>3, <2>1, <2>3, <3>2, StutterSound
  <2>4. CASE ObjectNext
    <3>1. Sound
      <4>1. Excused => phase \in Failures
        BY DEF Excused, Failures
      <4> QED
        BY <2>1, <2>4, <4>1, FailedStays
    <3>2. Placed'
      BY <1>1, <1>3, <2>1, <2>2, <2>4, <3>1, StackNext DEF Placed
    <3> QED
      BY <1>1, <1>3, <2>1, <2>4, <3>1, <3>2, ParseSound, ClassSound, CompileSound, StartSound,
         RunSound DEF ObjectNext
  <2> QED
    BY <2>3, <2>4
<1> QED
  BY <1>1, <1>2, <1>3 DEF SoundInv

LEMMA Objects_Sound == ObjectSpec => []SoundInv
<1>1. ObjectInit => SoundInv
  BY InitSound
<1>2. SoundInv /\ [ObjectNext]_object_vars => SoundInv'
  BY StepSoundInv
<1> QED
  BY <1>1, <1>2, PTL DEF ObjectSpec

-----------------------------------------------------------------------------
(***************************************************************************)
(* A program that keeps to the type discipline of ObjectTypes, whose       *)
(* classes keep their rows in the method array and fit into it, is         *)
(* compiled and runs without a failure: no assertion of the compiler, no   *)
(* NULL, no module the reader refuses, no missing function, no empty slot  *)
(* and no access to memory that is not there or is not what the type of    *)
(* the variable says.  Memory that malloc returns is zero: junk in a class *)
(* declaration is read by getFieldDef whatever the program.                *)
(***************************************************************************)
THEOREM Objects_WellTypedProgramsDoNotFail ==
  ASSUME ~JunkMemory
  PROVE  ObjectSpec => []WellTypedProgramsDoNotFail
<1>1. SoundInv => WellTypedProgramsDoNotFail
  BY DEF SoundInv, Sound, Excused, WellTypedProgramsDoNotFail
<1> QED
  BY <1>1, Objects_Sound, PTL

(***************************************************************************)
(* In every frame of a running well-typed program whose classes keep their *)
(* rows, a variable of a class holds an object of that class or of one     *)
(* that extends it, and a variable of array type an array that still       *)
(* exists: a call through the method array brings its method its object.   *)
(***************************************************************************)
THEOREM Objects_VariablesHoldTheirTypes == ObjectSpec => []VariablesHoldTheirTypes
<1>1. ASSUME SoundInv
      PROVE  VariablesHoldTheirTypes
  <2> SUFFICES ASSUME phase = "running", WellTyped(program), RowsStay(program),
                      NEW d \in 1 .. Len(stack),
                      NEW v \in Names(program, stack[d].fn, stack[d].pc),
                      NEW type, type = TypeOfName(program, stack[d].fn, stack[d].pc, v),
                      type.kind \in {"KLASS", "ARRAY"}
               PROVE  Holds(stack[d].env[SlotOf(stack[d], v)], type)
    BY DEF VariablesHoldTheirTypes
  <2>1. PICK f, m, env, b : /\ f = stack[d].fn /\ m = stack[d].pc /\ env = stack[d].env
                            /\ b = Binder(program, f, m, v)
    OBVIOUS
  <2>2. ShapeInv /\ BlocksTyped /\ Sound /\ Running
    BY <1>1 DEF SoundInv, Running, Excused
  <2>3. EnvHolds(f, m, env, d)
    BY <2>1, <2>2 DEF Sound, FramesTyped
  <2>4. f \in Callables /\ m \in 1 .. Len(program[f].body) + 1
    <3>1. FrameShape(stack[d]) /\ pos > Len(program) /\ DOMAIN code = Callables
      BY <2>2, RunFacts DEF ShapeInv, StackShape
    <3>2. f \in Callables /\ m \in 1 .. Len(code[f]) + 1
      BY <2>1, <3>1 DEF FrameShape
    <3>3. f < pos
      <4>1. f \in 1 .. Len(program) /\ Len(program) \in Nat /\ pos \in Int
        BY <2>2, <3>2, PosFacts DEF Callables
      <4> QED
        BY <3>1, <4>1
    <3>4. Len(code[f]) = Len(program[f].body)
      BY <2>2, <3>1, <3>2, <3>3 DEF ShapeInv, CodeShape
    <3> QED
      BY <3>2, <3>4
  <2>5. b \in Binders(f, m) /\ type = TypeOfBinder(program, f, b)
    <3>1. /\ Binder(program, f, m, v) \in Binders(f, m)
          /\ TypeOfName(program, f, m, v) = TypeOfBinder(program, f, Binder(program, f, m, v))
      BY <2>1, <2>2, <2>4, NameText
    <3> QED
      BY <2>1, <3>1
  <2>6. PointsTo(env[b], type, d)
    BY <2>3, <2>5 DEF EnvHolds
  <2>7. Holds(env[b], type)
    <3>1. PICK c \in 1 .. Len(heap) :
            /\ env[b] = Ref(c)
            /\ type.kind = "KLASS" =>
                 /\ heap[c].type.kind = "KLASS"
                 /\ type.klass \in Ancestors(program, heap[c].type.klass)
            /\ type.kind # "KLASS" => heap[c].type = type /\ heap[c].live = TRUE
      BY <2>6 DEF PointsTo
    <3>2. BlockTyped(heap[c])
      BY <2>2 DEF BlocksTyped
    <3>3. heap[c].live = TRUE
      BY <3>1, <3>2 DEF BlockTyped
    <3>4. env[b][1] = "ref" /\ env[b][2] = c
      BY <3>1 DEF Ref
    <3> QED
      BY <3>1, <3>3, <3>4 DEF Holds
  <2> QED
    BY <2>1, <2>7 DEF SlotOf
<1> QED
  BY <1>1, Objects_Sound, PTL

(***************************************************************************)
(* $ID tells classes apart: in a well-typed program that declares no class *)
(* after a function, two objects have the same first cell exactly if they  *)
(* are of the same class, whatever has been stored through which variable. *)
(***************************************************************************)
THEOREM Objects_IdsTellClassesApart == ObjectSpec => []IdsTellClassesApart
<1>1. ASSUME SoundInv
      PROVE  IdsTellClassesApart
  <2> SUFFICES ASSUME WellTyped(program), ClassesFirst(program),
                      NEW b \in ObjectBlocks, NEW c \in ObjectBlocks
               PROVE  heap[b].cells[1] = heap[c].cells[1] <=> heap[b].type = heap[c].type
    BY DEF IdsTellClassesApart
  <2>1. ShapeInv /\ BlockTyped(heap[b]) /\ BlockTyped(heap[c])
    <3>1. ShapeInv /\ RowsStay(program)
      <4>1. ShapeInv /\ Len(program) \in Nat
        BY <1>1, PosFacts DEF SoundInv
      <4>2. \A i \in 1 .. Len(program) : \A d \in Decls(program, "DEF_CLASS") :
              Callable(program[i]) => ~(i < d)
        BY <4>1 DEF ClassesFirst, Decls
      <4> QED
        BY <4>1, <4>2 DEF RowsStay
    <3> QED
      BY <1>1, <3>1 DEF SoundInv, BlocksTyped, ObjectBlocks
  <2>2. PICK j, k : j = heap[b].type.klass /\ k = heap[c].type.klass
    OBVIOUS
  <2>3. /\ heap[b].type = KlassType(j) /\ j \in DOMAIN klass_def_map
        /\ heap[b].cells[1] = Number(getDefId(j))
        /\ heap[c].type = KlassType(k) /\ k \in DOMAIN klass_def_map
        /\ heap[c].cells[1] = Number(getDefId(k))
    BY <2>1, <2>2 DEF BlockTyped, ObjectBlocks
  <2>4. Number(getDefId(j)) = Number(getDefId(k)) => getDefId(j) = getDefId(k)
    BY DEF Number
  <2>5. getDefId(j) = getDefId(k) => j = k
    BY <2>1, <2>3, NumbersDiffer
  <2>6. KlassType(j) = KlassType(k) => j = k
    BY DEF KlassType
  <2> QED
    BY <2>3, <2>4, <2>5, <2>6
<1> QED
  BY <1>1, Objects_Sound, PTL
=============================================================================

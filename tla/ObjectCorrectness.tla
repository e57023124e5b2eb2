------------------------- MODULE ObjectCorrectness -------------------------
(***************************************************************************)
(* What Objects promises: the properties of the generated code and of the  *)
(* running program, and the meaning of well-typed programs it implements.  *)
(***************************************************************************)
EXTENDS Objects, ObjectTypes

Failures == {"assert", "crash", "malformed", "undefined", "unresolved"}
Types    == {"i32", "double", "ptr"}

(* Shape of the state. *)
ObjectTypeOK ==
  /\ phase \in {"parse", "codegen", "running", "exited"} \cup Failures
  /\ ret \in Types \cup {"none"}
  /\ DOMAIN code \subseteq 1 .. Len(program)
  /\ n # 0 => pos <= Len(program) /\ n <= Len(Here.body) + 1
  /\ \A v \in DOMAIN vars : vars[v].home \in DOMAIN code
  /\ \A b \in 1 .. Len(heap) : DOMAIN heap[b].cells = DOMAIN heap[b].types
  /\ \A f \in 1 .. Len(stack) :
       stack[f].fn \in DOMAIN code /\ stack[f].pc \in 1 .. Len(code[stack[f].fn]) + 1

(***************************************************************************)
(* What a program needs besides types.  A call finds the method of its     *)
(* receiver's class only if the row the class has in the method array is   *)
(* still the same when main is compiled: no class that sorts before it is  *)
(* declared between the caller and main.  And the array must have a row    *)
(* for every class.                                                        *)
(***************************************************************************)
RowsStay(p) ==
  \A i \in 1 .. Len(p) : Callable(p[i]) =>
    \A m \in 1 .. Len(p[i].body) : p[i].body[m].op = "CALL_METHOD" =>
      \A c \in Decls(p, "DEF_CLASS") : i < c /\ c < Callee(p, Main) =>
        ~(KlassRank[p[c].sym]
            < KlassRank[TypeOfName(p, i, m, p[i].body[m].reciever).klass])

RowsSuffice(p) == Cardinality(ClassesBefore(p, Len(p) + 1)) <= RowLen

(***************************************************************************)
(* Programs that keep to the type discipline, which no line of the         *)
(* compiler mentions, and whose classes keep their rows, fail in no way:   *)
(* no assertion, no NULL, no module the reader refuses, no empty slot, no  *)
(* access to what is not there.                                            *)
(***************************************************************************)
WellTypedProgramsDoNotFail ==
  phase \in Failures => ~(WellTyped(program) /\ RowsStay(program) /\ RowsSuffice(program))

(***************************************************************************)
(* Memory.  In a well-typed program whose classes keep their rows, a       *)
(* variable of a class holds an object of that class or of one that        *)
(* extends it, at any time and in any frame, `this' included, and a        *)
(* variable of array type an array that still exists.                      *)
(***************************************************************************)
SlotOf(frame, v) == Binder(program, frame.fn, frame.pc, v)

Holds(value, type) ==
  /\ value[1] = "ref"
  /\ heap[value[2]].live
  /\ IF type.kind = "KLASS"
     THEN type.klass \in Ancestors(program, heap[value[2]].type.klass)
     ELSE heap[value[2]].type = type

VariablesHoldTheirTypes ==
  phase = "running" /\ WellTyped(program) /\ RowsStay(program) =>
    \A f \in 1 .. Len(stack) :
      \A v \in Names(program, stack[f].fn, stack[f].pc) :
        LET type == TypeOfName(program, stack[f].fn, stack[f].pc, v) IN
        type.kind \in {"KLASS", "ARRAY"} => Holds(stack[f].env[SlotOf(stack[f], v)], type)

(***************************************************************************)
(* $ID.  Whatever is stored through whichever variable, the first cells of *)
(* two objects are equal exactly if their classes are, as long as no class *)
(* is declared after a function: the number of a class is its place among  *)
(* the classes compiled so far.                                            *)
(***************************************************************************)
ClassesFirst(p) ==
  \A i, j \in 1 .. Len(p) : p[i].op = "DEF_CLASS" /\ Callable(p[j]) => i < j

ObjectBlocks == {b \in 1 .. Len(heap) : heap[b].type.kind = "KLASS"}

IdsTellClassesApart ==
  WellTyped(program) /\ ClassesFirst(program) =>
    \A b, c \in ObjectBlocks :
      heap[b].cells[1] = heap[c].cells[1] <=> heap[b].type = heap[c].type

-----------------------------------------------------------------------------
(***************************************************************************)
(* The generated code implements the meaning of the text: the member of an *)
(* object is the cell at its index in the layout of the object's class,    *)
(* whatever the class of the variable it is reached through.               *)
(***************************************************************************)
Thing(b) ==
  IF b.type.kind = "ARRAY"
  THEN [klass |-> Nobody, vals |-> [i \in 0 .. Len(b.cells) - 1 |-> b.cells[i + 1]]]
  ELSE [klass |-> b.type.klass,
        vals |-> [m \in Members(program, b.type.klass) |->
                    b.cells[getFieldDistance(Fields(b.type.klass), m) + 1]]]

ByName(frame) ==
  [frame EXCEPT !.env =
     [v \in Names(program, frame.fn, frame.pc) |-> frame.env[SlotOf(frame, v)]]]

MeaningStatus == IF phase \in {"parse", "codegen"} THEN "compiling" ELSE phase
MeaningThings == [i \in 1 .. Len(heap) |-> Thing(heap[i])]
MeaningStack  == [d \in 1 .. Len(stack) |-> ByName(stack[d])]

Meaning == INSTANCE ObjectSemantics WITH
  status <- MeaningStatus, things <- MeaningThings, stack <- MeaningStack

ImplementsMeaning == Meaning!Spec

(* A well-typed program whose classes keep their rows is compiled, and the *)
(* result runs to its end.                                                 *)
ObjectProgramExits == <>(phase = "exited")
=============================================================================

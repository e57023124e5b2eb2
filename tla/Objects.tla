------------------------------ MODULE Objects ------------------------------
(***************************************************************************)
(* Variables, objects and arrays of MugiCha, from the text to the running  *)
(* program: the make_ast_* that intern names or fail to find them          *)
(* (src/ast.c), exec_*_var_codegen, exec_new_class_codegen and calls       *)
(* (src/mugicha_compiler.cpp), LLVMVariable, LLVMStruct, Klass, LLVMArray  *)
(* and the variable map (src/llvm_builder.cpp), and lli on the result.     *)
(* Layouts compiles the classes.                                           *)
(*                                                                         *)
(* A body is the sequence of its nodes in the order they are reduced and   *)
(* compiled; a node that takes an operand takes the value of the one       *)
(* before it.  A call by name reaches the function named, as Compiler      *)
(* finds it does in programs that declare before use; functions have       *)
(* different names here.  A method call reaches what main has put in the   *)
(* row its class had when the call was compiled.  The object allocated for *)
(* a parameter of class type, which the argument replaces at once, is left *)
(* out.                                                                    *)
(***************************************************************************)
EXTENDS Layouts

CONSTANT RowLen   \* the 20 of getFuncArrayType: rows of the method array

ASSUME RowAssumption == RowLen \in Nat \ {0}

VARIABLES
  n,      \* the node being compiled, 0 between declarations
  ret,    \* the LLVM type of the last value
  vars,   \* LLVMVariableMap::map: [home, slot, type, types] of each name
  code,   \* compiled functions |-> their instructions
  slots,  \* row |-> method: what main stores in the method array first
  heap,   \* blocks of memory: [type, types, cells, home, live]
  stack,  \* frames: [fn, pc, acc, env]
  out     \* what was printed

compile_vars == <<n, ret, vars, code, slots>>
run_vars     == <<heap, stack, out>>
object_vars  == <<layout_vars, compile_vars, run_vars>>

-----------------------------------------------------------------------------
(* A value is a number, the address of a block, a string, or not defined. *)
Number(x)  == <<"num", x>>
Ref(b)     == <<"ref", b>>
String     == <<"str", 0>>
Undef      == <<"undef", 0>>
Count      == <<"count", 0>>   \* what printf returns

(***************************************************************************)
(* Parsing.  A TYPE is [kind, klass, elem_kind, size]; the size is the     *)
(* operand of the definition of an array.                                  *)
(***************************************************************************)
This   == "this"
Callable(d) == d.op \in {"DEF_FUNC", "DEF_METHOD"}
NotConstant == -1   \* the index or size of an array, when computed

IsSequence(s) == s \in Seq({s[j] : j \in DOMAIN s})
IsType(type)  ==
  /\ type.kind \in Kinds
  /\ type.kind = "KLASS" => type = [kind |-> "KLASS", klass |-> type.klass,
                                   elem_kind |-> "ANY", size |-> 0]
  /\ type.kind = "ARRAY" => type.elem_kind \in Kinds /\ type.size \in Int
  /\ type.kind \notin {"KLASS", "ARRAY"} => type.elem_kind = "ANY"

(* Functions and methods as the actions of the grammar build them. *)
ASSUME ObjectAssumption ==
  \A d \in Declaration : Callable(d) =>
    /\ IsType(d.type)
    /\ IsSequence(d.def_args)
    /\ \A j \in 1 .. Len(d.def_args) : IsType(d.def_args[j].type)
    /\ IsSequence(d.body)
    /\ \A m \in 1 .. Len(d.body) :
         /\ d.body[m].op \in {"DEF_VAR", "NEW_CLASS"} => IsType(d.body[m].type)
         /\ d.body[m].op = "VALUEDATA" =>
              /\ d.body[m].type.kind \in {"INT", "BOOLTYPE", "DOUBLE", "STRING"}
              /\ d.body[m].type.kind = "STRING" => d.body[m].val = String

NodeInterns(node) ==
  CASE node.op \in {"DEF_VAR", "GET_MEMBER_VAR", "GET_ARRAY_VAR", "CALL_FUNC"} -> {node.sym}
    [] node.op = "CALL_METHOD" -> {node.reciever, node.sym}
    [] OTHER -> {}

DeclInterns(d) ==
  IF d.op = "DEF_CLASS"
  THEN {d.sym, d.super} \cup {d.def_vars[j].name : j \in 1 .. Len(d.def_vars)}
  ELSE {d.sym} \cup (IF d.op = "DEF_METHOD" THEN {d.klass} ELSE {})
         \cup {d.def_args[j].name : j \in 1 .. Len(d.def_args)}
         \cup (UNION {NodeInterns(d.body[j]) : j \in 1 .. Len(d.body)})

(* The names in the symbol table when node m of declaration i is reduced. *)
InternedFirst(p, i, m) ==
  (UNION {DeclInterns(p[j]) : j \in 1 .. i - 1})
    \cup {p[i].def_args[j].name : j \in 1 .. Len(p[i].def_args)}
    \cup (UNION {NodeInterns(p[i].body[j]) : j \in 1 .. m - 1})

InternedEarlier(p, i, m) ==                                       \* mutant
  UNION {DeclInterns(p[j]) : j \in 1 .. i - 1}
InternedBefore(p, i, m) == InternedFirst(p, i, m)

(* get_type_by_name asserts on a name that is neither built in nor interned. *)
UnknownType(type, names) ==
  "KLASS" \in {type.kind, type.elem_kind} /\ type.klass \notin names

TypeMissing(p) ==
  \E i \in 1 .. Len(p) :
    /\ Callable(p[i])
    /\ \/ UnknownType(p[i].type, InternedBefore(p, i, Len(p[i].body) + 1))
       \/ \E j \in 1 .. Len(p[i].def_args) :
            UnknownType(p[i].def_args[j].type,
                        (UNION {DeclInterns(p[h]) : h \in 1 .. i - 1})
                          \cup {p[i].def_args[h].name : h \in 1 .. j - 1})
       \/ \E m \in 1 .. Len(p[i].body) :
            /\ p[i].body[m].op \in {"DEF_VAR", "NEW_CLASS"}
            /\ UnknownType(p[i].body[m].type, InternedBefore(p, i, m))

yyparse ==
  /\ phase = "parse"
  /\ phase' = IF TypeMissing(program) THEN "assert" ELSE "codegen"
  /\ UNCHANGED <<program, pos, at, climb, klass_def_map, compile_vars, run_vars>>

-----------------------------------------------------------------------------
(* Code generation. *)
LLVMType(type) ==
  CASE type.kind \in {"INT", "BOOLTYPE"} -> "i32"
    [] type.kind = "DOUBLE" -> "double"
    [] OTHER -> "ptr"

FieldTypes(k) == [i \in 1 .. Len(Fields(k)) |-> LLVMType(Fields(k)[i])]
ElemTypes(type) == [i \in 1 .. type.size |-> LLVMType([kind |-> type.elem_kind])]
TypesOf(type) ==
  CASE type.kind = "KLASS" -> FieldTypes(type.klass)
    [] type.kind = "ARRAY" -> ElemTypes(type)
    [] OTHER -> <<>>

(* exec_def_method_codegen puts the receiver before the arguments, if any. *)
Params(d) ==
  IF d.op = "DEF_METHOD" /\ d.def_args # <<>>
  THEN <<[name |-> This, type |-> [kind |-> "KLASS", klass |-> d.klass,
                                   elem_kind |-> "ANY", size |-> 0]]>> \o d.def_args
  ELSE d.def_args

Here == program[pos]
Node == Here.body[n]
Stop(how) == Fail(how) /\ UNCHANGED <<program, compile_vars, run_vars>>

(***************************************************************************)
(* Why a variable cannot be made: its class has not been compiled, its     *)
(* elements have no LLVM type, its size is not a constant.                 *)
(***************************************************************************)
MakeTrouble(type) ==
  CASE type.kind = "KLASS" /\ type.klass \notin DOMAIN klass_def_map -> "assert"
    [] type.kind = "ARRAY" /\ type.size = NotConstant -> "assert"
    [] type.kind = "ARRAY" /\ type.elem_kind = "KLASS" -> "assert"
    [] OTHER -> "none"

(* The number Klass::Klass stores: the position among the classes so far. *)
IdOf(type) == IF type.kind = "KLASS" THEN getDefId(type.klass) ELSE 0

NewVariable(slot, type) ==
  [home |-> pos, slot |-> slot, type |-> type, types |-> TypesOf(type)]

(* exec_def_method_codegen asks KlassDefMap for its receiver, `this' or not. *)
NoReceiver(d) == d.op = "DEF_METHOD" /\ d.klass \notin DOMAIN klass_def_map

(***************************************************************************)
(* Parameters have the slots -1, -2; the map keeps the last one of a name. *)
(* The size of a parameter of array type is read uninitialised.            *)
(***************************************************************************)
begin_function ==
  /\ phase = "codegen" /\ at = 0 /\ n = 0
  /\ pos <= Len(program) /\ Callable(Here)
  /\ LET ps == Params(Here)
         troubles == {MakeTrouble(ps[i].type) : i \in 1 .. Len(ps)} \ {"none"}
         Named(v) == {i \in 1 .. Len(ps) : ps[i].name = v}
     IN  IF NoReceiver(Here) THEN Stop("assert")
         ELSE IF \E i \in 1 .. Len(ps) : ps[i].type.kind = "ARRAY" THEN Stop("undefined")
         ELSE IF troubles # {} THEN Stop("assert")
         ELSE /\ vars' = [v \in DOMAIN vars \cup {ps[i].name : i \in 1 .. Len(ps)} |->
                            IF Named(v) = {} THEN vars[v]
                            ELSE LET i == CHOOSE i \in Named(v) : \A j \in Named(v) : j <= i
                                 IN  NewVariable(-i, ps[i].type)]
              /\ n' = 1
              /\ ret' = "none"
              /\ code' = Put(code, pos, <<>>)
              /\ UNCHANGED <<slots, layout_vars, run_vars>>

Compiling(op) ==
  phase = "codegen" /\ at = 0 /\ n # 0 /\ n <= Len(Here.body) /\ Node.op = op

Emit(instruction, type) ==
  /\ code' = Put(code, pos, Append(code[pos], instruction))
  /\ ret' = type
  /\ n' = n + 1
  /\ UNCHANGED <<slots, layout_vars, run_vars>>

NullSymbol(name) == name \notin InternedBefore(program, pos, n)

(***************************************************************************)
(* Looking a variable up by a node's symbol dereferences NULL if the       *)
(* symbol is, or if the map has no such name.  The one found may be        *)
(* another function's, whose storage this function cannot use.             *)
(***************************************************************************)
VariableTrouble(name) ==
  IF name \notin DOMAIN vars THEN "crash"
  ELSE IF vars[name].home # pos THEN "malformed" ELSE "none"

(* The casts to LLVMStruct and LLVMArray are not checked, nor is index -1. *)
HasMember(type, member) ==
  type.kind = "KLASS" /\ getFieldDistance(Fields(type.klass), member) # -1

MemberTrouble(name, member) ==
  IF name \in DOMAIN vars /\ ~HasMember(vars[name].type, member) THEN "undefined"
  ELSE VariableTrouble(name)

ElementTrouble(name, index) ==
  IF name \in DOMAIN vars /\ vars[name].type.kind # "ARRAY" THEN "undefined"
  ELSE IF name \in DOMAIN vars /\ index = NotConstant THEN "assert"
  ELSE VariableTrouble(name)

OwnFieldsFirst(k, member) ==                                      \* mutant
  LET own == getFieldDistance(program[klass_def_map[k].decl].def_vars, member)
  IN  (IF own = -1 THEN getFieldDistance(Fields(k), member) ELSE own + 1) + 1
FieldIndex(k, member) == getFieldDistance(Fields(k), member) + 1

(* An instruction that reads or writes cell idx of the block slot points to. *)
Through(i, name, idx) ==
  [i |-> i, slot |-> vars[name].slot, idx |-> idx,
   types |-> vars[name].types]
MemberOf(i, name, member) ==
  Through(i, name, FieldIndex(vars[name].type.klass, member))
Cell(instruction) == instruction.types[instruction.idx]

(* A store of the wrong type is an instruction LLVM does not accept. *)
MayStore(type) == ret = type

exec_value ==
  /\ Compiling("VALUEDATA")
  /\ Emit([i |-> "const", val |-> Node.val], LLVMType(Node.type))
  /\ UNCHANGED vars

exec_def_var_codegen ==
  /\ Compiling("DEF_VAR")
  /\ LET how == MakeTrouble(Node.type) IN
     IF how # "none" THEN Stop(how)
     ELSE /\ vars' = Put(vars, Node.sym, NewVariable(n, Node.type))
          /\ Emit([i |-> "def", slot |-> n, type |-> Node.type,
                   types |-> TypesOf(Node.type), id |-> IdOf(Node.type)], "i32")

exec_new_class_codegen ==
  /\ Compiling("NEW_CLASS")
  /\ LET how == IF Node.type.kind # "KLASS" THEN "assert" ELSE MakeTrouble(Node.type) IN
     IF how # "none" THEN Stop(how)
     ELSE /\ Emit([i |-> "new", type |-> Node.type,
                   types |-> TypesOf(Node.type), id |-> IdOf(Node.type)], "ptr")
          /\ UNCHANGED vars

exec_get_var_codegen ==
  /\ Compiling("GET_VAR")
  /\ LET how == IF NullSymbol(Node.sym) THEN "crash" ELSE VariableTrouble(Node.sym) IN
     IF how # "none" THEN Stop(how)
     ELSE /\ Emit([i |-> "load", slot |-> vars[Node.sym].slot],
                  LLVMType(vars[Node.sym].type))
          /\ UNCHANGED vars

exec_set_var_codegen ==
  /\ Compiling("SET_VAR")
  /\ LET how == IF NullSymbol(Node.sym) THEN "crash" ELSE VariableTrouble(Node.sym) IN
     IF how # "none" THEN Stop(how)
     ELSE IF ~MayStore(LLVMType(vars[Node.sym].type)) THEN Stop("malformed")
     ELSE Emit([i |-> "store", slot |-> vars[Node.sym].slot], ret) /\ UNCHANGED vars

exec_get_member_var_codegen ==
  /\ Compiling("GET_MEMBER_VAR")
  /\ LET how == IF NullSymbol(Node.member) THEN "assert"
                ELSE MemberTrouble(Node.sym, Node.member)
     IN  IF how # "none" THEN Stop(how)
         ELSE LET get == MemberOf("get", Node.sym, Node.member)
              IN  Emit(get, Cell(get)) /\ UNCHANGED vars

exec_set_member_var_codegen ==
  /\ Compiling("SET_MEMBER_VAR")
  /\ LET how == IF NullSymbol(Node.sym) \/ NullSymbol(Node.member) THEN "crash"
                ELSE MemberTrouble(Node.sym, Node.member)
     IN  IF how # "none" THEN Stop(how)
         ELSE LET set == MemberOf("set", Node.sym, Node.member)
              IN  IF MayStore(Cell(set)) THEN Emit(set, ret) /\ UNCHANGED vars
                  ELSE Stop("malformed")

exec_get_array_var_codegen ==
  /\ Compiling("GET_ARRAY_VAR")
  /\ LET how == ElementTrouble(Node.sym, Node.index) IN
     IF how # "none" THEN Stop(how)
     ELSE /\ Emit(Through("get", Node.sym, Node.index + 1),
                  LLVMType([kind |-> vars[Node.sym].type.elem_kind]))
          /\ UNCHANGED vars

exec_set_array_var_codegen ==
  /\ Compiling("SET_ARRAY_VAR")
  /\ LET how == IF NullSymbol(Node.sym) THEN "crash"
                ELSE ElementTrouble(Node.sym, Node.index)
     IN  IF how # "none" THEN Stop(how)
         ELSE IF ~MayStore(LLVMType([kind |-> vars[Node.sym].type.elem_kind]))
         THEN Stop("malformed")
         ELSE Emit(Through("set", Node.sym, Node.index + 1), ret) /\ UNCHANGED vars

exec_print_codegen ==
  /\ Compiling("PRINTDATA")
  /\ Emit([i |-> "print", type |-> ret], "i32")
  /\ UNCHANGED vars

(* The declaration lookup_func finds; 0 is NULL. *)
lookup_func(name) ==
  LET found == {j \in 1 .. Len(program) : Callable(program[j]) /\ program[j].sym = name}
  IN  IF found = {} THEN 0 ELSE CHOOSE j \in found : TRUE

(* The argument, the value of the node before, against the declaration's. *)
ArgumentFits(callee, given) ==
  IF callee.def_args = <<>> THEN TRUE
  ELSE given /\ ret = LLVMType(callee.def_args[1].type)

exec_call_func_codegen ==
  /\ Compiling("CALL_FUNC")
  /\ LET f == lookup_func(Node.sym) IN
     IF f = 0 THEN Stop("crash")
     ELSE IF ~ArgumentFits(program[f], Node.set_args) THEN Stop("malformed")
     ELSE Emit([i |-> "call", to |-> f], LLVMType(program[f].type)) /\ UNCHANGED vars

(***************************************************************************)
(* The method array has a row for each class, of which only the column     *)
(* getMethodId = 0 is used.  The row is getDefId, the place of the class   *)
(* among those compiled so far, and may be another one later.              *)
(***************************************************************************)
OffTheArray(k) == getDefId(k) >= RowLen

exec_call_method_codegen ==
  /\ Compiling("CALL_METHOD")
  /\ LET f   == lookup_func(Node.sym)
         how == IF f = 0 THEN "crash" ELSE VariableTrouble(Node.reciever)
     IN  IF how # "none" THEN Stop(how)
         ELSE IF vars[Node.reciever].type.kind # "KLASS" THEN Stop("undefined")
         ELSE IF ~ArgumentFits(program[f], TRUE) THEN Stop("malformed")
         ELSE IF OffTheArray(vars[Node.reciever].type.klass) THEN Stop("undefined")
         ELSE /\ Emit([i |-> "send", slot |-> vars[Node.reciever].slot,
                       row |-> getDefId(vars[Node.reciever].type.klass), as |-> f],
                      LLVMType(program[f].type))
              /\ UNCHANGED vars

(***************************************************************************)
(* method_map of a KlassDef has one key, so it keeps the last method that  *)
(* addMethod got since makeKlassDef made it.  setFuncPtrArry stores what   *)
(* the classes have when main is compiled, in the rows they have then.     *)
(***************************************************************************)
MethodsSince(k) ==
  {j \in DOMAIN code : /\ program[j].op = "DEF_METHOD" /\ program[j].klass = k
                       /\ klass_def_map[k].decl < j}
WithMethod == {k \in DOMAIN klass_def_map : MethodsSince(k) # {}}
method_map(k) == CHOOSE j \in MethodsSince(k) : \A i \in MethodsSince(k) : i <= j

RowsOfMethods ==                                                  \* mutant
  LET Row(k) == Cardinality({l \in WithMethod : KlassRank[l] < KlassRank[k]})
  IN  [row \in {Row(k) : k \in WithMethod} |->
         method_map(CHOOSE k \in WithMethod : Row(k) = row)]
setFuncPtrArry ==
  [row \in {getDefId(k) : k \in WithMethod} |->
     method_map(CHOOSE k \in WithMethod : getDefId(k) = row)]

Main == "main"

(* makeReturn; the names of the function's variables stay in the map. *)
makeReturn ==
  /\ phase = "codegen" /\ at = 0 /\ n # 0
  /\ n > Len(Here.body)
  /\ LET main == Here.op = "DEF_FUNC" /\ Here.sym = Main IN
     IF ~MayStore(LLVMType(Here.type)) THEN Stop("malformed")
     ELSE IF main /\ \E k \in WithMethod : OffTheArray(k) THEN Stop("undefined")
     ELSE /\ n' = 0
          /\ pos' = NextDeclaration
          /\ slots' = IF main THEN setFuncPtrArry ELSE slots
          /\ UNCHANGED <<program, phase, at, climb, klass_def_map, ret, vars, code,
                         run_vars>>

-----------------------------------------------------------------------------
(* The running program. *)
top     == stack[Len(stack)]
Running == phase = "running"
Instr   == code[top.fn][top.pc]

Frame(f, env) == [fn |-> f, pc |-> 1, acc |-> Undef, env |-> env]

WriteBitcodeToFile ==
  /\ phase = "codegen" /\ at = 0 /\ n = 0
  /\ pos > Len(program)
  /\ IF lookup_func(Main) = 0 THEN phase' = "unresolved" /\ UNCHANGED stack
     ELSE /\ phase' = "running"
          /\ stack' = <<Frame(lookup_func(Main), EmptyMap)>>
  /\ UNCHANGED <<program, pos, at, climb, klass_def_map, compile_vars, heap, out>>

At(i) == Running /\ top.pc <= Len(code[top.fn]) /\ Instr.i = i

Replaced(frame) == [stack EXCEPT ![Len(stack)] = frame]
Step(acc, env)  == Replaced([top EXCEPT !.pc = @ + 1, !.acc = acc, !.env = env])
Wrong(how) ==
  /\ phase' = how
  /\ UNCHANGED <<program, pos, at, climb, klass_def_map, compile_vars, run_vars>>
Still == UNCHANGED <<layout_vars, compile_vars>>

(* Memory comes from malloc or alloca; only the class's id is written. *)
WithoutTheId(home) ==                                             \* mutant
  [type |-> Instr.type, types |-> Instr.types,
   cells |-> [i \in 1 .. Len(Instr.types) - 1 |-> Undef], home |-> home, live |-> TRUE]
Fresh(home) ==
  [type |-> Instr.type, types |-> Instr.types,
   cells |-> [i \in 1 .. Len(Instr.types) |-> Undef], home |-> home, live |-> TRUE]
OnTheStack == [Fresh(Len(stack)) EXCEPT !.cells[1] = Number(Instr.id)]        \* mutant
IdAtTheEnd == [Fresh(0) EXCEPT !.cells[Len(Instr.types)] = Number(Instr.id)]  \* mutant
Object     == [Fresh(0) EXCEPT !.cells[1] = Number(Instr.id)]

run_def ==
  /\ At("def")
  /\ LET kind  == Instr.type.kind
         block == IF kind = "KLASS" THEN Object ELSE Fresh(Len(stack))
     IN  IF kind \in {"KLASS", "ARRAY"}
         THEN /\ heap' = Append(heap, block)
              /\ stack' = Step(Number(-1), Put(top.env, Instr.slot, Ref(Len(heap) + 1)))
         ELSE /\ stack' = Step(Number(-1), Put(top.env, Instr.slot, Undef))
              /\ UNCHANGED heap
  /\ UNCHANGED out /\ Still

run_new ==
  /\ At("new")
  /\ heap' = Append(heap, Object)
  /\ stack' = Step(Ref(Len(heap) + 1), top.env)
  /\ UNCHANGED out /\ Still

run_simple ==
  /\ Running /\ top.pc <= Len(code[top.fn]) /\ Instr.i \in {"const", "load", "store"}
  /\ stack' = CASE Instr.i = "const" -> Step(Instr.val, top.env)
                [] Instr.i = "load"  -> Step(top.env[Instr.slot], top.env)
                [] OTHER             -> Step(top.acc, Put(top.env, Instr.slot, top.acc))
  /\ UNCHANGED <<heap, out>> /\ Still

(***************************************************************************)
(* An access through a pointer is defined if the block still exists and    *)
(* has what the type of the variable promises, up to the cell accessed.    *)
(***************************************************************************)
Reaches(v, instruction) ==
  /\ v[1] = "ref"
  /\ heap[v[2]].live
  /\ instruction.idx <= Len(heap[v[2]].types)
  /\ instruction.idx <= Len(instruction.types)
  /\ \A i \in 1 .. instruction.idx : heap[v[2]].types[i] = instruction.types[i]

Pointer == top.env[Instr.slot]

run_get ==
  /\ At("get")
  /\ IF ~Reaches(Pointer, Instr) THEN Wrong("undefined")
     ELSE /\ stack' = Step(heap[Pointer[2]].cells[Instr.idx], top.env)
          /\ UNCHANGED <<heap, out>> /\ Still

run_set ==
  /\ At("set")
  /\ IF ~Reaches(Pointer, Instr) THEN Wrong("undefined")
     ELSE /\ heap' = [heap EXCEPT ![Pointer[2]].cells[Instr.idx] = top.acc]
          /\ stack' = Step(top.acc, top.env)
          /\ UNCHANGED out /\ Still

(* printf with %s reads what a pointer points to. *)
run_print ==
  /\ At("print")
  /\ IF Instr.type = "ptr" /\ top.acc # String THEN Wrong("undefined")
     ELSE /\ out' = Append(out, top.acc)
          /\ stack' = Step(Count, top.env)
          /\ UNCHANGED heap /\ Still

Call(f, args) ==
  stack' = Append(Step(top.acc, top.env), Frame(f, [i \in {-j : j \in 1 .. Len(args)} |-> args[-i]]))

run_call ==
  /\ At("call")
  /\ Call(Instr.to, IF program[Instr.to].def_args = <<>> THEN <<>> ELSE <<top.acc>>)
  /\ UNCHANGED <<heap, out>> /\ Still

(***************************************************************************)
(* A call through the method array, as if the method were the one named.   *)
(* An empty slot is a call of address 0.                                   *)
(***************************************************************************)
Target == IF Instr.row \in DOMAIN slots THEN slots[Instr.row] ELSE 0

SameParameters(f, g) ==
  /\ Len(Params(f)) = Len(Params(g))
  /\ \A i \in 1 .. Len(Params(f)) :
       LLVMType(Params(f)[i].type) = LLVMType(Params(g)[i].type)
  /\ LLVMType(f.type) = LLVMType(g.type)

run_send ==
  /\ At("send")
  /\ IF Target = 0 THEN Wrong("crash")
     ELSE IF ~SameParameters(program[Target], program[Instr.as]) THEN Wrong("undefined")
     ELSE /\ Call(Target, IF program[Target].def_args = <<>> THEN <<>>
                          ELSE <<Pointer, top.acc>>)
          /\ UNCHANGED <<heap, out>> /\ Still

(* The arrays of a function go with its frame. *)
Released(block) == IF block.home = Len(stack) THEN [block EXCEPT !.live = FALSE] ELSE block

run_return ==
  /\ Running /\ top.pc > Len(code[top.fn])
  /\ heap' = [b \in 1 .. Len(heap) |-> Released(heap[b])]
  /\ IF Len(stack) = 1 THEN phase' = "exited" /\ UNCHANGED stack
     ELSE /\ stack' = [SubSeq(stack, 1, Len(stack) - 1)
                         EXCEPT ![Len(stack) - 1].acc = top.acc]
          /\ UNCHANGED phase
  /\ UNCHANGED <<program, pos, at, climb, klass_def_map, compile_vars, out>>

-----------------------------------------------------------------------------
ObjectInit ==
  /\ NothingCompiled
  /\ phase = "parse"
  /\ n = 0 /\ ret = "none" /\ vars = EmptyMap /\ code = EmptyMap
  /\ slots = EmptyMap
  /\ heap = <<>> /\ stack = <<>> /\ out = <<>>

CompileClass == n = 0 /\ ClassCodegen /\ UNCHANGED <<compile_vars, run_vars>>

CompileFunction ==
  \/ begin_function \/ exec_value \/ exec_def_var_codegen \/ exec_new_class_codegen
  \/ exec_get_var_codegen \/ exec_set_var_codegen
  \/ exec_get_member_var_codegen \/ exec_set_member_var_codegen
  \/ exec_get_array_var_codegen \/ exec_set_array_var_codegen
  \/ exec_print_codegen \/ exec_call_func_codegen \/ exec_call_method_codegen
  \/ makeReturn

Run ==
  \/ run_def \/ run_new \/ run_simple \/ run_get \/ run_set \/ run_print
  \/ run_call \/ run_send \/ run_return

ObjectNext == yyparse \/ CompileClass \/ CompileFunction \/ WriteBitcodeToFile \/ Run

ObjectSpec == ObjectInit /\ [][ObjectNext]_object_vars
FairObjectSpec == ObjectSpec /\ WF_object_vars(ObjectNext)
=============================================================================

------------------------------ MODULE Compiler ------------------------------
(***************************************************************************)
(* One run of `mugichac': the parser's semantic actions fill the symbol    *)
(* and function tables (src/ast.c), the code generator walks the top-level *)
(* declarations and emits LLVM functions (src/mugicha_compiler.cpp,        *)
(* src/llvm_builder.cpp), and lli loads and runs the bitcode.              *)
(*                                                                         *)
(* What is kept is which piece of code every call reaches: names, function *)
(* bodies, classes, method slots and the variables calls go through.       *)
(* Values, fields and control flow inside a body are left out.             *)
(***************************************************************************)
EXTENDS Symbols, Funcs, MugiProgram

CONSTANTS
  Programs,      \* the programs under consideration
  Var,           \* the variable names of the programs, This included
  RowLen,        \* the 20 of getMethodArrayIndex and getFuncArrayType
  MaxDepth       \* bound of the model: calls nested deeper are not explored

VarNodes == [op : {"DEF_VAR"}, sym : Var, klass : Klass \cup {Prim}]
Statements ==
  VarNodes \cup [op : {"CALL_FUNC"}, sym : Name, arg : Var \cup {None}]
           \cup [op : {"CALL_METHOD"}, reciever : Var, sym : Name \cup {None}]
Declarations ==
  [op : {"DEF_CLASS"}, sym : Klass, super : Klass \cup {None}]
  \cup [op : {"DEF_FUNC"}, sym : Name, args : Seq(VarNodes), body : Seq(Statements)]
  \cup [op : {"DEF_METHOD"}, reciever : Klass, sym : Name, args : Seq(VarNodes),
         body : Seq(Statements)]

ASSUME ProgramsAssumption ==
  /\ Programs \subseteq Seq(Declarations) \ {<<>>}
  /\ Klass \cup Var \subseteq Name
  /\ This \in Var
  /\ {None, Prim} \cap Name = {}

ASSUME RowAssumption == RowLen \in Nat \ {0} /\ MaxDepth \in Nat \ {0}

VARIABLES
  program,       \* the source text
  phase,         \* see Phase
  pos,           \* the top-level declaration being handled
  work,          \* its AST nodes still to be handled
  syms,          \* syms[] of symbol.c
  funcs,         \* funcs[] of func.c
  null_args,     \* GET_VAR nodes whose symbol is NULL
  klasses,       \* the keys of KlassDefMap::map
  method_map,    \* KlassDef::method_map of each class, which has one key
  vars,          \* LLVMVariableMap::map: one for the whole compilation
  llvm,          \* the functions of the module under construction
  cur,           \* the function the IRBuilder inserts into, 0 outside any
  stack,         \* lli: the frames of the running program
  table          \* lli: the contents of the function pointer array

front  == <<syms, funcs, null_args>>
back   == <<klasses, method_map, vars, llvm, cur>>
lli    == <<stack, table>>
all    == <<program, phase, pos, work, front, back, lli>>

Phase == {"parse", "codegen", "written", "running", "exited",
          "assert",       \* ASSERT_FAIL, ASSERT_FAIL_BLOCK: exit(1)
          "crash",        \* NULL dereferenced, stack exhausted
          "undefined",    \* a malformed module, or a store outside the array
          "unresolved"}   \* lli reports a symbol without a definition

Slots == 0 .. RowLen * RowLen - 1

NoVar == [klass |-> None, owner |-> 0]

Init ==
  /\ program \in Programs
  /\ phase = "parse"
  /\ pos = 1
  /\ work = Nodes(program[1])
  /\ syms = <<>>
  /\ funcs = <<>>
  /\ null_args = {}
  /\ klasses = {}
  /\ method_map = [k \in Klass |-> 0]
  /\ vars = [v \in Var |-> NoVar]
  /\ llvm = <<>>
  /\ cur = 0
  /\ stack = <<>>
  /\ table = [s \in Slots |-> 0]

Stop(how) == phase' = how

-----------------------------------------------------------------------------
(***************************************************************************)
(* Parsing.  Each action is one grammar action: it takes the next node of  *)
(* the bottom-up reduction order, interns the node's names and registers   *)
(* callables.  interned is the table after two lookup_make_symbol calls.   *)
(***************************************************************************)
InternFirstOnly(a, b) == lookup_make_symbol(syms, a)              \* mutant
interned(a, b) == lookup_make_symbol(lookup_make_symbol(syms, a), b)

TooLongEarly(t) == Len(t) >= SYMBOL_MAX                           \* mutant
TooLong(t) == Len(t) > SYMBOL_MAX

(* get_type_by_name: any name seen before passes for the name of a class. *)
get_type_by_name(name) == name = Prim \/ lookup_symbol(syms, name) # NULL

NextNode ==
  IF Len(work) > 1
  THEN work' = Tail(work) /\ UNCHANGED <<phase, pos>>
  ELSE IF pos < Len(program)
       THEN /\ pos' = pos + 1
            /\ work' = Nodes(program[pos + 1])
            /\ UNCHANGED phase
       ELSE /\ pos' = 1                    \* prog : stmt -> mugicha_compile
            /\ work' = <<>>
            /\ phase' = "codegen"

(* Intern names a, b; on success register what the node declares. *)
Reduce(a, b, registers) ==
  LET new == interned(a, b) IN
  IF TooLong(new) \/ (registers /\ FuncsFull(funcs))
  THEN Stop("assert") /\ UNCHANGED <<pos, work, syms, funcs>>
  ELSE /\ syms' = new
       /\ funcs' = IF registers THEN make_func(funcs, b, pos) ELSE funcs
       /\ NextNode

make_ast_def_var(n) ==
  /\ n.op = "DEF_VAR"
  /\ IF get_type_by_name(n.klass)
     THEN Reduce(IF n.klass = Prim THEN n.sym ELSE n.klass, n.sym, FALSE)
     ELSE Stop("assert") /\ UNCHANGED <<pos, work, syms, funcs>>
  /\ UNCHANGED null_args

(* make_ast_get_var, for the argument, only looks the name up. *)
make_ast_call_func(n) ==
  /\ n.op = "CALL_FUNC"
  /\ null_args' = IF n.arg # None /\ lookup_symbol(syms, n.arg) = NULL
                  THEN null_args \cup {<<pos, Len(work) - 1>>}
                  ELSE null_args
  /\ Reduce(n.sym, n.sym, FALSE)

(***************************************************************************)
(* The grammar passes NULL as the name of a method called without          *)
(* arguments, and the symbol table compares its entries with that.         *)
(***************************************************************************)
make_ast_call_method(n) ==
  /\ n.op = "CALL_METHOD"
  /\ IF n.sym # None THEN Reduce(n.reciever, n.sym, FALSE)
     ELSE /\ Stop(IF TooLong(lookup_make_symbol(syms, n.reciever)) THEN "assert" ELSE "crash")
          /\ UNCHANGED <<pos, work, syms, funcs>>
  /\ UNCHANGED null_args

make_ast_def_class(n) ==
  /\ n.op = "DEF_CLASS"
  /\ Reduce(n.sym, IF n.super = None THEN n.sym ELSE n.super, FALSE)
  /\ UNCHANGED null_args

make_ast_def_func(n) ==
  /\ n.op = "DEF_FUNC"
  /\ Reduce(n.sym, n.sym, TRUE)
  /\ UNCHANGED null_args

make_ast_def_method(n) ==
  /\ n.op = "DEF_METHOD"
  /\ Reduce(n.reciever, n.sym, TRUE)
  /\ UNCHANGED null_args

Parse ==
  /\ phase = "parse"
  /\ LET n == Head(work) IN
       \/ make_ast_def_var(n)
       \/ make_ast_call_func(n)
       \/ make_ast_call_method(n)
       \/ make_ast_def_class(n)
       \/ make_ast_def_func(n)
       \/ make_ast_def_method(n)
  /\ UNCHANGED <<program, back, lli>>

-----------------------------------------------------------------------------
(***************************************************************************)
(* Classes in the code generator.                                          *)
(***************************************************************************)

(* KlassDefMap::getDefId: the distance from begin() in the sorted map. *)
getDefId(k) == Cardinality({j \in klasses : KlassRank[j] < KlassRank[k]})

(* KlassDef::getMethodId: method_map's only key is the class's own name. *)
getMethodId(k) == 0

NoRow(k)   == getMethodId(k)                                      \* mutant
getMethodArrayIndex(k) == getDefId(k) * RowLen + getMethodId(k)

(***************************************************************************)
(* getFieldDef climbs from a class to the first AST node declared with its *)
(* superclass's name, and on from there: Climb(i) is every declaration it  *)
(* visits, i included.                                                     *)
(***************************************************************************)
SuperDecls(i) ==
  IF program[i].super = None THEN {} ELSE ClassDecls(program, program[i].super)

Climb(i) ==
  LET class == DeclsOf(program, "DEF_CLASS")
      Closed(S) == \A j \in S : SuperDecls(j) # {} => Least(SuperDecls(j)) \in S
  IN  {j \in class : \A S \in SUBSET class : (i \in S /\ Closed(S)) => j \in S}

(* The climb ends at a class without a superclass, or never.              *)
SuperMissing(i) == \E j \in Climb(i) : program[j].super # None /\ SuperDecls(j) = {}
SuperCyclic(i)  == \A j \in Climb(i) : SuperDecls(j) # {}

(* A second definition of a class replaces the KlassDef and its methods. *)
exec_def_class_codegen ==
  /\ phase = "codegen"
  /\ cur = 0
  /\ pos <= Len(program)
  /\ program[pos].op = "DEF_CLASS"
  /\ \/ /\ SuperMissing(pos)
        /\ Stop("assert")
        /\ UNCHANGED <<pos, back>>
     \/ /\ SuperCyclic(pos)
        /\ Stop("crash")
        /\ UNCHANGED <<pos, back>>
     \/ /\ ~SuperMissing(pos) /\ ~SuperCyclic(pos)
        /\ klasses' = klasses \cup {program[pos].sym}
        /\ method_map' = [method_map EXCEPT ![program[pos].sym] = 0]
        /\ pos' = pos + 1
        /\ UNCHANGED <<phase, vars, llvm, cur>>
  /\ UNCHANGED <<program, work, front, lli>>

-----------------------------------------------------------------------------
(***************************************************************************)
(* Functions in the code generator.  An entry of llvm is a function of the *)
(* module: sym is the name it was created for, named tells whether it got  *)
(* that name or LLVM renamed it, own is the declaration being compiled     *)
(* when it was created (0 for a mere declaration, a stub), decl the one    *)
(* whose arguments and body it was given.                                  *)
(***************************************************************************)
Named(n) == {i \in 1 .. Len(llvm) : llvm[i].sym = n /\ llvm[i].named}

(* Function::Create in LLVMFuncBuilder's constructor. *)
NewFunction(n, decl) ==
  [sym |-> n, named |-> Named(n) = {}, own |-> pos, decl |-> decl,
   code |-> <<>>, stores |-> {}]

(* Module::getOrInsertFunction: an existing function, or a new stub. *)
getOrInsertFunction(n) ==
  IF Named(n) # {} THEN llvm
  ELSE Append(llvm, [sym |-> n, named |-> TRUE, own |-> 0, decl |-> 0,
                     code |-> <<>>, stores |-> {}])

NewestFunction(module, n) == Len(module)                          \* mutant
FunctionNamed(module, n) ==
  CHOOSE i \in 1 .. Len(module) : module[i].sym = n /\ module[i].named

LastRegistered(n) ==
  LET i == lookup_func(funcs, n) IN IF i = 0 THEN 0 ELSE funcs[i].decl

(***************************************************************************)
(* LLVMLocalVariableMap: map[name] = new variable, whatever was there; and *)
(* the same for each argument of a function, the last of a name staying.   *)
(***************************************************************************)
KeepVariable(map, v, klass, fn) ==                                \* mutant
  IF map[v].owner # 0 THEN map ELSE [map EXCEPT ![v] = [klass |-> klass, owner |-> fn]]
makeMugichaVariable(map, v, klass, fn) ==
  [map EXCEPT ![v] = [klass |-> klass, owner |-> fn]]

WithArgs(map, args, fn) ==
  [v \in Var |->
     IF Formal(args, v) = {} THEN map[v]
     ELSE makeMugichaVariable(map, v, args[Greatest(Formal(args, v))].klass, fn)[v]]

(* KlassDefMap::get asserts that the class has been compiled. *)
Compiled(k) == k = Prim \/ k \in klasses
ArgsCompiled(args) == \A i \in 1 .. Len(args) : Compiled(args[i].klass)

(* The common part of exec_def_func_codegen and exec_def_method_codegen. *)
BeginFunction(d, decl, map) ==
  LET fn == Len(llvm) + 1 IN
  /\ llvm' = Append(llvm, NewFunction(d.sym, decl))
  /\ cur' = fn
  /\ vars' = WithArgs(map, program[decl].args, fn)
  /\ work' = program[decl].body
  /\ UNCHANGED <<phase, pos, klasses>>

exec_def_func_codegen ==
  /\ phase = "codegen"
  /\ cur = 0
  /\ pos <= Len(program)
  /\ program[pos].op = "DEF_FUNC"
  /\ LET d    == program[pos]
         decl == LastRegistered(d.sym)
     IN  \/ /\ ~ArgsCompiled(program[decl].args)
            /\ Stop("assert")
            /\ UNCHANGED <<pos, work, back>>
         \/ /\ ArgsCompiled(program[decl].args)
            /\ BeginFunction(d, decl, vars)
            /\ UNCHANGED method_map
  /\ UNCHANGED <<program, front, lli>>

(* Only a method with arguments gets a variable `this'. *)
AlwaysThis(d, decl, fn) == makeMugichaVariable(vars, This, d.reciever, fn) \* mutant
WithThis(d, decl, fn) ==
  IF program[decl].args = <<>> THEN vars
  ELSE makeMugichaVariable(vars, This, d.reciever, fn)

(* KlassDef::addMethod: the key is the class, so the newest method stays. *)
KeepMethod(k, fn) ==                                              \* mutant
  IF method_map[k] # 0 THEN method_map ELSE [method_map EXCEPT ![k] = fn]
addMethod(k, fn) == [method_map EXCEPT ![k] = fn]

exec_def_method_codegen ==
  /\ phase = "codegen"
  /\ cur = 0
  /\ pos <= Len(program)
  /\ program[pos].op = "DEF_METHOD"
  /\ LET d    == program[pos]
         decl == LastRegistered(d.sym)
         fn   == Len(llvm) + 1
     IN  \/ /\ d.reciever \notin klasses \/ ~ArgsCompiled(program[decl].args)
            /\ Stop("assert")
            /\ UNCHANGED <<pos, work, back>>
         \/ /\ d.reciever \in klasses
            /\ ArgsCompiled(program[decl].args)
            /\ BeginFunction(d, decl, WithThis(d, decl, fn))
            /\ method_map' = addMethod(d.reciever, fn)
  /\ UNCHANGED <<program, front, lli>>

-----------------------------------------------------------------------------
(***************************************************************************)
(* Statements of the body being compiled.                                  *)
(***************************************************************************)
Emit(module, instr) == [module EXCEPT ![cur].code = Append(@, instr)]

Compiling(op) ==
  /\ phase = "codegen"
  /\ cur # 0
  /\ work # <<>>
  /\ Head(work).op = op

exec_def_var_codegen ==
  /\ Compiling("DEF_VAR")
  /\ LET n == Head(work) IN
       \/ /\ ~Compiled(n.klass)
          /\ Stop("assert")
          /\ UNCHANGED <<work, vars, llvm>>
       \/ /\ Compiled(n.klass)
          /\ vars' = makeMugichaVariable(vars, n.sym, n.klass, cur)
          /\ llvm' = Emit(llvm, [op |-> "alloc", var |-> n.sym, klass |-> n.klass])
          /\ work' = Tail(work)
          /\ UNCHANGED phase
  /\ UNCHANGED <<program, pos, klasses, method_map, cur, front, lli>>

(* The variable map knows the name, whichever function it belongs to. *)
Unknown(v) == vars[v].owner = 0
Foreign(v) == vars[v].owner \notin {0, cur}

NullArg == <<llvm[cur].decl, Len(work)>> \in null_args

exec_call_func_codegen ==
  /\ Compiling("CALL_FUNC")
  /\ LET n      == Head(work)
         module == getOrInsertFunction(n.sym)
         crash  == \/ LastRegistered(n.sym) = 0
                   \/ n.arg # None /\ (NullArg \/ Unknown(n.arg))
         bad    == n.arg # None /\ Foreign(n.arg)
     IN  \/ /\ crash
            /\ Stop("crash")
            /\ UNCHANGED <<work, llvm>>
         \/ /\ ~crash /\ bad
            /\ Stop("undefined")
            /\ UNCHANGED <<work, llvm>>
         \/ /\ ~crash /\ ~bad
            /\ llvm' = Emit(module, [op  |-> "call", sym |-> n.sym, arg |-> n.arg,
                                     fn  |-> FunctionNamed(module, n.sym)])
            /\ work' = Tail(work)
            /\ UNCHANGED phase
  /\ UNCHANGED <<program, pos, klasses, method_map, vars, cur, front, lli>>

(* exec_call_method wants a type from getOrInsertFunction, but stubs too. *)
TypeOnly(n)   == llvm                                             \* mutant
MethodStub(n) == getOrInsertFunction(n)

(***************************************************************************)
(* The method is chosen by the class of the variable and by the position   *)
(* that class has in the map now.                                          *)
(***************************************************************************)
exec_call_method_codegen ==
  /\ Compiling("CALL_METHOD")
  /\ LET n     == Head(work)
         k     == vars[n.reciever].klass
         crash == LastRegistered(n.sym) = 0 \/ Unknown(n.reciever) \/ k = Prim
         bad   == Foreign(n.reciever) \/ getMethodArrayIndex(k) \notin Slots
     IN  \/ /\ crash
            /\ Stop("crash")
            /\ UNCHANGED <<work, llvm>>
         \/ /\ ~crash /\ bad
            /\ Stop("undefined")
            /\ UNCHANGED <<work, llvm>>
         \/ /\ ~crash /\ ~bad
            /\ llvm' = Emit(MethodStub(n.sym),
                            [op |-> "slot", sym |-> n.sym, reciever |-> n.reciever,
                             klass |-> k, slot |-> getMethodArrayIndex(k)])
            /\ work' = Tail(work)
            /\ UNCHANGED phase
  /\ UNCHANGED <<program, pos, klasses, method_map, vars, cur, front, lli>>

(* setFuncPtrArry: one store for each method there is by now. *)
StoreAllButFirst ==                                               \* mutant
  {<<getMethodArrayIndex(k), method_map[k]>> :
     k \in {j \in klasses : method_map[j] # 0 /\ getDefId(j) # 0}}
setFuncPtrArry ==
  {<<getMethodArrayIndex(k), method_map[k]>> : k \in {j \in klasses : method_map[j] # 0}}

(***************************************************************************)
(* makeReturn, and after `main' the stores at the head of its entry block. *)
(***************************************************************************)
finish_function ==
  /\ phase = "codegen"
  /\ cur # 0
  /\ work = <<>>
  /\ LET main == program[pos].op = "DEF_FUNC" /\ program[pos].sym = Main
         bad  == main /\ \E s \in setFuncPtrArry : s[1] \notin Slots
     IN  \/ /\ bad
            /\ Stop("undefined")
            /\ UNCHANGED <<pos, llvm, cur>>
         \/ /\ ~bad
            /\ llvm' = IF main THEN [llvm EXCEPT ![cur].stores = setFuncPtrArry]
                       ELSE llvm
            /\ cur' = 0
            /\ pos' = pos + 1
            /\ UNCHANGED phase
  /\ UNCHANGED <<program, work, klasses, method_map, vars, front, lli>>

(* do_compile: every declaration has been visited. *)
OneMoreVisit == pos > Len(program) + 1                            \* mutant
AllVisited   == pos > Len(program)

WriteBitcodeToFile ==
  /\ phase = "codegen"
  /\ cur = 0
  /\ AllVisited
  /\ phase' = "written"
  /\ UNCHANGED <<program, pos, work, front, back, lli>>

Codegen ==
  \/ exec_def_class_codegen
  \/ exec_def_func_codegen
  \/ exec_def_method_codegen
  \/ exec_def_var_codegen
  \/ exec_call_func_codegen
  \/ exec_call_method_codegen
  \/ finish_function
  \/ WriteBitcodeToFile

-----------------------------------------------------------------------------
(***************************************************************************)
(* lli.  A call whose target is a stub refers to a symbol nobody defines,  *)
(* and so does a module without a function named main.  Otherwise main     *)
(* starts.  A frame is [fn, env, pc]: env gives for each variable the      *)
(* class of the object it holds.                                           *)
(***************************************************************************)
Code(f) == llvm[f].code

Stubs == {i \in 1 .. Len(llvm) : llvm[i].own = 0}

CallsStub ==
  \E f \in 1 .. Len(llvm) : \E i \in 1 .. Len(Code(f)) :
    Code(f)[i].op = "call" /\ Code(f)[i].fn \in Stubs

Mains == Named(Main) \ Stubs

(* The parameters of function f, in order; methods take the receiver first. *)
Formals(f) ==
  LET args == program[llvm[f].decl].args
      names == [i \in 1 .. Len(args) |-> args[i].sym]
  IN  IF program[llvm[f].own].op = "DEF_METHOD" /\ args # <<>>
      THEN <<This>> \o names ELSE names

(* A formal without an actual holds whatever the register held: None. *)
Frame(f, actuals) ==
  [fn  |-> f, pc |-> 1,
   env |-> [v \in Var |->
              LET at == {i \in 1 .. Len(Formals(f)) : Formals(f)[i] = v} IN
              IF at = {} \/ Greatest(at) > Len(actuals) THEN None
              ELSE actuals[Greatest(at)]]]

(* On entry main's stores go to the array. *)
AfterStores(f) ==
  [s \in Slots |->
     LET here == {st \in llvm[f].stores : st[1] = s} IN
     IF here = {} THEN table[s] ELSE (CHOOSE st \in here : TRUE)[2]]

Load ==
  /\ phase = "written"
  /\ \/ /\ CallsStub \/ Mains = {}
        /\ phase' = "unresolved"
        /\ UNCHANGED lli
     \/ /\ ~CallsStub
        /\ \E m \in Mains :
             /\ stack' = <<Frame(m, <<>>)>>
             /\ table' = AfterStores(m)
        /\ phase' = "running"
  /\ UNCHANGED <<program, pos, work, front, back>>

top == stack[Len(stack)]

Advanced == [stack EXCEPT ![Len(stack)].pc = @ + 1]

Executing(op) ==
  /\ phase = "running"
  /\ top.pc <= Len(Code(top.fn))
  /\ Code(top.fn)[top.pc].op = op

Enter(f, actuals) ==
  /\ Len(stack) < MaxDepth
  /\ stack' = Append(Advanced, Frame(f, actuals))
  /\ table' = AfterStores(f)
  /\ UNCHANGED phase

RunAlloc ==
  /\ Executing("alloc")
  /\ LET i == Code(top.fn)[top.pc] IN
     stack' = [Advanced EXCEPT ![Len(stack)].env[i.var] = i.klass]
  /\ UNCHANGED <<phase, table>>

RunCall ==
  /\ Executing("call")
  /\ LET i == Code(top.fn)[top.pc] IN
     Enter(i.fn, IF i.arg = None THEN <<>> ELSE <<top.env[i.arg]>>)

(* The call through the array: an empty slot is a call of address 0. *)
RunSlot ==
  /\ Executing("slot")
  /\ LET i == Code(top.fn)[top.pc] IN
       \/ /\ table[i.slot] = 0
          /\ Stop("crash")
          /\ UNCHANGED lli
       \/ /\ table[i.slot] # 0
          /\ Enter(table[i.slot], <<top.env[i.reciever], None>>)

RunReturn ==
  /\ phase = "running"
  /\ top.pc > Len(Code(top.fn))
  /\ IF Len(stack) = 1 THEN Stop("exited") /\ UNCHANGED stack
     ELSE stack' = SubSeq(stack, 1, Len(stack) - 1) /\ UNCHANGED phase
  /\ UNCHANGED table

Run ==
  /\ RunAlloc \/ RunCall \/ RunSlot \/ RunReturn
  /\ UNCHANGED <<program, pos, work, front, back>>

Next == Parse \/ Codegen \/ Load \/ Run

Spec == Init /\ [][Next]_all

(* The processes are sequential and run until they stop. *)
FairSpec == Spec /\ WF_all(Next)

-----------------------------------------------------------------------------
Instrs ==
  [op : {"alloc"}, var : Var, klass : Klass \cup {Prim}]
  \cup [op : {"call"}, sym : Name, arg : Var \cup {None}, fn : Nat \ {0}]
  \cup [op : {"slot"}, sym : Name, reciever : Var, klass : Klass, slot : Slots]

Functions ==
  [sym : Name, named : BOOLEAN, own : Nat, decl : Nat, code : Seq(Instrs),
   stores : SUBSET (Slots \X (Nat \ {0}))]

Frames ==
  [fn : Nat \ {0}, pc : Nat \ {0}, env : [Var -> Klass \cup {Prim, None}]]

(* Shape of the state. *)
TypeOK ==
  /\ phase \in Phase
  /\ pos \in 1 .. Len(program) + 1
  /\ Len(syms) <= SYMBOL_MAX /\ syms \in Seq(Name)
  /\ Len(funcs) <= FUNC_MAX /\ funcs \in Seq([sym : Name, decl : Nat \ {0}])
  /\ null_args \subseteq (Nat \X Nat)
  /\ klasses \subseteq Klass
  /\ method_map \in [Klass -> 0 .. Len(llvm)]
  /\ vars \in [Var -> [klass : Klass \cup {Prim, None}, owner : 0 .. Len(llvm)]]
  /\ llvm \in Seq(Functions)
  /\ cur \in 0 .. Len(llvm)
  /\ stack \in Seq(Frames)
  /\ table \in [Slots -> 0 .. Len(llvm)]

-----------------------------------------------------------------------------
(***************************************************************************)
(* Which method a call through a variable reaches, read off the program.   *)
(***************************************************************************)

(* The instruction frame f of the stack is waiting for. *)
Pending(f) == Code(f.fn)[f.pc - 1]

(* The declaration of the main that is running. *)
MainPos == llvm[stack[1].fn].own

(* The methods of k that main's stores still find: no later method of k,   *)
(* and no later definition of k, comes before main.                        *)
Surviving(k) ==
  {m \in MethodDecls(program, k) :
     /\ m < MainPos
     /\ \A i \in m + 1 .. MainPos - 1 :
          i \notin MethodDecls(program, k) \cup ClassDecls(program, k)}

(* No class that sorts before k appears between declaration i and main.    *)
StableId(k, i) ==
  \A c \in DeclsOf(program, "DEF_CLASS") :
    (i < c /\ c < MainPos /\ KlassRank[program[c].sym] < KlassRank[k])
      => \E b \in ClassDecls(program, program[c].sym) : b < i

(***************************************************************************)
(* A call v.n() executes the function compiled for the newest method of    *)
(* v's declared class, whatever other classes, methods and functions the   *)
(* program declares around it, as long as no class is added that sorts     *)
(* before v's class between the call and main.                             *)
(***************************************************************************)
DispatchesToStaticClass ==
  \A i \in 1 .. Len(stack) - 1 :
    LET call == Pending(stack[i]) IN
    (call.op = "slot" /\ StableId(call.klass, llvm[stack[i].fn].own))
      => llvm[stack[i + 1].fn].own \in Surviving(call.klass)

(***************************************************************************)
(* The running program jumps to address 0 only where the declared class of *)
(* the receiver has no method left in the array, or where its index was    *)
(* shifted by a class added later, or where what lli starts is a method    *)
(* called main, because only a function of that name fills the array.      *)
(***************************************************************************)
EmptySlotHasACause ==
  (phase = "crash" /\ stack # <<>>) =>
    LET call == Code(top.fn)[top.pc] IN
    \/ Surviving(call.klass) = {}
    \/ ~StableId(call.klass, llvm[top.fn].own)
    \/ program[MainPos].op = "DEF_METHOD"

(***************************************************************************)
(* All functions share one variable map, so a method can find the `this'   *)
(* or the locals of a function compiled earlier.  In a module that gets    *)
(* written that never decides a call: every receiver has the class lexical *)
(* scoping gives it, in the compiled body, for the class being compiled.   *)
(***************************************************************************)
AsCompiled(f) ==
  IF program[llvm[f].own].op = "DEF_METHOD"
  THEN [op |-> "DEF_METHOD", reciever |-> program[llvm[f].own].reciever,
        args |-> program[llvm[f].decl].args, body |-> program[llvm[f].decl].body]
  ELSE [op |-> "DEF_FUNC", args |-> program[llvm[f].decl].args,
        body |-> program[llvm[f].decl].body]

ReceiversAreLexical ==
  \A f \in (1 .. Len(llvm)) \ Stubs : \A i \in 1 .. Len(Code(f)) :
    Code(f)[i].op = "slot"
      => Code(f)[i].klass = StaticKlass(AsCompiled(f), i, Code(f)[i].reciever)

(***************************************************************************)
(* The module is malformed only through a class beyond the array's RowLen  *)
(* rows, or a call that names a variable the function being compiled does  *)
(* not define.                                                             *)
(***************************************************************************)
Receiver(n) == IF n.op = "CALL_FUNC" THEN n.arg ELSE n.reciever

UndefinedHasACause ==
  phase = "undefined" =>
    \/ Cardinality(klasses) > RowLen
    \/ /\ cur # 0 /\ work # <<>>
       /\ Head(work).op # "DEF_VAR" /\ Receiver(Head(work)) # None
       /\ StaticKlass(AsCompiled(cur), Len(AsCompiled(cur).body) - Len(work) + 1,
                      Receiver(Head(work))) = None

(***************************************************************************)
(* The compiler dereferences NULL or exhausts its stack only at a method   *)
(* call without arguments, a cycle of superclasses, a call of what nobody  *)
(* declares or through what lexical scoping does not define, a method call *)
(* on a number, and at `this' passed on as an argument.                    *)
(***************************************************************************)
FaultyStatement(n, klass) ==
  \/ n.op # "DEF_VAR" /\ CallableDecls(program, n.sym) = {}
  \/ n.op = "CALL_FUNC" /\ n.arg # None /\ (klass = None \/ n.arg = This)
  \/ n.op = "CALL_METHOD" /\ klass \in {None, Prim}

CrashHasACause ==
  (phase = "crash" /\ stack = <<>>) =>
    IF cur # 0
    THEN LET d == AsCompiled(cur)
             n == Head(work)
         IN  /\ work # <<>>
             /\ FaultyStatement(n, StaticKlass(d, Len(d.body) - Len(work) + 1, Receiver(n)))
    ELSE IF work # <<>> THEN Head(work).op = "CALL_METHOD" /\ Head(work).sym = None
    ELSE SuperCyclic(pos)

-----------------------------------------------------------------------------
(***************************************************************************)
(* Declaration before use.  The body compiled for declaration i is the one *)
(* of the last callable with its name.                                     *)
(***************************************************************************)
CompiledBody(i) == program[Greatest(CallableDecls(program, program[i].sym))].body

Mentions(i, n, ops) ==
  \E s \in 1 .. Len(CompiledBody(i)) :
    CompiledBody(i)[s].op \in ops /\ CompiledBody(i)[s].sym = n

(* Some call, even a method call, mentions n ahead of every n declared.    *)
UsedFirst(n) ==
  \E i \in 1 .. Len(program) :
    /\ program[i].op \in Callables
    /\ Mentions(i, n, {"CALL_FUNC", "CALL_METHOD"})
    /\ \A d \in CallableDecls(program, n) : i < d

CalledByName(n) ==
  \E i \in 1 .. Len(program) :
    program[i].op \in Callables /\ Mentions(i, n, {"CALL_FUNC"})

(***************************************************************************)
(* lli refuses exactly the modules of programs without a main, or in which *)
(* a function that is called by name (or main) is mentioned by some call   *)
(* before its first declaration: LLVM then gives the name to a stub and    *)
(* renames the real function.                                              *)
(***************************************************************************)
UnresolvedIffUsedFirst ==
  phase \in {"unresolved", "running", "exited"} =>
    (phase = "unresolved" <=>
       \/ CallableDecls(program, Main) = {} \/ UsedFirst(Main)
       \/ \E n \in Name : CalledByName(n) /\ UsedFirst(n))

-----------------------------------------------------------------------------
(***************************************************************************)
(* Assertions.  What declaration i names, in its own text and in the body  *)
(* compiled for it.                                                        *)
(***************************************************************************)
NodesOf(i) ==
  LET own == Nodes(program[i])
      run == Nodes(program[Greatest(CallableDecls(program, program[i].sym))])
  IN  {own[j] : j \in 1 .. Len(own)} \cup
      IF program[i].op = "DEF_CLASS" THEN {} ELSE {run[j] : j \in 1 .. Len(run)}

NamesIn(n) ==
  ({n.sym} \ {None}) \cup (CASE n.op = "DEF_VAR"   -> {n.klass} \ {Prim}
                  [] n.op = "DEF_CLASS" -> {n.super} \ {None}
                  [] n.op \in {"CALL_METHOD", "DEF_METHOD"} -> {n.reciever}
                  [] OTHER -> {})

KlassesIn(i) ==
  (UNION {IF n.op = "DEF_VAR" THEN {n.klass} \ {Prim} ELSE {} : n \in NodesOf(i)})
  \cup IF program[i].op = "DEF_METHOD" THEN {program[i].reciever} ELSE {}

(***************************************************************************)
(* The compiler gives up with an assertion only on programs that exceed a  *)
(* table, use a class before defining it, or extend one nobody defines.    *)
(***************************************************************************)
AssertHasACause ==
  phase = "assert" =>
    \/ Cardinality(UNION {NamesIn(n) : n \in UNION {NodesOf(i) : i \in 1 .. Len(program)}})
         > SYMBOL_MAX
    \/ Cardinality({i \in 1 .. Len(program) : program[i].op \in Callables}) > FUNC_MAX
    \/ \E i \in 1 .. Len(program) : \E k \in KlassesIn(i) :
         ~\E c \in ClassDecls(program, k) : c < i
    \/ \E i \in DeclsOf(program, "DEF_CLASS") : SuperMissing(i)

-----------------------------------------------------------------------------
(***************************************************************************)
(* Refinement, for orderly programs: frames run the bodies the source      *)
(* prescribes, with the objects the source prescribes.                     *)
(***************************************************************************)
SourceFrame(f) == [decl |-> llvm[f.fn].decl, pc |-> f.pc, env |-> f.env]

(* (TLC wants the sequence itself here, not a function equal to it.) *)
SourceStack == <<>> \o [i \in 1 .. Len(stack) |-> SourceFrame(stack[i])]

Source == INSTANCE SourceSemantics WITH
  status <- IF phase \in {"parse", "codegen", "written"} THEN "compiling" ELSE phase,
  stack  <- SourceStack

(* Compiling and running an orderly program behaves like the program. *)
ImplementsSource == Source!Spec

(* The tables and the method array have room for all that p declares.      *)
NodesIn(p) == UNION {{Nodes(p[i])[j] : j \in 1 .. Len(Nodes(p[i]))} : i \in 1 .. Len(p)}
Fits(p) ==
  /\ Cardinality(UNION {NamesIn(n) : n \in NodesIn(p)}) <= SYMBOL_MAX
  /\ Cardinality({i \in 1 .. Len(p) : p[i].op \in Callables}) <= FUNC_MAX
  /\ Cardinality(DeclsOf(p, "DEF_CLASS")) <= RowLen

(* Every compilation ends, with a module or with a failure. *)
CompilationEnds == <>(phase \notin {"parse", "codegen", "written"})

(* An orderly program without recursion runs to the end of main. *)
ProgramExits == <>(phase = "exited")

-----------------------------------------------------------------------------
(***************************************************************************)
(* Claims of the repository.                                               *)
(***************************************************************************)

(***************************************************************************)
(* test/polymorphism.mugi passes a TestX through a variable of its         *)
(* superclass SuperX and test/polymorphism.expect:1 expects TestX's method *)
(* to run: a method call runs the body of the object's own class.          *)
(***************************************************************************)
DispatchesOnObject ==
  \A i \in 1 .. Len(stack) - 1 :
    LET call == Pending(stack[i])
        own  == stack[i].env[call.reciever]
    IN  (call.op = "slot" /\ OwnMethods(program, own, call.sym) # {})
          => llvm[stack[i + 1].fn].decl \in OwnMethods(program, own, call.sym)

(***************************************************************************)
(* mugicha_compiler.cpp:572, "make function array after all program is     *)
(* over": a running program finds all methods of the program in the array. *)
(***************************************************************************)
ArrayIsComplete ==
  phase = "running" =>
    \A k \in klasses : method_map[k] # 0
      => table[getMethodArrayIndex(k)] = method_map[k]
=============================================================================

----------------------------- MODULE Insertion -----------------------------
(***************************************************************************)
(* Where instructions go.  The code generator has one insertion point;     *)
(* creating a function moves it there, makeReturn ends whatever block it   *)
(* is in, compiling main leaves it at the head of main, and nothing ever   *)
(* moves it back: definitions inside bodies and statements outside         *)
(* functions, both of which the grammar allows, end up where it happens to *)
(* be.  Before that the tree is printed, to the stream the module goes to. *)
(* Both walks follow the body lookup_func finds for a name, not the one    *)
(* that stands there (src/ast.c, src/llvm_builder.cpp,                     *)
(* src/mugicha_compiler.cpp).                                              *)
(*                                                                         *)
(* A statement is [op, sym, val, body]: a literal VALUEDATA, print of a    *)
(* literal PRINTDATA, print of a sum ADD, DEF_VAR and GET_VAR of an int,   *)
(* DEF_FUNC and DEF_METHOD without arguments.  Methods belong to one       *)
(* class, compiled before; calls are the business of Compiler, branches    *)
(* that of ControlFlow.                                                    *)
(***************************************************************************)
EXTENDS Funcs, SequencesExt

CONSTANTS
  Programs,     \* sequences of statements
  StdioBuffer,  \* printed statements that fit the buffer of stdout
  StackDepth    \* bound: calls of the walks that fit the C stack

VARIABLES
  program,
  phase,   \* "parse", "print", "codegen", "exit", "lli", "running" or how it ended
  table,   \* funcs[]: [sym, decl], decl being the body
  calls,   \* the walk in progress: [todo, fn], innermost last
  text,    \* what print_ast has printed
  file,    \* tmp.bc: "text" and "module"
  code,    \* LLVM functions: [sym, op, block], instructions [id, op, args, val]
  ins,     \* the insertion point: a function, and the place in its block
  ret,     \* the value of the last statement
  var_map, \* LLVMLocalVariableMap: name |-> its alloca
  methods, \* the class's method_map: its entry, if any
  pc, out  \* the running program

front == <<table, text, file>>
back  == <<code, ins, ret, var_map, methods>>
run   == <<pc, out>>
all   == <<program, phase, calls, front, back, run>>

Defines(s) == s.op \in {"DEF_FUNC", "DEF_METHOD"}

-----------------------------------------------------------------------------
(***************************************************************************)
(* Parsing registers a definition after those inside it.                   *)
(***************************************************************************)
RECURSIVE Registered(_, _)
Registered(stmts, funcs) ==
  FoldLeft(LAMBDA t, s : IF Defines(s) THEN make_func(Registered(s.body, t), s.sym, s.body)
                         ELSE t,
           funcs, stmts)

TooManyByTwo(funcs) == Len(funcs) > FUNC_MAX + 1                  \* mutant
TooMany(funcs) == Len(funcs) > FUNC_MAX

yyparse ==
  /\ phase = "parse"
  /\ table' = Registered(program, <<>>)
  /\ phase' = IF TooMany(table') THEN "assert" ELSE "print"
  /\ calls' = <<[todo |-> program, fn |-> 0]>>
  /\ UNCHANGED <<program, text, file, back, run>>

-----------------------------------------------------------------------------
(***************************************************************************)
(* A walk takes the statements of the innermost call, and enters bodies.   *)
(***************************************************************************)
top  == calls[Len(calls)]
Stmt == Head(top.todo)
below == Front(calls)

OwnBody(s)  == s.body                                             \* mutant
BodyFound(s) == table[lookup_func(table, s.sym)].decl

Walking(in)    == phase = in /\ calls # <<>> /\ top.todo # <<>>
Leaving(in)    == phase = in /\ calls # <<>> /\ top.todo = <<>>
WalkOn         == calls' = Append(below, [top EXCEPT !.todo = Tail(@)])
WalkInto(s, f) ==
  calls' = below \o <<[top EXCEPT !.todo = Tail(@)], [todo |-> BodyFound(s), fn |-> f]>>
StackFull      == Len(calls) = StackDepth

(* Only the bodies of functions are printed, not those of methods. *)
PrintsBody(s) == s.op = "DEF_FUNC"

print_ast ==
  /\ Walking("print")
  /\ text' = Append(text, [op |-> Stmt.op, sym |-> Stmt.sym])
  /\ file' = IF Len(text') % StdioBuffer = 1 /\ Len(text') > 1 THEN Append(file, "text")
             ELSE file
  /\ IF ~PrintsBody(Stmt) THEN WalkOn /\ UNCHANGED phase
     ELSE IF StackFull THEN phase' = "overflow" /\ UNCHANGED calls
     ELSE WalkInto(Stmt, 0) /\ UNCHANGED phase
  /\ UNCHANGED <<program, table, back, run>>

print_ast_returns ==
  /\ Leaving("print")
  /\ calls' = IF Len(calls) > 1 THEN below ELSE <<[todo |-> program, fn |-> 0]>>
  /\ phase' = IF Len(calls) > 1 THEN phase ELSE "codegen"
  /\ UNCHANGED <<program, front, back, run>>

-----------------------------------------------------------------------------
(***************************************************************************)
(* The IRBuilder inserts at its point, before an instruction or at the end *)
(* of the block.  Registers are named by function and instruction.         *)
(***************************************************************************)
End     == -1
NoPlace == [fn |-> 0, at |-> End]
Const   == <<0, 0>>

Block(c, f) == c[f].block
Instr(c, f, op, args, val) ==
  [id |-> Len(Block(c, f)) + 1, op |-> op, args |-> args, val |-> val]

PushBack(c, f, op, args, val) ==
  [c EXCEPT ![f].block = Append(@, Instr(c, f, op, args, val))]
Insert(c, p, op, args, val) ==
  IF p.at = End THEN PushBack(c, p.fn, op, args, val)
  ELSE [c EXCEPT ![p.fn].block = InsertAt(@, p.at + 1, Instr(c, p.fn, op, args, val))]
StaysPut(p) == p                                                  \* mutant
Past(p) == IF p.at = End THEN p ELSE [p EXCEPT !.at = @ + 1]

(* The register an instruction inserted into code now would assign. *)
Result == <<ins.fn, Len(Block(code, ins.fn)) + 1>>

(***************************************************************************)
(* makeExprBuilder asks the insertion block for its function: without one  *)
(* it dereferences NULL.                                                   *)
(***************************************************************************)
Generates(op) == Walking("codegen") /\ Stmt.op = op
Generate(op, action) ==
  /\ Generates(op)
  /\ IF ins.fn = 0 THEN phase' = "crash" /\ UNCHANGED <<calls, back>>
     ELSE action
  /\ UNCHANGED <<program, front, run>>

Emit(op, args, val) ==
  /\ code' = Insert(code, ins, op, args, val)
  /\ ins' = Past(ins)
  /\ ret' = Result
  /\ WalkOn
  /\ UNCHANGED <<phase, methods>>

eval_node_value_codegen ==
  Generate("VALUEDATA",
           ret' = Const /\ WalkOn /\ UNCHANGED <<phase, code, ins, var_map, methods>>)

exec_print_codegen ==
  Generate("PRINTDATA", Emit("print", {Const}, Stmt.val) /\ UNCHANGED var_map)

(* makeCalcOp appends to the block, wherever in it the insertion point is. *)
exec_calc_codegen ==
  Generate("ADD",
    LET added == PushBack(code, ins.fn, "add", {Const}, Stmt.val) IN
    /\ code' = Insert(added, ins, "print", {Result}, Stmt.val)
    /\ ins' = Past(ins)
    /\ ret' = <<ins.fn, Len(Block(added, ins.fn)) + 1>>
    /\ WalkOn
    /\ UNCHANGED <<phase, var_map, methods>>)

exec_def_var_codegen ==
  Generate("DEF_VAR",
    /\ code' = Insert(code, ins, "alloca", {}, 0)
    /\ ins' = Past(ins)
    /\ var_map' = [v \in DOMAIN var_map \cup {Stmt.sym} |->
                     IF v = Stmt.sym THEN Result ELSE var_map[v]]
    /\ ret' = Const
    /\ WalkOn
    /\ UNCHANGED <<phase, methods>>)

exec_get_var_codegen ==
  Generate("GET_VAR",
    IF Stmt.sym \notin DOMAIN var_map THEN phase' = "crash" /\ UNCHANGED <<calls, back>>
    ELSE Emit("load", {var_map[Stmt.sym]}, 0) /\ UNCHANGED var_map)

(***************************************************************************)
(* exec_def_func_codegen, exec_def_method_codegen: the function is created *)
(* with the insertion point in it, then the body is generated.             *)
(***************************************************************************)
exec_def_codegen ==
  /\ Walking("codegen") /\ Defines(Stmt)
  /\ IF StackFull THEN phase' = "overflow" /\ UNCHANGED <<calls, back>>
     ELSE /\ code' = Append(code, [sym |-> Stmt.sym, op |-> Stmt.op, block |-> <<>>])
          /\ ins' = [fn |-> Len(code'), at |-> End]
          /\ methods' = IF Stmt.op = "DEF_METHOD" THEN <<Len(code')>> ELSE methods
          /\ WalkInto(Stmt, Len(code'))
          /\ UNCHANGED <<phase, ret, var_map>>
  /\ UNCHANGED <<program, front, run>>

(***************************************************************************)
(* ... and the block of the insertion point is ended, of whatever function *)
(* it is.  After main the point is at its head, behind the stores that     *)
(* fill the method array.                                                  *)
(***************************************************************************)
OwnBlock(fn)  == fn                                               \* mutant
BlockEnded(fn) == ins.fn

setFuncPtrArry(c, fn) ==
  LET head == [fn |-> fn, at |-> 0] IN
  IF methods = <<>> THEN [code |-> c, ins |-> head]
  ELSE [code |-> Insert(c, head, "store", {}, 0), ins |-> Past(head)]

makeReturn ==
  /\ Leaving("codegen") /\ Len(calls) > 1
  /\ LET ended == PushBack(code, BlockEnded(top.fn), "ret", {ret}, 0)
         after == IF code[top.fn].op = "DEF_FUNC" /\ code[top.fn].sym = "main"
                  THEN setFuncPtrArry(ended, top.fn)
                  ELSE [code |-> ended, ins |-> ins]
     IN  code' = after.code /\ ins' = after.ins
  /\ calls' = below
  /\ UNCHANGED <<program, phase, front, ret, var_map, methods, run>>

(***************************************************************************)
(* The module goes to the file through llvm::outs; what print_ast has left *)
(* in the buffer of stdout follows when the process exits.                 *)
(***************************************************************************)
FlushedBefore == Append(file, "text")                             \* mutant
Unflushed     == file

WriteBitcodeToFile ==
  /\ Leaving("codegen") /\ Len(calls) = 1
  /\ file' = Append(Unflushed, "module")
  /\ phase' = "exit"
  /\ UNCHANGED <<program, calls, table, text, back, run>>

exit ==
  /\ phase = "exit"
  /\ file' = Append(file, "text")
  /\ phase' = "lli"
  /\ UNCHANGED <<program, calls, table, text, back, run>>

-----------------------------------------------------------------------------
(***************************************************************************)
(* lli.  A block ends in its only terminator, a register is one of the     *)
(* function's own; the first function of a name has it, later ones were    *)
(* renamed when they were created.                                         *)
(***************************************************************************)
Readable(f) ==
  LET b == Block(code, f) IN
  /\ \A i \in 1 .. Len(b) : b[i].op = "ret" <=> i = Len(b)
  /\ b # <<>>
  /\ \A i \in 1 .. Len(b) : \A r \in b[i].args : r = Const \/ r[1] = f

Mains == {f \in 1 .. Len(code) : code[f].sym = "main"}
main  == CHOOSE f \in Mains : \A g \in Mains : f <= g

Load ==
  /\ phase = "lli"
  /\ phase' = IF Head(file) # "module" THEN "unreadable"
              ELSE IF \E f \in 1 .. Len(code) : ~Readable(f) THEN "malformed"
              ELSE IF Mains = {} THEN "unresolved"
              ELSE "running"
  /\ UNCHANGED <<program, calls, front, back, run>>

Current == Block(code, main)[pc]

Step ==
  /\ phase = "running"
  /\ IF \E r \in Current.args :
          r # Const /\ \A i \in 1 .. pc - 1 : Block(code, main)[i].id # r[2]
     THEN phase' = "undefined" /\ UNCHANGED run
     ELSE /\ phase' = IF Current.op = "ret" THEN "exited" ELSE phase
          /\ out' = IF Current.op = "print" THEN Append(out, Current.val) ELSE out
          /\ pc' = pc + 1
  /\ UNCHANGED <<program, calls, front, back>>

-----------------------------------------------------------------------------
Init ==
  /\ program \in Programs
  /\ phase = "parse"
  /\ table = <<>> /\ calls = <<>> /\ text = <<>> /\ file = <<>>
  /\ code = <<>> /\ ins = NoPlace /\ ret = Const
  /\ var_map = [v \in {} |-> Const] /\ methods = <<>>
  /\ pc = 1 /\ out = <<>>

Codegen ==
  \/ eval_node_value_codegen \/ exec_print_codegen \/ exec_calc_codegen
  \/ exec_def_var_codegen \/ exec_get_var_codegen
  \/ exec_def_codegen \/ makeReturn \/ WriteBitcodeToFile

Next == yyparse \/ print_ast \/ print_ast_returns \/ Codegen \/ exit \/ Load \/ Step

Spec == Init /\ [][Next]_all
=============================================================================

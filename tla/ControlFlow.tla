---------------------------- MODULE ControlFlow ----------------------------
(***************************************************************************)
(* How the body of one MugiCha function becomes basic blocks, and what the *)
(* blocks do when they run.  The code generator is a recursive walk of the *)
(* AST (eval_node_codegen in src/mugicha_compiler.cpp); `calls' is its C++ *)
(* call stack, one frame per exec_..._codegen in progress, and each action *)
(* is the stretch of one of them between two recursive calls.  What makes  *)
(* the walk delicate is the state all frames share: the insertion point of *)
(* the IRBuilder, which moves while a child is generated.                  *)
(*                                                                         *)
(* Nodes are records: VALUEDATA has val and ty ("i32" for int and bool     *)
(* literals, "double"), GET_VAR sym, SET_VAR sym and left, PRINTDATA left, *)
(* ADD, CMP_SMALLER and SEQ left and right, IF_STMT condition, left and    *)
(* right, WHILE_STMT condition and left.  The other operators of exec_calc *)
(* and exec_cmp are generated like ADD and CMP_SMALLER; a call of a        *)
(* function is generated like PRINTDATA.  Variables are ints.              *)
(***************************************************************************)
EXTENDS Integers, Sequences, FiniteSets

CONSTANTS
  Node,        \* AST nodes: the bodies and their subtrees
  Bodies,      \* the function bodies under consideration
  Var,         \* their variables, all of them allocated on entry
  Width,       \* the 32 of i32
  MaxOut       \* bound of the model: output past this length is not explored

ASSUME WidthAssumption == Width \in Nat \ {0} /\ MaxOut \in Nat

(* What the grammar builds: the operands of a node are nodes. *)
ASSUME NodeAssumption ==
  /\ Bodies \subseteq Node
  /\ \A t \in Node :
       \/ t.op = "VALUEDATA" /\ t.ty \in {"i32", "double"} /\ t.val \in Int
       \/ t.op = "GET_VAR" /\ t.sym \in Var
       \/ t.op = "SET_VAR" /\ t.sym \in Var /\ t.left \in Node
       \/ t.op = "PRINTDATA" /\ t.left \in Node
       \/ t.op \in {"ADD", "CMP_SMALLER", "SEQ"} /\ t.left \in Node /\ t.right \in Node
       \/ t.op = "IF_STMT" /\ {t.condition, t.left, t.right} \subseteq Node
       \/ t.op = "WHILE_STMT" /\ {t.condition, t.left} \subseteq Node

VARIABLES
  body,        \* the AST of the function
  phase,       \* "codegen", "malformed", "written", "running", "exited", "stuck"
  calls,       \* frames [node, stage, kept, at]: kept values, kept blocks
  ret,         \* what the last exec_..._codegen returned
  blocks,      \* every BasicBlock created: [attached, code]
  ins,         \* the block the IRBuilder inserts into
  block, pc,   \* lli: the block being run, and the next instruction in it
  prev,        \* lli: the block control came from
  regs,        \* lli: the registers assigned so far, [place |-> value]
  mem,         \* lli: the contents of the variables
  out          \* lli: the numbers printed

gen == <<calls, ret, blocks, ins>>
run == <<block, pc, prev, regs, mem, out>>
all == <<body, phase, gen, run>>

-----------------------------------------------------------------------------
(***************************************************************************)
(* Values.  An operand is a constant or the register some instruction      *)
(* assigns; a register is named by the place <<block, index>> of its       *)
(* instruction, which nothing moves.                                       *)
(***************************************************************************)
Const(ty, n)    == [ty |-> ty, const |-> TRUE, n |-> n, place |-> <<0, 0>>]
Reg(ty, place)  == [ty |-> ty, const |-> FALSE, n |-> 0, place |-> place]

NoValue == Const("i32", 0)

Modulus == 2 ^ Width

(* So it is by WidthAssumption, but the provers know nothing of powers. *)
ASSUME ModulusAssumption == Modulus \in Nat /\ Modulus > 1

Unbounded(n) == n      \* mutant
Wrap(n) == n % Modulus
Signed(n) == IF n < Modulus \div 2 THEN n ELSE n - Modulus

Bit(condition) == IF condition THEN 1 ELSE 0

EmptyBlock(attached) == [attached |-> attached, code |-> <<>>]

Frame(node) == [node |-> node, stage |-> 1, kept |-> NoValue, at |-> <<>>]

Init ==
  /\ body \in Bodies
  /\ phase = "codegen"
  /\ calls = <<Frame(body)>>
  /\ ret = NoValue
  /\ blocks = <<EmptyBlock(TRUE)>>      \* EntryBlock
  /\ ins = 1
  /\ block = 0 /\ pc = 0 /\ prev = 0
  /\ regs = <<>>
  /\ mem = [v \in Var |-> 0]
  /\ out = <<>>

-----------------------------------------------------------------------------
(***************************************************************************)
(* The code generator.                                                     *)
(***************************************************************************)
top  == calls[Len(calls)]
node == top.node

At(ops, stage) ==
  /\ phase = "codegen"
  /\ calls # <<>>
  /\ node.op \in ops
  /\ top.stage = stage

(* The frame goes on to its next stage once child has been generated. *)
NextStage(kept, at) == [node |-> node, stage |-> top.stage + 1, kept |-> kept, at |-> at]

CallKeeping(child, kept, at) ==
  calls' = Append([calls EXCEPT ![Len(calls)] = NextStage(kept, at)], Frame(child))

Call(child) == CallKeeping(child, top.kept, top.at)

Return(value) ==
  /\ calls' = SubSeq(calls, 1, Len(calls) - 1)
  /\ ret' = value

(* bs with instruction i at the end of block b, and where that is. *)
Emit(bs, b, i) == [bs EXCEPT ![b].code = Append(@, i)]
Place(b) == <<b, Len(blocks[b].code) + 1>>

(* LLVM asserts, or writes a module the reader refuses. *)
Malformed == phase' = "malformed" /\ UNCHANGED gen

Integer == {"i1", "i32"}

eval_node_value_codegen ==
  /\ At({"VALUEDATA"}, 1)
  /\ Return(Const(node.ty, node.val))
  /\ UNCHANGED <<phase, blocks, ins>>

exec_get_var_codegen ==
  /\ At({"GET_VAR"}, 1)
  /\ blocks' = Emit(blocks, ins, [op |-> "load", var |-> node.sym])
  /\ Return(Reg("i32", Place(ins)))
  /\ UNCHANGED <<phase, ins>>

(* Evaluation of the first operand, which comes before anything else. *)
exec_operand ==
  /\ At({"SET_VAR", "PRINTDATA", "CMP_SMALLER", "SEQ"}, 1)
  /\ Call(node.left)
  /\ UNCHANGED <<phase, ret, blocks, ins>>

exec_set_var_codegen ==
  /\ At({"SET_VAR"}, 2)
  /\ IF ret.ty # "i32" THEN Malformed
     ELSE /\ blocks' = Emit(blocks, ins, [op |-> "store", var |-> node.sym, arg |-> ret])
          /\ Return(ret)
          /\ UNCHANGED <<phase, ins>>

(* A call of printf, whose result is an i32. *)
exec_print_codegen ==
  /\ At({"PRINTDATA"}, 2)
  /\ blocks' = Emit(blocks, ins, [op |-> "print", arg |-> ret])
  /\ Return(Reg("i32", Place(ins)))
  /\ UNCHANGED <<phase, ins>>

exec_seq_codegen ==
  /\ \/ At({"SEQ"}, 2) /\ Call(node.right) /\ UNCHANGED ret
     \/ At({"SEQ"}, 3) /\ Return(ret)
  /\ UNCHANGED <<phase, blocks, ins>>

exec_cmp_codegen ==
  \/ /\ At({"CMP_SMALLER"}, 2)
     /\ CallKeeping(node.right, ret, <<>>)
     /\ UNCHANGED <<phase, ret, blocks, ins>>
  \/ /\ At({"CMP_SMALLER"}, 3)
     /\ IF top.kept.ty # ret.ty \/ ret.ty \notin Integer THEN Malformed
        ELSE /\ IF top.kept.const /\ ret.const     \* IRBuilder folds constants
                THEN /\ Return(Const("i1", Bit(Signed(Wrap(top.kept.n)) < Signed(Wrap(ret.n)))))
                     /\ UNCHANGED blocks
                ELSE /\ blocks' = Emit(blocks, ins, [op |-> "slt", lhs |-> top.kept, rhs |-> ret])
                     /\ Return(Reg("i1", Place(ins)))
             /\ UNCHANGED <<phase, ins>>

(***************************************************************************)
(* The block of makeCalcOp is the one its LLVMExprBuilder found when it    *)
(* was made, before the operands were generated.                           *)
(***************************************************************************)
CalcBlock(captured, current) == captured

exec_calc_codegen ==
  \/ /\ At({"ADD"}, 1)
     /\ CallKeeping(node.left, NoValue, <<ins>>)
     /\ UNCHANGED <<phase, ret, blocks, ins>>
  \/ /\ At({"ADD"}, 2)
     /\ CallKeeping(node.right, ret, top.at)
     /\ UNCHANGED <<phase, ret, blocks, ins>>
  \/ /\ At({"ADD"}, 3)
     /\ LET b == CalcBlock(top.at[1], ins) IN
        IF top.kept.ty # ret.ty THEN Malformed
        ELSE /\ blocks' = Emit(blocks, b, [op |-> "add", lhs |-> top.kept, rhs |-> ret])
             /\ Return(Reg(ret.ty, Place(b)))
             /\ UNCHANGED <<phase, ins>>

(* Create an empty block; one that is not attached is not in the function yet. *)
NewBlocks(bs, attached) ==
  bs \o [i \in 1 .. Len(attached) |-> EmptyBlock(attached[i])]

NeverAttach(bs, b) == bs     \* mutant
Attach(bs, b) == [bs EXCEPT ![b].attached = TRUE]

Br(to)         == [op |-> "br", to |-> to]
CondBrSwapped(c, t, e) == [op |-> "condbr", cond |-> c, then |-> e, else |-> t] \* mutant
CondBr(c, t, e) == [op |-> "condbr", cond |-> c, then |-> t, else |-> e]

(* The block an arm of the `if' has ended in, once its own code is there. *)
ArmStart(arm, current) == arm      \* mutant
ArmEnd(arm, current) == current

exec_if_codegen ==
  \/ /\ At({"IF_STMT"}, 1)
     /\ Call(node.condition)
     /\ UNCHANGED <<phase, ret, blocks, ins>>
  \/ /\ At({"IF_STMT"}, 2)
     /\ LET thenBB == Len(blocks) + 1
            elseBB == Len(blocks) + 2
            new    == NewBlocks(blocks, <<TRUE, FALSE, FALSE>>)
        IN  IF ret.ty # "i1" THEN Malformed
            ELSE /\ blocks' = Emit(new, ins, CondBr(ret, thenBB, elseBB))
                 /\ ins' = thenBB
                 /\ CallKeeping(node.left, NoValue, <<thenBB, elseBB, elseBB + 1>>)
                 /\ UNCHANGED <<phase, ret>>
  \/ /\ At({"IF_STMT"}, 3)
     /\ LET elseBB == top.at[2] IN
          /\ blocks' = Attach(Emit(blocks, ins, Br(top.at[3])), elseBB)
          /\ ins' = elseBB
          /\ CallKeeping(node.right, ret,
                         <<ArmEnd(top.at[1], ins), elseBB, top.at[3]>>)
     /\ UNCHANGED <<phase, ret>>
  \/ /\ At({"IF_STMT"}, 4)
     /\ LET mergeBB == top.at[3]
            phi == [op |-> "phi",
                    from |-> {<<top.at[1], top.kept>>, <<ArmEnd(top.at[2], ins), ret>>}]
        IN  IF top.kept.ty # "i32" \/ ret.ty # "i32" THEN Malformed
            ELSE /\ blocks' = Emit(Attach(Emit(blocks, ins, Br(mergeBB)), mergeBB),
                                   mergeBB, phi)
                 /\ ins' = mergeBB
                 /\ Return(Reg("i32", <<mergeBB, 1>>))
                 /\ UNCHANGED phase

(* At the end of its body a loop goes back to its condition. *)
NoLoopBack(condBB, loopBB)       == blocks                            \* mutant
LoopWithoutTest(condBB, loopBB)  == Emit(blocks, ins, Br(loopBB))     \* mutant
LoopBack(condBB, loopBB)         == Emit(blocks, ins, Br(condBB))

(* IRBuilder folds the test of a constant condition. *)
exec_while_codegen ==
  \/ /\ At({"WHILE_STMT"}, 1)
     /\ LET condBB == Len(blocks) + 1
            new    == NewBlocks(blocks, <<TRUE, TRUE, TRUE>>)
        IN  /\ blocks' = Emit(new, ins, Br(condBB))
            /\ ins' = condBB
            /\ CallKeeping(node.condition, NoValue, <<condBB, condBB + 1, condBB + 2>>)
     /\ UNCHANGED <<phase, ret>>
  \/ /\ At({"WHILE_STMT"}, 2)
     /\ LET test == [op |-> "eq", lhs |-> ret, rhs |-> Const("i1", 1)]
            cond == IF ret.const THEN ret ELSE Reg("i1", Place(ins))
            tested == IF ret.const THEN blocks ELSE Emit(blocks, ins, test)
        IN  IF ret.ty # "i1" THEN Malformed
            ELSE /\ blocks' = Emit(tested, ins, CondBr(cond, top.at[2], top.at[3]))
                 /\ ins' = top.at[2]
                 /\ Call(node.left)
                 /\ UNCHANGED <<phase, ret>>
  \/ /\ At({"WHILE_STMT"}, 3)
     /\ blocks' = LoopBack(top.at[1], top.at[2])
     /\ ins' = top.at[3]
     /\ Return(ret)
     /\ UNCHANGED phase

makeReturn ==
  /\ phase = "codegen"
  /\ calls = <<>>
  /\ IF ret.ty # "i32" THEN Malformed
     ELSE /\ blocks' = Emit(blocks, ins, [op |-> "ret", arg |-> ret])
          /\ phase' = "written"
          /\ UNCHANGED <<calls, ret, ins>>

Generate ==
  /\ \/ eval_node_value_codegen
     \/ exec_get_var_codegen
     \/ exec_operand
     \/ exec_set_var_codegen
     \/ exec_print_codegen
     \/ exec_seq_codegen
     \/ exec_cmp_codegen
     \/ exec_calc_codegen
     \/ exec_if_codegen
     \/ exec_while_codegen
     \/ makeReturn
  /\ UNCHANGED <<body, run>>

-----------------------------------------------------------------------------
(***************************************************************************)
(* The generated function as a graph.                                      *)
(***************************************************************************)
Code(b) == blocks[b].code
Attached == {b \in 1 .. Len(blocks) : blocks[b].attached}

Terminators == {"br", "condbr", "ret"}
Targets(i) == CASE i.op = "br" -> {i.to}
                [] i.op = "condbr" -> {i.then, i.else}
                [] OTHER -> {}

Successors(b)   == UNION {Targets(Code(b)[i]) : i \in 1 .. Len(Code(b))}
Predecessors(b) == {a \in Attached : b \in Successors(a)}

(* The last instruction of a block, and no other, is a terminator. *)
Terminated(b) ==
  /\ Code(b) # <<>>
  /\ \A i \in 1 .. Len(Code(b)) : Code(b)[i].op \in Terminators <=> i = Len(Code(b))

-----------------------------------------------------------------------------
(***************************************************************************)
(* lli runs a module whose blocks are terminated; it verifies nothing else.*)
(***************************************************************************)
Load ==
  /\ phase = "written"
  /\ IF \A b \in Attached : Terminated(b)
     THEN /\ phase' = "running"
          /\ block' = 1 /\ pc' = 1
     ELSE /\ phase' = "malformed"
          /\ UNCHANGED <<block, pc>>
  /\ UNCHANGED <<body, gen, prev, regs, mem, out>>

instr == Code(block)[pc]
here  == <<block, pc>>

Assigned(v) == v.const \/ v.place \in DOMAIN regs
Value(v) == IF v.const THEN Wrap(v.n) ELSE regs[v.place]

(* The operands the current instruction reads. *)
Operands(i) ==
  CASE i.op \in {"store", "print", "ret"} -> {i.arg}
    [] i.op \in {"add", "slt", "eq"} -> {i.lhs, i.rhs}
    [] i.op = "condbr" -> {i.cond}
    [] i.op = "phi" -> {f[2] : f \in {g \in i.from : g[1] = prev}}
    [] OTHER -> {}

Result(i) ==
  CASE i.op = "load" -> mem[i.var]
    [] i.op = "add"  -> Wrap(Value(i.lhs) + Value(i.rhs))
    [] i.op = "slt"  -> Bit(Signed(Value(i.lhs)) < Signed(Value(i.rhs)))
    [] i.op = "eq"   -> Bit(Value(i.lhs) = Value(i.rhs))
    [] i.op = "phi"  -> Value(CHOOSE v \in Operands(i) : TRUE)
    [] OTHER -> 0

Ready == phase = "running" /\ \A v \in Operands(instr) : Assigned(v)

Assign(n) ==
  regs' = [place \in DOMAIN regs \cup {here} |-> IF place = here THEN n ELSE regs[place]]

RunValue ==
  /\ Ready
  /\ instr.op \in {"load", "add", "slt", "eq", "phi"}
  /\ Assign(Result(instr))
  /\ pc' = pc + 1
  /\ UNCHANGED <<phase, block, prev, mem, out>>

RunStore ==
  /\ Ready
  /\ instr.op = "store"
  /\ mem' = [mem EXCEPT ![instr.var] = Value(instr.arg)]
  /\ pc' = pc + 1
  /\ UNCHANGED <<phase, block, prev, regs, out>>

(* printf returns the number of characters of "value = <n>\n", n one digit. *)
PrintfResult(n) == Wrap(IF Signed(n) < 0 THEN 11 ELSE 10)

RunPrint ==
  /\ Ready
  /\ instr.op = "print"
  /\ Len(out) < MaxOut
  /\ out' = Append(out, Value(instr.arg))
  /\ Assign(PrintfResult(Value(instr.arg)))
  /\ pc' = pc + 1
  /\ UNCHANGED <<phase, block, prev, mem>>

RunBranch ==
  /\ Ready
  /\ instr.op \in {"br", "condbr"}
  /\ block' = IF instr.op = "br" THEN instr.to
              ELSE IF Value(instr.cond) = 1 THEN instr.then ELSE instr.else
  /\ pc' = 1
  /\ prev' = block
  /\ UNCHANGED <<phase, regs, mem, out>>

RunReturn ==
  /\ Ready
  /\ instr.op = "ret"
  /\ phase' = "exited"
  /\ UNCHANGED run

(* A register nothing has assigned is read: anything may happen. *)
RunStuck ==
  /\ phase = "running"
  /\ ~Ready
  /\ phase' = "stuck"
  /\ UNCHANGED run

Run ==
  /\ RunValue \/ RunStore \/ RunPrint \/ RunBranch \/ RunReturn \/ RunStuck
  /\ UNCHANGED <<body, gen>>

Next == Generate \/ Load \/ Run

Spec == Init /\ [][Next]_all

(* The compiler and lli are sequential and run until they stop. *)
FairSpec == Spec /\ WF_all(Next)

-----------------------------------------------------------------------------
Values == [ty : Integer \cup {"double"}, const : BOOLEAN, n : Int, place : Nat \X Nat]

(* Shape of the state. *)
TypeOK ==
  /\ phase \in {"codegen", "malformed", "written", "running", "exited", "stuck"}
  /\ ret \in Values
  /\ \A c \in 1 .. Len(calls) :
       /\ calls[c].stage \in 1 .. 4
       /\ calls[c].kept \in Values
       /\ calls[c].at \in Seq(1 .. Len(blocks))
  /\ \A b \in 1 .. Len(blocks) : blocks[b].attached \in BOOLEAN
  /\ ins \in Attached
  /\ block \in {0} \cup Attached
  /\ prev \in {0} \cup Attached
  /\ \A place \in DOMAIN regs : regs[place] \in 0 .. Modulus - 1
  /\ mem \in [Var -> 0 .. Modulus - 1]
  /\ Len(out) <= MaxOut

Generated == phase \in {"written", "running", "exited", "stuck"}

(***************************************************************************)
(* Every phi of a finished function names exactly the blocks control can   *)
(* come from, each once: arms that contain further branches end in another *)
(* block than they began in, which is why exec_if_codegen reads the        *)
(* insertion point again before it adds the phi.                           *)
(***************************************************************************)
PhiMatchesPredecessors ==
  Generated =>
    \A b \in Attached : \A i \in 1 .. Len(Code(b)) :
      Code(b)[i].op = "phi"
        => /\ {f[1] : f \in Code(b)[i].from} = Predecessors(b)
           /\ Cardinality(Code(b)[i].from) = Cardinality(Predecessors(b))

(***************************************************************************)
(* A finished function has no block left out of it and branches to no such *)
(* block; and every block can be reached from the entry: whatever set of   *)
(* other blocks one takes, some branch leads into it.                      *)
(***************************************************************************)
BlocksConnected ==
  Generated =>
    /\ Attached = 1 .. Len(blocks)
    /\ \A b \in Attached : Successors(b) \subseteq Attached
    /\ \A S \in SUBSET (2 .. Len(blocks)) :
         S # {} => \E b \in Attached \ S : Successors(b) \cap S # {}
=============================================================================

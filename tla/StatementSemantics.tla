------------------------- MODULE StatementSemantics -------------------------
(***************************************************************************)
(* What a function body means, by structural recursion on its AST, and     *)
(* what can be said of a body before any code is generated for it; and     *)
(* what the code of ControlFlow has to do with that.                       *)
(***************************************************************************)
EXTENDS ControlFlow, SequencesExt

CONSTANT Fuel     \* bound: rounds of all loops together that are evaluated

Children(t) ==
  CASE t.op \in {"VALUEDATA", "GET_VAR"} -> <<>>
    [] t.op \in {"SET_VAR", "PRINTDATA"} -> <<t.left>>
    [] t.op \in {"ADD", "CMP_SMALLER", "SEQ"} -> <<t.left, t.right>>
    [] t.op = "IF_STMT" -> <<t.condition, t.left, t.right>>
    [] OTHER -> <<t.condition, t.left>>

RECURSIVE Subtrees(_)
Subtrees(t) ==
  {t} \cup UNION {Subtrees(Children(t)[i]) : i \in 1 .. Len(Children(t))}

-----------------------------------------------------------------------------
(***************************************************************************)
(* The state of an evaluation: variables, output, the value of the node    *)
(* evaluated last, and the rounds left.  It stops when they run out.       *)
(***************************************************************************)
Exhausted(s) == s.fuel = 0

RECURSIVE Eval(_, _)
Eval(t, s) ==
  IF Exhausted(s) THEN s ELSE
  CASE t.op = "VALUEDATA" -> [s EXCEPT !.val = Wrap(t.val)]
    [] t.op = "GET_VAR"   -> [s EXCEPT !.val = s.mem[t.sym]]
    [] t.op = "SET_VAR"   ->
         LET r == Eval(t.left, s) IN
         IF Exhausted(r) THEN r ELSE [r EXCEPT !.mem[t.sym] = r.val]
    [] t.op = "PRINTDATA" ->
         LET r == Eval(t.left, s) IN
         IF Exhausted(r) THEN r
         ELSE [r EXCEPT !.out = Append(@, r.val), !.val = PrintfResult(r.val)]
    [] t.op \in {"ADD", "CMP_SMALLER"} ->
         LET a == Eval(t.left, s)
             b == Eval(t.right, a)
         IN  [b EXCEPT !.val =
                IF t.op = "ADD" THEN Wrap(a.val + b.val)
                ELSE Bit(Signed(a.val) < Signed(b.val))]
    [] t.op = "SEQ" -> Eval(t.right, Eval(t.left, s))
    [] t.op = "IF_STMT" ->
         LET c == Eval(t.condition, s) IN
         Eval(IF c.val = 1 THEN t.left ELSE t.right, c)
    [] OTHER ->                                   \* WHILE_STMT has no value
         LET c == Eval(t.condition, s) IN
         IF Exhausted(c) \/ c.val = 0 THEN c
         ELSE Eval(t, Eval(t.left, [c EXCEPT !.fuel = @ - 1]))

Meaning == Eval(body, [mem |-> [v \in Var |-> 0], out |-> <<>>, val |-> 0, fuel |-> Fuel])

-----------------------------------------------------------------------------
(***************************************************************************)
(* The LLVM type of the value the code for t leaves.                       *)
(***************************************************************************)
RECURSIVE Ty(_)
Ty(t) ==
  CASE t.op = "VALUEDATA" -> t.ty
    [] t.op \in {"GET_VAR", "PRINTDATA", "IF_STMT"} -> "i32"
    [] t.op \in {"SET_VAR", "WHILE_STMT", "ADD"} -> Ty(t.left)
    [] t.op = "CMP_SMALLER" -> "i1"
    [] OTHER -> Ty(t.right)

IllTypedNode(t) ==
  CASE t.op = "SET_VAR"     -> Ty(t.left) # "i32"
    [] t.op = "ADD"         -> Ty(t.left) # Ty(t.right)
    [] t.op = "CMP_SMALLER" -> Ty(t.left) # Ty(t.right) \/ Ty(t.left) = "double"
    [] t.op = "IF_STMT"     -> \/ Ty(t.condition) # "i1"
                               \/ Ty(t.left) # "i32" \/ Ty(t.right) # "i32"
    [] t.op = "WHILE_STMT"  -> Ty(t.condition) # "i1"
    [] OTHER                -> FALSE

IllTyped == Ty(body) # "i32" \/ \E t \in Subtrees(body) : IllTypedNode(t)

Branching(t) == \E u \in Subtrees(t) : u.op \in {"IF_STMT", "WHILE_STMT"}

(* An operand of an arithmetic operator contains an `if' or a `while'. *)
BranchingOperand ==
  \E t \in Subtrees(body) : t.op = "ADD" /\ Branching(t)

(* The value of t is that of a loop. *)
RECURSIVE LoopValue(_)
LoopValue(t) ==
  CASE t.op = "WHILE_STMT" -> TRUE
    [] t.op = "SET_VAR" -> LoopValue(t.left)
    [] t.op = "SEQ" -> LoopValue(t.right)
    [] OTHER -> FALSE

(* The nodes whose value t itself uses. *)
Used(t) ==
  CASE t.op \in {"SET_VAR", "PRINTDATA"} -> {t.left}
    [] t.op \in {"ADD", "CMP_SMALLER"} -> {t.left, t.right}
    [] t.op = "IF_STMT" -> {t.condition, t.left, t.right}
    [] t.op = "WHILE_STMT" -> {t.condition}
    [] OTHER -> {}

UsesLoopValue ==
  LoopValue(body) \/ \E t \in Subtrees(body) : \E u \in Used(t) : LoopValue(u)

-----------------------------------------------------------------------------
(***************************************************************************)
(* No module is written for exactly two kinds of body: those that give a   *)
(* value of another type than the code assumes (a bool literal as a        *)
(* condition, a branch that is not an int), and those where arithmetic has *)
(* a branch in an operand, since makeCalcOp then appends to a block that   *)
(* already ends in a terminator.                                           *)
(***************************************************************************)
MalformedIffIllFormed ==
  /\ phase = "malformed" => IllTyped \/ BranchingOperand
  /\ phase \in {"running", "exited", "stuck"} => ~IllTyped /\ ~BranchingOperand

(***************************************************************************)
(* Every value is assigned on every path to its use, a phi using a value   *)
(* at the end of the block it comes from, provided the body never uses the *)
(* value of a loop: that is a register of the loop's body, which a loop of *)
(* no rounds does not assign (exec_while_codegen returns LoopV).           *)
(***************************************************************************)
Uses(b, i) ==
  IF Code(b)[i].op = "phi"
  THEN {<<f[1], Len(Code(f[1])), f[2]>> : f \in Code(b)[i].from}
  ELSE {<<b, i, v>> : v \in Operands(Code(b)[i])}

(* The blocks that control reaches from the entry without entering some. *)
Reachable(without) ==
  FoldSet(LAMBDA n, seen : seen \cup UNION {Successors(b) \ without : b \in seen},
          {1} \ without, 1 .. Len(blocks))

Defined(use) ==
  LET place == use[3].place IN
  \/ use[3].const
  \/ place[1] = use[1] /\ place[2] < use[2]
  \/ place[1] # use[1] /\ use[1] \notin Reachable({place[1]})

UsesDominated ==
  (phase = "written" /\ ~UsesLoopValue /\ ~BranchingOperand) =>
    \A b \in Attached : \A i \in 1 .. Len(Code(b)) :
      \A use \in Uses(b, i) : Defined(use)

(***************************************************************************)
(* The blocks do what the body says: while they run, what they have        *)
(* printed is the beginning of what the body prints; when they return, the *)
(* output, the variables and the result are the body's.  They never read a *)
(* register that has no value.                                             *)
(***************************************************************************)
RunsLikeTheBody ==
  (phase \in {"running", "exited", "stuck"} /\ ~UsesLoopValue) =>
    /\ phase # "stuck"
    /\ IsPrefix(out, Meaning.out) \/ Exhausted(Meaning)
    /\ phase = "exited" =>
         /\ ~Exhausted(Meaning)
         /\ out = Meaning.out
         /\ mem = Meaning.mem
         /\ Value(ret) = Meaning.val

(* A body that comes to an end comes to an end when it runs. *)
Ends == ~Exhausted(Meaning) /\ Len(Meaning.out) <= MaxOut

ReachesTheEnd ==
  (phase = "running" /\ ~UsesLoopValue /\ Ends) ~> (phase = "exited")
=============================================================================

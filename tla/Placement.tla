----------------------------- MODULE Placement -----------------------------
(***************************************************************************)
(* What the text of a program says about where its instructions go, and    *)
(* what Insertion makes of it.                                             *)
(***************************************************************************)
EXTENDS Insertion

RECURSIVE Definitions(_)
Definitions(stmts) ==
  FoldLeft(LAMBDA ds, s : IF Defines(s) THEN ds \o Definitions(s.body) \o <<s>> ELSE ds,
           <<>>, stmts)

Names(stmts) == {Definitions(stmts)[i].sym : i \in 1 .. Len(Definitions(stmts))}

(* The last definition of a name to be closed in the text gives its body. *)
TheBody(name) ==
  Definitions(program)[SelectLastInSeq(Definitions(program), LAMBDA d : d.sym = name)].body

Entered(stmts) == {stmts[i].sym : i \in {j \in 1 .. Len(stmts) : Defines(stmts[j])}}

(* The names whose definitions are met from the top level on. *)
Met ==
  LET names == Names(program) IN
  {a \in names : \A S \in SUBSET names :
     Entered(program) \subseteq S /\ (\A b \in S : Entered(TheBody(b)) \subseteq S) => a \in S}

Cyclic == \E S \in SUBSET Met \ {{}} : \A a \in S : Entered(TheBody(a)) \cap S # {}

-----------------------------------------------------------------------------
(***************************************************************************)
(* A program without nested definitions, as its statements in the order    *)
(* they are compiled: [op, sym, val, home, own].  The home is the number   *)
(* of the definition the statement belongs to, or of the last one before   *)
(* it at the top level (0: none), `own' tells which.                       *)
(***************************************************************************)
Flat ==
  LET Defs(i) == {j \in 1 .. i : Defines(program[j])}
      At(s, i, own) == [op |-> s.op, sym |-> s.sym, val |-> s.val,
                        home |-> Cardinality(Defs(i)), own |-> own]
      Of(i) == IF Defines(program[i])
               THEN LET body == TheBody(program[i].sym)
                    IN  [j \in 1 .. Len(body) |-> At(body[j], i, TRUE)]
               ELSE <<At(program[i], i, FALSE)>>
  IN  FoldLeft(LAMBDA flat, i : flat \o Of(i), <<>>, [i \in 1 .. Len(program) |-> i])

HomeOf(i) == SelectSeq(program, Defines)[i]
IsMain(i) == i > 0 /\ HomeOf(i).op = "DEF_FUNC" /\ HomeOf(i).sym = "main"

(* The definition of its variable that was compiled last. *)
VarOf(i) ==
  LET ds == {j \in 1 .. i - 1 : Flat[j].op = "DEF_VAR" /\ Flat[j].sym = Flat[i].sym}
  IN  IF ds = {} THEN 0 ELSE CHOOSE j \in ds : \A k \in ds : k <= j

WellPlaced ==
  /\ \A a \in Met : Entered(TheBody(a)) = {}
  /\ \A i \in 1 .. Len(Flat) :
       LET s == Flat[i] IN
       /\ \/ s.own
          \/ s.home > 0 /\ s.op = "VALUEDATA"
          \/ IsMain(s.home) /\ s.op # "ADD"
       /\ s.op = "GET_VAR" => VarOf(i) # 0 /\ Flat[VarOf(i)].home = s.home

Over == {"exited", "malformed", "crash", "undefined", "unresolved", "unreadable",
         "overflow", "assert"}

(* Shape of the state. *)
InsertionTypeOK ==
  /\ phase \in {"parse", "print", "codegen", "exit", "lli", "running"} \cup Over
  /\ phase # "assert" => Len(table) <= FUNC_MAX
  /\ Len(calls) <= StackDepth
  /\ ins.fn \in 0 .. Len(code)
  /\ \A f \in 1 .. Len(code) :
       {Block(code, f)[i].id : i \in 1 .. Len(Block(code, f))} = 1 .. Len(Block(code, f))

(***************************************************************************)
(* Both walks take the body of a definition from the function table, where *)
(* the last of a name hides the others: they come to an end exactly if no  *)
(* definition can be met inside itself that way.                           *)
(***************************************************************************)
OverflowIffCyclic ==
  phase \in Over \ {"assert"} => (phase = "overflow" <=> Cyclic)

(***************************************************************************)
(* Which programs become a module: those without a definition in a body,   *)
(* and outside the functions with nothing that emits an instruction,       *)
(* except, behind main and before the next definition, what goes through   *)
(* the insertion point, which arithmetic does not; and with each variable  *)
(* used where it was last defined.                                         *)
(***************************************************************************)
WrittenIffWellPlaced ==
  ~Cyclic =>
    /\ phase \in {"malformed", "crash"} => ~WellPlaced
    /\ phase \in {"running", "exited", "undefined", "unresolved"} => WellPlaced

(***************************************************************************)
(* The statements behind main run before it: what the program prints is    *)
(* first what they print, then what main prints.  One of them that uses a  *)
(* variable of main finds it not yet allocated, and that is the only way   *)
(* for a module to fail.                                                   *)
(***************************************************************************)
(* The definition that has the name main: later ones are renamed. *)
NamedMain == SelectInSeq(SelectSeq(program, Defines), LAMBDA d : d.sym = "main")

Printed(own) ==
  LET ss == SelectSeq(Flat, LAMBDA s : s.home = NamedMain /\ s.own = own
                                       /\ s.op \in {"PRINTDATA", "ADD"})
  IN  [i \in 1 .. Len(ss) |-> ss[i].val]

UsesMainTooEarly ==
  \E i \in 1 .. Len(Flat) :
    /\ Flat[i].op = "GET_VAR" /\ ~Flat[i].own /\ Flat[i].home = NamedMain
    /\ Flat[VarOf(i)].own

WhatFollowsMainRunsFirst ==
  phase \in {"running", "exited", "undefined"} =>
    /\ IsPrefix(out, Printed(FALSE) \o Printed(TRUE))
    /\ phase = "exited" => out = Printed(FALSE) \o Printed(TRUE)
    /\ phase # "running" => (phase = "undefined" <=> UsesMainTooEarly)

(***************************************************************************)
(* If no name is defined twice, print_ast prints each statement once, in   *)
(* the order of the text and with the bodies of functions but not of       *)
(* methods.                                                                *)
(***************************************************************************)
RECURSIVE Lines(_)
Lines(stmts) ==
  FoldLeft(LAMBDA ls, s : Append(ls, [op |-> s.op, sym |-> s.sym])
                            \o (IF s.op = "DEF_FUNC" THEN Lines(s.body) ELSE <<>>),
           <<>>, stmts)

DefinedOnce == Len(Definitions(program)) = Cardinality(Names(program))

(***************************************************************************)
(* stdout has two writers.  lli finds the module at the head of the file   *)
(* exactly if what print_ast prints fits the buffer of the first, which    *)
(* the text of the program decides; and then text follows the module.      *)
(***************************************************************************)
ModuleFirstIffTextFits ==
  phase \in {"lli", "unreadable", "malformed", "running", "exited"} =>
    /\ DefinedOnce => text = Lines(program)
    /\ (Head(file) = "module" <=> Len(text) <= StdioBuffer)
    /\ phase = "unreadable" => Len(text) > StdioBuffer
    /\ Last(file) = "text"
=============================================================================

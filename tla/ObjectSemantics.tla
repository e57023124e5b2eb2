-------------------------- MODULE ObjectSemantics --------------------------
(***************************************************************************)
(* What a well-typed program of Objects does, told in terms of its text:   *)
(* an object has its class and a value for each member's name, a variable  *)
(* of a class refers to an object, an assignment shares it, and a method   *)
(* gets its receiver by reference.  There are no layouts, indices, types   *)
(* of cells or frames of memory, and every program runs.                   *)
(***************************************************************************)
EXTENDS ObjectTypes

VARIABLES program, status, things, stack, out

vars == <<program, status, things, stack, out>>

Undef == <<"undef", 0>>
Ref(t) == <<"ref", t>>

top   == stack[Len(stack)]
below == SubSeq(stack, 1, Len(stack) - 1)
Node  == program[top.fn].body[top.pc]

Init ==
  /\ WellTyped(program)
  /\ status = "compiling"
  /\ things = <<>> /\ stack = <<>> /\ out = <<>>

Activation(f, env) == [fn |-> f, pc |-> 1, acc |-> Undef, env |-> env]

Start ==
  /\ status = "compiling"
  /\ status' = "running"
  /\ \E f \in Decls(program, "DEF_FUNC") :
       program[f].sym = "main" /\ stack' = <<Activation(f, [v \in {} |-> Undef])>>
  /\ UNCHANGED <<program, things, out>>

At(op) ==
  /\ status = "running"
  /\ top.pc <= Len(program[top.fn].body)
  /\ Node.op = op
  /\ UNCHANGED <<program, status>>

Step(acc, env) ==
  Append(below, [top EXCEPT !.pc = @ + 1, !.acc = acc, !.env = env])

Bound(v, x) == [w \in DOMAIN top.env \cup {v} |-> IF w = v THEN x ELSE top.env[w]]

Literal ==
  At("VALUEDATA") /\ stack' = Step(Node.val, top.env) /\ UNCHANGED <<things, out>>

(* Members and elements have no value at first. *)
NewObject(k)  == [klass |-> k, vals |-> [m \in Members(program, k) |-> Undef]]
NewArray(num) == [klass |-> Nobody, vals |-> [i \in 0 .. num - 1 |-> Undef]]

DefVar ==
  /\ At("DEF_VAR")
  /\ LET type == Node.type
         made == IF type.kind = "KLASS" THEN <<NewObject(type.klass)>>
                 ELSE IF type.kind = "ARRAY" THEN <<NewArray(type.size)>> ELSE <<>>
     IN  /\ things' = things \o made
         /\ stack' = Step(<<"num", -1>>,
                          Bound(Node.sym, IF made = <<>> THEN Undef ELSE Ref(Len(things'))))
  /\ UNCHANGED out

NewClass ==
  /\ At("NEW_CLASS")
  /\ things' = Append(things, NewObject(Node.type.klass))
  /\ stack' = Step(Ref(Len(things')), top.env)
  /\ UNCHANGED out

GetVar ==
  At("GET_VAR") /\ stack' = Step(top.env[Node.sym], top.env) /\ UNCHANGED <<things, out>>

SetVar ==
  /\ At("SET_VAR")
  /\ stack' = Step(top.acc, Bound(Node.sym, top.acc))
  /\ UNCHANGED <<things, out>>

Get(op, name) ==
  /\ At(op)
  /\ stack' = Step(things[top.env[Node.sym][2]].vals[name], top.env)
  /\ UNCHANGED <<things, out>>

Set(op, name) ==
  /\ At(op)
  /\ things' = [things EXCEPT ![top.env[Node.sym][2]].vals[name] = top.acc]
  /\ stack' = Step(top.acc, top.env)
  /\ UNCHANGED out

GetMember  == Get("GET_MEMBER_VAR", Node.member)
SetMember  == Set("SET_MEMBER_VAR", Node.member)
GetElement == Get("GET_ARRAY_VAR", Node.index)
SetElement == Set("SET_ARRAY_VAR", Node.index)

PrintData ==
  /\ At("PRINTDATA")
  /\ out' = Append(out, top.acc)
  /\ stack' = Step(<<"count", 0>>, top.env)
  /\ UNCHANGED things

(* Only calls with one argument make sense. *)
Bindings(f, this) ==
  [v \in {ParamsOf(program[f])[j].name : j \in 1 .. Len(ParamsOf(program[f]))} |->
     IF v = program[f].def_args[1].name THEN top.acc ELSE this]

CallFunc ==
  /\ At("CALL_FUNC")
  /\ \E f \in Decls(program, "DEF_FUNC") :
       /\ program[f].sym = Node.sym
       /\ stack' = Append(Step(top.acc, top.env), Activation(f, Bindings(f, Undef)))
  /\ UNCHANGED <<things, out>>

(* The method is that of the class the variable was declared with. *)
CallMethod ==
  /\ At("CALL_METHOD")
  /\ \E f \in Decls(program, "DEF_METHOD") :
       /\ program[f].klass
            = TypeOfName(program, top.fn, top.pc, Node.reciever).klass
       /\ program[f].sym = Node.sym
       /\ stack' = Append(Step(top.acc, top.env),
                          Activation(f, Bindings(f, top.env[Node.reciever])))
  /\ UNCHANGED <<things, out>>

Return ==
  /\ status = "running"
  /\ top.pc > Len(program[top.fn].body)
  /\ IF Len(stack) = 1 THEN status' = "exited" /\ UNCHANGED stack
     ELSE /\ stack' = [below EXCEPT ![Len(below)].acc = top.acc]
          /\ UNCHANGED status
  /\ UNCHANGED <<program, things, out>>

Next ==
  \/ Start \/ Literal \/ DefVar \/ NewClass \/ GetVar \/ SetVar
  \/ GetMember \/ SetMember \/ GetElement \/ SetElement
  \/ PrintData \/ CallFunc \/ CallMethod \/ Return

Spec == Init /\ [][Next]_vars
=============================================================================

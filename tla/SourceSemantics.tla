-------------------------- MODULE SourceSemantics --------------------------
(***************************************************************************)
(* What an orderly MugiCha program does, told in terms of its text: which  *)
(* body each call runs and which object each variable holds, with no       *)
(* symbol table, module, slot or address.  Functions are called by name;   *)
(* a method is that of the class its receiver variable was declared with.  *)
(* Only orderly programs are given a meaning.                              *)
(***************************************************************************)
EXTENDS MugiProgram

CONSTANT Var

VARIABLES program, status, stack

vars == <<program, status, stack>>

Init ==
  /\ Orderly(program)
  /\ status = "compiling"
  /\ stack = <<>>

(* Call declaration i on an object (None for functions) with one argument. *)
Activation(i, this, arg) ==
  [decl |-> i, pc |-> 1,
   env |-> [v \in Var |->
              IF v = This THEN this
              ELSE IF program[i].args # <<>> /\ program[i].args[1].sym = v
                   THEN arg ELSE None]]

Start ==
  /\ status = "compiling"
  /\ status' = "running"
  /\ \E m \in MainDecls(program) : stack' = <<Activation(m, None, None)>>
  /\ UNCHANGED program

top == stack[Len(stack)]
Advanced == [stack EXCEPT ![Len(stack)].pc = @ + 1]
Body == program[top.decl].body

At(op) ==
  /\ status = "running"
  /\ top.pc <= Len(Body)
  /\ Body[top.pc].op = op
  /\ UNCHANGED <<program, status>>

(* A variable of class type starts out with a new object of that class. *)
DefVar ==
  /\ At("DEF_VAR")
  /\ stack' = [Advanced EXCEPT ![Len(stack)].env[Body[top.pc].sym] = Body[top.pc].klass]

CallFunc ==
  /\ At("CALL_FUNC")
  /\ \E c \in CallableDecls(program, Body[top.pc].sym) :
       stack' = Append(Advanced,
                  Activation(c, None, IF Body[top.pc].arg = None THEN None
                                      ELSE top.env[Body[top.pc].arg]))

CallMethod ==
  /\ At("CALL_METHOD")
  /\ LET v == Body[top.pc].reciever
         k == StaticKlass(program[top.decl], top.pc, v)
     IN  \E m \in OwnMethods(program, k, Body[top.pc].sym) :
           stack' = Append(Advanced,
                      Activation(m, IF program[m].args = <<>> THEN None
                                    ELSE top.env[v], None))

Return ==
  /\ status = "running"
  /\ top.pc > Len(Body)
  /\ IF Len(stack) = 1
     THEN status' = "exited" /\ UNCHANGED stack
     ELSE stack' = SubSeq(stack, 1, Len(stack) - 1) /\ UNCHANGED status
  /\ UNCHANGED program

Next == Start \/ DefVar \/ CallFunc \/ CallMethod \/ Return

Spec == Init /\ [][Next]_vars
=============================================================================

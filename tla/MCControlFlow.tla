--------------------------- MODULE MCControlFlow ---------------------------
(***************************************************************************)
(* Bodies that nest branches, loops and prints three deep, around the      *)
(* statements of the readme's sample: print(x) and x = x + 1 under x < 2.  *)
(***************************************************************************)
EXTENDS StatementSemantics

lit(n)       == [op |-> "VALUEDATA", ty |-> "i32", val |-> n]
real(n)      == [op |-> "VALUEDATA", ty |-> "double", val |-> n]
get(v)       == [op |-> "GET_VAR", sym |-> v]
set(v, e)    == [op |-> "SET_VAR", sym |-> v, left |-> e]
print(e)     == [op |-> "PRINTDATA", left |-> e]
add(a, b)    == [op |-> "ADD", left |-> a, right |-> b]
less(a, b)   == [op |-> "CMP_SMALLER", left |-> a, right |-> b]
seq(a, b)    == [op |-> "SEQ", left |-> a, right |-> b]
cond(c, a, b) == [op |-> "IF_STMT", condition |-> c, left |-> a, right |-> b]
loop(c, a)   == [op |-> "WHILE_STMT", condition |-> c, left |-> a]

incr  == set("x", add(get("x"), lit(1)))
show  == print(get("x"))
small == less(get("x"), lit(2))
never == less(lit(1), lit(0))
early == less(print(get("y")), get("x"))    \* a condition with an effect

Simple == {incr, show, set("y", lit(3))}

(* One statement more around those of S, tests from C. *)
Around(S, C) ==
  {cond(c, a, b) : c \in C, a \in S, b \in S}
  \cup {loop(c, a) : c \in C, a \in S}
  \cup {seq(a, b) : a \in S, b \in S}

Shallow == Simple \cup Around(Simple, {small})
Deep    == Around(Shallow, {small})

(* Expressions in which the generator meets statements or other types. *)
Odd ==
  {cond(early, incr, show), cond(never, incr, show), loop(never, incr),
   loop(lit(1), incr), cond(lit(1), incr, show), set("x", small),
   set("x", real(1)), small, real(1), add(real(1), lit(1)),
   less(real(1), real(2)), cond(small, real(1), real(2)), loop(less(get("y"), get("x")), incr),
   set("y", print(cond(small, incr, show))), print(loop(small, incr)),
   add(print(cond(small, incr, show)), get("x")),
   add(get("x"), print(loop(small, incr))), loop(small, seq(show, incr))}

MCBodies == {seq(t, get("x")) : t \in Deep} \cup Deep \cup Odd \cup Around(Odd, {small})
MCNode == MCBodies \cup UNION {Subtrees(t) : t \in Shallow \cup Odd}
MCVar == {"x", "y"}
=============================================================================

----------------------------- MODULE MCDispatch -----------------------------
(***************************************************************************)
(* Every order of up to five declarations: forward references, methods and *)
(* classes after main, redefinitions, names shared by functions and        *)
(* methods, and methods that find another method's `this'.                 *)
(***************************************************************************)
EXTENDS MCCompiler

Stock == <<classB, classA, methodB, methodA, leaky, funcF, funcM, mainA, mainB>>

(* A method call without arguments, one on a number, a call of nothing. *)
bare    == func("g", <<>>, <<var("y", "B"), send("y", None)>>)
number  == func("f", PrimArg, <<send("a", "m")>>)
nothing == func("f", <<>>, <<call("g", None)>>)
foreign == func("f", PrimArg, <<call("m", "y")>>)
cyclic  == class("C", "C")

Faulty == <<classB, methodB, bare, number, nothing, foreign, cyclic, mainB>>

(* A third class, for which the array has no row. *)
third == method("C", "m", PrimArg, <<>>)
Crowd == <<classB, classA, class("C", None), third, mainB>>

(* A method that is called main: lli starts it, and nothing fills the array. *)
entry == method("A", Main, PrimArg, <<var("y", "B"), send("y", "m")>>)
EntryStock == <<classA, classB, methodB, entry, mainB>>

MCPrograms ==
  {p \in Arrangements(Stock, 5) : HasMain(p) \/ Len(p) <= 2} \cup Arrangements(Faulty, 4)
    \cup Arrangements(Crowd, 5) \cup Arrangements(EntryStock, 5)
=============================================================================

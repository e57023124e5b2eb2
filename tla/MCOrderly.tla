----------------------------- MODULE MCOrderly ------------------------------
(***************************************************************************)
(* Orderly programs of up to seven declarations: a method of each class, one *)
(* calling on its own `this' what the other calls on a variable, functions *)
(* that pass objects on, and locals that shadow names of other functions.  *)
(***************************************************************************)
EXTENDS MCCompiler

mB   == method("B", "m", <<var("k", "B")>>, <<call("g", None)>>)
nA   == method("A", "n", PrimArg,
               <<var("y", "B"), send("y", "m"), call("f", "y")>>)
fun  == func("f", <<var("k", "B")>>, <<send("k", "m")>>)
gun  == func("g", <<>>, <<>>)
gunY == func("g", <<>>, <<var("y", "B"), var("k", Prim)>>)
mAll == func(Main, <<>>, <<var("y", "A"), send("y", "n"), call("f", "y"),
                           var("y", "B"), send("y", "m")>>)
mOne == func(Main, <<>>, <<var("y", "A"), send("y", "n"), call("g", None)>>)

(* Six declarations in any order, after the class all of them need. *)
Stock(g, m) == <<classA, mB, nA, fun, g, m>>

MCPrograms ==
  {p \in {<<classB>> \o q : q \in Arrangements(Stock(gun, mAll), 6)
                                   \cup Arrangements(Stock(gunY, mOne), 6)} :
     HasMain(p) /\ Orderly(p) /\ Fits(p)}
=============================================================================

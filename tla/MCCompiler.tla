----------------------------- MODULE MCCompiler -----------------------------
(***************************************************************************)
(* Programs assembled from a stock of declarations, modelled on            *)
(* test/polymorphism.mugi: a class B, a subclass A (whose name sorts       *)
(* first), a method m of each, a function f that calls m through a B, and  *)
(* mains that call f or m.                                                 *)
(***************************************************************************)
EXTENDS Compiler

var(v, k)    == [op |-> "DEF_VAR", sym |-> v, klass |-> k]
call(f, a)   == [op |-> "CALL_FUNC", sym |-> f, arg |-> a]
send(v, m)   == [op |-> "CALL_METHOD", reciever |-> v, sym |-> m]
class(k, s)  == [op |-> "DEF_CLASS", sym |-> k, super |-> s]
func(f, a, b)      == [op |-> "DEF_FUNC", sym |-> f, args |-> a, body |-> b]
method(k, m, a, b) == [op |-> "DEF_METHOD", reciever |-> k, sym |-> m,
                       args |-> a, body |-> b]

MCKlass == {"A", "B", "C"}
MCRank  == [A |-> 0, B |-> 1, C |-> 2]
MCVar   == {"k", "y", "a", This}
MCName  == MCKlass \cup MCVar \cup {"f", "g", "m", "n", Main}

PrimArg == <<var("a", Prim)>>

classB  == class("B", None)
classA  == class("A", "B")
methodB == method("B", "m", PrimArg, <<>>)
methodA == method("A", "m", PrimArg, <<call("f", This)>>)
leaky   == method("B", "m", <<>>, <<send(This, "m")>>)
funcF   == func("f", <<var("k", "B")>>, <<send("k", "m")>>)
funcG   == func("g", <<>>, <<>>)
funcM   == func("m", PrimArg, <<>>)
mainA   == func(Main, <<>>, <<var("y", "A"), call("f", "y")>>)
mainB   == func(Main, <<>>, <<var("y", "B"), send("y", "m"), call("m", None)>>)

(* Sequences of at most n declarations of a stock, each used at most once. *)
Arrangements(stock, n) ==
  {[i \in DOMAIN s |-> stock[s[i]]] :
     s \in UNION {{t \in [1 .. l -> 1 .. Len(stock)] :
                     \A i, j \in 1 .. l : t[i] = t[j] => i = j} : l \in 1 .. n}}

HasMain(p) == MainDecls(p) # {}
=============================================================================

---------------------------- MODULE MugiProgram ----------------------------
(***************************************************************************)
(* MugiCha programs at the level of declarations, and what can be read off *)
(* their text alone.                                                       *)
(*                                                                         *)
(* A program is the sequence of its top-level declarations, records with   *)
(* the fields of the AST nodes the grammar (src/mugicha.y) builds:         *)
(*   [op |-> "DEF_CLASS",  sym, super]                                     *)
(*   [op |-> "DEF_FUNC",   sym, args, body]                                *)
(*   [op |-> "DEF_METHOD", reciever, sym, args, body]                      *)
(* args is a sequence of [op |-> "DEF_VAR", sym, klass], and body one of   *)
(*   [op |-> "DEF_VAR", sym, klass]          var y TestX                   *)
(*   [op |-> "CALL_FUNC", sym, arg]          testfunc(y)  /  testfunc()    *)
(*   [op |-> "CALL_METHOD", reciever, sym]   k.test(100.0)                 *)
(* klass is the name of a class, or Prim for the built-in types.  The      *)
(* result type is int and the argument of a method call is a number:       *)
(* neither decides which code runs.                                        *)
(***************************************************************************)
EXTENDS Naturals, Sequences, FiniteSets

CONSTANTS
  Klass,        \* the names classes are declared with
  KlassRank     \* the order std::map<std::string, ...> keeps them in

ASSUME RankAssumption ==
  /\ KlassRank \in [Klass -> Nat]
  /\ \A j, k \in Klass : KlassRank[j] = KlassRank[k] => j = k

None == "none"      \* an absent argument, superclass or value
Prim == "prim"      \* int, double, bool and string
This == "this"
Main == "main"

Callables == {"DEF_FUNC", "DEF_METHOD"}

(* The statements that are reduced while declaration d is parsed. *)
Nodes(d) == IF d.op = "DEF_CLASS" THEN <<d>> ELSE d.args \o d.body \o <<d>>

(* Positions of the declarations of p that satisfy one criterion each.     *)
DeclsOf(p, op)      == {i \in 1 .. Len(p) : p[i].op = op}
ClassDecls(p, k)    == {i \in DeclsOf(p, "DEF_CLASS") : p[i].sym = k}
CallableDecls(p, n) == {i \in 1 .. Len(p) : p[i].op \in Callables /\ p[i].sym = n}
MethodDecls(p, k)   == {i \in DeclsOf(p, "DEF_METHOD") : p[i].reciever = k}
MainDecls(p)        == {i \in DeclsOf(p, "DEF_FUNC") : p[i].sym = Main}

Least(S)    == CHOOSE i \in S : \A j \in S : i <= j
Greatest(S) == CHOOSE i \in S : \A j \in S : j <= i

(***************************************************************************)
(* Lexical typing.  Inside callable d, statement s sees the receiver, the  *)
(* arguments and the variables defined before it, innermost last; a name   *)
(* without a definition there has no class.                                *)
(***************************************************************************)
LocalDefs(d, s, v) == {i \in 1 .. s - 1 : d.body[i].op = "DEF_VAR" /\ d.body[i].sym = v}
Formal(args, v)    == {i \in 1 .. Len(args) : args[i].sym = v}

StaticKlass(d, s, v) ==
  IF LocalDefs(d, s, v) # {} THEN d.body[Greatest(LocalDefs(d, s, v))].klass
  ELSE IF Formal(d.args, v) # {} THEN d.args[Greatest(Formal(d.args, v))].klass
  ELSE IF v = This /\ d.op = "DEF_METHOD" /\ d.args # <<>> THEN d.reciever
  ELSE None

-----------------------------------------------------------------------------
(***************************************************************************)
(* Orderly programs are those the compiler is meant for: every name means  *)
(* one thing, a class has at most one method, and everything is declared   *)
(* before it is used, main after all methods.  The arguments of a callable *)
(* have different names, and `this' is neither one of them nor passed on   *)
(* (ast.c may not have a symbol for it then).                              *)
(***************************************************************************)
ClassBefore(p, i, k) == k = Prim \/ \E c \in ClassDecls(p, k) : c < i

OrderlyClass(p, i) ==
  /\ ClassDecls(p, p[i].sym) = {i}
  /\ p[i].super # None => ClassBefore(p, i, p[i].super)

(* The method a call k.n() means, in the language: k's own method n. *)
OwnMethods(p, k, n) == {m \in MethodDecls(p, k) : p[m].sym = n}

OrderlyStatement(p, i, s) ==
  LET n == p[i].body[s] IN
  CASE n.op = "DEF_VAR"   -> ClassBefore(p, i, n.klass)
    [] n.op = "CALL_FUNC" ->
         /\ \E c \in CallableDecls(p, n.sym) : c <= i /\ p[c].op = "DEF_FUNC"
         /\ n.arg # None => n.arg # This /\ StaticKlass(p[i], s, n.arg) # None
    [] OTHER ->
         LET k == StaticKlass(p[i], s, n.reciever) IN
         /\ OwnMethods(p, k, n.sym) # {}
         /\ \A c \in DeclsOf(p, "DEF_CLASS") :
              KlassRank[p[c].sym] < KlassRank[k] => c < i

OrderlyCallable(p, i) ==
  /\ CallableDecls(p, p[i].sym) = {i}
  /\ \A a \in 1 .. Len(p[i].args) :
       /\ ClassBefore(p, i, p[i].args[a].klass)
       /\ p[i].args[a].sym # This
       /\ Formal(p[i].args, p[i].args[a].sym) = {a}
  /\ \A s \in 1 .. Len(p[i].body) : OrderlyStatement(p, i, s)
  /\ p[i].op = "DEF_METHOD" =>
       /\ MethodDecls(p, p[i].reciever) = {i}
       /\ ClassBefore(p, i, p[i].reciever)
       /\ \A m \in MainDecls(p) : i < m

Orderly(p) ==
  /\ Cardinality(MainDecls(p)) = 1
  /\ \A i \in 1 .. Len(p) :
       IF p[i].op = "DEF_CLASS" THEN OrderlyClass(p, i) ELSE OrderlyCallable(p, i)
=============================================================================

---------------------------- MODULE MCInsertion ----------------------------
(***************************************************************************)
(* Top levels of up to four parts around a main: statements of every kind  *)
(* before, between and after functions, methods and further mains; and     *)
(* definitions nested two deep under names that may repeat, so that        *)
(* lookups of bodies form chains and cycles.                               *)
(***************************************************************************)
EXTENDS Placement

stmt(op, sym, val, body) == [op |-> op, sym |-> sym, val |-> val, body |-> body]
value         == stmt("VALUEDATA", "", 0, <<>>)
print(k)      == stmt("PRINTDATA", "", k, <<>>)
add(k)        == stmt("ADD", "", k, <<>>)
var           == stmt("DEF_VAR", "v", 0, <<>>)
get           == stmt("GET_VAR", "v", 0, <<>>)
func(f, b)    == stmt("DEF_FUNC", f, 0, b)
method(f, b)  == stmt("DEF_METHOD", f, 0, b)

Bodies == {<<print(1), value>>, <<add(2)>>, <<var, get>>, <<get>>}
Defs   == {func("f", <<value>>), func("f", <<var, get>>), method("m", <<value>>),
           method("main", <<print(3)>>), func("main", <<print(4), value>>)}
Loose  == {value, print(5), add(6), var, get}

TopLevels ==
  {a \o <<func("main", b)>> \o c \o d :
     a \in {<<>>} \cup {<<s>> : s \in Loose \cup Defs},
     b \in Bodies,
     c \in {<<>>} \cup {<<s>> : s \in Loose \cup Defs},
     d \in {<<>>} \cup {<<s>> : s \in {value, print(8), add(6), get} \cup Defs}}

(* Bodies that define: something named f, g or main, itself nested or not. *)
Name == {"f", "g", "main"}
Kinds == {func("f", <<>>), method("f", <<>>)}
Inner == {<<[k EXCEPT !.sym = s, !.body = <<value>>]>> : k \in Kinds, s \in Name}
Middle == {<<value>>, <<print(7)>>} \cup Inner
            \cup {<<func(s, <<func(t, <<value>>)>>), value>> : s \in Name, t \in Name}

NestedPrograms ==
  {<<[k EXCEPT !.sym = s, !.body = b], func(t, c)>> :
     k \in Kinds, s \in Name, b \in Middle, t \in {"g", "main"},
     c \in Middle \ {<<print(7)>>}}

MCPrograms == TopLevels \cup NestedPrograms
=============================================================================

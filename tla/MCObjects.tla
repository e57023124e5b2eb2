----------------------------- MODULE MCObjects -----------------------------
(***************************************************************************)
(* A class, its subclass and a stranger that sorts between them, a         *)
(* function that returns an object, two methods, and mains made of three   *)
(* fragments: definitions, assignments that share or confuse objects,      *)
(* members of one's own, inherited and missing, elements in and out of     *)
(* range, calls.  Some programs declare things too late.  Others call      *)
(* methods from functions with classes declared before, between and after, *)
(* in every order, so that rows of the method array move.                  *)
(***************************************************************************)
EXTENDS ObjectCorrectness

IntType == Basic("INT")
Array(size) == [kind |-> "ARRAY", klass |-> None, elem_kind |-> "INT", size |-> size]

fieldVar(m, k) == [name |-> m, kind |-> k]
class(k, s, v) == [op |-> "DEF_CLASS", sym |-> k, super |-> s, def_vars |-> v]
func(f, args, type, body) ==
  [op |-> "DEF_FUNC", sym |-> f, def_args |-> args, type |-> type, body |-> body]
method(k, f, args, type, body) ==
  [op |-> "DEF_METHOD", klass |-> k, sym |-> f, def_args |-> args, type |-> type,
   body |-> body]
param(v, type) == [name |-> v, type |-> type]

val(i)       == [op |-> "VALUEDATA", type |-> IntType, val |-> Number(i)]
dbl(i)       == [op |-> "VALUEDATA", type |-> Basic("DOUBLE"), val |-> Number(i)]
str          == [op |-> "VALUEDATA", type |-> Basic("STRING"), val |-> String]
def(v, type) == [op |-> "DEF_VAR", sym |-> v, type |-> type]
new(k)       == [op |-> "NEW_CLASS", type |-> KlassType(k)]
get(v)       == [op |-> "GET_VAR", sym |-> v]
set(v)       == [op |-> "SET_VAR", sym |-> v]
getm(v, m)   == [op |-> "GET_MEMBER_VAR", sym |-> v, member |-> m]
setm(v, m)   == [op |-> "SET_MEMBER_VAR", sym |-> v, member |-> m]
geta(v, i)   == [op |-> "GET_ARRAY_VAR", sym |-> v, index |-> i]
seta(v, i)   == [op |-> "SET_ARRAY_VAR", sym |-> v, index |-> i]
call(f, arg) == [op |-> "CALL_FUNC", sym |-> f, set_args |-> arg]
send(v, f)   == [op |-> "CALL_METHOD", reciever |-> v, sym |-> f]
print        == [op |-> "PRINTDATA"]

A == class("A", None, <<fieldVar("v", "INT"), fieldVar("w", "DOUBLE")>>)
B == class("B", "A", <<fieldVar("x", "INT"), fieldVar("v", "DOUBLE")>>)
C == class("AB", None, <<fieldVar("v", "INT"), fieldVar("s", "STRING")>>)

make == func("make", <<>>, KlassType("A"),
             <<def("b", KlassType("B")), val(7), setm("b", "x"), val(3), setm("b", "v"),
               get("b")>>)
bump == method("A", "bump", <<param("k", IntType)>>, IntType,
               <<getm("this", "v"), get("k"), setm("this", "v")>>)
dump == method("B", "dump", <<param("o", KlassType("A"))>>, IntType,
               <<getm("this", "x"), print, getm("o", "v"), setm("this", "x")>>)
early == method("A", "bump", <<param("k", IntType)>>, IntType,
                <<get("k"), setm("this", "v")>>)
mute == method("A", "bump", <<>>, IntType, <<getm("this", "v")>>)

Fragments ==
  {<<def("a", KlassType("A"))>>,
   <<def("b", KlassType("B"))>>,
   <<def("x", Array(3))>>,
   <<def("k", IntType), val(1), set("k")>>,
   <<get("b"), set("a")>>,
   <<get("a"), set("b")>>,
   <<get("a"), set("x"), val(8), seta("x", 0)>>,
   <<val(5), setm("a", "v"), getm("b", "v"), print>>,
   <<dbl(5), setm("a", "w"), getm("b", "w"), print>>,
   <<getm("b", "x"), print>>,
   <<call("make", FALSE), set("a"), getm("a", "v"), print>>,
   <<new("B"), set("a")>>,
   <<val(9), seta("x", 2), geta("x", 1), print>>,
   <<val(4), send("a", "bump"), print>>,
   <<get("a"), send("b", "dump"), print>>}

Preludes ==
  {<<>>, <<def("a", KlassType("A")), def("b", KlassType("B"))>>,
   <<def("a", KlassType("A")), def("b", KlassType("B")), def("x", Array(3))>>}

main(body) == func("main", <<>>, IntType, body)
Mains == {main(a \o b \o c \o <<val(0)>>) : a \in Preludes, b, c \in Fragments}

(* Mains with more of the same, and what is wrong with only some of them. *)
OtherMains ==
  {main(a \o b \o <<val(0)>>) :
     a \in Preludes,
     b \in {<<val(1), setm("a", "x")>>, <<val(1), geta("x", 3)>>, <<geta("x", NotConstant)>>,
            <<def("y", Array(NotConstant))>>, <<val(1), set("z")>>, <<get("a"), print>>,
            <<str, print>>, <<dbl(1), setm("a", "v")>>, <<call("f", FALSE)>>,
            <<val(1), send("c", "bump")>>, <<val(1), seta("a", 0)>>, <<getm("x", "v")>>,
            <<new("INT")>>, <<def("c", KlassType("AB")), get("c"), set("b"), getm("b", "x")>>,
            <<def("c", KlassType("AB")), val(1), send("c", "bump")>>,
            <<val(1), send("b", "bump")>>, <<val(1), send("a", "dump")>>,
            <<getm("a", "z")>>, <<dbl(1), setm("b", "v")>>, <<call("make", FALSE), print>>,
            <<get("a"), call("give", TRUE), val(3), call("give", TRUE)>>,
            <<get("b"), call("give", TRUE), getm("a", "v"), print, call("give", FALSE)>>}}

give == func("give", <<param("o", KlassType("A"))>>, IntType, <<val(2), setm("o", "v")>>)
local == func("local", <<>>, Basic("STRING"), <<def("x", Array(3)), get("x")>>)
array == func("array", <<param("x", Array(3))>>, IntType, <<val(0)>>)
returns == func("wrong", <<>>, IntType, <<dbl(1)>>)

One == main(<<def("a", KlassType("A")), val(1), send("a", "bump")>>)
Two == main(<<def("x", Array(3)), call("local", FALSE), set("x"), geta("x", 0), print>>)

(***************************************************************************)
(* A class with a method, a function that calls it, a class with another   *)
(* method that takes what it gets for a class of its own, and main.        *)
(***************************************************************************)
B0 == class("B", None, <<fieldVar("x", "INT")>>)
D0 == class("D", None, <<fieldVar("v", "INT")>>)
show == method("B", "show", <<param("k", IntType)>>, IntType,
               <<getm("this", "x"), print, get("k"), setm("this", "x")>>)
halve == method("A", "halve", <<param("k", IntType)>>, IntType,
                <<dbl(2), setm("this", "w"), val(0)>>)
plain(k) == method(k, "plain", <<>>, IntType, <<val(0)>>)
use == func("use", <<param("o", KlassType("B"))>>, IntType,
            <<val(6), setm("o", "x"), val(7), send("o", "show")>>)
mix == main(<<def("b", KlassType("B")), get("b"), call("use", TRUE), print, val(3),
              send("b", "show"), print>>)
ask == main(<<def("d", KlassType("D")), val(3), send("d", "plain"), print>>)

Moves ==
  {<<B0, show>> \o rest \o last :
     rest \in {<<A, use>>, <<use, A>>, <<C, use>>, <<use, C>>, <<D0, use>>, <<use, D0>>,
              <<A, halve, use>>, <<A, use, halve>>, <<use, A, halve>>, <<use, A, C>>,
              <<A, use, C>>, <<C, use, A, halve>>, <<use, D0, plain("D")>>},
     last \in {<<mix>>, <<mix, plain("C"), class("C", None, <<>>)>>,
              <<main(<<val(0)>>)>>}}

(* Methods before their class, or of none; more classes than rows. *)
Receivers ==
  {<<plain("A"), main(<<val(0)>>)>>, <<plain("A"), A, main(<<val(0)>>)>>,
   <<A, plain("A"), main(<<val(0)>>)>>, <<A, plain("A"), One>>,
   <<D0, plain("D"), ask>>, <<D0, plain("D"), ask, A>>, <<D0, ask, plain("D")>>,
   <<A, B, C, D0, plain("D"), ask>>, <<A, B, C, D0, plain("D"), main(<<val(0)>>)>>,
   <<A, B, C, bump, D0, main(<<def("d", KlassType("D")), def("a", KlassType("A")),
                               val(1), send("a", "bump")>>)>>,
   <<A, B, D0, plain("D"), ask>>, <<B0, D0, plain("D"), ask>>,
   <<D0, plain("D"), D0, ask>>, <<D0, plain("D"), A, B, ask>>}

MCObjectPrograms ==
  {<<A, B, C, make, bump, dump, m>> : m \in Mains}
    \cup {<<A, B, C, make, bump, dump, give, m>> : m \in OtherMains}
    \cup {<<A, B, make, C, bump, dump, m>> : m \in OtherMains}
    \cup {<<A, early, One>>, <<A, mute, One>>,
          <<A, local, Two>>, <<A, array, One>>, <<A, returns, bump, One>>,
          <<bump, A, One>>, <<A, One, bump>>, <<A, bump>>, <<One, A, bump>>,
          <<func("A", <<>>, IntType, <<val(0)>>), make, A, B>>,
          <<A, class("B", None, <<fieldVar("c", "KLASS")>>), One>>}
    \cup Moves \cup Receivers

MCKlass  == {"A", "AB", "B", "C", "D"}
MCRank   == [k \in MCKlass |-> CASE k = "A" -> 0 [] k = "AB" -> 1 [] k = "B" -> 2
                                 [] k = "C" -> 3 [] OTHER -> 4]
MCMember == {"v", "w", "x", "s", "z", "c"}
MCDeclaration == UNION {{p[i] : i \in 1 .. Len(p)} : p \in MCObjectPrograms}
=============================================================================

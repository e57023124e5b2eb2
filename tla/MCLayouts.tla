----------------------------- MODULE MCLayouts -----------------------------
(***************************************************************************)
(* Every sequence of up to four declarations: a class and its subclasses   *)
(* in any order, a class declared twice, one that extends itself or a      *)
(* later one, a field declared again, a field of a class's type, and       *)
(* functions that bear the name of a class.                                *)
(***************************************************************************)
EXTENDS Layouts

field(m, k) == [name |-> m, kind |-> k]
class(n, s, v) == [op |-> "DEF_CLASS", sym |-> n, super |-> s, def_vars |-> v]
function(n) == [op |-> "DEF_FUNC", sym |-> n]

MCDeclaration ==
  {class("A", None, <<field("v", "INT"), field("w", "DOUBLE")>>),
   class("A", None, <<field("v", "DOUBLE")>>),
   class("A", "C", <<field("w", "STRING")>>),
   class("B", "A", <<field("x", "INT")>>),
   class("B", "B", <<>>),
   class("B", "A", <<field("v", "DOUBLE")>>),
   class("C", "B", <<field("u", "BOOLTYPE")>>),
   class("C", None, <<field("u", "KLASS")>>),
   class("C", None, <<>>),
   function("A"), function("B")}

MCPrograms == UNION {[1 .. n -> MCDeclaration] : n \in 1 .. 4}
MCKlass    == {"A", "B", "C"}
MCRank     == [k \in MCKlass |-> CASE k = "A" -> 1 [] k = "B" -> 0 [] OTHER -> 2]
MCMember   == {"u", "v", "w", "x"}
=============================================================================

---------------------------- MODULE ObjectTypes ----------------------------
(***************************************************************************)
(* Which programs of Objects make sense: a type discipline for MugiCha,    *)
(* which the compiler does not enforce.  It reads the text only.           *)
(***************************************************************************)
EXTENDS Integers, Sequences

Nobody == "none"
Basic(kind) == [kind |-> kind, klass |-> Nobody, elem_kind |-> "ANY", size |-> 0]
KlassType(k) == [kind |-> "KLASS", klass |-> k, elem_kind |-> "ANY", size |-> 0]

Decls(p, op) == {i \in 1 .. Len(p) : p[i].op = op}
ClassesBefore(p, i) == {p[j].sym : j \in Decls(p, "DEF_CLASS") \cap (1 .. i - 1)}
DeclOf(p, k) == CHOOSE i \in Decls(p, "DEF_CLASS") : p[i].sym = k

(* k, its superclass, and so on: the least set that has them. *)
Ancestors(p, k) ==
  LET all == ClassesBefore(p, Len(p) + 1)
  IN  {a \in all : \A S \in SUBSET all :
         k \in S /\ (\A c \in S : p[DeclOf(p, c)].super \in S \cup {Nobody}) => a \in S}

OwnMembers(p, k) ==
  LET vs == p[DeclOf(p, k)].def_vars IN {vs[j].name : j \in 1 .. Len(vs)}
Members(p, k) == UNION {OwnMembers(p, a) : a \in Ancestors(p, k)}

(* A member belongs to the uppermost ancestor that declares it. *)
MemberKind(p, k, m) ==
  LET owner == CHOOSE a \in Ancestors(p, k) :
                 /\ m \in OwnMembers(p, a)
                 /\ \A b \in Ancestors(p, a) \ {a} : m \notin OwnMembers(p, b)
      vs    == p[DeclOf(p, owner)].def_vars
  IN  vs[CHOOSE j \in 1 .. Len(vs) : vs[j].name = m].kind

Integral == {"INT", "BOOLTYPE"}
SameKind(k, l) == k = l \/ {k, l} \subseteq Integral

Assignable(p, from, to) ==
  IF to.kind = "KLASS" THEN from.kind = "KLASS" /\ to.klass \in Ancestors(p, from.klass)
  ELSE to.kind # "ARRAY" /\ SameKind(from.kind, to.kind)

(* Types of variables that declaration i can make. *)
Makeable(p, i, type) ==
  CASE type.kind = "KLASS" -> type.klass \in ClassesBefore(p, i)
    [] type.kind = "ARRAY" -> type.elem_kind # "KLASS" /\ type.size > 0
    [] OTHER -> TRUE

FitsArgument(p, f, type) ==
  \/ p[f].def_args = <<>>
  \/ Len(p[f].def_args) = 1 /\ Assignable(p, type, p[f].def_args[1].type)

(* A method without arguments has no `this'. *)
ParamsOf(d) ==
  IF d.op = "DEF_METHOD" /\ d.def_args # <<>>
  THEN <<[name |-> "this", type |-> KlassType(d.klass)]>> \o d.def_args
  ELSE d.def_args

(***************************************************************************)
(* What a name stands for at node m of declaration i: the variable that    *)
(* the last node to define it made, or the last parameter of the name.     *)
(* The binder of a variable is that node, that of parameter j is -j.       *)
(***************************************************************************)
Latest(S) == CHOOSE x \in S : \A y \in S : y <= x

Definers(p, i, m, v) ==
  {h \in 1 .. m - 1 : p[i].body[h].op = "DEF_VAR" /\ p[i].body[h].sym = v}
ParamsNamed(p, i, v) ==
  {j \in 1 .. Len(ParamsOf(p[i])) : ParamsOf(p[i])[j].name = v}

Names(p, i, m) ==
  {ParamsOf(p[i])[j].name : j \in 1 .. Len(ParamsOf(p[i]))}
    \cup {p[i].body[h].sym : h \in {g \in 1 .. m - 1 : p[i].body[g].op = "DEF_VAR"}}

Binder(p, i, m, v) ==
  IF Definers(p, i, m, v) # {} THEN Latest(Definers(p, i, m, v))
  ELSE -Latest(ParamsNamed(p, i, v))

TypeOfBinder(p, i, b) ==
  IF b > 0 THEN p[i].body[b].type ELSE ParamsOf(p[i])[-b].type
TypeOfName(p, i, m, v) == TypeOfBinder(p, i, Binder(p, i, m, v))

(* The declaration a call reaches. *)
Callee(p, name) == CHOOSE g \in 1 .. Len(p) : p[g].sym = name

(***************************************************************************)
(* The type of a node's value, and that of the value before node m.  An    *)
(* assignment has the value it stores.                                     *)
(***************************************************************************)
Assignments == {"SET_VAR", "SET_MEMBER_VAR", "SET_ARRAY_VAR"}

NodeType(p, i, m) ==
  LET node == p[i].body[m] IN
  CASE node.op \in {"VALUEDATA", "NEW_CLASS"} -> node.type
    [] node.op = "GET_VAR" -> TypeOfName(p, i, m, node.sym)
    [] node.op = "GET_MEMBER_VAR" ->
         Basic(MemberKind(p, TypeOfName(p, i, m, node.sym).klass, node.member))
    [] node.op = "GET_ARRAY_VAR" -> Basic(TypeOfName(p, i, m, node.sym).elem_kind)
    [] node.op \in {"CALL_FUNC", "CALL_METHOD"} -> p[Callee(p, node.sym)].type
    [] OTHER -> Basic("INT")

Makers(p, i, m) == {h \in 1 .. m - 1 : p[i].body[h].op \notin Assignments}

ValueType(p, i, m) ==
  IF Makers(p, i, m) = {} THEN Basic("ANY")
  ELSE NodeType(p, i, Latest(Makers(p, i, m)))

HasNamed(p, i, m, v, kind) ==
  v \in Names(p, i, m) /\ TypeOfName(p, i, m, v).kind = kind
HasMemberNamed(p, i, m, v, member) ==
  /\ HasNamed(p, i, m, v, "KLASS")
  /\ member \in Members(p, TypeOfName(p, i, m, v).klass)
HasElement(p, i, m, v, index) ==
  /\ HasNamed(p, i, m, v, "ARRAY")
  /\ index \in 0 .. TypeOfName(p, i, m, v).size - 1

(* Node m makes sense if the nodes before it do. *)
NodeTypes(p, i, m) ==
  LET node  == p[i].body[m]
      value == ValueType(p, i, m)
      type  == TypeOfName(p, i, m, node.sym)
  IN  CASE node.op = "VALUEDATA" -> TRUE
        [] node.op = "DEF_VAR" -> Makeable(p, i, node.type)
        [] node.op = "NEW_CLASS" ->
             node.type.kind = "KLASS" /\ Makeable(p, i, node.type)
        [] node.op = "GET_VAR" -> node.sym \in Names(p, i, m) /\ type.kind # "ARRAY"
        [] node.op = "SET_VAR" ->
             node.sym \in Names(p, i, m) /\ Assignable(p, value, type)
        [] node.op = "GET_MEMBER_VAR" -> HasMemberNamed(p, i, m, node.sym, node.member)
        [] node.op = "SET_MEMBER_VAR" ->
             /\ HasMemberNamed(p, i, m, node.sym, node.member)
             /\ SameKind(value.kind, MemberKind(p, type.klass, node.member))
        [] node.op = "GET_ARRAY_VAR" -> HasElement(p, i, m, node.sym, node.index)
        [] node.op = "SET_ARRAY_VAR" ->
             /\ HasElement(p, i, m, node.sym, node.index)
             /\ SameKind(value.kind, type.elem_kind)
        [] node.op = "PRINTDATA" ->
             \/ value.kind \in Integral \cup {"DOUBLE"}
             \/ m > 1 /\ p[i].body[m - 1].op = "VALUEDATA"
        [] node.op = "CALL_FUNC" ->
             \E g \in Decls(p, "DEF_FUNC") \cap (1 .. i - 1) :
               /\ p[g].sym = node.sym
               /\ node.set_args \/ p[g].def_args = <<>>
               /\ FitsArgument(p, g, value)
        [] node.op = "CALL_METHOD" ->
             \E g \in Decls(p, "DEF_METHOD") \cap (1 .. i - 1) :
               /\ p[g].sym = node.sym
               /\ node.reciever \in Names(p, i, m)
               /\ TypeOfName(p, i, m, node.reciever) = KlassType(p[g].klass)
               /\ FitsArgument(p, g, value)
        [] OTHER -> FALSE

(* A method comes after its class. *)
CallableTypes(p, i) ==
  /\ p[i].op = "DEF_METHOD" => p[i].klass \in ClassesBefore(p, i)
  /\ \A j \in 1 .. Len(ParamsOf(p[i])) :
       ParamsOf(p[i])[j].type.kind # "ARRAY" /\ Makeable(p, i, ParamsOf(p[i])[j].type)
  /\ Makeable(p, i, p[i].type)
  /\ \A m \in 1 .. Len(p[i].body) : NodeTypes(p, i, m)
  /\ Assignable(p, ValueType(p, i, Len(p[i].body) + 1), p[i].type)

ClassTypes(p, i) ==
  LET vs == p[i].def_vars IN
  /\ p[i].super \in ClassesBefore(p, i) \cup {Nobody}
  /\ \A j \in 1 .. Len(vs) : /\ vs[j].kind \in Integral \cup {"DOUBLE", "STRING"}
                             /\ \A h \in 1 .. j - 1 : vs[h].name # vs[j].name

(***************************************************************************)
(* `this' is interned by no declaration: an assignment to one of its       *)
(* members finds the symbol only after one has been read in the text.      *)
(***************************************************************************)
ThisIsReadFirst(p) ==
  \A i \in 1 .. Len(p) : p[i].op = "DEF_CLASS" \/
    \A m \in 1 .. Len(p[i].body) :
      (p[i].body[m].op \in {"SET_MEMBER_VAR", "GET_VAR", "SET_VAR"}
         /\ p[i].body[m].sym = "this") =>
        \E j \in 1 .. i : p[j].op # "DEF_CLASS" /\
          \E h \in 1 .. Len(p[j].body) :
            /\ j < i \/ h < m
            /\ p[j].body[h].op = "GET_MEMBER_VAR" /\ p[j].body[h].sym = "this"

WellTyped(p) ==
  /\ \A i, j \in 1 .. Len(p) : p[i].sym = p[j].sym => i = j
  /\ \E i \in Decls(p, "DEF_FUNC") : p[i].sym = "main" /\ p[i].def_args = <<>>
  /\ \A i, j \in Decls(p, "DEF_METHOD") : p[i].klass = p[j].klass => i = j
  /\ ThisIsReadFirst(p)
  /\ \A i \in 1 .. Len(p) :
       IF p[i].op = "DEF_CLASS" THEN ClassTypes(p, i) ELSE CallableTypes(p, i)
=============================================================================

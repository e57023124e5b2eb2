--------------------------- MODULE Compiler_proofs ---------------------------
(***************************************************************************)
(* For every program, every size of the tables and every order of the      *)
(* classes: the state of Compiler keeps its shape, every method call of a  *)
(* written module uses the class lexical scoping gives its receiver, and a *)
(* malformed module or a crash of the compiler has the cause stated.       *)
(*                                                                         *)
(* The inductive invariant IInv says how far the machine is: work is what  *)
(* is left of the declaration being read or compiled, every statement done *)
(* is one instruction of the current function, the entries of the shared   *)
(* variable map that belong to the current function are exactly what       *)
(* lexical scoping provides so far, and whatever refers to a function      *)
(* refers to one that was compiled from a declaration.  One lemma for each *)
(* action shows that its step preserves it.                                *)
(***************************************************************************)
EXTENDS Compiler, FiniteSetTheorems, SequenceTheorems, TLAPS

(* A non-empty set of positions has a greatest member. *)
LEMMA HasGreatest ==
  ASSUME NEW n \in Nat, NEW S, S \subseteq 1 .. n, S # {}
  PROVE  Greatest(S) \in S /\ \A j \in S : j <= Greatest(S)
<1> DEFINE R == StrictSubsetOrdering(1 .. n)
           T == {i .. n : i \in S}
<1>1. IsFiniteSet(1 .. n)
  BY FS_Interval
<1>2. IsWellFoundedOn(R, FiniteSubsetsOf(1 .. n))
  BY FS_StrictSubsetOrderingWellFounded
<1>3. T \subseteq FiniteSubsetsOf(1 .. n)
  BY <1>1, FS_Subset DEF FiniteSubsetsOf
<1>4. T # {}
  OBVIOUS
<1>5. PICK x \in T : \A y \in T : ~(<<y, x>> \in R)
  <2> HIDE DEF R, T
  <2> QED BY <1>2, <1>3, <1>4, WFMin
<1>6. PICK i \in S : x = i .. n
  OBVIOUS
<1>7. ASSUME NEW j \in S, i < j PROVE FALSE
  <2>1. /\ j .. n \in T
        /\ (j .. n) \subseteq (i .. n)
        /\ i .. n \in SUBSET (1 .. n) /\ j .. n \in SUBSET (1 .. n)
    BY <1>7
  <2>2. j .. n # i .. n
    <3>1. i \in i .. n /\ i \notin j .. n
      BY <1>7
    <3> QED BY <3>1
  <2>3. <<j .. n, i .. n>> \in StrictSubsetOrdering(1 .. n)
    BY <2>1, <2>2 DEF StrictSubsetOrdering
  <2> QED BY <2>1, <2>3, <1>5, <1>6
<1>8. \A j \in S : j <= i
  BY <1>7
<1> QED
  BY <1>8 DEF Greatest

LEMMA HasLeast ==
  ASSUME NEW n \in Nat, NEW S, S \subseteq 1 .. n, S # {}
  PROVE  \E i \in S : \A j \in S : i <= j
<1> DEFINE T == {(n + 1) - i : i \in S}
<1>1. T \subseteq 1 .. n /\ T # {}
  <2>1. \A i \in S : (n + 1) - i \in 1 .. n
    OBVIOUS
  <2>2. PICK i \in S : TRUE
    OBVIOUS
  <2>3. (n + 1) - i \in T
    OBVIOUS
  <2> QED BY <2>1, <2>3
<1>2. Greatest(T) \in T /\ \A j \in T : j <= Greatest(T)
  <2> HIDE DEF T
  <2> QED BY <1>1, HasGreatest
<1>3. PICK i \in S : Greatest(T) = (n + 1) - i
  BY <1>2
<1>4. ASSUME NEW j \in S PROVE i <= j
  <2>1. (n + 1) - j \in T
    OBVIOUS
  <2>2. (n + 1) - j <= (n + 1) - i
    BY <2>1, <1>2, <1>3
  <2> QED BY <2>2
<1> QED
  BY <1>4

-----------------------------------------------------------------------------
Node == Statements \cup Declarations

LEMMA ProgramShape ==
  ASSUME NEW p \in Programs
  PROVE  /\ Len(p) \in Nat \ {0}
         /\ \A i \in 1 .. Len(p) : p[i] \in Declarations
<1>1. p \in Seq(Declarations) /\ p # <<>>
  BY ProgramsAssumption
<1> QED
  BY <1>1

LEMMA CallableShape ==
  ASSUME NEW d \in Declarations, d.op \in Callables
  PROVE  /\ d.sym \in Name
         /\ d.args \in Seq(VarNodes)
         /\ d.body \in Seq(Statements)
         /\ d.op = "DEF_METHOD" => d.reciever \in Klass
BY DEF Declarations, Callables

LEMMA VarNodeShape ==
  ASSUME NEW n \in VarNodes
  PROVE  /\ n \in Statements
         /\ n.op = "DEF_VAR"
         /\ n.sym \in Var
         /\ n.klass \in Klass \cup {Prim}
BY DEF VarNodes, Statements

LEMMA StatementShape ==
  ASSUME NEW n \in Statements
  PROVE  /\ n.op \in {"DEF_VAR", "CALL_FUNC", "CALL_METHOD"}
         /\ n.op = "DEF_VAR" => n \in VarNodes
         /\ n.op = "CALL_FUNC" => n.sym \in Name /\ n.arg \in Var \cup {None}
         /\ n.op = "CALL_METHOD" => n.reciever \in Var /\ n.sym \in Name \cup {None}
BY DEF VarNodes, Statements

LEMMA DeclarationShape ==
  ASSUME NEW d \in Declarations
  PROVE  /\ d.op \in {"DEF_CLASS", "DEF_FUNC", "DEF_METHOD"}
         /\ d.op = "DEF_CLASS" => d.sym \in Klass /\ d.super \in Klass \cup {None}
BY DEF Declarations

LEMMA Constants ==
  /\ Klass \subseteq Name /\ Var \subseteq Name
  /\ None \notin Name /\ Prim \notin Name
  /\ This \in Var
  /\ None # Prim
BY ProgramsAssumption DEF None, Prim

LEMMA NodesShape ==
  ASSUME NEW d \in Declarations
  PROVE  LET N == Nodes(d) IN
         /\ N \in Seq(Node)
         /\ Len(N) \in Nat \ {0}
         /\ N[Len(N)] = d
         /\ \A j \in 1 .. Len(N) - 1 : N[j] \in Statements
<1> DEFINE N == Nodes(d)
<1>1. CASE d.op = "DEF_CLASS"
  BY <1>1 DEF Nodes, Node
<1>2. CASE d.op # "DEF_CLASS"
  <2>1. d.args \in Seq(Statements) /\ d.body \in Seq(Statements)
    BY <1>2, DeclarationShape, CallableShape, VarNodeShape DEF Callables
  <2>2. N = (d.args \o d.body) \o <<d>>
    BY <1>2 DEF Nodes
  <2> DEFINE s == d.args \o d.body
  <2>3. s \in Seq(Statements)
    BY <2>1, ConcatProperties
  <2>4. N = Append(s, d)
    <3>1. d \in Node /\ s \in Seq(Node)
      BY <2>3 DEF Node
    <3> HIDE DEF s
    <3>2. Append(s, d) = s \o <<d>>
      BY <3>1, AppendIsConcat
    <3> QED
      BY <2>2, <3>2 DEF s
  <2> HIDE DEF s, N
  <2>5. /\ N \in Seq(Node)
        /\ Len(N) = Len(s) + 1
        /\ N[Len(s) + 1] = d
        /\ \A j \in 1 .. Len(s) : N[j] = s[j]
    BY <2>3, <2>4 DEF Node
  <2>6. \A j \in 1 .. Len(s) : s[j] \in Statements
    BY <2>3
  <2>7. Len(s) \in Nat
    BY <2>3
  <2>8. /\ Len(N) \in Nat \ {0}
        /\ N[Len(N)] = d
        /\ \A j \in 1 .. Len(N) - 1 : N[j] \in Statements
    BY <2>5, <2>6, <2>7
  <2> QED
    BY <2>5, <2>8 DEF N
<1> QED
  BY <1>1, <1>2

LEMMA CallableNodes ==
  ASSUME NEW d \in Declarations, d.op \in Callables
  PROVE  LET N == Nodes(d) IN
         /\ Len(N) = Len(d.args) + Len(d.body) + 1
         /\ \A a \in 1 .. Len(d.args) : N[a] = d.args[a]
         /\ \A s \in 1 .. Len(d.body) : N[Len(d.args) + s] = d.body[s]
<1>1. d.args \in Seq(Statements) /\ d.body \in Seq(Statements)
  BY CallableShape, VarNodeShape
<1>2. Nodes(d) = (d.args \o d.body) \o <<d>>
  BY DEF Nodes, Callables
<1> DEFINE a == d.args
           b == d.body
           N == Nodes(d)
<1> HIDE DEF a, b, N
<1>3. a \in Seq(Statements) /\ b \in Seq(Statements) /\ N = (a \o b) \o <<d>>
  BY <1>1, <1>2 DEF a, b, N
<1>4. /\ Len(N) = Len(a) + Len(b) + 1
      /\ \A i \in 1 .. Len(a) : N[i] = a[i]
      /\ \A s \in 1 .. Len(b) : N[Len(a) + s] = b[s]
  BY <1>3
<1> QED
  BY <1>4 DEF a, b, N

Interns(t, new, b) ==
  /\ new \in Seq(Name)
  /\ Len(t) <= Len(new)
  /\ \A i \in 1 .. Len(t) : new[i] = t[i]
  /\ \E i \in 1 .. Len(new) : new[i] = b

LEMMA Interned ==
  ASSUME NEW t \in Seq(Name), NEW a \in Name, NEW b \in Name,
         NEW new, new = lookup_make_symbol(lookup_make_symbol(t, a), b)
  PROVE  Interns(t, new, b)
<1>1. ASSUME NEW u \in Seq(Name), NEW x \in Name
      PROVE  LET made == lookup_make_symbol(u, x) IN
             /\ made \in Seq(Name)
             /\ Len(u) <= Len(made)
             /\ \A i \in 1 .. Len(u) : made[i] = u[i]
             /\ \E i \in 1 .. Len(made) : made[i] = x
  <2>1. CASE Matches(u, x) = {}
    <3>1. lookup_make_symbol(u, x) = Append(u, x)
      BY <2>1 DEF lookup_make_symbol, lookup_symbol, make_symbol, NULL
    <3> QED
      BY <3>1
  <2>2. CASE Matches(u, x) # {}
    <3>1. \E i \in 1 .. Len(u) : u[i] = x
      BY <2>2 DEF Matches
    <3> QED
      BY <3>1 DEF lookup_make_symbol, make_symbol
  <2> QED
    BY <2>1, <2>2
<1> DEFINE u == lookup_make_symbol(t, a)
           w == lookup_make_symbol(u, b)
<1>2. /\ u \in Seq(Name) /\ Len(t) <= Len(u)
      /\ \A i \in 1 .. Len(t) : u[i] = t[i]
  BY <1>1
<1>3. /\ w \in Seq(Name) /\ Len(u) <= Len(w)
      /\ \A i \in 1 .. Len(u) : w[i] = u[i]
      /\ \E i \in 1 .. Len(w) : w[i] = b
  <2> HIDE DEF u
  <2> QED BY <1>1, <1>2
<1> QED
  <2> HIDE DEF u, w
  <2>1. /\ w \in Seq(Name) /\ Len(t) <= Len(w)
        /\ \A i \in 1 .. Len(t) : w[i] = t[i]
        /\ \E i \in 1 .. Len(w) : w[i] = b
    BY <1>2, <1>3
  <2> QED BY <2>1 DEF u, w, Interns

(* What lookup_symbol and lookup_func find. *)
LEMMA SymbolFound ==
  ASSUME NEW t \in Seq(Name), NEW x, lookup_symbol(t, x) = NULL
  PROVE  \A i \in 1 .. Len(t) : t[i] # x
<1>1. SUFFICES ASSUME Matches(t, x) # {} PROVE FALSE
  BY DEF Matches
<1>2. Matches(t, x) \subseteq 1 .. Len(t)
  BY DEF Matches
<1>3. \E i \in Matches(t, x) : \A j \in Matches(t, x) : i <= j
  <2>1. Len(t) \in Nat
    OBVIOUS
  <2> QED
    BY <2>1, <1>1, <1>2, HasLeast
<1> QED
  BY <1>1, <1>2, <1>3 DEF lookup_symbol, NULL

LEMMA FuncFound ==
  ASSUME NEW t, Len(t) \in Nat, NEW s
  PROVE  IF \E j \in 1 .. Len(t) : t[j].sym = s
         THEN lookup_func(t, s) \in 1 .. Len(t) /\ t[lookup_func(t, s)].sym = s
         ELSE lookup_func(t, s) = 0
<1>1. Entries(t, s) \subseteq 1 .. Len(t) /\ \A i \in Entries(t, s) : t[i].sym = s
  BY DEF Entries
<1>2. CASE Entries(t, s) = {}
  BY <1>2 DEF lookup_func, Entries
<1>3. CASE Entries(t, s) # {}
  <2>1. Greatest(Entries(t, s)) \in Entries(t, s)
    BY <1>1, <1>3, HasGreatest
  <2>2. lookup_func(t, s) = Greatest(Entries(t, s))
    BY <1>3 DEF lookup_func, Greatest
  <2>3. \E j \in 1 .. Len(t) : t[j].sym = s
    BY <1>1, <1>3
  <2> QED
    BY <2>1, <2>2, <2>3, <1>1
<1> QED
  BY <1>2, <1>3

-----------------------------------------------------------------------------
(***************************************************************************)
(* The inductive invariant.                                                *)
(***************************************************************************)

(* The functions of the module that are compiled from a declaration. *)
Real == (1 .. Len(llvm)) \ Stubs

(* A GET_VAR node without a symbol stands for a name that neither the      *)
(* arguments nor the variables defined before it in its callable have.     *)
Unseen(i, rest) ==
  LET d == program[i]
      s == Len(d.body) - rest + 1
  IN  /\ i \in 1 .. Len(program)
      /\ d.op \in Callables
      /\ s \in 1 .. Len(d.body)
      /\ Formal(d.args, d.body[s].arg) = {}
      /\ LocalDefs(d, s, d.body[s].arg) = {}

(* Every callable that has been parsed is registered, under its name. *)
Tables ==
  /\ \A x \in null_args : Unseen(x[1], x[2])
  /\ \A j \in 1 .. Len(funcs) : funcs[j].decl \in CallableDecls(program, funcs[j].sym)
  /\ \A i \in 1 .. Len(program) :
       program[i].op \in Callables /\ (phase = "codegen" \/ (phase = "parse" /\ i < pos))
         => \E j \in 1 .. Len(funcs) : funcs[j].sym = program[i].sym

(* work is what is left of the nodes of the declaration being parsed, and  *)
(* the variables defined by those that are done have symbols.              *)
Reading ==
  LET N == Nodes(program[pos]) IN
  phase = "parse" =>
    /\ cur = 0
    /\ pos \in 1 .. Len(program)
    /\ work \in Seq(Node)
    /\ Len(work) \in 1 .. Len(N)
    /\ \A j \in 1 .. Len(work) : work[j] = N[Len(N) - Len(work) + j]
    /\ \A j \in 1 .. Len(N) - Len(work) :
         N[j].op = "DEF_VAR" => \E t \in 1 .. Len(syms) : syms[t] = N[j].sym

(* Functions of the module, and what refers to them. *)
Functional ==
  /\ \A f \in Real :
       /\ llvm[f].own \in 1 .. Len(program)
       /\ program[llvm[f].own].op \in Callables
       /\ llvm[f].sym = program[llvm[f].own].sym
       /\ llvm[f].decl \in CallableDecls(program, llvm[f].sym)
  /\ \A f \in 1 .. Len(llvm) :
       /\ \A i \in 1 .. Len(Code(f)) : Code(f)[i].op = "call" => Code(f)[i].fn <= Len(llvm)
       /\ \A st \in llvm[f].stores : st[2] \in Real
  /\ \A k \in Klass : method_map[k] # 0 => method_map[k] \in Real

(* Every statement of a body becomes one instruction: work is what the     *)
(* code of the current function does not have yet.                         *)
Done == Len(Code(cur)) + 1

Translating ==
  LET body == AsCompiled(cur).body IN
  cur # 0 =>
    /\ phase # "written"
    /\ cur \in Real
    /\ llvm[cur].own = pos
    /\ work \in Seq(Statements)
    /\ Len(Code(cur)) + Len(work) = Len(body)
    /\ \A j \in 1 .. Len(work) : work[j] = body[Len(Code(cur)) + j]

(* Of the one variable map, the entries of the current function are what   *)
(* lexical scoping provides, and the others are of names it does not.      *)
MapIsLexical ==
  cur # 0 =>
    \A v \in Var : StaticKlass(AsCompiled(cur), Done, v) =
                     IF vars[v].owner = cur THEN vars[v].klass ELSE None

Idle == phase = "codegen" /\ cur = 0 => work = <<>>

Variables ==
  /\ IsFiniteSet(klasses)
  /\ \A v \in Var : vars[v].owner # 0 => vars[v].klass \in klasses \cup {Prim}

(* The frames of the running program are of functions that have a body. *)
LiveFrames ==
  /\ phase \in {"parse", "codegen", "written"} => stack = <<>>
  /\ phase = "running" => Len(stack) # 0 /\ ~CallsStub
  /\ \A i \in 1 .. Len(stack) : stack[i].fn \in Real
  /\ \A s \in Slots : table[s] # 0 => table[s] \in Real

IInv ==
  /\ program \in Programs
  /\ TypeOK
  /\ Tables
  /\ Reading
  /\ Functional
  /\ Translating
  /\ MapIsLexical
  /\ Idle
  /\ Variables
  /\ LiveFrames
  /\ ReceiversAreLexical
  /\ UndefinedHasACause
  /\ CrashHasACause

(* Unseen is a fact about the program, which never changes. *)
LEMMA UnseenStays ==
  ASSUME program' = program, NEW i, NEW rest
  PROVE  Unseen(i, rest)' <=> Unseen(i, rest)
BY DEF Unseen

(* The tables change only while the parser runs. *)
LEMMA TablesStay ==
  ASSUME Tables, UNCHANGED <<program, funcs, null_args>>,
         phase' = "codegen" => phase = "codegen",
         phase' = "parse" => phase = "parse" /\ pos' = pos
  PROVE  Tables'
<1>1. \A x \in null_args' : Unseen(x[1], x[2])'
  <2> TAKE x \in null_args'
  <2>1. Unseen(x[1], x[2]) /\ program' = program
    BY DEF Tables
  <2> QED
    BY <2>1, UnseenStays
<1>2. \A j \in 1 .. Len(funcs') : funcs'[j].decl \in CallableDecls(program, funcs'[j].sym)
  BY DEF Tables
<1>3. \A i \in 1 .. Len(program) :
        program[i].op \in Callables /\ (phase' = "codegen" \/ (phase' = "parse" /\ i < pos'))
          => \E j \in 1 .. Len(funcs') : funcs'[j].sym = program[i].sym
  BY DEF Tables
<1> QED
  BY <1>1, <1>2, <1>3 DEF Tables

-----------------------------------------------------------------------------
(* The shape of the machine at the beginning. *)
LEMMA IInv_init == Init => IInv
<1> SUFFICES ASSUME Init PROVE IInv
  OBVIOUS
<1> USE DEF Init
<1>1. /\ program \in Programs
      /\ Len(program) \in Nat \ {0}
      /\ program[1] \in Declarations
  BY ProgramShape
<1>2. TypeOK
  <2>1. /\ 0 <= SYMBOL_MAX /\ 0 <= FUNC_MAX
    BY SymbolMaxAssumption, FuncMaxAssumption
  <2>2. /\ vars \in [Var -> [klass : Klass \cup {Prim, None}, owner : 0 .. Len(llvm)]]
    BY DEF NoVar
  <2> QED
    BY <1>1, <2>1, <2>2 DEF TypeOK, Phase
<1>3. Reading
  <2>1. /\ Nodes(program[1]) \in Seq(Node)
        /\ Len(Nodes(program[1])) \in Nat \ {0}
    BY <1>1, NodesShape
  <2> QED
    BY <1>1, <2>1 DEF Reading
<1>4. Tables
  BY <1>1 DEF Tables
<1>5. Functional
  BY DEF Functional, Real
<1>6. Variables
  BY FS_EmptySet DEF Variables, NoVar
<1>7. LiveFrames
  BY DEF LiveFrames
<1>8. ReceiversAreLexical
  BY DEF ReceiversAreLexical
<1> QED
  BY <1>1, <1>2, <1>3, <1>4, <1>5, <1>6, <1>7, <1>8
  DEF IInv, Translating, MapIsLexical, Idle, UndefinedHasACause, CrashHasACause

-----------------------------------------------------------------------------
LEMMA Position ==
  ASSUME NEW m \in Nat, NEW l \in 1 .. m
  PROVE  /\ l = 1 \/ l > 1
         /\ l # 1 => m - l + 1 \in 1 .. m - 1
OBVIOUS

(* The node the parser is at. *)
LEMMA ParseHead ==
  ASSUME IInv, phase = "parse"
  PROVE  LET n == Head(work)
             N == Nodes(program[pos])
             j == Len(N) - Len(work) + 1
         IN  /\ pos \in 1 .. Len(program) /\ Len(program) \in Nat
             /\ program[pos] \in Declarations
             /\ N \in Seq(Node) /\ work \in Seq(Node)
             /\ Len(work) \in 1 .. Len(N)
             /\ j \in 1 .. Len(N) /\ n = N[j]
             /\ IF Len(work) = 1 THEN n = program[pos] ELSE n \in Statements
<1>1. pos \in 1 .. Len(program) /\ program[pos] \in Declarations /\ Len(program) \in Nat
  BY ProgramShape DEF IInv, Reading
<1> DEFINE N == Nodes(program[pos])
<1>2. /\ N \in Seq(Node) /\ Len(N) \in Nat \ {0}
      /\ N[Len(N)] = program[pos]
      /\ \A j \in 1 .. Len(N) - 1 : N[j] \in Statements
  BY <1>1, NodesShape
<1>3. /\ work \in Seq(Node)
      /\ Len(work) \in 1 .. Len(N)
      /\ \A j \in 1 .. Len(work) : work[j] = N[Len(N) - Len(work) + j]
  BY DEF IInv, Reading
<1> HIDE DEF N
<1>4. Head(work) = work[1] /\ 1 \in 1 .. Len(work)
  BY <1>2, <1>3
<1>5. Head(work) = N[Len(N) - Len(work) + 1]
  BY <1>3, <1>4
<1>6. Len(N) - Len(work) + 1 \in 1 .. Len(N)
  BY <1>2, <1>3
<1>7. IF Len(work) = 1 THEN Head(work) = program[pos] ELSE Head(work) \in Statements
  <2>1. CASE Len(work) = 1
    <3>1. Len(N) - Len(work) + 1 = Len(N)
      BY <2>1, <1>2
    <3> QED
      BY <3>1, <2>1, <1>2, <1>5
  <2>2. CASE Len(work) # 1
    <3>1. Len(N) - Len(work) + 1 \in 1 .. Len(N) - 1
      BY <2>2, <1>2, <1>3, Position
    <3> QED
      BY <3>1, <2>2, <1>2, <1>5
  <2> QED
    BY <2>1, <2>2
<1> QED
  BY <1>1, <1>2, <1>3, <1>5, <1>6, <1>7 DEF N

(* What the parser does not touch. *)
LEMMA ParseFrame ==
  ASSUME IInv, phase = "parse", UNCHANGED <<program, back, lli>>,
         phase' \in {"parse", "codegen", "assert", "crash"},
         phase' = "codegen" => work' = <<>>,
         phase' = "crash" => /\ work' # <<>>
                             /\ Head(work').op = "CALL_METHOD"
                             /\ Head(work').sym = None,
         pos' \in 1 .. Len(program) + 1,
         syms' \in Seq(Name), Len(syms') <= SYMBOL_MAX,
         funcs' \in Seq([sym : Name, decl : Nat \ {0}]), Len(funcs') <= FUNC_MAX,
         null_args' \subseteq (Nat \X Nat),
         Tables', Reading'
  PROVE  IInv'
<1>1. UNCHANGED <<program, klasses, method_map, vars, llvm, cur, stack, table>>
  BY DEF back, lli
<1>2. cur = 0 /\ stack = <<>>
  BY DEF IInv, Reading, LiveFrames
<1>3. TypeOK'
  BY <1>1 DEF IInv, TypeOK, Phase, Slots
<1>4. Functional'
  BY <1>1 DEF IInv, Functional, Real, Stubs, Code, CallableDecls
<1>5. Translating' /\ MapIsLexical'
  BY <1>1, <1>2 DEF Translating, MapIsLexical
<1>6. Idle'
  BY <1>1, <1>2 DEF Idle
<1>7. Variables'
  BY <1>1 DEF IInv, Variables
<1>8. LiveFrames'
  BY <1>1, <1>2 DEF IInv, LiveFrames, Real, Stubs, Slots
<1>9. ReceiversAreLexical'
  <2>1. /\ ReceiversAreLexical /\ Stubs' = Stubs
        /\ \A f : Code(f)' = Code(f) /\ AsCompiled(f)' = AsCompiled(f)
    BY <1>1 DEF IInv, Stubs, Code, AsCompiled
  <2> QED
    BY <2>1, <1>1 DEF ReceiversAreLexical
<1>10. UndefinedHasACause' /\ CrashHasACause'
  BY <1>1, <1>2 DEF UndefinedHasACause, CrashHasACause
<1> QED
  BY <1>1, <1>3, <1>4, <1>5, <1>6, <1>7, <1>8, <1>9, <1>10 DEF IInv

(* Reduce interns the node's names, registers a callable, and goes on. *)
LEMMA ReduceStep ==
  ASSUME IInv, phase = "parse", UNCHANGED <<program, back, lli>>,
         NEW a \in Name, NEW b \in Name, NEW registers \in BOOLEAN,
         registers <=> Head(work).op \in Callables,
         Head(work).op \in Callables \cup {"DEF_VAR"} => b = Head(work).sym,
         null_args' \subseteq (Nat \X Nat),
         \A x \in null_args' : Unseen(x[1], x[2]),
         Reduce(a, b, registers)
  PROVE  IInv'
<1> DEFINE n == Head(work)
           N == Nodes(program[pos])
           j == Len(N) - Len(work) + 1
           new == interned(a, b)
           stops == TooLong(new) \/ (registers /\ FuncsFull(funcs))
<1>1. /\ pos \in 1 .. Len(program) /\ Len(program) \in Nat
      /\ program[pos] \in Declarations
      /\ N \in Seq(Node) /\ work \in Seq(Node)
      /\ Len(work) \in 1 .. Len(N)
      /\ j \in 1 .. Len(N) /\ n = N[j]
      /\ IF Len(work) = 1 THEN n = program[pos] ELSE n \in Statements
  BY ParseHead
<1>2. /\ TypeOK /\ Tables /\ Reading
  BY DEF IInv
<1>3. /\ syms \in Seq(Name) /\ Len(syms) <= SYMBOL_MAX
      /\ funcs \in Seq([sym : Name, decl : Nat \ {0}]) /\ Len(funcs) <= FUNC_MAX
  BY <1>2 DEF TypeOK
<1>4. /\ new \in Seq(Name)
      /\ Len(syms) <= Len(new)
      /\ \A i \in 1 .. Len(syms) : new[i] = syms[i]
      /\ \E i \in 1 .. Len(new) : new[i] = b
  <2>1. new = lookup_make_symbol(lookup_make_symbol(syms, a), b) /\ syms \in Seq(Name)
    BY <1>3 DEF interned
  <2> HIDE DEF new, stops, N, n, j
  <2>2. Interns(syms, new, b)
    BY <2>1, Interned
  <2> QED
    BY <2>2 DEF Interns
<1>5. \A x \in null_args' : Unseen(x[1], x[2])'
  <2>1. program' = program
    OBVIOUS
  <2> TAKE x \in null_args'
  <2>2. Unseen(x[1], x[2])
    OBVIOUS
  <2> QED
    BY <2>1, <2>2, UnseenStays
<1>6. CASE stops
  <2>1. phase' = "assert" /\ UNCHANGED <<pos, work, syms, funcs>>
    BY <1>6 DEF Reduce, Stop
  <2>2. Tables'
    BY <2>1, <1>2, <1>5 DEF Tables, CallableDecls
  <2>3. Reading'
    BY <2>1 DEF Reading
  <2> QED
    BY <2>1, <2>2, <2>3, <1>1, <1>3, ParseFrame
<1>7. CASE ~stops
  <2>1. /\ syms' = new
        /\ funcs' = IF registers THEN Append(funcs, [sym |-> b, decl |-> pos]) ELSE funcs
        /\ NextNode
    BY <1>7 DEF Reduce, make_func
  <2>2. syms' \in Seq(Name) /\ Len(syms') <= SYMBOL_MAX
    <3>1. ~(Len(new) > SYMBOL_MAX) /\ Len(new) \in Nat
      BY <1>4, <1>7 DEF TooLong
    <3> HIDE DEF new
    <3> QED
      BY <3>1, <2>1, <1>4, SymbolMaxAssumption
  <2>3. /\ funcs' \in Seq([sym : Name, decl : Nat \ {0}]) /\ Len(funcs') <= FUNC_MAX
        /\ Len(funcs) <= Len(funcs')
        /\ \A i \in 1 .. Len(funcs) : funcs'[i] = funcs[i]
    <3>1. CASE registers
      <4>1. Len(funcs) # FUNC_MAX
        BY <1>7, <3>1 DEF FuncsFull
      <4>2. [sym |-> b, decl |-> pos] \in [sym : Name, decl : Nat \ {0}]
        BY <1>1
      <4> QED
        BY <4>1, <4>2, <3>1, <2>1, <1>3, FuncMaxAssumption
    <3>2. CASE ~registers
      BY <3>2, <2>1, <1>3
    <3> QED
      BY <3>1, <3>2
  <2>4. \A i \in 1 .. Len(funcs') :
          funcs'[i].decl \in CallableDecls(program, funcs'[i].sym)
    <3>1. CASE registers
      <4>1. n = program[pos] /\ n.op \in Callables /\ b = n.sym
        BY <3>1, <1>1, StatementShape DEF Callables
      <4>2. pos \in CallableDecls(program, b)
        BY <4>1, <1>1 DEF CallableDecls
      <4>3. \A i \in 1 .. Len(funcs') :
              i \in 1 .. Len(funcs) \/ funcs'[i] = [sym |-> b, decl |-> pos]
        BY <2>1, <3>1, <1>3
      <4> TAKE i \in 1 .. Len(funcs')
      <4>4. CASE i \in 1 .. Len(funcs)
        BY <4>4, <2>3, <1>2 DEF Tables
      <4>5. CASE funcs'[i] = [sym |-> b, decl |-> pos]
        BY <4>2, <4>5
      <4> QED
        BY <4>3, <4>4, <4>5
    <3>2. CASE ~registers
      BY <3>2, <2>1, <1>2 DEF Tables
    <3> QED
      BY <3>1, <3>2
  <2>5. program[pos].op \in Callables /\ Len(work) = 1
          => \E i \in 1 .. Len(funcs') : funcs'[i].sym = program[pos].sym
    <3> SUFFICES ASSUME program[pos].op \in Callables, Len(work) = 1
                 PROVE  \E i \in 1 .. Len(funcs') : funcs'[i].sym = program[pos].sym
      OBVIOUS
    <3>1. registers /\ b = program[pos].sym
      BY <1>1
    <3>2. funcs' = Append(funcs, [sym |-> b, decl |-> pos])
      BY <2>1, <3>1
    <3>3. /\ Len(funcs) + 1 \in 1 .. Len(funcs')
          /\ funcs'[Len(funcs) + 1] = [sym |-> b, decl |-> pos]
      BY <3>2, <1>3
    <3> QED
      BY <3>1, <3>3
  <2>6. \A i \in 1 .. Len(program) :
          program[i].op \in Callables /\ (i < pos \/ (i = pos /\ Len(work) = 1))
            => \E k \in 1 .. Len(funcs') : funcs'[k].sym = program[i].sym
    <3> SUFFICES ASSUME NEW i \in 1 .. Len(program), program[i].op \in Callables, i < pos
                 PROVE  \E k \in 1 .. Len(funcs') : funcs'[k].sym = program[i].sym
      BY <2>5
    <3>1. PICK k \in 1 .. Len(funcs) : funcs[k].sym = program[i].sym
      BY <1>2 DEF Tables
    <3>2. k \in 1 .. Len(funcs') /\ funcs'[k] = funcs[k]
      <4> DEFINE C == Len(funcs)
                 D == Len(funcs')
      <4>1. C \in Nat /\ D \in Nat /\ C <= D /\ k \in 1 .. C
        BY <2>3, <1>3
      <4> HIDE DEF C, D
      <4>2. k \in 1 .. D
        BY <4>1
      <4> QED
        BY <4>2, <2>3 DEF D
    <3> QED
      BY <3>1, <3>2
  <2>7. CASE Len(work) > 1
    <3>1. work' = Tail(work) /\ UNCHANGED <<phase, pos>>
      BY <2>1, <2>7 DEF NextNode
    <3>2. Tables'
      BY <3>1, <2>4, <2>6, <1>5 DEF Tables, CallableDecls
    <3>3. /\ work' \in Seq(Node) /\ Len(work') = Len(work) - 1
          /\ \A i \in 1 .. Len(work') : work'[i] = work[i + 1]
      BY <3>1, <2>7, <1>1
    <3>4. /\ Len(work') \in 1 .. Len(N)
          /\ \A i \in 1 .. Len(work') : work'[i] = N[Len(N) - Len(work') + i]
      <4> HIDE DEF N
      <4>1. \A i \in 1 .. Len(work) : work[i] = N[Len(N) - Len(work) + i]
        BY <1>2 DEF Reading, N
      <4>2. Len(N) \in Nat /\ Len(work) \in Nat
        BY <1>1
      <4>3. \A i \in 1 .. Len(work') : i + 1 \in 1 .. Len(work)
              /\ Len(N) - Len(work) + (i + 1) = Len(N) - Len(work') + i
        BY <3>3, <4>2
      <4>4. \A i \in 1 .. Len(work') : work'[i] = N[Len(N) - Len(work') + i]
        BY <3>3, <4>1, <4>3
      <4>5. Len(work') \in 1 .. Len(N)
        BY <3>3, <4>2, <2>7, <1>1
      <4> QED
        BY <4>4, <4>5
    <3>5. ASSUME NEW i \in 1 .. Len(N) - Len(work'), N[i].op = "DEF_VAR"
          PROVE  \E t \in 1 .. Len(syms') : syms'[t] = N[i].sym
      <4>1. CASE i = j
        BY <4>1, <3>5, <1>1, <1>4, <2>1
      <4>2. CASE i # j
        <5>1. i \in 1 .. Len(N) - Len(work)
          <6> HIDE DEF N
          <6>1. Len(N) \in Nat /\ Len(work) \in Nat
            BY <1>1
          <6>2. i \in 1 .. Len(N) - Len(work) + 1 /\ i # Len(N) - Len(work) + 1
            BY <3>3, <4>2, <6>1
          <6> QED
            BY <6>1, <6>2
        <5>2. PICK t \in 1 .. Len(syms) : syms[t] = N[i].sym
          BY <5>1, <3>5, <1>2 DEF Reading
        <5>3. t \in 1 .. Len(syms') /\ syms'[t] = syms[t]
          <6> HIDE DEF new
          <6> QED
            BY <5>2, <1>3, <1>4, <2>1
        <5> QED
          BY <5>2, <5>3
      <4> QED
        BY <4>1, <4>2
    <3>6. Reading'
      BY <3>1, <3>3, <3>4, <3>5, <1>2, <1>1 DEF Reading, back
    <3> QED
      BY <3>1, <3>2, <3>6, <2>2, <2>3, <1>1, ParseFrame
  <2>8. CASE Len(work) = 1 /\ pos < Len(program)
    <3>1. pos' = pos + 1 /\ work' = Nodes(program[pos + 1]) /\ UNCHANGED phase
      BY <2>1, <2>8 DEF NextNode
    <3>2. Tables'
      <4>1. \A i \in 1 .. Len(program) : i < pos' => i < pos \/ i = pos
        BY <3>1, <1>1
      <4> QED
        BY <3>1, <4>1, <2>4, <2>6, <2>8, <1>5 DEF Tables, CallableDecls
    <3>3. pos + 1 \in 1 .. Len(program) /\ program[pos + 1] \in Declarations
      BY <2>8, <1>1, ProgramShape DEF IInv
    <3>4. /\ Nodes(program[pos + 1]) \in Seq(Node)
          /\ Len(Nodes(program[pos + 1])) \in Nat \ {0}
      BY <3>3, NodesShape
    <3>5. Reading'
      <4> DEFINE M == Nodes(program[pos + 1])
      <4>1. /\ Nodes(program'[pos']) = M /\ work' = M /\ cur' = 0
            /\ pos' \in 1 .. Len(program')
        BY <3>1, <3>3, <1>2 DEF back, Reading
      <4> HIDE DEF M
      <4>2. M \in Seq(Node) /\ Len(M) \in Nat \ {0}
        BY <3>4 DEF M
      <4>3. /\ Len(M) \in 1 .. Len(M)
            /\ \A i \in 1 .. Len(M) : M[i] = M[Len(M) - Len(M) + i]
            /\ 1 .. Len(M) - Len(M) = {}
        BY <4>2
      <4> QED
        BY <4>1, <4>2, <4>3 DEF Reading
    <3> QED
      BY <3>1, <3>2, <3>3, <3>5, <2>2, <2>3, <1>1, ParseFrame
  <2>9. CASE Len(work) = 1 /\ ~(pos < Len(program))
    <3>1. pos' = 1 /\ work' = <<>> /\ phase' = "codegen"
      BY <2>1, <2>9 DEF NextNode
    <3>2. Tables'
      <4>1. \A i \in 1 .. Len(program) : i < pos \/ i = pos
        BY <2>9, <1>1
      <4> QED
        BY <3>1, <4>1, <2>4, <2>6, <2>9, <1>5 DEF Tables, CallableDecls
    <3>3. Reading'
      BY <3>1 DEF Reading
    <3> QED
      BY <3>1, <3>2, <3>3, <2>2, <2>3, <1>1, ParseFrame
  <2>10. Len(work) > 1 \/ Len(work) = 1
    <3> HIDE DEF N
    <3>1. Len(N) \in Nat /\ Len(work) \in 1 .. Len(N)
      BY <1>1
    <3> QED
      BY <3>1, Position
  <2> QED
    BY <2>7, <2>8, <2>9, <2>10
<1> QED
  BY <1>6, <1>7

(* Places of a body among the nodes of its declaration. *)
LEMMA PlaceInBody ==
  ASSUME NEW args \in Nat, NEW body \in Nat, NEW left \in Nat,
         left # 0, left # 1,
         args + body + 1 - left + 1 > args
  PROVE  LET s == body - (left - 1) + 1 IN
         /\ s \in 1 .. body
         /\ args + body + 1 - left + 1 = args + s
         /\ \A t \in 1 .. s - 1 :
              t \in 1 .. body /\ args + t \in 1 .. args + body + 1 - left
         /\ \A a \in 1 .. args : a \in 1 .. args + body + 1 - left
OBVIOUS

(* An argument without a symbol is not lexically defined. *)
LEMMA UnseenStep ==
  ASSUME IInv, phase = "parse", Head(work).op = "CALL_FUNC",
         lookup_symbol(syms, Head(work).arg) = NULL
  PROVE  Unseen(pos, Len(work) - 1)
<1> DEFINE n == Head(work)
           d == program[pos]
           N == Nodes(d)
           j == Len(N) - Len(work) + 1
           s == Len(d.body) - (Len(work) - 1) + 1
<1>1. /\ pos \in 1 .. Len(program)
      /\ d \in Declarations
      /\ N \in Seq(Node)
      /\ Len(work) \in 1 .. Len(N)
      /\ j \in 1 .. Len(N) /\ n = N[j]
      /\ IF Len(work) = 1 THEN n = d ELSE n \in Statements
  BY ParseHead
<1>2. Len(work) # 1
  BY <1>1, DeclarationShape
<1>3. d.op \in Callables
  <2>1. ASSUME d.op = "DEF_CLASS" PROVE FALSE
    <3>1. Len(N) = 1
      BY <2>1 DEF Nodes
    <3> HIDE DEF N
    <3> QED
      BY <3>1, <1>1, <1>2
  <2> QED
    BY <2>1, <1>1, DeclarationShape DEF Callables
<1>4. /\ Len(N) = Len(d.args) + Len(d.body) + 1
      /\ \A a \in 1 .. Len(d.args) : N[a] = d.args[a]
      /\ \A t \in 1 .. Len(d.body) : N[Len(d.args) + t] = d.body[t]
  BY <1>1, <1>3, CallableNodes
<1>5. /\ d.args \in Seq(VarNodes) /\ d.body \in Seq(Statements)
      /\ Len(d.args) \in Nat /\ Len(d.body) \in Nat /\ Len(work) \in Nat
  BY <1>1, <1>3, CallableShape
<1>6. \A a \in 1 .. Len(d.args) : N[a].op = "DEF_VAR"
  BY <1>4, <1>5, VarNodeShape
<1>7. j > Len(d.args)
  <2>1. j \notin 1 .. Len(d.args)
    BY <1>1, <1>6
  <2> HIDE DEF N
  <2> QED
    BY <2>1, <1>1, <1>5
<1>8. /\ s \in 1 .. Len(d.body) /\ j = Len(d.args) + s
      /\ \A t \in 1 .. s - 1 :
           t \in 1 .. Len(d.body) /\ Len(d.args) + t \in 1 .. Len(N) - Len(work)
      /\ \A a \in 1 .. Len(d.args) : a \in 1 .. Len(N) - Len(work)
  <2> DEFINE A == Len(d.args)
             B == Len(d.body)
             M == Len(N)
             L == Len(work)
  <2>1. /\ A \in Nat /\ B \in Nat /\ L \in Nat /\ L # 0 /\ L # 1
        /\ M = A + B + 1 /\ M - L + 1 > A
    <3>1. L # 0
      BY <1>1
    <3>2. A \in Nat /\ B \in Nat /\ L \in Nat /\ L # 1
      BY <1>2, <1>5
    <3>3. M = A + B + 1
      BY <1>4
    <3>4. M - L + 1 > A
      BY <1>7
    <3> HIDE DEF A, B, M, L
    <3> QED
      BY <3>1, <3>2, <3>3, <3>4
  <2> HIDE DEF A, B, M, L
  <2>2. A + B + 1 - L + 1 > A
    BY <2>1
  <2>3. /\ B - (L - 1) + 1 \in 1 .. B /\ M - L + 1 = A + (B - (L - 1) + 1)
        /\ \A t \in 1 .. B - (L - 1) + 1 - 1 : t \in 1 .. B /\ A + t \in 1 .. M - L
        /\ \A a \in 1 .. A : a \in 1 .. M - L
    BY <2>1, <2>2, PlaceInBody
  <2>4. s = B - (L - 1) + 1 /\ j = M - L + 1
    BY DEF A, B, M, L
  <2> HIDE DEF s, j, N, d
  <2>5. /\ s \in 1 .. B /\ j = A + s
        /\ \A t \in 1 .. s - 1 : t \in 1 .. B /\ A + t \in 1 .. M - L
        /\ \A a \in 1 .. A : a \in 1 .. M - L
    BY <2>1, <2>3, <2>4
  <2> QED
    BY <2>5, Zenon DEF A, B, M, L
<1>9. d.body[s] = n
  BY <1>1, <1>4, <1>8
<1>10. ASSUME NEW i \in 1 .. Len(N) - Len(work), N[i].op = "DEF_VAR"
       PROVE  N[i].sym # n.arg
  <2>1. PICK t \in 1 .. Len(syms) : syms[t] = N[i].sym
    BY <1>10 DEF IInv, Reading
  <2> QED
    BY <2>1, SymbolFound DEF IInv, TypeOK
<1>11. Formal(d.args, n.arg) = {}
  BY <1>4, <1>6, <1>8, <1>10 DEF Formal
<1>12. LocalDefs(d, s, n.arg) = {}
  <2> HIDE DEF N, s
  <2> QED
    BY <1>4, <1>8, <1>10 DEF LocalDefs
<1> QED
  BY <1>1, <1>3, <1>8, <1>9, <1>11, <1>12 DEF Unseen

LEMMA ParseStep ==
  ASSUME IInv, Parse
  PROVE  IInv'
<1> DEFINE n == Head(work)
<1>1. /\ phase = "parse" /\ UNCHANGED <<program, back, lli>>
      /\ \/ make_ast_def_var(n)
         \/ make_ast_call_func(n)
         \/ make_ast_call_method(n)
         \/ make_ast_def_class(n)
         \/ make_ast_def_func(n)
         \/ make_ast_def_method(n)
  BY DEF Parse
<1>2. /\ n \in Statements \/ (n \in Declarations /\ Len(work) = 1 /\ n = program[pos])
      /\ pos \in 1 .. Len(program) + 1
      /\ work # <<>>
      /\ Len(work) - 1 \in Nat /\ pos \in Nat
  <2>1. /\ pos \in 1 .. Len(program) /\ Len(program) \in Nat
        /\ program[pos] \in Declarations
        /\ work \in Seq(Node) /\ Len(work) \in 1 .. Len(Nodes(program[pos]))
        /\ IF Len(work) = 1 THEN n = program[pos] ELSE n \in Statements
    BY <1>1, ParseHead
  <2> HIDE DEF n
  <2>2. work # <<>>
    BY <2>1
  <2> QED
    BY <2>1, <2>2
<1>3. /\ \A x \in null_args : Unseen(x[1], x[2])
      /\ null_args \subseteq Nat \X Nat
      /\ syms \in Seq(Name) /\ Len(syms) <= SYMBOL_MAX
      /\ funcs \in Seq([sym : Name, decl : Nat \ {0}]) /\ Len(funcs) <= FUNC_MAX
  BY DEF IInv, Tables, TypeOK
<1>4. ASSUME UNCHANGED <<pos, work, syms, funcs>>, phase' \in {"assert", "crash"},
             null_args' = null_args,
             phase' = "crash" => n.op = "CALL_METHOD" /\ n.sym = None
      PROVE  IInv'
  <2>1. UNCHANGED <<program, cur>>
    BY <1>1 DEF back
  <2>2. Tables'
    BY <1>3, <2>1, <1>4, TablesStay DEF IInv
  <2>3. Reading'
    BY <1>4 DEF Reading
  <2> QED
    BY <2>2, <2>3, <1>1, <1>2, <1>3, <1>4, ParseFrame
<1>5. CASE make_ast_def_var(n)
  <2>1. n \in VarNodes
    BY <1>2, <1>5, DeclarationShape, StatementShape DEF make_ast_def_var
  <2>2. CASE get_type_by_name(n.klass)
    <3>1. (IF n.klass = Prim THEN n.sym ELSE n.klass) \in Name /\ n.sym \in Name
      BY <2>1, VarNodeShape, Constants
    <3>2. Reduce(IF n.klass = Prim THEN n.sym ELSE n.klass, n.sym, FALSE)
      BY <1>5, <2>2 DEF make_ast_def_var
    <3>3. null_args' = null_args /\ n.op = "DEF_VAR"
      BY <1>5 DEF make_ast_def_var
    <3> HIDE DEF n
    <3> QED
      BY <3>1, <3>2, <3>3, <1>1, <1>3, ReduceStep DEF n, Callables
  <2>3. CASE ~get_type_by_name(n.klass)
    BY <1>4, <1>5, <2>3 DEF make_ast_def_var, Stop
  <2> QED
    BY <2>2, <2>3
<1>6. CASE make_ast_call_func(n)
  <2>1. n \in Statements /\ n.op = "CALL_FUNC"
    BY <1>2, <1>6, DeclarationShape DEF make_ast_call_func
  <2>2. n.sym \in Name
    BY <2>1, StatementShape
  <2>3. Reduce(n.sym, n.sym, FALSE)
    BY <1>6 DEF make_ast_call_func
  <2>4. /\ null_args' \subseteq Nat \X Nat
        /\ \A x \in null_args' : Unseen(x[1], x[2])
    <3>1. CASE n.arg # None /\ lookup_symbol(syms, n.arg) = NULL
      <4>1. null_args' = null_args \cup {<<pos, Len(work) - 1>>}
        BY <1>6, <3>1 DEF make_ast_call_func
      <4>2. Unseen(pos, Len(work) - 1)
        BY <1>1, <2>1, <3>1, UnseenStep
      <4> QED
        BY <4>1, <4>2, <1>2, <1>3
    <3>2. CASE ~(n.arg # None /\ lookup_symbol(syms, n.arg) = NULL)
      BY <1>3, <1>6, <3>2 DEF make_ast_call_func
    <3> QED
      BY <3>1, <3>2
  <2> QED
    BY <2>1, <2>2, <2>3, <2>4, <1>1, ReduceStep DEF Callables
<1>7. CASE make_ast_call_method(n)
  <2>1. n \in Statements /\ n.op = "CALL_METHOD" /\ null_args' = null_args
    BY <1>2, <1>7, DeclarationShape DEF make_ast_call_method
  <2>2. CASE n.sym # None
    <3>1. n.reciever \in Name /\ n.sym \in Name
      BY <2>1, <2>2, StatementShape, Constants
    <3>2. Reduce(n.reciever, n.sym, FALSE)
      BY <1>7, <2>2 DEF make_ast_call_method
    <3> QED
      BY <3>1, <3>2, <2>1, <1>1, <1>3, ReduceStep DEF Callables
  <2>3. CASE n.sym = None
    BY <1>4, <1>7, <2>1, <2>3 DEF make_ast_call_method, Stop
  <2> QED
    BY <2>2, <2>3
<1>8. CASE make_ast_def_class(n)
  <2>1. n \in Declarations /\ n.op = "DEF_CLASS" /\ null_args' = null_args
    BY <1>2, <1>8, StatementShape DEF make_ast_def_class
  <2>2. n.sym \in Name /\ (IF n.super = None THEN n.sym ELSE n.super) \in Name
    BY <2>1, DeclarationShape, Constants
  <2>3. Reduce(n.sym, IF n.super = None THEN n.sym ELSE n.super, FALSE)
    BY <1>8 DEF make_ast_def_class
  <2> QED
    BY <2>1, <2>2, <2>3, <1>1, <1>3, ReduceStep DEF Callables
<1>9. CASE make_ast_def_func(n)
  <2>1. n \in Declarations /\ n.op = "DEF_FUNC" /\ null_args' = null_args
    BY <1>2, <1>9, StatementShape DEF make_ast_def_func
  <2>2. n.sym \in Name
    BY <2>1, CallableShape DEF Callables
  <2>3. Reduce(n.sym, n.sym, TRUE)
    BY <1>9 DEF make_ast_def_func
  <2> QED
    BY <2>1, <2>2, <2>3, <1>1, <1>3, ReduceStep DEF Callables
<1>10. CASE make_ast_def_method(n)
  <2>1. n \in Declarations /\ n.op = "DEF_METHOD" /\ null_args' = null_args
    BY <1>2, <1>10, StatementShape DEF make_ast_def_method
  <2>2. n.sym \in Name /\ n.reciever \in Name
    BY <2>1, CallableShape, Constants DEF Callables
  <2>3. Reduce(n.reciever, n.sym, TRUE)
    BY <1>10 DEF make_ast_def_method
  <2> QED
    BY <2>1, <2>2, <2>3, <1>1, <1>3, ReduceStep DEF Callables
<1> QED
  BY <1>1, <1>5, <1>6, <1>7, <1>8, <1>9, <1>10

-----------------------------------------------------------------------------
(* The module after an instruction was appended to the current function:   *)
(* other functions keep what they have, and new ones are stubs.            *)
Grown(new, instr) ==
  /\ new \in Seq(Functions)
  /\ Len(llvm) <= Len(new)
  /\ \A f \in 1 .. Len(llvm) :
       /\ new[f].sym = llvm[f].sym /\ new[f].named = llvm[f].named
       /\ new[f].own = llvm[f].own /\ new[f].decl = llvm[f].decl
       /\ new[f].stores = llvm[f].stores
       /\ new[f].code = IF f = cur THEN Append(llvm[f].code, instr) ELSE llvm[f].code
  /\ \A f \in Len(llvm) + 1 .. Len(new) :
       new[f].own = 0 /\ new[f].code = <<>> /\ new[f].stores = {}

LEMMA FunctionShape ==
  ASSUME NEW f \in Functions
  PROVE  /\ f.sym \in Name /\ f.named \in BOOLEAN /\ f.own \in Nat /\ f.decl \in Nat
         /\ f.code \in Seq(Instrs)
         /\ f.stores \subseteq (Slots \X (Nat \ {0}))
BY DEF Functions

LEMMA WithCode ==
  ASSUME NEW f \in Functions, NEW c \in Seq(Instrs)
  PROVE  LET g == [f EXCEPT !.code = c] IN
         /\ g \in Functions /\ g.code = c
         /\ g.sym = f.sym /\ g.named = f.named /\ g.own = f.own /\ g.decl = f.decl
         /\ g.stores = f.stores
BY DEF Functions

LEMMA EmitGrows ==
  ASSUME TypeOK, NEW module \in Seq(Functions), NEW instr \in Instrs,
         cur \in 1 .. Len(llvm), Len(llvm) <= Len(module),
         \A f \in 1 .. Len(llvm) : module[f] = llvm[f],
         \A f \in Len(llvm) + 1 .. Len(module) :
           module[f].own = 0 /\ module[f].code = <<>> /\ module[f].stores = {}
  PROVE  Grown(Emit(module, instr), instr) /\ Len(Emit(module, instr)) = Len(module)
<1> DEFINE new == Emit(module, instr)
           fn == [module[cur] EXCEPT !.code = Append(module[cur].code, instr)]
<1>1. cur \in 1 .. Len(module) /\ module[cur] \in Functions /\ llvm \in Seq(Functions)
  BY DEF TypeOK
<1>2. Append(module[cur].code, instr) \in Seq(Instrs)
  BY <1>1, FunctionShape
<1>3. fn \in Functions /\ fn.code = Append(module[cur].code, instr)
      /\ fn.sym = module[cur].sym /\ fn.named = module[cur].named
      /\ fn.own = module[cur].own /\ fn.decl = module[cur].decl
      /\ fn.stores = module[cur].stores
  BY <1>1, <1>2, WithCode
<1>4. new = [module EXCEPT ![cur] = fn]
  BY DEF Emit
<1>5. /\ new \in Seq(Functions) /\ Len(new) = Len(module)
      /\ \A f \in 1 .. Len(module) : new[f] = IF f = cur THEN fn ELSE module[f]
  <2> HIDE DEF fn, new
  <2> QED
    BY <1>1, <1>3, <1>4, ExceptSeq
<1>6. /\ \A f \in 1 .. Len(llvm) : f \in 1 .. Len(module)
      /\ \A f \in Len(llvm) + 1 .. Len(module) : f \in 1 .. Len(module) /\ f # cur
  BY <1>1
<1>7. Len(llvm) \in Nat /\ Len(module) \in Nat
  BY <1>1
<1> HIDE DEF fn, new
<1>8. ASSUME NEW f \in 1 .. Len(llvm)
      PROVE  /\ new[f].sym = llvm[f].sym /\ new[f].named = llvm[f].named
             /\ new[f].own = llvm[f].own /\ new[f].decl = llvm[f].decl
             /\ new[f].stores = llvm[f].stores
             /\ new[f].code = IF f = cur THEN Append(llvm[f].code, instr) ELSE llvm[f].code
  BY <1>3, <1>5, <1>6
<1>9. ASSUME NEW f \in Len(llvm) + 1 .. Len(new)
      PROVE  new[f].own = 0 /\ new[f].code = <<>> /\ new[f].stores = {}
  BY <1>5, <1>6
<1>10. Grown(new, instr) /\ Len(new) = Len(module)
  BY <1>5, <1>8, <1>9 DEF Grown
<1> QED
  BY <1>10 DEF new

LEMMA StubShape ==
  ASSUME TypeOK, NEW n \in Name
  PROVE  LET m == getOrInsertFunction(n) IN
         /\ m \in Seq(Functions)
         /\ Len(llvm) <= Len(m)
         /\ \A f \in 1 .. Len(llvm) : m[f] = llvm[f]
         /\ \A f \in Len(llvm) + 1 .. Len(m) :
              m[f].own = 0 /\ m[f].code = <<>> /\ m[f].stores = {}
         /\ FunctionNamed(m, n) \in 1 .. Len(m)
         /\ m[FunctionNamed(m, n)].sym = n /\ m[FunctionNamed(m, n)].named
<1> DEFINE m == getOrInsertFunction(n)
           stub == [sym |-> n, named |-> TRUE, own |-> 0, decl |-> 0,
                    code |-> <<>>, stores |-> {}]
<1>1. llvm \in Seq(Functions) /\ stub \in Functions
  BY DEF TypeOK, Functions
<1>2. CASE Named(n) # {}
  <2>1. m = llvm
    BY <1>2 DEF getOrInsertFunction
  <2>2. \E i \in 1 .. Len(m) : m[i].sym = n /\ m[i].named
    BY <1>2, <2>1 DEF Named
  <2> HIDE DEF m
  <2> QED
    BY <1>1, <2>1, <2>2 DEF FunctionNamed, m
<1>3. CASE Named(n) = {}
  <2>1. m = Append(llvm, stub)
    BY <1>3 DEF getOrInsertFunction
  <2>2. stub.sym = n /\ stub.named /\ stub.own = 0 /\ stub.code = <<>> /\ stub.stores = {}
    OBVIOUS
  <2> HIDE DEF m, stub
  <2>3. /\ m \in Seq(Functions) /\ Len(m) = Len(llvm) + 1
        /\ \A f \in 1 .. Len(llvm) : m[f] = llvm[f]
        /\ m[Len(llvm) + 1] = stub
    BY <1>1, <2>1
  <2>4. Len(llvm) + 1 \in 1 .. Len(m)
        /\ \A f \in Len(llvm) + 1 .. Len(m) : f = Len(llvm) + 1
    BY <1>1, <2>3
  <2>5. \E i \in 1 .. Len(m) : m[i].sym = n /\ m[i].named
    BY <2>2, <2>3, <2>4
  <2> QED
    BY <1>1, <2>2, <2>3, <2>4, <2>5 DEF FunctionNamed, m
<1> QED
  BY <1>2, <1>3

-----------------------------------------------------------------------------
(* Lexical scoping, one statement further. *)
LEMMA NextStatement ==
  ASSUME NEW d, NEW s \in Nat \ {0}, NEW v
  PROVE  StaticKlass(d, s + 1, v) =
           IF d.body[s].op = "DEF_VAR" /\ d.body[s].sym = v THEN d.body[s].klass
           ELSE StaticKlass(d, s, v)
<1>1. CASE d.body[s].op = "DEF_VAR" /\ d.body[s].sym = v
  <2>1. s \in LocalDefs(d, s + 1, v) /\ \A i \in LocalDefs(d, s + 1, v) : i <= s /\ i \in Nat
    BY <1>1 DEF LocalDefs
  <2>2. Greatest(LocalDefs(d, s + 1, v)) = s
    BY <2>1 DEF Greatest
  <2> QED
    BY <1>1, <2>1, <2>2 DEF StaticKlass
<1>2. CASE ~(d.body[s].op = "DEF_VAR" /\ d.body[s].sym = v)
  <2>1. LocalDefs(d, s + 1, v) = LocalDefs(d, s, v)
    BY <1>2 DEF LocalDefs
  <2> QED
    BY <1>2, <2>1 DEF StaticKlass
<1> QED
  BY <1>1, <1>2

(* The statement the code generator is at. *)
LEMMA CodegenHead ==
  ASSUME IInv, cur # 0, work # <<>>
  PROVE  LET n == Head(work)
             d == AsCompiled(cur)
         IN  /\ cur \in Real /\ cur \in 1 .. Len(llvm)
             /\ llvm \in Seq(Functions)
             /\ Code(cur) \in Seq(Instrs)
             /\ Done \in Nat \ {0}
             /\ n \in Statements
             /\ n = d.body[Done]
             /\ Len(d.body) - Len(work) + 1 = Done
             /\ Len(Tail(work)) = Len(work) - 1 /\ Tail(work) \in Seq(Statements)
             /\ \A j \in 1 .. Len(Tail(work)) : Tail(work)[j] = d.body[Done + j]
<1> DEFINE d == AsCompiled(cur)
           L == Len(work)
           C == Len(Code(cur))
<1>1. /\ cur \in Real /\ work \in Seq(Statements)
      /\ C + L = Len(d.body)
      /\ \A j \in 1 .. L : work[j] = d.body[C + j]
  BY DEF IInv, Translating
<1>2. cur \in 1 .. Len(llvm) /\ llvm \in Seq(Functions)
  BY <1>1 DEF IInv, TypeOK, Real
<1>3. Code(cur) \in Seq(Instrs)
  BY <1>2, FunctionShape DEF Code
<1>4. C \in Nat /\ L \in Nat /\ L # 0
  BY <1>1, <1>3
<1>5. Head(work) = work[1] /\ Head(work) \in Statements
  BY <1>1, <1>4
<1>6. Done = C + 1
  BY DEF Done
<1>7. /\ Len(Tail(work)) = L - 1 /\ Tail(work) \in Seq(Statements)
      /\ \A j \in 1 .. L - 1 : Tail(work)[j] = work[j + 1]
  BY <1>1, <1>4
<1> HIDE DEF d, L, C
<1>8. Len(d.body) - L + 1 = Done /\ Done \in Nat \ {0}
  <2> DEFINE B == Len(d.body)
  <2>1. B = C + L
    BY <1>1
  <2> HIDE DEF B
  <2>2. B - L + 1 = C + 1 /\ C + 1 \in Nat \ {0}
    BY <1>4, <2>1
  <2> QED
    BY <1>6, <2>2 DEF B
<1>9. work[1] = d.body[Done]
  BY <1>1, <1>4, <1>6
<1>10. \A j \in 1 .. L - 1 : Tail(work)[j] = d.body[Done + j]
  <2> SUFFICES ASSUME NEW j \in 1 .. L - 1 PROVE Tail(work)[j] = d.body[Done + j]
    OBVIOUS
  <2>1. j + 1 \in 1 .. L /\ C + (j + 1) = Done + j
    BY <1>4, <1>6
  <2> QED
    BY <2>1, <1>1, <1>7
<1> QED
  BY <1>1, <1>2, <1>3, <1>5, <1>7, <1>8, <1>9, <1>10 DEF d, L

(* Functions that are already there stay what they are. *)
LEMMA GrownFunctions ==
  ASSUME IInv, NEW instr \in Instrs, Grown(llvm', instr), program' = program
  PROVE  /\ Real' = Real
         /\ \A f \in Real : AsCompiled(f)' = AsCompiled(f)
         /\ Len(llvm) \in Nat /\ Len(llvm') \in Nat
         /\ \A f \in 1 .. Len(llvm) : f \in 1 .. Len(llvm')
         /\ \A f \in 1 .. Len(llvm') : Code(f)' \in Seq(Instrs)
         /\ \A f \in 1 .. Len(llvm') : \A i \in 1 .. Len(Code(f)') :
              /\ f \in 1 .. Len(llvm)
              /\ \/ i \in 1 .. Len(Code(f)) /\ Code(f)'[i] = Code(f)[i]
                 \/ f = cur /\ i = Done /\ Code(f)'[i] = instr
<1>1. /\ llvm \in Seq(Functions) /\ llvm' \in Seq(Functions)
      /\ Len(llvm) <= Len(llvm')
      /\ Len(llvm) \in Nat /\ Len(llvm') \in Nat
  BY DEF IInv, TypeOK, Grown
<1>2. \A f \in 1 .. Len(llvm) : f \in 1 .. Len(llvm')
  BY <1>1
<1>3. \A f \in 1 .. Len(llvm') : f \in 1 .. Len(llvm) \/ f \in Len(llvm) + 1 .. Len(llvm')
  BY <1>1
<1>4. Real' = Real
  BY <1>2, <1>3 DEF Real, Stubs, Grown
<1>5. \A f \in Real : AsCompiled(f)' = AsCompiled(f)
  <2> SUFFICES ASSUME NEW f \in Real PROVE AsCompiled(f)' = AsCompiled(f)
    OBVIOUS
  <2>1. llvm'[f].own = llvm[f].own /\ llvm'[f].decl = llvm[f].decl
    BY DEF Real, Grown
  <2> QED
    BY <2>1 DEF AsCompiled
<1>6. \A f \in 1 .. Len(llvm') : Code(f)' \in Seq(Instrs)
  BY <1>1, FunctionShape DEF Code
<1>7. ASSUME NEW f \in 1 .. Len(llvm'), NEW i \in 1 .. Len(Code(f)')
      PROVE  /\ f \in 1 .. Len(llvm)
             /\ \/ i \in 1 .. Len(Code(f)) /\ Code(f)'[i] = Code(f)[i]
                \/ f = cur /\ i = Done /\ Code(f)'[i] = instr
  <2>1. CASE f \in Len(llvm) + 1 .. Len(llvm')
    <3>1. llvm'[f].code = <<>>
      BY <2>1 DEF Grown
    <3> QED
      BY <3>1 DEF Code
  <2>2. CASE f \in 1 .. Len(llvm)
    <3>1. llvm[f].code \in Seq(Instrs)
      BY <1>1, <2>2, FunctionShape
    <3>2. llvm'[f].code = IF f = cur THEN Append(llvm[f].code, instr) ELSE llvm[f].code
      BY <2>2 DEF Grown
    <3>3. CASE f # cur
      BY <2>2, <3>2, <3>3 DEF Code
    <3>4. CASE f = cur
      <4> DEFINE c == llvm[cur].code
                 e == Append(c, instr)
      <4>1. Code(f)' = e /\ Code(f) = c /\ Done = Len(c) + 1
        BY <3>2, <3>4 DEF Code, Done
      <4>2. c \in Seq(Instrs)
        BY <3>1, <3>4
      <4> HIDE DEF c
      <4>3. /\ Len(e) = Len(c) + 1 /\ Len(c) \in Nat
            /\ \A k \in 1 .. Len(c) : e[k] = c[k]
            /\ e[Len(c) + 1] = instr
        BY <4>2
      <4> HIDE DEF e
      <4>4. i \in 1 .. Len(c) \/ i = Len(c) + 1
        BY <4>1, <4>3
      <4> QED
        BY <2>2, <3>4, <4>1, <4>3, <4>4
    <3> QED
      BY <3>3, <3>4
  <2> QED
    BY <2>1, <2>2, <1>3
<1> QED
  BY <1>1, <1>2, <1>4, <1>5, <1>6, <1>7

(* A statement becomes one instruction. *)
LEMMA StatementStep ==
  ASSUME IInv, phase = "codegen", cur # 0, work # <<>>,
         NEW instr \in Instrs,
         Grown(llvm', instr),
         instr.op = "call" => instr.fn <= Len(llvm'),
         instr.op = "slot" =>
           instr.klass = StaticKlass(AsCompiled(cur), Done, instr.reciever),
         Head(work).op = "DEF_VAR" => Head(work).klass \in klasses \cup {Prim},
         vars' = IF Head(work).op = "DEF_VAR"
                 THEN makeMugichaVariable(vars, Head(work).sym, Head(work).klass, cur)
                 ELSE vars,
         work' = Tail(work),
         UNCHANGED <<program, phase, pos, klasses, method_map, cur, front, lli>>
  PROVE  IInv'
<1> DEFINE n == Head(work)
           d == AsCompiled(cur)
<1>1. /\ cur \in Real /\ cur \in 1 .. Len(llvm)
      /\ llvm \in Seq(Functions)
      /\ Code(cur) \in Seq(Instrs)
      /\ Done \in Nat \ {0}
      /\ n \in Statements
      /\ n = d.body[Done]
      /\ Len(d.body) - Len(work) + 1 = Done
      /\ Len(Tail(work)) = Len(work) - 1 /\ Tail(work) \in Seq(Statements)
      /\ \A j \in 1 .. Len(Tail(work)) : Tail(work)[j] = d.body[Done + j]
  BY CodegenHead
<1>2. /\ Real' = Real
      /\ \A f \in Real : AsCompiled(f)' = AsCompiled(f)
      /\ Len(llvm) \in Nat /\ Len(llvm') \in Nat
      /\ \A f \in 1 .. Len(llvm) : f \in 1 .. Len(llvm')
      /\ \A f \in 1 .. Len(llvm') : Code(f)' \in Seq(Instrs)
      /\ \A f \in 1 .. Len(llvm') : \A i \in 1 .. Len(Code(f)') :
           /\ f \in 1 .. Len(llvm)
           /\ \/ i \in 1 .. Len(Code(f)) /\ Code(f)'[i] = Code(f)[i]
              \/ f = cur /\ i = Done /\ Code(f)'[i] = instr
  BY GrownFunctions
<1>3. UNCHANGED <<syms, funcs, null_args, stack, table>>
  BY DEF front, lli
<1>4. /\ TypeOK /\ Tables /\ Functional /\ Translating /\ MapIsLexical /\ Variables
      /\ LiveFrames /\ ReceiversAreLexical
  BY DEF IInv
<1>5. Code(cur)' = Append(Code(cur), instr)
  BY <1>1 DEF Grown, Code
<1>6. Done' = Done + 1 /\ Len(Code(cur)') = Done
  <2>1. Len(Code(cur)') = Len(Code(cur)) + 1
    BY <1>1, <1>5
  <2>2. Done' = Len(Code(cur)') + 1
    BY DEF Done
  <2> QED
    BY <1>1, <2>1, <2>2 DEF Done
<1>7. TypeOK'
  <2>1. llvm' \in Seq(Functions) /\ Len(llvm) <= Len(llvm')
    BY DEF Grown
  <2>2. \A m \in 0 .. Len(llvm) : m \in 0 .. Len(llvm')
    BY <1>2, <2>1
  <2>3. vars' \in [Var -> [klass : Klass \cup {Prim, None}, owner : 0 .. Len(llvm)]]
    <3>1. CASE n.op = "DEF_VAR"
      <4>1. n.sym \in Var /\ n.klass \in Klass \cup {Prim}
        BY <3>1, <1>1, StatementShape, VarNodeShape
      <4>2. vars' = [vars EXCEPT ![n.sym] = [klass |-> n.klass, owner |-> cur]]
        BY <3>1 DEF makeMugichaVariable
      <4>3. cur \in 0 .. Len(llvm)
        BY <1>4 DEF TypeOK
      <4> HIDE DEF n
      <4>4. [klass |-> n.klass, owner |-> cur]
              \in [klass : Klass \cup {Prim, None}, owner : 0 .. Len(llvm)]
        BY <4>1, <4>3
      <4> QED
        BY <4>1, <4>2, <4>4, <1>4 DEF TypeOK
    <3>2. CASE n.op # "DEF_VAR"
      BY <3>2, <1>4 DEF TypeOK
    <3> QED
      BY <3>1, <3>2
  <2>4. vars' \in [Var -> [klass : Klass \cup {Prim, None}, owner : 0 .. Len(llvm')]]
    BY <2>2, <2>3
  <2>5. /\ method_map \in [Klass -> 0 .. Len(llvm')]
        /\ table \in [Slots -> 0 .. Len(llvm')]
        /\ cur \in 0 .. Len(llvm')
    BY <1>1, <1>4, <2>2 DEF TypeOK
  <2> QED
    BY <1>3, <1>4, <2>1, <2>4, <2>5 DEF TypeOK, Slots
<1>8. Tables'
  BY <1>4, <1>3, TablesStay DEF IInv
<1>9. Functional'
  <2>1. ASSUME NEW f \in Real'
        PROVE  /\ llvm'[f].own \in 1 .. Len(program)
               /\ program[llvm'[f].own].op \in Callables
               /\ llvm'[f].sym = program[llvm'[f].own].sym
               /\ llvm'[f].decl \in CallableDecls(program, llvm'[f].sym)
    <3>1. f \in Real /\ f \in 1 .. Len(llvm)
      BY <1>2 DEF Real
    <3>2. /\ llvm'[f].own = llvm[f].own /\ llvm'[f].sym = llvm[f].sym
          /\ llvm'[f].decl = llvm[f].decl
      BY <3>1 DEF Grown
    <3> QED
      BY <3>1, <3>2, <1>4 DEF Functional
  <2>2. ASSUME NEW f \in 1 .. Len(llvm'), NEW i \in 1 .. Len(Code(f)'), Code(f)'[i].op = "call"
        PROVE  Code(f)'[i].fn <= Len(llvm')
    <3>1. CASE f = cur /\ Code(f)'[i] = instr
      BY <2>2, <3>1
    <3>2. CASE i \in 1 .. Len(Code(f)) /\ Code(f)'[i] = Code(f)[i]
      <4>1. f \in 1 .. Len(llvm) /\ Code(f) \in Seq(Instrs)
        BY <1>1, <1>2, FunctionShape DEF Code
      <4>2. Code(f)[i].fn <= Len(llvm) /\ Code(f)[i] \in Instrs
        BY <4>1, <3>2, <2>2, <1>4 DEF Functional
      <4>3. Code(f)[i].fn \in Nat
        BY <4>2, <2>2, <3>2 DEF Instrs
      <4>4. Len(llvm) <= Len(llvm')
        BY DEF Grown
      <4> QED
        BY <3>2, <4>2, <4>3, <4>4, <1>2
    <3> QED
      BY <3>1, <3>2, <1>2
  <2>3. ASSUME NEW f \in 1 .. Len(llvm'), NEW st \in llvm'[f].stores
        PROVE  st[2] \in Real'
    <3>1. CASE f \in 1 .. Len(llvm)
      <4>1. llvm'[f].stores = llvm[f].stores
        BY <3>1 DEF Grown
      <4> QED
        BY <3>1, <4>1, <1>2, <1>4, <2>3 DEF Functional
    <3>2. CASE f \in Len(llvm) + 1 .. Len(llvm')
      BY <3>2, <2>3 DEF Grown
    <3>3. f \in 1 .. Len(llvm) \/ f \in Len(llvm) + 1 .. Len(llvm')
      BY <1>2
    <3> QED
      BY <3>1, <3>2, <3>3
  <2> QED
    BY <1>2, <1>4, <2>1, <2>2, <2>3 DEF Functional
<1>10. Translating'
  <2>1. AsCompiled(cur)' = d /\ cur \in Real' /\ llvm'[cur].own = pos
    BY <1>1, <1>2, <1>4 DEF Translating, Grown
  <2>2. work' \in Seq(Statements) /\ Len(Code(cur)') + Len(work') = Len(d.body)
    <3>1. Len(Code(cur)) + Len(work) = Len(d.body) /\ Len(work) \in Nat
      BY <1>4 DEF Translating
    <3>2. Len(work') = Len(work) - 1
      BY <1>1
    <3>3. Len(Code(cur)') = Len(Code(cur)) + 1 /\ Len(Code(cur)) \in Nat
      BY <1>1, <1>6 DEF Done
    <3> DEFINE C == Len(Code(cur))
               L == Len(work)
               B == Len(d.body)
               C1 == Len(Code(cur)')
               L1 == Len(work')
    <3>4. C + L = B /\ L \in Nat /\ L1 = L - 1 /\ C1 = C + 1 /\ C \in Nat
      BY <3>1, <3>2, <3>3
    <3> HIDE DEF C, L, B, C1, L1
    <3>5. C1 + L1 = B
      BY <3>4
    <3> QED
      BY <3>5, <1>1 DEF B, C1, L1
  <2>3. \A j \in 1 .. Len(work') : work'[j] = d.body[Len(Code(cur)') + j]
    BY <1>1, <1>6
  <2> QED
    BY <2>1, <2>2, <2>3, <1>4 DEF Translating
<1>11. MapIsLexical'
  <2>1. AsCompiled(cur)' = d
    BY <1>1, <1>2
  <2> SUFFICES ASSUME NEW v \in Var
               PROVE  StaticKlass(d, Done + 1, v) =
                        IF vars'[v].owner = cur THEN vars'[v].klass ELSE None
    BY <2>1, <1>6 DEF MapIsLexical
  <2>2. StaticKlass(d, Done, v) = IF vars[v].owner = cur THEN vars[v].klass ELSE None
    BY <1>4 DEF MapIsLexical
  <2>3. StaticKlass(d, Done + 1, v) =
          IF n.op = "DEF_VAR" /\ n.sym = v THEN n.klass ELSE StaticKlass(d, Done, v)
    <3>1. n = d.body[Done] /\ Done \in Nat \ {0}
      BY <1>1
    <3> HIDE DEF d, n
    <3>2. StaticKlass(d, Done + 1, v) =
            IF d.body[Done].op = "DEF_VAR" /\ d.body[Done].sym = v THEN d.body[Done].klass
            ELSE StaticKlass(d, Done, v)
      BY <3>1, NextStatement
    <3> QED
      BY <3>1, <3>2
  <2>4. n.op = "DEF_VAR" => n.sym \in Var
    BY <1>1, StatementShape, VarNodeShape
  <2>5. vars'[v] = IF n.op = "DEF_VAR" /\ n.sym = v
                   THEN [klass |-> n.klass, owner |-> cur] ELSE vars[v]
    <3> HIDE DEF n
    <3> QED
      BY <2>4, <1>4 DEF makeMugichaVariable, TypeOK, n
  <2> HIDE DEF n, d
  <2> QED
    BY <2>2, <2>3, <2>5
<1>12. Idle' /\ Reading'
  BY DEF Idle, Reading
<1>13. Variables'
  <2> SUFFICES ASSUME NEW v \in Var, vars'[v].owner # 0
               PROVE  vars'[v].klass \in klasses \cup {Prim}
    BY <1>4 DEF Variables
  <2>1. n.op = "DEF_VAR" => n.sym \in Var
    BY <1>1, StatementShape, VarNodeShape
  <2>2. vars'[v] = IF n.op = "DEF_VAR" /\ n.sym = v
                   THEN [klass |-> n.klass, owner |-> cur] ELSE vars[v]
    <3> HIDE DEF n
    <3> QED
      BY <2>1, <1>4 DEF makeMugichaVariable, TypeOK, n
  <2> HIDE DEF n
  <2> QED
    BY <2>2, <1>4 DEF Variables, n
<1>14. LiveFrames'
  BY <1>2, <1>3, <1>4 DEF LiveFrames, Slots
<1>15. ReceiversAreLexical'
  <2> SUFFICES ASSUME NEW f \in Real', NEW i \in 1 .. Len(Code(f)'),
                      Code(f)'[i].op = "slot"
               PROVE  Code(f)'[i].klass
                        = StaticKlass(AsCompiled(f)', i, Code(f)'[i].reciever)
    BY DEF ReceiversAreLexical, Real
  <2>1. f \in Real /\ f \in 1 .. Len(llvm')
    BY <1>2 DEF Real
  <2>2. AsCompiled(f)' = AsCompiled(f)
    BY <2>1, <1>2
  <2>3. CASE f = cur /\ i = Done /\ Code(f)'[i] = instr
    BY <2>2, <2>3
  <2>4. CASE i \in 1 .. Len(Code(f)) /\ Code(f)'[i] = Code(f)[i]
    BY <2>1, <2>2, <2>4, <1>4 DEF ReceiversAreLexical, Real
  <2> QED
    BY <2>1, <2>3, <2>4, <1>2
<1>16. UndefinedHasACause' /\ CrashHasACause'
  BY DEF UndefinedHasACause, CrashHasACause
<1> QED
  BY <1>7, <1>8, <1>9, <1>10, <1>11, <1>12, <1>13, <1>14, <1>15, <1>16 DEF IInv

(* The compiler stops with an error; nothing else changes. *)
LEMMA StopStep ==
  ASSUME IInv, phase = "codegen", phase' \in {"assert", "crash", "undefined"},
         UNCHANGED <<program, pos, work, front, back, lli>>,
         UndefinedHasACause', CrashHasACause'
  PROVE  IInv'
<1>1. UNCHANGED <<program, pos, work, syms, funcs, null_args, klasses, method_map,
                  vars, llvm, cur, stack, table>>
  BY DEF front, back, lli
<1>2. TypeOK'
  BY <1>1 DEF IInv, TypeOK, Phase, Slots
<1>3. Tables'
  BY <1>1, TablesStay DEF IInv
<1>4. Reading' /\ Idle'
  BY DEF Reading, Idle
<1>5. Functional'
  BY <1>1 DEF IInv, Functional, Real, Stubs, Code, CallableDecls
<1>6. /\ Stubs' = Stubs /\ Real' = Real
      /\ \A f : Code(f)' = Code(f) /\ AsCompiled(f)' = AsCompiled(f)
  BY <1>1 DEF Stubs, Real, Code, AsCompiled
<1>7. Translating'
  BY <1>1, <1>6 DEF IInv, Translating
<1>8. MapIsLexical'
  <2>1. Done' = Done
    BY <1>1, <1>6 DEF Done
  <2> QED
    BY <1>1, <1>6, <2>1 DEF IInv, MapIsLexical
<1>9. Variables' /\ LiveFrames'
  BY <1>1, <1>6 DEF IInv, Variables, LiveFrames, Slots
<1>10. ReceiversAreLexical'
  BY <1>1, <1>6 DEF IInv, ReceiversAreLexical
<1> QED
  BY <1>1, <1>2, <1>3, <1>4, <1>5, <1>7, <1>8, <1>9, <1>10 DEF IInv

(* Failing in the middle of a body, for a reason. *)
LEMMA StatementFails ==
  ASSUME IInv, phase = "codegen", cur # 0, work # <<>>,
         phase' \in {"assert", "crash", "undefined"},
         UNCHANGED <<program, pos, work, front, back, lli>>,
         phase' = "undefined" =>
           \/ Cardinality(klasses) > RowLen
           \/ /\ Head(work).op # "DEF_VAR" /\ Receiver(Head(work)) # None
              /\ StaticKlass(AsCompiled(cur), Done, Receiver(Head(work))) = None,
         phase' = "crash" =>
           FaultyStatement(Head(work),
                           StaticKlass(AsCompiled(cur), Done, Receiver(Head(work))))
  PROVE  IInv'
<1>1. UNCHANGED <<program, work, klasses, llvm, cur, stack>>
  BY DEF back, lli
<1>2. Len(AsCompiled(cur).body) - Len(work) + 1 = Done
  BY CodegenHead
<1>3. AsCompiled(cur)' = AsCompiled(cur)
  BY <1>1 DEF AsCompiled
<1>4. UndefinedHasACause'
  BY <1>1, <1>2, <1>3 DEF UndefinedHasACause
<1>5. CrashHasACause'
  BY <1>1, <1>2, <1>3 DEF CrashHasACause, FaultyStatement, CallableDecls
<1> QED
  BY <1>4, <1>5, StopStep

LEMMA DefVarStep ==
  ASSUME IInv, exec_def_var_codegen
  PROVE  IInv'
<1> DEFINE n == Head(work)
           instr == [op |-> "alloc", var |-> n.sym, klass |-> n.klass]
<1>1. /\ phase = "codegen" /\ cur # 0 /\ work # <<>> /\ n.op = "DEF_VAR"
      /\ UNCHANGED <<program, pos, klasses, method_map, cur, front, lli>>
  BY DEF exec_def_var_codegen, Compiling
<1>2. n \in VarNodes /\ cur \in 1 .. Len(llvm)
  BY <1>1, CodegenHead, StatementShape
<1>3. CASE ~Compiled(n.klass)
  <2>1. phase' = "assert" /\ UNCHANGED <<work, vars, llvm>>
    BY <1>3 DEF exec_def_var_codegen, Stop
  <2> QED
    BY <1>1, <2>1, StatementFails DEF back
<1>4. CASE Compiled(n.klass)
  <2>1. /\ vars' = makeMugichaVariable(vars, n.sym, n.klass, cur)
        /\ llvm' = Emit(llvm, instr)
        /\ work' = Tail(work)
        /\ UNCHANGED phase
    BY <1>4 DEF exec_def_var_codegen
  <2>2. instr \in Instrs /\ instr.op = "alloc"
    BY <1>2, VarNodeShape DEF Instrs
  <2>3. TypeOK /\ llvm \in Seq(Functions) /\ Len(llvm) \in Nat
    BY DEF IInv, TypeOK
  <2>4. Grown(llvm', instr)
    <3>1. Len(llvm) + 1 .. Len(llvm) = {}
      BY <2>3
    <3> HIDE DEF instr
    <3> QED
      BY <1>2, <2>1, <2>2, <2>3, <3>1, EmitGrows
  <2>5. n.klass \in klasses \cup {Prim}
    BY <1>4 DEF Compiled
  <2> HIDE DEF instr
  <2> QED
    BY <1>1, <2>1, <2>2, <2>4, <2>5, StatementStep
<1> QED
  BY <1>3, <1>4

(* The newest entry for a name is one of its declarations, if it has any. *)
LEMMA LastRegisteredIs ==
  ASSUME IInv, NEW s
  PROVE  /\ LastRegistered(s) # 0 =>
              LastRegistered(s) \in CallableDecls(program, s) /\ s \in Name
         /\ LastRegistered(s) = 0 => \A j \in 1 .. Len(funcs) : funcs[j].sym # s
<1> DEFINE i == lookup_func(funcs, s)
<1>1. funcs \in Seq([sym : Name, decl : Nat \ {0}]) /\ Len(funcs) \in Nat
  BY DEF IInv, TypeOK
<1>2. IF \E j \in 1 .. Len(funcs) : funcs[j].sym = s
      THEN i \in 1 .. Len(funcs) /\ funcs[i].sym = s ELSE i = 0
  BY <1>1, FuncFound
<1>3. LastRegistered(s) = IF i = 0 THEN 0 ELSE funcs[i].decl
  BY DEF LastRegistered
<1>4. \A j \in 1 .. Len(funcs) :
        /\ funcs[j].decl \in CallableDecls(program, funcs[j].sym)
        /\ funcs[j] \in [sym : Name, decl : Nat \ {0}]
        /\ j # 0
  <2>1. \A j \in 1 .. Len(funcs) : funcs[j].decl \in CallableDecls(program, funcs[j].sym)
    BY DEF IInv, Tables
  <2>2. \A j \in 1 .. Len(funcs) : funcs[j] \in [sym : Name, decl : Nat \ {0}] /\ j # 0
    <3> DEFINE Func == [sym : Name, decl : Nat \ {0}]
    <3> HIDE DEF Func
    <3>1. funcs \in Seq(Func)
      BY <1>1 DEF Func
    <3>2. \A j \in 1 .. Len(funcs) : funcs[j] \in Func /\ j # 0
      BY <3>1
    <3> QED
      BY <3>2 DEF Func
  <2> QED
    BY <2>1, <2>2
<1>5. \A j \in 1 .. Len(funcs) : funcs[j].sym \in Name /\ funcs[j].decl # 0
  BY <1>4
<1> HIDE DEF i
<1>6. CASE \E j \in 1 .. Len(funcs) : funcs[j].sym = s
  BY <1>2, <1>3, <1>4, <1>5, <1>6
<1>7. CASE ~\E j \in 1 .. Len(funcs) : funcs[j].sym = s
  BY <1>2, <1>3, <1>7
<1> QED
  BY <1>6, <1>7

LEMMA LastRegisteredNone ==
  ASSUME IInv, phase = "codegen", NEW s, LastRegistered(s) = 0
  PROVE  CallableDecls(program, s) = {}
<1> SUFFICES ASSUME NEW i \in 1 .. Len(program), program[i].op \in Callables,
                    program[i].sym = s
             PROVE  FALSE
  BY DEF CallableDecls
<1>1. \E j \in 1 .. Len(funcs) : funcs[j].sym = s
  BY DEF IInv, Tables
<1> QED
  BY <1>1, LastRegisteredIs

(* The entry of the map for a variable the current function has not got. *)
LEMMA NotMine ==
  ASSUME IInv, cur # 0, NEW v \in Var
  PROVE  /\ Unknown(v) \/ Foreign(v) => StaticKlass(AsCompiled(cur), Done, v) = None
         /\ ~Unknown(v) /\ ~Foreign(v) =>
              /\ StaticKlass(AsCompiled(cur), Done, v) = vars[v].klass
              /\ vars[v].klass \in klasses \cup {Prim}
BY DEF IInv, MapIsLexical, Unknown, Foreign, Variables

LEMMA CallFuncStep ==
  ASSUME IInv, exec_call_func_codegen
  PROVE  IInv'
<1> DEFINE n == Head(work)
           module == getOrInsertFunction(n.sym)
           crash == \/ LastRegistered(n.sym) = 0
                    \/ n.arg # None /\ (NullArg \/ Unknown(n.arg))
           bad == n.arg # None /\ Foreign(n.arg)
           instr == [op |-> "call", sym |-> n.sym, arg |-> n.arg,
                     fn |-> FunctionNamed(module, n.sym)]
           d == AsCompiled(cur)
<1>1. /\ phase = "codegen" /\ cur # 0 /\ work # <<>> /\ n.op = "CALL_FUNC"
      /\ UNCHANGED <<program, pos, klasses, method_map, vars, cur, front, lli>>
  BY DEF exec_call_func_codegen, Compiling
<1>2. /\ n \in Statements /\ cur \in 1 .. Len(llvm) /\ cur \in Real
      /\ n.sym \in Name /\ n.arg \in Var \cup {None}
      /\ n = d.body[Done] /\ Len(d.body) - Len(work) + 1 = Done
  BY <1>1, CodegenHead, StatementShape
<1>3. Receiver(n) = n.arg
  BY <1>1 DEF Receiver
<1>4. CASE crash
  <2>1. phase' = "crash" /\ UNCHANGED <<work, llvm>>
    BY <1>4 DEF exec_call_func_codegen, Stop
  <2>2. CASE LastRegistered(n.sym) = 0
    <3>1. CallableDecls(program, n.sym) = {}
      BY <1>1, <2>2, LastRegisteredNone
    <3> QED
      BY <1>1, <2>1, <3>1, StatementFails DEF back, FaultyStatement
  <2>3. CASE n.arg # None /\ Unknown(n.arg)
    <3>1. StaticKlass(d, Done, n.arg) = None
      BY <1>1, <1>2, <2>3, NotMine
    <3> QED
      BY <1>1, <1>3, <2>1, <2>3, <3>1, StatementFails DEF back, FaultyStatement
  <2>4. CASE n.arg # None /\ NullArg
    <3> DEFINE p == program[llvm[cur].decl]
    <3>1. Unseen(llvm[cur].decl, Len(work))
      <4>1. \A x \in null_args : Unseen(x[1], x[2])
        BY DEF IInv, Tables
      <4> QED
        BY <2>4, <4>1 DEF NullArg
    <3>2. d.args = p.args /\ d.body = p.body
      BY DEF AsCompiled
    <3>3. Formal(d.args, n.arg) = {} /\ LocalDefs(p, Done, n.arg) = {}
      BY <1>2, <3>1, <3>2 DEF Unseen
    <3>4. LocalDefs(d, Done, n.arg) = {}
      BY <3>2, <3>3 DEF LocalDefs
    <3>5. StaticKlass(d, Done, n.arg) = None \/ n.arg = This
      BY <3>3, <3>4 DEF StaticKlass
    <3> QED
      BY <1>1, <1>3, <2>1, <2>4, <3>5, StatementFails DEF back, FaultyStatement
  <2> QED
    BY <1>4, <2>2, <2>3, <2>4
<1>5. CASE ~crash /\ bad
  <2>1. phase' = "undefined" /\ UNCHANGED <<work, llvm>>
    BY <1>5 DEF exec_call_func_codegen, Stop
  <2>2. StaticKlass(d, Done, n.arg) = None
    BY <1>1, <1>2, <1>5, NotMine
  <2> QED
    BY <1>1, <1>3, <1>5, <2>1, <2>2, StatementFails DEF back
<1>6. CASE ~crash /\ ~bad
  <2>1. llvm' = Emit(module, instr) /\ work' = Tail(work) /\ UNCHANGED phase
    BY <1>6 DEF exec_call_func_codegen
  <2>2. TypeOK
    BY DEF IInv
  <2>3. /\ module \in Seq(Functions)
        /\ Len(llvm) <= Len(module)
        /\ \A f \in 1 .. Len(llvm) : module[f] = llvm[f]
        /\ \A f \in Len(llvm) + 1 .. Len(module) :
             module[f].own = 0 /\ module[f].code = <<>> /\ module[f].stores = {}
        /\ FunctionNamed(module, n.sym) \in 1 .. Len(module)
    BY <1>2, <2>2, StubShape
  <2>4. instr \in Instrs /\ instr.op = "call" /\ instr.fn = FunctionNamed(module, n.sym)
    <3>1. FunctionNamed(module, n.sym) \in Nat \ {0}
      BY <2>3
    <3> HIDE DEF module
    <3> QED
      BY <1>2, <3>1 DEF Instrs
  <2> HIDE DEF module, instr
  <2>5. Grown(llvm', instr) /\ Len(llvm') = Len(module)
    BY <1>2, <2>1, <2>2, <2>3, <2>4, EmitGrows
  <2>6. instr.fn <= Len(llvm')
    BY <2>3, <2>4, <2>5
  <2> QED
    BY <1>1, <2>1, <2>4, <2>5, <2>6, StatementStep
<1> QED
  BY <1>4, <1>5, <1>6

(* A row and a column of an array of r rows. *)
LEMMA RowInArray ==
  ASSUME NEW r \in Nat \ {0}, NEW d \in Nat, d < r
  PROVE  d * r + 0 \in 0 .. r * r - 1
<1>1. d * r >= 0 /\ d * r \in Int /\ r * r \in Int
  OBVIOUS
<1>2. (r - d) * r = r * r - d * r
  OBVIOUS
<1>3. PICK e \in Nat : r - d = e + 1
  <2>1. r - d - 1 \in Nat
    OBVIOUS
  <2> QED
    BY <2>1
<1>4. (e + 1) * r = e * r + r /\ e * r \in Nat
  OBVIOUS
<1>5. r * r - d * r = e * r + r
  BY <1>2, <1>3, <1>4
<1> QED
  BY <1>1, <1>4, <1>5

(* Only with more classes than rows is there an index outside the array. *)
LEMMA DefIdBound ==
  ASSUME IInv, NEW k \in klasses
  PROVE  /\ getDefId(k) \in Nat
         /\ Cardinality(klasses) <= RowLen => getMethodArrayIndex(k) \in Slots
         /\ Cardinality(klasses) \in Nat
<1> DEFINE S == {j \in klasses : KlassRank[j] < KlassRank[k]}
           K == klasses \ {k}
<1>1. IsFiniteSet(klasses) /\ klasses \subseteq Klass
  BY DEF IInv, TypeOK, Variables
<1>2. IsFiniteSet(K) /\ Cardinality(K) = Cardinality(klasses) - 1
  BY <1>1, FS_RemoveElement
<1>3. S \in SUBSET K
  BY <1>1, RankAssumption
<1>4. IsFiniteSet(S) /\ Cardinality(S) <= Cardinality(K)
  <2> HIDE DEF S, K
  <2> QED
    BY <1>2, <1>3, FS_Subset
<1>5. Cardinality(S) \in Nat /\ Cardinality(K) \in Nat /\ Cardinality(klasses) \in Nat
  BY <1>1, <1>2, <1>4, FS_CardinalityType
<1>6. getDefId(k) = Cardinality(S)
  BY DEF getDefId
<1> HIDE DEF S, K
<1>7. ASSUME Cardinality(klasses) <= RowLen PROVE getMethodArrayIndex(k) \in Slots
  <2>1. getDefId(k) \in Nat /\ getDefId(k) < RowLen /\ RowLen \in Nat \ {0}
    BY <1>2, <1>4, <1>5, <1>6, <1>7, RowAssumption
  <2>2. getDefId(k) * RowLen + 0 \in 0 .. RowLen * RowLen - 1
    BY <2>1, RowInArray
  <2> QED
    BY <2>2 DEF getMethodArrayIndex, getMethodId, Slots
<1> QED
  BY <1>5, <1>6, <1>7

LEMMA CallMethodStep ==
  ASSUME IInv, exec_call_method_codegen
  PROVE  IInv'
<1> DEFINE n == Head(work)
           k == vars[n.reciever].klass
           module == getOrInsertFunction(n.sym)
           crash == LastRegistered(n.sym) = 0 \/ Unknown(n.reciever) \/ k = Prim
           bad == Foreign(n.reciever) \/ getMethodArrayIndex(k) \notin Slots
           instr == [op |-> "slot", sym |-> n.sym, reciever |-> n.reciever,
                     klass |-> k, slot |-> getMethodArrayIndex(k)]
           static == StaticKlass(AsCompiled(cur), Done, n.reciever)
<1>1. /\ phase = "codegen" /\ cur # 0 /\ work # <<>> /\ n.op = "CALL_METHOD"
      /\ UNCHANGED <<program, pos, klasses, method_map, vars, cur, front, lli>>
  BY DEF exec_call_method_codegen, Compiling
<1>2. /\ n \in Statements /\ cur \in 1 .. Len(llvm) /\ n.reciever \in Var
  BY <1>1, CodegenHead, StatementShape
<1>3. Receiver(n) = n.reciever /\ n.reciever # None
  BY <1>1, <1>2, Constants DEF Receiver
<1>4. /\ Unknown(n.reciever) \/ Foreign(n.reciever) => static = None
      /\ ~Unknown(n.reciever) /\ ~Foreign(n.reciever) =>
           static = k /\ k \in klasses \cup {Prim}
  BY <1>1, <1>2, NotMine
<1>5. CASE crash
  <2>1. phase' = "crash" /\ UNCHANGED <<work, llvm>>
    BY <1>5 DEF exec_call_method_codegen, Stop
  <2>2. CASE LastRegistered(n.sym) = 0
    <3>1. CallableDecls(program, n.sym) = {}
      BY <1>1, <2>2, LastRegisteredNone
    <3> QED
      BY <1>1, <2>1, <3>1, StatementFails DEF back, FaultyStatement
  <2>3. CASE Unknown(n.reciever) \/ k = Prim
    <3>1. static \in {None, Prim}
      BY <2>3, <1>4
    <3> QED
      BY <1>1, <1>3, <2>1, <3>1, StatementFails DEF back, FaultyStatement
  <2> QED
    BY <1>5, <2>2, <2>3
<1>6. CASE ~crash /\ bad
  <2>1. phase' = "undefined" /\ UNCHANGED <<work, llvm>>
    BY <1>6 DEF exec_call_method_codegen, Stop
  <2>2. Cardinality(klasses) > RowLen \/ static = None
    <3>1. CASE Foreign(n.reciever)
      BY <3>1, <1>4
    <3>2. CASE ~Foreign(n.reciever)
      <4>1. k \in klasses /\ getMethodArrayIndex(k) \notin Slots
        BY <3>2, <1>4, <1>6
      <4>2. ~(Cardinality(klasses) <= RowLen) /\ Cardinality(klasses) \in Nat
        BY <4>1, DefIdBound
      <4> QED
        BY <4>2, RowAssumption
    <3> QED
      BY <3>1, <3>2
  <2> QED
    BY <1>1, <1>3, <2>1, <2>2, StatementFails DEF back
<1>7. CASE ~crash /\ ~bad
  <2>1. llvm' = Emit(module, instr) /\ work' = Tail(work) /\ UNCHANGED phase
    BY <1>7 DEF exec_call_method_codegen, MethodStub
  <2>2. TypeOK /\ n.sym \in Name
    BY <1>7, LastRegisteredIs DEF IInv
  <2>3. /\ module \in Seq(Functions)
        /\ Len(llvm) <= Len(module)
        /\ \A f \in 1 .. Len(llvm) : module[f] = llvm[f]
        /\ \A f \in Len(llvm) + 1 .. Len(module) :
             module[f].own = 0 /\ module[f].code = <<>> /\ module[f].stores = {}
    BY <1>2, <2>2, StubShape
  <2>4. k \in klasses /\ k \in Klass /\ static = k /\ getMethodArrayIndex(k) \in Slots
    BY <1>4, <1>7 DEF IInv, TypeOK
  <2>5. instr \in Instrs /\ instr.op = "slot"
        /\ instr.reciever = n.reciever /\ instr.klass = k
    BY <1>2, <2>2, <2>4 DEF Instrs
  <2>6. Grown(llvm', instr)
    <3> HIDE DEF module, instr
    <3> QED
      BY <1>2, <2>1, <2>2, <2>3, <2>5, EmitGrows
  <2>7. instr.klass = StaticKlass(AsCompiled(cur), Done, instr.reciever)
    BY <2>4, <2>5
  <2> HIDE DEF module, instr
  <2> QED
    BY <1>1, <2>1, <2>5, <2>6, <2>7, StatementStep
<1> QED
  BY <1>5, <1>6, <1>7

-----------------------------------------------------------------------------
(* A function is begun: its variables are those lexical scoping provides   *)
(* at its first statement.                                                 *)
LEMMA BeginStep ==
  ASSUME IInv, phase = "codegen", cur = 0, pos \in 1 .. Len(program),
         program[pos].op \in Callables,
         NEW fn, fn = Len(llvm) + 1,
         NEW decl, decl = LastRegistered(program[pos].sym),
         ArgsCompiled(program[decl].args),
         program[pos].op = "DEF_METHOD" => program[pos].reciever \in klasses,
         NEW map,
         map = IF program[pos].op = "DEF_METHOD" /\ program[decl].args # <<>>
               THEN makeMugichaVariable(vars, This, program[pos].reciever, fn)
               ELSE vars,
         BeginFunction(program[pos], decl, map),
         method_map' = IF program[pos].op = "DEF_METHOD"
                       THEN addMethod(program[pos].reciever, fn)
                       ELSE method_map,
         UNCHANGED <<program, front, lli>>
  PROVE  IInv'
<1> DEFINE d == program[pos]
           new == NewFunction(d.sym, decl)
           args == program[decl].args
           body == program[decl].body
           V == [klass : Klass \cup {Prim, None}, owner : 0 .. fn]
<1>1. /\ d \in Declarations /\ Len(program) \in Nat /\ pos \in Nat
      /\ d.sym \in Name
      /\ d.op = "DEF_METHOD" => d.reciever \in Klass
  BY ProgramShape, CallableShape DEF IInv
<1>2. /\ decl \in CallableDecls(program, d.sym)
      /\ decl \in 1 .. Len(program) /\ program[decl].op \in Callables
  <2>1. pos \in CallableDecls(program, d.sym)
    BY DEF CallableDecls
  <2>2. decl # 0
    BY <2>1, LastRegisteredNone
  <2>3. decl \in CallableDecls(program, d.sym)
    BY <2>2, LastRegisteredIs
  <2> QED
    BY <2>3 DEF CallableDecls
<1>3. /\ args \in Seq(VarNodes) /\ body \in Seq(Statements)
  BY <1>2, ProgramShape, CallableShape DEF IInv
<1>4. /\ llvm \in Seq(Functions) /\ Len(llvm) \in Nat
      /\ TypeOK /\ Tables /\ Functional /\ Variables /\ LiveFrames /\ ReceiversAreLexical
  BY DEF IInv, TypeOK
<1>5. /\ new \in Functions
      /\ new.sym = d.sym /\ new.own = pos /\ new.decl = decl
      /\ new.code = <<>> /\ new.stores = {}
  BY <1>1, <1>2 DEF NewFunction, Functions
<1>6. /\ llvm' = Append(llvm, new) /\ cur' = fn /\ vars' = WithArgs(map, args, fn)
      /\ work' = body
      /\ UNCHANGED <<phase, pos, klasses, program, syms, funcs, null_args, stack, table>>
  BY DEF BeginFunction, front, lli
<1>7. /\ llvm' \in Seq(Functions) /\ Len(llvm') = fn
      /\ \A f \in 1 .. Len(llvm) : llvm'[f] = llvm[f]
      /\ llvm'[fn] = new
  <2> HIDE DEF new
  <2> QED
    BY <1>4, <1>5, <1>6
<1>8. /\ \A f \in 1 .. Len(llvm') : f \in 1 .. Len(llvm) \/ f = fn
      /\ \A f \in 1 .. Len(llvm) : f \in 1 .. Len(llvm') /\ f # fn
      /\ fn \in 1 .. Len(llvm') /\ fn # 0
  BY <1>4, <1>7
<1> HIDE DEF new
<1>9. Real' = Real \cup {fn}
  BY <1>1, <1>5, <1>7, <1>8 DEF Real, Stubs
<1>10. \A f \in 1 .. Len(llvm) : AsCompiled(f)' = AsCompiled(f) /\ Code(f)' = Code(f)
  BY <1>6, <1>7 DEF AsCompiled, Code
<1>11. /\ AsCompiled(fn)'.body = body /\ AsCompiled(fn)'.args = args
       /\ AsCompiled(fn)'.op = d.op
       /\ d.op = "DEF_METHOD" => AsCompiled(fn)'.reciever = d.reciever
  BY <1>5, <1>6, <1>7 DEF AsCompiled, Callables
<1>12. Code(fn)' = <<>> /\ Len(Code(fn)') = 0
  BY <1>5, <1>7 DEF Code
<1>13. map \in [Var -> V]
  <2>1. vars \in [Var -> V]
    <3>1. \A m \in 0 .. Len(llvm) : m \in 0 .. fn
      BY <1>4
    <3> QED
      BY <3>1, <1>4 DEF TypeOK
  <2>2. [klass |-> d.reciever, owner |-> fn] \in V \/ d.op # "DEF_METHOD"
    BY <1>1, <1>4
  <2> HIDE DEF d, V
  <2> QED
    BY <2>1, <2>2, Constants DEF makeMugichaVariable, d
<1>14. \A v \in Var :
         map[v] = IF d.op = "DEF_METHOD" /\ args # <<>> /\ v = This
                  THEN [klass |-> d.reciever, owner |-> fn] ELSE vars[v]
  BY <1>4 DEF makeMugichaVariable, TypeOK
<1>15. \A v \in Var : Formal(args, v) # {} =>
         /\ \/ args[Greatest(Formal(args, v))].klass \in Klass
            \/ args[Greatest(Formal(args, v))].klass = Prim
         /\ args[Greatest(Formal(args, v))].klass \in klasses \cup {Prim}
  <2> SUFFICES ASSUME NEW v \in Var, Formal(args, v) # {}
               PROVE  LET k == args[Greatest(Formal(args, v))].klass IN
                      (k \in Klass \/ k = Prim) /\ k \in klasses \cup {Prim}
    OBVIOUS
  <2>1. Formal(args, v) \subseteq 1 .. Len(args) /\ Len(args) \in Nat
    <3> HIDE DEF args
    <3>1. Formal(args, v) \subseteq 1 .. Len(args)
      BY DEF Formal
    <3> QED
      BY <1>3, <3>1
  <2>2. Greatest(Formal(args, v)) \in 1 .. Len(args)
    <3> HIDE DEF args
    <3> QED
      BY <2>1, HasGreatest
  <2> DEFINE g == Greatest(Formal(args, v))
  <2> HIDE DEF g
  <2>3. args[g] \in VarNodes /\ Compiled(args[g].klass)
    BY <2>2, <1>3 DEF ArgsCompiled, g
  <2> QED
    BY <2>3, VarNodeShape DEF Compiled, g
<1>16. \A v \in Var :
         vars'[v] = IF Formal(args, v) # {}
                    THEN [klass |-> args[Greatest(Formal(args, v))].klass, owner |-> fn]
                    ELSE map[v]
  <2> HIDE DEF args, V
  <2> QED
    BY <1>6, <1>13 DEF WithArgs, makeMugichaVariable
<1> DEFINE special(v) == d.op = "DEF_METHOD" /\ args # <<>> /\ v = This
           argklass(v) == args[Greatest(Formal(args, v))].klass
<1>28. /\ \A v \in Var : Formal(args, v) # {} =>
            /\ vars'[v] = [klass |-> argklass(v), owner |-> fn]
            /\ vars'[v].klass = argklass(v) /\ vars'[v].owner = fn
       /\ \A v \in Var : Formal(args, v) = {} /\ special(v) =>
            /\ vars'[v] = [klass |-> d.reciever, owner |-> fn]
            /\ vars'[v].klass = d.reciever /\ vars'[v].owner = fn
       /\ \A v \in Var : Formal(args, v) = {} /\ ~special(v) => vars'[v] = vars[v]
  <2>1. ASSUME NEW v \in Var
        PROVE  vars'[v] = IF Formal(args, v) # {}
                          THEN [klass |-> argklass(v), owner |-> fn]
                          ELSE IF special(v)
                               THEN [klass |-> d.reciever, owner |-> fn]
                               ELSE vars[v]
    <3>1. vars'[v] = IF Formal(args, v) # {}
                     THEN [klass |-> argklass(v), owner |-> fn] ELSE map[v]
      BY <1>16
    <3>2. map[v] = IF special(v) THEN [klass |-> d.reciever, owner |-> fn] ELSE vars[v]
      BY <1>14
    <3> HIDE DEF special, argklass, args, d
    <3> QED
      BY <3>1, <3>2
  <2>2. ASSUME NEW v \in Var, Formal(args, v) # {}
        PROVE  /\ vars'[v] = [klass |-> argklass(v), owner |-> fn]
               /\ vars'[v].klass = argklass(v) /\ vars'[v].owner = fn
    <3>1. vars'[v] = [klass |-> argklass(v), owner |-> fn]
      BY <2>1, <2>2
    <3> QED
      BY <3>1
  <2>3. ASSUME NEW v \in Var, Formal(args, v) = {}, special(v)
        PROVE  /\ vars'[v] = [klass |-> d.reciever, owner |-> fn]
               /\ vars'[v].klass = d.reciever /\ vars'[v].owner = fn
    <3>1. vars'[v] = [klass |-> d.reciever, owner |-> fn]
      BY <2>1, <2>3
    <3> QED
      BY <3>1
  <2>4. ASSUME NEW v \in Var, Formal(args, v) = {}, ~special(v)
        PROVE  vars'[v] = vars[v]
    BY <2>1, <2>4
  <2> QED
    BY <2>2, <2>3, <2>4
<1>29. fn \in Nat /\ fn \in 0 .. fn
  BY <1>4
<1>17. TypeOK'
  <2>1. ASSUME NEW v \in Var PROVE vars'[v] \in V
    <3>1. CASE Formal(args, v) # {}
      <4>1. argklass(v) \in Klass \cup {Prim}
        BY <3>1, <1>15
      <4>2. vars'[v] = [klass |-> argklass(v), owner |-> fn]
        BY <3>1, <1>28
      <4> HIDE DEF argklass
      <4> QED
        BY <4>1, <4>2, <1>29
    <3>2. CASE Formal(args, v) = {} /\ special(v)
      <4>1. d.reciever \in Klass /\ fn \in 0 .. fn
        BY <3>2, <1>1, <1>29
      <4> HIDE DEF d
      <4> QED
        BY <3>2, <4>1, <1>28
    <3>3. CASE Formal(args, v) = {} /\ ~special(v)
      <4>1. vars'[v] = vars[v] /\ vars[v] \in [klass : Klass \cup {Prim, None}, owner : 0 .. Len(llvm)]
        BY <3>3, <1>4, <1>28 DEF TypeOK
      <4>2. \A m \in 0 .. Len(llvm) : m \in 0 .. fn
        BY <1>4
      <4> QED
        BY <4>1, <4>2
    <3> QED
      BY <3>1, <3>2, <3>3
  <2>2. vars' \in [Var -> V]
    <3> HIDE DEF V
    <3> QED
      BY <1>6, <2>1 DEF WithArgs
  <2>3. \A m \in 0 .. Len(llvm) : m \in 0 .. Len(llvm')
    BY <1>4, <1>7
  <2>4. cur' \in 0 .. Len(llvm')
    BY <1>6, <1>7, <1>29
  <2>5. table' \in [Slots -> 0 .. Len(llvm')]
    <3>1. table \in [Slots -> 0 .. Len(llvm)] /\ table' = table
      BY <1>4, <1>6 DEF TypeOK
    <3> QED
      BY <2>3, <3>1
  <2>6. method_map' \in [Klass -> 0 .. Len(llvm')]
    <3>1. method_map \in [Klass -> 0 .. Len(llvm')]
      BY <1>4, <2>3 DEF TypeOK
    <3>2. fn \in 0 .. Len(llvm')
      BY <1>7, <1>29
    <3> HIDE DEF d
    <3> QED
      BY <1>1, <3>1, <3>2 DEF addMethod, d
  <2>7. /\ phase' \in Phase /\ pos' \in 1 .. Len(program') + 1
        /\ Len(syms') <= SYMBOL_MAX /\ syms' \in Seq(Name)
        /\ Len(funcs') <= FUNC_MAX /\ funcs' \in Seq([sym : Name, decl : Nat \ {0}])
        /\ null_args' \subseteq (Nat \X Nat) /\ klasses' \subseteq Klass
        /\ stack' \in Seq(Frames)
    BY <1>4, <1>6 DEF TypeOK
  <2>8. vars' \in [Var -> [klass : Klass \cup {Prim, None}, owner : 0 .. Len(llvm')]]
    BY <1>7, <2>2
  <2> QED
    BY <1>7, <2>4, <2>5, <2>6, <2>7, <2>8 DEF TypeOK, Slots
<1>18. Tables'
  BY <1>4, <1>6, TablesStay DEF IInv
<1>19. Functional'
  <2>1. ASSUME NEW f \in Real'
        PROVE  /\ llvm'[f].own \in 1 .. Len(program)
               /\ program[llvm'[f].own].op \in Callables
               /\ llvm'[f].sym = program[llvm'[f].own].sym
               /\ llvm'[f].decl \in CallableDecls(program, llvm'[f].sym)
    <3>1. CASE f = fn
      BY <1>2, <1>5, <1>7, <3>1
    <3>2. CASE f \in Real
      <4>1. llvm'[f] = llvm[f]
        BY <3>2, <1>7 DEF Real
      <4> QED
        BY <3>2, <4>1, <1>4 DEF Functional
    <3> QED
      BY <3>1, <3>2, <1>9
  <2>2. ASSUME NEW f \in 1 .. Len(llvm'), NEW i \in 1 .. Len(Code(f)'), Code(f)'[i].op = "call"
        PROVE  Code(f)'[i].fn <= Len(llvm')
    <3>1. f # fn
      BY <1>12
    <3>2. f \in 1 .. Len(llvm) /\ Code(f)' = Code(f) /\ Code(f) \in Seq(Instrs)
      BY <3>1, <1>4, <1>8, <1>10, FunctionShape DEF Code
    <3>3. Code(f)[i].fn <= Len(llvm) /\ Code(f)[i] \in Instrs
      BY <3>2, <2>2, <1>4 DEF Functional
    <3>4. Code(f)[i].fn \in Nat
      BY <3>2, <3>3, <2>2 DEF Instrs
    <3> QED
      BY <3>2, <3>3, <3>4, <1>4, <1>7
  <2>3. ASSUME NEW f \in 1 .. Len(llvm'), NEW st \in llvm'[f].stores
        PROVE  st[2] \in Real'
    <3>1. f \in 1 .. Len(llvm) /\ llvm'[f] = llvm[f]
      BY <2>3, <1>5, <1>7, <1>8
    <3> QED
      BY <3>1, <2>3, <1>4, <1>9 DEF Functional
  <2>4. ASSUME NEW k \in Klass, method_map'[k] # 0
        PROVE  method_map'[k] \in Real'
    <3>1. method_map'[k] = fn \/ method_map'[k] = method_map[k]
      BY <1>1, <1>4 DEF addMethod, TypeOK
    <3> QED
      BY <3>1, <2>4, <1>4, <1>9 DEF Functional
  <2> QED
    BY <1>6, <2>1, <2>2, <2>3, <2>4 DEF Functional
<1>20. Translating'
  <2>1. cur' \in Real' /\ llvm'[cur'].own = pos'
    BY <1>5, <1>6, <1>7, <1>9
  <2>2. AsCompiled(cur)'.body = body /\ Code(cur)' = <<>>
    BY <1>6, <1>11, <1>12 DEF AsCompiled, Code
  <2> DEFINE B == Len(body)
             e == AsCompiled(cur)'
             c == Code(cur)'
  <2>3. work' = body /\ cur' = fn /\ phase' = "codegen" /\ e.body = body /\ c = <<>>
    BY <1>6, <2>2
  <2>4. B \in Nat /\ Len(<<>>) = 0
    BY <1>3
  <2> HIDE DEF body, B, e, c
  <2>5. 0 + B = B /\ \A j \in 1 .. B : 0 + j = j
    BY <2>4
  <2>6. Len(c) + Len(work') = Len(e.body)
    BY <2>3, <2>4, <2>5 DEF B
  <2>7. \A j \in 1 .. Len(work') : work'[j] = e.body[Len(c) + j]
    BY <2>3, <2>4, <2>5 DEF B
  <2> QED
    BY <1>3, <2>1, <2>3, <2>6, <2>7 DEF Translating, c, e
<1>21. MapIsLexical'
  <2>1. Done' = 1
    BY <1>6, <1>12 DEF Done, Code
  <2>2. AsCompiled(cur)' = AsCompiled(fn)'
    BY <1>6 DEF AsCompiled
  <2> DEFINE e == AsCompiled(fn)'
  <2> SUFFICES ASSUME NEW v \in Var
               PROVE  StaticKlass(e, 1, v)
                        = IF vars'[v].owner = fn THEN vars'[v].klass ELSE None
    BY <1>6, <2>1, <2>2 DEF MapIsLexical
  <2>3. vars[v].owner # fn
    <3>1. vars[v].owner \in 0 .. Len(llvm)
      BY <1>4 DEF TypeOK
    <3> QED
      BY <3>1, <1>4
  <2>4. LocalDefs(e, 1, v) = {}
    BY DEF LocalDefs
  <2>5. /\ e.args = args /\ e.op = d.op
        /\ d.op = "DEF_METHOD" => e.reciever = d.reciever
    BY <1>11
  <2>7. CASE Formal(args, v) # {}
    BY <2>7, <2>4, <2>5, <1>28 DEF StaticKlass
  <2>8. CASE Formal(args, v) = {} /\ special(v)
    BY <2>8, <2>4, <2>5, <1>28 DEF StaticKlass
  <2>9. CASE Formal(args, v) = {} /\ ~special(v)
    BY <2>9, <2>3, <2>4, <2>5, <1>28 DEF StaticKlass
  <2> QED
    BY <2>7, <2>8, <2>9
<1>22. Idle' /\ Reading'
  BY <1>6, <1>8 DEF Idle, Reading
<1>23. Variables'
  <2> SUFFICES ASSUME NEW v \in Var, vars'[v].owner # 0
               PROVE  vars'[v].klass \in klasses \cup {Prim}
    BY <1>4, <1>6 DEF Variables
  <2>1. CASE Formal(args, v) # {}
    BY <2>1, <1>15, <1>28
  <2>2. CASE Formal(args, v) = {} /\ special(v)
    BY <2>2, <1>28
  <2>3. CASE Formal(args, v) = {} /\ ~special(v)
    BY <2>3, <1>4, <1>28 DEF Variables
  <2> QED
    BY <2>1, <2>2, <2>3
<1>24. LiveFrames'
  BY <1>4, <1>6, <1>9 DEF LiveFrames, Slots
<1>25. ReceiversAreLexical'
  <2> SUFFICES ASSUME NEW f \in Real', NEW i \in 1 .. Len(Code(f)'),
                      Code(f)'[i].op = "slot"
               PROVE  Code(f)'[i].klass
                        = StaticKlass(AsCompiled(f)', i, Code(f)'[i].reciever)
    BY DEF ReceiversAreLexical, Real
  <2>1. f \in Real /\ f \in 1 .. Len(llvm)
    BY <1>9, <1>12 DEF Real
  <2> QED
    BY <2>1, <1>4, <1>10 DEF ReceiversAreLexical, Real
<1>26. UndefinedHasACause' /\ CrashHasACause'
  BY <1>6 DEF UndefinedHasACause, CrashHasACause
<1>27. program' \in Programs
  BY <1>6 DEF IInv
<1> QED
  BY <1>17, <1>18, <1>19, <1>20, <1>21, <1>22, <1>23, <1>24, <1>25, <1>26, <1>27 DEF IInv

LEMMA DefFuncStep ==
  ASSUME IInv, exec_def_func_codegen
  PROVE  IInv'
<1>1. /\ phase = "codegen" /\ cur = 0 /\ pos <= Len(program)
      /\ program[pos].op = "DEF_FUNC"
      /\ UNCHANGED <<program, front, lli>>
  BY DEF exec_def_func_codegen
<1>2. pos \in 1 .. Len(program) /\ work = <<>>
  BY <1>1 DEF IInv, TypeOK, Idle
<1> DEFINE decl == LastRegistered(program[pos].sym)
<1>3. CASE ~ArgsCompiled(program[decl].args)
  <2>1. phase' = "assert" /\ UNCHANGED <<pos, work, back>>
    BY <1>3 DEF exec_def_func_codegen, Stop
  <2>2. UndefinedHasACause' /\ CrashHasACause'
    BY <2>1 DEF UndefinedHasACause, CrashHasACause
  <2> QED
    BY <1>1, <2>1, <2>2, StopStep
<1>4. CASE ArgsCompiled(program[decl].args)
  <2>1. BeginFunction(program[pos], decl, vars) /\ UNCHANGED method_map
    BY <1>4 DEF exec_def_func_codegen
  <2> HIDE DEF decl
  <2> QED
    BY <1>1, <1>2, <1>4, <2>1, BeginStep DEF Callables, decl
<1> QED
  BY <1>3, <1>4

LEMMA DefMethodStep ==
  ASSUME IInv, exec_def_method_codegen
  PROVE  IInv'
<1>1. /\ phase = "codegen" /\ cur = 0 /\ pos <= Len(program)
      /\ program[pos].op = "DEF_METHOD"
      /\ UNCHANGED <<program, front, lli>>
  BY DEF exec_def_method_codegen
<1>2. pos \in 1 .. Len(program) /\ work = <<>>
  BY <1>1 DEF IInv, TypeOK, Idle
<1> DEFINE d == program[pos]
           decl == LastRegistered(d.sym)
           fn == Len(llvm) + 1
<1>3. CASE d.reciever \notin klasses \/ ~ArgsCompiled(program[decl].args)
  <2>1. phase' = "assert" /\ UNCHANGED <<pos, work, back>>
    BY <1>3 DEF exec_def_method_codegen, Stop
  <2>2. UndefinedHasACause' /\ CrashHasACause'
    BY <2>1 DEF UndefinedHasACause, CrashHasACause
  <2> QED
    BY <1>1, <2>1, <2>2, StopStep
<1>4. CASE d.reciever \in klasses /\ ArgsCompiled(program[decl].args)
  <2> DEFINE map == WithThis(d, decl, fn)
  <2>1. BeginFunction(d, decl, map) /\ method_map' = addMethod(d.reciever, fn)
    BY <1>4 DEF exec_def_method_codegen
  <2>2. map = IF program[decl].args # <<>>
              THEN makeMugichaVariable(vars, This, d.reciever, fn) ELSE vars
    BY DEF WithThis
  <2> HIDE DEF map, decl, fn
  <2> QED
    BY <1>1, <1>2, <1>4, <2>1, <2>2, BeginStep DEF Callables, decl, fn
<1> QED
  BY <1>3, <1>4

(* Between two declarations there is no current function. *)
LEMMA BetweenStep ==
  ASSUME IInv, phase \in {"codegen", "written"}, cur' = 0, work = <<>>,
         phase' \in {"codegen", "written", "unresolved"},
         phase' = "codegen" => phase = "codegen",
         pos' \in 1 .. Len(program) + 1,
         UNCHANGED <<program, work, vars, front, lli>>,
         IsFiniteSet(klasses'), klasses \subseteq klasses', klasses' \subseteq Klass,
         method_map' \in [Klass -> 0 .. Len(llvm)],
         \A k \in Klass : method_map'[k] \in {0, method_map[k]},
         llvm' \in Seq(Functions), Len(llvm') = Len(llvm),
         \A f \in 1 .. Len(llvm) :
           /\ llvm'[f].sym = llvm[f].sym /\ llvm'[f].own = llvm[f].own
           /\ llvm'[f].decl = llvm[f].decl /\ llvm'[f].code = llvm[f].code
           /\ \A st \in llvm'[f].stores :
                st \in llvm[f].stores \/ \E k \in Klass : method_map[k] # 0 /\ st[2] = method_map[k]
  PROVE  IInv'
<1>1. UNCHANGED <<syms, funcs, null_args, stack, table>>
  BY DEF front, lli
<1>2. /\ TypeOK /\ Tables /\ Functional /\ Variables /\ LiveFrames /\ ReceiversAreLexical
  BY DEF IInv
<1>3. Stubs' = Stubs /\ Real' = Real
  BY DEF Stubs, Real
<1>4. \A f \in 1 .. Len(llvm) : Code(f)' = Code(f) /\ AsCompiled(f)' = AsCompiled(f)
  BY DEF Code, AsCompiled
<1>5. TypeOK'
  BY <1>1, <1>2 DEF TypeOK, Phase, Slots
<1>6. Tables'
  BY <1>2, <1>1, TablesStay DEF IInv
<1>7. Functional'
  <2>1. ASSUME NEW f \in Real'
        PROVE  /\ llvm'[f].own \in 1 .. Len(program)
               /\ program[llvm'[f].own].op \in Callables
               /\ llvm'[f].sym = program[llvm'[f].own].sym
               /\ llvm'[f].decl \in CallableDecls(program, llvm'[f].sym)
    <3>1. f \in Real /\ f \in 1 .. Len(llvm)
      BY <1>3 DEF Real
    <3>2. /\ llvm'[f].own = llvm[f].own /\ llvm'[f].sym = llvm[f].sym
          /\ llvm'[f].decl = llvm[f].decl
      BY <3>1
    <3>3. /\ llvm[f].own \in 1 .. Len(program)
          /\ program[llvm[f].own].op \in Callables
          /\ llvm[f].sym = program[llvm[f].own].sym
          /\ llvm[f].decl \in CallableDecls(program, llvm[f].sym)
      BY <3>1, <1>2 DEF Functional
    <3> QED
      BY <3>2, <3>3
  <2>2. ASSUME NEW f \in 1 .. Len(llvm)
        PROVE  /\ \A i \in 1 .. Len(Code(f)') :
                    Code(f)'[i].op = "call" => Code(f)'[i].fn <= Len(llvm)
               /\ \A st \in llvm'[f].stores : st[2] \in Real
    <3>1. \A i \in 1 .. Len(Code(f)') : Code(f)'[i].op = "call" => Code(f)'[i].fn <= Len(llvm)
      BY <1>2, <1>4 DEF Functional
    <3>2. \A st \in llvm'[f].stores : st[2] \in Real
      BY <1>2 DEF Functional
    <3> QED
      BY <3>1, <3>2
  <2>3. \A k \in Klass : method_map'[k] # 0 => method_map'[k] \in Real
    BY <1>2 DEF Functional
  <2> QED
    BY <1>3, <2>1, <2>2, <2>3 DEF Functional
<1>8. Translating' /\ MapIsLexical' /\ Idle' /\ Reading'
  BY DEF Translating, MapIsLexical, Idle, Reading
<1>9. Variables'
  BY <1>2 DEF Variables
<1>10. LiveFrames'
  BY <1>1, <1>2, <1>3 DEF LiveFrames, Slots
<1>11. ReceiversAreLexical'
  BY <1>2, <1>3, <1>4 DEF ReceiversAreLexical
<1>12. UndefinedHasACause' /\ CrashHasACause'
  BY DEF UndefinedHasACause, CrashHasACause
<1> QED
  BY <1>5, <1>6, <1>7, <1>8, <1>9, <1>10, <1>11, <1>12 DEF IInv

LEMMA DefClassStep ==
  ASSUME IInv, exec_def_class_codegen
  PROVE  IInv'
<1>1. /\ phase = "codegen" /\ cur = 0 /\ pos <= Len(program)
      /\ program[pos].op = "DEF_CLASS"
      /\ UNCHANGED <<program, work, front, lli>>
  BY DEF exec_def_class_codegen
<1>2. /\ pos \in 1 .. Len(program) /\ work = <<>> /\ Len(program) \in Nat
      /\ program[pos].sym \in Klass
  BY <1>1, ProgramShape, DeclarationShape DEF IInv, TypeOK, Idle
<1>3. CASE SuperMissing(pos) /\ Stop("assert") /\ UNCHANGED <<pos, back>>
  <2>1. UndefinedHasACause' /\ CrashHasACause'
    BY <1>3 DEF UndefinedHasACause, CrashHasACause, Stop
  <2> QED
    BY <1>1, <1>3, <2>1, StopStep DEF Stop
<1>4. CASE SuperCyclic(pos) /\ Stop("crash") /\ UNCHANGED <<pos, back>>
  <2>1. UndefinedHasACause'
    BY <1>4 DEF UndefinedHasACause, Stop
  <2>2. cur' = 0 /\ work' = <<>>
    BY <1>1, <1>2, <1>4 DEF back
  <2>4. SuperCyclic(pos)'
    <3>1. program' = program /\ pos' = pos
      BY <1>1, <1>4
    <3>2. ASSUME NEW i PROVE SuperDecls(i)' = SuperDecls(i)
      BY <3>1 DEF SuperDecls
    <3>3. ASSUME NEW i PROVE Climb(i)' = Climb(i)
      BY <3>1, <3>2 DEF Climb
    <3> QED
      BY <1>4, <3>1, <3>2, <3>3 DEF SuperCyclic
  <2>3. CrashHasACause'
    BY <2>2, <2>4 DEF CrashHasACause
  <2> QED
    BY <1>1, <1>4, <2>1, <2>3, StopStep DEF Stop
<1>5. CASE /\ klasses' = klasses \cup {program[pos].sym}
           /\ method_map' = [method_map EXCEPT ![program[pos].sym] = 0]
           /\ pos' = pos + 1
           /\ UNCHANGED <<phase, vars, llvm, cur>>
  <2>1. /\ llvm \in Seq(Functions) /\ Len(llvm) \in Nat /\ klasses \subseteq Klass
        /\ method_map \in [Klass -> 0 .. Len(llvm)] /\ IsFiniteSet(klasses)
    BY DEF IInv, TypeOK, Variables
  <2>2. IsFiniteSet(klasses') /\ klasses' \subseteq Klass /\ klasses \subseteq klasses'
    BY <1>2, <1>5, <2>1, FS_AddElement
  <2>3. /\ method_map' \in [Klass -> 0 .. Len(llvm)]
        /\ \A k \in Klass : method_map'[k] \in {0, method_map[k]}
    BY <1>2, <1>5, <2>1
  <2>4. pos' \in 1 .. Len(program) + 1
    BY <1>2, <1>5
  <2> QED
    BY <1>1, <1>2, <1>5, <2>1, <2>2, <2>3, <2>4, BetweenStep
<1> QED
  BY <1>3, <1>4, <1>5 DEF exec_def_class_codegen

LEMMA WithStores ==
  ASSUME NEW f \in Functions, NEW s \in SUBSET (Slots \X (Nat \ {0}))
  PROVE  LET g == [f EXCEPT !.stores = s] IN
         /\ g \in Functions /\ g.stores = s
         /\ g.sym = f.sym /\ g.named = f.named /\ g.own = f.own /\ g.decl = f.decl
         /\ g.code = f.code
BY DEF Functions

LEMMA FinishStep ==
  ASSUME IInv, finish_function
  PROVE  IInv'
<1> DEFINE main == program[pos].op = "DEF_FUNC" /\ program[pos].sym = Main
           bad == main /\ \E s \in setFuncPtrArry : s[1] \notin Slots
<1>1. /\ phase = "codegen" /\ cur # 0 /\ work = <<>>
      /\ UNCHANGED <<program, work, klasses, method_map, vars, front, lli>>
  BY DEF finish_function
<1>2. /\ cur \in Real /\ llvm[cur].own = pos
      /\ TypeOK /\ Functional /\ Translating /\ Variables
  BY <1>1 DEF IInv, Translating
<1>3. /\ pos \in 1 .. Len(program) /\ Len(program) \in Nat
      /\ cur \in 1 .. Len(llvm) /\ llvm \in Seq(Functions) /\ Len(llvm) \in Nat
  BY <1>2, ProgramShape DEF IInv, Functional, TypeOK, Real
<1>4. ASSUME NEW s \in setFuncPtrArry
      PROVE  \E k \in klasses : /\ k \in Klass /\ method_map[k] # 0
                                /\ s = <<getMethodArrayIndex(k), method_map[k]>>
  BY <1>2 DEF setFuncPtrArry, TypeOK
<1>5. CASE bad
  <2>1. phase' = "undefined" /\ UNCHANGED <<pos, llvm, cur>>
    BY <1>5 DEF finish_function, Stop
  <2>2. PICK k \in klasses : getMethodArrayIndex(k) \notin Slots
    BY <1>4, <1>5
  <2>3. ~(Cardinality(klasses) <= RowLen) /\ Cardinality(klasses) \in Nat
    BY <2>2, DefIdBound
  <2>4. Cardinality(klasses) > RowLen
    BY <2>3, RowAssumption
  <2>5. UndefinedHasACause' /\ CrashHasACause'
    BY <1>1, <2>1, <2>4 DEF UndefinedHasACause, CrashHasACause
  <2> QED
    BY <1>1, <2>1, <2>5, StopStep DEF back
<1>6. CASE ~bad
  <2>1. /\ llvm' = IF main THEN [llvm EXCEPT ![cur].stores = setFuncPtrArry] ELSE llvm
        /\ cur' = 0 /\ pos' = pos + 1 /\ UNCHANGED phase
    BY <1>6 DEF finish_function
  <2>2. /\ IsFiniteSet(klasses) /\ klasses \subseteq Klass
        /\ method_map \in [Klass -> 0 .. Len(llvm)]
        /\ pos' \in 1 .. Len(program) + 1
    BY <1>2, <1>3, <2>1 DEF TypeOK, Variables
  <2>3. CASE ~main
    <3>1. llvm' = llvm
      BY <2>1, <2>3
    <3> HIDE DEF main, bad
    <3> QED
      BY <1>1, <1>3, <2>1, <2>2, <3>1, BetweenStep
  <2>4. CASE main
    <3> DEFINE g == [llvm[cur] EXCEPT !.stores = setFuncPtrArry]
    <3>1. setFuncPtrArry \in SUBSET (Slots \X (Nat \ {0}))
      <4> SUFFICES ASSUME NEW s \in setFuncPtrArry PROVE s \in Slots \X (Nat \ {0})
        OBVIOUS
      <4>1. s[1] \in Slots
        BY <1>6, <2>4
      <4>2. PICK k \in Klass : /\ method_map[k] # 0
                               /\ s = <<getMethodArrayIndex(k), method_map[k]>>
        BY <1>4
      <4>3. method_map[k] \in Nat \ {0}
        BY <2>2, <4>2
      <4> QED
        BY <4>1, <4>2, <4>3
    <3>2. /\ g \in Functions /\ g.stores = setFuncPtrArry
          /\ g.sym = llvm[cur].sym /\ g.own = llvm[cur].own /\ g.decl = llvm[cur].decl
          /\ g.code = llvm[cur].code
      <4>1. llvm[cur] \in Functions
        BY <1>3
      <4> QED
        BY <3>1, <4>1, WithStores
    <3>3. llvm' = [llvm EXCEPT ![cur] = g]
      BY <2>1, <2>4
    <3>4. /\ llvm' \in Seq(Functions) /\ Len(llvm') = Len(llvm)
          /\ \A f \in 1 .. Len(llvm) : llvm'[f] = IF f = cur THEN g ELSE llvm[f]
      <4> HIDE DEF g
      <4> QED
        BY <1>3, <3>2, <3>3, ExceptSeq
    <3>5. \A st \in setFuncPtrArry : \E k \in Klass : method_map[k] # 0 /\ st[2] = method_map[k]
      BY <1>4
    <3> HIDE DEF main, bad, g
    <3>6. \A f \in 1 .. Len(llvm) :
            /\ llvm'[f].sym = llvm[f].sym /\ llvm'[f].own = llvm[f].own
            /\ llvm'[f].decl = llvm[f].decl /\ llvm'[f].code = llvm[f].code
            /\ \A st \in llvm'[f].stores :
                 st \in llvm[f].stores
                   \/ \E k \in Klass : method_map[k] # 0 /\ st[2] = method_map[k]
      BY <3>2, <3>4, <3>5
    <3> QED
      BY <1>1, <1>3, <2>1, <2>2, <3>4, <3>6, BetweenStep
  <2> QED
    BY <2>3, <2>4
<1> QED
  BY <1>5, <1>6

LEMMA WriteStep ==
  ASSUME IInv, WriteBitcodeToFile
  PROVE  IInv'
<1>1. /\ phase = "codegen" /\ cur = 0 /\ phase' = "written"
      /\ UNCHANGED <<program, pos, work, front, back, lli>>
  BY DEF WriteBitcodeToFile
<1>2. UNCHANGED <<klasses, method_map, vars, llvm, cur>>
  BY <1>1 DEF back
<1>3. /\ work = <<>> /\ llvm \in Seq(Functions) /\ klasses \subseteq Klass
      /\ IsFiniteSet(klasses) /\ method_map \in [Klass -> 0 .. Len(llvm)]
      /\ pos \in 1 .. Len(program) + 1
  BY <1>1 DEF IInv, TypeOK, Idle, Variables
<1> QED
  BY <1>1, <1>2, <1>3, BetweenStep

-----------------------------------------------------------------------------
(***************************************************************************)
(* The running program.                                                    *)
(***************************************************************************)
Objects == Klass \cup {Prim, None}

(* A new frame is a frame: it has a value or None in every variable. *)
LEMMA FrameType ==
  ASSUME IInv, NEW f \in Real, NEW actuals \in Seq(Objects)
  PROVE  Frame(f, actuals) \in Frames /\ Frame(f, actuals).fn = f
<1> DEFINE args  == program[llvm[f].decl].args
           names == [i \in 1 .. Len(args) |-> args[i].sym]
           F     == Formals(f)
           At(v) == {i \in 1 .. Len(F) : F[i] = v}
<1>1. /\ f \in Nat \ {0}
      /\ llvm[f].decl \in CallableDecls(program, llvm[f].sym)
      /\ \A i \in 1 .. Len(program) : program[i] \in Declarations
  BY ProgramShape DEF IInv, Functional, TypeOK, Real
<1>2. args \in Seq(VarNodes)
  BY <1>1, CallableShape DEF CallableDecls
<1>3. Len(F) \in Nat
  <2> HIDE DEF args
  <2>1. names \in Seq(Var) /\ <<This>> \in Seq(Var)
    BY <1>2, VarNodeShape, Constants
  <2>2. names \in Seq(Var) /\ <<This>> \o names \in Seq(Var)
    <3> HIDE DEF names
    <3> QED
      BY <2>1, ConcatProperties
  <2>3. F = names \/ F = <<This>> \o names
    BY DEF Formals, args
  <2> HIDE DEF F, names
  <2> QED
    BY <2>2, <2>3
<1> HIDE DEF F, args, names
<1>4. ASSUME NEW v \in Var, At(v) # {}, ~(Greatest(At(v)) > Len(actuals))
      PROVE  actuals[Greatest(At(v))] \in Objects
  <2>1. At(v) \subseteq 1 .. Len(F)
    OBVIOUS
  <2> HIDE DEF At
  <2>2. Greatest(At(v)) \in At(v)
    BY <1>3, <1>4, <2>1, HasGreatest
  <2>3. Greatest(At(v)) \in 1 .. Len(actuals)
    BY <1>3, <1>4, <2>1, <2>2
  <2> QED
    BY <2>3
<1> DEFINE env == [v \in Var |-> IF At(v) = {} \/ Greatest(At(v)) > Len(actuals) THEN None
                                 ELSE actuals[Greatest(At(v))]]
<1>5. env \in [Var -> Objects]
  BY <1>4 DEF Objects
<1>6. Frame(f, actuals) = [fn |-> f, pc |-> 1, env |-> env]
  BY DEF Frame, F
<1> HIDE DEF env, At
<1> QED
  BY <1>1, <1>5, <1>6 DEF Frames, Objects

LEMMA StoresType ==
  ASSUME IInv, NEW f \in Real
  PROVE  /\ AfterStores(f) \in [Slots -> 0 .. Len(llvm)]
         /\ \A s \in Slots : AfterStores(f)[s] # 0 => AfterStores(f)[s] \in Real
<1>1. /\ table \in [Slots -> 0 .. Len(llvm)]
      /\ \A s \in Slots : table[s] # 0 => table[s] \in Real
      /\ \A st \in llvm[f].stores : st[2] \in Real
  BY DEF IInv, TypeOK, LiveFrames, Functional, Real
<1>2. Real \subseteq 0 .. Len(llvm)
  BY DEF Real, IInv, TypeOK
<1> DEFINE Here(s) == {st \in llvm[f].stores : st[1] = s}
           Value(s) == IF Here(s) = {} THEN table[s] ELSE (CHOOSE st \in Here(s) : TRUE)[2]
<1>3. ASSUME NEW s \in Slots
      PROVE  Value(s) \in 0 .. Len(llvm) /\ (Value(s) # 0 => Value(s) \in Real)
  <2>1. CASE Here(s) = {}
    BY <1>1, <2>1
  <2>2. CASE Here(s) # {}
    <3>1. (CHOOSE st \in Here(s) : TRUE) \in Here(s)
      BY <2>2
    <3>2. Value(s) \in Real
      BY <1>1, <2>2, <3>1
    <3> QED
      BY <1>2, <3>2
  <2> QED
    BY <2>1, <2>2
<1>4. AfterStores(f) = [s \in Slots |-> Value(s)]
  BY DEF AfterStores
<1> HIDE DEF Value
<1> QED
  BY <1>3, <1>4

(* What the steps of lli leave to be shown. *)
LEMMA RunFrame ==
  ASSUME IInv, phase \in {"written", "running"},
         phase' \in {"running", "exited", "crash", "unresolved"},
         UNCHANGED <<program, pos, work, front, back>>,
         stack' \in Seq(Frames),
         phase' \in {"running", "crash"} => stack' # <<>> /\ Len(stack') # 0,
         phase' = "running" => ~CallsStub,
         \A i \in 1 .. Len(stack') : stack'[i].fn \in Real,
         table' \in [Slots -> 0 .. Len(llvm)],
         \A s \in Slots : table'[s] # 0 => table'[s] \in Real
  PROVE  IInv'
<1>1. UNCHANGED <<program, pos, work, syms, funcs, null_args, klasses, method_map,
                  vars, llvm, cur>>
  BY DEF front, back
<1>2. Stubs' = Stubs /\ Real' = Real /\ CallsStub' = CallsStub
  BY <1>1 DEF Stubs, Real, CallsStub, Code
<1>3. TypeOK'
  BY <1>1 DEF IInv, TypeOK, Phase, Slots
<1>4. Tables'
  BY <1>1, TablesStay DEF IInv
<1>5. Reading' /\ Idle'
  BY DEF Reading, Idle
<1>6. Functional'
  BY <1>1, <1>2 DEF IInv, Functional, Code, CallableDecls
<1>7. Translating'
  BY <1>1, <1>2 DEF IInv, Translating, Code, AsCompiled
<1>8. MapIsLexical'
  <2>1. Done' = Done
    BY <1>1 DEF Done, Code
  <2>2. AsCompiled(cur)' = AsCompiled(cur)
    BY <1>1 DEF AsCompiled
  <2> QED
    BY <1>1, <2>1, <2>2 DEF IInv, MapIsLexical
<1>9. Variables'
  BY <1>1 DEF IInv, Variables
<1>10. LiveFrames'
  BY <1>1, <1>2 DEF LiveFrames, Slots
<1>11. ReceiversAreLexical'
  BY <1>1, <1>2 DEF IInv, ReceiversAreLexical, Code, AsCompiled
<1>12. UndefinedHasACause' /\ CrashHasACause'
  BY DEF UndefinedHasACause, CrashHasACause
<1> QED
  BY <1>1, <1>3, <1>4, <1>5, <1>6, <1>7, <1>8, <1>9, <1>10, <1>11, <1>12 DEF IInv

LEMMA LoadStep ==
  ASSUME IInv, Load
  PROVE  IInv'
<1>1. /\ phase = "written" /\ UNCHANGED <<program, pos, work, front, back>>
  BY DEF Load
<1>2. /\ stack = <<>>
      /\ table \in [Slots -> 0 .. Len(llvm)]
      /\ \A s \in Slots : table[s] # 0 => table[s] \in Real
  BY <1>1 DEF IInv, LiveFrames, TypeOK
<1>3. CASE phase' = "unresolved" /\ UNCHANGED lli
  <2>1. stack' = <<>> /\ table' = table
    BY <1>2, <1>3 DEF lli
  <2> QED
    BY <1>1, <1>2, <1>3, <2>1, RunFrame
<1>4. CASE /\ ~CallsStub /\ phase' = "running"
           /\ \E m \in Mains : stack' = <<Frame(m, <<>>)>> /\ table' = AfterStores(m)
  <2>1. PICK m \in Mains : stack' = <<Frame(m, <<>>)>> /\ table' = AfterStores(m)
    BY <1>4
  <2>2. m \in Real
    BY DEF Mains, Real, Named
  <2>3. Frame(m, <<>>) \in Frames /\ Frame(m, <<>>).fn = m
    <3>1. <<>> \in Seq(Objects)
      OBVIOUS
    <3> QED
      BY <2>2, <3>1, FrameType
  <2>4. /\ stack' \in Seq(Frames) /\ stack' # <<>> /\ Len(stack') = 1
        /\ \A i \in 1 .. Len(stack') : stack'[i].fn \in Real
    <3> DEFINE fr == Frame(m, <<>>)
    <3>1. stack' = <<fr>> /\ fr \in Frames /\ fr.fn \in Real
      BY <2>1, <2>2, <2>3
    <3> HIDE DEF fr
    <3> QED
      BY <3>1
  <2> QED
    BY <1>1, <1>4, <2>1, <2>2, <2>4, StoresType, RunFrame
<1> QED
  BY <1>3, <1>4 DEF Load

(* The stack of a running program, before a step. *)
LEMMA Running ==
  ASSUME IInv, phase = "running"
  PROVE  /\ stack \in Seq(Frames) /\ Len(stack) \in Nat \ {0} /\ stack # <<>>
         /\ ~CallsStub
         /\ top \in Frames
         /\ \A i \in 1 .. Len(stack) : stack[i] \in Frames /\ stack[i].fn \in Real
         /\ top.fn \in Real
         /\ Code(top.fn) \in Seq(Instrs)
         /\ table \in [Slots -> 0 .. Len(llvm)]
         /\ \A s \in Slots : table[s] # 0 => table[s] \in Real
<1>1. /\ stack \in Seq(Frames) /\ Len(stack) \in Nat \ {0} /\ ~CallsStub
      /\ \A i \in 1 .. Len(stack) : stack[i].fn \in Real
      /\ table \in [Slots -> 0 .. Len(llvm)]
      /\ \A s \in Slots : table[s] # 0 => table[s] \in Real
      /\ llvm \in Seq(Functions)
  BY DEF IInv, LiveFrames, TypeOK
<1>2. \A i \in 1 .. Len(stack) : stack[i] \in Frames
  <2> DEFINE T == Frames
  <2>1. stack \in Seq(T)
    BY <1>1
  <2> HIDE DEF T
  <2>2. \A i \in 1 .. Len(stack) : stack[i] \in T
    BY <2>1
  <2> QED
    BY <2>2 DEF T
<1>3. top \in Frames /\ top.fn \in Real
  BY <1>1, <1>2 DEF top
<1>4. llvm[top.fn] \in Functions
  BY <1>1, <1>3 DEF Real
<1>5. Code(top.fn) \in Seq(Instrs)
  BY <1>4 DEF Code, Functions
<1> QED
  BY <1>1, <1>2, <1>3, <1>5

(* The frames after the top one has moved on and, perhaps, one is pushed. *)
LEMMA Moved ==
  ASSUME IInv, phase = "running"
  PROVE  /\ Advanced \in Seq(Frames)
         /\ Len(Advanced) = Len(stack)
         /\ \A i \in 1 .. Len(stack) : Advanced[i].fn = stack[i].fn
<1> DEFINE T  == Frames
           n  == Len(stack)
           fr == [stack[n] EXCEPT !.pc = @ + 1]
<1>1. /\ stack \in Seq(T) /\ n \in Nat \ {0} /\ n \in 1 .. Len(stack)
  BY Running
<1>2. stack[n] \in Frames
  BY <1>1, Running
<1>3. fr \in T /\ fr.fn = stack[n].fn
  BY <1>2 DEF Frames
<1>4. Advanced = [stack EXCEPT ![n] = fr]
  BY DEF Advanced
<1> HIDE DEF T, fr, n
<1>5. /\ Advanced \in Seq(T) /\ Len(Advanced) = Len(stack)
      /\ \A i \in 1 .. Len(stack) : Advanced[i] = IF i = n THEN fr ELSE stack[i]
  BY <1>1, <1>3, <1>4, ExceptSeq
<1>6. \A i \in 1 .. Len(stack) : Advanced[i].fn = stack[i].fn
  BY <1>3, <1>5
<1> QED
  BY <1>5, <1>6 DEF T

LEMMA EnterStep ==
  ASSUME IInv, phase = "running", NEW f \in Real, NEW actuals \in Seq(Objects),
         Enter(f, actuals), UNCHANGED <<program, pos, work, front, back>>
  PROVE  IInv'
<1> DEFINE T  == Frames
           A  == Advanced
           fr == Frame(f, actuals)
<1>1. /\ A \in Seq(T) /\ Len(A) = Len(stack) /\ Len(stack) \in Nat \ {0}
      /\ \A i \in 1 .. Len(A) : A[i].fn \in Real
  BY Running, Moved
<1>2. fr \in T /\ fr.fn \in Real
  BY FrameType
<1>3. /\ stack' = Append(A, fr) /\ table' = AfterStores(f) /\ phase' = phase
  BY DEF Enter
<1> HIDE DEF T, A, fr
<1>4. /\ stack' \in Seq(T) /\ Len(stack') = Len(A) + 1
      /\ \A i \in 1 .. Len(stack') : stack'[i] = IF i = Len(A) + 1 THEN fr ELSE A[i]
  BY <1>1, <1>2, <1>3
<1>5. \A i \in 1 .. Len(stack') : stack'[i].fn \in Real
  <2> TAKE i \in 1 .. Len(stack')
  <2>1. CASE i = Len(A) + 1
    BY <1>2, <1>4, <2>1
  <2>2. CASE i # Len(A) + 1
    <3>1. i \in 1 .. Len(A)
      BY <1>1, <1>4, <2>2
    <3> QED
      BY <1>1, <1>4, <2>2, <3>1
  <2> QED
    BY <2>1, <2>2
<1>6. Len(stack') # 0 /\ stack' # <<>>
  BY <1>1, <1>4
<1>7. stack' \in Seq(Frames)
  BY <1>4 DEF T
<1> QED
  BY <1>3, <1>5, <1>6, <1>7, StoresType, Running, RunFrame

(* The instruction the top frame is at. *)
LEMMA Current ==
  ASSUME IInv, NEW op, Executing(op)
  PROVE  /\ phase = "running"
         /\ top.pc \in 1 .. Len(Code(top.fn))
         /\ Code(top.fn)[top.pc] \in Instrs
         /\ Code(top.fn)[top.pc].op = op
<1> DEFINE code == Code(top.fn)
           pc == top.pc
           I == Instrs
<1>1. /\ phase = "running" /\ pc <= Len(code) /\ code[pc].op = op
  BY DEF Executing
<1>2. code \in Seq(I)
  BY <1>1, Running
<1>3. pc \in Nat \ {0}
  BY <1>1, Running DEF Frames
<1> HIDE DEF code, pc, I
<1>4. pc \in 1 .. Len(code)
  BY <1>1, <1>2, <1>3
<1>5. code[pc] \in I
  BY <1>2, <1>4
<1> QED
  BY <1>1, <1>4, <1>5 DEF code, pc, I

LEMMA AllocStep ==
  ASSUME IInv, RunAlloc, UNCHANGED <<program, pos, work, front, back>>
  PROVE  IInv'
<1> DEFINE T  == Frames
           A  == Advanced
           n  == Len(stack)
           in == Code(top.fn)[top.pc]
           fr == [A[n] EXCEPT !.env[in.var] = in.klass]
<1>1. phase = "running" /\ in \in Instrs /\ in.op = "alloc"
  BY Current DEF RunAlloc
<1>2. in.klass \in Objects
  BY <1>1 DEF Instrs, Objects
<1>3. /\ A \in Seq(T) /\ Len(A) = n /\ n \in Nat \ {0} /\ n \in 1 .. Len(A)
      /\ \A i \in 1 .. Len(A) : A[i].fn \in Real
  BY <1>1, Running, Moved
<1>4. stack' = [A EXCEPT ![n] = fr] /\ UNCHANGED <<phase, table>>
  BY DEF RunAlloc
<1>5. A[n] \in Frames
  <2> HIDE DEF A, T
  <2>1. A[n] \in T
    BY <1>3
  <2> QED
    BY <2>1 DEF T
<1>6. fr \in T /\ fr.fn = A[n].fn
  <2> HIDE DEF in, A
  <2> QED
    BY <1>2, <1>5 DEF Frames, Objects
<1> HIDE DEF T, A, n, in, fr
<1>7. /\ stack' \in Seq(T) /\ Len(stack') = Len(A)
      /\ \A i \in 1 .. Len(A) : stack'[i] = IF i = n THEN fr ELSE A[i]
  BY <1>3, <1>4, <1>6, ExceptSeq
<1>8. \A i \in 1 .. Len(stack') : stack'[i].fn \in Real
  BY <1>3, <1>6, <1>7
<1>9. Len(stack') # 0 /\ stack' # <<>>
  BY <1>3, <1>7
<1>10. stack' \in Seq(Frames)
  BY <1>7 DEF T
<1> QED
  BY <1>1, <1>4, <1>8, <1>9, <1>10, Running, RunFrame

LEMMA CallStep ==
  ASSUME IInv, RunCall, UNCHANGED <<program, pos, work, front, back>>
  PROVE  IInv'
<1> DEFINE in == Code(top.fn)[top.pc]
           actuals == IF in.arg = None THEN <<>> ELSE <<top.env[in.arg]>>
<1>1. /\ phase = "running" /\ top.pc \in 1 .. Len(Code(top.fn))
      /\ in \in Instrs /\ in.op = "call"
  BY Current DEF RunCall
<1>2. in.arg \in Var \cup {None} /\ in.fn \in Nat \ {0}
  BY <1>1 DEF Instrs
<1>3. top \in Frames /\ top.fn \in Real /\ ~CallsStub
  BY <1>1, Running
<1>4. in.fn \in Real
  <2>1. top.fn \in 1 .. Len(llvm) /\ Functional
    BY <1>3 DEF Real, IInv
  <2>2. in.fn <= Len(llvm)
    BY <1>1, <2>1 DEF Functional
  <2>3. in.fn \notin Stubs
    BY <1>1, <1>3, <2>1 DEF CallsStub
  <2>4. Len(llvm) \in Nat
    BY DEF IInv, TypeOK
  <2> HIDE DEF in
  <2> QED
    BY <1>2, <2>2, <2>3, <2>4 DEF Real
<1>5. actuals \in Seq(Objects)
  <2>1. CASE in.arg = None
    BY <2>1
  <2>2. CASE in.arg # None
    <3>1. top.env[in.arg] \in Objects
      BY <1>2, <1>3, <2>2 DEF Frames, Objects
    <3> DEFINE x == top.env[in.arg]
    <3>2. actuals = <<x>> /\ x \in Objects
      BY <2>2, <3>1
    <3> HIDE DEF x, actuals
    <3> QED
      BY <3>2
  <2> QED
    BY <2>1, <2>2
<1>6. Enter(in.fn, actuals)
  BY DEF RunCall
<1> HIDE DEF in, actuals
<1> QED
  BY <1>1, <1>4, <1>5, <1>6, EnterStep

LEMMA SlotStep ==
  ASSUME IInv, RunSlot, UNCHANGED <<program, pos, work, front, back>>
  PROVE  IInv'
<1> DEFINE in == Code(top.fn)[top.pc]
           x  == top.env[in.reciever]
<1>1. /\ phase = "running" /\ in \in Instrs /\ in.op = "slot"
  BY Current DEF RunSlot
<1>2. in.slot \in Slots /\ in.reciever \in Var
  BY <1>1 DEF Instrs
<1>3. CASE Stop("crash") /\ UNCHANGED lli
  BY <1>1, <1>3, Running, RunFrame DEF Stop, lli
<1>4. CASE table[in.slot] # 0 /\ Enter(table[in.slot], <<x, None>>)
  <2>1. table[in.slot] \in Real
    BY <1>1, <1>2, <1>4, Running
  <2>2. x \in Objects
    BY <1>1, <1>2, Running DEF Frames, Objects
  <2>3. <<x, None>> \in Seq(Objects)
    <3>1. None \in Objects
      BY DEF Objects
    <3> HIDE DEF x
    <3> QED
      BY <2>2, <3>1
  <2> HIDE DEF in, x
  <2> QED
    BY <1>1, <1>4, <2>1, <2>3, EnterStep
<1> QED
  BY <1>3, <1>4 DEF RunSlot

LEMMA ReturnStep ==
  ASSUME IInv, RunReturn, UNCHANGED <<program, pos, work, front, back>>
  PROVE  IInv'
<1> DEFINE T == Frames
<1>1. phase = "running" /\ UNCHANGED table
  BY DEF RunReturn
<1>2. /\ stack \in Seq(T) /\ Len(stack) \in Nat \ {0}
      /\ \A i \in 1 .. Len(stack) : stack[i].fn \in Real
  BY <1>1, Running
<1>3. CASE phase' = "exited" /\ UNCHANGED stack
  BY <1>1, <1>2, <1>3, Running, RunFrame
<1>4. CASE /\ Len(stack) # 1 /\ UNCHANGED phase
           /\ stack' = SubSeq(stack, 1, Len(stack) - 1)
  <2> DEFINE m == Len(stack) - 1
  <2>1. m \in Nat \ {0} /\ m <= Len(stack) /\ stack' = SubSeq(stack, 1, m)
    BY <1>2, <1>4
  <2> HIDE DEF T, m
  <2>2. /\ stack' \in Seq(T) /\ Len(stack') = m
        /\ \A i \in 1 .. m : stack'[i] = stack[i]
    BY <1>2, <2>1
  <2>3. /\ Len(stack') # 0 /\ stack' # <<>>
        /\ \A i \in 1 .. Len(stack') : stack'[i].fn \in Real
    BY <1>2, <2>1, <2>2
  <2>4. stack' \in Seq(Frames)
    BY <2>2 DEF T
  <2> QED
    BY <1>1, <1>4, <2>4, <2>3, Running, RunFrame
<1> QED
  BY <1>3, <1>4 DEF RunReturn, Stop

LEMMA IdleStep ==
  ASSUME IInv, UNCHANGED all
  PROVE  IInv'
<1>1. UNCHANGED <<program, phase, pos, work, syms, funcs, null_args, klasses, method_map,
                  vars, llvm, cur, stack, table>>
  BY DEF all, front, back, lli
<1>2. TypeOK' /\ Variables'
  BY <1>1 DEF IInv, TypeOK, Slots, Variables
<1>3. Tables'
  BY <1>1, TablesStay DEF IInv
<1>4. Reading' /\ Idle'
  <2>1. Nodes(program[pos])' = Nodes(program[pos])
    BY <1>1
  <2> QED
    BY <1>1, <2>1 DEF IInv, Reading, Idle
<1>5. /\ Stubs' = Stubs /\ Real' = Real /\ CallsStub' = CallsStub
      /\ \A f : Code(f)' = Code(f) /\ AsCompiled(f)' = AsCompiled(f)
  BY <1>1 DEF Stubs, Real, CallsStub, Code, AsCompiled
<1>6. Functional' /\ Translating' /\ LiveFrames' /\ ReceiversAreLexical'
  BY <1>1, <1>5 DEF IInv, Functional, Translating, LiveFrames, ReceiversAreLexical, Slots
<1>7. MapIsLexical'
  <2>1. Done' = Done
    BY <1>1 DEF Done, Code
  <2>2. AsCompiled(cur)' = AsCompiled(cur)
    BY <1>1 DEF AsCompiled
  <2> QED
    BY <1>1, <2>1, <2>2 DEF IInv, MapIsLexical
<1>8. UndefinedHasACause'
  BY <1>1, <1>5 DEF IInv, UndefinedHasACause
<1>9. CrashHasACause'
  <2>1. ASSUME NEW i PROVE SuperDecls(i)' = SuperDecls(i)
    BY <1>1 DEF SuperDecls
  <2>2. ASSUME NEW i PROVE Climb(i)' = Climb(i)
    BY <1>1, <2>1 DEF Climb
  <2>3. SuperCyclic(pos)' <=> SuperCyclic(pos)
    BY <1>1, <2>1, <2>2 DEF SuperCyclic
  <2>4. \A n, k : FaultyStatement(n, k)' <=> FaultyStatement(n, k)
    BY <1>1 DEF FaultyStatement
  <2> QED
    BY <1>1, <1>5, <2>3, <2>4 DEF IInv, CrashHasACause
<1> QED
  BY <1>1, <1>2, <1>3, <1>4, <1>6, <1>7, <1>8, <1>9 DEF IInv

-----------------------------------------------------------------------------
(***************************************************************************)
(* Every step of the compiler and of the program it compiled preserves the *)
(* invariant.                                                              *)
(***************************************************************************)
LEMMA IInv_step == IInv /\ [Next]_all => IInv'
<1> SUFFICES ASSUME IInv, [Next]_all PROVE IInv'
  OBVIOUS
<1>1. CASE Parse
  BY <1>1, ParseStep
<1>2. CASE exec_def_class_codegen
  BY <1>2, DefClassStep
<1>3. CASE exec_def_func_codegen
  BY <1>3, DefFuncStep
<1>4. CASE exec_def_method_codegen
  BY <1>4, DefMethodStep
<1>5. CASE exec_def_var_codegen
  BY <1>5, DefVarStep
<1>6. CASE exec_call_func_codegen
  BY <1>6, CallFuncStep
<1>7. CASE exec_call_method_codegen
  BY <1>7, CallMethodStep
<1>8. CASE finish_function
  BY <1>8, FinishStep
<1>9. CASE WriteBitcodeToFile
  BY <1>9, WriteStep
<1>10. CASE Load
  BY <1>10, LoadStep
<1>11. CASE RunAlloc /\ UNCHANGED <<program, pos, work, front, back>>
  BY <1>11, AllocStep
<1>12. CASE RunCall /\ UNCHANGED <<program, pos, work, front, back>>
  BY <1>12, CallStep
<1>13. CASE RunSlot /\ UNCHANGED <<program, pos, work, front, back>>
  BY <1>13, SlotStep
<1>14. CASE RunReturn /\ UNCHANGED <<program, pos, work, front, back>>
  BY <1>14, ReturnStep
<1>15. CASE UNCHANGED all
  BY <1>15, IdleStep
<1> QED
  BY <1>1, <1>2, <1>3, <1>4, <1>5, <1>6, <1>7, <1>8, <1>9, <1>10, <1>11, <1>12, <1>13,
     <1>14, <1>15 DEF Next, Codegen, Run

LEMMA IInv_invariant == Spec => []IInv
BY IInv_init, IInv_step, PTL DEF Spec

(* The state keeps its shape whatever the program: both tables stay within *)
(* SYMBOL_MAX and FUNC_MAX (ast.c checks them on every name and callable), *)
(* and the variable map, the method maps, the pointers lli calls through   *)
(* and its frames only ever refer to functions the module has.             *)
THEOREM Compiler_TypeOK == Spec => []TypeOK
<1>1. IInv => TypeOK
  BY DEF IInv
<1> QED
  BY IInv_invariant, <1>1, PTL

(* The variable map that every function shares (LLVMLocalVariableMap of    *)
(* mugicha_compiler.cpp) never makes a method call of a written module use *)
(* another class than lexical scoping gives its receiver, in any program.  *)
THEOREM Compiler_ReceiversAreLexical == Spec => []ReceiversAreLexical
<1>1. IInv => ReceiversAreLexical
  BY DEF IInv
<1> QED
  BY IInv_invariant, <1>1, PTL

(* In every program, exec_call_func_codegen, exec_call_method_codegen and  *)
(* setFuncPtrArry make the module malformed only for a variable the body   *)
(* does not define, or with more classes than getMethodArrayIndex has rows.*)
THEOREM Compiler_UndefinedHasACause == Spec => []UndefinedHasACause
<1>1. IInv => UndefinedHasACause
  BY DEF IInv
<1> QED
  BY IInv_invariant, <1>1, PTL

(* In every program, the compiler dereferences NULL or climbs superclasses *)
(* for ever (ast.c, exec_call_func_codegen, exec_call_method_codegen and   *)
(* getFieldDef) only at one of the statements FaultyStatement describes, a *)
(* method call without arguments or a cycle of superclasses.               *)
THEOREM Compiler_CrashHasACause == Spec => []CrashHasACause
<1>1. IInv => CrashHasACause
  BY DEF IInv
<1> QED
  BY IInv_invariant, <1>1, PTL
=============================================================================

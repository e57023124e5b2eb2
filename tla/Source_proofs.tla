---------------------------- MODULE Source_proofs ----------------------------
(***************************************************************************)
(* For every orderly program, of any size and under any order of the       *)
(* classes, that the tables have room for: compiling, loading and running  *)
(* it behaves as SourceSemantics says.                                     *)
(***************************************************************************)
EXTENDS Calls_proofs

-----------------------------------------------------------------------------
(***************************************************************************)
(* Orderly programs.                                                       *)
(***************************************************************************)

(* A name has one callable, and that is what is compiled for it. *)
LEMMA OneCallable ==
  ASSUME NEW p \in Programs, Orderly(p), NEW i \in 1 .. Len(p), p[i].op \in Callables
  PROVE  /\ CallableDecls(p, p[i].sym) = {i}
         /\ Greatest(CallableDecls(p, p[i].sym)) = i
         /\ Body(p, i) = p[i].body
         /\ OrderlyCallable(p, i)
<1>1. OrderlyCallable(p, i)
  BY DEF Orderly, Callables
<1>2. CallableDecls(p, p[i].sym) = {i}
  BY <1>1 DEF OrderlyCallable
<1>3. Len(p) \in Nat
  BY ProgramShape
<1>4. Greatest({i}) = i
  <2>1. i \in Nat
    BY <1>3
  <2>2. \A x \in {i} : x = i /\ \A y \in {i} : y <= x
    BY <2>1
  <2> QED
    BY <2>2 DEF Greatest
<1> QED
  BY <1>1, <1>2, <1>4 DEF Body

(* A class has one definition. *)
LEMMA OneClass ==
  ASSUME NEW p \in Programs, Orderly(p), NEW c \in DeclsOf(p, "DEF_CLASS")
  PROVE  c \in 1 .. Len(p) /\ OrderlyClass(p, c) /\ ClassDecls(p, p[c].sym) = {c}
BY DEF Orderly, OrderlyClass, DeclsOf

(* And there is one main. *)
LEMMA OneMain ==
  ASSUME NEW p \in Programs, Orderly(p)
  PROVE  \E m \in 1 .. Len(p) : /\ MainDecls(p) = {m}
                                /\ CallableDecls(p, Main) = {m}
                                /\ p[m].op = "DEF_FUNC" /\ p[m].sym = Main
<1>1. MainDecls(p) # {}
  <2>1. Cardinality(MainDecls(p)) = 1
    BY DEF Orderly
  <2>2. Cardinality({}) = 0
    BY FS_EmptySet
  <2> QED
    BY <2>1, <2>2
<1>2. PICK m \in MainDecls(p) : TRUE
  BY <1>1
<1>3. /\ m \in 1 .. Len(p) /\ p[m].op = "DEF_FUNC" /\ p[m].sym = Main
      /\ p[m].op \in Callables
  BY DEF MainDecls, DeclsOf, Callables
<1>4. CallableDecls(p, Main) = {m}
  BY <1>3, OneCallable
<1>5. MainDecls(p) \subseteq CallableDecls(p, Main)
  BY DEF MainDecls, CallableDecls, DeclsOf, Callables
<1> QED
  BY <1>3, <1>4, <1>5

(* A call of a function names a function declared before. *)
LEMMA OrderlyCall ==
  ASSUME NEW p \in Programs, Orderly(p), NEW i \in 1 .. Len(p), p[i].op \in Callables,
         NEW s \in 1 .. Len(p[i].body), p[i].body[s].op = "CALL_FUNC"
  PROVE  LET n == p[i].body[s] IN
         \E c \in 1 .. Len(p) :
           /\ CallableDecls(p, n.sym) = {c}
           /\ c <= i /\ p[c].op = "DEF_FUNC" /\ p[c].sym = n.sym
           /\ n.arg # None => n.arg # This /\ StaticKlass(p[i], s, n.arg) # None
<1> DEFINE n == p[i].body[s]
<1>1. OrderlyStatement(p, i, s)
  BY OneCallable DEF OrderlyCallable
<1>2. /\ \E c \in CallableDecls(p, n.sym) : c <= i /\ p[c].op = "DEF_FUNC"
      /\ n.arg # None => n.arg # This /\ StaticKlass(p[i], s, n.arg) # None
  BY <1>1 DEF OrderlyStatement
<1>3. PICK c \in CallableDecls(p, n.sym) : c <= i /\ p[c].op = "DEF_FUNC"
  BY <1>2
<1>4. c \in 1 .. Len(p) /\ p[c].op \in Callables /\ p[c].sym = n.sym
  BY DEF CallableDecls
<1>5. CallableDecls(p, p[c].sym) = {c}
  BY <1>4, OneCallable
<1> QED
  BY <1>2, <1>3, <1>4, <1>5

(* A class has one method, and a name is not that of a second one. *)
LEMMA OwnMethod ==
  ASSUME NEW p \in Programs, Orderly(p), NEW k, NEW n, NEW m \in OwnMethods(p, k, n)
  PROVE  /\ m \in 1 .. Len(p) /\ p[m].op = "DEF_METHOD" /\ p[m].sym = n
         /\ p[m].reciever = k /\ k \in Klass /\ n \in Name
         /\ m \in CallableDecls(p, n)
         /\ CallableDecls(p, n) = {m}
         /\ MethodDecls(p, k) = {m}
         /\ OwnMethods(p, k, n) = {m}
         /\ ClassBefore(p, m, k)
         /\ \A j \in MainDecls(p) : m < j
<1>1. /\ m \in 1 .. Len(p) /\ p[m].op = "DEF_METHOD" /\ p[m].op \in Callables
      /\ p[m].reciever = k /\ p[m].sym = n /\ m \in CallableDecls(p, n)
  BY DEF OwnMethods, MethodDecls, DeclsOf, Callables, CallableDecls
<1>2. OrderlyCallable(p, m) /\ CallableDecls(p, n) = {m}
  BY <1>1, OneCallable
<1>3. MethodDecls(p, k) = {m} /\ ClassBefore(p, m, k) /\ \A j \in MainDecls(p) : m < j
  BY <1>1, <1>2 DEF OrderlyCallable
<1>4. OwnMethods(p, k, n) = {m}
  BY <1>1, <1>3 DEF OwnMethods
<1>5. k \in Klass /\ n \in Name
  BY <1>1, ProgramShape, CallableShape
<1> QED
  BY <1>1, <1>2, <1>3, <1>4, <1>5

(* A call of a method means the only method of its receiver's class, and   *)
(* every class that sorts before that one has been declared.               *)
LEMMA OrderlySend ==
  ASSUME NEW p \in Programs, Orderly(p), NEW i \in 1 .. Len(p), p[i].op \in Callables,
         NEW s \in 1 .. Len(p[i].body), NEW n, n = p[i].body[s], n.op = "CALL_METHOD",
         NEW k, k = StaticKlass(p[i], s, n.reciever)
  PROVE  /\ k \in Klass /\ n.sym \in Name
         /\ \A M : Stable(p, k, i, M)
         /\ \E m \in OwnMethods(p, k, n.sym) : m \in CallableDecls(p, n.sym)
<1>1. OrderlyStatement(p, i, s)
  BY OneCallable DEF OrderlyCallable
<1>2. /\ OwnMethods(p, k, n.sym) # {}
      /\ \A c \in DeclsOf(p, "DEF_CLASS") : KlassRank[p[c].sym] < KlassRank[k] => c < i
  BY <1>1 DEF OrderlyStatement
<1>3. PICK m \in OwnMethods(p, k, n.sym) : TRUE
  BY <1>2
<1>4. m \in CallableDecls(p, n.sym) /\ p[m].reciever = k /\ p[m].sym = n.sym
  BY OwnMethod
<1>5. k \in Klass /\ n.sym \in Name
  BY <1>4, OwnMethod
<1>6. ASSUME NEW M PROVE Stable(p, k, i, M)
  <2>1. \A c \in DeclsOf(p, "DEF_CLASS") : c \in Nat
    BY ProgramShape DEF DeclsOf
  <2> QED
    BY <1>2, <2>1 DEF Stable
<1> QED
  BY <1>4, <1>5, <1>6

(* The nodes of a declaration. *)
LEMMA NodeIs ==
  ASSUME NEW p \in Programs, NEW i \in 1 .. Len(p), NEW j \in 1 .. Len(Nodes(p[i]))
  PROVE  \/ Nodes(p[i])[j] = p[i]
         \/ /\ p[i].op \in Callables
            /\ \/ \E a \in 1 .. Len(p[i].args) : Nodes(p[i])[j] = p[i].args[a]
               \/ \E s \in 1 .. Len(p[i].body) : Nodes(p[i])[j] = p[i].body[s]
<1> DEFINE d == p[i]
           N == Nodes(d)
<1>1. d \in Declarations
  BY ProgramShape
<1>2. CASE d.op = "DEF_CLASS"
  <2>1. N = <<d>>
    BY <1>2 DEF Nodes
  <2>2. Len(N) = 1 /\ N[1] = d
    BY <2>1
  <2>3. j = 1
    BY <2>2
  <2> QED
    BY <2>2, <2>3
<1>3. CASE d.op \in Callables
  <2> DEFINE la == Len(d.args)
             lb == Len(d.body)
  <2>1. /\ Len(N) = la + lb + 1
        /\ \A a \in 1 .. la : N[a] = d.args[a]
        /\ \A s \in 1 .. lb : N[la + s] = d.body[s]
    BY <1>1, <1>3, CallableNodes
  <2>2. N[Len(N)] = d
    BY <1>1, NodesShape
  <2>3. la \in Nat /\ lb \in Nat
    <3>1. d.args \in Seq(VarNodes) /\ d.body \in Seq(Statements)
      BY <1>1, <1>3, CallableShape
    <3> HIDE DEF d
    <3> QED
      BY <3>1
  <2>4. j \in 1 .. Len(N)
    OBVIOUS
  <2> HIDE DEF la, lb, N
  <2>5. j \in 1 .. la \/ j - la \in 1 .. lb \/ j = Len(N)
    BY <2>1, <2>3, <2>4
  <2>6. CASE j \in 1 .. la
    BY <1>3, <2>1, <2>6 DEF la, N
  <2>7. CASE j - la \in 1 .. lb
    <3>1. la + (j - la) = j
      BY <2>3, <2>4, <2>7
    <3>2. N[j] = d.body[j - la]
      BY <2>1, <2>7, <3>1
    <3> QED
      BY <1>3, <2>7, <3>2 DEF lb, N
  <2>8. CASE j = Len(N)
    BY <2>2, <2>8 DEF N
  <2> QED
    BY <2>5, <2>6, <2>7, <2>8
<1> QED
  BY <1>1, <1>2, <1>3, DeclarationShape DEF Callables

-----------------------------------------------------------------------------
(***************************************************************************)
(* None of the causes of failure is there.                                 *)
(***************************************************************************)
LEMMA NothingUsedFirst ==
  ASSUME program \in Programs, Orderly(program)
  PROVE  /\ ~UsedFirst(Main)
         /\ \A n \in Name : ~(CalledByName(n) /\ UsedFirst(n))
         /\ CallableDecls(program, Main) # {}
<1> DEFINE p == program
<1>0. p \in Programs /\ Orderly(p)
  OBVIOUS
<1>1. \A i \in 1 .. Len(p) : p[i].op \in Callables => CompiledBody(i) = p[i].body
  BY OneCallable DEF CompiledBody
<1>2. ASSUME NEW n, NEW c \in 1 .. Len(p), CallableDecls(p, n) = {c}, p[c].op = "DEF_FUNC"
      PROVE  ~UsedFirst(n)
  <2>1. SUFFICES ASSUME NEW i \in 1 .. Len(p), p[i].op \in Callables,
                        Mentions(i, n, {"CALL_FUNC", "CALL_METHOD"}), i < c
                 PROVE  FALSE
    BY <1>2 DEF UsedFirst
  <2>2. PICK s \in 1 .. Len(p[i].body) :
          p[i].body[s].op \in {"CALL_FUNC", "CALL_METHOD"} /\ p[i].body[s].sym = n
    BY <1>1, <2>1 DEF Mentions
  <2>3. i \in Nat /\ c \in Nat
    OBVIOUS
  <2>4. CASE p[i].body[s].op = "CALL_FUNC"
    <3>1. PICK e \in 1 .. Len(p) : CallableDecls(p, n) = {e} /\ e <= i
      BY <2>1, <2>2, <2>4, OrderlyCall
    <3>2. e = c
      BY <1>2, <3>1
    <3> QED
      BY <2>1, <2>3, <3>1, <3>2
  <2>5. CASE p[i].body[s].op = "CALL_METHOD"
    <3>1. \E m \in 1 .. Len(p) :
            CallableDecls(p, p[i].body[s].sym) = {m} /\ p[m].op = "DEF_METHOD"
      <4>1. PICK node, k : node = p[i].body[s] /\ k = StaticKlass(p[i], s, node.reciever)
        OBVIOUS
      <4>2. node.op = "CALL_METHOD" /\ p[i].op \in Callables
        BY <2>1, <2>5, <4>1
      <4>3. PICK m \in OwnMethods(p, k, node.sym) : TRUE
        BY <1>0, <4>1, <4>2, OrderlySend
      <4>4. m \in 1 .. Len(p) /\ CallableDecls(p, node.sym) = {m} /\ p[m].op = "DEF_METHOD"
        BY <1>0, OwnMethod
      <4> QED
        BY <4>1, <4>4
    <3>2. PICK m \in 1 .. Len(p) : CallableDecls(p, n) = {m} /\ p[m].op = "DEF_METHOD"
      BY <2>2, <3>1
    <3>3. m = c
      BY <1>2, <3>2
    <3> QED
      BY <1>2, <3>2, <3>3
  <2> QED
    BY <2>2, <2>4, <2>5
<1>3. ASSUME NEW n \in Name, CalledByName(n)
      PROVE  ~UsedFirst(n)
  <2>1. PICK i \in 1 .. Len(p) : p[i].op \in Callables /\ Mentions(i, n, {"CALL_FUNC"})
    BY <1>3 DEF CalledByName
  <2>2. PICK s \in 1 .. Len(p[i].body) :
          p[i].body[s].op = "CALL_FUNC" /\ p[i].body[s].sym = n
    BY <1>1, <2>1 DEF Mentions
  <2>3. PICK c \in 1 .. Len(p) : CallableDecls(p, n) = {c} /\ p[c].op = "DEF_FUNC"
    BY <2>1, <2>2, OrderlyCall
  <2> QED
    BY <1>2, <2>3
<1>4. PICK m \in 1 .. Len(p) : CallableDecls(p, Main) = {m} /\ p[m].op = "DEF_FUNC"
  BY OneMain
<1> QED
  BY <1>2, <1>3, <1>4

LEMMA ClassesDeclared ==
  ASSUME program \in Programs, Orderly(program),
         NEW i \in 1 .. Len(program), NEW k \in KlassesIn(i)
  PROVE  \E c \in ClassDecls(program, k) : c < i
<1> DEFINE p == program
<1>1. CASE p[i].op = "DEF_METHOD" /\ k = p[i].reciever
  <2>1. ClassBefore(p, i, k)
    BY <1>1, OneCallable DEF OrderlyCallable, Callables
  <2>2. k # Prim
    BY <1>1, ProgramShape, CallableShape, Constants DEF Callables
  <2> QED
    BY <2>1, <2>2 DEF ClassBefore
<1>2. CASE \E n \in NodesOf(i) : n.op = "DEF_VAR" /\ k = n.klass /\ k # Prim
  <2>1. PICK n \in NodesOf(i) : n.op = "DEF_VAR" /\ k = n.klass /\ k # Prim
    BY <1>2
  <2>2. \E j \in 1 .. Len(Nodes(p[i])) : n = Nodes(p[i])[j]
    <3>1. p[i].op = "DEF_CLASS" \/ p[i].op \in Callables
      BY ProgramShape, DeclarationShape DEF Callables
    <3>2. p[i].op \in Callables => Greatest(CallableDecls(p, p[i].sym)) = i
      BY OneCallable
    <3> QED
      BY <3>1, <3>2 DEF NodesOf
  <2>3. p[i].op # "DEF_VAR"
    BY ProgramShape, DeclarationShape
  <2>4. /\ p[i].op \in Callables
        /\ \/ \E a \in 1 .. Len(p[i].args) : n = p[i].args[a]
           \/ \E s \in 1 .. Len(p[i].body) : n = p[i].body[s]
    BY <2>1, <2>2, <2>3, NodeIs
  <2>5. OrderlyCallable(p, i)
    BY <2>4, OneCallable
  <2>6. ASSUME NEW a \in 1 .. Len(p[i].args), n = p[i].args[a]
        PROVE  ClassBefore(p, i, k)
    BY <2>1, <2>5, <2>6 DEF OrderlyCallable
  <2>7. ASSUME NEW s \in 1 .. Len(p[i].body), n = p[i].body[s]
        PROVE  ClassBefore(p, i, k)
    <3>1. OrderlyStatement(p, i, s)
      BY <2>5 DEF OrderlyCallable
    <3> QED
      BY <2>1, <2>7, <3>1 DEF OrderlyStatement
  <2>8. ClassBefore(p, i, k)
    BY <2>4, <2>6, <2>7
  <2> QED
    BY <2>1, <2>8 DEF ClassBefore
<1> QED
  BY <1>1, <1>2 DEF KlassesIn

(* Superclasses are declared ahead: a climb goes down, and ends. *)
LEMMA ClimbsEnd ==
  ASSUME program \in Programs, Orderly(program), NEW i \in DeclsOf(program, "DEF_CLASS")
  PROVE  ~SuperMissing(i) /\ ~SuperCyclic(i)
<1> DEFINE p == program
           class == DeclsOf(p, "DEF_CLASS")
<1>1. ASSUME NEW j \in class, p[j].super # None
      PROVE  \E c \in class : c < j /\ SuperDecls(j) = {c} /\ Least(SuperDecls(j)) = c
  <2>1. OrderlyClass(p, j) /\ j \in 1 .. Len(p) /\ p[j].op = "DEF_CLASS"
    BY OneClass DEF DeclsOf
  <2>2. p[j].super \in Klass
    BY <1>1, <2>1, ProgramShape, DeclarationShape
  <2>3. p[j].super # Prim
    BY <2>2, Constants
  <2>4. PICK c \in ClassDecls(p, p[j].super) : c < j
    BY <1>1, <2>1, <2>3 DEF OrderlyClass, ClassBefore
  <2>5. c \in class /\ p[c].sym = p[j].super
    BY DEF ClassDecls
  <2>6. SuperDecls(j) = {c}
    BY <1>1, <2>5, OneClass DEF SuperDecls
  <2>7. Least({c}) = c
    <3>1. c \in Nat
      BY <2>5, ProgramShape DEF DeclsOf
    <3>2. \A x \in {c} : x = c /\ \A y \in {c} : x <= y
      BY <3>1
    <3> QED
      BY <3>2 DEF Least
  <2> QED
    BY <2>4, <2>5, <2>6, <2>7
<1>2. i \in Climb(i) /\ Climb(i) \subseteq class
  BY DEF Climb
<1>3. ~SuperMissing(i)
  BY <1>1, <1>2 DEF SuperMissing
<1>4. ASSUME SuperCyclic(i) PROVE FALSE
  <2>1. PICK j \in Climb(i) : \A x \in Climb(i) : j <= x
    <3>1. Climb(i) \subseteq 1 .. Len(p) /\ Len(p) \in Nat
      BY <1>2, ProgramShape DEF DeclsOf
    <3> HIDE DEF p
    <3> QED
      BY <1>2, <3>1, HasLeast
  <2>2. j \in class /\ SuperDecls(j) # {}
    BY <1>2, <1>4 DEF SuperCyclic
  <2>3. PICK c \in class : c < j /\ SuperDecls(j) = {c} /\ Least(SuperDecls(j)) = c
    <3>1. p[j].super # None
      BY <2>2 DEF SuperDecls
    <3> QED
      BY <1>1, <2>2, <3>1
  <2>4. c \in Climb(i)
    BY <2>2, <2>3 DEF Climb
  <2>5. j <= c /\ c \in Nat /\ j \in Nat
    BY <2>1, <2>2, <2>4, ProgramShape DEF DeclsOf
  <2> QED
    BY <2>3, <2>5
<1> QED
  BY <1>3, <1>4

LEMMA NoAssertion ==
  ASSUME program \in Programs, Orderly(program), Fits(program), AssertHasACause
  PROVE  phase # "assert"
<1> DEFINE p == program
           C == {i \in 1 .. Len(p) : p[i].op \in Callables}
<1>1. Len(p) \in Nat
  BY ProgramShape
<1>2. ~(Cardinality(AllNames) > SYMBOL_MAX)
  <2>1. ASSUME NEW i \in 1 .. Len(p)
        PROVE  NodesOf(i) = {Nodes(p[i])[j] : j \in 1 .. Len(Nodes(p[i]))}
    <3>1. p[i].op = "DEF_CLASS" \/ p[i].op \in Callables
      BY ProgramShape, DeclarationShape DEF Callables
    <3>2. p[i].op \in Callables => Greatest(CallableDecls(p, p[i].sym)) = i
      BY OneCallable
    <3> QED
      BY <3>1, <3>2 DEF NodesOf
  <2>2. UNION {NodesOf(i) : i \in 1 .. Len(p)} = NodesIn(p)
    BY <2>1 DEF NodesIn
  <2>3. AllNames = UNION {NamesIn(n) : n \in NodesIn(p)}
    BY <2>2 DEF AllNames
  <2>4. Cardinality(AllNames) \in Nat
    BY NamesFinite, FS_CardinalityType
  <2>5. Cardinality(AllNames) <= SYMBOL_MAX
    BY <2>3 DEF Fits
  <2> QED
    BY <2>4, <2>5, SymbolMaxAssumption
<1>3. ~(Cardinality(C) > FUNC_MAX)
  <2>1. IsFiniteSet(C)
    <3>1. IsFiniteSet(1 .. Len(p)) /\ C \subseteq 1 .. Len(p)
      BY <1>1, FS_Interval
    <3> HIDE DEF C
    <3> QED
      BY <3>1, FS_Subset
  <2>2. Cardinality(C) <= FUNC_MAX
    BY DEF Fits
  <2> HIDE DEF C
  <2>3. Cardinality(C) \in Nat
    BY <2>1, FS_CardinalityType
  <2> QED
    BY <2>2, <2>3, FuncMaxAssumption
<1>4. \A i \in 1 .. Len(p) : \A k \in KlassesIn(i) : \E c \in ClassDecls(p, k) : c < i
  BY ClassesDeclared
<1>5. \A i \in DeclsOf(p, "DEF_CLASS") : ~SuperMissing(i)
  BY ClimbsEnd
<1> QED
  BY <1>2, <1>3, <1>4, <1>5 DEF AssertHasACause, AllNames

-----------------------------------------------------------------------------
(***************************************************************************)
(* What is known of every state of a run of an orderly program, and of the *)
(* functions compiled from it.                                             *)
(***************************************************************************)
Ready == IInv /\ DInv /\ LInv /\ Orderly(program) /\ Fits(program)

LEMMA AsWritten ==
  ASSUME Ready, NEW f \in Real
  PROVE  /\ f \in 1 .. Len(llvm) /\ program \in Programs
         /\ llvm[f].own \in 1 .. Len(program) /\ llvm[f].decl = llvm[f].own
         /\ program[llvm[f].own].op \in Callables
         /\ llvm[f].sym = program[llvm[f].own].sym
         /\ AsCompiled(f).body = program[llvm[f].own].body
         /\ \A s, v : StaticKlass(AsCompiled(f), s, v) = StaticKlass(program[llvm[f].own], s, v)
<1> DEFINE p == program
           o == llvm[f].own
           d == AsCompiled(f)
<1>1. /\ f \in 1 .. Len(llvm) /\ p \in Programs /\ Orderly(p)
      /\ o \in 1 .. Len(p) /\ p[o].op \in Callables /\ llvm[f].sym = p[o].sym
  BY DEF Ready, IInv, Functional, Real
<1>2. llvm[f].decl = o
  <2>1. llvm[f].decl = Greatest(CallableDecls(p, llvm[f].sym))
    BY DEF Ready, LInv, CodeFollowsText
  <2> QED
    BY <1>1, <2>1, OneCallable
<1>3. /\ d.body = p[o].body /\ d.args = p[o].args /\ d.op = p[o].op
      /\ d.op = "DEF_METHOD" => d.reciever = p[o].reciever
  BY <1>1, <1>2 DEF AsCompiled, Callables
<1>4. \A s, v : LocalDefs(d, s, v) = LocalDefs(p[o], s, v)
  BY <1>3 DEF LocalDefs
<1>5. \A s, v : StaticKlass(d, s, v) = StaticKlass(p[o], s, v)
  <2> HIDE DEF d, o
  <2> QED
    BY <1>3, <1>4 DEF StaticKlass
<1> QED
  BY <1>1, <1>2, <1>3, <1>5

(* No statement has a fault that exec_call_... can stumble over. *)
LEMMA NoFault ==
  ASSUME Ready, cur # 0, work # <<>>
  PROVE  LET n == Head(work)
             k == StaticKlass(AsCompiled(cur), Len(AsCompiled(cur).body) - Len(work) + 1,
                              Receiver(n))
         IN  /\ ~FaultyStatement(n, k)
             /\ n.op # "DEF_VAR" /\ Receiver(n) # None => k # None
<1> DEFINE p == program
           o == llvm[cur].own
           n == Head(work)
           d == AsCompiled(cur)
           s == Len(d.body) - Len(work) + 1
           k == StaticKlass(d, s, Receiver(n))
<1>1. /\ cur \in Real /\ n \in Statements /\ n = d.body[s]
      /\ s \in Nat \ {0} /\ Len(work) \in Nat \ {0} /\ Len(d.body) \in Nat
  <2>1. /\ cur \in Real /\ n \in Statements /\ n = d.body[Done] /\ Done = s
        /\ Done \in Nat \ {0}
    BY CodegenHead DEF Ready
  <2>2. work \in Seq(Statements) /\ Len(work) \in Nat \ {0}
    <3>1. work \in Seq(Statements)
      BY DEF Ready, IInv, Translating
    <3> DEFINE T == Statements
    <3>2. work \in Seq(T)
      BY <3>1
    <3> HIDE DEF T
    <3>3. Len(work) \in Nat \ {0}
      BY <3>2
    <3> QED
      BY <3>1, <3>3
  <2>3. Len(d.body) \in Nat
    <3>1. p[o].body \in Seq(Statements)
      BY <2>1, AsWritten, ProgramShape, CallableShape
    <3>2. d.body = p[o].body
      BY <2>1, AsWritten
    <3> QED
      BY <3>1, <3>2
  <2> QED
    BY <2>1, <2>2, <2>3
<1>2. s \in 1 .. Len(d.body)
  BY <1>1
<1>3. /\ p \in Programs /\ Orderly(p) /\ o \in 1 .. Len(p) /\ p[o].op \in Callables
      /\ s \in 1 .. Len(p[o].body) /\ n = p[o].body[s]
      /\ \A v : StaticKlass(d, s, v) = StaticKlass(p[o], s, v)
  BY <1>1, <1>2, AsWritten DEF Ready
<1>4. k = StaticKlass(p[o], s, Receiver(n))
  BY <1>3
<1> HIDE DEF p, o, n, d, s, k
<1>5. CASE n.op = "CALL_FUNC"
  <2>1. PICK c \in 1 .. Len(p) :
          /\ CallableDecls(p, n.sym) = {c}
          /\ n.arg # None => n.arg # This /\ StaticKlass(p[o], s, n.arg) # None
    BY <1>3, <1>5, OrderlyCall
  <2>2. Receiver(n) = n.arg
    BY <1>5 DEF Receiver
  <2>3. CallableDecls(p, n.sym) # {}
    BY <2>1
  <2>4. n.arg # None => n.arg # This /\ k # None
    BY <1>4, <2>1, <2>2
  <2>5. ~FaultyStatement(n, k)
    BY <1>5, <2>3, <2>4 DEF FaultyStatement, p
  <2> QED
    BY <1>5, <2>2, <2>4, <2>5 DEF n, k, s, d
<1>6. CASE n.op = "CALL_METHOD"
  <2>1. Receiver(n) = n.reciever
    BY <1>6 DEF Receiver
  <2>2. k \in Klass /\ \E m \in OwnMethods(p, k, n.sym) : m \in CallableDecls(p, n.sym)
    BY <1>3, <1>4, <1>6, <2>1, OrderlySend
  <2>3. k # None /\ k # Prim
    BY <2>2, Constants
  <2>4. CallableDecls(p, n.sym) # {}
    BY <2>2
  <2>5. ~FaultyStatement(n, k)
    BY <1>6, <2>3, <2>4 DEF FaultyStatement, p
  <2> QED
    BY <1>6, <2>3, <2>5 DEF n, k, s, d
<1>7. CASE n.op = "DEF_VAR"
  <2>1. ~FaultyStatement(n, k)
    BY <1>7 DEF FaultyStatement
  <2> QED
    BY <1>7, <2>1 DEF n, k, s, d
<1> QED
  <2>1. n \in Statements
    BY <1>1 DEF n
  <2>2. n.op \in {"DEF_VAR", "CALL_FUNC", "CALL_METHOD"}
    BY <2>1, StatementShape
  <2> QED
    BY <1>5, <1>6, <1>7, <2>2

(* There are rows for all classes. *)
LEMMA FewClasses ==
  ASSUME Ready, phase = "codegen"
  PROVE  ~(Cardinality(klasses) > RowLen)
<1> DEFINE p == program
           I == DeclsOf(p, "DEF_CLASS")
           f == [c \in I |-> p[c].sym]
           S == {f[c] : c \in I}
<1>1. klasses = ClassesBefore(p, Reached) /\ p \in Programs
  BY DEF Ready, IInv, DInv, MapsFollowText
<1>2. klasses \subseteq S
  BY <1>1 DEF ClassesBefore, ClassDecls
<1>3. IsFiniteSet(I) /\ Cardinality(I) <= RowLen /\ Cardinality(I) \in Nat
  <2>1. Len(p) \in Nat
    BY <1>1, ProgramShape
  <2>2. IsFiniteSet(1 .. Len(p)) /\ I \subseteq 1 .. Len(p)
    BY <2>1, FS_Interval DEF DeclsOf
  <2>3. Cardinality(I) <= RowLen
    BY DEF Ready, Fits
  <2> HIDE DEF I
  <2> QED
    BY <2>2, <2>3, FS_Subset, FS_CardinalityType
<1>4. f \in Surjection(I, S)
  BY DEF Surjection
<1> HIDE DEF I, S, f
<1>5. IsFiniteSet(S) /\ Cardinality(S) <= Cardinality(I)
  BY <1>3, <1>4, FS_Surjection
<1>6. Cardinality(klasses) <= Cardinality(S)
  BY <1>2, <1>5, FS_Subset
<1>7. Cardinality(S) \in Nat /\ Cardinality(klasses) \in Nat
  BY <1>2, <1>5, FS_Subset, FS_CardinalityType
<1> QED
  BY <1>3, <1>5, <1>6, <1>7, RowAssumption

(***************************************************************************)
(* What the causes of failure leave: neither assertions nor unresolved     *)
(* symbols, and no crash inside a body.                                    *)
(***************************************************************************)
Unfailing ==
  /\ phase \notin {"assert", "unresolved"}
  /\ phase = "undefined" => Cardinality(klasses) > RowLen
  /\ phase = "crash" /\ stack = <<>> => cur = 0

LEMMA NoCause == Ready => Unfailing
<1> SUFFICES ASSUME Ready PROVE Unfailing
  OBVIOUS
<1>1. program \in Programs /\ Orderly(program) /\ Fits(program)
  BY DEF Ready, IInv
<1>2. phase # "assert"
  BY <1>1, NoAssertion DEF Ready, LInv
<1>3. phase # "unresolved"
  BY <1>1, NothingUsedFirst DEF Ready, LInv, UnresolvedIffUsedFirst
<1>4. phase = "undefined" => Cardinality(klasses) > RowLen
  <2> SUFFICES ASSUME phase = "undefined", ~(Cardinality(klasses) > RowLen) PROVE FALSE
    OBVIOUS
  <2>1. /\ cur # 0 /\ work # <<>>
        /\ Head(work).op # "DEF_VAR" /\ Receiver(Head(work)) # None
        /\ StaticKlass(AsCompiled(cur), Len(AsCompiled(cur).body) - Len(work) + 1,
                       Receiver(Head(work))) = None
    BY DEF Ready, IInv, UndefinedHasACause
  <2> QED
    BY <2>1, NoFault
<1>5. phase = "crash" /\ stack = <<>> => cur = 0
  <2> SUFFICES ASSUME phase = "crash", stack = <<>>, cur # 0 PROVE FALSE
    OBVIOUS
  <2>1. /\ work # <<>>
        /\ FaultyStatement(Head(work),
             StaticKlass(AsCompiled(cur), Len(AsCompiled(cur).body) - Len(work) + 1,
                         Receiver(Head(work))))
    BY DEF Ready, IInv, CrashHasACause
  <2> QED
    BY <2>1, NoFault
<1> QED
  BY <1>2, <1>3, <1>4, <1>5 DEF Unfailing

-----------------------------------------------------------------------------
(***************************************************************************)
(* So nothing fails: compilation goes on to its end, and so does the run.  *)
(***************************************************************************)
Sound ==
  /\ phase \in {"parse", "codegen", "written", "running", "exited"}
  /\ phase \in {"running", "exited"} => cur = 0

(* The instruction that runs, and the statement it was made of. *)
LEMMA AtStatement ==
  ASSUME Ready, Sound, NEW op, Executing(op), NEW f, f = top.fn, NEW o, o = llvm[f].own,
         NEW in, in = Code(f)[top.pc], NEW s, s = program[o].body[top.pc]
  PROVE  /\ phase = "running" /\ f \in Real /\ f \in 1 .. Len(llvm)
         /\ program \in Programs /\ Orderly(program)
         /\ o \in 1 .. Len(program) /\ program[o].op \in Callables
         /\ llvm[f].decl = o /\ llvm[f].sym = program[o].sym
         /\ top.pc \in 1 .. Len(Code(f)) /\ top.pc \in 1 .. Len(program[o].body)
         /\ Len(Code(f)) = Len(program[o].body)
         /\ in \in Instrs /\ in.op = op /\ s \in Statements
         /\ Translates(in, s)
         /\ op = "slot" => in.klass = StaticKlass(program[o], top.pc, s.reciever)
<1>1. /\ phase = "running" /\ top.pc \in 1 .. Len(Code(f)) /\ in \in Instrs /\ in.op = op
  BY Current DEF Ready
<1>2. f \in Real /\ f \in 1 .. Len(llvm)
  BY <1>1, Running DEF Ready, Real
<1>3. /\ program \in Programs /\ Orderly(program)
      /\ o \in 1 .. Len(program) /\ program[o].op \in Callables
      /\ llvm[f].decl = o /\ llvm[f].sym = program[o].sym
      /\ \A j, v : StaticKlass(AsCompiled(f), j, v) = StaticKlass(program[o], j, v)
  BY <1>2, AsWritten DEF Ready
<1>4. Body(program, o) = program[o].body
  BY <1>3, OneCallable
<1>5. f # cur
  BY <1>1, <1>2 DEF Sound, Ready, IInv, TypeOK
<1>6. Len(Code(f)) = Len(program[o].body)
  BY <1>2, <1>4, <1>5 DEF Ready, LInv, CodeFollowsText
<1>7. Translates(in, s)
  BY <1>1, <1>2, <1>4 DEF Ready, LInv, CodeFollowsText
<1>8. s \in Statements
  <2>1. program[o].body \in Seq(Statements)
    BY <1>3, ProgramShape, CallableShape
  <2> DEFINE T == Statements
             b == program[o].body
  <2>2. b \in Seq(T) /\ top.pc \in 1 .. Len(b) /\ s = b[top.pc]
    BY <1>1, <1>6, <2>1
  <2> HIDE DEF T, b
  <2>3. s \in T
    BY <2>2
  <2> QED
    BY <2>3 DEF T
<1>9. op = "slot" => in.klass = StaticKlass(program[o], top.pc, s.reciever)
  <2> SUFFICES ASSUME op = "slot" PROVE in.klass = StaticKlass(program[o], top.pc, s.reciever)
    OBVIOUS
  <2>1. in.klass = StaticKlass(AsCompiled(f), top.pc, in.reciever)
    BY <1>1, <1>2 DEF Ready, IInv, ReceiversAreLexical, Real
  <2>2. in.reciever = s.reciever
    BY <1>1, <1>7 DEF Translates
  <2> QED
    BY <1>3, <2>1, <2>2
<1> QED
  BY <1>1, <1>2, <1>3, <1>6, <1>7, <1>8, <1>9

(* A call by name goes to the function of that name. *)
LEMMA CallGoesTo ==
  ASSUME Ready, Sound, Executing("call"), NEW o, o = llvm[top.fn].own,
         NEW in, in = Code(top.fn)[top.pc], NEW s, s = program[o].body[top.pc]
  PROVE  llvm[in.fn].sym = s.sym
<1>1. /\ top.fn \in Real /\ program \in Programs /\ Orderly(program)
      /\ o \in 1 .. Len(program) /\ program[o].op \in Callables
      /\ top.pc \in 1 .. Len(Code(top.fn)) /\ in.op = "call"
  BY AtStatement
<1>2. Body(program, o) = program[o].body
  BY <1>1, OneCallable
<1>3. CodeFollowsText
  BY DEF Ready, LInv
<1> DEFINE f == top.fn
           i == top.pc
<1>4. f \in Real /\ i \in 1 .. Len(Code(f)) /\ o = llvm[f].own
      /\ in = Code(f)[i] /\ s = Body(program, o)[i]
  BY <1>1, <1>2
<1> HIDE DEF f, i
<1>5. in.op = "call" => llvm[in.fn].sym = s.sym
  BY <1>3, <1>4 DEF CodeFollowsText
<1> QED
  BY <1>1, <1>5

(* The main that runs is the program's. *)
LEMMA MainRuns ==
  ASSUME Ready, phase = "running"
  PROVE  /\ MainDecls(program) = {MainPos} /\ MainPos \in 1 .. Len(program)
         /\ program[MainPos].op = "DEF_FUNC" /\ MainPos \in Nat
<1>1. /\ program \in Programs /\ Orderly(program)
      /\ MainPos \in 1 .. Len(program) /\ MainPos \in Nat
      /\ stack[1].fn \in Real /\ llvm[stack[1].fn].sym = Main
  BY TheRun DEF Ready, IInv
<1>2. program[MainPos].op \in Callables /\ program[MainPos].sym = Main
  BY <1>1, AsWritten DEF MainPos
<1>3. MainPos \in CallableDecls(program, Main)
  BY <1>1, <1>2 DEF CallableDecls
<1>4. PICK m : /\ MainDecls(program) = {m} /\ CallableDecls(program, Main) = {m}
               /\ program[m].op = "DEF_FUNC"
  BY <1>1, OneMain
<1>5. m = MainPos
  BY <1>3, <1>4
<1> QED
  BY <1>1, <1>4, <1>5

(* A call through the array finds the method the text means. *)
LEMMA SlotFilled ==
  ASSUME Ready, Sound, Executing("slot"), NEW o, o = llvm[top.fn].own,
         NEW in, in = Code(top.fn)[top.pc], NEW s, s = program[o].body[top.pc]
  PROVE  /\ table[in.slot] # 0
         /\ llvm[table[in.slot]].own \in OwnMethods(program, in.klass, s.sym)
<1> DEFINE p == program
           k == in.klass
           M == MainPos
<1>1. /\ phase = "running" /\ top.fn \in Real /\ top.fn \in 1 .. Len(llvm)
      /\ p \in Programs /\ Orderly(p)
      /\ o \in 1 .. Len(p) /\ p[o].op \in Callables
      /\ top.pc \in 1 .. Len(Code(top.fn)) /\ top.pc \in 1 .. Len(p[o].body)
      /\ in \in Instrs /\ in.op = "slot" /\ Translates(in, s)
      /\ k = StaticKlass(p[o], top.pc, s.reciever)
  BY AtStatement
<1>2. s.op = "CALL_METHOD" /\ in.slot \in Slots
  BY <1>1 DEF Translates, Instrs
<1>3. /\ k \in Klass /\ \A N : Stable(p, k, o, N)
      /\ \E m \in OwnMethods(p, k, s.sym) : m \in CallableDecls(p, s.sym)
  BY <1>1, <1>2, OrderlySend
<1>4. PICK m \in OwnMethods(p, k, s.sym) : TRUE
  BY <1>3
<1>5. /\ m \in 1 .. Len(p) /\ MethodDecls(p, k) = {m} /\ ClassBefore(p, m, k)
      /\ \A j \in MainDecls(p) : m < j
  <2> DEFINE n == s.sym
  <2>1. m \in OwnMethods(p, k, n)
    BY <1>4
  <2>2. p \in Programs /\ Orderly(p)
    BY <1>1
  <2> HIDE DEF p, k, M, n
  <2>3. m \in 1 .. Len(p)
    BY <2>1, <2>2, OwnMethod
  <2>4. MethodDecls(p, k) = {m}
    BY <2>1, <2>2, OwnMethod
  <2>5. ClassBefore(p, m, k)
    BY <2>1, <2>2, OwnMethod
  <2>6. \A j \in MainDecls(p) : m < j
    BY <2>1, <2>2, OwnMethod
  <2> QED
    BY <2>3, <2>4, <2>5, <2>6
<1>6. /\ M \in 1 .. Len(p) /\ M \in Nat /\ MainDecls(p) = {M} /\ p[M].op = "DEF_FUNC"
      /\ Len(p) \in Nat
  BY <1>1, MainRuns, ProgramShape
<1>7. m < M
  BY <1>5, <1>6
<1>8. PICK c \in ClassDecls(p, k) : c < m
  BY <1>3, <1>5, Constants DEF ClassBefore
<1>9. c \in 1 .. Len(p) /\ ClassDecls(p, k) = {c}
  BY <1>1, <1>8, OneClass DEF ClassDecls
<1>10. Left(p, k, M) = {m}
  <2>1. \A i \in m + 1 .. M - 1 : i # m /\ i # c
    BY <1>5, <1>6, <1>8, <1>9
  <2> HIDE DEF p, k, M
  <2>2. m \in Left(p, k, M)
    BY <1>5, <1>7, <1>9, <2>1 DEF Left
  <2>3. Left(p, k, M) \subseteq {m}
    BY <1>5 DEF Left
  <2> QED
    BY <2>2, <2>3
<1>11. k \in ClassesBefore(p, M)
  <2>1. c < M
    BY <1>5, <1>6, <1>7, <1>8, <1>9
  <2> QED
    BY <1>3, <1>8, <2>1 DEF ClassesBefore
<1>12. o <= M
  <2>1. Len(stack) \in Nat \ {0}
    BY <1>1, Running DEF Ready
  <2>2. Len(stack) \in 1 .. Len(stack)
    BY <2>1
  <2> QED
    BY <1>1, <2>2, TheRun DEF Ready, top
<1>13. k \in ClassesBefore(p, o) /\ in.slot = Row(p, k, o)
  BY <1>1 DEF Ready, DInv, CallsReach
<1>14. in.slot = Row(p, k, M)
  <2> HIDE DEF p, k, M
  <2> QED
    BY <1>1, <1>3, <1>6, <1>12, <1>13, RowStable
<1>15. table[in.slot] # 0
  <2>1. Left(p, k, M) # {}
    BY <1>10
  <2> QED
    BY <1>1, <1>6, <1>11, <1>14, <2>1, TheRun DEF Ready
<1>16. PICK j \in ClassesBefore(p, M) :
         in.slot = Row(p, j, M) /\ llvm[table[in.slot]].own \in Left(p, j, M)
  BY <1>1, <1>2, <1>15, TheRun DEF Ready
<1>17. j = k
  <2> HIDE DEF p, k, M
  <2> QED
    BY <1>1, <1>11, <1>14, <1>16, RowInjective
<1>18. llvm[table[in.slot]].own = m
  BY <1>10, <1>16, <1>17
<1> QED
  BY <1>4, <1>15, <1>18

LEMMA Unfailing_next == Ready' => Unfailing'
BY NoCause, PTL

LEMMA StaysSound ==
  ASSUME Ready, Ready', Sound, [Next]_all
  PROVE  Sound'
<1>1. Unfailing'
  BY Unfailing_next
<1>2. /\ phase' \notin {"assert", "unresolved"}
      /\ phase' = "undefined" => Cardinality(klasses') > RowLen
      /\ phase' = "crash" /\ stack' = <<>> => cur' = 0
  BY <1>1 DEF Unfailing
<1>3. phase \in {"parse", "codegen", "written"} => stack = <<>>
  BY DEF Ready, IInv, LiveFrames
<1>4. CASE Parse
  <2>1. phase' \in {"crash", "assert", "parse", "codegen"}
    <3>1. NextNode => phase' \in {"parse", "codegen"}
      BY <1>4 DEF NextNode, Parse
    <3> QED
      BY <1>4, <3>1, ParseShape DEF Ready
  <2>2. ~(phase' = "crash")
    <3> SUFFICES ASSUME phase' = "crash" PROVE FALSE
      OBVIOUS
    <3> DEFINE n == Head(work)
               d == program[pos]
               j == Len(Nodes(d)) - Len(work) + 1
    <3>1. phase = "parse"
      BY <1>4 DEF Parse
    <3>2. /\ pos \in 1 .. Len(program) /\ d \in Declarations
          /\ j \in 1 .. Len(Nodes(d)) /\ n = Nodes(d)[j]
      BY <3>1, ParseHead DEF Ready
    <3>3. n.op = "CALL_METHOD" /\ n.sym = None
      <4>1. ~\E x \in {"parse", "codegen", "assert"} : x = phase'
        OBVIOUS
      <4>2. \A a, b, r : ~Reduce(a, b, r)
        BY <3>1, <4>1 DEF Reduce, NextNode, Stop
      <4>3. make_ast_call_method(n) /\ n.sym = None
        BY <1>4, <4>1, <4>2 DEF Parse, make_ast_def_var, make_ast_call_func,
           make_ast_call_method, make_ast_def_class, make_ast_def_func,
           make_ast_def_method, Stop
      <4> QED
        BY <4>3 DEF make_ast_call_method
    <3>4. d.op # "CALL_METHOD"
      BY <3>2, DeclarationShape
    <3>5. program \in Programs /\ Orderly(program)
      BY DEF Ready, IInv
    <3> HIDE DEF j, n
    <3>6. /\ d.op \in Callables
          /\ \/ \E a \in 1 .. Len(d.args) : n = d.args[a]
             \/ \E s \in 1 .. Len(d.body) : n = d.body[s]
      BY <3>2, <3>3, <3>4, <3>5, NodeIs
    <3>7. ASSUME NEW a \in 1 .. Len(d.args), n = d.args[a] PROVE FALSE
      <4>1. d.args \in Seq(VarNodes)
        BY <3>2, <3>6, CallableShape
      <4> DEFINE T == VarNodes
                 g == d.args
      <4>2. g \in Seq(T) /\ a \in 1 .. Len(g) /\ n = g[a]
        BY <3>7, <4>1
      <4> HIDE DEF T, g
      <4>3. n \in T
        BY <4>2
      <4> QED
        BY <3>3, <4>3, VarNodeShape DEF T
    <3>8. ASSUME NEW s \in 1 .. Len(d.body), n = d.body[s] PROVE FALSE
      <4>1. n.sym \in Name
        BY <3>2, <3>3, <3>5, <3>6, <3>8, OrderlySend
      <4> QED
        BY <3>3, <4>1, Constants
    <3> QED
      BY <3>6, <3>7, <3>8
  <2> QED
    BY <1>2, <2>1, <2>2 DEF Sound
<1>5. CASE exec_def_class_codegen
  <2>1. pos \in DeclsOf(program, "DEF_CLASS")
    <3>1. pos \in 1 .. Len(program) + 1 /\ pos <= Len(program) /\ Len(program) \in Nat
      BY <1>5, ProgramShape DEF Ready, IInv, TypeOK, exec_def_class_codegen
    <3>2. pos \in 1 .. Len(program)
      BY <3>1
    <3> QED
      BY <1>5, <3>2 DEF exec_def_class_codegen, DeclsOf
  <2>2. ~SuperMissing(pos) /\ ~SuperCyclic(pos)
    BY <2>1, ClimbsEnd DEF Ready, IInv
  <2>3. phase' = "codegen"
    BY <1>5, <2>2 DEF exec_def_class_codegen
  <2> QED
    BY <2>3 DEF Sound
<1>6. CASE exec_def_func_codegen
  <2>1. phase' \in {"assert", "codegen"}
    BY <1>6 DEF exec_def_func_codegen, Stop, BeginFunction
  <2> QED
    BY <1>2, <2>1 DEF Sound
<1>7. CASE exec_def_method_codegen
  <2>1. phase' \in {"assert", "codegen"}
    BY <1>7 DEF exec_def_method_codegen, Stop, BeginFunction
  <2> QED
    BY <1>2, <2>1 DEF Sound
<1>8. ASSUME phase = "codegen", cur # 0, UNCHANGED <<klasses, cur, lli>>,
             phase' \in {"codegen", "assert", "crash", "undefined"}
      PROVE  Sound'
  <2>1. stack' = <<>>
    BY <1>3, <1>8 DEF lli
  <2>2. ~(Cardinality(klasses) > RowLen)
    BY <1>8, FewClasses
  <2>3. phase' # "crash" /\ phase' # "undefined"
    BY <1>2, <1>8, <2>1, <2>2
  <2> QED
    BY <1>2, <1>8, <2>3 DEF Sound
<1>9. CASE exec_def_var_codegen
  BY <1>8, <1>9 DEF exec_def_var_codegen, Compiling, Stop
<1>10. CASE exec_call_func_codegen
  BY <1>8, <1>10 DEF exec_call_func_codegen, Compiling, Stop
<1>11. CASE exec_call_method_codegen
  BY <1>8, <1>11 DEF exec_call_method_codegen, Compiling, Stop
<1>12. CASE finish_function
  <2>1. phase' \in {"codegen", "undefined"} /\ klasses' = klasses /\ phase = "codegen"
    BY <1>12 DEF finish_function, Stop
  <2>2. ~(Cardinality(klasses) > RowLen)
    BY <2>1, FewClasses
  <2> QED
    BY <1>2, <2>1, <2>2 DEF Sound
<1>13. CASE WriteBitcodeToFile
  BY <1>13 DEF WriteBitcodeToFile, Sound
<1>14. CASE Load
  <2>1. phase = "written" /\ cur' = cur /\ phase' \in {"unresolved", "running"}
    BY <1>14 DEF Load, back
  <2>2. cur = 0
    BY <2>1 DEF Ready, LInv, ModuleFollowsText
  <2> QED
    BY <1>2, <2>1, <2>2 DEF Sound
<1>15. CASE Run
  <2>1. cur' = cur /\ phase = "running"
    BY <1>15 DEF Run, RunAlloc, RunCall, RunSlot, RunReturn, Executing, back
  <2>2. phase' \in {"running", "exited"}
    <3>1. CASE RunSlot
      <4>1. Executing("slot")
        BY <3>1 DEF RunSlot
      <4>2. table[Code(top.fn)[top.pc].slot] # 0
        BY <4>1, SlotFilled
      <4> QED
        BY <2>1, <3>1, <4>2 DEF RunSlot, Enter
    <3> QED
      BY <1>15, <2>1, <3>1 DEF Run, RunAlloc, RunCall, RunReturn, Enter, Stop
  <2> QED
    BY <2>1, <2>2 DEF Sound
<1>16. CASE UNCHANGED all
  BY <1>16 DEF all, back, Sound
<1> QED
  BY <1>4, <1>5, <1>6, <1>7, <1>9, <1>10, <1>11, <1>12, <1>13, <1>14, <1>15, <1>16
     DEF Next, Codegen

-----------------------------------------------------------------------------
(***************************************************************************)
(* Frames and the activations they stand for.                              *)
(***************************************************************************)
OfFrame(m, f) == [decl |-> m[f.fn].decl, pc |-> f.pc, env |-> f.env]
OfStack(m, st) == [i \in 1 .. Len(st) |-> OfFrame(m, st[i])]

LEMMA OfStackShape ==
  ASSUME NEW m, NEW S, NEW st \in Seq(S)
  PROVE  LET T == {OfFrame(m, f) : f \in S} IN
         /\ OfStack(m, st) \in Seq(T)
         /\ Len(OfStack(m, st)) = Len(st)
         /\ \A i \in 1 .. Len(st) : OfStack(m, st)[i] = OfFrame(m, st[i])
<1> DEFINE T == {OfFrame(m, f) : f \in S}
<1>1. Len(st) \in Nat /\ \A i \in 1 .. Len(st) : OfFrame(m, st[i]) \in T
  OBVIOUS
<1> HIDE DEF T
<1>2. OfStack(m, st) = [i \in 1 .. Len(st) |-> OfFrame(m, st[i])]
  BY DEF OfStack
<1> QED
  BY <1>1, <1>2 DEF T

LEMMA OfStackIs ==
  ASSUME stack \in Seq(Frames)
  PROVE  SourceStack = OfStack(llvm, stack)
<1> DEFINE T == {OfFrame(llvm, f) : f \in Frames}
<1>1. OfStack(llvm, stack) \in Seq(T)
  BY OfStackShape
<1>2. <<>> \o OfStack(llvm, stack) = OfStack(llvm, stack)
  <2> HIDE DEF T
  <2> QED
    BY <1>1, ConcatEmptySeq
<1>3. OfStack(llvm, stack) = [i \in 1 .. Len(stack) |-> SourceFrame(stack[i])]
  BY DEF OfStack, OfFrame, SourceFrame
<1> QED
  BY <1>2, <1>3 DEF SourceStack

LEMMA OfNothing == \A m : OfStack(m, <<>>) = <<>>
<1> TAKE m
<1>1. <<>> \in Seq({})
  OBVIOUS
<1>2. /\ OfStack(m, <<>>) \in Seq({OfFrame(m, f) : f \in {}})
      /\ Len(OfStack(m, <<>>)) = 0
  BY <1>1, OfStackShape
<1> QED
  BY <1>2

LEMMA OfOne == \A m, f : OfStack(m, <<f>>) = <<OfFrame(m, f)>>
<1> TAKE m, f
<1> DEFINE T == {OfFrame(m, x) : x \in {f}}
           t == <<OfFrame(m, f)>>
<1>1. /\ OfStack(m, <<f>>) \in Seq(T) /\ Len(OfStack(m, <<f>>)) = 1
      /\ \A i \in 1 .. 1 : OfStack(m, <<f>>)[i] = OfFrame(m, <<f>>[i])
  <2>1. <<f>> \in Seq({f}) /\ Len(<<f>>) = 1
    OBVIOUS
  <2> HIDE DEF T
  <2> QED
    BY <2>1, OfStackShape DEF T
<1>2. t \in Seq(T) /\ Len(t) = 1 /\ t[1] = OfFrame(m, f)
  OBVIOUS
<1>3. \A i \in 1 .. 1 : i = 1
  OBVIOUS
<1>4. \A i \in 1 .. 1 : OfStack(m, <<f>>)[i] = t[i]
  BY <1>1, <1>2, <1>3
<1> HIDE DEF T, t
<1>5. OfStack(m, <<f>>) = t
  BY <1>1, <1>2, <1>4, SeqEqual
<1> QED
  BY <1>5 DEF t

LEMMA OfAppend ==
  ASSUME NEW m, NEW S, NEW st \in Seq(S), NEW f \in S
  PROVE  OfStack(m, Append(st, f)) = Append(OfStack(m, st), OfFrame(m, f))
<1> DEFINE T == {OfFrame(m, x) : x \in S}
           a == OfStack(m, Append(st, f))
           s == OfStack(m, st)
           b == Append(s, OfFrame(m, f))
<1>1. /\ Append(st, f) \in Seq(S) /\ Len(Append(st, f)) = Len(st) + 1 /\ Len(st) \in Nat
      /\ \A i \in 1 .. Len(st) + 1 :
           Append(st, f)[i] = IF i = Len(st) + 1 THEN f ELSE st[i]
  OBVIOUS
<1>2. /\ a \in Seq(T) /\ Len(a) = Len(st) + 1
      /\ \A i \in 1 .. Len(st) + 1 : a[i] = OfFrame(m, Append(st, f)[i])
  <2> DEFINE e == Append(st, f)
  <2>1. e \in Seq(S) /\ Len(e) = Len(st) + 1
    BY <1>1
  <2> HIDE DEF e
  <2>2. /\ OfStack(m, e) \in Seq(T) /\ Len(OfStack(m, e)) = Len(e)
        /\ \A i \in 1 .. Len(e) : OfStack(m, e)[i] = OfFrame(m, e[i])
    BY <2>1, OfStackShape
  <2> QED
    BY <2>1, <2>2 DEF e
<1>3. /\ s \in Seq(T) /\ Len(s) = Len(st)
      /\ \A i \in 1 .. Len(st) : s[i] = OfFrame(m, st[i])
  BY OfStackShape
<1>4. OfFrame(m, f) \in T
  OBVIOUS
<1> HIDE DEF T, a, s
<1>5. /\ b \in Seq(T) /\ Len(b) = Len(st) + 1
      /\ \A i \in 1 .. Len(st) + 1 :
           b[i] = IF i = Len(st) + 1 THEN OfFrame(m, f) ELSE s[i]
  BY <1>1, <1>3, <1>4
<1>6. ASSUME NEW i \in 1 .. Len(st) + 1 PROVE a[i] = b[i]
  <2>1. CASE i = Len(st) + 1
    BY <1>1, <1>2, <1>5, <2>1
  <2>2. CASE i # Len(st) + 1
    <3>1. i \in 1 .. Len(st)
      BY <1>1, <2>2
    <3> QED
      BY <1>1, <1>2, <1>3, <1>5, <2>2, <3>1
  <2> QED
    BY <2>1, <2>2
<1> HIDE DEF b
<1>7. a = b
  BY <1>2, <1>5, <1>6, SeqEqual
<1> QED
  BY <1>7 DEF a, b, s

LEMMA OfExcept ==
  ASSUME NEW m, NEW S, NEW st \in Seq(S), NEW n \in 1 .. Len(st), NEW f \in S
  PROVE  OfStack(m, [st EXCEPT ![n] = f]) = [OfStack(m, st) EXCEPT ![n] = OfFrame(m, f)]
<1> DEFINE T == {OfFrame(m, x) : x \in S}
           e == [st EXCEPT ![n] = f]
           a == OfStack(m, e)
           s == OfStack(m, st)
           g == OfFrame(m, f)
           b == [s EXCEPT ![n] = g]
<1>1. /\ e \in Seq(S) /\ Len(e) = Len(st)
      /\ \A i \in 1 .. Len(st) : e[i] = IF i = n THEN f ELSE st[i]
  BY ExceptSeq
<1> HIDE DEF e
<1>2. /\ a \in Seq(T) /\ Len(a) = Len(st)
      /\ \A i \in 1 .. Len(st) : a[i] = OfFrame(m, e[i])
  BY <1>1, OfStackShape
<1>3. /\ s \in Seq(T) /\ Len(s) = Len(st)
      /\ \A i \in 1 .. Len(st) : s[i] = OfFrame(m, st[i])
  BY OfStackShape
<1>4. g \in T
  OBVIOUS
<1> HIDE DEF T, a, s, g
<1>5. /\ b \in Seq(T) /\ Len(b) = Len(st)
      /\ \A i \in 1 .. Len(st) : b[i] = IF i = n THEN g ELSE s[i]
  BY <1>3, <1>4, ExceptSeq
<1>6. \A i \in 1 .. Len(st) : a[i] = b[i]
  BY <1>1, <1>2, <1>3, <1>5 DEF g
<1> HIDE DEF b
<1>7. a = b
  BY <1>2, <1>5, <1>6, SeqEqual
<1> QED
  BY <1>7 DEF a, b, s, g, e

LEMMA OfFront ==
  ASSUME NEW m, NEW S, NEW st \in Seq(S), NEW n \in Nat, n <= Len(st)
  PROVE  OfStack(m, SubSeq(st, 1, n)) = SubSeq(OfStack(m, st), 1, n)
<1> DEFINE T == {OfFrame(m, x) : x \in S}
           e == SubSeq(st, 1, n)
           a == OfStack(m, e)
           s == OfStack(m, st)
           b == SubSeq(s, 1, n)
<1>1. /\ e \in Seq(S) /\ Len(e) = n /\ \A i \in 1 .. n : e[i] = st[i] /\ i \in 1 .. Len(st)
  OBVIOUS
<1> HIDE DEF e
<1>2. /\ a \in Seq(T) /\ Len(a) = n
      /\ \A i \in 1 .. n : a[i] = OfFrame(m, e[i])
  BY <1>1, OfStackShape
<1>3. /\ s \in Seq(T) /\ Len(s) = Len(st)
      /\ \A i \in 1 .. Len(st) : s[i] = OfFrame(m, st[i])
  BY OfStackShape
<1> HIDE DEF T, a, s
<1>5. /\ b \in Seq(T) /\ Len(b) = n
      /\ \A i \in 1 .. n : b[i] = s[i]
  BY <1>3
<1>6. \A i \in 1 .. n : a[i] = b[i]
  BY <1>1, <1>2, <1>3, <1>5
<1> HIDE DEF b
<1>7. a = b
  BY <1>2, <1>5, <1>6, SeqEqual
<1> QED
  BY <1>7 DEF a, b, s, e

-----------------------------------------------------------------------------
(***************************************************************************)
(* The two specifications read the same text.                              *)
(***************************************************************************)
LEMMA SameText ==
  /\ Source!None = None /\ Source!This = This /\ Source!Main = Main
  /\ \A p, op : Source!DeclsOf(p, op) = DeclsOf(p, op)
  /\ \A p : Source!MainDecls(p) = MainDecls(p)
  /\ \A p, n : Source!CallableDecls(p, n) = CallableDecls(p, n)
  /\ \A p, k : Source!ClassDecls(p, k) = ClassDecls(p, k)
  /\ \A p, k, n : Source!OwnMethods(p, k, n) = OwnMethods(p, k, n)
  /\ \A p, k : Source!MethodDecls(p, k) = MethodDecls(p, k)
  /\ \A d, s, v : Source!StaticKlass(d, s, v) = StaticKlass(d, s, v)
<1>1. Source!None = None /\ Source!This = This /\ Source!Main = Main
  BY DEF Source!None, None, Source!This, This, Source!Main, Main
<1>2. \A p, op : Source!DeclsOf(p, op) = DeclsOf(p, op)
  BY DEF Source!DeclsOf, DeclsOf
<1>3. \A p : Source!MainDecls(p) = MainDecls(p)
  BY <1>1, <1>2 DEF Source!MainDecls, MainDecls
<1>4. \A p, n : Source!CallableDecls(p, n) = CallableDecls(p, n)
  BY DEF Source!CallableDecls, CallableDecls, Source!Callables, Callables
<1>5. \A p, k : Source!ClassDecls(p, k) = ClassDecls(p, k)
  BY <1>2 DEF Source!ClassDecls, ClassDecls
<1>6. \A p, k : Source!MethodDecls(p, k) = MethodDecls(p, k)
  BY <1>2 DEF Source!MethodDecls, MethodDecls
<1>7. \A p, k, n : Source!OwnMethods(p, k, n) = OwnMethods(p, k, n)
  BY <1>6 DEF Source!OwnMethods, OwnMethods
<1>8. \A d, s, v : Source!StaticKlass(d, s, v) = StaticKlass(d, s, v)
  <2>1. \A d, s, v : Source!LocalDefs(d, s, v) = LocalDefs(d, s, v)
    BY DEF Source!LocalDefs, LocalDefs
  <2>2. \A a, v : Source!Formal(a, v) = Formal(a, v)
    BY DEF Source!Formal, Formal
  <2>3. \A S : Source!Greatest(S) = Greatest(S)
    BY DEF Source!Greatest, Greatest
  <2> QED
    BY <1>1, <2>1, <2>2, <2>3 DEF Source!StaticKlass, StaticKlass
<1> QED
  BY <1>1, <1>2, <1>3, <1>4, <1>5, <1>6, <1>7, <1>8

LEMMA SameOrder == Orderly(program) => Source!Orderly(program)
<1> SUFFICES ASSUME Orderly(program) PROVE Source!Orderly(program)
  OBVIOUS
<1> DEFINE p == program
<1>1. \A i, k : Source!ClassBefore(p, i, k) <=> ClassBefore(p, i, k)
  BY SameText DEF Source!ClassBefore, ClassBefore, Source!Prim, Prim
<1>2. \A i : Source!OrderlyClass(p, i) <=> OrderlyClass(p, i)
  BY <1>1, SameText DEF Source!OrderlyClass, OrderlyClass
<1>3. \A i, s : Source!OrderlyStatement(p, i, s) <=> OrderlyStatement(p, i, s)
  BY <1>1, SameText DEF Source!OrderlyStatement, OrderlyStatement
<1>4. \A a, v : Source!Formal(a, v) = Formal(a, v)
  BY DEF Source!Formal, Formal
<1>5. \A i : Source!OrderlyCallable(p, i) <=> OrderlyCallable(p, i)
  BY <1>1, <1>3, <1>4, SameText DEF Source!OrderlyCallable, OrderlyCallable
<1>6. Source!Cardinality(MainDecls(p)) = Cardinality(MainDecls(p))
  BY DEF Source!Cardinality, Cardinality
<1> QED
  BY <1>2, <1>5, <1>6, SameText DEF Source!Orderly, Orderly

-----------------------------------------------------------------------------
(***************************************************************************)
(* A frame that is entered is an activation of the declaration.            *)
(***************************************************************************)
Apart(args) ==
  \A a \in 1 .. Len(args) : args[a].sym # This /\ Formal(args, args[a].sym) = {a}

(* The value a variable has in a new frame, given its places among the     *)
(* formals; the same, as SourceSemantics has it.                           *)
AtPlaces(at, actuals) ==
  IF at = {} \/ Greatest(at) > Len(actuals) THEN None ELSE actuals[Greatest(at)]

Given(args, v, this, arg) ==
  IF v = This THEN this ELSE IF args # <<>> /\ args[1].sym = v THEN arg ELSE None

LEMMA FunctionValue ==
  ASSUME NEW args \in Seq(VarNodes), Apart(args), NEW v, NEW arg, NEW actuals,
         (actuals = <<>> /\ arg = None) \/ actuals = <<arg>>
  PROVE  AtPlaces(Formal(args, v), actuals) = Given(args, v, None, arg)
<1> DEFINE S == Formal(args, v)
           n == Len(args)
<1>1. n \in Nat /\ S \subseteq 1 .. n /\ (args # <<>> => n >= 1)
  BY DEF Formal
<1>2. \/ actuals = <<>> /\ Len(actuals) = 0 /\ arg = None
      \/ Len(actuals) = 1 /\ actuals[1] = arg
  OBVIOUS
<1>3. \A a \in S : a \in 1 .. n /\ args[a].sym = v /\ S = {a} /\ v # This
  <2> TAKE a \in S
  <2>1. a \in 1 .. Len(args) /\ args[a].sym = v
    BY DEF Formal
  <2> QED
    BY <2>1 DEF Apart
<1>4. args # <<>> /\ args[1].sym = v => 1 \in S
  <2> SUFFICES ASSUME args # <<>>, args[1].sym = v PROVE 1 \in Formal(args, v)
    OBVIOUS
  <2>1. 1 \in 1 .. Len(args)
    BY <1>1
  <2> QED
    BY <2>1 DEF Formal
<1>5. 1 \in S => args # <<>>
  <2> SUFFICES ASSUME 1 \in S, args = <<>> PROVE FALSE
    OBVIOUS
  <2>1. 1 \in 1 .. Len(<<>>)
    BY <1>1
  <2> QED
    BY <2>1
<1> HIDE DEF S, n
<1>6. S # {} => Greatest(S) \in S
  BY <1>1, HasGreatest
<1>7. CASE S = {}
  <2>1. Given(args, v, None, arg) = None
    BY <1>4, <1>7 DEF Given
  <2> QED
    BY <1>7, <2>1 DEF AtPlaces, S
<1>8. CASE S # {}
  <2> DEFINE g == Greatest(S)
  <2>1. g \in S /\ g \in 1 .. n /\ args[g].sym = v /\ S = {g} /\ v # This
    BY <1>3, <1>6, <1>8
  <2>2. AtPlaces(S, actuals) = IF g > Len(actuals) THEN None ELSE actuals[g]
    BY <1>8 DEF AtPlaces
  <2> HIDE DEF g
  <2>3. CASE g = 1
    <3>1. Given(args, v, None, arg) = arg
      BY <1>5, <2>1, <2>3 DEF Given
    <3>2. AtPlaces(S, actuals) = arg
      BY <1>2, <2>2, <2>3
    <3> QED
      BY <3>1, <3>2 DEF S
  <2>4. CASE g # 1
    <3>1. 1 \notin S /\ g > 1
      BY <1>1, <2>1, <2>4
    <3>2. Given(args, v, None, arg) = None
      BY <1>4, <2>1, <3>1 DEF Given
    <3>3. AtPlaces(S, actuals) = None
      BY <1>1, <1>2, <2>1, <2>2, <3>1
    <3> QED
      BY <3>2, <3>3 DEF S
  <2> QED
    BY <2>3, <2>4
<1> QED
  BY <1>7, <1>8

(* The receiver goes in first, and arguments start out with a number. *)
LEMMA MethodValue ==
  ASSUME NEW args \in Seq(VarNodes), Apart(args), NEW v, NEW x, NEW F, NEW at,
         Len(F) = Len(args) + 1, F[1] = This,
         \A i \in 1 .. Len(args) : F[i + 1] = args[i].sym,
         at = {i \in 1 .. Len(F) : F[i] = v}
  PROVE  AtPlaces(at, <<x, None>>) = Given(args, v, x, None)
<1> DEFINE n == Len(args)
<1>1. n \in Nat /\ Len(F) = n + 1 /\ Len(F) \in Nat /\ at \subseteq 1 .. Len(F)
  OBVIOUS
<1>2. at # {} => Greatest(at) \in at /\ \A i \in at : i <= Greatest(at)
  BY <1>1, HasGreatest
<1>3. ASSUME NEW i \in at, i # 1 PROVE i >= 2 /\ v # This
  <2>1. i - 1 \in 1 .. n /\ (i - 1) + 1 = i
    BY <1>1, <1>3
  <2>2. F[i] = args[i - 1].sym
    BY <2>1
  <2>3. args[i - 1].sym # This
    BY <2>1 DEF Apart
  <2>4. F[i] = v
    OBVIOUS
  <2> QED
    BY <1>1, <1>3, <2>2, <2>3, <2>4
<1>4. /\ Len(<<x, None>>) = 2 /\ <<x, None>>[1] = x /\ <<x, None>>[2] = None
  OBVIOUS
<1>5. CASE v = This
  <2>1. 1 \in at
    BY <1>1, <1>5
  <2>2. Greatest(at) = 1
    BY <1>2, <1>3, <1>5, <2>1
  <2>3. AtPlaces(at, <<x, None>>) = x
    <3>1. at # {} /\ ~(1 > 2)
      BY <2>1
    <3> QED
      BY <1>4, <2>2, <3>1 DEF AtPlaces
  <2> QED
    BY <1>5, <2>3 DEF Given
<1>6. CASE v # This
  <2>1. 1 \notin at
    BY <1>6
  <2>2. at # {} => Greatest(at) \in Nat /\ Greatest(at) >= 2
    <3>1. at # {} => Greatest(at) \in at
      BY <1>2
    <3> QED
      BY <1>1, <1>3, <2>1, <3>1
  <2>3. AtPlaces(at, <<x, None>>) = None
    <3> DEFINE g == Greatest(at)
               a == <<x, None>>
    <3>1. AtPlaces(at, a) = IF at = {} \/ g > Len(a) THEN None ELSE a[g]
      BY DEF AtPlaces
    <3>2. at = {} \/ g > 2 \/ g = 2
      BY <2>2
    <3> HIDE DEF g, a
    <3> QED
      BY <1>4, <3>1, <3>2 DEF a
  <2>4. Given(args, v, x, None) = None
    BY <1>6 DEF Given
  <2> QED
    BY <2>3, <2>4
<1> QED
  BY <1>5, <1>6

LEMMA ArgsApart ==
  ASSUME Ready, NEW f \in Real, NEW o, o = llvm[f].own
  PROVE  /\ llvm[f].decl = o /\ o \in 1 .. Len(program) /\ program[o].op \in Callables
         /\ program[o].args \in Seq(VarNodes) /\ Apart(program[o].args)
<1>1. /\ llvm[f].decl = o /\ o \in 1 .. Len(program) /\ program[o].op \in Callables
      /\ program \in Programs /\ Orderly(program)
  BY AsWritten DEF Ready
<1>2. program[o].args \in Seq(VarNodes)
  BY <1>1, ProgramShape, CallableShape
<1>3. OrderlyCallable(program, o)
  BY <1>1, OneCallable
<1>4. Apart(program[o].args)
  BY <1>3 DEF OrderlyCallable, Apart
<1> QED
  BY <1>1, <1>2, <1>4

LEMMA ActivationIs ==
  ASSUME NEW o, NEW this, NEW arg
  PROVE  Source!Activation(o, this, arg) =
           [decl |-> o, pc |-> 1,
            env |-> [v \in Var |-> Given(program[o].args, v, this, arg)]]
BY DEF Source!Activation, Given, Source!This, This, Source!None, None

LEMMA FrameIs ==
  ASSUME NEW f, NEW actuals
  PROVE  Frame(f, actuals) =
           [fn |-> f, pc |-> 1,
            env |-> [v \in Var |->
              AtPlaces({i \in 1 .. Len(Formals(f)) : Formals(f)[i] = v}, actuals)]]
BY DEF Frame, AtPlaces

(* Entering a function. *)
LEMMA FunctionFrame ==
  ASSUME Ready, NEW f \in Real, NEW o, o = llvm[f].own, program[o].op = "DEF_FUNC",
         NEW arg, NEW actuals, (actuals = <<>> /\ arg = None) \/ actuals = <<arg>>
  PROVE  OfFrame(llvm, Frame(f, actuals)) = Source!Activation(o, None, arg)
<1> DEFINE args == program[o].args
<1>1. /\ llvm[f].decl = o /\ args \in Seq(VarNodes) /\ Apart(args)
  BY ArgsApart
<1>2. Formals(f) = [i \in 1 .. Len(args) |-> args[i].sym]
  BY <1>1 DEF Formals
<1>3. Len(Formals(f)) = Len(args) /\ \A i \in 1 .. Len(args) : Formals(f)[i] = args[i].sym
  <2>1. Len(args) \in Nat
    BY <1>1
  <2> HIDE DEF args
  <2> QED
    BY <1>2, <2>1
<1>4. \A v : {i \in 1 .. Len(Formals(f)) : Formals(f)[i] = v} = Formal(args, v)
  BY <1>3 DEF Formal
<1> HIDE DEF args
<1>5. \A v \in Var : AtPlaces({i \in 1 .. Len(Formals(f)) : Formals(f)[i] = v}, actuals)
                       = Given(args, v, None, arg)
  BY <1>1, <1>4, FunctionValue
<1>6. Frame(f, actuals) = [fn |-> f, pc |-> 1,
                           env |-> [v \in Var |-> Given(args, v, None, arg)]]
  BY <1>5, FrameIs
<1>7. OfFrame(llvm, Frame(f, actuals)) =
        [decl |-> o, pc |-> 1, env |-> [v \in Var |-> Given(args, v, None, arg)]]
  BY <1>1, <1>6 DEF OfFrame
<1> QED
  BY <1>7, ActivationIs DEF args

(* Entering a method. *)
LEMMA MethodFrame ==
  ASSUME Ready, NEW f \in Real, NEW o, o = llvm[f].own, program[o].op = "DEF_METHOD", NEW x
  PROVE  OfFrame(llvm, Frame(f, <<x, None>>))
           = Source!Activation(o, IF program[o].args = <<>> THEN None ELSE x, None)
<1> DEFINE args == program[o].args
           names == [i \in 1 .. Len(args) |-> args[i].sym]
           F == Formals(f)
           this == IF args = <<>> THEN None ELSE x
           At(v) == {i \in 1 .. Len(F) : F[i] = v}
<1>1. /\ llvm[f].decl = o /\ args \in Seq(VarNodes) /\ Apart(args) /\ Len(args) \in Nat
  BY ArgsApart
<1>2. F = IF args # <<>> THEN <<This>> \o names ELSE names
  BY <1>1 DEF Formals
<1>3. ASSUME NEW v \in Var
      PROVE  AtPlaces(At(v), <<x, None>>) = Given(args, v, this, None)
  <2>1. CASE args = <<>>
    <3>1. Len(F) = 0
      BY <1>2, <2>1
    <3>2. At(v) = {}
      BY <3>1
    <3>3. AtPlaces(At(v), <<x, None>>) = None
      BY <3>2 DEF AtPlaces
    <3> QED
      BY <2>1, <3>3 DEF Given
  <2>2. CASE args # <<>>
    <3> HIDE DEF args
    <3>1. names \in Seq(Var \cup Name) /\ Len(names) = Len(args)
      <4>1. \A i \in 1 .. Len(args) : args[i].sym \in Var
        <5> DEFINE T == VarNodes
        <5>1. args \in Seq(T)
          BY <1>1
        <5> HIDE DEF T
        <5>2. \A i \in 1 .. Len(args) : args[i] \in T
          BY <5>1
        <5> QED
          BY <5>2, VarNodeShape DEF T
      <4> QED
        BY <1>1, <4>1
    <3>2. \A i \in 1 .. Len(args) : names[i] = args[i].sym
      OBVIOUS
    <3>3. F = <<This>> \o names
      BY <1>2, <2>2
    <3> HIDE DEF names, F
    <3>4. /\ Len(F) = Len(args) + 1 /\ F[1] = This
          /\ \A i \in 1 .. Len(args) : F[i + 1] = args[i].sym
      <4>1. /\ Len(<<This>> \o names) = Len(args) + 1 /\ (<<This>> \o names)[1] = This
            /\ \A i \in 1 .. Len(args) : (<<This>> \o names)[i + 1] = names[i]
        BY <1>1, <3>1
      <4> QED
        BY <3>2, <3>3, <4>1
    <3>5. AtPlaces(At(v), <<x, None>>) = Given(args, v, x, None)
      <4> DEFINE at == At(v)
      <4>1. at = {i \in 1 .. Len(F) : F[i] = v}
        OBVIOUS
      <4> HIDE DEF at
      <4>2. AtPlaces(at, <<x, None>>) = Given(args, v, x, None)
        BY <1>1, <3>4, <4>1, MethodValue
      <4> QED
        BY <4>2 DEF at
    <3> QED
      BY <2>2, <3>5
  <2> QED
    BY <2>1, <2>2
<1> HIDE DEF args, this
<1>4. Frame(f, <<x, None>>) = [fn |-> f, pc |-> 1,
                               env |-> [v \in Var |-> Given(args, v, this, None)]]
  BY <1>3, FrameIs
<1>5. OfFrame(llvm, Frame(f, <<x, None>>)) =
        [decl |-> o, pc |-> 1, env |-> [v \in Var |-> Given(args, v, this, None)]]
  BY <1>1, <1>4 DEF OfFrame
<1> QED
  BY <1>5, ActivationIs DEF args, this

-----------------------------------------------------------------------------
(***************************************************************************)
(* Steps of the machine are steps of the program, or nothing to it.        *)
(***************************************************************************)
Status == IF phase \in {"parse", "codegen", "written"} THEN "compiling" ELSE phase

LEMMA RunningStack ==
  ASSUME Ready, phase = "running"
  PROVE  /\ stack \in Seq(Frames) /\ Len(stack) \in Nat \ {0} /\ Len(stack) \in 1 .. Len(stack)
         /\ top \in Frames /\ top = stack[Len(stack)]
         /\ SourceStack = OfStack(llvm, stack)
         /\ Len(SourceStack) = Len(stack)
         /\ Source!top = OfFrame(llvm, top)
         /\ Source!top.pc = top.pc /\ Source!top.env = top.env
         /\ Source!top.decl = llvm[top.fn].own
         /\ Source!Body = program[llvm[top.fn].own].body
         /\ Source!Advanced = OfStack(llvm, Advanced)
<1>1. /\ stack \in Seq(Frames) /\ Len(stack) \in Nat \ {0} /\ top \in Frames /\ top.fn \in Real
  BY Running DEF Ready
<1>2. Len(stack) \in 1 .. Len(stack) /\ top = stack[Len(stack)]
  BY <1>1 DEF top
<1>3. SourceStack = OfStack(llvm, stack)
  BY <1>1, OfStackIs
<1>4. /\ Len(SourceStack) = Len(stack)
      /\ SourceStack[Len(stack)] = OfFrame(llvm, top)
  BY <1>1, <1>2, <1>3, OfStackShape
<1>5. Source!top = OfFrame(llvm, top)
  BY <1>4 DEF Source!top
<1>6. /\ Source!top.pc = top.pc /\ Source!top.env = top.env
      /\ Source!top.decl = llvm[top.fn].own
  <2>1. llvm[top.fn].decl = llvm[top.fn].own
    BY <1>1, AsWritten
  <2> QED
    BY <1>5, <2>1 DEF OfFrame
<1>7. Source!Body = program[llvm[top.fn].own].body
  BY <1>6 DEF Source!Body
<1>8. Source!Advanced = OfStack(llvm, Advanced)
  <2> DEFINE n == Len(stack)
             fr == [top EXCEPT !.pc = top.pc + 1]
             g == [OfFrame(llvm, top) EXCEPT !.pc = top.pc + 1]
  <2>1. fr \in Frames
    BY <1>1 DEF Frames
  <2>2. OfFrame(llvm, fr) = g
    BY <1>1 DEF OfFrame, Frames
  <2>3. Advanced = [stack EXCEPT ![n] = fr]
    BY <1>2 DEF Advanced
  <2>4. Source!Advanced = [SourceStack EXCEPT ![n] = g]
    <3>1. SourceStack[n].pc = top.pc
      BY <1>4 DEF OfFrame
    <3> QED
      BY <1>4, <3>1 DEF Source!Advanced
  <2> HIDE DEF fr, g, n
  <2>5. OfStack(llvm, [stack EXCEPT ![n] = fr])
          = [OfStack(llvm, stack) EXCEPT ![n] = OfFrame(llvm, fr)]
    BY <1>1, <1>2, <2>1, OfExcept DEF n
  <2> QED
    BY <1>3, <2>2, <2>3, <2>4, <2>5
<1> QED
  BY <1>1, <1>2, <1>3, <1>4, <1>5, <1>6, <1>7, <1>8

(* The stack after a step of the run. *)
LEMMA NextStack ==
  ASSUME Ready', llvm' = llvm
  PROVE  SourceStack' = OfStack(llvm, stack')
<1>1. (stack \in Seq(Frames))'
  BY DEF Ready, IInv, TypeOK
<1>2. (stack \in Seq(Frames) => SourceStack = OfStack(llvm, stack))'
  BY OfStackIs, PTL
<1>3. SourceStack' = OfStack(llvm', stack')
  BY <1>1, <1>2
<1> QED
  BY <1>3

LEMMA LoadStarts ==
  ASSUME Ready, Ready', Sound, Sound', Load
  PROVE  Source!Start
<1>1. /\ phase = "written" /\ phase' = "running" /\ UNCHANGED <<program, llvm>>
      /\ \E m \in Mains : stack' = <<Frame(m, <<>>)>>
  BY DEF Load, Sound, back
<1>2. PICK m \in Mains : stack' = <<Frame(m, <<>>)>>
  BY <1>1
<1>3. m \in Real /\ llvm[m].sym = Main
  BY DEF Mains, Real, Named
<1> DEFINE o == llvm[m].own
<1>4. /\ program \in Programs /\ Orderly(program) /\ o \in 1 .. Len(program)
      /\ program[o].op \in Callables /\ program[o].sym = Main
  BY <1>3, AsWritten DEF Ready
<1>5. o \in CallableDecls(program, Main)
  BY <1>4 DEF CallableDecls
<1>6. PICK c : /\ MainDecls(program) = {c} /\ CallableDecls(program, Main) = {c}
               /\ program[c].op = "DEF_FUNC"
  BY <1>4, OneMain
<1>7. o \in MainDecls(program) /\ program[o].op = "DEF_FUNC"
  BY <1>5, <1>6
<1>8. OfFrame(llvm, Frame(m, <<>>)) = Source!Activation(o, None, None)
  BY <1>3, <1>7, FunctionFrame
<1>9. SourceStack' = <<Source!Activation(o, None, None)>>
  <2>1. SourceStack' = OfStack(llvm, <<Frame(m, <<>>)>>)
    BY <1>1, <1>2, NextStack
  <2> QED
    BY <1>8, <2>1, OfOne
<1>10. /\ \E i \in Source!MainDecls(program) :
            SourceStack' = <<Source!Activation(i, Source!None, Source!None)>>
  BY <1>7, <1>9, SameText
<1> QED
  BY <1>1, <1>10 DEF Source!Start

(* What the instructions have in common. *)
LEMMA AtOp ==
  ASSUME Ready, Sound, phase' = "running", program' = program,
         NEW op, Executing(op), NEW s, s = program[llvm[top.fn].own].body[top.pc]
  PROVE  Source!At(s.op) /\ Source!Body[Source!top.pc] = s
<1>1. /\ phase = "running" /\ top.pc \in 1 .. Len(program[llvm[top.fn].own].body)
  BY AtStatement
<1>2. /\ Source!Body = program[llvm[top.fn].own].body /\ Source!top.pc = top.pc
  BY <1>1, RunningStack
<1>3. top.pc <= Len(Source!Body)
  BY <1>1, <1>2
<1> QED
  BY <1>1, <1>2, <1>3 DEF Source!At

LEMMA AllocDefines ==
  ASSUME Ready, Ready', Sound, RunAlloc, UNCHANGED <<program, back>>
  PROVE  Source!DefVar
<1> DEFINE o  == llvm[top.fn].own
           in == Code(top.fn)[top.pc]
           s  == program[o].body[top.pc]
           n  == Len(stack)
           A  == Advanced
           fr == [A[n] EXCEPT !.env[in.var] = in.klass]
<1>1. /\ Executing("alloc") /\ UNCHANGED <<phase, program, llvm>>
      /\ stack' = [A EXCEPT ![n] = fr]
  BY DEF RunAlloc, back
<1>2. /\ phase = "running" /\ in \in Instrs /\ in.op = "alloc" /\ Translates(in, s)
  BY <1>1, AtStatement
<1>3. s.op = "DEF_VAR" /\ in.var = s.sym /\ in.klass = s.klass
  BY <1>2 DEF Translates
<1>4. Source!At("DEF_VAR") /\ Source!Body[Source!top.pc] = s
  <2>1. phase' = "running"
    BY <1>1, <1>2
  <2> HIDE DEF s
  <2>2. s = program[llvm[top.fn].own].body[top.pc]
    BY DEF s
  <2> QED
    BY <1>1, <1>3, <2>1, <2>2, AtOp
<1>5. /\ A \in Seq(Frames) /\ Len(A) = n /\ n \in 1 .. n
      /\ Source!Advanced = OfStack(llvm, A) /\ Len(SourceStack) = n
      /\ SourceStack' = OfStack(llvm, stack')
  BY <1>1, <1>2, RunningStack, NextStack, Moved DEF Ready
<1>6. in.klass \in Objects /\ in.var \in Var
  BY <1>2 DEF Instrs, Objects
<1>7. A[n] \in Frames
  <2> DEFINE T == Frames
  <2>1. A \in Seq(T)
    BY <1>5
  <2> HIDE DEF A, T, n
  <2>2. A[n] \in T
    BY <1>5, <2>1
  <2> QED
    BY <2>2 DEF T
<1>8. fr \in Frames /\ OfFrame(llvm, fr) = [OfFrame(llvm, A[n]) EXCEPT !.env[s.sym] = s.klass]
  <2> DEFINE a == A[n]
  <2>1. a \in Frames
    BY <1>7
  <2> HIDE DEF in, s, a
  <2> DEFINE g == [a EXCEPT !.env[in.var] = in.klass]
  <2>2. g \in Frames
    BY <1>6, <2>1 DEF Frames, Objects
  <2>3. OfFrame(llvm, g) = [OfFrame(llvm, a) EXCEPT !.env[s.sym] = s.klass]
    BY <1>3, <2>1 DEF Frames, OfFrame
  <2> QED
    BY <2>2, <2>3 DEF a
<1>9. OfStack(llvm, A)[n] = OfFrame(llvm, A[n])
  <2> HIDE DEF A, n
  <2>1. A \in Seq(Frames) /\ n \in 1 .. Len(A)
    BY <1>5
  <2>2. \A i \in 1 .. Len(A) : OfStack(llvm, A)[i] = OfFrame(llvm, A[i])
    BY <2>1, OfStackShape
  <2> QED
    BY <2>1, <2>2
<1>10. SourceStack' = [Source!Advanced EXCEPT ![n].env[s.sym] = s.klass]
  <2> HIDE DEF A, n, fr, s
  <2>1. OfStack(llvm, [A EXCEPT ![n] = fr]) = [OfStack(llvm, A) EXCEPT ![n] = OfFrame(llvm, fr)]
    <3>1. A \in Seq(Frames) /\ n \in 1 .. Len(A) /\ fr \in Frames
      BY <1>5, <1>8
    <3> QED
      BY <3>1, OfExcept
  <2>2. SourceStack' = [OfStack(llvm, A) EXCEPT ![n] = OfFrame(llvm, fr)]
    BY <1>1, <1>5, <2>1
  <2> QED
    BY <1>5, <1>8, <1>9, <2>2
<1> HIDE DEF s, n
<1> QED
  BY <1>4, <1>5, <1>10 DEF Source!DefVar

(* The stack after entering a function. *)
LEMMA EnterPushes ==
  ASSUME Ready, Ready', phase = "running", NEW f \in Real, NEW actuals \in Seq(Objects),
         Enter(f, actuals), llvm' = llvm
  PROVE  SourceStack' = Append(Source!Advanced, OfFrame(llvm, Frame(f, actuals)))
<1>1. stack' = Append(Advanced, Frame(f, actuals))
  BY DEF Enter
<1>2. Frame(f, actuals) \in Frames /\ Advanced \in Seq(Frames)
  BY FrameType, Moved DEF Ready
<1>3. SourceStack' = OfStack(llvm, stack') /\ Source!Advanced = OfStack(llvm, Advanced)
  BY NextStack, RunningStack
<1> QED
  BY <1>1, <1>2, <1>3, OfAppend

LEMMA CallCalls ==
  ASSUME Ready, Ready', Sound, RunCall, UNCHANGED <<program, back>>
  PROVE  Source!CallFunc
<1> DEFINE o  == llvm[top.fn].own
           in == Code(top.fn)[top.pc]
           s  == program[o].body[top.pc]
           arg == IF in.arg = None THEN None ELSE top.env[in.arg]
           actuals == IF in.arg = None THEN <<>> ELSE <<top.env[in.arg]>>
<1>1. /\ Executing("call") /\ UNCHANGED <<phase, program, llvm>> /\ Enter(in.fn, actuals)
  BY DEF RunCall, back, Enter
<1>2. /\ phase = "running" /\ in \in Instrs /\ in.op = "call" /\ Translates(in, s)
      /\ llvm[in.fn].sym = s.sym /\ top.fn \in 1 .. Len(llvm)
      /\ top.pc \in 1 .. Len(Code(top.fn)) /\ top.pc \in 1 .. Len(program[o].body)
      /\ program \in Programs /\ Orderly(program)
      /\ o \in 1 .. Len(program) /\ program[o].op \in Callables
  <2> DEFINE f == top.fn
  <2>1. f = top.fn /\ o = llvm[f].own /\ in = Code(f)[top.pc] /\ s = program[o].body[top.pc]
    OBVIOUS
  <2> HIDE DEF f, o, in, s
  <2>2. /\ phase = "running" /\ in \in Instrs /\ in.op = "call" /\ Translates(in, s)
        /\ f \in 1 .. Len(llvm) /\ top.pc \in 1 .. Len(Code(f))
        /\ top.pc \in 1 .. Len(program[o].body)
    BY <1>1, <2>1, AtStatement
  <2>3. /\ program \in Programs /\ Orderly(program)
        /\ o \in 1 .. Len(program) /\ program[o].op \in Callables
    BY <1>1, <2>1, AtStatement
  <2>4. llvm[in.fn].sym = s.sym
    <3>1. /\ Executing("call") /\ in = Code(top.fn)[top.pc]
          /\ o = llvm[top.fn].own /\ s = program[o].body[top.pc]
      BY <1>1 DEF in, o, s
    <3> HIDE DEF arg, actuals
    <3> QED
      BY <3>1, CallGoesTo
  <2> QED
    BY <2>2, <2>3, <2>4 DEF f
<1>3. s.op = "CALL_FUNC" /\ in.arg = s.arg /\ in.arg \in Var \cup {None}
  BY <1>2 DEF Translates, Instrs
<1>4. Source!At("CALL_FUNC") /\ Source!Body[Source!top.pc] = s
  <2>1. phase' = "running"
    BY <1>1, <1>2
  <2> HIDE DEF s
  <2>2. s = program[llvm[top.fn].own].body[top.pc]
    BY DEF s
  <2> QED
    BY <1>1, <1>3, <2>1, <2>2, AtOp
<1>5. in.fn \in Real
  <2>1. in.fn \in 1 .. Len(llvm)
    BY <1>2 DEF Ready, DInv, CallsReach
  <2>2. ~CallsStub
    BY <1>2, Running DEF Ready
  <2> QED
    BY <1>2, <2>1, <2>2 DEF CallsStub, Real
<1>6. PICK c \in 1 .. Len(program) :
        CallableDecls(program, s.sym) = {c} /\ program[c].op = "DEF_FUNC"
  BY <1>2, <1>3, OrderlyCall
<1>7. llvm[in.fn].own = c
  <2>1. /\ llvm[in.fn].own \in 1 .. Len(program) /\ program[llvm[in.fn].own].op \in Callables
        /\ program[llvm[in.fn].own].sym = s.sym
    BY <1>2, <1>5, AsWritten
  <2>2. llvm[in.fn].own \in CallableDecls(program, s.sym)
    BY <2>1 DEF CallableDecls
  <2> QED
    BY <1>6, <2>2
<1>8. actuals \in Seq(Objects)
  <2>1. in.arg # None => top.env[in.arg] \in Objects
    BY <1>2, <1>3, RunningStack DEF Frames, Objects
  <2>2. CASE in.arg = None
    BY <2>2
  <2>3. CASE in.arg # None
    <3> DEFINE x == top.env[in.arg]
    <3>1. actuals = <<x>> /\ x \in Objects
      BY <2>1, <2>3
    <3> HIDE DEF x, actuals
    <3> QED
      BY <3>1
  <2> QED
    BY <2>2, <2>3
<1>9. (actuals = <<>> /\ arg = None) \/ actuals = <<arg>>
  OBVIOUS
<1> HIDE DEF in, actuals, arg
<1>10. OfFrame(llvm, Frame(in.fn, actuals)) = Source!Activation(c, None, arg)
  <2> DEFINE g == in.fn
  <2>1. g \in Real /\ c = llvm[g].own /\ program[c].op = "DEF_FUNC"
    BY <1>5, <1>6, <1>7
  <2> HIDE DEF g
  <2>2. OfFrame(llvm, Frame(g, actuals)) = Source!Activation(c, None, arg)
    BY <1>9, <2>1, FunctionFrame
  <2> QED
    BY <2>2 DEF g
<1>11. SourceStack' = Append(Source!Advanced, Source!Activation(c, None, arg))
  BY <1>1, <1>2, <1>5, <1>8, <1>10, EnterPushes
<1>12. arg = IF s.arg = None THEN None ELSE Source!top.env[s.arg]
  <2>1. Source!top.env = top.env
    BY <1>2, RunningStack
  <2> QED
    BY <1>3, <2>1 DEF arg
<1>13. c \in Source!CallableDecls(program, s.sym)
  BY <1>6, SameText
<1>14. Source!None = None
  BY SameText
<1> HIDE DEF s
<1> QED
  BY <1>4, <1>11, <1>12, <1>13, <1>14 DEF Source!CallFunc

LEMMA SlotCalls ==
  ASSUME Ready, Ready', Sound, RunSlot, UNCHANGED <<program, back>>
  PROVE  Source!CallMethod
<1> DEFINE o  == llvm[top.fn].own
           in == Code(top.fn)[top.pc]
           s  == program[o].body[top.pc]
           f  == table[in.slot]
           m  == llvm[f].own
           x  == top.env[in.reciever]
<1>1. Executing("slot") /\ UNCHANGED <<program, llvm>>
  BY DEF RunSlot, back
<1>2. f # 0 /\ m \in OwnMethods(program, in.klass, s.sym)
  BY <1>1, SlotFilled
<1>3. Enter(f, <<x, None>>) /\ UNCHANGED phase
  BY <1>2 DEF RunSlot, Enter
<1>4. /\ phase = "running" /\ in \in Instrs /\ in.op = "slot" /\ Translates(in, s)
      /\ in.klass = StaticKlass(program[o], top.pc, s.reciever)
      /\ program \in Programs /\ Orderly(program)
  BY <1>1, AtStatement
<1>5. /\ s.op = "CALL_METHOD" /\ in.reciever = s.reciever
      /\ in.slot \in Slots /\ in.reciever \in Var
  BY <1>4 DEF Translates, Instrs
<1>6. Source!At("CALL_METHOD") /\ Source!Body[Source!top.pc] = s
  <2>1. phase' = "running"
    BY <1>3, <1>4
  <2> HIDE DEF s
  <2>2. s = program[llvm[top.fn].own].body[top.pc]
    BY DEF s
  <2> QED
    BY <1>1, <1>5, <2>1, <2>2, AtOp
<1>7. f \in Real
  BY <1>2, <1>4, <1>5, Running DEF Ready
<1>8. program[m].op = "DEF_METHOD"
  BY <1>2 DEF OwnMethods, MethodDecls, DeclsOf
<1>9. <<x, None>> \in Seq(Objects)
  <2>1. x \in Objects /\ None \in Objects
    BY <1>4, <1>5, RunningStack DEF Frames, Objects
  <2> HIDE DEF x
  <2> QED
    BY <2>1
<1> DEFINE this == IF program[m].args = <<>> THEN None ELSE x
<1>10. SourceStack' = Append(Source!Advanced, Source!Activation(m, this, None))
  <2> HIDE DEF f, x
  <2>1. OfFrame(llvm, Frame(f, <<x, None>>)) = Source!Activation(m, this, None)
    BY <1>7, <1>8, MethodFrame
  <2> HIDE DEF this, m
  <2> QED
    BY <1>1, <1>3, <1>4, <1>7, <1>9, <2>1, EnterPushes
<1>11. /\ Source!top.pc = top.pc /\ Source!top.env = top.env /\ Source!top.decl = o
  BY <1>4, RunningStack
<1>12. /\ this = IF program[m].args = <<>> THEN Source!None ELSE Source!top.env[s.reciever]
       /\ Source!None = None
       /\ m \in Source!OwnMethods(program,
                  Source!StaticKlass(program[Source!top.decl], Source!top.pc, s.reciever), s.sym)
  <2>1. Source!None = None
    BY SameText
  <2>2. this = IF program[m].args = <<>> THEN Source!None ELSE Source!top.env[s.reciever]
    BY <1>5, <1>11, <2>1
  <2>3. Source!StaticKlass(program[Source!top.decl], Source!top.pc, s.reciever) = in.klass
    BY <1>4, <1>11, SameText
  <2>4. m \in Source!OwnMethods(program, in.klass, s.sym)
    BY <1>2, SameText
  <2> QED
    BY <2>1, <2>2, <2>3, <2>4
<1> HIDE DEF s, m, this
<1> QED
  BY <1>6, <1>10, <1>12 DEF Source!CallMethod

LEMMA ReturnReturns ==
  ASSUME Ready, Ready', Sound, RunReturn, UNCHANGED <<program, back>>
  PROVE  Source!Return
<1> DEFINE f == top.fn
           o == llvm[f].own
<1>1. /\ phase = "running" /\ top.pc > Len(Code(f)) /\ UNCHANGED <<program, llvm>>
  BY DEF RunReturn, back
<1>2. /\ f \in Real /\ stack \in Seq(Frames) /\ Len(stack) \in Nat \ {0}
      /\ Source!top.pc = top.pc /\ Source!Body = program[o].body
      /\ Len(SourceStack) = Len(stack) /\ SourceStack = OfStack(llvm, stack)
  BY <1>1, Running, RunningStack DEF Ready
<1>3. Len(Code(f)) = Len(program[o].body)
  <2>1. program \in Programs /\ Orderly(program) /\ o \in 1 .. Len(program)
        /\ program[o].op \in Callables
    BY <1>2, AsWritten DEF Ready
  <2>2. Body(program, o) = program[o].body
    BY <2>1, OneCallable
  <2>3. f # cur
    BY <1>1, <1>2 DEF Sound, Real
  <2> QED
    BY <1>2, <2>2, <2>3 DEF Ready, LInv, CodeFollowsText
<1>4. SourceStack' = OfStack(llvm, stack')
  BY <1>1, NextStack
<1>5. CASE Len(stack) = 1 /\ phase' = "exited" /\ stack' = stack
  BY <1>1, <1>2, <1>3, <1>4, <1>5 DEF Source!Return
<1>6. CASE /\ Len(stack) # 1 /\ phase' = phase
           /\ stack' = SubSeq(stack, 1, Len(stack) - 1)
  <2> DEFINE n == Len(stack) - 1
  <2>1. n \in Nat /\ n <= Len(stack) /\ stack' = SubSeq(stack, 1, n)
    BY <1>2, <1>6
  <2> HIDE DEF n
  <2>2. SourceStack' = SubSeq(SourceStack, 1, n)
    BY <1>2, <1>4, <2>1, OfFront
  <2> QED
    BY <1>1, <1>2, <1>3, <1>6, <2>2 DEF Source!Return, n
<1> QED
  BY <1>5, <1>6 DEF RunReturn, Stop

-----------------------------------------------------------------------------
(***************************************************************************)
(* Every step, and every run.                                              *)
(***************************************************************************)
Compilation == phase \in {"parse", "codegen", "written"}

LEMMA CompilationShape ==
  ASSUME IInv, Parse \/ Codegen
  PROVE  /\ Compilation /\ UNCHANGED <<program, lli>>
         /\ phase' \in {"parse", "codegen", "written", "assert", "crash", "undefined"}
<1>1. CASE Parse
  <2>1. NextNode => phase' \in {"parse", "codegen"}
    BY <1>1 DEF NextNode, Parse
  <2> QED
    BY <1>1, <2>1, ParseShape DEF Compilation
<1>2. CASE Codegen
  <2> USE DEF Compilation
  <2>1. CASE exec_def_class_codegen
    BY <2>1 DEF exec_def_class_codegen, Stop
  <2>2. CASE exec_def_func_codegen
    BY <2>2 DEF exec_def_func_codegen, Stop, BeginFunction
  <2>3. CASE exec_def_method_codegen
    BY <2>3 DEF exec_def_method_codegen, Stop, BeginFunction
  <2>4. CASE exec_def_var_codegen
    BY <2>4 DEF exec_def_var_codegen, Compiling, Stop
  <2>5. CASE exec_call_func_codegen
    BY <2>5 DEF exec_call_func_codegen, Compiling, Stop
  <2>6. CASE exec_call_method_codegen
    BY <2>6 DEF exec_call_method_codegen, Compiling, Stop
  <2>7. CASE finish_function
    BY <2>7 DEF finish_function, Stop
  <2>8. CASE WriteBitcodeToFile
    BY <2>8 DEF WriteBitcodeToFile
  <2> QED
    BY <1>2, <2>1, <2>2, <2>3, <2>4, <2>5, <2>6, <2>7, <2>8 DEF Codegen
<1> QED
  BY <1>1, <1>2

LEMMA ProgramStays == IInv /\ [Next]_all => program' = program
BY CompilationShape DEF Next, Load, Run, all

(* Until lli starts, the source program has not started either. *)
LEMMA NotStarted ==
  Ready /\ Compilation => SourceStack = <<>> /\ Status = "compiling"
<1> SUFFICES ASSUME Ready, Compilation
             PROVE  SourceStack = <<>> /\ Status = "compiling"
  OBVIOUS
<1>1. stack = <<>> /\ stack \in Seq(Frames)
  BY DEF Ready, IInv, TypeOK, LiveFrames, Compilation
<1> QED
  BY <1>1, OfStackIs, OfNothing DEF Compilation, Status

LEMMA NotStarted_next ==
  (Ready /\ Compilation => SourceStack = <<>> /\ Status = "compiling")'
BY NotStarted, PTL

LEMMA SourceStutters ==
  ASSUME Ready, Ready', Sound', Parse \/ Codegen \/ UNCHANGED all
  PROVE  UNCHANGED Source!vars
<1>1. CASE Parse \/ Codegen
  <2>1. Compilation /\ program' = program /\ Compilation'
    BY <1>1, CompilationShape DEF Ready, Sound, Compilation
  <2>2. SourceStack' = SourceStack /\ Status' = Status
    BY <2>1, NotStarted, NotStarted_next
  <2> QED
    BY <2>1, <2>2 DEF Source!vars, Status
<1>2. CASE UNCHANGED all
  <2>1. UNCHANGED <<program, phase, llvm, stack>>
    BY <1>2 DEF all, back, lli
  <2>2. SourceStack' = SourceStack
    BY <2>1 DEF SourceStack, SourceFrame
  <2> QED
    BY <2>1, <2>2 DEF Source!vars
<1> QED
  BY <1>1, <1>2

LEMMA Refinement_init == Init /\ Orderly(program) => Source!Init
<1> SUFFICES ASSUME Init, Orderly(program) PROVE Source!Init
  OBVIOUS
<1>1. phase = "parse" /\ stack = <<>>
  BY DEF Init
<1>2. SourceStack = <<>>
  <2>1. stack \in Seq(Frames)
    BY <1>1
  <2> QED
    BY <1>1, <2>1, OfStackIs, OfNothing
<1> QED
  BY <1>1, <1>2, SameOrder DEF Source!Init

LEMMA Refinement_step ==
  Ready /\ Ready' /\ Sound /\ Sound' /\ [Next]_all => [Source!Next]_(Source!vars)
<1> SUFFICES ASSUME Ready, Ready', Sound, Sound', [Next]_all
             PROVE  Source!Next \/ UNCHANGED Source!vars
  OBVIOUS
<1>1. CASE Parse \/ Codegen \/ UNCHANGED all
  BY <1>1, SourceStutters
<1>2. CASE Load
  BY <1>2, LoadStarts DEF Source!Next
<1>3. CASE RunAlloc /\ UNCHANGED <<program, pos, work, front, back>>
  BY <1>3, AllocDefines DEF Source!Next
<1>4. CASE RunCall /\ UNCHANGED <<program, pos, work, front, back>>
  BY <1>4, CallCalls DEF Source!Next
<1>5. CASE RunSlot /\ UNCHANGED <<program, pos, work, front, back>>
  BY <1>5, SlotCalls DEF Source!Next
<1>6. CASE RunReturn /\ UNCHANGED <<program, pos, work, front, back>>
  BY <1>6, ReturnReturns DEF Source!Next
<1> QED
  BY <1>1, <1>2, <1>3, <1>4, <1>5, <1>6 DEF Next, Run

LEMMA Ready_init == Init /\ Orderly(program) /\ Fits(program) => Ready /\ Sound
<1>1. Init => Sound
  BY DEF Init, Sound
<1> QED
  BY <1>1, IInv_init, DInv_init, LInv_init DEF Ready

LEMMA Ready_step == Ready /\ [Next]_all => Ready'
<1> SUFFICES ASSUME Ready, [Next]_all PROVE Ready'
  OBVIOUS
<1>1. program' = program
  BY ProgramStays DEF Ready
<1>2. Orderly(program)' /\ Fits(program)'
  BY <1>1 DEF Ready
<1> QED
  BY <1>2, IInv_step, DInv_step, LInv_step DEF Ready

LEMMA Sound_step == Ready /\ Ready' /\ Sound /\ [Next]_all => Sound'
BY StaysSound

(* The whole pipeline keeps the meaning of the text: the front end's       *)
(* tables, the modules exec_def_..._codegen and exec_call_... build, the   *)
(* stubs of getOrInsertFunction, the stores setFuncPtrArry puts in main    *)
(* and lli's calls through func_ptr_array run, for every orderly program   *)
(* the tables have room for, the bodies and pass the objects the source    *)
(* names, with no assertion, crash or unresolved symbol on the way.        *)
THEOREM Source_ImplementsSource ==
  Spec /\ Orderly(program) /\ Fits(program) => ImplementsSource
<1>1. Source!Init /\ [][Source!Next]_(Source!vars) => Source!Spec
  BY DEF Source!Spec
<1>2. Spec /\ Orderly(program) /\ Fits(program) => [](Ready /\ Sound)
  BY Ready_init, Ready_step, Sound_step, PTL DEF Spec
<1> QED
  BY <1>1, <1>2, Refinement_init, Refinement_step, PTL DEF Spec, ImplementsSource
=============================================================================

----------------------------- MODULE Meaning_proofs ---------------------------
(***************************************************************************)
(* Compiling and running a well-typed program does what ObjectSemantics    *)
(* says, which knows the text only.                                        *)
(*                                                                         *)
(* The proof reads the state of the machine by name.  Both modules agree   *)
(* on the text (SameReading and what follows).  A frame's variables are    *)
(* those the text has in scope at its node, each kept under its binder     *)
(* (EnvOf), a block is a thing with a value for each member's name (Reads, *)
(* Stored).  Each instruction is then the action of the node it was made   *)
(* from, which is the one at the frame's place in the text, because the    *)
(* code translates the text; the steps of the compiler change nothing.     *)
(***************************************************************************)
EXTENDS Objects_proofs

-----------------------------------------------------------------------------
(* Both modules read the text by the same definitions. *)
LEMMA SameReading ==
  /\ Meaning!Nobody = Nobody
  /\ \A k : Meaning!KlassType(k) = KlassType(k) /\ Meaning!Basic(k) = Basic(k)
  /\ \A p, op : Meaning!Decls(p, op) = Decls(p, op)
  /\ \A p, i : Meaning!ClassesBefore(p, i) = ClassesBefore(p, i)
  /\ \A p, k : /\ Meaning!Ancestors(p, k) = Ancestors(p, k)
               /\ Meaning!OwnMembers(p, k) = OwnMembers(p, k)
               /\ Meaning!Members(p, k) = Members(p, k)
  /\ \A p, k, m : Meaning!MemberKind(p, k, m) = MemberKind(p, k, m)
  /\ \A d : Meaning!ParamsOf(d) = ParamsOf(d)
<1>1. /\ Meaning!Nobody = Nobody
      /\ \A k : Meaning!KlassType(k) = KlassType(k) /\ Meaning!Basic(k) = Basic(k)
  BY DEF Meaning!Nobody, Nobody, Meaning!KlassType, KlassType, Meaning!Basic, Basic
<1>2. \A p, op : Meaning!Decls(p, op) = Decls(p, op)
  BY DEF Meaning!Decls, Decls
<1>3. \A p, i : Meaning!ClassesBefore(p, i) = ClassesBefore(p, i)
  BY <1>2 DEF Meaning!ClassesBefore, ClassesBefore
<1>4. \A p, k : Meaning!DeclOf(p, k) = DeclOf(p, k)
  BY <1>2 DEF Meaning!DeclOf, DeclOf
<1>5. \A p, k : Meaning!Ancestors(p, k) = Ancestors(p, k)
  BY <1>1, <1>3, <1>4 DEF Meaning!Ancestors, Ancestors
<1>6. \A p, k : Meaning!OwnMembers(p, k) = OwnMembers(p, k)
  BY <1>4 DEF Meaning!OwnMembers, OwnMembers
<1>7. \A p, k : Meaning!Members(p, k) = Members(p, k)
  BY <1>5, <1>6 DEF Meaning!Members, Members
<1>8. \A p, k, m : Meaning!MemberKind(p, k, m) = MemberKind(p, k, m)
  <2> SUFFICES ASSUME NEW p, NEW k, NEW m
               PROVE  Meaning!MemberKind(p, k, m) = MemberKind(p, k, m)
    OBVIOUS
  <2> DEFINE P(a) == /\ m \in OwnMembers(p, a)
                     /\ \A b \in Ancestors(p, a) \ {a} : m \notin OwnMembers(p, b)
             Q(a) == /\ m \in Meaning!OwnMembers(p, a)
                     /\ \A b \in Meaning!Ancestors(p, a) \ {a} : m \notin Meaning!OwnMembers(p, b)
             o == CHOOSE a \in Ancestors(p, k) : P(a)
             q == CHOOSE a \in Meaning!Ancestors(p, k) : Q(a)
             vs == p[DeclOf(p, o)].def_vars
  <2>1. \A a : P(a) <=> Q(a)
    BY <1>5, <1>6
  <2>2. o = q
    <3> HIDE DEF P, Q
    <3> QED
      BY <1>5, <2>1
  <2>3. MemberKind(p, k, m) = vs[CHOOSE j \in 1 .. Len(vs) : vs[j].name = m].kind
    BY DEF MemberKind
  <2>4. Meaning!MemberKind(p, k, m)
          = p[Meaning!DeclOf(p, q)].def_vars[
              CHOOSE j \in 1 .. Len(p[Meaning!DeclOf(p, q)].def_vars) :
                p[Meaning!DeclOf(p, q)].def_vars[j].name = m].kind
    BY DEF Meaning!MemberKind
  <2> HIDE DEF P, Q, o, q
  <2>5. p[Meaning!DeclOf(p, q)].def_vars = vs
    BY <1>4, <2>2
  <2> HIDE DEF vs
  <2> QED
    BY <2>3, <2>4, <2>5
<1>9. \A d : Meaning!ParamsOf(d) = ParamsOf(d)
  BY <1>1 DEF Meaning!ParamsOf, ParamsOf
<1> QED
  BY <1>1, <1>2, <1>3, <1>5, <1>6, <1>7, <1>8, <1>9

LEMMA SameNames ==
  /\ \A p, i, m : Meaning!Names(p, i, m) = Names(p, i, m)
  /\ \A p, i, m, v : Meaning!TypeOfName(p, i, m, v) = TypeOfName(p, i, m, v)
<1>1. \A p, i, m : Meaning!Names(p, i, m) = Names(p, i, m)
  BY SameReading DEF Meaning!Names, Names
<1>2. \A S : Meaning!Latest(S) = Latest(S)
  BY DEF Meaning!Latest, Latest
<1>3. \A p, i, m, v : Meaning!Definers(p, i, m, v) = Definers(p, i, m, v)
  BY DEF Meaning!Definers, Definers
<1>4. \A p, i, v : Meaning!ParamsNamed(p, i, v) = ParamsNamed(p, i, v)
  BY SameReading DEF Meaning!ParamsNamed, ParamsNamed
<1>5. \A p, i, m, v : Meaning!Binder(p, i, m, v) = Binder(p, i, m, v)
  BY <1>2, <1>3, <1>4 DEF Meaning!Binder, Binder
<1>6. \A p, i, b : Meaning!TypeOfBinder(p, i, b) = TypeOfBinder(p, i, b)
  BY SameReading DEF Meaning!TypeOfBinder, TypeOfBinder
<1>7. \A p, i, m, v : Meaning!TypeOfName(p, i, m, v) = TypeOfName(p, i, m, v)
  BY <1>5, <1>6 DEF Meaning!TypeOfName, TypeOfName
<1> QED
  BY <1>1, <1>7

LEMMA SameValues ==
  /\ \A p, i, m : Meaning!ValueType(p, i, m) = ValueType(p, i, m)
  /\ \A p, f, t : Meaning!Assignable(p, f, t) <=> Assignable(p, f, t)
  /\ \A k, l : Meaning!SameKind(k, l) <=> SameKind(k, l)
  /\ \A p, i, t : Meaning!Makeable(p, i, t) <=> Makeable(p, i, t)
  /\ \A p, f, t : Meaning!FitsArgument(p, f, t) <=> FitsArgument(p, f, t)
<1>1. Meaning!Integral = Integral /\ Meaning!Assignments = Assignments
  BY DEF Meaning!Integral, Integral, Meaning!Assignments, Assignments
<1>2. \A k, l : Meaning!SameKind(k, l) <=> SameKind(k, l)
  BY <1>1 DEF Meaning!SameKind, SameKind
<1>3. \A p, f, t : Meaning!Assignable(p, f, t) <=> Assignable(p, f, t)
  BY <1>2, SameReading DEF Meaning!Assignable, Assignable
<1>4. \A p, i, t : Meaning!Makeable(p, i, t) <=> Makeable(p, i, t)
  BY SameReading DEF Meaning!Makeable, Makeable
<1>5. \A p, f, t : Meaning!FitsArgument(p, f, t) <=> FitsArgument(p, f, t)
  BY <1>3 DEF Meaning!FitsArgument, FitsArgument
<1>6. \A p, v : Meaning!Callee(p, v) = Callee(p, v)
  BY DEF Meaning!Callee, Callee
<1>7. \A p, i, m : Meaning!NodeType(p, i, m) = NodeType(p, i, m)
  BY <1>6, SameReading, SameNames DEF Meaning!NodeType, NodeType
<1>8. \A p, i, m : Meaning!Makers(p, i, m) = Makers(p, i, m)
  BY <1>1 DEF Meaning!Makers, Makers
<1>9. \A S : Meaning!Latest(S) = Latest(S)
  BY DEF Meaning!Latest, Latest
<1>10. \A p, i, m : Meaning!ValueType(p, i, m) = ValueType(p, i, m)
  BY <1>7, <1>8, <1>9, SameReading DEF Meaning!ValueType, ValueType
<1> QED
  BY <1>2, <1>3, <1>4, <1>5, <1>10

LEMMA SameTyping ==
  \A p : Meaning!WellTyped(p) <=> WellTyped(p)
<1>1. Meaning!Integral = Integral
  BY DEF Meaning!Integral, Integral
<1>2. \A p, i, m, v, x : Meaning!HasNamed(p, i, m, v, x) <=> HasNamed(p, i, m, v, x)
  BY SameNames DEF Meaning!HasNamed, HasNamed
<1>3. \A p, i, m, v, x : Meaning!HasMemberNamed(p, i, m, v, x) <=> HasMemberNamed(p, i, m, v, x)
  BY <1>2, SameNames, SameReading DEF Meaning!HasMemberNamed, HasMemberNamed
<1>4. \A p, i, m, v, x : Meaning!HasElement(p, i, m, v, x) <=> HasElement(p, i, m, v, x)
  BY <1>2, SameNames DEF Meaning!HasElement, HasElement
<1>5. ASSUME NEW p, NEW i, NEW m
      PROVE  Meaning!NodeTypes(p, i, m) <=> NodeTypes(p, i, m)
  BY <1>1, <1>3, <1>4, SameReading, SameNames, SameValues DEF Meaning!NodeTypes, NodeTypes
<1>6. ASSUME NEW p, NEW i
      PROVE  Meaning!CallableTypes(p, i) <=> CallableTypes(p, i)
  BY <1>5, SameReading, SameValues DEF Meaning!CallableTypes, CallableTypes
<1>7. ASSUME NEW p, NEW i
      PROVE  Meaning!ClassTypes(p, i) <=> ClassTypes(p, i)
  BY <1>1, SameReading DEF Meaning!ClassTypes, ClassTypes
<1>8. ASSUME NEW p
      PROVE  Meaning!ThisIsReadFirst(p) <=> ThisIsReadFirst(p)
  BY DEF Meaning!ThisIsReadFirst, ThisIsReadFirst
<1> QED
  BY <1>6, <1>7, <1>8, SameReading DEF Meaning!WellTyped, WellTyped

-----------------------------------------------------------------------------
(* Frames and blocks as ObjectSemantics has them. *)
EnvOf(f, m, env) == [v \in Names(program, f, m) |-> env[Binder(program, f, m, v)]]
FrameOf(f, m, acc, env) ==
  [fn |-> f, pc |-> m, acc |-> acc, env |-> EnvOf(f, m, env)]

LEMMA SequenceBelow ==
  ASSUME NEW s, IsSequence(s), Len(s) > 0
  PROVE  /\ IsSequence(SubSeq(s, 1, Len(s) - 1))
         /\ Len(SubSeq(s, 1, Len(s) - 1)) = Len(s) - 1
         /\ \A j \in 1 .. Len(s) - 1 : SubSeq(s, 1, Len(s) - 1)[j] = s[j]
<1> DEFINE t == SubSeq(s, 1, Len(s) - 1)
<1>1. Len(s) \in Nat
  BY SequenceDomain
<1>2. CASE Len(s) = 1
  <2>1. t = <<>> /\ 1 .. Len(s) - 1 = {} /\ Len(s) - 1 = 0
    BY <1>2
  <2> HIDE DEF t
  <2>2. IsSequence(t) /\ Len(t) = 0
    BY <2>1 DEF IsSequence
  <2> QED
    BY <2>1, <2>2 DEF t
<1>3. CASE Len(s) > 1
  BY <1>3, SequenceFront
<1>4. Len(s) = 1 \/ Len(s) > 1
  <2>1. PICK k \in Nat : k = Len(s)
    BY <1>1
  <2>2. k = 1 \/ k > 1
    BY <2>1
  <2> QED
    BY <2>1, <2>2
<1> QED
  BY <1>2, <1>3, <1>4, Zenon

LEMMA SameSequence ==
  ASSUME NEW s, NEW t, IsSequence(s), IsSequence(t), Len(s) = Len(t),
         \A j \in 1 .. Len(s) : s[j] = t[j]
  PROVE  s = t
<1> DEFINE T == {s[j] : j \in DOMAIN s} \cup {t[j] : j \in DOMAIN t}
<1>1. s \in Seq(T) /\ t \in Seq(T)
  BY DEF IsSequence
<1> HIDE DEF T
<1> QED
  BY <1>1

LEMMA FrameByName ==
  ASSUME NEW frame,
         frame = [fn |-> frame.fn, pc |-> frame.pc, acc |-> frame.acc, env |-> frame.env]
  PROVE  ByName(frame) = FrameOf(frame.fn, frame.pc, frame.acc, frame.env)
<1>1. PICK f, m, acc, env : frame = [fn |-> f, pc |-> m, acc |-> acc, env |-> env]
  OBVIOUS
<1> QED
  BY <1>1 DEF ByName, SlotOf, FrameOf, EnvOf

LEMMA MeaningNext ==
  ASSUME program' = program
  PROVE  /\ \A frame : ByName(frame)' = ByName(frame)
         /\ MeaningStack' = [d \in 1 .. Len(stack') |-> ByName(stack'[d])]
<1>1. \A frame : ByName(frame)' = ByName(frame)
  BY DEF ByName, SlotOf
<1>2. MeaningStack' = [d \in 1 .. Len(stack') |-> ByName(stack'[d])]
  BY DEF MeaningStack, ByName, SlotOf
<1> QED
  BY <1>1, <1>2

LEMMA ThingsNext ==
  ASSUME UNCHANGED <<program, klass_def_map>>
  PROVE  MeaningThings' = [b \in 1 .. Len(heap') |-> Thing(heap'[b])]
BY DEF MeaningThings, Thing, Fields

LEMMA MeaningTop ==
  ASSUME ShapeInv, Running
  PROVE  /\ IsSequence(MeaningStack) /\ Len(MeaningStack) = Len(stack)
         /\ \A d \in 1 .. Len(stack) : MeaningStack[d] = ByName(stack[d])
         /\ Meaning!top = FrameOf(top.fn, top.pc, top.acc, top.env)
         /\ Meaning!Node = program[top.fn].body[top.pc]
         /\ MeaningStatus = "running"
<1>1. /\ IsSequence(stack) /\ Len(stack) \in Nat /\ Len(stack) > 0
      /\ top = [fn |-> top.fn, pc |-> top.pc, acc |-> top.acc, env |-> top.env]
  BY RunFacts DEF ShapeInv, StackShape, FrameShape, top
<1>2. PICK k \in Nat : k = Len(stack)
  BY <1>1
<1>3. MeaningStack = [d \in 1 .. k |-> ByName(stack[d])]
  BY <1>2 DEF MeaningStack
<1>4. \A d \in 1 .. k : MeaningStack[d] = ByName(stack[d])
  BY <1>3
<1>5. IsSequence(MeaningStack) /\ Len(MeaningStack) = k
  <2>1. MeaningStack = [d \in 1 .. k |-> MeaningStack[d]]
    BY <1>3
  <2> QED
    BY <2>1, SequenceFrom
<1>6. Meaning!top = ByName(top)
  BY <1>1, <1>2, <1>4, <1>5 DEF Meaning!top, top
<1>7. Meaning!top = FrameOf(top.fn, top.pc, top.acc, top.env)
  BY <1>1, <1>6, FrameByName
<1>8. Meaning!Node = program[top.fn].body[top.pc]
  BY <1>7 DEF Meaning!Node, FrameOf
<1>9. MeaningStatus = "running"
  BY DEF MeaningStatus, Running
<1> QED
  BY <1>2, <1>4, <1>5, <1>7, <1>8, <1>9

LEMMA MeaningAt ==
  ASSUME ShapeInv, Running, top.pc <= Len(code[top.fn]), Still, NEW op,
         program[top.fn].body[top.pc].op = op
  PROVE  Meaning!At(op)
<1>1. /\ Meaning!top.pc = top.pc /\ Meaning!top.fn = top.fn
  BY MeaningTop DEF FrameOf
<1>2. Meaning!top.pc <= Len(program[Meaning!top.fn].body)
  BY <1>1, RunFacts
<1>3. UNCHANGED <<program, phase>>
  BY DEF Still, layout_vars
<1>4. MeaningStatus' = MeaningStatus
  BY <1>3 DEF MeaningStatus
<1> QED
  BY <1>2, <1>3, <1>4, MeaningTop DEF Meaning!At

LEMMA MeaningSteps ==
  ASSUME ShapeInv, Running, program' = program, NEW acc, NEW env, NEW s, s = Step(acc, env)
  PROVE  LET t == [d \in 1 .. Len(s) |-> ByName(s[d])] IN
         /\ IsSequence(t) /\ Len(t) = Len(stack)
         /\ t = Meaning!Step(acc, EnvOf(top.fn, top.pc + 1, env))
<1> DEFINE t == [d \in 1 .. Len(s) |-> ByName(s[d])]
           e == EnvOf(top.fn, top.pc + 1, env)
           last == [fn |-> top.fn, pc |-> top.pc + 1, acc |-> acc, env |-> env]
           u == Meaning!Step(acc, e)
<1>1. PICK k \in Nat : k = Len(stack) /\ k > 0
  BY RunFacts
<1>2. /\ Len(s) = k
      /\ \A i \in 1 .. k - 1 : s[i] = stack[i]
      /\ s[k] = last
  BY <1>1, StepStack
<1>3. IsSequence(t) /\ Len(t) = k
  <2>1. t = [d \in 1 .. k |-> t[d]]
    BY <1>2
  <2> HIDE DEF t
  <2> QED
    BY <2>1, SequenceFrom
<1>4. \A d \in 1 .. k - 1 : t[d] = ByName(stack[d])
  BY <1>1, <1>2
<1>5. t[k] = FrameOf(top.fn, top.pc + 1, acc, env)
  <2>1. ByName(last) = FrameOf(last.fn, last.pc, last.acc, last.env)
    BY FrameByName
  <2> QED
    BY <1>1, <1>2, <2>1
<1>6. t[k] = [fn |-> top.fn, pc |-> top.pc + 1, acc |-> acc, env |-> e]
  BY <1>5 DEF FrameOf
<1> HIDE DEF t, last, e
<1>7. u = Append(Meaning!below, t[k])
  <2>1. PICK w, f, m, x, v, e0 : /\ w = Meaning!top /\ e0 = e
                                 /\ f = top.fn /\ m = top.pc /\ x = top.acc
                                 /\ v = EnvOf(top.fn, top.pc, top.env)
    OBVIOUS
  <2>2. w = [fn |-> f, pc |-> m, acc |-> x, env |-> v]
    BY <2>1, MeaningTop DEF FrameOf
  <2>3. [w EXCEPT !.pc = @ + 1, !.acc = acc, !.env = e0]
          = [fn |-> f, pc |-> m + 1, acc |-> acc, env |-> e0]
    <3> DEFINE d == w.pc + 1
    <3>1. PICK w1 : w1 = [w EXCEPT !.pc = d]
      OBVIOUS
    <3>2. PICK w2 : w2 = [w1 EXCEPT !.acc = acc]
      OBVIOUS
    <3>3. PICK w3 : w3 = [w2 EXCEPT !.env = e0]
      OBVIOUS
    <3>4. [w EXCEPT !.pc = @ + 1, !.acc = acc, !.env = e0] = w3
      BY <3>1, <3>2, <3>3
    <3>5. d = m + 1
      BY <2>2
    <3> HIDE DEF d
    <3>6. w1 = [fn |-> f, pc |-> d, acc |-> x, env |-> v]
      BY <2>2, <3>1
    <3>7. w2 = [fn |-> f, pc |-> d, acc |-> acc, env |-> v]
      BY <3>2, <3>6
    <3>8. w3 = [fn |-> f, pc |-> d, acc |-> acc, env |-> e0]
      BY <3>3, <3>7
    <3> QED
      BY <3>4, <3>5, <3>8
  <2>4. t[k] = [fn |-> f, pc |-> m + 1, acc |-> acc, env |-> e0]
    BY <1>6, <2>1
  <2> QED
    BY <2>1, <2>3, <2>4, Zenon DEF Meaning!Step
<1>8. /\ IsSequence(Meaning!below) /\ Len(Meaning!below) = k - 1
      /\ \A d \in 1 .. k - 1 : Meaning!below[d] = ByName(stack[d])
  <2>1. /\ IsSequence(MeaningStack) /\ Len(MeaningStack) = k
        /\ \A d \in 1 .. k : MeaningStack[d] = ByName(stack[d])
    BY <1>1, MeaningTop
  <2>2. Meaning!below = SubSeq(MeaningStack, 1, k - 1)
    BY <2>1 DEF Meaning!below
  <2> QED
    BY <1>1, <2>1, <2>2, SequenceBelow
<1>9. /\ IsSequence(u) /\ Len(u) = k
      /\ u[k] = t[k]
      /\ \A d \in 1 .. k - 1 : u[d] = ByName(stack[d])
  <2> HIDE DEF u
  <2> QED
    BY <1>1, <1>7, <1>8, SequenceAppend
<1>10. t = u
  <2> HIDE DEF u
  <2>1. \A d \in 1 .. k : t[d] = u[d]
    BY <1>1, <1>4, <1>9
  <2> QED
    BY <1>3, <1>9, <2>1, SameSequence
<1> QED
  BY <1>1, <1>3, <1>10 DEF t, e

(* What variables a frame has after a node. *)
LEMMA NamesAfter ==
  ASSUME NEW f, NEW m \in Nat \ {0}
  PROVE  /\ program[f].body[m].op # "DEF_VAR" =>
              Names(program, f, m + 1) = Names(program, f, m)
         /\ program[f].body[m].op = "DEF_VAR" =>
              Names(program, f, m + 1) = Names(program, f, m) \cup {program[f].body[m].sym}
<1>1. Names(program, f, m + 1) =
        Names(program, f, m)
          \cup (IF program[f].body[m].op = "DEF_VAR" THEN {program[f].body[m].sym} ELSE {})
  BY NamesStep, Zenon
<1> QED
  BY <1>1

LEMMA EnvSame ==
  ASSUME NEW f, NEW m \in Nat \ {0}, program[f].body[m].op # "DEF_VAR", NEW env
  PROVE  EnvOf(f, m + 1, env) = EnvOf(f, m, env)
<1>1. Names(program, f, m + 1) = Names(program, f, m)
  BY NamesAfter
<1>2. \A v : Binder(program, f, m + 1, v) = Binder(program, f, m, v)
  BY BinderStep
<1> QED
  BY <1>1, <1>2 DEF EnvOf

LEMMA BindersDiffer ==
  ASSUME NEW f, NEW m \in Nat, Len(ParamsOf(program[f])) \in Nat,
         NEW v \in Names(program, f, m), NEW w \in Names(program, f, m),
         Binder(program, f, m, v) = Binder(program, f, m, w)
  PROVE  v = w
<1> DEFINE b == Binder(program, f, m, v)
<1>1. \/ b \in 1 .. m - 1 /\ program[f].body[b].sym = v
      \/ \E j \in 1 .. Len(ParamsOf(program[f])) : b = -j /\ ParamsOf(program[f])[j].name = v
  BY BinderIn
<1>2. \/ b \in 1 .. m - 1 /\ program[f].body[b].sym = w
      \/ \E j \in 1 .. Len(ParamsOf(program[f])) : b = -j /\ ParamsOf(program[f])[j].name = w
  BY BinderIn
<1> HIDE DEF b
<1> QED
  BY <1>1, <1>2

LEMMA EnvStored ==
  ASSUME ShapeInv, WellTyped(program), NEW f \in Callables,
         NEW m \in 1 .. Len(program[f].body), program[f].body[m].op # "DEF_VAR",
         NEW env, NEW depth, EnvHolds(f, m, env, depth),
         NEW v \in Names(program, f, m), NEW x,
         NEW b, b = Binder(program, f, m, v), NEW old, old = EnvOf(f, m, env)
  PROVE  EnvOf(f, m + 1, Put(env, b, x)) = Put(old, v, x)
<1> DEFINE after == Put(env, b, x)
           names == Names(program, f, m)
<1>1. m \in Nat \ {0} /\ Len(ParamsOf(program[f])) \in Nat /\ Len(program[f].body) \in Nat
  BY CallableText
<1>2. EnvOf(f, m + 1, after) = EnvOf(f, m, after)
  BY <1>1, EnvSame
<1>3. ASSUME NEW w \in names
      PROVE  after[Binder(program, f, m, w)]
               = IF w = v THEN x ELSE env[Binder(program, f, m, w)]
  <2>1. Binder(program, f, m, w) \in DOMAIN env
    BY <1>1, NameText DEF EnvHolds
  <2>2. w # v => Binder(program, f, m, w) # b
    BY <1>1, BindersDiffer
  <2> QED
    BY <2>1, <2>2 DEF Put
<1> HIDE DEF after
<1>4. EnvOf(f, m, after) = [w \in names |-> IF w = v THEN x ELSE env[Binder(program, f, m, w)]]
  BY <1>3 DEF EnvOf
<1>5. /\ DOMAIN old \cup {v} = names
      /\ \A w \in names : old[w] = env[Binder(program, f, m, w)]
  BY DEF EnvOf
<1> HIDE DEF names
<1>6. EnvOf(f, m, after) = [w \in DOMAIN old \cup {v} |-> IF w = v THEN x ELSE old[w]]
  BY <1>4, <1>5
<1> QED
  BY <1>2, <1>6 DEF after, Put

LEMMA EnvDefined ==
  ASSUME ShapeInv, WellTyped(program), NEW f \in Callables,
         NEW m \in 1 .. Len(program[f].body), program[f].body[m].op = "DEF_VAR",
         NEW env, NEW depth, EnvHolds(f, m, env, depth), NEW v, program[f].body[m].sym = v, NEW x,
         NEW old, old = EnvOf(f, m, env)
  PROVE  EnvOf(f, m + 1, Put(env, m, x)) = Put(old, v, x)
<1> DEFINE after == Put(env, m, x)
           names == Names(program, f, m)
<1>1. m \in Nat \ {0} /\ Len(ParamsOf(program[f])) \in Nat /\ Len(program[f].body) \in Nat
  BY CallableText
<1>2. Names(program, f, m + 1) = names \cup {v}
  BY <1>1, NamesAfter
<1>3. ASSUME NEW w \in names \cup {v}
      PROVE  after[Binder(program, f, m + 1, w)]
               = IF w = v THEN x ELSE env[Binder(program, f, m, w)]
  <2>1. CASE w = v
    <3>1. Binder(program, f, m + 1, w) = m
      BY <1>1, <2>1, BinderStep
    <3> QED
      BY <2>1, <3>1 DEF Put
  <2>2. CASE w # v
    <3>1. Binder(program, f, m + 1, w) = Binder(program, f, m, w)
      BY <1>1, <2>2, BinderStep
    <3>2. Binder(program, f, m, w) \in DOMAIN env
      BY <1>1, <2>2, NameText DEF EnvHolds
    <3>3. Binder(program, f, m, w) # m
      BY <1>1, <2>2, BinderIn
    <3> QED
      BY <2>2, <3>1, <3>2, <3>3 DEF Put
  <2> QED
    BY <2>1, <2>2
<1> HIDE DEF after
<1>4. EnvOf(f, m + 1, after)
        = [w \in names \cup {v} |-> IF w = v THEN x ELSE env[Binder(program, f, m, w)]]
  BY <1>2, <1>3 DEF EnvOf
<1>5. /\ DOMAIN old = names
      /\ \A w \in names : old[w] = env[Binder(program, f, m, w)]
  BY DEF EnvOf
<1> HIDE DEF names
<1>6. EnvOf(f, m + 1, after)
        = [w \in DOMAIN old \cup {v} |-> IF w = v THEN x ELSE old[w]]
  BY <1>4, <1>5
<1> QED
  BY <1>6 DEF after, Put

(***************************************************************************)
(* An instruction that stays in the frame: the next frame by name.         *)
(***************************************************************************)
LEMMA MeaningStepped ==
  ASSUME ShapeInv, Running, Still, NEW acc, NEW env, stack' = Step(acc, env),
         NEW e, e = EnvOf(top.fn, top.pc + 1, env)
  PROVE  MeaningStack' = Meaning!Step(acc, e)
<1>1. program' = program
  BY DEF Still, layout_vars
<1>2. PICK s : s = Step(acc, env) /\ stack' = s
  OBVIOUS
<1>3. MeaningStack' = [d \in 1 .. Len(s) |-> ByName(s[d])]
  BY <1>1, <1>2, MeaningNext
<1> QED
  BY <1>1, <1>2, <1>3, MeaningSteps

LEMMA MeaningEnv ==
  ASSUME ShapeInv, Running
  PROVE  /\ Meaning!top.env = EnvOf(top.fn, top.pc, top.env)
         /\ Meaning!top.acc = top.acc
         /\ Meaning!top.fn = top.fn /\ Meaning!top.pc = top.pc
         /\ \A v \in Names(program, top.fn, top.pc) :
              Meaning!top.env[v] = top.env[Binder(program, top.fn, top.pc, v)]
BY MeaningTop DEF FrameOf, EnvOf

LEMMA MeaningQuiet ==
  ASSUME ShapeInv, WellTyped(program), Sound, Running, top.pc <= Len(code[top.fn]), Still,
         NEW acc, stack' = Step(acc, top.env),
         program[top.fn].body[top.pc].op # "DEF_VAR"
  PROVE  MeaningStack' = Meaning!Step(acc, Meaning!top.env)
<1>1. top.pc \in Nat \ {0}
  BY RunText
<1>2. PICK e : e = EnvOf(top.fn, top.pc, top.env)
  OBVIOUS
<1>3. e = EnvOf(top.fn, top.pc + 1, top.env)
  BY <1>1, <1>2, EnvSame
<1> QED
  BY <1>2, <1>3, MeaningStepped, MeaningEnv

LEMMA BoundIs ==
  \A v, x : Meaning!Bound(v, x) = Put(Meaning!top.env, v, x)
BY DEF Meaning!Bound, Put

LEMMA SameThings ==
  ASSUME UNCHANGED heap, Still
  PROVE  MeaningThings' = MeaningThings
<1>1. UNCHANGED <<program, klass_def_map>>
  BY DEF Still, layout_vars
<1> QED
  BY <1>1, ThingsNext DEF MeaningThings

LEMMA SimpleMeans ==
  ASSUME ShapeInv, WellTyped(program), Sound, BlocksTyped, run_simple
  PROVE  Meaning!Literal \/ Meaning!GetVar \/ Meaning!SetVar
<1>1. PICK f, m, env, k, node : /\ f = top.fn /\ m = top.pc /\ env = top.env /\ k = Len(stack)
                                /\ node = program[f].body[m]
  OBVIOUS
<1>2. /\ Running /\ m <= Len(code[f]) /\ UNCHANGED <<heap, out>> /\ Still
      /\ Instr.i \in {"const", "load", "store"}
  BY <1>1 DEF run_simple
<1>3. /\ f \in Callables /\ m \in 1 .. Len(program[f].body) /\ m \in Nat \ {0}
      /\ Translates(f, m, Instr) /\ NodeTypes(program, f, m)
      /\ EnvHolds(f, m, env, k)
  BY <1>1, <1>2, RunText
<1>4. Meaning!Node = node /\ MeaningThings' = MeaningThings
  BY <1>1, <1>2, MeaningTop, SameThings
<1>5. CASE Instr.i = "const"
  <2>1. node.op = "VALUEDATA"
    BY <1>1, <1>2, <1>5, RunText
  <2>2. Instr.val = node.val
    BY <1>1, <1>3, <2>1 DEF Translates
  <2>3. stack' = Step(node.val, top.env)
    BY <1>5, <2>2 DEF run_simple
  <2>4. MeaningStack' = Meaning!Step(node.val, Meaning!top.env)
    BY <1>1, <1>2, <2>1, <2>3, MeaningQuiet
  <2>5. Meaning!At("VALUEDATA")
    BY <1>1, <1>2, <2>1, MeaningAt
  <2> QED
    BY <1>2, <1>4, <2>4, <2>5 DEF Meaning!Literal
<1>6. CASE Instr.i = "load"
  <2>1. node.op = "GET_VAR"
    BY <1>1, <1>2, <1>6, RunText
  <2>2. Instr.slot = Binder(program, f, m, node.sym) /\ node.sym \in Names(program, f, m)
    BY <1>1, <1>3, <2>1 DEF Translates, NodeTypes
  <2>3. PICK x : x = top.env[Instr.slot]
    OBVIOUS
  <2>4. x = Meaning!top.env[node.sym]
    BY <1>1, <1>2, <2>2, <2>3, MeaningEnv
  <2>5. stack' = Step(x, top.env)
    BY <1>6, <2>3 DEF run_simple
  <2>6. MeaningStack' = Meaning!Step(x, Meaning!top.env)
    BY <1>1, <1>2, <2>1, <2>5, MeaningQuiet
  <2>7. Meaning!At("GET_VAR")
    BY <1>1, <1>2, <2>1, MeaningAt
  <2> QED
    BY <1>2, <1>4, <2>4, <2>6, <2>7 DEF Meaning!GetVar
<1>7. CASE Instr.i = "store"
  <2>1. node.op = "SET_VAR"
    BY <1>1, <1>2, <1>7, RunText
  <2>2. PICK b : b = Binder(program, f, m, node.sym)
    OBVIOUS
  <2>3. Instr.slot = b /\ node.sym \in Names(program, f, m)
    BY <1>1, <1>3, <2>1, <2>2 DEF Translates, NodeTypes
  <2>4. PICK x, e : x = top.acc /\ e = EnvOf(f, m + 1, Put(env, b, x))
    OBVIOUS
  <2>5. stack' = Step(x, Put(env, b, x))
    BY <1>1, <1>7, <2>3, <2>4 DEF run_simple
  <2>6. MeaningStack' = Meaning!Step(x, e)
    BY <1>1, <1>2, <2>4, <2>5, MeaningStepped
  <2>7. PICK old : old = EnvOf(f, m, env)
    OBVIOUS
  <2>8. e = Put(old, node.sym, x)
    BY <1>1, <1>3, <2>1, <2>2, <2>3, <2>4, <2>7, EnvStored
  <2>9. Meaning!top.env = old /\ Meaning!top.acc = x
    BY <1>1, <1>2, <2>4, <2>7, MeaningEnv
  <2>10. e = Meaning!Bound(node.sym, x)
    BY <2>8, <2>9, BoundIs
  <2>11. Meaning!At("SET_VAR")
    BY <1>1, <1>2, <2>1, MeaningAt
  <2> QED
    BY <1>2, <1>4, <2>6, <2>9, <2>10, <2>11 DEF Meaning!SetVar
<1> QED
  BY <1>2, <1>5, <1>6, <1>7

LEMMA PrintMeans ==
  ASSUME ShapeInv, WellTyped(program), Sound, BlocksTyped, run_print, ~Wrong("undefined")
  PROVE  Meaning!PrintData
<1>1. /\ Running /\ top.pc <= Len(code[top.fn]) /\ Instr.i = "print"
      /\ UNCHANGED heap /\ Still /\ out' = Append(out, top.acc)
      /\ stack' = Step(Count, top.env)
  BY DEF run_print, At
<1>2. program[top.fn].body[top.pc].op = "PRINTDATA"
  BY <1>1, RunText
<1>3. MeaningStack' = Meaning!Step(Count, Meaning!top.env)
  BY <1>1, <1>2, MeaningQuiet
<1>4. Meaning!At("PRINTDATA") /\ MeaningThings' = MeaningThings
  BY <1>1, <1>2, MeaningAt, SameThings
<1>5. Meaning!top.acc = top.acc
  BY <1>1, MeaningEnv
<1> QED
  BY <1>1, <1>3, <1>4, <1>5 DEF Meaning!PrintData, Count

(* Blocks are things: new ones, and where members and elements are. *)
IsMapping(f) == f = [x \in DOMAIN f |-> f[x]]
IsThing(t)   == t = [klass |-> t.klass, vals |-> t.vals] /\ IsMapping(t.vals)

(* Where a thing's values are among the cells of its block. *)
Keys(x) ==
  IF x.type.kind = "ARRAY" THEN 0 .. Len(x.cells) - 1 ELSE Members(program, x.type.klass)
CellAt(x, name) ==
  IF x.type.kind = "ARRAY" THEN name + 1 ELSE FieldIndex(x.type.klass, name)
Reads(t, x) ==
  /\ DOMAIN t.vals = Keys(x)
  /\ \A name \in Keys(x) : t.vals[name] = x.cells[CellAt(x, name)]

LEMMA ThingOf ==
  ASSUME NEW x, NEW t, t = Thing(x)
  PROVE  /\ IsThing(t)
         /\ t.klass = IF x.type.kind = "ARRAY" THEN Nobody ELSE x.type.klass
         /\ Reads(t, x)
<1>1. PICK v : v = IF x.type.kind = "ARRAY"
                   THEN [i \in 0 .. Len(x.cells) - 1 |-> x.cells[i + 1]]
                   ELSE [m \in Members(program, x.type.klass) |->
                           x.cells[FieldIndex(x.type.klass, m)]]
  OBVIOUS
<1>2. PICK k : k = IF x.type.kind = "ARRAY" THEN Nobody ELSE x.type.klass
  OBVIOUS
<1>3. t = [klass |-> k, vals |-> v]
  BY <1>1, <1>2 DEF Thing, FieldIndex
<1>4. t.klass = k /\ t.vals = v
  BY <1>3
<1>5. IsThing(t)
  <2>1. IsMapping(v)
    BY <1>1 DEF IsMapping
  <2> QED
    BY <1>3, <1>4, <2>1 DEF IsThing
<1>6. Reads(t, x)
  <2>1. CASE x.type.kind = "ARRAY"
    <3>1. v = [i \in 0 .. Len(x.cells) - 1 |-> x.cells[i + 1]]
      BY <1>1, <2>1
    <3> QED
      BY <1>4, <2>1, <3>1 DEF Reads, Keys, CellAt
  <2>2. CASE x.type.kind # "ARRAY"
    <3>1. v = [m \in Members(program, x.type.klass) |->
                 x.cells[FieldIndex(x.type.klass, m)]]
      BY <1>1, <2>2
    <3> QED
      BY <1>4, <2>2, <3>1 DEF Reads, Keys, CellAt
  <2> QED
    BY <2>1, <2>2
<1> QED
  BY <1>2, <1>4, <1>5, <1>6

LEMMA ObjectThing ==
  ASSUME ShapeInv, WellTyped(program), NEW type, IsType(type), Allocates(Instr, type),
         type.kind = "KLASS", IsSequence(Instr.types)
  PROVE  Thing(Object) = Meaning!NewObject(type.klass)
<1>1. PICK k : k = type.klass /\ k \in DOMAIN klass_def_map
  BY DEF Allocates
<1>2. Instr.type = type /\ Instr.types = FieldTypes(k)
  BY <1>1 DEF Allocates, TypesOf
<1>3. PICK cells : /\ cells = Object.cells /\ Object.type = type
                   /\ cells = [i \in DOMAIN FieldTypes(k) |->
                                 IF i = 1 THEN Number(Instr.id) ELSE Undef]
  BY <1>2, FreshShape
<1>4. DOMAIN FieldTypes(k) = 1 .. Len(Fields(k)) /\ Len(Fields(k)) \in Nat
  BY <1>1, LayoutTypes, SequenceDomain DEF ShapeInv
<1>5. ASSUME NEW m \in Members(program, k)
      PROVE  cells[FieldIndex(k, m)] = Undef
  <2>1. FieldIndex(k, m) \in 2 .. Len(Fields(k))
    BY <1>1, MemberIndex
  <2> QED
    BY <1>3, <1>4, <2>1
<1>6. PICK x, t : x = Object /\ t = Thing(x)
  OBVIOUS
<1>7. /\ IsThing(t) /\ t.klass = k
      /\ DOMAIN t.vals = Members(program, k)
      /\ \A m \in Members(program, k) : t.vals[m] = cells[FieldIndex(k, m)]
  <2>1. x.type.kind = "KLASS" /\ x.type.klass = k /\ x.cells = cells
    BY <1>1, <1>3, <1>6
  <2>2. IsThing(t) /\ t.klass = k /\ Reads(t, x)
    BY <1>6, <2>1, ThingOf
  <2>3. Keys(x) = Members(program, k) /\ \A m : CellAt(x, m) = FieldIndex(k, m)
    BY <2>1 DEF Keys, CellAt
  <2> QED
    BY <2>1, <2>2, <2>3 DEF Reads
<1>8. t.vals = [m \in Members(program, k) |-> Undef]
  <2>1. \A m \in Members(program, k) : t.vals[m] = Undef
    BY <1>5, <1>7
  <2> QED
    BY <1>7, <2>1 DEF IsMapping, IsThing
<1>9. Meaning!NewObject(k) = [klass |-> k, vals |-> [m \in Members(program, k) |-> Undef]]
  BY SameReading DEF Meaning!NewObject, Meaning!Undef, Undef
<1> QED
  BY <1>1, <1>6, <1>7, <1>8, <1>9 DEF IsThing

LEMMA ArrayThing ==
  ASSUME NEW type, type.kind = "ARRAY", type.size \in Nat, Instr.type = type,
         Instr.types = ElemTypes(type), NEW depth
  PROVE  Thing(Fresh(depth)) = Meaning!NewArray(type.size)
<1>1. PICK num \in Nat : num = type.size
  OBVIOUS
<1>2. IsSequence(Instr.types) /\ Len(Instr.types) = num /\ DOMAIN Instr.types = 1 .. num
  <2>1. Instr.types = [i \in 1 .. num |-> LLVMType([kind |-> type.elem_kind])]
    BY <1>1 DEF ElemTypes
  <2>2. Instr.types = [i \in 1 .. num |-> Instr.types[i]]
    BY <2>1
  <2> QED
    BY <2>1, <2>2, SequenceFrom
<1>3. PICK cells : /\ cells = Fresh(depth).cells /\ Fresh(depth).type = type
                   /\ cells = [i \in 1 .. num |-> Undef]
  <2>1. PICK f, type1, types :
          /\ f = [i \in DOMAIN Instr.types |-> Undef] /\ type1 = Instr.type
          /\ Fresh(depth) = [type |-> type1, types |-> types, cells |-> f,
                             home |-> depth, live |-> TRUE]
    BY <1>2, FreshShape
  <2>2. Fresh(depth).cells = f /\ Fresh(depth).type = type
    BY <2>1
  <2>3. f = [i \in 1 .. num |-> Undef]
    BY <1>2, <2>1
  <2> QED
    BY <2>2, <2>3
<1>4. Len(cells) = num
  <2>1. cells = [i \in 1 .. num |-> cells[i]]
    BY <1>3
  <2> QED
    BY <2>1, SequenceFrom
<1>5. PICK x, t : x = Fresh(depth) /\ t = Thing(x)
  OBVIOUS
<1>6. /\ IsThing(t) /\ t.klass = Nobody
      /\ DOMAIN t.vals = 0 .. num - 1
      /\ \A i \in 0 .. num - 1 : t.vals[i] = cells[i + 1]
  <2>1. x.type.kind = "ARRAY" /\ x.cells = cells
    BY <1>3, <1>5
  <2>2. IsThing(t) /\ t.klass = Nobody /\ Reads(t, x)
    BY <1>5, <2>1, ThingOf
  <2>3. Keys(x) = 0 .. num - 1 /\ \A i : CellAt(x, i) = i + 1
    BY <1>4, <2>1 DEF Keys, CellAt
  <2> QED
    BY <2>1, <2>2, <2>3 DEF Reads
<1>7. t.vals = [i \in 0 .. num - 1 |-> Undef]
  <2>1. \A i \in 0 .. num - 1 : cells[i + 1] = Undef
    BY <1>3
  <2> QED
    BY <1>6, <2>1 DEF IsMapping, IsThing
<1>8. Meaning!NewArray(num) = [klass |-> Nobody, vals |-> [i \in 0 .. num - 1 |-> Undef]]
  BY SameReading DEF Meaning!NewArray, Meaning!Undef, Undef
<1> QED
  BY <1>1, <1>5, <1>6, <1>7, <1>8 DEF IsThing

LEMMA ThingsShape ==
  ASSUME ShapeInv
  PROVE  /\ IsSequence(MeaningThings) /\ Len(MeaningThings) = Len(heap) /\ Len(heap) \in Nat
         /\ \A b \in 1 .. Len(heap) : MeaningThings[b] = Thing(heap[b])
<1>1. PICK k \in Nat : k = Len(heap)
  BY SequenceDomain DEF ShapeInv, HeapShape
<1>2. MeaningThings = [b \in 1 .. k |-> Thing(heap[b])]
  BY <1>1 DEF MeaningThings
<1>3. \A b \in 1 .. k : MeaningThings[b] = Thing(heap[b])
  BY <1>2
<1>4. MeaningThings = [b \in 1 .. k |-> MeaningThings[b]]
  BY <1>2
<1> QED
  BY <1>1, <1>3, <1>4, SequenceFrom

LEMMA ThingsAppended ==
  ASSUME ShapeInv, UNCHANGED <<program, klass_def_map>>, NEW x, heap' = Append(heap, x),
         NEW y, Thing(x) = y
  PROVE  /\ MeaningThings' = Append(MeaningThings, y)
         /\ MeaningThings' = MeaningThings \o <<y>>
         /\ Len(MeaningThings') = Len(heap) + 1
<1>1. IsSequence(heap)
  BY DEF ShapeInv, HeapShape
<1>2. PICK k \in Nat : k = Len(heap)
  BY <1>1, SequenceDomain
<1>3. PICK h : h = heap' /\ h = Append(heap, x)
  OBVIOUS
<1>4. Len(h) = k + 1 /\ h[k + 1] = x /\ \A b \in 1 .. k : h[b] = heap[b]
  BY <1>1, <1>2, <1>3, SequenceAppend
<1>5. PICK t : t = MeaningThings' /\ t = [b \in 1 .. k + 1 |-> Thing(h[b])]
  BY <1>3, <1>4, ThingsNext
<1>6. IsSequence(t) /\ Len(t) = k + 1
  <2>1. t = [b \in 1 .. k + 1 |-> t[b]]
    BY <1>5
  <2> QED
    BY <2>1, SequenceFrom
<1>7. PICK s : s = MeaningThings /\ IsSequence(s) /\ Len(s) = k
               /\ \A b \in 1 .. k : s[b] = Thing(heap[b])
  BY <1>2, ThingsShape
<1>8. PICK u : u = Append(s, y)
  OBVIOUS
<1>9. IsSequence(u) /\ Len(u) = k + 1 /\ u[k + 1] = y /\ \A b \in 1 .. k : u[b] = s[b]
  BY <1>7, <1>8, SequenceAppend
<1>10. \A b \in 1 .. k + 1 : t[b] = u[b]
  BY <1>4, <1>5, <1>7, <1>9
<1>11. t = u
  BY <1>6, <1>9, <1>10, SameSequence
<1>12. s \o <<y>> = Append(s, y)
  <2>1. PICK T : s \in Seq(T) /\ y \in T
    <3>1. s \in Seq({s[j] : j \in DOMAIN s} \cup {y})
      BY <1>7 DEF IsSequence
    <3> QED
      BY <3>1
  <2> QED
    BY <2>1
<1> QED
  BY <1>2, <1>5, <1>6, <1>7, <1>8, <1>11, <1>12

(* Definitions and `new'. *)
LEMMA DefVarFrom ==
  ASSUME Meaning!At("DEF_VAR"), NEW node, Meaning!Node = node, NEW type, type = node.type,
         NEW made, NEW x,
         made = IF type.kind = "KLASS" THEN <<Meaning!NewObject(type.klass)>>
                ELSE IF type.kind = "ARRAY" THEN <<Meaning!NewArray(type.size)>> ELSE <<>>,
         x = IF made = <<>> THEN Undef ELSE Ref(Len(MeaningThings')),
         MeaningThings' = MeaningThings \o made,
         MeaningStack' = Meaning!Step(Number(-1), Meaning!Bound(node.sym, x)),
         UNCHANGED out
  PROVE  Meaning!DefVar
<1>1. Undef = Meaning!Undef /\ \A b : Ref(b) = Meaning!Ref(b)
  BY DEF Undef, Meaning!Undef, Ref, Meaning!Ref
<1>2. Number(-1) = <<"num", -1>>
  BY DEF Number
<1>3. x = IF made = <<>> THEN Meaning!Undef ELSE Meaning!Ref(Len(MeaningThings'))
  BY <1>1
<1>4. MeaningStack' = Meaning!Step(<<"num", -1>>, Meaning!Bound(node.sym, x))
  BY <1>2
<1> QED
  BY <1>3, <1>4, Zenon DEF Meaning!DefVar

LEMMA DefMeans ==
  ASSUME ShapeInv, WellTyped(program), Sound, BlocksTyped, run_def
  PROVE  Meaning!DefVar
<1>1. PICK f, m, k, env, node, type :
        /\ f = top.fn /\ m = top.pc /\ k = Len(stack) /\ env = top.env
        /\ node = program[f].body[m] /\ type = node.type
  OBVIOUS
<1>2. Running /\ m <= Len(code[f]) /\ Instr.i = "def" /\ Still /\ UNCHANGED out
  BY <1>1 DEF run_def, At
<1>3. UNCHANGED <<program, klass_def_map>>
  BY <1>2 DEF Still, layout_vars
<1>4. /\ f \in Callables /\ m \in 1 .. Len(program[f].body) /\ m \in Nat \ {0}
      /\ Translates(f, m, Instr) /\ NodeTypes(program, f, m)
      /\ EnvHolds(f, m, env, k)
      /\ node.op = "DEF_VAR"
  BY <1>1, <1>2, RunText
<1>5. Instr.slot = m /\ Allocates(Instr, type)
  BY <1>1, <1>4 DEF Translates
<1>6. IsType(type)
  BY <1>1, <1>4, CallableShape
<1>7. IsSequence(Instr.types)
  BY <1>1, <1>2, RunFacts DEF InstructionShape
<1>8. Instr.type = type /\ Instr.types = TypesOf(type)
  BY <1>5 DEF Allocates
<1>9. Meaning!At("DEF_VAR") /\ Meaning!Node = node
  BY <1>1, <1>2, <1>4, MeaningAt, MeaningTop
<1>10. ASSUME NEW x, stack' = Step(Number(-1), Put(env, m, x))
       PROVE  MeaningStack' = Meaning!Step(Number(-1), Meaning!Bound(node.sym, x))
  <2>1. PICK e, old : e = EnvOf(f, m + 1, Put(env, m, x)) /\ old = EnvOf(f, m, env)
    OBVIOUS
  <2>2. MeaningStack' = Meaning!Step(Number(-1), e)
    BY <1>1, <1>2, <1>10, <2>1, MeaningStepped
  <2>3. e = Put(old, node.sym, x)
    BY <1>1, <1>4, <2>1, EnvDefined
  <2>4. Meaning!top.env = old
    BY <1>1, <1>2, <2>1, MeaningEnv
  <2>5. e = Meaning!Bound(node.sym, x)
    BY <2>3, <2>4, BoundIs
  <2> QED
    BY <2>2, <2>5
<1>11. ASSUME NEW y, heap' = Append(heap, IF type.kind = "KLASS" THEN Object ELSE Fresh(k)),
              y = Thing(IF type.kind = "KLASS" THEN Object ELSE Fresh(k))
       PROVE  /\ MeaningThings' = MeaningThings \o <<y>>
              /\ Len(MeaningThings') = Len(heap) + 1
  <2>1. PICK z : z = IF type.kind = "KLASS" THEN Object ELSE Fresh(k)
    OBVIOUS
  <2>2. heap' = Append(heap, z) /\ Thing(z) = y
    BY <1>11, <2>1
  <2> QED
    BY <1>3, <2>2, ThingsAppended
<1>12. PICK b, c : b = Len(heap) + 1 /\ c = Ref(b)
  OBVIOUS
<1>13. ASSUME type.kind \in {"KLASS", "ARRAY"}
       PROVE  /\ heap' = Append(heap, IF type.kind = "KLASS" THEN Object ELSE Fresh(k))
              /\ stack' = Step(Number(-1), Put(env, m, c))
  BY <1>1, <1>5, <1>8, <1>12, <1>13 DEF run_def
<1>14. ASSUME NEW y, type.kind \in {"KLASS", "ARRAY"},
              y = Thing(IF type.kind = "KLASS" THEN Object ELSE Fresh(k)),
              <<y>> = IF type.kind = "KLASS" THEN <<Meaning!NewObject(type.klass)>>
                      ELSE IF type.kind = "ARRAY" THEN <<Meaning!NewArray(type.size)>> ELSE <<>>
       PROVE  Meaning!DefVar
  <2>1. PICK made : made = <<y>> /\ made # <<>>
    <3>1. Len(<<y>>) = 1 /\ Len(<<>>) = 0
      OBVIOUS
    <3>2. <<y>> # <<>>
      BY <3>1, Zenon
    <3> QED
      BY <3>2
  <2>2. MeaningThings' = MeaningThings \o made /\ Len(MeaningThings') = b
    BY <1>11, <1>12, <1>13, <1>14, <2>1
  <2>3. c = IF made = <<>> THEN Undef ELSE Ref(Len(MeaningThings'))
    BY <1>12, <2>1, <2>2
  <2>4. MeaningStack' = Meaning!Step(Number(-1), Meaning!Bound(node.sym, c))
    BY <1>10, <1>13, <1>14
  <2>5. made = IF type.kind = "KLASS" THEN <<Meaning!NewObject(type.klass)>>
               ELSE IF type.kind = "ARRAY" THEN <<Meaning!NewArray(type.size)>> ELSE <<>>
    BY <1>14, <2>1, Zenon
  <2> QED
    BY <1>1, <1>2, <1>9, <2>2, <2>3, <2>4, <2>5, DefVarFrom
<1>15. CASE type.kind = "KLASS"
  <2>1. Thing(Object) = Meaning!NewObject(type.klass)
    BY <1>5, <1>6, <1>7, <1>15, ObjectThing
  <2>2. PICK y : y = Thing(Object) /\ y = Meaning!NewObject(type.klass)
    BY <2>1
  <2>3. y = Thing(IF type.kind = "KLASS" THEN Object ELSE Fresh(k))
    BY <1>15, <2>2
  <2>4. <<y>> = IF type.kind = "KLASS" THEN <<Meaning!NewObject(type.klass)>>
                ELSE IF type.kind = "ARRAY" THEN <<Meaning!NewArray(type.size)>> ELSE <<>>
    BY <1>15, <2>2
  <2> QED
    BY <1>14, <1>15, <2>3, <2>4
<1>16. CASE type.kind = "ARRAY"
  <2>1. type.size \in Nat
    <3>1. Makeable(program, f, type)
      BY <1>1, <1>4 DEF NodeTypes
    <3> QED
      BY <1>6, <1>16, <3>1 DEF Makeable, IsType
  <2>2. Instr.types = ElemTypes(type)
    BY <1>8, <1>16 DEF TypesOf
  <2>3. Thing(Fresh(k)) = Meaning!NewArray(type.size)
    BY <1>8, <1>16, <2>1, <2>2, ArrayThing
  <2>4. PICK y : y = Thing(Fresh(k)) /\ y = Meaning!NewArray(type.size)
    BY <2>3
  <2>5. y = Thing(IF type.kind = "KLASS" THEN Object ELSE Fresh(k))
    BY <1>16, <2>4
  <2>6. <<y>> = IF type.kind = "KLASS" THEN <<Meaning!NewObject(type.klass)>>
                ELSE IF type.kind = "ARRAY" THEN <<Meaning!NewArray(type.size)>> ELSE <<>>
    BY <1>16, <2>4
  <2> QED
    BY <1>14, <1>16, <2>5, <2>6
<1>17. CASE type.kind \notin {"KLASS", "ARRAY"}
  <2>1. stack' = Step(Number(-1), Put(env, m, Undef)) /\ UNCHANGED heap
    BY <1>1, <1>5, <1>8, <1>17 DEF run_def
  <2>2. PICK made : made = <<>>
    OBVIOUS
  <2>3. made = IF type.kind = "KLASS" THEN <<Meaning!NewObject(type.klass)>>
               ELSE IF type.kind = "ARRAY" THEN <<Meaning!NewArray(type.size)>> ELSE <<>>
    BY <1>17, <2>2
  <2>4. MeaningThings' = MeaningThings \o made
    <3>1. IsSequence(MeaningThings)
      BY ThingsShape
    <3>2. MeaningThings \o <<>> = MeaningThings
      BY <3>1 DEF IsSequence
    <3> QED
      BY <1>2, <2>1, <2>2, <3>2, SameThings
  <2>5. PICK x : x = Undef
    OBVIOUS
  <2>6. x = IF made = <<>> THEN Undef ELSE Ref(Len(MeaningThings'))
    BY <2>2, <2>5
  <2>7. MeaningStack' = Meaning!Step(Number(-1), Meaning!Bound(node.sym, x))
    BY <1>10, <2>1, <2>5
  <2> QED
    BY <1>1, <1>2, <1>9, <2>3, <2>4, <2>6, <2>7, DefVarFrom
<1> QED
  BY <1>15, <1>16, <1>17

LEMMA NewMeans ==
  ASSUME ShapeInv, WellTyped(program), Sound, BlocksTyped, run_new
  PROVE  Meaning!NewClass
<1>1. PICK f, m, node, type, b, acc :
        /\ f = top.fn /\ m = top.pc
        /\ node = program[f].body[m] /\ type = node.type
        /\ b = Len(heap) + 1 /\ acc = Ref(b)
  OBVIOUS
<1>2. /\ Running /\ m <= Len(code[f]) /\ Instr.i = "new" /\ Still /\ UNCHANGED out
      /\ heap' = Append(heap, Object) /\ stack' = Step(acc, top.env)
  BY <1>1 DEF run_new, At
<1>3. UNCHANGED <<program, klass_def_map>>
  BY <1>2 DEF Still, layout_vars
<1>4. /\ f \in Callables /\ m \in 1 .. Len(program[f].body)
      /\ Translates(f, m, Instr) /\ NodeTypes(program, f, m)
      /\ node.op = "NEW_CLASS"
  BY <1>1, <1>2, RunText
<1>5. Allocates(Instr, type) /\ type.kind = "KLASS"
  BY <1>1, <1>4 DEF Translates, NodeTypes
<1>6. IsType(type)
  BY <1>1, <1>4, CallableShape
<1>7. IsSequence(Instr.types)
  BY <1>1, <1>2, RunFacts DEF InstructionShape
<1>8. Meaning!At("NEW_CLASS") /\ Meaning!Node = node
  BY <1>1, <1>2, <1>4, MeaningAt, MeaningTop
<1>9. PICK x, y : x = Object /\ y = Meaning!NewObject(type.klass)
  OBVIOUS
<1>10. Thing(x) = y
  BY <1>5, <1>6, <1>7, <1>9, ObjectThing
<1>11. heap' = Append(heap, x)
  BY <1>2, <1>9
<1>12. MeaningThings' = Append(MeaningThings, y) /\ Len(MeaningThings') = b
  BY <1>1, <1>3, <1>10, <1>11, ThingsAppended
<1>13. MeaningStack' = Meaning!Step(acc, Meaning!top.env)
  BY <1>1, <1>2, <1>4, MeaningQuiet
<1>14. acc = Meaning!Ref(Len(MeaningThings'))
  BY <1>1, <1>12 DEF Ref, Meaning!Ref
<1>15. MeaningThings' = Append(MeaningThings, Meaning!NewObject(Meaning!Node.type.klass))
  BY <1>1, <1>8, <1>9, <1>12
<1> QED
  BY <1>2, <1>8, <1>13, <1>14, <1>15 DEF Meaning!NewClass

(* Reading and storing members and elements. *)
LEMMA KeysApart ==
  ASSUME ShapeInv, WellTyped(program), BlocksTyped, NEW b \in 1 .. Len(heap),
         NEW x, x = heap[b]
  PROVE  /\ \A name \in Keys(x) : CellAt(x, name) \in DOMAIN x.cells
         /\ \A name, other \in Keys(x) : CellAt(x, name) = CellAt(x, other) => name = other
<1>1. IsSequence(x.cells) /\ DOMAIN x.cells = DOMAIN x.types
  BY DEF ShapeInv, HeapShape
<1>2. BlockTyped(x)
  BY DEF BlocksTyped
<1>3. CASE x.type.kind = "ARRAY"
  <2>1. PICK l \in Nat : l = Len(x.cells) /\ DOMAIN x.cells = 1 .. l
    BY <1>1, SequenceDomain
  <2>2. Keys(x) = 0 .. l - 1 /\ \A name : CellAt(x, name) = name + 1
    BY <1>3, <2>1 DEF Keys, CellAt
  <2> QED
    BY <2>1, <2>2
<1>4. CASE x.type.kind = "KLASS"
  <2>1. PICK k \in DOMAIN klass_def_map : k = x.type.klass /\ x.types = FieldTypes(k)
    BY <1>2, <1>4 DEF BlockTyped
  <2>2. Keys(x) = Members(program, k) /\ \A name : CellAt(x, name) = FieldIndex(k, name)
    BY <1>4, <2>1 DEF Keys, CellAt
  <2>3. PICK l \in Nat : l = Len(Fields(k)) /\ DOMAIN x.cells = 1 .. l
    <3>1. Len(Fields(k)) \in Nat
      BY LayoutTypes, SequenceDomain DEF ShapeInv
    <3> QED
      BY <1>1, <2>1, <3>1 DEF FieldTypes
  <2>4. ASSUME NEW name \in Members(program, k)
        PROVE  /\ FieldIndex(k, name) \in 1 .. l
               /\ Fields(k)[FieldIndex(k, name)].name = name
    <3>1. /\ FieldIndex(k, name) \in 2 .. l
          /\ Fields(k)[FieldIndex(k, name)].name = name
      BY <2>3, MemberIndex
    <3> QED
      BY <3>1
  <2>5. \A name, other \in Members(program, k) :
          FieldIndex(k, name) = FieldIndex(k, other) => name = other
    BY <2>4
  <2> QED
    BY <2>2, <2>3, <2>4, <2>5
<1>5. x.type.kind \in {"KLASS", "ARRAY"}
  BY <1>2 DEF BlockTyped
<1> QED
  BY <1>3, <1>4, <1>5

LEMMA AccessMeans ==
  ASSUME ShapeInv, WellTyped(program), Sound, BlocksTyped, Running,
         top.pc <= Len(code[top.fn]), Instr.i \in {"get", "set"},
         NEW node, node = program[top.fn].body[top.pc]
  PROVE  \E b, name :
           /\ b \in 1 .. Len(heap)
           /\ Pointer[2] = b /\ Meaning!top.env[node.sym][2] = b
           /\ name \in Keys(heap[b]) /\ CellAt(heap[b], name) = Instr.idx
           /\ \/ /\ node.op = IF Instr.i = "get" THEN "GET_MEMBER_VAR" ELSE "SET_MEMBER_VAR"
                 /\ name = node.member
              \/ /\ node.op = IF Instr.i = "get" THEN "GET_ARRAY_VAR" ELSE "SET_ARRAY_VAR"
                 /\ name = node.index
<1>1. PICK f, m, k, v, type, slot :
        /\ f = top.fn /\ m = top.pc /\ k = Len(stack)
        /\ v = node.sym /\ type = TypeOfName(program, f, m, v)
        /\ slot = Binder(program, f, m, v)
  OBVIOUS
<1>2. /\ f \in Callables /\ f <= pos /\ m \in 1 .. Len(program[f].body)
      /\ Translates(f, m, Instr) /\ NodeTypes(program, f, m)
      /\ EnvHolds(f, m, top.env, k)
      /\ Instr.i = "get" => node.op \in {"GET_MEMBER_VAR", "GET_ARRAY_VAR"}
      /\ Instr.i = "set" => node.op \in {"SET_MEMBER_VAR", "SET_ARRAY_VAR"}
  BY <1>1, RunText
<1>3. m \in 1 .. Len(program[f].body) + 1
  BY <1>2, CallableText
<1>4. ASSUME v \in Names(program, f, m), type.kind \in {"KLASS", "ARRAY"}, Instr.slot = slot
      PROVE  /\ PointsTo(Pointer, type, k) /\ IsType(type)
             /\ type.kind = "KLASS" => type.klass \in DOMAIN klass_def_map
             /\ Meaning!top.env[v] = Pointer
  <2>1. /\ IsType(type) /\ Makeable(program, f, type)
        /\ slot \in Binders(f, m) /\ type = TypeOfBinder(program, f, slot)
    <3>1. /\ IsType(TypeOfName(program, f, m, v))
          /\ Makeable(program, f, TypeOfName(program, f, m, v))
          /\ Binder(program, f, m, v) \in Binders(f, m)
          /\ TypeOfName(program, f, m, v) = TypeOfBinder(program, f, Binder(program, f, m, v))
      BY <1>2, <1>3, <1>4, NameText
    <3> QED
      BY <1>1, <3>1
  <2>2. PointsTo(top.env[slot], type, k)
    BY <1>2, <1>4, <2>1 DEF EnvHolds
  <2>3. type.kind = "KLASS" => type.klass \in DOMAIN klass_def_map
    BY <1>2, <2>1, MakeableClass
  <2>4. Meaning!top.env[v] = top.env[slot]
    BY <1>1, <1>4, MeaningEnv
  <2> QED
    BY <1>4, <2>1, <2>2, <2>3, <2>4 DEF Pointer
<1>5. CASE node.op \in {"GET_MEMBER_VAR", "SET_MEMBER_VAR"}
  <2>1. HasMemberNamed(program, f, m, v, node.member)
    BY <1>1, <1>2, <1>5 DEF NodeTypes
  <2>2. /\ v \in Names(program, f, m) /\ type.kind = "KLASS"
        /\ node.member \in Members(program, type.klass)
    BY <1>1, <2>1 DEF HasMemberNamed, HasNamed
  <2>3. Instr.slot = slot /\ Instr.idx = FieldIndex(type.klass, node.member)
    BY <1>1, <1>2, <1>5 DEF Translates
  <2>4. /\ PointsTo(Pointer, type, k) /\ type.klass \in DOMAIN klass_def_map
        /\ Meaning!top.env[v] = Pointer
    BY <1>4, <2>2, <2>3
  <2>5. PICK b \in 1 .. Len(heap) : /\ Pointer = Ref(b)
                                    /\ heap[b].type.kind = "KLASS"
                                    /\ type.klass \in Ancestors(program, heap[b].type.klass)
    BY <2>2, <2>4 DEF PointsTo
  <2>6. PICK d, c : d = heap[b].type.klass /\ c = type.klass
    OBVIOUS
  <2>7. d \in DOMAIN klass_def_map
    BY <2>5, <2>6 DEF BlocksTyped, BlockTyped
  <2>8. FieldIndex(d, node.member) = FieldIndex(c, node.member)
        /\ node.member \in Members(program, d)
    BY <2>2, <2>5, <2>6, <2>7, IndexInherited
  <2>9. node.member \in Keys(heap[b]) /\ CellAt(heap[b], node.member) = Instr.idx
    BY <2>3, <2>5, <2>6, <2>8 DEF Keys, CellAt
  <2>10. Pointer[2] = b /\ Meaning!top.env[node.sym][2] = b
    <3>1. PICK p : p = Pointer /\ p = <<"ref", b>>
      BY <2>5 DEF Ref
    <3>2. p[2] = b
      BY <3>1
    <3>3. Meaning!top.env[node.sym] = p
      BY <1>1, <2>4, <3>1
    <3> QED
      BY <3>1, <3>2, <3>3
  <2>11. node.op = IF Instr.i = "get" THEN "GET_MEMBER_VAR" ELSE "SET_MEMBER_VAR"
    BY <1>2, <1>5
  <2> QED
    BY <2>9, <2>10, <2>11
<1>6. CASE node.op \in {"GET_ARRAY_VAR", "SET_ARRAY_VAR"}
  <2>1. HasElement(program, f, m, v, node.index)
    BY <1>1, <1>2, <1>6 DEF NodeTypes
  <2>2. /\ v \in Names(program, f, m) /\ type.kind = "ARRAY"
        /\ node.index \in 0 .. type.size - 1
    BY <1>1, <2>1 DEF HasElement, HasNamed
  <2>3. Instr.slot = slot /\ Instr.idx = node.index + 1
    BY <1>1, <1>2, <1>6 DEF Translates
  <2>4. PointsTo(Pointer, type, k) /\ IsType(type) /\ Meaning!top.env[v] = Pointer
    BY <1>4, <2>2, <2>3
  <2>5. PICK size \in Nat : size = type.size
    BY <2>2, <2>4 DEF IsType
  <2>6. PICK b \in 1 .. Len(heap) : Pointer = Ref(b) /\ heap[b].type = type
    BY <2>2, <2>4 DEF PointsTo
  <2>7. Len(heap[b].cells) = size
    <3>1. heap[b].types = ElemTypes(type)
      BY <2>2, <2>6 DEF BlocksTyped, BlockTyped
    <3>2. DOMAIN heap[b].types = 1 .. size
      BY <2>5, <3>1 DEF ElemTypes
    <3>3. IsSequence(heap[b].cells) /\ DOMAIN heap[b].cells = DOMAIN heap[b].types
      BY DEF ShapeInv, HeapShape
    <3>4. PICK l \in Nat : l = Len(heap[b].cells) /\ 1 .. l = 1 .. size
      BY <3>2, <3>3, SequenceDomain
    <3>5. l = size
      BY <3>4
    <3> QED
      BY <3>4, <3>5
  <2>8. node.index \in Keys(heap[b]) /\ CellAt(heap[b], node.index) = Instr.idx
    BY <2>2, <2>3, <2>5, <2>6, <2>7 DEF Keys, CellAt
  <2>9. Pointer[2] = b /\ Meaning!top.env[node.sym][2] = b
    <3>1. PICK p : p = Pointer /\ p = <<"ref", b>>
      BY <2>6 DEF Ref
    <3>2. p[2] = b
      BY <3>1
    <3>3. Meaning!top.env[node.sym] = p
      BY <1>1, <2>4, <3>1
    <3> QED
      BY <3>1, <3>2, <3>3
  <2>10. node.op = IF Instr.i = "get" THEN "GET_ARRAY_VAR" ELSE "SET_ARRAY_VAR"
    BY <1>2, <1>6
  <2> QED
    BY <2>8, <2>9, <2>10
<1> QED
  BY <1>2, <1>5, <1>6

LEMMA GetMeans ==
  ASSUME ShapeInv, WellTyped(program), Sound, BlocksTyped, run_get
  PROVE  Meaning!GetMember \/ Meaning!GetElement
<1>1. PICK f, m, node : f = top.fn /\ m = top.pc /\ node = program[f].body[m]
  OBVIOUS
<1>2. Running /\ m <= Len(code[f]) /\ Instr.i = "get"
  BY <1>1 DEF run_get, At
<1>3. Reaches(Pointer, Instr)
  BY <1>1, <1>2, AccessText
<1>4. PICK x : x = heap[Pointer[2]].cells[Instr.idx]
  OBVIOUS
<1>5. stack' = Step(x, top.env) /\ UNCHANGED <<heap, out>> /\ Still
  BY <1>3, <1>4 DEF run_get
<1>6. PICK b, name :
           /\ b \in 1 .. Len(heap)
           /\ Pointer[2] = b /\ Meaning!top.env[node.sym][2] = b
           /\ name \in Keys(heap[b]) /\ CellAt(heap[b], name) = Instr.idx
           /\ \/ node.op = "GET_MEMBER_VAR" /\ name = node.member
              \/ node.op = "GET_ARRAY_VAR" /\ name = node.index
  <2>1. PICK b, name :
           /\ b \in 1 .. Len(heap)
           /\ Pointer[2] = b /\ Meaning!top.env[node.sym][2] = b
           /\ name \in Keys(heap[b]) /\ CellAt(heap[b], name) = Instr.idx
           /\ \/ /\ node.op = IF Instr.i = "get" THEN "GET_MEMBER_VAR" ELSE "SET_MEMBER_VAR"
                 /\ name = node.member
              \/ /\ node.op = IF Instr.i = "get" THEN "GET_ARRAY_VAR" ELSE "SET_ARRAY_VAR"
                 /\ name = node.index
    <3>1. Instr.i \in {"get", "set"} /\ top.pc <= Len(code[top.fn])
          /\ node = program[top.fn].body[top.pc]
      BY <1>1, <1>2
    <3> QED
      BY <1>2, <3>1, AccessMeans
  <2>2. \/ node.op = "GET_MEMBER_VAR" /\ name = node.member
        \/ node.op = "GET_ARRAY_VAR" /\ name = node.index
    BY <1>2, <2>1
  <2> QED
    BY <2>1, <2>2
<1>7. MeaningThings[b].vals[name] = x
  <2>1. PICK y, t : y = heap[b] /\ t = Thing(y)
    OBVIOUS
  <2>2. t.vals[name] = y.cells[CellAt(y, name)]
    <3>1. Reads(t, y)
      BY <2>1, ThingOf
    <3> QED
      BY <1>6, <2>1, <3>1 DEF Reads
  <2>3. MeaningThings[b] = t
    BY <1>6, <2>1, ThingsShape
  <2> QED
    BY <1>4, <1>6, <2>1, <2>2, <2>3
<1>8. Meaning!Node = node
  BY <1>1, <1>2, MeaningTop
<1>9. MeaningStack' = Meaning!Step(x, Meaning!top.env)
  BY <1>1, <1>2, <1>5, <1>6, MeaningQuiet
<1>10. MeaningThings' = MeaningThings
  BY <1>5, SameThings
<1>11. Meaning!At(node.op)
  BY <1>1, <1>2, <1>5, MeaningAt
<1>12. x = MeaningThings[Meaning!top.env[Meaning!Node.sym][2]].vals[name]
  BY <1>6, <1>7, <1>8
<1>13. MeaningStack' = Meaning!Step(MeaningThings[Meaning!top.env[Meaning!Node.sym][2]].vals[name],
                                    Meaning!top.env)
  BY <1>9, <1>12, Zenon
<1>14. CASE node.op = "GET_MEMBER_VAR" /\ name = node.member
  <2>1. name = Meaning!Node.member
    BY <1>8, <1>14
  <2> QED
    BY <1>5, <1>10, <1>11, <1>13, <1>14, <2>1 DEF Meaning!GetMember, Meaning!Get
<1>15. CASE node.op = "GET_ARRAY_VAR" /\ name = node.index
  <2>1. name = Meaning!Node.index
    BY <1>8, <1>15
  <2> QED
    BY <1>5, <1>10, <1>11, <1>13, <1>15, <2>1 DEF Meaning!GetElement, Meaning!Get
<1> QED
  BY <1>6, <1>14, <1>15

Stored(t, name, val) == [t EXCEPT !.vals[name] = val]

LEMMA ThingStored ==
  ASSUME NEW t, IsThing(t), NEW u, IsThing(u), u.klass = t.klass, DOMAIN u.vals = DOMAIN t.vals,
         NEW name, NEW val,
         \A other \in DOMAIN t.vals :
           u.vals[other] = IF other = name THEN val ELSE t.vals[other]
  PROVE  u = Stored(t, name, val)
<1>1. PICK k, f, g : /\ t = [klass |-> k, vals |-> f] /\ u = [klass |-> k, vals |-> g]
                     /\ t.vals = f /\ u.vals = g
                     /\ IsMapping(f) /\ IsMapping(g)
  <2>1. PICK k, f, g : k = t.klass /\ f = t.vals /\ g = u.vals
    OBVIOUS
  <2> QED
    BY <2>1 DEF IsThing
<1>2. PICK h : h = [f EXCEPT ![name] = val]
  OBVIOUS
<1>3. DOMAIN h = DOMAIN f /\ h = [x \in DOMAIN f |-> h[x]]
      /\ \A x \in DOMAIN f : h[x] = IF x = name THEN val ELSE f[x]
  BY <1>2
<1>4. DOMAIN g = DOMAIN f /\ \A x \in DOMAIN f : g[x] = IF x = name THEN val ELSE f[x]
  BY <1>1
<1>5. g = [x \in DOMAIN f |-> g[x]]
  BY <1>1, <1>4 DEF IsMapping
<1>6. g = h
  BY <1>3, <1>4, <1>5
<1>7. [t EXCEPT !.vals[name] = val] = [t EXCEPT !.vals = h]
  BY <1>1, <1>2
<1>8. [t EXCEPT !.vals = h] = [klass |-> k, vals |-> h]
  BY <1>1
<1> QED
  BY <1>1, <1>6, <1>7, <1>8 DEF Stored

LEMMA SetMeans ==
  ASSUME ShapeInv, WellTyped(program), Sound, BlocksTyped, run_set
  PROVE  Meaning!SetMember \/ Meaning!SetElement
<1>1. PICK f, m, node, idx, acc :
        /\ f = top.fn /\ m = top.pc /\ node = program[f].body[m]
        /\ idx = Instr.idx /\ acc = top.acc
  OBVIOUS
<1>2. Running /\ m <= Len(code[f]) /\ Instr.i = "set"
  BY <1>1 DEF run_set, At
<1>3. Reaches(Pointer, Instr)
  BY <1>1, <1>2, AccessText
<1>4. stack' = Step(acc, top.env) /\ UNCHANGED out /\ Still
  BY <1>1, <1>3 DEF run_set
<1>5. UNCHANGED <<program, klass_def_map, phase>>
  BY <1>4 DEF Still, layout_vars
<1>6. PICK b, name :
           /\ b \in 1 .. Len(heap)
           /\ Pointer[2] = b /\ Meaning!top.env[node.sym][2] = b
           /\ name \in Keys(heap[b]) /\ CellAt(heap[b], name) = idx
           /\ \/ node.op = "SET_MEMBER_VAR" /\ name = node.member
              \/ node.op = "SET_ARRAY_VAR" /\ name = node.index
  <2>1. PICK b, name :
           /\ b \in 1 .. Len(heap)
           /\ Pointer[2] = b /\ Meaning!top.env[node.sym][2] = b
           /\ name \in Keys(heap[b]) /\ CellAt(heap[b], name) = Instr.idx
           /\ \/ /\ node.op = IF Instr.i = "get" THEN "GET_MEMBER_VAR" ELSE "SET_MEMBER_VAR"
                 /\ name = node.member
              \/ /\ node.op = IF Instr.i = "get" THEN "GET_ARRAY_VAR" ELSE "SET_ARRAY_VAR"
                 /\ name = node.index
    <3>1. Instr.i \in {"get", "set"} /\ top.pc <= Len(code[top.fn])
          /\ node = program[top.fn].body[top.pc]
      BY <1>1, <1>2
    <3> QED
      BY <1>2, <3>1, AccessMeans
  <2>2. \/ node.op = "SET_MEMBER_VAR" /\ name = node.member
        \/ node.op = "SET_ARRAY_VAR" /\ name = node.index
    BY <1>2, <2>1
  <2> QED
    BY <1>1, <2>1, <2>2
<1>7. PICK k \in Nat : k = Len(heap)
  BY SequenceDomain DEF ShapeInv, HeapShape
<1>8. PICK h : h = heap'
  OBVIOUS
<1>9. /\ Len(h) = k
      /\ \A c \in 1 .. k : c # b => h[c] = heap[c]
      /\ h[b].type = heap[b].type
      /\ DOMAIN h[b].cells = DOMAIN heap[b].cells
      /\ IsSequence(h[b].cells)
      /\ \A i \in DOMAIN heap[b].cells :
           h[b].cells[i] = IF i = idx THEN acc ELSE heap[b].cells[i]
  <2>1. ~Wrong("undefined")
    BY <1>2, <1>5 DEF Wrong, Running
  <2>2. /\ Len(heap') = Len(heap)
        /\ \A c \in 1 .. Len(heap) : c # b => heap'[c] = heap[c]
        /\ heap'[b] = [type |-> heap[b].type, types |-> heap[b].types,
                       cells |-> heap'[b].cells,
                       home |-> heap[b].home, live |-> heap[b].live]
        /\ DOMAIN heap'[b].cells = DOMAIN heap[b].cells
        /\ IsSequence(heap'[b].cells)
        /\ \A i \in DOMAIN heap[b].cells :
             heap'[b].cells[i] = IF i = Instr.idx THEN top.acc ELSE heap[b].cells[i]
    BY <1>6, <2>1, StoreHeap
  <2>3. heap'[b].type = heap[b].type
    BY <2>2
  <2> QED
    BY <1>1, <1>7, <1>8, <2>2, <2>3
<1>10. PICK x, y, t, u : x = heap[b] /\ y = h[b] /\ t = Thing(x) /\ u = Thing(y)
  OBVIOUS
<1>11. /\ IsThing(t) /\ DOMAIN t.vals = Keys(x)
       /\ \A other \in Keys(x) : /\ CellAt(x, other) \in DOMAIN x.cells
                                 /\ t.vals[other] = x.cells[CellAt(x, other)]
                                 /\ CellAt(x, other) = CellAt(x, name) => other = name
  <2>1. IsThing(t) /\ Reads(t, x)
    BY <1>10, ThingOf
  <2>2. /\ \A other \in Keys(x) : CellAt(x, other) \in DOMAIN x.cells
        /\ \A one, other \in Keys(x) : CellAt(x, one) = CellAt(x, other) => one = other
    BY <1>6, <1>10, KeysApart
  <2>3. name \in Keys(x)
    BY <1>6, <1>10
  <2> QED
    BY <2>1, <2>2, <2>3 DEF Reads
<1>12. Keys(y) = Keys(x) /\ \A other : CellAt(y, other) = CellAt(x, other)
  <2>1. y.type = x.type
    BY <1>9, <1>10
  <2>2. x.type.kind = "ARRAY" => Len(y.cells) = Len(x.cells)
    <3>1. IsSequence(x.cells) /\ IsSequence(y.cells) /\ DOMAIN y.cells = DOMAIN x.cells
      BY <1>6, <1>9, <1>10 DEF ShapeInv, HeapShape
    <3>2. PICK i \in Nat, j \in Nat : /\ i = Len(x.cells) /\ j = Len(y.cells)
                                      /\ 1 .. i = 1 .. j
      BY <3>1, SequenceDomain
    <3>3. i = j
      BY <3>2
    <3> QED
      BY <3>2, <3>3
  <2> QED
    BY <2>1, <2>2 DEF Keys, CellAt
<1>13. IsThing(u) /\ u.klass = t.klass /\ DOMAIN u.vals = Keys(x)
       /\ \A other \in Keys(x) : u.vals[other] = y.cells[CellAt(x, other)]
  <2>1. y.type = x.type
    BY <1>9, <1>10
  <2>2. IsThing(u) /\ Reads(u, y) /\ u.klass = t.klass
    BY <1>10, <2>1, ThingOf
  <2> QED
    BY <1>12, <2>2 DEF Reads
<1>14. \A other \in DOMAIN t.vals :
         u.vals[other] = IF other = name THEN acc ELSE t.vals[other]
  <2> SUFFICES ASSUME NEW other \in Keys(x)
               PROVE  u.vals[other] = IF other = name THEN acc ELSE t.vals[other]
    BY <1>11
  <2>1. u.vals[other] = y.cells[CellAt(x, other)] /\ t.vals[other] = x.cells[CellAt(x, other)]
        /\ CellAt(x, other) \in DOMAIN x.cells
    BY <1>11, <1>13
  <2>2. CellAt(x, other) = idx <=> other = name
    BY <1>6, <1>10, <1>11
  <2>3. y.cells[CellAt(x, other)]
          = IF CellAt(x, other) = idx THEN acc ELSE x.cells[CellAt(x, other)]
    BY <1>9, <1>10, <2>1
  <2> QED
    BY <2>1, <2>2, <2>3
<1>15. u = Stored(t, name, acc)
  <2>1. IsThing(t) /\ IsThing(u) /\ u.klass = t.klass /\ DOMAIN u.vals = DOMAIN t.vals
    BY <1>11, <1>13
  <2> QED
    BY <2>1, <1>14, ThingStored
<1>16. PICK s, r : s = MeaningThings /\ r = MeaningThings'
  OBVIOUS
<1>17. IsSequence(s) /\ Len(s) = k /\ s[b] = t
       /\ \A c \in 1 .. k : s[c] = Thing(heap[c])
  BY <1>6, <1>7, <1>10, <1>16, ThingsShape
<1>18. /\ r = [c \in 1 .. k |-> Thing(h[c])]
  BY <1>5, <1>8, <1>9, <1>16, ThingsNext
<1>19. /\ r = [c \in 1 .. k |-> r[c]] /\ r[b] = u
       /\ \A c \in 1 .. k : c # b => r[c] = s[c]
  <2>1. \A c \in 1 .. k : r[c] = Thing(h[c])
    BY <1>18
  <2>2. r = [c \in 1 .. k |-> r[c]]
    BY <1>18
  <2>3. r[b] = u
    BY <1>6, <1>7, <1>10, <2>1
  <2> QED
    BY <1>9, <1>17, <2>1, <2>2, <2>3
<1>20. r = [s EXCEPT ![b].vals[name] = acc]
  <2>1. PICK w : w = [s EXCEPT ![b] = u]
    OBVIOUS
  <2>2. DOMAIN s = 1 .. k
    BY <1>17, SequenceDomain
  <2>3. [s EXCEPT ![b].vals[name] = acc] = w
    BY <1>7, <1>15, <1>17, <2>1, <2>2 DEF Stored
  <2>4. w = [c \in 1 .. k |-> IF c = b THEN u ELSE s[c]]
    BY <2>1, <2>2
  <2>5. r = w
    BY <1>19, <2>4
  <2> QED
    BY <2>3, <2>5
<1>21. Meaning!Node = node /\ Meaning!top.acc = acc
  BY <1>1, <1>2, MeaningTop, MeaningEnv
<1>22. MeaningStack' = Meaning!Step(acc, Meaning!top.env)
  BY <1>1, <1>2, <1>4, <1>6, MeaningQuiet
<1>23. Meaning!At(node.op)
  BY <1>1, <1>2, <1>4, MeaningAt
<1>24. MeaningThings'
         = [MeaningThings EXCEPT ![Meaning!top.env[Meaning!Node.sym][2]].vals[name]
              = Meaning!top.acc]
  <2>1. Meaning!top.env[Meaning!Node.sym][2] = b
    BY <1>6, <1>21
  <2> QED
    BY <1>16, <1>20, <1>21, <2>1
<1>25. CASE node.op = "SET_MEMBER_VAR" /\ name = node.member
  <2>1. name = Meaning!Node.member
    BY <1>21, <1>25
  <2> QED
    BY <1>4, <1>21, <1>22, <1>23, <1>24, <1>25, <2>1 DEF Meaning!SetMember, Meaning!Set
<1>26. CASE node.op = "SET_ARRAY_VAR" /\ name = node.index
  <2>1. name = Meaning!Node.index
    BY <1>21, <1>26
  <2> QED
    BY <1>4, <1>21, <1>22, <1>23, <1>24, <1>26, <2>1 DEF Meaning!SetElement, Meaning!Set
<1> QED
  BY <1>6, <1>25, <1>26
-----------------------------------------------------------------------------
(* A call binds the value at hand to the argument, and the receiver of a   *)
(* method with an argument to `this', unless the argument is called that.  *)
LEMMA ParamsSplit ==
  ASSUME ShapeInv, NEW g \in Callables, Len(program[g].def_args) = 1
  PROVE  \/ /\ program[g].op = "DEF_METHOD"
            /\ Len(ParamsOf(program[g])) = 2
            /\ ParamsOf(program[g])[2] = program[g].def_args[1]
         \/ /\ program[g].op # "DEF_METHOD"
            /\ Len(ParamsOf(program[g])) = 1
            /\ ParamsOf(program[g])[1] = program[g].def_args[1]
<1>1. program[g].def_args # <<>>
  <2>1. Len(<<>>) = 0
    OBVIOUS
  <2> QED
    BY <2>1
<1>2. CASE program[g].op = "DEF_METHOD"
  <2>1. /\ Len(ParamsOf(program[g])) = Len(program[g].def_args) + 1
        /\ \A j \in 1 .. Len(program[g].def_args) :
             ParamsOf(program[g])[j + 1] = program[g].def_args[j]
    BY <1>1, <1>2, ParamsParts
  <2>2. ParamsOf(program[g])[1 + 1] = program[g].def_args[1]
    BY <2>1
  <2> QED
    BY <1>2, <2>1, <2>2
<1>3. CASE program[g].op # "DEF_METHOD"
  BY <1>3 DEF ParamsOf
<1> QED
  BY <1>2, <1>3

LEMMA BindingsMean ==
  ASSUME NEW g, NEW this, NEW env,
         LET last == Len(ParamsOf(program[g])) IN
         /\ last \in {0, 1, 2}
         /\ last > 0 => /\ ParamsOf(program[g])[last] = program[g].def_args[1]
                        /\ env[-last] = Meaning!top.acc
         /\ last = 2 => env[-1] = this
  PROVE  EnvOf(g, 1, env) = Meaning!Bindings(g, this)
<1> DEFINE a == program[g].def_args[1].name
           names == {ParamsOf(program[g])[j].name : j \in 1 .. Len(ParamsOf(program[g]))}
<1>0. PICK last, x :
        /\ last \in Nat /\ last <= 2 /\ x = Meaning!top.acc /\ Len(ParamsOf(program[g])) = last
        /\ last > 0 => /\ ParamsOf(program[g])[last] = program[g].def_args[1]
                       /\ env[-last] = x
        /\ last = 2 => env[-1] = this
  OBVIOUS
<1>1. Names(program, g, 1) = names /\ \A v : Definers(program, g, 1, v) = {}
  BY FirstNode
<1>2. Meaning!Bindings(g, this) = [v \in names |-> IF v = a THEN x ELSE this]
  BY <1>0, SameReading DEF Meaning!Bindings
<1>3. EnvOf(g, 1, env) = [v \in names |-> env[Binder(program, g, 1, v)]]
  BY <1>1 DEF EnvOf
<1>4. ASSUME NEW v \in names
      PROVE  env[Binder(program, g, 1, v)] = IF v = a THEN x ELSE this
  <2>1. PICK ps, S : ps = ParamsOf(program[g]) /\ S = ParamsNamed(program, g, v)
    OBVIOUS
  <2>2. PICK j \in 1 .. last : ps[j].name = v
    BY <1>0, <2>1
  <2>3. last > 0 /\ last \in 1 .. last /\ ps[last].name = a
    BY <1>0, <2>1, <2>2
  <2>4. S \subseteq Int /\ \A i : i \in S <=> i \in 1 .. last /\ ps[i].name = v
    BY <1>0, <2>1 DEF ParamsNamed
  <2>5. Binder(program, g, 1, v) = -Latest(S)
    BY <1>1, <2>1 DEF Binder
  <2>6. CASE v = a
    <3>1. last \in S /\ \A y \in S : y <= last
      BY <2>3, <2>4, <2>6
    <3>2. Latest(S) = last
      BY <2>4, <3>1, LatestIs
    <3> QED
      BY <1>0, <2>3, <2>5, <2>6, <3>2
  <2>7. CASE v # a
    <3>1. j # last
      BY <2>2, <2>3, <2>7
    <3>2. last = 2 /\ j = 1
      BY <1>0, <3>1
    <3>3. 1 \in S /\ \A y \in S : y <= 1
      <4>1. 1 \in S /\ 2 \notin S
        BY <2>2, <2>3, <2>4, <2>7, <3>2
      <4>2. \A y \in 1 .. 2 : y = 1 \/ y = 2
        OBVIOUS
      <4> QED
        BY <2>4, <3>2, <4>1, <4>2
    <3>4. Latest(S) = 1
      BY <2>4, <3>3, LatestIs
    <3>5. env[-1] = this
      BY <1>0, <3>2
    <3> QED
      BY <2>5, <2>7, <3>4, <3>5
  <2> QED
    BY <2>6, <2>7
<1> HIDE DEF names, a
<1>5. PICK ns, p, q : /\ ns = names
                      /\ p = EnvOf(g, 1, env) /\ q = Meaning!Bindings(g, this)
  OBVIOUS
<1>6. /\ p = [v \in ns |-> p[v]] /\ q = [v \in ns |-> q[v]]
      /\ \A v \in ns : p[v] = q[v]
  <2>1. p = [v \in ns |-> p[v]] /\ \A v \in ns : p[v] = env[Binder(program, g, 1, v)]
    BY <1>3, <1>5
  <2>2. q = [v \in ns |-> q[v]] /\ \A v \in ns : q[v] = IF v = a THEN x ELSE this
    BY <1>2, <1>5
  <2> QED
    BY <1>4, <1>5, <2>1, <2>2
<1>7. p = q
  BY <1>6
<1> QED
  BY <1>5, <1>7

(* The callee's frame, from the arguments the caller passes. *)
Passed(args) == [i \in {-j : j \in 1 .. Len(args)} |-> args[-i]]

LEMMA PassedValues ==
  ASSUME NEW args, Len(args) \in Nat
  PROVE  \A i \in 1 .. Len(args) : Passed(args)[-i] = args[i]
BY DEF Passed

LEMMA PassedMean ==
  ASSUME ShapeInv, NEW g \in Callables, NEW x, NEW this, x = Meaning!top.acc,
         program[g].def_args = <<>> \/ Len(program[g].def_args) = 1, NEW args,
         program[g].def_args = <<>> => args = <<>>,
         program[g].def_args # <<>> =>
           args = IF program[g].op = "DEF_METHOD" THEN <<this, x>> ELSE <<x>>
  PROVE  EnvOf(g, 1, Passed(args)) = Meaning!Bindings(g, this)
<1>1. CASE program[g].def_args = <<>>
  <2>1. PICK last \in Nat : last = 0
    OBVIOUS
  <2>2. ParamsOf(program[g]) = <<>>
    BY <1>1 DEF ParamsOf
  <2>3. Len(ParamsOf(program[g])) = last /\ 1 .. last = {} /\ ~(last > 0)
    BY <2>1, <2>2
  <2> QED
    BY <2>1, <2>3, BindingsMean
<1>2. CASE program[g].def_args # <<>> /\ program[g].op = "DEF_METHOD"
  <2>1. PICK last \in Nat : last = 2
    OBVIOUS
  <2>2. Len(ParamsOf(program[g])) = last
        /\ ParamsOf(program[g])[last] = program[g].def_args[1]
    BY <1>2, <2>1, ParamsSplit
  <2>3. args = <<this, x>>
    BY <1>2
  <2>4. Len(args) = 2 /\ args[1] = this /\ args[2] = x
    BY <2>3, Zenon
  <2>5. \A i \in 1 .. 2 : Passed(args)[-i] = args[i]
    BY <2>4, PassedValues
  <2>6. Passed(args)[-last] = x /\ (last = 2 => Passed(args)[-1] = this)
    BY <2>1, <2>4, <2>5
  <2> QED
    BY <2>1, <2>2, <2>6, BindingsMean
<1>3. CASE program[g].def_args # <<>> /\ program[g].op # "DEF_METHOD"
  <2>1. PICK last \in Nat : last = 1
    OBVIOUS
  <2>2. Len(ParamsOf(program[g])) = last
        /\ ParamsOf(program[g])[last] = program[g].def_args[1]
    BY <1>3, <2>1, ParamsSplit
  <2>3. args = <<x>>
    BY <1>3
  <2>4. Len(args) = 1 /\ args[1] = x
    BY <2>3, Zenon
  <2>5. \A i \in 1 .. 1 : Passed(args)[-i] = args[i]
    BY <2>4, PassedValues
  <2>6. Passed(args)[-last] = x /\ (last = 2 => Passed(args)[-1] = this)
    BY <2>1, <2>4, <2>5
  <2> QED
    BY <2>1, <2>2, <2>6, BindingsMean
<1> QED
  BY <1>1, <1>2, <1>3

LEMMA CallMeans ==
  ASSUME ShapeInv, WellTyped(program), Sound, Running, top.pc <= Len(code[top.fn]), Still,
         program[top.fn].body[top.pc].op # "DEF_VAR",
         NEW g \in Callables, NEW args, Call(g, args),
         NEW e, e = EnvOf(g, 1, Passed(args))
  PROVE  MeaningStack' = Append(Meaning!Step(Meaning!top.acc, Meaning!top.env),
                                Meaning!Activation(g, e))
<1>1. PICK k, s, t, r, frame, acc, env :
        /\ k \in Nat /\ k > 0 /\ env = Passed(args) /\ k = Len(stack) /\ s = Step(top.acc, top.env) /\ frame = Frame(g, env)
        /\ t = [d \in 1 .. Len(s) |-> ByName(s[d])]
        /\ r = MeaningStack' /\ acc = top.acc
  BY RunFacts
<1>2. program' = program
  BY DEF Still, layout_vars
<1>3. Len(s) = k
  BY <1>1, StepStack
<1>4. IsSequence(t) /\ Len(t) = k
      /\ t = Meaning!Step(acc, EnvOf(top.fn, top.pc + 1, top.env))
  BY <1>1, <1>2, MeaningSteps
<1>5. t = Meaning!Step(Meaning!top.acc, Meaning!top.env)
  <2>1. top.pc \in Nat \ {0}
    BY RunText
  <2>2. EnvOf(top.fn, top.pc + 1, top.env) = EnvOf(top.fn, top.pc, top.env)
    BY <2>1, EnvSame
  <2> QED
    BY <1>1, <1>4, <2>2, MeaningEnv
<1>6. ByName(frame) = Meaning!Activation(g, e)
  <2>1. /\ frame = [fn |-> g, pc |-> 1, acc |-> Undef, env |-> env]
    BY <1>1 DEF Frame
  <2>2. ByName(frame) = FrameOf(frame.fn, frame.pc, frame.acc, frame.env)
    BY <2>1, FrameByName
  <2>3. Undef = Meaning!Undef
    BY DEF Undef, Meaning!Undef
  <2> QED
    BY <1>1, <2>1, <2>2, <2>3 DEF FrameOf, Meaning!Activation
<1>7. PICK h : h = stack'
  OBVIOUS
<1>8. Len(h) = k + 1 /\ h[k + 1] = frame /\ \A d \in 1 .. k : h[d] = s[d]
  <2>1. /\ Len(stack') = k + 1
        /\ \A i \in 1 .. k - 1 : stack'[i] = stack[i]
        /\ stack'[k] = [fn |-> top.fn, pc |-> top.pc + 1, acc |-> top.acc, env |-> top.env]
        /\ stack'[k + 1] = frame
    BY <1>1, CallStack DEF Passed
  <2>2. /\ \A i \in 1 .. k - 1 : s[i] = stack[i]
        /\ s[k] = [fn |-> top.fn, pc |-> top.pc + 1, acc |-> top.acc, env |-> top.env]
    BY <1>1, StepStack
  <2>3. \A d \in 1 .. k : d = k \/ d \in 1 .. k - 1
    BY <1>1
  <2>4. \A d \in 1 .. k - 1 : h[d] = s[d]
    BY <1>7, <2>1, <2>2
  <2>5. h[k] = s[k]
    BY <1>7, <2>1, <2>2
  <2> QED
    BY <1>7, <2>1, <2>3, <2>4, <2>5
<1>9. r = [d \in 1 .. k + 1 |-> ByName(h[d])]
  BY <1>1, <1>2, <1>7, <1>8, MeaningNext
<1>10. PICK last : last = Meaning!Activation(g, e)
  OBVIOUS
<1>11. PICK u : u = Append(t, last)
  OBVIOUS
<1>12. IsSequence(u) /\ Len(u) = k + 1 /\ u[k + 1] = last /\ \A d \in 1 .. k : u[d] = t[d]
  BY <1>4, <1>11, SequenceAppend
<1>13. IsSequence(r) /\ Len(r) = k + 1
  <2>1. k + 1 \in Nat /\ r = [d \in 1 .. k + 1 |-> r[d]]
    BY <1>1, <1>9
  <2> QED
    BY <2>1, SequenceFrom
<1>14. \A d \in 1 .. k + 1 : r[d] = u[d]
  <2>1. \A d \in 1 .. k + 1 : r[d] = ByName(h[d])
    BY <1>9
  <2>2. \A d \in 1 .. k : t[d] = ByName(s[d])
    BY <1>1, <1>3
  <2>3. k + 1 \in 1 .. k + 1 /\ \A d \in 1 .. k : d \in 1 .. k + 1
    BY <1>1
  <2>4. r[k + 1] = u[k + 1]
    BY <1>6, <1>8, <1>10, <1>12, <2>1, <2>3
  <2>5. \A d \in 1 .. k : r[d] = u[d]
    BY <1>8, <1>12, <2>1, <2>2, <2>3
  <2> QED
    BY <1>1, <2>4, <2>5
<1>15. r = u
  BY <1>12, <1>13, <1>14, SameSequence
<1> QED
  BY <1>1, <1>5, <1>10, <1>11, <1>15

LEMMA RunCallMeans ==
  ASSUME ShapeInv, WellTyped(program), Sound, BlocksTyped, run_call
  PROVE  Meaning!CallFunc
<1>1. PICK f, m, node, acc :
        f = top.fn /\ m = top.pc /\ node = program[f].body[m] /\ acc = top.acc
  OBVIOUS
<1>2. Running /\ m <= Len(code[f]) /\ Instr.i = "call" /\ Still /\ UNCHANGED <<heap, out>>
  BY <1>1 DEF run_call, At
<1>3. /\ Translates(f, m, Instr) /\ NodeTypes(program, f, m) /\ node.op = "CALL_FUNC"
  BY <1>1, <1>2, RunText
<1>4. PICK g \in Decls(program, "DEF_FUNC") :
        program[g].sym = node.sym /\ FitsArgument(program, g, ValueType(program, f, m))
  BY <1>1, <1>3 DEF NodeTypes
<1>5. g \in Callables /\ program[g].op = "DEF_FUNC"
  BY <1>4 DEF Decls, Callables, Callable
<1>6. Callee(program, node.sym) = g /\ Instr.to = g
  <2>1. Callee(program, node.sym) = g
    BY <1>4, <1>5, CalleeFound
  <2> QED
    BY <1>1, <1>3, <2>1 DEF Translates
<1>7. PICK args : args = IF program[g].def_args = <<>> THEN <<>> ELSE <<top.acc>>
  OBVIOUS
<1>8. Call(g, args)
  BY <1>6, <1>7 DEF run_call
<1>9. program[g].def_args = <<>> \/ Len(program[g].def_args) = 1
  BY <1>4 DEF FitsArgument
<1>10. PICK this : this = Meaning!Undef
  OBVIOUS
<1>11. EnvOf(g, 1, Passed(args)) = Meaning!Bindings(g, this)
  <2>1. program[g].def_args = <<>> => args = <<>>
    BY <1>7
  <2>2. program[g].def_args # <<>> =>
          args = IF program[g].op = "DEF_METHOD" THEN <<this, acc>> ELSE <<acc>>
    BY <1>1, <1>5, <1>7
  <2>3. acc = Meaning!top.acc
    BY <1>1, <1>2, MeaningEnv
  <2> QED
    BY <1>5, <1>9, <2>1, <2>2, <2>3, PassedMean
<1>12. MeaningStack' = Append(Meaning!Step(Meaning!top.acc, Meaning!top.env),
                              Meaning!Activation(g, Meaning!Bindings(g, this)))
  <2>1. program[top.fn].body[top.pc].op # "DEF_VAR"
    BY <1>1, <1>3
  <2> QED
    BY <1>1, <1>2, <1>5, <1>8, <1>11, <2>1, CallMeans
<1>13. Meaning!Node = node /\ Meaning!At("CALL_FUNC")
  BY <1>1, <1>2, <1>3, MeaningTop, MeaningAt
<1>14. UNCHANGED <<MeaningThings, out>>
  BY <1>2, SameThings
<1>15. g \in Meaning!Decls(program, "DEF_FUNC")
  BY <1>4, SameReading
<1> QED
  BY <1>4, <1>10, <1>12, <1>13, <1>14, <1>15 DEF Meaning!CallFunc

LEMMA RunSendMeans ==
  ASSUME ShapeInv, WellTyped(program), RowsStay(program), Sound, BlocksTyped, Placed,
         run_send
  PROVE  Meaning!CallMethod
<1>1. PICK f, m, node, v, acc : /\ f = top.fn /\ m = top.pc /\ acc = top.acc
                                /\ node = program[f].body[m] /\ v = node.reciever
  OBVIOUS
<1>2. Running /\ m <= Len(code[f]) /\ Instr.i = "send"
  BY <1>1 DEF run_send, At
<1>3. /\ Translates(f, m, Instr) /\ NodeTypes(program, f, m) /\ node.op = "CALL_METHOD"
  BY <1>1, <1>2, RunText
<1>4. PICK g \in Decls(program, "DEF_METHOD") :
        /\ g \in Callables /\ g # 0 /\ program[g].sym = node.sym
        /\ Callee(program, node.sym) = g
        /\ v \in Names(program, f, m)
        /\ TypeOfName(program, f, m, v) = KlassType(program[g].klass)
        /\ FitsArgument(program, g, ValueType(program, f, m))
        /\ Target = g /\ Instr.as = g
        /\ Instr.slot = Binder(program, f, m, v)
  BY <1>1, <1>2, SendTarget
<1>5. g \in Callables /\ program[g].op = "DEF_METHOD"
  BY <1>4 DEF Decls
<1>6. g # 0 /\ Callee(program, node.sym) = g
  BY <1>4
<1>7. Target = g /\ Instr.as = g /\ Instr.slot = Binder(program, f, m, v)
  BY <1>4
<1>8. SameParameters(program[g], program[g])
  BY DEF SameParameters
<1>9. PICK this, args : /\ this = Pointer
                        /\ args = IF program[g].def_args = <<>> THEN <<>> ELSE <<Pointer, top.acc>>
  OBVIOUS
<1>10. Call(g, args) /\ Still /\ UNCHANGED <<heap, out>>
  BY <1>6, <1>7, <1>8, <1>9 DEF run_send
<1>11. this = Meaning!top.env[v]
  BY <1>1, <1>2, <1>4, <1>7, <1>9, MeaningEnv DEF Pointer
<1>12. program[g].def_args = <<>> \/ Len(program[g].def_args) = 1
  BY <1>4 DEF FitsArgument
<1>13. EnvOf(g, 1, Passed(args)) = Meaning!Bindings(g, this)
  <2>1. program[g].def_args = <<>> => args = <<>>
    BY <1>9
  <2>2. program[g].def_args # <<>> =>
          args = IF program[g].op = "DEF_METHOD" THEN <<this, acc>> ELSE <<acc>>
    BY <1>1, <1>5, <1>9
  <2>3. acc = Meaning!top.acc
    BY <1>1, <1>2, MeaningEnv
  <2> QED
    BY <1>5, <1>12, <2>1, <2>2, <2>3, PassedMean
<1>14. MeaningStack' = Append(Meaning!Step(Meaning!top.acc, Meaning!top.env),
                              Meaning!Activation(g, Meaning!Bindings(g, this)))
  <2>1. program[top.fn].body[top.pc].op # "DEF_VAR"
    BY <1>1, <1>3
  <2> QED
    BY <1>1, <1>2, <1>5, <1>10, <1>13, <2>1, CallMeans
<1>15. /\ Meaning!Node = node /\ Meaning!At("CALL_METHOD")
       /\ Meaning!top.fn = f /\ Meaning!top.pc = m
  BY <1>1, <1>2, <1>3, <1>10, MeaningTop, MeaningAt, MeaningEnv
<1>16. UNCHANGED <<MeaningThings, out>>
  BY <1>10, SameThings
<1>17. /\ g \in Meaning!Decls(program, "DEF_METHOD")
       /\ program[g].klass = Meaning!TypeOfName(program, f, m, v).klass
  <2>1. Meaning!TypeOfName(program, f, m, v) = KlassType(program[g].klass)
    BY <1>4, SameNames
  <2>2. KlassType(program[g].klass).klass = program[g].klass
    BY DEF KlassType
  <2> QED
    BY <1>4, <2>1, <2>2, SameReading
<1> QED
  BY <1>1, <1>4, <1>11, <1>14, <1>15, <1>16, <1>17 DEF Meaning!CallMethod

(* A return takes the frame away and hands its value to the caller's.  The *)
(* arrays that go with it are still things, which nothing refers to.       *)
LEMMA ThingsKept ==
  ASSUME ShapeInv, run_return
  PROVE  MeaningThings' = MeaningThings
<1>1. UNCHANGED <<program, klass_def_map>>
  BY DEF run_return
<1>2. PICK k, h : k \in Nat /\ k = Len(heap) /\ h = heap'
  BY SequenceDomain DEF ShapeInv, HeapShape
<1>3. Len(h) = k /\ \A b \in 1 .. k : h[b].type = heap[b].type /\ h[b].cells = heap[b].cells
  <2>1. /\ Len(h) = k
        /\ \A b \in 1 .. k :
             h[b] = [type |-> heap[b].type, types |-> heap[b].types,
                     cells |-> heap[b].cells, home |-> heap[b].home,
                     live |-> IF heap[b].home = Len(stack) THEN FALSE ELSE heap[b].live]
    BY <1>2, ReleasedShape
  <2>2. ASSUME NEW b \in 1 .. k
        PROVE  h[b].type = heap[b].type /\ h[b].cells = heap[b].cells
    <3>1. PICK type, types, cells, home, live :
            /\ type = heap[b].type /\ cells = heap[b].cells
            /\ h[b] = [type |-> type, types |-> types, cells |-> cells,
                       home |-> home, live |-> live]
      BY <2>1
    <3> QED
      BY <3>1
  <2> QED
    BY <2>1, <2>2
<1>4. \A b \in 1 .. k : Thing(h[b]) = Thing(heap[b])
  BY <1>3 DEF Thing
<1>5. MeaningThings' = [b \in 1 .. k |-> Thing(h[b])]
  BY <1>1, <1>2, <1>3, ThingsNext
<1>6. MeaningThings = [b \in 1 .. k |-> Thing(heap[b])]
  BY <1>2 DEF MeaningThings
<1> QED
  BY <1>4, <1>5, <1>6

LEMMA ReturnMeans ==
  ASSUME ShapeInv, run_return
  PROVE  Meaning!Return
<1>1. PICK k : k = Len(stack)
  OBVIOUS
<1>2. /\ Running /\ phase = "running" /\ top.pc > Len(code[top.fn]) /\ k \in Nat /\ k > 0
      /\ UNCHANGED <<program, out>>
  BY <1>1, RunFacts DEF run_return, Running
<1>3. /\ MeaningStatus = "running" /\ Len(MeaningStack) = k
      /\ Meaning!top.pc > Len(program[Meaning!top.fn].body)
  <2>1. Len(code[top.fn]) = Len(program[top.fn].body)
    BY <1>2, RunFacts
  <2> QED
    BY <1>1, <1>2, <2>1, MeaningTop, MeaningEnv
<1>4. MeaningThings' = MeaningThings
  BY ThingsKept
<1>5. CASE k = 1
  <2>1. phase' = "exited" /\ UNCHANGED stack
    BY <1>1, <1>5 DEF run_return
  <2>2. MeaningStatus' = "exited"
    BY <2>1 DEF MeaningStatus
  <2>3. MeaningStack' = MeaningStack
    BY <1>2, <2>1, MeaningNext DEF MeaningStack
  <2> QED
    BY <1>2, <1>3, <1>4, <1>5, <2>2, <2>3 DEF Meaning!Return
<1>6. CASE k # 1
  <2>1. PICK j \in Nat : j = k - 1 /\ j > 0
    BY <1>2, <1>6
  <2>2. /\ Len(stack') = j
        /\ \A i \in 1 .. j - 1 : stack'[i] = stack[i]
        /\ stack'[j] = [fn |-> stack[j].fn, pc |-> stack[j].pc,
                        acc |-> top.acc, env |-> stack[j].env]
    BY <1>1, <1>6, <2>1, ReturnStack
  <2>3. MeaningStatus' = MeaningStatus
    <3>1. phase' = phase
      BY <1>1, <1>6 DEF run_return
    <3> QED
      BY <3>1 DEF MeaningStatus
  <2>4. PICK below, r, h, acc : /\ below = Meaning!below /\ r = MeaningStack' /\ h = stack'
                                /\ acc = top.acc
    OBVIOUS
  <2>5. /\ IsSequence(below) /\ Len(below) = j
        /\ \A d \in 1 .. j : below[d] = ByName(stack[d])
    <3>1. /\ IsSequence(MeaningStack) /\ Len(MeaningStack) = k
          /\ \A d \in 1 .. k : MeaningStack[d] = ByName(stack[d])
      BY <1>1, <1>2, MeaningTop
    <3>2. below = SubSeq(MeaningStack, 1, k - 1)
      BY <2>4, <3>1 DEF Meaning!below
    <3>3. /\ IsSequence(below) /\ Len(below) = k - 1
          /\ \A d \in 1 .. k - 1 : below[d] = MeaningStack[d]
      BY <1>2, <3>1, <3>2, SequenceBelow
    <3> QED
      BY <2>1, <3>1, <3>3
  <2>6. r = [d \in 1 .. j |-> ByName(h[d])]
    BY <1>2, <2>2, <2>4, MeaningNext
  <2>7. PICK f, m, env : f = stack[j].fn /\ m = stack[j].pc /\ env = stack[j].env
    OBVIOUS
  <2>8. below[j] = FrameOf(f, m, stack[j].acc, env)
    <3>1. FrameShape(stack[j])
      BY <1>1, <2>1 DEF ShapeInv, StackShape
    <3> QED
      BY <2>1, <2>5, <2>7, <3>1, FrameByName DEF FrameShape
  <2>9. r[j] = FrameOf(f, m, acc, env)
    <3>1. h[j] = [fn |-> f, pc |-> m, acc |-> acc, env |-> env]
      BY <2>2, <2>4, <2>7
    <3>2. ByName(h[j]) = FrameOf(f, m, acc, env)
      BY <3>1, FrameByName
    <3> QED
      BY <2>1, <2>6, <3>2
  <2>10. \A d \in 1 .. j : d # j => r[d] = below[d]
    BY <2>1, <2>2, <2>4, <2>5, <2>6
  <2>11. r = [below EXCEPT ![j].acc = acc]
    <3>1. PICK old, new : old = below[j] /\ new = FrameOf(f, m, acc, env)
      OBVIOUS
    <3>2. [old EXCEPT !.acc = acc] = new
      BY <2>8, <3>1 DEF FrameOf
    <3>3. PICK u : u = [below EXCEPT ![j] = new]
      OBVIOUS
    <3>4. [below EXCEPT ![j].acc = acc] = u
      BY <3>1, <3>2, <3>3
    <3>5. DOMAIN below = 1 .. j
      BY <2>5, SequenceDomain
    <3>6. u = [d \in 1 .. j |-> IF d = j THEN new ELSE below[d]]
      BY <3>3, <3>5
    <3>7. r = u
      <4>1. r = [d \in 1 .. j |-> r[d]]
        BY <2>6
      <4>2. \A d \in 1 .. j : r[d] = IF d = j THEN new ELSE below[d]
        BY <2>9, <2>10, <3>1
      <4> QED
        BY <3>6, <4>1, <4>2
    <3> QED
      BY <3>4, <3>7
  <2>12. Meaning!top.acc = acc /\ j = Len(below)
    BY <1>2, <2>4, <2>5, MeaningEnv
  <2>13. MeaningStack'
           = [Meaning!below EXCEPT ![Len(Meaning!below)].acc = Meaning!top.acc]
    BY <2>4, <2>11, <2>12
  <2> QED
    BY <1>2, <1>3, <1>4, <1>6, <2>3, <2>13 DEF Meaning!Return
<1> QED
  BY <1>5, <1>6

(* The program starts in main, with no variables. *)
LEMMA StartMeans ==
  ASSUME ShapeInv, WellTyped(program), Sound, BlocksTyped, WriteBitcodeToFile
  PROVE  Meaning!Start
<1>1. PICK g \in Decls(program, "DEF_FUNC") :
        g = Callee(program, Main) /\ program[g].sym = Main /\ program[g].def_args = <<>>
  BY MainText
<1>2. g \in Callables
  BY <1>1, MainText
<1>3. lookup_func(Main) = g /\ g # 0
  BY <1>1, MainText
<1>4. /\ phase = "codegen" /\ phase' = "running" /\ stack' = <<Frame(g, EmptyMap)>>
      /\ UNCHANGED <<program, klass_def_map, heap, out>>
  BY <1>3 DEF WriteBitcodeToFile
<1>5. MeaningStatus = "compiling" /\ MeaningStatus' = "running"
  BY <1>4 DEF MeaningStatus
<1>6. MeaningThings' = MeaningThings
  BY <1>4, ThingsNext DEF MeaningThings
<1>7. PICK frame, h, none : /\ frame = Frame(g, EmptyMap) /\ h = stack'
                            /\ none = [v \in {} |-> Meaning!Undef]
  OBVIOUS
<1>8. ByName(frame) = Meaning!Activation(g, none)
  <2>1. frame = [fn |-> g, pc |-> 1, acc |-> Undef, env |-> EmptyMap]
    BY <1>7 DEF Frame
  <2>2. ByName(frame) = [fn |-> g, pc |-> 1, acc |-> Undef, env |-> EnvOf(g, 1, EmptyMap)]
    BY <2>1, FrameByName DEF FrameOf
  <2>3. EnvOf(g, 1, EmptyMap) = none
    <3>1. ParamsOf(program[g]) = <<>>
      BY <1>1 DEF ParamsOf
    <3>2. Names(program, g, 1) = {}
      BY <3>1, FirstNode
    <3> QED
      BY <1>7, <3>2 DEF EnvOf
  <2>4. Undef = Meaning!Undef
    BY DEF Undef, Meaning!Undef
  <2> QED
    BY <2>2, <2>3, <2>4 DEF Meaning!Activation
<1>9. MeaningStack' = <<Meaning!Activation(g, none)>>
  <2>1. MeaningStack' = [d \in 1 .. Len(h) |-> ByName(h[d])]
    BY <1>4, <1>7, MeaningNext
  <2>2. h = <<frame>>
    BY <1>4, <1>7
  <2>3. Len(h) = 1 /\ h[1] = frame
    BY <2>2
  <2>4. MeaningStack' = [d \in 1 .. 1 |-> ByName(frame)]
    BY <2>1, <2>3
  <2>5. PICK e : e = ByName(frame)
    OBVIOUS
  <2>6. [d \in 1 .. 1 |-> e] = <<e>>
    OBVIOUS
  <2> QED
    BY <1>8, <2>4, <2>5, <2>6
<1>10. g \in Meaning!Decls(program, "DEF_FUNC")
  BY <1>1, SameReading
<1> QED
  BY <1>1, <1>4, <1>5, <1>6, <1>7, <1>9, <1>10 DEF Meaning!Start, Main

(* Compiling a program, and what happens after it has ended, changes       *)
(* nothing of its meaning.                                                 *)
meaning_vars == <<program, MeaningStatus, MeaningThings, MeaningStack, out>>

LEMMA MeaningStays ==
  ASSUME UNCHANGED <<program, heap, stack, out>>, MeaningStatus' = MeaningStatus,
         heap = <<>> \/ klass_def_map' = klass_def_map
  PROVE  UNCHANGED meaning_vars
<1>1. MeaningStack' = MeaningStack
  BY DEF MeaningStack, ByName, SlotOf
<1>2. MeaningThings' = MeaningThings
  <2>1. CASE klass_def_map' = klass_def_map
    BY <2>1 DEF MeaningThings, Thing, Fields
  <2>2. CASE heap = <<>>
    <3>1. 1 .. Len(heap) = {} /\ 1 .. Len(heap') = {}
      BY <2>2
    <3> QED
      BY <3>1 DEF MeaningThings
  <2> QED
    BY <2>1, <2>2
<1> QED
  BY <1>1, <1>2 DEF meaning_vars

(* Code generation goes on, or fails. *)
LEMMA CompilePhase ==
  ASSUME CompileFunction
  PROVE  phase' \in {"codegen"} \cup Failures
<1> DEFINE Fine == {"codegen"} \cup Failures
<1>1. ASSUME NEW how, Stop(how)
      PROVE  phase' = how
  BY <1>1 DEF Stop, Fail
<1>2. ASSUME NEW ins, NEW type, Emit(ins, type)
      PROVE  phase' = phase
  BY <1>2 DEF Emit, layout_vars
<1>3. \A op : Compiling(op) => phase = "codegen"
  BY DEF Compiling
<1>4. "codegen" \in Fine /\ \A how \in Failures : how \in Fine
  OBVIOUS
<1>5. {"assert", "crash", "malformed", "undefined"} \subseteq Failures
  BY DEF Failures
<1> HIDE DEF Fine
<1>6. CASE begin_function
  BY <1>1, <1>2, <1>3, <1>4, <1>5, <1>6 DEF begin_function, layout_vars
<1>7. CASE exec_value
  BY <1>1, <1>2, <1>3, <1>4, <1>5, <1>7 DEF exec_value
<1>8. CASE exec_def_var_codegen
  BY <1>1, <1>2, <1>3, <1>4, <1>5, <1>8 DEF exec_def_var_codegen, MakeTrouble
<1>9. CASE exec_new_class_codegen
  BY <1>1, <1>2, <1>3, <1>4, <1>5, <1>9 DEF exec_new_class_codegen, MakeTrouble
<1>10. CASE exec_get_var_codegen
  BY <1>1, <1>2, <1>3, <1>4, <1>5, <1>10, Troubles DEF exec_get_var_codegen
<1>11. CASE exec_set_var_codegen
  BY <1>1, <1>2, <1>3, <1>4, <1>5, <1>11, Troubles DEF exec_set_var_codegen
<1>12. CASE exec_get_member_var_codegen
  BY <1>1, <1>2, <1>3, <1>4, <1>5, <1>12, Troubles DEF exec_get_member_var_codegen
<1>13. CASE exec_set_member_var_codegen
  BY <1>1, <1>2, <1>3, <1>4, <1>5, <1>13, Troubles DEF exec_set_member_var_codegen
<1>14. CASE exec_get_array_var_codegen
  BY <1>1, <1>2, <1>3, <1>4, <1>5, <1>14, Troubles DEF exec_get_array_var_codegen
<1>15. CASE exec_set_array_var_codegen
  BY <1>1, <1>2, <1>3, <1>4, <1>5, <1>15, Troubles DEF exec_set_array_var_codegen
<1>16. CASE exec_print_codegen
  BY <1>1, <1>2, <1>3, <1>4, <1>5, <1>16 DEF exec_print_codegen
<1>17. CASE exec_call_func_codegen
  BY <1>1, <1>2, <1>3, <1>4, <1>5, <1>17 DEF exec_call_func_codegen
<1>18. CASE exec_call_method_codegen
  BY <1>1, <1>2, <1>3, <1>4, <1>5, <1>18, Troubles DEF exec_call_method_codegen
<1>19. CASE makeReturn
  BY <1>1, <1>2, <1>3, <1>4, <1>5, <1>19 DEF makeReturn
<1> QED
  BY <1>6, <1>7, <1>8, <1>9, <1>10, <1>11, <1>12,
     <1>13, <1>14, <1>15, <1>16, <1>17, <1>18, <1>19 DEF CompileFunction, Fine

LEMMA CompileMeans ==
  ASSUME Sound, Sound', yyparse \/ CompileClass \/ CompileFunction
  PROVE  UNCHANGED meaning_vars
<1>1. phase \in {"parse", "codegen"} /\ UNCHANGED <<program, heap, stack, out>>
  <2>1. CASE yyparse
    BY <2>1 DEF yyparse, run_vars
  <2>2. CASE CompileClass
    BY <2>2 DEF CompileClass, ClassCodegen, exec_def_class_codegen, read_junk, getFieldDef,
                makeKlassDef, run_vars
  <2>3. CASE CompileFunction
    BY <2>3 DEF CompileFunction, Compiling, begin_function, exec_value, exec_def_var_codegen,
                exec_new_class_codegen, exec_get_var_codegen, exec_set_var_codegen,
                exec_get_member_var_codegen, exec_set_member_var_codegen,
                exec_get_array_var_codegen, exec_set_array_var_codegen, exec_print_codegen,
                exec_call_func_codegen, exec_call_method_codegen, makeReturn,
                Stop, Emit, layout_vars, run_vars
  <2> QED
    BY <2>1, <2>2, <2>3
<1>2. phase' \in {"codegen"} \cup Failures
  <2>1. CASE yyparse
    BY <2>1 DEF yyparse, Failures
  <2>2. CASE CompileClass
    BY <2>2 DEF CompileClass, ClassCodegen, exec_def_class_codegen, read_junk, getFieldDef,
                makeKlassDef, Fail, Failures
  <2>3. CASE CompileFunction
    BY <2>3, CompilePhase
  <2> QED
    BY <2>1, <2>2, <2>3
<1>3. phase' = "codegen" /\ heap = <<>>
  BY <1>1, <1>2 DEF Sound
<1>4. MeaningStatus = "compiling" /\ MeaningStatus' = "compiling"
  BY <1>1, <1>3 DEF MeaningStatus
<1> QED
  BY <1>1, <1>3, <1>4, MeaningStays

LEMMA RunMeans ==
  ASSUME ShapeInv, WellTyped(program), RowsStay(program), Sound, BlocksTyped, Placed, Run,
         Sound'
  PROVE  Meaning!Next
<1>1. ~Wrong("undefined")
  BY DEF Wrong, Sound, Failures
<1> QED
  BY <1>1, DefMeans, NewMeans, SimpleMeans, GetMeans, SetMeans, PrintMeans, RunCallMeans,
     RunSendMeans, ReturnMeans
  DEF Run, Meaning!Next

(* What a well-typed program whose classes keep their rows keeps, if there *)
(* is no junk memory and a row for each class: the invariant, and Sound.   *)
Fit(p) == WellTyped(p) /\ RowsStay(p) /\ RowsSuffice(p)
Typed  == SoundInv /\ Fit(program) /\ Sound

LEMMA TypedFacts ==
  ASSUME ~JunkMemory
  PROVE  /\ ObjectInit /\ Fit(program) => Typed
         /\ Typed /\ [ObjectNext]_object_vars => Typed'
<1>1. SoundInv /\ Fit(program) => Sound
  BY DEF SoundInv, Fit, Excused
<1>2. SoundInv' /\ Fit(program)' => Sound'
  BY DEF SoundInv, Fit, Excused
<1>3. ASSUME Typed, [ObjectNext]_object_vars
      PROVE  Typed'
  <2>1. SoundInv' /\ program' = program
    BY <1>3, StepSoundInv, ProgramStays DEF Typed
  <2>2. Fit(program)'
    BY <1>3, <2>1 DEF Typed, Fit
  <2> QED
    BY <1>2, <2>1, <2>2 DEF Typed
<1> QED
  BY <1>1, <1>3, InitSound DEF Typed

LEMMA MeaningInit ==
  ASSUME ObjectInit, WellTyped(program)
  PROVE  Meaning!Init
<1>1. phase = "parse" /\ heap = <<>> /\ stack = <<>> /\ out = <<>>
  BY DEF ObjectInit
<1>2. MeaningStatus = "compiling"
  BY <1>1 DEF MeaningStatus
<1>3. MeaningThings = <<>> /\ MeaningStack = <<>>
  BY <1>1 DEF MeaningThings, MeaningStack
<1> QED
  BY <1>1, <1>2, <1>3, SameTyping DEF Meaning!Init

LEMMA MeaningStep ==
  ASSUME Typed, Typed', [ObjectNext]_object_vars
  PROVE  [Meaning!Next]_(Meaning!vars)
<1>1. /\ ShapeInv /\ WellTyped(program) /\ RowsStay(program)
      /\ Sound /\ BlocksTyped /\ Placed /\ Sound'
  BY DEF Typed, SoundInv, Fit
<1>2. CASE UNCHANGED object_vars
  <2>1. UNCHANGED <<program, phase, klass_def_map, heap, stack, out>>
    BY <1>2 DEF object_vars, layout_vars, run_vars
  <2>2. MeaningStatus' = MeaningStatus
    BY <2>1 DEF MeaningStatus
  <2> QED
    BY <2>1, <2>2, MeaningStays DEF meaning_vars, Meaning!vars
<1>3. CASE yyparse \/ CompileClass \/ CompileFunction
  BY <1>1, <1>3, CompileMeans DEF meaning_vars, Meaning!vars
<1>4. CASE WriteBitcodeToFile
  BY <1>1, <1>4, StartMeans DEF Meaning!Next
<1>5. CASE Run
  BY <1>1, <1>5, RunMeans
<1> QED
  BY <1>2, <1>3, <1>4, <1>5 DEF ObjectNext

(***************************************************************************)
(* The generated code and its run implement ObjectSemantics: every step of *)
(* compiling and running a well-typed program, whose classes keep their    *)
(* rows in the method array from the first call to main and fit into it,   *)
(* is a step of its meaning or changes nothing of it.  A member is the     *)
(* cell at its index in the layout of the object's class, whatever class   *)
(* the variable it is reached through has; a variable of a name is the     *)
(* last one the text makes; a call gets the callee the text names, and a   *)
(* return gives its value.                                                 *)
(***************************************************************************)
THEOREM Objects_ImplementsMeaning ==
  ASSUME ~JunkMemory
  PROVE  ObjectSpec /\ WellTyped(program) /\ RowsStay(program) /\ RowsSuffice(program)
           => ImplementsMeaning
<1>1. ObjectInit /\ Fit(program) => Typed /\ Meaning!Init
  BY TypedFacts, MeaningInit DEF Fit
<1>2. Typed /\ [ObjectNext]_object_vars => Typed'
  BY TypedFacts
<1>3. Typed /\ Typed' /\ [ObjectNext]_object_vars => [Meaning!Next]_(Meaning!vars)
  BY MeaningStep
<1>4. Meaning!Init /\ [][Meaning!Next]_(Meaning!vars) => ImplementsMeaning
  BY DEF Meaning!Spec, ImplementsMeaning
<1>5. ObjectSpec /\ Fit(program) => ImplementsMeaning
  BY <1>1, <1>2, <1>3, <1>4, PTL DEF ObjectSpec
<1> QED
  BY <1>5 DEF Fit
=============================================================================

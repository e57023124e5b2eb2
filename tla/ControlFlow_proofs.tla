------------------------- MODULE ControlFlow_proofs -------------------------
(***************************************************************************)
(* For every set of bodies, however their statements nest: the blocks that *)
(* exec_..._codegen make form a function in one piece, whose phis name     *)
(* exactly the blocks control comes from, and lli stays inside it.         *)
(*                                                                         *)
(* What makes this true is a discipline that no assertion of the code      *)
(* states.  A frame of the recursive walk has blocks in hand: those it has *)
(* created and will still attach, branch to or insert into.  No two frames *)
(* have the same block in hand, so that whatever a child generates leaves  *)
(* the blocks of its ancestors alone; edges are only drawn from the block  *)
(* the IRBuilder inserts into, which has none yet, and only to blocks the  *)
(* frame on top has in hand or has just created (HandsOver).  Graph_Step   *)
(* shows that any step of that form keeps GraphInv, and the lemmas after   *)
(* it, one per exec_..._codegen, that every step has that form.  Blocks    *)
(* that are not attached, or not reached, or whose phi is to come are in   *)
(* hand; when no frame is left there are none.                             *)
(***************************************************************************)
EXTENDS ControlFlow, FiniteSetTheorems, SequenceTheorems, TLAPS

(***************************************************************************)
(* The shape of the generator's state.                                     *)
(***************************************************************************)
Instruction ==
  [op : {"load"}, var : Var]
  \cup [op : {"store"}, var : Var, arg : Values]
  \cup [op : {"print", "ret"}, arg : Values]
  \cup [op : {"add", "slt", "eq"}, lhs : Values, rhs : Values]
  \cup [op : {"br"}, to : Nat]
  \cup [op : {"condbr"}, cond : Values, then : Nat, else : Nat]
  \cup [op : {"phi"}, from : (SUBSET (Nat \X Values)) \ {{}}]

BasicBlock == [attached : BOOLEAN, code : Seq(Instruction)]

Activation == [node : Node, stage : 1 .. 4, kept : Values, at : Seq(Nat)]

(***************************************************************************)
(* The generated code bs as a graph: what follows block b, which blocks it *)
(* follows, and the sources its phis name.                                 *)
(***************************************************************************)
After(bs, b) == UNION {Targets(bs[b].code[i]) : i \in 1 .. Len(bs[b].code)}

Into(bs, b) == {a \in 1 .. Len(bs) : b \in After(bs, a)}

Phis(bs, b) == {bs[b].code[i].from : i \in {j \in 1 .. Len(bs[b].code) : bs[b].code[j].op = "phi"}}

(* Block b is reached from the entry: it is in every closed set of blocks. *)
Reached(bs, b) ==
  \A C \in SUBSET (1 .. Len(bs)) :
    1 \in C /\ (\A a \in C : After(bs, a) \subseteq C) => b \in C

(***************************************************************************)
(* What a frame has in hand: blocks of its own that are not attached yet,  *)
(* blocks that have no code yet, blocks nothing leads to yet, and all that *)
(* it will still branch to or insert into.                                 *)
(***************************************************************************)
IfAt(f, s)   == f.node.op = "IF_STMT" /\ f.stage = s
LoopAt(f, s) == f.node.op = "WHILE_STMT" /\ f.stage = s

Loose(f) == (IF IfAt(f, 3) THEN {f.at[2]} ELSE {}) \cup (IF IfAt(f, 3) \/ IfAt(f, 4) THEN {f.at[3]} ELSE {})

Fresh(f) == (IF IfAt(f, 3) \/ LoopAt(f, 2) THEN {f.at[2]} ELSE {})
            \cup (IF IfAt(f, 3) \/ IfAt(f, 4) \/ LoopAt(f, 2) \/ LoopAt(f, 3) THEN {f.at[3]} ELSE {})

Unlinked(f) == (IF LoopAt(f, 2) THEN {f.at[2]} ELSE {}) \cup (IF IfAt(f, 3) \/ LoopAt(f, 2) THEN {f.at[3]} ELSE {})

Mine(f) == Fresh(f) \cup (IF LoopAt(f, 2) \/ LoopAt(f, 3) THEN {f.at[1]} ELSE {})

FrameIsSound(bs, f) ==
  /\ Mine(f) \subseteq 2 .. Len(bs)
  /\ \A b \in Mine(f) : Phis(bs, b) = {}
  /\ \A b \in Fresh(f) : After(bs, b) = {}
  /\ IfAt(f, 3) \/ LoopAt(f, 2) => f.at[2] # f.at[3]
  /\ IfAt(f, 3) => Into(bs, f.at[3]) = {}
  /\ IfAt(f, 4) => Into(bs, f.at[3]) = {f.at[1]}

(***************************************************************************)
(* The invariant.                                                          *)
(***************************************************************************)
HoldsBlocks(bs, f) ==
  /\ f.at \in Seq(1 .. Len(bs))
  /\ f.node.op = "ADD" /\ f.stage \in {2, 3} => Len(f.at) = 1
  /\ IfAt(f, 3) \/ IfAt(f, 4) \/ LoopAt(f, 2) \/ LoopAt(f, 3) => Len(f.at) = 3

FramesHoldBlocks(bs, cs) == \A c \in 1 .. Len(cs) : HoldsBlocks(bs, cs[c])

Shapes ==
  /\ body \in Node
  /\ calls \in Seq(Activation)
  /\ ret \in Values
  /\ blocks \in Seq(BasicBlock)
  /\ ins \in 1 .. Len(blocks)
  /\ FramesHoldBlocks(blocks, calls)

EdgesInside(bs) == \A b \in 1 .. Len(bs) : After(bs, b) \subseteq 2 .. Len(bs)

FramesAreSound(bs, cs) == \A c \in 1 .. Len(cs) : FrameIsSound(bs, cs[c])

FramesAreApart(cs) ==
  \A c, d \in 1 .. Len(cs) : c # d => Mine(cs[c]) \cap Mine(cs[d]) = {}

InsertionIsOpen(bs, cs, n) ==
  /\ n \in 1 .. Len(bs)
  /\ After(bs, n) = {}
  /\ \A c \in 1 .. Len(cs) : n \notin Fresh(cs[c])

AttachedOrLoose(bs, cs) ==
  \A b \in 1 .. Len(bs) : bs[b].attached \/ \E c \in 1 .. Len(cs) : b \in Loose(cs[c])

ReachedOrUnlinked(bs, cs) ==
  \A b \in 1 .. Len(bs) : Reached(bs, b) \/ \E c \in 1 .. Len(cs) : b \in Unlinked(cs[c])

PhisAreComplete(bs) ==
  \A b \in 1 .. Len(bs) : \A from \in Phis(bs, b) :
    /\ {f[1] : f \in from} = Into(bs, b)
    /\ Cardinality(from) = Cardinality(Into(bs, b))

GraphInv(bs, cs, n) ==
  /\ EdgesInside(bs)
  /\ FramesAreSound(bs, cs)
  /\ FramesAreApart(cs)
  /\ InsertionIsOpen(bs, cs, n)
  /\ AttachedOrLoose(bs, cs)
  /\ ReachedOrUnlinked(bs, cs)
  /\ PhisAreComplete(bs)

(* The function that runs: control is in a block, and came along an edge. *)
Started == phase \in {"running", "exited", "stuck"}

PhaseInv ==
  /\ phase \in {"codegen", "malformed", "written", "running", "exited", "stuck"}
  /\ Generated => calls = <<>>
  /\ ~Started => block = 0 /\ prev = 0

ControlInv ==
  Started =>
    /\ \A b \in 1 .. Len(blocks) : Terminated(b)
    /\ block \in 1 .. Len(blocks)
    /\ pc \in 1 .. Len(Code(block))
    /\ \/ block = 1 /\ prev = 0
       \/ prev \in 1 .. Len(blocks) /\ block \in Successors(prev)

Word == 0 .. Modulus - 1

DataInv ==
  /\ \A place \in DOMAIN regs : regs[place] \in Word
  /\ mem \in [Var -> Word]
  /\ out \in Seq(Word) /\ Len(out) <= MaxOut

RunInv == PhaseInv /\ ControlInv /\ DataInv

GenInv == Shapes /\ GraphInv(blocks, calls, ins)

CInv == GenInv /\ RunInv

-----------------------------------------------------------------------------
(***************************************************************************)
(* What emitting an instruction, attaching a block and creating blocks do  *)
(* to the graph.                                                           *)
(***************************************************************************)
LEMMA Block_Shape ==
  ASSUME NEW bs \in Seq(BasicBlock), NEW b \in 1 .. Len(bs)
  PROVE  bs[b].code \in Seq(Instruction) /\ bs[b].attached \in BOOLEAN
<1> DEFINE B == BasicBlock
<1>1. bs \in Seq(B)
  OBVIOUS
<1> HIDE DEF B
<1>2. bs[b] \in B
  BY <1>1
<1>. QED
  BY <1>2 DEF B, BasicBlock

LEMMA Emit_Blocks ==
  ASSUME NEW bs \in Seq(BasicBlock), NEW b \in 1 .. Len(bs), NEW i \in Instruction
  PROVE  /\ Emit(bs, b, i) \in Seq(BasicBlock)
         /\ Len(Emit(bs, b, i)) = Len(bs)
         /\ \A c \in 1 .. Len(bs) :
              /\ Emit(bs, b, i)[c].attached = bs[c].attached
              /\ Emit(bs, b, i)[c].code =
                   IF c = b THEN Append(bs[c].code, i) ELSE bs[c].code
<1> DEFINE B == BasicBlock
<1>1. bs \in Seq(B) /\ bs[b] \in B
  OBVIOUS
<1>2. bs[b].code \in Seq(Instruction) /\ bs[b].attached \in BOOLEAN
  BY Block_Shape
<1>3. Append(bs[b].code, i) \in Seq(Instruction)
  BY <1>2
<1>4. PICK a \in BOOLEAN, s \in Seq(Instruction) : bs[b] = [attached |-> a, code |-> s]
  BY <1>1 DEF BasicBlock
<1>5. [bs[b] EXCEPT !.code = Append(@, i)]
        = [attached |-> bs[b].attached, code |-> Append(bs[b].code, i)]
  <2> DEFINE r == bs[b]
             x == Append(r.code, i)
  <2>1. r = [attached |-> a, code |-> s]
    BY <1>4
  <2> HIDE DEF r
  <2>2. [r EXCEPT !.code = x] = [attached |-> r.attached, code |-> x]
    <3> HIDE DEF x
    <3>. QED
      BY <2>1
  <2>. QED
    BY <2>2 DEF r
<1>6. [bs[b] EXCEPT !.code = Append(@, i)] \in B
  BY <1>2, <1>3, <1>5 DEF BasicBlock
<1> DEFINE n == [bs[b] EXCEPT !.code = Append(@, i)]
<1>7. Emit(bs, b, i) = [bs EXCEPT ![b] = n]
  BY DEF Emit
<1>8. n.attached = bs[b].attached /\ n.code = Append(bs[b].code, i)
  BY <1>5
<1> HIDE DEF n, B
<1>9. [bs EXCEPT ![b] = n] \in Seq(B) /\ Len([bs EXCEPT ![b] = n]) = Len(bs)
  BY <1>1, <1>6 DEF n
<1>10. \A c \in 1 .. Len(bs) : [bs EXCEPT ![b] = n][c] = IF c = b THEN n ELSE bs[c]
  BY <1>1
<1>. QED
  BY <1>7, <1>8, <1>9, <1>10 DEF B

LEMMA Emit_After ==
  ASSUME NEW bs \in Seq(BasicBlock), NEW b \in 1 .. Len(bs), NEW i \in Instruction,
         NEW c \in 1 .. Len(bs)
  PROVE  After(Emit(bs, b, i), c) =
           IF c = b THEN After(bs, c) \cup Targets(i) ELSE After(bs, c)
<1>1. Emit(bs, b, i)[c].code = IF c = b THEN Append(bs[c].code, i) ELSE bs[c].code
  BY Emit_Blocks
<1>2. CASE c # b
  BY <1>1, <1>2 DEF After
<1>3. CASE c = b
  <2>1. bs[c].code \in Seq(Instruction)
    BY Block_Shape
  <2> DEFINE s == bs[c].code
             t == Append(s, i)
  <2>2. /\ Len(t) = Len(s) + 1 /\ Len(s) \in Nat
        /\ \A j \in 1 .. Len(s) : t[j] = s[j]
        /\ t[Len(s) + 1] = i
    BY <2>1
  <2> HIDE DEF s, t
  <2>3. UNION {Targets(t[j]) : j \in 1 .. Len(t)} = (UNION {Targets(s[j]) : j \in 1 .. Len(s)}) \cup Targets(i)
    <3>1. ASSUME NEW x, x \in UNION {Targets(t[j]) : j \in 1 .. Len(t)}
          PROVE  x \in (UNION {Targets(s[j]) : j \in 1 .. Len(s)}) \cup Targets(i)
      <4>1. PICK j \in 1 .. Len(t) : x \in Targets(t[j])
        BY <3>1
      <4>2. j \in 1 .. Len(s) \/ j = Len(s) + 1
        BY <2>2
      <4>. QED
        BY <4>1, <4>2, <2>2
    <3>2. ASSUME NEW x, x \in (UNION {Targets(s[j]) : j \in 1 .. Len(s)}) \cup Targets(i)
          PROVE  x \in UNION {Targets(t[j]) : j \in 1 .. Len(t)}
      <4>1. CASE x \in Targets(i)
        BY <4>1, <2>2
      <4>2. CASE x \in UNION {Targets(s[j]) : j \in 1 .. Len(s)}
        <5>1. PICK j \in 1 .. Len(s) : x \in Targets(s[j])
          BY <4>2
        <5>2. j \in 1 .. Len(t) /\ t[j] = s[j]
          BY <2>2
        <5>. QED
          BY <5>1, <5>2
      <4>. QED
        BY <3>2, <4>1, <4>2
    <3>. QED
      BY <3>1, <3>2
  <2>. QED
    BY <1>1, <1>3, <2>3 DEF After, s, t
<1>. QED
  BY <1>2, <1>3

LEMMA Emit_Phis ==
  ASSUME NEW bs \in Seq(BasicBlock), NEW b \in 1 .. Len(bs), NEW i \in Instruction,
         NEW c \in 1 .. Len(bs)
  PROVE  Phis(Emit(bs, b, i), c) =
           IF c = b /\ i.op = "phi" THEN Phis(bs, c) \cup {i.from} ELSE Phis(bs, c)
<1>1. Emit(bs, b, i)[c].code = IF c = b THEN Append(bs[c].code, i) ELSE bs[c].code
  BY Emit_Blocks
<1>2. CASE c # b
  BY <1>1, <1>2 DEF Phis
<1>3. CASE c = b
  <2>1. bs[c].code \in Seq(Instruction)
    BY Block_Shape
  <2> DEFINE s == bs[c].code
             t == Append(s, i)
             PhiAt(u) == {j \in 1 .. Len(u) : u[j].op = "phi"}
  <2>2. /\ Len(t) = Len(s) + 1 /\ Len(s) \in Nat
        /\ \A j \in 1 .. Len(s) : t[j] = s[j]
        /\ t[Len(s) + 1] = i
    BY <2>1
  <2> HIDE DEF s, t
  <2>3. PhiAt(t) = IF i.op = "phi" THEN PhiAt(s) \cup {Len(s) + 1} ELSE PhiAt(s)
    BY <2>2
  <2>4. \A j \in PhiAt(s) : t[j] = s[j]
    BY <2>2
  <2> HIDE DEF PhiAt
  <2>5. {t[j].from : j \in PhiAt(t)} =
          IF i.op = "phi" THEN {s[j].from : j \in PhiAt(s)} \cup {i.from}
          ELSE {s[j].from : j \in PhiAt(s)}
    BY <2>2, <2>3, <2>4
  <2>. QED
    BY <1>1, <1>3, <2>5 DEF Phis, s, t, PhiAt
<1>. QED
  BY <1>2, <1>3

LEMMA Attach_Blocks ==
  ASSUME NEW bs \in Seq(BasicBlock), NEW b \in 1 .. Len(bs)
  PROVE  /\ Attach(bs, b) \in Seq(BasicBlock)
         /\ Len(Attach(bs, b)) = Len(bs)
         /\ \A c \in 1 .. Len(bs) :
              /\ Attach(bs, b)[c].code = bs[c].code
              /\ Attach(bs, b)[c].attached = (c = b \/ bs[c].attached)
<1> DEFINE B == BasicBlock
           r == bs[b]
           yes == TRUE
           n == [r EXCEPT !.attached = yes]
<1>1. bs \in Seq(B) /\ bs[b] \in B
  OBVIOUS
<1>2. PICK a \in BOOLEAN, s \in Seq(Instruction) : r = [attached |-> a, code |-> s]
  BY <1>1 DEF BasicBlock
<1>3. n = [attached |-> yes, code |-> s]
  <2> HIDE DEF r, yes
  <2>. QED
    BY <1>2
<1>4. n \in B /\ n.code = bs[b].code /\ n.attached = TRUE
  BY <1>2, <1>3 DEF BasicBlock
<1>5. \A c \in 1 .. Len(bs) : bs[c].attached \in BOOLEAN
  BY Block_Shape
<1>6. Attach(bs, b) = [bs EXCEPT ![b] = n]
  BY DEF Attach
<1> HIDE DEF n, r, B
<1>7. [bs EXCEPT ![b] = n] \in Seq(B) /\ Len([bs EXCEPT ![b] = n]) = Len(bs)
  BY <1>1, <1>4
<1>8. \A c \in 1 .. Len(bs) : [bs EXCEPT ![b] = n][c] = IF c = b THEN n ELSE bs[c]
  BY <1>1
<1>. QED
  BY <1>4, <1>5, <1>6, <1>7, <1>8 DEF B

LEMMA New_Blocks ==
  ASSUME NEW bs \in Seq(BasicBlock), NEW flags \in Seq(BOOLEAN)
  PROVE  LET new == NewBlocks(bs, flags) IN
         /\ new \in Seq(BasicBlock)
         /\ Len(new) = Len(bs) + Len(flags)
         /\ \A c \in 1 .. Len(bs) : new[c] = bs[c]
         /\ \A i \in 1 .. Len(flags) :
              new[Len(bs) + i].code = <<>> /\ new[Len(bs) + i].attached = flags[i]
<1> DEFINE B == BasicBlock
           more == [i \in 1 .. Len(flags) |-> EmptyBlock(flags[i])]
<1>1. \A x \in BOOLEAN : EmptyBlock(x) \in B /\ EmptyBlock(x).code = <<>> /\ EmptyBlock(x).attached = x
  BY DEF EmptyBlock, BasicBlock
<1>2. \A i \in 1 .. Len(flags) : flags[i] \in BOOLEAN
  OBVIOUS
<1>3. Len(flags) \in Nat /\ Len(bs) \in Nat
  OBVIOUS
<1>4. bs \in Seq(B)
  OBVIOUS
<1>5. NewBlocks(bs, flags) = bs \o more
  BY DEF NewBlocks
<1> HIDE DEF B
<1>6. more \in Seq(B) /\ Len(more) = Len(flags)
  BY <1>1, <1>2, <1>3
<1>7. \A i \in 1 .. Len(flags) : more[i] = EmptyBlock(flags[i])
  OBVIOUS
<1> HIDE DEF more
<1>8. /\ bs \o more \in Seq(B)
      /\ Len(bs \o more) = Len(bs) + Len(flags)
      /\ \A c \in 1 .. Len(bs) : (bs \o more)[c] = bs[c]
      /\ \A i \in 1 .. Len(flags) : (bs \o more)[Len(bs) + i] = more[i]
  BY <1>3, <1>4, <1>6
<1>. QED
  BY <1>1, <1>2, <1>5, <1>7, <1>8 DEF B

(* Edges and phis of a block are those of its code. *)
LEMMA Same_Code ==
  ASSUME NEW bs, NEW b, NEW cs, NEW c, bs[b].code = cs[c].code
  PROVE  After(bs, b) = After(cs, c) /\ Phis(bs, b) = Phis(cs, c)
BY DEF After, Phis

LEMMA Empty_Code ==
  ASSUME NEW bs, NEW b, bs[b].code = <<>>
  PROVE  After(bs, b) = {} /\ Phis(bs, b) = {}
BY DEF After, Phis

-----------------------------------------------------------------------------
(***************************************************************************)
(* A step of the generator, seen from the graph: from block n it draws     *)
(* edges to the blocks of T, and gives block p the phi's sources F, if it  *)
(* adds one; new blocks are empty.                                         *)
(***************************************************************************)
Grows(bs, bs2, n, T) ==
  /\ Len(bs2) >= Len(bs)
  /\ \A b \in 1 .. Len(bs) : After(bs2, b) = IF b = n THEN After(bs, b) \cup T ELSE After(bs, b)
  /\ \A b \in Len(bs) + 1 .. Len(bs2) : After(bs2, b) = {} /\ Phis(bs2, b) = {}

NewIn(bs, bs2) == Len(bs) + 1 .. Len(bs2)

(* Frames without anything in hand. *)
Idle(f) == Fresh(f) = {} /\ Mine(f) = {} /\ ~IfAt(f, 3) /\ ~IfAt(f, 4) /\ ~LoopAt(f, 2)

(* All frames but the top one stay; that one becomes f, or leaves. *)
Moves(cs, cs2, f) ==
  /\ \A c \in 1 .. Len(cs) - 1 : c \in 1 .. Len(cs2) /\ cs2[c] = cs[c]
  /\ \A c \in 1 .. Len(cs2) : c >= Len(cs) => Idle(cs2[c]) \/ (c = Len(cs) /\ cs2[c] = f)
  /\ Idle(f) \/ (Len(cs) \in 1 .. Len(cs2) /\ cs2[Len(cs)] = f)

LEMMA Into_Grows ==
  ASSUME NEW bs \in Seq(BasicBlock), NEW bs2 \in Seq(BasicBlock),
         NEW n \in 1 .. Len(bs), NEW T, Grows(bs, bs2, n, T), NEW b
  PROVE  Into(bs2, b) = IF b \in T THEN Into(bs, b) \cup {n} ELSE Into(bs, b)
<1>1. Len(bs) \in Nat /\ Len(bs2) \in Nat
  OBVIOUS
<1>2. 1 .. Len(bs2) = (1 .. Len(bs)) \cup (Len(bs) + 1 .. Len(bs2))
  BY <1>1 DEF Grows
<1>. QED
  BY <1>2 DEF Grows, Into

LEMMA Reached_Grows ==
  ASSUME NEW bs \in Seq(BasicBlock), NEW bs2 \in Seq(BasicBlock), Len(bs) >= 1,
         NEW n \in 1 .. Len(bs), NEW T, Grows(bs, bs2, n, T), EdgesInside(bs),
         NEW b \in 1 .. Len(bs), Reached(bs, b)
  PROVE  Reached(bs2, b)
<1> SUFFICES ASSUME NEW C \in SUBSET (1 .. Len(bs2)), 1 \in C,
                    \A a \in C : After(bs2, a) \subseteq C
             PROVE  b \in C
  BY DEF Reached
<1> DEFINE D == C \cap (1 .. Len(bs))
<1>1. Len(bs) \in Nat
  OBVIOUS
<1>2. 1 \in D
  BY <1>1
<1>3. \A a \in D : After(bs, a) \subseteq D
  BY <1>1 DEF Grows, EdgesInside
<1>. QED
  BY <1>2, <1>3 DEF Reached

LEMMA Reached_Target ==
  ASSUME NEW bs \in Seq(BasicBlock), NEW bs2 \in Seq(BasicBlock), Len(bs) >= 1,
         NEW n \in 1 .. Len(bs), NEW T, Grows(bs, bs2, n, T), EdgesInside(bs),
         Reached(bs, n), NEW b \in T
  PROVE  Reached(bs2, b)
<1>1. Reached(bs2, n)
  BY Reached_Grows
<1>2. b \in After(bs2, n)
  BY DEF Grows
<1>. QED
  BY <1>1, <1>2 DEF Reached

(* What a frame has in hand, from the smallest to the largest. *)
LEMMA Hands ==
  ASSUME NEW f
  PROVE  Loose(f) \subseteq Fresh(f) /\ Unlinked(f) \subseteq Fresh(f) /\ Fresh(f) \subseteq Mine(f)
BY DEF Loose, Unlinked, Fresh, Mine

LEMMA Idle_Sound ==
  ASSUME NEW bs, NEW f, Idle(f)
  PROVE  FrameIsSound(bs, f)
BY DEF Idle, FrameIsSound

(***************************************************************************)
(* Top frame t of cs draws edges from n to blocks it has in hand, or that  *)
(* are new, and becomes f, which takes over what t had in hand and the new *)
(* blocks; only blocks of P, of t, get a phi.                              *)
(***************************************************************************)
HandsOver(bs, bs2, t, f, T, P, n, n2) ==
  /\ Grows(bs, bs2, n, T)
  /\ T \subseteq Mine(t) \cup NewIn(bs, bs2)
  /\ P \subseteq Mine(t)
  /\ \A b \in (1 .. Len(bs)) \ P : Phis(bs2, b) = Phis(bs, b)
  /\ \A b \in P : \A from \in Phis(bs2, b) :
       /\ {e[1] : e \in from} = Into(bs2, b)
       /\ Cardinality(from) = Cardinality(Into(bs2, b))
  /\ FrameIsSound(bs2, f)
  /\ Mine(f) \subseteq Mine(t) \cup NewIn(bs, bs2)
  /\ n2 \in 1 .. Len(bs2)
  /\ n2 \in Mine(t) \cup NewIn(bs, bs2) \cup {n}
  /\ n2 \notin Fresh(f)
  /\ After(bs2, n2) = {}
  /\ \A b \in 1 .. Len(bs) : bs[b].attached => bs2[b].attached
  /\ \A b \in Loose(t) \cup NewIn(bs, bs2) : bs2[b].attached \/ b \in Loose(f)
  /\ \A b \in Unlinked(t) \cup NewIn(bs, bs2) : b \in T \/ b \in Unlinked(f)

LEMMA Graph_Step ==
  ASSUME NEW bs \in Seq(BasicBlock), NEW bs2 \in Seq(BasicBlock),
         NEW cs, NEW cs2, Len(cs) \in Nat \ {0}, Len(cs2) \in Nat,
         NEW n, NEW n2, NEW T, NEW P, NEW f,
         GraphInv(bs, cs, n), Moves(cs, cs2, f),
         HandsOver(bs, bs2, cs[Len(cs)], f, T, P, n, n2)
  PROVE  GraphInv(bs2, cs2, n2)
<1> DEFINE t == cs[Len(cs)]
           Own == Mine(t) \cup NewIn(bs, bs2)
           Others == 1 .. Len(cs) - 1
<1>1. Len(bs) \in Nat /\ Len(bs2) \in Nat /\ Len(bs2) >= Len(bs)
  BY DEF HandsOver, Grows
<1>2. n \in 1 .. Len(bs)
  BY DEF GraphInv, InsertionIsOpen
<1>3. Grows(bs, bs2, n, T) /\ T \subseteq Own /\ P \subseteq Mine(t) /\ Mine(f) \subseteq Own
  BY DEF HandsOver
<1>4. Len(cs) \in 1 .. Len(cs)
  OBVIOUS
<1>5. FrameIsSound(bs, t)
  BY <1>4 DEF GraphInv, FramesAreSound
<1>6. \A c \in Others : FrameIsSound(bs, cs[c]) /\ Mine(cs[c]) \cap Own = {}
  <2> SUFFICES ASSUME NEW c \in Others
               PROVE  FrameIsSound(bs, cs[c]) /\ Mine(cs[c]) \cap Own = {}
    OBVIOUS
  <2>1. c \in 1 .. Len(cs) /\ c # Len(cs)
    OBVIOUS
  <2>2. FrameIsSound(bs, cs[c])
    BY <2>1 DEF GraphInv, FramesAreSound
  <2>3. Mine(cs[c]) \cap Mine(t) = {}
    BY <2>1, <1>4 DEF GraphInv, FramesAreApart
  <2>4. Mine(cs[c]) \cap NewIn(bs, bs2) = {}
    BY <2>2, <1>1 DEF FrameIsSound, NewIn
  <2>. QED
    BY <2>2, <2>3, <2>4
<1>7. \A c \in 1 .. Len(cs2) : \/ c \in Others /\ cs2[c] = cs[c]
                               \/ c = Len(cs) /\ cs2[c] = f
                               \/ Idle(cs2[c])
  BY DEF Moves
<1>8. \A c \in Others : c \in 1 .. Len(cs2) /\ cs2[c] = cs[c]
  BY DEF Moves
<1>9. Idle(f) \/ (Len(cs) \in 1 .. Len(cs2) /\ cs2[Len(cs)] = f)
  BY DEF Moves
<1>10. T \subseteq 2 .. Len(bs2)
  BY <1>1, <1>2, <1>3, <1>5 DEF FrameIsSound, NewIn
<1> HIDE DEF Own, Others, t
<1>11. EdgesInside(bs2)
  <2> SUFFICES ASSUME NEW b \in 1 .. Len(bs2)
               PROVE  After(bs2, b) \subseteq 2 .. Len(bs2)
    BY DEF EdgesInside
  <2>1. CASE b \in 1 .. Len(bs)
    <3>1. After(bs, b) \subseteq 2 .. Len(bs2)
      BY <2>1, <1>1 DEF GraphInv, EdgesInside
    <3>. QED
      BY <2>1, <3>1, <1>3, <1>10 DEF Grows
  <2>2. CASE b \in Len(bs) + 1 .. Len(bs2)
    BY <2>2, <1>3 DEF Grows
  <2>. QED
    BY <2>1, <2>2, <1>1
<1>12. FramesAreSound(bs2, cs2)
  <2>1. ASSUME NEW c \in Others PROVE FrameIsSound(bs2, cs[c])
    <3> DEFINE g == cs[c]
    <3>1. FrameIsSound(bs, g) /\ Mine(g) \cap Own = {} /\ c \in 1 .. Len(cs)
      BY <1>6, <2>1, <1>4 DEF Others
    <3>2. Mine(g) \subseteq 2 .. Len(bs2) /\ Mine(g) \subseteq 1 .. Len(bs)
      BY <3>1, <1>1 DEF FrameIsSound
    <3>3. \A b \in Mine(g) : b \notin P /\ b \notin T
      BY <3>1, <1>3 DEF Own
    <3>4. \A b \in Mine(g) : Phis(bs2, b) = {}
      BY <3>1, <3>2, <3>3 DEF HandsOver, FrameIsSound
    <3>5. n \notin Fresh(g)
      BY <3>1 DEF GraphInv, InsertionIsOpen
    <3>6. \A b \in Fresh(g) : After(bs2, b) = {}
      BY <3>1, <3>2, <3>5, <1>3, Hands DEF FrameIsSound, Grows
    <3>7. IfAt(g, 3) \/ IfAt(g, 4) => g.at[3] \in Mine(g)
      BY DEF Mine, Fresh
    <3>8. \A b \in Mine(g) : Into(bs2, b) = Into(bs, b)
      BY <3>3, <1>2, <1>3, Into_Grows
    <3> HIDE DEF g
    <3>9. FrameIsSound(bs2, g)
      BY <3>1, <3>2, <3>4, <3>6, <3>7, <3>8 DEF FrameIsSound
    <3>. QED
      BY <3>9 DEF g
  <2>2. FrameIsSound(bs2, f)
    BY DEF HandsOver
  <2>. QED
    BY <2>1, <2>2, <1>7, Idle_Sound DEF FramesAreSound
<1>13. FramesAreApart(cs2)
  <2> SUFFICES ASSUME NEW c \in 1 .. Len(cs2), NEW d \in 1 .. Len(cs2), c # d
               PROVE  Mine(cs2[c]) \cap Mine(cs2[d]) = {}
    BY DEF FramesAreApart
  <2>1. \A g : Idle(g) => Mine(g) = {}
    BY DEF Idle
  <2>2. CASE Idle(cs2[c]) \/ Idle(cs2[d])
    BY <2>1, <2>2
  <2>3. CASE c \in Others /\ cs2[c] = cs[c] /\ d \in Others /\ cs2[d] = cs[d]
    <3>1. c \in 1 .. Len(cs) /\ d \in 1 .. Len(cs)
      BY <2>3 DEF Others
    <3>. QED
      BY <2>3, <3>1 DEF GraphInv, FramesAreApart
  <2>4. CASE c \in Others /\ cs2[c] = cs[c] /\ d = Len(cs) /\ cs2[d] = f
    BY <2>4, <1>3, <1>6
  <2>5. CASE d \in Others /\ cs2[d] = cs[d] /\ c = Len(cs) /\ cs2[c] = f
    BY <2>5, <1>3, <1>6
  <2>. QED
    BY <1>7, <2>2, <2>3, <2>4, <2>5
<1>14. InsertionIsOpen(bs2, cs2, n2)
  <2>1. n2 \in 1 .. Len(bs2) /\ After(bs2, n2) = {} /\ n2 \notin Fresh(f)
        /\ n2 \in Own \cup {n}
    BY DEF HandsOver, Own, t
  <2>2. ASSUME NEW c \in Others PROVE n2 \notin Fresh(cs[c])
    <3>1. c \in 1 .. Len(cs)
      BY <2>2, <1>4 DEF Others
    <3>2. n \notin Fresh(cs[c])
      BY <3>1 DEF GraphInv, InsertionIsOpen
    <3>3. Fresh(cs[c]) \cap Own = {}
      BY <1>6, Hands
    <3>. QED
      BY <2>1, <3>2, <3>3
  <2>3. \A g : Idle(g) => Fresh(g) = {}
    BY DEF Idle
  <2>. QED
    BY <2>1, <2>2, <2>3, <1>7 DEF InsertionIsOpen
<1>15. \A b \in 1 .. Len(bs2) : b \in 1 .. Len(bs) \/ b \in NewIn(bs, bs2)
  BY <1>1 DEF NewIn
<1>16. \A c \in 1 .. Len(cs) : c \in Others \/ c = Len(cs)
  BY DEF Others
<1>17. Idle(f) => Loose(f) = {} /\ Unlinked(f) = {}
  BY Hands DEF Idle
<1>18. AttachedOrLoose(bs2, cs2)
  <2> SUFFICES ASSUME NEW b \in 1 .. Len(bs2), ~bs2[b].attached
               PROVE  \E c \in 1 .. Len(cs2) : b \in Loose(cs2[c])
    BY DEF AttachedOrLoose
  <2>1. CASE b \in Loose(f)
    BY <2>1, <1>9, <1>17
  <2>2. CASE b \notin Loose(f)
    <3>1. b \notin Loose(t) /\ b \notin NewIn(bs, bs2)
      BY <2>2 DEF HandsOver, t
    <3>2. b \in 1 .. Len(bs) /\ ~bs[b].attached
      BY <3>1, <1>15 DEF HandsOver
    <3>3. PICK c \in 1 .. Len(cs) : b \in Loose(cs[c])
      BY <3>2 DEF GraphInv, AttachedOrLoose
    <3>4. c \in Others
      BY <3>1, <3>3, <1>16 DEF t
    <3>. QED
      BY <3>3, <3>4, <1>8
  <2>. QED
    BY <2>1, <2>2
<1>19. ReachedOrUnlinked(bs2, cs2)
  <2>1. Reached(bs, n)
    <3>1. \A c \in 1 .. Len(cs) : n \notin Unlinked(cs[c])
      BY Hands DEF GraphInv, InsertionIsOpen
    <3>. QED
      BY <3>1, <1>2 DEF GraphInv, ReachedOrUnlinked
  <2>2. EdgesInside(bs) /\ Len(bs) >= 1
    BY <1>1, <1>2 DEF GraphInv
  <2> SUFFICES ASSUME NEW b \in 1 .. Len(bs2), ~Reached(bs2, b)
               PROVE  \E c \in 1 .. Len(cs2) : b \in Unlinked(cs2[c])
    BY DEF ReachedOrUnlinked
  <2>3. b \notin T
    BY <2>1, <2>2, <1>2, <1>3, Reached_Target
  <2>4. CASE b \in Unlinked(f)
    BY <2>4, <1>9, <1>17
  <2>5. CASE b \notin Unlinked(f)
    <3>1. b \notin Unlinked(t) /\ b \notin NewIn(bs, bs2)
      BY <2>3, <2>5 DEF HandsOver, t
    <3>2. b \in 1 .. Len(bs)
      BY <3>1, <1>15
    <3>3. ~Reached(bs, b)
      BY <3>2, <2>2, <1>2, <1>3, Reached_Grows
    <3>4. PICK c \in 1 .. Len(cs) : b \in Unlinked(cs[c])
      BY <3>2, <3>3 DEF GraphInv, ReachedOrUnlinked
    <3>5. c \in Others
      BY <3>1, <3>4, <1>16 DEF t
    <3>. QED
      BY <3>4, <3>5, <1>8
  <2>. QED
    BY <2>4, <2>5
<1>20. PhisAreComplete(bs2)
  <2> SUFFICES ASSUME NEW b \in 1 .. Len(bs2), NEW from \in Phis(bs2, b)
               PROVE  /\ {e[1] : e \in from} = Into(bs2, b)
                      /\ Cardinality(from) = Cardinality(Into(bs2, b))
    BY DEF PhisAreComplete
  <2>1. CASE b \in P
    BY <2>1 DEF HandsOver
  <2>2. CASE b \notin P
    <3>1. b \in 1 .. Len(bs)
      BY <1>3, <1>15 DEF Grows, NewIn
    <3>2. from \in Phis(bs, b)
      BY <2>2, <3>1 DEF HandsOver
    <3>3. /\ {e[1] : e \in from} = Into(bs, b)
          /\ Cardinality(from) = Cardinality(Into(bs, b))
      BY <3>1, <3>2 DEF GraphInv, PhisAreComplete
    <3>4. b \notin T
      <4>1. b \notin NewIn(bs, bs2)
        BY <3>1, <1>1 DEF NewIn
      <4>2. b \notin Mine(t)
        BY <3>2, <1>5 DEF FrameIsSound
      <4>. QED
        BY <4>1, <4>2, <1>3 DEF Own
    <3>5. Into(bs2, b) = Into(bs, b)
      BY <3>4, <1>2, <1>3, Into_Grows
    <3>. QED
      BY <3>3, <3>5
  <2>. QED
    BY <2>1, <2>2
<1>. QED
  BY <1>11, <1>12, <1>13, <1>14, <1>18, <1>19, <1>20 DEF GraphInv

-----------------------------------------------------------------------------
(***************************************************************************)
(* The instructions the generator emits.                                   *)
(***************************************************************************)
LEMMA Instructions ==
  /\ \A v \in Var : [op |-> "load", var |-> v] \in Instruction
  /\ \A v \in Var, a \in Values : [op |-> "store", var |-> v, arg |-> a] \in Instruction
  /\ \A a \in Values : [op |-> "print", arg |-> a] \in Instruction
                       /\ [op |-> "ret", arg |-> a] \in Instruction
  /\ \A a \in Values, b \in Values :
       /\ [op |-> "add", lhs |-> a, rhs |-> b] \in Instruction
       /\ [op |-> "slt", lhs |-> a, rhs |-> b] \in Instruction
       /\ [op |-> "eq", lhs |-> a, rhs |-> b] \in Instruction
  /\ \A b \in Nat : Br(b) \in Instruction
  /\ \A a \in Values, b \in Nat, c \in Nat : CondBr(a, b, c) \in Instruction
  /\ \A from \in (SUBSET (Nat \X Values)) \ {{}} : [op |-> "phi", from |-> from] \in Instruction
BY DEF Instruction, Br, CondBr

LEMMA Instruction_Targets ==
  /\ \A i : i.op \notin {"br", "condbr"} => Targets(i) = {}
  /\ \A b : Targets(Br(b)) = {b} /\ Br(b).op = "br"
  /\ \A a, b, c : Targets(CondBr(a, b, c)) = {b, c} /\ CondBr(a, b, c).op = "condbr"
<1>1. \A i : i.op \notin {"br", "condbr"} => Targets(i) = {}
  BY DEF Targets
<1>2. \A b : Targets(Br(b)) = {b} /\ Br(b).op = "br"
  BY DEF Targets, Br
<1>3. \A a, b, c : Targets(CondBr(a, b, c)) = {b, c} /\ CondBr(a, b, c).op = "condbr"
  BY DEF Targets, CondBr
<1>. QED
  BY <1>1, <1>2, <1>3

LEMMA Operand_Values ==
  /\ NoValue \in Values
  /\ \A ty \in Integer \cup {"double"}, n \in Int : Const(ty, n) \in Values
  /\ \A ty \in Integer \cup {"double"}, b \in Nat, i \in Nat : Reg(ty, <<b, i>>) \in Values
  /\ \A v \in Values : v.ty \in Integer \cup {"double"} /\ v.n \in Int /\ v.place \in Nat \X Nat
<1>1. /\ \A ty \in Integer \cup {"double"}, n \in Int : Const(ty, n) \in Values
      /\ \A ty \in Integer \cup {"double"}, b \in Nat, i \in Nat : Reg(ty, <<b, i>>) \in Values
      /\ \A v \in Values : v.ty \in Integer \cup {"double"} /\ v.n \in Int /\ v.place \in Nat \X Nat
  BY DEF Values, Const, Reg
<1>2. "i32" \in Integer \cup {"double"} /\ 0 \in Int
  BY DEF Integer
<1>. QED
  BY <1>1, <1>2 DEF NoValue

-----------------------------------------------------------------------------
(***************************************************************************)
(* The stack of the generator.                                             *)
(***************************************************************************)
NextFrame(t, kept, at) == [node |-> t.node, stage |-> t.stage + 1, kept |-> kept, at |-> at]

(* The frame of a call above the caller's, which has become f. *)
Pushed(cs, f, g) == Append([cs EXCEPT ![Len(cs)] = f], g)

LEMMA Frame_Idle ==
  ASSUME NEW t \in Node
  PROVE  /\ Frame(t) \in Activation
         /\ Idle(Frame(t))
         /\ \A bs : HoldsBlocks(bs, Frame(t))
<1>1. Frame(t).stage = 1 /\ Frame(t).at = <<>>
  BY DEF Frame
<1>2. \A S : <<>> \in Seq(S)
  OBVIOUS
<1>3. Frame(t) \in Activation
  BY <1>2, Operand_Values DEF Frame, Activation
<1>4. Idle(Frame(t))
  BY <1>1 DEF Idle, Fresh, Mine, IfAt, LoopAt
<1>5. \A bs : HoldsBlocks(bs, Frame(t))
  BY <1>1, <1>2 DEF HoldsBlocks, IfAt, LoopAt
<1>. QED
  BY <1>3, <1>4, <1>5

LEMMA HoldsBlocks_Longer ==
  ASSUME NEW bs, NEW bs2, Len(bs) \in Nat, Len(bs2) \in Nat, Len(bs2) >= Len(bs),
         NEW f, HoldsBlocks(bs, f)
  PROVE  HoldsBlocks(bs2, f)
<1>1. \A s \in Seq(1 .. Len(bs)) : s \in Seq(1 .. Len(bs2))
  OBVIOUS
<1>. QED
  BY <1>1 DEF HoldsBlocks

LEMMA Stack_Call ==
  ASSUME NEW cs \in Seq(Activation), Len(cs) # 0,
         NEW bs, NEW bs2, Len(bs) \in Nat, Len(bs2) \in Nat, Len(bs2) >= Len(bs),
         FramesHoldBlocks(bs, cs),
         NEW child \in Node, NEW kept \in Values, NEW at,
         cs[Len(cs)].stage \in 1 .. 3,
         HoldsBlocks(bs2, NextFrame(cs[Len(cs)], kept, at)),
         NEW cs2,
         cs2 = Pushed(cs, NextFrame(cs[Len(cs)], kept, at), Frame(child))
  PROVE  /\ cs2 \in Seq(Activation)
         /\ FramesHoldBlocks(bs2, cs2)
         /\ Moves(cs, cs2, NextFrame(cs[Len(cs)], kept, at))
<1> DEFINE A == Activation
           f == NextFrame(cs[Len(cs)], kept, at)
           g == Frame(child)
<1>1. cs \in Seq(A) /\ Len(cs) \in Nat \ {0} /\ Len(cs) \in 1 .. Len(cs)
  OBVIOUS
<1>2. cs[Len(cs)] \in A
  BY <1>1
<1>3. f \in A
  <2>1. at \in Seq(1 .. Len(bs2))
    BY DEF HoldsBlocks, NextFrame
  <2>2. at \in Seq(Nat)
    BY <2>1
  <2>3. cs[Len(cs)].node \in Node /\ cs[Len(cs)].stage + 1 \in 1 .. 4
    BY <1>2 DEF Activation
  <2>. QED
    BY <2>2, <2>3 DEF NextFrame, Activation
<1>4. cs2 = Append([cs EXCEPT ![Len(cs)] = f], g)
  BY DEF Pushed
<1>5. g \in A /\ Idle(g) /\ HoldsBlocks(bs2, g)
  BY Frame_Idle
<1>6. HoldsBlocks(bs2, f)
  OBVIOUS
<1> HIDE DEF A, f, g
<1> DEFINE mid == [cs EXCEPT ![Len(cs)] = f]
<1>11. /\ mid \in Seq(A) /\ Len(mid) = Len(cs)
       /\ \A c \in 1 .. Len(cs) : mid[c] = IF c = Len(cs) THEN f ELSE cs[c]
  BY <1>1, <1>3
<1> HIDE DEF mid
<1>7. /\ cs2 \in Seq(A)
      /\ Len(cs2) = Len(cs) + 1
      /\ \A c \in 1 .. Len(cs) - 1 : cs2[c] = cs[c]
      /\ cs2[Len(cs)] = f
      /\ cs2[Len(cs) + 1] = g
  <2>1. cs2 = Append(mid, g)
    BY <1>4 DEF mid
  <2>2. /\ cs2 \in Seq(A)
        /\ Len(cs2) = Len(cs) + 1
        /\ \A c \in 1 .. Len(cs) : cs2[c] = mid[c]
        /\ cs2[Len(cs) + 1] = g
    BY <1>1, <1>5, <1>11, <2>1
  <2>. QED
    BY <1>1, <1>11, <2>2
<1>8. \A c \in 1 .. Len(cs2) : c \in 1 .. Len(cs) - 1 \/ c = Len(cs) \/ c = Len(cs) + 1
  BY <1>1, <1>7
<1>9. FramesHoldBlocks(bs2, cs2)
  <2>1. \A c \in 1 .. Len(cs) - 1 : HoldsBlocks(bs2, cs[c])
    BY <1>1, HoldsBlocks_Longer DEF FramesHoldBlocks
  <2>. QED
    BY <2>1, <1>5, <1>6, <1>7, <1>8 DEF FramesHoldBlocks
<1>10. Moves(cs, cs2, f)
  <2>1. \A c \in 1 .. Len(cs) - 1 : c \in 1 .. Len(cs2) /\ cs2[c] = cs[c]
    BY <1>1, <1>7
  <2>2. \A c \in 1 .. Len(cs2) : c >= Len(cs) => Idle(cs2[c]) \/ (c = Len(cs) /\ cs2[c] = f)
    BY <1>1, <1>5, <1>7
  <2>3. Len(cs) \in 1 .. Len(cs2) /\ cs2[Len(cs)] = f
    BY <1>1, <1>7
  <2>. QED
    BY <2>1, <2>2, <2>3 DEF Moves
<1>. QED
  BY <1>7, <1>9, <1>10 DEF A, f

LEMMA Stack_Return ==
  ASSUME NEW cs \in Seq(Activation), Len(cs) # 0,
         NEW bs, NEW bs2, Len(bs) \in Nat, Len(bs2) \in Nat, Len(bs2) >= Len(bs),
         FramesHoldBlocks(bs, cs),
         NEW cs2, cs2 = SubSeq(cs, 1, Len(cs) - 1)
  PROVE  /\ cs2 \in Seq(Activation)
         /\ FramesHoldBlocks(bs2, cs2)
         /\ Moves(cs, cs2, Frame(cs[Len(cs)].node))
         /\ Idle(Frame(cs[Len(cs)].node))
<1> DEFINE A == Activation
<1>1. cs \in Seq(A) /\ Len(cs) \in Nat \ {0} /\ cs[Len(cs)] \in A
  OBVIOUS
<1>2. cs[Len(cs)].node \in Node
  BY <1>1 DEF Activation
<1>3. Idle(Frame(cs[Len(cs)].node))
  BY <1>2, Frame_Idle
<1> HIDE DEF A
<1>4. /\ cs2 \in Seq(A)
      /\ Len(cs2) = Len(cs) - 1
      /\ \A c \in 1 .. Len(cs) - 1 : cs2[c] = cs[c]
  <2> DEFINE k == Len(cs) - 1
  <2>1. k \in Int /\ 1 \in Int /\ \A c \in 1 .. k : cs[c] \in A
    BY <1>1
  <2>2. /\ SubSeq(cs, 1, k) \in Seq(A)
        /\ Len(SubSeq(cs, 1, k)) = IF 1 <= k THEN k - 1 + 1 ELSE 0
        /\ \A c \in 1 .. k - 1 + 1 : SubSeq(cs, 1, k)[c] = cs[1 + c - 1]
    <3> HIDE DEF k
    <3>. QED
      BY <2>1, SubSeqProperties
  <2>3. k \in Nat /\ (IF 1 <= k THEN k - 1 + 1 ELSE 0) = k /\ k - 1 + 1 = k
    <3>1. k \in Nat
      BY <1>1
    <3>2. \A m \in Nat : (IF 1 <= m THEN m - 1 + 1 ELSE 0) = m /\ m - 1 + 1 = m
      <4>1. \A m \in Nat : m - 1 + 1 = m /\ (~(1 <= m) => m = 0)
        OBVIOUS
      <4>. QED
        BY <4>1
    <3> HIDE DEF k
    <3>. QED
      BY <3>1, <3>2
  <2>4. cs2 = SubSeq(cs, 1, k)
    OBVIOUS
  <2> HIDE DEF k
  <2>5. \A c \in 1 .. k : cs2[c] = cs[c]
    <3>1. \A c \in 1 .. k : 1 + c - 1 = c
      BY <2>3
    <3>. QED
      BY <2>2, <2>3, <2>4, <3>1
  <2>. QED
    BY <2>2, <2>3, <2>4, <2>5 DEF k
<1>5. FramesHoldBlocks(bs2, cs2)
  BY <1>1, <1>4, HoldsBlocks_Longer DEF FramesHoldBlocks
<1>6. Moves(cs, cs2, Frame(cs[Len(cs)].node))
  BY <1>1, <1>3, <1>4 DEF Moves
<1>. QED
  BY <1>3, <1>4, <1>5, <1>6 DEF A

-----------------------------------------------------------------------------
(***************************************************************************)
(* Steps of the generator that branch nowhere.                             *)
(***************************************************************************)
LEMMA At_Facts ==
  ASSUME GenInv, NEW ops, NEW s, At(ops, s)
  PROVE  /\ Len(calls) \in Nat \ {0} /\ top = calls[Len(calls)]
         /\ calls \in Seq(Activation) /\ blocks \in Seq(BasicBlock) /\ body \in Node
         /\ top \in Activation /\ top.stage = s /\ top.kept \in Values
         /\ node = top.node /\ node \in Node /\ node.op \in ops
         /\ HoldsBlocks(blocks, top) /\ FrameIsSound(blocks, top)
         /\ FramesHoldBlocks(blocks, calls) /\ GraphInv(blocks, calls, ins)
         /\ ins \in 1 .. Len(blocks) /\ Len(blocks) \in Nat /\ ret \in Values
<1> DEFINE A == Activation
<1>1. calls \in Seq(A) /\ calls # <<>> /\ top = calls[Len(calls)] /\ node = top.node
  BY DEF GenInv, Shapes, At, top, node
<1> HIDE DEF A
<1>2. Len(calls) \in Nat \ {0} /\ Len(calls) \in 1 .. Len(calls) /\ top \in A
  BY <1>1
<1>3. top.kept \in Values /\ top.node \in Node
  BY <1>2 DEF A, Activation
<1>4. HoldsBlocks(blocks, top) /\ FrameIsSound(blocks, top)
  BY <1>1, <1>2 DEF GenInv, Shapes, FramesHoldBlocks, GraphInv, FramesAreSound
<1>5. blocks \in Seq(BasicBlock) /\ ins \in 1 .. Len(blocks) /\ Len(blocks) \in Nat
      /\ ret \in Values /\ body \in Node /\ FramesHoldBlocks(blocks, calls)
      /\ GraphInv(blocks, calls, ins)
  BY DEF GenInv, Shapes
<1>6. top.stage = s /\ node.op \in ops
  BY DEF At
<1>. QED
  BY <1>1, <1>2, <1>3, <1>4, <1>5, <1>6 DEF A

LEMMA Quiet_Graph ==
  ASSUME NEW bs \in Seq(BasicBlock), NEW bs2 \in Seq(BasicBlock),
         NEW cs, NEW cs2, Len(cs) \in Nat \ {0}, Len(cs2) \in Nat,
         NEW n, NEW f, GraphInv(bs, cs, n), Moves(cs, cs2, f),
         Idle(cs[Len(cs)]), Idle(f), Len(bs2) = Len(bs),
         \A b \in 1 .. Len(bs) : /\ After(bs2, b) = After(bs, b)
                                 /\ Phis(bs2, b) = Phis(bs, b)
                                 /\ bs[b].attached => bs2[b].attached
  PROVE  GraphInv(bs2, cs2, n)
<1> DEFINE t == cs[Len(cs)]
<1>1. Len(bs) \in Nat /\ NewIn(bs, bs2) = {}
  BY DEF NewIn
<1>2. Loose(t) = {} /\ Unlinked(t) = {} /\ Mine(t) = {} /\ Mine(f) = {} /\ Fresh(f) = {}
  BY Hands DEF Idle
<1>3. n \in 1 .. Len(bs) /\ After(bs, n) = {}
  BY DEF GraphInv, InsertionIsOpen
<1>4. Grows(bs, bs2, n, {})
  BY <1>1 DEF Grows
<1>5. FrameIsSound(bs2, f)
  BY Idle_Sound
<1>6. HandsOver(bs, bs2, t, f, {}, {}, n, n)
  BY <1>1, <1>2, <1>3, <1>4, <1>5 DEF HandsOver
<1>. QED
  BY <1>6, Graph_Step

SameGraph(bs, bs2) ==
  /\ bs2 \in Seq(BasicBlock) /\ Len(bs2) = Len(bs)
  /\ \A b \in 1 .. Len(bs) : /\ After(bs2, b) = After(bs, b)
                             /\ Phis(bs2, b) = Phis(bs, b)
                             /\ bs[b].attached => bs2[b].attached

LEMMA Quiet_Emit ==
  ASSUME NEW bs \in Seq(BasicBlock), NEW b \in 1 .. Len(bs), NEW i \in Instruction,
         i.op \notin {"br", "condbr", "phi"}
  PROVE  SameGraph(bs, Emit(bs, b, i))
<1>1. Targets(i) = {} /\ i.op # "phi"
  BY Instruction_Targets
<1>2. \A c \in 1 .. Len(bs) : /\ After(Emit(bs, b, i), c) = After(bs, c)
                              /\ Phis(Emit(bs, b, i), c) = Phis(bs, c)
  <2> TAKE c \in 1 .. Len(bs)
  <2>1. After(Emit(bs, b, i), c) = IF c = b THEN After(bs, c) \cup Targets(i) ELSE After(bs, c)
    BY Emit_After
  <2>2. Phis(Emit(bs, b, i), c) =
          IF c = b /\ i.op = "phi" THEN Phis(bs, c) \cup {i.from} ELSE Phis(bs, c)
    BY Emit_Phis
  <2>. QED
    BY <1>1, <2>1, <2>2
<1>3. /\ Emit(bs, b, i) \in Seq(BasicBlock) /\ Len(Emit(bs, b, i)) = Len(bs)
      /\ \A c \in 1 .. Len(bs) : Emit(bs, b, i)[c].attached = bs[c].attached
  BY Emit_Blocks
<1>. QED
  BY <1>2, <1>3 DEF SameGraph

LEMMA Quiet_Call ==
  ASSUME GenInv, NEW ops, NEW s \in 1 .. 3, At(ops, s),
         NEW child \in Node, NEW kept \in Values, NEW at,
         CallKeeping(child, kept, at),
         Idle(top), Idle(NextFrame(top, kept, at)),
         HoldsBlocks(blocks, NextFrame(top, kept, at)),
         UNCHANGED <<body, ret, blocks, ins>>
  PROVE  GenInv'
<1> DEFINE f == NextFrame(top, kept, at)
<1>1. /\ Len(calls) \in Nat \ {0} /\ top = calls[Len(calls)]
      /\ calls \in Seq(Activation) /\ blocks \in Seq(BasicBlock) /\ body \in Node
      /\ FramesHoldBlocks(blocks, calls) /\ GraphInv(blocks, calls, ins)
      /\ ins \in 1 .. Len(blocks) /\ Len(blocks) \in Nat /\ ret \in Values
      /\ top.stage = s /\ node = top.node
  BY At_Facts
<1>2. calls' = Pushed(calls, NextFrame(calls[Len(calls)], kept, at), Frame(child))
  BY <1>1 DEF CallKeeping, NextStage, NextFrame, Pushed
<1>9. /\ f = NextFrame(calls[Len(calls)], kept, at)
      /\ HoldsBlocks(blocks, NextFrame(calls[Len(calls)], kept, at))
      /\ calls[Len(calls)].stage \in 1 .. 3 /\ Len(calls) # 0 /\ Len(blocks) >= Len(blocks)
  BY <1>1
<1> HIDE DEF f
<1>3. calls' \in Seq(Activation) /\ FramesHoldBlocks(blocks, calls') /\ Moves(calls, calls', f)
  BY <1>1, <1>2, <1>9, Stack_Call
<1>4. Len(calls') \in Nat
  BY <1>3
<1>5. GraphInv(blocks, calls', ins)
  BY <1>1, <1>3, <1>4, Quiet_Graph DEF f
<1>6. blocks' = blocks /\ ins' = ins /\ ret' = ret /\ body' = body
  OBVIOUS
<1>7. Shapes'
  <2>1. FramesHoldBlocks(blocks', calls')
    BY <1>3, <1>6
  <2>. QED
    BY <1>1, <1>3, <1>6, <2>1 DEF Shapes
<1>8. GraphInv(blocks', calls', ins')
  BY <1>5, <1>6
<1>. QED
  BY <1>7, <1>8 DEF GenInv

LEMMA Quiet_Return ==
  ASSUME GenInv, NEW ops, NEW s, At(ops, s), Idle(top),
         NEW value \in Values, Return(value),
         \/ blocks' = blocks
         \/ \E b \in 1 .. Len(blocks), i \in Instruction :
              i.op \notin {"br", "condbr", "phi"} /\ blocks' = Emit(blocks, b, i),
         UNCHANGED <<body, ins>>
  PROVE  GenInv'
<1> DEFINE f == Frame(calls[Len(calls)].node)
<1>1. /\ Len(calls) \in Nat \ {0} /\ top = calls[Len(calls)]
      /\ calls \in Seq(Activation) /\ blocks \in Seq(BasicBlock) /\ body \in Node
      /\ FramesHoldBlocks(blocks, calls) /\ GraphInv(blocks, calls, ins)
      /\ ins \in 1 .. Len(blocks) /\ Len(blocks) \in Nat /\ ret \in Values
  BY At_Facts
<1>2. SameGraph(blocks, blocks')
  BY <1>1, Quiet_Emit DEF SameGraph
<1>10. blocks' \in Seq(BasicBlock) /\ Len(blocks') = Len(blocks)
  BY <1>2 DEF SameGraph
<1>3. calls' = SubSeq(calls, 1, Len(calls) - 1) /\ ret' = value /\ body' = body /\ ins' = ins
  BY DEF Return
<1>4. Len(blocks') \in Nat /\ Len(blocks') >= Len(blocks) /\ Len(calls) # 0
  BY <1>1, <1>10
<1>5. /\ calls' \in Seq(Activation) /\ FramesHoldBlocks(blocks', calls')
      /\ Moves(calls, calls', f) /\ Idle(f)
  BY <1>1, <1>3, <1>4, Stack_Return
<1>6. Len(calls') \in Nat
  BY <1>5
<1>7. GraphInv(blocks', calls', ins)
  BY <1>1, <1>2, <1>5, <1>6, Quiet_Graph DEF SameGraph
<1>8. Shapes'
  BY <1>1, <1>3, <1>5, <1>10 DEF Shapes
<1>9. GraphInv(blocks', calls', ins')
  BY <1>7, <1>3
<1>. QED
  BY <1>8, <1>9 DEF GenInv

LEMMA Gen_Unchanged ==
  ASSUME GenInv, UNCHANGED <<body, gen>>
  PROVE  GenInv'
<1>1. blocks' = blocks /\ calls' = calls /\ ins' = ins /\ ret' = ret /\ body' = body
  BY DEF gen
<1>2. GraphInv(blocks', calls', ins')
  BY <1>1 DEF GenInv
<1>3. Shapes'
  <2>1. FramesHoldBlocks(blocks', calls')
    BY <1>1 DEF GenInv, Shapes
  <2>. QED
    BY <1>1, <2>1 DEF GenInv, Shapes
<1>. QED
  BY <1>2, <1>3 DEF GenInv

LEMMA Node_Parts ==
  /\ body \in Bodies => body \in Node
  /\ \A t \in Node :
       /\ t.op = "VALUEDATA" => t.ty \in {"i32", "double"} /\ t.val \in Int
       /\ t.op = "GET_VAR" => t.sym \in Var
       /\ t.op = "SET_VAR" => t.sym \in Var /\ t.left \in Node
       /\ t.op = "PRINTDATA" => t.left \in Node
       /\ t.op \in {"ADD", "CMP_SMALLER", "SEQ"} => t.left \in Node /\ t.right \in Node
       /\ t.op = "IF_STMT" => t.condition \in Node /\ t.left \in Node /\ t.right \in Node
       /\ t.op = "WHILE_STMT" => t.condition \in Node /\ t.left \in Node
<1>1. body \in Bodies => body \in Node
  BY NodeAssumption
<1>2. ASSUME NEW t \in Node
      PROVE  /\ t.op = "VALUEDATA" => t.ty \in {"i32", "double"} /\ t.val \in Int
             /\ t.op = "GET_VAR" => t.sym \in Var
             /\ t.op = "SET_VAR" => t.sym \in Var /\ t.left \in Node
             /\ t.op = "PRINTDATA" => t.left \in Node
             /\ t.op \in {"ADD", "CMP_SMALLER", "SEQ"} => t.left \in Node /\ t.right \in Node
             /\ t.op = "IF_STMT" => t.condition \in Node /\ t.left \in Node /\ t.right \in Node
             /\ t.op = "WHILE_STMT" => t.condition \in Node /\ t.left \in Node
  BY NodeAssumption
<1>. QED
  BY <1>1, <1>2

LEMMA Idle_Frames ==
  ASSUME NEW f,
         \/ f.node.op \notin {"IF_STMT", "WHILE_STMT"}
         \/ f.node.op = "IF_STMT" /\ f.stage \in 1 .. 2
         \/ f.stage = 1
  PROVE  Idle(f)
BY DEF Idle, Fresh, Mine, IfAt, LoopAt

LEMMA Place_Values ==
  ASSUME blocks \in Seq(BasicBlock), NEW b \in 1 .. Len(blocks),
         NEW ty \in Integer \cup {"double"}
  PROVE  Reg(ty, Place(b)) \in Values
<1>1. blocks[b].code \in Seq(Instruction) /\ Len(blocks) \in Nat
  BY Block_Shape
<1>2. b \in Nat /\ Len(blocks[b].code) + 1 \in Nat
  BY <1>1
<1>. QED
  BY <1>2, Operand_Values DEF Place

LEMMA Int_Types == {"i1", "i32", "double"} = Integer \cup {"double"}
BY DEF Integer

LEMMA Value_Step ==
  ASSUME GenInv, eval_node_value_codegen, UNCHANGED body
  PROVE  GenInv'
<1>1. At({"VALUEDATA"}, 1)
  BY DEF eval_node_value_codegen
<1>2. node \in Node /\ node.op = "VALUEDATA" /\ node = top.node
  BY <1>1, At_Facts
<1>3. Const(node.ty, node.val) \in Values
  BY <1>2, Node_Parts, Operand_Values, Int_Types
<1>4. Idle(top)
  BY <1>2, Idle_Frames
<1>5. Return(Const(node.ty, node.val)) /\ blocks' = blocks /\ UNCHANGED <<body, ins>>
  BY DEF eval_node_value_codegen
<1>. QED
  BY <1>1, <1>3, <1>4, <1>5, Quiet_Return

LEMMA GetVar_Step ==
  ASSUME GenInv, exec_get_var_codegen, UNCHANGED body
  PROVE  GenInv'
<1> DEFINE i == [op |-> "load", var |-> node.sym]
<1>1. At({"GET_VAR"}, 1)
  BY DEF exec_get_var_codegen
<1>2. /\ node \in Node /\ node.op = "GET_VAR" /\ node = top.node
      /\ blocks \in Seq(BasicBlock) /\ ins \in 1 .. Len(blocks)
  BY <1>1, At_Facts
<1>3. i \in Instruction /\ i.op \notin {"br", "condbr", "phi"}
  BY <1>2, Node_Parts, Instructions
<1>4. Idle(top)
  BY <1>2, Idle_Frames
<1>5. Reg("i32", Place(ins)) \in Values
  BY <1>2, Place_Values, Int_Types
<1>6. Return(Reg("i32", Place(ins))) /\ blocks' = Emit(blocks, ins, i) /\ UNCHANGED <<body, ins>>
  BY DEF exec_get_var_codegen
<1> HIDE DEF i
<1>. QED
  BY <1>1, <1>2, <1>3, <1>4, <1>5, <1>6, Quiet_Return

LEMMA Operand_Step ==
  ASSUME GenInv, exec_operand, UNCHANGED body
  PROVE  GenInv'
<1> DEFINE ops == {"SET_VAR", "PRINTDATA", "CMP_SMALLER", "SEQ"}
           f == NextFrame(top, top.kept, top.at)
<1>1. At(ops, 1)
  BY DEF exec_operand
<1>2. /\ node \in Node /\ node.op \in ops /\ node = top.node /\ top.stage = 1
      /\ top.kept \in Values /\ HoldsBlocks(blocks, top)
  BY <1>1, At_Facts
<1>3. node.left \in Node
  BY <1>2, Node_Parts
<1>4. f.node = top.node /\ f.at = top.at
  BY DEF NextFrame
<1>5. Idle(top) /\ Idle(f)
  BY <1>2, <1>4, Idle_Frames
<1>6. HoldsBlocks(blocks, f)
  BY <1>2, <1>4 DEF HoldsBlocks, IfAt, LoopAt
<1>7. CallKeeping(node.left, top.kept, top.at) /\ UNCHANGED <<body, ret, blocks, ins>>
  BY DEF exec_operand, Call
<1>8. 1 \in 1 .. 3
  OBVIOUS
<1> HIDE DEF ops
<1>. QED
  BY <1>1, <1>2, <1>3, <1>5, <1>6, <1>7, <1>8, Quiet_Call

LEMMA SetVar_Step ==
  ASSUME GenInv, exec_set_var_codegen, UNCHANGED body
  PROVE  GenInv'
<1> DEFINE i == [op |-> "store", var |-> node.sym, arg |-> ret]
<1>1. At({"SET_VAR"}, 2)
  BY DEF exec_set_var_codegen
<1>2. /\ node \in Node /\ node.op = "SET_VAR" /\ node = top.node
      /\ blocks \in Seq(BasicBlock) /\ ins \in 1 .. Len(blocks) /\ ret \in Values
  BY <1>1, At_Facts
<1>3. CASE ret.ty # "i32"
  BY <1>3, Gen_Unchanged DEF exec_set_var_codegen, Malformed
<1>4. CASE ret.ty = "i32"
  <2>1. i \in Instruction /\ i.op \notin {"br", "condbr", "phi"}
    BY <1>2, Node_Parts, Instructions
  <2>2. Idle(top)
    BY <1>2, Idle_Frames
  <2>3. Return(ret) /\ blocks' = Emit(blocks, ins, i) /\ UNCHANGED <<body, ins>>
    BY <1>4 DEF exec_set_var_codegen
  <2> HIDE DEF i
  <2>. QED
    BY <1>1, <1>2, <2>1, <2>2, <2>3, Quiet_Return
<1>. QED
  BY <1>3, <1>4

LEMMA Print_Step ==
  ASSUME GenInv, exec_print_codegen, UNCHANGED body
  PROVE  GenInv'
<1> DEFINE i == [op |-> "print", arg |-> ret]
<1>1. At({"PRINTDATA"}, 2)
  BY DEF exec_print_codegen
<1>2. /\ node.op = "PRINTDATA" /\ node = top.node
      /\ blocks \in Seq(BasicBlock) /\ ins \in 1 .. Len(blocks) /\ ret \in Values
  BY <1>1, At_Facts
<1>3. i \in Instruction /\ i.op \notin {"br", "condbr", "phi"}
  BY <1>2, Instructions
<1>4. Idle(top)
  BY <1>2, Idle_Frames
<1>5. Reg("i32", Place(ins)) \in Values
  BY <1>2, Place_Values, Int_Types
<1>6. Return(Reg("i32", Place(ins))) /\ blocks' = Emit(blocks, ins, i) /\ UNCHANGED <<body, ins>>
  BY DEF exec_print_codegen
<1> HIDE DEF i
<1>. QED
  BY <1>1, <1>2, <1>3, <1>4, <1>5, <1>6, Quiet_Return

LEMMA Seq_Step ==
  ASSUME GenInv, exec_seq_codegen, UNCHANGED body
  PROVE  GenInv'
<1>1. CASE At({"SEQ"}, 2) /\ Call(node.right) /\ UNCHANGED ret
  <2> DEFINE f == NextFrame(top, top.kept, top.at)
  <2>1. At({"SEQ"}, 2)
    BY <1>1
  <2>2. /\ node \in Node /\ node.op = "SEQ" /\ node = top.node
        /\ top.kept \in Values /\ HoldsBlocks(blocks, top)
    BY <2>1, At_Facts
  <2>3. node.right \in Node
    BY <2>2, Node_Parts
  <2>4. f.node = top.node /\ f.at = top.at
    BY DEF NextFrame
  <2>5. Idle(top) /\ Idle(f)
    BY <2>2, <2>4, Idle_Frames
  <2>6. HoldsBlocks(blocks, f)
    BY <2>2, <2>4 DEF HoldsBlocks, IfAt, LoopAt
  <2>7. CallKeeping(node.right, top.kept, top.at) /\ UNCHANGED <<body, ret, blocks, ins>>
    BY <1>1 DEF exec_seq_codegen, Call
  <2>8. 2 \in 1 .. 3
    OBVIOUS
  <2>. QED
    BY <2>1, <2>2, <2>3, <2>5, <2>6, <2>7, <2>8, Quiet_Call
<1>2. CASE At({"SEQ"}, 3) /\ Return(ret)
  <2>1. At({"SEQ"}, 3)
    BY <1>2
  <2>2. node.op = "SEQ" /\ node = top.node /\ ret \in Values
    BY <2>1, At_Facts
  <2>3. Idle(top)
    BY <2>2, Idle_Frames
  <2>4. Return(ret) /\ blocks' = blocks /\ UNCHANGED <<body, ins>>
    BY <1>2 DEF exec_seq_codegen
  <2>. QED
    BY <2>1, <2>2, <2>3, <2>4, Quiet_Return
<1>. QED
  BY <1>1, <1>2 DEF exec_seq_codegen

LEMMA Cmp_Step ==
  ASSUME GenInv, exec_cmp_codegen, UNCHANGED body
  PROVE  GenInv'
<1>1. CASE At({"CMP_SMALLER"}, 2)
  <2> DEFINE f == NextFrame(top, ret, <<>>)
  <2>1. /\ node \in Node /\ node.op = "CMP_SMALLER" /\ node = top.node
        /\ top.stage = 2 /\ ret \in Values
    BY <1>1, At_Facts
  <2>2. node.right \in Node
    BY <2>1, Node_Parts
  <2>3. f.node = top.node /\ f.at = <<>>
    BY DEF NextFrame
  <2>4. Idle(top) /\ Idle(f)
    BY <2>1, <2>3, Idle_Frames
  <2>5. \A S : <<>> \in Seq(S)
    OBVIOUS
  <2>6. HoldsBlocks(blocks, f)
    BY <2>1, <2>3, <2>5 DEF HoldsBlocks, IfAt, LoopAt
  <2>7. ~At({"CMP_SMALLER"}, 3)
    BY <2>1 DEF At
  <2>8. CallKeeping(node.right, ret, <<>>) /\ UNCHANGED <<body, ret, blocks, ins>>
    BY <2>7 DEF exec_cmp_codegen
  <2>9. 2 \in 1 .. 3
    OBVIOUS
  <2>. QED
    BY <1>1, <2>1, <2>2, <2>4, <2>6, <2>8, <2>9, Quiet_Call
<1>2. CASE At({"CMP_SMALLER"}, 3)
  <2> DEFINE i == [op |-> "slt", lhs |-> top.kept, rhs |-> ret]
             c == Const("i1", Bit(Signed(Wrap(top.kept.n)) < Signed(Wrap(ret.n))))
  <2>1. /\ node.op = "CMP_SMALLER" /\ node = top.node /\ top.stage = 3
        /\ top.kept \in Values /\ ret \in Values
        /\ blocks \in Seq(BasicBlock) /\ ins \in 1 .. Len(blocks)
    BY <1>2, At_Facts
  <2>2. ~At({"CMP_SMALLER"}, 2)
    BY <2>1 DEF At
  <2>3. Idle(top)
    BY <2>1, Idle_Frames
  <2>4. i \in Instruction /\ i.op \notin {"br", "condbr", "phi"}
    BY <2>1, Instructions
  <2>5. c \in Values
    <3>1. \A x : Bit(x) \in Int
      BY DEF Bit
    <3>. QED
      BY <3>1, Operand_Values, Int_Types
  <2>6. Reg("i1", Place(ins)) \in Values
    BY <2>1, Place_Values, Int_Types
  <2> HIDE DEF i, c
  <2>7. CASE top.kept.ty # ret.ty \/ ret.ty \notin Integer
    BY <2>2, <2>7, Gen_Unchanged DEF exec_cmp_codegen, Malformed
  <2>8. CASE ~(top.kept.ty # ret.ty \/ ret.ty \notin Integer) /\ top.kept.const /\ ret.const
    <3>1. Return(c) /\ blocks' = blocks /\ UNCHANGED <<body, ins>>
      BY <2>2, <2>8 DEF exec_cmp_codegen, c
    <3>. QED
      BY <1>2, <2>1, <2>3, <2>5, <3>1, Quiet_Return
  <2>9. CASE ~(top.kept.ty # ret.ty \/ ret.ty \notin Integer) /\ ~(top.kept.const /\ ret.const)
    <3>1. Return(Reg("i1", Place(ins))) /\ blocks' = Emit(blocks, ins, i) /\ UNCHANGED <<body, ins>>
      BY <2>2, <2>9 DEF exec_cmp_codegen, i
    <3>. QED
      BY <1>2, <2>1, <2>3, <2>4, <2>6, <3>1, Quiet_Return
  <2>. QED
    BY <2>7, <2>8, <2>9
<1>. QED
  BY <1>1, <1>2 DEF exec_cmp_codegen

LEMMA Calc_Step ==
  ASSUME GenInv, exec_calc_codegen, UNCHANGED body
  PROVE  GenInv'
<1>1. CASE At({"ADD"}, 1)
  <2> DEFINE f == NextFrame(top, NoValue, <<ins>>)
  <2>1. /\ node \in Node /\ node.op = "ADD" /\ node = top.node /\ top.stage = 1
        /\ ins \in 1 .. Len(blocks)
    BY <1>1, At_Facts
  <2>2. node.left \in Node /\ NoValue \in Values
    BY <2>1, Node_Parts, Operand_Values
  <2>3. f.node = top.node /\ f.at = <<ins>>
    BY DEF NextFrame
  <2>4. Idle(top) /\ Idle(f)
    BY <2>1, <2>3, Idle_Frames
  <2>5. <<ins>> \in Seq(1 .. Len(blocks)) /\ Len(<<ins>>) = 1
    BY <2>1
  <2>6. HoldsBlocks(blocks, f)
    BY <2>1, <2>3, <2>5 DEF HoldsBlocks, IfAt, LoopAt
  <2>7. ~At({"ADD"}, 2) /\ ~At({"ADD"}, 3)
    BY <2>1 DEF At
  <2>8. CallKeeping(node.left, NoValue, <<ins>>) /\ UNCHANGED <<body, ret, blocks, ins>>
    BY <2>7 DEF exec_calc_codegen
  <2>9. 1 \in 1 .. 3
    OBVIOUS
  <2>. QED
    BY <1>1, <2>1, <2>2, <2>4, <2>6, <2>8, <2>9, Quiet_Call
<1>2. CASE At({"ADD"}, 2)
  <2> DEFINE f == NextFrame(top, ret, top.at)
  <2>1. /\ node \in Node /\ node.op = "ADD" /\ node = top.node /\ top.stage = 2
        /\ ret \in Values /\ HoldsBlocks(blocks, top)
    BY <1>2, At_Facts
  <2>2. node.right \in Node
    BY <2>1, Node_Parts
  <2>3. f.node = top.node /\ f.at = top.at
    BY DEF NextFrame
  <2>4. Idle(top) /\ Idle(f)
    BY <2>1, <2>3, Idle_Frames
  <2>5. top.at \in Seq(1 .. Len(blocks)) /\ Len(top.at) = 1
    BY <2>1 DEF HoldsBlocks
  <2>6. HoldsBlocks(blocks, f)
    BY <2>1, <2>3, <2>5 DEF HoldsBlocks, IfAt, LoopAt
  <2>7. ~At({"ADD"}, 1) /\ ~At({"ADD"}, 3)
    BY <2>1 DEF At
  <2>8. CallKeeping(node.right, ret, top.at) /\ UNCHANGED <<body, ret, blocks, ins>>
    BY <2>7 DEF exec_calc_codegen
  <2>9. 2 \in 1 .. 3
    OBVIOUS
  <2>. QED
    BY <1>2, <2>1, <2>2, <2>4, <2>6, <2>8, <2>9, Quiet_Call
<1>3. CASE At({"ADD"}, 3)
  <2> DEFINE i == [op |-> "add", lhs |-> top.kept, rhs |-> ret]
             b == top.at[1]
  <2>1. /\ node.op = "ADD" /\ node = top.node /\ top.stage = 3
        /\ top.kept \in Values /\ ret \in Values /\ HoldsBlocks(blocks, top)
        /\ blocks \in Seq(BasicBlock)
    BY <1>3, At_Facts
  <2>2. ~At({"ADD"}, 1) /\ ~At({"ADD"}, 2)
    BY <2>1 DEF At
  <2>3. Idle(top)
    BY <2>1, Idle_Frames
  <2>4. i \in Instruction /\ i.op \notin {"br", "condbr", "phi"}
    BY <2>1, Instructions
  <2>5. b \in 1 .. Len(blocks)
    <3>1. top.at \in Seq(1 .. Len(blocks)) /\ Len(top.at) = 1
      BY <2>1 DEF HoldsBlocks
    <3>. QED
      BY <3>1
  <2> HIDE DEF i, b
  <2>6. Reg(ret.ty, Place(b)) \in Values
    BY <2>1, <2>5, Place_Values, Operand_Values
  <2>7. CASE top.kept.ty # ret.ty
    BY <2>2, <2>7, Gen_Unchanged DEF exec_calc_codegen, Malformed
  <2>8. CASE top.kept.ty = ret.ty
    <3>1. Return(Reg(ret.ty, Place(b))) /\ blocks' = Emit(blocks, b, i) /\ UNCHANGED <<body, ins>>
      BY <2>2, <2>8 DEF exec_calc_codegen, CalcBlock, i, b
    <3>. QED
      BY <1>3, <2>3, <2>4, <2>5, <2>6, <3>1, Quiet_Return
  <2>. QED
    BY <2>7, <2>8
<1>. QED
  BY <1>1, <1>2, <1>3 DEF exec_calc_codegen

-----------------------------------------------------------------------------
(***************************************************************************)
(* Steps that branch.                                                      *)
(***************************************************************************)
LEMMA Growing_Call ==
  ASSUME GenInv, NEW ops, NEW s \in 1 .. 3, At(ops, s),
         NEW child \in Node, NEW kept \in Values, NEW at, NEW T,
         CallKeeping(child, kept, at),
         blocks' \in Seq(BasicBlock), Len(blocks') >= Len(blocks),
         HoldsBlocks(blocks', NextFrame(top, kept, at)),
         HandsOver(blocks, blocks', top, NextFrame(top, kept, at), T, {}, ins, ins'),
         UNCHANGED <<body, ret>>
  PROVE  GenInv'
<1>1. /\ Len(calls) \in Nat \ {0} /\ top = calls[Len(calls)]
      /\ calls \in Seq(Activation) /\ blocks \in Seq(BasicBlock) /\ body \in Node
      /\ FramesHoldBlocks(blocks, calls) /\ GraphInv(blocks, calls, ins)
      /\ Len(blocks) \in Nat /\ ret \in Values /\ top.stage = s /\ node = top.node
  BY At_Facts
<1>2. calls' = Pushed(calls, NextFrame(calls[Len(calls)], kept, at), Frame(child))
  BY <1>1 DEF CallKeeping, NextStage, NextFrame, Pushed
<1> DEFINE f == NextFrame(top, kept, at)
<1>3. /\ f = NextFrame(calls[Len(calls)], kept, at)
      /\ HoldsBlocks(blocks', NextFrame(calls[Len(calls)], kept, at))
      /\ calls[Len(calls)].stage \in 1 .. 3 /\ Len(calls) # 0 /\ Len(blocks') \in Nat
  BY <1>1
<1>4. HandsOver(blocks, blocks', calls[Len(calls)], f, T, {}, ins, ins')
  BY <1>1
<1> HIDE DEF f
<1>5. calls' \in Seq(Activation) /\ FramesHoldBlocks(blocks', calls') /\ Moves(calls, calls', f)
  BY <1>1, <1>2, <1>3, Stack_Call
<1>6. Len(calls') \in Nat
  BY <1>5
<1>7. GraphInv(blocks', calls', ins')
  BY <1>1, <1>4, <1>5, <1>6, Graph_Step
<1>8. ins' \in 1 .. Len(blocks')
  BY <1>4 DEF HandsOver
<1>9. Shapes'
  BY <1>1, <1>5, <1>8 DEF Shapes
<1>. QED
  BY <1>7, <1>9 DEF GenInv

LEMMA Growing_Return ==
  ASSUME GenInv, NEW ops, NEW s, At(ops, s),
         NEW value \in Values, NEW T, NEW P, Return(value),
         blocks' \in Seq(BasicBlock), Len(blocks') >= Len(blocks),
         HandsOver(blocks, blocks', top, Frame(node), T, P, ins, ins'),
         UNCHANGED body
  PROVE  GenInv'
<1>1. /\ Len(calls) \in Nat \ {0} /\ top = calls[Len(calls)]
      /\ calls \in Seq(Activation) /\ blocks \in Seq(BasicBlock) /\ body \in Node
      /\ FramesHoldBlocks(blocks, calls) /\ GraphInv(blocks, calls, ins)
      /\ Len(blocks) \in Nat /\ node = top.node
  BY At_Facts
<1>2. calls' = SubSeq(calls, 1, Len(calls) - 1) /\ ret' = value /\ body' = body
  BY DEF Return
<1> DEFINE f == Frame(calls[Len(calls)].node)
<1>3. Len(calls) # 0 /\ Len(blocks') \in Nat
  BY <1>1
<1>4. HandsOver(blocks, blocks', calls[Len(calls)], f, T, P, ins, ins')
  BY <1>1
<1>5. calls' \in Seq(Activation) /\ FramesHoldBlocks(blocks', calls') /\ Moves(calls, calls', f)
  BY <1>1, <1>2, <1>3, Stack_Return
<1> HIDE DEF f
<1>6. Len(calls') \in Nat
  BY <1>5
<1>7. GraphInv(blocks', calls', ins')
  BY <1>1, <1>4, <1>5, <1>6, Graph_Step
<1>8. ins' \in 1 .. Len(blocks')
  BY <1>4 DEF HandsOver
<1>9. Shapes'
  BY <1>1, <1>2, <1>5, <1>8 DEF Shapes
<1>. QED
  BY <1>7, <1>9 DEF GenInv

(* What the two kinds of branching steps leave. *)
Branches(bs, bs2, n, T) ==
  /\ bs2 \in Seq(BasicBlock)
  /\ Grows(bs, bs2, n, T)
  /\ \A b \in 1 .. Len(bs) : /\ Phis(bs2, b) = Phis(bs, b)
                             /\ bs[b].attached => bs2[b].attached

LEMMA Branch_And_Attach ==
  ASSUME NEW bs \in Seq(BasicBlock), NEW n \in 1 .. Len(bs), NEW i \in Instruction,
         i.op # "phi", NEW e \in 1 .. Len(bs), NEW bs2, bs2 = Attach(Emit(bs, n, i), e)
  PROVE  Branches(bs, bs2, n, Targets(i)) /\ Len(bs2) = Len(bs) /\ bs2[e].attached
<1> DEFINE mid == Emit(bs, n, i)
<1>1. /\ mid \in Seq(BasicBlock) /\ Len(mid) = Len(bs)
      /\ \A c \in 1 .. Len(bs) : mid[c].attached = bs[c].attached
  BY Emit_Blocks
<1>2. \A c \in 1 .. Len(bs) : After(mid, c) = IF c = n THEN After(bs, c) \cup Targets(i) ELSE After(bs, c)
  BY Emit_After
<1>3. \A c \in 1 .. Len(bs) : Phis(mid, c) = Phis(bs, c)
  <2> TAKE c \in 1 .. Len(bs)
  <2>1. Phis(Emit(bs, n, i), c) =
          IF c = n /\ i.op = "phi" THEN Phis(bs, c) \cup {i.from} ELSE Phis(bs, c)
    BY Emit_Phis
  <2>. QED
    BY <2>1
<1> HIDE DEF mid
<1>4. /\ bs2 \in Seq(BasicBlock) /\ Len(bs2) = Len(bs)
      /\ \A c \in 1 .. Len(bs) :
           /\ bs2[c].code = mid[c].code
           /\ bs2[c].attached = (c = e \/ mid[c].attached)
  BY <1>1, Attach_Blocks DEF mid
<1>5. \A c \in 1 .. Len(bs) : After(bs2, c) = After(mid, c) /\ Phis(bs2, c) = Phis(mid, c)
  BY <1>4, Same_Code
<1>6. Len(bs) \in Nat
  OBVIOUS
<1>7. Grows(bs, bs2, n, Targets(i))
  <2>1. Len(bs2) >= Len(bs)
    BY <1>4, <1>6
  <2>2. \A b \in 1 .. Len(bs) :
          After(bs2, b) = IF b = n THEN After(bs, b) \cup Targets(i) ELSE After(bs, b)
    BY <1>2, <1>5
  <2>3. \A b \in Len(bs) + 1 .. Len(bs2) : FALSE
    BY <1>4, <1>6
  <2>. QED
    BY <2>1, <2>2, <2>3 DEF Grows
<1>8. bs2[e].attached
  BY <1>4
<1>9. \A b \in 1 .. Len(bs) : bs[b].attached => bs2[b].attached
  BY <1>1, <1>4
<1>. QED
  BY <1>3, <1>4, <1>5, <1>7, <1>8, <1>9 DEF Branches

LEMMA New_And_Branch ==
  ASSUME NEW bs \in Seq(BasicBlock), NEW n \in 1 .. Len(bs), NEW i \in Instruction,
         i.op # "phi", NEW flags \in Seq(BOOLEAN), NEW bs2,
         bs2 = Emit(NewBlocks(bs, flags), n, i)
  PROVE  /\ Branches(bs, bs2, n, Targets(i))
         /\ Len(bs2) = Len(bs) + Len(flags)
         /\ \A j \in 1 .. Len(flags) : flags[j] => bs2[Len(bs) + j].attached
<1> DEFINE new == NewBlocks(bs, flags)
<1>1. /\ new \in Seq(BasicBlock) /\ Len(new) = Len(bs) + Len(flags)
      /\ \A c \in 1 .. Len(bs) : new[c] = bs[c]
      /\ \A j \in 1 .. Len(flags) :
           new[Len(bs) + j].code = <<>> /\ new[Len(bs) + j].attached = flags[j]
  BY New_Blocks
<1>2. Len(bs) \in Nat /\ Len(flags) \in Nat
  OBVIOUS
<1> HIDE DEF new
<1>3. n \in 1 .. Len(new) /\ \A c \in 1 .. Len(bs) : c \in 1 .. Len(new)
  BY <1>1, <1>2
<1>4. /\ bs2 \in Seq(BasicBlock) /\ Len(bs2) = Len(new)
      /\ \A c \in 1 .. Len(new) : bs2[c].attached = new[c].attached
  BY <1>1, <1>3, Emit_Blocks DEF new
<1>5. \A c \in 1 .. Len(new) :
        After(bs2, c) = IF c = n THEN After(new, c) \cup Targets(i) ELSE After(new, c)
  BY <1>1, <1>3, Emit_After DEF new
<1>6. \A c \in 1 .. Len(new) : Phis(bs2, c) = Phis(new, c)
  <2> TAKE c \in 1 .. Len(new)
  <2>1. Phis(Emit(new, n, i), c) =
          IF c = n /\ i.op = "phi" THEN Phis(new, c) \cup {i.from} ELSE Phis(new, c)
    BY <1>1, <1>3, Emit_Phis
  <2>. QED
    BY <2>1 DEF new
<1>7. \A c \in 1 .. Len(bs) : After(new, c) = After(bs, c) /\ Phis(new, c) = Phis(bs, c)
  <2> TAKE c \in 1 .. Len(bs)
  <2>1. new[c].code = bs[c].code
    BY <1>1
  <2>. QED
    BY <2>1, Same_Code
<1>8. \A c \in Len(bs) + 1 .. Len(new) : /\ c \in 1 .. Len(new) /\ c # n
                                         /\ After(new, c) = {} /\ Phis(new, c) = {}
  <2> TAKE c \in Len(bs) + 1 .. Len(new)
  <2>1. PICK j \in 1 .. Len(flags) : c = Len(bs) + j
    <3>1. c - Len(bs) \in 1 .. Len(flags) /\ c = Len(bs) + (c - Len(bs))
      BY <1>1, <1>2
    <3>. QED
      BY <3>1
  <2>2. new[c].code = <<>>
    BY <1>1, <2>1
  <2>3. c \in 1 .. Len(new) /\ c # n
    BY <1>1, <1>2
  <2>. QED
    BY <2>2, <2>3, Empty_Code
<1>9. Grows(bs, bs2, n, Targets(i))
  <2>1. Len(bs2) >= Len(bs)
    BY <1>1, <1>2, <1>4
  <2>2. \A b \in 1 .. Len(bs) :
          After(bs2, b) = IF b = n THEN After(bs, b) \cup Targets(i) ELSE After(bs, b)
    BY <1>3, <1>5, <1>7
  <2>3. \A b \in Len(bs) + 1 .. Len(bs2) : After(bs2, b) = {} /\ Phis(bs2, b) = {}
    BY <1>4, <1>5, <1>6, <1>8
  <2>. QED
    BY <2>1, <2>2, <2>3 DEF Grows
<1>10. \A b \in 1 .. Len(bs) : /\ Phis(bs2, b) = Phis(bs, b)
                               /\ bs[b].attached => bs2[b].attached
  BY <1>1, <1>3, <1>4, <1>6, <1>7
<1>11. \A j \in 1 .. Len(flags) : flags[j] => bs2[Len(bs) + j].attached
  <2>1. \A j \in 1 .. Len(flags) : Len(bs) + j \in 1 .. Len(new)
    BY <1>1, <1>2
  <2>. QED
    BY <1>1, <1>4, <2>1
<1>12. Len(bs2) = Len(bs) + Len(flags)
  BY <1>1, <1>4
<1>. QED
  BY <1>4, <1>9, <1>10, <1>11, <1>12 DEF Branches

LEMMA If_Opens ==
  ASSUME GenInv, At({"IF_STMT"}, 2), ret.ty = "i1", exec_if_codegen, UNCHANGED body
  PROVE  GenInv'
<1> DEFINE L == Len(blocks)
           at == <<L + 1, L + 2, L + 3>>
           f == NextFrame(top, NoValue, at)
           i == CondBr(ret, L + 1, L + 2)
           flags == <<TRUE, FALSE, FALSE>>
           T == {L + 1, L + 2}
<1>1. /\ node \in Node /\ node.op = "IF_STMT" /\ node = top.node /\ top.stage = 2
      /\ GraphInv(blocks, calls, ins) /\ blocks \in Seq(BasicBlock)
      /\ ins \in 1 .. Len(blocks) /\ L \in Nat /\ ret \in Values
  BY At_Facts
<1>2. L >= 1
  BY <1>1
<1>3. ~At({"IF_STMT"}, 1) /\ ~At({"IF_STMT"}, 3) /\ ~At({"IF_STMT"}, 4)
  BY <1>1 DEF At
<1>4. /\ blocks' = Emit(NewBlocks(blocks, flags), ins, CondBr(ret, L + 1, L + 2))
      /\ ins' = L + 1
      /\ CallKeeping(node.left, NoValue, <<L + 1, L + 2, L + 2 + 1>>)
      /\ UNCHANGED ret
  BY <1>3 DEF exec_if_codegen
<1>5. CallKeeping(node.left, NoValue, at)
  <2>1. L + 2 + 1 = L + 3
    BY <1>1
  <2>. QED
    BY <1>4, <2>1
<1>6. i \in Instruction /\ i.op # "phi" /\ Targets(i) = T
  <2>1. L + 1 \in Nat /\ L + 2 \in Nat
    BY <1>1
  <2>. QED
    BY <1>1, <2>1, Instructions, Instruction_Targets
<1>7. flags \in Seq(BOOLEAN) /\ Len(flags) = 3
  OBVIOUS
<1> HIDE DEF flags, i
<1>8. Branches(blocks, blocks', ins, T) /\ Len(blocks') = L + 3
  <2>1. blocks' = Emit(NewBlocks(blocks, flags), ins, i)
    BY <1>4 DEF i
  <2>2. Branches(blocks, blocks', ins, Targets(i)) /\ Len(blocks') = Len(blocks) + Len(flags)
    BY <1>1, <1>6, <1>7, <2>1, New_And_Branch
  <2>. QED
    BY <1>6, <1>7, <2>2
<1>9. blocks'[L + 1].attached
  <2>1. blocks' = Emit(NewBlocks(blocks, flags), ins, i)
    BY <1>4 DEF i
  <2>2. \A j \in 1 .. Len(flags) : flags[j] => blocks'[Len(blocks) + j].attached
    BY <1>1, <1>6, <1>7, <2>1, New_And_Branch
  <2>3. flags[1] /\ 1 \in 1 .. Len(flags)
    BY <1>7 DEF flags
  <2>. QED
    BY <2>2, <2>3
<1>10. f.node.op = "IF_STMT" /\ f.stage = 3 /\ f.at = at /\ at \in Seq(1 .. Len(blocks')) /\ Len(at) = 3
  <2>1. L + 1 \in 1 .. L + 3 /\ L + 2 \in 1 .. L + 3 /\ L + 3 \in 1 .. L + 3
    BY <1>1
  <2>2. at \in Seq(1 .. L + 3) /\ Len(at) = 3
    BY <2>1
  <2>. QED
    BY <1>1, <1>8, <2>2 DEF NextFrame
<1>11. HoldsBlocks(blocks', f)
  BY <1>10 DEF HoldsBlocks, IfAt, LoopAt
<1>12. /\ Loose(f) = {L + 2, L + 3} /\ Fresh(f) = {L + 2, L + 3} /\ Unlinked(f) = {L + 3}
       /\ Mine(f) = {L + 2, L + 3} /\ ~IfAt(f, 4) /\ ~LoopAt(f, 2) /\ f.at[2] = L + 2 /\ f.at[3] = L + 3
  BY <1>10 DEF Loose, Fresh, Unlinked, Mine, IfAt, LoopAt
<1>13. Mine(top) = {} /\ Loose(top) = {} /\ Unlinked(top) = {}
  <2>1. Idle(top)
    BY <1>1, Idle_Frames
  <2>. QED
    BY <2>1, Hands DEF Idle
<1>14. NewIn(blocks, blocks') = {L + 1, L + 2, L + 3}
  BY <1>1, <1>8 DEF NewIn
<1>15. /\ L + 2 \in 2 .. L + 3 /\ L + 3 \in 2 .. L + 3 /\ L + 1 # L + 2 /\ L + 1 # L + 3
       /\ L + 2 # L + 3 /\ L + 1 \in 1 .. L + 3 /\ L + 3 \notin 1 .. L
  BY <1>1, <1>2
<1>16. \A b \in NewIn(blocks, blocks') : After(blocks', b) = {} /\ Phis(blocks', b) = {}
  BY <1>8 DEF Branches, Grows, NewIn
<1> HIDE DEF L, f, at, T
<1>17. Into(blocks', L + 3) = {}
  <2>1. Into(blocks, L + 3) = {}
    BY <1>1, <1>15 DEF GraphInv, EdgesInside, Into, L
  <2>2. L + 3 \notin T
    BY <1>15 DEF T
  <2>. QED
    BY <1>1, <1>8, <2>1, <2>2, Into_Grows DEF Branches
<1>18. FrameIsSound(blocks', f)
  BY <1>8, <1>12, <1>14, <1>15, <1>16, <1>17 DEF FrameIsSound
<1>19. HandsOver(blocks, blocks', top, f, T, {}, ins, ins')
  <2>1. ins' \in NewIn(blocks, blocks') /\ ins' \in 1 .. Len(blocks') /\ ins' \notin Fresh(f)
    BY <1>4, <1>8, <1>12, <1>14, <1>15
  <2>2. T \subseteq NewIn(blocks, blocks')
    BY <1>14 DEF T
  <2>3. \A b \in 1 .. Len(blocks) : Phis(blocks', b) = Phis(blocks, b)
    BY <1>8 DEF Branches
  <2>4. \A b \in 1 .. Len(blocks) : blocks[b].attached => blocks'[b].attached
    BY <1>8 DEF Branches
  <2>5. \A b \in NewIn(blocks, blocks') : blocks'[b].attached \/ b \in Loose(f)
    BY <1>9, <1>12, <1>14
  <2>6. \A b \in NewIn(blocks, blocks') : b \in T \/ b \in Unlinked(f)
    BY <1>12, <1>14 DEF T
  <2>. QED
    BY <1>8, <1>12, <1>13, <1>14, <1>16, <1>18, <2>1, <2>2, <2>3, <2>4, <2>5, <2>6 DEF HandsOver, Branches
<1>20. node.left \in Node /\ NoValue \in Values
  BY <1>1, Node_Parts, Operand_Values
<1>21. Len(blocks') >= Len(blocks) /\ 2 \in 1 .. 3
  BY <1>1, <1>8 DEF L
<1>. QED
  BY <1>4, <1>5, <1>8, <1>11, <1>19, <1>20, <1>21, Growing_Call DEF f, Branches

LEMMA If_Else ==
  ASSUME GenInv, At({"IF_STMT"}, 3), exec_if_codegen, UNCHANGED body
  PROVE  GenInv'
<1> DEFINE e == top.at[2]
           m == top.at[3]
           at == <<ins, e, m>>
           f == NextFrame(top, ret, at)
           i == Br(m)
<1>1. /\ node \in Node /\ node.op = "IF_STMT" /\ node = top.node /\ top.stage = 3
      /\ GraphInv(blocks, calls, ins) /\ blocks \in Seq(BasicBlock)
      /\ ins \in 1 .. Len(blocks) /\ Len(blocks) \in Nat /\ ret \in Values
      /\ HoldsBlocks(blocks, top) /\ FrameIsSound(blocks, top)
      /\ Len(calls) \in Nat \ {0} /\ top = calls[Len(calls)]
  BY At_Facts
<1>2. ~At({"IF_STMT"}, 1) /\ ~At({"IF_STMT"}, 2) /\ ~At({"IF_STMT"}, 4)
  BY <1>1 DEF At
<1>3. /\ blocks' = Attach(Emit(blocks, ins, i), e) /\ ins' = e
      /\ CallKeeping(node.right, ret, at) /\ UNCHANGED ret
  BY <1>2 DEF exec_if_codegen, ArmEnd
<1>4. /\ IfAt(top, 3) /\ ~IfAt(top, 4) /\ ~LoopAt(top, 2) /\ ~LoopAt(top, 3)
  BY <1>1 DEF IfAt, LoopAt
<1>5. /\ Loose(top) = {e, m} /\ Fresh(top) = {e, m} /\ Unlinked(top) = {m} /\ Mine(top) = {e, m}
  BY <1>4 DEF Loose, Fresh, Unlinked, Mine
<1>6. /\ e \in 2 .. Len(blocks) /\ m \in 2 .. Len(blocks) /\ e # m
      /\ After(blocks, e) = {} /\ After(blocks, m) = {} /\ Into(blocks, m) = {}
      /\ Phis(blocks, e) = {} /\ Phis(blocks, m) = {}
  BY <1>1, <1>4, <1>5 DEF FrameIsSound
<1>7. ins \notin {e, m}
  <2>1. Len(calls) \in 1 .. Len(calls)
    BY <1>1
  <2>2. ins \notin Fresh(top)
    BY <1>1, <2>1 DEF GraphInv, InsertionIsOpen
  <2>. QED
    BY <2>2, <1>5
<1> HIDE DEF e, m, i
<1>8. i \in Instruction /\ i.op # "phi" /\ Targets(i) = {m}
  <2>1. m \in Nat
    BY <1>6
  <2>. QED
    BY <2>1, Instructions, Instruction_Targets DEF i
<1>9. Branches(blocks, blocks', ins, {m}) /\ Len(blocks') = Len(blocks) /\ blocks'[e].attached
  <2>1. e \in 1 .. Len(blocks)
    BY <1>6
  <2>2. blocks' = Attach(Emit(blocks, ins, i), e)
    BY <1>3
  <2> DEFINE new == Attach(Emit(blocks, ins, i), e)
  <2>3. Branches(blocks, new, ins, Targets(i)) /\ Len(new) = Len(blocks) /\ new[e].attached
    <3>1. blocks \in Seq(BasicBlock) /\ ins \in 1 .. Len(blocks)
      BY <1>1
    <3>2. i \in Instruction /\ i.op # "phi"
      BY <1>8
    <3>. QED
      BY <3>1, <3>2, <2>1, Branch_And_Attach
  <2> HIDE DEF new
  <2>. QED
    BY <1>8, <2>2, <2>3 DEF new
<1>10. f.node.op = "IF_STMT" /\ f.stage = 4 /\ f.at = at
  BY <1>1 DEF NextFrame
<1>11. at \in Seq(1 .. Len(blocks')) /\ Len(at) = 3 /\ at[1] = ins /\ at[2] = e /\ at[3] = m
  BY <1>1, <1>6, <1>9
<1>12. HoldsBlocks(blocks', f)
  BY <1>10, <1>11 DEF HoldsBlocks, IfAt, LoopAt
<1>13. /\ Loose(f) = {m} /\ Fresh(f) = {m} /\ Unlinked(f) = {} /\ Mine(f) = {m}
       /\ ~IfAt(f, 3) /\ ~LoopAt(f, 2) /\ f.at[1] = ins /\ f.at[3] = m
  BY <1>10, <1>11 DEF Loose, Fresh, Unlinked, Mine, IfAt, LoopAt
<1>14. NewIn(blocks, blocks') = {}
  BY <1>1, <1>9 DEF NewIn
<1>15. Grows(blocks, blocks', ins, {m}) /\ blocks' \in Seq(BasicBlock)
  BY <1>9 DEF Branches
<1> HIDE DEF f, at
<1>16. Into(blocks', m) = {ins}
  BY <1>1, <1>6, <1>15, Into_Grows
<1>17. After(blocks', m) = {} /\ After(blocks', e) = {}
  BY <1>6, <1>7, <1>15 DEF Grows
<1>18. Phis(blocks', m) = {}
  BY <1>6, <1>9 DEF Branches
<1>19. FrameIsSound(blocks', f)
  BY <1>6, <1>9, <1>13, <1>16, <1>17, <1>18 DEF FrameIsSound
<1>20. HandsOver(blocks, blocks', top, f, {m}, {}, ins, ins')
  <2>1. ins' \in Mine(top) /\ ins' \in 1 .. Len(blocks') /\ ins' \notin Fresh(f) /\ After(blocks', ins') = {}
    BY <1>3, <1>5, <1>6, <1>9, <1>13, <1>17
  <2>2. \A b \in Loose(top) : blocks'[b].attached \/ b \in Loose(f)
    BY <1>5, <1>9, <1>13
  <2>3. \A b \in Unlinked(top) : b \in {m} \/ b \in Unlinked(f)
    BY <1>5
  <2>. QED
    BY <1>5, <1>9, <1>13, <1>14, <1>15, <1>19, <2>1, <2>2, <2>3 DEF HandsOver, Branches
<1>21. node.right \in Node
  BY <1>1, Node_Parts
<1>22. Len(blocks') >= Len(blocks) /\ 3 \in 1 .. 3
  BY <1>1, <1>9
<1>. QED
  BY <1>1, <1>3, <1>12, <1>15, <1>20, <1>21, <1>22, Growing_Call DEF f

LEMMA Two_Sources ==
  ASSUME NEW a, NEW b, a # b, NEW u, NEW v
  PROVE  /\ {e[1] : e \in {<<a, u>>, <<b, v>>}} = {a, b}
         /\ Cardinality({<<a, u>>, <<b, v>>}) = Cardinality({a, b})
<1>1. \A x, y : x # y => Cardinality({x, y}) = 2
  <2> TAKE x, y
  <2>1. IsFiniteSet({x}) /\ Cardinality({x}) = 1
    BY FS_Singleton
  <2>2. x # y => Cardinality({x} \cup {y}) = 2
    BY <2>1, FS_AddElement
  <2>3. {x} \cup {y} = {x, y}
    OBVIOUS
  <2>. QED
    BY <2>2, <2>3
<1>2. <<a, u>> # <<b, v>>
  OBVIOUS
<1>3. Cardinality({<<a, u>>, <<b, v>>}) = 2 /\ Cardinality({a, b}) = 2
  BY <1>1, <1>2
<1>4. {e[1] : e \in {<<a, u>>, <<b, v>>}} = {a, b}
  OBVIOUS
<1>. QED
  BY <1>3, <1>4

LEMMA If_Merges ==
  ASSUME GenInv, At({"IF_STMT"}, 4), top.kept.ty = "i32", ret.ty = "i32",
         exec_if_codegen, UNCHANGED body
  PROVE  GenInv'
<1> DEFINE a == top.at[1]
           m == top.at[3]
           f == Frame(node)
           i == Br(m)
           from == {<<a, top.kept>>, <<ins, ret>>}
           phi == [op |-> "phi", from |-> from]
           mid == Attach(Emit(blocks, ins, i), m)
<1>1. /\ node \in Node /\ node.op = "IF_STMT" /\ node = top.node /\ top.stage = 4
      /\ GraphInv(blocks, calls, ins) /\ blocks \in Seq(BasicBlock)
      /\ ins \in 1 .. Len(blocks) /\ Len(blocks) \in Nat /\ ret \in Values /\ top.kept \in Values
      /\ HoldsBlocks(blocks, top) /\ FrameIsSound(blocks, top)
      /\ Len(calls) \in Nat \ {0} /\ top = calls[Len(calls)]
  BY At_Facts
<1>2. ~At({"IF_STMT"}, 1) /\ ~At({"IF_STMT"}, 2) /\ ~At({"IF_STMT"}, 3)
  BY <1>1 DEF At
<1>3. /\ blocks' = Emit(mid, m, phi) /\ ins' = m
      /\ Return(Reg("i32", <<m, 1>>))
  BY <1>2 DEF exec_if_codegen, ArmEnd
<1>4. /\ ~IfAt(top, 3) /\ IfAt(top, 4) /\ ~LoopAt(top, 2) /\ ~LoopAt(top, 3)
  BY <1>1 DEF IfAt, LoopAt
<1>5. /\ Loose(top) = {m} /\ Fresh(top) = {m} /\ Unlinked(top) = {} /\ Mine(top) = {m}
  BY <1>4 DEF Loose, Fresh, Unlinked, Mine
<1>6. /\ m \in 2 .. Len(blocks)
      /\ After(blocks, m) = {} /\ Into(blocks, m) = {a} /\ Phis(blocks, m) = {}
  BY <1>1, <1>4, <1>5 DEF FrameIsSound
<1>7. ins # m /\ ins # a /\ a \in 1 .. Len(blocks)
  <2>1. Len(calls) \in 1 .. Len(calls)
    BY <1>1
  <2>2. ins \notin Fresh(top) /\ After(blocks, ins) = {}
    BY <1>1, <2>1 DEF GraphInv, InsertionIsOpen
  <2>3. m \in After(blocks, a) /\ a \in 1 .. Len(blocks)
    BY <1>6 DEF Into
  <2>. QED
    BY <2>2, <2>3, <1>5
<1>8. Reg("i32", <<m, 1>>) \in Values
  <2>1. m \in Nat /\ 1 \in Nat
    BY <1>6
  <2>. QED
    BY <2>1, Operand_Values, Int_Types
<1>9. phi \in Instruction /\ phi.op = "phi" /\ phi.from = from /\ Targets(phi) = {}
  <2>1. from \in (SUBSET (Nat \X Values)) \ {{}}
    BY <1>1, <1>7
  <2> HIDE DEF from
  <2>. QED
    BY <2>1, Instructions, Instruction_Targets
<1> HIDE DEF a, m, i, phi, from, mid
<1>10. i \in Instruction /\ i.op # "phi" /\ Targets(i) = {m}
  <2>1. m \in Nat
    BY <1>6
  <2>. QED
    BY <2>1, Instructions, Instruction_Targets DEF i
<1>11. m \in 1 .. Len(blocks)
  BY <1>6
<1>12. Branches(blocks, mid, ins, {m}) /\ Len(mid) = Len(blocks) /\ mid[m].attached
  <2>1. Branches(blocks, mid, ins, Targets(i)) /\ Len(mid) = Len(blocks) /\ mid[m].attached
    BY <1>1, <1>10, <1>11, Branch_And_Attach DEF mid
  <2>. QED
    BY <1>10, <2>1
<1>13. mid \in Seq(BasicBlock) /\ Grows(blocks, mid, ins, {m}) /\ m \in 1 .. Len(mid)
  BY <1>11, <1>12 DEF Branches
<1>14. /\ blocks' \in Seq(BasicBlock) /\ Len(blocks') = Len(blocks)
       /\ \A b \in 1 .. Len(blocks) : blocks'[b].attached = mid[b].attached
  BY <1>3, <1>9, <1>12, <1>13, Emit_Blocks
<1>15. \A b \in 1 .. Len(blocks) : After(blocks', b) = After(mid, b)
  <2> TAKE b \in 1 .. Len(blocks)
  <2>2. b \in 1 .. Len(mid)
    BY <1>12
  <2>1. After(Emit(mid, m, phi), b) = IF b = m THEN After(mid, b) \cup Targets(phi) ELSE After(mid, b)
    <3>1. phi \in Instruction
      BY <1>9
    <3>. QED
      BY <1>13, <2>2, <3>1, Emit_After
  <2>. QED
    BY <1>3, <1>9, <2>1
<1>16. \A b \in 1 .. Len(blocks) :
         Phis(blocks', b) = IF b = m THEN {from} ELSE Phis(blocks, b)
  <2> TAKE b \in 1 .. Len(blocks)
  <2>1. Phis(Emit(mid, m, phi), b) =
          IF b = m /\ phi.op = "phi" THEN Phis(mid, b) \cup {phi.from} ELSE Phis(mid, b)
    BY <1>9, <1>12, <1>13, Emit_Phis
  <2>2. Phis(mid, b) = Phis(blocks, b)
    BY <1>12 DEF Branches
  <2>. QED
    BY <1>3, <1>6, <1>9, <2>1, <2>2
<1>17. Grows(blocks, blocks', ins, {m})
  <2>1. \A b \in Len(blocks) + 1 .. Len(blocks') : FALSE
    BY <1>1, <1>14
  <2>2. \A b \in 1 .. Len(blocks) :
          After(blocks', b) = IF b = ins THEN After(blocks, b) \cup {m} ELSE After(blocks, b)
    BY <1>13, <1>15 DEF Grows
  <2>3. Len(blocks') >= Len(blocks)
    BY <1>1, <1>14
  <2>. QED
    BY <2>1, <2>2, <2>3 DEF Grows
<1>18. Into(blocks', m) = {a, ins}
  <2>1. Into(blocks', m) = Into(blocks, m) \cup {ins}
    BY <1>1, <1>14, <1>17, Into_Grows
  <2>. QED
    BY <1>6, <2>1
<1>19. \A x \in Phis(blocks', m) : /\ {e[1] : e \in x} = Into(blocks', m)
                                   /\ Cardinality(x) = Cardinality(Into(blocks', m))
  <2>1. Phis(blocks', m) = {from}
    BY <1>11, <1>16
  <2>2. {e[1] : e \in from} = {a, ins} /\ Cardinality(from) = Cardinality({a, ins})
    BY <1>7, Two_Sources DEF from
  <2>. QED
    BY <1>18, <2>1, <2>2
<1>20. Idle(f)
  BY <1>1, Frame_Idle
<1>21. NewIn(blocks, blocks') = {}
  BY <1>1, <1>14 DEF NewIn
<1> HIDE DEF f
<1>22. HandsOver(blocks, blocks', top, f, {m}, {m}, ins, ins')
  <2>1. Mine(f) = {} /\ Fresh(f) = {} /\ FrameIsSound(blocks', f)
    BY <1>20, Idle_Sound DEF Idle
  <2>2. ins' \in Mine(top) /\ ins' \in 1 .. Len(blocks') /\ After(blocks', ins') = {}
    BY <1>3, <1>5, <1>6, <1>7, <1>11, <1>14, <1>17 DEF Grows
  <2>3. \A b \in 1 .. Len(blocks) : blocks[b].attached => blocks'[b].attached
    BY <1>12, <1>14 DEF Branches
  <2>4. blocks'[m].attached
    BY <1>11, <1>12, <1>14
  <2>5. \A b \in (1 .. Len(blocks)) \ {m} : Phis(blocks', b) = Phis(blocks, b)
    BY <1>16
  <2>. QED
    BY <1>5, <1>14, <1>17, <1>19, <1>21, <2>1, <2>2, <2>3, <2>4, <2>5 DEF HandsOver
<1>23. Len(blocks') >= Len(blocks)
  BY <1>1, <1>14
<1>. QED
  BY <1>3, <1>8, <1>14, <1>22, <1>23, Growing_Return DEF f

LEMMA If_Step ==
  ASSUME GenInv, exec_if_codegen, UNCHANGED body
  PROVE  GenInv'
<1>1. CASE At({"IF_STMT"}, 1)
  <2> DEFINE f == NextFrame(top, top.kept, top.at)
  <2>1. /\ node \in Node /\ node.op = "IF_STMT" /\ node = top.node /\ top.stage = 1
        /\ top.kept \in Values /\ HoldsBlocks(blocks, top)
    BY <1>1, At_Facts
  <2>2. node.condition \in Node
    BY <2>1, Node_Parts
  <2>3. f.node = top.node /\ f.at = top.at /\ f.stage = 2
    BY <2>1 DEF NextFrame
  <2>4. Idle(top) /\ Idle(f)
    BY <2>1, <2>3, Idle_Frames
  <2>5. HoldsBlocks(blocks, f)
    BY <2>1, <2>3 DEF HoldsBlocks, IfAt, LoopAt
  <2>6. ~At({"IF_STMT"}, 2) /\ ~At({"IF_STMT"}, 3) /\ ~At({"IF_STMT"}, 4)
    BY <2>1 DEF At
  <2>7. CallKeeping(node.condition, top.kept, top.at) /\ UNCHANGED <<body, ret, blocks, ins>>
    BY <2>6 DEF exec_if_codegen, Call
  <2>8. 1 \in 1 .. 3
    OBVIOUS
  <2>. QED
    BY <1>1, <2>1, <2>2, <2>4, <2>5, <2>7, <2>8, Quiet_Call
<1>2. CASE At({"IF_STMT"}, 2)
  <2>1. top.stage = 2
    BY <1>2 DEF At
  <2>2. ~At({"IF_STMT"}, 1) /\ ~At({"IF_STMT"}, 3) /\ ~At({"IF_STMT"}, 4)
    BY <2>1 DEF At
  <2>3. CASE ret.ty # "i1"
    BY <2>2, <2>3, Gen_Unchanged DEF exec_if_codegen, Malformed
  <2>. QED
    BY <1>2, <2>3, If_Opens
<1>3. CASE At({"IF_STMT"}, 3)
  BY <1>3, If_Else
<1>4. CASE At({"IF_STMT"}, 4)
  <2>1. top.stage = 4
    BY <1>4 DEF At
  <2>2. ~At({"IF_STMT"}, 1) /\ ~At({"IF_STMT"}, 2) /\ ~At({"IF_STMT"}, 3)
    BY <2>1 DEF At
  <2>3. CASE top.kept.ty # "i32" \/ ret.ty # "i32"
    BY <2>2, <2>3, Gen_Unchanged DEF exec_if_codegen, Malformed
  <2>. QED
    BY <1>4, <2>3, If_Merges
<1>. QED
  BY <1>1, <1>2, <1>3, <1>4 DEF exec_if_codegen

LEMMA Emit_Branches ==
  ASSUME NEW bs \in Seq(BasicBlock), NEW n \in 1 .. Len(bs), NEW i \in Instruction, i.op # "phi"
  PROVE  Branches(bs, Emit(bs, n, i), n, Targets(i)) /\ Len(Emit(bs, n, i)) = Len(bs)
<1> DEFINE bs2 == Emit(bs, n, i)
<1>1. /\ bs2 \in Seq(BasicBlock) /\ Len(bs2) = Len(bs)
      /\ \A c \in 1 .. Len(bs) : bs2[c].attached = bs[c].attached
  BY Emit_Blocks
<1>2. \A c \in 1 .. Len(bs) : After(bs2, c) = IF c = n THEN After(bs, c) \cup Targets(i) ELSE After(bs, c)
  BY Emit_After
<1>3. \A c \in 1 .. Len(bs) : Phis(bs2, c) = Phis(bs, c)
  <2> TAKE c \in 1 .. Len(bs)
  <2>1. Phis(Emit(bs, n, i), c) =
          IF c = n /\ i.op = "phi" THEN Phis(bs, c) \cup {i.from} ELSE Phis(bs, c)
    BY Emit_Phis
  <2>. QED
    BY <2>1
<1> HIDE DEF bs2
<1>4. Len(bs) \in Nat
  OBVIOUS
<1>5. Len(bs2) >= Len(bs) /\ \A b \in Len(bs) + 1 .. Len(bs2) : FALSE
  BY <1>1, <1>4
<1>6. Grows(bs, bs2, n, Targets(i))
  BY <1>2, <1>5 DEF Grows
<1>. QED
  BY <1>1, <1>3, <1>6 DEF Branches, bs2

LEMMA Same_Then_Branches ==
  ASSUME NEW bs \in Seq(BasicBlock), NEW mid, NEW bs2, NEW n, NEW T,
         SameGraph(bs, mid), Branches(mid, bs2, n, T)
  PROVE  Branches(bs, bs2, n, T)
BY DEF SameGraph, Branches, Grows

LEMMA While_Enters ==
  ASSUME GenInv, At({"WHILE_STMT"}, 1), exec_while_codegen, UNCHANGED body
  PROVE  GenInv'
<1> DEFINE L == Len(blocks)
           at == <<L + 1, L + 2, L + 3>>
           f == NextFrame(top, NoValue, at)
           i == Br(L + 1)
           flags == <<TRUE, TRUE, TRUE>>
           new == Emit(NewBlocks(blocks, flags), ins, i)
           T == {L + 1}
<1>1. /\ node \in Node /\ node.op = "WHILE_STMT" /\ node = top.node /\ top.stage = 1
      /\ GraphInv(blocks, calls, ins) /\ blocks \in Seq(BasicBlock)
      /\ ins \in 1 .. Len(blocks) /\ L \in Nat /\ ret \in Values
  BY At_Facts
<1>2. L >= 1
  BY <1>1
<1>3. ~At({"WHILE_STMT"}, 2) /\ ~At({"WHILE_STMT"}, 3)
  BY <1>1 DEF At
<1>4. /\ blocks' = Emit(NewBlocks(blocks, flags), ins, Br(L + 1))
      /\ ins' = L + 1
      /\ CallKeeping(node.condition, NoValue, <<L + 1, L + 1 + 1, L + 1 + 2>>)
      /\ UNCHANGED ret
  BY <1>3 DEF exec_while_codegen
<1>5. CallKeeping(node.condition, NoValue, at)
  <2>1. L + 1 + 1 = L + 2 /\ L + 1 + 2 = L + 3
    BY <1>1
  <2>. QED
    BY <1>4, <2>1
<1>6. i \in Instruction /\ i.op # "phi" /\ Targets(i) = T
  <2>1. L + 1 \in Nat
    BY <1>1
  <2>. QED
    BY <2>1, Instructions, Instruction_Targets
<1>7. flags \in Seq(BOOLEAN) /\ Len(flags) = 3
  OBVIOUS
<1>8. flags[1] /\ flags[2] /\ flags[3]
  BY Zenon
<1> HIDE DEF flags, i
<1>9. blocks' = new
  BY <1>4 DEF i, flags
<1>0. /\ Branches(blocks, new, ins, Targets(i)) /\ Len(new) = Len(blocks) + Len(flags)
      /\ \A j \in 1 .. Len(flags) : flags[j] => new[Len(blocks) + j].attached
  <2> HIDE DEF L, at, f, T
  <2>1. blocks \in Seq(BasicBlock) /\ ins \in 1 .. Len(blocks)
    BY <1>1
  <2>2. i \in Instruction /\ i.op # "phi" /\ flags \in Seq(BOOLEAN)
    BY <1>6, <1>7
  <2>. QED
    BY <2>1, <2>2, New_And_Branch
<1> HIDE DEF new
<1>10. Branches(blocks, blocks', ins, T) /\ Len(blocks') = L + 3
  <2>1. Branches(blocks, new, ins, Targets(i)) /\ Len(new) = Len(blocks) + Len(flags)
    BY <1>0
  <2>. QED
    BY <1>6, <1>7, <1>9, <2>1
<1>11. blocks'[L + 1].attached /\ blocks'[L + 2].attached /\ blocks'[L + 3].attached
  <2>1. 1 \in 1 .. Len(flags) /\ 2 \in 1 .. Len(flags) /\ 3 \in 1 .. Len(flags)
    BY <1>7
  <2>. QED
    BY <1>0, <1>8, <1>9, <2>1
<1>12. f.node.op = "WHILE_STMT" /\ f.stage = 2 /\ f.at = at /\ at \in Seq(1 .. Len(blocks')) /\ Len(at) = 3
  <2>1. L + 1 \in 1 .. L + 3 /\ L + 2 \in 1 .. L + 3 /\ L + 3 \in 1 .. L + 3
    BY <1>1
  <2>2. at \in Seq(1 .. L + 3) /\ Len(at) = 3
    BY <2>1
  <2>. QED
    BY <1>1, <1>10, <2>2 DEF NextFrame
<1>13. HoldsBlocks(blocks', f)
  BY <1>12 DEF HoldsBlocks, IfAt, LoopAt
<1>14. /\ Loose(f) = {} /\ Fresh(f) = {L + 2, L + 3} /\ Unlinked(f) = {L + 2, L + 3}
       /\ Mine(f) = {L + 1, L + 2, L + 3} /\ ~IfAt(f, 3) /\ ~IfAt(f, 4)
       /\ f.at[2] = L + 2 /\ f.at[3] = L + 3
  BY <1>12 DEF Loose, Fresh, Unlinked, Mine, IfAt, LoopAt
<1>15. Mine(top) = {} /\ Loose(top) = {} /\ Unlinked(top) = {}
  <2>1. Idle(top)
    BY <1>1, Idle_Frames
  <2>. QED
    BY <2>1, Hands DEF Idle
<1>16. NewIn(blocks, blocks') = {L + 1, L + 2, L + 3}
  BY <1>1, <1>10 DEF NewIn
<1>17. /\ L + 1 \in 2 .. L + 3 /\ L + 2 \in 2 .. L + 3 /\ L + 3 \in 2 .. L + 3
       /\ L + 1 # L + 2 /\ L + 1 # L + 3 /\ L + 2 # L + 3 /\ L + 1 \in 1 .. L + 3
  BY <1>1, <1>2
<1>18. \A b \in NewIn(blocks, blocks') : After(blocks', b) = {} /\ Phis(blocks', b) = {}
  BY <1>10 DEF Branches, Grows, NewIn
<1>19. \A b \in NewIn(blocks, blocks') : blocks'[b].attached
  BY <1>11, <1>16
<1>20. node.condition \in Node /\ NoValue \in Values
  BY <1>1, Node_Parts, Operand_Values
<1>21. Len(blocks') >= Len(blocks) /\ 1 \in 1 .. 3
  BY <1>1, <1>10
<1> HIDE DEF L, f, at, T
<1>22. FrameIsSound(blocks', f)
  BY <1>10, <1>14, <1>16, <1>17, <1>18 DEF FrameIsSound
<1>23. HandsOver(blocks, blocks', top, f, T, {}, ins, ins')
  <2>1. ins' \in NewIn(blocks, blocks') /\ ins' \in 1 .. Len(blocks') /\ ins' \notin Fresh(f)
    BY <1>4, <1>10, <1>14, <1>16, <1>17
  <2>2. T \subseteq NewIn(blocks, blocks')
    BY <1>16 DEF T
  <2>3. \A b \in NewIn(blocks, blocks') : b \in T \/ b \in Unlinked(f)
    BY <1>14, <1>16 DEF T
  <2>. QED
    BY <1>10, <1>14, <1>15, <1>16, <1>18, <1>19, <1>22, <2>1, <2>2, <2>3 DEF HandsOver, Branches
<1>. QED
  BY <1>4, <1>5, <1>10, <1>13, <1>20, <1>21, <1>23, Growing_Call DEF f, Branches

(* What a loop that is being generated has in hand. *)
LEMMA Loop_Facts ==
  ASSUME GenInv, NEW s \in {2, 3}, At({"WHILE_STMT"}, s)
  PROVE  /\ ~IfAt(top, 3) /\ ~IfAt(top, 4) /\ Loose(top) = {}
         /\ {top.at[1], top.at[3]} \subseteq Mine(top) /\ Mine(top) \subseteq 2 .. Len(blocks)
         /\ s = 2 => /\ Mine(top) = {top.at[1], top.at[2], top.at[3]}
                     /\ Unlinked(top) = {top.at[2], top.at[3]}
                     /\ top.at[2] # top.at[3] /\ top.at[2] # ins
                     /\ After(blocks, top.at[2]) = {}
         /\ s = 3 => Unlinked(top) = {}
         /\ top.at[3] # ins /\ After(blocks, top.at[3]) = {}
         /\ \A b \in Mine(top) : Phis(blocks, b) = {}
<1>1. /\ node.op = "WHILE_STMT" /\ node = top.node /\ top.stage = s
      /\ GraphInv(blocks, calls, ins) /\ FrameIsSound(blocks, top)
      /\ Len(calls) \in Nat \ {0} /\ top = calls[Len(calls)]
  BY At_Facts
<1>2. ~IfAt(top, 3) /\ ~IfAt(top, 4) /\ LoopAt(top, s)
  BY <1>1 DEF IfAt, LoopAt
<1>3. s = 2 => ~LoopAt(top, 3)
  BY <1>1 DEF LoopAt
<1>4. s = 3 => ~LoopAt(top, 2)
  BY <1>1 DEF LoopAt
<1>5. s = 2 => /\ Fresh(top) = {top.at[2], top.at[3]} /\ Unlinked(top) = {top.at[2], top.at[3]}
               /\ Mine(top) = {top.at[1], top.at[2], top.at[3]}
  BY <1>2, <1>3 DEF Fresh, Unlinked, Mine
<1>6. s = 3 => /\ Fresh(top) = {top.at[3]} /\ Unlinked(top) = {}
               /\ Mine(top) = {top.at[1], top.at[3]}
  BY <1>2, <1>4 DEF Fresh, Unlinked, Mine
<1>7. Loose(top) = {}
  BY <1>2 DEF Loose
<1>8. ins \notin Fresh(top)
  <2>1. Len(calls) \in 1 .. Len(calls)
    BY <1>1
  <2>. QED
    BY <1>1, <2>1 DEF GraphInv, InsertionIsOpen
<1>9. s = 2 => top.at[2] # top.at[3]
  BY <1>1, <1>2 DEF FrameIsSound
<1>10. /\ Mine(top) \subseteq 2 .. Len(blocks)
       /\ \A b \in Mine(top) : Phis(blocks, b) = {}
       /\ \A b \in Fresh(top) : After(blocks, b) = {}
  BY <1>1 DEF FrameIsSound
<1>. QED
  BY <1>2, <1>5, <1>6, <1>7, <1>8, <1>9, <1>10

LEMMA While_Tests ==
  ASSUME GenInv, At({"WHILE_STMT"}, 2), ret.ty = "i1", exec_while_codegen, UNCHANGED body
  PROVE  GenInv'
<1> DEFINE l == top.at[2]
           a == top.at[3]
           f == NextFrame(top, top.kept, top.at)
           test == [op |-> "eq", lhs |-> ret, rhs |-> Const("i1", 1)]
           cond == IF ret.const THEN ret ELSE Reg("i1", Place(ins))
           tested == IF ret.const THEN blocks ELSE Emit(blocks, ins, test)
           i == CondBr(cond, l, a)
<1>1. /\ node \in Node /\ node.op = "WHILE_STMT" /\ node = top.node /\ top.stage = 2
      /\ GraphInv(blocks, calls, ins) /\ blocks \in Seq(BasicBlock)
      /\ ins \in 1 .. Len(blocks) /\ Len(blocks) \in Nat /\ ret \in Values /\ top.kept \in Values
      /\ HoldsBlocks(blocks, top)
  BY At_Facts
<1>2. ~At({"WHILE_STMT"}, 1) /\ ~At({"WHILE_STMT"}, 3)
  BY <1>1 DEF At
<1>3. /\ blocks' = Emit(tested, ins, i) /\ ins' = l
      /\ CallKeeping(node.left, top.kept, top.at) /\ UNCHANGED ret
  BY <1>2 DEF exec_while_codegen, Call
<1>4. /\ Loose(top) = {} /\ Mine(top) = {top.at[1], l, a} /\ Unlinked(top) = {l, a}
      /\ Mine(top) \subseteq 2 .. Len(blocks) /\ l # a /\ l # ins /\ a # ins
      /\ After(blocks, l) = {} /\ After(blocks, a) = {}
      /\ \A b \in Mine(top) : Phis(blocks, b) = {}
  BY Loop_Facts
<1>5. cond \in Values
  BY <1>1, Place_Values, Int_Types
<1>6. SameGraph(blocks, tested)
  <2>1. Const("i1", 1) \in Values
    <3>1. 1 \in Int /\ "i1" \in Integer \cup {"double"}
      BY Int_Types
    <3> HIDE DEF l, a, f, test, cond, tested, i
    <3>. QED
      BY <3>1, Operand_Values
  <2>2. test \in Instruction /\ test.op \notin {"br", "condbr", "phi"}
    BY <1>1, <2>1, Instructions
  <2> HIDE DEF test
  <2>3. CASE ret.const
    BY <1>1, <2>3 DEF SameGraph
  <2>4. CASE ~ret.const
    BY <1>1, <2>2, <2>4, Quiet_Emit
  <2>. QED
    BY <2>3, <2>4
<1>7. f.node.op = "WHILE_STMT" /\ f.stage = 3 /\ f.at = top.at
  BY <1>1 DEF NextFrame
<1>8. LoopAt(top, 2)
  BY <1>1 DEF LoopAt
<1>9. HoldsBlocks(blocks, f)
  BY <1>1, <1>7, <1>8 DEF HoldsBlocks, IfAt, LoopAt
<1>10. /\ Loose(f) = {} /\ Fresh(f) = {a} /\ Unlinked(f) = {} /\ Mine(f) = {top.at[1], a}
       /\ ~IfAt(f, 3) /\ ~IfAt(f, 4) /\ ~LoopAt(f, 2)
  BY <1>7 DEF Loose, Fresh, Unlinked, Mine, IfAt, LoopAt
<1> HIDE DEF l, a, test, cond, tested, i
<1>11. i \in Instruction /\ i.op # "phi" /\ Targets(i) = {l, a}
  <2>1. l \in Nat /\ a \in Nat
    BY <1>4
  <2>. QED
    BY <1>5, <2>1, Instructions, Instruction_Targets DEF i
<1>12. tested \in Seq(BasicBlock) /\ Len(tested) = Len(blocks) /\ ins \in 1 .. Len(tested)
  BY <1>1, <1>6 DEF SameGraph
<1>13. Branches(tested, Emit(tested, ins, i), ins, Targets(i)) /\ Len(Emit(tested, ins, i)) = Len(tested)
  BY <1>11, <1>12, Emit_Branches
<1>14. Branches(blocks, blocks', ins, {l, a}) /\ Len(blocks') = Len(blocks)
  <2>1. Branches(tested, blocks', ins, {l, a})
    BY <1>3, <1>11, <1>13
  <2>2. Branches(blocks, blocks', ins, {l, a})
    BY <1>1, <1>6, <2>1, Same_Then_Branches
  <2>. QED
    BY <1>3, <1>12, <1>13, <2>2
<1>15. Grows(blocks, blocks', ins, {l, a}) /\ blocks' \in Seq(BasicBlock) /\ NewIn(blocks, blocks') = {}
  BY <1>1, <1>14 DEF Branches, NewIn
<1>16. Len(blocks') >= Len(blocks) /\ Len(blocks') \in Nat
  BY <1>1, <1>14
<1>17. HoldsBlocks(blocks', f)
  BY <1>1, <1>9, <1>16, HoldsBlocks_Longer
<1> HIDE DEF f
<1>18. \A b \in Mine(top) : Phis(blocks', b) = {}
  <2>1. Mine(top) \subseteq 1 .. Len(blocks)
    BY <1>1, <1>4
  <2>2. \A b \in 1 .. Len(blocks) : Phis(blocks', b) = Phis(blocks, b)
    BY <1>14 DEF Branches
  <2>. QED
    BY <1>4, <2>1, <2>2
<1>19. After(blocks', l) = {} /\ After(blocks', a) = {}
  BY <1>4, <1>15 DEF Grows
<1>20. FrameIsSound(blocks', f)
  BY <1>4, <1>10, <1>14, <1>18, <1>19 DEF FrameIsSound
<1>21. HandsOver(blocks, blocks', top, f, {l, a}, {}, ins, ins')
  <2>1. ins' \in Mine(top) /\ ins' \in 1 .. Len(blocks') /\ ins' \notin Fresh(f) /\ After(blocks', ins') = {}
    BY <1>3, <1>4, <1>10, <1>14, <1>19
  <2>. QED
    BY <1>4, <1>10, <1>14, <1>15, <1>20, <2>1 DEF HandsOver, Branches
<1>22. node.left \in Node /\ 2 \in 1 .. 3
  BY <1>1, Node_Parts
<1>. QED
  BY <1>1, <1>3, <1>15, <1>16, <1>17, <1>21, <1>22, Growing_Call DEF f

LEMMA While_Leaves ==
  ASSUME GenInv, At({"WHILE_STMT"}, 3), exec_while_codegen, UNCHANGED body
  PROVE  GenInv'
<1> DEFINE c == top.at[1]
           a == top.at[3]
           f == Frame(node)
           i == Br(c)
<1>1. /\ node \in Node /\ node.op = "WHILE_STMT" /\ node = top.node /\ top.stage = 3
      /\ blocks \in Seq(BasicBlock) /\ ins \in 1 .. Len(blocks) /\ Len(blocks) \in Nat
      /\ ret \in Values
  BY At_Facts
<1>2. ~At({"WHILE_STMT"}, 1) /\ ~At({"WHILE_STMT"}, 2)
  BY <1>1 DEF At
<1>3. blocks' = Emit(blocks, ins, i) /\ ins' = a /\ Return(ret)
  BY <1>2 DEF exec_while_codegen, LoopBack
<1>4. /\ Loose(top) = {} /\ {c, a} \subseteq Mine(top) /\ Unlinked(top) = {}
      /\ Mine(top) \subseteq 2 .. Len(blocks) /\ a # ins /\ After(blocks, a) = {}
  BY Loop_Facts
<1> HIDE DEF c, a, i
<1>5. i \in Instruction /\ i.op # "phi" /\ Targets(i) = {c}
  <2>1. c \in Nat
    BY <1>4
  <2>. QED
    BY <2>1, Instructions, Instruction_Targets DEF i
<1>6. Branches(blocks, Emit(blocks, ins, i), ins, Targets(i)) /\ Len(Emit(blocks, ins, i)) = Len(blocks)
  BY <1>1, <1>5, Emit_Branches
<1>7. Branches(blocks, blocks', ins, {c}) /\ Len(blocks') = Len(blocks)
  BY <1>3, <1>5, <1>6
<1>8. Grows(blocks, blocks', ins, {c}) /\ blocks' \in Seq(BasicBlock) /\ NewIn(blocks, blocks') = {}
  BY <1>1, <1>7 DEF Branches, NewIn
<1>9. Idle(f)
  BY <1>1, Frame_Idle
<1> HIDE DEF f
<1>10. Mine(f) = {} /\ Fresh(f) = {} /\ FrameIsSound(blocks', f)
  BY <1>9, Idle_Sound DEF Idle
<1>11. HandsOver(blocks, blocks', top, f, {c}, {}, ins, ins')
  <2>1. ins' \in Mine(top) /\ ins' \in 1 .. Len(blocks') /\ After(blocks', ins') = {}
    BY <1>3, <1>4, <1>7, <1>8 DEF Grows
  <2>. QED
    BY <1>4, <1>7, <1>8, <1>10, <2>1 DEF HandsOver, Branches
<1>12. Len(blocks') >= Len(blocks)
  BY <1>1, <1>7
<1>. QED
  BY <1>1, <1>3, <1>8, <1>11, <1>12, Growing_Return DEF f

LEMMA While_Step ==
  ASSUME GenInv, exec_while_codegen, UNCHANGED body
  PROVE  GenInv'
<1>1. CASE At({"WHILE_STMT"}, 2)
  <2>1. top.stage = 2
    BY <1>1 DEF At
  <2>2. ~At({"WHILE_STMT"}, 1) /\ ~At({"WHILE_STMT"}, 3)
    BY <2>1 DEF At
  <2>3. CASE ret.ty # "i1"
    BY <2>2, <2>3, Gen_Unchanged DEF exec_while_codegen, Malformed
  <2>. QED
    BY <1>1, <2>3, While_Tests
<1>. QED
  BY <1>1, While_Enters, While_Leaves DEF exec_while_codegen

-----------------------------------------------------------------------------
(***************************************************************************)
(* The last return, the first state, and every step between them.          *)
(***************************************************************************)
LEMMA Same_Graph ==
  ASSUME NEW bs \in Seq(BasicBlock), NEW bs2, SameGraph(bs, bs2), NEW cs, NEW n,
         GraphInv(bs, cs, n)
  PROVE  GraphInv(bs2, cs, n)
<1>1. /\ Len(bs2) = Len(bs) /\ Len(bs) \in Nat
      /\ \A b \in 1 .. Len(bs) : /\ After(bs2, b) = After(bs, b) /\ Phis(bs2, b) = Phis(bs, b)
                                 /\ bs[b].attached => bs2[b].attached
  BY DEF SameGraph
<1>2. \A b : Into(bs2, b) = Into(bs, b)
  BY <1>1 DEF Into
<1>3. \A b : Reached(bs, b) => Reached(bs2, b)
  <2> TAKE b
  <2>1. \A C \in SUBSET (1 .. Len(bs)) :
          (\A a \in C : After(bs2, a) \subseteq C) => \A a \in C : After(bs, a) \subseteq C
    BY <1>1
  <2>. QED
    BY <1>1, <2>1 DEF Reached
<1>4. EdgesInside(bs2)
  BY <1>1 DEF GraphInv, EdgesInside
<1>5. FramesAreSound(bs2, cs)
  <2> SUFFICES ASSUME NEW c \in 1 .. Len(cs)
               PROVE  FrameIsSound(bs2, cs[c])
    BY DEF FramesAreSound
  <2> DEFINE f == cs[c]
  <2>1. FrameIsSound(bs, f)
    BY DEF GraphInv, FramesAreSound
  <2> HIDE DEF f
  <2>2. Mine(f) \subseteq 1 .. Len(bs) /\ Fresh(f) \subseteq Mine(f)
    BY <1>1, <2>1, Hands DEF FrameIsSound
  <2>3. \A b \in Mine(f) : Phis(bs2, b) = Phis(bs, b) /\ After(bs2, b) = After(bs, b)
    BY <1>1, <2>2
  <2>4. FrameIsSound(bs2, f)
    BY <1>1, <1>2, <2>1, <2>2, <2>3 DEF FrameIsSound
  <2>. QED
    BY <2>4 DEF f
<1>6. InsertionIsOpen(bs2, cs, n)
  BY <1>1 DEF GraphInv, InsertionIsOpen
<1>7. AttachedOrLoose(bs2, cs)
  BY <1>1 DEF GraphInv, AttachedOrLoose
<1>8. ReachedOrUnlinked(bs2, cs)
  BY <1>1, <1>3 DEF GraphInv, ReachedOrUnlinked
<1>9. PhisAreComplete(bs2)
  BY <1>1, <1>2 DEF GraphInv, PhisAreComplete
<1>. QED
  BY <1>4, <1>5, <1>6, <1>7, <1>8, <1>9 DEF GraphInv

LEMMA Return_Step ==
  ASSUME GenInv, makeReturn, UNCHANGED body
  PROVE  GenInv'
<1> DEFINE i == [op |-> "ret", arg |-> ret]
<1>1. CASE ret.ty # "i32"
  BY <1>1, Gen_Unchanged DEF makeReturn, Malformed
<1>2. CASE ret.ty = "i32"
  <2>1. /\ blocks \in Seq(BasicBlock) /\ ins \in 1 .. Len(blocks) /\ Len(blocks) \in Nat
        /\ ret \in Values /\ calls \in Seq(Activation) /\ body \in Node
        /\ FramesHoldBlocks(blocks, calls) /\ GraphInv(blocks, calls, ins)
    BY DEF GenInv, Shapes
  <2>2. i \in Instruction /\ i.op = "ret"
    BY <2>1, Instructions
  <2>3. blocks' = Emit(blocks, ins, i) /\ calls' = calls /\ ret' = ret /\ ins' = ins
    BY <1>2 DEF makeReturn
  <2> HIDE DEF i
  <2>4. SameGraph(blocks, Emit(blocks, ins, i))
    BY <2>1, <2>2, Quiet_Emit
  <2>5. GraphInv(Emit(blocks, ins, i), calls, ins)
    BY <2>1, <2>4, Same_Graph
  <2>6. /\ Emit(blocks, ins, i) \in Seq(BasicBlock)
        /\ Len(Emit(blocks, ins, i)) = Len(blocks)
    BY <2>4 DEF SameGraph
  <2>7. FramesHoldBlocks(Emit(blocks, ins, i), calls)
    BY <2>1, <2>6 DEF FramesHoldBlocks, HoldsBlocks
  <2> HIDE DEF Emit
  <2>8. GraphInv(blocks', calls', ins') /\ FramesHoldBlocks(blocks', calls')
    BY <2>3, <2>5, <2>7
  <2>. QED
    BY <2>1, <2>3, <2>6, <2>8 DEF GenInv, Shapes
<1>. QED
  BY <1>1, <1>2

LEMMA GenInv_Init == Init => GenInv
<1> SUFFICES ASSUME Init
             PROVE  GenInv
  OBVIOUS
<1> DEFINE f == Frame(body)
           B == EmptyBlock(TRUE)
<1>1. body \in Node /\ calls = <<f>> /\ ret = NoValue /\ blocks = <<B>> /\ ins = 1
  BY Node_Parts DEF Init
<1>2. B \in BasicBlock /\ B.code = <<>> /\ B.attached
  BY DEF EmptyBlock, BasicBlock
<1>3. f \in Activation /\ Idle(f) /\ HoldsBlocks(blocks, f)
  BY <1>1, Frame_Idle
<1> HIDE DEF f, B
<1>4. Len(blocks) = 1 /\ blocks[1] = B /\ blocks \in Seq(BasicBlock)
  BY <1>1, <1>2
<1>5. Len(calls) = 1 /\ calls[1] = f /\ calls \in Seq(Activation)
  BY <1>1, <1>3
<1>6. 1 .. Len(blocks) = {1} /\ 1 .. Len(calls) = {1}
  BY <1>4, <1>5
<1>7. After(blocks, 1) = {} /\ Phis(blocks, 1) = {}
  BY <1>2, <1>4, Empty_Code
<1>8. Mine(f) = {} /\ Fresh(f) = {} /\ FrameIsSound(blocks, f)
  BY <1>3, Idle_Sound DEF Idle
<1>9. ret \in Values
  BY <1>1, Operand_Values
<1>10. Shapes
  BY <1>1, <1>3, <1>4, <1>5, <1>6, <1>9 DEF Shapes, FramesHoldBlocks
<1>11. Reached(blocks, 1)
  BY DEF Reached
<1>12. EdgesInside(blocks) /\ PhisAreComplete(blocks)
  BY <1>6, <1>7 DEF EdgesInside, PhisAreComplete
<1>13. FramesAreSound(blocks, calls) /\ FramesAreApart(calls)
  BY <1>5, <1>6, <1>8 DEF FramesAreSound, FramesAreApart
<1>14. InsertionIsOpen(blocks, calls, ins)
  BY <1>1, <1>5, <1>6, <1>7, <1>8 DEF InsertionIsOpen
<1>15. AttachedOrLoose(blocks, calls) /\ ReachedOrUnlinked(blocks, calls)
  BY <1>2, <1>4, <1>6, <1>11 DEF AttachedOrLoose, ReachedOrUnlinked
<1>. QED
  BY <1>10, <1>12, <1>13, <1>14, <1>15 DEF GenInv, GraphInv

LEMMA GenInv_Next ==
  ASSUME GenInv, [Next]_all
  PROVE  GenInv'
<1>1. CASE Generate
  <2>1. UNCHANGED body
    BY <1>1 DEF Generate
  <2>2. CASE eval_node_value_codegen
    BY <2>1, <2>2, Value_Step
  <2>3. CASE exec_get_var_codegen
    BY <2>1, <2>3, GetVar_Step
  <2>4. CASE exec_operand
    BY <2>1, <2>4, Operand_Step
  <2>5. CASE exec_set_var_codegen
    BY <2>1, <2>5, SetVar_Step
  <2>6. CASE exec_print_codegen
    BY <2>1, <2>6, Print_Step
  <2>7. CASE exec_seq_codegen
    BY <2>1, <2>7, Seq_Step
  <2>8. CASE exec_cmp_codegen
    BY <2>1, <2>8, Cmp_Step
  <2>9. CASE exec_calc_codegen
    BY <2>1, <2>9, Calc_Step
  <2>10. CASE exec_if_codegen
    BY <2>1, <2>10, If_Step
  <2>11. CASE exec_while_codegen
    BY <2>1, <2>11, While_Step
  <2>12. CASE makeReturn
    BY <2>1, <2>12, Return_Step
  <2>. QED
    BY <1>1, <2>2, <2>3, <2>4, <2>5, <2>6, <2>7, <2>8, <2>9, <2>10, <2>11, <2>12 DEF Generate
<1>2. CASE Load
  BY <1>2, Gen_Unchanged DEF Load
<1>3. CASE Run
  BY <1>3, Gen_Unchanged DEF Run
<1>4. CASE UNCHANGED all
  BY <1>4, Gen_Unchanged DEF all
<1>. QED
  BY <1>1, <1>2, <1>3, <1>4 DEF Next

-----------------------------------------------------------------------------
(***************************************************************************)
(* A finished function has no frame left, so that nothing is in hand.      *)
(***************************************************************************)
LEMMA Generate_Phase ==
  ASSUME Generate
  PROVE  /\ phase = "codegen" /\ phase' \in {"codegen", "malformed", "written"}
         /\ phase' = "written" => calls' = <<>>
         /\ UNCHANGED run
<1>1. UNCHANGED run
  BY DEF Generate
<1>2. CASE makeReturn
  BY <1>1, <1>2 DEF makeReturn, Malformed
<1>3. CASE ~makeReturn
  <2>1. phase = "codegen"
    BY <1>3 DEF Generate, At, eval_node_value_codegen, exec_get_var_codegen, exec_operand,
                exec_set_var_codegen, exec_print_codegen, exec_seq_codegen, exec_cmp_codegen,
                exec_calc_codegen, exec_if_codegen, exec_while_codegen
  <2>2. phase' \in {"codegen", "malformed"}
    <3>1. CASE \/ eval_node_value_codegen \/ exec_get_var_codegen \/ exec_operand
               \/ exec_set_var_codegen \/ exec_print_codegen \/ exec_seq_codegen
      BY <2>1, <3>1 DEF Malformed, eval_node_value_codegen, exec_get_var_codegen, exec_operand,
                        exec_set_var_codegen, exec_print_codegen, exec_seq_codegen
    <3>2. CASE exec_cmp_codegen
      BY <2>1, <3>2 DEF Malformed, exec_cmp_codegen
    <3>3. CASE exec_calc_codegen
      BY <2>1, <3>3 DEF Malformed, exec_calc_codegen
    <3>4. CASE exec_if_codegen
      BY <2>1, <3>4 DEF Malformed, exec_if_codegen
    <3>5. CASE exec_while_codegen
      BY <2>1, <3>5 DEF Malformed, exec_while_codegen
    <3>. QED
      BY <1>3, <3>1, <3>2, <3>3, <3>4, <3>5 DEF Generate
  <2>. QED
    BY <1>1, <2>1, <2>2
<1>. QED
  BY <1>2, <1>3

LEMMA PhaseInv_Next ==
  ASSUME PhaseInv, [Next]_all
  PROVE  PhaseInv'
<1>1. CASE Generate
  BY <1>1, Generate_Phase DEF PhaseInv, Generated, Started, run
<1>2. CASE Load
  BY <1>2 DEF Load, PhaseInv, Generated, Started, gen
<1>3. CASE Run
  <2>1. phase = "running" /\ phase' \in {"running", "exited", "stuck"} /\ UNCHANGED calls
    BY <1>3 DEF Run, gen, Ready, RunValue, RunStore, RunPrint, RunBranch, RunReturn, RunStuck
  <2>. QED
    BY <2>1 DEF PhaseInv, Generated, Started
<1>4. CASE UNCHANGED all
  BY <1>4 DEF all, gen, run, PhaseInv, Generated, Started
<1>. QED
  BY <1>1, <1>2, <1>3, <1>4 DEF Next

LEMMA Finished_Facts ==
  ASSUME GenInv, calls = <<>>
  PROVE  /\ Attached = 1 .. Len(blocks)
         /\ \A b \in 1 .. Len(blocks) : /\ Reached(blocks, b)
                                        /\ Successors(b) = After(blocks, b)
                                        /\ Successors(b) \subseteq 2 .. Len(blocks)
                                        /\ Predecessors(b) = Into(blocks, b)
         /\ PhisAreComplete(blocks) /\ Len(blocks) \in Nat \ {0}
<1>1. /\ EdgesInside(blocks) /\ AttachedOrLoose(blocks, calls)
      /\ ReachedOrUnlinked(blocks, calls) /\ PhisAreComplete(blocks)
      /\ ins \in 1 .. Len(blocks) /\ blocks \in Seq(BasicBlock)
  BY DEF GenInv, GraphInv, Shapes
<1>2. 1 .. Len(calls) = {} /\ Len(blocks) \in Nat \ {0}
  BY <1>1
<1>3. Attached = 1 .. Len(blocks)
  BY <1>1, <1>2 DEF Attached, AttachedOrLoose
<1>4. \A b \in 1 .. Len(blocks) : Reached(blocks, b)
  BY <1>1, <1>2 DEF ReachedOrUnlinked
<1>5. \A b : Successors(b) = After(blocks, b)
  BY DEF Successors, After, Code
<1>6. \A b : Predecessors(b) = Into(blocks, b)
  BY <1>3, <1>5 DEF Predecessors, Into
<1>7. \A b \in 1 .. Len(blocks) : Successors(b) \subseteq 2 .. Len(blocks)
  BY <1>1, <1>5 DEF EdgesInside
<1>. QED
  BY <1>1, <1>2, <1>3, <1>4, <1>5, <1>6, <1>7

LEMMA Phis_Are_Complete ==
  ASSUME GenInv, calls = <<>>
  PROVE  PhiMatchesPredecessors
<1> SUFFICES ASSUME NEW b \in Attached, NEW i \in 1 .. Len(Code(b)), Code(b)[i].op = "phi"
             PROVE  /\ {f[1] : f \in Code(b)[i].from} = Predecessors(b)
                    /\ Cardinality(Code(b)[i].from) = Cardinality(Predecessors(b))
  BY DEF PhiMatchesPredecessors
<1>1. b \in 1 .. Len(blocks) /\ Predecessors(b) = Into(blocks, b) /\ PhisAreComplete(blocks)
  BY Finished_Facts
<1>2. Code(b)[i].from \in Phis(blocks, b)
  BY DEF Phis, Code
<1>. QED
  BY <1>1, <1>2 DEF PhisAreComplete

LEMMA Blocks_Are_Connected ==
  ASSUME GenInv, calls = <<>>
  PROVE  BlocksConnected
<1>1. /\ Attached = 1 .. Len(blocks) /\ Len(blocks) \in Nat \ {0}
      /\ \A b \in 1 .. Len(blocks) : /\ Reached(blocks, b)
                                     /\ Successors(b) = After(blocks, b)
                                     /\ Successors(b) \subseteq 2 .. Len(blocks)
  BY Finished_Facts
<1>2. \A b \in Attached : Successors(b) \subseteq Attached
  BY <1>1
<1>3. ASSUME NEW S \in SUBSET (2 .. Len(blocks)), S # {},
             \A b \in Attached \ S : Successors(b) \cap S = {}
      PROVE  FALSE
  <2> DEFINE C == (1 .. Len(blocks)) \ S
  <2>1. 1 \in C /\ C \in SUBSET (1 .. Len(blocks))
    BY <1>1
  <2>2. \A a \in C : After(blocks, a) \subseteq C
    BY <1>1, <1>3
  <2>3. PICK b \in S : b \in 1 .. Len(blocks)
    <3>1. PICK b : b \in S
      BY <1>3
    <3>2. b \in 2 .. Len(blocks)
      BY <1>3, <3>1
    <3>. QED
      BY <1>1, <3>1, <3>2
  <2>4. b \notin C
    BY <2>3
  <2> HIDE DEF C
  <2>5. b \in C
    BY <1>1, <2>1, <2>2, <2>3 DEF Reached
  <2>. QED
    BY <2>4, <2>5
<1>. QED
  BY <1>1, <1>2, <1>3 DEF BlocksConnected

-----------------------------------------------------------------------------
(***************************************************************************)
(* The running function.  Its numbers are words; control follows edges.    *)
(***************************************************************************)
LEMMA Words ==
  /\ \A n \in Int : Wrap(n) \in Word
  /\ \A condition : Bit(condition) \in Word
  /\ \A n : PrintfResult(n) \in Word
  /\ 0 \in Word
<1>1. \A n \in Int : Wrap(n) \in Word
  BY ModulusAssumption DEF Wrap, Word
<1>2. \A condition : Bit(condition) \in Word
  BY ModulusAssumption DEF Bit, Word
<1>3. \A n : PrintfResult(n) \in Word
  <2> TAKE n
  <2>1. (IF Signed(n) < 0 THEN 11 ELSE 10) \in Int
    OBVIOUS
  <2>. QED
    BY <1>1, <2>1 DEF PrintfResult
<1>4. 0 \in Word
  BY ModulusAssumption DEF Word
<1>. QED
  BY <1>1, <1>2, <1>3, <1>4

(* Where control is while the function runs. *)
LEMMA Run_Facts ==
  ASSUME GenInv, RunInv, phase = "running"
  PROVE  /\ block \in 1 .. Len(blocks) /\ Len(blocks) \in Nat
         /\ pc \in 1 .. Len(Code(block)) /\ Code(block) \in Seq(Instruction)
         /\ instr \in Instruction /\ Terminated(block)
         /\ Targets(instr) \subseteq Successors(block)
         /\ calls = <<>>
<1>1. /\ block \in 1 .. Len(blocks) /\ pc \in 1 .. Len(Code(block)) /\ Terminated(block)
      /\ calls = <<>>
  BY DEF RunInv, PhaseInv, ControlInv, Started, Generated
<1>2. blocks \in Seq(BasicBlock)
  BY DEF GenInv, Shapes
<1>3. Code(block) \in Seq(Instruction) /\ Len(blocks) \in Nat
  BY <1>1, <1>2, Block_Shape DEF Code
<1>4. instr \in Instruction
  BY <1>1, <1>3 DEF instr
<1>5. Targets(instr) \subseteq Successors(block)
  BY <1>1 DEF Successors, instr
<1>. QED
  BY <1>1, <1>3, <1>4, <1>5

(* An instruction that is no terminator has one behind it. *)
LEMMA Next_Instruction ==
  ASSUME GenInv, RunInv, phase = "running", instr.op \notin Terminators
  PROVE  pc + 1 \in 1 .. Len(Code(block))
<1>1. pc \in 1 .. Len(Code(block)) /\ Code(block) \in Seq(Instruction) /\ Terminated(block)
  BY Run_Facts
<1>2. pc # Len(Code(block))
  BY <1>1 DEF Terminated, instr
<1>. QED
  BY <1>1, <1>2

LEMMA Operand_Facts ==
  ASSUME NEW i \in Instruction
  PROVE  /\ i.op = "load" => i.var \in Var
         /\ i.op = "store" => i.var \in Var /\ i.arg \in Values
         /\ i.op \in {"print", "ret"} => i.arg \in Values
         /\ i.op \in {"add", "slt", "eq"} => i.lhs \in Values /\ i.rhs \in Values
         /\ i.op = "phi" => i.from \in SUBSET (Nat \X Values) /\ i.from # {}
BY DEF Instruction

LEMMA Value_Word ==
  ASSUME DataInv, NEW v \in Values, Assigned(v)
  PROVE  Value(v) \in Word
<1>1. v.n \in Int
  BY Operand_Values
<1>. QED
  BY <1>1, Words DEF DataInv, Assigned, Value

(* A phi has a source for the block control came from. *)
LEMMA Phi_Operands ==
  ASSUME GenInv, RunInv, phase = "running", instr.op = "phi"
  PROVE  Operands(instr) # {} /\ Operands(instr) \subseteq Values
<1> DEFINE from == instr.from
<1>1. /\ block \in 1 .. Len(blocks) /\ pc \in 1 .. Len(Code(block)) /\ instr \in Instruction
      /\ calls = <<>>
  BY Run_Facts
<1>2. from \in SUBSET (Nat \X Values) /\ from # {}
  BY <1>1, Operand_Facts
<1>3. from \in Phis(blocks, block)
  BY <1>1 DEF Phis, instr, Code
<1>4. /\ PhisAreComplete(blocks)
      /\ \A b \in 1 .. Len(blocks) : Successors(b) = After(blocks, b) /\ Successors(b) \subseteq 2 .. Len(blocks)
  BY <1>1, Finished_Facts
<1>5. {f[1] : f \in from} = Into(blocks, block)
  BY <1>1, <1>3, <1>4 DEF PhisAreComplete
<1>6. Operands(instr) = {f[2] : f \in {g \in from : g[1] = prev}}
  BY DEF Operands
<1> HIDE DEF from
<1>7. PICK f \in from : TRUE
  BY <1>2
<1>8. f[1] \in Into(blocks, block)
  BY <1>5, <1>7
<1>9. block # 1
  BY <1>1, <1>4, <1>8 DEF Into
<1>10. prev \in 1 .. Len(blocks) /\ block \in Successors(prev)
  BY <1>9 DEF RunInv, ControlInv, Started
<1>11. prev \in Into(blocks, block)
  BY <1>4, <1>10 DEF Into
<1>12. PICK g \in from : g[1] = prev
  BY <1>5, <1>11
<1>13. g[2] \in Operands(instr)
  BY <1>6, <1>12
<1>14. Operands(instr) \subseteq Values
  BY <1>2, <1>6
<1>. QED
  BY <1>13, <1>14

LEMMA Result_Word ==
  ASSUME GenInv, RunInv, Ready
  PROVE  Result(instr) \in Word
<1>1. phase = "running" /\ instr \in Instruction /\ DataInv
      /\ \A v \in Operands(instr) : Assigned(v)
  BY Run_Facts DEF Ready, RunInv
<1>2. CASE instr.op = "load"
  <2>1. instr.var \in Var
    BY <1>1, <1>2, Operand_Facts
  <2>. QED
    BY <1>1, <1>2, <2>1 DEF Result, DataInv
<1>3. CASE instr.op = "add"
  <2>1. /\ instr.lhs \in Values /\ instr.rhs \in Values
        /\ Assigned(instr.lhs) /\ Assigned(instr.rhs)
    BY <1>1, <1>3, Operand_Facts DEF Operands
  <2>2. Value(instr.lhs) \in Word /\ Value(instr.rhs) \in Word
    BY <1>1, <2>1, Value_Word
  <2>3. Value(instr.lhs) + Value(instr.rhs) \in Int
    BY <2>2, ModulusAssumption DEF Word
  <2>. QED
    BY <1>3, <2>3, Words DEF Result
<1>4. CASE instr.op \in {"slt", "eq"}
  BY <1>4, Words DEF Result
<1>5. CASE instr.op = "phi"
  <2>1. Operands(instr) # {} /\ Operands(instr) \subseteq Values
    BY <1>1, <1>5, Phi_Operands
  <2> DEFINE v == CHOOSE v \in Operands(instr) : TRUE
  <2>2. v \in Operands(instr)
    BY <2>1
  <2>3. Result(instr) = Value(v)
    BY <1>5 DEF Result
  <2> HIDE DEF v
  <2>. QED
    BY <1>1, <2>1, <2>2, <2>3, Value_Word
<1>6. CASE instr.op \notin {"load", "add", "slt", "eq", "phi"}
  BY <1>6, Words DEF Result
<1>. QED
  BY <1>2, <1>3, <1>4, <1>5, <1>6

LEMMA Assign_Word ==
  ASSUME DataInv, NEW n \in Word, Assign(n)
  PROVE  \A place \in DOMAIN regs' : regs'[place] \in Word
BY DEF Assign, DataInv

LEMMA DataInv_Next ==
  ASSUME GenInv, RunInv, [Next]_all
  PROVE  DataInv'
<1>1. DataInv
  BY DEF RunInv
<1>2. CASE UNCHANGED <<regs, mem, out>>
  BY <1>1, <1>2 DEF DataInv
<1>3. CASE RunValue
  <2>1. UNCHANGED <<mem, out>> /\ Assign(Result(instr)) /\ Result(instr) \in Word
    BY <1>3, Result_Word DEF RunValue
  <2>2. \A place \in DOMAIN regs' : regs'[place] \in Word
    BY <1>1, <2>1, Assign_Word
  <2>. QED
    BY <1>1, <2>1, <2>2 DEF DataInv
<1>4. CASE RunStore
  <2>1. instr \in Instruction /\ instr.op = "store" /\ \A v \in Operands(instr) : Assigned(v)
    BY <1>4, Run_Facts DEF RunStore, Ready
  <2>2. instr.arg \in Values /\ Assigned(instr.arg)
    BY <2>1, Operand_Facts DEF Operands
  <2>3. Value(instr.arg) \in Word
    BY <1>1, <2>2, Value_Word
  <2>4. mem' = [mem EXCEPT ![instr.var] = Value(instr.arg)] /\ UNCHANGED <<regs, out>>
    BY <1>4 DEF RunStore
  <2>5. mem' \in [Var -> Word]
    BY <1>1, <2>3, <2>4 DEF DataInv
  <2>. QED
    BY <1>1, <2>4, <2>5 DEF DataInv
<1>5. CASE RunPrint
  <2>1. instr \in Instruction /\ instr.op = "print" /\ \A v \in Operands(instr) : Assigned(v)
    BY <1>5, Run_Facts DEF RunPrint, Ready
  <2>2. instr.arg \in Values /\ Assigned(instr.arg)
    BY <2>1, Operand_Facts DEF Operands
  <2>3. Value(instr.arg) \in Word
    BY <1>1, <2>2, Value_Word
  <2>4. /\ Len(out) < MaxOut /\ out' = Append(out, Value(instr.arg)) /\ UNCHANGED mem
        /\ Assign(PrintfResult(Value(instr.arg)))
    BY <1>5 DEF RunPrint
  <2>5. \A place \in DOMAIN regs' : regs'[place] \in Word
    BY <1>1, <2>4, Words, Assign_Word
  <2>6. out' \in Seq(Word) /\ Len(out') <= MaxOut
    BY <1>1, <2>3, <2>4, WidthAssumption DEF DataInv
  <2>. QED
    BY <1>1, <2>4, <2>5, <2>6 DEF DataInv
<1>6. CASE Generate \/ Load \/ UNCHANGED all
  <2>1. UNCHANGED <<regs, mem, out>>
    BY <1>6, Generate_Phase DEF Load, all, run
  <2>. QED
    BY <1>2, <2>1
<1>7. CASE RunBranch \/ RunReturn \/ RunStuck
  <2>1. UNCHANGED <<regs, mem, out>>
    BY <1>7 DEF RunBranch, RunReturn, RunStuck, run
  <2>. QED
    BY <1>2, <2>1
<1>. QED
  BY <1>3, <1>4, <1>5, <1>6, <1>7 DEF Next, Run

LEMMA ControlInv_Next ==
  ASSUME GenInv, RunInv, [Next]_all
  PROVE  ControlInv'
<1>1. ControlInv /\ PhaseInv
  BY DEF RunInv
<1>2. CASE Generate
  BY <1>2, Generate_Phase DEF ControlInv, Started
<1>3. CASE Load
  <2>1. CASE phase' = "malformed"
    BY <2>1 DEF ControlInv, Started
  <2>2. CASE phase' # "malformed"
    <3>1. /\ phase' = "running" /\ block' = 1 /\ pc' = 1 /\ prev' = prev /\ blocks' = blocks
          /\ \A b \in Attached : Terminated(b)
          /\ phase = "written"
      BY <1>3, <2>2 DEF Load, gen
    <3>2. calls = <<>> /\ prev = 0
      BY <1>1, <3>1 DEF PhaseInv, Generated, Started
    <3>3. Attached = 1 .. Len(blocks) /\ Len(blocks) \in Nat \ {0} /\ blocks \in Seq(BasicBlock)
      BY <3>2, Finished_Facts DEF GenInv, Shapes
    <3>4. \A b \in 1 .. Len(blocks) : Terminated(b)
      BY <3>1, <3>3
    <3>5. 1 \in 1 .. Len(blocks)
      BY <3>3
    <3>6. 1 \in 1 .. Len(Code(1))
      <4>1. Code(1) \in Seq(Instruction) /\ Code(1) # <<>>
        BY <3>3, <3>4, <3>5, Block_Shape DEF Code, Terminated
      <4>. QED
        BY <4>1
    <3>. QED
      BY <3>1, <3>2, <3>4, <3>5, <3>6 DEF ControlInv, Terminated, Code, Successors
  <2>. QED
    BY <2>1, <2>2
<1>0. Run => blocks' = blocks
  BY DEF Run, gen
<1>4. CASE Run /\ (RunValue \/ RunStore \/ RunPrint)
  <2>1. phase = "running" /\ instr.op \notin Terminators /\ pc' = pc + 1 /\ UNCHANGED <<phase, block, prev>>
    BY <1>4 DEF RunValue, RunStore, RunPrint, Ready, Terminators
  <2>2. UNCHANGED blocks
    BY <1>0, <1>4
  <2>3. pc + 1 \in 1 .. Len(Code(block))
    BY <2>1, Next_Instruction
  <2>. QED
    BY <1>1, <2>1, <2>2, <2>3 DEF ControlInv, Started, Terminated, Code, Successors
<1>5. CASE Run /\ RunBranch
  <2>1. phase = "running" /\ pc' = 1 /\ prev' = block /\ phase' = phase /\ block' \in Targets(instr)
        /\ blocks' = blocks
    BY <1>0, <1>5, Instruction_Targets DEF RunBranch, Ready, Targets
  <2>2. /\ block \in 1 .. Len(blocks) /\ Targets(instr) \subseteq Successors(block) /\ calls = <<>>
        /\ Len(blocks) \in Nat
    BY <2>1, Run_Facts
  <2>3. block' \in Successors(block) /\ Successors(block) \subseteq 2 .. Len(blocks)
    BY <2>1, <2>2, Finished_Facts
  <2>4. block' \in 1 .. Len(blocks)
    BY <2>2, <2>3
  <2>5. \A b \in 1 .. Len(blocks) : Terminated(b)
    BY <1>1, <2>1 DEF ControlInv, Started
  <2>6. 1 \in 1 .. Len(Code(block'))
    <3>1. Code(block') \in Seq(Instruction) /\ Code(block') # <<>>
      BY <2>4, <2>5, Block_Shape DEF Code, Terminated, GenInv, Shapes
    <3>. QED
      BY <3>1
  <2>. QED
    BY <2>1, <2>2, <2>3, <2>4, <2>5, <2>6 DEF ControlInv, Terminated, Code, Successors
<1>6. CASE (Run /\ (RunReturn \/ RunStuck)) \/ UNCHANGED all
  <2>1. /\ UNCHANGED <<blocks, block, pc, prev>>
        /\ phase' = phase \/ (phase = "running" /\ phase' \in {"exited", "stuck"})
    BY <1>0, <1>6 DEF RunReturn, RunStuck, Ready, all, gen, run
  <2>2. Started' => Started
    BY <2>1 DEF Started
  <2>. QED
    BY <1>1, <2>1, <2>2 DEF ControlInv, Terminated, Code, Successors
<1>. QED
  BY <1>2, <1>3, <1>4, <1>5, <1>6 DEF Next, Run

-----------------------------------------------------------------------------
(***************************************************************************)
(* The invariant holds, and the properties follow.                         *)
(***************************************************************************)
LEMMA CInv_Init == Init => CInv
<1> SUFFICES ASSUME Init
             PROVE  CInv
  OBVIOUS
<1>1. GenInv
  BY GenInv_Init
<1>2. PhaseInv /\ ControlInv
  BY DEF Init, PhaseInv, ControlInv, Generated, Started
<1>3. DataInv
  <2>1. mem \in [Var -> Word] /\ out = <<>> /\ DOMAIN regs = {}
    BY Words DEF Init
  <2>. QED
    BY <2>1, WidthAssumption DEF DataInv
<1>. QED
  BY <1>1, <1>2, <1>3 DEF CInv, RunInv

LEMMA CInv_Next == CInv /\ [Next]_all => CInv'
<1> SUFFICES ASSUME CInv, [Next]_all
             PROVE  CInv'
  OBVIOUS
<1>. QED
  BY GenInv_Next, PhaseInv_Next, ControlInv_Next, DataInv_Next DEF CInv, RunInv

LEMMA CInv_Shapes == CInv => TypeOK
<1> SUFFICES ASSUME CInv
             PROVE  TypeOK
  OBVIOUS
<1>1. GenInv /\ PhaseInv /\ ControlInv /\ DataInv /\ blocks \in Seq(BasicBlock)
      /\ calls \in Seq(Activation) /\ ret \in Values /\ ins \in 1 .. Len(blocks)
      /\ Len(blocks) \in Nat
  BY DEF CInv, RunInv, GenInv, Shapes
<1>2. ASSUME NEW c \in 1 .. Len(calls)
      PROVE  calls[c].stage \in 1 .. 4 /\ calls[c].kept \in Values /\ calls[c].at \in Seq(1 .. Len(blocks))
  <2> DEFINE A == Activation
  <2>1. calls \in Seq(A)
    BY <1>1
  <2> HIDE DEF A
  <2>2. calls[c] \in A
    BY <2>1
  <2>3. calls[c].at \in Seq(1 .. Len(blocks))
    BY <1>1 DEF GenInv, Shapes, FramesHoldBlocks, HoldsBlocks
  <2>. QED
    BY <2>2, <2>3 DEF A, Activation
<1>3. \A b \in 1 .. Len(blocks) : blocks[b].attached \in BOOLEAN
  BY <1>1, Block_Shape
<1>4. ins \in Attached
  <2>1. \A c \in 1 .. Len(calls) : ins \notin Loose(calls[c])
    BY <1>1, Hands DEF GenInv, GraphInv, InsertionIsOpen
  <2>. QED
    BY <1>1, <2>1 DEF GenInv, GraphInv, AttachedOrLoose, Attached
<1>5. block \in {0} \cup Attached /\ prev \in {0} \cup Attached
  <2>1. CASE ~Started
    BY <1>1, <2>1 DEF PhaseInv
  <2>2. CASE Started
    <3>1. calls = <<>>
      BY <1>1, <2>2 DEF PhaseInv, Generated, Started
    <3>2. Attached = 1 .. Len(blocks)
      BY <1>1, <3>1, Finished_Facts
    <3>. QED
      BY <1>1, <2>2, <3>2 DEF ControlInv
  <2>. QED
    BY <2>1, <2>2
<1>. QED
  BY <1>1, <1>2, <1>3, <1>4, <1>5 DEF TypeOK, PhaseInv, DataInv, Word

LEMMA CInv_Holds == Spec => []CInv
<1>. QED
  BY CInv_Init, CInv_Next, PTL DEF Spec

(***************************************************************************)
(* The shape of the state; in particular the IRBuilder always inserts into *)
(* a block of the function, the frames' blocks exist, and lli, which       *)
(* verifies nothing, runs a block that exists and computes i32s.           *)
(***************************************************************************)
THEOREM ControlFlow_TypeOK == Spec => []TypeOK
<1>. QED
  BY CInv_Holds, CInv_Shapes, PTL

(***************************************************************************)
(* However `if's nest, in each other, in loops or in operands, each phi of *)
(* exec_if_codegen names exactly the blocks control comes from, each once. *)
(***************************************************************************)
THEOREM ControlFlow_PhiMatchesPredecessors == Spec => []PhiMatchesPredecessors
<1>1. CInv => PhiMatchesPredecessors
  <2>1. CInv /\ Generated => PhiMatchesPredecessors
    BY Phis_Are_Complete DEF CInv, RunInv, PhaseInv
  <2>. QED
    BY <2>1 DEF PhiMatchesPredecessors
<1>. QED
  BY <1>1, CInv_Holds, PTL

(***************************************************************************)
(* However statements nest, every block exec_if_codegen and                *)
(* exec_while_codegen create ends up in the function and is reached from   *)
(* its entry, and nothing branches out of the function.                    *)
(***************************************************************************)
THEOREM ControlFlow_BlocksConnected == Spec => []BlocksConnected
<1>1. CInv => BlocksConnected
  <2>1. CInv /\ Generated => BlocksConnected
    BY Blocks_Are_Connected DEF CInv, RunInv, PhaseInv
  <2>. QED
    BY <2>1 DEF BlocksConnected
<1>. QED
  BY <1>1, CInv_Holds, PTL

=============================================================================

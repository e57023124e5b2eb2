------------------------------ MODULE Layouts ------------------------------
(***************************************************************************)
(* How the code generator turns class declarations into object layouts:    *)
(* exec_def_class_codegen and getFieldDef (src/mugicha_compiler.cpp) with  *)
(* search_ast_by_sym (src/ast.c), KlassDefMap and LLVMStructDef            *)
(* (src/llvm_builder.cpp).                                                 *)
(*                                                                         *)
(* getFieldDef calls itself for the first AST node that bears the name of  *)
(* the superclass.  A step of the model is one of these calls; `climb' has *)
(* the nodes visited since the class was begun, and for each the fields    *)
(* that will follow those of the node.                                     *)
(*                                                                         *)
(* A program is a sequence of declarations.  A class is a record with op   *)
(* ("DEF_CLASS"), sym, super and def_vars; other declarations have op and  *)
(* sym, and whatever the modules that extend this one add.  A field has a  *)
(* name and a kind, its TYPEKIND.                                          *)
(***************************************************************************)
EXTENDS Integers, Sequences, FiniteSets

CONSTANTS
  Declaration,   \* the declarations programs are made of
  Programs,      \* the programs under consideration
  Klass,         \* the names of classes
  KlassRank,     \* the order std::map<std::string, ...> keeps them in
  Member,        \* the names of fields
  JunkMemory     \* whether malloc may return memory that is not zero

None  == "none"     \* no superclass
ID    == "$ID"      \* KLASS_ID_VAL_NAME
Kinds == {"INT", "BOOLTYPE", "DOUBLE", "STRING", "ARRAY", "KLASS"}

FieldDefElem == [name : Member, kind : Kinds]

ASSUME LayoutAssumption ==
  /\ KlassRank \in [Klass -> Nat]
  /\ \A j, k \in Klass : KlassRank[j] = KlassRank[k] => j = k
  /\ ID \notin Member
  /\ None \notin Klass
  /\ JunkMemory \in BOOLEAN
  /\ Programs \subseteq Seq(Declaration)
  /\ \A d \in Declaration :
       d.op = "DEF_CLASS" =>
         /\ d.sym \in Klass
         /\ d.super \in Klass \cup {None}
         /\ d.def_vars \in Seq(FieldDefElem)

VARIABLES
  program,
  phase,          \* "codegen" until compilation fails
  pos,            \* the top-level declaration being compiled
  at,             \* the node getFieldDef has been called for, 0 outside it
  climb,          \* visited nodes |-> the fields that follow theirs
  klass_def_map   \* KlassDefMap::map: [decl, fields] of each class compiled

layout_vars == <<program, phase, pos, at, climb, klass_def_map>>

EmptyMap     == [k \in {} |-> <<>>]
Put(f, x, v) == [y \in DOMAIN f \cup {x} |-> IF y = x THEN v ELSE f[y]]

-----------------------------------------------------------------------------
(***************************************************************************)
(* search_ast_by_sym, from the root: the first declaration that bears the  *)
(* name, whatever it declares.  0 is NULL.                                 *)
(***************************************************************************)
FirstBearing(p, name) ==
  {i \in 1 .. Len(p) : p[i].sym = name /\ \A j \in 1 .. i - 1 : p[j].sym # name}

search_ast_by_sym(p, name) ==
  IF FirstBearing(p, name) = {} THEN 0 ELSE CHOOSE i \in FirstBearing(p, name) : TRUE

(* Only make_ast_def_class sets super_class and def_vars. *)
SuperOf(p, i) == IF p[i].op = "DEF_CLASS" THEN p[i].super ELSE None
Own(p, i)     == IF p[i].op = "DEF_CLASS" THEN p[i].def_vars ELSE <<>>

(***************************************************************************)
(* make_astnode leaves def_vars as malloc returned it.  getFieldDef reads  *)
(* it in a node that is no class, and in the SEQ nodes between two fields. *)
(***************************************************************************)
ReadsJunk(p, i) ==
  IF p[i].op = "DEF_CLASS" THEN Len(p[i].def_vars) > 1 ELSE TRUE

(* getFieldDistance: the distance to the first field of that name, or -1. *)
LastsNamed(fields, name) ==                                       \* mutant
  {i \in 1 .. Len(fields) : /\ fields[i].name = name
                            /\ \A j \in i + 1 .. Len(fields) : fields[j].name # name}
FirstsNamed(fields, name) ==
  {i \in 1 .. Len(fields) : /\ fields[i].name = name
                            /\ \A j \in 1 .. i - 1 : fields[j].name # name}

getFieldDistance(fields, name) ==
  IF FirstsNamed(fields, name) = {} THEN -1
  ELSE (CHOOSE i \in FirstsNamed(fields, name) : TRUE) - 1

IdField == [name |-> ID, kind |-> "INT"]

WithId(fields) == <<IdField>> \o fields

(* astType2LLVMType asserts on any other kind of field. *)
Storable(fields) ==
  \A i \in 1 .. Len(fields) : fields[i].kind \in {"INT", "BOOLTYPE", "DOUBLE", "STRING"}

(* KlassDefMap::getDefId: the distance from begin() in the sorted map. *)
getDefId(k) ==
  Cardinality({j \in DOMAIN klass_def_map : KlassRank[j] < KlassRank[k]})

-----------------------------------------------------------------------------
NothingCompiled ==
  /\ program \in Programs
  /\ pos = 1
  /\ at = 0
  /\ climb = EmptyMap
  /\ klass_def_map = EmptyMap

Fail(how) == phase' = how /\ UNCHANGED <<pos, at, climb, klass_def_map>>

exec_def_class_codegen ==
  /\ phase = "codegen"
  /\ at = 0
  /\ pos <= Len(program)
  /\ program[pos].op = "DEF_CLASS"
  /\ at' = pos
  /\ climb' = Put(EmptyMap, pos, <<>>)
  /\ UNCHANGED <<program, phase, pos, klass_def_map>>

(* Reading junk for def_vars: a call with an address that means nothing. *)
read_junk ==
  /\ phase = "codegen"
  /\ at # 0
  /\ JunkMemory /\ ReadsJunk(program, at)
  /\ Fail("crash")
  /\ UNCHANGED program

(***************************************************************************)
(* The call for the superclass.  One that comes back to a node it has      *)
(* visited goes on until the stack is exhausted.                           *)
(***************************************************************************)
OwnFirst(fields, rest) == rest \o fields                          \* mutant
Before(fields, rest)     == fields \o rest

MissingSoFar(sp) == sp = 0 \/ sp > pos                             \* mutant
Missing(sp)      == sp = 0

ComesBackByName(sp) ==                                            \* mutant
  \E i \in DOMAIN climb : program[i].sym = program[sp].sym
ComesBack(sp) == sp \in DOMAIN climb

getFieldDef ==
  /\ phase = "codegen"
  /\ at # 0
  /\ SuperOf(program, at) # None
  /\ LET sp == search_ast_by_sym(program, SuperOf(program, at)) IN
       \/ /\ Missing(sp)
          /\ Fail("assert")
       \/ /\ ~Missing(sp) /\ ComesBack(sp)
          /\ Fail("crash")
       \/ /\ ~Missing(sp) /\ ~ComesBack(sp)
          /\ climb' = Put(climb, sp, Before(Own(program, at), climb[at]))
          /\ at' = sp
          /\ UNCHANGED <<phase, pos, klass_def_map>>
  /\ UNCHANGED program

SameDeclaration == pos                                            \* mutant
NextButOne      == pos + 2                                        \* mutant
NextDeclaration == pos + 1

(* A second definition of a class replaces the first. *)
makeKlassDef ==
  /\ phase = "codegen"
  /\ at # 0
  /\ SuperOf(program, at) = None
  /\ LET fields == Before(Own(program, at), climb[at]) IN
     IF ~Storable(fields) THEN Fail("assert")
     ELSE /\ klass_def_map' =
               Put(klass_def_map, program[pos].sym,
                   [decl |-> pos, fields |-> WithId(fields)])
          /\ at' = 0
          /\ climb' = EmptyMap
          /\ pos' = NextDeclaration
          /\ UNCHANGED phase
  /\ UNCHANGED program

ClassCodegen ==
  exec_def_class_codegen \/ read_junk \/ getFieldDef \/ makeKlassDef

(* Functions and methods do not touch layouts. *)
PassOver ==
  /\ phase = "codegen"
  /\ pos <= Len(program)
  /\ program[pos].op # "DEF_CLASS"
  /\ pos' = NextDeclaration
  /\ UNCHANGED <<program, phase, at, climb, klass_def_map>>

LayoutNext == ClassCodegen \/ PassOver

LayoutInit == NothingCompiled /\ phase = "codegen"

LayoutSpec == LayoutInit /\ [][LayoutNext]_layout_vars

FairLayoutSpec == LayoutSpec /\ WF_layout_vars(LayoutNext)

-----------------------------------------------------------------------------
KlassDefs == [decl : Nat \ {0}, fields : Seq([name : Member \cup {ID}, kind : Kinds])]

(* Shape of the state. *)
LayoutShape ==
  /\ program \in Programs
  /\ pos \in 1 .. Len(program) + 1
  /\ at \in 0 .. Len(program)
  /\ DOMAIN climb \subseteq 1 .. Len(program)
  /\ \A i \in DOMAIN climb : climb[i] \in Seq(FieldDefElem)
  /\ DOMAIN klass_def_map \subseteq Klass
  /\ \A k \in DOMAIN klass_def_map : klass_def_map[k] \in KlassDefs

LayoutTypeOK == phase \in {"codegen", "assert", "crash"} /\ LayoutShape

(***************************************************************************)
(* The KlassDef of k was made from a declaration whose superclass s has    *)
(* been compiled too, from the node that search_ast_by_sym finds for it.   *)
(***************************************************************************)
Inherits(k, s) ==
  /\ {k, s} \subseteq DOMAIN klass_def_map
  /\ program[klass_def_map[k].decl].super = s
  /\ search_ast_by_sym(program, s) = klass_def_map[s].decl

Fields(k) == klass_def_map[k].fields

(***************************************************************************)
(* Whatever the order of the declarations, and although each class climbs  *)
(* on its own, the layout of a class is that of its superclass followed by *)
(* the fields of its own.                                                  *)
(***************************************************************************)
LayoutsExtend ==
  \A k, s \in DOMAIN klass_def_map :
    Inherits(k, s) => Fields(k) = Fields(s) \o program[klass_def_map[k].decl].def_vars

(***************************************************************************)
(* What makes access through a variable of a superclass work: a member has *)
(* the same index in both layouts, even one the subclass declares again.   *)
(***************************************************************************)
MembersKeepTheirIndex ==
  \A k, s \in DOMAIN klass_def_map : Inherits(k, s) =>
    \A m \in Member :
      getFieldDistance(Fields(s), m) # -1
        => getFieldDistance(Fields(k), m) = getFieldDistance(Fields(s), m)

-----------------------------------------------------------------------------
(***************************************************************************)
(* Failures, read off the program.  The declarations a climb from i goes   *)
(* through: the least set with i and the superclass node of each member.   *)
(***************************************************************************)
SuperNodes(i) ==
  {j \in 1 .. Len(program) :
     SuperOf(program, i) # None /\ j = search_ast_by_sym(program, SuperOf(program, i))}

ClimbFrom(i) ==
  {j \in 1 .. Len(program) :
     \A S \in SUBSET (1 .. Len(program)) :
       (i \in S /\ \A a \in S : SuperNodes(a) \subseteq S) => j \in S}

LayoutAssertHasACause ==
  phase = "assert" =>
    \E i \in ClimbFrom(pos) :
      \/ SuperOf(program, i) # None /\ SuperNodes(i) = {}
      \/ ~Storable(Own(program, i))

LayoutCrashHasACause ==
  phase = "crash" =>
    \/ \A i \in ClimbFrom(pos) : SuperNodes(i) # {}
    \/ JunkMemory /\ \E i \in ClimbFrom(pos) : ReadsJunk(program, i)

(* Every compilation of classes ends, whatever they extend. *)
LayoutsEnd == <>(phase # "codegen" \/ pos > Len(program))
=============================================================================

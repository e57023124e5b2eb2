# MugiCha, verified: a TLA+ project for the MugiCha compiler

MugiCha (`src/`) is a small class-based language. `script/mugichac` runs its
compiler, `mugicha_exec c`, on a program and pipes the LLVM bitcode it prints
into `lli`. Everything happens in one sequential process per stage; what makes
it hard is not concurrency but *shared, order-dependent state*: global tables
that every name goes through, one variable map for all functions, one insertion
point that every code-generating function moves, an LLVM symbol table that is
filled by side effect, and a method array whose indices change while the program
that uses them is being compiled. Whether a call reaches the code it names
depends on the order in which the program happens to declare things.

## 1. Inventory

| part | source | state | operations | what makes it correct |
|---|---|---|---|---|
| Symbol table | `symbol.c` | `syms[SYMBOL_MAX]`, `pos` | `lookup_symbol`, `make_symbol`, `lookup_make_symbol` | a `SYMBOL *` identifies a name, for ever; room is wasted on no duplicate |
| Function table | `func.c` | `funcs[FUNC_MAX]`, `pos` | `lookup_func`, `make_func`, `make_method` | the entry found is the right declaration's |
| Grammar, AST | `mugicha.y`, `ast.c`, `type.c` | the tree; both tables by side effect | one `make_ast_*` per production, bottom-up | names are interned before they are looked up |
| Program driver | `mugicha_compiler.cpp` `do_compile`, `exec_def_*`, `exec_call_*` | LLVM module, `KlassDefMap`, `LLVMVariableMap`, method array | one `exec_*_codegen` per AST operator | each call reaches the body the text prescribes |
| Classes and methods | `llvm_builder.cpp` `KlassDef`, `KlassDefMap`; `getFieldDef` | sorted map of classes, their method maps | `makeKlassDef`, `addMethod`, `getDefId`, `getMethodId`, `setFuncPtrArry` | array index at the call = array index at the store |
| Statements, expressions | `exec_if/while/seq/calc/cmp/print/set_var/get_var_codegen`, `LLVMFuncBuilder`, `LLVMExprBuilder` | basic blocks, the insertion point | recursive walk of a body | well-formed blocks that do what the body says |
| Class layouts | `getFieldDef`, `search_ast_by_sym`, `LLVMStructDef` | the fields of each class in `KlassDefMap` | one recursive climb per class | a subclass's layout extends its superclass's, in any order of declaration |
| Objects | `LLVMVariable`, `LLVMStruct`, `Klass`, `LLVMArray`, the indicators | variables with their types; at run time the heap and the frames | member and array access, `new`, assignment, calls | an access reaches the member the text names, in memory that is still there |
| Insertion point | `IRBuilder`, `LLVMFuncBuilder`, `makeReturn`, the end of `exec_def_func_codegen` | one insertion point for the whole compilation | moved by every definition | instructions end up in the function their text stands in |
| Running program | `lli` (external) | frames, registers, the method array | load, call, return | |
| Lexer | `mugicha.l` | | | not modelled: characters and buffers |
| AST printer | `print_ast` | the buffer of stdout | one walk before code generation | it ends, and does not get between the module and its reader |
| Interpreter's remains | `stack.c`, `callstack.h`, `dynode.h` | | | not modelled: nothing calls them |

How they interact: a grammar action interns names, may look functions up, and
registers callables; the code generator walks the finished tree, looks callables
up again by `SYMBOL *`, finds variables in the one map all scopes share
(`MugichaScopeInfo`'s copy constructor copies the pointer), classes in
`KlassDefMap`, and LLVM functions by name with `getOrInsertFunction`. The method
array is a global of the module: calls index it with constants computed when the
call is compiled, and stores into it are put at the head of `main` when `main`
has been compiled.

The hard behaviours, each with its line, are the `hazards` of `PROJECT.json`.

## 2. Modules

| module | what it models |
|---|---|
| `Symbols` | `symbol.c` as operators on a table value |
| `SymbolTable` | the life of that table: any sequence of calls, and the pointers they handed out |
| `Interner` | abstract: identities are unique and permanent |
| `SymbolTable_proofs` | theorems about `SymbolTable` |
| `Funcs` | `func.c` as operators on a table value |
| `MugiProgram` | programs as sequences of declarations; lexical typing; what an *orderly* program is |
| `Compiler` | one run of `mugichac`: parse actions, code generation, `lli`; composes `Symbols` and `Funcs` |
| `Compiler_proofs` | theorems about `Compiler` |
| `Calls_proofs` | theorems about which method a call reaches, which calls stay unresolved and what assertions are due to; rests on the invariant of `Compiler_proofs` |
| `SourceSemantics` | abstract: what an orderly program does, told in terms of its text |
| `Source_proofs` | the theorem that compiling and running an orderly program implements `SourceSemantics`; rests on the two others |
| `ControlFlow` | the code of one function body: basic blocks, insertion point, and their execution |
| `ControlFlow_proofs` | theorems about `ControlFlow` |
| `StatementSemantics` | a big-step meaning of bodies, their types, and the statements that relate both to `ControlFlow` (recursive operators, TLC only) |
| `Layouts` | compiling classes: the climb of `getFieldDef` call by call, the tree search, the uninitialised fields |
| `Layouts_proofs` | theorems about `Layouts` |
| `Objects` | variables, members, arrays, `new` and calls from the text to memory; extends `Layouts` |
| `ObjectTypes` | a type discipline on the text, which the compiler does not have |
| `ObjectSemantics` | abstract: objects with named members and no memory |
| `ObjectCorrectness` | the properties that relate the three |
| `Objects_proofs` | theorems about `Objects`: soundness of the type discipline; rests on `Layouts_proofs` |
| `Meaning_proofs` | the theorem that compiling and running a well-typed program implements `ObjectSemantics`; rests on `Objects_proofs` |
| `Insertion` | where instructions go: nested definitions, statements outside functions, both walks of the tree, the two writers of stdout |
| `Placement` | what the text says about that, and the properties |
| `MC*` | instances for TLC: program stocks and bounds |

### Correspondence

* **`Symbols`, `SymbolTable`.** `syms` is the used prefix of the C array; a
  pointer is a 1-based index, `NULL` is 0. `Lookup` is `lookup_symbol`;
  `LookupFinds`, `MakeSymbol` and `MakeSymbolFails` are the ways out of
  `lookup_make_symbol`. `held` is a history variable: what callers were given.
* **`Compiler`.** `phase` runs `parse → codegen → written → running → exited`,
  or ends in `assert` (`exit(1)`), `crash` (a NULL dereference, an exhausted
  stack, a call of address 0), `undefined` (a malformed module, a store outside
  the method array) or `unresolved` (`lli` finds a call of a symbol nobody
  defines). Parsing takes nodes in the order of the bottom-up reductions:
  arguments, body, then the declaration. Each `make_ast_*` interns what the C
  function interns, and stops where its assertions stop. Code generation has one
  action per `exec_*_codegen`; `finish_function` is the end of
  `exec_def_func_codegen`/`exec_def_method_codegen` (`makeReturn`, and for
  `main` the stores into the array). An entry of `llvm` is an LLVM function:
  `named` says whether it got its name or LLVM renamed it, `own` which
  declaration it was created for (0 for a mere declaration, a stub), `decl`
  whose body it was given (`lookup_func` finds the last of that name). `vars` is
  the shared variable map; its `owner` is the function the storage belongs to,
  which the C++ code does not record but LLVM does. Data, fields and control
  flow inside a body are abstracted: a body is a sequence of variable
  definitions and calls, because those decide which code runs.
* **`ControlFlow`.** `calls` is the C++ call stack of the generator, a frame per
  `exec_*_codegen` in progress; each action is what one of them does between two
  recursive calls. `ins` is the `IRBuilder`'s insertion point, `blocks` all
  blocks created, `attached` whether the block is in the function yet. A register
  is the place of its instruction. `Node` is whatever bodies are made of; all the
  module assumes of it is that the operands of a node are nodes. LLVM's constant folding of comparisons, and
  its refusal of ill-typed instructions, are modelled because they decide
  which bodies compile. `i32` keeps its width as the constant `Width`. `ADD`
  and `CMP_SMALLER` stand for their families, a printed value for any
  instruction with an effect.

* **`Layouts`.** A step is one call of `getFieldDef`: `at` is its argument,
  `climb` the nodes visited for this class with the fields that will follow
  theirs. `search_ast_by_sym` returns the first declaration of a name, class or
  not. With `JunkMemory`, a node whose `def_vars` the C code never set (anything
  that is not a class, and the `SEQ` nodes between two fields) may make the climb
  crash; without it `malloc` happens to return zeros. `klass_def_map` is
  `KlassDefMap::map`: a second definition of a class replaces the first.
* **`Objects`.** A body is its nodes in the order they are reduced and compiled.
  A node that interns a name, or that only looks one up, does so here with the
  symbol table given by the text before it (`InternedBefore`). `vars` is the
  shared variable map, `home` the function whose `alloca` a variable is. An
  instruction that goes through a pointer carries the cell it reaches and the
  types the *variable* promises; at run time `Reaches` compares them with the
  block the pointer designates. `heap` has every block, `malloc`ed or on the
  stack (`home` is then its frame). A call by name reaches the function of that
  name, which `Compiler` finds it does in programs that declare before use. A
  method call goes through the method array, as in the code: the call carries
  the row its class has when it is compiled (`getDefId`, the place among the
  classes so far), `setFuncPtrArry` fills `slots` when `main` has been compiled,
  in the rows of that moment, and `Target` is what the running program finds,
  possibly nothing or another class's method. A method can only be compiled when
  its class has been (`NoReceiver`), whether or not it uses the class.
* **`Insertion`.** `ins` is the insertion point, a function and a place in its
  only block; `calls` is the C++ stack of whichever walk is going on. Statements
  are as few as tell the ways of emitting apart: through the insertion point
  (`print`, a variable), at the end of the block (`makeCalcOp`, `makeReturn`),
  or not at all (a literal). `file` is the order in which stdio and `llvm::outs`
  reach `tmp.bc`.

External parts are marked in `map`: `getOrInsertFunction`, the bitcode reader
and `lli`, modelled from how `src/` uses them. In a release build of LLVM the
ill-typed instructions that `ControlFlow` calls malformed are not asserted on
but produce a module the reader refuses or misreads; both are "no module".

## 3. Runs

| run | question | instance |
|---|---|---|
| `symbols` | do `SYMBOL *`s identify names, for ever? | 4 names, room for 3: the full table and its assertion are reached |
| `dispatch` | which code does each call reach, and which programs fail, and why? | every order of up to 5 of 9 declarations: class, subclass sorting first, two methods of one class, one of the other, functions that share a method's name, two mains; of up to 4 of 8 with a bare method call, one on a number, a call of nothing and a cyclic class; and of 5 with a method called `main` |
| `orderly` | do programs that declare before use behave as their text says? | the orderly ones among all orders of 7 declarations, two variants (the tables have room for all of them: `Fits`) |
| `capacity` | why does compilation fail, and does it always end? | 6 symbols, 2 functions, 3 classes; missing and cyclic superclasses |
| `control_flow` | do the basic blocks do what the body says? | about 3000 bodies: branches, loops and sequences nested three deep, with branches inside operands, effects inside conditions, constants, doubles and bool literals |
| `layouts` | what is the layout of each class, and why does compiling one fail? | every sequence of up to 4 of 11 declarations: subclasses before and after, redefinitions, cycles, a redeclared field, functions with the name of a class |
| `objects` | does memory hold what its types promise? | 871 programs over 5 classes: sharing, assignment across classes, returned objects and arrays, missing members, indices out of range, wrong order; a class with a method and a function that calls it, with classes that sort before and after declared in front of, between and behind them (`Moves`); methods without arguments before their class or without one, and more classes than the array has rows (`Receivers`) |
| `meaning` | do well-typed programs do what they say? | the 361 of the same stock that are well typed and whose classes keep and fit their rows |
| `insertion` | where do instructions end up, and is there a module to load? | about 3000 top levels with statements before and behind every kind of definition, and definitions nested two deep under three names |
| `polymorphism` | does a call run the method of the object's class? (`test/polymorphism.expect`) | **violated**, see below |
| `array_complete` | is the array made "after all program is over"? (comment, `mugicha_compiler.cpp:572`) | **violated**, see below |

What they show:

* **`DispatchesToStaticClass`**: a call through a variable executes the newest
  method compiled for the variable's *declared* class, whatever surrounds it,
  as long as no class that sorts before it is added between the call and `main`.
  The proviso is not pedantry: `getDefId` is a position in a sorted map.
  `EmptySlotHasACause` says when there is no code at the slot: the class has no
  method left, its index was shifted, or `lli` started a *method* called `main`,
  for which nobody fills the array.
* **`EmptySlotHasACause`, `UndefinedHasACause`, `UnresolvedIffUsedFirst`,
  `AssertHasACause`** characterise every way to fail by the program's text.
  A failure without one of these causes would be a defect of the compiler
  nobody could explain from the program.
* **`ReceiversAreLexical`**: although all functions share one variable map, in
  a module that gets written every receiver has the class lexical scoping gives
  it; leaks only ever make compilation fail.
* **`ImplementsSource`, `ProgramExits`**: for orderly programs the compiler, the
  module, the loader and the running program together implement
  `SourceSemantics`, and the program ends. The premise that the tables and the
  method array have room (`Fits`) is the only one that is not about the text's
  order and names.
* **`PhiMatchesPredecessors`, `BlocksConnected`, `UsesDominated`,
  `RunsLikeTheBody`, `ReachesTheEnd`**: nested branches and loops produce a
  connected function whose phis name their predecessors, whose uses are
  dominated by definitions, and which prints, assigns, returns and terminates as
  the body says, provided the body does not use the value of a loop.
* **`MalformedIffIllFormed`**: exactly which bodies yield no module.

* **`CrashHasACause`** completes the list for crashes of the compiler itself,
  among them the method call without arguments; `make_ast_get_var` never stores
  NULL for a variable that is defined, `this` excepted.
* **`LayoutsExtend`, `MembersKeepTheirIndex`**: each class climbs to the root on
  its own, over declarations that may be repeated, misplaced or no classes at
  all; still every layout is its superclass's followed by its own fields, and a
  member keeps its index, also one declared again. This is what makes access
  through a variable of a superclass work. `LayoutAssertHasACause`,
  `LayoutCrashHasACause` and `LayoutsEnd` say how a climb can end.
* **`WellTypedProgramsDoNotFail`, `VariablesHoldTheirTypes`,
  `IdsTellClassesApart`**: the compiler checks no types. A program that keeps to
  the discipline of `ObjectTypes` nevertheless fails in no way, its variables
  hold live objects of their classes, `this` included, and `$ID` tells the
  classes of objects apart if classes come before functions (otherwise it
  drifts, like the method array's rows). **`ImplementsMeaning`,
  `ObjectProgramExits`**: it does what objects with named members would do, and
  ends. The discipline asks that a method comes after its class, because the
  compiler does. Types alone are not enough, though. With `class B`, a method of
  `B`, a function that calls it, then `class A` with a method of its own, then
  `main`, every declaration is in order and well typed, and the call runs `A`'s
  method on a `B`, or calls address 0 if `A` has none. `RowsStay` is the
  condition on the text that excludes this (no class that sorts before the
  receiver's is declared between a caller and `main`), and `RowsSuffice` that
  the array has a row for every class. All but `IdsTellClassesApart` depend on
  `RowsStay`; without
  `RowsSuffice` the compiler may index past the array, but what the variables of
  a running program hold does not depend on it.
* **`OverflowIffCyclic`, `WrittenIffWellPlaced`, `WhatFollowsMainRunsFirst`**:
  exactly which nested definitions make the compiler recurse for ever; exactly
  which statements outside functions, and definitions inside bodies, still give
  a module; and that what stands behind `main` runs before it.
* **`ModuleFirstIffTextFits`**: the tree is printed once and
  completely (methods' bodies excepted), and the module is at the head of the
  file exactly if that text fits the buffer of stdout. `script/mugichac` works
  for small programs for this reason only.

### Findings

* `polymorphism`: the test passes because `lookup_func` gives all methods named
  `test` the body registered last, which is the subclass's. With the two methods
  swapped, an object of the subclass runs the superclass's body: the slot is
  chosen from the declared class (`mugicha_compiler.cpp:781`).
* `array_complete`: the array is made after `main`, not after the program
  (`mugicha_compiler.cpp:573`): methods and classes that follow `main` are
  missing from it.

### Bounds

`MaxDepth` cuts calls nested deeper (recursion is unbounded in the language);
4 lets a method call a function that calls a method. `RowLen` replaces the 20 of
`getMethodArrayIndex`; 2 rows are enough for two classes, and too few for the third
of some programs of `dispatch`; 3 in `objects`, which some programs exceed, too. Five declarations suffice for each ordering hazard: a class, an
intruder, a method, a caller and a main. `FUNC_MAX` is 4 in `dispatch` so that
the full function table is met too. In `control_flow`, `Width = 3` makes sums
wrap, `Fuel` bounds the rounds the reference meaning evaluates (the bodies that
need more do not terminate at this width), and `MaxOut` the output of loops that
print for ever. Four declarations reach every shape of climb over three class names: two
levels, a cycle entered from outside, a redefinition in the middle. In `objects`
a main has a prelude and two fragments, enough for an assignment and an access
that depends on it; `NotConstant` stands for any computed index. In `insertion`
`StackDepth = 8` stands for the C stack (three names nest three deep without a
cycle), `StdioBuffer = 4` printed statements for the buffer of stdout, and
`FUNC_MAX = 5` is exceeded by some programs. `objects` and `meaning` take
`JunkMemory = FALSE`; `layouts` takes `TRUE`. `CHECK_DEADLOCK FALSE` everywhere: a compiler run stops.

### Fairness

`FairSpec`, `FairLayoutSpec` and `FairObjectSpec` are weak fairness of the whole next-state relation: each stage is one
sequential process that runs until it stops, and the next begins when it has.
Nothing is assumed about which action is taken: almost every state has one
successor.

## 4. Proofs

`SymbolTable_proofs` proves for every set of names and every `SYMBOL_MAX`:

| theorem | statement |
|---|---|
| `SymbolTable_TypeOK` | the table is within its capacity, all pointers point into it |
| `SymbolTable_PointersAgree` | pointers handed out are equal iff their names are |
| `SymbolTable_PointersLive` | a pointer designates its name and is what a lookup returns, at any later time |
| `SymbolTable_Capacity` | no duplicates, and the assertion fails only on a table full of different names |
| `SymbolTable_refines` | the table implements `Interner` |

The inductive invariant is the conjunction of type correctness, "the entries are
pairwise different" and "every pointer handed out is NULL or what `lookup_symbol`
returns for its name". The middle conjunct is what the others rest on: without
it the first entry that matches need not be the one handed out before. Two
lemmas carry the argument: on a table without duplicates `lookup_symbol` returns
*the* entry of a name, and appending a new name changes no lookup of an old one.
The only assumption is `SymbolMaxAssumption`, a positive capacity.

`Layouts_proofs` proves for every set of declarations, programs, class names,
sort orders and members, and for either value of `JunkMemory`:

| theorem | statement |
|---|---|
| `Layouts_TypeOK` | the state of class compilation is well formed |
| `Layouts_LayoutsExtend` | a class's layout is its superclass's followed by its own fields |
| `Layouts_MembersKeepTheirIndex` | so members keep their index |
| `Layouts_AssertHasACause` | an assertion means a missing ancestor or a field that cannot be stored |
| `Layouts_CrashHasACause` | a crash means a cycle of ancestors, or junk |

The difficulty of the second is that the layouts of a class and of its
superclass were computed by two climbs that share nothing but the program, and
the climb is a recursion, whose result no installed prover can characterise by
induction on the data. The proof therefore describes a finished climb by its
*equations*: a function from the visited nodes to layouts such that each node's
is its superclass node's followed by its own fields, and a root's is its own
fields. Solutions that agree on a superclass node give layouts that extend one
another, and two solutions agree on all nodes that both visit, because the set
on which they differ would be closed under "superclass of" and have no root.
The inductive invariant says of the climb in progress that what `climb` holds
for a node is what follows the node's fields in any solution that extends it,
and of each finished class that it has a solution. `MembersKeepTheirIndex` then
is a fact about the first occurrence of a name in a concatenation. The failure
theorems add that every visited node is an ancestor of the class and that the
fields collected are fields of visited nodes. What the invariant says of the
layouts does not mention the phase (`LayoutShape`), so that the proofs about
`Objects` go on with it when the classes are done. The assumption is
`LayoutAssumption`: the ranks of classes are different naturals and programs are
sequences of declarations.

`Compiler_proofs` proves for every set of programs, every sort order of the
classes, and every size of the tables and of the method array:

| theorem | statement |
|---|---|
| `Compiler_TypeOK` | the state is well formed: tables within their sizes, references within the module |
| `Compiler_ReceiversAreLexical` | a method call of a written module uses the class lexical scoping gives its receiver |
| `Compiler_UndefinedHasACause` | a malformed module has one of two causes |
| `Compiler_CrashHasACause` | so has a crash of the compiler, out of a short list |

That the one variable map of the compilation acts like lexical scopes cannot be
seen from a single state: an entry says which function owns it, not when it was
made. The inductive invariant `IInv` therefore ties the map to the text through
the position of the machine in it. `Translating` says that every statement of a
body becomes one instruction, so that the length of the code generated for the
current function tells how much of the body is done, and that `work` is the
rest; `MapIsLexical`, that the entries owned by the current function are exactly
what the text provides up to that point, for every name. A call through an entry
somebody else owns is then a call through a name the body does not define. For
crashes the invariant must also follow the parser: `Reading` says that `work` is
what is left of the nodes of the declaration, and that the variables defined by
those that are done have symbols; `Tables`, that every callable parsed is
registered and that a `GET_VAR` node without a symbol stands for a name its
callable does not define before it, because the symbol would be there. `this` is
the exception, and is among the causes. `Functional` and `LiveFrames` say that
whatever refers to a function (a call, a store, the method map, a frame, a slot
of the array) refers to one that was compiled from a declaration. The position
of the last definition of a name is a greatest element of a set of naturals,
whose existence the library's well-foundedness of finite sets gives. The
assumptions are the five that `Symbols`, `Funcs`, `MugiProgram` and `Compiler`
state: positive sizes, distinct ranks, programs that are non-empty sequences of
declarations with class and variable names among the names.

`Calls_proofs` proves, from the same assumptions and with `IInv` as a lemma, first:

| theorem | statement |
|---|---|
| `Dispatch_DispatchesToStaticClass` | a call through a variable executes the newest method of its declared class, unless its index was shifted |
| `Dispatch_EmptySlotHasACause` | a call of address 0 has one of three causes |

A slot is a number computed twice, at the call and at `main`'s store, from a
class map that has grown in between. The inductive invariant `DInv` replaces the
maps by the text: `MapsFollowText` says that `klasses` and `method_map` are what
the declarations visited so far leave (a class declared again has lost its
method); `CallsReach` and `StoresReach`, that each instruction and each store
has the row its class had at the declaration it was compiled for;
`StoresComplete`, that a finished `main` has a store for every class with a
method left. What remains is about the text alone: `RowInjective` (two classes
never share a row, by the cardinality of the classes that sort before them) and
`RowStable` (a row stays unless a class is added that sorts before it).
`NamesAreUnique`, that LLVM gives a name to one function, is needed because a
call of a second function with stores would overwrite the array: only functions
called `main` have stores, only one function has that name, so the array of a
running program holds the stores of the `main` it started with (`TableIsMains`),
however often `main` is called again.

and then, with `DInv` as a lemma too:

| theorem | statement |
|---|---|
| `Linking_UnresolvedIffUsedFirst` | `lli` refuses exactly the modules of programs without a `main`, or that mention a function called by name (or `main`) in a call before its first declaration |
| `Linking_AssertHasACause` | an assertion fails for lack of room in a table, or for a class that is used before its definition or extended without one |

Both are about who comes first. `getOrInsertFunction` gives a name to the first
that asks, a call or a definition, so `LInv` follows the text up to the place
the compiler has reached: `Declared`, `Early` and `Mentioning` are what that
part of the text declares, calls too early and mentions; `NamesFollowText` says
which of the names in the module belongs to a stub and which to a definition
from these, `FuncsFollowText` and `SymbolsFollowText` that both tables hold
exactly what was mentioned and declared so far, and `CodeFollowsText` and
`ModuleFollowsText` that the finished code has the calls of the text. The first
theorem is then read off a finished module. The capacity assertions need
counting: a table without duplicates that is full has as many entries as there
are names (or callables) in the text read, so the text must have more.

`Source_proofs` proves, from the same assumptions, the refinement that the run
`orderly` checks on its instance:

| theorem | statement |
|---|---|
| `Source_ImplementsSource` | for every orderly program that fits the tables (`Orderly`, `Fits`), compiling, loading and running it implements `SourceSemantics` |

This is where the parts meet. `Ready` is the conjunction of `IInv`, `DInv` and
`LInv` with the two premises on the program, and the proof goes in three steps.
First, nothing fails (`StaysSound`): every cause that `Compiler_CrashHasACause`,
`Compiler_UndefinedHasACause`, `Linking_AssertHasACause` and
`Linking_UnresolvedIffUsedFirst` leave for a failure of the compiler or the
loader is a fault an orderly text does not have or a shortage `Fits` excludes
(`NoCause`), and a running program finds its slot filled (`SlotFilled`: the
class has its method, which precedes `main`, and no class moves its row). Second,
what the machine executes is the text (`AtStatement`): the code of a function is
that of its own declaration, statement for statement, since a name has one
callable; a call by name reaches it, and the slot of a method call holds the
method of the receiver's declared class (`DispatchesToStaticClass` with one
method per class). Third, frames are activations (`FunctionFrame`,
`MethodFrame`, the lemmas `OfStack...`): what the calling convention puts at the
positions of the arguments, `this` included, is what `Activation` gives the
names. Steps of the compiler are then stutters, `Load` is `Start`, and each kind
of instruction is the action of the kind of statement it was made from
(`Refinement_step`). `Orderly` asks for what the proof, and the code, needs: the
arguments of a callable have different names, and `this` is neither one of them
nor passed on as an argument.

`ControlFlow_proofs` proves for every set of bodies (of any size and depth),
every `Width` and every `MaxOut`:

| theorem | statement |
|---|---|
| `ControlFlow_TypeOK` | blocks, frames, registers and numbers are well formed |
| `ControlFlow_BlocksConnected` | a finished function contains every block made and every block branched to, and every block but the entry is reached from it |
| `ControlFlow_PhiMatchesPredecessors` | a finished phi has one source for each block that branches to it, and no other |

The generator is in the middle of several nested statements at once, and each of
them has blocks that are not in the function yet, or have no predecessor yet, or
wait for a phi. The inductive invariant `CInv` says who answers for what is
missing: a frame of the C++ stack has some blocks *in hand* (those of its
`if` or `while` that it will still attach, branch to or give a phi), no block is
in two hands, and every defect of the graph is in a hand (`AttachedOrLoose`,
`ReachedOrUnlinked`, `PhisAreComplete`). The insertion block is the only one that
is open (`InsertionIsOpen`), so an action adds edges from there only, and only to
blocks that the top frame has in hand or has just created (`HandsOver`); one
lemma (`Graph_Step`) serves all actions that change the graph. When the stack is
empty nothing is in hand, and nothing is missing. Of the running function the
invariant says that control follows edges (`ControlInv`), so that a phi finds a
source for the block it comes from, and that values fit their width (`DataInv`).
Connectedness is stated without paths (every nonempty set of blocks without the
entry has an edge into it from outside), which is what it means and spares the
recursion. The assumptions are `NodeAssumption`, `WidthAssumption`, and
`ModulusAssumption`, which follows from the last but has to be stated because
the provers know nothing of powers.

`Objects_proofs` proves for every set of declarations, programs, types, numbers
and depths of calls:

| theorem | statement |
|---|---|
| `Objects_TypeOK` | whatever the program, code, map, memory and frames are well formed |
| `Objects_WellTypedProgramsDoNotFail` | if `malloc` returns zeros (`~JunkMemory`), a program that keeps to the discipline of `ObjectTypes`, and whose classes keep and fit their rows (`RowsStay`, `RowsSuffice`), fails in no way |
| `Objects_VariablesHoldTheirTypes` | in every frame of a well-typed program whose classes keep their rows a variable of a class holds a live object of it or of a subclass, a variable of array type a live array |
| `Objects_IdsTellClassesApart` | in a well-typed program, with its classes before its functions, two objects have the same `$ID` exactly if they have the same class |

The compiler checks no types, so what has to be shown is that untyped pointers
and constant offsets come out right. `ShapeInv` is what holds of every program:
code and frames belong to compiled functions, a frame is at an instruction or
at the end, a block has one cell for each of its types. `SoundInv` adds what the
type discipline buys, in three parts. While a body is compiled, the variable map,
which all functions share and nobody clears, agrees with the text on every name
in scope (`NamesBound`): a name that an earlier function left behind is shadowed
before it is used. The LLVM type of the last value is that of the text
(`ValueKnown`). Compiled code is what its nodes call for (`CodeTranslates`), and
remains so when classes are added, because a layout once in `klass_def_map` is
not replaced by a program with one declaration of each class. At run time,
blocks are laid out by the class they were made with (`BlocksTyped`), variables
point to live blocks of their types, and each frame below the top waits in the
call that made the next (`FramesTyped`); so a return leaves a value of the type the
caller's text expects, and what is released with a frame is pointed to from
no other.

That a method gets the `this` its code was compiled for depends on a number that
is computed twice, from a class map that grows in between. `Row` gives it from
the text: how many classes declared so far sort before this one. An instruction
carries the row of its declaration (`CodeTranslates`), a filled array has each
method in the row of `main` (`SlotsFollow`; by `MainFills` it gets
there when `main` is compiled, and by `RowsAgree` `RowsStay` makes both numbers
equal), and since
nothing that runs is declared behind `main` (`MainIsLast`), the slot of a call is
its class's method (`SendTarget`). Well-typed programs that fail for another
reason than their text are in `Excused`: a class compiled from junk crashes the
compiler whatever the program, hence `~JunkMemory`, and a class too many indexes
past the array, hence `RowsSuffice` (`RowFits`); both before anything runs, so that what
variables hold needs neither. The assumptions are
`LayoutAssumption`, `RowAssumption` (a positive number of rows) and
`ObjectAssumption`, which says that declarations have the
fields the grammar gives them. That a callee's last argument of a name is the
one its body sees, and that a later definition of a variable takes over from
there on, is part of the discipline (`Binder`), not a premise.

`Meaning_proofs` proves the refinement that the run `meaning` checks:

| theorem | statement |
|---|---|
| `Objects_ImplementsMeaning` | if `malloc` returns zeros, compiling and running a well-typed program whose classes keep and fit their rows implements `ObjectSemantics` |

`ObjectSemantics` has no memory layout: objects map names of members to values,
variables are looked up by name. Both modules read the text with the same
definitions, once as they stand and once through the instance, and the lemmas
from `SameReading` on say so. A frame's environment is its variables under the
names in scope at its place (`EnvOf`), a block is a thing (`Reads` for what is
found in it, `Stored` for a store), and since two members of a class never share
an index, a store through a cell changes the member of that name and no other.
Each instruction is then the action of the node it was made from; parsing,
compiling and loading are stutters.

Only model-checked are the properties of `Insertion` and of
`StatementSemantics`. Both compare with a reference that is a recursion over
nested text, written as recursive operators, which the provers do not read, and
to relate a finished walk to it would take an induction over data. The claims
`polymorphism` and `array_complete` refute need no proof. Out of the
provers' reach altogether is liveness: `CompilationEnds`, `LayoutsEnd`,
`ProgramExits`, `ObjectProgramExits`, `ReachesTheEnd`.

## 5. Not modelled, and premises

* `Compiler` keeps class names apart from other names; `Layouts` does not. Top
  levels of `Layouts` are classes, functions and methods: a variable defined
  there under the name of a superclass is not considered.
* `Objects`: every callable has its own name, so that a call by name, and the
  body compiled for a definition, is its declaration's (what happens otherwise
  is `Compiler`'s subject); the limits of the symbol and function tables; one
  argument at most; the object that is allocated for a parameter of class
  type, and replaced at once by the argument, is left out; arguments of `new`
  are dropped by the code too. Calls do not nest deeper than the programs of the
  instance do. Memory is not reused, so an access to what is gone is always
  seen.
* `Insertion`: calls, branches and classes inside nested definitions; that `lli`
  reads a module followed by text is taken from the fact that `script/mugichac`
  works.
* Member and array accesses inside branches and loops (`ControlFlow` and
  `Objects` are separate); doubles beyond their type; printing of comparisons.
* Arity errors beyond a missing argument; calls with several arguments.
* The lexer: characters and buffers, no state between tokens. The parser's
  resolution of the ambiguous `stmt stmt`. The remains of the interpreter, which
  nothing calls.

## 6. How the project is built up

1. `Symbols`, `SymbolTable`, `Interner`, and their proofs.
2. `Funcs`, `MugiProgram`, `Compiler`, `SourceSemantics`: `dispatch`, `orderly`,
   `capacity` and the two violated claims; `Compiler_proofs`, `Calls_proofs`,
   `Source_proofs`.
3. `ControlFlow`, `StatementSemantics`: `control_flow`; `ControlFlow_proofs`.
4. `Layouts` and its proofs: `layouts`. On top of it `Objects` with the type
   discipline, the abstract semantics and the refinement: `objects`, `meaning`;
   `Objects_proofs`, `Meaning_proofs`.
5. `Insertion`, `Placement`: `insertion`.

What would come next: calls with several arguments; one body language for
`ControlFlow` and `Objects`, with a proof that a body's blocks do what it says.

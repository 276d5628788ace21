# ParaCL in TLA+

ParaCL is a small imperative language of ints and arrays. The `paracl` program
parses a file, checks it, and interprets it or compiles it to LLVM IR, which a
script turns into an executable. These modules model the parser, the checker, the
interpreter, the code generator and the executable; TLC checks them on many small
programs against each other and against a definition of the language, and TLAPS
proves sixteen theorems about checker, interpreter and code generator for every
program.

## The system

One process, one thread. `main` (paracl.cpp) drives the parts in order; they share
the tree. Nothing is concurrent and nothing is persisted. What makes the system
hard is that three independent visitors walk the same tree and must agree: the
checker once, in source order; the interpreter along the flow of control; the code
generator once, in source order, for a program that runs along the flow of control.
Interpreter and generator rely on the checker instead of checking types themselves.

| Part | State | Operations | What makes it correct |
|---|---|---|---|
| Parser, lexer (`parser.y`, `lexer.l`) | bison's stack, the `blocks` stack, the current block, two list buffers | shift, and a semantic action per production | the tree is the program as written, each node in the block it was written in |
| AST (`include/ast`) | the nodes, parent pointers | constructors, accessors | it is a tree, its blocks are chained to the root |
| Visitor (`visitor.hpp`) | the C++ stack, `WrapperStorage` | `acceptASTNode`, `visit` | a frame returns to its caller, no node is re-entered |
| Semantic context (`semantic_context.hpp`) | `NamesInfo`, `NameToValue`, `Values`, `Types` | `tryDefine`, `isDefined`, `getDeclKeyFor`, `linkValueWithName`, `createValue` | the two maps hold the same names |
| Values (`values.hpp`) | an int, or an array's `Size`, `Data`, `Initer` | construct, clone, `destroy`, `setValue` | an array is not used after its destruction, a clone is a copy |
| Interpreter (`interpreter.cpp`) | the context, `ResourceHandleMap`, the streams | the `visit` methods, `freeResources` | it does what the program means; arrays live as long as their block; accepted programs raise no assert and no wrong cast |
| ErrorHandler (`error_handler.cpp`) | a context of its own, `Errors` | the `visit` methods | what it accepts runs; what it folds is what is computed; it ends |
| Driver, main | which visitor runs | validate, reject, evaluate, generate | nothing runs that has errors |
| CodeGenVisitor, IRCodeGenerator (`codegen_visitor.cpp`, `codegen.cpp`) | builder and function, `NameToValue`, `ArrInfoMap`, `CurrArrInfo`, `ResourcesToFree` | the `visit` methods, the helpers that create code | what the checker accepts becomes valid IR; arrays are freed once on every path |
| Executable (`compiler.sh`, `pcllib.cpp`) | registers, memory, the streams | the instructions, print, scan | it does what the program means, and what the interpreter does |
| Options, version, dot dump, `fatal` | | | `fatal` is a way to stop, the rest is I/O |

### What is hard to test here

- A loop runs a body again that checker and generator saw once: names the first
  pass defined are defined in the second, arrays they were bound to are destroyed.
- A definition that control can skip (an unbraced body, the right side of `&&`)
  counts as made for the checker, and in the IR it dominates only its own path.
- Names are resolved dynamically, by what has been defined so far, and never
  removed when a block ends.
- Values are raw pointers: a variable returns its own object, a uniform array
  keeps its initer, `freeResources` destroys objects others may point to.
- Constants are folded in the checker by the operations of the interpreter, so
  their faults happen there too; the generator folds others.
- The generator keeps one current array description for nested literals, and
  remembers basic blocks that the visit of an operand may leave.
- Comparisons are i1, everything else i32.
- The parser keeps one list of indices and one of elements for all nested arrays,
  and makes the block of a `while` or an `if` after its body.
- Edges: division, `INT_MIN`, indices, sizes converted to unsigned, byte counts.

`PROJECT.json` lists each at its line, with the properties that watch it.

## The modules

| Module | Models | Correspondence |
|---|---|---|
| `Int32` | the operators | `performArithmeticOperation`, `performLogicalOperation`, `performUnaryOperation` as functions over `-MaxInt-1..MaxInt`, wrapping; `ArithFault` tells which divisions end the process |
| `Ast` | the tree | a sequence of nodes in preorder; a node's index stands for its address, `scope` for the chain of `parent_` blocks; `WellFormed` is what the parser guarantees and the assumption `ProgramsAssumption` |
| `AstBuilder` | trees made of terms | one operator per kind of node, `Tree` numbers the nodes and gives them scopes; used to write down programs |
| `Tokens`, `Parser` | lexer's tokens, `parser.y` | `Automaton` is computed from the productions and the precedence declarations; a step is a `Shift` or the reduction by one production, which does to `nodes`, `blocks`, `curr_block` and the two lists what its semantic action does |
| `ConcreteSyntax` | programs as text | the tokens of a term, brackets where C's precedences need them: the reference the parser is checked against |
| `Visitor` | control | `cur` and `done` are the call stack: `done[n]` is the program point of the frame visiting `n`. A step is what a visit method does between two accepts: `Accept(i)`, `Return` or `Stop(why)` |
| `SemanticContext` | `SymTable`, `ValueManager` | maps as functions from `SymTabKey`; `getDeclScopeFor` walks the scope chain |
| `PCLValue` | values | the heap is the vector `Values`, an object's index its address; an array is its dimensions, its cells in row-major order, its initer and whether it is alive |
| `Interpreter` | `Interpreter` | one action per visit method, split where the method accepts another node; `ret[n]` is what the visit of `n` returned last |
| `ErrorHandler` | `ErrorHandler` | likewise; `res[n]` is the pair of a type and a known value, `Declared` its `SymTbl`, `arrayTypes` the `ArrayTy` made for a node |
| `Paracl` | driver and `main`, default mode | composes checker and interpreter over one stack, with the phase that runs |
| `IR` | `IRCodeGenerator`, `IRBuilder` | a function as basic blocks of instructions; each helper is a function from the builder's state to the next, with LLVM's constant folding and the asserts of its headers |
| `CodeGenVisitor` | `CodeGenVisitor` | one action per visit method, split at accepts; `made[n]` is the IR value of `n`, `frame[n]` the locals (blocks, PHI entries) that outlive an accept |
| `Machine` | clang's verifier, the executable, `pcllib.cpp` | `Verifies` is what the verifier asks (uses dominated, PHI entries, types); `Execute` runs one instruction over a memory of objects |
| `Compiler` | driver, `main` and `compiler.sh`, compiler mode | composes checker, generator and executable |
| `Semantics`, `Language` | nothing: the specification | `Semantics` is what a program prints and how it ends, by value; `Language` is the state machine an implementation may show: what was read, printed, and the outcome |
| `ParaclProperties`, `CompilerProperties`, `ParserProperties`, `ParserLanguage` | | the invariants and properties |
| `ParaclRefinement`, `CompilerRefinement` | | interpreter and executable implement `Language` |
| `MCPrograms`, `MCParacl`, `MCCompiler`, `MCParser` | | the programs, texts and inputs TLC runs |
| `ValueProofs`, `VisitorProofs`, `CheckerProofs`, `GeneratorProofs` | | lemmas about numbers and recursion, the stack, the checker, the builder |
| `ParaclProofs`, `ParaclTypes`, `ParaclSoundness`, `CompilerProofs` | | the theorems |

```
 Int32    Ast --> Visitor     SemanticContext   IR --> Machine
    \       \        |  \          / |           |        |
  PCLValue --> Interpreter  ErrorHandler   CodeGenVisitor |
                     \       /        \        |         /
                      Paracl           +--- Compiler ---+
                        |                      |
                 ParaclProperties       CompilerProperties   Language <-- Semantics
                              |                |                 |
                     ParaclRefinement  CompilerRefinement <------+-- (both)
                              |                |
                           MCParacl        MCCompiler    (both with MCPrograms)

 ValueProofs --> VisitorProofs --> CheckerProofs --> ParaclProofs (ParaclProperties)
   (Int32)         (Visitor)    \  (ErrorHandler)      |
                                 \         \        ParaclTypes --> ParaclSoundness
                          GeneratorProofs --> CompilerProofs (CompilerProperties)
                          (CodeGenVisitor)

 Tokens --> Parser --> ParserProperties --> ParserLanguage --> MCParser
                        ConcreteSyntax (AstBuilder) --^
```

The language has no functions, so a node is on the stack at most once; this is
why the stack can be a map from nodes to program points (and it is proved, see
below).

### Abstractions

- A name is a string, a message is the node it is reported at (wording and
  locations are left out). In the trees of the visitors `undef` is a literal like
  any other; the parser draws it from `RandomInts`.
- The width of int is `MaxInt`: 7 for the interpreter and 15 for the compiler, where
  every edge of the arithmetic is within reach. Signed overflow of `+ - *` is undefined
  in C++; the build compiles it to instructions that wrap, and so does the model.
- Asserts are active: the build files set no build type. A failed assert stops
  the model with `assertFailed`. LLVM's own are not those of its library, which
  distributions build without them, but those in the headers paracl compiles.
- Undefined behaviour that the model reaches (a value cast to what it is not, an
  index outside an array, an element of a destroyed array, a read of memory never
  written) stops it with a status of its own or yields any of `Garbage`, and the
  properties speak of those.
- Reading the input fails or yields one of `InputValues`; `MaxReads` bounds how
  many reads succeed.
- The executable: an int is `IntSize` bytes of memory to malloc, whose product wraps,
  and an i1 is stored in the lowest of two parts, of `Byte` values. An i1
  passed to `print` arrives as 0 or 1. A division of constants without a value is
  folded to poison, a value like any other to the generator; each use of it in the
  executable has any value of `Garbage` (a bit: 0 or 1), which is what clang makes of
  it, a register nothing was written to. The verifier is external code, modelled by the
  rules the generated code could break; what it accepts is executed as generated, without optimisation.
- The parser: the automaton is bison's, without its default reductions, which
  change nothing but the moment an error is found. The lexer's regular
  expressions, `atoi` and its "Unknown symbol" are left out.
- Not modelled: an access with fewer indices than the array has dimensions, and
  an array of several dimensions as an element of a preset array. The checker
  reports both; only in an unchecked else branch or after drift could a run meet
  one. There the guards `k = Len(CurrArr.shape)` and `Rank1` would end it in a deadlock,
  which every run checks for: no run gets there.

## The runs

All runs check for deadlock; a process that has ended stutters (`Stopped`). Every
program or text of a run is an initial state.

| Run | Inputs | Shows |
|---|---|---|
| `interpreter` | all sequences of 1 to 3 statements of a vocabulary on scopes and of one on arrays; short loops; every operator over every pair of signed literals and inputs; 6 ways to define an array before every operator with operands of every type and of none; a wrong type below an else | `ImplementsLanguage`: the interpreter is the language. `SymbolsCoherent`: the tables agree. `NamesResolveStatically`: dynamic resolution finds what the checker found. `LiveArraysScoped`, `LeftScopesHoldNoArray`: arrays die with their block. `NamesDoNotAlias`, `TypeSound`, `ConstantIndexChecked`, `FoldedConstantsAgree`, `AcceptedIsTyped`, `TypeOK`. `CheckerFailsOnReported`: the checker crashes only on what it has reported, or on finding 4. `CheckerFaultsAreReal`: it stops for a division only if that has no value |
| `loops` | a loop around any 3 of 6 array statements, counting and reading loops, a loop in which a name drifts; up to 8 reads | `UsedArraysAlive`: destroyed arrays are found only through names an earlier pass bound, and a name that drifts does find one. `ValidationEnds`, `Terminates` |
| `compiled` | all sequences of 1 and 2 statements of a vocabulary of 33 on ints and of one of 46 on arrays | `AcceptedCompiles`: which accepted programs become valid IR, and which never do. `CompiledImplementsLanguage`: the executable is the language. `GeneratedNamesResolve`, `DescriptionsApart`, `HeapArraysFreedOnce`, `GeneratorTypeOK`, `MachineTypeOK` |
| `compiled_loops` | loops that count and read, with arrays and branches in them | `CompiledTerminates`, `CompiledImplementsLanguage` |
| `parser` | 979 texts: every operator in every other, control statements and lists nested; 8 beginnings that any 4 of 16 tokens may follow | `ReadsAsWritten`, `ScopesAsWritten`: an accepted text gives the tree it was written from. `BlocksOpen`, `ListsOfOne`: the parser's globals belong to the construct being read, in erroneous texts too |
| `else_unchecked`, `loop_array`, `repeat_initial`, `element_type`, `nested_logic`, `stored_bit`, `folded_division` | one or two programs each | the findings below |

**Bounds.** The defects these properties look for need a definition, a way to skip
or repeat it, and a use: three statements. The statements of `compiled` each combine
two of these, so pairs are enough there. A loop needs two passes to meet what a
pass left behind; three reads allow a loop in a three-statement program its
second pass, and `loops` allows its conditionals several (8 reads). Two dimensions
and two elements are the smallest arrays with an inner and an outer index and a
first invalid index that is not the only one; `compiled` uses
different sizes for them, so that their order shows. `MaxInt = 15` is for the sizes of these
in bytes. One value of `Garbage` that no program computes is enough to tell a read of
unwritten memory. Four tokens after a beginning can close what it opened,
finish its statement or begin an else, and begin another list or statement; the
other 971 texts are complete programs.

**Refinement.** `Language` says at every moment what may have been read and printed:
the implementation prints in order, reads only when everything before the read is
printed, and ends as the meaning does. An `INSTANCE` maps the state to it: `reads`
and `output` are variables of both, `outcome` is computed from the phase and the
status. Every implementation may refuse a program before it does anything; which
ones, `AcceptedCompiles` and `AcceptedIsTyped` say. Nothing is claimed of a program
that has no meaning, and of one that is *excused*. The excuses are predicates of
the program and each is a documented difference:

| Excuse | Programs | Code |
|---|---|---|
| `ReadsOperandsLate` | an operand is a variable that a later operand writes: `x - (x = 5)` | interpreter.cpp:169 returns the variable's object |
| `RebuildsUniforms` | a uniform array is repeated after what it was made from, or an element of it, was written | values.hpp:285, finding 3 |
| `RedefinesArray` | a loop assigns a name an array again | interpreter.cpp:234, finding 2 |
| `KeepsBit` | a comparison is stored, negated, used as element, size or index | codegen_visitor.cpp:165, finding 6 |
| `CopiesWrittenArray` | an array is copied by name and written somewhere | codegen_visitor.cpp:325, :398: the copy takes what the other was created from |
| `ElementNotRepeated` | a repeat inside `array(...)` whose size the generator folds to 0 or does not fold (the checker, which does, accepts it; below an else nobody asks) | codegen_visitor.cpp:374 adds the initialiser once |
| `FoldsToPoison` | a division without a value whose operands are constants to the generator: `1 / (z = 0)` | codegen_visitor.cpp:66, :69, finding 7 |
| `NestsCreations` | an array is created while another literal is visited | codegen_visitor.cpp:271 |

`AcceptedCompiles` has two halves. The first excepts programs that need not become valid
IR: `BranchingOperand` (finding 5), `SkippedDefinition` (a name or a heap array made where
control can skip it: codegen_visitor.cpp:144, :624, :683), `KeepsBit` (a bit that
nothing widens: :129, :165), `NegativeSize` (a size below 0 that the generator folds is
taken for unsigned) and `UncheckedUse` (a name, or an array where an int is expected, below
an else: finding 1). The second says of most of them that they never do:
`BranchingOperand`, `UsedAfterSkip` (the skipped name is used behind), `FreedAfterSkip` (the
skipped heap array is freed behind) and `MisusesBit` (a computed bit is negated, or is an
index or a size). Between the two lie skipped definitions nobody uses, bits that
are only stored, and sizes of arrays known by name. Of the programs of the runs, those
without an excuse run as they mean and those without an exception compile; that no other
program differs is what these runs cannot show.

**Drift.** Several properties except `DriftProne` names: those in an else branch,
and those that a skipped, unchecked or later definition in the same loop may bind.
That is the claim made: a program without such names runs as it was checked. `TypeSound`
excepts besides `RedefinesArray` and a fault at a node below an else, where there need
be no name: `if (?) { } else print 1 + repeat(0, 2);`. `UsedArraysAlive` holds of
programs that drift as well, unless the block of the name is in a loop; there
`B = A` may bind an array that a former pass has destroyed.

**Fairness.** `FairSpec` of the interpreter is weak fairness of `Next`: the process has
one thread, each visit method returns or stops, and nothing suspends it but a read,
which returns or fails. Of the compiler mode only the executable is fair
(`WF_vars(Execute)`): the claim begins when it runs.
That a loop ends also depends on the program: the runs use loops that count and
loops that read, and reads run out.

### Findings

1. `visit(if_operator)` of the checker does not visit the else branch
   (error_handler.cpp:180), so an undeclared variable in it fails an assert of the
   interpreter. README.md:90 promises otherwise.
2. An array first assigned in a loop body is assigned a second time by the second
   pass, through a cast to `IntegerVal` (interpreter.cpp:234); the comment at line
   223 says it is assigned only during its creation.
3. `repeat(A, n)` of a uniform `A` repeats what `A` was made from and not what it
   holds (values.hpp:285); README.md:22 calls it n x `A`.
4. The checker's `assert(ContainedType)` (error_handler.cpp:249) fails on a program
   in which it found no error: an assignment to an element has no type.
5. `&&` or `||` as the right operand of `&&` or `||` leaves a PHI with a block that is
   no predecessor (codegen_visitor.cpp:542, :574): the IR is invalid, and README.md:97
   promises an executable.
6. A comparison stored in a variable writes one byte of four (codegen_visitor.cpp:165);
   README.md:4 says that all types are integer, and the interpreter agrees.
7. `print 1 / (z = 0)` is refused by the interpreter ("trying to divide by 0") and
   compiles to an executable that prints some int and exits normally, for the division is
   folded to poison (codegen_visitor.cpp:66, :69). README.md:88 calls them two modes to
   run the program.

Met on the way and not given a run of their own. Programs without an error that never
compile, against README.md:97, as `AcceptedCompiles` says of all their like:
`print !(? < 1);` (an i1 is compared with an i32 zero, codegen_visitor.cpp:129, and an
assert of LLVM's headers fails), `if (?) x = 1; print x;` (the slot of `x` is in a block
that does not dominate its use, :144), `if (?) print repeat(1, ?);` (the free does not
follow its malloc on every path, :683). Programs that print other elements than theirs,
against README.md:13 ("concatenates everything that is passed to it"):
`C = array(1, 2); C[0] = ?; print array(C);` (the copy is as C was created, :325, :398) and
`print array(3, repeat(4, 0));` (one 4, :374). And: `a || b && c` is read as `(a || b) && c`,
for parser.y gives `&&` and `||` one level (`OrInAnd`); README.md:26 shows
`(PresetArr, Size)` without `repeat`, which the grammar refuses; in
`B = repeat(0,2); A = repeat(repeat(B[0]=1,1),1); print A[0][0];` the checker
dereferences a null type (error_handler.cpp:410) without having reported an error,
for the reason of finding 4 (`CheckerFailsOnReported` excepts that one cause).

## The proofs

TLAPS proves these for every set of well-formed trees, every width of int and
every input. The assumptions are those of the modules (`WidthAssumption`,
`ProgramsAssumption`, `InputAssumption`, `MachineAssumption`), and every run
evaluates them. `WellFormed`, which `ProgramsAssumption` asks of a tree, says what the
parser makes: a tree in preorder, blocks chained to the root, the kinds of operands
the grammar has in each place, literals of the width.

| Theorem | States | Inductive invariant |
|---|---|---|
| `StackAlwaysPath` | the frames of the running visitor are the path from the root to `cur`, and the blocks around `cur` are among them | `StackInv` |
| `NoArrayOutlivesItsBlock` | `LiveArraysScoped` | `HeapInv` |
| `AcceptedTyped` | `AcceptedIsTyped` | `PhaseInv` (`CheckInv`, then `Verdict`) |
| `CheckerFailures` | `CheckerFailsOnReported` | `PhaseInv` |
| `TypesKept` | `TypeOK` | `DataInv` (`EvalInv`) |
| `SymbolsStayCoherent` | `SymbolsCoherent` | `DataInv` |
| `FoldingIsRight` | `FoldedConstantsAgree` | `FoldInv` |
| `NamesKeepTheirMeaning` | `NamesResolveStatically` | `NamesInv` (`NamesChecked`, then `NamesVerdict` and `NamesRun`) |
| `TypesAreSound` | `TypeSound` | `RunInv` (`OwnInv`, `SoundInv`, `FaultsKnown`) on top of all of the above (`Established`) |
| `IndicesAreChecked` | `ConstantIndexChecked` | `RunInv` |
| `NamesStayApart` | `NamesDoNotAlias` | `RunInv` (`SoundInv`) |
| `ScopesTakeTheirArrays` | `LeftScopesHoldNoArray` | `RunInv` (`SoundInv`), `HeapInv` |
| `UsesFindLiveArrays` | `UsedArraysAlive` | `RunInv` (`OwnInv` where names drift, `SoundInv` where not) |
| `GeneratorTyped` | `GeneratorTypeOK` | `TypeInv` |
| `DescriptionsStayApart` | `DescriptionsApart` | `DescriptionInv` |
| `NamesGeneratedAlike` | `GeneratedNamesResolve` | `GeneratedNamesInv` (`NamesChecked`, then `NamesVerdict` and `NamesGenerated`) |

How they go:

- **The stack.** Every action of every visitor is `Accept`, `Return`, `Stop` or the
  start of the next visitor (`Moves`), and each of them keeps `StackInv`: the
  stack is a path, a frame's program point is the position of the kid it accepted,
  and scopes lie on the path. That the kid an action accepts exists follows from
  `WellFormed`. `Compiler` shares this part; there the condition of a loop is
  accepted twice.
- **Arrays.** A new array goes on the list of the innermost block of `cur`, which must be
  on the stack, and a block that returns must be the one whose list is destroyed.
  `HeapInv` adds that no value exists while the checker runs and that lists belong to
  blocks. One lemma per way a step touches the heap.
- **The checker.** `CheckInv` relates what a frame is past (`Left`) to what it recorded:
  if nothing was reported, an operand that was left has a type, a type that is an array
  is the node that creates it, and what it contains is known. The
  dimension of a type, a recursive function over the tree, is shown to be defined on
  every created type (`LayersDefined`). When the checker returns, `CheckInv`
  leaves `Verdict` behind, which nothing in the interpreter changes.
- **Data.** `EvalInv` says that what a frame holds of its operands are objects of
  the heap, that the cells of each array are as many as its shape says (`Sound`),
  that an array's initer is older than it, and that an access that has used `k`
  indices points inside the part these select (`PartOf`). It is what makes `TypeOK`
  inductive; `TypeOK` alone says nothing of what a step is about to use.
- **Folding.** `FoldInv`: what the checker folded is the value its operator gives on what
  it folded of the operands (`Folded`), and a visited operand that was folded holds that
  very int (`KnownHeld`), on whatever path control takes.
- **Names.** The checker declares in the order of the text, the interpreter in the order
  of control, so the invariant names the one assignment of each group of rivals (same
  name, related blocks) that comes first: the declared keys are the keys of these
  (`DeclaredByLeaders`, `LeadersDeclared`), and in the run a first assignment that control
  cannot skip has defined its key as soon as control is past it (`PassedDefined`). A
  lookup from a node then finds the same key in both tables, unless the name is
  `DriftProne`.
- **Who destroys an array.** `OwnInv`: each array is on the list of exactly one block; what
  a name or a frame holds is an array of a block around it (`NamesOwned`, `HeldOwned`), so
  of a block that has not ended; what an array was made from belongs to the same block
  or to one further out (`InitersOuter`); and an array is destroyed only when its block
  was left, or in a loop (`DeadLeft`). This holds whether names drift or not, and is why
  an array found dead through its name is one of a loop.
- **Soundness.** `SoundInv`, for programs that do not drift, relates a reference to the type
  the checker has for whatever holds it, a name or an expression (`HeldAs`). The two
  agree (`Agrees`): an int is an int, an array is on the list of the block in which the
  type's node stands, has as many dimensions, and each is at least what the checker knows of it.
  A reference to an array has one type (`OneType`), so two names that hold one
  array were declared with one type, and the checker gives a type to one name only
  (`NamesApart`). The checker's part of it, that types of operands conform to what the
  operators ask and that indices were compared with known sizes, is `TypesInv`, proved
  of the checker and left behind for the run. Since what is
  held is alive too (`HeldAlive`, `BoundAlive`, `InitersAlive`), the asserts, the casts
  and the index checks of each visit method follow (`FaultsKnown`): one lemma per kind of fault.
  That a name finds its declaration is `NamesInv`, so none of this could be proved
  before `NamesKeepTheirMeaning`. The steps of the interpreter are sorted by what
  they return (`InterpClasses`: an int, the operand, a name's value, a new array, ...), and
  every invariant is carried over these thirteen classes instead of the actions.
- **The generator.** `TypeInv`: the code only grows (`Grows`), each operand is a constant
  or the place of an instruction that exists, each branch goes to a block that
  exists (`Built`), every frame holds what its next step reads, and a value has the type
  its use needs. One lemma per builder call, one per helper, one per action.
- **Descriptions.** `CollectedInside`: while an array is described, the holder that started
  it is on the stack past its operand, so a second holder that starts is nested in
  it or finds the description cleared.
- **Names, generated.** The generator visits both sides of an `if` and every operand once,
  and the condition of a loop a second time after the body. An assignment has been
  visited (`Passed`) when it is left of the stack or in a loop on its second condition;
  the defined keys are those of the visited assignments that come first among their
  rivals (`NamesGenerated`). A lookup that finds only a farther block than the first
  definition's would be in such a second condition, where the first has been visited too
  (`FirstIsThere`). So nothing like `DriftProne` is excluded here.

**Recursion and induction.** The induction theorems of the library take an operator as a
parameter, which the provers cannot instantiate. `ValueProofs` has two replacements
instead. `Least`: a set of naturals that is not empty has a least element; what should
hold of all numbers is shown by taking the least one that fails. `Recursion` and
`Iteration`: a function with the equations of a recursive definition exists, so
that such a function can be expanded (`Cells`, `CloneOf`, `Layers`, the folds over
arrays). They are used with the set of values at hand, no operator as argument.

**What the proofs changed.** `WellFormed` was too weak to prove with: it now says
that the body of an array is under its holder or under another body, and that literals
are of the width; the grammar says the one, the conversion of literals the other. A
pointer stored in the slot of an int, which an unchecked else branch can make the
generator do, had no meaning in `Machine` (`StorePointer`). `GeneratedNamesResolve` missed an exclusion: an
assignment in an else branch counts for the generator and not for the checker.
`TypeSound` and `UsedArraysAlive` were false as they stood, each of a program the runs did not
have: the one did not except what is below an else and has no name, the other
looked at whether the name used drifts, when it is the name it was bound from that may. Both
programs are in the runs now (`interpreter`, `loops`).

**Only model-checked.**
- Liveness (`Terminates`, `ValidationEnds`, `CompiledTerminates`): out of the prover's reach.
- `ImplementsLanguage`, `CompiledImplementsLanguage` and the parser's properties: they rest on
  RECURSIVE operators over programs and texts, which the provers do not take.
- `CheckerFaultsAreReal`: an action property whose reference value is recursive too.
- `AcceptedCompiles`, `HeapArraysFreedOnce`, `MachineTypeOK`: what an executed
  instruction finds in its registers follows from dominance, a statement about all paths
  of the generated graph; the proofs here stop at the structure of the code.

Of the invariants of checker and interpreter none is left to TLC alone.

## Not modelled

- Partial accesses and preset arrays of several dimensions (see Abstractions): the
  heap of the model keeps an array's ints in one sequence, so a part of one is
  no value of its own.
- Regular expressions of the lexer, locations, the wording of messages, the dot dump
  of the tree, option parsing, the version printer: pure text.
- Deallocation of `Values`, `Types` and `WrapperStorage`: they only grow, and the
  process ends before they are freed. `ResourceHandleMap` grows too, with each pass of a
  loop that makes an array (interpreter.cpp:299-301); `LiveArraysScoped` bounds only those of
  them that are alive. No property bounds the growth, and no run
  has a size that wraps as a number of bytes only, though `DoMalloc` would.
- LLVM beyond the builder calls and the verifier's rules that the generated code can
  break; the optimisation passes clang may be asked for.
- Build files and tests: read for what the program promises.

## Plan

Done: parser; checker, interpreter and their agreement; code generator, executable and
their agreement with the language; the theorems above.

1. Theorems about the executable, which begin with dominance in the generated graph: that
   what is executed finds its registers written (`MachineTypeOK`), that an array is freed
   once (`HeapArraysFreedOnce`, from an invariant like `OwnInv` for `ResourcesToFree`), and then
   the structural part of `AcceptedCompiles`.
2. A heap of nested objects, for the two cases of arrays left out.

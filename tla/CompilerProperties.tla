------------------------- MODULE CompilerProperties -------------------------
(***************************************************************************)
(* What the compiler mode promises: that what the checker accepts is       *)
(* compiled, and that what is compiled runs.                               *)
(***************************************************************************)
EXTENDS Compiler

Generating == phase = "generate"
Accepted   == phase # "validate"

-----------------------------------------------------------------------------
(***************************************************************************)
(* The programs the generator has no code for, or the wrong code.          *)
(***************************************************************************)
Creations(p)     == { n \in Nodes(p) : p[n].kind = "holder" }
ShortCircuits(p) == { n \in Nodes(p) : p[n].kind = "logic" /\ p[n].op \in {"&&", "||"} }

\* Is node m part of the i-th operand of node n?
Within(p, m, n, i) == i \in DOMAIN p[n].kids /\ p[n].kids[i] \in Ancestors(p, m)

\* Is the value of node n a bit, an i1?
IsBit(p, n) ==
    LET B[m \in Nodes(p)] ==
            CASE p[m].kind = "logic" -> TRUE
              [] p[m].kind = "un" -> p[m].op = "!" \/ B[p[m].kids[1]]
              [] p[m].kind \in {"assign", "print"} -> B[p[m].kids[1]]
              [] p[m].kind = "accessAssign" -> B[p[m].kids[2]]
              [] OTHER -> FALSE
    IN  B[n]

\* A bit is used where an int is expected and nothing widens it.
KeepsBit(p) ==
    \E n \in Nodes(p) \ {1} :
        /\ IsBit(p, n)
        /\ LET user == p[p[n].parent]
           IN  \/ user.kind \in {"assign", "accessAssign", "preset", "uniform", "access"}
               \/ user.kind = "un" /\ user.op # "+"

\* An array is copied by its name and an element of it is written somewhere: the copy is
\* made of what the array was created from.
CopiesWrittenArray(p) ==
    \E n, m \in Nodes(p) :
        /\ p[n].kind = "variable" /\ p[p[n].parent].kind \in {"preset", "uniform"}
        /\ p[m].kind = "accessAssign" /\ p[p[m].kids[1]].name = p[n].name

\* The int each node is to the generator when that is a constant.  Names, reads and elements
\* are none to it, nor are && and ||; unlike the checker, it looks through assignments.
GenFolded(p) ==
    LET V[n \in Nodes(p)] ==
            LET v(i)    == V[p[n].kids[i]]
                both    == IsKnown(v(1)) /\ IsKnown(v(2))
                a       == v(1)[1]
                b       == v(2)[1]
            IN  CASE p[n].kind = "number" -> Known(p[n].val)
                  [] p[n].kind \in {"assign", "print"} -> v(1)
                  [] p[n].kind = "accessAssign" -> v(2)
                  [] p[n].kind = "un" ->
                       IF IsKnown(v(1)) THEN Known(UnaryValue(p[n].op, a)) ELSE Unknown
                  [] p[n].kind = "calc" ->
                       IF both /\ ArithFault(p[n].op, a, b) = "none"
                       THEN Known(ArithValue(p[n].op, a, b)) ELSE Unknown
                  [] p[n].kind = "logic" /\ p[n].op \notin {"&&", "||"} ->
                       IF both THEN Known(LogicValue(p[n].op, a, b)) ELSE Unknown
                  [] OTHER -> Unknown
    IN  V

\* A division of constants that has no value.
FoldsToPoison(p) ==
    \E n \in Nodes(p) :
        /\ p[n].kind = "calc"
        /\ LET lhs == GenFolded(p)[p[n].kids[1]]
               rhs == GenFolded(p)[p[n].kids[2]]
           IN  IsKnown(lhs) /\ IsKnown(rhs) /\ ArithFault(p[n].op, lhs[1], rhs[1]) # "none"

\* repeat(e, n) among the elements of an array is e alone when the generator takes n for 0
\* or for no constant.
ElementNotRepeated(p) ==
    \E n \in Nodes(p) :
        /\ p[n].kind = "uniform" /\ p[p[n].parent].kind = "preset"
        /\ GenFolded(p)[p[n].kids[2]] \in {Unknown, Known(0)}

\* An array is created while the description of another one is collected.
NestsCreations(p) ==
    \E n, m \in Creations(p) : n # m /\ n \in Ancestors(p, m)

Miscompiled == KeepsBit(prog) \/ CopiesWrittenArray(prog) \/ ElementNotRepeated(prog)
                  \/ NestsCreations(prog) \/ FoldsToPoison(prog)

-----------------------------------------------------------------------------
\* The right operand opens basic blocks, so that the PHI names the wrong one.
BranchingOperand(p) ==
    \E n \in ShortCircuits(p), m \in ShortCircuits(p) \cup Creations(p) : m # n /\ Within(p, m, n, 2)

\* Is the array that node n creates one whose size the generator does not know?  A literal
\* tells by itself, another operand by the type the checker has for it.
OnHeap(p, n) ==
    LET OfSize(m) == p[m].kind = "uniform" /\ ~IsKnown(GenFolded(p)[p[m].kids[2]])
        H[m \in Nodes(p)] ==
            CASE p[m].kind = "holder" -> H[p[m].kids[1]]
              [] p[m].kind = "uniform" -> OfSize(m) \/ H[p[m].kids[1]]
              [] p[m].kind = "preset" -> FALSE
              [] OTHER -> \E k \in DOMAIN Layers(res[m].ty) : OfSize(Layers(res[m].ty)[k])
    IN  H[n]

\* A name is defined, or an array that will be freed is made, where control can skip it.
SkippedDefinition(p) ==
    \E n \in Nodes(p) :
        /\ Conditional(p, n)
        /\ \/ /\ p[n].kind = "assign"
              /\ \A m \in Definitions(p, n) : m >= n \/ Conditional(p, m)
           \/ p[n].kind = "holder" /\ OnHeap(p, n)

\* A name is used where the definition that makes its place may have been skipped.
UsedAfterSkip(p) ==
    \E n, u \in Nodes(p) :
        /\ p[n].kind = "assign" /\ n \in Definitions(p, u) /\ n < u
        /\ \A m \in Definitions(p, n) : m >= n \/ Conditional(p, m)
        /\ p[u].kind \in {"variable", "access", "assign"}
        /\ p[u].kind = "variable" => p[p[u].parent].kind \notin {"preset", "uniform"}
        /\ \E m \in Ancestors(p, n) \ Ancestors(p, u) :
                MaySkip(p, m) /\ ~IsBlock(p, m) /\ p[m].scope = p[n].scope

\* A heap array is made where control can skip it, and is freed behind.
FreedAfterSkip(p) ==
    \E n \in Nodes(p) : p[n].kind = "holder" /\ Conditional(p, n) /\ OnHeap(p, n)

\* The generator has a constant for node n, poison included.
IsConstant(p, n) ==
    LET C[m \in Nodes(p)] ==
            CASE p[m].kind = "number" -> TRUE
              [] p[m].kind \in {"assign", "print"} -> C[p[m].kids[1]]
              [] p[m].kind = "accessAssign" -> C[p[m].kids[2]]
              [] p[m].kind \in {"un", "calc"} -> \A i \in DOMAIN p[m].kids : C[p[m].kids[i]]
              [] p[m].kind = "logic" -> p[m].op \notin {"&&", "||"} /\ C[p[m].kids[1]] /\ C[p[m].kids[2]]
              [] OTHER -> FALSE
    IN  C[n]

\* A bit that is computed is negated, or is an index or the size of an array.
MisusesBit(p) ==
    \E n \in Nodes(p) \ {1} :
        /\ IsBit(p, n) /\ ~IsConstant(p, n)
        /\ LET user == p[p[n].parent]
           IN  \/ user.kind = "un" /\ user.op = "!"
               \/ user.kind = "access"
               \/ user.kind = "uniform" /\ user.kids[2] = n /\ p[user.parent].kind = "holder"

\* An array has a constant size below 0.
NegativeSize(p) ==
    \E n \in Nodes(p) :
        p[n].kind = "uniform" /\ LET size == GenFolded(p)[p[n].kids[2]] IN IsKnown(size) /\ size[1] < 0

\* The branch the checker does not visit uses a name, or an array in the place of an int.
UncheckedUse(p) ==
    \E n \in Nodes(p) :
        /\ UnderElse(p, n)
        /\ \/ p[n].kind \in {"variable", "access", "assign"}
           \/ p[n].kind = "holder" /\ p[p[n].parent].kind # "print"
           \/ p[n].kind = "print" /\ p[p[n].parent].kind \notin {"if", "while", "block"}

-----------------------------------------------------------------------------
(***************************************************************************)
(* The properties.                                                         *)
(***************************************************************************)
\* A visit of this kind returns a value; that of a list of elements is their description.
HasValue(n) == Kind(n) \in ExpressionKinds \ ArrayBodies

\* The locals f of a visit of node n at program point d are in the code m: the condition and
\* the blocks it goes on with.
FrameFits(m, n, d, f) ==
    /\ Kind(n) = "if" /\ d >= 2 =>
          f[1] \in MadeIn(m) /\ {f[2], f[3], f[3] + 1} \subseteq DOMAIN m.blocks
    /\ IsShortCircuit(n) /\ d >= 2 => {f[1], f[2], f[3]} \subseteq DOMAIN m.blocks
    /\ Kind(n) = "while" /\ f # <<>> => {f[1], f[2]} \subseteq DOMAIN m.blocks

\* The heap arrays made so far.
Mallocs == { v \in MadeIn(ir) : v.at # <<>> /\ Instruction(ir, v).op = "malloc" }

\* The code is of one piece and so are the tables: every operand, every value the generator
\* holds, every local and everything it knows of an array is a constant or is in the code
\* built so far, every jump has a target, an operand that was visited has a value, the names
\* that have a type are those that have a place, and only what malloc returned is freed.
GeneratorTypeOK ==
    /\ StackTypeOK
    /\ Built(ir) /\ ir.fault = "none"
    /\ DOMAIN made = Node /\ \A n \in Node : made[n] \in MadeIn(ir)
    /\ DOMAIN frame = Node
    /\ Generating =>
          \A n \in Node :
             /\ FrameFits(ir, n, done[n], frame[n])
             /\ \A i \in 1..done[n] :
                   Kid(n, i) \notin OnStack /\ HasValue(Kid(n, i)) => made[Kid(n, i)].ty # "none"
    /\ DOMAIN SymTbl \subseteq Keys /\ DOMAIN SymTbl = DOMAIN NameToValue
    /\ \A k \in DOMAIN NameToValue : NameToValue[k] \in MadeIn(ir) /\ NameToValue[k].ty = "ptr"
    /\ DOMAIN ArrInfoMap \subseteq Places(ir)
    /\ \A info \in { ArrInfoMap[p] : p \in DOMAIN ArrInfoMap } \cup {CurrArrInfo} :
          info \in [sizes : Seq(MadeIn(ir)), data : Seq(MadeIn(ir))]
    /\ \A b \in DOMAIN ResourcesToFree : IsBlock(prog, b) /\ ResourcesToFree[b] \in Seq(Mallocs)

\* The executable reads and computes ints of the width, and is at an instruction.
MachineTypeOK ==
    /\ pc = Nowhere \/ (pc[1] \in DOMAIN code /\ pc[2] \in DOMAIN code[pc[1]])
    /\ outcome \in {"running", "exited", "badInput", "trapped", "dangling", "badIndex", "badFree"}
    /\ output \in Seq(Int32) /\ scanned \in Seq(InputValues)

\* A program without errors compiles: what is generated for it passes the verifier and no
\* assert of the generator fails, but for programs with an operand that branches, a
\* definition that can be skipped, a bit nothing widens, a size below 0, or a use in an else
\* that was not checked.  Those that use the branch's result, the skipped definition or the
\* bit never compile.
AcceptedCompiles ==
    /\ Generating /\ ~Running =>
          \/ BranchingOperand(prog) \/ SkippedDefinition(prog) \/ KeepsBit(prog)
          \/ NegativeSize(prog) \/ UncheckedUse(prog)
    /\ phase = "execute" =>
          \/ UncheckedUse(prog)
          \/ ~( \/ BranchingOperand(prog) \/ UsedAfterSkip(prog) \/ FreedAfterSkip(prog)
                \/ MisusesBit(prog) )

\* The generator finds for a name the definition the checker found for it, if the checker
\* has visited the name and whatever can define it.
GeneratedNamesResolve ==
    /\ Generating /\ (At("variable", 0) \/ ReadyToGen("access"))
    /\ \A n \in {cur} \cup Definitions(prog, cur) : ~UnderElse(prog, n)
    /\ isDefined(SymTbl, Name(cur), Scope(cur))
    => getDeclKeyFor(SymTbl, Name(cur), Scope(cur))
          = getDeclKeyFor(Declared, Name(cur), Scope(cur))

\* What is known of an array is collected apart from every other array.
DescriptionsApart ==
    Generating /\ Running /\ ~NestsCreations(prog) =>
        /\ CurrArrInfo # NoArrInfo => \E n \in OnStack : Kind(n) = "holder"
        /\ At("holder", 0) => CurrArrInfo = NoArrInfo

\* Whatever path it takes, an executable that ends has freed every heap array once, and
\* it never frees or uses one that was freed.
HeapArraysFreedOnce ==
    /\ outcome \notin {"badFree", "dangling"}
    /\ outcome = "exited" => \A o \in DOMAIN mem : mem[o].heap => ~mem[o].alive

\* The executable of a program whose loops count or read ends.
CompiledTerminates == phase = "execute" ~> outcome # "running"

-----------------------------------------------------------------------------
(***************************************************************************)
(* What the repository says of the compiler mode and it does not do.       *)
(***************************************************************************)
\* README: who compiles a program without errors will receive an executable file.
ExecutableReceived == Generating => Running
=============================================================================

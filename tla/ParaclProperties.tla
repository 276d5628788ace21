-------------------------- MODULE ParaclProperties --------------------------
(***************************************************************************)
(* What the checker and the interpreter promise, each alone and together.  *)
(***************************************************************************)
EXTENDS Paracl

Evaluating == phase = "evaluate"

-----------------------------------------------------------------------------
(***************************************************************************)
(* Types.                                                                  *)
(***************************************************************************)
IsRef(r) == r = Null \/ (r.obj \in DOMAIN Values /\ r.cell \in Nat)

\* Into how many parts so many indices divide an array of this shape.
Parts(shape) ==
    LET Count[k \in 0..Len(shape)] == IF k = 0 THEN 1 ELSE Count[k - 1] * shape[k]
    IN  Count

HeapTypeOK ==
    \A o \in DOMAIN Values :
        LET v == Values[o]
        IN  /\ v.ty \in TypeNames /\ v.alive \in BOOLEAN
            /\ v.cells \in Seq(Int32) /\ v.shape \in Seq(Nat)
            /\ Len(v.cells) = Parts(v.shape)[Len(v.shape)]
            /\ v.ty = "repeat" => v.initer.obj \in 1..(o - 1)

\* Every variable holds what its declaration says: ints stay within the width,
\* an array's elements fill its shape, and a uniform array's initer is older
\* than the array, so that cloning it ends.
TypeOK ==
    /\ StackTypeOK /\ HeapTypeOK
    /\ phase \in {"validate", "evaluate"}
    /\ \A n \in Node : IsRef(ret[n])
    /\ DOMAIN NamesInfo \subseteq Keys /\ DOMAIN NameToValue \subseteq Keys
    /\ DOMAIN Declared \subseteq Keys
    /\ \A k \in DOMAIN Declared : Declared[k] \in Node \cup {IntTy}
    /\ reads \in Seq(InputValues) /\ Len(reads) <= MaxReads /\ output \in Seq(Int32)
    /\ \A n \in Node : res[n].ty \in Node \cup {NoTy, IntTy}
    /\ \A i \in DOMAIN Errors : Errors[i] \in Node

-----------------------------------------------------------------------------
(***************************************************************************)
(* Which names a run can resolve otherwise than the checker did.           *)
(***************************************************************************)
NamingNodes == { n \in Node : Kind(n) \in {"variable", "access", "assign"} }

SameLoop(m, n) ==
    \E w \in Ancestors(prog, m) \cap Ancestors(prog, n) : Kind(w) = "while"

\* The checker never visited n, or a definition that n may stand for can be
\* skipped, was never visited, or comes later in a loop around both.
DriftProne(n) ==
    \/ UnderElse(prog, n)
    \/ \E m \in Definitions(prog, n) :
          \/ Conditional(prog, m) \/ UnderElse(prog, m)
          \/ m > n /\ SameLoop(m, n)

Drifts == \E n \in NamingNodes : DriftProne(n)

\* The block a name stands for: an assignment to a name no block declares defines
\* it in its own.
BlockFor(table, n) ==
    LET block == getDeclScopeFor(table, Name(n), Scope(n))
    IN  IF block = 0 /\ Kind(n) = "assign" THEN Scope(n)[1] ELSE block

\* The interpreter is about to look up the name of cur.
NamingPoint == Evaluating /\ (At("variable", 0) \/ At("access", 0) \/ At("assign", 1))

-----------------------------------------------------------------------------
(***************************************************************************)
(* Scopes and lifetimes.                                                   *)
(***************************************************************************)

\* Every array that is not destroyed is on the list of a block that is still being
\* executed: freeResources leaves none behind, and at the end none is alive.
LiveArraysScoped ==
    \A o \in DOMAIN Values :
        Values[o].ty \in ArrayTypes /\ Values[o].alive =>
            \E b \in DOMAIN ResourceHandleMap :
                o \in ResourceHandleMap[b] /\ b \in OnStack

\* An array bound to a name of a block that was left is destroyed: it does not wait
\* for an outer block to end.
LeftScopesHoldNoArray ==
    \A k \in DOMAIN NameToValue :
        LET r == NameToValue[k]
        IN  r.cell = 0 /\ Values[r.obj].alive => k[2] \in OnStack \/ Drifts

\* An array that is about to be used through its name has not been destroyed, unless
\* names drift and a loop came back to the block it was bound in without binding it
\* again.
UsedArraysAlive ==
    NamingPoint /\ Kind(cur) # "assign" /\ isDefined(NamesInfo, Name(cur), Scope(cur)) =>
        LET key == getDeclKeyFor(NamesInfo, Name(cur), Scope(cur))
            r   == NameToValue[key]
        IN  r.cell = 0 =>
                \/ Values[r.obj].alive
                \/ Drifts /\ UnderWhile(prog, key[2])

\* SymTbl and ValManager, two maps written at different places, always hold the same
\* names, and the recorded type is that of the value.
SymbolsCoherent ==
    /\ DOMAIN NamesInfo = DOMAIN NameToValue
    /\ \A k \in DOMAIN NamesInfo : NamesInfo[k] = TypeOf(Values, NameToValue[k])

\* Two names never stand for one object: ints are copied when they are defined, and
\* the checker refuses to bind an array to a second name.
NamesDoNotAlias ==
    \A k, l \in DOMAIN NameToValue : NameToValue[k] = NameToValue[l] => k = l \/ Drifts

-----------------------------------------------------------------------------
(***************************************************************************)
(* The checker and the interpreter agree.                                  *)
(***************************************************************************)

\* A name in a running program stands for the declaration the checker found for it.
NamesResolveStatically ==
    NamingPoint => \/ BlockFor(NamesInfo, cur) = BlockFor(Declared, cur)
                   \/ DriftProne(cur)

RuntimeType(t) ==
    CASE TypeID(t) = "uniform" -> "repeat" [] TypeID(t) = "preset" -> "array"
      [] OTHER -> "int32"

\* A loop body is checked once, so the second time an array is assigned in it goes
\* unnoticed: the name is defined by then.
RedefinesArray ==
    status = "typeConfusion" /\ Kind(cur) = "assign" /\ UnderWhile(prog, cur)

\* What an expression returned has the type the checker gave the expression, and no
\* assert of the interpreter fails, no value is cast to what it is not and none is
\* read after its destruction, but for arrays redefined in a loop and below an else,
\* which the checker does not visit.
TypeSound ==
    Evaluating =>
        \/ /\ \A n \in Node \ OnStack :
                 ret[n] # Null /\ res[n].ty # NoTy =>
                     TypeOf(Values, ret[n]) = RuntimeType(res[n].ty)
           /\ status \in {"assertFailed", "typeConfusion", "dangling"} =>
                 RedefinesArray \/ UnderElse(prog, cur)
        \/ Drifts

\* A program without errors leaves no expression the checker saw without a type: only
\* an assignment to an element has none, and what prints or repeats one.
AcceptedIsTyped ==
    Evaluating =>
        \A n \in Node :
            Kind(n) \in DOMAIN Arity \ {"if", "while"} =>
                \/ /\ res[n].ty # NoTy
                   /\ isArrayTy(res[n].ty) =>
                         \/ arrayTypes[res[n].ty].contained # NoTy
                         \/ ElementAssignment(prog, Kid(res[n].ty, 1))
                \/ ElementAssignment(prog, n)
                \/ UnderElse(prog, n)

\* The checker itself fails, on an assert or a null type, only in a program it has already
\* reported an error in, or at an array that repeats an assignment to an element: no other
\* missing type gets that far in silence.
CheckerFailsOnReported ==
    phase = "validate" /\ status \in {"assertFailed", "nullDeref"} =>
        \/ Errors # <<>>
        \/ LET t == IF status = "assertFailed" THEN Ty(done[cur])
                    ELSE Layers(AccessedTy)[computeArrayDimension(AccessedTy)]
           IN  ElementAssignment(prog, Kid(t, 1))

\* Whatever the checker computed for an expression is what the interpreter computes.
FoldedConstantsAgree ==
    Evaluating =>
        \A n \in Node \ OnStack :
            ret[n] # Null /\ IsKnown(res[n].val) => getValue(Values, ret[n]) = res[n].val[1]

\* An index the checker knows, into an array whose size it knows, is within bounds.
ConstantIndexChecked ==
    Evaluating /\ status = "badIndex" =>
        LET k == done[cur]
        IN  \/ ~IsKnown(res[Kid(cur, k)].val)
            \/ ~IsKnown(arrayTypes[Layers(AccessedTy)[k]].size)
            \/ Drifts

\* The checker reaches its verdict: a loop is walked through once.
ValidationEnds == <>(~Running \/ Evaluating)

\* A loop that counts down or that reads ends, whatever there is to read: its condition
\* is evaluated again before every pass.
Terminates == <>(~Running)

-----------------------------------------------------------------------------
(***************************************************************************)
(* What the repository says of the program and the program does not do.    *)
(***************************************************************************)

\* interpreter.cpp: a variable that is visited has a type, assert(Ty); README: the
\* code is diagnosed first and only proceeds if no error is found.
VisitedVariablesTyped ==
    Evaluating /\ status = "assertFailed" => Kind(cur) # "variable"

\* interpreter.cpp: "Since the array is assigned only during its creation".
ArraysAssignedOnce ==
    Evaluating /\ At("assign", 1) /\ ret[Kid(cur, 1)].cell = 0 =>
        ~isDefined(NamesInfo, Name(cur), Scope(cur))

\* README: repeat(UniformArr, 2) is 2 x UniformArr.
RepeatsItsIniter ==
    [][ \A o \in DOMAIN Values' \ DOMAIN Values :
          LET v == Values'[o]
          IN  v.ty = "repeat" /\ v.initer.cell = 0 =>
                  v.cells = Times(v.shape[1], Values[v.initer.obj].cells) ]_vars

\* error_handler.cpp: an array type that is an element has a contained type,
\* assert(ContainedType).
ElementTypesContained == phase = "validate" => status # "assertFailed"
=============================================================================

---------------------------- MODULE ErrorHandler ----------------------------
(***************************************************************************)
(* The static checks made before a program is evaluated or compiled.  The  *)
(* checker walks the tree with the same visitor machinery, but a visit     *)
(* returns a type, and a value when it could be computed.  A node is       *)
(* checked at most once, so an array type is named by the node that made   *)
(* it; all int32 types are one.  A variable has no value here: what        *)
(* assignment links with the name is nullptr.                              *)
(***************************************************************************)
EXTENDS Visitor, SemanticContext, Int32

VARIABLES
    res,         \* what each node's visit returned
    arrayTypes,  \* the ArrayTy each array node created
    Declared,    \* the checker's own SymTbl: key -> type
    Errors       \* the nodes errors were reported at, in order

checkVars == <<res, arrayTypes, Declared, Errors>>

\* Types: an array node, or one of these.
NoTy  == 0                      \* nullptr
IntTy == -1
isArrayTy(t) == t > 0

\* Values and sizes that are known before the program runs: <<v>>, or <<>>.
Unknown == <<>>
Known(v) == <<v>>
IsKnown(v) == v # Unknown

Result(ty, val) == [ty |-> ty, val |-> val]
NoResult == Result(NoTy, Unknown)

NoArrayTy == [contained |-> NoTy, size |-> Unknown]

CheckInit ==
    /\ res = [n \in Node |-> NoResult]
    /\ arrayTypes = [n \in Node |-> NoArrayTy]
    /\ Declared = EmptyTable
    /\ Errors = <<>>

\* The keys that the names and the blocks of the tree make.
Keys == { SymTabKey(prog[n].name, b) : n \in Node, b \in { m \in Node : IsBlock(prog, m) } }

-----------------------------------------------------------------------------
Ty(i)  == res[Kid(cur, i)].ty
Val(i) == res[Kid(cur, i)].val

\* TypeID: types are compared by kind.
TypeID(t) == IF t > 0 THEN Kind(t) ELSE IF t = IntTy THEN "int32" ELSE "unknown"

Yield(r)   == res' = [res EXCEPT ![cur] = r] /\ Return
Report(k)  == Errors' = Errors \o [i \in 1..k |-> cur]
ReportIf(b) == Report(IF b THEN 1 ELSE 0)

HaltCheck(why) == Stop(why) /\ UNCHANGED checkVars

\* The number of kids a visit method accepts without looking at what they return.
CheckedOperands(n) ==
    CASE Kind(n) \in {"assign", "if", "while"} -> 1
      [] Kind(n) \in {"access", "accessAssign"} -> 0
      [] OTHER -> Len(Kids(n))

ReadyToCheck(kind) == At(kind, CheckedOperands(cur))

\* An array element whose own element type could not be deduced: the visit of a
\* preset array asserts that it has one, before it accepts the next element.
LacksContained(i) == isArrayTy(Ty(i)) /\ arrayTypes[Ty(i)].contained = NoTy

ElementAsserts == Kind(cur) = "preset" /\ done[cur] > 0 /\ LacksContained(done[cur])

CheckOperand ==
    /\ Running /\ cur # 0 /\ done[cur] < CheckedOperands(cur)
    /\ ~ElementAsserts
    /\ Accept(done[cur] + 1)
    /\ UNCHANGED checkVars

-----------------------------------------------------------------------------
CheckNumber ==
    /\ ReadyToCheck("number")
    /\ Yield(Result(IntTy, Known(prog[cur].val)))
    /\ UNCHANGED <<arrayTypes, Declared, Errors>>

CheckRead ==
    /\ ReadyToCheck("read")
    /\ Yield(Result(IntTy, Unknown))
    /\ UNCHANGED <<arrayTypes, Declared, Errors>>

\* Mutant: an undeclared name is not reported.
CheckVariableSilently ==
    /\ ReadyToCheck("variable")
    /\ Yield(IF isDefined(Declared, Name(cur), Scope(cur))
             THEN Result(getTypeFor(Declared, Name(cur), Scope(cur)), Unknown)
             ELSE NoResult)
    /\ UNCHANGED <<arrayTypes, Declared, Errors>>

CheckVariable ==
    /\ ReadyToCheck("variable")
    /\ LET known == isDefined(Declared, Name(cur), Scope(cur))
       IN  /\ ReportIf(~known)
           /\ Yield(IF known
                    THEN Result(getTypeFor(Declared, Name(cur), Scope(cur)), Unknown)
                    ELSE NoResult)
    /\ UNCHANGED <<arrayTypes, Declared>>

\* Mutant: a unary operator is folded as its operand.
CheckUnPlain ==
    /\ ReadyToCheck("un")
    /\ ReportIf(Ty(1) # IntTy)
    /\ Yield(IF Ty(1) # IntTy THEN NoResult ELSE Result(IntTy, Val(1)))
    /\ UNCHANGED <<arrayTypes, Declared>>

CheckUn ==
    /\ ReadyToCheck("un")
    /\ ReportIf(Ty(1) # IntTy)
    /\ Yield(IF Ty(1) # IntTy THEN NoResult
             ELSE Result(IntTy, IF IsKnown(Val(1)) THEN Known(UnaryValue(Op(cur), Val(1)[1]))
                                                   ELSE Unknown))
    /\ UNCHANGED <<arrayTypes, Declared>>

\* Mutant: the right operand's type is not compared.
BothIntLeftOnly == Ty(1) = IntTy

BothInt   == Ty(1) = IntTy /\ Ty(2) = IntTy
BothKnown == BothInt /\ IsKnown(Val(1)) /\ IsKnown(Val(2))

\* Constants are folded with the interpreter's own operations, which stop the
\* process for an operation that has no result.
CheckCalc ==
    /\ ReadyToCheck("calc")
    /\ LET fault == ArithFault(Op(cur), Val(1)[1], Val(2)[1])
       IN  IF BothKnown /\ fault # "none" THEN HaltCheck(fault)
           ELSE /\ ReportIf(~BothInt)
                /\ Yield(IF BothKnown
                         THEN Result(IntTy, Known(ArithValue(Op(cur), Val(1)[1], Val(2)[1])))
                         ELSE IF NoTy \in {Ty(1), Ty(2)} THEN NoResult
                         ELSE Result(Ty(1), Unknown))
                /\ UNCHANGED <<arrayTypes, Declared>>

CheckLogic ==
    /\ ReadyToCheck("logic")
    /\ ReportIf(~BothInt)
    /\ Yield(IF ~BothInt THEN NoResult
             ELSE Result(IntTy, IF BothKnown
                                THEN Known(LogicValue(Op(cur), Val(1)[1], Val(2)[1]))
                                ELSE Unknown))
    /\ UNCHANGED <<arrayTypes, Declared>>

CheckPrint ==
    /\ ReadyToCheck("print")
    /\ Yield(Result(Ty(1), Unknown))
    /\ UNCHANGED <<arrayTypes, Declared, Errors>>

-----------------------------------------------------------------------------
(***************************************************************************)
(* Assignment: the name is declared between the visits of the two sides,   *)
(* unless that would copy an array.                                        *)
(***************************************************************************)
Undeclared == ~isDefined(Declared, Name(cur), Scope(cur))

\* Mutant: a second name for an array is not noticed.
CopiesNothing == FALSE

CopiesArray ==
    Undeclared /\ isArrayTy(Ty(1)) /\ containsKeyWithType(Declared, Ty(1))

\* Mutant: an array is assigned to a name that has one.
CheckAssignedValueAgain ==
    /\ ReadyToCheck("assign")
    /\ IF CopiesArray
       THEN /\ Report(1) /\ Yield(Result(Ty(1), Unknown))
            /\ UNCHANGED <<arrayTypes, Declared>>
       ELSE /\ Declared' = IF Undeclared /\ Ty(1) # NoTy
                           THEN tryDefine(Declared, SymTabKey(Name(cur), Scope(cur)[1]), Ty(1))
                           ELSE Declared
            /\ Accept(2)
            /\ UNCHANGED <<res, arrayTypes, Errors>>

CheckAssignedValue ==
    /\ ReadyToCheck("assign")
    /\ IF CopiesArray
       THEN /\ Report(1) /\ Yield(Result(Ty(1), Unknown))
            /\ UNCHANGED <<arrayTypes, Declared>>
       ELSE /\ Declared' = IF Undeclared /\ Ty(1) # NoTy
                           THEN tryDefine(Declared, SymTabKey(Name(cur), Scope(cur)[1]), Ty(1))
                           ELSE Declared
            /\ ReportIf(~Undeclared /\ isArrayTy(Ty(1)))
            /\ Accept(2)
            /\ UNCHANGED <<res, arrayTypes>>

CheckAssignment ==
    /\ At("assign", 2)
    /\ ReportIf(Ty(1) = NoTy \/ Ty(2) = NoTy \/ TypeID(Ty(1)) # TypeID(Ty(2)))
    /\ Yield(Result(Ty(1), Unknown))
    /\ UNCHANGED <<arrayTypes, Declared>>

-----------------------------------------------------------------------------
(***************************************************************************)
(* Arrays.                                                                 *)
(***************************************************************************)
CheckArrayHolder ==
    /\ ReadyToCheck("holder")
    /\ Yield(res[Kid(cur, 1)])
    /\ UNCHANGED <<arrayTypes, Declared, Errors>>

\* What one element adds to the size of a preset array.
ElementSize(i) ==
    IF Ty(i) = NoTy THEN 0
    ELSE IF ~isArrayTy(Ty(i)) THEN 1
    ELSE IF IsKnown(arrayTypes[Ty(i)].size) THEN arrayTypes[Ty(i)].size[1] ELSE 0

InvalidElement(i) ==
    \/ Ty(i) = NoTy
    \/ isArrayTy(Ty(i)) /\ \/ ~IsKnown(arrayTypes[Ty(i)].size)
                           \/ isArrayTy(arrayTypes[Ty(i)].contained)

PresetSize ==
    LET Sum[k \in 0..Len(Kids(cur))] ==
            IF k = 0 THEN 0 ELSE (Sum[k - 1] + ElementSize(k)) % Word
    IN  IF \E i \in DOMAIN Kids(cur) :
              isArrayTy(Ty(i)) /\ isArrayTy(arrayTypes[Ty(i)].contained)
        THEN Unknown ELSE Known(Sum[Len(Kids(cur))])

CheckElement ==
    /\ Running /\ cur # 0 /\ ElementAsserts
    /\ HaltCheck("assertFailed")

CheckPresetArray ==
    /\ ReadyToCheck("preset") /\ ~ElementAsserts
    /\ ReportIf(\E i \in DOMAIN Kids(cur) : InvalidElement(i))
    /\ arrayTypes' = [arrayTypes EXCEPT ![cur] = [contained |-> IntTy, size |-> PresetSize]]
    /\ Yield(Result(cur, Unknown))
    /\ UNCHANGED Declared

CheckUniformArray ==
    /\ ReadyToCheck("uniform")
    /\ ReportIf(isArrayTy(Ty(2)))
    /\ arrayTypes' =
          [arrayTypes EXCEPT ![cur] =
              [ contained |-> Ty(1),
                size |-> IF Ty(2) = IntTy /\ IsKnown(Val(2))
                         THEN Known(Unsigned(Val(2)[1])) ELSE Unknown ]]
    /\ Yield(Result(cur, Unknown))
    /\ UNCHANGED Declared

\* The array types found by following the contained types of t, t first.
Layers(t) ==
    LET From[k \in IntTy..Len(prog)] ==
            IF k > 0 THEN <<k>> \o From[arrayTypes[k].contained] ELSE <<>>
    IN  From[t]

computeArrayDimension(t) == Len(Layers(t))

\* computeArrayDimension asks the contained type of every layer but the first
\* whether it is an array, null or not.
DimensionNullDeref(t) ==
    LET layers == Layers(t)
    IN  Len(layers) > 1 /\ arrayTypes[layers[Len(layers)]].contained = NoTy

AccessedTy == getTypeFor(Declared, Name(cur), Scope(cur))

CheckArrayAccess ==
    /\ At("access", 0)
    /\ IF ~Undeclared /\ isArrayTy(AccessedTy) /\ DimensionNullDeref(AccessedTy)
       THEN HaltCheck("nullDeref")
       ELSE IF Undeclared \/ ~isArrayTy(AccessedTy)
               \/ computeArrayDimension(AccessedTy) # Len(Kids(cur))
       THEN Report(1) /\ Yield(NoResult) /\ UNCHANGED <<arrayTypes, Declared>>
       ELSE Accept(1) /\ UNCHANGED checkVars

\* Mutant: off by one.
WrongIndexBeyond(k) ==
    LET size == arrayTypes[Layers(AccessedTy)[k]].size
    IN  /\ Ty(k) = IntTy /\ IsKnown(Val(k))
        /\ Val(k)[1] < 0 \/ (IsKnown(size) /\ size[1] < Val(k)[1])

\* A constant index is compared with the size of its dimension when that is known.
WrongIndex(k) ==
    LET size == arrayTypes[Layers(AccessedTy)[k]].size
    IN  /\ Ty(k) = IntTy /\ IsKnown(Val(k))
        /\ Val(k)[1] < 0 \/ (IsKnown(size) /\ size[1] <= Val(k)[1])

CheckRank ==
    /\ Running /\ cur # 0 /\ Kind(cur) = "access" /\ done[cur] > 0
    /\ LET k == done[cur]
       IN  /\ ReportIf(isArrayTy(Ty(k)) \/ WrongIndex(k))
           /\ IF isArrayTy(Ty(k)) THEN Yield(NoResult)
              ELSE IF k < Len(Kids(cur)) THEN Accept(k + 1) /\ UNCHANGED res
              ELSE Yield(Result(IntTy, Unknown))
    /\ UNCHANGED <<arrayTypes, Declared>>

CheckAssignedElement ==
    /\ At("accessAssign", 0)
    /\ IF Undeclared
       THEN Report(1) /\ Yield(NoResult) /\ UNCHANGED <<arrayTypes, Declared>>
       ELSE Accept(1) /\ UNCHANGED checkVars

CheckElementValue ==
    /\ At("accessAssign", 1)
    /\ Accept(2) /\ UNCHANGED checkVars

CheckArrayAccessAssignment ==
    /\ At("accessAssign", 2)
    /\ Report((IF isArrayTy(Ty(2)) THEN 1 ELSE 0)
              + (IF NoTy \notin {Ty(1), Ty(2)} /\ TypeID(Ty(1)) # TypeID(Ty(2)) THEN 1 ELSE 0))
    /\ Yield(NoResult)
    /\ UNCHANGED <<arrayTypes, Declared>>

-----------------------------------------------------------------------------
(***************************************************************************)
(* Control.  The body of an if and of a while is checked once, whatever    *)
(* its condition; the else branch of an if is not accepted.                *)
(***************************************************************************)
CheckCondition ==
    /\ At("if", 1) \/ At("while", 1)
    /\ ReportIf(Ty(1) # IntTy)
    /\ Accept(2)
    /\ UNCHANGED <<res, arrayTypes, Declared>>

\* Mutant: the checker follows a loop back, as the interpreter does.
LeaveCheckedLooping ==
    /\ \/ /\ At("if", 2) \/ ReadyToCheck("root") \/ ReadyToCheck("block")
          /\ Return
       \/ /\ At("while", 2)
          /\ Accept(1)
    /\ UNCHANGED checkVars

LeaveChecked ==
    /\ \/ At("if", 2) \/ At("while", 2)
       \/ ReadyToCheck("root") \/ ReadyToCheck("block")
    /\ Return
    /\ UNCHANGED checkVars

CheckNext ==
    \/ CheckOperand
    \/ CheckNumber \/ CheckRead \/ CheckVariable
    \/ CheckUn \/ CheckCalc \/ CheckLogic \/ CheckPrint
    \/ CheckAssignedValue \/ CheckAssignment
    \/ CheckArrayHolder \/ CheckElement \/ CheckPresetArray \/ CheckUniformArray
    \/ CheckArrayAccess \/ CheckRank
    \/ CheckAssignedElement \/ CheckElementValue \/ CheckArrayAccessAssignment
    \/ CheckCondition \/ LeaveChecked
=============================================================================

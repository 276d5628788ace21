---------------------------- MODULE ParaclProofs ----------------------------
(***************************************************************************)
(* Theorems about every program, every input and every width of int: the   *)
(* visitors' stack is a path of the tree, a program the checker accepts is *)
(* typed, and every array that is alive is on the list of a block that is  *)
(* being executed.                                                         *)
(***************************************************************************)
EXTENDS ParaclProperties, CheckerProofs

PhaseOK == phase \in {"validate", "evaluate"}

\* A visit method that accepts its operands in order accepts one that exists.
LEMMA OperandsExist ==
    ASSUME StackInv, cur # 0
    PROVE  done[cur] < Operands(cur) => done[cur] + 1 \in DOMAIN Kids(cur)
<1>1. Kind(cur) \in {"assign", "logic", "if", "while"} => Len(Kids(cur)) >= 1
  <2>1. Kind(cur) = "assign" => Len(Kids(cur)) = 2
    BY KidsExist
  <2>2. Kind(cur) = "logic" => Len(Kids(cur)) = 2
    BY KidsExist
  <2>3. Kind(cur) = "while" => Len(Kids(cur)) = 2
    BY KidsExist
  <2>4. Kind(cur) = "if" => Len(Kids(cur)) = 2 \/ Len(Kids(cur)) = 3
    BY KidsExist
  <2>. QED
    BY <2>1, <2>2, <2>3, <2>4
<1>2. DOMAIN Kids(cur) = 1..Len(Kids(cur)) /\ Len(Kids(cur)) \in Nat
  BY KidsExist
<1>3. Operands(cur) \in 0..Len(Kids(cur))
  BY <1>1, <1>2 DEF Operands
<1>. QED
  BY <1>2, <1>3, KidsExist

LEMMA InterpMoves ==
    ASSUME StackInv, InterpNext
    PROVE  Moves
<1>. USE DEF Moves
<1>1. cur # 0 /\ DOMAIN Kids(cur) = 1..Len(Kids(cur)) /\ Len(Kids(cur)) \in Nat
  <2>1. cur # 0
    BY DEF InterpNext, AcceptOperand, VisitNumber, VisitRead, VisitVariable, VisitUn, VisitCalc,
           VisitLogicLhs, VisitLogicRhs, VisitPrint, VisitAssignment, VisitArrayHolder,
           VisitPresetArray, VisitUniformArray, AccessArray, AccessRank,
           VisitArrayAccessAssignment, VisitIf, LeaveIf, VisitWhile, WhileAgain,
           VisitStatementBlock, Ready, At
  <2>. QED
    BY <2>1, KidsExist
<1>2. ASSUME NEW why \in Ends, Stop(why)
      PROVE  Stays
  BY <1>2 DEF Stop, Stays
<1>3. CASE AcceptOperand
  BY <1>1, <1>3, OperandsExist DEF AcceptOperand, AcceptsKid
<1>4. CASE VisitNumber \/ VisitPrint \/ VisitArrayHolder \/ VisitPresetArray \/ LeaveIf
           \/ VisitStatementBlock
  BY <1>1, <1>4
     DEF VisitNumber, VisitPrint, VisitArrayHolder, VisitPresetArray, LeaveIf,
         VisitStatementBlock, GiveInt, GiveArray, Give, Returns
<1>5. CASE VisitRead \/ VisitVariable \/ VisitUn \/ VisitLogicRhs \/ VisitArrayAccessAssignment
           \/ VisitUniformArray
  <2>1. Returns \/ \E why \in Ends : Stop(why)
    BY <1>1, <1>5
       DEF VisitRead, VisitVariable, VisitUn, VisitLogicRhs, VisitArrayAccessAssignment,
           VisitUniformArray, GiveInt, GiveArray, Give, StopHere, Returns, Ends
  <2>. QED
    BY <1>2, <2>1
<1>6. CASE VisitCalc
  <2>1. Returns \/ \E why \in Ends : Stop(why)
    BY <1>1, <1>6, ArithFaults DEF VisitCalc, GiveInt, Give, StopHere, Returns, Ends
  <2>. QED
    BY <1>2, <2>1
<1>7. CASE VisitAssignment
  <2>1. Returns \/ \E why \in Ends : Stop(why)
    BY <1>1, <1>7 DEF VisitAssignment, Define, Assign, Give, StopHere, Returns, Ends
  <2>. QED
    BY <1>2, <2>1
<1>8. CASE VisitLogicLhs
  <2>1. Returns \/ Accept(2) \/ \E why \in Ends : Stop(why)
    BY <1>1, <1>8 DEF VisitLogicLhs, GiveInt, Give, StopHere, Returns, Ends
  <2>2. Len(Kids(cur)) = 2
    BY <1>8, KidsExist DEF VisitLogicLhs, At
  <2>3. 2 \in DOMAIN Kids(cur)
    BY <1>1, <2>2
  <2>. QED
    BY <1>1, <1>2, <2>1, <2>3 DEF AcceptsKid
<1>9. CASE AccessArray
  <2>1. Accept(1) \/ \E why \in Ends : Stop(why)
    BY <1>1, <1>9 DEF AccessArray, StopHere, Ends
  <2>2. Len(Kids(cur)) >= 1
    BY <1>9, KidsExist DEF AccessArray, At
  <2>3. 1 \in DOMAIN Kids(cur)
    BY <1>1, <2>2
  <2>. QED
    BY <1>1, <1>2, <2>1, <2>3 DEF AcceptsKid
<1>10. CASE AccessRank
  <2>1. \A k : RankFault(k) \in {"none", "typeConfusion", "badIndex"}
    BY DEF RankFault
  <2>2. \/ Returns \/ (done[cur] < Len(Kids(cur)) /\ Accept(done[cur] + 1))
        \/ \E why \in {"typeConfusion", "badIndex"} : Stop(why)
    BY <1>1, <1>10, <2>1 DEF AccessRank, StopHere, Returns
  <2>3. {"typeConfusion", "badIndex"} \subseteq Ends
    BY DEF Ends
  <2>. QED
    BY <1>1, <1>2, <2>2, <2>3, KidsExist DEF AcceptsKid
<1>11. CASE VisitIf
  <2>1. Returns \/ Accept(2) \/ (Len(Kids(cur)) = 3 /\ Accept(3)) \/ \E why \in Ends : Stop(why)
    BY <1>1, <1>11 DEF VisitIf, StopHere, Returns, Ends
  <2>2. Len(Kids(cur)) = 2 \/ Len(Kids(cur)) = 3
    BY <1>11, KidsExist DEF VisitIf, At
  <2>3. 2 \in DOMAIN Kids(cur) /\ (Len(Kids(cur)) = 3 => 3 \in DOMAIN Kids(cur))
    BY <1>1, <2>2
  <2>. QED
    BY <1>1, <1>2, <2>1, <2>3 DEF AcceptsKid
<1>12. CASE VisitWhile \/ WhileAgain
  <2>1. Returns \/ Accept(1) \/ Accept(2) \/ \E why \in Ends : Stop(why)
    BY <1>1, <1>12 DEF VisitWhile, WhileAgain, StopHere, Returns, Ends
  <2>2. Len(Kids(cur)) = 2
    BY <1>12, KidsExist DEF VisitWhile, WhileAgain, At
  <2>3. {1, 2} \subseteq DOMAIN Kids(cur)
    BY <1>1, <2>2
  <2>. QED
    BY <1>1, <1>2, <2>1, <2>3 DEF AcceptsKid
<1>. QED
  BY <1>3, <1>4, <1>5, <1>6, <1>7, <1>8, <1>9, <1>10, <1>11, <1>12 DEF InterpNext

LEMMA StackNext ==
    ASSUME StackInv, [Next]_vars
    PROVE  StackInv'
<1>1. Moves \/ Restarts
  <2>1. CASE Validate
    BY <2>1, CheckMoves DEF Validate
  <2>2. CASE Evaluate
    BY <2>2, InterpMoves DEF Evaluate
  <2>3. CASE Reject \/ Exit
    BY <2>3 DEF Reject, Exit, Stop, Stays, Ends, Moves
  <2>4. CASE StartEvaluation
    BY <2>4 DEF StartEvaluation, Restarts
  <2>5. CASE Stopped \/ UNCHANGED vars
    BY <2>5 DEF Stopped, vars, visitorVars, Stays, Moves, StackInv, StackTypeOK
  <2>. QED
    BY <2>1, <2>2, <2>3, <2>4, <2>5 DEF Next
<1>. QED
  BY <1>1, StackStep

LEMMA StackAtStart ==
    ASSUME Init
    PROVE  StackInv
BY StackFromRoot DEF Init, ProgOK

LEMMA ProgKept ==
    ASSUME StackInv, Moves \/ Restarts
    PROVE  prog' = prog /\ Node' = Node /\ Keys' = Keys
<1>1. prog' = prog
  BY DEF Moves, AcceptsKid, Accept, Returns, Return, Stays, Restarts
<1>. QED
  BY <1>1 DEF Node, Keys

(***************************************************************************)
(* The C++ stack is always the path from the root to the node on top: a    *)
(* visit method returns to the one that accepted its node, and every block *)
(* a node is written in is being executed while the node is visited.       *)
(***************************************************************************)
THEOREM StackAlwaysPath == Spec => [](StackTypeOK /\ StackIsPath /\ ScopesOnStack)
<1>1. Init => StackInv
  BY StackAtStart
<1>2. StackInv /\ [Next]_vars => StackInv'
  BY StackNext
<1>3. StackInv => StackTypeOK /\ StackIsPath /\ ScopesOnStack
  BY DEF StackInv
<1>. QED
  BY <1>1, <1>2, <1>3, PTL DEF Spec

-----------------------------------------------------------------------------
(***************************************************************************)
(* The two phases: while the checker runs its invariant holds, and what it *)
(* has concluded when it found no error stays true of the program that is  *)
(* evaluated.                                                              *)
(***************************************************************************)
PhaseInv ==
    /\ PhaseOK
    /\ phase = "validate" => CheckInv /\ FailureReported
    /\ phase = "evaluate" => Verdict

LEMMA VerdictKept ==
    ASSUME StackInv, Verdict, Node' = Node, prog' = prog, Keys' = Keys, UNCHANGED checkVars
    PROVE  Verdict'
<1>1. /\ res' = res /\ arrayTypes' = arrayTypes /\ Declared' = Declared /\ Errors' = Errors
  BY DEF checkVars
<1>2. \A t : Created(t)' <=> Created(t)
  BY <1>1 DEF Created, Kind
<1>3. CheckTypeOK'
  BY <1>1 DEF Verdict, CheckTypeOK, CheckedTypes, CheckedSizes, CheckedValues
<1>4. TypesCreated' /\ LayersDefined'
  BY <1>1, <1>2 DEF Verdict, TypesCreated, LayersDefined, IsLayers
<1>5. ContainedKnown'
  BY <1>1, <1>2 DEF Verdict, ContainedKnown, Kid
<1>. QED
  BY <1>1, <1>3, <1>4, <1>5 DEF Verdict, Typed, Kind

LEMMA PhaseNext ==
    ASSUME StackInv, PhaseInv, [Next]_vars
    PROVE  PhaseInv'
<1>1. CASE Validate
  <2>1. CheckInv /\ CheckInv' /\ phase' = "validate" /\ (GoesOn \/ Leaves \/ Halts)
    BY <1>1, CheckSteps DEF Validate, PhaseInv
  <2>2. FailureReported'
    <3>1. CASE Halts
      BY <2>1, <3>1, CheckFailures
    <3>2. CASE GoesOn \/ Leaves
      <4>1. Running
        BY <1>1 DEF Validate, CheckNext, CheckOperand, CheckNumber, CheckRead, CheckVariable,
             CheckUn, CheckCalc, CheckLogic, CheckPrint, CheckAssignedValue, CheckAssignment,
             CheckArrayHolder, CheckElement, CheckPresetArray, CheckUniformArray,
             CheckArrayAccess, CheckRank, CheckAssignedElement, CheckElementValue,
             CheckArrayAccessAssignment, CheckCondition, LeaveChecked, ReadyToCheck, At
      <4>2. status' = "running"
        BY <3>2, <4>1 DEF GoesOn, Leaves, Accept, Returns, Return, Running
      <4>. QED
        BY <4>2 DEF FailureReported
    <3>. QED
      BY <2>1, <3>1, <3>2
  <2>. QED
    BY <2>1, <2>2 DEF PhaseInv, PhaseOK
<1>2. CASE StartEvaluation
  <2>1. Verdict /\ phase' = "evaluate" /\ UNCHANGED checkVars
    BY <1>2, CheckEnds DEF StartEvaluation, PhaseInv
  <2>2. Restarts
    BY <1>2 DEF StartEvaluation, Restarts
  <2>. QED
    BY <2>1, <2>2, ProgKept, VerdictKept DEF PhaseInv, PhaseOK
<1>3. CASE Evaluate
  <2>1. Verdict /\ phase' = "evaluate" /\ UNCHANGED checkVars
    BY <1>3 DEF Evaluate, PhaseInv
  <2>2. Moves
    BY <1>3, InterpMoves DEF Evaluate
  <2>. QED
    BY <2>1, <2>2, ProgKept, VerdictKept DEF PhaseInv, PhaseOK
<1>4. CASE Reject \/ Exit \/ Stopped \/ UNCHANGED vars
  <2>1. /\ UNCHANGED <<prog, cur, done>> /\ UNCHANGED checkVars /\ phase' = phase
        /\ status' \in {status, "rejected", "exited"}
    BY <1>4 DEF Reject, Exit, Stopped, Stop, vars, visitorVars, checkVars
  <2>2. Verdict => Verdict'
    <3>1. Node' = Node /\ Keys' = Keys
      BY <2>1 DEF Node, Keys
    <3>. QED
      BY <2>1, <3>1, VerdictKept
  <2>3. CheckInv => CheckInv'
    BY <2>1, CheckInvKept
  <2>4. FailureReported => FailureReported'
    <3>1. /\ cur' = cur /\ done' = done /\ prog' = prog
          /\ res' = res /\ arrayTypes' = arrayTypes /\ Declared' = Declared /\ Errors' = Errors
      BY <2>1 DEF checkVars
    <3>2. AccessedTy' = AccessedTy /\ Layers(AccessedTy)' = Layers(AccessedTy)
      BY <3>1 DEF AccessedTy, Layers, Name, Scope
    <3>3. Ty(done[cur])' = Ty(done[cur])
      BY <3>1 DEF Ty, Kid
    <3>4. computeArrayDimension(AccessedTy)' = computeArrayDimension(AccessedTy)
      BY <3>2 DEF computeArrayDimension
    <3>. QED
      BY <2>1, <3>1, <3>2, <3>3, <3>4 DEF FailureReported, Kid
  <2>. QED
    BY <2>1, <2>2, <2>3, <2>4 DEF PhaseInv, PhaseOK
<1>. QED
  BY <1>1, <1>2, <1>3, <1>4 DEF Next

LEMMA PhaseAtStart ==
    ASSUME Init
    PROVE  PhaseInv
<1>1. CheckInv
  BY CheckStarts DEF Init, ProgOK
<1>. QED
  BY <1>1 DEF Init, PhaseInv, PhaseOK, FailureReported

LEMMA SafetyInv == Spec => [](StackInv /\ PhaseInv)
<1>1. Init => StackInv /\ PhaseInv
  BY StackAtStart, PhaseAtStart
<1>2. StackInv /\ PhaseInv /\ [Next]_vars => (StackInv /\ PhaseInv)'
  BY StackNext, PhaseNext
<1>. QED
  BY <1>1, <1>2, PTL DEF Spec

(***************************************************************************)
(* The checker types everything it visits in a program it accepts, and     *)
(* whatever an accepted array contains: what remains untyped is an         *)
(* assignment to an element, or below the else of an if.                   *)
(***************************************************************************)
THEOREM AcceptedTyped == Spec => []AcceptedIsTyped
<1>1. ASSUME StackInv, PhaseInv PROVE AcceptedIsTyped
  <2>1. SUFFICES ASSUME Evaluating, NEW n \in Node, Kind(n) \in DOMAIN Arity \ {"if", "while"},
                        ~UnderElse(prog, n), ~ElementAssignment(prog, n)
                 PROVE  /\ res[n].ty # NoTy
                        /\ isArrayTy(res[n].ty) =>
                              \/ arrayTypes[res[n].ty].contained # NoTy
                              \/ ElementAssignment(prog, Kid(res[n].ty, 1))
    BY DEF AcceptedIsTyped
  <2>2. Verdict
    BY <1>1, <2>1 DEF PhaseInv, Evaluating
  <2>3. res[n].ty # NoTy
    BY <2>1, <2>2 DEF Verdict, Typed, ExpressionKinds
  <2>4. isArrayTy(res[n].ty) => Created(res[n].ty) /\ res[n].ty \in Node
    BY <2>2 DEF Verdict, TypesCreated, Created
  <2>. QED
    BY <2>2, <2>3, <2>4 DEF Verdict, ContainedKnown
<1>. QED
  BY <1>1, SafetyInv, PTL

(***************************************************************************)
(* The asserts and the null types of the checker: it fails on them only in *)
(* a program it has reported an error in, or where an array repeats an     *)
(* assignment to an element.                                               *)
(***************************************************************************)
THEOREM CheckerFailures == Spec => []CheckerFailsOnReported
<1>1. ASSUME StackInv, PhaseInv PROVE CheckerFailsOnReported
  BY <1>1 DEF PhaseInv, FailureReported, CheckerFailsOnReported
<1>. QED
  BY <1>1, SafetyInv, PTL

-----------------------------------------------------------------------------
(***************************************************************************)
(* Arrays are destroyed on time.  The invariant adds to LiveArraysScoped   *)
(* what keeps it: the keys of ResourceHandleMap are blocks, so that leaving *)
(* any other node takes no list off the stack, and there is no value       *)
(* before the evaluation starts.                                           *)
(***************************************************************************)
Fields == {"ty", "shape", "cells", "initer", "alive"}

\* The heap is a sequence of records.
HeapShape(vals) ==
    /\ Len(vals) \in Nat /\ vals = [o \in 1..Len(vals) |-> vals[o]]
    /\ \A o \in DOMAIN vals : DOMAIN vals[o] = Fields

LiveArrays(vals) == { o \in DOMAIN vals : vals[o].ty \in ArrayTypes /\ vals[o].alive }

ListsOfBlocks == \A b \in DOMAIN ResourceHandleMap : b \in Node /\ IsBlock(prog, b)

HeapInv ==
    /\ phase = "validate" => Values = <<>>
    /\ HeapShape(Values)
    /\ ListsOfBlocks
    /\ LiveArraysScoped

\* What a step of the interpreter can do to the heap.
AddsInt == \E v : createValue(IntegerVal(v))
SetsInt == \E r, v : Values' = setValue(Values, r, v)
KeepsBlocks ==
    /\ prog' = prog
    /\ \A b \in OnStack : IsBlock(prog, b) => b \in OnStack'
KeepsArrays ==
    /\ KeepsBlocks /\ UNCHANGED ResourceHandleMap
    /\ UNCHANGED Values \/ AddsInt \/ SetsInt
MakesArray == /\ Kind(cur) \in {"preset", "uniform"} /\ cur # 0
              /\ \E o : GiveArray(o) /\ DOMAIN o = Fields
FreesBlock == cur # 0 /\ Return /\ freeResources(cur) /\ UNCHANGED ResourceHandleMap

LEMMA BlocksKept ==
    ASSUME StackInv, cur # 0,
           AcceptsKid \/ Stays \/ (Returns /\ Kind(cur) \notin BlockKinds)
    PROVE  KeepsBlocks
<1>1. CASE AcceptsKid
  BY <1>1, AcceptStack DEF AcceptsKid, KeepsBlocks
<1>2. CASE Stays
  BY <1>2 DEF Stays, KeepsBlocks, OnStack, Node
<1>3. CASE Returns /\ Kind(cur) \notin BlockKinds
  BY <1>3, ReturnStack DEF KeepsBlocks, IsBlock, Kind
<1>. QED
  BY <1>1, <1>2, <1>3

LEMMA InterpHeap ==
    ASSUME StackInv, InterpNext
    PROVE  KeepsArrays \/ MakesArray \/ FreesBlock
<1>1. Moves
  BY InterpMoves
<1>. USE DEF KeepsArrays
<1>2. ASSUME Kind(cur) \notin BlockKinds, cur # 0
      PROVE  KeepsBlocks
  BY <1>1, <1>2, BlocksKept DEF Moves
<1>3. CASE AcceptOperand
  <2>1. AcceptsKid
    BY <1>3, KidsExist, OperandsExist DEF AcceptOperand, AcceptsKid
  <2>2. KeepsBlocks
    BY <2>1, BlocksKept DEF AcceptsKid
  <2>. QED
    BY <1>3, <2>2 DEF AcceptOperand, interpVars
<1>4. CASE VisitNumber
  <2>1. KeepsBlocks
    BY <1>2, <1>4 DEF VisitNumber, Ready, At, BlockKinds
  <2>. QED
    BY <1>4, <2>1 DEF VisitNumber, GiveInt, AddsInt
<1>5. CASE VisitRead
  <2>1. KeepsBlocks
    BY <1>2, <1>5 DEF VisitRead, Ready, At, BlockKinds
  <2>. QED
    BY <1>5, <2>1 DEF VisitRead, GiveInt, AddsInt, StopHere, interpVars
<1>6. CASE VisitVariable
  <2>1. KeepsBlocks
    BY <1>2, <1>6 DEF VisitVariable, Ready, At, BlockKinds
  <2>. QED
    BY <1>6, <2>1 DEF VisitVariable, StopHere, interpVars
<1>7. CASE VisitUn
  <2>1. KeepsBlocks
    BY <1>2, <1>7 DEF VisitUn, Ready, At, BlockKinds
  <2>. QED
    BY <1>7, <2>1 DEF VisitUn, GiveInt, AddsInt, StopHere, interpVars
<1>8. CASE VisitCalc
  <2>1. KeepsBlocks
    BY <1>2, <1>8 DEF VisitCalc, Ready, At, BlockKinds
  <2>. QED
    BY <1>8, <2>1 DEF VisitCalc, GiveInt, AddsInt, StopHere, interpVars
<1>9. CASE VisitLogicLhs
  <2>1. KeepsBlocks
    BY <1>2, <1>9 DEF VisitLogicLhs, At, BlockKinds
  <2>. QED
    BY <1>9, <2>1 DEF VisitLogicLhs, GiveInt, AddsInt, StopHere, interpVars
<1>10. CASE VisitLogicRhs
  <2>1. KeepsBlocks
    BY <1>2, <1>10 DEF VisitLogicRhs, At, BlockKinds
  <2>. QED
    BY <1>10, <2>1 DEF VisitLogicRhs, GiveInt, AddsInt, StopHere, interpVars
<1>11. CASE VisitPrint
  <2>1. KeepsBlocks
    BY <1>2, <1>11 DEF VisitPrint, Ready, At, BlockKinds
  <2>. QED
    BY <1>11, <2>1 DEF VisitPrint
<1>12. CASE VisitAssignment
  <2>1. KeepsBlocks
    BY <1>2, <1>12 DEF VisitAssignment, Ready, At, BlockKinds
  <2>. QED
    BY <1>12, <2>1
       DEF VisitAssignment, Define, Assign, AddsInt, SetsInt, StopHere, interpVars
<1>13. CASE VisitArrayHolder
  <2>1. KeepsBlocks
    BY <1>2, <1>13 DEF VisitArrayHolder, Ready, At, BlockKinds
  <2>. QED
    BY <1>13, <2>1 DEF VisitArrayHolder
<1>14. CASE VisitPresetArray
  <2>1. cur # 0 /\ Kind(cur) = "preset" /\ \E refs : GiveArray(PresetArrayVal(Values, refs))
    BY <1>14 DEF VisitPresetArray, Ready, At
  <2>2. \A refs : DOMAIN PresetArrayVal(Values, refs) = Fields
    BY DEF PresetArrayVal, Fields
  <2>. QED
    BY <2>1, <2>2 DEF MakesArray
<1>15. CASE VisitUniformArray
  <2>1. cur # 0 /\ Kind(cur) = "uniform"
    BY <1>15 DEF VisitUniformArray, Ready, At
  <2>2. KeepsBlocks
    BY <1>2, <2>1 DEF BlockKinds
  <2>3. \/ GiveArray(UniformArrayVal(Values, Arg(1), IntArg(2)))
        \/ UNCHANGED interpVars
    BY <1>15 DEF VisitUniformArray, StopHere
  <2>4. DOMAIN UniformArrayVal(Values, Arg(1), IntArg(2)) = Fields
    BY DEF UniformArrayVal, Fields
  <2>. QED
    BY <2>1, <2>2, <2>3, <2>4 DEF MakesArray, interpVars
<1>16. CASE AccessArray
  <2>1. KeepsBlocks
    BY <1>2, <1>16 DEF AccessArray, At, BlockKinds
  <2>. QED
    BY <1>16, <2>1 DEF AccessArray, StopHere, interpVars
<1>17. CASE AccessRank
  <2>1. KeepsBlocks
    BY <1>2, <1>17 DEF AccessRank, BlockKinds
  <2>. QED
    BY <1>17, <2>1 DEF AccessRank, StopHere, interpVars
<1>18. CASE VisitArrayAccessAssignment
  <2>1. KeepsBlocks
    BY <1>2, <1>18 DEF VisitArrayAccessAssignment, Ready, At, BlockKinds
  <2>. QED
    BY <1>18, <2>1 DEF VisitArrayAccessAssignment, SetsInt, StopHere, interpVars
<1>19. CASE VisitIf \/ LeaveIf \/ VisitWhile \/ WhileAgain
  <2>1. KeepsBlocks
    BY <1>2, <1>19 DEF VisitIf, LeaveIf, VisitWhile, WhileAgain, At, BlockKinds
  <2>. QED
    BY <1>19, <2>1 DEF VisitIf, LeaveIf, VisitWhile, WhileAgain, StopHere, interpVars
<1>20. CASE VisitStatementBlock
  BY <1>20 DEF VisitStatementBlock, Ready, At, FreesBlock
<1>. QED
  BY <1>3, <1>4, <1>5, <1>6, <1>7, <1>8, <1>9, <1>10, <1>11, <1>12, <1>13, <1>14, <1>15,
     <1>16, <1>17, <1>18, <1>19, <1>20 DEF InterpNext

\* The heap is a sequence, so that Append leaves the objects it holds alone.
LEMMA HeapIsSeq ==
    ASSUME NEW s, HeapShape(s)
    PROVE  s \in Seq({ s[o] : o \in DOMAIN s }) /\ DOMAIN s = 1..Len(s)
<1>. DEFINE S == { s[o] : o \in DOMAIN s }
<1>1. Len(s) \in Nat /\ s = [o \in 1..Len(s) |-> s[o]] /\ DOMAIN s = 1..Len(s)
  BY DEF HeapShape
<1>2. s \in [1..Len(s) -> S]
  BY <1>1
<1>. QED
  BY <1>1, <1>2, FunctionsAreSeqs

LEMMA AppendedHeap ==
    ASSUME NEW s, HeapShape(s), NEW o, DOMAIN o = Fields
    PROVE  /\ HeapShape(Append(s, o))
           /\ DOMAIN Append(s, o) = DOMAIN s \cup {Len(s) + 1}
           /\ Append(s, o)[Len(s) + 1] = o
           /\ \A i \in DOMAIN s : Append(s, o)[i] = s[i]
<1>. DEFINE S == { s[i] : i \in DOMAIN s } \cup {o}
            t == Append(s, o)
<1>1. DOMAIN s = 1..Len(s) /\ Len(s) \in Nat
  BY HeapIsSeq DEF HeapShape
<1>2. s \in Seq(S)
  <2>1. s \in [1..Len(s) -> S]
    BY <1>1 DEF HeapShape
  <2>. QED
    BY <1>1, <2>1, FunctionsAreSeqs
<1>3. /\ t \in Seq(S) /\ Len(t) = Len(s) + 1
      /\ t[Len(s) + 1] = o /\ \A i \in 1..Len(s) : t[i] = s[i]
  BY <1>1, <1>2
<1>4. DOMAIN t = 1..(Len(s) + 1) /\ t = [i \in 1..Len(t) |-> t[i]] /\ Len(t) \in Nat
  BY <1>3, SeqsAreFunctions
<1>5. DOMAIN t = DOMAIN s \cup {Len(s) + 1}
  BY <1>1, <1>4
<1>6. \A i \in DOMAIN t : DOMAIN t[i] = Fields
  BY <1>1, <1>3, <1>5 DEF HeapShape
<1>7. HeapShape(t)
  BY <1>4, <1>6 DEF HeapShape
<1>. QED
  BY <1>1, <1>3, <1>5, <1>7

\* Changing objects in place, none of their fields lost.
LEMMA ChangedHeap ==
    ASSUME NEW s, HeapShape(s), NEW t, DOMAIN t = DOMAIN s, t = [i \in DOMAIN t |-> t[i]],
           \A i \in DOMAIN t : DOMAIN t[i] = Fields
    PROVE  HeapShape(t)
<1>. DEFINE T == { t[i] : i \in DOMAIN t }
<1>1. DOMAIN t = 1..Len(s) /\ Len(s) \in Nat
  BY HeapIsSeq DEF HeapShape
<1>2. t \in [1..Len(s) -> T]
  BY <1>1
<1>3. Len(t) = Len(s)
  BY <1>1, <1>2, FunctionsAreSeqs
<1>. QED
  BY <1>1, <1>3 DEF HeapShape

LEMMA SetHeap ==
    ASSUME NEW s, HeapShape(s), NEW r, NEW v
    PROVE  /\ HeapShape(setValue(s, r, v))
           /\ LiveArrays(setValue(s, r, v)) = LiveArrays(s)
<1>. DEFINE F(i) == IF i = r.obj
                    THEN [s[i] EXCEPT !.cells = [s[i].cells EXCEPT ![r.cell] = v]] ELSE s[i]
            t == [i \in DOMAIN s |-> F(i)]
<1>1. setValue(s, r, v) = t
  BY DEF setValue
<1>2. \A i \in DOMAIN s : /\ DOMAIN F(i) = Fields
                          /\ F(i).ty = s[i].ty /\ F(i).alive = s[i].alive
  BY DEF HeapShape, Fields
<1>3. HeapShape(t)
  <2>. HIDE DEF F
  <2>1. DOMAIN t = DOMAIN s /\ t = [i \in DOMAIN t |-> t[i]]
        /\ \A i \in DOMAIN t : DOMAIN t[i] = Fields
    BY <1>2
  <2>. HIDE DEF t
  <2>. QED
    BY <2>1, ChangedHeap
<1>4. LiveArrays(t) = LiveArrays(s)
  BY <1>2 DEF LiveArrays
<1>. QED
  BY <1>1, <1>3, <1>4

LEMMA IntegersAreNoArrays ==
    ASSUME NEW v
    PROVE  DOMAIN IntegerVal(v) = Fields /\ IntegerVal(v).ty \notin ArrayTypes
BY DEF IntegerVal, Fields, ArrayTypes

LEMMA ScopedArrays ==
    LiveArraysScoped <=>
        \A o \in LiveArrays(Values) :
            \E b \in DOMAIN ResourceHandleMap : o \in ResourceHandleMap[b] /\ b \in OnStack
BY DEF LiveArraysScoped, LiveArrays

LEMMA ArraysKept ==
    ASSUME StackInv, HeapInv, KeepsArrays
    PROVE  HeapShape(Values)' /\ ListsOfBlocks' /\ LiveArraysScoped'
<1>1. HeapShape(Values') /\ LiveArrays(Values') \subseteq LiveArrays(Values)
  <2>1. CASE UNCHANGED Values
    BY <2>1 DEF HeapInv
  <2>2. CASE AddsInt
    <3>1. PICK v : Values' = Append(Values, IntegerVal(v))
      BY <2>2 DEF AddsInt, createValue
    <3>. QED
      BY <3>1, AppendedHeap, IntegersAreNoArrays DEF HeapInv, LiveArrays
  <2>3. CASE SetsInt
    BY <2>3, SetHeap DEF SetsInt, HeapInv
  <2>. QED
    BY <2>1, <2>2, <2>3 DEF KeepsArrays
<1>2. ListsOfBlocks'
  BY DEF HeapInv, ListsOfBlocks, KeepsArrays, KeepsBlocks, Node
<1>3. LiveArraysScoped'
  <2>1. ASSUME NEW o \in DOMAIN Values', Values'[o].ty \in ArrayTypes, Values'[o].alive
        PROVE  \E b \in DOMAIN ResourceHandleMap' : o \in ResourceHandleMap'[b] /\ b \in OnStack'
    <3>1. o \in LiveArrays(Values)
      BY <1>1, <2>1 DEF LiveArrays
    <3>2. PICK b \in DOMAIN ResourceHandleMap : o \in ResourceHandleMap[b] /\ b \in OnStack
      BY <3>1, ScopedArrays DEF HeapInv
    <3>. QED
      BY <3>2 DEF HeapInv, ListsOfBlocks, KeepsArrays, KeepsBlocks
  <2>. QED
    BY <2>1 DEF LiveArraysScoped
<1>. QED
  BY <1>1, <1>2, <1>3

LEMMA ArrayMade ==
    ASSUME StackInv, HeapInv, MakesArray
    PROVE  HeapShape(Values)' /\ ListsOfBlocks' /\ LiveArraysScoped'
<1>1. PICK o : GiveArray(o) /\ DOMAIN o = Fields
  BY DEF MakesArray
<1>. DEFINE home == Scope(cur)[1]
<1>2. /\ Values' = Append(Values, o) /\ Returns
      /\ addResourceForFree(NewObj, home)
  BY <1>1 DEF GiveArray, createValue, Give, Returns, MakesArray
<1>3. prog' = prog /\ cur \in Node /\ OnStack' = OnStack \ {cur} /\ Node' = Node
  BY <1>2, ReturnStack
<1>4. home \in OnStack /\ home \in Node /\ home # cur /\ IsBlock(prog, home)
  <2>1. cur # 1
    BY Trees DEF MakesArray, StackInv, ProgOK, Kind
  <2>2. Scope(cur) \in Seq(Nat) /\ Scope(cur) # <<>> /\ Len(prog) \in Nat /\ Node = 1..Len(prog)
    BY <1>3, <2>1, Trees DEF StackInv, ProgOK, Scope, Node
  <2>3. 1 \in DOMAIN Scope(cur)
    BY <2>2
  <2>4. home \in 1..(cur - 1) /\ IsBlock(prog, home)
    BY <1>3, <2>3, Trees DEF StackInv, ProgOK, Scope, Node
  <2>5. home \in OnStack
    BY <2>3 DEF StackInv, ScopesOnStack, StackIsPath, MakesArray
  <2>. QED
    BY <1>3, <2>2, <2>4, <2>5
<1>5. /\ HeapShape(Values') /\ DOMAIN Values' = DOMAIN Values \cup {NewObj}
      /\ \A i \in DOMAIN Values : Values'[i] = Values[i]
  BY <1>1, <1>2, AppendedHeap DEF HeapInv, NewObj
<1>6. /\ DOMAIN ResourceHandleMap' = DOMAIN ResourceHandleMap \cup {home}
      /\ NewObj \in ResourceHandleMap'[home]
      /\ \A b \in DOMAIN ResourceHandleMap : ResourceHandleMap[b] \subseteq ResourceHandleMap'[b]
  BY <1>2 DEF addResourceForFree, Emplace
<1>7. ListsOfBlocks'
  BY <1>3, <1>4, <1>6 DEF HeapInv, ListsOfBlocks
<1>8. ASSUME NEW b \in DOMAIN ResourceHandleMap, b \in OnStack PROVE b \in OnStack'
  BY <1>3, <1>8 DEF HeapInv, ListsOfBlocks, MakesArray, IsBlock, BlockKinds, Kind
<1>9. ASSUME NEW a \in DOMAIN Values', Values'[a].ty \in ArrayTypes, Values'[a].alive
      PROVE  \E b \in DOMAIN ResourceHandleMap' : a \in ResourceHandleMap'[b] /\ b \in OnStack'
  <2>1. CASE a = NewObj
    BY <1>3, <1>4, <1>6, <2>1
  <2>2. CASE a \in DOMAIN Values
    <3>1. a \in LiveArrays(Values)
      BY <1>5, <1>9, <2>2 DEF LiveArrays
    <3>2. PICK b \in DOMAIN ResourceHandleMap : a \in ResourceHandleMap[b] /\ b \in OnStack
      BY <3>1, ScopedArrays DEF HeapInv
    <3>. QED
      BY <1>6, <1>8, <3>2
  <2>. QED
    BY <1>5, <2>1, <2>2
<1>10. LiveArraysScoped'
  BY <1>9 DEF LiveArraysScoped
<1>. QED
  BY <1>5, <1>7, <1>10

LEMMA BlockFreed ==
    ASSUME StackInv, HeapInv, FreesBlock
    PROVE  HeapShape(Values)' /\ ListsOfBlocks' /\ LiveArraysScoped'
<1>1. Returns /\ ResourceHandleMap' = ResourceHandleMap
  BY DEF FreesBlock, Returns
<1>2. prog' = prog /\ OnStack' = OnStack \ {cur} /\ Node' = Node
  BY <1>1, ReturnStack
<1>. DEFINE Freed(o) == cur \in DOMAIN ResourceHandleMap /\ o \in ResourceHandleMap[cur]
            F(o) == IF Freed(o) THEN Destroyed(Values[o]) ELSE Values[o]
<1>3. Values' = [o \in DOMAIN Values |-> F(o)]
  BY DEF FreesBlock, freeResources
<1>4. \A o \in DOMAIN Values : /\ DOMAIN F(o) = Fields
                               /\ Freed(o) => F(o).alive = FALSE
                               /\ ~Freed(o) => F(o) = Values[o]
  BY DEF HeapInv, HeapShape, Fields, Destroyed
<1>5. HeapShape(Values')
  <2>. HIDE DEF F
  <2>1. DOMAIN Values' = DOMAIN Values /\ Values' = [o \in DOMAIN Values' |-> Values'[o]]
        /\ \A o \in DOMAIN Values' : DOMAIN Values'[o] = Fields
    BY <1>3, <1>4
  <2>. QED
    BY <2>1, ChangedHeap DEF HeapInv
<1>6. ListsOfBlocks'
  BY <1>1, <1>2 DEF HeapInv, ListsOfBlocks
<1>7. ASSUME NEW a \in DOMAIN Values', Values'[a].ty \in ArrayTypes, Values'[a].alive
      PROVE  \E b \in DOMAIN ResourceHandleMap' : a \in ResourceHandleMap'[b] /\ b \in OnStack'
  <2>1. a \in DOMAIN Values /\ ~Freed(a) /\ Values'[a] = Values[a]
    BY <1>3, <1>4, <1>7
  <2>2. a \in LiveArrays(Values)
    BY <1>7, <2>1 DEF LiveArrays
  <2>3. PICK b \in DOMAIN ResourceHandleMap : a \in ResourceHandleMap[b] /\ b \in OnStack
    BY <2>2, ScopedArrays DEF HeapInv
  <2>. QED
    BY <1>1, <1>2, <2>1, <2>3
<1>8. LiveArraysScoped'
  BY <1>7 DEF LiveArraysScoped
<1>. QED
  BY <1>5, <1>6, <1>8

LEMMA HeapNext ==
    ASSUME StackInv, HeapInv, [Next]_vars
    PROVE  HeapInv'
<1>1. CASE Evaluate
  <2>1. phase' = "evaluate" /\ (KeepsArrays \/ MakesArray \/ FreesBlock)
    BY <1>1, InterpHeap DEF Evaluate
  <2>. QED
    BY <2>1, ArraysKept, ArrayMade, BlockFreed DEF HeapInv
<1>2. CASE Validate \/ StartEvaluation
  <2>1. Values' = <<>> /\ UNCHANGED ResourceHandleMap /\ prog' = prog
    <3>1. CASE Validate
      <4>1. Moves
        BY <3>1, CheckMoves DEF Validate
      <4>2. prog' = prog
        BY <4>1, AcceptStack, ReturnStack DEF Moves, AcceptsKid, Stays
      <4>. QED
        BY <3>1, <4>2 DEF Validate, interpVars, HeapInv
    <3>2. CASE StartEvaluation
      BY <3>2 DEF StartEvaluation, interpVars, HeapInv
    <3>. QED
      BY <1>2, <3>1, <3>2
  <2>2. HeapShape(Values')
    BY <2>1 DEF HeapShape
  <2>3. LiveArraysScoped'
    BY <2>1 DEF LiveArraysScoped
  <2>4. ListsOfBlocks'
    BY <2>1 DEF HeapInv, ListsOfBlocks, Node
  <2>. QED
    BY <2>1, <2>2, <2>3, <2>4 DEF HeapInv
<1>3. CASE Reject \/ Exit \/ Stopped \/ UNCHANGED vars
  <2>1. UNCHANGED <<prog, cur, done, Values, ResourceHandleMap, phase>>
    BY <1>3 DEF Reject, Exit, Stopped, Stop, vars, visitorVars, interpVars
  <2>2. LiveArraysScoped'
    BY <2>1 DEF HeapInv, LiveArraysScoped, OnStack, Node
  <2>. QED
    BY <2>1, <2>2 DEF HeapInv, ListsOfBlocks, Node
<1>. QED
  BY <1>1, <1>2, <1>3 DEF Next

LEMMA HeapAtStart ==
    ASSUME Init
    PROVE  HeapInv
BY DEF Init, InterpInit, HeapInv, HeapShape, ListsOfBlocks, LiveArraysScoped, EmptyTable

(***************************************************************************)
(* freeResources leaves no array behind: one that has not been destroyed   *)
(* is on the list of a block that is still being executed, and will be     *)
(* when that block is left.                                                *)
(***************************************************************************)
THEOREM NoArrayOutlivesItsBlock == Spec => []LiveArraysScoped
<1>1. Init => StackInv /\ HeapInv
  BY StackAtStart, HeapAtStart
<1>2. StackInv /\ HeapInv /\ [Next]_vars => (StackInv /\ HeapInv)'
  BY StackNext, HeapNext
<1>3. StackInv /\ HeapInv => LiveArraysScoped
  BY DEF HeapInv
<1>. QED
  BY <1>1, <1>2, <1>3, PTL DEF Spec

-----------------------------------------------------------------------------
(***************************************************************************)
(* A name in a running program stands for the declaration the checker      *)
(* found for it.  The interpreter defines a name where no block around     *)
(* does, in the order it executes the assignments; the checker declared it *)
(* in the order they are written.  The two agree where no definition can   *)
(* be skipped, is unchecked, or comes later in a loop around the use.      *)
(***************************************************************************)
\* The assignment on top defines its name, which no block around does yet.
Defines ==
    /\ Kind(cur) = "assign" /\ ~isDefined(NamesInfo, Name(cur), Scope(cur))
    /\ DOMAIN NamesInfo' = DOMAIN NamesInfo \cup {Key(cur)}

KeepsNames == NamesInfo' = NamesInfo

\* What a step of the interpreter does to the stack and to the names.
StepsIn ==
    /\ cur # 0 /\ done[cur] + 1 \in DOMAIN Kids(cur) /\ Accept(done[cur] + 1)
    /\ Kind(cur) = "assign" => done[cur] = 0
    /\ KeepsNames

Otherwise ==
    /\ cur # 0 /\ Kind(cur) = "if" /\ done[cur] = 1
    /\ 3 \in DOMAIN Kids(cur) /\ Accept(3)
    /\ KeepsNames

LoopsBack ==
    /\ cur # 0 /\ Kind(cur) = "while" /\ done[cur] = 2
    /\ 1 \in DOMAIN Kids(cur) /\ Accept(1)
    /\ KeepsNames

\* The kids of the node on top that its visit method can return without accepting.
Skippable(j) ==
    \/ Kind(cur) = "if" /\ j \in {2, 3}
    \/ Kind(cur) \in {"while", "assign"} /\ j = 2
    \/ Kind(cur) = "logic" /\ Op(cur) \in {"&&", "||"} /\ j = 2

ComesBack ==
    /\ cur # 0 /\ Returns
    /\ \A j \in DOMAIN Kids(cur) : done[cur] < j => Skippable(j)
    /\ IF Kind(cur) = "assign" /\ ~isDefined(NamesInfo, Name(cur), Scope(cur))
       THEN Defines ELSE KeepsNames

StaysThere == UNCHANGED <<prog, cur, done>> /\ KeepsNames

LEMMA InterpSteps ==
    ASSUME StackInv, InterpNext
    PROVE  StepsIn \/ Otherwise \/ LoopsBack \/ ComesBack \/ StaysThere
<1>1. cur # 0 /\ cur \in Node /\ DOMAIN Kids(cur) = 1..Len(Kids(cur)) /\ Len(Kids(cur)) \in Nat
      /\ done[cur] \in 0..Len(Kids(cur))
  <2>1. cur # 0
    BY DEF InterpNext, AcceptOperand, VisitNumber, VisitRead, VisitVariable, VisitUn, VisitCalc,
           VisitLogicLhs, VisitLogicRhs, VisitPrint, VisitAssignment, VisitArrayHolder,
           VisitPresetArray, VisitUniformArray, AccessArray, AccessRank,
           VisitArrayAccessAssignment, VisitIf, LeaveIf, VisitWhile, WhileAgain,
           VisitStatementBlock, Ready, At
  <2>. QED
    BY <2>1, KidsExist
<1>2. ASSUME NEW why, StopHere(why)
      PROVE  StaysThere
  BY <1>2 DEF StopHere, Stop, StaysThere, interpVars, KeepsNames
<1>3. CASE AcceptOperand
  <2>1. done[cur] + 1 \in DOMAIN Kids(cur) /\ Accept(done[cur] + 1) /\ KeepsNames
    BY <1>1, <1>3, OperandsExist DEF AcceptOperand, interpVars, KeepsNames
  <2>2. Kind(cur) = "assign" => done[cur] = 0
    BY <1>1, <1>3 DEF AcceptOperand, Operands
  <2>. QED
    BY <1>1, <2>1, <2>2 DEF StepsIn
\* A visit method that has accepted every kid skips none.
<1>4. ASSUME done[cur] = Len(Kids(cur)), NEW j \in DOMAIN Kids(cur), done[cur] < j PROVE FALSE
  BY <1>1, <1>4
<1>5. CASE VisitNumber \/ VisitPrint \/ VisitArrayHolder \/ VisitPresetArray
           \/ VisitStatementBlock
  <2>1. /\ Returns /\ KeepsNames /\ Kind(cur) # "assign" /\ done[cur] = Operands(cur)
        /\ Kind(cur) \notin {"access", "assign", "logic", "if", "while"}
    BY <1>1, <1>5
       DEF VisitNumber, VisitPrint, VisitArrayHolder, VisitPresetArray, VisitStatementBlock,
           GiveInt, GiveArray, Give, Returns, Ready, At, tableVars, KeepsNames
  <2>2. done[cur] = Len(Kids(cur))
    BY <2>1 DEF Operands
  <2>. QED
    BY <1>1, <1>4, <2>1, <2>2 DEF ComesBack
<1>6. CASE VisitRead \/ VisitVariable \/ VisitUn \/ VisitCalc \/ VisitArrayAccessAssignment
           \/ VisitUniformArray
  <2>1. /\ (Returns /\ KeepsNames) \/ (\E why : StopHere(why))
        /\ Kind(cur) \notin {"access", "assign", "logic", "if", "while"}
        /\ done[cur] = Operands(cur)
    BY <1>1, <1>6
       DEF VisitRead, VisitVariable, VisitUn, VisitCalc, VisitArrayAccessAssignment,
           VisitUniformArray, GiveInt, GiveArray, Give, Returns, Ready, At, tableVars, KeepsNames
  <2>2. done[cur] = Len(Kids(cur))
    BY <2>1 DEF Operands
  <2>. QED
    BY <1>1, <1>2, <1>4, <2>1, <2>2 DEF ComesBack
<1>7. CASE VisitLogicLhs
  <2>1. Kind(cur) = "logic" /\ done[cur] = 1 /\ DOMAIN Kids(cur) = 1..2
    BY <1>1, <1>7, KidsExist DEF VisitLogicLhs, At
  <2>2. \/ \E why : StopHere(why)
        \/ Accept(2) /\ KeepsNames
        \/ Returns /\ KeepsNames /\ Op(cur) \in {"&&", "||"}
    BY <1>1, <1>7 DEF VisitLogicLhs, ShortCircuits, GiveInt, Give, Returns, tableVars, interpVars, KeepsNames
  <2>3. Op(cur) \in {"&&", "||"} => \A j \in DOMAIN Kids(cur) : done[cur] < j => Skippable(j)
    BY <2>1 DEF Skippable
  <2>4. done[cur] + 1 = 2 /\ 2 \in DOMAIN Kids(cur)
    BY <2>1
  <2>5. Accept(2) /\ KeepsNames => StepsIn
    BY <1>1, <2>1, <2>4 DEF StepsIn
  <2>6. Returns /\ KeepsNames /\ Op(cur) \in {"&&", "||"} => ComesBack
    BY <1>1, <2>1, <2>3 DEF ComesBack
  <2>. QED
    BY <1>2, <2>2, <2>5, <2>6
<1>8. CASE VisitLogicRhs
  <2>1. Kind(cur) = "logic" /\ done[cur] = Len(Kids(cur))
    BY <1>1, <1>8, KidsExist DEF VisitLogicRhs, At
  <2>2. (Returns /\ KeepsNames) \/ \E why : StopHere(why)
    BY <1>1, <1>8 DEF VisitLogicRhs, GiveInt, Give, Returns, tableVars, KeepsNames
  <2>. QED
    BY <1>1, <1>2, <1>4, <2>1, <2>2 DEF ComesBack
<1>9. CASE VisitAssignment
  <2>1. Kind(cur) = "assign" /\ done[cur] = 1 /\ DOMAIN Kids(cur) = 1..2
    BY <1>1, <1>9, KidsExist DEF VisitAssignment, Ready, At, Operands
  <2>2. \A j \in DOMAIN Kids(cur) : done[cur] < j => Skippable(j)
    BY <2>1 DEF Skippable
  <2>3. CASE isDefined(NamesInfo, Name(cur), Scope(cur))
    <3>1. (Returns /\ KeepsNames) \/ \E why : StopHere(why)
      BY <1>1, <1>9, <2>3 DEF VisitAssignment, Assign, Give, Returns, tableVars, KeepsNames
    <3>. QED
      BY <1>1, <1>2, <2>2, <2>3, <3>1 DEF ComesBack
  <2>4. CASE ~isDefined(NamesInfo, Name(cur), Scope(cur))
    <3>1. Define(Key(cur))
      BY <1>9, <2>4 DEF VisitAssignment, Key, Home
    <3>2. Returns /\ DOMAIN NamesInfo' = DOMAIN NamesInfo \cup {Key(cur)}
      BY <1>1, <3>1 DEF Define, Give, Returns, tryDefine, Emplace
    <3>. QED
      BY <1>1, <2>1, <2>2, <2>4, <3>2 DEF ComesBack, Defines
  <2>. QED
    BY <2>3, <2>4
<1>10. CASE AccessArray
  <2>1. Kind(cur) = "access" /\ done[cur] = 0 /\ 1 \in DOMAIN Kids(cur)
    BY <1>1, <1>10, KidsExist DEF AccessArray, At
  <2>2. (Accept(1) /\ KeepsNames) \/ \E why : StopHere(why)
    BY <1>1, <1>10 DEF AccessArray, tableVars, KeepsNames
  <2>. QED
    BY <1>1, <1>2, <2>1, <2>2 DEF StepsIn
<1>11. CASE AccessRank
  <2>1. Kind(cur) = "access"
    BY <1>11 DEF AccessRank
  <2>2. \/ \E why : StopHere(why)
        \/ done[cur] < Len(Kids(cur)) /\ Accept(done[cur] + 1) /\ KeepsNames
        \/ ~(done[cur] < Len(Kids(cur))) /\ Returns /\ KeepsNames
    BY <1>1, <1>11 DEF AccessRank, Returns, tableVars, KeepsNames
  <2>. QED
    BY <1>1, <1>2, <2>1, <2>2 DEF StepsIn, ComesBack
<1>12. CASE VisitIf
  <2>1. Kind(cur) = "if" /\ done[cur] = 1 /\ DOMAIN Kids(cur) \in {1..2, 1..3}
        /\ (Len(Kids(cur)) = 3 => 3 \in DOMAIN Kids(cur))
    BY <1>1, <1>12, SecondKid DEF VisitIf, At
  <2>2. \/ \E why : StopHere(why)
        \/ KeepsNames /\ (Returns \/ Accept(2) \/ (Len(Kids(cur)) = 3 /\ Accept(3)))
    BY <1>1, <1>12 DEF VisitIf, Returns, interpVars, KeepsNames
  <2>3. \A j \in DOMAIN Kids(cur) : done[cur] < j => Skippable(j)
    BY <2>1 DEF Skippable
  <2>4. 2 \in DOMAIN Kids(cur)
    BY <2>1
  <2>. QED
    BY <1>1, <1>2, <2>1, <2>2, <2>3, <2>4 DEF StepsIn, Otherwise, ComesBack
<1>13. CASE LeaveIf
  <2>1. Kind(cur) = "if" /\ done[cur] \in {2, 3} /\ DOMAIN Kids(cur) \in {1..2, 1..3}
    BY <1>1, <1>13, SecondKid DEF LeaveIf, At
  <2>2. Returns /\ KeepsNames
    BY <1>1, <1>13 DEF LeaveIf, Returns, interpVars, KeepsNames
  <2>3. \A j \in DOMAIN Kids(cur) : done[cur] < j => Skippable(j)
    BY <2>1 DEF Skippable
  <2>. QED
    BY <1>1, <2>1, <2>2, <2>3 DEF ComesBack
<1>14. CASE VisitWhile \/ WhileAgain
  <2>1. Kind(cur) = "while" /\ DOMAIN Kids(cur) = 1..2
    BY <1>1, <1>14, KidsExist DEF VisitWhile, WhileAgain, At
  <2>2. \/ \E why : StopHere(why)
        \/ done[cur] = 1 /\ KeepsNames /\ (Returns \/ Accept(2))
        \/ done[cur] = 2 /\ KeepsNames /\ Accept(1)
    BY <1>1, <1>14 DEF VisitWhile, WhileAgain, At, Returns, interpVars, KeepsNames
  <2>3. \A j \in DOMAIN Kids(cur) : 1 < j => Skippable(j)
    BY <2>1 DEF Skippable
  <2>4. {1, 2} \subseteq DOMAIN Kids(cur)
    BY <2>1
  <2>5. ASSUME done[cur] = 1, Accept(2), KeepsNames PROVE StepsIn
    <3>1. done[cur] + 1 = 2
      BY <2>5
    <3>. QED
      BY <1>1, <2>1, <2>4, <2>5, <3>1 DEF StepsIn
  <2>6. done[cur] = 1 /\ Returns /\ KeepsNames => ComesBack
    BY <1>1, <2>1, <2>3 DEF ComesBack
  <2>7. done[cur] = 2 /\ KeepsNames /\ Accept(1) => LoopsBack
    BY <1>1, <2>1, <2>4 DEF LoopsBack
  <2>. QED
    BY <1>2, <2>2, <2>5, <2>6, <2>7
<1>. QED
  BY <1>3, <1>5, <1>6, <1>7, <1>8, <1>9, <1>10, <1>11, <1>12, <1>13, <1>14 DEF InterpNext

-----------------------------------------------------------------------------
(***************************************************************************)
(* The names the interpreter has defined.                                  *)
(***************************************************************************)

\* No rival is executed before m, even when a loop around both comes back.
Opens(m) == \A l \in Rivals(m) : m < l /\ ~SameLoop(l, m)

\* The assignment may have been executed: it was left, or a loop around it came back.
Reached(m) == Left(m) \/ \E w \in OnStack : Kind(w) = "while" /\ w \in Ancestors(prog, m)

\* The interpreter does not visit the name an assignment assigns to.
OneSideVisited == \A n \in OnStack : Kind(n) = "assign" => done[n] <= 1

\* A name was defined by an assignment that was executed when those before it that open
\* their own block had been skipped.
DefinedByFirst ==
    \A k \in DOMAIN NamesInfo :
        \E l \in Assigns :
            /\ k = Key(l) /\ Reached(l)
            /\ \A m \in Rivals(l) : m < l /\ Opens(m) => Conditional(prog, m)

\* An assignment that cannot be skipped has been executed when it has been passed.
PassedDefined ==
    \A m \in Assigns :
        Left(m) /\ ~Conditional(prog, m) /\ Home(m) \in OnStack =>
            /\ isDefined(NamesInfo, Name(m), Scope(m))
            /\ Opens(m) => Key(m) \in DOMAIN NamesInfo

NamesRun == OneSideVisited /\ DefinedByFirst /\ PassedDefined

\* What only the tree says.
LEMMA TreeKept ==
    ASSUME prog' = prog
    PROVE  /\ Node' = Node /\ Assigns' = Assigns
           /\ \A m : /\ Key(m)' = Key(m) /\ Rivals(m)' = Rivals(m) /\ (Opens(m)' <=> Opens(m))
                     /\ Kind(m)' = Kind(m) /\ Name(m)' = Name(m) /\ Scope(m)' = Scope(m)
                     /\ Home(m)' = Home(m) /\ (Conditional(prog, m)' <=> Conditional(prog, m))
                     /\ Ancestors(prog, m)' = Ancestors(prog, m)
<1>1. \A l, m : SameLoop(l, m)' <=> SameLoop(l, m)
  BY DEF SameLoop, Kind
<1>. QED
  BY <1>1 DEF Node, Assigns, Key, Rivals, Around, Home, Opens, Kind, Name, Scope

\* A kid of the node on top that is stepped over is the body of an if or a while, an else
\* or a right operand: what was not executed in it was not sure to be.
LEMMA SkippedConditional ==
    ASSUME StackInv, cur # 0, NEW j \in DOMAIN Kids(cur), Skippable(j),
           NEW m \in Assigns, Kid(cur, j) \in Ancestors(prog, m), Home(m) \in OnStack
    PROVE  Conditional(prog, m)
<1>. DEFINE q == Kid(cur, j)
<1>1. /\ Node = Nodes(prog) /\ prog \in Programs /\ Node \subseteq Nat /\ cur \in Node
      /\ m \in Node /\ m # 1 /\ Kind(m) = "assign"
      /\ q \in Node /\ q > cur /\ q # 1 /\ prog[q].parent = cur /\ \A n \in OnStack : n <= cur
  <2>1. m \in Node /\ Kind(m) = "assign" /\ cur \in Node
    BY KidsExist DEF Assigns
  <2>2. Node = Nodes(prog) /\ prog \in Programs /\ Node \subseteq Nat /\ m # 1
    BY <2>1, NoRoot, Trees DEF StackInv, ProgOK, Node
  <2>3. q \in Node /\ q > cur /\ q # 1 /\ prog[q].parent = cur
    BY <2>1, NodeShape DEF StackInv
  <2>. QED
    BY <2>1, <2>2, <2>3 DEF StackInv, StackIsPath
<1>2. Home(m) < q
  <2>1. Home(m) \in Nat /\ Home(m) <= cur
    BY <1>1, HomeInnermost DEF StackInv
  <2>. QED
    BY <1>1, <2>1
<1>3. Scope(m) = Scope(q) /\ ~IsBlock(prog, q)
  <2>1. Scope(m) = Scope(q) /\ (q = m \/ ~IsBlock(prog, q))
    BY <1>1, <1>2, SameBlocks DEF StackInv
  <2>2. ~IsBlock(prog, m)
    BY <1>1 DEF IsBlock, BlockKinds, Kind
  <2>. QED
    BY <2>1, <2>2
<1>4. CASE Kind(cur) = "assign" /\ j = 2
  <2>1. Kind(q) = "variable" /\ DOMAIN Kids(q) = {}
    <3>1. Kind(q) = "variable"
      BY <1>1, <1>4, NodeShape DEF StackInv
    <3>. QED
      BY <1>1, <3>1, NodeShape DEF StackInv
  <2>2. q # m
    BY <1>1, <2>1
  <2>3. \E i \in DOMAIN prog[q].kids : TRUE
    BY <1>1, <2>2, AncestorsPath
  <2>. QED
    BY <2>1, <2>3 DEF Kids
<1>5. CASE ~(Kind(cur) = "assign" /\ j = 2)
  <2>1. \/ IsKid(prog, q, "if", 2) \/ IsKid(prog, q, "if", 3) \/ IsKid(prog, q, "while", 2)
        \/ IsKid(prog, q, "logic", 2) /\ prog[prog[q].parent].op \in {"&&", "||"}
    BY <1>1, <1>5 DEF Skippable, IsKid, Kind, Kids, Kid, Op
  <2>. QED
    BY <1>3, <2>1 DEF Conditional, MaySkip, Scope
<1>. QED
  BY <1>4, <1>5

\* A step into a kid, whether or not others are stepped over.
LEMMA NamesAfterAnyAccept ==
    ASSUME StackInv, NamesRun, StepsIn \/ Otherwise \/ LoopsBack
    PROVE  NamesRun'
<1>1. PICK i \in DOMAIN Kids(cur) :
         /\ Accept(i) /\ cur # 0
         /\ i = done[cur] + 1 \/ (Kind(cur) = "if" /\ done[cur] = 1 /\ i = 3)
                              \/ (Kind(cur) = "while" /\ done[cur] = 2 /\ i = 1)
         /\ Kind(cur) = "assign" => done[cur] = 0
  BY DEF StepsIn, Otherwise, LoopsBack
<1>2. /\ prog' = prog /\ Node' = Node /\ cur \in Node /\ cur' \in Node /\ cur' > cur
      /\ OnStack' = OnStack \cup {cur'} /\ cur \in OnStack /\ OnStack \subseteq Node
      /\ ProgOK /\ Node \subseteq Nat /\ NamesInfo' = NamesInfo /\ done[cur] \in Nat /\ i \in Nat
      /\ Node = Nodes(prog) /\ prog \in Programs
  <2>1. NamesInfo' = NamesInfo /\ cur # 0
    BY <1>1 DEF StepsIn, Otherwise, LoopsBack, KeepsNames
  <2>2. i \in Nat /\ cur \in Node /\ done[cur] \in Nat
    BY <2>1, KidsExist, NodeShape DEF StackInv
  <2>. QED
    BY <1>1, <2>1, <2>2, AcceptStack, Trees DEF StackInv, StackIsPath, ProgOK, Node, OnStack
<1>3. \A m \in Node :
         /\ Left(m)' => \/ Left(m)
                        \/ \E j \in DOMAIN Kids(cur) :
                              done[cur] < j /\ j < i /\ Kid(cur, j) \in Ancestors(prog, m)
         /\ Left(m) => Left(m)' \/ (i <= done[cur] /\ cur \in Ancestors(prog, m))
         /\ cur' \in Ancestors(prog, m) => ~Left(m)'
  BY <1>1, LeftAfterAnyAccept
<1>4. OneSideVisited'
  <2>1. /\ done' = [done EXCEPT ![cur] = i, ![Kid(cur, i)] = 0] /\ cur' = Kid(cur, i)
        /\ done \in [Node -> Nat \cup {Idle}]
    BY <1>1 DEF Accept, StackInv, StackTypeOK
  <2>2. Kind(cur) = "assign" => i = 1
    BY <1>1
  <2>3. \A n \in OnStack' : n = cur' \/ n = cur \/ (n \in OnStack /\ done'[n] = done[n])
    BY <1>2, <2>1
  <2>4. done'[cur] = i /\ done'[cur'] = 0
    BY <1>2, <2>1
  <2>5. ASSUME NEW n \in OnStack', Kind(n) = "assign" PROVE done'[n] <= 1
    BY <2>2, <2>3, <2>4, <2>5 DEF NamesRun, OneSideVisited
  <2>. QED
    BY <1>2, <2>5 DEF OneSideVisited, Kind
<1>5. DefinedByFirst'
  <2>1. ASSUME NEW m \in Node, Reached(m) PROVE Reached(m)'
    <3>1. CASE \E w \in OnStack : Kind(w) = "while" /\ w \in Ancestors(prog, m)
      BY <1>2, <3>1 DEF Reached, Kind
    <3>2. CASE Left(m)
      <4>1. Left(m)' \/ (i <= done[cur] /\ cur \in Ancestors(prog, m))
        BY <1>3, <3>2
      <4>2. i <= done[cur] => Kind(cur) = "while"
        BY <1>1, <1>2
      <4>. QED
        BY <1>2, <4>1, <4>2 DEF Reached, Kind
    <3>. QED
      BY <2>1, <3>1, <3>2 DEF Reached
  <2>2. ASSUME NEW k \in DOMAIN NamesInfo
        PROVE  \E l \in Assigns : /\ k = Key(l) /\ Reached(l)'
                                  /\ \A m \in Rivals(l) : m < l /\ Opens(m) => Conditional(prog, m)
    <3>1. PICK l \in Assigns : /\ k = Key(l) /\ Reached(l)
                               /\ \A m \in Rivals(l) : m < l /\ Opens(m) => Conditional(prog, m)
      BY <2>2 DEF NamesRun, DefinedByFirst
    <3>. QED
      BY <2>1, <3>1 DEF Assigns
  <2>. QED
    BY <1>2, <2>2, TreeKept DEF DefinedByFirst
<1>6. PassedDefined'
  <2>1. ASSUME NEW m \in Assigns, Left(m)', ~Conditional(prog, m), Home(m) \in OnStack'
        PROVE  /\ isDefined(NamesInfo, Name(m), Scope(m))
               /\ Opens(m) => Key(m) \in DOMAIN NamesInfo
    <3>1. m \in Node /\ m # 1
      BY NoRoot DEF Assigns, StackInv
    <3>2. Home(m) \in OnStack
      <4>1. Home(m) \in Ancestors(prog, m)
        BY <1>2, <3>1, HomeInnermost, BlocksAround
      <4>. QED
        BY <1>2, <1>3, <2>1, <3>1, <4>1
    <3>3. Left(m)
      <4>1. SUFFICES ASSUME NEW j \in DOMAIN Kids(cur), done[cur] < j, j < i,
                            Kid(cur, j) \in Ancestors(prog, m)
                     PROVE  FALSE
        BY <1>3, <2>1, <3>1
      <4>2. j \in Nat
        BY <1>2, NodeShape
      <4>3. Kind(cur) = "if" /\ j = 2
        BY <1>1, <1>2, <4>1, <4>2
      <4>4. Skippable(j)
        BY <4>3 DEF Skippable
      <4>. QED
        BY <1>1, <2>1, <3>2, <4>1, <4>4, SkippedConditional
    <3>. QED
      BY <2>1, <3>2, <3>3 DEF NamesRun, PassedDefined
  <2>. QED
    BY <1>2, <2>1, TreeKept DEF PassedDefined
<1>. QED
  BY <1>4, <1>5, <1>6 DEF NamesRun

\* Where the name of the assignment on top is already defined, it is so at its own key when
\* no rival can have been executed before.
LEMMA OpenDefined ==
    ASSUME StackInv, DefinedByFirst, cur # 0, cur \in Assigns, Opens(cur),
           isDefined(NamesInfo, Name(cur), Scope(cur))
    PROVE  Key(cur) \in DOMAIN NamesInfo
<1>1. /\ cur \in Node /\ ProgOK /\ Node \subseteq Nat /\ OnStack = Ancestors(prog, cur)
  BY KidsExist, StackIsAncestors, Trees DEF StackInv, ProgOK, Node
<1>2. SUFFICES ASSUME NEW b \in Around(Home(cur)), SymTabKey(Name(cur), b) \in DOMAIN NamesInfo
               PROVE  FALSE
  BY <1>1, FindsRival
<1>3. PICK l \in Assigns : SymTabKey(Name(cur), b) = Key(l) /\ Reached(l)
  BY <1>2 DEF DefinedByFirst
<1>4. l \in Rivals(cur) /\ l \in Node
  BY <1>2, <1>3 DEF Rivals, Key, SymTabKey, Assigns
<1>5. cur < l /\ ~SameLoop(l, cur) /\ cur \notin Ancestors(prog, l)
  BY <1>1, <1>4, RivalsApart DEF Opens
<1>6. ~Left(l)
  <2>1. Left(l) => l < cur \/ cur \in Ancestors(prog, l)
    BY <1>4, LeftIsBefore
  <2>. QED
    BY <1>1, <1>4, <1>5, <2>1
<1>. QED
  BY <1>1, <1>3, <1>5, <1>6 DEF Reached, SameLoop

\* Where the assignment on top defines its name, no rival that opens its block was sure to
\* have been executed before.
LEMMA DefinerFirst ==
    ASSUME StackInv, PassedDefined, cur # 0, cur \in Assigns,
           ~isDefined(NamesInfo, Name(cur), Scope(cur)),
           NEW m \in Rivals(cur), m < cur, Opens(m)
    PROVE  Conditional(prog, m)
<1>1. /\ cur \in Node /\ ProgOK /\ OnStack = Ancestors(prog, cur) /\ cur # 1
  BY KidsExist, StackIsAncestors, NoRoot DEF StackInv, Assigns
<1>2. /\ m \in Assigns /\ m \in Node /\ m \notin OnStack /\ Name(m) = Name(cur)
      /\ Home(m) \in Around(cur)
  BY <1>1, RivalsApart DEF Rivals, Assigns
<1>3. Left(m)
  BY <1>2, LeftBefore
<1>4. Home(m) \in OnStack
  BY <1>1, <1>2, BlocksAround
<1>5. Key(m) \notin DOMAIN NamesInfo
  BY <1>1, <1>2, FindsAround DEF Key
<1>. QED
  BY <1>2, <1>3, <1>4, <1>5 DEF PassedDefined

LEMMA NamesAfterComingBack ==
    ASSUME StackInv, NamesRun, ComesBack
    PROVE  NamesRun'
<1>1. /\ prog' = prog /\ Node' = Node /\ cur # 0 /\ cur \in Node
      /\ OnStack' = OnStack \ {cur} /\ OnStack \subseteq Node /\ cur \in OnStack
      /\ Returns /\ ProgOK /\ Node \subseteq Nat
  <2>1. cur # 0 /\ Returns
    BY DEF ComesBack
  <2>. QED
    BY <2>1, ReturnStack, Trees DEF StackInv, StackIsPath, ProgOK, Node, OnStack
<1>2. DOMAIN NamesInfo \subseteq DOMAIN NamesInfo'
      /\ \A k \in DOMAIN NamesInfo' : k \in DOMAIN NamesInfo \/ (Defines /\ k = Key(cur))
  BY DEF ComesBack, Defines, KeepsNames
<1>3. \A m \in Node : (Left(m) => Left(m)') /\ (m = cur => Left(m)')
  BY <1>1, LeftAfterReturn
<1>4. OneSideVisited'
  <2>1. \A n \in OnStack' : done'[n] = done[n]
    BY <1>1 DEF Returns, Return, StackInv, StackTypeOK
  <2>. QED
    BY <1>1, <2>1 DEF NamesRun, OneSideVisited, Kind
<1>5. DefinedByFirst'
  <2>1. ASSUME NEW m \in Node, Reached(m) PROVE Reached(m)'
    <3>1. CASE Left(m)
      BY <1>3, <3>1 DEF Reached
    <3>2. CASE \E w \in OnStack : Kind(w) = "while" /\ w \in Ancestors(prog, m)
      <4>1. PICK w \in OnStack : Kind(w) = "while" /\ w \in Ancestors(prog, m)
        BY <3>2
      <4>2. CASE w = cur
        BY <1>1, <4>1, <4>2, SkippedByReturn DEF Reached
      <4>3. CASE w # cur
        BY <1>1, <4>1, <4>3 DEF Reached, Kind
      <4>. QED
        BY <4>2, <4>3
    <3>. QED
      BY <2>1, <3>1, <3>2 DEF Reached
  <2>2. ASSUME NEW k \in DOMAIN NamesInfo
        PROVE  \E l \in Assigns : /\ k = Key(l) /\ Reached(l)'
                                  /\ \A m \in Rivals(l) : m < l /\ Opens(m) => Conditional(prog, m)
    <3>1. PICK l \in Assigns : /\ k = Key(l) /\ Reached(l)
                               /\ \A m \in Rivals(l) : m < l /\ Opens(m) => Conditional(prog, m)
      BY <2>2 DEF NamesRun, DefinedByFirst
    <3>. QED
      BY <2>1, <3>1 DEF Assigns
  <2>3. ASSUME Defines
        PROVE  \E l \in Assigns : /\ Key(cur) = Key(l) /\ Reached(l)'
                                  /\ \A m \in Rivals(l) : m < l /\ Opens(m) => Conditional(prog, m)
    <3>. PICK c \in Node : c = cur
      BY <1>1
    <3>1. c \in Assigns /\ Reached(c)'
      BY <1>3, <2>3 DEF Defines, Assigns, Reached
    <3>2. \A m \in Rivals(c) : m < c /\ Opens(m) => Conditional(prog, m)
      BY <1>1, <2>3, <3>1, DefinerFirst DEF Defines, NamesRun
    <3>. QED
      BY <3>1, <3>2
  <2>4. \A k \in DOMAIN NamesInfo' :
           \E l \in Assigns : /\ k = Key(l) /\ Reached(l)'
                              /\ \A m \in Rivals(l) : m < l /\ Opens(m) => Conditional(prog, m)
    BY <1>2, <2>2, <2>3
  <2>. QED
    BY <1>1, <2>4, TreeKept DEF DefinedByFirst
<1>6. ASSUME cur \in Assigns
      PROVE  /\ isDefined(NamesInfo', Name(cur), Scope(cur))
             /\ Opens(cur) => Key(cur) \in DOMAIN NamesInfo'
  <2>1. CASE isDefined(NamesInfo, Name(cur), Scope(cur))
    <3>1. isDefined(NamesInfo', Name(cur), Scope(cur))
      BY <1>1, <1>2, <2>1, FoundInGreater
    <3>2. Opens(cur) => Key(cur) \in DOMAIN NamesInfo
      BY <1>1, <1>6, <2>1, OpenDefined DEF NamesRun
    <3>. QED
      BY <1>2, <3>1, <3>2
  <2>2. CASE ~isDefined(NamesInfo, Name(cur), Scope(cur))
    <3>1. Key(cur) \in DOMAIN NamesInfo'
      BY <1>6, <2>2 DEF ComesBack, Defines, Assigns
    <3>2. Home(cur) \in Around(cur)
      BY <1>1, <1>6, NoRoot, HomeInnermost DEF Assigns
    <3>. QED
      BY <1>1, <3>1, <3>2, FindsAround DEF Key
  <2>. QED
    BY <2>1, <2>2
<1>7. PassedDefined'
  <2>1. ASSUME NEW m \in Assigns, Left(m)', ~Conditional(prog, m), Home(m) \in OnStack'
        PROVE  /\ isDefined(NamesInfo', Name(m), Scope(m))
               /\ Opens(m) => Key(m) \in DOMAIN NamesInfo'
    <3>1. m \in Node /\ Home(m) \in OnStack
      BY <1>1, <2>1 DEF Assigns
    <3>2. Left(m) \/ m = cur
      <4>1. SUFFICES ASSUME NEW j \in DOMAIN Kids(cur), done[cur] < j,
                            Kid(cur, j) \in Ancestors(prog, m)
                     PROVE  FALSE
        BY <1>1, <2>1, <3>1, SkippedByReturn
      <4>2. Skippable(j)
        BY <4>1 DEF ComesBack
      <4>. QED
        BY <1>1, <2>1, <3>1, <4>1, <4>2, SkippedConditional
    <3>3. CASE Left(m)
      <4>1. /\ isDefined(NamesInfo, Name(m), Scope(m))
            /\ Opens(m) => Key(m) \in DOMAIN NamesInfo
        BY <2>1, <3>1, <3>3 DEF NamesRun, PassedDefined
      <4>2. isDefined(NamesInfo', Name(m), Scope(m))
        BY <1>1, <1>2, <3>1, <4>1, FoundInGreater
      <4>. QED
        BY <1>2, <4>1, <4>2
    <3>. QED
      BY <1>6, <3>2, <3>3
  <2>. QED
    BY <1>1, <2>1, TreeKept DEF PassedDefined
<1>. QED
  BY <1>4, <1>5, <1>7 DEF NamesRun

LEMMA NamesStay ==
    ASSUME NamesRun, UNCHANGED <<prog, cur, done, NamesInfo>>
    PROVE  NamesRun'
<1>1. /\ OnStack' = OnStack /\ \A m : Left(m)' <=> Left(m)
  BY DEF OnStack, Node, Left, Kids, Kid
<1>2. \A m : Reached(m)' <=> Reached(m)
  BY <1>1 DEF Reached, Kind
<1>3. OneSideVisited'
  BY <1>1 DEF NamesRun, OneSideVisited, Kind
<1>4. DefinedByFirst'
  BY <1>2, TreeKept DEF NamesRun, DefinedByFirst
<1>5. PassedDefined'
  BY <1>1, TreeKept DEF NamesRun, PassedDefined
<1>. QED
  BY <1>3, <1>4, <1>5 DEF NamesRun

LEMMA NamesRunNext ==
    ASSUME StackInv, NamesRun, InterpNext
    PROVE  NamesRun'
<1>1. CASE StaysThere
  BY <1>1, NamesStay DEF StaysThere, KeepsNames
<1>. QED
  BY <1>1, InterpSteps, NamesAfterAnyAccept, NamesAfterComingBack

LEMMA NamesRunAtStart ==
    ASSUME ProgOK, prog' = prog, NamesInfo' = EmptyTable, cur' = 1, done' = RootFrame(prog)
    PROVE  NamesRun'
<1>1. /\ Node' = Node /\ OnStack' = {1} /\ done'[1] = 0 /\ 1 \in Node /\ Kind(1) = "root"
  <2>1. /\ { n \in Node : RootFrame(prog)[n] # Idle } = {1} /\ 1 \in Node /\ Kind(1) = "root"
        /\ Node = Nodes(prog) /\ Node' = Node
    BY StackAtRoot, Trees DEF ProgOK, Node, Kind
  <2>. QED
    BY <2>1 DEF RootFrame, OnStack
<1>2. \A n : ~Left(n)'
  <2>1. ASSUME NEW i \in DOMAIN Kids(1) PROVE ~(i <= 0)
    BY <1>1, <2>1, NodeShape
  <2>. QED
    BY <1>1, <2>1 DEF Left, Kids
<1>3. DOMAIN NamesInfo' = {}
  BY DEF EmptyTable
<1>. QED
  BY <1>1, <1>2, <1>3 DEF NamesRun, OneSideVisited, DefinedByFirst, PassedDefined, Kind

-----------------------------------------------------------------------------
NamesInv ==
    /\ phase = "validate" => NamesChecked /\ NamesInfo = EmptyTable
    /\ phase = "evaluate" => NamesVerdict /\ NamesRun

LEMMA NamesNext ==
    ASSUME StackInv, PhaseInv, NamesInv, [Next]_vars
    PROVE  NamesInv'
<1>1. CASE Validate
  BY <1>1, NamesCheckedNext DEF Validate, PhaseInv, NamesInv, interpVars
<1>2. CASE StartEvaluation
  <2>1. /\ NamesVerdict /\ prog' = prog /\ Declared' = Declared /\ phase' = "evaluate"
        /\ NamesInfo' = EmptyTable /\ cur' = 1 /\ done' = RootFrame(prog)
    BY <1>2, NamesAtEnd DEF StartEvaluation, NamesInv, interpVars, checkVars
  <2>2. NamesVerdict'
    BY <2>1, NamesVerdictKept
  <2>3. NamesRun'
    BY <2>1, NamesRunAtStart DEF StackInv
  <2>. QED
    BY <2>1, <2>2, <2>3 DEF NamesInv
<1>3. CASE Evaluate
  <2>1. NamesVerdict /\ NamesRun /\ InterpNext /\ Declared' = Declared /\ phase' = "evaluate"
    BY <1>3 DEF Evaluate, NamesInv, checkVars
  <2>2. prog' = prog
    BY <2>1, InterpMoves, ProgKept
  <2>. QED
    BY <2>1, <2>2, NamesVerdictKept, NamesRunNext DEF NamesInv
<1>4. CASE Reject \/ Exit \/ Stopped \/ UNCHANGED vars
  <2>1. /\ UNCHANGED <<prog, cur, done, NamesInfo, Declared>> /\ UNCHANGED checkVars
        /\ phase' = phase
    BY <1>4 DEF Reject, Exit, Stopped, Stop, vars, visitorVars, checkVars, interpVars
  <2>. QED
    BY <2>1, NamesCheckedKept, NamesVerdictKept, NamesStay DEF NamesInv
<1>. QED
  BY <1>1, <1>2, <1>3, <1>4 DEF Next

LEMMA NamesAtInit ==
    ASSUME Init
    PROVE  NamesInv
BY NamesAtStart DEF Init, InterpInit, ProgOK, NamesInv

\* The interpreter does not visit the variable an assignment assigns to.
LEMMA NotLeftSide ==
    ASSUME StackInv, NamesRun, cur # 0, NEW l \in Assigns, l \in OnStack
    PROVE  cur # Kid(l, 2)
<1>1. /\ cur \in Node /\ ProgOK /\ Node = Nodes(prog) /\ prog \in Programs /\ Node \subseteq Nat
      /\ l \in Node /\ Kind(l) = "assign"
  BY KidsExist, Trees DEF StackInv, ProgOK, Node, Assigns
<1>2. SUFFICES ASSUME cur = Kid(l, 2) PROVE FALSE
  OBVIOUS
<1>3. DOMAIN Kids(l) = 1..2 /\ Kid(l, 2) > l
  BY <1>1, NodeShape
<1>4. done[l] = 1 /\ Kid(l, 1) \in Ancestors(prog, cur)
  <2>1. l # cur
    BY <1>1, <1>2, <1>3
  <2>2. done[l] \in DOMAIN Kids(l) /\ done[l] <= 1
    BY <1>1, <2>1, NextFrame DEF NamesRun, OneSideVisited
  <2>3. done[l] = 1
    BY <1>3, <2>2
  <2>. QED
    BY <2>1, <2>3, NextFrame
<1>5. Kid(l, 1) \in Node /\ Kid(l, 1) > l /\ prog[cur].parent = l /\ Kid(l, 1) # cur
  <2>1. Kid(l, 1) \in Node /\ Kid(l, 1) > l /\ prog[Kid(l, 2)].parent = l
    BY <1>1, <1>3, NodeShape
  <2>2. Kid(l, 1) # Kid(l, 2)
    BY <1>1, <1>3, KidsOfTree DEF Kid, Kids
  <2>. QED
    BY <1>2, <2>1, <2>2
<1>6. Kid(l, 1) \in Ancestors(prog, l)
  BY <1>1, <1>4, <1>5, AncestorsOf
<1>7. Kid(l, 1) <= l
  BY <1>1, <1>6, AncestorsPath
<1>. QED
  BY <1>1, <1>5, <1>7

\* A use the checker knows a definition of, executed before it, finds one at run time.
LEMMA UseDefined ==
    ASSUME StackInv, NamesRun, cur # 0, cur # 1,
           NEW l \in Definitions(prog, cur), l # cur, Before(l, cur), ~Conditional(prog, l)
    PROVE  isDefined(NamesInfo, Name(cur), Scope(cur))
<1>1. /\ cur \in Node /\ ProgOK /\ OnStack = Ancestors(prog, cur) /\ Node = Nodes(prog)
      /\ prog \in Programs /\ Node \subseteq Nat
  BY KidsExist, StackIsAncestors, Trees DEF StackInv, ProgOK, Node
<1>2. /\ l \in Assigns /\ l \in Node /\ Name(l) = Name(cur) /\ Home(l) \in Around(cur)
      /\ Kind(l) = "assign" /\ l # 1
  BY <1>1, DefinitionsOf, NoRoot DEF Assigns
<1>3. l \notin OnStack
  BY <1>1, <1>2, NotLeftSide DEF Before
<1>4. Left(l) /\ Home(l) \in OnStack
  BY <1>1, <1>2, <1>3, LeftBefore, BlocksAround DEF Before
<1>5. isDefined(NamesInfo, Name(cur), Scope(l))
  BY <1>2, <1>4 DEF NamesRun, PassedDefined
<1>6. Around(l) \subseteq Around(cur)
  BY <1>1, <1>2, HomeInnermost, OuterAround
<1>. QED
  BY <1>1, <1>2, <1>5, <1>6, FindsAround

\* No block but that of the first definition can hold the name of the node on top.
LEMMA OnlyFirst ==
    ASSUME StackInv, NamesRun, cur # 0, cur # 1, ~DriftProne(cur),
           NEW m \in Definitions(prog, cur), \A l \in Definitions(prog, cur) : m <= l,
           NEW b \in Around(cur), SymTabKey(Name(cur), b) \in DOMAIN NamesInfo
    PROVE  b = Home(m)
<1>1. /\ cur \in Node /\ ProgOK /\ OnStack = Ancestors(prog, cur) /\ Node \subseteq Nat
  BY KidsExist, StackIsAncestors, Trees DEF StackInv, ProgOK, Node
<1>2. /\ m \in Assigns /\ m \in Node /\ Name(m) = Name(cur) /\ Home(m) \in Around(cur)
      /\ ~Conditional(prog, m) /\ Rivals(m) \subseteq Definitions(prog, cur)
  BY <1>1, DefinitionsOf DEF Assigns, DriftProne
<1>3. PICK l \in Assigns :
         /\ SymTabKey(Name(cur), b) = Key(l) /\ Reached(l)
         /\ \A k \in Rivals(l) : k < l /\ Opens(k) => Conditional(prog, k)
  BY DEF NamesRun, DefinedByFirst
<1>4. l \in Node /\ Name(l) = Name(cur) /\ Home(l) = b /\ l \in Definitions(prog, cur) /\ m <= l
  <2>1. l \in Node /\ Name(l) = Name(cur) /\ Home(l) = b
    BY <1>3 DEF Key, SymTabKey, Assigns
  <2>2. l \in Definitions(prog, cur)
    BY <1>1, <1>3, <2>1, DefinitionsOf
  <2>. QED
    BY <2>1, <2>2
<1>5. b \in Node /\ Home(m) \in Node
  BY <1>1, <1>2, OuterAround
<1>6. ASSUME NEW r \in Definitions(prog, cur), Home(r) < Home(m)
      PROVE  cur < r /\ cur \notin Ancestors(prog, r) /\ ~SameLoop(r, m) /\ ~SameLoop(r, cur)
  <2>1. /\ cur < r /\ cur \notin Ancestors(prog, r)
        /\ Ancestors(prog, r) \cap Ancestors(prog, m) \subseteq Ancestors(prog, cur)
    BY <1>1, <1>2, <1>6, OuterComesLater
  <2>2. r \in Node
    BY <1>1, DefinitionsOf DEF Assigns
  <2>3. ~SameLoop(r, cur)
    BY <1>1, <2>1, <2>2 DEF DriftProne
  <2>. QED
    BY <2>1, <2>3 DEF SameLoop
<1>7. ~(b < Home(m))
  <2>1. SUFFICES ASSUME b < Home(m) PROVE FALSE
    OBVIOUS
  <2>2. cur < l /\ cur \notin Ancestors(prog, l) /\ ~SameLoop(l, cur)
    BY <1>4, <1>6, <2>1
  <2>3. ~Left(l)
    <3>1. Left(l) => l < cur \/ cur \in Ancestors(prog, l)
      BY <1>4, LeftIsBefore
    <3>. QED
      BY <1>1, <1>4, <2>2, <3>1
  <2>. QED
    BY <1>1, <1>3, <2>2, <2>3 DEF Reached, SameLoop
<1>8. ~(Home(m) < b)
  <2>1. SUFFICES ASSUME Home(m) < b PROVE FALSE
    OBVIOUS
  <2>2. m \in Rivals(l)
    BY <1>1, <1>2, <1>4, <2>1, OuterAround DEF Rivals
  <2>3. m < l
    <3>1. m # l
      BY <1>1, <1>3, <2>2, RivalsApart
    <3>. QED
      BY <1>1, <1>2, <1>4, <3>1
  <2>4. ASSUME NEW r \in Rivals(m) PROVE m < r /\ ~SameLoop(r, m)
    <3>1. r \in Node /\ r # m /\ Home(r) < Home(m) /\ r \in Definitions(prog, cur)
      BY <1>1, <1>2, RivalsApart DEF Assigns
    <3>2. m <= r
      BY <3>1
    <3>. QED
      BY <1>1, <1>2, <1>6, <3>1, <3>2
  <2>5. Opens(m)
    BY <2>4 DEF Opens
  <2>. QED
    BY <1>2, <1>3, <2>2, <2>3, <2>5
<1>9. b \in Nat /\ Home(m) \in Nat
  BY <1>1, <1>5
<1>. QED
  BY <1>7, <1>8, <1>9

LEMMA NamesResolved ==
    ASSUME StackInv, PhaseInv, NamesInv
    PROVE  NamesResolveStatically
<1>1. SUFFICES ASSUME NamingPoint, ~DriftProne(cur)
               PROVE  BlockFor(NamesInfo, cur) = BlockFor(Declared, cur)
  BY DEF NamesResolveStatically
<1>2. /\ cur # 0 /\ cur \in Node /\ ProgOK /\ OnStack = Ancestors(prog, cur) /\ Node \subseteq Nat
      /\ Kind(cur) \in {"variable", "access", "assign"} /\ cur # 1
      /\ NamesVerdict /\ NamesRun
  <2>1. cur # 0 /\ Kind(cur) \in {"variable", "access", "assign"}
    BY <1>1 DEF NamingPoint, At
  <2>2. cur \in Node /\ ProgOK /\ OnStack = Ancestors(prog, cur)
    BY <2>1, KidsExist, StackIsAncestors DEF StackInv
  <2>3. cur # 1 /\ Node \subseteq Nat
    BY <2>1, <2>2, NoRoot, Trees DEF ProgOK, Node
  <2>. QED
    BY <1>1, <2>1, <2>2, <2>3 DEF NamingPoint, Evaluating, NamesInv
<1>. DEFINE D == Definitions(prog, cur)
<1>3. /\ \A l \in D : /\ l \in Assigns /\ l \in Node /\ ~Conditional(prog, l)
                      /\ l \in CheckedAssigns /\ Name(l) = Name(cur) /\ Home(l) \in Around(cur)
      /\ ~UnderElse(prog, cur)
      /\ Kind(cur) = "assign" => cur \in D /\ Rivals(cur) \subseteq D
  BY <1>1, <1>2, DefinitionsOf DEF DriftProne, CheckedAssigns, Assigns
<1>4. Kind(cur) # "assign" => \E l \in CheckedAssigns \cap D : Before(l, cur)
  BY <1>2, <1>3 DEF NamesVerdict
<1>5. PICK m \in D : \A l \in D : m <= l
  <2>1. D \in SUBSET Node /\ D # {}
    BY <1>3, <1>4
  <2>. HIDE DEF D
  <2>. QED
    BY <1>2, <2>1, FirstDefinition
<1>. DEFINE b == Home(m)
<1>6. /\ m \in Assigns /\ m \in Node /\ m \in CheckedAssigns \cap D /\ b \in Around(cur)
      /\ b \in Nat /\ b # 0 /\ Name(m) = Name(cur)
  <2>1. m \in Assigns /\ m \in Node /\ m \in CheckedAssigns /\ b \in Around(cur) /\ Name(m) = Name(cur)
    BY <1>3
  <2>2. b \in Nat /\ b # 0
    BY <1>2, <2>1, OuterAround, Trees DEF ProgOK, Node
  <2>. QED
    BY <2>1, <2>2
<1>7. BlockFor(Declared, cur) = b
  <2>1. getDeclScopeFor(Declared, Name(cur), Scope(cur)) = b
    BY <1>2, <1>5, <1>6, StaticLookup
  <2>. QED
    BY <1>6, <2>1 DEF BlockFor
<1>8. \A c \in Around(cur) : SymTabKey(Name(cur), c) \in DOMAIN NamesInfo => c = b
  BY <1>1, <1>2, <1>5, OnlyFirst
<1>9. CASE isDefined(NamesInfo, Name(cur), Scope(cur))
  <2>1. PICK c \in Around(cur) : SymTabKey(Name(cur), c) \in DOMAIN NamesInfo
    BY <1>2, <1>9, FindsAround
  <2>2. SymTabKey(Name(cur), b) \in DOMAIN NamesInfo
        /\ \A d \in Around(cur) : SymTabKey(Name(cur), d) \in DOMAIN NamesInfo => d <= b
    <3>1. c = b
      BY <1>8, <2>1
    <3>. HIDE DEF b
    <3>. QED
      BY <1>6, <1>8, <2>1, <3>1
  <2>3. getDeclScopeFor(NamesInfo, Name(cur), Scope(cur)) = b
    BY <1>2, <1>6, <2>2, FindsAround
  <2>. QED
    BY <1>6, <1>7, <2>3 DEF BlockFor
<1>10. CASE ~isDefined(NamesInfo, Name(cur), Scope(cur))
  <2>1. ASSUME NEW l \in D, l # cur, Before(l, cur) PROVE FALSE
    BY <1>2, <1>3, <1>10, <2>1, UseDefined
  <2>2. Kind(cur) = "assign"
    <3>1. SUFFICES ASSUME Kind(cur) # "assign" PROVE FALSE
      OBVIOUS
    <3>2. PICK l \in CheckedAssigns \cap D : Before(l, cur)
      BY <1>4, <3>1
    <3>. QED
      BY <2>1, <3>1, <3>2 DEF CheckedAssigns, Assigns
  <2>3. Home(cur) = b
    <3>1. SUFFICES ASSUME Home(cur) # b PROVE FALSE
      OBVIOUS
    <3>2. cur \in Assigns /\ m # cur /\ m <= cur
      <4>1. cur \in Assigns
        BY <1>2, <2>2 DEF Assigns
      <4>2. cur \in D
        BY <1>3, <2>2
      <4>3. m <= cur
        BY <1>5, <4>2
      <4>. QED
        BY <3>1, <4>1, <4>3
    <3>3. m \in Rivals(cur)
      BY <1>2, <1>6, <3>1, HomeInnermost DEF Rivals
    <3>4. m \notin Ancestors(prog, cur)
      BY <1>2, <3>2, <3>3, RivalsApart
    <3>5. Before(m, cur)
      BY <1>2, <1>6, <3>2, <3>4 DEF Before
    <3>. QED
      BY <2>1, <3>2, <3>5
  <2>. QED
    BY <1>7, <1>10, <2>2, <2>3 DEF BlockFor, isDefined, Home
<1>. QED
  BY <1>9, <1>10

(***************************************************************************)
(* Whatever the interpreter has executed before, whichever branches it     *)
(* took and however often its loops came back, a name that cannot drift    *)
(* stands for the block the checker declared it in.                        *)
(***************************************************************************)
THEOREM NamesKeepTheirMeaning == Spec => []NamesResolveStatically
<1>1. Init => StackInv /\ PhaseInv /\ NamesInv
  BY StackAtStart, PhaseAtStart, NamesAtInit
<1>2. StackInv /\ PhaseInv /\ NamesInv /\ [Next]_vars => (StackInv /\ PhaseInv /\ NamesInv)'
  BY StackNext, PhaseNext, NamesNext
<1>. QED
  BY <1>1, <1>2, NamesResolved, PTL DEF Spec
=============================================================================

--------------------------- MODULE ParaclSoundness ---------------------------
(***************************************************************************)
(* The checker and the interpreter agree on types: what the interpreter    *)
(* holds is what the checker took it for, so that an accepted program      *)
(* mistakes no array for an int, reads no destroyed array and indexes no   *)
(* array where the checker could have known better.                        *)
(***************************************************************************)
EXTENDS ParaclTypes

(***************************************************************************)
(* What the checker has concluded, while the interpreter runs.             *)
(***************************************************************************)
ResultsChecked == \A n \in Node : res[n] # NoResult => ~UnderElse(prog, n)

TypesInv ==
    /\ ResultsChecked
    /\ phase = "validate" => (Errors = <<>> => TypesConform)
    /\ phase = "evaluate" => TypesVerdict

LEMMA ResultsKept ==
    ASSUME ResultsChecked, prog' = prog, UNCHANGED checkVars
    PROVE  ResultsChecked'
BY DEF ResultsChecked, checkVars, Node

LEMMA ResultsNext ==
    ASSUME StackInv, CheckInv, CheckNext, ResultsChecked
    PROVE  ResultsChecked'
<1>1. /\ prog' = prog /\ Node' = Node
      /\ cur # 0 => ~UnderElse(prog, cur)
      /\ \A n \in Node : n # cur => res'[n] = res[n]
      /\ StackInv
  BY CheckFrame
<1>2. SUFFICES ASSUME NEW n \in Node, res'[n] # NoResult PROVE ~UnderElse(prog, n)
  BY <1>1 DEF ResultsChecked
<1>3. CASE n = cur
  <2>1. cur # 0
    BY <1>3, Trees DEF ProgOK, StackInv, Node
  <2>. QED
    BY <1>1, <1>3, <2>1
<1>. QED
  BY <1>1, <1>2, <1>3 DEF ResultsChecked

LEMMA TypesInvNext ==
    ASSUME StackInv, PhaseInv, TypesInv, [Next]_vars
    PROVE  TypesInv'
<1>1. CASE Validate
  <2>1. CheckInv /\ CheckNext /\ phase = "validate" /\ phase' = "validate"
    BY <1>1 DEF Validate, PhaseInv
  <2>2. Errors' = <<>> => Errors = <<>>
    BY <2>1, CheckFrame
  <2>3. Errors' = <<>> => TypesConform'
    BY <2>1, <2>2, TypesConformNext DEF TypesInv
  <2>. QED
    BY <2>1, <2>3, ResultsNext DEF TypesInv
<1>2. CASE StartEvaluation
  <2>1. /\ CheckInv /\ TypesConform /\ cur = 0 /\ prog' = prog /\ UNCHANGED checkVars
        /\ phase' = "evaluate"
    BY <1>2 DEF StartEvaluation, PhaseInv, TypesInv
  <2>2. TypesVerdict
    BY <2>1, TypesAtEnd DEF StackInv
  <2>. QED
    BY <2>1, <2>2, TypesVerdictKept, ResultsKept DEF TypesInv
<1>3. CASE Evaluate
  <2>1. TypesVerdict /\ UNCHANGED checkVars /\ phase' = "evaluate"
    BY <1>3 DEF Evaluate, TypesInv
  <2>2. prog' = prog
    BY <1>3, InterpMoves, ProgKept DEF Evaluate
  <2>. QED
    BY <2>1, <2>2, TypesVerdictKept, ResultsKept DEF TypesInv
<1>4. CASE Reject \/ Exit \/ Stopped \/ UNCHANGED vars
  <2>1. UNCHANGED <<prog, cur, done>> /\ UNCHANGED checkVars /\ phase' = phase
    BY <1>4 DEF Reject, Exit, Stopped, Stop, vars, visitorVars, checkVars
  <2>2. Errors' = <<>> /\ phase = "validate" => TypesConform'
    BY <2>1, TypesConformKept DEF TypesInv, checkVars
  <2>3. phase = "evaluate" => TypesVerdict'
    BY <2>1, TypesVerdictKept DEF TypesInv
  <2>. QED
    BY <2>1, <2>2, <2>3, ResultsKept DEF TypesInv
<1>. QED
  BY <1>1, <1>2, <1>3, <1>4 DEF Next

LEMMA TypesInvAtStart ==
    ASSUME Init
    PROVE  TypesInv
<1>1. ProgOK /\ cur = 1 /\ done = RootFrame(prog) /\ CheckInit /\ phase = "validate"
  BY DEF Init, ProgOK
<1>2. TypesConform
  BY <1>1, TypesConformAtStart
<1>3. ResultsChecked
  BY <1>1 DEF ResultsChecked, CheckInit
<1>. QED
  BY <1>1, <1>2, <1>3 DEF TypesInv

-----------------------------------------------------------------------------
(***************************************************************************)
(* What a step of the interpreter does, by what its visit method returns.  *)
(***************************************************************************)
NameDefined == isDefined(NamesInfo, Name(cur), Scope(cur))
NamedKey    == getDeclKeyFor(NamesInfo, Name(cur), Scope(cur))

ReturnsInt ==
    /\ cur # 0 /\ Kind(cur) \in {"number", "read", "un", "calc", "logic"}
    /\ \E v \in Int32 : GiveInt(v)
    /\ KeepsTables /\ KeepsLists

ReturnsOperand ==
    /\ cur # 0 /\ Kind(cur) \in {"un", "print", "holder"} /\ done[cur] = 1
    /\ Kind(cur) = "un" => IsIntArg(1)
    /\ Give(Arg(1)) /\ UNCHANGED Values
    /\ KeepsTables /\ KeepsLists

BindsInt ==
    /\ cur # 0 /\ Kind(cur) = "assign" /\ done[cur] = 1 /\ ~NameDefined /\ IsIntArg(1)
    /\ \E v \in Int32 : GiveInt(v)
    /\ NameToValue' = Emplace(NameToValue, Key(cur), IntRef(NewObj))
    /\ KeepsLists

BindsArray ==
    /\ cur # 0 /\ Kind(cur) = "assign" /\ done[cur] = 1 /\ ~NameDefined /\ ~IsIntArg(1)
    /\ Give(Arg(1)) /\ UNCHANGED Values
    /\ NameToValue' = Emplace(NameToValue, Key(cur), Arg(1))
    /\ KeepsLists

\* The operand that is returned is the one that was written.
WritesInt ==
    /\ cur # 0
    /\ \/ Kind(cur) = "assign" /\ done[cur] = 1 /\ NameDefined /\ IsIntArg(1) /\ Give(Arg(1))
       \/ Kind(cur) = "accessAssign" /\ done[cur] = 2 /\ IsIntArg(2) /\ Give(Arg(2))
    /\ \E r : \E v \in Int32 : Good(Values, r) /\ Values' = setValue(Values, r, v)
    /\ KeepsTables /\ KeepsLists

RecallsName ==
    /\ cur # 0 /\ Kind(cur) = "variable" /\ done[cur] = 0 /\ NameDefined
    /\ Give(NameToValue[NamedKey]) /\ UNCHANGED Values
    /\ KeepsTables /\ KeepsLists

MakesPreset ==
    /\ cur # 0 /\ Kind(cur) = "preset" /\ done[cur] = Len(Kids(cur))
    /\ \A i \in DOMAIN Kids(cur) : Rank1(Values, Arg(i))
    /\ GiveArray(PresetArrayVal(Values, [i \in DOMAIN Kids(cur) |-> Arg(i)]))
    /\ KeepsTables

MakesUniform ==
    /\ cur # 0 /\ Kind(cur) = "uniform" /\ done[cur] = 2
    /\ IsIntArg(2) /\ IntArg(2) >= 0 /\ ~ConstructDangles(Values, Arg(1), IntArg(2))
    /\ GiveArray(UniformArrayVal(Values, Arg(1), IntArg(2)))
    /\ KeepsTables

LooksUp ==
    /\ cur # 0 /\ Kind(cur) = "access" /\ done[cur] = 0 /\ NameDefined
    /\ ret' = [ret EXCEPT ![cur] = NameToValue[NamedKey]]
    /\ 1 \in DOMAIN Kids(cur) /\ Accept(1) /\ UNCHANGED Values
    /\ KeepsTables /\ KeepsLists

Indexes ==
    /\ cur # 0 /\ Kind(cur) = "access" /\ done[cur] > 0
    /\ \/ done[cur] + 1 \in DOMAIN Kids(cur) /\ Accept(done[cur] + 1)
       \/ done[cur] = Len(Kids(cur)) /\ Return /\ ret'[cur].cell # 0
    /\ \E c \in Nat : ret' = [ret EXCEPT ![cur] = [obj |-> ret[cur].obj, cell |-> c]]
    /\ UNCHANGED Values /\ KeepsTables /\ KeepsLists

Walks ==
    /\ cur # 0
    /\ \/ Kind(cur) # "access" /\ done[cur] + 1 \in DOMAIN Kids(cur) /\ Accept(done[cur] + 1)
       \/ /\ Kind(cur) \in {"if", "while"}
          /\ Return \/ \E i \in DOMAIN Kids(cur) : Accept(i)
    /\ UNCHANGED <<ret, NamesInfo, NameToValue, Values, ResourceHandleMap>>

FreesOwn ==
    /\ cur # 0 /\ Kind(cur) \in BlockKinds /\ Return /\ freeResources(cur)
    /\ UNCHANGED <<ret, NamesInfo, NameToValue, ResourceHandleMap>>

Stands == UNCHANGED <<prog, cur, done, ret, NamesInfo, NameToValue, Values, ResourceHandleMap>>

LEMMA InterpClasses ==
    ASSUME StackInv, EvalInv, InterpNext
    PROVE  \/ ReturnsInt \/ ReturnsOperand \/ BindsInt \/ BindsArray \/ WritesInt \/ RecallsName
           \/ MakesPreset \/ MakesUniform \/ LooksUp \/ Indexes \/ Walks \/ FreesOwn \/ Stands
<1>. DEFINE Shown ==
        \/ ReturnsInt \/ ReturnsOperand \/ BindsInt \/ BindsArray \/ WritesInt \/ RecallsName
        \/ MakesPreset \/ MakesUniform \/ LooksUp \/ Indexes \/ Walks \/ FreesOwn \/ Stands
<1>. SUFFICES Shown
  OBVIOUS
<1>1. ASSUME NEW why, StopHere(why)
      PROVE  Stands
  BY <1>1 DEF StopHere, Stop, Stands, interpVars
<1>2. cur # 0 =>
         /\ cur \in Node /\ DOMAIN Kids(cur) = 1..Len(Kids(cur)) /\ done[cur] \in Nat /\ Len(Kids(cur)) \in Nat
         /\ done[cur] \in 0..Len(Kids(cur))
  BY KidsExist, NodeShape DEF StackInv
<1>3. ASSUME cur # 0, Kind(cur) \in ExpressionKinds, NEW i \in 1..Len(Kids(cur)), i <= done[cur]
      PROVE  Good(Values, Arg(i)) /\ (IsIntArg(i) => IntArg(i) \in Int32)
  BY <1>3, Operand
<1>4. CASE AcceptOperand
  <2>1. cur # 0 /\ Accept(done[cur] + 1) /\ UNCHANGED interpVars /\ done[cur] < Operands(cur)
    BY <1>4 DEF AcceptOperand
  <2>2. done[cur] + 1 \in DOMAIN Kids(cur)
    BY <2>1, OperandsExist
  <2>3. Kind(cur) # "access"
    BY <1>2, <2>1 DEF Operands
  <2>. QED
    BY <2>1, <2>2, <2>3 DEF Walks, interpVars
<1>5. CASE VisitNumber
  <2>1. cur # 0 /\ Kind(cur) = "number" /\ GiveInt(prog[cur].val) /\ KeepsTables /\ KeepsLists
    BY <1>5 DEF VisitNumber, Ready, At, KeepsTables, KeepsLists
  <2>2. prog[cur].val \in Int32
    BY <1>2, <2>1, NodeShape DEF StackInv
  <2>. QED
    BY <2>1, <2>2 DEF ReturnsInt
<1>6. CASE VisitRead
  <2>1. CASE StopHere("badInput")
    BY <1>1, <2>1
  <2>2. CASE ~StopHere("badInput")
    <3>1. cur # 0 /\ Kind(cur) = "read" /\ (\E v \in InputValues : GiveInt(v)) /\ KeepsTables /\ KeepsLists
      BY <1>6, <2>2 DEF VisitRead, Ready, At, KeepsTables, KeepsLists, tableVars
    <3>. QED
      BY <3>1, InputAssumption DEF ReturnsInt
  <2>. QED
    BY <2>1, <2>2
<1>7. CASE VisitVariable
  <2>1. /\ cur # 0 /\ Kind(cur) = "variable" /\ done[cur] = Operands(cur)
    BY <1>7 DEF VisitVariable, Ready, At
  <2>2. done[cur] = 0
    BY <1>2, <2>1, NodeShape DEF StackInv, Operands
  <2>3. CASE ~NameDefined
    BY <1>1, <1>7, <2>3 DEF VisitVariable, NameDefined
  <2>4. CASE NameDefined
    BY <1>7, <2>1, <2>2, <2>4 DEF VisitVariable, NameDefined, NamedKey, RecallsName, KeepsTables, KeepsLists
  <2>. QED
    BY <2>3, <2>4
<1>8. CASE VisitUn
  <2>1. cur # 0 /\ Kind(cur) = "un" /\ done[cur] = 1 /\ Len(Kids(cur)) = 1 /\ Kind(cur) \in ExpressionKinds
    <3>1. cur # 0 /\ Kind(cur) = "un" /\ done[cur] = Operands(cur)
      BY <1>8 DEF VisitUn, Ready, At
    <3>. QED
      BY <1>2, <3>1, ValueKinds, NodeShape DEF StackInv, Operands
  <2>2. CASE ~IsIntArg(1)
    BY <1>1, <1>8, <2>2 DEF VisitUn
  <2>3. CASE IsIntArg(1)
    <3>1. /\ KeepsTables /\ KeepsLists
          /\ IF Op(cur) = "+" THEN Give(Arg(1)) /\ UNCHANGED Values
                              ELSE GiveInt(UnaryValue(Op(cur), IntArg(1)))
      BY <1>8, <2>3 DEF VisitUn, KeepsTables, KeepsLists
    <3>2. IntArg(1) \in Int32 /\ Op(cur) \in {"+", "-", "!"}
      <4>1. Op(cur) \in {"+", "-", "!"}
        BY <1>2, <2>1, NodeShape DEF StackInv
      <4>. QED
        BY <1>3, <2>1, <2>3, <4>1
    <3>3. UnaryValue(Op(cur), IntArg(1)) \in Int32
      BY <3>2, UnaryIsInt
    <3>. QED
      BY <2>1, <2>3, <3>1, <3>3 DEF ReturnsInt, ReturnsOperand
  <2>. QED
    BY <2>2, <2>3
<1>9. CASE VisitCalc
  <2>1. cur # 0 /\ Kind(cur) = "calc" /\ done[cur] = 2 /\ Len(Kids(cur)) = 2 /\ Kind(cur) \in ExpressionKinds
    <3>1. cur # 0 /\ Kind(cur) = "calc" /\ done[cur] = Operands(cur)
      BY <1>9 DEF VisitCalc, Ready, At
    <3>. QED
      BY <1>2, <3>1, ValueKinds, NodeShape DEF StackInv, Operands
  <2>2. CASE IsIntArg(1) /\ IsIntArg(2) /\ ArithFault(Op(cur), IntArg(1), IntArg(2)) = "none"
    <3>1. IntArg(1) \in Int32 /\ IntArg(2) \in Int32 /\ Op(cur) \in {"+", "-", "*", "/", "%"}
      BY <1>2, <1>3, <2>1, <2>2, NodeShape DEF StackInv
    <3>2. ArithValue(Op(cur), IntArg(1), IntArg(2)) \in Int32
      BY <2>2, <3>1, ArithIsInt
    <3>3. GiveInt(ArithValue(Op(cur), IntArg(1), IntArg(2))) /\ KeepsTables /\ KeepsLists
      BY <1>9, <2>2 DEF VisitCalc, KeepsTables, KeepsLists
    <3>. QED
      BY <2>1, <3>2, <3>3 DEF ReturnsInt
  <2>3. CASE ~(IsIntArg(1) /\ IsIntArg(2) /\ ArithFault(Op(cur), IntArg(1), IntArg(2)) = "none")
    BY <1>1, <1>9, <2>3 DEF VisitCalc
  <2>. QED
    BY <2>2, <2>3
<1>10. CASE VisitLogicLhs
  <2>1. cur # 0 /\ Kind(cur) = "logic" /\ done[cur] = 1 /\ Len(Kids(cur)) = 2
    BY <1>2, <1>10, NodeShape DEF VisitLogicLhs, At, StackInv
  <2>2. CASE ~IsIntArg(1)
    BY <1>1, <1>10, <2>2 DEF VisitLogicLhs
  <2>3. CASE IsIntArg(1) /\ ShortCircuits(Op(cur), IntArg(1))
    <3>1. GiveInt(Truth(Op(cur) = "||")) /\ KeepsTables /\ KeepsLists
      BY <1>10, <2>3 DEF VisitLogicLhs, KeepsTables, KeepsLists
    <3>. QED
      BY <2>1, <3>1, TruthIsInt DEF ReturnsInt
  <2>4. CASE IsIntArg(1) /\ ~ShortCircuits(Op(cur), IntArg(1))
    <3>1. Accept(2) /\ UNCHANGED interpVars /\ 2 \in DOMAIN Kids(cur) /\ 1 + 1 = 2
      BY <1>2, <1>10, <2>1, <2>4 DEF VisitLogicLhs
    <3>. QED
      BY <2>1, <3>1 DEF Walks, interpVars
  <2>. QED
    BY <2>2, <2>3, <2>4
<1>11. CASE VisitLogicRhs
  <2>1. cur # 0 /\ Kind(cur) = "logic" /\ done[cur] = 2 /\ Len(Kids(cur)) = 2
    BY <1>2, <1>11, NodeShape DEF VisitLogicRhs, At, StackInv
  <2>2. CASE ~IsIntArg(2)
    BY <1>1, <1>11, <2>2 DEF VisitLogicRhs
  <2>3. CASE IsIntArg(2)
    <3>1. GiveInt(LogicValue(Op(cur), IntArg(1), IntArg(2))) /\ KeepsTables /\ KeepsLists
      BY <1>11, <2>3 DEF VisitLogicRhs, KeepsTables, KeepsLists
    <3>2. LogicValue(Op(cur), IntArg(1), IntArg(2)) \in Int32
      <4>1. Op(cur) \in {"<", "<=", ">", ">=", "==", "!=", "&&", "||"}
        BY <1>2, <2>1, NodeShape DEF StackInv
      <4>. QED
        BY <4>1, LogicIsInt
    <3>. QED
      BY <2>1, <3>1, <3>2 DEF ReturnsInt
  <2>. QED
    BY <2>2, <2>3
<1>12. CASE VisitPrint \/ VisitArrayHolder
  <2>1. cur # 0 /\ Kind(cur) \in {"print", "holder"} /\ done[cur] = Operands(cur)
    BY <1>12 DEF VisitPrint, VisitArrayHolder, Ready, At
  <2>2. done[cur] = 1
    BY <1>2, <2>1, NodeShape DEF StackInv, Operands
  <2>3. Give(Arg(1)) /\ UNCHANGED Values /\ KeepsTables /\ KeepsLists
    BY <1>12 DEF VisitPrint, VisitArrayHolder, KeepsTables, KeepsLists
  <2>. QED
    BY <2>1, <2>2, <2>3 DEF ReturnsOperand
<1>13. CASE VisitAssignment
  <2>1. cur # 0 /\ Kind(cur) = "assign" /\ done[cur] = 1 /\ Len(Kids(cur)) = 2 /\ Kind(cur) \in ExpressionKinds
    <3>1. cur # 0 /\ Kind(cur) = "assign" /\ done[cur] = Operands(cur)
      BY <1>13 DEF VisitAssignment, Ready, At
    <3>. QED
      BY <1>2, <3>1, ValueKinds, NodeShape DEF StackInv, Operands
  <2>2. Good(Values, Arg(1)) /\ (IsIntArg(1) => IntArg(1) \in Int32)
    BY <1>2, <1>3, <2>1
  <2>3. CASE NameDefined
    <3>1. Assign(NameToValue[NamedKey])
      BY <1>13, <2>3 DEF VisitAssignment, NameDefined, NamedKey
    <3>2. CASE ~IsInt(Values, NameToValue[NamedKey]) \/ ~IsIntArg(1)
      BY <1>1, <3>1, <3>2 DEF Assign
    <3>3. CASE IsInt(Values, NameToValue[NamedKey]) /\ IsIntArg(1)
      <4>1. /\ Values' = setValue(Values, NameToValue[NamedKey], IntArg(1))
            /\ Give(Arg(1)) /\ KeepsTables /\ KeepsLists
        BY <3>1, <3>3 DEF Assign, KeepsTables, KeepsLists
      <4>2. Good(Values, NameToValue[NamedKey])
        BY <1>2, <2>1, <2>3, NameFound DEF EvalInv, NameDefined, NamedKey, Bindable
      <4>. QED
        BY <2>1, <2>2, <2>3, <3>3, <4>1, <4>2 DEF WritesInt
    <3>. QED
      BY <3>2, <3>3
  <2>4. CASE ~NameDefined
    <3>1. Define(Key(cur)) /\ KeepsLists
      BY <1>13, <2>4 DEF VisitAssignment, NameDefined, Key, Home, KeepsLists
    <3>2. CASE IsIntArg(1)
      <4>1. GiveInt(IntArg(1)) /\ NameToValue' = Emplace(NameToValue, Key(cur), IntRef(NewObj))
        BY <3>1, <3>2 DEF Define, GiveInt, linkValueWithName
      <4>. QED
        BY <2>1, <2>2, <2>4, <3>1, <3>2, <4>1 DEF BindsInt
    <3>3. CASE ~IsIntArg(1)
      <4>1. Give(Arg(1)) /\ UNCHANGED Values /\ NameToValue' = Emplace(NameToValue, Key(cur), Arg(1))
        BY <3>1, <3>3 DEF Define, linkValueWithName
      <4>. QED
        BY <2>1, <2>4, <3>1, <3>3, <4>1 DEF BindsArray
    <3>. QED
      BY <3>2, <3>3
  <2>. QED
    BY <2>3, <2>4
<1>14. CASE VisitPresetArray
  <2>1. cur # 0 /\ Kind(cur) = "preset" /\ done[cur] = Operands(cur)
    BY <1>14 DEF VisitPresetArray, Ready, At
  <2>2. done[cur] = Len(Kids(cur))
    BY <2>1 DEF Operands
  <2>. DEFINE elems == [i \in DOMAIN Kids(cur) |-> Arg(i)]
  <2>3. /\ \A i \in DOMAIN elems : Rank1(Values, elems[i])
        /\ GiveArray(PresetArrayVal(Values, elems)) /\ KeepsTables
    BY <1>14 DEF VisitPresetArray, KeepsTables
  <2>4. \A i \in DOMAIN Kids(cur) : Rank1(Values, Arg(i))
    BY <2>3
  <2>. QED
    BY <2>1, <2>2, <2>3, <2>4 DEF MakesPreset
<1>15. CASE VisitUniformArray
  <2>1. cur # 0 /\ Kind(cur) = "uniform" /\ done[cur] = 2 /\ Len(Kids(cur)) = 2 /\ Kind(cur) \in ExpressionKinds
    <3>1. cur # 0 /\ Kind(cur) = "uniform" /\ done[cur] = Operands(cur)
      BY <1>15 DEF VisitUniformArray, Ready, At
    <3>. QED
      BY <1>2, <3>1, ValueKinds, NodeShape DEF StackInv, Operands
  <2>2. CASE IsIntArg(2) /\ ~(IntArg(2) < 0) /\ ~ConstructDangles(Values, Arg(1), IntArg(2))
    <3>1. GiveArray(UniformArrayVal(Values, Arg(1), IntArg(2))) /\ KeepsTables
      BY <1>15, <2>2 DEF VisitUniformArray, KeepsTables
    <3>2. IntArg(2) >= 0
      <4>1. IntArg(2) \in Int32
        BY <1>2, <1>3, <2>1, <2>2
      <4>2. IntArg(2) \in Int
        BY <4>1, Width DEF Int32
      <4>. QED
        BY <2>2, <4>2
    <3>. QED
      BY <2>1, <2>2, <3>1, <3>2 DEF MakesUniform
  <2>3. CASE ~(IsIntArg(2) /\ ~(IntArg(2) < 0) /\ ~ConstructDangles(Values, Arg(1), IntArg(2)))
    BY <1>1, <1>15, <2>3 DEF VisitUniformArray
  <2>. QED
    BY <2>2, <2>3
<1>16. CASE AccessArray
  <2>1. cur # 0 /\ Kind(cur) = "access" /\ done[cur] = 0
    BY <1>16 DEF AccessArray, At
  <2>2. 1 \in DOMAIN Kids(cur)
    BY <1>2, <2>1, KidsExist
  <2>3. CASE ~NameDefined
    BY <1>1, <1>16, <2>3 DEF AccessArray, NameDefined
  <2>4. CASE NameDefined
    BY <1>16, <2>1, <2>2, <2>4 DEF AccessArray, NameDefined, NamedKey, LooksUp, KeepsTables, KeepsLists
  <2>. QED
    BY <2>3, <2>4
<1>17. CASE AccessRank
  <2>1. cur # 0 /\ Kind(cur) = "access" /\ done[cur] > 0
    BY <1>17 DEF AccessRank
  <2>2. CASE RankFault(done[cur]) # "none"
    BY <1>1, <1>17, <2>2 DEF AccessRank
  <2>3. CASE RankFault(done[cur]) = "none"
    <3>. DEFINE k == done[cur]
                offset == ret[cur].cell * CurrArr.shape[k] + IntArg(k)
    <3>1. /\ UNCHANGED Values /\ KeepsTables /\ KeepsLists
          /\ IF k < Len(Kids(cur))
             THEN ret' = [ret EXCEPT ![cur].cell = offset] /\ Accept(k + 1)
             ELSE ret' = [ret EXCEPT ![cur].cell = offset + 1] /\ Return
      BY <1>17, <2>3 DEF AccessRank, KeepsTables, KeepsLists
    <3>2. offset \in Nat
      <4>1. /\ IsIntArg(k) /\ CurrArr.ty # "int32" /\ ~(k > Len(CurrArr.shape))
            /\ IntArg(k) \in 0..(CurrArr.shape[k] - 1)
        BY <2>3 DEF RankFault
      <4>2. cur \in OnStack /\ PartOf(Values, ret[cur], k - 1)
        BY <2>1 DEF EvalInv, AccessesInside, StackInv, StackIsPath
      <4>3. ret[cur] \in References /\ ret[cur].obj \in DOMAIN Values
        BY <4>2 DEF PartOf
      <4>4. CurrArr \in Objects
        BY <4>3, HeapObjects DEF CurrArr, EvalInv
      <4>5. CurrArr.shape \in Seq(Nat)
        BY <4>4 DEF Objects
      <4>6. CurrArr.shape[k] \in Nat
        BY <1>2, <2>1, <4>1, <4>5
      <4>7. ret[cur].cell \in Nat
        BY <4>3 DEF References
      <4>8. ret[cur].cell * CurrArr.shape[k] \in Nat
        BY <4>6, <4>7, Products
      <4>9. IntArg(k) \in Nat
        BY <4>1, <4>6
      <4>. QED
        BY <4>8, <4>9
    <3>3. ret \in [Node -> References]
      BY DEF EvalInv, ReturnsRefs
    <3>. HIDE DEF offset
    <3>4. \A c : [ret EXCEPT ![cur].cell = c] = [ret EXCEPT ![cur] = [obj |-> ret[cur].obj, cell |-> c]]
      <4>1. ret[cur] \in [obj : Nat, cell : Nat]
        BY <1>2, <2>1, <3>3 DEF References
      <4>2. \A c : [ret[cur] EXCEPT !.cell = c] = [obj |-> ret[cur].obj, cell |-> c]
        BY <4>1
      <4>. QED
        BY <4>2
    <3>5. CASE k < Len(Kids(cur))
      <4>1. k + 1 \in DOMAIN Kids(cur)
        BY <1>2, <2>1, <3>5
      <4>. QED
        BY <2>1, <3>1, <3>2, <3>4, <3>5, <4>1 DEF Indexes
    <3>6. CASE ~(k < Len(Kids(cur)))
      <4>1. k = Len(Kids(cur))
        BY <1>2, <2>1, <3>6
      <4>2. ret' = [ret EXCEPT ![cur] = [obj |-> ret[cur].obj, cell |-> offset + 1]] /\ offset + 1 \in Nat
            /\ offset + 1 # 0
        <5>1. ret' = [ret EXCEPT ![cur].cell = offset + 1]
          BY <3>1, <3>6
        <5>2. ret' = [ret EXCEPT ![cur] = [obj |-> ret[cur].obj, cell |-> offset + 1]]
          BY <3>4, <5>1
        <5>. QED
          BY <3>2, <5>2
      <4>3. ret'[cur].cell # 0
        BY <1>2, <2>1, <3>3, <4>2
      <4>. QED
        BY <2>1, <3>1, <3>6, <4>1, <4>2, <4>3 DEF Indexes
    <3>. QED
      BY <3>5, <3>6
  <2>. QED
    BY <2>2, <2>3
<1>18. CASE VisitArrayAccessAssignment
  <2>1. cur # 0 /\ Kind(cur) = "accessAssign" /\ done[cur] = 2 /\ Len(Kids(cur)) = 2 /\ Kind(cur) \in ExpressionKinds
    <3>1. cur # 0 /\ Kind(cur) = "accessAssign" /\ done[cur] = Operands(cur)
      BY <1>18 DEF VisitArrayAccessAssignment, Ready, At
    <3>. QED
      BY <1>2, <3>1, ValueKinds, NodeShape DEF StackInv, Operands
  <2>2. Good(Values, Arg(1)) /\ (IsIntArg(2) => IntArg(2) \in Int32)
    BY <1>2, <1>3, <2>1
  <2>3. CASE ~IsIntArg(2)
    BY <1>1, <1>18, <2>3 DEF VisitArrayAccessAssignment
  <2>4. CASE IsIntArg(2)
    BY <1>18, <2>1, <2>2, <2>4 DEF VisitArrayAccessAssignment, WritesInt, KeepsTables, KeepsLists
  <2>. QED
    BY <2>3, <2>4
<1>19. CASE VisitIf \/ LeaveIf \/ VisitWhile \/ WhileAgain
  <2>1. cur # 0 /\ Kind(cur) \in {"if", "while"}
    BY <1>19 DEF VisitIf, LeaveIf, VisitWhile, WhileAgain, At
  <2>2. CASE StopHere("typeConfusion")
    BY <1>1, <2>2
  <2>3. CASE ~StopHere("typeConfusion")
    <3>1. UNCHANGED interpVars
      BY <1>19, <2>3 DEF VisitIf, LeaveIf, VisitWhile, WhileAgain
    <3>2. Len(Kids(cur)) \in {2, 3} /\ DOMAIN Kids(cur) = 1..Len(Kids(cur))
      BY <1>2, <2>1, KidsExist
    <3>3. \/ Return \/ Accept(1) \/ Accept(2) \/ (Accept(3) /\ Len(Kids(cur)) = 3)
      BY <1>19, <2>3 DEF VisitIf, LeaveIf, VisitWhile, WhileAgain
    <3>4. Return \/ \E i \in DOMAIN Kids(cur) : Accept(i)
      <4>1. 1 \in DOMAIN Kids(cur) /\ 2 \in DOMAIN Kids(cur) /\ (Len(Kids(cur)) = 3 => 3 \in DOMAIN Kids(cur))
        BY <3>2
      <4>. QED
        BY <3>3, <4>1
    <3>. QED
      BY <2>1, <3>1, <3>4 DEF Walks, interpVars
  <2>. QED
    BY <2>2, <2>3
<1>20. CASE VisitStatementBlock
  BY <1>20 DEF VisitStatementBlock, Ready, At, FreesOwn, BlockKinds, tableVars
<1>. HIDE DEF Shown
<1>. QED
  BY <1>4, <1>5, <1>6, <1>7, <1>8, <1>9, <1>10, <1>11, <1>12, <1>13, <1>14, <1>15, <1>16, <1>17, <1>18, <1>19,
     <1>20 DEF InterpNext

-----------------------------------------------------------------------------
(***************************************************************************)
(* The heap and the lists, whatever the step.                              *)
(***************************************************************************)
\* The blocks on whose lists an object is.
Owners(o) == { b \in DOMAIN ResourceHandleMap : o \in ResourceHandleMap[b] }

KeepsHeap == UNCHANGED Values /\ KeepsLists
AddsIntVal == (\E v \in Int32 : createValue(IntegerVal(v))) /\ KeepsLists
WritesCell ==
    /\ \E r : \E v \in Int32 : Good(Values, r) /\ Values' = setValue(Values, r, v)
    /\ KeepsLists
AddsArrayVal ==
    /\ cur # 0 /\ Kind(cur) \in {"preset", "uniform"}
    /\ \E o : o.ty \in ArrayTypes /\ o.alive /\ (o.ty = "repeat" => Kind(cur) = "uniform") /\ GiveArray(o)

LEMMA HeapClasses ==
    ASSUME StackInv, EvalInv, InterpNext
    PROVE  KeepsHeap \/ AddsIntVal \/ WritesCell \/ AddsArrayVal \/ FreesOwn
<1>1. ASSUME NEW refs PROVE PresetArrayVal(Values, refs).ty = "array" /\ PresetArrayVal(Values, refs).alive
  BY DEF PresetArrayVal
<1>2. ASSUME NEW r, NEW size
      PROVE  UniformArrayVal(Values, r, size).ty = "repeat" /\ UniformArrayVal(Values, r, size).alive
  BY DEF UniformArrayVal
<1>3. MakesPreset => AddsArrayVal
  BY <1>1 DEF MakesPreset, AddsArrayVal, ArrayTypes
<1>4. MakesUniform => AddsArrayVal
  BY <1>2 DEF MakesUniform, AddsArrayVal, ArrayTypes
<1>5. ReturnsInt \/ BindsInt => AddsIntVal
  BY DEF ReturnsInt, BindsInt, AddsIntVal, GiveInt
<1>6. WritesInt => WritesCell
  BY DEF WritesInt, WritesCell
<1>7. ReturnsOperand \/ BindsArray \/ RecallsName \/ LooksUp \/ Indexes \/ Walks \/ Stands => KeepsHeap
  BY DEF ReturnsOperand, BindsArray, RecallsName, LooksUp, Indexes, Walks, Stands, KeepsHeap, KeepsLists
<1>. QED
  BY <1>3, <1>4, <1>5, <1>6, <1>7, InterpClasses

\* An object changes only when it is destroyed, and in the cell that is written.
LEMMA ObjectsKept ==
    ASSUME StackInv, EvalInv, InterpNext, NEW o \in DOMAIN Values
    PROVE  /\ o \in DOMAIN Values' /\ Values'[o].ty = Values[o].ty /\ Values'[o].initer = Values[o].initer
           /\ Owners(o)' = Owners(o) /\ o # NewObj
           /\ IF FreesOwn /\ cur \in Owners(o)
              THEN ~Values'[o].alive /\ Values'[o].shape = <<0>> /\ Values'[o].cells = <<>>
              ELSE /\ Values'[o].alive = Values[o].alive /\ Values'[o].shape = Values[o].shape
                   /\ Len(Values'[o].cells) = Len(Values[o].cells)
                   /\ Values[o].cells = <<>> => Values'[o].cells = <<>>
<1>1. /\ Values[o] \in Objects /\ DOMAIN Values = 1..Len(Values) /\ Len(Values) \in Nat
  BY HeapObjects DEF EvalInv
<1>2. o # NewObj
  BY <1>1 DEF NewObj
<1>. DEFINE Same == /\ Values'[o].ty = Values[o].ty /\ Values'[o].initer = Values[o].initer
                    /\ Values'[o].alive = Values[o].alive /\ Values'[o].shape = Values[o].shape
                    /\ Len(Values'[o].cells) = Len(Values[o].cells)
                    /\ Values[o].cells = <<>> => Values'[o].cells = <<>>
<1>3. CASE FreesOwn
  <2>1. /\ Values' = [p \in DOMAIN Values |->
                        IF cur \in DOMAIN ResourceHandleMap /\ p \in ResourceHandleMap[cur]
                        THEN Destroyed(Values[p]) ELSE Values[p]]
        /\ ResourceHandleMap' = ResourceHandleMap
    BY <1>3 DEF FreesOwn, freeResources
  <2>2. Owners(o)' = Owners(o)
    BY <2>1 DEF Owners
  <2>3. Destroyed(Values[o]).ty = Values[o].ty /\ Destroyed(Values[o]).initer = Values[o].initer
        /\ ~Destroyed(Values[o]).alive /\ Destroyed(Values[o]).shape = <<0>>
        /\ Destroyed(Values[o]).cells = <<>>
    BY <1>1 DEF Destroyed, Objects
  <2>4. Values'[o] = IF cur \in Owners(o) THEN Destroyed(Values[o]) ELSE Values[o]
    BY <2>1 DEF Owners
  <2>5. o \in DOMAIN Values'
    BY <2>1
  <2>. QED
    BY <1>2, <1>3, <2>2, <2>3, <2>4, <2>5
<1>4. CASE ~FreesOwn
  <2>1. CASE KeepsHeap
    BY <1>2, <1>4, <2>1 DEF KeepsHeap, KeepsLists, Owners
  <2>2. CASE AddsIntVal
    <3>1. PICK v \in Int32 : createValue(IntegerVal(v))
      BY <2>2 DEF AddsIntVal
    <3>2. o \in DOMAIN Values' /\ Values'[o] = Values[o]
      BY <3>1, ObjectsAdded
    <3>3. Owners(o)' = Owners(o)
      BY <2>2 DEF AddsIntVal, KeepsLists, Owners
    <3>. QED
      BY <1>2, <1>4, <3>2, <3>3
  <2>3. CASE WritesCell
    <3>1. PICK r, v : v \in Int32 /\ Good(Values, r) /\ Values' = setValue(Values, r, v)
      BY <2>3 DEF WritesCell
    <3>2. SameLayout(Values, Values') /\ \A p \in DOMAIN Values \ {r.obj} : Values'[p] = Values[p]
      BY <3>1, HeapSet DEF EvalInv
    <3>3. CASE o = r.obj
      <4>1. Values'[o] = [Values[o] EXCEPT !.cells[r.cell] = v]
        BY <3>1, <3>3 DEF setValue
      <4>2. Values'[o].initer = Values[o].initer /\ Values'[o].alive = Values[o].alive
        BY <1>1, <4>1 DEF Objects
      <4>3. Values'[o].cells = [Values[o].cells EXCEPT ![r.cell] = v]
        BY <1>1, <4>1 DEF Objects
      <4>4. Values[o].cells = <<>> => Values'[o].cells = <<>>
        <5>1. \A s, k : s = <<>> => [s EXCEPT ![k] = v] = <<>>
          OBVIOUS
        <5>. QED
          BY <4>3, <5>1
      <4>. QED
        BY <1>2, <1>4, <2>3, <3>2, <4>2, <4>4 DEF SameLayout, WritesCell, KeepsLists, Owners
    <3>4. CASE o # r.obj
      BY <1>2, <1>4, <2>3, <3>2, <3>4 DEF SameLayout, WritesCell, KeepsLists, Owners
    <3>. QED
      BY <3>3, <3>4
  <2>4. CASE AddsArrayVal
    <3>1. PICK a : GiveArray(a)
      BY <2>4 DEF AddsArrayVal
    <3>2. o \in DOMAIN Values' /\ Values'[o] = Values[o]
      BY <3>1, ObjectsAdded DEF GiveArray
    <3>3. /\ DOMAIN ResourceHandleMap' = DOMAIN ResourceHandleMap \cup {Home(cur)}
          /\ \A b \in DOMAIN ResourceHandleMap' :
                ResourceHandleMap'[b] =
                   IF b = Home(cur)
                   THEN {NewObj} \cup (IF b \in DOMAIN ResourceHandleMap THEN ResourceHandleMap[b] ELSE {})
                   ELSE ResourceHandleMap[b]
      BY <3>1 DEF GiveArray, addResourceForFree, Emplace, Home
    <3>4. Owners(o)' = Owners(o)
      BY <1>2, <3>3 DEF Owners
    <3>. QED
      BY <1>2, <1>4, <3>2, <3>4
  <2>. QED
    BY <1>4, <2>1, <2>2, <2>3, <2>4, HeapClasses
<1>. QED
  BY <1>3, <1>4

\* An object that is new is alive; an array is on the list of the block it was made in.
LEMMA ObjectsNew ==
    ASSUME StackInv, EvalInv, InterpNext, NEW o \in DOMAIN Values', o \notin DOMAIN Values
    PROVE  /\ o = NewObj /\ Values'[o].alive
           /\ \/ Values'[o].ty = "int32" /\ Owners(o)' = {} /\ AddsIntVal
              \/ /\ Values'[o].ty \in ArrayTypes /\ Owners(o)' = {Home(cur)} /\ AddsArrayVal
                 /\ cur # 0 /\ Kind(cur) \in {"preset", "uniform"} /\ ret' = [ret EXCEPT ![cur] = ArrayRef(o)]
                 /\ Values'[o].ty = "repeat" => MakesUniform
<1>1. ASSUME NEW a, createValue(a)
      PROVE  o = NewObj /\ Values'[o] = a
  <2>1. Values \in Seq(Objects)
    BY DEF EvalInv, HeapOK
  <2>2. Values' = Append(Values, a)
    BY <1>1 DEF createValue
  <2>. HIDE DEF Objects
  <2>3. DOMAIN Values = 1..Len(Values) /\ Len(Values) \in Nat
    BY <2>1
  <2>4. DOMAIN Append(Values, a) = 1..(Len(Values) + 1) /\ Append(Values, a)[Len(Values) + 1] = a
    BY <2>1, <2>3
  <2>5. o = Len(Values) + 1
    BY <2>2, <2>3, <2>4
  <2>. QED
    BY <2>2, <2>4, <2>5 DEF NewObj
<1>2. \A b \in DOMAIN ResourceHandleMap : o \notin ResourceHandleMap[b]
  BY DEF EvalInv, ListsHoldArrays
<1>3. CASE AddsIntVal
  <2>1. PICK v \in Int32 : createValue(IntegerVal(v))
    BY <1>3 DEF AddsIntVal
  <2>2. o = NewObj /\ Values'[o].ty = "int32" /\ Values'[o].alive
    BY <1>1, <2>1 DEF IntegerVal
  <2>3. Owners(o)' = {}
    BY <1>2, <1>3 DEF AddsIntVal, KeepsLists, Owners
  <2>. QED
    BY <1>3, <2>2, <2>3
<1>4. CASE MakesPreset \/ MakesUniform
  <2>. DEFINE a == IF MakesUniform THEN UniformArrayVal(Values, Arg(1), IntArg(2))
                   ELSE PresetArrayVal(Values, [i \in DOMAIN Kids(cur) |-> Arg(i)])
  <2>1. /\ GiveArray(a) /\ cur # 0 /\ Kind(cur) \in {"preset", "uniform"}
        /\ a.ty \in ArrayTypes /\ a.alive /\ (a.ty = "repeat" => MakesUniform)
    <3>1. CASE MakesUniform
      BY <3>1 DEF MakesUniform, UniformArrayVal, ArrayTypes
    <3>2. CASE ~MakesUniform
      <4>1. \A refs : PresetArrayVal(Values, refs).ty = "array" /\ PresetArrayVal(Values, refs).alive
        BY DEF PresetArrayVal
      <4>2. MakesPreset
        BY <1>4, <3>2
      <4>3. a.ty = "array" /\ a.alive
        BY <3>2, <4>1
      <4>4. GiveArray(a) /\ cur # 0 /\ Kind(cur) = "preset"
        BY <3>2, <4>2 DEF MakesPreset
      <4>. QED
        BY <4>3, <4>4 DEF ArrayTypes
    <3>. QED
      BY <3>1, <3>2
  <2>. HIDE DEF a
  <2>2. AddsArrayVal
    <3>1. a.ty = "repeat" => Kind(cur) = "uniform"
      BY <2>1 DEF MakesUniform
    <3>. QED
      BY <2>1, <3>1 DEF AddsArrayVal
  <2>3. o = NewObj /\ Values'[o] = a
    BY <1>1, <2>1 DEF GiveArray
  <2>4. /\ DOMAIN ResourceHandleMap' = DOMAIN ResourceHandleMap \cup {Home(cur)}
        /\ \A b \in DOMAIN ResourceHandleMap' :
              ResourceHandleMap'[b] =
                 IF b = Home(cur)
                 THEN {NewObj} \cup (IF b \in DOMAIN ResourceHandleMap THEN ResourceHandleMap[b] ELSE {})
                 ELSE ResourceHandleMap[b]
    BY <2>1 DEF GiveArray, addResourceForFree, Emplace, Home
  <2>5. Owners(o)' = {Home(cur)}
    BY <1>2, <2>3, <2>4 DEF Owners
  <2>6. ret' = [ret EXCEPT ![cur] = ArrayRef(o)]
    BY <2>1, <2>3 DEF GiveArray, Give
  <2>7. Values'[o].alive /\ Values'[o].ty \in ArrayTypes /\ (Values'[o].ty = "repeat" => MakesUniform)
    BY <2>1, <2>3
  <2>. QED
    BY <2>1, <2>2, <2>3, <2>5, <2>6, <2>7
<1>5. CASE \/ ReturnsOperand \/ BindsArray \/ RecallsName \/ LooksUp \/ Indexes \/ Walks \/ Stands
  BY <1>5 DEF ReturnsOperand, BindsArray, RecallsName, LooksUp, Indexes, Walks, Stands
<1>6. CASE WritesInt
  <2>1. PICK r, v : v \in Int32 /\ Good(Values, r) /\ Values' = setValue(Values, r, v)
    BY <1>6 DEF WritesInt
  <2>. QED
    BY <2>1, HeapSet DEF EvalInv
<1>7. CASE FreesOwn
  BY <1>7 DEF FreesOwn, freeResources
<1>8. ReturnsInt \/ BindsInt => AddsIntVal
  BY DEF ReturnsInt, BindsInt, AddsIntVal, GiveInt
<1>. QED
  BY <1>3, <1>4, <1>5, <1>6, <1>7, <1>8, InterpClasses

-----------------------------------------------------------------------------
(***************************************************************************)
(* The nodes whose reference somebody holds: an operand that its frame is  *)
(* past, and an access that has looked its array up.                       *)
(***************************************************************************)
PastOf(n) == { i \in DOMAIN Kids(n) : i <= done[n] }

HeldNodes ==
    { m \in Node \ {1} :
        \/ /\ m \notin OnStack /\ prog[m].parent \in OnStack /\ Holding(prog[m].parent)
           /\ \E i \in PastOf(prog[m].parent) : Kid(prog[m].parent, i) = m
        \/ m \in OnStack /\ Kind(m) = "access" /\ done[m] > 0 }

\* A step after which the reference of cur is another.
Supplies ==
    \/ ReturnsInt \/ ReturnsOperand \/ BindsInt \/ BindsArray \/ WritesInt \/ RecallsName
    \/ MakesPreset \/ MakesUniform \/ LooksUp \/ Indexes

\* What holds operands has expressions for them.
LEMMA HoldsExpressions ==
    ASSUME ProgOK, NEW p \in Node, Holding(p), NEW i \in DOMAIN Kids(p), i <= done[p]
    PROVE  Kind(Kid(p, i)) \in ExpressionKinds
<1>1. CASE Kind(p) \in ExpressionKinds
  BY <1>1, NodeShape
<1>2. CASE Kind(p) \notin ExpressionKinds
  <2>1. Kind(p) \in {"if", "while"} /\ i = 1
    BY <1>2, NodeShape DEF Holding
  <2>. QED
    BY <2>1, NodeShape
<1>. QED
  BY <1>1, <1>2

LEMMA HeldExpressions ==
    ASSUME StackInv, NEW m \in HeldNodes
    PROVE  m \in Node /\ m # 1 /\ Kind(m) \in ExpressionKinds
<1>1. m \in Node /\ m # 1
  BY DEF HeldNodes
<1>2. CASE Kind(m) = "access"
  BY <1>1, <1>2, ValueKinds
<1>3. CASE Kind(m) # "access"
  <2>. DEFINE p == prog[m].parent
  <2>1. p \in OnStack /\ Holding(p) /\ \E i \in PastOf(p) : Kid(p, i) = m
    BY <1>3 DEF HeldNodes
  <2>. HIDE DEF p
  <2>2. PICK i \in PastOf(p) : Kid(p, i) = m
    BY <2>1
  <2>3. p \in Node /\ i \in DOMAIN Kids(p) /\ i <= done[p]
    BY <2>1, <2>2 DEF PastOf, OnStack
  <2>. QED
    BY <1>1, <2>1, <2>2, <2>3, HoldsExpressions DEF StackInv
<1>. QED
  BY <1>1, <1>2, <1>3

LEMMA OperandHeld ==
    ASSUME StackInv, cur # 0, Holding(cur), NEW i \in DOMAIN Kids(cur), i <= done[cur]
    PROVE  Kid(cur, i) \in HeldNodes
<1>1. /\ cur \in Node /\ cur \in OnStack /\ Kid(cur, i) \in Node /\ Kid(cur, i) > cur
      /\ prog[Kid(cur, i)].parent = cur /\ Kid(cur, i) # 1
  BY KidsExist, NodeShape DEF StackInv, StackIsPath
<1>2. Kid(cur, i) \notin OnStack
  BY <1>1, Trees DEF StackInv, StackIsPath, ProgOK, Node
<1>. QED
  BY <1>1, <1>2 DEF HeldNodes, PastOf

LEMMA HeldStep ==
    ASSUME StackInv, EvalInv, InterpNext
    PROVE  /\ \A m \in HeldNodes' : \/ m \in HeldNodes /\ ret'[m] = ret[m]
                                    \/ m = cur /\ Supplies
           /\ FreesOwn => HeldNodes' = {}
<1>1. /\ prog' = prog /\ Node' = Node /\ cur # 0 /\ cur \in Node /\ cur \in OnStack
      /\ \A n \in Node \ {cur} : ret'[n] = ret[n]
  BY OthersKeep
<1>2. /\ DOMAIN Kids(cur) = 1..Len(Kids(cur)) /\ Len(Kids(cur)) \in Nat /\ done[cur] \in Nat
      /\ done \in [Node -> Nat \cup {Idle}] /\ Node \subseteq Nat
  BY <1>1, KidsExist, NodeShape, Trees DEF StackInv, StackTypeOK, ProgOK, Node
<1>. DEFINE Holds(n)    == \/ Kind(n) \in ExpressionKinds
                           \/ Kind(n) \in {"if", "while"} /\ done'[n] = 1
            Below(m, p) == /\ m \notin OnStack' /\ p \in OnStack' /\ Holds(p)
                           /\ \E i \in DOMAIN Kids(p) : i <= done'[p] /\ Kid(p, i) = m
            Looked(m)   == m \in OnStack' /\ Kind(m) = "access" /\ done'[m] > 0
<1>3. /\ \A n : Kids(n)' = Kids(n) /\ Kind(n)' = Kind(n)
      /\ \A n, i : Kid(n, i)' = Kid(n, i)
      /\ \A n : Holding(n)' <=> Holds(n)
      /\ \A m \in HeldNodes' : m \in Node \ {1} /\ (Below(m, prog[m].parent) \/ Looked(m))
  <2>1. /\ \A n : Kids(n)' = Kids(n) /\ Kind(n)' = Kind(n)
        /\ \A n, i : Kid(n, i)' = Kid(n, i)
    BY <1>1 DEF Kids, Kind, Kid
  <2>2. \A n : Holding(n)' <=> Holds(n)
    BY <2>1 DEF Holding
  <2>3. ASSUME NEW m \in HeldNodes'
        PROVE  m \in Node \ {1} /\ (Below(m, prog[m].parent) \/ Looked(m))
    <3>1. m \in Node \ {1}
      BY <1>1 DEF HeldNodes
    <3>2. CASE m \in OnStack' /\ Kind(m)' = "access" /\ done'[m] > 0
      BY <2>1, <3>1, <3>2
    <3>3. CASE /\ m \notin OnStack' /\ prog'[m].parent \in OnStack'
               /\ Holding(prog[m].parent)'
               /\ \E i \in PastOf(prog[m].parent)' : Kid(prog[m].parent, i)' = m
      <4>. DEFINE p == prog[m].parent
      <4>1. prog'[m].parent = p
        BY <1>1
      <4>2. PICK i \in PastOf(p)' : Kid(p, i)' = m
        BY <1>1, <3>3
      <4>3. i \in DOMAIN Kids(p) /\ i <= done'[p] /\ Kid(p, i) = m /\ Holds(p) /\ p \in OnStack'
        BY <1>1, <2>1, <2>2, <3>3, <4>1, <4>2 DEF PastOf
      <4>. HIDE DEF p, Holds
      <4>4. Below(m, p)
        BY <3>3, <4>3
      <4>. QED
        BY <3>1, <4>4 DEF p
    <3>. QED
      BY <3>2, <3>3 DEF HeldNodes
  <2>. HIDE DEF Holds, Below, Looked
  <2>. QED
    BY <2>1, <2>2, <2>3
<1>4. CASE Return
  <2>1. Returns /\ OnStack' = OnStack \ {cur} /\ \A n \in OnStack' : done'[n] = done[n] /\ n \in OnStack
    <3>1. Returns /\ OnStack' = OnStack \ {cur}
      BY <1>1, <1>4, ReturnStack DEF Returns
    <3>. QED
      BY <1>2, <1>4, <3>1 DEF Return, OnStack
  <2>2. ASSUME NEW m \in HeldNodes', m # cur
        PROVE  /\ m \in HeldNodes /\ ret'[m] = ret[m]
               /\ \E n \in OnStack \ {cur} : Holding(n)
    <3>1. m \in Node \ {1}
      BY <1>1 DEF HeldNodes
    <3>2. CASE Looked(m)
      BY <1>1, <2>1, <2>2, <3>1, <3>2, ValueKinds DEF HeldNodes, Holding
    <3>3. CASE Below(m, prog[m].parent)
      <4>. DEFINE p == prog[m].parent
      <4>1. m \notin OnStack /\ p \in OnStack /\ p # cur /\ done'[p] = done[p]
        BY <2>1, <2>2, <3>3
      <4>2. Holding(p)
        BY <3>3, <4>1 DEF Holding
      <4>3. \E i \in PastOf(p) : Kid(p, i) = m
        BY <3>3, <4>1 DEF PastOf
      <4>. QED
        BY <1>1, <2>2, <3>1, <4>1, <4>2, <4>3 DEF HeldNodes
    <3>. QED
      BY <1>3, <3>2, <3>3
  <2>3. cur \in HeldNodes' => Kind(cur) \in ExpressionKinds
    <3>. SUFFICES ASSUME cur \in HeldNodes' PROVE Kind(cur) \in ExpressionKinds
      OBVIOUS
    <3>. DEFINE p == prog[cur].parent
    <3>1. cur \notin OnStack'
      BY <1>1, <2>1
    <3>2. Below(cur, p)
      BY <1>3, <3>1
    <3>. HIDE DEF p
    <3>3. PICK i \in DOMAIN Kids(p) : i <= done'[p] /\ Kid(p, i) = cur
      BY <3>2
    <3>4. i <= done[p] /\ p \in OnStack /\ p \in Node /\ Holding(p)
      BY <2>1, <3>2, <3>3 DEF Holding, OnStack
    <3>. QED
      BY <3>3, <3>4, HoldsExpressions DEF StackInv
  <2>4. Kind(cur) \in ExpressionKinds => Supplies
    <3>1. Kind(cur) \in ExpressionKinds => Kind(cur) \notin {"if", "while"} \cup BlockKinds
      BY DEF ExpressionKinds, BlockKinds, Arity
    <3>2. ~Stands
      <4>1. cur' # cur
        BY <1>1, <1>2, <2>1, ReturnStack
      <4>. QED
        BY <4>1 DEF Stands
    <3>3. Walks => Kind(cur) \in {"if", "while"}
      <4>1. SUFFICES ASSUME done[cur] + 1 \in DOMAIN Kids(cur), Accept(done[cur] + 1) PROVE FALSE
        BY DEF Walks
      <4>2. cur' > cur
        BY <1>1, <4>1, AcceptStack
      <4>. QED
        BY <1>1, <1>2, <2>1, <4>2, ReturnStack
    <3>. QED
      BY <3>1, <3>2, <3>3, InterpClasses DEF Supplies, FreesOwn
  <2>5. FreesOwn => HeldNodes' = {}
    <3>1. SUFFICES ASSUME FreesOwn, NEW m \in HeldNodes' PROVE FALSE
      OBVIOUS
    <3>2. Kind(cur) \notin ExpressionKinds
      BY <3>1 DEF FreesOwn, ExpressionKinds, BlockKinds, Arity
    <3>3. m # cur
      BY <2>3, <3>1, <3>2
    <3>4. PICK n \in OnStack \ {cur} : Holding(n)
      BY <2>2, <3>1, <3>3
    <3>. QED
      BY <1>1, <3>2, <3>4, NoneHolding
  <2>. QED
    BY <2>2, <2>3, <2>4, <2>5
<1>5. ASSUME NEW i \in DOMAIN Kids(cur), Accept(i), Kind(cur) \in ExpressionKinds => i = done[cur] + 1,
             Kind(cur) = "access" => LooksUp \/ Indexes
      PROVE  \A m \in HeldNodes' : \/ m \in HeldNodes /\ ret'[m] = ret[m]
                                   \/ m = cur /\ Supplies
  <2>. DEFINE kid == Kid(cur, i)
  <2>1. /\ kid \in Node /\ kid # cur /\ OnStack' = OnStack \cup {kid} /\ kid \notin OnStack
        /\ prog[kid].parent = cur /\ i \in Nat
    <3>1. OnStack' = OnStack \cup {kid}
      BY <1>1, <1>5, AcceptStack DEF Accept
    <3>2. kid \in Node /\ kid > cur /\ prog[kid].parent = cur
      BY <1>1, NodeShape DEF StackInv
    <3>3. kid \notin OnStack
      BY <1>1, <1>2, <3>2 DEF StackInv, StackIsPath
    <3>4. kid # cur
      BY <1>1, <1>2, <3>2
    <3>5. i \in Nat
      BY <1>2
    <3>. HIDE DEF kid
    <3>. QED
      BY <3>1, <3>2, <3>3, <3>4, <3>5
  <2>2. /\ done'[cur] = i /\ done'[kid] = 0 /\ \A n \in OnStack \ {cur} : done'[n] = done[n]
    <3>1. done' = [done EXCEPT ![cur] = i, ![kid] = 0]
      BY <1>5 DEF Accept
    <3>. HIDE DEF kid
    <3>. QED
      BY <1>1, <1>2, <2>1, <3>1 DEF OnStack
  <2>3. SUFFICES ASSUME NEW m \in HeldNodes'
                 PROVE  (m \in HeldNodes /\ ret'[m] = ret[m]) \/ (m = cur /\ Supplies)
    OBVIOUS
  <2>4. m \in Node \ {1}
    BY <1>1 DEF HeldNodes
  <2>. HIDE DEF kid
  <2>5. CASE Looked(m)
    <3>1. CASE m = cur
      BY <1>5, <2>5, <3>1 DEF Supplies
    <3>2. CASE m # cur
      <4>1. m \in OnStack /\ done[m] > 0
        BY <2>1, <2>2, <2>5, <3>2
      <4>. QED
        BY <1>1, <2>4, <2>5, <3>2, <4>1 DEF HeldNodes
    <3>. QED
      BY <3>1, <3>2
  <2>6. CASE Below(m, prog[m].parent)
    <3>. DEFINE p == prog[m].parent
    <3>1. m \notin OnStack /\ m # cur /\ m # kid
      BY <1>1, <2>1, <2>6
    <3>2. PICK j \in DOMAIN Kids(p) : j <= done'[p] /\ Kid(p, j) = m
      BY <2>6
    <3>3. p \in OnStack' /\ p \in Node /\ Holds(p)
      BY <1>1, <2>1, <2>6 DEF OnStack
    <3>. HIDE DEF p
    <3>4. j \in Nat /\ j >= 1
      <4>1. DOMAIN Kids(p) = 1..Len(Kids(p)) /\ Len(Kids(p)) \in Nat
        BY <3>3, NodeShape DEF StackInv
      <4>. QED
        BY <3>2, <4>1
    <3>5. p # kid
      BY <2>2, <3>2, <3>4
    <3>6. j <= done[p] /\ Holding(p) /\ p \in OnStack
      <4>1. CASE p = cur
        <5>1. j <= i /\ j # i
          BY <2>2, <3>1, <3>2, <3>3, <4>1 DEF kid
        <5>2. Kind(cur) \in ExpressionKinds
          <6>1. done'[cur] = 1 => FALSE
            BY <2>1, <2>2, <3>4, <5>1
          <6>. QED
            BY <3>3, <4>1, <6>1
        <5>3. i = done[cur] + 1
          BY <1>5, <5>2
        <5>. QED
          BY <1>1, <1>2, <2>1, <3>4, <4>1, <5>1, <5>2, <5>3 DEF Holding
      <4>2. CASE p # cur
        <5>1. p \in OnStack /\ done'[p] = done[p]
          BY <2>1, <2>2, <3>3, <3>5, <4>2
        <5>. QED
          BY <3>2, <3>3, <5>1 DEF Holding
      <4>. QED
        BY <4>1, <4>2
    <3>7. m \in HeldNodes
      BY <2>4, <3>1, <3>2, <3>3, <3>6 DEF HeldNodes, PastOf, p
    <3>. QED
      BY <1>1, <2>4, <3>1, <3>7
  <2>. HIDE DEF Below, Looked, Holds
  <2>. QED
    BY <1>3, <2>5, <2>6
<1>6. CASE Stands
  <2>1. prog' = prog /\ done' = done /\ ret' = ret
    BY <1>6 DEF Stands
  <2>2. HeldNodes' = HeldNodes
    BY <2>1, <1>1 DEF HeldNodes, OnStack, Holding, PastOf, Kind, Kids, Kid
  <2>3. FreesOwn => FALSE
    BY <1>6, <1>1, <1>2, ReturnStack DEF FreesOwn, Stands, Returns
  <2>. QED
    BY <2>1, <2>2, <2>3
<1>7. FreesOwn => Return
  BY DEF FreesOwn
<1>8. \/ Return \/ Stands
      \/ \E i \in DOMAIN Kids(cur) : /\ Accept(i) /\ (Kind(cur) \in ExpressionKinds => i = done[cur] + 1)
                                     /\ Kind(cur) = "access" => LooksUp \/ Indexes
  <2>1. {"if", "while"} \cap ExpressionKinds = {} /\ 0 + 1 = 1
    BY DEF ExpressionKinds, Arity
  <2>2. LooksUp => Kind(cur) = "access" /\ done[cur] = 0 /\ 1 \in DOMAIN Kids(cur) /\ Accept(1)
    BY DEF LooksUp
  <2>3. Indexes => Return \/ (done[cur] + 1 \in DOMAIN Kids(cur) /\ Accept(done[cur] + 1))
    BY DEF Indexes
  <2>4. Walks => \/ Return
                 \/ Kind(cur) # "access" /\ done[cur] + 1 \in DOMAIN Kids(cur) /\ Accept(done[cur] + 1)
                 \/ Kind(cur) \in {"if", "while"} /\ \E i \in DOMAIN Kids(cur) : Accept(i)
    BY DEF Walks
  <2>5. ReturnsInt \/ ReturnsOperand \/ BindsInt \/ BindsArray \/ WritesInt \/ RecallsName
        \/ MakesPreset \/ MakesUniform \/ FreesOwn => Return
    BY DEF ReturnsInt, ReturnsOperand, BindsInt, BindsArray, WritesInt, RecallsName, MakesPreset,
           MakesUniform, FreesOwn, GiveInt, Give, GiveArray
  <2>. QED
    BY <2>1, <2>2, <2>3, <2>4, <2>5, InterpClasses
<1>9. ASSUME ~Return, ~Stands
      PROVE  \A m \in HeldNodes' : (m \in HeldNodes /\ ret'[m] = ret[m]) \/ (m = cur /\ Supplies)
  BY <1>5, <1>8, <1>9
<1>. QED
  BY <1>4, <1>6, <1>7, <1>9

-----------------------------------------------------------------------------
(***************************************************************************)
(* Who destroys an array.  Every array is on the list of one block, the    *)
(* one it was made in; what a name or an expression holds is on the list   *)
(* of a block around it, and an array is made from one of an outer block.  *)
(***************************************************************************)
OwnedOnce ==
    \A o \in DOMAIN Values : Values[o].ty \in ArrayTypes =>
        \E b \in Node : IsBlock(prog, b) /\ Owners(o) = {b}

DeadEmpty ==
    \A o \in DOMAIN Values : ~Values[o].alive =>
        Values[o].ty \in ArrayTypes /\ Values[o].cells = <<>> /\ Values[o].shape = <<0>>

NamesOwned ==
    \A k \in DOMAIN NameToValue : Owners(NameToValue[k].obj) \subseteq {k[2]} \cup Around(k[2])

HeldOwned == \A m \in HeldNodes : Owners(ret[m].obj) \subseteq Around(m)

InitersOuter ==
    \A o \in DOMAIN Values : Values[o].ty = "repeat" =>
        \A b \in Owners(o), c \in Owners(Values[o].initer.obj) : c <= b

\* A destroyed array's block was left, and only a loop comes back to it.
DeadLeft ==
    \A o \in DOMAIN Values : ~Values[o].alive =>
        \A b \in Owners(o) : UnderWhile(prog, b) \/ Left(b)

\* Only expressions return something.
ReturnsExpr == \A n \in Node : ret[n] # Null => Kind(n) \in ExpressionKinds

OwnInv ==
    /\ OwnedOnce /\ DeadEmpty /\ NamesOwned /\ HeldOwned /\ InitersOuter /\ DeadLeft /\ ReturnsExpr

LEMMA KidScope ==
    ASSUME ProgOK, NEW n \in Node, Kind(n) \notin BlockKinds, NEW i \in DOMAIN Kids(n)
    PROVE  /\ Kid(n, i) \in Node /\ Scope(Kid(n, i)) = Scope(n)
           /\ Around(Kid(n, i)) = Around(n) /\ Home(Kid(n, i)) = Home(n)
<1>1. Kid(n, i) \in Node /\ Kid(n, i) # 1 /\ prog[Kid(n, i)].parent = n
  BY NodeShape
<1>2. prog[Kid(n, i)].scope = InnerScope(prog, n)
  BY <1>1, Trees DEF ProgOK, Node
<1>3. InnerScope(prog, n) = prog[n].scope
  BY DEF InnerScope, IsBlock, Kind
<1>4. Scope(Kid(n, i)) = Scope(n)
  BY <1>2, <1>3 DEF Scope
<1>. QED
  BY <1>1, <1>4 DEF Around, Home

\* Only arrays are on lists.
LEMMA OwnedArrays ==
    ASSUME EvalInv, NEW o, Owners(o) # {}
    PROVE  o \in DOMAIN Values /\ Values[o].ty \in ArrayTypes /\ Values[o].ty # "int32"
<1>1. PICK b \in DOMAIN ResourceHandleMap : o \in ResourceHandleMap[b]
  BY DEF Owners
<1>2. o \in DOMAIN Values /\ Values[o].ty \in ArrayTypes
  BY <1>1 DEF EvalInv, ListsHoldArrays
<1>. QED
  BY <1>2 DEF ArrayTypes

LEMMA HeldObjects ==
    ASSUME StackInv, EvalInv, NEW m \in HeldNodes
    PROVE  /\ m \in Node /\ ret[m].obj \in DOMAIN Values
           /\ m \notin OnStack => Good(Values, ret[m])
<1>1. m \in Node \ {1}
  BY DEF HeldNodes
<1>2. CASE m \notin OnStack
  <2>. DEFINE p == prog[m].parent
  <2>1. p \in OnStack /\ Holding(p) /\ \E i \in PastOf(p) : Kid(p, i) = m
    BY <1>2 DEF HeldNodes
  <2>. HIDE DEF p
  <2>2. PICK i \in PastOf(p) : Kid(p, i) = m
    BY <2>1
  <2>3. i \in DOMAIN Kids(p) /\ i <= done[p] /\ Kid(p, i) \notin OnStack
    BY <1>2, <2>2 DEF PastOf
  <2>4. Good(Values, ret[Kid(p, i)])
    BY <2>1, <2>3 DEF EvalInv, OperandsHeld
  <2>. QED
    BY <1>1, <2>2, <2>4 DEF Good
<1>3. CASE m \in OnStack
  <2>1. m \in OnStack /\ Kind(m) = "access" /\ done[m] > 0
    BY <1>3 DEF HeldNodes
  <2>. QED
    BY <1>1, <2>1 DEF EvalInv, AccessesInside, PartOf
<1>. QED
  BY <1>2, <1>3

\* Only a loop comes back to what was left.
LEMMA LeftKept ==
    ASSUME StackInv, InterpNext, NEW m \in Node, Left(m)
    PROVE  Left(m)' \/ UnderWhile(prog, m)
<1>1. CASE StepsIn
  BY <1>1, LeftAfterAccept DEF StepsIn
<1>2. CASE Otherwise
  <2>1. 3 \in DOMAIN Kids(cur) /\ Accept(3) /\ cur # 0 /\ ~(3 <= done[cur])
    BY <1>2 DEF Otherwise
  <2>. QED
    BY <2>1, LeftAfterAnyAccept
<1>3. CASE LoopsBack
  <2>1. Left(m)' \/ cur \in Ancestors(prog, m)
    BY <1>3, LeftAfterAnyAccept DEF LoopsBack
  <2>2. SUFFICES ASSUME cur \in Ancestors(prog, m) PROVE UnderWhile(prog, m)
    BY <2>1
  <2>3. cur # 0 /\ cur \in OnStack /\ cur \in Node /\ Kind(cur) = "while"
    BY <1>3, KidsExist DEF LoopsBack, StackInv, StackIsPath
  <2>4. m # cur
    BY <2>3, OnStackNotLeft
  <2>5. PICK i \in DOMAIN Kids(cur) : Kid(cur, i) \in Ancestors(prog, m)
    BY <2>2, <2>4, AncestorsPath DEF StackInv, ProgOK, Node, Kids, Kid
  <2>6. i \in {1, 2} /\ Kid(cur, i) # 1 /\ prog[Kid(cur, i)].parent = cur
    BY <2>3, <2>5, NodeShape DEF StackInv
  <2>7. IsKid(prog, Kid(cur, i), "while", i)
    BY <2>3, <2>5, <2>6 DEF IsKid, Kind, Kids, Kid
  <2>. QED
    BY <2>5, <2>6, <2>7 DEF UnderWhile, Under
<1>4. CASE ComesBack
  BY <1>4, LeftAfterReturn DEF ComesBack
<1>5. CASE StaysThere
  BY <1>5 DEF StaysThere, Left, OnStack, Node, Kids, Kid
<1>. QED
  BY <1>1, <1>2, <1>3, <1>4, <1>5, InterpSteps

LEMMA NewObjThere ==
    ASSUME EvalInv, NEW a, createValue(a)
    PROVE  NewObj \in DOMAIN Values' /\ NewObj \notin DOMAIN Values /\ Values'[NewObj] = a
<1>1. Values \in Seq(Objects)
  BY DEF EvalInv, HeapOK
<1>2. Values' = Append(Values, a)
  BY DEF createValue
<1>. HIDE DEF Objects
<1>3. DOMAIN Values = 1..Len(Values) /\ Len(Values) \in Nat
  BY <1>1
<1>4. DOMAIN Append(Values, a) = 1..(Len(Values) + 1) /\ Append(Values, a)[Len(Values) + 1] = a
  BY <1>1, <1>3
<1>. QED
  BY <1>2, <1>3, <1>4 DEF NewObj

\* The node on top, and what its visit method reads from the operands it has accepted.
LEMMA TopExpression ==
    ASSUME StackInv, cur # 0, Kind(cur) \in ExpressionKinds
    PROVE  /\ cur \in Node /\ cur \in OnStack /\ cur # 1
           /\ Kind(cur) \notin BlockKinds /\ Home(cur) \in Around(cur) /\ Home(cur) \in Node
           /\ IsBlock(prog, Home(cur))
           /\ \A i \in DOMAIN Kids(cur) : i <= done[cur] =>
                 Kid(cur, i) \in HeldNodes /\ Around(Kid(cur, i)) = Around(cur)
<1>1. cur \in Node /\ cur \in OnStack /\ ProgOK
  BY KidsExist DEF StackInv, StackIsPath
<1>2. Kind(cur) \notin BlockKinds
  BY DEF ExpressionKinds, BlockKinds, Arity
<1>3. cur # 1
  BY <1>1, <1>2, NoRoot DEF BlockKinds
<1>4. Home(cur) \in Around(cur) /\ Home(cur) \in Node
  BY <1>1, <1>3, HomeInnermost
<1>5. IsBlock(prog, Home(cur))
  BY <1>1, <1>4, BlocksAround
<1>6. ASSUME NEW i \in DOMAIN Kids(cur), i <= done[cur]
      PROVE  Kid(cur, i) \in HeldNodes /\ Around(Kid(cur, i)) = Around(cur)
  BY <1>1, <1>2, <1>6, OperandHeld, KidScope DEF Holding
<1>. QED
  BY <1>1, <1>2, <1>3, <1>4, <1>5, <1>6

LEMMA NameFoundAround ==
    ASSUME StackInv, EvalInv, cur # 0, NameDefined
    PROVE  /\ NamedKey \in DOMAIN NameToValue /\ NamedKey[2] \in Around(cur)
           /\ NamedKey = SymTabKey(Name(cur), NamedKey[2])
           /\ Bindable(Values, NameToValue[NamedKey]) /\ NamedKey \in DOMAIN NamesInfo
<1>1. cur \in Node /\ ProgOK
  BY KidsExist DEF StackInv
<1>2. NamedKey \in DOMAIN NameToValue /\ Bindable(Values, NameToValue[NamedKey])
  BY <1>1, NameFound DEF EvalInv, NameDefined, NamedKey
<1>3. /\ getDeclScopeFor(NamesInfo, Name(cur), Scope(cur)) \in Around(cur)
      /\ NamedKey = SymTabKey(Name(cur), getDeclScopeFor(NamesInfo, Name(cur), Scope(cur)))
      /\ NamedKey \in DOMAIN NamesInfo
  BY <1>1, FoundInnermost DEF NameDefined, NamedKey
<1>4. NamedKey[2] = getDeclScopeFor(NamesInfo, Name(cur), Scope(cur))
  BY <1>3 DEF SymTabKey
<1>. QED
  BY <1>2, <1>3, <1>4

\* Where the object comes from that cur refers to after a step.
Fresh   == /\ NewObj \in DOMAIN Values' /\ NewObj \notin DOMAIN Values /\ ret'[cur].obj = NewObj
HandsOn == \E m \in HeldNodes : Around(m) = Around(cur) /\ ret'[cur].obj = ret[m].obj
Recalls == NameDefined /\ ret'[cur] = NameToValue[NamedKey] /\ (RecallsName \/ LooksUp)

LEMMA Supplied ==
    ASSUME StackInv, EvalInv, Supplies
    PROVE  cur # 0 /\ Kind(cur) \in ExpressionKinds /\ (Fresh \/ HandsOn \/ Recalls)
<1>1. cur # 0 /\ Kind(cur) \in ExpressionKinds
  BY ValueKinds DEF Supplies, ReturnsInt, ReturnsOperand, BindsInt, BindsArray, WritesInt, RecallsName,
     MakesPreset, MakesUniform, LooksUp, Indexes
<1>2. /\ cur \in Node /\ cur \in OnStack /\ cur # 1
      /\ \A i \in DOMAIN Kids(cur) : i <= done[cur] =>
            Kid(cur, i) \in HeldNodes /\ Around(Kid(cur, i)) = Around(cur)
  BY <1>1, TopExpression
<1>3. /\ DOMAIN ret = Node /\ done[cur] \in Nat
      /\ \A r : (ret' = [ret EXCEPT ![cur] = r]) => ret'[cur] = r
      /\ \A r : Give(r) => ret'[cur] = r
  <2>1. DOMAIN ret = Node /\ done[cur] \in Nat
    BY <1>1, KidsExist DEF EvalInv, ReturnsRefs
  <2>2. \A r : (ret' = [ret EXCEPT ![cur] = r]) => ret'[cur] = r
    BY <1>2, <2>1
  <2>. QED
    BY <2>1, <2>2 DEF Give
<1>. SUFFICES Fresh \/ HandsOn \/ Recalls
  BY <1>1
<1>4. ASSUME NEW v, GiveInt(v) PROVE Fresh
  <2>1. createValue(IntegerVal(v)) /\ Give(IntRef(NewObj))
    BY <1>4 DEF GiveInt
  <2>2. ret'[cur].obj = NewObj
    BY <1>3, <2>1 DEF IntRef
  <2>. QED
    BY <2>1, <2>2, NewObjThere DEF Fresh
<1>5. ASSUME NEW o, GiveArray(o) PROVE Fresh
  <2>1. createValue(o) /\ Give(ArrayRef(NewObj))
    BY <1>5 DEF GiveArray
  <2>2. ret'[cur].obj = NewObj
    BY <1>3, <2>1 DEF ArrayRef
  <2>. QED
    BY <2>1, <2>2, NewObjThere DEF Fresh
<1>6. ASSUME NEW i \in DOMAIN Kids(cur), i <= done[cur], Give(Arg(i)) PROVE HandsOn
  <2>1. ret'[cur] = ret[Kid(cur, i)]
    BY <1>3, <1>6 DEF Arg
  <2>. QED
    BY <1>2, <1>6, <2>1 DEF HandsOn
<1>7. CASE ReturnsInt \/ BindsInt
  BY <1>4, <1>7 DEF ReturnsInt, BindsInt
<1>8. CASE MakesPreset \/ MakesUniform
  BY <1>5, <1>8 DEF MakesPreset, MakesUniform
<1>9. CASE ReturnsOperand \/ BindsArray \/ WritesInt
  <2>1. PICK i \in {1, 2} : /\ done[cur] = i /\ Give(Arg(i))
                            /\ Kind(cur) \in {"un", "print", "holder", "assign", "accessAssign"}
                            /\ i = 2 => Kind(cur) = "accessAssign"
    <3>1. CASE ReturnsOperand
      BY <3>1 DEF ReturnsOperand
    <3>2. CASE BindsArray
      BY <3>2 DEF BindsArray
    <3>3. CASE WritesInt
      <4>1. \/ Kind(cur) = "assign" /\ done[cur] = 1 /\ Give(Arg(1))
            \/ Kind(cur) = "accessAssign" /\ done[cur] = 2 /\ Give(Arg(2))
        BY <3>3 DEF WritesInt
      <4>. QED
        BY <4>1
    <3>. QED
      BY <1>9, <3>1, <3>2, <3>3
  <2>2. i \in DOMAIN Kids(cur)
    BY <1>2, <2>1, NodeShape DEF StackInv
  <2>. QED
    BY <1>6, <2>1, <2>2
<1>10. CASE RecallsName
  BY <1>3, <1>10 DEF RecallsName, Recalls
<1>11. CASE LooksUp
  BY <1>3, <1>11 DEF LooksUp, Recalls
<1>12. CASE Indexes
  <2>1. PICK c \in Nat : ret' = [ret EXCEPT ![cur] = [obj |-> ret[cur].obj, cell |-> c]]
    BY <1>12 DEF Indexes
  <2>2. ret'[cur].obj = ret[cur].obj
    BY <1>3, <2>1
  <2>3. cur \in HeldNodes
    BY <1>2, <1>12 DEF Indexes, HeldNodes
  <2>. QED
    BY <2>2, <2>3 DEF HandsOn
<1>. QED
  BY <1>1, <1>7, <1>8, <1>9, <1>10, <1>11, <1>12 DEF Supplies

\* The blocks on whose lists an object is after a step.
OwnersNext(o) == { b \in DOMAIN ResourceHandleMap' : o \in ResourceHandleMap'[b] }

LEMMA OwnersAfter ==
    ASSUME StackInv, EvalInv, InterpNext
    PROVE  /\ \A o \in DOMAIN Values : OwnersNext(o) = Owners(o) /\ o \in DOMAIN Values'
           /\ \A o \in DOMAIN Values' \ DOMAIN Values :
                 \/ Values'[o].ty = "int32" /\ OwnersNext(o) = {}
                 \/ Values'[o].ty \in ArrayTypes /\ OwnersNext(o) = {Home(cur)} /\ cur # 0
                    /\ Kind(cur) \in {"preset", "uniform"}
<1>1. ASSUME NEW o \in DOMAIN Values
      PROVE  OwnersNext(o) = Owners(o) /\ o \in DOMAIN Values'
  <2>1. Owners(o)' = Owners(o) /\ o \in DOMAIN Values'
    BY ObjectsKept
  <2>2. Owners(o)' = OwnersNext(o)
    BY DEF Owners, OwnersNext
  <2>. QED
    BY <2>1, <2>2
<1>2. ASSUME NEW o \in DOMAIN Values' \ DOMAIN Values
      PROVE  \/ Values'[o].ty = "int32" /\ OwnersNext(o) = {}
             \/ Values'[o].ty \in ArrayTypes /\ OwnersNext(o) = {Home(cur)} /\ cur # 0
                /\ Kind(cur) \in {"preset", "uniform"}
  <2>1. \/ Values'[o].ty = "int32" /\ Owners(o)' = {}
        \/ Values'[o].ty \in ArrayTypes /\ Owners(o)' = {Home(cur)} /\ cur # 0
           /\ Kind(cur) \in {"preset", "uniform"}
    BY ObjectsNew
  <2>2. Owners(o)' = OwnersNext(o)
    BY DEF Owners, OwnersNext
  <2>. QED
    BY <2>1, <2>2
<1>. QED
  BY <1>1, <1>2

LEMMA OwnersKept ==
    ASSUME StackInv, EvalInv, OwnedOnce, DeadEmpty, InterpNext
    PROVE  OwnedOnce' /\ DeadEmpty'
<1>1. prog' = prog /\ Node' = Node
  BY OthersKeep
<1>2. ASSUME NEW o \in DOMAIN Values', Values'[o].ty \in ArrayTypes
      PROVE  \E b \in Node : IsBlock(prog, b) /\ Owners(o)' = {b}
  <2>1. CASE o \in DOMAIN Values
    <3>1. Owners(o)' = Owners(o) /\ Values[o].ty \in ArrayTypes
      BY <1>2, <2>1, ObjectsKept
    <3>. QED
      BY <2>1, <3>1 DEF OwnedOnce
  <2>2. CASE o \notin DOMAIN Values
    <3>1. Owners(o)' = {Home(cur)} /\ cur # 0 /\ Kind(cur) \in {"preset", "uniform"}
      BY <1>2, <2>2, ObjectsNew DEF ArrayTypes
    <3>2. Home(cur) \in Node /\ IsBlock(prog, Home(cur))
      BY <3>1, TopExpression, ValueKinds
    <3>. QED
      BY <3>1, <3>2
  <2>. QED
    BY <2>1, <2>2
<1>3. OwnedOnce'
  <2>1. \A b : IsBlock(prog, b)' <=> IsBlock(prog, b)
    BY <1>1 DEF IsBlock
  <2>. QED
    BY <1>1, <1>2, <2>1 DEF OwnedOnce
<1>4. ASSUME NEW o \in DOMAIN Values', ~Values'[o].alive
      PROVE  Values'[o].ty \in ArrayTypes /\ Values'[o].cells = <<>> /\ Values'[o].shape = <<0>>
  <2>1. o \in DOMAIN Values
    BY <1>4, ObjectsNew
  <2>2. CASE FreesOwn /\ cur \in Owners(o)
    BY <2>1, <2>2, ObjectsKept, OwnedArrays
  <2>3. CASE ~(FreesOwn /\ cur \in Owners(o))
    <3>1. /\ Values'[o].ty = Values[o].ty /\ ~Values[o].alive
          /\ Values'[o].shape = Values[o].shape /\ (Values[o].cells = <<>> => Values'[o].cells = <<>>)
      BY <1>4, <2>1, <2>3, ObjectsKept
    <3>. QED
      BY <2>1, <3>1 DEF DeadEmpty
  <2>. QED
    BY <2>2, <2>3
<1>. QED
  BY <1>3, <1>4 DEF DeadEmpty

LEMMA NamesOwnedNext ==
    ASSUME StackInv, EvalInv, NamesOwned, HeldOwned, InterpNext
    PROVE  NamesOwned'
<1>1. prog' = prog /\ \A n : Around(n)' = Around(n)
  BY OthersKeep DEF Around, Scope
<1>2. \A k \in DOMAIN NameToValue : NameToValue[k].obj \in DOMAIN Values
  BY DEF EvalInv, NamesBound, Bindable, Good
<1>3. \A k \in DOMAIN NameToValue : OwnersNext(NameToValue[k].obj) = Owners(NameToValue[k].obj)
  BY <1>2, OwnersAfter
<1>. SUFFICES \A k \in DOMAIN NameToValue' :
                 OwnersNext(NameToValue'[k].obj) \subseteq {k[2]} \cup Around(k[2])
  <2>1. NamesOwned' <=> \A k \in DOMAIN NameToValue' :
                           OwnersNext(NameToValue'[k].obj) \subseteq {k[2]} \cup Around(k[2])
    BY <1>1 DEF NamesOwned, Owners, OwnersNext
  <2>. QED
    BY <2>1
<1>4. CASE BindsInt \/ BindsArray
  <2>1. cur # 0 /\ Kind(cur) = "assign" /\ done[cur] = 1
    BY <1>4 DEF BindsInt, BindsArray
  <2>2. /\ Around(cur) = {Home(cur)} \cup Around(Home(cur)) /\ cur \in Node /\ 1 \in DOMAIN Kids(cur)
        /\ Kid(cur, 1) \in HeldNodes /\ Around(Kid(cur, 1)) = Around(cur)
    <3>1. cur \in Node /\ cur # 1 /\ \A i \in DOMAIN Kids(cur) : i <= done[cur] =>
                 Kid(cur, i) \in HeldNodes /\ Around(Kid(cur, i)) = Around(cur)
      BY <2>1, TopExpression, ValueKinds
    <3>2. 1 \in DOMAIN Kids(cur)
      BY <2>1, SecondKid
    <3>3. Around(cur) = {Home(cur)} \cup Around(Home(cur))
      BY <3>1, HomeInnermost DEF StackInv
    <3>. QED
      BY <2>1, <3>1, <3>2, <3>3
  <2>3. PICK r : /\ NameToValue' = Emplace(NameToValue, Key(cur), r)
                 /\ OwnersNext(r.obj) \subseteq Around(cur)
    <3>1. CASE BindsInt
      <4>1. PICK v \in Int32 : GiveInt(v)
        BY <3>1 DEF BindsInt
      <4>2. NewObj \in DOMAIN Values' /\ NewObj \notin DOMAIN Values /\ Values'[NewObj] = IntegerVal(v)
        BY <4>1, NewObjThere DEF GiveInt
      <4>3. Values'[NewObj].ty \notin ArrayTypes
        BY <4>2, IntegersAreNoArrays
      <4>4. OwnersNext(NewObj) = {}
        BY <4>2, <4>3, OwnersAfter
      <4>5. IntRef(NewObj).obj = NewObj
        BY DEF IntRef
      <4>. QED
        BY <3>1, <4>4, <4>5 DEF BindsInt
    <3>2. CASE BindsArray
      <4>1. Owners(Arg(1).obj) \subseteq Around(cur) /\ Arg(1).obj \in DOMAIN Values
        BY <2>2, HeldObjects DEF HeldOwned, Arg
      <4>2. OwnersNext(Arg(1).obj) = Owners(Arg(1).obj)
        BY <4>1, OwnersAfter
      <4>. QED
        BY <3>2, <4>1, <4>2 DEF BindsArray
    <3>. QED
      BY <1>4, <3>1, <3>2
  <2>4. Key(cur)[2] = Home(cur)
    BY DEF Key, SymTabKey
  <2>5. \A k \in DOMAIN NameToValue' :
           OwnersNext(NameToValue'[k].obj) \subseteq {k[2]} \cup Around(k[2])
    BY <1>3, <2>2, <2>3, <2>4 DEF NamesOwned, Emplace
  <2>. QED
    BY <2>5
<1>5. CASE NameToValue' = NameToValue
  BY <1>3, <1>5 DEF NamesOwned
<1>6. BindsInt \/ BindsArray \/ NameToValue' = NameToValue
  BY InterpClasses DEF ReturnsInt, ReturnsOperand, WritesInt, RecallsName, MakesPreset, MakesUniform,
     LooksUp, Indexes, Walks, FreesOwn, Stands, KeepsTables, tableVars
<1>. QED
  BY <1>4, <1>5, <1>6

LEMMA HeldOwnedNext ==
    ASSUME StackInv, EvalInv, NamesOwned, HeldOwned, InterpNext
    PROVE  HeldOwned'
<1>1. prog' = prog /\ \A n : Around(n)' = Around(n)
  BY OthersKeep DEF Around, Scope
<1>. SUFFICES ASSUME NEW m \in HeldNodes'
              PROVE  OwnersNext(ret'[m].obj) \subseteq Around(m)
  <2>1. HeldOwned' <=> \A m \in HeldNodes' : OwnersNext(ret'[m].obj) \subseteq Around(m)
    BY <1>1 DEF HeldOwned, Owners, OwnersNext
  <2>. QED
    BY <2>1
<1>2. \A n \in HeldNodes : OwnersNext(ret[n].obj) = Owners(ret[n].obj)
  BY HeldObjects, OwnersAfter
<1>3. CASE m \in HeldNodes /\ ret'[m] = ret[m]
  BY <1>2, <1>3 DEF HeldOwned
<1>4. CASE m = cur /\ Supplies
  <2>1. cur # 0 /\ Kind(cur) \in ExpressionKinds /\ (Fresh \/ HandsOn \/ Recalls)
    BY <1>4, Supplied
  <2>2. cur \in Node /\ cur # 1 /\ Home(cur) \in Around(cur)
    BY <2>1, TopExpression
  <2>3. CASE Fresh
    BY <1>4, <2>2, <2>3, OwnersAfter DEF Fresh
  <2>4. CASE HandsOn
    <3>1. PICK n \in HeldNodes : Around(n) = Around(cur) /\ ret'[cur].obj = ret[n].obj
      BY <2>4 DEF HandsOn
    <3>. QED
      BY <1>2, <1>4, <3>1 DEF HeldOwned
  <2>5. CASE Recalls
    <3>1. /\ NamedKey \in DOMAIN NameToValue /\ NamedKey[2] \in Around(cur)
          /\ NameToValue[NamedKey].obj \in DOMAIN Values /\ ret'[cur] = NameToValue[NamedKey]
      BY <2>1, <2>5, NameFoundAround DEF Recalls, Bindable, Good
    <3>2. Owners(NameToValue[NamedKey].obj) \subseteq {NamedKey[2]} \cup Around(NamedKey[2])
      BY <3>1 DEF NamesOwned
    <3>3. Around(NamedKey[2]) \subseteq Around(cur)
      BY <2>2, <3>1, OuterAround DEF StackInv
    <3>4. OwnersNext(NameToValue[NamedKey].obj) = Owners(NameToValue[NamedKey].obj)
      BY <3>1, OwnersAfter
    <3>. QED
      BY <1>4, <3>1, <3>2, <3>3, <3>4
  <2>. QED
    BY <2>1, <2>3, <2>4, <2>5
<1>. QED
  BY <1>3, <1>4, HeldStep

\* What a new uniform array is made from.
LEMMA UniformInitial ==
    ASSUME StackInv, EvalInv, MakesUniform
    PROVE  /\ Kid(cur, 1) \in HeldNodes /\ Kid(cur, 2) \in HeldNodes
           /\ NewObj \in DOMAIN Values' /\ NewObj \notin DOMAIN Values
           /\ Values'[NewObj] = UniformArrayVal(Values, Arg(1), IntArg(2))
           /\ Values'[NewObj].initer = Arg(1) /\ Good(Values, Arg(1)) /\ Around(Kid(cur, 1)) = Around(cur)
<1>1. cur # 0 /\ Kind(cur) = "uniform" /\ done[cur] = 2 /\ cur \in Node
  BY KidsExist DEF MakesUniform
<1>2. 1 \in DOMAIN Kids(cur) /\ 2 \in DOMAIN Kids(cur)
  BY <1>1, NodeShape DEF StackInv
<1>3. /\ Kid(cur, 1) \in HeldNodes /\ Kid(cur, 2) \in HeldNodes
      /\ Around(Kid(cur, 1)) = Around(cur)
  BY <1>1, <1>2, TopExpression, ValueKinds
<1>4. Good(Values, Arg(1))
  BY <1>1, <1>2, OperandsReady DEF EvalInv, Holding, ExpressionKinds, Arity
<1>5. createValue(UniformArrayVal(Values, Arg(1), IntArg(2)))
  BY DEF MakesUniform, GiveArray
<1>6. /\ NewObj \in DOMAIN Values' /\ NewObj \notin DOMAIN Values
      /\ Values'[NewObj] = UniformArrayVal(Values, Arg(1), IntArg(2))
  BY <1>5, NewObjThere
<1>7. UniformArrayVal(Values, Arg(1), IntArg(2)).initer = Arg(1)
  BY DEF UniformArrayVal
<1>. QED
  BY <1>3, <1>4, <1>6, <1>7

LEMMA InitersOuterNext ==
    ASSUME StackInv, EvalInv, HeldOwned, InitersOuter, InterpNext
    PROVE  InitersOuter'
<1>. SUFFICES ASSUME NEW o \in DOMAIN Values', Values'[o].ty = "repeat",
                     NEW b \in OwnersNext(o), NEW c \in OwnersNext(Values'[o].initer.obj)
              PROVE  c <= b
  <2>1. InitersOuter' <=>
           \A o \in DOMAIN Values' : Values'[o].ty = "repeat" =>
              \A b \in OwnersNext(o), c \in OwnersNext(Values'[o].initer.obj) : c <= b
    BY DEF InitersOuter, Owners, OwnersNext
  <2>. QED
    BY <2>1
<1>1. CASE o \in DOMAIN Values
  <2>1. Values[o].ty = "repeat" /\ Values'[o].initer = Values[o].initer
    BY <1>1, ObjectsKept
  <2>2. Values[o].initer.obj \in DOMAIN Values
    BY <1>1, <2>1, HeapObjects DEF EvalInv, Sound
  <2>3. b \in Owners(o) /\ c \in Owners(Values[o].initer.obj)
    BY <1>1, <2>1, <2>2, OwnersAfter
  <2>. QED
    BY <1>1, <2>1, <2>3 DEF InitersOuter
<1>2. CASE o \notin DOMAIN Values
  <2>1. o = NewObj /\ MakesUniform /\ b = Home(cur) /\ cur # 0
    BY <1>2, ObjectsNew, OwnersAfter DEF ArrayTypes
  <2>2. Values'[o].initer = Arg(1) /\ Kid(cur, 1) \in HeldNodes /\ Around(Kid(cur, 1)) = Around(cur)
    BY <2>1, UniformInitial
  <2>3. c \in Around(cur)
    <3>1. Arg(1).obj \in DOMAIN Values
      BY <2>2, HeldObjects DEF Arg
    <3>2. c \in Owners(Arg(1).obj)
      BY <2>2, <3>1, OwnersAfter
    <3>. QED
      BY <2>2, <3>2 DEF HeldOwned, Arg
  <2>4. cur \in Node /\ cur # 1
    BY <2>1, TopExpression, ValueKinds DEF MakesUniform
  <2>5. /\ Home(cur) \in Node /\ Around(cur) = {Home(cur)} \cup Around(Home(cur))
        /\ \A a \in Around(Home(cur)) : a < Home(cur)
    BY <2>4, HomeInnermost DEF StackInv
  <2>6. \A n \in Node : n \in Int
    BY Trees DEF StackInv, ProgOK, Node
  <2>7. c = Home(cur) \/ c < Home(cur)
    BY <2>3, <2>5
  <2>8. Home(cur) \in Int /\ c \in Int
    <3>1. c \in Node
      BY <2>3, <2>4, OuterAround DEF StackInv
    <3>. QED
      BY <2>5, <2>6, <3>1
  <2>. QED
    BY <2>1, <2>7, <2>8
<1>. QED
  BY <1>1, <1>2

LEMMA DeadLeftNext ==
    ASSUME StackInv, EvalInv, OwnedOnce, DeadLeft, InterpNext
    PROVE  DeadLeft'
<1>1. prog' = prog /\ Node' = Node /\ cur \in Node
  BY OthersKeep
<1>. SUFFICES ASSUME NEW o \in DOMAIN Values', ~Values'[o].alive, NEW b \in OwnersNext(o)
              PROVE  UnderWhile(prog, b) \/ Left(b)'
  <2>1. DeadLeft' <=>
           \A o \in DOMAIN Values' : ~Values'[o].alive =>
              \A b \in OwnersNext(o) : UnderWhile(prog, b) \/ Left(b)'
    BY <1>1 DEF DeadLeft, Owners, OwnersNext
  <2>. QED
    BY <2>1
<1>2. o \in DOMAIN Values /\ b \in Owners(o)
  BY ObjectsNew, OwnersAfter
<1>3. Owners(o) = {b} /\ b \in Node
  BY <1>2, OwnedArrays DEF OwnedOnce
<1>4. CASE FreesOwn /\ cur \in Owners(o)
  <2>1. b = cur /\ Returns
    BY <1>3, <1>4 DEF FreesOwn, Returns
  <2>. QED
    BY <1>1, <2>1, LeftAfterReturn
<1>5. CASE ~(FreesOwn /\ cur \in Owners(o))
  <2>1. ~Values[o].alive
    BY <1>2, <1>5, ObjectsKept
  <2>2. UnderWhile(prog, b) \/ Left(b)
    BY <1>2, <2>1 DEF DeadLeft
  <2>. QED
    BY <1>3, <2>2, LeftKept
<1>. QED
  BY <1>4, <1>5

LEMMA ReturnsExprNext ==
    ASSUME StackInv, EvalInv, ReturnsExpr, InterpNext
    PROVE  ReturnsExpr'
<1>1. prog' = prog /\ Node' = Node /\ \A n \in Node \ {cur} : ret'[n] = ret[n]
  BY OthersKeep
<1>2. Supplies => Kind(cur) \in ExpressionKinds
  BY Supplied
<1>3. Supplies \/ ret' = ret
  BY InterpClasses DEF Supplies, Walks, FreesOwn, Stands
<1>4. \A n : Kind(n)' = Kind(n)
  BY <1>1 DEF Kind
<1>. QED
  BY <1>1, <1>2, <1>3, <1>4 DEF ReturnsExpr

LEMMA OwnNext ==
    ASSUME StackInv, EvalInv, OwnInv, InterpNext
    PROVE  OwnInv'
BY OwnersKept, NamesOwnedNext, HeldOwnedNext, InitersOuterNext, DeadLeftNext, ReturnsExprNext DEF OwnInv

-----------------------------------------------------------------------------
(***************************************************************************)
(* What the other theorems have established, and what it says of a program *)
(* that is evaluated.                                                      *)
(***************************************************************************)
Established ==
    StackInv /\ PhaseInv /\ DataInv /\ NamesInv /\ FoldInv /\ HeapInv /\ TypesInv

LEMMA EstablishedNext ==
    ASSUME Established, [Next]_vars
    PROVE  Established'
<1>1. StackInv' /\ PhaseInv'
  BY StackNext, PhaseNext DEF Established
<1>2. DataInv' /\ NamesInv'
  BY DataNext, NamesNext DEF Established, PhaseInv
<1>3. FoldInv'
  BY FoldNext DEF Established
<1>4. HeapInv' /\ TypesInv'
  BY HeapNext, TypesInvNext DEF Established
<1>. QED
  BY <1>1, <1>2, <1>3, <1>4 DEF Established

LEMMA EstablishedAtStart ==
    ASSUME Init
    PROVE  Established
<1>1. StackInv /\ PhaseInv /\ NamesInv /\ HeapInv /\ TypesInv
  BY StackAtStart, PhaseAtStart, NamesAtInit, HeapAtStart, TypesInvAtStart
<1>2. DataInv
  BY DEF Init, DataInv
<1>3. FoldInv
  BY DEF Init, FoldInv, Folded, CheckInit, NoResult, Result, IsKnown, Unknown
<1>. QED
  BY <1>1, <1>2, <1>3 DEF Established

LEMMA Ground ==
    ASSUME Established, Evaluating
    PROVE  /\ StackInv /\ ProgOK /\ EvalInv /\ Verdict /\ NamesRun /\ TypesVerdict
           /\ KnownHeld /\ Folded /\ ResultsChecked /\ LiveArraysScoped /\ NamesResolveStatically
<1>1. NamesResolveStatically
  BY NamesResolved DEF Established
<1>. QED
  BY <1>1 DEF Established, Evaluating, StackInv, PhaseInv, DataInv, NamesInv, FoldInv, HeapInv, TypesInv

LEMMA InterpRunning ==
    ASSUME InterpNext
    PROVE  Running /\ cur # 0
BY DEF InterpNext, At, Ready, AcceptOperand, VisitNumber, VisitRead, VisitVariable, VisitUn, VisitCalc,
   VisitLogicLhs, VisitLogicRhs, VisitPrint, VisitAssignment, VisitArrayHolder, VisitPresetArray,
   VisitUniformArray, AccessArray, AccessRank, VisitArrayAccessAssignment, VisitIf, LeaveIf, VisitWhile,
   WhileAgain, VisitStatementBlock

\* Without drifting names the checker has visited every name and every definition, and no
\* definition is skipped.
LEMMA NoDrift ==
    ASSUME ~Drifts, NEW n \in Node, Kind(n) \in {"variable", "access", "assign"}
    PROVE  /\ ~DriftProne(n) /\ ~UnderElse(prog, n)
           /\ \A m \in Definitions(prog, n) : ~Conditional(prog, m) /\ ~UnderElse(prog, m)
BY DEF Drifts, NamingNodes, DriftProne

LEMMA NoDriftAssigns ==
    ASSUME ProgOK, ~Drifts, NEW m \in Assigns
    PROVE  m \in CheckedAssigns /\ ~Conditional(prog, m) /\ ~UnderElse(prog, m)
<1>1. m \in Node /\ Kind(m) = "assign"
  BY DEF Assigns
<1>2. m # 1
  BY <1>1, NoRoot
<1>3. m \in Definitions(prog, m)
  BY <1>1, <1>2, DefinitionsOf
<1>. QED
  BY <1>1, <1>3, NoDrift DEF CheckedAssigns

\* The name a node uses is found where the checker found it.
LEMMA UsesDeclared ==
    ASSUME Established, Evaluating, ~Drifts, Running, cur # 0, done[cur] = 0,
           Kind(cur) \in {"variable", "access"}
    PROVE  NameDefined /\ IsDeclared(cur) /\ NamedKey = DeclaredKey(cur)
<1>1. cur \in Node /\ TypesVerdict /\ NamesResolveStatically /\ ProgOK
  BY Ground, KidsExist
<1>2. ~UnderElse(prog, cur) /\ ~DriftProne(cur)
  BY <1>1, NoDrift
<1>3. Conforms(cur)
  BY <1>1, <1>2 DEF TypesVerdict
<1>4. IsDeclared(cur)
  BY <1>3 DEF Conforms, ConformsTo, Dimensioned
<1>5. NamingPoint
  BY DEF NamingPoint, At
<1>6. BlockFor(NamesInfo, cur) = BlockFor(Declared, cur)
  BY <1>1, <1>2, <1>5 DEF NamesResolveStatically
<1>7. getDeclScopeFor(NamesInfo, Name(cur), Scope(cur)) = getDeclScopeFor(Declared, Name(cur), Scope(cur))
  BY <1>6 DEF BlockFor
<1>. QED
  BY <1>4, <1>7 DEF NameDefined, NamedKey, IsDeclared, DeclaredKey, isDefined, getDeclKeyFor

\* What the checker says of the variable on the left of an assignment.
LEMMA LeftSide ==
    ASSUME Established, Evaluating, ~Drifts, NEW n \in Assigns
    PROVE  /\ n \in Node /\ n # 1 /\ 1 \in DOMAIN Kids(n) /\ 2 \in DOMAIN Kids(n)
           /\ IsDeclared(n) /\ DeclaredKey(n) \in DOMAIN Declared
           /\ DeclaredKey(n) = DeclaredKey(Kid(n, 2)) /\ OperandTy(n, 2) = DeclaredTy(n)
           /\ Conforms(n) /\ ~UnderElse(prog, Kid(n, 1))
<1>1. TypesVerdict /\ ProgOK /\ n \in Node /\ Kind(n) = "assign" /\ ~UnderElse(prog, n)
  BY Ground, NoDriftAssigns DEF Assigns
<1>2. 1 \in DOMAIN Kids(n) /\ 2 \in DOMAIN Kids(n) /\ n # 1
  BY <1>1, NodeShape, NoRoot
<1>3. /\ Kid(n, 2) \in Node /\ Kind(Kid(n, 2)) = "variable" /\ Name(Kid(n, 2)) = Name(n)
      /\ ~UnderElse(prog, Kid(n, 2)) /\ ~UnderElse(prog, Kid(n, 1))
  BY <1>1, <1>2, NodeShape, KidChecked
<1>4. Scope(Kid(n, 2)) = Scope(n)
  BY <1>1, <1>2, KidScope DEF BlockKinds
<1>5. Conforms(Kid(n, 2)) /\ Conforms(n)
  BY <1>1, <1>3 DEF TypesVerdict
<1>6. IsDeclared(Kid(n, 2)) /\ res[Kid(n, 2)].ty = DeclaredTy(Kid(n, 2))
  BY <1>3, <1>5 DEF Conforms, ConformsTo
<1>7. /\ IsDeclared(n) <=> IsDeclared(Kid(n, 2))
      /\ DeclaredKey(n) = DeclaredKey(Kid(n, 2)) /\ DeclaredTy(n) = DeclaredTy(Kid(n, 2))
  BY <1>3, <1>4 DEF IsDeclared, DeclaredKey, DeclaredTy
<1>8. DeclaredKey(n) \in DOMAIN Declared
  BY <1>1, <1>6, <1>7, FoundInnermost DEF IsDeclared, DeclaredKey
<1>. QED
  BY <1>1, <1>2, <1>3, <1>5, <1>6, <1>7, <1>8 DEF OperandTy

\* An assignment defines its name, or finds it defined, where the checker declared it.
LEMMA AssignsDeclared ==
    ASSUME Established, Evaluating, ~Drifts, Running, cur # 0, done[cur] = 1, Kind(cur) = "assign"
    PROVE  /\ cur \in Assigns
           /\ NameDefined => NamedKey = DeclaredKey(cur)
           /\ ~NameDefined => Key(cur) = DeclaredKey(cur)
<1>1. cur \in Node /\ NamesResolveStatically /\ ProgOK /\ StackInv
  BY Ground, KidsExist
<1>2. cur \in Assigns /\ ~DriftProne(cur)
  BY <1>1, NoDrift DEF Assigns
<1>3. IsDeclared(cur)
  BY <1>2, LeftSide
<1>4. NamingPoint
  BY DEF NamingPoint, At
<1>5. BlockFor(NamesInfo, cur) = BlockFor(Declared, cur)
  BY <1>1, <1>2, <1>4 DEF NamesResolveStatically
<1>6. IF NameDefined
      THEN getDeclScopeFor(NamesInfo, Name(cur), Scope(cur)) = getDeclScopeFor(Declared, Name(cur), Scope(cur))
      ELSE Home(cur) = getDeclScopeFor(Declared, Name(cur), Scope(cur))
  BY <1>3, <1>5 DEF BlockFor, NameDefined, IsDeclared, isDefined, Home
<1>. QED
  BY <1>2, <1>6 DEF NamedKey, DeclaredKey, getDeclKeyFor, Key

-----------------------------------------------------------------------------
(***************************************************************************)
(* What names and expressions hold is what the checker took it for, where  *)
(* names do not drift: an array it knows the type of, made in the block    *)
(* its type was made in, of at least the sizes the checker knows, and      *)
(* alive as long as it is in use.                                          *)
(***************************************************************************)
\* The node has returned, and what it returned has the type of the node.
Settled(n) ==
    /\ n \in Node /\ Kind(n) \in ExpressionKinds /\ ~UnderElse(prog, n) /\ ret[n] # Null
    /\ Kind(n) = "access" => n \notin OnStack

\* Something of type t is taken to be r.
HeldAs(r, t) ==
    \/ \E k \in DOMAIN NameToValue : r = NameToValue[k] /\ t = Declared[k]
    \/ \E n \in Node : Settled(n) /\ r = ret[n] /\ t = res[n].ty

\* An array of size 0 has no elements, whose sizes are lost with them.
Fits(o, t) ==
    LET shape == Values[o].shape
    IN  /\ Len(shape) <= Len(Layers(t))
        /\ Len(shape) < Len(Layers(t)) => shape[Len(shape)] = 0
        /\ Values[o].alive => \A j \in DOMAIN shape :
              LET size == arrayTypes[Layers(t)[j]].size IN IsKnown(size) => size[1] <= shape[j]

Agrees(r, t) ==
    /\ TypeOf(Values, r) = RuntimeType(t)
    /\ isArrayTy(t) => Home(t) \in Owners(r.obj) /\ Fits(r.obj, t)

AllAgree == \A r, t : HeldAs(r, t) => Agrees(r, t)

OneType == \A r, t, u : HeldAs(r, t) /\ HeldAs(r, u) /\ r.cell = 0 => t = u

NamesDeclared == DOMAIN NameToValue \subseteq DOMAIN Declared

NamesApart == \A k, l \in DOMAIN NameToValue : NameToValue[k] = NameToValue[l] => k = l

AccessesNamed ==
    \A n \in OnStack : Kind(n) = "access" /\ done[n] > 0 =>
        DeclaredKey(n) \in DOMAIN NameToValue /\ ret[n].obj = NameToValue[DeclaredKey(n)].obj

\* An array is bound and alive until the block of its name is left.
BoundAlive ==
    \A m \in ArrayAssigns : Left(m) /\ Home(m) \in OnStack =>
        Key(m) \in DOMAIN NameToValue /\ Values[NameToValue[Key(m)].obj].alive

HeldAlive == \A m \in HeldNodes : Values[ret[m].obj].alive

ShapeOf(r) == IF r.cell > 0 THEN <<>> ELSE Values[r.obj].shape

\* A uniform array lives no longer than what it is made from, and has its sizes.
InitersAlive ==
    \A o \in DOMAIN Values : Values[o].ty = "repeat" /\ Values[o].alive =>
        LET from == Values[o].initer
            size == Values[o].shape[1]
        IN  /\ Good(Values, from) /\ Values[from.obj].alive
            /\ Values[o].shape = IF size = 0 THEN <<0>> ELSE <<size>> \o ShapeOf(from)

SoundInv ==
    /\ AllAgree /\ OneType /\ NamesDeclared /\ NamesApart /\ AccessesNamed
    /\ BoundAlive /\ HeldAlive /\ InitersAlive

\* What an array that is alive is made from is alive, so that cloning it reads nothing that
\* was destroyed and yields its sizes.
LEMMA ClonesOfAlive ==
    ASSUME HeapOK(Values), InitersAlive, NEW r, Good(Values, r), Values[r.obj].alive, NEW size
    PROVE  CloneOf(Values, r).shape = ShapeOf(r) /\ ~ConstructDangles(Values, r, size)
<1>. DEFINE from(o) == Values[o].initer
<1>1. PICK OfArray, Fill :
          /\ \A o \in DOMAIN Values : /\ OfArray[o] = Copied(Values, o, OfArray[from(o).obj])
                                      /\ Fill[o] = DanglesIn(Values, o, Fill[from(o).obj])
          /\ CloneOf(Values, r) = IF r.cell > 0 THEN CellCopy(Values, r) ELSE OfArray[r.obj]
          /\ ConstructDangles(Values, r, size) = IF r.cell > 0 THEN Dangling(Values, r)
                                                 ELSE size > 0 /\ Fill[r.obj]
  BY CloneRecursion
<1>2. /\ DOMAIN Values = 1..Len(Values) /\ Len(Values) \in Nat
      /\ \A o \in DOMAIN Values : Values[o] \in Objects /\ Sound(Values, o)
  BY HeapObjects
<1>3. ASSUME NEW c, Good(Values, c)
      PROVE  c.cell \in Nat /\ c.obj \in DOMAIN Values /\ (c.cell > 0 => ~Dangling(Values, c))
  BY <1>3 DEF Good, References, Dangling
<1>. DEFINE G == { k \in 0..Len(Values) :
                      k \in DOMAIN Values /\ Values[k].ty \in ArrayTypes /\ Values[k].alive =>
                          OfArray[k].shape = Values[k].shape /\ ~Fill[k] }
<1>4. 0..Len(Values) \subseteq G
  <2>1. ASSUME NEW k \in 0..Len(Values), \A j \in 0..Len(Values) : j < k => j \in G PROVE k \in G
    <3>1. SUFFICES ASSUME k \in DOMAIN Values, Values[k].ty \in ArrayTypes, Values[k].alive
                   PROVE  OfArray[k].shape = Values[k].shape /\ ~Fill[k]
      OBVIOUS
    <3>2. /\ OfArray[k] = Copied(Values, k, OfArray[from(k).obj])
          /\ Fill[k] = DanglesIn(Values, k, Fill[from(k).obj])
      BY <1>1, <3>1
    <3>3. CASE Values[k].ty # "repeat"
      BY <3>2, <3>3 DEF Copied, DanglesIn
    <3>4. CASE Values[k].ty = "repeat"
      <4>. DEFINE n == Values[k].shape[1]
                  c == IF from(k).cell > 0 THEN CellCopy(Values, from(k)) ELSE OfArray[from(k).obj]
      <4>1. /\ Good(Values, from(k)) /\ Values[from(k).obj].alive
            /\ Values[k].shape = IF n = 0 THEN <<0>> ELSE <<n>> \o ShapeOf(from(k))
        BY <3>1, <3>4 DEF InitersAlive
      <4>2. from(k).obj \in 1..(k - 1) /\ (from(k).cell = 0 => Values[from(k).obj].ty \in ArrayTypes)
        BY <1>2, <3>1, <3>4 DEF Sound
      <4>3. from(k).cell \in Nat /\ (from(k).cell > 0 => ~Dangling(Values, from(k)))
        BY <1>3, <4>1
      <4>4. ~(from(k).cell > 0) =>
                OfArray[from(k).obj].shape = Values[from(k).obj].shape /\ ~Fill[from(k).obj]
        <5>1. from(k).obj \in 0..Len(Values) /\ from(k).obj < k /\ from(k).obj \in DOMAIN Values
          BY <1>2, <4>2
        <5>2. from(k).obj \in G
          BY <2>1, <5>1
        <5>. QED
          BY <4>1, <4>2, <4>3, <5>1, <5>2
      <4>5. c.shape = ShapeOf(from(k))
        BY <4>4 DEF ShapeOf, CellCopy
      <4>6. OfArray[k] = Filled(n, c)
        BY <3>2, <3>4 DEF Copied
      <4>7. OfArray[k].shape = IF n = 0 THEN <<0>> ELSE <<n>> \o c.shape
        <5>. HIDE DEF c, n
        <5>. QED
          BY <4>6 DEF Filled
      <4>8. ~Fill[k]
        BY <3>2, <3>4, <4>3, <4>4 DEF DanglesIn
      <4>. HIDE DEF c
      <4>. QED
        BY <4>1, <4>5, <4>7, <4>8
    <3>. QED
      BY <3>3, <3>4
  <2>. HIDE DEF G
  <2>. QED
    BY <1>2, <2>1, FromSmaller
<1>5. CASE r.cell > 0
  BY <1>1, <1>3, <1>5 DEF CellCopy, ShapeOf
<1>6. CASE ~(r.cell > 0)
  <2>1. r.cell = 0 /\ r.obj \in DOMAIN Values /\ Values[r.obj].ty \in ArrayTypes
    BY <1>3, <1>6 DEF Good
  <2>2. r.obj \in 0..Len(Values)
    BY <1>2, <2>1
  <2>3. OfArray[r.obj].shape = Values[r.obj].shape /\ ~Fill[r.obj]
    BY <1>4, <2>1, <2>2
  <2>4. CloneOf(Values, r) = OfArray[r.obj] /\ ShapeOf(r) = Values[r.obj].shape
    BY <1>1, <1>6 DEF ShapeOf
  <2>5. ConstructDangles(Values, r, size) = (size > 0 /\ Fill[r.obj])
    BY <1>1, <1>6
  <2>. QED
    BY <2>3, <2>4, <2>5, Zenon
<1>. QED
  BY <1>5, <1>6

\* All of it together.
Sure == Established /\ Evaluating /\ ~Drifts /\ OwnInv /\ SoundInv

LEMMA SureGround ==
    ASSUME Sure
    PROVE  /\ StackInv /\ ProgOK /\ EvalInv /\ Verdict /\ NamesRun /\ TypesVerdict
           /\ KnownHeld /\ Folded /\ ResultsChecked /\ LiveArraysScoped /\ OwnInv /\ SoundInv
           /\ Established /\ Evaluating /\ ~Drifts /\ HeapOK(Values)
BY Ground DEF Sure, EvalInv

LEMMA RuntimeInt ==
    ASSUME NEW t, isArrayTy(t) => Created(t)
    PROVE  /\ RuntimeType(t) = "int32" <=> ~isArrayTy(t)
           /\ isArrayTy(t) => RuntimeType(t) \in ArrayTypes
BY DEF RuntimeType, isArrayTy, TypeID, Created, ArrayTypes

LEMMA HeldTypes ==
    ASSUME Sure, NEW r, NEW t, HeldAs(r, t)
    PROVE  /\ r.obj \in DOMAIN Values /\ r.cell \in Nat
           /\ isArrayTy(t) => t \in Node /\ Created(t)
           /\ Agrees(r, t)
           /\ TypeOf(Values, r) = "int32" <=> ~isArrayTy(t)
<1>1. EvalInv /\ Verdict /\ SoundInv
  BY SureGround
<1>2. Agrees(r, t)
  BY <1>1 DEF SoundInv, AllAgree
<1>3. /\ r.obj \in DOMAIN Values /\ r.cell \in Nat
      /\ isArrayTy(t) => Created(t)
  <2>1. CASE \E k \in DOMAIN NameToValue : r = NameToValue[k] /\ t = Declared[k]
    <3>1. PICK k \in DOMAIN NameToValue : r = NameToValue[k] /\ t = Declared[k]
      BY <2>1
    <3>2. Good(Values, r)
      BY <1>1, <3>1 DEF EvalInv, NamesBound, Bindable
    <3>3. k \in DOMAIN Declared
      BY <1>1, <3>1 DEF SoundInv, NamesDeclared
    <3>. QED
      BY <1>1, <3>1, <3>2, <3>3 DEF Good, References, Verdict, TypesCreated
  <2>2. CASE \E n \in Node : Settled(n) /\ r = ret[n] /\ t = res[n].ty
    <3>1. PICK n \in Node : Settled(n) /\ r = ret[n] /\ t = res[n].ty
      BY <2>2
    <3>2. ret[n] \in References /\ ret[n].obj \in DOMAIN Values
      BY <1>1, <3>1 DEF EvalInv, ReturnsRefs, Settled
    <3>. QED
      BY <1>1, <3>1, <3>2 DEF References, Verdict, TypesCreated
  <2>. QED
    BY <2>1, <2>2 DEF HeldAs
<1>4. TypeOf(Values, r) = RuntimeType(t)
  BY <1>2 DEF Agrees
<1>5. RuntimeType(t) = "int32" <=> ~isArrayTy(t)
  BY <1>3, RuntimeInt
<1>. QED
  BY <1>2, <1>3, <1>4, <1>5 DEF Created

\* An operand the node on top has accepted has the type the checker gave it.
LEMMA TypedOperand ==
    ASSUME Sure, cur # 0, Holding(cur), ~UnderElse(prog, cur), NEW i \in DOMAIN Kids(cur), i <= done[cur]
    PROVE  /\ HeldAs(Arg(i), OperandTy(cur, i)) /\ Kid(cur, i) \in HeldNodes /\ Kid(cur, i) \in Node
           /\ ~UnderElse(prog, Kid(cur, i)) /\ Kid(cur, i) \notin OnStack
           /\ IsIntArg(i) <=> ~isArrayTy(OperandTy(cur, i))
           /\ IsIntArg(i) <=> Arg(i).cell # 0
           /\ Good(Values, Arg(i)) /\ Values[Arg(i).obj].alive
<1>1. StackInv /\ ProgOK /\ EvalInv /\ SoundInv /\ cur \in Node
  BY SureGround, KidsExist
<1>2. Kid(cur, i) \in HeldNodes /\ Kid(cur, i) \in Node /\ Kind(Kid(cur, i)) \in ExpressionKinds
  BY <1>1, OperandHeld, HeldExpressions
<1>3. Kid(cur, i) \notin OnStack
  <2>1. Kid(cur, i) \in Nat /\ Kid(cur, i) > cur /\ cur \in Nat
    BY <1>1, NodeShape, Trees DEF ProgOK, Node
  <2>. QED
    BY <1>1, <2>1 DEF StackInv, StackIsPath
<1>4. Good(Values, Arg(i)) /\ (IsIntArg(i) <=> Arg(i).cell # 0)
  BY <1>1, OperandsReady DEF EvalInv
<1>5. ret[Kid(cur, i)] # Null
  <2>1. Arg(i).obj \in DOMAIN Values /\ 0 \notin DOMAIN Values
    BY <1>1, <1>4, HeapObjects DEF Good, EvalInv
  <2>. QED
    BY <2>1 DEF Arg, Null
<1>6. ~UnderElse(prog, Kid(cur, i))
  <2>1. Kind(cur) = "if" => i # 3
    <3>1. ASSUME Kind(cur) = "if" PROVE done[cur] = 1
      BY <3>1 DEF Holding, ExpressionKinds, Arity
    <3>. QED
      BY <1>1, <3>1, NodeShape
  <2>. QED
    BY <1>1, <2>1, KidChecked
<1>7. Settled(Kid(cur, i))
  BY <1>2, <1>3, <1>5, <1>6 DEF Settled
<1>8. HeldAs(Arg(i), OperandTy(cur, i))
  BY <1>2, <1>7 DEF HeldAs, Arg, OperandTy
<1>9. IsIntArg(i) <=> ~isArrayTy(OperandTy(cur, i))
  BY <1>8, HeldTypes DEF IsIntArg, IsInt
<1>10. Values[Arg(i).obj].alive
  BY <1>1, <1>2 DEF SoundInv, HeldAlive, Arg
<1>. QED
  BY <1>2, <1>3, <1>4, <1>6, <1>8, <1>9, <1>10

\* An assignment that binds its name does so at the key the checker declared, with what the
\* checker declared it to be.
LEMMA Bindings ==
    ASSUME Sure, InterpNext, BindsInt \/ BindsArray
    PROVE  /\ cur \in Assigns /\ cur # 1 /\ Key(cur) \notin DOMAIN NameToValue
           /\ Key(cur) \in DOMAIN Declared
           /\ BindsInt => ~isArrayTy(Declared[Key(cur)]) /\ ~isArrayTy(OperandTy(cur, 1))
           /\ BindsArray => /\ cur \in ArrayAssigns /\ Declared[Key(cur)] = OperandTy(cur, 1)
                            /\ isArrayTy(OperandTy(cur, 1))
           /\ HeldAs(Arg(1), OperandTy(cur, 1)) /\ Values[Arg(1).obj].alive
<1>1. /\ StackInv /\ EvalInv /\ TypesVerdict /\ Established /\ Evaluating /\ ~Drifts /\ Running
      /\ cur # 0 /\ Kind(cur) = "assign" /\ done[cur] = 1 /\ ~NameDefined
  BY SureGround, InterpRunning DEF BindsInt, BindsArray
<1>2. cur \in Assigns /\ Key(cur) = DeclaredKey(cur)
  BY <1>1, AssignsDeclared
<1>3. /\ cur \in Node /\ cur # 1 /\ 1 \in DOMAIN Kids(cur)
      /\ DeclaredKey(cur) \in DOMAIN Declared /\ OperandTy(cur, 2) = DeclaredTy(cur) /\ Conforms(cur)
  BY <1>1, <1>2, LeftSide
<1>4. cur \in CheckedAssigns /\ ~UnderElse(prog, cur)
  BY <1>1, <1>2, NoDriftAssigns DEF StackInv
<1>5. /\ HeldAs(Arg(1), OperandTy(cur, 1)) /\ (IsIntArg(1) <=> ~isArrayTy(OperandTy(cur, 1)))
      /\ Values[Arg(1).obj].alive
  BY <1>1, <1>3, <1>4, TypedOperand, ValueKinds DEF Holding
<1>6. Key(cur) \notin DOMAIN NameToValue
  <2>1. Key(cur) \notin DOMAIN NamesInfo
    BY <1>1, <1>3, NameNotFound DEF NameDefined, Key, Home
  <2>. QED
    BY <1>1, <2>1 DEF EvalInv, SymbolsCoherent
<1>7. ASSUME BindsInt PROVE ~isArrayTy(Declared[Key(cur)]) /\ ~isArrayTy(OperandTy(cur, 1))
  <2>1. ~isArrayTy(OperandTy(cur, 1))
    BY <1>5, <1>7 DEF BindsInt
  <2>2. TypeID(OperandTy(cur, 1)) = TypeID(OperandTy(cur, 2))
    BY <1>1, <1>3 DEF Conforms, ConformsTo
  <2>3. TypeID(OperandTy(cur, 1)) \in {"int32", "unknown"}
    BY <2>1 DEF TypeID, isArrayTy
  <2>4. SUFFICES ASSUME isArrayTy(OperandTy(cur, 2)) PROVE FALSE
    BY <1>2, <1>3, <2>1 DEF DeclaredTy
  <2>5. Created(OperandTy(cur, 2))
    <3>1. Verdict
      BY SureGround
    <3>. QED
      BY <1>2, <1>3, <2>4, <3>1 DEF DeclaredTy, Verdict, TypesCreated
  <2>. QED
    BY <2>2, <2>3, <2>4, <2>5 DEF TypeID, isArrayTy, Created
<1>8. ASSUME BindsArray
      PROVE  cur \in ArrayAssigns /\ Declared[Key(cur)] = OperandTy(cur, 1) /\ isArrayTy(OperandTy(cur, 1))
  <2>1. isArrayTy(OperandTy(cur, 1))
    BY <1>5, <1>8 DEF BindsArray
  <2>2. cur \in ArrayAssigns
    BY <1>4, <2>1 DEF ArrayAssigns
  <2>. QED
    BY <1>1, <2>1, <2>2 DEF TypesVerdict
<1>. QED
  BY <1>2, <1>3, <1>5, <1>6, <1>7, <1>8

\* What names stand for after a step.
LEMMA NamesAfter ==
    ASSUME Sure, InterpNext, NEW k \in DOMAIN NameToValue'
    PROVE  \/ k \in DOMAIN NameToValue /\ NameToValue'[k] = NameToValue[k]
           \/ BindsInt /\ k = Key(cur) /\ NameToValue'[k] = IntRef(NewObj)
           \/ BindsArray /\ k = Key(cur) /\ NameToValue'[k] = Arg(1)
<1>1. StackInv /\ EvalInv
  BY SureGround
<1>2. CASE BindsInt \/ BindsArray
  BY <1>2 DEF BindsInt, BindsArray, Emplace
<1>3. CASE ~(BindsInt \/ BindsArray)
  <2>1. NameToValue' = NameToValue
    BY <1>1, <1>3, InterpClasses DEF ReturnsInt, ReturnsOperand, WritesInt, RecallsName, MakesPreset,
       MakesUniform, LooksUp, Indexes, Walks, FreesOwn, Stands, KeepsTables, tableVars
  <2>. QED
    BY <2>1
<1>. QED
  BY <1>2, <1>3

\* A name keeps what it stands for.
LEMMA NamesKeep ==
    ASSUME Sure, InterpNext, NEW k \in DOMAIN NameToValue
    PROVE  k \in DOMAIN NameToValue' /\ NameToValue'[k] = NameToValue[k]
<1>1. StackInv /\ EvalInv
  BY SureGround
<1>2. CASE BindsInt \/ BindsArray
  <2>1. Key(cur) \notin DOMAIN NameToValue
    BY <1>2, Bindings
  <2>2. \E v : NameToValue' = Emplace(NameToValue, Key(cur), v)
    BY <1>2 DEF BindsInt, BindsArray
  <2>. QED
    BY <2>1, <2>2 DEF Emplace
<1>3. CASE ~(BindsInt \/ BindsArray)
  BY <1>1, <1>3, InterpClasses DEF ReturnsInt, ReturnsOperand, WritesInt, RecallsName, MakesPreset,
     MakesUniform, LooksUp, Indexes, Walks, FreesOwn, Stands, KeepsTables, tableVars
<1>. QED
  BY <1>2, <1>3

\* The step has made an array, of the type the checker named after the node.
NewArray(r, t) == r = ArrayRef(NewObj) /\ t = cur /\ (MakesPreset \/ MakesUniform)

SettledNext(n) ==
    /\ n \in Node /\ Kind(n) \in ExpressionKinds /\ ~UnderElse(prog, n) /\ ret'[n] # Null
    /\ Kind(n) = "access" => n \notin OnStack'

\* What the node on top has returned.
LEMMA TopAfter ==
    ASSUME Sure, InterpNext, SettledNext(cur)
    PROVE  \/ HeldAs(ret'[cur], res[cur].ty)
           \/ ret'[cur].cell > 0 /\ ~isArrayTy(res[cur].ty)
           \/ NewArray(ret'[cur], res[cur].ty)
<1>1. /\ StackInv /\ EvalInv /\ TypesVerdict /\ ProgOK /\ SoundInv /\ Established /\ Evaluating /\ ~Drifts
      /\ Running /\ cur # 0
  BY SureGround, InterpRunning
<1>2. /\ cur \in Node /\ cur \in OnStack /\ Kind(cur) \in ExpressionKinds /\ ~UnderElse(prog, cur)
      /\ Kind(cur) \notin BlockKinds
  BY <1>1, TopExpression DEF SettledNext
<1>3. Conforms(cur)
  BY <1>1, <1>2 DEF TypesVerdict
<1>4. /\ DOMAIN ret = Node /\ done[cur] \in Nat
      /\ \A r : (ret' = [ret EXCEPT ![cur] = r]) => ret'[cur] = r
      /\ \A r : Give(r) => ret'[cur] = r
  <2>1. DOMAIN ret = Node /\ done[cur] \in Nat
    BY <1>1, KidsExist DEF EvalInv, ReturnsRefs
  <2>2. \A r : (ret' = [ret EXCEPT ![cur] = r]) => ret'[cur] = r
    BY <1>2, <2>1
  <2>. QED
    BY <2>1, <2>2 DEF Give
<1>5. \A i \in DOMAIN Kids(cur) : i <= done[cur] =>
          /\ HeldAs(Arg(i), OperandTy(cur, i))
          /\ IsIntArg(i) <=> ~isArrayTy(OperandTy(cur, i))
          /\ IsIntArg(i) <=> Arg(i).cell # 0
          /\ Arg(i).cell \in Nat
  BY <1>1, <1>2, TypedOperand DEF Holding, Good, References
<1>6. ~isArrayTy(IntTy) /\ ~isArrayTy(NoTy)
  BY DEF isArrayTy, IntTy, NoTy
<1>7. CASE ReturnsInt
  <2>1. ret'[cur].cell = 1
    BY <1>4, <1>7 DEF ReturnsInt, GiveInt, IntRef
  <2>2. res[cur].ty = IntTy
    BY <1>3, <1>7 DEF ReturnsInt, Conforms, ConformsTo
  <2>. QED
    BY <1>6, <2>1, <2>2
<1>8. CASE ReturnsOperand
  <2>1. done[cur] = 1 /\ ret'[cur] = Arg(1) /\ Kind(cur) \in {"un", "print", "holder"} /\ 1 \in DOMAIN Kids(cur)
    BY <1>1, <1>2, <1>4, <1>8, NodeShape DEF ReturnsOperand
  <2>2. CASE Kind(cur) = "un"
    <3>1. IsIntArg(1)
      BY <1>8, <2>2 DEF ReturnsOperand
    <3>2. res[cur].ty = IntTy
      BY <1>3, <2>2 DEF Conforms, ConformsTo
    <3>. QED
      BY <1>5, <1>6, <2>1, <3>1, <3>2
  <2>3. CASE Kind(cur) \in {"print", "holder"}
    <3>1. res[cur].ty = OperandTy(cur, 1)
      BY <1>3, <2>3 DEF Conforms, ConformsTo
    <3>. QED
      BY <1>5, <2>1, <3>1
  <2>. QED
    BY <2>1, <2>2, <2>3
<1>9. CASE BindsInt \/ BindsArray
  <2>1. /\ ~isArrayTy(OperandTy(cur, 1)) \/ BindsArray
        /\ HeldAs(Arg(1), OperandTy(cur, 1))
    BY <1>9, Bindings
  <2>2. Kind(cur) = "assign"
    BY <1>9 DEF BindsInt, BindsArray
  <2>3. res[cur].ty = OperandTy(cur, 1)
    BY <1>3, <2>2 DEF Conforms, ConformsTo
  <2>4. CASE BindsInt
    <3>1. ret'[cur].cell = 1 /\ ~isArrayTy(OperandTy(cur, 1))
      BY <1>4, <2>4, Bindings DEF BindsInt, GiveInt, IntRef
    <3>. QED
      BY <2>3, <3>1
  <2>5. CASE BindsArray
    <3>1. ret'[cur] = Arg(1)
      BY <1>4, <2>5 DEF BindsArray
    <3>. QED
      BY <2>1, <2>3, <3>1
  <2>. QED
    BY <1>9, <2>4, <2>5
<1>10. CASE WritesInt
  <2>1. \/ Kind(cur) = "assign" /\ done[cur] = 1 /\ Give(Arg(1))
        \/ Kind(cur) = "accessAssign" /\ done[cur] = 2 /\ IsIntArg(2) /\ Give(Arg(2))
    BY <1>10 DEF WritesInt
  <2>2. CASE Kind(cur) = "assign" /\ done[cur] = 1 /\ Give(Arg(1))
    <3>1. res[cur].ty = OperandTy(cur, 1) /\ 1 \in DOMAIN Kids(cur)
      BY <1>1, <1>2, <1>3, <2>2, NodeShape DEF Conforms, ConformsTo
    <3>. QED
      BY <1>4, <1>5, <2>2, <3>1
  <2>3. CASE Kind(cur) = "accessAssign" /\ done[cur] = 2 /\ IsIntArg(2) /\ Give(Arg(2))
    <3>1. res[cur].ty = NoTy /\ 2 \in DOMAIN Kids(cur)
      BY <1>1, <1>2, <1>3, <2>3, NodeShape DEF Conforms, ConformsTo
    <3>. QED
      BY <1>4, <1>5, <1>6, <2>3, <3>1
  <2>. QED
    BY <2>1, <2>2, <2>3
<1>11. CASE RecallsName
  <2>1. Kind(cur) = "variable" /\ done[cur] = 0 /\ ret'[cur] = NameToValue[NamedKey]
    BY <1>4, <1>11 DEF RecallsName
  <2>2. NameDefined /\ NamedKey = DeclaredKey(cur)
    BY <1>1, <2>1, UsesDeclared
  <2>3. NamedKey \in DOMAIN NameToValue
    BY <1>1, <2>2, NameFoundAround
  <2>4. res[cur].ty = Declared[NamedKey]
    BY <1>3, <2>1, <2>2 DEF Conforms, ConformsTo, DeclaredTy
  <2>. QED
    BY <2>1, <2>3, <2>4 DEF HeldAs
<1>12. CASE MakesPreset \/ MakesUniform
  <2>1. Give(ArrayRef(NewObj)) /\ Kind(cur) \in {"preset", "uniform"}
    BY <1>12 DEF MakesPreset, MakesUniform, GiveArray
  <2>2. ret'[cur] = ArrayRef(NewObj)
    BY <1>4, <2>1
  <2>3. res[cur].ty = cur
    BY <1>3, <2>1 DEF Conforms, ConformsTo
  <2>. QED
    BY <1>12, <2>2, <2>3 DEF NewArray
<1>13. CASE LooksUp
  <2>1. cur \in OnStack' /\ Kind(cur) = "access"
    BY <1>1, <1>2, <1>13, AcceptStack DEF LooksUp
  <2>. QED
    BY <2>1 DEF SettledNext
<1>14. CASE Indexes
  <2>1. Kind(cur) = "access"
    BY <1>14 DEF Indexes
  <2>2. ~(done[cur] + 1 \in DOMAIN Kids(cur) /\ Accept(done[cur] + 1))
    <3>1. SUFFICES ASSUME done[cur] + 1 \in DOMAIN Kids(cur), Accept(done[cur] + 1) PROVE FALSE
      OBVIOUS
    <3>2. cur \in OnStack'
      BY <1>1, <1>2, <3>1, AcceptStack
    <3>. QED
      BY <2>1, <3>2 DEF SettledNext
  <2>3. ret'[cur].cell # 0
    BY <1>14, <2>2 DEF Indexes
  <2>4. ret'[cur].cell \in Nat
    <3>1. PICK c \in Nat : ret' = [ret EXCEPT ![cur] = [obj |-> ret[cur].obj, cell |-> c]]
      BY <1>14 DEF Indexes
    <3>. QED
      BY <1>4, <3>1
  <2>5. res[cur].ty = IntTy
    BY <1>3, <2>1 DEF Conforms, ConformsTo
  <2>. QED
    BY <1>6, <2>3, <2>4, <2>5
<1>15. CASE Walks
  <2>1. Kind(cur) # "access" /\ ret' = ret
    BY <1>2, <1>15 DEF Walks, ExpressionKinds, Arity
  <2>2. Settled(cur)
    BY <1>2, <2>1 DEF Settled, SettledNext
  <2>. QED
    BY <1>2, <2>1, <2>2 DEF HeldAs
<1>16. CASE FreesOwn
  BY <1>2, <1>16 DEF FreesOwn
<1>17. CASE Stands
  <2>1. ret' = ret /\ OnStack' = OnStack
    BY <1>17 DEF Stands, OnStack, Node
  <2>2. Settled(cur)
    BY <1>2, <2>1 DEF Settled, SettledNext
  <2>. QED
    BY <1>2, <2>1, <2>2 DEF HeldAs
<1>. QED
  BY <1>1, <1>7, <1>8, <1>9, <1>10, <1>11, <1>12, <1>13, <1>14, <1>15, <1>16, <1>17, InterpClasses

LEMMA HeldAfter ==
    ASSUME Sure, InterpNext, UNCHANGED checkVars, NEW r, NEW t, HeldAs(r, t)'
    PROVE  HeldAs(r, t) \/ (r.cell > 0 /\ ~isArrayTy(t)) \/ NewArray(r, t)
<1>1. StackInv /\ EvalInv /\ SoundInv
  BY SureGround
<1>2. /\ prog' = prog /\ Node' = Node /\ cur # 0 /\ cur \in Node /\ cur \in OnStack
      /\ OnStack \ {cur} \subseteq OnStack'
      /\ \A n \in Node \ {cur} : ret'[n] = ret[n]
  BY <1>1, OthersKeep
<1>3. res' = res /\ Declared' = Declared
  BY DEF checkVars
<1>4. CASE \E k \in DOMAIN NameToValue' : r = NameToValue'[k] /\ t = Declared[k]
  <2>1. PICK k \in DOMAIN NameToValue' : r = NameToValue'[k] /\ t = Declared[k]
    BY <1>4
  <2>2. CASE k \in DOMAIN NameToValue /\ NameToValue'[k] = NameToValue[k]
    BY <2>1, <2>2 DEF HeldAs
  <2>3. CASE BindsInt /\ k = Key(cur) /\ NameToValue'[k] = IntRef(NewObj)
    BY <2>1, <2>3, Bindings DEF IntRef
  <2>4. CASE BindsArray /\ k = Key(cur) /\ NameToValue'[k] = Arg(1)
    BY <2>1, <2>4, Bindings
  <2>. QED
    BY <2>1, <2>2, <2>3, <2>4, NamesAfter
<1>5. CASE \E n \in Node : SettledNext(n) /\ r = ret'[n] /\ t = res[n].ty
  <2>1. PICK n \in Node : SettledNext(n) /\ r = ret'[n] /\ t = res[n].ty
    BY <1>5
  <2>2. CASE n # cur
    <3>1. ret'[n] = ret[n] /\ (n \in OnStack => n \in OnStack')
      BY <1>2, <2>2
    <3>2. Settled(n)
      BY <2>1, <3>1 DEF Settled, SettledNext
    <3>. QED
      BY <2>1, <3>1, <3>2 DEF HeldAs
  <2>3. CASE n = cur
    BY <2>1, <2>3, TopAfter
  <2>. QED
    BY <2>2, <2>3
<1>6. \A n \in Node : Settled(n)' <=> SettledNext(n)
  BY <1>2 DEF Settled, SettledNext, Kind
<1>. QED
  BY <1>2, <1>3, <1>4, <1>5, <1>6 DEF HeldAs

-----------------------------------------------------------------------------
(***************************************************************************)
(* What was held to be of a type goes on being so.                         *)
(***************************************************************************)
LEMMA TypesStay ==
    ASSUME UNCHANGED <<prog>>, UNCHANGED checkVars
    PROVE  /\ \A t : Layers(t)' = Layers(t) /\ RuntimeType(t)' = RuntimeType(t) /\ Home(t)' = Home(t)
           /\ arrayTypes' = arrayTypes /\ Declared' = Declared /\ res' = res /\ Node' = Node
BY DEF checkVars, Layers, RuntimeType, TypeID, Kind, Home, Scope, Node

LEMMA InterpProg ==
    ASSUME Sure, InterpNext
    PROVE  /\ prog' = prog /\ Node' = Node /\ cur # 0 /\ cur \in Node /\ cur \in OnStack
           /\ OnStack \ {cur} \subseteq OnStack' /\ Values \in Seq(Objects)
           /\ \A o \in DOMAIN Values : Values[o] \in Objects /\ Sound(Values, o) /\ o # NewObj
BY SureGround, OthersKeep, HeapObjects, ObjectsKept DEF EvalInv, HeapOK

LEMMA AgreesKept ==
    ASSUME Sure, InterpNext, UNCHANGED checkVars, NEW r, NEW t, HeldAs(r, t)
    PROVE  Agrees(r, t)'
<1>1. StackInv /\ ProgOK /\ EvalInv /\ Verdict
  BY SureGround
<1>2. /\ r.obj \in DOMAIN Values /\ r.cell \in Nat /\ (isArrayTy(t) => t \in Node /\ Created(t)) /\ Agrees(r, t)
  BY HeldTypes
<1>3. UNCHANGED <<prog>>
  BY InterpProg
<1>4. /\ Layers(t)' = Layers(t) /\ RuntimeType(t)' = RuntimeType(t) /\ Home(t)' = Home(t)
      /\ arrayTypes' = arrayTypes
  BY <1>3, TypesStay
<1>5. /\ Values'[r.obj].ty = Values[r.obj].ty /\ Owners(r.obj)' = Owners(r.obj)
      /\ IF FreesOwn /\ cur \in Owners(r.obj)
         THEN ~Values'[r.obj].alive /\ Values'[r.obj].shape = <<0>>
         ELSE /\ Values'[r.obj].alive = Values[r.obj].alive /\ Values'[r.obj].shape = Values[r.obj].shape
  BY <1>1, <1>2, ObjectsKept
<1>6. TypeOf(Values', r) = TypeOf(Values, r)
  BY <1>5 DEF TypeOf
<1>7. ASSUME isArrayTy(t) PROVE Home(t) \in Owners(r.obj)' /\ Fits(r.obj, t)'
  <2>1. Home(t) \in Owners(r.obj) /\ Fits(r.obj, t)
    BY <1>2, <1>7 DEF Agrees
  <2>2. Layers(t) \in Seq(Node) /\ Len(Layers(t)) >= 1
    BY <1>1, <1>2, <1>7, LayersOf DEF Verdict
  <2>3. CASE FreesOwn /\ cur \in Owners(r.obj)
    <3>1. ~Values'[r.obj].alive /\ Values'[r.obj].shape = <<0>>
      BY <1>5, <2>3
    <3>2. Len(<<0>>) = 1 /\ <<0>>[1] = 0 /\ Len(Layers(t)) \in Nat
      BY <2>2
    <3>3. Len(Values'[r.obj].shape) <= Len(Layers(t))'
      BY <1>4, <2>2, <3>1, <3>2
    <3>4. Values'[r.obj].shape[Len(Values'[r.obj].shape)] = 0
      BY <3>1, <3>2
    <3>. QED
      BY <1>5, <2>1, <3>1, <3>3, <3>4 DEF Fits
  <2>4. CASE ~(FreesOwn /\ cur \in Owners(r.obj))
    BY <1>4, <1>5, <2>1, <2>4 DEF Fits
  <2>. QED
    BY <2>3, <2>4
<1>8. isArrayTy(t)' = isArrayTy(t)
  BY DEF isArrayTy
<1>9. TypeOf(Values, r) = RuntimeType(t)
  BY <1>2 DEF Agrees
<1>. QED
  BY <1>4, <1>6, <1>7, <1>8, <1>9 DEF Agrees

\* The array that the step has made is of the type of the node, which the checker has visited.
LEMMA NewArrayChecked ==
    ASSUME Sure, InterpNext, UNCHANGED checkVars, NEW r, NEW t, HeldAs(r, t)', NewArray(r, t)
    PROVE  /\ t = cur /\ r.obj = NewObj /\ r.cell = 0 /\ Created(cur) /\ ~UnderElse(prog, cur) /\ Conforms(cur)
           /\ NewObj \in DOMAIN Values' /\ NewObj \notin DOMAIN Values
           /\ Home(cur) \in OwnersNext(NewObj) /\ Values'[NewObj].alive
<1>1. StackInv /\ ProgOK /\ EvalInv /\ Verdict /\ SoundInv /\ TypesVerdict /\ ResultsChecked
  BY SureGround
<1>2. /\ prog' = prog /\ Node' = Node /\ cur \in Node /\ cur # 0
      /\ res' = res /\ Declared' = Declared
  BY InterpProg DEF checkVars
<1>3. /\ t = cur /\ r = ArrayRef(NewObj) /\ r.obj = NewObj /\ r.cell = 0
      /\ Kind(cur) \in {"preset", "uniform"}
      /\ \E o : GiveArray(o)
  BY DEF NewArray, ArrayRef, MakesPreset, MakesUniform
<1>4. NewObj \in DOMAIN Values' /\ NewObj \notin DOMAIN Values
  BY <1>1, <1>3, NewObjThere DEF GiveArray
<1>5. isArrayTy(cur)
  BY <1>1, <1>2, Trees DEF isArrayTy, ProgOK, Node
<1>6. Created(cur)
  <2>1. CASE \E k \in DOMAIN NameToValue' : r = NameToValue'[k] /\ t = Declared[k]
    <3>1. PICK k \in DOMAIN NameToValue' : r = NameToValue'[k] /\ t = Declared[k]
      BY <2>1
    <3>2. k \in DOMAIN Declared
      <4>1. CASE k \in DOMAIN NameToValue
        BY <1>1, <4>1 DEF SoundInv, NamesDeclared
      <4>2. CASE k = Key(cur) /\ (BindsInt \/ BindsArray)
        BY <4>2, Bindings
      <4>. QED
        BY <4>1, <4>2, NamesAfter
    <3>. QED
      BY <1>1, <1>3, <1>5, <3>1, <3>2 DEF Verdict, TypesCreated
  <2>2. CASE \E n \in Node : t = res[n].ty
    BY <1>1, <1>3, <1>5, <2>2 DEF Verdict, TypesCreated
  <2>. QED
    BY <1>2, <2>1, <2>2 DEF HeldAs
<1>7. ~UnderElse(prog, cur)
  <2>1. res[cur] # NoResult
    BY <1>2, <1>5, <1>6 DEF Created, NoResult, Result, NoTy, isArrayTy
  <2>. QED
    BY <1>1, <1>2, <2>1 DEF ResultsChecked
<1>8. Conforms(cur)
  BY <1>1, <1>2, <1>7 DEF TypesVerdict
<1>9. Values'[NewObj].alive /\ Home(cur) \in OwnersNext(NewObj)
  <2>1. Values'[NewObj].ty # "int32"
    <3>1. CASE MakesPreset
      <4>. DEFINE a == PresetArrayVal(Values, [i \in DOMAIN Kids(cur) |-> Arg(i)])
      <4>1. createValue(a) /\ a.ty = "array"
        BY <3>1 DEF MakesPreset, GiveArray, PresetArrayVal
      <4>. HIDE DEF a
      <4>. QED
        BY <1>1, <4>1, NewObjThere
    <3>2. CASE MakesUniform
      <4>. DEFINE a == UniformArrayVal(Values, Arg(1), IntArg(2))
      <4>1. createValue(a) /\ a.ty = "repeat"
        BY <3>2 DEF MakesUniform, GiveArray, UniformArrayVal
      <4>. HIDE DEF a
      <4>. QED
        BY <1>1, <4>1, NewObjThere
    <3>. QED
      BY <3>1, <3>2 DEF NewArray
  <2>2. PICK o \in DOMAIN Values' \ DOMAIN Values : o = NewObj
    BY <1>4
  <2>3. Values'[o].ty # "int32" /\ Values'[o].alive
    BY <1>1, <2>1, <2>2, ObjectsNew
  <2>4. OwnersNext(o) = {Home(cur)}
    BY <1>1, <2>3, OwnersAfter
  <2>. QED
    BY <2>2, <2>3, <2>4
<1>. QED
  BY <1>3, <1>4, <1>6, <1>7, <1>8, <1>9

\* A uniform array has the sizes the checker knows, of itself and of what it repeats.
LEMMA FitsUniform ==
    ASSUME Sure, InterpNext, MakesUniform, Created(cur), ~UnderElse(prog, cur), Conforms(cur),
           NEW shape, shape = Values'[NewObj].shape
    PROVE  /\ Values'[NewObj].ty = "repeat"
           /\ Len(shape) <= Len(Layers(cur))
           /\ Len(shape) < Len(Layers(cur)) => shape[Len(shape)] = 0
           /\ \A j \in DOMAIN shape :
                 LET size == arrayTypes[Layers(cur)[j]].size IN IsKnown(size) => size[1] <= shape[j]
<1>1. StackInv /\ ProgOK /\ EvalInv /\ Verdict /\ SoundInv /\ KnownHeld
  BY SureGround
<1>2. /\ cur # 0 /\ cur \in Node /\ Kind(cur) = "uniform" /\ done[cur] = 2 /\ Kind(cur) \in ExpressionKinds
      /\ 1 \in DOMAIN Kids(cur) /\ 2 \in DOMAIN Kids(cur) /\ Len(Kids(cur)) = 2
      /\ IntArg(2) >= 0 /\ IntArg(2) \in Int32 /\ Int32 \subseteq Int
  <2>1. cur \in Node /\ Kind(cur) = "uniform" /\ done[cur] = 2 /\ Kind(cur) \in ExpressionKinds /\ cur # 0
    BY InterpProg, ValueKinds DEF MakesUniform
  <2>2. 1 \in DOMAIN Kids(cur) /\ 2 \in DOMAIN Kids(cur) /\ Len(Kids(cur)) = 2
    BY <1>1, <2>1, NodeShape
  <2>. QED
    BY <1>1, <2>1, <2>2, Operand, Width DEF MakesUniform
<1>. DEFINE ct == OperandTy(cur, 1)
            size == IntArg(2)
            known == arrayTypes[cur].size
<1>3. /\ HeldAs(Arg(1), ct) /\ Good(Values, Arg(1)) /\ Values[Arg(1).obj].alive
      /\ IsIntArg(1) <=> ~isArrayTy(ct)
      /\ IsIntArg(1) <=> Arg(1).cell # 0
  BY <1>1, <1>2, TypedOperand DEF Holding
<1>4. Values'[NewObj].ty = "repeat" /\ shape = IF size = 0 THEN <<0>> ELSE <<size>> \o ShapeOf(Arg(1))
  <2>1. Values'[NewObj] = UniformArrayVal(Values, Arg(1), size)
    BY <1>1, UniformInitial
  <2>2. CloneOf(Values, Arg(1)).shape = ShapeOf(Arg(1))
    BY <1>1, <1>3, ClonesOfAlive DEF SoundInv, EvalInv
  <2>. QED
    BY <2>1, <2>2 DEF UniformArrayVal, Filled
<1>5. IsKnown(known) => known[1] <= size
  <2>1. SUFFICES ASSUME IsKnown(known) PROVE known[1] <= size
    OBVIOUS
  <2>2. IsKnown(OperandVal(cur, 2)) /\ known = Known(Unsigned(OperandVal(cur, 2)[1]))
    BY <1>2, <2>1 DEF Conforms, ConformsTo
  <2>3. size = OperandVal(cur, 2)[1]
    BY <1>1, <1>2, <2>2, KnownOperand DEF OperandVal
  <2>4. Unsigned(size) = size
    BY <1>2, UnsignedInWord, Width DEF Int32
  <2>. QED
    BY <1>2, <2>2, <2>3, <2>4, Width DEF Known
<1>6. arrayTypes[cur].contained = ct
  BY <1>2 DEF Conforms, ConformsTo
<1>7. Layers(cur)[1] = cur /\ Layers(cur) \in Seq(Node) /\ Len(Layers(cur)) >= 1
  BY <1>1, <1>2, LayersOf DEF Verdict
<1>8. CASE size = 0
  <2>1. shape = <<0>> /\ Len(shape) = 1 /\ DOMAIN shape = {1} /\ shape[1] = 0
    BY <1>4, <1>8
  <2>2. Len(shape) <= Len(Layers(cur))
    BY <1>7, <2>1
  <2>. QED
    BY <1>4, <1>5, <1>7, <1>8, <2>1, <2>2
<1>9. CASE size # 0 /\ ~isArrayTy(ct)
  <2>1. ShapeOf(Arg(1)) = <<>>
    BY <1>3, <1>9 DEF ShapeOf, Good, References
  <2>2. shape = <<size>> /\ Len(shape) = 1 /\ DOMAIN shape = {1} /\ shape[1] = size
    <3>1. shape = <<size>> \o <<>>
      BY <1>4, <1>9, <2>1
    <3>. HIDE DEF size
    <3>. QED
      BY <3>1
  <2>3. Layers(cur) = <<cur>> /\ Len(<<cur>>) = 1
    BY <1>1, <1>2, <1>6, <1>9, LayersOf DEF Verdict
  <2>. QED
    BY <1>4, <1>5, <1>7, <2>2, <2>3
<1>10. CASE size # 0 /\ isArrayTy(ct)
  <2>. DEFINE s == Values[Arg(1).obj].shape
              L == Layers(ct)
  <2>1. ct \in Node /\ Created(ct) /\ Agrees(Arg(1), ct)
    BY <1>3, <1>10, HeldTypes
  <2>2. Fits(Arg(1).obj, ct)
    BY <1>10, <2>1 DEF Agrees
  <2>3. ShapeOf(Arg(1)) = s
    BY <1>3, <1>10 DEF ShapeOf, Good, References
  <2>4. L \in Seq(Node) /\ Layers(cur) = <<cur>> \o L
    BY <1>1, <1>2, <1>6, <1>10, <2>1, LayersOf DEF Verdict
  <2>5. s \in Seq(Nat) /\ Len(s) >= 1
    <3>1. Arg(1).obj \in DOMAIN Values /\ Values[Arg(1).obj].ty \in ArrayTypes
      BY <1>3, <1>10 DEF Good
    <3>. QED
      BY <3>1, InterpProg DEF Objects, Sound, ArrayTypes
  <2>6. /\ Len(s) <= Len(L)
        /\ Len(s) < Len(L) => s[Len(s)] = 0
        /\ \A j \in DOMAIN s : IsKnown(arrayTypes[L[j]].size) => arrayTypes[L[j]].size[1] <= s[j]
    BY <1>3, <2>2 DEF Fits
  <2>7. shape = <<size>> \o s
    BY <1>4, <1>10, <2>3
  <2>. HIDE DEF s, L
  <2>8. /\ Len(shape) = Len(s) + 1 /\ Len(Layers(cur)) = Len(L) + 1 /\ DOMAIN shape = 1..(Len(s) + 1)
        /\ shape[1] = size /\ DOMAIN s = 1..Len(s) /\ DOMAIN L = 1..Len(L) /\ Len(s) \in Nat /\ Len(L) \in Nat
        /\ \A j \in 1..Len(s) : shape[j + 1] = s[j]
        /\ \A j \in 1..Len(L) : Layers(cur)[j + 1] = L[j]
    BY <1>2, <2>4, <2>5, <2>7
  <2>9. shape[Len(shape)] = s[Len(s)]
    BY <2>5, <2>8
  <2>10. ASSUME NEW j \in DOMAIN shape, IsKnown(arrayTypes[Layers(cur)[j]].size)
         PROVE  arrayTypes[Layers(cur)[j]].size[1] <= shape[j]
    <3>1. CASE j = 1
      BY <1>5, <1>7, <2>8, <2>10, <3>1
    <3>2. CASE j # 1
      <4>1. j - 1 \in 1..Len(s) /\ j - 1 \in 1..Len(L) /\ j = (j - 1) + 1
        <5>1. j \in 1..(Len(s) + 1) /\ Len(s) \in Nat /\ Len(L) \in Nat /\ Len(s) <= Len(L)
          BY <2>6, <2>8
        <5>. QED
          BY <3>2, <5>1
      <4>2. shape[j] = s[j - 1] /\ Layers(cur)[j] = L[j - 1]
        BY <2>8, <4>1
      <4>. QED
        BY <2>6, <2>8, <2>10, <4>1, <4>2
    <3>. QED
      BY <3>1, <3>2
  <2>. QED
    BY <1>4, <2>6, <2>8, <2>9, <2>10
<1>. QED
  BY <1>8, <1>9, <1>10

LEMMA Remainders == \A a \in Nat, w \in Nat \ {0} : a % w <= a
<1>1. SUFFICES ASSUME NEW a \in Nat, NEW w \in Nat \ {0} PROVE a % w <= a
  OBVIOUS
<1>2. a % w \in 0..(w - 1)
  OBVIOUS
<1>3. CASE a < w
  BY <1>3
<1>4. CASE a >= w
  BY <1>2, <1>4
<1>. QED
  BY <1>3, <1>4

\* A preset array has at least the size the checker added up, which may have wrapped.
LEMMA OneLong ==
    ASSUME NEW T, NEW s \in Seq(T), Len(s) <= 1, Len(s) >= 1
    PROVE  Len(s) = 1 /\ 1 \in DOMAIN s /\ s[1] \in T /\ s = <<s[1]>>
OBVIOUS

LEMMA FitsPreset ==
    ASSUME Sure, InterpNext, MakesPreset, Created(cur), ~UnderElse(prog, cur), Conforms(cur),
           NEW shape, shape = Values'[NewObj].shape
    PROVE  /\ Values'[NewObj].ty = "array"
           /\ Len(shape) <= Len(Layers(cur))
           /\ Len(shape) < Len(Layers(cur)) => shape[Len(shape)] = 0
           /\ \A j \in DOMAIN shape :
                 LET size == arrayTypes[Layers(cur)[j]].size IN IsKnown(size) => size[1] <= shape[j]
<1>1. StackInv /\ ProgOK /\ EvalInv /\ Verdict /\ SoundInv /\ HeapOK(Values)
  BY SureGround
<1>2. /\ cur # 0 /\ cur \in Node /\ Kind(cur) = "preset" /\ done[cur] = Len(Kids(cur))
      /\ DOMAIN Kids(cur) = 1..Len(Kids(cur)) /\ Len(Kids(cur)) \in Nat /\ Kind(cur) \in ExpressionKinds
  BY <1>1, InterpProg, NodeShape, ValueKinds DEF MakesPreset
<1>. DEFINE n == Len(Kids(cur))
            refs == [i \in DOMAIN Kids(cur) |-> Arg(i)]
<1>3. /\ NewObj \notin DOMAIN Values /\ NewObj \in DOMAIN Values'
      /\ Values'[NewObj] = PresetArrayVal(Values, refs)
  BY <1>1, NewObjThere DEF MakesPreset, GiveArray
<1>4. \A i \in 1..n : /\ HeldAs(Arg(i), OperandTy(cur, i)) /\ Good(Values, Arg(i))
                      /\ Values[Arg(i).obj].alive
                      /\ IsIntArg(i) <=> ~isArrayTy(OperandTy(cur, i))
                      /\ IsIntArg(i) <=> Arg(i).cell # 0
  BY <1>1, <1>2, TypedOperand DEF Holding
<1>5. PICK Held \in [0..n -> Seq(Int32)] :
         /\ Held[0] = <<>> /\ \A k \in 1..n : Held[k] = Held[k - 1] \o Element(Values, Arg(k))
         /\ Values'[NewObj].ty = "array" /\ shape = <<Len(Held[n])>>
  <2>. SUFFICES ASSUME NEW m, m = n, NEW args, args = refs
                PROVE  \E Held \in [0..n -> Seq(Int32)] :
                          /\ Held[0] = <<>> /\ \A k \in 1..n : Held[k] = Held[k - 1] \o Element(Values, Arg(k))
                          /\ Values'[NewObj].ty = "array" /\ shape = <<Len(Held[n])>>
    OBVIOUS
  <2>1. DOMAIN args = 1..m /\ Len(args) = m /\ (\A i \in 1..m : args[i] = Arg(i)) /\ m \in Nat
    BY <1>2
  <2>2. \A i \in 1..m : Good(Values, args[i])
    BY <1>4, <2>1
  <2>3. PICK Held : CellsAfter(Values, args, m, Held)
    <3>1. HeapOK(Values)
      BY <1>1
    <3>. HIDE DEF n, refs
    <3>. QED
      BY <2>1, <2>2, <3>1, PresetCells
  <2>4. /\ Held \in [0..m -> Seq(Int32)] /\ Held[0] = <<>>
        /\ PresetArrayVal(Values, args) =
              [ ty |-> "array", shape |-> <<Len(Held[m])>>, cells |-> Held[m], initer |-> Null,
                alive |-> TRUE ]
        /\ \A k \in 1..m : Held[k] = Held[k - 1] \o Element(Values, args[k])
    BY <2>3 DEF CellsAfter
  <2>5. Values'[NewObj].ty = "array" /\ shape = <<Len(Held[m])>>
    <3>1. Values'[NewObj] = PresetArrayVal(Values, args)
      BY <1>3
    <3>. HIDE DEF n, refs
    <3>. QED
      BY <2>4, <3>1
  <2>6. \A k \in 1..m : Held[k] = Held[k - 1] \o Element(Values, Arg(k))
    BY <2>1, <2>4
  <2>. QED
    BY <2>4, <2>5, <2>6
<1>6. PICK f \in [0..n -> Nat] : IsSize(cur, f) /\ arrayTypes[cur].size = Known(f[n])
  BY <1>2 DEF Conforms, ConformsTo
<1>7. Layers(cur) = <<cur>> /\ Len(<<cur>>) = 1 /\ <<cur>>[1] = cur
  <2>1. ~isArrayTy(arrayTypes[cur].contained)
    BY <1>2 DEF Conforms, ConformsTo, isArrayTy, IntTy
  <2>. QED
    BY <1>1, <1>2, <2>1, LayersOf DEF Verdict
<1>8. ASSUME NEW k \in 1..n
      PROVE  /\ Weight(cur, k) \in Nat /\ Element(Values, Arg(k)) \in Seq(Int32)
             /\ Weight(cur, k) <= Len(Element(Values, Arg(k)))
  <2>1. Arg(k).obj \in DOMAIN Values /\ Arg(k) \in References
    BY <1>4 DEF Good
  <2>2. CASE ~isArrayTy(OperandTy(cur, k))
    <3>1. Arg(k).cell # 0 /\ Arg(k).cell > 0 /\ getValue(Values, Arg(k)) \in Int32
      BY <1>1, <1>4, <2>1, <2>2, ReadsInt DEF References, IsIntArg
    <3>. QED
      BY <2>2, <3>1 DEF Weight, Element
  <2>3. CASE isArrayTy(OperandTy(cur, k))
    <3>. DEFINE t == OperandTy(cur, k)
                o == Values[Arg(k).obj]
    <3>1. Arg(k).cell = 0 /\ o.ty \in ArrayTypes /\ o \in Objects /\ Sound(Values, Arg(k).obj)
      BY <1>4, <2>1, <2>3, InterpProg DEF Good
    <3>2. t \in Node /\ Created(t) /\ Agrees(Arg(k), t)
      BY <1>4, <2>3, HeldTypes
    <3>3. IsKnown(arrayTypes[t].size) /\ ~isArrayTy(arrayTypes[t].contained)
      BY <1>2, <2>3 DEF Conforms, ConformsTo
    <3>4. Layers(t) = <<t>>
      BY <1>1, <3>2, <3>3, LayersOf DEF Verdict
    <3>5. Len(o.shape) <= 1 /\ (1 \in DOMAIN o.shape => arrayTypes[t].size[1] <= o.shape[1])
      BY <1>4, <2>3, <3>2, <3>3, <3>4 DEF Agrees, Fits
    <3>6. o.shape \in Seq(Nat) /\ o.cells \in Seq(Int32) /\ Len(o.shape) >= 1 /\ Len(o.cells) = Cells(o.shape)
      BY <3>1 DEF Objects, Sound, ArrayTypes
    <3>. HIDE DEF o
    <3>7. Len(o.shape) = 1 /\ 1 \in DOMAIN o.shape /\ o.shape[1] \in Nat /\ o.shape = <<o.shape[1]>>
      BY <3>5, <3>6, OneLong
    <3>8. Len(o.cells) = o.shape[1]
      BY <3>6, <3>7, CellsOf
    <3>9. arrayTypes[t].size[1] \in Nat
      <4>1. arrayTypes[t].size \in CheckedSizes
        BY <1>1, <3>2 DEF Verdict, CheckTypeOK
      <4>. QED
        BY <3>3, <4>1, Width DEF CheckedSizes, IsKnown, Known
    <3>10. Element(Values, Arg(k)) = o.cells
      BY <3>1 DEF Element, o
    <3>11. Weight(cur, k) = arrayTypes[t].size[1]
      BY <2>3 DEF Weight
    <3>. QED
      BY <3>5, <3>6, <3>7, <3>8, <3>9, <3>10, <3>11
  <2>. QED
    BY <2>2, <2>3
<1>9. f[n] <= Len(Held[n])
  <2>. DEFINE G == { k \in 0..n : f[k] <= Len(Held[k]) }
  <2>1. 0 \in G
    BY <1>2, <1>5, <1>6 DEF IsSize
  <2>2. ASSUME NEW k \in 1..n, k - 1 \in G PROVE k \in G
    <3>1. k - 1 \in 0..n /\ k \in 0..n /\ n \in Nat
      BY <1>2
    <3>2. /\ f[k - 1] \in Nat /\ Held[k - 1] \in Seq(Int32) /\ f[k - 1] <= Len(Held[k - 1])
          /\ f[k] = (f[k - 1] + Weight(cur, k)) % Word /\ Held[k] = Held[k - 1] \o Element(Values, Arg(k))
      BY <1>5, <1>6, <2>2, <3>1 DEF IsSize
    <3>3. f[k] <= f[k - 1] + Weight(cur, k)
      <4>1. f[k - 1] + Weight(cur, k) \in Nat
        BY <1>8, <3>2
      <4>. QED
        BY <3>2, <4>1, Remainders, Width
    <3>4. Len(Held[k]) = Len(Held[k - 1]) + Len(Element(Values, Arg(k)))
      BY <1>8, <3>2
    <3>5. f[k] \in Nat /\ Len(Held[k - 1]) \in Nat /\ Len(Element(Values, Arg(k))) \in Nat
      <4>1. f[k] \in Nat
        BY <1>6, <3>1
      <4>2. Len(Held[k - 1]) \in Nat
        BY <3>2
      <4>3. Len(Element(Values, Arg(k))) \in Nat
        BY <1>8
      <4>. QED
        BY <4>1, <4>2, <4>3
    <3>. QED
      BY <1>8, <3>1, <3>2, <3>3, <3>4, <3>5
  <2>3. n \in Nat
    BY <1>2
  <2>. HIDE DEF G, n
  <2>4. 0..n \subseteq G
    BY <2>1, <2>2, <2>3, UpTo
  <2>. QED
    BY <2>3, <2>4 DEF G
<1>10. Len(shape) = 1 /\ DOMAIN shape = {1} /\ shape[1] = Len(Held[n])
  BY <1>5
<1>11. arrayTypes[cur].size[1] = f[n]
  BY <1>6 DEF Known
<1>. QED
  BY <1>5, <1>7, <1>9, <1>10, <1>11

LEMMA AllAgreeNext ==
    ASSUME Sure, InterpNext, UNCHANGED checkVars
    PROVE  AllAgree'
<1>1. SUFFICES ASSUME NEW r, NEW t, HeldAs(r, t)' PROVE Agrees(r, t)'
  BY DEF AllAgree
<1>2. CASE HeldAs(r, t)
  BY <1>2, AgreesKept
<1>3. CASE r.cell > 0 /\ ~isArrayTy(t)
  <2>1. TypeOf(Values', r) = "int32"
    BY <1>3 DEF TypeOf
  <2>2. RuntimeType(t)' = "int32"
    BY <1>3 DEF RuntimeType, TypeID, isArrayTy
  <2>. QED
    BY <1>3, <2>1, <2>2 DEF Agrees, isArrayTy
<1>4. CASE NewArray(r, t)
  <2>1. /\ t = cur /\ r.obj = NewObj /\ r.cell = 0 /\ Created(cur) /\ ~UnderElse(prog, cur) /\ Conforms(cur)
        /\ Home(cur) \in OwnersNext(NewObj) /\ Kind(cur) \in {"preset", "uniform"}
    BY <1>1, <1>4, NewArrayChecked DEF Created
  <2>2. UNCHANGED <<prog>> /\ cur \in Node /\ cur > 0
    <3>1. prog' = prog /\ cur \in Node /\ ProgOK
      BY InterpProg, SureGround
    <3>. QED
      BY <3>1, Trees DEF ProgOK, Node
  <2>3. /\ Layers(t)' = Layers(t) /\ RuntimeType(t)' = RuntimeType(t) /\ Home(t)' = Home(t)
        /\ arrayTypes' = arrayTypes
    BY <2>2, TypesStay
  <2>. DEFINE shape == Values'[NewObj].shape
  <2>4. /\ Len(shape) <= Len(Layers(cur))
        /\ Len(shape) < Len(Layers(cur)) => shape[Len(shape)] = 0
        /\ \A j \in DOMAIN shape :
              LET size == arrayTypes[Layers(cur)[j]].size IN IsKnown(size) => size[1] <= shape[j]
        /\ Values'[NewObj].ty = IF Kind(cur) = "uniform" THEN "repeat" ELSE "array"
    <3>1. CASE MakesUniform
      BY <2>1, <3>1, FitsUniform DEF MakesUniform
    <3>2. CASE MakesPreset
      BY <2>1, <3>2, FitsPreset DEF MakesPreset
    <3>. QED
      BY <1>4, <3>1, <3>2 DEF NewArray
  <2>5. TypeOf(Values', r) = RuntimeType(t)
    BY <2>1, <2>2, <2>4 DEF TypeOf, RuntimeType, TypeID
  <2>6. Fits(r.obj, t)'
    BY <2>1, <2>3, <2>4 DEF Fits
  <2>7. Home(t)' \in Owners(r.obj)'
    <3>1. Home(t)' \in OwnersNext(r.obj)
      BY <2>1, <2>3
    <3>. QED
      BY <3>1 DEF OwnersNext, Owners
  <2>. QED
    BY <2>3, <2>5, <2>6, <2>7 DEF Agrees
<1>. QED
  BY <1>1, <1>2, <1>3, <1>4, HeldAfter

\* An array is not made twice: whoever holds it, holds it with the type it was made with.
LEMMA OneTypeNext ==
    ASSUME Sure, InterpNext, UNCHANGED checkVars
    PROVE  OneType'
<1>1. SUFFICES ASSUME NEW r, NEW t, NEW u, HeldAs(r, t)', HeldAs(r, u)', r.cell = 0 PROVE t = u
  BY DEF OneType
<1>2. OneType /\ EvalInv
  BY SureGround DEF SoundInv
<1>3. /\ HeldAs(r, t) \/ NewArray(r, t)
      /\ HeldAs(r, u) \/ NewArray(r, u)
  BY <1>1, HeldAfter
<1>4. CASE HeldAs(r, t) /\ HeldAs(r, u)
  BY <1>1, <1>2, <1>4 DEF OneType
<1>5. CASE NewArray(r, t) \/ NewArray(r, u)
  <2>1. r.obj = NewObj
    BY <1>5 DEF NewArray, ArrayRef
  <2>2. ~HeldAs(r, t) /\ ~HeldAs(r, u)
    BY <2>1, HeldTypes, InterpProg
  <2>. QED
    BY <1>3, <2>2 DEF NewArray
<1>. QED
  BY <1>3, <1>4, <1>5

LEMMA NamesDeclaredNext ==
    ASSUME Sure, InterpNext, UNCHANGED checkVars
    PROVE  NamesDeclared'
<1>1. Declared' = Declared /\ NamesDeclared
  BY SureGround DEF SoundInv, checkVars
<1>2. ASSUME NEW k \in DOMAIN NameToValue' PROVE k \in DOMAIN Declared
  BY <1>1, <1>2, NamesAfter, Bindings DEF NamesDeclared
<1>. QED
  BY <1>1, <1>2 DEF NamesDeclared

\* The checker refuses to bind an array to a second name.
LEMMA NamesApartNext ==
    ASSUME Sure, InterpNext
    PROVE  NamesApart'
<1>1. StackInv /\ EvalInv /\ TypesVerdict /\ SoundInv
  BY SureGround
<1>2. \A k \in DOMAIN NameToValue : HeldAs(NameToValue[k], Declared[k]) /\ NameToValue[k].obj # NewObj
  <2>1. ASSUME NEW k \in DOMAIN NameToValue
        PROVE  HeldAs(NameToValue[k], Declared[k]) /\ NameToValue[k].obj \in DOMAIN Values
    <3>1. HeldAs(NameToValue[k], Declared[k])
      BY DEF HeldAs
    <3>. QED
      BY <3>1, HeldTypes
  <2>. QED
    BY <2>1, InterpProg
<1>3. ASSUME BindsArray, NEW l \in DOMAIN NameToValue, NameToValue[l] = Arg(1) PROVE FALSE
  <2>1. /\ cur \in ArrayAssigns /\ Key(cur) \notin DOMAIN NameToValue
        /\ HeldAs(Arg(1), OperandTy(cur, 1)) /\ isArrayTy(OperandTy(cur, 1))
    BY <1>3, Bindings
  <2>2. Arg(1).cell = 0
    <3>1. TypeOf(Values, Arg(1)) # "int32" /\ Arg(1).cell \in Nat
      BY <2>1, HeldTypes
    <3>. QED
      BY <3>1 DEF TypeOf
  <2>3. Declared[l] = OperandTy(cur, 1)
    BY <1>1, <1>2, <1>3, <2>1, <2>2 DEF SoundInv, OneType
  <2>4. l \in DOMAIN Declared
    BY <1>1 DEF SoundInv, NamesDeclared
  <2>5. PICK m \in ArrayAssigns : Key(m) = l
    BY <1>1, <2>1, <2>3, <2>4 DEF TypesVerdict
  <2>6. OperandTy(m, 1) = OperandTy(cur, 1)
    BY <1>1, <2>3, <2>5 DEF TypesVerdict
  <2>7. m = cur
    BY <1>1, <2>1, <2>6 DEF TypesVerdict
  <2>. QED
    BY <2>1, <2>5, <2>7
<1>4. SUFFICES ASSUME NEW k \in DOMAIN NameToValue', NEW l \in DOMAIN NameToValue',
                      NameToValue'[k] = NameToValue'[l], k # l
               PROVE  FALSE
  BY DEF NamesApart
<1>5. ASSUME NEW m \in DOMAIN NameToValue'
      PROVE  \/ m \in DOMAIN NameToValue /\ NameToValue'[m] = NameToValue[m]
             \/ BindsInt /\ m = Key(cur) /\ NameToValue'[m].obj = NewObj
             \/ BindsArray /\ m = Key(cur) /\ NameToValue'[m] = Arg(1)
  BY <1>5, NamesAfter DEF IntRef
<1>6. CASE k \in DOMAIN NameToValue /\ NameToValue'[k] = NameToValue[k]
           /\ l \in DOMAIN NameToValue /\ NameToValue'[l] = NameToValue[l]
  BY <1>1, <1>4, <1>6 DEF SoundInv, NamesApart
<1>7. CASE k = Key(cur) /\ l = Key(cur)
  BY <1>4, <1>7
<1>. QED
  BY <1>2, <1>3, <1>4, <1>5, <1>6, <1>7

\* What a step leaves of the frames below the top.
LEMMA FramesAfter ==
    ASSUME StackInv, InterpNext, NEW n \in OnStack', n # cur
    PROVE  done'[n] = 0 \/ (n \in OnStack /\ done'[n] = done[n])
<1>1. Moves
  BY InterpMoves
<1>2. CASE AcceptsKid
  BY <1>2 DEF AcceptsKid, Accept, OnStack, Node, StackInv, StackTypeOK
<1>3. CASE Returns
  BY <1>3 DEF Returns, Return, OnStack, Node, StackInv, StackTypeOK
<1>4. CASE Stays
  BY <1>4 DEF Stays, OnStack, Node
<1>. QED
  BY <1>1, <1>2, <1>3, <1>4 DEF Moves

LEMMA AccessesNamedNext ==
    ASSUME Sure, InterpNext, UNCHANGED checkVars
    PROVE  AccessesNamed'
<1>1. StackInv /\ EvalInv /\ Established /\ Evaluating /\ ~Drifts /\ AccessesNamed /\ Running
  BY SureGround, InterpRunning DEF SoundInv
<1>2. /\ prog' = prog /\ Node' = Node /\ cur # 0 /\ cur \in Node /\ cur \in OnStack
      /\ \A n \in Node \ {cur} : ret'[n] = ret[n]
  BY <1>1, InterpProg, OthersKeep
<1>3. \A n : DeclaredKey(n)' = DeclaredKey(n) /\ Kind(n)' = Kind(n)
  BY <1>2 DEF checkVars, DeclaredKey, Name, Scope, Kind
<1>4. SUFFICES ASSUME NEW n \in OnStack', Kind(n) = "access", done'[n] > 0
               PROVE  DeclaredKey(n) \in DOMAIN NameToValue' /\ ret'[n].obj = NameToValue'[DeclaredKey(n)].obj
  BY <1>3 DEF AccessesNamed
<1>5. n \in Node
  BY <1>2 DEF OnStack
<1>6. ASSUME n \in OnStack, done[n] > 0, ret'[n].obj = ret[n].obj
      PROVE  DeclaredKey(n) \in DOMAIN NameToValue' /\ ret'[n].obj = NameToValue'[DeclaredKey(n)].obj
  <2>1. DeclaredKey(n) \in DOMAIN NameToValue /\ ret[n].obj = NameToValue[DeclaredKey(n)].obj
    BY <1>1, <1>4, <1>6 DEF AccessesNamed
  <2>. QED
    BY <1>6, <2>1, NamesKeep
<1>7. CASE n # cur
  BY <1>1, <1>2, <1>4, <1>5, <1>6, <1>7, FramesAfter
<1>8. CASE n = cur
  <2>1. LooksUp \/ Indexes \/ Stands
    BY <1>1, <1>4, <1>8, InterpClasses DEF ReturnsInt, ReturnsOperand, BindsInt, BindsArray, WritesInt,
       RecallsName, MakesPreset, MakesUniform, Walks, FreesOwn, BlockKinds
  <2>2. CASE LooksUp
    <3>1. NamedKey = DeclaredKey(cur) /\ NamedKey \in DOMAIN NameToValue
      BY <1>1, <2>2, UsesDeclared, NameFoundAround DEF LooksUp
    <3>2. ret'[cur] = NameToValue[NamedKey]
      BY <1>1, <1>2, <2>2 DEF LooksUp, EvalInv, ReturnsRefs
    <3>. QED
      BY <1>8, <3>1, <3>2, NamesKeep
  <2>3. CASE Indexes
    <3>1. ret'[cur].obj = ret[cur].obj
      BY <1>1, <1>2, <2>3 DEF Indexes, EvalInv, ReturnsRefs
    <3>. QED
      BY <1>2, <1>6, <1>8, <2>3, <3>1 DEF Indexes
  <2>4. CASE Stands
    BY <1>2, <1>4, <1>6, <1>8, <2>4 DEF Stands
  <2>. QED
    BY <2>1, <2>2, <2>3, <2>4
<1>. QED
  BY <1>7, <1>8

\* What is on the list of the block an array was declared in is destroyed when that is left.
LEMMA NamedArrays ==
    ASSUME Sure, NEW m \in ArrayAssigns, Key(m) \in DOMAIN NameToValue, NEW o, o = NameToValue[Key(m)].obj
    PROVE  /\ NameToValue[Key(m)].cell = 0 /\ o \in DOMAIN Values /\ Owners(o) = {Home(m)}
           /\ HeldAs(NameToValue[Key(m)], OperandTy(m, 1)) /\ isArrayTy(OperandTy(m, 1))
<1>1. TypesVerdict /\ OwnInv /\ EvalInv
  BY SureGround
<1>. DEFINE r == NameToValue[Key(m)]
            t == OperandTy(m, 1)
<1>2. isArrayTy(t) /\ Declared[Key(m)] = t /\ Home(t) = Home(m)
  BY <1>1 DEF TypesVerdict, ArrayAssigns
<1>3. HeldAs(r, t)
  BY <1>2 DEF HeldAs
<1>4. /\ r.obj \in DOMAIN Values /\ r.cell \in Nat /\ Agrees(r, t) /\ TypeOf(Values, r) # "int32"
  BY <1>2, <1>3, HeldTypes
<1>5. Home(m) \in Owners(r.obj)
  BY <1>2, <1>4 DEF Agrees
<1>6. Values[r.obj].ty \in ArrayTypes
  BY <1>1, <1>5, OwnedArrays
<1>7. PICK b \in Node : Owners(r.obj) = {b}
  BY <1>1, <1>4, <1>6 DEF OwnInv, OwnedOnce
<1>8. r.cell = 0
  BY <1>4 DEF TypeOf
<1>. QED
  BY <1>2, <1>3, <1>4, <1>5, <1>7, <1>8

\* The assignment of an array that is left has bound its name.
LEMMA BoundOnReturn ==
    ASSUME Sure, InterpNext, cur \in ArrayAssigns, Returns
    PROVE  Key(cur) \in DOMAIN NameToValue' /\ Values'[NameToValue'[Key(cur)].obj].alive
<1>1. StackInv /\ EvalInv /\ ProgOK
  BY SureGround
<1>2. cur # 0 /\ cur \in Node /\ Kind(cur) = "assign" /\ cur \in OnStack
  BY InterpProg DEF ArrayAssigns, CheckedAssigns, Assigns
<1>3. cur \notin OnStack' /\ cur' # cur
  BY <1>1, ReturnStack, <1>2
<1>4. BindsInt \/ BindsArray \/ WritesInt \/ Walks \/ Stands
  BY <1>1, <1>2, InterpClasses DEF ReturnsInt, ReturnsOperand, RecallsName, MakesPreset, MakesUniform,
     LooksUp, Indexes, FreesOwn, BlockKinds
<1>5. isArrayTy(OperandTy(cur, 1)) /\ ~UnderElse(prog, cur) /\ 1 \in DOMAIN Kids(cur)
  BY <1>1, <1>2, NodeShape DEF ArrayAssigns, CheckedAssigns
<1>6. CASE BindsInt
  BY <1>5, <1>6, Bindings
<1>7. CASE BindsArray
  <2>1. Values[Arg(1).obj].alive
    BY <1>7, Bindings
  <2>. QED
    BY <1>7, <2>1 DEF BindsArray, Emplace
<1>8. CASE WritesInt
  <2>1. done[cur] = 1 /\ IsIntArg(1)
    BY <1>2, <1>8 DEF WritesInt
  <2>2. IsIntArg(1) <=> ~isArrayTy(OperandTy(cur, 1))
    BY <1>2, <1>5, <2>1, TypedOperand, ValueKinds DEF Holding
  <2>. QED
    BY <1>5, <2>1, <2>2
<1>9. CASE Walks
  BY <1>1, <1>2, <1>3, <1>9, AcceptStack DEF Walks
<1>10. CASE Stands
  BY <1>3, <1>10 DEF Stands
<1>. QED
  BY <1>4, <1>6, <1>7, <1>8, <1>9, <1>10

LEMMA BoundAliveNext ==
    ASSUME Sure, InterpNext, UNCHANGED checkVars
    PROVE  BoundAlive'
<1>1. StackInv /\ ProgOK /\ EvalInv /\ ~Drifts /\ BoundAlive
  BY SureGround DEF SoundInv
<1>2. prog' = prog /\ Node' = Node /\ cur # 0 /\ cur \in Node
  BY InterpProg
<1>3. /\ ArrayAssigns' = ArrayAssigns
      /\ \A m : Key(m)' = Key(m) /\ Home(m)' = Home(m) /\ Ancestors(prog, m)' = Ancestors(prog, m)
  <2>1. Assigns' = Assigns /\ CheckedAssigns' = CheckedAssigns
    BY <1>2, TreeKept DEF CheckedAssigns
  <2>. QED
    BY <1>2, <2>1, TreeKept DEF ArrayAssigns, OperandTy, Kid, checkVars
<1>4. SUFFICES ASSUME NEW m \in ArrayAssigns, Left(m)', Home(m) \in OnStack'
               PROVE  Key(m) \in DOMAIN NameToValue' /\ Values'[NameToValue'[Key(m)].obj].alive
  BY <1>3 DEF BoundAlive
<1>5. /\ m \in Assigns /\ m \in Node /\ m # 1 /\ ~Conditional(prog, m)
      /\ Home(m) \in Ancestors(prog, m) /\ IsBlock(prog, Home(m))
  <2>1. m \in Assigns /\ m \in Node /\ m # 1
    BY <1>1, NoRoot DEF ArrayAssigns, CheckedAssigns, Assigns
  <2>. QED
    BY <1>1, <2>1, NoDriftAssigns, HomeInnermost, BlocksAround
<1>6. ASSUME Left(m), Home(m) \in OnStack
      PROVE  Key(m) \in DOMAIN NameToValue' /\ Values'[NameToValue'[Key(m)].obj].alive
  <2>. DEFINE o == NameToValue[Key(m)].obj
  <2>1. Key(m) \in DOMAIN NameToValue /\ Values[o].alive
    BY <1>1, <1>6 DEF BoundAlive
  <2>2. Key(m) \in DOMAIN NameToValue' /\ NameToValue'[Key(m)] = NameToValue[Key(m)]
    BY <2>1, NamesKeep
  <2>3. o \in DOMAIN Values /\ Owners(o) = {Home(m)}
    BY <2>1, NamedArrays
  <2>4. ~(FreesOwn /\ cur \in Owners(o))
    <3>1. SUFFICES ASSUME FreesOwn, cur = Home(m) PROVE FALSE
      BY <2>3
    <3>2. OnStack' = OnStack \ {cur}
      BY <1>1, <3>1, ReturnStack DEF FreesOwn, Returns
    <3>. QED
      BY <1>4, <3>1, <3>2
  <2>5. Values'[o].alive = Values[o].alive
    BY <1>1, <2>3, <2>4, ObjectsKept
  <2>. QED
    BY <2>1, <2>2, <2>5
<1>7. CASE StaysThere
  <2>1. OnStack' = OnStack /\ Left(m)' = Left(m)
    BY <1>7 DEF StaysThere, OnStack, Node, Left, Kids, Kid
  <2>. QED
    BY <1>4, <1>6, <2>1
<1>8. CASE ComesBack
  <2>1. OnStack' = OnStack \ {cur} /\ Returns
    BY <1>1, <1>8, ReturnStack DEF ComesBack, Returns
  <2>2. \/ Left(m) \/ m = cur
        \/ \E j \in DOMAIN Kids(cur) : done[cur] < j /\ Kid(cur, j) \in Ancestors(prog, m)
    BY <1>1, <1>4, <1>5, <2>1, SkippedByReturn
  <2>3. ASSUME NEW j \in DOMAIN Kids(cur), done[cur] < j, Kid(cur, j) \in Ancestors(prog, m)
        PROVE  FALSE
    <3>1. Skippable(j)
      BY <1>8, <2>3 DEF ComesBack
    <3>2. Home(m) \in OnStack
      BY <1>4, <2>1
    <3>. QED
      BY <1>1, <1>2, <1>5, <2>3, <3>1, <3>2, SkippedConditional
  <2>4. CASE m = cur
    BY <1>4, <2>1, <2>4, BoundOnReturn
  <2>. QED
    BY <1>4, <1>6, <2>1, <2>2, <2>3, <2>4
<1>9. CASE StepsIn \/ Otherwise \/ LoopsBack
  <2>1. PICK i \in DOMAIN Kids(cur) :
           /\ Accept(i)
           /\ \A j \in DOMAIN Kids(cur) : done[cur] < j /\ j < i => Skippable(j)
    <3>1. CASE StepsIn
      <4>1. done[cur] \in Nat /\ DOMAIN Kids(cur) = 1..Len(Kids(cur))
        BY <1>1, <1>2, KidsExist, NodeShape
      <4>. QED
        BY <3>1, <4>1 DEF StepsIn
    <3>2. CASE Otherwise
      <4>1. DOMAIN Kids(cur) = 1..Len(Kids(cur)) /\ Len(Kids(cur)) \in Nat
        BY <1>1, <1>2, NodeShape
      <4>. QED
        BY <3>2, <4>1 DEF Otherwise, Skippable
    <3>3. CASE LoopsBack
      <4>1. DOMAIN Kids(cur) = 1..Len(Kids(cur)) /\ Len(Kids(cur)) \in Nat
        BY <1>1, <1>2, NodeShape
      <4>. QED
        BY <3>3, <4>1 DEF LoopsBack
    <3>. QED
      BY <1>9, <3>1, <3>2, <3>3
  <2>2. OnStack' = OnStack \cup {cur'}
    BY <1>1, <1>2, <2>1, AcceptStack
  <2>3. Home(m) \in OnStack
    <3>1. cur' \notin Ancestors(prog, m)
      BY <1>1, <1>2, <1>4, <1>5, <2>1, LeftAfterAnyAccept
    <3>. QED
      BY <1>4, <1>5, <2>2, <3>1
  <2>4. \/ Left(m)
        \/ \E j \in DOMAIN Kids(cur) : done[cur] < j /\ j < i /\ Kid(cur, j) \in Ancestors(prog, m)
    BY <1>1, <1>2, <1>4, <1>5, <2>1, LeftAfterAnyAccept
  <2>5. Left(m)
    BY <1>1, <1>2, <1>5, <2>1, <2>3, <2>4, SkippedConditional
  <2>. QED
    BY <1>6, <2>3, <2>5
<1>. QED
  BY <1>1, <1>7, <1>8, <1>9, InterpSteps

\* A name that is used stands for something that is alive: the assignment of an array comes
\* before, and its block has not been left.
LEMMA RecalledAlive ==
    ASSUME Sure, Running, cur # 0, done[cur] = 0, Kind(cur) \in {"variable", "access"}
    PROVE  /\ NameDefined /\ NamedKey \in DOMAIN NameToValue /\ NamedKey = DeclaredKey(cur)
           /\ Values[NameToValue[NamedKey].obj].alive
<1>1. /\ StackInv /\ ProgOK /\ EvalInv /\ TypesVerdict /\ NamesRun /\ Established /\ Evaluating /\ ~Drifts
      /\ OwnInv /\ SoundInv
  BY SureGround
<1>. DEFINE r == NameToValue[NamedKey]
<1>2. NameDefined /\ NamedKey = DeclaredKey(cur)
  BY <1>1, UsesDeclared
<1>3. /\ NamedKey \in DOMAIN NameToValue /\ Bindable(Values, r) /\ NamedKey[2] \in Around(cur)
  BY <1>1, <1>2, NameFoundAround
<1>4. CASE r.cell # 0
  <2>1. r.obj \in DOMAIN Values /\ Values[r.obj].ty = "int32"
    BY <1>3, <1>4 DEF Bindable, Good
  <2>2. Values[r.obj].alive
    BY <1>1, <2>1 DEF OwnInv, DeadEmpty, ArrayTypes
  <2>. QED
    BY <1>2, <1>3, <2>2
<1>5. CASE r.cell = 0
  <2>1. isArrayTy(Declared[NamedKey])
    <3>1. HeldAs(r, Declared[NamedKey])
      BY <1>3 DEF HeldAs
    <3>2. TypeOf(Values, r) # "int32"
      BY <1>3, <1>5 DEF Bindable, Good, TypeOf, ArrayTypes
    <3>. QED
      BY <3>1, <3>2, HeldTypes
  <2>2. PICK m \in ArrayAssigns : Key(m) = NamedKey
    BY <1>1, <1>3, <2>1 DEF TypesVerdict, SoundInv, NamesDeclared
  <2>3. cur \in Node /\ cur # 1 /\ ~UnderElse(prog, cur) /\ m \in Assigns /\ m \in Node
    <3>1. cur \in Node /\ cur # 1
      BY <1>1, KidsExist, NoRoot
    <3>. QED
      BY <1>1, <3>1, NoDrift DEF ArrayAssigns, CheckedAssigns, Assigns
  <2>4. Before(m, cur)
    BY <1>1, <1>2, <2>2, <2>3 DEF TypesVerdict
  <2>5. OnStack = Ancestors(prog, cur)
    BY <1>1, StackIsAncestors
  <2>6. m \notin OnStack
    BY <1>1, <2>3, <2>4, <2>5, NotLeftSide DEF Before
  <2>7. Left(m)
    BY <1>1, <2>3, <2>4, <2>6, LeftBefore DEF Before
  <2>8. Home(m) \in OnStack
    <3>1. Home(m) \in Around(cur)
      BY <1>3, <2>2 DEF Key, SymTabKey
    <3>. QED
      BY <1>1, <2>3, <2>5, <3>1, BlocksAround
  <2>. QED
    BY <1>1, <1>2, <1>3, <2>2, <2>7, <2>8 DEF SoundInv, BoundAlive
<1>. QED
  BY <1>4, <1>5

LEMMA HeldAliveNext ==
    ASSUME Sure, InterpNext
    PROVE  HeldAlive'
<1>1. StackInv /\ EvalInv /\ SoundInv /\ Running /\ cur # 0
  BY SureGround, InterpRunning
<1>2. SUFFICES ASSUME NEW m \in HeldNodes' PROVE Values'[ret'[m].obj].alive
  BY DEF HeldAlive
<1>3. ~FreesOwn /\ ((m \in HeldNodes /\ ret'[m] = ret[m]) \/ (m = cur /\ Supplies))
  BY <1>1, <1>2, HeldStep
<1>4. ASSUME NEW o \in DOMAIN Values, Values[o].alive PROVE Values'[o].alive
  BY <1>1, <1>3, <1>4, ObjectsKept
<1>5. ASSUME NEW n \in HeldNodes PROVE Values'[ret[n].obj].alive
  <2>1. ret[n].obj \in DOMAIN Values /\ Values[ret[n].obj].alive
    BY <1>1, HeldObjects DEF SoundInv, HeldAlive
  <2>. QED
    BY <1>4, <2>1
<1>6. CASE m = cur /\ Supplies
  <2>1. Fresh \/ HandsOn \/ Recalls
    BY <1>1, <1>6, Supplied
  <2>2. CASE Fresh
    BY <1>1, <1>6, <2>2, ObjectsNew DEF Fresh
  <2>3. CASE HandsOn
    BY <1>5, <1>6, <2>3 DEF HandsOn
  <2>4. CASE Recalls
    <3>1. done[cur] = 0 /\ Kind(cur) \in {"variable", "access"} /\ ret'[cur] = NameToValue[NamedKey]
      BY <2>4 DEF Recalls, RecallsName, LooksUp
    <3>2. NamedKey \in DOMAIN NameToValue /\ Values[NameToValue[NamedKey].obj].alive
      BY <1>1, <3>1, RecalledAlive
    <3>3. NameToValue[NamedKey].obj \in DOMAIN Values
      BY <1>1, <3>2 DEF EvalInv, NamesBound, Bindable, Good
    <3>. QED
      BY <1>4, <1>6, <3>1, <3>2, <3>3
  <2>. QED
    BY <2>1, <2>2, <2>3, <2>4
<1>. QED
  BY <1>3, <1>5, <1>6

ShapeNext(r) == IF r.cell > 0 THEN <<>> ELSE Values'[r.obj].shape

LEMMA InitersAliveNext ==
    ASSUME Sure, InterpNext
    PROVE  InitersAlive'
<1>1. StackInv /\ EvalInv /\ OwnInv /\ SoundInv /\ LiveArraysScoped /\ HeapOK(Values)
  BY SureGround
<1>2. cur # 0 /\ cur \in Nat /\ prog' = prog
  BY <1>1, InterpProg, Trees DEF StackInv, ProgOK, Node
<1>3. SUFFICES ASSUME NEW o \in DOMAIN Values', Values'[o].ty = "repeat", Values'[o].alive
               PROVE  LET from == Values'[o].initer
                          size == Values'[o].shape[1]
                      IN  /\ Good(Values', from) /\ Values'[from.obj].alive
                          /\ Values'[o].shape = IF size = 0 THEN <<0>> ELSE <<size>> \o ShapeNext(from)
  BY DEF InitersAlive, ShapeOf, ShapeNext
\* What is not destroyed can be referred to as it could.
<1>4. ASSUME NEW r, Good(Values, r), Values[r.obj].alive, ~(FreesOwn /\ cur \in Owners(r.obj))
      PROVE  Good(Values', r) /\ Values'[r.obj].alive /\ ShapeNext(r) = ShapeOf(r)
  <2>1. r.obj \in DOMAIN Values
    BY <1>4 DEF Good
  <2>2. /\ r.obj \in DOMAIN Values' /\ Values'[r.obj].ty = Values[r.obj].ty
        /\ Values'[r.obj].alive = Values[r.obj].alive /\ Values'[r.obj].shape = Values[r.obj].shape
        /\ Len(Values'[r.obj].cells) = Len(Values[r.obj].cells)
    BY <1>1, <1>4, <2>1, ObjectsKept
  <2>. QED
    BY <1>4, <2>2 DEF Good, ShapeOf, ShapeNext
<1>5. CASE o \in DOMAIN Values
  <2>. DEFINE from == Values[o].initer
  <2>1. /\ Values[o].ty = "repeat" /\ Values[o].alive /\ ~(FreesOwn /\ cur \in Owners(o))
        /\ Values'[o].initer = from /\ Values'[o].shape = Values[o].shape
    BY <1>1, <1>3, <1>5, ObjectsKept
  <2>2. /\ Good(Values, from) /\ Values[from.obj].alive
        /\ Values[o].shape = IF Values[o].shape[1] = 0 THEN <<0>>
                             ELSE <<Values[o].shape[1]>> \o ShapeOf(from)
    BY <1>1, <1>5, <2>1 DEF SoundInv, InitersAlive
  <2>3. ~(FreesOwn /\ cur \in Owners(from.obj))
    <3>1. SUFFICES ASSUME FreesOwn, cur \in Owners(from.obj) PROVE FALSE
      OBVIOUS
    <3>2. PICK b \in DOMAIN ResourceHandleMap : o \in ResourceHandleMap[b] /\ b \in OnStack
      BY <1>1, <1>5, <2>1 DEF LiveArraysScoped, ArrayTypes
    <3>3. b \in Owners(o)
      BY <3>2 DEF Owners
    <3>4. cur <= b
      BY <1>1, <1>5, <2>1, <3>1, <3>3 DEF OwnInv, InitersOuter
    <3>5. b <= cur /\ b \in Nat
      BY <1>1, <3>2, Trees DEF StackInv, StackIsPath, OnStack, ProgOK, Node
    <3>. QED
      BY <1>2, <2>1, <3>1, <3>3, <3>4, <3>5
  <2>4. Good(Values', from) /\ Values'[from.obj].alive /\ ShapeNext(from) = ShapeOf(from)
    BY <1>4, <2>2, <2>3
  <2>. QED
    BY <2>1, <2>2, <2>4
<1>6. CASE o \notin DOMAIN Values
  <2>1. o = NewObj /\ MakesUniform
    BY <1>1, <1>3, <1>6, ObjectsNew
  <2>2. /\ Kid(cur, 1) \in HeldNodes /\ Good(Values, Arg(1)) /\ Values'[o].initer = Arg(1)
        /\ Values'[o] = UniformArrayVal(Values, Arg(1), IntArg(2))
    BY <1>1, <2>1, UniformInitial
  <2>3. Values[Arg(1).obj].alive
    BY <1>1, <2>2 DEF SoundInv, HeldAlive, Arg
  <2>4. ~FreesOwn
    BY <2>1 DEF FreesOwn, MakesUniform, BlockKinds
  <2>. DEFINE from == Arg(1)
              size == IntArg(2)
  <2>5. PICK r : r = from
    OBVIOUS
  <2>6. Good(Values', r) /\ Values'[r.obj].alive /\ ShapeNext(r) = ShapeOf(r)
    BY <1>4, <2>2, <2>3, <2>4, <2>5
  <2>7. CloneOf(Values, r).shape = ShapeOf(r)
    BY <1>1, <2>2, <2>3, <2>5, ClonesOfAlive DEF SoundInv
  <2>8. Values'[o].shape = IF size = 0 THEN <<0>> ELSE <<size>> \o ShapeOf(r)
    BY <2>2, <2>5, <2>7 DEF UniformArrayVal, Filled
  <2>9. ShapeOf(r) \in Seq(Nat)
    <3>1. r.obj \in DOMAIN Values
      BY <2>2, <2>5 DEF Good
    <3>. QED
      BY <3>1, InterpProg DEF ShapeOf, Objects
  <2>10. Values'[o].shape[1] = size
    BY <2>8, <2>9
  <2>. QED
    BY <2>2, <2>5, <2>6, <2>8, <2>10
<1>. QED
  BY <1>5, <1>6

LEMMA SoundNext ==
    ASSUME Sure, InterpNext, UNCHANGED checkVars
    PROVE  SoundInv'
BY AllAgreeNext, OneTypeNext, NamesDeclaredNext, NamesApartNext, AccessesNamedNext, BoundAliveNext,
   HeldAliveNext, InitersAliveNext DEF SoundInv

\* When the interpreter starts it holds nothing.
LEMMA SoundAtStart ==
    ASSUME StackInv, InterpInit, Restarts, UNCHANGED interpVars
    PROVE  OwnInv' /\ SoundInv'
<1>1. /\ prog' = prog /\ Node' = Node /\ cur' = 1 /\ done' = RootFrame(prog) /\ prog \in Programs
      /\ ret' = [n \in Node |-> Null] /\ DOMAIN NameToValue' = {} /\ Values' = <<>> /\ DOMAIN <<>> = {}
      /\ \A n : Kind(n)' = Kind(n)
  BY DEF Restarts, Node, InterpInit, interpVars, EmptyTable, StackInv, ProgOK, Kind
<1>2. OnStack' = {1} /\ done'[1] = 0 /\ Kind(1) = "root" /\ 1 \in Node
  BY <1>1, StackAtRoot, Trees DEF OnStack, Node, RootFrame, Kind, Nodes
<1>3. HeldNodes' = {}
  <2>1. ~Holding(1)'
    BY <1>1, <1>2 DEF Holding, ExpressionKinds, Arity
  <2>2. SUFFICES ASSUME NEW m \in HeldNodes' PROVE FALSE
    OBVIOUS
  <2>. QED
    BY <1>2, <2>1, <2>2 DEF HeldNodes
<1>4. ASSUME NEW m PROVE ~Left(m)'
  <2>1. \A i \in DOMAIN Kids(1)' : ~(i <= 0)
    <3>1. DOMAIN Kids(1) = 1..Len(Kids(1))
      BY <1>2, NodeShape DEF StackInv
    <3>. QED
      BY <1>1, <3>1 DEF Kids
  <2>. QED
    BY <1>1, <1>2, <2>1 DEF Left
<1>5. ASSUME NEW r, NEW t PROVE ~HeldAs(r, t)'
  BY <1>1 DEF HeldAs, Settled
<1>6. OwnedOnce' /\ DeadEmpty' /\ NamesOwned' /\ HeldOwned' /\ InitersOuter' /\ DeadLeft' /\ ReturnsExpr'
  BY <1>1, <1>3 DEF OwnedOnce, DeadEmpty, NamesOwned, HeldOwned, InitersOuter, DeadLeft, ReturnsExpr
<1>7. AllAgree' /\ OneType'
  BY <1>5 DEF AllAgree, OneType
<1>8. NamesDeclared' /\ NamesApart' /\ AccessesNamed'
  BY <1>1, <1>2 DEF NamesDeclared, NamesApart, AccessesNamed
<1>9. BoundAlive' /\ HeldAlive' /\ InitersAlive'
  BY <1>1, <1>3, <1>4 DEF BoundAlive, HeldAlive, InitersAlive
<1>. QED
  BY <1>6, <1>7, <1>8, <1>9 DEF OwnInv, SoundInv

-----------------------------------------------------------------------------
(***************************************************************************)
(* What the visit methods assert, cast and read holds, but in the two      *)
(* places the checker does not look at.                                    *)
(***************************************************************************)
LEMMA WhileAround ==
    ASSUME ProgOK, NEW n \in Node, NEW w \in Ancestors(prog, n), Kind(w) = "while", w # n
    PROVE  UnderWhile(prog, n)
<1>1. prog \in Programs /\ n \in Nodes(prog) /\ w \in Node
  BY AncestorsPath, Trees DEF ProgOK, Node
<1>2. PICK i \in DOMAIN prog[w].kids : prog[w].kids[i] \in Ancestors(prog, n)
  BY <1>1, AncestorsPath
<1>3. i \in {1, 2} /\ prog[Kid(w, i)].parent = w /\ Kid(w, i) # 1
  BY <1>1, <1>2, NodeShape DEF Kids
<1>4. IsKid(prog, Kid(w, i), "while", i)
  BY <1>2, <1>3 DEF IsKid, Kid, Kind
<1>. QED
  BY <1>2, <1>3, <1>4 DEF UnderWhile, Under, Kid

\* An array that has a name is assigned again only by the assignment that bound it.
LEMMA RedefinesInLoop ==
    ASSUME Sure, Running, cur # 0, done[cur] = 1, Kind(cur) = "assign", NameDefined,
           ~IsInt(Values, NameToValue[NamedKey]) \/ ~IsIntArg(1)
    PROVE  UnderWhile(prog, cur)
<1>1. /\ StackInv /\ ProgOK /\ EvalInv /\ TypesVerdict /\ NamesRun /\ Established /\ Evaluating /\ ~Drifts
      /\ Verdict /\ SoundInv
  BY SureGround
<1>2. cur \in Assigns /\ NamedKey = DeclaredKey(cur) /\ NamedKey \in DOMAIN NameToValue /\ NamedKey \in DOMAIN NamesInfo
  BY <1>1, AssignsDeclared, NameFoundAround
<1>3. /\ cur \in Node /\ 1 \in DOMAIN Kids(cur) /\ cur # 1
      /\ DeclaredKey(cur) \in DOMAIN Declared /\ DeclaredKey(cur) = DeclaredKey(Kid(cur, 2))
      /\ OperandTy(cur, 2) = DeclaredTy(cur) /\ Conforms(cur)
  BY <1>1, <1>2, LeftSide
<1>4. cur \in CheckedAssigns /\ ~UnderElse(prog, cur)
  BY <1>1, <1>2, NoDriftAssigns
<1>5. IsIntArg(1) <=> ~isArrayTy(OperandTy(cur, 1))
  BY <1>3, <1>4, TypedOperand, ValueKinds DEF Holding
<1>6. IsInt(Values, NameToValue[NamedKey]) <=> ~isArrayTy(DeclaredTy(cur))
  <2>1. HeldAs(NameToValue[NamedKey], DeclaredTy(cur))
    BY <1>2 DEF HeldAs, DeclaredTy
  <2>. QED
    BY <2>1, HeldTypes DEF IsInt
<1>7. TypeID(OperandTy(cur, 1)) = TypeID(DeclaredTy(cur))
  BY <1>3 DEF Conforms, ConformsTo
<1>8. /\ isArrayTy(OperandTy(cur, 1)) => Created(OperandTy(cur, 1))
      /\ isArrayTy(DeclaredTy(cur)) => Created(DeclaredTy(cur))
  <2>1. Kid(cur, 1) \in Node
    BY <1>1, <1>3, NodeShape
  <2>. QED
    BY <1>1, <1>3, <2>1 DEF Verdict, TypesCreated, OperandTy, DeclaredTy
<1>9. isArrayTy(OperandTy(cur, 1))
  BY <1>5, <1>6, <1>7, <1>8 DEF TypeID, isArrayTy, Created
<1>10. cur \in ArrayAssigns
  BY <1>4, <1>9 DEF ArrayAssigns
<1>11. Key(cur) \in DOMAIN Declared
  BY <1>1, <1>10 DEF TypesVerdict
<1>12. Key(cur) = NamedKey
  BY <1>1, <1>2, <1>3, <1>11, HomeFound
<1>13. PICK l \in Assigns : NamedKey = Key(l) /\ Reached(l)
  BY <1>1, <1>2 DEF NamesRun, DefinedByFirst
<1>14. l = cur
  <2>1. l \in CheckedAssigns
    BY <1>1, NoDriftAssigns
  <2>. QED
    BY <1>1, <1>10, <1>12, <1>13, <2>1 DEF TypesVerdict
<1>15. ~Left(cur)
  BY <1>1, OnStackNotLeft DEF StackInv, StackIsPath
<1>16. PICK w \in OnStack : Kind(w) = "while" /\ w \in Ancestors(prog, cur)
  BY <1>13, <1>14, <1>15 DEF Reached
<1>. QED
  BY <1>1, <1>3, <1>16, WhileAround

\* The array an access steps into is one of as many dimensions as there are indices.
LEMMA AccessedArray ==
    ASSUME Sure, cur # 0, Kind(cur) = "access", done[cur] > 0
    PROVE  /\ cur \in Node /\ CurrArr \in Objects /\ CurrArr.ty \in ArrayTypes /\ CurrArr.alive
           /\ Fits(ret[cur].obj, DeclaredTy(cur)) /\ DOMAIN Kids(cur) = 1..Len(Kids(cur))
           /\ Len(Layers(DeclaredTy(cur))) = Len(Kids(cur)) /\ done[cur] \in DOMAIN Kids(cur)
           /\ \A j \in DOMAIN Kids(cur) : IndexChecked(cur, j)
           /\ PartOf(Values, ret[cur], done[cur] - 1)
           /\ ~UnderElse(prog, cur) /\ Len(CurrArr.shape) >= 1
<1>1. StackInv /\ ProgOK /\ EvalInv /\ TypesVerdict /\ ~Drifts /\ SoundInv
  BY SureGround
<1>2. /\ cur \in Node /\ cur \in OnStack /\ cur # 1 /\ DOMAIN Kids(cur) = 1..Len(Kids(cur))
      /\ done[cur] \in DOMAIN Kids(cur)
  <2>1. cur \in Node /\ cur \in OnStack /\ cur # 1 /\ DOMAIN Kids(cur) = 1..Len(Kids(cur))
        /\ done[cur] \in 0..Len(Kids(cur)) /\ Len(Kids(cur)) \in Nat
    BY <1>1, KidsExist, NoRoot, NodeShape DEF StackInv, StackIsPath
  <2>. QED
    BY <2>1
<1>3. ~UnderElse(prog, cur) /\ Conforms(cur)
  BY <1>1, <1>2, NoDrift DEF TypesVerdict
<1>4. /\ isArrayTy(DeclaredTy(cur)) /\ Len(Layers(DeclaredTy(cur))) = Len(Kids(cur))
      /\ \A j \in DOMAIN Kids(cur) : IndexChecked(cur, j)
  BY <1>3 DEF Conforms, ConformsTo, Dimensioned
<1>. DEFINE r == NameToValue[DeclaredKey(cur)]
<1>5. DeclaredKey(cur) \in DOMAIN NameToValue /\ ret[cur].obj = r.obj
  BY <1>1, <1>2 DEF SoundInv, AccessesNamed
<1>6. HeldAs(r, DeclaredTy(cur))
  BY <1>5 DEF HeldAs, DeclaredTy
<1>7. r.obj \in DOMAIN Values /\ r.cell \in Nat /\ Agrees(r, DeclaredTy(cur)) /\ TypeOf(Values, r) # "int32"
  BY <1>4, <1>6, HeldTypes
<1>8. CurrArr \in Objects /\ CurrArr.ty \in ArrayTypes /\ Sound(Values, ret[cur].obj)
  BY <1>1, <1>5, <1>7, HeapObjects DEF EvalInv, CurrArr, TypeOf, Objects, TypeNames
<1>9. CurrArr.alive
  <2>1. cur \in HeldNodes
    BY <1>2 DEF HeldNodes
  <2>. QED
    BY <1>1, <2>1 DEF SoundInv, HeldAlive, CurrArr
<1>10. PartOf(Values, ret[cur], done[cur] - 1)
  BY <1>1, <1>2 DEF EvalInv, AccessesInside
<1>11. Fits(ret[cur].obj, DeclaredTy(cur))
  BY <1>4, <1>5, <1>7 DEF Agrees
<1>12. Len(CurrArr.shape) >= 1
  BY <1>8 DEF Sound, CurrArr, ArrayTypes
<1>. QED
  BY <1>2, <1>3, <1>4, <1>8, <1>9, <1>10, <1>11, <1>12

\* What an access indexes is an array that has such an index, and its indices are ints.
LEMMA RanksTyped ==
    ASSUME Sure, cur # 0, Kind(cur) = "access", done[cur] > 0
    PROVE  /\ RankFault(done[cur]) # "typeConfusion" /\ IsIntArg(done[cur])
           /\ done[cur] \in DOMAIN CurrArr.shape /\ CurrArr.shape \in Seq(Nat)
<1>. DEFINE k == done[cur]
            shape == CurrArr.shape
            layers == Layers(DeclaredTy(cur))
<1>1. /\ cur \in Node /\ CurrArr.ty # "int32" /\ shape \in Seq(Nat) /\ Len(shape) >= 1
      /\ DOMAIN Kids(cur) = 1..Len(Kids(cur)) /\ k \in DOMAIN Kids(cur)
      /\ Len(layers) = Len(Kids(cur)) /\ IndexChecked(cur, k) /\ ~UnderElse(prog, cur)
  BY AccessedArray DEF Objects, ArrayTypes
<1>2. Len(shape) <= Len(layers) /\ (Len(shape) < Len(layers) => shape[Len(shape)] = 0)
  BY AccessedArray DEF Fits, CurrArr
<1>3. k - 1 \in 0..Len(shape) /\ ret[cur].cell < Parts(shape)[k - 1] /\ ret[cur].cell \in Nat
  BY AccessedArray DEF PartOf, CurrArr, References
<1>4. IsIntArg(k)
  <2>1. Kind(cur) \in ExpressionKinds
    BY ValueKinds
  <2>2. k \in Nat /\ k <= done[cur] /\ Holding(cur)
    <3>1. Len(Kids(cur)) \in Nat
      BY <1>1, SureGround, NodeShape
    <3>. QED
      BY <1>1, <2>1, <3>1 DEF Holding
  <2>3. ~isArrayTy(OperandTy(cur, k))
    BY <1>1 DEF IndexChecked
  <2>. QED
    BY <1>1, <2>2, <2>3, TypedOperand
<1>5. k <= Len(shape)
  <2>1. SUFFICES ASSUME k > Len(shape) PROVE FALSE
    <3>1. k \in Int /\ Len(shape) \in Nat
      BY <1>1, <1>3, SureGround, NodeShape
    <3>. QED
      BY <3>1
  <2>2. Len(Kids(cur)) \in Nat /\ Len(shape) \in Nat /\ k \in Nat
    BY <1>1, SureGround, NodeShape
  <2>3. k - 1 = Len(shape) /\ Len(shape) < Len(layers)
    BY <1>1, <1>3, <2>1, <2>2
  <2>4. shape[Len(shape)] = 0
    BY <1>2, <2>3
  <2>5. Parts(shape)[Len(shape)] = Parts(shape)[Len(shape) - 1] * 0 /\ Parts(shape)[Len(shape) - 1] \in Nat
    <3>1. Len(shape) \in 1..Len(shape) /\ Len(shape) - 1 \in 0..Len(shape)
      BY <1>1, <2>2
    <3>. QED
      BY <1>1, <2>4, <3>1, PartsOf
  <2>6. Parts(shape)[Len(shape)] = 0
    BY <2>5, Products
  <2>. QED
    BY <1>3, <2>3, <2>6
<1>6. k \in DOMAIN shape
  <2>1. Len(Kids(cur)) \in Nat /\ DOMAIN shape = 1..Len(shape) /\ Len(shape) \in Nat
    BY <1>1, SureGround, NodeShape
  <2>. QED
    BY <1>1, <1>5, <2>1
<1>7. RankFault(k) # "typeConfusion"
  <2>1. ~(k > Len(shape))
    BY <1>1, <1>6
  <2>. QED
    BY <1>1, <1>4, <2>1 DEF RankFault
<1>. QED
  BY <1>1, <1>4, <1>6, <1>7

\* The process stops on none of these otherwise.
LEMMA FaultsTyped ==
    ASSUME Sure, InterpNext, status' \in {"assertFailed", "typeConfusion", "dangling"}
    PROVE  \/ status' = "typeConfusion" /\ Kind(cur) = "assign" /\ UnderWhile(prog, cur)
           \/ UnderElse(prog, cur)
<1>1. /\ StackInv /\ ProgOK /\ EvalInv /\ TypesVerdict /\ Established /\ Evaluating /\ ~Drifts
      /\ SoundInv /\ Running /\ cur # 0 /\ status = "running" /\ cur \in Node
  BY SureGround, InterpRunning, KidsExist DEF Running
<1>2. SUFFICES ASSUME ~UnderElse(prog, cur)
               PROVE  status' = "typeConfusion" /\ Kind(cur) = "assign" /\ UnderWhile(prog, cur)
  OBVIOUS
<1>3. Conforms(cur)
  BY <1>1, <1>2 DEF TypesVerdict
<1>4. status' # "running"
  OBVIOUS
<1>5. ASSUME NEW i, i \in DOMAIN Kids(cur), i <= done[cur], Holding(cur), ~IsIntArg(i)
      PROVE  isArrayTy(OperandTy(cur, i))
  BY <1>1, <1>2, <1>5, TypedOperand
<1>6. ~isArrayTy(IntTy) /\ ~isArrayTy(NoTy)
  BY DEF isArrayTy, IntTy, NoTy
<1>7. ~AcceptOperand /\ ~VisitNumber /\ ~VisitPrint /\ ~VisitArrayHolder /\ ~VisitPresetArray
      /\ ~LeaveIf /\ ~WhileAgain /\ ~VisitStatementBlock
  BY <1>1, <1>4 DEF AcceptOperand, VisitNumber, VisitPrint, VisitArrayHolder, VisitPresetArray, LeaveIf,
     WhileAgain, VisitStatementBlock, Accept, Give, GiveInt, GiveArray, Return
<1>8. ~VisitRead
  BY <1>1, <1>4 DEF VisitRead, StopHere, Stop, GiveInt, Give, Return
<1>9. ~VisitVariable
  <2>1. SUFFICES ASSUME VisitVariable PROVE FALSE
    OBVIOUS
  <2>2. Kind(cur) = "variable" /\ done[cur] = 0
    <3>1. Kind(cur) = "variable" /\ done[cur] = Operands(cur)
      BY <2>1 DEF VisitVariable, Ready, At
    <3>. QED
      BY <1>1, <3>1, NodeShape DEF Operands
  <2>3. isDefined(NamesInfo, Name(cur), Scope(cur))
    BY <1>1, <2>2, UsesDeclared DEF NameDefined
  <2>. QED
    BY <1>1, <1>4, <2>1, <2>3 DEF VisitVariable, Give, Return
<1>10. ASSUME Kind(cur) \in {"un", "calc", "logic"}, NEW i \in DOMAIN Kids(cur), i <= done[cur]
       PROVE  IsIntArg(i)
  <2>1. OperandTy(cur, i) = IntTy
    BY <1>3, <1>10 DEF Conforms, ConformsTo
  <2>. QED
    BY <1>5, <1>6, <1>10, <2>1, ValueKinds DEF Holding
<1>11. ~VisitUn
  <2>1. SUFFICES ASSUME VisitUn PROVE FALSE
    OBVIOUS
  <2>2. Kind(cur) = "un" /\ done[cur] = Operands(cur)
    BY <2>1 DEF VisitUn, Ready, At
  <2>3. 1 \in DOMAIN Kids(cur) /\ 1 <= done[cur]
    BY <1>1, <2>2, NodeShape DEF Operands
  <2>. QED
    BY <1>1, <1>4, <1>10, <2>1, <2>2, <2>3 DEF VisitUn, Give, GiveInt, Return
<1>12. ~VisitCalc
  <2>1. SUFFICES ASSUME VisitCalc PROVE FALSE
    OBVIOUS
  <2>2. Kind(cur) = "calc" /\ done[cur] = Operands(cur)
    BY <2>1 DEF VisitCalc, Ready, At
  <2>3. 1 \in DOMAIN Kids(cur) /\ 2 \in DOMAIN Kids(cur) /\ 1 <= done[cur] /\ 2 <= done[cur]
    BY <1>1, <2>2, NodeShape DEF Operands
  <2>4. IsIntArg(1) /\ IsIntArg(2)
    BY <1>10, <2>2, <2>3
  <2>. QED
    BY <1>1, <1>4, <2>1, <2>4, ArithFaults DEF VisitCalc, StopHere, Stop, Give, GiveInt, Return
<1>13. ~VisitLogicLhs /\ ~VisitLogicRhs
  <2>1. CASE VisitLogicLhs
    <3>1. Kind(cur) = "logic" /\ done[cur] = 1 /\ 1 \in DOMAIN Kids(cur)
      BY <1>1, <2>1, NodeShape DEF VisitLogicLhs, At
    <3>. QED
      BY <1>1, <1>4, <1>10, <2>1, <3>1 DEF VisitLogicLhs, Accept, Give, GiveInt, Return
  <2>2. CASE VisitLogicRhs
    <3>1. Kind(cur) = "logic" /\ done[cur] = 2 /\ 2 \in DOMAIN Kids(cur)
      BY <1>1, <2>2, NodeShape DEF VisitLogicRhs, At
    <3>. QED
      BY <1>1, <1>4, <1>10, <2>2, <3>1 DEF VisitLogicRhs, Give, GiveInt, Return
  <2>. QED
    BY <2>1, <2>2
<1>14. ASSUME VisitAssignment
       PROVE  status' = "typeConfusion" /\ Kind(cur) = "assign" /\ UnderWhile(prog, cur)
  <2>1. Kind(cur) = "assign" /\ done[cur] = 1
    BY <1>14 DEF VisitAssignment, Ready, At, Operands
  <2>2. NameDefined
    BY <1>1, <1>4, <1>14 DEF VisitAssignment, Define, Give, GiveInt, Return, NameDefined
  <2>3. Assign(NameToValue[NamedKey])
    BY <1>14, <2>2 DEF VisitAssignment, NameDefined, NamedKey
  <2>4. ~IsInt(Values, NameToValue[NamedKey]) \/ ~IsIntArg(1)
    BY <1>1, <1>4, <2>3 DEF Assign, Give, Return
  <2>5. status' = "typeConfusion"
    BY <2>3, <2>4 DEF Assign, StopHere, Stop
  <2>. QED
    BY <1>1, <2>1, <2>2, <2>4, <2>5, RedefinesInLoop
<1>15. ~VisitUniformArray
  <2>1. SUFFICES ASSUME VisitUniformArray PROVE FALSE
    OBVIOUS
  <2>2. Kind(cur) = "uniform" /\ done[cur] = Operands(cur)
    BY <2>1 DEF VisitUniformArray, Ready, At
  <2>3. /\ 1 \in DOMAIN Kids(cur) /\ 2 \in DOMAIN Kids(cur) /\ 1 <= done[cur] /\ 2 <= done[cur]
        /\ Holding(cur)
    BY <1>1, <2>2, NodeShape, ValueKinds DEF Operands, Holding
  <2>4. IsIntArg(2)
    BY <1>3, <1>5, <2>2, <2>3 DEF Conforms, ConformsTo
  <2>5. ~ConstructDangles(Values, Arg(1), IntArg(2))
    <3>1. Good(Values, Arg(1)) /\ Values[Arg(1).obj].alive
      BY <1>1, <1>2, <2>3, TypedOperand
    <3>. QED
      BY <1>1, <3>1, ClonesOfAlive DEF EvalInv, SoundInv
  <2>. QED
    BY <1>1, <1>4, <2>1, <2>4, <2>5 DEF VisitUniformArray, StopHere, Stop, GiveArray, Give, Return
<1>16. ~AccessArray
  <2>1. SUFFICES ASSUME AccessArray PROVE FALSE
    OBVIOUS
  <2>2. isDefined(NamesInfo, Name(cur), Scope(cur))
    BY <1>1, <2>1, UsesDeclared DEF NameDefined, AccessArray, At
  <2>. QED
    BY <1>1, <1>4, <2>1, <2>2 DEF AccessArray, Accept
<1>17. ~AccessRank
  <2>1. SUFFICES ASSUME AccessRank PROVE FALSE
    OBVIOUS
  <2>2. RankFault(done[cur]) # "typeConfusion"
    BY <1>1, <2>1, RanksTyped DEF AccessRank
  <2>3. RankFault(done[cur]) \in {"typeConfusion", "badIndex", "none"}
    BY DEF RankFault
  <2>. QED
    BY <1>1, <1>4, <2>1, <2>2, <2>3 DEF AccessRank, StopHere, Stop, Accept, Return
<1>18. ~VisitArrayAccessAssignment
  <2>1. SUFFICES ASSUME VisitArrayAccessAssignment PROVE FALSE
    OBVIOUS
  <2>2. Kind(cur) = "accessAssign" /\ done[cur] = Operands(cur)
    BY <2>1 DEF VisitArrayAccessAssignment, Ready, At
  <2>3. 2 \in DOMAIN Kids(cur) /\ 2 <= done[cur] /\ Holding(cur)
    <3>1. Len(Kids(cur)) = 2 /\ DOMAIN Kids(cur) = 1..Len(Kids(cur))
      BY <1>1, <2>2, NodeShape
    <3>2. done[cur] = 2
      BY <2>2, <3>1 DEF Operands
    <3>. QED
      BY <2>2, <3>1, <3>2, ValueKinds DEF Holding
  <2>4. IsIntArg(2)
    BY <1>3, <1>5, <2>2, <2>3 DEF Conforms, ConformsTo
  <2>. QED
    BY <1>1, <1>4, <2>1, <2>4 DEF VisitArrayAccessAssignment, Give, Return
<1>19. ~VisitIf /\ ~VisitWhile
  <2>1. SUFFICES ASSUME VisitIf \/ VisitWhile PROVE FALSE
    OBVIOUS
  <2>2. Kind(cur) \in {"if", "while"} /\ done[cur] = 1
    BY <2>1 DEF VisitIf, VisitWhile, At
  <2>3. 1 \in DOMAIN Kids(cur) /\ 1 <= done[cur] /\ Holding(cur)
    BY <1>1, <2>2, NodeShape DEF Holding
  <2>4. OperandTy(cur, 1) = IntTy
    BY <1>3, <2>2 DEF Conforms, ConformsTo
  <2>5. IsIntArg(1)
    BY <1>5, <1>6, <2>3, <2>4
  <2>. QED
    BY <1>1, <1>4, <2>1, <2>5 DEF VisitIf, VisitWhile, Accept, Return
<1>. QED
  BY <1>7, <1>8, <1>9, <1>11, <1>12, <1>13, <1>14, <1>15, <1>16, <1>17, <1>18, <1>19 DEF InterpNext

\* An index that is out of bounds is one the checker could not compare with the size.
LEMMA IndexFaults ==
    ASSUME Sure, InterpNext, status' = "badIndex", NEW k, k = done[cur]
    PROVE  \/ ~IsKnown(res[Kid(cur, k)].val)
           \/ ~IsKnown(arrayTypes[Layers(AccessedTy)[k]].size)
<1>1. /\ StackInv /\ ProgOK /\ EvalInv /\ TypesVerdict /\ SoundInv /\ KnownHeld /\ Folded
      /\ Running /\ cur # 0 /\ status = "running"
  BY SureGround, InterpRunning DEF Running
<1>2. AccessRank
  <2>1. status' \notin {"running", "badInput", "assertFailed", "typeConfusion", "hugeArray", "dangling",
                        "none", "divByZero", "trapped"}
    OBVIOUS
  <2>2. ~VisitCalc
    BY <1>1, <2>1, ArithFaults DEF VisitCalc, StopHere, Stop, Give, GiveInt, Return
  <2>3. ~VisitAssignment
    BY <1>1, <2>1 DEF VisitAssignment, Assign, Define, StopHere, Stop, Give, GiveInt, Return
  <2>. QED
    BY <1>1, <2>1, <2>2, <2>3 DEF InterpNext, AcceptOperand, VisitNumber, VisitRead, VisitVariable, VisitUn,
       VisitLogicLhs, VisitLogicRhs, VisitPrint, VisitArrayHolder, VisitPresetArray, VisitUniformArray,
       AccessArray, VisitArrayAccessAssignment, VisitIf, LeaveIf, VisitWhile, WhileAgain,
       VisitStatementBlock, StopHere, Stop, Give, GiveInt, GiveArray, Return, Accept
<1>3. Kind(cur) = "access" /\ done[cur] > 0 /\ RankFault(k) = "badIndex"
  <2>1. Kind(cur) = "access" /\ done[cur] > 0
    BY <1>2 DEF AccessRank
  <2>2. RankFault(k) # "none"
    BY <1>1, <1>2 DEF AccessRank, Accept, Return
  <2>3. status' = RankFault(k)
    BY <1>2, <2>2 DEF AccessRank, StopHere, Stop
  <2>. QED
    BY <2>1, <2>3
<1>. DEFINE shape == CurrArr.shape
            val == res[Kid(cur, k)].val
            size == arrayTypes[Layers(AccessedTy)[k]].size
<1>4. k \in DOMAIN shape /\ shape \in Seq(Nat) /\ IsIntArg(k) /\ k \in DOMAIN Kids(cur) /\ cur \in Node
      /\ DOMAIN Kids(cur) = 1..Len(Kids(cur))
      /\ CurrArr.alive /\ Fits(ret[cur].obj, DeclaredTy(cur)) /\ IndexChecked(cur, k) /\ ~UnderElse(prog, cur)
  BY <1>1, <1>3, RanksTyped, AccessedArray
<1>5. IntArg(k) \notin 0..(shape[k] - 1)
  BY <1>3 DEF RankFault
<1>6. SUFFICES ASSUME IsKnown(val), IsKnown(size) PROVE FALSE
  OBVIOUS
<1>7. AccessedTy = DeclaredTy(cur)
  BY DEF AccessedTy, getTypeFor, DeclaredTy, DeclaredKey
<1>8. size[1] <= shape[k]
  BY <1>4, <1>6, <1>7 DEF Fits, CurrArr
<1>9. k <= done[cur] /\ Holding(cur) /\ Kind(cur) \in ExpressionKinds /\ k \in 1..Len(Kids(cur))
  <2>1. k \in Nat
    BY <1>1, <1>4, NodeShape
  <2>. QED
    BY <1>3, <1>4, <2>1, ValueKinds DEF Holding
<1>10. IntArg(k) = val[1] /\ IntArg(k) \in Int
  <2>1. IntArg(k) = val[1]
    BY <1>1, <1>6, <1>9, KnownOperand
  <2>2. IntArg(k) \in Int32
    BY <1>1, <1>4, <1>9, Operand
  <2>. QED
    BY <2>1, <2>2, Width
<1>11. OperandTy(cur, k) = IntTy
  <2>1. Kid(cur, k) \in Node /\ ~UnderElse(prog, Kid(cur, k))
    BY <1>1, <1>4, <1>9, TypedOperand
  <2>2. FoldsTo(Kid(cur, k), val)
    BY <1>1, <1>6, <2>1 DEF Folded
  <2>3. Kind(Kid(cur, k)) \in {"number", "un", "calc", "logic"}
    BY <2>2 DEF FoldsTo
  <2>4. Conforms(Kid(cur, k))
    BY <1>1, <2>1 DEF TypesVerdict
  <2>. QED
    BY <2>3, <2>4 DEF Conforms, ConformsTo, OperandTy
<1>12. val[1] >= 0 /\ val[1] < size[1]
  BY <1>4, <1>6, <1>7, <1>11 DEF IndexChecked, OperandVal
<1>13. size[1] \in Nat
  <2>1. Verdict /\ IsDeclared(cur) /\ isArrayTy(DeclaredTy(cur)) /\ Len(Layers(DeclaredTy(cur))) = Len(Kids(cur))
    <3>1. Verdict /\ Conforms(cur)
      BY <1>1, <1>4, SureGround DEF TypesVerdict
    <3>. QED
      BY <1>3, <3>1 DEF Conforms, ConformsTo, Dimensioned
  <2>2. DeclaredKey(cur) \in DOMAIN Declared
    BY <1>1, <1>4, <2>1, FoundInnermost DEF IsDeclared, DeclaredKey
  <2>3. Created(DeclaredTy(cur)) /\ DeclaredTy(cur) \in Node
    BY <2>1, <2>2 DEF Verdict, TypesCreated, DeclaredTy, Created
  <2>4. Layers(DeclaredTy(cur)) \in Seq(Node)
    BY <1>1, <2>1, <2>3, LayersOf DEF Verdict
  <2>5. Layers(DeclaredTy(cur))[k] \in Node
    BY <1>4, <2>1, <2>4
  <2>6. size \in CheckedSizes
    BY <1>7, <2>1, <2>5 DEF Verdict, CheckTypeOK
  <2>. QED
    BY <1>6, <2>6, Width DEF CheckedSizes, IsKnown, Known
<1>14. shape[k] \in Nat
  BY <1>4
<1>. QED
  BY <1>5, <1>8, <1>10, <1>12, <1>13, <1>14

-----------------------------------------------------------------------------
(***************************************************************************)
(* The evaluation preserves all of it.  Where names drift, who destroys an *)
(* array is known still; what the names stand for is not.                  *)
(***************************************************************************)
FaultsKnown ==
    /\ status \in {"assertFailed", "typeConfusion", "dangling"} => RedefinesArray \/ UnderElse(prog, cur)
    /\ status = "badIndex" =>
          LET k == done[cur]
          IN  \/ ~IsKnown(res[Kid(cur, k)].val)
              \/ ~IsKnown(arrayTypes[Layers(AccessedTy)[k]].size)

RunInv == phase = "evaluate" => OwnInv /\ (~Drifts => SoundInv /\ FaultsKnown)

\* Whether names drift is a matter of the program.
LEMMA DriftsKept ==
    ASSUME prog' = prog
    PROVE  Drifts' = Drifts
<1>1. Node' = Node /\ \A n : Kind(n)' = Kind(n)
  BY DEF Node, Kind
<1>2. NamingNodes' = NamingNodes
  BY <1>1 DEF NamingNodes, Kind, Node
<1>3. \A n : DriftProne(n)' = DriftProne(n)
  BY DEF DriftProne, SameLoop, Kind
<1>. QED
  BY <1>2, <1>3 DEF Drifts

LEMMA OwnKept ==
    ASSUME OwnInv, UNCHANGED <<prog, cur, done>>, UNCHANGED interpVars
    PROVE  OwnInv'
<1>1. /\ prog' = prog /\ cur' = cur /\ done' = done /\ ret' = ret /\ Values' = Values
      /\ NameToValue' = NameToValue /\ ResourceHandleMap' = ResourceHandleMap
  BY DEF interpVars
<1>2. /\ Node' = Node /\ OnStack' = OnStack /\ \A n : Kind(n)' = Kind(n) /\ Kids(n)' = Kids(n)
      /\ \A n : Scope(n)' = Scope(n)
  BY <1>1 DEF Node, OnStack, Kind, Kids, Scope
<1>3. \A n : Holding(n)' = Holding(n)
  BY <1>1, <1>2 DEF Holding
<1>4. HeldNodes' = HeldNodes
  BY <1>1, <1>2, <1>3 DEF HeldNodes, Kid, Kids, PastOf
<1>5. /\ \A n : Around(n)' = Around(n)
      /\ \A o : Owners(o)' = Owners(o)
      /\ \A n : Left(n)' = Left(n)
  BY <1>1, <1>2 DEF Around, Owners, Left, Kid, Kids
<1>6. OwnedOnce' /\ DeadEmpty'
  BY <1>1, <1>2, <1>5 DEF OwnInv, OwnedOnce, DeadEmpty
<1>7. NamesOwned' /\ HeldOwned'
  BY <1>1, <1>4, <1>5 DEF OwnInv, NamesOwned, HeldOwned
<1>8. InitersOuter' /\ DeadLeft' /\ ReturnsExpr'
  BY <1>1, <1>2, <1>5 DEF OwnInv, InitersOuter, DeadLeft, ReturnsExpr
<1>. QED
  BY <1>6, <1>7, <1>8 DEF OwnInv

LEMMA SoundKept ==
    ASSUME SoundInv, UNCHANGED <<prog, cur, done>>, UNCHANGED interpVars, UNCHANGED checkVars
    PROVE  SoundInv'
<1>1. /\ prog' = prog /\ cur' = cur /\ done' = done /\ ret' = ret /\ Values' = Values
      /\ NameToValue' = NameToValue /\ ResourceHandleMap' = ResourceHandleMap
      /\ res' = res /\ arrayTypes' = arrayTypes /\ Declared' = Declared
  BY DEF interpVars, checkVars
<1>2. /\ Node' = Node /\ OnStack' = OnStack /\ \A n : Kind(n)' = Kind(n) /\ Kids(n)' = Kids(n)
      /\ \A n : Scope(n)' = Scope(n) /\ Name(n)' = Name(n)
  BY <1>1 DEF Node, OnStack, Kind, Kids, Scope, Name
<1>3. \A n : Holding(n)' = Holding(n) /\ Settled(n)' = Settled(n)
  BY <1>1, <1>2 DEF Holding, Settled
<1>4. HeldNodes' = HeldNodes
  BY <1>1, <1>2, <1>3 DEF HeldNodes, Kid, Kids, PastOf
<1>5. /\ \A n : Home(n)' = Home(n) /\ Key(n)' = Key(n) /\ DeclaredKey(n)' = DeclaredKey(n)
      /\ \A o : Owners(o)' = Owners(o)
      /\ \A n : Left(n)' = Left(n)
  BY <1>1, <1>2 DEF Home, Key, DeclaredKey, Owners, Left, Kid, Kids, Name, Scope
<1>6. \A r, t : HeldAs(r, t)' = HeldAs(r, t)
  BY <1>1, <1>2, <1>3 DEF HeldAs
<1>7. \A t : Layers(t)' = Layers(t)
  BY <1>1 DEF Layers
<1>8. \A r, t : Agrees(r, t)' = Agrees(r, t)
  BY <1>1, <1>5, <1>7 DEF Agrees, Fits, RuntimeType, TypeID, Kind, isArrayTy
<1>9. AllAgree' /\ OneType'
  BY <1>1, <1>6, <1>8 DEF SoundInv, AllAgree, OneType
<1>10. NamesDeclared' /\ NamesApart' /\ AccessesNamed'
  BY <1>1, <1>2, <1>5 DEF SoundInv, NamesDeclared, NamesApart, AccessesNamed
<1>11. ArrayAssigns' = ArrayAssigns
  BY <1>1, <1>2 DEF ArrayAssigns, CheckedAssigns, Assigns, OperandTy, Kid, Kids, Kind, Node
<1>12. BoundAlive' /\ HeldAlive'
  BY <1>1, <1>2, <1>4, <1>5, <1>11 DEF SoundInv, BoundAlive, HeldAlive
<1>13. InitersAlive'
  BY <1>1 DEF SoundInv, InitersAlive, ShapeOf, Good, References
<1>. QED
  BY <1>9, <1>10, <1>12, <1>13 DEF SoundInv

\* A visit method in which the process stops leaves the stack as it was.
LEMMA StopsThere ==
    ASSUME StackInv, InterpNext, status' # "running"
    PROVE  UNCHANGED <<prog, cur, done>>
<1>1. status = "running"
  BY InterpRunning DEF Running
<1>2. Moves
  BY InterpMoves
<1>. QED
  BY <1>1, <1>2 DEF Moves, AcceptsKid, Returns, Stays, Accept, Return

LEMMA FaultsKnownNext ==
    ASSUME Sure, InterpNext, UNCHANGED checkVars
    PROVE  FaultsKnown'
<1>1. CASE status' = "running"
  BY <1>1 DEF FaultsKnown
<1>2. CASE status' # "running"
  <2>1. StackInv
    BY SureGround
  <2>2. /\ prog' = prog /\ cur' = cur /\ done' = done
        /\ res' = res /\ arrayTypes' = arrayTypes /\ Declared' = Declared
    BY <1>2, <2>1, StopsThere DEF checkVars
  <2>3. Kind(cur)' = Kind(cur)
    BY <2>2 DEF Kind
  <2>4. \A k : Kid(cur, k)' = Kid(cur, k)
    BY <2>2 DEF Kid, Kids
  <2>5. AccessedTy' = AccessedTy /\ Layers(AccessedTy)' = Layers(AccessedTy)
    BY <2>2 DEF AccessedTy, Layers, Name, Scope
  <2>6. ASSUME status' \in {"assertFailed", "typeConfusion", "dangling"}
        PROVE  RedefinesArray' \/ UnderElse(prog, cur)'
    BY <2>2, <2>3, <2>6, FaultsTyped DEF RedefinesArray
  <2>7. ASSUME status' = "badIndex"
        PROVE  \/ ~IsKnown(res[Kid(cur, done[cur])].val)
               \/ ~IsKnown(arrayTypes[Layers(AccessedTy)[done[cur]]].size)
    BY <2>7, IndexFaults
  <2>8. /\ IsKnown(res[Kid(cur, done[cur])].val)' = IsKnown(res[Kid(cur, done[cur])].val)
        /\ IsKnown(arrayTypes[Layers(AccessedTy)[done[cur]]].size)'
               = IsKnown(arrayTypes[Layers(AccessedTy)[done[cur]]].size)
    BY <2>2, <2>4, <2>5 DEF IsKnown
  <2>. QED
    BY <2>6, <2>7, <2>8 DEF FaultsKnown
<1>. QED
  BY <1>1, <1>2

LEMMA RunNext ==
    ASSUME Established, RunInv, [Next]_vars
    PROVE  RunInv'
<1>1. CASE Validate
  BY <1>1 DEF Validate, RunInv
<1>2. CASE StartEvaluation
  <2>1. /\ StackInv /\ InterpInit /\ Restarts /\ UNCHANGED interpVars
        /\ status' = "running" /\ phase' = "evaluate"
    BY <1>2 DEF StartEvaluation, Restarts, Running, Established, DataInv
  <2>2. OwnInv' /\ SoundInv'
    BY <2>1, SoundAtStart
  <2>3. FaultsKnown'
    BY <2>1 DEF FaultsKnown
  <2>. QED
    BY <2>2, <2>3 DEF RunInv
<1>3. CASE Evaluate
  <2>1. InterpNext /\ UNCHANGED checkVars /\ Evaluating /\ StackInv /\ EvalInv /\ OwnInv
    BY <1>3 DEF Evaluate, Evaluating, RunInv, Established, DataInv
  <2>2. OwnInv' /\ prog' = prog
    BY <2>1, OwnNext, InterpMoves, ProgKept
  <2>3. ASSUME ~Drifts' PROVE SoundInv' /\ FaultsKnown'
    <3>1. ~Drifts
      BY <2>2, <2>3, DriftsKept
    <3>2. Sure
      BY <2>1, <3>1 DEF Sure, RunInv, Evaluating
    <3>. QED
      BY <2>1, <3>2, SoundNext, FaultsKnownNext
  <2>. QED
    BY <2>2, <2>3 DEF RunInv
<1>4. CASE Reject \/ Exit \/ Stopped \/ UNCHANGED vars
  <2>1. /\ prog' = prog /\ cur' = cur /\ done' = done /\ UNCHANGED <<prog, cur, done>>
        /\ UNCHANGED interpVars /\ UNCHANGED checkVars /\ phase' = phase
        /\ status' \in {status, "rejected", "exited"}
    BY <1>4 DEF Reject, Exit, Stopped, Stop, vars, visitorVars, interpVars, checkVars
  <2>2. OwnInv => OwnInv'
    BY <2>1, OwnKept
  <2>3. SoundInv => SoundInv'
    BY <2>1, SoundKept
  <2>4. FaultsKnown => FaultsKnown'
    <3>1. res' = res /\ arrayTypes' = arrayTypes /\ Declared' = Declared
      BY <2>1 DEF checkVars
    <3>2. Kind(cur)' = Kind(cur) /\ Kid(cur, done[cur])' = Kid(cur, done[cur])
      BY <2>1 DEF Kind, Kid, Kids
    <3>3. AccessedTy' = AccessedTy /\ Layers(AccessedTy)' = Layers(AccessedTy)
      BY <2>1, <3>1 DEF AccessedTy, Layers, Name, Scope
    <3>. QED
      BY <2>1, <3>1, <3>2, <3>3 DEF FaultsKnown, RedefinesArray, IsKnown
  <2>5. Drifts' = Drifts
    BY <2>1, DriftsKept
  <2>. QED
    BY <2>1, <2>2, <2>3, <2>4, <2>5 DEF RunInv
<1>. QED
  BY <1>1, <1>2, <1>3, <1>4 DEF Next

LEMMA RunInvariants == Spec => [](Established /\ RunInv)
<1>1. Init => Established /\ RunInv
  BY EstablishedAtStart DEF Init, RunInv
<1>2. Established /\ RunInv /\ [Next]_vars => (Established /\ RunInv)'
  BY EstablishedNext, RunNext
<1>. QED
  BY <1>1, <1>2, PTL DEF Spec

LEMMA RunSure ==
    ASSUME Established, RunInv, Evaluating, ~Drifts
    PROVE  Sure /\ FaultsKnown
BY DEF RunInv, Sure, Evaluating

\* Before the evaluation no name is defined.
LEMMA NothingNamed ==
    ASSUME Established, NEW k \in DOMAIN NameToValue
    PROVE  Evaluating
BY DEF Established, PhaseInv, PhaseOK, DataInv, InterpInit, EmptyTable, Evaluating

(***************************************************************************)
(* What an expression returned has the type the checker gave it; the       *)
(* asserts of the visit methods hold, their casts are of what they take    *)
(* the value for, and what they read is alive, but for an array assigned   *)
(* again in a loop and for what is below an else.                          *)
(***************************************************************************)
THEOREM TypesAreSound == Spec => []TypeSound
<1>1. ASSUME Established, RunInv PROVE TypeSound
  <2>1. SUFFICES ASSUME Evaluating, ~Drifts
                 PROVE  /\ \A n \in Node \ OnStack :
                              ret[n] # Null /\ res[n].ty # NoTy =>
                                  TypeOf(Values, ret[n]) = RuntimeType(res[n].ty)
                        /\ status \in {"assertFailed", "typeConfusion", "dangling"} =>
                              RedefinesArray \/ UnderElse(prog, cur)
    BY DEF TypeSound
  <2>2. Sure /\ FaultsKnown
    BY <1>1, <2>1, RunSure
  <2>3. OwnInv /\ SoundInv /\ ResultsChecked
    BY <2>2, SureGround
  <2>4. ASSUME NEW n \in Node \ OnStack, ret[n] # Null, res[n].ty # NoTy
        PROVE  TypeOf(Values, ret[n]) = RuntimeType(res[n].ty)
    <3>1. Kind(n) \in ExpressionKinds
      BY <2>3, <2>4 DEF OwnInv, ReturnsExpr
    <3>2. ~UnderElse(prog, n)
      BY <2>3, <2>4 DEF ResultsChecked, NoResult, Result
    <3>3. HeldAs(ret[n], res[n].ty)
      BY <2>4, <3>1, <3>2 DEF HeldAs, Settled
    <3>. QED
      BY <2>3, <3>3 DEF SoundInv, AllAgree, Agrees
  <2>. QED
    BY <2>2, <2>4 DEF FaultsKnown
<1>. QED
  BY <1>1, RunInvariants, PTL

(***************************************************************************)
(* The interpreter reports no index out of bounds that the checker could   *)
(* have: of the index and the size it compares it with, one was unknown.   *)
(***************************************************************************)
THEOREM IndicesAreChecked == Spec => []ConstantIndexChecked
<1>1. ASSUME Established, RunInv PROVE ConstantIndexChecked
  <2>1. SUFFICES ASSUME Evaluating, ~Drifts, status = "badIndex"
                 PROVE  LET k == done[cur]
                        IN  \/ ~IsKnown(res[Kid(cur, k)].val)
                            \/ ~IsKnown(arrayTypes[Layers(AccessedTy)[k]].size)
    BY DEF ConstantIndexChecked
  <2>2. FaultsKnown
    BY <1>1, <2>1, RunSure
  <2>. QED
    BY <2>1, <2>2 DEF FaultsKnown
<1>. QED
  BY <1>1, RunInvariants, PTL

(***************************************************************************)
(* An assignment to one name never changes what another stands for: no     *)
(* object of Values is bound to two of them.                               *)
(***************************************************************************)
THEOREM NamesStayApart == Spec => []NamesDoNotAlias
<1>1. ASSUME Established, RunInv PROVE NamesDoNotAlias
  <2>1. SUFFICES ASSUME ~Drifts, NEW k \in DOMAIN NameToValue, NEW l \in DOMAIN NameToValue,
                        NameToValue[k] = NameToValue[l]
                 PROVE  k = l
    BY DEF NamesDoNotAlias
  <2>2. SoundInv
    BY <1>1, <2>1, NothingNamed, RunSure, SureGround
  <2>. QED
    BY <2>1, <2>2 DEF SoundInv, NamesApart
<1>. QED
  BY <1>1, RunInvariants, PTL

(***************************************************************************)
(* When a block is left the arrays bound to its names are destroyed with   *)
(* it: each is on the list of the block its name is defined in.            *)
(***************************************************************************)
THEOREM ScopesTakeTheirArrays == Spec => []LeftScopesHoldNoArray
<1>1. ASSUME Established, RunInv PROVE LeftScopesHoldNoArray
  <2>1. SUFFICES ASSUME ~Drifts, NEW k \in DOMAIN NameToValue, NameToValue[k].cell = 0,
                        Values[NameToValue[k].obj].alive
                 PROVE  k[2] \in OnStack
    BY DEF LeftScopesHoldNoArray
  <2>. DEFINE r == NameToValue[k]
  <2>2. Sure /\ LiveArraysScoped /\ TypesVerdict /\ EvalInv /\ SoundInv
    BY <1>1, <2>1, NothingNamed, RunSure, SureGround
  <2>3. Good(Values, r) /\ k \in DOMAIN Declared
    BY <2>2 DEF EvalInv, NamesBound, Bindable, SoundInv, NamesDeclared
  <2>4. r.obj \in DOMAIN Values /\ Values[r.obj].ty \in ArrayTypes /\ TypeOf(Values, r) # "int32"
    BY <2>1, <2>3 DEF Good, TypeOf, ArrayTypes
  <2>5. isArrayTy(Declared[k])
    <3>1. HeldAs(r, Declared[k])
      BY DEF HeldAs
    <3>. QED
      BY <2>2, <2>4, <3>1, HeldTypes
  <2>6. PICK m \in ArrayAssigns : Key(m) = k
    BY <2>2, <2>3, <2>5 DEF TypesVerdict
  <2>7. Owners(r.obj) = {Home(m)}
    BY <2>2, <2>6, NamedArrays
  <2>8. PICK b \in DOMAIN ResourceHandleMap : r.obj \in ResourceHandleMap[b] /\ b \in OnStack
    BY <2>1, <2>2, <2>4 DEF LiveArraysScoped
  <2>9. b = Home(m)
    BY <2>7, <2>8 DEF Owners
  <2>10. k[2] = Home(m)
    BY <2>6 DEF Key, SymTabKey
  <2>. QED
    BY <2>8, <2>9, <2>10
<1>. QED
  BY <1>1, RunInvariants, PTL

(***************************************************************************)
(* An array that is used through its name is alive, for names that do not  *)
(* drift and for those whose block is not in a loop.                       *)
(***************************************************************************)
THEOREM UsesFindLiveArrays == Spec => []UsedArraysAlive
<1>1. ASSUME Established, RunInv PROVE UsedArraysAlive
  <2>1. SUFFICES ASSUME NamingPoint, Kind(cur) # "assign", isDefined(NamesInfo, Name(cur), Scope(cur)),
                        NameToValue[NamedKey].cell = 0, ~Values[NameToValue[NamedKey].obj].alive
                 PROVE  Drifts /\ UnderWhile(prog, NamedKey[2])
    BY DEF UsedArraysAlive, NamedKey
  <2>. DEFINE o == NameToValue[NamedKey].obj
  <2>2. /\ Evaluating /\ Running /\ cur # 0 /\ done[cur] = 0 /\ Kind(cur) \in {"variable", "access"}
        /\ NameDefined
    BY <2>1 DEF NamingPoint, At, NameDefined
  <2>3. /\ StackInv /\ ProgOK /\ EvalInv /\ OwnInv
    BY <1>1, <2>2, Ground DEF RunInv, Evaluating
  <2>4. Drifts
    BY <1>1, <2>1, <2>2, RunSure, RecalledAlive
  <2>5. NamedKey \in DOMAIN NameToValue /\ NamedKey[2] \in Around(cur) /\ Bindable(Values, NameToValue[NamedKey])
    BY <2>2, <2>3, NameFoundAround
  <2>6. o \in DOMAIN Values /\ Values[o].ty \in ArrayTypes
    BY <2>1, <2>5 DEF Bindable, Good
  <2>7. PICK b \in Node : Owners(o) = {b}
    BY <2>3, <2>6 DEF OwnInv, OwnedOnce
  <2>8. cur \in Node /\ OnStack = Ancestors(prog, cur)
    BY <2>2, <2>3, KidsExist, StackIsAncestors
  <2>9. NamedKey[2] \in Ancestors(prog, cur) /\ NamedKey[2] \in Node
    <3>1. NamedKey[2] \in Ancestors(prog, cur)
      BY <2>3, <2>5, <2>8, BlocksAround
    <3>. QED
      BY <2>8, <3>1 DEF OnStack
  <2>10. b \in Ancestors(prog, NamedKey[2])
    <3>1. b \in {NamedKey[2]} \cup Around(NamedKey[2])
      BY <2>3, <2>5, <2>7 DEF OwnInv, NamesOwned
    <3>2. Around(NamedKey[2]) \subseteq Ancestors(prog, NamedKey[2])
      BY <2>3, <2>9, BlocksAround
    <3>3. NamedKey[2] \in Ancestors(prog, NamedKey[2])
      BY <2>3, <2>9, AncestorsPath DEF ProgOK, Node, Nodes
    <3>. QED
      BY <3>1, <3>2, <3>3
  <2>11. b \in OnStack
    BY <2>3, <2>8, <2>9, <2>10, AncestorsOnStack
  <2>12. UnderWhile(prog, b)
    BY <2>1, <2>2, <2>3, <2>6, <2>7, <2>11, OnStackNotLeft DEF OwnInv, DeadLeft
  <2>13. Ancestors(prog, b) \subseteq Ancestors(prog, NamedKey[2])
    BY <2>3, <2>9, <2>10, AncestorsPath DEF ProgOK, Node, Nodes
  <2>14. UnderWhile(prog, NamedKey[2])
    BY <2>12, <2>13 DEF UnderWhile, Under
  <2>. QED
    BY <2>4, <2>14
<1>. QED
  BY <1>1, RunInvariants, PTL
=============================================================================

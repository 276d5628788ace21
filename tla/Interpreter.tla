---------------------------- MODULE Interpreter ----------------------------
(***************************************************************************)
(* The tree-walking interpreter: one action per visit method, and per      *)
(* point of it where it decides which node to accept next.  An expression  *)
(* returns a reference to a value, which is the variable's own object when *)
(* the expression is a variable; the caller reads it when it needs it.     *)
(***************************************************************************)
EXTENDS Visitor, SemanticContext, PCLValue, Int32

CONSTANTS
    InputValues,        \* the ints that may be waiting on the input stream
    MaxReads            \* bound: the number of ints before the input fails

ASSUME InputAssumption == InputValues \subseteq Int32 /\ MaxReads \in Nat

VARIABLES
    ret,                \* the reference each node's last visit returned
    NamesInfo,          \* SymTbl: key -> type
    NameToValue,        \* ValManager: key -> reference
    Values,             \* ValManager: every object ever created
    ResourceHandleMap,  \* block -> the arrays it destroys when it is left
    reads,              \* the ints read so far
    output              \* what was printed

tableVars  == <<NamesInfo, NameToValue>>
interpVars == <<ret, NamesInfo, NameToValue, Values, ResourceHandleMap, reads, output>>

InterpInit ==
    /\ ret = [n \in Node |-> Null]
    /\ NamesInfo = EmptyTable /\ NameToValue = EmptyTable
    /\ Values = <<>> /\ ResourceHandleMap = EmptyTable
    /\ reads = <<>> /\ output = <<>>

-----------------------------------------------------------------------------
(***************************************************************************)
(* What the visit methods share.                                           *)
(***************************************************************************)
Arg(i) == ret[Kid(cur, i)]                   \* what the i-th kid returned
IntArg(i) == getValue(Values, Arg(i))
IsIntArg(i) == IsInt(Values, Arg(i))

Give(r) == ret' = [ret EXCEPT ![cur] = r] /\ Return

createValue(o) == Values' = Append(Values, o)
NewObj == Len(Values) + 1

\* The visit method returns a new IntegerVal.
GiveInt(v) == createValue(IntegerVal(v)) /\ Give(IntRef(NewObj))

\* Mutant: the block's list is replaced.
addResourceAlone(o, block) ==
    ResourceHandleMap' = Emplace(ResourceHandleMap, block, {o})

addResourceForFree(o, block) ==
    ResourceHandleMap' =
        Emplace(ResourceHandleMap, block,
                {o} \cup (IF block \in DOMAIN ResourceHandleMap
                          THEN ResourceHandleMap[block] ELSE {}))

\* Mutant: the root block owns every array.
GiveArrayToRoot(o) ==
    /\ createValue(o)
    /\ addResourceForFree(NewObj, 1)
    /\ Give(ArrayRef(NewObj))

\* The visit method returns a new array, which the block around the node will destroy.
GiveArray(o) ==
    /\ createValue(o)
    /\ addResourceForFree(NewObj, Scope(cur)[1])
    /\ Give(ArrayRef(NewObj))

\* Mutant: leaving a block destroys the arrays of all.
freeAllResources(block) ==
    Values' = [o \in DOMAIN Values |->
                  IF \E b \in DOMAIN ResourceHandleMap : o \in ResourceHandleMap[b]
                  THEN Destroyed(Values[o]) ELSE Values[o]]

\* ResourceHandleMap keeps what it destroyed: destroying it again changes nothing.
freeResources(block) ==
    Values' = [o \in DOMAIN Values |->
                  IF /\ block \in DOMAIN ResourceHandleMap
                     /\ o \in ResourceHandleMap[block]
                  THEN Destroyed(Values[o]) ELSE Values[o]]

StopHere(why) == Stop(why) /\ UNCHANGED interpVars

\* The number of kids a visit method accepts before it looks at what they returned.
Operands(n) ==
    CASE Kind(n) = "access" -> 0
      [] Kind(n) \in {"assign", "logic", "if", "while"} -> 1
      [] OTHER -> Len(Kids(n))

Ready(kind) == At(kind, Operands(cur))

AcceptOperand ==
    /\ Running /\ cur # 0 /\ done[cur] < Operands(cur)
    /\ Accept(done[cur] + 1)
    /\ UNCHANGED interpVars

-----------------------------------------------------------------------------
(***************************************************************************)
(* Leaves.                                                                 *)
(***************************************************************************)
VisitNumber ==
    /\ Ready("number")
    /\ GiveInt(prog[cur].val)
    /\ UNCHANGED <<tableVars, ResourceHandleMap, reads, output>>

VisitRead ==
    /\ Ready("read")
    /\ \/ StopHere("badInput")
       \/ /\ Len(reads) < MaxReads
          /\ \E v \in InputValues : reads' = Append(reads, v) /\ GiveInt(v)
          /\ UNCHANGED <<tableVars, ResourceHandleMap, output>>

VisitVariable ==
    /\ Ready("variable")
    /\ IF ~isDefined(NamesInfo, Name(cur), Scope(cur)) THEN StopHere("assertFailed")
       ELSE /\ Give(NameToValue[getDeclKeyFor(NamesInfo, Name(cur), Scope(cur))])
            /\ UNCHANGED <<tableVars, Values, ResourceHandleMap, reads, output>>

(***************************************************************************)
(* Operators.  The static_cast of an operand to IntegerVal is not checked; *)
(* the type of the first operand is asserted to be int32.                  *)
(***************************************************************************)
VisitUn ==
    /\ Ready("un")
    /\ IF ~IsIntArg(1) THEN StopHere("assertFailed")
       ELSE /\ IF Op(cur) = "+" THEN Give(Arg(1)) /\ UNCHANGED Values
                                ELSE GiveInt(UnaryValue(Op(cur), IntArg(1)))
            /\ UNCHANGED <<tableVars, ResourceHandleMap, reads, output>>

VisitCalc ==
    /\ Ready("calc")
    /\ LET fault == ArithFault(Op(cur), IntArg(1), IntArg(2))
       IN  IF ~IsIntArg(1) THEN StopHere("assertFailed")
           ELSE IF ~IsIntArg(2) THEN StopHere("typeConfusion")
           ELSE IF fault # "none" THEN StopHere(fault)
           ELSE /\ GiveInt(ArithValue(Op(cur), IntArg(1), IntArg(2)))
                /\ UNCHANGED <<tableVars, ResourceHandleMap, reads, output>>

\* Mutant: the two operators are exchanged.
ShortCircuitsSwapped(op, lhs) == (op = "&&" /\ lhs # 0) \/ (op = "||" /\ lhs = 0)

\* The left operand decides && when it is 0 and || when it is not.
ShortCircuits(op, lhs) == (op = "&&" /\ lhs = 0) \/ (op = "||" /\ lhs # 0)

VisitLogicLhs ==
    /\ At("logic", 1)
    /\ IF ~IsIntArg(1) THEN StopHere("assertFailed")
       ELSE IF ShortCircuits(Op(cur), IntArg(1))
       THEN /\ GiveInt(Truth(Op(cur) = "||"))
            /\ UNCHANGED <<tableVars, ResourceHandleMap, reads, output>>
       ELSE Accept(2) /\ UNCHANGED interpVars

VisitLogicRhs ==
    /\ At("logic", 2)
    /\ IF ~IsIntArg(2) THEN StopHere("typeConfusion")
       ELSE /\ GiveInt(LogicValue(Op(cur), IntArg(1), IntArg(2)))
            /\ UNCHANGED <<tableVars, ResourceHandleMap, reads, output>>

\* An array prints its elements, a destroyed one nothing.
VisitPrint ==
    /\ Ready("print")
    /\ output' = output \o (IF Arg(1).cell > 0 THEN <<IntArg(1)>>
                                               ELSE Values[Arg(1).obj].cells)
    /\ Give(Arg(1))
    /\ UNCHANGED <<tableVars, Values, ResourceHandleMap, reads>>

\* Mutant: a new name is global.
DefineInRoot(key) ==
    LET global == SymTabKey(key[1], 1)
    IN  /\ NamesInfo' = tryDefine(NamesInfo, global, TypeOf(Values, Arg(1)))
        /\ createValue(IntegerVal(IntArg(1)))
        /\ NameToValue' = linkValueWithName(NameToValue, global, IntRef(NewObj))
        /\ Give(IntRef(NewObj))

\* Mutant: the value is linked with another key than the type.
DefineUnlinked(key) ==
    /\ NamesInfo' = tryDefine(NamesInfo, key, TypeOf(Values, Arg(1)))
    /\ createValue(IntegerVal(IntArg(1)))
    /\ NameToValue' = linkValueWithName(NameToValue, SymTabKey(key[1], 1), IntRef(NewObj))
    /\ Give(IntRef(NewObj))

(***************************************************************************)
(* Assignment.  The first one in a scope defines the name: an int is       *)
(* copied into an object of its own, an array is bound as it is.  Later    *)
(* ones write the int and return what was assigned.                        *)
(***************************************************************************)
Define(key) ==
    /\ NamesInfo' = tryDefine(NamesInfo, key, TypeOf(Values, Arg(1)))
    /\ IF IsIntArg(1)
       THEN /\ createValue(IntegerVal(IntArg(1)))
            /\ NameToValue' = linkValueWithName(NameToValue, key, IntRef(NewObj))
            /\ Give(IntRef(NewObj))
       ELSE /\ NameToValue' = linkValueWithName(NameToValue, key, Arg(1))
            /\ Give(Arg(1))
            /\ UNCHANGED Values

Assign(target) ==
    IF ~IsInt(Values, target) \/ ~IsIntArg(1) THEN StopHere("typeConfusion")
    ELSE /\ Values' = setValue(Values, target, IntArg(1))
         /\ Give(Arg(1))
         /\ UNCHANGED <<tableVars, ResourceHandleMap, reads, output>>

VisitAssignment ==
    /\ Ready("assign")
    /\ IF isDefined(NamesInfo, Name(cur), Scope(cur))
       THEN Assign(NameToValue[getDeclKeyFor(NamesInfo, Name(cur), Scope(cur))])
       ELSE /\ Define(SymTabKey(Name(cur), Scope(cur)[1]))
            /\ UNCHANGED <<ResourceHandleMap, reads, output>>

(***************************************************************************)
(* Arrays.                                                                 *)
(***************************************************************************)
VisitArrayHolder ==
    /\ Ready("holder")
    /\ Give(Arg(1))
    /\ UNCHANGED <<tableVars, Values, ResourceHandleMap, reads, output>>

VisitPresetArray ==
    /\ Ready("preset")
    /\ LET elems == [i \in DOMAIN Kids(cur) |-> Arg(i)]
       IN  /\ \A i \in DOMAIN elems : Rank1(Values, elems[i])
           /\ GiveArray(PresetArrayVal(Values, elems))
    /\ UNCHANGED <<tableVars, reads, output>>

\* The size is converted to unsigned, so a negative one asks for an array that
\* memory cannot hold.
VisitUniformArray ==
    /\ Ready("uniform")
    /\ IF ~IsIntArg(2) THEN StopHere("typeConfusion")
       ELSE IF IntArg(2) < 0 THEN StopHere("hugeArray")
       ELSE IF ConstructDangles(Values, Arg(1), IntArg(2)) THEN StopHere("dangling")
       ELSE /\ GiveArray(UniformArrayVal(Values, Arg(1), IntArg(2)))
            /\ UNCHANGED <<tableVars, reads, output>>

\* The access looks its array up first and steps into it rank after rank: ret[cur]
\* is CurrArr, its cell the row-major offset of the part reached so far.
AccessArray ==
    /\ At("access", 0)
    /\ IF ~isDefined(NamesInfo, Name(cur), Scope(cur)) THEN StopHere("assertFailed")
       ELSE /\ ret' = [ret EXCEPT ![cur] =
                          NameToValue[getDeclKeyFor(NamesInfo, Name(cur), Scope(cur))]]
            /\ Accept(1)
            /\ UNCHANGED <<tableVars, Values, ResourceHandleMap, reads, output>>

CurrArr == Values[ret[cur].obj]

\* operator[] does not check the index, nor does the access that there is an array
\* to index.
RankFault(k) ==
    IF ~IsIntArg(k) \/ CurrArr.ty = "int32" THEN "typeConfusion"
    ELSE IF k > Len(CurrArr.shape) THEN "typeConfusion"
    ELSE IF IntArg(k) \notin 0..(CurrArr.shape[k] - 1) THEN "badIndex" ELSE "none"

AccessRank ==
    /\ Running /\ cur # 0 /\ Kind(cur) = "access" /\ done[cur] > 0
    /\ LET k == done[cur]
           offset == ret[cur].cell * CurrArr.shape[k] + IntArg(k)
       IN  IF RankFault(k) # "none" THEN StopHere(RankFault(k))
           ELSE /\ IF k < Len(Kids(cur))
                   THEN ret' = [ret EXCEPT ![cur].cell = offset] /\ Accept(k + 1)
                   ELSE /\ k = Len(CurrArr.shape)
                        /\ ret' = [ret EXCEPT ![cur].cell = offset + 1] /\ Return
                /\ UNCHANGED <<tableVars, Values, ResourceHandleMap, reads, output>>

VisitArrayAccessAssignment ==
    /\ Ready("accessAssign")
    /\ IF ~IsIntArg(2) THEN StopHere("typeConfusion")
       ELSE /\ Values' = setValue(Values, Arg(1), IntArg(2))
            /\ Give(Arg(2))
            /\ UNCHANGED <<tableVars, ResourceHandleMap, reads, output>>

(***************************************************************************)
(* Control.  The value of a statement is never used.                       *)
(***************************************************************************)
VisitIf ==
    /\ At("if", 1)
    /\ IF ~IsIntArg(1) THEN StopHere("typeConfusion")
       ELSE /\ IF IntArg(1) # 0 THEN Accept(2)
               ELSE IF Len(Kids(cur)) = 3 THEN Accept(3) ELSE Return
            /\ UNCHANGED interpVars

LeaveIf ==
    /\ At("if", 2) \/ At("if", 3)
    /\ Return /\ UNCHANGED interpVars

VisitWhile ==
    /\ At("while", 1)
    /\ IF ~IsIntArg(1) THEN StopHere("typeConfusion")
       ELSE /\ IF IntArg(1) # 0 THEN Accept(2) ELSE Return
            /\ UNCHANGED interpVars

\* Mutant: the condition is evaluated once.
WhileAgainUnconditionally ==
    /\ At("while", 2)
    /\ Accept(2) /\ UNCHANGED interpVars

WhileAgain ==
    /\ At("while", 2)
    /\ Accept(1) /\ UNCHANGED interpVars

VisitStatementBlock ==
    /\ Ready("root") \/ Ready("block")
    /\ freeResources(cur)
    /\ Return
    /\ UNCHANGED <<ret, tableVars, ResourceHandleMap, reads, output>>

InterpNext ==
    \/ AcceptOperand
    \/ VisitNumber \/ VisitRead \/ VisitVariable
    \/ VisitUn \/ VisitCalc \/ VisitLogicLhs \/ VisitLogicRhs \/ VisitPrint
    \/ VisitAssignment
    \/ VisitArrayHolder \/ VisitPresetArray \/ VisitUniformArray
    \/ AccessArray \/ AccessRank \/ VisitArrayAccessAssignment
    \/ VisitIf \/ LeaveIf \/ VisitWhile \/ WhileAgain \/ VisitStatementBlock
=============================================================================

--------------------------- MODULE CodeGenVisitor ---------------------------
(***************************************************************************)
(* The visitor that generates LLVM IR.  It walks the tree once, in source  *)
(* order, the condition of a loop twice; a visit returns the IR value of   *)
(* its node.  A variable of type int is a stack slot, an array the pointer *)
(* to its elements; what is known of the elements and the sizes of an      *)
(* array is kept in ArrInfoMap, for the arrays made from it.               *)
(***************************************************************************)
EXTENDS Visitor, SemanticContext, IR, SequencesExt

VARIABLES
    ir,               \* the builder and the function it builds
    made,             \* the value each node's last visit returned
    frame,            \* the locals of each node's visit that outlive an accept
    SymTbl,           \* key -> type
    NameToValue,      \* ValManager: key -> value
    ArrInfoMap,       \* the place of an array's pointer -> its sizes and data
    CurrArrInfo,      \* what is known of the array literal being visited
    ResourcesToFree   \* block -> the heap arrays to free at its end, in order

genVars == <<ir, made, frame, SymTbl, NameToValue, ArrInfoMap, CurrArrInfo, ResourcesToFree>>
tableVars == <<SymTbl, NameToValue>>
arrayVars == <<ArrInfoMap, CurrArrInfo, ResourcesToFree>>

\* Sizes are those of the literals around each other, innermost first.
NoArrInfo == [sizes |-> <<>>, data |-> <<>>]

GenInit ==
    /\ ir = EntryModule
    /\ made = [n \in Node |-> nullptr]
    /\ frame = [n \in Node |-> <<>>]
    /\ SymTbl = EmptyTable /\ NameToValue = EmptyTable
    /\ ArrInfoMap = EmptyTable /\ CurrArrInfo = NoArrInfo /\ ResourcesToFree = EmptyTable

-----------------------------------------------------------------------------
(***************************************************************************)
(* What the visit methods share.                                           *)
(***************************************************************************)
Made(i) == made[Kid(cur, i)]

isArray(v) == v.at \in DOMAIN ArrInfoMap
Info(v)    == ArrInfoMap[v.at]

StopGen(why) == Stop(why) /\ UNCHANGED genVars

\* The visit method returns v, having built m.
Finish(m, v) ==
    /\ made' = [made EXCEPT ![cur] = v]
    /\ frame' = [frame EXCEPT ![cur] = <<>>]
    /\ ir' = m /\ Return

FinishExpr(m) == IF m.fault # "none" THEN StopGen(m.fault)
                 ELSE Finish(m, m.val) /\ UNCHANGED <<tableVars, arrayVars>>

\* The visit method has built m and accepts its i-th operand; it keeps locals.
Continue(m, locals, i) ==
    IF m.fault # "none" THEN StopGen(m.fault)
    ELSE /\ ir' = m /\ frame' = [frame EXCEPT ![cur] = locals] /\ Accept(i)
         /\ UNCHANGED <<made, tableVars, arrayVars>>

\* A statement returns no value.
FinishStatement(m) == FinishExpr(Fold(m, nullptr))

IsShortCircuit(n) == Kind(n) = "logic" /\ Op(n) \in {"&&", "||"}

\* The number of kids a visit method accepts before it builds anything.
GenOperands(n) ==
    CASE Kind(n) \in {"holder", "preset"} -> 0
      [] Kind(n) \in {"assign", "if", "while"} \/ IsShortCircuit(n) -> 1
      [] OTHER -> Len(Kids(n))

ReadyToGen(kind) == At(kind, GenOperands(cur))

GenOperand ==
    /\ Running /\ cur # 0 /\ done[cur] < GenOperands(cur)
    /\ Accept(done[cur] + 1)
    /\ UNCHANGED genVars

\* Copies of vs in variables of their own, but for the positions kept as they are.
LocalCopies(m, vs, kept) ==
    LET Copied[i \in 0..Len(vs)] ==
            IF i = 0 THEN [m |-> m, vs |-> <<>>]
            ELSE LET before == Copied[i - 1]
                     copy   == IF i \in kept THEN Fold(before.m, vs[i])
                                              ELSE createLocalVariable(before.m, vs[i])
                 IN  [m |-> copy, vs |-> Append(before.vs, copy.val)]
    IN  Copied[Len(vs)]

\* The data of an array made before, taken as they are only when all are constants.
CopyData(m, data) == LocalCopies(m, data, IF isConstantData(data) THEN DOMAIN data ELSE {})

-----------------------------------------------------------------------------
(***************************************************************************)
(* Expressions of ints.                                                    *)
(***************************************************************************)
GenNumber ==
    /\ ReadyToGen("number")
    /\ FinishExpr(Fold(ir, Const("i32", prog[cur].val)))

GenRead ==
    /\ ReadyToGen("read")
    /\ FinishExpr(CreateScan(ir))

\* An int is loaded from its slot, an array is its pointer.
GenVariable ==
    /\ ReadyToGen("variable")
    /\ IF ~isDefined(SymTbl, Name(cur), Scope(cur)) THEN StopGen("assertFailed")
       ELSE LET v == NameToValue[getDeclKeyFor(SymTbl, Name(cur), Scope(cur))]
            IN  FinishExpr(IF Instruction(ir, v).op = "alloca" THEN CreateLoad(ir, v)
                                                              ELSE Fold(ir, v))

GenUn ==
    /\ ReadyToGen("un")
    /\ FinishExpr(CASE Op(cur) = "+" -> Fold(ir, Made(1))
                    [] Op(cur) = "-" -> CreateNeg(ir, Made(1))
                    [] Op(cur) = "!" -> CreateICmp(ir, "==", Made(1), Zero))

\* Both operands as i32.
Widened == LET lhs == CreateZExt(ir, Made(1))
               rhs == CreateZExt(lhs, Made(2))
           IN  [m |-> rhs, lhs |-> lhs.val, rhs |-> rhs.val]

GenCalc ==
    /\ ReadyToGen("calc")
    /\ FinishExpr(CreateBinOp(Widened.m, Op(cur), Widened.lhs, Widened.rhs))

GenComparison ==
    /\ ReadyToGen("logic") /\ ~IsShortCircuit(cur)
    /\ FinishExpr(CreateICmp(Widened.m, Op(cur), Widened.lhs, Widened.rhs))

\* zext and "tobool", which both createLogicAnd and createLogicOr apply to an operand.
ToBool(i) == LET wide == CreateZExt(ir, Made(i)) IN CreateICmp(wide, "!=", wide.val, Zero)

\* Mutant: && branches as || does.
GenLogicLhsSwapped ==
    /\ At("logic", 1) /\ IsShortCircuit(cur)
    /\ LET lhs   == ToBool(1)
           rhsB  == NextBlock(lhs)
           merge == rhsB + 1
           other == rhsB + 2
       IN  IF Op(cur) = "&&"
           THEN Continue(SetInsertPoint(CreateCondBr(NewBlocks(lhs, 3), lhs.val, other, rhsB), rhsB),
                         <<rhsB, merge, other>>, 2)
           ELSE Continue(SetInsertPoint(CreateCondBr(NewBlocks(lhs, 2), lhs.val, merge, rhsB), rhsB),
                         <<rhsB, merge, lhs.here>>, 2)

\* The locals are RhsBlock, MergeBlock and the block that skips the right operand:
\* and.false, or LhsBlock itself for ||.
GenLogicLhs ==
    /\ At("logic", 1) /\ IsShortCircuit(cur)
    /\ LET lhs   == ToBool(1)
           rhsB  == NextBlock(lhs)
           merge == rhsB + 1
           other == rhsB + 2
       IN  IF Op(cur) = "&&"
           THEN Continue(SetInsertPoint(CreateCondBr(NewBlocks(lhs, 3), lhs.val, rhsB, other), rhsB),
                         <<rhsB, merge, other>>, 2)
           ELSE Continue(SetInsertPoint(CreateCondBr(NewBlocks(lhs, 2), lhs.val, merge, rhsB), rhsB),
                         <<rhsB, merge, lhs.here>>, 2)

\* The PHI names RhsBlock, in whatever block the right operand ended.
GenLogicRhs ==
    /\ At("logic", 2) /\ IsShortCircuit(cur)
    /\ LET rhs   == ToBool(2)
           rhsB  == frame[cur][1]
           merge == frame[cur][2]
           other == frame[cur][3]
           left  == CreateBr(rhs, merge)
           met   == SetInsertPoint(IF Op(cur) = "||" THEN left
                                   ELSE CreateBr(SetInsertPoint(left, other), merge), merge)
       IN  FinishExpr(CreatePHI(met, <<rhs.val, Bool(Op(cur) = "||")>>, <<rhsB, other>>))

\* The elements of an array, each printed by __pcl_print.
PrintArray(p) ==
    LET size       == calculateSize(ir, Info(p).sizes)
        Pass(elem) == CreatePrint(elem, elem.val)
        Loop(m)    == endUpCountLoop(m, Pass(LoadElement(m, p, m.val)), size.val)
    IN  Loop(startUpCountLoop(size, size.val))

GenPrint ==
    /\ ReadyToGen("print")
    /\ IF isIntegerTy(Made(1)) THEN FinishExpr(Fold(CreatePrint(ir, Made(1)), Made(1)))
       ELSE IF ~isArray(Made(1)) THEN StopGen("assertFailed")
       ELSE FinishExpr(Fold(PrintArray(Made(1)), Made(1)))

(***************************************************************************)
(* Assignment.  The first one in a scope defines the name: an int gets a   *)
(* stack slot, an array keeps its pointer.  The slot is allocated where    *)
(* the code is, the value stored as wide as it is.                         *)
(***************************************************************************)
\* Mutant: the slot is not written.
DefineNameOnly(key) ==
    LET slot == IF isIntegerTy(Made(1)) THEN CreateAlloca(ir) ELSE Fold(ir, Made(1))
    IN  /\ SymTbl' = tryDefine(SymTbl, key, IF isArray(Made(1)) THEN "ptr" ELSE "none")
        /\ NameToValue' = linkValueWithName(NameToValue, key, slot.val)
        /\ Finish(slot, Made(1))

\* Mutant: the name is declared in the outermost scope.
DefineNameInRoot(key) ==
    LET slot  == CreateAlloca(ir)
        bound == IF isIntegerTy(Made(1)) THEN Fold(CreateStore(slot, Made(1), slot.val), slot.val)
                                         ELSE Fold(ir, Made(1))
    IN  /\ SymTbl' = tryDefine(SymTbl, SymTabKey(key[1], 1), IF isArray(Made(1)) THEN "ptr" ELSE "none")
        /\ NameToValue' = linkValueWithName(NameToValue, SymTabKey(key[1], 1), bound.val)
        /\ Finish(bound, Made(1))

\* Mutant: the type is recorded, the value is not.
DefineNameUnlinked(key) ==
    LET slot  == CreateAlloca(ir)
        bound == IF isIntegerTy(Made(1)) THEN CreateStore(slot, Made(1), slot.val) ELSE ir
    IN  /\ SymTbl' = tryDefine(SymTbl, key, IF isArray(Made(1)) THEN "ptr" ELSE "none")
        /\ UNCHANGED NameToValue
        /\ Finish(bound, Made(1))

DefineName(key) ==
    LET slot  == CreateAlloca(ir)
        bound == IF isIntegerTy(Made(1)) THEN Fold(CreateStore(slot, Made(1), slot.val), slot.val)
                                         ELSE Fold(ir, Made(1))
    IN  /\ SymTbl' = tryDefine(SymTbl, key, IF isArray(Made(1)) THEN "ptr" ELSE "none")
        /\ NameToValue' = linkValueWithName(NameToValue, key, bound.val)
        /\ Finish(bound, Made(1))

GenAssignment ==
    /\ ReadyToGen("assign")
    /\ IF isDefined(SymTbl, Name(cur), Scope(cur))
       THEN LET slot == NameToValue[getDeclKeyFor(SymTbl, Name(cur), Scope(cur))]
            IN  FinishExpr(Fold(CreateStore(ir, Made(1), slot), Made(1)))
       ELSE /\ DefineName(SymTabKey(Name(cur), Scope(cur)[1]))
            /\ UNCHANGED arrayVars

-----------------------------------------------------------------------------
(***************************************************************************)
(* Arrays.                                                                 *)
(***************************************************************************)
GenArrayHolder ==
    /\ At("holder", 0)
    /\ Continue(createBlockAndLinkWith(ir), <<>>, 1)

\* The element of data a loop has come to, from a support array unless there is but one.
InitialElement(loop, data, support) ==
    LET Wrapped(m) == LoadElement(m, support, m.val)
    IN  IF Len(data) = 1 THEN Fold(loop, data[1])
                         ELSE Wrapped(CreateBinOp(loop, "%", loop.val, Const("i32", Len(data))))

\* malloc, then a loop that copies the data over and over.
CreateHeapArray(info) ==
    LET size == calculateSize(ir, info.sizes)
        Loop(m, heap, support) ==
            LET Pass(init) == StoreElement(init, init.val, heap, m.val)
            IN  endUpCountLoop(m, Pass(InitialElement(m, info.data, support)), size.val)
        Filled(heap, m) == Fold(Loop(startUpCountLoop(m, size.val), heap, m.val), heap)
        Allocated(m) == Filled(m.val, allocateLocalArray(m, info.data, Len(info.data)))
    IN  Allocated(CreateMalloc(size, size.val))

createArray(info) ==
    IF isConstantData(info.sizes)
    THEN allocateLocalArray(ir, info.data, calculateSize(ir, info.sizes).val.val)
    ELSE CreateHeapArray(info)

\* Mutant: the description is not cleared.
LeaveArrInfo == UNCHANGED CurrArrInfo

ClearArrInfo == CurrArrInfo' = NoArrInfo

\* Mutant: a heap array is freed where the program ends.
addResourceToRoot(p) ==
    ResourcesToFree' = Emplace(ResourcesToFree, 1,
        Append(IF 1 \in DOMAIN ResourcesToFree THEN ResourcesToFree[1] ELSE <<>>, p))

\* Mutant: a block frees the first of its heap arrays only.
addResourceOnce(p) ==
    LET scope == Scope(cur)[1]
    IN  ResourcesToFree' = Emplace(ResourcesToFree, scope,
            IF scope \in DOMAIN ResourcesToFree THEN ResourcesToFree[scope] ELSE <<p>>)

addResource(p) ==
    LET scope == Scope(cur)[1]
    IN  ResourcesToFree' = Emplace(ResourcesToFree, scope,
            Append(IF scope \in DOMAIN ResourcesToFree THEN ResourcesToFree[scope] ELSE <<>>, p))

BindArray(arr) ==
    /\ ArrInfoMap' = Emplace(ArrInfoMap, arr.val.at, CurrArrInfo)
    /\ ClearArrInfo
    /\ IF Instruction(arr, arr.val).op = "malloc" THEN addResource(arr.val)
                                                 ELSE UNCHANGED ResourcesToFree
    /\ Finish(createBlockAndLinkWith(arr), arr.val)
    /\ UNCHANGED tableVars

GenArray ==
    /\ At("holder", 1)
    /\ LET Created(arr) == IF arr.fault # "none" THEN StopGen(arr.fault) ELSE BindArray(arr)
       IN  Created(createArray(CurrArrInfo))

(***************************************************************************)
(* repeat(init, size).  A literal in init has filled CurrArrInfo and       *)
(* returned nullptr.  A constant size other than 0 repeats the data here,  *)
(* any other leaves that to the loop that fills the array.                 *)
(***************************************************************************)
GenUniformArray ==
    /\ ReadyToGen("uniform")
    /\ LET init     == Made(1)
           size     == Made(2)
           found    == isArray(init)
           unrolled == /\ isConstantInt(size) /\ size.val # 0
                       /\ found => isConstantData(Info(init).sizes)
           pattern  == IF init = nullptr THEN CurrArrInfo.data
                       ELSE IF found THEN Info(init).data ELSE <<init>>
           times    == (IF unrolled THEN size.val ELSE 1) - (IF init = nullptr THEN 1 ELSE 0)
           all      == FlattenSeq([i \in 1..times |-> pattern])
           data     == IF found THEN CopyData(ir, all)
                       ELSE LocalCopies(ir, all, { i \in DOMAIN all : isConstantInt(all[i]) \/ ~unrolled })
           sizes    == IF found THEN CopyData(data.m, Info(init).sizes)
                                ELSE [m |-> data.m, vs |-> <<>>]
       IN  IF unrolled /\ size.val < 0 THEN StopGen("hugeArray")
           ELSE /\ CurrArrInfo' = [ sizes |-> Append(sizes.vs \o CurrArrInfo.sizes, size),
                                    data  |-> CurrArrInfo.data \o data.vs ]
                /\ Finish(sizes.m, nullptr)
                /\ UNCHANGED <<tableVars, ArrInfoMap, ResourcesToFree>>

\* array(...): the element just visited adds its data, unless it was a literal, which
\* has added its own.
ElementData(v) ==
    IF v = nullptr THEN [m |-> ir, vs |-> <<>>]
    ELSE IF ~isArray(v) THEN [m |-> ir, vs |-> <<v>>]
    ELSE IF ~isConstantData(Info(v).sizes) THEN [m |-> Fault(ir, "assertFailed"), vs |-> <<>>]
    ELSE IF calculateSize(ir, Info(v).sizes).val.val = 0 THEN [m |-> ir, vs |-> <<>>]
    ELSE CopyData(ir, Info(v).data)

LastElement == ElementData(IF done[cur] = 0 THEN nullptr ELSE Made(done[cur]))

GenPresetElement ==
    /\ Running /\ cur # 0 /\ Kind(cur) = "preset" /\ done[cur] < Len(Kids(cur))
    /\ LET Added(elem) ==
               IF elem.m.fault # "none" THEN StopGen(elem.m.fault)
               ELSE /\ CurrArrInfo' = [CurrArrInfo EXCEPT !.data = @ \o elem.vs]
                    /\ ir' = elem.m /\ Accept(done[cur] + 1)
                    /\ UNCHANGED <<made, frame, tableVars, ArrInfoMap, ResourcesToFree>>
       IN  Added(LastElement)

GenPresetArray ==
    /\ At("preset", Len(Kids(cur)))
    /\ LET Described(data) == [sizes |-> <<Const("i32", Len(data))>>, data |-> data]
           Added(elem) ==
               IF elem.m.fault # "none" THEN StopGen(elem.m.fault)
               ELSE /\ CurrArrInfo' = Described(CurrArrInfo.data \o elem.vs)
                    /\ Finish(elem.m, nullptr)
                    /\ UNCHANGED <<tableVars, ArrInfoMap, ResourcesToFree>>
       IN  Added(LastElement)

\* Mutant: the sizes are taken for outermost first.
DimensionInOrder(sizes, j) == sizes[j]

\* The size of the j-th dimension from outside.
Dimension(sizes, j) == sizes[Len(sizes) - j + 1]

\* The offset of A[i1]...[in]: each index times the sizes of the dimensions inside it.
AccessIndex(m, sizes, indexes) ==
    LET n == Len(indexes)
        Multiplier(from, i) ==
            LET Upto[j \in i..n] ==
                    IF j = i THEN Fold(from, One)
                    ELSE LET outer == Upto[j - 1]
                         IN  CreateBinOp(outer, "*", outer.val, Dimension(sizes, j))
            IN  Upto[n]
        Sum[i \in 0..n] ==
            IF i = 0 THEN Fold(m, Zero)
            ELSE LET before == Sum[i - 1]
                     times  == Multiplier(before, i)
                     term   == CreateBinOp(times, "*", indexes[i], times.val)
                 IN  CreateBinOp(term, "+", before.val, term.val)
    IN  Sum[n]

\* getArrayAccessPtr, after the indices, and the load of a plain access.
GenArrayAccess ==
    /\ ReadyToGen("access")
    /\ IF ~isDefined(SymTbl, Name(cur), Scope(cur)) THEN StopGen("assertFailed")
       ELSE LET arr     == NameToValue[getDeclKeyFor(SymTbl, Name(cur), Scope(cur))]
                indexes == [i \in DOMAIN Kids(cur) |-> Made(i)]
                Address(offset) == CreateGEP(offset, arr, offset.val)
                Element(ptr) == IF IsKid(prog, cur, "accessAssign", 1) THEN ptr ELSE LoadHere(ptr)
            IN  IF \/ \E i \in DOMAIN indexes : ~isIntegerTy(indexes[i])
                   \/ ~isArray(arr)
                THEN StopGen("assertFailed")
                ELSE IF Len(Info(arr).sizes) # Len(indexes) THEN StopGen("assertFailed")
                ELSE FinishExpr(Element(Address(AccessIndex(ir, Info(arr).sizes, indexes))))

GenArrayAccessAssignment ==
    /\ ReadyToGen("accessAssign")
    /\ FinishExpr(Fold(CreateStore(ir, Made(2), Made(1)), Made(2)))

-----------------------------------------------------------------------------
(***************************************************************************)
(* Control.                                                                *)
(***************************************************************************)
\* The locals are CondValue, CurrBlock and IfBodyBlock; IfEndBlock comes next.
GenIfCondition ==
    /\ At("if", 1)
    /\ LET c    == createCondValueIfNeed(ir, Made(1))
           body == NextBlock(c)
       IN  Continue(SetInsertPoint(NewBlocks(c, 2), body), <<c.val, c.here, body>>, 2)

\* Mutant: the builder is not set back to the block of the condition.
GenIfBodyInPlace ==
    /\ At("if", 2)
    /\ LET cond == frame[cur][1]
           body == frame[cur][3]
           end  == body + 1
           back == CreateBr(ir, end)
           else == NextBlock(back)
       IN  IF Len(Kids(cur)) = 3
           THEN Continue(SetInsertPoint(CreateCondBr(NewBlocks(back, 1), cond, body, else), else),
                         frame[cur], 3)
           ELSE FinishStatement(SetInsertPoint(CreateCondBr(back, cond, body, end), end))

GenIfBody ==
    /\ At("if", 2)
    /\ LET cond == frame[cur][1]
           body == frame[cur][3]
           end  == body + 1
           back == SetInsertPoint(CreateBr(ir, end), frame[cur][2])
           else == NextBlock(back)
       IN  IF Len(Kids(cur)) = 3
           THEN Continue(SetInsertPoint(CreateCondBr(NewBlocks(back, 1), cond, body, else), else),
                         frame[cur], 3)
           ELSE FinishStatement(SetInsertPoint(CreateCondBr(back, cond, body, end), end))

GenIfElse ==
    /\ At("if", 3)
    /\ LET end == frame[cur][3] + 1
       IN  FinishStatement(SetInsertPoint(CreateBr(ir, end), end))

\* The locals are WhileBodyBlock and WhileEndBlock, once the loop was started.
GenWhileStart ==
    /\ At("while", 1) /\ frame[cur] = <<>>
    /\ LET start == createStartWhile(ir, Made(1))
       IN  Continue(start, <<start.here, start.here + 1>>, 2)

\* Mutant: the condition computed before the loop decides again.
GenWhileOnce ==
    /\ At("while", 2)
    /\ FinishStatement(createEndWhile(ir, Made(1), frame[cur][1], frame[cur][2]))

GenWhileAgain ==
    /\ At("while", 2)
    /\ Continue(ir, frame[cur], 1)

GenWhileEnd ==
    /\ At("while", 1) /\ frame[cur] # <<>>
    /\ FinishStatement(createEndWhile(ir, Made(1), frame[cur][1], frame[cur][2]))

freeResources(m, block) ==
    LET list == IF block \in DOMAIN ResourcesToFree THEN ResourcesToFree[block] ELSE <<>>
        Freed[i \in 0..Len(list)] == IF i = 0 THEN m ELSE CreateFree(Freed[i - 1], list[i])
    IN  Freed[Len(list)]

GenStatementBlock ==
    /\ ReadyToGen("block")
    /\ FinishStatement(freeResources(ir, cur))

\* The root block also ends __pcl_start.
GenRootBlock ==
    /\ ReadyToGen("root")
    /\ FinishStatement(CreateRetVoid(createBlockAndLinkWith(freeResources(ir, cur))))

GenNext ==
    \/ GenOperand
    \/ GenNumber \/ GenRead \/ GenVariable
    \/ GenUn \/ GenCalc \/ GenComparison \/ GenLogicLhs \/ GenLogicRhs \/ GenPrint
    \/ GenAssignment
    \/ GenArrayHolder \/ GenArray \/ GenUniformArray \/ GenPresetElement \/ GenPresetArray
    \/ GenArrayAccess \/ GenArrayAccessAssignment
    \/ GenIfCondition \/ GenIfBody \/ GenIfElse
    \/ GenWhileStart \/ GenWhileAgain \/ GenWhileEnd
    \/ GenStatementBlock \/ GenRootBlock
=============================================================================

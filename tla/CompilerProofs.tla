---------------------------- MODULE CompilerProofs ----------------------------
(***************************************************************************)
(* Theorems about the compiler mode, for every program, every input and    *)
(* every width of int: the generator's code and tables are of one piece,   *)
(* what is known of an array is collected apart from every other one, and  *)
(* a name stands for the declaration the checker found for it.             *)
(***************************************************************************)
EXTENDS CompilerProperties, CheckerProofs, GeneratorProofs

-----------------------------------------------------------------------------
(***************************************************************************)
(* What a step of the generator does.  It stops, or it accepts a kid, or   *)
(* it returns the value of its node; the code only grows.                  *)
(***************************************************************************)
DataIn(m, info) == info \in [sizes : Seq(MadeIn(m)), data : Seq(MadeIn(m))]

\* The tables are kept, or the name of node cur is defined in the block it is in.
TablesStep ==
    \/ UNCHANGED tableVars
    \/ \E v \in MadeIn(ir') : \E ty :
          /\ Kind(cur) = "assign" /\ v.ty = "ptr"
          /\ ~isDefined(SymTbl, Name(cur), Scope(cur))
          /\ SymTbl' = tryDefine(SymTbl, SymTabKey(Name(cur), Home(cur)), ty)
          /\ NameToValue' = linkValueWithName(NameToValue, SymTabKey(Name(cur), Home(cur)), v)

\* An array is described, or described no more: it is bound to its pointer p.
ArraysStep ==
    /\ \/ UNCHANGED ArrInfoMap
       \/ \E p \in Places(ir') : ArrInfoMap' = Emplace(ArrInfoMap, p, CurrArrInfo)
    /\ DataIn(ir', CurrArrInfo')
    /\ \/ UNCHANGED ResourcesToFree
       \/ \E v \in Mallocs' :
             LET b == Home(cur)
             IN  /\ Kind(cur) = "holder"
                 /\ ResourcesToFree' = Emplace(ResourcesToFree, b,
                        Append(IF b \in DOMAIN ResourcesToFree THEN ResourcesToFree[b] ELSE <<>>, v))

Stops == \E why \in Ends : StopGen(why)

Continues ==
    /\ \E i \in DOMAIN Kids(cur) : i <= done[cur] + 1 /\ Accept(i)
    /\ made' = made /\ DOMAIN frame' = Node
    /\ FrameFits(ir', cur, done'[cur], frame'[cur])
    /\ \A n \in Node \ {cur} : frame'[n] = frame[n]
    /\ UNCHANGED <<tableVars, ArrInfoMap, ResourcesToFree>>

Finishes ==
    /\ Return
    /\ \E v \in MadeIn(ir') :
          (HasValue(cur) => v.ty # "none") /\ made' = [made EXCEPT ![cur] = v]
    /\ frame' = [frame EXCEPT ![cur] = <<>>]
    /\ TablesStep

GenStep ==
    /\ cur # 0
    /\ \/ Stops
       \/ From(ir, ir') /\ ir'.fault = "none" /\ ArraysStep /\ (Continues \/ Finishes)

\* The invariant of the generator.
GenInv == StackInv /\ Generating /\ GeneratorTypeOK

-----------------------------------------------------------------------------
LEMMA GenFacts ==
    ASSUME GenInv, cur # 0
    PROVE  /\ cur \in Node /\ Node = 1..Len(prog) /\ Len(prog) \in Nat
           /\ Built(ir) /\ ir.fault = "none" /\ ir.val \in MadeIn(ir)
           /\ DOMAIN made = Node /\ DOMAIN frame = Node
           /\ FrameFits(ir, cur, done[cur], frame[cur])
           /\ DataIn(ir, CurrArrInfo)
           /\ \A p \in DOMAIN ArrInfoMap : DataIn(ir, ArrInfoMap[p])
           /\ \A v : isArray(v) => DataIn(ir, Info(v))
           /\ DOMAIN Kids(cur) = 1..Len(Kids(cur)) /\ Len(Kids(cur)) \in Nat
           /\ done[cur] \in 0..Len(Kids(cur))
<1>1. /\ cur \in Node /\ Len(prog) \in Nat /\ Node = 1..Len(prog)
  BY KidsExist, Trees DEF GenInv, StackInv, ProgOK, Node
<1>2. /\ Built(ir) /\ ir.fault = "none" /\ ir.val \in MadeIn(ir)
      /\ DOMAIN made = Node /\ DOMAIN frame = Node
      /\ FrameFits(ir, cur, done[cur], frame[cur])
  BY <1>1, BuilderFields DEF GenInv, GeneratorTypeOK
<1>3. \A info \in { ArrInfoMap[p] : p \in DOMAIN ArrInfoMap } \cup {CurrArrInfo} : DataIn(ir, info)
  BY DEF GenInv, GeneratorTypeOK, DataIn
<1>4. \A v : isArray(v) => v.at \in DOMAIN ArrInfoMap /\ Info(v) = ArrInfoMap[v.at]
  BY DEF isArray, Info
<1>. QED
  BY <1>1, <1>2, <1>3, <1>4, KidsExist DEF GenInv, StackInv

\* The operands a visit method has accepted have been made; those that are no lists of
\* elements have values.
LEMMA OperandMade ==
    ASSUME GenInv, cur # 0, NEW i \in 1..done[cur]
    PROVE  /\ Made(i) \in MadeIn(ir) /\ i \in DOMAIN Kids(cur)
           /\ HasValue(Kid(cur, i)) => Made(i).ty \in {"i1", "i32", "ptr"}
<1>1. i \in DOMAIN Kids(cur) /\ cur \in Node
  BY GenFacts
<1>2. Kid(cur, i) \in Node /\ Kid(cur, i) > cur
  BY <1>1, NodeShape DEF GenInv, StackInv
<1>3. Kid(cur, i) \notin OnStack
  <2>1. \A n \in OnStack : n <= cur
    BY DEF GenInv, StackInv, StackIsPath
  <2>2. Kid(cur, i) \in Nat /\ cur \in Nat
    BY <1>1, <1>2, GenFacts
  <2>3. ~(Kid(cur, i) <= cur)
    BY <1>2, <2>2
  <2>. QED
    BY <2>1, <2>3
<1>4. /\ Made(i) \in MadeIn(ir)
      /\ HasValue(Kid(cur, i)) => Made(i).ty # "none"
  BY <1>1, <1>2, <1>3 DEF GenInv, GeneratorTypeOK, Made
<1>5. \A v \in MadeIn(ir) : v.ty \in {"none", "i1", "i32", "ptr"}
  BY DEF MadeIn, Value
<1>. QED
  BY <1>1, <1>4, <1>5

LEMMA OperandsHaveValues ==
    ASSUME ProgOK, NEW n \in Node, NEW i \in DOMAIN Kids(n), Kind(n) \in ExpressionKinds,
           Kind(n) \notin {"holder", "uniform", "preset"}
    PROVE  HasValue(Kid(n, i))
BY NodeShape, ArraysHeld DEF HasValue

LEMMA AcceptedKid ==
    ASSUME GenInv, cur # 0, NEW i \in DOMAIN Kids(cur), Accept(i)
    PROVE  /\ done'[cur] = i /\ cur' = Kid(cur, i) /\ cur' # cur /\ done'[cur'] = 0
           /\ \A n \in Node \ {cur, cur'} : done'[n] = done[n]
<1>1. done \in [Node -> Nat \cup {Idle}] /\ cur \in Node
  BY GenFacts DEF GenInv, StackInv, StackTypeOK
<1>2. Kid(cur, i) \in Node /\ Kid(cur, i) # cur
  <2>1. Kid(cur, i) \in Node /\ Kid(cur, i) > cur /\ Node \subseteq Nat
    BY <1>1, NodeShape, GenFacts DEF GenInv, StackInv
  <2>. QED
    BY <1>1, <2>1
<1>. QED
  BY <1>1, <1>2 DEF Accept

LEMMA StopStep ==
    ASSUME cur # 0, NEW why \in Faults, why # "none", StopGen(why)
    PROVE  GenStep
<1>1. why \in Ends
  BY DEF Faults, Ends
<1>. QED
  BY <1>1 DEF GenStep, Stops

LEMMA ArraysKept ==
    ASSUME GenInv, cur # 0, UNCHANGED arrayVars, From(ir, ir')
    PROVE  ArraysStep
<1>1. DataIn(ir', CurrArrInfo)
  BY GenFacts, FromBuilt DEF DataIn
<1>. QED
  BY <1>1 DEF ArraysStep, arrayVars

LEMMA FinishStep ==
    ASSUME GenInv, cur # 0, NEW m, From(ir, m), FinishExpr(m),
           m.fault = "none" /\ HasValue(cur) => m.val.ty # "none"
    PROVE  GenStep
<1>1. CASE m.fault # "none"
  <2>1. StopGen(m.fault) /\ m.fault \in Faults
    BY <1>1, FromBuilt DEF FinishExpr
  <2>. QED
    BY <1>1, <2>1, StopStep
<1>2. CASE m.fault = "none"
  <2>1. Finish(m, m.val) /\ UNCHANGED tableVars /\ UNCHANGED arrayVars
    BY <1>2 DEF FinishExpr
  <2>2. ir' = m /\ Return /\ made' = [made EXCEPT ![cur] = m.val]
        /\ frame' = [frame EXCEPT ![cur] = <<>>]
    BY <2>1 DEF Finish
  <2>3. m.val \in MadeIn(m)
    BY FromBuilt
  <2>4. ArraysStep
    BY <2>1, <2>2, ArraysKept
  <2>5. Finishes
    BY <1>2, <2>1, <2>2, <2>3 DEF Finishes, TablesStep
  <2>. QED
    BY <1>2, <2>2, <2>4, <2>5 DEF GenStep
<1>. QED
  BY <1>1, <1>2

LEMMA ContinueStep ==
    ASSUME GenInv, cur # 0, NEW m, From(ir, m), NEW f, NEW i \in DOMAIN Kids(cur),
           i <= done[cur] + 1, Continue(m, f, i),
           m.fault = "none" => FrameFits(m, cur, i, f)
    PROVE  GenStep
<1>1. CASE m.fault # "none"
  <2>1. StopGen(m.fault) /\ m.fault \in Faults
    BY <1>1, FromBuilt DEF Continue
  <2>. QED
    BY <1>1, <2>1, StopStep
<1>2. CASE m.fault = "none"
  <2>1. ir' = m /\ frame' = [frame EXCEPT ![cur] = f] /\ Accept(i)
        /\ UNCHANGED <<made, tableVars, arrayVars>>
    BY <1>2 DEF Continue
  <2>2. ArraysStep
    BY <2>1, ArraysKept
  <2>3. cur \in Node /\ DOMAIN frame = Node
    BY GenFacts
  <2>4. /\ frame'[cur] = f /\ DOMAIN frame' = Node /\ \A n \in Node \ {cur} : frame'[n] = frame[n]
    BY <2>1, <2>3
  <2>5. done'[cur] = i
    BY <2>1, <2>3, AcceptedKid
  <2>6. Continues
    BY <1>2, <2>1, <2>4, <2>5 DEF Continues, arrayVars
  <2>. QED
    BY <1>2, <2>1, <2>2, <2>6 DEF GenStep
<1>. QED
  BY <1>1, <1>2

-----------------------------------------------------------------------------
(***************************************************************************)
(* Expressions.                                                            *)
(***************************************************************************)
\* A visit method has what it needs when it has accepted these kids.
LEMMA OperandsThere ==
    ASSUME GenInv, cur # 0
    PROVE  /\ GenOperands(cur) \in 0..Len(Kids(cur))
           /\ Kind(cur) \in {"if", "while"} \/ IsShortCircuit(cur) => GenOperands(cur) = 1
           /\ Kind(cur) \in {"calc", "uniform", "accessAssign"} => GenOperands(cur) = 2
           /\ Kind(cur) = "logic" /\ ~IsShortCircuit(cur) => GenOperands(cur) = 2
           /\ Kind(cur) \in {"un", "print", "assign"} => GenOperands(cur) = 1
           /\ Kind(cur) = "access" => GenOperands(cur) = Len(Kids(cur))
<1>1. cur \in Node /\ ProgOK
  BY GenFacts DEF GenInv, StackInv
<1>2. /\ Len(Kids(cur)) \in Nat
      /\ Kind(cur) \in {"calc", "logic", "assign", "uniform", "accessAssign", "while"} =>
            Len(Kids(cur)) = 2
      /\ Kind(cur) \in {"un", "print"} => Len(Kids(cur)) = 1
      /\ Kind(cur) = "if" => Len(Kids(cur)) \in {2, 3}
  BY <1>1, NodeShape
<1>3. IsShortCircuit(cur) => Kind(cur) = "logic"
  BY DEF IsShortCircuit
<1>4. CASE Kind(cur) \in {"holder", "preset"}
  BY <1>2, <1>3, <1>4 DEF GenOperands
<1>5. CASE Kind(cur) \in {"assign", "if", "while"} \/ IsShortCircuit(cur)
  BY <1>2, <1>3, <1>5 DEF GenOperands
<1>6. CASE ~(Kind(cur) \in {"holder", "preset", "assign", "if", "while"} \/ IsShortCircuit(cur))
  <2>1. GenOperands(cur) = Len(Kids(cur))
    BY <1>6 DEF GenOperands
  <2>. QED
    BY <1>2, <1>3, <1>6, <2>1
<1>. QED
  BY <1>4, <1>5, <1>6

LEMMA LookedUp ==
    ASSUME GenInv, cur # 0, isDefined(SymTbl, Name(cur), Scope(cur))
    PROVE  LET v == NameToValue[getDeclKeyFor(SymTbl, Name(cur), Scope(cur))]
           IN  v \in MadeIn(ir) /\ v.ty = "ptr"
<1>1. cur \in Node /\ ProgOK
  BY GenFacts DEF GenInv, StackInv
<1>2. Scope(cur) \in Seq(Nat) /\ \A i \in DOMAIN Scope(cur) : Scope(cur)[i] # 0
  BY <1>1, ScopesLookUp
<1>3. getDeclKeyFor(SymTbl, Name(cur), Scope(cur)) \in DOMAIN SymTbl
  BY <1>2, Lookup
<1>. QED
  BY <1>3 DEF GenInv, GeneratorTypeOK

LEMMA OperandSteps ==
    ASSUME GenInv, GenOperand
    PROVE  GenStep
<1>. DEFINE i == done[cur] + 1
<1>1. cur # 0 /\ done[cur] < GenOperands(cur) /\ Accept(i) /\ UNCHANGED genVars
  BY DEF GenOperand
<1>2. /\ i \in DOMAIN Kids(cur) /\ i <= done[cur] + 1 /\ i <= GenOperands(cur)
      /\ Built(ir) /\ ir.fault = "none" /\ DOMAIN frame = Node
  BY <1>1, GenFacts, OperandsThere
<1>3. FrameFits(ir, cur, done[cur], frame[cur]) /\ done[cur] \in Nat
  BY <1>1, GenFacts
<1>4. FrameFits(ir, cur, i, frame[cur])
  <2>1. Kind(cur) = "if" \/ IsShortCircuit(cur) => ~(i >= 2)
    BY <1>1, <1>2, <1>3, OperandsThere
  <2>. QED
    BY <1>3, <2>1 DEF FrameFits
<1>5. done'[cur] = i
  BY <1>1, <1>2, AcceptedKid
<1>6. From(ir, ir') /\ UNCHANGED <<ir, made, frame, tableVars, arrayVars>>
  BY <1>1, <1>2, FromSelf DEF genVars, tableVars, arrayVars
<1>7. ArraysStep
  BY <1>1, <1>6, ArraysKept
<1>8. Continues
  BY <1>1, <1>2, <1>4, <1>5, <1>6 DEF Continues, arrayVars
<1>. QED
  BY <1>1, <1>2, <1>6, <1>7, <1>8 DEF GenStep

LEMMA NumberSteps ==
    ASSUME GenInv, GenNumber \/ GenRead
    PROVE  GenStep
<1>1. cur # 0 /\ Built(ir) /\ cur \in Node
  <2>1. cur # 0
    BY DEF GenNumber, GenRead, ReadyToGen, At
  <2>. QED
    BY <2>1, GenFacts
<1>2. CASE GenNumber
  <2>1. prog[cur].val \in Int32
    BY <1>1, <1>2, NodeShape DEF GenNumber, ReadyToGen, At, GenInv, StackInv
  <2>2. Const("i32", prog[cur].val) \in MadeIn(ir)
    BY <2>1, ConstantsMade, Width
  <2>. QED
    BY <1>1, <1>2, <2>2, ValueSet, FinishStep DEF GenNumber, Const
<1>3. CASE GenRead
  <2>1. Emits(ir, CreateScan(ir), "i32")
    BY <1>1, Emitted
  <2>2. From(ir, CreateScan(ir)) /\ CreateScan(ir).val.ty = "i32"
    BY <2>1 DEF Emits
  <2>. QED
    BY <1>1, <1>3, <2>2, FinishStep DEF GenRead
<1>. QED
  BY <1>2, <1>3

LEMMA VariableSteps ==
    ASSUME GenInv, GenVariable
    PROVE  GenStep
<1>. DEFINE v == NameToValue[getDeclKeyFor(SymTbl, Name(cur), Scope(cur))]
<1>1. cur # 0 /\ Built(ir)
  <2>1. cur # 0
    BY DEF GenVariable, ReadyToGen, At
  <2>. QED
    BY <2>1, GenFacts
<1>2. CASE ~isDefined(SymTbl, Name(cur), Scope(cur))
  BY <1>1, <1>2, StopStep DEF GenVariable, Faults
<1>3. CASE isDefined(SymTbl, Name(cur), Scope(cur))
  <2>1. v \in MadeIn(ir) /\ v.ty = "ptr"
    BY <1>1, <1>3, LookedUp
  <2>2. FinishExpr(CreateLoad(ir, v)) \/ FinishExpr(Fold(ir, v))
    BY <1>3 DEF GenVariable
  <2>. HIDE DEF v
  <2>3. From(ir, CreateLoad(ir, v)) /\ CreateLoad(ir, v).val.ty = "i32"
    BY <1>1, <2>1, Emitted DEF Emits
  <2>4. From(ir, Fold(ir, v)) /\ Fold(ir, v).val.ty = "ptr"
    BY <1>1, <2>1, ValueSet
  <2>. QED
    BY <1>1, <2>2, <2>3, <2>4, FinishStep
<1>. QED
  BY <1>2, <1>3

LEMMA UnSteps ==
    ASSUME GenInv, GenUn
    PROVE  GenStep
<1>1. cur # 0 /\ Kind(cur) = "un" /\ done[cur] = GenOperands(cur)
  BY DEF GenUn, ReadyToGen, At
<1>2. Built(ir) /\ cur \in Node /\ ProgOK /\ done[cur] = 1 /\ 1 \in 1..done[cur]
  BY <1>1, GenFacts, OperandsThere DEF GenInv, StackInv
<1>3. HasValue(Kid(cur, 1)) /\ Op(cur) \in {"+", "-", "!"}
  <2>1. 1 \in DOMAIN Kids(cur)
    BY <1>1, <1>2, OperandMade
  <2>. QED
    BY <1>1, <1>2, <2>1, OperandsHaveValues, NodeShape DEF ExpressionKinds, Arity
<1>4. Made(1) \in MadeIn(ir) /\ Made(1).ty \in {"i1", "i32", "ptr"}
  BY <1>1, <1>2, <1>3, OperandMade
<1>5. /\ From(ir, Fold(ir, Made(1))) /\ Fold(ir, Made(1)).val = Made(1)
      /\ Yields(ir, CreateNeg(ir, Made(1)), Made(1).ty)
      /\ Yields(ir, CreateICmp(ir, "==", Made(1), Zero), "i1")
  BY <1>2, <1>4, ValueSet, ConstantsMade, Computed DEF Comparisons
<1>6. \/ FinishExpr(Fold(ir, Made(1))) \/ FinishExpr(CreateNeg(ir, Made(1)))
      \/ FinishExpr(CreateICmp(ir, "==", Made(1), Zero))
  BY <1>3 DEF GenUn
<1>7. \A m : Yields(ir, m, Made(1).ty) \/ Yields(ir, m, "i1") =>
                From(ir, m) /\ (m.fault = "none" => m.val.ty # "none")
  BY <1>4 DEF Yields
<1>. HIDE DEF Made
<1>. QED
  BY <1>1, <1>4, <1>5, <1>6, <1>7, FinishStep

\* Two operands as ints.
LEMMA WidenedBuilt ==
    ASSUME GenInv, cur # 0, Kind(cur) \in {"calc", "logic"}, done[cur] = 2
    PROVE  /\ From(ir, Widened.m) /\ Widened.lhs \in MadeIn(Widened.m)
           /\ Widened.rhs \in MadeIn(Widened.m)
           /\ Widened.m.fault = "none" => Widened.lhs.ty = "i32"
<1>. DEFINE a == CreateZExt(ir, Made(1))
            b == CreateZExt(a, Made(2))
<1>1. Built(ir) /\ Made(1) \in MadeIn(ir) /\ Made(2) \in MadeIn(ir)
  BY GenFacts, OperandMade
<1>2. Yields(ir, a, "i32")
  BY <1>1, Computed
<1>. HIDE DEF a
<1>3. From(ir, a) /\ Built(a) /\ Made(2) \in MadeIn(a) /\ a.val \in MadeIn(a)
      /\ (a.fault = "none" => a.val.ty = "i32")
  BY <1>1, <1>2, FromBuilt DEF Yields
<1>4. Yields(a, b, "i32")
  BY <1>3, Computed
<1>. HIDE DEF b
<1>5. From(a, b) /\ a.val \in MadeIn(b) /\ b.val \in MadeIn(b) /\ (b.fault = "none" => a.fault = "none")
  BY <1>3, <1>4, FromBuilt DEF Yields, Grows
<1>6. Widened = [m |-> b, lhs |-> a.val, rhs |-> b.val]
  BY DEF Widened, a, b
<1>. QED
  BY <1>3, <1>5, <1>6, FromFurther

LEMMA CalcSteps ==
    ASSUME GenInv, GenCalc \/ GenComparison
    PROVE  GenStep
<1>. DEFINE w == Widened
<1>1. cur # 0 /\ Kind(cur) \in {"calc", "logic"}
  BY DEF GenCalc, GenComparison, ReadyToGen, At
<1>2. done[cur] = 2 /\ cur \in Node /\ ProgOK
  BY <1>1, OperandsThere, GenFacts DEF GenCalc, GenComparison, ReadyToGen, At, GenInv, StackInv
<1>3. /\ From(ir, w.m) /\ w.lhs \in MadeIn(w.m) /\ w.rhs \in MadeIn(w.m) /\ Built(w.m)
      /\ w.m.fault = "none" => w.lhs.ty = "i32"
  BY <1>1, <1>2, WidenedBuilt, FromBuilt
<1>4. ASSUME NEW k, NEW ty, Yields(w.m, k, ty), ty \in {w.lhs.ty, "i1"}, FinishExpr(k)
      PROVE  GenStep
  <2>1. From(ir, k) /\ (k.fault = "none" => k.val.ty # "none")
    BY <1>3, <1>4, FromFurther DEF Yields, From, Grows
  <2>. QED
    BY <1>1, <1>4, <2>1, FinishStep
<1>5. CASE GenCalc
  <2>1. Op(cur) \in Calcs
    BY <1>2, <1>5, NodeShape DEF GenCalc, ReadyToGen, At, Calcs
  <2>2. Yields(w.m, CreateBinOp(w.m, Op(cur), w.lhs, w.rhs), w.lhs.ty)
    BY <1>3, <2>1, Computed
  <2>3. FinishExpr(CreateBinOp(w.m, Op(cur), w.lhs, w.rhs))
    BY <1>5 DEF GenCalc
  <2>. HIDE DEF w
  <2>. QED
    BY <1>4, <2>2, <2>3
<1>6. CASE GenComparison
  <2>1. Op(cur) \in Comparisons
    BY <1>2, <1>6, NodeShape DEF GenComparison, ReadyToGen, At, Comparisons, IsShortCircuit
  <2>2. Yields(w.m, CreateICmp(w.m, Op(cur), w.lhs, w.rhs), "i1")
    BY <1>3, <2>1, Computed
  <2>3. FinishExpr(CreateICmp(w.m, Op(cur), w.lhs, w.rhs))
    BY <1>6 DEF GenComparison
  <2>. HIDE DEF w
  <2>. QED
    BY <1>4, <2>2, <2>3
<1>. QED
  BY <1>5, <1>6

LEMMA BoolMade ==
    ASSUME GenInv, cur # 0, NEW i \in 1..done[cur]
    PROVE  LET k == ToBool(i) IN From(ir, k) /\ k.val \in MadeIn(k) /\ Len(k.blocks) \in Nat
                                 /\ DOMAIN k.blocks = 1..Len(k.blocks) /\ k.here \in DOMAIN k.blocks
<1>. DEFINE a == CreateZExt(ir, Made(i))
            b == CreateICmp(a, "!=", a.val, Zero)
<1>1. Built(ir) /\ Made(i) \in MadeIn(ir)
  BY GenFacts, OperandMade
<1>2. From(ir, a)
  BY <1>1, Computed DEF Yields
<1>. HIDE DEF a
<1>3. From(a, b)
  BY <1>2, FromBuilt, ConstantsMade, Computed DEF Yields, Comparisons
<1>4. ToBool(i) = b
  BY DEF ToBool, a, b
<1>. HIDE DEF b
<1>5. From(ir, b) /\ Built(b) /\ b.val \in MadeIn(b)
  BY <1>2, <1>3, FromFurther, FromBuilt
<1>. QED
  BY <1>4, <1>5, BuilderFields

LEMMA LogicLhsSteps ==
    ASSUME GenInv, GenLogicLhs
    PROVE  GenStep
<1>. DEFINE lhs == ToBool(1)
            n == Len(lhs.blocks)
            and == SetInsertPoint(CreateCondBr(NewBlocks(lhs, 3), lhs.val, n + 1, n + 1 + 2), n + 1)
            or  == SetInsertPoint(CreateCondBr(NewBlocks(lhs, 2), lhs.val, n + 1 + 1, n + 1), n + 1)
<1>1. cur # 0 /\ Kind(cur) = "logic" /\ IsShortCircuit(cur) /\ done[cur] = 1 /\ cur \in Node
      /\ 2 \in DOMAIN Kids(cur)
  <2>1. cur # 0 /\ Kind(cur) = "logic" /\ IsShortCircuit(cur) /\ done[cur] = 1
    BY DEF GenLogicLhs, At
  <2>. QED
    BY <2>1, GenFacts, SecondKid DEF GenInv
<1>2. /\ From(ir, lhs) /\ lhs.val \in MadeIn(lhs) /\ Built(lhs) /\ n \in Nat
      /\ DOMAIN lhs.blocks = 1..n /\ lhs.here \in 1..n
  BY <1>1, BoolMade, FromBuilt
<1>3. \/ Continue(and, <<n + 1, n + 1 + 1, n + 1 + 2>>, 2)
      \/ Continue(or, <<n + 1, n + 1 + 1, lhs.here>>, 2)
  BY DEF GenLogicLhs, NextBlock
<1>8. n = Len(lhs.blocks)
  OBVIOUS
<1>. HIDE DEF lhs, n
<1>4. /\ n + 1 \in 1..(n + 3) /\ n + 1 + 1 \in 1..(n + 3) /\ n + 1 + 2 \in 1..(n + 3)
      /\ n + 1 \in 1..(n + 2) /\ n + 1 + 1 \in 1..(n + 2) /\ lhs.here \in 1..(n + 2)
  BY <1>2
<1>5. /\ From(lhs, and) /\ and.fault = lhs.fault /\ DOMAIN and.blocks = 1..(n + 3)
  <2>. DEFINE p == n + 1
              q == n + 1 + 2
  <2>1. p \in 1..(Len(lhs.blocks) + 3) /\ q \in 1..(Len(lhs.blocks) + 3)
    BY <1>4, <1>8
  <2>. HIDE DEF p, q
  <2>2. LET k == SetInsertPoint(CreateCondBr(NewBlocks(lhs, 3), lhs.val, p, q), p)
        IN  From(lhs, k) /\ k.fault = lhs.fault /\ DOMAIN k.blocks = 1..(Len(lhs.blocks) + 3)
    BY <1>2, <2>1, Branched
  <2>. QED
    BY <1>8, <2>2 DEF p, q
<1>6. /\ From(lhs, or) /\ or.fault = lhs.fault /\ DOMAIN or.blocks = 1..(n + 2)
  <2>. DEFINE p == n + 1
              q == n + 1 + 1
  <2>1. p \in 1..(Len(lhs.blocks) + 2) /\ q \in 1..(Len(lhs.blocks) + 2)
    BY <1>4, <1>8
  <2>. HIDE DEF p, q
  <2>2. LET k == SetInsertPoint(CreateCondBr(NewBlocks(lhs, 2), lhs.val, q, p), p)
        IN  From(lhs, k) /\ k.fault = lhs.fault /\ DOMAIN k.blocks = 1..(Len(lhs.blocks) + 2)
    BY <1>2, <2>1, Branched
  <2>. QED
    BY <1>8, <2>2 DEF p, q
<1>. HIDE DEF and, or
<1>7. /\ From(ir, and) /\ FrameFits(and, cur, 2, <<n + 1, n + 1 + 1, n + 1 + 2>>)
      /\ From(ir, or) /\ FrameFits(or, cur, 2, <<n + 1, n + 1 + 1, lhs.here>>)
  BY <1>1, <1>2, <1>4, <1>5, <1>6, FromFurther DEF FrameFits
<1>. QED
  BY <1>1, <1>3, <1>7, ContinueStep

LEMMA LogicRhsSteps ==
    ASSUME GenInv, GenLogicRhs
    PROVE  GenStep
<1>. DEFINE rhs == ToBool(2)
            rhsB == frame[cur][1]
            merge == frame[cur][2]
            other == frame[cur][3]
            left == CreateBr(rhs, merge)
            or  == SetInsertPoint(left, merge)
            back == SetInsertPoint(left, other)
            and == SetInsertPoint(CreateBr(back, merge), merge)
            phi(m) == CreatePHI(m, <<rhs.val, Bool(Op(cur) = "||")>>, <<rhsB, other>>)
<1>1. cur # 0 /\ Kind(cur) = "logic" /\ IsShortCircuit(cur) /\ done[cur] = 2 /\ cur \in Node
  <2>1. cur # 0 /\ Kind(cur) = "logic" /\ IsShortCircuit(cur) /\ done[cur] = 2
    BY DEF GenLogicRhs, At
  <2>. QED
    BY <2>1, GenFacts
<1>2. {rhsB, merge, other} \subseteq DOMAIN ir.blocks
  BY <1>1, GenFacts DEF FrameFits
<1>3. FinishExpr(phi(or)) \/ FinishExpr(phi(and))
  BY DEF GenLogicRhs
<1>4. From(ir, rhs) /\ rhs.val \in MadeIn(rhs) /\ Built(rhs)
  BY <1>1, BoolMade, FromBuilt
<1>. HIDE DEF rhs, rhsB, merge, other
<1>5. {rhsB, merge, other} \subseteq DOMAIN rhs.blocks
  BY <1>2, <1>4, FromBuilt
<1>6. From(rhs, or) /\ From(rhs, back) /\ DOMAIN back.blocks = DOMAIN rhs.blocks
  BY <1>4, <1>5, Jumped
<1>. HIDE DEF or, back, left
<1>7. From(back, and)
  BY <1>5, <1>6, FromBuilt, Jumped
<1>. HIDE DEF and
<1>8. From(rhs, and)
  BY <1>6, <1>7, FromFurther
<1>9. ASSUME NEW m, From(rhs, m) PROVE From(ir, phi(m)) /\ phi(m).val.ty = "i1"
  <2>. DEFINE skip == Bool(Op(cur) = "||")
  <2>3. rhs.val \in MadeIn(m) /\ skip \in MadeIn(m) /\ rhsB \in DOMAIN m.blocks
        /\ other \in DOMAIN m.blocks
    BY <1>4, <1>5, <1>9, FromBuilt, ConstantsMade
  <2>. HIDE DEF skip
  <2>4. <<rhs.val, skip>> \in Seq(MadeIn(m)) /\ <<rhsB, other>> \in Seq(DOMAIN m.blocks)
    BY <2>3
  <2>1. <<rhs.val, Bool(Op(cur) = "||")>> \in Seq(MadeIn(m))
        /\ <<rhsB, other>> \in Seq(DOMAIN m.blocks)
    BY <2>4 DEF skip
  <2>2. Emits(m, phi(m), "i1")
    BY <1>9, <2>1, FromBuilt, Emitted
  <2>. HIDE DEF phi
  <2>. QED
    BY <1>4, <1>9, <2>2, FromFurther DEF Emits
<1>10. From(ir, phi(or)) /\ From(ir, phi(and)) /\ phi(or).val.ty = "i1" /\ phi(and).val.ty = "i1"
  BY <1>6, <1>8, <1>9
<1>. HIDE DEF phi
<1>. QED
  BY <1>1, <1>3, <1>10, FinishStep

LEMMA PrintSteps ==
    ASSUME GenInv, GenPrint
    PROVE  GenStep
<1>1. cur # 0 /\ Kind(cur) = "print" /\ done[cur] = 1 /\ cur \in Node /\ Built(ir) /\ ProgOK
  <2>1. cur # 0 /\ Kind(cur) = "print" /\ done[cur] = GenOperands(cur)
    BY DEF GenPrint, ReadyToGen, At
  <2>. QED
    BY <2>1, GenFacts, OperandsThere DEF GenInv, StackInv
<1>2. Made(1) \in MadeIn(ir) /\ Made(1).ty # "none"
  <2>1. 1 \in DOMAIN Kids(cur) /\ 1 \in 1..done[cur]
    BY <1>1, OperandMade
  <2>2. HasValue(Kid(cur, 1))
    BY <1>1, <2>1, OperandsHaveValues DEF ExpressionKinds, Arity
  <2>. QED
    BY <1>1, <2>1, <2>2, OperandMade
<1>3. ASSUME NEW m, From(ir, m), FinishExpr(Fold(m, Made(1)))
      PROVE  GenStep
  <2>1. From(m, Fold(m, Made(1))) /\ Fold(m, Made(1)).val = Made(1)
    BY <1>2, <1>3, FromBuilt, ValueSet
  <2>2. From(ir, Fold(m, Made(1)))
    BY <1>3, <2>1, FromFurther
  <2>. QED
    BY <1>1, <1>2, <1>3, <2>1, <2>2, FinishStep
<1>4. CASE isIntegerTy(Made(1))
  <2>1. From(ir, CreatePrint(ir, Made(1)))
    BY <1>1, <1>2, Emitted DEF Emits
  <2>. QED
    BY <1>3, <1>4, <2>1 DEF GenPrint
<1>5. CASE ~isIntegerTy(Made(1)) /\ ~isArray(Made(1))
  BY <1>1, <1>5, StopStep DEF GenPrint, Faults
<1>6. CASE ~isIntegerTy(Made(1)) /\ isArray(Made(1))
  <2>1. From(ir, PrintArray(Made(1)))
    BY <1>1, <1>2, <1>6, GenFacts, ArrayPrinted DEF DataIn
  <2>. QED
    BY <1>3, <1>6, <2>1 DEF GenPrint
<1>. QED
  BY <1>4, <1>5, <1>6

LEMMA AssignmentSteps ==
    ASSUME GenInv, GenAssignment
    PROVE  GenStep
<1>1. cur # 0 /\ Kind(cur) = "assign" /\ done[cur] = 1 /\ cur \in Node /\ Built(ir) /\ ProgOK
      /\ ir.fault = "none"
  <2>1. cur # 0 /\ Kind(cur) = "assign" /\ done[cur] = GenOperands(cur)
    BY DEF GenAssignment, ReadyToGen, At
  <2>. QED
    BY <2>1, GenFacts, OperandsThere DEF GenInv, StackInv
<1>2. Made(1) \in MadeIn(ir) /\ Made(1).ty \in {"i1", "i32", "ptr"}
  <2>1. 1 \in DOMAIN Kids(cur) /\ 1 \in 1..done[cur]
    BY <1>1, OperandMade
  <2>2. HasValue(Kid(cur, 1))
    BY <1>1, <2>1, OperandsHaveValues DEF ExpressionKinds, Arity
  <2>. QED
    BY <1>1, <2>1, <2>2, OperandMade
<1>3. CASE isDefined(SymTbl, Name(cur), Scope(cur))
  <2>. DEFINE v == NameToValue[getDeclKeyFor(SymTbl, Name(cur), Scope(cur))]
              m == CreateStore(ir, Made(1), v)
  <2>1. FinishExpr(Fold(m, Made(1)))
    BY <1>3 DEF GenAssignment
  <2>2. From(ir, m)
    BY <1>1, <1>2, <1>3, LookedUp, Emitted DEF Emits
  <2>. HIDE DEF m
  <2>3. From(m, Fold(m, Made(1))) /\ Fold(m, Made(1)).val = Made(1)
    BY <1>2, <2>2, FromBuilt, ValueSet
  <2>4. From(ir, Fold(m, Made(1)))
    BY <2>2, <2>3, FromFurther
  <2>. QED
    BY <1>1, <1>2, <2>1, <2>3, <2>4, FinishStep
<1>4. CASE ~isDefined(SymTbl, Name(cur), Scope(cur))
  <2>. DEFINE key == SymTabKey(Name(cur), Scope(cur)[1])
              slot == CreateAlloca(ir)
              st == CreateStore(slot, Made(1), slot.val)
              bound == IF isIntegerTy(Made(1)) THEN Fold(st, slot.val) ELSE Fold(ir, Made(1))
              ty == IF isArray(Made(1)) THEN "ptr" ELSE "none"
  <2>1. /\ SymTbl' = tryDefine(SymTbl, key, ty)
        /\ NameToValue' = linkValueWithName(NameToValue, key, bound.val)
        /\ Finish(bound, Made(1)) /\ UNCHANGED arrayVars
    BY <1>4 DEF GenAssignment, DefineName
  <2>2. Emits(ir, slot, "ptr")
    BY <1>1, Emitted
  <2>. HIDE DEF slot
  <2>3. From(ir, slot) /\ slot.val \in MadeIn(slot) /\ slot.fault = "none" /\ slot.val.ty = "ptr"
        /\ Made(1) \in MadeIn(slot)
    BY <1>1, <1>2, <2>2, FromBuilt DEF Emits
  <2>4. Emits(slot, st, "none")
    BY <2>3, FromBuilt, Emitted
  <2>. HIDE DEF st
  <2>5. From(ir, st) /\ slot.val \in MadeIn(st) /\ st.fault = "none" /\ Built(st)
    BY <2>3, <2>4, FromBuilt, FromFurther DEF Emits
  <2>6. From(st, Fold(st, slot.val)) /\ Fold(st, slot.val).val = slot.val
        /\ Fold(st, slot.val).fault = "none"
    BY <2>5, ValueSet
  <2>7. From(ir, Fold(st, slot.val))
    BY <2>5, <2>6, FromFurther
  <2>8. From(ir, Fold(ir, Made(1))) /\ Fold(ir, Made(1)).val = Made(1)
        /\ Fold(ir, Made(1)).fault = "none"
    BY <1>1, <1>2, ValueSet
  <2>9. ~isIntegerTy(Made(1)) => Made(1).ty = "ptr"
    BY <1>2 DEF isIntegerTy
  <2>10. From(ir, bound) /\ bound.fault = "none" /\ bound.val.ty = "ptr"
    BY <2>3, <2>6, <2>7, <2>8, <2>9
  <2>. HIDE DEF bound, ty
  <2>11. ir' = bound /\ Return /\ made' = [made EXCEPT ![cur] = Made(1)]
         /\ frame' = [frame EXCEPT ![cur] = <<>>]
    BY <2>1 DEF Finish
  <2>12. bound.val \in MadeIn(bound) /\ Made(1) \in MadeIn(bound)
    BY <1>2, <2>10, FromBuilt
  <2>13. TablesStep
    BY <1>1, <1>4, <2>1, <2>10, <2>11, <2>12 DEF TablesStep, Home
  <2>14. ArraysStep
    BY <1>1, <2>1, <2>10, <2>11, ArraysKept
  <2>15. Finishes
    BY <1>2, <2>11, <2>12, <2>13 DEF Finishes
  <2>. QED
    BY <1>1, <2>10, <2>11, <2>14, <2>15 DEF GenStep
<1>. QED
  BY <1>3, <1>4

LEMMA AccessAssignmentSteps ==
    ASSUME GenInv, GenArrayAccessAssignment
    PROVE  GenStep
<1>1. cur # 0 /\ Kind(cur) = "accessAssign" /\ done[cur] = 2 /\ cur \in Node /\ Built(ir) /\ ProgOK
  <2>1. cur # 0 /\ Kind(cur) = "accessAssign" /\ done[cur] = GenOperands(cur)
    BY DEF GenArrayAccessAssignment, ReadyToGen, At
  <2>. QED
    BY <2>1, GenFacts, OperandsThere DEF GenInv, StackInv
<1>2. Made(1) \in MadeIn(ir) /\ Made(2) \in MadeIn(ir) /\ Made(2).ty # "none"
  <2>1. 2 \in DOMAIN Kids(cur) /\ 2 \in 1..done[cur] /\ 1 \in 1..done[cur]
    BY <1>1, OperandMade
  <2>2. HasValue(Kid(cur, 2))
    BY <1>1, <2>1, OperandsHaveValues DEF ExpressionKinds, Arity
  <2>. QED
    BY <1>1, <2>1, <2>2, OperandMade
<1>. DEFINE m == CreateStore(ir, Made(2), Made(1))
<1>3. FinishExpr(Fold(m, Made(2)))
  BY DEF GenArrayAccessAssignment
<1>4. From(ir, m)
  BY <1>1, <1>2, Emitted DEF Emits
<1>. HIDE DEF m
<1>5. From(m, Fold(m, Made(2))) /\ Fold(m, Made(2)).val = Made(2)
  BY <1>2, <1>4, FromBuilt, ValueSet
<1>6. From(ir, Fold(m, Made(2)))
  BY <1>4, <1>5, FromFurther
<1>. QED
  BY <1>1, <1>2, <1>3, <1>5, <1>6, FinishStep

-----------------------------------------------------------------------------
(***************************************************************************)
(* Control.                                                                *)
(***************************************************************************)
LEMMA StatementStep ==
    ASSUME GenInv, cur # 0, NEW m, From(ir, m), FinishStatement(m), ~HasValue(cur)
    PROVE  GenStep
<1>1. From(m, Fold(m, nullptr))
  BY FromBuilt, ConstantsMade, ValueSet
<1>2. From(ir, Fold(m, nullptr))
  BY <1>1, FromFurther
<1>. QED
  BY <1>2, FinishStep DEF FinishStatement

\* The locals of a visit fit the code that has grown since, and do not depend on how many
\* kids were accepted after the second.
LEMMA FrameKept ==
    ASSUME NEW m, NEW k, Grows(m, k), NEW n, NEW d, NEW e, NEW f, FrameFits(m, n, d, f),
           e >= 2 => d >= 2
    PROVE  FrameFits(k, n, e, f)
<1>1. MadeIn(m) \subseteq MadeIn(k) /\ DOMAIN m.blocks \subseteq DOMAIN k.blocks
  BY MadeMore
<1>3. Kind(n) = "if" /\ e >= 2 =>
         f[1] \in MadeIn(m) /\ {f[2], f[3], f[3] + 1} \subseteq DOMAIN m.blocks
  BY DEF FrameFits
<1>4. IsShortCircuit(n) /\ e >= 2 => {f[1], f[2], f[3]} \subseteq DOMAIN m.blocks
  BY DEF FrameFits
<1>5. Kind(n) = "while" /\ f # <<>> => {f[1], f[2]} \subseteq DOMAIN m.blocks
  BY DEF FrameFits
<1>. QED
  BY <1>1, <1>3, <1>4, <1>5 DEF FrameFits

LEMMA NoValues ==
    ASSUME Kind(cur) \in {"if", "while", "block", "root"}
    PROVE  ~HasValue(cur) /\ ~IsShortCircuit(cur)
BY DEF HasValue, ExpressionKinds, Arity, IsShortCircuit

LEMMA IfConditionSteps ==
    ASSUME GenInv, GenIfCondition
    PROVE  GenStep
<1>. DEFINE c == createCondValueIfNeed(ir, Made(1))
            n == Len(c.blocks)
            body == NextBlock(c)
            b == NewBlocks(c, 2)
            k == SetInsertPoint(b, body)
            f == <<c.val, c.here, body>>
<1>1. cur # 0 /\ Kind(cur) = "if" /\ done[cur] = 1 /\ Built(ir)
  <2>1. cur # 0 /\ Kind(cur) = "if" /\ done[cur] = 1
    BY DEF GenIfCondition, At
  <2>. QED
    BY <2>1, GenFacts
<1>2. Continue(k, f, 2)
  BY DEF GenIfCondition
<1>3. From(ir, c) /\ Built(c) /\ c.val \in MadeIn(c)
  <2>1. Yields(ir, c, "i1")
    BY <1>1, OperandMade, ConditionMade
  <2>. QED
    BY <2>1, FromBuilt DEF Yields
<1>4. body = n + 1 /\ n \in Nat /\ c.here \in 1..n
  BY <1>3, BuilderFields DEF NextBlock
<1>5. From(c, b) /\ DOMAIN b.blocks = 1..(n + 2)
  BY <1>3, BlocksAdded
<1>. HIDE DEF c, n, body, b
<1>6. body \in DOMAIN b.blocks /\ body + 1 \in DOMAIN b.blocks /\ c.here \in DOMAIN b.blocks
  BY <1>4, <1>5
<1>7. From(b, k) /\ k.blocks = b.blocks
  BY <1>5, <1>6, FromBuilt, Moved
<1>. HIDE DEF k
<1>8. From(ir, k) /\ From(c, k)
  BY <1>3, <1>5, <1>7, FromFurther
<1>9. FrameFits(k, cur, 2, f)
  BY <1>1, <1>3, <1>6, <1>7, <1>8, FromBuilt DEF FrameFits, IsShortCircuit
<1>. HIDE DEF f
<1>10. 2 \in DOMAIN Kids(cur)
  BY <1>1, SecondKid DEF GenInv
<1>. QED
  BY <1>1, <1>2, <1>8, <1>9, <1>10, ContinueStep

LEMMA IfBodySteps ==
    ASSUME GenInv, GenIfBody
    PROVE  GenStep
<1>. DEFINE cond == frame[cur][1]
            from == frame[cur][2]
            body == frame[cur][3]
            end == body + 1
            back == SetInsertPoint(CreateBr(ir, end), from)
            n == Len(back.blocks)
            else == NextBlock(back)
            k == SetInsertPoint(CreateCondBr(NewBlocks(back, 1), cond, body, else), else)
            y == CreateCondBr(back, cond, body, end)
            l == SetInsertPoint(y, end)
<1>1. cur # 0 /\ Kind(cur) = "if" /\ done[cur] = 2 /\ Built(ir)
  <2>1. cur # 0 /\ Kind(cur) = "if" /\ done[cur] = 2
    BY DEF GenIfBody, At
  <2>. QED
    BY <2>1, GenFacts
<1>2. \/ Len(Kids(cur)) = 3 /\ Continue(k, frame[cur], 3)
      \/ FinishStatement(l)
  BY DEF GenIfBody
<1>3. cond \in MadeIn(ir) /\ from \in DOMAIN ir.blocks /\ body \in DOMAIN ir.blocks /\ end \in DOMAIN ir.blocks
  BY <1>1, GenFacts DEF FrameFits
<1>. HIDE DEF cond, from, body, end
<1>4. From(ir, back) /\ DOMAIN back.blocks = DOMAIN ir.blocks
  BY <1>1, <1>3, Jumped
<1>. HIDE DEF back
<1>5. /\ cond \in MadeIn(back) /\ body \in 1..n /\ end \in 1..n /\ n \in Nat /\ Built(back)
      /\ else = n + 1 /\ DOMAIN back.blocks = 1..n /\ n = Len(back.blocks)
  BY <1>3, <1>4, FromBuilt, BuilderFields DEF NextBlock
<1>. HIDE DEF n, else
<1>6. From(back, k)
  <2>1. body \in 1..(n + 1) /\ else \in 1..(n + 1)
    BY <1>5
  <2>. QED
    BY <1>5, <2>1, Branched
<1>. HIDE DEF k
<1>7. From(back, y) /\ DOMAIN y.blocks = DOMAIN back.blocks
  <2>1. body \in DOMAIN back.blocks /\ end \in DOMAIN back.blocks
    BY <1>5
  <2>2. Emits(back, y, "none")
    BY <1>5, <2>1, Emitted
  <2>. QED
    BY <2>2 DEF Emits
<1>. HIDE DEF y
<1>8. From(y, l)
  BY <1>5, <1>7, FromBuilt, Moved
<1>. HIDE DEF l
<1>9. From(ir, k) /\ From(ir, l)
  BY <1>4, <1>6, <1>7, <1>8, FromFurther
<1>10. CASE FinishStatement(l)
  BY <1>1, <1>9, <1>10, NoValues, StatementStep
<1>11. CASE Len(Kids(cur)) = 3 /\ Continue(k, frame[cur], 3)
  <2>1. FrameFits(k, cur, 3, frame[cur])
    BY <1>1, <1>9, GenFacts, FrameKept DEF From
  <2>2. 3 \in DOMAIN Kids(cur)
    BY <1>1, <1>11, GenFacts
  <2>. QED
    BY <1>1, <1>9, <1>11, <2>1, <2>2, ContinueStep
<1>. QED
  BY <1>2, <1>10, <1>11

LEMMA IfElseSteps ==
    ASSUME GenInv, GenIfElse
    PROVE  GenStep
<1>. DEFINE end == frame[cur][3] + 1
            k == SetInsertPoint(CreateBr(ir, end), end)
<1>1. cur # 0 /\ Kind(cur) = "if" /\ done[cur] = 3 /\ Built(ir)
  <2>1. cur # 0 /\ Kind(cur) = "if" /\ done[cur] = 3
    BY DEF GenIfElse, At
  <2>. QED
    BY <2>1, GenFacts
<1>2. FinishStatement(k)
  BY DEF GenIfElse
<1>3. end \in DOMAIN ir.blocks
  BY <1>1, GenFacts DEF FrameFits
<1>. HIDE DEF end
<1>4. From(ir, k)
  BY <1>1, <1>3, Jumped
<1>. HIDE DEF k
<1>. QED
  BY <1>1, <1>2, <1>4, NoValues, StatementStep

LEMMA WhileSteps ==
    ASSUME GenInv, GenWhileStart \/ GenWhileAgain \/ GenWhileEnd
    PROVE  GenStep
<1>1. cur # 0 /\ Kind(cur) = "while" /\ Built(ir) /\ ProgOK /\ done[cur] \in {1, 2}
      /\ 1 \in DOMAIN Kids(cur) /\ 2 \in DOMAIN Kids(cur) /\ ir.fault = "none"
  <2>1. cur # 0 /\ Kind(cur) = "while" /\ done[cur] \in {1, 2}
    BY DEF GenWhileStart, GenWhileAgain, GenWhileEnd, At
  <2>. QED
    BY <2>1, GenFacts, SecondKid DEF GenInv, StackInv
<1>2. CASE GenWhileStart
  <2>. DEFINE k == createStartWhile(ir, Made(1))
              f == <<k.here, k.here + 1>>
  <2>1. Continue(k, f, 2) /\ done[cur] = 1
    BY <1>2 DEF GenWhileStart, At
  <2>2. From(ir, k) /\ k.here \in DOMAIN k.blocks /\ k.here + 1 \in DOMAIN k.blocks
    BY <1>1, <2>1, OperandMade, WhileStarted
  <2>. HIDE DEF k
  <2>3. FrameFits(k, cur, 2, f)
    BY <1>1, <2>2 DEF FrameFits, IsShortCircuit
  <2>. HIDE DEF f
  <2>. QED
    BY <1>1, <2>1, <2>2, <2>3, ContinueStep
<1>3. CASE GenWhileAgain
  <2>1. Continue(ir, frame[cur], 1) /\ done[cur] = 2
    BY <1>3 DEF GenWhileAgain, At
  <2>2. FrameFits(ir, cur, 1, frame[cur])
    BY <1>1, <2>1, GenFacts DEF FrameFits, IsShortCircuit
  <2>. QED
    BY <1>1, <2>1, <2>2, FromSelf, ContinueStep
<1>4. CASE GenWhileEnd
  <2>. DEFINE body == frame[cur][1]
              end == frame[cur][2]
              k == createEndWhile(ir, Made(1), body, end)
  <2>1. FinishStatement(k) /\ frame[cur] # <<>> /\ done[cur] = 1
    BY <1>4 DEF GenWhileEnd, At
  <2>2. body \in DOMAIN ir.blocks /\ end \in DOMAIN ir.blocks
    BY <1>1, <2>1, GenFacts DEF FrameFits
  <2>. HIDE DEF body, end
  <2>3. From(ir, k)
    BY <1>1, <2>1, <2>2, OperandMade, WhileEnded
  <2>. HIDE DEF k
  <2>. QED
    BY <1>1, <2>1, <2>3, NoValues, StatementStep
<1>. QED
  BY <1>2, <1>3, <1>4

LEMMA BlockSteps ==
    ASSUME GenInv, GenStatementBlock \/ GenRootBlock
    PROVE  GenStep
<1>. DEFINE k == freeResources(ir, cur)
            l == createBlockAndLinkWith(k)
            r == CreateRetVoid(l)
<1>1. cur # 0 /\ Kind(cur) \in {"block", "root"} /\ Built(ir)
  <2>1. cur # 0 /\ Kind(cur) \in {"block", "root"}
    BY DEF GenStatementBlock, GenRootBlock, ReadyToGen, At
  <2>. QED
    BY <2>1, GenFacts
<1>2. From(ir, k)
  <2>1. cur \in DOMAIN ResourcesToFree => ResourcesToFree[cur] \in Seq(MadeIn(ir))
    <3>1. Mallocs \subseteq MadeIn(ir)
      BY DEF Mallocs
    <3>2. cur \in DOMAIN ResourcesToFree => ResourcesToFree[cur] \in Seq(Mallocs)
      BY DEF GenInv, GeneratorTypeOK
    <3>. QED
      BY <3>1, <3>2
  <2>. QED
    BY <1>1, <2>1, Freed
<1>3. FinishStatement(k) \/ FinishStatement(r)
  BY DEF GenStatementBlock, GenRootBlock
<1>. HIDE DEF k
<1>4. From(k, l)
  BY <1>2, FromBuilt, Linked
<1>. HIDE DEF l
<1>5. From(l, r)
  BY <1>4, FromBuilt, Emitted DEF Emits
<1>. HIDE DEF r
<1>6. From(ir, r)
  BY <1>2, <1>4, <1>5, FromFurther
<1>. QED
  BY <1>1, <1>2, <1>3, <1>6, NoValues, StatementStep

-----------------------------------------------------------------------------
(***************************************************************************)
(* Arrays.                                                                 *)
(***************************************************************************)
LEMMA HolderSteps ==
    ASSUME GenInv, GenArrayHolder
    PROVE  GenStep
<1>. DEFINE k == createBlockAndLinkWith(ir)
<1>1. cur # 0 /\ Kind(cur) = "holder" /\ done[cur] = 0 /\ cur \in Node /\ Built(ir) /\ ProgOK
  <2>1. cur # 0 /\ Kind(cur) = "holder" /\ done[cur] = 0
    BY DEF GenArrayHolder, At
  <2>. QED
    BY <2>1, GenFacts DEF GenInv, StackInv
<1>2. Continue(k, <<>>, 1)
  BY DEF GenArrayHolder
<1>3. From(ir, k)
  BY <1>1, Linked
<1>. HIDE DEF k
<1>4. FrameFits(k, cur, 1, <<>>)
  BY <1>1 DEF FrameFits, IsShortCircuit
<1>5. 1 \in DOMAIN Kids(cur)
  BY <1>1, NodeShape
<1>. QED
  BY <1>1, <1>2, <1>3, <1>4, <1>5, ContinueStep

\* The places of the instructions are places of values, and stay so.
LEMMA PlacesKept ==
    ASSUME NEW m, NEW k, Grows(m, k)
    PROVE  /\ Places(m) \subseteq Places(k)
           /\ \A v \in MadeIn(m) : v.at # <<>> =>
                 v.at \in Places(m) /\ Instruction(k, v) = Instruction(m, v)
<1>1. Places(m) \subseteq Places(k)
  BY DEF Places, Blocks, Grows
<1>2. ASSUME NEW v \in MadeIn(m), v.at # <<>>
      PROVE  v.at \in Places(m) /\ Instruction(k, v) = Instruction(m, v)
  <2>1. PICK b \in DOMAIN m.blocks : \E i \in DOMAIN m.blocks[b] : v.at = <<b, i>>
    BY <1>2 DEF MadeIn
  <2>2. PICK i \in DOMAIN m.blocks[b] : v.at = <<b, i>>
    BY <2>1
  <2>3. k.blocks[b][i] = m.blocks[b][i]
    BY DEF Grows
  <2>4. v.at[1] = b /\ v.at[2] = i
    BY <2>2
  <2>. QED
    BY <2>2, <2>3, <2>4 DEF Places, Blocks, Instruction
<1>. QED
  BY <1>1, <1>2

LEMMA ArraySteps ==
    ASSUME GenInv, GenArray
    PROVE  GenStep
<1>. DEFINE arr == createArray(CurrArrInfo)
            p == arr.val
            k == createBlockAndLinkWith(arr)
<1>1. cur # 0 /\ Kind(cur) = "holder" /\ Built(ir)
  <2>1. cur # 0 /\ Kind(cur) = "holder"
    BY DEF GenArray, At
  <2>. QED
    BY <2>1, GenFacts
<1>2. From(ir, arr) /\ (arr.fault = "none" => p.ty = "ptr" /\ p.at # <<>>)
  BY <1>1, GenFacts, ArrayMade DEF DataIn
<1>3. IF arr.fault # "none" THEN StopGen(arr.fault) ELSE BindArray(arr)
  BY DEF GenArray
<1>. HIDE DEF arr
<1>4. CASE arr.fault # "none"
  BY <1>1, <1>2, <1>3, <1>4, FromBuilt, StopStep
<1>5. CASE arr.fault = "none"
  <2>1. /\ ArrInfoMap' = Emplace(ArrInfoMap, p.at, CurrArrInfo)
        /\ CurrArrInfo' = NoArrInfo
        /\ \/ Instruction(arr, p).op = "malloc" /\ addResource(p)
           \/ UNCHANGED ResourcesToFree
        /\ made' = [made EXCEPT ![cur] = p] /\ frame' = [frame EXCEPT ![cur] = <<>>]
        /\ ir' = k /\ Return /\ UNCHANGED tableVars
    BY <1>3, <1>5 DEF BindArray, ClearArrInfo, Finish
  <2>2. From(arr, k) /\ k.fault = "none" /\ p \in MadeIn(arr)
    BY <1>2, <1>5, FromBuilt, Linked
  <2>. HIDE DEF p, k
  <2>3. From(ir, k) /\ p \in MadeIn(k)
    BY <1>2, <2>2, FromFurther, FromBuilt
  <2>4. p.at \in Places(k) /\ Instruction(k, p) = Instruction(arr, p)
    BY <1>2, <1>5, <2>2, PlacesKept DEF From, p
  <2>5. DataIn(k, CurrArrInfo')
    BY <2>1 DEF DataIn, NoArrInfo
  <2>6. Instruction(arr, p).op = "malloc" => p \in Mallocs'
    BY <1>2, <1>5, <2>1, <2>3, <2>4 DEF Mallocs, p
  <2>7. ArraysStep
    BY <1>1, <2>1, <2>4, <2>5, <2>6 DEF ArraysStep, addResource, Home
  <2>8. Finishes
    BY <1>2, <1>5, <2>1, <2>3 DEF Finishes, TablesStep, p
  <2>. QED
    BY <1>1, <2>1, <2>2, <2>3, <2>7, <2>8 DEF GenStep
<1>. QED
  BY <1>4, <1>5

LEMMA FoundData ==
    ASSUME GenInv, cur # 0, NEW v, isArray(v)
    PROVE  Info(v).sizes \in Seq(MadeIn(ir)) /\ Info(v).data \in Seq(MadeIn(ir))
BY GenFacts DEF DataIn

LEMMA LastAdded ==
    ASSUME GenInv, cur # 0
    PROVE  Computes(ir, LastElement)
<1>. DEFINE v == IF done[cur] = 0 THEN nullptr ELSE Made(done[cur])
<1>1. Built(ir) /\ done[cur] \in Nat
  BY GenFacts
<1>2. v \in MadeIn(ir)
  BY <1>1, OperandMade, ConstantsMade
<1>3. LastElement = ElementData(v)
  BY DEF LastElement
<1>. HIDE DEF v
<1>. QED
  BY <1>1, <1>2, <1>3, FoundData, ElementAdded

LEMMA PresetSteps ==
    ASSUME GenInv, GenPresetElement \/ GenPresetArray
    PROVE  GenStep
<1>. DEFINE elem == LastElement
            data == CurrArrInfo.data \o elem.vs
<1>1. cur # 0 /\ Kind(cur) = "preset" /\ cur \in Node /\ ProgOK
  <2>1. cur # 0 /\ Kind(cur) = "preset"
    BY DEF GenPresetElement, GenPresetArray, At
  <2>. QED
    BY <2>1, GenFacts DEF GenInv, StackInv
<1>2. Computes(ir, elem)
  BY <1>1, LastAdded
<1>3. \/ elem.m.fault # "none" /\ StopGen(elem.m.fault)
      \/ /\ elem.m.fault = "none" /\ done[cur] < Len(Kids(cur))
         /\ CurrArrInfo' = [CurrArrInfo EXCEPT !.data = data]
         /\ ir' = elem.m /\ Accept(done[cur] + 1)
         /\ UNCHANGED <<made, frame, tableVars, ArrInfoMap, ResourcesToFree>>
      \/ /\ elem.m.fault = "none"
         /\ CurrArrInfo' = [sizes |-> <<Const("i32", Len(data))>>, data |-> data]
         /\ Finish(elem.m, nullptr)
         /\ UNCHANGED <<tableVars, ArrInfoMap, ResourcesToFree>>
  BY DEF GenPresetElement, GenPresetArray
<1>. HIDE DEF elem
<1>4. From(ir, elem.m) /\ elem.m.fault \in Faults
      /\ CurrArrInfo.sizes \in Seq(MadeIn(elem.m)) /\ data \in Seq(MadeIn(elem.m))
  <2>1. From(ir, elem.m) /\ elem.vs \in Seq(MadeIn(elem.m))
    BY <1>2 DEF Computes
  <2>2. CurrArrInfo.sizes \in Seq(MadeIn(elem.m)) /\ CurrArrInfo.data \in Seq(MadeIn(elem.m))
    BY <1>1, <2>1, GenFacts, FromBuilt DEF DataIn
  <2>. QED
    BY <2>1, <2>2, FromBuilt, ConcatProperties
<1>. HIDE DEF data
<1>5. CASE elem.m.fault # "none" /\ StopGen(elem.m.fault)
  BY <1>1, <1>4, <1>5, StopStep
<1>6. CASE /\ elem.m.fault = "none" /\ done[cur] < Len(Kids(cur))
           /\ CurrArrInfo' = [CurrArrInfo EXCEPT !.data = data]
           /\ ir' = elem.m /\ Accept(done[cur] + 1)
           /\ UNCHANGED <<made, frame, tableVars, ArrInfoMap, ResourcesToFree>>
  <2>1. done[cur] + 1 \in DOMAIN Kids(cur) /\ done[cur] \in Nat
    BY <1>1, <1>6, GenFacts
  <2>2. done'[cur] = done[cur] + 1
    BY <1>1, <1>6, <2>1, AcceptedKid
  <2>3. FrameFits(elem.m, cur, done[cur] + 1, frame[cur])
    BY <1>1 DEF FrameFits, IsShortCircuit
  <2>4. DOMAIN frame = Node
    BY <1>1, GenFacts
  <2>5. Continues
    BY <1>6, <2>1, <2>2, <2>3, <2>4 DEF Continues
  <2>6. DataIn(ir', CurrArrInfo')
    <3>2. DOMAIN CurrArrInfo = {"sizes", "data"}
      BY <1>1, GenFacts DEF DataIn
    <3>. QED
      BY <1>4, <1>6, <3>2 DEF DataIn
  <2>7. ArraysStep
    BY <1>6, <2>6 DEF ArraysStep
  <2>. QED
    BY <1>1, <1>4, <1>6, <2>5, <2>7 DEF GenStep
<1>7. CASE /\ elem.m.fault = "none"
           /\ CurrArrInfo' = [sizes |-> <<Const("i32", Len(data))>>, data |-> data]
           /\ Finish(elem.m, nullptr)
           /\ UNCHANGED <<tableVars, ArrInfoMap, ResourcesToFree>>
  <2>1. Len(data) \in Int
    BY <1>4
  <2>2. Const("i32", Len(data)) \in MadeIn(elem.m) /\ nullptr \in MadeIn(elem.m)
    BY <2>1, ConstantsMade
  <2>3. <<Const("i32", Len(data))>> \in Seq(MadeIn(elem.m))
    BY <2>2
  <2>4. ir' = elem.m /\ Return /\ made' = [made EXCEPT ![cur] = nullptr]
        /\ frame' = [frame EXCEPT ![cur] = <<>>]
    BY <1>7 DEF Finish
  <2>5. DataIn(ir', CurrArrInfo')
    BY <1>4, <1>7, <2>3, <2>4 DEF DataIn
  <2>6. ArraysStep
    BY <1>7, <2>5 DEF ArraysStep
  <2>7. ~HasValue(cur)
    BY <1>1 DEF HasValue, ArrayBodies
  <2>8. Finishes
    BY <1>7, <2>2, <2>4, <2>7 DEF Finishes, TablesStep
  <2>. QED
    BY <1>1, <1>4, <1>7, <2>4, <2>6, <2>8 DEF GenStep
<1>. QED
  BY <1>3, <1>5, <1>6, <1>7

LEMMA UniformSteps ==
    ASSUME GenInv, GenUniformArray
    PROVE  GenStep
<1>. DEFINE init     == Made(1)
            size     == Made(2)
            found    == isArray(init)
            unrolled == /\ isConstantInt(size) /\ size.val # 0
                        /\ found => isConstantData(Info(init).sizes)
            pattern  == IF init = nullptr THEN CurrArrInfo.data
                        ELSE IF found THEN Info(init).data ELSE <<init>>
            times    == (IF unrolled THEN size.val ELSE 1) - (IF init = nullptr THEN 1 ELSE 0)
            all      == FlattenSeq([i \in 1..times |-> pattern])
            data     == IF found THEN CopyData(ir, all)
                        ELSE LocalCopies(ir, all, { i \in DOMAIN all : isConstantInt(all[i]) \/ ~unrolled })
            sizes    == IF found THEN CopyData(data.m, Info(init).sizes)
                                 ELSE [m |-> data.m, vs |-> <<>>]
            allSizes == Append(sizes.vs \o CurrArrInfo.sizes, size)
            allData  == CurrArrInfo.data \o data.vs
<1>1. cur # 0 /\ Kind(cur) = "uniform" /\ done[cur] = 2 /\ cur \in Node /\ Built(ir) /\ ir.fault = "none"
  <2>1. cur # 0 /\ Kind(cur) = "uniform" /\ done[cur] = GenOperands(cur)
    BY DEF GenUniformArray, ReadyToGen, At
  <2>. QED
    BY <2>1, GenFacts, OperandsThere
<1>2. \/ unrolled /\ size.val < 0 /\ StopGen("hugeArray")
      \/ /\ ~(unrolled /\ size.val < 0)
         /\ CurrArrInfo' = [sizes |-> allSizes, data |-> allData]
         /\ Finish(sizes.m, nullptr)
         /\ UNCHANGED <<tableVars, ArrInfoMap, ResourcesToFree>>
  BY DEF GenUniformArray
<1>3. CASE StopGen("hugeArray")
  BY <1>1, <1>3, StopStep DEF Faults
<1>4. CASE /\ ~(unrolled /\ size.val < 0)
           /\ CurrArrInfo' = [sizes |-> allSizes, data |-> allData]
           /\ Finish(sizes.m, nullptr)
           /\ UNCHANGED <<tableVars, ArrInfoMap, ResourcesToFree>>
  <2>1. /\ init \in MadeIn(ir) /\ size \in MadeIn(ir) /\ size.val \in Int
        /\ CurrArrInfo.sizes \in Seq(MadeIn(ir)) /\ CurrArrInfo.data \in Seq(MadeIn(ir))
        /\ found => Info(init).sizes \in Seq(MadeIn(ir)) /\ Info(init).data \in Seq(MadeIn(ir))
    <3>1. Made(1) \in MadeIn(ir) /\ Made(2) \in MadeIn(ir)
      BY <1>1, OperandMade
    <3>2. Made(2).val \in Int
      BY <3>1 DEF MadeIn, Value
    <3>. QED
      BY <1>1, <3>1, <3>2, GenFacts, FoundData DEF DataIn
  <2>2. times \in Nat
    <3>2. unrolled => size.val # 0
      OBVIOUS
    <3>3. size.val \in Int /\ ~(unrolled /\ size.val < 0)
      BY <1>4, <2>1
    <3>. HIDE DEF unrolled, size
    <3>1. unrolled => size.val >= 1
      BY <3>2, <3>3
    <3>. QED
      BY <2>1, <3>1
  <2>. HIDE DEF times
  <2>3. pattern \in Seq(MadeIn(ir))
    BY <2>1
  <2>. HIDE DEF pattern
  <2>4. all \in Seq(MadeIn(ir))
    <3>1. [i \in 1..times |-> pattern] \in Seq(Seq(MadeIn(ir)))
      BY <2>2, <2>3
    <3>. QED
      BY <3>1, Flattened
  <2>. HIDE DEF all, unrolled
  <2>5. Computes(ir, data) /\ data.m.fault = "none"
    BY <1>1, <2>4, Copied DEF Copies, CopyData
  <2>. HIDE DEF data
  <2>6. Computes(data.m, sizes) /\ sizes.m.fault = "none"
    <3>1. CASE found
      <4>1. Info(init).sizes \in Seq(MadeIn(data.m)) /\ Built(data.m)
        BY <2>1, <2>5, <3>1, FromBuilt DEF Computes
      <4>. QED
        BY <2>5, <3>1, <4>1, Copied DEF Copies, CopyData
    <3>2. CASE ~found
      BY <2>5, <3>2, FromBuilt, FromSelf DEF Computes
    <3>. QED
      BY <3>1, <3>2
  <2>. HIDE DEF sizes, found, init
  <2>7. From(ir, sizes.m) /\ data.vs \in Seq(MadeIn(sizes.m)) /\ sizes.vs \in Seq(MadeIn(sizes.m))
    BY <2>5, <2>6, FromBuilt, FromFurther DEF Computes
  <2>8. /\ CurrArrInfo.sizes \in Seq(MadeIn(sizes.m)) /\ CurrArrInfo.data \in Seq(MadeIn(sizes.m))
        /\ size \in MadeIn(sizes.m) /\ nullptr \in MadeIn(sizes.m)
    BY <2>1, <2>7, FromBuilt, ConstantsMade
  <2>. HIDE DEF size
  <2>9. allData \in Seq(MadeIn(sizes.m))
    BY <2>7, <2>8, ConcatProperties
  <2>10. allSizes \in Seq(MadeIn(sizes.m))
    BY <2>7, <2>8, ConcatProperties, AppendProperties
  <2>. HIDE DEF allData, allSizes
  <2>11. ir' = sizes.m /\ Return /\ made' = [made EXCEPT ![cur] = nullptr]
         /\ frame' = [frame EXCEPT ![cur] = <<>>]
    BY <1>4 DEF Finish
  <2>12. ArraysStep
    BY <1>4, <2>9, <2>10, <2>11 DEF ArraysStep, DataIn
  <2>13. ~HasValue(cur)
    BY <1>1 DEF HasValue, ArrayBodies
  <2>14. Finishes
    BY <1>4, <2>8, <2>11, <2>13 DEF Finishes, TablesStep
  <2>. QED
    BY <1>1, <2>6, <2>7, <2>11, <2>12, <2>14 DEF GenStep
<1>. QED
  BY <1>2, <1>3, <1>4

LEMMA AccessSteps ==
    ASSUME GenInv, GenArrayAccess
    PROVE  GenStep
<1>. DEFINE arr     == NameToValue[getDeclKeyFor(SymTbl, Name(cur), Scope(cur))]
            indexes == [i \in DOMAIN Kids(cur) |-> Made(i)]
            o       == AccessIndex(ir, Info(arr).sizes, indexes)
            a       == CreateGEP(o, arr, o.val)
            l       == LoadHere(a)
<1>1. cur # 0 /\ Kind(cur) = "access" /\ done[cur] = Len(Kids(cur)) /\ Built(ir) /\ ir.fault = "none"
  <2>1. cur # 0 /\ Kind(cur) = "access" /\ done[cur] = GenOperands(cur)
    BY DEF GenArrayAccess, ReadyToGen, At
  <2>. QED
    BY <2>1, GenFacts, OperandsThere
<1>2. \/ StopGen("assertFailed")
      \/ /\ isDefined(SymTbl, Name(cur), Scope(cur)) /\ isArray(arr)
         /\ Len(Info(arr).sizes) = Len(indexes)
         /\ FinishExpr(a) \/ FinishExpr(l)
  BY DEF GenArrayAccess
<1>3. CASE StopGen("assertFailed")
  BY <1>1, <1>3, StopStep DEF Faults
<1>4. CASE /\ isDefined(SymTbl, Name(cur), Scope(cur)) /\ isArray(arr)
           /\ Len(Info(arr).sizes) = Len(indexes)
           /\ FinishExpr(a) \/ FinishExpr(l)
  <2>1. arr \in MadeIn(ir) /\ Info(arr).sizes \in Seq(MadeIn(ir))
    BY <1>1, <1>4, LookedUp, FoundData
  <2>2. indexes \in Seq(MadeIn(ir))
    <3>1. DOMAIN Kids(cur) = 1..done[cur] /\ done[cur] \in Nat
      BY <1>1, GenFacts
    <3>2. \A i \in 1..done[cur] : Made(i) \in MadeIn(ir)
      BY <1>1, OperandMade
    <3>. QED
      BY <3>1, <3>2
  <2>. HIDE DEF arr, indexes
  <2>3. From(ir, o) /\ arr \in MadeIn(o) /\ o.val \in MadeIn(o) /\ Built(o)
    BY <1>1, <1>4, <2>1, <2>2, IndexComputed, FromBuilt
  <2>. HIDE DEF o
  <2>4. From(o, a) /\ a.val.ty = "ptr"
    BY <2>3, Emitted DEF Emits
  <2>. HIDE DEF a
  <2>5. From(a, l) /\ l.val.ty = "i32"
    <3>1. Emits(a, CreateLoad(a, a.val), "i32")
      BY <2>4, FromBuilt, Emitted
    <3>. QED
      BY <3>1 DEF Emits, LoadHere
  <2>. HIDE DEF l
  <2>6. From(ir, a) /\ From(ir, l)
    BY <2>3, <2>4, <2>5, FromFurther
  <2>. QED
    BY <1>1, <1>4, <2>4, <2>5, <2>6, FinishStep
<1>. QED
  BY <1>2, <1>3, <1>4

\* Every action of the generator is such a step.
LEMMA GenSteps ==
    ASSUME GenInv, GenNext
    PROVE  GenStep
BY AccessAssignmentSteps, AccessSteps, ArraySteps, AssignmentSteps, BlockSteps, CalcSteps, HolderSteps,
   IfBodySteps, IfConditionSteps, IfElseSteps, LogicLhsSteps, LogicRhsSteps, NumberSteps, OperandSteps,
   PresetSteps, PrintSteps, UniformSteps, UnSteps, VariableSteps, WhileSteps DEF GenNext

-----------------------------------------------------------------------------
(***************************************************************************)
(* The generator's invariant is kept.                                      *)
(***************************************************************************)
LEMMA GenMoves ==
    ASSUME GenInv, GenStep
    PROVE  Moves /\ StackInv' /\ prog' = prog /\ Node' = Node
<1>1. Moves
  BY DEF GenStep, Stops, StopGen, Stop, Continues, Finishes, Moves, Stays, AcceptsKid, Returns
<1>2. prog' = prog
  BY <1>1 DEF Moves, AcceptsKid, Accept, Returns, Return, Stays
<1>. QED
  BY <1>1, <1>2, StackStep DEF GenInv, Node

LEMMA DataKept ==
    ASSUME NEW m, NEW k, From(m, k), NEW info, DataIn(m, info)
    PROVE  DataIn(k, info)
<1>1. Seq(MadeIn(m)) \subseteq Seq(MadeIn(k))
  BY FromBuilt
<1>. QED
  BY <1>1 DEF DataIn

\* How the program points change.
LEMMA PointsMove ==
    ASSUME GenInv, cur # 0, Continues \/ Finishes
    PROVE  /\ Continues => /\ \E i \in DOMAIN Kids(cur) :
                                 i <= done[cur] + 1 /\ done'[cur] = i /\ cur' = Kid(cur, i)
                           /\ cur' # cur /\ done'[cur'] = 0 /\ OnStack' = OnStack \cup {cur'}
                           /\ \A n \in Node \ {cur, cur'} : done'[n] = done[n]
           /\ Finishes => /\ done'[cur] = Idle /\ OnStack' = OnStack \ {cur}
                          /\ \A n \in Node \ {cur} : done'[n] = done[n]
<1>1. cur \in Node /\ DOMAIN done = Node
  BY GenFacts DEF GenInv, StackInv, StackTypeOK
<1>2. CASE Continues
  <2>1. PICK i \in DOMAIN Kids(cur) : i <= done[cur] + 1 /\ Accept(i)
    BY <1>2 DEF Continues
  <2>2. /\ done'[cur] = i /\ cur' = Kid(cur, i) /\ cur' # cur /\ done'[cur'] = 0
        /\ \A n \in Node \ {cur, cur'} : done'[n] = done[n]
    BY <2>1, AcceptedKid
  <2>3. OnStack' = OnStack \cup {cur'}
    BY <2>1, AcceptStack DEF GenInv
  <2>4. cur' \in Node /\ cur' > cur /\ cur \in Nat /\ Node \subseteq Nat
    BY <2>1, AcceptStack, GenFacts DEF GenInv
  <2>5. cur' # prog[cur].parent
    <3>1. prog[cur].parent \in 0..(cur - 1)
      BY <1>1, Trees DEF GenInv, StackInv, ProgOK, Node
    <3>2. \A p \in 0..(cur - 1), q \in Nat : q > cur => p # q
      BY <2>4
    <3>. QED
      BY <2>4, <3>1, <3>2
  <2>6. ~Finishes
    BY <2>5 DEF Finishes, Return
  <2>. QED
    BY <2>1, <2>2, <2>3, <2>6
<1>3. CASE Finishes /\ ~Continues
  <2>1. Returns
    BY <1>3 DEF Finishes, Returns
  <2>2. done'[cur] = Idle /\ \A n \in Node \ {cur} : done'[n] = done[n]
    BY <1>1, <2>1 DEF Returns, Return
  <2>3. OnStack' = OnStack \ {cur}
    BY <2>1, ReturnStack DEF GenInv
  <2>. QED
    BY <1>3, <2>2, <2>3
<1>. QED
  BY <1>2, <1>3

LEMMA FramesKept ==
    ASSUME GenInv, cur # 0, From(ir, ir'), Continues \/ Finishes
    PROVE  DOMAIN frame' = Node /\ \A n \in Node : FrameFits(ir', n, done'[n], frame'[n])
<1>1. cur \in Node /\ DOMAIN frame = Node
  BY GenFacts
<1>2. \A n \in Node : FrameFits(ir, n, done[n], frame[n])
  BY DEF GenInv, GeneratorTypeOK
<1>3. ASSUME NEW n \in Node, done'[n] \in {0, done[n]} PROVE FrameFits(ir', n, done'[n], frame[n])
  <2>1. done'[n] >= 2 => done[n] >= 2
    BY <1>3
  <2>. QED
    BY <1>2, <2>1, FrameKept DEF From
<1>4. CASE Continues
  <2>1. /\ done'[cur'] = 0 /\ \A n \in Node \ {cur, cur'} : done'[n] = done[n]
    BY <1>4, PointsMove
  <2>2. /\ DOMAIN frame' = Node /\ FrameFits(ir', cur, done'[cur], frame'[cur])
        /\ \A n \in Node \ {cur} : frame'[n] = frame[n]
    BY <1>4 DEF Continues
  <2>3. ASSUME NEW n \in Node, n # cur PROVE FrameFits(ir', n, done'[n], frame'[n])
    BY <1>3, <2>1, <2>2, <2>3
  <2>. QED
    BY <2>2, <2>3
<1>5. CASE Finishes
  <2>1. done'[cur] = Idle /\ \A n \in Node \ {cur} : done'[n] = done[n]
    BY <1>5, PointsMove
  <2>2. frame' = [frame EXCEPT ![cur] = <<>>]
    BY <1>5 DEF Finishes
  <2>3. ~(Idle >= 2)
    BY DEF Idle
  <2>4. FrameFits(ir', cur, done'[cur], frame'[cur])
    BY <1>1, <2>1, <2>2, <2>3 DEF FrameFits
  <2>5. ASSUME NEW n \in Node, n # cur PROVE FrameFits(ir', n, done'[n], frame'[n])
    BY <1>1, <1>3, <2>1, <2>2, <2>5
  <2>. QED
    BY <1>1, <2>2, <2>4, <2>5
<1>. QED
  BY <1>4, <1>5

LEMMA ValuesPassed ==
    ASSUME GenInv, cur # 0, From(ir, ir'), Continues \/ Finishes
    PROVE  /\ DOMAIN made' = Node /\ \A n \in Node : made'[n] \in MadeIn(ir')
           /\ \A n \in Node : \A i \in 1..done'[n] :
                 Kid(n, i) \notin OnStack' /\ HasValue(Kid(n, i)) => made'[Kid(n, i)].ty # "none"
<1>1. cur \in Node /\ DOMAIN made = Node /\ cur \in OnStack /\ done[cur] \in Nat
  BY GenFacts DEF GenInv, StackInv, StackIsPath
<1>2. /\ \A n \in Node : made[n] \in MadeIn(ir)
      /\ \A n \in Node : \A i \in 1..done[n] :
            Kid(n, i) \notin OnStack /\ HasValue(Kid(n, i)) => made[Kid(n, i)].ty # "none"
  BY DEF GenInv, GeneratorTypeOK
<1>3. MadeIn(ir) \subseteq MadeIn(ir')
  BY FromBuilt
<1>4. CASE Continues
  <2>1. /\ done'[cur'] = 0 /\ OnStack' = OnStack \cup {cur'}
        /\ \A n \in Node \ {cur, cur'} : done'[n] = done[n]
    BY <1>4, PointsMove
  <2>2. PICK k \in DOMAIN Kids(cur) : k <= done[cur] + 1 /\ done'[cur] = k /\ cur' = Kid(cur, k)
    BY <1>4, PointsMove
  <2>3. made' = made
    BY <1>4 DEF Continues
  <2>4. ASSUME NEW n \in Node, NEW i \in 1..done'[n], Kid(n, i) \notin OnStack', HasValue(Kid(n, i))
        PROVE  made'[Kid(n, i)].ty # "none"
    <3>1. CASE n = cur
      <4>1. k \in Nat /\ i \in 1..k
        BY <2>2, <2>4, <3>1, GenFacts
      <4>2. i # k
        BY <2>1, <2>2, <2>4, <3>1
      <4>3. i \in 1..done[cur]
        BY <1>1, <2>2, <4>1, <4>2
      <4>. QED
        BY <1>1, <1>2, <2>1, <2>3, <2>4, <3>1, <4>3
    <3>2. CASE n # cur
      <4>1. n # cur'
        BY <2>1, <2>4
      <4>2. done'[n] = done[n]
        BY <2>1, <3>2, <4>1
      <4>. QED
        BY <1>2, <2>1, <2>3, <2>4, <4>2
    <3>. QED
      BY <3>1, <3>2
  <2>. QED
    BY <1>1, <1>2, <1>3, <2>3, <2>4
<1>5. CASE Finishes
  <2>1. /\ done'[cur] = Idle /\ OnStack' = OnStack \ {cur}
        /\ \A n \in Node \ {cur} : done'[n] = done[n]
    BY <1>5, PointsMove
  <2>2. PICK v \in MadeIn(ir') : (HasValue(cur) => v.ty # "none") /\ made' = [made EXCEPT ![cur] = v]
    BY <1>5 DEF Finishes
  <2>3. ASSUME NEW n \in Node, NEW i \in 1..done'[n], Kid(n, i) \notin OnStack', HasValue(Kid(n, i))
        PROVE  made'[Kid(n, i)].ty # "none"
    <3>1. n # cur
      BY <2>1, <2>3 DEF Idle
    <3>2. i \in 1..done[n]
      BY <2>1, <2>3, <3>1
    <3>3. CASE Kid(n, i) = cur
      BY <1>1, <2>2, <2>3, <3>3
    <3>4. CASE Kid(n, i) # cur
      <4>1. Kid(n, i) \notin OnStack
        BY <2>1, <2>3, <3>4
      <4>2. made[Kid(n, i)].ty # "none"
        BY <1>2, <2>3, <3>2, <4>1
      <4>3. made'[Kid(n, i)] = made[Kid(n, i)] \/ Kid(n, i) \notin Node
        BY <1>1, <2>2, <3>4
      <4>4. Kid(n, i) \in Node
        <5>1. done[n] \in 0..Len(Kids(n))
          <6>1. n \in OnStack
            BY <2>3, <3>2 DEF OnStack, Idle
          <6>. QED
            BY <6>1 DEF GenInv, StackInv, WithinKids
        <5>2. i \in DOMAIN Kids(n)
          BY <3>2, <5>1, NodeShape DEF GenInv, StackInv
        <5>. QED
          BY <5>2, NodeShape DEF GenInv, StackInv
      <4>. QED
        BY <4>2, <4>3, <4>4
    <3>. QED
      BY <3>3, <3>4
  <2>4. DOMAIN made' = Node /\ \A n \in Node : made'[n] \in MadeIn(ir')
    BY <1>1, <1>2, <1>3, <2>2
  <2>. QED
    BY <2>3, <2>4
<1>. QED
  BY <1>4, <1>5

LEMMA TablesKept ==
    ASSUME GenInv, cur # 0, From(ir, ir'), prog' = prog, UNCHANGED tableVars \/ TablesStep
    PROVE  /\ DOMAIN SymTbl' \subseteq Keys /\ DOMAIN SymTbl' = DOMAIN NameToValue'
           /\ \A k \in DOMAIN NameToValue' : NameToValue'[k] \in MadeIn(ir') /\ NameToValue'[k].ty = "ptr"
<1>1. /\ DOMAIN SymTbl \subseteq Keys /\ DOMAIN SymTbl = DOMAIN NameToValue
      /\ \A k \in DOMAIN NameToValue : NameToValue[k] \in MadeIn(ir) /\ NameToValue[k].ty = "ptr"
  BY DEF GenInv, GeneratorTypeOK
<1>2. MadeIn(ir) \subseteq MadeIn(ir')
  BY FromBuilt
<1>3. CASE UNCHANGED tableVars
  BY <1>1, <1>2, <1>3 DEF tableVars
<1>4. CASE ~UNCHANGED tableVars
  <2>. DEFINE key == SymTabKey(Name(cur), Home(cur))
  <2>1. PICK v \in MadeIn(ir') :
           /\ Kind(cur) = "assign" /\ v.ty = "ptr"
           /\ \E ty : SymTbl' = tryDefine(SymTbl, key, ty)
           /\ NameToValue' = linkValueWithName(NameToValue, key, v)
    BY <1>4 DEF TablesStep
  <2>2. cur \in Node /\ cur # 1 /\ ProgOK
    BY <2>1, GenFacts, NoRoot DEF GenInv, StackInv
  <2>3. Home(cur) \in Node /\ IsBlock(prog, Home(cur))
    BY <2>2, HomeInnermost, BlocksAround
  <2>4. key \in Keys
    BY <2>2, <2>3 DEF Keys, Name
  <2>. HIDE DEF key
  <2>5. DOMAIN SymTbl' = DOMAIN SymTbl \cup {key}
    BY <2>1 DEF tryDefine, Emplace
  <2>6. /\ DOMAIN NameToValue' = DOMAIN NameToValue \cup {key} /\ NameToValue'[key] = v
        /\ \A k \in DOMAIN NameToValue \ {key} : NameToValue'[k] = NameToValue[k]
    BY <2>1 DEF linkValueWithName, Emplace
  <2>. QED
    BY <1>1, <1>2, <2>1, <2>4, <2>5, <2>6
<1>. QED
  BY <1>3, <1>4

LEMMA ArraysStayKnown ==
    ASSUME GenInv, cur # 0, From(ir, ir'), prog' = prog, ArraysStep
    PROVE  /\ DOMAIN ArrInfoMap' \subseteq Places(ir') /\ DataIn(ir', CurrArrInfo')
           /\ \A p \in DOMAIN ArrInfoMap' : DataIn(ir', ArrInfoMap'[p])
<1>1. DOMAIN ArrInfoMap \subseteq Places(ir) /\ Places(ir) \subseteq Places(ir')
  BY PlacesKept DEF GenInv, GeneratorTypeOK, From
<1>2. DataIn(ir', CurrArrInfo) /\ DataIn(ir', CurrArrInfo')
      /\ \A p \in DOMAIN ArrInfoMap : DataIn(ir', ArrInfoMap[p])
  BY GenFacts, DataKept DEF ArraysStep
<1>3. CASE UNCHANGED ArrInfoMap
  BY <1>1, <1>2, <1>3
<1>4. CASE ~UNCHANGED ArrInfoMap
  <2>1. PICK p \in Places(ir') : ArrInfoMap' = Emplace(ArrInfoMap, p, CurrArrInfo)
    BY <1>4 DEF ArraysStep
  <2>2. /\ DOMAIN ArrInfoMap' = DOMAIN ArrInfoMap \cup {p} /\ ArrInfoMap'[p] = CurrArrInfo
        /\ \A q \in DOMAIN ArrInfoMap \ {p} : ArrInfoMap'[q] = ArrInfoMap[q]
    BY <2>1 DEF Emplace
  <2>. QED
    BY <1>1, <1>2, <2>2
<1>. QED
  BY <1>3, <1>4

LEMMA ResourcesKept ==
    ASSUME GenInv, cur # 0, From(ir, ir'), prog' = prog, ArraysStep
    PROVE  \A b \in DOMAIN ResourcesToFree' : IsBlock(prog, b) /\ ResourcesToFree'[b] \in Seq(Mallocs')
<1>1. \A b \in DOMAIN ResourcesToFree : IsBlock(prog, b) /\ ResourcesToFree[b] \in Seq(Mallocs)
  BY DEF GenInv, GeneratorTypeOK
<1>2. Mallocs \subseteq Mallocs'
  <2>1. MadeIn(ir) \subseteq MadeIn(ir')
    BY FromBuilt
  <2>2. \A v \in MadeIn(ir) : v.at # <<>> => Instruction(ir', v) = Instruction(ir, v)
    BY PlacesKept DEF From
  <2>. QED
    BY <2>1, <2>2 DEF Mallocs
<1>. DEFINE M == Mallocs
            N == Mallocs'
<1>3. \A b \in DOMAIN ResourcesToFree : IsBlock(prog, b) /\ ResourcesToFree[b] \in Seq(N)
  <2>1. M \subseteq N /\ \A b \in DOMAIN ResourcesToFree : ResourcesToFree[b] \in Seq(M)
    BY <1>1, <1>2
  <2>. HIDE DEF M, N
  <2>2. Seq(M) \subseteq Seq(N)
    BY <2>1, SeqMonotonic
  <2>. QED
    BY <1>1, <2>1, <2>2
<1>4. CASE UNCHANGED ResourcesToFree
  BY <1>3, <1>4
<1>5. CASE ~UNCHANGED ResourcesToFree
  <2>. DEFINE b == Home(cur)
              old == IF b \in DOMAIN ResourcesToFree THEN ResourcesToFree[b] ELSE <<>>
  <2>1. PICK v \in N : /\ Kind(cur) = "holder"
                       /\ ResourcesToFree' = Emplace(ResourcesToFree, b, Append(old, v))
    BY <1>5 DEF ArraysStep
  <2>2. cur \in Node /\ cur # 1 /\ ProgOK
    BY <2>1, GenFacts, NoRoot DEF GenInv, StackInv
  <2>3. IsBlock(prog, b)
    BY <2>2, HomeInnermost, BlocksAround
  <2>. HIDE DEF b, M, N
  <2>4. old \in Seq(N)
    BY <1>3
  <2>5. Append(old, v) \in Seq(N)
    BY <2>4
  <2>. HIDE DEF old
  <2>6. /\ DOMAIN ResourcesToFree' = DOMAIN ResourcesToFree \cup {b}
        /\ ResourcesToFree'[b] = Append(old, v)
        /\ \A c \in DOMAIN ResourcesToFree \ {b} : ResourcesToFree'[c] = ResourcesToFree[c]
    BY <2>1 DEF Emplace
  <2>7. \A c \in DOMAIN ResourcesToFree' : IsBlock(prog, c) /\ ResourcesToFree'[c] \in Seq(N)
    BY <1>3, <2>3, <2>5, <2>6
  <2>. QED
    BY <2>7 DEF N
<1>. QED
  BY <1>4, <1>5

LEMMA GenKept ==
    ASSUME GenInv, GenStep, phase' = phase
    PROVE  GenInv'
<1>1. cur # 0 /\ StackInv' /\ prog' = prog /\ Node' = Node /\ Generating'
  BY GenMoves DEF GenStep, GenInv, Generating
<1>2. CASE Stops
  <2>1. UNCHANGED genVars /\ UNCHANGED <<prog, cur, done>>
    BY <1>2 DEF Stops, StopGen, Stop
  <2>2. UNCHANGED <<ir, made, frame, SymTbl, NameToValue, ArrInfoMap, CurrArrInfo, ResourcesToFree>>
    BY <2>1 DEF genVars
  <2>3. StackTypeOK' /\ OnStack' = OnStack /\ Mallocs' = Mallocs /\ Keys' = Keys
    BY <1>1, <2>1, <2>2 DEF StackInv, OnStack, Mallocs, Keys
  <2>4. /\ \A n : HasValue(n)' = HasValue(n) /\ Kid(n, 1)' = Kid(n, 1)
        /\ \A n, m, d, f : FrameFits(m, n, d, f)' = FrameFits(m, n, d, f)
    BY <2>1 DEF HasValue, FrameFits, Kind, Kid, IsShortCircuit, Op
  <2>5. \A n, i : Kid(n, i)' = Kid(n, i)
    BY <2>1 DEF Kid
  <2>6. GeneratorTypeOK'
    BY <1>1, <2>1, <2>2, <2>3, <2>4, <2>5 DEF GenInv, GeneratorTypeOK
  <2>. QED
    BY <1>1, <2>6 DEF GenInv
<1>3. CASE ~Stops
  <2>1. From(ir, ir') /\ ir'.fault = "none" /\ ArraysStep /\ (Continues \/ Finishes)
    BY <1>3 DEF GenStep
  <2>2. UNCHANGED tableVars \/ TablesStep
    BY <2>1 DEF Continues, Finishes
  <2>3. /\ StackTypeOK' /\ Built(ir') /\ ir'.fault = "none"
    BY <1>1, <2>1, FromBuilt DEF StackInv
  <2>4. /\ \A n : HasValue(n)' = HasValue(n)
        /\ \A n, i : Kid(n, i)' = Kid(n, i)
    BY <1>1 DEF HasValue, Kind, Kid
  <2>5. \A n \in Node : FrameFits(ir', n, done'[n], frame'[n])
    BY <1>1, <2>1, FramesKept
  <2>6. (\A n \in Node : FrameFits(ir, n, done[n], frame[n]))'
    BY <1>1, <2>5 DEF FrameFits, IsShortCircuit, Kind, Op
  <2>7. (\A n \in Node : \A i \in 1..done[n] :
            Kid(n, i) \notin OnStack /\ HasValue(Kid(n, i)) => made[Kid(n, i)].ty # "none")'
    BY <1>1, <2>1, <2>4, ValuesPassed DEF Kid
  <2>8. (DOMAIN made = Node /\ (\A n \in Node : made[n] \in MadeIn(ir)) /\ DOMAIN frame = Node)'
    BY <1>1, <2>1, ValuesPassed, FramesKept
  <2>9. Keys' = Keys
    BY <1>1 DEF Keys
  <2>10. (/\ DOMAIN SymTbl \subseteq Keys /\ DOMAIN SymTbl = DOMAIN NameToValue
          /\ \A k \in DOMAIN NameToValue : NameToValue[k] \in MadeIn(ir) /\ NameToValue[k].ty = "ptr")'
    BY <1>1, <2>1, <2>2, <2>9, TablesKept
  <2>11. (/\ DOMAIN ArrInfoMap \subseteq Places(ir)
          /\ \A info \in { ArrInfoMap[p] : p \in DOMAIN ArrInfoMap } \cup {CurrArrInfo} :
                info \in [sizes : Seq(MadeIn(ir)), data : Seq(MadeIn(ir))])'
    BY <1>1, <2>1, ArraysStayKnown DEF DataIn
  <2>12. (\A b \in DOMAIN ResourcesToFree : IsBlock(prog, b) /\ ResourcesToFree[b] \in Seq(Mallocs))'
    BY <1>1, <2>1, ResourcesKept
  <2>13. GeneratorTypeOK'
    BY <2>3, <2>6, <2>7, <2>8, <2>10, <2>11, <2>12 DEF GeneratorTypeOK
  <2>. QED
    BY <1>1, <2>13 DEF GenInv
<1>. QED
  BY <1>2, <1>3

-----------------------------------------------------------------------------
(***************************************************************************)
(* The whole process.                                                      *)
(***************************************************************************)
\* The generator starts with nothing and only when the checker is done.
TypeInv ==
    /\ StackInv /\ GeneratorTypeOK
    /\ phase = "validate" => GenInit

LEMMA NothingGenerated ==
    ProgOK /\ StackTypeOK /\ GenInit /\ (Generating => done = RootFrame(prog)) => GeneratorTypeOK
<1>. SUFFICES ASSUME ProgOK, StackTypeOK, GenInit, Generating => done = RootFrame(prog)
              PROVE  GeneratorTypeOK
  OBVIOUS
<1>1. /\ ir = EntryModule /\ made = [n \in Node |-> nullptr] /\ frame = [n \in Node |-> <<>>]
      /\ DOMAIN SymTbl = {} /\ DOMAIN NameToValue = {} /\ DOMAIN ArrInfoMap = {}
      /\ DOMAIN ResourcesToFree = {}
      /\ CurrArrInfo = NoArrInfo
  BY DEF GenInit, EmptyTable
<1>2. ir.fault = "none" /\ Built(ir)
  <2>1. << <<>> >> \in Seq(Seq(Instr)) /\ DOMAIN << <<>> >> = {1} /\ Len(<< <<>> >>) = 1
    OBVIOUS
  <2>2. nullptr \in Value /\ nullptr \in MadeIn(ir)
    BY ConstantsMade DEF nullptr, Const, Value
  <2>3. EntryModule \in Builder
    BY <2>1, <2>2 DEF EntryModule, Builder, Faults
  <2>4. /\ ir.blocks = << <<>> >> /\ ir.here = 1 /\ ir.val = nullptr /\ ir.fault = "none"
    BY <1>1 DEF EntryModule
  <2>5. \A b \in DOMAIN ir.blocks : DOMAIN ir.blocks[b] = {}
    BY <2>1, <2>4
  <2>. QED
    BY <1>1, <2>1, <2>2, <2>3, <2>4, <2>5 DEF Built
<1>3. DOMAIN made = Node /\ DOMAIN frame = Node /\ \A n \in Node : made[n] \in MadeIn(ir)
  BY <1>1, ConstantsMade
<1>4. ASSUME Generating, NEW n \in Node
      PROVE  FrameFits(ir, n, done[n], frame[n]) /\ 1..done[n] = {}
  <2>1. frame[n] = <<>> /\ done[n] \in {0, Idle}
    BY <1>1, <1>4 DEF RootFrame, Node
  <2>2. ~(done[n] >= 2) /\ 1..done[n] = {}
    BY <2>1 DEF Idle
  <2>. QED
    BY <2>1, <2>2 DEF FrameFits
<1>5. NoArrInfo \in [sizes : Seq(MadeIn(ir)), data : Seq(MadeIn(ir))]
  BY DEF NoArrInfo
<1>. QED
  BY <1>1, <1>2, <1>3, <1>4, <1>5 DEF GeneratorTypeOK

\* What GeneratorTypeOK says of the variables that are kept.
LEMMA TypesUntouched ==
    ASSUME GeneratorTypeOK, UNCHANGED genVars, prog' = prog, StackTypeOK',
           Generating' => Generating /\ done' = done
    PROVE  GeneratorTypeOK'
<1>1. UNCHANGED <<ir, made, frame, SymTbl, NameToValue, ArrInfoMap, CurrArrInfo, ResourcesToFree>>
  BY DEF genVars
<1>2. Mallocs' = Mallocs /\ Keys' = Keys /\ Node' = Node
  BY <1>1 DEF Mallocs, Keys, Node
<1>4. Generating' => OnStack' = OnStack
  BY <1>2 DEF OnStack
<1>5. (Generating =>
          \A n \in Node :
             /\ FrameFits(ir, n, done[n], frame[n])
             /\ \A i \in 1..done[n] :
                   Kid(n, i) \notin OnStack /\ HasValue(Kid(n, i)) => made[Kid(n, i)].ty # "none")'
  <2>1. SUFFICES ASSUME Generating'
                 PROVE  (\A n \in Node :
             /\ FrameFits(ir, n, done[n], frame[n])
             /\ \A i \in 1..done[n] :
                   Kid(n, i) \notin OnStack /\ HasValue(Kid(n, i)) => made[Kid(n, i)].ty # "none")'
    OBVIOUS
  <2>2. \A n \in Node :
             /\ FrameFits(ir, n, done[n], frame[n])
             /\ \A i \in 1..done[n] :
                   Kid(n, i) \notin OnStack /\ HasValue(Kid(n, i)) => made[Kid(n, i)].ty # "none"
    BY <2>1 DEF GeneratorTypeOK
  <2>. QED
    BY <1>1, <1>2, <1>4, <2>1, <2>2 DEF HasValue, FrameFits, Kind, Kid, IsShortCircuit, Op
<1>6. StackTypeOK' /\ Built(ir') /\ ir'.fault = "none"
  BY <1>1 DEF GeneratorTypeOK
<1>7. (DOMAIN made = Node /\ (\A n \in Node : made[n] \in MadeIn(ir)) /\ DOMAIN frame = Node)'
  BY <1>1, <1>2 DEF GeneratorTypeOK
<1>8. (/\ DOMAIN SymTbl \subseteq Keys /\ DOMAIN SymTbl = DOMAIN NameToValue
       /\ \A k \in DOMAIN NameToValue : NameToValue[k] \in MadeIn(ir) /\ NameToValue[k].ty = "ptr")'
  BY <1>1, <1>2 DEF GeneratorTypeOK
<1>9. (/\ DOMAIN ArrInfoMap \subseteq Places(ir)
       /\ \A info \in { ArrInfoMap[p] : p \in DOMAIN ArrInfoMap } \cup {CurrArrInfo} :
             info \in [sizes : Seq(MadeIn(ir)), data : Seq(MadeIn(ir))])'
  BY <1>1 DEF GeneratorTypeOK
<1>10. (\A b \in DOMAIN ResourcesToFree : IsBlock(prog, b) /\ ResourcesToFree[b] \in Seq(Mallocs))'
  BY <1>1, <1>2 DEF GeneratorTypeOK
<1>. QED
  BY <1>5, <1>6, <1>7, <1>8, <1>9, <1>10 DEF GeneratorTypeOK

LEMMA TypesStart ==
    ASSUME Init
    PROVE  TypeInv
<1>1. ProgOK /\ StackInv
  BY StackFromRoot DEF Init, ProgOK
<1>2. StackTypeOK /\ GenInit /\ ~Generating
  BY <1>1 DEF StackInv, Init, Generating
<1>. QED
  BY <1>1, <1>2, NothingGenerated DEF TypeInv

LEMMA TypesNext ==
    ASSUME TypeInv, [Next]_vars
    PROVE  TypeInv'
<1>1. CASE UNCHANGED vars \/ Stopped \/ Execute
  <2>1. UNCHANGED visitorVars /\ UNCHANGED genVars /\ UNCHANGED phase
    BY <1>1 DEF vars, Stopped, Execute
  <2>2. UNCHANGED <<prog, cur, done, status>>
    BY <2>1 DEF visitorVars
  <2>3. StackInv'
    BY <2>2, StackStep DEF TypeInv, Moves, Stays, StackInv, StackTypeOK, Ends
  <2>4. GeneratorTypeOK'
    BY <2>1, <2>2, <2>3, TypesUntouched DEF TypeInv, StackInv, Generating
  <2>5. GenInit' <=> GenInit
    BY <2>1, <2>2 DEF GenInit, genVars, Node
  <2>. QED
    BY <2>1, <2>3, <2>4, <2>5 DEF TypeInv
<1>2. CASE Validate \/ Reject
  <2>1. phase = "validate" /\ UNCHANGED genVars /\ phase' = phase
    BY <1>2 DEF Validate, Reject
  <2>2. Moves
    BY <1>2, CheckMoves DEF TypeInv, Validate, Reject, Stop, Moves, Stays, Ends
  <2>3. StackInv' /\ prog' = prog
    BY <2>2, StackStep DEF TypeInv, Moves, AcceptsKid, Accept, Returns, Return, Stays
  <2>4. GenInit'
    BY <2>1, <2>3 DEF TypeInv, GenInit, genVars, Node
  <2>5. GeneratorTypeOK'
    BY <2>1, <2>3, TypesUntouched DEF TypeInv, StackInv, Generating
  <2>. QED
    BY <2>3, <2>4, <2>5 DEF TypeInv
<1>3. CASE StartGeneration
  <2>1. /\ UNCHANGED genVars /\ prog' = prog /\ done' = RootFrame(prog) /\ phase' = "generate"
        /\ cur = 0 /\ cur' = 1 /\ status' = status /\ phase = "validate"
    BY <1>3 DEF StartGeneration
  <2>2. StackInv'
    BY <2>1, StackStep DEF TypeInv, Restarts
  <2>3. UNCHANGED <<ir, made, frame, SymTbl, NameToValue, ArrInfoMap, CurrArrInfo, ResourcesToFree>>
    BY <2>1 DEF genVars
  <2>4. GenInit' /\ done' = RootFrame(prog')
    BY <2>1, <2>3 DEF TypeInv, GenInit, Node
  <2>5. (ProgOK /\ StackTypeOK /\ GenInit /\ (Generating => done = RootFrame(prog)) => GeneratorTypeOK)'
    BY NothingGenerated, PTL
  <2>6. GeneratorTypeOK'
    BY <2>2, <2>4, <2>5 DEF StackInv
  <2>. QED
    BY <2>1, <2>2, <2>6 DEF TypeInv
<1>4. CASE Generate
  <2>1. phase' = phase /\ GenInv /\ GenNext /\ phase = "generate"
    BY <1>4 DEF Generate, TypeInv, GenInv, Generating
  <2>2. GenInv'
    BY <2>1, GenSteps, GenKept
  <2>. QED
    BY <2>1, <2>2 DEF TypeInv, GenInv
<1>5. CASE Link
  <2>1. /\ UNCHANGED genVars /\ UNCHANGED <<prog, cur, done>> /\ status' \in Ends \cup {"running"}
        /\ phase' # "validate" /\ (Generating' => Generating)
    BY <1>5 DEF Link, visitorVars, Stop, Ends, Generating, TypeInv, StackInv, StackTypeOK
  <2>2. StackInv'
    BY <2>1, StackStep DEF TypeInv, Moves, Stays
  <2>3. GeneratorTypeOK'
    BY <2>1, <2>2, TypesUntouched DEF TypeInv, StackInv
  <2>. QED
    BY <2>1, <2>2, <2>3 DEF TypeInv
<1>. QED
  BY <1>1, <1>2, <1>3, <1>4, <1>5 DEF Next

\* The code and the tables of the generator are of one piece at every step, for every
\* program the grammar can produce: no operand, jump, local or description refers to what was
\* not generated (codegen_visitor.cpp, ir_code_generator.cpp).
THEOREM GeneratorTyped == Spec => []GeneratorTypeOK
<1>1. Init => TypeInv
  BY TypesStart
<1>2. TypeInv /\ [Next]_vars => TypeInv'
  BY TypesNext
<1>3. TypeInv => GeneratorTypeOK
  BY DEF TypeInv
<1>. QED
  BY <1>1, <1>2, <1>3, PTL DEF Spec

-----------------------------------------------------------------------------
(***************************************************************************)
(* The description of an array.  One is collected from the time an array   *)
(* creation has accepted its list of elements to the time it returns.      *)
(***************************************************************************)
Collecting == \E n \in OnStack : Kind(n) = "holder" /\ done[n] = 1

CollectedInside == Generating /\ Running /\ CurrArrInfo # NoArrInfo => Collecting

\* A list of elements, however deep, is visited for the array creation around it.
LEMMA BodyInCreation ==
    ASSUME StackInv, cur # 0, Kind(cur) \in ArrayBodies
    PROVE  Collecting
<1>. DEFINE S == { n \in OnStack : Kind(n) \in ArrayBodies }
<1>1. cur \in S /\ S \in SUBSET Node
  BY DEF StackInv, StackIsPath, OnStack
<1>2. PICK m \in S : \A l \in S : m <= l
  <2>. HIDE DEF S
  <2>. QED
    BY <1>1, FirstDefinition DEF StackInv
<1>. DEFINE p == prog[m].parent
<1>3. m \in OnStack /\ m \in Node /\ Kind(m) \in ArrayBodies /\ m # 1
  BY <1>1, <1>2, NoRoot DEF StackInv, ArrayBodies
<1>4. p \in OnStack /\ p \in Node /\ done[p] \in DOMAIN Kids(p) /\ Kid(p, done[p]) = m
  BY <1>3 DEF StackInv, StackIsPath, CallersAccepted, OnStack
<1>5. p < m
  <2>1. p \in 0..(m - 1) /\ m \in Nat
    BY <1>3, Trees DEF StackInv, ProgOK, Node
  <2>. QED
    BY <2>1
<1>6. p \notin S
  <2>1. p \in Nat /\ m \in Nat
    BY <1>3, <1>4, Trees DEF StackInv, ProgOK, Node
  <2>2. ~(m <= p)
    BY <1>5, <2>1
  <2>. HIDE DEF S, p
  <2>. QED
    BY <1>2, <2>2
<1>7. Kind(p) = "holder"
  BY <1>3, <1>4, <1>6, ArraysHeld DEF StackInv, ArrayBodies
<1>8. done[p] = 1
  <2>1. DOMAIN Kids(p) = 1..1
    BY <1>4, <1>7, NodeShape DEF StackInv
  <2>. QED
    BY <1>4, <2>1
<1>. QED
  BY <1>4, <1>7, <1>8 DEF Collecting

\* A visit below the top stays where it is.
LEMMA CallersStay ==
    ASSUME GenInv, cur # 0, Continues \/ Finishes, NEW n \in OnStack, n # cur
    PROVE  n \in OnStack' /\ done'[n] = done[n]
<1>1. n \in Node /\ n <= cur
  BY DEF OnStack, GenInv, StackInv, StackIsPath
<1>2. CASE Continues
  <2>1. cur' > cur /\ cur' \in Nat /\ cur \in Nat /\ n \in Nat
    BY <1>1, <1>2, AcceptStack, GenFacts DEF GenInv, Continues
  <2>2. n # cur'
    BY <1>1, <2>1
  <2>. QED
    BY <1>1, <1>2, <2>2, PointsMove
<1>3. CASE Finishes
  BY <1>1, <1>3, PointsMove
<1>. QED
  BY <1>2, <1>3

LEMMA DescribedInBodies ==
    ASSUME GenNext, StackInv
    PROVE  /\ Running /\ cur # 0
           /\ Kind(cur) \notin ArrayBodies \cup {"holder"} => CurrArrInfo' = CurrArrInfo
           /\ Kind(cur) = "holder" => \/ UNCHANGED <<prog, cur, done, CurrArrInfo>>
                                      \/ Accept(1) /\ CurrArrInfo' = CurrArrInfo
                                      \/ CurrArrInfo' = NoArrInfo
<1>1. Running /\ cur # 0
  BY DEF GenNext, GenOperand, GenNumber, GenRead, GenVariable, GenUn, GenCalc, GenComparison, GenLogicLhs,
         GenLogicRhs, GenPrint, GenAssignment, GenArrayHolder, GenArray, GenUniformArray,
         GenPresetElement, GenPresetArray, GenArrayAccess, GenArrayAccessAssignment, GenIfCondition,
         GenIfBody, GenIfElse, GenWhileStart, GenWhileAgain, GenWhileEnd, GenStatementBlock,
         GenRootBlock, At, ReadyToGen
<1>2. CASE Kind(cur) \notin ArrayBodies \cup {"holder"}
  <2>1. UNCHANGED arrayVars \/ UNCHANGED genVars
    BY <1>2 DEF GenNext, GenOperand, GenNumber, GenRead, GenVariable, GenUn, GenCalc, GenComparison, GenLogicLhs,
          GenLogicRhs, GenPrint, GenAssignment, GenArrayHolder, GenArray, GenUniformArray,
          GenPresetElement, GenPresetArray, GenArrayAccess, GenArrayAccessAssignment, GenIfCondition,
          GenIfBody, GenIfElse, GenWhileStart, GenWhileAgain, GenWhileEnd, GenStatementBlock,
          GenRootBlock, FinishStatement, FinishExpr, Continue, StopGen, At, ReadyToGen, ArrayBodies
  <2>. QED
    BY <1>1, <1>2, <2>1 DEF arrayVars, genVars, ArrayBodies
<1>3. CASE Kind(cur) = "holder"
  <2>1. ~GenOperand
    <3>1. cur # 0 => done[cur] \in Nat
      BY KidsExist
    <3>2. GenOperands(cur) = 0
      BY <1>3 DEF GenOperands, IsShortCircuit
    <3>. QED
      BY <3>1, <3>2 DEF GenOperand
  <2>2. GenArrayHolder \/ GenArray
    BY <1>3, <2>1 DEF GenNext, GenNumber, GenRead, GenVariable, GenUn, GenCalc, GenComparison, GenLogicLhs,
          GenLogicRhs, GenPrint, GenAssignment, GenUniformArray,
          GenPresetElement, GenPresetArray, GenArrayAccess, GenArrayAccessAssignment, GenIfCondition,
          GenIfBody, GenIfElse, GenWhileStart, GenWhileAgain, GenWhileEnd, GenStatementBlock,
          GenRootBlock, At, ReadyToGen
  <2>3. CASE GenArrayHolder
    BY <1>1, <1>3, <2>3 DEF GenArrayHolder, Continue, StopGen, Stop, genVars, arrayVars
  <2>4. CASE GenArray
    BY <1>1, <1>3, <2>4 DEF GenArray, BindArray, ClearArrInfo, StopGen, Stop, genVars
  <2>. QED
    BY <1>1, <1>3, <2>2, <2>3, <2>4 DEF ArrayBodies
<1>. QED
  BY <1>1, <1>2, <1>3

LEMMA CollectedInsideNext ==
    ASSUME GenInv, CollectedInside, GenNext, phase' = phase
    PROVE  CollectedInside'
<1>1. SUFFICES ASSUME Running', CurrArrInfo' # NoArrInfo
               PROVE  Collecting'
  BY DEF CollectedInside
<1>2. GenStep /\ StackInv /\ cur # 0 /\ Running /\ prog' = prog /\ Node' = Node /\ cur \in Node
      /\ StackInv' /\ Generating
  BY GenSteps, DescribedInBodies, GenMoves, GenFacts DEF GenInv
<1>3. CASE UNCHANGED <<prog, cur, done, CurrArrInfo>>
  BY <1>1, <1>2, <1>3 DEF CollectedInside, Collecting, OnStack, Kind
<1>4. CASE ~UNCHANGED <<prog, cur, done, CurrArrInfo>>
  <2>1. Continues \/ Finishes
    BY <1>2, <1>4 DEF GenStep, Stops, StopGen, Stop, genVars
  <2>2. ASSUME NEW n \in OnStack, n # cur, Kind(n) = "holder", done[n] = 1 PROVE Collecting'
    <3>1. n \in OnStack' /\ done'[n] = 1 /\ Kind(n)' = "holder"
      BY <1>2, <2>1, <2>2, CallersStay DEF Kind
    <3>. QED
      BY <3>1 DEF Collecting
  <2>3. CASE Kind(cur) \in ArrayBodies
    <3>1. Collecting
      BY <1>2, <2>3, BodyInCreation
    <3>. QED
      BY <2>2, <2>3, <3>1 DEF Collecting, ArrayBodies
  <2>4. CASE Kind(cur) = "holder"
    <3>1. Accept(1)
      BY <1>1, <1>2, <1>4, <2>4, DescribedInBodies
    <3>2. 1 \in DOMAIN Kids(cur)
      BY <1>2, <2>4, NodeShape DEF StackInv
    <3>3. done'[cur] = 1 /\ OnStack' = OnStack \cup {cur'}
      BY <1>2, <3>1, <3>2, AcceptedKid, AcceptStack
    <3>4. cur \in OnStack' /\ Kind(cur)' = Kind(cur)' /\ prog'[cur].kind = "holder"
      BY <1>2, <2>4, <3>3 DEF StackInv, StackIsPath, Kind
    <3>. QED
      BY <3>3, <3>4 DEF Collecting, Kind
  <2>5. CASE Kind(cur) \notin ArrayBodies \cup {"holder"}
    <3>1. Collecting
      BY <1>1, <1>2, <2>5, DescribedInBodies DEF CollectedInside
    <3>. QED
      BY <2>2, <2>5, <3>1 DEF Collecting
  <2>. QED
    BY <2>3, <2>4, <2>5
<1>. QED
  BY <1>3, <1>4

DescriptionInv == TypeInv /\ CollectedInside

LEMMA DescriptionsNext ==
    ASSUME DescriptionInv, [Next]_vars
    PROVE  DescriptionInv'
<1>1. TypeInv' /\ StackInv
  BY TypesNext DEF DescriptionInv, TypeInv
<1>2. CASE Generate
  <2>1. GenInv /\ GenNext /\ phase' = phase
    BY <1>2 DEF Generate, DescriptionInv, TypeInv, GenInv, Generating
  <2>. QED
    BY <1>1, <2>1, CollectedInsideNext DEF DescriptionInv
<1>3. CASE StartGeneration
  <2>1. CurrArrInfo' = NoArrInfo
    BY <1>3 DEF StartGeneration, DescriptionInv, TypeInv, GenInit, genVars
  <2>. QED
    BY <1>1, <2>1 DEF DescriptionInv, CollectedInside
<1>4. CASE ~Generate /\ ~StartGeneration
  <2>1. \/ ~Generating'
        \/ ~Running'
        \/ UNCHANGED <<prog, cur, done, status, CurrArrInfo, phase>>
    BY <1>4 DEF Next, vars, Validate, Reject, Link, Stop, Execute, Stopped, Running, Generating, visitorVars,
                genVars
  <2>. QED
    BY <1>1, <2>1 DEF DescriptionInv, CollectedInside, Collecting, OnStack, Node, Kind, Generating, Running
<1>. QED
  BY <1>2, <1>3, <1>4

\* What is known of an array is collected apart from every other array, unless the program
\* creates one within another (CurrArrInfo in codegen_visitor.cpp): then the inner creation
\* finds, and clears, what the outer one had collected.
THEOREM DescriptionsStayApart == Spec => []DescriptionsApart
<1>1. Init => DescriptionInv
  BY TypesStart DEF DescriptionInv, CollectedInside, Init, Generating
<1>2. DescriptionInv /\ [Next]_vars => DescriptionInv'
  BY DescriptionsNext
<1>3. DescriptionInv => DescriptionsApart
  <2>1. SUFFICES ASSUME DescriptionInv, Generating, Running, ~NestsCreations(prog)
                 PROVE  /\ CurrArrInfo # NoArrInfo => \E n \in OnStack : Kind(n) = "holder"
                        /\ At("holder", 0) => CurrArrInfo = NoArrInfo
    BY DEF DescriptionsApart
  <2>2. CurrArrInfo # NoArrInfo => Collecting
    BY <2>1 DEF DescriptionInv, CollectedInside
  <2>3. ASSUME At("holder", 0), CurrArrInfo # NoArrInfo PROVE FALSE
    <3>1. PICK n \in OnStack : Kind(n) = "holder" /\ done[n] = 1
      BY <2>2, <2>3 DEF Collecting
    <3>2. cur # 0 /\ Kind(cur) = "holder" /\ done[cur] = 0 /\ cur # n /\ StackInv
      BY <2>1, <2>3, <3>1 DEF At, DescriptionInv, TypeInv
    <3>3. cur \in Node /\ n \in Node /\ n \in Ancestors(prog, cur)
      BY <3>1, <3>2, StackIsAncestors, KidsExist DEF OnStack
    <3>. QED
      BY <2>1, <3>1, <3>2, <3>3 DEF NestsCreations, Creations, Node, Kind
  <2>. QED
    BY <2>2, <2>3 DEF Collecting
<1>. QED
  BY <1>1, <1>2, <1>3, PTL DEF Spec

-----------------------------------------------------------------------------
(***************************************************************************)
(* What a step of the generator does to the stack, to the loops and to the *)
(* names.  It visits every kid in order, but for the name an assignment    *)
(* assigns to, and the condition of a loop once more.                      *)
(***************************************************************************)
Onwards ==
    /\ done[cur] + 1 \in DOMAIN Kids(cur) /\ Accept(done[cur] + 1)
    /\ Kind(cur) = "assign" => done[cur] = 0
    /\ SymTbl' = SymTbl
    /\ \A n \in Node \ {cur} : frame'[n] = frame[n]
    /\ Kind(cur) = "while" =>
          IF done[cur] = 0 THEN frame'[cur] = frame[cur]
          ELSE frame[cur] = <<>> /\ frame'[cur] # <<>>

Again ==
    /\ Kind(cur) = "while" /\ done[cur] = 2
    /\ 1 \in DOMAIN Kids(cur) /\ Accept(1)
    /\ SymTbl' = SymTbl /\ \A n \in Node : frame'[n] = frame[n]

\* The kids of the node on top that are not accepted any more when it returns.
Omitted(j) ==
    /\ j = 2
    /\ Kind(cur) = "assign" \/ (Kind(cur) = "while" /\ done[cur] = 1 /\ frame[cur] # <<>>)

Out ==
    /\ Return
    /\ \A j \in DOMAIN Kids(cur) : done[cur] < j => Omitted(j)
    /\ frame' = [frame EXCEPT ![cur] = <<>>]
    /\ IF Kind(cur) = "assign" /\ ~isDefined(SymTbl, Name(cur), Scope(cur))
       THEN DOMAIN SymTbl' = DOMAIN SymTbl \cup {Key(cur)} ELSE SymTbl' = SymTbl

NamesStep ==
    /\ cur # 0
    /\ Onwards \/ Again \/ Out \/ UNCHANGED <<prog, cur, done, frame, SymTbl>>

LEMMA NamesStopped ==
    ASSUME cur # 0, NEW why, StopGen(why)
    PROVE  NamesStep
BY DEF StopGen, Stop, genVars, tableVars, NamesStep

LEMMA NamesFinish ==
    ASSUME cur # 0, NEW m, FinishExpr(m), \A j \in DOMAIN Kids(cur) : done[cur] < j => Omitted(j),
           Kind(cur) = "assign" => isDefined(SymTbl, Name(cur), Scope(cur))
    PROVE  NamesStep
<1>1. CASE m.fault # "none"
  BY <1>1, NamesStopped DEF FinishExpr
<1>2. CASE m.fault = "none"
  BY <1>2 DEF FinishExpr, Finish, tableVars, NamesStep, Out
<1>. QED
  BY <1>1, <1>2

LEMMA NamesContinue ==
    ASSUME GenInv, cur # 0, NEW m, NEW f, done[cur] + 1 \in DOMAIN Kids(cur),
           Continue(m, f, done[cur] + 1), Kind(cur) # "assign",
           Kind(cur) = "while" => done[cur] = 1 /\ frame[cur] = <<>> /\ f # <<>>
    PROVE  NamesStep
<1>1. CASE m.fault # "none"
  BY <1>1, NamesStopped DEF Continue
<1>2. CASE m.fault = "none"
  <2>1. frame' = [frame EXCEPT ![cur] = f] /\ Accept(done[cur] + 1) /\ SymTbl' = SymTbl
    BY <1>2 DEF Continue, tableVars
  <2>2. cur \in Node /\ DOMAIN frame = Node
    BY GenFacts
  <2>3. frame'[cur] = f /\ \A n \in Node \ {cur} : frame'[n] = frame[n]
    BY <2>1, <2>2
  <2>. QED
    BY <2>1, <2>3 DEF NamesStep, Onwards
<1>. QED
  BY <1>1, <1>2

LEMMA GenNamesSteps ==
    ASSUME GenInv, GenNext
    PROVE  NamesStep
<1>1. cur # 0
  BY GenSteps DEF GenStep
<1>2. /\ cur \in Node /\ ProgOK /\ DOMAIN frame = Node
      /\ DOMAIN Kids(cur) = 1..Len(Kids(cur)) /\ Len(Kids(cur)) \in Nat
      /\ done[cur] \in 0..Len(Kids(cur))
  BY <1>1, GenFacts DEF GenInv, StackInv
<1>3. /\ Kind(cur) \in {"calc", "logic", "assign", "uniform", "accessAssign", "while"} =>
            Len(Kids(cur)) = 2
      /\ Kind(cur) \in {"un", "print", "holder"} => Len(Kids(cur)) = 1
      /\ Kind(cur) = "if" => Len(Kids(cur)) \in {2, 3}
  BY <1>2, NodeShape
<1>0. /\ Len(Kids(cur)) = 2 => 2 \in DOMAIN Kids(cur) /\ \A j \in DOMAIN Kids(cur) : 1 < j => j = 2
      /\ 1 + 1 = 2
  <2>1. \A j \in 1..2 : 1 < j => j = 2
    OBVIOUS
  <2>. QED
    BY <1>2, <2>1
<1>4. ASSUME NEW m, FinishExpr(m), Kind(cur) # "assign", done[cur] = Len(Kids(cur))
      PROVE  NamesStep
  <2>1. \A j \in DOMAIN Kids(cur) : ~(done[cur] < j)
    BY <1>2, <1>4
  <2>. QED
    BY <1>1, <1>4, <2>1, NamesFinish
<1>5. /\ Kind(cur) \notin {"holder", "preset", "assign", "if", "while"} /\ ~IsShortCircuit(cur) =>
            GenOperands(cur) = Len(Kids(cur))
      /\ GenOperands(cur) \in 0..Len(Kids(cur))
  <2>1. GenOperands(cur) \in 0..Len(Kids(cur))
    BY <1>1, OperandsThere
  <2>. QED
    BY <2>1 DEF GenOperands
<1>6. ASSUME NEW kind, ReadyToGen(kind)
      PROVE  kind = Kind(cur) /\ done[cur] = GenOperands(cur)
  BY <1>6 DEF ReadyToGen, At
<1>7. CASE GenOperand
  <2>1. /\ done[cur] < GenOperands(cur) /\ Accept(done[cur] + 1) /\ UNCHANGED genVars
    BY <1>7 DEF GenOperand
  <2>2. done[cur] + 1 \in DOMAIN Kids(cur)
    BY <1>2, <1>5, <2>1
  <2>3. Kind(cur) \in {"assign", "while"} => done[cur] = 0
    <3>1. Kind(cur) \in {"assign", "while"} => GenOperands(cur) = 1
      BY <1>1, OperandsThere
    <3>. QED
      BY <1>2, <2>1, <3>1
  <2>4. frame' = frame /\ SymTbl' = SymTbl
    BY <2>1 DEF genVars, tableVars
  <2>. QED
    BY <1>1, <2>1, <2>2, <2>3, <2>4 DEF NamesStep, Onwards
<1>8. CASE GenNumber \/ GenRead \/ GenVariable \/ GenUn \/ GenCalc
  <2>1. /\ Kind(cur) \in {"number", "read", "variable", "un", "calc"} /\ done[cur] = GenOperands(cur)
    BY <1>6, <1>8 DEF GenNumber, GenRead, GenVariable, GenUn, GenCalc
  <2>2. ~IsShortCircuit(cur)
    BY <2>1 DEF IsShortCircuit
  <2>3. done[cur] = Len(Kids(cur)) /\ Kind(cur) # "assign"
    BY <1>5, <2>1, <2>2
  <2>4. (\E m : FinishExpr(m)) \/ \E why : StopGen(why)
    BY <1>8 DEF GenNumber, GenRead, GenVariable, GenUn, GenCalc
  <2>. QED
    BY <1>1, <1>4, <2>3, <2>4, NamesStopped
<1>9. CASE GenComparison
  <2>1. Kind(cur) = "logic" /\ ~IsShortCircuit(cur) /\ done[cur] = GenOperands(cur)
        /\ \E m : FinishExpr(m)
    BY <1>6, <1>9 DEF GenComparison
  <2>. QED
    BY <1>4, <1>5, <2>1
<1>10. CASE GenLogicLhs
  <2>1. Kind(cur) = "logic" /\ done[cur] = 1 /\ \E m, f : Continue(m, f, 2)
    BY <1>10 DEF GenLogicLhs, At
  <2>2. done[cur] + 1 = 2 /\ 2 \in DOMAIN Kids(cur)
    BY <1>0, <1>3, <2>1
  <2>. QED
    BY <1>1, <2>1, <2>2, NamesContinue
<1>11. CASE GenLogicRhs
  <2>1. Kind(cur) = "logic" /\ done[cur] = 2 /\ \E m : FinishExpr(m)
    BY <1>11 DEF GenLogicRhs, At
  <2>. QED
    BY <1>3, <1>4, <2>1
<1>12. CASE GenPrint \/ GenArrayAccess \/ GenArrayAccessAssignment
  <2>1. Kind(cur) \in {"print", "access", "accessAssign"} /\ done[cur] = GenOperands(cur)
    BY <1>6, <1>12 DEF GenPrint, GenArrayAccess, GenArrayAccessAssignment
  <2>2. ~IsShortCircuit(cur)
    BY <2>1 DEF IsShortCircuit
  <2>3. done[cur] = Len(Kids(cur)) /\ Kind(cur) # "assign"
    BY <1>5, <2>1, <2>2
  <2>4. (\E m : FinishExpr(m)) \/ \E why : StopGen(why)
    BY <1>12 DEF GenPrint, GenArrayAccess, GenArrayAccessAssignment
  <2>. QED
    BY <1>1, <1>4, <2>3, <2>4, NamesStopped
<1>13. CASE GenAssignment
  <2>1. Kind(cur) = "assign" /\ done[cur] = 1
    <3>1. Kind(cur) = "assign" => GenOperands(cur) = 1
      BY <1>1, OperandsThere
    <3>. QED
      BY <1>6, <1>13, <3>1 DEF GenAssignment
  <2>2. \A j \in DOMAIN Kids(cur) : done[cur] < j => Omitted(j)
    BY <1>0, <1>3, <2>1 DEF Omitted
  <2>3. CASE isDefined(SymTbl, Name(cur), Scope(cur))
    <3>1. \E m : FinishExpr(m)
      BY <1>13, <2>3 DEF GenAssignment
    <3>. QED
      BY <1>1, <2>2, <2>3, <3>1, NamesFinish
  <2>4. CASE ~isDefined(SymTbl, Name(cur), Scope(cur))
    <3>1. PICK ty : SymTbl' = tryDefine(SymTbl, Key(cur), ty)
      BY <1>13, <2>4 DEF GenAssignment, DefineName, Key, Home
    <3>2. Return /\ frame' = [frame EXCEPT ![cur] = <<>>]
      BY <1>13, <2>4 DEF GenAssignment, DefineName, Finish
    <3>3. DOMAIN SymTbl' = DOMAIN SymTbl \cup {Key(cur)}
      BY <3>1 DEF tryDefine, Emplace
    <3>. QED
      BY <1>1, <2>1, <2>2, <2>4, <3>2, <3>3 DEF NamesStep, Out
  <2>. QED
    BY <2>3, <2>4
<1>14. CASE GenArrayHolder
  <2>1. Kind(cur) = "holder" /\ done[cur] = 0 /\ \E m, f : Continue(m, f, 1)
    BY <1>14 DEF GenArrayHolder, At
  <2>2. done[cur] + 1 = 1 /\ 1 \in DOMAIN Kids(cur)
    BY <1>2, <1>3, <2>1
  <2>. QED
    BY <1>1, <2>1, <2>2, NamesContinue
<1>15. CASE GenArray \/ GenUniformArray \/ GenPresetArray
  <2>1. Kind(cur) \in {"holder", "uniform", "preset"} /\ done[cur] = Len(Kids(cur))
    <3>1. CASE GenArray
      BY <1>3, <3>1 DEF GenArray, At
    <3>2. CASE GenUniformArray
      <4>1. Kind(cur) = "uniform" /\ done[cur] = GenOperands(cur) /\ ~IsShortCircuit(cur)
        BY <1>6, <3>2 DEF GenUniformArray, IsShortCircuit
      <4>. QED
        BY <1>5, <4>1
    <3>3. CASE GenPresetArray
      BY <3>3 DEF GenPresetArray, At
    <3>. QED
      BY <1>15, <3>1, <3>2, <3>3
  <2>2. (\E why : StopGen(why))
        \/ (Return /\ frame' = [frame EXCEPT ![cur] = <<>>] /\ UNCHANGED tableVars)
    BY <1>15 DEF GenArray, GenUniformArray, GenPresetArray, BindArray, Finish
  <2>3. \A j \in DOMAIN Kids(cur) : ~(done[cur] < j)
    BY <1>2, <2>1
  <2>. QED
    BY <1>1, <2>1, <2>2, <2>3, NamesStopped DEF NamesStep, Out, tableVars
<1>16. CASE GenPresetElement
  <2>1. /\ Kind(cur) = "preset" /\ done[cur] < Len(Kids(cur))
        /\ (\E why : StopGen(why))
             \/ (Accept(done[cur] + 1) /\ UNCHANGED <<frame, tableVars>>)
    BY <1>16 DEF GenPresetElement
  <2>2. done[cur] + 1 \in DOMAIN Kids(cur)
    BY <1>2, <2>1
  <2>. QED
    BY <1>1, <2>1, <2>2, NamesStopped DEF NamesStep, Onwards, tableVars
<1>17. CASE GenIfCondition \/ GenIfBody \/ GenIfElse
  <2>1. Kind(cur) = "if" /\ done[cur] \in 1..3
        /\ \/ done[cur] = Len(Kids(cur)) /\ \E m : FinishExpr(m)
           \/ done[cur] = 1 /\ \E m, f : Continue(m, f, 2)
           \/ done[cur] = 2 /\ Len(Kids(cur)) = 3 /\ \E m, f : Continue(m, f, 3)
    <3>1. CASE GenIfCondition
      BY <3>1 DEF GenIfCondition, At
    <3>2. CASE GenIfBody
      BY <1>3, <3>2 DEF GenIfBody, At, FinishStatement
    <3>3. CASE GenIfElse
      BY <1>2, <1>3, <3>3 DEF GenIfElse, At, FinishStatement
    <3>. QED
      BY <1>17, <3>1, <3>2, <3>3
  <2>2. (done[cur] = 1 => done[cur] + 1 = 2 /\ 2 \in DOMAIN Kids(cur))
        /\ (done[cur] = 2 /\ Len(Kids(cur)) = 3 => done[cur] + 1 = 3 /\ 3 \in DOMAIN Kids(cur))
    BY <1>2, <1>3, <2>1
  <2>. QED
    BY <1>1, <1>4, <2>1, <2>2, NamesContinue
<1>18. CASE GenWhileStart
  <2>1. /\ Kind(cur) = "while" /\ done[cur] = 1 /\ frame[cur] = <<>>
        /\ \E m, a, b : Continue(m, <<a, b>>, 2)
    BY <1>18 DEF GenWhileStart, At
  <2>2. done[cur] + 1 = 2 /\ 2 \in DOMAIN Kids(cur)
    BY <1>0, <1>3, <2>1
  <2>3. \A a, b : <<a, b>> # <<>>
    OBVIOUS
  <2>. QED
    BY <1>1, <2>1, <2>2, <2>3, NamesContinue
<1>19. CASE GenWhileAgain
  <2>1. Kind(cur) = "while" /\ done[cur] = 2 /\ Continue(ir, frame[cur], 1)
    BY <1>19 DEF GenWhileAgain, At
  <2>2. CASE ir.fault = "none"
    <3>1. frame' = [frame EXCEPT ![cur] = frame[cur]] /\ Accept(1) /\ SymTbl' = SymTbl
      BY <2>1, <2>2 DEF Continue, tableVars
    <3>2. \A n \in Node : frame'[n] = frame[n]
      BY <1>2, <3>1
    <3>3. 1 \in DOMAIN Kids(cur)
      BY <1>2, <1>3, <2>1
    <3>. QED
      BY <1>1, <2>1, <3>1, <3>2, <3>3 DEF NamesStep, Again
  <2>3. CASE ir.fault # "none"
    BY <1>1, <2>1, <2>3, NamesStopped DEF Continue
  <2>. QED
    BY <2>2, <2>3
<1>20. CASE GenWhileEnd
  <2>1. /\ Kind(cur) = "while" /\ done[cur] = 1 /\ frame[cur] # <<>> /\ \E m : FinishExpr(m)
    BY <1>20 DEF GenWhileEnd, At, FinishStatement
  <2>2. \A j \in DOMAIN Kids(cur) : done[cur] < j => Omitted(j)
    BY <1>0, <1>3, <2>1 DEF Omitted
  <2>. QED
    BY <1>1, <2>1, <2>2, NamesFinish
<1>21. CASE GenStatementBlock \/ GenRootBlock
  <2>1. Kind(cur) \in {"block", "root"} /\ done[cur] = GenOperands(cur) /\ \E m : FinishExpr(m)
    BY <1>6, <1>21 DEF GenStatementBlock, GenRootBlock, FinishStatement
  <2>2. ~IsShortCircuit(cur)
    BY <2>1 DEF IsShortCircuit
  <2>. QED
    BY <1>4, <1>5, <2>1, <2>2
<1>. QED
  BY <1>7, <1>8, <1>9, <1>10, <1>11, <1>12, <1>13, <1>14, <1>15, <1>16, <1>17, <1>18, <1>19,
     <1>20, <1>21 DEF GenNext

-----------------------------------------------------------------------------
(***************************************************************************)
(* The names the generator defines.  A name is defined when the visit of   *)
(* the first assignment to it returns, and the generator visits every      *)
(* assignment: an assignment whose visit has returned is on the left of    *)
(* the stack, or in a loop whose condition is visited once more.           *)
(***************************************************************************)
SecondPass(w) == w \in OnStack /\ Kind(w) = "while" /\ done[w] = 1 /\ frame[w] # <<>>

Passed(m) == Left(m) \/ \E w \in Node \ {m} : SecondPass(w) /\ w \in Ancestors(prog, m)

\* A loop has its blocks when its body is visited, and an assignment has no second operand.
LoopFrames ==
    \A w \in Node : Kind(w) = "while" =>
        /\ done[w] \in {Idle, 0} => frame[w] = <<>>
        /\ done[w] = 2 => frame[w] # <<>>

\* No name is defined before those the definition of it would hide.
First(m) == \A r \in Rivals(m) : m < r

DefinedByPassed ==
    \A k \in DOMAIN SymTbl : \E l \in Assigns : k = Key(l) /\ Passed(l) /\ First(l)

PassedAreDefined ==
    \A m \in Assigns : Passed(m) =>
        /\ isDefined(SymTbl, Name(m), Scope(m))
        /\ First(m) => Key(m) \in DOMAIN SymTbl

NamesGenerated ==
    /\ LoopFrames
    /\ \A n \in OnStack : Kind(n) = "assign" => done[n] <= 1
    /\ DefinedByPassed /\ PassedAreDefined

\* What only the tree says.
LEMMA TreeStays ==
    ASSUME prog' = prog
    PROVE  /\ Node' = Node /\ Assigns' = Assigns
           /\ \A m : /\ Key(m)' = Key(m) /\ (First(m)' <=> First(m))
                     /\ Kind(m)' = Kind(m) /\ Name(m)' = Name(m) /\ Scope(m)' = Scope(m)
                     /\ Ancestors(prog, m)' = Ancestors(prog, m)
BY DEF Node, Assigns, Key, Rivals, Around, Home, First, Kind, Name, Scope

\* The stack after a step down.
LEMMA StackBelow ==
    ASSUME GenInv, cur # 0, NEW i \in DOMAIN Kids(cur), Accept(i)
    PROVE  /\ prog' = prog /\ Node' = Node /\ OnStack' = OnStack \cup {cur'}
           /\ cur \in Node /\ cur' \in Node /\ cur' # cur /\ cur' \notin OnStack /\ cur \in OnStack
           /\ done[cur'] = Idle /\ done'[cur'] = 0 /\ done'[cur] = i
           /\ \A n \in Node : n # cur /\ n # cur' => done'[n] = done[n]
<1>1. /\ prog' = prog /\ Node' = Node /\ OnStack' = OnStack \cup {cur'} /\ cur' \in Node /\ cur' > cur
      /\ cur \in Node /\ cur \in OnStack
  BY AcceptStack, KidsExist DEF GenInv, StackInv, StackIsPath
<1>2. cur' # cur /\ cur' \notin OnStack
  <2>1. cur \in Nat /\ cur' \in Nat /\ \A n \in OnStack : n <= cur
    BY <1>1, Trees DEF GenInv, StackInv, StackIsPath, ProgOK, Node
  <2>. QED
    BY <1>1, <2>1
<1>3. done \in [Node -> Nat \cup {Idle}] /\ done' = [done EXCEPT ![cur] = i, ![cur'] = 0]
  BY DEF GenInv, StackInv, StackTypeOK, Accept
<1>. QED
  BY <1>1, <1>2, <1>3 DEF OnStack

LEMMA OnwardsLoops ==
    ASSUME GenInv, NamesGenerated, cur # 0, Onwards
    PROVE  /\ \A w \in Node : SecondPass(w)' <=> SecondPass(w)
           /\ LoopFrames' /\ (\A n \in OnStack : Kind(n) = "assign" => done[n] <= 1)'
<1>1. /\ prog' = prog /\ Node' = Node /\ OnStack' = OnStack \cup {cur'}
      /\ cur \in Node /\ cur' \in Node /\ cur' # cur /\ cur' \notin OnStack /\ cur \in OnStack
      /\ done[cur'] = Idle /\ done'[cur'] = 0 /\ done'[cur] = done[cur] + 1
      /\ \A n \in Node : n # cur /\ n # cur' => done'[n] = done[n]
      /\ \A n \in Node \ {cur} : frame'[n] = frame[n]
      /\ OnStack \subseteq Node
  BY StackBelow DEF Onwards, OnStack
<1>2. \A n : Kind(n)' = Kind(n)
  BY <1>1 DEF Kind
<1>3. Kind(cur) = "while" =>
         \/ done[cur] = 0 /\ done'[cur] = 1 /\ frame[cur] = <<>> /\ frame'[cur] = <<>>
         \/ done[cur] = 1 /\ done'[cur] = 2 /\ frame[cur] = <<>> /\ frame'[cur] # <<>>
  <2>1. SUFFICES ASSUME Kind(cur) = "while"
                 PROVE  \/ done[cur] = 0 /\ done'[cur] = 1 /\ frame[cur] = <<>> /\ frame'[cur] = <<>>
                        \/ done[cur] = 1 /\ done'[cur] = 2 /\ frame[cur] = <<>> /\ frame'[cur] # <<>>
    OBVIOUS
  <2>2. DOMAIN Kids(cur) = 1..2 /\ done[cur] \in Nat /\ done[cur] + 1 \in DOMAIN Kids(cur)
    BY <1>1, <2>1, KidsExist, NodeShape DEF GenInv, StackInv, Onwards
  <2>3. (done[cur] = 0 /\ done[cur] + 1 = 1) \/ (done[cur] = 1 /\ done[cur] + 1 = 2)
    BY <2>2
  <2>4. IF done[cur] = 0 THEN frame'[cur] = frame[cur] ELSE frame[cur] = <<>> /\ frame'[cur] # <<>>
    BY <2>1 DEF Onwards
  <2>5. done[cur] = 0 => frame[cur] = <<>>
    BY <1>1, <2>1 DEF NamesGenerated, LoopFrames
  <2>. QED
    BY <1>1, <2>3, <2>4, <2>5
<1>4. ASSUME NEW w \in Node
      PROVE  SecondPass(w)' <=> SecondPass(w)
  <2>1. CASE w = cur
    BY <1>1, <1>2, <1>3, <2>1 DEF SecondPass
  <2>2. CASE w = cur'
    BY <1>1, <2>2 DEF SecondPass
  <2>3. CASE w # cur /\ w # cur'
    BY <1>1, <1>2, <2>3 DEF SecondPass
  <2>. QED
    BY <2>1, <2>2, <2>3
<1>5. ASSUME NEW w \in Node, Kind(w) = "while"
      PROVE  (done'[w] \in {Idle, 0} => frame'[w] = <<>>) /\ (done'[w] = 2 => frame'[w] # <<>>)
  <2>1. CASE w = cur
    BY <1>3, <1>5, <2>1 DEF Idle
  <2>2. CASE w = cur'
    BY <1>1, <1>5, <2>2 DEF NamesGenerated, LoopFrames
  <2>3. CASE w # cur /\ w # cur'
    BY <1>1, <1>5, <2>3 DEF NamesGenerated, LoopFrames
  <2>. QED
    BY <2>1, <2>2, <2>3
<1>6. ASSUME NEW n \in OnStack', Kind(n) = "assign" PROVE done'[n] <= 1
  <2>1. CASE n = cur
    BY <1>1, <1>6, <2>1 DEF Onwards
  <2>2. CASE n = cur'
    BY <1>1, <2>2
  <2>3. CASE n # cur /\ n # cur'
    BY <1>1, <1>6, <2>3 DEF NamesGenerated
  <2>. QED
    BY <2>1, <2>2, <2>3
<1>. QED
  BY <1>1, <1>2, <1>4, <1>5, <1>6 DEF LoopFrames

LEMMA OnwardsPassed ==
    ASSUME GenInv, NamesGenerated, cur # 0, Onwards, NEW m \in Node
    PROVE  Passed(m)' <=> Passed(m)
<1>1. /\ prog' = prog /\ Node' = Node /\ (Left(m)' <=> Left(m))
  BY StackBelow, LeftAfterAccept DEF Onwards, GenInv
<1>2. \A w \in Node : SecondPass(w)' <=> SecondPass(w)
  BY OnwardsLoops
<1>. QED
  BY <1>1, <1>2 DEF Passed

\* The loop on top comes back to its condition: what is in it was visited.
LEMMA AgainLoops ==
    ASSUME GenInv, NamesGenerated, cur # 0, Again
    PROVE  /\ \A w \in Node : SecondPass(w)' <=> SecondPass(w) \/ w = cur
           /\ ~SecondPass(cur)
           /\ LoopFrames' /\ (\A n \in OnStack : Kind(n) = "assign" => done[n] <= 1)'
<1>1. /\ prog' = prog /\ Node' = Node /\ OnStack' = OnStack \cup {cur'}
      /\ cur \in Node /\ cur' \in Node /\ cur' # cur /\ cur' \notin OnStack /\ cur \in OnStack
      /\ done[cur'] = Idle /\ done'[cur'] = 0 /\ done'[cur] = 1
      /\ \A n \in Node : n # cur /\ n # cur' => done'[n] = done[n]
      /\ OnStack \subseteq Node
  BY StackBelow DEF Again, OnStack
<1>2. /\ \A n : Kind(n)' = Kind(n)
      /\ \A n \in Node : frame'[n] = frame[n]
      /\ Kind(cur) = "while" /\ done[cur] = 2 /\ frame[cur] # <<>>
  BY <1>1 DEF Again, Kind, NamesGenerated, LoopFrames
<1>4. ASSUME NEW w \in Node
      PROVE  SecondPass(w)' <=> SecondPass(w) \/ w = cur
  <2>1. CASE w = cur
    BY <1>1, <1>2, <2>1 DEF SecondPass
  <2>2. CASE w = cur'
    BY <1>1, <2>2 DEF SecondPass
  <2>3. CASE w # cur /\ w # cur'
    BY <1>1, <1>2, <2>3 DEF SecondPass
  <2>. QED
    BY <2>1, <2>2, <2>3
<1>5. ASSUME NEW w \in Node, Kind(w) = "while"
      PROVE  (done'[w] \in {Idle, 0} => frame'[w] = <<>>) /\ (done'[w] = 2 => frame'[w] # <<>>)
  <2>1. CASE w = cur
    BY <1>1, <2>1 DEF Idle
  <2>2. CASE w = cur'
    BY <1>1, <1>2, <1>5, <2>2 DEF NamesGenerated, LoopFrames
  <2>3. CASE w # cur /\ w # cur'
    BY <1>1, <1>2, <1>5, <2>3 DEF NamesGenerated, LoopFrames
  <2>. QED
    BY <2>1, <2>2, <2>3
<1>6. ASSUME NEW n \in OnStack', Kind(n) = "assign" PROVE done'[n] <= 1
  <2>1. CASE n = cur
    BY <1>1, <2>1
  <2>2. CASE n = cur'
    BY <1>1, <2>2
  <2>3. CASE n # cur /\ n # cur'
    BY <1>1, <1>6, <2>3 DEF NamesGenerated
  <2>. QED
    BY <2>1, <2>2, <2>3
<1>. QED
  BY <1>1, <1>2, <1>4, <1>5, <1>6 DEF LoopFrames, SecondPass

LEMMA AgainPassed ==
    ASSUME GenInv, NamesGenerated, cur # 0, Again, NEW m \in Assigns
    PROVE  Passed(m)' <=> Passed(m)
<1>1. /\ prog' = prog /\ Node' = Node /\ cur \in Node /\ m \in Node /\ m # cur
      /\ DOMAIN Kids(cur) = 1..2 /\ done[cur] = 2 /\ Accept(1) /\ 1 \in DOMAIN Kids(cur)
      /\ Node = Nodes(prog) /\ prog \in Programs /\ cur \in OnStack /\ StackInv
  <2>1. cur \in Node /\ prog' = prog /\ Node' = Node /\ cur \in OnStack
    BY StackBelow DEF Again
  <2>2. m \in Node /\ Kind(m) = "assign" /\ Kind(cur) = "while"
    BY DEF Assigns, Again
  <2>3. DOMAIN Kids(cur) = 1..2
    BY <2>1, <2>2, NodeShape DEF GenInv, StackInv
  <2>. QED
    BY <2>1, <2>2, <2>3 DEF Again, GenInv, StackInv, ProgOK, Node
<1>2. /\ \A w \in Node : SecondPass(w)' <=> SecondPass(w) \/ w = cur
      /\ ~SecondPass(cur)
  BY AgainLoops
<1>3. Left(m)' => Left(m)
  <2>1. \A j \in 1..2 : ~(2 < j /\ j < 1)
    OBVIOUS
  <2>. QED
    BY <1>1, <2>1, LeftAfterAnyAccept DEF GenInv
<1>4. Left(m) => Left(m)' \/ cur \in Ancestors(prog, m)
  BY <1>1, LeftAfterAnyAccept DEF GenInv
<1>5. cur \in Ancestors(prog, m) => Left(m)
  <2>1. SUFFICES ASSUME cur \in Ancestors(prog, m) PROVE Left(m)
    OBVIOUS
  <2>2. PICK i \in DOMAIN Kids(cur) : Kid(cur, i) \in Ancestors(prog, m)
    BY <1>1, <2>1, AncestorsPath DEF Kids, Kid
  <2>3. Kid(cur, i) \in Node /\ Kid(cur, i) > cur /\ cur \in Nat /\ i <= done[cur]
    <3>1. Kid(cur, i) \in Node /\ Kid(cur, i) > cur
      BY <1>1, NodeShape DEF StackInv
    <3>2. i \in 1..2 /\ \A k \in 1..2 : k <= 2
      BY <1>1
    <3>. QED
      BY <1>1, <3>1, <3>2, Trees
  <2>4. Kid(cur, i) \notin OnStack
    <3>1. \A n \in OnStack : n <= cur
      BY <1>1 DEF StackInv, StackIsPath
    <3>2. Kid(cur, i) \in Nat /\ ~(Kid(cur, i) <= cur)
      BY <1>1, <2>3, Trees
    <3>. QED
      BY <3>1, <3>2
  <2>. QED
    BY <1>1, <2>2, <2>3, <2>4 DEF Left
<1>. QED
  BY <1>1, <1>2, <1>3, <1>4, <1>5 DEF Passed

\* What a visit that returns leaves behind.
LEMMA OutLoops ==
    ASSUME GenInv, NamesGenerated, cur # 0, Out
    PROVE  /\ prog' = prog /\ Node' = Node /\ cur \in Node
           /\ \A w \in Node : SecondPass(w)' <=> SecondPass(w) /\ w # cur
           /\ LoopFrames' /\ (\A n \in OnStack : Kind(n) = "assign" => done[n] <= 1)'
<1>1. /\ prog' = prog /\ Node' = Node /\ OnStack' = OnStack \ {cur} /\ cur \in Node
      /\ OnStack \subseteq Node
  BY ReturnStack DEF Out, Returns, GenInv, OnStack
<1>2. /\ done' = [done EXCEPT ![cur] = Idle] /\ done \in [Node -> Nat \cup {Idle}]
      /\ frame' = [frame EXCEPT ![cur] = <<>>] /\ DOMAIN frame = Node
  BY GenFacts DEF Out, Return, GenInv, StackInv, StackTypeOK
<1>3. /\ done'[cur] = Idle /\ frame'[cur] = <<>>
      /\ \A n \in Node \ {cur} : done'[n] = done[n] /\ frame'[n] = frame[n]
      /\ \A n : Kind(n)' = Kind(n)
  BY <1>1, <1>2 DEF Kind
<1>4. \A w \in Node : SecondPass(w)' <=> SecondPass(w) /\ w # cur
  BY <1>1, <1>3 DEF SecondPass
<1>5. ASSUME NEW w \in Node, Kind(w) = "while"
      PROVE  (done'[w] \in {Idle, 0} => frame'[w] = <<>>) /\ (done'[w] = 2 => frame'[w] # <<>>)
  <2>1. CASE w = cur
    BY <1>3, <2>1 DEF Idle
  <2>2. CASE w # cur
    BY <1>3, <1>5, <2>2 DEF NamesGenerated, LoopFrames
  <2>. QED
    BY <2>1, <2>2
<1>6. \A n \in OnStack' : Kind(n) = "assign" => done'[n] <= 1
  BY <1>1, <1>3 DEF NamesGenerated
<1>. QED
  BY <1>1, <1>3, <1>4, <1>5, <1>6 DEF LoopFrames

LEMMA OutPassed ==
    ASSUME GenInv, NamesGenerated, cur # 0, Out, NEW m \in Assigns
    PROVE  Passed(m)' <=> Passed(m) \/ m = cur
<1>1. /\ prog' = prog /\ Node' = Node /\ cur \in Node /\ m \in Node /\ Kind(m) = "assign"
      /\ Node = Nodes(prog) /\ prog \in Programs /\ Returns /\ StackInv /\ cur \in OnStack
      /\ \A w \in Node : SecondPass(w)' <=> SecondPass(w) /\ w # cur
  BY OutLoops DEF Assigns, Out, Returns, GenInv, StackInv, StackIsPath, ProgOK, Node
<1>2. Left(m) => Left(m)'
  BY <1>1, LeftAfterReturn
<1>3. cur \in Ancestors(prog, m) => Left(m)'
  BY <1>1, SkippedByReturn
<1>4. m = cur => Left(m)'
  BY <1>1, LeftAfterReturn
<1>5. ASSUME Left(m)', ~Left(m), m # cur PROVE SecondPass(cur) /\ cur \in Ancestors(prog, m)
  <2>1. PICK j \in DOMAIN Kids(cur) : done[cur] < j /\ Kid(cur, j) \in Ancestors(prog, m)
    BY <1>1, <1>5, SkippedByReturn
  <2>2. Omitted(j)
    BY <2>1 DEF Out
  <2>3. Kid(cur, j) \in Node /\ prog[Kid(cur, j)].parent = cur /\ cur \in Ancestors(prog, m)
    <3>1. Kid(cur, j) \in Node /\ prog[Kid(cur, j)].parent = cur
      BY <1>1, NodeShape DEF StackInv
    <3>2. Ancestors(prog, Kid(cur, j)) = {Kid(cur, j)} \cup Ancestors(prog, cur)
      BY <1>1, <3>1, AncestorsOf
    <3>3. cur \in Ancestors(prog, cur) /\ Ancestors(prog, Kid(cur, j)) \subseteq Ancestors(prog, m)
      BY <1>1, <2>1, AncestorsPath
    <3>. QED
      BY <3>1, <3>2, <3>3
  <2>4. Kind(cur) # "assign"
    <3>1. SUFFICES ASSUME Kind(cur) = "assign" PROVE FALSE
      OBVIOUS
    <3>2. Kind(Kid(cur, j)) = "variable"
      BY <1>1, <2>2, <3>1, NodeShape DEF Omitted, StackInv
    <3>3. DOMAIN Kids(Kid(cur, j)) = {}
      BY <1>1, <2>3, <3>2, NodeShape DEF StackInv
    <3>4. Kid(cur, j) # m
      BY <1>1, <3>2
    <3>5. \E i \in DOMAIN prog[Kid(cur, j)].kids : TRUE
      BY <1>1, <2>1, <3>4, AncestorsPath
    <3>. QED
      BY <3>3, <3>5 DEF Kids
  <2>. QED
    BY <1>1, <2>2, <2>3, <2>4 DEF Omitted, SecondPass
<1>. QED
  BY <1>1, <1>2, <1>3, <1>4, <1>5 DEF Passed

\* The names are those of the assignments whose visits have returned, and stay so when none
\* returns and none is defined.
LEMMA NamesUnmoved ==
    ASSUME NamesGenerated, prog' = prog, DOMAIN SymTbl' = DOMAIN SymTbl,
           \A m \in Assigns : Passed(m)' <=> Passed(m), ProgOK
    PROVE  DefinedByPassed' /\ PassedAreDefined'
<1>1. \A m \in Assigns : isDefined(SymTbl, Name(m), Scope(m)) => isDefined(SymTbl', Name(m), Scope(m))
  BY FoundInGreater DEF Assigns
<1>2. DefinedByPassed'
  BY TreeStays DEF NamesGenerated, DefinedByPassed
<1>3. PassedAreDefined'
  BY <1>1, TreeStays DEF NamesGenerated, PassedAreDefined
<1>. QED
  BY <1>2, <1>3

\* What was visited though it comes after the node on top was visited in a loop around both,
\* whose condition is visited once more.
LEMMA PassedRival ==
    ASSUME GenInv, cur # 0, NEW l \in Assigns, Passed(l), NEW n \in Node, n = cur,
           n < l, n \notin Ancestors(prog, l)
    PROVE  \E w \in Node \ {l} : SecondPass(w) /\ w \in Ancestors(prog, l) /\ w \in Ancestors(prog, n)
<1>1. l \in Node /\ Node \subseteq Nat /\ OnStack = Ancestors(prog, cur) /\ StackInv
  BY StackIsAncestors, Trees DEF Assigns, GenInv, StackInv, ProgOK, Node
<1>2. ~Left(l)
  <2>1. Left(l) => l < cur \/ cur \in Ancestors(prog, l)
    BY <1>1, LeftIsBefore
  <2>. QED
    BY <1>1, <2>1
<1>. QED
  BY <1>1, <1>2 DEF Passed, SecondPass

\* The assignment on top is the first to be visited of those that can hide it or be hidden.
LEMMA DefinerIsFirst ==
    ASSUME GenInv, NamesGenerated, cur # 0, NEW m \in Assigns, m = cur,
           ~isDefined(SymTbl, Name(m), Scope(m))
    PROVE  First(m)
<1>1. SUFFICES ASSUME NEW r \in Rivals(m), ~(m < r) PROVE FALSE
  BY DEF First
<1>2. /\ m \in Node /\ m # 1 /\ Node \subseteq Nat /\ OnStack = Ancestors(prog, m) /\ StackInv
      /\ ProgOK
  BY StackIsAncestors, NoRoot, Trees DEF Assigns, GenInv, StackInv, ProgOK, Node
<1>3. /\ r \in Assigns /\ r \in Node /\ r # m /\ r \notin Ancestors(prog, m) /\ Name(r) = Name(m)
      /\ Home(r) \in Around(m)
  BY <1>2, RivalsApart DEF Rivals, Assigns
<1>4. r < cur /\ r \notin OnStack
  BY <1>1, <1>2, <1>3
<1>5. Left(r)
  BY <1>2, <1>3, <1>4, LeftBefore
<1>6. isDefined(SymTbl, Name(m), Scope(r))
  BY <1>3, <1>5 DEF Passed, NamesGenerated, PassedAreDefined
<1>7. Around(r) \subseteq Around(m)
  <2>1. r # 1 /\ Around(r) = {Home(r)} \cup Around(Home(r))
    BY <1>2, <1>3, NoRoot, HomeInnermost DEF Assigns
  <2>. QED
    BY <1>2, <1>3, <2>1, OuterAround
<1>. QED
  BY <1>2, <1>3, <1>6, <1>7, FindsAround

\* The name of the assignment on top is at its own key if it is the first.
LEMMA FirstIsDefined ==
    ASSUME GenInv, NamesGenerated, cur # 0, NEW m \in Assigns, m = cur, First(m),
           isDefined(SymTbl, Name(m), Scope(m))
    PROVE  Key(m) \in DOMAIN SymTbl
<1>1. /\ m \in Node /\ Node \subseteq Nat /\ OnStack = Ancestors(prog, m) /\ StackInv /\ ProgOK
      /\ Kind(m) = "assign"
  BY StackIsAncestors, Trees DEF Assigns, GenInv, StackInv, ProgOK, Node
<1>2. SUFFICES ASSUME NEW b \in Around(Home(m)), SymTabKey(Name(m), b) \in DOMAIN SymTbl
               PROVE  Key(m) \in DOMAIN SymTbl
  BY <1>1, FindsRival
<1>3. PICK l \in Assigns : SymTabKey(Name(m), b) = Key(l) /\ Passed(l)
  BY <1>2 DEF NamesGenerated, DefinedByPassed
<1>4. l \in Rivals(m)
  BY <1>2, <1>3 DEF Rivals, Key, SymTabKey
<1>5. m < l /\ m \notin Ancestors(prog, l)
  BY <1>1, <1>4, RivalsApart DEF First
<1>6. PICK w \in Node \ {l} : SecondPass(w) /\ w \in Ancestors(prog, m)
  BY <1>1, <1>3, <1>5, PassedRival
<1>7. w # m
  BY <1>1, <1>6 DEF SecondPass
<1>. QED
  BY <1>1, <1>6, <1>7 DEF Passed, NamesGenerated, PassedAreDefined

LEMMA NamesAfterOut ==
    ASSUME GenInv, NamesGenerated, cur # 0, Out
    PROVE  DefinedByPassed' /\ PassedAreDefined'
<1>1. /\ prog' = prog /\ Node' = Node /\ cur \in Node /\ ProgOK
      /\ \A m \in Assigns : Passed(m)' <=> Passed(m) \/ m = cur
  BY OutLoops, OutPassed DEF GenInv, StackInv
<1>2. /\ DOMAIN SymTbl \subseteq DOMAIN SymTbl'
      /\ \A k \in DOMAIN SymTbl' :
            \/ k \in DOMAIN SymTbl
            \/ /\ Kind(cur) = "assign" /\ ~isDefined(SymTbl, Name(cur), Scope(cur))
               /\ k = Key(cur)
  BY DEF Out
<1>3. ASSUME NEW k \in DOMAIN SymTbl'
      PROVE  \E l \in Assigns : k = Key(l) /\ Passed(l)' /\ First(l)
  <2>1. CASE k \in DOMAIN SymTbl
    BY <1>1, <2>1 DEF NamesGenerated, DefinedByPassed
  <2>2. CASE /\ Kind(cur) = "assign" /\ ~isDefined(SymTbl, Name(cur), Scope(cur))
             /\ k = Key(cur)
    <3>. PICK c \in Assigns : c = cur
      BY <1>1, <2>2 DEF Assigns
    <3>1. First(c)
      BY <2>2, DefinerIsFirst
    <3>. QED
      BY <1>1, <2>2, <3>1
  <2>. QED
    BY <1>2, <2>1, <2>2
<1>4. ASSUME NEW m \in Assigns, Passed(m)'
      PROVE  isDefined(SymTbl', Name(m), Scope(m)) /\ (First(m) => Key(m) \in DOMAIN SymTbl')
  <2>0. m \in Node
    BY DEF Assigns
  <2>1. CASE Passed(m)
    <3>1. isDefined(SymTbl, Name(m), Scope(m)) /\ (First(m) => Key(m) \in DOMAIN SymTbl)
      BY <2>1 DEF NamesGenerated, PassedAreDefined
    <3>2. isDefined(SymTbl', Name(m), Scope(m))
      BY <1>1, <1>2, <2>0, <3>1, FoundInGreater
    <3>. QED
      BY <1>2, <3>1, <3>2
  <2>2. CASE m = cur /\ isDefined(SymTbl, Name(m), Scope(m))
    <3>1. isDefined(SymTbl', Name(m), Scope(m))
      BY <1>1, <1>2, <2>0, <2>2, FoundInGreater
    <3>2. First(m) => Key(m) \in DOMAIN SymTbl
      BY <2>2, FirstIsDefined
    <3>. QED
      BY <1>2, <3>1, <3>2
  <2>3. CASE m = cur /\ ~isDefined(SymTbl, Name(m), Scope(m))
    <3>1. Key(m) \in DOMAIN SymTbl'
      BY <2>3 DEF Out, Assigns
    <3>2. Home(m) \in Around(m)
      BY <1>1, <2>0, NoRoot, HomeInnermost DEF Assigns
    <3>. QED
      BY <1>1, <2>0, <3>1, <3>2, FindsAround DEF Key
  <2>. QED
    BY <1>1, <1>4, <2>1, <2>2, <2>3
<1>. QED
  BY <1>1, <1>3, <1>4, TreeStays DEF DefinedByPassed, PassedAreDefined

LEMMA NamesWait ==
    ASSUME NamesGenerated, UNCHANGED <<prog, cur, done, frame, SymTbl>>
    PROVE  NamesGenerated'
<1>1. /\ OnStack' = OnStack /\ \A m : Left(m)' <=> Left(m)
      /\ \A n : Kind(n)' = Kind(n)
  BY DEF OnStack, Node, Left, Kids, Kid, Kind
<1>2. \A m : Passed(m)' <=> Passed(m)
  BY <1>1, TreeStays DEF Passed, SecondPass
<1>3. LoopFrames' /\ (\A n \in OnStack : Kind(n) = "assign" => done[n] <= 1)'
  BY <1>1, TreeStays DEF NamesGenerated, LoopFrames
<1>4. DefinedByPassed' /\ PassedAreDefined'
  BY <1>2, TreeStays DEF NamesGenerated, DefinedByPassed, PassedAreDefined
<1>. QED
  BY <1>3, <1>4 DEF NamesGenerated

LEMMA NamesGeneratedNext ==
    ASSUME GenInv, NamesGenerated, GenNext
    PROVE  NamesGenerated'
<1>1. NamesStep /\ ProgOK
  BY GenNamesSteps DEF GenInv, StackInv
<1>2. CASE Onwards
  <2>1. prog' = prog /\ SymTbl' = SymTbl
    BY <1>2 DEF Onwards, Accept
  <2>2. \A m \in Assigns : Passed(m)' <=> Passed(m)
    BY <1>1, <1>2, OnwardsPassed DEF NamesStep, Assigns
  <2>3. LoopFrames' /\ (\A n \in OnStack : Kind(n) = "assign" => done[n] <= 1)'
    BY <1>1, <1>2, OnwardsLoops DEF NamesStep
  <2>. QED
    BY <1>1, <2>1, <2>2, <2>3, NamesUnmoved DEF NamesGenerated
<1>3. CASE Again
  <2>1. prog' = prog /\ SymTbl' = SymTbl
    BY <1>3 DEF Again, Accept
  <2>2. \A m \in Assigns : Passed(m)' <=> Passed(m)
    BY <1>1, <1>3, AgainPassed DEF NamesStep
  <2>3. LoopFrames' /\ (\A n \in OnStack : Kind(n) = "assign" => done[n] <= 1)'
    BY <1>1, <1>3, AgainLoops DEF NamesStep
  <2>. QED
    BY <1>1, <2>1, <2>2, <2>3, NamesUnmoved DEF NamesGenerated
<1>4. CASE Out
  <2>1. LoopFrames' /\ (\A n \in OnStack : Kind(n) = "assign" => done[n] <= 1)'
    BY <1>1, <1>4, OutLoops DEF NamesStep
  <2>2. DefinedByPassed' /\ PassedAreDefined'
    BY <1>1, <1>4, NamesAfterOut DEF NamesStep
  <2>. QED
    BY <2>1, <2>2 DEF NamesGenerated
<1>. QED
  BY <1>1, <1>2, <1>3, <1>4, NamesWait DEF NamesStep

LEMMA NamesGenerateAtStart ==
    ASSUME ProgOK, prog' = prog, GenInit, UNCHANGED genVars, cur' = 1, done' = RootFrame(prog)
    PROVE  NamesGenerated'
<1>1. /\ Node' = Node /\ OnStack' = {1} /\ done'[1] = 0 /\ 1 \in Node /\ Kind(1) = "root"
      /\ \A n \in Node : done'[n] \in {0, Idle} /\ frame'[n] = <<>>
  <2>1. /\ { n \in Node : RootFrame(prog)[n] # Idle } = {1} /\ 1 \in Node /\ Kind(1) = "root"
        /\ Node = Nodes(prog) /\ Node' = Node
    BY StackAtRoot, Trees DEF ProgOK, Node, Kind
  <2>2. frame' = frame /\ frame = [n \in Node |-> <<>>]
    BY DEF GenInit, genVars
  <2>. QED
    BY <2>1, <2>2 DEF RootFrame, OnStack
<1>2. \A n : ~Left(n)'
  <2>1. ASSUME NEW i \in DOMAIN Kids(1) PROVE ~(i <= 0)
    BY <1>1, <2>1, NodeShape
  <2>. QED
    BY <1>1, <2>1 DEF Left, Kids
<1>3. DOMAIN SymTbl' = {}
  BY DEF GenInit, genVars, tableVars, EmptyTable
<1>4. \A w \in Node : ~SecondPass(w)'
  BY <1>1 DEF SecondPass, Idle
<1>5. \A n \in Node : done'[n] # 2
  BY <1>1 DEF Idle
<1>6. \A m \in Node : ~Passed(m)'
  BY <1>1, <1>2, <1>4 DEF Passed
<1>7. LoopFrames'
  BY <1>1, <1>5 DEF LoopFrames
<1>8. (\A n \in OnStack : Kind(n) = "assign" => done[n] <= 1)'
  BY <1>1
<1>9. DefinedByPassed' /\ PassedAreDefined'
  BY <1>1, <1>3, <1>6 DEF DefinedByPassed, PassedAreDefined, Assigns
<1>. QED
  BY <1>7, <1>8, <1>9 DEF NamesGenerated

-----------------------------------------------------------------------------
(***************************************************************************)
(* The name on top: the checker has found it where its first definition is *)
(* and the generator does so too.                                          *)
(***************************************************************************)
\* If a block around the use holds its name, the one of its first definition does: were it
\* only one farther out, its assignment was visited in a loop whose condition is visited
\* once more, and so was the first.
LEMMA FirstIsThere ==
    ASSUME GenInv, NamesGenerated, cur # 0, NEW n \in Node, n = cur, Kind(n) # "assign", n # 1,
           NEW m \in Definitions(prog, n), \A l \in Definitions(prog, n) : m <= l, m < n,
           NEW c \in Around(n), SymTabKey(Name(n), c) \in DOMAIN SymTbl
    PROVE  c <= Home(m) /\ SymTabKey(Name(n), Home(m)) \in DOMAIN SymTbl
<1>1. /\ Node \subseteq Nat /\ OnStack = Ancestors(prog, n) /\ StackInv /\ ProgOK
      /\ Node = Nodes(prog) /\ prog \in Programs
  BY StackIsAncestors, Trees DEF GenInv, StackInv, ProgOK, Node
<1>2. /\ m \in Assigns /\ m \in Node /\ Name(m) = Name(n) /\ Home(m) \in Around(n)
      /\ Rivals(m) \subseteq Definitions(prog, n) /\ Kind(m) = "assign"
  BY <1>1, DefinitionsOf DEF Assigns
<1>3. PICK l \in Assigns : SymTabKey(Name(n), c) = Key(l) /\ Passed(l) /\ First(l)
  BY DEF NamesGenerated, DefinedByPassed
<1>4. l \in Node /\ Name(l) = Name(n) /\ Home(l) = c /\ l \in Definitions(prog, n) /\ m <= l
  <2>1. l \in Node /\ Name(l) = Name(n) /\ Home(l) = c
    BY <1>3 DEF Key, SymTabKey, Assigns
  <2>2. l \in Definitions(prog, n)
    BY <1>1, <1>3, <2>1, DefinitionsOf
  <2>. QED
    BY <2>1, <2>2
<1>5. c \in Nat /\ Home(m) \in Nat
  <2>1. c \in Node /\ Home(m) \in Node
    BY <1>1, <1>2, OuterAround
  <2>. QED
    BY <1>1, <2>1
<1>6. First(m)
  <2>1. ASSUME NEW r \in Rivals(m) PROVE m < r
    <3>1. r \in Node /\ r # m /\ m <= r
      BY <1>1, <1>2, RivalsApart DEF Assigns
    <3>. QED
      BY <1>1, <1>2, <3>1
  <2>. QED
    BY <2>1 DEF First
<1>7. ~(Home(m) < c)
  <2>1. SUFFICES ASSUME Home(m) < c PROVE FALSE
    OBVIOUS
  <2>2. m \in Rivals(l)
    BY <1>1, <1>2, <1>4, <2>1, OuterAround DEF Rivals
  <2>3. l < m
    BY <1>3, <2>2 DEF First
  <2>. QED
    BY <1>1, <1>2, <1>4, <2>3
<1>8. CASE c = Home(m)
  BY <1>5, <1>8
<1>9. CASE c < Home(m)
  <2>1. n < l /\ n \notin Ancestors(prog, l)
    BY <1>1, <1>2, <1>4, <1>9, OuterComesLater
  <2>2. PICK w \in Node \ {l} : SecondPass(w) /\ w \in Ancestors(prog, n)
    BY <1>3, <2>1, PassedRival
  <2>3. Passed(m)
    <3>1. CASE m \notin OnStack
      <4>1. Left(m)
        BY <1>1, <1>2, <3>1, LeftBefore
      <4>. QED
        BY <4>1 DEF Passed
    <3>2. CASE m \in OnStack
      <4>1. w \in Node /\ Kind(w) = "while" /\ m \in Ancestors(prog, n)
        BY <1>1, <2>2, <3>2 DEF SecondPass
      <4>2. m \notin Ancestors(prog, w)
        <5>1. "assign" \in ExpressionKinds /\ "while" \notin ExpressionKinds
          BY DEF ExpressionKinds, Arity
        <5>. QED
          BY <1>1, <1>2, <4>1, <5>1, BelowExpressions
      <4>3. ~(m <= w)
        BY <1>1, <2>2, <4>1, <4>2, AncestorsPath
      <4>4. w <= m /\ w # m
        BY <1>1, <1>2, <4>1, <4>3
      <4>5. w \in Ancestors(prog, m)
        BY <1>1, <2>2, <4>1, <4>4, AncestorsPath
      <4>. QED
        BY <2>2, <4>4, <4>5 DEF Passed
    <3>. QED
      BY <3>1, <3>2
  <2>4. Key(m) \in DOMAIN SymTbl
    BY <1>2, <1>6, <2>3 DEF NamesGenerated, PassedAreDefined
  <2>. QED
    BY <1>2, <1>5, <1>9, <2>4 DEF Key
<1>. QED
  BY <1>5, <1>7, <1>8, <1>9

LEMMA ResolvedAlike ==
    ASSUME GenInv, NamesGenerated, NamesVerdict
    PROVE  GeneratedNamesResolve
<1>1. SUFFICES ASSUME At("variable", 0) \/ ReadyToGen("access"),
                      \A l \in {cur} \cup Definitions(prog, cur) : ~UnderElse(prog, l),
                      isDefined(SymTbl, Name(cur), Scope(cur))
               PROVE  getDeclScopeFor(SymTbl, Name(cur), Scope(cur))
                         = getDeclScopeFor(Declared, Name(cur), Scope(cur))
  BY DEF GeneratedNamesResolve, getDeclKeyFor
<1>2. cur # 0 /\ Kind(cur) \in {"variable", "access"}
  BY <1>1 DEF At, ReadyToGen
<1>3. PICK n \in Node : n = cur
  BY <1>2, KidsExist DEF GenInv
<1>4. /\ Kind(n) \in {"variable", "access"} /\ n # 1 /\ ProgOK /\ Node \subseteq Nat
      /\ isDefined(SymTbl, Name(n), Scope(n))
      /\ \A l \in {n} \cup Definitions(prog, n) : ~UnderElse(prog, l)
  BY <1>1, <1>2, <1>3, NoRoot, Trees DEF GenInv, StackInv, ProgOK, Node
<1>5. PICK d \in CheckedAssigns \cap Definitions(prog, n) : Before(d, n)
  BY <1>4 DEF NamesVerdict
<1>6. \A l \in Definitions(prog, n) : l \in Node /\ l \in CheckedAssigns /\ Home(l) \in Around(n)
  BY <1>4, DefinitionsOf DEF CheckedAssigns, Assigns
<1>7. PICK m \in Definitions(prog, n) : \A l \in Definitions(prog, n) : m <= l
  <2>1. Definitions(prog, n) \in SUBSET Node /\ Definitions(prog, n) # {}
    BY <1>5, <1>6
  <2>. QED
    BY <1>4, <2>1, FirstDefinition
<1>8. m < n
  <2>1. m \in Nat /\ d \in Nat /\ n \in Nat /\ m <= d
    BY <1>4, <1>5, <1>6, <1>7
  <2>2. d < n
    BY <1>5 DEF Before
  <2>. QED
    BY <2>1, <2>2
<1>9. getDeclScopeFor(Declared, Name(n), Scope(n)) = Home(m)
  BY <1>4, <1>6, <1>7, StaticLookup
<1>10. PICK c \in Around(n) : SymTabKey(Name(n), c) \in DOMAIN SymTbl
  BY <1>4, FindsAround
<1>11. \A b \in Around(n) : SymTabKey(Name(n), b) \in DOMAIN SymTbl =>
           b <= Home(m) /\ SymTabKey(Name(n), Home(m)) \in DOMAIN SymTbl
  BY <1>2, <1>3, <1>4, <1>7, <1>8, FirstIsThere
<1>12. getDeclScopeFor(SymTbl, Name(n), Scope(n)) = Home(m)
  BY <1>4, <1>6, <1>10, <1>11, FindsAround
<1>. QED
  BY <1>3, <1>9, <1>12

\* While the checker runs the generator waits; while the generator runs what the checker has
\* found of the names stays true.
GeneratedNamesInv ==
    /\ phase \in {"validate", "generate", "execute"}
    /\ phase = "validate" => CheckInv /\ NamesChecked
    /\ phase # "validate" => NamesVerdict
    /\ Generating => NamesGenerated

LEMMA GeneratedNamesStart ==
    ASSUME Init
    PROVE  GeneratedNamesInv
BY CheckStarts, NamesAtStart DEF Init, ProgOK, GeneratedNamesInv, Generating

LEMMA GeneratedNamesNext ==
    ASSUME TypeInv, GeneratedNamesInv, [Next]_vars
    PROVE  GeneratedNamesInv'
<1>1. CASE UNCHANGED vars \/ Stopped \/ Execute \/ Reject \/ Link
  <2>1. /\ UNCHANGED <<prog, cur, done>> /\ UNCHANGED checkVars /\ UNCHANGED genVars
        /\ phase' = phase \/ (phase = "generate" /\ phase' = "execute")
    BY <1>1 DEF vars, visitorVars, Stopped, Execute, Reject, Link, Stop
  <2>2. frame' = frame /\ SymTbl' = SymTbl /\ Declared' = Declared
    BY <2>1 DEF genVars, tableVars, checkVars
  <2>3. phase = "validate" => (CheckInv /\ NamesChecked)'
    BY <2>1, CheckInvKept, NamesCheckedKept DEF TypeInv, GeneratedNamesInv
  <2>4. phase # "validate" => NamesVerdict'
    BY <2>1, <2>2, NamesVerdictKept DEF GeneratedNamesInv
  <2>5. Generating => NamesGenerated'
    BY <2>1, <2>2, NamesWait DEF GeneratedNamesInv
  <2>. QED
    BY <2>1, <2>3, <2>4, <2>5 DEF GeneratedNamesInv, Generating
<1>2. CASE Validate
  <2>1. /\ StackInv /\ CheckInv /\ NamesChecked /\ CheckNext /\ phase = "validate" /\ phase' = phase
    BY <1>2 DEF Validate, TypeInv, GeneratedNamesInv
  <2>2. CheckInv' /\ NamesChecked'
    BY <2>1, CheckSteps, NamesCheckedNext
  <2>. QED
    BY <2>1, <2>2 DEF GeneratedNamesInv, Generating
<1>3. CASE StartGeneration
  <2>1. /\ NamesVerdict /\ ProgOK /\ GenInit /\ UNCHANGED genVars /\ prog' = prog
        /\ Declared' = Declared /\ cur' = 1 /\ done' = RootFrame(prog) /\ phase' = "generate"
    BY <1>3, NamesAtEnd DEF StartGeneration, TypeInv, GeneratedNamesInv, StackInv, checkVars
  <2>2. NamesVerdict' /\ NamesGenerated'
    BY <2>1, NamesVerdictKept, NamesGenerateAtStart
  <2>. QED
    BY <2>1, <2>2 DEF GeneratedNamesInv
<1>4. CASE Generate
  <2>1. /\ GenInv /\ GenNext /\ NamesGenerated /\ NamesVerdict /\ phase = "generate"
        /\ phase' = phase /\ Declared' = Declared
    BY <1>4 DEF Generate, TypeInv, GenInv, Generating, GeneratedNamesInv, checkVars
  <2>2. prog' = prog
    BY <2>1, GenSteps, GenMoves
  <2>3. NamesVerdict' /\ NamesGenerated'
    BY <2>1, <2>2, NamesVerdictKept, NamesGeneratedNext
  <2>. QED
    BY <2>1, <2>3 DEF GeneratedNamesInv
<1>. QED
  BY <1>1, <1>2, <1>3, <1>4 DEF Next

(***************************************************************************)
(* Whatever the generator has visited before, loops and all, a name it     *)
(* looks up and finds is the declaration the checker found for it          *)
(* (SymTable::getDeclKeyFor), unless the name or one of the assignments    *)
(* that can define it is in an else, which the checker does not visit.     *)
(***************************************************************************)
THEOREM NamesGeneratedAlike == Spec => []GeneratedNamesResolve
<1>1. Init => TypeInv /\ GeneratedNamesInv
  BY TypesStart, GeneratedNamesStart
<1>2. TypeInv /\ GeneratedNamesInv /\ [Next]_vars => (TypeInv /\ GeneratedNamesInv)'
  BY TypesNext, GeneratedNamesNext
<1>3. TypeInv /\ GeneratedNamesInv => GeneratedNamesResolve
  <2>1. CASE Generating
    BY <2>1, ResolvedAlike DEF TypeInv, GeneratedNamesInv, GenInv, Generating
  <2>2. CASE ~Generating
    BY <2>2 DEF GeneratedNamesResolve
  <2>. QED
    BY <2>1, <2>2
<1>. QED
  BY <1>1, <1>2, <1>3, PTL DEF Spec
=============================================================================

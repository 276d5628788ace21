--------------------------- MODULE CheckerProofs ---------------------------
(***************************************************************************)
(* Lemmas about the static checker, for both programs it is part of.       *)
(***************************************************************************)
EXTENDS ErrorHandler, VisitorProofs

\* A visit method that accepts its operands in order accepts one that exists.
LEMMA CheckedOperandsExist ==
    ASSUME StackInv, cur # 0
    PROVE  /\ CheckedOperands(cur) \in 0..Len(Kids(cur))
           /\ done[cur] < CheckedOperands(cur) => done[cur] + 1 \in DOMAIN Kids(cur)
<1>1. Kind(cur) \in {"assign", "if", "while"} => Len(Kids(cur)) >= 1
  <2>1. Kind(cur) = "assign" => Len(Kids(cur)) = 2
    BY KidsExist
  <2>2. Kind(cur) = "while" => Len(Kids(cur)) = 2
    BY KidsExist
  <2>3. Kind(cur) = "if" => Len(Kids(cur)) = 2 \/ Len(Kids(cur)) = 3
    BY KidsExist
  <2>. QED
    BY <2>1, <2>2, <2>3
<1>2. DOMAIN Kids(cur) = 1..Len(Kids(cur)) /\ Len(Kids(cur)) \in Nat
  BY KidsExist
<1>3. CheckedOperands(cur) \in 0..Len(Kids(cur))
  BY <1>1, <1>2 DEF CheckedOperands
<1>. QED
  BY <1>2, <1>3, KidsExist

\* The visit methods that name their second operand.
LEMMA SecondKid ==
    ASSUME StackInv, cur # 0,
           \/ Kind(cur) = "assign" \/ Kind(cur) = "accessAssign" \/ Kind(cur) = "logic"
           \/ Kind(cur) = "while" \/ Kind(cur) = "if"
    PROVE  /\ DOMAIN Kids(cur) = 1..Len(Kids(cur)) /\ Len(Kids(cur)) \in Nat /\ Len(Kids(cur)) >= 2
           /\ 1 \in DOMAIN Kids(cur) /\ 2 \in DOMAIN Kids(cur)
           /\ Kind(cur) # "if" => Len(Kids(cur)) = 2
           /\ Kind(cur) = "if" => DOMAIN Kids(cur) \in {1..2, 1..3}
<1>1. Kids(cur) \in Seq(Nat)
  BY KidsExist
<1>2. CASE Kind(cur) = "if"
  <2>1. Len(Kids(cur)) = 2 \/ Len(Kids(cur)) = 3
    BY <1>2, KidsExist
  <2>. QED
    BY <1>1, <1>2, <2>1
<1>3. CASE Kind(cur) # "if"
  <2>1. Len(Kids(cur)) = 2
    BY <1>3, KidsExist
  <2>. QED
    BY <1>1, <1>3, <2>1
<1>. QED
  BY <1>2, <1>3

LEMMA ArithFaults ==
    ASSUME NEW op, NEW a, NEW b
    PROVE  ArithFault(op, a, b) \in {"none", "divByZero", "trapped"}
BY DEF ArithFault

LEMMA CheckMoves ==
    ASSUME StackInv, CheckNext
    PROVE  Moves
<1>. USE DEF Moves
<1>1. cur # 0 /\ DOMAIN Kids(cur) = 1..Len(Kids(cur)) /\ Len(Kids(cur)) \in Nat
  <2>1. cur # 0
    BY DEF CheckNext, CheckOperand, CheckNumber, CheckRead, CheckVariable, CheckUn, CheckCalc,
           CheckLogic, CheckPrint, CheckAssignedValue, CheckAssignment, CheckArrayHolder,
           CheckElement, CheckPresetArray, CheckUniformArray, CheckArrayAccess, CheckRank,
           CheckAssignedElement, CheckElementValue, CheckArrayAccessAssignment,
           CheckCondition, LeaveChecked, ReadyToCheck, At
  <2>. QED
    BY <2>1, KidsExist
<1>2. CASE CheckOperand
  BY <1>1, <1>2, CheckedOperandsExist DEF CheckOperand, AcceptsKid
<1>3. CASE CheckNumber \/ CheckRead \/ CheckVariable \/ CheckUn \/ CheckLogic \/ CheckPrint
           \/ CheckAssignment \/ CheckArrayHolder \/ CheckPresetArray \/ CheckUniformArray
           \/ CheckArrayAccessAssignment \/ LeaveChecked
  BY <1>1, <1>3
     DEF CheckNumber, CheckRead, CheckVariable, CheckUn, CheckLogic, CheckPrint, CheckAssignment,
         CheckArrayHolder, CheckPresetArray, CheckUniformArray, CheckArrayAccessAssignment,
         LeaveChecked, Yield, Returns
<1>4. CASE CheckCalc
  <2>1. \/ Returns
        \/ \E why \in {"divByZero", "trapped"} : Stop(why)
    BY <1>1, <1>4, ArithFaults DEF CheckCalc, HaltCheck, Yield, Returns
  <2>. QED
    BY <2>1 DEF Stop, Stays, Ends
<1>5. CASE CheckElement
  BY <1>5 DEF CheckElement, HaltCheck, Stop, Stays, Ends
<1>6. CASE CheckAssignedValue
  <2>1. At("assign", 1) /\ (Returns \/ Accept(2))
    BY <1>1, <1>6 DEF CheckAssignedValue, ReadyToCheck, CheckedOperands, At, Yield, Returns
  <2>2. Len(Kids(cur)) >= 2
    <3>1. Len(Kids(cur)) = 2
      BY <2>1, KidsExist DEF At
    <3>. QED
      BY <3>1
  <2>3. 2 \in DOMAIN Kids(cur)
    BY <1>1, <2>2
  <2>. QED
    BY <1>1, <2>1, <2>3 DEF AcceptsKid
<1>7. CASE CheckArrayAccess
  <2>1. At("access", 0) /\ (Returns \/ Accept(1) \/ Stop("nullDeref"))
    BY <1>1, <1>7 DEF CheckArrayAccess, HaltCheck, Yield, Returns
  <2>2. Len(Kids(cur)) >= 1
    BY <2>1, KidsExist DEF At
  <2>3. 1 \in DOMAIN Kids(cur)
    BY <1>1, <2>2
  <2>. QED
    BY <1>1, <2>1, <2>3 DEF AcceptsKid, Stop, Stays, Ends
<1>8. CASE CheckRank
  <2>1. Returns \/ (done[cur] < Len(Kids(cur)) /\ Accept(done[cur] + 1))
    BY <1>1, <1>8 DEF CheckRank, Yield, Returns
  <2>. QED
    BY <1>1, <2>1, KidsExist DEF AcceptsKid
<1>9. CASE CheckAssignedElement
  <2>1. At("accessAssign", 0) /\ (Returns \/ Accept(1))
    BY <1>1, <1>9 DEF CheckAssignedElement, Yield, Returns
  <2>2. Len(Kids(cur)) >= 1
    <3>1. Len(Kids(cur)) = 2
      BY <2>1, KidsExist DEF At
    <3>. QED
      BY <3>1
  <2>3. 1 \in DOMAIN Kids(cur)
    BY <1>1, <2>2
  <2>. QED
    BY <1>1, <2>1, <2>3 DEF AcceptsKid
<1>10. CASE CheckElementValue
  <2>1. 2 \in DOMAIN Kids(cur)
    BY <1>10, SecondKid DEF CheckElementValue, At
  <2>. QED
    BY <1>1, <1>10, <2>1 DEF CheckElementValue, AcceptsKid
<1>11. CASE CheckCondition
  <2>1. Kind(cur) \in {"if", "while"} /\ Accept(2)
    BY <1>11 DEF CheckCondition, At
  <2>3. 2 \in DOMAIN Kids(cur)
    BY <1>1, <2>1, SecondKid
  <2>. QED
    BY <1>1, <2>1, <2>3 DEF AcceptsKid
<1>. QED
  BY <1>2, <1>3, <1>4, <1>5, <1>6, <1>7, <1>8, <1>9, <1>10, <1>11 DEF CheckNext

-----------------------------------------------------------------------------
(***************************************************************************)
(* The lookup of a name finds the innermost block around a node that       *)
(* declares it.                                                            *)
(***************************************************************************)
LEMMA Lookup ==
    ASSUME NEW table, NEW name, NEW scope \in Seq(Nat), \A i \in DOMAIN scope : scope[i] # 0
    PROVE  /\ isDefined(table, name, scope) <=> DeclaredAt(table, name, scope) # {}
           /\ isDefined(table, name, scope) =>
                 /\ getDeclKeyFor(table, name, scope) \in DOMAIN table
                 /\ \E i \in DeclaredAt(table, name, scope) :
                       /\ getDeclScopeFor(table, name, scope) = scope[i]
                       /\ getDeclKeyFor(table, name, scope) = SymTabKey(name, scope[i])
                       /\ \A j \in DeclaredAt(table, name, scope) : i <= j
<1>. DEFINE at == DeclaredAt(table, name, scope)
<1>1. at \in SUBSET Nat /\ at \subseteq DOMAIN scope
  BY DEF DeclaredAt
<1>2. CASE at = {}
  BY <1>2 DEF isDefined, getDeclScopeFor
<1>3. CASE at # {}
  <2>. DEFINE least == CHOOSE i \in at : \A j \in at : i <= j
  <2>1. \E i \in at : \A j \in at : i <= j
    <3>. HIDE DEF at
    <3>. QED
      BY <1>1, <1>3, Least
  <2>2. least \in at /\ \A j \in at : least <= j
    <3>. HIDE DEF at
    <3>. QED
      BY <2>1
  <2>3. getDeclScopeFor(table, name, scope) = scope[least]
    BY <1>3 DEF getDeclScopeFor
  <2>. HIDE DEF least
  <2>4. scope[least] # 0 /\ SymTabKey(name, scope[least]) \in DOMAIN table
    BY <1>1, <2>2 DEF DeclaredAt
  <2>. QED
    BY <1>3, <2>2, <2>3, <2>4 DEF isDefined, getDeclKeyFor
<1>. QED
  BY <1>2, <1>3

\* The scope of a node of the tree is one Lookup speaks of.
LEMMA ScopesLookUp ==
    ASSUME ProgOK, NEW n \in Node
    PROVE  /\ Scope(n) \in Seq(Nat) /\ \A i \in DOMAIN Scope(n) : Scope(n)[i] # 0
           /\ \A i \in DOMAIN Scope(n) : Scope(n)[i] \in Node /\ IsBlock(prog, Scope(n)[i])
           /\ n # 1 => 1 \in DOMAIN Scope(n)
<1>1. /\ Scope(n) \in Seq(Nat) /\ n \in 1..Len(prog) /\ Len(prog) \in Nat /\ Node = 1..Len(prog)
      /\ \A i \in DOMAIN Scope(n) : Scope(n)[i] \in 1..(n - 1) /\ IsBlock(prog, Scope(n)[i])
      /\ n # 1 => Scope(n) # <<>>
  BY Trees DEF ProgOK, Scope, Node
<1>. QED
  BY <1>1

-----------------------------------------------------------------------------
(***************************************************************************)
(* What a step of the checker can do to its variables.                     *)
(***************************************************************************)
CheckedTypes  == Node \cup {NoTy, IntTy}
CheckedValues == {Unknown} \cup { Known(v) : v \in Int32 }
CheckedSizes  == {Unknown} \cup { Known(v) : v \in 0..(Word - 1) }

CheckTypeOK ==
    /\ res \in [Node -> [ty : CheckedTypes, val : CheckedValues]]
    /\ arrayTypes \in [Node -> [contained : CheckedTypes, size : CheckedSizes]]
    /\ DOMAIN Declared \subseteq Keys
    /\ \A k \in DOMAIN Declared : Declared[k] \in Node \cup {IntTy}
    /\ Errors \in Seq(Node)

\* What the visit of cur can return.
YieldsInt(r)      == \E v \in CheckedValues : r = Result(IntTy, v)
YieldsOperand(r)  == \E i \in DOMAIN Kids(cur) : r = Result(Ty(i), Unknown)
YieldsDeclared(r) == \E k \in DOMAIN Declared : r = Result(Declared[k], Unknown)
YieldsHeld(r)     == Kind(cur) = "holder" /\ r = res[Kid(cur, 1)]
YieldsItself(r)   == Kind(cur) \in {"preset", "uniform"} /\ r = Result(cur, Unknown)

PossibleResult(r) ==
    \/ r = NoResult \/ YieldsInt(r) \/ YieldsOperand(r) \/ YieldsDeclared(r) \/ YieldsHeld(r)
    \/ YieldsItself(r)

KeepsResults == UNCHANGED res
YieldsResult == cur # 0 /\ \E r : Yield(r) /\ PossibleResult(r)

KeepsArrayTypes == UNCHANGED arrayTypes
MakesArrayType ==
    /\ cur # 0 /\ Kind(cur) \in {"preset", "uniform"} /\ Yield(Result(cur, Unknown))
    /\ done[cur] = Len(Kids(cur))
    /\ \E t \in CheckedTypes, s \in CheckedSizes :
          /\ arrayTypes' = [arrayTypes EXCEPT ![cur] = [contained |-> t, size |-> s]]
          /\ t = IntTy \/ (Kind(cur) = "uniform" /\ t = Ty(1))

KeepsDeclared == UNCHANGED Declared
Declares ==
    /\ At("assign", 1) /\ Undeclared /\ Ty(1) # NoTy /\ Accept(2) /\ UNCHANGED res
    /\ Declared' = tryDefine(Declared, SymTabKey(Name(cur), Scope(cur)[1]), Ty(1))

Reports == cur # 0 /\ \E k \in 0..2 : Report(k)

CheckEffect ==
    /\ KeepsResults \/ YieldsResult
    /\ KeepsArrayTypes \/ MakesArrayType
    /\ KeepsDeclared \/ Declares
    /\ UNCHANGED Errors \/ Reports

LEMMA OperandResults ==
    ASSUME StackInv, CheckTypeOK, cur # 0
    PROVE  /\ \A i \in DOMAIN Kids(cur) :
                 /\ Ty(i) \in CheckedTypes /\ Val(i) \in CheckedValues
                 /\ IsKnown(Val(i)) => Val(i)[1] \in Int32 /\ Val(i) = Known(Val(i)[1])
           /\ Unknown \in CheckedValues /\ Unknown \in CheckedSizes
           /\ \A v \in Int32 : Known(v) \in CheckedValues
<1>1. ASSUME NEW i \in DOMAIN Kids(cur)
      PROVE  Ty(i) \in CheckedTypes /\ Val(i) \in CheckedValues
  <2>1. Kid(cur, i) \in Node
    BY <1>1, KidsExist, NodeShape DEF StackInv
  <2>2. res[Kid(cur, i)] \in [ty : CheckedTypes, val : CheckedValues]
    BY <2>1 DEF CheckTypeOK
  <2>. QED
    BY <2>2 DEF Ty, Val
<1>2. \A v \in CheckedValues : IsKnown(v) => v[1] \in Int32 /\ v = Known(v[1])
  BY DEF CheckedValues, IsKnown, Known, Unknown
<1>. QED
  BY <1>1, <1>2 DEF CheckedValues, CheckedSizes

LEMMA PresetSizes ==
    ASSUME StackInv, CheckTypeOK, cur # 0
    PROVE  /\ PresetSize \in CheckedSizes
           /\ \E f \in [0..Len(Kids(cur)) -> Nat] :
                 /\ f[0] = 0
                 /\ \A k \in 1..Len(Kids(cur)) : f[k] = (f[k - 1] + ElementSize(k)) % Word
                 /\ PresetSize = Unknown \/ PresetSize = Known(f[Len(Kids(cur))])
<1>. DEFINE N == Len(Kids(cur))
            D == 0..(Word - 1)
            prev == [k \in 1..N |-> k - 1]
            step == [k \in 1..N |-> [s \in D |-> (s + ElementSize(k)) % Word]]
            Sum == CHOOSE Sum : Sum = [k \in 0..N |-> IF k = 0 THEN 0
                                                       ELSE (Sum[k - 1] + ElementSize(k)) % Word]
<1>1. N \in Nat /\ DOMAIN Kids(cur) = 1..N /\ Word \in Nat \ {0}
  BY KidsExist, Width
<1>2. ASSUME NEW k \in 1..N PROVE ElementSize(k) \in Nat
  <2>1. Ty(k) \in CheckedTypes
    BY <1>1, OperandResults
  <2>2. ASSUME isArrayTy(Ty(k)), IsKnown(arrayTypes[Ty(k)].size)
        PROVE  arrayTypes[Ty(k)].size[1] \in Nat
    <3>1. Ty(k) \in Node
      BY <2>1, <2>2 DEF CheckedTypes, isArrayTy, NoTy, IntTy
    <3>2. arrayTypes[Ty(k)].size \in CheckedSizes
      BY <3>1 DEF CheckTypeOK
    <3>. QED
      BY <1>1, <2>2, <3>2 DEF CheckedSizes, IsKnown, Known, Unknown
  <2>. QED
    BY <2>2 DEF ElementSize
<1>3. /\ 0 \in D /\ prev \in [1..N -> Nat] /\ \A k \in 1..N : prev[k] < k
      /\ step \in [1..N -> [D -> D]]
  <2>1. 0 \in D /\ prev \in [1..N -> Nat] /\ \A k \in 1..N : prev[k] < k
    BY <1>1
  <2>2. ASSUME NEW k \in 1..N, NEW s \in D PROVE (s + ElementSize(k)) % Word \in D
    <3>1. s + ElementSize(k) \in Int
      BY <1>1, <1>2
    <3>. QED
      BY <1>1, <3>1
  <2>. HIDE DEF D, N
  <2>3. step \in [1..N -> [D -> D]]
    BY <2>2
  <2>. QED
    BY <2>1, <2>3
<1>4. PICK f : Solves(f, N, D, 0, prev, step)
  <2>. HIDE DEF D, N, prev, step
  <2>1. Recurrence(N, D, 0, prev, step)
    BY <1>1, <1>3 DEF Recurrence
  <2>. QED
    BY <2>1, Recursion
<1>5. f \in [0..N -> D] /\ f[0] = 0 /\ \A k \in 1..N : f[k] = step[k][f[prev[k]]]
  <2>. HIDE DEF D, N, prev, step
  <2>. QED
    BY <1>4 DEF Solves
<1>6. ASSUME NEW k \in 1..N PROVE f[k] = (f[k - 1] + ElementSize(k)) % Word
  <2>1. prev[k] = k - 1 /\ k - 1 \in 0..N
    BY <1>1
  <2>2. f[k] = step[k][f[prev[k]]] /\ f[prev[k]] \in D
    <3>. HIDE DEF prev, step, D
    <3>. QED
      BY <1>5, <2>1
  <2>3. \A s \in D : step[k][s] = (s + ElementSize(k)) % Word
    OBVIOUS
  <2>. HIDE DEF prev, step, D
  <2>. QED
    BY <2>1, <2>2, <2>3
<1>7. f = [k \in 0..N |-> IF k = 0 THEN 0 ELSE (f[k - 1] + ElementSize(k)) % Word]
  <2>. HIDE DEF step, prev
  <2>. QED
    BY <1>1, <1>5, <1>6
<1>8. Sum = [k \in 0..N |-> IF k = 0 THEN 0 ELSE (Sum[k - 1] + ElementSize(k)) % Word]
  BY <1>7
<1>9. PresetSize = Unknown \/ PresetSize = Known(Sum[N])
  BY DEF PresetSize
<1>. HIDE DEF Sum
<1>10. \A k \in 0..N : Sum[k] \in D
  <2>. DEFINE G == { k \in 0..N : Sum[k] \in D }
  <2>1. 0 \in G
    BY <1>1, <1>3, <1>8
  <2>2. ASSUME NEW k \in 1..N, k - 1 \in G PROVE k \in G
    <3>1. k - 1 \in 0..N /\ Sum[k - 1] \in D /\ k \in 0..N /\ k # 0
      BY <1>1, <2>2
    <3>2. Sum[k] = (Sum[k - 1] + ElementSize(k)) % Word
      BY <1>8, <3>1
    <3>3. Sum[k - 1] + ElementSize(k) \in Int
      BY <1>1, <1>2, <3>1
    <3>. QED
      BY <1>1, <3>1, <3>2, <3>3
  <2>. HIDE DEF G
  <2>3. 0..N \subseteq G
    BY <1>1, <2>1, <2>2, UpTo
  <2>. QED
    BY <2>3 DEF G
<1>11. Sum \in [0..N -> Nat] /\ Sum[0] = 0
       /\ \A k \in 1..N : Sum[k] = (Sum[k - 1] + ElementSize(k)) % Word
  <2>1. \A k \in 0..N : Sum[k] \in Nat
    BY <1>1, <1>10
  <2>2. Sum \in [0..N -> Nat]
    BY <1>8, <2>1
  <2>3. Sum[0] = 0
    BY <1>1, <1>8
  <2>4. \A k \in 1..N : Sum[k] = (Sum[k - 1] + ElementSize(k)) % Word
    <3>. TAKE k \in 1..N
    <3>1. k \in 0..N /\ k # 0
      BY <1>1
    <3>. QED
      BY <1>8, <3>1
  <2>. QED
    BY <2>2, <2>3, <2>4
<1>12. PresetSize \in CheckedSizes
  <2>1. Sum[N] \in D
    BY <1>1, <1>10
  <2>. QED
    BY <1>9, <2>1, OperandResults DEF CheckedSizes
<1>. HIDE DEF D
<1>. QED
  BY <1>9, <1>11, <1>12

LEMMA TypesMade ==
    ASSUME StackInv, CheckTypeOK, CheckPresetArray \/ CheckUniformArray
    PROVE  MakesArrayType
<1>1. ASSUME cur # 0, Kind(cur) \in {"preset", "uniform"}, done[cur] = Len(Kids(cur)),
             Yield(Result(cur, Unknown)), NEW t \in CheckedTypes, NEW s \in CheckedSizes,
             arrayTypes' = [arrayTypes EXCEPT ![cur] = [contained |-> t, size |-> s]],
             t = IntTy \/ (Kind(cur) = "uniform" /\ t = Ty(1))
      PROVE  MakesArrayType
  BY <1>1 DEF MakesArrayType
<1>2. CASE CheckPresetArray
  <2>1. cur # 0 /\ Kind(cur) = "preset" /\ done[cur] = Len(Kids(cur))
    BY <1>2 DEF CheckPresetArray, ReadyToCheck, At, CheckedOperands
  <2>2. PresetSize \in CheckedSizes /\ IntTy \in CheckedTypes
    BY <2>1, PresetSizes DEF CheckedTypes
  <2>. QED
    BY <1>1, <1>2, <2>1, <2>2 DEF CheckPresetArray
<1>3. CASE CheckUniformArray
  <2>1. cur # 0 /\ Kind(cur) = "uniform" /\ done[cur] = Len(Kids(cur))
    BY <1>3 DEF CheckUniformArray, ReadyToCheck, At, CheckedOperands
  <2>2. 1 \in DOMAIN Kids(cur) /\ 2 \in DOMAIN Kids(cur)
    BY <2>1, KidsExist, NodeShape DEF StackInv
  <2>. DEFINE s == IF Ty(2) = IntTy /\ IsKnown(Val(2)) THEN Known(Unsigned(Val(2)[1])) ELSE Unknown
  <2>3. s \in CheckedSizes
    <3>1. ASSUME IsKnown(Val(2)) PROVE Unsigned(Val(2)[1]) \in 0..(Word - 1)
      BY <2>1, <2>2, <3>1, OperandResults, UnsignedInWord, Width
    <3>. QED
      BY <3>1 DEF CheckedSizes
  <2>4. arrayTypes' = [arrayTypes EXCEPT ![cur] = [contained |-> Ty(1), size |-> s]]
    BY <1>3 DEF CheckUniformArray
  <2>5. Ty(1) \in CheckedTypes
    BY <2>1, <2>2, OperandResults
  <2>. HIDE DEF s
  <2>. QED
    BY <1>1, <1>3, <2>1, <2>3, <2>4, <2>5 DEF CheckUniformArray
<1>. QED
  BY <1>2, <1>3

LEMMA CheckEffects ==
    ASSUME StackInv, CheckTypeOK, CheckNext
    PROVE  CheckEffect
<1>1. cur # 0 => cur \in Node
  BY Trees DEF StackInv, StackTypeOK, ProgOK, Node
<1>2. ASSUME UNCHANGED checkVars PROVE CheckEffect
  BY <1>2 DEF checkVars, CheckEffect, KeepsResults, KeepsArrayTypes, KeepsDeclared
\* Whatever only reports and returns.
<1>3. ASSUME cur # 0, NEW r, PossibleResult(r), Yield(r), UNCHANGED <<arrayTypes, Declared>>,
             UNCHANGED Errors \/ Report(0) \/ Report(1) \/ Report(2)
      PROVE  CheckEffect
  <2>1. YieldsResult
    BY <1>3 DEF YieldsResult
  <2>2. UNCHANGED Errors \/ Reports
    BY <1>3 DEF Reports
  <2>. QED
    BY <1>3, <2>1, <2>2 DEF CheckEffect, KeepsArrayTypes, KeepsDeclared
<1>4. ASSUME NEW b, ReportIf(b) PROVE Report(0) \/ Report(1)
  BY <1>4 DEF ReportIf
<1>5. ASSUME CheckOperand \/ CheckElement \/ CheckElementValue \/ LeaveChecked PROVE CheckEffect
  BY <1>2, <1>5 DEF CheckOperand, CheckElement, CheckElementValue, LeaveChecked, HaltCheck
<1>6. CASE CheckNumber
  <2>1. cur # 0 /\ Kind(cur) = "number" /\ Yield(Result(IntTy, Known(prog[cur].val)))
    BY <1>6 DEF CheckNumber, ReadyToCheck, At
  <2>2. prog[cur].val \in Int32
    BY <1>1, <2>1, NodeShape DEF StackInv
  <2>3. PossibleResult(Result(IntTy, Known(prog[cur].val)))
    BY <2>1, <2>2, OperandResults DEF PossibleResult, YieldsInt
  <2>. QED
    BY <1>3, <1>6, <2>1, <2>3 DEF CheckNumber
<1>7. CASE CheckRead
  <2>1. cur # 0 /\ PossibleResult(Result(IntTy, Unknown))
    BY <1>7 DEF CheckRead, ReadyToCheck, At, PossibleResult, YieldsInt, CheckedValues
  <2>. QED
    BY <1>3, <1>7, <2>1 DEF CheckRead
<1>8. CASE CheckVariable
  <2>1. cur # 0
    BY <1>8 DEF CheckVariable, ReadyToCheck, At
  <2>2. ASSUME isDefined(Declared, Name(cur), Scope(cur))
        PROVE  PossibleResult(Result(getTypeFor(Declared, Name(cur), Scope(cur)), Unknown))
    <3>1. Scope(cur) \in Seq(Nat) /\ \A i \in DOMAIN Scope(cur) : Scope(cur)[i] # 0
      BY <1>1, <2>1, ScopesLookUp DEF StackInv
    <3>2. getDeclKeyFor(Declared, Name(cur), Scope(cur)) \in DOMAIN Declared
      BY <2>2, <3>1, Lookup
    <3>. QED
      BY <3>2 DEF PossibleResult, YieldsDeclared, getTypeFor
  <2>3. PossibleResult(NoResult)
    BY DEF PossibleResult
  <2>4. \E r : PossibleResult(r) /\ Yield(r)
    BY <1>8, <2>2, <2>3 DEF CheckVariable
  <2>. QED
    BY <1>3, <1>4, <1>8, <2>1, <2>4 DEF CheckVariable
<1>9. CASE CheckUn
  <2>1. cur # 0 /\ Kind(cur) = "un"
    BY <1>9 DEF CheckUn, ReadyToCheck, At
  <2>2. 1 \in DOMAIN Kids(cur) /\ Op(cur) \in {"+", "-", "!"}
    BY <1>1, <2>1, NodeShape DEF StackInv
  <2>3. IsKnown(Val(1)) => Known(UnaryValue(Op(cur), Val(1)[1])) \in CheckedValues
    BY <2>1, <2>2, OperandResults, UnaryIsInt
  <2>4. \E r : PossibleResult(r) /\ Yield(r)
    BY <1>9, <2>1, <2>3, OperandResults DEF CheckUn, PossibleResult, YieldsInt
  <2>. QED
    BY <1>3, <1>4, <1>9, <2>1, <2>4 DEF CheckUn
<1>10. CASE CheckCalc
  <2>1. cur # 0 /\ Kind(cur) = "calc"
    BY <1>10 DEF CheckCalc, ReadyToCheck, At
  <2>2. 1 \in DOMAIN Kids(cur) /\ 2 \in DOMAIN Kids(cur) /\ Op(cur) \in {"+", "-", "*", "/", "%"}
    BY <1>1, <2>1, NodeShape DEF StackInv
  <2>. DEFINE fault == ArithFault(Op(cur), Val(1)[1], Val(2)[1])
              val   == ArithValue(Op(cur), Val(1)[1], Val(2)[1])
  <2>3. ASSUME BothKnown, fault = "none" PROVE Known(val) \in CheckedValues
    <3>1. Val(1)[1] \in Int32 /\ Val(2)[1] \in Int32
      BY <2>1, <2>2, <2>3, OperandResults DEF BothKnown
    <3>. QED
      BY <2>1, <2>2, <2>3, <3>1, OperandResults, ArithIsInt
  <2>4. CASE BothKnown /\ fault # "none"
    BY <1>2, <1>10, <2>4 DEF CheckCalc, HaltCheck
  <2>5. CASE ~(BothKnown /\ fault # "none")
    <3>1. /\ ReportIf(~BothInt) /\ UNCHANGED <<arrayTypes, Declared>>
          /\ Yield(IF BothKnown THEN Result(IntTy, Known(val))
                   ELSE IF NoTy \in {Ty(1), Ty(2)} THEN NoResult
                   ELSE Result(Ty(1), Unknown))
      BY <1>10, <2>5 DEF CheckCalc
    <3>2. BothKnown => PossibleResult(Result(IntTy, Known(val)))
      BY <2>3, <2>5 DEF PossibleResult, YieldsInt
    <3>3. PossibleResult(NoResult) /\ PossibleResult(Result(Ty(1), Unknown))
      BY <2>2 DEF PossibleResult, YieldsOperand
    <3>. HIDE DEF val
    <3>4. \E r : PossibleResult(r) /\ Yield(r)
      BY <3>1, <3>2, <3>3
    <3>. QED
      BY <1>3, <1>4, <2>1, <3>1, <3>4
  <2>. QED
    BY <2>4, <2>5
<1>11. CASE CheckLogic
  <2>1. cur # 0 /\ Kind(cur) = "logic"
    BY <1>11 DEF CheckLogic, ReadyToCheck, At
  <2>2. Op(cur) \in {"<", "<=", ">", ">=", "==", "!=", "&&", "||"}
    BY <1>1, <2>1, NodeShape DEF StackInv
  <2>3. Known(LogicValue(Op(cur), Val(1)[1], Val(2)[1])) \in CheckedValues
    BY <2>1, <2>2, OperandResults, LogicIsInt
  <2>4. \E r : PossibleResult(r) /\ Yield(r)
    BY <1>11, <2>1, <2>3, OperandResults DEF CheckLogic, PossibleResult, YieldsInt
  <2>. QED
    BY <1>3, <1>4, <1>11, <2>1, <2>4 DEF CheckLogic
<1>12. CASE CheckPrint
  <2>1. cur # 0 /\ Kind(cur) = "print"
    BY <1>12 DEF CheckPrint, ReadyToCheck, At
  <2>2. 1 \in DOMAIN Kids(cur)
    BY <1>1, <2>1, NodeShape DEF StackInv
  <2>3. PossibleResult(Result(Ty(1), Unknown))
    BY <2>2 DEF PossibleResult, YieldsOperand
  <2>. QED
    BY <1>3, <1>12, <2>1, <2>3 DEF CheckPrint
<1>13. CASE CheckAssignedValue
  <2>1. cur # 0 /\ Kind(cur) = "assign" /\ At("assign", 1)
    BY <1>13 DEF CheckAssignedValue, ReadyToCheck, At, CheckedOperands
  <2>2. 1 \in DOMAIN Kids(cur)
    BY <1>1, <2>1, NodeShape DEF StackInv
  <2>3. CASE CopiesArray
    <3>1. PossibleResult(Result(Ty(1), Unknown))
      BY <2>2 DEF PossibleResult, YieldsOperand
    <3>. QED
      BY <1>3, <1>13, <2>1, <2>3, <3>1 DEF CheckAssignedValue
  <2>4. CASE ~CopiesArray
    <3>1. Accept(2) /\ UNCHANGED <<res, arrayTypes>> /\ Reports
      BY <1>4, <1>13, <2>1, <2>4 DEF CheckAssignedValue, Reports
    <3>2. KeepsDeclared \/ Declares
      BY <1>13, <2>1, <2>4, <3>1 DEF CheckAssignedValue, KeepsDeclared, Declares
    <3>. QED
      BY <3>1, <3>2 DEF CheckEffect, KeepsResults, KeepsArrayTypes
  <2>. QED
    BY <2>3, <2>4
<1>14. CASE CheckAssignment
  <2>1. cur # 0 /\ Kind(cur) = "assign"
    BY <1>14 DEF CheckAssignment, At
  <2>2. 1 \in DOMAIN Kids(cur)
    BY <1>1, <2>1, NodeShape DEF StackInv
  <2>3. PossibleResult(Result(Ty(1), Unknown))
    BY <2>2 DEF PossibleResult, YieldsOperand
  <2>. QED
    BY <1>3, <1>4, <1>14, <2>1, <2>3 DEF CheckAssignment
<1>15. CASE CheckArrayHolder
  <2>1. cur # 0 /\ Kind(cur) = "holder"
    BY <1>15 DEF CheckArrayHolder, ReadyToCheck, At
  <2>2. PossibleResult(res[Kid(cur, 1)])
    BY <2>1 DEF PossibleResult, YieldsHeld
  <2>. QED
    BY <1>3, <1>15, <2>1, <2>2 DEF CheckArrayHolder
<1>17. CASE CheckPresetArray \/ CheckUniformArray
  <2>1. MakesArrayType
    BY <1>17, TypesMade
  <2>2. YieldsResult
    BY <2>1 DEF MakesArrayType, YieldsResult, PossibleResult, YieldsItself
  <2>3. (\E b : ReportIf(b)) /\ UNCHANGED Declared /\ cur # 0
    BY <1>17, <2>1 DEF CheckPresetArray, CheckUniformArray, MakesArrayType
  <2>. QED
    BY <1>4, <2>1, <2>2, <2>3 DEF CheckEffect, KeepsDeclared, Reports
<1>19. CASE CheckArrayAccess
  <2>1. cur # 0 /\ PossibleResult(NoResult)
    BY <1>19 DEF CheckArrayAccess, At, PossibleResult
  <2>2. \/ UNCHANGED checkVars
        \/ Report(1) /\ Yield(NoResult) /\ UNCHANGED <<arrayTypes, Declared>>
    BY <1>19 DEF CheckArrayAccess, HaltCheck
  <2>. QED
    BY <1>2, <1>3, <2>1, <2>2
<1>20. CASE CheckRank
  <2>1. cur # 0 /\ PossibleResult(NoResult) /\ PossibleResult(Result(IntTy, Unknown))
    BY <1>20 DEF CheckRank, PossibleResult, YieldsInt, CheckedValues
  <2>2. Report(0) \/ Report(1)
    BY <1>4, <1>20 DEF CheckRank
  <2>3. \/ Yield(NoResult) \/ Yield(Result(IntTy, Unknown)) \/ UNCHANGED res
    BY <1>20 DEF CheckRank
  <2>4. UNCHANGED <<arrayTypes, Declared>>
    BY <1>20 DEF CheckRank
  <2>5. CASE UNCHANGED res
    BY <2>1, <2>2, <2>4, <2>5 DEF CheckEffect, KeepsResults, KeepsArrayTypes, KeepsDeclared, Reports
  <2>. QED
    BY <1>3, <2>1, <2>2, <2>3, <2>4, <2>5
<1>21. CASE CheckAssignedElement
  <2>1. cur # 0 /\ PossibleResult(NoResult)
    BY <1>21 DEF CheckAssignedElement, At, PossibleResult
  <2>2. \/ UNCHANGED checkVars
        \/ Report(1) /\ Yield(NoResult) /\ UNCHANGED <<arrayTypes, Declared>>
    BY <1>21 DEF CheckAssignedElement
  <2>. QED
    BY <1>2, <1>3, <2>1, <2>2
<1>22. CASE CheckArrayAccessAssignment
  <2>1. cur # 0 /\ PossibleResult(NoResult)
    BY <1>22 DEF CheckArrayAccessAssignment, At, PossibleResult
  <2>2. Report(0) \/ Report(1) \/ Report(2)
    BY <1>22 DEF CheckArrayAccessAssignment
  <2>. QED
    BY <1>3, <1>22, <2>1, <2>2 DEF CheckArrayAccessAssignment
<1>23. CASE CheckCondition
  <2>1. Reports
    BY <1>4, <1>23 DEF CheckCondition, Reports, At
  <2>. QED
    BY <1>23, <2>1 DEF CheckCondition, CheckEffect, KeepsResults, KeepsArrayTypes, KeepsDeclared
<1>. QED
  BY <1>5, <1>6, <1>7, <1>8, <1>9, <1>10, <1>11, <1>12, <1>13, <1>14, <1>15, <1>17, <1>19,
     <1>20, <1>21, <1>22, <1>23 DEF CheckNext

LEMMA Reported ==
    ASSUME Errors \in Seq(Node), cur \in Node, NEW k \in 0..2, Report(k)
    PROVE  Errors' \in Seq(Node) /\ (Errors' = <<>> <=> k = 0 /\ Errors = <<>>)
<1>. DEFINE s == [i \in 1..k |-> cur]
<1>1. s \in Seq(Node) /\ Len(s) = k
  <2>1. s \in [1..k -> Node] /\ k \in Nat
    OBVIOUS
  <2>. QED
    BY <2>1
<1>2. Errors' = Errors \o s
  BY DEF Report
<1>. HIDE DEF s
<1>3. Errors' \in Seq(Node) /\ Len(Errors') = Len(Errors) + k
  BY <1>1, <1>2
<1>4. Len(Errors) \in Nat /\ Errors = <<>> <=> Len(Errors) = 0
  OBVIOUS
<1>. QED
  BY <1>3, <1>4

\* The types of the checker's variables are kept by every step.
LEMMA CheckTypesKept ==
    ASSUME StackInv, CheckTypeOK, Moves, CheckEffect
    PROVE  CheckTypeOK'
<1>1. Node' = Node /\ Keys' = Keys /\ prog' = prog
  <2>1. prog' = prog
    BY DEF Moves, AcceptsKid, Accept, Returns, Return, Stays
  <2>. QED
    BY <2>1 DEF Node, Keys
<1>2. cur # 0 => cur \in Node
  BY KidsExist
<1>3. ASSUME NEW r, cur # 0, PossibleResult(r)
      PROVE  r \in [ty : CheckedTypes, val : CheckedValues]
  <2>1. CASE r = NoResult \/ YieldsInt(r) \/ YieldsItself(r)
    BY <1>2, <1>3, <2>1 DEF NoResult, YieldsInt, YieldsItself, Result, CheckedTypes, CheckedValues
  <2>2. CASE YieldsOperand(r)
    BY <1>3, <2>2, OperandResults DEF YieldsOperand, Result
  <2>3. CASE YieldsDeclared(r)
    BY <2>3 DEF YieldsDeclared, Result, CheckTypeOK, CheckedTypes, CheckedValues
  <2>4. CASE YieldsHeld(r)
    <3>1. 1 \in DOMAIN Kids(cur) /\ Kid(cur, 1) \in Node
      BY <1>2, <1>3, <2>4, NodeShape DEF YieldsHeld, StackInv
    <3>. QED
      BY <2>4, <3>1 DEF YieldsHeld, CheckTypeOK
  <2>. QED
    BY <1>3, <2>1, <2>2, <2>3, <2>4 DEF PossibleResult
<1>4. (res \in [Node -> [ty : CheckedTypes, val : CheckedValues]])'
  <2>1. CASE KeepsResults
    BY <1>1, <2>1 DEF KeepsResults, CheckTypeOK, CheckedTypes
  <2>2. CASE YieldsResult
    <3>1. PICK r : Yield(r) /\ PossibleResult(r)
      BY <2>2 DEF YieldsResult
    <3>2. r \in [ty : CheckedTypes, val : CheckedValues]
      BY <1>3, <2>2, <3>1 DEF YieldsResult
    <3>3. res' = [res EXCEPT ![cur] = r]
      BY <3>1 DEF Yield
    <3>. QED
      BY <1>1, <3>2, <3>3 DEF CheckTypeOK, CheckedTypes
  <2>. QED
    BY <2>1, <2>2 DEF CheckEffect
<1>5. (arrayTypes \in [Node -> [contained : CheckedTypes, size : CheckedSizes]])'
  <2>1. CASE KeepsArrayTypes
    BY <1>1, <2>1 DEF KeepsArrayTypes, CheckTypeOK, CheckedTypes
  <2>2. CASE MakesArrayType
    <3>1. PICK t \in CheckedTypes, s \in CheckedSizes :
             arrayTypes' = [arrayTypes EXCEPT ![cur] = [contained |-> t, size |-> s]]
      BY <2>2 DEF MakesArrayType
    <3>2. CheckedTypes' = CheckedTypes /\ CheckedSizes' = CheckedSizes
      BY <1>1 DEF CheckedTypes, CheckedSizes
    <3>3. arrayTypes \in [Node -> [contained : CheckedTypes, size : CheckedSizes]]
      BY DEF CheckTypeOK
    <3>. QED
      BY <1>1, <3>1, <3>2, <3>3
  <2>. QED
    BY <2>1, <2>2 DEF CheckEffect
<1>6. /\ (DOMAIN Declared \subseteq Keys)'
      /\ (\A k \in DOMAIN Declared : Declared[k] \in Node \cup {IntTy})'
  <2>1. CASE KeepsDeclared
    BY <1>1, <2>1 DEF KeepsDeclared, CheckTypeOK
  <2>2. CASE Declares
    <3>. DEFINE key == SymTabKey(Name(cur), Scope(cur)[1])
    <3>1. cur \in Node /\ Kind(cur) = "assign"
      BY <1>2, <2>2 DEF Declares, At
    <3>2. cur # 1
      BY <3>1, Trees DEF StackInv, ProgOK, Kind
    <3>3. 1 \in DOMAIN Scope(cur) /\ Scope(cur)[1] \in Node /\ IsBlock(prog, Scope(cur)[1])
      BY <3>1, <3>2, ScopesLookUp DEF StackInv
    <3>4. key \in Keys
      BY <3>1, <3>3 DEF Keys, Name
    <3>5. Ty(1) \in Node \cup {IntTy}
      <4>1. 1 \in DOMAIN Kids(cur)
        BY <3>1, NodeShape DEF StackInv
      <4>. QED
        BY <2>2, <4>1, OperandResults DEF CheckedTypes, Declares, At
    <3>6. Declared' = tryDefine(Declared, key, Ty(1))
      BY <2>2 DEF Declares
    <3>. HIDE DEF key
    <3>7. /\ DOMAIN Declared' \subseteq Keys
          /\ \A k \in DOMAIN Declared' : Declared'[k] \in Node \cup {IntTy}
      BY <3>4, <3>5, <3>6 DEF tryDefine, Emplace, CheckTypeOK
    <3>. QED
      BY <1>1, <3>7
  <2>. QED
    BY <2>1, <2>2 DEF CheckEffect
<1>7. (Errors \in Seq(Node))'
  <2>1. CASE UNCHANGED Errors
    BY <1>1, <2>1 DEF CheckTypeOK
  <2>2. CASE Reports
    BY <1>1, <1>2, <2>2, Reported DEF Reports, CheckTypeOK
  <2>. QED
    BY <2>1, <2>2 DEF CheckEffect
<1>. QED
  BY <1>4, <1>5, <1>6, <1>7 DEF CheckTypeOK

-----------------------------------------------------------------------------
(***************************************************************************)
(* How a step of the checker goes on, and what it concludes in silence.    *)
(***************************************************************************)
\* What a missing type is left unreported for.
Typed(n) == res[n].ty # NoTy \/ ElementAssignment(prog, n)

\* The operands the frame on top has accepted are typed.
OperandsTyped ==
    Kind(cur) \in ExpressionKinds =>
        \A i \in DOMAIN Kids(cur) : i <= done[cur] => Typed(Kid(cur, i))

\* Every kid was accepted, but for the else branch of an if.
AllAccepted ==
    \A i \in DOMAIN Kids(cur) : i <= done[cur] \/ (Kind(cur) = "if" /\ i = 3)

TypedNow == res'[cur].ty # NoTy \/ ElementAssignment(prog, cur)

GoesOn ==
    /\ cur # 0 /\ done[cur] + 1 \in DOMAIN Kids(cur) /\ Accept(done[cur] + 1)
    /\ Kind(cur) = "if" => done[cur] + 1 # 3
    /\ UNCHANGED <<res, arrayTypes>>

Leaves ==
    /\ Returns
    /\ UNCHANGED res \/ \E r : Yield(r)
    /\ IF Kind(cur) \in {"preset", "uniform"} THEN MakesArrayType ELSE UNCHANGED arrayTypes
    /\ Errors' # <<>> \/ (AllAccepted /\ (Kind(cur) \in ExpressionKinds => TypedNow))

Halts ==
    /\ UNCHANGED <<prog, cur, done>> /\ UNCHANGED checkVars
    /\ \/ status' \in {"divByZero", "trapped"}
       \/ status' = "assertFailed" /\ cur # 0 /\ ElementAsserts
       \/ /\ status' = "nullDeref" /\ At("access", 0)
          /\ ~Undeclared /\ isArrayTy(AccessedTy) /\ DimensionNullDeref(AccessedTy)

LEMMA CheckControl ==
    ASSUME StackInv, CheckTypeOK, CheckNext, CheckEffect, Errors = <<>> => OperandsTyped
    PROVE  (GoesOn \/ Leaves \/ Halts) /\ (Errors' = <<>> => Errors = <<>>)
<1>. DEFINE Goal == GoesOn \/ Leaves \/ Halts
<1>1. cur \in Node /\ cur # 0 /\ Errors \in Seq(Node)
  <2>1. cur # 0
    BY DEF CheckNext, CheckOperand, CheckNumber, CheckRead, CheckVariable, CheckUn, CheckCalc,
           CheckLogic, CheckPrint, CheckAssignedValue, CheckAssignment, CheckArrayHolder,
           CheckElement, CheckPresetArray, CheckUniformArray, CheckArrayAccess, CheckRank,
           CheckAssignedElement, CheckElementValue, CheckArrayAccessAssignment,
           CheckCondition, LeaveChecked, ReadyToCheck, At
  <2>. QED
    BY <2>1, KidsExist DEF CheckTypeOK
<1>2. Errors' = <<>> => Errors = <<>>
  BY <1>1, Reported DEF CheckEffect, Reports
<1>. SUFFICES Goal
  BY <1>2
<1>3. ASSUME NEW b \in BOOLEAN, ReportIf(b), b PROVE Errors' # <<>>
  BY <1>1, <1>3, Reported DEF ReportIf
<1>4. ASSUME Report(1) PROVE Errors' # <<>>
  BY <1>1, <1>4, Reported
<1>5. ASSUME NEW r, Yield(r)
      PROVE  /\ Returns
             /\ r.ty # NoTy \/ ElementAssignment(prog, cur) => TypedNow
  BY <1>1, <1>5 DEF Yield, Returns, CheckTypeOK, TypedNow
<1>6. /\ Kids(cur) \in Seq(Nat) /\ DOMAIN Kids(cur) = 1..Len(Kids(cur)) /\ Len(Kids(cur)) \in Nat
      /\ done[cur] \in Nat
  BY <1>1, KidsExist
<1>7. ASSUME done[cur] = Len(Kids(cur)) PROVE AllAccepted
  BY <1>6, <1>7 DEF AllAccepted
<1>8. ASSUME UNCHANGED <<prog, cur, done>>, UNCHANGED checkVars, status' \in {"divByZero", "trapped"}
      PROVE  Goal
  BY <1>8 DEF Halts
\* Whatever is left in silence is typed.
<1>9. ASSUME NEW r, Yield(r), UNCHANGED arrayTypes, Kind(cur) \notin {"preset", "uniform"},
             \/ Errors' # <<>>
             \/ done[cur] = Len(Kids(cur)) /\ (r.ty # NoTy \/ ElementAssignment(prog, cur))
      PROVE  Goal
  BY <1>5, <1>7, <1>9 DEF Leaves
<1>91. ASSUME NEW v, Yield(Result(IntTy, v)), UNCHANGED arrayTypes, done[cur] = Len(Kids(cur)),
              Kind(cur) \notin {"preset", "uniform"}
       PROVE  Goal
  BY <1>9, <1>91 DEF Result, IntTy, NoTy
<1>92. ASSUME NEW b, ReportIf(b), b = TRUE, NEW r, Yield(r), UNCHANGED arrayTypes,
              Kind(cur) \notin {"preset", "uniform"}
       PROVE  Goal
  BY <1>3, <1>9, <1>92
<1>10. ASSUME UNCHANGED <<res, arrayTypes>>, NEW i \in DOMAIN Kids(cur), Accept(i),
              i = done[cur] + 1, Kind(cur) = "if" => i # 3
       PROVE  Goal
  BY <1>1, <1>10 DEF GoesOn
<1>11. ASSUME NEW i \in DOMAIN Kids(cur), i <= done[cur], Kind(cur) \in ExpressionKinds
       PROVE  Errors' # <<>> \/ Ty(i) # NoTy \/ ElementAssignment(prog, Kid(cur, i))
  BY <1>2, <1>11 DEF OperandsTyped, Typed, Ty
<1>12. CASE CheckOperand
  <2>1. /\ done[cur] < CheckedOperands(cur) /\ Accept(done[cur] + 1)
        /\ UNCHANGED <<res, arrayTypes>>
    BY <1>12 DEF CheckOperand, checkVars
  <2>2. done[cur] + 1 \in DOMAIN Kids(cur)
    BY <1>1, <2>1, CheckedOperandsExist
  <2>3. Kind(cur) = "if" => done[cur] + 1 # 3
    BY <1>6, <2>1 DEF CheckedOperands
  <2>. QED
    BY <1>10, <2>1, <2>2, <2>3
<1>13. CASE CheckNumber \/ CheckRead
  <2>1. done[cur] = Len(Kids(cur)) /\ Kind(cur) \in {"number", "read"} /\ UNCHANGED arrayTypes
    BY <1>13 DEF CheckNumber, CheckRead, ReadyToCheck, At, CheckedOperands
  <2>2. \E v : Yield(Result(IntTy, v))
    BY <1>13 DEF CheckNumber, CheckRead
  <2>. QED
    BY <1>9, <2>1, <2>2 DEF Result, IntTy, NoTy
<1>14. CASE CheckVariable
  <2>. DEFINE known == isDefined(Declared, Name(cur), Scope(cur))
              r == IF known THEN Result(getTypeFor(Declared, Name(cur), Scope(cur)), Unknown)
                   ELSE NoResult
  <2>1. /\ done[cur] = Len(Kids(cur)) /\ Kind(cur) = "variable" /\ UNCHANGED arrayTypes
        /\ Yield(r) /\ ReportIf(~known)
    BY <1>14 DEF CheckVariable, ReadyToCheck, At, CheckedOperands
  <2>2. known => r.ty # NoTy
    <3>1. Scope(cur) \in Seq(Nat) /\ \A i \in DOMAIN Scope(cur) : Scope(cur)[i] # 0
      BY <1>1, ScopesLookUp DEF StackInv
    <3>2. known => getDeclKeyFor(Declared, Name(cur), Scope(cur)) \in DOMAIN Declared
      BY <3>1, Lookup
    <3>3. Node \subseteq Nat \ {0}
      BY Trees DEF StackInv, ProgOK, Node
    <3>. QED
      BY <3>2, <3>3 DEF getTypeFor, CheckTypeOK, Result, NoTy, IntTy
  <2>3. known \in BOOLEAN
    BY DEF isDefined
  <2>. HIDE DEF r, known
  <2>. QED
    BY <1>3, <1>9, <2>1, <2>2, <2>3
<1>15. CASE CheckUn
  <2>1. done[cur] = Len(Kids(cur)) /\ Kind(cur) = "un" /\ UNCHANGED arrayTypes
    BY <1>15 DEF CheckUn, ReadyToCheck, At, CheckedOperands
  <2>2. \/ ReportIf(TRUE) /\ Yield(NoResult)
        \/ \E v : Yield(Result(IntTy, v))
    BY <1>15 DEF CheckUn
  <2>. QED
    BY <1>91, <1>92, <2>1, <2>2
<1>16. CASE CheckCalc
  <2>1. done[cur] = Len(Kids(cur)) /\ Kind(cur) = "calc" /\ 1 \in DOMAIN Kids(cur)
    BY <1>1, <1>16, NodeShape DEF CheckCalc, ReadyToCheck, At, CheckedOperands, StackInv
  <2>2. \/ HaltCheck(ArithFault(Op(cur), Val(1)[1], Val(2)[1])) /\ UNCHANGED arrayTypes
           /\ ArithFault(Op(cur), Val(1)[1], Val(2)[1]) # "none"
        \/ UNCHANGED arrayTypes /\ ReportIf(TRUE) /\ \E r : Yield(r)
        \/ UNCHANGED arrayTypes /\ \E v : Yield(Result(IntTy, v))
    <3>1. BothKnown => BothInt
      BY DEF BothKnown
    <3>2. CASE ~BothInt
      BY <1>16, <3>1, <3>2 DEF CheckCalc
    <3>3. CASE BothInt
      <4>1. Result(Ty(1), Unknown) = Result(IntTy, Unknown) /\ NoTy \notin {Ty(1), Ty(2)}
        BY <3>3 DEF BothInt, NoTy, IntTy
      <4>. QED
        BY <1>16, <4>1 DEF CheckCalc, HaltCheck, checkVars
    <3>. QED
      BY <3>2, <3>3
  <2>3. CASE HaltCheck(ArithFault(Op(cur), Val(1)[1], Val(2)[1]))
             /\ ArithFault(Op(cur), Val(1)[1], Val(2)[1]) # "none"
    BY <1>8, <2>3, ArithFaults DEF HaltCheck, Stop
  <2>. QED
    BY <1>91, <1>92, <2>1, <2>2, <2>3
<1>17. CASE CheckLogic
  <2>1. done[cur] = Len(Kids(cur)) /\ Kind(cur) = "logic" /\ UNCHANGED arrayTypes
    BY <1>17 DEF CheckLogic, ReadyToCheck, At, CheckedOperands
  <2>2. \/ ReportIf(TRUE) /\ \E r : Yield(r)
        \/ \E v : Yield(Result(IntTy, v))
    BY <1>17 DEF CheckLogic
  <2>. QED
    BY <1>91, <1>92, <2>1, <2>2
<1>18. CASE CheckPrint
  <2>1. /\ done[cur] = Len(Kids(cur)) /\ Kind(cur) = "print" /\ UNCHANGED arrayTypes
        /\ Yield(Result(Ty(1), Unknown)) /\ 1 \in DOMAIN Kids(cur) /\ 1 <= done[cur]
    <3>1. /\ done[cur] = Len(Kids(cur)) /\ Kind(cur) = "print" /\ UNCHANGED arrayTypes
          /\ Yield(Result(Ty(1), Unknown))
      BY <1>18 DEF CheckPrint, ReadyToCheck, At, CheckedOperands
    <3>2. Len(Kids(cur)) = 1
      BY <1>1, <3>1, NodeShape DEF StackInv
    <3>. QED
      BY <1>6, <3>1, <3>2
  <2>2. Kind(cur) \in ExpressionKinds
    BY <2>1 DEF ExpressionKinds, Arity
  <2>3. Errors' # <<>> \/ Ty(1) # NoTy \/ ElementAssignment(prog, Kid(cur, 1))
    BY <1>11, <2>1, <2>2
  <2>4. ElementAssignment(prog, Kid(cur, 1)) => ElementAssignment(prog, cur)
    BY <2>1 DEF ElementAssignment, Kind, Kid
  <2>. QED
    BY <1>9, <2>1, <2>3, <2>4 DEF Result
<1>19. CASE CheckAssignedValue
  <2>1. At("assign", 1) /\ Len(Kids(cur)) = 2
    BY <1>1, <1>19, NodeShape
       DEF CheckAssignedValue, ReadyToCheck, CheckedOperands, At, StackInv
  <2>2. CASE CopiesArray
    BY <1>4, <1>9, <1>19, <2>1, <2>2 DEF CheckAssignedValue, At
  <2>3. CASE ~CopiesArray
    BY <1>6, <1>10, <1>19, <2>1, <2>3 DEF CheckAssignedValue, At
  <2>. QED
    BY <2>2, <2>3
<1>20. CASE CheckAssignment
  <2>1. /\ done[cur] = Len(Kids(cur)) /\ Kind(cur) = "assign" /\ UNCHANGED arrayTypes
        /\ Yield(Result(Ty(1), Unknown))
    BY <1>1, <1>20, NodeShape DEF CheckAssignment, At, StackInv
  <2>2. Ty(1) = NoTy => Errors' # <<>>
    BY <1>3, <1>20 DEF CheckAssignment
  <2>. QED
    BY <1>9, <2>1, <2>2 DEF Result
<1>21. CASE CheckArrayHolder
  <2>1. /\ done[cur] = Len(Kids(cur)) /\ Kind(cur) = "holder" /\ UNCHANGED arrayTypes
        /\ Yield(res[Kid(cur, 1)]) /\ 1 \in DOMAIN Kids(cur) /\ 1 <= done[cur]
        /\ Kind(Kid(cur, 1)) \in {"preset", "uniform"}
    BY <1>1, <1>21, NodeShape DEF CheckArrayHolder, ReadyToCheck, At, CheckedOperands, StackInv
  <2>2. Kind(cur) \in ExpressionKinds
    BY <2>1 DEF ExpressionKinds, Arity
  <2>3. Errors' # <<>> \/ Ty(1) # NoTy
    BY <1>11, <2>1, <2>2 DEF ElementAssignment, Kind
  <2>. QED
    BY <1>9, <2>1, <2>3 DEF Ty
<1>22. CASE CheckElement
  BY <1>1, <1>22 DEF CheckElement, HaltCheck, Stop, Halts
<1>23. CASE CheckPresetArray \/ CheckUniformArray
  <2>1. /\ Kind(cur) \in {"preset", "uniform"} /\ Yield(Result(cur, Unknown))
        /\ done[cur] = Len(Kids(cur))
    BY <1>23 DEF CheckPresetArray, CheckUniformArray, ReadyToCheck, At, CheckedOperands
  <2>2. cur # NoTy
    BY <1>1 DEF NoTy
  <2>3. MakesArrayType
    BY <1>23, TypesMade
  <2>. QED
    BY <1>5, <1>7, <2>1, <2>2, <2>3 DEF Leaves, Result
<1>24. CASE CheckArrayAccess
  <2>1. At("access", 0) /\ 1 \in DOMAIN Kids(cur)
    BY <1>1, <1>6, <1>24, NodeShape DEF CheckArrayAccess, At, StackInv
  <2>2. \/ /\ HaltCheck("nullDeref")
           /\ ~Undeclared /\ isArrayTy(AccessedTy) /\ DimensionNullDeref(AccessedTy)
        \/ Report(1) /\ Yield(NoResult) /\ UNCHANGED arrayTypes
        \/ Accept(1) /\ UNCHANGED checkVars
    BY <1>24 DEF CheckArrayAccess
  <2>3. CASE /\ HaltCheck("nullDeref")
             /\ ~Undeclared /\ isArrayTy(AccessedTy) /\ DimensionNullDeref(AccessedTy)
    BY <2>1, <2>3 DEF HaltCheck, Stop, Halts
  <2>4. CASE Report(1) /\ Yield(NoResult) /\ UNCHANGED arrayTypes
    BY <1>4, <1>9, <2>1, <2>4 DEF At
  <2>5. CASE Accept(1) /\ UNCHANGED checkVars
    BY <1>10, <2>1, <2>5 DEF At, checkVars
  <2>. QED
    BY <2>2, <2>3, <2>4, <2>5
<1>25. CASE CheckRank
  <2>1. Kind(cur) = "access" /\ UNCHANGED arrayTypes
    BY <1>25 DEF CheckRank
  <2>2. \/ isArrayTy(Ty(done[cur])) /\ ReportIf(TRUE) /\ Yield(NoResult)
        \/ done[cur] < Len(Kids(cur)) /\ Accept(done[cur] + 1) /\ UNCHANGED res
        \/ ~(done[cur] < Len(Kids(cur))) /\ Yield(Result(IntTy, Unknown))
    BY <1>25 DEF CheckRank
  <2>3. done[cur] <= Len(Kids(cur))
    BY <1>1, <1>6, KidsExist
  <2>4. CASE isArrayTy(Ty(done[cur])) /\ ReportIf(TRUE) /\ Yield(NoResult)
    BY <1>3, <1>9, <2>1, <2>4
  <2>5. CASE done[cur] < Len(Kids(cur)) /\ Accept(done[cur] + 1) /\ UNCHANGED res
    BY <1>6, <1>10, <2>1, <2>5
  <2>6. CASE ~(done[cur] < Len(Kids(cur))) /\ Yield(Result(IntTy, Unknown))
    <3>1. done[cur] = Len(Kids(cur))
      BY <1>6, <2>3, <2>6
    <3>. QED
      BY <1>9, <2>1, <2>6, <3>1 DEF Result, IntTy, NoTy
  <2>. QED
    BY <2>2, <2>4, <2>5, <2>6
<1>26. CASE CheckAssignedElement
  <2>1. At("accessAssign", 0) /\ 1 \in DOMAIN Kids(cur)
    BY <1>1, <1>26, SecondKid DEF CheckAssignedElement, At
  <2>2. CASE Report(1) /\ Yield(NoResult) /\ UNCHANGED arrayTypes
    BY <1>4, <1>9, <2>1, <2>2 DEF At
  <2>3. CASE Accept(1) /\ UNCHANGED checkVars
    BY <1>10, <2>1, <2>3 DEF At, checkVars
  <2>. QED
    BY <1>26, <2>2, <2>3 DEF CheckAssignedElement
<1>27. CASE CheckElementValue
  <2>1. At("accessAssign", 1) /\ 2 \in DOMAIN Kids(cur)
    BY <1>1, <1>27, SecondKid DEF CheckElementValue, At
  <2>. QED
    BY <1>10, <1>27, <2>1 DEF CheckElementValue, At, checkVars
<1>28. CASE CheckArrayAccessAssignment
  <2>1. At("accessAssign", 2) /\ Yield(NoResult) /\ UNCHANGED arrayTypes
    BY <1>28 DEF CheckArrayAccessAssignment
  <2>2. done[cur] = Len(Kids(cur)) /\ ElementAssignment(prog, cur)
    BY <1>1, <2>1, NodeShape DEF At, StackInv, ElementAssignment, Kind
  <2>. QED
    BY <1>9, <2>1, <2>2 DEF At
<1>29. CASE CheckCondition
  <2>1. Kind(cur) \in {"if", "while"} /\ done[cur] = 1 /\ Accept(2) /\ UNCHANGED <<res, arrayTypes>>
    BY <1>29 DEF CheckCondition, At
  <2>2. 2 \in DOMAIN Kids(cur)
    BY <1>1, <2>1, SecondKid
  <2>. QED
    BY <1>10, <2>1, <2>2
<1>30. CASE LeaveChecked
  <2>1. /\ Return /\ UNCHANGED <<res, arrayTypes>>
        /\ \/ At("if", 2) \/ At("while", 2)
           \/ Kind(cur) \in {"root", "block"} /\ done[cur] = Len(Kids(cur))
    BY <1>30 DEF LeaveChecked, ReadyToCheck, At, CheckedOperands, checkVars
  <2>2. AllAccepted
    <3>1. CASE At("if", 2) \/ At("while", 2)
      BY <1>1, <3>1, SecondKid DEF AllAccepted, At
    <3>2. CASE done[cur] = Len(Kids(cur))
      BY <1>7, <3>2
    <3>. QED
      BY <2>1, <3>1, <3>2
  <2>3. Kind(cur) \notin ExpressionKinds
    BY <2>1 DEF At, ExpressionKinds, Arity
  <2>4. Kind(cur) \notin {"preset", "uniform"}
    BY <2>1 DEF At
  <2>. QED
    BY <1>1, <2>1, <2>2, <2>3, <2>4 DEF Leaves, Returns
<1>. HIDE DEF Goal
<1>. QED
  BY <1>12, <1>13, <1>14, <1>15, <1>16, <1>17, <1>18, <1>19, <1>20, <1>21, <1>22, <1>23, <1>24,
     <1>25, <1>26, <1>27, <1>28, <1>29, <1>30 DEF CheckNext

-----------------------------------------------------------------------------
(***************************************************************************)
(* The invariant of a check.  A node is checked once, so the array types   *)
(* that are referred to have been made and contain older ones; and as long *)
(* as no error is reported, whatever the checker is done with is typed.    *)
(***************************************************************************)
Created(t) == t \in Node /\ Kind(t) \in {"preset", "uniform"} /\ res[t].ty = t

TypesCreated ==
    /\ \A n \in Node : isArrayTy(res[n].ty) => Created(res[n].ty)
    /\ \A k \in DOMAIN Declared : isArrayTy(Declared[k]) => Created(Declared[k])
    /\ \A n \in Node : isArrayTy(arrayTypes[n].contained) => Created(arrayTypes[n].contained)

\* Following contained types ends: Layers has a value.
IsLayers(f) ==
    \A k \in IntTy..Len(prog) :
        f[k] = IF k > 0 THEN <<k>> \o f[arrayTypes[k].contained] ELSE <<>>

LayersDefined ==
    \E f \in [IntTy..Len(prog) -> Seq(Node)] :
        /\ IsLayers(f)
        /\ \A k \in Node : Created(k) => \A i \in DOMAIN f[k] : Created(f[k][i])

NotElse == \A n \in OnStack : ~UnderElse(prog, n)

CheckedOnce == \A n \in Node : res[n] # NoResult => Left(n)

AllTyped ==
    \A n \in Node :
        Left(n) /\ Kind(n) \in ExpressionKinds /\ ~UnderElse(prog, n) => Typed(n)

ContainedKnown ==
    \A t \in Node :
        Created(t) /\ arrayTypes[t].contained = NoTy => ElementAssignment(prog, Kid(t, 1))

CheckInv ==
    /\ CheckTypeOK /\ TypesCreated /\ LayersDefined
    /\ NotElse /\ CheckedOnce
    /\ Errors = <<>> => AllTyped /\ ContainedKnown

LEMMA CheckStarts ==
    ASSUME ProgOK, cur = 1, done = RootFrame(prog), CheckInit
    PROVE  CheckInv
<1>1. /\ Node = Nodes(prog) /\ prog \in Programs /\ Len(prog) \in Nat /\ Node = 1..Len(prog)
      /\ OnStack = {1}
  BY StackAtRoot, Trees DEF ProgOK, Node, OnStack
<1>2. /\ \A n \in Node : res[n] = NoResult /\ arrayTypes[n] = NoArrayTy
      /\ DOMAIN Declared = {} /\ Errors = <<>>
  BY DEF CheckInit, EmptyTable
<1>3. CheckTypeOK
  BY DEF CheckInit, EmptyTable, CheckTypeOK, CheckedTypes, CheckedValues, CheckedSizes,
         NoResult, NoArrayTy, Result
<1>4. \A t : ~Created(t)
  BY <1>1, <1>2 DEF Created, NoResult, Result, NoTy
<1>5. TypesCreated
  BY <1>2 DEF TypesCreated, isArrayTy, NoResult, NoArrayTy, Result, NoTy
<1>6. LayersDefined
  <2>. DEFINE f == [k \in IntTy..Len(prog) |-> IF k > 0 THEN <<k>> ELSE <<>>]
  <2>1. f \in [IntTy..Len(prog) -> Seq(Node)]
    <3>1. ASSUME NEW k \in IntTy..Len(prog) PROVE (IF k > 0 THEN <<k>> ELSE <<>>) \in Seq(Node)
      <4>1. k > 0 => k \in Node
        BY <1>1 DEF IntTy
      <4>. QED
        BY <4>1
    <3>. QED
      BY <3>1
  <2>2. ASSUME NEW k \in IntTy..Len(prog)
        PROVE  f[k] = IF k > 0 THEN <<k>> \o f[arrayTypes[k].contained] ELSE <<>>
    <3>1. CASE k > 0
      <4>1. k \in Node /\ arrayTypes[k].contained = 0 /\ 0 \in IntTy..Len(prog)
        BY <1>1, <1>2, <3>1 DEF NoArrayTy, NoTy, IntTy
      <4>2. f[0] = <<>> /\ f[k] = <<k>>
        BY <3>1, <4>1
      <4>3. <<k>> \o <<>> = <<k>>
        OBVIOUS
      <4>. QED
        BY <3>1, <4>1, <4>2, <4>3
    <3>2. CASE ~(k > 0)
      BY <3>2
    <3>. QED
      BY <3>1, <3>2
  <2>. HIDE DEF f
  <2>. QED
    BY <1>4, <2>1, <2>2 DEF LayersDefined, IsLayers
<1>7. NotElse
  <2>1. Ancestors(prog, 1) = {1}
    BY <1>1, AncestorsOf, Trees
  <2>. QED
    BY <1>1, <2>1 DEF NotElse, UnderElse, Under, IsKid
<1>8. CheckedOnce
  BY <1>2 DEF CheckedOnce
<1>9. \A n \in Node : ~Left(n)
  <2>1. ASSUME NEW i \in DOMAIN Kids(1), i <= done[1] PROVE FALSE
    <3>1. done[1] = 0 /\ 1 \in Node
      BY <1>1 DEF RootFrame, OnStack
    <3>2. i \in 1..Len(Kids(1)) /\ Len(Kids(1)) \in Nat
      BY <3>1, NodeShape
    <3>. QED
      BY <2>1, <3>1, <3>2
  <2>. QED
    BY <1>1, <2>1 DEF Left
<1>10. AllTyped /\ ContainedKnown
  BY <1>4, <1>9 DEF AllTyped, ContainedKnown
<1>. QED
  BY <1>3, <1>5, <1>6, <1>7, <1>8, <1>10 DEF CheckInv

LEMMA CheckSteps ==
    ASSUME StackInv, CheckInv, CheckNext
    PROVE  CheckInv' /\ Moves /\ (GoesOn \/ Leaves \/ Halts)
<1>1. CheckTypeOK /\ CheckEffect /\ Moves
  BY CheckEffects, CheckMoves DEF CheckInv
<1>2. prog' = prog /\ Node' = Node /\ Keys' = Keys
  <2>1. prog' = prog
    BY <1>1 DEF Moves, AcceptsKid, Accept, Returns, Return, Stays
  <2>. QED
    BY <2>1 DEF Node, Keys
<1>3. /\ cur # 0 => cur \in Node /\ cur \in OnStack
      /\ Node = 1..Len(prog) /\ Len(prog) \in Nat /\ Node = Nodes(prog) /\ prog \in Programs
  BY KidsExist, Trees DEF StackInv, StackIsPath, ProgOK, Node
\* A kid the frame on top has accepted is behind it.
<1>4. ASSUME cur # 0, NEW i \in DOMAIN Kids(cur), i <= done[cur]
      PROVE  /\ Kid(cur, i) \in Node
             /\ \A m \in Node : Kid(cur, i) \in Ancestors(prog, m) => Left(m)
  <2>1. Kid(cur, i) \in Node /\ Kid(cur, i) > cur
    BY <1>3, <1>4, NodeShape DEF StackInv
  <2>2. Kid(cur, i) \notin OnStack
    <3>1. \A n \in OnStack : n <= cur
      BY DEF StackInv, StackIsPath
    <3>. QED
      BY <1>3, <1>4, <2>1, <3>1
  <2>. QED
    BY <1>3, <1>4, <2>1, <2>2 DEF Left
<1>5. ASSUME Errors = <<>> PROVE OperandsTyped
  <2>1. CASE cur = 0
    BY <1>2, <2>1 DEF CheckNext, CheckOperand, CheckNumber, CheckRead, CheckVariable, CheckUn,
           CheckCalc, CheckLogic, CheckPrint, CheckAssignedValue, CheckAssignment,
           CheckArrayHolder, CheckElement, CheckPresetArray, CheckUniformArray,
           CheckArrayAccess, CheckRank, CheckAssignedElement, CheckElementValue,
           CheckArrayAccessAssignment, CheckCondition, LeaveChecked, ReadyToCheck, At
  <2>2. ASSUME cur # 0, Kind(cur) \in ExpressionKinds, NEW i \in DOMAIN Kids(cur), i <= done[cur]
        PROVE  Typed(Kid(cur, i))
    <3>1. /\ Kid(cur, i) \in Node /\ Kind(Kid(cur, i)) \in ExpressionKinds
          /\ prog[Kid(cur, i)].parent = cur
      BY <1>3, <2>2, NodeShape DEF StackInv
    <3>2. Left(Kid(cur, i))
      BY <1>3, <1>4, <2>2, <3>1, AncestorsPath
    <3>3. ~UnderElse(prog, Kid(cur, i))
      <4>1. Ancestors(prog, Kid(cur, i)) = {Kid(cur, i)} \cup Ancestors(prog, cur)
        BY <1>3, <3>1, AncestorsOf
      <4>2. ~UnderElse(prog, cur)
        BY <1>3, <2>2 DEF CheckInv, NotElse
      <4>3. ~IsKid(prog, Kid(cur, i), "if", 3)
        BY <2>2, <3>1 DEF IsKid, ExpressionKinds, Arity, Kind
      <4>. QED
        BY <4>1, <4>2, <4>3 DEF UnderElse, Under
    <3>. QED
      BY <1>5, <3>1, <3>2, <3>3 DEF CheckInv, AllTyped
  <2>. QED
    BY <2>1, <2>2 DEF OperandsTyped
<1>6. (GoesOn \/ Leaves \/ Halts) /\ (Errors' = <<>> => Errors = <<>>)
  BY <1>1, <1>5, CheckControl
<1>7. CheckTypeOK'
  BY <1>1, CheckTypesKept
<1>8. ASSUME UNCHANGED <<prog, cur, done>>, UNCHANGED checkVars PROVE CheckInv'
  <2>1. /\ cur' = cur /\ done' = done /\ prog' = prog /\ Node' = Node /\ OnStack' = OnStack
        /\ res' = res /\ arrayTypes' = arrayTypes /\ Declared' = Declared /\ Errors' = Errors
    BY <1>2, <1>8 DEF checkVars, OnStack
  <2>2. \A t : Created(t)' <=> Created(t)
    BY <2>1 DEF Created, Kind
  <2>3. \A m \in Node : Left(m)' <=> Left(m)
    BY <2>1 DEF Left, Kids, Kid
  <2>4. TypesCreated'
    BY <2>1 DEF CheckInv, TypesCreated, Created, Kind
  <2>5. LayersDefined'
    <3>1. \A f : IsLayers(f)' <=> IsLayers(f)
      BY <2>1 DEF IsLayers
    <3>2. LayersDefined
      BY DEF CheckInv
    <3>. QED
      BY <2>1, <2>2, <3>1, <3>2 DEF LayersDefined, Created, Kind
  <2>6. NotElse' /\ CheckedOnce'
    BY <2>1, <2>3 DEF CheckInv, NotElse, CheckedOnce
  <2>7. Errors' = <<>> => AllTyped' /\ ContainedKnown'
    BY <2>1, <2>2, <2>3 DEF CheckInv, AllTyped, ContainedKnown, Typed, Kind, Kid
  <2>. QED
    BY <1>7, <2>4, <2>5, <2>6, <2>7 DEF CheckInv
<1>9. CASE Halts
  BY <1>1, <1>6, <1>8, <1>9 DEF Halts
\* What becomes of the results and of the array types.
<1>10. ASSUME GoesOn \/ Leaves
       PROVE  /\ cur \in OnStack /\ cur \in Node
              /\ \A n \in Node : n # cur => res'[n] = res[n] /\ arrayTypes'[n] = arrayTypes[n]
              /\ \A n \in Node : arrayTypes'[n] # arrayTypes[n] => n = cur /\ MakesArrayType
              /\ Kind(cur) \in {"preset", "uniform"} =>
                    res'[cur].ty = cur \/ (UNCHANGED <<res, arrayTypes>>)
  <2>1. cur \in OnStack /\ cur \in Node /\ res \in [Node -> [ty : CheckedTypes, val : CheckedValues]]
        /\ arrayTypes \in [Node -> [contained : CheckedTypes, size : CheckedSizes]]
    BY <1>1, <1>3, <1>10 DEF GoesOn, Leaves, Returns, CheckTypeOK
  <2>2. UNCHANGED res \/ \E r : res' = [res EXCEPT ![cur] = r]
    BY <1>10 DEF GoesOn, Leaves, Yield
  <2>3. UNCHANGED arrayTypes \/ (MakesArrayType /\ \E r : arrayTypes' = [arrayTypes EXCEPT ![cur] = r])
    BY <1>10 DEF GoesOn, Leaves, MakesArrayType
  <2>4. ASSUME Kind(cur) \in {"preset", "uniform"}
        PROVE  res'[cur].ty = cur \/ UNCHANGED <<res, arrayTypes>>
    <3>1. CASE GoesOn
      BY <3>1 DEF GoesOn
    <3>2. CASE Leaves
      BY <2>1, <2>4, <3>2 DEF Leaves, MakesArrayType, Yield, Result
    <3>. QED
      BY <1>10, <3>1, <3>2
  <2>. QED
    BY <2>1, <2>2, <2>3, <2>4
\* The node on top has no result yet, so it is nobody's type.
<1>11. ASSUME GoesOn \/ Leaves PROVE res[cur] = NoResult /\ ~Created(cur) /\ ~Left(cur)
  <2>1. ~Left(cur)
    BY <1>3, <1>10, <1>11, OnStackNotLeft DEF GoesOn, Leaves, Returns
  <2>2. res[cur] = NoResult
    BY <1>10, <1>11, <2>1 DEF CheckInv, CheckedOnce
  <2>3. cur # 0
    BY <1>11 DEF GoesOn, Leaves, Returns
  <2>. QED
    BY <2>1, <2>2, <2>3 DEF Created, NoResult, Result, NoTy
<1>12. ASSUME GoesOn \/ Leaves, NEW t, Created(t) PROVE Created(t)' /\ arrayTypes'[t] = arrayTypes[t]
  BY <1>2, <1>10, <1>11, <1>12 DEF Created, Kind
<1>13. ASSUME GoesOn \/ Leaves PROVE TypesCreated'
  <2>1. ASSUME NEW r, cur # 0, Yield(r), PossibleResult(r), isArrayTy(r.ty) PROVE Created(r.ty)'
    <3>1. CASE r = NoResult \/ YieldsInt(r)
      BY <2>1, <3>1 DEF NoResult, YieldsInt, Result, isArrayTy, NoTy, IntTy
    <3>2. CASE YieldsOperand(r)
      <4>1. PICK i \in DOMAIN Kids(cur) : r = Result(Ty(i), Unknown)
        BY <3>2 DEF YieldsOperand
      <4>2. Kid(cur, i) \in Node
        BY <1>3, <2>1, <4>1, NodeShape DEF StackInv
      <4>3. Created(r.ty)
        BY <2>1, <4>1, <4>2 DEF CheckInv, TypesCreated, Ty, Result
      <4>. QED
        BY <1>12, <1>13, <4>3
    <3>3. CASE YieldsDeclared(r)
      <4>1. Created(r.ty)
        BY <2>1, <3>3 DEF YieldsDeclared, Result, CheckInv, TypesCreated
      <4>. QED
        BY <1>12, <1>13, <4>1
    <3>4. CASE YieldsHeld(r)
      <4>1. 1 \in DOMAIN Kids(cur) /\ Kid(cur, 1) \in Node
        BY <1>3, <2>1, <3>4, NodeShape DEF StackInv, YieldsHeld
      <4>2. Created(r.ty)
        BY <2>1, <3>4, <4>1 DEF YieldsHeld, CheckInv, TypesCreated
      <4>. QED
        BY <1>12, <1>13, <4>2
    <3>5. CASE YieldsItself(r)
      <4>1. r.ty = cur /\ Kind(cur) \in {"preset", "uniform"} /\ res'[cur] = r
        BY <1>1, <1>10, <1>13, <2>1, <3>5 DEF YieldsItself, Result, Yield, CheckTypeOK
      <4>. QED
        BY <1>2, <1>10, <1>13, <4>1 DEF Created, Kind
    <3>. QED
      BY <2>1, <3>1, <3>2, <3>3, <3>4, <3>5 DEF PossibleResult
  <2>2. ASSUME NEW n \in Node, NEW t, t = res'[n].ty, isArrayTy(t) PROVE Created(t)'
    <3>1. CASE res'[n] = res[n]
      <4>1. Created(res[n].ty)
        BY <2>2, <3>1 DEF CheckInv, TypesCreated
      <4>. QED
        BY <1>12, <1>13, <2>2, <3>1, <4>1
    <3>2. CASE res'[n] # res[n]
      <4>1. n = cur /\ YieldsResult
        BY <1>1, <1>10, <1>13, <3>2 DEF CheckEffect, KeepsResults
      <4>2. PICK r : Yield(r) /\ PossibleResult(r)
        BY <4>1 DEF YieldsResult
      <4>3. res'[cur] = r
        BY <1>1, <1>10, <1>13, <4>2 DEF Yield, CheckTypeOK
      <4>. QED
        BY <2>1, <2>2, <4>1, <4>2, <4>3 DEF YieldsResult
    <3>. QED
      BY <3>1, <3>2
  <2>3. ASSUME NEW k \in DOMAIN Declared', NEW t, t = Declared'[k], isArrayTy(t) PROVE Created(t)'
    <3>1. CASE k \in DOMAIN Declared /\ Declared'[k] = Declared[k]
      <4>1. Created(Declared[k])
        BY <2>3, <3>1 DEF CheckInv, TypesCreated
      <4>. QED
        BY <1>12, <1>13, <2>3, <3>1, <4>1
    <3>2. CASE ~(k \in DOMAIN Declared /\ Declared'[k] = Declared[k])
      <4>1. Declares
        BY <1>1, <2>3, <3>2 DEF CheckEffect, KeepsDeclared
      <4>2. Declared'[k] = Ty(1)
        BY <2>3, <3>2, <4>1 DEF Declares, tryDefine, Emplace
      <4>3. cur # 0 /\ 1 \in DOMAIN Kids(cur)
        BY <4>1, SecondKid DEF Declares, At
      <4>4. Kid(cur, 1) \in Node
        BY <1>3, <4>3, NodeShape DEF StackInv
      <4>5. Created(Ty(1))
        BY <2>3, <4>2, <4>4 DEF CheckInv, TypesCreated, Ty
      <4>. QED
        BY <1>12, <1>13, <2>3, <4>2, <4>5
    <3>. QED
      BY <3>1, <3>2
  <2>4. ASSUME NEW n \in Node, NEW t, t = arrayTypes'[n].contained, isArrayTy(t)
        PROVE  Created(t)'
    <3>1. CASE arrayTypes'[n] = arrayTypes[n]
      <4>1. Created(arrayTypes[n].contained)
        BY <2>4, <3>1 DEF CheckInv, TypesCreated
      <4>. QED
        BY <1>12, <1>13, <2>4, <3>1, <4>1
    <3>2. CASE arrayTypes'[n] # arrayTypes[n]
      <4>1. n = cur /\ MakesArrayType
        BY <1>10, <1>13, <3>2
      <4>2. arrayTypes'[n].contained = IntTy \/ (Kind(cur) = "uniform" /\ arrayTypes'[n].contained = Ty(1))
        BY <1>1, <1>10, <1>13, <4>1 DEF MakesArrayType, CheckTypeOK
      <4>3. Kind(cur) = "uniform" /\ arrayTypes'[n].contained = Ty(1)
        BY <2>4, <4>2 DEF isArrayTy, IntTy
      <4>4. Kid(cur, 1) \in Node
        BY <1>3, <4>1, <4>3, NodeShape DEF StackInv, MakesArrayType
      <4>5. Created(Ty(1))
        BY <2>4, <4>3, <4>4 DEF CheckInv, TypesCreated, Ty
      <4>. QED
        BY <1>12, <1>13, <2>4, <4>3, <4>5
    <3>. QED
      BY <3>1, <3>2
  <2>. QED
    BY <1>2, <2>2, <2>3, <2>4 DEF TypesCreated, Created, Kind
<1>14. ASSUME GoesOn \/ Leaves PROVE LayersDefined'
  <2>1. PICK f \in [IntTy..Len(prog) -> Seq(Node)] :
           /\ IsLayers(f)
           /\ \A k \in Node : Created(k) => \A i \in DOMAIN f[k] : Created(f[k][i])
    BY DEF CheckInv, LayersDefined
  <2>2. /\ \A k \in Node : k \in IntTy..Len(prog) /\ k > 0
        /\ \A t \in CheckedTypes : t \in IntTy..Len(prog)
        /\ \A t \in CheckedTypes : t # NoTy /\ t # IntTy <=> isArrayTy(t)
    BY <1>3 DEF CheckedTypes, NoTy, IntTy, isArrayTy
  <2>3. CASE UNCHANGED arrayTypes /\ ~MakesArrayType
    <3>1. IsLayers(f)'
      BY <1>2, <2>1, <2>3 DEF IsLayers
    <3>2. \A k \in Node : Created(k)' => \A i \in DOMAIN f[k] : Created(f[k][i])'
      <4>1. ASSUME NEW k \in Node, Created(k)', ~Created(k) PROVE FALSE
        <5>1. k = cur /\ res' # res
          BY <1>2, <1>10, <1>14, <4>1 DEF Created, Kind
        <5>2. Kind(cur) \in {"preset", "uniform"} /\ Leaves
          BY <1>2, <1>14, <4>1, <5>1 DEF Created, Kind, GoesOn
        <5>. QED
          BY <2>3, <5>2 DEF Leaves
      <4>. QED
        BY <1>12, <1>14, <2>1, <4>1
    <3>. QED
      BY <1>2, <2>1, <3>1, <3>2 DEF LayersDefined, Created, Kind
  <2>4. CASE MakesArrayType
    <3>1. PICK t \in CheckedTypes, s \in CheckedSizes :
             /\ arrayTypes' = [arrayTypes EXCEPT ![cur] = [contained |-> t, size |-> s]]
             /\ t = IntTy \/ (Kind(cur) = "uniform" /\ t = Ty(1))
      BY <2>4 DEF MakesArrayType
    <3>2. t # cur /\ (t \in Node => Created(t))
      <4>1. CASE t = IntTy
        BY <1>3, <1>10, <1>14, <2>2, <4>1 DEF IntTy
      <4>2. CASE Kind(cur) = "uniform" /\ t = Ty(1)
        <5>1. Kid(cur, 1) \in Node
          BY <1>3, <1>10, <1>14, <4>2, NodeShape DEF StackInv
        <5>2. isArrayTy(t) => Created(t)
          BY <4>2, <5>1 DEF CheckInv, TypesCreated, Ty
        <5>. QED
          BY <1>10, <1>11, <1>14, <2>2, <5>2 DEF isArrayTy
      <4>. QED
        BY <3>1, <4>1, <4>2
    <3>0. PICK g : g = [f EXCEPT ![cur] = <<cur>> \o f[t]]
      OBVIOUS
    <3>3. cur \in IntTy..Len(prog) /\ t \in IntTy..Len(prog) /\ cur > 0
      BY <1>10, <1>14, <2>2, <3>1
    <3>4. g \in [IntTy..Len(prog) -> Seq(Node)]
      <4>1. <<cur>> \o f[t] \in Seq(Node)
        BY <1>10, <1>14, <2>1, <3>3
      <4>. QED
        BY <2>1, <3>0, <4>1
    <3>5. g[cur] = <<cur>> \o f[t] /\ \A k \in IntTy..Len(prog) : k # cur => g[k] = f[k]
      BY <2>1, <3>0, <3>3
    <3>6. arrayTypes'[cur].contained = t
      BY <1>1, <1>10, <1>14, <3>1 DEF CheckTypeOK
    <3>7. ASSUME NEW k \in IntTy..Len(prog)
          PROVE  g[k] = IF k > 0 THEN <<k>> \o g[arrayTypes'[k].contained] ELSE <<>>
      <4>1. CASE k = cur
        BY <3>2, <3>3, <3>5, <3>6, <4>1
      <4>2. CASE k # cur /\ k > 0
        <5>1. k \in Node /\ arrayTypes'[k] = arrayTypes[k]
          BY <1>3, <1>10, <1>14, <4>2
        <5>2. arrayTypes[k].contained \in IntTy..Len(prog) /\ arrayTypes[k].contained # cur
          <6>1. arrayTypes[k].contained \in CheckedTypes
            BY <1>1, <5>1 DEF CheckTypeOK
          <6>2. isArrayTy(arrayTypes[k].contained) => Created(arrayTypes[k].contained)
            BY <5>1 DEF CheckInv, TypesCreated
          <6>3. isArrayTy(cur)
            BY <3>3 DEF isArrayTy
          <6>. QED
            BY <1>11, <1>14, <2>2, <6>1, <6>2, <6>3
        <5>3. f[k] = <<k>> \o f[arrayTypes[k].contained]
          BY <2>1, <4>2 DEF IsLayers
        <5>. QED
          BY <3>5, <4>2, <5>1, <5>2, <5>3
      <4>3. CASE ~(k > 0)
        BY <2>1, <3>3, <3>5, <4>3 DEF IsLayers
      <4>. QED
        BY <4>1, <4>2, <4>3
    <3>8. ASSUME NEW k \in Node, Created(k)', NEW i \in DOMAIN g[k]
          PROVE  \A l : l = g[k][i] => Created(l)'
      <4>1. CASE k = cur
        <5>1. f[t] \in Seq(Node)
          BY <2>1, <3>3
        <5>2. \/ g[k][i] = cur
              \/ \E j \in DOMAIN f[t] : g[k][i] = f[t][j]
          <6>1. i \in 1..(1 + Len(f[t])) /\ Len(f[t]) \in Nat /\ DOMAIN f[t] = 1..Len(f[t])
            BY <3>5, <3>8, <4>1, <5>1
          <6>2. i = 1 => g[k][i] = cur
            BY <3>5, <4>1, <5>1, <6>1
          <6>3. i # 1 => i - 1 \in DOMAIN f[t] /\ g[k][i] = f[t][i - 1]
            BY <3>5, <4>1, <5>1, <6>1
          <6>. QED
            BY <6>2, <6>3
        <5>3. t \notin Node => f[t] = <<>>
          <6>1. t \notin Node => ~(t > 0)
            BY <3>1 DEF CheckedTypes, NoTy, IntTy
          <6>2. f[t] = IF t > 0 THEN <<t>> \o f[arrayTypes[t].contained] ELSE <<>>
            BY <2>1, <3>3 DEF IsLayers
          <6>. QED
            BY <6>1, <6>2
        <5>4. t \in Node => \A j \in DOMAIN f[t] : Created(f[t][j])
          BY <2>1, <3>2
        <5>. QED
          BY <1>12, <1>14, <3>8, <4>1, <5>2, <5>3, <5>4
      <4>2. CASE k # cur
        <5>1. Created(k) /\ g[k] = f[k]
          BY <1>2, <1>10, <1>14, <2>2, <3>5, <3>8, <4>2 DEF Created, Kind
        <5>. QED
          BY <1>12, <1>14, <2>1, <3>8, <5>1
      <4>. QED
        BY <4>1, <4>2
    <3>9. IsLayers(g)'
      BY <1>2, <3>7 DEF IsLayers
    <3>10. \A k \in Node : Created(k)' => \A i \in DOMAIN g[k] : Created(g[k][i])'
      BY <3>8
    <3>. QED
      BY <1>2, <3>4, <3>9, <3>10 DEF LayersDefined, Created, Kind
  <2>. QED
    BY <1>14, <2>3, <2>4 DEF GoesOn, Leaves
<1>15. ASSUME GoesOn \/ Leaves PROVE NotElse'
  <2>1. CASE GoesOn
    <3>1. /\ cur' \in Node /\ prog[cur'].parent = cur /\ OnStack' = OnStack \cup {cur'}
          /\ cur' = Kid(cur, done[cur] + 1)
      BY <2>1, AcceptStack DEF GoesOn, Accept
    <3>2. ~IsKid(prog, cur', "if", 3)
      <4>1. ASSUME Kind(cur) = "if", 3 \in DOMAIN Kids(cur), Kids(cur)[3] = cur' PROVE FALSE
        <5>1. \A i, j \in DOMAIN prog[cur].kids : prog[cur].kids[i] = prog[cur].kids[j] => i = j
          BY <1>3, <1>10, <1>15, KidsOfTree
        <5>2. done[cur] + 1 \in DOMAIN prog[cur].kids /\ done[cur] + 1 # 3
          BY <2>1, <4>1 DEF GoesOn, Kids
        <5>. QED
          BY <3>1, <4>1, <5>1, <5>2 DEF Kid, Kids
      <4>. QED
        BY <3>1, <4>1 DEF IsKid, Kind, Kids
    <3>3. Ancestors(prog, cur') = {cur'} \cup Ancestors(prog, cur)
      BY <1>3, <3>1, AncestorsOf
    <3>4. ~UnderElse(prog, cur)
      BY <1>10, <1>15 DEF CheckInv, NotElse
    <3>5. ~UnderElse(prog, cur')
      BY <3>2, <3>3, <3>4 DEF UnderElse, Under
    <3>. QED
      BY <1>2, <3>1, <3>5 DEF CheckInv, NotElse
  <2>2. CASE Leaves
    BY <1>2, <2>2, ReturnStack DEF Leaves, CheckInv, NotElse
  <2>. QED
    BY <1>15, <2>1, <2>2
\* What the checker was done with it stays done with.
<1>16. ASSUME GoesOn \/ Leaves, NEW n \in Node, Left(n)
       PROVE  Left(n)' /\ n # cur /\ res'[n] = res[n]
  <2>1. Left(n)'
    BY <1>16, LeftAfterAccept, LeftAfterReturn DEF GoesOn, Leaves
  <2>2. n # cur
    BY <1>11, <1>16
  <2>. QED
    BY <1>10, <1>16, <2>1, <2>2
<1>17. ASSUME GoesOn \/ Leaves PROVE CheckedOnce'
  <2>1. ASSUME NEW n \in Node, res'[n] # NoResult PROVE Left(n)'
    <3>1. CASE res'[n] = res[n]
      BY <1>16, <1>17, <2>1, <3>1 DEF CheckInv, CheckedOnce
    <3>2. CASE res'[n] # res[n]
      <4>1. n = cur /\ Leaves
        BY <1>10, <1>17, <3>2 DEF GoesOn
      <4>. QED
        BY <2>1, <4>1, LeftAfterReturn DEF Leaves
    <3>. QED
      BY <3>1, <3>2
  <2>. QED
    BY <1>2, <2>1 DEF CheckedOnce
<1>18. ASSUME GoesOn \/ Leaves, Errors' = <<>>, NEW n \in Node, Left(n)',
              Kind(n) \in ExpressionKinds, ~UnderElse(prog, n)
       PROVE  res'[n].ty # NoTy \/ ElementAssignment(prog, n)
  <2>1. AllTyped
    BY <1>6, <1>18 DEF CheckInv
  <2>2. CASE Left(n)
    BY <1>16, <1>18, <2>1, <2>2 DEF AllTyped, Typed
  <2>3. CASE ~Left(n)
    <3>1. Leaves
      BY <1>18, <2>3, LeftAfterAccept DEF GoesOn
    <3>2. n = cur \/ \E j \in DOMAIN Kids(cur) : Kid(cur, j) \in Ancestors(prog, n)
      BY <1>18, <2>3, <3>1, LeftAfterReturn DEF Leaves
    <3>3. AllAccepted /\ (Kind(cur) \in ExpressionKinds => TypedNow)
      BY <1>18, <3>1 DEF Leaves
    <3>4. ASSUME NEW j \in DOMAIN Kids(cur), Kid(cur, j) \in Ancestors(prog, n) PROVE FALSE
      <4>1. ~(j <= done[cur])
        BY <1>4, <1>18, <2>3, <3>1, <3>4 DEF Leaves, Returns
      <4>2. Kind(cur) = "if" /\ j = 3
        BY <3>3, <4>1 DEF AllAccepted
      <4>3. Kid(cur, 3) \in Node /\ prog[Kid(cur, 3)].parent = cur /\ Kid(cur, 3) # 1
        BY <1>10, <1>18, <3>4, <4>2, NodeShape DEF StackInv
      <4>4. IsKid(prog, Kid(cur, 3), "if", 3)
        BY <3>4, <4>2, <4>3 DEF IsKid, Kind, Kids, Kid
      <4>. QED
        BY <1>18, <3>4, <4>2, <4>4 DEF UnderElse, Under
    <3>. QED
      BY <1>18, <3>2, <3>3, <3>4 DEF TypedNow
  <2>. QED
    BY <2>2, <2>3
<1>19. ASSUME GoesOn \/ Leaves, Errors' = <<>>, NEW t \in Node, Created(t)',
              arrayTypes'[t].contained = NoTy
       PROVE  ElementAssignment(prog, Kid(t, 1))
  <2>1. ContainedKnown
    BY <1>6, <1>19 DEF CheckInv
  <2>2. CASE Created(t)
    BY <1>12, <1>19, <2>1, <2>2 DEF ContainedKnown
  <2>3. CASE ~Created(t)
    <3>1. t = cur /\ Kind(cur) \in {"preset", "uniform"} /\ Leaves
      BY <1>2, <1>10, <1>19, <2>3 DEF Created, Kind, GoesOn
    <3>2. MakesArrayType
      BY <3>1 DEF Leaves
    <3>3. arrayTypes'[cur].contained = IntTy \/ (Kind(cur) = "uniform" /\ arrayTypes'[cur].contained = Ty(1))
      BY <1>1, <1>10, <1>19, <3>2 DEF MakesArrayType, CheckTypeOK
    <3>4. Kind(cur) = "uniform" /\ Ty(1) = NoTy /\ done[cur] = Len(Kids(cur))
      BY <1>19, <3>1, <3>2, <3>3 DEF MakesArrayType, NoTy, IntTy
    <3>5. 1 \in DOMAIN Kids(cur) /\ 1 <= done[cur]
      BY <1>10, <1>19, <3>4, NodeShape DEF StackInv
    <3>6. Typed(Kid(cur, 1))
      BY <1>5, <1>6, <1>19, <3>4, <3>5 DEF OperandsTyped, ExpressionKinds, Arity
    <3>. QED
      BY <3>1, <3>4, <3>6 DEF Typed, Ty
  <2>. QED
    BY <2>2, <2>3
<1>20. ASSUME GoesOn \/ Leaves, Errors' = <<>> PROVE AllTyped' /\ ContainedKnown'
  BY <1>2, <1>18, <1>19, <1>20 DEF AllTyped, ContainedKnown, Typed, Kind, Kid
<1>21. ASSUME GoesOn \/ Leaves PROVE CheckInv'
  BY <1>7, <1>13, <1>14, <1>15, <1>17, <1>20, <1>21 DEF CheckInv
<1>. QED
  BY <1>1, <1>6, <1>9, <1>21

LEMMA CheckInvKept ==
    ASSUME StackInv, CheckInv, UNCHANGED <<prog, cur, done>>, UNCHANGED checkVars
    PROVE  CheckInv'
<1>1. /\ res' = res /\ arrayTypes' = arrayTypes /\ Declared' = Declared /\ Errors' = Errors
      /\ prog' = prog /\ Node' = Node /\ OnStack' = OnStack /\ cur' = cur /\ done' = done
  BY DEF checkVars, Node, OnStack
<1>2. \A t : Created(t)' <=> Created(t)
  BY <1>1 DEF Created, Kind
<1>3. \A n : Left(n)' <=> Left(n)
  BY <1>1 DEF Left, Kid, Kids
<1>4. CheckTypeOK'
  BY <1>1 DEF CheckInv, CheckTypeOK, CheckedTypes, CheckedSizes, CheckedValues, Keys
<1>5. TypesCreated' /\ LayersDefined'
  BY <1>1, <1>2 DEF CheckInv, TypesCreated, LayersDefined, IsLayers
<1>6. NotElse' /\ CheckedOnce'
  BY <1>1, <1>3 DEF CheckInv, NotElse, CheckedOnce
<1>7. ASSUME Errors = <<>> PROVE AllTyped' /\ ContainedKnown'
  BY <1>1, <1>2, <1>3, <1>7 DEF CheckInv, AllTyped, ContainedKnown, Typed, Kind, Kid
<1>. QED
  BY <1>1, <1>4, <1>5, <1>6, <1>7 DEF CheckInv

-----------------------------------------------------------------------------
(***************************************************************************)
(* Layers follows the contained types to the innermost.                    *)
(***************************************************************************)
LEMMA LayersOf ==
    ASSUME ProgOK, CheckTypeOK, TypesCreated, LayersDefined, NEW t \in Node, Created(t)
    PROVE  /\ Layers(t) \in Seq(Node) /\ Len(Layers(t)) >= 1 /\ Layers(t)[1] = t
           /\ \A i \in DOMAIN Layers(t) : Created(Layers(t)[i])
           /\ ~isArrayTy(arrayTypes[t].contained) => Layers(t) = <<t>>
           /\ isArrayTy(arrayTypes[t].contained) =>
                 /\ Created(arrayTypes[t].contained)
                 /\ Layers(t) = <<t>> \o Layers(arrayTypes[t].contained)
<1>. DEFINE F == CHOOSE F : F = [k \in IntTy..Len(prog) |->
                                    IF k > 0 THEN <<k>> \o F[arrayTypes[k].contained] ELSE <<>>]
<1>1. PICK f \in [IntTy..Len(prog) -> Seq(Node)] :
         /\ IsLayers(f)
         /\ \A k \in Node : Created(k) => \A i \in DOMAIN f[k] : Created(f[k][i])
  BY DEF LayersDefined
<1>2. f = [k \in IntTy..Len(prog) |-> IF k > 0 THEN <<k>> \o f[arrayTypes[k].contained] ELSE <<>>]
  BY <1>1 DEF IsLayers
<1>3. F = [k \in IntTy..Len(prog) |-> IF k > 0 THEN <<k>> \o F[arrayTypes[k].contained] ELSE <<>>]
  BY <1>2
<1>4. \A u : Layers(u) = F[u]
  BY DEF Layers
<1>. HIDE DEF F
<1>5. Node = 1..Len(prog) /\ Len(prog) \in Nat
  BY Trees DEF ProgOK, Node
<1>6. ASSUME NEW k \in IntTy..Len(prog), k > 0
      PROVE  /\ k \in Node /\ arrayTypes[k].contained \in IntTy..Len(prog)
             /\ f[k] = <<k>> \o f[arrayTypes[k].contained]
             /\ F[k] = <<k>> \o F[arrayTypes[k].contained]
             /\ Len(f[k]) = 1 + Len(f[arrayTypes[k].contained])
  <2>1. k \in Node
    BY <1>5, <1>6
  <2>2. arrayTypes[k].contained \in IntTy..Len(prog)
    <3>1. arrayTypes[k].contained \in CheckedTypes
      BY <2>1 DEF CheckTypeOK
    <3>. QED
      BY <1>5, <3>1 DEF CheckedTypes, NoTy, IntTy
  <2>3. f[k] = <<k>> \o f[arrayTypes[k].contained]
    BY <1>1, <1>6 DEF IsLayers
  <2>4. Len(f[k]) = 1 + Len(f[arrayTypes[k].contained])
    <3>1. f[arrayTypes[k].contained] \in Seq(Node)
      BY <1>1, <2>2
    <3>. QED
      BY <2>1, <2>3, <3>1
  <2>. QED
    BY <1>3, <1>6, <2>1, <2>2, <2>3, <2>4
<1>7. \A k \in IntTy..Len(prog) : ~(k > 0) => f[k] = <<>> /\ F[k] = <<>>
  BY <1>1, <1>3 DEF IsLayers
<1>8. \A k \in IntTy..Len(prog) : F[k] = f[k]
  <2>. DEFINE Bad == { l \in Nat : \E k \in IntTy..Len(prog) : F[k] # f[k] /\ l = Len(f[k]) }
  <2>1. \A k \in IntTy..Len(prog) : Len(f[k]) \in Nat
    BY <1>1
  <2>2. SUFFICES ASSUME Bad # {} PROVE FALSE
    BY <2>1
  <2>3. PICK l \in Bad : \A m \in Bad : l <= m
    <3>1. Bad \in SUBSET Nat
      OBVIOUS
    <3>. HIDE DEF Bad
    <3>. QED
      BY <2>2, <3>1, Least
  <2>4. PICK k \in IntTy..Len(prog) : F[k] # f[k] /\ l = Len(f[k])
    BY <2>3
  <2>5. k > 0
    BY <1>7, <2>4
  <2>. DEFINE c == arrayTypes[k].contained
  <2>6. c \in IntTy..Len(prog) /\ f[k] = <<k>> \o f[c] /\ F[k] = <<k>> \o F[c] /\ l = 1 + Len(f[c])
    BY <1>6, <2>4, <2>5
  <2>. HIDE DEF c
  <2>7. Len(f[c]) \in Nat /\ ~(l <= Len(f[c]))
    BY <2>1, <2>6
  <2>8. F[c] # f[c] => Len(f[c]) \in Bad
    BY <2>6, <2>7
  <2>. HIDE DEF Bad
  <2>9. F[c] = f[c]
    BY <2>3, <2>7, <2>8
  <2>. QED
    BY <2>4, <2>6, <2>9
<1>9. t \in IntTy..Len(prog) /\ t > 0
  BY <1>5 DEF IntTy
<1>. DEFINE c == arrayTypes[t].contained
<1>10. c \in IntTy..Len(prog) /\ Layers(t) = <<t>> \o Layers(c) /\ Layers(c) \in Seq(Node)
  BY <1>1, <1>4, <1>6, <1>8, <1>9
<1>11. ~isArrayTy(c) => Layers(c) = <<>>
  BY <1>4, <1>7, <1>10 DEF isArrayTy
<1>12. isArrayTy(c) => Created(c)
  BY DEF TypesCreated
<1>13. Layers(t) = f[t]
  BY <1>4, <1>8, <1>9
<1>14. \A i \in DOMAIN Layers(t) : Created(Layers(t)[i])
  BY <1>1, <1>13
<1>. HIDE DEF c
<1>15. Layers(t) \in Seq(Node) /\ Len(Layers(t)) >= 1 /\ Layers(t)[1] = t
  BY <1>10
<1>16. ~isArrayTy(c) => Layers(t) = <<t>>
  BY <1>10, <1>11
<1>. QED
  BY <1>10, <1>12, <1>14, <1>15, <1>16 DEF c

-----------------------------------------------------------------------------
(***************************************************************************)
(* What is concluded when the check is over.                               *)
(***************************************************************************)
\* The checker fails on what it reported or on an assignment to an element.
FailureReported ==
    status \in {"assertFailed", "nullDeref"} =>
        \/ Errors # <<>>
        \/ LET t == IF status = "assertFailed" THEN Ty(done[cur])
                    ELSE Layers(AccessedTy)[computeArrayDimension(AccessedTy)]
           IN  ElementAssignment(prog, Kid(t, 1))

\* The visitor of the root has returned and nothing was reported.
Verdict ==
    /\ CheckTypeOK /\ TypesCreated /\ LayersDefined
    /\ \A n \in Node : Kind(n) \in ExpressionKinds /\ ~UnderElse(prog, n) => Typed(n)
    /\ ContainedKnown

LEMMA CheckFailures ==
    ASSUME StackInv, CheckInv, Halts
    PROVE  FailureReported'
<1>1. /\ cur' = cur /\ done' = done /\ prog' = prog /\ Node' = Node
      /\ res' = res /\ arrayTypes' = arrayTypes /\ Declared' = Declared /\ Errors' = Errors
  BY DEF Halts, checkVars, Node
<1>2. ASSUME Errors = <<>>, NEW t \in Node, Created(t), arrayTypes[t].contained = NoTy
      PROVE  ElementAssignment(prog, Kid(t, 1))
  BY <1>2 DEF CheckInv, ContainedKnown
<1>3. ASSUME Errors = <<>>, status' = "assertFailed" PROVE ElementAssignment(prog, Kid(Ty(done[cur]), 1))
  <2>. DEFINE t == Ty(done[cur])
  <2>1. cur # 0 /\ ElementAsserts
    BY <1>3 DEF Halts
  <2>2. done[cur] \in DOMAIN Kids(cur) /\ isArrayTy(t) /\ arrayTypes[t].contained = NoTy
    BY <2>1, KidsExist DEF ElementAsserts, LacksContained
  <2>3. Kid(cur, done[cur]) \in Node
    BY <2>1, <2>2, KidsExist, NodeShape DEF StackInv
  <2>4. Created(t) /\ t \in Node
    BY <2>2, <2>3 DEF CheckInv, TypesCreated, Ty, Created
  <2>. QED
    BY <1>2, <1>3, <2>2, <2>4
<1>4. ASSUME Errors = <<>>, status' = "nullDeref"
      PROVE  ElementAssignment(prog, Kid(Layers(AccessedTy)[computeArrayDimension(AccessedTy)], 1))
  <2>1. /\ cur # 0 /\ isDefined(Declared, Name(cur), Scope(cur)) /\ isArrayTy(AccessedTy)
        /\ DimensionNullDeref(AccessedTy)
    BY <1>4 DEF Halts, At, Undeclared
  <2>2. AccessedTy \in Node /\ Created(AccessedTy)
    <3>1. Scope(cur) \in Seq(Nat) /\ \A i \in DOMAIN Scope(cur) : Scope(cur)[i] # 0
      BY <2>1, KidsExist, ScopesLookUp DEF StackInv
    <3>2. getDeclKeyFor(Declared, Name(cur), Scope(cur)) \in DOMAIN Declared
      BY <2>1, <3>1, Lookup
    <3>3. Created(AccessedTy)
      BY <2>1, <3>2 DEF AccessedTy, getTypeFor, CheckInv, TypesCreated
    <3>. QED
      BY <3>3 DEF Created
  <2>. DEFINE layers == Layers(AccessedTy)
  <2>3. /\ layers \in Seq(Node) /\ Len(layers) >= 1
        /\ \A i \in DOMAIN layers : Created(layers[i])
    BY <2>2, LayersOf DEF CheckInv, StackInv
  <2>4. Len(layers) \in DOMAIN layers /\ arrayTypes[layers[Len(layers)]].contained = NoTy
    BY <2>1, <2>3 DEF DimensionNullDeref
  <2>5. Created(layers[Len(layers)]) /\ layers[Len(layers)] \in Node
    BY <2>3, <2>4 DEF Created
  <2>. QED
    BY <1>2, <1>4, <2>4, <2>5 DEF computeArrayDimension
<1>5. AccessedTy' = AccessedTy /\ Layers(AccessedTy)' = Layers(AccessedTy)
  BY <1>1 DEF AccessedTy, Layers, Name, Scope
<1>6. Ty(done[cur])' = Ty(done[cur])
  BY <1>1 DEF Ty, Kid
<1>7. computeArrayDimension(AccessedTy)' = computeArrayDimension(AccessedTy)
  BY <1>5 DEF computeArrayDimension
<1>. QED
  BY <1>1, <1>3, <1>4, <1>5, <1>6, <1>7 DEF FailureReported, Kid

LEMMA CheckEnds ==
    ASSUME CheckInv, cur = 0, Errors = <<>>
    PROVE  Verdict
BY DEF CheckInv, Verdict, AllTyped, Left

-----------------------------------------------------------------------------
(***************************************************************************)
(* Constant folding.  A value the checker knows is that of a literal, or   *)
(* what the operator of the node makes of values it knows.                 *)
(***************************************************************************)
FoldsTo(n, val) ==
    LET v(i) == res[Kid(n, i)].val
    IN  \/ Kind(n) = "number" /\ val = Known(prog[n].val)
        \/ Kind(n) = "un" /\ IsKnown(v(1)) /\ val = Known(UnaryValue(Op(n), v(1)[1]))
        \/ /\ Kind(n) = "calc" /\ IsKnown(v(1)) /\ IsKnown(v(2))
           /\ val = Known(ArithValue(Op(n), v(1)[1], v(2)[1]))
        \/ /\ Kind(n) = "logic" /\ IsKnown(v(1)) /\ IsKnown(v(2))
           /\ val = Known(LogicValue(Op(n), v(1)[1], v(2)[1]))

Folded == \A n \in Node : IsKnown(res[n].val) => FoldsTo(n, res[n].val)

YieldsFolded == cur # 0 /\ \E r : Yield(r) /\ (IsKnown(r.val) => FoldsTo(cur, r.val))

LEMMA CheckFolds ==
    ASSUME StackInv, Folded, CheckNext
    PROVE  UNCHANGED res \/ YieldsFolded
<1>1. ASSUME cur # 0, NEW t, Yield(Result(t, Unknown)) PROVE YieldsFolded
  BY <1>1 DEF YieldsFolded, Result, IsKnown
<1>2. NoResult = Result(NoTy, Unknown)
  BY DEF NoResult
<1>3. ASSUME cur # 0, NEW val, FoldsTo(cur, val), Yield(Result(IntTy, val)) PROVE YieldsFolded
  <2>1. Result(IntTy, val).val = val
    BY DEF Result
  <2>. QED
    BY <1>3, <2>1 DEF YieldsFolded
<1>4. CASE CheckOperand \/ CheckElement \/ CheckElementValue \/ LeaveChecked \/ CheckCondition
  BY <1>4 DEF CheckOperand, CheckElement, CheckElementValue, LeaveChecked, CheckCondition,
              HaltCheck, checkVars
<1>5. CASE CheckNumber
  BY <1>5 DEF CheckNumber, ReadyToCheck, At, YieldsFolded, FoldsTo, Result
<1>6. CASE CheckRead \/ CheckVariable \/ CheckPrint \/ CheckAssignedValue \/ CheckAssignment
           \/ CheckArrayAccess \/ CheckRank \/ CheckAssignedElement \/ CheckArrayAccessAssignment
           \/ CheckPresetArray \/ CheckUniformArray
  <2>1. cur # 0 /\ (UNCHANGED res \/ \E t : Yield(Result(t, Unknown)))
    BY <1>2, <1>6 DEF CheckRead, CheckVariable, CheckPrint, CheckAssignedValue, CheckAssignment,
       CheckArrayAccess, CheckRank, CheckAssignedElement, CheckArrayAccessAssignment,
       CheckPresetArray, CheckUniformArray, HaltCheck, checkVars, ReadyToCheck, At
  <2>. QED
    BY <1>1, <2>1
<1>7. CASE CheckUn
  <2>1. /\ cur # 0 /\ Kind(cur) = "un"
        /\ \/ \E t : Yield(Result(t, Unknown))
           \/ IsKnown(Val(1)) /\ Yield(Result(IntTy, Known(UnaryValue(Op(cur), Val(1)[1]))))
    BY <1>2, <1>7 DEF CheckUn, ReadyToCheck, At
  <2>2. IsKnown(Val(1)) => FoldsTo(cur, Known(UnaryValue(Op(cur), Val(1)[1])))
    BY <2>1 DEF FoldsTo, Val
  <2>. QED
    BY <1>1, <1>3, <2>1, <2>2
<1>8. CASE CheckCalc
  <2>1. cur # 0 /\ Kind(cur) = "calc"
    BY <1>8 DEF CheckCalc, ReadyToCheck, At
  <2>2. \/ UNCHANGED res
        \/ \E t : Yield(Result(t, Unknown))
        \/ BothKnown /\ Yield(Result(IntTy, Known(ArithValue(Op(cur), Val(1)[1], Val(2)[1]))))
    BY <1>2, <1>8 DEF CheckCalc, HaltCheck, checkVars
  <2>3. BothKnown => FoldsTo(cur, Known(ArithValue(Op(cur), Val(1)[1], Val(2)[1])))
    BY <2>1 DEF FoldsTo, Val, BothKnown
  <2>. QED
    BY <1>1, <1>3, <2>1, <2>2, <2>3
<1>9. CASE CheckLogic
  <2>1. cur # 0 /\ Kind(cur) = "logic"
    BY <1>9 DEF CheckLogic, ReadyToCheck, At
  <2>2. \/ \E t : Yield(Result(t, Unknown))
        \/ BothKnown /\ Yield(Result(IntTy, Known(LogicValue(Op(cur), Val(1)[1], Val(2)[1]))))
    BY <1>2, <1>9 DEF CheckLogic
  <2>3. BothKnown => FoldsTo(cur, Known(LogicValue(Op(cur), Val(1)[1], Val(2)[1])))
    BY <2>1 DEF FoldsTo, Val, BothKnown
  <2>. QED
    BY <1>1, <1>3, <2>1, <2>2, <2>3
<1>10. CASE CheckArrayHolder
  <2>1. cur # 0 /\ Kind(cur) = "holder" /\ Yield(res[Kid(cur, 1)])
    BY <1>10 DEF CheckArrayHolder, ReadyToCheck, At
  <2>2. 1 \in DOMAIN Kids(cur) /\ Kind(Kid(cur, 1)) \in {"uniform", "preset"} /\ Kid(cur, 1) \in Node
    BY <2>1, KidsExist, NodeShape DEF StackInv
  <2>3. ~IsKnown(res[Kid(cur, 1)].val)
    BY <2>2 DEF Folded, FoldsTo
  <2>. QED
    BY <2>1, <2>3 DEF YieldsFolded
<1>. QED
  BY <1>4, <1>5, <1>6, <1>7, <1>8, <1>9, <1>10 DEF CheckNext

LEMMA FoldedKept ==
    ASSUME StackInv, CheckInv, Folded, CheckNext
    PROVE  Folded'
<1>1. prog' = prog /\ Node' = Node
  <2>1. prog' = prog
    BY CheckMoves DEF Moves, AcceptsKid, Accept, Returns, Return, Stays
  <2>. QED
    BY <2>1 DEF Node
<1>2. CASE UNCHANGED res
  BY <1>1, <1>2 DEF Folded, FoldsTo, Kind, Kid, Op
<1>3. CASE YieldsFolded
  <2>1. PICK r : Yield(r) /\ (IsKnown(r.val) => FoldsTo(cur, r.val))
    BY <1>3 DEF YieldsFolded
  <2>2. /\ cur # 0 /\ cur \in Node /\ cur \in OnStack /\ res' = [res EXCEPT ![cur] = r]
    BY <1>3, <2>1, KidsExist DEF YieldsFolded, Yield, StackInv, StackIsPath
  <2>3. /\ res'[cur] = r /\ \A n \in Node \ {cur} : res'[n] = res[n]
    BY <2>2 DEF CheckInv, CheckTypeOK
  <2>4. ASSUME NEW n \in Node, IsKnown(res'[n].val)
        PROVE  FoldsTo(n, res'[n].val) /\ \A i \in DOMAIN Kids(n) : res'[Kid(n, i)] = res[Kid(n, i)]
    <3>1. CASE n = cur
      <4>1. \A i \in DOMAIN Kids(cur) : Kid(cur, i) \in Node \ {cur}
        BY <2>2, NodeShape, Trees DEF StackInv, ProgOK, Node
      <4>. QED
        BY <2>1, <2>3, <2>4, <3>1, <4>1
    <3>2. CASE n # cur
      <4>1. res'[n] = res[n] /\ FoldsTo(n, res[n].val)
        BY <2>3, <2>4, <3>2 DEF Folded
      <4>2. ASSUME NEW i \in DOMAIN Kids(n), Kid(n, i) = cur PROVE FALSE
        <5>1. prog[cur].parent = n /\ cur # 1
          BY <4>2, NodeShape DEF StackInv
        <5>2. n \in OnStack
          BY <2>2, <5>1 DEF StackInv, StackIsPath
        <5>3. res[n] = NoResult
          BY <2>2, <5>2, OnStackNotLeft DEF CheckInv, CheckedOnce
        <5>. QED
          BY <2>4, <4>1, <5>3 DEF NoResult, Result, IsKnown
      <4>3. \A i \in DOMAIN Kids(n) : Kid(n, i) \in Node \ {cur}
        BY <4>2, NodeShape DEF StackInv
      <4>. QED
        BY <2>3, <4>1, <4>3
    <3>. QED
      BY <3>1, <3>2
  <2>5. ASSUME NEW n \in Node, IsKnown(res'[n].val)
        PROVE  FoldsTo(n, res[n].val)'
    <3>1. /\ FoldsTo(n, res'[n].val)
          /\ \A i \in DOMAIN Kids(n) : res'[Kid(n, i)] = res[Kid(n, i)]
      BY <2>4, <2>5
    <3>2. Kind(n)' = Kind(n) /\ Op(n)' = Op(n) /\ prog'[n].val = prog[n].val
          /\ \A i : Kid(n, i)' = Kid(n, i)
      BY <1>1 DEF Kind, Op, Kid
    <3>3. /\ Kind(n) = "un" => 1 \in DOMAIN Kids(n)
          /\ Kind(n) \in {"calc", "logic"} => 1 \in DOMAIN Kids(n) /\ 2 \in DOMAIN Kids(n)
      BY NodeShape DEF StackInv
    <3>. QED
      BY <3>1, <3>2, <3>3 DEF FoldsTo
  <2>. QED
    BY <1>1, <2>5 DEF Folded
<1>. QED
  BY <1>2, <1>3, CheckFolds

-----------------------------------------------------------------------------
(***************************************************************************)
(* A lookup in terms of the blocks around a node.                          *)
(***************************************************************************)
\* The key an assignment defines its name at.
Key(m) == SymTabKey(Name(m), Home(m))

LEMMA FindsAround ==
    ASSUME ProgOK, NEW n \in Node, NEW table, NEW x
    PROVE  /\ isDefined(table, x, Scope(n)) <=>
                 \E b \in Around(n) : SymTabKey(x, b) \in DOMAIN table
           /\ \A b \in Around(n) :
                 /\ SymTabKey(x, b) \in DOMAIN table
                 /\ \A c \in Around(n) : SymTabKey(x, c) \in DOMAIN table => c <= b
                 => getDeclScopeFor(table, x, Scope(n)) = b
<1>. DEFINE s == Scope(n)
            at == DeclaredAt(table, x, s)
<1>1. /\ s \in Seq(Nat) /\ \A i \in DOMAIN s : s[i] # 0
      /\ \A i, j \in DOMAIN s : i < j => s[j] < s[i]
      /\ \A i \in DOMAIN s : i \in Nat /\ s[i] \in Nat
  BY ScopesLookUp, BlocksAround
<1>2. at = { i \in DOMAIN s : SymTabKey(x, s[i]) \in DOMAIN table }
  BY DEF DeclaredAt
<1>3. /\ isDefined(table, x, s) <=> at # {}
      /\ isDefined(table, x, s) => \E i \in at : /\ getDeclScopeFor(table, x, s) = s[i]
                                                /\ \A j \in at : i <= j
  BY <1>1, Lookup
<1>4. Around(n) = { s[i] : i \in DOMAIN s }
  BY DEF Around
<1>. HIDE DEF s
<1>5. isDefined(table, x, s) <=> \E b \in Around(n) : SymTabKey(x, b) \in DOMAIN table
  BY <1>2, <1>3, <1>4
<1>6. ASSUME NEW b \in Around(n), SymTabKey(x, b) \in DOMAIN table,
             \A c \in Around(n) : SymTabKey(x, c) \in DOMAIN table => c <= b
      PROVE  getDeclScopeFor(table, x, s) = b
  <2>1. PICK k \in DOMAIN s : s[k] = b
    BY <1>4
  <2>2. k \in at
    BY <1>2, <1>6, <2>1
  <2>3. PICK i \in at : getDeclScopeFor(table, x, s) = s[i] /\ \A j \in at : i <= j
    BY <1>3, <2>2
  <2>4. i \in DOMAIN s /\ s[i] <= b /\ i <= k
    BY <1>2, <1>4, <1>6, <2>2, <2>3
  <2>5. i = k
    <3>1. i < k => s[k] < s[i]
      BY <1>1, <2>1, <2>4
    <3>. QED
      BY <1>1, <2>1, <2>4, <3>1
  <2>. QED
    BY <2>1, <2>3, <2>5
<1>. QED
  BY <1>5, <1>6 DEF s

\* More is found in a greater table.
LEMMA FoundInGreater ==
    ASSUME ProgOK, NEW n \in Node, NEW t, NEW u, DOMAIN t \subseteq DOMAIN u, NEW x,
           isDefined(t, x, Scope(n))
    PROVE  isDefined(u, x, Scope(n))
BY FindsAround

\* The same at an assignment: its name is defined at its key, or at one in a block around.
LEMMA FindsRival ==
    ASSUME ProgOK, NEW m \in Assigns, NEW table, isDefined(table, Name(m), Scope(m))
    PROVE  \/ Key(m) \in DOMAIN table
           \/ \E b \in Around(Home(m)) : SymTabKey(Name(m), b) \in DOMAIN table
<1>1. m \in Node /\ m # 1
  BY NoRoot DEF Assigns
<1>. QED
  BY <1>1, FindsAround, HomeInnermost DEF Key

-----------------------------------------------------------------------------
(***************************************************************************)
(* The names the checker declares.  An assignment the checker visits       *)
(* declares its name if no block around declares it yet, which is so       *)
(* exactly when no rival comes first.                                      *)
(***************************************************************************)
CheckedAssigns == { m \in Assigns : ~UnderElse(prog, m) }

Leads(m) == \A l \in Rivals(m) \cap CheckedAssigns : m < l

\* The visit of an assignment has come past the declaration.
Declaring(m) == Left(m) \/ (m \in OnStack /\ done[m] = 2)

\* The assignment l is executed before node n is.
Before(l, n) == l < n /\ (l \notin Ancestors(prog, n) \/ n = Kid(l, 2))

DeclaredByLeaders ==
    \A k \in DOMAIN Declared :
        \E m \in CheckedAssigns : k = Key(m) /\ Leads(m) /\ Declaring(m)

LeadersDeclared ==
    \A m \in CheckedAssigns : Left(m) /\ Leads(m) => Key(m) \in DOMAIN Declared

VariablesDeclared ==
    \A n \in Node : Kind(n) = "variable" /\ Left(n) /\ ~UnderElse(prog, n) =>
        isDefined(Declared, Name(n), Scope(n))

UsesDefined ==
    \A n \in Node :
        /\ Kind(n) \in {"variable", "access"} /\ ~UnderElse(prog, n)
        /\ Left(n) \/ (n \in OnStack /\ done[n] > 0)
        => \E l \in CheckedAssigns \cap Definitions(prog, n) : Before(l, n)

NamesChecked ==
    Errors = <<>> =>
        DeclaredByLeaders /\ LeadersDeclared /\ VariablesDeclared /\ UsesDefined

LEMMA NamesKnown ==
    ASSUME StackInv, CheckTypeOK, CheckNext, Errors' = <<>>, cur # 0,
           Kind(cur) = "variable" \/ (Kind(cur) = "access" /\ done[cur] = 0)
    PROVE  ~Undeclared
<1>1. cur \in Node /\ Errors \in Seq(Node) /\ Len(Kids(cur)) \in Nat /\ done[cur] \in Nat
      /\ (Kind(cur) = "variable" => Len(Kids(cur)) = 0)
  BY KidsExist, NodeShape DEF CheckTypeOK, StackInv
<1>2. ASSUME NEW b \in BOOLEAN, ReportIf(b), b PROVE FALSE
  BY <1>1, <1>2, Reported DEF ReportIf
<1>3. ASSUME Report(1) PROVE FALSE
  BY <1>1, <1>3, Reported
<1>4. CASE Kind(cur) = "variable"
  <2>1. CheckVariable
    <3>1. ~CheckOperand
      BY <1>1, <1>4 DEF CheckOperand, CheckedOperands
    <3>. QED
      BY <1>4, <3>1 DEF CheckNext, CheckNumber, CheckRead, CheckUn,
           CheckCalc, CheckLogic, CheckPrint, CheckAssignedValue, CheckAssignment,
           CheckArrayHolder, CheckElement, ElementAsserts, CheckPresetArray, CheckUniformArray,
           CheckArrayAccess, CheckRank, CheckAssignedElement, CheckElementValue,
           CheckArrayAccessAssignment, CheckCondition, LeaveChecked, ReadyToCheck, At
  <2>. QED
    BY <1>2, <2>1 DEF CheckVariable, Undeclared
<1>5. CASE Kind(cur) = "access" /\ done[cur] = 0
  <2>1. CheckArrayAccess
    <3>1. ~CheckOperand
      BY <1>1, <1>5 DEF CheckOperand, CheckedOperands
    <3>. QED
      BY <1>5, <3>1 DEF CheckNext, CheckNumber, CheckRead, CheckUn, CheckVariable,
           CheckCalc, CheckLogic, CheckPrint, CheckAssignedValue, CheckAssignment,
           CheckArrayHolder, CheckElement, ElementAsserts, CheckPresetArray, CheckUniformArray,
           CheckRank, CheckAssignedElement, CheckElementValue,
           CheckArrayAccessAssignment, CheckCondition, LeaveChecked, ReadyToCheck, At
  <2>. QED
    BY <1>3, <2>1 DEF CheckArrayAccess
<1>. QED
  BY <1>4, <1>5

\* A declared name the node on top uses was declared by an assignment executed before it.
LEMMA FoundBefore ==
    ASSUME StackInv, DeclaredByLeaders, cur # 0, done[cur] = 0,
           Kind(cur) \in {"variable", "access"}, ~Undeclared
    PROVE  \E l \in CheckedAssigns \cap Definitions(prog, cur) : Before(l, cur)
<1>1. /\ Node = Nodes(prog) /\ prog \in Programs /\ Node \subseteq Nat /\ cur \in Node /\ cur # 1
      /\ OnStack = Ancestors(prog, cur) /\ \A n \in OnStack : n <= cur
  BY StackIsAncestors, KidsExist, Trees DEF StackInv, StackIsPath, ProgOK, Node, Kind
<1>2. PICK b \in Around(cur) : SymTabKey(Name(cur), b) \in DOMAIN Declared
  BY <1>1, FindsAround DEF Undeclared, StackInv
<1>3. PICK m \in CheckedAssigns : SymTabKey(Name(cur), b) = Key(m) /\ Declaring(m)
  BY <1>2 DEF DeclaredByLeaders
<1>4. m \in Assigns /\ m \in Node /\ Name(m) = Name(cur) /\ Home(m) = b /\ Kind(m) = "assign"
  BY <1>3 DEF CheckedAssigns, Assigns, Key, SymTabKey
<1>5. m \in Definitions(prog, cur)
  BY <1>1, <1>2, <1>4, DefinitionsOf DEF StackInv
<1>6. m # cur
  BY <1>4
<1>7. CASE Left(m)
  <2>1. m < cur
    BY <1>4, <1>7, LeftIsBefore, FreshBelow
  <2>2. m \notin Ancestors(prog, cur)
    BY <1>1, <1>7, OnStackNotLeft
  <2>. QED
    BY <1>3, <1>5, <2>1, <2>2 DEF Before
<1>8. CASE m \in OnStack /\ done[m] = 2
  <2>1. Kid(m, 2) \in Ancestors(prog, cur)
    BY <1>6, <1>8, NextFrame
  <2>2. Kid(m, 2) \in Node /\ Kind(Kid(m, 2)) = "variable" /\ Len(Kids(Kid(m, 2))) = 0
        /\ DOMAIN Kids(Kid(m, 2)) = 1..Len(Kids(Kid(m, 2)))
    <3>1. Len(Kids(m)) = 2 /\ DOMAIN Kids(m) = 1..Len(Kids(m)) /\ Kind(Kid(m, 2)) = "variable"
          /\ \A i \in DOMAIN Kids(m) : Kid(m, i) \in Node
      BY <1>4, NodeShape DEF StackInv
    <3>. QED
      BY <3>1, NodeShape DEF StackInv
  <2>3. cur = Kid(m, 2)
    <3>1. ASSUME Kid(m, 2) # cur
          PROVE  \E i \in DOMAIN Kids(Kid(m, 2)) : TRUE
      BY <1>1, <2>1, <3>1, AncestorsPath DEF Kids
    <3>. QED
      BY <2>2, <3>1
  <2>4. m < cur
    BY <1>1, <1>4, <1>6, <1>8
  <2>. QED
    BY <1>3, <1>5, <2>3, <2>4 DEF Before
<1>. QED
  BY <1>3, <1>7, <1>8 DEF Declaring

\* Whoever declares a name leads: a rival before it would have declared the name.
LEMMA DeclarerLeads ==
    ASSUME StackInv, LeadersDeclared, cur # 0, cur \in CheckedAssigns, Undeclared
    PROVE  Leads(cur)
<1>1. /\ Node = Nodes(prog) /\ prog \in Programs /\ Node \subseteq Nat /\ cur \in Node
      /\ cur \in Assigns /\ OnStack = Ancestors(prog, cur) /\ ProgOK
  BY StackIsAncestors, KidsExist, Trees DEF StackInv, ProgOK, Node, CheckedAssigns
<1>. DEFINE Early == { l \in Rivals(cur) \cap CheckedAssigns : ~(cur < l) }
<1>2. SUFFICES ASSUME Early # {} PROVE FALSE
  BY DEF Leads
<1>3. PICK l \in Early : \A k \in Early : l <= k
  <2>1. Early \in SUBSET Node
    BY DEF CheckedAssigns, Assigns
  <2>. HIDE DEF Early
  <2>. QED
    BY <1>1, <1>2, <2>1, FirstDefinition
<1>4. /\ l \in Rivals(cur) /\ l \in CheckedAssigns /\ l \in Node /\ l # cur /\ l \notin OnStack
      /\ Rivals(l) \subseteq Rivals(cur) /\ Home(l) \in Around(cur) /\ Name(l) = Name(cur)
  BY <1>1, <1>3, RivalsApart DEF Rivals, Assigns
<1>5. l < cur
  BY <1>1, <1>3, <1>4
<1>6. Left(l)
  BY <1>4, <1>5, LeftBefore
<1>7. Leads(l)
  <2>1. ASSUME NEW k \in Rivals(l) \cap CheckedAssigns, ~(l < k) PROVE FALSE
    <3>1. k \in Node /\ k # l
      BY <2>1, <1>4, <1>1, RivalsApart DEF CheckedAssigns, Assigns
    <3>2. k < l
      BY <1>1, <1>4, <2>1, <3>1
    <3>3. k \in Early
      BY <1>1, <1>4, <1>5, <2>1, <3>1, <3>2
    <3>4. l <= k
      <4>. HIDE DEF Early
      <4>. QED
        BY <1>3, <3>3
    <3>. QED
      BY <1>1, <1>4, <3>1, <3>2, <3>4
  <2>. QED
    BY <2>1 DEF Leads
<1>8. Key(l) \in DOMAIN Declared
  BY <1>4, <1>6, <1>7 DEF LeadersDeclared
<1>9. SymTabKey(Name(cur), Home(l)) \in DOMAIN Declared
  BY <1>4, <1>8 DEF Key
<1>. QED
  BY <1>1, <1>4, <1>9, FindsAround DEF Undeclared

\* The checker is past a leader's declaration: the name is declared there.
LEMMA LeaderDeclares ==
    ASSUME StackInv, DeclaredByLeaders, cur # 0, cur \in CheckedAssigns, Leads(cur), ~Undeclared
    PROVE  Key(cur) \in DOMAIN Declared
<1>1. /\ cur \in Node /\ cur \in Assigns /\ ProgOK /\ Node \subseteq Nat
      /\ \A n \in OnStack : n <= cur
  BY KidsExist, Trees DEF StackInv, StackIsPath, ProgOK, Node, CheckedAssigns
<1>2. SUFFICES ASSUME NEW b \in Around(Home(cur)), SymTabKey(Name(cur), b) \in DOMAIN Declared
               PROVE  FALSE
  BY <1>1, FindsRival DEF Undeclared
<1>3. PICK l \in CheckedAssigns : SymTabKey(Name(cur), b) = Key(l) /\ Declaring(l)
  BY <1>2 DEF DeclaredByLeaders
<1>4. l \in Rivals(cur) /\ l \in Node
  BY <1>2, <1>3 DEF Rivals, Key, SymTabKey, CheckedAssigns, Assigns
<1>5. cur < l /\ cur \notin Ancestors(prog, l)
  BY <1>1, <1>3, <1>4, RivalsApart DEF Leads
<1>6. ~Left(l)
  <2>1. Left(l) => l < cur \/ cur \in Ancestors(prog, l)
    BY <1>4, LeftIsBefore
  <2>. QED
    BY <1>1, <1>4, <1>5, <2>1
<1>7. l \notin OnStack
  BY <1>1, <1>4, <1>5
<1>. QED
  BY <1>3, <1>6, <1>7 DEF Declaring

LEMMA NamesAtStart ==
    ASSUME ProgOK, cur = 1, done = RootFrame(prog), CheckInit
    PROVE  NamesChecked
<1>1. /\ Node = Nodes(prog) /\ prog \in Programs /\ OnStack = {1} /\ Kind(1) = "root"
      /\ done[1] = 0 /\ 1 \in Node
  <2>1. /\ Node = Nodes(prog) /\ prog \in Programs /\ OnStack = {1} /\ Kind(1) = "root" /\ 1 \in Node
    BY StackAtRoot, Trees DEF ProgOK, Node, OnStack, Kind
  <2>. QED
    BY <2>1 DEF RootFrame
<1>2. DOMAIN Declared = {}
  BY DEF CheckInit, EmptyTable
<1>3. \A n : ~Left(n)
  <2>1. ASSUME NEW i \in DOMAIN Kids(1) PROVE ~(i <= 0)
    BY <1>1, <2>1, NodeShape
  <2>. QED
    BY <1>1, <2>1 DEF Left
<1>. QED
  BY <1>1, <1>2, <1>3 DEF NamesChecked, DeclaredByLeaders, LeadersDeclared, VariablesDeclared,
                          UsesDefined

LEMMA NamesAfterAccept ==
    ASSUME StackInv, NamesChecked, Errors = <<>>, GoesOn, KeepsDeclared \/ Declares,
           NotElse,
           Kind(cur) = "variable" \/ (Kind(cur) = "access" /\ done[cur] = 0) => ~Undeclared
    PROVE  DeclaredByLeaders' /\ LeadersDeclared' /\ VariablesDeclared' /\ UsesDefined'
<1>1. /\ cur # 0 /\ done[cur] + 1 \in DOMAIN Kids(cur) /\ Accept(done[cur] + 1)
      /\ DeclaredByLeaders /\ LeadersDeclared /\ VariablesDeclared /\ UsesDefined
  BY DEF GoesOn, NamesChecked
<1>2. /\ prog' = prog /\ Node' = Node /\ cur' \in Node /\ cur' > cur
      /\ OnStack' = OnStack \cup {cur'} /\ cur \in Node /\ cur \in OnStack
      /\ ProgOK /\ Node \subseteq Nat /\ \A n \in OnStack : n <= cur
  BY <1>1, AcceptStack, KidsExist, Trees DEF StackInv, StackIsPath, ProgOK, Node
<1>3. \A m \in Node : Left(m)' <=> Left(m)
  BY <1>1, LeftAfterAccept
<1>4. /\ done'[cur] = done[cur] + 1 /\ done'[cur'] = 0 /\ done[cur] \in Nat
      /\ \A n \in OnStack : n # cur => done'[n] = done[n]
  <2>1. cur # cur' /\ \A n \in OnStack : n # cur'
    BY <1>2
  <2>2. done \in [Node -> Nat \cup {Idle}] /\ OnStack \subseteq Node
    BY DEF StackInv, StackTypeOK, OnStack
  <2>. QED
    BY <1>1, <1>2, <2>1, <2>2, KidsExist DEF Accept
\* What the tree says does not change.
<1>5. /\ CheckedAssigns' = CheckedAssigns
      /\ \A m : Key(m)' = Key(m) /\ (Leads(m)' <=> Leads(m))
      /\ \A n : Name(n)' = Name(n) /\ Scope(n)' = Scope(n) /\ Kind(n)' = Kind(n)
      /\ \A n : Definitions(prog, n)' = Definitions(prog, n)
      /\ \A l, n : Before(l, n)' <=> Before(l, n)
  BY <1>2 DEF CheckedAssigns, Assigns, Leads, Rivals, Around, Home, Key, Name, Scope, Kind, Before, Kid
<1>6. /\ DOMAIN Declared \subseteq DOMAIN Declared'
      /\ \A k \in DOMAIN Declared' :
            k \in DOMAIN Declared \/ (Declares /\ k = Key(cur))
  BY DEF KeepsDeclared, Declares, tryDefine, Emplace, Key, Home
<1>7. ASSUME NEW m \in Node, Kind(m) = "assign", Declaring(m) PROVE Declaring(m)'
  <2>1. CASE Left(m)
    BY <1>3, <2>1 DEF Declaring
  <2>2. CASE m \in OnStack /\ done[m] = 2
    <3>1. m # cur
      <4>1. Kind(cur) = "assign" => DOMAIN Kids(cur) = 1..2
        BY <1>2, NodeShape
      <4>. QED
        BY <1>1, <1>7, <2>2, <4>1
    <3>. QED
      BY <1>2, <1>4, <2>2, <3>1 DEF Declaring
  <2>. QED
    BY <1>7, <2>1, <2>2 DEF Declaring
<1>8. DeclaredByLeaders'
  <2>1. ASSUME NEW k \in DOMAIN Declared', k \in DOMAIN Declared
        PROVE  \E m \in CheckedAssigns : k = Key(m) /\ Leads(m) /\ Declaring(m)'
    <3>1. PICK m \in CheckedAssigns : k = Key(m) /\ Leads(m) /\ Declaring(m)
      BY <1>1, <2>1 DEF DeclaredByLeaders
    <3>. QED
      BY <1>7, <3>1 DEF CheckedAssigns, Assigns
  <2>2. ASSUME Declares
        PROVE  \E m \in CheckedAssigns : Key(cur) = Key(m) /\ Leads(m) /\ Declaring(m)'
    <3>. PICK c \in Node : c = cur
      BY <1>2
    <3>1. Kind(c) = "assign" /\ done'[c] = 2 /\ c \in OnStack' /\ Undeclared
      BY <1>2, <1>4, <2>2 DEF Declares, At
    <3>2. c \in CheckedAssigns
      BY <1>2, <3>1 DEF CheckedAssigns, Assigns, NotElse
    <3>3. Leads(c)
      BY <1>1, <3>1, <3>2, DeclarerLeads
    <3>. QED
      BY <3>1, <3>2, <3>3 DEF Declaring
  <2>3. \A k \in DOMAIN Declared' : \E m \in CheckedAssigns : k = Key(m) /\ Leads(m) /\ Declaring(m)'
    BY <1>6, <2>1, <2>2
  <2>. QED
    BY <1>5, <2>3 DEF DeclaredByLeaders
<1>9. LeadersDeclared'
  BY <1>1, <1>3, <1>5, <1>6 DEF LeadersDeclared, CheckedAssigns, Assigns
\* More is found in a greater table.
<1>10. ASSUME NEW n \in Node, isDefined(Declared, Name(n), Scope(n))
       PROVE  isDefined(Declared', Name(n), Scope(n))
  BY <1>2, <1>6, <1>10, FindsAround
<1>11. VariablesDeclared'
  <2>1. ASSUME NEW n \in Node, Kind(n) = "variable", Left(n)', ~UnderElse(prog, n)
        PROVE  isDefined(Declared', Name(n), Scope(n))
    BY <1>1, <1>3, <1>10, <2>1 DEF VariablesDeclared
  <2>. QED
    BY <1>2, <1>5, <2>1 DEF VariablesDeclared
<1>12. UsesDefined'
  <2>1. ASSUME NEW n \in Node, Kind(n) \in {"variable", "access"}, ~UnderElse(prog, n),
               Left(n)' \/ (n \in OnStack' /\ done'[n] > 0)
        PROVE  \E l \in CheckedAssigns \cap Definitions(prog, n) : Before(l, n)
    <3>1. CASE Left(n) \/ (n \in OnStack /\ done[n] > 0)
      BY <1>1, <2>1, <3>1 DEF UsesDefined
    <3>2. CASE ~Left(n) /\ ~(n \in OnStack /\ done[n] > 0)
      <4>1. n = cur /\ done[cur] = 0
        BY <1>2, <1>3, <1>4, <2>1, <3>2
      <4>2. ~Undeclared
        BY <2>1, <4>1
      <4>. QED
        BY <1>1, <2>1, <4>1, <4>2, FoundBefore
    <3>. QED
      BY <3>1, <3>2
  <2>. QED
    BY <1>2, <1>5, <2>1 DEF UsesDefined
<1>. QED
  BY <1>8, <1>9, <1>11, <1>12

LEMMA NamesAfterReturn ==
    ASSUME StackInv, NamesChecked, Errors = <<>>, Returns, AllAccepted, KeepsDeclared, NotElse,
           Kind(cur) = "variable" \/ (Kind(cur) = "access" /\ done[cur] = 0) => ~Undeclared
    PROVE  DeclaredByLeaders' /\ LeadersDeclared' /\ VariablesDeclared' /\ UsesDefined'
<1>1. /\ cur # 0 /\ Declared' = Declared
      /\ DeclaredByLeaders /\ LeadersDeclared /\ VariablesDeclared /\ UsesDefined
  BY DEF Returns, NamesChecked, KeepsDeclared
<1>2. /\ prog' = prog /\ Node' = Node /\ cur \in Node /\ cur \in OnStack
      /\ OnStack' = OnStack \ {cur} /\ ProgOK /\ Node = Nodes(prog) /\ prog \in Programs
      /\ \A n \in OnStack : n \in Node
  BY <1>1, ReturnStack DEF StackInv, StackIsPath, ProgOK, Node, OnStack
<1>3. \A n \in OnStack' : done'[n] = done[n]
  BY <1>2 DEF Returns, Return, StackInv, StackTypeOK, OnStack
<1>4. \A m \in Node : (Left(m) => Left(m)') /\ (m = cur => Left(m)')
  BY LeftAfterReturn
\* Whatever this step leaves but cur is below the else of an if.
<1>5. ASSUME NEW m \in Node, Left(m)', ~UnderElse(prog, m) PROVE Left(m) \/ m = cur
  <2>1. SUFFICES ASSUME NEW j \in DOMAIN Kids(cur), done[cur] < j, Kid(cur, j) \in Ancestors(prog, m)
                 PROVE  FALSE
    BY <1>5, SkippedByReturn
  <2>2. Kind(cur) = "if" /\ j = 3
    <3>1. j \in Nat /\ done[cur] \in Nat
      BY <1>1, <1>2, KidsExist, NodeShape
    <3>. QED
      BY <2>1, <3>1 DEF AllAccepted
  <2>3. IsKid(prog, Kid(cur, j), "if", 3)
    <3>1. Kid(cur, j) # 1 /\ prog[Kid(cur, j)].parent = cur
      BY <1>2, <2>1, NodeShape
    <3>. QED
      BY <2>1, <2>2, <3>1 DEF IsKid, Kind, Kids, Kid
  <2>. QED
    BY <1>5, <2>1, <2>3 DEF UnderElse, Under
<1>6. /\ CheckedAssigns' = CheckedAssigns
      /\ \A m : Key(m)' = Key(m) /\ (Leads(m)' <=> Leads(m))
      /\ \A n : Name(n)' = Name(n) /\ Scope(n)' = Scope(n) /\ Kind(n)' = Kind(n)
      /\ \A n : Definitions(prog, n)' = Definitions(prog, n)
      /\ \A l, n : Before(l, n)' <=> Before(l, n)
  BY <1>2 DEF CheckedAssigns, Assigns, Leads, Rivals, Around, Home, Key, Name, Scope, Kind, Before, Kid
<1>7. DeclaredByLeaders'
  <2>1. ASSUME NEW m \in Node, Declaring(m) PROVE Declaring(m)'
    BY <1>2, <1>3, <1>4, <2>1 DEF Declaring
  <2>2. ASSUME NEW k \in DOMAIN Declared
        PROVE  \E m \in CheckedAssigns : k = Key(m) /\ Leads(m) /\ Declaring(m)'
    <3>1. PICK m \in CheckedAssigns : k = Key(m) /\ Leads(m) /\ Declaring(m)
      BY <1>1, <2>2 DEF DeclaredByLeaders
    <3>. QED
      BY <2>1, <3>1 DEF CheckedAssigns, Assigns
  <2>. QED
    BY <1>1, <1>6, <2>2 DEF DeclaredByLeaders
<1>8. ASSUME cur \in CheckedAssigns, Leads(cur) PROVE Key(cur) \in DOMAIN Declared
  <2>1. /\ Kind(cur) = "assign" /\ cur \in Assigns /\ Kids(cur) \in Seq(Nat) /\ DOMAIN Kids(cur) = 1..2
        /\ Kid(cur, 2) \in Node /\ Kid(cur, 2) > cur /\ prog[Kid(cur, 2)].parent = cur
        /\ Kind(Kid(cur, 2)) = "variable" /\ Name(Kid(cur, 2)) = Name(cur)
    <3>1. Kind(cur) = "assign" /\ cur \in Assigns
      BY <1>8 DEF CheckedAssigns, Assigns
    <3>2. DOMAIN Kids(cur) = 1..2
      BY <1>2, <3>1, NodeShape
    <3>. QED
      BY <1>2, <3>1, <3>2, NodeShape
  <2>2. 2 <= done[cur]
    BY <2>1 DEF AllAccepted
  <2>3. /\ Ancestors(prog, Kid(cur, 2)) = {Kid(cur, 2)} \cup Ancestors(prog, cur)
        /\ cur \in Ancestors(prog, cur) /\ Kid(cur, 2) \in Ancestors(prog, Kid(cur, 2))
    BY <1>2, <2>1, AncestorsOf, AncestorsPath
  <2>4. Left(Kid(cur, 2))
    <3>1. Kid(cur, 2) \notin OnStack
      BY <1>2, <2>1, Trees DEF StackInv, StackIsPath
    <3>. QED
      BY <1>2, <2>1, <2>2, <2>3, <3>1 DEF Left
  <2>5. ~UnderElse(prog, Kid(cur, 2))
    <3>1. ~UnderElse(prog, cur)
      BY <1>8 DEF CheckedAssigns
    <3>2. ~IsKid(prog, Kid(cur, 2), "if", 3)
      BY <2>1 DEF IsKid, Kind
    <3>. QED
      BY <2>3, <3>1, <3>2 DEF UnderElse, Under
  <2>6. Scope(Kid(cur, 2)) = Scope(cur)
    BY <1>2, <2>1, <2>3, BelowExpressions DEF ExpressionKinds, Arity
  <2>7. ~Undeclared
    BY <1>1, <2>1, <2>4, <2>5, <2>6 DEF VariablesDeclared, Undeclared
  <2>. QED
    BY <1>1, <1>8, <2>7, LeaderDeclares
<1>9. LeadersDeclared'
  <2>1. ASSUME NEW m \in CheckedAssigns, Left(m)', Leads(m) PROVE Key(m) \in DOMAIN Declared
    <3>1. m \in Node /\ ~UnderElse(prog, m)
      BY DEF CheckedAssigns, Assigns
    <3>2. CASE Left(m)
      BY <1>1, <2>1, <3>2 DEF LeadersDeclared
    <3>3. CASE m = cur
      BY <1>8, <2>1, <3>3
    <3>. QED
      BY <1>5, <2>1, <3>1, <3>2, <3>3
  <2>. QED
    BY <1>1, <1>6, <2>1 DEF LeadersDeclared
<1>10. VariablesDeclared'
  <2>1. ASSUME NEW n \in Node, Kind(n) = "variable", Left(n)', ~UnderElse(prog, n)
        PROVE  isDefined(Declared, Name(n), Scope(n))
    <3>1. CASE Left(n)
      BY <1>1, <2>1, <3>1 DEF VariablesDeclared
    <3>2. CASE n = cur
      BY <2>1, <3>2 DEF Undeclared
    <3>. QED
      BY <1>5, <2>1, <3>1, <3>2
  <2>. QED
    BY <1>1, <1>2, <1>6, <2>1 DEF VariablesDeclared
<1>11. UsesDefined'
  <2>1. ASSUME NEW n \in Node, Kind(n) \in {"variable", "access"}, ~UnderElse(prog, n),
               Left(n)' \/ (n \in OnStack' /\ done'[n] > 0)
        PROVE  \E l \in CheckedAssigns \cap Definitions(prog, n) : Before(l, n)
    <3>1. CASE Left(n) \/ (n \in OnStack /\ done[n] > 0)
      BY <1>1, <2>1, <3>1 DEF UsesDefined
    <3>2. CASE ~Left(n) /\ ~(n \in OnStack /\ done[n] > 0)
      <4>1. n = cur
        BY <1>2, <1>3, <1>5, <2>1, <3>2
      <4>2. done[cur] = 0 /\ done[cur] \in Nat
        <5>1. done[cur] \in Nat
          BY <1>1, KidsExist
        <5>. QED
          BY <1>2, <3>2, <4>1, <5>1
      <4>3. ~Undeclared
        BY <2>1, <4>1, <4>2
      <4>. QED
        BY <1>1, <2>1, <4>1, <4>2, <4>3, FoundBefore
    <3>. QED
      BY <3>1, <3>2
  <2>. QED
    BY <1>2, <1>6, <2>1 DEF UsesDefined
<1>. QED
  BY <1>7, <1>9, <1>10, <1>11

LEMMA NamesCheckedKept ==
    ASSUME StackInv, NamesChecked, UNCHANGED <<prog, cur, done>>, UNCHANGED checkVars
    PROVE  NamesChecked'
<1>1. prog' = prog /\ cur' = cur /\ done' = done /\ Declared' = Declared /\ Errors' = Errors
  BY DEF checkVars
<1>2. /\ Node' = Node /\ OnStack' = OnStack /\ CheckedAssigns' = CheckedAssigns
      /\ \A m : Key(m)' = Key(m) /\ (Leads(m)' <=> Leads(m)) /\ (Left(m)' <=> Left(m))
      /\ \A n : Name(n)' = Name(n) /\ Scope(n)' = Scope(n) /\ Kind(n)' = Kind(n)
      /\ \A n : Definitions(prog, n)' = Definitions(prog, n)
      /\ \A l, n : Before(l, n)' <=> Before(l, n)
  BY <1>1 DEF Node, OnStack, CheckedAssigns, Assigns, Leads, Rivals, Around, Home, Key, Name, Scope,
              Kind, Before, Kid, Kids, Left
<1>3. \A m : Declaring(m)' <=> Declaring(m)
  BY <1>1, <1>2 DEF Declaring
<1>. QED
  BY <1>1, <1>2, <1>3 DEF NamesChecked, DeclaredByLeaders, LeadersDeclared, VariablesDeclared,
                          UsesDefined

LEMMA NamesCheckedNext ==
    ASSUME StackInv, CheckInv, CheckNext, NamesChecked
    PROVE  NamesChecked'
<1>1. /\ GoesOn \/ Leaves \/ Halts
      /\ CheckEffect /\ CheckTypeOK /\ NotElse
  BY CheckSteps, CheckEffects DEF CheckInv
<1>2. SUFFICES ASSUME Errors' = <<>>
               PROVE  DeclaredByLeaders' /\ LeadersDeclared' /\ VariablesDeclared' /\ UsesDefined'
  BY DEF NamesChecked
<1>3. CASE Halts
  BY <1>2, <1>3, NamesCheckedKept DEF Halts, NamesChecked
<1>4. ASSUME cur # 0
      PROVE  /\ Errors = <<>>
             /\ Kind(cur) = "variable" \/ (Kind(cur) = "access" /\ done[cur] = 0) => ~Undeclared
  <2>1. cur \in Node /\ Errors \in Seq(Node)
    BY <1>1, <1>4, KidsExist DEF CheckTypeOK
  <2>2. Errors = <<>>
    BY <1>1, <1>2, <2>1, Reported DEF CheckEffect, Reports
  <2>3. Kind(cur) = "variable" \/ (Kind(cur) = "access" /\ done[cur] = 0) => ~Undeclared
    BY <1>1, <1>2, <1>4, NamesKnown
  <2>. QED
    BY <2>2, <2>3
<1>5. CASE GoesOn
  BY <1>1, <1>4, <1>5, NamesAfterAccept DEF GoesOn, CheckEffect
<1>6. CASE Leaves
  <2>1. cur # 0 /\ Returns /\ AllAccepted
    BY <1>2, <1>6 DEF Leaves, Returns
  <2>2. KeepsDeclared
    <3>1. ASSUME Declares PROVE FALSE
      <4>1. Accept(2) /\ Len(Kids(cur)) = 2 /\ cur \in Node
        BY <2>1, <3>1, KidsExist DEF Declares, At
      <4>2. 2 \in DOMAIN Kids(cur)
        BY <4>1, NodeShape DEF StackInv
      <4>3. cur' > cur /\ cur' < cur
        <5>1. cur' > cur /\ cur' \in Node
          BY <2>1, <4>1, <4>2, AcceptStack
        <5>2. cur' \in 0..(cur - 1)
          BY <2>1, ReturnStack
        <5>3. cur \in Nat
          BY <4>1, Trees DEF StackInv, ProgOK, Node
        <5>. QED
          BY <5>1, <5>2, <5>3
      <4>4. cur \in Nat /\ cur' \in Nat
        BY <2>1, <4>1, ReturnStack, Trees DEF StackInv, ProgOK, Node
      <4>. QED
        BY <4>3, <4>4
    <3>. QED
      BY <1>1, <3>1 DEF CheckEffect
  <2>. QED
    BY <1>1, <1>4, <2>1, <2>2, NamesAfterReturn
<1>. QED
  BY <1>1, <1>3, <1>5, <1>6

-----------------------------------------------------------------------------
(***************************************************************************)
(* What the checker's table says of a program in which it found no error:  *)
(* a name is declared where the first assignment that can define it is.    *)
(***************************************************************************)
NamesVerdict ==
    /\ \A k \in DOMAIN Declared : \E m \in CheckedAssigns : k = Key(m) /\ Leads(m)
    /\ \A m \in CheckedAssigns : Leads(m) => Key(m) \in DOMAIN Declared
    /\ \A n \in Node : Kind(n) \in {"variable", "access"} /\ ~UnderElse(prog, n) =>
          \E l \in CheckedAssigns \cap Definitions(prog, n) : Before(l, n)

LEMMA NamesAtEnd ==
    ASSUME NamesChecked, cur = 0, Errors = <<>>
    PROVE  NamesVerdict
<1>1. \A m \in Node : Left(m)
  BY DEF Left
<1>. QED
  BY <1>1 DEF NamesChecked, NamesVerdict, DeclaredByLeaders, LeadersDeclared, UsesDefined,
              CheckedAssigns, Assigns

LEMMA NamesVerdictKept ==
    ASSUME NamesVerdict, prog' = prog, Declared' = Declared
    PROVE  NamesVerdict'
<1>1. /\ Node' = Node /\ CheckedAssigns' = CheckedAssigns
      /\ \A m : Key(m)' = Key(m) /\ (Leads(m)' <=> Leads(m))
      /\ \A n : Kind(n)' = Kind(n) /\ Definitions(prog, n)' = Definitions(prog, n)
      /\ \A l, n : Before(l, n)' <=> Before(l, n)
  BY DEF Node, CheckedAssigns, Assigns, Leads, Rivals, Around, Home, Key, Name, Scope, Kind,
         Before, Kid
<1>. QED
  BY <1>1 DEF NamesVerdict

\* An inner block that declares the name would have its leader come first.
LEMMA StaticLookup ==
    ASSUME ProgOK, NamesVerdict, NEW n \in Node, n # 1,
           NEW m \in CheckedAssigns \cap Definitions(prog, n),
           \A l \in CheckedAssigns \cap Definitions(prog, n) : m <= l
    PROVE  getDeclScopeFor(Declared, Name(n), Scope(n)) = Home(m)
<1>1. /\ m \in Assigns /\ m \in Node /\ Name(m) = Name(n) /\ Home(m) \in Around(n)
      /\ Rivals(m) \subseteq Definitions(prog, n) /\ Node \subseteq Nat
  BY DefinitionsOf, Trees DEF Assigns, ProgOK, Node
<1>2. Leads(m)
  <2>1. ASSUME NEW l \in Rivals(m) \cap CheckedAssigns PROVE m < l
    <3>1. m <= l /\ l # m /\ l \in Node
      BY <1>1, <2>1, RivalsApart DEF CheckedAssigns, Assigns
    <3>. QED
      BY <1>1, <3>1
  <2>. QED
    BY <2>1 DEF Leads
<1>3. SymTabKey(Name(n), Home(m)) \in DOMAIN Declared
  BY <1>1, <1>2 DEF NamesVerdict, Key
<1>4. ASSUME NEW c \in Around(n), SymTabKey(Name(n), c) \in DOMAIN Declared
      PROVE  c <= Home(m)
  <2>1. PICK l \in CheckedAssigns : SymTabKey(Name(n), c) = Key(l) /\ Leads(l)
    BY <1>4 DEF NamesVerdict
  <2>2. l \in Assigns /\ l \in Node /\ Name(l) = Name(n) /\ Home(l) = c
    BY <2>1 DEF CheckedAssigns, Assigns, Key, SymTabKey
  <2>3. l \in Definitions(prog, n)
    BY <1>4, <2>2, DefinitionsOf
  <2>4. m <= l /\ c \in Node /\ Home(m) \in Node
    BY <1>1, <1>4, <2>1, <2>3, OuterAround
  <2>5. Home(m) < c => m \in Rivals(l)
    BY <1>1, <1>4, <2>2, OuterAround DEF Rivals
  <2>6. m \in Rivals(l) => l < m
    BY <2>1 DEF Leads
  <2>7. ~(l < m)
    BY <1>1, <2>2, <2>4
  <2>8. c \in Nat /\ Home(m) \in Nat /\ ~(Home(m) < c)
    BY <1>1, <2>4, <2>5, <2>6, <2>7
  <2>. QED
    BY <2>8
<1>. QED
  BY <1>1, <1>3, <1>4, FindsAround

\* A definition in a block around the first one's comes after the node they are seen from.
LEMMA OuterComesLater ==
    ASSUME ProgOK, NEW n \in Node, n # 1, NEW m \in Definitions(prog, n), Home(m) \in Around(n),
           NEW l \in Definitions(prog, n), m <= l, Home(l) < Home(m)
    PROVE  /\ n < l /\ n \notin Ancestors(prog, l)
           /\ Ancestors(prog, l) \cap Ancestors(prog, m) \subseteq Ancestors(prog, n)
<1>. DEFINE b == Home(m)
<1>1. /\ m \in Node /\ l \in Node /\ Kind(m) = "assign" /\ Kind(l) = "assign" /\ m # 1 /\ l # 1
      /\ Node \subseteq Nat /\ Node = Nodes(prog) /\ prog \in Programs
  <2>1. m \in Node /\ l \in Node /\ Kind(m) = "assign" /\ Kind(l) = "assign"
    BY DefinitionsOf DEF Assigns
  <2>. QED
    BY <2>1, NoRoot, Trees DEF ProgOK, Node
<1>2. b \in Node /\ b \in Ancestors(prog, n) /\ b \in Ancestors(prog, m) /\ IsBlock(prog, b) /\ b < m
  BY <1>1, HomeInnermost, BlocksAround
<1>3. b \notin Ancestors(prog, l)
  <2>1. SUFFICES ASSUME b \in Ancestors(prog, l) PROVE FALSE
    OBVIOUS
  <2>2. b # l
    BY <1>1, <1>2 DEF IsBlock, BlockKinds, Kind
  <2>3. b \in Around(l)
    BY <1>1, <1>2, <2>1, <2>2, BlocksAround
  <2>4. b = Home(l) \/ b < Home(l)
    BY <1>1, <2>3, HomeInnermost
  <2>5. Home(l) \in Nat /\ b \in Nat
    BY <1>1, <1>2, HomeInnermost
  <2>. QED
    BY <2>4, <2>5
<1>4. b < l
  BY <1>1, <1>2
<1>5. n < l
  <2>1. SUFFICES ASSUME ~(n < l) PROVE FALSE
    OBVIOUS
  <2>2. l \in b..n
    BY <1>1, <1>2, <1>4, <2>1
  <2>. QED
    BY <1>1, <1>2, <1>3, <2>2, Contiguous
<1>6. n \notin Ancestors(prog, l)
  BY <1>1, <1>2, <1>3, AncestorsPath
<1>7. ASSUME NEW w \in Ancestors(prog, l), w \in Ancestors(prog, m) PROVE w \in Ancestors(prog, n)
  <2>1. w \in Node /\ w \in Nat /\ b \in Nat
    BY <1>1, <1>2, <1>7, AncestorsPath, Trees DEF Node
  <2>2. CASE w <= b
    BY <1>1, <1>2, <1>7, <2>1, <2>2, AncestorsPath
  <2>3. CASE b <= w
    BY <1>1, <1>2, <1>3, <1>7, <2>1, <2>3, AncestorsPath
  <2>. QED
    BY <2>1, <2>2, <2>3
<1>. QED
  BY <1>5, <1>6, <1>7

-----------------------------------------------------------------------------
(***************************************************************************)
(* What the checker concludes of the types of a program in which it finds  *)
(* no error.  An array type is declared once, by the assignment whose      *)
(* value made it, in the block the array is made in.                       *)
(***************************************************************************)
OperandTy(n, i)  == res[Kid(n, i)].ty
OperandVal(n, i) == res[Kid(n, i)].val

\* The declaration the table has for the name of a node.
IsDeclared(n)  == isDefined(Declared, Name(n), Scope(n))
DeclaredKey(n) == getDeclKeyFor(Declared, Name(n), Scope(n))
DeclaredTy(n)  == Declared[DeclaredKey(n)]

\* An access has an index for every dimension its array is declared with ...
Dimensioned(n) ==
    IsDeclared(n) /\ isArrayTy(DeclaredTy(n)) /\ Len(Layers(DeclaredTy(n))) = Len(Kids(n))

\* ... and an index that is known is within a size that is known.
IndexChecked(n, j) ==
    /\ ~isArrayTy(OperandTy(n, j))
    /\ OperandTy(n, j) = IntTy /\ IsKnown(OperandVal(n, j)) =>
          LET size == arrayTypes[Layers(DeclaredTy(n))[j]].size
          IN  /\ OperandVal(n, j)[1] >= 0
              /\ IsKnown(size) => OperandVal(n, j)[1] < size[1]

\* How many elements an operand of a preset array of ints adds to it.
Weight(n, i) == IF isArrayTy(OperandTy(n, i)) THEN arrayTypes[OperandTy(n, i)].size[1] ELSE 1

\* The running size of a preset array.
IsSize(n, f) ==
    /\ f[0] = 0
    /\ \A i \in 1..Len(Kids(n)) : f[i] = (f[i - 1] + Weight(n, i)) % Word

\* A node may have this type, and make this array type, as its operands are typed.
ConformsTo(n, ty, made) ==
    /\ Kind(n) \in {"number", "read"} => ty = IntTy
    /\ Kind(n) = "variable" => IsDeclared(n) /\ ty = DeclaredTy(n)
    /\ Kind(n) \in {"un", "calc", "logic"} =>
          ty = IntTy /\ \A i \in DOMAIN Kids(n) : OperandTy(n, i) = IntTy
    /\ Kind(n) \in {"print", "holder"} => ty = OperandTy(n, 1)
    /\ Kind(n) = "assign" =>
          /\ ty = OperandTy(n, 1) /\ ty # NoTy
          /\ TypeID(OperandTy(n, 1)) = TypeID(OperandTy(n, 2))
    /\ Kind(n) = "preset" =>
          /\ ty = n /\ made.contained = IntTy
          /\ \A i \in DOMAIN Kids(n) :
                /\ OperandTy(n, i) # NoTy
                /\ isArrayTy(OperandTy(n, i)) =>
                     /\ IsKnown(arrayTypes[OperandTy(n, i)].size)
                     /\ ~isArrayTy(arrayTypes[OperandTy(n, i)].contained)
          /\ \E f \in [0..Len(Kids(n)) -> Nat] :
                IsSize(n, f) /\ made.size = Known(f[Len(Kids(n))])
    /\ Kind(n) = "uniform" =>
          /\ ty = n /\ made.contained = OperandTy(n, 1)
          /\ ~isArrayTy(OperandTy(n, 2))
          /\ IsKnown(made.size) =>
                /\ IsKnown(OperandVal(n, 2))
                /\ made.size = Known(Unsigned(OperandVal(n, 2)[1]))
    /\ Kind(n) = "access" =>
          ty = IntTy /\ Dimensioned(n) /\ \A j \in DOMAIN Kids(n) : IndexChecked(n, j)
    /\ Kind(n) = "accessAssign" => ty = NoTy /\ ~isArrayTy(OperandTy(n, 2))
    /\ Kind(n) \in {"if", "while"} => OperandTy(n, 1) = IntTy

Conforms(n) == ConformsTo(n, res[n].ty, arrayTypes[n])

Conforming == \A n \in Node : Left(n) /\ ~UnderElse(prog, n) => Conforms(n)

\* The same of what the frames on the stack are past.
FramesConform ==
    \A n \in OnStack :
        /\ Kind(n) = "access" /\ done[n] > 0 =>
              Dimensioned(n) /\ \A j \in 1..(done[n] - 1) : IndexChecked(n, j)
        /\ Kind(n) \in {"if", "while"} /\ done[n] = 2 => OperandTy(n, 1) = IntTy

\* The assignments of arrays: each one that was checked declares its name.
ArrayAssigns == { m \in CheckedAssigns : isArrayTy(OperandTy(m, 1)) }

ArraysDeclaredOnce ==
    \A m \in ArrayAssigns : Declaring(m) =>
        /\ Key(m) \in DOMAIN Declared /\ Declared[Key(m)] = OperandTy(m, 1)
        /\ Home(OperandTy(m, 1)) = Home(m)
        /\ \A l \in ArrayAssigns : Declaring(l) /\ OperandTy(l, 1) = OperandTy(m, 1) => l = m

ArraysHaveAssigns ==
    \A k \in DOMAIN Declared : isArrayTy(Declared[k]) =>
        \E m \in ArrayAssigns : Declaring(m) /\ Key(m) = k

\* An expression that has an array type made it, or named it.
ArraysComeFrom ==
    \A n \in Node : isArrayTy(res[n].ty) =>
        \/ \E k \in DOMAIN Declared : Declared[k] = res[n].ty
        \/ n \in Ancestors(prog, res[n].ty)

ArraysBeforeUse ==
    \A n \in Node :
        /\ Kind(n) \in {"variable", "access"} /\ ~UnderElse(prog, n)
        /\ Left(n) \/ (n \in OnStack /\ done[n] > 0)
        => \A m \in ArrayAssigns : Declaring(m) /\ Key(m) = DeclaredKey(n) => Before(m, n)

TypesConform ==
    /\ Conforming /\ FramesConform
    /\ ArraysDeclaredOnce /\ ArraysHaveAssigns /\ ArraysComeFrom /\ ArraysBeforeUse

-----------------------------------------------------------------------------
\* What a step of the checker leaves alone.
LEMMA CheckFrame ==
    ASSUME StackInv, CheckInv, CheckNext
    PROVE  /\ prog' = prog /\ Node' = Node /\ CheckInv' /\ (GoesOn \/ Leaves \/ Halts)
           /\ CheckEffect /\ (Errors' = <<>> => Errors = <<>>)
           /\ cur # 0 => /\ cur \in Node /\ cur \in OnStack /\ ~UnderElse(prog, cur)
                         /\ ~Left(cur) /\ res[cur] = NoResult /\ ~Created(cur)
           /\ \A n \in Node : n # cur => res'[n] = res[n] /\ arrayTypes'[n] = arrayTypes[n]
           /\ \A t : Created(t) => Created(t)' /\ arrayTypes'[t] = arrayTypes[t]
<1>1. CheckInv' /\ Moves /\ (GoesOn \/ Leaves \/ Halts) /\ CheckEffect
  BY CheckSteps, CheckEffects DEF CheckInv
<1>2. prog' = prog /\ Node' = Node
  <2>1. prog' = prog
    BY <1>1 DEF Moves, AcceptsKid, Accept, Returns, Return, Stays
  <2>. QED
    BY <2>1 DEF Node
<1>3. ASSUME cur # 0
      PROVE  /\ cur \in Node /\ cur \in OnStack /\ ~UnderElse(prog, cur)
             /\ ~Left(cur) /\ res[cur] = NoResult /\ ~Created(cur)
  <2>1. cur \in Node /\ cur \in OnStack
    BY <1>3, KidsExist DEF StackInv, StackIsPath
  <2>2. ~Left(cur)
    BY <1>3, <2>1, OnStackNotLeft
  <2>3. res[cur] = NoResult
    BY <2>1, <2>2 DEF CheckInv, CheckedOnce
  <2>4. ~Created(cur)
    BY <1>3, <2>3 DEF Created, NoResult, Result, NoTy
  <2>. QED
    BY <2>1, <2>2, <2>3, <2>4 DEF CheckInv, NotElse
<1>4. /\ res \in [Node -> [ty : CheckedTypes, val : CheckedValues]]
      /\ arrayTypes \in [Node -> [contained : CheckedTypes, size : CheckedSizes]]
  BY DEF CheckInv, CheckTypeOK
<1>5. UNCHANGED res \/ \E r : res' = [res EXCEPT ![cur] = r]
  BY <1>1 DEF CheckEffect, KeepsResults, YieldsResult, Yield
<1>6. UNCHANGED arrayTypes \/ (cur # 0 /\ \E r : arrayTypes' = [arrayTypes EXCEPT ![cur] = r])
  BY <1>1 DEF CheckEffect, KeepsArrayTypes, MakesArrayType
<1>7. \A n \in Node : n # cur => res'[n] = res[n] /\ arrayTypes'[n] = arrayTypes[n]
  BY <1>4, <1>5, <1>6
<1>8. ASSUME NEW t, Created(t) PROVE Created(t)' /\ arrayTypes'[t] = arrayTypes[t]
  <2>1. t \in Node /\ t # cur
    <3>1. t \in Node /\ t # 0
      BY <1>8, Trees DEF Created, StackInv, ProgOK, Node
    <3>. QED
      BY <1>3, <1>8, <3>1
  <2>. QED
    BY <1>2, <1>7, <1>8, <2>1 DEF Created, Kind
<1>9. Errors' = <<>> => Errors = <<>>
  <2>1. CASE cur = 0
    <3>1. UNCHANGED Errors
      BY <1>1, <2>1 DEF CheckEffect, Reports
    <3>. QED
      BY <3>1
  <2>2. CASE cur # 0
    BY <1>1, <1>3, <2>2, Reported DEF CheckEffect, Reports, CheckInv, CheckTypeOK
  <2>. QED
    BY <2>1, <2>2
<1>. QED
  BY <1>1, <1>2, <1>3, <1>7, <1>8, <1>9

LEMMA LayersKept ==
    ASSUME StackInv, CheckInv, CheckNext, NEW t \in Node, Created(t)
    PROVE  Layers(t)' = Layers(t)
<1>. DEFINE N == Len(prog)
            c == [k \in IntTy..N |-> arrayTypes[k].contained]
            d == [k \in IntTy..N |-> arrayTypes'[k].contained]
            F == CHOOSE From : From = [k \in IntTy..N |->
                    IF k > 0 THEN <<k>> \o From[arrayTypes[k].contained] ELSE <<>>]
            G == CHOOSE From : From = [k \in IntTy..N |->
                    IF k > 0 THEN <<k>> \o From[arrayTypes'[k].contained] ELSE <<>>]
            S == { k \in Node : Created(k) }
<1>1. prog' = prog /\ Node' = Node /\ CheckInv' /\ \A k \in S : arrayTypes'[k] = arrayTypes[k]
  BY CheckFrame
<1>2. Layers(t) = F[t] /\ Layers(t)' = G[t]
  BY <1>1 DEF Layers
<1>3. N \in Nat /\ Node = 1..N
  BY Trees DEF StackInv, ProgOK, Node
<1>4. PICK f \in [IntTy..N -> Seq(Node)] : IsLayers(f)
  BY DEF CheckInv, LayersDefined
<1>5. PICK g \in [IntTy..N -> Seq(Node)] : IsLayers(g)'
  BY <1>1 DEF CheckInv, LayersDefined
<1>6. F = [k \in IntTy..N |-> IF k > 0 THEN <<k>> \o F[arrayTypes[k].contained] ELSE <<>>]
  <2>1. f = [k \in IntTy..N |-> IF k > 0 THEN <<k>> \o f[arrayTypes[k].contained] ELSE <<>>]
    BY <1>4 DEF IsLayers
  <2>. QED
    BY <2>1
<1>7. G = [k \in IntTy..N |-> IF k > 0 THEN <<k>> \o G[arrayTypes'[k].contained] ELSE <<>>]
  <2>1. g = [k \in IntTy..N |-> IF k > 0 THEN <<k>> \o g[arrayTypes'[k].contained] ELSE <<>>]
    BY <1>1, <1>5 DEF IsLayers
  <2>. QED
    BY <2>1
<1>. HIDE DEF F, G
<1>8. ASSUME NEW k \in S
      PROVE  c[k] = d[k] /\ c[k] \in IntTy..N /\ (c[k] > 0 => c[k] \in S)
  <2>1. k \in Node /\ k \in IntTy..N /\ Created(k)
    BY <1>3 DEF IntTy
  <2>2. arrayTypes[k].contained \in CheckedTypes
    BY <2>1 DEF CheckInv, CheckTypeOK
  <2>3. arrayTypes[k].contained \in IntTy..N
    BY <1>3, <2>2 DEF CheckedTypes, NoTy, IntTy
  <2>4. arrayTypes[k].contained > 0 => arrayTypes[k].contained \in S
    BY <1>3, <2>1, <2>3 DEF CheckInv, TypesCreated, isArrayTy
  <2>. QED
    BY <1>1, <2>1, <2>3, <2>4
<1>9. \A k \in IntTy..N : f[k] = IF k > 0 THEN <<k>> \o f[c[k]] ELSE <<>>
  BY <1>4 DEF IsLayers
<1>10. \A k \in IntTy..N : F[k] = IF k > 0 THEN <<k>> \o F[c[k]] ELSE <<>>
  BY <1>6
<1>11. \A k \in IntTy..N : G[k] = IF k > 0 THEN <<k>> \o G[d[k]] ELSE <<>>
  BY <1>7
<1>12. S \in SUBSET (1..N) /\ t \in S /\ f \in [IntTy..N -> Seq(1..N)]
  BY <1>3, <1>4
<1>. HIDE DEF S, c, d, N
\* Following the same contained types gives the same layers.
<1>13. ASSUME NEW h, NEW b, \A k \in S : b[k] = c[k],
              \A k \in IntTy..N : h[k] = IF k > 0 THEN <<k>> \o h[b[k]] ELSE <<>>
       PROVE  \A k \in S : h[k] = f[k]
  <2>. DEFINE Bad == { l \in Nat : \E k \in S : h[k] # f[k] /\ l = Len(f[k]) }
  <2>1. \A k \in IntTy..N : Len(f[k]) \in Nat
    BY <1>12
  <2>2. ASSUME NEW k \in S PROVE k \in IntTy..N /\ k > 0 /\ k \in 1..N
    <3>1. k \in 1..N
      BY <1>12
    <3>. QED
      BY <3>1 DEF IntTy
  <2>3. SUFFICES ASSUME Bad # {} PROVE FALSE
    BY <2>1, <2>2
  <2>4. PICK l \in Bad : \A m \in Bad : l <= m
    <3>1. Bad \in SUBSET Nat
      OBVIOUS
    <3>. HIDE DEF Bad
    <3>. QED
      BY <2>3, <3>1, Least
  <2>5. PICK k \in S : h[k] # f[k] /\ l = Len(f[k])
    BY <2>4
  <2>. DEFINE e == c[k]
  <2>6. e \in IntTy..N /\ f[k] = <<k>> \o f[e] /\ h[k] = <<k>> \o h[e] /\ (e > 0 => e \in S)
    BY <1>8, <1>9, <1>13, <2>2, <2>5
  <2>. HIDE DEF e
  <2>7. f[e] \in Seq(1..N) /\ Len(f[k]) = 1 + Len(f[e]) /\ Len(f[e]) \in Nat
    <3>1. f[e] \in Seq(1..N)
      BY <1>12, <2>6
    <3>2. <<k>> \in Seq(1..N)
      BY <2>2
    <3>. QED
      BY <2>6, <3>1, <3>2
  <2>8. ~(e > 0) => f[e] = <<>> /\ h[e] = <<>>
    BY <1>9, <1>13, <2>6
  <2>9. e > 0 /\ h[e] # f[e]
    BY <2>5, <2>6, <2>8
  <2>10. Len(f[e]) \in Bad
    BY <2>6, <2>7, <2>9
  <2>. HIDE DEF Bad
  <2>. QED
    BY <2>4, <2>5, <2>7, <2>10
<1>14. \A k \in S : F[k] = f[k]
  BY <1>10, <1>13
<1>15. \A k \in S : G[k] = f[k]
  <2>1. \A k \in S : d[k] = c[k]
    BY <1>8
  <2>. QED
    BY <1>11, <1>13, <2>1
<1>. QED
  BY <1>2, <1>12, <1>14, <1>15

\* A lookup finds the innermost of the blocks around a node that declare the name.
LEMMA FoundInnermost ==
    ASSUME ProgOK, NEW n \in Node, NEW table, NEW x, isDefined(table, x, Scope(n))
    PROVE  /\ getDeclScopeFor(table, x, Scope(n)) \in Around(n)
           /\ getDeclKeyFor(table, x, Scope(n)) = SymTabKey(x, getDeclScopeFor(table, x, Scope(n)))
           /\ getDeclKeyFor(table, x, Scope(n)) \in DOMAIN table
           /\ \A c \in Around(n) :
                 SymTabKey(x, c) \in DOMAIN table => c <= getDeclScopeFor(table, x, Scope(n))
<1>1. Scope(n) \in Seq(Nat) /\ \A i \in DOMAIN Scope(n) : Scope(n)[i] # 0 /\ Scope(n)[i] \in Node
  BY ScopesLookUp
<1>2. /\ getDeclKeyFor(table, x, Scope(n)) \in DOMAIN table
      /\ \E i \in DeclaredAt(table, x, Scope(n)) :
            /\ getDeclScopeFor(table, x, Scope(n)) = Scope(n)[i]
            /\ getDeclKeyFor(table, x, Scope(n)) = SymTabKey(x, Scope(n)[i])
            /\ \A j \in DeclaredAt(table, x, Scope(n)) : i <= j
  <2>1. \A i \in DOMAIN Scope(n) : Scope(n)[i] # 0
    BY <1>1
  <2>. QED
    BY <1>1, <2>1, Lookup
<1>3. PICK i \in DeclaredAt(table, x, Scope(n)) :
         /\ getDeclScopeFor(table, x, Scope(n)) = Scope(n)[i]
         /\ getDeclKeyFor(table, x, Scope(n)) = SymTabKey(x, Scope(n)[i])
         /\ \A j \in DeclaredAt(table, x, Scope(n)) : i <= j
  BY <1>2
<1>4. i \in DOMAIN Scope(n) /\ DOMAIN Scope(n) \subseteq Nat
  BY <1>1 DEF DeclaredAt
<1>5. ASSUME NEW c \in Around(n), SymTabKey(x, c) \in DOMAIN table
      PROVE  c <= Scope(n)[i]
  <2>1. PICK j \in DOMAIN Scope(n) : c = Scope(n)[j]
    BY <1>5 DEF Around
  <2>2. i <= j
    BY <1>3, <1>5, <2>1 DEF DeclaredAt
  <2>3. i = j \/ Scope(n)[j] < Scope(n)[i]
    BY <1>4, <2>1, <2>2, BlocksAround
  <2>4. Scope(n)[i] \in Nat /\ Scope(n)[j] \in Nat
    BY <1>1, <1>4, <2>1
  <2>. QED
    BY <2>1, <2>3, <2>4
<1>. QED
  BY <1>2, <1>3, <1>4, <1>5 DEF Around

\* A name is not declared where another block around the use would hide it: what a use was
\* found to stand for it goes on standing for.
LEMMA DeclarationsKept ==
    ASSUME StackInv, cur # 0, prog' = prog, KeepsDeclared \/ Declares,
           NEW n \in Node, IsDeclared(n)
    PROVE  /\ IsDeclared(n)' /\ DeclaredKey(n)' = DeclaredKey(n) /\ DeclaredTy(n)' = DeclaredTy(n)
           /\ DeclaredKey(n) \in DOMAIN Declared
<1>. DEFINE x == Name(n)
            b == getDeclScopeFor(Declared, x, Scope(n))
<1>1. /\ b \in Around(n) /\ DeclaredKey(n) = SymTabKey(x, b) /\ DeclaredKey(n) \in DOMAIN Declared
      /\ SymTabKey(x, b) \in DOMAIN Declared
      /\ \A c \in Around(n) : SymTabKey(x, c) \in DOMAIN Declared => c <= b
  <2>1. ProgOK /\ isDefined(Declared, x, Scope(n))
    BY DEF IsDeclared, StackInv
  <2>. QED
    BY <2>1, FoundInnermost DEF DeclaredKey
<1>2. Name(n)' = Name(n) /\ Scope(n)' = Scope(n)
  BY DEF Name, Scope
<1>3. CASE KeepsDeclared
  BY <1>1, <1>2, <1>3 DEF KeepsDeclared, IsDeclared, DeclaredKey, DeclaredTy
<1>4. CASE Declares
  <2>1. /\ cur \in Node /\ cur # 1 /\ ProgOK /\ Undeclared
        /\ Declared' = tryDefine(Declared, Key(cur), Ty(1))
    BY <1>4, KidsExist, NoRoot DEF Declares, At, StackInv, Key, Home
  <2>2. /\ DOMAIN Declared' = DOMAIN Declared \cup {Key(cur)}
        /\ \A k \in DOMAIN Declared : Declared'[k] = Declared[k]
    BY <2>1 DEF tryDefine, Emplace
  <2>3. ASSUME NEW c \in Around(n), SymTabKey(x, c) \in DOMAIN Declared'
        PROVE  c <= b
    <3>1. CASE SymTabKey(x, c) \in DOMAIN Declared
      BY <1>1, <3>1
    <3>2. CASE SymTabKey(x, c) = Key(cur)
      <4>1. Name(cur) = x /\ Home(cur) = c
        BY <3>2 DEF Key, SymTabKey
      <4>2. b \in Node /\ c \in Node /\ (b < c <=> b \in Around(c))
        BY <1>1, <2>1, OuterAround
      <4>3. b \notin Around(cur)
        BY <1>1, <2>1, <4>1, FindsAround DEF Undeclared
      <4>4. b \notin Around(c)
        BY <2>1, <4>1, <4>3, HomeInnermost
      <4>5. Node \subseteq Nat
        BY Trees DEF StackInv, ProgOK, Node
      <4>. HIDE DEF b
      <4>. QED
        BY <4>2, <4>4, <4>5
    <3>. QED
      BY <2>2, <2>3, <3>1, <3>2
  <2>4. SymTabKey(x, b) \in DOMAIN Declared' /\ b \in Around(n)
    BY <1>1, <2>2
  <2>. HIDE DEF b
  <2>5. getDeclScopeFor(Declared', x, Scope(n)) = b /\ isDefined(Declared', x, Scope(n))
    BY <2>1, <2>3, <2>4, FindsAround
  <2>6. IsDeclared(n)' /\ DeclaredKey(n)' = SymTabKey(x, b)
    BY <1>2, <2>5 DEF IsDeclared, DeclaredKey, getDeclKeyFor
  <2>. QED
    BY <1>1, <2>2, <2>6 DEF DeclaredTy
<1>. QED
  BY <1>3, <1>4

\* What the visit method on top is past when it accepts the next kid in silence ...
PastOperand ==
    /\ Kind(cur) = "access" /\ done[cur] = 0 => Dimensioned(cur)
    /\ Kind(cur) = "access" /\ done[cur] > 0 => IndexChecked(cur, done[cur])
    /\ Kind(cur) \in {"if", "while"} /\ done[cur] = 1 => OperandTy(cur, 1) = IntTy
    /\ Kind(cur) = "assign" /\ done[cur] = 1 /\ isArrayTy(OperandTy(cur, 1)) =>
          Declares /\ ~containsKeyWithType(Declared, OperandTy(cur, 1))

\* ... and what it concludes when it returns in silence.
Concludes ==
    /\ ConformsTo(cur, res'[cur].ty, arrayTypes'[cur])
    /\ KeepsDeclared
    /\ Kind(cur) = "assign" => done[cur] = 2

LEMMA CheckConcludes ==
    ASSUME StackInv, CheckInv, CheckNext, Errors' = <<>>, cur # 0, FramesConform
    PROVE  \/ Halts
           \/ GoesOn /\ PastOperand
           \/ Leaves /\ AllAccepted /\ Concludes
<1>. DEFINE Shown == \/ Stays
                     \/ AcceptsKid /\ PastOperand
                     \/ Returns /\ Concludes
<1>1. /\ cur \in Node /\ cur \in OnStack /\ CheckTypeOK /\ Errors \in Seq(Node)
      /\ res \in [Node -> [ty : CheckedTypes, val : CheckedValues]]
      /\ arrayTypes \in [Node -> [contained : CheckedTypes, size : CheckedSizes]]
      /\ done[cur] \in 0..Len(Kids(cur))
      /\ DOMAIN Kids(cur) = 1..Len(Kids(cur)) /\ Len(Kids(cur)) \in Nat
  BY CheckFrame, KidsExist, NodeShape DEF CheckInv, CheckTypeOK, StackInv
<1>2. /\ \A i : Ty(i) = OperandTy(cur, i) /\ Val(i) = OperandVal(cur, i)
      /\ Undeclared <=> ~IsDeclared(cur)
      /\ AccessedTy = DeclaredTy(cur)
  BY DEF Ty, Val, OperandTy, OperandVal, Undeclared, IsDeclared, AccessedTy, DeclaredTy,
         DeclaredKey, getTypeFor
<1>3. ASSUME NEW b \in BOOLEAN, ReportIf(b) PROVE ~b
  BY <1>1, <1>3, Reported DEF ReportIf
<1>4. ASSUME Report(1) PROVE FALSE
  BY <1>1, <1>4, Reported
<1>5. ASSUME NEW r, Yield(r) PROVE Returns /\ res'[cur] = r
  BY <1>1, <1>5 DEF Yield, Returns
<1>6. \A i : i \in DOMAIN Kids(cur) /\ Accept(i) => AcceptsKid
  BY DEF AcceptsKid
<1>7. ASSUME NEW why \in Ends, Stop(why) PROVE Stays
  BY <1>7 DEF Stop, Stays
\* The ways to go on exclude one another.
<1>26. /\ AcceptsKid => cur' > cur /\ cur' \in Nat
       /\ Returns => cur' < cur /\ cur' \in Nat
       /\ cur \in Nat
  <2>1. cur \in Nat
    BY <1>1, Trees DEF StackInv, ProgOK, Node
  <2>2. AcceptsKid => cur' > cur /\ cur' \in Nat
    BY AcceptStack, Trees DEF AcceptsKid, StackInv, ProgOK, Node
  <2>3. Returns => cur' < cur /\ cur' \in Nat
    BY <2>1, ReturnStack
  <2>. QED
    BY <2>1, <2>2, <2>3
<1>27. (GoesOn => AcceptsKid) /\ (Leaves => Returns) /\ (Halts => cur' = cur) /\ (Stays => cur' = cur)
  BY DEF GoesOn, Leaves, Halts, Stays, AcceptsKid
<1>28. AcceptsKid => ~Returns /\ ~(cur' = cur)
  BY <1>26
<1>29. Returns => ~(cur' = cur)
  BY <1>26
<1>30. GoesOn \/ Leaves \/ Halts
  BY CheckFrame
<1>31. Leaves => AllAccepted
  BY DEF Leaves
<1>32. SUFFICES Shown
  BY <1>27, <1>28, <1>29, <1>30, <1>31 DEF Shown
<1>. HIDE DEF Shown
<1>8. CASE CheckOperand
  <2>1. Kind(cur) \notin {"access", "accessAssign"} /\ done[cur] + 1 \in DOMAIN Kids(cur)
        /\ (Kind(cur) \in {"assign", "if", "while"} => done[cur] = 0)
    BY <1>1, <1>8, CheckedOperandsExist DEF CheckOperand, CheckedOperands
  <2>2. AcceptsKid
    BY <1>6, <1>8, <2>1 DEF CheckOperand
  <2>3. PastOperand
    BY <2>1 DEF PastOperand
  <2>. QED
    BY <2>2, <2>3 DEF Shown
<1>9. CASE CheckNumber \/ CheckRead
  <2>1. Kind(cur) \in {"number", "read"} /\ Returns /\ res'[cur].ty = IntTy /\ KeepsDeclared
    BY <1>5, <1>9 DEF CheckNumber, CheckRead, ReadyToCheck, At, Result, KeepsDeclared
  <2>. QED
    BY <2>1 DEF Shown, Concludes, ConformsTo
<1>10. CASE CheckVariable
  <2>1. Kind(cur) = "variable" /\ KeepsDeclared /\ IsDeclared(cur)
    BY <1>2, <1>3, <1>10 DEF CheckVariable, ReadyToCheck, At, KeepsDeclared, Undeclared
  <2>2. Yield(Result(DeclaredTy(cur), Unknown))
    BY <1>10, <2>1 DEF CheckVariable, IsDeclared, DeclaredTy, DeclaredKey, getTypeFor
  <2>3. Returns /\ res'[cur].ty = DeclaredTy(cur)
    BY <1>5, <2>2 DEF Result
  <2>. QED
    BY <2>1, <2>3 DEF Shown, Concludes, ConformsTo
<1>11. CASE CheckUn
  <2>1. Kind(cur) = "un" /\ KeepsDeclared /\ Ty(1) = IntTy /\ DOMAIN Kids(cur) = 1..1
    BY <1>1, <1>3, <1>11, NodeShape DEF CheckUn, ReadyToCheck, At, KeepsDeclared, StackInv
  <2>2. Returns /\ res'[cur].ty = IntTy
    BY <1>5, <1>11, <2>1 DEF CheckUn, Result
  <2>3. \A i \in DOMAIN Kids(cur) : OperandTy(cur, i) = IntTy
    BY <1>2, <2>1
  <2>. QED
    BY <2>1, <2>2, <2>3 DEF Shown, Concludes, ConformsTo
<1>12. CASE CheckCalc \/ CheckLogic
  <2>1. Kind(cur) \in {"calc", "logic"} /\ DOMAIN Kids(cur) = 1..2
    BY <1>1, <1>12, NodeShape DEF CheckCalc, CheckLogic, ReadyToCheck, At, StackInv
  <2>2. CASE \E why \in Ends : Stop(why)
    BY <1>7, <2>2 DEF Shown
  <2>3. CASE ~\E why \in Ends : Stop(why)
    <3>1. ReportIf(~BothInt) /\ KeepsDeclared /\ \E r : Yield(r) /\ (BothInt => r.ty = IntTy)
      <4>1. CASE CheckLogic
        BY <4>1 DEF CheckLogic, KeepsDeclared, Result
      <4>2. CASE CheckCalc
        <5>1. ArithFault(Op(cur), Val(1)[1], Val(2)[1]) \in {"none", "divByZero", "trapped"}
          BY ArithFaults
        <5>2. ~(BothKnown /\ ArithFault(Op(cur), Val(1)[1], Val(2)[1]) # "none")
          BY <2>3, <4>2, <5>1 DEF CheckCalc, HaltCheck, Ends
        <5>3. /\ ReportIf(~BothInt) /\ KeepsDeclared
              /\ Yield(IF BothKnown
                       THEN Result(IntTy, Known(ArithValue(Op(cur), Val(1)[1], Val(2)[1])))
                       ELSE IF NoTy \in {Ty(1), Ty(2)} THEN NoResult
                       ELSE Result(Ty(1), Unknown))
          BY <4>2, <5>2 DEF CheckCalc, KeepsDeclared
        <5>4. BothInt => /\ ~(NoTy \in {Ty(1), Ty(2)})
                         /\ \A v : Result(IntTy, v).ty = IntTy /\ Result(Ty(1), v).ty = IntTy
          BY DEF BothInt, NoTy, IntTy, Result
        <5>5. BothKnown => BothInt
          BY DEF BothKnown
        <5>6. CASE BothKnown
          BY <5>3, <5>4, <5>5, <5>6
        <5>7. CASE ~BothKnown
          BY <5>3, <5>4, <5>7
        <5>. QED
          BY <5>6, <5>7
      <4>. QED
        BY <1>12, <4>1, <4>2
    <3>2. BothInt
      BY <1>3, <3>1 DEF BothInt
    <3>3. Returns /\ res'[cur].ty = IntTy
      BY <1>5, <3>1, <3>2
    <3>4. \A i \in DOMAIN Kids(cur) : OperandTy(cur, i) = IntTy
      BY <1>2, <2>1, <3>2 DEF BothInt
    <3>. QED
      BY <2>1, <3>1, <3>3, <3>4 DEF Shown, Concludes, ConformsTo
  <2>. QED
    BY <2>2, <2>3
<1>13. CASE CheckPrint \/ CheckArrayHolder
  <2>1. Kind(cur) \in {"print", "holder"} /\ Returns /\ res'[cur].ty = OperandTy(cur, 1)
        /\ KeepsDeclared
    BY <1>2, <1>5, <1>13 DEF CheckPrint, CheckArrayHolder, ReadyToCheck, At, Result, KeepsDeclared,
                              OperandTy
  <2>. QED
    BY <2>1 DEF Shown, Concludes, ConformsTo
<1>14. CASE CheckAssignedValue
  <2>1. Kind(cur) = "assign" /\ done[cur] = 1 /\ ~CopiesArray
    BY <1>4, <1>14 DEF CheckAssignedValue, ReadyToCheck, At, CheckedOperands
  <2>2. Accept(2) /\ ReportIf(~Undeclared /\ isArrayTy(Ty(1))) /\ UNCHANGED res
        /\ (Undeclared /\ Ty(1) # NoTy =>
               Declared' = tryDefine(Declared, SymTabKey(Name(cur), Scope(cur)[1]), Ty(1)))
    BY <1>14, <2>1 DEF CheckAssignedValue
  <2>3. 2 \in DOMAIN Kids(cur)
    BY <2>1, SecondKid
  <2>4. AcceptsKid
    BY <1>6, <2>2, <2>3
  <2>5. ASSUME isArrayTy(OperandTy(cur, 1))
        PROVE  Declares /\ ~containsKeyWithType(Declared, OperandTy(cur, 1))
    <3>1. isArrayTy(Ty(1)) /\ Ty(1) = OperandTy(cur, 1)
      BY <1>2, <2>5
    <3>2. Undeclared
      <4>1. (~Undeclared /\ isArrayTy(Ty(1))) \in BOOLEAN
        OBVIOUS
      <4>. QED
        BY <1>3, <2>2, <3>1, <4>1
    <3>3. ~containsKeyWithType(Declared, Ty(1))
      BY <2>1, <3>1, <3>2 DEF CopiesArray
    <3>4. Ty(1) # NoTy
      BY <3>1 DEF isArrayTy, NoTy
    <3>5. At("assign", 1)
      BY <1>14 DEF CheckAssignedValue, ReadyToCheck, At, CheckedOperands
    <3>. QED
      BY <2>2, <3>1, <3>2, <3>3, <3>4, <3>5 DEF Declares
  <2>6. PastOperand
    BY <2>1, <2>5 DEF PastOperand
  <2>. QED
    BY <2>4, <2>6 DEF Shown
<1>15. CASE CheckAssignment
  <2>1. Kind(cur) = "assign" /\ done[cur] = 2 /\ KeepsDeclared
    BY <1>15 DEF CheckAssignment, At, KeepsDeclared
  <2>2. Returns /\ res'[cur].ty = Ty(1)
    BY <1>5, <1>15 DEF CheckAssignment, Result
  <2>3. ~(Ty(1) = NoTy \/ Ty(2) = NoTy \/ TypeID(Ty(1)) # TypeID(Ty(2)))
    BY <1>3, <1>15 DEF CheckAssignment
  <2>. QED
    BY <1>2, <2>1, <2>2, <2>3 DEF Shown, Concludes, ConformsTo
<1>16. CASE CheckElement
  <2>1. Stop("assertFailed") /\ "assertFailed" \in Ends
    BY <1>16 DEF CheckElement, HaltCheck, Ends
  <2>. QED
    BY <1>7, <2>1 DEF Shown
<1>17. CASE CheckPresetArray
  <2>1. Kind(cur) = "preset" /\ KeepsDeclared /\ Yield(Result(cur, Unknown))
        /\ arrayTypes' = [arrayTypes EXCEPT ![cur] = [contained |-> IntTy, size |-> PresetSize]]
        /\ ReportIf(\E i \in DOMAIN Kids(cur) : InvalidElement(i))
    BY <1>17 DEF CheckPresetArray, ReadyToCheck, At, KeepsDeclared
  <2>2. \A i \in DOMAIN Kids(cur) : ~InvalidElement(i)
    BY <1>3, <2>1
  <2>3. Returns /\ res'[cur].ty = cur
    BY <1>5, <2>1 DEF Result
  <2>4. \A i \in DOMAIN Kids(cur) :
            /\ OperandTy(cur, i) # NoTy
            /\ isArrayTy(OperandTy(cur, i)) =>
                 /\ IsKnown(arrayTypes[OperandTy(cur, i)].size)
                 /\ ~isArrayTy(arrayTypes[OperandTy(cur, i)].contained)
    BY <1>2, <2>2 DEF InvalidElement
  <2>5. PICK f \in [0..Len(Kids(cur)) -> Nat] :
            /\ f[0] = 0
            /\ \A k \in 1..Len(Kids(cur)) : f[k] = (f[k - 1] + ElementSize(k)) % Word
            /\ PresetSize = Unknown \/ PresetSize = Known(f[Len(Kids(cur))])
    BY <1>1, PresetSizes
  <2>6. PresetSize # Unknown
    <3>1. ~\E i \in DOMAIN Kids(cur) : isArrayTy(Ty(i)) /\ isArrayTy(arrayTypes[Ty(i)].contained)
      BY <2>2 DEF InvalidElement
    <3>2. \A v : Known(v) # Unknown
      BY DEF Known, Unknown
    <3>. QED
      BY <3>1, <3>2 DEF PresetSize
  <2>7. \A k \in 1..Len(Kids(cur)) : ElementSize(k) = Weight(cur, k)
    BY <1>1, <1>2, <2>4 DEF ElementSize, Weight
  <2>8. IsSize(cur, f)
    BY <2>5, <2>7 DEF IsSize
  <2>9. arrayTypes'[cur] = [contained |-> IntTy, size |-> PresetSize]
    BY <1>1, <2>1
  <2>10. \E g \in [0..Len(Kids(cur)) -> Nat] :
            IsSize(cur, g) /\ arrayTypes'[cur].size = Known(g[Len(Kids(cur))])
    BY <2>5, <2>6, <2>8, <2>9
  <2>. QED
    BY <2>1, <2>3, <2>4, <2>9, <2>10 DEF Shown, Concludes, ConformsTo
<1>18. CASE CheckUniformArray
  <2>1. Kind(cur) = "uniform" /\ KeepsDeclared /\ Yield(Result(cur, Unknown))
        /\ ReportIf(isArrayTy(Ty(2)))
        /\ arrayTypes' =
              [arrayTypes EXCEPT ![cur] =
                  [ contained |-> Ty(1),
                    size |-> IF Ty(2) = IntTy /\ IsKnown(Val(2))
                             THEN Known(Unsigned(Val(2)[1])) ELSE Unknown ]]
    BY <1>18 DEF CheckUniformArray, ReadyToCheck, At, KeepsDeclared
  <2>2. ~isArrayTy(Ty(2))
    <3>1. isArrayTy(Ty(2)) \in BOOLEAN
      BY DEF isArrayTy
    <3>. QED
      BY <1>3, <2>1, <3>1
  <2>3. Returns /\ res'[cur].ty = cur
    BY <1>5, <2>1 DEF Result
  <2>4. arrayTypes'[cur] = [ contained |-> Ty(1),
                             size |-> IF Ty(2) = IntTy /\ IsKnown(Val(2))
                                      THEN Known(Unsigned(Val(2)[1])) ELSE Unknown ]
    BY <1>1, <2>1
  <2>5. IsKnown(arrayTypes'[cur].size) =>
            IsKnown(Val(2)) /\ arrayTypes'[cur].size = Known(Unsigned(Val(2)[1]))
    BY <2>4 DEF IsKnown
  <2>. QED
    BY <1>2, <2>1, <2>2, <2>3, <2>4, <2>5 DEF Shown, Concludes, ConformsTo
<1>19. CASE CheckArrayAccess
  <2>1. Kind(cur) = "access" /\ done[cur] = 0 /\ 1 \in DOMAIN Kids(cur)
    BY <1>1, <1>19, KidsExist DEF CheckArrayAccess, At
  <2>2. CASE ~Undeclared /\ isArrayTy(AccessedTy) /\ DimensionNullDeref(AccessedTy)
    <3>1. Stop("nullDeref") /\ "nullDeref" \in Ends
      BY <1>19, <2>2 DEF CheckArrayAccess, HaltCheck, Ends
    <3>. QED
      BY <1>7, <3>1 DEF Shown
  <2>3. CASE ~(~Undeclared /\ isArrayTy(AccessedTy) /\ DimensionNullDeref(AccessedTy))
    <3>1. ~Undeclared /\ isArrayTy(AccessedTy) /\ computeArrayDimension(AccessedTy) = Len(Kids(cur))
          /\ Accept(1)
      BY <1>4, <1>19, <2>3 DEF CheckArrayAccess
    <3>2. Dimensioned(cur)
      BY <1>2, <3>1 DEF Dimensioned, computeArrayDimension
    <3>3. PastOperand
      BY <2>1, <3>2 DEF PastOperand
    <3>. QED
      BY <1>6, <2>1, <3>1, <3>3 DEF Shown
  <2>. QED
    BY <2>2, <2>3
<1>20. CASE CheckRank
  <2>. DEFINE k == done[cur]
  <2>1. Kind(cur) = "access" /\ k > 0 /\ KeepsDeclared /\ ReportIf(isArrayTy(Ty(k)) \/ WrongIndex(k))
        /\ IF isArrayTy(Ty(k)) THEN Yield(NoResult)
           ELSE IF k < Len(Kids(cur)) THEN Accept(k + 1) /\ UNCHANGED res
           ELSE Yield(Result(IntTy, Unknown))
    BY <1>20 DEF CheckRank, KeepsDeclared
  <2>2. ~isArrayTy(Ty(k)) /\ ~WrongIndex(k)
    <3>1. (isArrayTy(Ty(k)) \/ WrongIndex(k)) \in BOOLEAN
      BY DEF isArrayTy
    <3>. QED
      BY <1>3, <2>1, <3>1
  <2>3. k \in DOMAIN Kids(cur) /\ k \in Nat
    BY <1>1, <2>1
  <2>4. IndexChecked(cur, k)
    <3>. DEFINE size == arrayTypes[Layers(DeclaredTy(cur))[k]].size
    <3>1. Ty(k) = IntTy /\ IsKnown(Val(k)) => ~(Val(k)[1] < 0) /\ (IsKnown(size) => ~(size[1] <= Val(k)[1]))
      BY <1>2, <2>2 DEF WrongIndex
    <3>2. Ty(k) = IntTy /\ IsKnown(Val(k)) => Val(k)[1] \in Int
      BY <1>1, <2>3, OperandResults DEF Int32
    <3>3. Ty(k) = IntTy /\ IsKnown(Val(k)) /\ IsKnown(size) => size[1] \in Int
      <4>1. ASSUME IsKnown(size) PROVE size[1] \in Int
        <5>1. /\ Dimensioned(cur)
          BY <1>1, <2>1, <2>3 DEF FramesConform
        <5>2. k \in 1..Len(Layers(DeclaredTy(cur)))
          BY <1>1, <2>3, <5>1 DEF Dimensioned
        <5>3. Created(DeclaredTy(cur))
          <6>1. DeclaredKey(cur) \in DOMAIN Declared
            BY <1>1, <5>1, FoundInnermost DEF Dimensioned, IsDeclared, DeclaredKey, StackInv
          <6>. QED
            BY <5>1, <6>1 DEF CheckInv, TypesCreated, Dimensioned, DeclaredTy
        <5>4. Layers(DeclaredTy(cur))[k] \in Node
          <6>1. Layers(DeclaredTy(cur)) \in Seq(Node)
            <7>1. DeclaredTy(cur) \in Node
              BY <5>3 DEF Created
            <7>. QED
              BY <5>3, <7>1, LayersOf DEF StackInv, CheckInv
          <6>. QED
            BY <5>2, <6>1
        <5>5. size \in CheckedSizes
          BY <1>1, <5>4
        <5>6. ASSUME NEW s \in CheckedSizes, s # Unknown PROVE s[1] \in Int
          <6>1. PICK v \in 0..(Word - 1) : s = Known(v)
            BY <5>6 DEF CheckedSizes
          <6>2. v \in Int
            BY <6>1, Width
          <6>. QED
            BY <6>1, <6>2 DEF Known
        <5>. QED
          BY <4>1, <5>5, <5>6 DEF IsKnown
      <4>. QED
        BY <4>1
    <3>. HIDE DEF k, size
    <3>4. Ty(k) = IntTy /\ IsKnown(Val(k)) => Val(k)[1] >= 0 /\ (IsKnown(size) => Val(k)[1] < size[1])
      BY <3>1, <3>2, <3>3
    <3>. QED
      BY <1>2, <2>2, <3>4 DEF IndexChecked, size
  <2>5. CASE k < Len(Kids(cur))
    <3>1. Accept(k + 1) /\ k + 1 \in DOMAIN Kids(cur)
      BY <1>1, <2>1, <2>2, <2>3, <2>5
    <3>2. PastOperand
      BY <2>1, <2>3, <2>4 DEF PastOperand
    <3>. QED
      BY <1>6, <3>1, <3>2 DEF Shown
  <2>6. CASE ~(k < Len(Kids(cur)))
    <3>1. Returns /\ res'[cur].ty = IntTy
      BY <1>5, <2>1, <2>2, <2>6 DEF Result
    <3>2. k = Len(Kids(cur))
      BY <1>1, <2>3, <2>6
    <3>3. Dimensioned(cur) /\ \A j \in 1..(k - 1) : IndexChecked(cur, j)
      BY <1>1, <2>1, <2>3 DEF FramesConform
    <3>4. \A j \in DOMAIN Kids(cur) : IndexChecked(cur, j)
      <4>. TAKE j \in DOMAIN Kids(cur)
      <4>1. j \in 1..(k - 1) \/ j = k
        BY <1>1, <3>2
      <4>. QED
        BY <2>4, <3>3, <4>1
    <3>. QED
      BY <2>1, <3>1, <3>3, <3>4 DEF Shown, Concludes, ConformsTo
  <2>. QED
    BY <2>5, <2>6
<1>21. CASE CheckAssignedElement \/ CheckElementValue
  <2>1. Kind(cur) = "accessAssign" /\ 1 \in DOMAIN Kids(cur) /\ 2 \in DOMAIN Kids(cur)
    BY <1>21, SecondKid DEF CheckAssignedElement, CheckElementValue, At
  <2>2. Accept(1) \/ Accept(2)
    BY <1>4, <1>21 DEF CheckAssignedElement, CheckElementValue
  <2>3. PastOperand
    BY <2>1 DEF PastOperand
  <2>. QED
    BY <1>6, <2>1, <2>2, <2>3 DEF Shown
<1>22. CASE CheckArrayAccessAssignment
  <2>. DEFINE a == IF isArrayTy(Ty(2)) THEN 1 ELSE 0
              b == IF NoTy \notin {Ty(1), Ty(2)} /\ TypeID(Ty(1)) # TypeID(Ty(2)) THEN 1 ELSE 0
  <2>1. Kind(cur) = "accessAssign" /\ KeepsDeclared /\ Report(a + b) /\ Yield(NoResult)
    BY <1>22 DEF CheckArrayAccessAssignment, At, KeepsDeclared
  <2>2. a \in {0, 1} /\ b \in {0, 1}
    OBVIOUS
  <2>3. a + b = 0 /\ a = 0
    <3>. HIDE DEF a, b
    <3>1. a + b \in 0..2
      BY <2>2
    <3>2. a + b = 0
      BY <1>1, <2>1, <3>1, Reported
    <3>. QED
      BY <2>2, <3>2
  <2>4. ~isArrayTy(Ty(2))
    BY <2>3
  <2>5. Returns /\ res'[cur].ty = NoTy
    BY <1>5, <2>1 DEF NoResult, Result
  <2>. QED
    BY <1>2, <2>1, <2>4, <2>5 DEF Shown, Concludes, ConformsTo
<1>23. CASE CheckCondition
  <2>1. Kind(cur) \in {"if", "while"} /\ done[cur] = 1 /\ 2 \in DOMAIN Kids(cur)
    BY <1>23, SecondKid DEF CheckCondition, At
  <2>2. Ty(1) = IntTy /\ Accept(2)
    BY <1>3, <1>23 DEF CheckCondition
  <2>3. PastOperand
    BY <1>2, <2>1, <2>2 DEF PastOperand
  <2>. QED
    BY <1>6, <2>1, <2>2, <2>3 DEF Shown
<1>24. CASE LeaveChecked
  <2>1. Return /\ Returns /\ KeepsDeclared /\ Kind(cur) \in {"if", "while", "root", "block"}
        /\ (Kind(cur) \in {"if", "while"} => done[cur] = 2)
    BY <1>24 DEF LeaveChecked, Returns, KeepsDeclared, At, ReadyToCheck, checkVars
  <2>2. Kind(cur) \in {"if", "while"} => OperandTy(cur, 1) = IntTy
    BY <1>1, <2>1 DEF FramesConform
  <2>. QED
    BY <2>1, <2>2 DEF Shown, Concludes, ConformsTo
<1>. QED
  BY <1>8, <1>9, <1>10, <1>11, <1>12, <1>13, <1>14, <1>15, <1>16, <1>17, <1>18, <1>19, <1>20,
     <1>21, <1>22, <1>23, <1>24 DEF CheckNext

\* What was concluded of a node's operands, of its name and of its indices stays so.
LEMMA ChecksKept ==
    ASSUME StackInv, CheckInv, CheckNext, cur # 0, NEW n \in Node
    PROVE  /\ \A i \in DOMAIN Kids(n) : Kid(n, i) # cur =>
                 OperandTy(n, i)' = OperandTy(n, i) /\ OperandVal(n, i)' = OperandVal(n, i)
           /\ IsDeclared(n) =>
                 /\ IsDeclared(n)' /\ DeclaredKey(n)' = DeclaredKey(n)
                 /\ DeclaredTy(n)' = DeclaredTy(n) /\ DeclaredKey(n) \in DOMAIN Declared
           /\ Dimensioned(n) => Dimensioned(n)'
           /\ \A j \in DOMAIN Kids(n) :
                 Kid(n, j) # cur /\ Dimensioned(n) /\ IndexChecked(n, j) => IndexChecked(n, j)'
           /\ \A i \in DOMAIN Kids(n) : isArrayTy(OperandTy(n, i)) =>
                 arrayTypes'[OperandTy(n, i)] = arrayTypes[OperandTy(n, i)]
           /\ \A t : TypeID(t)' = TypeID(t)
<1>1. /\ prog' = prog /\ Node' = Node /\ CheckEffect
      /\ \A k \in Node : k # cur => res'[k] = res[k] /\ arrayTypes'[k] = arrayTypes[k]
      /\ \A t : Created(t) => Created(t)' /\ arrayTypes'[t] = arrayTypes[t]
  BY CheckFrame
<1>2. \A i \in DOMAIN Kids(n) : Kid(n, i) \in Node
  BY NodeShape DEF StackInv
<1>3. \A i : Kid(n, i)' = Kid(n, i) /\ Kids(n)' = Kids(n)
  BY <1>1 DEF Kid, Kids
<1>4. \A i \in DOMAIN Kids(n) : Kid(n, i) # cur =>
          OperandTy(n, i)' = OperandTy(n, i) /\ OperandVal(n, i)' = OperandVal(n, i)
  BY <1>1, <1>2, <1>3 DEF OperandTy, OperandVal
<1>5. IsDeclared(n) =>
          /\ IsDeclared(n)' /\ DeclaredKey(n)' = DeclaredKey(n)
          /\ DeclaredTy(n)' = DeclaredTy(n) /\ DeclaredKey(n) \in DOMAIN Declared
  BY <1>1, DeclarationsKept DEF CheckEffect
<1>6. \A i \in DOMAIN Kids(n) : isArrayTy(OperandTy(n, i)) =>
          arrayTypes'[OperandTy(n, i)] = arrayTypes[OperandTy(n, i)]
  <2>. TAKE i \in DOMAIN Kids(n)
  <2>1. isArrayTy(OperandTy(n, i)) => Created(OperandTy(n, i))
    BY <1>2 DEF CheckInv, TypesCreated, OperandTy
  <2>. QED
    BY <1>1, <2>1
<1>7. ASSUME Dimensioned(n)
      PROVE  /\ Dimensioned(n)' /\ Created(DeclaredTy(n)) /\ DeclaredTy(n) \in Node
             /\ Layers(DeclaredTy(n))' = Layers(DeclaredTy(n))
             /\ DeclaredTy(n)' = DeclaredTy(n)
             /\ Layers(DeclaredTy(n)) \in Seq(Node)
             /\ \A j \in DOMAIN Kids(n) :
                   /\ j \in DOMAIN Layers(DeclaredTy(n))
                   /\ Created(Layers(DeclaredTy(n))[j])
  <2>1. IsDeclared(n) /\ isArrayTy(DeclaredTy(n)) /\ Len(Layers(DeclaredTy(n))) = Len(Kids(n))
    BY <1>7 DEF Dimensioned
  <2>2. Created(DeclaredTy(n)) /\ DeclaredTy(n) \in Node
    BY <1>5, <2>1 DEF CheckInv, TypesCreated, DeclaredTy, Created
  <2>3. Layers(DeclaredTy(n)) \in Seq(Node) /\ \A j \in DOMAIN Layers(DeclaredTy(n)) : Created(Layers(DeclaredTy(n))[j])
    BY <2>2, LayersOf DEF StackInv, CheckInv
  <2>4. ASSUME NEW t \in Node, Created(t) PROVE Layers(t)' = Layers(t)
    BY <2>4, LayersKept
  <2>5. \A t \in Node : Created(t) => Layers(t)' = Layers(t)
    BY <2>4
  <2>6. DeclaredTy(n)' = DeclaredTy(n)
    BY <1>5, <2>1
  <2>7. Layers(DeclaredTy(n))' = Layers(DeclaredTy(n))
    <3>1. PICK t \in Node : t = DeclaredTy(n) /\ Created(t)
      BY <2>2
    <3>2. Layers(t)' = Layers(t)
      BY <2>4, <3>1
    <3>3. t = DeclaredTy(n)'
      BY <2>6, <3>1
    <3>. QED
      BY <3>1, <3>2, <3>3
  <2>8. DOMAIN Kids(n) = DOMAIN Layers(DeclaredTy(n))
    BY <2>1, <2>3, NodeShape DEF StackInv
  <2>9. Dimensioned(n)'
    BY <1>3, <1>5, <2>1, <2>6, <2>7 DEF Dimensioned, isArrayTy
  <2>. QED
    BY <2>2, <2>3, <2>6, <2>7, <2>8, <2>9
<1>8. ASSUME NEW j \in DOMAIN Kids(n), Kid(n, j) # cur, Dimensioned(n), IndexChecked(n, j)
      PROVE  IndexChecked(n, j)'
  <2>1. OperandTy(n, j)' = OperandTy(n, j) /\ OperandVal(n, j)' = OperandVal(n, j)
    BY <1>4, <1>8
  <2>2. /\ DeclaredTy(n)' = DeclaredTy(n) /\ Layers(DeclaredTy(n))' = Layers(DeclaredTy(n))
        /\ Created(Layers(DeclaredTy(n))[j])
    BY <1>7, <1>8
  <2>3. arrayTypes'[Layers(DeclaredTy(n))[j]] = arrayTypes[Layers(DeclaredTy(n))[j]]
    BY <1>1, <2>2
  <2>. QED
    BY <1>8, <2>1, <2>2, <2>3 DEF IndexChecked
<1>9. \A t : TypeID(t)' = TypeID(t)
  BY <1>1 DEF TypeID, Kind
<1>. QED
  BY <1>4, <1>5, <1>6, <1>7, <1>8, <1>9

LEMMA ConformsKept ==
    ASSUME StackInv, CheckInv, CheckNext, cur # 0, NEW n \in Node,
           \A i \in DOMAIN Kids(n) : Kid(n, i) # cur,
           ConformsTo(n, res'[n].ty, arrayTypes'[n])
    PROVE  Conforms(n)'
<1>1. prog' = prog /\ Kind(n)' = Kind(n) /\ Kids(n)' = Kids(n)
  BY CheckFrame DEF Kind, Kids
<1>2. \A i \in DOMAIN Kids(n) : OperandTy(n, i)' = OperandTy(n, i) /\ OperandVal(n, i)' = OperandVal(n, i)
  BY ChecksKept
<1>3. \A i \in DOMAIN Kids(n) : isArrayTy(OperandTy(n, i)) =>
          arrayTypes'[OperandTy(n, i)] = arrayTypes[OperandTy(n, i)]
  BY ChecksKept
<1>4. /\ IsDeclared(n) => IsDeclared(n)' /\ DeclaredTy(n)' = DeclaredTy(n)
      /\ Dimensioned(n) => Dimensioned(n)'
      /\ \A j \in DOMAIN Kids(n) : Dimensioned(n) /\ IndexChecked(n, j) => IndexChecked(n, j)'
      /\ \A t : TypeID(t)' = TypeID(t)
  BY ChecksKept
<1>5. ASSUME NEW f, IsSize(n, f) PROVE IsSize(n, f)'
  <2>1. \A i \in DOMAIN Kids(n) : Weight(n, i)' = Weight(n, i)
    BY <1>2, <1>3 DEF Weight, isArrayTy
  <2>2. DOMAIN Kids(n) = 1..Len(Kids(n))
    BY NodeShape DEF StackInv
  <2>. QED
    BY <1>1, <1>5, <2>1, <2>2 DEF IsSize
<1>6. /\ Kind(n) \in {"un", "print", "holder", "calc", "logic", "assign", "uniform", "accessAssign", "if", "while"}
         => 1 \in DOMAIN Kids(n)
      /\ Kind(n) \in {"calc", "logic", "assign", "uniform", "accessAssign", "if", "while"}
         => 2 \in DOMAIN Kids(n)
  BY NodeShape DEF StackInv
<1>7. Kind(n) = "preset" => Conforms(n)'
  <2>1. SUFFICES ASSUME Kind(n) = "preset" PROVE Conforms(n)'
    OBVIOUS
  <2>2. /\ res'[n].ty = n /\ arrayTypes'[n].contained = IntTy
        /\ \A i \in DOMAIN Kids(n) :
                /\ OperandTy(n, i) # NoTy
                /\ isArrayTy(OperandTy(n, i)) =>
                     /\ IsKnown(arrayTypes[OperandTy(n, i)].size)
                     /\ ~isArrayTy(arrayTypes[OperandTy(n, i)].contained)
        /\ \E f \in [0..Len(Kids(n)) -> Nat] :
                IsSize(n, f) /\ arrayTypes'[n].size = Known(f[Len(Kids(n))])
    BY <2>1 DEF ConformsTo
  <2>3. PICK f \in [0..Len(Kids(n)) -> Nat] : IsSize(n, f) /\ arrayTypes'[n].size = Known(f[Len(Kids(n))])
    BY <2>2
  <2>4. IsSize(n, f)'
    BY <1>5, <2>3
  <2>5. \A i \in DOMAIN Kids(n) :
                /\ OperandTy(n, i)' # NoTy
                /\ isArrayTy(OperandTy(n, i)') =>
                     /\ IsKnown(arrayTypes'[OperandTy(n, i)'].size)
                     /\ ~isArrayTy(arrayTypes'[OperandTy(n, i)'].contained)
    BY <1>2, <1>3, <2>2
  <2>6. \E g \in [0..Len(Kids(n)) -> Nat] : IsSize(n, g)' /\ arrayTypes'[n].size = Known(g[Len(Kids(n))])
    BY <2>3, <2>4
  <2>. QED
    BY <1>1, <2>1, <2>2, <2>5, <2>6 DEF Conforms, ConformsTo, isArrayTy, Known, IsKnown
<1>8. Kind(n) \in {"number", "read", "variable", "un", "calc", "logic", "print", "holder"} => Conforms(n)'
  BY <1>1, <1>2, <1>4, <1>6 DEF Conforms, ConformsTo
<1>9. Kind(n) \in {"assign", "uniform", "accessAssign", "if", "while"} => Conforms(n)'
  BY <1>1, <1>2, <1>4, <1>6 DEF Conforms, ConformsTo, isArrayTy, Known, IsKnown
<1>10. Kind(n) = "access" => Conforms(n)'
  BY <1>1, <1>4 DEF Conforms, ConformsTo
<1>11. Kind(n) \notin {"preset", "number", "read", "variable", "un", "calc", "logic", "print", "holder",
                       "assign", "uniform", "accessAssign", "if", "while", "access"} => Conforms(n)'
  BY <1>1 DEF Conforms, ConformsTo
<1>. QED
  BY <1>7, <1>8, <1>9, <1>10, <1>11

\* The operands of what is done with, and those a frame is past, are not on top.
LEMMA OperandsBehind ==
    ASSUME StackInv, cur # 0, NEW n \in Node, NEW i \in DOMAIN Kids(n),
           Left(n) \/ n = cur \/ (n \in OnStack /\ i < done[n])
    PROVE  Kid(n, i) # cur
<1>1. prog[Kid(n, i)].parent = n /\ Kid(n, i) > n /\ Kid(n, i) \in Node /\ Kid(n, i) # 1
  BY NodeShape DEF StackInv
<1>2. SUFFICES ASSUME Kid(n, i) = cur, n # cur PROVE FALSE
  <2>1. Node \subseteq Nat
    BY Trees DEF StackInv, ProgOK, Node
  <2>. QED
    BY <1>1, <2>1
<1>3. cur \in OnStack \ {1} /\ prog[cur].parent = n
  BY <1>1, <1>2 DEF StackInv, StackIsPath
<1>4. n \in OnStack /\ done[n] \in DOMAIN Kids(n) /\ Kid(n, done[n]) = cur
  BY <1>3 DEF StackInv, StackIsPath, CallersAccepted
<1>5. ~Left(n)
  BY <1>4, OnStackNotLeft
<1>6. i = done[n]
  <2>1. \A k, j \in DOMAIN prog[n].kids : prog[n].kids[k] = prog[n].kids[j] => k = j
    BY KidsOfTree DEF StackInv, ProgOK, Node
  <2>. QED
    BY <1>2, <1>4, <2>1 DEF Kid, Kids
<1>7. i \in Nat
  BY NodeShape DEF StackInv
<1>. QED
  BY <1>2, <1>5, <1>6, <1>7

\* A visit that accepted everything but an else leaves nothing else unchecked.
LEMMA LeftChecked ==
    ASSUME StackInv, Returns, AllAccepted, NEW m \in Node, Left(m)', ~UnderElse(prog, m)
    PROVE  Left(m) \/ m = cur
<1>1. cur # 0 /\ cur \in Node /\ ProgOK
  BY ReturnStack DEF Returns, StackInv
<1>2. SUFFICES ASSUME NEW j \in DOMAIN Kids(cur), done[cur] < j, Kid(cur, j) \in Ancestors(prog, m)
               PROVE  FALSE
  BY SkippedByReturn
<1>3. Kind(cur) = "if" /\ j = 3
  <2>1. j \in Nat /\ done[cur] \in Nat
    BY <1>1, KidsExist, NodeShape
  <2>. QED
    BY <1>2, <2>1 DEF AllAccepted
<1>4. IsKid(prog, Kid(cur, j), "if", 3)
  <2>1. Kid(cur, j) # 1 /\ prog[Kid(cur, j)].parent = cur
    BY <1>1, <1>2, NodeShape
  <2>. QED
    BY <1>2, <1>3, <2>1 DEF IsKid, Kind, Kids, Kid
<1>. QED
  BY <1>2, <1>4 DEF UnderElse, Under

\* An assignment the checker is past comes before the use it is about to look up.
LEMMA DeclaringBefore ==
    ASSUME StackInv, cur # 0, done[cur] = 0, Kind(cur) \in {"variable", "access"},
           NEW m \in CheckedAssigns, Declaring(m)
    PROVE  Before(m, cur)
<1>1. /\ Node = Nodes(prog) /\ prog \in Programs /\ Node \subseteq Nat /\ cur \in Node /\ cur # 1
      /\ OnStack = Ancestors(prog, cur) /\ \A n \in OnStack : n <= cur
  BY StackIsAncestors, KidsExist, Trees DEF StackInv, StackIsPath, ProgOK, Node, Kind
<1>2. m \in Assigns /\ m \in Node /\ Kind(m) = "assign"
  BY DEF CheckedAssigns, Assigns
<1>3. m # cur
  BY <1>2
<1>4. CASE Left(m)
  <2>1. m < cur
    BY <1>2, <1>4, LeftIsBefore, FreshBelow
  <2>2. m \notin Ancestors(prog, cur)
    BY <1>1, <1>4, OnStackNotLeft
  <2>. QED
    BY <2>1, <2>2 DEF Before
<1>5. CASE m \in OnStack /\ done[m] = 2
  <2>1. Kid(m, 2) \in Ancestors(prog, cur)
    BY <1>3, <1>5, NextFrame
  <2>2. Kid(m, 2) \in Node /\ Kind(Kid(m, 2)) = "variable" /\ Len(Kids(Kid(m, 2))) = 0
        /\ DOMAIN Kids(Kid(m, 2)) = 1..Len(Kids(Kid(m, 2)))
    <3>1. Len(Kids(m)) = 2 /\ DOMAIN Kids(m) = 1..Len(Kids(m)) /\ Kind(Kid(m, 2)) = "variable"
          /\ \A i \in DOMAIN Kids(m) : Kid(m, i) \in Node
      BY <1>2, NodeShape DEF StackInv
    <3>. QED
      BY <3>1, NodeShape DEF StackInv
  <2>3. cur = Kid(m, 2)
    <3>1. ASSUME Kid(m, 2) # cur
          PROVE  \E i \in DOMAIN Kids(Kid(m, 2)) : TRUE
      BY <1>1, <2>1, <3>1, AncestorsPath DEF Kids
    <3>. QED
      BY <2>2, <3>1
  <2>4. m < cur
    BY <1>1, <1>2, <1>3, <1>5
  <2>. QED
    BY <2>3, <2>4 DEF Before
<1>. QED
  BY <1>4, <1>5 DEF Declaring

\* What a step that goes on keeps.
LEMMA ConformGoingOn ==
    ASSUME StackInv, CheckInv, CheckNext, cur # 0, TypesConform, GoesOn, PastOperand
    PROVE  TypesConform'
<1>. USE DEF TypesConform
<1>1. /\ prog' = prog /\ Node' = Node /\ ProgOK /\ Node \subseteq Nat /\ CheckEffect
      /\ cur \in Node /\ cur \in OnStack /\ ~Left(cur) /\ done[cur] \in Nat
      /\ done[cur] + 1 \in DOMAIN Kids(cur) /\ Accept(done[cur] + 1)
      /\ res' = res /\ arrayTypes' = arrayTypes
      /\ (KeepsDeclared \/ Declares)
  BY CheckFrame, KidsExist, Trees DEF GoesOn, StackInv, ProgOK, Node, CheckEffect
<1>2. /\ OnStack' = OnStack \cup {cur'} /\ cur' \in Node /\ cur' # cur /\ cur' \notin OnStack
      /\ \A n \in OnStack : n \in Node /\ (n # cur => done'[n] = done[n])
      /\ done'[cur] = done[cur] + 1 /\ done'[cur'] = 0
      /\ \A m \in Node : Left(m)' <=> Left(m)
  <2>1. \A n \in OnStack : n <= cur /\ n \in Node
    BY DEF StackInv, StackIsPath, OnStack
  <2>2. OnStack' = OnStack \cup {cur'} /\ cur' \in Node /\ cur' > cur
    BY <1>1, AcceptStack
  <2>3. done' = [done EXCEPT ![cur] = done[cur] + 1, ![cur'] = 0]
    BY <1>1 DEF Accept
  <2>4. done \in [Node -> Nat \cup {Idle}]
    BY DEF StackInv, StackTypeOK
  <2>5. \A m \in Node : Left(m)' <=> Left(m)
    BY <1>1, LeftAfterAccept
  <2>6. \A n \in OnStack : n \in Nat
    BY <1>1, <2>1
  <2>. QED
    BY <1>1, <2>1, <2>2, <2>3, <2>4, <2>5, <2>6
<1>3. /\ ArrayAssigns' = ArrayAssigns /\ CheckedAssigns' = CheckedAssigns
      /\ \A m : Key(m)' = Key(m) /\ Home(m)' = Home(m) /\ Kind(m)' = Kind(m)
      /\ \A n, i : OperandTy(n, i)' = OperandTy(n, i) /\ Kid(n, i)' = Kid(n, i)
      /\ \A l, n : Before(l, n)' <=> Before(l, n)
      /\ \A n : Kids(n)' = Kids(n) /\ Scope(n)' = Scope(n) /\ Name(n)' = Name(n)
  BY <1>1 DEF ArrayAssigns, CheckedAssigns, Assigns, Key, Home, Name, Scope, Kind, Before, Kid, Kids, OperandTy
<1>4. ASSUME NEW n \in Node, NEW j \in DOMAIN Kids(n), Left(n) \/ n = cur \/ (n \in OnStack /\ j < done[n])
      PROVE  Kid(n, j) # cur
  BY <1>4, OperandsBehind
<1>5. Conforming'
  <2>1. ASSUME NEW n \in Node, Left(n), ~UnderElse(prog, n) PROVE Conforms(n)'
    <3>1. \A i \in DOMAIN Kids(n) : Kid(n, i) # cur
      BY <1>4, <2>1
    <3>2. ConformsTo(n, res'[n].ty, arrayTypes'[n])
      BY <1>1, <2>1 DEF Conforming, Conforms
    <3>. QED
      BY <3>1, <3>2, ConformsKept
  <2>. QED
    BY <1>1, <1>2, <2>1 DEF Conforming
<1>6. ASSUME NEW n \in Node
      PROVE  /\ IsDeclared(n) => DeclaredKey(n)' = DeclaredKey(n) /\ DeclaredKey(n) \in DOMAIN Declared
             /\ Dimensioned(n) => Dimensioned(n)'
             /\ \A j \in DOMAIN Kids(n) :
                   Kid(n, j) # cur /\ Dimensioned(n) /\ IndexChecked(n, j) => IndexChecked(n, j)'
  BY ChecksKept
<1>7. FramesConform'
  <2>1. ASSUME NEW n \in OnStack, Kind(n) = "access", done'[n] > 0
        PROVE  Dimensioned(n) /\ \A j \in 1..(done'[n] - 1) : IndexChecked(n, j)
    <3>1. CASE n # cur
      BY <1>2, <2>1, <3>1 DEF FramesConform
    <3>2. CASE n = cur /\ done[cur] = 0
      <4>1. Dimensioned(n) /\ 1..(done'[n] - 1) = {}
        BY <1>1, <1>2, <2>1, <3>2 DEF PastOperand
      <4>. QED
        BY <4>1
    <3>3. CASE n = cur /\ done[cur] > 0
      <4>1. Dimensioned(n) /\ \A j \in 1..(done[n] - 1) : IndexChecked(n, j)
        BY <2>1, <3>3 DEF FramesConform
      <4>2. IndexChecked(n, done[n])
        BY <2>1, <3>3 DEF PastOperand
      <4>3. \A j \in 1..(done'[n] - 1) : j \in 1..(done[n] - 1) \/ j = done[n]
        BY <1>1, <1>2, <3>3
      <4>. QED
        BY <4>1, <4>2, <4>3
    <3>. QED
      BY <1>1, <3>1, <3>2, <3>3
  <2>2. ASSUME NEW n \in OnStack, Kind(n) = "access", done'[n] > 0
        PROVE  Dimensioned(n)' /\ \A j \in 1..(done'[n] - 1) : IndexChecked(n, j)'
    <3>1. n \in Node /\ done[n] \in Nat /\ done[n] \in 0..Len(Kids(n)) /\ Len(Kids(n)) \in Nat
          /\ DOMAIN Kids(n) = 1..Len(Kids(n))
      BY <1>2, NodeShape DEF StackInv, WithinKids
    <3>2. ASSUME NEW j \in 1..(done'[n] - 1) PROVE IndexChecked(n, j)'
      <4>1. j \in DOMAIN Kids(n) /\ (n = cur \/ j < done[n])
        BY <1>1, <1>2, <2>2, <3>1, <3>2
      <4>2. Kid(n, j) # cur
        BY <1>4, <3>1, <4>1
      <4>. QED
        BY <1>6, <2>1, <2>2, <3>1, <3>2, <4>1, <4>2
    <3>. QED
      BY <1>6, <2>1, <2>2, <3>1, <3>2
  <2>3. ASSUME NEW n \in OnStack, Kind(n) \in {"if", "while"}, done'[n] = 2
        PROVE  OperandTy(n, 1) = IntTy
    <3>1. CASE n # cur
      BY <1>2, <2>3, <3>1 DEF FramesConform
    <3>2. CASE n = cur
      <4>1. done[cur] = 1
        BY <1>1, <1>2, <2>3, <3>2
      <4>. QED
        BY <2>3, <3>2, <4>1 DEF PastOperand
    <3>. QED
      BY <3>1, <3>2
  <2>. QED
    BY <1>2, <1>3, <2>2, <2>3 DEF FramesConform
\* What the step declares.
<1>8. ASSUME NEW m \in CheckedAssigns, Declaring(m)'
      PROVE  Declaring(m) \/ (m = cur /\ done[cur] = 1)
  <2>1. m \in Node
    BY DEF CheckedAssigns, Assigns
  <2>. QED
    BY <1>1, <1>2, <1>8, <2>1 DEF Declaring
<1>9. ASSUME NEW m \in CheckedAssigns, Declaring(m) PROVE Declaring(m)'
  <2>1. m \in Node /\ Kind(m) = "assign"
    BY DEF CheckedAssigns, Assigns
  <2>2. m = cur => done[cur] # 2
    <3>1. m = cur => Len(Kids(cur)) = 2 /\ DOMAIN Kids(cur) = 1..2
      BY <2>1, NodeShape DEF StackInv
    <3>. QED
      BY <1>1, <3>1
  <2>. QED
    BY <1>1, <1>2, <1>9, <2>1, <2>2 DEF Declaring
<1>10. /\ \A k \in DOMAIN Declared : k \in DOMAIN Declared' /\ Declared'[k] = Declared[k]
       /\ \A k \in DOMAIN Declared' \ DOMAIN Declared :
             Declares /\ k = Key(cur) /\ Declared'[k] = OperandTy(cur, 1)
       /\ Declares => /\ Key(cur) \in DOMAIN Declared' \ DOMAIN Declared
                      /\ Declared'[Key(cur)] = OperandTy(cur, 1)
                      /\ Kind(cur) = "assign" /\ done[cur] = 1
  <2>1. CASE KeepsDeclared /\ ~Declares
    BY <2>1 DEF KeepsDeclared
  <2>2. CASE Declares
    <3>1. Declared' = tryDefine(Declared, Key(cur), OperandTy(cur, 1)) /\ Undeclared
          /\ Kind(cur) = "assign" /\ done[cur] = 1
      BY <2>2 DEF Declares, Key, Home, OperandTy, Ty, At
    <3>2. Key(cur) \notin DOMAIN Declared
      <4>1. cur # 1
        BY <3>1, <1>1, NoRoot
      <4>2. Home(cur) \in Around(cur)
        BY <1>1, <4>1, HomeInnermost
      <4>. QED
        BY <1>1, <3>1, <4>2, FindsAround DEF Undeclared, Key
    <3>3. /\ DOMAIN Declared' = DOMAIN Declared \cup {Key(cur)}
          /\ \A k \in DOMAIN Declared : Declared'[k] = Declared[k]
          /\ Declared'[Key(cur)] = OperandTy(cur, 1)
      BY <3>1, <3>2 DEF tryDefine, Emplace
    <3>. QED
      BY <2>2, <3>1, <3>2, <3>3
  <2>. QED
    BY <1>1, <2>1, <2>2
<1>11. ASSUME cur \in ArrayAssigns, done[cur] = 1
       PROVE  /\ Declares /\ \A k \in DOMAIN Declared : Declared[k] # OperandTy(cur, 1)
              /\ Home(OperandTy(cur, 1)) = Home(cur)
  <2>1. Kind(cur) = "assign" /\ isArrayTy(OperandTy(cur, 1))
    BY <1>11 DEF ArrayAssigns, CheckedAssigns, Assigns
  <2>2. Declares /\ ~containsKeyWithType(Declared, OperandTy(cur, 1))
    BY <1>11, <2>1 DEF PastOperand
  <2>3. \A k \in DOMAIN Declared : Declared[k] # OperandTy(cur, 1)
    BY <2>2 DEF containsKeyWithType
  <2>4. 1 \in DOMAIN Kids(cur) /\ Kid(cur, 1) \in Node /\ Kind(Kid(cur, 1)) \in ExpressionKinds
    <3>1. Kind(cur) \in ExpressionKinds
      BY <2>1 DEF ExpressionKinds, Arity
    <3>. QED
      BY <1>1, <2>1, <3>1, NodeShape
  <2>. DEFINE t == OperandTy(cur, 1)
  <2>5. t \in Node /\ Kid(cur, 1) \in Ancestors(prog, t)
    <3>1. isArrayTy(res[Kid(cur, 1)].ty) /\ t = res[Kid(cur, 1)].ty
      BY <2>1 DEF OperandTy
    <3>2. Created(t)
      BY <2>4, <3>1 DEF CheckInv, TypesCreated
    <3>. QED
      BY <2>3, <2>4, <3>1, <3>2 DEF ArraysComeFrom, Created
  <2>6. Scope(t) = Scope(Kid(cur, 1))
    BY <1>1, <2>4, <2>5, BelowExpressions
  <2>7. Scope(Kid(cur, 1)) = Scope(cur)
    <3>1. Kind(cur) \in ExpressionKinds
      BY <2>1 DEF ExpressionKinds, Arity
    <3>2. cur \in Ancestors(prog, Kid(cur, 1))
      <4>1. prog[Kid(cur, 1)].parent = cur
        BY <1>1, <2>4, NodeShape
      <4>. QED
        BY <1>1, <2>4, <4>1, AncestorsOf, AncestorsPath DEF ProgOK, Node
    <3>. QED
      BY <1>1, <2>4, <3>1, <3>2, BelowExpressions
  <2>. QED
    BY <2>2, <2>3, <2>6, <2>7 DEF Home
<1>12. ArraysDeclaredOnce'
  <2>1. ASSUME NEW m \in ArrayAssigns, Declaring(m)'
        PROVE  /\ Key(m) \in DOMAIN Declared' /\ Declared'[Key(m)] = OperandTy(m, 1)
               /\ Home(OperandTy(m, 1)) = Home(m)
               /\ \/ Declaring(m)
                  \/ Declares /\ m = cur /\ \A k \in DOMAIN Declared : Declared[k] # OperandTy(m, 1)
    <3>1. m \in CheckedAssigns
      BY DEF ArrayAssigns
    <3>2. CASE Declaring(m)
      BY <1>10, <3>2 DEF ArraysDeclaredOnce
    <3>3. CASE m = cur /\ done[cur] = 1
      BY <1>10, <1>11, <3>3
    <3>. QED
      BY <1>8, <2>1, <3>1, <3>2, <3>3
  <2>2. ASSUME NEW m \in ArrayAssigns, NEW l \in ArrayAssigns, Declaring(m)', Declaring(l)',
               OperandTy(l, 1) = OperandTy(m, 1)
        PROVE  l = m
    <3>1. CASE Declaring(m) /\ Declaring(l)
      BY <2>2, <3>1 DEF ArraysDeclaredOnce
    <3>2. CASE Declaring(m) /\ ~Declaring(l)
      <4>1. Key(m) \in DOMAIN Declared /\ Declared[Key(m)] = OperandTy(m, 1)
        BY <3>2 DEF ArraysDeclaredOnce
      <4>. QED
        BY <2>1, <2>2, <3>2, <4>1
    <3>3. CASE ~Declaring(m) /\ Declaring(l)
      <4>1. Key(l) \in DOMAIN Declared /\ Declared[Key(l)] = OperandTy(l, 1)
        BY <3>3 DEF ArraysDeclaredOnce
      <4>. QED
        BY <2>1, <2>2, <3>3, <4>1
    <3>4. CASE ~Declaring(m) /\ ~Declaring(l)
      BY <2>1, <2>2, <3>4
    <3>. QED
      BY <3>1, <3>2, <3>3, <3>4
  <2>3. \A t : Home(t)' = Home(t)
    BY <1>3
  <2>. QED
    BY <1>3, <2>1, <2>2, <2>3 DEF ArraysDeclaredOnce
<1>13. ArraysHaveAssigns'
  <2>1. ASSUME NEW k \in DOMAIN Declared', isArrayTy(Declared'[k])
        PROVE  \E m \in ArrayAssigns : Declaring(m)' /\ Key(m) = k
    <3>1. CASE k \in DOMAIN Declared
      <4>1. PICK m \in ArrayAssigns : Declaring(m) /\ Key(m) = k
        BY <1>10, <2>1, <3>1 DEF ArraysHaveAssigns
      <4>. QED
        BY <1>9, <4>1 DEF ArrayAssigns
    <3>2. CASE k \notin DOMAIN Declared
      <4>1. Declares /\ k = Key(cur) /\ isArrayTy(OperandTy(cur, 1)) /\ Kind(cur) = "assign" /\ done[cur] = 1
        BY <1>10, <2>1, <3>2
      <4>2. cur \in ArrayAssigns
        BY <1>1, <4>1 DEF ArrayAssigns, CheckedAssigns, Assigns, CheckInv, NotElse
      <4>3. PICK m \in ArrayAssigns : m = cur
        BY <4>2
      <4>4. done'[m] = 2 /\ m \in OnStack'
        BY <1>1, <1>2, <4>1, <4>3
      <4>5. Declaring(m)'
        BY <4>4 DEF Declaring
      <4>. QED
        BY <4>1, <4>3, <4>5
    <3>. QED
      BY <3>1, <3>2
  <2>. QED
    BY <1>3, <2>1 DEF ArraysHaveAssigns, isArrayTy
<1>14. ArraysComeFrom'
  BY <1>1, <1>10 DEF ArraysComeFrom, isArrayTy
<1>15. ArraysBeforeUse'
  <2>1. SUFFICES ASSUME NEW n \in Node, Kind(n) \in {"variable", "access"}, ~UnderElse(prog, n),
                        Left(n) \/ (n \in OnStack' /\ done'[n] > 0),
                        NEW m \in ArrayAssigns, Declaring(m)', Key(m) = DeclaredKey(n)'
                 PROVE  Before(m, n)
    BY <1>1, <1>2, <1>3 DEF ArraysBeforeUse
  <2>2. m \in CheckedAssigns /\ Kind(m) = "assign"
    BY DEF ArrayAssigns, CheckedAssigns, Assigns
  <2>3. IsDeclared(n)
    <3>1. CASE Left(n)
      BY <2>1, <3>1 DEF Conforming, Conforms, ConformsTo, Dimensioned
    <3>2. CASE ~Left(n)
      <4>1. n \in OnStack /\ done'[n] > 0
        BY <1>2, <2>1, <3>2
      <4>2. Kind(n) = "access"
        <5>1. Kind(n) = "variable" => Len(Kids(n)) = 0
          BY NodeShape DEF StackInv
        <5>2. done[n] \in 0..Len(Kids(n)) /\ (n = cur => Len(Kids(n)) > 0)
          BY <1>1, <4>1, NodeShape DEF StackInv, WithinKids
        <5>. QED
          BY <1>2, <2>1, <4>1, <5>1, <5>2
      <4>3. CASE n # cur \/ done[cur] > 0
        <5>1. done[n] > 0
          BY <1>2, <4>1, <4>3
        <5>. QED
          BY <4>1, <4>2, <5>1 DEF FramesConform, Dimensioned
      <4>4. CASE n = cur /\ done[cur] = 0
        BY <4>2, <4>4 DEF PastOperand, Dimensioned
      <4>. QED
        BY <1>1, <4>3, <4>4
    <3>. QED
      BY <3>1, <3>2
  <2>4. Key(m) = DeclaredKey(n) /\ Key(m) \in DOMAIN Declared
    BY <1>6, <2>1, <2>3
  <2>5. Declaring(m)
    <3>1. CASE m = cur /\ done[cur] = 1
      <4>1. Declares
        BY <1>11, <3>1
      <4>. QED
        BY <1>10, <2>4, <3>1, <4>1
    <3>. QED
      BY <1>8, <2>1, <2>2, <3>1
  <2>6. CASE Left(n) \/ (n \in OnStack /\ done[n] > 0)
    BY <2>1, <2>4, <2>5, <2>6 DEF ArraysBeforeUse
  <2>7. CASE ~(Left(n) \/ (n \in OnStack /\ done[n] > 0))
    <3>1. n = cur /\ done[cur] = 0
      BY <1>1, <1>2, <2>1, <2>7
    <3>. QED
      BY <2>1, <2>2, <2>5, <3>1, DeclaringBefore
  <2>. QED
    BY <2>6, <2>7
<1>. QED
  BY <1>5, <1>7, <1>12, <1>13, <1>14, <1>15

\* What a step that returns keeps.
LEMMA ConformReturning ==
    ASSUME StackInv, CheckInv, CheckNext, cur # 0, TypesConform, Leaves, AllAccepted, Concludes
    PROVE  TypesConform'
<1>. USE DEF TypesConform
<1>1. /\ prog' = prog /\ Node' = Node /\ ProgOK /\ Node \subseteq Nat /\ CheckEffect
      /\ cur \in Node /\ cur \in OnStack /\ ~Left(cur) /\ ~UnderElse(prog, cur)
      /\ Returns /\ Declared' = Declared
      /\ res[cur] = NoResult
      /\ \A k \in Node : k # cur => res'[k] = res[k]
  BY CheckFrame, Trees DEF Leaves, Concludes, KeepsDeclared, StackInv, ProgOK, Node
<1>2. /\ OnStack' = OnStack \ {cur}
      /\ \A n \in OnStack' : n \in Node /\ n # cur /\ done'[n] = done[n] /\ n \in OnStack
      /\ \A m \in Node : Left(m) => Left(m)'
      /\ \A m \in Node : m = cur => Left(m)'
  <2>1. OnStack' = OnStack \ {cur} /\ \A m \in Node : (Left(m) => Left(m)') /\ (m = cur => Left(m)')
    BY <1>1, ReturnStack, LeftAfterReturn
  <2>2. done' = [done EXCEPT ![cur] = Idle] /\ done \in [Node -> Nat \cup {Idle}]
    BY <1>1 DEF Returns, Return, StackInv, StackTypeOK
  <2>. QED
    BY <2>1, <2>2 DEF OnStack
<1>3. ASSUME NEW m \in Node, Left(m)', ~UnderElse(prog, m) PROVE Left(m) \/ m = cur
  BY <1>1, <1>3, LeftChecked
<1>4. /\ CheckedAssigns' = CheckedAssigns
      /\ \A m : Key(m)' = Key(m) /\ Home(m)' = Home(m) /\ Kind(m)' = Kind(m)
      /\ \A n, i : Kid(n, i)' = Kid(n, i)
      /\ \A l, n : Before(l, n)' <=> Before(l, n)
      /\ \A n : Kids(n)' = Kids(n) /\ Scope(n)' = Scope(n) /\ Name(n)' = Name(n)
                /\ DeclaredKey(n)' = DeclaredKey(n)
  BY <1>1 DEF CheckedAssigns, Assigns, Key, Home, Name, Scope, Kind, Before, Kid, Kids, DeclaredKey
<1>5. ASSUME NEW n \in Node, NEW j \in DOMAIN Kids(n), Left(n) \/ n = cur \/ (n \in OnStack /\ j < done[n])
      PROVE  Kid(n, j) # cur /\ OperandTy(n, j)' = OperandTy(n, j)
  <2>1. Kid(n, j) # cur
    BY <1>1, <1>5, OperandsBehind
  <2>. QED
    BY <2>1, ChecksKept
<1>6. Conforming'
  <2>1. ASSUME NEW n \in Node, Left(n)', ~UnderElse(prog, n) PROVE Conforms(n)'
    <3>1. Left(n) \/ n = cur
      BY <1>3, <2>1
    <3>2. \A i \in DOMAIN Kids(n) : Kid(n, i) # cur
      BY <1>5, <3>1
    <3>3. ConformsTo(n, res'[n].ty, arrayTypes'[n])
      <4>1. CASE n = cur
        BY <4>1 DEF Concludes
      <4>2. CASE n # cur
        <5>1. res'[n] = res[n] /\ arrayTypes'[n] = arrayTypes[n] /\ Left(n)
          BY <3>1, <4>2, CheckFrame
        <5>. QED
          BY <2>1, <5>1 DEF Conforming, Conforms
      <4>. QED
        BY <4>1, <4>2
    <3>. QED
      BY <1>1, <3>2, <3>3, ConformsKept
  <2>. QED
    BY <1>1, <2>1 DEF Conforming
<1>7. FramesConform'
  <2>1. ASSUME NEW n \in OnStack', Kind(n) = "access", done'[n] > 0
        PROVE  Dimensioned(n)' /\ \A j \in 1..(done'[n] - 1) : IndexChecked(n, j)'
    <3>1. /\ n \in Node /\ n \in OnStack /\ done'[n] = done[n] /\ done[n] \in 0..Len(Kids(n))
          /\ Len(Kids(n)) \in Nat /\ DOMAIN Kids(n) = 1..Len(Kids(n))
      BY <1>2, NodeShape DEF StackInv, WithinKids
    <3>2. Dimensioned(n) /\ \A j \in 1..(done[n] - 1) : IndexChecked(n, j)
      BY <2>1, <3>1 DEF FramesConform
    <3>3. ASSUME NEW j \in 1..(done'[n] - 1) PROVE IndexChecked(n, j)'
      <4>1. j \in DOMAIN Kids(n) /\ j < done[n]
        BY <3>1, <3>3
      <4>2. Kid(n, j) # cur
        BY <1>5, <3>1, <4>1
      <4>. QED
        BY <1>1, <3>1, <3>2, <3>3, <4>1, <4>2, ChecksKept
    <3>. QED
      BY <1>1, <3>1, <3>2, <3>3, ChecksKept
  <2>2. ASSUME NEW n \in OnStack', Kind(n) \in {"if", "while"}, done'[n] = 2
        PROVE  OperandTy(n, 1)' = IntTy
    <3>1. n \in Node /\ n \in OnStack /\ done[n] = 2 /\ 1 \in DOMAIN Kids(n)
      BY <1>2, <2>2, NodeShape DEF StackInv
    <3>. QED
      BY <1>5, <2>2, <3>1 DEF FramesConform
  <2>. QED
    BY <1>4, <2>1, <2>2 DEF FramesConform
\* The assignments the checker is past are the same.
<1>8. ASSUME NEW m \in CheckedAssigns
      PROVE  /\ Declaring(m)' <=> Declaring(m)
             /\ Declaring(m) => OperandTy(m, 1)' = OperandTy(m, 1)
  <2>1. m \in Node /\ Kind(m) = "assign" /\ ~UnderElse(prog, m) /\ 1 \in DOMAIN Kids(m)
    <3>1. m \in Node /\ Kind(m) = "assign" /\ ~UnderElse(prog, m)
      BY DEF CheckedAssigns, Assigns
    <3>. QED
      BY <3>1, NodeShape DEF StackInv
  <2>2. m = cur => Declaring(m)
    BY <1>1, <2>1 DEF Concludes, Declaring
  <2>3. Declaring(m) => Declaring(m)'
    BY <1>2, <2>1 DEF Declaring
  <2>4. Declaring(m)' => Declaring(m)
    BY <1>2, <1>3, <2>1, <2>2 DEF Declaring
  <2>5. Declaring(m) => OperandTy(m, 1)' = OperandTy(m, 1)
    <3>1. Declaring(m) => Left(m) \/ (m \in OnStack /\ 1 < done[m])
      BY DEF Declaring
    <3>. QED
      BY <1>5, <2>1, <3>1
  <2>. QED
    BY <2>3, <2>4, <2>5
<1>9. \A m \in CheckedAssigns : Declaring(m) => (m \in ArrayAssigns' <=> m \in ArrayAssigns)
  BY <1>4, <1>8 DEF ArrayAssigns, isArrayTy
<1>10. ArraysDeclaredOnce'
  <2>1. ASSUME NEW m \in ArrayAssigns', Declaring(m)'
        PROVE  m \in ArrayAssigns /\ Declaring(m) /\ OperandTy(m, 1)' = OperandTy(m, 1)
    <3>1. m \in CheckedAssigns
      BY <1>4 DEF ArrayAssigns
    <3>. QED
      BY <1>8, <1>9, <2>1, <3>1
  <2>2. ASSUME NEW m \in ArrayAssigns', Declaring(m)'
        PROVE  /\ Key(m)' \in DOMAIN Declared' /\ Declared'[Key(m)'] = OperandTy(m, 1)'
               /\ Home(OperandTy(m, 1))' = Home(m)'
    <3>1. m \in ArrayAssigns /\ Declaring(m) /\ OperandTy(m, 1)' = OperandTy(m, 1)
      BY <2>1, <2>2
    <3>2. Home(OperandTy(m, 1))' = Home(OperandTy(m, 1)) /\ Home(m)' = Home(m)
      BY <1>1, <3>1 DEF Home, Scope
    <3>. QED
      BY <1>1, <1>4, <3>1, <3>2 DEF ArraysDeclaredOnce
  <2>3. ASSUME NEW m \in ArrayAssigns', Declaring(m)', NEW l \in ArrayAssigns', Declaring(l)',
               OperandTy(l, 1)' = OperandTy(m, 1)'
        PROVE  l = m
    <3>1. m \in ArrayAssigns /\ Declaring(m) /\ OperandTy(m, 1)' = OperandTy(m, 1)
      BY <2>1, <2>3
    <3>2. l \in ArrayAssigns /\ Declaring(l) /\ OperandTy(l, 1)' = OperandTy(l, 1)
      BY <2>1, <2>3
    <3>. QED
      BY <2>3, <3>1, <3>2 DEF ArraysDeclaredOnce
  <2>. QED
    BY <2>2, <2>3 DEF ArraysDeclaredOnce
<1>11. ArraysHaveAssigns'
  <2>1. ASSUME NEW k \in DOMAIN Declared, isArrayTy(Declared[k])
        PROVE  \E m \in ArrayAssigns' : Declaring(m)' /\ Key(m) = k
    <3>1. PICK m \in ArrayAssigns : Declaring(m) /\ Key(m) = k
      BY <2>1 DEF ArraysHaveAssigns
    <3>. QED
      BY <1>8, <1>9, <3>1 DEF ArrayAssigns
  <2>. QED
    BY <1>1, <1>4, <2>1 DEF ArraysHaveAssigns, isArrayTy
<1>12. ASSUME NEW n \in Node, isArrayTy(res'[n].ty)
       PROVE  (\E k \in DOMAIN Declared : Declared[k] = res'[n].ty) \/ n \in Ancestors(prog, res'[n].ty)
  <2>1. CASE n # cur
    <3>1. res'[n] = res[n]
      BY <1>1, <2>1
    <3>. QED
      BY <1>12, <3>1 DEF ArraysComeFrom
  <2>2. CASE n = cur
    <3>. DEFINE r == res'[cur]
    <3>1. isArrayTy(r.ty)
      BY <1>12, <2>2
    <3>2. YieldsResult /\ PossibleResult(r)
      <4>1. NoResult.ty = NoTy /\ ~isArrayTy(NoTy)
        BY DEF NoResult, Result, isArrayTy, NoTy
      <4>2. ~UNCHANGED res
        BY <1>1, <3>1, <4>1
      <4>3. PICK q : Yield(q) /\ PossibleResult(q)
        BY <1>1, <4>2 DEF CheckEffect, KeepsResults, YieldsResult
      <4>4. res'[cur] = q
        BY <1>1, <4>3 DEF Yield, CheckInv, CheckTypeOK
      <4>. QED
        BY <1>1, <4>2, <4>3, <4>4 DEF CheckEffect, KeepsResults
    <3>. HIDE DEF r
    <3>3. ASSUME NEW i \in DOMAIN Kids(cur), r.ty = Ty(i)
          PROVE  (\E k \in DOMAIN Declared : Declared[k] = r.ty) \/ cur \in Ancestors(prog, r.ty)
      <4>1. Kid(cur, i) \in Node /\ prog[Kid(cur, i)].parent = cur
        BY <1>1, NodeShape
      <4>2. isArrayTy(res[Kid(cur, i)].ty) /\ r.ty = res[Kid(cur, i)].ty
        BY <3>1, <3>3 DEF Ty
      <4>3. r.ty \in Node
        BY <4>1, <4>2 DEF CheckInv, TypesCreated, Created
      <4>4. Kid(cur, i) \in Ancestors(prog, r.ty) => cur \in Ancestors(prog, r.ty)
        <5>1. cur \in Ancestors(prog, Kid(cur, i))
          BY <1>1, <4>1, AncestorsOf, AncestorsPath DEF ProgOK, Node
        <5>. QED
          BY <1>1, <4>3, <5>1, AncestorsPath DEF ProgOK, Node
      <4>. QED
        BY <4>1, <4>2, <4>4 DEF ArraysComeFrom
    <3>4. CASE r = NoResult \/ YieldsInt(r)
      BY <3>1, <3>4 DEF YieldsInt, NoResult, Result, isArrayTy, NoTy, IntTy
    <3>5. CASE YieldsOperand(r)
      BY <2>2, <3>3, <3>5 DEF YieldsOperand, Result, r
    <3>6. CASE YieldsDeclared(r)
      BY <2>2, <3>6 DEF YieldsDeclared, Result, r
    <3>7. CASE YieldsHeld(r)
      <4>1. Kind(cur) = "holder" /\ 1 \in DOMAIN Kids(cur) /\ r.ty = Ty(1)
        BY <1>1, <3>7, NodeShape DEF YieldsHeld, Ty
      <4>. QED
        BY <2>2, <3>3, <4>1 DEF r
    <3>8. CASE YieldsItself(r)
      <4>1. r.ty = cur /\ cur \in Ancestors(prog, cur)
        BY <1>1, <3>8, AncestorsPath DEF YieldsItself, Result, ProgOK, Node
      <4>. QED
        BY <2>2, <4>1 DEF r
    <3>. QED
      BY <3>2, <3>4, <3>5, <3>6, <3>7, <3>8 DEF PossibleResult
  <2>. QED
    BY <2>1, <2>2
<1>13. ArraysComeFrom'
  BY <1>1, <1>12 DEF ArraysComeFrom, isArrayTy
<1>14. ArraysBeforeUse'
  <2>1. ASSUME NEW n \in Node, Kind(n) \in {"variable", "access"}, ~UnderElse(prog, n),
               Left(n)' \/ (n \in OnStack' /\ done'[n] > 0),
               NEW m \in ArrayAssigns, Declaring(m), Key(m) = DeclaredKey(n)
        PROVE  Before(m, n)
    <3>1. CASE Left(n) \/ (n \in OnStack /\ done[n] > 0)
      BY <2>1, <3>1 DEF ArraysBeforeUse
    <3>2. CASE ~(Left(n) \/ (n \in OnStack /\ done[n] > 0))
      <4>1. n = cur
        BY <1>2, <1>3, <2>1, <3>2
      <4>2. done[cur] = 0
        <5>1. done[cur] \in Nat
          BY <1>1, KidsExist DEF Returns
        <5>. QED
          BY <1>1, <3>2, <4>1, <5>1
      <4>3. m \in CheckedAssigns
        BY DEF ArrayAssigns
      <4>. QED
        BY <1>1, <2>1, <4>1, <4>2, <4>3, DeclaringBefore
    <3>. QED
      BY <3>1, <3>2
  <2>2. ASSUME NEW m \in ArrayAssigns', Declaring(m)' PROVE m \in ArrayAssigns /\ Declaring(m)
    <3>1. m \in CheckedAssigns
      BY <1>4 DEF ArrayAssigns
    <3>. QED
      BY <1>8, <1>9, <2>2, <3>1
  <2>. QED
    BY <1>1, <1>4, <2>1, <2>2 DEF ArraysBeforeUse
<1>. QED
  BY <1>6, <1>7, <1>10, <1>11, <1>13, <1>14

LEMMA TypesConformKept ==
    ASSUME TypesConform, UNCHANGED <<prog, cur, done>>, UNCHANGED checkVars
    PROVE  TypesConform'
<1>1. Node' = Node /\ OnStack' = OnStack /\ res' = res /\ arrayTypes' = arrayTypes /\ Declared' = Declared
  BY DEF checkVars, OnStack, Node
<1>2. /\ \A n : Kids(n)' = Kids(n) /\ Scope(n)' = Scope(n) /\ Name(n)' = Name(n) /\ Kind(n)' = Kind(n)
      /\ \A n, i : Kid(n, i)' = Kid(n, i) /\ OperandTy(n, i)' = OperandTy(n, i)
                   /\ OperandVal(n, i)' = OperandVal(n, i)
      /\ \A n : Key(n)' = Key(n) /\ Home(n)' = Home(n) /\ Layers(n)' = Layers(n) /\ TypeID(n)' = TypeID(n)
                /\ DeclaredKey(n)' = DeclaredKey(n) /\ DeclaredTy(n)' = DeclaredTy(n)
                /\ (IsDeclared(n)' <=> IsDeclared(n))
      /\ \A l, n : Before(l, n)' <=> Before(l, n)
  BY <1>1 DEF Kids, Kid, Scope, Name, Kind, OperandTy, OperandVal, Key, Home, Layers, TypeID, DeclaredKey,
              DeclaredTy, IsDeclared, Before
<1>3. /\ \A m : Left(m)' <=> Left(m)
      /\ \A m : Declaring(m)' <=> Declaring(m)
  BY <1>1 DEF Left, Declaring, Kids, Kid
<1>4. /\ CheckedAssigns' = CheckedAssigns /\ ArrayAssigns' = ArrayAssigns
  BY <1>1, <1>2 DEF CheckedAssigns, Assigns, ArrayAssigns, isArrayTy
<1>5. /\ \A n : Dimensioned(n)' <=> Dimensioned(n)
      /\ \A n, j : IndexChecked(n, j)' <=> IndexChecked(n, j)
      /\ \A n, f : IsSize(n, f)' <=> IsSize(n, f)
  <2>1. \A n, j : Layers(DeclaredTy(n))' = Layers(DeclaredTy(n))
    BY <1>1 DEF Layers, DeclaredTy, DeclaredKey, Name, Scope
  <2>. QED
    BY <1>1, <1>2, <2>1 DEF Dimensioned, IndexChecked, IsSize, Weight, isArrayTy
<1>6. ASSUME NEW n, Conforms(n) PROVE Conforms(n)'
  BY <1>1, <1>2, <1>5, <1>6 DEF Conforms, ConformsTo, isArrayTy, Known, IsKnown
<1>7. Conforming' /\ FramesConform'
  BY <1>1, <1>2, <1>3, <1>5, <1>6 DEF TypesConform, Conforming, FramesConform
<1>8. ArraysDeclaredOnce' /\ ArraysHaveAssigns'
  <2>1. \A m : Home(OperandTy(m, 1))' = Home(OperandTy(m, 1))
    BY <1>1 DEF Home, Scope, OperandTy, Kid
  <2>. QED
    BY <1>1, <1>2, <1>3, <1>4, <2>1 DEF TypesConform, ArraysDeclaredOnce, ArraysHaveAssigns, isArrayTy
<1>9. ArraysComeFrom' /\ ArraysBeforeUse'
  BY <1>1, <1>2, <1>3, <1>4 DEF TypesConform, ArraysComeFrom, ArraysBeforeUse, isArrayTy
<1>. QED
  BY <1>7, <1>8, <1>9 DEF TypesConform

\* What the checker concluded while it found no error it goes on concluding.
LEMMA TypesConformNext ==
    ASSUME StackInv, CheckInv, CheckNext, Errors = <<>> => TypesConform
    PROVE  Errors' = <<>> => TypesConform'
<1>1. SUFFICES ASSUME Errors' = <<>> PROVE TypesConform'
  OBVIOUS
<1>2. Errors = <<>> /\ TypesConform
  BY <1>1, CheckFrame
<1>3. cur # 0
  BY DEF CheckNext, CheckOperand, CheckNumber, CheckRead, CheckUn, CheckVariable,
         CheckCalc, CheckLogic, CheckPrint, CheckAssignedValue, CheckAssignment,
         CheckArrayHolder, CheckElement, CheckPresetArray, CheckUniformArray,
         CheckArrayAccess, CheckRank, CheckAssignedElement, CheckElementValue,
         CheckArrayAccessAssignment, CheckCondition, LeaveChecked, ReadyToCheck, At
<1>4. \/ Halts
      \/ GoesOn /\ PastOperand
      \/ Leaves /\ AllAccepted /\ Concludes
  BY <1>1, <1>2, <1>3, CheckConcludes DEF TypesConform
<1>5. CASE Halts
  BY <1>2, <1>5, TypesConformKept DEF Halts
<1>6. CASE GoesOn /\ PastOperand
  BY <1>2, <1>3, <1>6, ConformGoingOn
<1>7. CASE Leaves /\ AllAccepted /\ Concludes
  BY <1>2, <1>3, <1>7, ConformReturning
<1>. QED
  BY <1>4, <1>5, <1>6, <1>7

LEMMA TypesConformAtStart ==
    ASSUME ProgOK, cur = 1, done = RootFrame(prog), CheckInit
    PROVE  TypesConform
<1>1. /\ Node = Nodes(prog) /\ prog \in Programs /\ OnStack = {1} /\ Kind(1) = "root"
      /\ done[1] = 0 /\ 1 \in Node
  <2>1. /\ Node = Nodes(prog) /\ prog \in Programs /\ OnStack = {1} /\ Kind(1) = "root" /\ 1 \in Node
    BY StackAtRoot, Trees DEF ProgOK, Node, OnStack, Kind
  <2>. QED
    BY <2>1 DEF RootFrame
<1>2. DOMAIN Declared = {} /\ \A n \in Node : ~isArrayTy(res[n].ty)
  BY DEF CheckInit, EmptyTable, NoResult, Result, isArrayTy, NoTy
<1>3. \A n : ~Left(n)
  <2>1. ASSUME NEW i \in DOMAIN Kids(1) PROVE ~(i <= 0)
    BY <1>1, <2>1, NodeShape
  <2>. QED
    BY <1>1, <2>1 DEF Left
<1>4. \A m \in CheckedAssigns : ~Declaring(m)
  BY <1>1, <1>3 DEF Declaring
<1>5. Conforming /\ FramesConform
  BY <1>1, <1>3 DEF Conforming, FramesConform
<1>6. ArraysDeclaredOnce /\ ArraysHaveAssigns
  BY <1>2, <1>4 DEF ArraysDeclaredOnce, ArraysHaveAssigns, ArrayAssigns
<1>7. ArraysComeFrom /\ ArraysBeforeUse
  BY <1>1, <1>2, <1>3 DEF ArraysComeFrom, ArraysBeforeUse
<1>. QED
  BY <1>5, <1>6, <1>7 DEF TypesConform

\* What is not below an else has no kid there but the else of an if.
LEMMA KidChecked ==
    ASSUME ProgOK, NEW n \in Node, ~UnderElse(prog, n), NEW i \in DOMAIN Kids(n),
           Kind(n) = "if" => i # 3
    PROVE  Kid(n, i) \in Node /\ ~UnderElse(prog, Kid(n, i))
<1>1. Kid(n, i) \in Node /\ Kid(n, i) # 1 /\ prog[Kid(n, i)].parent = n
  BY NodeShape
<1>2. Ancestors(prog, Kid(n, i)) = {Kid(n, i)} \cup Ancestors(prog, n)
  BY <1>1, AncestorsOf DEF ProgOK, Node
<1>3. ~IsKid(prog, Kid(n, i), "if", 3)
  <2>1. SUFFICES ASSUME IsKid(prog, Kid(n, i), "if", 3) PROVE FALSE
    OBVIOUS
  <2>2. Kind(n) = "if" /\ 3 \in DOMAIN Kids(n) /\ Kid(n, 3) = Kid(n, i)
    BY <1>1, <2>1 DEF IsKid, Kind, Kids, Kid
  <2>3. \A k, j \in DOMAIN prog[n].kids : prog[n].kids[k] = prog[n].kids[j] => k = j
    BY KidsOfTree DEF ProgOK, Node
  <2>. QED
    BY <2>2, <2>3 DEF Kid, Kids
<1>. QED
  BY <1>1, <1>2, <1>3 DEF UnderElse, Under

-----------------------------------------------------------------------------
(***************************************************************************)
(* What the checker knows of the types of a program in which it found no   *)
(* error, when its visitor has returned from the root.                     *)
(***************************************************************************)
TypesVerdict ==
    /\ \A n \in Node : ~UnderElse(prog, n) => Conforms(n)
    /\ \A m \in ArrayAssigns :
          /\ Key(m) \in DOMAIN Declared /\ Declared[Key(m)] = OperandTy(m, 1)
          /\ Home(OperandTy(m, 1)) = Home(m)
          /\ \A l \in ArrayAssigns : OperandTy(l, 1) = OperandTy(m, 1) => l = m
          /\ \A l \in CheckedAssigns : Key(l) = Key(m) => l = m
    /\ \A k \in DOMAIN Declared : isArrayTy(Declared[k]) => \E m \in ArrayAssigns : Key(m) = k
    /\ \A n \in Node :
          Kind(n) \in {"variable", "access"} /\ ~UnderElse(prog, n) =>
              \A m \in ArrayAssigns : Key(m) = DeclaredKey(n) => Before(m, n)

\* A name whose home declares it is looked up there by its assignments.
LEMMA HomeFound ==
    ASSUME ProgOK, NEW m \in Assigns, Key(m) \in DOMAIN Declared
    PROVE  /\ Kid(m, 2) \in Node /\ Kind(Kid(m, 2)) = "variable"
           /\ DeclaredKey(Kid(m, 2)) = Key(m) /\ IsDeclared(Kid(m, 2))
<1>1. m \in Node /\ Kind(m) = "assign" /\ 2 \in DOMAIN Kids(m) /\ m # 1
  <2>1. m \in Node /\ Kind(m) = "assign"
    BY DEF Assigns
  <2>. QED
    BY <2>1, NodeShape, NoRoot
<1>2. /\ Kid(m, 2) \in Node /\ Kind(Kid(m, 2)) = "variable" /\ Name(Kid(m, 2)) = Name(m)
      /\ prog[Kid(m, 2)].parent = m /\ Kid(m, 2) # 1
  BY <1>1, NodeShape
<1>3. Scope(Kid(m, 2)) = Scope(m)
  <2>1. Kind(m) \in ExpressionKinds
    BY <1>1 DEF ExpressionKinds, Arity
  <2>2. m \in Ancestors(prog, Kid(m, 2))
    BY <1>1, <1>2, AncestorsOf, AncestorsPath DEF ProgOK, Node
  <2>. QED
    BY <1>1, <1>2, <2>1, <2>2, BelowExpressions
<1>4. /\ Home(m) \in Around(m) /\ Around(m) = {Home(m)} \cup Around(Home(m))
      /\ \A b \in Around(Home(m)) : b < Home(m)
      /\ Home(m) \in Nat
  <2>1. Node \subseteq Nat
    BY Trees DEF ProgOK, Node
  <2>. QED
    BY <1>1, <2>1, HomeInnermost
<1>5. ASSUME NEW c \in Around(m)
      PROVE  c <= Home(m)
  <2>1. CASE c = Home(m)
    BY <2>1, <1>4
  <2>2. CASE c \in Around(Home(m))
    <3>1. c < Home(m) /\ c \in Nat
      <4>1. c \in Node
        BY <2>2, <1>4, <1>1, OuterAround
      <4>. QED
        BY <4>1, <2>2, <1>4, Trees DEF ProgOK, Node
    <3>. QED
      BY <3>1, <1>4
  <2>. QED
    BY <2>1, <2>2, <1>4
<1>6. isDefined(Declared, Name(m), Scope(m)) /\ getDeclScopeFor(Declared, Name(m), Scope(m)) = Home(m)
  BY <1>1, <1>4, <1>5, FindsAround DEF Key
<1>. QED
  BY <1>2, <1>3, <1>6 DEF DeclaredKey, IsDeclared, getDeclKeyFor, Key

LEMMA TypesAtEnd ==
    ASSUME ProgOK, CheckInv, TypesConform, cur = 0
    PROVE  TypesVerdict
<1>. USE DEF TypesConform
<1>1. \A m : Left(m) /\ Declaring(m)
  BY DEF Left, Declaring
<1>2. \A n \in Node : ~UnderElse(prog, n) => Conforms(n)
  BY <1>1 DEF Conforming
<1>3. ASSUME NEW m \in ArrayAssigns, NEW l \in CheckedAssigns, Key(l) = Key(m) PROVE l = m
  <2>1. Key(m) \in DOMAIN Declared /\ Declared[Key(m)] = OperandTy(m, 1) /\ isArrayTy(OperandTy(m, 1))
    BY <1>1 DEF ArraysDeclaredOnce, ArrayAssigns
  <2>2. l \in Assigns /\ l \in Node /\ ~UnderElse(prog, l) /\ Kind(l) = "assign"
    BY DEF CheckedAssigns, Assigns
  <2>3. 1 \in DOMAIN Kids(l) /\ 2 \in DOMAIN Kids(l)
    BY <2>2, NodeShape
  <2>4. Kid(l, 2) \in Node /\ ~UnderElse(prog, Kid(l, 2))
    BY <2>2, <2>3, KidChecked
  <2>5. Kind(Kid(l, 2)) = "variable" /\ DeclaredKey(Kid(l, 2)) = Key(m)
    BY <1>3, <2>1, <2>2, HomeFound
  <2>6. OperandTy(l, 2) = OperandTy(m, 1)
    <3>1. Conforms(Kid(l, 2))
      BY <1>2, <2>4
    <3>. QED
      BY <2>1, <2>5, <3>1 DEF Conforms, ConformsTo, DeclaredTy, OperandTy
  <2>7. TypeID(OperandTy(l, 1)) = TypeID(OperandTy(m, 1))
    <3>1. Conforms(l)
      BY <1>2, <2>2
    <3>. QED
      BY <2>2, <2>6, <3>1 DEF Conforms, ConformsTo
  <2>8. isArrayTy(OperandTy(l, 1))
    <3>1. Created(OperandTy(m, 1))
      BY <2>1 DEF CheckInv, TypesCreated
    <3>2. TypeID(OperandTy(m, 1)) \in {"preset", "uniform"}
      BY <2>1, <3>1 DEF Created, TypeID, isArrayTy
    <3>. QED
      BY <2>7, <3>2 DEF TypeID, isArrayTy
  <2>9. l \in ArrayAssigns
    BY <2>8 DEF ArrayAssigns
  <2>10. Declared[Key(l)] = OperandTy(l, 1)
    BY <1>1, <2>9 DEF ArraysDeclaredOnce
  <2>. QED
    BY <1>1, <1>3, <2>1, <2>9, <2>10 DEF ArraysDeclaredOnce
<1>4. \A m \in ArrayAssigns :
          /\ Key(m) \in DOMAIN Declared /\ Declared[Key(m)] = OperandTy(m, 1)
          /\ Home(OperandTy(m, 1)) = Home(m)
          /\ \A l \in ArrayAssigns : OperandTy(l, 1) = OperandTy(m, 1) => l = m
  BY <1>1 DEF ArraysDeclaredOnce
<1>5. \A k \in DOMAIN Declared : isArrayTy(Declared[k]) => \E m \in ArrayAssigns : Key(m) = k
  BY <1>1 DEF ArraysHaveAssigns
<1>6. \A n \in Node :
          Kind(n) \in {"variable", "access"} /\ ~UnderElse(prog, n) =>
              \A m \in ArrayAssigns : Key(m) = DeclaredKey(n) => Before(m, n)
  BY <1>1 DEF ArraysBeforeUse
<1>. QED
  BY <1>2, <1>3, <1>4, <1>5, <1>6 DEF TypesVerdict

LEMMA TypesVerdictKept ==
    ASSUME TypesVerdict, prog' = prog, UNCHANGED checkVars
    PROVE  TypesVerdict'
<1>1. Node' = Node /\ res' = res /\ arrayTypes' = arrayTypes /\ Declared' = Declared
  BY DEF checkVars, Node
<1>2. /\ \A n : Kids(n)' = Kids(n) /\ Scope(n)' = Scope(n) /\ Name(n)' = Name(n) /\ Kind(n)' = Kind(n)
      /\ \A n, i : Kid(n, i)' = Kid(n, i) /\ OperandTy(n, i)' = OperandTy(n, i)
                   /\ OperandVal(n, i)' = OperandVal(n, i)
      /\ \A n : Key(n)' = Key(n) /\ Home(n)' = Home(n) /\ TypeID(n)' = TypeID(n)
                /\ DeclaredKey(n)' = DeclaredKey(n) /\ DeclaredTy(n)' = DeclaredTy(n)
                /\ (IsDeclared(n)' <=> IsDeclared(n))
      /\ \A l, n : Before(l, n)' <=> Before(l, n)
  BY <1>1 DEF Kids, Kid, Scope, Name, Kind, OperandTy, OperandVal, Key, Home, TypeID, DeclaredKey,
              DeclaredTy, IsDeclared, Before
<1>3. /\ CheckedAssigns' = CheckedAssigns /\ ArrayAssigns' = ArrayAssigns
  BY <1>1, <1>2 DEF CheckedAssigns, Assigns, ArrayAssigns, isArrayTy
<1>4. /\ \A n : Dimensioned(n)' <=> Dimensioned(n)
      /\ \A n, j : IndexChecked(n, j)' <=> IndexChecked(n, j)
      /\ \A n, f : IsSize(n, f)' <=> IsSize(n, f)
  <2>1. \A n, j : Layers(DeclaredTy(n))' = Layers(DeclaredTy(n))
    BY <1>1 DEF Layers, DeclaredTy, DeclaredKey, Name, Scope
  <2>. QED
    BY <1>1, <1>2, <2>1 DEF Dimensioned, IndexChecked, IsSize, Weight, isArrayTy
<1>5. ASSUME NEW n, Conforms(n) PROVE Conforms(n)'
  BY <1>1, <1>2, <1>4, <1>5 DEF Conforms, ConformsTo, isArrayTy, Known, IsKnown
<1>6. \A m : Home(OperandTy(m, 1))' = Home(OperandTy(m, 1))
  BY <1>1 DEF Home, Scope, OperandTy, Kid
<1>7. \A n \in Node' : ~UnderElse(prog', n) => Conforms(n)'
  BY <1>1, <1>5 DEF TypesVerdict
<1>8. \A m \in ArrayAssigns' :
          /\ Key(m)' \in DOMAIN Declared' /\ Declared'[Key(m)'] = OperandTy(m, 1)'
          /\ Home(OperandTy(m, 1))' = Home(m)'
          /\ \A l \in ArrayAssigns' : OperandTy(l, 1)' = OperandTy(m, 1)' => l = m
          /\ \A l \in CheckedAssigns' : Key(l)' = Key(m)' => l = m
  BY <1>1, <1>2, <1>3, <1>6 DEF TypesVerdict
<1>9. /\ \A k \in DOMAIN Declared' : isArrayTy(Declared'[k]) => \E m \in ArrayAssigns' : Key(m)' = k
      /\ \A n \in Node' :
            Kind(n)' \in {"variable", "access"} /\ ~UnderElse(prog', n) =>
                \A m \in ArrayAssigns' : Key(m)' = DeclaredKey(n)' => Before(m, n)'
  BY <1>1, <1>2, <1>3 DEF TypesVerdict
<1>. QED
  BY <1>7, <1>8, <1>9 DEF TypesVerdict, isArrayTy
=============================================================================

-------------------------- MODULE GeneratorProofs --------------------------
(***************************************************************************)
(* Lemmas about the code generator: the builder only adds to the code, and *)
(* every call of it leaves code whose operands have been computed and      *)
(* whose jumps have targets.                                               *)
(***************************************************************************)
EXTENDS CodeGenVisitor, VisitorProofs, SequenceTheorems

\* Nothing that was built is changed or taken away, and what failed stays so.
Grows(m, k) ==
    /\ k.fault = "none" => m.fault = "none"
    /\ DOMAIN m.blocks \subseteq DOMAIN k.blocks
    /\ \A b \in DOMAIN m.blocks :
          /\ DOMAIN m.blocks[b] \subseteq DOMAIN k.blocks[b]
          /\ \A i \in DOMAIN m.blocks[b] : k.blocks[b][i] = m.blocks[b][i]

\* k was built from m.
From(m, k) == Built(k) /\ Grows(m, k)

LEMMA BuilderFields ==
    ASSUME NEW m, Built(m)
    PROVE  /\ m \in Builder /\ DOMAIN m = {"blocks", "here", "val", "fault"}
           /\ m.blocks \in Seq(Seq(Instr)) /\ Len(m.blocks) \in Nat
           /\ DOMAIN m.blocks = 1..Len(m.blocks)
           /\ \A b \in DOMAIN m.blocks : m.blocks[b] \in Seq(Instr)
           /\ m.here \in DOMAIN m.blocks /\ m.val \in MadeIn(m) /\ m.fault \in Faults
           /\ \A b \in DOMAIN m.blocks : \A i \in DOMAIN m.blocks[b] :
                 /\ m.blocks[b][i].args \in Seq(MadeIn(m))
                 /\ m.blocks[b][i].to \in Seq(DOMAIN m.blocks)
<1>1. m \in Builder /\ DOMAIN m = {"blocks", "here", "val", "fault"}
  BY DEF Built, Builder
<1>2. m.blocks \in Seq(Seq(Instr)) /\ m.fault \in Faults
  BY <1>1 DEF Builder
<1>3. Len(m.blocks) \in Nat /\ DOMAIN m.blocks = 1..Len(m.blocks)
  BY <1>2, LenProperties
<1>4. \A b \in DOMAIN m.blocks : m.blocks[b] \in Seq(Instr)
  BY <1>2, <1>3, ElementOfSeq
<1>. QED
  BY <1>1, <1>2, <1>3, <1>4 DEF Built

LEMMA BlockInstructions ==
    ASSUME NEW m, Built(m), NEW b \in DOMAIN m.blocks
    PROVE  /\ m.blocks[b] \in Seq(Instr) /\ Len(m.blocks[b]) \in Nat
           /\ DOMAIN m.blocks[b] = 1..Len(m.blocks[b])
BY BuilderFields, LenProperties

LEMMA GrowsFurther ==
    ASSUME NEW m, NEW k, NEW l, Grows(m, k), Grows(k, l)
    PROVE  Grows(m, l)
BY DEF Grows

LEMMA GrowsNot == \A m : Grows(m, m)
BY DEF Grows

LEMMA FromFurther ==
    ASSUME NEW m, NEW k, NEW l, From(m, k), From(k, l)
    PROVE  From(m, l)
BY GrowsFurther DEF From

LEMMA FromSelf ==
    ASSUME NEW m, Built(m)
    PROVE  From(m, m)
BY GrowsNot DEF From

\* What was made stays made.
LEMMA MadeMore ==
    ASSUME NEW m, NEW k, Grows(m, k)
    PROVE  /\ MadeIn(m) \subseteq MadeIn(k) /\ DOMAIN m.blocks \subseteq DOMAIN k.blocks
           /\ Seq(MadeIn(m)) \subseteq Seq(MadeIn(k))
           /\ Seq(DOMAIN m.blocks) \subseteq Seq(DOMAIN k.blocks)
<1>1. MadeIn(m) \subseteq MadeIn(k)
  BY DEF MadeIn, Grows
<1>2. DOMAIN m.blocks \subseteq DOMAIN k.blocks
  BY DEF Grows
<1>. QED
  BY <1>1, <1>2, SeqMonotonic

LEMMA ConstantsMade ==
    ASSUME NEW m
    PROVE  /\ \A ty \in {"none", "i1", "i32", "ptr"}, v \in Int : Const(ty, v) \in MadeIn(m)
           /\ \A ty \in {"none", "i1", "i32", "ptr"} : Poison(ty) \in MadeIn(m)
           /\ nullptr \in MadeIn(m) /\ Zero \in MadeIn(m) /\ One \in MadeIn(m)
           /\ \A b : Bool(b) \in MadeIn(m)
<1>1. \A ty \in {"none", "i1", "i32", "ptr"}, v \in Int : Const(ty, v) \in MadeIn(m)
  BY DEF Const, MadeIn, Value
<1>2. \A ty \in {"none", "i1", "i32", "ptr"} : Poison(ty) \in MadeIn(m)
  BY DEF Poison, MadeIn, Value
<1>3. \A b : Truth(b) \in Int
  BY DEF Truth
<1>. QED
  BY <1>1, <1>2, <1>3 DEF nullptr, Zero, One, Bool

LEMMA Moved ==
    ASSUME NEW m, Built(m), NEW b \in DOMAIN m.blocks
    PROVE  /\ From(m, SetInsertPoint(m, b))
           /\ SetInsertPoint(m, b).blocks = m.blocks /\ SetInsertPoint(m, b).val = m.val
           /\ SetInsertPoint(m, b).here = b /\ SetInsertPoint(m, b).fault = m.fault
<1>. DEFINE k == SetInsertPoint(m, b)
<1>1. /\ k.blocks = m.blocks /\ k.val = m.val /\ k.here = b /\ k.fault = m.fault
      /\ k \in Builder
  <2>1. b \in Nat
    BY BuilderFields
  <2>. QED
    BY <2>1, BuilderFields DEF SetInsertPoint, Builder
<1>2. MadeIn(k) = MadeIn(m) /\ Grows(m, k)
  BY <1>1 DEF MadeIn, Grows
<1>. QED
  BY <1>1, <1>2, BuilderFields DEF Built, From

LEMMA ValueSet ==
    ASSUME NEW m, Built(m), NEW v \in MadeIn(m)
    PROVE  /\ From(m, Fold(m, v))
           /\ Fold(m, v).blocks = m.blocks /\ Fold(m, v).val = v
           /\ Fold(m, v).here = m.here /\ Fold(m, v).fault = m.fault
<1>. DEFINE k == Fold(m, v)
<1>1. v \in Value
  BY DEF MadeIn
<1>2. /\ k.blocks = m.blocks /\ k.val = v /\ k.here = m.here /\ k.fault = m.fault
      /\ k \in Builder
  BY <1>1, BuilderFields DEF Fold, Builder
<1>3. MadeIn(k) = MadeIn(m) /\ Grows(m, k)
  BY <1>2 DEF MadeIn, Grows
<1>. QED
  BY <1>2, <1>3, BuilderFields DEF Built, From

LEMMA Failed ==
    ASSUME NEW m, Built(m), NEW why \in Faults
    PROVE  /\ From(m, Fault(m, why))
           /\ Fault(m, why).blocks = m.blocks /\ Fault(m, why).val = m.val
           /\ Fault(m, why).here = m.here
           /\ why # "none" => Fault(m, why).fault # "none"
<1>. DEFINE k == Fault(m, why)
<1>1. /\ k.blocks = m.blocks /\ k.val = m.val /\ k.here = m.here
      /\ k \in Builder /\ (why # "none" => k.fault # "none")
      /\ k.fault = "none" => m.fault = "none"
  BY BuilderFields DEF Fault, Builder, Faults
<1>2. MadeIn(k) = MadeIn(m) /\ Grows(m, k)
  BY <1>1 DEF MadeIn, Grows
<1>. QED
  BY <1>1, <1>2, BuilderFields DEF Built, From

LEMMA BlocksAdded ==
    ASSUME NEW m, Built(m), NEW n \in Nat
    PROVE  /\ From(m, NewBlocks(m, n))
           /\ Len(NewBlocks(m, n).blocks) = Len(m.blocks) + n
           /\ DOMAIN NewBlocks(m, n).blocks = 1..(Len(m.blocks) + n)
           /\ NewBlocks(m, n).val = m.val /\ NewBlocks(m, n).fault = m.fault
           /\ NewBlocks(m, n).here = m.here
<1>. DEFINE k == NewBlocks(m, n)
            new == [i \in 1..n |-> <<>>]
<1>1. new \in Seq(Seq(Instr)) /\ Len(new) = n
  <2>1. <<>> \in Seq(Instr)
    BY EmptySeq
  <2>2. new \in [1..n -> Seq(Instr)]
    BY <2>1
  <2>. HIDE DEF new
  <2>. QED
    BY <2>2, FunctionsAreSeqs
<1>2. /\ m.blocks \in Seq(Seq(Instr)) /\ Len(m.blocks) \in Nat /\ DOMAIN m.blocks = 1..Len(m.blocks)
      /\ DOMAIN m = {"blocks", "here", "val", "fault"} /\ m \in Builder
  BY BuilderFields
<1>3. k.blocks = m.blocks \o new /\ k.val = m.val /\ k.here = m.here /\ k.fault = m.fault
      /\ DOMAIN k = {"blocks", "here", "val", "fault"}
  BY <1>2 DEF NewBlocks
<1>4. /\ k.blocks \in Seq(Seq(Instr)) /\ Len(k.blocks) = Len(m.blocks) + n
      /\ \A i \in 1..Len(k.blocks) :
            k.blocks[i] = IF i <= Len(m.blocks) THEN m.blocks[i] ELSE new[i - Len(m.blocks)]
  <2>. DEFINE t == m.blocks \o new
  <2>. HIDE DEF new
  <2>1. /\ t \in Seq(Seq(Instr)) /\ Len(t) = Len(m.blocks) + Len(new)
        /\ \A i \in 1..Len(t) : t[i] = IF i <= Len(m.blocks) THEN m.blocks[i] ELSE new[i - Len(m.blocks)]
    BY <1>1, <1>2, ConcatProperties
  <2>. HIDE DEF t
  <2>2. k.blocks = t
    BY <1>3 DEF t
  <2>. QED
    BY <1>1, <2>1, <2>2
<1>5. DOMAIN k.blocks = 1..(Len(m.blocks) + n)
  BY <1>4, LenProperties
<1>6. k \in Builder
  BY <1>2, <1>3, <1>4 DEF NewBlocks, Builder
<1>7. /\ \A b \in DOMAIN m.blocks : b \in DOMAIN k.blocks /\ k.blocks[b] = m.blocks[b]
      /\ \A b \in DOMAIN k.blocks \ DOMAIN m.blocks : k.blocks[b] = <<>>
  <2>1. ASSUME NEW b \in DOMAIN m.blocks PROVE b \in DOMAIN k.blocks /\ k.blocks[b] = m.blocks[b]
    BY <1>2, <1>4, <1>5
  <2>2. ASSUME NEW b \in DOMAIN k.blocks \ DOMAIN m.blocks PROVE k.blocks[b] = <<>>
    <3>1. b \in 1..Len(k.blocks) /\ ~(b <= Len(m.blocks)) /\ b - Len(m.blocks) \in 1..n
      BY <1>2, <1>4, <1>5
    <3>. QED
      BY <1>4, <3>1
  <2>. QED
    BY <2>1, <2>2
<1>. HIDE DEF k
<1>8. Grows(m, k)
  BY <1>3, <1>7 DEF Grows
<1>9. ASSUME NEW b \in DOMAIN k.blocks, NEW i \in DOMAIN k.blocks[b]
      PROVE  k.blocks[b][i].args \in Seq(MadeIn(k)) /\ k.blocks[b][i].to \in Seq(DOMAIN k.blocks)
  <2>1. DOMAIN <<>> = {}
    OBVIOUS
  <2>2. b \in DOMAIN m.blocks /\ k.blocks[b] = m.blocks[b]
    BY <1>7, <1>9, <2>1
  <2>3. m.blocks[b][i].args \in Seq(MadeIn(m)) /\ m.blocks[b][i].to \in Seq(DOMAIN m.blocks)
    BY <1>9, <2>2, BuilderFields
  <2>. QED
    BY <1>8, <2>2, <2>3, MadeMore
<1>10. k.here \in DOMAIN k.blocks /\ k.val \in MadeIn(k)
  BY <1>3, <1>8, BuilderFields, MadeMore
<1>11. Built(k)
  BY <1>6, <1>9, <1>10 DEF Built
<1>. QED
  BY <1>3, <1>4, <1>5, <1>8, <1>11 DEF From, k

\* k is m with one instruction more, or with none; what the builder returned has type ty.
Emits(m, k, ty) ==
    /\ From(m, k)
    /\ k.fault = m.fault /\ k.here = m.here /\ DOMAIN k.blocks = DOMAIN m.blocks
    /\ k.val.ty = ty

LEMMA Inserted ==
    ASSUME NEW m, Built(m), NEW op \in OpCodes, NEW ty \in {"none", "void", "i1", "i32", "ptr"},
           NEW args \in Seq(MadeIn(m)), NEW to \in Seq(DOMAIN m.blocks)
    PROVE  LET k == Insert(m, op, ty, args, to)
           IN  /\ Emits(m, k, IF ty = "void" THEN "none" ELSE ty)
               /\ k.val = IF ty = "void" THEN nullptr
                          ELSE Place(ty, m.here, Len(m.blocks[m.here]) + 1)
               /\ ty # "void" => Instruction(k, k.val).op = op /\ Instruction(k, k.val).args = args
<1>. DEFINE k   == Insert(m, op, ty, args, to)
            h   == m.here
            ins == [op |-> op, ty |-> ty, args |-> args, to |-> to]
            n   == Len(m.blocks[h])
            new == Append(m.blocks[h], ins)
            val == IF ty = "void" THEN nullptr ELSE Place(ty, h, n + 1)
<1>1. /\ m.blocks \in Seq(Seq(Instr)) /\ Len(m.blocks) \in Nat /\ DOMAIN m.blocks = 1..Len(m.blocks)
      /\ DOMAIN m = {"blocks", "here", "val", "fault"} /\ m \in Builder
      /\ h \in DOMAIN m.blocks /\ h \in Nat
      /\ m.blocks[h] \in Seq(Instr) /\ n \in Nat /\ DOMAIN m.blocks[h] = 1..n
  BY BuilderFields, BlockInstructions
<1>2. ins \in Instr
  <2>1. args \in Seq(Value)
    <3>1. MadeIn(m) \subseteq Value
      BY DEF MadeIn
    <3>. QED
      BY <3>1, SeqMonotonic
  <2>2. to \in Seq(Nat)
    <3>1. DOMAIN m.blocks \subseteq Nat
      BY <1>1
    <3>. QED
      BY <3>1, SeqMonotonic
  <2>. QED
    BY <2>1, <2>2 DEF Instr
<1>3. /\ new \in Seq(Instr) /\ Len(new) = n + 1 /\ DOMAIN new = 1..(n + 1)
      /\ \A i \in 1..n : new[i] = m.blocks[h][i]
      /\ new[n + 1] = ins
  <2>. HIDE DEF ins
  <2>1. /\ new \in Seq(Instr) /\ Len(new) = n + 1
        /\ \A i \in 1..n : new[i] = m.blocks[h][i]
        /\ new[n + 1] = ins
    BY <1>1, <1>2, AppendProperties
  <2>. QED
    BY <2>1, LenProperties
<1>. HIDE DEF new, ins
<1>4. /\ k.blocks = [m.blocks EXCEPT ![h] = new] /\ k.val = val
      /\ k.here = m.here /\ k.fault = m.fault
      /\ DOMAIN k = {"blocks", "here", "val", "fault"}
  BY <1>1 DEF Insert, new, ins
<1>5. /\ k.blocks \in Seq(Seq(Instr)) /\ DOMAIN k.blocks = DOMAIN m.blocks
      /\ k.blocks[h] = new /\ \A b \in DOMAIN m.blocks : b # h => k.blocks[b] = m.blocks[b]
  <2>1. [m.blocks EXCEPT ![h] = new] \in Seq(Seq(Instr))
    BY <1>1, <1>3, ExceptSeq
  <2>. QED
    BY <1>1, <1>4, <2>1
<1>6. val \in Value /\ (ty # "void" => val.at = <<h, n + 1>>)
  BY <1>1 DEF Value, Place, nullptr, Const
<1>7. k \in Builder
  <2>1. k = [m EXCEPT !.blocks = k.blocks, !.val = val]
    <3>1. k = [m EXCEPT !.blocks[m.here] = Append(@, [op |-> op, ty |-> ty, args |-> args, to |-> to]),
                        !.val = val]
      BY DEF Insert
    <3>. QED
      BY <1>1, <1>4, <3>1
  <2>. QED
    BY <1>1, <1>5, <1>6, <2>1 DEF Builder
<1>14. /\ \A i \in DOMAIN m.blocks[h] : i \in DOMAIN new /\ new[i] = m.blocks[h][i]
       /\ \A i \in DOMAIN new : i # n + 1 => i \in DOMAIN m.blocks[h]
       /\ n + 1 \in DOMAIN new
  <2>. HIDE DEF n, h
  <2>. QED
    BY <1>1, <1>3
<1>. HIDE DEF k, n, h
<1>8. Grows(m, k)
  BY <1>4, <1>5, <1>14 DEF Grows
<1>9. k.val \in MadeIn(k) /\ k.here \in DOMAIN k.blocks
  <2>1. h \in DOMAIN k.blocks /\ n + 1 \in DOMAIN k.blocks[h] /\ k.here = h /\ k.val = val
    BY <1>1, <1>4, <1>5, <1>14 DEF h
  <2>2. val \in Value /\ (val.at = <<>> \/ val.at = <<h, n + 1>>)
    BY <1>6 DEF nullptr, Const
  <2>. QED
    BY <2>1, <2>2 DEF MadeIn
<1>10. ASSUME NEW b \in DOMAIN k.blocks, NEW i \in DOMAIN k.blocks[b]
       PROVE  k.blocks[b][i].args \in Seq(MadeIn(k)) /\ k.blocks[b][i].to \in Seq(DOMAIN k.blocks)
  <2>1. CASE b = h /\ i = n + 1
    <3>1. k.blocks[b][i].args = args /\ k.blocks[b][i].to = to
      BY <1>3, <1>5, <2>1 DEF ins
    <3>. QED
      BY <1>8, <3>1, MadeMore
  <2>2. CASE ~(b = h /\ i = n + 1)
    <3>1. b \in DOMAIN m.blocks /\ i \in DOMAIN m.blocks[b] /\ k.blocks[b][i] = m.blocks[b][i]
      BY <1>5, <1>10, <1>14, <2>2
    <3>2. m.blocks[b][i].args \in Seq(MadeIn(m)) /\ m.blocks[b][i].to \in Seq(DOMAIN m.blocks)
      BY <3>1, BuilderFields
    <3>. QED
      BY <1>8, <3>1, <3>2, MadeMore
  <2>. QED
    BY <2>1, <2>2
<1>11. Built(k)
  BY <1>7, <1>9, <1>10 DEF Built
<1>12. k.val.ty = IF ty = "void" THEN "none" ELSE ty
  BY <1>4 DEF nullptr, Const, Place
<1>13. ty # "void" => Instruction(k, k.val).op = op /\ Instruction(k, k.val).args = args
  <2>1. ty # "void" => k.val.at[1] = h /\ k.val.at[2] = n + 1
    BY <1>4, <1>6
  <2>2. ty # "void" => Instruction(k, k.val) = ins
    BY <1>3, <1>5, <2>1 DEF Instruction
  <2>. QED
    BY <2>2 DEF ins
<1>. QED
  BY <1>4, <1>5, <1>8, <1>11, <1>12, <1>13 DEF From, Emits, k, val, n, h

LEMMA Emitted ==
    ASSUME NEW m, Built(m)
    PROVE  /\ \A b \in DOMAIN m.blocks : Emits(m, CreateBr(m, b), "none")
           /\ \A c \in MadeIn(m), t, f \in DOMAIN m.blocks : Emits(m, CreateCondBr(m, c, t, f), "none")
           /\ Emits(m, CreateRetVoid(m), "none")
           /\ \A vs \in Seq(MadeIn(m)), bs \in Seq(DOMAIN m.blocks) : Emits(m, CreatePHI(m, vs, bs), "i1")
           /\ Emits(m, CreateAlloca(m), "ptr") /\ CreateAlloca(m).val.at # <<>>
           /\ \A n \in Int : /\ Emits(m, CreateArrayAlloca(m, n), "ptr")
                             /\ CreateArrayAlloca(m, n).val.at # <<>>
           /\ \A v \in MadeIn(m) :
                 /\ Emits(m, CreateMalloc(m, v), "ptr") /\ Emits(m, CreateFree(m, v), "none")
                 /\ CreateMalloc(m, v).val.at # <<>>
                 /\ Emits(m, CreateLoad(m, v), "i32") /\ Emits(m, CreatePrint(m, v), "none")
                 /\ CreateLoad(m, v).val.at # <<>>
                 /\ Instruction(CreateLoad(m, v), CreateLoad(m, v).val).args = <<v>>
           /\ \A v, w \in MadeIn(m) :
                 Emits(m, CreateStore(m, v, w), "none") /\ Emits(m, CreateGEP(m, v, w), "ptr")
           /\ \A v \in MadeIn(m), vs \in Seq(MadeIn(m)) : Emits(m, CreateMemCpy(m, v, vs), "none")
           /\ Emits(m, CreateScan(m), "i32")
<1>. DEFINE S == MadeIn(m)
            D == DOMAIN m.blocks
<1>1. /\ <<>> \in Seq(S) /\ \A v \in S : <<v>> \in Seq(S) /\ \A w \in S : <<v, w>> \in Seq(S)
      /\ <<>> \in Seq(D) /\ \A b \in D : <<b>> \in Seq(D) /\ \A c \in D : <<b, c>> \in Seq(D)
  <2>. HIDE DEF S, D
  <2>. QED
    OBVIOUS
<1>2. \A n \in Int : Const("i32", n) \in S
  BY ConstantsMade
<1>3. \A v \in S, vs \in Seq(S) : <<v>> \o vs \in Seq(S)
  <2>. HIDE DEF S
  <2>. QED
    BY <1>1, ConcatProperties
<1>4. \A op \in OpCodes, args \in Seq(S), to \in Seq(D), ty \in {"void", "i1", "i32", "ptr"} :
         /\ Emits(m, Insert(m, op, ty, args, to), IF ty = "void" THEN "none" ELSE ty)
         /\ ty # "void" =>
               /\ Insert(m, op, ty, args, to).val.at # <<>>
               /\ Instruction(Insert(m, op, ty, args, to), Insert(m, op, ty, args, to).val).args = args
  <2>1. \A ty : Place(ty, m.here, Len(m.blocks[m.here]) + 1).at # <<>>
    BY DEF Place
  <2>. QED
    BY <2>1, Inserted
<1>. HIDE DEF S, D
<1>. DEFINE k(op, ty, args, to) == Insert(m, op, ty, args, to)
<1>10. \A op \in OpCodes, args \in Seq(S), to \in Seq(D), ty \in {"void", "i1", "i32", "ptr"} :
         /\ Emits(m, k(op, ty, args, to), IF ty = "void" THEN "none" ELSE ty)
         /\ ty # "void" =>
               /\ k(op, ty, args, to).val.at # <<>>
               /\ Instruction(k(op, ty, args, to), k(op, ty, args, to).val).args = args
  BY <1>4
<1>11. /\ {"br", "condbr", "ret", "free", "store", "memcpy", "print"} \subseteq OpCodes
       /\ {"phi", "alloca", "allocArray", "malloc", "gep", "load", "scan"} \subseteq OpCodes
  BY DEF OpCodes, Terminators
<1>5. \A args \in Seq(S), to \in Seq(D) :
         /\ \A op \in {"br", "condbr", "ret", "free", "store", "memcpy", "print"} :
               Emits(m, k(op, "void", args, to), "none")
         /\ Emits(m, k("phi", "i1", args, to), "i1")
         /\ \A op \in {"alloca", "allocArray", "malloc", "gep"} :
               /\ Emits(m, k(op, "ptr", args, to), "ptr")
               /\ k(op, "ptr", args, to).val.at # <<>>
         /\ \A op \in {"load", "scan"} :
               /\ Emits(m, k(op, "i32", args, to), "i32")
               /\ k(op, "i32", args, to).val.at # <<>>
               /\ Instruction(k(op, "i32", args, to), k(op, "i32", args, to).val).args = args
  <2>. HIDE DEF k
  <2>. QED
    BY <1>10, <1>11
<1>6. /\ \A b \in D : Emits(m, CreateBr(m, b), "none")
      /\ \A c \in S, t, f \in D : Emits(m, CreateCondBr(m, c, t, f), "none")
      /\ Emits(m, CreateRetVoid(m), "none")
      /\ \A vs \in Seq(S), bs \in Seq(D) : Emits(m, CreatePHI(m, vs, bs), "i1")
  BY <1>1, <1>5 DEF CreateBr, CreateCondBr, CreateRetVoid, CreatePHI
<1>7. /\ Emits(m, CreateAlloca(m), "ptr") /\ CreateAlloca(m).val.at # <<>>
      /\ \A n \in Int : /\ Emits(m, CreateArrayAlloca(m, n), "ptr")
                        /\ CreateArrayAlloca(m, n).val.at # <<>>
  BY <1>1, <1>2, <1>5 DEF CreateAlloca, CreateArrayAlloca
<1>8. \A v \in S :
         /\ Emits(m, CreateMalloc(m, v), "ptr") /\ Emits(m, CreateFree(m, v), "none")
         /\ CreateMalloc(m, v).val.at # <<>>
         /\ Emits(m, CreateLoad(m, v), "i32") /\ Emits(m, CreatePrint(m, v), "none")
         /\ CreateLoad(m, v).val.at # <<>>
         /\ Instruction(CreateLoad(m, v), CreateLoad(m, v).val).args = <<v>>
  BY <1>1, <1>5 DEF CreateMalloc, CreateFree, CreateLoad, CreatePrint
<1>9. /\ \A v, w \in S : Emits(m, CreateStore(m, v, w), "none") /\ Emits(m, CreateGEP(m, v, w), "ptr")
      /\ \A v \in S, vs \in Seq(S) : Emits(m, CreateMemCpy(m, v, vs), "none")
      /\ Emits(m, CreateScan(m), "i32")
  BY <1>1, <1>3, <1>5 DEF CreateStore, CreateGEP, CreateMemCpy, CreateScan
<1>. QED
  BY <1>6, <1>7, <1>8, <1>9 DEF S, D

\* k is what is built from m, with a value of type ty, or else the generator fails.
Yields(m, k, ty) == From(m, k) /\ (k.fault = "none" => k.val.ty = ty)

LEMMA ArithInInt ==
    ASSUME NEW a \in Int, NEW b \in Int, NEW op \in Calcs, ArithFault(op, a, b) = "none"
    PROVE  ArithValue(op, a, b) \in Int
<1>1. CASE op \in {"+", "-", "*"}
  <2>1. a + b \in Int /\ a - b \in Int /\ a * b \in Int
    OBVIOUS
  <2>2. Wrap(a + b) \in Int /\ Wrap(a - b) \in Int /\ Wrap(a * b) \in Int
    BY <2>1, WrapsToInt, Width
  <2>. QED
    BY <1>1, <2>2 DEF ArithValue
<1>2. CASE op \in {"/", "%"}
  <2>1. b # 0
    BY <1>2 DEF ArithFault
  <2>2. Quotient(a, b) \in Int
    BY <2>1, Truncation
  <2>3. a - b * Quotient(a, b) \in Int
    BY <2>2
  <2>. QED
    BY <1>2, <2>2, <2>3 DEF ArithValue
<1>. QED
  BY <1>1, <1>2 DEF Calcs

LEMMA Computed ==
    ASSUME NEW m, Built(m), NEW a \in MadeIn(m), NEW b \in MadeIn(m)
    PROVE  /\ \A op \in Calcs : Yields(m, CreateBinOp(m, op, a, b), a.ty)
           /\ \A op \in Comparisons : Yields(m, CreateICmp(m, op, a, b), "i1")
           /\ Yields(m, CreateNeg(m, a), a.ty)
           /\ Yields(m, CreateZExt(m, a), "i32")
<1>. USE DEF Yields
<1>. DEFINE S == MadeIn(m)
            D == DOMAIN m.blocks
            T == {"none", "i1", "i32", "ptr"}
<1>1. /\ a.val \in Int /\ b.val \in Int /\ a.ty \in T
      /\ <<a, b>> \in Seq(S) /\ <<a>> \in Seq(S) /\ <<>> \in Seq(D)
  <2>1. a \in Value /\ b \in Value
    BY DEF MadeIn
  <2>. QED
    BY <2>1 DEF Value
<1>2. \A op \in OpCodes, ty \in T, args \in Seq(S) :
         LET k == Insert(m, op, ty, args, <<>>)
         IN  From(m, k) /\ k.val.ty = ty
  <2>. DEFINE k(op, ty, args, to) == Insert(m, op, ty, args, to)
  <2>1. \A op \in OpCodes, ty \in T, args \in Seq(S), to \in Seq(D) :
           Emits(m, k(op, ty, args, to), IF ty = "void" THEN "none" ELSE ty)
    BY Inserted
  <2>. HIDE DEF S, D, k
  <2>2. \A op \in OpCodes, ty \in T, args \in Seq(S) : Emits(m, k(op, ty, args, <<>>), ty)
    BY <1>1, <2>1
  <2>3. \A op \in OpCodes, ty \in T, args \in Seq(S) :
           From(m, k(op, ty, args, <<>>)) /\ k(op, ty, args, <<>>).val.ty = ty
    BY <2>2 DEF Emits
  <2>. QED
    BY <2>3 DEF k
<1>3. /\ \A ty \in T, v \in Int : From(m, Fold(m, Const(ty, v))) /\ Fold(m, Const(ty, v)).val.ty = ty
      /\ \A ty \in T : From(m, Fold(m, Poison(ty))) /\ Fold(m, Poison(ty)).val.ty = ty
  <2>1. \A v \in S : From(m, Fold(m, v)) /\ Fold(m, v).val = v
    BY ValueSet
  <2>2. \A ty \in T, v \in Int : Const(ty, v) \in S /\ Const(ty, v).ty = ty
    BY ConstantsMade DEF Const
  <2>3. \A ty \in T : Poison(ty) \in S /\ Poison(ty).ty = ty
    BY ConstantsMade DEF Poison
  <2>. HIDE DEF S, T
  <2>. QED
    BY <2>1, <2>2, <2>3
<1>4. From(m, Fault(m, "assertFailed")) /\ Fault(m, "assertFailed").fault # "none"
  BY Failed DEF Faults
<1>5. From(m, Fold(m, a)) /\ Fold(m, a).val = a
  BY ValueSet
<1>. HIDE DEF S, D
<1>6. ASSUME NEW op \in Calcs
      PROVE  Yields(m, CreateBinOp(m, op, a, b), a.ty)
  <2>1. ArithFault(op, a.val, b.val) = "none" => ArithValue(op, a.val, b.val) \in Int
    BY <1>1, ArithInInt
  <2>2. LET k == Insert(m, op, a.ty, <<a, b>>, <<>>) IN From(m, k) /\ k.val.ty = a.ty
    BY <1>1, <1>2 DEF OpCodes
  <2>. QED
    BY <1>1, <1>3, <1>4, <2>1, <2>2 DEF CreateBinOp
<1>7. ASSUME NEW op \in Comparisons
      PROVE  Yields(m, CreateICmp(m, op, a, b), "i1")
  <2>1. LogicValue(op, a.val, b.val) \in Int
    BY LogicIsInt, Width DEF Comparisons
  <2>2. LET k == Insert(m, op, "i1", <<a, b>>, <<>>) IN From(m, k) /\ k.val.ty = "i1"
    BY <1>1, <1>2 DEF OpCodes
  <2>. QED
    BY <1>3, <1>4, <2>1, <2>2 DEF CreateICmp
<1>8. Yields(m, CreateNeg(m, a), a.ty)
  <2>1. Wrap(-a.val) \in Int
    BY <1>1, WrapsToInt, Width
  <2>2. <<Const(a.ty, 0), a>> \in Seq(S)
    BY <1>1, ConstantsMade DEF S
  <2>3. LET k == Insert(m, "-", a.ty, <<Const(a.ty, 0), a>>, <<>>) IN From(m, k) /\ k.val.ty = a.ty
    BY <1>1, <1>2, <2>2 DEF OpCodes, Calcs
  <2>4. isConstant(a) => a.ty = "i1" \/ a.ty = "i32"
    BY DEF isIntegerTy, isConstant
  <2>. QED
    BY <1>3, <1>5, <2>1, <2>3, <2>4 DEF CreateNeg
<1>9. Yields(m, CreateZExt(m, a), "i32")
  <2>1. LET k == Insert(m, "zext", "i32", <<a>>, <<>>) IN From(m, k) /\ k.val.ty = "i32"
    BY <1>1, <1>2 DEF OpCodes
  <2>. QED
    BY <1>1, <1>3, <1>4, <1>5, <2>1 DEF CreateZExt
<1>. QED
  BY <1>6, <1>7, <1>8, <1>9

LEMMA EmitsBuilt ==
    ASSUME NEW m, NEW k, NEW ty, Emits(m, k, ty)
    PROVE  /\ Built(k) /\ From(m, k) /\ k.val \in MadeIn(k) /\ Yields(m, k, ty)
           /\ MadeIn(m) \subseteq MadeIn(k) /\ DOMAIN m.blocks \subseteq DOMAIN k.blocks
BY MadeMore DEF Emits, From, Built, Yields

LEMMA FromBuilt ==
    ASSUME NEW m, NEW k, From(m, k)
    PROVE  /\ Built(k) /\ Grows(m, k) /\ k.val \in MadeIn(k) /\ k.here \in DOMAIN k.blocks
           /\ k.fault \in Faults
           /\ MadeIn(m) \subseteq MadeIn(k) /\ DOMAIN m.blocks \subseteq DOMAIN k.blocks
           /\ Seq(MadeIn(m)) \subseteq Seq(MadeIn(k))
<1>1. Built(k) /\ Grows(m, k)
  BY DEF From
<1>2. k.fault \in Faults /\ k.val \in MadeIn(k) /\ k.here \in DOMAIN k.blocks
  BY <1>1, BuilderFields
<1>. QED
  BY <1>1, <1>2, MadeMore

LEMMA ConditionMade ==
    ASSUME NEW m, Built(m), NEW v \in MadeIn(m)
    PROVE  Yields(m, createCondValueIfNeed(m, v), "i1")
<1>1. From(m, Fold(m, v)) /\ Fold(m, v).val = v
  BY ValueSet
<1>2. Yields(m, CreateICmp(m, "!=", v, Zero), "i1")
  BY ConstantsMade, Computed DEF Comparisons
<1>. QED
  BY <1>1, <1>2 DEF createCondValueIfNeed, Yields

LEMMA Linked ==
    ASSUME NEW m, Built(m)
    PROVE  /\ From(m, createBlockAndLinkWith(m))
           /\ createBlockAndLinkWith(m).fault = m.fault
           /\ createBlockAndLinkWith(m).here = Len(m.blocks) + 1
<1>. DEFINE n == Len(m.blocks) + 1
            a == NewBlocks(m, 1)
            b == CreateBr(a, n)
            c == SetInsertPoint(b, n)
<1>1. Len(m.blocks) \in Nat
  BY BuilderFields
<1>2. From(m, a) /\ a.fault = m.fault /\ DOMAIN a.blocks = 1..n
  BY BlocksAdded
<1>3. n \in DOMAIN a.blocks
  BY <1>1, <1>2
<1>. HIDE DEF a, n
<1>4. Emits(a, b, "none")
  BY <1>2, <1>3, Emitted DEF From
<1>. HIDE DEF b
<1>5. From(a, b) /\ b.fault = a.fault /\ n \in DOMAIN b.blocks
  BY <1>3, <1>4 DEF Emits
<1>6. From(b, c) /\ c.fault = b.fault /\ c.here = n
  BY <1>5, FromBuilt, Moved
<1>. HIDE DEF c
<1>7. From(m, c)
  BY <1>2, <1>5, <1>6, FromFurther
<1>8. createBlockAndLinkWith(m) = c
  BY DEF createBlockAndLinkWith, NextBlock, a, b, c, n
<1>. QED
  BY <1>2, <1>5, <1>6, <1>7, <1>8 DEF n

LEMMA ElementLoaded ==
    ASSUME NEW m, Built(m), NEW p \in MadeIn(m), NEW i \in MadeIn(m)
    PROVE  /\ From(m, LoadElement(m, p, i)) /\ LoadElement(m, p, i).val.ty = "i32"
           /\ LoadElement(m, p, i).fault = m.fault
<1>. DEFINE a == CreateGEP(m, p, i)
            b == CreateLoad(a, a.val)
<1>1. Emits(m, a, "ptr")
  BY Emitted
<1>. HIDE DEF a
<1>2. Emits(a, b, "i32")
  BY <1>1, EmitsBuilt, Emitted
<1>3. LoadElement(m, p, i) = b
  BY DEF LoadElement, LoadHere, a, b
<1>. HIDE DEF b
<1>. QED
  BY <1>1, <1>2, <1>3, FromFurther DEF Emits

LEMMA ElementStored ==
    ASSUME NEW m, Built(m), NEW v \in MadeIn(m), NEW p \in MadeIn(m), NEW i \in MadeIn(m)
    PROVE  From(m, StoreElement(m, v, p, i)) /\ StoreElement(m, v, p, i).fault = m.fault
<1>. DEFINE a == CreateGEP(m, p, i)
            b == CreateStore(a, v, a.val)
<1>1. Emits(m, a, "ptr")
  BY Emitted
<1>. HIDE DEF a
<1>2. Emits(a, b, "none")
  BY <1>1, EmitsBuilt, Emitted
<1>3. StoreElement(m, v, p, i) = b
  BY DEF StoreElement, StoreHere, a, b
<1>. HIDE DEF b
<1>. QED
  BY <1>1, <1>2, <1>3, FromFurther DEF Emits

\* The copy is loaded from a slot of its own, the operand of the load.
LEMMA CopyMade ==
    ASSUME NEW m, Built(m), NEW v \in MadeIn(m)
    PROVE  LET k == createLocalVariable(m, v)
           IN  /\ From(m, k) /\ k.val.ty = "i32" /\ k.fault = m.fault
               /\ Instruction(k, k.val).args[1] \in MadeIn(k)
<1>. DEFINE a == CreateAlloca(m)
            b == CreateStore(a, v, a.val)
            c == CreateLoad(b, a.val)
<1>1. Emits(m, a, "ptr")
  BY Emitted
<1>. HIDE DEF a
<1>2. Emits(a, b, "none") /\ a.val \in MadeIn(a)
  BY <1>1, EmitsBuilt, Emitted
<1>. HIDE DEF b
<1>3. a.val \in MadeIn(b) /\ Built(b)
  BY <1>2, EmitsBuilt
<1>4. Emits(b, c, "i32") /\ Instruction(c, c.val).args = <<a.val>>
  BY <1>3, Emitted
<1>. HIDE DEF c
<1>5. Instruction(c, c.val).args[1] \in MadeIn(c)
  BY <1>3, <1>4, EmitsBuilt
<1>6. createLocalVariable(m, v) = c
  BY DEF createLocalVariable, StoreHere, a, b, c
<1>. QED
  BY <1>1, <1>2, <1>4, <1>5, <1>6, FromFurther DEF Emits

-----------------------------------------------------------------------------
(***************************************************************************)
(* Loops.                                                                  *)
(***************************************************************************)
\* The builder is left in the body, before the block where the loop ends.
LEMMA LoopEntered ==
    ASSUME NEW m, Built(m)
    PROVE  LET k == EnterLoop(m)
           IN  From(m, k) /\ k.fault = m.fault /\ k.here + 1 \in DOMAIN k.blocks
<1>. DEFINE n == Len(m.blocks) + 1
            a == NewBlocks(m, 2)
            b == CreateCondBr(a, m.val, n, n + 1)
            c == SetInsertPoint(b, n)
<1>1. Len(m.blocks) \in Nat
  BY BuilderFields
<1>2. From(m, a) /\ a.fault = m.fault /\ DOMAIN a.blocks = 1..(Len(m.blocks) + 2)
  BY BlocksAdded
<1>3. n \in DOMAIN a.blocks /\ n + 1 \in DOMAIN a.blocks /\ m.val \in MadeIn(a)
  <2>1. n \in 1..(Len(m.blocks) + 2) /\ n + 1 \in 1..(Len(m.blocks) + 2)
    BY <1>1
  <2>. HIDE DEF a, n
  <2>2. m.val \in MadeIn(a)
    BY <1>2, BuilderFields, FromBuilt
  <2>. QED
    BY <1>2, <2>1, <2>2
<1>. HIDE DEF a, n
<1>4. Emits(a, b, "none")
  BY <1>2, <1>3, Emitted DEF From
<1>. HIDE DEF b
<1>5. From(a, b) /\ b.fault = a.fault /\ n \in DOMAIN b.blocks /\ n + 1 \in DOMAIN b.blocks
  BY <1>3, <1>4 DEF Emits
<1>6. From(b, c) /\ c.fault = b.fault /\ c.here = n /\ c.blocks = b.blocks
  BY <1>5, FromBuilt, Moved
<1>. HIDE DEF c
<1>7. From(m, c)
  BY <1>2, <1>5, <1>6, FromFurther
<1>8. EnterLoop(m) = c
  BY DEF EnterLoop, NextBlock, a, b, c, n
<1>. QED
  BY <1>2, <1>5, <1>6, <1>7, <1>8

LEMMA LoopLeft ==
    ASSUME NEW m, Built(m), NEW body \in DOMAIN m.blocks, NEW end \in DOMAIN m.blocks
    PROVE  From(m, LeaveLoop(m, body, end)) /\ LeaveLoop(m, body, end).fault = m.fault
<1>. DEFINE a == CreateCondBr(m, m.val, body, end)
            b == SetInsertPoint(a, end)
<1>1. Emits(m, a, "none")
  BY BuilderFields, Emitted
<1>. HIDE DEF a
<1>2. From(m, a) /\ a.fault = m.fault /\ end \in DOMAIN a.blocks
  BY <1>1 DEF Emits
<1>3. From(a, b) /\ b.fault = a.fault
  BY <1>2, FromBuilt, Moved
<1>4. LeaveLoop(m, body, end) = b
  BY DEF LeaveLoop, a, b
<1>. HIDE DEF b
<1>. QED
  BY <1>2, <1>3, <1>4, FromFurther

LEMMA WhileStarted ==
    ASSUME NEW m, Built(m), NEW v \in MadeIn(m)
    PROVE  LET k == createStartWhile(m, v)
           IN  From(m, k) /\ k.here \in DOMAIN k.blocks /\ k.here + 1 \in DOMAIN k.blocks
<1>. DEFINE a == createBlockAndLinkWith(m)
            b == createCondValueIfNeed(a, v)
            c == EnterLoop(b)
<1>1. From(m, a)
  BY Linked
<1>. HIDE DEF a
<1>2. From(a, b)
  BY <1>1, FromBuilt, ConditionMade DEF Yields
<1>. HIDE DEF b
<1>3. From(b, c) /\ c.here + 1 \in DOMAIN c.blocks
  BY <1>2, FromBuilt, LoopEntered
<1>4. createStartWhile(m, v) = c
  BY DEF createStartWhile, a, b, c
<1>. HIDE DEF c
<1>. QED
  BY <1>1, <1>2, <1>3, <1>4, FromFurther, FromBuilt

LEMMA WhileEnded ==
    ASSUME NEW m, Built(m), NEW v \in MadeIn(m), NEW body \in DOMAIN m.blocks,
           NEW end \in DOMAIN m.blocks
    PROVE  From(m, createEndWhile(m, v, body, end))
<1>. DEFINE a == createCondValueIfNeed(m, v)
            b == LeaveLoop(a, body, end)
<1>1. From(m, a)
  BY ConditionMade DEF Yields
<1>. HIDE DEF a
<1>2. From(a, b)
  BY <1>1, FromBuilt, LoopLeft
<1>3. createEndWhile(m, v, body, end) = b
  BY DEF createEndWhile, a, b
<1>. HIDE DEF b
<1>. QED
  BY <1>1, <1>2, <1>3, FromFurther

\* The slot of the counter is the operand of the load that begins the body.
LEMMA LoopBegun ==
    ASSUME NEW m, Built(m), NEW limit \in MadeIn(m)
    PROVE  LET k == startUpCountLoop(m, limit)
           IN  /\ From(m, k) /\ k.here + 1 \in DOMAIN k.blocks
               /\ Instruction(k, k.val).args[1] \in MadeIn(k)
<1>. DEFINE a == createLocalVariable(m, Zero)
            p == Instruction(a, a.val).args[1]
            b == CreateICmp(a, "<", a.val, limit)
            c == createStartWhile(b, b.val)
            d == CreateLoad(c, p)
<1>1. From(m, a) /\ p \in MadeIn(a)
  BY CopyMade, ConstantsMade
<1>. HIDE DEF a, p
<1>2. From(a, b)
  BY <1>1, FromBuilt, Computed DEF Yields, Comparisons
<1>. HIDE DEF b
<1>3. From(b, c) /\ c.here \in DOMAIN c.blocks /\ c.here + 1 \in DOMAIN c.blocks
  BY <1>2, FromBuilt, WhileStarted
<1>. HIDE DEF c
<1>4. p \in MadeIn(c)
  BY <1>1, <1>2, <1>3, FromBuilt
<1>5. Emits(c, d, "i32") /\ Instruction(d, d.val).args = <<p>>
  BY <1>3, <1>4, FromBuilt, Emitted
<1>. HIDE DEF d
<1>6. Instruction(d, d.val).args[1] \in MadeIn(d) /\ d.here + 1 \in DOMAIN d.blocks /\ From(c, d)
  BY <1>3, <1>4, <1>5, EmitsBuilt DEF Emits
<1>7. startUpCountLoop(m, limit) = d
  BY DEF startUpCountLoop, a, b, c, d, p
<1>. QED
  BY <1>1, <1>2, <1>3, <1>6, <1>7, FromFurther

LEMMA LoopEnded ==
    ASSUME NEW loop, Built(loop), loop.here + 1 \in DOMAIN loop.blocks,
           Instruction(loop, loop.val).args[1] \in MadeIn(loop),
           NEW m, From(loop, m), NEW limit \in MadeIn(m)
    PROVE  From(m, endUpCountLoop(loop, m, limit))
<1>. DEFINE p == Instruction(loop, loop.val).args[1]
            a == CreateBinOp(m, "+", loop.val, One)
            b == CreateStore(a, a.val, p)
            c == CreateICmp(b, "<", a.val, limit)
            d == createEndWhile(c, c.val, loop.here, loop.here + 1)
<1>1. /\ p \in MadeIn(m) /\ loop.val \in MadeIn(m) /\ One \in MadeIn(m)
      /\ loop.here \in DOMAIN m.blocks /\ loop.here + 1 \in DOMAIN m.blocks
  BY BuilderFields, FromBuilt, ConstantsMade
<1>. HIDE DEF p
<1>2. From(m, a)
  BY <1>1, FromBuilt, Computed DEF Yields, Calcs
<1>. HIDE DEF a
<1>3. From(a, b)
  BY <1>1, <1>2, FromBuilt, Emitted DEF Emits
<1>. HIDE DEF b
<1>4. a.val \in MadeIn(b) /\ limit \in MadeIn(b)
  BY <1>2, <1>3, FromBuilt
<1>5. From(b, c)
  BY <1>3, <1>4, FromBuilt, Computed DEF Yields, Comparisons
<1>. HIDE DEF c
<1>6. loop.here \in DOMAIN c.blocks /\ loop.here + 1 \in DOMAIN c.blocks /\ c.val \in MadeIn(c)
      /\ Built(c)
  BY <1>1, <1>2, <1>3, <1>5, FromBuilt
<1>7. From(c, d)
  BY <1>6, WhileEnded
<1>. HIDE DEF d
<1>8. endUpCountLoop(loop, m, limit) = d
  BY DEF endUpCountLoop, a, b, c, d, p
<1>. QED
  BY <1>2, <1>3, <1>5, <1>7, <1>8, FromFurther

-----------------------------------------------------------------------------
(***************************************************************************)
(* Arrays.  Each loop over data is a recursive function: one exists, by    *)
(* Iteration, and builds its code one element at a time.                   *)
(***************************************************************************)
\* What can be built from m.
Later(m) == { k \in Builder : From(m, k) }

LEMMA LaterBuilt ==
    ASSUME NEW m
    PROVE  /\ Built(m) => m \in Later(m)
           /\ \A k : k \in Later(m) <=> From(m, k)
BY FromSelf DEF Later, From, Built

LEMMA DataFilled ==
    ASSUME NEW m, Built(m), NEW p \in MadeIn(m), NEW vs \in Seq(MadeIn(m))
    PROVE  From(m, fillArrayWithData(m, p, vs))
<1>. DEFINE n == Len(vs)
            S(i, k) == StoreElement(k, vs[i], p, Const("i32", i - 1))
            step == [i \in 1..n |-> [k \in Later(m) |-> S(i, k)]]
            Eq(f) == f = [i \in 0..n |-> IF i = 0 THEN m ELSE S(i, f[i - 1])]
            F == CHOOSE f : Eq(f)
<1>1. n \in Nat /\ \A i \in 1..n : vs[i] \in MadeIn(m) /\ i - 1 \in 0..n /\ i - 1 \in Int
  OBVIOUS
<1>2. ASSUME NEW i \in 1..n, NEW k \in Later(m) PROVE S(i, k) \in Later(m)
  <2>1. From(m, k)
    BY <1>2, LaterBuilt
  <2>2. vs[i] \in MadeIn(k) /\ p \in MadeIn(k) /\ Const("i32", i - 1) \in MadeIn(k)
    BY <1>1, <2>1, FromBuilt, ConstantsMade
  <2>3. From(k, S(i, k))
    BY <2>1, <2>2, FromBuilt, ElementStored
  <2>. HIDE DEF S
  <2>. QED
    BY <2>1, <2>3, FromFurther, LaterBuilt
<1>. HIDE DEF n, S
<1>3. \E f : Eq(f)
  <2>1. step \in [1..n -> [Later(m) -> Later(m)]] /\ m \in Later(m)
    BY <1>2, LaterBuilt
  <2>. HIDE DEF step
  <2>2. Steps(0, n, Later(m), m, step)
    BY <1>1, <2>1 DEF Steps
  <2>3. PICK f : Iterates(f, 0, n, Later(m), m, step)
    BY <2>2, Iteration
  <2>4. /\ f \in [0..n -> Later(m)]
        /\ f = [i \in 0..n |-> IF i = 0 THEN m ELSE step[i][f[i - 1]]]
    BY <2>3 DEF Iterates
  <2>5. ASSUME NEW i \in 0..n, i # 0 PROVE step[i][f[i - 1]] = S(i, f[i - 1])
    <3>1. i \in 1..n /\ f[i - 1] \in Later(m)
      BY <1>1, <2>4, <2>5
    <3>. QED
      BY <3>1 DEF step
  <2>. QED
    BY <2>4, <2>5
<1>4. Eq(F)
  BY <1>3
<1>5. fillArrayWithData(m, p, vs) = F[n]
  BY DEF fillArrayWithData, n, S
<1>. HIDE DEF F
<1>6. \A i \in 0..n : F[i] \in Later(m)
  <2>. DEFINE G == { i \in 0..n : F[i] \in Later(m) }
  <2>1. 0 \in G
    BY <1>1, <1>4, LaterBuilt
  <2>2. ASSUME NEW i \in 1..n, i - 1 \in G PROVE i \in G
    BY <1>1, <1>2, <1>4, <2>2
  <2>3. 0..n \subseteq G
    <3>. HIDE DEF G
    <3>. QED
      BY <1>1, <2>1, <2>2, UpTo
  <2>. QED
    BY <2>3
<1>. QED
  BY <1>1, <1>5, <1>6, LaterBuilt

LEMMA ConstantSize ==
    ASSUME NEW m, Built(m), NEW sizes \in Seq(MadeIn(m)), isConstantData(sizes)
    PROVE  \E v \in Int : calculateSize(m, sizes) = Fold(m, Const("i32", v))
<1>. DEFINE n == Len(sizes)
            D == Int
            S(i, k) == Wrap(k * sizes[i].val)
            step == [i \in 1..n |-> [k \in D |-> S(i, k)]]
            Eq(f) == f = [i \in 0..n |-> IF i = 0 THEN 1 ELSE S(i, f[i - 1])]
            F == CHOOSE f : Eq(f)
<1>1. n \in Nat /\ \A i \in 1..n : sizes[i].val \in Int /\ i - 1 \in 0..n
  BY DEF MadeIn, Value
<1>2. ASSUME NEW i \in 1..n, NEW k \in D PROVE S(i, k) \in D
  <2>1. k * sizes[i].val \in Int
    BY <1>1
  <2>2. Wrap(k * sizes[i].val) \in Int
    BY <2>1, WrapsToInt, Width
  <2>. QED
    BY <2>2
<1>3. 1 \in D
  OBVIOUS
<1>. HIDE DEF n, S, D
<1>4. \E f : Eq(f)
  <2>1. step \in [1..n -> [D -> D]]
    BY <1>2
  <2>. HIDE DEF step
  <2>2. Steps(0, n, D, 1, step)
    BY <1>1, <1>3, <2>1 DEF Steps
  <2>3. PICK f : Iterates(f, 0, n, D, 1, step)
    BY <2>2, Iteration
  <2>4. /\ f \in [0..n -> D]
        /\ f = [i \in 0..n |-> IF i = 0 THEN 1 ELSE step[i][f[i - 1]]]
    BY <2>3 DEF Iterates
  <2>5. ASSUME NEW i \in 0..n, i # 0 PROVE step[i][f[i - 1]] = S(i, f[i - 1])
    <3>1. i \in 1..n /\ f[i - 1] \in D
      BY <1>1, <2>4, <2>5
    <3>. QED
      BY <3>1 DEF step
  <2>. QED
    BY <2>4, <2>5
<1>5. Eq(F)
  BY <1>4
<1>6. calculateSize(m, sizes) = Fold(m, Const("i32", F[n]))
  BY DEF calculateSize, n, S
<1>. HIDE DEF F
<1>7. \A i \in 0..n : F[i] \in D
  <2>. DEFINE G == { i \in 0..n : F[i] \in D }
  <2>1. 0 \in G
    BY <1>1, <1>3, <1>5
  <2>2. ASSUME NEW i \in 1..n, i - 1 \in G PROVE i \in G
    BY <1>1, <1>2, <1>5, <2>2
  <2>3. 0..n \subseteq G
    <3>. HIDE DEF G
    <3>. QED
      BY <1>1, <2>1, <2>2, UpTo
  <2>. QED
    BY <2>3
<1>8. F[n] \in Int
  BY <1>1, <1>7 DEF D
<1>. QED
  BY <1>6, <1>8

LEMMA SizeCalculated ==
    ASSUME NEW m, Built(m), NEW sizes \in Seq(MadeIn(m))
    PROVE  From(m, calculateSize(m, sizes))
<1>1. CASE isConstantData(sizes)
  <2>1. PICK v \in Int : calculateSize(m, sizes) = Fold(m, Const("i32", v))
    BY <1>1, ConstantSize
  <2>. QED
    BY <2>1, ConstantsMade, ValueSet
<1>2. CASE ~isConstantData(sizes)
  <2>. DEFINE n == Len(sizes)
              D == Later(m)
              b == Fold(m, One)
              S(i, k) == CreateBinOp(k, "*", k.val, sizes[i])
              step == [i \in 1..n |-> [k \in D |-> S(i, k)]]
              Eq(f) == f = [i \in 0..n |-> IF i = 0 THEN b ELSE S(i, f[i - 1])]
              F == CHOOSE f : Eq(f)
  <2>1. n \in Nat /\ \A i \in 1..n : sizes[i] \in MadeIn(m) /\ i - 1 \in 0..n
    OBVIOUS
  <2>2. ASSUME NEW i \in 1..n, NEW k \in D PROVE S(i, k) \in D
    <3>1. From(m, k)
      BY <2>2, LaterBuilt
    <3>2. sizes[i] \in MadeIn(k) /\ k.val \in MadeIn(k) /\ Built(k)
      BY <2>1, <3>1, FromBuilt
    <3>3. From(k, S(i, k))
      BY <3>2, Computed DEF Yields, Calcs
    <3>. HIDE DEF S
    <3>. QED
      BY <3>1, <3>3, FromFurther, LaterBuilt
  <2>3. b \in D
    BY ConstantsMade, ValueSet, LaterBuilt
  <2>. HIDE DEF n, S, b
  <2>4. \E f : Eq(f)
    <3>1. step \in [1..n -> [D -> D]]
      BY <2>2
    <3>. HIDE DEF step
    <3>2. Steps(0, n, D, b, step)
      BY <2>1, <2>3, <3>1 DEF Steps
    <3>3. PICK f : Iterates(f, 0, n, D, b, step)
      BY <3>2, Iteration
    <3>4. /\ f \in [0..n -> D]
          /\ f = [i \in 0..n |-> IF i = 0 THEN b ELSE step[i][f[i - 1]]]
      BY <3>3 DEF Iterates
    <3>5. ASSUME NEW i \in 0..n, i # 0 PROVE step[i][f[i - 1]] = S(i, f[i - 1])
      <4>1. i \in 1..n /\ f[i - 1] \in D
        BY <2>1, <3>4, <3>5
      <4>. QED
        BY <4>1 DEF step
    <3>. QED
      BY <3>4, <3>5
  <2>5. Eq(F)
    BY <2>4
  <2>6. calculateSize(m, sizes) = F[n]
    BY <1>2 DEF calculateSize, n, S, b
  <2>. HIDE DEF F
  <2>7. \A i \in 0..n : F[i] \in D
    <3>. DEFINE G == { i \in 0..n : F[i] \in D }
    <3>1. 0 \in G
      BY <2>1, <2>3, <2>5
    <3>2. ASSUME NEW i \in 1..n, i - 1 \in G PROVE i \in G
      BY <2>1, <2>2, <2>5, <3>2
    <3>3. 0..n \subseteq G
      <4>. HIDE DEF G
      <4>. QED
        BY <2>1, <3>1, <3>2, UpTo
    <3>. QED
      BY <3>3
  <2>. QED
    BY <2>1, <2>6, <2>7, LaterBuilt
<1>. QED
  BY <1>1, <1>2

\* Unless the generator fails, the array is the slot just allocated.
LEMMA ArrayAllocated ==
    ASSUME NEW m, Built(m), NEW elems \in Seq(MadeIn(m)), NEW size \in Int
    PROVE  LET k == allocateLocalArray(m, elems, size)
           IN  /\ From(m, k)
               /\ k.fault = "none" => k.val.ty = "ptr" /\ k.val.at # <<>>
<1>. DEFINE a == CreateArrayAlloca(m, size)
            b == CreateMemCpy(a, a.val, elems)
            c == fillArrayWithData(a, a.val, elems)
<1>1. Emits(m, a, "ptr") /\ a.val.at # <<>>
  BY Emitted
<1>. HIDE DEF a
<1>2. /\ From(m, a) /\ Built(a) /\ a.val \in MadeIn(a) /\ elems \in Seq(MadeIn(a))
      /\ a.val.ty = "ptr"
  BY <1>1, EmitsBuilt, MadeMore DEF Emits, From
<1>3. From(a, b) /\ From(a, c)
  BY <1>2, Emitted, DataFilled DEF Emits
<1>4. /\ From(b, Fold(b, a.val)) /\ Fold(b, a.val).val = a.val
      /\ From(c, Fold(c, a.val)) /\ Fold(c, a.val).val = a.val
  <2>. HIDE DEF b, c
  <2>1. Built(b) /\ Built(c) /\ a.val \in MadeIn(b) /\ a.val \in MadeIn(c)
    BY <1>2, <1>3, FromBuilt
  <2>. QED
    BY <2>1, ValueSet
<1>5. /\ From(a, Fault(a, "hugeArray")) /\ Fault(a, "hugeArray").fault # "none"
      /\ From(a, Fault(a, "assertFailed")) /\ Fault(a, "assertFailed").fault # "none"
  BY <1>2, Failed DEF Faults
<1>6. allocateLocalArray(m, elems, size) \in
          {a, Fault(a, "hugeArray"), Fault(a, "assertFailed"), Fold(b, a.val), Fold(c, a.val)}
  BY DEF allocateLocalArray, a, b, c
<1>. HIDE DEF b, c
<1>. QED
  BY <1>1, <1>2, <1>3, <1>4, <1>5, <1>6, FromFurther

\* A part of the code and values it computes.
Computes(m, r) == From(m, r.m) /\ r.vs \in Seq(MadeIn(r.m))

\* It does not fail.
Copies(m, r) == Computes(m, r) /\ r.m.fault = m.fault

LEMMA Copied ==
    ASSUME NEW m, Built(m), NEW vs \in Seq(MadeIn(m)), NEW kept
    PROVE  Copies(m, LocalCopies(m, vs, kept))
<1>. DEFINE n == Len(vs)
            D == { r \in [m : Builder, vs : Seq(Value)] : Copies(m, r) }
            b == [m |-> m, vs |-> <<>>]
            copy(i, k) == IF i \in kept THEN Fold(k.m, vs[i]) ELSE createLocalVariable(k.m, vs[i])
            S(i, k) == [m |-> copy(i, k), vs |-> Append(k.vs, copy(i, k).val)]
            step == [i \in 1..n |-> [k \in D |-> S(i, k)]]
            Eq(f) == f = [i \in 0..n |-> IF i = 0 THEN b ELSE S(i, f[i - 1])]
            F == CHOOSE f : Eq(f)
<1>1. n \in Nat /\ \A i \in 1..n : vs[i] \in MadeIn(m) /\ i - 1 \in 0..n
  OBVIOUS
<1>0. ASSUME NEW r, r = [m |-> r.m, vs |-> r.vs], Copies(m, r) PROVE r \in D
  <2>1. r.m \in Builder /\ r.vs \in Seq(Value)
    BY <1>0 DEF Copies, Computes, From, Built, MadeIn
  <2>. QED
    BY <1>0, <2>1
<1>2. ASSUME NEW i \in 1..n, NEW k \in D PROVE S(i, k) \in D
  <2>1. From(m, k.m) /\ k.vs \in Seq(MadeIn(k.m)) /\ k.m.fault = m.fault
    BY <1>2 DEF Copies, Computes
  <2>2. vs[i] \in MadeIn(k.m) /\ Built(k.m)
    BY <1>1, <2>1, FromBuilt
  <2>3. From(k.m, copy(i, k)) /\ copy(i, k).fault = k.m.fault
    BY <2>2, ValueSet, CopyMade
  <2>. HIDE DEF copy
  <2>4. copy(i, k).val \in MadeIn(copy(i, k)) /\ k.vs \in Seq(MadeIn(copy(i, k)))
    BY <2>1, <2>3, FromBuilt
  <2>5. From(m, copy(i, k))
    BY <2>1, <2>3, FromFurther
  <2>6. Append(k.vs, copy(i, k).val) \in Seq(MadeIn(copy(i, k)))
    BY <2>4
  <2>7. Copies(m, S(i, k))
    BY <2>1, <2>3, <2>5, <2>6 DEF Copies, Computes
  <2>8. S(i, k) = [m |-> S(i, k).m, vs |-> S(i, k).vs]
    OBVIOUS
  <2>. HIDE DEF S, D
  <2>. QED
    BY <1>0, <2>7, <2>8
<1>3. b \in D
  <2>1. Copies(m, b)
    BY FromSelf DEF Copies, Computes
  <2>. HIDE DEF D
  <2>. QED
    BY <1>0, <2>1
<1>. HIDE DEF n, S, D
<1>4. \E f : Eq(f)
  <2>1. step \in [1..n -> [D -> D]]
    BY <1>2
  <2>. HIDE DEF step
  <2>2. Steps(0, n, D, b, step)
    BY <1>1, <1>3, <2>1 DEF Steps
  <2>3. PICK f : Iterates(f, 0, n, D, b, step)
    BY <2>2, Iteration
  <2>4. /\ f \in [0..n -> D]
        /\ f = [i \in 0..n |-> IF i = 0 THEN b ELSE step[i][f[i - 1]]]
    BY <2>3 DEF Iterates
  <2>5. ASSUME NEW i \in 0..n, i # 0 PROVE step[i][f[i - 1]] = S(i, f[i - 1])
    <3>1. i \in 1..n /\ f[i - 1] \in D
      BY <1>1, <2>4, <2>5
    <3>. QED
      BY <3>1 DEF step
  <2>. QED
    BY <2>4, <2>5
<1>5. Eq(F)
  BY <1>4
<1>6. LocalCopies(m, vs, kept) = F[n]
  BY DEF LocalCopies, n, S, copy, b
<1>. HIDE DEF F
<1>7. \A i \in 0..n : F[i] \in D
  <2>. DEFINE G == { i \in 0..n : F[i] \in D }
  <2>1. 0 \in G
    BY <1>1, <1>3, <1>5
  <2>2. ASSUME NEW i \in 1..n, i - 1 \in G PROVE i \in G
    BY <1>1, <1>2, <1>5, <2>2
  <2>3. 0..n \subseteq G
    <3>. HIDE DEF G
    <3>. QED
      BY <1>1, <2>1, <2>2, UpTo
  <2>. QED
    BY <2>3
<1>8. F[n] \in D
  BY <1>1, <1>7
<1>. QED
  BY <1>6, <1>8 DEF D

LEMMA Freed ==
    ASSUME NEW m, Built(m), NEW b,
           b \in DOMAIN ResourcesToFree => ResourcesToFree[b] \in Seq(MadeIn(m))
    PROVE  From(m, freeResources(m, b))
<1>. DEFINE list == IF b \in DOMAIN ResourcesToFree THEN ResourcesToFree[b] ELSE <<>>
            n == Len(list)
            D == Later(m)
            S(i, k) == CreateFree(k, list[i])
            step == [i \in 1..n |-> [k \in D |-> S(i, k)]]
            Eq(f) == f = [i \in 0..n |-> IF i = 0 THEN m ELSE S(i, f[i - 1])]
            F == CHOOSE f : Eq(f)
<1>0. list \in Seq(MadeIn(m))
  OBVIOUS
<1>1. n \in Nat /\ \A i \in 1..n : list[i] \in MadeIn(m) /\ i - 1 \in 0..n
  <2>. HIDE DEF list
  <2>. QED
    BY <1>0
<1>2. ASSUME NEW i \in 1..n, NEW k \in D PROVE S(i, k) \in D
  <2>. HIDE DEF list
  <2>1. From(m, k)
    BY <1>2, LaterBuilt
  <2>2. list[i] \in MadeIn(k) /\ Built(k)
    BY <1>1, <2>1, FromBuilt
  <2>3. From(k, S(i, k))
    BY <2>2, Emitted DEF Emits
  <2>. HIDE DEF S
  <2>. QED
    BY <2>1, <2>3, FromFurther, LaterBuilt
<1>3. m \in D
  BY LaterBuilt
<1>. HIDE DEF n, S, list
<1>4. \E f : Eq(f)
  <2>1. step \in [1..n -> [D -> D]]
    BY <1>2
  <2>. HIDE DEF step
  <2>2. Steps(0, n, D, m, step)
    BY <1>1, <1>3, <2>1 DEF Steps
  <2>3. PICK f : Iterates(f, 0, n, D, m, step)
    BY <2>2, Iteration
  <2>4. /\ f \in [0..n -> D]
        /\ f = [i \in 0..n |-> IF i = 0 THEN m ELSE step[i][f[i - 1]]]
    BY <2>3 DEF Iterates
  <2>5. ASSUME NEW i \in 0..n, i # 0 PROVE step[i][f[i - 1]] = S(i, f[i - 1])
    <3>1. i \in 1..n /\ f[i - 1] \in D
      BY <1>1, <2>4, <2>5
    <3>. QED
      BY <3>1 DEF step
  <2>. QED
    BY <2>4, <2>5
<1>5. Eq(F)
  BY <1>4
<1>6. freeResources(m, b) = F[n]
  BY DEF freeResources, n, S, list
<1>. HIDE DEF F
<1>7. \A i \in 0..n : F[i] \in D
  <2>. DEFINE G == { i \in 0..n : F[i] \in D }
  <2>1. 0 \in G
    BY <1>1, <1>3, <1>5
  <2>2. ASSUME NEW i \in 1..n, i - 1 \in G PROVE i \in G
    BY <1>1, <1>2, <1>5, <2>2
  <2>3. 0..n \subseteq G
    <3>. HIDE DEF G
    <3>. QED
      BY <1>1, <2>1, <2>2, UpTo
  <2>. QED
    BY <2>3
<1>. QED
  BY <1>1, <1>6, <1>7, LaterBuilt

\* What an index is multiplied by: the sizes of the dimensions inside its own.
LEMMA MultiplierMade ==
    ASSUME NEW m, Built(m), NEW sizes \in Seq(MadeIn(m)), NEW hi \in Nat, hi = Len(sizes),
           NEW lo \in 1..hi
    PROVE  LET Upto[j \in lo..hi] ==
                   IF j = lo THEN Fold(m, One)
                   ELSE LET outer == Upto[j - 1]
                        IN  CreateBinOp(outer, "*", outer.val, Dimension(sizes, j))
           IN  From(m, Upto[hi])
<1>. DEFINE D == Later(m)
            b == Fold(m, One)
            S(i, k) == CreateBinOp(k, "*", k.val, Dimension(sizes, i))
            step == [i \in (lo + 1)..hi |-> [k \in D |-> S(i, k)]]
            Eq(f) == f = [i \in lo..hi |-> IF i = lo THEN b ELSE S(i, f[i - 1])]
            F == CHOOSE f : Eq(f)
<1>1. /\ lo \in Nat /\ lo <= hi /\ hi \in lo..hi /\ lo \in lo..hi
      /\ \A i \in lo..hi : i # lo => i \in (lo + 1)..hi
      /\ \A i \in (lo + 1)..hi : i - 1 \in lo..hi /\ i \in lo..hi /\ i # lo
      /\ \A i \in (lo + 1)..hi : Dimension(sizes, i) \in MadeIn(m)
  <2>1. \A i \in (lo + 1)..hi : Len(sizes) - i + 1 \in 1..Len(sizes)
    OBVIOUS
  <2>2. \A i \in 1..Len(sizes) : sizes[i] \in MadeIn(m)
    OBVIOUS
  <2>3. \A i \in (lo + 1)..hi : Dimension(sizes, i) \in MadeIn(m)
    BY <2>1, <2>2 DEF Dimension
  <2>. QED
    BY <2>3
<1>2. ASSUME NEW i \in (lo + 1)..hi, NEW k \in D PROVE S(i, k) \in D
  <2>1. From(m, k)
    BY <1>2, LaterBuilt
  <2>2. Dimension(sizes, i) \in MadeIn(k) /\ k.val \in MadeIn(k) /\ Built(k)
    BY <1>1, <2>1, FromBuilt
  <2>3. From(k, S(i, k))
    BY <2>2, Computed DEF Yields, Calcs
  <2>. HIDE DEF S
  <2>. QED
    BY <2>1, <2>3, FromFurther, LaterBuilt
<1>3. b \in D
  BY ConstantsMade, ValueSet, LaterBuilt
<1>. HIDE DEF S, b
<1>4. \E f : Eq(f)
  <2>1. step \in [(lo + 1)..hi -> [D -> D]]
    BY <1>2
  <2>. HIDE DEF step
  <2>2. Steps(lo, hi, D, b, step)
    BY <1>1, <1>3, <2>1 DEF Steps
  <2>3. PICK f : Iterates(f, lo, hi, D, b, step)
    BY <2>2, Iteration
  <2>4. /\ f \in [lo..hi -> D]
        /\ f = [i \in lo..hi |-> IF i = lo THEN b ELSE step[i][f[i - 1]]]
    BY <2>3 DEF Iterates
  <2>5. ASSUME NEW i \in lo..hi, i # lo PROVE step[i][f[i - 1]] = S(i, f[i - 1])
    <3>1. i \in (lo + 1)..hi /\ f[i - 1] \in D
      BY <1>1, <2>4, <2>5
    <3>. QED
      BY <3>1 DEF step
  <2>. QED
    BY <2>4, <2>5
<1>5. Eq(F)
  BY <1>4
<1>. HIDE DEF F
<1>6. \A i \in lo..hi : F[i] \in D
  <2>. DEFINE G == { i \in lo..hi : F[i] \in D }
  <2>1. lo \in G
    BY <1>1, <1>3, <1>5
  <2>2. ASSUME NEW i \in (lo + 1)..hi, i - 1 \in G PROVE i \in G
    BY <1>1, <1>2, <1>5, <2>2
  <2>3. lo..hi \subseteq G
    <3>. HIDE DEF G
    <3>. QED
      BY <1>1, <2>1, <2>2, Through
  <2>. QED
    BY <2>3
<1>7. From(m, F[hi])
  BY <1>1, <1>6, LaterBuilt
<1>. QED
  BY <1>7 DEF F, S, b

LEMMA IndexComputed ==
    ASSUME NEW m, Built(m), NEW sizes \in Seq(MadeIn(m)), NEW indexes \in Seq(MadeIn(m)),
           Len(sizes) = Len(indexes)
    PROVE  From(m, AccessIndex(m, sizes, indexes))
<1>. DEFINE n == Len(indexes)
            D == Later(m)
            b == Fold(m, Zero)
            M(from, i) ==
                LET Upto[j \in i..n] ==
                        IF j = i THEN Fold(from, One)
                        ELSE LET outer == Upto[j - 1]
                             IN  CreateBinOp(outer, "*", outer.val, Dimension(sizes, j))
                IN  Upto[n]
            T(i, k) == CreateBinOp(M(k, i), "*", indexes[i], M(k, i).val)
            S(i, k) == CreateBinOp(T(i, k), "+", k.val, T(i, k).val)
            step == [i \in 1..n |-> [k \in D |-> S(i, k)]]
            Eq(f) == f = [i \in 0..n |-> IF i = 0 THEN b ELSE S(i, f[i - 1])]
            F == CHOOSE f : Eq(f)
<1>1. n \in Nat /\ \A i \in 1..n : indexes[i] \in MadeIn(m) /\ i - 1 \in 0..n
  OBVIOUS
<1>2. ASSUME NEW i \in 1..n, NEW k \in D PROVE S(i, k) \in D
  <2>1. From(m, k) /\ Built(k)
    BY <1>2, LaterBuilt, FromBuilt
  <2>2. sizes \in Seq(MadeIn(k)) /\ indexes[i] \in MadeIn(k) /\ k.val \in MadeIn(k)
    BY <1>1, <2>1, FromBuilt
  <2>3. From(k, M(k, i))
    <3>1. n = Len(sizes)
      OBVIOUS
    <3>. HIDE DEF n
    <3>. QED
      BY <1>1, <2>1, <2>2, <3>1, MultiplierMade
  <2>. HIDE DEF M
  <2>4. From(M(k, i), T(i, k))
    <3>1. indexes[i] \in MadeIn(M(k, i)) /\ M(k, i).val \in MadeIn(M(k, i)) /\ Built(M(k, i))
      BY <2>2, <2>3, FromBuilt
    <3>. QED
      BY <3>1, Computed DEF Yields, Calcs
  <2>. HIDE DEF T
  <2>5. From(k, T(i, k))
    BY <2>3, <2>4, FromFurther
  <2>6. From(T(i, k), S(i, k))
    <3>1. k.val \in MadeIn(T(i, k)) /\ T(i, k).val \in MadeIn(T(i, k)) /\ Built(T(i, k))
      BY <2>2, <2>5, FromBuilt
    <3>. QED
      BY <3>1, Computed DEF Yields, Calcs
  <2>. HIDE DEF S
  <2>. QED
    BY <2>1, <2>5, <2>6, FromFurther, LaterBuilt
<1>3. b \in D
  BY ConstantsMade, ValueSet, LaterBuilt
<1>. HIDE DEF n, S, T, M, b
<1>4. \E f : Eq(f)
  <2>1. step \in [1..n -> [D -> D]]
    BY <1>2
  <2>. HIDE DEF step
  <2>2. Steps(0, n, D, b, step)
    BY <1>1, <1>3, <2>1 DEF Steps
  <2>3. PICK f : Iterates(f, 0, n, D, b, step)
    BY <2>2, Iteration
  <2>4. /\ f \in [0..n -> D]
        /\ f = [i \in 0..n |-> IF i = 0 THEN b ELSE step[i][f[i - 1]]]
    BY <2>3 DEF Iterates
  <2>5. ASSUME NEW i \in 0..n, i # 0 PROVE step[i][f[i - 1]] = S(i, f[i - 1])
    <3>1. i \in 1..n /\ f[i - 1] \in D
      BY <1>1, <2>4, <2>5
    <3>. QED
      BY <3>1 DEF step
  <2>. QED
    BY <2>4, <2>5
<1>5. Eq(F)
  BY <1>4
<1>6. AccessIndex(m, sizes, indexes) = F[n]
  BY DEF AccessIndex, n, S, T, M, b
<1>. HIDE DEF F
<1>7. \A i \in 0..n : F[i] \in D
  <2>. DEFINE G == { i \in 0..n : F[i] \in D }
  <2>1. 0 \in G
    BY <1>1, <1>3, <1>5
  <2>2. ASSUME NEW i \in 1..n, i - 1 \in G PROVE i \in G
    <3>1. i \in 0..n /\ i # 0 /\ F[i - 1] \in D
      BY <1>1, <2>2
    <3>2. F[i] = S(i, F[i - 1])
      BY <1>5, <3>1
    <3>. QED
      BY <1>2, <3>1, <3>2
  <2>3. 0..n \subseteq G
    <3>. HIDE DEF G
    <3>. QED
      BY <1>1, <2>1, <2>2, UpTo
  <2>. QED
    BY <2>3
<1>. QED
  BY <1>1, <1>6, <1>7, LaterBuilt

LEMMA Flattened ==
    ASSUME NEW T, NEW ss \in Seq(Seq(T))
    PROVE  FlattenSeq(ss) \in Seq(T)
<1>. DEFINE n == Len(ss)
            D == Seq(T)
            S(i, k) == k \o ss[i]
            step == [i \in (1 + 1)..n |-> [k \in D |-> S(i, k)]]
            Eq(f) == f = [i \in 1..n |-> IF i = 1 THEN ss[i] ELSE S(i, f[i - 1])]
            F == CHOOSE f : Eq(f)
<1>1. CASE n = 0
  <2>1. ss = <<>>
    BY <1>1
  <2>. QED
    BY <1>1, <2>1 DEF FlattenSeq
<1>2. CASE n # 0
  <2>1. /\ n \in Nat /\ 1 <= n /\ n \in 1..n /\ 1 \in 1..n
        /\ \A i \in 1..n : ss[i] \in D /\ (i # 1 => i \in (1 + 1)..n)
        /\ \A i \in (1 + 1)..n : i \in 1..n /\ i - 1 \in 1..n /\ i # 1
    BY <1>2
  <2>2. ASSUME NEW i \in (1 + 1)..n, NEW k \in D PROVE S(i, k) \in D
    BY <2>1
  <2>. HIDE DEF n, S, D
  <2>3. \E f : Eq(f)
    <3>1. step \in [(1 + 1)..n -> [D -> D]]
      BY <2>2
    <3>. HIDE DEF step
    <3>2. Steps(1, n, D, ss[1], step)
      BY <2>1, <3>1 DEF Steps
    <3>3. PICK f : Iterates(f, 1, n, D, ss[1], step)
      BY <3>2, Iteration
    <3>4. /\ f \in [1..n -> D]
          /\ f = [i \in 1..n |-> IF i = 1 THEN ss[1] ELSE step[i][f[i - 1]]]
      BY <3>3 DEF Iterates
    <3>5. ASSUME NEW i \in 1..n, i # 1 PROVE step[i][f[i - 1]] = S(i, f[i - 1])
      <4>1. i \in (1 + 1)..n /\ f[i - 1] \in D
        BY <2>1, <3>4, <3>5
      <4>. QED
        BY <4>1 DEF step
    <3>6. ASSUME NEW i \in 1..n
          PROVE  f[i] = IF i = 1 THEN ss[i] ELSE S(i, f[i - 1])
      BY <3>4, <3>5
    <3>7. f = [i \in 1..n |-> f[i]]
      BY <3>4
    <3>8. Eq(f)
      BY <3>6, <3>7
    <3>. QED
      BY <3>8
  <2>4. Eq(F)
    BY <2>3
  <2>5. FlattenSeq(ss) = F[n]
    BY <1>2 DEF FlattenSeq, n, S
  <2>. HIDE DEF F
  <2>6. \A i \in 1..n : F[i] \in D
    <3>. DEFINE G == { i \in 1..n : F[i] \in D }
    <3>1. 1 \in G
      BY <2>1, <2>4
    <3>2. ASSUME NEW i \in (1 + 1)..n, i - 1 \in G PROVE i \in G
      BY <2>1, <2>2, <2>4, <3>2
    <3>3. 1..n \subseteq G
      <4>. HIDE DEF G
      <4>. QED
        BY <2>1, <3>1, <3>2, Through
    <3>. QED
      BY <3>3
  <2>7. F[n] \in D
    BY <2>1, <2>6
  <2>. QED
    BY <2>5, <2>7 DEF D
<1>. QED
  BY <1>1, <1>2

LEMMA ElementChosen ==
    ASSUME NEW m, Built(m), NEW data \in Seq(MadeIn(m)), NEW support \in MadeIn(m)
    PROVE  From(m, InitialElement(m, data, support))
<1>. DEFINE a == CreateBinOp(m, "%", m.val, Const("i32", Len(data)))
            b == LoadElement(a, support, a.val)
            c == Fold(m, data[1])
<1>1. Len(data) \in Nat /\ (Len(data) = 1 => data[1] \in MadeIn(m)) /\ m.val \in MadeIn(m)
  BY BuilderFields
<1>2. From(m, a)
  BY <1>1, ConstantsMade, Computed DEF Yields, Calcs
<1>3. From(a, b)
  <2>. HIDE DEF a
  <2>. QED
    BY <1>2, FromBuilt, ElementLoaded
<1>4. Len(data) = 1 => From(m, c)
  BY <1>1, ValueSet
<1>5. InitialElement(m, data, support) = IF Len(data) = 1 THEN c ELSE b
  BY DEF InitialElement, a, b, c
<1>. HIDE DEF a, b, c
<1>. QED
  BY <1>2, <1>3, <1>4, <1>5, FromFurther

LEMMA HeapArrayMade ==
    ASSUME Built(ir), NEW info, info.sizes \in Seq(MadeIn(ir)), info.data \in Seq(MadeIn(ir))
    PROVE  LET k == CreateHeapArray(info)
           IN  From(ir, k) /\ k.val.ty = "ptr" /\ k.val.at # <<>>
<1>. DEFINE size == calculateSize(ir, info.sizes)
            heap == CreateMalloc(size, size.val)
            a == allocateLocalArray(heap, info.data, Len(info.data))
            b == startUpCountLoop(a, size.val)
            c == InitialElement(b, info.data, a.val)
            d == StoreElement(c, c.val, heap.val, b.val)
            e == endUpCountLoop(b, d, size.val)
            f == Fold(e, heap.val)
<1>1. From(ir, size)
  BY SizeCalculated
<1>. HIDE DEF size
<1>2. /\ Emits(size, heap, "ptr") /\ heap.val.at # <<>>
  BY <1>1, FromBuilt, Emitted
<1>. HIDE DEF heap
<1>3. From(size, heap) /\ From(ir, heap) /\ heap.val.ty = "ptr" /\ size.val \in MadeIn(heap)
  BY <1>1, <1>2, FromBuilt, FromFurther DEF Emits
<1>4. From(heap, a)
  <2>1. Len(info.data) \in Int
    OBVIOUS
  <2>2. Built(heap) /\ info.data \in Seq(MadeIn(heap))
    BY <1>3, FromBuilt
  <2>. QED
    BY <2>1, <2>2, ArrayAllocated
<1>. HIDE DEF a
<1>5. From(ir, a) /\ size.val \in MadeIn(a) /\ heap.val \in MadeIn(a)
  BY <1>3, <1>4, FromBuilt, FromFurther
<1>6. /\ From(a, b) /\ b.here + 1 \in DOMAIN b.blocks
      /\ Instruction(b, b.val).args[1] \in MadeIn(b)
  BY <1>5, FromBuilt, LoopBegun
<1>. HIDE DEF b
<1>7. From(ir, b) /\ size.val \in MadeIn(b) /\ heap.val \in MadeIn(b) /\ a.val \in MadeIn(b)
  BY <1>5, <1>6, FromBuilt, FromFurther
<1>8. From(b, c)
  BY <1>7, FromBuilt, ElementChosen
<1>. HIDE DEF c
<1>9. From(c, d)
  <2>1. Built(c) /\ c.val \in MadeIn(c) /\ heap.val \in MadeIn(c) /\ b.val \in MadeIn(c)
    BY <1>7, <1>8, FromBuilt
  <2>. QED
    BY <2>1, ElementStored
<1>. HIDE DEF d
<1>10. From(b, d) /\ From(ir, d) /\ size.val \in MadeIn(d)
  BY <1>7, <1>8, <1>9, FromBuilt, FromFurther
<1>11. From(d, e)
  BY <1>6, <1>7, <1>10, FromBuilt, LoopEnded
<1>. HIDE DEF e
<1>12. From(ir, e) /\ heap.val \in MadeIn(e)
  BY <1>7, <1>10, <1>11, FromBuilt, FromFurther
<1>13. From(e, f) /\ f.val = heap.val
  BY <1>12, FromBuilt, ValueSet
<1>. HIDE DEF f
<1>14. CreateHeapArray(info) = f
  BY DEF CreateHeapArray, f, e, d, c, b, a, heap, size
<1>. QED
  BY <1>2, <1>3, <1>12, <1>13, <1>14, FromFurther

\* An array is the slot or the heap array just allocated.
LEMMA ArrayMade ==
    ASSUME Built(ir), NEW info, info.sizes \in Seq(MadeIn(ir)), info.data \in Seq(MadeIn(ir))
    PROVE  LET k == createArray(info)
           IN  /\ From(ir, k)
               /\ k.fault = "none" => k.val.ty = "ptr" /\ k.val.at # <<>>
<1>. DEFINE size == calculateSize(ir, info.sizes)
<1>1. size.val.val \in Int
  <2>1. size.val \in MadeIn(size)
    BY SizeCalculated, FromBuilt
  <2>. HIDE DEF size
  <2>. QED
    BY <2>1 DEF MadeIn, Value
<1>. HIDE DEF size
<1>2. LET k == allocateLocalArray(ir, info.data, size.val.val)
      IN  /\ From(ir, k)
          /\ k.fault = "none" => k.val.ty = "ptr" /\ k.val.at # <<>>
  BY <1>1, ArrayAllocated
<1>3. LET k == CreateHeapArray(info)
      IN  From(ir, k) /\ k.val.ty = "ptr" /\ k.val.at # <<>>
  BY HeapArrayMade
<1>4. createArray(info) \in {allocateLocalArray(ir, info.data, size.val.val), CreateHeapArray(info)}
  BY DEF createArray, size
<1>. QED
  BY <1>2, <1>3, <1>4

LEMMA ArrayPrinted ==
    ASSUME Built(ir), NEW p \in MadeIn(ir), Info(p).sizes \in Seq(MadeIn(ir))
    PROVE  From(ir, PrintArray(p))
<1>. DEFINE size == calculateSize(ir, Info(p).sizes)
            b == startUpCountLoop(size, size.val)
            c == LoadElement(b, p, b.val)
            d == CreatePrint(c, c.val)
            e == endUpCountLoop(b, d, size.val)
<1>1. From(ir, size)
  BY SizeCalculated
<1>. HIDE DEF size
<1>2. /\ From(size, b) /\ b.here + 1 \in DOMAIN b.blocks
      /\ Instruction(b, b.val).args[1] \in MadeIn(b)
  BY <1>1, FromBuilt, LoopBegun
<1>. HIDE DEF b
<1>3. From(ir, b) /\ size.val \in MadeIn(b) /\ p \in MadeIn(b) /\ b.val \in MadeIn(b)
  BY <1>1, <1>2, FromBuilt, FromFurther
<1>4. From(b, c)
  BY <1>3, FromBuilt, ElementLoaded
<1>. HIDE DEF c
<1>5. From(c, d)
  BY <1>4, FromBuilt, Emitted DEF Emits
<1>. HIDE DEF d
<1>6. From(b, d) /\ size.val \in MadeIn(d)
  BY <1>3, <1>4, <1>5, FromBuilt, FromFurther
<1>7. From(d, e)
  BY <1>2, <1>3, <1>6, FromBuilt, LoopEnded
<1>. HIDE DEF e
<1>8. PrintArray(p) = e
  BY DEF PrintArray, e, d, c, b, size
<1>. QED
  BY <1>3, <1>6, <1>7, <1>8, FromFurther

LEMMA ElementAdded ==
    ASSUME Built(ir), NEW v \in MadeIn(ir),
           isArray(v) => Info(v).sizes \in Seq(MadeIn(ir)) /\ Info(v).data \in Seq(MadeIn(ir))
    PROVE  Computes(ir, ElementData(v))
<1>1. Computes(ir, [m |-> ir, vs |-> <<>>]) /\ Computes(ir, [m |-> ir, vs |-> <<v>>])
  BY FromSelf DEF Computes
<1>2. Computes(ir, [m |-> Fault(ir, "assertFailed"), vs |-> <<>>])
  BY Failed DEF Computes, Faults
<1>3. isArray(v) => Computes(ir, CopyData(ir, Info(v).data))
  BY Copied DEF CopyData, Copies
<1>. QED
  BY <1>1, <1>2, <1>3 DEF ElementData

-----------------------------------------------------------------------------
(***************************************************************************)
(* Branches.                                                               *)
(***************************************************************************)
LEMMA Branched ==
    ASSUME NEW m, Built(m), NEW n \in Nat, NEW c \in MadeIn(m),
           NEW t \in 1..(Len(m.blocks) + n), NEW f \in 1..(Len(m.blocks) + n),
           NEW b \in 1..(Len(m.blocks) + n)
    PROVE  LET k == SetInsertPoint(CreateCondBr(NewBlocks(m, n), c, t, f), b)
           IN  /\ From(m, k) /\ k.fault = m.fault /\ k.here = b
               /\ DOMAIN k.blocks = 1..(Len(m.blocks) + n)
<1>. DEFINE x == NewBlocks(m, n)
            y == CreateCondBr(x, c, t, f)
            z == SetInsertPoint(y, b)
<1>1. From(m, x) /\ x.fault = m.fault /\ DOMAIN x.blocks = 1..(Len(m.blocks) + n)
  BY BlocksAdded
<1>. HIDE DEF x
<1>2. Emits(x, y, "none")
  BY <1>1, FromBuilt, Emitted
<1>. HIDE DEF y
<1>3. From(x, y) /\ y.fault = x.fault /\ DOMAIN y.blocks = 1..(Len(m.blocks) + n)
  BY <1>1, <1>2 DEF Emits
<1>4. From(y, z) /\ z.fault = y.fault /\ z.here = b /\ z.blocks = y.blocks
  BY <1>3, FromBuilt, Moved
<1>. HIDE DEF z
<1>5. From(m, z) /\ z.fault = m.fault /\ z.here = b /\ DOMAIN z.blocks = 1..(Len(m.blocks) + n)
  BY <1>1, <1>3, <1>4, FromFurther
<1>. QED
  BY <1>5 DEF x, y, z

LEMMA Jumped ==
    ASSUME NEW m, Built(m), NEW t \in DOMAIN m.blocks, NEW b \in DOMAIN m.blocks
    PROVE  LET k == SetInsertPoint(CreateBr(m, t), b)
           IN  /\ From(m, k) /\ k.fault = m.fault /\ k.here = b
               /\ DOMAIN k.blocks = DOMAIN m.blocks /\ From(m, CreateBr(m, t))
               /\ DOMAIN CreateBr(m, t).blocks = DOMAIN m.blocks
<1>. DEFINE y == CreateBr(m, t)
            z == SetInsertPoint(y, b)
<1>1. Emits(m, y, "none")
  BY Emitted
<1>. HIDE DEF y
<1>2. From(m, y) /\ y.fault = m.fault /\ DOMAIN y.blocks = DOMAIN m.blocks
  BY <1>1 DEF Emits
<1>3. From(y, z) /\ z.fault = y.fault /\ z.here = b /\ z.blocks = y.blocks
  BY <1>2, FromBuilt, Moved
<1>. HIDE DEF z
<1>4. From(m, z) /\ z.fault = m.fault /\ z.here = b /\ DOMAIN z.blocks = DOMAIN m.blocks
  BY <1>2, <1>3, FromFurther
<1>. QED
  BY <1>2, <1>4 DEF y, z
=============================================================================

--------------------------------- MODULE IR ---------------------------------
(***************************************************************************)
(* The LLVM IR under construction: IRCodeGenerator and what it uses of     *)
(* llvm::IRBuilder.                                                        *)
(*                                                                         *)
(* A function is a sequence of basic blocks, a block a sequence of         *)
(* instructions, and blocks are numbered in the order they are created.  A *)
(* value is a constant, which may be poison, or the place                  *)
(* <<block, position>> of the instruction that computes it.  The builder   *)
(* is a record m:                                                          *)
(*   blocks   the code so far                                              *)
(*   here     the block GetInsertBlock returns; instructions go to its end *)
(*   val      what the last call of the builder returned                   *)
(*   fault    why the generating process stopped, "none" if it did not     *)
(* The text of the module is what LLVM prints of it and clang reads back.  *)
(***************************************************************************)
EXTENDS Int32, Sequences

\* Values: i32 and i1 integers, pointers, and nullptr (the type none).
Const(ty, v)    == [ty |-> ty, at |-> <<>>, val |-> v, poison |-> FALSE]
Poison(ty)      == [ty |-> ty, at |-> <<>>, val |-> 0, poison |-> TRUE]
Place(ty, b, i) == [ty |-> ty, at |-> <<b, i>>, val |-> 0, poison |-> FALSE]

nullptr == Const("none", 0)
Zero    == Const("i32", 0)
One     == Const("i32", 1)
Bool(b) == Const("i1", Truth(b))

isIntegerTy(v)   == v.ty \in {"i1", "i32"}
isConstant(v)    == isIntegerTy(v) /\ v.at = <<>>
isConstantInt(v) == isConstant(v) /\ ~v.poison

isConstantData(vs) == \A i \in DOMAIN vs : isConstantInt(vs[i])

Calcs       == {"+", "-", "*", "/", "%"}
Comparisons == {"<", "<=", ">", ">=", "==", "!="}
Terminators == {"br", "condbr", "ret"}

\* What a value, an instruction and a builder are made of.
Value   == [ty : {"none", "i1", "i32", "ptr"}, at : {<<>>} \cup (Nat \X Nat), val : Int,
            poison : BOOLEAN]
OpCodes == Calcs \cup Comparisons \cup Terminators
              \cup {"zext", "phi", "alloca", "allocArray", "malloc", "gep", "load", "store",
                    "memcpy", "free", "scan", "print"}
Instr   == [op : OpCodes, ty : {"none", "void", "i1", "i32", "ptr"}, args : Seq(Value), to : Seq(Nat)]
Faults  == {"none", "assertFailed", "hugeArray"}
Builder == [blocks : Seq(Seq(Instr)), here : Nat, val : Value, fault : Faults]

\* The constants, and the values the instructions built so far compute.
MadeIn(m) ==
    { v \in Value : v.at = <<>> \/ \E b \in DOMAIN m.blocks :
                                     \E i \in DOMAIN m.blocks[b] : v.at = <<b, i>> }

\* Every operand is such a value, and every jump goes to a block there is.
Built(m) ==
    /\ m \in Builder
    /\ m.here \in DOMAIN m.blocks /\ m.val \in MadeIn(m)
    /\ \A b \in DOMAIN m.blocks : \A i \in DOMAIN m.blocks[b] :
          /\ m.blocks[b][i].args \in Seq(MadeIn(m))
          /\ m.blocks[b][i].to \in Seq(DOMAIN m.blocks)

\* pcl_entry, empty.
EntryModule == [blocks |-> << <<>> >>, here |-> 1, val |-> nullptr, fault |-> "none"]

-----------------------------------------------------------------------------
(***************************************************************************)
(* The builder.                                                            *)
(***************************************************************************)
SetInsertPoint(m, b) == [m EXCEPT !.here = b]
Fold(m, v)           == [m EXCEPT !.val = v]
Fault(m, why)        == [m EXCEPT !.fault = IF @ = "none" THEN why ELSE @]

\* BasicBlock::Create: k new blocks, of which the first is NextBlock(m).
NextBlock(m)    == Len(m.blocks) + 1
NewBlocks(m, k) == [m EXCEPT !.blocks = @ \o [i \in 1..k |-> <<>>]]

Insert(m, op, ty, args, to) ==
    [ m EXCEPT !.blocks[m.here] = Append(@, [op |-> op, ty |-> ty, args |-> args, to |-> to]),
               !.val = IF ty = "void" THEN nullptr
                       ELSE Place(ty, m.here, Len(m.blocks[m.here]) + 1) ]

Instruction(m, v) == m.blocks[v.at[1]][v.at[2]]

CreateBr(m, b)           == Insert(m, "br", "void", <<>>, <<b>>)
CreateCondBr(m, c, t, f) == Insert(m, "condbr", "void", <<c>>, <<t, f>>)
CreateRetVoid(m)         == Insert(m, "ret", "void", <<>>, <<>>)
CreatePHI(m, vs, bs)     == Insert(m, "phi", "i1", vs, bs)

CreateAlloca(m)          == Insert(m, "alloca", "ptr", <<>>, <<>>)
CreateArrayAlloca(m, n)  == Insert(m, "allocArray", "ptr", <<Const("i32", n)>>, <<>>)
CreateMalloc(m, n)       == Insert(m, "malloc", "ptr", <<n>>, <<>>)
CreateFree(m, p)         == Insert(m, "free", "void", <<p>>, <<>>)
CreateLoad(m, p)         == Insert(m, "load", "i32", <<p>>, <<>>)
CreateStore(m, v, p)     == Insert(m, "store", "void", <<v, p>>, <<>>)
CreateGEP(m, p, i)       == Insert(m, "gep", "ptr", <<p, i>>, <<>>)
CreateMemCpy(m, p, vs)   == Insert(m, "memcpy", "void", <<p>> \o vs, <<>>)
CreateScan(m)            == Insert(m, "scan", "i32", <<>>, <<>>)
CreatePrint(m, v)        == Insert(m, "print", "void", <<v>>, <<>>)

\* Arithmetic on constants is folded.  A division without a result is poison, and so is
\* what is folded from poison.
CreateBinOp(m, op, a, b) ==
    IF ~isConstant(a) \/ ~isConstant(b) THEN Insert(m, op, a.ty, <<a, b>>, <<>>)
    ELSE IF a.poison \/ b.poison \/ ArithFault(op, a.val, b.val) # "none" THEN Fold(m, Poison(a.ty))
    ELSE Fold(m, Const(a.ty, ArithValue(op, a.val, b.val)))

\* Constants are folded, whatever their types; ICmpInst asserts that its operands have one.
CreateICmp(m, op, a, b) ==
    IF isConstant(a) /\ isConstant(b)
    THEN Fold(m, IF a.poison \/ b.poison THEN Poison("i1")
                 ELSE Const("i1", LogicValue(op, a.val, b.val)))
    ELSE IF a.ty # b.ty THEN Fault(m, "assertFailed")
    ELSE Insert(m, op, "i1", <<a, b>>, <<>>)

\* The negation of a bit is that bit.
CreateNeg(m, a) ==
    IF isConstant(a)
    THEN Fold(m, IF a.ty = "i1" \/ a.poison THEN a ELSE Const("i32", Wrap(-a.val)))
    ELSE Insert(m, "-", a.ty, <<Const(a.ty, 0), a>>, <<>>)

\* Also CreateZExtOrTrunc to i32: no integer here is wider.
CreateZExt(m, a) ==
    IF ~isIntegerTy(a) THEN Fault(m, "assertFailed")
    ELSE IF a.ty = "i32" THEN Fold(m, a)
    ELSE IF isConstant(a) THEN Fold(m, IF a.poison THEN Poison("i32") ELSE Const("i32", a.val))
    ELSE Insert(m, "zext", "i32", <<a>>, <<>>)

-----------------------------------------------------------------------------
(***************************************************************************)
(* IRCodeGenerator.                                                        *)
(***************************************************************************)
createCondValueIfNeed(m, v) ==
    IF v.ty = "i1" THEN Fold(m, v) ELSE CreateICmp(m, "!=", v, Zero)

createBlockAndLinkWith(m) ==
    LET new == NextBlock(m)
    IN  SetInsertPoint(CreateBr(NewBlocks(m, 1), new), new)

-----------------------------------------------------------------------------
(***************************************************************************)
(* The code patterns of CodeGenVisitor that need no tree.                  *)
(***************************************************************************)
\* A load from, a store to, the address the builder has just computed.
LoadHere(m)     == CreateLoad(m, m.val)
StoreHere(m, v) == CreateStore(m, v, m.val)

LoadElement(m, p, i)     == LoadHere(CreateGEP(m, p, i))
StoreElement(m, v, p, i) == StoreHere(CreateGEP(m, p, i), v)

\* A copy of v in a variable of its own; returns the load.
createLocalVariable(m, v) ==
    LET slot == CreateAlloca(m)
    IN  CreateLoad(StoreHere(slot, v), slot.val)

\* Mutant: the first pass is made whatever the condition is.
createStartWhileUntested(m, cond) ==
    LET c    == createBlockAndLinkWith(m)
        body == NextBlock(c)
    IN  SetInsertPoint(CreateBr(NewBlocks(c, 2), body), body)

\* The condition has just been computed, for the first time and for the next.
EnterLoop(m) ==
    LET body == NextBlock(m)
    IN  SetInsertPoint(CreateCondBr(NewBlocks(m, 2), m.val, body, body + 1), body)

LeaveLoop(m, body, end) == SetInsertPoint(CreateCondBr(m, m.val, body, end), end)

\* A rotated loop: its condition is tested before the first pass and, by
\* createEndWhile, after each.  The builder is left in the body; the block after
\* the body's is where the loop ends.
createStartWhile(m, cond) == EnterLoop(createCondValueIfNeed(createBlockAndLinkWith(m), cond))

createEndWhile(m, cond, body, end) == LeaveLoop(createCondValueIfNeed(m, cond), body, end)

\* for (i = 0; i < limit; ++i), up to the body, which finds i in val.
startUpCountLoop(m, limit) ==
    LET first == createLocalVariable(m, Zero)
        Count(enter, counter) == CreateLoad(createStartWhile(enter, enter.val), counter)
    IN  Count(CreateICmp(first, "<", first.val, limit), Instruction(first, first.val).args[1])

\* The rest of the loop, when the body it was begun with has become pass.
endUpCountLoop(loop, pass, limit) ==
    LET CountUp(next) ==
            CreateICmp(CreateStore(next, next.val, Instruction(loop, loop.val).args[1]),
                       "<", next.val, limit)
        Again(m) == createEndWhile(m, m.val, loop.here, loop.here + 1)
    IN  Again(CountUp(CreateBinOp(pass, "+", loop.val, One)))

\* The number of elements of an array with these sizes.
calculateSize(m, sizes) ==
    LET Constant[i \in 0..Len(sizes)] ==
            IF i = 0 THEN 1 ELSE Wrap(Constant[i - 1] * sizes[i].val)
        Product[i \in 0..Len(sizes)] ==
            IF i = 0 THEN Fold(m, One)
            ELSE LET outer == Product[i - 1] IN CreateBinOp(outer, "*", outer.val, sizes[i])
    IN  IF isConstantData(sizes) THEN Fold(m, Const("i32", Constant[Len(sizes)]))
                                 ELSE Product[Len(sizes)]

\* Every value of vs stored at its position from p on.
fillArrayWithData(m, p, vs) ==
    LET Filled[i \in 0..Len(vs)] ==
            IF i = 0 THEN m
            ELSE StoreElement(Filled[i - 1], vs[i], p, Const("i32", i - 1))
    IN  Filled[Len(vs)]

\* An array on the stack: of constants, copied from a global; or filled.
allocateLocalArray(m, elems, size) ==
    LET arr == CreateArrayAlloca(m, size)
    IN  IF size = 0 THEN arr
        ELSE IF size < 0 THEN Fault(arr, "hugeArray")
        ELSE IF size # Len(elems) THEN Fault(arr, "assertFailed")
        ELSE IF isConstantData(elems) THEN Fold(CreateMemCpy(arr, arr.val, elems), arr.val)
        ELSE Fold(fillArrayWithData(arr, arr.val, elems), arr.val)
=============================================================================

------------------------------ MODULE Machine ------------------------------
(***************************************************************************)
(* What becomes of the IR: clang reads it back, verifies it and links it   *)
(* with pcllib.cpp, and the executable runs it, one instruction a step.    *)
(*                                                                         *)
(* Memory is a sequence of objects, made by alloca and malloc; a pointer   *)
(* is an object and an offset in it.  An object starts with what memory    *)
(* happens to hold.  An int is ints of Byte values one above the other,    *)
(* and a store of an i1 writes only the lowest.                            *)
(***************************************************************************)
EXTENDS IR, FiniteSets

CONSTANTS
    InputValues,     \* the ints that may be waiting on the input stream
    MaxReads,        \* bound: the number of ints before the input fails
    Garbage,         \* the ints memory, or a register, may hold before it is written
    Byte,            \* the number of values of the part of an int an i1 is stored in
    IntSize          \* the size of an int in memory

ASSUME MachineAssumption ==
    /\ InputValues \subseteq Int32 /\ Garbage \subseteq Int32 /\ Garbage # {}
    /\ MaxReads \in Nat
    /\ Byte \in Nat \ {0, 1} /\ Word % Byte = 0
    /\ IntSize \in Nat \ {0}

-----------------------------------------------------------------------------
(***************************************************************************)
(* The verifier.                                                           *)
(***************************************************************************)
Blocks(m)        == DOMAIN m.blocks
Places(m)        == UNION { { <<b, i>> : i \in DOMAIN m.blocks[b] } : b \in Blocks(m) }
InsAt(m, p)      == m.blocks[p[1]][p[2]]
Terminator(m, b) == m.blocks[b][Len(m.blocks[b])]
Successors(m, b) == { Terminator(m, b).to[i] : i \in DOMAIN Terminator(m, b).to }
Predecessors(m, b) == { a \in Blocks(m) : b \in Successors(m, a) }

\* Every block ends in a terminator and has no other.
WellTerminated(m) ==
    \A b \in Blocks(m) :
        /\ m.blocks[b] # <<>>
        /\ \A i \in DOMAIN m.blocks[b] :
              m.blocks[b][i].op \in Terminators <=> i = Len(m.blocks[b])

\* The blocks control can reach without passing through block a.
ReachableAvoiding(m, a) ==
    LET Within[k \in 0..Len(m.blocks)] ==
            IF k = 0 THEN {1} \ {a}
            ELSE UNION { {b} \cup Successors(m, b) : b \in Within[k - 1] } \ {a}
    IN  Within[Len(m.blocks)]

\* What an instruction of block a computes is used only where control has been in a.
UsesDominated(m) ==
    \A a \in Blocks(m) :
        LET stray == ReachableAvoiding(m, a)
        IN  \A p \in Places(m) : \A k \in DOMAIN InsAt(m, p).args :
                LET ins == InsAt(m, p)
                    def == ins.args[k].at
                IN  def # <<>> /\ def[1] = a =>
                      IF ins.op = "phi" THEN ins.to[k] = a \/ ins.to[k] \notin stray
                      ELSE IF p[1] = a THEN def[2] < p[2]
                      ELSE p[1] \notin stray

\* A PHI has one entry for each predecessor of its block.
PhisMatch(m) ==
    \A p \in Places(m) :
        LET ins == InsAt(m, p)
        IN  ins.op = "phi" =>
                /\ { ins.to[k] : k \in DOMAIN ins.to } = Predecessors(m, p[1])
                /\ Len(ins.to) = Cardinality(Predecessors(m, p[1]))

\* As the text is read, a constant operand takes the type of the other one; the types
\* of the arguments of __pcl_print and of what a store writes are free.
WellTyped(m) ==
    \A p \in Places(m) :
        LET ins == InsAt(m, p)
            Ty(k) == ins.args[k].ty
        IN  CASE ins.op \in Calcs \cup Comparisons ->
                   /\ Ty(1) \in {"i1", "i32"}
                   /\ Ty(1) = Ty(2) \/ isConstant(ins.args[2])
              [] ins.op = "gep" -> Ty(1) = "ptr" /\ isIntegerTy(ins.args[2])
              [] ins.op = "malloc" -> Ty(1) = "i32"
              [] ins.op = "condbr" -> Ty(1) = "i1"
              [] ins.op = "memcpy" -> \A k \in 2..Len(ins.args) : Ty(k) = "i32"
              [] ins.op = "phi" -> \A k \in DOMAIN ins.args : Ty(k) = "i1"
              [] OTHER -> TRUE

Verifies(m) == WellTerminated(m) /\ PhisMatch(m) /\ UsesDominated(m) /\ WellTyped(m)

-----------------------------------------------------------------------------
VARIABLES
    code,       \* the blocks of __pcl_start
    pc,         \* the place of the next instruction, <<0, 0>> when nothing runs
    camefrom,   \* the block control came to this one from
    regs,       \* place -> what the instruction there computed last
    mem,        \* the objects
    scanned,    \* the ints read
    output,     \* the ints printed
    outcome     \* "running", or how the executable ended

machineVars == <<code, pc, camefrom, regs, mem, scanned, output, outcome>>

Nowhere == <<0, 0>>

MachineInit ==
    /\ code = <<>> /\ pc = Nowhere /\ camefrom = 0
    /\ regs = [p \in {} |-> 0] /\ mem = <<>>
    /\ scanned = <<>> /\ output = <<>> /\ outcome = "running"

\* main calls __pcl_start.
Load(m) ==
    /\ code' = m.blocks /\ pc' = <<1, 1>>
    /\ UNCHANGED <<camefrom, regs, mem, scanned, output, outcome>>

Executing == pc # Nowhere /\ outcome = "running"
This      == code[pc[1]][pc[2]]
Doing(op) == Executing /\ This.op = op

Get(v)  == IF v.at = <<>> THEN v.val ELSE regs[v.at]
Arg(k)  == Get(This.args[k])

\* The values operand k can have: clang takes for poison a register nothing was written to.
Operand(k) == IF ~This.args[k].poison THEN {Arg(k)}
              ELSE IF This.args[k].ty = "i1" THEN {0, 1} ELSE Garbage

Advance == pc' = <<pc[1], pc[2] + 1>>
SetReg(v) == regs' = [p \in DOMAIN regs \cup {pc} |-> IF p = pc THEN v ELSE regs[p]]

Compute(v) == SetReg(v) /\ Advance /\ UNCHANGED <<code, camefrom, mem, scanned, output, outcome>>

Die(why) ==
    /\ outcome' = why
    /\ UNCHANGED <<code, pc, camefrom, regs, mem, scanned, output>>

Bit(v) == v % 2

DoCalc ==
    /\ Executing /\ This.op \in Calcs
    /\ \E a \in Operand(1), b \in Operand(2) :
          IF ArithFault(This.op, a, b) # "none" THEN Die("trapped")
          ELSE LET v == ArithValue(This.op, a, b)
               IN  Compute(IF This.ty = "i1" THEN Bit(v) ELSE v)

DoCompare ==
    /\ Executing /\ This.op \in Comparisons
    /\ \E a \in Operand(1), b \in Operand(2) : Compute(LogicValue(This.op, a, b))

DoZExt == Doing("zext") /\ Compute(Arg(1))

DoPhi ==
    /\ Doing("phi")
    /\ LET k == CHOOSE k \in DOMAIN This.to : This.to[k] = camefrom
       IN  \E v \in Operand(k) : Compute(v)

-----------------------------------------------------------------------------
(***************************************************************************)
(* Memory.                                                                 *)
(***************************************************************************)
Object(n, g, heap) == [cells |-> [i \in 1..n |-> g], heap |-> heap, alive |-> TRUE]

Allocate(n, heap) ==
    /\ \E g \in Garbage : mem' = Append(mem, Object(n, g, heap))
    /\ SetReg([obj |-> Len(mem) + 1, off |-> 0]) /\ Advance
    /\ UNCHANGED <<code, camefrom, scanned, output, outcome>>

DoAlloca      == Doing("alloca") /\ Allocate(1, FALSE)
DoArrayAlloca == Doing("allocArray") /\ Allocate(Arg(1), FALSE)

\* mallocsize, the size in bytes, is an i32; malloc takes it for unsigned.
DoMalloc ==
    /\ Doing("malloc")
    /\ \E n \in Operand(1) : Allocate(Unsigned(n * IntSize) \div IntSize, TRUE)

DoGEP == Doing("gep") /\ \E i \in Operand(2) : Compute([Arg(1) EXCEPT !.off = @ + i])

MemoryFault(p) ==
    IF ~mem[p.obj].alive THEN "dangling"
    ELSE IF p.off + 1 \notin DOMAIN mem[p.obj].cells THEN "badIndex" ELSE "none"

Write(p, cells) ==
    /\ mem' = [mem EXCEPT ![p.obj].cells = cells] /\ Advance
    /\ UNCHANGED <<code, camefrom, regs, scanned, output, outcome>>

DoLoad ==
    /\ Doing("load")
    /\ IF MemoryFault(Arg(1)) # "none" THEN Die(MemoryFault(Arg(1)))
       ELSE Compute(mem[Arg(1).obj].cells[Arg(1).off + 1])

\* What is left of w when its lowest part is replaced by the bit v.
Overwritten(w, v) == w - (w % Byte) + v

\* A pointer is as long as two ints; what they hold of it is not said.
StorePointer(p) ==
    IF p.off + 2 \notin DOMAIN mem[p.obj].cells THEN Die("badIndex")
    ELSE \E low, high \in Garbage :
            Write(p, [mem[p.obj].cells EXCEPT ![p.off + 1] = low, ![p.off + 2] = high])

StoreInt(p) ==
    \E v \in Operand(1) :
        Write(p, [mem[p.obj].cells EXCEPT ![p.off + 1] =
                     IF This.args[1].ty = "i1" THEN Overwritten(@, v) ELSE v])

DoStore ==
    /\ Doing("store")
    /\ IF MemoryFault(Arg(2)) # "none" THEN Die(MemoryFault(Arg(2)))
       ELSE IF This.args[1].ty = "ptr" THEN StorePointer(Arg(2))
       ELSE StoreInt(Arg(2))

DoMemCpy ==
    /\ Doing("memcpy")
    /\ Write(Arg(1), [i \in 1..(Len(This.args) - 1) |-> Arg(i + 1)])

DoFree ==
    /\ Doing("free")
    /\ IF ~mem[Arg(1).obj].alive \/ ~mem[Arg(1).obj].heap THEN Die("badFree")
       ELSE /\ mem' = [mem EXCEPT ![Arg(1).obj].alive = FALSE] /\ Advance
            /\ UNCHANGED <<code, camefrom, regs, scanned, output, outcome>>

-----------------------------------------------------------------------------
(***************************************************************************)
(* Control, and the functions of pcllib.cpp.                               *)
(***************************************************************************)
Jump(b) ==
    /\ pc' = <<b, 1>> /\ camefrom' = pc[1]
    /\ UNCHANGED <<code, regs, mem, scanned, output, outcome>>

DoBr     == Doing("br") /\ Jump(This.to[1])
DoCondBr == Doing("condbr") /\ \E c \in Operand(1) : Jump(IF c = 1 THEN This.to[1] ELSE This.to[2])
DoRet    == Doing("ret") /\ Die("exited")

\* __pcl_scan reads an int or exits with 1.
DoScan ==
    /\ Doing("scan")
    /\ \/ Die("badInput")
       \/ /\ Len(scanned) < MaxReads
          /\ \E v \in InputValues :
                /\ scanned' = Append(scanned, v) /\ SetReg(v)
          /\ Advance
          /\ UNCHANGED <<code, camefrom, mem, output, outcome>>

\* __pcl_print; an i1 is passed as 0 or 1.
DoPrint ==
    /\ Doing("print")
    /\ \E v \in Operand(1) : output' = Append(output, v)
    /\ Advance
    /\ UNCHANGED <<code, camefrom, regs, mem, scanned, outcome>>

MachineNext ==
    \/ DoCalc \/ DoCompare \/ DoZExt \/ DoPhi
    \/ DoAlloca \/ DoArrayAlloca \/ DoMalloc \/ DoGEP \/ DoLoad \/ DoStore \/ DoMemCpy \/ DoFree
    \/ DoBr \/ DoCondBr \/ DoRet \/ DoScan \/ DoPrint
=============================================================================

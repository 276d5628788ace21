---------------------------- MODULE ParaclTypes ----------------------------
(***************************************************************************)
(* The interpreter's data is typed, whatever the program: TypeOK and       *)
(* SymbolsCoherent, and on top of them that it computes what the checker   *)
(* folded.                                                                 *)
(***************************************************************************)
EXTENDS ParaclProofs

(***************************************************************************)
(* Arithmetic the provers need spelled out, and sequences.                 *)
(***************************************************************************)
LEMMA Products ==
    /\ \A a, b \in Nat : a * b \in Nat
    /\ \A a, b, c \in Nat : (a * b) * c = a * (b * c)
    /\ \A a \in Nat : a * 1 = a /\ 1 * a = a /\ a * 0 = 0 /\ 0 * a = 0
    \* The row-major offset of a part.
    /\ \A a, b, i, c \in Nat : c < a /\ i < b => (c * b) + i < a * b
<1>1. \A a, b \in Nat : a * b \in Nat
  OBVIOUS
<1>2. \A a, b, c \in Nat : (a * b) * c = a * (b * c)
  OBVIOUS
<1>3. ASSUME NEW a \in Nat, NEW b \in Nat, NEW i \in Nat, NEW c \in Nat, c < a, i < b
      PROVE  (c * b) + i < a * b
  <2>1. PICK d \in Nat : a = c + 1 + d
    <3>1. a - c - 1 \in Nat /\ a = c + 1 + (a - c - 1)
      BY <1>3
    <3>. QED
      BY <3>1
  <2>2. a * b = (c * b) + b + (d * b) /\ d * b \in Nat /\ c * b \in Nat
    BY <2>1
  <2>. QED
    BY <1>3, <2>2
<1>. QED
  BY <1>1, <1>2, <1>3

LEMMA TimesSeq ==
    ASSUME NEW S, NEW s \in Seq(S), NEW k \in Nat
    PROVE  Times(k, s) \in Seq(S) /\ Len(Times(k, s)) = k * Len(s)
<1>. DEFINE n == Len(s)
<1>1. n \in Nat /\ k * n \in Nat /\ DOMAIN s = 1..n
  BY Products
<1>2. ASSUME NEW i \in 1..(k * n) PROVE s[((i - 1) % n) + 1] \in S
  <2>1. n # 0
    BY <1>1, Products
  <2>2. ((i - 1) % n) \in 0..(n - 1)
    BY <1>1, <2>1
  <2>3. ((i - 1) % n) + 1 \in 1..n
    BY <1>1, <2>2
  <2>. QED
    BY <2>3
<1>3. Times(k, s) \in [1..(k * n) -> S]
  BY <1>2 DEF Times
<1>. HIDE DEF n
<1>4. Times(k, s) \in Seq(S) /\ Len(Times(k, s)) = k * n
  BY <1>1, <1>3, FunctionsAreSeqs
<1>. QED
  BY <1>4 DEF n

\* Parts counts the parts, rank after rank.
LEMMA PartsOf ==
    ASSUME NEW shape \in Seq(Nat)
    PROVE  /\ Parts(shape) \in [0..Len(shape) -> Nat]
           /\ Parts(shape)[0] = 1
           /\ \A k \in 1..Len(shape) : Parts(shape)[k] = Parts(shape)[k - 1] * shape[k]
<1>. DEFINE n == Len(shape)
            prev == [k \in 1..n |-> k - 1]
            step == [k \in 1..n |-> [c \in Nat |-> c * shape[k]]]
            Count == CHOOSE Count : Count = [k \in 0..n |-> IF k = 0 THEN 1
                                                            ELSE Count[k - 1] * shape[k]]
<1>1. n \in Nat /\ \A k \in 1..n : shape[k] \in Nat
  OBVIOUS
<1>2. PICK f : Solves(f, n, Nat, 1, prev, step)
  <2>1. step \in [1..n -> [Nat -> Nat]]
    <3>1. ASSUME NEW k \in 1..n, NEW c \in Nat PROVE c * shape[k] \in Nat
      BY <1>1, Products
    <3>. HIDE DEF n
    <3>. QED
      BY <3>1
  <2>2. prev \in [1..n -> Nat] /\ \A k \in 1..n : prev[k] < k
    BY <1>1
  <2>. HIDE DEF n, prev, step
  <2>3. Recurrence(n, Nat, 1, prev, step)
    BY <1>1, <2>1, <2>2 DEF Recurrence
  <2>. QED
    BY <2>3, Recursion
<1>3. f \in [0..n -> Nat] /\ f[0] = 1 /\ \A k \in 1..n : f[k] = step[k][f[prev[k]]]
  <2>. HIDE DEF n, prev, step
  <2>. QED
    BY <1>2 DEF Solves
<1>4. ASSUME NEW k \in 1..n PROVE f[k] = f[k - 1] * shape[k]
  <2>1. prev[k] = k - 1 /\ k - 1 \in 0..n /\ \A c \in Nat : step[k][c] = c * shape[k]
    BY <1>1
  <2>. HIDE DEF prev, step
  <2>. QED
    BY <1>3, <2>1
<1>5. f = [k \in 0..n |-> IF k = 0 THEN 1 ELSE f[k - 1] * shape[k]]
  <2>. HIDE DEF step, prev, n
  <2>. QED
    BY <1>1, <1>3, <1>4
<1>6. Count = [k \in 0..n |-> IF k = 0 THEN 1 ELSE Count[k - 1] * shape[k]]
  BY <1>5
<1>7. Parts(shape) = Count
  BY DEF Parts
<1>. HIDE DEF Count
<1>8. 0..n \subseteq { k \in 0..n : Count[k] \in Nat }
  <2>. DEFINE G == { k \in 0..n : Count[k] \in Nat }
  <2>1. 0 \in G
    BY <1>1, <1>6
  <2>2. ASSUME NEW k \in 1..n, k - 1 \in G PROVE k \in G
    <3>1. k \in 0..n /\ k # 0 /\ Count[k - 1] \in Nat /\ shape[k] \in Nat
      BY <1>1, <2>2
    <3>2. Count[k] = Count[k - 1] * shape[k]
      <4>. HIDE DEF n
      <4>. QED
        BY <1>6, <3>1
    <3>. QED
      BY <3>1, <3>2, Products
  <2>. HIDE DEF G, n
  <2>3. 0..n \subseteq G
    BY <1>1, <2>1, <2>2, UpTo
  <2>. QED
    BY <2>3 DEF G
<1>9. DOMAIN Count = 0..n /\ \A k \in 0..n : Count[k] \in Nat
  BY <1>6, <1>8
<1>10. Count \in [0..n -> Nat]
  BY <1>6, <1>9
<1>11. Count[0] = 1 /\ \A k \in 1..n : Count[k] = Count[k - 1] * shape[k]
  <2>1. 0 \in 0..n /\ \A k \in 1..n : k \in 0..n /\ k # 0
    BY <1>1
  <2>. HIDE DEF n
  <2>. QED
    BY <1>6, <2>1
<1>. HIDE DEF n
<1>12. n = Len(shape)
  BY DEF n
<1>. QED
  BY <1>7, <1>10, <1>11, <1>12

\* The cells of an array of this shape.
Cells(shape) == Parts(shape)[Len(shape)]

LEMMA CellsOf ==
    /\ Cells(<<>>) = 1 /\ Cells(<<0>>) = 0
    /\ \A m \in Nat : Cells(<<m>>) = m
    /\ \A shape \in Seq(Nat) : Cells(shape) \in Nat
    /\ \A m \in Nat, shape \in Seq(Nat) : Cells(<<m>> \o shape) = m * Cells(shape)
<1>1. Cells(<<>>) = 1
  <2>1. <<>> \in Seq(Nat) /\ Len(<<>>) = 0
    OBVIOUS
  <2>. QED
    BY <2>1, PartsOf DEF Cells
<1>2. \A shape \in Seq(Nat) : Cells(shape) \in Nat
  BY PartsOf DEF Cells
<1>3. ASSUME NEW m \in Nat, NEW shape \in Seq(Nat)
      PROVE  Cells(<<m>> \o shape) = m * Cells(shape)
  <2>. DEFINE n == Len(shape)
              all == <<m>> \o shape
              p == Parts(shape)
              q == Parts(all)
  <2>1. /\ n \in Nat /\ all \in Seq(Nat) /\ Len(all) = n + 1
        /\ all[1] = m /\ \A k \in 1..n : all[k + 1] = shape[k] /\ shape[k] \in Nat
    OBVIOUS
  <2>2. /\ p \in [0..n -> Nat] /\ p[0] = 1 /\ \A k \in 1..n : p[k] = p[k - 1] * shape[k]
    BY PartsOf
  <2>. HIDE DEF all
  <2>3. /\ q \in [0..(n + 1) -> Nat] /\ q[0] = 1 /\ \A k \in 1..(n + 1) : q[k] = q[k - 1] * all[k]
    BY <2>1, PartsOf
  <2>. HIDE DEF p, q, n
  <2>. DEFINE G == { k \in 0..n : q[k + 1] = m * p[k] }
  <2>4. 0 \in G
    <3>1. q[1] = q[0] * all[1] /\ 0 + 1 = 1 /\ 0 \in 0..n
      BY <2>1, <2>3
    <3>. QED
      BY <2>1, <2>2, <2>3, <3>1, Products
  <2>5. ASSUME NEW k \in 1..n, k - 1 \in G PROVE k \in G
    <3>1. q[k] = m * p[k - 1]
      BY <2>5
    <3>2. q[k + 1] = q[k] * all[k + 1] /\ all[k + 1] = shape[k]
      <4>1. k + 1 \in 1..(n + 1) /\ (k + 1) - 1 = k
        BY <2>1
      <4>. QED
        BY <2>1, <2>3, <4>1
    <3>3. p[k] = p[k - 1] * shape[k] /\ p[k - 1] \in Nat /\ shape[k] \in Nat
      BY <2>1, <2>2
    <3>4. q[k + 1] = m * p[k]
      BY <3>1, <3>2, <3>3, Products
    <3>. QED
      BY <2>1, <3>4
  <2>. HIDE DEF G
  <2>6. n \in G
    <3>1. n \in Nat /\ n \in 0..n
      BY <2>1
    <3>2. 0..n \subseteq G
      BY <2>4, <2>5, <3>1, UpTo
    <3>. QED
      BY <3>1, <3>2
  <2>7. q[n + 1] = m * p[n]
    BY <2>6 DEF G
  <2>. QED
    BY <2>1, <2>7 DEF Cells, p, q, n, all
<1>4. ASSUME NEW m \in Nat PROVE Cells(<<m>>) = m
  <2>1. <<m>> \o <<>> = <<m>> /\ <<>> \in Seq(Nat)
    OBVIOUS
  <2>2. Cells(<<m>>) = m * Cells(<<>>)
    BY <1>3, <2>1
  <2>. QED
    BY <1>1, <2>2, Products
<1>. QED
  BY <1>1, <1>2, <1>3, <1>4

-----------------------------------------------------------------------------
(***************************************************************************)
(* The heap: what an object holds, and what a reference to it may count    *)
(* on.                                                                     *)
(***************************************************************************)
References == [obj : Nat, cell : Nat]

Objects ==
    [ ty : TypeNames, shape : Seq(Nat), cells : Seq(Int32), initer : References, alive : BOOLEAN ]

\* The cells of an object fill its shape; what a uniform array was made from is older.
Sound(vals, o) ==
    /\ Len(vals[o].cells) = Cells(vals[o].shape)
    /\ vals[o].ty = "int32" => vals[o].shape = <<>>
    /\ vals[o].ty # "int32" => Len(vals[o].shape) >= 1
    /\ vals[o].ty = "repeat" =>
          /\ vals[o].initer.obj \in 1..(o - 1)
          /\ vals[o].initer.cell = 0 => vals[vals[o].initer.obj].ty \in ArrayTypes

HeapOK(vals) == vals \in Seq(Objects) /\ \A o \in DOMAIN vals : Sound(vals, o)

\* A reference to an array or to an int that is there.
Good(vals, r) ==
    /\ r \in References /\ r.obj \in DOMAIN vals
    /\ r.cell = 0 => vals[r.obj].ty \in ArrayTypes
    /\ r.cell # 0 => r.cell \in 1..Len(vals[r.obj].cells)

\* Every object keeps its type and its sizes.
SameLayout(vals, new) ==
    \A o \in DOMAIN vals : /\ o \in DOMAIN new /\ new[o].ty = vals[o].ty
                           /\ new[o].shape = vals[o].shape
                           /\ Len(new[o].cells) = Len(vals[o].cells)

LEMMA HeapObjects ==
    ASSUME NEW vals, HeapOK(vals)
    PROVE  /\ DOMAIN vals = 1..Len(vals) /\ Len(vals) \in Nat
           /\ \A o \in DOMAIN vals : vals[o] \in Objects /\ Sound(vals, o)
<1>1. vals \in Seq(Objects)
  BY DEF HeapOK
<1>2. DOMAIN vals = 1..Len(vals) /\ Len(vals) \in Nat /\ \A o \in DOMAIN vals : vals[o] \in Objects
  <2>. HIDE DEF Objects
  <2>. QED
    BY <1>1
<1>. QED
  BY <1>2 DEF HeapOK

LEMMA ReadsInt ==
    ASSUME NEW vals, HeapOK(vals), NEW r, Good(vals, r)
    PROVE  /\ IsInt(vals, r) <=> r.cell # 0
           /\ IsInt(vals, r) => getValue(vals, r) \in Int32
           /\ TypeOf(vals, r) \in TypeNames
           /\ r.cell = 0 => TypeOf(vals, r) = vals[r.obj].ty
<1>1. r.cell \in Nat /\ r.obj \in DOMAIN vals
  BY DEF Good, References
<1>2. vals[r.obj] \in Objects
  BY <1>1, HeapObjects
<1>3. vals[r.obj].cells \in Seq(Int32) /\ vals[r.obj].ty \in TypeNames
  BY <1>2 DEF Objects
<1>4. r.cell # 0 => getValue(vals, r) \in Int32
  <2>. HIDE DEF Int32
  <2>. QED
    BY <1>3 DEF Good, getValue
<1>. QED
  BY <1>1, <1>3, <1>4 DEF Good, IsInt, TypeOf, TypeNames, ArrayTypes

LEMMA GoodKept ==
    ASSUME NEW vals, NEW new, SameLayout(vals, new), NEW r, Good(vals, r)
    PROVE  Good(new, r) /\ TypeOf(new, r) = TypeOf(vals, r)
BY DEF SameLayout, Good, TypeOf

LEMMA HeapAppended ==
    ASSUME NEW vals, HeapOK(vals), NEW o \in Objects, Sound(Append(vals, o), Len(vals) + 1)
    PROVE  /\ HeapOK(Append(vals, o)) /\ SameLayout(vals, Append(vals, o))
           /\ Len(vals) + 1 \in DOMAIN Append(vals, o) /\ Len(vals) + 1 \notin DOMAIN vals
           /\ DOMAIN Append(vals, o) = DOMAIN vals \cup {Len(vals) + 1}
           /\ Append(vals, o)[Len(vals) + 1] = o
           /\ \A i \in DOMAIN vals : Append(vals, o)[i] = vals[i]
<1>1. vals \in Seq(Objects) /\ DOMAIN vals = 1..Len(vals) /\ Len(vals) \in Nat
  BY HeapObjects DEF HeapOK
<1>2. /\ Append(vals, o) \in Seq(Objects) /\ DOMAIN Append(vals, o) = 1..(Len(vals) + 1)
      /\ Append(vals, o)[Len(vals) + 1] = o
      /\ \A i \in 1..Len(vals) : Append(vals, o)[i] = vals[i]
  <2>. HIDE DEF Objects
  <2>. QED
    BY <1>1
<1>3. ASSUME NEW i \in DOMAIN vals PROVE Sound(Append(vals, o), i)
  <2>1. Sound(vals, i) /\ Append(vals, o)[i] = vals[i]
    BY <1>1, <1>2, <1>3, HeapObjects
  <2>2. vals[i].ty = "repeat" => vals[i].initer.obj \in DOMAIN vals
    BY <1>1, <2>1 DEF Sound
  <2>. QED
    BY <1>1, <1>2, <2>1, <2>2 DEF Sound
<1>4. \A i \in DOMAIN Append(vals, o) : Sound(Append(vals, o), i)
  BY <1>1, <1>2, <1>3
<1>. QED
  BY <1>1, <1>2, <1>4 DEF HeapOK, SameLayout

LEMMA IntegerMade ==
    ASSUME NEW vals, HeapOK(vals), NEW v \in Int32
    PROVE  /\ IntegerVal(v) \in Objects /\ Sound(Append(vals, IntegerVal(v)), Len(vals) + 1)
           /\ Good(Append(vals, IntegerVal(v)), IntRef(Len(vals) + 1))
<1>. DEFINE o == IntegerVal(v)
            new == Append(vals, o)
<1>1. /\ o \in Objects /\ o.ty = "int32" /\ o.shape = <<>> /\ o.cells = <<v>> /\ Len(o.cells) = 1
  BY DEF IntegerVal, Objects, TypeNames, References, Null
<1>2. new[Len(vals) + 1] = o /\ Len(vals) + 1 \in DOMAIN new /\ Len(vals) \in Nat
  <2>1. vals \in Seq(Objects)
    BY DEF HeapOK
  <2>. HIDE DEF o, Objects
  <2>. QED
    BY <1>1, <2>1
<1>. HIDE DEF o, new
<1>3. Sound(new, Len(vals) + 1)
  BY <1>1, <1>2, CellsOf DEF Sound
<1>4. Good(new, IntRef(Len(vals) + 1))
  <2>. DEFINE r == IntRef(Len(vals) + 1)
  <2>1. r \in References /\ r.obj = Len(vals) + 1 /\ r.cell = 1
    BY <1>2 DEF IntRef, References
  <2>. HIDE DEF r
  <2>2. Len(new[r.obj].cells) = 1 /\ r.obj \in DOMAIN new
    BY <1>1, <1>2, <2>1
  <2>3. Good(new, r)
    BY <2>1, <2>2 DEF Good
  <2>. QED
    BY <2>3 DEF r
<1>. QED
  BY <1>1, <1>3, <1>4 DEF o, new

LEMMA HeapSet ==
    ASSUME NEW vals, HeapOK(vals), NEW r, Good(vals, r), NEW v \in Int32
    PROVE  /\ HeapOK(setValue(vals, r, v)) /\ SameLayout(vals, setValue(vals, r, v))
           /\ DOMAIN setValue(vals, r, v) = DOMAIN vals
           /\ \A o \in DOMAIN vals \ {r.obj} : setValue(vals, r, v)[o] = vals[o]
<1>. DEFINE old == vals[r.obj]
            obj == [old EXCEPT !.cells = [old.cells EXCEPT ![r.cell] = v]]
            new == setValue(vals, r, v)
<1>1. /\ vals \in Seq(Objects) /\ DOMAIN vals = 1..Len(vals) /\ Len(vals) \in Nat
      /\ r.obj \in DOMAIN vals /\ old \in Objects
  BY HeapObjects DEF HeapOK, Good
<1>2. old.cells \in Seq(Int32)
  BY <1>1 DEF Objects
<1>3. /\ [old.cells EXCEPT ![r.cell] = v] \in Seq(Int32)
      /\ Len([old.cells EXCEPT ![r.cell] = v]) = Len(old.cells)
  <2>. DEFINE n == Len(old.cells)
              f == [old.cells EXCEPT ![r.cell] = v]
  <2>1. n \in Nat /\ old.cells \in [1..n -> Int32]
    BY <1>2
  <2>2. f \in [1..n -> Int32]
    <3>. HIDE DEF n, old
    <3>. QED
      BY <2>1
  <2>. HIDE DEF f, n
  <2>3. f \in Seq(Int32) /\ Len(f) = n
    BY <2>1, <2>2, FunctionsAreSeqs
  <2>. QED
    BY <2>3 DEF f, n
<1>4. /\ obj \in Objects /\ obj.ty = old.ty /\ obj.shape = old.shape /\ obj.initer = old.initer
      /\ Len(obj.cells) = Len(old.cells)
  BY <1>1, <1>3 DEF Objects
<1>5. new = [vals EXCEPT ![r.obj] = obj]
  BY DEF setValue
<1>. HIDE DEF obj, new
<1>6. /\ new \in Seq(Objects) /\ DOMAIN new = DOMAIN vals /\ new[r.obj] = obj
      /\ \A o \in DOMAIN vals \ {r.obj} : new[o] = vals[o]
  <2>. HIDE DEF Objects, old
  <2>. QED
    BY <1>1, <1>4, <1>5
<1>7. SameLayout(vals, new) /\ \A o \in DOMAIN vals : new[o].initer = vals[o].initer
  BY <1>4, <1>6 DEF SameLayout
<1>8. ASSUME NEW o \in DOMAIN new PROVE Sound(new, o)
  <2>1. Sound(vals, o) /\ o \in DOMAIN vals /\ o \in 1..Len(vals)
    BY <1>1, <1>6, HeapObjects
  <2>2. vals[o].ty = "repeat" => vals[o].initer.obj \in DOMAIN vals
    BY <1>1, <2>1 DEF Sound
  <2>. QED
    BY <1>7, <2>1, <2>2 DEF Sound, SameLayout
<1>. QED
  BY <1>6, <1>7, <1>8 DEF HeapOK, new

-----------------------------------------------------------------------------
(***************************************************************************)
(* What the constructors of arrays make.                                   *)
(***************************************************************************)
\* The cells that a copy of some value fills.
Contents == { c \in [shape : Seq(Nat), cells : Seq(Int32)] : Len(c.cells) = Cells(c.shape) }

LEMMA FilledContents ==
    ASSUME NEW size \in Nat, NEW c, size # 0 => c \in Contents
    PROVE  Filled(size, c) \in Contents /\ Len(Filled(size, c).shape) >= 1
<1>1. CASE size = 0
  <2>1. Filled(size, c) = [shape |-> <<0>>, cells |-> <<>>]
    BY <1>1 DEF Filled
  <2>2. Len(<<0>>) = 1 /\ <<0>> \in Seq(Nat) /\ <<>> \in Seq(Int32) /\ Len(<<>>) = 0
    OBVIOUS
  <2>3. Filled(size, c).shape = <<0>> /\ Filled(size, c).cells = <<>>
    BY <2>1
  <2>4. Filled(size, c) \in [shape : Seq(Nat), cells : Seq(Int32)]
    <3>. HIDE DEF Int32
    <3>. QED
      BY <2>1, <2>2
  <2>. QED
    BY <2>2, <2>3, <2>4, CellsOf DEF Contents
<1>2. CASE size # 0
  <2>1. /\ Filled(size, c) = [shape |-> <<size>> \o c.shape, cells |-> Times(size, c.cells)]
        /\ c.shape \in Seq(Nat) /\ c.cells \in Seq(Int32) /\ Len(c.cells) = Cells(c.shape)
    BY <1>2 DEF Filled, Contents
  <2>2. Times(size, c.cells) \in Seq(Int32) /\ Len(Times(size, c.cells)) = size * Len(c.cells)
    BY <2>1, TimesSeq
  <2>3. <<size>> \o c.shape \in Seq(Nat) /\ Len(<<size>> \o c.shape) >= 1
    BY <2>1
  <2>4. Cells(<<size>> \o c.shape) = size * Cells(c.shape)
    BY <2>1, CellsOf
  <2>5. Filled(size, c) \in [shape : Seq(Nat), cells : Seq(Int32)]
    <3>. HIDE DEF Int32
    <3>. QED
      BY <2>1, <2>2, <2>3
  <2>6. /\ Filled(size, c).shape = <<size>> \o c.shape
        /\ Filled(size, c).cells = Times(size, c.cells)
    BY <2>1
  <2>. QED
    BY <2>1, <2>2, <2>3, <2>4, <2>5, <2>6 DEF Contents
<1>. QED
  BY <1>1, <1>2

\* How the recursive functions of CloneOf and of ConstructDangles go on from the initer.
CellCopy(vals, c) == [shape |-> <<>>, cells |-> <<getValue(vals, c)>>]

Copied(vals, o, d) ==
    IF vals[o].ty # "repeat" THEN [shape |-> vals[o].shape, cells |-> vals[o].cells]
    ELSE Filled(vals[o].shape[1],
                IF vals[o].initer.cell > 0 THEN CellCopy(vals, vals[o].initer) ELSE d)

DanglesIn(vals, o, d) ==
    /\ vals[o].ty = "repeat"
    /\ IF vals[o].initer.cell > 0 THEN Dangling(vals, vals[o].initer)
                                  ELSE vals[o].shape[1] > 0 /\ d

LEMMA CloneRecursion ==
    ASSUME NEW vals, HeapOK(vals)
    PROVE  \E OfArray, Fill :
              /\ \A o \in DOMAIN vals :
                    /\ OfArray[o] = Copied(vals, o, OfArray[vals[o].initer.obj])
                    /\ Fill[o] = DanglesIn(vals, o, Fill[vals[o].initer.obj])
              /\ \A r : CloneOf(vals, r) = IF r.cell > 0 THEN CellCopy(vals, r) ELSE OfArray[r.obj]
              /\ \A r, size : ConstructDangles(vals, r, size) =
                                 IF r.cell > 0 THEN Dangling(vals, r) ELSE size > 0 /\ Fill[r.obj]
<1>. DEFINE n == Len(vals)
            N == DOMAIN vals
            from(o) == vals[o].initer
            cell(c) == CellCopy(vals, c)
            Any == Int32 \cup { getValue(vals, from(o)) : o \in N }
            D == [shape : Seq(Nat), cells : Seq(Any)]
            made(o) == [shape |-> vals[o].shape, cells |-> vals[o].cells]
            prev == [o \in 1..n |-> IF vals[o].ty = "repeat" THEN from(o).obj ELSE 0]
            after(o, d) == Copied(vals, o, d)
            step == [o \in 1..n |-> [d \in D |-> after(o, d)]]
            OfArray == CHOOSE OfArray : OfArray = [o \in N |-> after(o, OfArray[from(o).obj])]
            Fill == CHOOSE Fill : Fill = [o \in N |-> DanglesIn(vals, o, Fill[from(o).obj])]
            none == [shape |-> <<>>, cells |-> <<>>]
<1>1. /\ N = 1..n /\ n \in Nat
      /\ \A o \in N : vals[o] \in Objects /\ Sound(vals, o)
  BY HeapObjects
<1>2. ASSUME NEW o \in N
      PROVE  /\ vals[o].shape \in Seq(Nat) /\ vals[o].cells \in Seq(Int32)
             /\ from(o) \in References
             /\ vals[o].ty = "repeat" => /\ vals[o].shape[1] \in Nat
                                         /\ from(o).obj \in N /\ from(o).obj < o
  <2>1. vals[o].shape \in Seq(Nat) /\ vals[o].cells \in Seq(Int32) /\ from(o) \in References
    BY <1>1 DEF Objects
  <2>2. vals[o].ty = "repeat" => Len(vals[o].shape) >= 1 /\ from(o).obj \in 1..(o - 1)
    BY <1>1 DEF Sound
  <2>. QED
    BY <1>1, <2>1, <2>2
<1>3. ASSUME NEW o \in N, NEW d \in D PROVE after(o, d) \in D
  <2>1. CASE vals[o].ty # "repeat"
    <3>1. Int32 \subseteq Any
      OBVIOUS
    <3>. HIDE DEF Any
    <3>2. vals[o].cells \in Seq(Any)
      BY <1>2, <3>1
    <3>. QED
      BY <1>2, <2>1, <3>2 DEF Copied
  <2>2. CASE vals[o].ty = "repeat"
    <3>. DEFINE c == IF from(o).cell > 0 THEN cell(from(o)) ELSE d
    <3>1. c \in D
      <4>1. getValue(vals, from(o)) \in Any
        OBVIOUS
      <4>. HIDE DEF Any
      <4>2. <<getValue(vals, from(o))>> \in Seq(Any) /\ <<>> \in Seq(Nat)
        BY <4>1
      <4>. QED
        BY <4>2 DEF CellCopy
    <3>2. c.shape \in Seq(Nat) /\ c.cells \in Seq(Any)
      BY <3>1
    <3>. HIDE DEF c, Any
    <3>3. ASSUME NEW k \in Nat PROVE Filled(k, c) \in D
      <4>1. Times(k, c.cells) \in Seq(Any)
        BY <3>2, TimesSeq
      <4>2. <<k>> \o c.shape \in Seq(Nat) /\ <<0>> \in Seq(Nat) /\ <<>> \in Seq(Any)
        BY <3>2
      <4>. QED
        BY <4>1, <4>2 DEF Filled
    <3>4. after(o, d) = Filled(vals[o].shape[1], c)
      BY <2>2 DEF c, Copied
    <3>. QED
      BY <1>2, <2>2, <3>3, <3>4
  <2>. QED
    BY <2>1, <2>2
<1>4. PICK f : Solves(f, n, D, none, prev, step)
  <2>1. none \in D
    <3>1. <<>> \in Seq(Nat) /\ <<>> \in Seq(Any)
      OBVIOUS
    <3>. HIDE DEF Any
    <3>. QED
      BY <3>1
  <2>2. prev \in [1..n -> Nat] /\ \A k \in 1..n : prev[k] < k
    <3>1. ASSUME NEW o \in 1..n PROVE prev[o] \in Nat /\ prev[o] < o
      BY <1>1, <1>2
    <3>. QED
      BY <3>1
  <2>3. step \in [1..n -> [D -> D]]
    <3>. HIDE DEF D, after, n, N
    <3>. QED
      BY <1>1, <1>3
  <2>. HIDE DEF D, none, prev, step, n
  <2>4. Recurrence(n, D, none, prev, step)
    BY <1>1, <2>1, <2>2, <2>3 DEF Recurrence
  <2>. QED
    BY <2>4, Recursion
<1>5. f \in [0..n -> D] /\ \A o \in 1..n : f[o] = step[o][f[prev[o]]]
  <2>. HIDE DEF D, none, prev, step, n
  <2>. QED
    BY <1>4 DEF Solves
<1>. DEFINE g == [o \in N |-> f[o]]
<1>6. g = [o \in N |-> after(o, g[from(o).obj])]
  <2>1. ASSUME NEW o \in N PROVE g[o] = after(o, g[from(o).obj])
    <3>1. prev[o] \in 0..n
      BY <1>1, <1>2
    <3>2. f[prev[o]] \in D
      <4>. HIDE DEF D, n, prev
      <4>. QED
        BY <1>5, <3>1
    <3>3. f[o] = after(o, f[prev[o]])
      <4>1. \A d \in D : step[o][d] = after(o, d)
        <5>. HIDE DEF D, after, n, N
        <5>. QED
          BY <1>1
      <4>2. f[o] = step[o][f[prev[o]]]
        <5>. HIDE DEF D, n, prev, step
        <5>. QED
          BY <1>1, <1>5
      <4>. HIDE DEF D, n, prev, step, after
      <4>. QED
        BY <3>2, <4>1, <4>2
    <3>4. CASE vals[o].ty # "repeat"
      BY <3>3, <3>4 DEF Copied
    <3>5. CASE vals[o].ty = "repeat"
      <4>1. from(o).obj \in N /\ prev[o] = from(o).obj
        BY <1>1, <1>2, <3>5
      <4>2. g[from(o).obj] = f[prev[o]] /\ g[o] = f[o]
        BY <4>1
      <4>. HIDE DEF after, g, prev
      <4>. QED
        BY <3>3, <4>2
    <3>. QED
      BY <3>4, <3>5
  <2>. HIDE DEF after
  <2>. QED
    BY <2>1
<1>7. OfArray = [o \in N |-> after(o, OfArray[from(o).obj])]
  <2>. HIDE DEF g, after, N
  <2>. QED
    BY <1>6
<1>8. \A o \in N : OfArray[o] = after(o, OfArray[from(o).obj])
  <2>. HIDE DEF OfArray, after
  <2>. QED
    BY <1>7
<1>9. \A r : CloneOf(vals, r) = IF r.cell > 0 THEN cell(r) ELSE OfArray[r.obj]
  BY DEF CloneOf, Copied, CellCopy
<1>. DEFINE fills(o, d) == DanglesIn(vals, o, d)
            flag == [o \in 1..n |-> [d \in BOOLEAN |-> fills(o, d)]]
<1>10. PICK h : Solves(h, n, BOOLEAN, FALSE, prev, flag)
  <2>1. prev \in [1..n -> Nat] /\ \A k \in 1..n : prev[k] < k
    <3>1. ASSUME NEW o \in 1..n PROVE prev[o] \in Nat /\ prev[o] < o
      BY <1>1, <1>2
    <3>. QED
      BY <3>1
  <2>2. flag \in [1..n -> [BOOLEAN -> BOOLEAN]]
    <3>1. ASSUME NEW o \in 1..n, NEW d \in BOOLEAN PROVE fills(o, d) \in BOOLEAN
      BY <3>1 DEF DanglesIn, Dangling
    <3>. HIDE DEF fills, n
    <3>. QED
      BY <3>1
  <2>. HIDE DEF prev, flag, n
  <2>3. Recurrence(n, BOOLEAN, FALSE, prev, flag)
    BY <1>1, <2>1, <2>2 DEF Recurrence
  <2>. QED
    BY <2>3, Recursion
<1>11. h \in [0..n -> BOOLEAN] /\ \A o \in 1..n : h[o] = flag[o][h[prev[o]]]
  <2>. HIDE DEF prev, flag, n
  <2>. QED
    BY <1>10 DEF Solves
<1>. DEFINE e == [o \in N |-> h[o]]
<1>12. e = [o \in N |-> fills(o, e[from(o).obj])]
  <2>1. ASSUME NEW o \in N PROVE e[o] = fills(o, e[from(o).obj])
    <3>1. prev[o] \in 0..n
      BY <1>1, <1>2
    <3>2. h[prev[o]] \in BOOLEAN /\ h[o] = flag[o][h[prev[o]]]
      <4>. HIDE DEF n, prev, flag
      <4>. QED
        BY <1>1, <1>11, <3>1
    <3>3. h[o] = fills(o, h[prev[o]])
      <4>1. \A d \in BOOLEAN : flag[o][d] = fills(o, d)
        <5>. HIDE DEF fills, n, N
        <5>. QED
          BY <1>1
      <4>. HIDE DEF n, prev, flag, fills
      <4>. QED
        BY <3>2, <4>1
    <3>4. CASE vals[o].ty # "repeat"
      BY <3>3, <3>4 DEF DanglesIn
    <3>5. CASE vals[o].ty = "repeat"
      <4>1. from(o).obj \in N /\ prev[o] = from(o).obj
        BY <1>1, <1>2, <3>5
      <4>2. e[from(o).obj] = h[prev[o]] /\ e[o] = h[o]
        BY <4>1
      <4>. HIDE DEF fills, e, prev
      <4>. QED
        BY <3>3, <4>2
    <3>. QED
      BY <3>4, <3>5
  <2>. HIDE DEF fills
  <2>. QED
    BY <2>1
<1>13. Fill = [o \in N |-> fills(o, Fill[from(o).obj])]
  <2>. HIDE DEF e, N
  <2>. QED
    BY <1>12
<1>14. \A o \in N : Fill[o] = fills(o, Fill[from(o).obj])
  <2>. HIDE DEF Fill, fills
  <2>. QED
    BY <1>13
<1>15. \A r, size : ConstructDangles(vals, r, size) = IF r.cell > 0 THEN Dangling(vals, r)
                                                      ELSE size > 0 /\ Fill[r.obj]
  BY DEF ConstructDangles, DanglesIn
<1>. HIDE DEF OfArray, Fill, after, fills, cell
<1>. QED
  BY <1>8, <1>9, <1>14, <1>15 DEF after, fills, cell

\* An array is cloned into cells that fill its shape, unless its initer dangles.
LEMMA Clones ==
    ASSUME NEW vals, HeapOK(vals), NEW r, Good(vals, r), NEW size \in Nat, size # 0,
           ~ConstructDangles(vals, r, size)
    PROVE  CloneOf(vals, r) \in Contents
<1>. DEFINE n == Len(vals)
            N == DOMAIN vals
            from(o) == vals[o].initer
            cell(c) == CellCopy(vals, c)
            made(o) == [shape |-> vals[o].shape, cells |-> vals[o].cells]
<1>1. /\ N = 1..n /\ n \in Nat
      /\ \A o \in N : vals[o] \in Objects /\ Sound(vals, o)
  BY HeapObjects
<1>2. ASSUME NEW o \in N
      PROVE  /\ vals[o].shape \in Seq(Nat) /\ vals[o].cells \in Seq(Int32)
             /\ from(o) \in References
             /\ vals[o].ty = "repeat" => /\ vals[o].shape[1] \in Nat
                                         /\ from(o).obj \in N /\ from(o).obj < o
  <2>1. vals[o].shape \in Seq(Nat) /\ vals[o].cells \in Seq(Int32) /\ from(o) \in References
    BY <1>1 DEF Objects
  <2>2. vals[o].ty = "repeat" => Len(vals[o].shape) >= 1 /\ from(o).obj \in 1..(o - 1)
    BY <1>1 DEF Sound
  <2>. QED
    BY <1>1, <2>1, <2>2
<1>3. PICK OfArray, Fill :
          /\ \A o \in N : /\ OfArray[o] = Copied(vals, o, OfArray[from(o).obj])
                          /\ Fill[o] = DanglesIn(vals, o, Fill[from(o).obj])
          /\ CloneOf(vals, r) = IF r.cell > 0 THEN cell(r) ELSE OfArray[r.obj]
          /\ ConstructDangles(vals, r, size) = IF r.cell > 0 THEN Dangling(vals, r)
                                               ELSE size > 0 /\ Fill[r.obj]
  BY CloneRecursion
\* What a cell that does not dangle is copied into.
<1>16. ASSUME NEW c \in References, c.obj \in N, c.cell > 0, ~Dangling(vals, c)
       PROVE  cell(c) \in Contents
  <2>1. vals[c.obj].cells \in Seq(Int32) /\ c.cell \in Nat
    BY <1>2, <1>16 DEF References
  <2>2. c.cell \in 1..Len(vals[c.obj].cells)
    BY <1>16, <2>1 DEF Dangling
  <2>3. getValue(vals, c) \in Int32
    <3>. HIDE DEF Int32
    <3>. QED
      BY <2>1, <2>2 DEF getValue
  <2>. HIDE DEF Int32
  <2>. DEFINE v == getValue(vals, c)
  <2>4. <<v>> \in Seq(Int32) /\ <<>> \in Seq(Nat) /\ Len(<<v>>) = 1
    BY <2>3
  <2>. QED
    BY <2>4, CellsOf DEF Contents, CellCopy
<1>. DEFINE G == { k \in 0..n : k \in N /\ vals[k].ty \in ArrayTypes /\ ~Fill[k] =>
                                    OfArray[k] \in Contents }
<1>17. 0..n \subseteq G
  <2>1. ASSUME NEW k \in 0..n, \A j \in 0..n : j < k => j \in G PROVE k \in G
    <3>1. SUFFICES ASSUME k \in N, vals[k].ty \in ArrayTypes, ~Fill[k]
                   PROVE  OfArray[k] \in Contents
      OBVIOUS
    <3>2. /\ OfArray[k] = Copied(vals, k, OfArray[from(k).obj])
          /\ ~DanglesIn(vals, k, Fill[from(k).obj])
      BY <1>3, <3>1
    <3>3. CASE vals[k].ty # "repeat"
      <4>1. OfArray[k] = made(k) /\ Sound(vals, k)
        BY <1>1, <3>1, <3>2, <3>3 DEF Copied
      <4>. QED
        BY <1>2, <3>1, <4>1 DEF Contents, Sound
    <3>4. CASE vals[k].ty = "repeat"
      <4>. DEFINE c == IF from(k).cell > 0 THEN cell(from(k)) ELSE OfArray[from(k).obj]
      <4>1. /\ vals[k].shape[1] \in Nat /\ from(k).obj \in N /\ from(k).obj < k
            /\ from(k) \in References
            /\ from(k).cell = 0 => vals[from(k).obj].ty \in ArrayTypes
        BY <1>1, <1>2, <3>1, <3>4 DEF Sound
      <4>2. OfArray[k] = Filled(vals[k].shape[1], c)
        BY <3>2, <3>4 DEF Copied
      <4>3. ASSUME vals[k].shape[1] # 0, from(k).cell > 0 PROVE c \in Contents
        <5>1. ~Dangling(vals, from(k))
          BY <3>2, <3>4, <4>3 DEF DanglesIn
        <5>2. cell(from(k)) \in Contents
          BY <1>16, <4>1, <4>3, <5>1
        <5>. QED
          BY <4>3, <5>2
      <4>4. ASSUME vals[k].shape[1] # 0, ~(from(k).cell > 0) PROVE c \in Contents
        <5>1. ~Fill[from(k).obj] /\ from(k).cell = 0
          BY <3>2, <3>4, <4>1, <4>4 DEF References, DanglesIn
        <5>2. from(k).obj \in 0..n
          BY <1>1, <4>1
        <5>3. OfArray[from(k).obj] \in Contents
          BY <2>1, <4>1, <5>1, <5>2
        <5>. QED
          BY <4>4, <5>3
      <4>. HIDE DEF c
      <4>. QED
        BY <4>1, <4>2, <4>3, <4>4, FilledContents
    <3>. QED
      BY <3>3, <3>4
  <2>. HIDE DEF G, n, N
  <2>. QED
    BY <1>1, <2>1, FromSmaller
<1>18. CASE r.cell > 0
  BY <1>3, <1>16, <1>18 DEF Good
<1>19. CASE ~(r.cell > 0)
  <2>1. r.cell = 0 /\ r.obj \in N /\ vals[r.obj].ty \in ArrayTypes /\ r.obj \in 0..n
    BY <1>1, <1>19 DEF Good, References
  <2>2. ~Fill[r.obj]
    <3>1. size > 0
      OBVIOUS
    <3>2. ConstructDangles(vals, r, size) = (size > 0 /\ Fill[r.obj])
      BY <1>3, <1>19
    <3>. QED
      BY <3>1, <3>2, Zenon
  <2>. QED
    BY <1>3, <1>17, <1>19, <2>1, <2>2
<1>. QED
  BY <1>18, <1>19

\* A new object that fills its shape keeps the heap sound.
LEMMA ArrayAppended ==
    ASSUME NEW vals, HeapOK(vals), NEW o \in Objects, o.ty \in ArrayTypes,
           Len(o.cells) = Cells(o.shape), Len(o.shape) >= 1,
           o.ty = "repeat" => Good(vals, o.initer)
    PROVE  /\ Sound(Append(vals, o), Len(vals) + 1)
           /\ Good(Append(vals, o), ArrayRef(Len(vals) + 1))
<1>1. vals \in Seq(Objects) /\ DOMAIN vals = 1..Len(vals) /\ Len(vals) \in Nat
  BY HeapObjects DEF HeapOK
<1>. DEFINE new == Append(vals, o)
<1>2. /\ new[Len(vals) + 1] = o /\ Len(vals) + 1 \in DOMAIN new
      /\ \A i \in 1..Len(vals) : new[i] = vals[i]
  <2>. HIDE DEF Objects
  <2>. QED
    BY <1>1
<1>. HIDE DEF new
<1>3. o.ty = "repeat" => /\ o.initer.obj \in 1..Len(vals)
                         /\ o.initer.cell = 0 => vals[o.initer.obj].ty \in ArrayTypes
  BY <1>1 DEF Good
<1>4. Sound(new, Len(vals) + 1)
  BY <1>1, <1>2, <1>3 DEF Sound, ArrayTypes
<1>5. Good(new, ArrayRef(Len(vals) + 1))
  <2>. DEFINE r == ArrayRef(Len(vals) + 1)
  <2>1. r \in References /\ r.obj = Len(vals) + 1 /\ r.cell = 0
    BY <1>1 DEF ArrayRef, References
  <2>. HIDE DEF r
  <2>2. Good(new, r)
    BY <1>2, <2>1 DEF Good
  <2>. QED
    BY <2>2 DEF r
<1>. QED
  BY <1>4, <1>5 DEF new

LEMMA UniformMade ==
    ASSUME NEW vals, HeapOK(vals), NEW r, Good(vals, r), NEW size \in Nat,
           ~ConstructDangles(vals, r, size)
    PROVE  LET o == UniformArrayVal(vals, r, size)
           IN  /\ o \in Objects /\ o.ty \in ArrayTypes /\ Len(o.cells) = Cells(o.shape)
               /\ Len(o.shape) >= 1 /\ Good(vals, o.initer)
<1>. DEFINE c == Filled(size, CloneOf(vals, r))
            o == UniformArrayVal(vals, r, size)
<1>1. c \in Contents /\ Len(c.shape) >= 1
  BY Clones, FilledContents
<1>2. /\ o = [ ty |-> "repeat", shape |-> c.shape, cells |-> c.cells, initer |-> r,
               alive |-> TRUE ]
  BY DEF UniformArrayVal
<1>. HIDE DEF c, o
<1>3. r \in References /\ "repeat" \in TypeNames /\ "repeat" \in ArrayTypes
  BY DEF Good, TypeNames, ArrayTypes
<1>4. c.shape \in Seq(Nat) /\ c.cells \in Seq(Int32) /\ Len(c.cells) = Cells(c.shape)
  BY <1>1 DEF Contents
<1>5. o \in Objects
  BY <1>2, <1>3, <1>4 DEF Objects
<1>6. o.ty = "repeat" /\ o.shape = c.shape /\ o.cells = c.cells /\ o.initer = r
  BY <1>2
<1>7. /\ o \in Objects /\ o.ty \in ArrayTypes /\ Len(o.cells) = Cells(o.shape)
      /\ Len(o.shape) >= 1 /\ Good(vals, o.initer)
  BY <1>1, <1>3, <1>4, <1>5, <1>6
<1>. QED
  BY <1>7 DEF o

\* What an element adds to the cells of a preset array.
Element(vals, r) == IF r.cell > 0 THEN <<getValue(vals, r)>> ELSE vals[r.obj].cells

\* The cells of a preset array after each of its elements.
CellsAfter(vals, refs, n, Held) ==
    /\ Held \in [0..n -> Seq(Int32)]
    /\ Held[0] = <<>>
    /\ \A k \in 1..n : Held[k] = Held[k - 1] \o Element(vals, refs[k])
    /\ PresetArrayVal(vals, refs) =
          [ ty |-> "array", shape |-> <<Len(Held[n])>>, cells |-> Held[n], initer |-> Null, alive |-> TRUE ]

LEMMA PresetCells ==
    ASSUME NEW vals, HeapOK(vals), NEW n \in Nat, NEW refs, DOMAIN refs = 1..n, Len(refs) = n,
           \A i \in 1..n : Good(vals, refs[i])
    PROVE  \E Held : CellsAfter(vals, refs, n, Held)
<1>. DEFINE D == Seq(Int32)
            part(i) == Element(vals, refs[i])
            prev == [k \in 1..n |-> k - 1]
            step == [k \in 1..n |-> [s \in D |-> s \o part(k)]]
            Held == CHOOSE Held : Held = [i \in 0..Len(refs) |->
                                            IF i = 0 THEN <<>> ELSE Held[i - 1] \o part(i)]
<1>1. ASSUME NEW i \in 1..n PROVE part(i) \in D
  <2>1. Good(vals, refs[i]) /\ refs[i].cell \in Nat
    BY DEF Good, References
  <2>2. CASE refs[i].cell > 0
    <3>1. getValue(vals, refs[i]) \in Int32
      BY <2>1, <2>2, ReadsInt
    <3>. HIDE DEF Int32
    <3>. QED
      BY <2>2, <3>1 DEF Element
  <2>3. CASE ~(refs[i].cell > 0)
    <3>1. vals[refs[i].obj] \in Objects
      BY <2>1, HeapObjects DEF Good
    <3>. QED
      BY <2>3, <3>1 DEF Objects, Element
  <2>. QED
    BY <2>2, <2>3
<1>2. ASSUME NEW s \in D, NEW i \in 1..n PROVE s \o part(i) \in D
  <2>1. part(i) \in D
    BY <1>1
  <2>. HIDE DEF part, Int32
  <2>. QED
    BY <2>1
<1>3. <<>> \in D
  OBVIOUS
<1>. HIDE DEF part
<1>4. PICK f : Solves(f, n, D, <<>>, prev, step)
  <2>1. step \in [1..n -> [D -> D]]
    <3>. HIDE DEF D
    <3>. QED
      BY <1>2
  <2>2. prev \in [1..n -> Nat] /\ \A k \in 1..n : prev[k] < k
    OBVIOUS
  <2>. HIDE DEF D, prev, step
  <2>3. Recurrence(n, D, <<>>, prev, step)
    BY <1>3, <2>1, <2>2 DEF Recurrence
  <2>. QED
    BY <2>3, Recursion
<1>5. f \in [0..n -> D] /\ f[0] = <<>> /\ \A k \in 1..n : f[k] = step[k][f[prev[k]]]
  <2>. HIDE DEF D, prev, step
  <2>. QED
    BY <1>4 DEF Solves
<1>6. ASSUME NEW k \in 1..n PROVE f[k] = f[k - 1] \o part(k)
  <2>1. prev[k] = k - 1 /\ k - 1 \in 0..n /\ \A s \in D : step[k][s] = s \o part(k)
    OBVIOUS
  <2>. HIDE DEF prev, step, D
  <2>. QED
    BY <1>5, <2>1
<1>7. f = [i \in 0..Len(refs) |-> IF i = 0 THEN <<>> ELSE f[i - 1] \o part(i)]
  <2>. HIDE DEF step, prev, D
  <2>. QED
    BY <1>5, <1>6
<1>8. Held = [i \in 0..Len(refs) |-> IF i = 0 THEN <<>> ELSE Held[i - 1] \o part(i)]
  BY <1>7
<1>9. PresetArrayVal(vals, refs) =
         [ ty |-> "array", shape |-> <<Len(Held[Len(refs)])>>, cells |-> Held[Len(refs)],
           initer |-> Null, alive |-> TRUE ]
  BY DEF PresetArrayVal, part, Element
<1>. HIDE DEF Held
<1>10. Held[0] = <<>> /\ \A k \in 1..n : Held[k] = Held[k - 1] \o part(k)
  <2>1. \A i \in 0..n : Held[i] = IF i = 0 THEN <<>> ELSE Held[i - 1] \o part(i)
    BY <1>8
  <2>2. 0 \in 0..n /\ \A k \in 1..n : k \in 0..n /\ k # 0
    OBVIOUS
  <2>. QED
    BY <2>1, <2>2
<1>11. Held \in [0..n -> D]
  <2>. DEFINE G == { i \in 0..n : Held[i] \in D }
  <2>1. 0 \in G
    <3>1. 0 \in 0..n
      OBVIOUS
    <3>. HIDE DEF D
    <3>. QED
      BY <1>3, <1>10, <3>1
  <2>2. ASSUME NEW k \in 1..n, k - 1 \in G PROVE k \in G
    <3>1. Held[k - 1] \in D /\ k \in 0..n
      BY <2>2
    <3>2. Held[k] = Held[k - 1] \o part(k)
      BY <1>10
    <3>3. Held[k] \in D
      <4>. HIDE DEF D
      <4>. QED
        BY <1>2, <3>1, <3>2
    <3>. QED
      BY <3>1, <3>3
  <2>. HIDE DEF G
  <2>3. 0..n \subseteq G
    BY <2>1, <2>2, UpTo
  <2>4. \A i \in 0..n : Held[i] \in D
    BY <2>3 DEF G
  <2>5. Held = [i \in 0..n |-> Held[i]]
    <3>1. Held = [i \in 0..n |-> IF i = 0 THEN <<>> ELSE Held[i - 1] \o part(i)]
      BY <1>8
    <3>2. \A i \in 0..n : Held[i] = IF i = 0 THEN <<>> ELSE Held[i - 1] \o part(i)
      BY <1>8
    <3>. QED
      BY <3>1, <3>2
  <2>. HIDE DEF D
  <2>. QED
    BY <2>4, <2>5
<1>. WITNESS Held
<1>. QED
  BY <1>9, <1>10, <1>11 DEF part, CellsAfter

LEMMA PresetMade ==
    ASSUME NEW vals, HeapOK(vals), NEW n \in Nat, NEW refs, DOMAIN refs = 1..n, Len(refs) = n,
           \A i \in 1..n : Good(vals, refs[i])
    PROVE  LET o == PresetArrayVal(vals, refs)
           IN  /\ o \in Objects /\ o.ty = "array" /\ Len(o.cells) = Cells(o.shape)
               /\ Len(o.shape) >= 1
<1>. DEFINE o == PresetArrayVal(vals, refs)
<1>0. PICK Held : CellsAfter(vals, refs, n, Held)
  BY PresetCells
<1>1. /\ Held \in [0..n -> Seq(Int32)]
      /\ o = [ ty |-> "array", shape |-> <<Len(Held[n])>>, cells |-> Held[n], initer |-> Null,
               alive |-> TRUE ]
  BY <1>0 DEF CellsAfter
<1>. DEFINE cells == Held[n]
<1>2. cells \in Seq(Int32)
  <2>. HIDE DEF Int32
  <2>. QED
    BY <1>1
<1>. HIDE DEF cells, o
<1>3. Len(cells) \in Nat /\ <<Len(cells)>> \in Seq(Nat) /\ Len(<<Len(cells)>>) = 1
  BY <1>2
<1>4. Cells(<<Len(cells)>>) = Len(cells)
  BY <1>3, CellsOf
<1>5. Null \in References /\ "array" \in TypeNames
  BY DEF Null, References, TypeNames, ArrayTypes
<1>6. o \in Objects
  BY <1>1, <1>2, <1>3, <1>5 DEF Objects, cells
<1>7. o.ty = "array" /\ o.cells = cells /\ o.shape = <<Len(cells)>>
  BY <1>1 DEF cells
<1>8. o \in Objects /\ o.ty = "array" /\ Len(o.cells) = Cells(o.shape) /\ Len(o.shape) >= 1
  BY <1>3, <1>4, <1>6, <1>7
<1>. QED
  BY <1>8 DEF o

\* destroy() empties arrays and touches no int.
LEMMA HeapFreed ==
    ASSUME NEW vals, HeapOK(vals), NEW gone, \A o \in gone : o \in DOMAIN vals => vals[o].ty \in ArrayTypes,
           NEW new, new = [o \in DOMAIN vals |-> IF o \in gone THEN Destroyed(vals[o]) ELSE vals[o]]
    PROVE  /\ HeapOK(new) /\ DOMAIN new = DOMAIN vals
           /\ \A o \in DOMAIN vals : new[o].ty = vals[o].ty /\ (vals[o].ty = "int32" => new[o] = vals[o])
<1>1. /\ DOMAIN vals = 1..Len(vals) /\ Len(vals) \in Nat
      /\ \A o \in DOMAIN vals : vals[o] \in Objects /\ Sound(vals, o)
  BY HeapObjects
<1>2. ASSUME NEW o \in DOMAIN vals
      PROVE  LET d == Destroyed(vals[o])
             IN  /\ d \in Objects /\ d.ty = vals[o].ty /\ d.initer = vals[o].initer
                 /\ d.shape = <<0>> /\ d.cells = <<>>
  <2>1. <<0>> \in Seq(Nat) /\ <<>> \in Seq(Int32)
    OBVIOUS
  <2>2. vals[o] \in Objects
    BY <1>1
  <2>. QED
    BY <2>1, <2>2 DEF Destroyed, Objects
<1>3. ASSUME NEW o \in DOMAIN vals
      PROVE  /\ new[o] \in Objects /\ new[o].ty = vals[o].ty /\ new[o].initer = vals[o].initer
             /\ o \notin gone => new[o] = vals[o]
             /\ o \in gone => new[o].shape = <<0>> /\ new[o].cells = <<>>
  <2>. HIDE DEF Objects
  <2>. QED
    BY <1>1, <1>2
<1>4. DOMAIN new = DOMAIN vals /\ new \in Seq(Objects)
  <2>. HIDE DEF Objects
  <2>1. new \in [1..Len(vals) -> Objects]
    BY <1>1, <1>3
  <2>. QED
    BY <1>1, <2>1, FunctionsAreSeqs
<1>5. ASSUME NEW o \in DOMAIN vals PROVE Sound(new, o)
  <2>1. Sound(vals, o) /\ o \in 1..Len(vals)
    BY <1>1
  <2>2. vals[o].ty = "repeat" => vals[o].initer.obj \in DOMAIN vals
    BY <1>1, <2>1 DEF Sound
  <2>3. Len(<<0>>) = 1 /\ Len(<<>>) = 0
    OBVIOUS
  <2>4. CASE o \in gone
    <3>1. new[o].shape = <<0>> /\ new[o].cells = <<>> /\ vals[o].ty \in ArrayTypes
      BY <1>3, <2>4
    <3>2. vals[o].ty # "int32"
      BY <3>1 DEF ArrayTypes
    <3>. QED
      <4>1. Len(new[o].cells) = Cells(new[o].shape) /\ Len(new[o].shape) >= 1
        BY <2>3, <3>1, CellsOf
      <4>2. new[o].ty = vals[o].ty /\ new[o].initer = vals[o].initer
        BY <1>3
      <4>3. vals[o].ty = "repeat" =>
              /\ vals[o].initer.obj \in 1..(o - 1)
              /\ vals[o].initer.cell = 0 => new[vals[o].initer.obj].ty \in ArrayTypes
        <5>. HIDE DEF ArrayTypes
        <5>. QED
          BY <1>3, <2>1, <2>2 DEF Sound
      <4>. QED
        BY <3>2, <4>1, <4>2, <4>3 DEF Sound
  <2>5. CASE o \notin gone
    BY <1>3, <2>1, <2>2, <2>5 DEF Sound
  <2>. QED
    BY <2>4, <2>5
<1>6. \A o \in DOMAIN vals : vals[o].ty = "int32" => new[o] = vals[o]
  BY <1>3 DEF ArrayTypes
<1>. QED
  BY <1>3, <1>4, <1>5, <1>6 DEF HeapOK

-----------------------------------------------------------------------------
(***************************************************************************)
(* The invariant of an evaluation.  An expression holds what its operands  *)
(* returned until it returns itself, and so does an if or a while until it *)
(* has looked at its condition; no block is left meanwhile, so that no     *)
(* array is destroyed that one of them refers to.                          *)
(***************************************************************************)
Holding(n) == Kind(n) \in ExpressionKinds \/ (Kind(n) \in {"if", "while"} /\ done[n] = 1)

OperandsHeld ==
    \A n \in OnStack : Holding(n) =>
        \A i \in DOMAIN Kids(n) :
            i <= done[n] /\ Kid(n, i) \notin OnStack => Good(Values, ret[Kid(n, i)])

\* So many indices lead from the array r refers to into one of its parts.
PartOf(vals, r, indices) ==
    /\ r \in References /\ r.obj \in DOMAIN vals
    /\ vals[r.obj].ty \in ArrayTypes =>
          /\ indices \in 0..Len(vals[r.obj].shape)
          /\ r.cell < Parts(vals[r.obj].shape)[indices]

AccessesInside ==
    \A n \in OnStack : Kind(n) = "access" /\ done[n] > 0 => PartOf(Values, ret[n], done[n] - 1)

ReturnsRefs ==
    ret \in [Node -> References] /\ \A n \in Node : ret[n] = Null \/ ret[n].obj \in DOMAIN Values

\* A name stands for an array or for an int of its own.
Bindable(vals, r) ==
    Good(vals, r) /\ (r.cell = 0 \/ (r.cell = 1 /\ vals[r.obj].ty = "int32"))

NamesBound ==
    /\ DOMAIN NamesInfo \subseteq Keys
    /\ \A k \in DOMAIN NameToValue : Bindable(Values, NameToValue[k])

ListsHoldArrays ==
    \A b \in DOMAIN ResourceHandleMap : \A o \in ResourceHandleMap[b] :
        o \in DOMAIN Values /\ Values[o].ty \in ArrayTypes

StreamsOK == reads \in Seq(InputValues) /\ Len(reads) <= MaxReads /\ output \in Seq(Int32)

EvalInv ==
    /\ HeapOK(Values) /\ ReturnsRefs /\ NamesBound /\ SymbolsCoherent /\ ListsHoldArrays
    /\ OperandsHeld /\ AccessesInside /\ StreamsOK

\* Only expressions run below a frame that holds operands.
LEMMA ExpressionsBelow ==
    ASSUME StackInv, NEW n \in OnStack, Holding(n), NEW m \in OnStack, m > n
    PROVE  Kind(m) \in ExpressionKinds
<1>. DEFINE Bad == { k \in OnStack : k > n /\ Kind(k) \notin ExpressionKinds }
<1>1. OnStack \subseteq Node /\ Node \subseteq Nat
  BY Trees DEF StackInv, ProgOK, OnStack, Node
<1>2. SUFFICES ASSUME Bad # {} PROVE FALSE
  OBVIOUS
<1>3. PICK k \in Bad : \A l \in Bad : k <= l
  <2>1. Bad \in SUBSET Nat
    BY <1>1
  <2>. HIDE DEF Bad
  <2>. QED
    BY <1>2, <2>1, Least
<1>. DEFINE p == prog[k].parent
<1>4. k \in OnStack /\ k > n /\ Kind(k) \notin ExpressionKinds /\ k # 1 /\ k \in Node
  <2>1. n \in 1..Len(prog) /\ k \in Nat
    BY <1>1, Trees DEF StackInv, ProgOK, OnStack, Node
  <2>. QED
    BY <1>1, <2>1
<1>5. p \in OnStack /\ n <= p /\ p < k /\ n \in Nat /\ p \in Nat /\ k \in Nat
  <2>1. p \in 1..(k - 1) /\ k \in Nat /\ n \in Nat
    BY <1>1, <1>4, Trees DEF StackInv, ProgOK, Node
  <2>2. n < k
    BY <1>4, <2>1
  <2>3. p \in OnStack /\ n <= p
    BY <1>4, <2>2 DEF StackInv, StackIsPath
  <2>. QED
    BY <2>1, <2>3
<1>6. done[p] \in DOMAIN Kids(p) /\ Kid(p, done[p]) = k
  BY <1>4 DEF StackInv, CallersAccepted
<1>7. Kind(p) \in ExpressionKinds \/ (Kind(p) \in {"if", "while"} /\ done[p] = 1)
  <2>1. CASE p = n
    BY <2>1 DEF Holding
  <2>2. CASE p # n
    <3>1. p > n /\ ~(k <= p)
      BY <1>5, <2>2
    <3>2. p \notin Bad
      <4>. HIDE DEF Bad
      <4>. QED
        BY <1>3, <3>1
    <3>. QED
      BY <1>5, <3>1, <3>2
  <2>. QED
    BY <2>1, <2>2
<1>8. Kind(k) \in ExpressionKinds
  BY <1>1, <1>5, <1>6, <1>7, NodeShape DEF StackInv
<1>. QED
  BY <1>4, <1>8

LEMMA NoneHolding ==
    ASSUME StackInv, cur # 0, Kind(cur) \notin ExpressionKinds, NEW n \in OnStack, n # cur
    PROVE  ~Holding(n)
<1>1. cur \in OnStack /\ n <= cur /\ n \in Nat /\ cur \in Nat
  BY KidsExist, Trees DEF StackInv, StackIsPath, ProgOK, OnStack, Node
<1>. QED
  BY <1>1, ExpressionsBelow

\* What the frame on top can rely on.
LEMMA OperandsReady ==
    ASSUME StackInv, HeapOK(Values), OperandsHeld, cur # 0, Holding(cur),
           NEW i \in DOMAIN Kids(cur), i <= done[cur]
    PROVE  /\ Good(Values, Arg(i)) /\ (IsIntArg(i) <=> Arg(i).cell # 0)
           /\ IsIntArg(i) => IntArg(i) \in Int32
<1>1. cur \in OnStack /\ cur \in Node /\ Node \subseteq Nat
  BY KidsExist, Trees DEF StackInv, StackIsPath, ProgOK, Node
<1>2. Kid(cur, i) \in Node /\ Kid(cur, i) > cur
  BY <1>1, NodeShape DEF StackInv
<1>3. Kid(cur, i) \notin OnStack
  BY <1>1, <1>2 DEF StackInv, StackIsPath
<1>4. Good(Values, Arg(i))
  BY <1>1, <1>3 DEF OperandsHeld, Arg
<1>. QED
  BY <1>4, ReadsInt DEF IsIntArg, IntArg

-----------------------------------------------------------------------------
(***************************************************************************)
(* What a step of the interpreter can do to its variables.                 *)
(***************************************************************************)
KeepsStreams == UNCHANGED <<reads, output>>
KeepsTables  == UNCHANGED tableVars
KeepsLists   == UNCHANGED ResourceHandleMap

\* The visit of an expression returns a reference that is good.
GivesGood ==
    /\ cur # 0 /\ Kind(cur) \in ExpressionKinds /\ Returns
    /\ HeapOK(Values') /\ SameLayout(Values, Values')
    /\ \E r : Good(Values', r) /\ ret' = [ret EXCEPT ![cur] = r]

Binds ==
    \E key \in Keys, r \in References :
        /\ key \notin DOMAIN NamesInfo /\ Bindable(Values', r)
        /\ NamesInfo' = Emplace(NamesInfo, key, TypeOf(Values', r))
        /\ NameToValue' = Emplace(NameToValue, key, r)

Enlists ==
    \E b \in Node : \E o \in DOMAIN Values' :
        Values'[o].ty \in ArrayTypes /\ addResourceForFree(o, b)

Gives ==
    /\ GivesGood
    /\ KeepsTables \/ Binds
    /\ KeepsLists \/ Enlists
    /\ StreamsOK'

Proceeds ==
    /\ cur # 0
    /\ \E i \in DOMAIN Kids(cur) :
          /\ Accept(i)
          /\ Kind(cur) \in ExpressionKinds => i = done[cur] + 1
          /\ IF Kind(cur) = "access"
             THEN \E r : ret' = [ret EXCEPT ![cur] = r] /\ PartOf(Values, r, i - 1)
             ELSE ret' = ret
    /\ KeepsTables /\ KeepsLists /\ KeepsStreams /\ UNCHANGED Values

LeavesStatement ==
    /\ cur # 0 /\ Kind(cur) \notin ExpressionKinds /\ Returns
    /\ UNCHANGED Values \/ freeResources(cur)
    /\ KeepsTables /\ KeepsLists /\ KeepsStreams /\ UNCHANGED ret

StaysPut == Stays /\ UNCHANGED interpVars

LEMMA IntGiven ==
    ASSUME StackInv, HeapOK(Values), cur # 0, Kind(cur) \in ExpressionKinds,
           NEW v \in Int32, GiveInt(v)
    PROVE  GivesGood
<1>1. /\ Values' = Append(Values, IntegerVal(v)) /\ Returns
      /\ ret' = [ret EXCEPT ![cur] = IntRef(Len(Values) + 1)]
  BY DEF GiveInt, createValue, Give, NewObj, Returns
<1>2. /\ IntegerVal(v) \in Objects /\ Sound(Append(Values, IntegerVal(v)), Len(Values) + 1)
      /\ Good(Values', IntRef(Len(Values) + 1))
  BY <1>1, IntegerMade
<1>3. HeapOK(Values') /\ SameLayout(Values, Values')
  BY <1>1, <1>2, HeapAppended
<1>. QED
  BY <1>1, <1>2, <1>3 DEF GivesGood

LEMMA SameItself == ASSUME NEW vals PROVE SameLayout(vals, vals)
BY DEF SameLayout

LEMMA RefGiven ==
    ASSUME StackInv, HeapOK(Values), cur # 0, Kind(cur) \in ExpressionKinds,
           NEW r, Good(Values, r), Give(r), UNCHANGED Values
    PROVE  GivesGood
<1>1. Values' = Values /\ Returns /\ ret' = [ret EXCEPT ![cur] = r]
  BY DEF Give, Returns
<1>2. SameLayout(Values, Values')
  BY <1>1, SameItself
<1>. QED
  BY <1>1, <1>2 DEF GivesGood

\* An int is written, an operand is returned.
LEMMA IntSet ==
    ASSUME StackInv, HeapOK(Values), cur # 0, Kind(cur) \in ExpressionKinds,
           NEW target, Good(Values, target), NEW v \in Int32, Values' = setValue(Values, target, v),
           NEW r, Good(Values, r), Give(r)
    PROVE  GivesGood
<1>1. HeapOK(Values') /\ SameLayout(Values, Values')
  BY HeapSet
<1>2. Good(Values', r)
  BY <1>1, GoodKept
<1>. QED
  BY <1>1, <1>2 DEF GivesGood, Give, Returns

LEMMA ArrayGiven ==
    ASSUME StackInv, HeapOK(Values), cur # 0, Kind(cur) \in {"preset", "uniform"},
           NEW o \in Objects, o.ty \in ArrayTypes, Len(o.cells) = Cells(o.shape), Len(o.shape) >= 1,
           o.ty = "repeat" => Good(Values, o.initer),
           GiveArray(o), KeepsTables, KeepsStreams, StreamsOK
    PROVE  Gives
<1>. DEFINE a == Len(Values) + 1
<1>1. /\ Values' = Append(Values, o) /\ Returns
      /\ ret' = [ret EXCEPT ![cur] = ArrayRef(a)]
      /\ addResourceForFree(a, Scope(cur)[1])
  BY DEF GiveArray, createValue, Give, NewObj, Returns
<1>2. Sound(Append(Values, o), a) /\ Good(Values', ArrayRef(a))
  BY <1>1, ArrayAppended
<1>3. /\ HeapOK(Values') /\ SameLayout(Values, Values')
      /\ a \in DOMAIN Values' /\ Values'[a] = o
  BY <1>1, <1>2, HeapAppended
<1>4. Kind(cur) \in ExpressionKinds
  BY DEF ExpressionKinds, Arity
<1>5. Scope(cur)[1] \in Node
  <2>1. cur \in Node /\ cur # 1
    BY KidsExist, Trees DEF StackInv, ProgOK, Kind
  <2>. QED
    BY <2>1, ScopesLookUp DEF StackInv
<1>. HIDE DEF a
<1>6. Enlists
  BY <1>1, <1>3, <1>5 DEF Enlists
<1>7. StreamsOK'
  BY DEF StreamsOK, KeepsStreams
<1>. QED
  BY <1>1, <1>2, <1>3, <1>4, <1>6, <1>7 DEF Gives, GivesGood

\* What a name stands for.
LEMMA NameFound ==
    ASSUME StackInv, NamesBound, SymbolsCoherent, NEW n \in Node,
           isDefined(NamesInfo, Name(n), Scope(n))
    PROVE  /\ getDeclKeyFor(NamesInfo, Name(n), Scope(n)) \in DOMAIN NameToValue
           /\ Bindable(Values, NameToValue[getDeclKeyFor(NamesInfo, Name(n), Scope(n))])
<1>1. Scope(n) \in Seq(Nat) /\ \A i \in DOMAIN Scope(n) : Scope(n)[i] # 0
  BY ScopesLookUp DEF StackInv
<1>2. getDeclKeyFor(NamesInfo, Name(n), Scope(n)) \in DOMAIN NamesInfo
  BY <1>1, Lookup
<1>. QED
  BY <1>2 DEF SymbolsCoherent, NamesBound

LEMMA NameNotFound ==
    ASSUME StackInv, NEW n \in Node, n # 1, ~isDefined(NamesInfo, Name(n), Scope(n))
    PROVE  /\ SymTabKey(Name(n), Scope(n)[1]) \in Keys
           /\ SymTabKey(Name(n), Scope(n)[1]) \notin DOMAIN NamesInfo
<1>1. /\ Scope(n) \in Seq(Nat) /\ \A i \in DOMAIN Scope(n) : Scope(n)[i] # 0
      /\ 1 \in DOMAIN Scope(n) /\ Scope(n)[1] \in Node /\ IsBlock(prog, Scope(n)[1])
  BY ScopesLookUp DEF StackInv
<1>2. DeclaredAt(NamesInfo, Name(n), Scope(n)) = {}
  BY <1>1, Lookup
<1>. QED
  BY <1>1, <1>2 DEF DeclaredAt, Keys, Name

\* The kinds whose visit methods compute a value.
LEMMA ValueKinds ==
    {"number", "read", "variable", "un", "calc", "logic", "print", "assign", "holder", "preset",
     "uniform", "access", "accessAssign"} \subseteq ExpressionKinds
BY DEF ExpressionKinds, Arity

LEMMA IntStep ==
    ASSUME StackInv, EvalInv, cur # 0, Kind(cur) \in ExpressionKinds, NEW v \in Int32, GiveInt(v),
           KeepsTables, KeepsLists, StreamsOK'
    PROVE  Gives
BY IntGiven DEF EvalInv, Gives

LEMMA RefStep ==
    ASSUME StackInv, EvalInv, cur # 0, Kind(cur) \in ExpressionKinds,
           NEW r, Good(Values, r), Give(r), UNCHANGED Values,
           KeepsTables, KeepsLists, StreamsOK'
    PROVE  Gives
BY RefGiven DEF EvalInv, Gives

LEMMA StreamsKept ==
    ASSUME StreamsOK, KeepsStreams
    PROVE  StreamsOK'
BY DEF StreamsOK, KeepsStreams

LEMMA LeavesTyped ==
    ASSUME StackInv, EvalInv, VisitNumber \/ VisitRead \/ VisitVariable
    PROVE  Gives \/ StaysPut
<1>1. StreamsOK /\ cur # 0
  BY DEF EvalInv, VisitNumber, VisitRead, VisitVariable, Ready, At
<1>2. cur \in Node /\ cur \in OnStack
  BY <1>1, KidsExist DEF StackInv, StackIsPath
<1>3. CASE VisitNumber
  <2>1. /\ Kind(cur) = "number" /\ GiveInt(prog[cur].val)
        /\ KeepsTables /\ KeepsLists /\ KeepsStreams
    BY <1>3 DEF VisitNumber, Ready, At, KeepsTables, KeepsLists, KeepsStreams
  <2>2. prog[cur].val \in Int32
    BY <1>2, <2>1, NodeShape DEF StackInv
  <2>. QED
    BY <1>1, <2>1, <2>2, IntStep, StreamsKept, ValueKinds
<1>4. CASE VisitRead
  <2>1. CASE StopHere("badInput")
    BY <2>1 DEF StopHere, StaysPut, Stop, Stays, Ends
  <2>2. CASE ~StopHere("badInput")
    <3>1. PICK v \in InputValues : reads' = Append(reads, v) /\ GiveInt(v)
      BY <1>4, <2>2 DEF VisitRead
    <3>2. /\ Kind(cur) = "read" /\ Len(reads) < MaxReads
          /\ KeepsTables /\ KeepsLists /\ output' = output
      BY <1>4, <2>2 DEF VisitRead, Ready, At, KeepsTables, KeepsLists
    <3>3. StreamsOK'
      BY <1>1, <3>1, <3>2, InputAssumption DEF StreamsOK
    <3>. QED
      BY <1>1, <3>1, <3>2, <3>3, IntStep, ValueKinds, InputAssumption
  <2>. QED
    BY <2>1, <2>2
<1>5. CASE VisitVariable
  <2>1. CASE ~isDefined(NamesInfo, Name(cur), Scope(cur))
    BY <1>5, <2>1 DEF VisitVariable, StopHere, StaysPut, Stop, Stays, Ends
  <2>2. CASE isDefined(NamesInfo, Name(cur), Scope(cur))
    <3>. DEFINE r == NameToValue[getDeclKeyFor(NamesInfo, Name(cur), Scope(cur))]
    <3>1. /\ Kind(cur) = "variable" /\ Give(r) /\ Values' = Values
          /\ KeepsTables /\ KeepsLists /\ KeepsStreams
      BY <1>5, <2>2 DEF VisitVariable, Ready, At, KeepsTables, KeepsLists, KeepsStreams
    <3>2. Good(Values, r)
      BY <1>2, <2>2, NameFound DEF EvalInv, Bindable
    <3>. HIDE DEF r
    <3>. QED
      BY <1>1, <3>1, <3>2, RefStep, StreamsKept, ValueKinds
  <2>. QED
    BY <2>1, <2>2
<1>. QED
  BY <1>3, <1>4, <1>5

\* The operands of an expression that are evaluated are good, and ints are ints.
LEMMA Operand ==
    ASSUME StackInv, EvalInv, cur # 0, Kind(cur) \in ExpressionKinds \cup {"if", "while"},
           Kind(cur) \notin ExpressionKinds => done[cur] = 1,
           NEW i \in 1..Len(Kids(cur)), i <= done[cur]
    PROVE  /\ Good(Values, Arg(i)) /\ (IsIntArg(i) <=> Arg(i).cell # 0)
           /\ IsIntArg(i) => IntArg(i) \in Int32
<1>1. Holding(cur) /\ i \in DOMAIN Kids(cur)
  BY KidsExist DEF Holding
<1>. QED
  BY <1>1, OperandsReady DEF EvalInv

LEMMA OperatorsTyped ==
    ASSUME StackInv, EvalInv,
           VisitUn \/ VisitCalc \/ VisitLogicLhs \/ VisitLogicRhs \/ VisitPrint \/ VisitArrayHolder
    PROVE  Gives \/ Proceeds \/ StaysPut
<1>1. StreamsOK /\ cur # 0 /\ cur \in Node /\ Len(Kids(cur)) \in Nat
  <2>1. cur # 0
    BY DEF VisitUn, VisitCalc, VisitLogicLhs, VisitLogicRhs, VisitPrint, VisitArrayHolder, Ready, At
  <2>. QED
    BY <2>1, KidsExist DEF EvalInv
<1>2. /\ Kind(cur) \in {"un", "print", "holder"} => Len(Kids(cur)) = 1
      /\ Kind(cur) \in {"calc", "logic"} => Len(Kids(cur)) = 2
      /\ Kind(cur) = "un" => Op(cur) \in {"+", "-", "!"}
      /\ Kind(cur) = "calc" => Op(cur) \in {"+", "-", "*", "/", "%"}
      /\ Kind(cur) = "logic" => Op(cur) \in {"<", "<=", ">", ">=", "==", "!=", "&&", "||"}
  BY <1>1, NodeShape DEF StackInv
<1>3. /\ Kind(cur) \in {"un", "print", "holder", "calc"} => Operands(cur) = Len(Kids(cur))
      /\ Kind(cur) = "logic" => Operands(cur) = 1
  BY DEF Operands
<1>4. ASSUME NEW why \in Ends, StopHere(why) PROVE StaysPut
  BY <1>4 DEF StopHere, StaysPut, Stop, Stays
<1>5. CASE VisitUn
  <2>1. /\ Kind(cur) = "un" /\ done[cur] = 1 /\ Kind(cur) \in ExpressionKinds
        /\ 1 \in 1..Len(Kids(cur))
    BY <1>1, <1>2, <1>3, <1>5, ValueKinds DEF VisitUn, Ready, At
  <2>2. Good(Values, Arg(1)) /\ (IsIntArg(1) => IntArg(1) \in Int32)
    BY <1>1, <2>1, Operand
  <2>3. CASE ~IsIntArg(1)
    BY <1>4, <1>5, <2>3 DEF VisitUn, Ends
  <2>4. CASE IsIntArg(1)
    <3>1. /\ KeepsTables /\ KeepsLists /\ KeepsStreams
          /\ (Give(Arg(1)) /\ Values' = Values) \/ GiveInt(UnaryValue(Op(cur), IntArg(1)))
      BY <1>5, <2>4 DEF VisitUn, KeepsTables, KeepsLists, KeepsStreams
    <3>2. UnaryValue(Op(cur), IntArg(1)) \in Int32
      BY <1>2, <2>1, <2>2, <2>4, UnaryIsInt
    <3>. QED
      BY <1>1, <2>1, <2>2, <3>1, <3>2, IntStep, RefStep, StreamsKept
  <2>. QED
    BY <2>3, <2>4
<1>6. CASE VisitCalc
  <2>1. /\ Kind(cur) = "calc" /\ done[cur] = 2 /\ Kind(cur) \in ExpressionKinds
        /\ 1 \in 1..Len(Kids(cur)) /\ 2 \in 1..Len(Kids(cur))
    BY <1>1, <1>2, <1>3, <1>6, ValueKinds DEF VisitCalc, Ready, At
  <2>2. (IsIntArg(1) => IntArg(1) \in Int32) /\ (IsIntArg(2) => IntArg(2) \in Int32)
    BY <1>1, <2>1, Operand
  <2>. DEFINE fault == ArithFault(Op(cur), IntArg(1), IntArg(2))
  <2>3. CASE ~IsIntArg(1)
    BY <1>4, <1>6, <2>3 DEF VisitCalc, Ends
  <2>4. CASE IsIntArg(1) /\ ~IsIntArg(2)
    BY <1>4, <1>6, <2>4 DEF VisitCalc, Ends
  <2>5. CASE IsIntArg(1) /\ IsIntArg(2) /\ fault # "none"
    <3>1. StopHere(fault) /\ fault \in Ends
      BY <1>6, <2>5, ArithFaults DEF VisitCalc, Ends
    <3>. HIDE DEF fault
    <3>. QED
      BY <1>4, <3>1
  <2>6. CASE IsIntArg(1) /\ IsIntArg(2) /\ fault = "none"
    <3>1. /\ KeepsTables /\ KeepsLists /\ KeepsStreams
          /\ GiveInt(ArithValue(Op(cur), IntArg(1), IntArg(2)))
      BY <1>6, <2>6 DEF VisitCalc, KeepsTables, KeepsLists, KeepsStreams
    <3>2. ArithValue(Op(cur), IntArg(1), IntArg(2)) \in Int32
      BY <1>2, <2>1, <2>2, <2>6, ArithIsInt
    <3>. QED
      BY <1>1, <2>1, <3>1, <3>2, IntStep, StreamsKept
  <2>. QED
    BY <2>3, <2>4, <2>5, <2>6
<1>7. CASE VisitLogicLhs
  <2>1. /\ Kind(cur) = "logic" /\ done[cur] = 1 /\ Kind(cur) \in ExpressionKinds
        /\ 1 \in 1..Len(Kids(cur)) /\ 2 \in 1..Len(Kids(cur)) /\ DOMAIN Kids(cur) = 1..Len(Kids(cur))
    <3>1. Kind(cur) = "logic" /\ done[cur] = 1
      BY <1>7 DEF VisitLogicLhs, At
    <3>2. DOMAIN Kids(cur) = 1..Len(Kids(cur)) /\ Len(Kids(cur)) = 2
      BY <1>1, <1>2, <3>1, NodeShape DEF StackInv
    <3>. QED
      BY <3>1, <3>2, ValueKinds
  <2>2. IsIntArg(1) => IntArg(1) \in Int32
    BY <1>1, <2>1, Operand
  <2>3. CASE ~IsIntArg(1)
    BY <1>4, <1>7, <2>3 DEF VisitLogicLhs, Ends
  <2>4. CASE IsIntArg(1) /\ ShortCircuits(Op(cur), IntArg(1))
    <3>1. /\ KeepsTables /\ KeepsLists /\ KeepsStreams /\ GiveInt(Truth(Op(cur) = "||"))
      BY <1>7, <2>4 DEF VisitLogicLhs, KeepsTables, KeepsLists, KeepsStreams
    <3>. QED
      BY <1>1, <2>1, <3>1, IntStep, StreamsKept, TruthIsInt
  <2>5. CASE IsIntArg(1) /\ ~ShortCircuits(Op(cur), IntArg(1))
    <3>1. Accept(2) /\ UNCHANGED interpVars
      BY <1>7, <2>5 DEF VisitLogicLhs
    <3>. QED
      BY <1>1, <2>1, <3>1
         DEF Proceeds, interpVars, KeepsTables, KeepsLists, KeepsStreams, tableVars
  <2>. QED
    BY <2>3, <2>4, <2>5
<1>8. CASE VisitLogicRhs
  <2>1. /\ Kind(cur) = "logic" /\ done[cur] = 2 /\ Kind(cur) \in ExpressionKinds
    BY <1>8, ValueKinds DEF VisitLogicRhs, At
  <2>2. CASE ~IsIntArg(2)
    BY <1>4, <1>8, <2>2 DEF VisitLogicRhs, Ends
  <2>3. CASE IsIntArg(2)
    <3>1. /\ KeepsTables /\ KeepsLists /\ KeepsStreams
          /\ GiveInt(LogicValue(Op(cur), IntArg(1), IntArg(2)))
      BY <1>8, <2>3 DEF VisitLogicRhs, KeepsTables, KeepsLists, KeepsStreams
    <3>2. LogicValue(Op(cur), IntArg(1), IntArg(2)) \in Int32
      BY <1>2, <2>1, LogicIsInt
    <3>. QED
      BY <1>1, <2>1, <3>1, <3>2, IntStep, StreamsKept
  <2>. QED
    BY <2>2, <2>3
<1>9. CASE VisitPrint
  <2>1. /\ Kind(cur) = "print" /\ done[cur] = 1 /\ Kind(cur) \in ExpressionKinds
        /\ 1 \in 1..Len(Kids(cur))
    BY <1>1, <1>2, <1>3, <1>9, ValueKinds DEF VisitPrint, Ready, At
  <2>2. Good(Values, Arg(1)) /\ (IsIntArg(1) <=> Arg(1).cell # 0) /\ (IsIntArg(1) => IntArg(1) \in Int32)
    BY <1>1, <2>1, Operand
  <2>3. Give(Arg(1)) /\ Values' = Values /\ KeepsTables /\ KeepsLists /\ reads' = reads
    BY <1>9 DEF VisitPrint, KeepsTables, KeepsLists
  <2>4. output' \in Seq(Int32)
    <3>1. Values[Arg(1).obj].cells \in Seq(Int32)
      BY <2>2, HeapObjects DEF EvalInv, Good, Objects
    <3>2. output \in Seq(Int32) /\ Arg(1).cell \in Nat
      BY <1>1, <2>2 DEF StreamsOK, Good, References
    <3>3. CASE Arg(1).cell > 0
      <4>1. output' = output \o <<IntArg(1)>> /\ IntArg(1) \in Int32
        BY <1>9, <2>2, <3>2, <3>3 DEF VisitPrint
      <4>. HIDE DEF Int32
      <4>. QED
        BY <3>2, <4>1
    <3>4. CASE ~(Arg(1).cell > 0)
      <4>1. output' = output \o Values[Arg(1).obj].cells
        BY <1>9, <3>4 DEF VisitPrint
      <4>. HIDE DEF Int32
      <4>. QED
        BY <3>1, <3>2, <4>1
    <3>. QED
      BY <3>3, <3>4
  <2>5. StreamsOK'
    BY <1>1, <2>3, <2>4 DEF StreamsOK
  <2>. QED
    BY <1>1, <2>1, <2>2, <2>3, <2>5, RefStep
<1>10. CASE VisitArrayHolder
  <2>1. /\ Kind(cur) = "holder" /\ done[cur] = 1 /\ Kind(cur) \in ExpressionKinds
        /\ 1 \in 1..Len(Kids(cur))
    BY <1>1, <1>2, <1>3, <1>10, ValueKinds DEF VisitArrayHolder, Ready, At
  <2>2. Good(Values, Arg(1))
    BY <1>1, <2>1, Operand
  <2>3. Give(Arg(1)) /\ Values' = Values /\ KeepsTables /\ KeepsLists /\ KeepsStreams
    BY <1>10 DEF VisitArrayHolder, KeepsTables, KeepsLists, KeepsStreams
  <2>. QED
    BY <1>1, <2>1, <2>2, <2>3, RefStep, StreamsKept
<1>. QED
  BY <1>5, <1>6, <1>7, <1>8, <1>9, <1>10

LEMMA AssignmentsTyped ==
    ASSUME StackInv, EvalInv, VisitAssignment \/ VisitArrayAccessAssignment
    PROVE  Gives \/ StaysPut
<1>1. StreamsOK /\ cur # 0 /\ cur \in Node /\ Len(Kids(cur)) \in Nat
  <2>1. cur # 0
    BY DEF VisitAssignment, VisitArrayAccessAssignment, Ready, At
  <2>. QED
    BY <2>1, KidsExist DEF EvalInv
<1>2. ASSUME NEW why \in Ends, StopHere(why) PROVE StaysPut
  BY <1>2 DEF StopHere, StaysPut, Stop, Stays
<1>3. CASE VisitAssignment
  <2>1. Kind(cur) = "assign" /\ done[cur] = 1 /\ Kind(cur) \in ExpressionKinds
    BY <1>3, ValueKinds DEF VisitAssignment, Ready, At, Operands
  <2>2. Len(Kids(cur)) = 2
    BY <1>1, <2>1, KidsExist
  <2>3. /\ Good(Values, Arg(1)) /\ (IsIntArg(1) <=> Arg(1).cell # 0)
        /\ IsIntArg(1) => IntArg(1) \in Int32
    BY <1>1, <2>1, <2>2, Operand
  <2>4. CASE isDefined(NamesInfo, Name(cur), Scope(cur))
    <3>. DEFINE target == NameToValue[getDeclKeyFor(NamesInfo, Name(cur), Scope(cur))]
    <3>1. Assign(target)
      BY <1>3, <2>4 DEF VisitAssignment
    <3>2. Good(Values, target)
      BY <1>1, <2>4, NameFound DEF EvalInv, Bindable
    <3>. HIDE DEF target
    <3>3. CASE ~IsInt(Values, target) \/ ~IsIntArg(1)
      BY <1>2, <3>1, <3>3 DEF Assign, Ends
    <3>4. CASE IsInt(Values, target) /\ IsIntArg(1)
      <4>1. /\ Values' = setValue(Values, target, IntArg(1)) /\ Give(Arg(1))
            /\ KeepsTables /\ KeepsLists /\ KeepsStreams
        BY <3>1, <3>4 DEF Assign, KeepsTables, KeepsLists, KeepsStreams
      <4>2. GivesGood
        BY <1>1, <2>1, <2>3, <3>2, <3>4, <4>1, IntSet DEF EvalInv
      <4>. QED
        BY <1>1, <4>1, <4>2, StreamsKept DEF Gives
    <3>. QED
      BY <3>3, <3>4
  <2>5. CASE ~isDefined(NamesInfo, Name(cur), Scope(cur))
    <3>. DEFINE key == SymTabKey(Name(cur), Scope(cur)[1])
    <3>1. Define(key) /\ KeepsLists /\ KeepsStreams
      BY <1>3, <2>5 DEF VisitAssignment, KeepsLists, KeepsStreams
    <3>2. key \in Keys /\ key \notin DOMAIN NamesInfo
      <4>1. cur # 1
        BY <1>1, <2>1, Trees DEF StackInv, ProgOK, Kind
      <4>. QED
        BY <1>1, <2>5, <4>1, NameNotFound
    <3>3. StreamsOK'
      BY <1>1, <3>1, StreamsKept
    <3>. HIDE DEF key
    <3>4. NamesInfo' = Emplace(NamesInfo, key, TypeOf(Values, Arg(1)))
      BY <3>1, <3>2 DEF Define, tryDefine
    <3>5. CASE IsIntArg(1)
      <4>1. /\ createValue(IntegerVal(IntArg(1))) /\ Give(IntRef(NewObj))
            /\ NameToValue' = Emplace(NameToValue, key, IntRef(NewObj))
        BY <3>1, <3>5 DEF Define, linkValueWithName
      <4>2. GiveInt(IntArg(1))
        BY <4>1 DEF GiveInt
      <4>3. GivesGood
        BY <1>1, <2>1, <2>3, <3>5, <4>2, IntGiven DEF EvalInv
      <4>4. /\ Good(Values', IntRef(NewObj)) /\ Values'[NewObj].ty = "int32"
            /\ TypeOf(Values', IntRef(NewObj)) = TypeOf(Values, Arg(1))
        <5>1. Values' = Append(Values, IntegerVal(IntArg(1)))
          BY <4>1 DEF createValue
        <5>2. HeapOK(Values) /\ IntArg(1) \in Int32
          BY <2>3, <3>5 DEF EvalInv
        <5>3. /\ Good(Values', IntRef(NewObj)) /\ IntegerVal(IntArg(1)) \in Objects
              /\ Sound(Append(Values, IntegerVal(IntArg(1))), Len(Values) + 1)
          BY <5>1, <5>2, IntegerMade DEF NewObj
        <5>4. Values'[NewObj] = IntegerVal(IntArg(1))
          BY <5>1, <5>2, <5>3, HeapAppended DEF NewObj
        <5>. QED
          BY <3>5, <5>3, <5>4 DEF IntegerVal, TypeOf, IntRef, IsIntArg, IsInt
      <4>5. Bindable(Values', IntRef(NewObj)) /\ IntRef(NewObj) \in References
        BY <4>4 DEF Bindable, Good, IntRef
      <4>6. Binds
        BY <3>2, <3>4, <4>1, <4>4, <4>5 DEF Binds
      <4>. QED
        BY <3>1, <3>3, <4>3, <4>6 DEF Gives
    <3>6. CASE ~IsIntArg(1)
      <4>1. /\ Give(Arg(1)) /\ Values' = Values
            /\ NameToValue' = Emplace(NameToValue, key, Arg(1))
        BY <3>1, <3>6 DEF Define, linkValueWithName
      <4>2. GivesGood
        BY <1>1, <2>1, <2>3, <4>1, RefGiven DEF EvalInv
      <4>3. Bindable(Values', Arg(1)) /\ Arg(1) \in References
        BY <2>3, <3>6, <4>1 DEF Bindable, Good
      <4>4. TypeOf(Values', Arg(1)) = TypeOf(Values, Arg(1))
        BY <4>1
      <4>5. Binds
        <5>. DEFINE r == Arg(1)
        <5>1. /\ Bindable(Values', r) /\ r \in References /\ NameToValue' = Emplace(NameToValue, key, r)
              /\ NamesInfo' = Emplace(NamesInfo, key, TypeOf(Values', r))
          BY <3>4, <4>1, <4>3, <4>4
        <5>. HIDE DEF r
        <5>. QED
          BY <3>2, <5>1 DEF Binds
      <4>. QED
        BY <3>1, <3>3, <4>2, <4>5 DEF Gives
    <3>. QED
      BY <3>5, <3>6
  <2>. QED
    BY <2>4, <2>5
<1>4. CASE VisitArrayAccessAssignment
  <2>1. Kind(cur) = "accessAssign" /\ Kind(cur) \in ExpressionKinds
    BY <1>4, ValueKinds DEF VisitArrayAccessAssignment, Ready, At
  <2>2. Len(Kids(cur)) = 2
    BY <1>1, <2>1, KidsExist
  <2>3. done[cur] = 2 /\ 1 \in 1..Len(Kids(cur)) /\ 2 \in 1..Len(Kids(cur))
    BY <1>4, <2>1, <2>2 DEF VisitArrayAccessAssignment, Ready, At, Operands
  <2>4. /\ Good(Values, Arg(1)) /\ Good(Values, Arg(2))
        /\ IsIntArg(2) => IntArg(2) \in Int32
    BY <1>1, <2>1, <2>3, Operand
  <2>5. CASE ~IsIntArg(2)
    BY <1>2, <1>4, <2>5 DEF VisitArrayAccessAssignment, Ends
  <2>6. CASE IsIntArg(2)
    <3>1. /\ Values' = setValue(Values, Arg(1), IntArg(2)) /\ Give(Arg(2))
          /\ KeepsTables /\ KeepsLists /\ KeepsStreams
      BY <1>4, <2>6 DEF VisitArrayAccessAssignment, KeepsTables, KeepsLists, KeepsStreams
    <3>2. GivesGood
      BY <1>1, <2>1, <2>4, <2>6, <3>1, IntSet DEF EvalInv
    <3>. QED
      BY <1>1, <3>1, <3>2, StreamsKept DEF Gives
  <2>. QED
    BY <2>5, <2>6
<1>. QED
  BY <1>3, <1>4

LEMMA ArraysTyped ==
    ASSUME StackInv, EvalInv, VisitPresetArray \/ VisitUniformArray
    PROVE  Gives \/ StaysPut
<1>1. StreamsOK /\ HeapOK(Values) /\ cur # 0 /\ cur \in Node /\ Len(Kids(cur)) \in Nat
      /\ DOMAIN Kids(cur) = 1..Len(Kids(cur))
  <2>1. cur # 0
    BY DEF VisitPresetArray, VisitUniformArray, Ready, At
  <2>. QED
    BY <2>1, KidsExist DEF EvalInv
<1>2. ASSUME NEW why \in Ends, StopHere(why) PROVE StaysPut
  BY <1>2 DEF StopHere, StaysPut, Stop, Stays
<1>3. CASE VisitPresetArray
  <2>. DEFINE elems == [i \in DOMAIN Kids(cur) |-> Arg(i)]
              o == PresetArrayVal(Values, elems)
  <2>1. /\ Kind(cur) = "preset" /\ done[cur] = Len(Kids(cur)) /\ Kind(cur) \in ExpressionKinds
        /\ GiveArray(o) /\ KeepsTables /\ KeepsStreams
    BY <1>3, ValueKinds DEF VisitPresetArray, Ready, At, Operands, KeepsTables, KeepsStreams
  <2>2. \A i \in 1..Len(Kids(cur)) : Good(Values, elems[i])
    <3>1. ASSUME NEW i \in 1..Len(Kids(cur)) PROVE Good(Values, Arg(i))
      BY <1>1, <2>1, Operand
    <3>. QED
      BY <1>1, <3>1
  <2>3. DOMAIN elems = 1..Len(Kids(cur)) /\ Len(elems) = Len(Kids(cur))
    BY <1>1
  <2>. HIDE DEF elems
  <2>4. /\ o \in Objects /\ o.ty = "array" /\ Len(o.cells) = Cells(o.shape)
        /\ Len(o.shape) >= 1
    BY <1>1, <2>2, <2>3, PresetMade
  <2>. HIDE DEF o
  <2>5. o.ty \in ArrayTypes /\ o.ty # "repeat"
    BY <2>4 DEF ArrayTypes
  <2>. QED
    BY <1>1, <2>1, <2>4, <2>5, ArrayGiven
<1>4. CASE VisitUniformArray
  <2>1. Kind(cur) = "uniform" /\ Kind(cur) \in ExpressionKinds
    BY <1>4, ValueKinds DEF VisitUniformArray, Ready, At
  <2>2. Len(Kids(cur)) = 2
    BY <1>1, <2>1, NodeShape DEF StackInv
  <2>3. done[cur] = 2 /\ 1 \in 1..Len(Kids(cur)) /\ 2 \in 1..Len(Kids(cur))
    BY <1>4, <2>1, <2>2 DEF VisitUniformArray, Ready, At, Operands
  <2>4. Good(Values, Arg(1)) /\ (IsIntArg(2) => IntArg(2) \in Int32)
    BY <1>1, <2>1, <2>3, Operand
  <2>5. CASE ~IsIntArg(2)
    BY <1>2, <1>4, <2>5 DEF VisitUniformArray, Ends
  <2>6. CASE IsIntArg(2) /\ IntArg(2) < 0
    BY <1>2, <1>4, <2>6 DEF VisitUniformArray, Ends
  <2>7. CASE IsIntArg(2) /\ ~(IntArg(2) < 0) /\ ConstructDangles(Values, Arg(1), IntArg(2))
    BY <1>2, <1>4, <2>7 DEF VisitUniformArray, Ends
  <2>8. CASE IsIntArg(2) /\ ~(IntArg(2) < 0) /\ ~ConstructDangles(Values, Arg(1), IntArg(2))
    <3>. DEFINE o == UniformArrayVal(Values, Arg(1), IntArg(2))
    <3>1. GiveArray(o) /\ KeepsTables /\ KeepsStreams
      BY <1>4, <2>8 DEF VisitUniformArray, KeepsTables, KeepsStreams
    <3>2. IntArg(2) \in Nat
      BY <2>4, <2>8, Width
    <3>3. /\ o \in Objects /\ o.ty \in ArrayTypes /\ Len(o.cells) = Cells(o.shape)
          /\ Len(o.shape) >= 1 /\ Good(Values, o.initer)
      BY <1>1, <2>4, <2>8, <3>2, UniformMade
    <3>. HIDE DEF o
    <3>. QED
      BY <1>1, <2>1, <3>1, <3>3, ArrayGiven
  <2>. QED
    BY <2>5, <2>6, <2>7, <2>8
<1>. QED
  BY <1>3, <1>4

\* operator[] of an array at every rank: the part reached so far is one of the array's.
LEMMA AccessesTyped ==
    ASSUME StackInv, EvalInv, AccessArray \/ AccessRank
    PROVE  Gives \/ Proceeds \/ StaysPut
<1>1. StreamsOK /\ HeapOK(Values) /\ cur # 0 /\ cur \in Node /\ Len(Kids(cur)) \in Nat
      /\ DOMAIN Kids(cur) = 1..Len(Kids(cur)) /\ Kind(cur) = "access" /\ Kind(cur) \in ExpressionKinds
      /\ cur \in OnStack /\ done[cur] \in 0..Len(Kids(cur)) /\ Len(Kids(cur)) >= 1
  <2>1. cur # 0 /\ Kind(cur) = "access"
    BY DEF AccessArray, AccessRank, At
  <2>. QED
    BY <2>1, KidsExist, ValueKinds DEF EvalInv, StackInv, StackIsPath
<1>2. ASSUME NEW why \in Ends, StopHere(why) PROVE StaysPut
  BY <1>2 DEF StopHere, StaysPut, Stop, Stays
<1>3. CASE AccessArray
  <2>1. CASE ~isDefined(NamesInfo, Name(cur), Scope(cur))
    BY <1>2, <1>3, <2>1 DEF AccessArray, Ends
  <2>2. CASE isDefined(NamesInfo, Name(cur), Scope(cur))
    <3>. DEFINE r == NameToValue[getDeclKeyFor(NamesInfo, Name(cur), Scope(cur))]
    <3>1. /\ ret' = [ret EXCEPT ![cur] = r] /\ Accept(1) /\ done[cur] = 0
          /\ UNCHANGED Values /\ KeepsTables /\ KeepsLists /\ KeepsStreams
      BY <1>3, <2>2 DEF AccessArray, At, KeepsTables, KeepsLists, KeepsStreams
    <3>2. Bindable(Values, r)
      BY <1>1, <2>2, NameFound DEF EvalInv
    <3>. HIDE DEF r
    <3>3. PartOf(Values, r, 0)
      <4>1. /\ r \in References /\ r.obj \in DOMAIN Values
            /\ Values[r.obj].ty \in ArrayTypes => r.cell = 0
        BY <3>2 DEF Bindable, Good, ArrayTypes
      <4>2. Values[r.obj].shape \in Seq(Nat)
        BY <1>1, <4>1, HeapObjects DEF Objects
      <4>. DEFINE shape == Values[r.obj].shape
      <4>3. Parts(shape)[0] = 1 /\ Len(shape) \in Nat
        BY <4>2, PartsOf
      <4>4. 0 \in 0..Len(shape)
        BY <4>3
      <4>. QED
        BY <4>1, <4>3, <4>4 DEF PartOf
    <3>4. 1 \in DOMAIN Kids(cur) /\ 1 = done[cur] + 1 /\ 1 - 1 = 0
      BY <1>1, <3>1
    <3>. QED
      BY <1>1, <3>1, <3>3, <3>4 DEF Proceeds
  <2>. QED
    BY <2>1, <2>2
<1>4. CASE AccessRank
  <2>. DEFINE k == done[cur]
              r == ret[cur]
              shape == CurrArr.shape
              offset == r.cell * shape[k] + IntArg(k)
  <2>1. k \in 1..Len(Kids(cur)) /\ k \in Nat
    BY <1>1, <1>4 DEF AccessRank
  <2>2. PartOf(Values, r, k - 1)
    BY <1>1, <2>1 DEF EvalInv, AccessesInside
  <2>3. CASE RankFault(k) # "none"
    <3>1. StopHere(RankFault(k)) /\ RankFault(k) \in Ends
      BY <1>4, <2>3 DEF AccessRank, RankFault, Ends
    <3>. QED
      BY <1>2, <3>1
  <2>4. CASE RankFault(k) = "none"
    <3>1. /\ IsIntArg(k) /\ CurrArr.ty # "int32" /\ k <= Len(shape)
          /\ IntArg(k) \in 0..(shape[k] - 1)
      BY <2>1, <2>4, Operand DEF RankFault
    <3>2. /\ r \in References /\ r.obj \in DOMAIN Values
          /\ shape \in Seq(Nat) /\ CurrArr.ty \in ArrayTypes
      <4>1. r \in References /\ r.obj \in DOMAIN Values
        BY <2>2 DEF PartOf
      <4>2. CurrArr \in Objects
        BY <1>1, <4>1, HeapObjects DEF CurrArr
      <4>. QED
        BY <3>1, <4>1, <4>2 DEF Objects, TypeNames
    <3>3. k \in 1..Len(shape) /\ k - 1 \in 0..Len(shape) /\ shape[k] \in Nat /\ IntArg(k) \in Nat
          /\ IntArg(k) < shape[k]
      BY <2>1, <3>1, <3>2
    <3>4. /\ Parts(shape) \in [0..Len(shape) -> Nat]
          /\ Parts(shape)[k] = Parts(shape)[k - 1] * shape[k]
      BY <3>2, <3>3, PartsOf
    <3>5. r.cell < Parts(shape)[k - 1] /\ r.cell \in Nat /\ Parts(shape)[k - 1] \in Nat
      BY <2>2, <3>2, <3>3, <3>4 DEF PartOf, CurrArr, References
    <3>6. offset < Parts(shape)[k] /\ offset \in Nat
      <4>. DEFINE a == Parts(shape)[k - 1]
                  b == shape[k]
                  c == r.cell
                  i == IntArg(k)
      <4>1. /\ a \in Nat /\ b \in Nat /\ c \in Nat /\ i \in Nat /\ c < a /\ i < b
            /\ offset = (c * b) + i /\ Parts(shape)[k] = a * b
        BY <3>3, <3>4, <3>5
      <4>. HIDE DEF a, b, c, i, offset
      <4>2. (c * b) + i < a * b /\ c * b \in Nat
        BY <4>1, Products
      <4>. QED
        BY <4>1, <4>2
    <3>7. /\ KeepsTables /\ KeepsLists /\ KeepsStreams /\ UNCHANGED Values
      BY <1>4, <2>4 DEF AccessRank, KeepsTables, KeepsLists, KeepsStreams
    <3>8. CASE k < Len(Kids(cur))
      <4>. DEFINE to == [r EXCEPT !.cell = offset]
      <4>1. ret' = [ret EXCEPT ![cur] = to] /\ Accept(k + 1)
        BY <1>4, <2>4, <3>8 DEF AccessRank
      <4>2. to \in References /\ to.obj = r.obj /\ to.cell = offset
        BY <3>2, <3>6 DEF References
      <4>. HIDE DEF to, offset
      <4>3. PartOf(Values, to, k)
        BY <3>2, <3>3, <3>6, <4>2 DEF PartOf, CurrArr
      <4>4. k + 1 \in DOMAIN Kids(cur) /\ (k + 1) - 1 = k
        BY <1>1, <2>1, <3>8
      <4>. QED
        BY <1>1, <3>7, <4>1, <4>3, <4>4 DEF Proceeds
    <3>9. CASE ~(k < Len(Kids(cur)))
      <4>. DEFINE to == [r EXCEPT !.cell = offset + 1]
      <4>1. ret' = [ret EXCEPT ![cur] = to] /\ Return /\ k = Len(shape)
        BY <1>4, <2>4, <3>9 DEF AccessRank
      <4>2. to \in References /\ to.obj = r.obj /\ to.cell = offset + 1
        BY <3>2, <3>6 DEF References
      <4>3. Len(CurrArr.cells) = Parts(shape)[k] /\ Parts(shape)[k] \in Nat
        <5>1. Sound(Values, r.obj) /\ Values[r.obj].shape = shape
          BY <1>1, <3>2, HeapObjects DEF CurrArr
        <5>2. Len(CurrArr.cells) = Parts(shape)[Len(shape)]
          BY <5>1 DEF Sound, CurrArr, Cells
        <5>3. k \in 0..Len(shape)
          BY <3>3
        <5>. QED
          BY <3>4, <4>1, <5>2, <5>3
      <4>. HIDE DEF to, offset
      <4>4. to.cell \in 1..Len(CurrArr.cells)
        BY <3>6, <4>2, <4>3
      <4>5. Good(Values, to)
        BY <3>2, <4>2, <4>4 DEF Good, CurrArr
      <4>6. GivesGood
        BY <1>1, <3>7, <4>1, <4>5, SameItself DEF GivesGood, Returns
      <4>. QED
        BY <1>1, <3>7, <4>6, StreamsKept DEF Gives
    <3>. QED
      BY <3>8, <3>9
  <2>. QED
    BY <2>3, <2>4
<1>. QED
  BY <1>3, <1>4

LEMMA ControlTyped ==
    ASSUME StackInv, EvalInv,
           AcceptOperand \/ VisitIf \/ LeaveIf \/ VisitWhile \/ WhileAgain \/ VisitStatementBlock
    PROVE  Proceeds \/ LeavesStatement \/ StaysPut
<1>1. cur # 0 /\ cur \in Node /\ DOMAIN Kids(cur) = 1..Len(Kids(cur)) /\ Len(Kids(cur)) \in Nat
      /\ done[cur] \in Nat
  <2>1. cur # 0
    BY DEF AcceptOperand, VisitIf, LeaveIf, VisitWhile, WhileAgain, VisitStatementBlock, Ready, At
  <2>. QED
    BY <2>1, KidsExist
<1>2. UNCHANGED interpVars => /\ KeepsTables /\ KeepsLists /\ KeepsStreams
                              /\ UNCHANGED Values /\ UNCHANGED ret
  BY DEF interpVars, tableVars, KeepsTables, KeepsLists, KeepsStreams
<1>3. "if" \notin ExpressionKinds /\ "while" \notin ExpressionKinds /\ "root" \notin ExpressionKinds
      /\ "block" \notin ExpressionKinds
  BY DEF ExpressionKinds, Arity
<1>4. ASSUME NEW why \in Ends, StopHere(why) PROVE StaysPut
  BY <1>4 DEF StopHere, StaysPut, Stop, Stays
<1>5. CASE AcceptOperand
  <2>1. /\ done[cur] < Operands(cur) /\ Accept(done[cur] + 1) /\ UNCHANGED interpVars
    BY <1>5 DEF AcceptOperand
  <2>2. done[cur] + 1 \in DOMAIN Kids(cur)
    BY <1>1, <2>1, OperandsExist
  <2>3. Kind(cur) # "access"
    BY <1>1, <2>1 DEF Operands
  <2>. QED
    BY <1>1, <1>2, <2>1, <2>2, <2>3 DEF Proceeds
<1>6. ASSUME NEW i \in DOMAIN Kids(cur), Kind(cur) \in {"if", "while"}, Accept(i), UNCHANGED interpVars
      PROVE  Proceeds
  BY <1>1, <1>2, <1>3, <1>6 DEF Proceeds
<1>7. ASSUME Kind(cur) \in {"if", "while"}, Return, UNCHANGED interpVars
      PROVE  LeavesStatement
  BY <1>1, <1>2, <1>3, <1>7 DEF LeavesStatement, Returns
<1>8. CASE VisitIf
  <2>1. Kind(cur) = "if" /\ (Len(Kids(cur)) = 2 \/ Len(Kids(cur)) = 3)
    BY <1>1, <1>8, KidsExist DEF VisitIf, At
  <2>2. 2 \in DOMAIN Kids(cur) /\ (Len(Kids(cur)) = 3 => 3 \in DOMAIN Kids(cur))
    BY <1>1, <2>1
  <2>3. \/ StopHere("typeConfusion")
        \/ /\ UNCHANGED interpVars
           /\ Accept(2) \/ (Len(Kids(cur)) = 3 /\ Accept(3)) \/ Return
    BY <1>8 DEF VisitIf
  <2>4. "typeConfusion" \in Ends
    BY DEF Ends
  <2>. QED
    BY <1>4, <1>6, <1>7, <2>1, <2>2, <2>3, <2>4
<1>9. CASE LeaveIf
  BY <1>7, <1>9 DEF LeaveIf, At
<1>10. CASE VisitWhile \/ WhileAgain
  <2>1. Kind(cur) = "while"
    BY <1>10 DEF VisitWhile, WhileAgain, At
  <2>2. Len(Kids(cur)) = 2
    BY <1>1, <2>1, KidsExist
  <2>3. 1 \in DOMAIN Kids(cur) /\ 2 \in DOMAIN Kids(cur)
    BY <1>1, <2>2
  <2>4. \/ StopHere("typeConfusion")
        \/ UNCHANGED interpVars /\ (Accept(1) \/ Accept(2) \/ Return)
    BY <1>10 DEF VisitWhile, WhileAgain
  <2>5. "typeConfusion" \in Ends
    BY DEF Ends
  <2>. QED
    BY <1>4, <1>6, <1>7, <2>1, <2>3, <2>4, <2>5
<1>11. CASE VisitStatementBlock
  BY <1>1, <1>3, <1>11
     DEF VisitStatementBlock, Ready, At, LeavesStatement, Returns, KeepsTables, KeepsLists, KeepsStreams
<1>. QED
  BY <1>5, <1>8, <1>9, <1>10, <1>11

LEMMA InterpTyped ==
    ASSUME StackInv, EvalInv, InterpNext
    PROVE  Gives \/ Proceeds \/ LeavesStatement \/ StaysPut
BY LeavesTyped, OperatorsTyped, AssignmentsTyped, ArraysTyped, AccessesTyped, ControlTyped
   DEF InterpNext

-----------------------------------------------------------------------------
(***************************************************************************)
(* Every such step keeps the invariant of an evaluation.                   *)
(***************************************************************************)
\* The heap grew or was written to: every object has the type and the sizes it had.
HeapKept == HeapOK(Values') /\ SameLayout(Values, Values')

LEMMA BindingsKept ==
    ASSUME NEW vals, NEW new, SameLayout(vals, new), NEW r, Bindable(vals, r)
    PROVE  Bindable(new, r) /\ TypeOf(new, r) = TypeOf(vals, r)
<1>1. Good(new, r) /\ TypeOf(new, r) = TypeOf(vals, r)
  BY GoodKept DEF Bindable
<1>2. new[r.obj].ty = vals[r.obj].ty
  BY DEF SameLayout, Bindable, Good
<1>. QED
  BY <1>1, <1>2 DEF Bindable

LEMMA TablesKept ==
    ASSUME EvalInv, HeapKept, KeepsTables \/ Binds, Keys' = Keys
    PROVE  NamesBound' /\ SymbolsCoherent'
<1>1. ASSUME NEW k \in DOMAIN NameToValue
      PROVE  /\ Bindable(Values', NameToValue[k])
             /\ TypeOf(Values', NameToValue[k]) = TypeOf(Values, NameToValue[k])
  BY <1>1, BindingsKept DEF EvalInv, NamesBound, HeapKept
<1>2. /\ DOMAIN NamesInfo = DOMAIN NameToValue /\ DOMAIN NamesInfo \subseteq Keys
      /\ \A k \in DOMAIN NamesInfo : NamesInfo[k] = TypeOf(Values, NameToValue[k])
  BY DEF EvalInv, NamesBound, SymbolsCoherent
<1>3. CASE KeepsTables
  BY <1>1, <1>2, <1>3 DEF KeepsTables, tableVars, NamesBound, SymbolsCoherent
<1>4. CASE Binds
  <2>1. PICK key \in Keys, r \in References :
            /\ key \notin DOMAIN NamesInfo /\ Bindable(Values', r)
            /\ NamesInfo' = Emplace(NamesInfo, key, TypeOf(Values', r))
            /\ NameToValue' = Emplace(NameToValue, key, r)
    BY <1>4 DEF Binds
  <2>2. /\ DOMAIN NamesInfo' = DOMAIN NamesInfo \cup {key}
        /\ DOMAIN NameToValue' = DOMAIN NameToValue \cup {key}
        /\ NamesInfo'[key] = TypeOf(Values', r) /\ NameToValue'[key] = r
        /\ \A k \in DOMAIN NamesInfo : NamesInfo'[k] = NamesInfo[k]
        /\ \A k \in DOMAIN NameToValue : NameToValue'[k] = NameToValue[k]
    BY <1>2, <2>1 DEF Emplace
  <2>. QED
    BY <1>1, <1>2, <2>1, <2>2 DEF NamesBound, SymbolsCoherent
<1>. QED
  BY <1>3, <1>4

LEMMA ListsKept ==
    ASSUME EvalInv, HeapKept, KeepsLists \/ Enlists
    PROVE  ListsHoldArrays'
<1>1. ASSUME NEW b \in DOMAIN ResourceHandleMap, NEW o \in ResourceHandleMap[b]
      PROVE  o \in DOMAIN Values' /\ Values'[o].ty \in ArrayTypes
  BY <1>1 DEF EvalInv, ListsHoldArrays, HeapKept, SameLayout
<1>2. CASE KeepsLists
  BY <1>1, <1>2 DEF KeepsLists, ListsHoldArrays
<1>3. CASE Enlists
  <2>1. PICK b \in Node, o \in DOMAIN Values' :
            Values'[o].ty \in ArrayTypes /\ addResourceForFree(o, b)
    BY <1>3 DEF Enlists
  <2>2. /\ DOMAIN ResourceHandleMap' = DOMAIN ResourceHandleMap \cup {b}
        /\ \A c \in DOMAIN ResourceHandleMap' : \A a \in ResourceHandleMap'[c] :
              a = o \/ (c \in DOMAIN ResourceHandleMap /\ a \in ResourceHandleMap[c])
    BY <2>1 DEF addResourceForFree, Emplace
  <2>. QED
    BY <1>1, <2>1, <2>2 DEF ListsHoldArrays
<1>. QED
  BY <1>2, <1>3

LEMMA AfterGives ==
    ASSUME StackInv, EvalInv, Gives
    PROVE  EvalInv'
<1>1. PICK r : Good(Values', r) /\ ret' = [ret EXCEPT ![cur] = r]
  BY DEF Gives, GivesGood
<1>2. HeapKept /\ Returns /\ cur # 0 /\ StreamsOK' /\ (KeepsTables \/ Binds) /\ (KeepsLists \/ Enlists)
  BY DEF Gives, GivesGood, HeapKept
<1>3. /\ prog' = prog /\ Node' = Node /\ cur \in Node /\ OnStack' = OnStack \ {cur}
      /\ \A n \in OnStack' : done'[n] = done[n] /\ n \in OnStack
  <2>1. /\ prog' = prog /\ Node' = Node /\ cur \in Node /\ OnStack' = OnStack \ {cur}
    BY <1>2, ReturnStack
  <2>. QED
    BY <1>2, <2>1 DEF Returns, Return, OnStack, StackInv, StackTypeOK
<1>4. NamesBound' /\ SymbolsCoherent' /\ ListsHoldArrays'
  <2>1. Keys' = Keys
    BY <1>3 DEF Keys
  <2>. QED
    BY <1>2, <2>1, TablesKept, ListsKept
<1>5. ret \in [Node -> References]
  BY DEF EvalInv, ReturnsRefs
<1>6. /\ ret'[cur] = r /\ \A n \in Node \ {cur} : ret'[n] = ret[n]
  BY <1>1, <1>3, <1>5
<1>7. ReturnsRefs'
  <2>1. r \in References /\ r.obj \in DOMAIN Values'
    BY <1>1 DEF Good
  <2>2. \A n \in Node : ret[n] = Null \/ ret[n].obj \in DOMAIN Values'
    BY <1>2 DEF EvalInv, ReturnsRefs, HeapKept, SameLayout
  <2>3. ret' \in [Node -> References]
    BY <1>1, <1>5, <2>1
  <2>. QED
    BY <1>3, <1>6, <2>1, <2>2, <2>3 DEF ReturnsRefs
<1>8. OperandsHeld'
  <2>1. SUFFICES ASSUME NEW n \in OnStack', Holding(n)', NEW i \in DOMAIN Kids(n)',
                        i <= done'[n], Kid(n, i)' \notin OnStack'
                 PROVE  Good(Values', ret'[Kid(n, i)'])
    BY DEF OperandsHeld
  <2>2. /\ Holding(n) /\ i \in DOMAIN Kids(n) /\ i <= done[n] /\ Kid(n, i)' = Kid(n, i)
        /\ n \in OnStack
    BY <1>3, <2>1 DEF Holding, Kind, Kids, Kid
  <2>3. CASE Kid(n, i) = cur
    BY <1>1, <1>6, <2>2, <2>3
  <2>4. CASE Kid(n, i) # cur
    <3>1. Kid(n, i) \notin OnStack /\ Kid(n, i) \in Node
      <4>1. n \in Node
        BY <2>2 DEF OnStack
      <4>. QED
        BY <1>3, <2>1, <2>2, <2>4, <4>1, NodeShape DEF StackInv
    <3>2. Good(Values, ret[Kid(n, i)])
      BY <2>2, <3>1 DEF EvalInv, OperandsHeld
    <3>3. ret'[Kid(n, i)] = ret[Kid(n, i)]
      BY <1>6, <2>4, <3>1
    <3>. QED
      BY <1>2, <2>2, <3>2, <3>3, GoodKept DEF HeapKept
  <2>. QED
    BY <2>3, <2>4
<1>9. AccessesInside'
  <2>1. SUFFICES ASSUME NEW n \in OnStack', Kind(n)' = "access", done'[n] > 0
                 PROVE  PartOf(Values', ret'[n], done'[n] - 1)
    BY DEF AccessesInside
  <2>2. Kind(n) = "access" /\ done[n] > 0 /\ done'[n] = done[n] /\ n \in OnStack /\ n # cur /\ n \in Node
    BY <1>3, <2>1 DEF Kind, OnStack
  <2>3. PartOf(Values, ret[n], done[n] - 1) /\ ret'[n] = ret[n]
    BY <1>6, <2>2 DEF EvalInv, AccessesInside
  <2>. QED
    BY <1>2, <2>2, <2>3 DEF PartOf, HeapKept, SameLayout
<1>10. HeapOK(Values)'
  BY <1>2 DEF HeapKept
<1>. QED
  BY <1>2, <1>4, <1>7, <1>8, <1>9, <1>10 DEF EvalInv

LEMMA AfterProceeds ==
    ASSUME StackInv, EvalInv, Proceeds
    PROVE  EvalInv'
<1>1. /\ cur # 0 /\ cur \in Node /\ done[cur] \in Nat /\ DOMAIN Kids(cur) = 1..Len(Kids(cur))
      /\ cur \in OnStack /\ Values' = Values /\ Node \subseteq Nat
      /\ KeepsTables /\ KeepsLists /\ KeepsStreams
  BY KidsExist, Trees DEF Proceeds, StackInv, StackIsPath, ProgOK, Node
<1>2. PICK i \in DOMAIN Kids(cur) :
         /\ Accept(i) /\ (Kind(cur) \in ExpressionKinds => i = done[cur] + 1)
         /\ IF Kind(cur) = "access"
            THEN \E r : ret' = [ret EXCEPT ![cur] = r] /\ PartOf(Values, r, i - 1)
            ELSE ret' = ret
  BY DEF Proceeds
<1>. DEFINE kid == Kid(cur, i)
<1>3. /\ prog' = prog /\ Node' = Node /\ kid \in Node /\ kid # cur /\ OnStack' = OnStack \cup {kid}
      /\ kid \notin OnStack
  <2>1. /\ prog' = prog /\ Node' = Node /\ OnStack' = OnStack \cup {kid}
    BY <1>1, <1>2, AcceptStack DEF Accept
  <2>2. kid \in Node /\ kid > cur
    BY <1>1, <1>2, NodeShape DEF StackInv
  <2>3. kid \notin OnStack
    BY <1>1, <2>2 DEF StackInv, StackIsPath
  <2>. QED
    BY <1>1, <2>1, <2>2, <2>3
<1>4. /\ done'[cur] = i /\ done'[kid] = 0 /\ \A n \in OnStack \ {cur} : done'[n] = done[n]
  <2>1. done' = [done EXCEPT ![cur] = i, ![kid] = 0] /\ done \in [Node -> Nat \cup {Idle}]
    BY <1>2 DEF Accept, StackInv, StackTypeOK
  <2>. HIDE DEF kid
  <2>. QED
    BY <1>1, <1>3, <2>1 DEF OnStack
<1>5. HeapKept /\ StreamsOK'
  BY <1>1, SameItself, StreamsKept DEF HeapKept, EvalInv
<1>6. NamesBound' /\ SymbolsCoherent' /\ ListsHoldArrays'
  <2>1. Keys' = Keys
    BY <1>3 DEF Keys
  <2>. QED
    BY <1>1, <1>5, <2>1, TablesKept, ListsKept
<1>7. /\ ret' \in [Node -> References] /\ \A n \in Node \ {cur} : ret'[n] = ret[n]
      /\ ret'[cur] = ret[cur] \/ ret'[cur].obj \in DOMAIN Values
      /\ Kind(cur) = "access" => PartOf(Values, ret'[cur], i - 1)
  <2>1. ret \in [Node -> References]
    BY DEF EvalInv, ReturnsRefs
  <2>2. CASE Kind(cur) = "access"
    <3>1. PICK r : ret' = [ret EXCEPT ![cur] = r] /\ PartOf(Values, r, i - 1)
      BY <1>2, <2>2
    <3>2. r \in References /\ r.obj \in DOMAIN Values
      BY <3>1 DEF PartOf
    <3>. QED
      BY <1>1, <2>1, <3>1, <3>2
  <2>3. CASE Kind(cur) # "access"
    BY <1>2, <2>1, <2>3
  <2>. QED
    BY <2>2, <2>3
<1>8. ReturnsRefs'
  BY <1>1, <1>3, <1>7 DEF ReturnsRefs, EvalInv
<1>. HIDE DEF kid
<1>9. OperandsHeld'
  <2>1. SUFFICES ASSUME NEW n \in OnStack', Holding(n)', NEW j \in DOMAIN Kids(n)',
                        j <= done'[n], Kid(n, j)' \notin OnStack'
                 PROVE  Good(Values', ret'[Kid(n, j)'])
    BY DEF OperandsHeld
  <2>2. /\ Kids(n)' = Kids(n) /\ Kid(n, j)' = Kid(n, j) /\ Kind(n)' = Kind(n)
        /\ Kid(n, j) \notin OnStack /\ Kid(n, j) # kid /\ n \in Node
    BY <1>3, <2>1 DEF Kids, Kid, Kind, OnStack
  <2>3. Kid(n, j) \in Node /\ Kid(n, j) # cur /\ j \in Nat /\ j >= 1
    BY <1>1, <2>1, <2>2, NodeShape DEF StackInv
  <2>4. SUFFICES Good(Values, ret[Kid(n, j)])
    BY <1>1, <1>7, <2>2, <2>3
  <2>5. CASE n = kid
    BY <1>4, <2>1, <2>3, <2>5
  <2>6. CASE n = cur
    <3>1. j <= i /\ j # i /\ i \in Nat
      BY <1>1, <1>2, <1>4, <2>1, <2>2, <2>6 DEF kid
    <3>2. Kind(cur) \in ExpressionKinds
      BY <1>4, <2>1, <2>2, <2>3, <2>6, <3>1 DEF Holding
    <3>3. j <= done[cur] /\ Holding(cur)
      BY <1>1, <1>2, <2>3, <3>1, <3>2 DEF Holding
    <3>. QED
      BY <1>1, <2>1, <2>2, <2>6, <3>3 DEF EvalInv, OperandsHeld
  <2>7. CASE n # kid /\ n # cur
    <3>1. n \in OnStack /\ done'[n] = done[n]
      BY <1>3, <1>4, <2>1, <2>7
    <3>2. Holding(n) /\ j <= done[n] /\ j \in DOMAIN Kids(n)
      BY <2>1, <2>2, <3>1 DEF Holding
    <3>. QED
      BY <2>2, <3>1, <3>2 DEF EvalInv, OperandsHeld
  <2>. QED
    BY <2>5, <2>6, <2>7
<1>10. AccessesInside'
  <2>1. SUFFICES ASSUME NEW n \in OnStack', Kind(n)' = "access", done'[n] > 0
                 PROVE  PartOf(Values', ret'[n], done'[n] - 1)
    BY DEF AccessesInside
  <2>2. Kind(n) = "access" /\ n \in Node
    BY <1>3, <2>1 DEF Kind, OnStack
  <2>3. n # kid
    BY <1>4, <2>1
  <2>4. CASE n = cur
    BY <1>1, <1>4, <1>7, <2>2, <2>4
  <2>5. CASE n # cur
    <3>1. n \in OnStack /\ done'[n] = done[n] /\ ret'[n] = ret[n]
      BY <1>3, <1>4, <1>7, <2>1, <2>2, <2>3, <2>5
    <3>. QED
      BY <1>1, <2>1, <2>2, <3>1 DEF EvalInv, AccessesInside
  <2>. QED
    BY <2>4, <2>5
<1>11. HeapOK(Values)'
  BY <1>5 DEF HeapKept
<1>. QED
  BY <1>5, <1>6, <1>8, <1>9, <1>10, <1>11 DEF EvalInv

LEMMA AfterLeavesStatement ==
    ASSUME StackInv, EvalInv, LeavesStatement
    PROVE  EvalInv'
<1>1. /\ cur # 0 /\ Kind(cur) \notin ExpressionKinds /\ Returns /\ ret' = ret
      /\ KeepsTables /\ KeepsLists /\ KeepsStreams
  BY DEF LeavesStatement
<1>2. /\ prog' = prog /\ Node' = Node /\ cur \in Node /\ OnStack' = OnStack \ {cur}
      /\ \A n \in OnStack' : done'[n] = done[n] /\ n \in OnStack
  <2>1. /\ prog' = prog /\ Node' = Node /\ cur \in Node /\ OnStack' = OnStack \ {cur}
    BY <1>1, ReturnStack
  <2>. QED
    BY <1>1, <2>1 DEF Returns, Return, OnStack, StackInv, StackTypeOK
<1>3. \A n \in OnStack' : ~Holding(n) /\ ~Holding(n)'
  <2>1. ASSUME NEW n \in OnStack' PROVE ~Holding(n)
    BY <1>1, <1>2, NoneHolding
  <2>. QED
    BY <1>2, <2>1 DEF Holding, Kind
<1>4. OperandsHeld'
  BY <1>3 DEF OperandsHeld
<1>5. AccessesInside'
  <2>1. \A n \in OnStack' : Kind(n)' # "access"
    BY <1>3, ValueKinds DEF Holding
  <2>. QED
    BY <2>1 DEF AccessesInside
<1>6. /\ HeapOK(Values') /\ DOMAIN Values' = DOMAIN Values
      /\ \A o \in DOMAIN Values : Values'[o].ty = Values[o].ty
                                  /\ (Values[o].ty = "int32" => Values'[o] = Values[o])
  <2>1. CASE UNCHANGED Values
    BY <2>1 DEF EvalInv
  <2>2. CASE freeResources(cur)
    <3>. DEFINE gone == IF cur \in DOMAIN ResourceHandleMap THEN ResourceHandleMap[cur] ELSE {}
    <3>1. Values' = [o \in DOMAIN Values |-> IF o \in gone THEN Destroyed(Values[o]) ELSE Values[o]]
      BY <2>2 DEF freeResources
    <3>2. \A o \in gone : o \in DOMAIN Values => Values[o].ty \in ArrayTypes
      BY DEF EvalInv, ListsHoldArrays
    <3>. HIDE DEF gone
    <3>. QED
      BY <3>1, <3>2, HeapFreed DEF EvalInv
  <2>. QED
    BY <2>1, <2>2 DEF LeavesStatement
<1>7. /\ NamesInfo' = NamesInfo /\ NameToValue' = NameToValue
      /\ ResourceHandleMap' = ResourceHandleMap /\ Keys' = Keys
  BY <1>1, <1>2 DEF KeepsTables, tableVars, KeepsLists, Keys
<1>8. ReturnsRefs' /\ ListsHoldArrays'
  BY <1>1, <1>2, <1>6, <1>7 DEF EvalInv, ReturnsRefs, ListsHoldArrays
<1>9. ASSUME NEW k \in DOMAIN NameToValue
      PROVE  /\ Bindable(Values', NameToValue[k])
             /\ TypeOf(Values', NameToValue[k]) = TypeOf(Values, NameToValue[k])
  <2>1. Bindable(Values, NameToValue[k])
    BY <1>9 DEF EvalInv, NamesBound
  <2>. DEFINE r == NameToValue[k]
  <2>2. Good(Values, r) /\ (r.cell = 0 \/ (r.cell = 1 /\ Values[r.obj].ty = "int32"))
    BY <2>1 DEF Bindable
  <2>. HIDE DEF r
  <2>3. Good(Values', r) /\ Bindable(Values', r) /\ TypeOf(Values', r) = TypeOf(Values, r)
    BY <1>6, <2>2 DEF Good, Bindable, TypeOf
  <2>. QED
    BY <2>3 DEF r
<1>10. NamesBound' /\ SymbolsCoherent'
  BY <1>7, <1>9 DEF EvalInv, NamesBound, SymbolsCoherent
<1>11. StreamsOK' /\ HeapOK(Values)'
  BY <1>1, <1>6, StreamsKept DEF EvalInv
<1>. QED
  BY <1>4, <1>5, <1>8, <1>10, <1>11 DEF EvalInv

LEMMA AfterStays ==
    ASSUME EvalInv, UNCHANGED <<prog, cur, done>>, UNCHANGED interpVars
    PROVE  EvalInv'
<1>1. /\ prog' = prog /\ done' = done /\ ret' = ret /\ NamesInfo' = NamesInfo /\ Values' = Values
      /\ NameToValue' = NameToValue /\ ResourceHandleMap' = ResourceHandleMap
      /\ reads' = reads /\ output' = output
  BY DEF interpVars
<1>2. Node' = Node /\ OnStack' = OnStack /\ Keys' = Keys
  BY <1>1 DEF Node, OnStack, Keys
<1>3. OperandsHeld' /\ AccessesInside'
  BY <1>1, <1>2 DEF EvalInv, OperandsHeld, AccessesInside, Holding, Kind, Kid, Kids
<1>4. ReturnsRefs' /\ NamesBound' /\ SymbolsCoherent' /\ ListsHoldArrays' /\ StreamsOK'
  BY <1>1, <1>2 DEF EvalInv, ReturnsRefs, NamesBound, SymbolsCoherent, ListsHoldArrays, StreamsOK
<1>5. HeapOK(Values)'
  BY <1>1 DEF EvalInv
<1>. QED
  BY <1>3, <1>4, <1>5 DEF EvalInv

-----------------------------------------------------------------------------
(***************************************************************************)
(* The interpreter's variables have their first values until the checker   *)
(* has accepted the program, and satisfy EvalInv from then on.             *)
(***************************************************************************)
DataInv ==
    /\ phase = "validate" => InterpInit
    /\ phase = "evaluate" => EvalInv

LEMMA EvaluationStarts ==
    ASSUME StackInv, InterpInit, Restarts, UNCHANGED interpVars
    PROVE  EvalInv'
<1>1. /\ ret' = [n \in Node |-> Null] /\ NamesInfo' = EmptyTable /\ NameToValue' = EmptyTable
      /\ Values' = <<>> /\ ResourceHandleMap' = EmptyTable /\ reads' = <<>> /\ output' = <<>>
  BY DEF InterpInit, interpVars
<1>2. prog' = prog /\ Node' = Node /\ done' = RootFrame(prog)
  BY DEF Restarts, Node
<1>3. \A n \in OnStack' : n = 1 /\ done'[n] = 0 /\ Kind(n)' = "root"
  BY <1>2, Trees DEF OnStack, RootFrame, Node, Kind, StackInv, ProgOK
<1>4. OperandsHeld' /\ AccessesInside'
  <2>1. "root" \notin ExpressionKinds
    BY DEF ExpressionKinds, Arity
  <2>. QED
    BY <1>3, <2>1 DEF OperandsHeld, AccessesInside, Holding
<1>5. Null \in References
  BY DEF Null, References
<1>6. DOMAIN EmptyTable = {}
  BY DEF EmptyTable
<1>7. HeapOK(Values)'
  <2>1. <<>> \in Seq(Objects) /\ DOMAIN <<>> = {}
    OBVIOUS
  <2>. QED
    BY <1>1, <2>1 DEF HeapOK
<1>8. StreamsOK'
  <2>1. <<>> \in Seq(InputValues) /\ <<>> \in Seq(Int32) /\ Len(<<>>) = 0
    OBVIOUS
  <2>. QED
    BY <1>1, <2>1, InputAssumption DEF StreamsOK
<1>9. ReturnsRefs' /\ NamesBound' /\ SymbolsCoherent' /\ ListsHoldArrays'
  BY <1>1, <1>2, <1>5, <1>6 DEF ReturnsRefs, NamesBound, SymbolsCoherent, ListsHoldArrays
<1>. QED
  BY <1>4, <1>7, <1>8, <1>9 DEF EvalInv

LEMMA DataNext ==
    ASSUME StackInv, DataInv, PhaseOK, [Next]_vars
    PROVE  DataInv'
<1>1. CASE Validate
  <2>1. phase' = "validate" /\ InterpInit /\ UNCHANGED interpVars
    BY <1>1 DEF Validate, DataInv
  <2>2. Node' = Node
    BY <1>1, CheckMoves, ProgKept DEF Validate
  <2>. QED
    BY <2>1, <2>2 DEF DataInv, InterpInit, interpVars
<1>2. CASE StartEvaluation
  <2>1. phase' = "evaluate" /\ InterpInit /\ UNCHANGED interpVars /\ Restarts
    BY <1>2 DEF StartEvaluation, DataInv, Restarts
  <2>. QED
    BY <2>1, EvaluationStarts DEF DataInv
<1>3. CASE Evaluate
  <2>1. phase' = "evaluate" /\ EvalInv /\ InterpNext
    BY <1>3 DEF Evaluate, DataInv
  <2>2. EvalInv'
    BY <2>1, InterpTyped, AfterGives, AfterProceeds, AfterLeavesStatement, AfterStays
       DEF StaysPut, Stays
  <2>. QED
    BY <2>1, <2>2 DEF DataInv
<1>4. CASE Reject \/ Exit \/ Stopped \/ UNCHANGED vars
  <2>1. UNCHANGED <<prog, cur, done>> /\ UNCHANGED interpVars /\ phase' = phase
    BY <1>4 DEF Reject, Exit, Stopped, Stop, vars, visitorVars
  <2>2. EvalInv => EvalInv'
    BY <2>1, AfterStays
  <2>3. InterpInit => InterpInit'
    BY <2>1 DEF InterpInit, interpVars, Node
  <2>. QED
    BY <2>1, <2>2, <2>3 DEF DataInv
<1>. QED
  BY <1>1, <1>2, <1>3, <1>4 DEF Next

LEMMA Invariants == Spec => [](StackInv /\ PhaseInv /\ DataInv)
<1>1. Init => StackInv /\ PhaseInv /\ DataInv
  BY StackAtStart, PhaseAtStart DEF Init, DataInv
<1>2. StackInv /\ PhaseInv /\ DataInv /\ [Next]_vars => (StackInv /\ PhaseInv /\ DataInv)'
  BY StackNext, PhaseNext, DataNext DEF PhaseInv
<1>. QED
  BY <1>1, <1>2, PTL DEF Spec

(***************************************************************************)
(* Every variable of the checker, the interpreter and the stack holds what *)
(* its declaration says, at every step of every program: ints within the   *)
(* width, elements that fill their array's shape, initers older than the   *)
(* arrays made from them.                                                  *)
(***************************************************************************)
THEOREM TypesKept == Spec => []TypeOK
<1>1. ASSUME StackInv, PhaseInv, DataInv PROVE TypeOK
  <2>1. StackTypeOK /\ phase \in {"validate", "evaluate"} /\ CheckTypeOK
    BY <1>1 DEF StackInv, PhaseInv, PhaseOK, CheckInv, Verdict
  <2>2. /\ \A n \in Node : res[n].ty \in Node \cup {NoTy, IntTy}
        /\ \A i \in DOMAIN Errors : Errors[i] \in Node
    BY <2>1 DEF CheckTypeOK, CheckedTypes
  <2>3. /\ HeapTypeOK /\ \A n \in Node : IsRef(ret[n])
        /\ DOMAIN NamesInfo \subseteq Keys /\ DOMAIN NameToValue \subseteq Keys
        /\ StreamsOK
    <3>1. CASE phase = "validate"
      <4>1. /\ ret = [n \in Node |-> Null] /\ NamesInfo = EmptyTable /\ NameToValue = EmptyTable
            /\ Values = <<>> /\ reads = <<>> /\ output = <<>>
        BY <1>1, <3>1 DEF DataInv, InterpInit
      <4>2. DOMAIN <<>> = {} /\ <<>> \in Seq(InputValues) /\ <<>> \in Seq(Int32) /\ Len(<<>>) = 0
        OBVIOUS
      <4>. QED
        BY <4>1, <4>2, InputAssumption DEF HeapTypeOK, IsRef, EmptyTable, StreamsOK
    <3>2. CASE phase = "evaluate"
      <4>1. HeapOK(Values) /\ ReturnsRefs /\ NamesBound /\ SymbolsCoherent /\ StreamsOK
        BY <1>1, <3>2 DEF DataInv, EvalInv
      <4>2. \A n \in Node : IsRef(ret[n])
        BY <4>1 DEF ReturnsRefs, IsRef, References
      <4>3. HeapTypeOK
        <5>1. ASSUME NEW o \in DOMAIN Values PROVE Values[o] \in Objects /\ Sound(Values, o)
          BY <4>1, <5>1, HeapObjects
        <5>. QED
          BY <5>1 DEF HeapTypeOK, Objects, Sound, Cells
      <4>. QED
        BY <4>1, <4>2, <4>3 DEF NamesBound, SymbolsCoherent
    <3>. QED
      BY <2>1, <3>1, <3>2
  <2>. QED
    BY <2>1, <2>2, <2>3 DEF TypeOK, StreamsOK, CheckTypeOK
<1>. QED
  BY <1>1, Invariants, PTL

(***************************************************************************)
(* The symbol table and the value manager, two maps that define() and      *)
(* linkValueWithName() write at different places, always hold the same     *)
(* names, and the recorded type of a name is that of its value.            *)
(***************************************************************************)
THEOREM SymbolsStayCoherent == Spec => []SymbolsCoherent
<1>1. ASSUME DataInv, PhaseInv PROVE SymbolsCoherent
  BY <1>1 DEF DataInv, PhaseInv, PhaseOK, EvalInv, InterpInit, SymbolsCoherent, EmptyTable
<1>. QED
  BY <1>1, Invariants, PTL

-----------------------------------------------------------------------------
(***************************************************************************)
(* The interpreter computes what the checker folded.  The object of an int *)
(* the checker knows is no variable's and no array's, so that nothing      *)
(* writes to it, and it outlives the visits of other passes of a loop.     *)
(***************************************************************************)
HoldsInt(r, v) ==
    /\ r.cell = 1 /\ r.obj \in DOMAIN Values /\ Values[r.obj].ty = "int32"
    /\ getValue(Values, r) = v
    /\ \A k \in DOMAIN NameToValue : NameToValue[k].obj # r.obj

KnownHeld ==
    \A n \in Node \ OnStack :
        ret[n] # Null /\ IsKnown(res[n].val) => HoldsInt(ret[n], res[n].val[1])

\* The element an access returned is an array's.
ElementsInArrays ==
    \A n \in Node \ OnStack :
        ret[n] # Null /\ Kind(n) = "access" => Values[ret[n].obj].ty \in ArrayTypes

\* What a step can change of what other nodes returned.
LEMMA OthersKeep ==
    ASSUME StackInv, EvalInv, InterpNext
    PROVE  /\ prog' = prog /\ Node' = Node /\ cur # 0 /\ cur \in Node /\ cur \in OnStack
           /\ OnStack \ {cur} \subseteq OnStack'
           /\ \A n \in Node \ {cur} : ret'[n] = ret[n]
           /\ \A o \in DOMAIN Values : o \in DOMAIN Values' /\ Values'[o].ty = Values[o].ty
           /\ cur \notin OnStack' => Returns
<1>1. ret \in [Node -> References]
  BY DEF EvalInv, ReturnsRefs
<1>2. cur # 0
  BY InterpTyped DEF Gives, GivesGood, Proceeds, LeavesStatement, StaysPut, InterpNext,
     AcceptOperand, VisitNumber, VisitRead, VisitVariable, VisitUn, VisitCalc,
     VisitLogicLhs, VisitLogicRhs, VisitPrint, VisitAssignment, VisitArrayHolder,
     VisitPresetArray, VisitUniformArray, AccessArray, AccessRank,
     VisitArrayAccessAssignment, VisitIf, LeaveIf, VisitWhile, WhileAgain,
     VisitStatementBlock, Ready, At
<1>3. cur \in Node /\ cur \in OnStack
  BY <1>2, KidsExist DEF StackInv, StackIsPath
<1>4. CASE Gives
  <2>1. Returns /\ SameLayout(Values, Values') /\ \E r : ret' = [ret EXCEPT ![cur] = r]
    BY <1>4 DEF Gives, GivesGood
  <2>. QED
    BY <1>1, <1>2, <1>3, <2>1, ReturnStack DEF SameLayout
<1>5. CASE Proceeds
  <2>1. /\ Values' = Values /\ (ret' = ret \/ \E r : ret' = [ret EXCEPT ![cur] = r])
        /\ \E i \in DOMAIN Kids(cur) : Accept(i)
    BY <1>5 DEF Proceeds
  <2>2. prog' = prog /\ Node' = Node /\ OnStack \subseteq OnStack'
    BY <1>2, <2>1, AcceptStack
  <2>. QED
    BY <1>1, <1>2, <1>3, <2>1, <2>2
<1>6. CASE LeavesStatement
  <2>1. Returns /\ ret' = ret /\ (Values' = Values \/ freeResources(cur))
    BY <1>6 DEF LeavesStatement
  <2>2. \A o \in DOMAIN Values : o \in DOMAIN Values' /\ Values'[o].ty = Values[o].ty
    <3>1. CASE Values' = Values
      BY <3>1
    <3>2. CASE freeResources(cur)
      <4>1. \A o \in DOMAIN Values : Values[o] \in Objects
        BY HeapObjects DEF EvalInv
      <4>2. \A o \in DOMAIN Values : Destroyed(Values[o]).ty = Values[o].ty
        BY <4>1 DEF Destroyed, Objects
      <4>. QED
        BY <3>2, <4>2 DEF freeResources
    <3>. QED
      BY <2>1, <3>1, <3>2
  <2>. QED
    BY <1>2, <1>3, <2>1, <2>2, ReturnStack
<1>7. CASE StaysPut
  <2>1. prog' = prog /\ done' = done /\ ret' = ret /\ Values' = Values
    BY <1>7 DEF StaysPut, Stays, interpVars
  <2>2. Node' = Node /\ OnStack' = OnStack
    BY <2>1 DEF Node, OnStack
  <2>. QED
    BY <1>2, <1>3, <2>1, <2>2
<1>. QED
  BY <1>4, <1>5, <1>6, <1>7, InterpTyped

\* An object that is no variable's and no array's is not written to.
LEMMA ObjectsAdded ==
    ASSUME EvalInv, NEW o, createValue(o)
    PROVE  \A i \in DOMAIN Values : i \in DOMAIN Values' /\ Values'[i] = Values[i] /\ NewObj # i
<1>1. Values \in Seq(Objects)
  BY DEF EvalInv, HeapOK
<1>. HIDE DEF Objects
<1>. QED
  BY <1>1 DEF createValue, NewObj

LEMMA IntsUnwritten ==
    ASSUME StackInv, EvalInv, ElementsInArrays, InterpNext, NEW r, NEW v, HoldsInt(r, v)
    PROVE  HoldsInt(r, v)'
<1>1. cur # 0 /\ cur \in Node /\ cur \in OnStack /\ Len(Kids(cur)) \in Nat
  BY OthersKeep, KidsExist
<1>2. ASSUME Values'[r.obj] = Values[r.obj], r.obj \in DOMAIN Values',
             \A k \in DOMAIN NameToValue' : NameToValue'[k].obj # r.obj
      PROVE  HoldsInt(r, v)'
  BY <1>2 DEF HoldsInt, getValue
<1>3. ASSUME UNCHANGED NameToValue, UNCHANGED Values \/ \E o : createValue(o)
      PROVE  HoldsInt(r, v)'
  BY <1>2, <1>3, ObjectsAdded DEF HoldsInt
<1>4. ASSUME NEW t, Good(Values, t), NEW x \in Int32, Values' = setValue(Values, t, x),
             UNCHANGED NameToValue, t.obj # r.obj
      PROVE  HoldsInt(r, v)'
  <2>1. Values'[r.obj] = Values[r.obj] /\ r.obj \in DOMAIN Values'
    BY <1>4, HeapSet DEF HoldsInt, EvalInv
  <2>. QED
    BY <1>2, <1>4, <2>1 DEF HoldsInt
<1>5. UNCHANGED interpVars => UNCHANGED Values /\ UNCHANGED NameToValue
  BY DEF interpVars
<1>6. CASE AcceptOperand \/ VisitIf \/ LeaveIf \/ VisitWhile \/ WhileAgain
  BY <1>3, <1>5, <1>6 DEF AcceptOperand, VisitIf, LeaveIf, VisitWhile, WhileAgain, StopHere
<1>7. CASE VisitNumber \/ VisitRead \/ VisitVariable \/ VisitUn \/ VisitCalc \/ VisitLogicLhs
           \/ VisitLogicRhs \/ VisitPrint \/ VisitArrayHolder
  <2>1. UNCHANGED NameToValue /\ (UNCHANGED Values \/ \E o : createValue(o))
    BY <1>5, <1>7 DEF VisitNumber, VisitRead, VisitVariable, VisitUn, VisitCalc, VisitLogicLhs,
       VisitLogicRhs, VisitPrint, VisitArrayHolder, StopHere, GiveInt, tableVars
  <2>. QED
    BY <1>3, <2>1
<1>8. CASE VisitPresetArray \/ VisitUniformArray \/ AccessArray \/ AccessRank
  <2>1. UNCHANGED NameToValue /\ (UNCHANGED Values \/ \E o : createValue(o))
    BY <1>5, <1>8 DEF VisitPresetArray, VisitUniformArray, AccessArray, AccessRank, StopHere,
       GiveArray, tableVars
  <2>. QED
    BY <1>3, <2>1
<1>9. CASE VisitAssignment
  <2>1. Kind(cur) = "assign" /\ done[cur] = 1 /\ Kind(cur) \in ExpressionKinds
    BY <1>9, ValueKinds DEF VisitAssignment, Ready, At, Operands
  <2>2. Len(Kids(cur)) = 2
    BY <1>1, <2>1, KidsExist
  <2>3. /\ Good(Values, Arg(1)) /\ (IsIntArg(1) <=> Arg(1).cell # 0)
        /\ IsIntArg(1) => IntArg(1) \in Int32
    BY <1>1, <2>1, <2>2, Operand
  <2>4. CASE isDefined(NamesInfo, Name(cur), Scope(cur))
    <3>. DEFINE key == getDeclKeyFor(NamesInfo, Name(cur), Scope(cur))
                target == NameToValue[key]
    <3>1. Assign(target)
      BY <1>9, <2>4 DEF VisitAssignment
    <3>2. Good(Values, target) /\ key \in DOMAIN NameToValue
      BY <1>1, <2>4, NameFound DEF EvalInv, Bindable
    <3>3. target.obj # r.obj
      BY <3>2 DEF HoldsInt
    <3>. HIDE DEF target
    <3>4. CASE UNCHANGED interpVars
      BY <1>3, <1>5, <3>4
    <3>5. CASE IsIntArg(1) /\ Values' = setValue(Values, target, IntArg(1)) /\ UNCHANGED NameToValue
      BY <1>4, <2>3, <3>2, <3>3, <3>5
    <3>. QED
      BY <3>1, <3>4, <3>5 DEF Assign, StopHere, tableVars
  <2>5. CASE ~isDefined(NamesInfo, Name(cur), Scope(cur))
    <3>. DEFINE key == SymTabKey(Name(cur), Scope(cur)[1])
    <3>1. Define(key)
      BY <1>9, <2>5 DEF VisitAssignment
    <3>. HIDE DEF key
    <3>2. CASE IsIntArg(1)
      <4>1. /\ \E o : createValue(o)
            /\ NameToValue' = Emplace(NameToValue, key, IntRef(NewObj))
        BY <3>1, <3>2 DEF Define, linkValueWithName
      <4>2. Values'[r.obj] = Values[r.obj] /\ r.obj \in DOMAIN Values' /\ NewObj # r.obj
        BY <4>1, ObjectsAdded DEF HoldsInt
      <4>3. \A k \in DOMAIN NameToValue' : NameToValue'[k].obj # r.obj
        BY <4>1, <4>2 DEF HoldsInt, Emplace, IntRef
      <4>. QED
        BY <1>2, <4>2, <4>3
    <3>3. CASE ~IsIntArg(1)
      <4>1. Values' = Values /\ NameToValue' = Emplace(NameToValue, key, Arg(1))
        BY <3>1, <3>3 DEF Define, linkValueWithName
      <4>2. Values[Arg(1).obj].ty \in ArrayTypes
        BY <2>3, <3>3 DEF Good
      <4>3. Arg(1).obj # r.obj
        BY <4>2 DEF HoldsInt, ArrayTypes
      <4>4. \A k \in DOMAIN NameToValue' : NameToValue'[k].obj # r.obj
        BY <4>1, <4>3 DEF HoldsInt, Emplace
      <4>5. Values'[r.obj] = Values[r.obj] /\ r.obj \in DOMAIN Values'
        BY <4>1 DEF HoldsInt
      <4>. QED
        BY <1>2, <4>4, <4>5
    <3>. QED
      BY <3>2, <3>3
  <2>. QED
    BY <2>4, <2>5
<1>10. CASE VisitArrayAccessAssignment
  <2>1. Kind(cur) = "accessAssign" /\ Kind(cur) \in ExpressionKinds
    BY <1>10, ValueKinds DEF VisitArrayAccessAssignment, Ready, At
  <2>2. Len(Kids(cur)) = 2 /\ DOMAIN Kids(cur) = 1..Len(Kids(cur))
    <3>1. Kids(cur) \in Seq(Nat)
      BY <1>1, KidsExist
    <3>2. Len(Kids(cur)) = 2
      BY <1>1, <2>1, KidsExist
    <3>. QED
      BY <3>1, <3>2
  <2>3. done[cur] = 2 /\ 1 \in 1..Len(Kids(cur)) /\ 2 \in 1..Len(Kids(cur)) /\ 1 \in DOMAIN Kids(cur)
    BY <1>10, <2>1, <2>2 DEF VisitArrayAccessAssignment, Ready, At, Operands
  <2>4. /\ Good(Values, Arg(1)) /\ Good(Values, Arg(2))
        /\ IsIntArg(2) => IntArg(2) \in Int32
    BY <1>1, <2>1, <2>3, Operand
  <2>5. Kind(Kid(cur, 1)) = "access" /\ Kid(cur, 1) \in Node /\ Kid(cur, 1) > cur
    BY <1>1, <2>1, <2>3, NodeShape DEF StackInv
  <2>6. Kid(cur, 1) \notin OnStack
    BY <1>1, <2>5, Trees DEF StackInv, StackIsPath, ProgOK, Node
  <2>7. Arg(1) # Null
    BY <2>4, HeapObjects DEF Good, Null, EvalInv
  <2>8. Values[Arg(1).obj].ty \in ArrayTypes
    BY <2>5, <2>6, <2>7 DEF ElementsInArrays, Arg
  <2>9. Arg(1).obj # r.obj
    BY <2>8 DEF HoldsInt, ArrayTypes
  <2>10. \/ UNCHANGED interpVars
         \/ /\ IsIntArg(2) /\ Values' = setValue(Values, Arg(1), IntArg(2))
            /\ UNCHANGED NameToValue
    BY <1>10 DEF VisitArrayAccessAssignment, StopHere, tableVars
  <2>. QED
    BY <1>3, <1>4, <1>5, <2>4, <2>9, <2>10
<1>11. CASE VisitStatementBlock
  <2>1. freeResources(cur) /\ NameToValue' = NameToValue
    BY <1>11 DEF VisitStatementBlock, tableVars
  <2>2. ASSUME cur \in DOMAIN ResourceHandleMap, r.obj \in ResourceHandleMap[cur] PROVE FALSE
    BY <2>2 DEF EvalInv, ListsHoldArrays, HoldsInt, ArrayTypes
  <2>3. Values'[r.obj] = Values[r.obj] /\ r.obj \in DOMAIN Values'
    BY <2>1, <2>2 DEF freeResources, HoldsInt
  <2>. QED
    BY <1>2, <2>1, <2>3 DEF HoldsInt
<1>. QED
  BY <1>6, <1>7, <1>8, <1>9, <1>10, <1>11 DEF InterpNext

\* Until the operator of the node on top is applied its operands are held: what the
\* checker knows of them is what they returned.
LEMMA KnownOperand ==
    ASSUME StackInv, EvalInv, KnownHeld, cur # 0, Kind(cur) \in ExpressionKinds,
           NEW i \in 1..Len(Kids(cur)), i <= done[cur], IsKnown(res[Kid(cur, i)].val)
    PROVE  HoldsInt(Arg(i), res[Kid(cur, i)].val[1]) /\ IsIntArg(i)
           /\ IntArg(i) = res[Kid(cur, i)].val[1]
<1>1. cur \in Node /\ cur \in OnStack /\ i \in DOMAIN Kids(cur)
  BY KidsExist DEF StackInv, StackIsPath
<1>2. Kid(cur, i) \in Node /\ Kid(cur, i) > cur
  BY <1>1, NodeShape DEF StackInv
<1>3. Kid(cur, i) \notin OnStack
  BY <1>1, <1>2, Trees DEF StackInv, StackIsPath, ProgOK, Node
<1>4. Good(Values, Arg(i))
  BY Operand
<1>5. Arg(i) # Null
  BY <1>4, HeapObjects DEF Good, Null, EvalInv
<1>6. HoldsInt(Arg(i), res[Kid(cur, i)].val[1])
  BY <1>2, <1>3, <1>5 DEF KnownHeld, Arg
<1>. QED
  BY <1>6 DEF HoldsInt, IsIntArg, IsInt, TypeOf, IntArg

LEMMA NewIntHeld ==
    ASSUME StackInv, EvalInv, NEW v \in Int32, GiveInt(v), UNCHANGED NameToValue
    PROVE  \E r : ret' = [ret EXCEPT ![cur] = r] /\ HoldsInt(r, v)'
<1>1. /\ Values' = Append(Values, IntegerVal(v)) /\ ret' = [ret EXCEPT ![cur] = IntRef(Len(Values) + 1)]
  BY DEF GiveInt, createValue, Give, NewObj
<1>2. /\ IntegerVal(v) \in Objects /\ Sound(Append(Values, IntegerVal(v)), Len(Values) + 1)
  BY IntegerMade DEF EvalInv
<1>3. /\ Len(Values) + 1 \in DOMAIN Values' /\ Len(Values) + 1 \notin DOMAIN Values
      /\ Values'[Len(Values) + 1] = IntegerVal(v)
  BY <1>1, <1>2, HeapAppended DEF EvalInv
<1>4. \A k \in DOMAIN NameToValue : NameToValue[k].obj # Len(Values) + 1
  BY <1>3 DEF EvalInv, NamesBound, Bindable, Good
<1>5. PICK r : r = IntRef(Len(Values) + 1)
  OBVIOUS
<1>6. /\ r.cell = 1 /\ r.obj = Len(Values) + 1 /\ IntegerVal(v).ty = "int32"
      /\ IntegerVal(v).cells[1] = v
  BY <1>5 DEF IntRef, IntegerVal
<1>7. HoldsInt(r, v)'
  BY <1>3, <1>4, <1>6 DEF HoldsInt, getValue
<1>. QED
  BY <1>1, <1>5, <1>7

\* LogicValue agrees with the two operators that need not look at their right operand.
LEMMA ShortCircuitValue ==
    ASSUME NEW op \in {"<", "<=", ">", ">=", "==", "!=", "&&", "||"}, NEW a, NEW b, ShortCircuits(op, a)
    PROVE  LogicValue(op, a, b) = Truth(op = "||")
BY DEF ShortCircuits, LogicValue, Truth

LEMMA KnownGiven ==
    ASSUME StackInv, EvalInv, KnownHeld, ElementsInArrays, Folded, InterpNext,
           cur \notin OnStack', IsKnown(res[cur].val), NEW v, v = res[cur].val[1]
    PROVE  \E r : ret' = [ret EXCEPT ![cur] = r] /\ HoldsInt(r, v)'
<1>1. cur # 0 /\ cur \in Node /\ cur \in OnStack /\ Len(Kids(cur)) \in Nat /\ Returns
  BY OthersKeep, KidsExist
<1>2. FoldsTo(cur, res[cur].val)
  BY <1>1 DEF Folded
<1>3. Kind(cur) \in {"number", "un", "calc", "logic"} /\ Kind(cur) \in ExpressionKinds
  BY <1>2, ValueKinds DEF FoldsTo
<1>4. /\ Kind(cur) = "un" => Len(Kids(cur)) = 1 /\ Op(cur) \in {"+", "-", "!"}
      /\ Kind(cur) \in {"calc", "logic"} => Len(Kids(cur)) = 2
      /\ Kind(cur) = "calc" => Op(cur) \in {"+", "-", "*", "/", "%"}
      /\ Kind(cur) = "logic" => Op(cur) \in {"<", "<=", ">", ">=", "==", "!=", "&&", "||"}
      /\ Kind(cur) = "number" => prog[cur].val \in Int32
  BY <1>1, NodeShape DEF StackInv
\* A step that leaves the node on the stack is not the one that returns.
<1>5. \A why : ~StopHere(why)
  <2>1. ASSUME NEW why, StopHere(why) PROVE OnStack' = OnStack
    BY <2>1 DEF StopHere, Stop, OnStack, Node
  <2>. QED
    BY <1>1, <2>1
<1>6. \A i \in DOMAIN Kids(cur) : ~Accept(i)
  <2>1. ASSUME NEW i \in DOMAIN Kids(cur), Accept(i) PROVE OnStack \subseteq OnStack'
    BY <1>1, <2>1, AcceptStack
  <2>. QED
    BY <1>1, <2>1
<1>7. ~AcceptOperand
  BY <1>1, <1>6, OperandsExist DEF AcceptOperand
<1>8. VisitNumber \/ VisitUn \/ VisitCalc \/ VisitLogicLhs \/ VisitLogicRhs
  BY <1>3, <1>7 DEF InterpNext, VisitRead, VisitVariable, VisitPrint, VisitAssignment,
     VisitArrayHolder, VisitPresetArray, VisitUniformArray, AccessArray, AccessRank,
     VisitArrayAccessAssignment, VisitIf, LeaveIf, VisitWhile, WhileAgain,
     VisitStatementBlock, Ready, At
<1>9. CASE VisitNumber
  <2>1. Kind(cur) = "number" /\ GiveInt(prog[cur].val) /\ UNCHANGED NameToValue
    BY <1>9 DEF VisitNumber, Ready, At, tableVars
  <2>2. v = prog[cur].val
    BY <1>2, <2>1 DEF FoldsTo, Known
  <2>. QED
    BY <1>4, <2>1, <2>2, NewIntHeld
<1>10. CASE VisitUn
  <2>1. Kind(cur) = "un" /\ done[cur] = 1 /\ 1 \in 1..Len(Kids(cur))
    <3>1. Kind(cur) = "un" /\ done[cur] = Len(Kids(cur))
      BY <1>10 DEF VisitUn, Ready, At, Operands
    <3>2. Len(Kids(cur)) = 1
      BY <1>4, <3>1
    <3>. QED
      BY <3>1, <3>2
  <2>2. /\ IsKnown(res[Kid(cur, 1)].val) /\ v = UnaryValue(Op(cur), res[Kid(cur, 1)].val[1])
    BY <1>2, <2>1 DEF FoldsTo, Known
  <2>3. HoldsInt(Arg(1), IntArg(1)) /\ IsIntArg(1) /\ v = UnaryValue(Op(cur), IntArg(1))
    BY <1>1, <1>3, <2>1, <2>2, KnownOperand
  <2>4. UNCHANGED NameToValue
    BY <1>5, <1>10, <2>3 DEF VisitUn, tableVars
  <2>5. CASE Op(cur) = "+"
    <3>1. PICK r : r = Arg(1)
      OBVIOUS
    <3>2. ret' = [ret EXCEPT ![cur] = r] /\ v = IntArg(1)
      BY <1>5, <1>10, <2>3, <2>5, <3>1 DEF VisitUn, Give, UnaryValue
    <3>3. HoldsInt(r, v)
      BY <2>3, <3>1, <3>2
    <3>4. HoldsInt(r, v)'
      BY <3>3, IntsUnwritten
    <3>. QED
      BY <3>2, <3>4
  <2>6. CASE Op(cur) # "+"
    <3>1. GiveInt(UnaryValue(Op(cur), IntArg(1)))
      BY <1>5, <1>10, <2>3, <2>6 DEF VisitUn
    <3>2. IntArg(1) \in Int32
      BY <1>1, <1>3, <2>1, <2>3, Operand
    <3>3. v \in Int32
      BY <1>4, <2>1, <2>3, <3>2, UnaryIsInt
    <3>. QED
      BY <2>3, <2>4, <3>1, <3>3, NewIntHeld
  <2>. QED
    BY <2>5, <2>6
<1>11. CASE VisitCalc
  <2>1. Kind(cur) = "calc" /\ done[cur] = 2 /\ 1 \in 1..Len(Kids(cur)) /\ 2 \in 1..Len(Kids(cur))
    BY <1>1, <1>4, <1>11 DEF VisitCalc, Ready, At, Operands
  <2>2. /\ IsKnown(res[Kid(cur, 1)].val) /\ IsKnown(res[Kid(cur, 2)].val)
        /\ v = ArithValue(Op(cur), res[Kid(cur, 1)].val[1], res[Kid(cur, 2)].val[1])
    BY <1>2, <2>1 DEF FoldsTo, Known
  <2>3. IsIntArg(1) /\ IntArg(1) = res[Kid(cur, 1)].val[1]
    BY <1>1, <1>3, <2>1, <2>2, KnownOperand
  <2>4. IsIntArg(2) /\ IntArg(2) = res[Kid(cur, 2)].val[1]
    BY <1>1, <1>3, <2>1, <2>2, KnownOperand
  <2>5. IntArg(1) \in Int32 /\ IntArg(2) \in Int32
    BY <1>1, <1>3, <2>1, <2>3, <2>4, Operand
  <2>6. /\ ArithFault(Op(cur), IntArg(1), IntArg(2)) = "none" /\ UNCHANGED NameToValue
        /\ GiveInt(ArithValue(Op(cur), IntArg(1), IntArg(2)))
    BY <1>5, <1>11, <2>3, <2>4 DEF VisitCalc, tableVars
  <2>7. v = ArithValue(Op(cur), IntArg(1), IntArg(2)) /\ v \in Int32
    <3>1. v = ArithValue(Op(cur), IntArg(1), IntArg(2))
      BY <2>2, <2>3, <2>4
    <3>. QED
      BY <1>4, <2>1, <2>5, <2>6, <3>1, ArithIsInt
  <2>. QED
    BY <2>6, <2>7, NewIntHeld
<1>12. CASE VisitLogicLhs \/ VisitLogicRhs
  <2>1. /\ Kind(cur) = "logic" /\ done[cur] \in {1, 2}
        /\ 1 \in 1..Len(Kids(cur)) /\ 2 \in 1..Len(Kids(cur)) /\ 2 \in DOMAIN Kids(cur)
    <3>1. Kind(cur) = "logic" /\ done[cur] \in {1, 2}
      BY <1>12 DEF VisitLogicLhs, VisitLogicRhs, At
    <3>2. DOMAIN Kids(cur) = 1..Len(Kids(cur)) /\ Len(Kids(cur)) = 2
      BY <1>1, <1>4, <3>1, NodeShape DEF StackInv
    <3>. QED
      BY <3>1, <3>2
  <2>. DEFINE a == res[Kid(cur, 1)].val[1]
              b == res[Kid(cur, 2)].val[1]
  <2>2. /\ IsKnown(res[Kid(cur, 1)].val) /\ IsKnown(res[Kid(cur, 2)].val)
        /\ v = LogicValue(Op(cur), a, b)
    BY <1>2, <2>1 DEF FoldsTo, Known
  <2>3. IsIntArg(1) /\ IntArg(1) = a
    BY <1>1, <1>3, <2>1, <2>2, KnownOperand
  <2>4. v \in Int32
    BY <1>4, <2>1, <2>2, LogicIsInt
  <2>5. CASE VisitLogicLhs
    <3>1. /\ GiveInt(Truth(Op(cur) = "||")) /\ UNCHANGED NameToValue
          /\ ShortCircuits(Op(cur), IntArg(1))
      BY <1>6, <2>1, <2>3, <2>5 DEF VisitLogicLhs, tableVars
    <3>2. v = Truth(Op(cur) = "||")
      BY <1>4, <2>1, <2>2, <2>3, <3>1, ShortCircuitValue
    <3>. QED
      BY <2>4, <3>1, <3>2, NewIntHeld
  <2>6. CASE VisitLogicRhs
    <3>1. done[cur] = 2
      BY <2>6 DEF VisitLogicRhs, At
    <3>2. IsIntArg(2) /\ IntArg(2) = b
      BY <1>1, <1>3, <2>1, <2>2, <3>1, KnownOperand
    <3>3. GiveInt(LogicValue(Op(cur), IntArg(1), IntArg(2))) /\ UNCHANGED NameToValue
      BY <2>6, <3>2 DEF VisitLogicRhs, tableVars
    <3>. QED
      BY <2>2, <2>3, <2>4, <3>2, <3>3, NewIntHeld
  <2>. QED
    BY <1>12, <2>5, <2>6
<1>. QED
  BY <1>8, <1>9, <1>10, <1>11, <1>12

LEMMA KnownKept ==
    ASSUME StackInv, EvalInv, KnownHeld, ElementsInArrays, Folded, InterpNext, UNCHANGED res
    PROVE  KnownHeld'
<1>1. /\ Node' = Node /\ cur \in Node /\ OnStack \ {cur} \subseteq OnStack'
      /\ \A n \in Node \ {cur} : ret'[n] = ret[n]
  BY OthersKeep
<1>2. ret \in [Node -> References]
  BY DEF EvalInv, ReturnsRefs
<1>3. ASSUME NEW n \in Node, n \notin OnStack', ret'[n] # Null, IsKnown(res[n].val)
      PROVE  \E r : ret'[n] = r /\ HoldsInt(r, res[n].val[1])'
  <2>1. PICK v : v = res[n].val[1]
    OBVIOUS
  <2>2. CASE n = cur
    <3>1. PICK r : ret' = [ret EXCEPT ![cur] = r] /\ HoldsInt(r, v)'
      BY <1>3, <2>1, <2>2, KnownGiven
    <3>2. ret'[n] = r
      BY <1>1, <1>2, <2>2, <3>1
    <3>3. v = (res[n].val[1])'
      BY <2>1
    <3>. QED
      BY <3>1, <3>2, <3>3 DEF HoldsInt
  <2>3. CASE n # cur
    <3>1. n \notin OnStack /\ ret'[n] = ret[n]
      BY <1>1, <1>3, <2>3
    <3>2. PICK r : r = ret[n]
      OBVIOUS
    <3>3. HoldsInt(r, v)
      BY <1>3, <2>1, <3>1, <3>2 DEF KnownHeld
    <3>4. HoldsInt(r, v)'
      BY <3>3, IntsUnwritten
    <3>. QED
      BY <2>1, <3>1, <3>2, <3>4 DEF HoldsInt
  <2>. QED
    BY <2>2, <2>3
<1>. QED
  BY <1>1, <1>3 DEF KnownHeld, HoldsInt

LEMMA ElementsKept ==
    ASSUME StackInv, EvalInv, ElementsInArrays, InterpNext
    PROVE  ElementsInArrays'
<1>1. /\ Node' = Node /\ prog' = prog /\ cur \in Node /\ OnStack \ {cur} \subseteq OnStack'
      /\ \A n \in Node \ {cur} : ret'[n] = ret[n]
      /\ \A o \in DOMAIN Values : o \in DOMAIN Values' /\ Values'[o].ty = Values[o].ty
  BY OthersKeep
<1>2. ret \in [Node -> References]
  BY DEF EvalInv, ReturnsRefs
<1>3. ASSUME NEW n \in Node, n \notin OnStack', ret'[n] # Null, Kind(n) = "access"
      PROVE  Values'[ret'[n].obj].ty \in ArrayTypes
  <2>1. CASE n = cur
    <3>1. AccessRank
      <4>1. ~AccessArray
        <5>1. ASSUME AccessArray PROVE OnStack \subseteq OnStack'
          <6>1. CASE \E i \in DOMAIN Kids(cur) : Accept(i)
            BY <6>1, AcceptStack, OthersKeep
          <6>2. CASE UNCHANGED <<prog, done>>
            BY <6>2 DEF OnStack, Node
          <6>3. Kids(cur) \in Seq(Nat) /\ 1 \in DOMAIN Kids(cur)
            BY <1>1, <1>3, <2>1, NodeShape DEF StackInv
          <6>. QED
            BY <5>1, <6>1, <6>2, <6>3 DEF AccessArray, StopHere, Stop
        <5>. QED
          BY <1>3, <2>1, <5>1, OthersKeep
      <4>2. ~AcceptOperand
        <5>1. ASSUME AcceptOperand PROVE \E i \in DOMAIN Kids(cur) : Accept(i)
          BY <1>1, <5>1, OperandsExist DEF AcceptOperand
        <5>. QED
          BY <1>3, <2>1, <5>1, AcceptStack, OthersKeep
      <4>. QED
        BY <1>3, <2>1, <4>1, <4>2 DEF InterpNext, VisitNumber, VisitRead,
           VisitVariable, VisitUn, VisitCalc, VisitLogicLhs, VisitLogicRhs, VisitPrint,
           VisitAssignment, VisitArrayHolder, VisitPresetArray, VisitUniformArray,
           VisitArrayAccessAssignment, VisitIf, LeaveIf, VisitWhile, WhileAgain,
           VisitStatementBlock, Ready, At
    <3>2. ~StopHere(RankFault(done[cur]))
      <4>1. ASSUME StopHere(RankFault(done[cur])) PROVE OnStack' = OnStack
        BY <4>1 DEF StopHere, Stop, OnStack, Node
      <4>. QED
        BY <1>3, <2>1, <4>1, OthersKeep
    <3>3. /\ RankFault(done[cur]) = "none" /\ Values' = Values
          /\ \E c : ret' = [ret EXCEPT ![cur].cell = c]
      BY <3>1, <3>2 DEF AccessRank
    <3>4. CurrArr.ty # "int32"
      BY <3>3 DEF RankFault
    <3>5. ret'[cur].obj = ret[cur].obj
      BY <1>1, <1>2, <3>3 DEF References
    <3>6. ret[cur].obj \in DOMAIN Values
      <4>1. done[cur] > 0 /\ cur \in OnStack
        BY <3>1, OthersKeep DEF AccessRank
      <4>. QED
        BY <1>3, <2>1, <4>1 DEF EvalInv, AccessesInside, PartOf
    <3>7. Values[ret[cur].obj] \in Objects
      BY <3>6, HeapObjects DEF EvalInv
    <3>. QED
      BY <2>1, <3>3, <3>4, <3>5, <3>7 DEF CurrArr, Objects, ArrayTypes, TypeNames
  <2>2. CASE n # cur
    <3>1. n \notin OnStack /\ ret'[n] = ret[n]
      BY <1>1, <1>3, <2>2
    <3>2. ret[n].obj \in DOMAIN Values /\ Values[ret[n].obj].ty \in ArrayTypes
      BY <1>2, <1>3, <3>1 DEF ElementsInArrays, EvalInv, ReturnsRefs
    <3>. QED
      BY <1>1, <3>1, <3>2
  <2>. QED
    BY <2>1, <2>2
<1>. QED
  BY <1>1, <1>3 DEF ElementsInArrays, Kind

FoldInv ==
    /\ Folded
    /\ phase = "evaluate" => KnownHeld /\ ElementsInArrays

LEMMA FoldNext ==
    ASSUME StackInv, PhaseInv, DataInv, FoldInv, [Next]_vars
    PROVE  FoldInv'
<1>1. CASE Validate
  <2>1. CheckNext /\ CheckInv /\ phase' = "validate"
    BY <1>1 DEF Validate, PhaseInv, PhaseOK
  <2>. QED
    BY <2>1, FoldedKept DEF FoldInv
<1>2. CASE StartEvaluation
  <2>1. UNCHANGED <<prog, res, ret>> /\ ret = [n \in Node |-> Null] /\ Node' = Node
    BY <1>2 DEF StartEvaluation, checkVars, interpVars, DataInv, InterpInit, Node
  <2>2. Folded'
    BY <2>1 DEF FoldInv, Folded, FoldsTo, Kind, Kid, Kids, Op
  <2>3. KnownHeld' /\ ElementsInArrays'
    BY <2>1 DEF KnownHeld, ElementsInArrays
  <2>. QED
    BY <2>2, <2>3 DEF FoldInv
<1>3. CASE Evaluate
  <2>1. InterpNext /\ EvalInv /\ UNCHANGED res /\ KnownHeld /\ ElementsInArrays /\ Folded
    BY <1>3 DEF Evaluate, DataInv, FoldInv, checkVars
  <2>2. KnownHeld' /\ ElementsInArrays'
    BY <2>1, KnownKept, ElementsKept
  <2>3. prog' = prog /\ Node' = Node
    BY <2>1, OthersKeep
  <2>4. Folded'
    BY <2>1, <2>3 DEF Folded, FoldsTo, Kind, Kid, Kids, Op
  <2>. QED
    BY <2>2, <2>4 DEF FoldInv
<1>4. CASE Reject \/ Exit \/ Stopped \/ UNCHANGED vars
  <2>1. UNCHANGED <<prog, done, res, ret, Values, NameToValue, phase>>
    BY <1>4 DEF Reject, Exit, Stopped, Stop, vars, visitorVars, interpVars, checkVars
  <2>2. Folded'
    BY <2>1 DEF FoldInv, Folded, FoldsTo, Kind, Kid, Kids, Op, Node
  <2>3. KnownHeld => KnownHeld'
    BY <2>1 DEF KnownHeld, HoldsInt, OnStack, Node, getValue
  <2>4. ElementsInArrays => ElementsInArrays'
    BY <2>1 DEF ElementsInArrays, OnStack, Node, Kind
  <2>. QED
    BY <2>1, <2>2, <2>3, <2>4 DEF FoldInv
<1>. QED
  BY <1>1, <1>2, <1>3, <1>4 DEF Next

(***************************************************************************)
(* Whatever value the checker computed for an expression is the value the  *)
(* interpreter computes for it: in other passes of a loop, after any       *)
(* assignment, and whatever path of a short circuit was taken.             *)
(***************************************************************************)
THEOREM FoldingIsRight == Spec => []FoldedConstantsAgree
<1>1. Init => FoldInv
  BY DEF Init, CheckInit, FoldInv, Folded, NoResult, Result, IsKnown, Node
<1>2. StackInv /\ PhaseInv /\ DataInv /\ FoldInv /\ [Next]_vars => FoldInv'
  BY FoldNext
<1>3. FoldInv => FoldedConstantsAgree
  BY DEF FoldInv, FoldedConstantsAgree, Evaluating, KnownHeld, HoldsInt
<1>. QED
  BY <1>1, <1>2, <1>3, Invariants, PTL DEF Spec
=============================================================================

------------------------------ MODULE PCLValue ------------------------------
(***************************************************************************)
(* The values the interpreter creates and its ValueManager owns for good.  *)
(*                                                                         *)
(* The heap is a sequence of objects, an object's position its address.    *)
(*   ty      "int32", "array" (preset) or "repeat" (uniform)               *)
(*   shape   an array's sizes, outermost first; <<>> for an int            *)
(*   cells   the ints below it, in row-major order                         *)
(*   initer  the value a uniform array was built from, still referenced    *)
(*   alive   FALSE after destroy()                                         *)
(* A PCLValue* is a reference: [obj, cell], where cell 0 is the array      *)
(* itself and cell k > 0 the k-th int below it (an int's own is 1).        *)
(***************************************************************************)
EXTENDS Integers, Sequences

Null == [obj |-> 0, cell |-> 0]

ArrayTypes == {"array", "repeat"}
TypeNames  == ArrayTypes \cup {"int32"}

ArrayRef(o) == [obj |-> o, cell |-> 0]
IntRef(o)   == [obj |-> o, cell |-> 1]

IntegerVal(v) ==
    [ty |-> "int32", shape |-> <<>>, cells |-> <<v>>, initer |-> Null, alive |-> TRUE]

TypeOf(vals, r) == IF r.cell > 0 THEN "int32" ELSE vals[r.obj].ty
IsInt(vals, r)  == TypeOf(vals, r) = "int32"

getValue(vals, r)    == vals[r.obj].cells[r.cell]
setValue(vals, r, v) == [vals EXCEPT ![r.obj].cells[r.cell] = v]

\* The reference is into an array that was destroyed.
Dangling(vals, r) == r.cell > Len(vals[r.obj].cells)

Times(k, s) == [i \in 1..(k * Len(s)) |-> s[((i - 1) % Len(s)) + 1]]

\* The contents of a uniform array of size clones of c; none is made when size is 0.
Filled(size, c) ==
    IF size = 0 THEN [shape |-> <<0>>, cells |-> <<>>]
                ELSE [shape |-> <<size>> \o c.shape, cells |-> Times(size, c.cells)]

(***************************************************************************)
(* clone().  An int and a preset array copy what they hold now; a uniform  *)
(* array is built again from its initer, whatever was written to it since. *)
(* The initer of an array is older than the array.                         *)
(***************************************************************************)
CloneOf(vals, r) ==
    LET OfCell(c) == [shape |-> <<>>, cells |-> <<getValue(vals, c)>>]
        OfArray[o \in DOMAIN vals] ==
            IF vals[o].ty # "repeat"
            THEN [shape |-> vals[o].shape, cells |-> vals[o].cells]
            ELSE LET from == vals[o].initer
                 IN  Filled(vals[o].shape[1],
                            IF from.cell > 0 THEN OfCell(from) ELSE OfArray[from.obj])
    IN  IF r.cell > 0 THEN OfCell(r) ELSE OfArray[r.obj]

\* The constructor of a uniform array asks its initer for its type, and for a clone
\* of it when there is an element to fill: does that reach a destroyed element?
ConstructDangles(vals, r, size) ==
    LET Fill[o \in DOMAIN vals] ==
            /\ vals[o].ty = "repeat"
            /\ LET from == vals[o].initer
               IN  IF from.cell > 0 THEN Dangling(vals, from)
                                    ELSE vals[o].shape[1] > 0 /\ Fill[from.obj]
    IN  IF r.cell > 0 THEN Dangling(vals, r) ELSE size > 0 /\ Fill[r.obj]

\* UniformArrayVal(initer, size): size clones of the initer.
UniformArrayVal(vals, r, size) ==
    LET contents == Filled(size, CloneOf(vals, r))
    IN  [ ty |-> "repeat", shape |-> contents.shape, cells |-> contents.cells,
          initer |-> r, alive |-> TRUE ]

\* PresetArrayVal: the elements one after the other, an array contributing its own
\* (copy).  Arrays of several dimensions are not handled: see Rank1.
PresetArrayVal(vals, refs) ==
    LET Held[i \in 0..Len(refs)] ==
            IF i = 0 THEN <<>>
            ELSE Held[i - 1] \o (IF refs[i].cell > 0 THEN <<getValue(vals, refs[i])>>
                                                     ELSE vals[refs[i].obj].cells)
        cells == Held[Len(refs)]
    IN  [ ty |-> "array", shape |-> <<Len(cells)>>, cells |-> cells,
          initer |-> Null, alive |-> TRUE ]

Rank1(vals, r) == r.cell > 0 \/ Len(vals[r.obj].shape) = 1 \/ ~vals[r.obj].alive

\* Mutant: destroy() forgets the size.
DestroyedSized(o) == [o EXCEPT !.cells = <<>>, !.alive = FALSE]

\* ArrayBase::destroy
Destroyed(o) == [o EXCEPT !.shape = <<0>>, !.cells = <<>>, !.alive = FALSE]
=============================================================================

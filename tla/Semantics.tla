------------------------------ MODULE Semantics ------------------------------
(***************************************************************************)
(* What a ParaCL program means, by value: what it prints when it is given  *)
(* the ints of an input, and how that ends.  Values are ints and arrays,   *)
(* copied when they are assigned; operands are evaluated from left to      *)
(* right; a block starts without names of its own each time it is entered. *)
(* It is what README.md tells of the language, made exact; no part of the  *)
(* program is described.  A program that uses a name that has no value, an *)
(* index outside an array or an array in the place of an int, or that      *)
(* makes an array of a negative size or binds one otherwise than by        *)
(* creating it, has no meaning from there on.                              *)
(***************************************************************************)
EXTENDS Ast, SemanticContext, Int32, SequencesExt

Endings == {"ended", "waits", "fault", "undefined"}

\* Values: the sizes from outside, and the ints in row-major order.
Scalar(v)       == [shape |-> <<>>, cells |-> <<v>>]
Arr(sz, cs)  == [shape |-> sz, cells |-> cs]
IsScalar(v)  == v.shape = <<>>

NoValue == Arr(<<0>>, <<>>)

\* A state of an execution: what names stand for, the input left, the output, how the
\* execution ends if nothing more happens, and the value of what was evaluated last.
Start(ins) == [env |-> EmptyTable, ins |-> ins, out |-> <<>>, end |-> "ended", val |-> NoValue]

Goes(s)        == s.end = "ended"
Give(s, v)     == [s EXCEPT !.val = v]
Halt(s, end)   == [s EXCEPT !.end = end]
Undefined(s)   == Halt(s, "undefined")

\* The offset of the element that the first k indices lead to, among those of its size;
\* -1 when there is none.
Step(offset, size, index) ==
    IF offset < 0 \/ index \notin 0..(size - 1) THEN -1 ELSE offset * size + index

\* What op makes of two ints.
Combine(s, op, a, b) ==
    IF ~IsScalar(a) \/ ~IsScalar(b) THEN Undefined(s)
    ELSE IF op \notin {"+", "-", "*", "/", "%"}
    THEN Give(s, Scalar(LogicValue(op, a.cells[1], b.cells[1])))
    ELSE IF ArithFault(op, a.cells[1], b.cells[1]) # "none" THEN Halt(s, "fault")
    ELSE Give(s, Scalar(ArithValue(op, a.cells[1], b.cells[1])))

\* array(...): the elements one after the other.
Concatenation(s, vs) ==
    IF \E i \in DOMAIN vs : Len(vs[i].shape) > 1 THEN Undefined(s)
    ELSE LET cells == FlattenSeq([i \in DOMAIN vs |-> vs[i].cells])
         IN  Give(s, Arr(<<Len(cells)>>, cells))

\* repeat(v, size)
Repetition(s, v, size) ==
    IF ~IsScalar(size) \/ size.cells[1] < 0 THEN Undefined(s)
    ELSE Give(s, Arr(size.cells \o v.shape,
                     FlattenSeq([i \in 1..size.cells[1] |-> v.cells])))

Bound(p, n, s) == isDefined(s.env, p[n].name, p[n].scope)
KeyOf(p, n, s) == getDeclKeyFor(s.env, p[n].name, p[n].scope)

\* An int can be assigned again, an array only bound where it is created.
Assigned(p, n, s) ==
    LET old == s.env[KeyOf(p, n, s)]
        key == IF Bound(p, n, s) THEN KeyOf(p, n, s)
                                 ELSE SymTabKey(p[n].name, p[n].scope[1])
    IN  IF \/ ~IsScalar(s.val) /\ (Bound(p, n, s) \/ p[p[n].kids[1]].kind # "holder")
           \/ Bound(p, n, s) /\ ~IsScalar(old)
        THEN Undefined(s)
        ELSE [s EXCEPT !.env = Emplace(@, key, s.val)]

Enter(block, s) ==
    [s EXCEPT !.env = [k \in { k \in DOMAIN @ : k[2] # block } |-> @[k]]]

RECURSIVE Eval(_, _, _), EvalAll(_, _, _), Offset(_, _, _), Loop(_, _, _)

\* The state after the nodes of ns, with their values.
EvalAll(p, ns, s) ==
    IF ns = <<>> THEN [s |-> s, vs |-> <<>>]
    ELSE LET first == Eval(p, Head(ns), s)
             rest  == EvalAll(p, Tail(ns), first)
         IN  [s |-> rest.s, vs |-> <<first.val>> \o rest.vs]

\* The indices of access n, one after the other, each checked as it is known.
Offset(p, n, s) ==
    LET size(st) == st.env[KeyOf(p, n, st)].shape
        Reached[k \in 0..Len(p[n].kids)] ==
            IF k = 0 THEN [s |-> s, at |-> 0]
            ELSE LET before == Reached[k - 1]
                     index  == Eval(p, p[n].kids[k], before.s)
                 IN  IF ~Goes(index) THEN [s |-> index, at |-> -1]
                     ELSE LET at == IF IsScalar(index.val)
                                    THEN Step(before.at, size(index)[k], index.val.cells[1])
                                    ELSE -1
                          IN  [s |-> IF at < 0 THEN Undefined(index) ELSE index, at |-> at]
    IN  IF ~Bound(p, n, s) THEN [s |-> Undefined(s), at |-> -1]
        ELSE IF Len(size(s)) # Len(p[n].kids) THEN [s |-> Undefined(s), at |-> -1]
        ELSE Reached[Len(p[n].kids)]

Loop(p, n, s) ==
    LET cond == Eval(p, p[n].kids[1], s)
    IN  IF ~Goes(cond) THEN cond
        ELSE IF ~IsScalar(cond.val) THEN Undefined(cond)
        ELSE IF cond.val.cells[1] = 0 THEN cond
        ELSE Loop(p, n, Eval(p, p[n].kids[2], cond))

Eval(p, n, s) ==
    LET kid(i) == p[n].kids[i]
        all    == EvalAll(p, p[n].kids, s)
        one    == Eval(p, kid(1), s)
        kind   == p[n].kind
    IN
    IF ~Goes(s) THEN s
    ELSE CASE kind = "number" -> Give(s, Scalar(p[n].val))
      [] kind = "read" ->
           IF s.ins = <<>> THEN Halt(s, "waits")
           ELSE [Give(s, Scalar(Head(s.ins))) EXCEPT !.ins = Tail(@)]
      [] kind = "variable" ->
           IF Bound(p, n, s) THEN Give(s, s.env[KeyOf(p, n, s)]) ELSE Undefined(s)
      [] kind \in {"root", "block"} -> EvalAll(p, p[n].kids, Enter(n, s)).s
      [] kind = "while" -> Loop(p, n, s)
      [] kind \in {"calc", "logic", "preset", "uniform"} /\ p[n].op \notin {"&&", "||"} ->
           IF ~Goes(all.s) THEN all.s
           ELSE IF kind = "preset" THEN Concatenation(all.s, all.vs)
           ELSE IF kind = "uniform" THEN Repetition(all.s, all.vs[1], all.vs[2])
           ELSE Combine(all.s, p[n].op, all.vs[1], all.vs[2])
      [] kind \in {"access", "accessAssign"} ->
           LET target == Offset(p, IF kind = "access" THEN n ELSE kid(1), s)
               key    == KeyOf(p, IF kind = "access" THEN n ELSE kid(1), s)
           IN  IF ~Goes(target.s) THEN target.s
               ELSE IF kind = "access"
               THEN Give(target.s, Scalar(target.s.env[key].cells[target.at + 1]))
               ELSE LET v == Eval(p, kid(2), target.s)
                    IN  IF ~Goes(v) THEN v
                        ELSE IF ~IsScalar(v.val) THEN Undefined(v)
                        ELSE [v EXCEPT !.env[key].cells[target.at + 1] = v.val.cells[1]]
      [] OTHER ->      \* these look at their first operand at once
           IF ~Goes(one) THEN one
           ELSE CASE kind = "print" -> [one EXCEPT !.out = @ \o one.val.cells]
             [] kind = "holder" -> one
             [] kind = "assign" -> Assigned(p, n, one)
             [] ~IsScalar(one.val) -> Undefined(one)
             [] kind = "un" -> Give(one, Scalar(UnaryValue(p[n].op, one.val.cells[1])))
             [] kind = "if" ->
                  IF one.val.cells[1] # 0 THEN Eval(p, kid(2), one)
                  ELSE IF Len(p[n].kids) = 3 THEN Eval(p, kid(3), one) ELSE one
             [] kind = "logic" ->      \* the left operand of && and || may decide
                  IF (one.val.cells[1] = 0) = (p[n].op = "&&")
                  THEN Give(one, Scalar(Truth(p[n].op = "||")))
                  ELSE LET rhs == Eval(p, kid(2), one)
                       IN  IF ~Goes(rhs) THEN rhs
                           ELSE Combine(rhs, p[n].op, one.val, rhs.val)

\* What p prints when ins is all it is given, and how it ends: it may wait for more.
Meaning(p, ins) == Eval(p, 1, Start(ins))
=============================================================================

----------------------------- MODULE AstBuilder -----------------------------
(***************************************************************************)
(* Programs written as terms, and the tree the parser's semantic actions   *)
(* build from a term: nodes numbered in preorder, every node given the     *)
(* blocks open around it (the blocks stack) as its scope.                  *)
(***************************************************************************)
EXTENDS Integers, Sequences

Term(kind, name, op, val, kids) ==
    [kind |-> kind, name |-> name, op |-> op, val |-> val, kids |-> kids]

RECURSIVE Build(_, _, _, _), BuildAll(_, _, _, _)

\* The nodes of term t, the first numbered id, inside the blocks of scope.
Build(t, parent, scope, id) ==
    LET inner == IF t.kind \in {"root", "block"} THEN <<id>> \o scope ELSE scope
        below == BuildAll(t.kids, id, inner, id + 1)
    IN  << [ kind |-> t.kind, kids |-> below.ids, parent |-> parent, scope |-> scope,
             name |-> t.name, op |-> t.op, val |-> t.val ] >> \o below.nodes

BuildAll(ts, parent, scope, next) ==
    IF ts = <<>> THEN [nodes |-> <<>>, ids |-> <<>>]
    ELSE LET first == Build(Head(ts), parent, scope, next)
             rest  == BuildAll(Tail(ts), parent, scope, next + Len(first))
         IN  [nodes |-> first \o rest.nodes, ids |-> <<next>> \o rest.ids]

Tree(statements) == Build(Term("root", "", "", 0, statements), 0, <<>>, 1)

-----------------------------------------------------------------------------
(***************************************************************************)
(* The productions of the grammar.                                         *)
(***************************************************************************)
Num(v)        == Term("number", "", "", v, <<>>)
Scan          == Term("read", "", "", 0, <<>>)
Var(x)        == Term("variable", x, "", 0, <<>>)
Un(op, e)     == Term("un", "", op, 0, <<e>>)
Calc(op, l, r)  == Term("calc", "", op, 0, <<l, r>>)
Logic(op, l, r) == Term("logic", "", op, 0, <<l, r>>)
Show(e)       == Term("print", "", "", 0, <<e>>)
Set(x, e)     == Term("assign", x, "", 0, <<e, Var(x)>>)

Uniform(e, size) == Term("uniform", "", "", 0, <<e, size>>)
Preset(elems)    == Term("preset", "", "", 0, elems)
Array(a)         == Term("holder", "", "", 0, <<a>>)
Elem(x, ranks)   == Term("access", x, "", 0, ranks)
SetElem(x, ranks, e) == Term("accessAssign", x, "", 0, <<Elem(x, ranks), e>>)

Block(ss)        == Term("block", "", "", 0, ss)
If(c, s)         == Term("if", "", "", 0, <<c, s>>)
IfElse(c, s, t)  == Term("if", "", "", 0, <<c, s, t>>)
While(c, s)      == Term("while", "", "", 0, <<c, s>>)
=============================================================================

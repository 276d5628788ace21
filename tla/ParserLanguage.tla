--------------------------- MODULE ParserLanguage ---------------------------
(***************************************************************************)
(* The parser reads programs as they are written.                          *)
(***************************************************************************)
EXTENDS ParserProperties, ConcreteSyntax

ScopedKinds == {"variable", "assign", "access", "accessAssign", "holder", "uniform", "preset"}

\* In the finished tree, are node n and what is below it in the scope of block?
RECURSIVE InScope(_, _)
InScope(n, block) ==
    LET node == nodes[n]
        isBlock == node.kind \in {"root", "block"}
    IN  /\ node.kind \in ScopedKinds \/ (isBlock /\ node.kids # <<>>) => node.parent = block
        /\ \A i \in DOMAIN node.kids : InScope(node.kids[i], IF isBlock THEN n ELSE block)

\* Every name, assignment, array and block of an accepted program has the innermost block
\* around it for its parent.
ScopesAsWritten == Accepted => InScope(root, 0)

-----------------------------------------------------------------------------
RECURSIVE TermOf(_)
TermOf(n) ==
    LET node == nodes[n]
    IN  Term(node.kind, node.name, node.op, node.val, [i \in DOMAIN node.kids |-> TermOf(node.kids[i])])

\* The left operand of an && is an ||: so reads a || b && c, for the two are of one level.
RECURSIVE OrInAnd(_)
OrInAnd(t) ==
    \/ t.kind = "logic" /\ t.op = "&&" /\ t.kids[1].kind = "logic" /\ t.kids[1].op = "||"
    \/ \E i \in DOMAIN t.kids : OrInAnd(t.kids[i])

\* A program written with the precedences of C is accepted, and what is parsed is what
\* was written: operators group as in C, an else belongs to the nearest if, indices and
\* elements keep their order.  a || b && c is excused.
ReadsAsWritten ==
    ~Parsing /\ text # <<>> /\ Last(text) = EOF =>
        Accepted /\ (Text(TermOf(root)) = text \/ OrInAnd(TermOf(root)))
=============================================================================

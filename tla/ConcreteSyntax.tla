--------------------------- MODULE ConcreteSyntax ---------------------------
(***************************************************************************)
(* Programs as they are written: the tokens of a term with the precedences *)
(* and the associativity of C, which the README promises for conditions,   *)
(* and with brackets only where the operators need them.  Two programs     *)
(* that differ are written differently.                                    *)
(***************************************************************************)
EXTENDS AstBuilder, Tokens, SequencesExt

\* From the loosest operators to the tightest.
Tightness == << {"||"}, {"&&"}, {"==", "!="}, {"<", "<=", ">", ">="}, {"+", "-"}, {"*", "/", "%"} >>

Unary   == Len(Tightness) + 1
Primary == Unary + 1

\* How tightly the parts of e hold together.
Level(e) ==
    CASE e.kind \in {"calc", "logic"} -> CHOOSE l \in DOMAIN Tightness : e.op \in Tightness[l]
      [] e.kind = "un" -> Unary
      [] e.kind \in {"assign", "accessAssign", "print"} -> 0
      [] OTHER -> Primary

\* A statement that ends in an if without an else would take one that follows it.
RECURSIVE OpenIf(_)
OpenIf(t) == \/ t.kind = "if" /\ (Len(t.kids) = 2 \/ OpenIf(t.kids[3]))
             \/ t.kind = "while" /\ OpenIf(t.kids[2])

Joined(texts, sep) ==
    FlattenSeq([i \in DOMAIN texts |-> IF i = 1 THEN texts[i] ELSE <<Token(sep)>> \o texts[i]])

Between(open, text, close) == <<Token(open)>> \o text \o <<Token(close)>>

RECURSIVE Text(_), Operand(_, _), StatementText(_)

\* The tokens of an operand that must hold together as tightly as level.
Operand(e, level) == IF Level(e) < level THEN Between("(", Text(e), ")") ELSE Text(e)

StatementText(t) ==
    CASE t.kind = "block" ->
             Between("{", FlattenSeq([i \in DOMAIN t.kids |-> StatementText(t.kids[i])]), "}")
      [] t.kind \in {"if", "while"} ->
             <<Token(t.kind)>> \o Between("(", Text(t.kids[1]), ")")
                \o (IF Len(t.kids) = 3 /\ OpenIf(t.kids[2])
                    THEN <<Token("no such text")>> ELSE StatementText(t.kids[2]))
                \o (IF Len(t.kids) = 3 THEN <<Token("else")>> \o StatementText(t.kids[3]) ELSE <<>>)
      [] OTHER -> Text(t) \o <<Token(";")>>

Text(e) ==
    LET kid(i) == Text(e.kids[i])
        all    == [i \in DOMAIN e.kids |-> Text(e.kids[i])]
    IN  CASE e.kind = "root" ->
                 FlattenSeq([i \in DOMAIN e.kids |-> StatementText(e.kids[i])]) \o <<EOF>>
          [] e.kind = "number"   -> <<NUMBER(e.val)>>
          [] e.kind = "read"     -> <<Token("?")>>
          [] e.kind = "variable" -> <<VAR(e.name)>>
          [] e.kind = "un"       -> <<Token(e.op)>> \o Operand(e.kids[1], Primary)
          [] e.kind \in {"calc", "logic"} ->
                 Operand(e.kids[1], Level(e)) \o <<Token(e.op)>> \o Operand(e.kids[2], Level(e) + 1)
          [] e.kind = "assign"   -> <<VAR(e.name), Token("=")>> \o kid(1)
          [] e.kind = "accessAssign" -> kid(1) \o <<Token("=")>> \o kid(2)
          [] e.kind = "print"    -> <<Token("print")>> \o kid(1)
          [] e.kind = "access"   ->
                 <<VAR(e.name)>> \o FlattenSeq([i \in DOMAIN all |-> Between("[", all[i], "]")])
          [] e.kind = "holder"   -> kid(1)
          [] e.kind = "uniform"  -> <<Token("repeat")>> \o Between("(", Joined(all, ","), ")")
          [] e.kind = "preset"   -> <<Token("ARRAY")>> \o Between("(", Joined(all, ","), ")")
=============================================================================

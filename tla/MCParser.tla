------------------------------ MODULE MCParser ------------------------------
(***************************************************************************)
(* Instances of Parser: whole programs, written as terms, and beginnings   *)
(* that any tokens may follow.                                             *)
(***************************************************************************)
EXTENDS ParserLanguage, MCPrograms

\* No token leaves a choice between two reductions.
ASSUME OneHandle ==
    \A n \in DOMAIN Automaton : Cardinality(Automaton[n].whole) <= 1

-----------------------------------------------------------------------------
\* Every operator as an operand of every other, on either side.
Bin(op, l, r) == IF op \in CalcOps THEN Calc(op, l, r) ELSE Logic(op, l, r)

BinOps == UNION Range(Tightness)

Nested ==
    { Bin(op, Bin(in, Var("x"), Num(1)), Scan) : op \in BinOps, in \in BinOps }
    \cup { Bin(op, Scan, Bin(in, Var("x"), Num(1))) : op \in BinOps, in \in BinOps }
    \cup { Bin(op, Un(in, Var("x")), Un(in, Bin(op, Scan, Num(1)))) :
               op \in BinOps, in \in {"+", "-", "!"} }
    \cup { Un(op, Un(in, Elem("A", <<Scan>>))) : op \in {"+", "-"}, in \in {"-", "!"} }
    \cup { Bin(op, Set("x", Scan), Show(Num(1))) : op \in BinOps }
    \cup { Set("x", SetElem("A", <<Num(0)>>, Bin(op, Show(Num(1)), Set("y", Scan)))) : op \in BinOps }

\* ifs and whiles as bodies of each other, some of them in blocks.
Inner == { Show(Num(1)), Block(<<Set("x", Scan)>>), Block(<<>>),
           If(Scan, Set("y", Num(2))), IfElse(Scan, Block(<<Show(Var("z"))>>), Show(Num(3))) }

Bodies == Inner \cup { While(Scan, s) : s \in Inner } \cup { Block(<<s>>) : s \in Inner }

Control ==
    { If(Scan, s) : s \in Bodies } \cup { While(Scan, s) : s \in Bodies }
    \cup { IfElse(Scan, s, t) : s \in { s \in Bodies : ~OpenIf(s) }, t \in Bodies }

\* Indices and elements that have indices and elements of their own.
Lists ==
    { Elem("A", <<Num(0)>>), Elem("A", <<Elem("B", <<Num(1), Num(2)>>), Scan>>),
      Elem("A", <<Num(0), Elem("B", <<Scan, Var("x")>>), Elem("C", <<Num(1), Num(2)>>)>>) }

Arrays ==
    { Preset(<<>>), Preset(<<Num(1), Preset(<<Num(2), Scan>>), Num(3)>>),
      Uniform(Preset(<<Num(1), Uniform(Num(2), Num(3))>>), Scan) }
    \cup { Preset(<<Num(1), e, Uniform(e, e)>>) : e \in Lists }
    \cup { Preset(<<Show(Array(Preset(<<Num(1), Num(2)>>))), Num(3)>>),
           Preset(<<Num(1), Set("B", Array(Uniform(Num(2), Num(3)))), Num(4)>>) }

ArrayUses ==
    { Set("A", Array(a)) : a \in Arrays } \cup { Show(Array(a)) : a \in Arrays }
    \cup { SetElem("A", <<e, Num(1)>>, e) : e \in Lists }

WholeTexts ==
    { Text(Term("root", "", "", 0, ss)) :
          ss \in { <<Show(e)>> : e \in Nested } \cup { <<s, Show(Var("x"))>> : s \in Control \cup ArrayUses }
                 \cup Sequences1to(2, ScopeStatements) \cup Sequences1to(2, ArrayStatements) }

-----------------------------------------------------------------------------
Beginnings ==
    { <<>>,
      <<Token("{"), VAR("x"), Token("=")>>,
      <<Token("if"), Token("("), Token("?"), Token(")")>>,
      <<Token("while"), Token("("), NUMBER(1), Token(")"), Token("{")>>,
      <<Token("if"), Token("("), Token("?"), Token(")"), Token("{"), Token("}")>>,
      <<VAR("A"), Token("["), VAR("B"), Token("["), VAR("x"), Token("]")>>,
      <<Token("print"), Token("ARRAY"), Token("("), NUMBER(1), Token(","), Token("ARRAY"), Token("(")>>,
      <<VAR("A"), Token("="), Token("repeat"), Token("("), Token("undef"), Token(",")>> }

AnyTokens ==
    {VAR("x"), NUMBER(1)}
    \cup { Token(sym) : sym \in {"=", "-", "||", ";", ",", "else", "undef", "(", ")", "{", "}", "[", "]", "repeat"} }

AllTexts == WholeTexts \cup Beginnings

ARandomInt == {5}
=============================================================================

----------------------------- MODULE MCPrograms -----------------------------
(***************************************************************************)
(* The vocabularies the instances of Paracl and Compiler draw from: every  *)
(* sequence of a few statements of one of them is a program.               *)
(***************************************************************************)
EXTENDS AstBuilder

Sequences1to(n, S) == UNION { [1..k -> S] : k \in 1..n }

TreesOf(stmtSeqs) == { Tree(ss) : ss \in stmtSeqs }

Repeat(e, n) == Array(Uniform(e, n))

\* Scopes: ints, nested blocks, conditional definitions, loops.
ScopeStatements ==
    { Set("x", Num(1)),
      Set("x", Calc("+", Var("x"), Num(1))),
      Set("y", Set("x", Scan)),
      Block(<<Set("x", Num(2)), Set("y", Var("x"))>>),
      If(Scan, Set("x", Num(3))),
      IfElse(Scan, Block(<<Set("x", Num(4))>>), Block(<<Show(Var("x")), Set("y", Num(1))>>)),
      Show(Logic("&&", Scan, Set("y", Num(5)))),
      While(Scan, Block(<<If(Scan, Block(<<Set("x", Num(6)), Show(Var("x"))>>)),
                          Set("x", Num(7))>>)),
      While(Scan, Set("x", Var("y"))),
      Show(Calc("+", Var("x"), Set("x", Var("y")))) }

\* Arrays: both kinds, of one and two dimensions, in blocks and in loops, defined
\* conditionally, written, repeated, concatenated, out of bounds.
ArrayStatements ==
    { Set("A", Repeat(Num(0), Num(2))),
      Set("A", Array(Preset(<<Num(1), Scan, Uniform(Num(5), Num(0))>>))),
      Block(<< Set("A", Array(Preset(<<Num(1), Num(2)>>))), Set("B", Repeat(Var("A"), Num(2))),
               SetElem("B", <<Num(1), Scan>>, Num(3)), Show(Var("B")) >>),
      SetElem("A", <<Num(1)>>, Scan),
      SetElem("A", <<Scan>>, Elem("A", <<Num(2)>>)),
      Set("B", Repeat(Var("A"), Scan)),
      Show(Elem("B", <<Num(1), Num(0)>>)),
      Show(Array(Preset(<<Var("A"), Num(4)>>))),
      While(Scan, Block(<< Set("C", Array(Preset(<<Scan>>))), Show(Elem("C", <<Num(0)>>)) >>)),
      While(Scan, Show(Repeat(Elem("A", <<Num(0)>>), Num(1)))),
      Set("B", Var("A")),
      If(Scan, Set("A", Array(Preset(<<Num(3)>>)))),
      IfElse(Scan, Show(Var("A")), Set("B", Var("A"))),
      Set("x", Repeat(Elem("A", <<Num(0), Num(0)>>), Num(1))) }

\* Loops that count or that read.
LoopStatements ==
    { Set("i", Scan),
      While(Logic("<", Var("i"), Num(2)), Set("i", Calc("+", Var("i"), Num(1)))),
      While(Var("i"), Block(<<Set("i", Calc("-", Var("i"), Num(1))), Show(Var("i"))>>)),
      While(Set("i", Scan), IfElse(Var("i"), Show(Scan), Block(<<>>))),
      While(Scan, While(Scan, Show(Repeat(Scan, Num(2))))),
      While(Scan, If(Var("i"), Block(<<>>))) }

LoopPrograms == TreesOf({ <<Set("i", Num(0))>> \o ss : ss \in Sequences1to(3, LoopStatements) })

LoopInputs == {-1, 0, 2}
=============================================================================

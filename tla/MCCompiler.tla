----------------------------- MODULE MCCompiler -----------------------------
(***************************************************************************)
(* Instances of Compiler.                                                  *)
(***************************************************************************)
EXTENDS CompilerRefinement, MCPrograms

-----------------------------------------------------------------------------
(***************************************************************************)
(* Ints: bits and ints in each other's place, operands that branch, folded *)
(* and computed divisions, poison where it can go, overflow, skipped       *)
(* definitions, else branches.                                             *)
(***************************************************************************)
\* 1 / (z = 0)
NoQuotient == Calc("/", Num(1), Set("z", Num(0)))

CompiledStatements ==
    ScopeStatements \cup
    { Set("x", Logic("<", Scan, Num(2))),
      Set("x", Scan),
      Show(Var("x")),
      Show(Un("!", Var("x"))),
      Show(Un("-", Un("!", Var("x")))),
      Show(Un("!", Logic("<", Scan, Num(2)))),
      Show(Un("!", Logic("<", Num(1), NoQuotient))),
      Show(Calc("+", Scan, Set("y", Num(1)))),
      Show(Logic("||", Scan, Logic("&&", Scan, Scan))),
      Show(Logic("&&", Logic("||", Scan, Scan), Set("x", Scan))),
      Show(Logic("&&", Scan, Calc("/", Num(1), Scan))),
      Show(NoQuotient),
      Set("x", Calc("+", NoQuotient, Num(1))),
      If(Un("!", NoQuotient), Show(Num(3))),
      Show(Logic("&&", Scan, Calc("*", Scan, NoQuotient))),
      If(Scan, Show(Calc("%", Num(1), Set("z", Num(0))))),
      IfElse(Scan, Block(<<>>), Show(Var("x"))),
      IfElse(Scan, Block(<<>>), Set("x", Num(1))),
      IfElse(Scan, Block(<<>>), Show(Calc("/", Num(1), Num(0)))),
      Block(<< Set("z", Num(2)), IfElse(Scan, Block(<<>>), Set("z", Repeat(Num(0), Num(2)))),
               Show(Var("z")) >>),
      IfElse(Scan, Block(<<>>), Block(<<Set("z", Num(1)), Show(Var("z"))>>)),
      Show(Calc("*", Num(8), Scan)),
      Show(Calc("-", Var("x"), Set("x", Num(5)))) }

-----------------------------------------------------------------------------
(***************************************************************************)
(* Arrays: on the stack and on the heap, with sizes and elements that are  *)
(* constants and that are not, made from others, one while another is      *)
(* described, in branches and in loops.                                    *)
(***************************************************************************)
CompiledArrayStatements ==
    ArrayStatements \cup
    { Set("A", Repeat(Scan, Num(2))),
      Block(<<Set("B", Repeat(Scan, Scan)), Show(Var("B"))>>),
      Set("A", Repeat(Preset(<<Num(1), Scan>>), Scan)),
      Set("A", Repeat(Uniform(Scan, Num(2)), Scan)),
      Set("A", Repeat(Uniform(Num(1), Scan), Num(2))),
      Set("B", Repeat(Var("A"), Num(2))),
      Show(Var("A")),
      Show(Elem("A", <<Scan, Num(0)>>)),
      Block(<< Set("C", Array(Preset(<<Num(1), Scan>>))), SetElem("C", <<Num(0)>>, Num(2)),
               Show(Array(Preset(<<Var("C")>>))) >>),
      Block(<< Set("C", Repeat(Uniform(Scan, Num(1)), Num(3))), SetElem("C", <<Num(2), Num(0)>>, Num(4)),
               Show(Var("C")) >>),
      Block(<< Set("C", Repeat(Num(5), Num(1))), SetElem("C", <<Num(0)>>, Logic("<", Scan, Num(2))),
               Show(Var("C")) >>),
      Block(<< Set("A", Array(Preset(<<Num(1), Set("C", Array(Preset(<<Num(2)>>)))>>))),
               Show(Var("C")) >>),
      While(Scan, Block(<<Set("C", Repeat(Elem("A", <<Num(0)>>), Scan)), Show(Var("C"))>>)),
      While(Scan, Block(<< Set("C", Array(Preset(<<Scan>>))), Set("D", Repeat(Var("C"), Num(2))),
                           Show(Var("D")) >>)),
      While(Scan, Show(Repeat(Scan, Scan))),
      If(Scan, Show(Array(Preset(<<Num(1), Scan>>)))),
      If(Scan, Show(Repeat(Num(1), Scan))),
      Show(Repeat(Num(1), Logic("<", Scan, Num(2)))),
      Show(Elem("A", <<Logic("<", Scan, Num(2))>>)),
      Show(Elem("A", <<Logic("<", Num(0), Num(2))>>)),
      Show(Array(Preset(<<Num(4), Logic("<", Scan, Num(2))>>))),
      Show(Array(Preset(<<Num(3), Uniform(Num(4), Logic("&&", Num(1), Num(1)))>>))),
      Show(Array(Preset(<<Num(3), Uniform(Num(4), Calc("+", Num(1), Logic("&&", Num(1), Num(1))))>>))),
      Show(Logic("&&", Scan, Elem("A", <<Num(0)>>))),
      Show(Repeat(Num(1), Un("-", Num(1)))),
      Show(Repeat(Num(1), NoQuotient)),
      Set("A", Array(Preset(<<NoQuotient, Scan>>))),
      If(Scan, Show(Repeat(Num(1), Logic("&&", Num(1), Num(1))))),
      IfElse(Scan, Block(<<>>), Show(Array(Preset(<<Num(1), Uniform(Num(2), Num(0))>>)))),
      IfElse(Scan, Block(<<>>), Show(Repeat(Num(1), Un("-", Num(1))))),
      IfElse(Scan, Block(<<>>), Show(Repeat(Num(1), Scan))),
      IfElse(Scan, Block(<<>>), Show(Calc("+", Num(1), Show(Repeat(Num(0), Num(2)))))) }

CompiledPrograms ==
    TreesOf(Sequences1to(2, CompiledStatements) \cup Sequences1to(2, CompiledArrayStatements))

CompiledLoopPrograms ==
    TreesOf({ <<Set("i", Num(0))>> \o ss : ss \in Sequences1to(2, LoopStatements) })

-----------------------------------------------------------------------------
(***************************************************************************)
(* The programs of the runs that find a disagreement.                      *)
(***************************************************************************)
\* print ? || (? && ?);
NestedLogicPrograms == TreesOf({ <<Show(Logic("||", Scan, Logic("&&", Scan, Scan)))>> })

\* x = ? < 1; print x;
StoredBitPrograms == TreesOf({ <<Set("x", Logic("<", Scan, Num(1))), Show(Var("x"))>> })

\* print 1 / (z = 0);
FoldedDivisionPrograms == TreesOf({ <<Show(NoQuotient)>> })

=============================================================================

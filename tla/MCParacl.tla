------------------------------ MODULE MCParacl ------------------------------
(***************************************************************************)
(* Instances of Paracl: every sequence of a few statements drawn from a    *)
(* small vocabulary, and every short input.                                *)
(***************************************************************************)
EXTENDS ParaclRefinement, MCPrograms

-----------------------------------------------------------------------------
(***************************************************************************)
(* Several passes of a loop over arrays: one made before the loop, some    *)
(* that a pass may or may not make, arrays of their elements that an       *)
(* earlier pass left bound, and a block that makes one of its own.         *)
(***************************************************************************)
PassStatements ==
    { If(Scan, Set("D", Array(Preset(<<Num(1)>>)))),
      If(Scan, Set("E", Repeat(Elem("D", <<Num(0)>>), Num(1)))),
      If(Scan, Set("E", Repeat(Var("D"), Num(1)))),
      Show(Repeat(Var("E"), Num(1))),
      Show(Array(Preset(<<Elem("A", <<Num(1)>>)>>))),
      Block(<<Set("F", Repeat(Var("A"), Num(2))), Show(Elem("F", <<Num(1), Num(0)>>))>>) }

PassPrograms ==
    { Tree(<<Set("A", Repeat(Num(3), Num(2))), While(Scan, Block(ss))>>) :
          ss \in [1..3 -> PassStatements] }

\* A name that is an array or an int by the path taken is given to another name
\* in a block that a loop comes back to.
DriftPrograms ==
    { Tree(<<While(Scan, Block(<< IfElse(Scan, Block(<<>>), Set("A", Repeat(Num(0), Num(2)))),
                                 If(Num(0), Set("A", Num(5))),
                                 If(Scan, Block(<<Set("B", Var("A")), Show(Var("B"))>>)) >>))>>) }

RepeatedPrograms == PassPrograms \cup LoopPrograms \cup DriftPrograms

RepeatedInputs == {-1, 0}

-----------------------------------------------------------------------------
(***************************************************************************)
(* Expressions: every operator over literals, signs and ints read at the   *)
(* edges of the width, and what && and || skip.                            *)
(***************************************************************************)
Operand == {Num(0), Num(1), Num(7), Scan}
Signed  == Operand \cup { Un(op, e) : op \in {"+", "-", "!"}, e \in Operand }

CalcOps  == {"+", "-", "*", "/", "%"}
LogicOps == {"<", "<=", ">", ">=", "==", "!=", "&&", "||"}

Expressions ==
    { Calc(op, l, r) : op \in CalcOps, l \in Signed, r \in Signed }
    \cup { Logic(op, l, r) : op \in LogicOps, l \in Signed, r \in Signed }
    \cup { Logic(op, l, Calc("/", Scan, r)) : op \in {"&&", "||"}, l \in Operand, r \in Signed }
    \cup { Calc("-", Set("x", l), Set("x", Calc(op, Var("x"), r))) :
               op \in CalcOps, l \in Operand, r \in Operand }

ExpressionPrograms == { Tree(<<Show(e)>>) : e \in Expressions }

EdgeInputs == {MinInt, -1, 0, 2}

-----------------------------------------------------------------------------
(***************************************************************************)
(* The checker: operands of the wrong type, undeclared names, arrays whose *)
(* element type is not known, indices and sizes of the wrong type.         *)
(***************************************************************************)
Operands1 == {Num(1), Var("A"), Var("z"), SetElem("A", <<Num(0)>>, Num(1))}

CheckerStatements ==
    { Show(Calc("+", l, r)) : l \in Operands1, r \in Operands1 }
    \cup { Show(Logic("&&", l, r)) : l \in Operands1, r \in Operands1 }
    \cup { Show(Un("-", e)) : e \in Operands1 }
    \cup { Show(Repeat(l, r)) : l \in Operands1, r \in Operands1 }
    \cup { Show(Array(Preset(<<l, r>>))) : l \in Operands1, r \in Operands1 }
    \cup { Show(Array(Preset(<<Num(1), Uniform(e, Num(1)), Calc("/", Num(1), Num(0))>>)))
               : e \in Operands1 }
    \cup { Set("A", e) : e \in Operands1 } \cup { Set("x", e) : e \in Operands1 }
    \cup { Show(Elem("A", <<e>>)) : e \in Operands1 }
    \cup { Show(Elem("A", <<e, Num(0)>>)) : e \in Operands1 }
    \cup { SetElem("A", <<Num(0)>>, e) : e \in Operands1 } \cup { SetElem("z", <<Num(0)>>, Num(1)) }
    \cup { If(e, Show(e)) : e \in Operands1 } \cup { While(e, Show(Scan)) : e \in {Var("A"), Var("z")} }

CheckedArrays ==
    { Set("A", Num(1)), Set("A", Repeat(Num(0), Num(2))), Set("A", Repeat(Var("z"), Num(1))),
      Set("A", Repeat(Uniform(Num(0), Num(1)), Num(2))),
      Set("A", Repeat(Uniform(Var("z"), Num(1)), Num(1))),
      Set("A", Array(Preset(<<Num(1), Uniform(Num(2), Num(1))>>))) }

CheckerPrograms ==
    TreesOf( { <<a, Set("x", Num(0)), s>> : a \in CheckedArrays, s \in CheckerStatements }
             \cup { << Set("B", Repeat(Num(0), Num(2))),
                        Set("A", Repeat(Uniform(SetElem("B", <<Num(0)>>, Num(1)), Num(1)), Num(1))),
                        Show(Elem("A", <<Num(0), Num(0)>>)) >>,
                     << IfElse(Scan, Block(<<>>),
                               Show(Calc("+", Num(1), Show(Repeat(Num(0), Num(2)))))) >> } )

-----------------------------------------------------------------------------
\* Scopes, arrays and short loops, operands that a later one writes, and the above.
InterpreterPrograms ==
    ExpressionPrograms \cup CheckerPrograms \cup
    TreesOf( Sequences1to(3, ScopeStatements) \cup Sequences1to(3, ArrayStatements)
             \cup { <<Set("i", Num(0))>> \o ss : ss \in Sequences1to(2, LoopStatements) }
             \cup { <<Set("x", Scan), Show(Array(Preset(<<Var("x"), Set("x", Num(1))>>)))>>,
                     <<Set("x", Scan), Show(Logic("<", Un("+", Var("x")), Set("x", Num(1))))>> } )

-----------------------------------------------------------------------------
(***************************************************************************)
(* The programs of the runs that find a disagreement.                      *)
(***************************************************************************)
\* if (?) { } else print z;
ElsePrograms == TreesOf({ <<IfElse(Scan, Block(<<>>), Show(Var("z")))>> })

\* while (?) { A = repeat(?, 2); print A; }
LoopArrayPrograms ==
    TreesOf({ <<While(Scan, Block(<<Set("A", Repeat(Scan, Num(2))), Show(Var("A"))>>))>> })

\* A = k(0, 0); A[1] = ?; B = repeat(A, 2); print B;  with A of either kind.
RepeatPrograms ==
    TreesOf({ <<a, SetElem("A", <<Num(1)>>, Scan), Set("B", Repeat(Var("A"), Num(2))), Show(Var("B"))>>
                : a \in { Set("A", Repeat(Num(0), Num(2))),
                          Set("A", Array(Preset(<<Num(0), Num(0)>>))) } })

\* A = repeat(0, 2); print array(repeat(A[0] = 1, 2));
ElementPrograms ==
    TreesOf({ << Set("A", Repeat(Num(0), Num(2))),
                 Show(Array(Preset(<<Uniform(SetElem("A", <<Num(0)>>, Num(1)), Num(2))>>))) >> })
=============================================================================

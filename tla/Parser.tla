------------------------------- MODULE Parser -------------------------------
(***************************************************************************)
(* parser.y: the grammar, the automaton bison makes of it, and what the    *)
(* semantic actions do to the tree, to the stack of open blocks and to the *)
(* two lists that array accesses and preset arrays are collected in.       *)
(*                                                                         *)
(* A node of the tree is the position of a record in the sequence nodes,   *)
(* in the order they are made.  Its parent is 0 where the code leaves it   *)
(* null or, as nothing reads it before it is set, uninitialized.  The      *)
(* scanner is a sequence of tokens: the rest of text, then any that may    *)
(* follow it.                                                              *)
(***************************************************************************)
EXTENDS Tokens, SequencesExt

CONSTANTS
    Texts,         \* the beginnings of a program, as sequences of tokens
    Following,     \* the tokens that may come after such a beginning
    MaxFollowing,  \* bound: how many of them may come
    RandomInts     \* the ints undef may stand for

-----------------------------------------------------------------------------
(***************************************************************************)
(* The grammar: what each nonterminal can be.                              *)
(***************************************************************************)
\* Mutant: operators of one level group from the right.
BinaryRight(level, operators, next) ==
    { <<next, op, level>> : op \in operators } \cup { <<next>> }

Binary(level, operators, next) ==
    { <<level, op, next>> : op \in operators } \cup { <<next>> }

Rules ==
  [ program             |-> { <<"statement_block">> },
    statement_block     |-> { <<>>, <<"statement_block", "statement">> },
    statement           |-> { <<"{", "statement_block", "}">>, <<"ctrl_statement">>,
                              <<"expression", ";">>, <<";">> },
    ctrl_statement      |-> { <<"while", "(", "expression", ")", "statement">>,
                              <<"if", "(", "expression", ")", "statement">>,
                              <<"if", "(", "expression", ")", "statement", "else", "statement">> },
    variable            |-> { <<"VAR">> },
    lvalue_operand      |-> { <<"variable">>, <<"array_value">> },
    base_expression     |-> { <<"(", "expression", ")">>, <<"NUMBER">>, <<"?">>, <<"lvalue_operand">> },
    unary_expression    |-> { <<op, "base_expression">> : op \in {"-", "+", "!"} }
                            \cup { <<"base_expression">> },
    multiply_expression |-> Binary("multiply_expression", {"*", "/", "%"}, "unary_expression"),
    calc_expression     |-> Binary("calc_expression", {"+", "-"}, "multiply_expression"),
    comparable_expression |->
        Binary("comparable_expression", {"<", "<=", ">", ">="}, "calc_expression"),
    equality_expression |-> Binary("equality_expression", {"==", "!="}, "comparable_expression"),
    logical_expression  |-> Binary("logical_expression", {"&&", "||"}, "equality_expression"),
    assignment_expression |->
        { <<"variable", "=", "expression">>, <<"variable", "=", "array">>,
          <<"array_value", "=", "expression">> },
    expression          |-> { <<"logical_expression">>, <<"assignment_expression">>,
                              <<"print_expression">> },
    print_expression    |-> { <<"print", "expression">>, <<"print", "array">> },
    array_value         |-> { <<"VAR", "array_access">> },
    array_access        |-> { <<"[", "expression", "]", "array_access">>, <<"[", "expression", "]">> },
    array               |-> { <<"uniform_array">>, <<"preset_array">> },
    uniform_array       |-> { <<"repeat", "(", "array_expression", ",", "expression", ")">> },
    array_expression    |-> { <<"uniform_array">>, <<"preset_array">>, <<"expression">>, <<"undef">> },
    preset_array        |-> { <<"ARRAY", "(", "preset_array_access", ")">> },
    preset_array_access |-> { <<"array_expression", ",", "preset_array_access">>,
                              <<"array_expression">>, <<>> } ]

Nonterminals == DOMAIN Rules

-----------------------------------------------------------------------------
(***************************************************************************)
(* The automaton.  An item is a rule and how much of it has been read; a   *)
(* state is the set of the items that may be under way.  A token that can  *)
(* be read on is (of if ... else, too, the precedences say so), otherwise  *)
(* the item that has been read whole is reduced; no state has two such.    *)
(***************************************************************************)
Item(A, rule, dot) == [lhs |-> A, rule |-> rule, dot |-> dot]

Whole(item) == item.dot = Len(item.rule)
NextSym(item) == item.rule[item.dot + 1]

\* With the rules of the nonterminals that may come next.
RECURSIVE Closure(_)
Closure(items) ==
    LET next == { NextSym(i) : i \in { i \in items : ~Whole(i) } } \cap Nonterminals
        more == UNION { { Item(A, r, 0) : r \in Rules[A] } : A \in next }
    IN  IF more \subseteq items THEN items ELSE Closure(items \cup more)

Start == Closure({ Item("program", r, 0) : r \in Rules["program"] })

Readable(state) == { NextSym(i) : i \in { i \in state : ~Whole(i) } }

\* What a state becomes when sym is read.
After(state, sym) ==
    Closure({ [i EXCEPT !.dot = @ + 1] : i \in { i \in state : ~Whole(i) /\ NextSym(i) = sym } })

\* The states in the order a search finds them: found, and those its last round led to.
RECURSIVE Search(_, _)
Search(found, fresh) ==
    LET next == UNION { { After(q, sym) : sym \in Readable(q) } : q \in fresh }
                    \ (Range(found) \cup fresh)
        all  == FoldSet(LAMBDA q, qs : Append(qs, q), found, fresh)
    IN  IF next = {} THEN all ELSE Search(all, next)

States == Search(<<>>, {Start})

Number(state) == CHOOSE n \in DOMAIN States : States[n] = state

\* For each state, the symbols it can read with the states they lead to, and the rules that
\* have been read whole.
Automaton ==
    FoldLeft(LAMBDA table, q :
                 Append(table, [ to    |-> { <<sym, Number(After(q, sym))>> : sym \in Readable(q) },
                                 whole |-> { i \in q : Whole(i) } ]),
             <<>>, States)

-----------------------------------------------------------------------------
VARIABLES
    text,             \* how the program begins
    taken,            \* the number of tokens the scanner has returned
    lookahead,        \* the token that is neither shifted nor yet to be asked for
    stack,            \* of the automaton: symbols with their states and values
    nodes,            \* of the tree: ast::nodes_
    curr_block,       \* of the tree: the parent of the next block
    blocks,           \* the stack of open blocks
    IsRootBlockSet,
    Accesses,         \* the indices of an access, as far as they are collected
    PresetArrElems,   \* likewise the elements of a preset array
    root,             \* what the driver is given
    status            \* "parsing", "accepted" or "syntaxError"

scannerVars == <<text, taken>>
scopeVars   == <<curr_block, blocks, IsRootBlockSet>>
listVars    == <<Accesses, PresetArrElems>>
vars == <<scannerVars, lookahead, stack, nodes, scopeVars, listVars, root, status>>

NoToken == Token("")

Init ==
    /\ text \in Texts /\ taken = 0 /\ lookahead = NoToken
    /\ stack = << [sym |-> "", state |-> 1, val |-> 0] >>
    /\ nodes = <<>> /\ curr_block = 0 /\ blocks = <<>> /\ IsRootBlockSet = FALSE
    /\ Accesses = <<>> /\ PresetArrElems = <<>> /\ root = 0
    /\ status = "parsing"

Parsing == status = "parsing"
State   == Automaton[Last(stack).state]

\* scanner::get_token.
get_token ==
    /\ Parsing /\ lookahead = NoToken
    /\ lookahead' \in IF taken < Len(text) THEN {text[taken + 1]}
                     ELSE IF taken < Len(text) + MaxFollowing THEN Following ELSE {EOF}
    /\ taken' = taken + 1
    /\ UNCHANGED <<text, stack, nodes, scopeVars, listVars, root, status>>

Shifts == \E edge \in State.to : edge[1] = lookahead.sym

Push(entries, sym, val) ==
    LET edge == CHOOSE edge \in Automaton[Last(entries).state].to : edge[1] = sym
    IN  Append(entries, [sym |-> sym, state |-> edge[2], val |-> val])

Shift ==
    /\ Parsing /\ Shifts
    /\ stack' = Push(stack, lookahead.sym, lookahead)
    /\ lookahead' = NoToken
    /\ UNCHANGED <<scannerVars, nodes, scopeVars, listVars, root, status>>

Handle   == CHOOSE i \in State.whole : TRUE
Length   == Len(Handle.rule)

\* $i
Arg(i) == stack[Len(stack) - Length + i].val

Reducing == Parsing /\ lookahead # NoToken /\ ~Shifts /\ State.whole # {}

Reduces(A) == Reducing /\ Handle.lhs = A

ReducesTo(A, rule) == Reduces(A) /\ Handle.rule = rule

\* The handle becomes its left side, $$ = val.
Becomes(val) ==
    /\ stack' = Push(SubSeq(stack, 1, Len(stack) - Length), Handle.lhs, val)
    /\ UNCHANGED <<scannerVars, lookahead, root, status>>

\* parser::error throws, and main ends; so does the end of the text inside a rule.
error ==
    /\ Parsing /\ lookahead # NoToken /\ ~Shifts
    /\ \A i \in State.whole : i.lhs = "program" /\ lookahead # EOF
    /\ status' = "syntaxError"
    /\ UNCHANGED <<scannerVars, lookahead, stack, nodes, scopeVars, listVars, root>>

-----------------------------------------------------------------------------
(***************************************************************************)
(* Nodes.                                                                  *)
(***************************************************************************)
Node(kind, parent, name, op, val, kids) ==
    [ kind |-> kind, parent |-> parent, name |-> name, op |-> op, val |-> val, kids |-> kids ]

New == Len(nodes) + 1

Plain(kind, op, val, kids) == Node(kind, 0, "", op, val, kids)
Scoped(kind, name, kids)   == Node(kind, Last(blocks), name, "", 0, kids)

\* $$ = driver.make_node(...)
Makes(node) == nodes' = Append(nodes, node) /\ Becomes(New) /\ UNCHANGED scopeVars

MakesOnly(node) == Makes(node) /\ UNCHANGED listVars

CalcOps == {"+", "-", "*", "/", "%"}

-----------------------------------------------------------------------------
(***************************************************************************)
(* Statements and blocks.                                                  *)
(***************************************************************************)
\* %empty: a block begins, the first of them the root.
BeginBlock ==
    /\ ReducesTo("statement_block", <<>>)
    /\ nodes' = Append(nodes, Node(IF IsRootBlockSet THEN "block" ELSE "root",
                                   curr_block, "", "", 0, <<>>))
    /\ curr_block' = New /\ blocks' = Append(blocks, New) /\ IsRootBlockSet' = TRUE
    /\ Becomes(New)
    /\ UNCHANGED listVars

AddStatement ==
    /\ ReducesTo("statement_block", <<"statement_block", "statement">>)
    /\ nodes' = [nodes EXCEPT ![Arg(1)].kids = Append(@, Arg(2)), ![Arg(2)].parent = Arg(1)]
    /\ Becomes(Arg(1))
    /\ UNCHANGED <<scopeVars, listVars>>

\* Mutant: the block goes on as the parent of those that come next.
LeaveBlockCurrent ==
    /\ blocks' = Front(blocks)
    /\ UNCHANGED <<curr_block, IsRootBlockSet>>

\* blocks.pop(); driver.change_scope(blocks.top())
LeaveBlock ==
    /\ blocks' = Front(blocks) /\ curr_block' = Last(Front(blocks))
    /\ UNCHANGED IsRootBlockSet

EndBlock ==
    /\ ReducesTo("statement", <<"{", "statement_block", "}">>)
    /\ LeaveBlock /\ Becomes(Arg(2))
    /\ UNCHANGED <<nodes, listVars>>

EmptyStatement ==
    /\ ReducesTo("statement", <<";">>)
    /\ MakesOnly(Plain("block", "", 0, <<>>))

\* A block of its own is made for a while or an if, and left with nothing in it.
MakeCtrlStatement ==
    /\ Reduces("ctrl_statement")
    /\ LET kids == IF Length = 7 THEN <<Arg(3), Arg(5), Arg(7)>> ELSE <<Arg(3), Arg(5)>>
       IN  nodes' = nodes \o << Node("block", curr_block, "", "", 0, <<>>),
                                Plain(Handle.rule[1], "", 0, kids) >>
    /\ blocks' = Append(blocks, New) /\ curr_block' = New
    /\ Becomes(New + 1)
    /\ UNCHANGED <<IsRootBlockSet, listVars>>

EndCtrlStatement ==
    /\ ReducesTo("statement", <<"ctrl_statement">>)
    /\ LeaveBlock /\ Becomes(Arg(1))
    /\ UNCHANGED <<nodes, listVars>>

-----------------------------------------------------------------------------
(***************************************************************************)
(* Expressions.                                                            *)
(***************************************************************************)
MakeVariable == ReducesTo("variable", <<"VAR">>) /\ MakesOnly(Scoped("variable", Arg(1).name, <<>>))

MakeNumber ==
    ReducesTo("base_expression", <<"NUMBER">>) /\ MakesOnly(Plain("number", "", Arg(1).val, <<>>))

MakeRead == ReducesTo("base_expression", <<"?">>) /\ MakesOnly(Plain("read", "", 0, <<>>))

MakeUndef ==
    /\ ReducesTo("array_expression", <<"undef">>)
    /\ \E v \in RandomInts : MakesOnly(Plain("number", "", v, <<>>))

MakeUnary ==
    /\ Reduces("unary_expression") /\ Length = 2
    /\ MakesOnly(Plain("un", Handle.rule[1], 0, <<Arg(2)>>))

MakeBinary ==
    /\ Reducing
    /\ Handle.lhs \in { "multiply_expression", "calc_expression", "comparable_expression",
                        "equality_expression", "logical_expression" }
    /\ Length = 3
    /\ LET op == Handle.rule[2]
       IN  MakesOnly(Plain(IF op \in CalcOps THEN "calc" ELSE "logic", op, 0, <<Arg(1), Arg(3)>>))

\* The name of an assignment is that of its left side.
MakeAssignment ==
    /\ Reduces("assignment_expression")
    /\ LET left == Arg(1)
       IN  IF nodes[left].kind = "variable"
           THEN MakesOnly(Scoped("assign", nodes[left].name, <<Arg(3), left>>))
           ELSE MakesOnly(Scoped("accessAssign", nodes[left].name, <<left, Arg(3)>>))

MakePrint == Reduces("print_expression") /\ MakesOnly(Plain("print", "", 0, <<Arg(2)>>))

\* $$ = $1, or what the brackets or the semicolon enclose.
PassOn ==
    \/ /\ ReducesTo("base_expression", <<"(", "expression", ")">>)
       /\ Becomes(Arg(2)) /\ UNCHANGED <<nodes, scopeVars, listVars>>
    \/ /\ ReducesTo("statement", <<"expression", ";">>)
       /\ Becomes(Arg(1)) /\ UNCHANGED <<nodes, scopeVars, listVars>>
    \/ /\ Reducing /\ Handle.lhs \notin {"program", "array", "preset_array_access"}
       /\ Length = 1 /\ Handle.rule[1] \in Nonterminals \ {"ctrl_statement"}
       /\ Becomes(Arg(1)) /\ UNCHANGED <<nodes, scopeVars, listVars>>

-----------------------------------------------------------------------------
(***************************************************************************)
(* Arrays.  Both lists of items are rules that recur on the right: they    *)
(* are reduced from the last item to the first, when all have been read.   *)
(***************************************************************************)
CollectIndex ==
    /\ Reduces("array_access")
    /\ Accesses' = <<Arg(2)>> \o Accesses
    /\ Becomes(0)
    /\ UNCHANGED <<nodes, scopeVars, PresetArrElems>>

\* Mutant: the list is not cleared.
KeepAccesses == UNCHANGED Accesses

ClearAccesses == Accesses' = <<>>

MakeArrayAccess ==
    /\ Reduces("array_value")
    /\ Makes(Scoped("access", Arg(1).name, Accesses))
    /\ ClearAccesses /\ UNCHANGED PresetArrElems

MakeArrayHolder ==
    Reduces("array") /\ MakesOnly(Scoped("holder", "", <<Arg(1)>>))

MakeUniformArray ==
    Reduces("uniform_array") /\ MakesOnly(Scoped("uniform", "", <<Arg(3), Arg(5)>>))

CollectElement ==
    /\ Reduces("preset_array_access") /\ Length > 0
    /\ PresetArrElems' = <<Arg(1)>> \o PresetArrElems
    /\ Becomes(0)
    /\ UNCHANGED <<nodes, scopeVars, Accesses>>

NoMoreElements ==
    /\ ReducesTo("preset_array_access", <<>>)
    /\ Becomes(0)
    /\ UNCHANGED <<nodes, scopeVars, listVars>>

MakePresetArray ==
    /\ Reduces("preset_array")
    /\ Makes(Scoped("preset", "", PresetArrElems))
    /\ PresetArrElems' = <<>> /\ UNCHANGED Accesses

-----------------------------------------------------------------------------
\* driver.set_ast_root($1), and the end of the program.
set_ast_root ==
    /\ Reduces("program") /\ lookahead = EOF
    /\ root' = Arg(1) /\ status' = "accepted"
    /\ UNCHANGED <<scannerVars, lookahead, stack, nodes, scopeVars, listVars>>

Ended == ~Parsing /\ UNCHANGED vars

Next ==
    \/ get_token \/ Shift \/ error \/ set_ast_root \/ Ended
    \/ BeginBlock \/ AddStatement \/ EndBlock \/ EmptyStatement
    \/ MakeCtrlStatement \/ EndCtrlStatement
    \/ MakeVariable \/ MakeNumber \/ MakeRead \/ MakeUndef \/ MakeUnary \/ MakeBinary
    \/ MakeAssignment \/ MakePrint \/ PassOn
    \/ CollectIndex \/ MakeArrayAccess \/ MakeArrayHolder \/ MakeUniformArray
    \/ CollectElement \/ NoMoreElements \/ MakePresetArray

Spec == Init /\ [][Next]_vars
=============================================================================

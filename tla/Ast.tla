-------------------------------- MODULE Ast --------------------------------
(***************************************************************************)
(* The abstract syntax tree the parser hands to the visitors.              *)
(*                                                                         *)
(* A tree is a sequence of nodes in preorder: node 1 is the root block, a  *)
(* node's operands and statements come after it, and a node's position in  *)
(* the sequence stands for its C++ address.  A node is a record:           *)
(*   kind    which class derived from ast::statement it is                 *)
(*   kids    the nodes its visit methods accept, in source order           *)
(*   parent  the node that accepts it (0 for the root)                     *)
(*   scope   the blocks around it, innermost first: what following         *)
(*           statement::parent_ from block to block yields                 *)
(*   name    the identifier of a variable, an assignment or an access      *)
(*   op      the operator of an expression                                 *)
(*   val     the value of a literal                                        *)
(***************************************************************************)
EXTENDS Int32, Sequences

CONSTANT Programs     \* the trees a run starts from

BlockKinds == {"root", "block"}

\* The operands each visit method finds in the node it is given.
Arity ==
    [ number |-> {0}, variable |-> {0}, read |-> {0}, un |-> {1}, print |-> {1},
      holder |-> {1}, calc |-> {2}, logic |-> {2}, assign |-> {2}, uniform |-> {2},
      accessAssign |-> {2}, while |-> {2}, if |-> {2, 3} ]

\* Where the grammar has an expression or the element of an array.
ArrayBodies     == {"uniform", "preset"}
ExpressionKinds == (DOMAIN Arity \ {"while", "if"}) \cup {"preset", "access"}

Operators ==
    [ un |-> {"+", "-", "!"}, calc |-> {"+", "-", "*", "/", "%"},
      logic |-> {"<", "<=", ">", ">=", "==", "!=", "&&", "||"} ]

Nodes(p)   == 1..Len(p)
IsBlock(p, n) == p[n].kind \in BlockKinds

\* The scope chain a node accepted by node n gets from the parser: n itself when
\* n is a block (blocks.top() while its statements are parsed), n's otherwise.
InnerScope(p, n) == IF IsBlock(p, n) THEN <<n>> \o p[n].scope ELSE p[n].scope

\* The nodes above n in p, n included.
Ancestors(p, n) ==
    LET Up[m \in 0..Len(p)] == IF m = 0 THEN {} ELSE {m} \cup Up[p[m].parent]
    IN  Up[n]

\* What the grammar makes the kids of a node, which the visit methods rely on.
OperandsOK(p, n) ==
    LET IsExpr(i)  == p[p[n].kids[i]].kind \in ExpressionKinds
        Names(i)   == p[p[n].kids[i]].name = p[n].name
        KindOf(i)  == p[p[n].kids[i]].kind
    IN  /\ p[n].kind \in DOMAIN Arity => Len(p[n].kids) \in Arity[p[n].kind]
        /\ p[n].kind = "access" => Len(p[n].kids) >= 1
        /\ p[n].kind \in ExpressionKinds => \A i \in DOMAIN p[n].kids : IsExpr(i)
        /\ p[n].kind \in {"if", "while"} => IsExpr(1)
        /\ p[n].kind = "assign" => KindOf(2) = "variable" /\ Names(2)
        /\ p[n].kind = "accessAssign" => KindOf(1) = "access" /\ Names(1)
        /\ p[n].kind = "holder" => KindOf(1) \in ArrayBodies
        /\ \A i \in DOMAIN p[n].kids :
              KindOf(i) \in ArrayBodies => p[n].kind \in {"holder"} \cup ArrayBodies
        /\ p[n].kind \in DOMAIN Operators => p[n].op \in Operators[p[n].kind]

(***************************************************************************)
(* What make_block, make_node and statement_block::add build: a tree in    *)
(* preorder whose blocks are chained through their parents.                *)
(***************************************************************************)
WellFormed(p) ==
    /\ p \in Seq([ kind : STRING, kids : Seq(Nat), parent : Nat, scope : Seq(Nat),
                   name : STRING, op : STRING, val : Int ])
    /\ Len(p) >= 1
    /\ p[1].kind = "root" /\ p[1].parent = 0 /\ p[1].scope = <<>>
    /\ \A n \in Nodes(p) :
          /\ n # 1 => /\ p[n].kind # "root"
                      /\ p[n].parent \in 1..(n - 1)
                      /\ p[n].parent \in Ancestors(p, n - 1)
                      /\ \E i \in DOMAIN p[p[n].parent].kids : p[p[n].parent].kids[i] = n
                      /\ p[n].scope = InnerScope(p, p[n].parent)
                      /\ p[n].scope # <<>>
          /\ \A i \in DOMAIN p[n].scope :
                p[n].scope[i] \in 1..(n - 1) /\ IsBlock(p, p[n].scope[i])
          /\ \A i \in DOMAIN p[n].kids :
                /\ p[n].kids[i] \in (n + 1)..Len(p) /\ p[p[n].kids[i]].parent = n
                /\ \A j \in DOMAIN p[n].kids : i < j => p[n].kids[i] < p[n].kids[j]
          /\ OperandsOK(p, n)
          /\ p[n].kind = "number" => p[n].val \in Int32

ASSUME ProgramsAssumption == \A p \in Programs : WellFormed(p)

-----------------------------------------------------------------------------
(***************************************************************************)
(* Facts about the shape of a tree that the properties use.                *)
(***************************************************************************)
IsKid(p, n, kind, i) ==
    n # 1 /\ LET m == p[n].parent
             IN  p[m].kind = kind /\ i \in DOMAIN p[m].kids /\ p[m].kids[i] = n

Under(p, n, kind, i) == \E m \in Ancestors(p, n) : IsKid(p, m, kind, i)

UnderElse(p, n)  == Under(p, n, "if", 3)
UnderWhile(p, n) == Under(p, n, "while", 1) \/ Under(p, n, "while", 2)

\* A node the flow of control can skip: the body of an if or a while, or the right operand
\* of && or ||.
MaySkip(p, n) ==
    \/ IsKid(p, n, "if", 2) \/ IsKid(p, n, "if", 3) \/ IsKid(p, n, "while", 2)
    \/ IsKid(p, n, "logic", 2) /\ p[p[n].parent].op \in {"&&", "||"}

\* A node in one that can be skipped, with no block in between.
Conditional(p, n) ==
    \E m \in Ancestors(p, n) : p[m].scope = p[n].scope /\ ~IsBlock(p, m) /\ MaySkip(p, m)

\* An assignment to an element, printed or not.
ElementAssignment(p, n) ==
    \/ p[n].kind = "accessAssign"
    \/ p[n].kind = "print" /\ p[p[n].kids[1]].kind \in {"accessAssign", "print"}

\* The assignments that can bring the name of node n into a scope n sees.
Definitions(p, n) ==
    { m \in Nodes(p) : /\ p[m].kind = "assign" /\ p[m].name = p[n].name
                       /\ \E i \in DOMAIN p[n].scope : p[n].scope[i] = p[m].scope[1] }
=============================================================================

-------------------------- MODULE ParserProperties --------------------------
(***************************************************************************)
(* What the parser promises the visitors: the tree of the program that was *)
(* written, with every node in the scope it was written in.                *)
(***************************************************************************)
EXTENDS Parser

Accepted == status = "accepted"

\* The values of the nonterminals A among the entries of the automaton's stack.
Pending(A) == [ i \in DOMAIN SelectSeq(stack, LAMBDA e : e.sym = A) |->
                  SelectSeq(stack, LAMBDA e : e.sym = A)[i].val ]

\* The block made for the while or if that was just read.
OfCtrlStatement == IF Last(stack).sym = "ctrl_statement" THEN <<Last(stack).val - 1>> ELSE <<>>

\* The blocks on the stack of open blocks are those the automaton is reading, each the
\* parent of the next, and the next block's parent is the innermost of them.
BlocksOpen ==
    /\ blocks = Pending("statement_block") \o OfCtrlStatement
    /\ \A i \in DOMAIN blocks : nodes[blocks[i]].parent = IF i = 1 THEN 0 ELSE blocks[i - 1]
    /\ blocks # <<>> => curr_block = Last(blocks)

Top == stack[Len(stack) - (IF Last(stack).sym = ")" THEN 1 ELSE 0)].sym

\* The two lists are shared by every access and every preset array, nested ones included:
\* neither holds anything while something else than that one list is read.
ListsOfOne ==
    /\ Accesses # <<>> => Last(stack).sym = "array_access"
    /\ PresetArrElems # <<>> => Top = "preset_array_access"
=============================================================================

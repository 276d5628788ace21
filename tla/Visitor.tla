------------------------------ MODULE Visitor ------------------------------
(***************************************************************************)
(* The control that VisitorBase::acceptASTNode and the visit methods share. *)
(* A visitor is the C++ call stack over the tree.  The language has no      *)
(* functions, so a node is visited by at most one frame at a time and the   *)
(* stack is a map from nodes to program points: done[n] is Idle when no     *)
(* frame visits n, otherwise the position of the last of n's kids accepted  *)
(* (0 before the first).  The frame on top visits cur; a step of the system *)
(* is what a visit method does between two accepts.                         *)
(***************************************************************************)
EXTENDS Ast

VARIABLES
    prog,      \* the tree
    cur,       \* the node whose visit method is on top of the stack, 0: none
    done,      \* the program point of every node's frame
    status     \* "running", or why the process stopped

visitorVars == <<prog, cur, done, status>>

Idle == -1
Node == Nodes(prog)

Kind(n)  == prog[n].kind
Name(n)  == prog[n].name
Op(n)    == prog[n].op
Kids(n)  == prog[n].kids
Kid(n, i) == prog[n].kids[i]
Scope(n) == prog[n].scope

\* The ways a run of the process ends.
Ends ==
    { "exited",          \* main returned
      "rejected",        \* main returned SyntaxErr, the checker found errors
      "divByZero",       \* paracl::fatal, trying to divide by 0
      "badInput",        \* paracl::fatal, Non-integer data was transmitted
      "assertFailed",    \* an assert of the visitors failed
      "trapped",         \* idiv raised SIGFPE
      "nullDeref",       \* a null PCLType was dereferenced
      "hugeArray",       \* a negative repeat size was taken for an unsigned one
      "badIndex",        \* an element outside an array was read or written
      "typeConfusion",   \* an array was used as an IntegerVal, or the converse
      "dangling",        \* an element of a destroyed array was cloned
      "invalidIR" }      \* clang refused the IR

Running == status = "running"

\* The frame on top visits a node of this kind, i of its kids are accepted.
At(kind, i) == Running /\ cur # 0 /\ Kind(cur) = kind /\ done[cur] = i

OnStack == { n \in Node : done[n] # Idle }

RootFrame(p) == [n \in Nodes(p) |-> IF n = 1 THEN 0 ELSE Idle]

\* acceptASTNode on the i-th kid of the node on top.
Accept(i) ==
    /\ cur' = Kid(cur, i)
    /\ done' = [done EXCEPT ![cur] = i, ![Kid(cur, i)] = 0]
    /\ UNCHANGED <<prog, status>>

\* The visit method on top returns to the one that accepted its node.
Return ==
    /\ cur' = prog[cur].parent
    /\ done' = [done EXCEPT ![cur] = Idle]
    /\ UNCHANGED <<prog, status>>

\* The process stops inside the visit method on top.
Stop(why) ==
    /\ status' = why
    /\ UNCHANGED <<prog, cur, done>>

-----------------------------------------------------------------------------
(***************************************************************************)
(* The stack is the path from the root to cur: cur is its deepest node, a  *)
(* frame's caller is on it, and nothing is on it between the two.          *)
(***************************************************************************)
StackTypeOK ==
    /\ cur \in 0..Len(prog)
    /\ done \in [Node -> Nat \cup {Idle}]
    /\ status \in Ends \cup {"running"}

StackIsPath ==
    /\ cur = 0 => OnStack = {}
    /\ cur # 0 => cur \in OnStack
    /\ \A n \in OnStack :
          /\ n <= cur
          /\ n # 1 => prog[n].parent \in OnStack
          /\ \A m \in OnStack : m < n => m <= prog[n].parent
=============================================================================

--------------------------- MODULE VisitorProofs ---------------------------
(***************************************************************************)
(* Lemmas about the tree and about the visitors' stack, for every module   *)
(* that composes visitors.  A step of any visitor accepts a kid of the     *)
(* node on top, returns from it, stays, or starts a new visitor at the     *)
(* root; whichever it is, the stack stays a path of the tree.              *)
(***************************************************************************)
EXTENDS Visitor, ValueProofs

ProgOK == prog \in Programs

\* The blocks around a node on the stack are on the stack.
ScopesOnStack ==
    \A n \in OnStack : \A i \in DOMAIN Scope(n) : Scope(n)[i] \in OnStack

\* A frame's program point is the position of the kid it accepted last.
CallersAccepted ==
    \A n \in OnStack \ {1} :
        /\ done[prog[n].parent] \in DOMAIN Kids(prog[n].parent)
        /\ Kid(prog[n].parent, done[prog[n].parent]) = n

\* No frame has accepted more kids than its node has.
WithinKids == \A n \in OnStack : done[n] \in 0..Len(Kids(n))

StackInv == ProgOK /\ StackTypeOK /\ StackIsPath /\ ScopesOnStack /\ CallersAccepted /\ WithinKids

-----------------------------------------------------------------------------
(***************************************************************************)
(* The tree.                                                               *)
(***************************************************************************)
LEMMA Trees ==
    ASSUME NEW p \in Programs
    PROVE  /\ Len(p) \in Nat /\ Len(p) >= 1 /\ DOMAIN p = 1..Len(p) /\ Nodes(p) = 1..Len(p)
           /\ p[1].parent = 0 /\ p[1].kind = "root" /\ p[1].scope = <<>>
           /\ \A n \in Nodes(p) :
                 /\ n # 1 => /\ p[n].parent \in 1..(n - 1)
                             /\ p[n].scope = InnerScope(p, p[n].parent)
                             /\ p[n].scope # <<>>
                 /\ p[n].parent \in 0..(n - 1)
                 /\ p[n].scope \in Seq(Nat) /\ p[n].kids \in Seq(Nat)
                 /\ \A i \in DOMAIN p[n].scope :
                       p[n].scope[i] \in 1..(n - 1) /\ IsBlock(p, p[n].scope[i])
                 /\ \A i \in DOMAIN p[n].kids :
                       p[n].kids[i] \in (n + 1)..Len(p) /\ p[p[n].kids[i]].parent = n
<1>1. WellFormed(p)
  BY ProgramsAssumption
<1>2. p \in Seq([ kind : STRING, kids : Seq(Nat), parent : Nat, scope : Seq(Nat),
                  name : STRING, op : STRING, val : Int ])
  BY <1>1 DEF WellFormed
<1>3. /\ Len(p) \in Nat /\ DOMAIN p = 1..Len(p) /\ Len(p) >= 1
      /\ p[1].parent = 0 /\ p[1].kind = "root" /\ p[1].scope = <<>>
  BY <1>1, <1>2 DEF WellFormed
<1>4. \A n \in Nodes(p) : p[n].scope \in Seq(Nat) /\ p[n].kids \in Seq(Nat)
  <2>1. ASSUME NEW S, NEW s \in Seq(S), NEW n \in 1..Len(s)
        PROVE  s[n] \in S
    OBVIOUS
  <2>2. ASSUME NEW n \in 1..Len(p)
        PROVE  p[n] \in [ kind : STRING, kids : Seq(Nat), parent : Nat, scope : Seq(Nat),
                           name : STRING, op : STRING, val : Int ]
    BY <1>2, <2>1
  <2>. QED
    BY <2>2 DEF Nodes
<1>5. \A n \in Nodes(p) : n = 1 \/ p[n].parent \in 1..(n - 1)
  BY <1>1 DEF WellFormed
<1>6. \A n \in Nodes(p) : p[n].parent \in 0..(n - 1)
  BY <1>3, <1>5 DEF Nodes
<1>. QED
  BY <1>1, <1>3, <1>4, <1>5, <1>6 DEF WellFormed, Nodes

\* The kids of a node are different nodes, in order, and every node but the root is one.
LEMMA KidsOfTree ==
    ASSUME NEW p \in Programs, NEW n \in Nodes(p)
    PROVE  /\ DOMAIN p[n].kids = 1..Len(p[n].kids) /\ Len(p[n].kids) \in Nat
           /\ \A i, j \in DOMAIN p[n].kids : i < j => p[n].kids[i] < p[n].kids[j]
           /\ \A i, j \in DOMAIN p[n].kids : p[n].kids[i] = p[n].kids[j] => i = j
           /\ n # 1 => \E i \in DOMAIN p[p[n].parent].kids : p[p[n].parent].kids[i] = n
           /\ n # 1 => p[n].kind # "root" /\ p[n].parent \in Ancestors(p, n - 1)
           /\ OperandsOK(p, n)
           /\ p[n].kind = "number" => p[n].val \in Int32
<1>1. WellFormed(p)
  BY ProgramsAssumption
<1>2. DOMAIN p[n].kids = 1..Len(p[n].kids) /\ Len(p[n].kids) \in Nat
  BY Trees
<1>3. \A i, j \in DOMAIN p[n].kids : i < j => p[n].kids[i] < p[n].kids[j]
  BY <1>1 DEF WellFormed
<1>4. \A i \in DOMAIN p[n].kids : p[n].kids[i] \in Nat
  BY Trees
<1>5. ASSUME NEW i \in DOMAIN p[n].kids, NEW j \in DOMAIN p[n].kids, p[n].kids[i] = p[n].kids[j]
      PROVE  i = j
  <2>1. i < j \/ j < i \/ i = j
    BY <1>2
  <2>. QED
    BY <1>3, <1>4, <1>5, <2>1
<1>. QED
  BY <1>1, <1>2, <1>3, <1>5 DEF WellFormed

LEMMA AncestorsOf ==
    ASSUME NEW p \in Programs
    PROVE  /\ Ancestors(p, 0) = {}
           /\ \A n \in Nodes(p) : Ancestors(p, n) = {n} \cup Ancestors(p, p[n].parent)
<1>. DEFINE N == Len(p)
            D == SUBSET Nat
            prev == [k \in 1..N |-> p[k].parent]
            step == [k \in 1..N |-> [s \in D |-> {k} \cup s]]
            Up == CHOOSE Up : Up = [m \in 0..N |-> IF m = 0 THEN {} ELSE {m} \cup Up[p[m].parent]]
<1>1. N \in Nat /\ Nodes(p) = 1..N /\ \A k \in 1..N : p[k].parent \in 0..(k - 1)
  BY Trees
<1>2. /\ {} \in D /\ prev \in [1..N -> Nat] /\ \A k \in 1..N : prev[k] < k
      /\ step \in [1..N -> [D -> D]]
  <2>1. {} \in D /\ prev \in [1..N -> Nat] /\ \A k \in 1..N : prev[k] < k
    BY <1>1
  <2>2. \A k \in 1..N : \A s \in D : {k} \cup s \in D
    BY <1>1
  <2>. HIDE DEF D
  <2>3. step \in [1..N -> [D -> D]]
    BY <2>2
  <2>. QED
    BY <2>1, <2>3
<1>3. PICK f : Solves(f, N, D, {}, prev, step)
  <2>. HIDE DEF D, N, prev, step
  <2>1. Recurrence(N, D, {}, prev, step)
    BY <1>1, <1>2 DEF Recurrence
  <2>. QED
    BY <2>1, Recursion
<1>4. f \in [0..N -> D] /\ f[0] = {} /\ \A k \in 1..N : f[k] = step[k][f[prev[k]]]
  <2>. HIDE DEF D, N, prev, step
  <2>. QED
    BY <1>3 DEF Solves
<1>5. ASSUME NEW m \in 1..N PROVE f[m] = {m} \cup f[p[m].parent]
  <2>1. prev[m] = p[m].parent /\ prev[m] \in 0..N
    BY <1>1
  <2>2. f[m] = step[m][f[prev[m]]] /\ f[prev[m]] \in D
    <3>. HIDE DEF prev, step, D
    <3>. QED
      BY <1>4, <2>1
  <2>3. \A s \in D : step[m][s] = {m} \cup s
    OBVIOUS
  <2>. HIDE DEF prev, step, D
  <2>. QED
    BY <2>1, <2>2, <2>3
<1>6. f = [m \in 0..N |-> IF m = 0 THEN {} ELSE {m} \cup f[p[m].parent]]
  <2>. HIDE DEF step, prev
  <2>. QED
    BY <1>1, <1>4, <1>5
<1>7. Up = [m \in 0..N |-> IF m = 0 THEN {} ELSE {m} \cup Up[p[m].parent]]
  BY <1>6
<1>8. \A m : Ancestors(p, m) = Up[m]
  BY DEF Ancestors
<1>. HIDE DEF Up
<1>9. Up[0] = {}
  BY <1>1, <1>7
<1>10. \A m \in 1..N : Up[m] = {m} \cup Up[p[m].parent]
  BY <1>1, <1>7
<1>. QED
  BY <1>1, <1>8, <1>9, <1>10

\* The ancestors of a node are numbered no higher; they are a path from the root.
LEMMA AncestorsPath ==
    ASSUME NEW p \in Programs, NEW n \in Nodes(p)
    PROVE  /\ n \in Ancestors(p, n) /\ 1 \in Ancestors(p, n) /\ Ancestors(p, n) \subseteq 1..n
           /\ \A m \in Ancestors(p, n) : Ancestors(p, m) \subseteq Ancestors(p, n)
           /\ \A a, b \in Ancestors(p, n) : a <= b => a \in Ancestors(p, b)
           /\ \A m \in Ancestors(p, n) \ {n} :
                 \E i \in DOMAIN p[m].kids : p[m].kids[i] \in Ancestors(p, n)
<1>. DEFINE A(k) == Ancestors(p, k)
            Good(k) == /\ k \in A(k) /\ 1 \in A(k) /\ A(k) \subseteq 1..k
                       /\ \A m \in A(k) : A(m) \subseteq A(k)
                       /\ \A a, b \in A(k) : a <= b => a \in A(b)
                       /\ \A m \in A(k) \ {k} : \E i \in DOMAIN p[m].kids : p[m].kids[i] \in A(k)
            Bad == { k \in Nodes(p) : ~Good(k) }
<1>1. Nodes(p) \subseteq Nat /\ \A k \in Nodes(p) : k >= 1
  BY Trees
<1>2. SUFFICES ASSUME Bad # {} PROVE FALSE
  <2>1. Good(n)
    BY <1>2
  <2>. QED
    BY <2>1
<1>3. PICK k \in Bad : \A l \in Bad : k <= l
  <2>1. Bad \in SUBSET Nat
    BY <1>1
  <2>. HIDE DEF Bad
  <2>. QED
    BY <1>2, <2>1, Least
<1>4. k \in Nodes(p) /\ k \in Nat /\ k >= 1
  BY <1>1, <1>3
<1>. DEFINE q == p[k].parent
<1>5. A(k) = {k} \cup A(q)
  BY <1>4, AncestorsOf
<1>. HIDE DEF A
<1>6. CASE k = 1
  <2>1. A(1) = {1}
    BY <1>4, <1>5, <1>6, Trees, AncestorsOf DEF A
  <2>2. Good(1)
    BY <2>1
  <2>. QED
    BY <1>3, <1>6, <2>2
<1>7. CASE k # 1
  <2>1. q \in 1..(k - 1) /\ q \in Nodes(p)
    BY <1>4, <1>7, Trees
  <2>2. Good(q)
    <3>1. q \notin Bad
      <4>1. ~ (k <= q)
        BY <1>4, <2>1
      <4>. HIDE DEF Bad
      <4>. QED
        BY <1>3, <4>1
    <3>. QED
      BY <2>1, <3>1
  <2>3. k \in A(k) /\ 1 \in A(k) /\ A(k) \subseteq 1..k
    <3>1. A(q) \subseteq 1..k
      BY <1>4, <2>1, <2>2
    <3>. QED
      BY <1>4, <1>5, <2>2, <3>1
  <2>4. ASSUME NEW m \in A(k) PROVE A(m) \subseteq A(k)
    BY <1>5, <2>2
  <2>5. ASSUME NEW a \in A(k), NEW b \in A(k), a <= b PROVE a \in A(b)
    <3>1. CASE b = k
      BY <3>1
    <3>2. CASE b # k
      <4>1. b \in A(q) /\ b \in 1..q
        BY <1>5, <2>2, <3>2
      <4>2. a # k
        BY <1>4, <2>1, <2>5, <4>1
      <4>3. a \in A(q)
        BY <1>5, <4>2
      <4>. QED
        BY <2>2, <2>5, <4>1, <4>3
    <3>. QED
      BY <3>1, <3>2
  <2>6. ASSUME NEW m \in A(k) \ {k} PROVE \E i \in DOMAIN p[m].kids : p[m].kids[i] \in A(k)
    <3>1. m \in A(q)
      BY <1>5
    <3>2. CASE m = q
      <4>1. PICK i \in DOMAIN p[q].kids : p[q].kids[i] = k
        BY <1>4, <1>7, KidsOfTree
      <4>. QED
        BY <2>3, <3>2, <4>1
    <3>3. CASE m # q
      BY <1>5, <2>2, <3>1, <3>3
    <3>. QED
      BY <3>2, <3>3
  <2>7. Good(k)
    BY <2>3, <2>4, <2>5, <2>6
  <2>. QED
    BY <1>3, <2>7
<1>. QED
  BY <1>6, <1>7

\* What is below a node is numbered without gaps.
LEMMA Contiguous ==
    ASSUME NEW p \in Programs, NEW k \in Nodes(p), NEW n \in Ancestors(p, k), NEW m \in n..k
    PROVE  n \in Ancestors(p, m)
<1>. DEFINE Bad == { d \in 0..k : k - d >= n /\ n \notin Ancestors(p, k - d) }
<1>1. n \in 1..k /\ k \in Nat /\ Nodes(p) = 1..Len(p) /\ Len(p) \in Nat
  BY Trees, AncestorsPath
<1>2. SUFFICES ASSUME Bad # {} PROVE FALSE
  <2>1. k - m \in 0..k /\ k - (k - m) = m /\ m >= n
    BY <1>1
  <2>2. n \notin Ancestors(p, k - (k - m)) => (k - m) \in Bad
    BY <1>1, <2>1
  <2>. HIDE DEF Bad
  <2>. QED
    BY <1>2, <2>1, <2>2
<1>3. PICK d \in Bad : \A l \in Bad : d <= l
  <2>1. Bad \in SUBSET Nat
    OBVIOUS
  <2>. HIDE DEF Bad
  <2>. QED
    BY <1>2, <2>1, Least
<1>4. d \in 0..k /\ k - d >= n /\ n \notin Ancestors(p, k - d) /\ d # 0
  <2>1. k - 0 = k
    BY <1>1
  <2>. QED
    BY <1>3, <2>1
<1>. DEFINE h == k - (d - 1)
<1>5. n \in Ancestors(p, h) /\ h \in Nodes(p) /\ h - 1 = k - d /\ h > n /\ h # 1
  <2>1. d - 1 \in 0..k /\ k - (d - 1) >= n /\ ~ (d <= d - 1)
    BY <1>1, <1>4
  <2>2. d - 1 \notin Bad
    <3>. HIDE DEF Bad
    <3>. QED
      BY <1>3, <2>1
  <2>3. n \in Ancestors(p, h)
    BY <2>1, <2>2
  <2>4. h \in Nodes(p) /\ h - 1 = k - d /\ h > n /\ h # 1
    BY <1>1, <1>4
  <2>. QED
    BY <2>3, <2>4
<1>. HIDE DEF h
<1>6. n \in Ancestors(p, p[h].parent)
  BY <1>1, <1>5, AncestorsOf
<1>7. p[h].parent \in Ancestors(p, h - 1) /\ h - 1 \in Nodes(p)
  BY <1>1, <1>5, KidsOfTree
<1>8. n \in Ancestors(p, h - 1)
  BY <1>6, <1>7, AncestorsPath
<1>. QED
  BY <1>4, <1>5, <1>8

\* Two kids of a node have nothing below them in common, and what is below the first
\* comes first.
LEMMA KidsApart ==
    ASSUME NEW p \in Programs, NEW n \in Nodes(p),
           NEW i \in DOMAIN p[n].kids, NEW j \in DOMAIN p[n].kids, i < j,
           NEW k \in Nodes(p), p[n].kids[i] \in Ancestors(p, k),
           NEW l \in Nodes(p), p[n].kids[j] \in Ancestors(p, l)
    PROVE  k < l
<1>. DEFINE a == p[n].kids[i]
            b == p[n].kids[j]
<1>1. /\ a \in Nodes(p) /\ b \in Nodes(p) /\ n < a /\ a < b /\ p[b].parent = n
      /\ Nodes(p) \subseteq Nat
  <2>1. a \in (n + 1)..Len(p) /\ b \in (n + 1)..Len(p) /\ p[b].parent = n
    BY Trees
  <2>2. a < b
    BY KidsOfTree
  <2>3. Nodes(p) = 1..Len(p) /\ Len(p) \in Nat
    BY Trees
  <2>. HIDE DEF a, b
  <2>. QED
    BY <2>1, <2>2, <2>3
<1>. HIDE DEF a, b
<1>2. a \notin Ancestors(p, b)
  <2>1. Ancestors(p, b) = {b} \cup Ancestors(p, n)
    BY <1>1, AncestorsOf
  <2>2. Ancestors(p, n) \subseteq 1..n
    BY AncestorsPath
  <2>. QED
    BY <1>1, <2>1, <2>2
<1>3. b \in 1..l
  BY AncestorsPath DEF b
<1>4. SUFFICES ASSUME l <= k PROVE FALSE
  BY <1>1
<1>5. b \in a..k
  BY <1>1, <1>3, <1>4
<1>. QED
  BY <1>1, <1>2, <1>5, Contiguous DEF a

-----------------------------------------------------------------------------
(***************************************************************************)
(* What a step can do to the stack.                                        *)
(***************************************************************************)
AcceptsKid == cur # 0 /\ \E i \in DOMAIN Kids(cur) : Accept(i)
Returns    == cur # 0 /\ Return
Stays      == UNCHANGED <<prog, cur, done>> /\ status' \in Ends \cup {"running"}
Restarts   == /\ cur = 0 /\ cur' = 1 /\ done' = RootFrame(prog)
              /\ UNCHANGED <<prog, status>>

Moves == AcceptsKid \/ Returns \/ Stays

\* The operands of a node, by its kind.
LEMMA NodeShape ==
    ASSUME ProgOK, NEW n \in Node
    PROVE  /\ Kids(n) \in Seq(Nat) /\ DOMAIN Kids(n) = 1..Len(Kids(n)) /\ Len(Kids(n)) \in Nat
           /\ \A i \in DOMAIN Kids(n) :
                 Kid(n, i) \in Node /\ Kid(n, i) > n /\ prog[Kid(n, i)].parent = n /\ Kid(n, i) # 1
           /\ Kind(n) \in {"number", "variable", "read"} => Len(Kids(n)) = 0
           /\ Kind(n) \in {"un", "print", "holder"} => Len(Kids(n)) = 1
           /\ Kind(n) \in {"calc", "logic", "assign", "uniform", "accessAssign", "while"} =>
                 Len(Kids(n)) = 2
           /\ Kind(n) = "if" => Len(Kids(n)) = 2 \/ Len(Kids(n)) = 3
           /\ Kind(n) = "access" => Len(Kids(n)) >= 1
           /\ Kind(n) \in ExpressionKinds =>
                 \A i \in DOMAIN Kids(n) : Kind(Kid(n, i)) \in ExpressionKinds
           /\ Kind(n) \in {"if", "while"} => Kind(Kid(n, 1)) \in ExpressionKinds
           /\ Kind(n) = "assign" => Kind(Kid(n, 2)) = "variable" /\ Name(Kid(n, 2)) = Name(n)
           /\ Kind(n) = "accessAssign" => Kind(Kid(n, 1)) = "access" /\ Name(Kid(n, 1)) = Name(n)
           /\ Kind(n) = "holder" => Kind(Kid(n, 1)) \in {"uniform", "preset"}
           /\ Kind(n) = "un" => Op(n) \in {"+", "-", "!"}
           /\ Kind(n) = "calc" => Op(n) \in {"+", "-", "*", "/", "%"}
           /\ Kind(n) = "logic" => Op(n) \in {"<", "<=", ">", ">=", "==", "!=", "&&", "||"}
           /\ Kind(n) = "number" => prog[n].val \in Int32
<1>1. OperandsOK(prog, n) /\ n \in Nodes(prog) /\ prog \in Programs
  BY KidsOfTree DEF ProgOK, Node
<1>2. Kids(n) \in Seq(Nat) /\ DOMAIN Kids(n) = 1..Len(Kids(n)) /\ Len(Kids(n)) \in Nat
  BY <1>1, Trees DEF Kids
<1>3. \A i \in DOMAIN Kids(n) :
         Kid(n, i) \in Node /\ Kid(n, i) > n /\ prog[Kid(n, i)].parent = n /\ Kid(n, i) # 1
  <2>1. \A i \in DOMAIN Kids(n) : Kid(n, i) \in (n + 1)..Len(prog) /\ prog[Kid(n, i)].parent = n
    BY <1>1, Trees DEF Kids, Kid
  <2>. QED
    BY <1>1, <2>1, Trees DEF Node
<1>4. /\ {"number", "variable", "read"} \subseteq DOMAIN Arity
      /\ {"un", "print", "holder", "if"} \subseteq DOMAIN Arity
      /\ {"calc", "logic", "assign", "uniform", "accessAssign", "while"} \subseteq DOMAIN Arity
      /\ \A k \in {"number", "variable", "read"} : Arity[k] = {0}
      /\ \A k \in {"un", "print", "holder"} : Arity[k] = {1}
      /\ \A k \in {"calc", "logic", "assign", "uniform", "accessAssign", "while"} : Arity[k] = {2}
      /\ Arity["if"] = {2, 3}
  BY DEF Arity
<1>5. Kind(n) \in DOMAIN Arity => Len(Kids(n)) \in Arity[Kind(n)]
  BY <1>1 DEF OperandsOK, Kind, Kids
<1>6. /\ Kind(n) \in {"number", "variable", "read"} => Len(Kids(n)) = 0
      /\ Kind(n) \in {"un", "print", "holder"} => Len(Kids(n)) = 1
      /\ Kind(n) \in {"calc", "logic", "assign", "uniform", "accessAssign", "while"} =>
            Len(Kids(n)) = 2
      /\ Kind(n) = "if" => Len(Kids(n)) = 2 \/ Len(Kids(n)) = 3
  <2>1. ASSUME NEW k \in DOMAIN Arity, Kind(n) = k PROVE Len(Kids(n)) \in Arity[k]
    BY <1>5, <2>1
  <2>2. Kind(n) \in {"number", "variable", "read"} => Len(Kids(n)) = 0
    BY <1>4, <2>1
  <2>3. Kind(n) \in {"un", "print", "holder"} => Len(Kids(n)) = 1
    BY <1>4, <2>1
  <2>4. Kind(n) \in {"calc", "logic", "assign", "uniform", "accessAssign", "while"} =>
            Len(Kids(n)) = 2
    BY <1>4, <2>1
  <2>5. Kind(n) = "if" => Len(Kids(n)) = 2 \/ Len(Kids(n)) = 3
    BY <1>4, <2>1
  <2>. QED
    BY <2>2, <2>3, <2>4, <2>5
<1>7. Kind(n) \in DOMAIN Operators => Op(n) \in Operators[Kind(n)]
  BY <1>1 DEF OperandsOK, Kind, Op
<1>8. /\ Kind(n) = "un" => Op(n) \in {"+", "-", "!"}
      /\ Kind(n) = "calc" => Op(n) \in {"+", "-", "*", "/", "%"}
      /\ Kind(n) = "logic" => Op(n) \in {"<", "<=", ">", ">=", "==", "!=", "&&", "||"}
  BY <1>7 DEF Operators
<1>9. /\ Kind(n) = "access" => Len(Kids(n)) >= 1
      /\ Kind(n) \in ExpressionKinds =>
            \A i \in DOMAIN Kids(n) : Kind(Kid(n, i)) \in ExpressionKinds
      /\ Kind(n) \in {"if", "while"} => Kind(Kid(n, 1)) \in ExpressionKinds
      /\ Kind(n) = "assign" => Kind(Kid(n, 2)) = "variable" /\ Name(Kid(n, 2)) = Name(n)
      /\ Kind(n) = "accessAssign" => Kind(Kid(n, 1)) = "access" /\ Name(Kid(n, 1)) = Name(n)
      /\ Kind(n) = "holder" => Kind(Kid(n, 1)) \in {"uniform", "preset"}
  <2>1. Kind(n) = "holder" => Kind(Kid(n, 1)) \in {"uniform", "preset"}
    BY <1>1 DEF OperandsOK, Kind, Kids, Kid, ArrayBodies
  <2>. QED
    BY <1>1, <2>1 DEF OperandsOK, Kind, Kids, Kid, Name
<1>10. Kind(n) = "number" => prog[n].val \in Int32
  BY <1>1, KidsOfTree DEF Kind
<1>. QED
  BY <1>2, <1>3, <1>6, <1>8, <1>9, <1>10

\* A list of elements is what an array is made from, or an element of one.
LEMMA ArraysHeld ==
    ASSUME ProgOK, NEW n \in Node, NEW i \in DOMAIN Kids(n), Kind(Kid(n, i)) \in ArrayBodies
    PROVE  Kind(n) \in {"holder", "uniform", "preset"}
<1>1. OperandsOK(prog, n) /\ n \in Nodes(prog) /\ prog \in Programs
  BY KidsOfTree DEF ProgOK, Node
<1>2. n \in Node /\ i \in DOMAIN prog[n].kids /\ prog[prog[n].kids[i]].kind \in ArrayBodies
  BY DEF Kids, Kid, Kind
<1>3. \A j \in DOMAIN prog[n].kids :
         prog[prog[n].kids[j]].kind \in ArrayBodies => prog[n].kind \in {"holder"} \cup ArrayBodies
  BY <1>1 DEF OperandsOK
<1>. QED
  BY <1>2, <1>3 DEF Kind, ArrayBodies

LEMMA KidsExist ==
    ASSUME StackInv, cur # 0
    PROVE  /\ cur \in Node /\ Kids(cur) \in Seq(Nat) /\ done[cur] \in Nat
           /\ done[cur] \in 0..Len(Kids(cur))
           /\ Kind(cur) = "assign" => Len(Kids(cur)) = 2
           /\ Kind(cur) = "accessAssign" => Len(Kids(cur)) = 2
           /\ Kind(cur) = "logic" => Len(Kids(cur)) = 2
           /\ Kind(cur) = "while" => Len(Kids(cur)) = 2
           /\ Kind(cur) = "if" => Len(Kids(cur)) = 2 \/ Len(Kids(cur)) = 3
           /\ Kind(cur) = "access" => Len(Kids(cur)) >= 1
<1>1. cur \in Node
  BY Trees DEF StackInv, ProgOK, StackTypeOK, Node
<1>2. done[cur] \in 0..Len(Kids(cur)) /\ done[cur] \in Nat
  BY <1>1 DEF StackInv, StackTypeOK, StackIsPath, OnStack, Idle, WithinKids
<1>. QED
  BY <1>1, <1>2, NodeShape DEF StackInv

-----------------------------------------------------------------------------
(***************************************************************************)
(* The stack stays a path, whatever a step does to it.                     *)
(***************************************************************************)
LEMMA AcceptStack ==
    ASSUME StackInv, cur # 0, NEW i \in DOMAIN Kids(cur), Accept(i)
    PROVE  /\ prog' = prog /\ Node' = Node /\ status' = status
           /\ cur' \in Node /\ cur' > cur /\ prog[cur'].parent = cur /\ cur' # 1
           /\ done' \in [Node -> Nat \cup {Idle}]
           /\ OnStack' = OnStack \cup {cur'}
<1>1. prog' = prog /\ Node' = Node /\ status' = status
  BY DEF Accept, Node
<1>2. cur \in Node /\ Len(prog) \in Nat /\ Node = 1..Len(prog)
  BY KidsExist, Trees DEF StackInv, ProgOK, Node
<1>3. cur' = Kids(cur)[i] /\ cur' \in (cur + 1)..Len(prog) /\ prog[cur'].parent = cur
  BY <1>2, Trees DEF StackInv, ProgOK, Accept, Kid, Kids, Node
<1>4. i \in Nat
  BY KidsExist
<1>5. cur' \in Node /\ cur' > cur /\ cur' # 1
  BY <1>2, <1>3
<1>6. done' = [done EXCEPT ![cur] = i, ![cur'] = 0]
  BY <1>3 DEF Accept, Kid, Kids
<1>7. done' \in [Node -> Nat \cup {Idle}]
  BY <1>2, <1>4, <1>5, <1>6 DEF StackInv, StackTypeOK
<1>8. cur \in OnStack
  BY DEF StackInv, StackIsPath
<1>9. OnStack' = OnStack \cup {cur'}
  BY <1>1, <1>2, <1>4, <1>5, <1>6, <1>8 DEF OnStack, Idle, StackInv, StackTypeOK
<1>. QED
  BY <1>1, <1>3, <1>5, <1>7, <1>9

LEMMA ReturnStack ==
    ASSUME StackInv, Returns
    PROVE  /\ prog' = prog /\ Node' = Node /\ status' = status
           /\ cur \in Node /\ cur' = prog[cur].parent /\ cur' \in 0..(cur - 1)
           /\ done' \in [Node -> Nat \cup {Idle}]
           /\ OnStack' = OnStack \ {cur}
<1>1. prog' = prog /\ Node' = Node /\ status' = status /\ cur # 0
  BY DEF Returns, Return, Node
<1>2. cur \in Node
  BY <1>1, KidsExist
<1>3. cur' = prog[cur].parent /\ cur' \in 0..(cur - 1)
  BY <1>2, Trees DEF StackInv, ProgOK, Returns, Return, Node
<1>4. done' = [done EXCEPT ![cur] = Idle]
  BY DEF Returns, Return
<1>5. done' \in [Node -> Nat \cup {Idle}]
  BY <1>2, <1>4 DEF StackInv, StackTypeOK
<1>6. OnStack' = OnStack \ {cur}
  BY <1>1, <1>2, <1>4 DEF OnStack, StackInv, StackTypeOK
<1>. QED
  BY <1>1, <1>2, <1>3, <1>5, <1>6

LEMMA StackAfterAccept ==
    ASSUME StackInv, AcceptsKid
    PROVE  StackInv'
<1>1. PICK i \in DOMAIN Kids(cur) : Accept(i)
  BY DEF AcceptsKid
<1>2. /\ prog' = prog /\ Node' = Node /\ status' = status
      /\ cur' \in Node /\ cur' > cur /\ prog[cur'].parent = cur /\ cur' # 1
      /\ done' \in [Node -> Nat \cup {Idle}]
      /\ OnStack' = OnStack \cup {cur'}
  BY <1>1, AcceptStack DEF AcceptsKid
<1>3. /\ cur \in Node /\ Len(prog) \in Nat /\ Node = 1..Len(prog)
      /\ cur' \in Nat /\ cur \in Nat /\ OnStack \subseteq Nat
  <2>1. cur \in Node
    BY KidsExist DEF AcceptsKid
  <2>2. Len(prog) \in Nat /\ Node = 1..Len(prog)
    BY Trees DEF StackInv, ProgOK, Node
  <2>3. OnStack \subseteq Node
    BY DEF OnStack
  <2>. QED
    BY <1>2, <2>1, <2>2, <2>3
<1>4. StackTypeOK'
  BY <1>2, <1>3 DEF StackInv, StackTypeOK
<1>5. \A n \in OnStack' :
         /\ n <= cur'
         /\ n # 1 => prog[n].parent \in OnStack'
         /\ \A m \in OnStack' : m < n => m <= prog[n].parent
  <2>1. \A n \in OnStack : /\ n <= cur /\ n < cur'
                           /\ n # 1 => prog[n].parent \in OnStack
                           /\ \A m \in OnStack : m < n => m <= prog[n].parent
    <3>1. StackIsPath
      BY DEF StackInv
    <3>2. \A n \in OnStack : /\ n <= cur
                             /\ n # 1 => prog[n].parent \in OnStack
                             /\ \A m \in OnStack : m < n => m <= prog[n].parent
      BY <3>1 DEF StackIsPath
    <3>3. ASSUME NEW n \in OnStack PROVE n < cur'
      <4>1. n \in Nat /\ n <= cur
        BY <1>3, <3>2
      <4>2. cur < cur' /\ cur \in Nat /\ cur' \in Nat
        BY <1>2, <1>3
      <4>. QED
        BY <4>1, <4>2
    <3>. QED
      BY <3>2, <3>3
  <2>2. cur \in OnStack
    BY <1>3, Trees DEF StackInv, StackIsPath, ProgOK, AcceptsKid
  <2>3. ASSUME NEW n \in OnStack'
        PROVE  /\ n <= cur'
               /\ n # 1 => prog[n].parent \in OnStack'
               /\ \A m \in OnStack' : m < n => m <= prog[n].parent
    <3>1. CASE n = cur'
      <4>1. n <= cur' /\ prog[n].parent \in OnStack'
        BY <1>2, <1>3, <2>2, <3>1
      <4>2. ASSUME NEW m \in OnStack', m < n PROVE m <= prog[n].parent
        <5>1. m \in OnStack
          BY <1>2, <1>3, <3>1, <4>2
        <5>. QED
          BY <1>2, <2>1, <3>1, <5>1
      <4>. QED
        BY <4>1, <4>2
    <3>2. CASE n \in OnStack
      <4>1. n <= cur' /\ (n # 1 => prog[n].parent \in OnStack')
        BY <1>2, <1>3, <2>1, <3>2
      <4>2. ASSUME NEW m \in OnStack', m < n PROVE m <= prog[n].parent
        <5>1. n < cur' /\ n \in Nat
          BY <1>3, <2>1, <3>2
        <5>2. m # cur'
          BY <1>3, <4>2, <5>1
        <5>3. m \in OnStack
          BY <1>2, <5>2
        <5>. QED
          BY <2>1, <3>2, <4>2, <5>3
      <4>. QED
        BY <4>1, <4>2
    <3>. QED
      BY <1>2, <3>1, <3>2
  <2>. QED
    BY <2>3
<1>6. StackIsPath'
  BY <1>2, <1>3, <1>5 DEF StackIsPath
<1>7. ScopesOnStack'
  <2>1. prog[cur'].scope = InnerScope(prog, cur) /\ Scope(cur) \in Seq(Nat)
    BY <1>2, <1>3, Trees DEF StackInv, ProgOK, Node, Scope
  <2>2. \A j \in DOMAIN prog[cur'].scope :
           prog[cur'].scope[j] = cur \/ \E l \in DOMAIN Scope(cur) : prog[cur'].scope[j] = Scope(cur)[l]
    <3>1. CASE prog[cur'].scope = Scope(cur)
      BY <3>1
    <3>2. CASE prog[cur'].scope = <<cur>> \o Scope(cur)
      <4>1. /\ DOMAIN prog[cur'].scope = 1..(1 + Len(Scope(cur))) /\ Len(Scope(cur)) \in Nat
            /\ DOMAIN Scope(cur) = 1..Len(Scope(cur))
        BY <2>1, <3>2, <1>3
      <4>2. prog[cur'].scope[1] = cur
        BY <2>1, <3>2, <1>3
      <4>3. \A j \in 2..(1 + Len(Scope(cur))) : prog[cur'].scope[j] = Scope(cur)[j - 1]
        BY <2>1, <3>2, <1>3
      <4>. QED
        BY <4>1, <4>2, <4>3
    <3>. QED
      BY <2>1, <3>1, <3>2 DEF InnerScope, Scope
  <2>3. cur \in OnStack
    BY DEF StackInv, StackIsPath, AcceptsKid
  <2>4. \A n \in OnStack' : \A j \in DOMAIN prog[n].scope : prog[n].scope[j] \in OnStack'
    BY <1>2, <2>2, <2>3 DEF StackInv, ScopesOnStack, Scope
  <2>. QED
    BY <1>2, <2>4 DEF ScopesOnStack, Scope
<1>8. CallersAccepted'
  <2>1. \A n \in OnStack : n <= cur
    BY DEF StackInv, StackIsPath
  <2>2. /\ Kid(cur, i) = cur' /\ done'[cur] = i
        /\ \A m \in Node \ {cur, cur'} : done'[m] = done[m]
    BY <1>1, <1>2, <1>3 DEF Accept, StackInv, StackTypeOK
  <2>3. ASSUME NEW n \in OnStack' \ {1}
        PROVE  /\ done'[prog[n].parent] \in DOMAIN prog[prog[n].parent].kids
               /\ prog[prog[n].parent].kids[done'[prog[n].parent]] = n
    <3>1. CASE n = cur'
      BY <1>2, <2>2, <3>1 DEF Kid, Kids
    <3>2. CASE n # cur'
      <4>1. n \in OnStack \ {1} /\ n \in Node /\ n <= cur
        BY <1>2, <1>3, <2>1, <3>2 DEF OnStack
      <4>2. prog[n].parent \in Node \ {cur, cur'}
        <5>1. prog[n].parent \in 1..(n - 1)
          BY <4>1, Trees DEF StackInv, ProgOK, Node
        <5>. QED
          BY <1>2, <1>3, <4>1, <5>1
      <4>. QED
        BY <2>2, <4>1, <4>2 DEF StackInv, CallersAccepted, Kid, Kids
    <3>. QED
      BY <3>1, <3>2
  <2>. QED
    BY <1>2, <2>3 DEF CallersAccepted, Kid, Kids
<1>9. WithinKids'
  <2>1. /\ DOMAIN prog[cur].kids = 1..Len(prog[cur].kids) /\ Len(prog[cur].kids) \in Nat
        /\ Len(prog[cur'].kids) \in Nat
    BY <1>2, <1>3, NodeShape DEF StackInv, Kids
  <2>2. done' = [done EXCEPT ![cur] = i, ![cur'] = 0]
    BY <1>1 DEF Accept
  <2>3. \A n \in OnStack' : done'[n] \in 0..Len(prog[n].kids)
    BY <1>2, <1>3, <2>1, <2>2 DEF StackInv, StackTypeOK, WithinKids, Kids, OnStack
  <2>. QED
    BY <1>2, <2>3 DEF WithinKids, Kids
<1>. QED
  BY <1>2, <1>4, <1>6, <1>7, <1>8, <1>9 DEF StackInv, ProgOK

LEMMA StackAfterReturn ==
    ASSUME StackInv, Returns
    PROVE  StackInv'
<1>2. /\ prog' = prog /\ Node' = Node /\ status' = status
      /\ cur \in Node /\ cur' = prog[cur].parent /\ cur' \in 0..(cur - 1)
      /\ done' \in [Node -> Nat \cup {Idle}]
      /\ OnStack' = OnStack \ {cur}
  BY ReturnStack
<1>3. Len(prog) \in Nat /\ Node = 1..Len(prog) /\ OnStack \subseteq Node /\ prog[1].parent = 0
  BY Trees DEF StackInv, ProgOK, Node, OnStack
<1>4. StackTypeOK'
  <2>1. cur' \in 0..Len(prog)
    BY <1>2, <1>3
  <2>. QED
    BY <1>2, <2>1 DEF StackInv, StackTypeOK
<1>5. \A n \in OnStack' : n \in OnStack /\ n < cur /\ n <= cur'
  <2>1. \A n \in OnStack : /\ n <= cur
                           /\ \A m \in OnStack : m < n => m <= prog[n].parent
    BY DEF StackInv, StackIsPath
  <2>2. cur \in OnStack
    BY DEF StackInv, StackIsPath, Returns
  <2>. QED
    BY <1>2, <1>3, <2>1, <2>2
<1>6. /\ cur' = 0 => OnStack' = {}
      /\ cur' # 0 => cur' \in OnStack'
  <2>1. ASSUME cur' = 0 PROVE OnStack' = {}
    <3>1. ASSUME NEW n \in OnStack' PROVE FALSE
      <4>1. n \in 1..Len(prog) /\ n <= 0
        BY <1>3, <1>5, <2>1
      <4>. QED
        BY <1>3, <4>1
    <3>. QED
      BY <3>1
  <2>2. ASSUME cur' # 0 PROVE cur' \in OnStack'
    <3>1. cur # 1
      BY <1>2, <1>3, <2>2
    <3>2. cur' \in OnStack
      BY <1>2, <3>1 DEF StackInv, StackIsPath, Returns
    <3>. QED
      BY <1>2, <1>3, <3>2
  <2>. QED
    BY <2>1, <2>2
<1>7. \A n \in OnStack' :
         /\ n # 1 => prog[n].parent \in OnStack'
         /\ \A m \in OnStack' : m < n => m <= prog[n].parent
  <2>1. ASSUME NEW n \in OnStack', n # 1 PROVE prog[n].parent \in OnStack'
    <3>1. prog[n].parent \in OnStack
      BY <1>5, <2>1 DEF StackInv, StackIsPath
    <3>2. n \in Node /\ prog[n].parent \in 0..(n - 1)
      BY <1>3, <1>5, Trees DEF StackInv, ProgOK, Node
    <3>3. prog[n].parent < cur
      BY <1>2, <1>3, <1>5, <3>2
    <3>. QED
      BY <1>2, <1>3, <3>1, <3>3
  <2>2. ASSUME NEW n \in OnStack', NEW m \in OnStack', m < n PROVE m <= prog[n].parent
    BY <1>5, <2>2 DEF StackInv, StackIsPath
  <2>. QED
    BY <2>1, <2>2
<1>8. StackIsPath'
  BY <1>2, <1>5, <1>6, <1>7 DEF StackIsPath
<1>9. \A n \in OnStack' : \A j \in DOMAIN prog[n].scope : prog[n].scope[j] \in OnStack'
  <2>1. SUFFICES ASSUME NEW n \in OnStack', NEW j \in DOMAIN prog[n].scope
                 PROVE  prog[n].scope[j] \in OnStack'
    OBVIOUS
  <2>2. n \in Node /\ prog[n].scope[j] \in 1..(n - 1)
    BY <1>3, <1>5, Trees DEF StackInv, ProgOK, Node
  <2>3. prog[n].scope[j] \in OnStack
    BY <1>5 DEF StackInv, ScopesOnStack, Scope
  <2>4. prog[n].scope[j] < cur
    BY <1>2, <1>3, <1>5, <2>2
  <2>. QED
    BY <1>2, <1>3, <2>3, <2>4
<1>10. ScopesOnStack'
  BY <1>2, <1>9 DEF ScopesOnStack, Scope
<1>11. CallersAccepted'
  <2>1. ASSUME NEW n \in OnStack' \ {1}
        PROVE  /\ done'[prog[n].parent] \in DOMAIN prog[prog[n].parent].kids
               /\ prog[prog[n].parent].kids[done'[prog[n].parent]] = n
    <3>1. n \in OnStack \ {1} /\ n \in Node /\ n < cur
      BY <1>3, <1>5
    <3>2. prog[n].parent \in Node \ {cur}
      <4>1. prog[n].parent \in 1..(n - 1)
        BY <3>1, Trees DEF StackInv, ProgOK, Node
      <4>. QED
        BY <1>2, <1>3, <3>1, <4>1
    <3>3. done'[prog[n].parent] = done[prog[n].parent]
      BY <3>2 DEF Returns, Return, StackInv, StackTypeOK
    <3>. QED
      BY <3>1, <3>3 DEF StackInv, CallersAccepted, Kid, Kids
  <2>. QED
    BY <1>2, <2>1 DEF CallersAccepted, Kid, Kids
<1>12. WithinKids'
  <2>1. \A n \in OnStack' : done'[n] \in 0..Len(prog[n].kids)
    BY <1>2, <1>3, <1>5 DEF StackInv, StackTypeOK, WithinKids, Kids, Returns, Return
  <2>. QED
    BY <1>2, <2>1 DEF WithinKids, Kids
<1>. QED
  BY <1>2, <1>4, <1>8, <1>10, <1>11, <1>12 DEF StackInv, ProgOK

\* The frame of the root, before any of its statements.
LEMMA StackAtRoot ==
    ASSUME NEW p \in Programs
    PROVE  /\ RootFrame(p) \in [Nodes(p) -> Nat \cup {Idle}]
           /\ { n \in Nodes(p) : RootFrame(p)[n] # Idle } = {1}
           /\ p[1].scope = <<>> /\ Len(p) >= 1 /\ Len(p) \in Nat
<1>1. Nodes(p) = 1..Len(p) /\ Len(p) \in Nat /\ Len(p) >= 1 /\ p[1].scope = <<>>
  BY Trees
<1>. QED
  BY <1>1 DEF RootFrame, Idle

LEMMA StackFromRoot ==
    ASSUME ProgOK, cur = 1, done = RootFrame(prog), status \in Ends \cup {"running"}
    PROVE  StackInv
<1>1. OnStack = {1} /\ Len(prog) >= 1 /\ Len(prog) \in Nat /\ prog[1].scope = <<>>
  BY StackAtRoot DEF OnStack, Node, ProgOK
<1>2. StackTypeOK
  BY <1>1, StackAtRoot DEF StackTypeOK, Node, ProgOK
<1>3. StackIsPath
  BY <1>1 DEF StackIsPath
<1>4. ScopesOnStack /\ CallersAccepted
  BY <1>1 DEF ScopesOnStack, Scope, CallersAccepted
<1>5. WithinKids
  <2>1. 1 \in Node /\ Len(Kids(1)) \in Nat
    BY <1>1, NodeShape DEF OnStack
  <2>. QED
    BY <1>1, <2>1 DEF WithinKids, RootFrame, Node
<1>. QED
  BY <1>2, <1>3, <1>4, <1>5 DEF StackInv

LEMMA StackStep ==
    ASSUME StackInv, Moves \/ Restarts
    PROVE  StackInv'
<1>1. CASE AcceptsKid
  BY <1>1, StackAfterAccept
<1>2. CASE Returns
  BY <1>2, StackAfterReturn
<1>3. CASE Stays
  BY <1>3 DEF Stays, StackInv, ProgOK, StackTypeOK, StackIsPath, ScopesOnStack, Node, OnStack,
              Scope, CallersAccepted, WithinKids, Kid, Kids
<1>4. CASE Restarts
  <2>1. prog' = prog /\ status' = status /\ cur' = 1 /\ done' = RootFrame(prog) /\ prog \in Programs
    BY <1>4 DEF Restarts, StackInv, ProgOK
  <2>2. OnStack' = {1} /\ Len(prog) >= 1 /\ Len(prog) \in Nat /\ prog[1].scope = <<>>
    BY <2>1, StackAtRoot DEF OnStack, Node
  <2>3. StackTypeOK'
    BY <2>1, <2>2, StackAtRoot DEF StackTypeOK, Node, StackInv
  <2>4. StackIsPath'
    BY <2>1, <2>2 DEF StackIsPath
  <2>5. ScopesOnStack' /\ CallersAccepted'
    BY <2>1, <2>2 DEF ScopesOnStack, Scope, CallersAccepted
  <2>6. WithinKids'
    <3>1. 1 \in Nodes(prog) /\ Len(prog[1].kids) \in Nat /\ RootFrame(prog)[1] = 0
      BY <2>1, Trees DEF RootFrame
    <3>. QED
      BY <2>1, <2>2, <3>1 DEF WithinKids, Kids
  <2>. QED
    BY <2>1, <2>3, <2>4, <2>5, <2>6 DEF StackInv, ProgOK
<1>. QED
  BY <1>1, <1>2, <1>3, <1>4 DEF Moves

-----------------------------------------------------------------------------
(***************************************************************************)
(* The nodes the visitor is done with: those below a kid that was accepted *)
(* and is no longer on the stack.                                          *)
(***************************************************************************)
Left(m) ==
    \/ cur = 0
    \/ \E n \in OnStack : \E i \in DOMAIN Kids(n) :
          i <= done[n] /\ Kid(n, i) \notin OnStack /\ Kid(n, i) \in Ancestors(prog, m)

LEMMA AncestorsOnStack ==
    ASSUME StackInv, NEW n \in OnStack
    PROVE  Ancestors(prog, n) \subseteq OnStack
<1>. DEFINE Bad == { m \in OnStack : ~(Ancestors(prog, m) \subseteq OnStack) }
<1>1. OnStack \subseteq Node /\ Node = Nodes(prog) /\ Nodes(prog) \subseteq Nat
  BY Trees DEF StackInv, ProgOK, OnStack, Node
<1>2. SUFFICES ASSUME Bad # {} PROVE FALSE
  BY <1>2
<1>3. PICK m \in Bad : \A l \in Bad : m <= l
  <2>1. Bad \in SUBSET Nat
    BY <1>1
  <2>. HIDE DEF Bad
  <2>. QED
    BY <1>2, <2>1, Least
<1>4. m \in OnStack /\ m \in Nodes(prog) /\ ~(Ancestors(prog, m) \subseteq OnStack)
  BY <1>1, <1>3
<1>5. Ancestors(prog, m) = {m} \cup Ancestors(prog, prog[m].parent)
  BY <1>4, AncestorsOf DEF StackInv, ProgOK
<1>6. CASE m = 1
  <2>1. Ancestors(prog, m) = {m}
    BY <1>5, <1>6, AncestorsOf, Trees DEF StackInv, ProgOK
  <2>. QED
    BY <1>4, <2>1
<1>7. CASE m # 1
  <2>1. prog[m].parent \in OnStack /\ prog[m].parent \in 1..(m - 1)
    BY <1>4, <1>7, Trees DEF StackInv, StackIsPath, ProgOK
  <2>2. ~(m <= prog[m].parent)
    BY <1>1, <1>4, <2>1
  <2>3. prog[m].parent \notin Bad
    <3>. HIDE DEF Bad
    <3>. QED
      BY <1>3, <2>2
  <2>. QED
    BY <1>4, <1>5, <2>1, <2>3
<1>. QED
  BY <1>6, <1>7

\* What is on the stack is not left, and what is left stays left while kids are
\* accepted in order.
LEMMA OnStackNotLeft ==
    ASSUME StackInv, cur # 0, NEW m \in OnStack
    PROVE  ~Left(m)
BY AncestorsOnStack DEF Left

LEMMA LeftAfterAccept ==
    ASSUME StackInv, cur # 0, done[cur] + 1 \in DOMAIN Kids(cur), Accept(done[cur] + 1)
    PROVE  /\ \A m \in Node : Left(m)' <=> Left(m)
           /\ ~Left(cur')
<1>. DEFINE d == done[cur] + 1
<1>1. /\ prog' = prog /\ Node' = Node /\ cur' \in Node /\ cur' # 0
      /\ prog[cur'].parent = cur /\ OnStack' = OnStack \cup {cur'}
  <2>1. cur' # 0
    BY AcceptStack, Trees DEF StackInv, ProgOK, Node
  <2>. QED
    BY <2>1, AcceptStack
<1>2. /\ cur \in OnStack /\ cur \in Node /\ done[cur] \in Nat /\ OnStack \subseteq Node
      /\ Node \subseteq Nat
  BY KidsExist, Trees DEF StackInv, StackIsPath, OnStack, ProgOK, Node
<1>3. cur' = Kid(cur, d) /\ done' = [done EXCEPT ![cur] = d, ![cur'] = 0]
  BY DEF Accept
<1>4. cur' \notin OnStack
  <2>1. cur' > cur
    BY AcceptStack
  <2>2. \A n \in OnStack : n <= cur
    BY DEF StackInv, StackIsPath
  <2>. QED
    BY <1>1, <1>2, <2>1, <2>2
<1>5. ASSUME NEW n \in OnStack, NEW i \in DOMAIN Kids(n), Kid(n, i) = cur'
      PROVE  n = cur /\ i = d
  <2>1. n = cur
    BY <1>1, <1>2, <1>5, NodeShape DEF StackInv
  <2>2. i = d
    <3>1. prog[cur].kids[i] = prog[cur].kids[d] /\ i \in DOMAIN prog[cur].kids
      BY <1>3, <1>5, <2>1 DEF Kid, Kids
    <3>2. d \in DOMAIN prog[cur].kids /\ cur \in Nodes(prog) /\ prog \in Programs
      BY <1>2 DEF Kids, StackInv, ProgOK, Node
    <3>. HIDE DEF d
    <3>. QED
      BY <3>1, <3>2, KidsOfTree
  <2>. QED
    BY <2>1, <2>2
<1>6. /\ done'[cur'] = 0 /\ done'[cur] = d
      /\ \A n \in OnStack \ {cur} : done'[n] = done[n]
  BY <1>1, <1>2, <1>3, <1>4 DEF StackInv, StackTypeOK
<1>7. \A n \in Node : DOMAIN Kids(n) = 1..Len(Kids(n)) /\ Len(Kids(n)) \in Nat
  BY NodeShape DEF StackInv
<1>8. ASSUME NEW m \in Node, Left(m) PROVE Left(m)'
  <2>10. PICK n \in OnStack : \E i \in DOMAIN Kids(n) :
           i <= done[n] /\ Kid(n, i) \notin OnStack /\ Kid(n, i) \in Ancestors(prog, m)
    BY <1>8 DEF Left
  <2>1. PICK i \in DOMAIN Kids(n) :
           i <= done[n] /\ Kid(n, i) \notin OnStack /\ Kid(n, i) \in Ancestors(prog, m)
    BY <2>10
  <2>2. Kid(n, i) # cur'
    <3>1. n = cur => i <= done[cur]
      BY <2>1
    <3>. QED
      BY <1>2, <1>5, <3>1
  <2>3. i <= done'[n]
    <3>1. i \in Nat
      BY <1>2, <1>7
    <3>. QED
      BY <1>2, <1>6, <2>1, <3>1
  <2>4. /\ n \in OnStack' /\ i \in DOMAIN prog'[n].kids /\ i <= done'[n]
        /\ prog'[n].kids[i] \notin OnStack' /\ prog'[n].kids[i] \in Ancestors(prog', m)
    BY <1>1, <2>1, <2>2, <2>3 DEF Kid, Kids
  <2>. QED
    BY <2>4 DEF Left, Kid, Kids
<1>9. ASSUME NEW m \in Node, Left(m)' PROVE Left(m)
  <2>10. PICK n \in OnStack' : \E i \in DOMAIN prog[n].kids :
           /\ i <= done'[n] /\ prog[n].kids[i] \notin OnStack'
           /\ prog[n].kids[i] \in Ancestors(prog, m)
    BY <1>1, <1>9 DEF Left, Kid, Kids
  <2>1. PICK i \in DOMAIN prog[n].kids :
           /\ i <= done'[n] /\ prog[n].kids[i] \notin OnStack'
           /\ prog[n].kids[i] \in Ancestors(prog, m)
    BY <2>10
  <2>2. n \in OnStack
    <3>1. i >= 1 /\ i \in Nat
      <4>1. n \in Node
        BY <1>1, <1>2
      <4>2. DOMAIN prog[n].kids = 1..Len(prog[n].kids) /\ Len(prog[n].kids) \in Nat
        BY <1>7, <4>1 DEF Kids
      <4>. QED
        BY <2>1, <4>2
    <3>. QED
      BY <1>1, <1>2, <1>6, <1>7, <2>1, <3>1 DEF Kids
  <2>3. i <= done[n]
    <3>1. CASE n = cur
      <4>1. i # d
        BY <1>1, <1>3, <2>1, <3>1 DEF Kid
      <4>2. i \in Nat /\ i <= d
        BY <1>2, <1>6, <1>7, <2>1, <3>1 DEF Kids
      <4>. QED
        BY <1>2, <3>1, <4>1, <4>2
    <3>2. CASE n # cur
      BY <1>6, <2>1, <2>2, <3>2
    <3>. QED
      BY <3>1, <3>2
  <2>4. prog[n].kids[i] \notin OnStack
    BY <1>1, <2>1
  <2>. QED
    BY <2>1, <2>2, <2>3, <2>4 DEF Left, Kid, Kids
<1>10. ~Left(cur')
  <2>1. SUFFICES ASSUME Left(cur') PROVE FALSE
    OBVIOUS
  <2>20. PICK n \in OnStack : \E i \in DOMAIN Kids(n) :
           i <= done[n] /\ Kid(n, i) \notin OnStack /\ Kid(n, i) \in Ancestors(prog, cur')
    BY <2>1 DEF Left
  <2>2. PICK i \in DOMAIN Kids(n) :
           i <= done[n] /\ Kid(n, i) \notin OnStack /\ Kid(n, i) \in Ancestors(prog, cur')
    BY <2>20
  <2>3. Ancestors(prog, cur') = {cur'} \cup Ancestors(prog, cur)
    BY <1>1, AncestorsOf DEF StackInv, ProgOK, Node
  <2>4. Kid(n, i) = cur'
    BY <1>2, <2>2, <2>3, AncestorsOnStack
  <2>. QED
    BY <1>2, <1>5, <2>2, <2>4
<1>. QED
  BY <1>8, <1>9, <1>10

LEMMA LeftAfterReturn ==
    ASSUME StackInv, Returns
    PROVE  /\ \A m \in Node : Left(m) => Left(m)'
           /\ \A m \in Node :
                 Left(m)' => \/ Left(m) \/ m = cur
                             \/ \E j \in DOMAIN Kids(cur) : Kid(cur, j) \in Ancestors(prog, m)
           /\ \A m \in Node : m = cur => Left(m)'
<1>1. /\ prog' = prog /\ Node' = Node /\ cur \in Node /\ cur' = prog[cur].parent
      /\ OnStack' = OnStack \ {cur} /\ cur # 0
  BY ReturnStack DEF Returns
<1>2. done' = [done EXCEPT ![cur] = Idle] /\ cur \in OnStack /\ OnStack \subseteq Node
      /\ \A n \in OnStack' : done'[n] = done[n]
  BY <1>1 DEF Returns, Return, StackInv, StackTypeOK, StackIsPath, OnStack
<1>3. cur' # 0 => /\ cur' \in OnStack' /\ done[cur'] \in DOMAIN Kids(cur')
                  /\ Kid(cur', done[cur']) = cur
  <2>1. cur' # 0 => cur # 1
    BY <1>1, Trees DEF StackInv, ProgOK
  <2>2. cur' # cur
    BY <1>1, Trees DEF StackInv, ProgOK, Node
  <2>. QED
    BY <1>1, <1>2, <2>1, <2>2 DEF StackInv, StackIsPath, CallersAccepted
<1>4. ASSUME NEW m \in Node, cur \in Ancestors(prog, m) PROVE Left(m)'
  <2>1. CASE cur' = 0
    BY <2>1 DEF Left
  <2>2. CASE cur' # 0
    <3>. DEFINE i == done[cur']
    <3>1. i <= done[cur']
      <4>1. cur' \in Node
        BY <1>1, <1>2, <1>3, <2>2
      <4>2. i \in Int
        BY <1>3, <2>2, <4>1, NodeShape DEF StackInv
      <4>. QED
        BY <4>2
    <3>2. /\ cur' \in OnStack' /\ i \in DOMAIN prog'[cur'].kids /\ i <= done'[cur']
          /\ prog'[cur'].kids[i] \notin OnStack' /\ prog'[cur'].kids[i] \in Ancestors(prog', m)
      BY <1>1, <1>2, <1>3, <1>4, <2>2, <3>1 DEF Kid, Kids
    <3>. QED
      BY <3>2 DEF Left, Kid, Kids
  <2>. QED
    BY <2>1, <2>2
<1>5. ASSUME NEW m \in Node, Left(m) PROVE Left(m)'
  <2>10. PICK n \in OnStack : \E i \in DOMAIN Kids(n) :
           i <= done[n] /\ Kid(n, i) \notin OnStack /\ Kid(n, i) \in Ancestors(prog, m)
    BY <1>1, <1>5 DEF Left
  <2>1. PICK i \in DOMAIN Kids(n) :
           i <= done[n] /\ Kid(n, i) \notin OnStack /\ Kid(n, i) \in Ancestors(prog, m)
    BY <2>10
  <2>2. CASE n = cur
    <3>1. cur \in Ancestors(prog, Kid(cur, i)) /\ Kid(cur, i) \in Node
      <4>1. Kid(cur, i) \in Node /\ prog[Kid(cur, i)].parent = cur
        BY <1>1, <2>1, <2>2, NodeShape DEF StackInv
      <4>2. Ancestors(prog, Kid(cur, i)) = {Kid(cur, i)} \cup Ancestors(prog, cur)
        BY <4>1, AncestorsOf DEF StackInv, ProgOK, Node
      <4>. QED
        BY <1>1, <4>1, <4>2, AncestorsPath DEF StackInv, ProgOK, Node
    <3>2. Ancestors(prog, Kid(cur, i)) \subseteq Ancestors(prog, m)
      BY <2>1, <2>2, AncestorsPath DEF StackInv, ProgOK, Node
    <3>. QED
      BY <1>4, <3>1, <3>2
  <2>3. CASE n # cur
    <3>1. /\ n \in OnStack' /\ i \in DOMAIN prog'[n].kids /\ i <= done'[n]
          /\ prog'[n].kids[i] \notin OnStack' /\ prog'[n].kids[i] \in Ancestors(prog', m)
      BY <1>1, <1>2, <2>1, <2>3 DEF Kid, Kids
    <3>. QED
      BY <3>1 DEF Left, Kid, Kids
  <2>. QED
    BY <2>2, <2>3
<1>6. ASSUME NEW m \in Node, Left(m)'
      PROVE  \/ Left(m) \/ m = cur
             \/ \E j \in DOMAIN Kids(cur) : Kid(cur, j) \in Ancestors(prog, m)
  <2>1. SUFFICES ASSUME cur \in Ancestors(prog, m) \/ Left(m) PROVE
             \/ Left(m) \/ m = cur
             \/ \E j \in DOMAIN Kids(cur) : Kid(cur, j) \in Ancestors(prog, m)
    <3>1. CASE cur' = 0
      <4>1. cur = 1
        <5>1. cur # 1 => prog[cur].parent \in 1..(cur - 1)
          BY <1>1, Trees DEF StackInv, ProgOK, Node
        <5>. QED
          BY <1>1, <3>1, <5>1
      <4>. QED
        BY <2>1, <4>1, AncestorsPath DEF StackInv, ProgOK, Node
    <3>2. CASE cur' # 0
      <4>10. PICK n \in OnStack' : \E i \in DOMAIN prog[n].kids :
               /\ i <= done'[n] /\ prog[n].kids[i] \notin OnStack'
               /\ prog[n].kids[i] \in Ancestors(prog, m)
        BY <1>1, <1>6, <3>2 DEF Left, Kid, Kids
      <4>1. PICK i \in DOMAIN prog[n].kids :
               /\ i <= done'[n] /\ prog[n].kids[i] \notin OnStack'
               /\ prog[n].kids[i] \in Ancestors(prog, m)
        BY <4>10
      <4>2. n \in OnStack /\ done'[n] = done[n]
        BY <1>1, <1>2, <4>1
      <4>3. CASE prog[n].kids[i] = cur
        BY <2>1, <4>1, <4>3
      <4>4. CASE prog[n].kids[i] # cur
        <5>1. Left(m)
          BY <1>1, <4>1, <4>2, <4>4 DEF Left, Kid, Kids
        <5>. QED
          BY <2>1, <5>1
      <4>. QED
        BY <4>3, <4>4
    <3>. QED
      BY <3>1, <3>2
  <2>2. CASE cur \in Ancestors(prog, m)
    BY <1>1, <2>2, AncestorsPath DEF StackInv, ProgOK, Node, Kids, Kid
  <2>. QED
    BY <2>1, <2>2
<1>7. cur \in Ancestors(prog, cur)
  BY <1>1, AncestorsPath DEF StackInv, ProgOK, Node
<1>. QED
  BY <1>4, <1>5, <1>6, <1>7

-----------------------------------------------------------------------------
(***************************************************************************)
(* The blocks around a node.                                               *)
(***************************************************************************)
Around(n) == { Scope(n)[i] : i \in DOMAIN Scope(n) }

\* The block a name is defined in by an assignment to it.
Home(n) == Scope(n)[1]

LEMMA BlocksAround ==
    ASSUME ProgOK, NEW n \in Node
    PROVE  /\ Around(n) = { a \in Ancestors(prog, n) \ {n} : IsBlock(prog, a) }
           /\ \A i, j \in DOMAIN Scope(n) : i < j => Scope(n)[j] < Scope(n)[i]
<1>. DEFINE Good(k) == /\ Around(k) = { a \in Ancestors(prog, k) \ {k} : IsBlock(prog, a) }
                       /\ \A i, j \in DOMAIN Scope(k) : i < j => Scope(k)[j] < Scope(k)[i]
            Bad == { k \in Node : ~Good(k) }
<1>1. Node = Nodes(prog) /\ prog \in Programs /\ Node \subseteq Nat
  BY Trees DEF ProgOK, Node
<1>2. SUFFICES ASSUME Bad # {} PROVE FALSE
  <2>1. Good(n)
    BY <1>2
  <2>. QED
    BY <2>1
<1>3. PICK k \in Bad : \A l \in Bad : k <= l
  <2>1. Bad \in SUBSET Nat
    BY <1>1
  <2>. HIDE DEF Bad
  <2>. QED
    BY <1>2, <2>1, Least
<1>4. k \in Node /\ ~Good(k)
  BY <1>3
<1>5. k # 1
  <2>1. ASSUME k = 1 PROVE Good(k)
    <3>1. Scope(k) = <<>> /\ DOMAIN <<>> = {}
      BY <1>1, <2>1, Trees DEF Scope
    <3>2. Ancestors(prog, k) = {k}
      BY <1>1, <1>4, <2>1, AncestorsOf, Trees
    <3>. QED
      BY <3>1, <3>2 DEF Around
  <2>. HIDE DEF Good
  <2>. QED
    BY <1>4, <2>1
<1>. DEFINE q == prog[k].parent
<1>6. /\ q \in Node /\ q < k /\ Scope(k) = InnerScope(prog, q)
      /\ Ancestors(prog, k) = {k} \cup Ancestors(prog, q)
  <2>1. q \in 1..(k - 1) /\ k \in 1..Len(prog) /\ Len(prog) \in Nat /\ Scope(k) = InnerScope(prog, q)
    BY <1>1, <1>4, <1>5, Trees DEF Scope
  <2>2. Ancestors(prog, k) = {k} \cup Ancestors(prog, q)
    BY <1>1, <1>4, AncestorsOf
  <2>3. Node = 1..Len(prog)
    BY <1>1, Trees
  <2>. HIDE DEF q
  <2>. QED
    BY <2>1, <2>2, <2>3
<1>7. Good(q)
  <2>1. k \in Nat /\ q \in Nat /\ ~(k <= q)
    BY <1>1, <1>4, <1>6
  <2>2. q \notin Bad
    <3>. HIDE DEF Bad, q
    <3>. QED
      BY <1>3, <2>1
  <2>. HIDE DEF Good, q
  <2>. QED
    BY <1>6, <2>2
<1>8. q \in Ancestors(prog, q) /\ Ancestors(prog, q) \subseteq 1..q /\ k \notin Ancestors(prog, q)
  <2>1. q \in Ancestors(prog, q) /\ Ancestors(prog, q) \subseteq 1..q
    BY <1>1, <1>6, AncestorsPath
  <2>2. k \notin 1..q
    BY <1>1, <1>4, <1>6
  <2>. QED
    BY <2>1, <2>2
<1>9. Scope(q) \in Seq(Nat) /\ \A i \in DOMAIN Scope(q) : Scope(q)[i] < q
  <2>1. Scope(q) \in Seq(Nat) /\ \A i \in DOMAIN Scope(q) : Scope(q)[i] \in 1..(q - 1)
    BY <1>1, <1>6, Trees DEF Scope
  <2>. QED
    BY <1>1, <1>6, <2>1
<1>. HIDE DEF q
<1>10. CASE ~IsBlock(prog, q)
  <2>1. Scope(k) = Scope(q)
    BY <1>6, <1>10 DEF InnerScope, Scope
  <2>2. { a \in Ancestors(prog, k) \ {k} : IsBlock(prog, a) }
         = { a \in Ancestors(prog, q) \ {q} : IsBlock(prog, a) }
    BY <1>6, <1>8, <1>10
  <2>. QED
    BY <1>4, <1>7, <2>1, <2>2 DEF Around
<1>11. CASE IsBlock(prog, q)
  <2>1. Scope(k) = <<q>> \o Scope(q) /\ q \in Nat
    BY <1>1, <1>6, <1>11 DEF InnerScope, Scope
  <2>2. /\ Len(Scope(k)) = Len(Scope(q)) + 1 /\ Scope(k)[1] = q
        /\ \A i \in 2..Len(Scope(k)) : i - 1 \in DOMAIN Scope(q) /\ Scope(k)[i] = Scope(q)[i - 1]
        /\ DOMAIN Scope(k) = 1..Len(Scope(k)) /\ DOMAIN Scope(q) = 1..Len(Scope(q))
        /\ Len(Scope(q)) \in Nat
    BY <1>9, <2>1
  <2>3. Around(k) = {q} \cup Around(q)
    <3>1. \A i \in DOMAIN Scope(q) : i + 1 \in 2..Len(Scope(k)) /\ Scope(k)[i + 1] = Scope(q)[i]
      BY <2>2
    <3>2. 1 \in DOMAIN Scope(k)
      BY <2>2
    <3>3. \A i \in DOMAIN Scope(k) : Scope(k)[i] \in {q} \cup Around(q)
      BY <2>2 DEF Around
    <3>4. \A i \in DOMAIN Scope(q) : Scope(q)[i] \in Around(k)
      BY <2>2, <3>1 DEF Around
    <3>5. q \in Around(k)
      BY <2>2, <3>2 DEF Around
    <3>. QED
      BY <3>3, <3>4, <3>5 DEF Around
  <2>4. { a \in Ancestors(prog, k) \ {k} : IsBlock(prog, a) }
         = {q} \cup { a \in Ancestors(prog, q) \ {q} : IsBlock(prog, a) }
    BY <1>6, <1>8, <1>11
  <2>5. ASSUME NEW i \in DOMAIN Scope(k), NEW j \in DOMAIN Scope(k), i < j
        PROVE  Scope(k)[j] < Scope(k)[i]
    <3>1. j \in 2..Len(Scope(k))
      BY <2>2, <2>5
    <3>2. CASE i = 1
      BY <1>9, <2>2, <3>1, <3>2
    <3>3. CASE i # 1
      <4>1. i \in 2..Len(Scope(k)) /\ i - 1 < j - 1
        BY <2>2, <2>5, <3>3
      <4>. QED
        BY <1>7, <2>2, <3>1, <4>1
    <3>. QED
      BY <3>2, <3>3
  <2>. QED
    BY <1>4, <1>7, <2>3, <2>4, <2>5
<1>. QED
  BY <1>10, <1>11

\* The block a node is in is the innermost around it, and the others are around that.
LEMMA HomeInnermost ==
    ASSUME ProgOK, NEW n \in Node, n # 1
    PROVE  /\ Home(n) \in Around(n) /\ Home(n) \in Node /\ Home(n) < n
           /\ Around(n) = {Home(n)} \cup Around(Home(n))
           /\ \A b \in Around(Home(n)) : b < Home(n)
<1>1. Node = Nodes(prog) /\ prog \in Programs /\ Node \subseteq Nat
  BY Trees DEF ProgOK, Node
<1>2. /\ Scope(n) \in Seq(Nat) /\ Scope(n) # <<>>
      /\ \A i \in DOMAIN Scope(n) : Scope(n)[i] \in Node /\ IsBlock(prog, Scope(n)[i]) /\ Scope(n)[i] < n
  <2>1. /\ Scope(n) \in Seq(Nat) /\ Scope(n) # <<>> /\ Node = 1..Len(prog) /\ Len(prog) \in Nat
        /\ \A i \in DOMAIN Scope(n) : Scope(n)[i] \in 1..(n - 1) /\ IsBlock(prog, Scope(n)[i])
    BY <1>1, Trees DEF Scope
  <2>. QED
    BY <2>1
<1>3. 1 \in DOMAIN Scope(n) /\ \A i \in DOMAIN Scope(n) : i \in Nat /\ i >= 1
  BY <1>2
<1>. DEFINE h == Home(n)
<1>4. h \in Around(n) /\ h \in Node /\ h < n /\ IsBlock(prog, h)
  BY <1>2, <1>3 DEF Home, Around
<1>5. \A b \in Around(n) : b <= h /\ b \in Nat
  <2>1. ASSUME NEW i \in DOMAIN Scope(n) PROVE Scope(n)[i] <= h
    <3>1. i = 1 \/ 1 < i
      BY <1>3
    <3>2. Scope(n)[i] \in Nat /\ Scope(n)[1] \in Nat
      BY <1>1, <1>2, <1>3
    <3>3. 1 < i => Scope(n)[i] < Scope(n)[1]
      BY <1>3, BlocksAround
    <3>. QED
      BY <3>1, <3>2, <3>3 DEF Home
  <2>. QED
    BY <1>1, <1>2, <2>1 DEF Around
<1>. HIDE DEF h
<1>6. /\ Around(n) = { a \in Ancestors(prog, n) \ {n} : IsBlock(prog, a) }
      /\ Around(h) = { a \in Ancestors(prog, h) \ {h} : IsBlock(prog, a) }
  BY <1>4, BlocksAround
<1>7. Ancestors(prog, h) \subseteq Ancestors(prog, n) /\ Ancestors(prog, h) \subseteq 1..h
      /\ \A a \in Ancestors(prog, n) : a <= h => a \in Ancestors(prog, h)
  BY <1>1, <1>4, <1>6, AncestorsPath
<1>8. Around(h) \subseteq Around(n)
  <2>1. n \notin Ancestors(prog, h)
    BY <1>1, <1>4, <1>7
  <2>. QED
    BY <1>6, <1>7, <2>1
<1>9. Around(n) \subseteq {h} \cup Around(h)
  BY <1>5, <1>6, <1>7
<1>10. \A b \in Around(h) : b < h
  BY <1>1, <1>4, <1>6, <1>7
<1>. QED
  BY <1>4, <1>8, <1>9, <1>10 DEF h

\* Of two blocks around a node the lower is around the higher.
LEMMA OuterAround ==
    ASSUME ProgOK, NEW n \in Node, NEW b \in Around(n)
    PROVE  /\ b \in Node /\ b < n /\ Around(b) \subseteq Around(n)
           /\ \A c \in Around(n) : c < b <=> c \in Around(b)
<1>1. Node = Nodes(prog) /\ prog \in Programs /\ Node \subseteq Nat
  BY Trees DEF ProgOK, Node
<1>2. Around(n) = { a \in Ancestors(prog, n) \ {n} : IsBlock(prog, a) }
  BY BlocksAround
<1>3. Ancestors(prog, n) \subseteq 1..n /\ b \in Ancestors(prog, n) /\ n \in 1..Len(prog) /\ Len(prog) \in Nat
      /\ Node = 1..Len(prog)
  BY <1>1, <1>2, AncestorsPath, Trees
<1>4. b \in Node /\ b < n
  BY <1>2, <1>3
<1>5. Around(b) = { a \in Ancestors(prog, b) \ {b} : IsBlock(prog, a) }
  BY <1>4, BlocksAround
<1>6. /\ Ancestors(prog, b) \subseteq Ancestors(prog, n) /\ Ancestors(prog, b) \subseteq 1..b
      /\ \A a \in Ancestors(prog, n) : a <= b => a \in Ancestors(prog, b)
  BY <1>1, <1>3, <1>4, AncestorsPath
<1>7. Around(b) \subseteq Around(n)
  <2>1. n \notin Ancestors(prog, b)
    BY <1>3, <1>4, <1>6
  <2>. QED
    BY <1>2, <1>5, <1>6, <2>1
<1>8. ASSUME NEW c \in Around(n) PROVE c < b <=> c \in Around(b)
  <2>1. c \in Ancestors(prog, n) /\ IsBlock(prog, c) /\ c \in Nat /\ b \in Nat
    BY <1>2, <1>3, <1>4
  <2>2. c < b => c \in Around(b)
    BY <1>5, <1>6, <2>1
  <2>3. c \in Around(b) => c < b
    BY <1>5, <1>6, <2>1
  <2>. QED
    BY <2>2, <2>3
<1>. QED
  BY <1>4, <1>7, <1>8

\* What is below an expression is an expression in the same blocks.
LEMMA BelowExpressions ==
    ASSUME ProgOK, NEW e \in Node, Kind(e) \in ExpressionKinds,
           NEW m \in Node, e \in Ancestors(prog, m)
    PROVE  Kind(m) \in ExpressionKinds /\ Scope(m) = Scope(e)
<1>. DEFINE Good(k) == Kind(k) \in ExpressionKinds /\ Scope(k) = Scope(e)
            Bad == { k \in Node : e \in Ancestors(prog, k) /\ ~Good(k) }
<1>1. Node = Nodes(prog) /\ prog \in Programs /\ Node \subseteq Nat
  BY Trees DEF ProgOK, Node
<1>2. SUFFICES ASSUME Bad # {} PROVE FALSE
  <2>1. Good(m)
    BY <1>2
  <2>. QED
    BY <2>1
<1>3. PICK k \in Bad : \A l \in Bad : k <= l
  <2>1. Bad \in SUBSET Nat
    BY <1>1
  <2>. HIDE DEF Bad
  <2>. QED
    BY <1>2, <2>1, Least
<1>4. k \in Node /\ e \in Ancestors(prog, k) /\ ~Good(k) /\ k # e
  BY <1>3
<1>5. Ancestors(prog, k) \subseteq 1..k /\ k # 1 /\ k \in Nat
  BY <1>1, <1>4, AncestorsPath
<1>. DEFINE q == prog[k].parent
<1>6. /\ q \in Node /\ q < k /\ e \in Ancestors(prog, q) /\ Scope(k) = InnerScope(prog, q)
      /\ \E i \in DOMAIN Kids(q) : Kid(q, i) = k
  <2>1. q \in 1..(k - 1) /\ k \in 1..Len(prog) /\ Len(prog) \in Nat /\ Scope(k) = InnerScope(prog, q)
        /\ Node = 1..Len(prog)
    BY <1>1, <1>4, <1>5, Trees DEF Scope
  <2>2. Ancestors(prog, k) = {k} \cup Ancestors(prog, q)
    BY <1>1, <1>4, AncestorsOf
  <2>3. \E i \in DOMAIN Kids(q) : Kid(q, i) = k
    BY <1>1, <1>4, <1>5, KidsOfTree DEF Kids, Kid
  <2>. HIDE DEF q
  <2>. QED
    BY <1>4, <2>1, <2>2, <2>3
<1>. HIDE DEF q
<1>7. Good(q)
  <2>1. k \in Nat /\ q \in Nat /\ ~(k <= q)
    BY <1>1, <1>4, <1>6
  <2>2. q \notin Bad
    <3>. HIDE DEF Bad
    <3>. QED
      BY <1>3, <2>1
  <2>. HIDE DEF Good
  <2>. QED
    BY <1>6, <2>2
<1>8. Kind(k) \in ExpressionKinds
  BY <1>6, <1>7, NodeShape
<1>9. ~IsBlock(prog, q)
  BY <1>7 DEF IsBlock, Kind, ExpressionKinds, Arity, BlockKinds
<1>10. Scope(k) = Scope(q)
  BY <1>6, <1>9 DEF InnerScope, Scope
<1>. QED
  BY <1>4, <1>7, <1>8, <1>10

\* A node above m that is below the block m is in sees the same blocks.
LEMMA SameBlocks ==
    ASSUME ProgOK, NEW q \in Node, NEW m \in Node, q \in Ancestors(prog, m), m # 1, Home(m) < q
    PROVE  Scope(m) = Scope(q) /\ (q = m \/ ~IsBlock(prog, q))
<1>. DEFINE Good(k) == Home(k) < q => Scope(k) = Scope(q)
            Bad == { k \in Node : q \in Ancestors(prog, k) /\ ~Good(k) }
<1>1. Node = Nodes(prog) /\ prog \in Programs /\ Node \subseteq Nat
  BY Trees DEF ProgOK, Node
<1>2. ASSUME Bad # {} PROVE FALSE
  <2>1. PICK k \in Bad : \A l \in Bad : k <= l
    <3>1. Bad \in SUBSET Nat
      BY <1>1
    <3>. HIDE DEF Bad
    <3>. QED
      BY <1>2, <3>1, Least
  <2>2. k \in Node /\ q \in Ancestors(prog, k) /\ Home(k) < q /\ Scope(k) # Scope(q) /\ k # q
    BY <2>1
  <2>3. Ancestors(prog, k) \subseteq 1..k /\ k # 1 /\ k \in Nat /\ q \in Nat
    BY <1>1, <2>2, AncestorsPath
  <2>. DEFINE r == prog[k].parent
  <2>4. r \in Node /\ r < k /\ q \in Ancestors(prog, r) /\ Scope(k) = InnerScope(prog, r)
    <3>1. /\ r \in 1..(k - 1) /\ k \in 1..Len(prog) /\ Len(prog) \in Nat
          /\ Scope(k) = InnerScope(prog, r) /\ Node = 1..Len(prog)
      BY <1>1, <2>2, <2>3, Trees DEF Scope
    <3>2. Ancestors(prog, k) = {k} \cup Ancestors(prog, r)
      BY <1>1, <2>2, AncestorsOf
    <3>. HIDE DEF r
    <3>. QED
      BY <2>2, <3>1, <3>2
  <2>. HIDE DEF r
  <2>5. q <= r /\ r \in Nat
    BY <1>1, <2>4, AncestorsPath
  <2>6. ~IsBlock(prog, r)
    <3>1. ASSUME IsBlock(prog, r) PROVE Scope(k)[1] = r
      <4>1. Scope(k) = <<r>> \o Scope(r) /\ Scope(r) \in Seq(Nat)
        BY <1>1, <2>4, <3>1, Trees DEF InnerScope, Scope
      <4>. QED
        BY <2>5, <4>1
    <3>. QED
      BY <2>2, <2>3, <2>5, <3>1 DEF Home
  <2>7. Scope(k) = Scope(r)
    BY <2>4, <2>6 DEF InnerScope, Scope
  <2>8. r \notin Bad
    <3>1. ~(k <= r)
      BY <2>3, <2>4, <2>5
    <3>. HIDE DEF Bad
    <3>. QED
      BY <2>1, <3>1
  <2>. QED
    BY <2>2, <2>4, <2>7, <2>8 DEF Home
<1>3. Scope(m) = Scope(q)
  BY <1>2
<1>4. ASSUME q # m, IsBlock(prog, q) PROVE FALSE
  <2>1. q \in Around(m)
    BY <1>4, BlocksAround
  <2>2. q = Home(m) \/ q < Home(m)
    BY <2>1, HomeInnermost
  <2>3. Home(m) \in Nat /\ q \in Nat
    BY <1>1, HomeInnermost
  <2>. QED
    BY <2>2, <2>3
<1>. QED
  BY <1>3, <1>4

Assigns == { m \in Node : Kind(m) = "assign" }

\* The assignments to the name of m written in a block around that of m.
Rivals(m) == { l \in Assigns : Name(l) = Name(m) /\ Home(l) \in Around(Home(m)) }

LEMMA NoRoot ==
    ASSUME ProgOK, NEW m \in Node, Kind(m) # "root"
    PROVE  m # 1
BY Trees DEF ProgOK, Kind

\* An assignment is not inside a rival, nor around one: one is visited before the other.
LEMMA RivalsApart ==
    ASSUME ProgOK, NEW m \in Assigns, NEW l \in Rivals(m)
    PROVE  /\ l \in Assigns /\ l # m /\ l \notin Ancestors(prog, m) /\ m \notin Ancestors(prog, l)
           /\ Home(l) < Home(m) /\ Home(l) \in Around(m)
           /\ Rivals(l) \subseteq Rivals(m)
<1>1. /\ m \in Node /\ l \in Node /\ Kind(m) = "assign" /\ Kind(l) = "assign" /\ m # 1 /\ l # 1
      /\ Name(l) = Name(m) /\ Home(l) \in Around(Home(m)) /\ l \in Assigns
  BY NoRoot DEF Assigns, Rivals
<1>2. Home(m) \in Around(m) /\ Home(m) \in Node
  BY <1>1, HomeInnermost
<1>3. Home(l) < Home(m) /\ Around(Home(l)) \subseteq Around(Home(m)) /\ Home(l) \in Around(m)
  BY <1>1, <1>2, OuterAround, HomeInnermost
<1>4. Home(l) # Home(m)
  <2>1. Home(m) \in Nat
    BY <1>2, Trees DEF ProgOK, Node
  <2>. QED
    BY <1>3, <2>1
<1>5. l \notin Ancestors(prog, m) /\ m \notin Ancestors(prog, l)
  <2>1. "assign" \in ExpressionKinds
    BY DEF ExpressionKinds, Arity
  <2>. QED
    BY <1>1, <1>4, <2>1, BelowExpressions DEF Home
<1>6. Rivals(l) \subseteq Rivals(m)
  BY <1>1, <1>3 DEF Rivals
<1>. QED
  BY <1>1, <1>3, <1>4, <1>5, <1>6

\* The assignments that can define the name of a node, and those that come first among them.
LEMMA FirstDefinition ==
    ASSUME ProgOK, NEW S \in SUBSET Node, S # {}
    PROVE  \E m \in S : \A l \in S : m <= l
<1>1. Node \subseteq Nat
  BY Trees DEF ProgOK, Node
<1>. QED
  BY <1>1, Least

LEMMA DefinitionsOf ==
    ASSUME ProgOK, NEW n \in Node, n # 1
    PROVE  /\ Definitions(prog, n) = { m \in Assigns : Name(m) = Name(n) /\ Home(m) \in Around(n) }
           /\ \A m \in Definitions(prog, n) : Rivals(m) \subseteq Definitions(prog, n)
           /\ Kind(n) = "assign" => n \in Definitions(prog, n) /\ Rivals(n) \subseteq Definitions(prog, n)
<1>1. Definitions(prog, n) = { m \in Assigns : Name(m) = Name(n) /\ Home(m) \in Around(n) }
  BY DEF Definitions, Assigns, Node, Kind, Name, Home, Scope, Around
<1>2. ASSUME NEW m \in Definitions(prog, n), NEW l \in Rivals(m) PROVE l \in Definitions(prog, n)
  <2>1. m \in Assigns /\ Name(m) = Name(n) /\ Home(m) \in Around(n)
    BY <1>1
  <2>2. l \in Assigns /\ Name(l) = Name(m) /\ Home(l) \in Around(Home(m))
    BY DEF Rivals
  <2>3. Around(Home(m)) \subseteq Around(n)
    BY <2>1, OuterAround
  <2>. QED
    BY <1>1, <2>1, <2>2, <2>3
<1>3. Kind(n) = "assign" => n \in Definitions(prog, n)
  BY <1>1, HomeInnermost DEF Assigns
<1>. QED
  BY <1>1, <1>2, <1>3

-----------------------------------------------------------------------------
(***************************************************************************)
(* The stack and the nodes before it.                                      *)
(***************************************************************************)
LEMMA StackIsAncestors ==
    ASSUME StackInv, cur # 0
    PROVE  OnStack = Ancestors(prog, cur)
<1>1. /\ Node = Nodes(prog) /\ prog \in Programs /\ Node \subseteq Nat /\ cur \in OnStack
      /\ OnStack \subseteq Node /\ Node = 1..Len(prog) /\ Len(prog) \in Nat
  BY Trees DEF StackInv, StackIsPath, ProgOK, Node, OnStack
<1>. DEFINE Bad == { n \in OnStack : n \notin Ancestors(prog, cur) }
            Deep == { cur - n : n \in Bad }
<1>2. \A n \in OnStack : n <= cur
  BY DEF StackInv, StackIsPath
<1>3. Ancestors(prog, cur) \subseteq OnStack
  BY <1>1, AncestorsOnStack
<1>4. SUFFICES ASSUME Bad # {} PROVE FALSE
  BY <1>3
<1>5. PICK n \in Bad : \A l \in Bad : l <= n
  <2>1. Deep \in SUBSET Nat /\ Deep # {}
    <3>1. cur \in Nat /\ \A l \in Bad : l \in Nat /\ l <= cur
      BY <1>1, <1>2
    <3>2. \A l \in Bad : cur - l \in Nat
      <4>. HIDE DEF Bad
      <4>. QED
        BY <3>1
    <3>. HIDE DEF Bad
    <3>. QED
      BY <1>4, <3>2
  <2>2. PICK d \in Deep : \A e \in Deep : d <= e
    <3>. HIDE DEF Deep
    <3>. QED
      BY <2>1, Least
  <2>3. PICK n \in Bad : d = cur - n
    BY <2>2
  <2>4. ASSUME NEW l \in Bad PROVE l <= n
    <3>1. cur - l \in Deep
      BY <2>4
    <3>2. l \in Nat /\ n \in Nat /\ cur \in Nat
      BY <1>1, <2>3, <2>4
    <3>. HIDE DEF Deep, Bad
    <3>. QED
      BY <2>2, <2>3, <3>1, <3>2
  <2>. QED
    BY <2>4
<1>6. n \in OnStack /\ n \notin Ancestors(prog, cur) /\ n < cur /\ n \in Nat /\ cur \in Nat
  <2>1. cur \in Ancestors(prog, cur)
    BY <1>1, AncestorsPath
  <2>. QED
    BY <1>1, <1>2, <2>1
\* The frame above n.
<1>. DEFINE Above == { r \in OnStack : n < r }
<1>7. PICK r \in Above : \A l \in Above : r <= l
  <2>1. Above \in SUBSET Nat /\ Above # {}
    BY <1>1, <1>6
  <2>. HIDE DEF Above
  <2>. QED
    BY <2>1, Least
<1>8. r \in OnStack /\ n < r /\ r \in Nat /\ r # 1 /\ r \in Node
  BY <1>1, <1>6, <1>7
<1>9. prog[r].parent \in OnStack /\ n <= prog[r].parent /\ prog[r].parent < r /\ prog[r].parent \in Nat
  <2>1. prog[r].parent \in OnStack /\ n <= prog[r].parent
    BY <1>6, <1>8 DEF StackInv, StackIsPath
  <2>2. prog[r].parent \in 1..(r - 1)
    BY <1>1, <1>8, Trees
  <2>. QED
    BY <1>8, <2>1, <2>2
<1>10. prog[r].parent = n
  <2>1. ~(n < prog[r].parent)
    BY <1>7, <1>8, <1>9
  <2>. QED
    BY <1>6, <1>9, <2>1
<1>11. r \in Ancestors(prog, cur)
  <2>1. ~(r <= n)
    BY <1>6, <1>8
  <2>2. r \notin Bad
    <3>. HIDE DEF Bad, Deep
    <3>. QED
      BY <1>5, <2>1
  <2>. QED
    BY <1>8, <2>2
<1>12. n \in Ancestors(prog, r)
  <2>1. Ancestors(prog, r) = {r} \cup Ancestors(prog, n)
    BY <1>1, <1>8, <1>10, AncestorsOf
  <2>2. n \in Ancestors(prog, n)
    BY <1>1, <1>6, AncestorsPath
  <2>. QED
    BY <2>1, <2>2
<1>. QED
  BY <1>1, <1>6, <1>11, <1>12, AncestorsPath

\* A frame that is not on top has the next one at the kid it accepted last.
LEMMA NextFrame ==
    ASSUME StackInv, cur # 0, NEW n \in OnStack, n # cur
    PROVE  /\ done[n] \in DOMAIN Kids(n) /\ Kid(n, done[n]) \in OnStack
           /\ Kid(n, done[n]) \in Ancestors(prog, cur)
<1>1. /\ Node = Nodes(prog) /\ prog \in Programs /\ cur \in Node /\ n \in Node
      /\ OnStack = Ancestors(prog, cur)
  BY StackIsAncestors, KidsExist DEF ProgOK, StackInv, Node, OnStack
<1>2. PICK i \in DOMAIN Kids(n) : Kid(n, i) \in Ancestors(prog, cur)
  BY <1>1, AncestorsPath DEF Kids, Kid
<1>3. Kid(n, i) \in OnStack /\ Kid(n, i) # 1 /\ prog[Kid(n, i)].parent = n
  BY <1>1, <1>2, NodeShape DEF StackInv
<1>. QED
  BY <1>1, <1>2, <1>3 DEF StackInv, CallersAccepted

\* What comes before the node on top and is not around it has been left ...
LEMMA LeftBefore ==
    ASSUME StackInv, cur # 0, NEW m \in Node, m < cur, m \notin OnStack
    PROVE  Left(m)
<1>1. /\ Node = Nodes(prog) /\ prog \in Programs /\ Node \subseteq Nat /\ cur \in Node
      /\ OnStack = Ancestors(prog, cur) /\ OnStack \subseteq Node
  BY StackIsAncestors, KidsExist, Trees DEF ProgOK, StackInv, Node, OnStack
<1>2. /\ 1 \in Ancestors(prog, cur) /\ 1 \in Ancestors(prog, m) /\ m \in Ancestors(prog, m)
      /\ Ancestors(prog, m) \subseteq 1..m /\ m \in Nat /\ cur \in Nat
  BY <1>1, AncestorsPath
\* The first node on the way to m that is not on the stack.
<1>. DEFINE Off == { q \in Ancestors(prog, m) : q \notin OnStack }
<1>3. PICK q \in Off : \A l \in Off : q <= l
  <2>1. Off \in SUBSET Nat /\ Off # {}
    BY <1>1, <1>2
  <2>. HIDE DEF Off
  <2>. QED
    BY <2>1, Least
<1>4. q \in Node /\ q \in Ancestors(prog, m) /\ q \notin OnStack /\ q # 1 /\ q \in Nat
  BY <1>1, <1>2, <1>3, Trees
<1>. DEFINE n == prog[q].parent
<1>5. /\ n \in Node /\ n < q /\ n \in Ancestors(prog, m) /\ n \in Nat
      /\ \E i \in DOMAIN Kids(n) : Kid(n, i) = q
  <2>1. n \in 1..(q - 1) /\ q \in 1..Len(prog) /\ Node = 1..Len(prog) /\ Len(prog) \in Nat
    BY <1>1, <1>4, Trees
  <2>2. Ancestors(prog, q) = {q} \cup Ancestors(prog, n) /\ Ancestors(prog, q) \subseteq Ancestors(prog, m)
    BY <1>1, <1>4, AncestorsOf, AncestorsPath
  <2>3. n \in Node /\ n < q
    BY <2>1
  <2>4. n \in Ancestors(prog, n)
    BY <1>1, <2>3, AncestorsPath
  <2>5. \E i \in DOMAIN Kids(n) : Kid(n, i) = q
    BY <1>1, <1>4, KidsOfTree DEF Kids, Kid
  <2>. HIDE DEF n
  <2>. QED
    BY <1>1, <2>2, <2>3, <2>4, <2>5
<1>. HIDE DEF n
<1>6. n \in OnStack
  <2>1. ~(q <= n)
    BY <1>4, <1>5
  <2>2. n \notin Off
    <3>. HIDE DEF Off
    <3>. QED
      BY <1>3, <2>1
  <2>. QED
    BY <1>5, <2>2
<1>7. PICK i \in DOMAIN Kids(n) : Kid(n, i) = q
  BY <1>5
<1>8. n # cur
  BY <1>1, <1>2, <1>5
<1>9. done[n] \in DOMAIN Kids(n) /\ Kid(n, done[n]) \in Ancestors(prog, cur)
  BY <1>6, <1>8, NextFrame
<1>10. i <= done[n]
  <2>1. i \in Nat /\ done[n] \in Nat
    BY <1>5, <1>7, <1>9, NodeShape DEF StackInv
  <2>2. ~(done[n] < i)
    <3>1. ASSUME done[n] < i PROVE cur < m
      BY <1>1, <1>4, <1>5, <1>7, <1>9, <3>1, KidsApart DEF Kids, Kid
    <3>. QED
      BY <1>2, <3>1
  <2>. QED
    BY <2>1, <2>2
<1>. QED
  BY <1>4, <1>6, <1>7, <1>10 DEF Left

\* ... and what has been left comes before the node on top, or is below it.
LEMMA LeftIsBefore ==
    ASSUME StackInv, cur # 0, NEW m \in Node, Left(m)
    PROVE  m < cur \/ cur \in Ancestors(prog, m)
<1>1. /\ Node = Nodes(prog) /\ prog \in Programs /\ cur \in Node /\ OnStack \subseteq Node
  BY KidsExist DEF ProgOK, StackInv, Node, OnStack
<1>2. PICK n \in OnStack : \E i \in DOMAIN Kids(n) :
           i <= done[n] /\ Kid(n, i) \notin OnStack /\ Kid(n, i) \in Ancestors(prog, m)
  BY DEF Left
<1>3. PICK i \in DOMAIN Kids(n) :
           i <= done[n] /\ Kid(n, i) \notin OnStack /\ Kid(n, i) \in Ancestors(prog, m)
  BY <1>2
<1>4. n \in Node
  BY <1>1
<1>5. CASE n = cur
  <2>1. Kid(cur, i) \in Node /\ prog[Kid(cur, i)].parent = cur
    BY <1>3, <1>4, <1>5, NodeShape DEF StackInv
  <2>2. Ancestors(prog, Kid(cur, i)) = {Kid(cur, i)} \cup Ancestors(prog, cur)
    BY <1>1, <2>1, AncestorsOf
  <2>3. cur \in Ancestors(prog, cur) /\ Ancestors(prog, Kid(cur, i)) \subseteq Ancestors(prog, m)
    BY <1>1, <1>3, <1>5, <2>1, AncestorsPath
  <2>. QED
    BY <2>2, <2>3
<1>6. CASE n # cur
  <2>1. /\ done[n] \in DOMAIN Kids(n) /\ Kid(n, done[n]) \in OnStack
        /\ Kid(n, done[n]) \in Ancestors(prog, cur)
    BY <1>6, NextFrame
  <2>2. i < done[n]
    <3>1. i \in Nat /\ done[n] \in Nat
      BY <1>3, <1>4, <2>1, NodeShape DEF StackInv
    <3>2. i # done[n]
      BY <1>3, <2>1
    <3>. QED
      BY <1>3, <3>1, <3>2
  <2>. QED
    BY <1>1, <1>3, <1>4, <2>1, <2>2, KidsApart DEF Kids, Kid
<1>. QED
  BY <1>5, <1>6

\* A step down: what it skips is left, what a loop comes back to is no longer.
LEMMA LeftAfterAnyAccept ==
    ASSUME StackInv, cur # 0, NEW i \in DOMAIN Kids(cur), Accept(i), NEW m \in Node
    PROVE  /\ Left(m)' => \/ Left(m)
                          \/ \E j \in DOMAIN Kids(cur) :
                                done[cur] < j /\ j < i /\ Kid(cur, j) \in Ancestors(prog, m)
           /\ Left(m) => Left(m)' \/ (i <= done[cur] /\ cur \in Ancestors(prog, m))
           /\ cur' \in Ancestors(prog, m) => ~Left(m)'
<1>1. /\ prog' = prog /\ Node' = Node /\ cur' \in Node /\ cur' > cur /\ prog[cur'].parent = cur
      /\ OnStack' = OnStack \cup {cur'} /\ cur' = Kid(cur, i)
  BY AcceptStack DEF Accept
<1>2. /\ Node = Nodes(prog) /\ prog \in Programs /\ Node \subseteq Nat /\ cur \in Node
      /\ cur \in OnStack /\ OnStack \subseteq Node /\ done \in [Node -> Nat \cup {Idle}]
      /\ \A n \in OnStack : n <= cur
  BY KidsExist, Trees DEF ProgOK, StackInv, StackTypeOK, StackIsPath, Node, OnStack
<1>3. /\ done'[cur] = i /\ done'[cur'] = 0 /\ cur # cur'
      /\ \A n \in OnStack : n # cur => done'[n] = done[n]
  <2>1. cur # cur' /\ \A n \in OnStack : n # cur'
    BY <1>1, <1>2
  <2>. QED
    BY <1>1, <1>2, <2>1 DEF Accept
<1>4. ASSUME NEW n \in Node, NEW k \in DOMAIN Kids(n)
      PROVE  /\ k \in Nat /\ k >= 1 /\ Kid(n, k) \in Node /\ prog[Kid(n, k)].parent = n
             /\ Kid(n, k) > n /\ (k # i => Kid(cur, k) # cur' \/ n # cur)
  <2>1. k \in Nat /\ k >= 1 /\ Kid(n, k) \in Node /\ prog[Kid(n, k)].parent = n /\ Kid(n, k) > n
    BY NodeShape DEF StackInv
  <2>2. k # i /\ n = cur => Kid(cur, k) # cur'
    BY <1>1, <1>2, KidsOfTree DEF Kids, Kid
  <2>. QED
    BY <2>1, <2>2
<1>5. Left(m)' <=>
        \E n \in OnStack' : \E k \in DOMAIN Kids(n) :
           k <= done'[n] /\ Kid(n, k) \notin OnStack' /\ Kid(n, k) \in Ancestors(prog, m)
  <2>1. cur' # 0
    BY <1>1, <1>2, Trees
  <2>. QED
    BY <1>1, <2>1 DEF Left, Kids, Kid
<1>6. ASSUME Left(m)'
      PROVE  \/ Left(m)
             \/ \E j \in DOMAIN Kids(cur) :
                   done[cur] < j /\ j < i /\ Kid(cur, j) \in Ancestors(prog, m)
  <2>10. PICK n \in OnStack' : \E k \in DOMAIN Kids(n) :
           k <= done'[n] /\ Kid(n, k) \notin OnStack' /\ Kid(n, k) \in Ancestors(prog, m)
    BY <1>5, <1>6
  <2>1. PICK k \in DOMAIN Kids(n) :
           k <= done'[n] /\ Kid(n, k) \notin OnStack' /\ Kid(n, k) \in Ancestors(prog, m)
    BY <2>10
  <2>2. n \in Node /\ k \in DOMAIN Kids(n) /\ k \in Nat /\ k >= 1
    BY <1>1, <1>2, <1>4, <2>1 DEF Kids
  <2>3. n # cur'
    BY <1>3, <2>1, <2>2
  <2>4. n \in OnStack
    BY <1>1, <2>1, <2>3
  <2>5. CASE n # cur
    BY <1>1, <1>3, <2>1, <2>2, <2>4, <2>5 DEF Left
  <2>6. CASE n = cur
    <3>1. i \in Nat /\ done[cur] \in Nat
      BY <1>2, <1>4, KidsExist
    <3>2. k < i
      <4>1. k # i
        BY <1>1, <2>1, <2>6
      <4>. QED
        BY <1>3, <2>1, <2>2, <2>6, <3>1, <4>1
    <3>3. CASE k <= done[cur]
      BY <1>1, <2>1, <2>2, <2>4, <2>6, <3>3 DEF Left
    <3>4. CASE done[cur] < k
      BY <2>1, <2>2, <2>6, <3>2, <3>4
    <3>. QED
      BY <2>2, <3>1, <3>3, <3>4
  <2>. QED
    BY <2>5, <2>6
<1>7. ASSUME Left(m) PROVE Left(m)' \/ (i <= done[cur] /\ cur \in Ancestors(prog, m))
  <2>10. PICK n \in OnStack : \E k \in DOMAIN Kids(n) :
           k <= done[n] /\ Kid(n, k) \notin OnStack /\ Kid(n, k) \in Ancestors(prog, m)
    BY <1>7 DEF Left
  <2>1. PICK k \in DOMAIN Kids(n) :
           k <= done[n] /\ Kid(n, k) \notin OnStack /\ Kid(n, k) \in Ancestors(prog, m)
    BY <2>10
  <2>2. n \in Node /\ n \in OnStack' /\ k \in Nat
    BY <1>1, <1>2, <1>4, <2>1
  <2>3. CASE n # cur
    <3>1. Kid(n, k) \notin OnStack'
      BY <1>1, <1>4, <2>1, <2>2, <2>3
    <3>2. k <= done'[n]
      BY <1>3, <2>1, <2>3
    <3>. QED
      BY <1>5, <2>1, <2>2, <3>1, <3>2
  <2>4. CASE n = cur
    <3>1. cur \in Ancestors(prog, m)
      <4>1. Ancestors(prog, Kid(cur, k)) = {Kid(cur, k)} \cup Ancestors(prog, cur)
        BY <1>2, <1>4, <2>1, <2>4, AncestorsOf
      <4>2. cur \in Ancestors(prog, cur) /\ Ancestors(prog, Kid(cur, k)) \subseteq Ancestors(prog, m)
        BY <1>2, <2>1, <2>4, AncestorsPath
      <4>. QED
        BY <4>1, <4>2
    <3>2. i \in Nat /\ done[cur] \in Nat
      BY <1>2, <1>4, KidsExist
    <3>3. ASSUME ~(i <= done[cur]) PROVE Left(m)'
      <4>1. k <= i /\ k # i
        BY <2>1, <2>2, <2>4, <3>2, <3>3
      <4>2. Kid(n, k) # cur'
        BY <1>4, <2>1, <2>2, <2>4, <4>1
      <4>3. Kid(n, k) \notin OnStack'
        BY <1>1, <2>1, <4>2
      <4>. QED
        BY <1>3, <1>5, <2>1, <2>2, <2>4, <4>1, <4>3
    <3>. QED
      BY <3>1, <3>3
  <2>. QED
    BY <2>3, <2>4
<1>8. ASSUME cur' \in Ancestors(prog, m), Left(m)' PROVE FALSE
  <2>10. PICK n \in OnStack' : \E k \in DOMAIN Kids(n) :
           k <= done'[n] /\ Kid(n, k) \notin OnStack' /\ Kid(n, k) \in Ancestors(prog, m)
    BY <1>5, <1>8
  <2>1. PICK k \in DOMAIN Kids(n) :
           k <= done'[n] /\ Kid(n, k) \notin OnStack' /\ Kid(n, k) \in Ancestors(prog, m)
    BY <2>10
  <2>2. n \in Node /\ k \in DOMAIN Kids(n) /\ k \in Nat /\ k >= 1 /\ Kid(n, k) \in Node
        /\ prog[Kid(n, k)].parent = n
    BY <1>1, <1>2, <1>4, <2>1 DEF Kids
  <2>3. n # cur' /\ n \in OnStack /\ n <= cur /\ n < cur'
    <3>1. n # cur'
      BY <1>3, <2>1, <2>2
    <3>. QED
      BY <1>1, <1>2, <2>1, <2>2, <3>1
  <2>4. Ancestors(prog, cur') = {cur'} \cup Ancestors(prog, cur) /\ Ancestors(prog, cur) = OnStack
    BY <1>1, <1>2, AncestorsOf, StackIsAncestors
  <2>5. ~(Kid(n, k) <= cur')
    <3>1. Kid(n, k) <= cur' => Kid(n, k) \in Ancestors(prog, cur')
      BY <1>2, <1>8, <2>1, AncestorsPath
    <3>. QED
      BY <1>1, <2>1, <2>4, <3>1
  <2>6. cur' \in Ancestors(prog, Kid(n, k)) /\ cur' # Kid(n, k)
    <3>1. cur' <= Kid(n, k) /\ cur' # Kid(n, k)
      BY <1>1, <1>2, <2>2, <2>5
    <3>. QED
      BY <1>2, <1>8, <2>1, <3>1, AncestorsPath
  <2>7. cur' \in Ancestors(prog, n)
    <3>1. Ancestors(prog, Kid(n, k)) = {Kid(n, k)} \cup Ancestors(prog, n)
      BY <1>2, <2>2, AncestorsOf
    <3>. QED
      BY <2>6, <3>1
  <2>8. cur' <= n
    BY <1>2, <2>2, <2>7, AncestorsPath
  <2>. QED
    BY <1>1, <1>2, <2>2, <2>3, <2>8
<1>. QED
  BY <1>6, <1>7, <1>8

\* A step up: what the visit method skipped is left with its node.
LEMMA SkippedByReturn ==
    ASSUME StackInv, Returns, NEW m \in Node
    PROVE  /\ Left(m)' => \/ Left(m) \/ m = cur
                          \/ \E j \in DOMAIN Kids(cur) :
                                done[cur] < j /\ Kid(cur, j) \in Ancestors(prog, m)
           /\ cur \in Ancestors(prog, m) => Left(m)'
<1>1. /\ Node = Nodes(prog) /\ prog \in Programs /\ cur \in Node /\ prog' = prog /\ Node' = Node
      /\ cur # 0 /\ Node \subseteq Nat /\ cur \in OnStack
  BY ReturnStack, Trees DEF Returns, StackInv, StackIsPath, ProgOK, Node
<1>2. ASSUME Left(m)', ~Left(m), m # cur
      PROVE  \E j \in DOMAIN Kids(cur) : done[cur] < j /\ Kid(cur, j) \in Ancestors(prog, m)
  <2>1. PICK j \in DOMAIN Kids(cur) : Kid(cur, j) \in Ancestors(prog, m)
    BY <1>2, LeftAfterReturn
  <2>2. j \in Nat /\ done[cur] \in Nat /\ Kid(cur, j) \in Node /\ Kid(cur, j) > cur
    BY <1>1, NodeShape, KidsExist DEF StackInv
  <2>3. Kid(cur, j) \notin OnStack
    BY <1>1, <2>2 DEF StackInv, StackIsPath
  <2>4. ~(j <= done[cur])
    BY <1>1, <1>2, <2>1, <2>3 DEF Left
  <2>. QED
    BY <2>1, <2>2, <2>4
<1>3. ASSUME cur \in Ancestors(prog, m) PROVE Left(m)'
  <2>. PICK c \in Node : c = cur
    BY <1>1
  <2>1. Left(c)'
    BY <1>1, LeftAfterReturn
  <2>2. Ancestors(prog, c) \subseteq Ancestors(prog, m)
    BY <1>1, <1>3, AncestorsPath
  <2>3. CASE cur' = 0
    BY <2>3 DEF Left
  <2>4. CASE cur' # 0
    <3>1. \E n \in OnStack' : \E k \in DOMAIN Kids(n) :
             k <= done'[n] /\ Kid(n, k) \notin OnStack' /\ Kid(n, k) \in Ancestors(prog, c)
      BY <1>1, <2>1, <2>4 DEF Left, Kids, Kid
    <3>2. \E n \in OnStack' : \E k \in DOMAIN Kids(n) :
             k <= done'[n] /\ Kid(n, k) \notin OnStack' /\ Kid(n, k) \in Ancestors(prog, m)
      BY <2>2, <3>1
    <3>. QED
      BY <1>1, <3>2 DEF Left, Kids, Kid
  <2>. QED
    BY <2>3, <2>4
<1>. QED
  BY <1>2, <1>3

\* Nothing below the node on top has been left before it accepts its first kid.
LEMMA FreshBelow ==
    ASSUME StackInv, cur # 0, done[cur] = 0, NEW m \in Node, cur \in Ancestors(prog, m)
    PROVE  ~Left(m)
<1>1. /\ Node = Nodes(prog) /\ prog \in Programs /\ Node \subseteq Nat /\ cur \in Node
      /\ OnStack \subseteq Node /\ OnStack = Ancestors(prog, cur) /\ \A n \in OnStack : n <= cur
  BY StackIsAncestors, KidsExist, Trees DEF ProgOK, StackInv, StackIsPath, Node, OnStack
<1>2. ASSUME NEW n \in OnStack, NEW k \in DOMAIN Kids(n),
             k <= done[n], Kid(n, k) \notin OnStack, Kid(n, k) \in Ancestors(prog, m)
      PROVE  FALSE
  <2>1. /\ n \in Node /\ n <= cur /\ k \in Nat /\ k >= 1 /\ Kid(n, k) \in Node
        /\ prog[Kid(n, k)].parent = n
    BY <1>1, <1>2, NodeShape DEF StackInv
  <2>2. n # cur
    BY <1>2, <2>1
  <2>3. ~(Kid(n, k) <= cur)
    BY <1>1, <1>2, AncestorsPath
  <2>4. cur \in Ancestors(prog, Kid(n, k)) /\ cur # Kid(n, k)
    <3>1. cur <= Kid(n, k) /\ cur # Kid(n, k)
      BY <1>1, <2>1, <2>3
    <3>. QED
      BY <1>1, <1>2, <3>1, AncestorsPath
  <2>5. cur \in Ancestors(prog, n)
    BY <1>1, <2>1, <2>4, AncestorsOf
  <2>6. cur <= n
    BY <1>1, <2>1, <2>5, AncestorsPath
  <2>. QED
    BY <1>1, <2>1, <2>2, <2>6
<1>. QED
  BY <1>2 DEF Left
=============================================================================

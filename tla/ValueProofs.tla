---------------------------- MODULE ValueProofs ----------------------------
(***************************************************************************)
(* What every other proof module uses: induction over the naturals, in the *)
(* form that a set of naturals that is not empty has a least element, so   *)
(* that what is not true of every number fails first at some number;       *)
(* recursion, that a recursive function exists and so can be expanded; and *)
(* the int arithmetic, where an operation that does not fault has a result *)
(* of the width, whatever the width is.                                    *)
(***************************************************************************)
EXTENDS Int32, Sequences, WellFoundedInduction, TLAPS

LEMMA NatOrder == IsWellFoundedOn({ ss \in Nat \X Nat : ss[1] < ss[2] }, Nat)
BY NatLessThanWellFounded DEF OpToRel

LEMMA Least ==
    ASSUME NEW T \in SUBSET Nat, T # {}
    PROVE  \E x \in T : \A y \in T : x <= y
<1>. DEFINE R == { ss \in Nat \X Nat : ss[1] < ss[2] }
<1>1. IsWellFoundedOn(R, Nat)
  BY NatOrder
<1>. HIDE DEF R
<1>2. \E x \in T : \A y \in T : <<y, x>> \notin R
  BY <1>1, WFMin
<1>. USE DEF R
<1>3. \A x, y \in Nat : <<y, x>> \notin R => x <= y
  OBVIOUS
<1>. QED
  BY <1>2, <1>3

LEMMA UpTo ==
    ASSUME NEW n \in Nat, NEW G, 0 \in G, \A k \in 1..n : k - 1 \in G => k \in G
    PROVE  0..n \subseteq G
<1>. DEFINE Bad == { k \in 0..n : k \notin G }
<1>1. SUFFICES ASSUME Bad # {} PROVE FALSE
  OBVIOUS
<1>2. PICK k \in Bad : \A l \in Bad : k <= l
  <2>1. Bad \in SUBSET Nat
    OBVIOUS
  <2>. HIDE DEF Bad
  <2>. QED
    BY <1>1, <2>1, Least
<1>3. k \in 1..n /\ k - 1 \in 0..n /\ k - 1 \notin G
  OBVIOUS
<1>4. k - 1 \in Bad /\ ~(k <= k - 1)
  BY <1>3
<1>. HIDE DEF Bad
<1>. QED
  BY <1>2, <1>4

LEMMA FromSmaller ==
    ASSUME NEW n \in Nat, NEW G,
           \A k \in 0..n : (\A j \in 0..n : j < k => j \in G) => k \in G
    PROVE  0..n \subseteq G
<1>. DEFINE Bad == { k \in 0..n : k \notin G }
<1>1. SUFFICES ASSUME Bad # {} PROVE FALSE
  OBVIOUS
<1>2. PICK k \in Bad : \A l \in Bad : k <= l
  <2>1. Bad \in SUBSET Nat
    OBVIOUS
  <2>. HIDE DEF Bad
  <2>. QED
    BY <1>1, <2>1, Least
<1>3. ASSUME NEW j \in 0..n, j < k PROVE j \in G
  <2>1. j \notin Bad
    BY <1>2, <1>3
  <2>. QED
    BY <2>1
<1>. QED
  BY <1>3

\* A function on 0..n is defined from its value at a smaller argument, prev[k], by a step
\* that maps D into itself.
Recurrence(n, D, b, prev, step) ==
    /\ n \in Nat /\ b \in D
    /\ prev \in [1..n -> Nat] /\ \A k \in 1..n : prev[k] < k
    /\ step \in [1..n -> [D -> D]]

Solves(f, n, D, b, prev, step) ==
    /\ f \in [0..n -> D]
    /\ f[0] = b
    /\ \A k \in 1..n : f[k] = step[k][f[prev[k]]]

LEMMA Recursion ==
    ASSUME NEW n, NEW D, NEW b, NEW prev, NEW step, Recurrence(n, D, b, prev, step)
    PROVE  \E f : Solves(f, n, D, b, prev, step)
<1>. USE DEF Recurrence, Solves
<1>. DEFINE Upto(m) == \E f \in [0..m -> D] : f[0] = b /\ \A k \in 1..m : f[k] = step[k][f[prev[k]]]
            Bad == { m \in 0..n : ~Upto(m) }
<1>1. SUFFICES ASSUME Bad # {} PROVE FALSE
  <2>1. n \in 0..n
    OBVIOUS
  <2>. QED
    BY <2>1
<1>2. PICK m \in Bad : \A l \in Bad : m <= l
  <2>1. Bad \in SUBSET Nat
    OBVIOUS
  <2>. HIDE DEF Bad
  <2>. QED
    BY <1>1, <2>1, Least
<1>3. CASE m = 0
  <2>1. [k \in 0..0 |-> b] \in [0..0 -> D] /\ 1..0 = {} /\ 0 \in 0..0
    OBVIOUS
  <2>2. Upto(0)
    BY <2>1
  <2>. QED
    BY <1>2, <1>3, <2>2
<1>4. CASE m # 0
  <2>1. m - 1 \in 0..n /\ m \in 1..n /\ m - 1 \notin Bad
    <3>1. m \in 0..n /\ m - 1 \in 0..n /\ m \in 1..n
      BY <1>4
    <3>. HIDE DEF Bad
    <3>2. m - 1 \notin Bad
      BY <1>2, <3>1
    <3>. QED
      BY <3>1, <3>2
  <2>2. PICK f \in [0..(m - 1) -> D] :
             f[0] = b /\ \A k \in 1..(m - 1) : f[k] = step[k][f[prev[k]]]
    BY <2>1
  <2>. DEFINE g == [k \in 0..m |-> IF k = m THEN step[m][f[prev[m]]] ELSE f[k]]
  <2>3. prev[m] \in 0..(m - 1)
    BY <2>1
  <2>4. g \in [0..m -> D]
    BY <2>1, <2>2, <2>3
  <2>5. g[0] = b
    BY <2>1, <2>2
  <2>6. ASSUME NEW k \in 1..m PROVE g[k] = step[k][g[prev[k]]]
    <3>1. prev[k] \in 0..(k - 1) /\ k \in 1..n
      BY <2>1
    <3>2. g[prev[k]] = f[prev[k]]
      BY <2>1, <3>1
    <3>3. CASE k = m
      BY <3>2, <3>3
    <3>4. CASE k # m
      BY <2>2, <3>2, <3>4
    <3>. QED
      BY <3>3, <3>4
  <2>. HIDE DEF g
  <2>7. Upto(m)
    BY <2>4, <2>5, <2>6
  <2>. QED
    BY <1>2, <2>7
<1>. QED
  BY <1>3, <1>4

\* The same from lo up to hi, each value from the one before it.
Steps(lo, hi, D, b, step) ==
    /\ lo \in Nat /\ hi \in Nat /\ lo <= hi /\ b \in D
    /\ step \in [(lo + 1)..hi -> [D -> D]]

Iterates(f, lo, hi, D, b, step) ==
    /\ f \in [lo..hi -> D]
    /\ f = [k \in lo..hi |-> IF k = lo THEN b ELSE step[k][f[k - 1]]]

LEMMA Iteration ==
    ASSUME NEW lo, NEW hi, NEW D, NEW b, NEW step, Steps(lo, hi, D, b, step)
    PROVE  \E f : Iterates(f, lo, hi, D, b, step)
<1>. lo \in Nat /\ hi \in Nat /\ lo <= hi /\ b \in D /\ step \in [(lo + 1)..hi -> [D -> D]]
  BY DEF Steps
<1>. DEFINE n    == hi - lo
            prev == [k \in 1..n |-> k - 1]
            s    == [k \in 1..n |-> step[lo + k]]
<1>1. n \in Nat /\ \A k \in 1..n : lo + k \in (lo + 1)..hi
  OBVIOUS
<1>2. s \in [1..n -> [D -> D]] /\ prev \in [1..n -> Nat] /\ \A k \in 1..n : prev[k] < k
  <2>1. prev \in [1..n -> Nat] /\ \A k \in 1..n : prev[k] < k
    BY <1>1
  <2>. HIDE DEF n, prev
  <2>2. s \in [1..n -> [D -> D]]
    BY <1>1
  <2>. QED
    BY <2>1, <2>2
<1>3. PICK g : Solves(g, n, D, b, prev, s)
  <2>. HIDE DEF n, prev, s
  <2>1. Recurrence(n, D, b, prev, s)
    BY <1>1, <1>2 DEF Recurrence
  <2>. QED
    BY <2>1, Recursion
<1>4. g \in [0..n -> D] /\ g[0] = b /\ \A k \in 1..n : g[k] = s[k][g[prev[k]]]
  <2>. HIDE DEF n, prev, s
  <2>. QED
    BY <1>3 DEF Solves
<1>. DEFINE f == [k \in lo..hi |-> g[k - lo]]
<1>5. f \in [lo..hi -> D] /\ f[lo] = b
  <2>1. \A k \in lo..hi : k - lo \in 0..n
    OBVIOUS
  <2>2. lo \in lo..hi /\ lo - lo = 0
    OBVIOUS
  <2>. HIDE DEF n
  <2>. QED
    BY <1>4, <2>1, <2>2
<1>6. ASSUME NEW k \in (lo + 1)..hi PROVE f[k] = step[k][f[k - 1]]
  <2>1. k - lo \in 1..n /\ k \in lo..hi /\ k - 1 \in lo..hi /\ lo + (k - lo) = k
        /\ (k - lo) - 1 = (k - 1) - lo
    OBVIOUS
  <2>2. prev[k - lo] = (k - lo) - 1
    BY <2>1
  <2>. HIDE DEF n, prev
  <2>3. s[k - lo] = step[k]
    BY <2>1
  <2>. HIDE DEF s
  <2>4. f[k] = g[k - lo] /\ f[k - 1] = g[(k - lo) - 1]
    BY <2>1
  <2>. QED
    BY <1>4, <2>1, <2>2, <2>3, <2>4
<1>7. \A k \in lo..hi : k # lo => k \in (lo + 1)..hi
  OBVIOUS
<1>. HIDE DEF f
<1>8. f = [k \in lo..hi |-> IF k = lo THEN b ELSE step[k][f[k - 1]]]
  BY <1>5, <1>6, <1>7
<1>. QED
  BY <1>5, <1>8 DEF Iterates

LEMMA Through ==
    ASSUME NEW lo \in Nat, NEW hi \in Nat, NEW G, lo \in G,
           \A k \in (lo + 1)..hi : k - 1 \in G => k \in G
    PROVE  lo..hi \subseteq G
<1>. DEFINE Bad == { k \in lo..hi : k \notin G }
<1>1. SUFFICES ASSUME Bad # {} PROVE FALSE
  OBVIOUS
<1>2. PICK k \in Bad : \A l \in Bad : k <= l
  <2>1. Bad \in SUBSET Nat
    OBVIOUS
  <2>. HIDE DEF Bad
  <2>. QED
    BY <1>1, <2>1, Least
<1>3. k \in (lo + 1)..hi /\ k - 1 \in lo..hi /\ k - 1 \notin G
  OBVIOUS
<1>4. k - 1 \in Bad /\ ~(k <= k - 1)
  BY <1>3
<1>. HIDE DEF Bad
<1>. QED
  BY <1>2, <1>4

LEMMA FunctionsAreSeqs ==
    ASSUME NEW T, NEW n \in Nat, NEW f \in [1..n -> T]
    PROVE  f \in Seq(T) /\ Len(f) = n
OBVIOUS

LEMMA SeqsAreFunctions ==
    ASSUME NEW T, NEW f \in Seq(T)
    PROVE  Len(f) \in Nat /\ DOMAIN f = 1..Len(f) /\ f = [i \in 1..Len(f) |-> f[i]]
<1>1. Len(f) \in Nat /\ DOMAIN f = 1..Len(f) /\ f \in [1..Len(f) -> T]
  OBVIOUS
<1>. QED
  BY <1>1

-----------------------------------------------------------------------------
(***************************************************************************)
(* Ints.                                                                   *)
(***************************************************************************)
LEMMA Width ==
    /\ MaxInt \in Nat \ {0} /\ MinInt \in Int /\ MinInt < 0 /\ Word \in Nat \ {0}
    /\ MinInt = -MaxInt - 1 /\ Word = 2 * MaxInt + 2 /\ Int32 = MinInt..MaxInt
    /\ Int32 \subseteq Int /\ 0 \in Int32 /\ 1 \in Int32
BY WidthAssumption DEF Word, MinInt, Int32

LEMMA WrapsToInt == ASSUME NEW v \in Int PROVE Wrap(v) \in Int32
<1>1. (v - MinInt) % Word \in 0..(Word - 1)
  BY Width
<1>. HIDE DEF Word
<1>. QED
  BY <1>1, Width DEF Wrap

LEMMA UnsignedInWord ==
    ASSUME NEW v \in Int
    PROVE  /\ Unsigned(v) \in 0..(Word - 1)
           /\ v \in 0..(Word - 1) => Unsigned(v) = v
<1>1. v % Word \in 0..(Word - 1)
  BY Width
<1>2. \A w \in Nat \ {0} : v \in 0..(w - 1) => v % w = v
  OBVIOUS
<1>. QED
  BY <1>1, <1>2, Width DEF Unsigned

LEMMA TruthIsInt == \A b : Truth(b) \in Int32 /\ Truth(b) \in {0, 1}
BY Width DEF Truth

\* Truncating division, as a quotient and a remainder that has the sign of the dividend.
LEMMA Truncation ==
    ASSUME NEW a \in Int, NEW b \in Int \ {0}
    PROVE  /\ Quotient(a, b) \in Int
           /\ Quotient(a, b) \in (-Abs(a))..Abs(a)
           /\ a >= 0 => a - b * Quotient(a, b) \in 0..(Abs(b) - 1)
           /\ a < 0 => a - b * Quotient(a, b) \in (1 - Abs(b))..0
<1>. DEFINE q == Abs(a) \div Abs(b)
            r == Abs(a) % Abs(b)
<1>1. Abs(a) \in Nat /\ Abs(b) \in Nat \ {0}
  BY DEF Abs
<1>2. q \in Nat /\ q <= Abs(a) /\ r \in 0..(Abs(b) - 1) /\ Abs(a) = Abs(b) * q + r
  <2>1. \A m \in Nat, n \in Nat \ {0} :
           m \div n \in 0..m /\ m % n \in 0..(n - 1) /\ m = (n * (m \div n)) + (m % n)
    OBVIOUS
  <2>2. q \in 0..Abs(a) /\ r \in 0..(Abs(b) - 1) /\ Abs(a) = (Abs(b) * q) + r
    BY <1>1, <2>1
  <2>. HIDE DEF q, r
  <2>. QED
    BY <1>1, <2>2
<1>. HIDE DEF q, r
<1>3. Quotient(a, b) = IF (a < 0) = (b < 0) THEN q ELSE -q
  BY DEF Quotient, q
<1>4. Quotient(a, b) \in (-Abs(a))..Abs(a)
  BY <1>1, <1>2, <1>3
<1>5. CASE a >= 0 /\ b > 0
  <2>1. Abs(a) = a /\ Abs(b) = b /\ Quotient(a, b) = q
    BY <1>3, <1>5 DEF Abs
  <2>. QED
    BY <1>2, <1>4, <1>5, <2>1
<1>6. CASE a >= 0 /\ b < 0
  <2>1. Abs(a) = a /\ Abs(b) = -b /\ Quotient(a, b) = -q
    BY <1>3, <1>6 DEF Abs
  <2>2. b * (-q) = (-b) * q
    BY <1>2
  <2>. QED
    BY <1>2, <1>4, <1>6, <2>1, <2>2
<1>7. CASE a < 0 /\ b > 0
  <2>1. Abs(a) = -a /\ Abs(b) = b /\ Quotient(a, b) = -q
    BY <1>3, <1>7 DEF Abs
  <2>2. b * (-q) = -(b * q)
    BY <1>2
  <2>. QED
    BY <1>2, <1>4, <1>7, <2>1, <2>2
<1>8. CASE a < 0 /\ b < 0
  <2>1. Abs(a) = -a /\ Abs(b) = -b /\ Quotient(a, b) = q
    BY <1>3, <1>8 DEF Abs
  <2>2. b * q = -((-b) * q)
    BY <1>2
  <2>. QED
    BY <1>2, <1>4, <1>8, <2>1, <2>2
<1>. QED
  BY <1>5, <1>6, <1>7, <1>8

LEMMA ArithIsInt ==
    ASSUME NEW a \in Int32, NEW b \in Int32, NEW op \in {"+", "-", "*", "/", "%"},
           ArithFault(op, a, b) = "none"
    PROVE  ArithValue(op, a, b) \in Int32
<1>1. a \in Int /\ b \in Int
  BY Width
<1>2. CASE op \in {"+", "-", "*"}
  <2>1. a + b \in Int /\ a - b \in Int /\ a * b \in Int
    BY <1>1
  <2>2. Wrap(a + b) \in Int32 /\ Wrap(a - b) \in Int32 /\ Wrap(a * b) \in Int32
    BY <2>1, WrapsToInt
  <2>. QED
    BY <1>2, <2>2 DEF ArithValue
<1>3. CASE op \in {"/", "%"}
  <2>1. b # 0
    BY <1>3 DEF ArithFault
  <2>. DEFINE Q == Quotient(a, b)
  <2>2. /\ Q \in Int /\ Q \in (-Abs(a))..Abs(a)
        /\ a >= 0 => a - b * Q \in 0..(Abs(b) - 1)
        /\ a < 0 => a - b * Q \in (1 - Abs(b))..0
    BY <1>1, <2>1, Truncation
  <2>3. ~ (Q > MaxInt)
    BY <1>3 DEF ArithFault
  <2>. HIDE DEF Q
  <2>4. Abs(a) \in 0..(MaxInt + 1) /\ Abs(b) \in 1..(MaxInt + 1)
    BY <1>1, <2>1, Width DEF Abs
  <2>5. Q \in Int32 /\ a - b * Q \in Int32
    BY <1>1, <2>2, <2>3, <2>4, Width
  <2>6. ArithValue("/", a, b) = Quotient(a, b) /\ ArithValue("%", a, b) = a - b * Quotient(a, b)
    BY DEF ArithValue
  <2>. QED
    BY <1>3, <2>5, <2>6 DEF Q
<1>. QED
  BY <1>2, <1>3

LEMMA LogicIsInt ==
    ASSUME NEW a, NEW b, NEW op \in {"<", "<=", ">", ">=", "==", "!=", "&&", "||"}
    PROVE  LogicValue(op, a, b) \in Int32
BY TruthIsInt DEF LogicValue

LEMMA UnaryIsInt ==
    ASSUME NEW a \in Int32, NEW op \in {"+", "-", "!"}
    PROVE  UnaryValue(op, a) \in Int32
<1>1. Wrap(-a) \in Int32
  BY Width, WrapsToInt
<1>. QED
  BY <1>1, TruthIsInt DEF UnaryValue
=============================================================================

------------------------------- MODULE Int32 -------------------------------
(***************************************************************************)
(* The int arithmetic of InterpreterBase::perform*Operation, shared by the *)
(* interpreter and by the constant folding of the checker.  The width is a *)
(* parameter so that its edges are within TLC's reach.  Sums, differences, *)
(* products and negations wrap, as the add, sub, imul and neg of the build *)
(* do; the two divisions that idiv refuses trap (SIGFPE).                  *)
(***************************************************************************)
EXTENDS Integers

CONSTANT MaxInt     \* INT_MAX

ASSUME WidthAssumption == MaxInt \in Nat \ {0}

MinInt == -MaxInt - 1

Int32 == MinInt..MaxInt

Word == MaxInt - MinInt + 1

\* Mutant: an int as wide as the result.
WrapNot(v) == v

Wrap(v) == ((v - MinInt) % Word) + MinInt

\* static_cast<unsigned>
Unsigned(v) == v % Word

Abs(v) == IF v < 0 THEN -v ELSE v

\* C++ division truncates towards zero.
Quotient(a, b) ==
    IF (a < 0) = (b < 0) THEN Abs(a) \div Abs(b) ELSE -(Abs(a) \div Abs(b))

Truth(b) == IF b THEN 1 ELSE 0

\* How performArithmeticOperation ends when it has no result: "/" tests for zero
\* and calls fatal, "%" does not test.
ArithFault(op, a, b) ==
    IF b = 0 /\ op \in {"/", "%"}
    THEN IF op = "/" THEN "divByZero" ELSE "trapped"
    ELSE IF op \in {"/", "%"} /\ Quotient(a, b) > MaxInt THEN "trapped" ELSE "none"

ArithValue(op, a, b) ==
    CASE op = "+" -> Wrap(a + b)
      [] op = "-" -> Wrap(a - b)
      [] op = "*" -> Wrap(a * b)
      [] op = "/" -> Quotient(a, b)
      [] op = "%" -> a - b * Quotient(a, b)

LogicValue(op, a, b) ==
    CASE op = "<"  -> Truth(a < b)
      [] op = "<=" -> Truth(a <= b)
      [] op = ">"  -> Truth(a > b)
      [] op = ">=" -> Truth(a >= b)
      [] op = "==" -> Truth(a = b)
      [] op = "!=" -> Truth(a # b)
      [] op = "&&" -> Truth(a # 0 /\ b # 0)
      [] op = "||" -> Truth(a # 0 \/ b # 0)

UnaryValue(op, a) ==
    CASE op = "+" -> a
      [] op = "-" -> Wrap(-a)
      [] op = "!" -> Truth(a = 0)
=============================================================================

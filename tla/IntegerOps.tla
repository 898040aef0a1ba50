------------------------------ MODULE IntegerOps ------------------------------
(***************************************************************************)
(* What an operator makes of two integers of fixed width.                  *)
(*                                                                         *)
(* Modelled from the arms of eval_binary_op of src/src/interpreter.rs that *)
(* take two integers. A result is a value or an error, and the state       *)
(* of the interpreter, which these operators leave as it is. Powers, which *)
(* the parser never builds, and floats are left out.                       *)
(***************************************************************************)
EXTENDS Integers

CONSTANTS
    MaxInt,          \* integers are MinInt..MaxInt, as many as a power of two
    OverflowChecks   \* TRUE in a debug build: arithmetic overflow panics

MinInt == 0 - MaxInt - 1
Ints == MinInt..MaxInt

ASSUME MaxIntAssumption == MaxInt \in Nat \ {0}
ASSUME OverflowChecksAssumption == OverflowChecks \in BOOLEAN

IntV(n) == <<"Int", n>>
BoolV(b) == <<"Bool", b>>

Ok(v, s) == [ok |-> TRUE, v |-> v, s |-> s]
Error(kind, s) == [ok |-> FALSE, v |-> kind, s |-> s]

-----------------------------------------------------------------------------
(* Integers keep their width *)
Width == 2 * (MaxInt + 1)
Wrapped(n) == ((n - MinInt) % Width) + MinInt
Arithmetic(n, s) ==   \* the exact result n of an operation on integers
    IF n \in Ints THEN Ok(IntV(n), s)
    ELSE IF OverflowChecks THEN Error("Panic", s) ELSE Ok(IntV(Wrapped(n)), s)

Magnitude(n) == IF n < 0 THEN 0 - n ELSE n
Quotient(a, b) ==   \* truncated towards zero
    LET q == Magnitude(a) \div Magnitude(b) IN IF (a < 0) <=> (b < 0) THEN q ELSE 0 - q
Remainder(a, b) == a - b * Quotient(a, b)

Dividing == {"Div", "Mod"}

\* the quotient of the least integer and -1 does not fit: it panics in every build
NoResult(op, a, b) == op \in Dividing /\ (b = 0 \/ (a = MinInt /\ b = -1))

IntOp(op, a, b, s) ==
    IF NoResult(op, a, b)
    THEN Error(IF op = "Div" /\ b = 0 THEN "DivisionByZero" ELSE "Panic", s)
    ELSE CASE op = "Add" -> Arithmetic(a + b, s)
           [] op = "Sub" -> Arithmetic(a - b, s)
           [] op = "Mul" -> Arithmetic(a * b, s)
           [] op = "Div" -> Ok(IntV(Quotient(a, b)), s)
           [] op = "Mod" -> Ok(IntV(Remainder(a, b)), s)
           [] op = "Eq" -> Ok(BoolV(a = b), s)
           [] op = "Ne" -> Ok(BoolV(a # b), s)
           [] op = "Lt" -> Ok(BoolV(a < b), s)
           [] op = "Le" -> Ok(BoolV(a <= b), s)
           [] op = "Gt" -> Ok(BoolV(a > b), s)
           [] op = "Ge" -> Ok(BoolV(a >= b), s)

-----------------------------------------------------------------------------
(* What arithmetic promises *)
Unbounded(op, a, b) == CASE op = "Add" -> a + b [] op = "Sub" -> a - b [] op = "Mul" -> a * b

\* r is left over when a is divided by b: less than b, and on the side of a
LeftOver(r, a, b) == Magnitude(r) < Magnitude(b) /\ (r = 0 \/ (r < 0 <=> a < 0))

\* n is the result of op in mathematics, where division is cut towards zero
Means(op, a, b, n) ==
    CASE op = "Div" -> LeftOver(a - b * n, a, b)
      [] op = "Mod" -> LeftOver(n, a, b) /\ (a - n) % Magnitude(b) = 0
      [] OTHER -> n = Unbounded(op, a, b)

\* The result is the exact one when that has the width of integers, but for the
\* remainder of the least integer and -1. Otherwise it is an error, or, in a
\* release build, the integer that is the same modulo the width. To divide by
\* zero is an error that a server survives, except for the remainder, which panics.
GivesExact(op, a, b, r) ==
    IF op \in Dividing /\ b = 0
    THEN ~r.ok /\ r.v = IF op = "Div" THEN "DivisionByZero" ELSE "Panic"
    ELSE \/ r.ok /\ \E n \in Ints : r.v = IntV(n) /\ Means(op, a, b, n)
         \/ ~r.ok /\ r.v = "Panic" /\ OverflowChecks /\ \A n \in Ints : ~Means(op, a, b, n)
         \/ /\ r.ok /\ ~OverflowChecks /\ op \notin Dividing
            /\ Unbounded(op, a, b) \notin Ints
            /\ \E n \in Ints : r.v = IntV(n) /\ (n - Unbounded(op, a, b)) % Width = 0
         \/ ~r.ok /\ r.v = "Panic" /\ op \in Dividing /\ a = MinInt /\ b = -1
=============================================================================

--------------------------- MODULE IntegerOps_proofs ---------------------------
(***************************************************************************)
(* Integer arithmetic is exact, proved for integers of every width.        *)
(***************************************************************************)
EXTENDS IntegerOps, TLAPS

(***************************************************************************)
(* Division of numbers.                                                    *)
(***************************************************************************)
LEMMA Modulo ==
    ASSUME NEW x \in Int, NEW d \in Nat \ {0}
    PROVE  /\ x \div d \in Int /\ x % d \in 0..(d - 1)
           /\ x = d * (x \div d) + (x % d)
<1>1. x \div d \in Int /\ x % d \in 0..(d - 1)
  OBVIOUS
<1>2. x = d * (x \div d) + (x % d)
  BY Z3
<1>3. QED
  BY <1>1, <1>2

LEMMA NothingLeft ==
    ASSUME NEW x \in Int, NEW d \in Nat \ {0}, x % d = 0
    PROVE  \E k \in Int : x = d * k
<1>1. PICK k \in Int, r \in 0..(d - 1) : r = x % d /\ x = d * k + r
  BY Modulo
<1>2. r = 0
  BY <1>1
<1>3. x = d * k
  BY <1>1, <1>2
<1>4. QED
  BY <1>3

\* A multiple that is nearer to nothing than its unit is nothing.
LEMMA SmallMultiple ==
    ASSUME NEW d \in Nat \ {0}, NEW k \in Int, -d < d * k, d * k < d
    PROVE  k = 0
<1>1. CASE k >= 1
  <2>1. d * k >= d
    BY <1>1
  <2>2. QED
    BY <2>1
<1>2. CASE k <= -1
  <2>1. d * k <= -d
    BY <1>2
  <2>2. QED
    BY <2>1
<1>3. QED
  BY <1>1, <1>2

\* The quotient and the rest that division gives are the only ones.
LEMMA DivisionIsUnique ==
    ASSUME NEW d \in Nat \ {0}, NEW q \in Int, NEW r \in 0..(d - 1)
    PROVE  (d * q + r) \div d = q /\ (d * q + r) % d = r
<1> DEFINE x == d * q + r
<1>1. x \in Int
  OBVIOUS
<1>2. PICK p \in Int, s \in 0..(d - 1) : p = x \div d /\ s = x % d /\ x = d * p + s
  BY <1>1, Modulo
<1>3. d * (p - q) = r - s
  BY <1>2
<1>4. p - q = 0
  BY <1>2, <1>3, SmallMultiple
<1>5. r - s = 0
  BY <1>3, <1>4
<1>6. QED
  BY <1>2, <1>4, <1>5

(***************************************************************************)
(* Quotients are cut towards zero.                                         *)
(***************************************************************************)
LEMMA Magnitudes ==
    ASSUME NEW n \in Int
    PROVE  /\ Magnitude(n) \in Nat /\ (Magnitude(n) = 0 <=> n = 0)
           /\ n = IF n < 0 THEN -Magnitude(n) ELSE Magnitude(n)
  BY DEF Magnitude

(* Division in the interpreter, that of i64: what is left over when the     *)
(* quotient is multiplied back is less than the divisor and has the sign of *)
(* what was divided; no other quotient has this. (eval_binary_op, Div and   *)
(* Mod.)                                                                    *)
THEOREM QuotientTruncates ==
    ASSUME NEW a \in Int, NEW b \in Int \ {0}
    PROVE  /\ Quotient(a, b) \in Int
           /\ LeftOver(Remainder(a, b), a, b)
           /\ \A q \in Int : LeftOver(a - b * q, a, b) => q = Quotient(a, b)
<1> DEFINE x == Magnitude(a)
           d == Magnitude(b)
<1>1. x \in Nat /\ d \in Nat \ {0} /\ a = (IF a < 0 THEN -x ELSE x) /\ b = (IF b < 0 THEN -d ELSE d)
  BY Magnitudes
<1> HIDE DEF x, d
<1>2. PICK p \in Int, r \in 0..(d - 1) : p = x \div d /\ r = x % d /\ x = d * p + r
  BY <1>1, Modulo
<1>3. /\ (a < 0 <=> b < 0) => Quotient(a, b) = p
      /\ ~(a < 0 <=> b < 0) => Quotient(a, b) = 0 - p
  BY <1>2 DEF Quotient, x, d
<1>4. (a < 0 => Remainder(a, b) = -r) /\ (~(a < 0) => Remainder(a, b) = r)
  <2>1. PICK k \in Int : k = Quotient(a, b)
    BY <1>2, <1>3
  <2>2. Remainder(a, b) = a - b * k
    BY <2>1 DEF Remainder
  <2>3. b * k = IF a < 0 THEN -(d * p) ELSE d * p
    <3>1. CASE a < 0 /\ b < 0
      BY <1>1, <1>2, <1>3, <2>1, <3>1
    <3>2. CASE a < 0 /\ ~(b < 0)
      BY <1>1, <1>2, <1>3, <2>1, <3>2
    <3>3. CASE ~(a < 0) /\ b < 0
      BY <1>1, <1>2, <1>3, <2>1, <3>3
    <3>4. CASE ~(a < 0) /\ ~(b < 0)
      BY <1>1, <1>2, <1>3, <2>1, <3>4
    <3>5. QED
      BY <3>1, <3>2, <3>3, <3>4
  <2>4. QED
    BY <1>1, <1>2, <2>2, <2>3
<1>5. LeftOver(Remainder(a, b), a, b)
  <2>1. Magnitude(Remainder(a, b)) = r
    BY <1>2, <1>4 DEF Magnitude
  <2>2. r < Magnitude(b)
    BY <1>1, <1>2 DEF d
  <2>3. Remainder(a, b) = 0 \/ (Remainder(a, b) < 0 <=> a < 0)
    BY <1>2, <1>4
  <2>4. QED
    BY <2>1, <2>2, <2>3 DEF LeftOver
<1>6. ASSUME NEW q \in Int, LeftOver(a - b * q, a, b) PROVE q = Quotient(a, b)
  <2>1. PICK s \in Int : s = a - b * q
    BY <1>1
  <2>2. PICK m \in Int : ((a < 0 <=> b < 0) => m = q) /\ (~(a < 0 <=> b < 0) => m = 0 - q)
    OBVIOUS
  <2>3. PICK t \in Int : t = IF a < 0 THEN -s ELSE s
    OBVIOUS
  <2>4. x = d * m + t
    BY <1>1, <2>1, <2>2, <2>3
  <2>5. t \in 0..(d - 1)
    <3>1. Magnitude(s) < d /\ (s = 0 \/ (s < 0 <=> a < 0))
      BY <1>6, <2>1 DEF LeftOver, d
    <3>2. QED
      BY <3>1, <2>3, <1>1 DEF Magnitude
  <2>6. x \div d = m
    BY <1>1, <2>4, <2>5, DivisionIsUnique
  <2>7. m = p
    BY <1>2, <2>6 DEF x, d
  <2>8. QED
    BY <1>3, <2>2, <2>7
<1>7. Quotient(a, b) \in Int
  BY <1>2, <1>3
<1>8. QED
  BY <1>5, <1>6, <1>7

(***************************************************************************)
(* Results of the width of integers.                                       *)
(***************************************************************************)
LEMMA Widths == /\ Width \in Nat \ {0} /\ MinInt \in Int /\ MaxInt \in Nat \ {0}
                /\ MinInt = -MaxInt - 1 /\ Width = MaxInt - MinInt + 1
  BY MaxIntAssumption DEF Width, MinInt

(* What overflows in a release build wraps around: it becomes the one       *)
(* integer that is the same modulo the width, and what does not overflow is *)
(* left as it is. (eval_binary_op: + - * of i64.)                           *)
THEOREM WrapsAround ==
    ASSUME NEW n \in Int
    PROVE  /\ Wrapped(n) \in Ints /\ (Wrapped(n) - n) % Width = 0
           /\ n \in Ints => Wrapped(n) = n
           /\ \A m \in Ints : (m - n) % Width = 0 => m = Wrapped(n)
<1>1. PICK w \in Nat \ {0}, lo \in Int : w = Width /\ lo = MinInt /\ Ints = lo..(lo + w - 1)
  BY Widths DEF Ints
<1>2. PICK q \in Int, r \in 0..(w - 1) : n - lo = w * q + r /\ r = (n - lo) % w
  <2>1. PICK y \in Int : y = n - lo
    OBVIOUS
  <2>2. y \div w \in Int /\ y % w \in 0..(w - 1) /\ y = w * (y \div w) + (y % w)
    BY Modulo
  <2>3. QED
    BY <2>1, <2>2
<1>3. PICK v \in Int : v = Wrapped(n) /\ v = r + lo
  <2>1. Wrapped(n) = ((n - lo) % w) + lo
    BY <1>1 DEF Wrapped
  <2>2. QED
    BY <1>2, <2>1
<1>4. v \in Ints
  BY <1>1, <1>3
<1>5. v - n = w * (-q) + 0
  BY <1>2, <1>3
<1>6. (v - n) % w = 0
  BY <1>5, DivisionIsUnique
<1>7. ASSUME NEW m \in Ints, (m - n) % w = 0 PROVE m = v
  <2>1. m \in Int
    BY <1>1
  <2>2. PICK k \in Int : m - n = w * k
    <3>1. PICK y \in Int : y = m - n
      BY <2>1
    <3>2. y % w = 0
      BY <1>7, <3>1
    <3>3. QED
      BY <3>1, <3>2, NothingLeft
  <2>3. w * (k + q) = m - v
    <3>1. v - n = -(w * q)
      BY <1>2, <1>3
    <3>2. w * (k + q) = w * k + w * q
      OBVIOUS
    <3>3. QED
      BY <2>1, <2>2, <3>1, <3>2
  <2>4. -w < m - v /\ m - v < w
    BY <1>1, <1>4, <2>1
  <2>5. k + q = 0
    BY <2>3, <2>4, SmallMultiple
  <2>6. QED
    BY <2>1, <2>3, <2>5
<1>8. n \in Ints => n = v
  <2>1. n - n = w * 0 + 0
    OBVIOUS
  <2>2. (n - n) % w = 0
    BY <2>1, DivisionIsUnique
  <2>3. QED
    BY <1>7, <2>2
<1>9. QED
  BY <1>1, <1>3, <1>4, <1>6, <1>7, <1>8

LEMMA QuotientFits ==
    ASSUME NEW a \in Ints, NEW b \in Ints, b # 0, ~(a = MinInt /\ b = -1)
    PROVE  Quotient(a, b) \in Ints /\ Remainder(a, b) \in Ints
<1>1. PICK max \in Nat \ {0} : max = MaxInt /\ MinInt = -max - 1 /\ Ints = (-max - 1)..max
  BY Widths DEF Ints
<1>2. a \in Int /\ b \in Int \ {0}
  BY <1>1
<1>3. PICK q \in Int, m \in Nat, d \in Nat : q = Quotient(a, b) /\ m = Magnitude(Remainder(a, b)) /\ d = Magnitude(b) /\ m < d
  <2>1. Remainder(a, b) \in Int
    BY <1>2, QuotientTruncates DEF Remainder
  <2>2. QED
    BY <1>2, <2>1, QuotientTruncates, Magnitudes DEF LeftOver
<1>4. PICK rest \in Int : rest = Remainder(a, b) /\ rest = a - b * q /\ -d < rest /\ rest < d
  <2>1. PICK rest \in Int : rest = Remainder(a, b) /\ rest = a - b * q
    BY <1>2, <1>3 DEF Remainder
  <2>2. -d < rest /\ rest < d
    BY <1>3, <2>1 DEF Magnitude
  <2>3. QED
    BY <2>1, <2>2
<1>5. d <= max + 1 /\ d >= 1 /\ b = (IF b < 0 THEN -d ELSE d)
  BY <1>1, <1>2, <1>3 DEF Magnitude
<1>6. Remainder(a, b) \in Ints
  BY <1>1, <1>4, <1>5
<1>7. q <= max
  <2>1. SUFFICES ASSUME q >= max + 1 PROVE FALSE
    OBVIOUS
  <2>2. CASE b > 0
    <3>1. b * q >= b * (max + 1)
      BY <1>2, <2>1, <2>2
    <3>2. b * (max + 1) = b * max + b
      BY <1>2
    <3>3. b * max >= max
      BY <1>2, <2>2
    <3>4. a > max
      BY <1>2, <1>4, <1>5, <2>2, <3>1, <3>2, <3>3
    <3>5. QED
      BY <1>1, <3>4
  <2>3. CASE b < 0
    <3>1. b * q <= b * (max + 1)
      BY <1>2, <2>1, <2>3
    <3>2. b * (max + 1) = b * max + b
      BY <1>2
    <3>3. CASE b = -1
      <4>1. rest = 0 /\ a = -q
        BY <1>2, <1>4, <1>5, <3>3
      <4>2. QED
        BY <1>1, <1>2, <2>1, <3>3, <4>1
    <3>4. CASE b <= -2
      <4>1. b * max <= -2 * max
        BY <1>2, <3>4
      <4>2. a < -2 * max
        BY <1>2, <1>4, <1>5, <2>3, <3>1, <3>2, <4>1
      <4>3. QED
        BY <1>1, <1>2, <4>2
    <3>5. QED
      BY <1>2, <2>3, <3>3, <3>4
  <2>4. QED
    BY <1>2, <2>2, <2>3
<1>8. q >= -max - 1
  <2>1. SUFFICES ASSUME q <= -max - 2 PROVE FALSE
    OBVIOUS
  <2>2. CASE b > 0
    <3>1. b * q <= b * (-max - 2)
      BY <1>2, <2>1, <2>2
    <3>2. b * (-max - 2) = -(b * (max + 1)) - b
      BY <1>2
    <3>3. b * (max + 1) >= max + 1
      BY <1>2, <2>2
    <3>4. a < -max - 1
      BY <1>2, <1>4, <1>5, <2>2, <3>1, <3>2, <3>3
    <3>5. QED
      BY <1>1, <3>4
  <2>3. CASE b < 0
    <3>1. b * q >= b * (-max - 2)
      BY <1>2, <2>1, <2>3
    <3>2. b * (-max - 2) = (-b) * (max + 1) - b
      BY <1>2
    <3>3. (-b) * (max + 1) >= max + 1
      BY <1>2, <2>3
    <3>4. a > max
      BY <1>2, <1>4, <1>5, <2>3, <3>1, <3>2, <3>3
    <3>5. QED
      BY <1>1, <3>4
  <2>4. QED
    BY <1>2, <2>2, <2>3
<1>9. QED
  BY <1>1, <1>3, <1>6, <1>7, <1>8

(***************************************************************************)
(* Results are exact.                                                      *)
(***************************************************************************)
LEMMA ArithmeticResult ==
    ASSUME NEW n \in Int, NEW s
    PROVE  \/ n \in Ints /\ Arithmetic(n, s) = Ok(IntV(n), s)
           \/ n \notin Ints /\ OverflowChecks /\ Arithmetic(n, s) = Error("Panic", s)
           \/ n \notin Ints /\ ~OverflowChecks /\ Arithmetic(n, s) = Ok(IntV(Wrapped(n)), s)
  BY OverflowChecksAssumption DEF Arithmetic

(* Whatever the width of integers, the operators give the exact result when *)
(* there is one, and otherwise what the build promises; they touch nothing   *)
(* else. (eval_binary_op.)                                                   *)
THEOREM IntegersAreExact ==
    ASSUME NEW op \in {"Add", "Sub", "Mul", "Div", "Mod"}, NEW a \in Ints, NEW b \in Ints, NEW s
    PROVE  GivesExact(op, a, b, IntOp(op, a, b, s)) /\ IntOp(op, a, b, s).s = s
<1>1. a \in Int /\ b \in Int
  BY Widths DEF Ints
<1>2. CASE op \notin Dividing
  <2>1. PICK n \in Int : n = Unbounded(op, a, b) /\ IntOp(op, a, b, s) = Arithmetic(n, s)
    BY <1>1, <1>2 DEF Unbounded, IntOp, NoResult, Dividing
  <2>2. \A m : Means(op, a, b, m) <=> m = n
    BY <1>2, <2>1 DEF Means, Dividing
  <2>3. CASE n \in Ints /\ Arithmetic(n, s) = Ok(IntV(n), s)
    <3>1. IntOp(op, a, b, s).ok /\ IntOp(op, a, b, s).v = IntV(n) /\ IntOp(op, a, b, s).s = s
      BY <2>1, <2>3 DEF Ok
    <3>2. QED
      BY <1>2, <2>2, <2>3, <3>1 DEF GivesExact
  <2>4. CASE n \notin Ints /\ OverflowChecks /\ Arithmetic(n, s) = Error("Panic", s)
    <3>1. ~IntOp(op, a, b, s).ok /\ IntOp(op, a, b, s).v = "Panic" /\ IntOp(op, a, b, s).s = s
      BY <2>1, <2>4 DEF Error
    <3>2. QED
      BY <1>2, <2>2, <2>4, <3>1 DEF GivesExact
  <2>5. CASE n \notin Ints /\ ~OverflowChecks /\ Arithmetic(n, s) = Ok(IntV(Wrapped(n)), s)
    <3>1. IntOp(op, a, b, s).ok /\ IntOp(op, a, b, s).v = IntV(Wrapped(n)) /\ IntOp(op, a, b, s).s = s
      BY <2>1, <2>5 DEF Ok
    <3>2. Wrapped(n) \in Ints /\ (Wrapped(n) - n) % Width = 0
      BY WrapsAround
    <3>3. QED
      BY <1>2, <2>1, <2>5, <3>1, <3>2 DEF GivesExact
  <2>6. QED
    BY <2>3, <2>4, <2>5, ArithmeticResult
<1>3. CASE op \in Dividing /\ NoResult(op, a, b)
  <2>1. IntOp(op, a, b, s) = Error(IF op = "Div" /\ b = 0 THEN "DivisionByZero" ELSE "Panic", s)
    BY <1>3 DEF IntOp
  <2>2. /\ ~IntOp(op, a, b, s).ok /\ IntOp(op, a, b, s).s = s
        /\ IntOp(op, a, b, s).v = IF op = "Div" /\ b = 0 THEN "DivisionByZero" ELSE "Panic"
    BY <2>1 DEF Error
  <2>3. CASE b = 0
    BY <1>3, <2>2, <2>3 DEF GivesExact, Dividing
  <2>4. CASE b # 0
    BY <1>3, <2>2, <2>4 DEF GivesExact, NoResult, Dividing
  <2>5. QED
    BY <2>3, <2>4
<1>4. CASE op \in Dividing /\ ~NoResult(op, a, b)
  <2>1. b # 0 /\ ~(a = MinInt /\ b = -1)
    BY <1>4 DEF NoResult
  <2>2. PICK q \in Ints, r \in Ints : q = Quotient(a, b) /\ r = Remainder(a, b)
    BY <2>1, QuotientFits
  <2>3. q \in Int /\ r \in Int /\ r = a - b * q /\ LeftOver(r, a, b)
    <3>1. q \in Int /\ r \in Int
      BY Widths DEF Ints
    <3>2. LeftOver(r, a, b)
      BY <1>1, <2>1, <2>2, QuotientTruncates
    <3>3. QED
      BY <2>2, <3>1, <3>2 DEF Remainder
  <2>4. (a - r) % Magnitude(b) = 0
    <3>1. PICK d \in Nat \ {0}, k \in Int : d = Magnitude(b) /\ d * k = b * q
      <4>1. CASE b < 0
        <5>1. Magnitude(b) \in Nat \ {0} /\ Magnitude(b) * (-q) = b * q
          BY <1>1, <2>3, <4>1 DEF Magnitude
        <5>2. QED
          BY <2>3, <5>1
      <4>2. CASE ~(b < 0)
        <5>1. Magnitude(b) \in Nat \ {0} /\ Magnitude(b) * q = b * q
          BY <1>1, <2>1, <2>3, <4>2 DEF Magnitude
        <5>2. QED
          BY <2>3, <5>1
      <4>3. QED
        BY <4>1, <4>2
    <3>2. a - r = d * k + 0
      BY <1>1, <2>3, <3>1
    <3>3. (d * k + 0) % d = 0
      BY DivisionIsUnique
    <3>4. QED
      BY <3>1, <3>2, <3>3
  <2>5. CASE op = "Div"
    <3>1. IntOp(op, a, b, s) = Ok(IntV(q), s)
      BY <1>4, <2>2, <2>5 DEF IntOp
    <3>2. IntOp(op, a, b, s).ok /\ IntOp(op, a, b, s).v = IntV(q) /\ IntOp(op, a, b, s).s = s
      BY <3>1 DEF Ok
    <3>3. Means(op, a, b, q)
      BY <2>3, <2>5 DEF Means
    <3>4. QED
      BY <2>1, <3>2, <3>3 DEF GivesExact
  <2>6. CASE op = "Mod"
    <3>1. IntOp(op, a, b, s) = Ok(IntV(r), s)
      BY <1>4, <2>2, <2>6 DEF IntOp
    <3>2. IntOp(op, a, b, s).ok /\ IntOp(op, a, b, s).v = IntV(r) /\ IntOp(op, a, b, s).s = s
      BY <3>1 DEF Ok
    <3>3. Means(op, a, b, r)
      BY <2>3, <2>4, <2>6 DEF Means
    <3>4. QED
      BY <2>1, <3>2, <3>3 DEF GivesExact
  <2>7. QED
    BY <1>4, <2>5, <2>6 DEF Dividing
<1>5. QED
  BY <1>2, <1>3, <1>4

(* What was added can be taken away again, even if the sum wrapped around.  *)
(* (eval_binary_op: + and - of i64 in a release build.)                     *)
THEOREM SumsAreUndone ==
    ASSUME NEW a \in Ints, NEW b \in Ints, NEW s, NEW n \in Ints, IntOp("Add", a, b, s) = Ok(IntV(n), s), ~OverflowChecks
    PROVE  IntOp("Sub", n, b, s) = Ok(IntV(a), s)
<1>1. a \in Int /\ b \in Int /\ n \in Int
  BY Widths DEF Ints
<1>2. PICK w \in Nat \ {0} : w = Width
  BY Widths
<1>3. IntOp("Add", a, b, s) = Arithmetic(a + b, s) /\ IntOp("Sub", n, b, s) = Arithmetic(n - b, s)
  BY DEF IntOp, NoResult, Dividing
<1>4. PICK x \in Int : x = a + b
  BY <1>1
<1>5. n = Wrapped(x)
  <2>1. Arithmetic(x, s) = Ok(IntV(Wrapped(x)), s)
    BY ArithmeticResult, WrapsAround
  <2>2. Ok(IntV(n), s).v = Ok(IntV(Wrapped(x)), s).v
    BY <1>3, <1>4, <2>1
  <2>3. QED
    BY <2>2 DEF Ok, IntV
<1>6. PICK y \in Int : y = n - b
  BY <1>1
<1>7. PICK z \in Int : z = n - x /\ z % w = 0
  <2>1. (Wrapped(x) - x) % Width = 0
    BY WrapsAround
  <2>2. (n - x) % w = 0
    BY <1>2, <1>5, <2>1
  <2>3. n - x \in Int
    BY <1>1
  <2>4. QED
    BY <2>2, <2>3
<1>8. PICK k \in Int : z = w * k
  BY <1>7, NothingLeft
<1>9. a - y = w * (-k) + 0
  <2>1. a - y = -z
    BY <1>1, <1>4, <1>6, <1>7
  <2>2. w * (-k) + 0 = -(w * k)
    OBVIOUS
  <2>3. QED
    BY <1>8, <2>1, <2>2
<1>10. (w * (-k) + 0) % w = 0
  BY DivisionIsUnique
<1>11. a = Wrapped(y)
  BY <1>2, <1>9, <1>10, WrapsAround
<1>12. Arithmetic(y, s) = Ok(IntV(Wrapped(y)), s)
  BY ArithmeticResult, WrapsAround
<1>13. QED
  BY <1>3, <1>6, <1>11, <1>12
=============================================================================

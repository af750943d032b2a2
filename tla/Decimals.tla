------------------------------ MODULE Decimals ------------------------------
(***************************************************************************)
(* Decimal (decimal.ts) and the money helpers built on it (money.ts): a    *)
(* coefficient and a scale, exact but for division, which truncates at a   *)
(* guard digit and rounds from there.  The properties compare it with the  *)
(* rationals it stands for.                                                *)
(***************************************************************************)
EXTENDS Integers

CONSTANT DivMargin   \* digits beyond the step's in quantityForNotional (8 in the code)

RoundingModes == {"DOWN", "UP", "FLOOR", "CEIL", "HALF_UP", "HALF_EVEN"}

LOCAL Abs(n) == IF n < 0 THEN -n ELSE n
LOCAL Larger(a, b) == IF a > b THEN a ELSE b
(* BigInt division truncates toward zero, and its remainder has the sign   *)
(* of the dividend.                                                        *)
LOCAL Quot(a, b) == IF (a < 0) = (b < 0) THEN Abs(a) \div Abs(b) ELSE -(Abs(a) \div Abs(b))

Dec(c, s) == [c |-> c, s |-> s]
Coefficient(a, scale) == a.c * 10 ^ (scale - a.s)   \* align()

Add(a, b) == LET s == Larger(a.s, b.s) IN Dec(Coefficient(a, s) + Coefficient(b, s), s)
Neg(a)    == Dec(-a.c, a.s)
Sub(a, b) == LET s == Larger(a.s, b.s) IN Dec(Coefficient(a, s) - Coefficient(b, s), s)
Mul(a, b) == Dec(a.c * b.c, a.s + b.s)
Compare(a, b) == LET s == Larger(a.s, b.s)  x == Coefficient(a, s)  y == Coefficient(b, s)
                 IN  IF x < y THEN -1 ELSE IF x > y THEN 1 ELSE 0
Sign(a) == Compare(a, Dec(0, 0))

(* The last digit of a truncated quotient.  UP asks the quotient for the   *)
(* sign, the other modes ask the dividend.                                 *)
ApplyRounding(quotient, remainder, divisor, negative, mode, extraNonZero) ==
  LET away   == quotient + (IF negative THEN -1 ELSE 1)
      twice  == 2 * Abs(remainder)
  IN  IF remainder = 0 /\ ~extraNonZero THEN quotient ELSE
      CASE mode = "DOWN"      -> quotient
        [] mode = "UP"        -> quotient + (IF quotient < 0 THEN -1 ELSE 1)
        [] mode = "FLOOR"     -> IF negative THEN quotient - 1 ELSE quotient
        [] mode = "CEIL"      -> IF negative THEN quotient ELSE quotient + 1
        [] mode = "HALF_UP"   -> IF twice >= divisor THEN away ELSE quotient
        [] mode = "HALF_EVEN" -> IF twice > divisor \/ (twice = divisor /\ quotient % 2 # 0)
                                 THEN away ELSE quotient

RoundToScale(a, scale, mode, extraNonZero) ==
  LET divisor  == 10 ^ (a.s - scale)
      quotient == Quot(a.c, divisor)
  IN  IF scale >= a.s THEN Dec(Coefficient(a, scale), scale)
      ELSE Dec(ApplyRounding(quotient, a.c - quotient * divisor, divisor, a.c < 0, mode, extraNonZero), scale)

RoundToStepAtScale(a, step, mode) ==   \* mutant: rounds the number to the step's digits only
  RoundToScale(a, step.s, mode, FALSE)

RoundToStep(a, step, mode) ==
  LET s        == Larger(a.s, step.s)
      ca       == Coefficient(a, s)
      cb       == Coefficient(step, s)
      quotient == Quot(ca, cb)
  IN  Dec(ApplyRounding(quotient, ca - quotient * cb, cb, a.c < 0, mode, FALSE) * step.c, step.s)

Div(a, b, scale, mode) ==
  LET shift       == scale + 1 + b.s - a.s
      numerator   == a.c * 10 ^ Larger(shift, 0)
      denominator == b.c * 10 ^ Larger(-shift, 0)
      quotient    == Quot(numerator, denominator)
  IN  RoundToScale(Dec(quotient, scale + 1), scale, mode, numerator # quotient * denominator)

QuantityForNotional(notional, price, step) ==
  IF Sign(price) <= 0 \/ Sign(notional) <= 0 \/ Sign(step) <= 0 THEN Dec(0, 0)
  ELSE RoundToStep(Div(notional, price, step.s + DivMargin, "DOWN"), step, "DOWN")
-----------------------------------------------------------------------------
(* What a rounding mode promises of the multiple n of `of' that it makes   *)
(* of x (both integers at one scale).                                      *)
Honours(mode, n, x, of) ==
  LET gap == Abs(n * of - x)
  IN  /\ gap < of
      /\ mode = "DOWN"  => Abs(n * of) <= Abs(x)
      /\ mode = "UP"    => Abs(n * of) >= Abs(x)
      /\ mode = "FLOOR" => n * of <= x
      /\ mode = "CEIL"  => n * of >= x
      /\ mode \in {"HALF_UP", "HALF_EVEN"} => 2 * gap <= of
      /\ 2 * gap = of => CASE mode = "HALF_UP"   -> Abs(n * of) > Abs(x)
                           [] mode = "HALF_EVEN" -> n % 2 = 0
                           [] OTHER              -> TRUE

(* Rounding to a step does what its mode is named for, at any scales, and  *)
(* a sized order is the largest multiple of the step the notional pays     *)
(* for: never a unit over what was approved, never a whole step short.     *)
(* The one exception is UP of a negative amount smaller than the step,     *)
(* which comes out positive: UP looks for the sign of a quotient of 0.     *)
RoundsAsNamed(a, step) ==
  \A mode \in RoundingModes :
    LET s == Larger(a.s, step.s)
        r == RoundToStep(a, step, mode)
    IN  \/ mode = "UP" /\ a.c < 0 /\ Coefficient(a, s) > -Coefficient(step, s)
        \/ /\ r.s = step.s /\ r.c % step.c = 0
           /\ Honours(mode, r.c \div step.c, Coefficient(a, s), Coefficient(step, s))

SizesExactly(notional, price, step) ==
  LET quantity == QuantityForNotional(notional, price, step)
  IN  Sign(notional) > 0 /\ Sign(price) > 0 =>
        /\ Compare(Mul(quantity, price), notional) <= 0
        /\ Compare(Mul(Add(quantity, step), price), notional) > 0

(* Sums, differences and order are those of the rationals, whatever the    *)
(* scales; a quotient is within a unit of its last digit.                  *)
ExactArithmetic(a, b) ==
  /\ Compare(Sub(Add(a, b), b), a) = 0
  /\ Compare(Add(a, b), Add(b, a)) = 0
  /\ Compare(Mul(Add(a, b), b), Add(Mul(a, b), Mul(b, b))) = 0
  /\ Compare(a, b) = Sign(Sub(a, b)) /\ Compare(a, b) = -Compare(b, a)
  /\ Sign(b) > 0 /\ Sign(a) >= 0 =>
       \A mode \in RoundingModes :
         LET q    == Div(a, b, 1, mode)
             unit == Dec(1, 1)
         IN  /\ Compare(Mul(Sub(q, unit), b), a) < 0 /\ Compare(Mul(Add(q, unit), b), a) > 0
             /\ mode \in {"DOWN", "FLOOR"} => Compare(Mul(q, b), a) <= 0
             /\ mode \in {"UP", "CEIL"}    => Compare(Mul(q, b), a) >= 0
=============================================================================

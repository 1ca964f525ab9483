------------------------------- MODULE IntMath -------------------------------
(***************************************************************************)
(* The intmath package: arithmetic on unsigned words of any width.  Sums   *)
(* and products wrap as they do in Go; the two-word intermediate values of *)
(* bits.Mul64, bits.Add64 and bits.Div64 are exact.                        *)
(***************************************************************************)
EXTENDS Integers

CONSTANT MaxUint   \* the greatest word

ASSUME IntMathAssumption == MaxUint \in Nat \ {0}

Word == 0 .. MaxUint

\* The sum and the product of two words, without the carry.
WrapAdd(a, b) == IF a + b <= MaxUint THEN a + b ELSE a + b - (MaxUint + 1)

WrapMultiply(a, b) == (a * b) % (MaxUint + 1)

Smaller(a, b) == IF a <= b THEN a ELSE b

\* BoundedSubtract
BoundedSubtract(a, b, floor) ==
  LET minA == WrapAdd(floor, b)
  IN IF minA < b \/ a <= minA THEN floor ELSE a - b

\* BoundedAdd
BoundedAdd(a, b, ceil) == IF b >= ceil \/ a >= ceil - b THEN ceil ELSE a + b

\* BoundedMultiply
BoundedMultiply(a, b, ceil) ==
  IF b # 0 /\ a > ceil \div b THEN ceil ELSE WrapMultiply(a, b)

\* MulDiv and MulDivCeil: the quotient, or Overflow.
Overflow == -1
Quotient(product, den) == IF product \div den > MaxUint THEN Overflow ELSE product \div den
MulDiv(a, b, den) == Quotient(a * b, den)
MulDivCeil(a, b, den) == Quotient(a * b + den - 1, den)

\* CeilDiv
CeilDiv(num, den) == (num + den - 1) \div den
=============================================================================

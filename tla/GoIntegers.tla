------------------------------- MODULE GoIntegers ------------------------------
(* The machine integers of Go: int and int64, as wide as MaxInt, and int32. *)
EXTENDS Integers

CONSTANTS
  MaxInt,   \* the largest int
  MaxInt32  \* the largest int32

ASSUME GoIntegersAssumption ==
  /\ MaxInt \in Nat
  /\ MaxInt32 \in Nat /\ MaxInt32 <= MaxInt

\* What is left of a number in the integers up to max.
Wrap(n, max) == ((n + max + 1) % (2 * (max + 1))) - max - 1

Int64(n) == Wrap(n, MaxInt)
Int32(n) == Wrap(n, MaxInt32)

\* Division and remainder go towards zero.
Quo(a, b) == IF a < 0 THEN -((-a) \div b) ELSE a \div b
Rem(a, b) == a - b * Quo(a, b)

\* b to the n-th.
Power(b, n) == LET p[i \in Nat] == IF i = 0 THEN 1 ELSE b * p[i - 1] IN p[n]
=============================================================================

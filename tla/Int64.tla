-------------------------------- MODULE Int64 --------------------------------
(***************************************************************************)
(* Go's int64, with a width that TLC can exhaust: sums and products wrap   *)
(* around, division is towards zero.                                       *)
(***************************************************************************)
EXTENDS Integers

CONSTANT IntLimit   \* the least integer that overflows (2^63)

Smallest == -IntLimit

Unwrapped(n) == n   \* faulty variant

Wrap(n) == ((n - Smallest) % (2 * IntLimit)) + Smallest

Magnitude(n) == IF n < 0 THEN -n ELSE n

Quotient(a, b) ==
    LET q == Magnitude(a) \div Magnitude(b)
    IN  IF (a < 0) = (b < 0) THEN q ELSE -q
=============================================================================

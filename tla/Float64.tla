------------------------------ MODULE Float64 ------------------------------
(***************************************************************************)
(* What Go's float64 makes of an integer, where the code sends integers    *)
(* through one: max and min of arrays, and the evaluator's remainder.      *)
(***************************************************************************)
EXTENDS Integers

CONSTANT MantissaBits   \* of a float64 (53)

\* float64(n): to the nearest number of MantissaBits, to the even one of two.
Rounded(n) ==
    LET Fits(k) == -(2 ^ (MantissaBits + k)) <= n /\ n <= 2 ^ (MantissaBits + k)
        unit == 2 ^ (CHOOSE k \in 0..63 : Fits(k) /\ \A j \in 0..(k - 1) : ~Fits(j))
        rest == n % unit
        down == n \div unit
    IN  unit * IF 2 * rest > unit \/ (2 * rest = unit /\ down % 2 = 1) THEN down + 1 ELSE down
=============================================================================

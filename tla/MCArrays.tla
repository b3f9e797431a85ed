------------------------------ MODULE MCArrays ------------------------------
(***************************************************************************)
(* Two arrays, or an array and a dict, of two integers.  With three bits   *)
(* of mantissa, 8 and 9 are the same float64.                              *)
(***************************************************************************)
EXTENDS Arrays

MCValues == {Integer(8), Integer(9)}
=============================================================================

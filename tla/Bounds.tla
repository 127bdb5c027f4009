-------------------------------- MODULE Bounds --------------------------------
(***************************************************************************)
(* std::min, std::max and std::clamp of integers, as KRdp uses them.       *)
(***************************************************************************)
EXTENDS Integers

Lesser(a, b)        == IF a < b THEN a ELSE b
Greater(a, b)       == IF a < b THEN b ELSE a
Clamp(x, low, high) == IF x < low THEN low ELSE IF x > high THEN high ELSE x
=============================================================================

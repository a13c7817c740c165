-------------------------------- MODULE Numbers --------------------------------
(***************************************************************************)
(* Doubles, as far as the models tell them apart: whole numbers, and NaN,  *)
(* the double that is not a number.  Every comparison with it is false and *)
(* every sum or product of it is NaN again.                                *)
(***************************************************************************)
EXTENDS Integers

CONSTANT NaN

Number == Int \cup {NaN}

(* std::clamp and std::abs on numbers.                                     *)
Clamp(x, lo, hi) == IF x < lo THEN lo ELSE IF hi < x THEN hi ELSE x
Abs(x) == IF x < 0 THEN -x ELSE x
===============================================================================

----------------------------- MODULE MCJointMotion -----------------------------
(* Whole-number limits; commands on, inside and beyond each of them.       *)
EXTENDS JointMotion

MCMin == -8
MCMax == 8
MCCommands == {-9, -8, -3, 0, 5, 8}
MCSteps == {-1, 0, 1, 2}

\* For the run that leaves the premises of WithinLimits.
MCCommandsWithNaN == {0, 5, NaN}
===============================================================================

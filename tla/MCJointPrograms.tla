---------------------------- MODULE MCJointPrograms ----------------------------
(* Commands on, inside and beyond each limit; a margin of exactly the      *)
(* longest step at full speed, which leaves the middle of the range        *)
(* unflagged.  An acceleration of four ticks to full speed: moves of 2, 8  *)
(* and 18 are triangles, one of 32 just reaches full speed, 40, 48 and 56  *)
(* have a cruise.  The benchmark's numbers in these units: 8 stands for    *)
(* 2 rad/s, a quarter of a degree for one of heat.                         *)
EXTENDS JointPrograms

MCMin == -28
MCMax == 28
MCCommands == {-29, -28, -8, 0, 13, 28}
MCSteps == {-1, 0, 1, 2}
MCPositions == {-28, -26, -20, -12, -10, 0, 4, 8, 12, 20, 28}
MCTorques == {-3, -2, 1, 3}
MCLevels == {-1, 0, 1, 2}
===============================================================================

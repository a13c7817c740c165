---------------------------- MODULE MCRobotService ----------------------------
(* Two joints, behind a bridge of two axes, with targets at rest, at a     *)
(* limit and beyond it.                                                    *)
EXTENDS RosBridge

MCMin == 0
MCMax == 1
MCTargets == {0, 1, 2}
MCRequestTypes == Implemented \cup {"InjectFault"}
===============================================================================

--------------------------- MODULE MCEmulatorServer ---------------------------
(* One joint that moves between 0 and 1, one target beyond the limit.      *)
EXTENDS EmulatorServer

MCMin == 0
MCMax == 1
MCTargets == {1, 2}
MCRequestTypes == { "GetStatus", "Enable", "Disable", "Home", "MoveJoint", "Stop",
                    "EmergencyStop", "InjectFault" }

\* For the run with a stuck control thread: enough commands to reach Moving and EmergencyStop.
MCFewTypes == { "Enable", "MoveJoint", "EmergencyStop" }
===============================================================================

---------------------------- MODULE MCFaultInjector ----------------------------
(* Two types of fault, one joint; handlers that stop the robot, break the  *)
(* encoder and stop the robot by injecting the other fault, report a fault *)
(* to the controller and clear it.                                         *)
EXTENDS FaultInjector

MCFaults == { [ type |-> "EncoderFailure", joint |-> 1 ],
              [ type |-> "EncoderFailure", joint |-> None ],
              [ type |-> "EmergencyStop", joint |-> None ] }
MCPositions == {0, 4}
Chain == << [ call |-> "setFailureMode", mode |-> "Stuck" ],
            [ call |-> "inject", type |-> "EmergencyStop" ], [ call |-> "clear" ] >>
MCScripts ==
  [ EncoderFailure |-> { << >>, Chain },
    EmergencyStop  |-> { << >>, << [ call |-> "trigger" ] >>,
                         << [ call |-> "report" ], [ call |-> "clear" ] >> } ]
===============================================================================

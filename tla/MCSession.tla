------------------------------- MODULE MCSession -------------------------------
(* robotctl moves a joint whose index is the first cell of a header; of    *)
(* its other invocations none is accepted.  A status has one joint.  A     *)
(* tab's request is good, without a key, too long or not there; its frames *)
(* have both forms of length, with and without a mask.                     *)
EXTENDS Viewer

MCTypes == 1 .. 14
MCHostPorts == { "127.0.0.1:9000" }
MCUnsigned == [ seven |-> 7, large |-> 256 ]
MCDoubles == [ turn |-> 360 ]
MCInvocations ==
  { << "127.0.0.1:9000", "move-joint", "seven", "turn" >>,
    << >>, << "127.0.0.1:9000" >>, << "localhost", "home" >>,
    << "127.0.0.1:9000", "reset" >>, << "127.0.0.1:9000", "move-joint", "seven" >>,
    << "127.0.0.1:9000", "move-joint", "turn", "seven" >>,
    << "127.0.0.1:9000", "move-joint", "large", "turn" >>,
    << "127.0.0.1:9000", "move-joint", "seven", "seven" >> }
MCSnapshots ==
  { [ robotName |-> << >>, controllerStateName |-> << >>,
      joints |-> << [position |-> 3, velocity |-> 0] >> ] }
MCMalformed == { << 7, 1, 15, 0 >>, << 7, 1, 1, 9, 0 >> }
MCGreetings ==
  { << KeyLine, EndLine >>, << EndLine >>, << >>,
    << KeyLine, 0, 0, EndLine >> }
MCMessages ==
  { << >>,
    << [opcode |-> 1, masked |-> TRUE, payload |-> << 8 >>],
       [opcode |-> 9, masked |-> FALSE, payload |-> << >>],
       [opcode |-> 8, masked |-> TRUE, payload |-> << >>],
       [opcode |-> 1, masked |-> FALSE, payload |-> << 8 >>] >>,
    << [opcode |-> 2, masked |-> TRUE, payload |-> << 8, 0, 8, 0, 8, 0 >>] >> }
===============================================================================

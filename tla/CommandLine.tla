------------------------------ MODULE CommandLine ------------------------------
(***************************************************************************)
(* What robotctl makes of its arguments, and Client of a command.  An      *)
(* argument is a word; how from_chars reads one is the constants below.    *)
(* Angles are whole multiples of a half turn, which is 180 degrees and, in *)
(* the radians' cell, 1.                                                   *)
(***************************************************************************)
EXTENDS StatusPayload

CONSTANTS
  HostPorts,                    \* the words splitHostPort accepts
  UnsignedOf,                   \* words read as an unsigned int -> its value
  DoubleOf                      \* words read as a double -> its value

ASSUME WordsAssumption ==
  /\ \A word \in DOMAIN UnsignedOf : UnsignedOf[word] \in Nat
  /\ \A word \in DOMAIN DoubleOf : DoubleOf[word] \in Nat

(* The commands without arguments, by the word that asks for them.         *)
KindOf ==
  [ status |-> "Status", enable |-> "Enable", disable |-> "Disable", home |-> "Home",
    stop |-> "Stop", estop |-> "EmergencyStop" ]

Kinds == { "Status", "Enable", "Disable", "Home", "MoveJoint", "Stop", "EmergencyStop" }

Command == [ kind : Kinds, joint : 0 .. 255, degrees : Nat ]

Plain(kind) == [ kind |-> kind, joint |-> 0, degrees |-> 0 ]

Parsed(command) == [ result |-> "Ok", command |-> command ]
Invalid(problem) == [ result |-> problem ]

(* The two arguments of move-joint.                                        *)
ParseMoveJoint(args) ==
  IF Len(args) < 2 THEN Invalid("MissingArgument")
  ELSE IF args[1] \notin DOMAIN UnsignedOf THEN Invalid("InvalidArgument")
  ELSE IF UnsignedOf[args[1]] > 255 THEN Invalid("InvalidArgument")
  ELSE IF args[2] \notin DOMAIN DoubleOf THEN Invalid("InvalidArgument")
  ELSE Parsed([ kind |-> "MoveJoint", joint |-> UnsignedOf[args[1]],
                degrees |-> DoubleOf[args[2]] ])

(* parseArgs: the first complaint decides; words after the command's own   *)
(* are ignored.                                                            *)
ParseArgs(args) ==
  IF args = << >> THEN Invalid("InvalidHostPort")
  ELSE IF Len(args) < 2 THEN Invalid("MissingCommand")
  ELSE IF args[1] \notin HostPorts THEN Invalid("InvalidHostPort")
  ELSE IF args[2] \in DOMAIN KindOf THEN Parsed(Plain(KindOf[args[2]]))
  ELSE IF args[2] = "move-joint" THEN ParseMoveJoint(Drop(args, 2))
  ELSE Invalid("UnknownCommand")

(* toCommandType *)
TypeOf ==
  [ Status |-> 2, Enable |-> 3, Disable |-> 4, Home |-> 5, MoveJoint |-> 6,
    Stop |-> 8, EmergencyStop |-> 9 ]

Radians(degrees) == degrees \div 180

(* buildRequestFrame *)
BuildRequestFrame(command) ==
  [ type |-> TypeOf[command.kind],
    payload |-> IF command.kind = "MoveJoint"
                THEN EncodeMoveJoint(command.joint, Radians(command.degrees)) ELSE << >> ]

StatusRequest == BuildRequestFrame(Plain("Status"))
===============================================================================

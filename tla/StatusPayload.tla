----------------------------- MODULE StatusPayload -----------------------------
(***************************************************************************)
(* The payloads of robot::cli: a robot's status, and the one argument-     *)
(* carrying request.  A character, a 16-bit length and a double are one    *)
(* cell each, so bytes run out between cells.                              *)
(***************************************************************************)
EXTENDS FrameCodec

JointStatus == [ position : Cell, velocity : Cell ]

StatusPayload ==
  [ robotName : Seq(Cell), controllerStateName : Seq(Cell), joints : Seq(JointStatus) ]

Short == 65536                  \* lengths are written as 16 bits

WithLength(s) == << Len(s) % Short >> \o s

JointCells(joints) ==
  [k \in 1 .. 2 * Len(joints) |->
     IF k % 2 = 1 THEN joints[(k + 1) \div 2].position ELSE joints[k \div 2].velocity]

(* encodeStatusPayload *)
EncodeStatus(status) ==
  WithLength(status.robotName) \o WithLength(status.controllerStateName)
    \o << Len(status.joints) % Short >> \o JointCells(status.joints)

(* Where decodeStatusPayload finds the second length and the count.        *)
StateAt(bytes) == bytes[1] + 2
CountAt(bytes) == StateAt(bytes) + bytes[StateAt(bytes)] + 1

Truncated(bytes) ==
  \/ Len(bytes) < 1 \/ Len(bytes) < StateAt(bytes) \/ Len(bytes) < CountAt(bytes)
  \/ Len(bytes) < CountAt(bytes) + 2 * bytes[CountAt(bytes)]

(* decodeStatusPayload, of bytes that are not truncated; what follows the  *)
(* last joint is ignored.                                                  *)
DecodeStatus(bytes) ==
  [ robotName |-> SubSeq(bytes, 2, StateAt(bytes) - 1),
    controllerStateName |-> SubSeq(bytes, StateAt(bytes) + 1, CountAt(bytes) - 1),
    joints |-> [i \in 1 .. bytes[CountAt(bytes)] |->
                  [ position |-> bytes[CountAt(bytes) + 2 * i - 1],
                    velocity |-> bytes[CountAt(bytes) + 2 * i] ]] ]

(* encodeMoveJointPayload, decodeMoveJointPayload *)
EncodeMoveJoint(joint, target) == << joint, target >>

DecodeMoveJoint(bytes) ==
  IF Len(bytes) < 2 THEN [result |-> "TruncatedPayload"]
  ELSE [result |-> "Ok", joint |-> bytes[1], target |-> bytes[2]]
===============================================================================

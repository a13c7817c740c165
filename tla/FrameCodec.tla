------------------------------ MODULE FrameCodec ------------------------------
(***************************************************************************)
(* robot::protocol::FrameCodec, over cells.  A field of the header is one  *)
(* cell whatever its width, a byte of the payload is one cell; which order *)
(* the bytes of a field are in, and the flags, which decode copies and     *)
(* nobody sets, are left out.                                              *)
(***************************************************************************)
EXTENDS Streams

CONSTANTS
  Magic, Version,               \* kProtocolMagic, kProtocolVersion
  KnownTypes,                   \* the values isKnownCommandType accepts
  MaxPayload                    \* maxPayloadSize

ASSUME CodecAssumption ==
  /\ Magic \in Nat /\ Version \in Nat
  /\ KnownTypes \subseteq Nat
  /\ MaxPayload \in Nat

HeaderSize == 4                 \* magic, version, type, length

Frame == [ type : KnownTypes, payload : Seq(Cell) ]

Encode(frame) == << Magic, Version, frame.type, Len(frame.payload) >> \o frame.payload

Refused(problem) == [ result |-> problem, consumed |-> 0 ]

(* decode: the first complaint decides.                                    *)
Decode(bytes) ==
  IF Len(bytes) < HeaderSize THEN Refused("Incomplete")
  ELSE IF bytes[1] # Magic THEN Refused("InvalidMagic")
  ELSE IF bytes[2] # Version THEN Refused("UnsupportedVersion")
  ELSE IF bytes[3] \notin KnownTypes THEN Refused("UnknownCommandType")
  ELSE IF bytes[4] > MaxPayload THEN Refused("PayloadTooLarge")
  ELSE IF Len(bytes) < HeaderSize + bytes[4] THEN Refused("Incomplete")
  ELSE [ result |-> "Frame", consumed |-> HeaderSize + bytes[4],
         frame |-> [ type |-> bytes[3],
                     payload |-> SubSeq(bytes, HeaderSize + 1, HeaderSize + bytes[4]) ] ]

IsIncomplete(bytes) == Decode(bytes).result = "Incomplete"
===============================================================================

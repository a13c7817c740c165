-------------------------------- MODULE Session --------------------------------
(***************************************************************************)
(* Clients of the emulator, their connections, and the serving loop.       *)
(*                                                                         *)
(* A connection is two streams of cells, which arrive in pieces of any     *)
(* size.  The emulator accepts one connection after another and serves it  *)
(* until it ends.  A client built on robot::cli::Client sends a request,   *)
(* waits for the answer, and sends the next or closes.  Its process may    *)
(* end at any moment, also in the middle of a send.  Peers that are not    *)
(* such clients send something else (Malformed) once.                      *)
(*                                                                         *)
(* What a request does is in RobotService, and how its handler shares the  *)
(* robot in EmulatorServer; here a status request is answered with one of  *)
(* the snapshots, and any other with one of the two statuses.              *)
(***************************************************************************)
EXTENDS CommandLine, FiniteSets

CONSTANTS
  Clients,
  Pollers,                      \* the viewers among them: they keep their connection
  Links,                        \* the connections there can be at one time
  Invocations,                  \* the arguments robotctl is started with
  Snapshots,                    \* what handleGetStatus may find
  Malformed,                    \* what other peers send
  None

ASSUME SessionAssumption ==
  /\ Pollers \subseteq Clients
  /\ {2, 3, 4, 5, 6, 8, 9} \subseteq KnownTypes
  /\ Snapshots \subseteq StatusPayload
  /\ Malformed \subseteq Seq(Cell)
  /\ None \notin Links /\ None \notin Frame

(* A move-joint request and the status of any robot there is fit a frame.  *)
ASSUME FitsAssumption ==
  /\ MaxPayload >= 2
  /\ \A found \in Snapshots :
       /\ Len(found.robotName) < Short /\ Len(found.controllerStateName) < Short
       /\ Len(found.joints) < Short
       /\ Len(EncodeStatus(found)) < MaxPayload

(* Nothing a peer of another make sends begins with a frame.               *)
ASSUME MalformedAssumption ==
  \A bytes \in Malformed : \A k \in 0 .. Len(bytes) :
    Decode(SubSeq(bytes, 1, k)).result # "Frame"

Ok == 0
Error == 1
Statuses == {Ok, Error}         \* ResponseStatus

(* robotctl calls once its arguments are parsed, with what they ask for; a *)
(* viewer asks for the status.                                             *)
Accepted == { args \in Invocations : ParseArgs(args).result = "Ok" }

Requests(c) ==
  IF c \in Pollers THEN { StatusRequest }
  ELSE { BuildRequestFrame(ParseArgs(args).command) : args \in Accepted }

VARIABLES
  link,                         \* the connections
  client,                       \* the clients
  backlog,                      \* connections the listener has not accepted yet
  serving,                      \* the connection being served, or None
  received,                     \* the serving loop's buffer
  pc,                           \* where the serving loop is
  frame                         \* decoded.frame, then response

vars == << link, client, backlog, serving, received, pc, frame >>
serverVars == << backlog, serving, received, pc, frame >>

(* lost: the server has sent something that the closed peer has reset.     *)
NoLink == [ user |-> None, up |-> << >>, down |-> << >>,
            clientOpen |-> FALSE, serverOpen |-> FALSE, lost |-> FALSE ]

(* asked, times and answer are history: the request of the last call, how  *)
(* often it was dispatched, and with what outcome.                         *)
NoClient == [ phase |-> "off", on |-> None, got |-> << >>, outcome |-> None,
              asked |-> None, times |-> 0, answer |-> None ]

Init ==
  /\ link = [n \in Links |-> NoLink]
  /\ client = [c \in Clients |-> NoClient]
  /\ backlog = << >> /\ serving = None
  /\ received = << >> /\ pc = "accept" /\ frame = None

Free(n) == ~link[n].clientOpen /\ ~link[n].serverOpen

-------------------------------------------------------------------------------
(* The client. *)

Connect(c) ==
  /\ client[c].phase = "off"
  /\ \E n \in Links :
       /\ Free(n)
       /\ link' = [link EXCEPT ![n] = [NoLink EXCEPT !.user = c,
                                         !.clientOpen = TRUE, !.serverOpen = TRUE]]
       /\ client' = [client EXCEPT ![c] = [NoClient EXCEPT !.phase = "idle", !.on = n]]
       /\ backlog' = Append(backlog, n)
  /\ UNCHANGED << serving, received, pc, frame >>

(* A viewer calls until a call fails; robotctl makes one call per          *)
(* connection.                                                             *)
MayCall(c) ==
  /\ client[c].phase = "idle"
  /\ IF client[c].asked = None THEN TRUE
     ELSE c \in Pollers /\ client[c].outcome.result = "Ok"

Send(c, bytes) == link' = [link EXCEPT ![client[c].on].up = @ \o bytes]

(* Mutated form: the next request is sent without waiting for an answer.   *)
CallWithoutWaiting(c) ==
  /\ client[c].phase \in {"idle", "waiting"}
  /\ \E request \in Requests(c) :
       /\ Len(link[client[c].on].up) <= HeaderSize
       /\ Send(c, Encode(request))
       /\ client' = [client EXCEPT ![c] = [@ EXCEPT !.phase = "waiting", !.got = << >>,
                        !.outcome = None, !.asked = request, !.times = 0, !.answer = None]]
  /\ UNCHANGED serverVars

(* execute, up to the first receive: the buffer is a new one.              *)
Call(c) ==
  /\ MayCall(c)
  /\ \E request \in Requests(c) :
       /\ Send(c, Encode(request))
       /\ client' = [client EXCEPT ![c] = [@ EXCEPT !.phase = "waiting", !.got = << >>,
                        !.outcome = None, !.asked = request, !.times = 0, !.answer = None]]
  /\ UNCHANGED serverVars

(* A peer of another make: nothing it sends is a frame.                    *)
SendMalformed(c) ==
  /\ client[c].phase = "idle" /\ client[c].asked = None /\ c \notin Pollers
  /\ \E bytes \in Malformed : Send(c, bytes)
  /\ client' = [client EXCEPT ![c].phase = "waiting"]
  /\ UNCHANGED serverVars

(* What execute makes of the bytes it has, once they are not Incomplete.   *)
Understood(request, bytes) ==
  LET decoded == Decode(bytes)
      Failure(problem) == [result |-> problem, frame |-> None, status |-> None]
      content == Drop(decoded.frame.payload, 1)
  IN IF decoded.result # "Frame" THEN Failure("ProtocolFailure")
     ELSE IF decoded.frame.type # request.type THEN Failure("UnexpectedResponseType")
     ELSE IF decoded.frame.payload = << >> THEN Failure("ProtocolFailure")
     ELSE IF decoded.frame.payload[1] = Error THEN Failure("ServerReportedError")
     ELSE IF request # StatusRequest
     THEN [result |-> "Ok", frame |-> decoded.frame, status |-> None]
     ELSE IF Truncated(content) THEN Failure("TruncatedPayload")
     ELSE [result |-> "Ok", frame |-> decoded.frame, status |-> DecodeStatus(content)]

(* Mutated form: the answer is taken to be there once its header is.       *)
ReceiveHeaderOnly(c) ==
  /\ client[c].phase = "waiting"
  /\ \E k \in Pieces(link[client[c].on].down) :
       LET got == client[c].got \o SubSeq(link[client[c].on].down, 1, k)
       IN /\ link' = [link EXCEPT ![client[c].on].down = Drop(@, k)]
          /\ client' = [client EXCEPT ![c] =
               IF Len(got) < HeaderSize THEN [@ EXCEPT !.got = got]
               ELSE [@ EXCEPT !.got = << >>, !.phase = "idle",
                       !.outcome = Understood(client[c].asked, got)]]
  /\ UNCHANGED serverVars

(* execute, one receive: the answer is complete or there is more to come.  *)
(* What the buffer holds after the frame is forgotten.                     *)
Receive(c) ==
  /\ client[c].phase = "waiting"
  /\ \E k \in Pieces(link[client[c].on].down) :
       LET got == client[c].got \o SubSeq(link[client[c].on].down, 1, k)
       IN /\ link' = [link EXCEPT ![client[c].on].down = Drop(@, k)]
          /\ client' = [client EXCEPT ![c] =
               IF IsIncomplete(got) THEN [@ EXCEPT !.got = got]
               ELSE [@ EXCEPT !.got = << >>, !.phase = "idle",
                       !.outcome = Understood(client[c].asked, got)]]
  /\ UNCHANGED serverVars

(* The end of a client's process or object: its connection is closed.      *)
Close(c) ==
  /\ link' = [link EXCEPT ![client[c].on].clientOpen = FALSE]
  /\ client' = [client EXCEPT ![c] = NoClient]

(* robotctl exits with its answer, a viewer hangs up after a failed call;  *)
(* every client does when the server has closed.                           *)
Exit(c) ==
  /\ \/ client[c].phase = "idle" /\ ~MayCall(c)
     \/ /\ client[c].phase = "waiting"
        /\ ~link[client[c].on].serverOpen /\ link[client[c].on].down = << >>
  /\ Close(c)
  /\ UNCHANGED serverVars

(* The process ends at any moment, with any part of its last send under    *)
(* way.                                                                    *)
Die(c) ==
  /\ client[c].phase # "off"
  /\ Close(c)
  /\ UNCHANGED serverVars

DieSending(c) ==
  /\ MayCall(c)
  /\ \E request \in Requests(c) : \E k \in 1 .. Len(Encode(request)) - 1 :
       link' = [link EXCEPT ![client[c].on].up = @ \o SubSeq(Encode(request), 1, k),
                            ![client[c].on].clientOpen = FALSE]
  /\ client' = [client EXCEPT ![c] = NoClient]
  /\ UNCHANGED serverVars

-------------------------------------------------------------------------------
(* The serving loop. *)

(* Mutated form: one buffer for all connections.                           *)
AcceptKeepsBuffer ==
  /\ pc = "accept" /\ backlog # << >>
  /\ serving' = Head(backlog) /\ backlog' = Tail(backlog)
  /\ pc' = "receive"
  /\ UNCHANGED << link, client, received, frame >>

Accept ==
  /\ pc = "accept" /\ backlog # << >>
  /\ serving' = Head(backlog) /\ backlog' = Tail(backlog)
  /\ received' = << >>
  /\ pc' = "receive"
  /\ UNCHANGED << link, client, frame >>

(* receiveOneFrame: a frame is taken off the buffer.                       *)
TakeFrame ==
  /\ pc = "receive"
  /\ Decode(received).result = "Frame"
  /\ frame' = Decode(received).frame
  /\ received' = Drop(received, Decode(received).consumed)
  /\ pc' = "dispatch"
  /\ UNCHANGED << link, client, backlog, serving >>

(* receiveOneFrame: one receive.                                           *)
ReceiveMore ==
  /\ pc = "receive"
  /\ IsIncomplete(received)
  /\ \E k \in Pieces(link[serving].up) :
       /\ received' = received \o SubSeq(link[serving].up, 1, k)
       /\ link' = [link EXCEPT ![serving].up = Drop(@, k)]
  /\ UNCHANGED << client, backlog, serving, pc, frame >>

(* The connection is destroyed at the end of the loop's body.              *)
Hangup ==
  /\ link' = [link EXCEPT ![serving].serverOpen = FALSE]
  /\ serving' = None /\ frame' = None
  /\ pc' = "accept"
  /\ UNCHANGED << client, backlog, received >>

(* A receive fails when the peer has closed and all it sent was read; or   *)
(* at once when it closed with part of an answer unread.                   *)
PeerGone ==
  /\ pc = "receive"
  /\ IsIncomplete(received)
  /\ ~link[serving].clientOpen
  /\ link[serving].up = << >> \/ link[serving].down # << >>
  /\ Hangup

(* Mutated form: the connection is left and not closed.                    *)
RejectKeepsOpen ==
  /\ pc = "receive"
  /\ Decode(received).result \notin {"Incomplete", "Frame"}
  /\ serving' = None /\ frame' = None
  /\ pc' = "accept"
  /\ UNCHANGED << link, client, backlog, received >>

Reject ==
  /\ pc = "receive"
  /\ Decode(received).result \notin {"Incomplete", "Frame"}
  /\ Hangup

(* What dispatch may answer, and the status behind it.                     *)
Answers(request) ==
  IF request = StatusRequest
  THEN { [payload |-> << Ok >> \o EncodeStatus(found), status |-> found] : found \in Snapshots }
  ELSE { [payload |-> << status >>, status |-> None] : status \in Statuses }

(* dispatch: the answer has the type of the request.                       *)
Dispatch ==
  /\ pc = "dispatch"
  /\ \E answer \in Answers(frame) :
       LET response == [type |-> frame.type, payload |-> answer.payload]
           user == link[serving].user
       IN /\ frame' = response
          /\ client' =
               IF link[serving].clientOpen
               THEN [client EXCEPT ![user].answer = [frame |-> response, status |-> answer.status],
                                   ![user].times = IF @ < 2 THEN @ + 1 ELSE @]
               ELSE client
  /\ pc' = "send"
  /\ UNCHANGED << link, backlog, serving, received >>

(* send to an open connection; to a closed one it appears to succeed and   *)
(* resets the connection.  The next send after that raises SIGPIPE, which  *)
(* nothing in this program handles.                                        *)
SendResponse ==
  /\ pc = "send"
  /\ IF link[serving].clientOpen
     THEN link' = [link EXCEPT ![serving].down = @ \o Encode(frame)]
     ELSE link' = [link EXCEPT ![serving].lost = TRUE]
  /\ pc' = IF link[serving].lost THEN "killed" ELSE "receive"
  /\ frame' = None
  /\ UNCHANGED << client, backlog, serving, received >>

(* It fails at once when the peer's host has reset the connection.         *)
SendFails ==
  /\ pc = "send"
  /\ ~link[serving].clientOpen
  /\ Hangup

Serve ==
  \/ Accept \/ TakeFrame \/ ReceiveMore \/ PeerGone \/ Reject
  \/ Dispatch \/ SendResponse \/ SendFails

Next ==
  \/ \E c \in Clients :
       \/ Connect(c) \/ Call(c) \/ SendMalformed(c) \/ Receive(c)
       \/ Exit(c) \/ Die(c) \/ DieSending(c)
  \/ Serve

Spec == Init /\ [][Next]_vars

(* The emulator runs, and so do the clients that have something to read,   *)
(* to ask or to end.  Nobody has to connect, and robotctl alone decides    *)
(* when to ask.                                                            *)
FairSpec ==
  /\ Spec
  /\ WF_vars(Serve)
  /\ \A c \in Clients : WF_vars(Receive(c)) /\ WF_vars(Exit(c))
  /\ \A c \in Pollers : WF_vars(Call(c))

-------------------------------------------------------------------------------
(* Properties. *)

\* What is dispatched is what a client asked, whole, and once: never a part of
\* a request, two requests run together, bytes of an earlier connection, or the
\* same request again (main.cpp 174-185, client.cpp 63-87).
DispatchedOnceAsAsked ==
  [][ pc = "dispatch" /\ pc' = "send" /\ link[serving].clientOpen =>
        LET user == client[link[serving].user]
        IN user.asked = frame /\ user.times = 0 ]_vars

\* The outcome a client has is the answer to its own request, which was
\* dispatched once, with the status the dispatcher found; it never meets an
\* answer it cannot read or did not ask for (client.cpp 77-116).
OutcomeIsTheAnswer ==
  \A c \in Clients :
    client[c].outcome # None =>
      /\ client[c].times = 1
      /\ LET answer == client[c].answer
         IN client[c].outcome =
              IF answer.frame.payload[1] = Ok
              THEN [result |-> "Ok", frame |-> answer.frame, status |-> answer.status]
              ELSE [result |-> "ServerReportedError", frame |-> None, status |-> None]

\* Clients that come and go, also in the middle of a request or an answer, do
\* not take the emulator down (main.cpp 189-194).
EmulatorSurvives == pc # "killed"

\* Whatever a peer sends, the loop waits for no more than the longest frame
\* (frame_codec.hpp 38-40).
BufferBounded ==
  pc = "receive" /\ IsIncomplete(received) => Len(received) < HeaderSize + MaxPayload

\* As long as no connection is served for ever, every client gets its answer or
\* learns that there is none (main.cpp 158-194).
ServedInTurn ==
  (\A n \in Links : []<>(serving # n)) =>
     \A c \in Clients : client[c].phase = "waiting" ~> client[c].phase # "waiting"

\* What phase-12-visualization.md 119 describes: robotctl commands issued to
\* the emulator that a viewer polls are answered.
CommandsGetThrough ==
  \A c \in Clients \ Pollers :
    client[c].phase = "waiting" /\ client[c].asked # None ~> client[c].phase # "waiting"
===============================================================================

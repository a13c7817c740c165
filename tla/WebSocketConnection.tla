-------------------------- MODULE WebSocketConnection --------------------------
(***************************************************************************)
(* robot::websocket::WebSocketConnection, on the connections a TcpListener *)
(* hands out one after another: the upgrade request, the client's frames   *)
(* and the server's text frames.  The peers are browser tabs.              *)
(*                                                                         *)
(* A cell is a line of the request, or a byte of a frame; the extended     *)
(* length and the mask, 2, 8 and 4 bytes, are one cell each.  The answer's *)
(* SHA-1 and Base64 and the unmasking, whose result is thrown away, are    *)
(* left out.                                                               *)
(***************************************************************************)
EXTENDS Streams, SequencesExt

CONSTANTS
  Tabs,
  Greetings,                    \* what a tab may send before its first frame
  Messages,                     \* the sequences of frames it may send after that
  MaxRequest,                   \* 16384
  Nobody

KeyLine == 1001                 \* a Sec-WebSocket-Key header with a value
EndLine == 1002                 \* the empty line after the headers

ASSUME TabAssumption ==
  /\ Nobody \notin Tabs
  /\ MaxRequest \in Nat

CloseOpcode == 8

VARIABLES
  tab,                          \* the tabs and their connections
  waiting,                      \* tabs the listener has not accepted yet
  at,                           \* the tab being served, or Nobody
  stage,                        \* where the server is with it
  buffer,                       \* requestBuffer until the handshake is over, then residual_
  polled                        \* history: opcodes pollForClose has read

wsVars == << tab, waiting, at, stage, buffer, polled >>

(* lost: the server has sent something that the closed tab has reset.      *)
NoTab == [ open |-> FALSE, held |-> FALSE, up |-> << >>, sent |-> << >>, lost |-> FALSE ]

WsInit ==
  /\ tab = [t \in Tabs |-> NoTab]
  /\ waiting = << >> /\ at = Nobody
  /\ stage = "listen" /\ buffer = << >> /\ polled = << >>

(* Payloads up to 5 cells have their length in the second byte; 6 there     *)
(* says that it follows.                                                   *)
Message == [ opcode : Cell, masked : BOOLEAN, payload : Seq(Cell) ]

Wire(message) ==
  LET size == Len(message.payload)
      long == size > 5
  IN << message.opcode, (IF message.masked THEN 8 ELSE 0) + (IF long THEN 6 ELSE size) >>
       \o (IF long THEN << size >> ELSE << >>)
       \o (IF message.masked THEN << 0 >> ELSE << >>) \o message.payload

OnTheWire(messages) == FlattenSeq([i \in DOMAIN messages |-> Wire(messages[i])])

(* Only the end of a request looks like one.                               *)
ASSUME BrowserAssumption ==
  /\ \A greeting \in Greetings :
       /\ greeting \in Seq(Cell)
       /\ \A i \in 1 .. Len(greeting) : greeting[i] = EndLine => i = Len(greeting)
  /\ \A messages \in Messages :
       /\ messages \in Seq(Message)
       /\ \A i \in 1 .. Len(OnTheWire(messages)) : OnTheWire(messages)[i] # EndLine

-------------------------------------------------------------------------------
(* Tabs. *)

(* A tab connects and sends what it has to send, which arrives in pieces.  *)
OpenTab(t, greeting, messages) ==
  /\ ~tab[t].open /\ ~tab[t].held
  /\ tab' = [tab EXCEPT ![t] =
       [ open |-> TRUE, held |-> TRUE, sent |-> messages, lost |-> FALSE,
         up |-> greeting \o OnTheWire(messages) ]]
  /\ waiting' = Append(waiting, t)
  /\ UNCHANGED << at, stage, buffer, polled >>

CloseTab(t) ==
  /\ tab[t].open
  /\ tab' = [tab EXCEPT ![t].open = FALSE]
  /\ UNCHANGED << waiting, at, stage, buffer, polled >>

-------------------------------------------------------------------------------
(* The server's side. *)

AcceptTab ==
  /\ stage = "listen" /\ waiting # << >>
  /\ at' = Head(waiting) /\ waiting' = Tail(waiting)
  /\ stage' = "handshake" /\ buffer' = << >> /\ polled' = << >>
  /\ UNCHANGED tab

(* The connection's destructor.                                            *)
DropTab ==
  /\ tab' = [tab EXCEPT ![at].held = FALSE]
  /\ at' = Nobody
  /\ stage' = "listen" /\ buffer' = << >>
  /\ UNCHANGED << waiting, polled >>

Receiving(k) ==
  /\ buffer' = buffer \o SubSeq(tab[at].up, 1, k)
  /\ tab' = [tab EXCEPT ![at].up = Drop(@, k)]
  /\ UNCHANGED << waiting, at, stage, polled >>

Holds(cell) == \E i \in DOMAIN buffer : buffer[i] = cell

Ended(t) == ~tab[t].open /\ tab[t].up = << >>

(* readUntil, one receive.  What is too long is refused before it is       *)
(* searched for the end.                                                   *)
ReadRequest ==
  /\ stage = "handshake" /\ ~Holds(EndLine)
  /\ \E k \in Pieces(tab[at].up) :
       IF Len(buffer) + k > MaxRequest THEN DropTab ELSE Receiving(k)

RequestFails ==
  /\ stage = "handshake" /\ ~Holds(EndLine)
  /\ Ended(at)
  /\ DropTab

AfterRequest == SelectInSeq(buffer, LAMBDA cell : cell = EndLine)

(* Mutated form: what came after the request is forgotten.                 *)
AnswerRequestOnly ==
  /\ stage = "handshake" /\ Holds(EndLine) /\ Holds(KeyLine)
  /\ buffer' = << >>
  /\ stage' = "open"
  /\ tab' = [tab EXCEPT ![at].lost = ~tab[at].open]
  /\ UNCHANGED << waiting, at, polled >>

(* accept: the answer is sent, and what came after the request is kept.    *)
AnswerRequest ==
  /\ stage = "handshake" /\ Holds(EndLine) /\ Holds(KeyLine)
  /\ buffer' = Drop(buffer, AfterRequest)
  /\ stage' = "open"
  /\ tab' = [tab EXCEPT ![at].lost = ~tab[at].open]
  /\ UNCHANGED << waiting, at, polled >>

(* There is no key anywhere in what was read, or the answer cannot be sent. *)
RefuseRequest ==
  /\ stage = "handshake" /\ Holds(EndLine)
  /\ Holds(KeyLine) => ~tab[at].open
  /\ DropTab

(* sendText that returns: a closed tab resets the connection, and the next *)
(* send raises SIGPIPE.                                                    *)
SendText ==
  /\ tab' = [tab EXCEPT ![at].lost = ~tab[at].open]
  /\ UNCHANGED << waiting, at, stage, buffer, polled >>

-------------------------------------------------------------------------------
(* pollForClose. *)

Extended(bytes) == bytes[2] % 8 > 5
Fields(bytes) ==
  2 + (IF Extended(bytes) THEN 1 ELSE 0) + (IF bytes[2] >= 8 THEN 1 ELSE 0)
FrameLength(bytes) == Fields(bytes) + (IF Extended(bytes) THEN bytes[3] ELSE bytes[2] % 8)

(* readExactBuffered has all it is asked for, up to the last byte.         *)
Whole(bytes) ==
  /\ Len(bytes) >= 2
  /\ Len(bytes) >= Fields(bytes)
  /\ Len(bytes) >= FrameLength(bytes)

ReadFrame ==
  /\ stage = "open" /\ ~Whole(buffer)
  /\ \E k \in Pieces(tab[at].up) : Receiving(k)

PollFrame ==
  /\ stage = "open" /\ Whole(buffer)
  /\ polled' = Append(polled, buffer[1])
  /\ buffer' = Drop(buffer, FrameLength(buffer))
  /\ stage' = IF buffer[1] = CloseOpcode THEN "over" ELSE "open"
  /\ UNCHANGED << tab, waiting, at >>

PollFails ==
  /\ stage = "open" /\ ~Whole(buffer)
  /\ Ended(at)
  /\ stage' = "over"
  /\ UNCHANGED << tab, waiting, at, buffer, polled >>

Leave ==
  /\ stage = "over"
  /\ DropTab

(* A server that waits for the tab to close: the connection's tests.       *)
Poller == PollFrame \/ ReadFrame \/ PollFails \/ Leave

Handshake == AcceptTab \/ ReadRequest \/ RequestFails \/ AnswerRequest \/ RefuseRequest

-------------------------------------------------------------------------------
(* Properties. *)

\* Whatever pieces the bytes come in, pollForClose reads the tab's frames and
\* nothing else, from the first one after the request to the one that closes,
\* or to the last (websocket_connection.cpp 85-101, 136-146, 179-232).
FramesReadWhole ==
  at # Nobody =>
    LET opcodes == [i \in DOMAIN tab[at].sent |-> tab[at].sent[i].opcode]
    IN /\ IsPrefix(polled, opcodes)
       /\ stage = "over" => polled = opcodes \/ Last(polled) = CloseOpcode
===============================================================================

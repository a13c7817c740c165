-------------------------------- MODULE Viewer ---------------------------------
(***************************************************************************)
(* apps/robot-viewer between its two connections: it serves one browser    *)
(* tab after another, and for each opens a connection to the emulator,     *)
(* polls the status and relays it until either side is lost.  The viewer   *)
(* is one of Session's clients, the one that keeps its connection.         *)
(*                                                                         *)
(* The viewer never calls pollForClose.  The other program here does: it   *)
(* accepts tabs and waits for them to close, and no emulator is there.     *)
(***************************************************************************)
EXTENDS Session, WebSocketConnection

CONSTANT TheViewer

ASSUME ViewerAssumption == Pollers = {TheViewer}

VARIABLES
  program,                      \* which of the two runs
  unsent                        \* the viewer has a status it has not relayed

viewerVars == << vars, wsVars, program, unsent >>

ViewerInit ==
  /\ Init /\ WsInit
  /\ program \in {"viewer", "reader"}
  /\ unsent = FALSE

OffLine == client[TheViewer].phase = "off"

(* Client::connect for the tab that has been let in.                       *)
ConnectToEmulator ==
  /\ stage = "open"
  /\ Connect(TheViewer)
  /\ UNCHANGED << wsVars, program, unsent >>

ConnectFails ==
  /\ stage = "open" /\ OffLine
  /\ DropTab
  /\ UNCHANGED << vars, program, unsent >>

Poll ==
  /\ ~unsent
  /\ Call(TheViewer)
  /\ UNCHANGED << wsVars, program, unsent >>

ReceiveStatus ==
  /\ Receive(TheViewer)
  /\ unsent' = IF client'[TheViewer].phase # "idle" THEN FALSE
               ELSE client'[TheViewer].outcome.result = "Ok"
  /\ UNCHANGED << wsVars, program >>

(* The emulator's answer is not one, or its connection is lost: both       *)
(* connections are destroyed.                                              *)
EmulatorLost ==
  /\ Exit(TheViewer)
  /\ DropTab
  /\ UNCHANGED << program, unsent >>

(* Mutated form: whether sendText succeeded is not looked at.              *)
RelayRegardless ==
  /\ unsent /\ unsent' = FALSE
  /\ UNCHANGED << vars, wsVars, program >>

(* sendText, to a tab that has not reset the connection.                   *)
Relay ==
  /\ unsent /\ ~tab[at].lost
  /\ SendText
  /\ unsent' = FALSE
  /\ UNCHANGED << vars, program >>

(* sendText fails: the tab's host has reset the connection.                *)
RelayFails ==
  /\ unsent /\ ~tab[at].open
  /\ Die(TheViewer) /\ DropTab
  /\ unsent' = FALSE
  /\ UNCHANGED program

(* The end of the viewer's process: by SIGPIPE, when sendText is the first *)
(* to learn of the reset, or from outside.  Its sockets are closed.        *)
Ends ==
  /\ tab' = [t \in Tabs |-> [tab[t] EXCEPT !.held = FALSE]]
  /\ waiting' = << >> /\ at' = Nobody /\ buffer' = << >>
  /\ stage' = "ended"
  /\ unsent' = FALSE
  /\ UNCHANGED << polled, program >>

Killed ==
  /\ unsent /\ tab[at].lost
  /\ Die(TheViewer) /\ Ends

Interrupted ==
  /\ stage # "ended"
  /\ \/ Die(TheViewer) \/ DieSending(TheViewer)
     \/ OffLine /\ UNCHANGED vars
  /\ Ends

ViewerLoop ==
  \/ /\ Handshake
     /\ UNCHANGED << vars, program, unsent >>
  \/ ConnectToEmulator \/ ConnectFails
  \/ Poll \/ ReceiveStatus \/ EmulatorLost
  \/ Relay \/ RelayFails \/ Killed

(* The emulator and robotctl, while the viewer does nothing.               *)
Beside(step) == program = "viewer" /\ step /\ UNCHANGED << wsVars, program, unsent >>

Others ==
  \/ Beside(Serve)
  \/ \E c \in Clients \ Pollers :
       \/ Beside(Connect(c)) \/ Beside(Call(c)) \/ Beside(SendMalformed(c))
       \/ Beside(Receive(c)) \/ Beside(Exit(c)) \/ Beside(Die(c)) \/ Beside(DieSending(c))

(* index.html sends no frames.                                             *)
Browse ==
  /\ stage # "ended"
  /\ \E t \in Tabs :
       \/ \E greeting \in Greetings, messages \in Messages :
            /\ program = "viewer" => messages = << >>
            /\ OpenTab(t, greeting, messages)
       \/ CloseTab(t)
  /\ UNCHANGED << vars, program, unsent >>

ReaderLoop ==
  /\ Handshake \/ Poller
  /\ UNCHANGED << vars, program, unsent >>

ViewerNext ==
  \/ Browse
  \/ program = "viewer" /\ (ViewerLoop \/ Interrupted)
  \/ Others
  \/ program = "reader" /\ ReaderLoop

ViewerSpec == ViewerInit /\ [][ViewerNext]_viewerVars

(* Session's fairness, and the viewer's: it runs when it is not waiting.   *)
FairViewerSpec ==
  /\ ViewerSpec
  /\ WF_viewerVars(Beside(Serve))
  /\ \A c \in Clients \ Pollers :
       WF_viewerVars(Beside(Receive(c))) /\ WF_viewerVars(Beside(Exit(c)))
  /\ WF_viewerVars(program = "viewer" /\ ViewerLoop)

-------------------------------------------------------------------------------
(* Properties. *)

\* A viewer that is being served when its tab closes hangs up, whether its
\* sends fail or kill it, and the emulator is free for the next client
\* (main.cpp 91-94).
ClosedTabFreesEmulator ==
  at # Nobody /\ ~tab[at].open /\ serving = client[TheViewer].on ~> OffLine
===============================================================================

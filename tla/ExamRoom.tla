------------------------------ MODULE ExamRoom ------------------------------
(***************************************************************************)
(* A room with its exam: the server's registry (module Registry), the      *)
(* teacher's session and broadcasts (server/dashboard.go, server.go), the  *)
(* TCP connections, and one client program per student                     *)
(* (client/client.go): its run loop, its reader goroutine and its lock     *)
(* overlay.  A handler action of Registry happens here exactly when the    *)
(* frame that triggers it is at the head of its connection.                *)
(*                                                                         *)
(* Frames are told apart only by what the two sides do with them: an       *)
(* acknowledgement is the state it reports, a NAME frame is the student    *)
(* id it carries, a control frame is the client event it triggers.         *)
(***************************************************************************)
EXTENDS Registry, Sequences

CONSTANTS
  Events,       \* what the surroundings do, see PossibleEvents
  Buttons,      \* bound: the buttons the teacher presses, each named by its frame
  PictureQueue, \* bound: frames a client lets queue up before a PICTURE
  MaxLocks      \* bound: how often the teacher locks the screens

(* A network path fails; a handshake is not answered within its deadline   *)
(* though the path is up; a screen capture fails; thirty seconds pass      *)
(* without a broadcast; the student quits; the token's four hours pass;    *)
(* the teacher goes back to the home screen.                               *)
PossibleEvents == {"cut", "slow", "capture", "silence", "quit", "expire", "leave"}

\* A frame's type tells a student id from the other frames.
ASSUME RoomAssumption ==
  /\ Student \cap (ClientState \cup {"hello", "picture"}) = {}
  /\ Events \subseteq PossibleEvents
  /\ Buttons \subseteq ClientEvent
  /\ PictureQueue \in Nat
  /\ MaxLocks \in Nat

VARIABLES
  session,    \* ExamSession.Machine
  tokenLive,  \* the join token has not expired
  locks,      \* how often the screens have been locked
  ui,         \* the teacher's UI thread: idle, or inside a broadcast
  wire,       \* each connection's network path
  toServer,   \* frames sent by the client, in order
  toClient,   \* frames sent by the server, in order
  cpc,        \* where each client's run loop stands
  sock,       \* Client.socket, or NoConn
  listening,  \* the client's readControlFrames goroutine is alive
  machine,    \* Client.sessionState
  overlay     \* the client's lock overlay is up

teacherVars == <<session, tokenLive, locks, ui>>
linkVars    == <<wire, toServer, toClient>>
clientVars  == <<cpc, sock, listening, machine, overlay>>
roomVars    == <<vars, teacherVars, linkVars, clientVars>>

ClientFrame == {"hello", "picture"} \cup ClientState \cup Student
ServerFrame == {"ok_waiting", "ok_started", "reject"} \cup ClientEvent

RoomTypeOK ==
  /\ session \in ServerState
  /\ tokenLive \in BOOLEAN
  /\ locks \in 0..MaxLocks
  /\ ui \in [step : {"idle", "snapshot", "write"},
             frame : ClientEvent, targets : SUBSET Conn]
  /\ wire \in [Conn -> {"unused", "up", "cut"}]
  /\ toServer \in [Conn -> Seq(ClientFrame)]
  /\ toClient \in [Conn -> Seq(ServerFrame)]
  /\ cpc \in [Student -> {"off", "dial", "hello", "name", "stream"}]
  /\ sock \in [Student -> Conn \cup {NoConn}]
  /\ listening \in [Student -> BOOLEAN]
  /\ machine \in [Student -> ClientState]
  /\ overlay \in [Student -> BOOLEAN]

\* The teacher has opened the waiting room; no student program runs yet.
RoomInit ==
  /\ Init
  /\ session = "waiting"
  /\ tokenLive = TRUE
  /\ locks = 0
  /\ ui = [step |-> "idle", frame |-> "exam_start", targets |-> {}]
  /\ wire = [c \in Conn |-> "unused"]
  /\ toServer = [c \in Conn |-> <<>>]
  /\ toClient = [c \in Conn |-> <<>>]
  /\ cpc = [s \in Student |-> "off"]
  /\ sock = [s \in Student |-> NoConn]
  /\ listening = [s \in Student |-> FALSE]
  /\ machine = [s \in Student |-> "waiting"]
  /\ overlay = [s \in Student |-> FALSE]

-----------------------------------------------------------------------------
(* The network.  A frame written to a connection whose path is cut, or     *)
(* whose other end has closed its socket, is lost.                         *)

SendToServer(c, f) ==
  toServer' = IF wire[c] = "up" /\ pc[c] # "done"
              THEN [toServer EXCEPT ![c] = Append(@, f)] ELSE toServer

SendToClient(c, f) ==
  toClient' = IF wire[c] = "up" /\ \E s \in Student : sock[s] = c
              THEN [toClient EXCEPT ![c] = Append(@, f)] ELSE toClient

FromClient(c, f) == toServer[c] # <<>> /\ Head(toServer[c]) = f
Consume(c) == toServer' = [toServer EXCEPT ![c] = Tail(@)]

\* The path fails; what was in flight in either direction is lost.
Cut(c) ==
  /\ "cut" \in Events
  /\ wire[c] = "up"
  /\ wire' = [wire EXCEPT ![c] = "cut"]
  /\ toServer' = [toServer EXCEPT ![c] = <<>>]
  /\ toClient' = [toClient EXCEPT ![c] = <<>>]
  /\ UNCHANGED <<vars, teacherVars, clientVars>>

-----------------------------------------------------------------------------
(* The server's handlers, driven by the frames that arrive. *)

AcceptConn(c) ==
  /\ wire[c] # "unused"
  /\ Accept(c)
  /\ UNCHANGED <<teacherVars, linkVars, clientVars>>

\* Seeded fault: OK always tells the client that the exam has started.
AdmitClient_AlwaysStarted(c) ==
  /\ FromClient(c, "hello")
  /\ tokenLive
  /\ HandshakeOK(c)
  /\ Consume(c)
  /\ SendToClient(c, "ok_started")
  /\ UNCHANGED <<wire, teacherVars, clientVars>>

\* performHandshake: the token is live and matches; Started is read here.
\* A Stopped session is not looked at.
AdmitClient(c) ==
  /\ FromClient(c, "hello")
  /\ tokenLive
  /\ HandshakeOK(c)
  /\ Consume(c)
  /\ SendToClient(c, IF IsCapturing(session) THEN "ok_started" ELSE "ok_waiting")
  /\ UNCHANGED <<wire, teacherVars, clientVars>>

RejectClient(c) ==
  /\ FromClient(c, "hello")
  /\ ~tokenLive
  /\ HandshakeFails(c)
  /\ Consume(c)
  /\ SendToClient(c, "reject")
  /\ UNCHANGED <<wire, teacherVars, clientVars>>

\* The handshake read fails: deadline, end of stream or a dead path.
HandshakeReadFails(c) ==
  /\ toServer[c] = <<>>
  /\ HandshakeFails(c)
  /\ UNCHANGED <<teacherVars, linkVars, clientVars>>

\* The steps of a handler that read nothing from the connection.
HandlerStep(c) ==
  /\ \/ Register(c) \/ Unkey(c) \/ Rekey(c) \/ CheckExists(c)
     \/ AddStudent(c) \/ UpdateName(c) \/ UpdateImage(c) \/ Unregister(c)
  /\ UNCHANGED <<teacherVars, linkVars, clientVars>>

HandleName(c) ==
  \E s \in Student :
    /\ FromClient(c, s)
    /\ RecvName(c, s)
    /\ Consume(c)
    /\ UNCHANGED <<wire, toClient, teacherVars, clientVars>>

HandleAck(c) ==
  \E st \in Acks :
    /\ FromClient(c, st)
    /\ RecvAck(c, st)
    /\ Consume(c)
    /\ UNCHANGED <<wire, toClient, teacherVars, clientVars>>

\* The session is looked at before decoding, not again before the update.
HandlePicture(c) ==
  /\ FromClient(c, "picture")
  /\ session # "stopped"
  /\ RecvPicture(c)
  /\ Consume(c)
  /\ UNCHANGED <<wire, toClient, teacherVars, clientVars>>

RefusePicture(c) ==
  /\ pc[c] = "loop"
  /\ FromClient(c, "picture")
  /\ session = "stopped"
  /\ Consume(c)
  /\ UNCHANGED <<vars, wire, toClient, teacherVars, clientVars>>

\* No frame for ten seconds, end of stream, a dead path, or a server that
\* no longer runs.
LeaveLoop(c) ==
  /\ toServer[c] = <<>> \/ ~running
  /\ Leave(c)
  /\ UNCHANGED <<teacherVars, linkVars, clientVars>>

RemoveStudent(c) ==
  /\ Removal(c)
  /\ UNCHANGED <<teacherVars, linkVars, clientVars>>

Serve(c) ==
  \/ AcceptConn(c) \/ AdmitClient(c) \/ RejectClient(c) \/ HandshakeReadFails(c)
  \/ HandlerStep(c) \/ HandleName(c) \/ HandleAck(c)
  \/ HandlePicture(c) \/ RefusePicture(c) \/ LeaveLoop(c) \/ RemoveStudent(c)

-----------------------------------------------------------------------------
(* The teacher.  A button applies its event to the session and broadcasts  *)
(* a control frame: the registry is read once, under the lock, and the     *)
(* connections found there are written one after the other.                *)

\* Seeded fault: the error of Apply is ignored and the frame sent all the same.
Press_IgnoresRefusal(event, frame) ==
  /\ running
  /\ ui.step = "idle" /\ frame \in Buttons
  /\ \E st \in ServerState :
       /\ session' = st
       /\ \/ <<session, event, st>> \in ServerEdge
          \/ st = session /\ \A to \in ServerState : <<session, event, to>> \notin ServerEdge
  /\ ui' = [ui EXCEPT !.step = "snapshot", !.frame = frame]
  /\ UNCHANGED <<vars, tokenLive, linkVars, clientVars>>

\* The session event of a button, and the control frame it broadcasts.
Press(event, frame) ==
  /\ running
  /\ ui.step = "idle" /\ frame \in Buttons
  /\ \E st \in ServerState : <<session, event, st>> \in ServerEdge /\ session' = st
  /\ ui' = [ui EXCEPT !.step = "snapshot", !.frame = frame]
  /\ UNCHANGED <<vars, tokenLive, linkVars, clientVars>>

StartExam  == Press("start_exam", "exam_start") /\ UNCHANGED locks
StopExam   == Press("stop_exam", "exam_stop") /\ UNCHANGED locks
LockAll    == Press("lock", "lock") /\ locks < MaxLocks /\ locks' = locks + 1
UnlockExam == Press("unlock", "unlock") /\ UNCHANGED locks

\* Seeded fault: UNLOCK goes to everybody, as START and STOP do.
Audience_UnlockAll(frame) ==
  { c \in { conns[k] : k \in Key } \ {NoConn} :
      frame # "lock" \/ IsCapturing(rcState[c]) }

\* BroadcastControlAll for START and STOP, BroadcastControl for the others.
Audience(frame) ==
  { c \in { conns[k] : k \in Key } \ {NoConn} :
      frame \in {"exam_start", "exam_stop"} \/ IsCapturing(rcState[c]) }

TakeSnapshot ==
  /\ ui.step = "snapshot"
  /\ ui' = [ui EXCEPT !.step = "write", !.targets = Audience(ui.frame)]
  /\ UNCHANGED <<vars, session, tokenLive, locks, linkVars, clientVars>>

WriteFrame(c) ==
  /\ ui.step = "write"
  /\ c \in ui.targets
  /\ ui' = [ui EXCEPT !.targets = @ \ {c}]
  /\ SendToClient(c, ui.frame)
  /\ UNCHANGED <<vars, session, tokenLive, locks, wire, toServer, clientVars>>

BroadcastDone ==
  /\ ui.step = "write"
  /\ ui.targets = {}
  /\ ui' = [ui EXCEPT !.step = "idle"]
  /\ UNCHANGED <<vars, session, tokenLive, locks, linkVars, clientVars>>

\* BtnStop and "Open Waiting Room" again: the home screen keeps its session,
\* so the reopened room holds the same exam in the same state.
LeaveRoom ==
  /\ "leave" \in Events
  /\ ui.step = "idle"
  /\ CloseRoom
  /\ UNCHANGED <<teacherVars, linkVars, clientVars>>

OpenRoomAgain ==
  /\ \E sameLog \in BOOLEAN : ReopenRoom(sameLog)
  /\ UNCHANGED <<teacherVars, linkVars, clientVars>>

\* The four hours of the join token have passed, or the home screen made a
\* new one: to a client that holds the old one it is the same.
TokenExpires ==
  /\ "expire" \in Events
  /\ tokenLive
  /\ tokenLive' = FALSE
  /\ UNCHANGED <<vars, session, locks, ui, linkVars, clientVars>>

Teacher ==
  \/ StartExam \/ StopExam \/ LockAll \/ UnlockExam
  \/ TakeSnapshot \/ (\E c \in Conn : WriteFrame(c)) \/ BroadcastDone
  \/ LeaveRoom \/ OpenRoomAgain \/ TokenExpires

-----------------------------------------------------------------------------
(* The client program of a student. *)

\* The run loop closes its socket and goes on at label `next`.
CloseSocket(s, next) ==
  /\ cpc' = [cpc EXCEPT ![s] = next]
  /\ sock' = [sock EXCEPT ![s] = NoConn]
  /\ listening' = [listening EXCEPT ![s] = FALSE]
  /\ toClient' = IF sock[s] = NoConn THEN toClient
                 ELSE [toClient EXCEPT ![sock[s]] = <<>>]

\* The join form starts the client; its session machine is never reset.
Join(s) ==
  /\ cpc[s] = "off"
  /\ cpc' = [cpc EXCEPT ![s] = "dial"]
  /\ UNCHANGED <<vars, teacherVars, linkVars, sock, listening, machine, overlay>>

\* Client.Stop from one of the dashboard's buttons.
Quit(s) ==
  /\ "quit" \in Events
  /\ cpc[s] # "off"
  /\ CloseSocket(s, "off")
  /\ UNCHANGED <<vars, teacherVars, wire, toServer, machine, overlay>>

\* DialTCP succeeds on a fresh connection and the token is sent.
Dial(s, c) ==
  /\ cpc[s] = "dial"
  /\ running
  /\ wire[c] = "unused"
  /\ wire' = [wire EXCEPT ![c] = "up"]
  /\ toServer' = [toServer EXCEPT ![c] = <<"hello">>]
  /\ sock' = [sock EXCEPT ![s] = c]
  /\ cpc' = [cpc EXCEPT ![s] = "hello"]
  /\ UNCHANGED <<vars, teacherVars, toClient, listening, machine, overlay>>

\* sendHandshake read OK: an exam in progress is joined as EXAM_START, but
\* without the callback and without a state acknowledgement.
Greeted(s) ==
  /\ cpc[s] = "hello"
  /\ toClient[sock[s]] # <<>>
  /\ LET reply == Head(toClient[sock[s]])
     IN /\ reply \in {"ok_waiting", "ok_started"}
        /\ machine' = IF reply = "ok_started"
                      THEN [machine EXCEPT ![s] = ClientApply(@, "exam_start")]
                      ELSE machine
  /\ toClient' = [toClient EXCEPT ![sock[s]] = Tail(@)]
  /\ cpc' = [cpc EXCEPT ![s] = "name"]
  /\ UNCHANGED <<vars, teacherVars, wire, toServer, sock, listening, overlay>>

\* Seeded fault: the handshake reply is awaited without a deadline.
NotGreeted_NoDeadline(s) ==
  /\ cpc[s] = "hello"
  /\ toClient[sock[s]] # <<>>
  /\ Head(toClient[sock[s]]) = "reject"
  /\ CloseSocket(s, "dial")
  /\ UNCHANGED <<vars, teacherVars, wire, toServer, machine, overlay>>

\* No answer to the handshake will come in time.
NoAnswer(c) ==
  /\ toClient[c] = <<>>
  /\ "slow" \in Events \/ wire[c] = "cut" \/ pc[c] = "done" \/ ~running

\* Rejected, or no answer: close, back off, dial again.
NotGreeted(s) ==
  /\ cpc[s] = "hello"
  /\ \/ NoAnswer(sock[s])
     \/ toClient[sock[s]] # <<>> /\ Head(toClient[sock[s]]) = "reject"
  /\ CloseSocket(s, "dial")
  /\ UNCHANGED <<vars, teacherVars, wire, toServer, machine, overlay>>

\* NAME is sent and the reader goroutine started.
SendName(s) ==
  /\ cpc[s] = "name"
  /\ SendToServer(sock[s], s)
  /\ cpc' = [cpc EXCEPT ![s] = "stream"]
  /\ listening' = [listening EXCEPT ![s] = TRUE]
  /\ UNCHANGED <<vars, teacherVars, wire, toClient, sock, machine, overlay>>

SendPicture(s) ==
  /\ cpc[s] = "stream"
  /\ Len(toServer[sock[s]]) < PictureQueue
  /\ SendToServer(sock[s], "picture")
  /\ UNCHANGED <<vars, teacherVars, wire, toClient, clientVars>>

\* A capture or a send failed: the run loop closes the socket and redials.
LoseConnection(s) ==
  /\ cpc[s] = "stream"
  /\ "capture" \in Events \/ wire[sock[s]] = "cut" \/ pc[sock[s]] = "done"
  /\ CloseSocket(s, "dial")
  /\ UNCHANGED <<vars, teacherVars, wire, toServer, machine, overlay>>

\* Seeded fault: the acknowledgement echoes the command's type.
AckOf_Echo(f) == f

\* The state a control frame is acknowledged with, whatever Apply said.
AckOf(f) ==
  CASE f = "exam_start" -> "capturing"
    [] f = "exam_stop"  -> "stopped"
    [] f = "lock"       -> "locked"
    [] f = "unlock"     -> "capturing"

\* dispatchControl: the machine, the overlay callback, then the ack.  The
\* stop callback does not touch the overlay.
Dispatch(s) ==
  /\ listening[s]
  /\ toClient[sock[s]] # <<>>
  /\ LET f == Head(toClient[sock[s]])
     IN /\ machine' = [machine EXCEPT ![s] = ClientApply(@, f)]
        /\ overlay' = [overlay EXCEPT ![s] = f = "lock" \/ (@ /\ f # "unlock")]
        /\ SendToServer(sock[s], AckOf(f))
  /\ toClient' = [toClient EXCEPT ![sock[s]] = Tail(@)]
  /\ UNCHANGED <<vars, teacherVars, wire, cpc, sock, listening>>

\* Nothing from the server for thirty seconds, or end of stream: the reader
\* goroutine returns; the run loop does not know.
ReaderReturns(s) ==
  /\ listening[s]
  /\ "silence" \in Events \/ wire[sock[s]] = "cut" \/ pc[sock[s]] = "done"
  /\ toClient[sock[s]] = <<>>
  /\ listening' = [listening EXCEPT ![s] = FALSE]
  /\ UNCHANGED <<vars, teacherVars, linkVars, cpc, sock, machine, overlay>>

Client(s) ==
  \/ Join(s) \/ Quit(s) \/ (\E c \in Conn : Dial(s, c))
  \/ Greeted(s) \/ NotGreeted(s) \/ SendName(s) \/ SendPicture(s)
  \/ LoseConnection(s) \/ Dispatch(s) \/ ReaderReturns(s)

-----------------------------------------------------------------------------
RoomNext ==
  \/ \E c \in Conn : Serve(c) \/ Cut(c)
  \/ Teacher
  \/ \E s \in Student : Client(s)

RoomSpec == RoomInit /\ [][RoomNext]_roomVars

(***************************************************************************)
(* The client's run loop never blocks for good (dial, handshake and        *)
(* back-off are all bounded in time) and a handler takes the frame that is *)
(* at the head of its connection.  Nothing is assumed of the teacher, of   *)
(* the student or of the network.                                          *)
(***************************************************************************)
RoomFairness ==
  /\ \A c \in Conn : WF_roomVars(AcceptConn(c)) /\ WF_roomVars(AdmitClient(c))
                     /\ WF_roomVars(RejectClient(c))
  /\ \A s \in Student : /\ WF_roomVars(\E c \in Conn : Dial(s, c))
                        /\ WF_roomVars(Greeted(s) \/ NotGreeted(s))
                        /\ WF_roomVars(SendName(s))

FairRoomSpec == RoomSpec /\ RoomFairness

-----------------------------------------------------------------------------
(* Properties. *)

\* What a session state lets anyone believe about the exam.
Believable(st) ==
  \/ st = "waiting"
  \/ st \in {"capturing", "locked"} /\ session \in {"capturing", "locked", "stopped"}
  \/ st = "stopped" /\ session = "stopped"

(***************************************************************************)
(* Nobody runs ahead of the teacher.  However frames, acknowledgements,    *)
(* reconnects and late removals interleave, no client machine, no registry *)
(* entry and no tile is in a state the session has not reached             *)
(* (dispatchControl, sendHandshake, setStudentState).                      *)
(***************************************************************************)
NobodyAhead ==
  /\ \A s \in Student : /\ Believable(machine[s])
                        /\ tile[s] # "none" => Believable(tile[s])
  /\ \A c \in Conn : Believable(rcState[c])

\* The client of s has been where st says it is.
Reached(s, st) ==
  /\ st \in {"capturing", "locked", "stopped"} => machine[s] # "waiting"
  /\ st = "stopped" => machine[s] = "stopped"

(***************************************************************************)
(* The dashboard is behind the clients as the clients are behind the       *)
(* teacher: no tile, and no registry entry of a named connection, says     *)
(* more of a student than the student's own client has reached.  An        *)
(* acknowledgement reports what the command asks for and not what Apply    *)
(* made of it, so this rests on who is addressed (dispatchControl and      *)
(* sendStateAck against setStudentState and BroadcastControl's filter).    *)
(***************************************************************************)
NoTileAheadOfClient ==
  /\ \A s \in Student : Reached(s, tile[s])
  /\ \A c \in Conn : id[c] # NoStudent => Reached(id[c], rcState[c])

(***************************************************************************)
(* The lock overlay and the client's machine agree as long as the exam     *)
(* runs, across reconnects and lost or repeated frames: a Locked client    *)
(* shows the overlay, a Waiting or Capturing one does not (dispatchControl *)
(* and sendHandshake against main.go's overlay callbacks).                 *)
(***************************************************************************)
OverlayAgrees ==
  \A s \in Student : machine[s] # "stopped" => (overlay[s] <=> machine[s] = "locked")

(***************************************************************************)
(* The room keeps the exam's promise (module ExamPromise): every step of   *)
(* the handlers, the network and the clients is, for the session and the   *)
(* client machines, a legal move of the teacher, one student following an  *)
(* issued command, or no move at all.                                      *)
(***************************************************************************)
Promise == INSTANCE ExamPromise WITH
  session <- session, machine <- machine, Student <- Student
RoomKeepsPromise == Promise!PromiseSpec

(***************************************************************************)
(* A joined client gets back into the exam (the retry loop of Start): it   *)
(* dials again while the model has a connection left for it; no attempt    *)
(* lasts for ever; and every attempt leads to streaming on that very       *)
(* connection, however many handlers of the student's earlier connections  *)
(* still hold the registry, unless the path of this attempt fails, the     *)
(* student quits, the teacher closes the room or the token expires.        *)
(***************************************************************************)
NoneLeft == \A c \in Conn : wire[c] # "unused"
Dialled(s, c) == cpc[s] = "hello" /\ sock[s] = c
Streams(s, c) == cpc[s] = "stream" /\ sock[s] = c
Hopeless(c) == wire[c] = "cut" \/ ~running \/ ~tokenLive

ClientReconnects ==
  \A s \in Student :
    /\ cpc[s] = "dial" ~> (cpc[s] # "dial" \/ ~running \/ NoneLeft)
    /\ cpc[s] = "hello" ~> cpc[s] # "hello"
    /\ \A c \in Conn :
         Dialled(s, c) ~> (Streams(s, c) \/ cpc[s] = "off" \/ Hopeless(c))

-----------------------------------------------------------------------------
(* Statements of the documents and comments that the code does not keep.   *)

\* s is connected, registered under its id and listening, and every frame
\* and acknowledgement of its connection has been handled.
Settled(s) ==
  LET c == sock[s]
  IN /\ cpc[s] = "stream"
     /\ listening[s]
     /\ wire[c] = "up"
     /\ pc[c] = "loop"
     /\ conns[s] = c
     /\ toServer[c] = <<>>
     /\ toClient[c] = <<>>

\* The step that decides who is sent a broadcast of f.
Addressing(f) == ui.step = "snapshot" /\ ui'.step = "write" /\ ui.frame = f

(***************************************************************************)
(* dashboard.go:469-470: locking "broadcasts the lock-screen control frame *)
(* to all capturing students": a capturing client with nothing in flight   *)
(* is among those the lock is sent to.                                     *)
(***************************************************************************)
LockReachesCapturing ==
  [][Addressing("lock") => \A s \in Student :
       Settled(s) /\ machine[s] = "capturing" => sock[s] \in ui'.targets]_roomVars
=============================================================================

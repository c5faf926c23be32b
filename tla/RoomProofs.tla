----------------------------- MODULE RoomProofs -----------------------------
(***************************************************************************)
(* Proofs about a room with its exam, for any sets of connections and      *)
(* students and any surroundings.  A room step is a registry step, so what *)
(* RegistryProofs shows carries over.  What the clients believe needs an   *)
(* invariant about the connections: which sockets are open on what, what   *)
(* a client still has to read, and that no frame in flight is ahead of the *)
(* session.                                                                *)
(***************************************************************************)
EXTENDS ExamRoom, RegistryProofs, SequenceTheorems

(* The handler has not answered the handshake.                             *)
Unanswered(c) == pc[c] \in {"idle", "handshake"}

(* A socket belongs to one client, and a connection that is not up carries *)
(* nothing; until the handshake is answered it carries the handshake.      *)
Sockets ==
  /\ \A s \in Student :
       /\ sock[s] # NoConn <=> cpc[s] \in {"hello", "name", "stream"}
       /\ sock[s] # NoConn => wire[sock[s]] # "unused"
       /\ listening[s] => cpc[s] = "stream"
  /\ \A s, t \in Student : s # t /\ sock[s] = sock[t] => sock[s] = NoConn
  /\ \A c \in Conn :
       /\ wire[c] # "up" => toClient[c] = <<>> /\ toServer[c] = <<>>
       /\ wire[c] = "unused" => pc[c] = "idle"
       /\ wire[c] = "up" /\ Unanswered(c) => toServer[c] = <<"hello">>

Replies == {"ok_waiting", "ok_started", "reject"}

(* What a client has still to read: nothing, then the reply and after it   *)
(* control frames, and once the reply is read control frames only.         *)
Reads(s) ==
  /\ cpc[s] = "hello" /\ Unanswered(sock[s]) => toClient[sock[s]] = <<>>
  /\ cpc[s] = "hello" /\ ~Unanswered(sock[s]) /\ wire[sock[s]] = "up"
       => /\ toClient[sock[s]] # <<>>
          /\ Head(toClient[sock[s]]) \in Replies
          /\ Tail(toClient[sock[s]]) \in Seq(ClientEvent)
  /\ cpc[s] \in {"name", "stream"}
       => /\ wire[sock[s]] = "up" => ~Unanswered(sock[s])
          /\ toClient[sock[s]] \in Seq(ClientEvent)

Greeting == \A s \in Student : Reads(s)

(* A broadcast is only written to connections that were let in.            *)
Targets == \A c \in ui.targets : ~Unanswered(c)

Begun == session \in {"capturing", "locked", "stopped"}
Ended == session = "stopped"

(* The frames a session's state lets be in flight.                         *)
ServerFrames ==
  {"ok_waiting", "reject"}
    \cup (IF Begun THEN {"ok_started", "exam_start", "lock", "unlock"} ELSE {})
    \cup (IF Ended THEN {"exam_stop"} ELSE {})
ClientFrames ==
  {"hello", "picture"} \cup Student \cup { st \in ClientState : Believable(st) }

Frames ==
  /\ \A c \in Conn : /\ toClient[c] \in Seq(ServerFrames)
                     /\ toServer[c] \in Seq(ClientFrames)
  /\ ui.step # "idle" => ui.frame \in ServerFrames

RoomInv ==
  /\ RegistryInv
  /\ RoomTypeOK
  /\ session # "idle"
  /\ Sockets
  /\ Greeting
  /\ Targets
  /\ Frames
  /\ NobodyAhead
  /\ OverlayAgrees
-----------------------------------------------------------------------------
(* A step of the room is, for the registry, one of its own steps or none.  *)
LEMMA RegistryStep == ASSUME [RoomNext]_roomVars PROVE [Next]_vars
<1>1. ASSUME NEW c \in Conn, Serve(c) PROVE [Next]_vars
  <2>1. CASE AcceptConn(c)
    BY <2>1 DEF AcceptConn, Next
  <2>2. CASE AdmitClient(c)
    BY <2>2 DEF AdmitClient, Next, Handler
  <2>3. CASE RejectClient(c) \/ HandshakeReadFails(c)
    BY <2>3 DEF RejectClient, HandshakeReadFails, Next, Handler
  <2>4. CASE HandlerStep(c)
    BY <2>4 DEF HandlerStep, Next, Handler
  <2>5. CASE HandleName(c)
    BY <2>5 DEF HandleName, Next, Handler
  <2>6. CASE HandleAck(c)
    BY <2>6 DEF HandleAck, Next, Handler
  <2>7. CASE HandlePicture(c) \/ LeaveLoop(c)
    BY <2>7 DEF HandlePicture, LeaveLoop, Next, Handler
  <2>8. CASE RemoveStudent(c)
    BY <2>8 DEF RemoveStudent, Next
  <2>9. CASE RefusePicture(c)
    BY <2>9 DEF RefusePicture
  <2>10. QED
    BY <1>1, <2>1, <2>2, <2>3, <2>4, <2>5, <2>6, <2>7, <2>8, <2>9 DEF Serve
<1>2. ASSUME NEW c \in Conn, Cut(c) PROVE [Next]_vars
  BY <1>2 DEF Cut
<1>3. CASE Teacher
  <2>1. CASE StartExam \/ StopExam \/ LockAll \/ UnlockExam
    BY <2>1 DEF StartExam, StopExam, LockAll, UnlockExam, Press
  <2>2. CASE TakeSnapshot \/ (\E c \in Conn : WriteFrame(c)) \/ BroadcastDone
    BY <2>2 DEF TakeSnapshot, WriteFrame, BroadcastDone
  <2>3. CASE LeaveRoom \/ OpenRoomAgain
    BY <2>3 DEF LeaveRoom, OpenRoomAgain, Next
  <2>4. CASE TokenExpires
    BY <2>4 DEF TokenExpires
  <2>5. QED
    BY <1>3, <2>1, <2>2, <2>3, <2>4 DEF Teacher
<1>4. ASSUME NEW s \in Student, Client(s) PROVE [Next]_vars
  BY <1>4 DEF Client, Join, Quit, Dial, Greeted, NotGreeted, SendName, SendPicture,
     LoseConnection, Dispatch, ReaderReturns
<1>5. CASE UNCHANGED roomVars
  BY <1>5 DEF roomVars
<1>6. QED
  BY <1>1, <1>2, <1>3, <1>4, <1>5 DEF RoomNext

(* The room implements the registry: whatever the registry's module shows  *)
(* of an arbitrary environment holds with the clients and the network.     *)
THEOREM RoomImplementsRegistry == RoomSpec => Spec
<1>1. RoomInit => Init
  BY DEF RoomInit
<1>2. [RoomNext]_roomVars => [Next]_vars
  BY RegistryStep
<1>3. QED
  BY <1>1, <1>2, PTL DEF RoomSpec, Spec
-----------------------------------------------------------------------------
(* What is sent to the server keeps its channel's type.                    *)
LEMMA SendToServerType ==
  ASSUME NEW c \in Conn, NEW S, NEW f \in S,
         SendToServer(c, f), toServer \in [Conn -> Seq(S)]
  PROVE  toServer' \in [Conn -> Seq(S)]
<1>1. Append(toServer[c], f) \in Seq(S)
  BY AppendProperties
<1>2. QED
  BY <1>1 DEF SendToServer

(* What is sent to a client keeps its channel's type.                      *)
LEMMA SendToClientType ==
  ASSUME NEW c \in Conn, NEW S, NEW f \in S,
         SendToClient(c, f), toClient \in [Conn -> Seq(S)]
  PROVE  toClient' \in [Conn -> Seq(S)]
<1>1. Append(toClient[c], f) \in Seq(S)
  BY AppendProperties
<1>2. QED
  BY <1>1 DEF SendToClient

(* What a handler consumes keeps its channel's type.                       *)
LEMMA ConsumedType ==
  ASSUME NEW c \in Conn, NEW S, Consume(c), toServer \in [Conn -> Seq(S)],
         toServer[c] # <<>>
  PROVE  toServer' \in [Conn -> Seq(S)]
<1>1. Tail(toServer[c]) \in Seq(S)
  BY HeadTailProperties
<1>2. QED
  BY <1>1 DEF Consume

(* A control frame is acknowledged with a state of the client.             *)
LEMMA AckType == \A f \in ClientEvent : AckOf(f) \in ClientState
  BY DEF AckOf, ClientEvent, ClientState

(* Whatever frame arrives, a client machine stays in its states.           *)
LEMMA ApplyType == \A st \in ClientState : \A f : ClientApply(st, f) \in ClientState
  BY DEF ClientApply, ClientState

-----------------------------------------------------------------------------
(* Steps of a handler, of the teacher or of the registry alone: channels,  *)
(* clients and session stay as they are.                                   *)
Inside ==
  \/ \E c \in Conn : \/ AcceptConn(c) \/ HandshakeReadFails(c) \/ HandlerStep(c)
                     \/ LeaveLoop(c) \/ RemoveStudent(c)
  \/ LeaveRoom \/ OpenRoomAgain
  \/ UNCHANGED roomVars

(* Steps of a handler that take the frame at the head of its connection.   *)
Reading(c) ==
  \/ HandleName(c) \/ HandleAck(c) \/ HandlePicture(c) \/ RefusePicture(c)

(* Steps in which a client closes its socket.                              *)
Closing(s) == Quit(s) \/ NotGreeted(s) \/ LoseConnection(s)

(* These steps touch neither the teacher, the network nor the clients.     *)
LEMMA InsideFrame == Inside => UNCHANGED <<teacherVars, linkVars, clientVars>>
  BY DEF Inside, AcceptConn, HandshakeReadFails, HandlerStep, LeaveLoop,
     RemoveStudent, LeaveRoom, OpenRoomAgain, roomVars

(* A handler that reads takes one frame and leaves the rest alone.         *)
LEMMA ReadingFrame ==
  ASSUME NEW c \in Conn, Reading(c)
  PROVE  /\ Consume(c) /\ toServer[c] # <<>>
         /\ UNCHANGED <<wire, toClient, teacherVars, clientVars>>
  BY DEF Reading, HandleName, HandleAck, HandlePicture, RefusePicture, FromClient

(* A client that closes touches its socket, its loop and its reader only.  *)
LEMMA ClosingFrame ==
  ASSUME NEW s \in Student, Closing(s)
  PROVE  /\ \E next \in {"off", "dial"} : CloseSocket(s, next)
         /\ UNCHANGED <<vars, teacherVars, wire, toServer, machine, overlay>>
  BY DEF Closing, Quit, NotGreeted, LoseConnection

(* The buttons, as one step of the session and the UI thread.              *)
Pressed ==
  \E event \in ServerEvent, frame \in ClientEvent :
    /\ Press(event, frame)
    /\ <<event, frame>> \in { <<"start_exam", "exam_start">>, <<"stop_exam", "exam_stop">>,
                              <<"lock", "lock">>, <<"unlock", "unlock">> }
    /\ locks' \in {locks, locks + 1}
    /\ locks' # locks => locks < MaxLocks

(* Each of the four buttons is such a step.                                *)
LEMMA ButtonPressed == StartExam \/ StopExam \/ LockAll \/ UnlockExam => Pressed
  BY DEF StartExam, StopExam, LockAll, UnlockExam, Pressed, ServerEvent, ClientEvent

(* Every step of the room is one of these.                                 *)
LEMMA RoomStepCases ==
  ASSUME [RoomNext]_roomVars
  PROVE  \/ Inside
         \/ \E c \in Conn : \/ AdmitClient(c) \/ RejectClient(c) \/ Reading(c)
                            \/ WriteFrame(c) \/ Cut(c)
         \/ Pressed \/ TakeSnapshot \/ BroadcastDone \/ TokenExpires
         \/ \E s \in Student : \/ Join(s) \/ (\E c \in Conn : Dial(s, c)) \/ Greeted(s)
                               \/ SendName(s) \/ SendPicture(s) \/ Dispatch(s)
                               \/ ReaderReturns(s) \/ Closing(s)
  BY ButtonPressed DEF RoomNext, Serve, Teacher, Client, Inside, Reading, Closing

(* A client with an open socket holds one of the connections.              *)
LEMMA SocketOpen ==
  ASSUME RoomInv, NEW s \in Student, cpc[s] \in {"hello", "name", "stream"}
  PROVE  sock[s] \in Conn /\ wire[sock[s]] # "unused"
  BY DEF RoomInv, RoomTypeOK, Sockets

(* Once listening, a client finds control frames only.                     *)
LEMMA HeardFrame ==
  ASSUME RoomInv, NEW s \in Student, listening[s], toClient[sock[s]] # <<>>
  PROVE  /\ cpc[s] = "stream"
         /\ Head(toClient[sock[s]]) \in ClientEvent
         /\ Tail(toClient[sock[s]]) \in Seq(ClientEvent)
<1>1. cpc[s] = "stream" /\ toClient[sock[s]] \in Seq(ClientEvent)
  BY DEF RoomInv, Sockets, Greeting, Reads
<1>2. QED
  BY <1>1, HeadTailProperties

(* A channel without its head keeps its type.                              *)
LEMMA TailType ==
  ASSUME NEW c \in Conn, NEW S, toClient \in [Conn -> Seq(S)], toClient[c] # <<>>
  PROVE  [toClient EXCEPT ![c] = Tail(@)] \in [Conn -> Seq(S)]
<1>1. Tail(toClient[c]) \in Seq(S)
  BY HeadTailProperties
<1>2. QED
  BY <1>1

(* A channel whose socket was closed keeps its type.                       *)
LEMMA ClosedType ==
  ASSUME NEW s \in Student, NEW next \in {"off", "dial"}, CloseSocket(s, next),
         NEW S, toClient \in [Conn -> Seq(S)]
  PROVE  toClient' \in [Conn -> Seq(S)]
<1>1. <<>> \in Seq(S)
  BY EmptySeq
<1>2. QED
  BY <1>1 DEF CloseSocket

(* Type correctness of the room.                                           *)
LEMMA RoomTypeStep == RoomInv /\ [RoomNext]_roomVars => RoomTypeOK'
<1> SUFFICES ASSUME RoomInv, [RoomNext]_roomVars PROVE RoomTypeOK'
  OBVIOUS
<1>0. RoomTypeOK
  BY DEF RoomInv
<1>1. CASE Inside
  BY <1>0, <1>1, InsideFrame DEF RoomTypeOK, teacherVars, linkVars, clientVars
<1>2. ASSUME NEW c \in Conn, AdmitClient(c) \/ RejectClient(c) PROVE RoomTypeOK'
  <2>1. toServer' \in [Conn -> Seq(ClientFrame)]
    <3>1. Consume(c) /\ toServer[c] # <<>>
      BY <1>2 DEF AdmitClient, RejectClient, FromClient
    <3>2. QED
      BY <1>0, <3>1, ConsumedType DEF RoomTypeOK
  <2>2. \E f \in ServerFrame : SendToClient(c, f)
    BY <1>2 DEF AdmitClient, RejectClient, ServerFrame
  <2>3. toClient' \in [Conn -> Seq(ServerFrame)]
    BY <1>0, <2>2, SendToClientType DEF RoomTypeOK
  <2>4. QED
    BY <1>0, <1>2, <2>1, <2>3
       DEF AdmitClient, RejectClient, RoomTypeOK, teacherVars, clientVars
<1>3. ASSUME NEW c \in Conn, Reading(c) PROVE RoomTypeOK'
  <2>1. toServer' \in [Conn -> Seq(ClientFrame)]
    BY <1>0, <1>3, ReadingFrame, ConsumedType DEF RoomTypeOK
  <2>2. QED
    BY <1>0, <1>3, <2>1, ReadingFrame DEF RoomTypeOK, teacherVars, clientVars
<1>4. ASSUME NEW c \in Conn, WriteFrame(c) PROVE RoomTypeOK'
  <2>1. ui.frame \in ServerFrame
    BY <1>0 DEF RoomTypeOK, ServerFrame
  <2>2. toClient' \in [Conn -> Seq(ServerFrame)]
    BY <1>0, <1>4, <2>1, SendToClientType DEF WriteFrame, RoomTypeOK
  <2>3. QED
    BY <1>0, <1>4, <2>2 DEF WriteFrame, RoomTypeOK, clientVars
<1>5. ASSUME NEW c \in Conn, Cut(c) PROVE RoomTypeOK'
  BY <1>0, <1>5, EmptySeq DEF Cut, RoomTypeOK, teacherVars, clientVars
<1>6. CASE Pressed
  <2>1. PICK event \in ServerEvent, frame \in ClientEvent : Press(event, frame)
    BY <1>6 DEF Pressed
  <2>2. session' \in ServerState
    BY <2>1 DEF Press
  <2>3. ui' = [step |-> "snapshot", frame |-> frame, targets |-> ui.targets]
    BY <1>0, <2>1 DEF Press, RoomTypeOK
  <2>4. locks' \in 0..MaxLocks
    BY <1>0, <1>6, RoomAssumption DEF Pressed, RoomTypeOK
  <2>5. QED
    BY <1>0, <2>1, <2>2, <2>3, <2>4 DEF Press, RoomTypeOK, linkVars, clientVars
<1>7. CASE TakeSnapshot
  <2>1. Audience(ui.frame) \in SUBSET Conn
    BY DEF RoomInv, RegistryInv, TypeOK, Audience
  <2>2. QED
    BY <1>0, <1>7, <2>1 DEF TakeSnapshot, RoomTypeOK, linkVars, clientVars
<1>8. CASE BroadcastDone \/ TokenExpires
  BY <1>0, <1>8 DEF BroadcastDone, TokenExpires, RoomTypeOK, linkVars, clientVars
<1>9. ASSUME NEW s \in Student, Join(s) \/ ReaderReturns(s) PROVE RoomTypeOK'
  BY <1>0, <1>9 DEF Join, ReaderReturns, RoomTypeOK, teacherVars, linkVars
<1>10. ASSUME NEW s \in Student, NEW c \in Conn, Dial(s, c) PROVE RoomTypeOK'
  <2>1. <<"hello">> \in Seq(ClientFrame)
    BY DEF ClientFrame
  <2>2. QED
    BY <1>0, <1>10, <2>1 DEF Dial, RoomTypeOK, teacherVars
<1>11. ASSUME NEW s \in Student, Greeted(s) PROVE RoomTypeOK'
  <2>1. sock[s] \in Conn
    BY <1>11, SocketOpen DEF Greeted
  <2>2. toClient' \in [Conn -> Seq(ServerFrame)]
    BY <1>0, <1>11, <2>1, TailType DEF Greeted, RoomTypeOK
  <2>3. machine' \in [Student -> ClientState]
    BY <1>0, <1>11, ApplyType DEF Greeted, RoomTypeOK
  <2>4. QED
    BY <1>0, <1>11, <2>2, <2>3 DEF Greeted, RoomTypeOK, teacherVars
<1>12. ASSUME NEW s \in Student, SendName(s) \/ SendPicture(s) PROVE RoomTypeOK'
  <2>1. sock[s] \in Conn
    BY <1>12, SocketOpen DEF SendName, SendPicture
  <2>2. \E f \in ClientFrame : SendToServer(sock[s], f)
    BY <1>12 DEF SendName, SendPicture, ClientFrame
  <2>3. toServer' \in [Conn -> Seq(ClientFrame)]
    BY <1>0, <2>1, <2>2, SendToServerType DEF RoomTypeOK
  <2>4. QED
    BY <1>0, <1>12, <2>3 DEF SendName, SendPicture, RoomTypeOK, teacherVars, clientVars
<1>13. ASSUME NEW s \in Student, Dispatch(s) PROVE RoomTypeOK'
  <2>1. sock[s] \in Conn /\ Head(toClient[sock[s]]) \in ClientEvent
    BY <1>13, HeardFrame, SocketOpen DEF Dispatch
  <2>2. AckOf(Head(toClient[sock[s]])) \in ClientFrame
    BY <2>1, AckType DEF ClientFrame
  <2>3. toServer' \in [Conn -> Seq(ClientFrame)]
    BY <1>0, <1>13, <2>1, <2>2, SendToServerType DEF Dispatch, RoomTypeOK
  <2>4. toClient' \in [Conn -> Seq(ServerFrame)]
    BY <1>0, <1>13, <2>1, TailType DEF Dispatch, RoomTypeOK
  <2>5. machine' \in [Student -> ClientState]
    BY <1>0, <1>13, ApplyType DEF Dispatch, RoomTypeOK
  <2>6. overlay' \in [Student -> BOOLEAN]
    BY <1>0, <1>13 DEF Dispatch, RoomTypeOK
  <2>7. QED
    BY <1>0, <1>13, <2>3, <2>4, <2>5, <2>6 DEF Dispatch, RoomTypeOK, teacherVars
<1>14. ASSUME NEW s \in Student, Closing(s) PROVE RoomTypeOK'
  <2>1. PICK next \in {"off", "dial"} : CloseSocket(s, next)
    BY <1>14, ClosingFrame
  <2>2. toClient' \in [Conn -> Seq(ServerFrame)]
    BY <1>0, <2>1, ClosedType DEF RoomTypeOK
  <2>3. QED
    BY <1>0, <1>14, <2>1, <2>2, ClosingFrame DEF CloseSocket, RoomTypeOK, teacherVars
<1>15. QED
  BY <1>1, <1>2, <1>3, <1>4, <1>5, <1>6, <1>7, <1>8, <1>9, <1>10, <1>11, <1>12,
     <1>13, <1>14, RoomStepCases

-----------------------------------------------------------------------------
(* Past the handshake a handler never comes back to it.                    *)
Settling == \A d \in Conn : /\ Unanswered(d)' <=> Unanswered(d)
                            /\ pc'[d] = "idle" <=> pc[d] = "idle"

(* The steps of a handler past the handshake settle.                       *)
LEMMA ServingSettles ==
  ASSUME TypeOK, NEW c \in Conn,
         HandlerStep(c) \/ LeaveLoop(c) \/ RemoveStudent(c) \/ Reading(c)
  PROVE  Settling
<1> USE DEF TypeOK, Goto, Unanswered, Settling
<1>1. CASE HandlerStep(c)
  BY <1>1 DEF HandlerStep, Register, Unkey, Rekey, CheckExists, AddStudent,
     UpdateName, UpdateImage, Unregister
<1>2. CASE LeaveLoop(c) \/ RemoveStudent(c)
  BY <1>2 DEF LeaveLoop, RemoveStudent, Leave, Removal, netVars
<1>3. CASE Reading(c)
  BY <1>3 DEF Reading, HandleName, HandleAck, HandlePicture, RefusePicture,
     RecvName, RecvAck, RecvPicture, vars, netVars
<1>4. QED
  BY <1>1, <1>2, <1>3

(* So do closing and reopening the room.                                   *)
LEMMA RoomSettles ==
  LeaveRoom \/ OpenRoomAgain \/ UNCHANGED vars => Settling
  BY DEF LeaveRoom, OpenRoomAgain, CloseRoom, ReopenRoom, vars, netVars, Settling, Unanswered

(* A handler reads only in its loop, past the handshake.                   *)
LEMMA ReadingAnswered ==
  ASSUME NEW c \in Conn, Reading(c) PROVE ~Unanswered(c)
  BY DEF Reading, HandleName, HandleAck, HandlePicture, RefusePicture, RecvName,
     RecvAck, RecvPicture, Goto, Unanswered

(* The steps of Inside: two of them move a handler through the handshake.  *)
LEMMA InsideCases ==
  ASSUME TypeOK, Inside
  PROVE  \/ Settling
         \/ \E c \in Conn : AcceptConn(c) \/ HandshakeReadFails(c)
  BY ServingSettles, RoomSettles DEF Inside, roomVars

(* Sockets stay private to their clients and dead connections stay empty.  *)
LEMMA SocketsStep == RoomInv /\ [RoomNext]_roomVars => Sockets'
<1> SUFFICES ASSUME RoomInv, [RoomNext]_roomVars PROVE Sockets'
  OBVIOUS
<1>0. TypeOK /\ RoomTypeOK /\ Sockets /\ Greeting
  BY DEF RoomInv, RegistryInv
<1>a. ASSUME Settling, UNCHANGED <<linkVars, clientVars>> PROVE Sockets'
  BY <1>0, <1>a DEF Settling, Sockets, linkVars, clientVars
<1>1. CASE Inside
  <2>1. ASSUME NEW c \in Conn, AcceptConn(c) PROVE Sockets'
    BY <1>0, <2>1
       DEF AcceptConn, Accept, Goto, TypeOK, Sockets, Unanswered, linkVars, clientVars
  <2>2. ASSUME NEW c \in Conn, HandshakeReadFails(c) PROVE Sockets'
    BY <1>0, <2>2
       DEF HandshakeReadFails, HandshakeFails, Goto, TypeOK, Sockets, Unanswered,
           linkVars, clientVars
  <2>3. QED
    BY <1>0, <1>1, <1>a, <2>1, <2>2, InsideCases, InsideFrame
<1>2. ASSUME NEW c \in Conn, AdmitClient(c) \/ RejectClient(c) PROVE Sockets'
  BY <1>0, <1>2
     DEF AdmitClient, RejectClient, FromClient, Consume, SendToClient, HandshakeOK,
         HandshakeFails, Goto, TypeOK, RoomTypeOK, Sockets, Unanswered, clientVars
<1>3. ASSUME NEW c \in Conn, Reading(c) PROVE Sockets'
  <2>1. Settling /\ Consume(c) /\ toServer[c] # <<>> /\ ~Unanswered(c)
    BY <1>0, <1>3, ServingSettles, ReadingFrame, ReadingAnswered
  <2>2. UNCHANGED <<wire, toClient, cpc, sock, listening>>
    BY <1>3, ReadingFrame DEF clientVars
  <2>3. QED
    BY <1>0, <2>1, <2>2 DEF Consume, RoomTypeOK, Sockets, Settling
<1>4. ASSUME NEW c \in Conn, WriteFrame(c) PROVE Sockets'
  BY <1>0, <1>4
     DEF WriteFrame, SendToClient, RoomTypeOK, Sockets, Unanswered, vars, netVars, clientVars
<1>5. ASSUME NEW c \in Conn, Cut(c) PROVE Sockets'
  BY <1>0, <1>5 DEF Cut, RoomTypeOK, Sockets, Unanswered, vars, netVars, clientVars
<1>6. CASE Pressed \/ TakeSnapshot \/ BroadcastDone \/ TokenExpires
  <2>1. UNCHANGED <<vars, linkVars, clientVars>>
    BY <1>6 DEF Pressed, Press, TakeSnapshot, BroadcastDone, TokenExpires
  <2>2. QED
    BY <1>a, <2>1, RoomSettles
<1>7. ASSUME NEW s \in Student, Join(s) \/ ReaderReturns(s) PROVE Sockets'
  BY <1>0, <1>7
     DEF Join, ReaderReturns, RoomTypeOK, Sockets, Unanswered, vars, netVars, linkVars
<1>8. ASSUME NEW s \in Student, NEW c \in Conn, Dial(s, c) PROVE Sockets'
  BY <1>0, <1>8, RegistryAssumption
     DEF Dial, RoomTypeOK, Sockets, Unanswered, vars, netVars
<1>9. ASSUME NEW s \in Student, Greeted(s) PROVE Sockets'
  BY <1>0, <1>9, SocketOpen DEF Greeted, RoomTypeOK, Sockets, Unanswered, vars, netVars
<1>10. ASSUME NEW s \in Student, SendName(s) \/ SendPicture(s) PROVE Sockets'
  <2>1. sock[s] \in Conn /\ (wire[sock[s]] = "up" => ~Unanswered(sock[s]))
    BY <1>0, <1>10, SocketOpen DEF SendName, SendPicture, Greeting, Reads
  <2>2. \A d \in Conn : toServer'[d] = toServer[d] \/ (d = sock[s] /\ wire[d] = "up")
    BY <1>0, <1>10, <2>1 DEF SendName, SendPicture, SendToServer, RoomTypeOK
  <2>3. /\ UNCHANGED <<pc, wire, toClient, sock>>
        /\ \A t \in Student :
             \/ cpc'[t] = cpc[t] /\ listening'[t] = listening[t]
             \/ t = s /\ cpc[t] = "name" /\ cpc'[t] = "stream"
    BY <1>0, <1>10 DEF SendName, SendPicture, RoomTypeOK, vars, netVars, clientVars
  <2>4. QED
    BY <1>0, <2>1, <2>2, <2>3 DEF Sockets, Unanswered
<1>11. ASSUME NEW s \in Student, Dispatch(s) PROVE Sockets'
  <2>1. sock[s] \in Conn /\ (wire[sock[s]] = "up" => ~Unanswered(sock[s]))
    BY <1>0, <1>11, HeardFrame, SocketOpen DEF Dispatch, Greeting, Reads
  <2>2. QED
    BY <1>0, <1>11, <2>1
       DEF Dispatch, SendToServer, RoomTypeOK, Sockets, Unanswered, vars, netVars
<1>12. ASSUME NEW s \in Student, Closing(s) PROVE Sockets'
  <2>1. PICK next \in {"off", "dial"} : CloseSocket(s, next)
    BY <1>12, ClosingFrame
  <2>2. /\ UNCHANGED <<pc, wire, toServer>>
        /\ \A d \in Conn : toClient'[d] = toClient[d] \/ toClient'[d] = <<>>
    BY <1>0, <1>12, <2>1, ClosingFrame DEF CloseSocket, RoomTypeOK, vars, netVars
  <2>3. \A t \in Student :
          IF t = s THEN sock'[t] = NoConn /\ cpc'[t] = next /\ ~listening'[t]
          ELSE UNCHANGED <<sock[t], cpc[t], listening[t]>>
    BY <1>0, <2>1 DEF CloseSocket, RoomTypeOK
  <2>4. QED
    BY <1>0, <2>2, <2>3 DEF Sockets, Unanswered
<1>13. QED
  BY <1>1, <1>2, <1>3, <1>4, <1>5, <1>6, <1>7, <1>8, <1>9, <1>10, <1>11, <1>12,
     RoomStepCases

-----------------------------------------------------------------------------
(* A client whose connection is not touched has the same left to read.     *)
LEMMA ReadsKept ==
  ASSUME NEW s \in Student, Reads(s), UNCHANGED <<cpc[s], sock[s]>>,
         cpc[s] \in {"hello", "name", "stream"} =>
           /\ Unanswered(sock[s])' <=> Unanswered(sock[s])
           /\ wire'[sock[s]] = wire[sock[s]]
           /\ toClient'[sock[s]] = toClient[sock[s]]
  PROVE  Reads(s)'
<1> DEFINE c == sock[s]
<1>1. CASE cpc[s] \in {"hello", "name", "stream"}
  <2>1. /\ cpc'[s] = cpc[s] /\ sock'[s] = c
        /\ pc'[c] \in {"idle", "handshake"} <=> pc[c] \in {"idle", "handshake"}
        /\ wire'[c] = wire[c] /\ toClient'[c] = toClient[c]
    BY <1>1 DEF Unanswered
  <2>2. QED
    BY <2>1 DEF Reads, Unanswered
<1>2. CASE cpc[s] \notin {"hello", "name", "stream"}
  BY <1>2 DEF Reads
<1>3. QED
  BY <1>1, <1>2

(* Appending to a sequence that is not empty leaves its head in place.     *)
LEMMA AppendBehind ==
  ASSUME NEW S, NEW q \in Seq(S), NEW e \in S, q # <<>>
  PROVE  /\ Append(q, e) # <<>>
         /\ Head(Append(q, e)) = Head(q)
         /\ Tail(Append(q, e)) = Append(Tail(q), e)
  OBVIOUS

(* What a client has to read keeps its shape in every step.                *)
LEMMA GreetingStep == RoomInv /\ [RoomNext]_roomVars => Greeting'
<1> SUFFICES ASSUME RoomInv, [RoomNext]_roomVars, NEW t \in Student PROVE Reads(t)'
  BY DEF Greeting
<1>0. TypeOK /\ RoomTypeOK /\ Sockets /\ Reads(t)
  BY DEF RoomInv, RegistryInv, Greeting
<1>o. cpc[t] \in {"hello", "name", "stream"} => sock[t] \in Conn /\ wire[sock[t]] # "unused"
  BY SocketOpen
<1>a. ASSUME Settling, UNCHANGED <<wire, toClient, cpc, sock>> PROVE Reads(t)'
  BY <1>0, <1>o, <1>a, ReadsKept DEF Settling
<1>1. CASE Inside
  <2>1. ASSUME NEW c \in Conn, AcceptConn(c) PROVE Reads(t)'
    <3>1. \A d \in Conn : Unanswered(d)' <=> Unanswered(d)
      BY <1>0, <2>1 DEF AcceptConn, Accept, Goto, TypeOK, Unanswered
    <3>2. QED
      BY <1>0, <1>o, <2>1, <3>1, ReadsKept DEF AcceptConn, linkVars, clientVars
  <2>2. ASSUME NEW c \in Conn, HandshakeReadFails(c) PROVE Reads(t)'
    <3>1. wire[c] # "up" /\ toClient[c] = <<>>
      BY <1>0, <2>2 DEF HandshakeReadFails, HandshakeFails, Goto, Sockets, Unanswered
    <3>2. /\ UNCHANGED <<wire, toClient, cpc, sock>>
          /\ pc' = [pc EXCEPT ![c] = "done"] /\ pc[c] = "handshake"
      BY <2>2 DEF HandshakeReadFails, HandshakeFails, Goto, linkVars, clientVars
    <3>3. CASE sock[t] = c
      BY <1>0, <3>1, <3>2, <3>3 DEF TypeOK, Reads, Unanswered
    <3>4. CASE sock[t] # c
      BY <1>0, <1>o, <3>2, <3>4, ReadsKept DEF TypeOK, Unanswered
    <3>5. QED
      BY <3>3, <3>4
  <2>3. QED
    BY <1>0, <1>1, <1>a, <2>1, <2>2, InsideCases, InsideFrame DEF linkVars, clientVars
<1>2. ASSUME NEW c \in Conn, AdmitClient(c) \/ RejectClient(c) PROVE Reads(t)'
  <2>1. PICK f \in Replies : SendToClient(c, f)
    BY <1>2 DEF AdmitClient, RejectClient, Replies
  <2>2. /\ UNCHANGED <<wire, cpc, sock>> /\ pc[c] = "handshake"
        /\ \A d \in Conn : pc'[d] = IF d = c THEN pc'[c] ELSE pc[d]
        /\ pc'[c] \in {"register", "done"}
    BY <1>0, <1>2 DEF AdmitClient, RejectClient, HandshakeOK, HandshakeFails, Goto, TypeOK,
       clientVars
  <2>3. wire[c] = "up"
    BY <1>0, <1>2 DEF AdmitClient, RejectClient, FromClient, Sockets
  <2>4. CASE sock[t] = c /\ cpc[t] \in {"hello", "name", "stream"}
    <3>1. cpc[t] = "hello" /\ toClient[c] = <<>>
      BY <1>0, <2>2, <2>3, <2>4 DEF Reads, Unanswered
    <3>2. toClient'[c] = <<f>>
      BY <1>0, <2>1, <2>3, <2>4, <3>1 DEF SendToClient, RoomTypeOK
    <3>3. QED
      BY <2>2, <2>4, <3>1, <3>2 DEF Reads, Unanswered
  <2>5. CASE cpc[t] \in {"hello", "name", "stream"} => sock[t] # c
    <3>1. cpc[t] \in {"hello", "name", "stream"} => toClient'[sock[t]] = toClient[sock[t]]
      BY <1>0, <1>o, <2>1, <2>5 DEF SendToClient, RoomTypeOK
    <3>2. QED
      BY <1>0, <1>o, <2>2, <2>5, <3>1, ReadsKept DEF Unanswered
  <2>6. QED
    BY <2>4, <2>5
<1>3. ASSUME NEW c \in Conn, Reading(c) PROVE Reads(t)'
  BY <1>0, <1>3, <1>a, ServingSettles, ReadingFrame DEF clientVars
<1>4. ASSUME NEW c \in Conn, WriteFrame(c) PROVE Reads(t)'
  <2>1. ui.frame \in ClientEvent /\ ~Unanswered(c)
    BY <1>0, <1>4 DEF RoomTypeOK, WriteFrame, RoomInv, Targets
  <2>2. UNCHANGED <<pc, wire, cpc, sock>> /\ SendToClient(c, ui.frame)
    BY <1>4 DEF WriteFrame, vars, netVars, clientVars
  <2>3. \A d \in Conn : \/ toClient'[d] = toClient[d]
                        \/ d = c /\ toClient'[d] = Append(toClient[c], ui.frame)
    BY <1>0, <2>2 DEF SendToClient, RoomTypeOK
  <2>4. CASE /\ cpc[t] \in {"hello", "name", "stream"} /\ sock[t] = c
             /\ toClient'[c] = Append(toClient[c], ui.frame) /\ wire[c] = "up"
    <3>1. CASE cpc[t] = "hello"
      <4>1. /\ toClient[c] # <<>>
            /\ Head(toClient[c]) \in Replies
            /\ Tail(toClient[c]) \in Seq(ClientEvent)
        BY <1>0, <2>1, <2>4, <3>1 DEF Reads
      <4>2. toClient[c] \in Seq(ServerFrame) /\ ui.frame \in ServerFrame
        BY <1>0, <2>1 DEF RoomTypeOK, ServerFrame
      <4>3. /\ toClient'[c] # <<>>
            /\ Head(toClient'[c]) = Head(toClient[c])
            /\ Tail(toClient'[c]) = Append(Tail(toClient[c]), ui.frame)
        BY <2>4, <4>1, <4>2, AppendBehind
      <4>4. Tail(toClient'[c]) \in Seq(ClientEvent)
        BY <2>1, <4>1, <4>3, AppendProperties
      <4>5. QED
        BY <2>1, <2>2, <2>4, <3>1, <4>1, <4>3, <4>4 DEF Reads, Unanswered
    <3>2. CASE cpc[t] \in {"name", "stream"}
      <4>1. toClient[c] \in Seq(ClientEvent)
        BY <1>0, <2>4, <3>2 DEF Reads
      <4>2. toClient'[c] \in Seq(ClientEvent)
        BY <2>1, <2>4, <4>1, AppendProperties
      <4>3. QED
        BY <2>1, <2>2, <2>4, <3>2, <4>2 DEF Reads, Unanswered
    <3>3. QED
      BY <2>4, <3>1, <3>2
  <2>5. CASE cpc[t] \in {"hello", "name", "stream"} => toClient'[sock[t]] = toClient[sock[t]]
    BY <1>0, <1>o, <2>2, <2>5, ReadsKept DEF Unanswered
  <2>6. QED
    BY <1>0, <1>o, <2>2, <2>3, <2>4, <2>5 DEF SendToClient
<1>5. ASSUME NEW c \in Conn, Cut(c) PROVE Reads(t)'
  <2>1. UNCHANGED <<pc, cpc, sock>>
    BY <1>5 DEF Cut, vars, netVars, clientVars
  <2>2. wire'[c] = "cut" /\ toClient'[c] = <<>>
    BY <1>0, <1>5 DEF Cut, RoomTypeOK
  <2>3. \A d \in Conn \ {c} : wire'[d] = wire[d] /\ toClient'[d] = toClient[d]
    BY <1>0, <1>5 DEF Cut, RoomTypeOK
  <2>4. CASE sock[t] = c
    <3>1. /\ cpc'[t] = cpc[t] /\ sock'[t] = c /\ pc'[c] = pc[c]
          /\ toClient'[c] \in Seq(ClientEvent)
      BY <2>1, <2>2, <2>4, EmptySeq
    <3>2. QED
      BY <1>0, <2>2, <2>4, <3>1 DEF Reads, Unanswered
  <2>5. CASE sock[t] # c
    BY <1>0, <1>o, <2>1, <2>3, <2>5, ReadsKept DEF Unanswered
  <2>6. QED
    BY <2>4, <2>5
<1>6. CASE Pressed \/ TakeSnapshot \/ BroadcastDone \/ TokenExpires
  <2>1. UNCHANGED <<vars, linkVars, clientVars>>
    BY <1>6 DEF Pressed, Press, TakeSnapshot, BroadcastDone, TokenExpires
  <2>2. QED
    BY <1>a, <2>1, RoomSettles DEF linkVars, clientVars
<1>7. ASSUME NEW s \in Student, Join(s) \/ ReaderReturns(s) PROVE Reads(t)'
  <2>1. UNCHANGED <<pc, wire, toClient, sock>>
    BY <1>7 DEF Join, ReaderReturns, vars, netVars, linkVars
  <2>2. cpc'[t] = cpc[t] \/ cpc'[t] = "dial"
    BY <1>0, <1>7 DEF Join, ReaderReturns, RoomTypeOK
  <2>3. QED
    BY <1>0, <2>1, <2>2, ReadsKept DEF Reads, Unanswered
<1>8. ASSUME NEW s \in Student, NEW c \in Conn, Dial(s, c) PROVE Reads(t)'
  <2>1. /\ UNCHANGED <<pc, toClient>> /\ Unanswered(c) /\ toClient[c] = <<>>
        /\ wire[c] = "unused"
    BY <1>0, <1>8 DEF Dial, vars, netVars, Sockets, Unanswered
  <2>2. CASE t = s
    <3>1. cpc'[t] = "hello" /\ sock'[t] = c
      BY <1>0, <1>8, <2>2 DEF Dial, RoomTypeOK
    <3>2. QED
      BY <2>1, <3>1 DEF Reads, Unanswered
  <2>3. CASE t # s
    <3>1. /\ cpc'[t] = cpc[t] /\ sock'[t] = sock[t]
          /\ cpc[t] \in {"hello", "name", "stream"} => wire'[sock[t]] = wire[sock[t]]
      BY <1>0, <1>o, <1>8, <2>3 DEF Dial, RoomTypeOK
    <3>2. QED
      BY <1>0, <2>1, <3>1, ReadsKept DEF Unanswered
  <2>4. QED
    BY <2>2, <2>3
<1>9. ASSUME NEW s \in Student, Greeted(s) PROVE Reads(t)'
  <2>1. /\ UNCHANGED <<pc, wire, sock>> /\ sock[s] \in Conn /\ toClient[sock[s]] # <<>>
        /\ toClient' = [toClient EXCEPT ![sock[s]] = Tail(@)]
        /\ cpc' = [cpc EXCEPT ![s] = "name"] /\ cpc[s] = "hello"
    BY <1>9, SocketOpen DEF Greeted, vars, netVars
  <2>2. CASE t = s
    <3>1. ~Unanswered(sock[s]) /\ wire[sock[s]] = "up"
      BY <1>0, <2>1, <2>2 DEF Reads, Sockets
    <3>2. Tail(toClient[sock[s]]) \in Seq(ClientEvent)
      BY <1>0, <2>1, <2>2, <3>1 DEF Reads
    <3>3. cpc'[t] = "name" /\ sock'[t] = sock[s] /\ toClient'[sock[s]] = Tail(toClient[sock[s]])
      BY <1>0, <2>1, <2>2 DEF RoomTypeOK
    <3>4. QED
      BY <2>1, <3>1, <3>2, <3>3 DEF Reads, Unanswered
  <2>3. CASE t # s
    <3>1. /\ cpc'[t] = cpc[t]
          /\ cpc[t] \in {"hello", "name", "stream"} => toClient'[sock[t]] = toClient[sock[t]]
      BY <1>0, <1>o, <2>1, <2>3, RegistryAssumption DEF RoomTypeOK, Sockets
    <3>2. QED
      BY <1>0, <2>1, <3>1, ReadsKept DEF Unanswered
  <2>4. QED
    BY <2>2, <2>3
<1>10. ASSUME NEW s \in Student, SendName(s) \/ SendPicture(s) PROVE Reads(t)'
  <2>1. /\ UNCHANGED <<pc, wire, toClient, sock>>
        /\ cpc'[t] = cpc[t] \/ (cpc[t] = "name" /\ cpc'[t] = "stream")
    BY <1>0, <1>10 DEF SendName, SendPicture, RoomTypeOK, vars, netVars, clientVars
  <2>2. QED
    BY <1>0, <2>1, ReadsKept DEF Reads, Unanswered
<1>11. ASSUME NEW s \in Student, Dispatch(s) PROVE Reads(t)'
  <2>1. /\ UNCHANGED <<pc, wire, sock, cpc>> /\ sock[s] \in Conn /\ cpc[s] = "stream"
        /\ toClient' = [toClient EXCEPT ![sock[s]] = Tail(@)]
        /\ Tail(toClient[sock[s]]) \in Seq(ClientEvent)
    BY <1>11, HeardFrame, SocketOpen DEF Dispatch, vars, netVars
  <2>2. CASE t = s
    <3>1. toClient'[sock[s]] = Tail(toClient[sock[s]])
      BY <1>0, <2>1 DEF RoomTypeOK
    <3>2. QED
      BY <1>0, <2>1, <2>2, <3>1 DEF Reads, Unanswered
  <2>3. CASE t # s
    <3>1. cpc[t] \in {"hello", "name", "stream"} => toClient'[sock[t]] = toClient[sock[t]]
      BY <1>0, <1>o, <2>1, <2>3, RegistryAssumption DEF RoomTypeOK, Sockets
    <3>2. QED
      BY <1>0, <2>1, <3>1, ReadsKept DEF Unanswered
  <2>4. QED
    BY <2>2, <2>3
<1>12. ASSUME NEW s \in Student, Closing(s) PROVE Reads(t)'
  <2>1. PICK next \in {"off", "dial"} : CloseSocket(s, next)
    BY <1>12, ClosingFrame
  <2>2. UNCHANGED <<pc, wire>>
    BY <1>12, ClosingFrame DEF vars, netVars
  <2>3. CASE t = s
    <3>1. cpc'[t] = next
      BY <1>0, <2>1, <2>3 DEF CloseSocket, RoomTypeOK
    <3>2. QED
      BY <3>1 DEF Reads
  <2>4. CASE t # s
    <3>1. cpc'[t] = cpc[t] /\ sock'[t] = sock[t]
      BY <1>0, <2>1, <2>4 DEF CloseSocket, RoomTypeOK
    <3>2. cpc[t] \in {"hello", "name", "stream"} => sock[t] # sock[s]
      BY <1>0, <1>o, <2>4, RegistryAssumption DEF Sockets
    <3>3. cpc[t] \in {"hello", "name", "stream"} => toClient'[sock[t]] = toClient[sock[t]]
      BY <1>0, <1>o, <2>1, <3>2 DEF CloseSocket, RoomTypeOK
    <3>4. QED
      BY <1>0, <2>2, <3>1, <3>3, ReadsKept DEF Unanswered
  <2>5. QED
    BY <2>3, <2>4
<1>13. QED
  BY <1>1, <1>2, <1>3, <1>4, <1>5, <1>6, <1>7, <1>8, <1>9, <1>10, <1>11, <1>12,
     RoomStepCases

-----------------------------------------------------------------------------
(* A handler past the handshake stays past it.                             *)
LEMMA AnsweredStays ==
  ASSUME TypeOK, [Next]_vars, NEW c \in Conn, ~Unanswered(c)
  PROVE  ~Unanswered(c)'
<1> USE DEF TypeOK, Goto, Unanswered, netVars
<1>1. ASSUME NEW d \in Conn, Accept(d) \/ Handler(d) PROVE ~Unanswered(c)'
  BY <1>1 DEF Accept, Handler, HandshakeOK, HandshakeFails, Register, RecvName, Unkey,
     Rekey, CheckExists, AddStudent, UpdateName, RecvAck, RecvPicture, UpdateImage, Leave,
     Unregister
<1>2. CASE UNCHANGED pc
  BY <1>2
<1>3. QED
  BY <1>1, <1>2 DEF Next, Removal, CloseRoom, ReopenRoom, vars

(* Only the teacher's own steps move the UI thread.                        *)
LEMMA UiMoves ==
  ASSUME [RoomNext]_roomVars
  PROVE  \/ UNCHANGED <<session, ui>>
         \/ Pressed \/ TakeSnapshot \/ BroadcastDone \/ \E c \in Conn : WriteFrame(c)
  BY RoomStepCases, InsideFrame, ReadingFrame, ClosingFrame
     DEF AdmitClient, RejectClient, Cut, TokenExpires, Join, Dial, Greeted, SendName,
         SendPicture, Dispatch, ReaderReturns, teacherVars

(* A button leaves its frame for the broadcast it starts.                  *)
LEMMA PressedUi ==
  ASSUME RoomTypeOK, Pressed
  PROVE  /\ ui'.step = "snapshot" /\ ui'.targets = ui.targets
         /\ \E event \in ServerEvent :
              /\ <<session, event, session'>> \in ServerEdge
              /\ <<event, ui'.frame>> \in
                   { <<"start_exam", "exam_start">>, <<"stop_exam", "exam_stop">>,
                     <<"lock", "lock">>, <<"unlock", "unlock">> }
<1>1. PICK event \in ServerEvent, frame \in ClientEvent :
        /\ Press(event, frame)
        /\ <<event, frame>> \in
             { <<"start_exam", "exam_start">>, <<"stop_exam", "exam_stop">>,
               <<"lock", "lock">>, <<"unlock", "unlock">> }
  BY DEF Pressed
<1>2. ui' = [step |-> "snapshot", frame |-> frame, targets |-> ui.targets]
  BY <1>1 DEF Press, RoomTypeOK
<1>3. <<session, event, session'>> \in ServerEdge
  BY <1>1 DEF Press
<1>4. QED
  BY <1>1, <1>2, <1>3

(* A broadcast's targets come from the registry, which only holds          *)
(* connections whose handshake was answered.                               *)
LEMMA TargetsStep == RoomInv /\ [RoomNext]_roomVars => Targets'
<1> SUFFICES ASSUME RoomInv, [RoomNext]_roomVars PROVE Targets'
  OBVIOUS
<1>0. TypeOK /\ RoomTypeOK /\ EntriesLive /\ Targets
  BY DEF RoomInv, RegistryInv
<1>1. \A c \in Conn : ~Unanswered(c) => ~Unanswered(c)'
  BY <1>0, RegistryStep, AnsweredStays
<1>2. \A c \in Audience(ui.frame) : ~Unanswered(c)
  BY <1>0 DEF Audience, EntriesLive, TypeOK, Registered, Unanswered
<1>3. ui'.targets \subseteq ui.targets \cup Audience(ui.frame)
  <2>1. CASE Pressed
    BY <1>0, <2>1, PressedUi
  <2>2. CASE TakeSnapshot \/ BroadcastDone
    BY <1>0, <2>2 DEF RoomTypeOK, TakeSnapshot, BroadcastDone
  <2>3. ASSUME NEW c \in Conn, WriteFrame(c)
        PROVE ui'.targets \subseteq ui.targets \cup Audience(ui.frame)
    BY <1>0, <2>3 DEF RoomTypeOK, WriteFrame
  <2>4. QED
    BY <2>1, <2>2, <2>3, UiMoves
<1>4. \A c \in ui'.targets : c \in Conn /\ ~Unanswered(c)
  BY <1>0, <1>2, <1>3 DEF RoomTypeOK, Targets, TypeOK, Audience
<1>5. QED
  BY <1>1, <1>4 DEF Targets, Unanswered

-----------------------------------------------------------------------------
(* Every step leaves the session alone, except a button's, which moves it  *)
(* along an edge.                                                          *)
LEMMA SessionMoves ==
  ASSUME [RoomNext]_roomVars
  PROVE  \/ session' = session
         \/ Pressed /\ \E event \in ServerEvent : <<session, event, session'>> \in ServerEdge
<1>1. CASE Pressed
  BY <1>1 DEF Pressed, Press
<1>2. CASE ~Pressed
  BY <1>2, RoomStepCases, InsideFrame, ReadingFrame, ClosingFrame
     DEF AdmitClient, RejectClient, WriteFrame, Cut, TakeSnapshot, BroadcastDone,
         TokenExpires, Join, Dial, Greeted, SendName, SendPicture, Dispatch,
         ReaderReturns, teacherVars
<1>3. QED
  BY <1>1, <1>2

(* A session never goes back behind its start or its end.                  *)
LEMMA SessionAdvances ==
  ASSUME [RoomNext]_roomVars, session # "idle"
  PROVE  /\ session' # "idle"
         /\ Begun => Begun'
         /\ Ended => Ended'
<1>1. CASE session' = session
  BY <1>1 DEF Begun, Ended
<1>2. CASE \E event \in ServerEvent : <<session, event, session'>> \in ServerEdge
  BY <1>2 DEF Begun, Ended, ServerEdge
<1>3. QED
  BY <1>1, <1>2, SessionMoves

(* So what could be believed, or be in flight, still can.                  *)
LEMMA BeliefsKept ==
  ASSUME [RoomNext]_roomVars, session # "idle"
  PROVE  /\ \A st : Believable(st) => Believable(st)'
         /\ ServerFrames \subseteq ServerFrames'
         /\ ClientFrames \subseteq ClientFrames'
<1>1. /\ Begun => Begun'
      /\ Ended => Ended'
  BY SessionAdvances
<1>2. \A st : Believable(st) => Believable(st)'
  BY <1>1 DEF Begun, Ended, Believable
<1>3. ServerFrames \subseteq ServerFrames'
  BY <1>1 DEF ServerFrames
<1>4. ClientFrames \subseteq ClientFrames'
  BY <1>2 DEF ClientFrames
<1>5. QED
  BY <1>2, <1>3, <1>4

(* What a frame the session allows to be in flight makes of a client, and  *)
(* what it is acknowledged with, is allowed by the session as well.        *)
LEMMA FrameBelievable ==
  ASSUME NEW f \in ServerFrames \cap ClientEvent
  PROVE  /\ Believable(AckOf(f))
         /\ \A st : Believable(st) => Believable(ClientApply(st, f))
<1>1. f = "exam_stop" => Ended
  BY DEF ServerFrames
<1>2. f \in {"exam_start", "lock", "unlock"} => Begun
  BY DEF ServerFrames
<1>3. Believable(AckOf(f))
  BY <1>1, <1>2 DEF ClientEvent, AckOf, Begun, Ended, Believable
<1>4. ASSUME NEW st, Believable(st) PROVE Believable(ClientApply(st, f))
  BY <1>1, <1>2, <1>4 DEF ClientEvent, ClientApply, Begun, Ended, Believable
<1>5. QED
  BY <1>3, <1>4

-----------------------------------------------------------------------------
(* A frame at the head of a client's connection is one the session allows. *)
LEMMA HeardBelievable ==
  ASSUME RoomInv, NEW s \in Student, listening[s], toClient[sock[s]] # <<>>
  PROVE  /\ sock[s] \in Conn
         /\ Head(toClient[sock[s]]) \in ServerFrames \cap ClientEvent
<1>1. sock[s] \in Conn /\ Head(toClient[sock[s]]) \in ClientEvent
  BY HeardFrame, SocketOpen
<1>2. toClient[sock[s]] \in Seq(ServerFrames)
  BY <1>1 DEF RoomInv, Frames
<1>3. QED
  BY <1>1, <1>2, HeadTailProperties

(* No frame gets ahead of the session: what is sent is what the session    *)
(* allows when it is sent, and the session only moves on.                  *)
LEMMA FramesStep == RoomInv /\ [RoomNext]_roomVars => Frames'
<1> SUFFICES ASSUME RoomInv, [RoomNext]_roomVars PROVE Frames'
  OBVIOUS
<1> DEFINE SF == ServerFrames'
           CF == ClientFrames'
<1>0. RoomTypeOK /\ Frames /\ NobodyAhead /\ session # "idle"
  BY DEF RoomInv
<1>1. ServerFrames \subseteq SF /\ ClientFrames \subseteq CF
  BY <1>0, BeliefsKept
<1>2. toClient \in [Conn -> Seq(SF)]
  BY <1>0, <1>1, SeqMonotonic DEF RoomTypeOK, Frames
<1>3. toServer \in [Conn -> Seq(CF)]
  BY <1>0, <1>1, SeqMonotonic DEF RoomTypeOK, Frames
<1>4. ui'.step # "idle" => ui'.frame \in SF
  <2>1. CASE Pressed
    BY <1>0, <2>1, PressedUi DEF ServerEdge, ServerFrames, Begun, Ended
  <2>2. CASE UNCHANGED <<session, ui>> \/ TakeSnapshot \/ BroadcastDone
               \/ \E c \in Conn : WriteFrame(c)
    <3>1. ui'.step # "idle" => ui.step # "idle" /\ ui'.frame = ui.frame
      BY <1>0, <2>2 DEF TakeSnapshot, BroadcastDone, WriteFrame, RoomTypeOK
    <3>2. QED
      BY <1>0, <1>1, <3>1 DEF Frames
  <2>3. QED
    BY <2>1, <2>2, UiMoves
<1>5. toClient' \in [Conn -> Seq(SF)] /\ toServer' \in [Conn -> Seq(CF)]
  <2> HIDE DEF SF, CF
  <2>1. CASE Inside
    BY <1>2, <1>3, <2>1, InsideFrame DEF linkVars
  <2>2. ASSUME NEW c \in Conn, AdmitClient(c) \/ RejectClient(c)
        PROVE toClient' \in [Conn -> Seq(SF)] /\ toServer' \in [Conn -> Seq(CF)]
    <3>1. \E f \in ServerFrames : SendToClient(c, f)
      BY <2>2 DEF AdmitClient, RejectClient, ServerFrames, Begun, IsCapturing
    <3>2. Consume(c) /\ toServer[c] # <<>>
      BY <2>2 DEF AdmitClient, RejectClient, FromClient
    <3>3. toClient' \in [Conn -> Seq(SF)]
      BY <1>1, <1>2, <3>1, SendToClientType
    <3>4. toServer' \in [Conn -> Seq(CF)]
      BY <1>3, <3>2, ConsumedType
    <3>5. QED
      BY <3>3, <3>4
  <2>3. ASSUME NEW c \in Conn, Reading(c)
        PROVE toClient' \in [Conn -> Seq(SF)] /\ toServer' \in [Conn -> Seq(CF)]
    BY <1>2, <1>3, <2>3, ReadingFrame, ConsumedType
  <2>4. ASSUME NEW c \in Conn, WriteFrame(c)
        PROVE toClient' \in [Conn -> Seq(SF)] /\ toServer' \in [Conn -> Seq(CF)]
    <3>1. ui.frame \in SF
      BY <1>0, <1>1, <2>4 DEF WriteFrame, Frames
    <3>2. QED
      BY <1>2, <1>3, <2>4, <3>1, SendToClientType DEF WriteFrame
  <2>5. ASSUME NEW c \in Conn, Cut(c)
        PROVE toClient' \in [Conn -> Seq(SF)] /\ toServer' \in [Conn -> Seq(CF)]
    BY <1>2, <1>3, <2>5, EmptySeq DEF Cut
  <2>6. CASE Pressed \/ TakeSnapshot \/ BroadcastDone \/ TokenExpires
    BY <1>2, <1>3, <2>6
       DEF Pressed, Press, TakeSnapshot, BroadcastDone, TokenExpires, linkVars
  <2>7. ASSUME NEW s \in Student, Join(s) \/ ReaderReturns(s)
        PROVE toClient' \in [Conn -> Seq(SF)] /\ toServer' \in [Conn -> Seq(CF)]
    BY <1>2, <1>3, <2>7 DEF Join, ReaderReturns, linkVars
  <2>8. ASSUME NEW s \in Student, NEW c \in Conn, Dial(s, c)
        PROVE toClient' \in [Conn -> Seq(SF)] /\ toServer' \in [Conn -> Seq(CF)]
    <3>1. "hello" \in CF
      BY <1>1 DEF ClientFrames
    <3>2. <<"hello">> \in Seq(CF)
      BY <3>1
    <3>3. QED
      BY <1>2, <1>3, <2>8, <3>2 DEF Dial
  <2>9. ASSUME NEW s \in Student, Greeted(s)
        PROVE toClient' \in [Conn -> Seq(SF)] /\ toServer' \in [Conn -> Seq(CF)]
    BY <1>2, <1>3, <2>9, SocketOpen, TailType DEF Greeted
  <2>10. ASSUME NEW s \in Student, SendName(s) \/ SendPicture(s)
         PROVE toClient' \in [Conn -> Seq(SF)] /\ toServer' \in [Conn -> Seq(CF)]
    <3>1. sock[s] \in Conn
      BY <2>10, SocketOpen DEF SendName, SendPicture
    <3>2. \E f \in ClientFrames : SendToServer(sock[s], f)
      BY <2>10 DEF SendName, SendPicture, ClientFrames
    <3>3. toServer' \in [Conn -> Seq(CF)]
      BY <1>1, <1>3, <3>1, <3>2, SendToServerType
    <3>4. QED
      BY <1>2, <2>10, <3>3 DEF SendName, SendPicture
  <2>11. ASSUME NEW s \in Student, Dispatch(s)
         PROVE toClient' \in [Conn -> Seq(SF)] /\ toServer' \in [Conn -> Seq(CF)]
    <3>1. /\ sock[s] \in Conn
          /\ Head(toClient[sock[s]]) \in ServerFrames \cap ClientEvent
      BY <2>11, HeardBelievable DEF Dispatch
    <3>2. AckOf(Head(toClient[sock[s]])) \in ClientFrames
      BY <3>1, FrameBelievable, AckType DEF ClientFrames
    <3>3. toServer' \in [Conn -> Seq(CF)]
      BY <1>1, <1>3, <2>11, <3>1, <3>2, SendToServerType DEF Dispatch
    <3>4. toClient' \in [Conn -> Seq(SF)]
      BY <1>2, <2>11, <3>1, TailType DEF Dispatch
    <3>5. QED
      BY <3>3, <3>4
  <2>12. ASSUME NEW s \in Student, Closing(s)
         PROVE toClient' \in [Conn -> Seq(SF)] /\ toServer' \in [Conn -> Seq(CF)]
    BY <1>2, <1>3, <2>12, ClosingFrame, ClosedType
  <2>13. QED
    BY <2>1, <2>2, <2>3, <2>4, <2>5, <2>6, <2>7, <2>8, <2>9, <2>10, <2>11, <2>12,
       RoomStepCases
<1>6. QED
  BY <1>4, <1>5 DEF Frames

-----------------------------------------------------------------------------
(* A client machine only moves when its client reads a reply or a frame.   *)
LEMMA MachineMoves ==
  ASSUME [RoomNext]_roomVars
  PROVE  \/ UNCHANGED <<machine, overlay>>
         \/ UNCHANGED session /\ \E s \in Student : Greeted(s) \/ Dispatch(s)
  BY RoomStepCases, InsideFrame, ReadingFrame, ClosingFrame
     DEF AdmitClient, RejectClient, WriteFrame, Cut, Pressed, Press, TakeSnapshot,
         BroadcastDone, TokenExpires, Join, Dial, Greeted, SendName, SendPicture,
         Dispatch, ReaderReturns, teacherVars, clientVars

(* A client learns that the exam has started only when it has.             *)
LEMMA GreetedBelievable ==
  ASSUME RoomInv, NEW s \in Student, Greeted(s)
  PROVE  Head(toClient[sock[s]]) = "ok_started" => Begun
<1>1. sock[s] \in Conn /\ toClient[sock[s]] # <<>>
  BY SocketOpen DEF Greeted
<1>2. toClient[sock[s]] \in Seq(ServerFrames)
  BY <1>1 DEF RoomInv, Frames
<1>3. Head(toClient[sock[s]]) \in ServerFrames
  BY <1>1, <1>2, HeadTailProperties
<1>4. QED
  BY <1>3 DEF ServerFrames, ClientEvent

(* Client machines stay behind the session.                                *)
LEMMA MachinesStep ==
  ASSUME RoomInv, [RoomNext]_roomVars, NEW t \in Student
  PROVE  Believable(machine[t])'
<1>0. RoomTypeOK /\ Believable(machine[t]) /\ session # "idle"
  BY DEF RoomInv, NobodyAhead
<1>1. \A st : Believable(st) => Believable(st)'
  BY <1>0, BeliefsKept
<1>2. ASSUME NEW s \in Student, Greeted(s) PROVE Believable(machine'[t])
  <2>1. CASE machine'[t] = machine[t]
    BY <1>0, <2>1
  <2>2. CASE machine'[t] # machine[t]
    <3>1. /\ Head(toClient[sock[s]]) = "ok_started"
          /\ machine'[t] = ClientApply(machine[t], "exam_start")
      BY <1>0, <1>2, <2>2 DEF Greeted, RoomTypeOK
    <3>2. Begun
      BY <1>2, <3>1, GreetedBelievable
    <3>3. "exam_start" \in ServerFrames \cap ClientEvent
      BY <3>2 DEF ServerFrames, ClientEvent
    <3>4. QED
      BY <1>0, <3>1, <3>3, FrameBelievable
  <2>3. QED
    BY <2>1, <2>2
<1>3. ASSUME NEW s \in Student, Dispatch(s) PROVE Believable(machine'[t])
  <2>1. Head(toClient[sock[s]]) \in ServerFrames \cap ClientEvent
    BY <1>3, HeardBelievable DEF Dispatch
  <2>2. machine'[t] \in {machine[t], ClientApply(machine[t], Head(toClient[sock[s]]))}
    BY <1>0, <1>3 DEF Dispatch, RoomTypeOK
  <2>3. QED
    BY <1>0, <2>1, <2>2, FrameBelievable
<1>4. Believable(machine'[t])
  BY <1>0, <1>2, <1>3, MachineMoves
<1>5. QED
  BY <1>1, <1>4 DEF Believable

(* The registry's states stay, and a tile stays, goes away or is new.      *)
Quietly ==
  UNCHANGED rcState /\ \A s \in Student : tile'[s] \in {tile[s], "none", "waiting"}

(* So it is in every step but one that records an acknowledgement.         *)
LEMMA TilesMove ==
  ASSUME TypeOK, [RoomNext]_roomVars
  PROVE  (\E c \in Conn : HandleAck(c)) \/ Quietly
<1> USE DEF TypeOK, gridVars, netVars, Quietly
<1>1. CASE Inside
  <2>1. ASSUME NEW c \in Conn, HandlerStep(c) PROVE Quietly
    BY <2>1 DEF HandlerStep, Register, Unkey, Rekey, CheckExists, AddStudent, UpdateName,
       UpdateImage, Unregister
  <2>2. ASSUME NEW c \in Conn, AcceptConn(c) \/ HandshakeReadFails(c) \/ LeaveLoop(c)
        PROVE  Quietly
    BY <2>2 DEF AcceptConn, HandshakeReadFails, LeaveLoop, Accept, HandshakeFails, Leave
  <2>3. ASSUME NEW c \in Conn, RemoveStudent(c) PROVE Quietly
    BY <2>3 DEF RemoveStudent, Removal
  <2>4. CASE LeaveRoom
    BY <2>4 DEF LeaveRoom, CloseRoom
  <2>5. CASE OpenRoomAgain
    BY <2>5 DEF OpenRoomAgain, ReopenRoom
  <2>6. CASE UNCHANGED roomVars
    BY <2>6 DEF roomVars, vars
  <2>7. QED
    BY <1>1, <2>1, <2>2, <2>3, <2>4, <2>5, <2>6 DEF Inside
<1>2. ASSUME NEW c \in Conn, HandleName(c) \/ HandlePicture(c) \/ RefusePicture(c)
      PROVE  Quietly
  BY <1>2 DEF HandleName, HandlePicture, RefusePicture, RecvName, RecvPicture, vars
<1>3. ASSUME NEW c \in Conn, AdmitClient(c) \/ RejectClient(c) PROVE Quietly
  BY <1>3 DEF AdmitClient, RejectClient, HandshakeOK, HandshakeFails
<1>4. CASE UNCHANGED vars
  BY <1>4 DEF vars
<1>5. QED
  BY <1>1, <1>2, <1>3, <1>4, RoomStepCases, ClosingFrame
     DEF Reading, WriteFrame, Cut, Pressed, Press, TakeSnapshot, BroadcastDone, TokenExpires,
         Join, Dial, Greeted, SendName, SendPicture, Dispatch, ReaderReturns

(* The acknowledgement a handler records is one the session allows.        *)
LEMMA AckBelievable ==
  ASSUME RoomInv, NEW c \in Conn, HandleAck(c)
  PROVE  \E st \in ClientState : RecvAck(c, st) /\ Believable(st)
<1>1. PICK st \in Acks : FromClient(c, st) /\ RecvAck(c, st)
  BY DEF HandleAck
<1>2. Head(toServer[c]) \in ClientFrames
  BY <1>1, HeadTailProperties DEF RoomInv, Frames, FromClient
<1>3. st \in ClientState /\ st \notin Student /\ st \notin {"hello", "picture"}
  BY RegistryAssumption, RoomAssumption DEF ClientState
<1>4. Believable(st)
  BY <1>1, <1>2, <1>3 DEF FromClient, ClientFrames
<1>5. QED
  BY <1>1, <1>3, <1>4

(* Nobody runs ahead of the session.                                       *)
LEMMA NobodyAheadStep == RoomInv /\ [RoomNext]_roomVars => NobodyAhead'
<1> SUFFICES ASSUME RoomInv, [RoomNext]_roomVars PROVE NobodyAhead'
  OBVIOUS
<1>0. TypeOK /\ NobodyAhead /\ session # "idle"
  BY DEF RoomInv, RegistryInv
<1>1. \A st : Believable(st) => Believable(st)'
  BY <1>0, BeliefsKept
<1>2. ASSUME NEW s \in Student PROVE tile'[s] # "none" => Believable(tile'[s])
  <2>1. CASE Quietly
    BY <1>0, <2>1 DEF Quietly, NobodyAhead, Believable
  <2>2. ASSUME NEW c \in Conn, HandleAck(c)
        PROVE  tile'[s] # "none" => Believable(tile'[s])
    BY <1>0, <2>2, AckBelievable DEF RecvAck, NobodyAhead, TypeOK
  <2>3. QED
    BY <1>0, <2>1, <2>2, TilesMove
<1>3. ASSUME NEW d \in Conn PROVE Believable(rcState'[d])
  <2>1. ASSUME NEW c \in Conn, HandleAck(c) PROVE Believable(rcState'[d])
    BY <1>0, <2>1, AckBelievable DEF RecvAck, NobodyAhead, TypeOK
  <2>2. CASE UNCHANGED rcState
    BY <1>0, <2>2 DEF NobodyAhead
  <2>3. QED
    BY <1>0, <2>1, <2>2, TilesMove DEF Quietly
<1>4. \A s \in Student : Believable(machine[s])'
  BY MachinesStep
<1>5. \A s \in Student : (tile[s] # "none" => Believable(tile[s]))'
  BY <1>1, <1>2 DEF Believable
<1>6. \A d \in Conn : Believable(rcState[d])'
  BY <1>1, <1>3 DEF Believable
<1>7. QED
  BY <1>4, <1>5, <1>6 DEF NobodyAhead

-----------------------------------------------------------------------------
(* The overlay goes up and down with the machine's lock, whatever frame a  *)
(* client meets in whatever state.                                         *)
LEMMA LockAgrees ==
  ASSUME NEW st \in ClientState, NEW f \in ClientEvent, NEW up \in BOOLEAN,
         st # "stopped" => (up <=> st = "locked")
  PROVE  ClientApply(st, f) # "stopped" =>
           ((f = "lock" \/ (up /\ f # "unlock")) <=> ClientApply(st, f) = "locked")
  BY DEF ClientApply, ClientState, ClientEvent

(* Machine and overlay keep agreeing.                                      *)
LEMMA OverlayStep == RoomInv /\ [RoomNext]_roomVars => OverlayAgrees'
<1> SUFFICES ASSUME RoomInv, [RoomNext]_roomVars, NEW t \in Student
             PROVE  machine'[t] # "stopped" => (overlay'[t] <=> machine'[t] = "locked")
  BY DEF OverlayAgrees
<1>0. /\ RoomTypeOK
      /\ machine[t] \in ClientState /\ overlay[t] \in BOOLEAN
      /\ machine[t] # "stopped" => (overlay[t] <=> machine[t] = "locked")
  BY DEF RoomInv, RoomTypeOK, OverlayAgrees
<1>1. CASE UNCHANGED <<machine, overlay>>
  BY <1>0, <1>1
<1>2. ASSUME NEW s \in Student, Greeted(s)
      PROVE  machine'[t] # "stopped" => (overlay'[t] <=> machine'[t] = "locked")
  <2>1. /\ overlay'[t] = overlay[t]
        /\ machine'[t] \in {machine[t], ClientApply(machine[t], "exam_start")}
    BY <1>0, <1>2 DEF Greeted, RoomTypeOK
  <2>2. QED
    BY <1>0, <2>1 DEF ClientApply, ClientState
<1>3. ASSUME NEW s \in Student, Dispatch(s)
      PROVE  machine'[t] # "stopped" => (overlay'[t] <=> machine'[t] = "locked")
  <2> DEFINE f == Head(toClient[sock[s]])
  <2>1. f \in ClientEvent
    BY <1>3, HeardFrame DEF Dispatch
  <2>2. \/ UNCHANGED <<machine[t], overlay[t]>>
        \/ /\ machine'[t] = ClientApply(machine[t], f)
           /\ overlay'[t] <=> (f = "lock" \/ (overlay[t] /\ f # "unlock"))
    BY <1>0, <1>3 DEF Dispatch, RoomTypeOK
  <2>3. QED
    BY <1>0, <2>1, <2>2, LockAgrees
<1>4. QED
  BY <1>1, <1>2, <1>3, MachineMoves

-----------------------------------------------------------------------------
(* The room's invariant holds at the start.                                *)
LEMMA RoomInitInv == RoomInit => RoomInv
<1> SUFFICES ASSUME RoomInit PROVE RoomInv
  OBVIOUS
<1> USE DEF RoomInit
<1>1. RegistryInv
  BY InitInv
<1>2. RoomTypeOK
  BY EmptySeq, RoomAssumption DEF RoomTypeOK, ServerState, ClientState, ClientEvent
<1>3. Sockets
  BY DEF Sockets, Unanswered, Init
<1>4. Greeting /\ Targets
  BY DEF Greeting, Reads, Targets
<1>5. Frames
  BY EmptySeq DEF Frames
<1>6. NobodyAhead
  BY DEF NobodyAhead, Believable, Init
<1>7. OverlayAgrees
  BY DEF OverlayAgrees
<1>8. session # "idle"
  OBVIOUS
<1> HIDE DEF RoomInit
<1>9. QED
  BY <1>1, <1>2, <1>3, <1>4, <1>5, <1>6, <1>7, <1>8 DEF RoomInv

(* The room's invariant is kept by every step of the room.                 *)
LEMMA RoomNextInv == RoomInv /\ [RoomNext]_roomVars => RoomInv'
<1> SUFFICES ASSUME RoomInv, [RoomNext]_roomVars PROVE RoomInv'
  OBVIOUS
<1>1. RegistryInv'
  BY RegistryStep, NextInv DEF RoomInv
<1>2. (session # "idle")'
  BY SessionAdvances DEF RoomInv
<1>3. QED
  BY <1>1, <1>2, RoomTypeStep, SocketsStep, GreetingStep, TargetsStep, FramesStep,
     NobodyAheadStep, OverlayStep DEF RoomInv

(* So it holds throughout.                                                 *)
LEMMA RoomAlwaysInv == RoomSpec => []RoomInv
  BY RoomInitInv, RoomNextInv, PTL DEF RoomSpec

(* Type correctness of sockets, channels, client programs and the session. *)
THEOREM RoomTypeCorrect == RoomSpec => []RoomTypeOK
<1>1. RoomInv => RoomTypeOK
  BY DEF RoomInv
<1>2. QED
  BY <1>1, RoomAlwaysInv, PTL

(* Nobody runs ahead of the teacher, for any number of students and        *)
(* connections: no client machine, registry entry or tile is in a state    *)
(* the session has not reached, whatever is lost, repeated or late.        *)
THEOREM NobodyAheadAlways == RoomSpec => []NobodyAhead
<1>1. RoomInv => NobodyAhead
  BY DEF RoomInv
<1>2. QED
  BY <1>1, RoomAlwaysInv, PTL

(* The lock overlay and the client's machine agree until the exam stops,   *)
(* across reconnects and lost or repeated frames.                          *)
THEOREM OverlayAgreesAlways == RoomSpec => []OverlayAgrees
<1>1. RoomInv => OverlayAgrees
  BY DEF RoomInv
<1>2. QED
  BY <1>1, RoomAlwaysInv, PTL

-----------------------------------------------------------------------------
(* The dashboard stays behind the clients.  Every connection has one       *)
(* student's client at its other end, and everything the connection        *)
(* carries, records or is about to be sent is measured by that client.     *)

(* What the client of s may have sent, and what it may still have to read: *)
(* an UNLOCK finds no client that is waiting.                              *)
Sayable(s) == {"hello", "picture", s} \cup { st \in ClientState : Reached(s, st) }
Hearable(s) == ServerFrame \ IF machine[s] = "waiting" THEN {"unlock"} ELSE {}

(* s is at the other end of c, or may still be if c has not been dialled.  *)
Owner(c, s) ==
  /\ id[c] \in {s, NoStudent}
  /\ \A t \in Student : sock[t] = c => t = s
  /\ toServer[c] \in Seq(Sayable(s))
  /\ toClient[c] \in Seq(Hearable(s))
  /\ c \in ui.targets => ui.frame \in Hearable(s)
  /\ Reached(s, rcState[c])

(* A handler keeps its entry under its address or under its student's id.  *)
KeyIsOwn == \A c \in Conn : key[c] = c \/ (id[c] # NoStudent /\ key[c] = id[c])

BehindInv ==
  /\ KeyIsOwn
  /\ \A c \in Conn : wire[c] # "unused" => \E s \in Student : Owner(c, s)
  /\ \A c \in Conn : wire[c] = "unused" => \A s \in Student : Owner(c, s)
  /\ \A s \in Student : Reached(s, tile[s])
  /\ ui.step # "write" => ui.targets = {}

(* Only a NAME frame gives a handler its student.                          *)
LEMMA IdsMove ==
  ASSUME TypeOK, [RoomNext]_roomVars, NEW c \in Conn
  PROVE  \/ id'[c] = id[c]
         \/ \E s \in Student : FromClient(c, s) /\ id'[c] = s
<1> USE DEF TypeOK
<1>1. CASE Inside
  BY <1>1 DEF Inside, AcceptConn, HandshakeReadFails, HandlerStep, LeaveLoop, RemoveStudent,
     LeaveRoom, OpenRoomAgain, Accept, HandshakeFails, Register, Unkey, Rekey, CheckExists,
     AddStudent, UpdateName, UpdateImage, Unregister, Leave, Removal, CloseRoom, ReopenRoom,
     netVars, roomVars, vars
<1>2. ASSUME NEW d \in Conn, Reading(d)
      PROVE \/ id'[c] = id[c]
            \/ \E s \in Student : FromClient(c, s) /\ id'[c] = s
  BY <1>2 DEF Reading, HandleName, HandleAck, HandlePicture, RefusePicture, RecvName,
     RecvAck, RecvPicture, vars, netVars
<1>3. ASSUME NEW d \in Conn, AdmitClient(d) \/ RejectClient(d) PROVE id'[c] = id[c]
  BY <1>3 DEF AdmitClient, RejectClient, HandshakeOK, HandshakeFails
<1>4. CASE UNCHANGED vars
  BY <1>4 DEF vars, netVars
<1>5. QED
  BY <1>1, <1>2, <1>3, <1>4, RoomStepCases, ClosingFrame
     DEF WriteFrame, Cut, Pressed, Press, TakeSnapshot, BroadcastDone, TokenExpires,
         Join, Dial, Greeted, SendName, SendPicture, Dispatch, ReaderReturns

(* A handler's key only changes to its id, and its id only while the key   *)
(* is its address.                                                         *)
LEMMA KeyStep ==
  ASSUME RegistryInv, KeyIsOwn, [Next]_vars PROVE KeyIsOwn'
<1> USE DEF RegistryInv, TypeOK, KeyIsOwn
<1>1. ASSUME NEW c \in Conn, NEW s \in Student, RecvName(c, s) PROVE KeyIsOwn'
  BY <1>1, RegistryAssumption DEF RecvName
<1>2. ASSUME NEW c \in Conn, Rekey(c) PROVE KeyIsOwn'
  BY <1>2 DEF Rekey, Goto, Phases, Naming
<1>3. CASE UNCHANGED <<key, id>>
  BY <1>3
<1>4. QED
  BY <1>1, <1>2, <1>3 DEF Next, Handler, Accept, HandshakeOK, HandshakeFails, Register,
     Unkey, CheckExists, AddStudent, UpdateName, RecvAck, RecvPicture, UpdateImage, Leave,
     Unregister, Removal, CloseRoom, ReopenRoom, netVars, vars

(* A machine does not return to Waiting and does not leave Stopped.        *)
LEMMA ReachedKept ==
  ASSUME RoomTypeOK, [RoomNext]_roomVars, NEW s \in Student
  PROVE  /\ \A st : Reached(s, st) => Reached(s, st)'
         /\ Sayable(s) \subseteq Sayable(s)'
         /\ Hearable(s) \subseteq Hearable(s)'
<1>1. \A t \in Student : \A f :
        /\ machine[t] # "waiting" => ClientApply(machine[t], f) # "waiting"
        /\ machine[t] = "stopped" => ClientApply(machine[t], f) = "stopped"
  BY DEF ClientApply, RoomTypeOK, ClientState
<1>2. /\ machine[s] # "waiting" => machine'[s] # "waiting"
      /\ machine[s] = "stopped" => machine'[s] = "stopped"
  BY <1>1, MachineMoves DEF RoomTypeOK, Greeted, Dispatch
<1>3. \A st : Reached(s, st) => Reached(s, st)'
  BY <1>2 DEF Reached
<1>4. Sayable(s) \subseteq Sayable(s)'
  BY <1>3 DEF Sayable
<1>5. Hearable(s) \subseteq Hearable(s)'
  BY <1>2 DEF Hearable
<1>6. QED
  BY <1>3, <1>4, <1>5

(* A frame a client sends, with the step that sends it.                    *)
Says(s, f) ==
  \/ SendName(s) /\ f = s
  \/ SendPicture(s) /\ f = "picture"
  \/ Dispatch(s) /\ f = AckOf(Head(toClient[sock[s]]))

(* What a client sends it may say once the step is done: the machine has   *)
(* moved before the acknowledgement leaves, whatever it acknowledges.      *)
LEMMA SaidReached ==
  ASSUME RoomInv, [RoomNext]_roomVars, NEW s \in Student, NEW f, Says(s, f),
         sock[s] \in Conn, Owner(sock[s], s)
  PROVE  f \in Sayable(s)'
<1>1. CASE f \in {s, "picture"}
  BY <1>1 DEF Sayable
<1>2. ASSUME Dispatch(s), f = AckOf(Head(toClient[sock[s]])) PROVE f \in Sayable(s)'
  <2> DEFINE e == Head(toClient[sock[s]])
  <2>1. e \in ClientEvent
    BY <1>2, HeardFrame DEF Dispatch
  <2>2. e \in Hearable(s)
    BY <1>2, HeadTailProperties DEF Dispatch, Owner
  <2>3. machine[s] \in ClientState /\ machine'[s] = ClientApply(machine[s], e)
    BY <1>2 DEF Dispatch, RoomInv, RoomTypeOK
  <2>4. e = "unlock" => machine[s] # "waiting"
    BY <2>2 DEF Hearable
  <2>5. f \in ClientState /\ Reached(s, f)'
    BY <1>2, <2>1, <2>3, <2>4 DEF ClientEvent, ClientState, ClientApply, AckOf, Reached
  <2>6. QED
    BY <1>2, <2>5 DEF Sayable
<1>3. QED
  BY <1>1, <1>2 DEF Says

(* What happens to the frames on their way to the server.                  *)
LEMMA ToServerMoves ==
  ASSUME RoomInv, [RoomNext]_roomVars, NEW c \in Conn
  PROVE  \/ toServer'[c] \in {toServer[c], <<>>}
         \/ toServer[c] # <<>> /\ toServer'[c] = Tail(toServer[c])
         \/ \E s \in Student : Dial(s, c)
         \/ \E s \in Student, f \in ClientFrame :
              Says(s, f) /\ sock[s] = c /\ toServer'[c] = Append(toServer[c], f)
<1> DEFINE Goal == \/ toServer'[c] \in {toServer[c], <<>>}
                   \/ toServer[c] # <<>> /\ toServer'[c] = Tail(toServer[c])
                   \/ \E s \in Student : Dial(s, c)
                   \/ \E s \in Student, f \in ClientFrame :
                        Says(s, f) /\ sock[s] = c /\ toServer'[c] = Append(toServer[c], f)
<1>0. RoomTypeOK
  BY DEF RoomInv
<1>1. CASE UNCHANGED toServer
  BY <1>1
<1>2. ASSUME NEW d \in Conn, Consume(d), toServer[d] # <<>> PROVE Goal
  BY <1>0, <1>2 DEF Consume, RoomTypeOK
<1>3. ASSUME NEW d \in Conn, Cut(d) PROVE Goal
  BY <1>0, <1>3 DEF Cut, RoomTypeOK
<1>4. ASSUME NEW s \in Student, NEW d \in Conn, Dial(s, d) PROVE Goal
  BY <1>0, <1>4 DEF Dial, RoomTypeOK
<1>5. ASSUME NEW s \in Student, SendName(s) \/ SendPicture(s) \/ Dispatch(s) PROVE Goal
  <2>1. sock[s] \in Conn
    BY <1>5, HeardFrame, SocketOpen DEF SendName, SendPicture, Dispatch
  <2>2. PICK f \in ClientFrame : Says(s, f) /\ SendToServer(sock[s], f)
    <3>1. CASE SendName(s)
      BY <3>1 DEF SendName, Says, ClientFrame
    <3>2. CASE SendPicture(s)
      BY <3>2 DEF SendPicture, Says, ClientFrame
    <3>3. CASE Dispatch(s)
      <4>1. AckOf(Head(toClient[sock[s]])) \in ClientFrame
        BY <3>3, HeardFrame, AckType DEF Dispatch, ClientFrame
      <4>2. QED
        BY <3>3, <4>1 DEF Dispatch, Says
    <3>4. QED
      BY <1>5, <3>1, <3>2, <3>3
  <2>3. QED
    BY <1>0, <2>1, <2>2 DEF SendToServer, RoomTypeOK
<1>6. QED
  BY <1>1, <1>2, <1>3, <1>4, <1>5, RoomStepCases, InsideFrame, ReadingFrame, ClosingFrame
     DEF AdmitClient, RejectClient, FromClient, WriteFrame, Pressed, Press, TakeSnapshot,
         BroadcastDone, TokenExpires, Join, Greeted, ReaderReturns, linkVars

(* What happens to the frames on their way to a client.                    *)
LEMMA ToClientMoves ==
  ASSUME RoomInv, [RoomNext]_roomVars, NEW c \in Conn
  PROVE  \/ toClient'[c] \in {toClient[c], <<>>}
         \/ toClient[c] # <<>> /\ toClient'[c] = Tail(toClient[c])
         \/ \E f \in Replies : toClient'[c] = Append(toClient[c], f)
         \/ WriteFrame(c) /\ toClient'[c] = Append(toClient[c], ui.frame)
<1> DEFINE Goal == \/ toClient'[c] \in {toClient[c], <<>>}
                   \/ toClient[c] # <<>> /\ toClient'[c] = Tail(toClient[c])
                   \/ \E f \in Replies : toClient'[c] = Append(toClient[c], f)
                   \/ WriteFrame(c) /\ toClient'[c] = Append(toClient[c], ui.frame)
<1>0. RoomTypeOK
  BY DEF RoomInv
<1>1. CASE UNCHANGED toClient
  BY <1>1
<1>2. ASSUME NEW d \in Conn, AdmitClient(d) \/ RejectClient(d) PROVE Goal
  <2>1. PICK f \in Replies : SendToClient(d, f)
    BY <1>2 DEF AdmitClient, RejectClient, Replies
  <2>2. QED
    BY <1>0, <2>1 DEF SendToClient, RoomTypeOK
<1>3. ASSUME NEW d \in Conn, WriteFrame(d) PROVE Goal
  BY <1>0, <1>3 DEF WriteFrame, SendToClient, RoomTypeOK
<1>4. ASSUME NEW d \in Conn, Cut(d) PROVE Goal
  BY <1>0, <1>4 DEF Cut, RoomTypeOK
<1>5. ASSUME NEW s \in Student, Greeted(s) \/ Dispatch(s) PROVE Goal
  BY <1>0, <1>5 DEF Greeted, Dispatch, RoomTypeOK
<1>6. ASSUME NEW s \in Student, Closing(s) PROVE Goal
  BY <1>0, <1>6, ClosingFrame DEF CloseSocket, RoomTypeOK
<1>7. QED
  BY <1>1, <1>2, <1>3, <1>4, <1>5, <1>6, RoomStepCases, InsideFrame, ReadingFrame
     DEF Pressed, Press, TakeSnapshot, BroadcastDone, TokenExpires, Join, Dial, SendName,
         SendPicture, ReaderReturns, linkVars

(* A client gets a socket by dialling, and otherwise only loses it.        *)
LEMMA SocksMove ==
  ASSUME RoomTypeOK, [RoomNext]_roomVars, NEW t \in Student, sock'[t] \in Conn
  PROVE  sock'[t] = sock[t] \/ \E s \in Student : Dial(s, sock'[t])
<1>1. CASE UNCHANGED sock
  BY <1>1
<1>2. ASSUME NEW s \in Student, NEW d \in Conn, Dial(s, d)
      PROVE  sock'[t] = sock[t] \/ \E r \in Student : Dial(r, sock'[t])
  BY <1>2 DEF Dial, RoomTypeOK
<1>3. ASSUME NEW s \in Student, Closing(s) PROVE sock'[t] = sock[t]
  BY <1>3, ClosingFrame, RegistryAssumption DEF CloseSocket, RoomTypeOK
<1>4. QED
  BY <1>1, <1>2, <1>3, RoomStepCases, InsideFrame, ReadingFrame
     DEF AdmitClient, RejectClient, WriteFrame, Cut, Pressed, Press, TakeSnapshot,
         BroadcastDone, TokenExpires, Join, Greeted, SendName, SendPicture, Dispatch,
         ReaderReturns, clientVars

(* The registry entry an acknowledgement reaches is of a connection of the *)
(* same student, and the student's client has been where it says.          *)
LEMMA AckReached ==
  ASSUME RoomInv, BehindInv, NEW c \in Conn, HandleAck(c)
  PROVE  \E st \in ClientState :
           /\ RecvAck(c, st)
           /\ id[c] \in Student
           /\ Reached(id[c], st)
           /\ conns[id[c]] # NoConn => id[conns[id[c]]] = id[c]
<1>1. PICK st \in Acks : FromClient(c, st) /\ RecvAck(c, st)
  BY DEF HandleAck
<1>2. st \in ClientState /\ st \notin Student /\ st \notin {"hello", "picture"}
  BY RegistryAssumption, RoomAssumption DEF ClientState
<1>3. TypeOK /\ RoomTypeOK /\ Sockets /\ EntriesLive /\ KeyIsOwn
  BY DEF RoomInv, RegistryInv, BehindInv
<1>4. id[c] \in Student
  BY <1>1, <1>3 DEF RecvAck, TypeOK
<1>5. wire[c] # "unused"
  BY <1>1, <1>3 DEF FromClient, Sockets
<1>6. PICK s \in Student : Owner(c, s)
  BY <1>5 DEF BehindInv
<1>7. id[c] = s
  BY <1>4, <1>6, RegistryAssumption DEF Owner
<1>8. Head(toServer[c]) \in Sayable(s)
  BY <1>1, <1>6, HeadTailProperties DEF FromClient, Owner
<1>9. Reached(id[c], st)
  BY <1>1, <1>2, <1>7, <1>8 DEF FromClient, Sayable
<1>10. conns[id[c]] # NoConn => id[conns[id[c]]] = id[c]
  BY <1>3, <1>4, RegistryAssumption DEF EntriesLive, KeyIsOwn, TypeOK, Key
<1>11. QED
  BY <1>1, <1>2, <1>4, <1>9, <1>10

(* A broadcast is written to connections that were in the registry when it *)
(* was addressed; an UNLOCK only to clients that have begun.               *)
LEMMA TargetsHear ==
  ASSUME RoomInv, BehindInv, [RoomNext]_roomVars, NEW c \in Conn, NEW s \in Student,
         Owner(c, s), c \in ui'.targets
  PROVE  ui'.frame \in Hearable(s)
<1>0. RoomTypeOK /\ TypeOK
  BY DEF RoomInv, RegistryInv
<1>1. CASE Pressed
  <2>1. ui.step = "idle"
    BY <1>1 DEF Pressed, Press
  <2>2. QED
    BY <1>0, <1>1, <2>1, PressedUi DEF BehindInv
<1>2. CASE TakeSnapshot
  <2>1. c \in Audience(ui.frame) /\ ui'.frame = ui.frame /\ ui.frame \in ClientEvent
    BY <1>0, <1>2 DEF TakeSnapshot, RoomTypeOK
  <2>2. ui.frame = "unlock" => IsCapturing(rcState[c])
    BY <2>1 DEF Audience
  <2>3. ui.frame = "unlock" => machine[s] # "waiting"
    BY <2>2 DEF IsCapturing, Owner, Reached
  <2>4. QED
    BY <2>1, <2>3 DEF Hearable, ServerFrame
<1>3. CASE BroadcastDone \/ UNCHANGED <<session, ui>>
  BY <1>0, <1>3 DEF BroadcastDone, RoomTypeOK, Owner
<1>4. ASSUME NEW d \in Conn, WriteFrame(d) PROVE ui'.frame \in Hearable(s)
  BY <1>0, <1>4 DEF WriteFrame, RoomTypeOK, Owner
<1>5. QED
  BY <1>1, <1>2, <1>3, <1>4, UiMoves

(* A connection keeps the client at its other end.                         *)
LEMMA OwnerKept ==
  ASSUME RoomInv, BehindInv, [RoomNext]_roomVars, NEW c \in Conn, NEW s \in Student,
         Owner(c, s), ~\E t \in Student : Dial(t, c)
  PROVE  Owner(c, s)'
<1> DEFINE Said == Sayable(s)'
           Heard == Hearable(s)'
<1>0. TypeOK /\ RoomTypeOK
  BY DEF RoomInv, RegistryInv
<1>1. /\ \A st : Reached(s, st) => Reached(s, st)'
      /\ Sayable(s) \subseteq Said /\ Hearable(s) \subseteq Heard
  BY <1>0, ReachedKept
<1>2. toServer[c] \in Seq(Said) /\ toClient[c] \in Seq(Heard)
  BY <1>1, SeqMonotonic DEF Owner
<1>3. id'[c] \in {s, NoStudent}
  <2>1. ASSUME NEW t \in Student, FromClient(c, t) PROVE t = s
    <3>1. t \in Sayable(s)
      BY <2>1, HeadTailProperties DEF FromClient, Owner
    <3>2. QED
      BY <3>1, RoomAssumption DEF Sayable
  <2>2. QED
    BY <1>0, <2>1, IdsMove DEF Owner
<1>4. \A t \in Student : sock'[t] = c => t = s
  BY <1>0, SocksMove DEF Owner
<1>5. toServer'[c] \in Seq(Said)
  <2> HIDE DEF Said
  <2>1. ASSUME NEW t \in Student, NEW f \in ClientFrame, Says(t, f), sock[t] = c
        PROVE  f \in Said
    BY <2>1, SaidReached DEF Owner, Said
  <2>2. \A f \in Said : Append(toServer[c], f) \in Seq(Said)
    BY <1>2, AppendProperties
  <2>3. toServer[c] # <<>> => Tail(toServer[c]) \in Seq(Said)
    BY <1>2, HeadTailProperties
  <2>4. <<>> \in Seq(Said)
    BY EmptySeq
  <2>5. CASE \E t \in Student, f \in ClientFrame :
               Says(t, f) /\ sock[t] = c /\ toServer'[c] = Append(toServer[c], f)
    BY <2>1, <2>2, <2>5
  <2>6. CASE \/ toServer'[c] \in {toServer[c], <<>>}
             \/ toServer[c] # <<>> /\ toServer'[c] = Tail(toServer[c])
    BY <1>2, <2>3, <2>4, <2>6
  <2>7. QED
    BY <2>5, <2>6, ToServerMoves
<1>6. toClient'[c] \in Seq(Heard)
  <2>1. WriteFrame(c) => ui.frame \in Heard
    BY <1>1 DEF WriteFrame, Owner
  <2>2. Replies \subseteq Heard
    BY DEF Replies, Hearable, ServerFrame
  <2> HIDE DEF Heard
  <2>3. \A f \in Heard : Append(toClient[c], f) \in Seq(Heard)
    BY <1>2, AppendProperties
  <2>4. toClient[c] # <<>> => Tail(toClient[c]) \in Seq(Heard)
    BY <1>2, HeadTailProperties
  <2>5. <<>> \in Seq(Heard)
    BY EmptySeq
  <2>6. QED
    BY <1>2, <2>1, <2>2, <2>3, <2>4, <2>5, ToClientMoves
<1>7. c \in ui'.targets => ui'.frame \in Heard
  BY <1>1, TargetsHear
<1>8. Reached(s, rcState'[c])
  <2>1. ASSUME NEW d \in Conn, HandleAck(d) PROVE Reached(s, rcState'[c])
    <3>1. PICK st \in ClientState :
            /\ RecvAck(d, st) /\ id[d] \in Student /\ Reached(id[d], st)
            /\ conns[id[d]] # NoConn => id[conns[id[d]]] = id[d]
      BY <2>1, AckReached
    <3>2. CASE rcState'[c] = rcState[c]
      BY <3>2 DEF Owner
    <3>3. CASE rcState'[c] # rcState[c]
      <4>1. conns[id[d]] = c /\ rcState'[c] = st
        BY <1>0, <3>1, <3>3, RegistryAssumption DEF RecvAck, TypeOK
      <4>2. id[d] = s
        BY <3>1, <4>1, RegistryAssumption DEF Owner
      <4>3. QED
        BY <3>1, <4>1, <4>2
    <3>4. QED
      BY <3>2, <3>3
  <2>2. QED
    BY <1>0, <2>1, TilesMove DEF Quietly, Owner
<1>9. Reached(s, rcState[c])'
  BY <1>1, <1>8 DEF Reached
<1>10. QED
  BY <1>3, <1>4, <1>5, <1>6, <1>7, <1>9 DEF Owner

(* A path that was never used stays so until it is dialled.                *)
LEMMA WiresMove ==
  ASSUME RoomTypeOK, [RoomNext]_roomVars, NEW c \in Conn
  PROVE  \/ \E s \in Student : Dial(s, c)
         \/ wire'[c] = "unused" <=> wire[c] = "unused"
<1>1. CASE UNCHANGED wire
  BY <1>1
<1>2. ASSUME NEW d \in Conn, Cut(d) PROVE wire'[c] = "unused" <=> wire[c] = "unused"
  BY <1>2 DEF Cut, RoomTypeOK
<1>3. ASSUME NEW s \in Student, NEW d \in Conn, Dial(s, d), d # c PROVE wire'[c] = wire[c]
  BY <1>3 DEF Dial, RoomTypeOK
<1>4. QED
  BY <1>1, <1>2, <1>3, RoomStepCases, InsideFrame, ReadingFrame, ClosingFrame
     DEF AdmitClient, RejectClient, WriteFrame, Pressed, Press, TakeSnapshot, BroadcastDone,
         TokenExpires, Join, Greeted, SendName, SendPicture, Dispatch, ReaderReturns, linkVars

(* The client that dials a connection becomes its owner.                   *)
LEMMA DialOwns ==
  ASSUME RoomInv, BehindInv, NEW c \in Conn, NEW s \in Student, Dial(s, c)
  PROVE  Owner(c, s)' /\ wire'[c] # "unused"
<1>1. Owner(c, s) /\ RoomTypeOK /\ Sockets
  BY DEF Dial, BehindInv, RoomInv
<1>2. UNCHANGED <<id, rcState, toClient, ui, machine>>
  BY DEF Dial, vars, netVars, teacherVars
<1>3. toServer'[c] = <<"hello">> /\ wire'[c] = "up"
  BY <1>1 DEF Dial, RoomTypeOK
<1>4. \A t \in Student : sock'[t] = c => t = s
  BY <1>1 DEF Dial, RoomTypeOK, Owner
<1>5. Sayable(s)' = Sayable(s) /\ Hearable(s)' = Hearable(s)
  BY <1>2 DEF Sayable, Hearable, Reached
<1>6. <<"hello">> \in Seq(Sayable(s))
  BY DEF Sayable
<1>7. Reached(s, rcState[c])'
  BY <1>1, <1>2 DEF Owner, Reached
<1>8. QED
  BY <1>1, <1>2, <1>3, <1>4, <1>5, <1>6, <1>7 DEF Owner

(* A tile follows the acknowledgements of its student's own client.        *)
LEMMA TilesBehind ==
  ASSUME RoomInv, BehindInv, [RoomNext]_roomVars, NEW s \in Student
  PROVE  Reached(s, tile[s])'
<1>0. TypeOK /\ RoomTypeOK /\ Reached(s, tile[s])
  BY DEF RoomInv, RegistryInv, BehindInv
<1>1. \A st : Reached(s, st) => Reached(s, st)'
  BY <1>0, ReachedKept
<1>2. Reached(s, tile'[s])
  <2>1. ASSUME NEW c \in Conn, HandleAck(c) PROVE Reached(s, tile'[s])
    BY <1>0, <2>1, AckReached DEF RecvAck, TypeOK
  <2>2. CASE Quietly
    BY <1>0, <2>2 DEF Quietly, Reached
  <2>3. QED
    BY <1>0, <2>1, <2>2, TilesMove
<1>3. QED
  BY <1>1, <1>2 DEF Reached

(* Targets are gone by the time the UI thread is out of a broadcast.       *)
LEMMA TargetsGone ==
  ASSUME RoomTypeOK, BehindInv, [RoomNext]_roomVars
  PROVE  ui'.step # "write" => ui'.targets = {}
<1>1. CASE Pressed
  <2>1. ui.step = "idle"
    BY <1>1 DEF Pressed, Press
  <2>2. QED
    BY <1>1, <2>1, PressedUi DEF BehindInv
<1>2. CASE ~Pressed
  BY <1>2, UiMoves DEF TakeSnapshot, BroadcastDone, WriteFrame, RoomTypeOK, BehindInv
<1>3. QED
  BY <1>1, <1>2

(* The dashboard stays behind in every step.                               *)
LEMMA BehindStep == RoomInv /\ BehindInv /\ [RoomNext]_roomVars => BehindInv'
<1> SUFFICES ASSUME RoomInv, BehindInv, [RoomNext]_roomVars PROVE BehindInv'
  OBVIOUS
<1>0. RoomTypeOK /\ RegistryInv
  BY DEF RoomInv
<1>1. KeyIsOwn'
  BY <1>0, RegistryStep, KeyStep DEF BehindInv
<1>2. ASSUME NEW c \in Conn
      PROVE  /\ wire'[c] # "unused" => \E s \in Student : Owner(c, s)'
             /\ wire'[c] = "unused" => \A s \in Student : Owner(c, s)'
  <2>1. CASE \E s \in Student : Dial(s, c)
    BY <2>1, DialOwns
  <2>2. CASE ~\E s \in Student : Dial(s, c)
    <3>1. wire'[c] = "unused" <=> wire[c] = "unused"
      BY <1>0, <2>2, WiresMove
    <3>2. \A s \in Student : Owner(c, s) => Owner(c, s)'
      BY <2>2, OwnerKept
    <3>3. QED
      BY <3>1, <3>2 DEF BehindInv
  <2>3. QED
    BY <2>1, <2>2
<1>3. \A s \in Student : Reached(s, tile[s])'
  BY TilesBehind
<1>4. (ui.step # "write" => ui.targets = {})'
  BY <1>0, TargetsGone
<1>5. QED
  BY <1>1, <1>2, <1>3, <1>4 DEF BehindInv

(* At the start nothing has been dialled or sent.                          *)
LEMMA BehindInit == RoomInit => BehindInv
<1> SUFFICES ASSUME RoomInit PROVE BehindInv
  OBVIOUS
<1>1. \A c \in Conn, s \in Student : Owner(c, s)
  BY EmptySeq, RegistryAssumption DEF RoomInit, Init, Owner, Reached
<1>2. QED
  BY <1>1 DEF RoomInit, Init, BehindInv, KeyIsOwn, Reached

(* The dashboard is behind the clients as the clients are behind the       *)
(* teacher: no tile or registry entry of a student says more than the      *)
(* student's own client has reached, whatever is lost, late or repeated.   *)
THEOREM NoTileAheadOfClientAlways == RoomSpec => []NoTileAheadOfClient
<1>1. RoomInv /\ BehindInv => NoTileAheadOfClient
  <2> SUFFICES ASSUME RoomInv, BehindInv, NEW c \in Conn, id[c] # NoStudent
               PROVE  Reached(id[c], rcState[c])
    BY DEF NoTileAheadOfClient, BehindInv
  <2>1. Sockets /\ Phases /\ TypeOK
    BY DEF RoomInv, RegistryInv
  <2>2. wire[c] # "unused"
    BY <2>1 DEF Sockets, Phases
  <2>3. PICK s \in Student : Owner(c, s)
    BY <2>2 DEF BehindInv
  <2>4. QED
    BY <2>3 DEF Owner
<1>2. QED
  BY <1>1, RoomAlwaysInv, BehindInit, BehindStep, PTL DEF RoomSpec

-----------------------------------------------------------------------------
(* A step of a client's machine follows a command the teacher has issued.  *)
LEMMA MachineFollows ==
  ASSUME RoomInv, [RoomNext]_roomVars
  PROVE  \/ UNCHANGED machine
         \/ \E s \in Student : Promise!StudentFollows(s)
<1>0. RoomTypeOK
  BY DEF RoomInv
<1>1. ASSUME NEW s \in Student, Greeted(s), UNCHANGED session, machine' # machine
      PROVE  Promise!StudentFollows(s)
  <2>1. /\ Head(toClient[sock[s]]) = "ok_started"
        /\ machine' = [machine EXCEPT ![s] = ClientApply(@, "exam_start")]
    BY <1>1 DEF Greeted
  <2>2. Begun
    BY <1>1, <2>1, GreetedBelievable
  <2>3. "exam_start" \in Promise!Issued(session)
    BY <2>2 DEF Begun, Promise!Issued, Promise!ClientEvent
  <2>4. QED
    BY <1>1, <2>1, <2>3 DEF Promise!StudentFollows, ClientApply, Promise!ClientApply
<1>2. ASSUME NEW s \in Student, Dispatch(s), UNCHANGED session
      PROVE  Promise!StudentFollows(s)
  <2> DEFINE f == Head(toClient[sock[s]])
  <2>1. machine' = [machine EXCEPT ![s] = ClientApply(@, f)]
    BY <1>2 DEF Dispatch
  <2>2. f \in ServerFrames \cap ClientEvent
    BY <1>2, HeardBelievable DEF Dispatch
  <2>3. f \in Promise!Issued(session)
    BY <2>2 DEF ServerFrames, Begun, Ended, Promise!Issued, ClientEvent, Promise!ClientEvent
  <2>4. QED
    BY <1>2, <2>1, <2>3 DEF Promise!StudentFollows, ClientApply, Promise!ClientApply
<1>3. QED
  BY <1>1, <1>2, MachineMoves

(* The room implements the exam's promise: through lost connections,       *)
(* reconnects and late frames the session moves along its edges and a      *)
(* student only ever follows what the teacher has issued.                  *)
THEOREM RoomKeepsPromiseAlways == RoomSpec => RoomKeepsPromise
<1>1. RoomInit => Promise!PromiseInit
  BY DEF RoomInit, Promise!PromiseInit
<1>2. RoomInv /\ [RoomNext]_roomVars => [Promise!PromiseNext]_(Promise!promiseVars)
  <2> SUFFICES ASSUME RoomInv, [RoomNext]_roomVars
               PROVE  [Promise!PromiseNext]_(Promise!promiseVars)
    OBVIOUS
  <2>1. CASE UNCHANGED session
    BY <2>1, MachineFollows DEF Promise!PromiseNext, Promise!promiseVars
  <2>2. CASE session' # session
    <3>1. /\ UNCHANGED machine
          /\ \E event \in ServerEvent : <<session, event, session'>> \in ServerEdge
      BY <2>2, SessionMoves DEF Pressed, Press, clientVars
    <3>2. session' \in ServerState
      BY <3>1 DEF ServerEdge, ServerState
    <3>3. QED
      BY <3>1, <3>2 DEF Promise!PromiseNext, Promise!TeacherMoves, ServerEdge, ServerEvent,
         ServerState, Promise!ServerEdge, Promise!ServerEvent, Promise!ServerState
  <2>3. QED
    BY <2>1, <2>2
<1>3. QED
  BY <1>1, <1>2, RoomAlwaysInv, PTL DEF RoomSpec, RoomKeepsPromise, Promise!PromiseSpec

-----------------------------------------------------------------------------
(* What the two refinements hand down to the room.                         *)

(* With real clients and a network that loses frames, the registry still   *)
(* keeps its promises: no dead entry, no tile taken from a student who is  *)
(* back, no ghost tile, and a log that reads as a history.                 *)
THEOREM RoomKeepsRegistry ==
  RoomSpec => [](EntriesLive /\ NewestKeepsTile /\ TilesAccountedFor) /\ LogOrder
  BY RoomImplementsRegistry, EntriesLiveAlways, NewestKeepsTileAlways,
     TilesAccountedForAlways, LogOrderAlways, PTL

Kept == INSTANCE PromiseProofs

(* In the room the teacher's exam and every student's go one way: each     *)
(* begins, may be locked and unlocked, ends, and stays ended.  No reopened *)
(* room, reconnect, repeated START or late frame takes one back.           *)
THEOREM RoomTellsOnce ==
  RoomSpec => Kept!Held!ToldSpec /\ \A s \in Student : Kept!Told(s)!ToldSpec
<1>1. Promise!PromiseInit => Kept!PromiseInit
  BY DEF Promise!PromiseInit, Kept!PromiseInit
<1>2. Promise!TeacherMoves => Kept!TeacherMoves
  BY DEF Promise!TeacherMoves, Kept!TeacherMoves, Promise!ServerEvent, Kept!ServerEvent,
         Promise!ServerState, Kept!ServerState, Promise!ServerEdge, Kept!ServerEdge
<1>3. ASSUME NEW s \in Student, Promise!StudentFollows(s) PROVE Kept!StudentFollows(s)
  BY <1>3 DEF Promise!StudentFollows, Kept!StudentFollows, Promise!Issued, Kept!Issued,
              Promise!ClientEvent, Kept!ClientEvent, Promise!ClientApply, Kept!ClientApply
<1>4. [Promise!PromiseNext]_(Promise!promiseVars) => [Kept!PromiseNext]_(Kept!promiseVars)
  BY <1>2, <1>3 DEF Promise!PromiseNext, Kept!PromiseNext, Promise!promiseVars, Kept!promiseVars
<1>5. Promise!PromiseSpec => Kept!PromiseSpec
  BY <1>1, <1>4, PTL DEF Promise!PromiseSpec, Kept!PromiseSpec
<1>6. QED
  BY <1>5, RoomKeepsPromiseAlways, Kept!PromiseTellsOnce, Kept!PromiseHeldOnce, PTL
     DEF RoomKeepsPromise
=============================================================================

--------------------------- MODULE StudentProgram ---------------------------
(***************************************************************************)
(* The student's program from inside (client/client.go, dashboard.go and   *)
(* the wiring of main.go): the UI thread, the run loops that Start spawns, *)
(* the readers that each successful handshake spawns, and the fields of    *)
(* Client they share without a lock.  Start does not wait for the loop an  *)
(* earlier Stop asked to end, so that two loops may share every field.     *)
(* One action is what a thread does between two points where it waits: for *)
(* the network, a timer, a capture or the lock of the dashboard.           *)
(*                                                                         *)
(* Servers are the surroundings: an address answers a dial or does not,    *)
(* a handshake is accepted or fails, frames arrive or do not.  A use of a  *)
(* nil socket or capturer panics; diag.RecoverPanic panics again, so the   *)
(* program is gone.                                                        *)
(***************************************************************************)
EXTENDS SessionStates, FiniteSets

CONSTANTS
  Addr, NoAddr,    \* server addresses, and the empty string
  Answering,       \* addresses where a server answers a dial
  Manual,          \* addresses the student may type into the join form
  Loop,            \* bound: run loops alive at the same time
  Conn, NoConn,    \* bound: connections in use at the same time; nil
  Reader,          \* bound: reader goroutines alive at the same time
  Frame            \* control frames a server may send

ASSUME ProgramAssumption ==
  /\ NoAddr \notin Addr
  /\ NoConn \notin Conn
  /\ Answering \subseteq Addr
  /\ Manual \subseteq Addr
  /\ Frame \subseteq ClientEvent

VARIABLES
  screen,     \* AppState.currentScreen
  buttons,    \* the dashboard view last drawn has buttons to click
  running,    \* Client.isRunning
  connected,  \* Client.isConnected
  cached,     \* Client.cachedServerIP
  sock,       \* Client.socket
  capturer,   \* Client.capturer is set
  rejoin,     \* a signal waits in the channel rejoinNow (capacity one)
  rejected,   \* DashboardState.errorMsg says "server rejected"
  machine,    \* Client.sessionState
  ended,      \* DashboardState.examEnded
  open,       \* connections this side can still use
  lpc,        \* where each run loop stands
  resolver,   \* the manual address a loop's resolver was made with
  target,     \* the address a loop is about to dial
  rpc,        \* where each reader stands
  on,         \* the socket it is reading
  event,      \* the frame it is in the middle of
  crashed     \* a goroutine has panicked: the process is gone

uiVars      == <<screen, buttons, rejected, ended>>
clientVars  == <<running, connected, cached, sock, capturer, rejoin, machine>>
loopVars    == <<lpc, resolver, target>>
readerVars  == <<rpc, on, event>>
vars == <<uiVars, clientVars, open, loopVars, readerVars, crashed>>

View == {"waiting", "capturing", "stopped", "reconnecting", "rejected", "ended"}
LoopStep == {"none", "top", "resolve", "dial", "hello", "turn", "capture", "close", "backoff"}

TypeOK ==
  /\ screen \in {"join", "dashboard"}
  /\ buttons \in BOOLEAN
  /\ running \in BOOLEAN /\ connected \in BOOLEAN
  /\ cached \in Addr \cup {NoAddr}
  /\ sock \in Conn \cup {NoConn}
  /\ capturer \in BOOLEAN /\ rejoin \in BOOLEAN
  /\ rejected \in BOOLEAN /\ ended \in BOOLEAN
  /\ machine \in ClientState
  /\ open \in SUBSET Conn
  /\ lpc \in [Loop -> LoopStep]
  /\ resolver \in [Loop -> Addr \cup {NoAddr}]
  /\ target \in [Loop -> Addr \cup {NoAddr}]
  /\ rpc \in [Reader -> {"none", "turn", "read", "second"}]
  /\ on \in [Reader -> Conn \cup {NoConn}]
  /\ event \in [Reader -> ClientEvent]
  /\ crashed \in BOOLEAN

\* Seeded fault: the client's machine starts as the server's does.
NewMachine_Idle == "idle"

\* session.NewStateMachine.
NewMachine == "waiting"

\* NewClient and NewDashboardState: one of each for the life of the program.
Init ==
  /\ screen = "join" /\ buttons = FALSE
  /\ running = FALSE /\ connected = FALSE
  /\ cached = NoAddr
  /\ sock = NoConn
  /\ capturer = FALSE /\ rejoin = FALSE
  /\ rejected = FALSE /\ ended = FALSE
  /\ machine = NewMachine
  /\ open = {}
  /\ lpc = [l \in Loop |-> "none"]
  /\ resolver = [l \in Loop |-> NoAddr]
  /\ target = [l \in Loop |-> NoAddr]
  /\ rpc = [r \in Reader |-> "none"]
  /\ on = [r \in Reader |-> NoConn]
  /\ event = [r \in Reader |-> "exam_start"]
  /\ crashed = FALSE

-----------------------------------------------------------------------------
(* What the dashboard draws. *)

\* Layout's order: the ended flag, a rejection, a lost connection, the machine.
CurrentView ==
  IF ended THEN "ended"
  ELSE IF rejected THEN "rejected"
  ELSE IF ~connected /\ machine # "stopped" THEN "reconnecting"
  ELSE CASE machine = "waiting" -> "waiting"
         [] IsCapturing(machine) -> "capturing"
         [] OTHER -> "stopped"

\* The two views that carry "Try again now" and "Change settings"; no other
\* view that Layout reaches has a button.
HasButtons(v) == v \in {"reconnecting", "rejected"}

-----------------------------------------------------------------------------
(* The UI thread. *)

Draw ==
  /\ screen = "dashboard"
  /\ buttons' = HasButtons(CurrentView)
  /\ UNCHANGED <<screen, rejected, ended, clientVars, open, loopVars, readerVars, crashed>>

\* The join form's OnClick: to the dashboard, the typed address, Start.
Submit(l, ip) ==
  /\ screen = "join"
  /\ lpc[l] = "none"
  /\ screen' = "dashboard" /\ buttons' = FALSE
  /\ running' = TRUE
  /\ lpc' = [lpc EXCEPT ![l] = "top"]
  /\ resolver' = [resolver EXCEPT ![l] = ip]
  /\ UNCHANGED <<rejected, ended, connected, cached, sock, capturer, rejoin, machine,
                 open, target, readerVars, crashed>>

\* "Change settings": Client.Stop, then back to the join screen.  Neither
\* the cached address nor the session machine is reset.
ChangeSettings ==
  /\ screen = "dashboard" /\ buttons
  /\ rejected' = FALSE
  /\ running' = FALSE /\ connected' = FALSE
  /\ open' = open \ {sock}
  /\ capturer' = FALSE
  /\ screen' = "join" /\ buttons' = FALSE
  /\ UNCHANGED <<ended, cached, sock, rejoin, machine, loopVars, readerVars, crashed>>

\* Seeded fault: Rejoin forgets the socket as it forgets the cached address.
TryAgain_ForgetSocket ==
  /\ screen = "dashboard" /\ buttons
  /\ rejected' = FALSE
  /\ cached' = NoAddr
  /\ sock' = NoConn
  /\ rejoin' = TRUE
  /\ UNCHANGED <<screen, buttons, ended, running, connected, capturer, machine,
                 open, loopVars, readerVars, crashed>>

\* "Try again now": Rejoin forgets the cached address and wakes the loop.
TryAgain ==
  /\ screen = "dashboard" /\ buttons
  /\ rejected' = FALSE
  /\ cached' = NoAddr
  /\ rejoin' = TRUE
  /\ UNCHANGED <<screen, buttons, ended, running, connected, sock, capturer, machine,
                 open, loopVars, readerVars, crashed>>

\* A panic: the process is gone, and with it all but what it last believed.
Crash ==
  /\ crashed' = TRUE
  /\ running' = FALSE /\ connected' = FALSE /\ cached' = NoAddr
  /\ sock' = NoConn /\ open' = {}
  /\ capturer' = FALSE /\ rejoin' = FALSE
  /\ screen' = "join" /\ buttons' = FALSE /\ rejected' = FALSE
  /\ lpc' = [l \in Loop |-> "none"]
  /\ resolver' = [l \in Loop |-> NoAddr]
  /\ target' = [l \in Loop |-> NoAddr]
  /\ rpc' = [r \in Reader |-> "none"]
  /\ on' = [r \in Reader |-> NoConn]
  /\ event' = [r \in Reader |-> "exam_start"]
  /\ UNCHANGED <<machine, ended>>

-----------------------------------------------------------------------------
(* A run loop. *)

At(l, step) == lpc[l] = step
Goto(l, step) == lpc' = [lpc EXCEPT ![l] = step]

\* The head of the loop: end, or start over disconnected; a cached address
\* goes before everything else.
Top(l) ==
  /\ At(l, "top")
  /\ IF running
     THEN /\ connected' = FALSE
          /\ Goto(l, IF cached = NoAddr THEN "resolve" ELSE "dial")
          /\ target' = [target EXCEPT ![l] = cached]
          /\ UNCHANGED resolver
     ELSE /\ Goto(l, "none")
          /\ resolver' = [resolver EXCEPT ![l] = NoAddr]
          /\ UNCHANGED <<connected, target>>
  /\ UNCHANGED <<uiVars, running, cached, sock, capturer, rejoin, machine,
                 open, readerVars, crashed>>

\* The UDP broadcast, like mDNS, has no authority to ask: whoever says "server"
\* on the port is taken for one.
Heard == Addr

\* Resolve: the manual address, else what mDNS or the UDP broadcast finds.
Resolved(l, a) ==
  /\ At(l, "resolve")
  /\ IF resolver[l] # NoAddr THEN a = resolver[l] ELSE a \in Heard
  /\ cached' = a
  /\ target' = [target EXCEPT ![l] = a]
  /\ Goto(l, "dial")
  /\ UNCHANGED <<uiVars, running, connected, sock, capturer, rejoin, machine,
                 open, resolver, readerVars, crashed>>

\* onError with a message that is no rejection.
Unresolved(l) ==
  /\ At(l, "resolve")
  /\ resolver[l] = NoAddr
  /\ rejected' = FALSE
  /\ cached' = NoAddr
  /\ Goto(l, "backoff")
  /\ UNCHANGED <<screen, buttons, ended, running, connected, sock, capturer, rejoin,
                 machine, open, resolver, target, readerVars, crashed>>

\* A connection nobody refers to any more.
Unreferenced(c) == c \notin open /\ c # sock /\ \A r \in Reader : on[r] # c

Dialed(l, c) ==
  /\ At(l, "dial")
  /\ target[l] \in Answering
  /\ Unreferenced(c)
  /\ sock' = c
  /\ open' = open \cup {c}
  /\ target' = [target EXCEPT ![l] = NoAddr]
  /\ Goto(l, "hello")
  /\ UNCHANGED <<uiVars, running, connected, cached, capturer, rejoin, machine,
                 resolver, readerVars, crashed>>

\* Seeded fault: a failed dial keeps the cached address.
DialFails_KeepCache(l) ==
  /\ At(l, "dial")
  /\ target[l] \notin Answering
  /\ sock' = NoConn
  /\ rejected' = FALSE
  /\ target' = [target EXCEPT ![l] = NoAddr]
  /\ Goto(l, "backoff")
  /\ UNCHANGED <<screen, buttons, ended, running, connected, cached, capturer, rejoin,
                 machine, open, resolver, readerVars, crashed>>

\* DialTCP's nil goes into Client.socket.
DialFails(l) ==
  /\ At(l, "dial")
  /\ sock' = NoConn
  /\ rejected' = FALSE
  /\ cached' = NoAddr
  /\ target' = [target EXCEPT ![l] = NoAddr]
  /\ Goto(l, "backoff")
  /\ UNCHANGED <<screen, buttons, ended, running, connected, capturer, rejoin,
                 machine, open, resolver, readerVars, crashed>>

\* sendHandshake on whatever Client.socket is now; a started exam is told
\* in the reply.  isConnected, onConnected, the name and a reader follow.
Accepted(l, r) ==
  /\ At(l, "hello")
  /\ sock \in open
  /\ rpc[r] = "none"
  /\ machine' \in {machine, ClientApply(machine, "exam_start")}
  /\ connected' = TRUE
  /\ rejected' = FALSE
  /\ rpc' = [rpc EXCEPT ![r] = "turn"]
  /\ Goto(l, "turn")
  /\ UNCHANGED <<screen, buttons, ended, running, cached, sock, capturer, rejoin,
                 open, resolver, target, on, event, crashed>>

\* Seeded fault: a rejected loop returns instead of going on.
NotAccepted_GiveUp(l) ==
  /\ At(l, "hello")
  /\ sock # NoConn
  /\ rejected' = TRUE
  /\ open' = open \ {sock}
  /\ Goto(l, "none")
  /\ UNCHANGED <<screen, buttons, ended, clientVars, resolver, target, readerVars, crashed>>

\* Refused, cut or unanswered for ten seconds: all are buttons as a rejection,
\* and the cached address stays.
NotAccepted(l) ==
  /\ At(l, "hello")
  /\ sock # NoConn
  /\ rejected' = TRUE
  /\ open' = open \ {sock}
  /\ Goto(l, "backoff")
  /\ UNCHANGED <<screen, buttons, ended, clientVars, resolver, target, readerVars, crashed>>

\* waitOrRejoin: the delay passes, or a signal is taken.
WakeUp(l) ==
  /\ At(l, "backoff")
  /\ rejoin' \in {rejoin, FALSE}
  /\ Goto(l, "top")
  /\ UNCHANGED <<uiVars, running, connected, cached, sock, capturer, machine,
                 open, resolver, target, readerVars, crashed>>

\* The inner loop's condition; captureScreen finds no capturer and makes one.
Turn(l) ==
  /\ At(l, "turn")
  /\ IF connected /\ running
     THEN Goto(l, "capture") /\ capturer' = TRUE
     ELSE Goto(l, "close") /\ UNCHANGED capturer
  /\ UNCHANGED <<uiVars, running, connected, cached, sock, rejoin, machine,
                 open, resolver, target, readerVars, crashed>>

\* Capture returns a frame, however long it took, and SendScreenshot skips a
\* nil socket, writes, or disconnects on a closed one.
SendFrame(l) ==
  /\ At(l, "capture")
  /\ IF sock = NoConn \/ sock \in open
     THEN Goto(l, "turn") /\ UNCHANGED <<rejected, connected>>
     ELSE Goto(l, "close") /\ rejected' = FALSE /\ connected' = FALSE
  /\ UNCHANGED <<screen, buttons, ended, running, cached, sock, capturer, rejoin,
                 machine, open, resolver, target, readerVars, crashed>>

\* Stop has taken the capturer between captureScreen's look and its use.
CapturerGone(l) ==
  /\ At(l, "capture")
  /\ ~capturer
  /\ Crash

\* New or Capture fails.
CaptureFails(l) ==
  /\ At(l, "capture")
  /\ rejected' = FALSE
  /\ connected' = FALSE
  /\ Goto(l, "close")
  /\ UNCHANGED <<screen, buttons, ended, running, cached, sock, capturer, rejoin,
                 machine, open, resolver, target, readerVars, crashed>>

\* Seeded fault: a loop that is asked to end does not close the socket.
HangUp_KeepSocket(l) ==
  /\ At(l, "close")
  /\ sock # NoConn
  /\ open' = IF running THEN open \ {sock} ELSE open
  /\ Goto(l, "top")
  /\ UNCHANGED <<uiVars, clientVars, resolver, target, readerVars, crashed>>

HangUp(l) ==
  /\ At(l, "close")
  /\ sock # NoConn
  /\ open' = open \ {sock}
  /\ Goto(l, "top")
  /\ UNCHANGED <<uiVars, clientVars, resolver, target, readerVars, crashed>>

\* Another loop's failed dial has left nil where this one has a socket.
SocketGone(l) ==
  /\ At(l, "hello") \/ At(l, "close")
  /\ sock = NoConn
  /\ Crash

-----------------------------------------------------------------------------
(* A reader: in every turn it looks at Client.socket again. *)

ReaderTurn(r) ==
  /\ rpc[r] = "turn"
  /\ sock # NoConn \/ ~(connected /\ running)
  /\ IF connected /\ running
     THEN /\ rpc' = [rpc EXCEPT ![r] = "read"]
          /\ on' = [on EXCEPT ![r] = sock]
     ELSE /\ rpc' = [rpc EXCEPT ![r] = "none"]
          /\ UNCHANGED on
  /\ UNCHANGED <<uiVars, clientVars, open, loopVars, event, crashed>>

ReaderSocketGone(r) ==
  /\ rpc[r] = "turn"
  /\ connected /\ running
  /\ sock = NoConn
  /\ Crash

\* End of stream, a malformed frame, or thirty seconds of silence.
ReaderReturns(r) ==
  /\ rpc[r] = "read"
  /\ rpc' = [rpc EXCEPT ![r] = "none"]
  /\ on' = [on EXCEPT ![r] = NoConn]
  /\ UNCHANGED <<uiVars, clientVars, open, loopVars, event, crashed>>

\* dispatchControl, up to the point where the UI can look in between:
\* EXAM_START calls back before it applies, every other frame applies first.
Dispatch(r, f) ==
  /\ rpc[r] = "read"
  /\ on[r] \in open
  /\ event' = [event EXCEPT ![r] = f]
  /\ rpc' = [rpc EXCEPT ![r] = "second"]
  /\ IF f = "exam_start"
     THEN ended' = FALSE /\ UNCHANGED machine
     ELSE machine' = ClientApply(machine, f) /\ UNCHANGED ended
  /\ UNCHANGED <<screen, buttons, rejected, running, connected, cached, sock, capturer,
                 rejoin, open, loopVars, on, crashed>>

\* Seeded fault: a new exam starts the machine over, as if from Waiting.
DispatchEnds_Restart(r) ==
  /\ rpc[r] = "second"
  /\ rpc' = [rpc EXCEPT ![r] = "turn"]
  /\ on' = [on EXCEPT ![r] = NoConn]
  /\ machine' = IF event[r] = "exam_start" THEN "capturing" ELSE machine
  /\ event' = [event EXCEPT ![r] = "exam_start"]
  /\ ended' = (ended \/ event[r] = "exam_stop")
  /\ UNCHANGED <<screen, buttons, rejected, running, connected, cached, sock, capturer,
                 rejoin, open, loopVars, crashed>>

\* The rest of it; the acknowledgement changes nothing here.
DispatchEnds(r) ==
  /\ rpc[r] = "second"
  /\ rpc' = [rpc EXCEPT ![r] = "turn"]
  /\ on' = [on EXCEPT ![r] = NoConn]
  /\ machine' = IF event[r] = "exam_start" THEN ClientApply(machine, "exam_start") ELSE machine
  /\ event' = [event EXCEPT ![r] = "exam_start"]
  /\ ended' = (ended \/ event[r] = "exam_stop")
  /\ UNCHANGED <<screen, buttons, rejected, running, connected, cached, sock, capturer,
                 rejoin, open, loopVars, crashed>>

\* The server, or the network, closes a connection.
Drop(c) ==
  /\ c \in open
  /\ open' = open \ {c}
  /\ UNCHANGED <<uiVars, clientVars, loopVars, readerVars, crashed>>

-----------------------------------------------------------------------------
UI == Draw \/ ChangeSettings \/ TryAgain
      \/ \E l \in Loop, ip \in Manual \cup {NoAddr} : Submit(l, ip)

LoopRuns(l) ==
  \/ Top(l) \/ (\E a \in Addr : Resolved(l, a)) \/ Unresolved(l)
  \/ (\E c \in Conn : Dialed(l, c)) \/ DialFails(l)
  \/ (\E r \in Reader : Accepted(l, r)) \/ NotAccepted(l) \/ WakeUp(l)
  \/ Turn(l) \/ SendFrame(l) \/ CapturerGone(l) \/ CaptureFails(l)
  \/ HangUp(l) \/ SocketGone(l)

ReaderRuns(r) ==
  \/ ReaderTurn(r) \/ ReaderSocketGone(r) \/ ReaderReturns(r) \/ DispatchEnds(r)
  \/ \E f \in Frame : Dispatch(r, f)

Next ==
  /\ ~crashed
  /\ \/ UI
     \/ \E l \in Loop : LoopRuns(l)
     \/ \E r \in Reader : ReaderRuns(r)
     \/ \E c \in Conn : Drop(c)

Spec == Init /\ [][Next]_vars

-----------------------------------------------------------------------------
(* Properties. *)

NoLoop == \A l \in Loop : lpc[l] = "none"

\* The dashboard has no way to start a loop, so one must be alive for as long
\* as it is on screen, and asked to go on: otherwise "Trying to reconnect"
\* would stand there for ever (client.go, Start and Stop).
DashboardHasLoop ==
  screen = "dashboard" => running /\ ~NoLoop

\* A student who left, and whose loops have ended, has no connection left that
\* Client still holds: the teacher sees no ghost (Stop and the loop's Close).
LeftMeansHungUp ==
  screen = "join" /\ NoLoop => sock \notin open

\* Where a loop uses Client.socket, or is about to look at it.
Using == {"hello", "turn", "capture", "close"}

\* A loop whose socket is nil while the student is in the exam shares the
\* program with another loop: the panic of SocketGone takes a student who left
\* and came back before the first loop noticed (client.go, Start and Stop).
NilNeedsOverlap ==
  \A l \in Loop : running /\ lpc[l] \in Using /\ sock = NoConn
                  => \E m \in Loop \ {l} : lpc[m] # "none"

\* An address where nobody answers is never kept for the next attempt: it is
\* the cached one only until the loop that has it in hand has dialled it,
\* whichever loop looked it up and however often the student asks for another
\* try in between (client.go, resolveServer and Rejoin).
DeadCacheIsDialled ==
  cached \in Addr \ Answering => \E l \in Loop : lpc[l] = "dial" /\ target[l] = cached

\* The view is capturing or waiting only by the word of the session machine
\* (dashboard.go, Layout and OnExamStop): seen from outside, an exam goes its
\* way and is not taken back, whatever the two readers and the screens do.
Told == INSTANCE ExamTold WITH
  told <- IF ended \/ machine = "stopped" THEN "over"
          ELSE IF machine = "capturing" THEN "running" ELSE machine
ExamNotTakenBack == Told!ToldSpec
=============================================================================

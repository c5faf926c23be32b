------------------------------ MODULE Registry ------------------------------
(***************************************************************************)
(* The connection registry of the server (server/server.go): one handler   *)
(* goroutine per accepted TCP connection, the maps they share              *)
(* (Server.conns, Server.activeConns, the dashboard's student tiles) and   *)
(* the delayed removals that give a dropped student time to come back.     *)
(* Every action is what a goroutine does between two lock operations, so   *)
(* the handlers, the removals and the teacher's close/reopen interleave as *)
(* finely as the locks allow.                                              *)
(*                                                                         *)
(* What arrives on a connection is left open here (the network and the     *)
(* clients are added by ExamRoom); a client sends NAME once per connection *)
(* (client/client.go:243) and that is the only restriction on it.          *)
(***************************************************************************)
EXTENDS Naturals, SessionStates

CONSTANTS
  Conn,        \* accepted connections; each also is its placeholder key
  Student,     \* student ids
  NoConn,      \* absence of a registry entry
  NoStudent,   \* the empty id of a handler before NAME
  Acks,        \* the state acknowledgements that arrive
  MaxReopens   \* bound: how often the teacher reopens the room

\* A remote address is never a student id; the null values are not members.
ASSUME RegistryAssumption ==
  /\ Conn \cap Student = {}
  /\ NoConn \notin Conn
  /\ NoStudent \notin Student
  /\ Acks \subseteq ClientState
  /\ MaxReopens \in Nat

VARIABLES
  running,     \* Server.isRunning
  reopens,     \* how often the room has been reopened
  pc,          \* where each connection's handler goroutine stands
  key,         \* handleStudent's local `key`
  id,          \* handleStudent's local `id`
  stamp,       \* handleStudent's local `connTimestamp`, 0 before NAME
  conns,       \* Server.conns: key -> connection, or NoConn
  rcState,     \* registeredConn.state of each connection
  activeConns, \* Server.activeConns: student -> stamp, 0 when absent
  clock,       \* time.Now().UnixNano(), advanced at each registration
  timer,       \* the scheduleStudentRemoval goroutine of each connection
  tile,        \* the student's tile: "none", or Student.State
  picture,     \* the student's tile has an image
  lastLog,     \* the student's last record in the open event log
  cleared      \* clock when the tiles were last cleared (history)

netVars  == <<pc, key, id, stamp, conns, rcState>>
gridVars == <<activeConns, clock, timer, tile, picture, lastLog, cleared>>
vars     == <<running, reopens, netVars, gridVars>>

Key == Conn \cup Student

(* NAME in progress: registered in activeConns, not yet in the grid.       *)
Naming == {"unkey", "rekey", "exists", "add", "rename"}
(* Registered under some key, but between unregister and register in NAME. *)
Registered == {"loop", "unkey", "exists", "add", "rename", "decode", "closing"}
HandlerPc == Registered \cup {"idle", "handshake", "register", "rekey", "done"}

TileState == ClientState \cup {"none"}

TypeOK ==
  /\ running \in BOOLEAN
  /\ reopens \in 0..MaxReopens
  /\ pc \in [Conn -> HandlerPc]
  /\ key \in [Conn -> Key]
  /\ id \in [Conn -> Student \cup {NoStudent}]
  /\ stamp \in [Conn -> Nat]
  /\ conns \in [Key -> Conn \cup {NoConn}]
  /\ rcState \in [Conn -> ClientState]
  /\ activeConns \in [Student -> Nat]
  /\ clock \in Nat
  /\ timer \in [Conn -> {"none", "armed", "fired"}]
  /\ tile \in [Student -> TileState]
  /\ picture \in [Student -> BOOLEAN]
  /\ lastLog \in [Student -> {"none", "joined", "reconnected", "disconnected"}]
  /\ cleared \in Nat

Init ==
  /\ running = TRUE
  /\ reopens = 0
  /\ pc = [c \in Conn |-> "idle"]
  /\ key = [c \in Conn |-> c]
  /\ id = [c \in Conn |-> NoStudent]
  /\ stamp = [c \in Conn |-> 0]
  /\ conns = [k \in Key |-> NoConn]
  /\ rcState = [c \in Conn |-> "waiting"]
  /\ activeConns = [s \in Student |-> 0]
  /\ clock = 0
  /\ timer = [c \in Conn |-> "none"]
  /\ tile = [s \in Student |-> "none"]
  /\ picture = [s \in Student |-> FALSE]
  /\ lastLog = [s \in Student |-> "none"]
  /\ cleared = 0

Goto(c, from, to) == pc[c] = from /\ pc' = [pc EXCEPT ![c] = to]

-----------------------------------------------------------------------------
(* The handler goroutine, from accept to its main loop. *)

\* The accept loop starts a handler for a new connection.
Accept(c) ==
  /\ running
  /\ Goto(c, "idle", "handshake")
  /\ UNCHANGED <<running, reopens, key, id, stamp, conns, rcState, gridVars>>

\* performHandshake succeeded: OK is on the wire, nothing is registered yet.
HandshakeOK(c) ==
  /\ Goto(c, "handshake", "register")
  /\ UNCHANGED <<running, reopens, key, id, stamp, conns, rcState, gridVars>>

\* performHandshake failed: the handler returns and closes the socket.
HandshakeFails(c) ==
  /\ Goto(c, "handshake", "done")
  /\ UNCHANGED <<running, reopens, key, id, stamp, conns, rcState, gridVars>>

\* The connection enters the registry under its remote address.
Register(c) ==
  /\ Goto(c, "register", "loop")
  /\ conns' = [conns EXCEPT ![c] = c]
  /\ UNCHANGED <<running, reopens, key, id, stamp, rcState, gridVars>>

-----------------------------------------------------------------------------
(* The NAME case of the loop, one action per critical section. *)

\* registerConnection: a fresh stamp, and the join or reconnect is logged.
RecvName(c, s) ==
  /\ id[c] = NoStudent
  /\ Goto(c, "loop", "unkey")
  /\ id' = [id EXCEPT ![c] = s]
  /\ clock' = clock + 1
  /\ stamp' = [stamp EXCEPT ![c] = clock + 1]
  /\ activeConns' = [activeConns EXCEPT ![s] = clock + 1]
  /\ lastLog' = [lastLog EXCEPT ![s] =
                   IF activeConns[s] # 0 THEN "reconnected" ELSE "joined"]
  /\ UNCHANGED <<running, reopens, key, conns, rcState, timer, tile, picture,
                 cleared>>

\* The placeholder entry goes; until Rekey no broadcast can see c.
Unkey(c) ==
  /\ Goto(c, "unkey", "rekey")
  /\ conns' = [conns EXCEPT ![key[c]] = NoConn]
  /\ UNCHANGED <<running, reopens, key, id, stamp, rcState, gridVars>>

\* The entry under the student id replaces whatever another handler put there.
Rekey(c) ==
  /\ Goto(c, "rekey", "exists")
  /\ key' = [key EXCEPT ![c] = id[c]]
  /\ conns' = [conns EXCEPT ![id[c]] = c]
  /\ UNCHANGED <<running, reopens, id, stamp, rcState, gridVars>>

\* isExists is decided under the manager's lock, acted on in the next step.
CheckExists(c) ==
  /\ Goto(c, "exists", IF tile[id[c]] = "none" THEN "add" ELSE "rename")
  /\ UNCHANGED <<running, reopens, key, id, stamp, conns, rcState, gridVars>>

\* Seeded fault: NewStudent leaves State at its zero value, StateIdle.
AddStudent_ZeroState(c) ==
  /\ Goto(c, "add", "loop")
  /\ tile' = [tile EXCEPT ![id[c]] = "idle"]
  /\ picture' = [picture EXCEPT ![id[c]] = FALSE]
  /\ UNCHANGED <<running, reopens, key, id, stamp, conns, rcState,
                 activeConns, clock, timer, lastLog, cleared>>

\* A new tile, in the state a new Student is created with.
AddStudent(c) ==
  /\ Goto(c, "add", "loop")
  /\ tile' = [tile EXCEPT ![id[c]] = "waiting"]
  /\ picture' = [picture EXCEPT ![id[c]] = FALSE]
  /\ UNCHANGED <<running, reopens, key, id, stamp, conns, rcState,
                 activeConns, clock, timer, lastLog, cleared>>

\* The name itself is not modelled; a removed student stays removed.
UpdateName(c) ==
  /\ Goto(c, "rename", "loop")
  /\ UNCHANGED <<running, reopens, key, id, stamp, conns, rcState, gridVars>>

-----------------------------------------------------------------------------
(* The other cases of the loop. *)

\* setStudentState: by id, so it reaches whichever connection holds the id.
RecvAck(c, st) ==
  /\ pc[c] = "loop"
  /\ id[c] # NoStudent
  /\ rcState' = IF conns[id[c]] = NoConn THEN rcState
                ELSE [rcState EXCEPT ![conns[id[c]]] = st]
  /\ tile' = IF tile[id[c]] = "none" THEN tile ELSE [tile EXCEPT ![id[c]] = st]
  /\ UNCHANGED <<running, reopens, pc, key, id, stamp, conns,
                 activeConns, clock, timer, picture, lastLog, cleared>>

\* PICTURE passed the session check; the image is decoded without a lock.
RecvPicture(c) ==
  /\ Goto(c, "loop", "decode")
  /\ UNCHANGED <<running, reopens, key, id, stamp, conns, rcState, gridVars>>

\* The decoded image replaces the tile's, if the student has a tile.
UpdateImage(c) ==
  /\ Goto(c, "decode", "loop")
  /\ picture' = IF id[c] = NoStudent \/ tile[id[c]] = "none" THEN picture
                ELSE [picture EXCEPT ![id[c]] = TRUE]
  /\ UNCHANGED <<running, reopens, key, id, stamp, conns, rcState,
                 activeConns, clock, timer, tile, lastLog, cleared>>

\* Seeded fault: the handler does not schedule the student's removal.
Leave_NoRemoval(c) ==
  /\ Goto(c, "loop", "closing")
  /\ UNCHANGED <<running, reopens, key, id, stamp, conns, rcState, gridVars>>

\* A read error, a read timeout, a bad header or a stopped server ends the
\* loop; a named handler leaves a delayed removal behind.
Leave(c) ==
  /\ Goto(c, "loop", "closing")
  /\ timer' = IF id[c] = NoStudent THEN timer ELSE [timer EXCEPT ![c] = "armed"]
  /\ UNCHANGED <<running, reopens, key, id, stamp, conns, rcState,
                 activeConns, clock, tile, picture, lastLog, cleared>>

\* Seeded fault: `key` is evaluated when the call is deferred, not when it runs.
Unregister_Placeholder(c) ==
  /\ Goto(c, "closing", "done")
  /\ conns' = [conns EXCEPT ![c] = NoConn]
  /\ UNCHANGED <<running, reopens, key, id, stamp, rcState, gridVars>>

\* The deferred unregisterConn deletes by key, whoever holds the key now;
\* then the socket is closed.
Unregister(c) ==
  /\ Goto(c, "closing", "done")
  /\ conns' = [conns EXCEPT ![key[c]] = NoConn]
  /\ UNCHANGED <<running, reopens, key, id, stamp, rcState, gridVars>>

-----------------------------------------------------------------------------
(* The delayed removal and the teacher's close and reopen. *)

(***************************************************************************)
(* The one fact about time the model keeps: the five seconds of the grace  *)
(* period outlast the NAME case of a connection registered before c, which *)
(* takes a few map operations.  A NAME registered after c may be anywhere. *)
(***************************************************************************)
GraceOutlastsNaming(c) ==
  \A d \in Conn : pc[d] \in Naming /\ id[d] = id[c] => stamp[d] >= stamp[c]

\* Seeded fault: the removal does not compare the stamps.
Removal_NoStampCheck(c) ==
  /\ timer[c] = "armed"
  /\ GraceOutlastsNaming(c)
  /\ timer' = [timer EXCEPT ![c] = "fired"]
  /\ lastLog' = [lastLog EXCEPT ![id[c]] = "disconnected"]
  /\ activeConns' = [activeConns EXCEPT ![id[c]] = 0]
  /\ tile' = [tile EXCEPT ![id[c]] = "none"]
  /\ picture' = [picture EXCEPT ![id[c]] = FALSE]
  /\ UNCHANGED <<running, reopens, netVars, clock, cleared>>

\* Seeded fault: the removal forgets to delete the activeConns entry.
Removal_StaysActive(c) ==
  /\ timer[c] = "armed"
  /\ GraceOutlastsNaming(c)
  /\ timer' = [timer EXCEPT ![c] = "fired"]
  /\ IF activeConns[id[c]] = stamp[c]
     THEN /\ lastLog' = [lastLog EXCEPT ![id[c]] = "disconnected"]
          /\ tile' = [tile EXCEPT ![id[c]] = "none"]
          /\ picture' = [picture EXCEPT ![id[c]] = FALSE]
     ELSE UNCHANGED <<lastLog, tile, picture>>
  /\ UNCHANGED <<running, reopens, netVars, activeConns, clock, cleared>>

\* scheduleStudentRemoval wakes up: it removes the student only if no newer
\* connection has registered under the same id meanwhile.
Removal(c) ==
  /\ timer[c] = "armed"
  /\ GraceOutlastsNaming(c)
  /\ timer' = [timer EXCEPT ![c] = "fired"]
  /\ IF activeConns[id[c]] = stamp[c]
     THEN /\ lastLog' = [lastLog EXCEPT ![id[c]] = "disconnected"]
          /\ activeConns' = [activeConns EXCEPT ![id[c]] = 0]
          /\ tile' = [tile EXCEPT ![id[c]] = "none"]
          /\ picture' = [picture EXCEPT ![id[c]] = FALSE]
     ELSE UNCHANGED <<lastLog, activeConns, tile, picture>>
  /\ UNCHANGED <<running, reopens, netVars, clock, cleared>>

\* BtnStop: the server stops and the tiles are cleared.  Handlers notice at
\* the head of their loop; conns and activeConns are left as they are.
CloseRoom ==
  /\ running
  /\ running' = FALSE
  /\ tile' = [s \in Student |-> "none"]
  /\ picture' = [s \in Student |-> FALSE]
  /\ cleared' = clock
  /\ UNCHANGED <<reopens, netVars, activeConns, clock, timer, lastLog>>

\* The home screen's "Open Waiting Room": the server starts again, with the
\* same event log when the exam name (and so its directory) is the same.
ReopenRoom(sameLog) ==
  /\ ~running
  /\ reopens < MaxReopens
  /\ running' = TRUE
  /\ reopens' = reopens + 1
  /\ lastLog' = IF sameLog THEN lastLog ELSE [s \in Student |-> "none"]
  /\ UNCHANGED <<netVars, activeConns, clock, timer, tile, picture, cleared>>

-----------------------------------------------------------------------------
Handler(c) ==
  \/ HandshakeOK(c) \/ HandshakeFails(c) \/ Register(c)
  \/ \E s \in Student : RecvName(c, s)
  \/ Unkey(c) \/ Rekey(c) \/ CheckExists(c) \/ AddStudent(c) \/ UpdateName(c)
  \/ \E st \in Acks : RecvAck(c, st)
  \/ RecvPicture(c) \/ UpdateImage(c) \/ Leave(c) \/ Unregister(c)

Next ==
  \/ \E c \in Conn : Accept(c) \/ Handler(c) \/ Removal(c)
  \/ CloseRoom
  \/ \E sameLog \in BOOLEAN : ReopenRoom(sameLog)

Spec == Init /\ [][Next]_vars

(***************************************************************************)
(* Go runs every goroutine that is not blocked.  A handler in its loop is  *)
(* never blocked for good: its reads carry a ten second deadline, so it    *)
(* leaves when nothing comes; the removal sleeps for five seconds.         *)
(***************************************************************************)
Fairness ==
  \A c \in Conn :
    /\ WF_vars(Unkey(c)) /\ WF_vars(Rekey(c)) /\ WF_vars(CheckExists(c))
    /\ WF_vars(AddStudent(c)) /\ WF_vars(UpdateName(c))
    /\ WF_vars(UpdateImage(c)) /\ WF_vars(Unregister(c)) /\ WF_vars(Removal(c))

FairSpec == Spec /\ Fairness

-----------------------------------------------------------------------------
(* Properties. *)

(***************************************************************************)
(* Every registry entry belongs to a handler that is still serving its     *)
(* connection and holds the entry under its own key: a broadcast never     *)
(* writes through the entry of a finished handler, and no entry outlives   *)
(* its handler (registerConn, unregisterConn and the deferred closure of   *)
(* handleStudent).                                                         *)
(***************************************************************************)
EntriesLive ==
  \A k \in Key : conns[k] # NoConn =>
     pc[conns[k]] \in Registered /\ key[conns[k]] = k

\* No connection of the same student has registered after c.
Newest(c) ==
  /\ id[c] # NoStudent
  /\ \A d \in Conn : id[d] = id[c] => stamp[d] <= stamp[c]

(***************************************************************************)
(* The student behind the newest connection keeps the tile while served,   *)
(* and through the grace period after that: a removal left behind by an    *)
(* older connection never takes it, however the grace period and the       *)
(* reconnect interleave.  Clearing all tiles is the teacher's doing        *)
(* (scheduleStudentRemoval against registerConnection and the NAME case).  *)
(***************************************************************************)
NewestKeepsTile ==
  \A c \in Conn :
     /\ Newest(c)
     /\ pc[c] \in {"rename", "loop", "decode"} \/ timer[c] = "armed"
     /\ stamp[c] > cleared
     => tile[id[c]] # "none"

\* A handler that is serving s, or a removal of s still to come, of stamp n.
AccountsFor(c, s, n) ==
  /\ id[c] = s
  /\ stamp[c] = n
  /\ pc[c] \notin {"closing", "done"} \/ timer[c] = "armed"

(***************************************************************************)
(* No ghost tiles: every tile on the dashboard has a connection being      *)
(* served, or a removal still to come, whose stamp is the student's active *)
(* one, so something will take the tile away when the student is gone      *)
(* (AddStudent in the NAME case against RemoveStudent).                    *)
(***************************************************************************)
TilesAccountedFor ==
  \A s \in Student : tile[s] # "none" =>
     /\ activeConns[s] # 0
     /\ \E c \in Conn : AccountsFor(c, s, activeConns[s])

(***************************************************************************)
(* The event log reads as a history until the room is reopened (with a new *)
(* log and the old activeConns): a student joins before reconnecting or    *)
(* disconnecting, and after a disconnect the next record is a join         *)
(* (registerConnection and scheduleStudentRemoval, both under              *)
(* activeConnsMu).                                                         *)
(***************************************************************************)
LogReads(old, new) ==
  \/ new = old
  \/ new = "joined" /\ old \in {"none", "disconnected"}
  \/ new \in {"reconnected", "disconnected"} /\ old \in {"joined", "reconnected"}

LogOrder ==
  [][reopens' = 0 => \A s \in Student : LogReads(lastLog[s], lastLog'[s])]_vars

(***************************************************************************)
(* A student whose connections have all ended leaves the dashboard, unless *)
(* the student connects again first.                                       *)
(***************************************************************************)
Gone(s) == \A c \in Conn : id[c] = s => pc[c] = "done"

DepartedLeaveDashboard ==
  \A s \in Student : Gone(s) ~> (tile[s] = "none" \/ ~Gone(s))

(***************************************************************************)
(* server.go:29-30 says of an accepted connection that it is "Held in      *)
(* Server.conns keyed by studentID": when every other connection of the    *)
(* student has ended, the one that is left is found under the student's id.*)
(***************************************************************************)
SoleConnectionIsRegistered ==
  \A c \in Conn :
     /\ pc[c] = "loop"
     /\ id[c] # NoStudent
     /\ \A d \in Conn \ {c} : id[d] = id[c] => pc[d] = "done"
     => conns[id[c]] = c
=============================================================================

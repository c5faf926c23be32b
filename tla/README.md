# A verification project for the exam monitor

The exam monitor is a pair of Go programs. The **server** runs on the
teacher's machine: it opens a room, lets students in with a token, shows a tile
per student and lets the teacher start, lock, unlock and stop the exam. The
**client** runs on each student's machine: it finds the server, sends a
screenshot every 250 ms and obeys the teacher's commands. This directory models
the core of both in TLA+, model-checks it with TLC on small instances and proves
its main safety properties with TLAPS for instances of any size.

## 1. Inventory

| Component | State it keeps | Operations | What makes it correct |
|---|---|---|---|
| Connection registry and handlers (`server/server.go`) | `conns` (key -> connection and its last acknowledged state), `activeConns` (student -> stamp of the newest connection), one goroutine per connection with locals `key`, `id`, `connTimestamp` | accept, handshake, NAME, PICTURE, acknowledgements, leave, deferred unregister, delayed removal | no entry outlives its handler; an old connection's end never harms the new one; no ghost tiles; a log that reads as a history |
| Exam session (`server/session`) | machine state, token, dates | start, lock, unlock, stop, regenerate token | only legal edges |
| Teacher's controls and broadcasts (`server/dashboard.go`) | the dialogs, the viewer | `startExam`, `stopExam`, `lockAll`, `unlockExam`, `sendMessage`, export | a command reaches those it is meant for, and nobody else |
| Student grid, image cache, viewer (`server/student_manager.go`, `student.go`, `image_cache.go`, `card.go`, `viewer.go`) | students by id, a sorted copy and whether it is stale, images with their times, a cache of drawing operations, the columns | add, rename, remove, put a picture, sort, clear, draw | tiles match connections; the copy is current and in order; a drawn picture is the tile's own; every tile is in one row |
| Event log and reaper (`server/eventlog`) | a directory per exam name and day with its records and metadata | record, set metadata, export, reap | records in the order of the exam; only directories with an ended exam expire; expired ones go |
| Home screen and room lifecycle (`server/home.go`, `main.go`, `mdns.go`, `Server.Start/Stop`) | the prepared session, `isRunning`, the listener, the mDNS registration, two goroutines per Start | open, close, reopen | no listener without its goroutine; a closed room lets go of its port and goroutines; an open one accepts |
| Client run loop, reader and dashboard (`client/client.go`, `dashboard.go`) | `socket`, `isConnected`, `isRunning`, `capturer`, the cached address, the ended and rejected flags; a goroutine per Start and a reader per connection | dial, handshake, stream, read commands, stop, rejoin, draw | gets back in; leaves no connection behind; an exam that is over stays over |
| Client session machine (`client/session`) | machine state | `Apply` with its recoveries | follows the teacher, never ahead |
| Lock overlay (`client/ui/overlay.go`) | `visible`, `message`, `window` | show, hide, the window's goroutine | the screen settles as the last call wanted, with the last message |
| Discovery, join form | the typed address, what the form remembers | resolve an address; submit, test | a dead address is not dialed for ever |
| Messages and toast (`dashboard.go`, `server.go`, `client/ui/toast.go`) | the dialog with its picked student; the toast of each student | pick, confirm, write, record; show, dismiss | only the addressee is shown a message |
| Updater, capture back ends, diagnostics, drawing | | platform or network I/O | |

**Interactions.** A client's run loop dials, sends its token and reads the
reply; from then on the run loop writes NAME and pictures while a reader
goroutine takes commands and writes acknowledgements on the same socket. On the
server each connection has its own handler; handlers, removals and the teacher's
UI thread meet in the locked maps. A button changes the session, then takes a
snapshot of `conns` under the lock and writes to the connections one by one
after it. An acknowledgement goes to the registry entry *and* the tile of the
student id. The end of a handler leaves a goroutine that sleeps five seconds and
removes the student unless a newer connection has registered.

**Hard behaviours.** Two handlers of one student overlap at every reconnect;
NAME is several critical sections; removals wake up late; OK is written before
the connection is registered; the snapshot is older than the writes; frames are
lost with their connection and nothing is sent again; the reader has a deadline
the run loop does not know of; the room can be closed and reopened over all of
this. Inside the student's program `Stop` does not wait for the run loop, so that
two loops may share every field, and a reader looks at the socket again in every
turn; inside the teacher's, `Stop` does not wait for the accept and broadcast
goroutines, a dialog stays open over whatever the registry does meanwhile, the UI
thread reads tiles that handlers are writing, and the disk is written in separate
transactions which a crash or the reaper can come between.
`PROJECT.json` lists each hazard at its line.

## 2. Modules

```
SessionStates ---------+-------------+--------------+   the two state machines
   |        \          |             |              |
Registry    ExamPromise|      StudentProgram    TeacherDesk
   |  \      |         |        |      \
   |   Messages        |        |       ExamTold (refined)
   |         |         |        |
ExamRoom ----+ (refines)        |
   |                            |
MCRegistry, MCExamRoom,   MCStudentProgram              symmetry sets for TLC
MCMessages

StudentGrid    ServerLifecycle    LockOverlay                   on their own

RegistryProofs --- RoomProofs --- PromiseProofs         theorems about the room
StudentProofs, LockOverlayProofs                        ... the student's program
DeskProofs, GridProofs, LifecycleProofs                 ... the teacher's
```

The system is cut where its parts meet through little: *Registry* and *ExamRoom*
are the connections between the two programs; *StudentProgram* and *LockOverlay*
are the threads inside the student's; *TeacherDesk*, *StudentGrid* and
*ServerLifecycle* are the threads inside the teacher's; *Messages* is a second user
of the connections. What another module
models in detail is here a free choice: servers accept or refuse in
StudentProgram, handlers add and remove tiles at will in StudentGrid.

**SessionStates** has the server's edges (`ServerEdge`) and the client's
`Apply` with its recoveries (`ClientApply`).

**Registry** is `server.go` without the network. A connection is identified
with its placeholder key (its remote address). `pc[c]` is where its handler
stands: `handshake`, `register`, `loop`, then for NAME `unkey`, `rekey`,
`exists`, `add` or `rename`, for PICTURE `decode`, and at the end `closing`,
`done`. Each action is what happens between two lock operations:

| Action | Code |
|---|---|
| `Accept`, `HandshakeOK`, `HandshakeFails`, `Register` | accept loop, `performHandshake`, `registerConn` |
| `RecvName` | `registerConnection`: stamp, `activeConns`, join/reconnect record |
| `Unkey`, `Rekey` | `unregisterConn(key)`, `key = id`, `registerConn(key, rc)` |
| `CheckExists`, `AddStudent`, `UpdateName` | `isExists`, then `AddStudent` or `UpdateName` |
| `RecvAck` | `setStudentState` |
| `RecvPicture`, `UpdateImage` | the check, then decode and update |
| `Leave`, `Unregister` | end of the loop and its removal; the deferred closure |
| `Removal` | `scheduleStudentRemoval` after its sleep |
| `CloseRoom`, `ReopenRoom` | `BtnStop` and the home screen's button |

**ExamRoom** extends it with the session, the UI thread, one queue of frames
per connection and direction, and the clients. A registry action happens when
the frame that triggers it is at the head of its queue. The UI thread is `idle`,
about to take its `snapshot`, or writing (`write`) to the targets left. A client
is at `dial`, `hello` (token sent), `name` (reply read) or `stream`; its reader
(`listening`), machine and overlay are separate, so that a reader can end while
the run loop streams on. `RoomSpec` refines `Registry!Spec`
(theorem `RoomImplementsRegistry`).

**ExamPromise** is what a room promises, without connections: the teacher moves
the session along its edges, and one client at a time applies a command the
session's state shows the teacher can have issued. `RoomKeepsPromise` states that
ExamRoom implements it; the refinement mapping is the identity on `session` and
`machine`.

**LockOverlay** is `client/ui/overlay.go` for one client: the reader goroutine in
`Show` or `Hide` (`caller`), and one goroutine `run` per window. ExamRoom's
`overlay` bit is the last call made (`wanted` here); this module says when the
screen follows. One action is what happens between two operations on `visible`
and `window`:

| Action | Code |
|---|---|
| `CallShow`, `ShowSwap`, `ShowRefresh` | `Show`: store the message, `visible.Swap(true)`, then `go o.run()` or `Invalidate` |
| `CallHide`, `HideSwap`, `HideClose` | `Hide`: `visible.Swap(false)`, then `Perform(ActionClose)` |
| `StoreWindow`, `CheckVisible`, `Draw`, `Destroy`, `LowerVisible`, `ForgetWindow` | `run`: `window.Store(w)`, the loop's head and the drain, `FrameEvent`, `DestroyEvent`, `visible.Store(false)`, the deferred `window.Store(nil)` |
| `OpenWindow`, `OtherEvent`, `CloseFromOutside` | Gio and the desktop (external) |

Two history variables name what the guarantees exclude: `hurried`, a Show that
raised the overlay while an earlier goroutine was still ending, and `dismissed`,
a window closed from outside. Gio is modelled from how `run` uses it: an
`ActionClose` performed on a window whose first `Event` is still to come takes
effect when the window is there (the drain at the end of `run` relies on it).

**StudentProgram** is `client.go`, `dashboard.go` and the wiring of `main.go` for
one student. Every call of `Start` is a run loop `l` with its place `lpc[l]`;
every handshake that succeeds starts a reader `r` with `rpc[r]` and the socket
`on[r]` it is reading. All of them share the fields of `Client`. One action is
what a thread does between two points where it can wait:

| Action | Code |
|---|---|
| `Submit`, `ChangeSettings`, `TryAgain`, `Draw` | the join form's callback, the two buttons `Layout` can reach, a frame |
| `Top`, `Resolved`, `Unresolved`, `Dialed`, `DialFails`, `WakeUp` | the head of the loop, `Resolve`, `DialTCP`, `waitOrRejoin` |
| `Accepted`, `NotAccepted` | `sendHandshake` and what follows it |
| `Turn`, `SendFrame`, `CaptureFails`, `HangUp` | the inner loop, `captureScreen`, `SendScreenshot`, the loop's `Close` |
| `ReaderTurn`, `ReaderReturns`, `Dispatch`, `DispatchEnds` | `readControlFrames`, `dispatchControl` with its callback before or after `Apply` |
| `CapturerGone`, `SocketGone`, `ReaderSocketGone` | a nil capturer or socket is used: `RecoverPanic` writes its report and panics again |
| `Drop` | the server or the network closes a connection (external) |

A button is clicked in a frame drawn earlier, so `buttons` remembers what the last
frame showed: the student can leave in the very moment the connection comes back.

**ExamTold** is what a student is told of an exam: waiting, running, locked, over.
`ExamNotTakenBack` states that StudentProgram implements it, with `told` mapped to
what the ended flag and the machine say together. The two abstract specifications
meet in PromiseProofs: under ExamPromise every student's machine goes through
ExamTold (`Told(s)`), so the room tells each student what the student's program
shows.

**TeacherDesk** is the teacher's UI thread (`home.go`, `dashboard.go`, `main.go`),
the disk (`eventlog`) and the reaper. A click handler moves the session at once and
queues its writes in `todo`; `DoWrite` does one of them, and a crash, the clock or
the reaper may come before the next. `Started` is what a new process knows. A pass
of the reaper reads the clock once (`since`) and compares every directory with that
reading, so its look at a directory and the removal can lie on both sides of a
write, of a crash or of a change of day.

| Action | Code |
|---|---|
| `OpenRoom`, `OpenRoomWithoutLog`, `CloseRoom` | `main.go`'s room callback, `BtnStop` |
| `StartExam`, `StopExam`, `UnlockExam`, `OpenLockDialog`, `CancelLock`, `ConfirmLock` | the top bar and the lock dialog |
| `ViewStudent`, `ViewTwo`, `CloseViewer` | clicks on tiles in one frame, the close button or a viewed student who is gone |
| `DoWrite` | `Record`, `SetMeta`, `SetEventLog` |
| `StartPass`, `Look`, `Remove`, `RemoveFails` | `RunReaper`, `ReapOnce`, `RemoveAll` |
| `Tick`, `Crash`, `Restart` | the clock; the process ends and is started again |

**StudentGrid** is the tiles as the UI thread sees them. A tile is a *join*: the
`*Student` made by one NAME. Handlers change tiles under the manager's mutex
(`Add`, `UpdateName`, `PutImage` then `PutStamp`, `RemoveTile` then
`RemoveCached`); the UI thread takes its snapshot under it (`BeginFrame`,
`GetSorted`) and then draws tile by tile without it (`DrawOld`, or `MakeOp` then
`StoreOp`, `EndFrame`). `Race` is what Go makes of two goroutines in one map, or
of an interface value that is read while it is first written. `Ordered` allows
every order of equal keys, because the sort starts from a map's iteration.

**ServerLifecycle** is `Start`, `Stop` and the two goroutines of every Start
(`acceptor`, `announcer`), numbered by the call. `listener` is the field
`s.listener`, `bound` the listeners that are really open; `cancelled` is
`mdnsCancelOnce`. The acceptor listens (`Listen`, `ListenFails`), puts its listener
in the field in a step of its own (`Store`), and then waits in `AcceptTCP`, which has
no deadline: it comes back when a client connects (`Connect`, which nobody owes it)
or at once when that very listener has been closed (`AcceptFails`). The history
variable `overtaken` names the one thing the guarantees exclude: a Start while an
earlier acceptor still has its listen before it, or its listener open (`Unfinished`).

**Messages** extends Registry with the teacher's message dialog and its way to the
students' screens. A message is known by its addressee, so the module can tell who
is shown what was meant for whom.

| Action | Code |
|---|---|
| `OpenMsgDialog`, `CancelMsg`, `PickAll`, `PickSelected`, `PickStudent`, `ConfirmMsg` | the top bar's button and `drawMsgDialog`; the picked student may leave before Send is clicked |
| `Find`, `WriteMessage`, `WriteFails` | `BroadcastControlAll` or `SendToStudent`: the lookup under the lock, the writes after it |
| `Sent` | `sendMessage` returns, its record in the log left out |
| `Receive`, `ToastEnds` | `dispatchControl` and `ToastState.Set`; five seconds, or Dismiss |
| `MailLost` | a connection ends with frames unread (external) |
| `Registration`, `LeaveRoom` | the registry's actions, where a program gives one student's name on all its connections |

### What the abstractions leave out

* *Stamps.* `time.Now().UnixNano()` is a counter advanced at each registration:
  registrations are serialised by `activeConnsMu`, and two in one nanosecond
  tick are taken not to happen.
* *Time.* `GraceOutlastsNaming` is the only fact kept: the five seconds of a
  removal outlast the few map operations of a NAME that registered earlier. The
  proof of `TilesAccountedFor` fails without it. All other deadlines are
  nondeterministic.
* *Time outs of handlers.* A handler with a frame waiting does not time out;
  one with an empty queue may at any moment.
* *Client goroutines.* ExamRoom has one run loop and one reader per client,
  closing a socket ends the reader at once, and dispatching a frame is one step.
  StudentProgram drops all three simplifications, for one client and without the
  server's side.
* *One program per student.* In ExamRoom the ids of the students differ, and a
  student's program, once started, stays up. Two programs with the same id typed in,
  and a program that is ended and started anew (with a machine that begins at
  Waiting), are left out: `NoTileAheadOfClient` is about the program that joined.
* *Connections of StudentProgram* are used again when nothing refers to them any
  more (`Unreferenced`; Go then closes what was left open). Its bounds on loops,
  readers and connections limit how many are alive at a time, never how many there
  have been.
* *A dashboard flag and a rejection.* Of `errorMsg` only its prefix is kept, the
  one thing `Layout` asks of it.
* *Disk.* A write to a log succeeds, or the file has been removed and the write is
  lost; the code ignores every other error of `Record` and `SetMeta`. Which records
  a log holds is kept as far as the properties ask: the end of the exam, the last
  lifecycle record and the last viewer record of this process.
* *Pictures* are numbered within their tile; two of them do not share a time stamp.
* *Tokens.* Live or not: expiry and a token regenerated on the home screen are
  the same event for the clients that hold the old one. A mistyped token behaves
  like a dead one.
* *Frames.* JSON payloads, sizes and headers that no sender produces are left
  out; messages are in a module of their own, without the session, pictures and
  acknowledgements, which change no key of the registry, and without the record
  of the message (`delivered_to`), which nothing reads.
* *Connections* are not recycled: a handler that has ended stays `done`. This
  makes the instances finite and is why runs set `CHECK_DEADLOCK FALSE`: when the
  connections of an instance are used up and the teacher has stopped the exam,
  nothing is left to do. The teacher and the students may also do nothing for
  ever.

## 3. Runs

| Run | Instance | Shows |
|---|---|---|
| `Registry` | 2 connections, 2 students, one kind of acknowledgement, 1 reopen; any environment | `TypeOK`, `EntriesLive`, `NewestKeepsTile`, `TilesAccountedFor`, `LogOrder`, and `DepartedLeaveDashboard` under fairness |
| `RoomReconnect` | 1 student, 2 connections; cuts, failed captures, silence; 1 lock | `RoomTypeOK`, `NobodyAhead`, `NoTileAheadOfClient`, `OverlayAgrees`, `RoomKeepsPromise` |
| `RoomEvents` | 1 student, 1 connection, all events, 1 queued picture, 1 reopen | `NobodyAhead` with quitting, expiry, reopening and pictures |
| `RoomLive` | 1 student, 3 connections; cuts; the teacher presses nothing | `ClientReconnects` under fairness |
| `StudentProgram` | 2 loops, 2 readers, 2 connections, an address that answers and one that does not; start and stop frames | `TypeOK`, `DashboardHasLoop`, `LeftMeansHungUp`, `NilNeedsOverlap`, `DeadCacheIsDialled`, `ExamNotTakenBack` |
| `TeacherDesk` | 1 exam name, 2 students, 2 days of 2 hours, a retention of 2 hours | `TypeOK`, `ViewsAreOnRecord`, `OnlyStoppedExpire`, `RecordsFollowExam`, `ReapedHadEnded`, and `ExpiredAreRemoved` under fairness |
| `StudentGrid` | 2 students, one joining twice, 2 pictures, 2 names, 1 or 2 columns | `TypeOK`, `DrawnBelongs`, `RowsShowAll`, `SnapshotIsCurrent` |
| `ServerLifecycle` | 2 Starts on any of 2 ports | `LifeTypeOK`, `OpenIsOwned`, `OpenRoomIsServed`, `ClosedRoomLetsGo`, and `QuietAfterStop`, `OpenRoomAccepts` under fairness |
| `LockOverlay` | 2 messages, 2 window goroutines, any calls, any closes | `TypeOK`, `VisibleIsServed`, `SettlesAsWanted`, and `HideTakesEffect` under fairness |
| `Messages` | 2 connections, 2 students, 1 message, 1 reopen | `OnlyAddressee` |

A run of the second kind states what a comment says and the code does not keep; TLC
finds the counterexample. `PROJECT.json` quotes each statement with its line.

| Run | Statement refuted | The trace |
|---|---|---|
| `RegistrySoleConnection` | `SoleConnectionIsRegistered` (`server.go:29-30`) | `c1` registers under `s1`; `c2` is greeted, registers and takes over the entry; `c1` ends and its deferred `unregisterConn("s1")` removes the entry of `c2` |
| `RoomLockReachesCapturing` | `LockReachesCapturing` (`dashboard.go:469-470`) | the exam starts with nobody there; a student joins, is told `Started` and captures, but its entry says Waiting; the lock is addressed to nobody |

Section 6 lists further places where the code does something a document, or a reader,
does not expect.

**Bounds.** Two connections of a student are what a reconnect race needs: the
properties relate one connection to the one that replaced it. Two students matter
only where keys could be mixed up (`Registry`). One lock and one reopen are enough to
meet every pair of session state and frame in flight. `Acks`, `MaxReopens`,
`MaxLocks`, `PictureQueue` and the sets `Events` and `Buttons` bound the environment,
never the handlers. `RoomLive` has a third connection so that a client whose
connection was cut twice must still get through; the teacher's buttons decide nothing
of it and are not pressed there. Two window goroutines are the old and the new one of
a hurried Show (`MaxRuns`). In StudentProgram two loops are the old and the new one of
a Start that overtakes a Stop, two readers those of two sockets, two connections the
one in use and the one that is lingering; one address that answers and one that does
not let the cached one go stale; the lock frame is left to the theorems, which allow
every frame. In TeacherDesk two hours of retention and two days let a directory be
reused, expire while it is in use, and expire while the next day's stays. In
StudentGrid the student who joins twice is the one whose old tile can still be in a
frame; two names give both orders and equal names; two columns against up to two
tiles give full, partial and empty rows. Two Starts are the old and the new room. In
Messages two connections and two students let the picked student leave, come back on
the other connection, or give way to somebody else; one message is enough, because
`OnlyAddressee` relates a message to its own addressee (`MaxMessages`). For the safety
properties but `OnlyAddressee` the bounds do not matter in the end: each is stated by
a theorem of section 4, which holds for all values of these constants. `RoomSymmetry`
and the three operators `Symmetry` permute connections, students, loops and readers
and are used in runs of safety properties only.

Every run but `LockOverlay` sets `CHECK_DEADLOCK FALSE`: the system may really
stop. The connections, joins, pictures or Starts of an instance are used up, the
program has crashed, the clock stands at its last hour, and the teacher and the
students may do nothing for ever.

**Fairness.** `Registry!Fairness`: Go runs every goroutine that is not blocked.
The steps of a NAME, a decode, the deferred unregister and a removal's waking
have nothing to wait for. Nothing is assumed of arrivals, of `Leave` or of the
teacher. `ExamRoom!RoomFairness`: the run loop's dial, handshake and back-off are
all bounded in time (ten seconds, eight seconds), so the loop takes its next
step; the server accepts and answers a handshake that has arrived. Nothing is
assumed of the network, the teacher or the student. `ClientReconnects` lists the
ways out (`Hopeless`) explicitly. `LockOverlay!Fairness`: neither a call nor a
goroutine is held up, and the desktop eventually delivers the frame or the close
it owes, other events notwithstanding (strong fairness of `Draw` and `Destroy`:
an event of another kind takes the loop out of `Event` and back); it need not
deliver anything else, so a window that nobody wakes stays blocked in `Event`.
`TeacherDesk!FairSpec`: the reaper's ticker and goroutine run, and each directory
of a pass is looked at; not that a removal of a file this program holds open
succeeds, nor that the program stays up, nor that a handler finishes.
`ServerLifecycle!LifeFairness`: goroutines are scheduled, and `AcceptTCP` returns on
a listener that has been closed; on an open one it may wait for ever, for nobody need
dial.

## 4. Proofs

`tlapm` on each of the eight proof modules checks every theorem. They assume only
the named assumptions of the modules they are about:

* `RegistryAssumption`: a remote address is not a student id, null values are not
  members, acknowledgements are client states, the bound is a number;
* `RoomAssumption`: a student id is not one of the other frame kinds (the frame
  type tells them apart), the bounds are numbers;
* `OverlayAssumption`: there is a message, the bound is a number;
* `ProgramAssumption`: null values are not members, the addresses that answer and
  the ones that can be typed are addresses, the frames are the client's events;
* `DeskAssumption`: a day has a length, retention and clock are numbers;
* `GridAssumption`: numbers of students, pictures, names and columns;
* `LifecycleAssumption`: the bound on Starts is a number.

`MessageAssumption` (the null values and the addressee "everyone" are no students) is
that of the one component without theorems.

| Theorem | Statement |
|---|---|
| `TypeCorrect`, `EntriesLiveAlways`, `NewestKeepsTileAlways`, `TilesAccountedForAlways` | `Spec => []` the invariant of that name |
| `LogOrderAlways` | `Spec => LogOrder` |
| `DepartedAwaitRemovalAlways` | the tile of a student without connections has a removal that can and will take it |
| `RoomImplementsRegistry` | `RoomSpec => Spec` |
| `RoomTypeCorrect`, `NobodyAheadAlways`, `NoTileAheadOfClientAlways`, `OverlayAgreesAlways` | `RoomSpec => []` the invariant |
| `RoomKeepsPromiseAlways` | `RoomSpec => Promise!PromiseSpec` |
| `RoomKeepsRegistry` | `RoomSpec =>` the registry's invariants and `LogOrder`, through `RoomImplementsRegistry` |
| `PromiseTellsOnce`, `PromiseHeldOnce` | `PromiseSpec => ToldSpec`, with `told` mapped to a student's machine, and to the session |
| `PromiseNotAhead` | `PromiseSpec =>` no student begins or ends before the session |
| `RoomTellsOnce` | `RoomSpec => ToldSpec` for the session and for every student, through the promise |
| `OverlayTypeCorrect`, `VisibleIsServedAlways`, `SettlesAsWantedAlways` | `Spec => []` the invariant, `Spec` of LockOverlay |
| `StudentTypeCorrect`, `DashboardHasLoopAlways`, `LeftMeansHungUpAlways`, `NilNeedsOverlapAlways`, `DeadCacheIsDialledAlways` | `Spec => []` the invariant, `Spec` of StudentProgram |
| `SoleLoopHasSocketAlways` | `Spec =>` with one run loop, nobody ever uses a nil socket, the reader included |
| `ExamNotTakenBackAlways` | `Spec => Told!ToldSpec`, `Spec` of StudentProgram |
| `DeskTypeCorrect`, `OnlyStoppedExpireAlways`, `ViewsAreOnRecordAlways` | `Spec => []` the invariant, `Spec` of TeacherDesk |
| `RecordsFollowExamAlways`, `ReapedHadEndedAlways` | `Spec =>` the action property of that name |
| `GridTypeCorrect`, `DrawnBelongsAlways`, `SnapshotIsCurrentAlways` | `Spec => []` the invariant, `Spec` of StudentGrid |
| `RowsPartition` | each place of a snapshot is in exactly one row, for any length and columns |
| `RowsRebuild` | the rows of any list, put one after the other, are the list |
| `RowsShowAllAlways` | `Spec => []RowsShowAll` |
| `LifeTypeCorrect`, `OpenIsOwnedAlways`, `OpenRoomIsServedAlways`, `ClosedRoomLetsGoAlways` | `LifeSpec => []` the invariant |

*Registry.* None of the properties is inductive alone. `RegistryInv` adds how
stamps are handed out (`Stamps`: distinct, not after the clock), what a handler's
place says of its locals and its removal (`Phases`), that `activeConns` is not
behind a NAME being handled (`NamingActive`), and that an `activeConns` entry has
an owner which will account for its end (`ActiveOwned`). `ActiveOwned` is the
heart of `TilesAccountedFor`: a tile implies an entry (`TilesActive`), an entry
has an owner, and an owner that ends leaves a removal. `NewestKeepsTile` follows
from two facts: the newest connection of a student is the active one until it is
gone (`NewestActive`), and an active connection whose NAME is through has its
tile (`ActiveKeepsTile`). `TilesActive` needs `GraceOutlastsNaming` in the one
case where a removal with the active stamp meets a NAME of an older connection
still in progress. `LogOrder` follows from the agreement of the last record with
`activeConns` (`LogAgrees`) before a reopen.

*Room.* `RegistryStep` maps each room step to a registry step or a stutter, so
`RegistryInv` carries over. `RoomInv` adds who holds which socket and what a
connection that is not up, or not yet answered, carries (`Sockets`), what a
client has still to read (`Greeting`: nothing, then the reply, then commands
only), that broadcasts go to greeted connections (`Targets`, from `EntriesLive`),
and that no frame in flight is ahead of the session (`Frames`). The session only
moves on (`SessionAdvances`), so what may be believed or be in flight stays
allowed (`BeliefsKept`); a frame the session allows makes nothing of a client
that the session does not allow (`FrameBelievable`). From these follow
`NobodyAhead`, `OverlayAgrees` (by cases on `ClientApply`, `LockAgrees`) and, with
the same frames, the refinement of ExamPromise (`MachineFollows`).

`NoTileAheadOfClient` needs an invariant of its own, `BehindInv`, on top of
`RoomInv`. An acknowledgement says what its command asks for, whatever `Apply` made
of the command, and it is recorded by student id, on whichever connection holds the
entry; so the proof must know who is at the other end of each connection and what
that client can have sent. `Owner(c, s)` says it: the handler's id, if it has one,
and the socket are those of `s`; the frames on their way to the server report only
states the machine of `s` has reached (`Sayable`); and while that machine is Waiting
there is no UNLOCK in flight or about to be written to `c` (`Hearable`), the one
command whose acknowledgement would be untrue (`SaidReached`). The filter of
`BroadcastControl` is what keeps it so (`TargetsHear`): it sends UNLOCK to entries
that have acknowledged, and by the invariant itself their clients have begun. Each
connection gets its owner when it is dialled (`DialOwns`) and keeps it (`OwnerKept`);
that the entry an acknowledgement moves is of the same student (`AckReached`) comes
from `EntriesLive` and from `KeyIsOwn`, that a handler's key is its address or its id.

*Promise.* The three theorems about ExamPromise rest on the types and on `NotAhead`
alone: a step of `ClientApply` is a step of ExamTold or none (`ToldStep`), an edge
of the session is one too, and what is issued in a state never makes a machine
reach what the session has not. A chain of refinements is then
closed: ExamRoom implements Registry and ExamPromise, ExamPromise implements
ExamTold for each student, and StudentProgram implements ExamTold from its side.

*Overlay.* `OverlayInv` has two layers. `Books` holds always: what a call in
progress says of `wanted` and `visible`, that only stored goroutines are found or
closed, and that a window is up only while its goroutine takes events; with it
`VisibleIsServed` is inductive, since only the swap that raises `visible` starts
a goroutine and only a goroutine that is past serving lowers it. `CalmBooks`
holds while nothing was hurried or dismissed: one goroutine lives at most, it is
the last one started and `window` leads to it (`OneGoroutine`); `visible` follows
the calls, and a window that should go is closing or about to be
(`RaisedAsWanted`); a window that is up has, or will get, the last message
(`Shows`).

*Student's program.* `DashboardHasLoop` is inductive with the types: a loop ends
only at its head, and only when `isRunning` has fallen. `LeftMeansHungUp` follows
from `OpenIsUsed`: an open socket that `Client` holds has a loop at one of the
places from which it will close it, whichever loop that is and whichever dialed.
`SoleLoopHasSocket` needs that a loop which is resolving, dialing or greeting is
not connected (`SoleLoopSearches`), true of a single loop because the head of the
loop lowers `isConnected` and only its own handshake raises it: so a failed dial
puts nil only where nobody reads it. `NilNeedsOverlap` is inductive for any number
of loops, since nil reaches a loop that uses a socket only from another loop's
failed dial, and that loop ends only after a Stop. Together they say that the
panics `SocketGone` and `ReaderSocketGone` are the price of overlapping loops.
`DeadCacheIsDialled` is inductive too: whoever stores an address has it in hand, and
lets go of a dead one only in the failed dial that clears the cache.
The refinement of ExamTold needs `EndedIsStopped`: the ended flag, and a reader in
the middle of EXAM_STOP, imply a machine that is Stopped, and a Stopped machine
stays so; EXAM_START lowers the flag before it applies, which the machine hides.

*Desk.* `OnlyStoppedExpire` needs what is still queued: a retention to be written has
the exam's end on record already, or earlier in the queue, or its directory is gone
(`UntilFollowsStop`). `ReapedHadEnded` needs besides that a directory already taken
for expired keeps a retention until it is removed (`DoomedExpires`): between the look
and the removal an exam of the same name can start over in it, and a later retention
can be written, but none is taken back, so that by `OnlyStoppedExpire` its log holds
the end; and only the reaper removes a directory (`OnlyRemoved`). `RecordsFollowExam`
needs that the last record fits the machine whenever no lifecycle record is queued,
and that a queued one comes first and fits too (`RecordInv`). `ViewsAreOnRecord`
needs the same of the last viewer record, written or queued (`ViewInv`).

*Grid.* The types need where the UI thread stands: at a place of a row of the frame
(`InFrame`), on the arithmetic of `ItemCount` (`ItemCountBounds`), and that an
operation made is of that tile (`MadeFits`). `DrawnBelongs` then follows from
`CacheAgrees`: the picture and the time of a cached operation are of one join.
`SnapshotIsCurrent` is the invariant `SortInv`: whatever changes the tiles, their
names or the order also asks for a sort. `RowsShowAll` speaks of `FlattenSeq`, a
recursive function. `RowsMeet` says that each row begins where the one before it
ended and that the last ends with the last tile, so that "the first `i` rows joined"
satisfies the equations of that function (`Joins`); `FlattenIs` shows that they
determine it: two solutions cannot first differ anywhere. That there is a first
place (`LeastIndex`) comes from the well-foundedness of strict inclusion on the
initial segments of `1 .. n`, because the library's induction theorems take an
operator as a parameter, which the installed provers cannot instantiate.

*Lifecycle.* `OpenIsOwned` needs that a Start that has not happened has no
goroutines (`StartedOnly`). `RoomsApart` says what holds as long as no Start overtook
the listen of another: only the last room has a listener, ahead of it or open, and
the field `s.listener` holds it once it is stored; `ClosedRoomLetsGo` is a
consequence. With it `OpenRoomIsServed` is inductive: only Start raises the flag, and
it brings its goroutines with it; they end only when they read the flag down, which
under an open room only a failed listen can bring about. It is the safety half of
`OpenRoomAccepts`, as `ClosedRoomLetsGo` is of `QuietAfterStop`.

The inductive invariants were model-checked before they were proved.

## 5. Only model-checked

`DepartedLeaveDashboard`, `ClientReconnects`, `HideTakesEffect`, `ExpiredAreRemoved`,
`QuietAfterStop` and `OpenRoomAccepts` are liveness properties under fairness: proofs
about `ENABLED` and fairness are out of the prover's reach and stay with TLC. What
each of them leaves to fairness is proved where it has a safety half of its own:
`DepartedAwaitRemovalAlways` for the first, `SettlesAsWantedAlways` for
`HideTakesEffect`, `OpenIsOwnedAlways` and `ClosedRoomLetsGoAlways` for
`QuietAfterStop` and `OpenRoomIsServedAlways` for `OpenRoomAccepts`. `OnlyAddressee` is
a safety property that has no proof yet. The refuted statements need none: a trace
refutes them.

## 6. What the models show beside the properties

The two refuted statements of section 3 have a run each. What follows was found while
the properties were stated, and the properties are worded so that they say what does
hold. The first group contradicts a document or a comment of the repository.

* *The overlay after a stop* (`client.go:508`). The design (line 437) says of an
  EXAM_STOP that meets a Locked client: "Tear down lock overlay". Join, start, lock,
  stop: the machine stops, `onExamStop` sets the ended flag, nothing calls `Hide`.
  `OverlayAgrees` ends at the stop for this reason.
* *Joining after the stop* (`server.go:501`). The design (line 393): "After Stop, the
  token is invalidated". Start, stop, and a client dials: `performHandshake` looks at
  the session's presence and the token only, and the client is registered. It is told
  Started=false and never captures (`NobodyAhead`).
* *A running exam whose log can expire* (`main.go:106`). `reaper.go:20-21` says that
  "an exam still in progress won't have it", a retention. An exam is stopped, its room
  closed, and one of the same name opened on the same day: it runs in the directory of
  the first, with the retention of the first, and a pass after that date removes its
  log if no open file is in the way. `OnlyStoppedExpire`, `ReapedHadEnded` and
  `ExpiredAreRemoved` speak of a directory: the end they require may be that of the
  earlier exam, and the last demands rather than forbids this removal.
* *LOCK right behind UNLOCK* (`overlay.go:76`). `overlay.go:32`: "Show makes the overlay
  visible". Show, Hide, Show: the first window's goroutine gets its `DestroyEvent` last
  and lowers the `visible` of the second Show, whose goroutine then closes its own
  window. `SettlesAsWanted` excludes the call by `hurried`.
* *Two tiles clicked before one frame* (`dashboard.go:161`). The plan of phase 1 (line
  3632) wants a record "when an enlarged view opens, and a paired event when it
  closes": `ViewTwo` writes two openings and there will be one closing.
  `ViewsAreOnRecord` is about the last record.
* *Who a message was delivered to* (`dashboard.go:647`). The requirements (line 124)
  record `delivered_to` "so disputes can be audited"; `sendMessage` reads the keys
  registered after the broadcast, or takes the addressee whether or not it was found:
  a student can be on the list who was sent nothing. Messages leaves the record out.
* *A second message within five seconds* (`toast.go:30`). The design (line 166) has
  toasts "Queued if multiple"; `ToastState` holds one, and `Receive` overwrites it.
* *The order of an export* (`eventlog.go:107`). `All` promises "every event ordered by
  timestamp ascending" (line 103) and sorts by the text of an RFC3339Nano time, which
  drops trailing zeros: .12Z comes before .1Z. The models keep the order of writing.

The second group contradicts nobody, but a reader may not expect it.

* *A listener can be stranded* (`server.go:458`). Start, Stop before its goroutine has
  listened, Start on another port: the first goroutine finds the flag up again and
  listens too; `s.listener` holds whichever was stored last, Stop closes that one, and
  the other goroutine waits in `AcceptTCP`, its port taken, until somebody happens to
  dial it. `QuietAfterStop` and `ClosedRoomLetsGo` name the case (`overtaken`). A
  quick Stop and Start on a listener already stored has the milder effect that the old
  goroutine spins on its closed listener until the flag falls again.
* *Sockets of overlapping run loops* (`client.go:208`). A loop that dials overwrites
  `client.socket`; the connection of another loop that was there is closed by nobody
  until it is collected. `LeftMeansHungUp` speaks of the socket the client still
  holds.
* *The reader ends in a quiet exam* (`client.go:471`). Join, then thirty seconds
  without a command: `readControlFrames`, "a long-running goroutine" by its
  comment, returns while pictures keep flowing, and nothing starts it again while
  the connection lasts.
* *A room opened again keeps its session* (`home.go:45`). After a stopped exam the
  next room opens Stopped, while `session.go:5-7` speaks of a new `ExamSession`
  for a fresh exam.
* *An ended exam can be kept for ever* (`dashboard.go:423`, `dashboard.go:198`). A
  crash between the record of the stop and the retention, or a room closed without
  stopping its exam, leaves a log without retention.
* *Frames after the end* (`client/dashboard.go:400`). "Your screen is no longer
  being captured" is shown while the run loop goes on capturing and sending; the
  server drops the pictures.
* *Two captures at once* (`capture.go:17-19`). Two overlapping run loops share one
  capturer, which the interface's comment reserves for one goroutine.
* *The second room's mDNS registration is never cancelled* (`server.go:461`).
* *The old broadcaster announces the old port* after a quick Stop and Start, until
  the flag falls again (`server.go:439`).
* *A failed listen of an earlier Start closes a later room's loop*
  (`server.go:241`): it lowers the flag both share.
* *A picture can be drawn under a later time* (`image_cache.go:36`) and stay until
  the next one arrives; it is always the tile's own (`DrawnBelongs`).

## 7. Not modelled, and why

* *What a message or an exported file says, and in which order*: data, and formatting.
* *Equal names in descending order* (`student_manager.go:98`): the comparator says
  "less" both ways; StudentGrid takes the sort to give some list in the chosen order.
* *Validation of the join form, its memory and its connectivity test*: independent
  checks of texts, one file, and a label behind a mutex.
* *Updater and diagnostics*: one query at start; log files.
* *Drawing, screen capture and clipboard back ends, HTTP and mDNS traffic*: I/O
  around the state modelled here. The places where they can fail are choices of
  the models (a failed capture, a lost connection, a failed dial, a registration
  that fails).

What could still be added: ExamRoom's client as an abstraction of StudentProgram
(one loop, one reader) with the refinement checked, so that the two sides of the
connection meet in one proof and not only in ExamTold; that the retries of
StudentProgram get through in the end, under the fairness of the network;
`OnlyAddressee` as a theorem, from the registry's `KeyIsOwn`; the rows of the log with
their times, and who a message is recorded as delivered to.

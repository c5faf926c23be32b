----------------------------- MODULE TeacherDesk -----------------------------
(***************************************************************************)
(* The teacher's program: home screen, dashboard, dialogs and viewer       *)
(* (server/home.go, dashboard.go), the event logs they write               *)
(* (server/eventlog) and the reaper that deletes old ones, over crashes    *)
(* and restarts.  The UI thread runs one click handler at a time; what a   *)
(* handler writes to disk is queued in todo, so that a crash, the reaper   *)
(* and the students can fall between two writes.                           *)
(*                                                                         *)
(* An exam directory is named by the UTC day and the exam's name, and is   *)
(* reused by the next exam of that name on that day.  Of a log only what   *)
(* the properties ask for is kept: whether it holds the exam's end, and    *)
(* its retention.                                                          *)
(* The network side (broadcasts, handlers) is ExamRoom's.                  *)
(***************************************************************************)
EXTENDS SessionStates, Integers, Sequences, FiniteSets

CONSTANTS
  Name,           \* exam names the teacher may type
  Student, NoStudent,
  DayLength,      \* hours in a day, on the model's clock
  Keep,           \* hours between a stop and the end of the retention
  LastHour        \* bound: the clock stops here

ASSUME DeskAssumption ==
  /\ DayLength \in Nat \ {0} /\ Keep \in Nat /\ LastHour \in Nat
  /\ NoStudent \notin Student

VARIABLES
  up,          \* the program runs
  now,         \* the clock, in hours
  screen,      \* AppState.currentScreen
  machine,     \* the session's state; one ExamSession per run of the program
  viewer,      \* viewerStudentID while viewerOpen
  lockDialog,  \* the "Lock all" dialog is open
  log,         \* the directory behind Server.EventLog
  todo,        \* what the running handler has still to write
  exists,      \* exam directories on disk
  ended,       \* directories whose log holds an exam_stopped record
  retention,   \* retention_until_utc in each directory
  held,        \* directories whose log this program has opened: never closed
  said,        \* the last lifecycle record this program wrote
  lastView,    \* the last viewer record this program wrote
  pass,        \* directories the reaper's pass has still to look at
  since,       \* the time that pass goes by: it reads the clock once
  doomed       \* the directory it has found expired and is about to remove

uiVars   == <<screen, machine, viewer, lockDialog, log, todo>>
diskVars == <<exists, ended, retention>>
saidVars == <<said, lastView>>
reapVars == <<pass, since, doomed>>
vars == <<up, now, uiVars, diskVars, held, saidVars, reapVars>>

Hour == 0 .. LastHour + Keep
Forever == -1
Dir == Name \X (0 .. LastHour \div DayLength)
NoDir == <<>>
Life == {"created", "started", "locked", "released", "stopped"}
View == {"opened", "closed"}
Write == [kind : Life \cup View \cup {"until", "setlog"},
          who : Student \cup {NoStudent}, dir : Dir, at : 0 .. LastHour]

\* Seeded fault: a zone ahead of UTC.
DirOf_NextDay(name) == <<name, (now + DayLength) \div DayLength>>

\* The UTC day and the exam's name.
DirOf(name) == <<name, now \div DayLength>>

TypeOK ==
  /\ up \in BOOLEAN /\ now \in 0 .. LastHour
  /\ screen \in {"home", "dashboard"}
  /\ machine \in ServerState \ {"idle"}
  /\ viewer \in Student \cup {NoStudent}
  /\ lockDialog \in BOOLEAN
  /\ log \in Dir \cup {NoDir}
  /\ todo \in Seq(Write)
  /\ exists \subseteq Dir /\ ended \subseteq Dir /\ held \subseteq Dir
  /\ retention \in [Dir -> Hour \cup {Forever}]
  /\ said \in Life \cup {"nothing"}
  /\ lastView \in [kind : View \cup {"nothing"}, who : Student \cup {NoStudent}]
  /\ pass \subseteq Dir /\ since \in 0 .. LastHour
  /\ doomed \in Dir \cup {NoDir}

\* NewExamSession, NewHomeState, NewDashboardState and NewServer; the reaper
\* starts a pass at once.
Started(dirs) ==
  /\ screen = "home" /\ machine = "waiting"
  /\ viewer = NoStudent /\ lockDialog = FALSE
  /\ log = NoDir /\ todo = <<>>
  /\ held = {}
  /\ said = "nothing" /\ lastView = [kind |-> "nothing", who |-> NoStudent]
  /\ pass = dirs /\ since = 0 /\ doomed = NoDir

Init ==
  /\ up = TRUE /\ now = 0
  /\ exists = {} /\ ended = {}
  /\ retention = [d \in Dir |-> Forever]
  /\ Started({})

Idle == up /\ todo = <<>>
OnDashboard == Idle /\ screen = "dashboard"

\* A handler takes the times it will write before its first write.
Writing(kind, who, dir) == [kind |-> kind, who |-> who, dir |-> dir, at |-> now]

\* Records for the current event log; without a log they are skipped.
ToLog(kinds) ==
  IF log = NoDir THEN <<>> ELSE [i \in DOMAIN kinds |-> Writing(kinds[i], NoStudent, log)]
ViewToLog(kind, who) ==
  IF log = NoDir THEN <<>> ELSE <<Writing(kind, who, log)>>

Others == <<up, now, diskVars, held, saidVars, reapVars>>
-----------------------------------------------------------------------------
(* The home screen. *)

\* handleSubmit and its OnClick: the one session is renamed, the directory of
\* the day is made or reused, a log is opened in it and becomes current.
OpenRoom(name) ==
  /\ Idle /\ screen = "home"
  /\ screen' = "dashboard"
  /\ todo' = <<Writing("created", NoStudent, DirOf(name)),
               Writing("setlog", NoStudent, DirOf(name))>>
  /\ exists' = exists \cup {DirOf(name)}
  /\ held' = held \cup {DirOf(name)}
  /\ UNCHANGED <<up, now, machine, viewer, lockDialog, log, ended, retention,
                 saidVars, reapVars>>

\* MkdirAll or Open fails: the room opens all the same, on the log it had.
OpenRoomWithoutLog ==
  /\ Idle /\ screen = "home"
  /\ screen' = "dashboard"
  /\ UNCHANGED <<machine, viewer, lockDialog, log, todo, Others>>

-----------------------------------------------------------------------------
(* The dashboard's buttons, tiles and viewer. *)

\* A record that a viewer on s is closed.
Closing(s) == IF s = NoStudent THEN <<>> ELSE ViewToLog("closed", s)

\* Seeded fault: BtnStop closes the viewer without a record.
CloseRoom_ForgetViewer ==
  /\ OnDashboard
  /\ screen' = "home"
  /\ viewer' = NoStudent
  /\ UNCHANGED <<machine, lockDialog, log, todo, Others>>

\* BtnStop: Server.Stop and the home screen, the viewer's close record, no
\* tiles.  Dialogs, session and log stay as they are.
CloseRoom ==
  /\ OnDashboard
  /\ screen' = "home"
  /\ todo' = Closing(viewer)
  /\ viewer' = NoStudent
  /\ UNCHANGED <<machine, lockDialog, log, Others>>

\* A tile is clicked (which students have one is Registry's); of two clicks in
\* one frame the second view wins.
ViewStudent(s) ==
  /\ OnDashboard
  /\ viewer = NoStudent
  /\ viewer' = s
  /\ todo' = ViewToLog("opened", s)
  /\ UNCHANGED <<screen, machine, lockDialog, log, Others>>

ViewTwo(s, t) ==
  /\ OnDashboard
  /\ viewer = NoStudent
  /\ s # t
  /\ viewer' = t
  /\ todo' = ViewToLog("opened", s) \o ViewToLog("opened", t)
  /\ UNCHANGED <<screen, machine, lockDialog, log, Others>>

\* BtnViewerClose, or the frame that misses the viewed student.
CloseViewer ==
  /\ OnDashboard
  /\ viewer # NoStudent
  /\ viewer' = NoStudent
  /\ todo' = Closing(viewer)
  /\ UNCHANGED <<screen, machine, lockDialog, log, Others>>

\* The top bar and the dialogs are drawn, and their clicks taken, only while
\* no viewer is open.
AtTopBar == OnDashboard /\ viewer = NoStudent

StartExam ==
  /\ AtTopBar /\ machine = "waiting"
  /\ machine' = "capturing"
  /\ todo' = ToLog(<<"started">>)
  /\ UNCHANGED <<screen, viewer, lockDialog, log, Others>>

\* Seeded fault: the metadata is written before the record.
StopExam_MetaFirst ==
  /\ AtTopBar /\ machine \in {"capturing", "locked"}
  /\ machine' = "stopped"
  /\ todo' = ToLog(<<"until", "stopped">>)
  /\ UNCHANGED <<screen, viewer, lockDialog, log, Others>>

StopExam ==
  /\ AtTopBar /\ machine \in {"capturing", "locked"}
  /\ machine' = "stopped"
  /\ todo' = ToLog(<<"stopped", "until">>)
  /\ UNCHANGED <<screen, viewer, lockDialog, log, Others>>

UnlockExam ==
  /\ AtTopBar /\ machine = "locked"
  /\ machine' = "capturing"
  /\ todo' = ToLog(<<"released">>)
  /\ UNCHANGED <<screen, viewer, lockDialog, log, Others>>

\* "Lock All" is drawn, and opens its dialog, only while Capturing.
OpenLockDialog ==
  /\ AtTopBar /\ machine = "capturing"
  /\ lockDialog' = TRUE
  /\ UNCHANGED <<screen, machine, viewer, log, todo, Others>>

CancelLock ==
  /\ AtTopBar /\ lockDialog
  /\ lockDialog' = FALSE
  /\ UNCHANGED <<screen, machine, viewer, log, todo, Others>>

\* Seeded fault: lockAll goes on after a refused transition.
ConfirmLock_IgnoreRefusal ==
  /\ AtTopBar /\ lockDialog
  /\ lockDialog' = FALSE
  /\ machine' = IF machine = "capturing" THEN "locked" ELSE machine
  /\ todo' = ToLog(<<"locked">>)
  /\ UNCHANGED <<screen, viewer, log, Others>>

\* lockAll: a dialog left open since Capturing may find another state, and
\* then nothing is locked or recorded.
ConfirmLock ==
  /\ AtTopBar /\ lockDialog
  /\ lockDialog' = FALSE
  /\ IF <<machine, "lock", "locked">> \in ServerEdge
     THEN machine' = "locked" /\ todo' = ToLog(<<"locked">>)
     ELSE UNCHANGED <<machine, todo>>
  /\ UNCHANGED <<screen, viewer, log, Others>>

-----------------------------------------------------------------------------
(* The writes of the running handler. *)

\* A file that was unlinked takes the write and keeps nothing.  The retention
\* counts from the stop, not from the write.
DoWrite ==
  /\ up /\ todo # <<>>
  /\ LET w == Head(todo).kind
         d == Head(todo).dir
     IN /\ ended' = IF w = "stopped" THEN ended \cup ({d} \cap exists) ELSE ended
        /\ retention' = IF w = "until" /\ d \in exists
                        THEN [retention EXCEPT ![d] = Head(todo).at + Keep] ELSE retention
        /\ said' = IF w \in Life \ {"created"} THEN w ELSE said
        /\ lastView' = IF w \in View THEN [kind |-> w, who |-> Head(todo).who] ELSE lastView
        /\ log' = IF w = "setlog" THEN d ELSE log
  /\ todo' = Tail(todo)
  /\ UNCHANGED <<up, now, screen, machine, viewer, lockDialog, exists, held, reapVars>>

-----------------------------------------------------------------------------
(* The reaper. *)

\* Seeded fault: the reaper runs once, when the program starts.
StartPass_OnlyOnce == FALSE

\* RunReaper: every tick of the interval starts a pass.
StartPass ==
  /\ up /\ pass = {} /\ doomed = NoDir
  /\ pass' = exists /\ since' = now
  /\ exists # {}
  /\ UNCHANGED <<up, now, uiVars, diskVars, held, saidVars, doomed>>

\* Seeded fault: a directory without the key has no time to wait for.
Look_NoKey(d) ==
  /\ up /\ doomed = NoDir /\ d \in pass
  /\ pass' = pass \ {d}
  /\ doomed' = IF d \in exists /\ since >= retention[d] THEN d ELSE NoDir
  /\ UNCHANGED <<up, now, uiVars, diskVars, held, saidVars, since>>

\* readRetentionUntil: without the key, or before its time, the directory stays.
Look(d) ==
  /\ up /\ doomed = NoDir /\ d \in pass
  /\ pass' = pass \ {d}
  /\ doomed' = IF d \in exists /\ retention[d] # Forever /\ since >= retention[d]
               THEN d ELSE NoDir
  /\ UNCHANGED <<up, now, uiVars, diskVars, held, saidVars, since>>

\* RemoveAll: with the directory goes the log in it, open or not.
Remove ==
  /\ up /\ doomed # NoDir
  /\ exists' = exists \ {doomed}
  /\ ended' = ended \ {doomed}
  /\ retention' = [retention EXCEPT ![doomed] = Forever]
  /\ doomed' = NoDir
  /\ UNCHANGED <<up, now, uiVars, held, saidVars, pass, since>>

\* An open file cannot be removed everywhere: the next pass tries again.
RemoveFails ==
  /\ up /\ doomed \in held
  /\ doomed' = NoDir
  /\ UNCHANGED <<up, now, uiVars, diskVars, held, saidVars, pass, since>>

-----------------------------------------------------------------------------
(* The surroundings. *)

Tick ==
  /\ now < LastHour
  /\ now' = now + 1
  /\ UNCHANGED <<up, uiVars, diskVars, held, saidVars, reapVars>>

\* The window is closed, or the program dies: the disk stays as it is.
Crash ==
  /\ up
  /\ up' = FALSE
  /\ screen' = "home" /\ machine' = "waiting"
  /\ viewer' = NoStudent /\ lockDialog' = FALSE
  /\ log' = NoDir /\ todo' = <<>> /\ held' = {}
  /\ said' = "nothing" /\ lastView' = [kind |-> "nothing", who |-> NoStudent]
  /\ pass' = {} /\ since' = 0 /\ doomed' = NoDir
  /\ UNCHANGED <<now, diskVars>>

Restart ==
  /\ ~up
  /\ up' = TRUE
  /\ pass' = exists /\ since' = now
  /\ UNCHANGED <<now, uiVars, diskVars, held, saidVars, doomed>>

-----------------------------------------------------------------------------
Home == (\E n \in Name : OpenRoom(n)) \/ OpenRoomWithoutLog

Dashboard ==
  \/ CloseRoom \/ CloseViewer
  \/ \E s \in Student : ViewStudent(s) \/ \E t \in Student : ViewTwo(s, t)
  \/ StartExam \/ StopExam \/ UnlockExam
  \/ OpenLockDialog \/ CancelLock \/ ConfirmLock

Reaper == StartPass \/ (\E d \in Dir : Look(d)) \/ Remove \/ RemoveFails

Next ==
  \/ Home \/ Dashboard \/ DoWrite \/ Reaper
  \/ Tick \/ Crash \/ Restart

Spec == Init /\ [][Next]_vars

(***************************************************************************)
(* The reaper's goroutine and its ticker run; a removal of a file nobody   *)
(* holds open succeeds.  Nothing is assumed of the teacher, and the        *)
(* program need not stay up.                                               *)
(***************************************************************************)
FairSpec == Spec /\ WF_vars(Reaper) /\ \A d \in Dir : WF_vars(Look(d))
-----------------------------------------------------------------------------
(* Properties. *)

\* The viewer audit (dashboard.go, recordViewerClose and its three callers):
\* while a student is viewed the last viewer record is the opening of that
\* view, and when nobody is viewed it is a closing.
ViewsAreOnRecord ==
  Idle /\ log # NoDir =>
    IF viewer = NoStudent
    THEN lastView.kind # "opened"
    ELSE lastView = [kind |-> "opened", who |-> viewer]

\* The lifecycle records of one run of the program, over every log it opens,
\* are those of one exam, perhaps without its beginning when the first room
\* had no log (dashboard.go, startExam to unlockExam): dialogs left open over a
\* stop or a closed room write nothing out of turn.
RecordsFollowExam ==
  [][ said' # said /\ {said, said'} \subseteq Life =>
        <<said, said'>> \in
          {<<"started", "locked">>, <<"released", "locked">>, <<"locked", "released">>}
          \cup {"started", "locked", "released"} \X {"stopped"} ]_vars

\* A directory has a retention only when its log holds the end of an exam,
\* whatever crash came between the two writes (dashboard.go, stopExam): an exam
\* that was cut short before its end leaves its log for good.  The end may be
\* that of an earlier exam of the same name and day: the log of a running exam
\* can expire, and this does not say otherwise.
OnlyStoppedExpire ==
  \A d \in Dir : retention[d] # Forever => d \in ended

\* A directory goes only with the end of an exam on record, its last or an
\* earlier one, whatever was written, crashed or restarted between the reaper's
\* look at its retention and the removal (reaper.go, ReapOnce and
\* readRetentionUntil).
ReapedHadEnded == [][ exists \ exists' \subseteq ended ]_vars

\* A log past its retention is removed, unless this program, holding the file
\* open, is in the way, or ends (reaper.go, RunReaper and ReapOnce).
ExpiredAreRemoved ==
  \A d \in Dir :
    (retention[d] # Forever /\ now >= retention[d])
      ~> (d \notin exists \/ d \in held \/ ~up \/ now < retention[d])
=============================================================================

----------------------------- MODULE DeskProofs -----------------------------
(***************************************************************************)
(* Proofs about the teacher's desk, for any exam names, students, lengths  *)
(* of the day and of the retention, and for as long as the clock runs.     *)
(***************************************************************************)
EXTENDS TeacherDesk, TLAPS

(* The queue of writes: what a handler leaves there.                       *)
LEMMA ToLogOne ==
  ASSUME NEW k
  PROVE  ToLog(<<k>>) = IF log = NoDir THEN <<>> ELSE <<Writing(k, NoStudent, log)>>
  BY DEF ToLog

LEMMA ToLogTwo ==
  ASSUME NEW k, NEW m
  PROVE  ToLog(<<k, m>>) = IF log = NoDir THEN <<>>
           ELSE <<Writing(k, NoStudent, log), Writing(m, NoStudent, log)>>
  BY DEF ToLog

LEMMA NoDirIsNone == NoDir \notin Dir
  BY DEF NoDir, Dir

LEMMA Days ==
  ASSUME NEW h \in 0 .. LastHour
  PROVE  h \div DayLength \in 0 .. LastHour \div DayLength
  BY DeskAssumption

LEMMA WritingType ==
  ASSUME now \in 0 .. LastHour,
         NEW k \in Life \cup View \cup {"until", "setlog"},
         NEW s \in Student \cup {NoStudent}, NEW d \in Dir
  PROVE  Writing(k, s, d) \in Write
  BY DEF Writing, Write

LEMMA ToLogType ==
  ASSUME now \in 0 .. LastHour, log \in Dir \cup {NoDir},
         NEW k \in Life \cup {"until"}, NEW m \in Life \cup {"until"}
  PROVE  ToLog(<<k>>) \in Seq(Write) /\ ToLog(<<k, m>>) \in Seq(Write)
<1>0. /\ ToLog(<<k>>) = IF log = NoDir THEN <<>> ELSE <<Writing(k, NoStudent, log)>>
      /\ ToLog(<<k, m>>) = IF log = NoDir THEN <<>>
           ELSE <<Writing(k, NoStudent, log), Writing(m, NoStudent, log)>>
  BY ToLogOne, ToLogTwo, Zenon
<1>1. CASE log = NoDir
  BY <1>0, <1>1
<1>2. CASE log # NoDir
  <2>1. Writing(k, NoStudent, log) \in Write /\ Writing(m, NoStudent, log) \in Write
    BY <1>2, WritingType
  <2>2. QED
    <3>1. <<Writing(k, NoStudent, log)>> \in Seq(Write)
      BY <2>1
    <3>2. <<Writing(k, NoStudent, log), Writing(m, NoStudent, log)>> \in Seq(Write)
      BY <2>1
    <3>3. QED
      BY <1>0, <1>2, <3>1, <3>2, Zenon
<1>3. QED
  BY <1>1, <1>2

LEMMA ViewToLogType ==
  ASSUME now \in 0 .. LastHour, log \in Dir \cup {NoDir}, NEW k \in View, NEW s \in Student
  PROVE  ViewToLog(k, s) \in Seq(Write)
  BY WritingType DEF ViewToLog

LEMMA ClosingType ==
  ASSUME now \in 0 .. LastHour, log \in Dir \cup {NoDir}, NEW s \in Student \cup {NoStudent}
  PROVE  Closing(s) \in Seq(Write)
  BY ViewToLogType DEF Closing, View

LEMMA DirOfType == TypeOK => \A n \in Name : DirOf(n) \in Dir
  BY Days DEF TypeOK, DirOf, Dir

-----------------------------------------------------------------------------
(* Type correctness.                                                       *)

LEMMA TypeInit == Init => TypeOK
<1> SUFFICES ASSUME Init PROVE TypeOK
  OBVIOUS
<1>1. retention \in [Dir -> Hour \cup {Forever}]
  BY DEF Init
<1>2. exists \subseteq Dir /\ ended \subseteq Dir /\ held \subseteq Dir /\ pass \subseteq Dir
  BY DEF Init, Started
<1>3. lastView \in [kind : View \cup {"nothing"}, who : Student \cup {NoStudent}]
  BY DEF Init, Started
<1>4. /\ up \in BOOLEAN /\ now \in 0 .. LastHour /\ since \in 0 .. LastHour
      /\ todo \in Seq(Write)
  BY DeskAssumption DEF Init, Started
<1>5. QED
  BY <1>1, <1>2, <1>3, <1>4 DEF Init, Started, TypeOK, ServerState

LEMMA CrashType == TypeOK /\ Crash => TypeOK'
<1> SUFFICES ASSUME TypeOK, Crash PROVE TypeOK'
  OBVIOUS
<1>1. lastView' \in [kind : View \cup {"nothing"}, who : Student \cup {NoStudent}]
  BY DEF Crash
<1>2. up' \in BOOLEAN /\ lockDialog' \in BOOLEAN /\ held' \subseteq Dir /\ pass' \subseteq Dir
  BY DEF Crash
<1>3. /\ screen' \in {"home", "dashboard"} /\ machine' \in ServerState \ {"idle"}
      /\ viewer' \in Student \cup {NoStudent} /\ log' \in Dir \cup {NoDir}
      /\ doomed' \in Dir \cup {NoDir} /\ said' \in Life \cup {"nothing"}
  BY DEF Crash, ServerState
<1>4. UNCHANGED <<now, exists, ended, retention>>
  BY DEF Crash, diskVars
<1>5. todo' \in Seq(Write) /\ since' \in 0 .. LastHour
  BY DeskAssumption DEF Crash
<1>6. QED
  BY <1>1, <1>2, <1>3, <1>4, <1>5 DEF TypeOK

LEMMA TypeStep == TypeOK /\ [Next]_vars => TypeOK'
<1> SUFFICES ASSUME TypeOK, [Next]_vars PROVE TypeOK'
  OBVIOUS
<1> USE DEF TypeOK, Others, uiVars, diskVars, saidVars, reapVars
<1>1. ASSUME NEW n \in Name, OpenRoom(n) PROVE TypeOK'
  <2>1. DirOf(n) \in Dir
    BY DirOfType
  <2>2. /\ Writing("created", NoStudent, DirOf(n)) \in Write
        /\ Writing("setlog", NoStudent, DirOf(n)) \in Write
    BY <2>1, WritingType DEF Life
  <2>3. todo' \in Seq(Write)
    BY <1>1, <2>2 DEF OpenRoom
  <2>4. QED
    BY <1>1, <2>1, <2>3 DEF OpenRoom
<1>2. CASE OpenRoomWithoutLog
  BY <1>2 DEF OpenRoomWithoutLog
<1>3. CASE CloseRoom
  BY <1>3, ClosingType DEF CloseRoom
<1>4. CASE CloseViewer
  BY <1>4, ClosingType DEF CloseViewer
<1>5. ASSUME NEW s \in Student, ViewStudent(s) PROVE TypeOK'
  BY <1>5, ViewToLogType DEF ViewStudent, View
<1>6. ASSUME NEW s \in Student, NEW t \in Student, ViewTwo(s, t) PROVE TypeOK'
  <2>1. ViewToLog("opened", s) \in Seq(Write) /\ ViewToLog("opened", t) \in Seq(Write)
    BY ViewToLogType DEF View
  <2>2. todo' \in Seq(Write)
    BY <1>6, <2>1 DEF ViewTwo
  <2>3. QED
    BY <1>6, <2>2 DEF ViewTwo
<1>7. CASE StartExam
  BY <1>7, ToLogType DEF StartExam, Life, ServerState
<1>8. CASE StopExam
  BY <1>8, ToLogType DEF StopExam, Life, ServerState
<1>9. CASE UnlockExam
  BY <1>9, ToLogType DEF UnlockExam, Life, ServerState
<1>10. CASE OpenLockDialog \/ CancelLock
  BY <1>10 DEF OpenLockDialog, CancelLock
<1>11. CASE ConfirmLock
  <2>1. ToLog(<<"locked">>) \in Seq(Write)
    BY ToLogType DEF Life
  <2>2. machine' \in ServerState \ {"idle"} /\ todo' \in Seq(Write)
    BY <1>11, <2>1 DEF ConfirmLock, ServerState
  <2>3. QED
    BY <1>11, <2>2 DEF ConfirmLock
<1>12. CASE DoWrite
  <2>1. Head(todo) \in Write /\ Tail(todo) \in Seq(Write)
    BY <1>12 DEF DoWrite
  <2>2. /\ Head(todo).kind \in Life \cup View \cup {"until", "setlog"}
        /\ Head(todo).who \in Student \cup {NoStudent} /\ Head(todo).dir \in Dir
        /\ Head(todo).at \in 0 .. LastHour
    BY <2>1 DEF Write
  <2>3. Head(todo).at + Keep \in Hour
    BY <2>2, DeskAssumption DEF Hour
  <2>4. ended' \subseteq Dir
    BY <1>12, <2>2 DEF DoWrite
  <2>5. retention' \in [Dir -> Hour \cup {Forever}]
    BY <1>12, <2>3 DEF DoWrite
  <2>6. said' \in Life \cup {"nothing"}
    BY <1>12 DEF DoWrite
  <2>7. lastView' \in [kind : View \cup {"nothing"}, who : Student \cup {NoStudent}]
    BY <1>12, <2>2 DEF DoWrite
  <2>8. log' \in Dir \cup {NoDir}
    BY <1>12, <2>2 DEF DoWrite
  <2>9. QED
    BY <1>12, <2>1, <2>4, <2>5, <2>6, <2>7, <2>8 DEF DoWrite
<1>13. CASE StartPass
  BY <1>13 DEF StartPass
<1>14. ASSUME NEW d \in Dir, Look(d) PROVE TypeOK'
  BY <1>14 DEF Look
<1>15. CASE Remove
  BY <1>15 DEF Remove
<1>16. CASE RemoveFails
  BY <1>16 DEF RemoveFails
<1>17. CASE Tick
  BY <1>17, DeskAssumption DEF Tick
<1>18. CASE Crash
  BY <1>18, CrashType
<1>19. CASE Restart
  BY <1>19 DEF Restart
<1>20. CASE UNCHANGED vars
  BY <1>20 DEF vars
<1> HIDE DEF TypeOK, Others, uiVars, diskVars, saidVars, reapVars
<1>21. QED
  BY <1>1, <1>2, <1>3, <1>4, <1>5, <1>6, <1>7, <1>8, <1>9, <1>10, <1>11, <1>12, <1>13,
     <1>14, <1>15, <1>16, <1>17, <1>18, <1>19, <1>20 DEF Next, Home, Dashboard, Reaper

(* Every variable of the desk keeps to its type.                           *)
THEOREM DeskTypeCorrect == Spec => []TypeOK
  BY TypeInit, TypeStep, PTL DEF Spec
-----------------------------------------------------------------------------
(* The retention of a log is set only after its end is recorded: every     *)
(* order of writes, crashes and removals.                                  *)

UntilFollowsStop ==
  \A i \in DOMAIN todo : todo[i].kind = "until" =>
    \/ todo[i].dir \in ended
    \/ todo[i].dir \notin exists
    \/ \E j \in 1 .. i - 1 : todo[j].kind = "stopped" /\ todo[j].dir = todo[i].dir

NoUntil(q) == \A i \in DOMAIN q : q[i].kind # "until"

LEMMA NoUntilInLog ==
  ASSUME NEW k, k # "until"
  PROVE  NoUntil(ToLog(<<k>>))
<1>1. ToLog(<<k>>) = IF log = NoDir THEN <<>> ELSE <<Writing(k, NoStudent, log)>>
  BY ToLogOne, Zenon
<1>2. QED
  BY <1>1 DEF NoUntil, Writing

LEMMA NoUntilInView ==
  ASSUME NEW k \in View, NEW s, NEW t
  PROVE  NoUntil(ViewToLog(k, s)) /\ NoUntil(Closing(s))
         /\ NoUntil(ViewToLog(k, s) \o ViewToLog(k, t))
  BY DEF NoUntil, ViewToLog, Closing, Writing, View

LEMMA StopStep ==
  TypeOK /\ OnlyStoppedExpire /\ UntilFollowsStop /\ [Next]_vars
    => OnlyStoppedExpire' /\ UntilFollowsStop'
<1> SUFFICES ASSUME TypeOK, OnlyStoppedExpire, UntilFollowsStop, [Next]_vars
             PROVE  OnlyStoppedExpire' /\ UntilFollowsStop'
  OBVIOUS
\* A handler begins: nothing is written yet, and what it will write says
\* nothing of a retention.
<1>1. ASSUME UNCHANGED <<ended, retention>>, NoUntil(todo')
      PROVE  OnlyStoppedExpire' /\ UntilFollowsStop'
  BY <1>1 DEF OnlyStoppedExpire, UntilFollowsStop, NoUntil
<1>2. ASSUME UNCHANGED <<ended, retention, exists, todo>>
      PROVE  OnlyStoppedExpire' /\ UntilFollowsStop'
  BY <1>2 DEF OnlyStoppedExpire, UntilFollowsStop
<1>3. CASE Home
  <2>1. NoUntil(todo')
    BY <1>3 DEF Home, OpenRoom, OpenRoomWithoutLog, Idle, Writing, NoUntil
  <2>2. UNCHANGED <<ended, retention>>
    BY <1>3 DEF Home, OpenRoom, OpenRoomWithoutLog, Others, diskVars
  <2>3. QED
    BY <2>1, <2>2, <1>1
<1>4. CASE StopExam
  <2>1. UNCHANGED <<ended, retention>>
    BY <1>4 DEF StopExam, Others, diskVars
  <2>2. todo' = IF log = NoDir THEN <<>>
                ELSE <<Writing("stopped", NoStudent, log), Writing("until", NoStudent, log)>>
    BY <1>4, ToLogTwo DEF StopExam
  <2>3. QED
    BY <2>1, <2>2 DEF OnlyStoppedExpire, UntilFollowsStop, Writing
<1>5. CASE Dashboard
  <2>1. CASE CloseRoom \/ CloseViewer
    BY <2>1, NoUntilInView, <1>1 DEF CloseRoom, CloseViewer, Others, diskVars, View
  <2>2. ASSUME NEW s \in Student, NEW t \in Student, ViewStudent(s) \/ ViewTwo(s, t)
        PROVE  OnlyStoppedExpire' /\ UntilFollowsStop'
    BY <2>2, NoUntilInView, <1>1 DEF ViewStudent, ViewTwo, Others, diskVars, View
  <2>3. CASE StartExam \/ UnlockExam
    BY <2>3, NoUntilInLog, <1>1 DEF StartExam, UnlockExam, Others, diskVars
  <2>4. CASE OpenLockDialog \/ CancelLock
    BY <2>4, <1>2 DEF OpenLockDialog, CancelLock, Others, diskVars
  <2>5. CASE ConfirmLock
    BY <2>5, NoUntilInLog, <1>1, <1>2 DEF ConfirmLock, Others, diskVars
  <2>6. QED
    BY <1>5, <2>1, <2>2, <2>3, <2>4, <2>5, <1>4 DEF Dashboard
<1>6. CASE DoWrite
  <2> DEFINE w == Head(todo)
  <2>0. todo # <<>> /\ todo \in Seq(Write) /\ todo' = Tail(todo) /\ exists' = exists
    BY <1>6 DEF DoWrite, TypeOK
  <2>1. w = todo[1] /\ w.dir \in Dir
    <3>1. w = todo[1] /\ w \in Write
      BY <2>0
    <3>2. QED
      BY <3>1 DEF Write
  <2>2. /\ w.kind # "until" => retention' = retention
        /\ w.kind = "until" => retention' = IF w.dir \in exists
                                 THEN [retention EXCEPT ![w.dir] = w.at + Keep] ELSE retention
        /\ ended' = IF w.kind = "stopped" THEN ended \cup ({w.dir} \cap exists) ELSE ended
    BY <1>6 DEF DoWrite
  <2>3. w.kind = "until" => w.dir \in ended \/ w.dir \notin exists
    BY <2>0, <2>1 DEF UntilFollowsStop
  <2>4. OnlyStoppedExpire'
    <3>1. ASSUME NEW d \in Dir, retention'[d] # Forever PROVE d \in ended'
      <4>1. retention[d] # Forever \/ (d = w.dir /\ w.kind = "until" /\ d \in exists)
        BY <2>0, <2>1, <2>2, <3>1 DEF TypeOK
      <4>2. QED
        BY <4>1, <2>2, <2>3 DEF OnlyStoppedExpire
    <3>2. QED
      BY <3>1 DEF OnlyStoppedExpire
  <2>5. UntilFollowsStop'
    <3> SUFFICES ASSUME NEW i \in DOMAIN todo', todo'[i].kind = "until"
                 PROVE  \/ todo'[i].dir \in ended'
                        \/ todo'[i].dir \notin exists'
                        \/ \E j \in 1 .. i - 1 : /\ todo'[j].kind = "stopped"
                                                 /\ todo'[j].dir = todo'[i].dir
      BY DEF UntilFollowsStop
    <3>1. /\ i \in Nat \ {0} /\ i + 1 \in DOMAIN todo /\ todo'[i] = todo[i + 1]
          /\ \A j \in 1 .. i : todo'[j] = todo[j + 1]
      BY <2>0, <2>1
    <3>2. CASE todo[i + 1].dir \in ended \/ todo[i + 1].dir \notin exists
      BY <3>1, <3>2, <2>0, <2>1, <2>2
    <3>3. CASE \E j \in 1 .. i : todo[j].kind = "stopped" /\ todo[j].dir = todo[i + 1].dir
      <4>1. PICK j \in 1 .. i : todo[j].kind = "stopped" /\ todo[j].dir = todo[i + 1].dir
        BY <3>3
      <4>2. CASE j = 1
        BY <4>1, <4>2, <3>1, <2>0, <2>1, <2>2
      <4>3. CASE j # 1
        <5>1. j - 1 \in 1 .. i - 1 /\ todo'[j - 1] = todo[j]
          BY <3>1, <4>3
        <5>2. QED
          BY <5>1, <4>1, <3>1
      <4>4. QED
        BY <4>2, <4>3
    <3>4. QED
      BY <3>1, <3>2, <3>3 DEF UntilFollowsStop
  <2>6. QED
    BY <2>4, <2>5
<1>7. CASE Remove
  <2>1. doomed \in Dir /\ todo' = todo
    BY <1>7 DEF Remove, TypeOK, uiVars
  <2>2. OnlyStoppedExpire'
    BY <1>7, <2>1 DEF Remove, OnlyStoppedExpire, TypeOK
  <2>3. UntilFollowsStop'
    BY <1>7, <2>1 DEF Remove, UntilFollowsStop
  <2>4. QED
    BY <2>2, <2>3
<1>8. CASE StartPass \/ (\E d \in Dir : Look(d)) \/ RemoveFails \/ Tick \/ Restart
           \/ UNCHANGED vars
  <2>1. UNCHANGED <<ended, retention, exists, todo>>
    BY <1>8 DEF StartPass, Look, RemoveFails, Tick, Restart, vars, uiVars, diskVars
  <2>2. QED
    BY <2>1, <1>2
<1>9. CASE Crash
  BY <1>9, <1>1 DEF Crash, diskVars, NoUntil
<1>10. QED
  BY <1>3, <1>5, <1>6, <1>7, <1>8, <1>9 DEF Next, Reaper

(* Only a directory whose log holds an exam's end, its last or an earlier  *)
(* one, has a retention, whatever crashed when.                            *)
THEOREM OnlyStoppedExpireAlways == Spec => []OnlyStoppedExpire
<1>1. Init => OnlyStoppedExpire /\ UntilFollowsStop
  BY DEF Init, Started, OnlyStoppedExpire, UntilFollowsStop
<1>2. QED
  BY <1>1, StopStep, DeskTypeCorrect, PTL DEF Spec

\* Between the reaper's look and the removal, nothing takes a retention back.
DoomedExpires == doomed # NoDir => retention[doomed] # Forever

LEMMA DoomedStep == TypeOK /\ DoomedExpires /\ [Next]_vars => DoomedExpires'
<1> SUFFICES ASSUME TypeOK, DoomedExpires, [Next]_vars PROVE DoomedExpires'
  OBVIOUS
<1>1. CASE UNCHANGED <<doomed, retention>>
  BY <1>1 DEF DoomedExpires
<1>2. CASE doomed' = NoDir
  BY <1>2 DEF DoomedExpires
<1>3. ASSUME NEW d \in Dir, Look(d) PROVE DoomedExpires'
  BY <1>3 DEF Look, DoomedExpires, diskVars
<1>4. CASE DoWrite
  <2>1. doomed' = doomed
    BY <1>4 DEF DoWrite, reapVars
  <2>2. \/ retention' = retention
        \/ retention' = [retention EXCEPT ![Head(todo).dir] = Head(todo).at + Keep]
    BY <1>4 DEF DoWrite
  <2>3. Head(todo).at + Keep # Forever
    <3>1. Head(todo) \in Write
      BY <1>4 DEF DoWrite, TypeOK
    <3>2. Head(todo).at \in 0 .. LastHour
      BY <3>1 DEF Write
    <3>3. QED
      BY <3>2, DeskAssumption DEF Forever
  <2>4. QED
    BY <2>1, <2>2, <2>3 DEF DoomedExpires, TypeOK
<1>5. \/ UNCHANGED <<doomed, retention>>
      \/ doomed' = NoDir
      \/ \E d \in Dir : Look(d)
      \/ DoWrite
  <2> USE DEF Others, uiVars, diskVars, saidVars, reapVars
  <2>1. CASE Home
    BY <2>1 DEF Home, OpenRoom, OpenRoomWithoutLog
  <2>2. CASE Dashboard
    BY <2>2 DEF Dashboard, CloseRoom, CloseViewer, ViewStudent, ViewTwo, StartExam, StopExam,
       UnlockExam, OpenLockDialog, CancelLock, ConfirmLock
  <2>3. CASE Reaper
    BY <2>3 DEF Reaper, StartPass, Remove, RemoveFails
  <2>4. CASE Tick \/ Crash \/ Restart \/ UNCHANGED vars
    BY <2>4 DEF Tick, Crash, Restart, vars
  <2>5. QED
    BY <2>1, <2>2, <2>3, <2>4 DEF Next
<1>6. QED
  BY <1>1, <1>2, <1>3, <1>4, <1>5

\* Nothing but the removal takes a directory away.
LEMMA OnlyRemoved == [Next]_vars => exists \subseteq exists' \/ Remove
<1> SUFFICES ASSUME [Next]_vars, ~(exists \subseteq exists') PROVE Remove
  OBVIOUS
<1> USE DEF Others, uiVars, diskVars, saidVars, reapVars
<1>1. ~Home
  BY DEF Home, OpenRoom, OpenRoomWithoutLog
<1>2. ~Dashboard
  BY DEF Dashboard, CloseRoom, CloseViewer, ViewStudent, ViewTwo, StartExam, StopExam,
     UnlockExam, OpenLockDialog, CancelLock, ConfirmLock
<1>3. ~(DoWrite \/ Tick \/ Crash \/ Restart \/ UNCHANGED vars)
  BY DEF DoWrite, Tick, Crash, Restart, vars
<1>4. ~(StartPass \/ (\E d \in Dir : Look(d)) \/ RemoveFails)
  BY DEF StartPass, Look, RemoveFails
<1>5. QED
  BY <1>1, <1>2, <1>3, <1>4 DEF Next, Reaper

(* The reaper takes no log without an exam's end in it, its last or an     *)
(* earlier one: what is found expired has the end on record, and keeps it  *)
(* until it is removed.                                                    *)
THEOREM ReapedHadEndedAlways == Spec => ReapedHadEnded
<1>1. Init => DoomedExpires
  BY DEF Init, Started, DoomedExpires
<1>2. TypeOK /\ OnlyStoppedExpire /\ DoomedExpires /\ [Next]_vars
        => [exists \ exists' \subseteq ended]_vars
  <2> SUFFICES ASSUME TypeOK, OnlyStoppedExpire, DoomedExpires, Remove
               PROVE  exists \ exists' \subseteq ended
    BY OnlyRemoved
  <2>1. exists' = exists \ {doomed} /\ doomed \in Dir
    BY DEF Remove, TypeOK
  <2>2. retention[doomed] # Forever
    BY DEF Remove, DoomedExpires
  <2>3. doomed \in ended
    BY <2>1, <2>2 DEF OnlyStoppedExpire
  <2>4. QED
    BY <2>1, <2>3
<1>3. QED
  BY <1>1, <1>2, DoomedStep, DeskTypeCorrect, OnlyStoppedExpireAlways, PTL
     DEF Spec, ReapedHadEnded
-----------------------------------------------------------------------------
(* The lifecycle records of one run of the program are those of one exam.  *)
(* Between handlers the last record fits the machine; a handler writes its *)
(* record before anything else.                                            *)

Spoken == Life \ {"created"}

Fits(st, record) ==
  <<st, record>> \in
    {<<"capturing", "started">>, <<"capturing", "released">>,
     <<"locked", "locked">>, <<"stopped", "stopped">>}

Follows(before, record) ==
  <<before, record>> \in
    {<<"started", "locked">>, <<"released", "locked">>, <<"locked", "released">>}
    \cup {"started", "locked", "released"} \X {"stopped"}

Speaking == todo # <<>> /\ todo[1].kind \in Spoken

RecordInv ==
  /\ log = NoDir => said = "nothing"
  /\ said # "created"
  /\ \A i \in DOMAIN todo : todo[i].kind \in Spoken => i = 1
  /\ ~Speaking => said = "nothing" \/ Fits(machine, said)
  /\ Speaking => /\ Fits(machine, todo[1].kind)
                 /\ said = "nothing" \/ Follows(said, todo[1].kind)
                 /\ log # NoDir

RecordStep ==
  said' = said \/ "nothing" \in {said, said'} \/ Follows(said, said')

\* The records a handler of the session writes: one, and perhaps a retention.
LEMMA SpeakStep ==
  ASSUME TypeOK, RecordInv, todo = <<>>, UNCHANGED <<log, said>>,
         NEW k \in Spoken, Fits(machine', k),
         machine # "waiting" => \A x : Fits(machine, x) => Follows(x, k),
         \/ todo' = IF log = NoDir THEN <<>> ELSE <<Writing(k, NoStudent, log)>>
         \/ todo' = IF log = NoDir THEN <<>>
                    ELSE <<Writing(k, NoStudent, log), Writing("until", NoStudent, log)>>
  PROVE  RecordInv'
<1>1. said = "nothing" \/ Follows(said, k)
  BY DEF RecordInv, Speaking, Fits
<1>2. CASE log = NoDir
  BY <1>2 DEF RecordInv, Speaking
<1>3. CASE log # NoDir
  <2>1. /\ todo' # <<>> /\ todo'[1].kind = k
        /\ \A i \in DOMAIN todo' : i = 1 \/ todo'[i].kind = "until"
    BY <1>3 DEF Writing
  <2>2. Speaking'
    BY <2>1 DEF Speaking
  <2>3. QED
    BY <1>1, <1>3, <2>1, <2>2 DEF RecordInv, Spoken, Life
<1>4. QED
  BY <1>2, <1>3

LEMMA RecordsStep ==
  TypeOK /\ RecordInv /\ [Next]_vars => RecordInv' /\ RecordStep
<1> SUFFICES ASSUME TypeOK, RecordInv, [Next]_vars PROVE RecordInv' /\ RecordStep
  OBVIOUS
<1>1. ASSUME UNCHANGED <<log, said, machine>>, todo = <<>>,
             \A i \in DOMAIN todo' : todo'[i].kind \notin Spoken,
             todo' # <<>> => 1 \in DOMAIN todo'
      PROVE  RecordInv' /\ RecordStep
  BY <1>1 DEF RecordInv, RecordStep, Speaking
<1>2. ASSUME UNCHANGED <<log, said, machine, todo>> PROVE RecordInv' /\ RecordStep
  BY <1>2 DEF RecordInv, RecordStep, Speaking
<1>3. CASE Home
  BY <1>1, <1>2, <1>3 DEF Home, OpenRoom, OpenRoomWithoutLog, Idle, Writing, Others,
                          saidVars, Spoken, Life
<1>4. CASE CloseRoom \/ CloseViewer
  BY <1>1, <1>4 DEF CloseRoom, CloseViewer, Closing, ViewToLog, Writing, OnDashboard, Idle,
                    Others, saidVars, Spoken, Life
<1>5. ASSUME NEW s \in Student, NEW t \in Student, ViewStudent(s) \/ ViewTwo(s, t)
      PROVE  RecordInv' /\ RecordStep
  BY <1>1, <1>5 DEF ViewStudent, ViewTwo, ViewToLog, Writing, OnDashboard, Idle,
                    Others, saidVars, Spoken, Life
<1>6. CASE StartExam
  <2>1. todo' = IF log = NoDir THEN <<>> ELSE <<Writing("started", NoStudent, log)>>
    BY <1>6, ToLogOne, Zenon DEF StartExam
  <2>2. /\ todo = <<>> /\ machine = "waiting" /\ machine' = "capturing"
        /\ UNCHANGED <<log, said>>
    BY <1>6 DEF StartExam, AtTopBar, OnDashboard, Idle, Others, saidVars
  <2>3. Fits(machine', "started")
    BY <2>2 DEF Fits
  <2>4. RecordInv'
    BY <2>1, <2>2, <2>3, SpeakStep DEF Spoken, Life
  <2>5. QED
    BY <2>2, <2>4 DEF RecordStep
<1>7. CASE StopExam
  <2>1. todo' = IF log = NoDir THEN <<>>
                ELSE <<Writing("stopped", NoStudent, log), Writing("until", NoStudent, log)>>
    BY <1>7, ToLogTwo, Zenon DEF StopExam
  <2>2. /\ todo = <<>> /\ machine \in {"capturing", "locked"} /\ machine' = "stopped"
        /\ UNCHANGED <<log, said>>
    BY <1>7 DEF StopExam, AtTopBar, OnDashboard, Idle, Others, saidVars
  <2>3. Fits(machine', "stopped") /\ \A x : Fits(machine, x) => Follows(x, "stopped")
    BY <2>2 DEF Fits, Follows
  <2>4. RecordInv'
    BY <2>1, <2>2, <2>3, SpeakStep DEF Spoken, Life
  <2>5. QED
    BY <2>2, <2>4 DEF RecordStep
<1>8. CASE UnlockExam
  <2>1. todo' = IF log = NoDir THEN <<>> ELSE <<Writing("released", NoStudent, log)>>
    BY <1>8, ToLogOne, Zenon DEF UnlockExam
  <2>2. /\ todo = <<>> /\ machine = "locked" /\ machine' = "capturing"
        /\ UNCHANGED <<log, said>>
    BY <1>8 DEF UnlockExam, AtTopBar, OnDashboard, Idle, Others, saidVars
  <2>3. Fits(machine', "released") /\ \A x : Fits(machine, x) => Follows(x, "released")
    BY <2>2 DEF Fits, Follows
  <2>4. RecordInv'
    BY <2>1, <2>2, <2>3, SpeakStep DEF Spoken, Life
  <2>5. QED
    BY <2>2, <2>4 DEF RecordStep
<1>9. CASE OpenLockDialog \/ CancelLock
  BY <1>2, <1>9 DEF OpenLockDialog, CancelLock, Others, saidVars
<1>10. CASE ConfirmLock
  <2>1. CASE machine = "capturing"
    <3>1. todo' = IF log = NoDir THEN <<>> ELSE <<Writing("locked", NoStudent, log)>>
      BY <1>10, <2>1, ToLogOne, Zenon DEF ConfirmLock, ServerEdge
    <3>2. todo = <<>> /\ machine' = "locked" /\ UNCHANGED <<log, said>>
      BY <1>10, <2>1 DEF ConfirmLock, ServerEdge, AtTopBar, OnDashboard, Idle, Others, saidVars
    <3>3. Fits(machine', "locked") /\ \A x : Fits(machine, x) => Follows(x, "locked")
      BY <2>1, <3>2 DEF Fits, Follows
    <3>4. RecordInv'
      BY <3>1, <3>2, <3>3, SpeakStep DEF Spoken, Life
    <3>5. QED
      BY <3>2, <3>4 DEF RecordStep
  <2>2. CASE machine # "capturing"
    <3>1. UNCHANGED <<log, said, machine, todo>>
      BY <1>10, <2>2 DEF ConfirmLock, ServerEdge, Others, saidVars
    <3>2. QED
      BY <3>1, <1>2
  <2>3. QED
    BY <2>1, <2>2
<1>11. CASE Dashboard
  BY <1>4, <1>5, <1>6, <1>7, <1>8, <1>9, <1>10, <1>11 DEF Dashboard
<1>12. CASE DoWrite
  <2>1. todo # <<>> /\ todo \in Seq(Write) /\ todo' = Tail(todo) /\ machine' = machine
    BY <1>12 DEF DoWrite, TypeOK
  <2>2. Head(todo) = todo[1] /\ todo[1] \in Write
    BY <2>1
  <2>3. /\ said' = IF todo[1].kind \in Spoken THEN todo[1].kind ELSE said
        /\ log' = IF todo[1].kind = "setlog" THEN todo[1].dir ELSE log
    BY <1>12, <2>2 DEF DoWrite, Spoken
  <2>4. \A i \in DOMAIN todo' : todo'[i].kind \notin Spoken
    <3>1. \A i \in DOMAIN todo' : i + 1 \in DOMAIN todo /\ todo'[i] = todo[i + 1] /\ i # 0
      BY <2>1
    <3>2. \A i \in DOMAIN todo' : i \in Nat
      BY <2>1
    <3>3. QED
      BY <3>1, <3>2 DEF RecordInv
  <2>5. ~Speaking'
    BY <2>1, <2>4 DEF Speaking
  <2>6. log' = NoDir => said' = "nothing"
    <3>1. todo[1].kind = "setlog" => log' # NoDir
      BY <2>2, <2>3, NoDirIsNone DEF Write
    <3>2. QED
      BY <3>1, <2>1, <2>3 DEF RecordInv, Speaking
  <2>7. CASE Speaking
    BY <2>1, <2>3, <2>4, <2>5, <2>6, <2>7 DEF RecordInv, RecordStep, Speaking, Spoken
  <2>8. CASE ~Speaking
    BY <2>1, <2>3, <2>4, <2>5, <2>6, <2>8 DEF RecordInv, RecordStep, Speaking
  <2>9. QED
    BY <2>7, <2>8
<1>13. CASE Reaper \/ Tick \/ Restart \/ UNCHANGED vars
  <2>1. UNCHANGED <<log, said, machine, todo>>
    BY <1>13 DEF Reaper, StartPass, Look, Remove, RemoveFails, Tick, Restart, vars, uiVars,
                 saidVars
  <2>2. QED
    BY <2>1, <1>2
<1>14. CASE Crash
  BY <1>14 DEF Crash, RecordInv, RecordStep, Speaking
<1>15. QED
  BY <1>3, <1>11, <1>12, <1>13, <1>14 DEF Next

(* Every lifecycle record follows the one before it as in one exam, over   *)
(* whatever logs, dialogs and rooms.                                       *)
THEOREM RecordsFollowExamAlways == Spec => RecordsFollowExam
<1>1. Init => RecordInv
  BY DEF Init, Started, RecordInv, Speaking
<1>2. TypeOK /\ RecordInv /\ [Next]_vars =>
        [ said' # said /\ {said, said'} \subseteq Life =>
            <<said, said'>> \in
              {<<"started", "locked">>, <<"released", "locked">>, <<"locked", "released">>}
              \cup {"started", "locked", "released"} \X {"stopped"} ]_vars
  BY RecordsStep DEF RecordStep, Follows, Life
<1>3. QED
  BY <1>1, <1>2, RecordsStep, DeskTypeCorrect, PTL DEF Spec, RecordsFollowExam
-----------------------------------------------------------------------------
(* The viewer's records.  Once all that a handler has queued is written,   *)
(* the last viewer record says what the screen shows.                      *)

OnRecord(record) ==
  IF viewer = NoStudent THEN record.kind # "opened"
  ELSE record = [kind |-> "opened", who |-> viewer]

RecordOf(write) == [kind |-> write.kind, who |-> write.who]

ViewQueued == todo # <<>> /\ todo[Len(todo)].kind \in View

ViewInv ==
  /\ screen = "home" => viewer = NoStudent
  /\ log = NoDir => lastView.kind # "opened"
  /\ ViewQueued => log # NoDir /\ OnRecord(RecordOf(todo[Len(todo)]))
  /\ ~ViewQueued =>
       /\ \A i \in DOMAIN todo : todo[i].kind \notin View
       /\ log # NoDir => OnRecord(lastView)
       /\ (\E i \in DOMAIN todo : todo[i].kind = "setlog")
            => viewer = NoStudent /\ lastView.kind # "opened"

\* A handler that leaves the viewer alone.
LEMMA OtherStep ==
  ASSUME TypeOK, ViewInv, todo = <<>>, UNCHANGED <<log, lastView, viewer>>,
         screen' = "home" => viewer = NoStudent,
         \A i \in DOMAIN todo' : todo'[i].kind \in Life \cup {"until"},
         todo' # <<>> => Len(todo') \in DOMAIN todo'
  PROVE  ViewInv'
<1>1. ~ViewQueued /\ ~ViewQueued'
  BY DEF ViewQueued, View, Life
<1>2. QED
  BY <1>1 DEF ViewInv, OnRecord, View, Life

\* A handler that opens or closes a view, without a log or with one.
LEMMA ViewStep ==
  ASSUME TypeOK, ViewInv, todo = <<>>, UNCHANGED <<log, lastView>>,
         screen' = "home" => viewer' = NoStudent,
         log = NoDir => todo' = <<>>,
         log # NoDir => /\ todo' # <<>> /\ todo'[Len(todo')].kind \in View
                        /\ OnRecord(RecordOf(todo[Len(todo)]))'
  PROVE  ViewInv'
<1>1. CASE log = NoDir
  <2>1. ~ViewQueued'
    BY <1>1 DEF ViewQueued
  <2>2. QED
    BY <1>1, <2>1 DEF ViewInv
<1>2. CASE log # NoDir
  <2>1. ViewQueued'
    BY <1>2 DEF ViewQueued
  <2>2. QED
    BY <1>2, <2>1 DEF ViewInv
<1>3. QED
  BY <1>1, <1>2

LEMMA LifeQueued ==
  ASSUME NEW k \in Life \cup {"until"}, NEW m \in Life \cup {"until"}, NEW q,
         q = ToLog(<<k>>) \/ q = ToLog(<<k, m>>) \/ q = <<>>
  PROVE  /\ \A i \in DOMAIN q : q[i].kind \in Life \cup {"until"}
         /\ q # <<>> => Len(q) \in DOMAIN q
<1>1. /\ ToLog(<<k>>) = IF log = NoDir THEN <<>> ELSE <<Writing(k, NoStudent, log)>>
      /\ ToLog(<<k, m>>) = IF log = NoDir THEN <<>>
           ELSE <<Writing(k, NoStudent, log), Writing(m, NoStudent, log)>>
  BY ToLogOne, ToLogTwo, Zenon
<1>2. QED
  BY <1>1 DEF Writing

LEMMA ViewsStep == TypeOK /\ ViewInv /\ [Next]_vars => ViewInv'
<1> SUFFICES ASSUME TypeOK, ViewInv, [Next]_vars PROVE ViewInv'
  OBVIOUS
<1>1. ASSUME UNCHANGED <<log, lastView, viewer, todo, screen>> PROVE ViewInv'
  BY <1>1 DEF ViewInv, ViewQueued, OnRecord
<1>2. ASSUME NEW n \in Name, OpenRoom(n) PROVE ViewInv'
  <2>1. /\ viewer' = NoStudent /\ viewer = NoStudent /\ lastView' = lastView /\ log' = log
        /\ todo = <<>>
        /\ todo' = <<Writing("created", NoStudent, DirOf(n)), Writing("setlog", NoStudent, DirOf(n))>>
    BY <1>2 DEF OpenRoom, Idle, ViewInv, saidVars
  <2>2. ~ViewQueued /\ ~ViewQueued' /\ \A i \in DOMAIN todo' : todo'[i].kind \notin View
    BY <2>1 DEF ViewQueued, Writing, View
  <2>3. lastView.kind # "opened"
    BY <2>1, <2>2 DEF ViewInv, OnRecord
  <2>4. QED
    BY <2>1, <2>2, <2>3 DEF ViewInv, OnRecord
<1>3. CASE OpenRoomWithoutLog
  <2>1. /\ todo = <<>> /\ todo' = todo /\ viewer = NoStudent /\ UNCHANGED <<log, lastView, viewer>>
    BY <1>3 DEF OpenRoomWithoutLog, Idle, ViewInv, Others, saidVars
  <2>2. QED
    BY <2>1, OtherStep
<1>4. CASE CloseRoom \/ CloseViewer
  <2>1. /\ todo = <<>> /\ viewer' = NoStudent /\ todo' = Closing(viewer)
        /\ UNCHANGED <<log, lastView>>
    BY <1>4 DEF CloseRoom, CloseViewer, OnDashboard, Idle, Others, saidVars
  <2>2. CASE viewer = NoStudent
    <3>1. todo' = <<>> /\ viewer' = viewer
      BY <2>1, <2>2 DEF Closing
    <3>2. QED
      BY <2>1, <2>2, <3>1, OtherStep
  <2>3. CASE viewer # NoStudent
    <3>1. todo' = IF log = NoDir THEN <<>> ELSE <<Writing("closed", viewer, log)>>
      BY <2>1, <2>3 DEF Closing, ViewToLog
    <3>2. log # NoDir => /\ todo' # <<>> /\ todo'[Len(todo')].kind \in View
                         /\ OnRecord(RecordOf(todo[Len(todo)]))'
      BY <2>1, <3>1 DEF Writing, View, OnRecord, RecordOf
    <3>3. QED
      BY <2>1, <3>1, <3>2, ViewStep
  <2>4. QED
    BY <2>2, <2>3
<1>5. ASSUME NEW s \in Student, ViewStudent(s) PROVE ViewInv'
  <2>1. /\ todo = <<>> /\ viewer' = s /\ screen' = "dashboard" /\ UNCHANGED <<log, lastView>>
        /\ todo' = IF log = NoDir THEN <<>> ELSE <<Writing("opened", s, log)>>
    BY <1>5 DEF ViewStudent, ViewToLog, OnDashboard, Idle, Others, saidVars
  <2>2. log # NoDir => /\ todo' # <<>> /\ todo'[Len(todo')].kind \in View
                       /\ OnRecord(RecordOf(todo[Len(todo)]))'
    BY <2>1, DeskAssumption DEF Writing, View, OnRecord, RecordOf
  <2>3. QED
    BY <2>1, <2>2, ViewStep
<1>6. ASSUME NEW s \in Student, NEW t \in Student, ViewTwo(s, t) PROVE ViewInv'
  <2>1. /\ todo = <<>> /\ viewer' = t /\ screen' = "dashboard" /\ UNCHANGED <<log, lastView>>
        /\ todo' = ViewToLog("opened", s) \o ViewToLog("opened", t)
    BY <1>6 DEF ViewTwo, OnDashboard, Idle, Others, saidVars
  <2>2. todo' = IF log = NoDir THEN <<>>
                ELSE <<Writing("opened", s, log), Writing("opened", t, log)>>
    BY <2>1 DEF ViewToLog
  <2>3. log # NoDir => /\ todo' # <<>> /\ todo'[Len(todo')].kind \in View
                       /\ OnRecord(RecordOf(todo[Len(todo)]))'
    <3> SUFFICES ASSUME log # NoDir
                 PROVE  /\ todo' # <<>> /\ todo'[Len(todo')].kind \in View
                        /\ OnRecord(RecordOf(todo[Len(todo)]))'
      OBVIOUS
    <3>1. Len(todo') = 2 /\ todo'[2] = Writing("opened", t, log)
      BY <2>2
    <3>2. QED
      BY <3>1, <2>1, <2>2, DeskAssumption DEF Writing, View, OnRecord, RecordOf
  <2>4. QED
    BY <2>1, <2>2, <2>3, ViewStep
<1>7. CASE StartExam \/ StopExam \/ UnlockExam \/ OpenLockDialog \/ CancelLock \/ ConfirmLock
  <2>1. /\ todo = <<>> /\ screen' = "dashboard" /\ UNCHANGED <<log, lastView, viewer>>
    BY <1>7 DEF StartExam, StopExam, UnlockExam, OpenLockDialog, CancelLock, ConfirmLock,
                AtTopBar, OnDashboard, Idle, Others, saidVars
  <2>2. PICK k \in Life \cup {"until"}, m \in Life \cup {"until"} :
          todo' = ToLog(<<k>>) \/ todo' = ToLog(<<k, m>>) \/ todo' = <<>>
    BY <1>7, <2>1 DEF StartExam, StopExam, UnlockExam, OpenLockDialog, CancelLock, ConfirmLock,
                      Life
  <2>3. /\ \A i \in DOMAIN todo' : todo'[i].kind \in Life \cup {"until"}
        /\ todo' # <<>> => Len(todo') \in DOMAIN todo'
    BY <2>2, LifeQueued
  <2>4. QED
    BY <2>1, <2>3, OtherStep
<1>8. CASE DoWrite
  <2>1. /\ todo # <<>> /\ todo \in Seq(Write) /\ todo' = Tail(todo)
        /\ UNCHANGED <<viewer, screen>>
    BY <1>8 DEF DoWrite, TypeOK
  <2>2. Head(todo) = todo[1] /\ todo[1] \in Write
    BY <2>1
  <2>3. /\ lastView' = IF todo[1].kind \in View THEN RecordOf(todo[1]) ELSE lastView
        /\ log' = IF todo[1].kind = "setlog" THEN todo[1].dir ELSE log
    BY <1>8, <2>2 DEF DoWrite, RecordOf
  <2>4. /\ Len(todo) \in Nat \ {0} /\ Len(todo) \in DOMAIN todo /\ 1 \in DOMAIN todo
        /\ Len(todo) = 1 => todo' = <<>>
        /\ Len(todo) # 1 => /\ todo' # <<>>
                            /\ todo'[Len(todo')] = todo[Len(todo)]
    <3>1. Len(todo) \in Nat \ {0} /\ DOMAIN todo = 1 .. Len(todo)
      BY <2>1
    <3>2. /\ todo' \in Seq(Write) /\ Len(todo') = Len(todo) - 1
          /\ \A i \in 1 .. Len(todo') : todo'[i] = todo[i + 1]
      BY <2>1
    <3>3. Len(todo) = 1 => todo' = <<>>
      BY <3>2
    <3>4. Len(todo) # 1 => /\ Len(todo') \in 1 .. Len(todo')
                          /\ todo'[Len(todo')] = todo[Len(todo)]
      BY <3>1, <3>2
    <3>5. Len(todo) # 1 => todo' # <<>>
      BY <3>1, <3>2
    <3>6. QED
      BY <3>1, <3>3, <3>4, <3>5
  <2>5. \A i \in DOMAIN todo' : i + 1 \in DOMAIN todo /\ todo'[i] = todo[i + 1]
    BY <2>1
  <2>6. todo[1].kind = "setlog" => log' # NoDir
    BY <2>2, <2>3, NoDirIsNone DEF Write
  <2>7. CASE ViewQueued
    <3>1. log # NoDir /\ log' # NoDir
      BY <2>3, <2>6, <2>7 DEF ViewInv
    <3>2. CASE Len(todo) = 1
      <4>1. ~ViewQueued' /\ DOMAIN todo' = {}
        BY <2>4, <3>2 DEF ViewQueued
      <4>2. OnRecord(lastView)'
        BY <2>1, <2>3, <2>7, <3>2 DEF ViewInv, ViewQueued, OnRecord
      <4>3. QED
        BY <2>1, <3>1, <4>1, <4>2 DEF ViewInv
    <3>3. CASE Len(todo) # 1
      <4>1. ViewQueued'
        BY <2>4, <2>7, <3>3 DEF ViewQueued
      <4>2. OnRecord(RecordOf(todo[Len(todo)]))'
        BY <2>1, <2>4, <2>7, <3>3 DEF ViewInv, OnRecord, RecordOf
      <4>3. QED
        BY <2>1, <3>1, <4>1, <4>2 DEF ViewInv
    <3>4. QED
      BY <3>2, <3>3
  <2>8. CASE ~ViewQueued
    <3>1. todo[1].kind \notin View /\ lastView' = lastView
      BY <2>3, <2>4, <2>8 DEF ViewInv
    <3>2. \A i \in DOMAIN todo' : todo'[i].kind \notin View
      BY <2>5, <2>8 DEF ViewInv
    <3>3. ~ViewQueued'
      BY <2>4, <2>8 DEF ViewQueued
    <3>4. log' # NoDir => OnRecord(lastView)'
      <4>1. CASE todo[1].kind = "setlog"
        BY <2>1, <2>4, <2>8, <3>1, <4>1 DEF ViewInv, OnRecord
      <4>2. CASE todo[1].kind # "setlog"
        BY <2>1, <2>3, <2>8, <3>1, <4>2 DEF ViewInv, OnRecord
      <4>3. QED
        BY <4>1, <4>2
    <3>5. log' = NoDir => lastView'.kind # "opened"
      BY <2>3, <2>6, <3>1 DEF ViewInv
    <3>6. (\E i \in DOMAIN todo' : todo'[i].kind = "setlog")
            => viewer' = NoStudent /\ lastView'.kind # "opened"
      BY <2>1, <2>5, <2>8, <3>1 DEF ViewInv
    <3>7. QED
      BY <2>1, <3>2, <3>3, <3>4, <3>5, <3>6 DEF ViewInv
  <2>9. QED
    BY <2>7, <2>8
<1>9. CASE Reaper \/ Tick \/ Restart \/ UNCHANGED vars
  <2>1. UNCHANGED <<log, lastView, viewer, todo, screen>>
    BY <1>9 DEF Reaper, StartPass, Look, Remove, RemoveFails, Tick, Restart, vars, uiVars,
                saidVars
  <2>2. QED
    BY <2>1, <1>1
<1>10. CASE Crash
  BY <1>10 DEF Crash, ViewInv, ViewQueued
<1>11. QED
  BY <1>2, <1>3, <1>4, <1>5, <1>6, <1>7, <1>8, <1>9, <1>10 DEF Next, Home, Dashboard

(* Between handlers the last viewer record names the student on screen, or *)
(* is no opening when nobody is.                                           *)
THEOREM ViewsAreOnRecordAlways == Spec => []ViewsAreOnRecord
<1>1. Init => ViewInv
  BY DEF Init, Started, ViewInv, ViewQueued
<1>2. ViewInv => ViewsAreOnRecord
  BY DEF ViewInv, ViewsAreOnRecord, ViewQueued, OnRecord, Idle
<1>3. QED
  BY <1>1, <1>2, ViewsStep, DeskTypeCorrect, PTL DEF Spec
=============================================================================

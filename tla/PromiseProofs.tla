----------------------------- MODULE PromiseProofs -----------------------------
(***************************************************************************)
(* Proofs about the exam's promise, for any set of students.  The two      *)
(* abstract specifications meet here: under ExamPromise the teacher's      *)
(* session and every student's machine each go through ExamTold, the       *)
(* specification that the student's program implements from its own side,  *)
(* and no student is ahead of the session.  What implements the promise    *)
(* inherits all of it (RoomProofs).                                        *)
(***************************************************************************)
EXTENDS ExamPromise, TLAPS

(* What a state of either machine says of the exam.                        *)
ToldBy(st) == CASE st = "capturing" -> "running"
                [] st = "stopped" -> "over"
                [] OTHER -> st

Held == INSTANCE ExamTold WITH told <- ToldBy(session)
Told(s) == INSTANCE ExamTold WITH told <- ToldBy(machine[s])

PromiseTypeOK ==
  /\ session \in ServerState
  /\ machine \in [Student -> ClientState]

(* The session and a machine keep to their types.                          *)
LEMMA PromiseTypeStep == PromiseTypeOK /\ [PromiseNext]_promiseVars => PromiseTypeOK'
<1> SUFFICES ASSUME PromiseTypeOK, [PromiseNext]_promiseVars PROVE PromiseTypeOK'
  OBVIOUS
<1> USE DEF PromiseTypeOK
<1>1. CASE TeacherMoves
  BY <1>1 DEF TeacherMoves
<1>2. ASSUME NEW s \in Student, StudentFollows(s) PROVE PromiseTypeOK'
  <2>1. \A st \in ClientState : \A ev : ClientApply(st, ev) \in ClientState
    BY DEF ClientApply, ClientState
  <2>2. QED
    BY <1>2, <2>1 DEF StudentFollows
<1>3. CASE UNCHANGED promiseVars
  BY <1>3 DEF promiseVars
<1>4. QED
  BY <1>1, <1>2, <1>3 DEF PromiseNext

LEMMA PromiseTypeInit == PromiseInit => PromiseTypeOK
  BY DEF PromiseInit, PromiseTypeOK, ServerState, ClientState

(* A step of the promise moves a student along ExamTold, or not at all.    *)
LEMMA ToldStep ==
  ASSUME PromiseTypeOK, [PromiseNext]_promiseVars, NEW s \in Student
  PROVE  [Told(s)!ToldNext]_(ToldBy(machine[s]))
<1>1. CASE UNCHANGED machine
  BY <1>1
<1>2. ASSUME NEW t \in Student, StudentFollows(t)
      PROVE  [Told(s)!ToldNext]_(ToldBy(machine[s]))
  <2>1. \/ machine'[s] = machine[s]
        \/ \E ev \in ClientEvent : machine'[s] = ClientApply(machine[s], ev)
    BY <1>2 DEF PromiseTypeOK, StudentFollows, Issued, ClientEvent
  <2>2. machine[s] \in ClientState
    BY DEF PromiseTypeOK
  <2>3. \/ ToldBy(machine'[s]) = ToldBy(machine[s])
        \/ ToldBy(machine[s]) = "waiting" /\ ToldBy(machine'[s]) \in {"running", "locked", "over"}
        \/ ToldBy(machine[s]) \in {"running", "locked"}
           /\ ToldBy(machine'[s]) \in {"running", "locked", "over"}
    BY <2>1, <2>2 DEF ToldBy, ClientApply, ClientState, ClientEvent
  <2>4. QED
    BY <2>3 DEF Told!ToldNext, Told!Begin, Told!LockOrUnlock, Told!Finish, Told!Waiting,
                Told!Running
<1>3. QED
  BY <1>1, <1>2 DEF PromiseNext, TeacherMoves, promiseVars

(* Under the promise every student's exam begins, may be locked and        *)
(* unlocked, ends, and stays ended.                                        *)
THEOREM PromiseTellsOnce == PromiseSpec => \A s \in Student : Told(s)!ToldSpec
<1> SUFFICES ASSUME NEW s \in Student PROVE PromiseSpec => Told(s)!ToldSpec
  OBVIOUS
<1>1. PromiseInit => PromiseTypeOK /\ Told(s)!ToldInit
  BY PromiseTypeInit DEF PromiseInit, ToldBy, Told!ToldInit, Told!Waiting
<1>2. PromiseTypeOK /\ [PromiseNext]_promiseVars => [Told(s)!ToldNext]_(ToldBy(machine[s]))
  BY ToldStep
<1>3. QED
  BY <1>1, <1>2, PromiseTypeStep, PTL DEF PromiseSpec, Told!ToldSpec

(* So does the teacher's session: an exam that is over is never resumed.   *)
THEOREM PromiseHeldOnce == PromiseSpec => Held!ToldSpec
<1>1. PromiseInit => Held!ToldInit
  BY DEF PromiseInit, ToldBy, Held!ToldInit, Held!Waiting
<1>2. PromiseTypeOK /\ session # "idle" /\ [PromiseNext]_promiseVars
        => /\ [Held!ToldNext]_(ToldBy(session))
           /\ (session # "idle")'
  <2> SUFFICES ASSUME PromiseTypeOK, session # "idle", [PromiseNext]_promiseVars
               PROVE  /\ [Held!ToldNext]_(ToldBy(session))
                      /\ (session # "idle")'
    OBVIOUS
  <2>1. \/ session' = session
        \/ session = "waiting" /\ session' = "capturing"
        \/ session \in {"capturing", "locked"} /\ session' \in {"capturing", "locked", "stopped"}
    BY DEF PromiseNext, TeacherMoves, StudentFollows, ServerEdge, promiseVars
  <2>2. QED
    BY <2>1 DEF ToldBy, Held!ToldNext, Held!Begin, Held!LockOrUnlock, Held!Finish,
                Held!Waiting, Held!Running
<1>3. PromiseInit => PromiseTypeOK /\ session # "idle"
  BY PromiseTypeInit DEF PromiseInit
<1>4. QED
  BY <1>1, <1>2, <1>3, PromiseTypeStep, PTL DEF PromiseSpec, Held!ToldSpec

-----------------------------------------------------------------------------
(* No student is ahead of the session: none has begun before the teacher   *)
(* began, and none has ended before the teacher ended.                     *)
NotAhead ==
  \A s \in Student :
    /\ machine[s] # "waiting" => session \in {"capturing", "locked", "stopped"}
    /\ machine[s] = "stopped" => session = "stopped"

LEMMA NotAheadStep ==
  PromiseTypeOK /\ NotAhead /\ [PromiseNext]_promiseVars => NotAhead'
<1> SUFFICES ASSUME PromiseTypeOK, NotAhead, [PromiseNext]_promiseVars PROVE NotAhead'
  OBVIOUS
<1> USE DEF NotAhead
<1>1. CASE TeacherMoves
  BY <1>1 DEF TeacherMoves, ServerEdge
<1>2. ASSUME NEW s \in Student, StudentFollows(s) PROVE NotAhead'
  <2>1. PICK ev \in Issued(session) : machine' = [machine EXCEPT ![s] = ClientApply(@, ev)]
    BY <1>2 DEF StudentFollows
  <2>2. \/ session \in {"capturing", "locked"} /\ ev # "exam_stop"
        \/ session = "stopped"
    BY <2>1 DEF Issued
  <2>3. machine[s] \in ClientState
    BY DEF PromiseTypeOK
  <2>4. ClientApply(machine[s], ev) = "stopped" => machine[s] = "stopped" \/ ev = "exam_stop"
    BY <2>3 DEF ClientApply, ClientState
  <2>5. QED
    BY <1>2, <2>1, <2>2, <2>4 DEF StudentFollows, PromiseTypeOK
<1>3. CASE UNCHANGED promiseVars
  BY <1>3 DEF promiseVars
<1>4. QED
  BY <1>1, <1>2, <1>3 DEF PromiseNext

(* The promise itself keeps everybody behind the teacher.                  *)
THEOREM PromiseNotAhead == PromiseSpec => []NotAhead
<1>1. PromiseInit => PromiseTypeOK /\ NotAhead
  BY PromiseTypeInit DEF PromiseInit, NotAhead
<1>2. QED
  BY <1>1, PromiseTypeStep, NotAheadStep, PTL DEF PromiseSpec
=============================================================================

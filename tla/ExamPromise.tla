----------------------------- MODULE ExamPromise -----------------------------
(***************************************************************************)
(* What a room promises about an exam, with the network, the handlers and  *)
(* the reconnects left out: the teacher moves the session along its legal  *)
(* edges, and a student's client moves on its own time, one student at a   *)
(* time, and only on a command the session's state shows the teacher can   *)
(* have issued.  ExamRoom is checked to implement this.                    *)
(***************************************************************************)
EXTENDS SessionStates

CONSTANT Student
VARIABLES session, machine

promiseVars == <<session, machine>>

PromiseInit ==
  /\ session = "waiting"
  /\ machine = [s \in Student |-> "waiting"]

(* The client events the teacher can have issued by the time of a state.   *)
Issued(st) ==
  CASE st \in {"capturing", "locked"} -> {"exam_start", "lock", "unlock"}
    [] st = "stopped" -> ClientEvent
    [] OTHER -> {}

TeacherMoves ==
  /\ \E ev \in ServerEvent, st \in ServerState :
       <<session, ev, st>> \in ServerEdge /\ session' = st
  /\ UNCHANGED machine

StudentFollows(s) ==
  /\ \E ev \in Issued(session) :
       machine' = [machine EXCEPT ![s] = ClientApply(@, ev)]
  /\ UNCHANGED session

PromiseNext == TeacherMoves \/ \E s \in Student : StudentFollows(s)

PromiseSpec == PromiseInit /\ [][PromiseNext]_promiseVars
=============================================================================

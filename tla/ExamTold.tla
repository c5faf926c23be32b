------------------------------ MODULE ExamTold ------------------------------
(***************************************************************************)
(* What a student's program goes through with an exam, its connections,    *)
(* threads and screens left out: it waits, the exam runs, perhaps locked,  *)
(* and once it is over it stays over.  StudentProgram implements this.     *)
(***************************************************************************)
VARIABLE told

Waiting == told = "waiting"
Running == told \in {"running", "locked"}

ToldInit == Waiting

\* The exam begins, or is joined late, or is locked before its start is heard.
Begin == Waiting /\ told' \in {"running", "locked"}

LockOrUnlock == Running /\ told' \in {"running", "locked"}

Finish == (Waiting \/ Running) /\ told' = "over"

ToldNext == Begin \/ LockOrUnlock \/ Finish

ToldSpec == ToldInit /\ [][ToldNext]_told
=============================================================================

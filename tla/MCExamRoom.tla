----------------------------- MODULE MCExamRoom -----------------------------
(* Model-checking instance of ExamRoom. *)
EXTENDS ExamRoom, TLC

\* Connections and students are interchangeable; used in safety runs only.
RoomSymmetry == Permutations(Conn) \cup Permutations(Student)
=============================================================================

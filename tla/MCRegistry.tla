----------------------------- MODULE MCRegistry -----------------------------
(* Model-checking instance of Registry. *)
EXTENDS Registry, TLC

\* Connections and students are interchangeable; used in safety runs only.
Symmetry == Permutations(Conn) \cup Permutations(Student)
=============================================================================

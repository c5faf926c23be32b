----------------------------- MODULE MCMessages -----------------------------
(* Model-checking instance of Messages. *)
EXTENDS Messages, TLC

\* Connections and students are interchangeable.
Symmetry == Permutations(Conn) \cup Permutations(Student)
=============================================================================

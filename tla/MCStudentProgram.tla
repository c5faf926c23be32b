-------------------------- MODULE MCStudentProgram --------------------------
(* Symmetry for the safety run of StudentProgram: loops, readers and       *)
(* connections are interchangeable.                                        *)
EXTENDS StudentProgram, TLC

Symmetry == Permutations(Loop) \cup Permutations(Conn) \cup Permutations(Reader)
=============================================================================

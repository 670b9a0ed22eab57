---------------------------- MODULE MCAdmissions ----------------------------
(* Admissions on small instances. *)
EXTENDS Admissions, TLC

CONSTANTS a1, a2, p1, r1, v1, v2, t1, t2

MCProgramOf == [a \in Apps |-> p1]
MCMaxStudents == [p \in Programs |-> 1]

Symmetry == Permutations(Apps) \cup Permutations(Staff) \cup Permutations(TaskWorkers)
=============================================================================

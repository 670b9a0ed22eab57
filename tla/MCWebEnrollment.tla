--------------------------- MODULE MCWebEnrollment ---------------------------
(* WebEnrollment on small instances. *)
EXTENDS WebEnrollment, TLC

CONSTANTS u1, u2, c1, c2, w1, w2

MCEnrolments == Users \X Courses
MCCapacity == [c \in Courses |-> 1]

Symmetry == Permutations(Users) \cup Permutations(Courses) \cup Permutations(Workers)
=============================================================================

---------------------------- MODULE MCCertificates ----------------------------
(* Certificates, and with it Exams, on small instances. *)
EXTENDS Certificates, TLC

CONSTANTS c1, c2, q1, q2, w1, w2, long, short

\* Either question is enough to pass.
MCPassing == (SUBSET Questions) \ {{}}
MCCoursesOf == [s \in Specs |-> IF s = long THEN Courses ELSE {c1}]
MCMaxCertificates == [x \in Courses \cup Specs |-> IF x = long THEN 2 ELSE 1]
Symmetry == Permutations(Workers) \cup Permutations(Questions)
=============================================================================

----------------------------- MODULE Credentials -----------------------------
(***************************************************************************)
(* What the certificates of a student promise: each rests on what came     *)
(* before it, an earned course, the certificates of all courses, the       *)
(* certificate of the specialization, and no certificate is ever taken     *)
(* back, even when what it was issued for is.                              *)
(***************************************************************************)
CONSTANTS Courses, Specs, CoursesOf

VARIABLES
    earned,     \* courses that have been passed or completed, at some time
    certified,  \* courses with a certificate
    awarded,    \* specializations with a certificate
    marked      \* specializations whose enrolment is completed

vars == <<earned, certified, awarded, marked>>

Init == earned = {} /\ certified = {} /\ awarded = {} /\ marked = {}

Earn(c) ==
    /\ earned' = earned \cup {c}
    /\ UNCHANGED <<certified, awarded, marked>>

Certify(c) ==
    /\ c \in earned
    /\ certified' = certified \cup {c}
    /\ UNCHANGED <<earned, awarded, marked>>

Award(s) ==
    /\ CoursesOf[s] \subseteq certified
    /\ awarded' = awarded \cup {s}
    /\ UNCHANGED <<earned, certified, marked>>

Mark(s) ==
    /\ s \in awarded
    /\ marked' = marked \cup {s}
    /\ UNCHANGED <<earned, certified, awarded>>

Next ==
    \/ \E c \in Courses : Earn(c) \/ Certify(c)
    \/ \E s \in Specs : Award(s) \/ Mark(s)

Spec == Init /\ [][Next]_vars
=============================================================================

----------------------------- MODULE Certificates -----------------------------
(***************************************************************************)
(* The certificates of one student (learnnov-cloud/apps/                   *)
(* learnnov_certificates), issued for passed exams and completed           *)
(* applications, next to the requests of Exams.  A certificate names its   *)
(* student and its course or specialization, and no constraint makes it    *)
(* unique.                                                                 *)
(***************************************************************************)
EXTENDS Exams

CONSTANTS
    Passing,        \* scores of 50 points or more
    Specs,          \* specializations
    CoursesOf,      \* the courses of one
    Applied,        \* courses that the student has applied to
    Joining,        \* specializations that the student enrolls in
    MaxCertificates \* of each course and specialization (a bound, for TLC)

ASSUME CertificatesAssumption ==
    /\ Passing \subseteq SUBSET Questions
    /\ \A P \in Passing, Q \in SUBSET Questions : P \subseteq Q => Q \in Passing
    /\ CoursesOf \in [Specs -> (SUBSET Courses) \ {{}}]
    /\ MaxCertificates \in [Courses \cup Specs -> Nat]
    /\ Applied \subseteq Courses /\ Joining \subseteq Specs
    /\ None \notin {"enrolled", "completed"}

VARIABLES
    completed,  \* courses whose ProgramApplication has the status "completed"
    onceDone,   \* history: courses for which it has had that status
    certs,      \* GeneratedCertificate: how many there are of a course
    specCerts,  \* SpecializationCertificate: how many there are
    enrolment,  \* SpecializationEnrollment.status, or None: no such row
    lateRows,   \* history: enrolments made after the specialization's certificate
    gen         \* per process: the request for a certificate in service

applications == <<completed, onceDone>>
enrolments == <<enrolment, lateRows>>
certVars == <<applications, certs, specCerts, enrolments, gen>>
vars == <<examVars, kills, certVars>>

\* specs: specializations still to look at; spec: the one that is looked at;
\* left: its courses that still have to show a certificate.
Generation == [at : {"idle", "create", "check", "issue", "mark"},
               course : Courses \cup {None}, specs : SUBSET Specs,
               spec : Specs \cup {None}, left : SUBSET Courses]
Off == [at |-> "idle", course |-> None, specs |-> {}, spec |-> None, left |-> {}]

Init ==
    /\ ExamInit
    /\ kills = 0
    /\ completed = {}
    /\ onceDone = {}
    /\ certs = [c \in Courses |-> 0]
    /\ specCerts = [s \in Specs |-> 0]
    /\ enrolment = [s \in Specs |-> None]
    /\ lateRows = {}
    /\ gen = [w \in Workers |-> Off]

Go(w, at, c, specs, spec, left) ==
    gen' = [gen EXCEPT ![w] = [at |-> at, course |-> c, specs |-> specs, spec |-> spec, left |-> left]]
Stop(w) == gen' = [gen EXCEPT ![w] = Off]

\* On to one of the specializations that are left.
GoOn(w, specs) ==
    IF specs = {} THEN Stop(w)
    ELSE \E s \in specs : Go(w, "check", None, specs \ {s}, s, CoursesOf[s])

SpecsOf(c) == {s \in Specs : c \in CoursesOf[s]}

\* The administration site; VALID_TRANSITIONS leads nowhere near.
MarkCompleted(c) ==
    /\ c \notin completed
    /\ completed' = completed \cup {c}
    /\ onceDone' = onceDone \cup {c}
    /\ UNCHANGED <<examVars, kills, certs, specCerts, enrolments, gen>>

\* FinancialAidReviewView: update_or_create makes the application "enrolled",
\* whatever its status is.
ApproveAid(c) ==
    /\ c \in completed
    /\ completed' = completed \ {c}
    /\ UNCHANGED <<examVars, kills, onceDone, certs, specCerts, enrolments, gen>>

\* enroll_user_in_specialization: get_or_create of the enrolment.
Enroll(s) ==
    /\ enrolment[s] = None
    /\ enrolment' = [enrolment EXCEPT ![s] = "enrolled"]
    /\ lateRows' = IF specCerts[s] > 0 THEN lateRows \cup {s} ELSE lateRows
    /\ UNCHANGED <<examVars, kills, applications, certs, specCerts, gen>>
-----------------------------------------------------------------------------
(* GenerateCertificateView *)

Passed(c) == \E i \in Ids : /\ attempt[i] # None /\ attempt[i].course = c
                            /\ ~attempt[i].open /\ attempt[i].score \in Passing

CheckCourseCompletion(c) == Passed(c) \/ c \in completed

\* get_or_create finds the certificate, misses it, or raises if there are two.
Begin(w, c) ==
    /\ gen[w].at = "idle" /\ req[w].at = "idle"
    /\ CheckCourseCompletion(c)
    /\ \/ certs[c] = 0 /\ Go(w, "create", c, {}, None, {})
       \/ certs[c] = 1 /\ GoOn(w, SpecsOf(c))
    /\ UNCHANGED <<examVars, kills, applications, certs, specCerts, enrolments>>

\* Mutant: the answer is returned as soon as the certificate is created.
CreateAndReturn(w) ==
    /\ gen[w].at = "create"
    /\ certs[gen[w].course] < MaxCertificates[gen[w].course]
    /\ certs' = [certs EXCEPT ![gen[w].course] = @ + 1]
    /\ Stop(w)
    /\ UNCHANGED <<examVars, kills, applications, specCerts, enrolments>>

\* The UUID is longer than its column: SQLite takes it, PostgreSQL raises.
CreateCertificate(w) ==
    /\ gen[w].at = "create"
    /\ \/ /\ certs[gen[w].course] < MaxCertificates[gen[w].course]
          /\ certs' = [certs EXCEPT ![gen[w].course] = @ + 1]
          /\ GoOn(w, SpecsOf(gen[w].course))
       \/ Stop(w) /\ UNCHANGED certs
    /\ UNCHANGED <<examVars, kills, applications, specCerts, enrolments>>

\* Mutant: a course without a certificate is skipped.
CheckSkipping(w) ==
    /\ gen[w].at = "check"
    /\ \E c \in gen[w].left : gen' = [gen EXCEPT ![w].left = @ \ {c}]
    /\ UNCHANGED <<examVars, kills, applications, certs, specCerts, enrolments>>

\* One query per course; the first without a certificate ends the loop.
CheckCourse(w) ==
    /\ gen[w].at = "check"
    /\ \E c \in gen[w].left :
          IF certs[c] > 0
          THEN gen' = [gen EXCEPT ![w].left = @ \ {c}]
          ELSE GoOn(w, gen[w].specs)
    /\ UNCHANGED <<examVars, kills, applications, certs, specCerts, enrolments>>

FindSpecialization(w) ==
    /\ gen[w].at = "check" /\ gen[w].left = {}
    /\ LET n == specCerts[gen[w].spec]
       IN \/ n = 0 /\ gen' = [gen EXCEPT ![w].at = "issue"]
          \/ n = 1 /\ GoOn(w, gen[w].specs)
          \/ n > 1 /\ Stop(w)
    /\ UNCHANGED <<examVars, kills, applications, certs, specCerts, enrolments>>

IssueSpecialization(w) ==
    /\ gen[w].at = "issue"
    /\ specCerts[gen[w].spec] < MaxCertificates[gen[w].spec]
    /\ specCerts' = [specCerts EXCEPT ![gen[w].spec] = @ + 1]
    /\ gen' = [gen EXCEPT ![w].at = "mark"]
    /\ UNCHANGED <<examVars, kills, applications, certs, enrolments>>

\* Mutant: the enrolment is marked with a status of another table.
MarkActive(w) ==
    /\ gen[w].at = "mark"
    /\ enrolment' = [enrolment EXCEPT ![gen[w].spec] = IF @ = "enrolled" THEN "active" ELSE @]
    /\ GoOn(w, gen[w].specs)
    /\ UNCHANGED <<examVars, kills, applications, certs, specCerts, lateRows>>

\* An UPDATE of the row, if there is one by now.
MarkEnrolment(w) ==
    /\ gen[w].at = "mark"
    /\ enrolment' = [enrolment EXCEPT ![gen[w].spec] = IF @ = None THEN None ELSE "completed"]
    /\ GoOn(w, gen[w].specs)
    /\ UNCHANGED <<examVars, kills, applications, certs, specCerts, lateRows>>

KillIssuer(w) ==
    /\ gen[w].at # "idle"
    /\ kills < MaxKills
    /\ kills' = kills + 1
    /\ Stop(w)
    /\ UNCHANGED <<examVars, applications, certs, specCerts, enrolments>>

Next ==
    \/ \E w \in Workers : gen[w].at = "idle" /\ ExamStep(w) /\ UNCHANGED certVars
    \/ \E i \in Ids : TimePasses(i) /\ UNCHANGED certVars
    \/ \E c \in Applied : MarkCompleted(c) \/ ApproveAid(c)
    \/ \E s \in Joining : Enroll(s)
    \/ \E w \in Workers :
          \/ \E c \in Courses : Begin(w, c)
          \/ CreateCertificate(w) \/ CheckCourse(w)
          \/ FindSpecialization(w) \/ IssueSpecialization(w) \/ MarkEnrolment(w)
          \/ KillIssuer(w)

Spec == Init /\ [][Next]_vars
-----------------------------------------------------------------------------
TypeOK ==
    /\ ExamTypeOK
    /\ kills \in 0 .. MaxKills
    /\ completed \subseteq onceDone /\ onceDone \subseteq Courses
    /\ certs \in [Courses -> Nat]
    /\ specCerts \in [Specs -> Nat]
    /\ enrolment \in [Specs -> {None, "enrolled", "completed"}]
    /\ lateRows \subseteq Specs
    /\ gen \in [Workers -> Generation]

\* From then on the course counts as earned, also when the application is reopened.
Earned(c) ==
    \/ c \in onceDone
    \/ \E i \in Ids : /\ attempt[i] # None /\ attempt[i].course = c /\ ~attempt[i].open
                      /\ answers[i].right \in Passing

\* For a certificate of a course the application has been completed before, or
\* there is an attempt with right answers on record for 50 points, also when
\* another submission has overwritten the score it was issued for; and for one of
\* a specialization, and the completion of an enrolment, there are certificates of
\* all courses.
CertificatesAreEarned ==
    /\ \A c \in Courses : certs[c] > 0 => Earned(c)
    /\ \A s \in Specs : specCerts[s] > 0 => \A c \in CoursesOf[s] : certs[c] > 0
    /\ \A s \in Specs : enrolment[s] = "completed" => specCerts[s] > 0

\* When no request is in service and none was killed, the specializations whose
\* courses are all certified are certified, although their courses may have been
\* certified at the same time, and their enrolments completed, but for those that
\* were made later; unless some specialization was certified twice, which ends
\* the requests that find it (views.py:272-298).
SpecializationsFollow ==
    (/\ kills = 0 /\ \A w \in Workers : gen[w].at = "idle"
     /\ \A s \in Specs : specCerts[s] < 2)
    => \A s \in Specs : (\A c \in CoursesOf[s] : certs[c] > 0)
                        => /\ specCerts[s] = 1
                           /\ enrolment[s] = "enrolled" => s \in lateRows

EarnedCourses == {c \in Courses : Earned(c)}
CertifiedCourses == {c \in Courses : certs[c] > 0}
Awarded == {s \in Specs : specCerts[s] > 0}
Marked == {s \in Specs : enrolment[s] = "completed"}

\* What the tables promise of the student's credentials.
Promise == INSTANCE Credentials WITH
    earned <- EarnedCourses, certified <- CertifiedCourses,
    awarded <- Awarded, marked <- Marked

\* Each step of the endpoints is one of the student's career or none: a course
\* is certified after it was earned, a specialization after all its courses, an
\* enrolment completed after its specialization, one at a time; and no later
\* submission, request or enrolment takes a certificate or a completion back, nor
\* does an application that is reopened (views.py:253-298, academic_programs/
\* views.py:306-315).
KeepsCredentials == Promise!Spec
=============================================================================

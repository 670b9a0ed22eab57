-------------------------------- MODULE Exams --------------------------------
(***************************************************************************)
(* The exams of one student (learnnov-cloud/apps/learnnov_exams): starting *)
(* an attempt and submitting it.  A course has an exam or none.  A score   *)
(* is the set of questions whose points it adds up.                        *)
(***************************************************************************)
EXTENDS Integers, FiniteSets

CONSTANTS
    Courses,
    Exams,          \* courses with an exam
    Questions,
    Workers,        \* processes that serve the student's requests
    MaxAttempts,    \* attempts (a bound, for TLC)
    MaxKills,       \* killed processes (a bound, for TLC)
    None

ASSUME ExamsAssumption ==
    /\ Exams \subseteq Courses
    /\ IsFiniteSet(Workers)
    /\ MaxAttempts \in Nat /\ MaxKills \in Nat

VARIABLES
    attempt,    \* ExamAttempt by id: a row or None
    answers,    \* StudentAnswer by attempt: questions answered right, and wrong
    req,        \* per process: the request in service
    kills       \* killed processes so far

examVars == <<attempt, answers, req>>

Ids == 1 .. MaxAttempts
\* late: more time than the limit and a minute of grace has passed.
Attempt == [course : Exams, open : BOOLEAN, late : BOOLEAN, score : SUBSET Questions]
ASSUME NoneIsNoAttempt == None \notin Attempt

Answers == [right : SUBSET Questions, wrong : SUBSET Questions]
NoAnswers == [right |-> {}, wrong |-> {}]
Given == {a \in Answers : a.right \cap a.wrong = {}}

Request == [at : {"idle", "create", "save"}, course : Exams \cup {None},
            id : Ids \cup {0}, given : Answers]
Idle == [at |-> "idle", course |-> None, id |-> 0, given |-> NoAnswers]

ExamInit ==
    /\ attempt = [i \in Ids |-> None]
    /\ answers = [i \in Ids |-> NoAnswers]
    /\ req = [w \in Workers |-> Idle]

Done(w) == req' = [req EXCEPT ![w] = Idle]

Open(c) == {i \in Ids : attempt[i] # None /\ attempt[i].course = c /\ attempt[i].open}
Starting(c) == {w \in Workers : req[w].at = "create" /\ req[w].course = c}
-----------------------------------------------------------------------------
(* StartExamView *)

\* Mutant: the student's active attempt is not looked for.
StartUnchecked(w, c) ==
    /\ req[w].at = "idle"
    /\ req' = [req EXCEPT ![w].at = "create", ![w].course = c]
    /\ UNCHANGED <<attempt, answers, kills>>

StartCheck(w, c) ==
    /\ req[w].at = "idle"
    /\ Open(c) = {}
    /\ req' = [req EXCEPT ![w].at = "create", ![w].course = c]
    /\ UNCHANGED <<attempt, answers, kills>>

StartCreate(w) ==
    /\ req[w].at = "create"
    /\ \E i \in Ids :
          /\ attempt[i] = None /\ \A j \in 1 .. (i - 1) : attempt[j] # None
          /\ attempt' = [attempt EXCEPT ![i] =
                [course |-> req[w].course, open |-> TRUE, late |-> FALSE, score |-> {}]]
    /\ Done(w)
    /\ UNCHANGED <<answers, kills>>

TimePasses(i) ==
    /\ attempt[i] # None /\ attempt[i].open /\ ~attempt[i].late
    /\ attempt' = [attempt EXCEPT ![i].late = TRUE]
    /\ UNCHANGED <<answers, req, kills>>
-----------------------------------------------------------------------------
(* SubmitExamView *)

\* Mutant: the time is not looked at.
SubmitAnytime(w, i, given) ==
    /\ req[w].at = "idle"
    /\ attempt[i] # None /\ attempt[i].open
    /\ req' = [req EXCEPT ![w].at = "save", ![w].id = i, ![w].given = given]
    /\ UNCHANGED <<attempt, answers, kills>>

\* A late attempt is refused, and stays open.
SubmitCheck(w, i, given) ==
    /\ req[w].at = "idle"
    /\ attempt[i] # None /\ attempt[i].open /\ ~attempt[i].late
    /\ req' = [req EXCEPT ![w].at = "save", ![w].id = i, ![w].given = given]
    /\ UNCHANGED <<attempt, answers, kills>>

Answered(a) == a.right \cup a.wrong

Scored(i, given) == [attempt EXCEPT ![i].open = FALSE, ![i].score = given.right]

\* Mutant: bulk_create(ignore_conflicts=True).
SaveIgnoringConflicts(w) ==
    /\ req[w].at = "save"
    /\ LET i == req[w].id
           fresh(a) == a \ Answered(answers[i])
       IN /\ answers' = [answers EXCEPT ![i].right = @ \cup fresh(req[w].given.right),
                                        ![i].wrong = @ \cup fresh(req[w].given.wrong)]
          /\ attempt' = Scored(i, req[w].given)
    /\ Done(w)
    /\ UNCHANGED kills

\* Mutant: the answers of an earlier submission are deleted first.
SaveReplacing(w) ==
    /\ req[w].at = "save"
    /\ answers' = [answers EXCEPT ![req[w].id] = req[w].given]
    /\ attempt' = Scored(req[w].id, req[w].given)
    /\ Done(w)
    /\ UNCHANGED kills

\* One transaction: of a question answered before, the second answer is
\* refused, and with it the whole submission.
SubmitSave(w) ==
    /\ req[w].at = "save"
    /\ LET i == req[w].id
           given == req[w].given
       IN IF Answered(given) \cap Answered(answers[i]) = {}
          THEN /\ answers' = [answers EXCEPT ![i].right = @ \cup given.right,
                                             ![i].wrong = @ \cup given.wrong]
               /\ attempt' = Scored(i, given)
          ELSE UNCHANGED <<attempt, answers>>
    /\ Done(w)
    /\ UNCHANGED kills

Kill(w) ==
    /\ req[w].at # "idle"
    /\ kills < MaxKills
    /\ kills' = kills + 1
    /\ Done(w)
    /\ UNCHANGED <<attempt, answers>>

ExamStep(w) ==
    \/ \E c \in Exams : StartCheck(w, c)
    \/ StartCreate(w)
    \/ \E i \in Ids, given \in Given : SubmitCheck(w, i, given)
    \/ SubmitSave(w)
    \/ Kill(w)
-----------------------------------------------------------------------------
ExamTypeOK ==
    /\ attempt \in [Ids -> Attempt \cup {None}]
    /\ answers \in [Ids -> Answers]
    /\ req \in [Workers -> Request]

\* However starts overlap, a student never has more open attempts of an exam,
\* with those about to be created, than processes may have found none.
OpenAttemptsBounded ==
    \A c \in Exams : Cardinality(Open(c)) + Cardinality(Starting(c)) <= Cardinality(Workers)

\* Whatever submissions overlap, no question counts in the score of an attempt
\* without a right answer on record, nor is any question answered twice.
ScoreIsEarned ==
    \A i \in Ids :
        /\ attempt[i] # None => attempt[i].score \subseteq answers[i].right
        /\ answers[i].right \cap answers[i].wrong = {}

Submitting(c) == {w \in Workers : /\ req[w].at = "save" /\ attempt[req[w].id] # None
                                  /\ attempt[req[w].id].course = c}
\* Some attempt of the exam is open and time has run out in all that are, and no
\* request that found it otherwise is in service.
Overdue(c) ==
    /\ Open(c) # {} /\ \A i \in Open(c) : attempt[i].late
    /\ Starting(c) = {} /\ Submitting(c) = {}

\* Time that has run out is out for good: an exam with nothing but late attempts
\* open can neither be handed in nor started again, and no score of it changes.
OverdueCloses ==
    [][\A c \in Exams : Overdue(c) =>
          /\ Overdue(c)'
          /\ \A i \in Ids : attempt[i] # None /\ attempt[i].course = c
                            => attempt'[i] = attempt[i] /\ answers'[i] = answers[i]]_examVars
=============================================================================

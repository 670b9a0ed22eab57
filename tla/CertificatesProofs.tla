-------------------------- MODULE CertificatesProofs --------------------------
(***************************************************************************)
(* Proofs about Certificates, and with it Exams, for all courses,          *)
(* questions and specializations and any finite number of processes.       *)
(***************************************************************************)
EXTENDS Certificates, FiniteSetTheorems, TLAPS

USE DEF applications, enrolments

-----------------------------------------------------------------------------
(* Exams *)

\* What a request holds is what it needs to be served.
Asked(w) == /\ req[w].at = "create" => req[w].course \in Exams
            /\ req[w].at = "save" => req[w].id \in Ids /\ attempt[req[w].id] \in Attempt
            /\ req[w].given.right \cap req[w].given.wrong = {}
AllAsked == \A w \in Workers : Asked(w)

ExamInv == ExamTypeOK /\ AllAsked /\ ScoreIsEarned /\ OpenAttemptsBounded

\* Attempts are neither lost nor opened again, and answers stay on record.
Lasting ==
    \A i \in Ids :
        /\ answers[i].right \subseteq answers'[i].right
        /\ attempt[i] # None => /\ attempt'[i] # None /\ attempt'[i].course = attempt[i].course
                                /\ attempt'[i].open => attempt[i].open

LEMMA FewWorkers ==
    \A c \in Exams : /\ IsFiniteSet(Starting(c)) /\ IsFiniteSet(Open(c))
                     /\ Cardinality(Starting(c)) \in Nat /\ Cardinality(Open(c)) \in Nat
                     /\ Cardinality(Starting(c)) <= Cardinality(Workers)
                     /\ Cardinality(Workers) \in Nat
<1>1. IsFiniteSet(Ids)
  BY FS_Interval, ExamsAssumption DEF Ids
<1> TAKE c \in Exams
<1>2. Starting(c) \subseteq Workers /\ Open(c) \subseteq Ids
  BY DEF Starting, Open
<1>3. IsFiniteSet(Starting(c)) /\ IsFiniteSet(Open(c))
  BY <1>1, <1>2, FS_Subset, ExamsAssumption
<1>4. QED
  BY <1>2, <1>3, FS_Subset, FS_CardinalityType, ExamsAssumption

LEMMA FewWorkersNext ==
    \A c \in Exams : /\ IsFiniteSet(Starting(c)') /\ IsFiniteSet(Open(c)')
                     /\ Cardinality(Starting(c)') \in Nat /\ Cardinality(Open(c)') \in Nat
                     /\ Cardinality(Starting(c)') <= Cardinality(Workers)
<1>1. IsFiniteSet(Ids)
  BY FS_Interval, ExamsAssumption DEF Ids
<1> TAKE c \in Exams
<1>2. Starting(c)' \subseteq Workers /\ Open(c)' \subseteq Ids
  BY DEF Starting, Open
<1>3. IsFiniteSet(Starting(c)') /\ IsFiniteSet(Open(c)')
  BY <1>1, <1>2, FS_Subset, ExamsAssumption
<1>4. QED
  BY <1>2, <1>3, FS_Subset, FS_CardinalityType, ExamsAssumption

\* Of fewer open and starting attempts there are not more.
LEMMA FewerOpen ==
    ASSUME ExamInv,
           \A c \in Exams : Open(c)' \subseteq Open(c) /\ Starting(c)' \subseteq Starting(c)
    PROVE  OpenAttemptsBounded'
<1> SUFFICES ASSUME NEW c \in Exams
             PROVE  Cardinality(Open(c)') + Cardinality(Starting(c)') <= Cardinality(Workers)
  BY DEF OpenAttemptsBounded
<1>1. /\ Cardinality(Open(c)') <= Cardinality(Open(c))
      /\ Cardinality(Starting(c)') <= Cardinality(Starting(c))
  BY FewWorkers, FS_Subset
<1>2. Cardinality(Open(c)) + Cardinality(Starting(c)) <= Cardinality(Workers)
  BY DEF ExamInv, OpenAttemptsBounded
<1>3. QED
  BY <1>1, <1>2, FewWorkers, FewWorkersNext

LEMMA IdleType == /\ Idle \in Request /\ Idle.at = "idle" /\ Idle.course = None
                  /\ Idle.given.right \cap Idle.given.wrong = {}
  BY DEF Idle, Request, NoAnswers, Answers

LEMMA StartCheckInv ==
    ASSUME ExamInv, NEW w \in Workers, NEW c \in Exams, StartCheck(w, c)
    PROVE  ExamInv' /\ Lasting
<1> USE DEF StartCheck
<1> DEFINE r == [req[w] EXCEPT !.at = "create", !.course = c]
<1>1. /\ req[w] \in Request /\ r \in Request /\ r.at = "create" /\ r.course = c
      /\ r.given = req[w].given
  BY DEF ExamInv, ExamTypeOK, Request
<1>2. req' = [req EXCEPT ![w] = r]
  BY DEF ExamInv, ExamTypeOK
<1> HIDE DEF r
<1>3. ExamTypeOK' /\ AllAsked'
  BY <1>1, <1>2 DEF ExamInv, ExamTypeOK, AllAsked, Asked
<1>4. OpenAttemptsBounded'
  <2> SUFFICES ASSUME NEW d \in Exams
               PROVE  Cardinality(Open(d)') + Cardinality(Starting(d)') <= Cardinality(Workers)
    BY DEF OpenAttemptsBounded
  <2>1. Open(d)' = Open(d)
    BY DEF Open
  <2>2. CASE d = c
    <3>1. Open(d)' = {}
      BY <2>1, <2>2
    <3>2. QED
      BY <3>1, FS_EmptySet, FewWorkers, FewWorkersNext
  <2>3. CASE d # c
    <3>1. Starting(d)' = Starting(d)
      BY <1>1, <1>2, <2>3 DEF Starting, ExamInv, ExamTypeOK
    <3>2. QED
      BY <2>1, <3>1 DEF ExamInv, OpenAttemptsBounded
  <2>4. QED
    BY <2>2, <2>3
<1>5. QED
  BY <1>3, <1>4 DEF ExamInv, ScoreIsEarned, Lasting

LEMMA StartCreateInv ==
    ASSUME ExamInv, NEW w \in Workers, StartCreate(w)
    PROVE  ExamInv' /\ Lasting
<1> DEFINE c == req[w].course
           new == [course |-> c, open |-> TRUE, late |-> FALSE, score |-> {}]
<1>1. c \in Exams /\ req[w].at = "create" /\ new \in Attempt
  BY DEF StartCreate, ExamInv, AllAsked, Asked, Attempt
<1>2. PICK i \in Ids : attempt[i] = None /\ attempt' = [attempt EXCEPT ![i] = new]
  BY DEF StartCreate
<1>3. req' = [req EXCEPT ![w] = Idle] /\ answers' = answers
  BY DEF StartCreate, Done
<1>4. new.course = c /\ new.open /\ new.score = {}
  OBVIOUS
<1> HIDE DEF new
<1>5. ExamTypeOK' /\ AllAsked'
  BY <1>1, <1>2, <1>3, IdleType DEF ExamInv, ExamTypeOK, AllAsked, Asked
<1>6. OpenAttemptsBounded'
  <2> SUFFICES ASSUME NEW d \in Exams
               PROVE  Cardinality(Open(d)') + Cardinality(Starting(d)') <= Cardinality(Workers)
    BY DEF OpenAttemptsBounded
  <2>1. Cardinality(Open(d)) + Cardinality(Starting(d)) <= Cardinality(Workers)
    BY DEF ExamInv, OpenAttemptsBounded
  <2>2. CASE d = c
    <3>1. Open(d)' \subseteq Open(d) \cup {i}
      BY <1>2 DEF Open, ExamInv, ExamTypeOK
    <3>2. Cardinality(Open(d) \cup {i}) <= Cardinality(Open(d)) + 1
      <4>1. IsFiniteSet(Open(d)) /\ Cardinality(Open(d)) \in Nat
        BY FewWorkers
      <4>2. Cardinality(Open(d) \cup {i})
               = IF i \in Open(d) THEN Cardinality(Open(d)) ELSE Cardinality(Open(d)) + 1
        BY <4>1, FS_AddElement
      <4>3. QED
        BY <4>1, <4>2
    <3>3. Cardinality(Open(d)') <= Cardinality(Open(d) \cup {i})
      BY <3>1, FewWorkers, FS_AddElement, FS_Subset
    <3>4. Starting(d)' = Starting(d) \ {w} /\ w \in Starting(d)
      BY <1>1, <1>3, <2>2, IdleType DEF Starting, ExamInv, ExamTypeOK
    <3>5. Cardinality(Starting(d)') = Cardinality(Starting(d)) - 1
      BY <3>4, FewWorkers, FS_RemoveElement
    <3>6. Cardinality(Open(d) \cup {i}) \in Nat
      BY FewWorkers, FS_AddElement, FS_CardinalityType
    <3>7. QED
      BY <2>1, <3>2, <3>3, <3>5, <3>6, FewWorkers, FewWorkersNext
  <2>3. CASE d # c
    <3>1. Open(d)' = Open(d)
      BY <1>2, <1>4, <2>3 DEF Open, ExamInv, ExamTypeOK
    <3>2. Starting(d)' = Starting(d)
      BY <1>1, <1>3, <2>3, IdleType DEF Starting, ExamInv, ExamTypeOK
    <3>3. QED
      BY <2>1, <3>1, <3>2
  <2>4. QED
    BY <2>2, <2>3
<1>7. ScoreIsEarned'
  BY <1>2, <1>3, <1>4 DEF ExamInv, ExamTypeOK, ScoreIsEarned
<1>8. Lasting
  BY <1>2, <1>3 DEF Lasting, ExamInv, ExamTypeOK
<1>9. QED
  BY <1>5, <1>6, <1>7, <1>8 DEF ExamInv

LEMMA TimePassesInv ==
    ASSUME ExamInv, NEW i \in Ids, TimePasses(i)
    PROVE  ExamInv' /\ Lasting
<1> DEFINE a == [attempt[i] EXCEPT !.late = TRUE]
<1>1. attempt[i] \in Attempt /\ a \in Attempt /\ a # None
  BY NoneIsNoAttempt DEF TimePasses, ExamInv, ExamTypeOK, Attempt
<1>2. /\ a.course = attempt[i].course /\ a.open = attempt[i].open
      /\ a.score = attempt[i].score
  BY <1>1 DEF Attempt
<1>3. attempt' = [attempt EXCEPT ![i] = a] /\ answers' = answers /\ req' = req
  BY DEF TimePasses, ExamInv, ExamTypeOK
<1>4. attempt[i] # None
  BY DEF TimePasses
<1> HIDE DEF a
<1>5. ExamTypeOK' /\ AllAsked'
  BY <1>1, <1>3 DEF ExamInv, ExamTypeOK, AllAsked, Asked
<1>6. OpenAttemptsBounded'
  <2>1. \A c \in Exams : Open(c)' \subseteq Open(c) /\ Starting(c)' \subseteq Starting(c)
    BY <1>1, <1>2, <1>3, <1>4 DEF Open, Starting, ExamInv, ExamTypeOK
  <2>2. QED
    BY <2>1, FewerOpen
<1>7. ScoreIsEarned' /\ Lasting
  BY <1>1, <1>2, <1>3, <1>4 DEF ScoreIsEarned, Lasting, ExamInv, ExamTypeOK
<1>8. QED
  BY <1>5, <1>6, <1>7 DEF ExamInv

LEMMA SubmitCheckInv ==
    ASSUME ExamInv, NEW w \in Workers, NEW i \in Ids, NEW given \in Given,
           SubmitCheck(w, i, given)
    PROVE  ExamInv' /\ Lasting
<1> DEFINE r == [req[w] EXCEPT !.at = "save", !.id = i, !.given = given]
<1>1. given \in Answers /\ given.right \cap given.wrong = {}
  BY DEF Given
<1>2. /\ r \in Request /\ r.at = "save" /\ r.id = i /\ r.given = given
      /\ req[w].at = "idle" /\ attempt[i] \in Attempt
  BY <1>1 DEF SubmitCheck, ExamInv, ExamTypeOK, Request
<1>3. /\ req' = [req EXCEPT ![w] = r] /\ attempt' = attempt /\ answers' = answers
  BY DEF SubmitCheck, ExamInv, ExamTypeOK
<1> HIDE DEF r
<1>4. ExamTypeOK' /\ AllAsked'
  BY <1>1, <1>2, <1>3 DEF ExamInv, ExamTypeOK, AllAsked, Asked
<1>5. OpenAttemptsBounded'
  <2>1. \A c \in Exams : Open(c)' \subseteq Open(c) /\ Starting(c)' \subseteq Starting(c)
    BY <1>2, <1>3 DEF Open, Starting, ExamInv, ExamTypeOK
  <2>2. QED
    BY <2>1, FewerOpen
<1>6. QED
  BY <1>3, <1>4, <1>5 DEF ExamInv, ScoreIsEarned, Lasting

\* A request ends, and nothing else happens.
LEMMA DoneInv ==
    ASSUME ExamInv, NEW w \in Workers, Done(w), UNCHANGED <<attempt, answers>>
    PROVE  ExamInv' /\ Lasting
<1>1. ExamTypeOK' /\ AllAsked'
  BY IdleType DEF Done, ExamInv, ExamTypeOK, AllAsked, Asked
<1>2. OpenAttemptsBounded'
  <2>1. \A c \in Exams : Open(c)' \subseteq Open(c) /\ Starting(c)' \subseteq Starting(c)
    BY IdleType DEF Done, Open, Starting, ExamInv, ExamTypeOK
  <2>2. QED
    BY <2>1, FewerOpen
<1>3. QED
  BY <1>1, <1>2 DEF ExamInv, ScoreIsEarned, Lasting

LEMMA SubmitSaveInv ==
    ASSUME ExamInv, NEW w \in Workers, SubmitSave(w)
    PROVE  ExamInv' /\ Lasting
<1> DEFINE i == req[w].id
           given == req[w].given
<1>1. /\ i \in Ids /\ attempt[i] \in Attempt /\ answers[i] \in Answers
      /\ given \in Answers /\ given.right \cap given.wrong = {}
  BY DEF SubmitSave, ExamInv, AllAsked, Asked, ExamTypeOK, Request
<1>2. Done(w)
  BY DEF SubmitSave
<1>3. CASE Answered(given) \cap Answered(answers[i]) # {}
  <2>1. UNCHANGED <<attempt, answers>>
    BY <1>3 DEF SubmitSave
  <2>2. QED
    BY <1>2, <2>1, DoneInv
<1>4. CASE Answered(given) \cap Answered(answers[i]) = {}
  <2> DEFINE a == [attempt[i] EXCEPT !.open = FALSE, !.score = given.right]
             b == [answers[i] EXCEPT !.right = answers[i].right \cup given.right,
                                     !.wrong = answers[i].wrong \cup given.wrong]
  <2>1. attempt' = [attempt EXCEPT ![i] = a] /\ answers' = [answers EXCEPT ![i] = b]
    BY <1>4 DEF SubmitSave, Scored, ExamInv, ExamTypeOK
  <2>2. a \in Attempt /\ a.course = attempt[i].course /\ a.open = FALSE /\ a.score = given.right
    BY <1>1 DEF Attempt, Answers
  <2>3. /\ b \in Answers /\ b.right = answers[i].right \cup given.right
        /\ b.wrong = answers[i].wrong \cup given.wrong
    BY <1>1 DEF Answers
  <2>4. a # None /\ attempt[i] # None
    BY <1>1, <2>2, NoneIsNoAttempt
  <2> HIDE DEF a, b
  <2>5. ExamTypeOK' /\ AllAsked'
    BY <1>1, <1>2, <2>1, <2>2, <2>3, IdleType DEF Done, ExamInv, ExamTypeOK, AllAsked, Asked
  <2>6. OpenAttemptsBounded'
    <3>1. \A c \in Exams : Open(c)' \subseteq Open(c) /\ Starting(c)' \subseteq Starting(c)
      BY <1>1, <1>2, <2>1, <2>2, IdleType DEF Done, Open, Starting, ExamInv, ExamTypeOK
    <3>2. QED
      BY <3>1, FewerOpen
  <2>7. b.right \cap b.wrong = {}
    <3>1. answers[i].right \cap answers[i].wrong = {}
      BY <1>1 DEF ExamInv, ScoreIsEarned
    <3>2. QED
      BY <1>1, <1>4, <2>3, <3>1 DEF Answered
  <2>8. ScoreIsEarned' /\ Lasting
    BY <1>1, <2>1, <2>2, <2>3, <2>4, <2>7 DEF ScoreIsEarned, Lasting, ExamInv, ExamTypeOK
  <2>9. QED
    BY <2>5, <2>6, <2>8 DEF ExamInv
<1>5. QED
  BY <1>3, <1>4

LEMMA ExamStepInv ==
    ASSUME ExamInv, NEW w \in Workers, ExamStep(w)
    PROVE  ExamInv' /\ Lasting
  BY StartCheckInv, StartCreateInv, SubmitCheckInv, SubmitSaveInv, DoneInv
  DEF ExamStep, Kill
-----------------------------------------------------------------------------
(* Certificates *)

\* What a request for a certificate has seen is still so, for no certificate
\* is ever taken back.
Shown(w) ==
    /\ gen[w].at = "create" => gen[w].course \in Courses /\ Earned(gen[w].course)
    /\ gen[w].at # "idle" /\ gen[w].at # "create" =>
          /\ gen[w].spec \in Specs /\ gen[w].left \subseteq CoursesOf[gen[w].spec]
          /\ \A c \in CoursesOf[gen[w].spec] \ gen[w].left : certs[c] > 0
    /\ gen[w].at \in {"issue", "mark"} => gen[w].left = {}
    /\ gen[w].at = "mark" => specCerts[gen[w].spec] > 0
AllShown == \A w \in Workers : Shown(w)

\* A request that has still to look whether a specialization is to be certified.
Looking(w, s) ==
    \/ gen[w].at \in {"check", "issue", "mark"} /\ s \in gen[w].specs
    \/ gen[w].at \in {"check", "issue"} /\ s = gen[w].spec
Marking(w, s) == gen[w].at = "mark" /\ s = gen[w].spec

Undisturbed == kills = 0 /\ \A s \in Specs : specCerts[s] < 2
Certified(s) == \A c \in CoursesOf[s] : certs[c] > 0

\* Where all courses are certified some request is about to certify the
\* specialization, and where that is done, to mark the enrolment.
Followed(s) ==
    /\ Certified(s) /\ specCerts[s] = 0 => \E w \in Workers : Looking(w, s)
    /\ specCerts[s] > 0 /\ enrolment[s] = "enrolled" /\ s \notin lateRows
          => \E w \in Workers : Marking(w, s)
Following == Undisturbed => \A s \in Specs : Followed(s)

Inv == TypeOK /\ ExamInv /\ AllShown /\ CertificatesAreEarned /\ Following

LEMMA PassedIsEarned ==
    ASSUME Inv, NEW c \in Courses, CheckCourseCompletion(c)
    PROVE  Earned(c)
<1>1. CASE c \in completed
  BY <1>1 DEF Earned, Inv, TypeOK
<1>2. CASE Passed(c)
  <2>1. PICK i \in Ids : /\ attempt[i] # None /\ attempt[i].course = c
                         /\ ~attempt[i].open /\ attempt[i].score \in Passing
    BY <1>2 DEF Passed
  <2>2. attempt[i].score \subseteq answers[i].right /\ answers[i].right \in SUBSET Questions
    BY <2>1 DEF Inv, ExamInv, ScoreIsEarned, ExamTypeOK, Answers
  <2>3. answers[i].right \in Passing
    BY <2>1, <2>2, CertificatesAssumption
  <2>4. QED
    BY <2>1, <2>3 DEF Earned
<1>3. QED
  BY <1>1, <1>2 DEF CheckCourseCompletion

\* What has been earned stays earned, whatever is submitted and started.
LEMMA EarnedLasts ==
    ASSUME Inv, ExamTypeOK', Lasting, onceDone \subseteq onceDone', NEW c \in Courses, Earned(c)
    PROVE  Earned(c)'
<1>1. CASE c \in onceDone
  BY <1>1 DEF Earned
<1>2. CASE c \notin onceDone
  <2>1. PICK i \in Ids : /\ attempt[i] # None /\ attempt[i].course = c /\ ~attempt[i].open
                         /\ answers[i].right \in Passing
    BY <1>2 DEF Earned
  <2>2. /\ attempt'[i] # None /\ attempt'[i].course = c /\ ~attempt'[i].open
        /\ answers[i].right \subseteq answers'[i].right
    BY <2>1 DEF Lasting
  <2>3. answers'[i].right \in SUBSET Questions
    BY DEF ExamTypeOK, Answers
  <2>4. answers'[i].right \in Passing
    BY <2>1, <2>2, <2>3, CertificatesAssumption
  <2>5. QED
    BY <2>2, <2>4 DEF Earned
<1>3. QED
  BY <1>1, <1>2

\* Steps of exams, and of administrators, leave certificates alone.
LEMMA ExamsInv ==
    ASSUME Inv, ExamInv', Lasting, onceDone \subseteq onceDone',
           completed' \subseteq onceDone', onceDone' \subseteq Courses,
           kills' \in 0 .. MaxKills, kills <= kills', UNCHANGED <<certs, specCerts, enrolments, gen>>
    PROVE  Inv'
<1>1. \A c \in Courses : Earned(c) => Earned(c)'
  BY EarnedLasts DEF ExamInv
<1>2. TypeOK'
  BY DEF Inv, TypeOK, ExamInv
<1>3. CertificatesAreEarned'
  BY <1>1 DEF Inv, CertificatesAreEarned
<1>4. AllShown'
  BY <1>1 DEF Inv, AllShown, Shown
<1>5. Following'
  <2>1. Undisturbed' => Undisturbed
    BY DEF Undisturbed, Inv, TypeOK
  <2>2. \A s \in Specs : Followed(s)' = Followed(s)
    BY DEF Followed, Certified, Looking, Marking
  <2>3. QED
    BY <2>1, <2>2 DEF Inv, Following
<1>6. QED
  BY <1>2, <1>3, <1>4, <1>5 DEF Inv

LEMMA ExamsUnchanged ==
    ASSUME Inv, UNCHANGED <<examVars, applications>>
    PROVE  /\ ExamInv' /\ \A c \in Courses : Earned(c)' = Earned(c)
<1>1. ExamInv'
  BY DEF Inv, ExamInv, examVars, ExamTypeOK, AllAsked, Asked, ScoreIsEarned, OpenAttemptsBounded,
         Open, Starting
<1>2. QED
  BY <1>1 DEF examVars, Earned

LEMMA OffType == Off \in Generation /\ Off.at = "idle"
  BY DEF Off, Generation

\* A step of one request, whose certificates only grow in number.
LEMMA RequestStep ==
    ASSUME Inv, NEW w \in Workers, NEW g \in Generation, gen' = [gen EXCEPT ![w] = g],
           UNCHANGED <<examVars, applications>>, kills' \in 0 .. MaxKills,
           certs' \in [Courses -> Nat], \A c \in Courses : certs[c] <= certs'[c],
           specCerts' \in [Specs -> Nat], \A s \in Specs : specCerts[s] <= specCerts'[s],
           enrolment' \in [Specs -> {None, "enrolled", "completed"}], lateRows' \subseteq Specs,
           Shown(w)', CertificatesAreEarned'
    PROVE  TypeOK' /\ ExamInv' /\ AllShown' /\ CertificatesAreEarned'
<1>1. ExamInv' /\ \A c \in Courses : Earned(c)' = Earned(c)
  BY ExamsUnchanged
<1>2. TypeOK'
  BY <1>1 DEF Inv, TypeOK, ExamInv
<1>3. AllShown'
  <2> SUFFICES ASSUME NEW v \in Workers, v # w
               PROVE  Shown(v)'
    BY DEF AllShown
  <2>1. gen'[v] = gen[v] /\ Shown(v) /\ gen[v] \in Generation
    BY DEF Inv, TypeOK, AllShown
  <2>2. CASE gen[v].at = "create"
    BY <1>1, <2>1, <2>2 DEF Shown
  <2>3. CASE gen[v].at = "idle"
    BY <2>1, <2>3 DEF Shown
  <2>4. CASE gen[v].at \notin {"idle", "create"}
    <3>1. /\ gen[v].spec \in Specs /\ gen[v].left \subseteq CoursesOf[gen[v].spec]
          /\ \A c \in CoursesOf[gen[v].spec] \ gen[v].left : certs[c] > 0
      BY <2>1, <2>4 DEF Shown
    <3>2. CoursesOf[gen[v].spec] \subseteq Courses
      BY <3>1, CertificatesAssumption
    <3>3. \A c \in Courses : certs[c] \in Nat /\ certs'[c] \in Nat /\ certs[c] <= certs'[c]
      BY DEF Inv, TypeOK
    <3>4. \A c \in CoursesOf[gen[v].spec] \ gen[v].left : certs'[c] > 0
      BY <3>1, <3>2, <3>3
    <3>5. gen[v].at = "mark" => specCerts'[gen[v].spec] > 0
      BY <2>1, <3>1 DEF Shown, Inv, TypeOK
    <3>6. QED
      BY <2>1, <2>4, <3>1, <3>4, <3>5 DEF Shown
  <2>5. QED
    BY <2>2, <2>3, <2>4
<1>4. QED
  BY <1>1, <1>2, <1>3

\* Where no request marks, and none stops looking before it has certified,
\* what follows is still to follow.
LEMMA Onward ==
    ASSUME Inv, NEW w \in Workers, NEW g \in Generation, gen' = [gen EXCEPT ![w] = g],
           UNCHANGED <<certs, specCerts, enrolments>>, kills' = kills,
           gen[w].at # "mark",
           \A s \in Specs : /\ Undisturbed /\ Certified(s) /\ specCerts[s] = 0 /\ Looking(w, s)
                            => Looking(w, s)'
    PROVE  Following'
<1> SUFFICES ASSUME NEW s \in Specs, Undisturbed
             PROVE  Followed(s)'
  BY DEF Following, Undisturbed
<1>1. Followed(s)
  BY DEF Inv, Following
<1>2. \A v \in Workers \ {w} : gen'[v] = gen[v]
  BY DEF Inv, TypeOK
<1>3. Certified(s)' /\ specCerts'[s] = 0 => \E v \in Workers : Looking(v, s)'
  <2> SUFFICES ASSUME Certified(s)', specCerts'[s] = 0
               PROVE  \E v \in Workers : Looking(v, s)'
    OBVIOUS
  <2>1. Certified(s) /\ specCerts[s] = 0
    BY DEF Certified
  <2>2. PICK v \in Workers : Looking(v, s)
    BY <1>1, <2>1 DEF Followed
  <2>3. CASE v = w
    BY <2>1, <2>2, <2>3
  <2>4. CASE v # w
    BY <1>2, <2>2, <2>4 DEF Looking
  <2>5. QED
    BY <2>3, <2>4
<1>4. specCerts'[s] > 0 /\ enrolment'[s] = "enrolled" /\ s \notin lateRows' => \E v \in Workers : Marking(v, s)'
  <2> SUFFICES ASSUME specCerts[s] > 0, enrolment[s] = "enrolled", s \notin lateRows
               PROVE  \E v \in Workers : Marking(v, s)'
    OBVIOUS
  <2>1. PICK v \in Workers : Marking(v, s)
    BY <1>1 DEF Followed
  <2>2. v # w
    BY <2>1 DEF Marking
  <2>3. QED
    BY <1>2, <2>1, <2>2 DEF Marking
<1>5. QED
  BY <1>3, <1>4 DEF Followed

\* Going on, a request looks at each specialization that is left.
LEMMA GoesOn ==
    ASSUME NEW w \in Workers, NEW S \in SUBSET Specs, GoOn(w, S), gen \in [Workers -> Generation]
    PROVE  \E g \in Generation :
               /\ gen' = [gen EXCEPT ![w] = g]
               /\ Shown(w)'
               /\ g.at \in {"idle", "check"}
               /\ \A s \in S : Looking(w, s)'
<1>1. CASE S = {}
  <2>1. gen' = [gen EXCEPT ![w] = Off]
    BY <1>1 DEF GoOn, Stop
  <2>2. gen'[w] = Off
    BY <2>1
  <2>3. QED
    BY <1>1, <2>1, <2>2, OffType DEF Shown
<1>2. CASE S # {}
  <2>1. PICK s \in S : Go(w, "check", None, S \ {s}, s, CoursesOf[s])
    BY <1>2 DEF GoOn
  <2> DEFINE g == [at |-> "check", course |-> None, specs |-> S \ {s}, spec |-> s,
                   left |-> CoursesOf[s]]
  <2>2. g \in Generation
    BY CertificatesAssumption DEF Generation
  <2>3. gen' = [gen EXCEPT ![w] = g]
    BY <2>1 DEF Go
  <2>4. gen'[w] = g
    BY <2>3
  <2>5. Shown(w)'
    BY <2>4 DEF Shown
  <2>6. \A t \in S : Looking(w, t)'
    BY <2>4 DEF Looking
  <2>7. QED
    BY <2>2, <2>3, <2>5, <2>6
<1>3. QED
  BY <1>1, <1>2

LEMMA Stops ==
    ASSUME NEW w \in Workers, Stop(w), gen \in [Workers -> Generation]
    PROVE  gen' = [gen EXCEPT ![w] = Off] /\ Off \in Generation /\ Shown(w)'
<1>1. gen' = [gen EXCEPT ![w] = Off] /\ gen'[w] = Off
  BY DEF Stop
<1>2. QED
  BY <1>1, OffType DEF Shown

\* A step of a request that writes nothing.
LEMMA ReadingStep ==
    ASSUME Inv, NEW w \in Workers, NEW g \in Generation, gen' = [gen EXCEPT ![w] = g],
           UNCHANGED <<examVars, kills, applications, certs, specCerts, enrolments>>, Shown(w)',
           gen[w].at # "mark",
           \A s \in Specs : /\ Undisturbed /\ Certified(s) /\ specCerts[s] = 0 /\ Looking(w, s)
                            => Looking(w, s)'
    PROVE  Inv'
<1>1. Following'
  BY Onward
<1>2. CertificatesAreEarned'
  BY ExamsUnchanged DEF Inv, CertificatesAreEarned
<1>3. \A n \in Nat : n <= n
  OBVIOUS
<1>4. TypeOK' /\ ExamInv' /\ AllShown' /\ CertificatesAreEarned'
  BY <1>2, <1>3, RequestStep DEF Inv, TypeOK
<1>5. QED
  BY <1>1, <1>4 DEF Inv

LEMMA BeginInv ==
    ASSUME Inv, NEW w \in Workers, NEW c \in Courses, Begin(w, c)
    PROVE  Inv'
<1>1. gen[w].at = "idle" /\ gen \in [Workers -> Generation]
  BY DEF Begin, Inv, TypeOK
<1>2. \A s \in Specs : ~Looking(w, s)
  BY <1>1 DEF Looking
<1>3. UNCHANGED <<examVars, kills, applications, certs, specCerts, enrolments>>
  BY DEF Begin
<1>4. CASE Go(w, "create", c, {}, None, {})
  <2> DEFINE g == [at |-> "create", course |-> c, specs |-> {}, spec |-> None, left |-> {}]
  <2>1. g \in Generation /\ gen' = [gen EXCEPT ![w] = g]
    BY <1>4 DEF Generation, Go
  <2>2. gen'[w] = g
    BY <1>1, <2>1
  <2>3. Earned(c)
    BY PassedIsEarned DEF Begin
  <2>4. Earned(c)'
    BY <1>3, <2>3, ExamsUnchanged
  <2>5. Shown(w)'
    BY <2>2, <2>4 DEF Shown
  <2> HIDE DEF g
  <2>6. QED
    BY <1>1, <1>2, <1>3, <2>1, <2>5, ReadingStep
<1>5. CASE GoOn(w, SpecsOf(c))
  <2>1. SpecsOf(c) \in SUBSET Specs
    BY DEF SpecsOf
  <2>2. PICK g \in Generation : gen' = [gen EXCEPT ![w] = g] /\ Shown(w)'
    BY <1>1, <1>5, <2>1, GoesOn
  <2>3. QED
    BY <1>1, <1>2, <1>3, <2>2, ReadingStep
<1>6. QED
  BY <1>4, <1>5 DEF Begin

LEMMA CheckCourseInv ==
    ASSUME Inv, NEW w \in Workers, CheckCourse(w)
    PROVE  Inv'
<1>1. /\ gen[w].at = "check" /\ gen \in [Workers -> Generation] /\ gen[w] \in Generation
      /\ Shown(w) /\ gen[w].specs \in SUBSET Specs
  BY DEF CheckCourse, Inv, TypeOK, AllShown, Generation
<1>2. UNCHANGED <<examVars, kills, applications, certs, specCerts, enrolments>>
  BY DEF CheckCourse
<1>3. PICK c \in gen[w].left : IF certs[c] > 0
                              THEN gen' = [gen EXCEPT ![w].left = @ \ {c}]
                              ELSE GoOn(w, gen[w].specs)
  BY DEF CheckCourse
<1>4. c \in CoursesOf[gen[w].spec]
  BY <1>1 DEF Shown
<1>5. CASE certs[c] > 0
  <2> DEFINE g == [gen[w] EXCEPT !.left = gen[w].left \ {c}]
  <2>1. gen' = [gen EXCEPT ![w] = g]
    BY <1>1, <1>3, <1>5
  <2>2. /\ g \in Generation /\ g.at = "check" /\ g.specs = gen[w].specs /\ g.spec = gen[w].spec
        /\ g.left = gen[w].left \ {c}
    BY <1>1 DEF Generation
  <2>3. gen'[w] = g
    BY <1>1, <2>1
  <2> HIDE DEF g
  <2>4. Shown(w)'
    BY <1>1, <1>2, <1>5, <2>2, <2>3 DEF Shown
  <2>5. \A s \in Specs : Looking(w, s) => Looking(w, s)'
    BY <1>1, <2>2, <2>3 DEF Looking
  <2>6. QED
    BY <1>1, <1>2, <2>1, <2>2, <2>4, <2>5, ReadingStep
<1>6. CASE ~ certs[c] > 0
  <2>1. PICK g \in Generation : /\ gen' = [gen EXCEPT ![w] = g] /\ Shown(w)'
                                /\ \A s \in gen[w].specs : Looking(w, s)'
    BY <1>1, <1>3, <1>6, GoesOn
  <2>2. \A s \in Specs : Certified(s) /\ Looking(w, s) => s \in gen[w].specs
    BY <1>4, <1>6 DEF Certified, Looking
  <2>3. QED
    BY <1>1, <1>2, <2>1, <2>2, ReadingStep
<1>7. QED
  BY <1>5, <1>6

LEMMA FindSpecializationInv ==
    ASSUME Inv, NEW w \in Workers, FindSpecialization(w)
    PROVE  Inv'
<1>1. /\ gen[w].at = "check" /\ gen[w].left = {} /\ gen \in [Workers -> Generation]
      /\ gen[w] \in Generation /\ Shown(w) /\ gen[w].specs \in SUBSET Specs
  BY DEF FindSpecialization, Inv, TypeOK, AllShown, Generation
<1>2. UNCHANGED <<examVars, kills, applications, certs, specCerts, enrolments>>
  BY DEF FindSpecialization
<1>3. gen[w].spec \in Specs /\ specCerts[gen[w].spec] \in Nat
  BY <1>1 DEF Shown, Inv, TypeOK
<1>4. CASE specCerts[gen[w].spec] = 0 /\ gen' = [gen EXCEPT ![w].at = "issue"]
  <2> DEFINE g == [gen[w] EXCEPT !.at = "issue"]
  <2>1. gen' = [gen EXCEPT ![w] = g]
    BY <1>1, <1>4
  <2>2. /\ g \in Generation /\ g.at = "issue" /\ g.specs = gen[w].specs /\ g.spec = gen[w].spec
        /\ g.left = gen[w].left
    BY <1>1 DEF Generation
  <2>3. gen'[w] = g
    BY <1>1, <2>1
  <2> HIDE DEF g
  <2>4. Shown(w)'
    BY <1>1, <1>2, <2>2, <2>3 DEF Shown
  <2>5. \A s \in Specs : Looking(w, s) => Looking(w, s)'
    BY <1>1, <2>2, <2>3 DEF Looking
  <2>6. QED
    BY <1>1, <1>2, <2>1, <2>2, <2>4, <2>5, ReadingStep
<1>5. CASE specCerts[gen[w].spec] = 1 /\ GoOn(w, gen[w].specs)
  <2>1. PICK g \in Generation : /\ gen' = [gen EXCEPT ![w] = g] /\ Shown(w)'
                                /\ \A s \in gen[w].specs : Looking(w, s)'
    BY <1>1, <1>5, GoesOn
  <2>2. \A s \in Specs : specCerts[s] = 0 /\ Looking(w, s) => s \in gen[w].specs
    BY <1>5 DEF Looking
  <2>3. QED
    BY <1>1, <1>2, <2>1, <2>2, ReadingStep
<1>6. CASE specCerts[gen[w].spec] > 1 /\ Stop(w)
  <2>1. gen' = [gen EXCEPT ![w] = Off] /\ Off \in Generation /\ Shown(w)'
    BY <1>1, <1>6, Stops
  <2>2. ~Undisturbed
    BY <1>3, <1>6 DEF Undisturbed
  <2>3. QED
    BY <1>1, <1>2, <2>1, <2>2, ReadingStep
<1>7. QED
  BY <1>4, <1>5, <1>6 DEF FindSpecialization

\* A certificate of a course makes its request look at every specialization
\* that the certificate may have completed.
LEMMA CreateCertificateInv ==
    ASSUME Inv, NEW w \in Workers, CreateCertificate(w)
    PROVE  Inv'
<1> DEFINE c == gen[w].course
<1>1. /\ gen[w].at = "create" /\ gen \in [Workers -> Generation] /\ gen[w] \in Generation
      /\ c \in Courses /\ Earned(c)
  BY DEF CreateCertificate, Inv, TypeOK, AllShown, Shown
<1>2. UNCHANGED <<examVars, kills, applications, specCerts, enrolments>>
  BY DEF CreateCertificate
<1>3. \A s \in Specs : ~Looking(w, s) /\ ~Marking(w, s)
  BY <1>1 DEF Looking, Marking
<1>4. CASE Stop(w) /\ UNCHANGED certs
  <2>1. gen' = [gen EXCEPT ![w] = Off] /\ Off \in Generation /\ Shown(w)'
    BY <1>1, <1>4, Stops
  <2>2. QED
    BY <1>1, <1>2, <1>3, <1>4, <2>1, ReadingStep
<1>5. CASE certs' = [certs EXCEPT ![c] = @ + 1] /\ GoOn(w, SpecsOf(c))
  <2>1. SpecsOf(c) \in SUBSET Specs
    BY DEF SpecsOf
  <2>2. PICK g \in Generation : /\ gen' = [gen EXCEPT ![w] = g] /\ Shown(w)'
                                /\ \A s \in SpecsOf(c) : Looking(w, s)'
    BY <1>1, <1>5, <2>1, GoesOn
  <2>3. /\ certs' \in [Courses -> Nat] /\ certs \in [Courses -> Nat]
        /\ \A d \in Courses : certs[d] <= certs'[d] /\ (d # c => certs'[d] = certs[d])
    BY <1>1, <1>5 DEF Inv, TypeOK
  <2>4. CertificatesAreEarned'
    <3>1. \A d \in Courses : certs'[d] > 0 => Earned(d)'
      BY <1>1, <1>2, <2>3, ExamsUnchanged DEF Inv, CertificatesAreEarned
    <3>2. ASSUME NEW s \in Specs, specCerts'[s] > 0, NEW d \in CoursesOf[s]
          PROVE  certs'[d] > 0
      <4>1. d \in Courses
        BY CertificatesAssumption
      <4>2. certs[d] > 0
        BY <1>2, <3>2 DEF Inv, CertificatesAreEarned
      <4>3. QED
        BY <2>3, <4>1, <4>2
    <3>3. QED
      BY <1>2, <3>1, <3>2 DEF Inv, CertificatesAreEarned
  <2>5. TypeOK' /\ ExamInv' /\ AllShown' /\ CertificatesAreEarned'
    <3>1. \A s \in Specs : specCerts[s] \in Nat /\ specCerts[s] <= specCerts'[s]
      BY <1>2 DEF Inv, TypeOK
    <3>2. /\ specCerts' \in [Specs -> Nat] /\ kills' \in 0 .. MaxKills
          /\ enrolment' \in [Specs -> {None, "enrolled", "completed"}] /\ lateRows' \subseteq Specs
      BY <1>2 DEF Inv, TypeOK
    <3>3. QED
      BY <1>2, <2>2, <2>3, <2>4, <3>1, <3>2, RequestStep
  <2>6. Following'
    <3> SUFFICES ASSUME NEW s \in Specs, Undisturbed
                 PROVE  Followed(s)'
      BY <1>2 DEF Following, Undisturbed
    <3>1. Followed(s) /\ \A v \in Workers \ {w} : gen'[v] = gen[v]
      BY <2>2 DEF Inv, Following, TypeOK
    <3>2. ASSUME Certified(s)', specCerts'[s] = 0
          PROVE  \E v \in Workers : Looking(v, s)'
      <4>1. CASE s \in SpecsOf(c)
        BY <2>2, <4>1
      <4>2. CASE s \notin SpecsOf(c)
        <5>1. Certified(s)
          BY <2>3, <3>2, <4>2, CertificatesAssumption DEF Certified, SpecsOf
        <5>2. PICK v \in Workers : Looking(v, s)
          BY <1>2, <3>1, <3>2, <5>1 DEF Followed
        <5>3. v # w
          BY <1>3, <5>2
        <5>4. QED
          BY <3>1, <5>2, <5>3 DEF Looking
      <4>3. QED
        BY <4>1, <4>2
    <3>3. ASSUME specCerts'[s] > 0, enrolment'[s] = "enrolled", s \notin lateRows'
          PROVE  \E v \in Workers : Marking(v, s)'
      <4>1. PICK v \in Workers : Marking(v, s)
        BY <1>2, <3>1, <3>3 DEF Followed
      <4>2. QED
        BY <1>3, <3>1, <4>1 DEF Marking
    <3>4. QED
      BY <3>2, <3>3 DEF Followed
  <2>7. QED
    BY <2>5, <2>6 DEF Inv
<1>6. QED
  BY <1>4, <1>5 DEF CreateCertificate

\* The specialization that is certified has still to be marked.
LEMMA IssueSpecializationInv ==
    ASSUME Inv, NEW w \in Workers, IssueSpecialization(w)
    PROVE  Inv'
<1> DEFINE t == gen[w].spec
           g == [gen[w] EXCEPT !.at = "mark"]
<1>1. /\ gen[w].at = "issue" /\ gen \in [Workers -> Generation] /\ gen[w] \in Generation
      /\ Shown(w) /\ t \in Specs /\ gen[w].left = {}
  BY DEF IssueSpecialization, Inv, TypeOK, AllShown, Shown
<1>2. UNCHANGED <<examVars, kills, applications, certs, enrolments>>
  BY DEF IssueSpecialization
<1>3. gen' = [gen EXCEPT ![w] = g]
  BY <1>1 DEF IssueSpecialization
<1>4. /\ g \in Generation /\ g.at = "mark" /\ g.specs = gen[w].specs /\ g.spec = t
      /\ g.left = {}
  BY <1>1 DEF Generation
<1>5. gen'[w] = g /\ \A v \in Workers \ {w} : gen'[v] = gen[v]
  BY <1>1, <1>3
<1> HIDE DEF g
<1>6. /\ specCerts' \in [Specs -> Nat] /\ specCerts'[t] = specCerts[t] + 1
      /\ \A s \in Specs : /\ specCerts[s] \in Nat /\ specCerts[s] <= specCerts'[s]
                          /\ s # t => specCerts'[s] = specCerts[s]
  BY <1>1 DEF IssueSpecialization, Inv, TypeOK
<1>7. Certified(t)
  BY <1>1 DEF Shown, Certified
<1>8. Shown(w)'
  BY <1>1, <1>2, <1>4, <1>5, <1>6, <1>7 DEF Shown, Certified
<1>9. CertificatesAreEarned'
  <2>1. \A c \in Courses : certs'[c] > 0 => Earned(c)'
    BY <1>2, ExamsUnchanged DEF Inv, CertificatesAreEarned
  <2>2. \A s \in Specs : specCerts'[s] > 0 => \A c \in CoursesOf[s] : certs'[c] > 0
    BY <1>2, <1>6, <1>7 DEF Certified, Inv, CertificatesAreEarned
  <2>3. \A s \in Specs : enrolment'[s] = "completed" => specCerts'[s] > 0
    BY <1>2, <1>6 DEF Inv, CertificatesAreEarned
  <2>4. QED
    BY <2>1, <2>2, <2>3 DEF CertificatesAreEarned
<1>10. TypeOK' /\ ExamInv' /\ AllShown' /\ CertificatesAreEarned'
  <2>1. /\ certs' \in [Courses -> Nat] /\ \A c \in Courses : certs[c] <= certs'[c]
        /\ kills' \in 0 .. MaxKills /\ lateRows' \subseteq Specs
        /\ enrolment' \in [Specs -> {None, "enrolled", "completed"}]
    BY <1>2 DEF Inv, TypeOK
  <2>2. QED
    BY <1>2, <1>3, <1>4, <1>6, <1>8, <1>9, <2>1, RequestStep
<1>11. Following'
  <2> SUFFICES ASSUME NEW s \in Specs, Undisturbed'
               PROVE  Followed(s)'
    BY DEF Following
  <2>1. Undisturbed
    BY <1>2, <1>6 DEF Undisturbed
  <2>2. Followed(s)
    BY <2>1 DEF Inv, Following
  <2>3. CASE s = t
    BY <1>4, <1>5, <1>6, <2>3 DEF Followed, Marking
  <2>4. CASE s # t
    <3>1. specCerts'[s] = specCerts[s] /\ Certified(s)' = Certified(s)
      BY <1>2, <1>6, <2>4 DEF Certified
    <3>2. \A v \in Workers : Looking(v, s) => Looking(v, s)'
      BY <1>1, <1>4, <1>5, <2>4 DEF Looking
    <3>3. \A v \in Workers : Marking(v, s) => Marking(v, s)'
      BY <1>1, <1>5 DEF Marking
    <3>4. QED
      BY <1>2, <2>2, <3>1, <3>2, <3>3 DEF Followed
  <2>5. QED
    BY <2>3, <2>4
<1>12. QED
  BY <1>10, <1>11 DEF Inv

LEMMA MarkEnrolmentInv ==
    ASSUME Inv, NEW w \in Workers, MarkEnrolment(w)
    PROVE  Inv'
<1> DEFINE t == gen[w].spec
<1>1. /\ gen[w].at = "mark" /\ gen \in [Workers -> Generation] /\ gen[w] \in Generation
      /\ t \in Specs /\ specCerts[t] > 0 /\ gen[w].specs \in SUBSET Specs
  BY DEF MarkEnrolment, Inv, TypeOK, AllShown, Shown, Generation
<1>2. UNCHANGED <<examVars, kills, applications, certs, specCerts, lateRows>>
  BY DEF MarkEnrolment
<1>3. PICK g \in Generation : /\ gen' = [gen EXCEPT ![w] = g] /\ Shown(w)'
                              /\ \A s \in gen[w].specs : Looking(w, s)'
  BY <1>1, GoesOn DEF MarkEnrolment
<1>4. \A v \in Workers \ {w} : gen'[v] = gen[v]
  BY <1>1, <1>3
<1>5. /\ enrolment' \in [Specs -> {None, "enrolled", "completed"}] /\ enrolment'[t] # "enrolled"
      /\ \A s \in Specs : s # t => enrolment'[s] = enrolment[s]
  <2>1. None # "enrolled" /\ None # "completed"
    BY CertificatesAssumption
  <2>2. enrolment' = [enrolment EXCEPT ![t] = IF @ = None THEN None ELSE "completed"]
    BY DEF MarkEnrolment
  <2>3. QED
    BY <1>1, <2>1, <2>2 DEF Inv, TypeOK
<1>6. CertificatesAreEarned'
  BY <1>1, <1>2, <1>5, ExamsUnchanged DEF Inv, CertificatesAreEarned
<1>7. TypeOK' /\ ExamInv' /\ AllShown' /\ CertificatesAreEarned'
  <2>1. /\ certs' \in [Courses -> Nat] /\ \A c \in Courses : certs[c] <= certs'[c]
        /\ specCerts' \in [Specs -> Nat] /\ \A s \in Specs : specCerts[s] <= specCerts'[s]
        /\ kills' \in 0 .. MaxKills /\ lateRows' \subseteq Specs
    BY <1>2 DEF Inv, TypeOK
  <2>2. QED
    BY <1>2, <1>3, <1>5, <1>6, <2>1, RequestStep
<1>8. Following'
  <2> SUFFICES ASSUME NEW s \in Specs, Undisturbed
               PROVE  Followed(s)'
    BY <1>2 DEF Following, Undisturbed
  <2>1. Followed(s)
    BY DEF Inv, Following
  <2>2. ASSUME Certified(s)', specCerts'[s] = 0
        PROVE  \E v \in Workers : Looking(v, s)'
    <3>1. Certified(s) /\ specCerts[s] = 0
      BY <1>2, <2>2 DEF Certified
    <3>2. PICK v \in Workers : Looking(v, s)
      BY <2>1, <3>1 DEF Followed
    <3>3. CASE v = w
      BY <1>1, <1>3, <3>2, <3>3 DEF Looking
    <3>4. CASE v # w
      BY <1>4, <3>2, <3>4 DEF Looking
    <3>5. QED
      BY <3>3, <3>4
  <2>3. ASSUME specCerts'[s] > 0, enrolment'[s] = "enrolled", s \notin lateRows'
        PROVE  \E v \in Workers : Marking(v, s)'
    <3>1. s # t
      BY <1>5, <2>3
    <3>2. specCerts[s] > 0 /\ enrolment[s] = "enrolled" /\ s \notin lateRows
      BY <1>2, <1>5, <2>3, <3>1
    <3>3. PICK v \in Workers : Marking(v, s)
      BY <2>1, <3>2 DEF Followed
    <3>4. v # w
      BY <3>1, <3>3 DEF Marking
    <3>5. QED
      BY <1>4, <3>3, <3>4 DEF Marking
  <2>4. QED
    BY <2>2, <2>3 DEF Followed
<1>9. QED
  BY <1>7, <1>8 DEF Inv

LEMMA KillIssuerInv ==
    ASSUME Inv, NEW w \in Workers, KillIssuer(w)
    PROVE  Inv'
<1>1. UNCHANGED <<examVars, applications, certs, specCerts, enrolments>>
  BY DEF KillIssuer
<1>2. kills' \in 0 .. MaxKills /\ kills' # 0
  BY CertificatesAssumption, ExamsAssumption DEF KillIssuer, Inv, TypeOK
<1>3. gen' = [gen EXCEPT ![w] = Off] /\ Off \in Generation /\ Shown(w)'
  BY Stops DEF KillIssuer, Inv, TypeOK
<1>4. CertificatesAreEarned'
  BY <1>1, ExamsUnchanged DEF Inv, CertificatesAreEarned
<1>5. /\ certs' \in [Courses -> Nat] /\ \A c \in Courses : certs[c] <= certs'[c]
      /\ specCerts' \in [Specs -> Nat] /\ \A s \in Specs : specCerts[s] <= specCerts'[s]
      /\ enrolment' \in [Specs -> {None, "enrolled", "completed"}] /\ lateRows' \subseteq Specs
  BY <1>1 DEF Inv, TypeOK
<1>6. TypeOK' /\ ExamInv' /\ AllShown' /\ CertificatesAreEarned'
  BY <1>1, <1>2, <1>3, <1>4, <1>5, RequestStep
<1>7. Following'
  BY <1>2 DEF Following, Undisturbed
<1>8. QED
  BY <1>6, <1>7 DEF Inv

LEMMA ApplicationInv ==
    ASSUME Inv, NEW c \in Courses, MarkCompleted(c) \/ ApproveAid(c)
    PROVE  Inv'
<1>1. UNCHANGED <<examVars, kills, certs, specCerts, enrolments, gen>>
  BY DEF MarkCompleted, ApproveAid
<1>2. /\ completed' = completed \cup {c} \/ completed' = completed \ {c}
      /\ onceDone' = onceDone \cup {c} \/ (onceDone' = onceDone /\ completed' = completed \ {c})
  BY DEF MarkCompleted, ApproveAid
<1>3. completed \subseteq onceDone /\ onceDone \subseteq Courses
  BY DEF Inv, TypeOK
<1>4. ExamInv' /\ Lasting
  <2>1. UNCHANGED <<attempt, answers, req>>
    BY <1>1 DEF examVars
  <2>2. ExamInv'
    BY <2>1 DEF Inv, ExamInv, ExamTypeOK, AllAsked, Asked, ScoreIsEarned, OpenAttemptsBounded,
                Open, Starting
  <2>3. QED
    BY <2>1, <2>2 DEF Lasting
<1>5. onceDone \subseteq onceDone' /\ completed' \subseteq onceDone' /\ onceDone' \subseteq Courses
  BY <1>2, <1>3
<1>6. kills' \in 0 .. MaxKills /\ kills <= kills'
  BY <1>1, ExamsAssumption DEF Inv, TypeOK
<1>7. QED
  BY <1>1, <1>4, <1>5, <1>6, ExamsInv

\* An enrolment is late if it finds its specialization certified, and otherwise
\* there is nothing yet to be marked.
LEMMA EnrollInv ==
    ASSUME Inv, NEW s \in Specs, Enroll(s)
    PROVE  Inv'
<1>1. /\ UNCHANGED <<examVars, kills, applications, certs, specCerts, gen>>
      /\ enrolment[s] = None /\ enrolment' = [enrolment EXCEPT ![s] = "enrolled"]
      /\ lateRows' = IF specCerts[s] > 0 THEN lateRows \cup {s} ELSE lateRows
  BY DEF Enroll
<1>2. ExamInv' /\ \A c \in Courses : Earned(c)' = Earned(c)
  BY <1>1, ExamsUnchanged
<1>3. TypeOK'
  BY <1>1, <1>2 DEF Inv, TypeOK, ExamInv
<1>4. AllShown'
  BY <1>1, <1>2 DEF Inv, AllShown, Shown
<1>5. \A t \in Specs \ {s} : enrolment'[t] = enrolment[t] /\ (t \in lateRows' <=> t \in lateRows)
  BY <1>1 DEF Inv, TypeOK
<1>6. enrolment'[s] = "enrolled" /\ (specCerts[s] > 0 => s \in lateRows')
  BY <1>1 DEF Inv, TypeOK
<1>7. CertificatesAreEarned'
  BY <1>1, <1>2, <1>5, <1>6 DEF Inv, CertificatesAreEarned
<1>8. Following'
  <2> SUFFICES ASSUME NEW t \in Specs, Undisturbed
               PROVE  Followed(t)'
    BY <1>1 DEF Following, Undisturbed
  <2>1. Followed(t)
    BY DEF Inv, Following
  <2>2. QED
    BY <1>1, <1>5, <1>6, <2>1 DEF Followed, Certified, Looking, Marking
<1>9. QED
  BY <1>2, <1>3, <1>4, <1>7, <1>8 DEF Inv

\* Of the requests of exams only a killed one counts as killed.
LEMMA KillsAreCounted ==
    /\ \A w \in Workers : ExamStep(w) => kills' = kills \/ (kills' = kills + 1 /\ kills < MaxKills)
    /\ \A i \in Ids : TimePasses(i) => kills' = kills
<1>1. \A w \in Workers, c \in Exams : StartCheck(w, c) => kills' = kills
  BY DEF StartCheck
<1>2. \A w \in Workers : StartCreate(w) => kills' = kills
  BY DEF StartCreate
<1>3. \A w \in Workers, i \in Ids, given \in Given : SubmitCheck(w, i, given) => kills' = kills
  BY DEF SubmitCheck
<1>4. \A w \in Workers : SubmitSave(w) => kills' = kills
  BY DEF SubmitSave
<1>5. \A i \in Ids : TimePasses(i) => kills' = kills
  BY DEF TimePasses
<1>6. \A w \in Workers : Kill(w) => kills' = kills + 1 /\ kills < MaxKills
  BY DEF Kill
<1>7. QED
  BY <1>1, <1>2, <1>3, <1>4, <1>5, <1>6 DEF ExamStep

LEMMA ExamsStepInv ==
    ASSUME Inv, UNCHANGED certVars,
           \/ \E w \in Workers : ExamStep(w)
           \/ \E i \in Ids : TimePasses(i)
    PROVE  Inv'
<1>1. ExamInv
  BY DEF Inv
<1>2. ExamInv' /\ Lasting
  BY <1>1, ExamStepInv, TimePassesInv
<1>3. kills' \in 0 .. MaxKills /\ kills <= kills'
  <2>1. kills' = kills \/ (kills' = kills + 1 /\ kills < MaxKills)
    BY KillsAreCounted
  <2>2. kills \in 0 .. MaxKills /\ MaxKills \in Nat
    BY ExamsAssumption DEF Inv, TypeOK
  <2>3. QED
    BY <2>1, <2>2
<1>4. UNCHANGED <<applications, certs, specCerts, enrolments, gen>>
  BY DEF certVars
<1>5. onceDone \subseteq onceDone' /\ completed' \subseteq onceDone' /\ onceDone' \subseteq Courses
  BY <1>4 DEF Inv, TypeOK
<1>6. QED
  BY <1>2, <1>3, <1>4, <1>5, ExamsInv

LEMMA InitInv == Init => Inv
<1> SUFFICES ASSUME Init
             PROVE  Inv
  OBVIOUS
<1>1. NoAnswers \in Answers /\ NoAnswers.right = {} /\ NoAnswers.wrong = {}
  BY DEF NoAnswers, Answers
<1>2. ExamTypeOK /\ AllAsked /\ ScoreIsEarned
  BY <1>1, IdleType DEF Init, ExamInit, ExamTypeOK, AllAsked, Asked, ScoreIsEarned
<1>3. OpenAttemptsBounded
  <2> SUFFICES ASSUME NEW c \in Exams
               PROVE  Cardinality(Open(c)) + Cardinality(Starting(c)) <= Cardinality(Workers)
    BY DEF OpenAttemptsBounded
  <2>1. Open(c) = {}
    BY DEF Init, ExamInit, Open
  <2>2. QED
    BY <2>1, FewWorkers, FS_EmptySet
<1>4. TypeOK
  BY <1>2, OffType, ExamsAssumption DEF Init, TypeOK
<1>5. \A w \in Workers : gen[w].at = "idle"
  BY OffType DEF Init
<1>6. AllShown
  BY <1>5 DEF AllShown, Shown
<1>7. CertificatesAreEarned
  <2>1. /\ \A c \in Courses : certs[c] = 0
        /\ \A s \in Specs : specCerts[s] = 0 /\ enrolment[s] = None
    BY DEF Init
  <2>2. QED
    BY <2>1, CertificatesAssumption DEF CertificatesAreEarned
<1>8. Following
  <2> SUFFICES ASSUME NEW s \in Specs
               PROVE  Followed(s)
    BY DEF Following
  <2>1. PICK c \in CoursesOf[s] : c \in Courses
    BY CertificatesAssumption
  <2>2. certs[c] = 0 /\ specCerts[s] = 0
    BY <2>1 DEF Init
  <2>3. QED
    BY <2>1, <2>2 DEF Followed, Certified
<1>9. QED
  BY <1>2, <1>3, <1>4, <1>6, <1>7, <1>8 DEF Inv, ExamInv

LEMMA NextInv == Inv /\ [Next]_vars => Inv'
<1> SUFFICES ASSUME Inv, [Next]_vars
             PROVE  Inv'
  OBVIOUS
<1>1. CASE \E w \in Workers : gen[w].at = "idle" /\ ExamStep(w) /\ UNCHANGED certVars
  BY <1>1, ExamsStepInv
<1>2. CASE \E i \in Ids : TimePasses(i) /\ UNCHANGED certVars
  BY <1>2, ExamsStepInv
<1>3. CASE \/ \E c \in Applied : MarkCompleted(c) \/ ApproveAid(c)
           \/ \E s \in Joining : Enroll(s)
  BY <1>3, CertificatesAssumption, ApplicationInv, EnrollInv
<1>4. CASE \E w \in Workers : \E c \in Courses : Begin(w, c)
  BY <1>4, BeginInv
<1>5. CASE \E w \in Workers : CreateCertificate(w)
  BY <1>5, CreateCertificateInv
<1>6. CASE \E w \in Workers : CheckCourse(w)
  BY <1>6, CheckCourseInv
<1>7. CASE \E w \in Workers : FindSpecialization(w)
  BY <1>7, FindSpecializationInv
<1>8. CASE \E w \in Workers : IssueSpecialization(w)
  BY <1>8, IssueSpecializationInv
<1>9. CASE \E w \in Workers : MarkEnrolment(w)
  BY <1>9, MarkEnrolmentInv
<1>10. CASE \E w \in Workers : KillIssuer(w)
  BY <1>10, KillIssuerInv
<1>11. CASE UNCHANGED vars
  <2>1. UNCHANGED <<examVars, kills, applications, certs, specCerts, enrolments, gen>>
    BY <1>11 DEF vars, certVars
  <2>2. ExamInv' /\ \A c \in Courses : Earned(c)' = Earned(c)
    BY <2>1, ExamsUnchanged
  <2>3. TypeOK' /\ CertificatesAreEarned' /\ AllShown' /\ Following'
    BY <2>1, <2>2 DEF Inv, TypeOK, ExamInv, CertificatesAreEarned, AllShown, Shown, Following,
                      Undisturbed, Followed, Certified, Looking, Marking
  <2>4. QED
    BY <2>2, <2>3 DEF Inv
<1>12. QED
  BY <1>1, <1>2, <1>3, <1>4, <1>5, <1>6, <1>7, <1>8, <1>9, <1>10, <1>11 DEF Next

\* Requests of both components keep what each of them has seen and begun.
THEOREM Invariance == Spec => []Inv
  BY InitInv, NextInv, PTL DEF Spec
-----------------------------------------------------------------------------
\* The variables keep their types; an enrolment is marked with a status of its
\* own table, whatever requests overlap.
THEOREM CertificatesTypeCorrect == Spec => []TypeOK
<1>1. Inv => TypeOK
  BY DEF Inv
<1>2. QED
  BY Invariance, <1>1, PTL

\* StartExamView: overlapping starts open at most one attempt per process.
THEOREM StartsAreBounded == Spec => []OpenAttemptsBounded
<1>1. Inv => OpenAttemptsBounded
  BY DEF Inv, ExamInv
<1>2. QED
  BY Invariance, <1>1, PTL

\* SubmitExamView: what a score counts is on record, answered right and once.
THEOREM ScoresAreEarned == Spec => []ScoreIsEarned
<1>1. Inv => ScoreIsEarned
  BY DEF Inv, ExamInv
<1>2. QED
  BY Invariance, <1>1, PTL

\* GenerateCertificateView: certificates are earned, for any two requests.
THEOREM CertificatesEarned == Spec => []CertificatesAreEarned
<1>1. Inv => CertificatesAreEarned
  BY DEF Inv
<1>2. QED
  BY Invariance, <1>1, PTL

\* GenerateCertificateView: of requests that certify the courses of one
\* specialization at the same time, the last to look certifies it.
THEOREM SpecializationsAreCertified == Spec => []SpecializationsFollow
<1>1. Inv => SpecializationsFollow
  <2> SUFFICES ASSUME Inv, kills = 0, \A w \in Workers : gen[w].at = "idle",
                      \A s \in Specs : specCerts[s] < 2,
                      NEW s \in Specs, \A c \in CoursesOf[s] : certs[c] > 0
               PROVE  /\ specCerts[s] = 1
                      /\ enrolment[s] = "enrolled" => s \in lateRows
    BY DEF SpecializationsFollow
  <2>1. Followed(s) /\ Certified(s) /\ specCerts[s] \in Nat
    BY DEF Inv, Following, Undisturbed, Certified, TypeOK
  <2>2. \A w \in Workers : ~Looking(w, s) /\ ~Marking(w, s)
    BY DEF Looking, Marking
  <2>3. specCerts[s] # 0
    BY <2>1, <2>2 DEF Followed
  <2>4. specCerts[s] = 1
    BY <2>1, <2>3
  <2>5. QED
    BY <2>1, <2>2, <2>4 DEF Followed
<1>2. QED
  BY Invariance, <1>1, PTL
-----------------------------------------------------------------------------
(* Time that has run out *)

\* What a step leaves of an exam that is overdue.
StaysClosed(c) ==
    Overdue(c) =>
        /\ Overdue(c)'
        /\ \A i \in Ids : attempt[i] # None /\ attempt[i].course = c
                          => attempt'[i] = attempt[i] /\ answers'[i] = answers[i]

\* A request that neither saves an attempt of the exam nor starts one leaves it
\* as it is, if it does not begin to do either.
LEMMA OthersStayClosed ==
    ASSUME ExamInv, NEW c \in Exams,
           \A i \in Ids : \/ attempt'[i] = attempt[i] /\ answers'[i] = answers[i]
                          \/ /\ attempt[i] = None \/ attempt[i].course # c
                             /\ attempt'[i] = None \/ attempt'[i].course # c,
           Starting(c)' \subseteq Starting(c), Submitting(c)' \subseteq Submitting(c)
    PROVE  StaysClosed(c)
<1>1. Open(c)' = Open(c)
  BY DEF Open
<1>2. \A i \in Open(c) : attempt'[i] = attempt[i]
  BY DEF Open
<1>3. QED
  BY <1>1, <1>2 DEF StaysClosed, Overdue

LEMMA StartCheckCloses ==
    ASSUME ExamInv, NEW c \in Exams, NEW w \in Workers, NEW d \in Exams, StartCheck(w, d)
    PROVE  StaysClosed(c)
<1> USE DEF StartCheck
<1> DEFINE r == [req[w] EXCEPT !.at = "create", !.course = d]
<1>1. r.at = "create" /\ r.course = d /\ req' = [req EXCEPT ![w] = r]
  BY DEF ExamInv, ExamTypeOK, Request
<1> HIDE DEF r
<1>2. CASE d = c
  BY <1>2 DEF StaysClosed, Overdue
<1>3. CASE d # c
  <2>1. Starting(c)' \subseteq Starting(c) /\ Submitting(c)' \subseteq Submitting(c)
    BY <1>1, <1>3 DEF Starting, Submitting, ExamInv, ExamTypeOK
  <2>2. QED
    BY <2>1, OthersStayClosed
<1>4. QED
  BY <1>2, <1>3

LEMMA StartCreateCloses ==
    ASSUME ExamInv, NEW c \in Exams, NEW w \in Workers, StartCreate(w)
    PROVE  StaysClosed(c)
<1> DEFINE d == req[w].course
           new == [course |-> d, open |-> TRUE, late |-> FALSE, score |-> {}]
<1>1. PICK i \in Ids : attempt[i] = None /\ attempt' = [attempt EXCEPT ![i] = new]
  BY DEF StartCreate
<1>2. req' = [req EXCEPT ![w] = Idle] /\ answers' = answers /\ req[w].at = "create"
  BY DEF StartCreate, Done
<1>3. new.course = d
  OBVIOUS
<1> HIDE DEF new
<1>4. CASE d = c
  BY <1>2, <1>4 DEF StaysClosed, Overdue, Starting
<1>5. CASE d # c
  <2>1. Starting(c)' \subseteq Starting(c) /\ Submitting(c)' \subseteq Submitting(c)
    BY <1>1, <1>2, <1>3, <1>5, IdleType
    DEF Starting, Submitting, ExamInv, ExamTypeOK, AllAsked, Asked
  <2>2. QED
    BY <1>1, <1>2, <1>3, <1>5, <2>1, OthersStayClosed DEF ExamInv, ExamTypeOK
<1>6. QED
  BY <1>4, <1>5

LEMMA TimeCloses ==
    ASSUME ExamInv, NEW c \in Exams, NEW i \in Ids, TimePasses(i)
    PROVE  StaysClosed(c)
<1> USE DEF TimePasses
<1> DEFINE a == [attempt[i] EXCEPT !.late = TRUE]
<1>1. /\ a.course = attempt[i].course /\ attempt' = [attempt EXCEPT ![i] = a]
      /\ attempt[i] \in Attempt /\ answers' = answers /\ req' = req
  BY DEF ExamInv, ExamTypeOK, Attempt
<1> HIDE DEF a
<1>2. CASE attempt[i].course = c
  BY <1>2 DEF StaysClosed, Overdue, Open
<1>3. CASE attempt[i].course # c
  <2>1. Starting(c)' \subseteq Starting(c) /\ Submitting(c)' \subseteq Submitting(c)
    BY <1>1, <1>3 DEF Starting, Submitting, ExamInv, ExamTypeOK, AllAsked, Asked
  <2>2. QED
    BY <1>1, <1>3, <2>1, OthersStayClosed DEF ExamInv, ExamTypeOK
<1>4. QED
  BY <1>2, <1>3

LEMMA SubmitCheckCloses ==
    ASSUME ExamInv, NEW c \in Exams, NEW w \in Workers, NEW i \in Ids, NEW given \in Given,
           SubmitCheck(w, i, given)
    PROVE  StaysClosed(c)
<1> USE DEF SubmitCheck
<1> DEFINE r == [req[w] EXCEPT !.at = "save", !.id = i, !.given = given]
<1>1. r.at = "save" /\ r.id = i /\ req' = [req EXCEPT ![w] = r] /\ attempt' = attempt
  BY DEF ExamInv, ExamTypeOK, Request
<1> HIDE DEF r
<1>2. CASE attempt[i].course = c
  BY <1>2 DEF StaysClosed, Overdue, Open
<1>3. CASE attempt[i].course # c
  <2>1. Starting(c)' \subseteq Starting(c) /\ Submitting(c)' \subseteq Submitting(c)
    BY <1>1, <1>3 DEF Starting, Submitting, ExamInv, ExamTypeOK
  <2>2. QED
    BY <2>1, OthersStayClosed
<1>4. QED
  BY <1>2, <1>3

LEMMA SubmitSaveCloses ==
    ASSUME ExamInv, NEW c \in Exams, NEW w \in Workers, SubmitSave(w)
    PROVE  StaysClosed(c)
<1> DEFINE i == req[w].id
<1>1. /\ i \in Ids /\ attempt[i] \in Attempt /\ attempt[i] # None /\ req[w].at = "save"
  BY NoneIsNoAttempt DEF SubmitSave, ExamInv, AllAsked, Asked
<1>2. req' = [req EXCEPT ![w] = Idle]
  BY DEF SubmitSave, Done
<1>3. /\ \A j \in Ids \ {i} : attempt'[j] = attempt[j] /\ answers'[j] = answers[j]
      /\ attempt'[i].course = attempt[i].course
  BY <1>1 DEF SubmitSave, Scored, ExamInv, ExamTypeOK, Attempt
<1>4. CASE attempt[i].course = c
  BY <1>1, <1>4 DEF StaysClosed, Overdue, Submitting
<1>5. CASE attempt[i].course # c
  <2>1. Starting(c)' \subseteq Starting(c) /\ Submitting(c)' \subseteq Submitting(c)
    BY <1>1, <1>2, <1>3, <1>5, IdleType
    DEF Starting, Submitting, ExamInv, ExamTypeOK, AllAsked, Asked
  <2>2. QED
    BY <1>1, <1>3, <1>5, <2>1, OthersStayClosed
<1>6. QED
  BY <1>4, <1>5

LEMMA KillCloses ==
    ASSUME ExamInv, NEW c \in Exams, NEW w \in Workers, Kill(w)
    PROVE  StaysClosed(c)
<1>1. /\ UNCHANGED <<attempt, answers>> /\ Starting(c)' \subseteq Starting(c)
      /\ Submitting(c)' \subseteq Submitting(c)
  BY IdleType DEF Kill, Done, Starting, Submitting, ExamInv, ExamTypeOK
<1>2. QED
  BY <1>1, OthersStayClosed

\* StartExamView, SubmitExamView: a request that looks at an overdue exam is
\* refused, whatever it asks, and no earlier one is left to change it.
THEOREM OverdueExamsStayClosed == Spec => OverdueCloses
<1>1. Inv /\ [Next]_vars => [\A c \in Exams : StaysClosed(c)]_examVars
  <2> SUFFICES ASSUME Inv, Next, NEW c \in Exams
               PROVE  StaysClosed(c) \/ UNCHANGED examVars
    BY DEF vars
  <2>1. CASE \E w \in Workers : ExamStep(w)
    BY <2>1, StartCheckCloses, StartCreateCloses, SubmitCheckCloses, SubmitSaveCloses, KillCloses
    DEF ExamStep, Inv
  <2>2. CASE \E i \in Ids : TimePasses(i)
    BY <2>2, TimeCloses DEF Inv
  <2>3. CASE /\ \A w \in Workers : ~ExamStep(w)
             /\ \A i \in Ids : ~TimePasses(i)
    BY <2>3 DEF Next, MarkCompleted, ApproveAid, Enroll, Begin, CreateCertificate, CheckCourse, FindSpecialization,
                IssueSpecialization, MarkEnrolment, KillIssuer
  <2>4. QED
    BY <2>1, <2>2, <2>3
<1>2. QED
  BY Invariance, <1>1, PTL DEF Spec, OverdueCloses, StaysClosed
-----------------------------------------------------------------------------
(* The tables keep what Credentials promises *)

\* Certificates and enrolments as they were, and at most one course earned, which
\* no course ceases to be.
LEMMA OneEarned ==
    ASSUME Inv, ExamTypeOK', Lasting, onceDone \subseteq onceDone',
           UNCHANGED <<certs, specCerts, enrolments>>,
           \/ EarnedCourses' \subseteq EarnedCourses
           \/ \E c \in Courses : EarnedCourses' \subseteq EarnedCourses \cup {c}
    PROVE  [Promise!Next]_(Promise!vars)
<1>1. EarnedCourses \subseteq EarnedCourses'
  BY EarnedLasts DEF EarnedCourses
<1>2. UNCHANGED <<CertifiedCourses, Awarded, Marked>>
  BY DEF CertifiedCourses, Awarded, Marked
<1>3. CASE EarnedCourses' \subseteq EarnedCourses
  BY <1>1, <1>2, <1>3 DEF Promise!vars
<1>4. ASSUME NEW c \in Courses, EarnedCourses' \subseteq EarnedCourses \cup {c}
      PROVE  Promise!Earn(c) \/ UNCHANGED Promise!vars
  BY <1>1, <1>2, <1>4 DEF Promise!Earn, Promise!vars
<1>5. QED
  BY <1>3, <1>4 DEF Promise!Next

\* A request about an exam changes one attempt, and earns no course but its own.
LEMMA OneSubmitted ==
    ASSUME Inv, ExamInv', Lasting, UNCHANGED <<applications, certs, specCerts, enrolments>>,
           NEW i \in Ids,
           \A j \in Ids \ {i} : attempt'[j] = attempt[j] /\ answers'[j] = answers[j]
    PROVE  [Promise!Next]_(Promise!vars)
<1>1. ASSUME NEW c \in EarnedCourses' \ EarnedCourses
      PROVE  attempt'[i] # None /\ attempt'[i].course = c
  BY <1>1 DEF EarnedCourses, Earned
<1>2. CASE EarnedCourses' \subseteq EarnedCourses
  BY <1>2, OneEarned DEF ExamInv
<1>3. CASE ~EarnedCourses' \subseteq EarnedCourses
  <2>1. attempt'[i].course \in Courses
    BY <1>1, <1>3 DEF EarnedCourses
  <2>2. EarnedCourses' \subseteq EarnedCourses \cup {attempt'[i].course}
    BY <1>1
  <2>3. QED
    BY <2>1, <2>2, OneEarned DEF ExamInv
<1>4. QED
  BY <1>2, <1>3

LEMMA ExamsKeepCredentials ==
    ASSUME Inv, UNCHANGED certVars,
           \/ \E w \in Workers : ExamStep(w)
           \/ \E i \in Ids : TimePasses(i)
    PROVE  [Promise!Next]_(Promise!vars)
<1>1. ExamInv' /\ Lasting
  BY ExamStepInv, TimePassesInv DEF Inv
<1>2. UNCHANGED <<applications, certs, specCerts, enrolments>>
  BY DEF certVars
<1>3. ASSUME NEW i \in Ids,
             \A j \in Ids \ {i} : attempt'[j] = attempt[j] /\ answers'[j] = answers[j]
      PROVE  [Promise!Next]_(Promise!vars)
  BY <1>1, <1>2, <1>3, OneSubmitted
<1>4. CASE UNCHANGED <<attempt, answers>>
  <2>1. EarnedCourses' \subseteq EarnedCourses
    BY <1>2, <1>4 DEF EarnedCourses, Earned
  <2>2. QED
    BY <1>1, <1>2, <2>1, OneEarned DEF ExamInv
<1>5. ASSUME NEW w \in Workers, StartCreate(w) PROVE [Promise!Next]_(Promise!vars)
  <2>1. PICK i \in Ids : \A j \in Ids \ {i} : attempt'[j] = attempt[j] /\ answers'[j] = answers[j]
    BY <1>5 DEF StartCreate, Inv, ExamInv, ExamTypeOK
  <2>2. QED
    BY <2>1, <1>3
<1>6. ASSUME NEW w \in Workers, SubmitSave(w) PROVE [Promise!Next]_(Promise!vars)
  <2>1. /\ req[w].id \in Ids
        /\ \A j \in Ids \ {req[w].id} : attempt'[j] = attempt[j] /\ answers'[j] = answers[j]
    BY <1>6 DEF SubmitSave, Scored, Inv, ExamInv, AllAsked, Asked, ExamTypeOK
  <2>2. QED
    BY <2>1, <1>3
<1>7. ASSUME NEW i \in Ids, TimePasses(i) PROVE [Promise!Next]_(Promise!vars)
  <2>1. \A j \in Ids \ {i} : attempt'[j] = attempt[j] /\ answers'[j] = answers[j]
    BY <1>7 DEF TimePasses, Inv, ExamInv, ExamTypeOK
  <2>2. QED
    BY <2>1, <1>3
<1>8. CASE \E w \in Workers : \/ \E c \in Exams : StartCheck(w, c)
                              \/ \E i \in Ids, given \in Given : SubmitCheck(w, i, given)
                              \/ Kill(w)
  BY <1>4, <1>8 DEF StartCheck, SubmitCheck, Kill
<1>9. QED
  BY <1>5, <1>6, <1>7, <1>8 DEF ExamStep

\* A request for a certificate, which earns nothing.
LEMMA RequestsKeepCredentials ==
    ASSUME Inv, NEW w \in Workers, UNCHANGED <<examVars, applications>>,
           \/ CreateCertificate(w) \/ IssueSpecialization(w) \/ MarkEnrolment(w)
           \/ UNCHANGED <<certs, specCerts, enrolments>>
    PROVE  [Promise!Next]_(Promise!vars)
<1>1. UNCHANGED EarnedCourses
  BY ExamsUnchanged DEF EarnedCourses
<1>2. /\ certs \in [Courses -> Nat] /\ specCerts \in [Specs -> Nat]
      /\ enrolment \in [Specs -> {None, "enrolled", "completed"}] /\ gen[w] \in Generation /\ Shown(w)
  BY DEF Inv, TypeOK, AllShown
<1>3. CASE UNCHANGED <<certs, specCerts, enrolments>>
  BY <1>1, <1>3 DEF CertifiedCourses, Awarded, Marked, Promise!vars
<1>4. CASE CreateCertificate(w) /\ ~UNCHANGED certs
  <2> DEFINE c == gen[w].course
  <2>1. /\ c \in Courses /\ Earned(c) /\ certs' = [certs EXCEPT ![c] = @ + 1]
        /\ UNCHANGED <<specCerts, enrolments>>
    BY <1>2, <1>4 DEF CreateCertificate, Shown
  <2>2. /\ c \in EarnedCourses /\ CertifiedCourses' = CertifiedCourses \cup {c}
        /\ UNCHANGED <<Awarded, Marked>>
    BY <1>2, <2>1 DEF EarnedCourses, CertifiedCourses, Awarded, Marked
  <2>3. Promise!Certify(c)
    BY <1>1, <2>2 DEF Promise!Certify
  <2>4. QED
    BY <2>1, <2>3 DEF Promise!Next
<1>5. CASE IssueSpecialization(w)
  <2> DEFINE s == gen[w].spec
  <2>1. /\ s \in Specs /\ specCerts' = [specCerts EXCEPT ![s] = @ + 1]
        /\ \A c \in CoursesOf[s] : certs[c] > 0
        /\ UNCHANGED <<certs, enrolments>>
    BY <1>2, <1>5 DEF IssueSpecialization, Shown
  <2>2. CoursesOf[s] \subseteq CertifiedCourses
    BY <2>1, CertificatesAssumption DEF CertifiedCourses
  <2>3. Awarded' = Awarded \cup {s} /\ UNCHANGED <<CertifiedCourses, Marked>>
    BY <1>2, <2>1 DEF CertifiedCourses, Awarded, Marked
  <2>4. Promise!Award(s)
    BY <1>1, <2>2, <2>3 DEF Promise!Award
  <2>5. QED
    BY <2>1, <2>4 DEF Promise!Next
<1>6. CASE MarkEnrolment(w)
  <2> DEFINE s == gen[w].spec
  <2>1. /\ s \in Specs /\ specCerts[s] > 0 /\ UNCHANGED <<certs, specCerts>>
        /\ enrolment' = [enrolment EXCEPT ![s] = IF @ = None THEN None ELSE "completed"]
    BY <1>2, <1>6 DEF MarkEnrolment, Shown
  <2>2. s \in Awarded /\ UNCHANGED <<CertifiedCourses, Awarded>>
    BY <2>1 DEF CertifiedCourses, Awarded
  <2>3. CASE enrolment[s] = None
    <3>1. enrolment' = enrolment
      BY <1>2, <2>1, <2>3
    <3>2. QED
      BY <1>1, <2>2, <3>1 DEF Marked, Promise!vars
  <2>4. CASE enrolment[s] # None
    <3>1. Marked' = Marked \cup {s}
      BY <1>2, <2>1, <2>4 DEF Marked
    <3>2. Promise!Mark(s)
      BY <1>1, <2>2, <3>1 DEF Promise!Mark
    <3>3. QED
      BY <2>1, <3>2 DEF Promise!Next
  <2>5. QED
    BY <2>3, <2>4
<1>7. QED
  BY <1>3, <1>4, <1>5, <1>6 DEF CreateCertificate

\* GenerateCertificateView, SubmitExamView: whatever overlaps or dies, the tables
\* of certificates change as Credentials does, under the mapping above.
THEOREM CertificatesKeepCredentials == Spec => KeepsCredentials
<1>1. Init => Promise!Init
  <2> SUFFICES ASSUME Init
               PROVE  Promise!Init
    OBVIOUS
  <2>1. \A c \in Courses : ~Earned(c) /\ ~certs[c] > 0
    BY DEF Init, ExamInit, Earned
  <2>2. \A s \in Specs : ~specCerts[s] > 0 /\ enrolment[s] # "completed"
    BY CertificatesAssumption DEF Init
  <2>3. QED
    BY <2>1, <2>2 DEF Promise!Init, EarnedCourses, CertifiedCourses, Awarded, Marked
<1>2. Inv /\ [Next]_vars => [Promise!Next]_(Promise!vars)
  <2> SUFFICES ASSUME Inv, [Next]_vars
               PROVE  [Promise!Next]_(Promise!vars)
    OBVIOUS
  <2>1. CASE \/ \E w \in Workers : gen[w].at = "idle" /\ ExamStep(w) /\ UNCHANGED certVars
             \/ \E i \in Ids : TimePasses(i) /\ UNCHANGED certVars
    BY <2>1, ExamsKeepCredentials
  <2>2. ASSUME NEW c \in Courses, MarkCompleted(c) \/ ApproveAid(c)
        PROVE  [Promise!Next]_(Promise!vars)
    <3>1. /\ UNCHANGED <<attempt, answers, req, certs, specCerts, enrolments>>
          /\ onceDone \subseteq onceDone' /\ onceDone' \subseteq onceDone \cup {c}
      BY <2>2 DEF MarkCompleted, ApproveAid, examVars
    <3>2. ExamTypeOK' /\ Lasting
      BY <3>1 DEF Inv, ExamInv, ExamTypeOK, Lasting
    <3>3. EarnedCourses' \subseteq EarnedCourses \cup {c}
      BY <3>1 DEF EarnedCourses, Earned
    <3>4. QED
      BY <3>1, <3>2, <3>3, OneEarned
  <2>5. ASSUME NEW s \in Specs, Enroll(s) PROVE [Promise!Next]_(Promise!vars)
    <3>1. /\ UNCHANGED <<examVars, applications, certs, specCerts>>
          /\ enrolment[s] = None /\ enrolment' = [enrolment EXCEPT ![s] = "enrolled"]
      BY <2>5 DEF Enroll
    <3>2. Marked' = Marked
      BY <3>1, CertificatesAssumption DEF Marked, Inv, TypeOK
    <3>3. UNCHANGED <<EarnedCourses, CertifiedCourses, Awarded, Marked>>
      BY <3>1, <3>2, ExamsUnchanged DEF EarnedCourses, CertifiedCourses, Awarded
    <3>4. QED
      BY <3>3 DEF Promise!vars
  <2>3. ASSUME NEW w \in Workers,
               \/ \E c \in Courses : Begin(w, c)
               \/ CreateCertificate(w) \/ CheckCourse(w) \/ FindSpecialization(w)
               \/ IssueSpecialization(w) \/ MarkEnrolment(w) \/ KillIssuer(w)
        PROVE  [Promise!Next]_(Promise!vars)
    <3>1. UNCHANGED <<examVars, applications>>
      BY <2>3 DEF Begin, CreateCertificate, CheckCourse, FindSpecialization, IssueSpecialization,
                  MarkEnrolment, KillIssuer
    <3>2. \/ CreateCertificate(w) \/ IssueSpecialization(w) \/ MarkEnrolment(w)
          \/ UNCHANGED <<certs, specCerts, enrolments>>
      BY <2>3 DEF Begin, CheckCourse, FindSpecialization, KillIssuer
    <3>3. QED
      BY <3>1, <3>2, RequestsKeepCredentials
  <2>4. CASE UNCHANGED vars
    <3>1. UNCHANGED <<examVars, applications, certs, specCerts, enrolments>>
      BY <2>4 DEF vars, certVars
    <3>2. UNCHANGED <<EarnedCourses, CertifiedCourses, Awarded, Marked>>
      BY <3>1, ExamsUnchanged DEF EarnedCourses, CertifiedCourses, Awarded, Marked
    <3>3. QED
      BY <3>2 DEF Promise!vars
  <2>6. QED
    BY <2>1, <2>2, <2>3, <2>4, <2>5, CertificatesAssumption DEF Next
<1>3. QED
  BY Invariance, <1>1, <1>2, PTL DEF Spec, KeepsCredentials, Promise!Spec
=============================================================================

----------------------------- MODULE Admissions -----------------------------
(***************************************************************************)
(* Applications to programmes (learnnov-cloud/apps/academic_programs): how *)
(* a ProgramApplication is created, reviewed, force-enrolled and financed, *)
(* what its post_save signals do to referral rewards, and the background   *)
(* task that recounts a programme's applications.                          *)
(*                                                                         *)
(* Staff requests and tasks run on processes of their own, in autocommit   *)
(* mode: between two statements that touch the database another process    *)
(* may run.  Each such statement is an action, and pc says which comes     *)
(* next.  The signal handlers run inside save(), after its UPDATE has      *)
(* been committed, and use the instance the request holds in memory.       *)
(*                                                                         *)
(* A referrer's points and total_referred change together, by 50 and by 1; *)
(* credit[r] stands for both.  A referral code that is unknown, or is the  *)
(* applicant's own, has no effect and is modelled as no code.              *)
(***************************************************************************)
EXTENDS Naturals, FiniteSets

CONSTANTS
    Apps,           \* pairs of an applicant and a programme (unique_together)
    Programs, ProgramOf, MaxStudents,  \* 0: no limit
    Referrers,      \* rows of UserReferral
    Staff,          \* processes that serve requests on applications
    TaskWorkers,    \* Celery workers, or fallback threads
    Endpoints,      \* the requests made in this instance
    MaxRequests,    \* requests in a run (a bound, for TLC)
    MaxFailures,    \* failed or killed steps in a run (a bound, for TLC)
    None

Statuses == {"submitted", "under_review", "waitlisted", "accepted",
             "rejected", "withdrawn", "enrolled"}

ASSUME ConstantsAssumption ==
    /\ ProgramOf \in [Apps -> Programs]
    /\ MaxStudents \in [Programs -> Nat]
    /\ MaxRequests \in Nat
    /\ IsFiniteSet(Apps)
    /\ Endpoints \subseteq {"review", "enroll", "aid", "specialization"}
    /\ IsFiniteSet(Staff)
    /\ MaxFailures \in Nat
    /\ None \notin Apps \cup Programs \cup Referrers \cup Statuses

VARIABLES
    status,     \* ProgramApplication.status, or None: no such row
    code,       \* ProgramApplication.referral_code: the referrer, or None
    reward,     \* ReferralReward of an application: its id, or 0
    made,       \* ReferralReward: the last id given
    credit,     \* UserReferral: points / 50 and total_referred
    history,    \* ApplicationStatusHistory: <<application, old, new>>
    counts,     \* AcademicProgram: applications_count and accepted_count
    tasks,      \* recount tasks queued for a programme
    requests,   \* requests made so far
    failures,   \* steps failed or killed so far
    marks,      \* history: what has happened to an application, see Marks
    floored,    \* history: withdrawals that found no points of a referrer
    blurred,    \* history: programmes whose last recount did not run alone
    pc, app,    \* per process: next statement and the application
    old, new,   \* per process: the status history calls old, and the
                \* one to be saved; history records nothing if they are equal
    known,      \* per process: the id of the reward it read
    tpc, tcount \* per task: <<next statement, programme>> and what it counted

tables == <<status, code, reward, made, credit, history>>
queue == <<counts, tasks, tpc, tcount>>
locals == <<pc, app, old, new, known>>
record == <<requests, failures, marks, floored, blurred>>
vars == <<status, code, reward, made, credit, history, counts, tasks,
          requests, failures, marks, floored, blurred,
          pc, app, old, new, known, tpc, tcount>>

Steps == {"idle", "commit", "save", "enqueue", "check", "create", "add",
          "find", "take", "delete", "log"}
Counts == [applied : Nat, accepted : Nat]

\* Of an application: requests with different ends overlapped on it, one was
\* killed, a signal handler of one failed, or the admin action changed it.
Marks == {"contested", "killed", "failed", "bulk"}
-----------------------------------------------------------------------------
\* ApplicationReviewSerializer.VALID_TRANSITIONS; other states have no entry.
Allowed(s) ==
    CASE s = "submitted" -> {"under_review", "rejected", "withdrawn"}
      [] s = "under_review" -> {"accepted", "rejected", "waitlisted", "withdrawn"}
      [] s = "waitlisted" -> {"accepted", "rejected", "withdrawn"}
      [] s = "accepted" -> {"withdrawn"}
      [] s = "rejected" -> {"under_review"}
      [] OTHER -> {}

AppsOf(p) == {a \in Apps : ProgramOf[a] = p /\ status[a] # None}
AcceptedOf(p) == {a \in AppsOf(p) : status[a] = "accepted"}

IsOpen(p) == MaxStudents[p] > 0 => counts[p].accepted < MaxStudents[p]

\* Requests that are being served for application a.
Busy(a) == {v \in Staff : pc[v] # "idle" /\ app[v] = a}

\* A transaction that inserts or updates the row of a is not committed yet.
Locked(a) == \E v \in Busy(a) : pc[v] = "commit"

Init ==
    /\ status = [a \in Apps |-> None]
    /\ code = [a \in Apps |-> None]
    /\ reward = [a \in Apps |-> 0]
    /\ made = 0
    /\ credit = [r \in Referrers |-> 0]
    /\ history = {}
    /\ counts = [p \in Programs |-> [applied |-> 0, accepted |-> 0]]
    /\ tasks = [p \in Programs |-> 0]
    /\ requests = 0
    /\ failures = 0
    /\ marks = [a \in Apps |-> {}]
    /\ floored = [r \in Referrers |-> 0]
    /\ blurred = {}
    /\ pc = [v \in Staff |-> "idle"]
    /\ app = [v \in Staff |-> None]
    /\ old = [v \in Staff |-> None]
    /\ new = [v \in Staff |-> None]
    /\ known = [v \in Staff |-> 0]
    /\ tpc = [t \in TaskWorkers |-> <<"idle", None>>]
    /\ tcount = [t \in TaskWorkers |-> [applied |-> 0, accepted |-> 0]]

Goto(v, s) == pc' = [pc EXCEPT ![v] = s]
Finish(v) ==
    /\ Goto(v, "idle")
    /\ app' = [app EXCEPT ![v] = None]
    /\ old' = [old EXCEPT ![v] = None]
    /\ new' = [new EXCEPT ![v] = None]
    /\ known' = [known EXCEPT ![v] = 0]

Enqueue(p) == tasks' = [tasks EXCEPT ![p] = @ + 1]
-----------------------------------------------------------------------------
(* A student applies *)

\* ProgramApplyView: the INSERT is committed before its signals queue a recount.
\* The referral code was kept in the session.  unique_together refuses a second
\* row.  Nothing is rewarded: a new application is not accepted.
Apply(a) ==
    /\ IsOpen(ProgramOf[a])
    /\ status[a] = None
    /\ ~Locked(a)
    /\ status' = [status EXCEPT ![a] = "submitted"]
    /\ \E r \in Referrers \cup {None} : code' = [code EXCEPT ![a] = r]
    /\ Enqueue(ProgramOf[a])
    /\ UNCHANGED <<reward, made, credit, history, counts, tpc, tcount, record,
                   locals>>
-----------------------------------------------------------------------------
(* Requests that write the application in one transaction *)

Mark(a, m) == marks' = [marks EXCEPT ![a] = @ \cup m]

\* Requests on a that have yet to write it or its reward, and not all of them,
\* with the new one, to accept it.
Rivals(a, s) ==
    {w \in Busy(a) : pc[w] # "log" /\ (s # "accepted" \/ new[w] # "accepted")}

\* Nothing keeps requests on one application from overlapping.
StartRequest(v, a, s, m) ==
    /\ requests < MaxRequests
    /\ requests' = requests + 1
    /\ pc[v] = "idle"
    /\ Mark(a, IF Rivals(a, s) = {} THEN m ELSE m \cup {"contested"})
    /\ UNCHANGED <<failures, floored, blurred>>

\* get_or_create and update_or_create run save() and its signals inside their
\* transaction: the recount is queued before the row is committed.
Begin(v, a, s, m) ==
    /\ StartRequest(v, a, s, m)
    /\ ~Locked(a)
    /\ app' = [app EXCEPT ![v] = a]
    /\ old' = [old EXCEPT ![v] = s]
    /\ new' = [new EXCEPT ![v] = s]
    /\ Goto(v, "commit")
    /\ Enqueue(ProgramOf[a])
    /\ UNCHANGED <<tables, counts, tpc, tcount, known>>

\* enroll_user_in_specialization, for a course without an application.
EnrollInSpecialization(v, a) ==
    /\ "specialization" \in Endpoints
    /\ status[a] = None
    /\ Begin(v, a, "enrolled", {})

\* The admin action enroll_users_in_program, for a user without an application.
EnrollCreate(v, a) ==
    /\ "enroll" \in Endpoints
    /\ status[a] = None
    /\ Begin(v, a, "accepted", {"bulk"})

\* FinancialAidReviewView: approved aid enrols the applicant, whatever the
\* status of the application is, and without one.
ApproveAid(v, a) ==
    /\ "aid" \in Endpoints
    /\ Begin(v, a, "enrolled", {})

\* Mutant: points are taken back without GREATEST(..., 0).
DecreaseBelowZero(n) == n - 1

Decrease(n) == IF n = 0 THEN 0 ELSE n - 1

\* UPDATE ... SET points = GREATEST(points - 50, 0), ...
Withdraw(r) ==
    /\ credit' = [credit EXCEPT ![r] = Decrease(@)]
    /\ floored' = [floored EXCEPT ![r] = IF credit[r] = 0 THEN @ + 1 ELSE @]

\* Mutant: the application is updated without its signals.
CommitSilently(v) ==
    /\ pc[v] = "commit"
    /\ status' = [status EXCEPT ![app[v]] = new[v]]
    /\ Finish(v)
    /\ UNCHANGED <<code, reward, made, credit, history, queue, record>>

\* A new row has no referral code, so no reward either.  The update of an old
\* one takes it out of "accepted": handle_referral_reversal takes back the
\* points of its reward and deletes it.  The recount may have run before.
Commit(v) ==
    /\ pc[v] = "commit"
    /\ LET a == app[v]
           p == ProgramOf[a]
       IN /\ status' = [status EXCEPT ![a] = new[v]]
          /\ reward' = [reward EXCEPT ![a] = 0]
          /\ IF reward[a] = 0 THEN UNCHANGED <<credit, floored>>
             ELSE Withdraw(code[a])
          /\ blurred' = IF tasks[p] = 0 THEN blurred \cup {p} ELSE blurred
    /\ Finish(v)
    /\ UNCHANGED <<code, made, history, queue, requests, failures, marks>>
-----------------------------------------------------------------------------
(* A review, or the admin action, reads an application ... *)

LoadFor(v, a, o, s) ==
    /\ app' = [app EXCEPT ![v] = a]
    /\ old' = [old EXCEPT ![v] = o]
    /\ new' = [new EXCEPT ![v] = s]
    /\ Goto(v, "save")
    /\ UNCHANGED <<tables, queue, known>>

\* ApplicationReviewView: the new status is validated against the instance in
\* memory.  A request that only edits the notes saves the status it read.
ReviewRead(v, a) ==
    /\ "review" \in Endpoints
    /\ status[a] # None
    /\ \E s \in Allowed(status[a]) \cup {status[a]} :
          /\ StartRequest(v, a, s, {})
          /\ LoadFor(v, a, status[a], s)

\* enroll_users_in_program accepts an application from whatever status it has,
\* and history records nothing.
EnrollRead(v, a) ==
    /\ "enroll" \in Endpoints
    /\ StartRequest(v, a, "accepted", {"bulk"})
    /\ status[a] \notin {None, "accepted"}
    /\ LoadFor(v, a, "accepted", "accepted")
-----------------------------------------------------------------------------
(* ... and saves it; the signal handlers follow in the order of signals.py. *)

\* save() writes the whole row, the status included.
Save(v) ==
    /\ pc[v] = "save"
    /\ ~Locked(app[v])
    /\ status' = [status EXCEPT ![app[v]] = new[v]]
    /\ Goto(v, "enqueue")
    /\ UNCHANGED <<code, reward, made, credit, history, queue, record,
                   app, old, new, known>>

\* update_program_stats_on_save; then, by the status in memory, one of
\* handle_application_referral and handle_referral_reversal has work to do.
QueueRecount(v) ==
    /\ pc[v] = "enqueue"
    /\ Enqueue(ProgramOf[app[v]])
    /\ Goto(v, IF new[v] # "accepted" THEN "find"
               ELSE IF code[app[v]] = None THEN "log" ELSE "check")
    /\ UNCHANGED <<tables, counts, tpc, tcount, record, app, old, new, known>>

\* Mutant: the reward of an application is not looked for.
CheckNoReward(v) ==
    /\ pc[v] = "check"
    /\ Goto(v, "add")
    /\ UNCHANGED <<tables, queue, record, app, old, new, known>>

CheckReward(v) ==
    /\ pc[v] = "check"
    /\ Goto(v, IF reward[app[v]] = 0 THEN "create" ELSE "log")
    /\ UNCHANGED <<tables, queue, record, app, old, new, known>>

\* ReferralReward.application is one-to-one: a second row raises, and the
\* exception is logged.
CreateReward(v) ==
    /\ pc[v] = "create"
    /\ ~Locked(app[v])
    /\ IF reward[app[v]] = 0
       THEN /\ made' = made + 1
            /\ reward' = [reward EXCEPT ![app[v]] = made + 1]
            /\ Goto(v, "add")
       ELSE Goto(v, "log") /\ UNCHANGED <<made, reward>>
    /\ UNCHANGED <<status, code, credit, history, queue, record,
                   app, old, new, known>>

\* Mutant: the points are set, where they should be added to.
SetCredit(v) ==
    /\ pc[v] = "add"
    /\ credit' = [credit EXCEPT ![code[app[v]]] = 1]
    /\ Goto(v, "log")
    /\ UNCHANGED <<status, code, reward, made, history, queue, record,
                   app, old, new, known>>

\* UPDATE ... SET points = points + 50, total_referred = total_referred + 1
AddCredit(v) ==
    /\ pc[v] = "add"
    /\ credit' = [credit EXCEPT ![code[app[v]]] = @ + 1]
    /\ Goto(v, "log")
    /\ UNCHANGED <<status, code, reward, made, history, queue, record,
                   app, old, new, known>>

FindReward(v) ==
    /\ pc[v] = "find"
    /\ known' = [known EXCEPT ![v] = reward[app[v]]]
    /\ Goto(v, IF reward[app[v]] = 0 THEN "log" ELSE "take")
    /\ UNCHANGED <<tables, queue, record, app, old, new>>

TakeCredit(v) ==
    /\ pc[v] = "take"
    /\ Withdraw(code[app[v]])
    /\ Goto(v, "delete")
    /\ UNCHANGED <<status, code, reward, made, history, queue, requests, failures,
                   marks, blurred, app, old, new, known>>

\* DELETE by the id that was read.
DeleteReward(v) ==
    /\ pc[v] = "delete"
    /\ reward' = [reward EXCEPT ![app[v]] = IF @ = known[v] THEN 0 ELSE @]
    /\ Goto(v, "log")
    /\ UNCHANGED <<status, code, made, credit, history, queue, record,
                   app, old, new, known>>

\* Mutant: only decisions are recorded.
LogDecisions(v) ==
    /\ pc[v] = "log"
    /\ history' = IF old[v] # new[v] /\ new[v] \in {"accepted", "rejected"}
                  THEN history \cup {<<app[v], old[v], new[v]>>} ELSE history
    /\ Finish(v)
    /\ UNCHANGED <<status, code, reward, made, credit, queue, record>>

Log(v) ==
    /\ pc[v] = "log"
    /\ history' = IF old[v] # new[v]
                  THEN history \cup {<<app[v], old[v], new[v]>>} ELSE history
    /\ Finish(v)
    /\ UNCHANGED <<status, code, reward, made, credit, queue, record>>
-----------------------------------------------------------------------------
(* Failures *)

Disturb ==
    /\ failures < MaxFailures
    /\ failures' = failures + 1

\* A killed process leaves undone what it has not committed; so does one whose
\* statement raises outside the try blocks of the signal handlers, and a
\* transaction that is rolled back.
Crash(v) ==
    /\ Disturb
    /\ pc[v] # "idle"
    /\ Mark(app[v], {"killed"})
    /\ blurred' = blurred \cup {ProgramOf[app[v]]}
    /\ Finish(v)
    /\ UNCHANGED <<tables, queue, requests, floored>>

\* An exception in the body of a handler of signals.py is logged there, and the
\* request goes on without the rest of that handler.
Fault(v) ==
    /\ Disturb
    /\ pc[v] \in {"create", "add", "take", "delete"}
    /\ Mark(app[v], {"failed"})
    /\ Goto(v, "log")
    /\ UNCHANGED <<tables, queue, requests, floored, blurred, app, old, new, known>>
-----------------------------------------------------------------------------
(* update_program_applications_count_task *)

RecountsOf(p) == {t \in TaskWorkers : tpc[t] \in {<<"accepted", p>>, <<"save", p>>}}

\* No lock is taken: recounts of one programme may overlap, and save in another
\* order than they counted.
CountApplied(t, p) ==
    /\ tpc[t][1] = "idle"
    /\ tasks[p] > 0
    /\ tasks' = [tasks EXCEPT ![p] = @ - 1]
    /\ tcount' = [tcount EXCEPT ![t].applied = Cardinality(AppsOf(p))]
    /\ tpc' = [tpc EXCEPT ![t] = <<"accepted", p>>]
    /\ blurred' = IF RecountsOf(p) = {} THEN blurred \ {p} ELSE blurred \cup {p}
    /\ UNCHANGED <<tables, counts, requests, failures, marks, floored, locals>>

\* Mutant: a task that finds the number of applications unchanged stops.
CountAcceptedOnGrowth(t) ==
    /\ tpc[t][1] = "accepted"
    /\ LET p == tpc[t][2]
       IN IF tcount[t].applied = counts[p].applied
          THEN /\ tpc' = [tpc EXCEPT ![t] = <<"idle", None>>]
               /\ UNCHANGED tcount
          ELSE /\ tcount' = [tcount EXCEPT ![t].accepted = Cardinality(AcceptedOf(p))]
               /\ tpc' = [tpc EXCEPT ![t] = <<"save", p>>]
    /\ UNCHANGED <<tables, counts, tasks, record, locals>>

CountAccepted(t) ==
    /\ tpc[t][1] = "accepted"
    /\ tcount' = [tcount EXCEPT ![t].accepted = Cardinality(AcceptedOf(tpc[t][2]))]
    /\ tpc' = [tpc EXCEPT ![t] = <<"save", @[2]>>]
    /\ UNCHANGED <<tables, counts, tasks, record, locals>>

SaveCounts(t) ==
    /\ tpc[t][1] = "save"
    /\ counts' = [counts EXCEPT ![tpc[t][2]] = tcount[t]]
    /\ tpc' = [tpc EXCEPT ![t] = <<"idle", None>>]
    /\ UNCHANGED <<tables, tasks, tcount, record, locals>>

\* A task is acknowledged when it starts, so a killed one is lost.
LoseTask(t) ==
    /\ Disturb
    /\ tpc[t][1] # "idle"
    /\ blurred' = blurred \cup {tpc[t][2]}
    /\ tpc' = [tpc EXCEPT ![t] = <<"idle", None>>]
    /\ UNCHANGED <<tables, counts, tasks, tcount, requests, marks, floored, locals>>
-----------------------------------------------------------------------------
Request(v, a) ==
    \/ EnrollInSpecialization(v, a) \/ EnrollCreate(v, a) \/ ApproveAid(v, a)
    \/ ReviewRead(v, a) \/ EnrollRead(v, a)

Proceed(v) ==
    \/ Commit(v) \/ Save(v) \/ QueueRecount(v) \/ CheckReward(v) \/ CreateReward(v)
    \/ AddCredit(v) \/ FindReward(v) \/ TakeCredit(v) \/ DeleteReward(v) \/ Log(v)

Recount(t) ==
    \/ \E p \in Programs : CountApplied(t, p)
    \/ CountAccepted(t) \/ SaveCounts(t)

Next ==
    \/ \E a \in Apps : Apply(a)
    \/ \E v \in Staff, a \in Apps : Request(v, a)
    \/ \E v \in Staff : Proceed(v) \/ Crash(v) \/ Fault(v)
    \/ \E t \in TaskWorkers : Recount(t) \/ LoseTask(t)

Spec == Init /\ [][Next]_vars
-----------------------------------------------------------------------------
(* Properties *)

TypeOK ==
    /\ status \in [Apps -> Statuses \cup {None}]
    /\ code \in [Apps -> Referrers \cup {None}]
    /\ reward \in [Apps -> Nat]
    /\ made \in Nat
    /\ credit \in [Referrers -> Nat]
    /\ history \subseteq Apps \X Statuses \X Statuses
    /\ counts \in [Programs -> Counts]
    /\ tasks \in [Programs -> Nat]
    /\ requests \in 0 .. MaxRequests
    /\ failures \in 0 .. MaxFailures
    /\ marks \in [Apps -> SUBSET Marks]
    /\ floored \in [Referrers -> Nat]
    /\ blurred \subseteq Programs
    /\ pc \in [Staff -> Steps]
    /\ app \in [Staff -> Apps \cup {None}]
    /\ old \in [Staff -> Statuses \cup {None}]
    /\ new \in [Staff -> Statuses \cup {None}]
    /\ known \in [Staff -> Nat]
    /\ tpc \in [TaskWorkers -> {<<"idle", None>>} \cup ({"accepted", "save"} \X Programs)]
    /\ tcount \in [TaskWorkers -> Counts]

\* An application is rewarded when it is both accepted and referred.
Due(a) == status[a] = "accepted" /\ code[a] # None

RewardedBy(r) == {a \in Apps : reward[a] # 0 /\ code[a] = r}

\* No request was killed or failed on a, and none with another end overlapped.
Undisturbed(a) == marks[a] \subseteq {"bulk"}

\* An application has a reward exactly when it is accepted and referred, whatever
\* requests it went through one after the other, and also if several accepted it
\* at the same time: of those that find no reward one creates it.  Of
\* applications on which a request was killed or failed, or a withdrawal overlapped
\* another request, nothing is said here (signals.py:28-44, 61-75).
RewardsFollowAcceptance ==
    \A a \in Apps :
        Undisturbed(a) /\ Busy(a) = {} => (reward[a] # 0 <=> Due(a))

\* A referrer all of whose referrals went undisturbed has, when no request on them
\* is under way, exactly the points of the rewards on record, though requests on
\* different applications added and took them at the same time, and several may
\* have accepted one (signals.py:46-49, 69-75).
CreditMatchesRewards ==
    \A r \in Referrers :
        (\A a \in Apps : code[a] = r => Undisturbed(a) /\ Busy(a) = {})
            => credit[r] = Cardinality(RewardedBy(r))

\* In any overlap, and whatever is killed or fails, a referrer has points beyond
\* the rewards on record only as often as a withdrawal found none to take: points
\* are never added twice for a reward, and it is not deleted before they were taken
\* back (signals.py:40-49, 69-75).  Only GREATEST, which lets a withdrawal
\* overtake the addition, makes points of nothing.
NoUnbackedPoints ==
    \A r \in Referrers : credit[r] <= Cardinality(RewardedBy(r)) + floored[r]

Exact(p) == [applied |-> Cardinality(AppsOf(p)), accepted |-> Cardinality(AcceptedOf(p))]

\* Nothing is queued or under way at programme p.
Settled(p) ==
    /\ \A v \in Staff : pc[v] # "idle" => ProgramOf[app[v]] # p
    /\ RecountsOf(p) = {} /\ tasks[p] = 0

\* When nothing is left to be done, the counters of a programme are its counts
\* (tasks.py:89), unless its last recount began while another one ran, or since it
\* began a recount ran before the commit it was queued for, or a process was
\* killed.  So whatever was wrong before, the next recount that runs alone mends.
CountersExact == \A p \in Programs \ blurred : Settled(p) => counts[p] = Exact(p)

\* The status that an application has reached is on record in its history when no
\* request on it is under way, also when reviews of it overlap and one saves over
\* the other, unless one was killed before its record or the admin action, which
\* records nothing, has changed it (serializers.py:152-158).
StatusOnRecord ==
    \A a \in Apps :
        marks[a] \cap {"killed", "bulk"} = {} /\ Busy(a) = {}
            => \/ status[a] \in {None, "submitted", "enrolled"}
               \/ \E h \in history : h[1] = a /\ h[3] = status[a]

\* A review moves an application only as VALID_TRANSITIONS allows, and "cannot
\* change the status" otherwise (serializers.py:116-132).
OnlyValidTransitions ==
    [][\A a \in Apps : status[a] # None /\ status'[a] # status[a]
           => status'[a] \in Allowed(status[a])]_vars
-----------------------------------------------------------------------------
(* What makes these properties inductive, in any overlap *)

\* What the locals of request v say about its application at each statement.
LocalsOf(v) ==
    LET a == app[v]
    IN pc[v] # "idle" =>
        /\ a # None /\ old[v] # None /\ new[v] # None
        /\ pc[v] = "commit" => status[a] = None \/ new[v] = "enrolled"
        /\ pc[v] # "commit" => status[a] # None
        /\ pc[v] \in {"check", "create", "add"} => new[v] = "accepted"
        /\ pc[v] \in {"find", "take", "delete"} => new[v] # "accepted"
        /\ pc[v] \in {"check", "create", "add", "take", "delete"} => code[a] # None

\* The row of an application is locked by one transaction at a time.
OneCommit ==
    \A v, w \in Staff : pc[v] = "commit" /\ pc[w] = "commit" /\ app[v] = app[w] => v = w

\* There is a reward only for a referred application, a code only in a row.
ReferencesOK ==
    \A a \in Apps :
        /\ reward[a] # 0 => code[a] # None
        /\ status[a] = None => code[a] = None

BaseInv == TypeOK /\ OneCommit /\ ReferencesOK /\ \A v \in Staff : LocalsOf(v)

\* Requests that have made a reward and have yet to add its points, or have taken
\* points and have yet to delete the reward.
Owing(r) == {v \in Staff : pc[v] \in {"add", "delete"} /\ code[app[v]] = r}

PointsInv ==
    /\ BaseInv
    /\ \A r \in Referrers :
          credit[r] + Cardinality(Owing(r)) <= Cardinality(RewardedBy(r)) + floored[r]

\* Requests on a that have yet to write it or its reward.
Working(a) == {v \in Busy(a) : pc[v] # "log"}

\* Of several such requests all accept, and one of them adds the points.
Accord(a) ==
    \A v, w \in Working(a) :
        v # w => new[v] = "accepted" /\ (pc[v] = "add" => pc[w] # "add")

\* What they have seen, or done, of the application is still so.
Seen(a) ==
    \A v \in Working(a) :
        /\ pc[v] \notin {"commit", "save"} => status[a] = new[v]
        /\ pc[v] = "add" => reward[a] # 0
        /\ pc[v] \in {"take", "delete"} => known[v] = reward[a] /\ reward[a] # 0

\* A reward that is missing, or left over, is about to be dealt with.
Attended(a) ==
    /\ reward[a] = 0 /\ Due(a) =>
          \E v \in Working(a) : pc[v] \in {"enqueue", "check", "create"}
    /\ reward[a] # 0 /\ ~Due(a) =>
          \E v \in Working(a) : pc[v] \in {"enqueue", "find", "take", "delete"}

InOrder(a) == Accord(a) /\ Seen(a) /\ Attended(a)

RewardInv == BaseInv /\ \A a \in Apps : Undisturbed(a) => InOrder(a)

\* Rewards whose points the referrer should have: they are added after "add"
\* and taken back before "delete".
Paid(r) ==
    {a \in RewardedBy(r) : \A v \in Busy(a) : pc[v] \notin {"add", "delete"}}

CreditInv ==
    /\ RewardInv
    /\ \A r \in Referrers :
          (\A a \in Apps : code[a] = r => Undisturbed(a))
              => credit[r] = Cardinality(Paid(r))

\* A status that needs no record, has one, or will get it from the request that
\* saved it.
Recorded(a, s) ==
    \/ s \in {None, "submitted", "enrolled"}
    \/ \E h \in history : h[1] = a /\ h[3] = s
    \/ \E v \in Staff : /\ pc[v] \notin {"idle", "commit", "save"} /\ app[v] = a
                        /\ old[v] # new[v] /\ new[v] = s

\* So is the status of every application, and the one a request has read.
RecordInv ==
    \A a \in Apps :
        marks[a] \cap {"killed", "bulk"} = {} =>
            /\ Recorded(a, status[a])
            /\ \A v \in Busy(a) : /\ Recorded(a, old[v])
                                  /\ pc[v] = "commit" => new[v] = "enrolled"

\* A recount of p is queued, or is about to be.
Pending(p) ==
    tasks[p] > 0 \/ \E v \in Staff : pc[v] = "enqueue" /\ ProgramOf[app[v]] = p

\* What has been counted so far, or saved, is what the table says.
UpToDate(p) ==
    /\ \A t \in TaskWorkers :
          /\ tpc[t] = <<"accepted", p>> => tcount[t].applied = Cardinality(AppsOf(p))
          /\ tpc[t] = <<"save", p>> => tcount[t] = Exact(p)
    /\ RecountsOf(p) = {} => counts[p] = Exact(p)

CountInv ==
    \A p \in Programs \ blurred :
        /\ \A t, u \in RecountsOf(p) : t = u
        /\ Pending(p) \/ UpToDate(p)
=============================================================================

-------------------------- MODULE AdmissionsProofs --------------------------
(***************************************************************************)
(* Proofs about Admissions, for every finite number of applications and    *)
(* processes and every number of programmes, referrers, requests and       *)
(* tasks.                                                                  *)
(***************************************************************************)
EXTENDS Admissions, FiniteSetTheorems, TLAPS

-----------------------------------------------------------------------------
(* What the requests have in common *)

\* Process v begins a request on a that takes the old status for o, will write s,
\* and goes on with statement q.
Starts(v, a, o, s, q) ==
    /\ pc[v] = "idle"
    /\ pc' = [pc EXCEPT ![v] = q]
    /\ app' = [app EXCEPT ![v] = a]
    /\ old' = [old EXCEPT ![v] = o]
    /\ new' = [new EXCEPT ![v] = s]
    /\ requests < MaxRequests /\ requests' = requests + 1
    /\ q \in {"commit", "save"}
    /\ q = "commit" => /\ ~Locked(a) /\ (status[a] = None \/ s = "enrolled")
                       /\ tasks' = [tasks EXCEPT ![ProgramOf[a]] = @ + 1]
    /\ q = "save" => status[a] # None /\ tasks' = tasks
    /\ \E m \in SUBSET Marks :
          /\ marks' = [marks EXCEPT ![a] = @ \cup m]
          /\ Rivals(a, s) # {} => "contested" \in m
          /\ "bulk" \notin m => /\ o \in {"enrolled", status[a]}
                                /\ q = "commit" => s = "enrolled"
    /\ UNCHANGED <<tables, counts, tpc, tcount, known, failures, floored, blurred>>

\* All five kinds of request do this.
LEMMA RequestStarts ==
    ASSUME TypeOK, NEW v \in Staff, NEW a \in Apps, Request(v, a)
    PROVE  \E o, s \in Statuses : \E q \in {"commit", "save"} : Starts(v, a, o, s, q)
<1> USE DEF TypeOK
<1>1. ASSUME NEW s \in Statuses, NEW m \in SUBSET Marks,
             Mark(a, IF Rivals(a, s) = {} THEN m ELSE m \cup {"contested"})
      PROVE  \E n \in SUBSET Marks :
                /\ marks' = [marks EXCEPT ![a] = @ \cup n]
                /\ Rivals(a, s) # {} => "contested" \in n
                /\ "bulk" \notin n => "bulk" \notin m
  <2> DEFINE n == IF Rivals(a, s) = {} THEN m ELSE m \cup {"contested"}
  <2>1. n \in SUBSET Marks
    BY DEF Marks
  <2>2. /\ marks' = [marks EXCEPT ![a] = @ \cup n]
        /\ Rivals(a, s) # {} => "contested" \in n
        /\ "bulk" \notin n => "bulk" \notin m
    BY <1>1 DEF Mark
  <2> HIDE DEF n
  <2>3. QED
    BY <2>1, <2>2
<1>2. ASSUME NEW s \in Statuses, NEW m \in SUBSET Marks, Begin(v, a, s, m),
             status[a] = None \/ s = "enrolled", "bulk" \notin m => s = "enrolled"
      PROVE  Starts(v, a, s, s, "commit")
  <2>1. Mark(a, IF Rivals(a, s) = {} THEN m ELSE m \cup {"contested"})
    BY <1>2 DEF Begin, StartRequest
  <2>2. QED
    BY <1>1, <1>2, <2>1 DEF Begin, StartRequest, Goto, Enqueue, Starts
<1>3. ASSUME NEW o \in Statuses, NEW s \in Statuses, NEW m \in SUBSET Marks,
             StartRequest(v, a, s, m), LoadFor(v, a, o, s), status[a] # None,
             "bulk" \notin m => o = status[a]
      PROVE  Starts(v, a, o, s, "save")
  <2>1. Mark(a, IF Rivals(a, s) = {} THEN m ELSE m \cup {"contested"})
    BY <1>3 DEF StartRequest
  <2>2. QED
    BY <1>1, <1>3, <2>1 DEF LoadFor, StartRequest, Goto, queue, Starts
<1>4. CASE EnrollInSpecialization(v, a) \/ ApproveAid(v, a)
  BY <1>2, <1>4 DEF EnrollInSpecialization, ApproveAid, Statuses
<1>5. CASE EnrollCreate(v, a)
  BY <1>2, <1>5 DEF EnrollCreate, Statuses, Marks
<1>6. CASE ReviewRead(v, a)
  <2>1. PICK s \in Allowed(status[a]) \cup {status[a]} :
          StartRequest(v, a, s, {}) /\ LoadFor(v, a, status[a], s)
    BY <1>6 DEF ReviewRead
  <2>2. status[a] \in Statuses /\ s \in Statuses
    BY <1>6, <2>1 DEF ReviewRead, Allowed, Statuses
  <2>3. QED
    BY <1>3, <1>6, <2>1, <2>2 DEF ReviewRead
<1>7. CASE EnrollRead(v, a)
  BY <1>3, <1>7 DEF EnrollRead, Statuses, Marks
<1>8. QED
  BY <1>4, <1>5, <1>6, <1>7 DEF Request

-----------------------------------------------------------------------------
(* Types *)

\* The applications counted by a task are finitely many.
LEMMA CountsType ==
    ASSUME NEW p
    PROVE  Cardinality(AppsOf(p)) \in Nat /\ Cardinality(AcceptedOf(p)) \in Nat
<1>1. IsFiniteSet(AppsOf(p)) /\ IsFiniteSet(AcceptedOf(p))
  BY ConstantsAssumption, FS_Subset DEF AppsOf, AcceptedOf
<1>2. QED
  BY <1>1, FS_CardinalityType

\* A withdrawal keeps points, and the withdrawals counted, natural numbers.
LEMMA WithdrawType ==
    ASSUME TypeOK, NEW r \in Referrers, Withdraw(r)
    PROVE  credit' \in [Referrers -> Nat] /\ floored' \in [Referrers -> Nat]
<1>1. Decrease(credit[r]) \in Nat
  BY DEF Decrease, TypeOK
<1>2. (IF credit[r] = 0 THEN floored[r] + 1 ELSE floored[r]) \in Nat
  BY DEF TypeOK
<1>3. QED
  BY <1>1, <1>2 DEF Withdraw, TypeOK

\* No step takes a row or a local out of its type.
LEMMA StepType ==
    ASSUME BaseInv, [Next]_vars
    PROVE  TypeOK'
<1> USE ConstantsAssumption DEF BaseInv, TypeOK
<1>0. \A v \in Staff : pc[v] # "idle" =>
         app[v] \in Apps /\ old[v] \in Statuses /\ new[v] \in Statuses
  BY DEF LocalsOf
<1>1. ASSUME NEW a \in Apps, Apply(a) PROVE TypeOK'
  BY <1>1 DEF Apply, Enqueue, locals, record, Statuses
<1>2. ASSUME NEW v \in Staff, NEW a \in Apps, Request(v, a) PROVE TypeOK'
  <2>1. PICK o \in Statuses, s \in Statuses, q \in {"commit", "save"} : Starts(v, a, o, s, q)
    BY <1>2, RequestStarts
  <2>2. marks' \in [Apps -> SUBSET Marks]
    BY <2>1 DEF Starts
  <2>3. requests' \in 0 .. MaxRequests
    BY <2>1 DEF Starts
  <2>4. tasks' \in [Programs -> Nat]
    BY <2>1 DEF Starts
  <2>5. /\ pc' \in [Staff -> Steps] /\ app' \in [Staff -> Apps \cup {None}]
        /\ old' \in [Staff -> Statuses \cup {None}]
        /\ new' \in [Staff -> Statuses \cup {None}]
    BY <2>1 DEF Starts, Steps
  <2>6. QED
    BY <2>1, <2>2, <2>3, <2>4, <2>5 DEF Starts, tables
<1>3. ASSUME NEW v \in Staff, Commit(v) PROVE TypeOK'
  <2>1. PICK a \in Apps : a = app[v]
    BY <1>3 DEF Commit, LocalsOf
  <2>2. credit' \in [Referrers -> Nat] /\ floored' \in [Referrers -> Nat]
    <3>1. CASE reward[a] = 0
      BY <1>3, <2>1, <3>1 DEF Commit
    <3>2. CASE reward[a] # 0
      <4>1. code[a] \in Referrers /\ Withdraw(code[a])
        BY <1>3, <2>1, <3>2 DEF Commit, ReferencesOK
      <4>2. QED
        BY <4>1, WithdrawType
    <3>3. QED
      BY <3>1, <3>2
  <2>3. /\ status' = [status EXCEPT ![a] = new[v]] /\ new[v] \in Statuses
        /\ reward' = [reward EXCEPT ![a] = 0]
        /\ blurred' \subseteq Programs
    BY <1>3, <2>1 DEF Commit, LocalsOf
  <2>4. QED
    <3>1. /\ pc' = [pc EXCEPT ![v] = "idle"] /\ app' = [app EXCEPT ![v] = None]
          /\ old' = [old EXCEPT ![v] = None] /\ new' = [new EXCEPT ![v] = None]
          /\ known' = [known EXCEPT ![v] = 0]
          /\ UNCHANGED <<code, made, history, queue, requests, failures, marks>>
      BY <1>3 DEF Commit, Finish, Goto
    <3>2. QED
      BY <2>2, <2>3, <3>1 DEF queue, Steps
<1>4. ASSUME NEW v \in Staff, Save(v) PROVE TypeOK'
  BY <1>4 DEF Save, Goto, queue, record, Steps
<1>5. ASSUME NEW v \in Staff, QueueRecount(v) PROVE TypeOK'
  BY <1>0, <1>5 DEF QueueRecount, Goto, Enqueue, tables, record, Steps
<1>6. ASSUME NEW v \in Staff, CheckReward(v) PROVE TypeOK'
  BY <1>6 DEF CheckReward, Goto, tables, queue, record, Steps
<1>7. ASSUME NEW v \in Staff, CreateReward(v) PROVE TypeOK'
  <2>1. /\ made' \in Nat /\ reward' \in [Apps -> Nat]
        /\ pc' \in [Staff -> Steps]
    <3>1. CASE reward[app[v]] = 0
      BY <1>7, <3>1 DEF CreateReward, Goto, Steps
    <3>2. CASE reward[app[v]] # 0
      BY <1>7, <3>2 DEF CreateReward, Goto, Steps
    <3>3. QED
      BY <3>1, <3>2
  <2>2. UNCHANGED <<status, code, credit, history, queue, record, app, old, new, known>>
    BY <1>7 DEF CreateReward
  <2>3. QED
    BY <2>1, <2>2 DEF queue, record
<1>8. ASSUME NEW v \in Staff, AddCredit(v) PROVE TypeOK'
  <2>1. credit' \in [Referrers -> Nat]
    <3>1. \A n \in Nat : n + 1 \in Nat
      OBVIOUS
    <3>2. QED
      BY <1>8, <3>1, Zenon DEF AddCredit
  <2>2. QED
    BY <1>8, <2>1 DEF AddCredit, Goto, queue, record, Steps
<1>9. ASSUME NEW v \in Staff, FindReward(v) PROVE TypeOK'
  BY <1>0, <1>9 DEF FindReward, Goto, tables, queue, record, Steps
<1>10. ASSUME NEW v \in Staff, TakeCredit(v) PROVE TypeOK'
  <2>1. code[app[v]] \in Referrers /\ Withdraw(code[app[v]])
    BY <1>10 DEF TakeCredit, LocalsOf
  <2>2. credit' \in [Referrers -> Nat] /\ floored' \in [Referrers -> Nat]
    BY <2>1, WithdrawType
  <2>3. QED
    BY <1>10, <2>2 DEF TakeCredit, Goto, queue, Steps
<1>11. ASSUME NEW v \in Staff, DeleteReward(v) PROVE TypeOK'
  BY <1>11 DEF DeleteReward, Goto, queue, record, Steps
<1>12. ASSUME NEW v \in Staff, Log(v) PROVE TypeOK'
  <2>1. history' \subseteq Apps \X Statuses \X Statuses
    BY <1>0, <1>12 DEF Log
  <2>2. QED
    BY <1>12, <2>1 DEF Log, Goto, Finish, queue, record, Steps
<1>13. ASSUME NEW v \in Staff, Crash(v) PROVE TypeOK'
  <2>1. app[v] \in Apps /\ blurred' \subseteq Programs
    BY <1>0, <1>13 DEF Crash
  <2>2. marks' \in [Apps -> SUBSET Marks]
    BY <1>13, <2>1 DEF Crash, Mark, Marks
  <2>3. failures' \in 0 .. MaxFailures
    BY <1>13 DEF Crash, Disturb
  <2>4. QED
    BY <1>13, <2>1, <2>2, <2>3 DEF Crash, Goto, Finish, tables, queue, Steps
<1>14. ASSUME NEW v \in Staff, Fault(v) PROVE TypeOK'
  BY <1>0, <1>14 DEF Fault, Disturb, Mark, Marks, Goto, tables, queue, Steps
<1>15. ASSUME NEW t \in TaskWorkers, NEW p \in Programs, CountApplied(t, p) PROVE TypeOK'
  <2>1. tcount' \in [TaskWorkers -> Counts]
    <3>1. PICK n \in Nat : tcount' = [tcount EXCEPT ![t].applied = n]
      BY <1>15, CountsType DEF CountApplied
    <3>2. [tcount[t] EXCEPT !.applied = n] \in Counts
      <4>1. tcount[t] \in Counts
        OBVIOUS
      <4>2. QED
        BY <4>1 DEF Counts
    <3>3. tcount' = [tcount EXCEPT ![t] = [tcount[t] EXCEPT !.applied = n]]
      BY <3>1
    <3>4. QED
      BY <3>2, <3>3
  <2>2. tasks' \in [Programs -> Nat]
    BY <1>15 DEF CountApplied
  <2>3. QED
    BY <1>15, <2>1, <2>2 DEF CountApplied, tables, locals
<1>16. ASSUME NEW t \in TaskWorkers, CountAccepted(t) PROVE TypeOK'
  <2>1. tcount' \in [TaskWorkers -> Counts]
    <3>1. PICK n \in Nat : tcount' = [tcount EXCEPT ![t].accepted = n]
      BY <1>16, CountsType DEF CountAccepted
    <3>2. [tcount[t] EXCEPT !.accepted = n] \in Counts
      <4>1. tcount[t] \in Counts
        OBVIOUS
      <4>2. QED
        BY <4>1 DEF Counts
    <3>3. tcount' = [tcount EXCEPT ![t] = [tcount[t] EXCEPT !.accepted = n]]
      BY <3>1
    <3>4. QED
      BY <3>2, <3>3
  <2>2. QED
    BY <1>16, <2>1 DEF CountAccepted, tables, locals, record
<1>17. ASSUME NEW t \in TaskWorkers, SaveCounts(t) PROVE TypeOK'
  BY <1>17 DEF SaveCounts, tables, locals, record
<1>18. ASSUME NEW t \in TaskWorkers, LoseTask(t) PROVE TypeOK'
  BY <1>18 DEF LoseTask, Disturb, tables, locals
<1>19. CASE UNCHANGED vars
  BY <1>19 DEF vars
<1>20. QED
  BY <1>1, <1>2, <1>3, <1>4, <1>5, <1>6, <1>7, <1>8, <1>9, <1>10, <1>11,
     <1>12, <1>13, <1>14, <1>15, <1>16, <1>17, <1>18, <1>19
     DEF Next, Proceed, Recount

-----------------------------------------------------------------------------
(* What requests know of rows, in any overlap *)

\* Process w does not move.
Kept(w) ==
    /\ pc'[w] = pc[w] /\ app'[w] = app[w] /\ known'[w] = known[w]
    /\ old'[w] = old[w] /\ new'[w] = new[w]

Moves(w) ==
    Proceed(w) \/ Crash(w) \/ Fault(w) \/ \E a \in Apps : Request(w, a)

\* Recounts and stuttering leave applications and requests as they are.
LEMMA RecountIsApart ==
    ASSUME \/ \E t \in TaskWorkers : Recount(t) \/ LoseTask(t)
           \/ UNCHANGED vars
    PROVE  UNCHANGED <<tables, pc, app, old, new, known, marks, floored>>
  BY DEF Recount, CountApplied, CountAccepted, SaveCounts, LoseTask, tables,
         locals, record, vars

\* A step of one process leaves what another holds alone.
LEMMA OthersKept ==
    ASSUME TypeOK, NEW v \in Staff, NEW w \in Staff \ {v}, Moves(v)
    PROVE  Kept(w)
<1> USE DEF TypeOK
<1>1. ASSUME NEW a \in Apps, Request(v, a) PROVE Kept(w)
  BY <1>1, RequestStarts DEF Starts, Kept
<1>2. CASE CreateReward(v)
  BY <1>2 DEF CreateReward, Goto, Kept
<1>3. CASE Commit(v) \/ Log(v)
  BY <1>3 DEF Commit, Log, Finish, Goto, Kept
<1>4. CASE Save(v) \/ QueueRecount(v) \/ CheckReward(v) \/ AddCredit(v)
  BY <1>4 DEF Save, QueueRecount, CheckReward, AddCredit, Goto, Kept
<1>5. CASE FindReward(v) \/ TakeCredit(v) \/ DeleteReward(v)
  BY <1>5 DEF FindReward, TakeCredit, DeleteReward, Goto, Kept
<1>6. CASE Crash(v) \/ Fault(v)
  BY <1>6 DEF Crash, Fault, Finish, Goto, Kept
<1>7. QED
  BY <1>1, <1>2, <1>3, <1>4, <1>5, <1>6 DEF Moves, Proceed

\* A process moves by a step of its own.
LEMMA OneMoves ==
    ASSUME TypeOK, [Next]_vars, NEW w \in Staff
    PROVE  Kept(w) \/ Moves(w)
<1>1. ASSUME NEW a \in Apps, Apply(a) PROVE Kept(w)
  BY <1>1 DEF Apply, locals, Kept
<1>2. ASSUME NEW v \in Staff, Moves(v), w # v PROVE Kept(w)
  BY <1>2, OthersKept
<1>3. CASE \/ \E t \in TaskWorkers : Recount(t) \/ LoseTask(t)
           \/ UNCHANGED vars
  BY <1>3, RecountIsApart DEF Kept
<1>4. QED
  BY <1>1, <1>2, <1>3 DEF Next, Moves

\* The steps of a request that write no row.
LEMMA RowsStay ==
    ASSUME TypeOK, NEW v \in Staff,
           \/ QueueRecount(v) \/ CheckReward(v) \/ CreateReward(v) \/ AddCredit(v)
           \/ FindReward(v) \/ TakeCredit(v) \/ DeleteReward(v) \/ Log(v)
           \/ Crash(v) \/ Fault(v) \/ \E a \in Apps : Request(v, a)
    PROVE  UNCHANGED <<status, code>>
<1>1. ASSUME NEW a \in Apps, Request(v, a) PROVE UNCHANGED <<status, code>>
  BY <1>1, RequestStarts DEF Starts, tables
<1>2. QED
  BY <1>1 DEF QueueRecount, CheckReward, CreateReward, AddCredit, FindReward,
     TakeCredit, DeleteReward, Log, Crash, Fault, tables

\* A row that a transaction has locked is changed by no other; its code is
\* given with the row.
LEMMA RowStep ==
    ASSUME BaseInv, [Next]_vars, NEW a \in Apps
    PROVE  /\ status'[a] # status[a] =>
                /\ status'[a] # None
                /\ \A w \in Staff : pc[w] = "commit" /\ app[w] = a => Commit(w)
           /\ code'[a] # code[a] => status[a] = None /\ ~Locked(a)
<1> USE DEF BaseInv, TypeOK
<1> DEFINE Goal == /\ status'[a] # status[a] =>
                        /\ status'[a] # None
                        /\ \A w \in Staff : pc[w] = "commit" /\ app[w] = a => Commit(w)
                   /\ code'[a] # code[a] => status[a] = None /\ ~Locked(a)
<1>0. ASSUME NEW w \in Staff, pc[w] = "commit" PROVE Locked(app[w])
  BY <1>0 DEF Locked, Busy
<1>1. ASSUME NEW b \in Apps, Apply(b) PROVE Goal
  BY <1>0, <1>1, ConstantsAssumption DEF Apply
<1>2. ASSUME NEW v \in Staff, Commit(v) PROVE Goal
  <2>1. code' = code /\ status' = [status EXCEPT ![app[v]] = new[v]]
    BY <1>2 DEF Commit
  <2>2. new[v] # None /\ pc[v] = "commit"
    BY <1>2 DEF Commit, LocalsOf
  <2>3. QED
    BY <1>2, <2>1, <2>2 DEF OneCommit
<1>3. ASSUME NEW v \in Staff, Save(v) PROVE Goal
  <2>1. code' = code /\ status' = [status EXCEPT ![app[v]] = new[v]]
    BY <1>3 DEF Save
  <2>2. new[v] # None /\ ~Locked(app[v])
    BY <1>3 DEF Save, LocalsOf
  <2>3. QED
    BY <1>0, <2>1, <2>2
<1>4. CASE UNCHANGED <<status, code>>
  BY <1>4
<1>5. CASE \/ \E t \in TaskWorkers : Recount(t) \/ LoseTask(t)
           \/ UNCHANGED vars
  BY <1>4, <1>5, RecountIsApart DEF tables
<1>6. QED
  BY <1>1, <1>2, <1>3, <1>4, <1>5, RowsStay DEF Next, Proceed

\* What a process that does not move knows stays true.
LEMMA KeptLocals ==
    ASSUME BaseInv, [Next]_vars, NEW w \in Staff, Kept(w)
    PROVE  LocalsOf(w)'
<1> SUFFICES ASSUME pc[w] # "idle" PROVE LocalsOf(w)'
  BY DEF Kept, LocalsOf
<1>1. LocalsOf(w) /\ app[w] \in Apps
  BY DEF BaseInv, TypeOK, LocalsOf
<1>2. ASSUME pc[w] = "commit" PROVE status'[app[w]] = status[app[w]]
  <2>1. ~Commit(w)
    BY <1>2 DEF Commit, Finish, Goto, Kept, BaseInv, TypeOK
  <2>2. QED
    BY <1>1, <1>2, <2>1, RowStep
<1>3. ASSUME pc[w] # "commit"
      PROVE  status'[app[w]] # None /\ code'[app[w]] = code[app[w]]
  BY <1>1, <1>3, RowStep DEF LocalsOf
<1>4. QED
  BY <1>1, <1>2, <1>3 DEF Kept, LocalsOf

\* A process that moves knows what its next statement needs.
LEMMA OwnLocals ==
    ASSUME BaseInv, [Next]_vars, NEW v \in Staff, Moves(v)
    PROVE  LocalsOf(v)'
<1> USE DEF BaseInv, TypeOK
<1>0. LocalsOf(v) /\ (pc[v] # "idle" => app[v] \in Apps)
  BY DEF LocalsOf
<1>1. ASSUME NEW a \in Apps, Request(v, a) PROVE LocalsOf(v)'
  <2>1. PICK o \in Statuses, s \in Statuses, q \in {"commit", "save"} : Starts(v, a, o, s, q)
    BY <1>1, RequestStarts
  <2>2. /\ pc'[v] = q /\ app'[v] = a /\ old'[v] = o /\ new'[v] = s
        /\ status' = status
    BY <2>1 DEF Starts, tables
  <2>3. a # None /\ o # None /\ s # None
    BY ConstantsAssumption
  <2>4. QED
    BY <2>1, <2>2, <2>3 DEF Starts, LocalsOf
<1>2. ASSUME Commit(v) \/ Log(v) \/ Crash(v) PROVE LocalsOf(v)'
  BY <1>2 DEF Commit, Log, Crash, Finish, Goto, LocalsOf
<1>3. ASSUME Save(v) PROVE LocalsOf(v)'
  BY <1>0, <1>3 DEF Save, Goto, LocalsOf
<1>4. ASSUME QueueRecount(v) \/ CheckReward(v) PROVE LocalsOf(v)'
  BY <1>0, <1>4 DEF QueueRecount, CheckReward, Goto, tables, LocalsOf
<1>5. ASSUME CreateReward(v) PROVE LocalsOf(v)'
  BY <1>0, <1>5 DEF CreateReward, Goto, LocalsOf
<1>6. ASSUME AddCredit(v) \/ TakeCredit(v) \/ DeleteReward(v) PROVE LocalsOf(v)'
  BY <1>0, <1>6 DEF AddCredit, TakeCredit, DeleteReward, Goto, LocalsOf
<1>7. ASSUME FindReward(v) PROVE LocalsOf(v)'
  <2>1. reward[app[v]] # 0 => code[app[v]] # None
    BY <1>0, <1>7 DEF FindReward, ReferencesOK
  <2>2. QED
    BY <1>0, <1>7, <2>1 DEF FindReward, Goto, tables, LocalsOf
<1>8. ASSUME Fault(v) PROVE LocalsOf(v)'
  BY <1>0, <1>8 DEF Fault, Goto, tables, LocalsOf
<1>9. QED
  BY <1>1, <1>2, <1>3, <1>4, <1>5, <1>6, <1>7, <1>8 DEF Moves, Proceed

\* A transaction begins only where no other has the row locked.
LEMMA StepOneCommit ==
    ASSUME BaseInv, [Next]_vars
    PROVE  OneCommit'
<1> USE DEF BaseInv, TypeOK
<1>1. ASSUME NEW v \in Staff, pc'[v] = "commit", ~Kept(v)
      PROVE  ~Locked(app'[v]) /\ \A w \in Staff \ {v} : Kept(w)
  <2>1. Moves(v)
    BY <1>1, OneMoves
  <2>2. PICK a \in Apps : Request(v, a)
    <3>1. ~Commit(v) /\ ~Log(v) /\ ~Crash(v) /\ ~Fault(v)
      BY <1>1 DEF Commit, Log, Crash, Fault, Finish, Goto
    <3>2. ~Save(v) /\ ~QueueRecount(v) /\ ~CheckReward(v) /\ ~AddCredit(v) /\ ~CreateReward(v)
      BY <1>1 DEF Save, QueueRecount, CheckReward, AddCredit, CreateReward, Goto
    <3>3. ~FindReward(v) /\ ~TakeCredit(v) /\ ~DeleteReward(v)
      BY <1>1 DEF FindReward, TakeCredit, DeleteReward, Goto
    <3>4. QED
      BY <2>1, <3>1, <3>2, <3>3 DEF Moves, Proceed
  <2>3. PICK o \in Statuses, s \in Statuses, q \in {"commit", "save"} : Starts(v, a, o, s, q)
    BY <2>2, RequestStarts
  <2>4. QED
    BY <1>1, <2>3 DEF Starts, Kept
<1>2. ASSUME NEW v \in Staff, NEW w \in Staff, v # w, Kept(w),
             pc'[v] = "commit", pc'[w] = "commit", app'[v] = app'[w]
      PROVE  FALSE
  <2>1. CASE Kept(v)
    BY <1>2, <2>1 DEF Kept, OneCommit
  <2>2. CASE ~Kept(v)
    BY <1>1, <1>2, <2>2 DEF Kept, Locked, Busy
  <2>3. QED
    BY <2>1, <2>2
<1>3. QED
  <2> SUFFICES ASSUME NEW v \in Staff, NEW w \in Staff, v # w,
                      pc'[v] = "commit", pc'[w] = "commit", app'[v] = app'[w]
               PROVE  FALSE
    BY DEF OneCommit
  <2>1. CASE Kept(w)
    BY <1>2, <2>1
  <2>2. CASE ~Kept(w)
    BY <1>1, <1>2, <2>2
  <2>3. QED
    BY <2>1, <2>2

\* Rewards are for referred applications, codes are in rows.
LEMMA StepReferences ==
    ASSUME BaseInv, [Next]_vars
    PROVE  ReferencesOK'
<1> USE ConstantsAssumption DEF BaseInv, TypeOK, ReferencesOK
<1>1. ASSUME NEW a \in Apps, Apply(a) PROVE ReferencesOK'
  BY <1>1 DEF Apply, Statuses
<1>2. ASSUME NEW v \in Staff, NEW a \in Apps, Request(v, a) PROVE ReferencesOK'
  BY <1>2, RequestStarts DEF Starts, tables
<1>3. ASSUME NEW v \in Staff, Commit(v) PROVE ReferencesOK'
  BY <1>3 DEF Commit, LocalsOf
<1>4. ASSUME NEW v \in Staff, Save(v) PROVE ReferencesOK'
  BY <1>4 DEF Save, LocalsOf
<1>5. ASSUME NEW v \in Staff, CreateReward(v) PROVE ReferencesOK'
  BY <1>5 DEF CreateReward, LocalsOf
<1>6. ASSUME NEW v \in Staff,
             \/ QueueRecount(v) \/ CheckReward(v) \/ AddCredit(v) \/ FindReward(v)
             \/ TakeCredit(v) \/ DeleteReward(v) \/ Log(v) \/ Crash(v) \/ Fault(v)
      PROVE  ReferencesOK'
  BY <1>6 DEF QueueRecount, CheckReward, AddCredit, FindReward, TakeCredit,
     DeleteReward, Log, Crash, Fault, tables
<1>7. CASE \/ \E t \in TaskWorkers : Recount(t) \/ LoseTask(t)
           \/ UNCHANGED vars
  BY <1>7, RecountIsApart DEF tables
<1>8. QED
  BY <1>1, <1>2, <1>3, <1>4, <1>5, <1>6, <1>7 DEF Next, Proceed

\* The shared part of the invariants.
LEMMA StepBase ==
    ASSUME BaseInv, [Next]_vars
    PROVE  BaseInv'
<1>1. ASSUME NEW w \in Staff PROVE LocalsOf(w)'
  BY OneMoves, KeptLocals, OwnLocals DEF BaseInv
<1>2. QED
  BY <1>1, StepType, StepOneCommit, StepReferences DEF BaseInv

\* Empty tables and idle processes have nothing to say.
LEMMA BaseInitially == Init => BaseInv
  BY ConstantsAssumption DEF Init, BaseInv, TypeOK, OneCommit, ReferencesOK, LocalsOf,
     Steps, Counts

\* Rows and locals keep their types, whatever overlaps, fails or is killed;
\* points never fall below zero.
THEOREM TypeCorrect == Spec => []TypeOK
<1>1. BaseInv => TypeOK
  BY DEF BaseInv
<1>2. QED
  BY <1>1, BaseInitially, StepBase, PTL DEF Spec

-----------------------------------------------------------------------------
(* Points without a reward, in any overlap *)

\* The balance of a referrer.
Balanced(r) ==
    credit[r] + Cardinality(Owing(r)) <= Cardinality(RewardedBy(r)) + floored[r]

\* The sets that are counted are finite.
LEMMA Sizes ==
    ASSUME NEW r
    PROVE  /\ IsFiniteSet(Owing(r)) /\ IsFiniteSet(Owing(r)')
           /\ IsFiniteSet(RewardedBy(r)) /\ IsFiniteSet(RewardedBy(r)')
           /\ Cardinality(Owing(r)) \in Nat /\ Cardinality(Owing(r)') \in Nat
           /\ Cardinality(RewardedBy(r)) \in Nat /\ Cardinality(RewardedBy(r)') \in Nat
<1>1. /\ IsFiniteSet(Owing(r)) /\ IsFiniteSet(Owing(r)')
      /\ IsFiniteSet(RewardedBy(r)) /\ IsFiniteSet(RewardedBy(r)')
  BY ConstantsAssumption, FS_Subset DEF Owing, RewardedBy
<1>2. QED
  BY <1>1, FS_CardinalityType

\* A step that neither adds nor takes points nor loses a reward keeps the balance.
LEMMA BalanceKept ==
    ASSUME TypeOK, NEW r \in Referrers, Balanced(r),
           credit'[r] = credit[r], floored'[r] = floored[r],
           Owing(r)' \subseteq Owing(r), RewardedBy(r) \subseteq RewardedBy(r)'
    PROVE  Balanced(r)'
<1>1. /\ Cardinality(Owing(r)') <= Cardinality(Owing(r))
      /\ Cardinality(RewardedBy(r)) <= Cardinality(RewardedBy(r)')
  BY Sizes, FS_Subset
<1>2. credit[r] \in Nat /\ floored[r] \in Nat
  BY DEF TypeOK
<1>3. QED
  BY <1>1, <1>2, Sizes DEF Balanced

\* A withdrawal takes a point, or is counted as one that found none.
LEMMA WithdrawBalance ==
    ASSUME TypeOK, NEW q \in Referrers, Withdraw(q)
    PROVE  /\ credit'[q] + floored[q] + 1 = credit[q] + floored'[q]
           /\ credit'[q] \in Nat /\ floored'[q] \in Nat
           /\ \A r \in Referrers \ {q} : credit'[r] = credit[r] /\ floored'[r] = floored[r]
<1>1. credit[q] \in Nat /\ floored[q] \in Nat
  BY DEF TypeOK
<1>2. /\ credit'[q] = Decrease(credit[q])
      /\ floored'[q] = IF credit[q] = 0 THEN floored[q] + 1 ELSE floored[q]
      /\ \A r \in Referrers \ {q} : credit'[r] = credit[r] /\ floored'[r] = floored[r]
  BY DEF Withdraw, TypeOK
<1>3. QED
  BY <1>1, <1>2 DEF Decrease

\* Adding or removing one member changes a cardinality by one.
LEMMA OneMore ==
    ASSUME NEW S, NEW T, NEW x, IsFiniteSet(S), x \notin S, T = S \cup {x}
    PROVE  Cardinality(T) = Cardinality(S) + 1
  BY FS_AddElement

LEMMA OneLess ==
    ASSUME NEW S, NEW T, NEW x, IsFiniteSet(S), x \in S, T = S \ {x}
    PROVE  Cardinality(T) = Cardinality(S) - 1
  BY FS_RemoveElement

\* Of the requests only v changes what it owes.
LEMMA OwingStep ==
    ASSUME BaseInv, [Next]_vars, NEW v \in Staff, Proceed(v) \/ Crash(v) \/ Fault(v),
           \A w \in Staff \ {v} : Kept(w), code' = code, NEW r
    PROVE  /\ \A w \in Staff \ {v} : w \in Owing(r)' <=> w \in Owing(r)
           /\ v \in Owing(r) <=> pc[v] \in {"add", "delete"} /\ code[app[v]] = r
           /\ v \in Owing(r)' <=> pc'[v] \in {"add", "delete"} /\ code[app'[v]] = r
  BY DEF Owing, Kept

\* Every step keeps the balance of every referrer.
LEMMA StepBalance ==
    ASSUME PointsInv, [Next]_vars, NEW r \in Referrers
    PROVE  Balanced(r)'
<1> USE DEF BaseInv, TypeOK
<1>0. Balanced(r) /\ BaseInv /\ TypeOK
  BY DEF PointsInv, Balanced
<1>a. ASSUME UNCHANGED <<reward, code, credit, floored>>, Owing(r)' \subseteq Owing(r)
      PROVE  Balanced(r)'
  BY <1>0, <1>a, BalanceKept DEF RewardedBy
<1>1. ASSUME NEW a \in Apps, Apply(a) PROVE Balanced(r)'
  <2>1. /\ reward[a] = 0 /\ reward' = reward /\ UNCHANGED <<credit, floored, pc, app>>
        /\ \A b \in Apps \ {a} : code'[b] = code[b]
    BY <1>0, <1>1 DEF Apply, ReferencesOK, locals, record
  <2>2. RewardedBy(r)' = RewardedBy(r)
    BY <2>1 DEF RewardedBy
  <2>3. \A w \in Staff : pc[w] \in {"add", "delete"} => app[w] \in Apps \ {a}
    BY <1>0, <1>1 DEF Apply, LocalsOf
  <2>4. Owing(r)' = Owing(r)
    BY <2>1, <2>3 DEF Owing
  <2>5. QED
    BY <1>0, <2>1, <2>2, <2>4, BalanceKept
<1>2. ASSUME NEW v \in Staff, NEW a \in Apps, Request(v, a) PROVE Balanced(r)'
  <2>1. PICK o \in Statuses, s \in Statuses, q \in {"commit", "save"} : Starts(v, a, o, s, q)
    BY <1>0, <1>2, RequestStarts
  <2>2. UNCHANGED <<reward, code, credit, floored>>
    BY <2>1 DEF Starts, tables
  <2>3. Owing(r)' \subseteq Owing(r)
    BY <1>0, <2>1, <2>2 DEF Starts, Owing
  <2>4. QED
    BY <1>a, <2>2, <2>3
<1>3. ASSUME NEW v \in Staff, Proceed(v) \/ Crash(v) \/ Fault(v) PROVE Balanced(r)'
  <2>1. pc[v] # "idle" /\ LocalsOf(v) /\ ReferencesOK
    BY <1>0, <1>3 DEF Proceed, Commit, Save, QueueRecount, CheckReward, CreateReward,
       AddCredit, FindReward, TakeCredit, DeleteReward, Log, Crash, Fault
  <2>2. PICK a \in Apps : a = app[v]
    BY <1>0, <2>1 DEF LocalsOf
  <2>3. code' = code
    BY <1>3 DEF Proceed, Commit, Save, QueueRecount, CheckReward, CreateReward,
       AddCredit, FindReward, TakeCredit, DeleteReward, Log, Crash, Fault, tables
  <2>4. \A w \in Staff \ {v} : Kept(w)
    <3>1. Moves(v)
      BY <1>3 DEF Moves
    <3>2. QED
      BY <1>0, <3>1, OthersKept
  <2>5. /\ \A w \in Staff \ {v} : w \in Owing(r)' <=> w \in Owing(r)
        /\ v \in Owing(r) <=> pc[v] \in {"add", "delete"} /\ code[app[v]] = r
        /\ v \in Owing(r)' <=> pc'[v] \in {"add", "delete"} /\ code[app'[v]] = r
    BY <1>0, <1>3, <2>3, <2>4, OwingStep
  <2>6. Owing(r) \subseteq Staff /\ Owing(r)' \subseteq Staff
    BY DEF Owing
  <2>7. credit[r] \in Nat /\ floored[r] \in Nat
    BY <1>0
  <2>8. CASE Commit(v)
    <3>1. Owing(r)' = Owing(r)
      <4>1. pc[v] = "commit" /\ pc'[v] = "idle"
        BY <1>0, <2>8 DEF Commit, Finish, Goto
      <4>2. QED
        BY <2>5, <2>6, <4>1
    <3>2. CASE reward[a] = 0
      <4>1. UNCHANGED <<credit, floored>> /\ RewardedBy(r)' = RewardedBy(r)
        BY <1>0, <2>2, <2>3, <2>8, <3>2 DEF Commit, RewardedBy
      <4>2. QED
        BY <1>0, <3>1, <4>1, BalanceKept
    <3>3. CASE reward[a] # 0
      <4>1. code[a] \in Referrers /\ Withdraw(code[a]) /\ reward' = [reward EXCEPT ![a] = 0]
        BY <1>0, <2>1, <2>2, <2>8, <3>3 DEF Commit, ReferencesOK
      <4>2. CASE code[a] # r
        <5>1. RewardedBy(r)' = RewardedBy(r)
          BY <1>0, <2>3, <4>1, <4>2 DEF RewardedBy
        <5>2. credit'[r] = credit[r] /\ floored'[r] = floored[r]
          BY <1>0, <4>1, <4>2, WithdrawBalance
        <5>3. QED
          BY <1>0, <3>1, <5>1, <5>2, BalanceKept
      <4>3. CASE code[a] = r
        <5>1. a \in RewardedBy(r) /\ RewardedBy(r)' = RewardedBy(r) \ {a}
          BY <1>0, <2>3, <3>3, <4>1, <4>3 DEF RewardedBy
        <5>2. Cardinality(RewardedBy(r)') = Cardinality(RewardedBy(r)) - 1
          BY <5>1, Sizes, OneLess
        <5>3. /\ credit'[r] + floored[r] + 1 = credit[r] + floored'[r]
              /\ credit'[r] \in Nat /\ floored'[r] \in Nat
          BY <1>0, <4>1, <4>3, WithdrawBalance
        <5>4. QED
          BY <1>0, <2>7, <3>1, <5>2, <5>3, Sizes DEF Balanced
      <4>4. QED
        BY <4>2, <4>3
    <3>4. QED
      BY <3>2, <3>3
  <2>9. CASE Save(v) \/ QueueRecount(v) \/ CheckReward(v) \/ FindReward(v) \/ Log(v)
    <3>1. /\ UNCHANGED <<reward, credit, floored>>
          /\ pc'[v] \notin {"add", "delete"}
      BY <1>0, <2>9 DEF Save, QueueRecount, CheckReward, FindReward, Log, Goto, Finish,
         tables, record
    <3>2. QED
      BY <1>a, <2>3, <2>5, <2>6, <3>1
  <2>10. CASE CreateReward(v)
    <3>1. pc[v] = "create" /\ app' = app /\ UNCHANGED <<credit, floored>>
      BY <2>10 DEF CreateReward, record
    <3>2. CASE reward[a] # 0
      <4>1. reward' = reward /\ pc'[v] = "log"
        BY <1>0, <2>2, <2>10, <3>2 DEF CreateReward, Goto
      <4>2. QED
        BY <1>a, <2>3, <2>5, <2>6, <3>1, <4>1
    <3>3. CASE reward[a] = 0
      <4>1. reward' = [reward EXCEPT ![a] = made + 1] /\ pc'[v] = "add" /\ made + 1 # 0
        BY <1>0, <2>2, <2>10, <3>3 DEF CreateReward, Goto
      <4>2. CASE code[a] # r
        <5>1. RewardedBy(r)' = RewardedBy(r) /\ Owing(r)' \subseteq Owing(r)
          BY <1>0, <2>2, <2>3, <2>5, <2>6, <3>1, <4>1, <4>2 DEF RewardedBy
        <5>2. QED
          BY <1>0, <3>1, <5>1, BalanceKept
      <4>3. CASE code[a] = r
        <5>1. a \notin RewardedBy(r) /\ RewardedBy(r)' = RewardedBy(r) \cup {a}
          BY <1>0, <2>3, <3>3, <4>1, <4>3 DEF RewardedBy
        <5>2. Cardinality(RewardedBy(r)') = Cardinality(RewardedBy(r)) + 1
          BY <5>1, Sizes, OneMore
        <5>3. v \notin Owing(r) /\ Owing(r)' = Owing(r) \cup {v}
          BY <2>2, <2>5, <2>6, <3>1, <4>1, <4>3
        <5>4. Cardinality(Owing(r)') = Cardinality(Owing(r)) + 1
          BY <5>3, Sizes, OneMore
        <5>5. QED
          BY <1>0, <2>7, <3>1, <5>2, <5>4, Sizes DEF Balanced
      <4>4. QED
        BY <4>2, <4>3
    <3>4. QED
      BY <3>2, <3>3
  <2>11. CASE AddCredit(v)
    <3>1. /\ pc[v] = "add" /\ pc'[v] = "log" /\ code[a] \in Referrers
          /\ UNCHANGED <<reward, floored>>
          /\ credit' = [credit EXCEPT ![code[a]] = @ + 1]
      BY <1>0, <2>1, <2>2, <2>11 DEF AddCredit, Goto, LocalsOf, record
    <3>2. RewardedBy(r)' = RewardedBy(r)
      BY <2>3, <3>1 DEF RewardedBy
    <3>3. CASE code[a] # r
      <4>1. credit'[r] = credit[r] /\ Owing(r)' \subseteq Owing(r)
        BY <1>0, <2>5, <2>6, <3>1, <3>3
      <4>2. QED
        BY <1>0, <3>1, <3>2, <4>1, BalanceKept
    <3>4. CASE code[a] = r
      <4>1. credit'[r] = credit[r] + 1
        BY <1>0, <3>1, <3>4
      <4>2. v \in Owing(r) /\ Owing(r)' = Owing(r) \ {v}
        BY <2>2, <2>5, <2>6, <3>1, <3>4
      <4>3. Cardinality(Owing(r)') = Cardinality(Owing(r)) - 1
        BY <4>2, Sizes, OneLess
      <4>4. QED
        BY <1>0, <2>7, <3>1, <3>2, <4>1, <4>3, Sizes DEF Balanced
    <3>5. QED
      BY <3>3, <3>4
  <2>12. CASE TakeCredit(v)
    <3>1. /\ pc[v] = "take" /\ pc'[v] = "delete" /\ code[a] \in Referrers /\ app' = app
          /\ reward' = reward /\ Withdraw(code[a])
      BY <1>0, <2>1, <2>2, <2>12 DEF TakeCredit, Goto, LocalsOf
    <3>2. RewardedBy(r)' = RewardedBy(r)
      BY <2>3, <3>1 DEF RewardedBy
    <3>3. CASE code[a] # r
      <4>1. /\ credit'[r] = credit[r] /\ floored'[r] = floored[r]
            /\ Owing(r)' \subseteq Owing(r)
        BY <1>0, <2>2, <2>5, <2>6, <3>1, <3>3, WithdrawBalance
      <4>2. QED
        BY <1>0, <3>2, <4>1, BalanceKept
    <3>4. CASE code[a] = r
      <4>1. v \notin Owing(r) /\ Owing(r)' = Owing(r) \cup {v}
        BY <2>2, <2>5, <2>6, <3>1, <3>4
      <4>2. Cardinality(Owing(r)') = Cardinality(Owing(r)) + 1
        BY <4>1, Sizes, OneMore
      <4>3. /\ credit'[r] + floored[r] + 1 = credit[r] + floored'[r]
            /\ credit'[r] \in Nat /\ floored'[r] \in Nat
        BY <1>0, <3>1, <3>4, WithdrawBalance
      <4>4. QED
        BY <1>0, <2>7, <3>2, <4>2, <4>3, Sizes DEF Balanced
    <3>5. QED
      BY <3>3, <3>4
  <2>13. CASE DeleteReward(v)
    <3>1. /\ pc[v] = "delete" /\ pc'[v] = "log" /\ UNCHANGED <<credit, floored>>
          /\ reward' = [reward EXCEPT ![a] = IF @ = known[v] THEN 0 ELSE @]
      BY <1>0, <2>2, <2>13 DEF DeleteReward, Goto, record
    <3>2. CASE RewardedBy(r) \subseteq RewardedBy(r)'
      <4>1. Owing(r)' \subseteq Owing(r)
        BY <2>5, <2>6, <3>1
      <4>2. QED
        BY <1>0, <3>1, <3>2, <4>1, BalanceKept
    <3>3. CASE ~(RewardedBy(r) \subseteq RewardedBy(r)')
      <4>1. a \in RewardedBy(r) /\ RewardedBy(r)' = RewardedBy(r) \ {a}
        BY <1>0, <2>3, <3>1, <3>3 DEF RewardedBy
      <4>2. Cardinality(RewardedBy(r)') = Cardinality(RewardedBy(r)) - 1
        BY <4>1, Sizes, OneLess
      <4>3. code[a] = r
        BY <4>1 DEF RewardedBy
      <4>4. v \in Owing(r) /\ Owing(r)' = Owing(r) \ {v}
        BY <2>2, <2>5, <2>6, <3>1, <4>3
      <4>5. Cardinality(Owing(r)') = Cardinality(Owing(r)) - 1
        BY <4>4, Sizes, OneLess
      <4>6. QED
        BY <1>0, <2>7, <3>1, <4>2, <4>5, Sizes DEF Balanced
    <3>4. QED
      BY <3>2, <3>3
  <2>14. CASE Crash(v) \/ Fault(v)
    <3>1. /\ UNCHANGED <<reward, credit, floored>>
          /\ pc'[v] \notin {"add", "delete"}
      BY <1>0, <2>14 DEF Crash, Fault, Goto, Finish, tables
    <3>2. QED
      BY <1>a, <2>3, <2>5, <2>6, <3>1
  <2>15. QED
    BY <1>3, <2>8, <2>9, <2>10, <2>11, <2>12, <2>13, <2>14 DEF Proceed
<1>4. CASE \/ \E t \in TaskWorkers : Recount(t) \/ LoseTask(t)
           \/ UNCHANGED vars
  <2>1. UNCHANGED <<reward, code, credit, floored, pc, app>>
    BY <1>4, RecountIsApart DEF tables
  <2>2. QED
    BY <1>a, <2>1 DEF Owing
<1>5. QED
  BY <1>1, <1>2, <1>3, <1>4 DEF Next

\* However requests overlap, and wherever they are killed or fail, a referrer has
\* points beyond the rewards on record only as often as a withdrawal found none to
\* take.
THEOREM PointsAreBacked == Spec => []NoUnbackedPoints
<1>1. ASSUME Init PROVE PointsInv
  <2>1. ASSUME NEW r \in Referrers PROVE Balanced(r)
    <3>1. Owing(r) = {} /\ RewardedBy(r) = {} /\ credit[r] = 0 /\ floored[r] = 0
      BY <1>1 DEF Init, Owing, RewardedBy
    <3>2. QED
      BY <3>1, FS_EmptySet DEF Balanced
  <2>2. QED
    BY <1>1, <2>1, BaseInitially DEF PointsInv, Balanced
<1>2. PointsInv /\ [Next]_vars => PointsInv'
  BY StepBase, StepBalance DEF PointsInv, Balanced
<1>3. ASSUME PointsInv PROVE NoUnbackedPoints
  <2>1. ASSUME NEW r \in Referrers
        PROVE  credit[r] <= Cardinality(RewardedBy(r)) + floored[r]
    <3>1. credit[r] \in Nat /\ floored[r] \in Nat
      BY <1>3 DEF PointsInv, BaseInv, TypeOK
    <3>2. credit[r] + Cardinality(Owing(r)) <= Cardinality(RewardedBy(r)) + floored[r]
      BY <1>3 DEF PointsInv
    <3>3. QED
      BY <3>1, <3>2, Sizes
  <2>2. QED
    BY <2>1 DEF NoUnbackedPoints
<1>4. QED
  BY <1>1, <1>2, <1>3, PTL DEF Spec

-----------------------------------------------------------------------------
(* Rewards follow acceptance, where different ends do not overlap and nothing *)
(* is killed or fails                                                         *)

\* What has happened to an application is not forgotten, and a process that is
\* killed or fails leaves its mark.
LEMMA MarksStay ==
    ASSUME BaseInv, [Next]_vars, NEW a \in Apps
    PROVE  /\ marks[a] \subseteq marks'[a]
           /\ \A v \in Staff : (Crash(v) \/ Fault(v)) /\ app[v] = a => ~Undisturbed(a)'
           /\ \A v \in Staff : Crash(v) /\ app[v] = a => "killed" \in marks'[a]
<1> USE DEF BaseInv, TypeOK
<1>1. ASSUME NEW b \in Apps, Apply(b) PROVE marks' = marks
  BY <1>1 DEF Apply, record
<1>2. ASSUME NEW v \in Staff, NEW b \in Apps, Request(v, b) PROVE marks[a] \subseteq marks'[a]
  <2>1. PICK o \in Statuses, s \in Statuses, q \in {"commit", "save"} : Starts(v, b, o, s, q)
    BY <1>2, RequestStarts
  <2>2. PICK m : marks' = [marks EXCEPT ![b] = @ \cup m]
    BY <2>1 DEF Starts
  <2>3. QED
    BY <2>2
<1>3. ASSUME NEW v \in Staff, Proceed(v) PROVE marks' = marks
  BY <1>3 DEF Proceed, Commit, Save, QueueRecount, CheckReward, CreateReward, AddCredit,
     FindReward, TakeCredit, DeleteReward, Log, record
<1>4. ASSUME NEW v \in Staff, Crash(v) \/ Fault(v)
      PROVE  /\ marks[a] \subseteq marks'[a]
             /\ app[v] = a => ~Undisturbed(a)'
             /\ Crash(v) /\ app[v] = a => "killed" \in marks'[a]
  <2>1. PICK m \in {"killed", "failed"} :
          marks' = [marks EXCEPT ![app[v]] = @ \cup {m}] /\ (Crash(v) => m = "killed")
    <3>1. CASE Crash(v)
      BY <3>1 DEF Crash, Mark
    <3>2. CASE Fault(v) /\ ~Crash(v)
      BY <3>2 DEF Fault, Mark
    <3>3. QED
      BY <1>4, <3>1, <3>2
  <2>2. m \notin {"bulk"}
    OBVIOUS
  <2>3. QED
    BY <2>1, <2>2 DEF Undisturbed
<1>5. ASSUME \/ \E t \in TaskWorkers : Recount(t) \/ LoseTask(t)
             \/ UNCHANGED vars
      PROVE  marks' = marks
  BY <1>5, RecountIsApart
<1>6. QED
  BY <1>1, <1>2, <1>3, <1>4, <1>5 DEF Next

\* An application is in order while its row, its reward and the requests that work
\* on it stay as they are.
LEMMA OrderKept ==
    ASSUME NEW a \in Apps, InOrder(a),
           UNCHANGED <<status[a], code[a], reward[a]>>,
           \A w \in Staff : w \in Working(a)' <=> w \in Working(a),
           \A w \in Working(a) : Kept(w)
    PROVE  InOrder(a)'
<1>1. Working(a)' = Working(a) /\ Working(a) \subseteq Staff
  BY DEF Working, Busy
<1>2. Accord(a)'
  BY <1>1 DEF InOrder, Accord, Kept
<1>3. Seen(a)'
  BY <1>1 DEF InOrder, Seen, Kept
<1>4. Attended(a)'
  BY <1>1 DEF InOrder, Attended, Due, Kept
<1>5. QED
  BY <1>2, <1>3, <1>4 DEF InOrder

\* A request that works on an application leaves it in order.
LEMMA OwnOrder ==
    ASSUME BaseInv, NEW v \in Staff, Proceed(v), NEW a \in Apps, app[v] = a, InOrder(a)
    PROVE  InOrder(a)'
<1> USE DEF BaseInv, TypeOK
<1>1. ASSUME NEW w \in Staff \ {v} PROVE Kept(w)
  <2>1. Moves(v)
    BY DEF Moves
  <2>2. QED
    BY <2>1, OthersKept
<1>2. /\ \A w \in Staff \ {v} : w \in Working(a)' <=> w \in Working(a)
      /\ \A w \in Staff : w \in Working(a) <=> pc[w] \notin {"idle", "log"} /\ app[w] = a
      /\ \A w \in Staff : w \in Working(a)' <=> pc'[w] \notin {"idle", "log"} /\ app'[w] = a
      /\ Working(a) \subseteq Staff /\ Working(a)' \subseteq Staff
  BY <1>1 DEF Working, Busy, Kept
<1>3. /\ LocalsOf(v) /\ \A w \in Staff : LocalsOf(w)
      /\ reward[a] # 0 => code[a] # None
      /\ status[a] = None => code[a] = None
  BY DEF ReferencesOK
<1>4. CASE Log(v)
  <2>1. pc[v] = "log" /\ pc'[v] = "idle" /\ UNCHANGED <<status, code, reward>>
    BY <1>4 DEF Log, Finish, Goto
  <2>2. QED
    BY <1>1, <1>2, <2>1, OrderKept
<1>5. ASSUME v \in Working(a),
             \* the others, and what they see
             Seen(a)', Attended(a)',
             \A w \in Working(a) \ {v} : pc'[v] # "add" \/ pc[w] # "add",
             new'[v] = new[v] \/ v \notin Working(a)'
      PROVE  InOrder(a)'
  <2>1. Accord(a)'
    BY <1>1, <1>2, <1>5 DEF InOrder, Accord, Kept
  <2>2. QED
    BY <1>5, <2>1 DEF InOrder
<1>6. ASSUME NEW w \in Working(a) \ {v}, v \in Working(a)
      PROVE  new[w] = "accepted" /\ new[v] = "accepted" /\ pc[w] \notin {"take", "delete"}
  <2>1. new[w] = "accepted" /\ new[v] = "accepted"
    BY <1>6 DEF InOrder, Accord
  <2>2. pc[w] # "idle" /\ w \in Staff
    BY <1>2, <1>6
  <2>3. QED
    BY <1>3, <2>1, <2>2 DEF LocalsOf
<1>7. CASE Save(v)
  <2>1. /\ status' = [status EXCEPT ![a] = new[v]] /\ pc[v] = "save" /\ pc'[v] = "enqueue"
        /\ UNCHANGED <<code, reward, app, new, known>>
    BY <1>7 DEF Save, Goto
  <2>2. v \in Working(a) /\ v \in Working(a)'
    BY <1>2, <2>1
  <2>3. Seen(a)'
    BY <1>1, <1>2, <1>6, <2>1, <2>2 DEF InOrder, Seen, Kept
  <2>4. Attended(a)'
    BY <2>1, <2>2 DEF Attended
  <2>5. QED
    BY <1>5, <2>1, <2>2, <2>3, <2>4
<1>8. CASE QueueRecount(v)
  <2>1. /\ pc[v] = "enqueue" /\ UNCHANGED <<status, code, reward, app, new, known>>
        /\ pc'[v] = IF new[v] # "accepted" THEN "find"
                    ELSE IF code[a] = None THEN "log" ELSE "check"
    BY <1>8 DEF QueueRecount, Goto, tables
  <2>2. v \in Working(a) /\ status[a] = new[v]
    BY <1>2, <2>1 DEF InOrder, Seen
  <2>3. Seen(a)'
    BY <1>1, <1>2, <2>1, <2>2 DEF InOrder, Seen, Kept
  <2>4. Attended(a)'
    BY <1>2, <1>3, <2>1, <2>2 DEF Attended, Due
  <2>5. QED
    BY <1>5, <2>1, <2>2, <2>3, <2>4
<1>9. CASE CheckReward(v)
  <2>1. /\ pc[v] = "check" /\ UNCHANGED <<status, code, reward, app, new, known>>
        /\ pc'[v] = IF reward[a] = 0 THEN "create" ELSE "log"
    BY <1>9 DEF CheckReward, Goto, tables
  <2>2. v \in Working(a) /\ status[a] = new[v] /\ Due(a)
    BY <1>2, <1>3, <2>1 DEF InOrder, Seen, LocalsOf, Due
  <2>3. Seen(a)'
    BY <1>1, <1>2, <2>1, <2>2 DEF InOrder, Seen, Kept
  <2>4. Attended(a)'
    BY <1>2, <2>1, <2>2 DEF Attended, Due
  <2>5. QED
    BY <1>5, <2>1, <2>2, <2>3, <2>4
<1>10. CASE CreateReward(v)
  <2>1. /\ pc[v] = "create" /\ UNCHANGED <<status, code, app, new, known>>
        /\ reward'[a] # 0
        /\ pc'[v] = IF reward[a] = 0 THEN "add" ELSE "log"
        /\ reward[a] # 0 => reward'[a] = reward[a]
    BY <1>10 DEF CreateReward, Goto
  <2>2. v \in Working(a) /\ status[a] = new[v] /\ Due(a)
    BY <1>2, <1>3, <2>1 DEF InOrder, Seen, LocalsOf, Due
  <2>3. Seen(a)'
    BY <1>1, <1>2, <1>6, <2>1, <2>2 DEF InOrder, Seen, Kept
  <2>4. Attended(a)'
    BY <2>1, <2>2 DEF Attended, Due
  <2>5. \A w \in Working(a) \ {v} : pc'[v] # "add" \/ pc[w] # "add"
    BY <2>1 DEF InOrder, Seen
  <2>6. QED
    BY <1>5, <2>1, <2>2, <2>3, <2>4, <2>5
<1>11. CASE AddCredit(v)
  <2>1. /\ pc[v] = "add" /\ pc'[v] = "log"
        /\ UNCHANGED <<status, code, reward, app, new, known>>
    BY <1>11 DEF AddCredit, Goto
  <2>2. v \in Working(a) /\ status[a] = new[v] /\ Due(a) /\ reward[a] # 0
    BY <1>2, <1>3, <2>1 DEF InOrder, Seen, LocalsOf, Due
  <2>3. Seen(a)'
    BY <1>1, <1>2, <2>1, <2>2 DEF InOrder, Seen, Kept
  <2>4. Attended(a)'
    BY <2>1, <2>2 DEF Attended, Due
  <2>5. QED
    BY <1>5, <2>1, <2>2, <2>3, <2>4
<1>12. CASE FindReward(v)
  <2>1. /\ pc[v] = "find" /\ UNCHANGED <<status, code, reward, app, new>>
        /\ known'[v] = reward[a]
        /\ pc'[v] = IF reward[a] = 0 THEN "log" ELSE "take"
    BY <1>12 DEF FindReward, Goto, tables
  <2>2. v \in Working(a) /\ status[a] = new[v] /\ ~Due(a)
    BY <1>2, <1>3, <2>1 DEF InOrder, Seen, LocalsOf, Due
  <2>3. Seen(a)'
    BY <1>1, <1>2, <2>1, <2>2 DEF InOrder, Seen, Kept
  <2>4. Attended(a)'
    BY <1>2, <2>1, <2>2 DEF Attended, Due
  <2>5. QED
    BY <1>5, <2>1, <2>2, <2>3, <2>4
<1>13. CASE TakeCredit(v)
  <2>1. /\ pc[v] = "take" /\ pc'[v] = "delete"
        /\ UNCHANGED <<status, code, reward, app, new, known>>
    BY <1>13 DEF TakeCredit, Goto
  <2>2. v \in Working(a) /\ status[a] = new[v] /\ ~Due(a)
    BY <1>2, <1>3, <2>1 DEF InOrder, Seen, LocalsOf, Due
  <2>3. Seen(a)'
    BY <1>1, <1>2, <2>1, <2>2 DEF InOrder, Seen, Kept
  <2>4. Attended(a)'
    BY <1>2, <2>1, <2>2 DEF Attended, Due
  <2>5. QED
    BY <1>5, <2>1, <2>2, <2>3, <2>4
<1>14. CASE DeleteReward(v)
  <2>1. /\ pc[v] = "delete" /\ pc'[v] = "log"
        /\ UNCHANGED <<status, code, app, new, known>>
        /\ reward' = [reward EXCEPT ![a] = IF @ = known[v] THEN 0 ELSE @]
    BY <1>14 DEF DeleteReward, Goto
  <2>2. /\ v \in Working(a) /\ status[a] = new[v] /\ ~Due(a) /\ new[v] # "accepted"
        /\ reward'[a] = 0
    BY <1>2, <1>3, <2>1 DEF InOrder, Seen, LocalsOf, Due
  <2>3. Working(a)' = {}
    BY <1>2, <1>6, <2>1, <2>2
  <2>4. Seen(a)' /\ Attended(a)'
    BY <2>1, <2>2, <2>3 DEF Seen, Attended, Due
  <2>5. QED
    BY <1>2, <1>5, <1>6, <2>2, <2>3, <2>4
<1>15. CASE Commit(v)
  <2>1. /\ pc[v] = "commit" /\ pc'[v] = "idle" /\ code' = code
        /\ status'[a] = new[v] /\ reward'[a] = 0
    BY <1>15 DEF Commit, Finish, Goto
  <2>2. v \in Working(a) /\ v \notin Working(a)'
    BY <1>2, <2>1
  <2>3. ASSUME NEW w \in Working(a) \ {v} PROVE FALSE
    <3>1. new[v] # "enrolled" /\ w \in Staff /\ pc[w] # "idle" /\ app[w] = a
      BY <1>2, <1>6, <2>2, <2>3
    <3>2. status[a] = None
      BY <1>3, <2>1, <3>1 DEF LocalsOf
    <3>3. pc[w] = "commit"
      BY <1>3, <3>1, <3>2 DEF LocalsOf
    <3>4. QED
      BY <2>1, <2>3, <3>1, <3>3 DEF OneCommit
  <2>4. Working(a)' = {}
    BY <1>2, <2>2, <2>3
  <2>5. ~Due(a)'
    BY <1>3, <2>1 DEF LocalsOf, Due
  <2>6. Seen(a)' /\ Attended(a)'
    BY <2>1, <2>4, <2>5 DEF Seen, Attended
  <2>7. QED
    BY <1>5, <2>2, <2>3, <2>4, <2>6
<1>16. QED
  BY <1>4, <1>7, <1>8, <1>9, <1>10, <1>11, <1>12, <1>13, <1>14, <1>15 DEF Proceed

\* A step of a request on another application leaves this one in order.
LEMMA OtherOrder ==
    ASSUME BaseInv, NEW v \in Staff, Proceed(v) \/ Crash(v) \/ Fault(v),
           NEW a \in Apps, app[v] # a, InOrder(a)
    PROVE  InOrder(a)'
<1> USE DEF BaseInv, TypeOK
<1>1. \A w \in Staff \ {v} : Kept(w)
  BY OthersKept DEF Moves
<1>2. pc'[v] = "idle" \/ app'[v] = app[v]
  BY DEF Proceed, Commit, Save, QueueRecount, CheckReward, CreateReward, AddCredit,
     FindReward, TakeCredit, DeleteReward, Log, Crash, Fault, Finish, Goto
<1>3. /\ \A w \in Staff : w \in Working(a)' <=> w \in Working(a)
      /\ \A w \in Working(a) : Kept(w)
  BY <1>1, <1>2 DEF Working, Busy, Kept
<1>4. UNCHANGED <<status[a], code[a], reward[a]>>
  <2>1. CASE Commit(v)
    BY <2>1 DEF Commit
  <2>2. CASE Save(v) \/ DeleteReward(v) \/ AddCredit(v) \/ TakeCredit(v) \/ Log(v)
    BY <2>2 DEF Save, DeleteReward, AddCredit, TakeCredit, Log
  <2>3. CASE CreateReward(v)
    BY <2>3 DEF CreateReward
  <2>4. CASE QueueRecount(v) \/ CheckReward(v) \/ FindReward(v) \/ Crash(v) \/ Fault(v)
    BY <2>4 DEF QueueRecount, CheckReward, FindReward, Crash, Fault, tables
  <2>5. QED
    BY <2>1, <2>2, <2>3, <2>4 DEF Proceed
<1>5. QED
  BY <1>3, <1>4, OrderKept

\* Every application that is left undisturbed stays in order.
LEMMA StepReward ==
    ASSUME RewardInv, [Next]_vars
    PROVE  RewardInv'
<1> USE ConstantsAssumption DEF RewardInv
<1>a. BaseInv /\ BaseInv' /\ TypeOK
  BY StepBase DEF BaseInv
<1> SUFFICES ASSUME NEW a \in Apps, Undisturbed(a)' PROVE InOrder(a)'
  BY <1>a
<1>b. InOrder(a)
  BY <1>a, MarksStay DEF Undisturbed
<1>1. ASSUME NEW b \in Apps, Apply(b) PROVE InOrder(a)'
  <2>1. \A w \in Staff : Kept(w)
    BY <1>1 DEF Apply, locals, Kept
  <2>2. Working(a)' = Working(a)
    BY <1>1 DEF Apply, locals, Working, Busy
  <2>3. CASE a # b
    <3>1. UNCHANGED <<status[a], code[a], reward[a]>>
      BY <1>1, <1>a, <2>3 DEF Apply, TypeOK
    <3>2. \A w \in Working(a) : Kept(w)
      BY <2>1 DEF Working, Busy
    <3>3. QED
      BY <1>b, <2>2, <3>1, <3>2, OrderKept
  <2>4. CASE a = b
    <3>1. ASSUME NEW w \in Working(a) PROVE FALSE
      <4>1. w \in Staff /\ pc[w] # "idle" /\ app[w] = a /\ LocalsOf(w) /\ status[a] = None
        BY <1>1, <1>a, <2>4, <3>1 DEF Apply, Working, Busy, BaseInv
      <4>2. pc[w] = "commit"
        BY <4>1 DEF LocalsOf
      <4>3. QED
        BY <1>1, <2>4, <4>1, <4>2 DEF Apply, Locked, Busy
    <3>2. reward'[a] = 0 /\ status'[a] = "submitted" /\ Working(a)' = {}
      BY <1>1, <1>a, <2>2, <2>4, <3>1 DEF Apply, BaseInv, TypeOK, ReferencesOK
    <3>3. QED
      BY <3>2 DEF InOrder, Accord, Seen, Attended, Due
  <2>5. QED
    BY <2>3, <2>4
<1>2. ASSUME NEW v \in Staff, NEW b \in Apps, Request(v, b) PROVE InOrder(a)'
  <2>1. PICK o \in Statuses, s \in Statuses, q \in {"commit", "save"} : Starts(v, b, o, s, q)
    BY <1>2, <1>a, RequestStarts
  <2>2. /\ pc[v] = "idle" /\ pc'[v] \in {"commit", "save"} /\ app'[v] = b /\ new'[v] = s
        /\ UNCHANGED <<status, code, reward>>
        /\ \A w \in Staff \ {v} : Kept(w)
    BY <1>a, <2>1 DEF Starts, tables, Kept, TypeOK
  <2>3. CASE a # b
    <3>1. /\ \A w \in Staff : w \in Working(a)' <=> w \in Working(a)
          /\ \A w \in Working(a) : Kept(w)
      BY <2>2, <2>3 DEF Working, Busy, Kept
    <3>2. QED
      BY <1>b, <2>2, <3>1, OrderKept
  <2>4. CASE a = b
    <3>1. Rivals(a, s) = {}
      BY <1>a, <2>1, <2>4 DEF Starts, Undisturbed, TypeOK
    <3>2. \A w \in Working(a) : s = "accepted" /\ new[w] = "accepted"
      BY <3>1 DEF Rivals, Working
    <3>3. /\ v \in Working(a)' /\ v \notin Working(a)
          /\ Working(a) \subseteq Staff /\ Working(a)' \subseteq Staff
          /\ \A w \in Staff \ {v} : w \in Working(a)' <=> w \in Working(a)
      BY <2>2, <2>4 DEF Working, Busy, Kept
    <3>4. Accord(a)'
      BY <1>b, <2>2, <3>2, <3>3 DEF InOrder, Accord, Kept
    <3>5. Seen(a)'
      BY <1>b, <2>2, <3>3 DEF InOrder, Seen, Kept
    <3>6. Attended(a)'
      BY <1>b, <2>2, <3>3 DEF InOrder, Attended, Due, Kept
    <3>7. QED
      BY <3>4, <3>5, <3>6 DEF InOrder
  <2>5. QED
    BY <2>3, <2>4
<1>3. ASSUME NEW v \in Staff, Proceed(v) PROVE InOrder(a)'
  BY <1>3, <1>a, <1>b, OwnOrder, OtherOrder
<1>4. ASSUME NEW v \in Staff, Crash(v) \/ Fault(v) PROVE InOrder(a)'
  BY <1>4, <1>a, <1>b, MarksStay, OtherOrder
<1>5. CASE \/ \E t \in TaskWorkers : Recount(t) \/ LoseTask(t)
           \/ UNCHANGED vars
  <2>1. UNCHANGED <<tables, pc, app, old, new, known>>
    BY <1>5, RecountIsApart
  <2>2. /\ \A w \in Staff : w \in Working(a)' <=> w \in Working(a)
        /\ \A w \in Working(a) : Kept(w)
    BY <2>1 DEF Working, Busy, Kept
  <2>3. QED
    BY <1>b, <2>1, <2>2, OrderKept DEF tables
<1>6. QED
  BY <1>1, <1>2, <1>3, <1>4, <1>5 DEF Next

LEMMA RewardInitially == Init => RewardInv
<1> SUFFICES ASSUME Init, NEW a \in Apps PROVE InOrder(a)
  BY BaseInitially DEF RewardInv
<1>1. Working(a) = {}
  BY DEF Init, Working, Busy
<1>2. status[a] = None /\ reward[a] = 0
  BY DEF Init
<1>3. ~Due(a)
  BY <1>2, ConstantsAssumption DEF Due, Statuses
<1>4. QED
  BY <1>1, <1>2, <1>3 DEF InOrder, Accord, Seen, Attended

\* However reviews, enrolments, financial aid decisions and recounts are
\* interleaved, an application on which no withdrawal overlapped another request,
\* and none was killed or failed, has a reward exactly when it is accepted and
\* referred, once no request is under way; several acceptances may overlap.
THEOREM RewardsFollow == Spec => []RewardsFollowAcceptance
<1>1. ASSUME RewardInv PROVE RewardsFollowAcceptance
  <2> SUFFICES ASSUME NEW a \in Apps, Undisturbed(a), Busy(a) = {}
               PROVE  reward[a] # 0 <=> Due(a)
    BY DEF RewardsFollowAcceptance
  <2>1. Working(a) = {} /\ InOrder(a)
    BY <1>1 DEF Working, RewardInv
  <2>2. QED
    BY <2>1 DEF InOrder, Attended
<1>2. QED
  BY <1>1, RewardInitially, StepReward, PTL DEF Spec

-----------------------------------------------------------------------------
(* Points and rewards, of referrers whose referrals were left undisturbed *)

Clean(r) == \A a \in Apps : code[a] = r => Undisturbed(a)

\* A referrer was clean before if it is now.
LEMMA CleanBefore ==
    ASSUME BaseInv, [Next]_vars, NEW r \in Referrers, Clean(r)'
    PROVE  Clean(r)
<1> SUFFICES ASSUME NEW a \in Apps, code[a] = r PROVE Undisturbed(a)
  BY DEF Clean
<1>1. status[a] # None
  BY ConstantsAssumption DEF BaseInv, ReferencesOK
<1>2. code'[a] = r
  BY <1>1, RowStep
<1>3. QED
  BY <1>2, MarksStay DEF Clean, Undisturbed

\* Membership of Paid, with the requests on an application spelled out.
LEMMA PaidMember ==
    ASSUME NEW r \in Referrers, NEW b \in Apps
    PROVE  /\ b \in Paid(r) <=>
                /\ reward[b] # 0 /\ code[b] = r
                /\ \A w \in Staff : pc[w] \in {"add", "delete"} => app[w] # b
           /\ b \in Paid(r)' <=>
                /\ reward'[b] # 0 /\ code'[b] = r
                /\ \A w \in Staff : pc'[w] \in {"add", "delete"} => app'[w] # b
  BY DEF Paid, RewardedBy, Busy

\* Only rewards of applications are paid, and they are finitely many.
LEMMA PaidApps ==
    ASSUME NEW r \in Referrers
    PROVE  /\ Paid(r) \subseteq Apps /\ Paid(r)' \subseteq Apps
           /\ IsFiniteSet(Paid(r)) /\ IsFiniteSet(Paid(r)')
           /\ Cardinality(Paid(r)) \in Nat /\ Cardinality(Paid(r)') \in Nat
<1>1. Paid(r) \subseteq Apps /\ Paid(r)' \subseteq Apps
  BY DEF Paid, RewardedBy
<1>2. IsFiniteSet(Paid(r)) /\ IsFiniteSet(Paid(r)')
  BY <1>1, ConstantsAssumption, FS_Subset
<1>3. QED
  BY <1>1, <1>2, FS_CardinalityType

\* A step of a request changes what is paid only of its own application.
LEMMA PaidElsewhere ==
    ASSUME BaseInv, NEW v \in Staff, Proceed(v) \/ Crash(v) \/ Fault(v),
           NEW r \in Referrers, NEW a \in Apps, app[v] = a
    PROVE  /\ \A b \in Apps \ {a} : b \in Paid(r)' <=> b \in Paid(r)
           /\ code[a] # r => a \notin Paid(r) /\ a \notin Paid(r)' /\ credit'[r] = credit[r]
           /\ code' = code
<1> USE DEF BaseInv, TypeOK
<1>1. \A w \in Staff \ {v} : Kept(w)
  BY OthersKept DEF Moves
<1>2. pc'[v] \in {"add", "delete"} => app'[v] = a
  BY DEF Proceed, Commit, Save, QueueRecount, CheckReward, CreateReward, AddCredit,
     FindReward, TakeCredit, DeleteReward, Log, Crash, Fault, Finish, Goto
<1>3. /\ code' = code
      /\ \A b \in Apps \ {a} : reward'[b] = reward[b]
      /\ code[a] # r => credit'[r] = credit[r]
  <2>1. CASE Commit(v)
    BY <2>1 DEF Commit, Withdraw
  <2>2. CASE Save(v) \/ DeleteReward(v) \/ AddCredit(v) \/ TakeCredit(v) \/ Log(v)
    BY <2>2 DEF Save, DeleteReward, AddCredit, TakeCredit, Log, Withdraw
  <2>3. CASE CreateReward(v)
    BY <2>3 DEF CreateReward
  <2>4. CASE QueueRecount(v) \/ CheckReward(v) \/ FindReward(v) \/ Crash(v) \/ Fault(v)
    BY <2>4 DEF QueueRecount, CheckReward, FindReward, Crash, Fault, tables
  <2>5. QED
    BY <2>1, <2>2, <2>3, <2>4 DEF Proceed
<1>4. ASSUME NEW b \in Apps \ {a}
      PROVE  (\A w \in Staff : pc[w] \in {"add", "delete"} => app[w] # b)
               <=> (\A w \in Staff : pc'[w] \in {"add", "delete"} => app'[w] # b)
  BY <1>1, <1>2 DEF Kept
<1>5. QED
  BY <1>3, <1>4, PaidMember

\* What a request that goes on does to the points of its application's referrer and
\* to the reward that should have brought them: nothing, or the same to both.
LEMMA OwnPoints ==
    ASSUME BaseInv, NEW v \in Staff, Proceed(v), NEW r \in Referrers,
           NEW a \in Apps, app[v] = a, code[a] = r, InOrder(a)
    PROVE  \/ credit'[r] = credit[r] /\ (a \in Paid(r)' <=> a \in Paid(r))
           \/ credit'[r] = credit[r] + 1 /\ a \notin Paid(r) /\ a \in Paid(r)'
           \/ credit'[r] = Decrease(credit[r]) /\ a \in Paid(r) /\ a \notin Paid(r)'
<1> USE DEF BaseInv, TypeOK
<1>1. /\ \A w \in Staff \ {v} : Kept(w) /\ LocalsOf(w)
      /\ LocalsOf(v) /\ code'[a] = r
  BY OthersKept, PaidElsewhere DEF Moves
<1>2. \A w \in Staff : w \in Working(a) <=> pc[w] \notin {"idle", "log"} /\ app[w] = a
  BY DEF Working, Busy
<1>3. ASSUME v \in Working(a), NEW w \in Staff \ {v}, w \in Working(a)
      PROVE  /\ new[v] = "accepted" /\ new[w] = "accepted" /\ pc[w] # "delete"
             /\ pc[v] = "add" => pc[w] # "add"
  BY <1>1, <1>2, <1>3 DEF InOrder, Accord, LocalsOf
<1>4. ASSUME credit' = credit, reward'[a] # 0 <=> reward[a] # 0,
             pc[v] \notin {"add", "delete"}, pc'[v] \notin {"add", "delete"}
      PROVE  credit'[r] = credit[r] /\ (a \in Paid(r)' <=> a \in Paid(r))
  BY <1>1, <1>4, PaidMember DEF Kept
<1>5. CASE Save(v) \/ Log(v)
  BY <1>4, <1>5 DEF Save, Log, Finish, Goto
<1>6. CASE QueueRecount(v) \/ CheckReward(v) \/ FindReward(v)
  BY <1>4, <1>6 DEF QueueRecount, CheckReward, FindReward, Goto, tables
<1>7. CASE CreateReward(v)
  <2>1. pc[v] = "create" /\ credit' = credit /\ app' = app
    BY <1>7 DEF CreateReward
  <2>2. CASE reward[a] = 0
    <3>1. pc'[v] = "add"
      BY <1>7, <2>2 DEF CreateReward, Goto
    <3>2. a \notin Paid(r) /\ a \notin Paid(r)'
      BY <2>1, <2>2, <3>1, PaidMember
    <3>3. QED
      BY <2>1, <3>2
  <2>3. CASE reward[a] # 0
    BY <1>4, <1>7, <2>1, <2>3 DEF CreateReward, Goto
  <2>4. QED
    BY <2>2, <2>3
<1>8. CASE AddCredit(v)
  <2>1. /\ pc[v] = "add" /\ pc'[v] = "log" /\ reward' = reward
        /\ credit' = [credit EXCEPT ![r] = @ + 1]
    BY <1>8 DEF AddCredit, Goto
  <2>2. v \in Working(a) /\ reward[a] # 0
    BY <1>2, <2>1 DEF InOrder, Seen
  <2>3. \A w \in Staff \ {v} : pc'[w] \in {"add", "delete"} => app'[w] # a
    BY <1>1, <1>2, <1>3, <2>1, <2>2 DEF Kept
  <2>4. a \notin Paid(r) /\ a \in Paid(r)'
    BY <1>1, <2>1, <2>2, <2>3, PaidMember
  <2>5. QED
    BY <2>1, <2>4
<1>9. CASE TakeCredit(v)
  <2>1. /\ pc[v] = "take" /\ pc'[v] = "delete" /\ app' = app
        /\ credit' = [credit EXCEPT ![r] = Decrease(@)]
    BY <1>9 DEF TakeCredit, Withdraw, Goto
  <2>2. v \in Working(a) /\ reward[a] # 0 /\ new[v] # "accepted"
    BY <1>1, <1>2, <2>1 DEF InOrder, Seen, LocalsOf
  <2>3. \A w \in Staff : pc[w] \in {"add", "delete"} => app[w] # a
    BY <1>2, <1>3, <2>1, <2>2
  <2>4. a \in Paid(r) /\ a \notin Paid(r)'
    BY <2>1, <2>2, <2>3, PaidMember
  <2>5. QED
    BY <2>1, <2>4
<1>10. CASE DeleteReward(v)
  <2>1. /\ pc[v] = "delete" /\ credit' = credit
        /\ reward' = [reward EXCEPT ![a] = IF @ = known[v] THEN 0 ELSE @]
    BY <1>10 DEF DeleteReward
  <2>2. reward'[a] = 0
    BY <1>2, <2>1 DEF InOrder, Seen
  <2>3. a \notin Paid(r) /\ a \notin Paid(r)'
    BY <2>1, <2>2, PaidMember
  <2>4. QED
    BY <2>1, <2>3
<1>11. CASE Commit(v)
  <2>1. pc[v] = "commit" /\ pc'[v] = "idle" /\ reward'[a] = 0
    BY <1>11 DEF Commit, Finish, Goto
  <2>2. CASE reward[a] = 0
    <3>1. credit' = credit
      BY <1>11, <2>2 DEF Commit
    <3>2. QED
      BY <1>4, <2>1, <2>2, <3>1
  <2>3. CASE reward[a] # 0
    <3>1. credit' = [credit EXCEPT ![r] = Decrease(@)]
      BY <1>11, <2>3 DEF Commit, Withdraw
    <3>2. v \in Working(a) /\ new[v] # "accepted"
      BY <1>1, <1>2, <2>1, <2>3 DEF LocalsOf, ReferencesOK
    <3>3. \A w \in Staff : pc[w] \in {"add", "delete"} => app[w] # a
      BY <1>2, <1>3, <2>1, <3>2
    <3>4. a \in Paid(r) /\ a \notin Paid(r)'
      BY <2>1, <2>3, <3>3, PaidMember
    <3>5. QED
      BY <3>1, <3>4
  <2>4. QED
    BY <2>2, <2>3
<1>12. QED
  BY <1>5, <1>6, <1>7, <1>8, <1>9, <1>10, <1>11 DEF Proceed

\* A clean referrer has as many points as there are rewards that brought them.
LEMMA StepCredit ==
    ASSUME CreditInv, [Next]_vars
    PROVE  CreditInv'
<1> USE DEF CreditInv
<1>a. RewardInv /\ RewardInv' /\ BaseInv /\ TypeOK
  BY StepReward DEF RewardInv, BaseInv
<1> SUFFICES ASSUME NEW r \in Referrers, Clean(r)'
             PROVE  credit'[r] = Cardinality(Paid(r)')
  BY <1>a DEF Clean
<1>b. credit[r] = Cardinality(Paid(r)) /\ Clean(r)
  BY <1>a, CleanBefore DEF Clean
<1>c. ASSUME credit'[r] = credit[r], \A b \in Apps : b \in Paid(r)' <=> b \in Paid(r)
      PROVE  credit'[r] = Cardinality(Paid(r)')
  <2>1. Paid(r)' = Paid(r)
    BY <1>c, PaidApps
  <2>2. QED
    BY <1>b, <1>c, <2>1
<1>1. ASSUME NEW a \in Apps, Apply(a) PROVE credit'[r] = Cardinality(Paid(r)')
  <2>1. /\ reward[a] = 0 /\ UNCHANGED <<reward, credit, pc, app>>
        /\ \A b \in Apps \ {a} : code'[b] = code[b]
    BY <1>1, <1>a DEF Apply, BaseInv, TypeOK, ReferencesOK, locals
  <2>2. QED
    BY <1>c, <2>1, PaidMember
<1>2. ASSUME NEW v \in Staff, NEW a \in Apps, Request(v, a)
      PROVE  credit'[r] = Cardinality(Paid(r)')
  <2>1. PICK o \in Statuses, s \in Statuses, q \in {"commit", "save"} : Starts(v, a, o, s, q)
    BY <1>2, <1>a, RequestStarts
  <2>2. /\ pc[v] = "idle" /\ pc'[v] \in {"commit", "save"}
        /\ UNCHANGED <<reward, code, credit>>
        /\ \A w \in Staff \ {v} : Kept(w)
    BY <1>a, <2>1 DEF Starts, tables, Kept, TypeOK
  <2>3. QED
    BY <1>c, <2>2, PaidMember DEF Kept
<1>3. ASSUME NEW v \in Staff, Proceed(v) \/ Crash(v) \/ Fault(v)
      PROVE  credit'[r] = Cardinality(Paid(r)')
  <2>1. PICK a \in Apps : app[v] = a
    <3>1. pc[v] # "idle"
      BY <1>3 DEF Proceed, Commit, Save, QueueRecount, CheckReward, CreateReward,
         AddCredit, FindReward, TakeCredit, DeleteReward, Log, Crash, Fault
    <3>2. QED
      BY <1>a, <3>1 DEF BaseInv, LocalsOf, TypeOK
  <2>2. /\ \A b \in Apps \ {a} : b \in Paid(r)' <=> b \in Paid(r)
        /\ code[a] # r => a \notin Paid(r) /\ a \notin Paid(r)' /\ credit'[r] = credit[r]
        /\ code' = code
    BY <1>3, <1>a, <2>1, PaidElsewhere
  <2>3. CASE code[a] # r
    BY <1>c, <2>2, <2>3
  <2>4. CASE code[a] = r
    <3>1. Undisturbed(a)' /\ Undisturbed(a)
      BY <1>b, <2>2, <2>4 DEF Clean
    <3>2. Proceed(v) /\ InOrder(a)
      BY <1>3, <1>a, <2>1, <3>1, MarksStay DEF RewardInv
    <3>3. CASE credit'[r] = credit[r] /\ (a \in Paid(r)' <=> a \in Paid(r))
      BY <1>c, <2>2, <3>3
    <3>4. CASE credit'[r] = credit[r] + 1 /\ a \notin Paid(r) /\ a \in Paid(r)'
      <4>1. Paid(r)' = Paid(r) \cup {a}
        BY <2>2, <3>4, PaidApps
      <4>2. QED
        BY <1>b, <3>4, <4>1, PaidApps, OneMore
    <3>5. CASE credit'[r] = Decrease(credit[r]) /\ a \in Paid(r) /\ a \notin Paid(r)'
      <4>1. Paid(r)' = Paid(r) \ {a}
        BY <2>2, <3>5, PaidApps
      <4>2. Cardinality(Paid(r)') = Cardinality(Paid(r)) - 1
        BY <3>5, <4>1, PaidApps, OneLess
      <4>3. QED
        BY <1>b, <3>5, <4>2, PaidApps DEF Decrease
    <3>6. QED
      BY <1>a, <2>1, <2>4, <3>2, <3>3, <3>4, <3>5, OwnPoints
  <2>5. QED
    BY <2>3, <2>4
<1>4. CASE \/ \E t \in TaskWorkers : Recount(t) \/ LoseTask(t)
           \/ UNCHANGED vars
  <2>1. UNCHANGED <<reward, code, credit, pc, app>>
    BY <1>4, RecountIsApart DEF tables
  <2>2. QED
    BY <1>c, <2>1, PaidMember
<1>5. QED
  BY <1>1, <1>2, <1>3, <1>4 DEF Next

\* A referrer none of whose referrals was disturbed has exactly the points of the
\* rewards on record when no request on them is under way, however many requests
\* on different applications added to and took from them concurrently.
THEOREM CreditMatches == Spec => []CreditMatchesRewards
<1>1. ASSUME Init PROVE CreditInv
  <2>1. ASSUME NEW r \in Referrers PROVE credit[r] = Cardinality(Paid(r))
    <3>1. Paid(r) = {} /\ credit[r] = 0
      BY <1>1 DEF Init, Paid, RewardedBy
    <3>2. QED
      BY <3>1, FS_EmptySet
  <2>2. QED
    BY <1>1, <2>1, RewardInitially DEF CreditInv
<1>2. ASSUME CreditInv PROVE CreditMatchesRewards
  <2> SUFFICES ASSUME NEW r \in Referrers,
                      \A a \in Apps : code[a] = r => Undisturbed(a) /\ Busy(a) = {}
               PROVE  credit[r] = Cardinality(RewardedBy(r))
    BY DEF CreditMatchesRewards
  <2>1. Paid(r) = RewardedBy(r)
    BY DEF Paid, RewardedBy
  <2>2. QED
    BY <1>2, <2>1 DEF CreditInv
<1>3. QED
  BY <1>1, <1>2, StepCredit, PTL DEF Spec

-----------------------------------------------------------------------------
(* Statuses on record, in any overlap *)

\* No request on a was killed, and the admin action has not touched it.
Reviewed(a) == marks[a] \cap {"killed", "bulk"} = {}

\* What is on record stays there, and a request that has yet to record something
\* is not forgotten until it does, or is killed.
LEMMA StepKeepsRecord ==
    ASSUME BaseInv, [Next]_vars
    PROVE  /\ history \subseteq history'
           /\ \A v \in Staff :
                 pc[v] \notin {"idle", "commit", "save"} =>
                    \/ Log(v) \/ Crash(v)
                    \/ /\ pc'[v] \notin {"idle", "commit", "save"}
                       /\ app'[v] = app[v] /\ old'[v] = old[v] /\ new'[v] = new[v]
<1> USE DEF BaseInv, TypeOK
<1>1. history \subseteq history'
  <2>1. ASSUME NEW v \in Staff, NEW a \in Apps, Request(v, a) PROVE history' = history
    BY <2>1, RequestStarts DEF Starts, tables
  <2>2. ASSUME NEW v \in Staff, Proceed(v) PROVE history \subseteq history'
    BY <2>2 DEF Proceed, Commit, Save, QueueRecount, CheckReward, CreateReward,
       AddCredit, FindReward, TakeCredit, DeleteReward, Log, tables
  <2>3. ASSUME NEW v \in Staff, Crash(v) \/ Fault(v) PROVE history' = history
    BY <2>3 DEF Crash, Fault, tables
  <2>4. ASSUME NEW a \in Apps, Apply(a) PROVE history' = history
    BY <2>4 DEF Apply
  <2>5. QED
    BY <2>1, <2>2, <2>3, <2>4, RecountIsApart DEF Next, tables
<1>2. ASSUME NEW v \in Staff, pc[v] \notin {"idle", "commit", "save"}
      PROVE  \/ Log(v) \/ Crash(v)
             \/ /\ pc'[v] \notin {"idle", "commit", "save"}
                /\ app'[v] = app[v] /\ old'[v] = old[v] /\ new'[v] = new[v]
  <2>1. CASE Kept(v)
    BY <1>2, <2>1 DEF Kept
  <2>2. CASE Moves(v)
    <3>1. ~Commit(v) /\ ~Save(v) /\ ~ \E a \in Apps : Request(v, a)
      BY <1>2, RequestStarts DEF Commit, Save, Starts
    <3>2. CASE QueueRecount(v) \/ CheckReward(v) \/ CreateReward(v)
      BY <3>2 DEF QueueRecount, CheckReward, CreateReward, Goto
    <3>3. CASE AddCredit(v) \/ FindReward(v) \/ TakeCredit(v) \/ DeleteReward(v) \/ Fault(v)
      BY <3>3 DEF AddCredit, FindReward, TakeCredit, DeleteReward, Fault, Goto
    <3>4. QED
      BY <2>2, <3>1, <3>2, <3>3 DEF Moves, Proceed
  <2>3. QED
    BY <2>1, <2>2, OneMoves
<1>3. QED
  BY <1>1, <1>2

\* What is on record, or about to be, stays so.
LEMMA StepRecorded ==
    ASSUME BaseInv, [Next]_vars, NEW a \in Apps, Reviewed(a)', NEW s, Recorded(a, s)
    PROVE  Recorded(a, s)'
<1>1. CASE s \in {None, "submitted", "enrolled"} \/ \E h \in history : h[1] = a /\ h[3] = s
  BY <1>1, StepKeepsRecord DEF Recorded
<1>2. ASSUME NEW v \in Staff, pc[v] \notin {"idle", "commit", "save"}, app[v] = a,
             old[v] # new[v], new[v] = s
      PROVE  Recorded(a, s)'
  <2>1. CASE Log(v)
    <3> DEFINE h == <<app[v], old[v], new[v]>>
    <3>1. h \in history' /\ h[1] = a /\ h[3] = s
      BY <1>2, <2>1 DEF Log
    <3> HIDE DEF h
    <3>2. QED
      BY <3>1 DEF Recorded
  <2>2. CASE /\ pc'[v] \notin {"idle", "commit", "save"}
             /\ app'[v] = app[v] /\ old'[v] = old[v] /\ new'[v] = new[v]
    BY <1>2, <2>2 DEF Recorded
  <2>3. ~Crash(v)
    BY <1>2, MarksStay DEF Reviewed
  <2>4. QED
    BY <1>2, <2>1, <2>2, <2>3, StepKeepsRecord
<1>3. QED
  BY <1>1, <1>2 DEF Recorded

\* Where the status of an application may come from.
LEMMA StepStatus ==
    ASSUME BaseInv, [Next]_vars, NEW a \in Apps
    PROVE  \/ status'[a] = status[a]
           \/ status'[a] = "submitted"
           \/ \E v \in Staff : Commit(v) /\ app[v] = a /\ status'[a] = new[v]
           \/ \E v \in Staff : Save(v) /\ app[v] = a /\ status'[a] = new[v]
<1> USE DEF BaseInv, TypeOK
<1>1. ASSUME NEW b \in Apps, Apply(b)
      PROVE  status'[a] = status[a] \/ status'[a] = "submitted"
  BY <1>1 DEF Apply
<1>2. ASSUME NEW v \in Staff, Commit(v)
      PROVE  status'[a] = status[a] \/ (app[v] = a /\ status'[a] = new[v])
  BY <1>2 DEF Commit
<1>3. ASSUME NEW v \in Staff, Save(v)
      PROVE  status'[a] = status[a] \/ (app[v] = a /\ status'[a] = new[v])
  BY <1>3 DEF Save
<1>4. CASE \/ \E t \in TaskWorkers : Recount(t) \/ LoseTask(t)
           \/ UNCHANGED vars
  BY <1>4, RecountIsApart DEF tables
<1>5. QED
  BY <1>1, <1>2, <1>3, <1>4, RowsStay DEF Next, Proceed

\* Where the locals of a request come from.
LEMMA StepOld ==
    ASSUME BaseInv, [Next]_vars, NEW a \in Apps, Reviewed(a)', NEW v \in Busy(a)'
    PROVE  \/ /\ v \in Busy(a) /\ old'[v] = old[v]
              /\ pc'[v] = "commit" => pc[v] = "commit" /\ new'[v] = new[v]
           \/ /\ old'[v] \in {"enrolled", status[a]}
              /\ pc'[v] = "commit" => new'[v] = "enrolled"
<1> USE DEF BaseInv, TypeOK
<1>0. v \in Staff /\ pc'[v] # "idle" /\ app'[v] = a
  BY DEF Busy
<1>1. CASE Kept(v)
  BY <1>0, <1>1 DEF Kept, Busy
<1>2. ASSUME NEW b \in Apps, Request(v, b)
      PROVE  /\ old'[v] \in {"enrolled", status[a]}
             /\ pc'[v] = "commit" => new'[v] = "enrolled"
  <2>1. PICK o \in Statuses, s \in Statuses, q \in {"commit", "save"} : Starts(v, b, o, s, q)
    BY <1>0, <1>2, RequestStarts
  <2>2. b = a
    BY <1>0, <2>1 DEF Starts
  <2>3. PICK m \in SUBSET Marks :
          /\ marks' = [marks EXCEPT ![a] = @ \cup m]
          /\ "bulk" \notin m => /\ o \in {"enrolled", status[a]}
                                /\ q = "commit" => s = "enrolled"
    BY <2>1, <2>2 DEF Starts
  <2>4. "bulk" \notin m
    BY <2>3 DEF Reviewed
  <2>5. old'[v] = o /\ new'[v] = s /\ pc'[v] = q
    BY <1>0, <2>1 DEF Starts
  <2>6. QED
    BY <2>3, <2>4, <2>5
<1>3. CASE Proceed(v) \/ Crash(v) \/ Fault(v)
  <2>1. ~Commit(v) /\ ~Log(v) /\ ~Crash(v)
    BY <1>0 DEF Commit, Log, Crash, Finish, Goto
  <2>2. CASE Save(v) \/ QueueRecount(v) \/ CheckReward(v) \/ CreateReward(v)
    BY <1>0, <2>2 DEF Save, QueueRecount, CheckReward, CreateReward, Goto, Busy
  <2>3. CASE AddCredit(v) \/ FindReward(v) \/ TakeCredit(v) \/ DeleteReward(v) \/ Fault(v)
    BY <1>0, <2>3 DEF AddCredit, FindReward, TakeCredit, DeleteReward, Fault, Goto, Busy
  <2>4. QED
    BY <1>3, <2>1, <2>2, <2>3 DEF Proceed
<1>4. QED
  BY <1>0, <1>1, <1>2, <1>3, OneMoves DEF Moves

\* Every status that is saved, read or still held by a request is on record or
\* about to be: a request that saves the status it read again changes nothing.
LEMMA StepRecordInv ==
    ASSUME BaseInv, RecordInv, [Next]_vars
    PROVE  RecordInv'
<1> SUFFICES ASSUME NEW a \in Apps, Reviewed(a)'
             PROVE  /\ Recorded(a, status[a])'
                    /\ \A v \in Busy(a)' : /\ Recorded(a, old[v])'
                                           /\ pc'[v] = "commit" => new'[v] = "enrolled"
  BY DEF RecordInv, Reviewed
<1>0. /\ Recorded(a, status[a])
      /\ \A v \in Busy(a) : /\ Recorded(a, old[v])
                            /\ pc[v] = "commit" => new[v] = "enrolled"
  <2>1. marks[a] \cap {"killed", "bulk"} = {}
    BY MarksStay DEF Reviewed
  <2>2. QED
    BY <2>1 DEF RecordInv
<1>1. ASSUME NEW s, s = status'[a] PROVE Recorded(a, s)'
  <2>1. CASE s = status[a]
    BY <1>0, <2>1, StepRecorded
  <2>2. CASE s = "submitted"
    BY <2>2 DEF Recorded
  <2>3. ASSUME NEW v \in Staff, Commit(v), app[v] = a, s = new[v]
        PROVE  Recorded(a, s)'
    <3>1. s = "enrolled"
      BY <1>0, <2>3 DEF Commit, Busy
    <3>2. QED
      BY <3>1 DEF Recorded
  <2>4. ASSUME NEW v \in Staff, Save(v), app[v] = a, s = new[v]
        PROVE  Recorded(a, s)'
    <3>1. CASE old[v] = s
      <4>1. v \in Busy(a)
        BY <2>4 DEF Save, Busy
      <4>2. Recorded(a, s)
        BY <1>0, <3>1, <4>1
      <4>3. QED
        BY <4>2, StepRecorded
    <3>2. CASE old[v] # s
      <4>1. /\ pc'[v] = "enqueue" /\ app'[v] = a
            /\ old'[v] = old[v] /\ new'[v] = s
        BY <2>4 DEF Save, Goto, BaseInv, TypeOK
      <4>2. QED
        BY <3>2, <4>1 DEF Recorded
    <3>3. QED
      BY <3>1, <3>2
  <2>5. QED
    BY <1>1, <2>1, <2>2, <2>3, <2>4, StepStatus
<1>2. ASSUME NEW v \in Busy(a)', NEW s, s = old'[v] PROVE Recorded(a, s)'
  <2>1. CASE v \in Busy(a) /\ old[v] = s
    BY <1>0, <2>1, StepRecorded
  <2>2. CASE s = "enrolled"
    BY <2>2 DEF Recorded
  <2>3. CASE s = status[a]
    BY <1>0, <2>3, StepRecorded
  <2>4. QED
    BY <1>2, <2>1, <2>2, <2>3, StepOld
<1>3. \A v \in Busy(a)' : pc'[v] = "commit" => new'[v] = "enrolled"
  BY <1>0, StepOld
<1>4. QED
  BY <1>1, <1>2, <1>3 DEF Recorded

\* The status of an application on which no request was killed, and which the
\* admin action has not touched, is on record whenever no request on it is under
\* way, however reviews of it, aid and enrolments overlap.
THEOREM StatusesAreRecorded == Spec => []StatusOnRecord
<1>1. Init => RecordInv
  BY DEF Init, RecordInv, Recorded, Busy
<1>2. ASSUME RecordInv PROVE StatusOnRecord
  BY <1>2 DEF RecordInv, Recorded, Busy, StatusOnRecord
<1>3. QED
  BY <1>1, <1>2, BaseInitially, StepBase, StepRecordInv, PTL DEF Spec

-----------------------------------------------------------------------------
(* The counters are exact once a recount ran alone, in any overlap *)

\* One task at most recounts p, and a recount is pending or finds what it saves.
Counted(p) ==
    /\ \A t, u \in RecountsOf(p) : t = u
    /\ Pending(p) \/ UpToDate(p)

\* A step that leaves the recounts alone, and the applications of p too unless a
\* recount of p is pending after it.
LEMMA CountKept ==
    ASSUME NEW p, Counted(p), UNCHANGED <<counts, tpc, tcount>>,
           \/ Pending(p)'
           \/ /\ AppsOf(p)' = AppsOf(p) /\ AcceptedOf(p)' = AcceptedOf(p)
              /\ Pending(p) => Pending(p)'
    PROVE  Counted(p)'
<1>1. RecountsOf(p)' = RecountsOf(p)
  BY DEF RecountsOf
<1>2. CASE Pending(p)'
  BY <1>1, <1>2 DEF Counted
<1>3. ASSUME AppsOf(p)' = AppsOf(p), AcceptedOf(p)' = AcceptedOf(p), UpToDate(p)
      PROVE  UpToDate(p)'
  <2>1. Exact(p)' = Exact(p)
    BY <1>3 DEF Exact
  <2>2. QED
    BY <1>1, <1>3, <2>1 DEF UpToDate
<1>4. QED
  BY <1>1, <1>2, <1>3 DEF Counted

\* The applications of a programme change only where a row of it does.
LEMMA SameApps ==
    ASSUME NEW p, \A b \in Apps : ProgramOf[b] = p => status'[b] = status[b]
    PROVE  AppsOf(p)' = AppsOf(p) /\ AcceptedOf(p)' = AcceptedOf(p)
  BY DEF AppsOf, AcceptedOf

\* A queued recount is not forgotten while requests only add to the queue.
LEMMA PendingKept ==
    ASSUME TypeOK, NEW p \in Programs, Pending(p), tasks'[p] \in Nat, tasks'[p] >= tasks[p],
           \A w \in Staff : pc[w] = "enqueue" /\ ProgramOf[app[w]] = p =>
              \/ pc'[w] = "enqueue" /\ app'[w] = app[w]
              \/ tasks'[p] > 0
    PROVE  Pending(p)'
<1>1. tasks[p] \in Nat
  BY DEF TypeOK
<1>2. CASE tasks[p] > 0
  <2>1. tasks'[p] > 0
    BY <1>1, <1>2
  <2>2. QED
    BY <2>1 DEF Pending
<1>3. CASE \E w \in Staff : pc[w] = "enqueue" /\ ProgramOf[app[w]] = p
  BY <1>3 DEF Pending
<1>4. QED
  BY <1>2, <1>3 DEF Pending

\* A new application queues a recount in the step that inserts it.
LEMMA ApplyCounts ==
    ASSUME BaseInv, NEW a \in Apps, Apply(a), NEW p \in Programs, Counted(p)
    PROVE  Counted(p)'
<1> USE ConstantsAssumption DEF BaseInv, TypeOK
<1>1. /\ status' = [status EXCEPT ![a] = "submitted"]
      /\ tasks' = [tasks EXCEPT ![ProgramOf[a]] = @ + 1]
      /\ UNCHANGED <<counts, tpc, tcount, pc, app>>
  BY DEF Apply, Enqueue, locals
<1>2. CASE p = ProgramOf[a]
  <2>1. tasks'[p] = tasks[p] + 1 /\ tasks[p] \in Nat
    BY <1>1, <1>2
  <2>2. tasks'[p] > 0
    BY <2>1
  <2>3. QED
    BY <1>1, <2>2, CountKept DEF Pending
<1>3. CASE p # ProgramOf[a]
  <2>1. tasks'[p] = tasks[p] /\ \A b \in Apps : ProgramOf[b] = p => status'[b] = status[b]
    BY <1>1, <1>3
  <2>2. AppsOf(p)' = AppsOf(p) /\ AcceptedOf(p)' = AcceptedOf(p)
    BY <2>1, SameApps
  <2>3. QED
    BY <1>1, <2>1, <2>2, CountKept DEF Pending
<1>4. QED
  BY <1>2, <1>3

\* A request changes the applications of a programme only when a recount of it is
\* queued, or on its way to the statement that queues one.
LEMMA RequestCounts ==
    ASSUME BaseInv, BaseInv', NEW v \in Staff, Moves(v),
           NEW p \in Programs \ blurred', p \notin blurred, Counted(p)
    PROVE  Counted(p)'
<1> USE ConstantsAssumption DEF BaseInv, TypeOK
<1>0. \A w \in Staff \ {v} : pc'[w] = pc[w] /\ app'[w] = app[w]
  BY OthersKept DEF Kept
<1>a. ASSUME UNCHANGED <<status, counts, tasks, tpc, tcount>>, pc[v] # "enqueue"
      PROVE  Counted(p)'
  <2>1. AppsOf(p)' = AppsOf(p) /\ AcceptedOf(p)' = AcceptedOf(p)
    BY <1>a, SameApps
  <2>2. Pending(p) => Pending(p)'
    BY <1>0, <1>a DEF Pending
  <2>3. QED
    BY <1>a, <2>1, <2>2, CountKept
<1>1. ASSUME NEW a \in Apps, Request(v, a) PROVE Counted(p)'
  <2>1. PICK o \in Statuses, s \in Statuses, q \in {"commit", "save"} : Starts(v, a, o, s, q)
    BY <1>1, RequestStarts
  <2>2. pc[v] = "idle" /\ UNCHANGED <<status, counts, tpc, tcount>>
    BY <2>1 DEF Starts, tables
  <2>3. tasks'[p] \in Nat /\ tasks'[p] >= tasks[p]
    <3>1. tasks' = tasks \/ tasks' = [tasks EXCEPT ![ProgramOf[a]] = @ + 1]
      BY <2>1 DEF Starts
    <3>2. tasks'[p] = tasks[p] \/ tasks'[p] = tasks[p] + 1
      BY <3>1
    <3>3. tasks[p] \in Nat
      OBVIOUS
    <3>4. QED
      BY <3>2, <3>3
  <2>4. \A w \in Staff : pc[w] = "enqueue" => pc'[w] = "enqueue" /\ app'[w] = app[w]
    BY <1>0, <2>2
  <2>5. Pending(p) => Pending(p)'
    BY <2>3, <2>4, PendingKept
  <2>6. AppsOf(p)' = AppsOf(p) /\ AcceptedOf(p)' = AcceptedOf(p)
    BY <2>2, SameApps
  <2>7. QED
    BY <2>2, <2>5, <2>6, CountKept
<1>b. ASSUME NEW a \in Apps, a = app[v], status' = [status EXCEPT ![a] = new[v]],
             UNCHANGED <<counts, tpc, tcount, tasks>>, pc[v] # "enqueue",
             ProgramOf[a] = p => Pending(p)'
      PROVE  Counted(p)'
  <2>1. CASE ProgramOf[a] = p
    BY <1>b, <2>1, CountKept
  <2>2. CASE ProgramOf[a] # p
    <3>1. \A b \in Apps : ProgramOf[b] = p => status'[b] = status[b]
      BY <1>b, <2>2
    <3>2. AppsOf(p)' = AppsOf(p) /\ AcceptedOf(p)' = AcceptedOf(p)
      BY <3>1, SameApps
    <3>3. Pending(p) => Pending(p)'
      BY <1>0, <1>b DEF Pending
    <3>4. QED
      BY <1>b, <3>2, <3>3, CountKept
  <2>3. QED
    BY <2>1, <2>2
<1>2. CASE Save(v)
  <2>1. PICK a \in Apps : a = app[v]
    BY <1>2 DEF Save, LocalsOf
  <2>2. pc'[v] = "enqueue" /\ app'[v] = a /\ UNCHANGED queue /\ pc[v] = "save"
    BY <1>2, <2>1 DEF Save, Goto
  <2>3. ProgramOf[a] = p => Pending(p)'
    BY <2>2 DEF Pending
  <2>4. status' = [status EXCEPT ![a] = new[v]]
    BY <1>2, <2>1 DEF Save
  <2>5. QED
    BY <1>b, <2>1, <2>2, <2>3, <2>4 DEF queue
<1>3. CASE Commit(v)
  <2>1. PICK a \in Apps : a = app[v]
    BY <1>3 DEF Commit, LocalsOf
  <2>2. UNCHANGED queue /\ pc[v] = "commit" /\ status' = [status EXCEPT ![a] = new[v]]
    BY <1>3, <2>1 DEF Commit
  <2>3. ASSUME ProgramOf[a] = p PROVE Pending(p)'
    <3>1. tasks[p] # 0 /\ tasks[p] \in Nat
      BY <1>3, <2>1, <2>3 DEF Commit
    <3>2. tasks'[p] > 0
      BY <2>2, <3>1 DEF queue
    <3>3. QED
      BY <3>2 DEF Pending
  <2>4. QED
    BY <1>b, <2>1, <2>2, <2>3 DEF queue
<1>4. CASE QueueRecount(v)
  <2>1. PICK q \in Programs : q = ProgramOf[app[v]]
    BY <1>4 DEF QueueRecount, LocalsOf
  <2>2. /\ tasks' = [tasks EXCEPT ![q] = @ + 1]
        /\ UNCHANGED <<status, counts, tpc, tcount, app>>
    BY <1>4, <2>1 DEF QueueRecount, Enqueue, tables
  <2>3. tasks'[p] \in Nat /\ tasks'[p] >= tasks[p] /\ (p = q => tasks'[p] > 0)
    <3>1. tasks'[p] = (IF p = q THEN tasks[p] + 1 ELSE tasks[p]) /\ tasks[p] \in Nat
      BY <2>2
    <3>2. QED
      BY <3>1
  <2>4. Pending(p) => Pending(p)'
    BY <1>0, <2>1, <2>2, <2>3, PendingKept
  <2>5. AppsOf(p)' = AppsOf(p) /\ AcceptedOf(p)' = AcceptedOf(p)
    BY <2>2, SameApps
  <2>6. QED
    BY <2>2, <2>4, <2>5, CountKept
<1>5. CASE CheckReward(v) \/ CreateReward(v) \/ AddCredit(v) \/ FindReward(v)
  BY <1>5, <1>a DEF CheckReward, CreateReward, AddCredit, FindReward, tables, queue
<1>6. CASE TakeCredit(v) \/ DeleteReward(v) \/ Log(v) \/ Fault(v)
  BY <1>6, <1>a DEF TakeCredit, DeleteReward, Log, Fault, tables, queue
<1>7. CASE Crash(v)
  <2>1. ProgramOf[app[v]] # p
    BY <1>7 DEF Crash
  <2>2. UNCHANGED <<status, counts, tasks, tpc, tcount>>
    BY <1>7 DEF Crash, tables, queue
  <2>3. Pending(p) => Pending(p)'
    BY <1>0, <2>1, <2>2 DEF Pending
  <2>4. AppsOf(p)' = AppsOf(p) /\ AcceptedOf(p)' = AcceptedOf(p)
    BY <2>2, SameApps
  <2>5. QED
    BY <2>2, <2>3, <2>4, CountKept
<1>8. QED
  BY <1>1, <1>2, <1>3, <1>4, <1>5, <1>6, <1>7 DEF Moves, Proceed

\* A step that leaves p's applications, counters and recounts alone.
LEMMA OtherRecounts ==
    ASSUME NEW p, Counted(p), Pending(p) => Pending(p)',
           AppsOf(p)' = AppsOf(p), AcceptedOf(p)' = AcceptedOf(p),
           counts'[p] = counts[p], RecountsOf(p)' = RecountsOf(p),
           \A u \in RecountsOf(p) : tpc'[u] = tpc[u] /\ tcount'[u] = tcount[u]
    PROVE  Counted(p)'
<1>1. Exact(p)' = Exact(p)
  BY DEF Exact
<1>2. UpToDate(p) => UpToDate(p)'
  BY <1>1 DEF UpToDate, RecountsOf
<1>3. QED
  BY <1>2 DEF Counted

\* A recount that began alone finds what it saves, unless another recount is
\* pending by then.
LEMMA RecountCounts ==
    ASSUME BaseInv, NEW t \in TaskWorkers, Recount(t),
           NEW p \in Programs \ blurred', RecountsOf(p) # {} => p \notin blurred,
           p \notin blurred => Counted(p)
    PROVE  Counted(p)'
<1> USE ConstantsAssumption DEF BaseInv, TypeOK
<1>0. /\ UNCHANGED <<status, pc, app>>
      /\ AppsOf(p)' = AppsOf(p) /\ AcceptedOf(p)' = AcceptedOf(p)
  BY RecountIsApart, SameApps DEF tables
<1>1. ASSUME NEW q \in Programs, CountApplied(t, q) PROVE Counted(p)'
  <2>1. /\ tpc' = [tpc EXCEPT ![t] = <<"accepted", q>>]
        /\ tpc[t][1] = "idle"
        /\ tasks' = [tasks EXCEPT ![q] = @ - 1]
        /\ tcount' = [tcount EXCEPT ![t].applied = Cardinality(AppsOf(q))]
        /\ counts' = counts
        /\ blurred' = IF RecountsOf(q) = {} THEN blurred \ {q} ELSE blurred \cup {q}
    BY <1>1 DEF CountApplied
  <2>2. tpc'[t] = <<"accepted", q>> /\ \A u \in TaskWorkers \ {t} : tpc'[u] = tpc[u]
    BY <2>1
  <2>3. CASE p = q
    <3>1. RecountsOf(p) = {}
      BY <2>1, <2>3
    <3>2. tcount'[t].applied = Cardinality(AppsOf(p))
      BY <2>1, <2>3
    <3>3. \A u \in TaskWorkers \ {t} : tpc'[u] \notin {<<"accepted", p>>, <<"save", p>>}
      BY <2>2, <3>1 DEF RecountsOf
    <3>4. t \in RecountsOf(p)'
      BY <2>2, <2>3 DEF RecountsOf
    <3>5. UpToDate(p)'
      BY <1>0, <2>2, <2>3, <3>2, <3>3, <3>4 DEF UpToDate
    <3>6. QED
      BY <3>3, <3>5 DEF RecountsOf, Counted
  <2>4. CASE p # q
    <3>1. tasks'[p] = tasks[p] /\ p \notin blurred
      BY <2>1, <2>4
    <3>2. Pending(p) => Pending(p)'
      BY <1>0, <3>1 DEF Pending
    <3>3. t \notin RecountsOf(p)
      BY <2>1 DEF RecountsOf
    <3>4. RecountsOf(p)' = RecountsOf(p)
      BY <2>2, <2>4, <3>3 DEF RecountsOf
    <3>5. \A u \in RecountsOf(p) : tpc'[u] = tpc[u] /\ tcount'[u] = tcount[u]
      BY <2>1, <3>3 DEF RecountsOf
    <3>6. QED
      BY <1>0, <2>1, <3>1, <3>2, <3>4, <3>5, OtherRecounts
  <2>5. QED
    BY <2>3, <2>4
<1>2. CASE CountAccepted(t)
  <2>1. PICK q \in Programs : tpc[t] = <<"accepted", q>>
    BY <1>2 DEF CountAccepted
  <2>2. /\ tcount' = [tcount EXCEPT ![t].accepted = Cardinality(AcceptedOf(q))]
        /\ tpc' = [tpc EXCEPT ![t] = <<"save", q>>]
        /\ tasks' = tasks /\ counts' = counts /\ blurred' = blurred
    BY <1>2, <2>1 DEF CountAccepted, record
  <2>3. Pending(p) => Pending(p)'
    BY <1>0, <2>2 DEF Pending
  <2>4. RecountsOf(p)' = RecountsOf(p) /\ Counted(p)
    BY <2>1, <2>2 DEF RecountsOf
  <2>5. CASE p = q
    <3>1. t \in RecountsOf(p) /\ \A u \in RecountsOf(p) : u = t
      BY <2>1, <2>4, <2>5 DEF RecountsOf, Counted
    <3>2. ASSUME UpToDate(p) PROVE UpToDate(p)'
      <4>1. tcount[t] \in Counts /\ tcount[t].applied = Cardinality(AppsOf(p))
        BY <2>1, <2>5, <3>2 DEF UpToDate
      <4>2. tcount'[t] = [tcount[t] EXCEPT !.accepted = Cardinality(AcceptedOf(p))]
        BY <2>2, <2>5
      <4>3. tcount'[t] = [applied |-> Cardinality(AppsOf(p)),
                          accepted |-> Cardinality(AcceptedOf(p))]
        BY <4>1, <4>2 DEF Counts
      <4>4. tpc'[t] = <<"save", p>>
        BY <2>2, <2>5
      <4>5. \A u \in TaskWorkers : tpc'[u] \in {<<"accepted", p>>, <<"save", p>>} => u = t
        BY <2>4, <3>1 DEF RecountsOf
      <4>6. t \in RecountsOf(p)'
        BY <2>4, <3>1
      <4>7. QED
        BY <1>0, <4>3, <4>4, <4>5, <4>6 DEF UpToDate, Exact
    <3>3. QED
      BY <2>3, <2>4, <3>2 DEF Counted
  <2>6. CASE p # q
    <3>1. t \notin RecountsOf(p)
      BY <2>1, <2>6 DEF RecountsOf
    <3>2. \A u \in RecountsOf(p) : tpc'[u] = tpc[u] /\ tcount'[u] = tcount[u]
      BY <2>2, <3>1 DEF RecountsOf
    <3>3. QED
      BY <1>0, <2>2, <2>3, <2>4, <3>2, OtherRecounts
  <2>7. QED
    BY <2>5, <2>6
<1>3. CASE SaveCounts(t)
  <2>1. PICK q \in Programs : tpc[t] = <<"save", q>>
    BY <1>3 DEF SaveCounts
  <2>2. /\ counts' = [counts EXCEPT ![q] = tcount[t]]
        /\ tpc' = [tpc EXCEPT ![t] = <<"idle", None>>]
        /\ tasks' = tasks /\ tcount' = tcount /\ blurred' = blurred
    BY <1>3, <2>1 DEF SaveCounts, record
  <2>3. Pending(p) => Pending(p)'
    BY <1>0, <2>2 DEF Pending
  <2>4. Counted(p)
    BY <2>2
  <2>5. CASE p = q
    <3>1. t \in RecountsOf(p) /\ \A u \in RecountsOf(p) : u = t
      BY <2>1, <2>4, <2>5 DEF RecountsOf, Counted
    <3>2. RecountsOf(p)' = {}
      BY <2>2, <3>1 DEF RecountsOf
    <3>3. UpToDate(p) => counts'[p] = Exact(p)
      BY <2>1, <2>2, <2>5 DEF UpToDate
    <3>4. UpToDate(p) => UpToDate(p)'
      BY <1>0, <3>2, <3>3 DEF UpToDate, RecountsOf, Exact
    <3>5. QED
      BY <2>3, <2>4, <3>2, <3>4 DEF Counted
  <2>6. CASE p # q
    <3>1. t \notin RecountsOf(p)
      BY <2>1, <2>6 DEF RecountsOf
    <3>2. /\ RecountsOf(p)' = RecountsOf(p)
          /\ \A u \in RecountsOf(p) : tpc'[u] = tpc[u] /\ tcount'[u] = tcount[u]
      BY <2>2, <3>1 DEF RecountsOf
    <3>3. counts'[p] = counts[p]
      BY <2>2, <2>6
    <3>4. QED
      BY <1>0, <2>3, <2>4, <3>2, <3>3, OtherRecounts
  <2>7. QED
    BY <2>5, <2>6
<1>4. QED
  BY <1>1, <1>2, <1>3 DEF Recount

\* A lost task may leave wrong counters of its own programme only.
LEMMA LossCounts ==
    ASSUME BaseInv, NEW t \in TaskWorkers, LoseTask(t),
           NEW p \in Programs \ blurred', Counted(p)
    PROVE  Counted(p)'
<1> USE DEF BaseInv, TypeOK
<1>1. /\ UNCHANGED <<status, counts, tasks, tcount, pc, app>>
      /\ tpc' = [tpc EXCEPT ![t] = <<"idle", None>>]
      /\ tpc[t][2] # p
  BY DEF LoseTask, tables, locals
<1>2. AppsOf(p)' = AppsOf(p) /\ AcceptedOf(p)' = AcceptedOf(p)
  BY <1>1, SameApps
<1>3. /\ RecountsOf(p)' = RecountsOf(p)
      /\ \A u \in RecountsOf(p) : tpc'[u] = tpc[u] /\ tcount'[u] = tcount[u]
  BY <1>1 DEF RecountsOf
<1>4. QED
  BY <1>1, <1>2, <1>3, OtherRecounts DEF Pending

\* A programme is blurred from the step that may have spoiled its counters until
\* a recount that begins alone.
LEMMA StepCounts ==
    ASSUME BaseInv, CountInv, [Next]_vars
    PROVE  CountInv'
<1>0. CountInv' <=> \A p \in Programs \ blurred' : Counted(p)'
  BY DEF CountInv, Counted
<1>a. \A p \in Programs \ blurred : Counted(p)
  BY DEF CountInv, Counted
<1>1. BaseInv'
  BY StepBase
<1>2. ASSUME NEW a \in Apps, Apply(a) PROVE CountInv'
  <2>1. blurred' = blurred
    BY <1>2 DEF Apply, record
  <2>2. QED
    BY <1>0, <1>a, <1>2, <2>1, ApplyCounts
<1>3. ASSUME NEW v \in Staff, Moves(v) PROVE CountInv'
  <2>1. blurred \subseteq blurred'
    <3>1. ASSUME NEW a \in Apps, Request(v, a) PROVE blurred' = blurred
      BY <3>1, RequestStarts DEF Starts, BaseInv
    <3>2. CASE Proceed(v)
      BY <3>2 DEF Proceed, Commit, Save, QueueRecount, CheckReward, CreateReward,
         AddCredit, FindReward, TakeCredit, DeleteReward, Log, record
    <3>3. CASE Crash(v) \/ Fault(v)
      BY <3>3 DEF Crash, Fault
    <3>4. QED
      BY <1>3, <3>1, <3>2, <3>3 DEF Moves
  <2>2. QED
    BY <1>0, <1>a, <1>1, <1>3, <2>1, RequestCounts
<1>4. ASSUME NEW t \in TaskWorkers, Recount(t) PROVE CountInv'
  <2> SUFFICES ASSUME NEW p \in Programs \ blurred' PROVE Counted(p)'
    BY <1>0
  <2>1. RecountsOf(p) # {} => p \notin blurred
    <3>1. CASE blurred' = blurred
      BY <3>1
    <3>2. ASSUME NEW q \in Programs, CountApplied(t, q)
          PROVE  RecountsOf(p) # {} => p \notin blurred
      BY <3>2 DEF CountApplied
    <3>3. QED
      BY <1>4, <3>1, <3>2 DEF Recount, CountAccepted, SaveCounts, record
  <2>2. QED
    BY <1>4, <1>a, <2>1, RecountCounts
<1>5. ASSUME NEW t \in TaskWorkers, LoseTask(t) PROVE CountInv'
  <2>1. blurred \subseteq blurred'
    BY <1>5 DEF LoseTask
  <2>2. QED
    BY <1>0, <1>a, <1>5, <2>1, LossCounts
<1>6. CASE UNCHANGED vars
  BY <1>6 DEF vars, CountInv, Pending, UpToDate, Exact, AppsOf, AcceptedOf, RecountsOf
<1>7. QED
  BY <1>2, <1>3, <1>4, <1>5, <1>6 DEF Next, Moves

\* Whatever overlaps, and whatever was killed or lost before, the counters of a
\* programme are exact when nothing is under way there, once a recount that began
\* alone has seen every commit.
THEOREM CountersAreExact == Spec => []CountersExact
<1>1. ASSUME Init PROVE CountInv
  <2>1. ASSUME NEW p \in Programs PROVE Counted(p)
    <3>1. AppsOf(p) = {} /\ AcceptedOf(p) = {}
      BY <1>1 DEF Init, AppsOf, AcceptedOf
    <3>2. Exact(p) = [applied |-> 0, accepted |-> 0]
      BY <3>1, FS_EmptySet DEF Exact
    <3>3. \A t \in TaskWorkers : tpc[t] = <<"idle", None>>
      BY <1>1 DEF Init
    <3>4. counts[p] = [applied |-> 0, accepted |-> 0]
      BY <1>1 DEF Init
    <3>5. QED
      BY <3>2, <3>3, <3>4 DEF UpToDate, RecountsOf, Counted
  <2>2. QED
    BY <2>1 DEF CountInv, Counted
<1>2. ASSUME BaseInv, CountInv PROVE CountersExact
  <2> SUFFICES ASSUME NEW p \in Programs \ blurred, Settled(p)
               PROVE  counts[p] = Exact(p)
    BY DEF CountersExact
  <2>1. ~Pending(p)
    BY DEF Pending, Settled
  <2>2. UpToDate(p)
    BY <1>2, <2>1 DEF CountInv
  <2>3. QED
    BY <2>2 DEF UpToDate, Settled
<1>3. QED
  BY <1>1, <1>2, BaseInitially, StepBase, StepCounts, PTL DEF Spec
=============================================================================

------------------------- MODULE WebEnrollmentProofs -------------------------
(***************************************************************************)
(* Proofs about WebEnrollment, for every finite number of enrolments and   *)
(* of requests in service, every capacity and every track.                 *)
(***************************************************************************)
EXTENDS WebEnrollment, FiniteSetTheorems, TLAPS

-----------------------------------------------------------------------------
(* Types *)

\* A worker that serves nothing holds nothing; one that deletes an account has
\* its user; another has an enrolment, the status it is to set, and may enrol its
\* user in every course that is left.
Sound(r) ==
    IF r.at = "idle" THEN r = Idle
    ELSE IF r.at = "account" THEN r.on \in Users
    ELSE /\ r.on \in Enrolments
         /\ {r.on[1]} \X r.left \subseteq Enrolments
         /\ r.at = "set" => r.to \in Statuses

Engaged == \A w \in Workers : Sound(req[w])

TypeInv == TypeOK /\ Engaged

\* What a request can be replaced by keeps the types.
LEMMA ReqType ==
    ASSUME TypeInv, NEW w \in Workers, NEW r \in Request, Sound(r),
           req' = [req EXCEPT ![w] = r]
    PROVE  req' \in [Workers -> Request] /\ Engaged'
  BY DEF TypeInv, TypeOK, Engaged

LEMMA IdleType == Idle \in Request /\ Idle.at = "idle" /\ Sound(Idle)
  BY DEF Idle, Serving, Request, Steps, Sound

LEMMA ArriveType ==
    ASSUME TypeInv, Arrive
    PROVE  requests' \in 0 .. MaxRequests
  BY ConstantsAssumption DEF TypeInv, TypeOK, Arrive

LEMMA ReadType ==
    ASSUME TypeInv, NEW w \in Workers, NEW e \in Enrolments, NEW at \in Steps \ {"idle", "account"},
           NEW to \in Statuses \cup {None}, at = "set" => to \in Statuses,
           Read(w, e, at, to)
    PROVE  TypeInv'
<1> DEFINE r == Serving(at, e, rows[e],
                        IF row[e] = None THEN None ELSE row[e].status, to, {})
<1>1. r \in Request /\ Sound(r)
  BY ConstantsAssumption DEF TypeInv, TypeOK, Request, Serving, Row, Sound
<1>2. req' = [req EXCEPT ![w] = r]
  BY DEF Read
<1>3. req' \in [Workers -> Request] /\ Engaged'
  BY <1>1, <1>2, ReqType
<1>4. QED
  BY <1>3, ArriveType DEF Read, TypeInv, TypeOK, tables, history

LEMMA DoneType ==
    ASSUME TypeInv, NEW w \in Workers, Done(w)
    PROVE  req' \in [Workers -> Request] /\ Engaged'
  BY IdleType, ReqType DEF Done

\* Request w goes on with another statement.
LEMMA GotoType ==
    ASSUME TypeInv, NEW w \in Workers, NEW at \in Steps \ {"idle", "set", "account"}, NEW n \in Nat,
           ~At(w, "idle"), ~At(w, "account"), req' = [req EXCEPT ![w].at = at, ![w].id = n]
    PROVE  req' \in [Workers -> Request] /\ Engaged'
<1> DEFINE r == [req[w] EXCEPT !.at = at, !.id = n]
<1>1. r \in Request /\ Sound(r)
  <2>1. req[w] \in Request /\ req[w].at \notin {"idle", "account"} /\ Sound(req[w])
    BY DEF TypeInv, TypeOK, Engaged, At
  <2>2. r \in Request
    BY <2>1 DEF Request
  <2>3. r.at = at /\ r.on = req[w].on /\ r.left = req[w].left
    BY <2>1 DEF Request
  <2>4. QED
    BY <2>1, <2>2, <2>3 DEF Sound
<1>2. req' = [req EXCEPT ![w] = r]
  BY DEF TypeInv, TypeOK
<1>3. QED
  BY <1>1, <1>2, ReqType

\* The first or the next course of a specialization.
LEMMA CourseType ==
    ASSUME TypeInv, NEW w \in Workers, NEW e \in Enrolments, NEW left \in SUBSET Courses,
           {e[1]} \X left \subseteq Enrolments,
           req' = [req EXCEPT ![w] = Serving("find", e, 0, None, None, left)]
    PROVE  req' \in [Workers -> Request] /\ Engaged'
<1> DEFINE r == Serving("find", e, 0, None, None, left)
<1>1. r \in Request /\ Sound(r)
  BY DEF Serving, Request, Steps, Sound
<1>2. QED
  BY <1>1, ReqType

LEMMA RowType ==
    ASSUME NEW s \in Statuses, NEW p \in Payments
    PROVE  [status |-> s, payment |-> p] \in Row
  BY DEF Row

\* The row of one enrolment is written or removed.
LEMMA WriteType ==
    ASSUME TypeInv, NEW e \in Enrolments, NEW r \in Row \cup {None},
           row' = [row EXCEPT ![e] = r]
    PROVE  row' \in [Enrolments -> Row \cup {None}]
  BY DEF TypeInv, TypeOK

LEMMA InsertType ==
    ASSUME TypeInv, NEW e \in Enrolments, NEW r \in Row, Insert(e, r)
    PROVE  row' \in [Enrolments -> Row \cup {None}] /\ rows' \in [Enrolments -> Nat]
  BY DEF TypeInv, TypeOK, Insert

LEMMA SeatsType ==
    ASSUME TypeInv, NEW c \in Courses, NEW n \in Int, seats' = [seats EXCEPT ![c] = @ + n]
    PROVE  seats' \in [Courses -> Int]
<1>1. seats[c] + n \in Int
  BY DEF TypeInv, TypeOK
<1>2. QED
  BY <1>1 DEF TypeInv, TypeOK

LEMMA ChangeType ==
    ASSUME NEW was, NEW to
    PROVE  SeatChange(was, to) \in {-1, 0, 1}
  BY DEF SeatChange

LEMMA CourseOf ==
    ASSUME NEW e \in Enrolments
    PROVE  e[1] \in Users /\ e[2] \in Courses /\ e = <<e[1], e[2]>>
  BY ConstantsAssumption

\* The counters of a course are numbers, before and after one of them grows.
LEMMA CountType ==
    ASSUME NEW f \in [Courses -> Nat], NEW c \in Courses, NEW n \in Nat
    PROVE  [f EXCEPT ![c] = @ + n] \in [Courses -> Nat]
  OBVIOUS

\* A busy worker's enrolment.
LEMMA Busy ==
    ASSUME TypeInv, NEW w \in Workers, ~At(w, "idle"), ~At(w, "account")
    PROVE  /\ req[w] \in Request
           /\ req[w].on \in Enrolments
           /\ {req[w].on[1]} \X req[w].left \subseteq Enrolments
           /\ At(w, "set") => req[w].to \in Statuses
  BY DEF TypeInv, TypeOK, Engaged, Sound, At

\* The loop of a specialization goes on to a course of the same user.
LEMMA NextType ==
    ASSUME TypeInv, NEW w \in Workers, ~At(w, "idle"), ~At(w, "account"), SpecNext(w)
    PROVE  req' \in [Workers -> Request] /\ Engaged'
<1>1. CASE req[w].left = {}
  BY <1>1, DoneType DEF SpecNext
<1>2. CASE req[w].left # {}
  <2>1. PICK c \in req[w].left :
          req' = [req EXCEPT ![w] = Serving("find", <<req[w].on[1], c>>,
                                    0, None, None, req[w].left \ {c})]
    BY <1>2 DEF SpecNext
  <2>2. <<req[w].on[1], c>> \in Enrolments
    BY <2>1, Busy
  <2>3. req[w].left \ {c} \in SUBSET Courses
    BY Busy DEF Request
  <2>4. {<<req[w].on[1], c>>[1]} \X (req[w].left \ {c}) \subseteq Enrolments
    BY Busy
  <2>5. QED
    BY <2>1, <2>2, <2>3, <2>4, CourseType
<1>3. QED
  BY <1>1, <1>2

LEMMA StaleType ==
    ASSUME TypeInv, NEW w \in Workers, ~At(w, "idle"), ~At(w, "account"),
           StaleRead(w) \/ UNCHANGED <<missing, surplus>>
    PROVE  missing' \in [Courses -> Nat] /\ surplus' \in [Courses -> Nat]
  BY Busy, CourseOf DEF StaleRead, TypeInv, TypeOK

\* Approvals are finitely many.
LEMMA Finite ==
    ASSUME NEW c, NEW table
    PROVE  /\ IsFiniteSet(ApprovedIn(c, table)) /\ Cardinality(ApprovedIn(c, table)) \in Nat
           /\ IsFiniteSet(Owed(c)) /\ Cardinality(Owed(c)) \in Nat
<1>1. ApprovedIn(c, table) \subseteq Enrolments /\ Owed(c) \subseteq Workers
  BY DEF ApprovedIn, Owed
<1>2. QED
  BY <1>1, ConstantsAssumption, FS_Subset, FS_CardinalityType

LEMMA UntouchedType ==
    ASSUME TypeInv, SeatsUntouched
    PROVE  /\ seats' \in [Courses -> Int] /\ granted' \in [Courses -> Nat]
           /\ missing' \in [Courses -> Nat] /\ surplus' \in [Courses -> Nat]
<1>1. ASSUME NEW c \in Courses
      PROVE  /\ Cardinality(ApprovedIn(c, row') \ ApprovedIn(c, row)) \in Nat
             /\ Cardinality(ApprovedIn(c, row) \ ApprovedIn(c, row')) \in Nat
  BY Finite, FS_Difference, FS_CardinalityType
<1>2. ASSUME NEW c \in Courses
      PROVE  /\ missing[c] + Cardinality(ApprovedIn(c, row') \ ApprovedIn(c, row)) \in Nat
             /\ surplus[c] + Cardinality(ApprovedIn(c, row) \ ApprovedIn(c, row')) \in Nat
  <2> DEFINE more == Cardinality(ApprovedIn(c, row') \ ApprovedIn(c, row))
             less == Cardinality(ApprovedIn(c, row) \ ApprovedIn(c, row'))
  <2>1. missing[c] \in Nat /\ surplus[c] \in Nat
    BY DEF TypeInv, TypeOK
  <2>2. more \in Nat /\ less \in Nat
    BY <1>1
  <2> HIDE DEF more, less
  <2>3. missing[c] + more \in Nat /\ surplus[c] + less \in Nat
    BY <2>1, <2>2
  <2>4. QED
    BY <2>3 DEF more, less
<1>3. missing' \in [Courses -> Nat]
  BY <1>2, Zenon DEF SeatsUntouched
<1>4. surplus' \in [Courses -> Nat]
  BY <1>2, Zenon DEF SeatsUntouched
<1>5. QED
  BY <1>3, <1>4, Zenon DEF SeatsUntouched, TypeInv, TypeOK

LEMMA WithoutType ==
    ASSUME TypeInv, NEW u, row' = Without(u)
    PROVE  row' \in [Enrolments -> Row \cup {None}]
  BY DEF Without, TypeInv, TypeOK

\* No step takes a row or a request out of its type.
LEMMA StepType ==
    ASSUME TypeInv, [Next]_vars
    PROVE  TypeInv'
<1> USE ConstantsAssumption
<1>1. ASSUME NEW w \in Workers, NEW e \in Enrolments, Begin(w, e) PROVE TypeInv'
  <2>1. CASE EnrollStart(w, e)
    BY <2>1, ReadType DEF EnrollStart, Steps
  <2>2. CASE CheckoutRead(w, e)
    BY <2>2, ReadType DEF CheckoutRead, Steps, Statuses
  <2>3. CASE StatusRead(w, e)
    BY <2>3, ReadType DEF StatusRead, Steps, Statuses
  <2>4. CASE DeleteRead(w, e)
    BY <2>4, ReadType DEF DeleteRead, Steps
  <2>5. QED
    BY <1>1, <2>1, <2>2, <2>3, <2>4 DEF Begin
<1>2. ASSUME NEW w \in Workers, EnrollCheckCapacity(w) PROVE TypeInv'
  <2>1. ~At(w, "idle") /\ ~At(w, "account") /\ "create" \in Steps \ {"idle", "set", "account"}
    BY <1>2 DEF EnrollCheckCapacity, At, Steps
  <2>2. req[w].id \in Nat /\ req[w] \in Request
    BY <2>1, Busy DEF Request
  <2>3. \/ Done(w)
        \/ req' = [req EXCEPT ![w].at = "create", ![w].id = req[w].id]
    BY <1>2, <2>2 DEF EnrollCheckCapacity, Done, TypeInv, TypeOK, Request
  <2>4. req' \in [Workers -> Request] /\ Engaged'
    BY <2>1, <2>2, <2>3, DoneType, GotoType
  <2>5. QED
    BY <1>2, <2>4 DEF EnrollCheckCapacity, tables, history, TypeInv, TypeOK
<1>3. ASSUME NEW w \in Workers, EnrollCreate(w) PROVE TypeInv'
  <2>1. req[w].on \in Enrolments
    BY <1>3, Busy DEF EnrollCreate, At
  <2>2. row' \in [Enrolments -> Row \cup {None}] /\ rows' \in [Enrolments -> Nat]
    <3>1. New \in Row
      BY RowType DEF New, Statuses, Payments
    <3>2. QED
      BY <1>3, <2>1, <3>1, InsertType DEF EnrollCreate, TypeInv, TypeOK
  <2>3. req' \in [Workers -> Request] /\ Engaged'
    BY <1>3, DoneType DEF EnrollCreate
  <2>4. QED
    BY <1>3, <2>2, <2>3 DEF EnrollCreate, history, TypeInv, TypeOK
<1>4. ASSUME NEW w \in Workers, CheckoutPay(w) PROVE TypeInv'
  <2>1. req[w].on \in Enrolments
    BY <1>4, Busy DEF CheckoutPay, At
  <2>2. row' \in [Enrolments -> Row \cup {None}] /\ seats' \in [Courses -> Int]
    <3>1. [status |-> "approved", payment |-> "paid"] \in Row
      BY RowType DEF Statuses, Payments
    <3>2. SeatChange(req[w].was, "approved") \in Int
      BY ChangeType
    <3>3. QED
      BY <1>4, <2>1, <3>1, <3>2, WriteType, SeatsType, CourseOf
         DEF CheckoutPay, TypeInv, TypeOK
  <2>3. req' \in [Workers -> Request] /\ Engaged'
    BY <1>4, DoneType DEF CheckoutPay
  <2>4. missing' \in [Courses -> Nat] /\ surplus' \in [Courses -> Nat]
    BY <1>4, StaleType DEF CheckoutPay, At
  <2>5. QED
    BY <1>4, <2>2, <2>3, <2>4 DEF CheckoutPay, TypeInv, TypeOK
<1>5. ASSUME NEW w \in Workers, StatusWrite(w) PROVE TypeInv'
  <2> DEFINE e == req[w].on
             change == SeatChange(req[w].was, req[w].to)
  <2>1. e \in Enrolments /\ req[w] \in Request
    BY <1>5, Busy DEF StatusWrite, At
  <2>2. req' \in [Workers -> Request] /\ Engaged'
    BY <1>5, DoneType DEF StatusWrite
  <2>3. CASE Found(w)
    <3>1. change \in Int /\ e[2] \in Courses
      BY ChangeType, CourseOf, <2>1
    <3>2. seats' \in [Courses -> Int] /\ granted' \in [Courses -> Nat]
      <4>1. seats' = [seats EXCEPT ![e[2]] = @ + change]
        BY <1>5, <2>3 DEF StatusWrite
      <4>2. granted' = [granted EXCEPT ![e[2]] = IF change = 1 THEN @ + 1 ELSE @]
        BY <1>5, <2>3 DEF StatusWrite
      <4>3. granted' \in [Courses -> Nat]
        BY <3>1, <4>2 DEF TypeInv, TypeOK
      <4>4. QED
        BY <3>1, <4>1, <4>3, SeatsType
    <3>3. [row[e] EXCEPT !.status = req[w].to] \in Row
      <4>1. req[w].to \in Statuses /\ row[e] \in Row
        BY <1>5, <2>1, <2>3, Busy DEF StatusWrite, Found, At, TypeInv, TypeOK
      <4>2. QED
        BY <4>1 DEF Row
    <3>4. row' \in [Enrolments -> Row \cup {None}]
      <4>1. row' = [row EXCEPT ![e] = [row[e] EXCEPT !.status = req[w].to]]
        BY <1>5, <2>3 DEF StatusWrite
      <4>2. QED
        BY <2>1, <3>3, <4>1, WriteType
    <3>5. missing' \in [Courses -> Nat] /\ surplus' \in [Courses -> Nat]
      BY <1>5, <2>3, StaleType DEF StatusWrite, At
    <3>6. QED
      BY <1>5, <2>2, <3>2, <3>4, <3>5 DEF StatusWrite, TypeInv, TypeOK
  <2>4. CASE ~Found(w)
    BY <1>5, <2>2, <2>4 DEF StatusWrite, history, TypeInv, TypeOK
  <2>5. QED
    BY <2>3, <2>4
<1>6. ASSUME NEW w \in Workers, DeleteRow(w) PROVE TypeInv'
  <2>1. req[w].on \in Enrolments
    BY <1>6, Busy DEF DeleteRow, At
  <2>2. row' \in [Enrolments -> Row \cup {None}] /\ seats' \in [Courses -> Int]
    <3>1. SeatChange(req[w].was, None) \in Int
      BY ChangeType
    <3>2. QED
      BY <1>6, <2>1, <3>1, WriteType, SeatsType, CourseOf DEF DeleteRow, TypeInv, TypeOK
  <2>3. req' \in [Workers -> Request] /\ Engaged'
    BY <1>6, DoneType DEF DeleteRow
  <2>4. missing' \in [Courses -> Nat] /\ surplus' \in [Courses -> Nat]
    BY <1>6, StaleType DEF DeleteRow, At
  <2>5. QED
    BY <1>6, <2>2, <2>3, <2>4 DEF DeleteRow, TypeInv, TypeOK
<1>7. ASSUME NEW w \in Workers, SpecStart(w) PROVE TypeInv'
  <2>1. PICK u \in accounts, c \in Track :
          /\ {u} \X Track \subseteq Enrolments
          /\ req' = [req EXCEPT ![w] =
                       Serving("find", <<u, c>>, 0, None, None, Track \ {c})]
    BY <1>7 DEF SpecStart
  <2>2. /\ <<u, c>> \in Enrolments
        /\ Track \ {c} \in SUBSET Courses
        /\ {<<u, c>>[1]} \X (Track \ {c}) \subseteq Enrolments
    BY <2>1
  <2>3. req' \in [Workers -> Request] /\ Engaged'
    BY <2>1, <2>2, CourseType
  <2>4. QED
    BY <1>7, <2>3, ArriveType DEF SpecStart, tables, history, TypeInv, TypeOK
<1>8. ASSUME NEW w \in Workers, SpecFind(w) PROVE TypeInv'
  <2>1. /\ ~At(w, "idle") /\ ~At(w, "account")
        /\ {"fill", "lift"} \subseteq Steps \ {"idle", "set", "account"}
    BY <1>8 DEF SpecFind, At, Steps
  <2>2. rows[req[w].on] \in Nat
    BY <2>1, Busy DEF TypeInv, TypeOK
  <2>3. PICK at \in {"fill", "lift"} :
          req' = [req EXCEPT ![w].at = at, ![w].id = rows[req[w].on]]
    BY <1>8 DEF SpecFind
  <2>4. req' \in [Workers -> Request] /\ Engaged'
    BY <2>1, <2>2, <2>3, GotoType
  <2>5. QED
    BY <1>8, <2>4 DEF SpecFind, tables, history, TypeInv, TypeOK
<1>9. ASSUME NEW w \in Workers, SpecCreate(w) PROVE TypeInv'
  <2>1. req[w].on \in Enrolments /\ req[w] \in Request /\ ~At(w, "idle") /\ ~At(w, "account")
    BY <1>9, Busy DEF SpecCreate, At
  <2>2. row' \in [Enrolments -> Row \cup {None}] /\ rows' \in [Enrolments -> Nat]
    <3>1. [status |-> "approved", payment |-> "paid"] \in Row
      BY RowType DEF Statuses, Payments
    <3>2. QED
      BY <1>9, <2>1, <3>1, InsertType DEF SpecCreate, TypeInv, TypeOK
  <2>3. req' \in [Workers -> Request] /\ Engaged'
    <3>1. \/ Done(w)
          \/ req' = [req EXCEPT ![w].at = "count", ![w].id = req[w].id]
      BY <1>9, <2>1 DEF SpecCreate, TypeInv, TypeOK, Request
    <3>2. req[w].id \in Nat /\ "count" \in Steps \ {"idle", "set", "account"}
      BY <2>1 DEF Request, Steps
    <3>3. QED
      BY <2>1, <3>1, <3>2, DoneType, GotoType
  <2>4. QED
    BY <1>9, <2>2, <2>3 DEF SpecCreate, history, TypeInv, TypeOK
<1>10. ASSUME NEW w \in Workers, SpecCount(w) PROVE TypeInv'
  <2>1. ~At(w, "idle") /\ ~At(w, "account")
    BY <1>10 DEF SpecCount, At
  <2>2. req[w].on[2] \in Courses
    BY <2>1, Busy, CourseOf
  <2>3. seats' \in [Courses -> Int] /\ granted' \in [Courses -> Nat]
    BY <1>10, <2>2 DEF SpecCount, TypeInv, TypeOK
  <2>4. req' \in [Workers -> Request] /\ Engaged'
    BY <1>10, <2>1, NextType DEF SpecCount
  <2>5. QED
    BY <1>10, <2>3, <2>4 DEF SpecCount, TypeInv, TypeOK
<1>11. ASSUME NEW w \in Workers, SpecUpdate(w) PROVE TypeInv'
  <2>1. req[w].on \in Enrolments /\ ~At(w, "idle") /\ ~At(w, "account")
    BY <1>11, Busy DEF SpecUpdate, At
  <2>2. row' \in [Enrolments -> Row \cup {None}]
    <3>1. [status |-> "approved", payment |-> "paid"] \in Row
      BY RowType DEF Statuses, Payments
    <3>2. QED
      BY <1>11, <2>1, <3>1, WriteType DEF SpecUpdate, TypeInv, TypeOK
  <2>3. req' \in [Workers -> Request] /\ Engaged'
    BY <1>11, <2>1, DoneType, NextType DEF SpecUpdate
  <2>4. SeatsUntouched
    BY <1>11 DEF SpecUpdate
  <2>5. QED
    BY <1>11, <2>2, <2>3, <2>4, UntouchedType DEF SpecUpdate, TypeInv, TypeOK
<1>12. ASSUME NEW w \in Workers, Fail(w) PROVE TypeInv'
  <2>1. missing' \in [Courses -> Nat]
    BY <1>12, Busy, CourseOf DEF Fail, At, TypeInv, TypeOK
  <2>2. QED
    BY <1>12, <2>1, DoneType DEF Fail, tables, TypeInv, TypeOK
<1>13. ASSUME NEW e \in Enrolments, AidApply(e) PROVE TypeInv'
  <2>1. [status |-> "pending", payment |-> "aid_requested"] \in Row
    BY RowType DEF Statuses, Payments
  <2>2. row' \in [Enrolments -> Row \cup {None}] /\ rows' \in [Enrolments -> Nat]
    BY <1>13, <2>1, InsertType, WriteType DEF AidApply, Upsert, TypeInv, TypeOK
  <2>3. SeatsUntouched /\ UNCHANGED <<accounts, req>> /\ Arrive
    BY <1>13 DEF AidApply, Upsert
  <2>4. QED
    BY <2>2, <2>3, ArriveType, UntouchedType DEF TypeInv, TypeOK, Engaged
<1>14. ASSUME NEW e \in Enrolments, AidDecide(e) PROVE TypeInv'
  <2>1. row' \in [Enrolments -> Row \cup {None}]
    BY <1>14, WriteType DEF AidDecide
  <2>2. SeatsUntouched /\ UNCHANGED <<accounts, rows, req>> /\ Arrive
    BY <1>14 DEF AidDecide
  <2>3. QED
    BY <2>1, <2>2, ArriveType, UntouchedType DEF TypeInv, TypeOK, Engaged
<1>15. ASSUME NEW w \in Workers, NEW u \in Users, DeleteEnrolments(w, u) PROVE TypeInv'
  <2>1. row' \in [Enrolments -> Row \cup {None}]
    BY <1>15, WithoutType DEF DeleteEnrolments
  <2>2. SeatsUntouched /\ UNCHANGED <<accounts, rows>> /\ Arrive
    BY <1>15 DEF DeleteEnrolments
  <2>3. req' \in [Workers -> Request] /\ Engaged'
    <3>1. Serving("account", u, 0, None, None, {}) \in Request
      BY DEF Serving, Request, Steps
    <3>2. Sound(Serving("account", u, 0, None, None, {}))
      BY DEF Serving, Sound
    <3>3. QED
      BY <1>15, <3>1, <3>2, ReqType DEF DeleteEnrolments
  <2>4. QED
    BY <2>1, <2>2, <2>3, ArriveType, UntouchedType DEF TypeInv, TypeOK
<1>16. ASSUME NEW w \in Workers, DeleteAccount(w) PROVE TypeInv'
  <2>1. row' \in [Enrolments -> Row \cup {None}]
    BY <1>16, WithoutType DEF DeleteAccount
  <2>2. /\ SeatsUntouched /\ UNCHANGED <<rows, requests>> /\ Done(w)
        /\ accounts' = accounts \ {req[w].on}
    BY <1>16 DEF DeleteAccount
  <2>3. QED
    BY <2>1, <2>2, DoneType, UntouchedType DEF TypeInv, TypeOK
<1>17. CASE UNCHANGED vars
  BY <1>17 DEF vars, tables, history, TypeInv, TypeOK, Engaged
<1>18. QED
  BY <1>1, <1>2, <1>3, <1>4, <1>5, <1>6, <1>7, <1>8, <1>9, <1>10, <1>11, <1>12,
     <1>13, <1>14, <1>15, <1>16, <1>17 DEF Next, Serve

LEMMA InitType == Init => TypeInv
<1> SUFFICES ASSUME Init PROVE TypeInv
  OBVIOUS
<1>1. New \in Row
  BY RowType DEF New, Statuses, Payments
<1>2. 0 \in 0 .. MaxRequests
  BY ConstantsAssumption
<1>3. QED
  BY <1>1, <1>2, ConstantsAssumption, IdleType DEF Init, TypeInv, TypeOK, Engaged

\* Accounts, rows, counts and requests keep their types.
THEOREM WebTypeCorrect == Spec => []TypeOK
<1>1. Init => TypeInv
  BY InitType
<1>2. TypeInv /\ [Next]_vars => TypeInv'
  BY StepType
<1>3. QED
  BY <1>1, <1>2, PTL DEF Spec, TypeInv
-----------------------------------------------------------------------------
(* The capacity.  A payment that has passed the check but has not committed *)
(* holds a promise; seats and promises together stay within the bound.      *)

Selling(c) == {w \in Workers : /\ At(w, "pay")
                               /\ req[w].on[2] = c
                               /\ req[w].was # "approved"}

Promised ==
    \A c \in Courses : seats[c] + Cardinality(Selling(c))
                         <= Capacity[c] - 1 + Cardinality(Workers) + granted[c]

SoldInv == TypeInv /\ Promised

LEMMA SellingBound ==
    ASSUME NEW c
    PROVE  /\ IsFiniteSet(Selling(c))
           /\ Cardinality(Selling(c)) \in Nat
           /\ Cardinality(Workers) \in Nat
           /\ Cardinality(Selling(c)) <= Cardinality(Workers)
  BY ConstantsAssumption, FS_Subset, FS_CardinalityType DEF Selling

\* A step that makes no promise, and gives no seat it does not record.
LEMMA PromiseKept ==
    ASSUME SoldInv, TypeInv',
           \A w \in Workers : req'[w].at = "pay" => req'[w] = req[w],
           \A c \in Courses : seats'[c] - granted'[c] <= seats[c] - granted[c]
    PROVE  Promised'
<1> SUFFICES ASSUME NEW c \in Courses
             PROVE  seats'[c] + Cardinality(Selling(c))'
                      <= Capacity[c] - 1 + Cardinality(Workers) + granted'[c]
  BY DEF Promised
<1>1. Selling(c)' \subseteq Selling(c)
  BY DEF Selling, At
<1>2. Cardinality(Selling(c)') <= Cardinality(Selling(c)) /\ Cardinality(Selling(c)') \in Nat
  BY <1>1, SellingBound, FS_Subset, FS_CardinalityType
<1>3. /\ seats[c] \in Int /\ seats'[c] \in Int
      /\ granted[c] \in Nat /\ granted'[c] \in Nat /\ Capacity[c] \in Nat
  BY ConstantsAssumption DEF SoldInv, TypeInv, TypeOK
<1>4. seats[c] + Cardinality(Selling(c))
        <= Capacity[c] - 1 + Cardinality(Workers) + granted[c]
  BY DEF SoldInv, Promised
<1>5. Cardinality(Workers) \in Nat /\ Cardinality(Selling(c)) \in Nat
  BY SellingBound
<1>6. QED
  BY <1>2, <1>3, <1>4, <1>5

\* The check makes a promise while a seat is left.
LEMMA PromiseMade ==
    ASSUME SoldInv, TypeInv', NEW w \in Workers, NEW e \in Enrolments, CheckoutRead(w, e)
    PROVE  Promised'
<1> SUFFICES ASSUME NEW c \in Courses
             PROVE  seats'[c] + Cardinality(Selling(c))'
                      <= Capacity[c] - 1 + Cardinality(Workers) + granted'[c]
  BY DEF Promised
<1>1. /\ seats[c] \in Int /\ granted[c] \in Nat /\ Capacity[c] \in Nat
      /\ UNCHANGED <<seats, granted>>
  BY ConstantsAssumption DEF SoldInv, TypeInv, TypeOK, CheckoutRead, Read, tables, history
<1>2. Cardinality(Workers) \in Nat /\ Cardinality(Selling(c)) \in Nat
  BY SellingBound
<1>3. IsFiniteSet(Workers) /\ Selling(c)' \subseteq Workers
  BY ConstantsAssumption DEF Selling
<1>4. Cardinality(Selling(c)') \in Nat /\ Cardinality(Selling(c)') <= Cardinality(Workers)
  BY <1>3, FS_Subset, FS_CardinalityType
<1>5. CASE c = e[2]
  BY <1>1, <1>2, <1>4, <1>5 DEF CheckoutRead
<1>6. CASE c # e[2]
  <2>1. req'[w].on = e /\ \A v \in Workers \ {w} : req'[v] = req[v]
    BY DEF CheckoutRead, Read, Serving, SoldInv, TypeInv, TypeOK
  <2>2. Selling(c)' \subseteq Selling(c)
    BY <1>6, <2>1 DEF Selling, At
  <2>3. Cardinality(Selling(c)') <= Cardinality(Selling(c))
    BY <2>2, SellingBound, FS_Subset
  <2>4. seats[c] + Cardinality(Selling(c))
          <= Capacity[c] - 1 + Cardinality(Workers) + granted[c]
    BY DEF SoldInv, Promised
  <2>5. QED
    BY <1>1, <1>2, <1>4, <2>3, <2>4
<1>7. QED
  BY <1>5, <1>6

\* The payment turns its promise into a seat.
LEMMA PromiseRedeemed ==
    ASSUME SoldInv, TypeInv', NEW w \in Workers, CheckoutPay(w)
    PROVE  Promised'
<1> SUFFICES ASSUME NEW c \in Courses
             PROVE  seats'[c] + Cardinality(Selling(c))'
                      <= Capacity[c] - 1 + Cardinality(Workers) + granted'[c]
  BY DEF Promised
<1> DEFINE e == req[w].on
<1>1. /\ seats[c] \in Int /\ seats'[c] \in Int /\ granted[c] \in Nat
      /\ Capacity[c] \in Nat /\ UNCHANGED granted
  BY ConstantsAssumption DEF SoldInv, TypeInv, TypeOK, CheckoutPay
<1>2. /\ Cardinality(Workers) \in Nat /\ Cardinality(Selling(c)) \in Nat
      /\ IsFiniteSet(Selling(c))
  BY SellingBound
<1>3. Selling(c)' = Selling(c) \ {w}
  <2>1. req'[w].at = "idle" /\ \A v \in Workers \ {w} : req'[v] = req[v]
    BY DEF CheckoutPay, Done, Idle, Serving, SoldInv, TypeInv, TypeOK
  <2>2. QED
    BY <2>1 DEF Selling, At
<1>4. seats'[c] <= seats[c] + (IF w \in Selling(c) THEN 1 ELSE 0)
  <2>1. CASE Found(w)
    <3>1. seats' = [seats EXCEPT ![e[2]] = @ + SeatChange(req[w].was, "approved")]
      BY <2>1 DEF CheckoutPay
    <3>2. SeatChange(req[w].was, "approved") = IF req[w].was # "approved" THEN 1 ELSE 0
      BY DEF SeatChange
    <3>3. w \in Selling(c) <=> c = e[2] /\ req[w].was # "approved"
      BY DEF CheckoutPay, Selling
    <3>4. QED
      BY <1>1, <3>1, <3>2, <3>3 DEF SoldInv, TypeInv, TypeOK
  <2>2. CASE ~Found(w)
    BY <1>1, <2>2 DEF CheckoutPay
  <2>3. QED
    BY <2>1, <2>2
<1>5. Cardinality(Selling(c)') = Cardinality(Selling(c)) - (IF w \in Selling(c) THEN 1 ELSE 0)
  <2>1. CASE w \in Selling(c)
    <3>1. Cardinality(Selling(c) \ {w}) = Cardinality(Selling(c)) - 1
      BY <1>2, <2>1, FS_RemoveElement
    <3>2. QED
      BY <1>3, <2>1, <3>1
  <2>2. CASE w \notin Selling(c)
    <3>1. Selling(c)' = Selling(c)
      BY <1>3, <2>2
    <3>2. QED
      BY <1>2, <2>2, <3>1
  <2>3. QED
    BY <2>1, <2>2
<1>6. seats[c] + Cardinality(Selling(c))
        <= Capacity[c] - 1 + Cardinality(Workers) + granted[c]
  BY DEF SoldInv, Promised
<1>7. QED
  BY <1>1, <1>2, <1>4, <1>5, <1>6

\* A request other than a checkout begins, or goes on.
LEMMA ReadPays ==
    ASSUME TypeInv, NEW w \in Workers, NEW e, NEW at, NEW to, Read(w, e, at, to), at # "pay"
    PROVE  /\ \A v \in Workers : req'[v].at = "pay" => req'[v] = req[v]
           /\ UNCHANGED <<tables, granted>>
  BY DEF Read, Serving, history, TypeInv, TypeOK

LEMMA DonePays ==
    ASSUME TypeInv, NEW w \in Workers, Done(w)
    PROVE  \A v \in Workers : req'[v].at = "pay" => req'[v] = req[v]
  BY DEF Done, Idle, Serving, TypeInv, TypeOK

LEMMA NextPays ==
    ASSUME TypeInv, NEW w \in Workers, SpecNext(w)
    PROVE  \A v \in Workers : req'[v].at = "pay" => req'[v] = req[v]
<1>1. CASE req[w].left = {}
  BY <1>1, DonePays DEF SpecNext
<1>2. CASE req[w].left # {}
  <2>1. PICK c \in req[w].left :
          req' = [req EXCEPT ![w] = Serving("find", <<req[w].on[1], c>>,
                                    0, None, None, req[w].left \ {c})]
    BY <1>2 DEF SpecNext
  <2>2. QED
    BY <2>1 DEF Serving, TypeInv, TypeOK
<1>3. QED
  BY <1>1, <1>2

LEMMA GotoPays ==
    ASSUME TypeInv, NEW w \in Workers, NEW at, at # "pay", NEW id,
           req' = [req EXCEPT ![w].at = at, ![w].id = id]
    PROVE  \A v \in Workers : req'[v].at = "pay" => req'[v] = req[v]
<1>1. req[w] \in Request
  BY DEF TypeInv, TypeOK
<1>2. [req[w] EXCEPT !.at = at, !.id = id].at = at
  BY <1>1 DEF Request
<1>3. req'[w] = [req[w] EXCEPT !.at = at, !.id = id]
  BY DEF TypeInv, TypeOK
<1>4. \A v \in Workers \ {w} : req'[v] = req[v]
  BY DEF TypeInv, TypeOK
<1>5. QED
  BY <1>2, <1>3, <1>4

\* Each seat is promised, or recorded as granted.
LEMMA SoldStep ==
    ASSUME SoldInv, [Next]_vars
    PROVE  SoldInv'
<1> USE DEF SoldInv
<1>0. TypeInv'
  BY StepType
<1>q. \A c \in Courses : seats[c] \in Int /\ granted[c] \in Nat
  BY DEF TypeInv, TypeOK
<1>k. ASSUME \A w \in Workers : req'[w].at = "pay" => req'[w] = req[w],
             UNCHANGED <<seats, granted>>
      PROVE  Promised'
  BY <1>0, <1>q, <1>k, PromiseKept
<1>1. ASSUME NEW w \in Workers, NEW e \in Enrolments, Begin(w, e) PROVE Promised'
  <2>1. CASE EnrollStart(w, e)
    BY <1>k, <2>1, ReadPays DEF EnrollStart, tables
  <2>2. CASE CheckoutRead(w, e)
    BY <1>0, <2>2, PromiseMade
  <2>3. CASE StatusRead(w, e)
    BY <1>k, <2>3, ReadPays DEF StatusRead, tables
  <2>4. CASE DeleteRead(w, e)
    BY <1>k, <2>4, ReadPays DEF DeleteRead, tables
  <2>5. QED
    BY <1>1, <2>1, <2>2, <2>3, <2>4 DEF Begin
<1>2. ASSUME NEW w \in Workers, EnrollCheckCapacity(w) PROVE Promised'
  <2>1. Done(w) \/ req' = [req EXCEPT ![w].at = "create", ![w].id = req[w].id]
    BY <1>2 DEF EnrollCheckCapacity, Done, TypeInv, TypeOK, Request
  <2>2. QED
    BY <1>k, <1>2, <2>1, DonePays, GotoPays DEF EnrollCheckCapacity, tables, history
<1>3. ASSUME NEW w \in Workers, EnrollCreate(w) PROVE Promised'
  BY <1>k, <1>3, DonePays DEF EnrollCreate, history
<1>4. ASSUME NEW w \in Workers, CheckoutPay(w) PROVE Promised'
  BY <1>0, <1>4, PromiseRedeemed
<1>5. ASSUME NEW w \in Workers, StatusWrite(w) PROVE Promised'
  <2> DEFINE e == req[w].on
             change == SeatChange(req[w].was, req[w].to)
  <2>1. \A v \in Workers : req'[v].at = "pay" => req'[v] = req[v]
    BY <1>5, DonePays DEF StatusWrite
  <2>2. CASE Found(w)
    <3>1. /\ seats' = [seats EXCEPT ![e[2]] = @ + change]
          /\ granted' = [granted EXCEPT ![e[2]] = IF change = 1 THEN @ + 1 ELSE @]
      BY <1>5, <2>2 DEF StatusWrite
    <3>2. change \in {-1, 0, 1}
      BY ChangeType
    <3>3. \A c \in Courses : seats'[c] - granted'[c] <= seats[c] - granted[c]
      BY <1>q, <3>1, <3>2 DEF TypeInv, TypeOK
    <3>4. QED
      BY <1>0, <2>1, <3>3, PromiseKept
  <2>3. CASE ~Found(w)
    BY <1>k, <1>5, <2>1, <2>3 DEF StatusWrite, history
  <2>4. QED
    BY <2>2, <2>3
<1>6. ASSUME NEW w \in Workers, DeleteRow(w) PROVE Promised'
  <2>1. \A v \in Workers : req'[v].at = "pay" => req'[v] = req[v]
    BY <1>6, DonePays DEF DeleteRow
  <2>2. CASE Found(w)
    <3>1. SeatChange(req[w].was, None) \in {-1, 0}
      BY ConstantsAssumption DEF SeatChange, Statuses
    <3>2. \A c \in Courses : seats'[c] - granted'[c] <= seats[c] - granted[c]
      BY <1>6, <1>q, <2>2, <3>1 DEF DeleteRow, TypeInv, TypeOK
    <3>3. QED
      BY <1>0, <2>1, <3>2, PromiseKept
  <2>3. CASE ~Found(w)
    BY <1>k, <1>6, <2>1, <2>3 DEF DeleteRow
  <2>4. QED
    BY <2>2, <2>3
<1>7. ASSUME NEW w \in Workers, SpecStart(w) PROVE Promised'
  <2>1. \A v \in Workers : req'[v].at = "pay" => req'[v] = req[v]
    BY <1>7 DEF SpecStart, Serving, TypeInv, TypeOK
  <2>2. QED
    BY <1>k, <1>7, <2>1 DEF SpecStart, tables, history
<1>8. ASSUME NEW w \in Workers, SpecFind(w) PROVE Promised'
  <2>1. PICK at \in {"fill", "lift"} :
          req' = [req EXCEPT ![w].at = at, ![w].id = rows[req[w].on]]
    BY <1>8 DEF SpecFind
  <2>2. \A v \in Workers : req'[v].at = "pay" => req'[v] = req[v]
    BY <2>1, GotoPays
  <2>3. QED
    BY <1>k, <1>8, <2>2 DEF SpecFind, tables, history
<1>9. ASSUME NEW w \in Workers, SpecCreate(w) PROVE Promised'
  <2>1. Done(w) \/ req' = [req EXCEPT ![w].at = "count", ![w].id = req[w].id]
    BY <1>9 DEF SpecCreate, TypeInv, TypeOK, Request
  <2>2. QED
    BY <1>k, <1>9, <2>1, DonePays, GotoPays DEF SpecCreate, history
<1>10. ASSUME NEW w \in Workers, SpecCount(w) PROVE Promised'
  <2>1. \A c \in Courses : seats'[c] - granted'[c] <= seats[c] - granted[c]
    BY <1>10, <1>q DEF SpecCount, TypeInv, TypeOK
  <2>2. QED
    BY <1>0, <1>10, <2>1, NextPays, PromiseKept DEF SpecCount
<1>11. ASSUME NEW w \in Workers, SpecUpdate(w) PROVE Promised'
  BY <1>k, <1>11, DonePays, NextPays DEF SpecUpdate, SeatsUntouched
<1>12. ASSUME NEW w \in Workers, Fail(w) PROVE Promised'
  BY <1>k, <1>12, DonePays DEF Fail, tables
<1>13. ASSUME NEW e \in Enrolments, AidApply(e) \/ AidDecide(e) PROVE Promised'
  BY <1>k, <1>13 DEF AidApply, Upsert, AidDecide, SeatsUntouched
<1>14. ASSUME NEW w \in Workers, NEW u \in Users, DeleteEnrolments(w, u) PROVE Promised'
  <2>1. \A v \in Workers : req'[v].at = "pay" => req'[v] = req[v]
    BY <1>14 DEF DeleteEnrolments, Serving, TypeInv, TypeOK
  <2>2. QED
    BY <1>k, <1>14, <2>1 DEF DeleteEnrolments, SeatsUntouched
<1>15. ASSUME NEW w \in Workers, DeleteAccount(w) PROVE Promised'
  BY <1>k, <1>15, DonePays DEF DeleteAccount, SeatsUntouched
<1>16. ASSUME UNCHANGED vars PROVE Promised'
  BY <1>k, <1>16 DEF vars, tables, history
<1>17. Promised'
  BY <1>1, <1>2, <1>3, <1>4, <1>5, <1>6, <1>7, <1>8, <1>9, <1>10, <1>11, <1>12,
     <1>13, <1>14, <1>15, <1>16 DEF Next, Serve
<1>18. QED
  BY <1>0, <1>17

\* Payments sell at most one seat too many for every other request in
\* service, however the requests overlap.
THEOREM SeatsAreBounded == Spec => []OversoldBound
<1>1. Init => SoldInv
  <2> SUFFICES ASSUME Init PROVE SoldInv
    OBVIOUS
  <2>1. TypeInv
    BY InitType
  <2>2. ASSUME NEW c \in Courses
        PROVE  seats[c] + Cardinality(Selling(c))
                 <= Capacity[c] - 1 + Cardinality(Workers) + granted[c]
    <3>1. Selling(c) = {}
      BY DEF Init, Selling, At, Idle, Serving
    <3>2. Cardinality(Selling(c)) = 0
      BY <3>1, FS_EmptySet
    <3>3. Cardinality(Workers) \in Nat
      BY SellingBound
    <3>4. seats[c] = 0 /\ granted[c] = 0 /\ Capacity[c] \in Nat \ {0}
      BY ConstantsAssumption DEF Init
    <3>5. QED
      BY <3>2, <3>3, <3>4
  <2>3. QED
    BY <2>1, <2>2 DEF SoldInv, Promised
<1>2. SoldInv /\ [Next]_vars => SoldInv'
  BY SoldStep
<1>3. SoldInv => OversoldBound
  <2> SUFFICES ASSUME SoldInv, NEW c \in Courses
               PROVE  seats[c] <= Capacity[c] + Cardinality(Workers) - 1 + granted[c]
    BY DEF OversoldBound
  <2>1. /\ Cardinality(Selling(c)) \in Nat /\ Cardinality(Workers) \in Nat
        /\ seats[c] \in Int /\ granted[c] \in Nat /\ Capacity[c] \in Nat
    BY ConstantsAssumption, SellingBound DEF SoldInv, TypeInv, TypeOK
  <2>2. QED
    BY <2>1 DEF SoldInv, Promised
<1>4. QED
  BY <1>1, <1>2, <1>3, PTL DEF Spec

-----------------------------------------------------------------------------
(* Seats and approvals *)

Balanced(c) == seats[c] + Cardinality(Owed(c)) + missing[c]
                 = Cardinality(ApprovedIn(c, row)) + surplus[c]

CountInv == TypeInv /\ \A c \in Courses : Balanced(c)

StatusOf(r) == IF r = None THEN None ELSE r.status

\* Writing one row changes the number of approvals by what its status says.
LEMMA ApprovalsChange ==
    ASSUME TypeInv, NEW e \in Enrolments, NEW r \in Row \cup {None},
           row' = [row EXCEPT ![e] = r], NEW c \in Courses
    PROVE  Cardinality(ApprovedIn(c, row')) = Cardinality(ApprovedIn(c, row))
             + (IF c = e[2] THEN SeatChange(StatusOf(row[e]), StatusOf(r)) ELSE 0)
<1> DEFINE A == ApprovedIn(c, row)
           B == ApprovedIn(c, row')
           was == StatusOf(row[e]) = "approved"
           is == StatusOf(r) = "approved"
<1>1. row \in [Enrolments -> Row \cup {None}] /\ None # "approved"
  BY ConstantsAssumption DEF TypeInv, TypeOK, Statuses
<1>2. \A f \in Enrolments \ {e} : row'[f] = row[f]
  BY <1>1
<1>3. row'[e] = r
  BY <1>1
<1>4. /\ e \in A <=> c = e[2] /\ was
      /\ e \in B <=> c = e[2] /\ is
  BY <1>1, <1>3 DEF ApprovedIn, StatusOf
<1>5. \A f \in Enrolments \ {e} : f \in A <=> f \in B
  BY <1>2 DEF ApprovedIn
<1>6. A \subseteq Enrolments /\ B \subseteq Enrolments
  BY DEF ApprovedIn
<1>7. IsFiniteSet(A) /\ Cardinality(A) \in Nat
  BY Finite
<1>8. CASE c = e[2] /\ ~was /\ is
  <2>1. B = A \cup {e} /\ e \notin A
    BY <1>4, <1>5, <1>6, <1>8
  <2>2. Cardinality(B) = Cardinality(A) + 1
    BY <1>7, <2>1, FS_AddElement
  <2>3. SeatChange(StatusOf(row[e]), StatusOf(r)) = 1
    BY <1>8 DEF SeatChange
  <2>4. QED
    BY <1>8, <2>2, <2>3
<1>9. CASE c = e[2] /\ was /\ ~is
  <2>1. B = A \ {e} /\ e \in A
    BY <1>4, <1>5, <1>6, <1>9
  <2>2. Cardinality(B) = Cardinality(A) - 1
    BY <1>7, <2>1, FS_RemoveElement
  <2>3. SeatChange(StatusOf(row[e]), StatusOf(r)) = -1
    BY <1>9 DEF SeatChange
  <2>4. QED
    BY <1>7, <1>9, <2>2, <2>3
<1>10. CASE c # e[2] \/ (was <=> is)
  <2>1. B = A
    <3>1. e \in A <=> e \in B
      BY <1>4, <1>10
    <3>2. \A f \in Enrolments : f \in A <=> f \in B
      BY <1>5, <3>1
    <3>3. QED
      BY <1>6, <3>2
  <2>2. (IF c = e[2] THEN SeatChange(StatusOf(row[e]), StatusOf(r)) ELSE 0) = 0
    BY <1>10 DEF SeatChange
  <2>3. QED
    BY <1>7, <2>1, <2>2
<1>11. QED
  BY <1>8, <1>9, <1>10

LEMMA OwedSame ==
    ASSUME NEW w \in Workers, \A v \in Workers \ {w} : req'[v] = req[v],
           ~At(w, "count"), req'[w].at # "count", NEW c
    PROVE  Owed(c)' = Owed(c)
  BY DEF Owed, At

\* The numbers of a course.
LEMMA Numbers ==
    ASSUME TypeInv, NEW c \in Courses
    PROVE  /\ seats[c] \in Int /\ missing[c] \in Nat /\ surplus[c] \in Nat
           /\ Cardinality(Owed(c)) \in Nat /\ Cardinality(ApprovedIn(c, row)) \in Nat
  BY Finite DEF TypeInv, TypeOK

\* Steps that change neither approvals, nor seats, nor what is owed.
LEMMA BalanceSame ==
    ASSUME CountInv, NEW c \in Courses, UNCHANGED <<seats, missing, surplus>>,
           Owed(c)' = Owed(c), ApprovedIn(c, row') = ApprovedIn(c, row)
    PROVE  Balanced(c)'
  BY DEF CountInv, Balanced

\* A transaction counts the seat by the status that was read; if the row has
\* another by now, the difference is recorded.
LEMMA BalanceWritten ==
    ASSUME CountInv, TypeInv', NEW w \in Workers, ~At(w, "idle"), ~At(w, "account"),
           ~At(w, "count"), Done(w), Found(w), NEW r \in Row \cup {None},
           row' = [row EXCEPT ![req[w].on] = r],
           seats' = [seats EXCEPT ![req[w].on[2]] = @ + SeatChange(req[w].was, StatusOf(r))],
           StaleRead(w), NEW c \in Courses
    PROVE  Balanced(c)'
<1> DEFINE e == req[w].on
           was == req[w].was = "approved"
           is == row[e].status = "approved"
           to == StatusOf(r) = "approved"
<1>1. TypeInv /\ e \in Enrolments /\ e[2] \in Courses
  BY Busy, CourseOf DEF CountInv
<1>2. StatusOf(row[e]) = row[e].status
  BY DEF Found, StatusOf
<1>3. Cardinality(ApprovedIn(c, row')) = Cardinality(ApprovedIn(c, row))
        + (IF c = e[2] THEN SeatChange(row[e].status, StatusOf(r)) ELSE 0)
  BY <1>1, <1>2, ApprovalsChange
<1>4. Owed(c)' = Owed(c)
  <2>1. req'[w].at = "idle" /\ \A v \in Workers \ {w} : req'[v] = req[v]
    BY <1>1 DEF Done, Idle, Serving, TypeInv, TypeOK
  <2>2. QED
    BY <2>1, OwedSame
<1>5. seats[c] + Cardinality(Owed(c)) + missing[c] = Cardinality(ApprovedIn(c, row)) + surplus[c]
  BY DEF CountInv, Balanced
<1>6. CASE c # e[2]
  <2>1. seats'[c] = seats[c] /\ missing'[c] = missing[c] /\ surplus'[c] = surplus[c]
    BY <1>1, <1>6 DEF StaleRead, TypeInv, TypeOK
  <2>2. Cardinality(ApprovedIn(c, row')) = Cardinality(ApprovedIn(c, row))
    BY <1>1, <1>3, <1>6, Numbers
  <2>3. QED
    BY <1>4, <1>5, <2>1, <2>2 DEF Balanced
<1>7. CASE c = e[2]
  <2>1. seats'[c] = seats[c] + SeatChange(req[w].was, StatusOf(r))
    BY <1>1, <1>7 DEF TypeInv, TypeOK
  <2>2. missing'[c] = missing[c] + (IF was /\ ~is THEN 1 ELSE 0)
    BY <1>1, <1>7, Numbers DEF StaleRead, TypeInv, TypeOK
  <2>3. surplus'[c] = surplus[c] + (IF is /\ ~was THEN 1 ELSE 0)
    BY <1>1, <1>7, Numbers DEF StaleRead, TypeInv, TypeOK
  <2>4. Cardinality(ApprovedIn(c, row')) = Cardinality(ApprovedIn(c, row))
          + SeatChange(row[e].status, StatusOf(r))
    BY <1>3, <1>7
  <2>5. /\ SeatChange(req[w].was, StatusOf(r)) = (IF to THEN 1 ELSE 0) - (IF was THEN 1 ELSE 0)
        /\ SeatChange(row[e].status, StatusOf(r)) = (IF to THEN 1 ELSE 0) - (IF is THEN 1 ELSE 0)
    BY DEF SeatChange
  <2>6. seats'[c] + Cardinality(Owed(c)) + missing'[c]
          = Cardinality(ApprovedIn(c, row')) + surplus'[c]
    <3> HIDE DEF was, is, to
    <3>1. QED
      BY <1>1, <1>5, <2>1, <2>2, <2>3, <2>4, <2>5, Numbers
  <2>7. QED
    BY <1>4, <2>6 DEF Balanced
<1>8. QED
  BY <1>6, <1>7

\* A transaction that finds its row gone, or another, changes nothing.
LEMMA BalanceRolledBack ==
    ASSUME CountInv, NEW w \in Workers, ~At(w, "count"), Done(w),
           UNCHANGED <<row, seats, missing, surplus>>, NEW c \in Courses
    PROVE  Balanced(c)'
<1>1. req'[w].at = "idle" /\ \A v \in Workers \ {w} : req'[v] = req[v]
  BY DEF Done, Idle, Serving, CountInv, TypeInv, TypeOK
<1>2. QED
  BY <1>1, OwedSame, BalanceSame

\* Statements that leave the seats alone record whose approval they change.
LEMMA BalanceUntouched ==
    ASSUME CountInv, SeatsUntouched, NEW c \in Courses, Owed(c)' = Owed(c)
    PROVE  Balanced(c)'
<1> DEFINE A == ApprovedIn(c, row)
           B == ApprovedIn(c, row')
           n == Cardinality(A \cap B)
<1>1. /\ Cardinality(B \ A) = Cardinality(B) - n
      /\ Cardinality(A \ B) = Cardinality(A) - n
  <2>1. A \cap B = B \cap A
    OBVIOUS
  <2>2. QED
    BY <2>1, Finite, FS_Difference
<1>2. Cardinality(A) \in Nat /\ Cardinality(B) \in Nat /\ n \in Nat
  BY Finite, FS_Intersection, FS_CardinalityType
<1>3. seats[c] + Cardinality(Owed(c)) + missing[c] = Cardinality(A) + surplus[c]
  BY DEF CountInv, Balanced
<1>4. /\ seats'[c] = seats[c]
      /\ missing'[c] = missing[c] + Cardinality(B \ A)
      /\ surplus'[c] = surplus[c] + Cardinality(A \ B)
  BY DEF SeatsUntouched
<1>5. /\ seats[c] \in Int /\ Cardinality(Owed(c)) \in Nat
      /\ missing[c] \in Nat /\ surplus[c] \in Nat
  BY Numbers DEF CountInv
<1>6. seats'[c] + Cardinality(Owed(c)) + missing'[c] = Cardinality(B) + surplus'[c]
  <2> HIDE DEF A, B, n
  <2>1. QED
    BY <1>1, <1>2, <1>3, <1>4, <1>5
<1>7. QED
  BY <1>6 DEF Balanced

\* What a request that reads, ends or goes on does to the seats that are owed.
LEMMA DoneOwes ==
    ASSUME TypeInv, NEW w \in Workers, Done(w)
    PROVE  req'[w].at = "idle" /\ \A v \in Workers \ {w} : req'[v] = req[v]
  BY DEF Done, Idle, Serving, TypeInv, TypeOK

LEMMA GotoOwes ==
    ASSUME TypeInv, NEW w \in Workers, NEW at, NEW id,
           req' = [req EXCEPT ![w].at = at, ![w].id = id]
    PROVE  /\ req'[w].at = at /\ req'[w].on = req[w].on
           /\ \A v \in Workers \ {w} : req'[v] = req[v]
<1>1. req[w] \in Request
  BY DEF TypeInv, TypeOK
<1>2. /\ [req[w] EXCEPT !.at = at, !.id = id].at = at
      /\ [req[w] EXCEPT !.at = at, !.id = id].on = req[w].on
  BY <1>1 DEF Request
<1>3. req'[w] = [req[w] EXCEPT !.at = at, !.id = id]
  BY DEF TypeInv, TypeOK
<1>4. \A v \in Workers \ {w} : req'[v] = req[v]
  BY DEF TypeInv, TypeOK
<1>5. QED
  BY <1>2, <1>3, <1>4

LEMMA NextOwes ==
    ASSUME TypeInv, NEW w \in Workers, SpecNext(w)
    PROVE  /\ req'[w].at \in {"idle", "find"}
           /\ \A v \in Workers \ {w} : req'[v] = req[v]
<1>1. CASE req[w].left = {}
  BY <1>1, DoneOwes DEF SpecNext
<1>2. CASE req[w].left # {}
  <2>1. PICK c \in req[w].left :
          req' = [req EXCEPT ![w] = Serving("find", <<req[w].on[1], c>>,
                                    0, None, None, req[w].left \ {c})]
    BY <1>2 DEF SpecNext
  <2>2. QED
    BY <2>1 DEF Serving, TypeInv, TypeOK
<1>3. QED
  BY <1>1, <1>2

LEMMA ReadKeeps ==
    ASSUME CountInv, NEW w \in Workers, NEW e, NEW at, NEW to, Read(w, e, at, to),
           at # "count", NEW c \in Courses
    PROVE  Balanced(c)'
<1>1. /\ req'[w].at = at /\ ~At(w, "count")
      /\ \A v \in Workers \ {w} : req'[v] = req[v]
  BY DEF Read, Serving, At, CountInv, TypeInv, TypeOK
<1>2. UNCHANGED <<row, seats, missing, surplus>>
  BY DEF Read, tables, history
<1>3. QED
  BY <1>1, <1>2, OwedSame, BalanceSame

\* A specialization owes the seat of the enrolment it has made until it is
\* counted or lost.
LEMMA OwedLess ==
    ASSUME TypeInv, NEW w \in Workers, At(w, "count"), req'[w].at # "count",
           \A v \in Workers \ {w} : req'[v] = req[v], NEW c
    PROVE  Cardinality(Owed(c)') = Cardinality(Owed(c)) - (IF c = req[w].on[2] THEN 1 ELSE 0)
<1>1. CASE c = req[w].on[2]
  <2>1. Owed(c)' = Owed(c) \ {w} /\ w \in Owed(c)
    BY <1>1 DEF Owed, At
  <2>2. Cardinality(Owed(c) \ {w}) = Cardinality(Owed(c)) - 1
    BY <2>1, Finite, FS_RemoveElement
  <2>3. QED
    BY <1>1, <2>1, <2>2
<1>2. CASE c # req[w].on[2]
  <2>1. Owed(c)' = Owed(c)
    BY <1>2 DEF Owed, At
  <2>2. QED
    BY <1>2, <2>1, Finite
<1>3. QED
  BY <1>1, <1>2

LEMMA OwedMore ==
    ASSUME TypeInv, NEW w \in Workers, ~At(w, "count"), req'[w].at = "count",
           req'[w].on = req[w].on, \A v \in Workers \ {w} : req'[v] = req[v], NEW c
    PROVE  Cardinality(Owed(c)') = Cardinality(Owed(c)) + (IF c = req[w].on[2] THEN 1 ELSE 0)
<1>1. CASE c = req[w].on[2]
  <2>1. Owed(c)' = Owed(c) \cup {w} /\ w \notin Owed(c)
    BY <1>1 DEF Owed, At
  <2>2. Cardinality(Owed(c) \cup {w}) = Cardinality(Owed(c)) + 1
    BY <2>1, Finite, FS_AddElement
  <2>3. QED
    BY <1>1, <2>1, <2>2
<1>2. CASE c # req[w].on[2]
  <2>1. Owed(c)' = Owed(c)
    BY <1>2 DEF Owed, At
  <2>2. QED
    BY <1>2, <2>1, Finite
<1>3. QED
  BY <1>1, <1>2

\* A new row of status s takes the approvals up by one, or leaves them.
LEMMA Inserted ==
    ASSUME TypeInv, NEW e \in Enrolments, Insertable(e), NEW r \in Row, Insert(e, r),
           NEW c \in Courses
    PROVE  Cardinality(ApprovedIn(c, row')) = Cardinality(ApprovedIn(c, row))
             + (IF c = e[2] /\ r.status = "approved" THEN 1 ELSE 0)
<1>1. row' = [row EXCEPT ![e] = r] /\ row[e] = None
  BY DEF Insert, Insertable
<1>2. StatusOf(None) = None /\ StatusOf(r) = r.status /\ None # "approved"
  BY ConstantsAssumption DEF StatusOf, Statuses
<1>3. Cardinality(ApprovedIn(c, row')) = Cardinality(ApprovedIn(c, row))
        + (IF c = e[2] THEN SeatChange(StatusOf(row[e]), StatusOf(r)) ELSE 0)
  BY <1>1, ApprovalsChange
<1>4. SeatChange(None, r.status) = IF r.status = "approved" THEN 1 ELSE 0
  BY <1>2 DEF SeatChange
<1>5. QED
  BY <1>1, <1>2, <1>3, <1>4

\* The equation is kept by every step.
LEMMA CountStep ==
    ASSUME CountInv, [Next]_vars
    PROVE  CountInv'
<1>0. TypeInv /\ TypeInv'
  BY StepType DEF CountInv
<1> SUFFICES ASSUME NEW c \in Courses PROVE Balanced(c)'
  BY <1>0 DEF CountInv
<1>n. /\ seats[c] \in Int /\ missing[c] \in Nat /\ surplus[c] \in Nat
      /\ Cardinality(Owed(c)) \in Nat /\ Cardinality(ApprovedIn(c, row)) \in Nat
      /\ seats[c] + Cardinality(Owed(c)) + missing[c]
           = Cardinality(ApprovedIn(c, row)) + surplus[c]
  BY <1>0, Numbers DEF CountInv, Balanced
<1>1. ASSUME NEW w \in Workers, NEW e \in Enrolments, Begin(w, e) PROVE Balanced(c)'
  BY <1>1, ReadKeeps DEF Begin, EnrollStart, CheckoutRead, StatusRead, DeleteRead
<1>2. ASSUME NEW w \in Workers, EnrollCheckCapacity(w) PROVE Balanced(c)'
  <2>1. ~At(w, "count") /\ UNCHANGED <<row, seats, missing, surplus>>
    BY <1>2 DEF EnrollCheckCapacity, At, tables, history
  <2>2. Done(w) \/ req' = [req EXCEPT ![w].at = "create", ![w].id = req[w].id]
    BY <1>0, <1>2 DEF EnrollCheckCapacity, Done, TypeInv, TypeOK, Request
  <2>3. req'[w].at # "count" /\ \A v \in Workers \ {w} : req'[v] = req[v]
    BY <1>0, <2>2, DoneOwes, GotoOwes
  <2>4. QED
    BY <2>1, <2>3, OwedSame, BalanceSame
<1>3. ASSUME NEW w \in Workers, EnrollCreate(w) PROVE Balanced(c)'
  <2>1. /\ ~At(w, "count") /\ ~At(w, "idle") /\ ~At(w, "account") /\ Done(w)
        /\ UNCHANGED <<seats, missing, surplus>>
    BY <1>3 DEF EnrollCreate, At, history
  <2>2. req[w].on \in Enrolments
    BY <1>0, <2>1, Busy
  <2>3. CASE Insertable(req[w].on)
    <3>1. New \in Row /\ New.status = "pending" /\ Insert(req[w].on, New)
      BY <1>3, <2>3, RowType DEF EnrollCreate, New, Statuses, Payments
    <3>2. Cardinality(ApprovedIn(c, row')) = Cardinality(ApprovedIn(c, row))
      BY <1>0, <1>n, <2>2, <2>3, <3>1, Inserted
    <3>3. Owed(c)' = Owed(c)
      BY <1>0, <2>1, DoneOwes, OwedSame
    <3>4. QED
      BY <1>n, <2>1, <3>2, <3>3 DEF Balanced
  <2>4. CASE ~Insertable(req[w].on)
    BY <1>3, <2>1, <2>4, BalanceRolledBack DEF EnrollCreate
  <2>5. QED
    BY <2>3, <2>4
<1>4. ASSUME NEW w \in Workers, CheckoutPay(w) PROVE Balanced(c)'
  <2> DEFINE r == [status |-> "approved", payment |-> "paid"]
  <2>1. /\ ~At(w, "count") /\ ~At(w, "idle") /\ ~At(w, "account") /\ Done(w)
        /\ r \in Row
    BY <1>4, RowType DEF CheckoutPay, At, Statuses, Payments
  <2>2. StatusOf(r) = "approved"
    BY <2>1, ConstantsAssumption DEF StatusOf
  <2>3. CASE Found(w)
    BY <1>0, <1>4, <2>1, <2>2, <2>3, BalanceWritten DEF CheckoutPay
  <2>4. CASE ~Found(w)
    BY <1>4, <2>1, <2>4, BalanceRolledBack DEF CheckoutPay
  <2>5. QED
    BY <2>3, <2>4
<1>5. ASSUME NEW w \in Workers, StatusWrite(w) PROVE Balanced(c)'
  <2> DEFINE e == req[w].on
             r == [row[e] EXCEPT !.status = req[w].to]
  <2>1. /\ ~At(w, "count") /\ ~At(w, "idle") /\ ~At(w, "account") /\ Done(w)
        /\ e \in Enrolments /\ req[w].to \in Statuses
    BY <1>0, <1>5, Busy DEF StatusWrite, At
  <2>2. CASE Found(w)
    <3>1. r \in Row /\ StatusOf(r) = req[w].to
      <4>1. row[e] \in Row
        BY <1>0, <2>1, <2>2 DEF Found, TypeInv, TypeOK
      <4>2. r \in Row /\ r.status = req[w].to
        BY <2>1, <4>1 DEF Row
      <4>3. QED
        BY <4>2, ConstantsAssumption DEF StatusOf
    <3>2. /\ row' = [row EXCEPT ![e] = r] /\ StaleRead(w)
          /\ seats' = [seats EXCEPT ![e[2]] = @ + SeatChange(req[w].was, req[w].to)]
      BY <1>5, <2>2 DEF StatusWrite
    <3>3. QED
      BY <1>0, <2>1, <2>2, <3>1, <3>2, BalanceWritten
  <2>3. CASE ~Found(w)
    BY <1>5, <2>1, <2>3, BalanceRolledBack DEF StatusWrite, history
  <2>4. QED
    BY <2>2, <2>3
<1>6. ASSUME NEW w \in Workers, DeleteRow(w) PROVE Balanced(c)'
  <2>1. ~At(w, "count") /\ ~At(w, "idle") /\ ~At(w, "account") /\ Done(w)
    BY <1>6 DEF DeleteRow, At
  <2>2. StatusOf(None) = None
    BY DEF StatusOf
  <2>3. CASE Found(w)
    BY <1>0, <1>6, <2>1, <2>2, <2>3, BalanceWritten DEF DeleteRow
  <2>4. CASE ~Found(w)
    BY <1>6, <2>1, <2>4, BalanceRolledBack DEF DeleteRow
  <2>5. QED
    BY <2>3, <2>4
<1>7. ASSUME NEW w \in Workers, SpecStart(w) PROVE Balanced(c)'
  <2>1. /\ req'[w].at = "find" /\ ~At(w, "count")
        /\ \A v \in Workers \ {w} : req'[v] = req[v]
    BY <1>0, <1>7 DEF SpecStart, Serving, At, TypeInv, TypeOK
  <2>2. UNCHANGED <<row, seats, missing, surplus>>
    BY <1>7 DEF SpecStart, tables, history
  <2>3. QED
    BY <2>1, <2>2, OwedSame, BalanceSame
<1>8. ASSUME NEW w \in Workers, SpecFind(w) PROVE Balanced(c)'
  <2>1. PICK at \in {"fill", "lift"} :
          req' = [req EXCEPT ![w].at = at, ![w].id = rows[req[w].on]]
    BY <1>8 DEF SpecFind
  <2>2. ~At(w, "count") /\ UNCHANGED <<row, seats, missing, surplus>>
    BY <1>8 DEF SpecFind, At, tables, history
  <2>3. QED
    BY <1>0, <2>1, <2>2, GotoOwes, OwedSame, BalanceSame
<1>9. ASSUME NEW w \in Workers, SpecCreate(w) PROVE Balanced(c)'
  <2> DEFINE e == req[w].on
             r == [status |-> "approved", payment |-> "paid"]
  <2>1. /\ ~At(w, "count") /\ ~At(w, "idle") /\ ~At(w, "account")
        /\ UNCHANGED <<seats, missing, surplus>>
    BY <1>9 DEF SpecCreate, At, history
  <2>2. e \in Enrolments /\ r \in Row
    BY <1>0, <2>1, Busy, RowType DEF Statuses, Payments
  <2>3. CASE Insertable(e)
    <3>1. Insert(e, r) /\ req' = [req EXCEPT ![w].at = "count", ![w].id = req[w].id]
      BY <1>0, <1>9, <2>3 DEF SpecCreate, TypeInv, TypeOK, Request
    <3>2. Cardinality(ApprovedIn(c, row')) = Cardinality(ApprovedIn(c, row))
            + (IF c = e[2] THEN 1 ELSE 0)
      BY <1>0, <2>2, <2>3, <3>1, Inserted
    <3>3. Cardinality(Owed(c)') = Cardinality(Owed(c)) + (IF c = e[2] THEN 1 ELSE 0)
      BY <1>0, <2>1, <3>1, GotoOwes, OwedMore
    <3>4. seats'[c] + Cardinality(Owed(c)') + missing'[c]
            = Cardinality(ApprovedIn(c, row')) + surplus'[c]
      <4>1. CASE c = e[2]
        BY <1>n, <2>1, <3>2, <3>3, <4>1
      <4>2. CASE c # e[2]
        BY <1>n, <2>1, <3>2, <3>3, <4>2
      <4>3. QED
        BY <4>1, <4>2
    <3>5. QED
      BY <3>4 DEF Balanced
  <2>4. CASE ~Insertable(e)
    BY <1>9, <2>1, <2>4, BalanceRolledBack DEF SpecCreate
  <2>5. QED
    BY <2>3, <2>4
<1>10. ASSUME NEW w \in Workers, SpecCount(w) PROVE Balanced(c)'
  <2> DEFINE e == req[w].on
  <2>1. At(w, "count") /\ SpecNext(w) /\ UNCHANGED <<row, missing, surplus>>
    BY <1>10 DEF SpecCount
  <2>2. e[2] \in Courses
    BY <1>0, <2>1, Busy, CourseOf DEF At
  <2>3. seats'[c] = seats[c] + (IF c = e[2] THEN 1 ELSE 0)
    BY <1>0, <1>10, <2>2 DEF SpecCount, TypeInv, TypeOK
  <2>4. Cardinality(Owed(c)') = Cardinality(Owed(c)) - (IF c = e[2] THEN 1 ELSE 0)
    BY <1>0, <2>1, NextOwes, OwedLess
  <2>5. QED
    BY <1>n, <2>1, <2>3, <2>4 DEF Balanced
<1>11. ASSUME NEW w \in Workers, SpecUpdate(w) PROVE Balanced(c)'
  <2>1. ~At(w, "count") /\ SeatsUntouched
    BY <1>11 DEF SpecUpdate, At
  <2>2. req'[w].at # "count" /\ \A v \in Workers \ {w} : req'[v] = req[v]
    BY <1>0, <1>11, DoneOwes, NextOwes DEF SpecUpdate
  <2>3. QED
    BY <2>1, <2>2, OwedSame, BalanceUntouched
<1>12. ASSUME NEW w \in Workers, Fail(w) PROVE Balanced(c)'
  <2>1. Done(w) /\ UNCHANGED <<row, seats, surplus>>
    BY <1>12 DEF Fail, tables
  <2>2. CASE ~At(w, "count")
    BY <1>12, <2>1, <2>2, BalanceRolledBack DEF Fail
  <2>3. CASE At(w, "count")
    <3>1. req[w].on[2] \in Courses
      BY <1>0, <2>3, Busy, CourseOf DEF At
    <3>2. missing'[c] = missing[c] + (IF c = req[w].on[2] THEN 1 ELSE 0)
      BY <1>0, <1>12, <2>3, <3>1, <1>n DEF Fail, TypeInv, TypeOK
    <3>3. Cardinality(Owed(c)') = Cardinality(Owed(c)) - (IF c = req[w].on[2] THEN 1 ELSE 0)
      BY <1>0, <2>1, <2>3, DoneOwes, OwedLess
    <3>4. seats'[c] + Cardinality(Owed(c)') + missing'[c]
            = Cardinality(ApprovedIn(c, row')) + surplus'[c]
      <4>1. CASE c = req[w].on[2]
        BY <1>n, <2>1, <3>2, <3>3, <4>1
      <4>2. CASE c # req[w].on[2]
        BY <1>n, <2>1, <3>2, <3>3, <4>2
      <4>3. QED
        BY <4>1, <4>2
    <3>5. QED
      BY <3>4 DEF Balanced
  <2>4. QED
    BY <2>2, <2>3
<1>13. ASSUME NEW e \in Enrolments, AidApply(e) \/ AidDecide(e) PROVE Balanced(c)'
  <2>1. SeatsUntouched /\ UNCHANGED req
    BY <1>13 DEF AidApply, Upsert, AidDecide
  <2>2. QED
    BY <2>1, BalanceUntouched DEF Owed, At
<1>14. ASSUME NEW w \in Workers, NEW u \in Users, DeleteEnrolments(w, u) PROVE Balanced(c)'
  <2>1. /\ req'[w].at = "account" /\ ~At(w, "count") /\ SeatsUntouched
        /\ \A v \in Workers \ {w} : req'[v] = req[v]
    BY <1>0, <1>14 DEF DeleteEnrolments, Serving, At, TypeInv, TypeOK
  <2>2. QED
    BY <2>1, OwedSame, BalanceUntouched
<1>15. ASSUME NEW w \in Workers, DeleteAccount(w) PROVE Balanced(c)'
  <2>1. ~At(w, "count") /\ SeatsUntouched /\ Done(w)
    BY <1>15 DEF DeleteAccount, At
  <2>2. QED
    BY <1>0, <2>1, DoneOwes, OwedSame, BalanceUntouched
<1>16. ASSUME UNCHANGED vars PROVE Balanced(c)'
  BY <1>16, BalanceSame DEF vars, tables, history, Owed, At
<1>17. QED
  BY <1>1, <1>2, <1>3, <1>4, <1>5, <1>6, <1>7, <1>8, <1>9, <1>10, <1>11, <1>12,
     <1>13, <1>14, <1>15, <1>16 DEF Next, Serve

\* enrolled_count differs from the approved enrolments by exactly the approvals
\* that came or went without it, the requests that went by a stale status, and
\* the specializations that failed before they counted.
THEOREM SeatsAreCounted == Spec => []SeatsMatch
<1>1. Init => CountInv
  <2> SUFFICES ASSUME Init PROVE CountInv
    OBVIOUS
  <2>1. TypeInv
    BY InitType
  <2>2. ASSUME NEW c \in Courses PROVE Balanced(c)
    <3>1. Owed(c) = {}
      BY DEF Init, Owed, At, Idle, Serving
    <3>2. ApprovedIn(c, row) = {}
      BY DEF Init, ApprovedIn, New
    <3>3. seats[c] = 0 /\ missing[c] = 0 /\ surplus[c] = 0
      BY DEF Init
    <3>4. QED
      BY <3>1, <3>2, <3>3, FS_EmptySet DEF Balanced
  <2>3. QED
    BY <2>1, <2>2 DEF CountInv
<1>2. CountInv /\ [Next]_vars => CountInv'
  BY CountStep
<1>3. CountInv => SeatsMatch
  BY DEF CountInv, Balanced, SeatsMatch
<1>4. QED
  BY <1>1, <1>2, <1>3, PTL DEF Spec
=============================================================================

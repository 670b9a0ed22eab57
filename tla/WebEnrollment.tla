---------------------------- MODULE WebEnrollment ----------------------------
(***************************************************************************)
(* Enrolments and seats of the Next.js portal (learnnov-web/src/app/api):  *)
(* every endpoint that writes an Enrollment or Course.enrolled_count.      *)
(*                                                                         *)
(* A request awaits each of its statements, and the requests of other      *)
(* workers go on in between; req holds what a request read.  An            *)
(* interactive transaction locks the rows it updates and commits as one    *)
(* step; when the row it updates is gone it rolls back, and the request    *)
(* ends.  Answers that change nothing (404, 409, the early returns) are    *)
(* requests that do not begin.                                             *)
(*                                                                         *)
(* An enrolment is a pair of a user and a course (unique in the schema);   *)
(* the id of its row is how many rows the pair has had, so that the row    *)
(* made after a deletion is another one.                                   *)
(***************************************************************************)
EXTENDS Integers, FiniteSets

CONSTANTS
    Users, Courses, Capacity,
    Enrolments,     \* the pairs of a user and a course there are requests for
    Track,          \* the courses findMany({take: 3}) returns
    Workers,        \* requests in service at a time
    MaxRequests,    \* requests that are made (a bound, for TLC)
    None

\* The column is a string, and one endpoint stores any: "other" is the rest.
Statuses == {"pending", "approved", "rejected", "other"}
Payments == {"unpaid", "paid", "aid_requested"}
Row == [status : Statuses, payment : Payments]

ASSUME ConstantsAssumption ==
    /\ Enrolments \subseteq Users \X Courses
    /\ IsFiniteSet(Enrolments) /\ IsFiniteSet(Workers) /\ Workers # {}
    /\ Capacity \in [Courses -> Nat \ {0}]
    /\ Track \subseteq Courses
    /\ MaxRequests \in Nat
    /\ None \notin Row \cup Statuses

VARIABLES
    accounts,   \* users that exist
    row,        \* Enrollment: status and payment_status, or None
    rows,       \* rows an enrolment has had: the id of its last one
    seats,      \* Course.enrolled_count
    req,        \* per worker: the request in service
    requests,   \* how many requests have been made
    granted,    \* history: seats given without looking at the capacity
    missing,    \* history: seats that were not counted for an approval, or
                \* were given back twice
    surplus     \* history: seats that were counted twice, or not given back

tables == <<accounts, row, rows, seats>>
history == <<granted, missing, surplus>>
vars == <<tables, req, requests, history>>

Steps == {"idle", "course", "create", "pay", "set", "delete",
          "find", "fill", "count", "lift", "account"}
\* on: the enrolment, or the user who is deleted; id, was: the row and its status when it was read;
\* to: the status asked for; left: the courses of the track still to do.
Request == [at : Steps, on : Enrolments \cup Users \cup {None}, id : Nat,
            was : Statuses \cup {None}, to : Statuses \cup {None},
            left : SUBSET Courses]
Serving(at, e, id, was, to, left) ==
    [at |-> at, on |-> e, id |-> id, was |-> was, to |-> to, left |-> left]
Idle == Serving("idle", None, 0, None, None, {})

\* An application that waits for its payment.
New == [status |-> "pending", payment |-> "unpaid"]

Init ==
    /\ accounts = Users
    /\ row \in [Enrolments -> {None, New}]
    /\ rows = [e \in Enrolments |-> IF row[e] = None THEN 0 ELSE 1]
    /\ seats = [c \in Courses |-> 0]
    /\ req = [w \in Workers |-> Idle]
    /\ requests = 0
    /\ granted = [c \in Courses |-> 0]
    /\ missing = [c \in Courses |-> 0]
    /\ surplus = [c \in Courses |-> 0]
-----------------------------------------------------------------------------
At(w, step) == req[w].at = step

\* The row a request read is still there.
Found(w) == row[req[w].on] # None /\ rows[req[w].on] = req[w].id

Done(w) == req' = [req EXCEPT ![w] = Idle]

Arrive == requests < MaxRequests /\ requests' = requests + 1

\* Read the row of e, and go on with the statement at.
Read(w, e, at, to) ==
    /\ At(w, "idle")
    /\ Arrive
    /\ LET was == IF row[e] = None THEN None ELSE row[e].status
       IN req' = [req EXCEPT ![w] = Serving(at, e, rows[e], was, to, {})]
    /\ UNCHANGED <<tables, history>>

\* INSERT: fails if the enrolment has a row or the user is gone.
Insertable(e) == row[e] = None /\ e[1] \in accounts

Insert(e, r) ==
    /\ row' = [row EXCEPT ![e] = r]
    /\ rows' = [rows EXCEPT ![e] = @ + 1]

\* The change of enrolled_count: it goes by the status that was read.
SeatChange(was, to) ==
    IF was # "approved" /\ to = "approved" THEN 1
    ELSE IF was = "approved" /\ to # "approved" THEN -1 ELSE 0

ApprovedIn(c, table) ==
    {e \in Enrolments : e[2] = c /\ table[e] # None
                        /\ table[e].status = "approved"}

\* Request w writes a row and its seat, going by a status it read before: if the
\* row has been approved since, the seat is not the row's own, and if the row
\* has lost its approval since, its seat is missing.
StaleRead(w) ==
    LET e == req[w].on
        was == req[w].was = "approved"
        is == row[e].status = "approved"
    IN /\ surplus' = IF is /\ ~was THEN [surplus EXCEPT ![e[2]] = @ + 1] ELSE surplus
       /\ missing' = IF was /\ ~is THEN [missing EXCEPT ![e[2]] = @ + 1] ELSE missing

\* Statements that write enrolments and leave the seats alone.
SeatsUntouched ==
    /\ missing' = [c \in Courses |-> missing[c]
                     + Cardinality(ApprovedIn(c, row') \ ApprovedIn(c, row))]
    /\ surplus' = [c \in Courses |-> surplus[c]
                     + Cardinality(ApprovedIn(c, row) \ ApprovedIn(c, row'))]
    /\ UNCHANGED <<seats, granted>>
-----------------------------------------------------------------------------
(* POST enrollments: no row yet, a seat left, insert. *)

EnrollStart(w, e) ==
    /\ row[e] = None
    /\ Read(w, e, "course", None)

EnrollCheckCapacity(w) ==
    /\ At(w, "course")
    /\ LET c == req[w].on[2]
       IN req' = [req EXCEPT ![w] = IF seats[c] < Capacity[c]
                                    THEN [@ EXCEPT !.at = "create"] ELSE Idle]
    /\ UNCHANGED <<tables, requests, history>>

EnrollCreate(w) ==
    /\ At(w, "create")
    /\ LET e == req[w].on
       IN IF Insertable(e)
          THEN Insert(e, New)
          ELSE UNCHANGED <<row, rows>>
    /\ Done(w)
    /\ UNCHANGED <<accounts, seats, requests, history>>
-----------------------------------------------------------------------------
(* POST payments/checkout *)

\* Mutant: the capacity is not checked.
CheckoutReadUnchecked(w, e) ==
    /\ row[e] # None
    /\ row[e] # [status |-> "approved", payment |-> "paid"]
    /\ Read(w, e, "pay", "approved")

CheckoutRead(w, e) ==
    /\ row[e] # None
    /\ row[e] # [status |-> "approved", payment |-> "paid"]
    /\ seats[e[2]] < Capacity[e[2]]
    /\ Read(w, e, "pay", "approved")

CheckoutPay(w) ==
    /\ At(w, "pay")
    /\ LET e == req[w].on
       IN IF Found(w)
          THEN /\ row' = [row EXCEPT ![e] =
                            [status |-> "approved", payment |-> "paid"]]
               /\ seats' = [seats EXCEPT ![e[2]] =
                              @ + SeatChange(req[w].was, "approved")]
               /\ StaleRead(w)
          ELSE UNCHANGED <<row, seats, missing, surplus>>
    /\ Done(w)
    /\ UNCHANGED <<accounts, rows, requests, granted>>
-----------------------------------------------------------------------------
(* PUT enrollments/[id]/status and PATCH instructor/applications/[id]/review *)

StatusRead(w, e) ==
    /\ row[e] # None
    /\ \E to \in Statuses \ {"other"} : Read(w, e, "set", to)

StatusWrite(w) ==
    /\ At(w, "set")
    /\ LET e == req[w].on
           change == SeatChange(req[w].was, req[w].to)
       IN IF Found(w)
          THEN /\ row' = [row EXCEPT ![e].status = req[w].to]
               /\ seats' = [seats EXCEPT ![e[2]] = @ + change]
               /\ granted' = [granted EXCEPT ![e[2]] =
                                IF change = 1 THEN @ + 1 ELSE @]
               /\ StaleRead(w)
          ELSE UNCHANGED <<row, seats, history>>
    /\ Done(w)
    /\ UNCHANGED <<accounts, rows, requests>>
-----------------------------------------------------------------------------
(* DELETE enrollments/[id] *)

DeleteRead(w, e) ==
    /\ row[e] # None
    /\ Read(w, e, "delete", None)

\* Mutant: the seat of a deleted enrolment is not given back.
DeleteKeepsSeat(w) ==
    /\ At(w, "delete")
    /\ IF Found(w)
       THEN row' = [row EXCEPT ![req[w].on] = None] /\ StaleRead(w)
       ELSE UNCHANGED <<row, missing, surplus>>
    /\ Done(w)
    /\ UNCHANGED <<accounts, rows, seats, requests, granted>>

DeleteRow(w) ==
    /\ At(w, "delete")
    /\ LET e == req[w].on
       IN IF Found(w)
          THEN /\ row' = [row EXCEPT ![e] = None]
               /\ seats' = [seats EXCEPT ![e[2]] =
                              @ + SeatChange(req[w].was, None)]
               /\ StaleRead(w)
          ELSE UNCHANGED <<row, seats, missing, surplus>>
    /\ Done(w)
    /\ UNCHANGED <<accounts, rows, requests, granted>>
-----------------------------------------------------------------------------
(* POST programs/specializations/[slug]/enroll: course by course, each      *)
(* statement on its own; an exception ends the loop.                        *)

SpecStart(w) ==
    /\ At(w, "idle")
    /\ \E u \in accounts, c \in Track :
          /\ {u} \X Track \subseteq Enrolments
          /\ req' = [req EXCEPT ![w] =
                        Serving("find", <<u, c>>, 0, None, None, Track \ {c})]
    /\ Arrive
    /\ UNCHANGED <<tables, history>>

SpecFind(w) ==
    /\ At(w, "find")
    /\ LET e == req[w].on
       IN req' = [req EXCEPT ![w].at = IF row[e] = None THEN "fill" ELSE "lift",
                             ![w].id = rows[e]]
    /\ UNCHANGED <<tables, requests, history>>

\* On to the next course of the track.
SpecNext(w) ==
    IF req[w].left = {} THEN Done(w)
    ELSE \E c \in req[w].left :
            req' = [req EXCEPT ![w] = Serving("find", <<req[w].on[1], c>>,
                                              0, None, None, req[w].left \ {c})]

SpecCreate(w) ==
    /\ At(w, "fill")
    /\ LET e == req[w].on
       IN IF Insertable(e)
          THEN /\ Insert(e, [status |-> "approved", payment |-> "paid"])
               /\ req' = [req EXCEPT ![w].at = "count"]
          ELSE Done(w) /\ UNCHANGED <<row, rows>>
    /\ UNCHANGED <<accounts, seats, requests, history>>

SpecCount(w) ==
    /\ At(w, "count")
    /\ LET c == req[w].on[2]
       IN /\ seats' = [seats EXCEPT ![c] = @ + 1]
          /\ granted' = [granted EXCEPT ![c] = @ + 1]
    /\ SpecNext(w)
    /\ UNCHANGED <<accounts, row, rows, requests, missing, surplus>>

\* An enrolment that exists is approved; no seat is counted.
SpecUpdate(w) ==
    /\ At(w, "lift")
    /\ IF Found(w)
       THEN /\ row' = [row EXCEPT ![req[w].on] =
                         [status |-> "approved", payment |-> "paid"]]
            /\ SpecNext(w)
       ELSE Done(w) /\ UNCHANGED row
    /\ SeatsUntouched
    /\ UNCHANGED <<accounts, rows, requests>>
-----------------------------------------------------------------------------
(* Financial aid: endpoints of one statement *)

\* The upsert of apply.
Upsert(e, r) ==
    /\ Arrive
    /\ e[1] \in accounts
    /\ IF row[e] = None THEN Insert(e, r)
       ELSE row' = [row EXCEPT ![e] = r] /\ UNCHANGED rows
    /\ SeatsUntouched
    /\ UNCHANGED <<accounts, req>>

\* Mutant: the upsert stores the status as the payment's.
AidApplyAsPayment(e) == Upsert(e, [status |-> "pending", payment |-> "pending"])

\* POST programs/financial-aid/apply: also of a paid enrolment.
AidApply(e) == Upsert(e, [status |-> "pending", payment |-> "aid_requested"])

\* PUT admin/financial-aid/[id], which stores whatever status it is sent (and
\* approves without a payment when it is sent none), and PUT
\* financial-aid/review/[id].
AidDecide(e) ==
    /\ Arrive
    /\ row[e] # None
    /\ \E r \in Row :
          /\ r.payment # "aid_requested"
          /\ r.payment = "paid" => r.status = "approved"
          /\ row' = [row EXCEPT ![e] = r]
    /\ SeatsUntouched
    /\ UNCHANGED <<accounts, rows, req>>
-----------------------------------------------------------------------------
(* DELETE users/[id]: first the enrolments and then, after the certificates, *)
(* the account; what was enrolled in between goes with it (onDelete).        *)

Without(u) == [e \in Enrolments |-> IF e[1] = u THEN None ELSE row[e]]

DeleteEnrolments(w, u) ==
    /\ At(w, "idle")
    /\ Arrive
    /\ row' = Without(u)
    /\ req' = [req EXCEPT ![w] = Serving("account", u, 0, None, None, {})]
    /\ SeatsUntouched
    /\ UNCHANGED <<accounts, rows>>

DeleteAccount(w) ==
    /\ At(w, "account")
    /\ accounts' = accounts \ {req[w].on}
    /\ row' = Without(req[w].on)
    /\ Done(w)
    /\ SeatsUntouched
    /\ UNCHANGED <<rows, requests>>
-----------------------------------------------------------------------------
\* The process stops, a transaction times out or is the victim of a deadlock,
\* or the database fails: the statements still to come are not made.
Fail(w) ==
    /\ ~At(w, "idle")
    /\ Done(w)
    /\ missing' = IF At(w, "count") THEN [missing EXCEPT ![req[w].on[2]] = @ + 1]
                  ELSE missing
    /\ UNCHANGED <<tables, requests, granted, surplus>>

Serve(w) ==
    \/ EnrollCheckCapacity(w) \/ EnrollCreate(w) \/ CheckoutPay(w)
    \/ StatusWrite(w) \/ DeleteRow(w)
    \/ SpecFind(w) \/ SpecCreate(w) \/ SpecCount(w) \/ SpecUpdate(w)
    \/ DeleteAccount(w) \/ Fail(w)

Begin(w, e) ==
    EnrollStart(w, e) \/ CheckoutRead(w, e) \/ StatusRead(w, e) \/ DeleteRead(w, e)

Next ==
    \/ \E w \in Workers : Serve(w) \/ SpecStart(w)
    \/ \E w \in Workers, e \in Enrolments : Begin(w, e)
    \/ \E e \in Enrolments : AidApply(e) \/ AidDecide(e)
    \/ \E w \in Workers, u \in Users : DeleteEnrolments(w, u)

Spec == Init /\ [][Next]_vars
-----------------------------------------------------------------------------
TypeOK ==
    /\ accounts \subseteq Users
    /\ row \in [Enrolments -> Row \cup {None}]
    /\ rows \in [Enrolments -> Nat]
    /\ seats \in [Courses -> Int]
    /\ req \in [Workers -> Request]
    /\ requests \in 0 .. MaxRequests
    /\ granted \in [Courses -> Nat]
    /\ missing \in [Courses -> Nat]
    /\ surplus \in [Courses -> Nat]

\* Enrolments made by a specialization whose seat is not counted yet.
Owed(c) == {w \in Workers : At(w, "count") /\ req[w].on[2] = c}

\* enrolled_count is the number of approved enrolments, but for the approvals
\* that came or went by a statement that leaves the seats alone, the requests
\* that went by a status that another had changed, and the specializations that
\* failed before the seat was counted: each of them is off by one, and nothing
\* else ever is, in any overlap of requests, failures and deletions, and with new
\* rows made for deleted enrolments while a request on the old one is under way.
SeatsMatch ==
    \A c \in Courses :
        seats[c] + Cardinality(Owed(c)) + missing[c]
            = Cardinality(ApprovedIn(c, row)) + surplus[c]

\* The capacity is checked before the transaction: payments sell at most one
\* seat too many for every other request in service, in any overlap; the rest
\* are seats given by staff or by a specialization, which check nothing.
OversoldBound ==
    \A c \in Courses :
        seats[c] <= Capacity[c] + Cardinality(Workers) - 1 + granted[c]


\* programs/specializations/[slug]/enroll/route.ts:22 "Enroll user into the
\* courses of this specialization atomically": a request that ends has enrolled
\* its user in all of them, or made no statement that writes.
TrackIsAtomic ==
    [][\A w \in Workers :
         req[w].at \in {"find", "fill", "count", "lift"} /\ req'[w].at = "idle"
         => \/ \A c \in Track : <<req[w].on[1], c>> \in ApprovedIn(c, row')
            \/ ~At(w, "count") /\ req[w].left = Track \ {req[w].on[2]}]_vars
=============================================================================

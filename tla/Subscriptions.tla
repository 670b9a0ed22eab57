---------------------------- MODULE Subscriptions ----------------------------
(***************************************************************************)
(* The subscriptions of one student (learnnov-cloud/apps/                  *)
(* learnnov_payments): the rows of UserSubscription, the webhook that      *)
(* Stripe tells of checkouts, paid invoices and deleted subscriptions, and *)
(* the request that cancels a subscription.                                *)
(*                                                                         *)
(* Stripe delivers an event until it is answered with 200, at least once   *)
(* and within its Delay, in no order; an answered event may come again.    *)
(* A tick is long: no time passes while a request is in service.           *)
(* Moments are ticks from now: left is current_period_end, 0 for the past. *)
(*                                                                         *)
(* What Stripe bills and what the code grants are two things: Stripe bills *)
(* by the price, the code grants a month or a year by the plan, and a year *)
(* when the plan has been deleted.                                         *)
(***************************************************************************)
EXTENDS Integers, FiniteSets

CONSTANTS
    Subs,           \* subscriptions at Stripe the student may buy
    Billed,         \* ticks Stripe bills at once, by the price of the subscription
    Delay,          \* ticks within which an event of a subscription is delivered
    Plans,          \* SubscriptionPlan
    Plan,           \* the plan in the metadata of a subscription's checkout
    Monthly,        \* the plans with billing_cycle 'monthly'
    Month, Year,    \* ticks in 30 and in 365 days
    Workers,        \* processes that serve requests
    MaxRows,        \* rows of UserSubscription (a bound, for TLC)
    MaxDisturbances,    \* cancellations, kills, plans deleted (a bound, for TLC)
    None

ASSUME ConstantsAssumption ==
    /\ Delay \in [Subs -> Nat]
    /\ Billed \in [Subs -> Nat] /\ \A s \in Subs : Billed[s] > Delay[s]
    /\ Plan \in [Subs -> Plans] /\ Monthly \subseteq Plans
    /\ Month \in Nat /\ Year \in Nat /\ 0 < Month /\ Month <= Year
    /\ MaxRows \in Nat /\ MaxDisturbances \in Nat
    /\ None \notin Subs \cup Plans

VARIABLES
    table,      \* UserSubscription by id: a row or None
    stripe,     \* Stripe: state, ticks to the next renewal, cancelled
    events,     \* events not older than Delay
    plans,      \* the plans not deleted
    since,      \* history: ticks since the last payment, up to Limit
    req,        \* per process: the request in service
    disturbances    \* cancellations, kills and deleted plans so far

vars == <<table, stripe, events, plans, since, req, disturbances>>

RowIds == 1 .. MaxRows
Types == {"checkout", "invoice", "deleted"}
\* cancel_at_period_end is only shown, and left out.
Row == [sub : Subs, plan : Plans \cup {None}, status : {"active", "expired"}, left : Nat]
Event == [type : Types, sub : Subs, age : Nat, acked : BOOLEAN]
\* type, sub: the event in service; id, copy: the row that was read, as it is
\* to be saved.
Request == [at : {"idle", "create", "modify", "save"}, type : Types \cup {"cancel"},
            sub : Subs \cup {None}, id : RowIds \cup {0}, copy : Row \cup {None}]
Serving(at, type, s, i, copy) == [at |-> at, type |-> type, sub |-> s, id |-> i, copy |-> copy]
Idle == Serving("idle", "cancel", None, 0, None)

\* More than any event grants after a payment, so later ticks tell nothing.
Limit(s) == Year + Delay[s]

Init ==
    /\ table = [i \in RowIds |-> None]
    /\ stripe = [s \in Subs |-> [state |-> "none", due |-> 0, cancel |-> FALSE]]
    /\ events = {}
    /\ plans = Plans
    /\ since = [s \in Subs |-> Limit(s)]
    /\ req = [w \in Workers |-> Idle]
    /\ disturbances = 0
-----------------------------------------------------------------------------
(* Stripe and time *)

Send(type, s) == [type |-> type, sub |-> s, age |-> 0, acked |-> FALSE]

Pay(s) ==
    /\ stripe' = [stripe EXCEPT ![s].state = "live", ![s].due = Billed[s]]
    /\ since' = [since EXCEPT ![s] = 0]

\* The student completes a checkout; nothing asks for an earlier subscription.
Subscribe(s) ==
    /\ stripe[s].state = "none"
    /\ Pay(s)
    /\ events' = events \cup {Send("checkout", s), Send("invoice", s)}
    /\ UNCHANGED <<table, plans, req, disturbances>>

Renew(s) ==
    /\ stripe[s].state = "live" /\ stripe[s].due = 0 /\ ~stripe[s].cancel
    /\ Pay(s)
    /\ events' = events \cup {Send("invoice", s)}
    /\ UNCHANGED <<table, plans, req, disturbances>>

\* At the end of a cancelled or an unpaid period, or earlier by hand.
End(s) ==
    /\ stripe[s].state = "live"
    /\ stripe' = [stripe EXCEPT ![s] = [state |-> "ended", due |-> 0, cancel |-> FALSE]]
    /\ events' = events \cup {Send("deleted", s)}
    /\ UNCHANGED <<table, plans, since, req, disturbances>>

Less(n) == IF n = 0 THEN 0 ELSE n - 1

\* A period that is over is renewed or ended, and an event answered, in time.
Tick ==
    /\ \A w \in Workers : req[w].at = "idle"
    /\ \A s \in Subs : stripe[s].state = "live" => stripe[s].due > 0
    /\ \A e \in events : e.acked \/ e.age < Delay[e.sub]
    /\ table' = [i \in RowIds |-> IF table[i] = None THEN None
                                  ELSE [table[i] EXCEPT !.left = Less(@)]]
    /\ stripe' = [s \in Subs |-> [stripe[s] EXCEPT !.due = Less(@)]]
    /\ events' = {[e EXCEPT !.age = @ + 1] : e \in {f \in events : f.age < Delay[f.sub]}}
    /\ since' = [s \in Subs |-> IF since[s] < Limit(s) THEN since[s] + 1 ELSE since[s]]
    /\ UNCHANGED <<plans, req, disturbances>>
-----------------------------------------------------------------------------
(* StripeWebhookView *)

Rows == {i \in RowIds : table[i] # None}
Holder(s) == {i \in Rows : table[i].sub = s}

\* Answered with 200: of one subscription and type, one event is young enough.
Ack(type, s) ==
    events' = {IF e.type = type /\ e.sub = s THEN [e EXCEPT !.acked = TRUE] ELSE e : e \in events}

Serve(w, at, type, s, i, copy) == req' = [req EXCEPT ![w] = Serving(at, type, s, i, copy)]
Done(w) == req' = [req EXCEPT ![w] = Idle]

\* timedelta(days=30 if plan.billing_cycle == 'monthly' else 365)
Granted(plan) == IF plan \in Monthly THEN Month ELSE Year

\* Mutant: a period is added to the one that is left.
AddPeriod(r) == r.left + Granted(r.plan)
NewPeriod(r) == Granted(r.plan)

Bought(s) == [sub |-> s, plan |-> Plan[s], status |-> "active", left |-> Granted(Plan[s])]

\* SubscriptionPlan.objects.get raises, and the exception is swallowed; a row
\* may not name a plan that is gone either.
PlanGone(s) == Plan[s] \notin plans

\* update_or_create(user=...) of an existing row; of two it raises, and the
\* exception is swallowed.
UpdateOnly(s) ==
    table' = IF Cardinality(Rows) = 1 THEN [i \in RowIds |-> IF i \in Rows THEN Bought(s) ELSE None]
             ELSE table

\* checkout.session.completed: SELECT ... FOR UPDATE, then UPDATE in the same
\* transaction, or on to the INSERT.
CheckoutFind(w, e) ==
    /\ e.type = "checkout"
    /\ \/ /\ PlanGone(e.sub)
          /\ Ack(e.type, e.sub) /\ UNCHANGED <<table, req>>
       \/ /\ ~PlanGone(e.sub) /\ Rows = {}
          /\ Serve(w, "create", e.type, e.sub, 0, None) /\ UNCHANGED <<table, events>>
       \/ /\ ~PlanGone(e.sub) /\ Rows # {}
          /\ UpdateOnly(e.sub) /\ Ack(e.type, e.sub) /\ UNCHANGED req
    /\ UNCHANGED <<stripe, plans, since, disturbances>>

\* stripe_subscription_id is unique: a second INSERT fails, and the row that
\* is there now is updated.
CheckoutCreate(w) ==
    /\ req[w].at = "create"
    /\ LET s == req[w].sub
       IN \/ PlanGone(s) /\ UNCHANGED table
          \/ /\ ~PlanGone(s) /\ Holder(s) = {}
             /\ \E i \in RowIds : /\ i = Cardinality(Rows) + 1
                                  /\ table' = [table EXCEPT ![i] = Bought(s)]
          \/ ~PlanGone(s) /\ Holder(s) # {} /\ UpdateOnly(s)
    /\ Ack(req[w].type, req[w].sub)
    /\ Done(w)
    /\ UNCHANGED <<stripe, plans, since, disturbances>>

\* Mutant: the next period is recorded with the checkout only.
PaidOnly(r) == [r EXCEPT !.status = "active"]
Paid(r) == [r EXCEPT !.status = "active", !.left = NewPeriod(r)]

\* Mutant: Stripe's word for it is stored.
Canceled(r) == [r EXCEPT !.status = "canceled"]
Expired(r) == [r EXCEPT !.status = "expired"]
Changed(type, r) == IF type = "invoice" THEN Paid(r) ELSE Expired(r)

\* invoice.payment_succeeded and customer.subscription.deleted read the row by
\* the subscription's id; without one the event is answered all the same.
RowRead(w, e) ==
    /\ IF Holder(e.sub) = {}
       THEN Ack(e.type, e.sub) /\ UNCHANGED req
       ELSE /\ \E i \in Holder(e.sub) : Serve(w, "save", e.type, e.sub, i, Changed(e.type, table[i]))
            /\ UNCHANGED events
    /\ UNCHANGED <<table, stripe, plans, since, disturbances>>

InvoiceRead(w, e) == e.type = "invoice" /\ RowRead(w, e)
DeletedRead(w, e) == e.type = "deleted" /\ RowRead(w, e)

Deliver(w, e) ==
    /\ req[w].at = "idle"
    /\ CheckoutFind(w, e) \/ InvoiceRead(w, e) \/ DeletedRead(w, e)
-----------------------------------------------------------------------------
(* CancelSubscriptionView *)

CancelRead(w) ==
    /\ req[w].at = "idle"
    /\ disturbances < MaxDisturbances
    /\ disturbances' = disturbances + 1
    /\ \E i \in Rows :
          /\ table[i].status = "active"
          /\ \A j \in Rows : j > i => table[j].status # "active"
          /\ Serve(w, "modify", "cancel", None, i, table[i])
    /\ UNCHANGED <<table, stripe, events, plans, since>>

\* stripe.Subscription.modify; whatever it raises is swallowed.
CancelModify(w) ==
    /\ req[w].at = "modify"
    /\ LET s == req[w].copy.sub
       IN \/ UNCHANGED stripe
          \/ /\ stripe[s].state = "live"
             /\ stripe' = [stripe EXCEPT ![s].cancel = TRUE]
    /\ req' = [req EXCEPT ![w].at = "save"]
    /\ UNCHANGED <<table, events, plans, since, disturbances>>
-----------------------------------------------------------------------------
\* save() writes all columns of the copy; where another row has its
\* subscription meanwhile, or its plan is gone, it raises, and the event is not
\* answered.
Save(w) ==
    /\ req[w].at = "save"
    /\ IF /\ Holder(req[w].copy.sub) \subseteq {req[w].id}
          /\ req[w].copy.plan \in plans \cup {None}
       THEN /\ table' = [table EXCEPT ![req[w].id] = req[w].copy]
            /\ Ack(req[w].type, req[w].sub)
       ELSE UNCHANGED <<table, events>>
    /\ Done(w)
    /\ UNCHANGED <<stripe, plans, since, disturbances>>

\* In the admin site: SET_NULL in the rows, and the plan is deleted.
DeletePlan(p) ==
    /\ p \in plans
    /\ disturbances < MaxDisturbances
    /\ disturbances' = disturbances + 1
    /\ plans' = plans \ {p}
    /\ table' = [i \in RowIds |-> IF i \in Rows /\ table[i].plan = p
                                  THEN [table[i] EXCEPT !.plan = None] ELSE table[i]]
    /\ UNCHANGED <<stripe, events, since, req>>

\* A killed process leaves the event unanswered.
Crash(w) ==
    /\ req[w].at # "idle"
    /\ disturbances < MaxDisturbances
    /\ disturbances' = disturbances + 1
    /\ Done(w)
    /\ UNCHANGED <<table, stripe, events, plans, since>>

Proceed(w) == CheckoutCreate(w) \/ CancelModify(w) \/ Save(w)

Next ==
    \/ \E s \in Subs : Subscribe(s) \/ Renew(s) \/ End(s)
    \/ Tick
    \/ \E p \in Plans : DeletePlan(p)
    \/ \E w \in Workers : CancelRead(w) \/ Proceed(w) \/ Crash(w)
    \/ \E w \in Workers, e \in events : Deliver(w, e)

\* Stripe keeps delivering what is not answered (which of it, fairness leaves
\* open); processes go on; periods end and are renewed.
Fairness ==
    /\ WF_vars(Tick)
    /\ WF_vars(\E s \in Subs : Renew(s))
    /\ \A w \in Workers : WF_vars(Proceed(w))
    /\ SF_vars(\E w \in Workers, e \in events : ~e.acked /\ Deliver(w, e))

Spec == Init /\ [][Next]_vars /\ Fairness
-----------------------------------------------------------------------------
TypeOK ==
    /\ table \in [RowIds -> Row \cup {None}]
    /\ stripe \in [Subs -> [state : {"none", "live", "ended"}, due : Nat, cancel : BOOLEAN]]
    /\ events \subseteq Event
    /\ plans \subseteq Plans
    /\ since \in [Subs -> Nat]
    /\ req \in [Workers -> Request]
    /\ disturbances \in 0 .. MaxDisturbances

\* No access outlasts the last payment of its subscription by more than one
\* grant (the month or year of the row's plan, a year without one) and the delay
\* of the event that told of it: however often events come, in whatever order,
\* whatever copies are saved late and whichever plans are deleted. It does not
\* say that Stripe was paid for as long: the code never compares the two.
OneGrant(r, n) == r.left > 0 => r.left + n <= Granted(r.plan) + Delay[r.sub]
AccessIsBacked == \A i \in Rows : OneGrant(table[i], since[table[i].sub])

HasAccess == \E i \in Rows : table[i].status = "active" /\ table[i].left > 0

\* A student with one subscription, which Stripe keeps renewing, gets access
\* again and again, although its invoices may come before its checkout, saves
\* of a cancellation may overwrite them, processes are killed, and the plan may
\* be deleted once the subscription is recorded. (Another subscription, once
\* bought, is never "none" again, and a plan that is gone never recorded.)
SoleSubscriber(s) ==
    /\ \A t \in Subs \ {s} : stripe[t].state = "none"
    /\ Holder(s) = {} => Plan[s] \in plans
    /\ stripe[s].state = "live" /\ ~stripe[s].cancel
SubscriberHasAccess == <>[](\E s \in Subs : SoleSubscriber(s)) => []<>HasAccess
=============================================================================

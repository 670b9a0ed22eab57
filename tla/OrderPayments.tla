--------------------------- MODULE OrderPayments ---------------------------
(***************************************************************************)
(* Purchase of a programme through learnnov-cloud's payment endpoints      *)
(* (apps/learnnov_payments/views.py): CreateStripePaymentView,             *)
(* ApplyDiscountCodeView, VerifyPaymentView and the                        *)
(* payment_intent.succeeded branch of StripeWebhookView, over the tables   *)
(* Order, StripePayment and DiscountCodeUsage, the cache locks and the     *)
(* intents Stripe keeps.                                                   *)
(*                                                                         *)
(* A request handler runs on a worker of Workers.  Between two statements  *)
(* that touch the database, the cache or Stripe any other worker may run,  *)
(* so each such statement is an action and pc[w] says which comes next.    *)
(* Django is in autocommit mode at READ COMMITTED: a read inside           *)
(* transaction.atomic() takes no lock, and the writes of a transaction     *)
(* become visible together, at its commit.  The two settling handlers read *)
(* with select_for_update() and hold the row until they commit, so each of *)
(* them is a single action.                                                *)
(***************************************************************************)
EXTENDS Naturals, FiniteSets

CONSTANTS
    Users, Courses, Codes,  \* students, programme slugs, rows of DiscountCode
    Spellings,              \* ways to type a code (looked up with iexact)
    Workers,                \* processes that serve requests
    OrderIds, IntentIds,    \* ids that a run may use up (a bound, for TLC)
    Fee,                    \* tuition_fee of a course, in cents
    Percent,                \* discount_percentage of a code
    ValidFor,               \* courses a code is valid for (valid_programs)
    MaxTotal, MaxPerUser,   \* max_uses_total and max_uses_per_user of a code
    Endpoints,              \* the endpoints clients call in this instance
    LocksOutliveRequests,   \* no handler takes longer than its lock's timeout
    None                    \* SQL's NULL, Python's None, a key not in cache

OrderRows == [user : Users, course : Courses, status : {"pending", "paid"},
              amount : Nat, code : Codes \cup {None}]

Intents == [order : OrderIds, amount : Nat, status : {"open", "succeeded"}]

Calls == [user : Users, course : Courses, code : Codes \cup {None},
          spelling : Spellings]

ASSUME ConstantsAssumption ==
    /\ Fee \in [Courses -> Nat]
    /\ Percent \in [Codes -> 0 .. 100]
    /\ ValidFor \in [Codes -> SUBSET Courses]
    /\ MaxTotal \in [Codes -> Nat]
    /\ MaxPerUser \in [Codes -> Nat]
    /\ Endpoints \subseteq {"create", "apply", "verify"}
    /\ LocksOutliveRequests \in BOOLEAN
    /\ None \notin Users \cup Courses \cup Codes \cup Workers
    /\ None \notin OrderIds \cup IntentIds
    /\ None \notin OrderRows \cup Intents \cup Calls
    /\ "dead" \notin Workers

ASSUME FiniteAssumption ==
    /\ IsFiniteSet(Users) /\ IsFiniteSet(Courses) /\ IsFiniteSet(Spellings)
    /\ IsFiniteSet(Workers) /\ IsFiniteSet(OrderIds)
    /\ Workers # {} /\ Spellings # {}

VARIABLES
    orders,     \* table Order: a row or None for every id
    payment,    \* table StripePayment: the intent linked to an order
    usages,     \* table DiscountCodeUsage: <<code, user, order>>
    locks,      \* cache: the worker that holds a key, "dead", or None
    intents,    \* Stripe: the payment intents it created
    events,     \* Stripe: payment_intent.succeeded events it still delivers
    pc, call,   \* per worker: next statement, and the arguments of the call
    found,      \* per worker: id of the order it read, or None
    row,        \* per worker: the order it is about to write
    intent      \* per worker: the intent Stripe returned to it

tables == <<orders, payment, usages>>
stripe == <<intents, events>>
locals == <<pc, call, found, row, intent>>
vars == <<orders, payment, usages, locks, intents, events,
          pc, call, found, row, intent>>
-----------------------------------------------------------------------------
OrderLocks == {"order"} \X Users \X Courses
CodeLocks == {"discount"} \X Users \X (Codes \X Spellings)

\* The key a call locks: views.py:45 for a purchase, views.py:329 for a code.
OrderLock(c) == <<"order", c.user, c.course>>
CodeLock(c) == <<"discount", c.user, <<c.code, c.spelling>>>>

CreateSteps == {"c_code", "c_read", "c_write", "c_free", "c_usage",
                "c_stripe", "c_link", "c_release"}
ApplySteps == {"a_lock", "a_user", "a_read", "a_commit", "a_release"}

\* Mutant: the percentage is not divided by 100.
PriceUnscaled(k, c) == IF c = None THEN Fee[k] ELSE Fee[k] - Fee[k] * Percent[c]

\* The price of course k with code c: cents, rounded half up, never negative.
Price(k, c) ==
    IF c = None THEN Fee[k] ELSE (Fee[k] * (100 - Percent[c]) + 50) \div 100

\* The order a purchase request saves.
PendingRow(c) ==
    [user |-> c.user, course |-> c.course, status |-> "pending",
     amount |-> Price(c.course, c.code), code |-> c.code]

OrdersOf(u, k) ==
    {o \in OrderIds : orders[o] # None /\ orders[o].user = u
                                       /\ orders[o].course = k}
PendingOf(u, k) == {o \in OrdersOf(u, k) : orders[o].status = "pending"}

UsesOf(c) == {x \in usages : x[1] = c}
UsesBy(c, u) == {x \in UsesOf(c) : x[2] = u}

Fresh == {o \in OrderIds : orders[o] = None}
-----------------------------------------------------------------------------
Init ==
    /\ orders = [o \in OrderIds |-> None]
    /\ payment = [o \in OrderIds |-> None]
    /\ usages = {}
    /\ locks = [k \in OrderLocks \cup CodeLocks |-> None]
    /\ intents = [i \in IntentIds |-> None]
    /\ events = {}
    /\ pc = [w \in Workers |-> "idle"]
    /\ call = [w \in Workers |-> None]
    /\ found = [w \in Workers |-> None]
    /\ row = [w \in Workers |-> None]
    /\ intent = [w \in Workers |-> None]

\* Worker w goes on to statement s of its handler.
Goto(w, s) == pc' = [pc EXCEPT ![w] = s]

\* The handler of worker w is over; its locals are gone.
Finish(w) ==
    /\ Goto(w, "idle")
    /\ call' = [call EXCEPT ![w] = None]
    /\ found' = [found EXCEPT ![w] = None]
    /\ row' = [row EXCEPT ![w] = None]
    /\ intent' = [intent EXCEPT ![w] = None]

-----------------------------------------------------------------------------
(* CreateStripePaymentView.post *)

\* Mutant: cache.set in the place of cache.add.
CreateLockSet(w) ==
    /\ "create" \in Endpoints
    /\ pc[w] = "idle"
    /\ \E c \in Calls :
        /\ locks' = [locks EXCEPT ![OrderLock(c)] = w]
        /\ call' = [call EXCEPT ![w] = c]
        /\ Goto(w, IF c.code = None THEN "c_read" ELSE "c_code")
    /\ UNCHANGED <<tables, stripe, found, row, intent>>

\* cache.add of the order lock; a request that finds it taken is refused.
CreateLock(w) ==
    /\ "create" \in Endpoints
    /\ pc[w] = "idle"
    /\ \E c \in Calls :
        /\ locks[OrderLock(c)] = None
        /\ locks' = [locks EXCEPT ![OrderLock(c)] = w]
        /\ call' = [call EXCEPT ![w] = c]
        /\ Goto(w, IF c.code = None THEN "c_read" ELSE "c_code")
    /\ UNCHANGED <<tables, stripe, found, row, intent>>

\* A code the request may use: valid for the course, and below its total limit.
\* One that is unknown, inactive or expired is refused as if by Fail(w).
CodeUsable(c, k) ==
    /\ k \in ValidFor[c]
    /\ Cardinality(UsesOf(c)) < MaxTotal[c]

\* Mutant: the answer to an unusable code returns before the try block.
CreateCheckCodeLeaks(w) ==
    /\ pc[w] = "c_code"
    /\ LET c == call[w]
       IN IF /\ CodeUsable(c.code, c.course)
             /\ Cardinality(UsesBy(c.code, c.user)) < MaxPerUser[c.code]
          THEN Goto(w, "c_read") /\ UNCHANGED <<call, found, row, intent>>
          ELSE Finish(w)
    /\ UNCHANGED <<tables, stripe, locks>>

\* Usages are never deleted, so reading the user's own uses in the same step
\* as the total lets no request through that the two reads would refuse.
CreateCheckCode(w) ==
    /\ pc[w] = "c_code"
    /\ LET c == call[w]
       IN Goto(w, IF /\ CodeUsable(c.code, c.course)
                     /\ Cardinality(UsesBy(c.code, c.user)) < MaxPerUser[c.code]
                  THEN "c_read" ELSE "c_release")
    /\ UNCHANGED <<tables, stripe, locks, call, found, row, intent>>

\* The read of get_or_create: several pending orders raise
\* MultipleObjectsReturned, and the step is Fail(w).
CreateRead(w) ==
    /\ pc[w] = "c_read"
    /\ LET c == call[w]
           pending == PendingOf(c.user, c.course)
       IN /\ \A o, p \in pending : o = p
          /\ found' = [found EXCEPT ![w] =
                IF pending = {} THEN None ELSE CHOOSE o \in pending : TRUE]
          /\ row' = [row EXCEPT ![w] = PendingRow(c)]
    /\ Goto(w, "c_write")
    /\ UNCHANGED <<tables, stripe, locks, call, intent>>

\* Mutant: the lock covers only the transaction.
CreateWriteUnlocks(w) ==
    /\ pc[w] = "c_write"
    /\ \E o \in IF found[w] = None THEN Fresh ELSE {found[w]} :
        /\ orders' = [orders EXCEPT ![o] = row[w]]
        /\ found' = [found EXCEPT ![w] = o]
    /\ locks' = [locks EXCEPT ![OrderLock(call[w])] = None]
    /\ Goto(w, IF row[w].amount = 0 THEN "c_free" ELSE "c_stripe")
    /\ UNCHANGED <<payment, usages, stripe, call, row, intent>>

\* Mutant: an order that is priced anew drops its link to the old intent.
CreateWriteUnlinks(w) ==
    /\ pc[w] = "c_write"
    /\ \E o \in IF found[w] = None THEN Fresh ELSE {found[w]} :
        /\ orders' = [orders EXCEPT ![o] = row[w]]
        /\ payment' = [payment EXCEPT ![o] = None]
        /\ found' = [found EXCEPT ![w] = o]
    /\ Goto(w, IF row[w].amount = 0 THEN "c_free" ELSE "c_stripe")
    /\ UNCHANGED <<usages, stripe, locks, call, row, intent>>

\* The commit: INSERT, or the full-row UPDATE of order.save(), which also
\* writes back the status the order had when it was read.
CreateWrite(w) ==
    /\ pc[w] = "c_write"
    /\ \E o \in IF found[w] = None THEN Fresh ELSE {found[w]} :
        /\ orders' = [orders EXCEPT ![o] = row[w]]
        /\ found' = [found EXCEPT ![w] = o]
    /\ Goto(w, IF row[w].amount = 0 THEN "c_free" ELSE "c_stripe")
    /\ UNCHANGED <<payment, usages, stripe, locks, call, row, intent>>

\* Nothing to pay: Stripe is bypassed and the order saved as paid ...
CreateFree(w) ==
    /\ pc[w] = "c_free"
    /\ orders' = [orders EXCEPT ![found[w]] = [row[w] EXCEPT !.status = "paid"]]
    /\ Goto(w, IF call[w].code = None THEN "c_release" ELSE "c_usage")
    /\ UNCHANGED <<payment, usages, stripe, locks, call, found, row, intent>>

\* ... and then, in a transaction of its own, the use of the code.
CreateUsage(w) ==
    /\ pc[w] = "c_usage"
    /\ LET use == <<call[w].code, call[w].user, found[w]>>
       IN /\ use \notin usages
          /\ usages' = usages \cup {use}
    /\ Goto(w, "c_release")
    /\ UNCHANGED <<orders, payment, stripe, locks, call, found, row, intent>>

\* Stripe creates the intent; the call may still time out, which leaves an
\* intent that no StripePayment will ever name.
CreateIntent(w) ==
    /\ pc[w] = "c_stripe"
    /\ \E i \in {j \in IntentIds : intents[j] = None} :
        /\ intents' = [intents EXCEPT ![i] =
              [order |-> found[w], amount |-> row[w].amount, status |-> "open"]]
        /\ \/ Goto(w, "c_link") /\ intent' = [intent EXCEPT ![w] = i]
           \/ Goto(w, "c_release") /\ UNCHANGED intent
    /\ UNCHANGED <<tables, events, locks, call, found, row>>

\* Mutant: the code is used up as soon as there is an intent.
CreateLinkSpendsCode(w) ==
    /\ pc[w] = "c_link"
    /\ payment[found[w]] = None
    /\ payment' = [payment EXCEPT ![found[w]] = intent[w]]
    /\ usages' = IF call[w].code = None THEN usages
                 ELSE usages \cup {<<call[w].code, call[w].user, found[w]>>}
    /\ Goto(w, "c_release")
    /\ UNCHANGED <<orders, stripe, locks, call, found, row, intent>>

\* Mutant: update_or_create, which moves the order to the new intent.
CreateLinkMoves(w) ==
    /\ pc[w] = "c_link"
    /\ payment' = [payment EXCEPT ![found[w]] = intent[w]]
    /\ Goto(w, "c_release")
    /\ UNCHANGED <<orders, usages, stripe, locks, call, found, row, intent>>

\* StripePayment.order is one-to-one: a second row for the order is refused
\* (and the step is Fail(w)).
CreateLink(w) ==
    /\ pc[w] = "c_link"
    /\ payment[found[w]] = None
    /\ payment' = [payment EXCEPT ![found[w]] = intent[w]]
    /\ Goto(w, "c_release")
    /\ UNCHANGED <<orders, usages, stripe, locks, call, found, row, intent>>

\* finally: cache.delete, whoever holds the key by now.
CreateRelease(w) ==
    /\ pc[w] = "c_release"
    /\ locks' = [locks EXCEPT ![OrderLock(call[w])] = None]
    /\ Finish(w)
    /\ UNCHANGED <<tables, stripe>>
-----------------------------------------------------------------------------
(* ApplyDiscountCodeView.post *)

\* The code and its total limit are checked before any lock is taken.
ApplyCheckCode(w) ==
    /\ "apply" \in Endpoints
    /\ pc[w] = "idle"
    /\ \E c \in Calls :
        /\ c.code # None
        /\ CodeUsable(c.code, c.course)
        /\ call' = [call EXCEPT ![w] = c]
    /\ Goto(w, "a_lock")
    /\ UNCHANGED <<tables, stripe, locks, found, row, intent>>

\* Mutant: cache.set in the place of cache.add.
ApplyLockSet(w) ==
    /\ pc[w] = "a_lock"
    /\ locks' = [locks EXCEPT ![CodeLock(call[w])] = w]
    /\ Goto(w, "a_user")
    /\ UNCHANGED <<tables, stripe, call, found, row, intent>>

ApplyLock(w) ==
    /\ pc[w] = "a_lock"
    /\ locks[CodeLock(call[w])] = None
    /\ locks' = [locks EXCEPT ![CodeLock(call[w])] = w]
    /\ Goto(w, "a_user")
    /\ UNCHANGED <<tables, stripe, call, found, row, intent>>

ApplyRefused(w) ==
    /\ pc[w] = "a_lock"
    /\ locks[CodeLock(call[w])] # None
    /\ Finish(w)
    /\ UNCHANGED <<tables, stripe, locks>>

\* A partial discount is only reported to the client; a full one goes on.
ApplyCheckUser(w) ==
    /\ pc[w] = "a_user"
    /\ LET c == call[w]
       IN Goto(w, IF /\ Cardinality(UsesBy(c.code, c.user)) < MaxPerUser[c.code]
                     /\ Percent[c.code] = 100
                  THEN "a_read" ELSE "a_release")
    /\ UNCHANGED <<tables, stripe, locks, call, found, row, intent>>

\* get_or_create looks for an order of any status; the row it will save is
\* the one read here, with its status set to paid.
ApplyRead(w) ==
    /\ pc[w] = "a_read"
    /\ LET c == call[w]
           known == OrdersOf(c.user, c.course)
       IN \/ /\ known = {}
             /\ row' = [row EXCEPT ![w] =
                   [user |-> c.user, course |-> c.course, status |-> "paid",
                    amount |-> 0, code |-> None]]
             /\ UNCHANGED found
          \/ \E o \in known :
             /\ known = {o}
             /\ row' = [row EXCEPT ![w] = [orders[o] EXCEPT !.status = "paid"]]
             /\ found' = [found EXCEPT ![w] = o]
    /\ Goto(w, "a_commit")
    /\ UNCHANGED <<tables, stripe, locks, call, intent>>

\* Order and usage are written in one transaction; a usage that exists already
\* breaks unique_together and rolls both back (Fail(w)).
ApplyCommit(w) ==
    /\ pc[w] = "a_commit"
    /\ \E o \in IF found[w] = None THEN Fresh ELSE {found[w]} :
        LET use == <<call[w].code, call[w].user, o>>
        IN /\ use \notin usages
           /\ orders' = [orders EXCEPT ![o] = row[w]]
           /\ usages' = usages \cup {use}
    /\ Goto(w, "a_release")
    /\ UNCHANGED <<payment, stripe, locks, call, found, row, intent>>

ApplyRelease(w) ==
    /\ pc[w] = "a_release"
    /\ locks' = [locks EXCEPT ![CodeLock(call[w])] = None]
    /\ Finish(w)
    /\ UNCHANGED <<tables, stripe>>
-----------------------------------------------------------------------------
(* The database or Stripe raises, or the worker dies *)

\* An exception takes the handler to its finally clause: nothing of the
\* statement that raised is written.
Fail(w) ==
    /\ \/ pc[w] \in CreateSteps \ {"c_release"} /\ Goto(w, "c_release")
       \/ pc[w] \in ApplySteps \ {"a_lock", "a_release"} /\ Goto(w, "a_release")
    /\ UNCHANGED <<tables, stripe, locks, call, found, row, intent>>

\* A killed worker runs no finally clause: its lock stays until it expires.
Crash(w) ==
    /\ pc[w] # "idle"
    /\ locks' = [k \in DOMAIN locks |-> IF locks[k] = w THEN "dead" ELSE locks[k]]
    /\ Finish(w)
    /\ UNCHANGED <<tables, stripe>>

\* The timeout of cache.add: 15 s for an order, 10 s for a code.
ExpireLock(k) ==
    /\ locks[k] # None
    /\ LocksOutliveRequests => locks[k] = "dead"
    /\ locks' = [locks EXCEPT ![k] = None]
    /\ UNCHANGED <<tables, stripe, locals>>
-----------------------------------------------------------------------------
(* Settling a payment *)

LinkedTo(i) == {o \in OrderIds : payment[o] = i}

\* Both settling handlers: under the row lock, an order that is not paid yet
\* becomes paid, and its code, if it has one, is used up (get_or_create).
Settle(i) ==
    LET due == {o \in LinkedTo(i) : orders[o].status # "paid"}
    IN /\ orders' = [o \in OrderIds |->
             IF o \in due THEN [orders[o] EXCEPT !.status = "paid"] ELSE orders[o]]
       /\ usages' = usages \cup
             {<<orders[o].code, orders[o].user, o>> :
                  o \in {x \in due : orders[x].code # None}}

\* Mutant: the event is acknowledged before its transaction commits.
WebhookAcksFirst(i) ==
    /\ i \in events
    /\ events' = events \ {i}
    /\ UNCHANGED <<tables, intents, locks, locals>>

\* The answer 200 stops Stripe, unless it is lost and the event comes again.
Webhook(i) ==
    /\ i \in events
    /\ Settle(i)
    /\ events' \in {events, events \ {i}}
    /\ UNCHANGED <<payment, intents, locks, locals>>

\* Mutant: the status of the intent is not looked at.
VerifyAnyIntent(i) ==
    /\ "verify" \in Endpoints
    /\ intents[i] # None
    /\ Settle(i)
    /\ UNCHANGED <<payment, stripe, locks, locals>>

VerifyPayment(i) ==
    /\ "verify" \in Endpoints
    /\ intents[i] # None
    /\ intents[i].status = "succeeded"
    /\ Settle(i)
    /\ UNCHANGED <<payment, stripe, locks, locals>>

\* A client can pay once it was given the secret, which follows the link.
Pay(i) ==
    /\ LinkedTo(i) # {}
    /\ intents[i].status = "open"
    /\ intents' = [intents EXCEPT ![i].status = "succeeded"]
    /\ events' = events \cup {i}
    /\ UNCHANGED <<tables, locks, locals>>
-----------------------------------------------------------------------------
CreateStep(w) ==
    \/ CreateCheckCode(w) \/ CreateRead(w) \/ CreateWrite(w) \/ CreateFree(w)
    \/ CreateUsage(w) \/ CreateIntent(w) \/ CreateLink(w) \/ CreateRelease(w)

ApplyStep(w) ==
    \/ ApplyLock(w) \/ ApplyRefused(w) \/ ApplyCheckUser(w)
    \/ ApplyRead(w) \/ ApplyCommit(w) \/ ApplyRelease(w)

Step(w) == CreateStep(w) \/ ApplyStep(w) \/ Fail(w)

Next ==
    \/ \E w \in Workers : \/ CreateLock(w) \/ ApplyCheckCode(w)
                          \/ Step(w) \/ Crash(w)
    \/ \E k \in OrderLocks \cup CodeLocks : ExpireLock(k)
    \/ \E i \in IntentIds : Webhook(i) \/ VerifyPayment(i) \/ Pay(i)

Spec == Init /\ [][Next]_vars

\* A handler that is not killed goes on, a key in the cache expires, and
\* Stripe redelivers an event until it is answered.
Fairness ==
    /\ \A w \in Workers : WF_vars(Step(w))
    /\ \A k \in OrderLocks \cup CodeLocks :
          WF_vars(locks[k] = "dead" /\ ExpireLock(k))
    /\ \A i \in IntentIds : WF_vars(Webhook(i))

FairSpec == Spec /\ Fairness
-----------------------------------------------------------------------------
(* Properties *)

TypeOK ==
    /\ orders \in [OrderIds -> OrderRows \cup {None}]
    /\ payment \in [OrderIds -> IntentIds \cup {None}]
    /\ usages \subseteq Codes \X Users \X OrderIds
    /\ locks \in [OrderLocks \cup CodeLocks -> Workers \cup {"dead", None}]
    /\ intents \in [IntentIds -> Intents \cup {None}]
    /\ events \subseteq IntentIds
    /\ pc \in [Workers -> CreateSteps \cup ApplySteps \cup {"idle"}]
    /\ call \in [Workers -> Calls \cup {None}]
    /\ found \in [Workers -> OrderIds \cup {None}]
    /\ row \in [Workers -> OrderRows \cup {None}]
    /\ intent \in [Workers -> IntentIds \cup {None}]

IsPaid(o) == orders[o] # None /\ orders[o].status = "paid"

\* The client of order o has paid the intent linked to it.
Charged(o) == payment[o] # None /\ intents[payment[o]].status = "succeeded"

\* A code that takes off the whole price was used for order o.
UsedFullCode(o) == \E x \in usages : x[3] = o /\ Percent[x[1]] = 100

\* No course is given away: an order is paid only if Stripe holds the money,
\* its price came to nothing, or a 100% code was used up for it, whatever the
\* requests, crashes and expired locks did (views.py:98, 169, 269, 350).
PaidHasEvidence ==
    \A o \in OrderIds :
        IsPaid(o) => Charged(o) \/ orders[o].amount = 0 \/ UsedFullCode(o)

\* A use of a code is spent only on a purchase that went through: a client who
\* abandons the payment keeps the code (views.py:102, 173, 273, 353).
UseHasEvidence ==
    \A x \in usages :
        \/ Charged(x[3])
        \/ Percent[x[1]] = 100
        \/ Price(orders[x[3]].course, x[1]) = 0

\* get_or_create at views.py:83 never finds two pending orders of a student for
\* a course, which would refuse every later purchase of it.
AtMostOnePending ==
    \A u \in Users, k \in Courses : \A o, p \in PendingOf(u, k) : o = p

\* The order lock admits one purchase of a course by a student at a time, and
\* is held by that purchase until its end (views.py:45, 141).
OneCreatePerOrderLock ==
    \A v, w \in Workers :
        /\ pc[v] \in CreateSteps
        /\ pc[w] \in CreateSteps
        /\ OrderLock(call[v]) = OrderLock(call[w])
        => v = w

\* An order that became paid because its price came to nothing stays paid: the
\* full-row save of views.py:95, which writes back the status it read, never
\* undoes another purchase request, because the order lock is held from the
\* read to the save.
FreeOrderStaysPaid ==
    [][\A o \in OrderIds :
          IsPaid(o) /\ ~Charged(o) /\ ~UsedFullCode(o) => IsPaid(o)']_vars

\* VerifyPaymentView makes an order paid only if the amount Stripe charged is
\* the amount of the order (ai_assistant/views.py:227).
VerifiedAmountMatches ==
    [][\A i \in IntentIds, o \in OrderIds :
          VerifyPayment(i) /\ payment[o] = i /\ ~IsPaid(o)
          => intents[i].amount = orders[o].amount]_vars

\* Uses of a code that no payment stands behind.
Giveaways(c) == {x \in UsesOf(c) : ~Charged(x[3])}
Repeats(c, u) == {x \in Giveaways(c) : x[2] = u}

\* The total limit is read before any lock, and only the code of a request is
\* locked, not the table: it is passed, but by no more than the requests that
\* processes may have in service when the last use is spent (views.py:67, 323).
GiveawaysBounded ==
    \A c \in Codes : Cardinality(Giveaways(c)) < MaxTotal[c] + Cardinality(Workers)

\* A student passes the limit of a code per student only by using it at the same
\* time for different courses or in different spellings, for these have locks
\* of their own, however many processes serve the student (views.py:45, 329).
RepeatsBounded ==
    \A c \in Codes, u \in Users :
        Cardinality(Repeats(c, u))
            < MaxPerUser[c] + Cardinality(Courses) + Cardinality(Spellings)

Placed == {o \in OrderIds : orders[o] # None}
Free == {o \in Placed : orders[o].amount = 0}
ChargedOrders == {o \in OrderIds : Charged(o)}
Waived == {o \in OrderIds : UsedFullCode(o)}
Settled == {o \in OrderIds : IsPaid(o)}

\* The ledger these tables amount to.
Ledger == INSTANCE PurchaseLedger WITH
    Orders <- OrderIds, placed <- Placed, free <- Free,
    charged <- ChargedOrders, waived <- Waived, settled <- Settled

\* Step by step the endpoints do what the ledger allows: a client is charged
\* at most once for an order, whatever intents Stripe was asked for; an event
\* or a verification settles the one order it was charged for; no later
\* request strikes out a charge or a spent code (views.py:81-131, 164-178).
KeepsBooks == Ledger!Spec

\* A payment that Stripe still reports ends in a paid order, however many
\* workers die (views.py:159-180).
EventSettlesOrder ==
    \A i \in IntentIds :
        i \in events ~> \E o \in OrderIds : payment[o] = i /\ IsPaid(o)

\* Every lock is released: by its holder's finally clause on each path, and by
\* its timeout when the holder was killed (views.py:141, 362).
LocksAreFreed ==
    \A k \in OrderLocks \cup CodeLocks : locks[k] # None ~> locks[k] = None
-----------------------------------------------------------------------------
(* What makes the safety properties inductive *)

\* The order a worker read or wrote is still there and is its caller's.
OwnsFound(w) ==
    found[w] # None =>
        /\ orders[found[w]] # None
        /\ orders[found[w]].user = call[w].user
        /\ orders[found[w]].course = call[w].course

\* What the locals of a purchase request hold at each statement.
CreateLocals(w) ==
    /\ pc[w] \in CreateSteps => call[w] # None
    /\ pc[w] \in {"c_code", "c_usage"} => call[w].code # None
    /\ pc[w] \in {"c_write", "c_free", "c_usage", "c_stripe", "c_link"} =>
          row[w] = PendingRow(call[w])
    /\ pc[w] \in {"c_free", "c_usage"} => row[w].amount = 0
    /\ pc[w] \in {"c_free", "c_usage", "c_stripe", "c_link"} => found[w] # None
    /\ pc[w] = "c_link" => intent[w] # None /\ intents[intent[w]] # None

\* What the locals of a request that applies a code hold at each statement.
ApplyLocals(w) ==
    /\ pc[w] \in ApplySteps => call[w] # None /\ call[w].code # None
    /\ pc[w] \in {"a_read", "a_commit"} => Percent[call[w].code] = 100
    /\ pc[w] = "a_commit" =>
          /\ row[w] # None
          /\ row[w].user = call[w].user
          /\ row[w].course = call[w].course
          /\ row[w].status = "paid"

LocalsOf(w) ==
    /\ pc[w] = "idle" => found[w] = None
    /\ OwnsFound(w)
    /\ CreateLocals(w)
    /\ ApplyLocals(w)

Locals == \A w \in Workers : LocalsOf(w)

\* Foreign keys hold: a link names an order and an intent that exist, a usage an
\* order that exists, and Stripe reports only intents that succeeded.
ReferencesOK ==
    /\ \A o \in OrderIds : payment[o] # None =>
          orders[o] # None /\ intents[payment[o]] # None
    /\ \A x \in usages : orders[x[3]] # None
    /\ \A i \in events : intents[i] # None /\ intents[i].status = "succeeded"

BaseInv == TypeOK /\ Locals /\ ReferencesOK

EvidenceInv == BaseInv /\ PaidHasEvidence /\ UseHasEvidence

\* An intent is linked to the order it was created for, so to no other, and
\* is paid only when it is linked.
LinksOK ==
    /\ \A i \in IntentIds :
          intents[i] # None /\ intents[i].status = "succeeded"
              => payment[intents[i].order] = i
    /\ \A o \in OrderIds : payment[o] # None => intents[payment[o]].order = o
    /\ \A w \in Workers : pc[w] = "c_link" => intents[intent[w]].order = found[w]

\* While no lock expires under its holder, a purchase request holds the order
\* lock from beginning to end ...
HoldsOrderLock ==
    \A w \in Workers : pc[w] \in CreateSteps => locks[OrderLock(call[w])] = w

\* ... so what its get_or_create found is still all there is.
FoundAllPending ==
    \A w \in Workers :
        pc[w] \in {"c_write", "c_free", "c_usage", "c_stripe", "c_link"} =>
            PendingOf(call[w].user, call[w].course) \subseteq {found[w]}

LockInv == BaseInv /\ HoldsOrderLock /\ FoundAllPending /\ AtMostOnePending

\* The order a purchase request is about to save has not become paid since it
\* was read, unless there is a charge or a spent 100% code to show for it.
FoundUnpaid ==
    \A w \in Workers :
        pc[w] = "c_write" /\ found[w] # None /\ IsPaid(found[w]) =>
            Charged(found[w]) \/ UsedFullCode(found[w])

FreeInv == LockInv /\ FoundUnpaid

\* A request that applies a code holds the lock of its spelling.
HoldsCodeLock ==
    \A w \in Workers :
        pc[w] \in ApplySteps \ {"a_lock"} => locks[CodeLock(call[w])] = w

\* Requests that passed the total limit, and those of a student that passed the
\* limit per student, and may yet give code c away.
CountedSteps == {"c_read", "c_write", "c_free", "c_usage", "a_read", "a_commit"}
Promised(c) == {w \in Workers : /\ pc[w] \in CountedSteps \cup {"a_lock", "a_user"}
                                /\ call[w].code = c}
Granted(c, u) == {w \in Workers : /\ pc[w] \in CountedSteps
                                  /\ call[w].code = c /\ call[w].user = u}

GiveawaysInv ==
    \A c \in Codes :
        Cardinality(Giveaways(c)) + Cardinality(Promised(c))
            < MaxTotal[c] + Cardinality(Workers)

RepeatsInv ==
    \A c \in Codes, u \in Users :
        Cardinality(Repeats(c, u)) + Cardinality(Granted(c, u))
            < MaxPerUser[c] + Cardinality(Courses) + Cardinality(Spellings)
=============================================================================

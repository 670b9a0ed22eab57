-------------------------- MODULE SubscriptionsProofs --------------------------
(***************************************************************************)
(* Proofs about Subscriptions, for every set of subscriptions and plans,   *)
(* whatever Stripe bills and the code grants, and every number of          *)
(* processes, rows, cancellations, kills and deleted plans.                *)
(***************************************************************************)
EXTENDS Subscriptions, TLAPS

\* A row that may be in the table now;
Backed(r) == r \in Row /\ OneGrant(r, since[r.sub])

\* an event that makes the code grant a period is young, and no older than the
\* payment it tells of;
Recent == \A e \in events : /\ e.age <= Delay[e.sub]
                            /\ e.type = "deleted" \/ since[e.sub] <= e.age

\* and what a request is about to save may be saved (time stands still).
Held(r) == /\ r.at = "create" => r.sub \in Subs /\ since[r.sub] <= Delay[r.sub]
           /\ r.at \in {"modify", "save"} => Backed(r.copy) /\ r.id \in RowIds
Holding == \A w \in Workers : Held(req[w])

Inv == TypeOK /\ Recent /\ Holding /\ AccessIsBacked
-----------------------------------------------------------------------------
(* Rows *)

LEMMA GrantType == ASSUME NEW plan PROVE Granted(plan) \in Nat /\ Granted(plan) > 0
  BY ConstantsAssumption DEF Granted

\* What is granted soon after a payment is one grant.
LEMMA GrantedInTime ==
    ASSUME Inv, NEW r \in Row, r.left = Granted(r.plan), since[r.sub] <= Delay[r.sub]
    PROVE  Backed(r)
<1>1. r.sub \in Subs /\ Granted(r.plan) \in Nat
  BY GrantType DEF Row
<1>2. since[r.sub] \in Nat /\ Delay[r.sub] \in Nat
  BY <1>1, ConstantsAssumption DEF Inv, TypeOK
<1>3. r.left + since[r.sub] <= Granted(r.plan) + Delay[r.sub]
  BY <1>1, <1>2
<1>4. QED
  BY <1>3 DEF Backed, OneGrant

LEMMA BoughtIsBacked ==
    ASSUME Inv, NEW s \in Subs, since[s] <= Delay[s]
    PROVE  Backed(Bought(s))
<1>1. Bought(s) \in Row /\ Bought(s).left = Granted(Bought(s).plan) /\ Bought(s).sub = s
  BY GrantType, ConstantsAssumption DEF Bought, Row
<1>2. QED
  BY <1>1, GrantedInTime

LEMMA RowIsBacked == ASSUME Inv, NEW i \in Rows PROVE Backed(table[i])
  BY DEF Inv, TypeOK, AccessIsBacked, Rows, Backed

LEMMA RowWritten ==
    ASSUME Inv, NEW i \in RowIds, NEW r, Backed(r),
           table' = [table EXCEPT ![i] = r], since' = since
    PROVE  table' \in [RowIds -> Row \cup {None}] /\ AccessIsBacked'
  BY DEF Inv, TypeOK, AccessIsBacked, Rows, Backed, OneGrant

LEMMA RowUpdated ==
    ASSUME Inv, NEW s \in Subs, since[s] <= Delay[s], UpdateOnly(s), since' = since
    PROVE  table' \in [RowIds -> Row \cup {None}] /\ AccessIsBacked'
<1>1. CASE table' = table
  BY <1>1 DEF Inv, TypeOK, AccessIsBacked, Rows, OneGrant
<1>2. CASE table' = [i \in RowIds |-> IF i \in Rows THEN Bought(s) ELSE None]
  <2> DEFINE b == Bought(s)
  <2>1. Backed(b)
    BY BoughtIsBacked
  <2>2. table' = [i \in RowIds |-> IF i \in Rows THEN b ELSE None]
    BY <1>2
  <2> HIDE DEF b
  <2>3. \A i \in Rows' : table'[i] = b
    BY <2>2 DEF Rows
  <2>4. QED
    BY <2>1, <2>2, <2>3 DEF AccessIsBacked, Backed, OneGrant
<1>3. QED
  BY <1>1, <1>2 DEF UpdateOnly
-----------------------------------------------------------------------------
(* Events *)

LEMMA Answered ==
    ASSUME Inv, NEW type, NEW s, Ack(type, s), since' = since
    PROVE  events' \subseteq Event /\ Recent'
<1> DEFINE Answer(e) == IF e.type = type /\ e.sub = s THEN [e EXCEPT !.acked = TRUE] ELSE e
<1>1. ASSUME NEW e \in events
      PROVE  /\ Answer(e) \in Event /\ Answer(e).age = e.age
             /\ Answer(e).sub = e.sub /\ Answer(e).type = e.type
  BY DEF Inv, TypeOK, Event
<1>2. events' = {Answer(e) : e \in events}
  BY DEF Ack
<1> HIDE DEF Answer
<1>3. events' \subseteq Event
  BY <1>1, <1>2
<1>4. ASSUME NEW f \in events'
      PROVE  /\ f.age <= Delay[f.sub]
             /\ f.type = "deleted" \/ since[f.sub] <= f.age
  <2>1. PICK e \in events : f = Answer(e)
    BY <1>2
  <2>2. f.age = e.age /\ f.sub = e.sub /\ f.type = e.type
    BY <1>1, <2>1
  <2>3. QED
    BY <2>2 DEF Inv, Recent
<1>5. QED
  BY <1>3, <1>4 DEF Recent

LEMMA EventType == ASSUME NEW type \in Types, NEW s \in Subs PROVE Send(type, s) \in Event
  BY DEF Send, Event

\* As long after a payment, or less, a row stays backed.
LEMMA BackedSooner ==
    ASSUME NEW r, Backed(r), since[r.sub] \in Nat, since'[r.sub] \in Nat, since'[r.sub] <= since[r.sub]
    PROVE  Backed(r)'
<1>1. r \in Row /\ r.left \in Nat /\ r.sub \in Subs
  BY DEF Backed, Row
<1>2. Delay[r.sub] \in Nat /\ Granted(r.plan) \in Nat
  BY <1>1, GrantType, ConstantsAssumption
<1>3. r.left > 0 => r.left + since'[r.sub] <= Granted(r.plan) + Delay[r.sub]
  BY <1>1, <1>2 DEF Backed, OneGrant
<1>4. QED
  BY <1>1, <1>3 DEF Backed, OneGrant

\* The time since a payment starts again, and its events are new.
LEMMA Paying ==
    ASSUME Inv, NEW s \in Subs, Pay(s), NEW E \in SUBSET {"checkout", "invoice"},
           events' = events \cup {Send(t, s) : t \in E},
           UNCHANGED <<table, plans, req, disturbances>>
    PROVE  Inv'
<1>1. Billed[s] \in Nat /\ Delay[s] \in Nat
  BY ConstantsAssumption
<1>2. /\ since' \in [Subs -> Nat]
      /\ \A t \in Subs : since[t] \in Nat /\ since'[t] <= since[t]
      /\ since'[s] = 0
  BY <1>1 DEF Pay, Inv, TypeOK
<1>3. TypeOK'
  <2>1. {Send(t, s) : t \in E} \subseteq Event
    BY EventType DEF Types
  <2>2. stripe' \in [Subs -> [state : {"none", "live", "ended"}, due : Nat, cancel : BOOLEAN]]
    BY <1>1 DEF Pay, Inv, TypeOK
  <2>3. QED
    BY <1>2, <2>1, <2>2 DEF Inv, TypeOK
<1>4. ASSUME NEW e \in events'
      PROVE  e.age <= Delay[e.sub] /\ (e.type = "deleted" \/ since'[e.sub] <= e.age)
  <2>1. CASE e \in events
    <3>1. e.sub \in Subs /\ e.age \in Nat
      BY <2>1 DEF Inv, TypeOK, Event
    <3>2. since[e.sub] \in Nat /\ since'[e.sub] \in Nat /\ since'[e.sub] <= since[e.sub]
      BY <1>2, <3>1
    <3>3. QED
      BY <2>1, <3>1, <3>2 DEF Inv, Recent
  <2>2. CASE e \notin events
    <3>1. e.age = 0 /\ e.sub = s
      BY <2>2 DEF Send
    <3>2. QED
      BY <1>1, <1>2, <3>1
  <2>3. QED
    BY <2>1, <2>2
<1>5. ASSUME NEW r, Backed(r) PROVE Backed(r)'
  <2>1. r.sub \in Subs
    BY <1>5 DEF Backed, Row
  <2>2. QED
    BY <1>2, <1>5, <2>1, BackedSooner
<1>6. Holding'
  <2> SUFFICES ASSUME NEW w \in Workers
               PROVE  Held(req[w])'
    BY DEF Holding
  <2>1. Held(req[w]) /\ req'[w] = req[w]
    BY DEF Inv, Holding
  <2>2. ASSUME req[w].at = "create"
        PROVE  req[w].sub \in Subs /\ since'[req[w].sub] <= Delay[req[w].sub]
    <3>1. req[w].sub \in Subs /\ since[req[w].sub] <= Delay[req[w].sub]
      BY <2>1, <2>2 DEF Held
    <3>2. Delay[req[w].sub] \in Nat
      BY <3>1, ConstantsAssumption
    <3>3. QED
      BY <1>2, <3>1, <3>2
  <2>3. ASSUME req[w].at \in {"modify", "save"}
        PROVE  Backed(req[w].copy)' /\ req[w].id \in RowIds
    <3>1. Backed(req[w].copy) /\ req[w].id \in RowIds
      BY <2>1, <2>3 DEF Held
    <3>2. Backed(req[w].copy)'
      <4> DEFINE c == req[w].copy
      <4>1. Backed(c)'
        BY <1>5, <3>1
      <4>2. QED
        BY <2>1, <4>1 DEF Backed
    <3>3. QED
      BY <3>1, <3>2
  <2>4. QED
    BY <2>1, <2>2, <2>3 DEF Held, Backed
<1>7. AccessIsBacked'
  <2> SUFFICES ASSUME NEW i \in Rows
               PROVE  OneGrant(table[i], since'[table[i].sub])
    BY DEF AccessIsBacked, Rows, OneGrant
  <2>1. /\ Backed(table[i]) /\ since[table[i].sub] \in Nat /\ since'[table[i].sub] \in Nat
        /\ since'[table[i].sub] <= since[table[i].sub] /\ table' = table
    BY <1>2, RowIsBacked DEF Backed, Row
  <2>2. table[i].left \in Nat /\ Delay[table[i].sub] \in Nat /\ Granted(table[i].plan) \in Nat
    BY <2>1, GrantType, ConstantsAssumption DEF Backed, Row
  <2>3. QED
    BY <2>1, <2>2 DEF Backed, OneGrant
<1>8. QED
  BY <1>3, <1>4, <1>6, <1>7 DEF Inv, Recent
-----------------------------------------------------------------------------
(* Requests *)

LEMMA IdleRequest == Idle \in Request /\ Held(Idle)
  BY DEF Idle, Serving, Request, Held

\* A request is taken, goes on or is done, and nothing is paid meanwhile.
LEMMA ReqSet ==
    ASSUME Inv, NEW w \in Workers, NEW r \in Request, Held(r),
           req' = [req EXCEPT ![w] = r], since' = since
    PROVE  req' \in [Workers -> Request] /\ Holding'
  BY DEF Inv, TypeOK, Holding, Held, Backed, OneGrant

\* A request that is taken, whose statements change nothing else.
LEMMA Taken ==
    ASSUME Inv, NEW w \in Workers, NEW r \in Request, Held(r),
           req' = [req EXCEPT ![w] = r], UNCHANGED <<table, stripe, events, plans, since>>,
           disturbances' \in 0 .. MaxDisturbances
    PROVE  Inv'
<1>1. req' \in [Workers -> Request] /\ Holding'
  BY ReqSet
<1>2. QED
  BY <1>1 DEF Inv, TypeOK, Recent, AccessIsBacked, Rows, OneGrant

\* A statement that writes the table and answers.
LEMMA Written ==
    ASSUME Inv, table' \in [RowIds -> Row \cup {None}], AccessIsBacked',
           NEW type, NEW s, Ack(type, s), req' \in [Workers -> Request], Holding',
           UNCHANGED <<stripe, plans, since, disturbances>>
    PROVE  Inv'
<1>1. events' \subseteq Event /\ Recent'
  BY Answered
<1>2. QED
  BY <1>1 DEF Inv, TypeOK

LEMMA ReqKept == ASSUME Inv, UNCHANGED <<req, since>>
                 PROVE  req' \in [Workers -> Request] /\ Holding'
  BY DEF Inv, TypeOK, Holding, Held, Backed, OneGrant

LEMMA RequestDone == ASSUME Inv, NEW w \in Workers, Done(w), since' = since
                     PROVE  req' \in [Workers -> Request] /\ Holding'
  BY IdleRequest, ReqSet DEF Done
-----------------------------------------------------------------------------
(* Stripe and time *)

LEMMA SubscribeInv == ASSUME Inv, NEW s \in Subs, Subscribe(s) PROVE Inv'
<1>1. events' = events \cup {Send(t, s) : t \in {"checkout", "invoice"}}
  BY DEF Subscribe
<1>2. QED
  BY <1>1, Paying DEF Subscribe

LEMMA RenewInv == ASSUME Inv, NEW s \in Subs, Renew(s) PROVE Inv'
<1>1. events' = events \cup {Send(t, s) : t \in {"invoice"}}
  BY DEF Renew
<1>2. QED
  BY <1>1, Paying DEF Renew

LEMMA EndInv == ASSUME Inv, NEW s \in Subs, End(s) PROVE Inv'
<1>1. events' \subseteq Event
  BY EventType DEF End, Inv, TypeOK, Types
<1>2. Recent'
  <2>1. Send("deleted", s).age <= Delay[s] /\ Send("deleted", s).sub = s
        /\ Send("deleted", s).type = "deleted"
    BY ConstantsAssumption DEF Send
  <2>2. events' = events \cup {Send("deleted", s)} /\ since' = since
    BY DEF End
  <2> HIDE DEF Send
  <2>3. QED
    BY <2>1, <2>2 DEF Recent, Inv
<1>3. req' \in [Workers -> Request] /\ Holding'
  BY ReqKept DEF End
<1>4. stripe' \in [Subs -> [state : {"none", "live", "ended"}, due : Nat, cancel : BOOLEAN]]
  BY DEF End, Inv, TypeOK
<1>5. QED
  BY <1>1, <1>2, <1>3, <1>4 DEF End, Inv, TypeOK, AccessIsBacked, Rows, OneGrant

LEMMA LessType == ASSUME NEW n \in Nat PROVE Less(n) \in Nat /\ (Less(n) > 0 => Less(n) = n - 1)
  BY DEF Less

\* Everything gets a tick older, the rows as well as the payments.
LEMMA TickInv == ASSUME Inv, Tick PROVE Inv'
<1>1. /\ since' \in [Subs -> Nat]
      /\ \A s \in Subs : since[s] \in Nat /\ since'[s] <= since[s] + 1
  BY DEF Tick, Inv, TypeOK
<1>2. ASSUME NEW i \in RowIds, table[i] # None
      PROVE  /\ table'[i] \in Row /\ table'[i].sub = table[i].sub
             /\ table'[i].plan = table[i].plan /\ table'[i].left = Less(table[i].left)
  <2>1. table[i] \in Row /\ table[i].left \in Nat
    BY <1>2 DEF Inv, TypeOK, Row
  <2>2. table'[i] = [table[i] EXCEPT !.left = Less(table[i].left)]
    BY <1>2 DEF Tick
  <2>3. QED
    BY <2>1, <2>2, LessType DEF Row
<1>3. table' \in [RowIds -> Row \cup {None}] /\ Rows' \subseteq Rows
  <2>1. \A i \in RowIds : table[i] = None => table'[i] = None
    BY DEF Tick
  <2>2. table' = [i \in RowIds |-> table'[i]]
    BY DEF Tick
  <2>3. QED
    BY <1>2, <2>1, <2>2 DEF Rows
<1>4. stripe' \in [Subs -> [state : {"none", "live", "ended"}, due : Nat, cancel : BOOLEAN]]
  BY LessType DEF Tick, Inv, TypeOK
<1>5. ASSUME NEW f \in events'
      PROVE  /\ f \in Event /\ f.age <= Delay[f.sub]
             /\ f.type = "deleted" \/ since'[f.sub] <= f.age
  <2>1. PICK e \in events : e.age < Delay[e.sub] /\ f = [e EXCEPT !.age = e.age + 1]
    BY DEF Tick
  <2>2. e \in Event /\ e.age \in Nat /\ e.sub \in Subs
    BY DEF Inv, TypeOK, Event
  <2>3. f \in Event /\ f.age = e.age + 1 /\ f.sub = e.sub /\ f.type = e.type
    BY <2>1, <2>2 DEF Event
  <2>4. since'[e.sub] \in Nat /\ since[e.sub] \in Nat /\ since'[e.sub] <= since[e.sub] + 1
    BY <1>1, <2>2
  <2>5. Delay[e.sub] \in Nat
    BY <2>2, ConstantsAssumption
  <2>6. e.type = "deleted" \/ since[e.sub] <= e.age
    BY DEF Inv, Recent
  <2>7. QED
    BY <2>1, <2>2, <2>3, <2>4, <2>5, <2>6
<1>6. Holding'
  BY DEF Tick, Holding, Held
<1>7. AccessIsBacked'
  <2> SUFFICES ASSUME NEW i \in Rows PROVE OneGrant(table'[i], since'[table'[i].sub])
    BY <1>3 DEF AccessIsBacked, OneGrant
  <2>1. /\ table[i] \in Row /\ table[i].left \in Nat /\ table[i].sub \in Subs
        /\ OneGrant(table[i], since[table[i].sub])
    BY DEF Inv, TypeOK, AccessIsBacked, Rows, Row
  <2>2. /\ table'[i].sub = table[i].sub /\ table'[i].plan = table[i].plan
        /\ table'[i].left = Less(table[i].left)
    BY <1>2 DEF Rows
  <2>3. Granted(table[i].plan) \in Nat /\ Delay[table[i].sub] \in Nat
    BY <2>1, GrantType, ConstantsAssumption
  <2>4. QED
    BY <1>1, <2>1, <2>2, <2>3, LessType DEF OneGrant
<1>8. TypeOK'
  BY <1>1, <1>3, <1>4, <1>5 DEF Tick, Inv, TypeOK
<1>9. QED
  BY <1>5, <1>6, <1>7, <1>8 DEF Inv, Recent

\* A row without its plan is one that the code would now grant a year.
LEMMA DeletePlanInv == ASSUME Inv, NEW p \in Plans, DeletePlan(p) PROVE Inv'
<1>1. ASSUME NEW i \in RowIds
      PROVE  table'[i] \in Row \cup {None} /\ (i \in Rows' => OneGrant(table'[i], since'[table'[i].sub]))
  <2>1. CASE i \in Rows /\ table[i].plan = p
    <3>1. Backed(table[i]) /\ table[i].left \in Nat /\ table[i].sub \in Subs
      BY <2>1, RowIsBacked DEF Backed, Row
    <3>2. table'[i] = [table[i] EXCEPT !.plan = None]
      BY <2>1 DEF DeletePlan
    <3>3. table'[i] \in Row /\ table'[i].sub = table[i].sub /\ table'[i].left = table[i].left
          /\ table'[i].plan = None
      BY <3>1, <3>2 DEF Backed, Row
    <3>4. Granted(table[i].plan) <= Granted(None) /\ Granted(None) \in Nat /\ Granted(table[i].plan) \in Nat
      BY ConstantsAssumption DEF Granted
    <3>5. since'[table[i].sub] = since[table[i].sub] /\ since[table[i].sub] \in Nat
          /\ Delay[table[i].sub] \in Nat
      BY <3>1, ConstantsAssumption DEF DeletePlan, Inv, TypeOK
    <3>6. QED
      BY <3>1, <3>3, <3>4, <3>5 DEF Backed, OneGrant
  <2>2. CASE ~(i \in Rows /\ table[i].plan = p)
    <3>1. table'[i] = table[i] /\ since' = since
      BY <2>2 DEF DeletePlan
    <3>2. QED
      BY <3>1 DEF Inv, TypeOK, AccessIsBacked, Rows, OneGrant
  <2>3. QED
    BY <2>1, <2>2
<1>2. table' \in [RowIds -> Row \cup {None}] /\ AccessIsBacked'
  <2>1. table' = [i \in RowIds |-> table'[i]]
    BY DEF DeletePlan
  <2>2. QED
    BY <1>1, <2>1 DEF AccessIsBacked, Rows
<1>3. req' \in [Workers -> Request] /\ Holding'
  BY ReqKept DEF DeletePlan
<1>4. QED
  BY <1>2, <1>3, ConstantsAssumption DEF DeletePlan, Inv, TypeOK, Recent
-----------------------------------------------------------------------------
(* The webhook *)

\* While an event may still be delivered its payment is recent.
LEMMA EventGrants ==
    ASSUME Inv, NEW e \in events, e.type # "deleted"
    PROVE  e.sub \in Subs /\ since[e.sub] <= Delay[e.sub]
<1>1. e.sub \in Subs /\ e.age \in Nat /\ since[e.sub] \in Nat /\ Delay[e.sub] \in Nat
  BY ConstantsAssumption DEF Inv, TypeOK, Event
<1>2. QED
  BY <1>1 DEF Inv, Recent

\* Nothing is found, and the event is answered.
LEMMA NotFoundInv ==
    ASSUME Inv, NEW type, NEW s, Ack(type, s), UNCHANGED <<table, req, stripe, plans, since, disturbances>>
    PROVE  Inv'
<1>1. req' \in [Workers -> Request] /\ Holding'
  BY ReqKept
<1>2. table' \in [RowIds -> Row \cup {None}] /\ AccessIsBacked'
  BY DEF Inv, TypeOK, AccessIsBacked, Rows, OneGrant
<1>3. QED
  BY <1>1, <1>2, Written

LEMMA CheckoutFindInv ==
    ASSUME Inv, NEW w \in Workers, NEW e \in events, CheckoutFind(w, e)
    PROVE  Inv'
<1>1. e.sub \in Subs /\ since[e.sub] <= Delay[e.sub]
  BY EventGrants DEF CheckoutFind
<1>2. CASE Serve(w, "create", e.type, e.sub, 0, None) /\ UNCHANGED <<table, events>>
  <2> DEFINE r == Serving("create", e.type, e.sub, 0, None)
  <2>1. r \in Request /\ Held(r)
    BY <1>1 DEF CheckoutFind, Serving, Request, Types, Held
  <2>2. req' = [req EXCEPT ![w] = r]
    BY <1>2 DEF Serve
  <2>3. UNCHANGED <<table, stripe, events, plans, since, disturbances>>
    BY <1>2 DEF CheckoutFind
  <2> HIDE DEF r
  <2>4. disturbances' \in 0 .. MaxDisturbances
    BY <2>3 DEF Inv, TypeOK
  <2>5. QED
    BY <2>1, <2>2, <2>3, <2>4, Taken
<1>3. CASE UpdateOnly(e.sub) /\ Ack(e.type, e.sub) /\ UNCHANGED req
  <2>1. UNCHANGED <<req, stripe, plans, since, disturbances>>
    BY <1>3 DEF CheckoutFind
  <2>2. table' \in [RowIds -> Row \cup {None}] /\ AccessIsBacked'
    BY <1>1, <1>3, <2>1, RowUpdated
  <2>3. req' \in [Workers -> Request] /\ Holding'
    BY <2>1, ReqKept
  <2>4. QED
    BY <1>3, <2>1, <2>2, <2>3, Written
<1>4. CASE Ack(e.type, e.sub) /\ UNCHANGED <<table, req>>
  BY <1>4, NotFoundInv DEF CheckoutFind
<1>5. QED
  BY <1>2, <1>3, <1>4 DEF CheckoutFind

LEMMA CheckoutCreateInv ==
    ASSUME Inv, NEW w \in Workers, CheckoutCreate(w)
    PROVE  Inv'
<1> DEFINE s == req[w].sub
<1>1. s \in Subs /\ since[s] <= Delay[s] /\ since' = since
  BY DEF CheckoutCreate, Inv, Holding, Held
<1>2. table' \in [RowIds -> Row \cup {None}] /\ AccessIsBacked'
  <2>1. CASE table' = table
    BY <1>1, <2>1 DEF Inv, TypeOK, AccessIsBacked, Rows, OneGrant
  <2>2. CASE \E i \in RowIds : table' = [table EXCEPT ![i] = Bought(s)]
    <3>1. PICK i \in RowIds : table' = [table EXCEPT ![i] = Bought(s)]
      BY <2>2
    <3>2. Backed(Bought(s))
      BY <1>1, BoughtIsBacked
    <3>3. QED
      BY <1>1, <3>1, <3>2, RowWritten
  <2>3. CASE UpdateOnly(s)
    BY <1>1, <2>3, RowUpdated
  <2>4. QED
    BY <2>1, <2>2, <2>3 DEF CheckoutCreate
<1>3. req' \in [Workers -> Request] /\ Holding'
  BY RequestDone DEF CheckoutCreate
<1>4. Ack(req[w].type, req[w].sub) /\ UNCHANGED <<stripe, plans, since, disturbances>>
  BY DEF CheckoutCreate
<1>5. QED
  BY <1>2, <1>3, <1>4, Written

\* Whatever becomes of the row that was read, it is backed when it is saved.
LEMMA ReadInv ==
    ASSUME Inv, NEW w \in Workers, NEW e \in events, NEW i \in Holder(e.sub), NEW r, Backed(r),
           Serve(w, "save", e.type, e.sub, i, r),
           UNCHANGED <<table, stripe, events, plans, since, disturbances>>
    PROVE  Inv'
<1> DEFINE q == Serving("save", e.type, e.sub, i, r)
<1>1. q \in Request /\ Held(q)
  <2>1. e.type \in Types /\ e.sub \in Subs /\ i \in RowIds
    BY DEF Inv, TypeOK, Event, Holder, Rows
  <2>2. QED
    BY <2>1 DEF Serving, Request, Held, Backed
<1>2. req' = [req EXCEPT ![w] = q]
  BY DEF Serve
<1>3. disturbances' \in 0 .. MaxDisturbances
  BY DEF Inv, TypeOK
<1> HIDE DEF q
<1>4. QED
  BY <1>1, <1>2, <1>3, Taken

LEMMA InvoiceReadInv ==
    ASSUME Inv, NEW w \in Workers, NEW e \in events, InvoiceRead(w, e)
    PROVE  Inv'
<1>1. CASE Holder(e.sub) = {}
  BY <1>1, NotFoundInv DEF InvoiceRead, RowRead, Changed
<1>2. CASE Holder(e.sub) # {}
  <2>1. PICK i \in Holder(e.sub) : Serve(w, "save", e.type, e.sub, i, Paid(table[i]))
    BY <1>2 DEF InvoiceRead, RowRead, Changed
  <2>2. table[i] \in Row /\ table[i].sub = e.sub /\ e.sub \in Subs
    BY EventGrants DEF InvoiceRead, Holder, Rows, Inv, TypeOK
  <2>3. since[e.sub] <= Delay[e.sub]
    BY EventGrants DEF InvoiceRead
  <2>4. Backed(Paid(table[i]))
    <3>1. /\ Paid(table[i]) \in Row /\ Paid(table[i]).sub = e.sub
          /\ Paid(table[i]).left = Granted(Paid(table[i]).plan)
      BY <2>2, GrantType DEF Paid, NewPeriod, Row
    <3>2. QED
      BY <2>3, <3>1, GrantedInTime
  <2>5. UNCHANGED <<table, stripe, events, plans, since, disturbances>>
    BY <1>2 DEF InvoiceRead, RowRead, Changed
  <2>6. QED
    BY <2>1, <2>4, <2>5, ReadInv
<1>3. QED
  BY <1>1, <1>2

LEMMA DeletedReadInv ==
    ASSUME Inv, NEW w \in Workers, NEW e \in events, DeletedRead(w, e)
    PROVE  Inv'
<1>1. CASE Holder(e.sub) = {}
  BY <1>1, NotFoundInv DEF DeletedRead, RowRead, Changed
<1>2. CASE Holder(e.sub) # {}
  <2>1. PICK i \in Holder(e.sub) : Serve(w, "save", e.type, e.sub, i, Expired(table[i]))
    BY <1>2 DEF DeletedRead, RowRead, Changed
  <2>2. Backed(table[i])
    BY RowIsBacked DEF Holder
  <2>3. Backed(Expired(table[i]))
    BY <2>2 DEF Expired, Backed, Row, OneGrant
  <2>4. UNCHANGED <<table, stripe, events, plans, since, disturbances>>
    BY <1>2 DEF DeletedRead, RowRead, Changed
  <2>5. QED
    BY <2>1, <2>3, <2>4, ReadInv
<1>3. QED
  BY <1>1, <1>2
-----------------------------------------------------------------------------
(* Cancellation, saves and kills *)

LEMMA CancelReadInv ==
    ASSUME Inv, NEW w \in Workers, CancelRead(w)
    PROVE  Inv'
<1>1. PICK i \in Rows : Serve(w, "modify", "cancel", None, i, table[i])
  BY DEF CancelRead
<1>2. Backed(table[i]) /\ i \in RowIds
  BY RowIsBacked DEF Rows
<1> DEFINE r == Serving("modify", "cancel", None, i, table[i])
<1>3. r \in Request /\ Held(r)
  BY <1>2 DEF Serving, Request, Held, Backed
<1>4. req' = [req EXCEPT ![w] = r]
  BY <1>1 DEF Serve
<1>5. disturbances' \in 0 .. MaxDisturbances
  BY ConstantsAssumption DEF CancelRead, Inv, TypeOK
<1> HIDE DEF r
<1>6. QED
  BY <1>3, <1>4, <1>5, Taken DEF CancelRead

LEMMA CancelModifyInv ==
    ASSUME Inv, NEW w \in Workers, CancelModify(w)
    PROVE  Inv'
<1> DEFINE r == [req[w] EXCEPT !.at = "save"]
<1>1. req[w] \in Request /\ Held(req[w]) /\ req[w].at = "modify"
  BY DEF CancelModify, Inv, TypeOK, Holding
<1>2. r \in Request /\ Held(r)
  BY <1>1 DEF Request, Held
<1>3. req' = [req EXCEPT ![w] = r]
  BY DEF CancelModify, Inv, TypeOK
<1> HIDE DEF r
<1>4. req' \in [Workers -> Request] /\ Holding'
  BY <1>2, <1>3, ReqSet DEF CancelModify
<1> DEFINE s == req[w].copy.sub
           Known == [state : {"none", "live", "ended"}, due : Nat, cancel : BOOLEAN]
<1>5. stripe' \in [Subs -> Known]
  <2>1. stripe \in [Subs -> Known] /\ s \in Subs
    BY <1>1 DEF Inv, TypeOK, Held, Backed, Row
  <2>2. stripe' = stripe \/ stripe' = [stripe EXCEPT ![s] = [stripe[s] EXCEPT !.cancel = TRUE]]
    BY <2>1 DEF CancelModify
  <2>3. [stripe[s] EXCEPT !.cancel = TRUE] \in Known
    BY <2>1
  <2>4. QED
    BY <2>1, <2>2, <2>3
<1>6. QED
  BY <1>4, <1>5 DEF CancelModify, Inv, TypeOK, Recent, AccessIsBacked, Rows, OneGrant

LEMMA SaveInv ==
    ASSUME Inv, NEW w \in Workers, Save(w)
    PROVE  Inv'
<1>1. Backed(req[w].copy) /\ req[w].id \in RowIds
  BY DEF Save, Inv, Holding, Held
<1>2. req' \in [Workers -> Request] /\ Holding' /\ UNCHANGED <<stripe, plans, since, disturbances>>
  BY RequestDone DEF Save
<1>3. CASE table' = [table EXCEPT ![req[w].id] = req[w].copy] /\ Ack(req[w].type, req[w].sub)
  <2>1. table' \in [RowIds -> Row \cup {None}] /\ AccessIsBacked'
    BY <1>1, <1>2, <1>3, RowWritten
  <2>2. QED
    BY <1>2, <1>3, <2>1, Written
<1>4. CASE UNCHANGED <<table, events>>
  BY <1>2, <1>4 DEF Inv, TypeOK, Recent, AccessIsBacked, Rows, OneGrant
<1>5. QED
  BY <1>3, <1>4 DEF Save

LEMMA CrashInv ==
    ASSUME Inv, NEW w \in Workers, Crash(w)
    PROVE  Inv'
<1>1. disturbances' \in 0 .. MaxDisturbances
  BY ConstantsAssumption DEF Crash, Inv, TypeOK
<1>2. QED
  BY <1>1, IdleRequest, Taken DEF Crash, Done
-----------------------------------------------------------------------------
LEMMA InitInv == Init => Inv
<1> SUFFICES ASSUME Init PROVE Inv
  OBVIOUS
<1>1. TypeOK
  BY IdleRequest, ConstantsAssumption DEF Init, TypeOK, Limit
<1>2. Recent
  BY DEF Init, Recent
<1>3. Holding
  BY IdleRequest DEF Init, Holding
<1>4. AccessIsBacked
  BY DEF Init, AccessIsBacked, Rows
<1>5. QED
  BY <1>1, <1>2, <1>3, <1>4 DEF Inv

LEMMA NextInv == Inv /\ [Next]_vars => Inv'
<1> SUFFICES ASSUME Inv, [Next]_vars PROVE Inv'
  OBVIOUS
<1>1. ASSUME NEW s \in Subs, Subscribe(s) \/ Renew(s) \/ End(s) PROVE Inv'
  BY <1>1, SubscribeInv, RenewInv, EndInv
<1>2. CASE Tick
  BY <1>2, TickInv
<1>3. ASSUME NEW w \in Workers, CancelRead(w) \/ Proceed(w) \/ Crash(w) PROVE Inv'
  BY <1>3, CancelReadInv, CheckoutCreateInv, CancelModifyInv, SaveInv, CrashInv DEF Proceed
<1>4. ASSUME NEW w \in Workers, NEW e \in events, Deliver(w, e) PROVE Inv'
  BY <1>4, CheckoutFindInv, InvoiceReadInv, DeletedReadInv DEF Deliver
<1>5. CASE UNCHANGED vars
  BY <1>5 DEF vars, Inv, TypeOK, Recent, Holding, Held, Backed, AccessIsBacked, Rows, OneGrant
<1>6. ASSUME NEW p \in Plans, DeletePlan(p) PROVE Inv'
  BY <1>6, DeletePlanInv
<1>7. QED
  BY <1>1, <1>2, <1>3, <1>4, <1>5, <1>6 DEF Next

\* Every row, and every row about to be saved, is backed by a recent payment.
THEOREM Invariance == Spec => []Inv
  BY InitInv, NextInv, PTL DEF Spec

\* Rows, events, requests and what Stripe knows keep their types.
THEOREM SubscriptionsTypeCorrect == Spec => []TypeOK
<1>1. Inv => TypeOK
  BY DEF Inv
<1>2. QED
  BY <1>1, Invariance, PTL

\* The access a row grants ends at most one grant of its plan (a year without
\* one) and the delay of an event after the last payment of its subscription:
\* whatever requests overlap in the webhook and the cancellation, however often
\* events come, whatever Stripe bills and whichever plans are deleted.
THEOREM SubscriptionsBackAccess == Spec => []AccessIsBacked
<1>1. Inv => AccessIsBacked
  BY DEF Inv
<1>2. QED
  BY <1>1, Invariance, PTL
=============================================================================

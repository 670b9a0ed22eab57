----------------------- MODULE OrderPaymentsRefinement ----------------------
(***************************************************************************)
(* OrderPayments implements PurchaseLedger, for any number of students,    *)
(* workers, orders and intents, and whether or not locks expire under the  *)
(* requests that hold them.                                                *)
(***************************************************************************)
EXTENDS OrderPaymentsProofs

-----------------------------------------------------------------------------
(* Each intent is linked to one order. *)

\* Links and intents are written once, at views.py:115-131: no other step
\* changes which order an intent is for.
LEMMA StepLinks ==
    ASSUME BaseInv, LinksOK, [Next]_vars
    PROVE  LinksOK'
<1> USE ConstantsAssumption DEF BaseInv, TypeOK
<1>a. ASSUME payment' = payment,
             \A i \in IntentIds : intents[i] # None => intents'[i].order = intents[i].order,
             \A i \in IntentIds : intents'[i] # None /\ intents'[i].status = "succeeded"
                => payment[intents'[i].order] = i,
             \A w \in Workers : pc'[w] = "c_link" =>
                /\ pc[w] = "c_link" /\ found'[w] = found[w] /\ intent'[w] = intent[w]
      PROVE  LinksOK'
  BY <1>a DEF LinksOK, ReferencesOK, Locals, LocalsOf, CreateLocals
<1>1. ASSUME NEW w \in Workers, CreateIntent(w) PROVE LinksOK'
  <2>1. PICK i \in IntentIds :
          /\ intents[i] = None
          /\ intents' = [intents EXCEPT ![i] =
                [order |-> found[w], amount |-> row[w].amount, status |-> "open"]]
          /\ \/ Goto(w, "c_link") /\ intent' = [intent EXCEPT ![w] = i]
             \/ Goto(w, "c_release") /\ UNCHANGED intent
    BY <1>1 DEF CreateIntent
  <2>a. /\ pc'[w] = "c_link" => intent'[w] = i
        /\ \A v \in Workers \ {w} : pc'[v] = pc[v] /\ intent'[v] = intent[v]
    BY <2>1 DEF Goto
  <2>2. payment' = payment /\ found' = found
    BY <1>1 DEF CreateIntent, tables
  <2>3. \A j \in IntentIds : intents[j] # None => intents'[j] = intents[j]
    BY <2>1
  <2>4. \A o \in OrderIds : payment'[o] # None => intents'[payment'[o]].order = o
    BY <2>2, <2>3 DEF LinksOK, ReferencesOK
  <2>5. \A v \in Workers \ {w} : pc'[v] = "c_link" =>
            intents'[intent'[v]].order = found'[v]
    BY <2>a, <2>2, <2>3 DEF LinksOK, Locals, LocalsOf, CreateLocals
  <2>6. pc'[w] = "c_link" => intents'[intent'[w]].order = found'[w]
    BY <2>1, <2>a, <2>2
  <2>7. \A j \in IntentIds : intents'[j] # None /\ intents'[j].status = "succeeded"
            => payment'[intents'[j].order] = j
    <3>1. intents'[i].status = "open"
      BY <2>1
    <3>2. QED
      BY <2>1, <2>2, <3>1 DEF LinksOK
  <2>8. QED
    BY <2>4, <2>5, <2>6, <2>7 DEF LinksOK
<1>2. ASSUME NEW w \in Workers, CreateLink(w) PROVE LinksOK'
  <2>1. /\ pc[w] = "c_link" /\ found[w] \in OrderIds
        /\ intent[w] \in IntentIds /\ intents' = intents
        /\ payment' = [payment EXCEPT ![found[w]] = intent[w]]
        /\ found' = found /\ intent' = intent
    BY <1>2 DEF CreateLink, stripe, Locals, LocalsOf, CreateLocals
  <2>2. \A v \in Workers : pc'[v] = "c_link" => pc[v] = "c_link"
    BY <1>2 DEF CreateLink, Goto
  <2>3. payment[found[w]] = None
    BY <1>2 DEF CreateLink
  <2>4. \A j \in IntentIds : intents[j] # None => intents[j].order \in OrderIds
    BY DEF Intents
  <2>5. \A j \in IntentIds : intents'[j] # None /\ intents'[j].status = "succeeded"
            => payment'[intents'[j].order] = j
    BY <2>1, <2>3, <2>4 DEF LinksOK
  <2>6. /\ \A o \in OrderIds : payment'[o] # None => intents'[payment'[o]].order = o
        /\ \A v \in Workers : pc'[v] = "c_link" => intents'[intent'[v]].order = found'[v]
    BY <2>1, <2>2 DEF LinksOK
  <2>7. QED
    BY <2>5, <2>6 DEF LinksOK
<1>3. ASSUME NEW i \in IntentIds, Pay(i) PROVE LinksOK'
  <2>1. intents[i] # None
    BY <1>3 DEF Pay, LinkedTo, ReferencesOK
  <2>2. intents[i] \in Intents
    BY <2>1
  <2>3. \A j \in IntentIds : intents[j] # None => intents'[j].order = intents[j].order
    BY <1>3, <2>2 DEF Pay, Intents
  <2>4. payment[intents[i].order] = i
    BY <1>3 DEF Pay, LinkedTo, LinksOK
  <2>5. \A j \in IntentIds : intents'[j] # None /\ intents'[j].status = "succeeded"
            => payment[intents'[j].order] = j
    <3>1. /\ \A j \in IntentIds \ {i} : intents'[j] = intents[j]
          /\ intents'[i].order = intents[i].order
      BY <1>3, <2>1, <2>3 DEF Pay
    <3>2. QED
      BY <2>4, <3>1 DEF LinksOK
  <2>6. QED
    BY <1>3, <1>a, <2>3, <2>5 DEF Pay, tables, locals
<1>4. ASSUME payment' = payment, intents' = intents,
             \A w \in Workers : pc'[w] = "c_link" => UNCHANGED <<pc[w], found[w], intent[w]>>
      PROVE  LinksOK'
  BY <1>4, <1>a DEF LinksOK
<1>5. ASSUME NEW w \in Workers,
             CreateLock(w) \/ ApplyCheckCode(w) \/ ApplyStep(w) \/ Fail(w) \/ Crash(w)
      PROVE  LinksOK'
  BY <1>5, <1>4 DEF CreateLock, ApplyCheckCode, ApplyStep, ApplyLock, ApplyRefused,
     ApplyCheckUser, ApplyRead, ApplyCommit, ApplyRelease, Fail, Crash, Goto, Finish,
     tables, stripe
<1>6. ASSUME NEW w \in Workers,
             \/ CreateCheckCode(w) \/ CreateRead(w) \/ CreateWrite(w) \/ CreateFree(w)
             \/ CreateUsage(w) \/ CreateRelease(w)
      PROVE  LinksOK'
  BY <1>6, <1>4 DEF CreateCheckCode, CreateRead, CreateWrite, CreateFree, CreateUsage,
     CreateRelease, Goto, Finish, tables, stripe
<1>7. ASSUME \/ \E k \in OrderLocks \cup CodeLocks : ExpireLock(k)
             \/ \E i \in IntentIds : Webhook(i) \/ VerifyPayment(i)
             \/ UNCHANGED vars
      PROVE  LinksOK'
  BY <1>7, <1>4 DEF ExpireLock, Webhook, VerifyPayment, tables, stripe, locals, vars
<1>8. QED
  BY <1>1, <1>2, <1>3, <1>5, <1>6, <1>7 DEF Next, Step, CreateStep

-----------------------------------------------------------------------------
(* How the writes of the handlers look in the ledger *)

\* The write of one order.
LEMMA OrderWritten ==
    ASSUME BaseInv, NEW o \in OrderIds, NEW r \in OrderRows,
           orders' = [orders EXCEPT ![o] = r]
    PROVE  /\ Placed' = Placed \cup {o}
           /\ Free' = IF r.amount = 0 THEN Free \cup {o} ELSE Free \ {o}
           /\ Settled' = IF r.status = "paid" THEN Settled \cup {o} ELSE Settled \ {o}
<1> USE ConstantsAssumption DEF BaseInv, TypeOK
<1>1. orders'[o] = r /\ r # None /\ \A p \in OrderIds \ {o} : orders'[p] = orders[p]
  OBVIOUS
<1>2. \A p \in OrderIds : p \in Placed' <=> p = o \/ p \in Placed
  BY <1>1 DEF Placed
<1>3. \A p \in OrderIds : p \in Free' <=> IF p = o THEN r.amount = 0 ELSE p \in Free
  BY <1>1 DEF Free, Placed
<1>4. \A p \in OrderIds :
         p \in Settled' <=> IF p = o THEN r.status = "paid" ELSE p \in Settled
  BY <1>1 DEF Settled, IsPaid
<1>5. /\ Placed \subseteq OrderIds /\ Placed' \subseteq OrderIds
      /\ Free \subseteq OrderIds /\ Free' \subseteq OrderIds
      /\ Settled \subseteq OrderIds /\ Settled' \subseteq OrderIds
  BY DEF Placed, Free, Settled
<1>6. QED
  BY <1>2, <1>3, <1>4, <1>5

\* What is left alone.
LEMMA BooksKept ==
    /\ UNCHANGED orders => UNCHANGED <<Placed, Free, Settled>>
    /\ UNCHANGED <<payment, intents>> => UNCHANGED ChargedOrders
    /\ UNCHANGED usages => UNCHANGED Waived
  BY DEF Placed, Free, Settled, IsPaid, ChargedOrders, Charged, Waived, UsedFullCode

\* One use of a code is added.
LEMMA UseAdded ==
    ASSUME NEW c \in Codes, NEW u \in Users, NEW o \in OrderIds,
           usages' = usages \cup {<<c, u, o>>}
    PROVE  Waived' = IF Percent[c] = 100 THEN Waived \cup {o} ELSE Waived
<1>1. \A p \in OrderIds :
         UsedFullCode(p)' <=> UsedFullCode(p) \/ (p = o /\ Percent[c] = 100)
  <2> DEFINE x == <<c, u, o>>
  <2>1. x[1] = c /\ x[3] = o
    OBVIOUS
  <2>2. \A y : y \in usages' <=> y \in usages \/ y = x
    OBVIOUS
  <2> HIDE DEF x
  <2>3. QED
    BY <2>1, <2>2 DEF UsedFullCode
<1>2. QED
  BY <1>1 DEF Waived

\* The writes of each request are an entry of the ledger for one order.
LEMMA RequestKeepsBooks ==
    ASSUME BaseInv, LinksOK, NEW w \in Workers, Step(w)
    PROVE  [Ledger!Next]_(Ledger!ledger)
<1> USE ConstantsAssumption DEF BaseInv, TypeOK
<1> DEFINE Books == Ledger!ledger
<1>a. LocalsOf(w)
  BY DEF Locals
<1>b. ASSUME UNCHANGED tables, UNCHANGED intents PROVE UNCHANGED Books
  BY <1>b, BooksKept DEF tables, Ledger!ledger
<1>1. CASE CreateWrite(w)
  <2>1. PICK o \in OrderIds : orders' = [orders EXCEPT ![o] = row[w]]
    BY <1>1, <1>a DEF CreateWrite, Fresh
  <2>2. row[w] \in OrderRows /\ row[w].status = "pending"
    BY <1>1, <1>a, PendingRowType
       DEF CreateWrite, LocalsOf, CreateLocals, PendingRow, CreateSteps
  <2>3. UNCHANGED <<ChargedOrders, Waived>>
    BY <1>1, BooksKept DEF CreateWrite, stripe
  <2>4. Ledger!Place(o)
    BY <2>1, <2>2, <2>3, OrderWritten DEF Ledger!Place
  <2>5. QED
    BY <2>4 DEF Ledger!Next
<1>2. CASE CreateFree(w)
  <2> DEFINE r == [row[w] EXCEPT !.status = "paid"]
  <2>1. /\ found[w] \in OrderIds /\ row[w] \in OrderRows /\ row[w].amount = 0
        /\ orders' = [orders EXCEPT ![found[w]] = r]
    BY <1>2, <1>a, PendingRowType
       DEF CreateFree, LocalsOf, CreateLocals, PendingRow, CreateSteps
  <2>2. r \in OrderRows /\ r.amount = 0 /\ r.status = "paid"
    BY <2>1 DEF OrderRows
  <2>3. UNCHANGED <<ChargedOrders, Waived>>
    BY <1>2, BooksKept DEF CreateFree, stripe
  <2> HIDE DEF r
  <2>4. Ledger!Waive(found[w])
    BY <2>1, <2>2, <2>3, OrderWritten DEF Ledger!Waive
  <2>5. QED
    BY <2>1, <2>4 DEF Ledger!Next
<1>3. CASE CreateUsage(w)
  <2>1. /\ found[w] \in Placed /\ call[w].code \in Codes
        /\ usages' = usages \cup {<<call[w].code, call[w].user, found[w]>>}
    BY <1>3, <1>a DEF CreateUsage, LocalsOf, OwnsFound, CreateLocals, CreateSteps,
       Calls, Placed
  <2>2. UNCHANGED <<Placed, Free, Settled, ChargedOrders>>
    BY <1>3, BooksKept DEF CreateUsage, stripe
  <2>3. found[w] \in OrderIds
    BY <2>1 DEF Placed
  <2>4. Waived' = Waived \/ Waived' = Waived \cup {found[w]}
    <3>1. call[w].user \in Users
      BY <1>3, <1>a DEF CreateUsage, LocalsOf, CreateLocals, CreateSteps, Calls
    <3>2. PICK c \in Codes, u \in Users : usages' = usages \cup {<<c, u, found[w]>>}
      BY <2>1, <3>1
    <3>3. QED
      BY <2>3, <3>2, UseAdded
  <2>5. CASE Waived' = Waived
    BY <2>2, <2>5 DEF Ledger!ledger
  <2>6. CASE Waived' = Waived \cup {found[w]}
    <3>1. Free' = Free \cup {found[w]} \/ Free' = Free \ {found[w]}
      BY <2>2
    <3>2. Ledger!Redeem(found[w])
      BY <2>1, <2>2, <2>6, <3>1 DEF Ledger!Redeem
    <3>3. QED
      BY <2>3, <3>2 DEF Ledger!Next
  <2>7. QED
    BY <2>4, <2>5, <2>6
<1>4. CASE ApplyCommit(w)
  <2>1. PICK o \in OrderIds :
          /\ orders' = [orders EXCEPT ![o] = row[w]]
          /\ usages' = usages \cup {<<call[w].code, call[w].user, o>>}
    BY <1>4, <1>a DEF ApplyCommit, Fresh
  <2>2. /\ row[w] \in OrderRows /\ row[w].status = "paid"
        /\ call[w].code \in Codes /\ Percent[call[w].code] = 100
        /\ call[w].user \in Users
    BY <1>4, <1>a DEF ApplyCommit, LocalsOf, ApplyLocals, ApplySteps, Calls
  <2>3. UNCHANGED ChargedOrders
    BY <1>4, BooksKept DEF ApplyCommit, stripe
  <2>4. Waived' = Waived \cup {o}
    <3>1. PICK c \in Codes, u \in Users :
            Percent[c] = 100 /\ usages' = usages \cup {<<c, u, o>>}
      BY <2>1, <2>2
    <3>2. QED
      BY <3>1, UseAdded
  <2>5. Ledger!Redeem(o)
    BY <2>1, <2>2, <2>3, <2>4, OrderWritten DEF Ledger!Redeem
  <2>6. QED
    BY <2>5 DEF Ledger!Next
<1>5. CASE CreateIntent(w) \/ CreateLink(w)
  <2>1. UNCHANGED <<orders, usages>>
    BY <1>5 DEF CreateIntent, CreateLink, tables
  <2>2. \A o \in OrderIds : Charged(o)' <=> Charged(o)
    <3>1. CASE CreateIntent(w)
      <4>1. PICK i \in IntentIds : /\ intents[i] = None
                                   /\ \A j \in IntentIds \ {i} : intents'[j] = intents[j]
        BY <3>1 DEF CreateIntent
      <4>2. QED
        BY <3>1, <4>1 DEF CreateIntent, tables, Charged, ReferencesOK
    <3>2. CASE CreateLink(w)
      <4>1. /\ found[w] \in OrderIds /\ payment[found[w]] = None
            /\ payment' = [payment EXCEPT ![found[w]] = intent[w]]
            /\ intents' = intents
        BY <3>2, <1>a DEF CreateLink, stripe, LocalsOf, CreateLocals
      <4>2. intents[intent[w]].status # "succeeded"
        BY <3>2, <4>1, <1>a DEF CreateLink, LinksOK, LocalsOf, CreateLocals
      <4>3. QED
        BY <4>1, <4>2 DEF Charged
    <3>3. QED
      BY <1>5, <3>1, <3>2
  <2>3. UNCHANGED ChargedOrders
    BY <2>2 DEF ChargedOrders
  <2>4. QED
    BY <2>1, <2>3, BooksKept DEF Ledger!ledger
<1>6. CASE \/ CreateCheckCode(w) \/ CreateRead(w) \/ CreateRelease(w) \/ ApplyLock(w)
           \/ ApplyRefused(w) \/ ApplyCheckUser(w) \/ ApplyRead(w) \/ ApplyRelease(w)
           \/ Fail(w)
  BY <1>6, <1>b DEF CreateCheckCode, CreateRead, CreateRelease, ApplyLock, ApplyRefused,
     ApplyCheckUser, ApplyRead, ApplyRelease, Fail, stripe
<1>7. QED
  BY <1>1, <1>2, <1>3, <1>4, <1>5, <1>6 DEF Step, CreateStep, ApplyStep

\* An event, a verification and a payment are one entry for the one order the
\* intent is linked to.
LEMMA SettlementKeepsBooks ==
    ASSUME BaseInv, LinksOK, NEW i \in IntentIds,
           Webhook(i) \/ VerifyPayment(i) \/ Pay(i)
    PROVE  [Ledger!Next]_(Ledger!ledger)
<1> USE ConstantsAssumption DEF BaseInv, TypeOK
<1>a. \A o \in OrderIds : o \in LinkedTo(i) => o = intents[i].order /\ orders[o] # None
  BY DEF LinkedTo, LinksOK, ReferencesOK
<1>1. CASE Pay(i)
  <2>1. PICK o \in OrderIds : payment[o] = i
    BY <1>1 DEF Pay, LinkedTo
  <2>2. \A p \in OrderIds : payment[p] = i <=> p = o
    BY <1>a, <2>1 DEF LinkedTo
  <2>3. /\ intents[i] # None /\ intents[i].status = "open"
        /\ UNCHANGED <<orders, payment, usages>>
        /\ intents' = [intents EXCEPT ![i].status = "succeeded"]
    BY <1>1, <2>1 DEF Pay, tables, ReferencesOK
  <2>4. /\ intents'[i].status = "succeeded"
        /\ \A j \in IntentIds \ {i} : intents'[j] = intents[j]
    BY <2>3 DEF Intents
  <2>5. \A p \in OrderIds : Charged(p)' <=> Charged(p) \/ p = o
    BY <2>2, <2>3, <2>4 DEF Charged
  <2>6. ChargedOrders' = ChargedOrders \cup {o} /\ o \notin ChargedOrders
    BY <2>1, <2>3, <2>5 DEF ChargedOrders, Charged
  <2>7. o \in Placed
    BY <2>1 DEF Placed, ReferencesOK
  <2>8. Ledger!Charge(o)
    BY <2>3, <2>6, <2>7, BooksKept DEF Ledger!Charge
  <2>9. QED
    BY <2>8 DEF Ledger!Next
<1>2. ASSUME Settle(i), UNCHANGED <<payment, intents>>,
             intents[i] # None, intents[i].status = "succeeded"
      PROVE  [Ledger!Next]_(Ledger!ledger)
  <2> DEFINE due == {o \in LinkedTo(i) : orders[o].status # "paid"}
  <2>1. /\ orders' = [o \in OrderIds |->
               IF o \in due THEN [orders[o] EXCEPT !.status = "paid"] ELSE orders[o]]
        /\ usages' = usages \cup {<<orders[o].code, orders[o].user, o>> :
               o \in {x \in due : orders[x].code # None}}
    BY <1>2, Zenon DEF Settle
  <2>2. UNCHANGED ChargedOrders
    BY <1>2, BooksKept
  <2>3. CASE due = {}
    <3>1. orders' = orders /\ usages' = usages
      BY <2>1, <2>3
    <3>2. QED
      BY <2>2, <3>1, BooksKept DEF Ledger!ledger
  <2>4. CASE due # {}
    <3>1. PICK o \in OrderIds : due = {o}
      BY <1>a, <2>4 DEF LinkedTo
    <3>2. /\ orders[o] \in OrderRows /\ payment[o] = i /\ orders[o].status # "paid"
      BY <1>a, <3>1 DEF LinkedTo
    <3>3. orders' = [orders EXCEPT ![o] = [orders[o] EXCEPT !.status = "paid"]]
      BY <2>1, <3>1
    <3>4. \/ usages' = usages
          \/ /\ orders[o].code \in Codes
             /\ usages' = usages \cup {<<orders[o].code, orders[o].user, o>>}
      <4>1. orders[o].code = None \/ orders[o].code \in Codes
        BY <3>2 DEF OrderRows
      <4>2. CASE orders[o].code = None
        BY <2>1, <3>1, <4>2
      <4>3. CASE orders[o].code \in Codes
        BY <2>1, <3>1, <4>3
      <4>4. QED
        BY <4>1, <4>2, <4>3
    <3> HIDE DEF due
    <3>5. Waived' = Waived \/ Waived' = Waived \cup {o}
      <4>1. CASE usages' = usages
        BY <4>1, BooksKept
      <4>2. CASE usages' # usages
        <5>1. PICK c \in Codes, u \in Users : usages' = usages \cup {<<c, u, o>>}
          BY <3>2, <3>4, <4>2 DEF OrderRows
        <5>2. QED
          BY <5>1, UseAdded
      <4>3. QED
        BY <4>1, <4>2
    <3>6. PICK r \in OrderRows : /\ orders' = [orders EXCEPT ![o] = r]
                                 /\ r.status = "paid" /\ r.amount = orders[o].amount
      <4> DEFINE p == [orders[o] EXCEPT !.status = "paid"]
      <4>1. p \in OrderRows
        BY <3>2, PaidRowType
      <4>2. p.status = "paid" /\ p.amount = orders[o].amount
        BY <3>2 DEF OrderRows
      <4> HIDE DEF p
      <4>3. WITNESS p \in OrderRows
      <4>4. QED
        BY <3>3, <4>2 DEF p
    <3>7. /\ Placed' = Placed \cup {o} /\ Settled' = Settled \cup {o}
          /\ Free' = IF r.amount = 0 THEN Free \cup {o} ELSE Free \ {o}
      BY <3>6, OrderWritten
    <3>8. /\ o \in Placed /\ o \in ChargedOrders /\ o \notin Settled
          /\ (o \in Free <=> r.amount = 0)
      BY <1>2, <3>2, <3>6 DEF Placed, ChargedOrders, Charged, Settled, IsPaid, Free
    <3>9. Ledger!Settle(o)
      BY <2>2, <3>5, <3>7, <3>8 DEF Ledger!Settle
    <3>10. QED
      BY <3>9 DEF Ledger!Next
  <2>5. QED
    BY <2>3, <2>4
<1>3. CASE Webhook(i)
  BY <1>2, <1>3 DEF Webhook, ReferencesOK
<1>4. CASE VerifyPayment(i)
  BY <1>2, <1>4 DEF VerifyPayment, stripe
<1>5. QED
  BY <1>1, <1>3, <1>4

\* Whatever requests are interleaved, repeated, killed or timed out, the orders,
\* payments and uses of codes change as the ledger does: nobody is charged twice
\* for an order, each settlement has its own entry, and no entry is lost.
THEOREM OrdersKeepBooks == Spec => KeepsBooks
<1> USE DEF Ledger!ledger
<1>1. Init => Ledger!Init
  BY DEF Init, Ledger!Init, Placed, Free, ChargedOrders, Charged, Waived, UsedFullCode,
         Settled, IsPaid
<1>2. Init => BaseInv /\ LinksOK
  BY BaseInitially DEF Init, LinksOK
<1>3. BaseInv /\ LinksOK /\ [Next]_vars => (BaseInv /\ LinksOK)'
  BY BaseInductive, StepLinks
<1>4. BaseInv /\ LinksOK /\ [Next]_vars => [Ledger!Next]_(Ledger!ledger)
  <2> SUFFICES ASSUME BaseInv, LinksOK, [Next]_vars
               PROVE  [Ledger!Next]_(Ledger!ledger)
    OBVIOUS
  <2>1. ASSUME UNCHANGED <<tables, intents>> PROVE [Ledger!Next]_(Ledger!ledger)
    BY <2>1, BooksKept DEF tables
  <2>2. CASE \E w \in Workers : Step(w)
    BY <2>2, RequestKeepsBooks
  <2>3. CASE \E i \in IntentIds : Webhook(i) \/ VerifyPayment(i) \/ Pay(i)
    BY <2>3, SettlementKeepsBooks
  <2>4. CASE \/ \E w \in Workers : CreateLock(w) \/ ApplyCheckCode(w) \/ Crash(w)
             \/ \E k \in OrderLocks \cup CodeLocks : ExpireLock(k)
             \/ UNCHANGED vars
    BY <2>1, <2>4 DEF CreateLock, ApplyCheckCode, Crash, ExpireLock, stripe, tables, vars
  <2>5. QED
    BY <2>2, <2>3, <2>4 DEF Next
<1>5. QED
  BY <1>1, <1>2, <1>3, <1>4, PTL DEF Spec, KeepsBooks, Ledger!Spec
=============================================================================

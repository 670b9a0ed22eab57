------------------------ MODULE OrderPaymentsProofs ------------------------
(***************************************************************************)
(* Proofs about OrderPayments, for every number of students, courses,      *)
(* codes, workers, orders and intents.                                     *)
(***************************************************************************)
EXTENDS OrderPayments, TLAPS

\* A price is a natural number of cents, whatever the fee and the percentage
\* (the rounding of views.py:72-75 cannot leave the range of the column).
LEMMA PriceInNat ==
    ASSUME NEW k \in Courses, NEW c \in Codes \cup {None}
    PROVE  Price(k, c) \in Nat
<1>1. Fee[k] \in Nat
  BY ConstantsAssumption
<1>2. CASE c = None
  BY <1>1, <1>2 DEF Price
<1>3. CASE c # None
  <2>1. Percent[c] \in 0 .. 100
    BY <1>3, ConstantsAssumption
  <2>2. 100 - Percent[c] \in Nat
    BY <2>1
  <2>3. \A a, b \in Nat : a * b \in Nat
    OBVIOUS
  <2>4. Fee[k] * (100 - Percent[c]) + 50 \in Nat
    BY <1>1, <2>2, <2>3
  <2>5. \A n \in Nat : n \div 100 \in Nat
    OBVIOUS
  <2>6. QED
    BY <1>3, <2>4, <2>5 DEF Price
<1>4. QED
  BY <1>2, <1>3

\* The row a purchase request saves is a row of the table.
LEMMA PendingRowType ==
    ASSUME NEW c \in Calls
    PROVE  PendingRow(c) \in OrderRows
<1>1. c.user \in Users /\ c.course \in Courses /\ c.code \in Codes \cup {None}
  BY DEF Calls
<1>2. Price(c.course, c.code) \in Nat
  BY <1>1, PriceInNat
<1>3. QED
  BY <1>1, <1>2 DEF PendingRow, OrderRows

\* Saving an order as paid leaves it a row of the table.
LEMMA PaidRowType ==
    ASSUME NEW r \in OrderRows
    PROVE  [r EXCEPT !.status = "paid"] \in OrderRows
  BY DEF OrderRows

-----------------------------------------------------------------------------
(* The tables only grow, and nobody takes an order from its owner. *)

Persist ==
    /\ \A o \in OrderIds : orders[o] # None =>
          /\ orders'[o] # None
          /\ orders'[o].user = orders[o].user
          /\ orders'[o].course = orders[o].course
    /\ \A i \in IntentIds : intents[i] # None =>
          /\ intents'[i] # None
          /\ intents[i].status = "succeeded" => intents'[i] = intents[i]
    /\ \A o \in OrderIds : payment[o] # None => payment'[o] = payment[o]
    /\ usages \subseteq usages'

\* No handler deletes a row, moves an order to another student or course, or
\* loses a charge: the writes of views.py:83-131, 168-178 and 344-357.
LEMMA StepPersists ==
    ASSUME BaseInv, [Next]_vars
    PROVE  Persist
<1> USE ConstantsAssumption DEF BaseInv, TypeOK, Persist
<1>1. ASSUME NEW w \in Workers, CreateLock(w) PROVE Persist
  BY <1>1 DEF CreateLock, tables, stripe, locals
<1>2. ASSUME NEW w \in Workers, ApplyCheckCode(w) PROVE Persist
  BY <1>2 DEF ApplyCheckCode, tables, stripe, locals
<1>3. ASSUME NEW w \in Workers, CreateCheckCode(w) PROVE Persist
  BY <1>3 DEF CreateCheckCode, tables, stripe, locals
<1>4. ASSUME NEW w \in Workers, CreateRead(w) PROVE Persist
  BY <1>4 DEF CreateRead, tables, stripe, locals
<1>5. ASSUME NEW w \in Workers, CreateWrite(w) PROVE Persist
  <2>1. call[w] \in Calls /\ row[w] = PendingRow(call[w])
    BY <1>5 DEF CreateWrite, Locals, LocalsOf, CreateLocals, CreateSteps
  <2>2. row[w] \in OrderRows /\ row[w] # None
    BY <2>1, PendingRowType
  <2>3. row[w].user = call[w].user /\ row[w].course = call[w].course
    BY <2>1 DEF PendingRow
  <2>4. PICK o \in OrderIds :
            /\ orders' = [orders EXCEPT ![o] = row[w]]
            /\ IF found[w] = None THEN orders[o] = None ELSE o = found[w]
    BY <1>5 DEF CreateWrite, Fresh
  <2>5. orders[o] # None => /\ orders[o].user = row[w].user
                            /\ orders[o].course = row[w].course
    BY <1>5, <2>3, <2>4 DEF CreateWrite, Locals, LocalsOf, OwnsFound
  <2>6. QED
    BY <1>5, <2>2, <2>4, <2>5 DEF CreateWrite, stripe
<1>6. ASSUME NEW w \in Workers, CreateFree(w) PROVE Persist
  BY <1>6 DEF CreateFree, Locals, LocalsOf, OwnsFound, CreateLocals, PendingRow, CreateSteps, ApplySteps, stripe, OrderRows
<1>7. ASSUME NEW w \in Workers, CreateUsage(w) PROVE Persist
  BY <1>7 DEF CreateUsage, tables, stripe, locals
<1>8. ASSUME NEW w \in Workers, CreateIntent(w) PROVE Persist
  BY <1>8 DEF CreateIntent, tables, stripe, locals
<1>9. ASSUME NEW w \in Workers, CreateLink(w) PROVE Persist
  BY <1>9 DEF CreateLink, tables, stripe, locals
<1>10. ASSUME NEW w \in Workers, CreateRelease(w) PROVE Persist
  BY <1>10 DEF CreateRelease, tables, stripe, locals
<1>11. ASSUME NEW w \in Workers, ApplyLock(w) PROVE Persist
  BY <1>11 DEF ApplyLock, tables, stripe, locals
<1>12. ASSUME NEW w \in Workers, ApplyRefused(w) PROVE Persist
  BY <1>12 DEF ApplyRefused, tables, stripe, locals
<1>13. ASSUME NEW w \in Workers, ApplyCheckUser(w) PROVE Persist
  BY <1>13 DEF ApplyCheckUser, tables, stripe, locals
<1>14. ASSUME NEW w \in Workers, ApplyRead(w) PROVE Persist
  BY <1>14 DEF ApplyRead, tables, stripe, locals
<1>15. ASSUME NEW w \in Workers, ApplyCommit(w) PROVE Persist
  BY <1>15 DEF ApplyCommit, Locals, LocalsOf, OwnsFound, ApplyLocals, CreateSteps, ApplySteps, Fresh, stripe, OrderRows
<1>16. ASSUME NEW w \in Workers, ApplyRelease(w) PROVE Persist
  BY <1>16 DEF ApplyRelease, tables, stripe, locals
<1>17. ASSUME NEW w \in Workers, Fail(w) PROVE Persist
  BY <1>17 DEF Fail, tables, stripe, locals
<1>18. ASSUME NEW w \in Workers, Crash(w) PROVE Persist
  BY <1>18 DEF Crash, tables, stripe, locals
<1>19. ASSUME NEW k \in OrderLocks \cup CodeLocks, ExpireLock(k) PROVE Persist
  BY <1>19 DEF ExpireLock, tables, stripe, locals
<1>20. ASSUME NEW i \in IntentIds, Webhook(i) PROVE Persist
  BY <1>20 DEF Webhook, Settle, LinkedTo, OrderRows
<1>21. ASSUME NEW i \in IntentIds, VerifyPayment(i) PROVE Persist
  BY <1>21 DEF VerifyPayment, Settle, LinkedTo, OrderRows, stripe
<1>22. ASSUME NEW i \in IntentIds, Pay(i) PROVE Persist
  BY <1>22 DEF Pay, LinkedTo, ReferencesOK, Intents, tables
<1>23. CASE UNCHANGED vars
  BY <1>23 DEF vars, tables, stripe, locals
<1>24. QED
  BY <1>1, <1>2, <1>3, <1>4, <1>5, <1>6, <1>7, <1>8, <1>9, <1>10, <1>11,
       <1>12, <1>13, <1>14, <1>15, <1>16, <1>17, <1>18, <1>19, <1>20, <1>21,
       <1>22, <1>23 DEF Next, Step, CreateStep, ApplyStep

\* Settling an intent changes the status of an order and nothing else of it, and
\* uses codes of orders that exist.
LEMMA SettleType ==
    ASSUME BaseInv, NEW i \in IntentIds, Settle(i)
    PROVE  /\ orders' \in [OrderIds -> OrderRows \cup {None}]
           /\ usages' \subseteq Codes \X Users \X OrderIds
<1> USE ConstantsAssumption DEF BaseInv, TypeOK
<1> DEFINE due == {o \in LinkedTo(i) : orders[o].status # "paid"}
<1>1. \A o \in due : o \in OrderIds /\ orders[o] \in OrderRows
  BY DEF LinkedTo, ReferencesOK
<1>2. \A o \in due : [orders[o] EXCEPT !.status = "paid"] \in OrderRows
  BY <1>1 DEF OrderRows
<1>3. orders' = [o \in OrderIds |->
          IF o \in due THEN [orders[o] EXCEPT !.status = "paid"] ELSE orders[o]]
  BY DEF Settle
<1>4. \A o \in due : orders[o].code # None =>
          <<orders[o].code, orders[o].user, o>> \in Codes \X Users \X OrderIds
  BY <1>1 DEF OrderRows
<1>5. usages' = usages \cup {<<orders[o].code, orders[o].user, o>> :
                                 o \in {x \in due : orders[x].code # None}}
  BY DEF Settle
<1>6. QED
  BY <1>2, <1>3, <1>4, <1>5

\* Every step keeps every table, cache entry and local of its type.
LEMMA StepType ==
    ASSUME BaseInv, [Next]_vars
    PROVE  TypeOK'
<1> USE ConstantsAssumption DEF BaseInv, TypeOK
<1>1. ASSUME NEW w \in Workers, CreateLock(w) PROVE TypeOK'
  <2>1. PICK c \in Calls :
            /\ locks' = [locks EXCEPT ![OrderLock(c)] = w]
            /\ call' = [call EXCEPT ![w] = c]
            /\ pc' = [pc EXCEPT ![w] = IF c.code = None THEN "c_read" ELSE "c_code"]
    BY <1>1 DEF CreateLock, Goto
  <2>2. pc' \in [Workers -> CreateSteps \cup ApplySteps \cup {"idle"}]
    BY <2>1 DEF CreateSteps
  <2>3. locks' \in [OrderLocks \cup CodeLocks -> Workers \cup {"dead", None}]
    BY <2>1
  <2>4. QED
    BY <1>1, <2>1, <2>2, <2>3 DEF CreateLock, tables, stripe
<1>2. ASSUME NEW w \in Workers, ApplyCheckCode(w) PROVE TypeOK'
  BY <1>2 DEF ApplyCheckCode, Goto, Finish, tables, stripe, locals, CreateSteps, ApplySteps
<1>3. ASSUME NEW w \in Workers, CreateCheckCode(w) PROVE TypeOK'
  BY <1>3 DEF CreateCheckCode, Goto, Finish, tables, stripe, locals, CreateSteps, ApplySteps
<1>4. ASSUME NEW w \in Workers, CreateRead(w) PROVE TypeOK'
  <2>1. call[w] \in Calls
    BY <1>4 DEF CreateRead, Locals, LocalsOf, CreateLocals, CreateSteps
  <2>2. row' \in [Workers -> OrderRows \cup {None}]
    BY <1>4, <2>1, PendingRowType DEF CreateRead
  <2>3. found' \in [Workers -> OrderIds \cup {None}]
    BY <1>4 DEF CreateRead, PendingOf, OrdersOf
  <2>4. QED
    BY <1>4, <2>2, <2>3 DEF CreateRead, Goto, CreateSteps, tables, stripe
<1>5. ASSUME NEW w \in Workers, CreateWrite(w) PROVE TypeOK'
  <2>1. PICK o \in OrderIds : /\ orders' = [orders EXCEPT ![o] = row[w]]
                             /\ found' = [found EXCEPT ![w] = o]
    BY <1>5 DEF CreateWrite, Fresh
  <2>2. QED
    BY <1>5, <2>1 DEF CreateWrite, Goto, CreateSteps, stripe
<1>6. ASSUME NEW w \in Workers, CreateFree(w) PROVE TypeOK'
  <2>1. row[w] = PendingRow(call[w]) /\ call[w] \in Calls /\ found[w] \in OrderIds
    BY <1>6 DEF CreateFree, Locals, LocalsOf, CreateLocals, CreateSteps
  <2>2. [row[w] EXCEPT !.status = "paid"] \in OrderRows
    BY <2>1, PendingRowType, PaidRowType
  <2>3. QED
    BY <1>6, <2>1, <2>2 DEF CreateFree, Goto, CreateSteps, stripe
<1>7. ASSUME NEW w \in Workers, CreateUsage(w) PROVE TypeOK'
  <2>1. call[w] \in Calls /\ call[w].code # None /\ found[w] \in OrderIds
    BY <1>7 DEF CreateUsage, Locals, LocalsOf, CreateLocals, CreateSteps
  <2>2. call[w].code \in Codes /\ call[w].user \in Users
    BY <2>1 DEF Calls
  <2>3. QED
    BY <1>7, <2>1, <2>2 DEF CreateUsage, Goto, CreateSteps, stripe
<1>8. ASSUME NEW w \in Workers, CreateIntent(w) PROVE TypeOK'
  <2>1. found[w] \in OrderIds /\ call[w] \in Calls /\ row[w] = PendingRow(call[w])
    BY <1>8 DEF CreateIntent, Locals, LocalsOf, CreateLocals, CreateSteps
  <2>2. row[w].amount \in Nat
    BY <2>1, PendingRowType DEF OrderRows
  <2>3. [order |-> found[w], amount |-> row[w].amount, status |-> "open"] \in Intents
    BY <2>1, <2>2 DEF Intents
  <2>4. QED
    BY <1>8, <2>3 DEF CreateIntent, Goto, CreateSteps, tables
<1>9. ASSUME NEW w \in Workers, CreateLink(w) PROVE TypeOK'
  BY <1>9 DEF CreateLink, Goto, Finish, tables, stripe, locals, CreateSteps, ApplySteps
<1>10. ASSUME NEW w \in Workers, CreateRelease(w) PROVE TypeOK'
  BY <1>10 DEF CreateRelease, Goto, Finish, tables, stripe, locals, CreateSteps, ApplySteps
<1>11. ASSUME NEW w \in Workers, ApplyLock(w) PROVE TypeOK'
  BY <1>11 DEF ApplyLock, Goto, Finish, tables, stripe, locals, CreateSteps, ApplySteps
<1>12. ASSUME NEW w \in Workers, ApplyRefused(w) PROVE TypeOK'
  BY <1>12 DEF ApplyRefused, Goto, Finish, tables, stripe, locals, CreateSteps, ApplySteps
<1>13. ASSUME NEW w \in Workers, ApplyCheckUser(w) PROVE TypeOK'
  BY <1>13 DEF ApplyCheckUser, Goto, Finish, tables, stripe, locals, CreateSteps, ApplySteps
<1>14. ASSUME NEW w \in Workers, ApplyRead(w) PROVE TypeOK'
  <2>1. call[w] \in Calls
    BY <1>14 DEF ApplyRead, Locals, LocalsOf, ApplyLocals, ApplySteps
  <2>2. [user |-> call[w].user, course |-> call[w].course, status |-> "paid",
         amount |-> 0, code |-> None] \in OrderRows
    BY <2>1 DEF Calls, OrderRows
  <2>3. \A o \in OrdersOf(call[w].user, call[w].course) :
            o \in OrderIds /\ [orders[o] EXCEPT !.status = "paid"] \in OrderRows
    BY DEF OrdersOf, OrderRows
  <2>4. /\ row' \in [Workers -> OrderRows \cup {None}]
        /\ found' \in [Workers -> OrderIds \cup {None}]
    BY <1>14, <2>2, <2>3 DEF ApplyRead
  <2>5. QED
    BY <1>14, <2>4 DEF ApplyRead, Goto, ApplySteps, tables, stripe
<1>15. ASSUME NEW w \in Workers, ApplyCommit(w) PROVE TypeOK'
  <2>1. call[w] \in Calls /\ call[w].code \in Codes /\ call[w].user \in Users
    BY <1>15 DEF ApplyCommit, Locals, LocalsOf, ApplyLocals, ApplySteps, Calls
  <2>2. PICK o \in OrderIds :
            /\ orders' = [orders EXCEPT ![o] = row[w]]
            /\ usages' = usages \cup {<<call[w].code, call[w].user, o>>}
    BY <1>15 DEF ApplyCommit, Fresh
  <2>3. QED
    BY <1>15, <2>1, <2>2 DEF ApplyCommit, Goto, ApplySteps, stripe
<1>16. ASSUME NEW w \in Workers, ApplyRelease(w) PROVE TypeOK'
  BY <1>16 DEF ApplyRelease, Goto, Finish, tables, stripe, locals, CreateSteps, ApplySteps
<1>17. ASSUME NEW w \in Workers, Fail(w) PROVE TypeOK'
  BY <1>17 DEF Fail, Goto, Finish, tables, stripe, locals, CreateSteps, ApplySteps
<1>18. ASSUME NEW w \in Workers, Crash(w) PROVE TypeOK'
  BY <1>18 DEF Crash, Goto, Finish, tables, stripe, locals, CreateSteps, ApplySteps
<1>19. ASSUME NEW k \in OrderLocks \cup CodeLocks, ExpireLock(k) PROVE TypeOK'
  BY <1>19 DEF ExpireLock, Goto, Finish, tables, stripe, locals, CreateSteps, ApplySteps
<1>20. ASSUME NEW i \in IntentIds, Webhook(i) PROVE TypeOK'
  BY <1>20, SettleType DEF Webhook, locals
<1>21. ASSUME NEW i \in IntentIds, VerifyPayment(i) PROVE TypeOK'
  BY <1>21, SettleType DEF VerifyPayment, locals, stripe
<1>22. ASSUME NEW i \in IntentIds, Pay(i) PROVE TypeOK'
  BY <1>22 DEF Pay, LinkedTo, ReferencesOK, Intents, tables, locals
<1>23. CASE UNCHANGED vars
  BY <1>23 DEF vars, Goto, Finish, tables, stripe, locals, CreateSteps, ApplySteps
<1>24. QED
  BY <1>1, <1>2, <1>3, <1>4, <1>5, <1>6, <1>7, <1>8, <1>9, <1>10, <1>11,
       <1>12, <1>13, <1>14, <1>15, <1>16, <1>17, <1>18, <1>19, <1>20, <1>21,
       <1>22, <1>23 DEF Next, Step, CreateStep, ApplyStep

-----------------------------------------------------------------------------
(* What the locals of a worker hold survives the steps of the others. *)

SameLocals(v) == /\ pc'[v] = pc[v] /\ call'[v] = call[v] /\ found'[v] = found[v]
                 /\ row'[v] = row[v] /\ intent'[v] = intent[v]

\* A request that does nothing keeps what it knows, because the tables only grow.
LEMMA KeepLocals ==
    ASSUME BaseInv, Persist, NEW v \in Workers, SameLocals(v)
    PROVE  LocalsOf(v)'
<1> USE DEF BaseInv, TypeOK, SameLocals, Locals, LocalsOf
<1>1. OwnsFound(v)'
  BY DEF OwnsFound, Persist
<1>2. CreateLocals(v)'
  BY DEF CreateLocals, Persist
<1>3. ApplyLocals(v)'
  BY DEF ApplyLocals
<1>4. QED
  BY <1>1, <1>2, <1>3

\* A step of one worker is judged by that worker's own locals.
LEMMA StepLocals ==
    ASSUME BaseInv, Persist, [Next]_vars
    PROVE  Locals'
<1> USE ConstantsAssumption DEF BaseInv, TypeOK, CreateSteps, ApplySteps
<1>b. ASSUME NEW w \in Workers, LocalsOf(w)',
             \A v \in Workers \ {w} : SameLocals(v)
      PROVE  Locals'
  BY <1>b, KeepLocals DEF Locals
<1>a. ASSUME \A v \in Workers : SameLocals(v) PROVE Locals'
  BY <1>a, KeepLocals DEF Locals
<1>1. ASSUME NEW w \in Workers, CreateLock(w) PROVE Locals'
  <2>1. \A v \in Workers \ {w} : SameLocals(v)
    BY <1>1 DEF CreateLock, Goto, Finish, SameLocals
  <2>2. LocalsOf(w)'
    BY <1>1 DEF CreateLock, Goto, Finish, Locals, LocalsOf, OwnsFound, CreateLocals, ApplyLocals
  <2>3. QED
    BY <2>1, <2>2, <1>b
<1>2. ASSUME NEW w \in Workers, ApplyCheckCode(w) PROVE Locals'
  <2>1. \A v \in Workers \ {w} : SameLocals(v)
    BY <1>2 DEF ApplyCheckCode, Goto, Finish, SameLocals
  <2>2. LocalsOf(w)'
    BY <1>2 DEF ApplyCheckCode, Goto, Finish, Locals, LocalsOf, OwnsFound, CreateLocals, ApplyLocals
  <2>3. QED
    BY <2>1, <2>2, <1>b
<1>3. ASSUME NEW w \in Workers, CreateCheckCode(w) PROVE Locals'
  <2>1. \A v \in Workers \ {w} : SameLocals(v)
    BY <1>3 DEF CreateCheckCode, Goto, SameLocals
  <2>2. OwnsFound(w)'
    BY <1>3 DEF CreateCheckCode, Goto, Locals, LocalsOf, OwnsFound, Persist
  <2>3. CreateLocals(w)'
    BY <1>3 DEF CreateCheckCode, Goto, Locals, LocalsOf, CreateLocals, Persist
  <2>4. ApplyLocals(w)'
    BY <1>3 DEF CreateCheckCode, Goto, Locals, LocalsOf, CreateLocals, ApplyLocals
  <2>5. pc'[w] # "idle"
    BY <1>3 DEF CreateCheckCode, Goto
  <2>6. QED
    BY <2>1, <2>2, <2>3, <2>4, <2>5, <1>b DEF LocalsOf
<1>4. ASSUME NEW w \in Workers, CreateRead(w) PROVE Locals'
  <2>1. \A v \in Workers \ {w} : SameLocals(v)
    BY <1>4 DEF CreateRead, Goto, SameLocals
  <2>2. OwnsFound(w)'
    <3>1. \A o \in PendingOf(call[w].user, call[w].course) :
             /\ o \in OrderIds /\ orders[o] # None
             /\ orders[o].user = call[w].user /\ orders[o].course = call[w].course
      BY DEF PendingOf, OrdersOf
    <3>2. found'[w] # None =>
              found'[w] \in PendingOf(call[w].user, call[w].course)
      BY <1>4 DEF CreateRead
    <3>3. orders' = orders /\ call' = call
      BY <1>4 DEF CreateRead, tables
    <3>4. QED
      BY <3>1, <3>2, <3>3 DEF OwnsFound
  <2>3. CreateLocals(w)'
    BY <1>4 DEF CreateRead, Goto, Locals, LocalsOf, CreateLocals, Persist
  <2>4. ApplyLocals(w)'
    BY <1>4 DEF CreateRead, Goto, Locals, LocalsOf, CreateLocals, ApplyLocals
  <2>5. pc'[w] # "idle"
    BY <1>4 DEF CreateRead, Goto
  <2>6. QED
    BY <2>1, <2>2, <2>3, <2>4, <2>5, <1>b DEF LocalsOf
<1>5. ASSUME NEW w \in Workers, CreateWrite(w) PROVE Locals'
  <2>1. \A v \in Workers \ {w} : SameLocals(v)
    BY <1>5 DEF CreateWrite, Goto, SameLocals
  <2>p. row[w] \in OrderRows /\ row[w] # None
    BY <1>5, PendingRowType DEF CreateWrite, Locals, LocalsOf, CreateLocals
  <2>2. OwnsFound(w)'
    BY <1>5, <2>p DEF CreateWrite, Goto, Locals, LocalsOf, OwnsFound, CreateLocals, PendingRow, Fresh
  <2>3. CreateLocals(w)'
    <3>1. /\ pc[w] = "c_write" /\ row'[w] = row[w] /\ call'[w] = call[w]
          /\ found'[w] # None
          /\ pc'[w] = IF row[w].amount = 0 THEN "c_free" ELSE "c_stripe"
      BY <1>5 DEF CreateWrite, Goto, Fresh
    <3>2. call[w] # None /\ row[w] = PendingRow(call[w])
      BY <1>5 DEF CreateWrite, Locals, LocalsOf, CreateLocals
    <3>3. PendingRow(call[w]) = PendingRow(call'[w])
      BY <3>1
    <3>4. QED
      BY <3>1, <3>2, <3>3 DEF CreateLocals
  <2>4. ApplyLocals(w)'
    BY <1>5, <2>p DEF CreateWrite, Goto, Locals, LocalsOf, CreateLocals, ApplyLocals
  <2>5. pc'[w] # "idle"
    BY <1>5 DEF CreateWrite, Goto
  <2>6. QED
    BY <2>1, <2>2, <2>3, <2>4, <2>5, <1>b DEF LocalsOf
<1>6. ASSUME NEW w \in Workers, CreateFree(w) PROVE Locals'
  <2>1. \A v \in Workers \ {w} : SameLocals(v)
    BY <1>6 DEF CreateFree, Goto, SameLocals
  <2>2. OwnsFound(w)'
    BY <1>6 DEF CreateFree, Goto, Locals, LocalsOf, OwnsFound, Persist
  <2>3. CreateLocals(w)'
    BY <1>6 DEF CreateFree, Goto, Locals, LocalsOf, CreateLocals, Persist
  <2>4. ApplyLocals(w)'
    BY <1>6 DEF CreateFree, Goto, Locals, LocalsOf, CreateLocals, ApplyLocals
  <2>5. pc'[w] # "idle"
    BY <1>6 DEF CreateFree, Goto
  <2>6. QED
    BY <2>1, <2>2, <2>3, <2>4, <2>5, <1>b DEF LocalsOf
<1>7. ASSUME NEW w \in Workers, CreateUsage(w) PROVE Locals'
  <2>1. \A v \in Workers \ {w} : SameLocals(v)
    BY <1>7 DEF CreateUsage, Goto, Finish, SameLocals
  <2>2. LocalsOf(w)'
    BY <1>7 DEF CreateUsage, Goto, Finish, Locals, LocalsOf, OwnsFound, CreateLocals, ApplyLocals
  <2>3. QED
    BY <2>1, <2>2, <1>b
<1>8. ASSUME NEW w \in Workers, CreateIntent(w) PROVE Locals'
  <2>1. \A v \in Workers \ {w} : SameLocals(v)
    BY <1>8 DEF CreateIntent, Goto, SameLocals
  <2>p. found[w] # None
    BY <1>8 DEF CreateIntent, Locals, LocalsOf, CreateLocals
  <2>2. OwnsFound(w)'
    BY <1>8, <2>p DEF CreateIntent, Goto, Locals, LocalsOf, OwnsFound, Persist
  <2>3. CreateLocals(w)'
    <3>1. /\ pc[w] = "c_stripe" /\ row'[w] = row[w] /\ call'[w] = call[w]
          /\ found'[w] = found[w]
          /\ pc'[w] \in {"c_link", "c_release"}
          /\ call[w] # None /\ row[w] = PendingRow(call[w])
      BY <1>8 DEF CreateIntent, Goto, Locals, LocalsOf, CreateLocals
    <3>2. found[w] \in OrderIds /\ row[w].amount \in Nat
      BY <2>p, <3>1, PendingRowType DEF OrderRows
    <3>3. pc'[w] = "c_link" => intent'[w] # None /\ intents'[intent'[w]] # None
      BY <1>8, <3>2 DEF CreateIntent, Goto, Intents
    <3>4. QED
      BY <2>p, <3>1, <3>3 DEF CreateLocals
  <2>4. ApplyLocals(w)'
    BY <1>8, <2>p DEF CreateIntent, Goto, Locals, LocalsOf, CreateLocals, ApplyLocals
  <2>5. pc'[w] # "idle"
    BY <1>8 DEF CreateIntent, Goto
  <2>6. QED
    BY <2>1, <2>2, <2>3, <2>4, <2>5, <1>b DEF LocalsOf
<1>9. ASSUME NEW w \in Workers, CreateLink(w) PROVE Locals'
  <2>1. \A v \in Workers \ {w} : SameLocals(v)
    BY <1>9 DEF CreateLink, Goto, Finish, SameLocals
  <2>2. LocalsOf(w)'
    BY <1>9 DEF CreateLink, Goto, Finish, Locals, LocalsOf, OwnsFound, CreateLocals, ApplyLocals
  <2>3. QED
    BY <2>1, <2>2, <1>b
<1>10. ASSUME NEW w \in Workers, CreateRelease(w) PROVE Locals'
  <2>1. \A v \in Workers \ {w} : SameLocals(v)
    BY <1>10 DEF CreateRelease, Goto, Finish, SameLocals
  <2>2. LocalsOf(w)'
    BY <1>10 DEF CreateRelease, Goto, Finish, Locals, LocalsOf, OwnsFound, CreateLocals, ApplyLocals
  <2>3. QED
    BY <2>1, <2>2, <1>b
<1>11. ASSUME NEW w \in Workers, ApplyLock(w) PROVE Locals'
  <2>1. \A v \in Workers \ {w} : SameLocals(v)
    BY <1>11 DEF ApplyLock, Goto, SameLocals
  <2>2. OwnsFound(w)'
    BY <1>11 DEF ApplyLock, Goto, Locals, LocalsOf, OwnsFound, Persist
  <2>3. CreateLocals(w)'
    BY <1>11 DEF ApplyLock, Goto, Locals, LocalsOf, CreateLocals, Persist
  <2>4. ApplyLocals(w)'
    BY <1>11 DEF ApplyLock, Goto, Locals, LocalsOf, CreateLocals, ApplyLocals
  <2>5. pc'[w] # "idle"
    BY <1>11 DEF ApplyLock, Goto
  <2>6. QED
    BY <2>1, <2>2, <2>3, <2>4, <2>5, <1>b DEF LocalsOf
<1>12. ASSUME NEW w \in Workers, ApplyRefused(w) PROVE Locals'
  <2>1. \A v \in Workers \ {w} : SameLocals(v)
    BY <1>12 DEF ApplyRefused, Goto, Finish, SameLocals
  <2>2. LocalsOf(w)'
    BY <1>12 DEF ApplyRefused, Goto, Finish, Locals, LocalsOf, OwnsFound, CreateLocals, ApplyLocals
  <2>3. QED
    BY <2>1, <2>2, <1>b
<1>13. ASSUME NEW w \in Workers, ApplyCheckUser(w) PROVE Locals'
  <2>1. \A v \in Workers \ {w} : SameLocals(v)
    BY <1>13 DEF ApplyCheckUser, Goto, SameLocals
  <2>2. OwnsFound(w)'
    BY <1>13 DEF ApplyCheckUser, Goto, Locals, LocalsOf, OwnsFound, Persist
  <2>3. CreateLocals(w)'
    BY <1>13 DEF ApplyCheckUser, Goto, Locals, LocalsOf, CreateLocals, Persist
  <2>4. ApplyLocals(w)'
    BY <1>13 DEF ApplyCheckUser, Goto, Locals, LocalsOf, CreateLocals, ApplyLocals
  <2>5. pc'[w] # "idle"
    BY <1>13 DEF ApplyCheckUser, Goto
  <2>6. QED
    BY <2>1, <2>2, <2>3, <2>4, <2>5, <1>b DEF LocalsOf
<1>14. ASSUME NEW w \in Workers, ApplyRead(w) PROVE Locals'
  <2>1. \A v \in Workers \ {w} : SameLocals(v)
    BY <1>14 DEF ApplyRead, Goto, SameLocals
  <2>2. OwnsFound(w)'
    BY <1>14 DEF ApplyRead, Goto, Locals, LocalsOf, OwnsFound, OrdersOf, tables
  <2>3. CreateLocals(w)'
    BY <1>14 DEF ApplyRead, Goto, Locals, LocalsOf, CreateLocals, Persist
  <2>4. ApplyLocals(w)'
    <3>1. /\ pc[w] = "a_read" /\ call'[w] = call[w] /\ pc'[w] = "a_commit"
          /\ call[w] # None /\ call[w].code # None
          /\ Percent[call[w].code] = 100
      BY <1>14 DEF ApplyRead, Goto, Locals, LocalsOf, ApplyLocals
    <3>2. \A o \in OrdersOf(call[w].user, call[w].course) :
             /\ orders[o] \in OrderRows
             /\ orders[o].user = call[w].user /\ orders[o].course = call[w].course
      BY DEF OrdersOf
    <3>3. row'[w] \in OrderRows /\ row'[w].status = "paid"
          /\ row'[w].user = call[w].user /\ row'[w].course = call[w].course
      <4>1. \E r \in OrderRows : /\ row' = [row EXCEPT ![w] = r]
                                 /\ r.status = "paid" /\ r.user = call[w].user
                                 /\ r.course = call[w].course
        <5>1. CASE OrdersOf(call[w].user, call[w].course) = {}
          <6>1. /\ call[w].user \in Users /\ call[w].course \in Courses
            BY <3>1 DEF Calls
          <6>2. row' = [row EXCEPT ![w] =
                   [user |-> call[w].user, course |-> call[w].course,
                    status |-> "paid", amount |-> 0, code |-> None]]
            BY <1>14, <5>1 DEF ApplyRead
          <6>3. [user |-> call[w].user, course |-> call[w].course,
                 status |-> "paid", amount |-> 0, code |-> None] \in OrderRows
            BY <6>1 DEF OrderRows
          <6>4. QED
            BY <6>2, <6>3
        <5>2. CASE OrdersOf(call[w].user, call[w].course) # {}
          <6>1. PICK o \in OrdersOf(call[w].user, call[w].course) :
                    row' = [row EXCEPT ![w] = [orders[o] EXCEPT !.status = "paid"]]
            BY <1>14, <5>2 DEF ApplyRead
          <6>2. [orders[o] EXCEPT !.status = "paid"] \in OrderRows
            BY <3>2 DEF OrderRows
          <6>3. /\ [orders[o] EXCEPT !.status = "paid"].user = call[w].user
                /\ [orders[o] EXCEPT !.status = "paid"].course = call[w].course
                /\ [orders[o] EXCEPT !.status = "paid"].status = "paid"
            BY <3>2 DEF OrderRows
          <6>4. QED
            BY <6>1, <6>2, <6>3
        <5>3. QED
          BY <5>1, <5>2
      <4>2. QED
        BY <4>1
    <3>4. QED
      BY <3>1, <3>3 DEF ApplyLocals
  <2>5. pc'[w] # "idle"
    BY <1>14 DEF ApplyRead, Goto
  <2>6. QED
    BY <2>1, <2>2, <2>3, <2>4, <2>5, <1>b DEF LocalsOf
<1>15. ASSUME NEW w \in Workers, ApplyCommit(w) PROVE Locals'
  <2>1. \A v \in Workers \ {w} : SameLocals(v)
    BY <1>15 DEF ApplyCommit, Goto, Finish, SameLocals
  <2>2. LocalsOf(w)'
    BY <1>15 DEF ApplyCommit, Goto, Finish, Locals, LocalsOf, OwnsFound, CreateLocals, ApplyLocals
  <2>3. QED
    BY <2>1, <2>2, <1>b
<1>16. ASSUME NEW w \in Workers, ApplyRelease(w) PROVE Locals'
  <2>1. \A v \in Workers \ {w} : SameLocals(v)
    BY <1>16 DEF ApplyRelease, Goto, Finish, SameLocals
  <2>2. LocalsOf(w)'
    BY <1>16 DEF ApplyRelease, Goto, Finish, Locals, LocalsOf, OwnsFound, CreateLocals, ApplyLocals
  <2>3. QED
    BY <2>1, <2>2, <1>b
<1>17. ASSUME NEW w \in Workers, Fail(w) PROVE Locals'
  <2>1. \A v \in Workers \ {w} : SameLocals(v)
    BY <1>17 DEF Fail, Goto, SameLocals
  <2>2. OwnsFound(w)'
    BY <1>17 DEF Fail, Goto, Locals, LocalsOf, OwnsFound, Persist
  <2>3. CreateLocals(w)'
    BY <1>17 DEF Fail, Goto, Locals, LocalsOf, CreateLocals, Persist
  <2>4. ApplyLocals(w)'
    BY <1>17 DEF Fail, Goto, Locals, LocalsOf, CreateLocals, ApplyLocals
  <2>5. pc'[w] # "idle"
    BY <1>17 DEF Fail, Goto
  <2>6. QED
    BY <2>1, <2>2, <2>3, <2>4, <2>5, <1>b DEF LocalsOf
<1>18. ASSUME NEW w \in Workers, Crash(w) PROVE Locals'
  <2>1. \A v \in Workers \ {w} : SameLocals(v)
    BY <1>18 DEF Crash, Goto, Finish, SameLocals
  <2>2. LocalsOf(w)'
    BY <1>18 DEF Crash, Goto, Finish, Locals, LocalsOf, OwnsFound, CreateLocals, ApplyLocals
  <2>3. QED
    BY <2>1, <2>2, <1>b
<1>19. ASSUME NEW k \in OrderLocks \cup CodeLocks, ExpireLock(k) PROVE Locals'
  BY <1>19, <1>a DEF ExpireLock, locals, SameLocals
<1>20. ASSUME NEW i \in IntentIds, Webhook(i) PROVE Locals'
  BY <1>20, <1>a DEF Webhook, locals, SameLocals
<1>21. ASSUME NEW i \in IntentIds, VerifyPayment(i) PROVE Locals'
  BY <1>21, <1>a DEF VerifyPayment, locals, SameLocals
<1>22. ASSUME NEW i \in IntentIds, Pay(i) PROVE Locals'
  BY <1>22, <1>a DEF Pay, locals, SameLocals
<1>23. CASE UNCHANGED vars
  BY <1>23, <1>a DEF vars, SameLocals
<1>24. QED
  BY <1>1, <1>2, <1>3, <1>4, <1>5, <1>6, <1>7, <1>8, <1>9, <1>10, <1>11,
       <1>12, <1>13, <1>14, <1>15, <1>16, <1>17, <1>18, <1>19, <1>20, <1>21,
       <1>22, <1>23 DEF Next, Step, CreateStep, ApplyStep

-----------------------------------------------------------------------------
(* Foreign keys and the events of Stripe. *)

\* No step leaves a link, a usage or an event without what it refers to.
LEMMA StepReferences ==
    ASSUME BaseInv, Persist, [Next]_vars
    PROVE  ReferencesOK'
<1> USE ConstantsAssumption DEF BaseInv, TypeOK
<1>b. ASSUME payment' = payment, usages' = usages, events' = events
      PROVE  ReferencesOK'
  BY <1>b DEF ReferencesOK, Persist
<1>1. ASSUME NEW w \in Workers, CreateLock(w) PROVE ReferencesOK'
  BY <1>1, <1>b DEF CreateLock, tables, stripe
<1>2. ASSUME NEW w \in Workers, ApplyCheckCode(w) PROVE ReferencesOK'
  BY <1>2, <1>b DEF ApplyCheckCode, tables, stripe
<1>3. ASSUME NEW w \in Workers, CreateCheckCode(w) PROVE ReferencesOK'
  BY <1>3, <1>b DEF CreateCheckCode, tables, stripe
<1>4. ASSUME NEW w \in Workers, CreateRead(w) PROVE ReferencesOK'
  BY <1>4, <1>b DEF CreateRead, tables, stripe
<1>5. ASSUME NEW w \in Workers, CreateWrite(w) PROVE ReferencesOK'
  BY <1>5, <1>b DEF CreateWrite, stripe
<1>6. ASSUME NEW w \in Workers, CreateFree(w) PROVE ReferencesOK'
  BY <1>6, <1>b DEF CreateFree, stripe
<1>7. ASSUME NEW w \in Workers, CreateUsage(w) PROVE ReferencesOK'
  BY <1>7 DEF CreateUsage, Locals, LocalsOf, OwnsFound, CreateLocals, ReferencesOK,
            Persist, stripe
<1>8. ASSUME NEW w \in Workers, CreateIntent(w) PROVE ReferencesOK'
  BY <1>8, <1>b DEF CreateIntent, tables, stripe
<1>9. ASSUME NEW w \in Workers, CreateLink(w) PROVE ReferencesOK'
  BY <1>9 DEF CreateLink, Locals, LocalsOf, OwnsFound, CreateLocals, ReferencesOK,
            Persist, stripe
<1>10. ASSUME NEW w \in Workers, CreateRelease(w) PROVE ReferencesOK'
  BY <1>10, <1>b DEF CreateRelease, tables, stripe
<1>11. ASSUME NEW w \in Workers, ApplyLock(w) PROVE ReferencesOK'
  BY <1>11, <1>b DEF ApplyLock, tables, stripe
<1>12. ASSUME NEW w \in Workers, ApplyRefused(w) PROVE ReferencesOK'
  BY <1>12, <1>b DEF ApplyRefused, tables, stripe
<1>13. ASSUME NEW w \in Workers, ApplyCheckUser(w) PROVE ReferencesOK'
  BY <1>13, <1>b DEF ApplyCheckUser, tables, stripe
<1>14. ASSUME NEW w \in Workers, ApplyRead(w) PROVE ReferencesOK'
  BY <1>14, <1>b DEF ApplyRead, tables, stripe
<1>15. ASSUME NEW w \in Workers, ApplyCommit(w) PROVE ReferencesOK'
  <2>1. row[w] # None
    BY <1>15 DEF ApplyCommit, Locals, LocalsOf, ApplyLocals
  <2>2. PICK o \in OrderIds :
            /\ orders' = [orders EXCEPT ![o] = row[w]]
            /\ usages' = usages \cup {<<call[w].code, call[w].user, o>>}
    BY <1>15 DEF ApplyCommit, Fresh
  <2>3. \A x \in usages' : orders'[x[3]] # None
    BY <2>1, <2>2 DEF ReferencesOK
  <2>4. QED
    BY <1>15, <2>3 DEF ApplyCommit, ReferencesOK, Persist, stripe
<1>16. ASSUME NEW w \in Workers, ApplyRelease(w) PROVE ReferencesOK'
  BY <1>16, <1>b DEF ApplyRelease, tables, stripe
<1>17. ASSUME NEW w \in Workers, Fail(w) PROVE ReferencesOK'
  BY <1>17, <1>b DEF Fail, tables, stripe
<1>18. ASSUME NEW w \in Workers, Crash(w) PROVE ReferencesOK'
  BY <1>18, <1>b DEF Crash, tables, stripe
<1>19. ASSUME NEW k \in OrderLocks \cup CodeLocks, ExpireLock(k) PROVE ReferencesOK'
  BY <1>19, <1>b DEF ExpireLock, tables, stripe
<1>20. ASSUME NEW i \in IntentIds, Webhook(i) PROVE ReferencesOK'
  <2>1. \A x \in usages' \ usages : payment[x[3]] # None /\ x[3] \in OrderIds
    BY <1>20 DEF Webhook, Settle, LinkedTo
  <2>2. QED
    BY <1>20, <2>1 DEF Webhook, ReferencesOK, Persist, stripe
<1>21. ASSUME NEW i \in IntentIds, VerifyPayment(i) PROVE ReferencesOK'
  <2>1. \A x \in usages' \ usages : payment[x[3]] # None /\ x[3] \in OrderIds
    BY <1>21 DEF VerifyPayment, Settle, LinkedTo
  <2>2. QED
    BY <1>21, <2>1 DEF VerifyPayment, ReferencesOK, Persist, stripe
<1>22. ASSUME NEW i \in IntentIds, Pay(i) PROVE ReferencesOK'
  <2>1. intents[i] \in Intents
    BY <1>22 DEF Pay, LinkedTo, ReferencesOK
  <2>2. intents'[i].status = "succeeded"
    BY <1>22, <2>1 DEF Pay, Intents
  <2>3. \A j \in IntentIds \ {i} : intents'[j] = intents[j]
    BY <1>22 DEF Pay
  <2>4. QED
    BY <1>22, <2>1, <2>2, <2>3 DEF Pay, ReferencesOK, Persist, tables
<1>23. CASE UNCHANGED vars
  BY <1>23, <1>b DEF vars
<1>24. QED
  BY <1>1, <1>2, <1>3, <1>4, <1>5, <1>6, <1>7, <1>8, <1>9, <1>10, <1>11,
       <1>12, <1>13, <1>14, <1>15, <1>16, <1>17, <1>18, <1>19, <1>20, <1>21,
       <1>22, <1>23 DEF Next, Step, CreateStep, ApplyStep

\* Types, locals and references together are kept by every step.
LEMMA BaseInductive == BaseInv /\ [Next]_vars => BaseInv'
  BY StepPersists, StepType, StepLocals, StepReferences DEF BaseInv

\* Empty tables, free locks and idle workers satisfy the invariant.
LEMMA BaseInitially == Init => BaseInv
<1> USE ConstantsAssumption DEF Init
<1>1. Init => TypeOK
  BY DEF TypeOK
<1>2. Init => Locals
  BY DEF Locals, LocalsOf, OwnsFound, CreateLocals, ApplyLocals, CreateSteps,
         ApplySteps
<1>3. Init => ReferencesOK
  BY DEF ReferencesOK
<1>4. QED
  BY <1>1, <1>2, <1>3 DEF BaseInv

\* Every table, cache entry and local keeps to its type, whatever requests are
\* interleaved, killed or timed out; a handler never dereferences a row, a code
\* or an intent it does not have.
THEOREM TypeCorrect == Spec => []TypeOK
<1>1. BaseInv => TypeOK
  BY DEF BaseInv
<1>2. QED
  BY <1>1, BaseInitially, BaseInductive, PTL DEF Spec

-----------------------------------------------------------------------------
(* No course is given away. *)

\* A charge and a spent 100% code are never taken back.
LEMMA EvidencePersists ==
    ASSUME BaseInv, Persist, NEW o \in OrderIds
    PROVE  /\ Charged(o) => Charged(o)'
           /\ UsedFullCode(o) => UsedFullCode(o)'
<1>1. Charged(o) => Charged(o)'
  BY DEF Charged, BaseInv, TypeOK, ReferencesOK, Persist
<1>2. UsedFullCode(o) => UsedFullCode(o)'
  BY DEF UsedFullCode, Persist
<1>3. QED
  BY <1>1, <1>2

\* Settling an intent that succeeded makes paid only orders that are charged,
\* and spends only codes of such orders.
LEMMA SettleEvidence ==
    ASSUME BaseInv, Persist, NEW i \in IntentIds, Settle(i),
           intents[i] # None, intents[i].status = "succeeded"
    PROVE  /\ PaidHasEvidence => PaidHasEvidence'
           /\ \A x \in usages' \ usages : x[3] \in OrderIds /\ Charged(x[3])'
<1> USE DEF BaseInv, TypeOK
<1>1. \A o \in LinkedTo(i) : o \in OrderIds /\ Charged(o)'
  BY EvidencePersists, ConstantsAssumption DEF LinkedTo, Charged
<1>2. \A o \in OrderIds \ LinkedTo(i) : orders'[o] = orders[o]
  BY DEF Settle
<1>3. \A x \in usages' \ usages : x[3] \in LinkedTo(i)
  BY DEF Settle
<1>4. PaidHasEvidence => PaidHasEvidence'
  BY <1>1, <1>2, EvidencePersists DEF PaidHasEvidence, IsPaid
<1>5. QED
  BY <1>1, <1>3, <1>4

\* An order becomes paid, or changes its price while paid, only in a step that
\* has the evidence at hand.
LEMMA StepPaidEvidence ==
    ASSUME BaseInv, Persist, PaidHasEvidence, [Next]_vars
    PROVE  PaidHasEvidence'
<1> USE ConstantsAssumption DEF BaseInv, TypeOK
<1>b. ASSUME \A o \in OrderIds : orders'[o] = orders[o]
      PROVE  PaidHasEvidence'
  BY <1>b, EvidencePersists DEF PaidHasEvidence, IsPaid
<1>c. ASSUME NEW o \in OrderIds,
             IsPaid(o)' => (Charged(o) \/ orders[o].amount = 0 \/ UsedFullCode(o))',
             \A q \in OrderIds \ {o} : orders'[q] = orders[q]
      PROVE  PaidHasEvidence'
  BY <1>c, EvidencePersists DEF PaidHasEvidence, IsPaid
<1>1. ASSUME NEW w \in Workers, CreateLock(w) PROVE PaidHasEvidence'
  BY <1>1, <1>b DEF CreateLock, tables, stripe
<1>2. ASSUME NEW w \in Workers, ApplyCheckCode(w) PROVE PaidHasEvidence'
  BY <1>2, <1>b DEF ApplyCheckCode, tables, stripe
<1>3. ASSUME NEW w \in Workers, CreateCheckCode(w) PROVE PaidHasEvidence'
  BY <1>3, <1>b DEF CreateCheckCode, tables, stripe
<1>4. ASSUME NEW w \in Workers, CreateRead(w) PROVE PaidHasEvidence'
  BY <1>4, <1>b DEF CreateRead, tables, stripe
<1>5. ASSUME NEW w \in Workers, CreateWrite(w) PROVE PaidHasEvidence'
  <2>1. row[w].status = "pending"
    BY <1>5 DEF CreateWrite, Locals, LocalsOf, CreateLocals, PendingRow
  <2>2. PICK o \in OrderIds : orders' = [orders EXCEPT ![o] = row[w]]
    BY <1>5 DEF CreateWrite, Fresh
  <2>3. ~IsPaid(o)'
    BY <2>1, <2>2 DEF IsPaid
  <2>4. QED
    BY <2>2, <2>3, <1>c
<1>6. ASSUME NEW w \in Workers, CreateFree(w) PROVE PaidHasEvidence'
  <2>1. found[w] \in OrderIds /\ row[w] = PendingRow(call[w]) /\ row[w].amount = 0
    BY <1>6 DEF CreateFree, Locals, LocalsOf, CreateLocals
  <2>2. orders' = [orders EXCEPT ![found[w]] = [row[w] EXCEPT !.status = "paid"]]
    BY <1>6 DEF CreateFree
  <2>3. orders'[found[w]].amount = 0
    BY <2>1, <2>2 DEF PendingRow
  <2>4. QED
    BY <2>1, <2>2, <2>3, <1>c
<1>7. ASSUME NEW w \in Workers, CreateUsage(w) PROVE PaidHasEvidence'
  BY <1>7, <1>b DEF CreateUsage
<1>8. ASSUME NEW w \in Workers, CreateIntent(w) PROVE PaidHasEvidence'
  BY <1>8, <1>b DEF CreateIntent, tables, stripe
<1>9. ASSUME NEW w \in Workers, CreateLink(w) PROVE PaidHasEvidence'
  BY <1>9, <1>b DEF CreateLink
<1>10. ASSUME NEW w \in Workers, CreateRelease(w) PROVE PaidHasEvidence'
  BY <1>10, <1>b DEF CreateRelease, tables, stripe
<1>11. ASSUME NEW w \in Workers, ApplyLock(w) PROVE PaidHasEvidence'
  BY <1>11, <1>b DEF ApplyLock, tables, stripe
<1>12. ASSUME NEW w \in Workers, ApplyRefused(w) PROVE PaidHasEvidence'
  BY <1>12, <1>b DEF ApplyRefused, tables, stripe
<1>13. ASSUME NEW w \in Workers, ApplyCheckUser(w) PROVE PaidHasEvidence'
  BY <1>13, <1>b DEF ApplyCheckUser, tables, stripe
<1>14. ASSUME NEW w \in Workers, ApplyRead(w) PROVE PaidHasEvidence'
  BY <1>14, <1>b DEF ApplyRead, tables, stripe
<1>15. ASSUME NEW w \in Workers, ApplyCommit(w) PROVE PaidHasEvidence'
  <2>1. Percent[call[w].code] = 100
    BY <1>15 DEF ApplyCommit, Locals, LocalsOf, ApplyLocals
  <2>2. PICK o \in OrderIds :
            /\ orders' = [orders EXCEPT ![o] = row[w]]
            /\ usages' = usages \cup {<<call[w].code, call[w].user, o>>}
    BY <1>15 DEF ApplyCommit, Fresh
  <2>3. UsedFullCode(o)'
    <3> DEFINE use == <<call[w].code, call[w].user, o>>
    <3>1. use \in usages' /\ use[1] = call[w].code /\ use[3] = o
      BY <2>2
    <3>2. \E x \in usages' : x[3] = o /\ Percent[x[1]] = 100
      <4> HIDE DEF use
      <4>1. QED
        BY <2>1, <3>1
    <3>3. QED
      BY <3>2 DEF UsedFullCode
  <2>4. QED
    BY <2>2, <2>3, <1>c
<1>16. ASSUME NEW w \in Workers, ApplyRelease(w) PROVE PaidHasEvidence'
  BY <1>16, <1>b DEF ApplyRelease, tables, stripe
<1>17. ASSUME NEW w \in Workers, Fail(w) PROVE PaidHasEvidence'
  BY <1>17, <1>b DEF Fail, tables, stripe
<1>18. ASSUME NEW w \in Workers, Crash(w) PROVE PaidHasEvidence'
  BY <1>18, <1>b DEF Crash, tables, stripe
<1>19. ASSUME NEW k \in OrderLocks \cup CodeLocks, ExpireLock(k) PROVE PaidHasEvidence'
  BY <1>19, <1>b DEF ExpireLock, tables
<1>20. ASSUME NEW i \in IntentIds, Webhook(i) PROVE PaidHasEvidence'
  BY <1>20, SettleEvidence DEF Webhook, ReferencesOK
<1>21. ASSUME NEW i \in IntentIds, VerifyPayment(i) PROVE PaidHasEvidence'
  BY <1>21, SettleEvidence DEF VerifyPayment
<1>22. ASSUME NEW i \in IntentIds, Pay(i) PROVE PaidHasEvidence'
  BY <1>22, <1>b DEF Pay, tables
<1>23. CASE UNCHANGED vars
  BY <1>23, <1>b DEF vars
<1>24. QED
  BY <1>1, <1>2, <1>3, <1>4, <1>5, <1>6, <1>7, <1>8, <1>9, <1>10, <1>11,
       <1>12, <1>13, <1>14, <1>15, <1>16, <1>17, <1>18, <1>19, <1>20, <1>21,
       <1>22, <1>23 DEF Next, Step, CreateStep, ApplyStep

\* A code is spent only in a step that settles a charge or has nothing to charge.
LEMMA StepUseEvidence ==
    ASSUME BaseInv, Persist, UseHasEvidence, [Next]_vars
    PROVE  UseHasEvidence'
<1> USE ConstantsAssumption DEF BaseInv, TypeOK
<1>a. ASSUME NEW x \in usages
      PROVE  (\/ Charged(x[3])
              \/ Percent[x[1]] = 100
              \/ Price(orders[x[3]].course, x[1]) = 0)'
  <2>1. x[3] \in OrderIds /\ orders[x[3]] # None
    BY DEF ReferencesOK
  <2>2. orders'[x[3]].course = orders[x[3]].course
    BY <2>1 DEF Persist
  <2>3. Charged(x[3]) => Charged(x[3])'
    BY <2>1, EvidencePersists
  <2>4. Price(orders'[x[3]].course, x[1]) = Price(orders[x[3]].course, x[1])
    BY <2>2
  <2>5. QED
    BY <2>3, <2>4 DEF UseHasEvidence
<1>b. ASSUME usages' \subseteq usages PROVE UseHasEvidence'
  BY <1>a, <1>b DEF UseHasEvidence
<1>1. ASSUME NEW w \in Workers, CreateLock(w) PROVE UseHasEvidence'
  BY <1>1, <1>b DEF CreateLock, tables, stripe
<1>2. ASSUME NEW w \in Workers, ApplyCheckCode(w) PROVE UseHasEvidence'
  BY <1>2, <1>b DEF ApplyCheckCode, tables, stripe
<1>3. ASSUME NEW w \in Workers, CreateCheckCode(w) PROVE UseHasEvidence'
  BY <1>3, <1>b DEF CreateCheckCode, tables, stripe
<1>4. ASSUME NEW w \in Workers, CreateRead(w) PROVE UseHasEvidence'
  BY <1>4, <1>b DEF CreateRead, tables, stripe
<1>5. ASSUME NEW w \in Workers, CreateWrite(w) PROVE UseHasEvidence'
  BY <1>5, <1>b DEF CreateWrite
<1>6. ASSUME NEW w \in Workers, CreateFree(w) PROVE UseHasEvidence'
  BY <1>6, <1>b DEF CreateFree
<1>7. ASSUME NEW w \in Workers, CreateUsage(w) PROVE UseHasEvidence'
  <2>1. /\ found[w] \in OrderIds /\ call[w] # None
        /\ row[w] = PendingRow(call[w]) /\ row[w].amount = 0
        /\ orders[found[w]].course = call[w].course
        /\ orders' = orders
        /\ usages' = usages \cup {<<call[w].code, call[w].user, found[w]>>}
    BY <1>7 DEF CreateUsage, Locals, LocalsOf, OwnsFound, CreateLocals, CreateSteps
  <2>2. Price(call[w].course, call[w].code) = 0
    BY <2>1 DEF PendingRow
  <2>3. Price(orders'[found[w]].course, call[w].code) = 0
    BY <2>1, <2>2
  <2>4. QED
    BY <1>a, <2>1, <2>3 DEF UseHasEvidence
<1>8. ASSUME NEW w \in Workers, CreateIntent(w) PROVE UseHasEvidence'
  BY <1>8, <1>b DEF CreateIntent, tables, stripe
<1>9. ASSUME NEW w \in Workers, CreateLink(w) PROVE UseHasEvidence'
  BY <1>9, <1>b DEF CreateLink
<1>10. ASSUME NEW w \in Workers, CreateRelease(w) PROVE UseHasEvidence'
  BY <1>10, <1>b DEF CreateRelease, tables, stripe
<1>11. ASSUME NEW w \in Workers, ApplyLock(w) PROVE UseHasEvidence'
  BY <1>11, <1>b DEF ApplyLock, tables, stripe
<1>12. ASSUME NEW w \in Workers, ApplyRefused(w) PROVE UseHasEvidence'
  BY <1>12, <1>b DEF ApplyRefused, tables, stripe
<1>13. ASSUME NEW w \in Workers, ApplyCheckUser(w) PROVE UseHasEvidence'
  BY <1>13, <1>b DEF ApplyCheckUser, tables, stripe
<1>14. ASSUME NEW w \in Workers, ApplyRead(w) PROVE UseHasEvidence'
  BY <1>14, <1>b DEF ApplyRead, tables, stripe
<1>15. ASSUME NEW w \in Workers, ApplyCommit(w) PROVE UseHasEvidence'
  <2>1. Percent[call[w].code] = 100
    BY <1>15 DEF ApplyCommit, Locals, LocalsOf, ApplyLocals
  <2>2. PICK o \in OrderIds :
            usages' = usages \cup {<<call[w].code, call[w].user, o>>}
    BY <1>15 DEF ApplyCommit, Fresh
  <2>3. QED
    BY <1>a, <2>1, <2>2 DEF UseHasEvidence
<1>16. ASSUME NEW w \in Workers, ApplyRelease(w) PROVE UseHasEvidence'
  BY <1>16, <1>b DEF ApplyRelease, tables, stripe
<1>17. ASSUME NEW w \in Workers, Fail(w) PROVE UseHasEvidence'
  BY <1>17, <1>b DEF Fail, tables, stripe
<1>18. ASSUME NEW w \in Workers, Crash(w) PROVE UseHasEvidence'
  BY <1>18, <1>b DEF Crash, tables, stripe
<1>19. ASSUME NEW k \in OrderLocks \cup CodeLocks, ExpireLock(k) PROVE UseHasEvidence'
  BY <1>19, <1>b DEF ExpireLock, tables
<1>20. ASSUME NEW i \in IntentIds, Webhook(i) PROVE UseHasEvidence'
  BY <1>20, <1>a, SettleEvidence DEF Webhook, ReferencesOK, UseHasEvidence
<1>21. ASSUME NEW i \in IntentIds, VerifyPayment(i) PROVE UseHasEvidence'
  BY <1>21, <1>a, SettleEvidence DEF VerifyPayment, UseHasEvidence
<1>22. ASSUME NEW i \in IntentIds, Pay(i) PROVE UseHasEvidence'
  BY <1>22, <1>b DEF Pay, tables
<1>23. CASE UNCHANGED vars
  BY <1>23, <1>b DEF vars
<1>24. QED
  BY <1>1, <1>2, <1>3, <1>4, <1>5, <1>6, <1>7, <1>8, <1>9, <1>10, <1>11,
       <1>12, <1>13, <1>14, <1>15, <1>16, <1>17, <1>18, <1>19, <1>20, <1>21,
       <1>22, <1>23 DEF Next, Step, CreateStep, ApplyStep

\* Every paid order and every spent code keeps its evidence (views.py:97-112,
\* 168-178, 268-278, 350-357): the inductive invariant of the next theorems.
LEMMA EvidenceInvariant == Spec => []EvidenceInv
<1>1. Init => PaidHasEvidence /\ UseHasEvidence
  BY DEF Init, PaidHasEvidence, IsPaid, UseHasEvidence
<1>2. EvidenceInv /\ [Next]_vars => EvidenceInv'
  BY StepPersists, BaseInductive, StepPaidEvidence, StepUseEvidence DEF EvidenceInv
<1>3. QED
  BY <1>1, <1>2, BaseInitially, PTL DEF Spec, EvidenceInv

\* No course is given away: an order is paid only with the money at Stripe, a
\* price of nothing or a spent 100% code, also when locks expire under their
\* holders and workers are killed between any two statements.
THEOREM NothingIsGivenAway == Spec => []PaidHasEvidence
<1>1. EvidenceInv => PaidHasEvidence
  BY DEF EvidenceInv
<1>2. QED
  BY <1>1, EvidenceInvariant, PTL

\* A code is spent only by a purchase that went through.
THEOREM CodesAreSpentOnPurchases == Spec => []UseHasEvidence
<1>1. EvidenceInv => UseHasEvidence
  BY DEF EvidenceInv
<1>2. QED
  BY <1>1, EvidenceInvariant, PTL

-----------------------------------------------------------------------------
(* While no lock expires under its holder, purchases of a course by a student *)
(* are served one at a time.                                                  *)

\* The lock of a purchase request stays its own until it deletes it.
LEMMA StepHoldsOrderLock ==
    ASSUME LocksOutliveRequests, BaseInv, HoldsOrderLock, [Next]_vars
    PROVE  HoldsOrderLock'
<1> USE ConstantsAssumption DEF BaseInv, TypeOK, HoldsOrderLock, CreateSteps, ApplySteps
<1>b. ASSUME NEW w \in Workers, locks' = locks, call'[w] = call[w],
             pc'[w] \in CreateSteps => pc[w] \in CreateSteps,
             \A v \in Workers \ {w} : pc'[v] = pc[v] /\ call'[v] = call[v]
      PROVE  HoldsOrderLock'
  BY <1>b DEF OrderLock
<1>c. \A v \in Workers : pc[v] \in CreateSteps =>
          call[v] # None /\ OrderLock(call[v]) \in OrderLocks
  BY DEF Locals, LocalsOf, CreateLocals, OrderLock, OrderLocks, Calls
<1>d. \A c \in Calls : OrderLock(c) \in OrderLocks
  BY DEF OrderLock, OrderLocks, Calls
<1>e. \A c \in Calls : c.code # None => CodeLock(c) \in CodeLocks
  BY DEF CodeLock, CodeLocks, Calls
<1>f. \A k \in OrderLocks, l \in CodeLocks : k # l
  BY DEF OrderLocks, CodeLocks
<1>1. ASSUME NEW w \in Workers, CreateLock(w) PROVE HoldsOrderLock'
  <2>1. PICK c \in Calls :
            /\ locks[OrderLock(c)] = None
            /\ locks' = [locks EXCEPT ![OrderLock(c)] = w]
            /\ call' = [call EXCEPT ![w] = c]
            /\ pc' = [pc EXCEPT ![w] = IF c.code = None THEN "c_read" ELSE "c_code"]
    BY <1>1 DEF CreateLock, Goto
  <2>a. \A v \in Workers \ {w} : pc'[v] = pc[v] /\ call'[v] = call[v]
    BY <2>1
  <2>2. locks'[OrderLock(call'[w])] = w
    BY <2>1, <1>d
  <2>3. ASSUME NEW v \in Workers \ {w}, pc[v] \in CreateSteps
        PROVE  locks'[OrderLock(call'[v])] = v
    <3>1. locks[OrderLock(call[v])] = v /\ OrderLock(call[v]) \in OrderLocks
      BY <2>3, <1>c
    <3>2. OrderLock(call[v]) # OrderLock(c)
      BY <2>1, <3>1
    <3>3. locks'[OrderLock(call[v])] = v
      BY <2>1, <3>1, <3>2
    <3>4. call'[v] = call[v]
      BY <2>a
    <3>5. QED
      BY <3>3, <3>4
  <2>4. \A v \in Workers : pc'[v] \in CreateSteps => locks'[OrderLock(call'[v])] = v
    BY <2>a, <2>2, <2>3
  <2>5. QED
    BY <2>4 DEF OrderLock
<1>2. ASSUME NEW w \in Workers, ApplyCheckCode(w) PROVE HoldsOrderLock'
  <2>1. /\ pc'[w] = "a_lock" /\ locks' = locks
        /\ \A v \in Workers \ {w} : pc'[v] = pc[v] /\ call'[v] = call[v]
    BY <1>2 DEF ApplyCheckCode, Goto
  <2>2. QED
    BY <2>1 DEF OrderLock
<1>3. ASSUME NEW w \in Workers, CreateCheckCode(w) PROVE HoldsOrderLock'
  BY <1>3, <1>b DEF CreateCheckCode, Goto
<1>4. ASSUME NEW w \in Workers, CreateRead(w) PROVE HoldsOrderLock'
  BY <1>4, <1>b DEF CreateRead, Goto
<1>5. ASSUME NEW w \in Workers, CreateWrite(w) PROVE HoldsOrderLock'
  BY <1>5, <1>b DEF CreateWrite, Goto
<1>6. ASSUME NEW w \in Workers, CreateFree(w) PROVE HoldsOrderLock'
  BY <1>6, <1>b DEF CreateFree, Goto
<1>7. ASSUME NEW w \in Workers, CreateUsage(w) PROVE HoldsOrderLock'
  BY <1>7, <1>b DEF CreateUsage, Goto
<1>8. ASSUME NEW w \in Workers, CreateIntent(w) PROVE HoldsOrderLock'
  BY <1>8, <1>b DEF CreateIntent, Goto
<1>9. ASSUME NEW w \in Workers, CreateLink(w) PROVE HoldsOrderLock'
  BY <1>9, <1>b DEF CreateLink, Goto
<1>10. ASSUME NEW w \in Workers, CreateRelease(w) PROVE HoldsOrderLock'
  <2>1. /\ locks' = [locks EXCEPT ![OrderLock(call[w])] = None]
        /\ pc[w] = "c_release" /\ pc'[w] = "idle"
        /\ \A v \in Workers \ {w} : pc'[v] = pc[v] /\ call'[v] = call[v]
    BY <1>10 DEF CreateRelease, Finish, Goto
  <2>2. ASSUME NEW v \in Workers \ {w}, pc[v] \in CreateSteps
        PROVE  locks'[OrderLock(call[v])] = v
    BY <2>1, <2>2, <1>c
  <2>3. QED
    BY <2>1, <2>2 DEF OrderLock
<1>11. ASSUME NEW w \in Workers, ApplyLock(w) PROVE HoldsOrderLock'
  <2>1. /\ CodeLock(call[w]) \in CodeLocks
        /\ locks' = [locks EXCEPT ![CodeLock(call[w])] = w]
        /\ pc'[w] = "a_user" /\ call' = call
        /\ \A v \in Workers \ {w} : pc'[v] = pc[v]
    BY <1>11, <1>e DEF ApplyLock, Goto, Locals, LocalsOf, ApplyLocals
  <2>2. ASSUME NEW v \in Workers, pc'[v] \in CreateSteps
        PROVE  locks'[OrderLock(call[v])] = v
    BY <2>1, <2>2, <1>c, <1>f
  <2>3. QED
    BY <2>1, <2>2 DEF OrderLock
<1>12. ASSUME NEW w \in Workers, ApplyRefused(w) PROVE HoldsOrderLock'
  <2>1. /\ pc'[w] = "idle" /\ locks' = locks
        /\ \A v \in Workers \ {w} : pc'[v] = pc[v] /\ call'[v] = call[v]
    BY <1>12 DEF ApplyRefused, Finish, Goto
  <2>2. QED
    BY <2>1 DEF OrderLock
<1>13. ASSUME NEW w \in Workers, ApplyCheckUser(w) PROVE HoldsOrderLock'
  BY <1>13, <1>b DEF ApplyCheckUser, Goto
<1>14. ASSUME NEW w \in Workers, ApplyRead(w) PROVE HoldsOrderLock'
  BY <1>14, <1>b DEF ApplyRead, Goto
<1>15. ASSUME NEW w \in Workers, ApplyCommit(w) PROVE HoldsOrderLock'
  BY <1>15, <1>b DEF ApplyCommit, Goto
<1>16. ASSUME NEW w \in Workers, ApplyRelease(w) PROVE HoldsOrderLock'
  <2>1. /\ CodeLock(call[w]) \in CodeLocks
        /\ locks' = [locks EXCEPT ![CodeLock(call[w])] = None]
        /\ pc'[w] = "idle"
        /\ \A v \in Workers \ {w} : pc'[v] = pc[v] /\ call'[v] = call[v]
    BY <1>16, <1>e DEF ApplyRelease, Finish, Goto, Locals, LocalsOf, ApplyLocals
  <2>2. ASSUME NEW v \in Workers \ {w}, pc[v] \in CreateSteps
        PROVE  locks'[OrderLock(call[v])] = v
    BY <2>1, <2>2, <1>c, <1>f
  <2>3. QED
    BY <2>1, <2>2 DEF OrderLock
<1>17. ASSUME NEW w \in Workers, Fail(w) PROVE HoldsOrderLock'
  BY <1>17, <1>b DEF Fail, Goto
<1>18. ASSUME NEW w \in Workers, Crash(w) PROVE HoldsOrderLock'
  <2>1. /\ pc'[w] = "idle"
        /\ \A v \in Workers \ {w} : pc'[v] = pc[v] /\ call'[v] = call[v]
        /\ \A k \in OrderLocks : locks[k] # w => locks'[k] = locks[k]
    BY <1>18 DEF Crash, Finish, Goto
  <2>2. ASSUME NEW v \in Workers \ {w}, pc[v] \in CreateSteps
        PROVE  locks'[OrderLock(call[v])] = v
    BY <2>1, <2>2, <1>c
  <2>3. QED
    BY <2>1, <2>2 DEF OrderLock
<1>19. ASSUME NEW k \in OrderLocks \cup CodeLocks, ExpireLock(k) PROVE HoldsOrderLock'
  <2>1. locks[k] = "dead" /\ locks' = [locks EXCEPT ![k] = None]
    BY <1>19 DEF ExpireLock
  <2>2. pc' = pc /\ call' = call
    BY <1>19 DEF ExpireLock, locals
  <2>3. ASSUME NEW v \in Workers, pc[v] \in CreateSteps
        PROVE  locks'[OrderLock(call[v])] = v
    BY <2>1, <2>3, <1>c
  <2>4. QED
    BY <2>2, <2>3 DEF OrderLock
<1>20. ASSUME NEW i \in IntentIds, Webhook(i) PROVE HoldsOrderLock'
  BY <1>20 DEF Webhook, locals, OrderLock
<1>21. ASSUME NEW i \in IntentIds, VerifyPayment(i) PROVE HoldsOrderLock'
  BY <1>21 DEF VerifyPayment, locals, OrderLock
<1>22. ASSUME NEW i \in IntentIds, Pay(i) PROVE HoldsOrderLock'
  BY <1>22 DEF Pay, locals, OrderLock
<1>23. CASE UNCHANGED vars
  BY <1>23 DEF vars, OrderLock
<1>24. QED
  BY <1>1, <1>2, <1>3, <1>4, <1>5, <1>6, <1>7, <1>8, <1>9, <1>10, <1>11,
       <1>12, <1>13, <1>14, <1>15, <1>16, <1>17, <1>18, <1>19, <1>20, <1>21,
       <1>22, <1>23 DEF Next, Step, CreateStep, ApplyStep

\* Two purchase requests under one key are the same request.
LEMMA LockExcludes ==
    ASSUME HoldsOrderLock
    PROVE  OneCreatePerOrderLock
  BY DEF HoldsOrderLock, OneCreatePerOrderLock

\* Only the write of a purchase request adds a pending order, and that one
\* belongs to its caller.
LEMMA StepPendingShrinks ==
    ASSUME BaseInv, Persist, [Next]_vars,
           \A w \in Workers : ~CreateWrite(w),
           NEW u \in Users, NEW k \in Courses
    PROVE  PendingOf(u, k)' \subseteq PendingOf(u, k)
<1> USE ConstantsAssumption DEF BaseInv, TypeOK
<1> DEFINE Shrinks == PendingOf(u, k)' \subseteq PendingOf(u, k)
<1>b. ASSUME orders' = orders PROVE Shrinks
  BY <1>b DEF PendingOf, OrdersOf
<1>c. ASSUME NEW o \in OrderIds, orders'[o] # None => orders'[o].status = "paid",
             \A q \in OrderIds \ {o} : orders'[q] = orders[q]
      PROVE  Shrinks
  BY <1>c DEF PendingOf, OrdersOf
<1>1. ASSUME NEW w \in Workers, CreateLock(w) PROVE Shrinks
  BY <1>1, <1>b DEF CreateLock, tables
<1>2. ASSUME NEW w \in Workers, ApplyCheckCode(w) PROVE Shrinks
  BY <1>2, <1>b DEF ApplyCheckCode, tables
<1>3. ASSUME NEW w \in Workers, CreateCheckCode(w) PROVE Shrinks
  BY <1>3, <1>b DEF CreateCheckCode, tables
<1>4. ASSUME NEW w \in Workers, CreateRead(w) PROVE Shrinks
  BY <1>4, <1>b DEF CreateRead, tables
<1>5. ASSUME NEW w \in Workers, CreateWrite(w) PROVE Shrinks
  BY <1>5
<1>6. ASSUME NEW w \in Workers, CreateFree(w) PROVE Shrinks
  <2>1. found[w] \in OrderIds /\ row[w] = PendingRow(call[w])
    BY <1>6 DEF CreateFree, Locals, LocalsOf, CreateLocals
  <2>2. orders' = [orders EXCEPT ![found[w]] = [row[w] EXCEPT !.status = "paid"]]
    BY <1>6 DEF CreateFree
  <2>3. orders'[found[w]].status = "paid"
    BY <2>1, <2>2 DEF PendingRow
  <2>4. QED
    BY <2>1, <2>2, <2>3, <1>c
<1>7. ASSUME NEW w \in Workers, CreateUsage(w) PROVE Shrinks
  BY <1>7, <1>b DEF CreateUsage
<1>8. ASSUME NEW w \in Workers, CreateIntent(w) PROVE Shrinks
  BY <1>8, <1>b DEF CreateIntent, tables
<1>9. ASSUME NEW w \in Workers, CreateLink(w) PROVE Shrinks
  BY <1>9, <1>b DEF CreateLink
<1>10. ASSUME NEW w \in Workers, CreateRelease(w) PROVE Shrinks
  BY <1>10, <1>b DEF CreateRelease, tables
<1>11. ASSUME NEW w \in Workers, ApplyLock(w) PROVE Shrinks
  BY <1>11, <1>b DEF ApplyLock, tables
<1>12. ASSUME NEW w \in Workers, ApplyRefused(w) PROVE Shrinks
  BY <1>12, <1>b DEF ApplyRefused, tables
<1>13. ASSUME NEW w \in Workers, ApplyCheckUser(w) PROVE Shrinks
  BY <1>13, <1>b DEF ApplyCheckUser, tables
<1>14. ASSUME NEW w \in Workers, ApplyRead(w) PROVE Shrinks
  BY <1>14, <1>b DEF ApplyRead, tables
<1>15. ASSUME NEW w \in Workers, ApplyCommit(w) PROVE Shrinks
  <2>1. row[w].status = "paid"
    BY <1>15 DEF ApplyCommit, Locals, LocalsOf, ApplyLocals
  <2>2. PICK o \in OrderIds : orders' = [orders EXCEPT ![o] = row[w]]
    BY <1>15 DEF ApplyCommit, Fresh
  <2>3. QED
    BY <2>1, <2>2, <1>c
<1>16. ASSUME NEW w \in Workers, ApplyRelease(w) PROVE Shrinks
  BY <1>16, <1>b DEF ApplyRelease, tables
<1>17. ASSUME NEW w \in Workers, Fail(w) PROVE Shrinks
  BY <1>17, <1>b DEF Fail, tables
<1>18. ASSUME NEW w \in Workers, Crash(w) PROVE Shrinks
  BY <1>18, <1>b DEF Crash, tables
<1>19. ASSUME NEW key \in OrderLocks \cup CodeLocks, ExpireLock(key) PROVE Shrinks
  BY <1>19, <1>b DEF ExpireLock, tables
<1>20. ASSUME NEW i \in IntentIds, Webhook(i) PROVE Shrinks
  <2>1. \A o \in LinkedTo(i) : orders[o] \in OrderRows
    BY DEF LinkedTo, ReferencesOK
  <2>2. \A o \in OrderIds : orders'[o] = orders[o] \/ orders'[o].status = "paid"
    BY <1>20, <2>1 DEF Webhook, Settle, OrderRows
  <2>3. QED
    BY <2>2 DEF PendingOf, OrdersOf
<1>21. ASSUME NEW i \in IntentIds, VerifyPayment(i) PROVE Shrinks
  <2>1. \A o \in LinkedTo(i) : orders[o] \in OrderRows
    BY DEF LinkedTo, ReferencesOK
  <2>2. \A o \in OrderIds : orders'[o] = orders[o] \/ orders'[o].status = "paid"
    BY <1>21, <2>1 DEF VerifyPayment, Settle, OrderRows
  <2>3. QED
    BY <2>2 DEF PendingOf, OrdersOf
<1>22. ASSUME NEW i \in IntentIds, Pay(i) PROVE Shrinks
  BY <1>22, <1>b DEF Pay, tables
<1>23. CASE UNCHANGED vars
  BY <1>23, <1>b DEF vars
<1>24. QED
  BY <1>1, <1>2, <1>3, <1>4, <1>5, <1>6, <1>7, <1>8, <1>9, <1>10, <1>11,
       <1>12, <1>13, <1>14, <1>15, <1>16, <1>17, <1>18, <1>19, <1>20, <1>21,
       <1>22, <1>23 DEF Next, Step, CreateStep, ApplyStep

\* The statements of a purchase request that know what get_or_create found.
AfterRead == {"c_write", "c_free", "c_usage", "c_stripe", "c_link"}

\* A request knows it only by reading, or because it knew it already.
Knows(v) ==
    pc'[v] \in AfterRead =>
        \/ CreateRead(v)
        \/ pc[v] \in AfterRead /\ call'[v] = call[v] /\ found'[v] = found[v]

\* Only its own read (views.py:83-89) tells a purchase request which order is
\* pending; no step of another worker changes what it found.
LEMMA StepKnows ==
    ASSUME TypeOK, [Next]_vars, \A w \in Workers : ~CreateWrite(w)
    PROVE  \A v \in Workers : Knows(v)
<1> USE DEF TypeOK, Knows, AfterRead
<1>1. ASSUME NEW w \in Workers, CreateLock(w) PROVE \A v \in Workers : Knows(v)
  BY <1>1 DEF CreateLock, Goto, Finish
<1>2. ASSUME NEW w \in Workers, ApplyCheckCode(w) PROVE \A v \in Workers : Knows(v)
  BY <1>2 DEF ApplyCheckCode, Goto, Finish
<1>3. ASSUME NEW w \in Workers, CreateCheckCode(w) PROVE \A v \in Workers : Knows(v)
  BY <1>3 DEF CreateCheckCode, Goto, Finish
<1>4. ASSUME NEW w \in Workers, CreateRead(w) PROVE \A v \in Workers : Knows(v)
  BY <1>4 DEF CreateRead, Goto, Finish
<1>5. ASSUME NEW w \in Workers, CreateWrite(w) PROVE \A v \in Workers : Knows(v)
  BY <1>5 DEF CreateWrite, Goto, Finish
<1>6. ASSUME NEW w \in Workers, CreateFree(w) PROVE \A v \in Workers : Knows(v)
  BY <1>6 DEF CreateFree, Goto, Finish
<1>7. ASSUME NEW w \in Workers, CreateUsage(w) PROVE \A v \in Workers : Knows(v)
  BY <1>7 DEF CreateUsage, Goto, Finish
<1>8. ASSUME NEW w \in Workers, CreateIntent(w) PROVE \A v \in Workers : Knows(v)
  BY <1>8 DEF CreateIntent, Goto, Finish
<1>9. ASSUME NEW w \in Workers, CreateLink(w) PROVE \A v \in Workers : Knows(v)
  BY <1>9 DEF CreateLink, Goto, Finish
<1>10. ASSUME NEW w \in Workers, CreateRelease(w) PROVE \A v \in Workers : Knows(v)
  BY <1>10 DEF CreateRelease, Goto, Finish
<1>11. ASSUME NEW w \in Workers, ApplyLock(w) PROVE \A v \in Workers : Knows(v)
  BY <1>11 DEF ApplyLock, Goto, Finish
<1>12. ASSUME NEW w \in Workers, ApplyRefused(w) PROVE \A v \in Workers : Knows(v)
  BY <1>12 DEF ApplyRefused, Goto, Finish
<1>13. ASSUME NEW w \in Workers, ApplyCheckUser(w) PROVE \A v \in Workers : Knows(v)
  BY <1>13 DEF ApplyCheckUser, Goto, Finish
<1>14. ASSUME NEW w \in Workers, ApplyRead(w) PROVE \A v \in Workers : Knows(v)
  BY <1>14 DEF ApplyRead, Goto, Finish
<1>15. ASSUME NEW w \in Workers, ApplyCommit(w) PROVE \A v \in Workers : Knows(v)
  BY <1>15 DEF ApplyCommit, Goto, Finish
<1>16. ASSUME NEW w \in Workers, ApplyRelease(w) PROVE \A v \in Workers : Knows(v)
  BY <1>16 DEF ApplyRelease, Goto, Finish
<1>17. ASSUME NEW w \in Workers, Fail(w) PROVE \A v \in Workers : Knows(v)
  BY <1>17 DEF Fail, Goto, Finish
<1>18. ASSUME NEW w \in Workers, Crash(w) PROVE \A v \in Workers : Knows(v)
  BY <1>18 DEF Crash, Goto, Finish
<1>19. ASSUME NEW k \in OrderLocks \cup CodeLocks, ExpireLock(k) PROVE \A v \in Workers : Knows(v)
  BY <1>19 DEF ExpireLock, locals
<1>20. ASSUME NEW i \in IntentIds, Webhook(i) PROVE \A v \in Workers : Knows(v)
  BY <1>20 DEF Webhook, locals
<1>21. ASSUME NEW i \in IntentIds, VerifyPayment(i) PROVE \A v \in Workers : Knows(v)
  BY <1>21 DEF VerifyPayment, locals
<1>22. ASSUME NEW i \in IntentIds, Pay(i) PROVE \A v \in Workers : Knows(v)
  BY <1>22 DEF Pay, locals
<1>23. CASE UNCHANGED vars
  BY <1>23 DEF vars
<1>24. QED
  BY <1>1, <1>2, <1>3, <1>4, <1>5, <1>6, <1>7, <1>8, <1>9, <1>10, <1>11,
       <1>12, <1>13, <1>14, <1>15, <1>16, <1>17, <1>18, <1>19, <1>20, <1>21,
       <1>22, <1>23 DEF Next, Step, CreateStep, ApplyStep

\* What get_or_create found stays all there is: nobody else inserts an order
\* under the lock.
LEMMA StepFoundAllPending ==
    ASSUME LocksOutliveRequests, LockInv, Persist, TypeOK', [Next]_vars
    PROVE  FoundAllPending' /\ AtMostOnePending'
<1> USE ConstantsAssumption
<1> USE DEF AfterRead
<1>1. CASE \E w \in Workers : CreateWrite(w)
  <2>1. PICK w \in Workers : CreateWrite(w)
    BY <1>1
  <2>2. /\ pc[w] = "c_write" /\ call[w] \in Calls /\ row[w] = PendingRow(call[w])
        /\ PendingOf(call[w].user, call[w].course) \subseteq {found[w]}
    BY <2>1 DEF CreateWrite, LockInv, BaseInv, TypeOK, Locals, LocalsOf, CreateLocals,
                CreateSteps, FoundAllPending
  <2>3. PICK o \in OrderIds :
            /\ orders' = [orders EXCEPT ![o] = row[w]]
            /\ found' = [found EXCEPT ![w] = o]
            /\ IF found[w] = None THEN orders[o] = None ELSE o = found[w]
    BY <2>1 DEF CreateWrite, Fresh, LockInv, BaseInv, TypeOK
  <2>4. /\ call' = call
        /\ \A v \in Workers \ {w} : pc'[v] = pc[v] /\ found'[v] = found[v]
    BY <2>1, <2>3 DEF CreateWrite, Goto, LockInv, BaseInv, TypeOK
  <2>5. orders'[o].user = call[w].user /\ orders'[o].course = call[w].course
    BY <2>2, <2>3 DEF LockInv, BaseInv, TypeOK, PendingRow
  <2>6. \A u \in Users, k \in Courses :
            PendingOf(u, k)' \subseteq PendingOf(u, k) \cup {o}
    BY <2>3 DEF PendingOf, OrdersOf, LockInv, BaseInv, TypeOK
  <2>7. \A u \in Users, k \in Courses :
            u # call[w].user \/ k # call[w].course
            => PendingOf(u, k)' \subseteq PendingOf(u, k)
    BY <2>3, <2>5 DEF PendingOf, OrdersOf, LockInv, BaseInv, TypeOK
  <2>8. PendingOf(call[w].user, call[w].course)' \subseteq {o}
    <3>1. call[w].user \in Users /\ call[w].course \in Courses
      BY <2>2 DEF Calls
    <3>2. None \notin PendingOf(call[w].user, call[w].course)
      BY DEF PendingOf, OrdersOf
    <3>3. PendingOf(call[w].user, call[w].course) \subseteq {o}
      BY <2>2, <2>3, <3>2
    <3>4. PendingOf(call[w].user, call[w].course)' =
              {p \in OrderIds : /\ orders'[p] # None
                                /\ orders'[p].user = call[w].user
                                /\ orders'[p].course = call[w].course
                                /\ orders'[p].status = "pending"}
      BY <2>4 DEF PendingOf, OrdersOf
    <3>5. \A p \in OrderIds \ {o} : orders'[p] = orders[p]
      BY <2>3 DEF LockInv, BaseInv, TypeOK
    <3>6. QED
      BY <3>3, <3>4, <3>5 DEF PendingOf, OrdersOf
  <2>9. AtMostOnePending'
    <3> SUFFICES ASSUME NEW u \in Users, NEW k \in Courses
                 PROVE  \A p, q \in PendingOf(u, k)' : p = q
      BY DEF AtMostOnePending
    <3>1. CASE u = call[w].user /\ k = call[w].course
      <4>1. PendingOf(u, k)' \subseteq {o}
        BY <2>4, <2>8, <3>1 DEF PendingOf, OrdersOf
      <4>2. QED
        BY <4>1
    <3>2. CASE ~(u = call[w].user /\ k = call[w].course)
      BY <2>7, <3>2 DEF AtMostOnePending, LockInv
    <3>3. QED
      BY <3>1, <3>2
  <2>10. ASSUME NEW v \in Workers \ {w}, pc[v] \in AfterRead
         PROVE  PendingOf(call[v].user, call[v].course)' \subseteq {found[v]}
    <3>1. call[v] \in Calls /\ pc[v] \in CreateSteps /\ pc[w] \in CreateSteps
      BY <2>2, <2>10 DEF LockInv, BaseInv, TypeOK, Locals, LocalsOf, CreateLocals,
                         CreateSteps
    <3>2. OrderLock(call[v]) # OrderLock(call[w])
      BY <3>1, LockExcludes DEF LockInv, OneCreatePerOrderLock
    <3>3. call[v].user \in Users /\ call[v].course \in Courses
      BY <3>1 DEF Calls
    <3>4. call[v].user # call[w].user \/ call[v].course # call[w].course
      BY <3>2 DEF OrderLock
    <3>5. PendingOf(call[v].user, call[v].course) \subseteq {found[v]}
      BY <2>10 DEF LockInv, FoundAllPending
    <3>6. {p \in OrderIds : /\ orders'[p] # None
                            /\ orders'[p].user = call[v].user
                            /\ orders'[p].course = call[v].course
                            /\ orders'[p].status = "pending"} \subseteq {found[v]}
      BY <2>7, <3>3, <3>4, <3>5 DEF PendingOf, OrdersOf
    <3>7. QED
      BY <2>4, <3>6 DEF PendingOf, OrdersOf
  <2>11. found'[w] = o
    BY <2>3 DEF LockInv, BaseInv, TypeOK
  <2>12. QED
    BY <2>4, <2>8, <2>9, <2>10, <2>11 DEF FoundAllPending
<1>2. CASE \A w \in Workers : ~CreateWrite(w)
  <2>1. \A u \in Users, k \in Courses : PendingOf(u, k)' \subseteq PendingOf(u, k)
    BY <1>2, StepPendingShrinks DEF LockInv
  <2>2. AtMostOnePending'
    BY <2>1 DEF AtMostOnePending, LockInv
  <2>3. ASSUME NEW v \in Workers, pc'[v] \in AfterRead
        PROVE  (PendingOf(call[v].user, call[v].course) \subseteq {found[v]})'
    <3>1. CASE CreateRead(v)
      <4> DEFINE pending == PendingOf(call[v].user, call[v].course)
      <4>1. \A o, q \in pending : o = q
        BY <3>1 DEF CreateRead
      <4>2. pending \subseteq
                {IF pending = {} THEN None ELSE CHOOSE o \in pending : TRUE}
        BY <4>1
      <4>3. /\ found'[v] = IF pending = {} THEN None ELSE CHOOSE o \in pending : TRUE
            /\ orders' = orders /\ call' = call
        BY <3>1 DEF CreateRead, tables, LockInv, BaseInv, TypeOK
      <4>4. pending' = pending
        BY <4>3 DEF PendingOf, OrdersOf
      <4>5. QED
        BY <4>2, <4>3, <4>4
    <3>2. CASE pc[v] \in AfterRead /\ call'[v] = call[v] /\ found'[v] = found[v]
      <4>1. call[v].user \in Users /\ call[v].course \in Courses
        BY <3>2 DEF LockInv, BaseInv, TypeOK, Locals, LocalsOf, CreateLocals,
                    CreateSteps, Calls, AfterRead
      <4>2. PendingOf(call[v].user, call[v].course) \subseteq {found[v]}
        BY <3>2 DEF LockInv, FoundAllPending, AfterRead
      <4>3. {p \in OrderIds : /\ orders'[p] # None
                              /\ orders'[p].user = call[v].user
                              /\ orders'[p].course = call[v].course
                              /\ orders'[p].status = "pending"} \subseteq {found[v]}
        BY <2>1, <4>1, <4>2 DEF PendingOf, OrdersOf
      <4>4. QED
        BY <3>2, <4>3 DEF PendingOf, OrdersOf
    <3>3. Knows(v)
      BY <1>2, StepKnows DEF LockInv, BaseInv
    <3>4. QED
      BY <2>3, <3>1, <3>2, <3>3 DEF Knows
  <2>4. QED
    BY <2>2, <2>3 DEF FoundAllPending, AfterRead
<1>3. QED
  BY <1>1, <1>2

\* While locks outlive requests, the holder of an order lock knows every pending
\* order of its student for its course (views.py:45-141).
LEMMA LockInvariant ==
    ASSUME LocksOutliveRequests
    PROVE  Spec => []LockInv
<1>1. Init => HoldsOrderLock /\ FoundAllPending /\ AtMostOnePending
  BY DEF Init, HoldsOrderLock, FoundAllPending, AtMostOnePending, PendingOf, OrdersOf,
         CreateSteps
<1>2. LockInv /\ [Next]_vars => LockInv'
  <2> SUFFICES ASSUME LockInv, [Next]_vars PROVE LockInv'
    OBVIOUS
  <2>1. BaseInv' /\ Persist
    BY BaseInductive, StepPersists DEF LockInv
  <2>2. HoldsOrderLock'
    BY StepHoldsOrderLock DEF LockInv
  <2>3. FoundAllPending' /\ AtMostOnePending'
    BY <2>1, StepFoundAllPending DEF BaseInv
  <2>4. QED
    BY <2>1, <2>2, <2>3 DEF LockInv
<1>3. QED
  BY <1>1, <1>2, BaseInitially, PTL DEF Spec, LockInv

\* If every purchase request ends before its lock times out, a student never
\* has two pending orders for a course, and get_or_create never finds several.
THEOREM OnePendingOrder ==
    ASSUME LocksOutliveRequests
    PROVE  Spec => []AtMostOnePending
<1>1. LockInv => AtMostOnePending
  BY DEF LockInv
<1>2. QED
  BY <1>1, LockInvariant, PTL

\* Under the same assumption the purchase requests of a student for a course
\* are served one at a time.
THEOREM PurchasesAreSerial ==
    ASSUME LocksOutliveRequests
    PROVE  Spec => []OneCreatePerOrderLock
<1>1. LockInv => OneCreatePerOrderLock
  BY LockExcludes DEF LockInv
<1>2. QED
  BY <1>1, LockInvariant, PTL
-----------------------------------------------------------------------------
(* A free order stays paid. *)

\* Only its own read takes a purchase request to the statement that saves.
LEMMA StepToWrite ==
    ASSUME TypeOK, [Next]_vars, NEW v \in Workers, pc'[v] = "c_write"
    PROVE  CreateRead(v) \/ (pc[v] = "c_write" /\ found'[v] = found[v])
<1> USE DEF TypeOK
<1> DEFINE Same == pc[v] = "c_write" /\ found'[v] = found[v]
<1>1. ASSUME NEW w \in Workers,
             CreateLock(w) \/ ApplyCheckCode(w) \/ ApplyStep(w) \/ Fail(w) \/ Crash(w)
      PROVE  Same
  BY <1>1 DEF CreateLock, ApplyCheckCode, ApplyStep, ApplyLock, ApplyRefused,
     ApplyCheckUser, ApplyRead, ApplyCommit, ApplyRelease, Fail, Crash, Goto, Finish
<1>2. ASSUME NEW w \in Workers,
             \/ CreateCheckCode(w) \/ CreateWrite(w) \/ CreateFree(w) \/ CreateUsage(w)
             \/ CreateIntent(w) \/ CreateLink(w) \/ CreateRelease(w)
      PROVE  Same
  BY <1>2 DEF CreateCheckCode, CreateWrite, CreateFree, CreateUsage, CreateIntent,
     CreateLink, CreateRelease, Goto, Finish
<1>3. ASSUME NEW w \in Workers \ {v}, CreateRead(w) PROVE Same
  BY <1>3 DEF CreateRead, Goto
<1>4. ASSUME \/ \E k \in OrderLocks \cup CodeLocks : ExpireLock(k)
             \/ \E i \in IntentIds : Webhook(i) \/ VerifyPayment(i) \/ Pay(i)
             \/ UNCHANGED vars
      PROVE  Same
  BY <1>4 DEF ExpireLock, Webhook, VerifyPayment, Pay, locals, vars
<1>5. QED
  BY <1>1, <1>2, <1>3, <1>4 DEF Next, Step, CreateStep

\* A step writes one order, as one of the handlers does, settles those of an
\* intent that succeeded, or leaves all orders as they are.
LEMMA StepWrites ==
    ASSUME BaseInv, [Next]_vars
    PROVE  \/ \E w \in Workers : CreateWrite(w) \/ CreateFree(w) \/ ApplyCommit(w)
           \/ \E i \in IntentIds :
                 intents[i] # None /\ intents[i].status = "succeeded" /\ Settle(i)
           \/ orders' = orders
<1>1. ASSUME NEW w \in Workers,
             \/ CreateLock(w) \/ CreateCheckCode(w) \/ CreateRead(w) \/ CreateUsage(w)
             \/ CreateIntent(w) \/ CreateLink(w) \/ CreateRelease(w)
      PROVE  orders' = orders
  BY <1>1 DEF CreateLock, CreateCheckCode, CreateRead, CreateUsage, CreateIntent,
     CreateLink, CreateRelease, tables
<1>2. ASSUME NEW w \in Workers,
             \/ ApplyCheckCode(w) \/ ApplyLock(w) \/ ApplyRefused(w) \/ ApplyCheckUser(w)
             \/ ApplyRead(w) \/ ApplyRelease(w) \/ Fail(w) \/ Crash(w)
      PROVE  orders' = orders
  BY <1>2 DEF ApplyCheckCode, ApplyLock, ApplyRefused, ApplyCheckUser, ApplyRead,
     ApplyRelease, Fail, Crash, tables
<1>3. ASSUME \/ \E k \in OrderLocks \cup CodeLocks : ExpireLock(k)
             \/ \E i \in IntentIds : Pay(i)
             \/ UNCHANGED vars
      PROVE  orders' = orders
  BY <1>3 DEF ExpireLock, Pay, tables, vars
<1>4. ASSUME NEW i \in IntentIds, Webhook(i) \/ VerifyPayment(i)
      PROVE  intents[i] # None /\ intents[i].status = "succeeded" /\ Settle(i)
  BY <1>4 DEF Webhook, VerifyPayment, BaseInv, ReferencesOK
<1>5. QED
  BY <1>1, <1>2, <1>3, <1>4 DEF Next, Step, CreateStep, ApplyStep

\* An order becomes paid with a charge or a spent 100% code to show for it, or
\* as the order of a purchase request that found nothing to pay.
LEMMA StepPays ==
    ASSUME BaseInv, Persist, [Next]_vars,
           NEW o \in OrderIds, ~IsPaid(o), IsPaid(o)'
    PROVE  \/ Charged(o)' \/ UsedFullCode(o)'
           \/ \E w \in Workers : CreateFree(w) /\ found[w] = o
<1> USE ConstantsAssumption DEF BaseInv, TypeOK
<1>1. ASSUME NEW w \in Workers, CreateWrite(w) PROVE FALSE
  <2>1. row[w] = PendingRow(call[w])
    BY <1>1 DEF CreateWrite, Locals, LocalsOf, CreateLocals
  <2>2. row[w].status = "pending"
    BY <2>1 DEF PendingRow
  <2>3. PICK q \in OrderIds : orders' = [orders EXCEPT ![q] = row[w]]
    BY <1>1 DEF CreateWrite, Fresh
  <2>4. QED
    BY <2>2, <2>3 DEF IsPaid
<1>2. ASSUME NEW w \in Workers, CreateFree(w) PROVE found[w] = o
  BY <1>2 DEF CreateFree, IsPaid
<1>3. ASSUME NEW w \in Workers, ApplyCommit(w) PROVE UsedFullCode(o)'
  <2>1. call[w] \in Calls /\ call[w].code \in Codes /\ Percent[call[w].code] = 100
    BY <1>3 DEF ApplyCommit, Locals, LocalsOf, ApplyLocals, ApplySteps, Calls
  <2>a. (IF found[w] = None THEN Fresh ELSE {found[w]}) \subseteq OrderIds
    BY DEF Fresh
  <2>2. PICK q \in OrderIds :
            /\ orders' = [orders EXCEPT ![q] = row[w]]
            /\ usages' = usages \cup {<<call[w].code, call[w].user, q>>}
    BY <1>3, <2>a DEF ApplyCommit
  <2>3. q = o
    BY <2>2 DEF IsPaid
  <2> DEFINE x == <<call[w].code, call[w].user, q>>
  <2>4. x \in usages' /\ x[3] = o /\ Percent[x[1]] = 100
    BY <2>1, <2>2, <2>3
  <2>5. QED
    BY <2>4 DEF UsedFullCode
<1>4. ASSUME NEW i \in IntentIds, intents[i] # None, intents[i].status = "succeeded",
             Settle(i)
      PROVE  Charged(o)'
  <2>1. o \in LinkedTo(i)
    BY <1>4 DEF Settle, IsPaid
  <2>2. Charged(o)
    BY <1>4, <2>1 DEF LinkedTo, Charged
  <2>3. QED
    BY <2>2, EvidencePersists
<1>5. CASE orders' = orders
  BY <1>5 DEF IsPaid
<1>6. QED
  BY <1>1, <1>2, <1>3, <1>4, <1>5, StepWrites

\* What a purchase request is about to overwrite is pending, or has evidence:
\* only another purchase of the course could have settled it without, and the
\* order lock keeps that one out.
LEMMA StepFoundUnpaid ==
    ASSUME FreeInv, Persist, TypeOK', [Next]_vars
    PROVE  FoundUnpaid'
<1> USE ConstantsAssumption DEF FreeInv, LockInv, BaseInv, TypeOK
<1>1. ASSUME NEW v \in Workers, pc'[v] = "c_write",
             NEW o \in OrderIds, found'[v] = o, IsPaid(o)'
      PROVE  Charged(o)' \/ UsedFullCode(o)'
  <2>1. CASE CreateRead(v)
    <3>1. o \in PendingOf(call[v].user, call[v].course) /\ orders' = orders
      BY <1>1, <2>1 DEF CreateRead, tables
    <3>2. QED
      BY <1>1, <3>1 DEF PendingOf, OrdersOf, IsPaid
  <2>2. CASE pc[v] = "c_write" /\ found[v] = o
    <3>1. CASE IsPaid(o)
      <4>1. Charged(o) \/ UsedFullCode(o)
        BY <2>2, <3>1 DEF FoundUnpaid
      <4>2. QED
        BY <4>1, EvidencePersists
    <3>2. CASE ~IsPaid(o)
      <4>1. ASSUME NEW w \in Workers, CreateFree(w), found[w] = o PROVE FALSE
        <5>1. pc[w] = "c_free" /\ pc[w] \in CreateSteps /\ pc[v] \in CreateSteps
          BY <2>2, <4>1 DEF CreateFree, CreateSteps
        <5>2. OrderLock(call[w]) = OrderLock(call[v])
          BY <2>2, <4>1 DEF Locals, LocalsOf, OwnsFound, OrderLock
        <5>3. w = v
          BY <5>1, <5>2, LockExcludes DEF OneCreatePerOrderLock
        <5>4. QED
          BY <2>2, <5>1, <5>3
      <4>2. QED
        BY <1>1, <3>2, <4>1, StepPays
    <3>3. QED
      BY <3>1, <3>2
  <2>3. QED
    BY <1>1, <2>1, <2>2, StepToWrite
<1>2. QED
  BY <1>1 DEF FoundUnpaid, IsPaid, Charged, UsedFullCode

\* A step takes an order back to pending only if there is evidence for it, so
\* that a later settlement can pay it again.
LEMMA StepStaysPaid ==
    ASSUME FreeInv, Persist, [Next]_vars, NEW o \in OrderIds,
           IsPaid(o), ~Charged(o), ~UsedFullCode(o)
    PROVE  IsPaid(o)'
<1> USE ConstantsAssumption DEF FreeInv, LockInv, BaseInv, TypeOK
<1>1. ASSUME NEW w \in Workers, CreateWrite(w) PROVE IsPaid(o)'
  <2>1. PICK q \in OrderIds :
            /\ orders' = [orders EXCEPT ![q] = row[w]]
            /\ IF found[w] = None THEN orders[q] = None ELSE q = found[w]
    BY <1>1 DEF CreateWrite, Fresh
  <2>2. q # o
    BY <1>1, <2>1 DEF CreateWrite, FoundUnpaid, IsPaid
  <2>3. QED
    BY <2>1, <2>2 DEF IsPaid
<1>2. ASSUME NEW w \in Workers, CreateFree(w) PROVE IsPaid(o)'
  <2>1. found[w] \in OrderIds /\ row[w] = PendingRow(call[w])
    BY <1>2 DEF CreateFree, Locals, LocalsOf, CreateLocals
  <2>2. orders' = [orders EXCEPT ![found[w]] = [row[w] EXCEPT !.status = "paid"]]
    BY <1>2 DEF CreateFree
  <2>3. [row[w] EXCEPT !.status = "paid"].status = "paid"
    BY <2>1 DEF PendingRow
  <2>4. orders'[o] = orders[o] \/ orders'[o].status = "paid"
    BY <2>1, <2>2, <2>3
  <2>5. orders'[o] # None
    BY DEF IsPaid, Persist
  <2>6. QED
    BY <2>4, <2>5 DEF IsPaid
<1>3. ASSUME NEW w \in Workers, ApplyCommit(w) PROVE IsPaid(o)'
  BY <1>3 DEF ApplyCommit, Fresh, Locals, LocalsOf, ApplyLocals, IsPaid
<1>4. ASSUME NEW i \in IntentIds, Settle(i) PROVE IsPaid(o)'
  BY <1>4 DEF Settle, IsPaid
<1>5. CASE orders' = orders
  BY <1>5 DEF IsPaid
<1>6. QED
  BY <1>1, <1>2, <1>3, <1>4, <1>5, StepWrites

\* While locks outlive requests, an order that is paid because its price came
\* to nothing is never taken back to pending: the save of views.py:95 writes
\* back the status it read, and no purchase of the course ran in between.
THEOREM FreeOrdersStayPaid ==
    ASSUME LocksOutliveRequests
    PROVE  Spec => FreeOrderStaysPaid
<1>1. Init => FoundUnpaid
  BY DEF Init, FoundUnpaid
<1>2. LockInv /\ LockInv' /\ FoundUnpaid /\ [Next]_vars => FoundUnpaid'
  BY StepPersists, StepFoundUnpaid DEF LockInv, FreeInv, BaseInv
<1>3. Spec => []FreeInv
  BY <1>1, <1>2, LockInvariant, PTL DEF Spec, FreeInv
<1>4. FreeInv /\ [Next]_vars =>
         [\A o \in OrderIds :
             IsPaid(o) /\ ~Charged(o) /\ ~UsedFullCode(o) => IsPaid(o)']_vars
  BY StepPersists, StepStaysPaid DEF FreeInv, LockInv
<1>5. QED
  BY <1>3, <1>4, PTL DEF Spec, FreeOrderStaysPaid
=============================================================================

------------------------- MODULE OrderPaymentsLimits -------------------------
(***************************************************************************)
(* By how much the limits of a discount code may be passed, for every      *)
(* number of students, courses, spellings and workers.                     *)
(***************************************************************************)
EXTENDS OrderPaymentsProofs, FiniteSetTheorems

-----------------------------------------------------------------------------
(* Counting *)

\* Of fewer uses and fewer requests there are not more in all.
LEMMA FewerCount ==
    ASSUME NEW U, NEW V, NEW P, NEW Q, IsFiniteSet(U), IsFiniteSet(P),
           V \subseteq U, Q \subseteq P
    PROVE  /\ Cardinality(V) + Cardinality(Q) <= Cardinality(U) + Cardinality(P)
           /\ Cardinality(V) + Cardinality(Q) \in Nat
<1>1. /\ Cardinality(V) <= Cardinality(U) /\ Cardinality(Q) <= Cardinality(P)
      /\ IsFiniteSet(V) /\ IsFiniteSet(Q)
  BY FS_Subset
<1>2. /\ Cardinality(U) \in Nat /\ Cardinality(V) \in Nat
      /\ Cardinality(P) \in Nat /\ Cardinality(Q) \in Nat
  BY <1>1, FS_CardinalityType
<1>3. QED
  BY <1>1, <1>2

\* A use in the place of the request that spends it leaves the number as it is.
LEMMA SpentCount ==
    ASSUME NEW U, NEW V, NEW P, NEW Q, NEW x, NEW w, IsFiniteSet(U), IsFiniteSet(P),
           V \subseteq U \cup {x}, Q \subseteq P \ {w}, w \in P
    PROVE  /\ Cardinality(V) + Cardinality(Q) <= Cardinality(U) + Cardinality(P)
           /\ Cardinality(V) + Cardinality(Q) \in Nat
<1>1. /\ IsFiniteSet(U \cup {x}) /\ Cardinality(U \cup {x}) <= Cardinality(U) + 1
      /\ Cardinality(U) \in Nat
  <2>1. /\ IsFiniteSet(U \cup {x}) /\ Cardinality(U) \in Nat
        /\ Cardinality(U \cup {x}) = IF x \in U THEN Cardinality(U) ELSE Cardinality(U) + 1
    BY FS_AddElement, FS_CardinalityType
  <2>2. QED
    BY <2>1
<1>2. /\ IsFiniteSet(P \ {w}) /\ Cardinality(P \ {w}) = Cardinality(P) - 1
      /\ Cardinality(P) \in Nat
  BY FS_RemoveElement, FS_CardinalityType
<1>3. /\ Cardinality(V) + Cardinality(Q) <= Cardinality(U \cup {x}) + Cardinality(P \ {w})
      /\ Cardinality(V) + Cardinality(Q) \in Nat
  BY <1>1, <1>2, FewerCount
<1>4. Cardinality(U \cup {x}) \in Nat
  BY <1>1, FS_CardinalityType
<1>5. QED
  BY <1>1, <1>2, <1>3, <1>4

LEMMA FiniteUses ==
    ASSUME TypeOK
    PROVE  \A c \in Codes : /\ IsFiniteSet(UsesOf(c)) /\ IsFiniteSet(Giveaways(c))
                            /\ IsFiniteSet(Promised(c))
<1> TAKE c \in Codes
<1>1. IsFiniteSet(Users \X OrderIds)
  BY FiniteAssumption, FS_Product
<1>2. IsFiniteSet(UsesOf(c))
  <2> DEFINE f == [x \in UsesOf(c) |-> <<x[2], x[3]>>]
  <2>1. UsesOf(c) \subseteq {c} \X Users \X OrderIds
    BY DEF TypeOK, UsesOf
  <2>2. f \in [UsesOf(c) -> Users \X OrderIds]
    BY <2>1
  <2>3. \A x, y \in UsesOf(c) : f[x] = f[y] => x = y
    BY <2>1
  <2>4. f \in Injection(UsesOf(c), Users \X OrderIds)
    BY <2>2, <2>3 DEF Injection, IsInjective
  <2>5. QED
    BY <1>1, <2>4, FS_Injection
<1>3. IsFiniteSet(UsesOf(c)) /\ Giveaways(c) \subseteq UsesOf(c)
  BY <1>2, FS_Subset DEF Giveaways
<1>4. Promised(c) \subseteq Workers
  BY DEF Promised
<1>5. QED
  BY <1>3, <1>4, FS_Subset, FiniteAssumption

-----------------------------------------------------------------------------
(* What a step does to the uses and to the requests that count *)

\* Nobody but the worker has gone on.
Alone(w) == \A v \in Workers \ {w} : pc'[v] = pc[v] /\ call'[v] = call[v]

\* A use that no payment stands behind is written by a request that passed the
\* limits, as its last step but one.
Spends(w) ==
    /\ pc[w] \in {"c_usage", "a_commit"} /\ pc'[w] \in {"c_release", "a_release"}
    /\ call[w] # None /\ call[w].code \in Codes /\ Alone(w)
    /\ \E o \in OrderIds : usages' = usages \cup {<<call[w].code, call[w].user, o>>}

\* Every other use is one of an order that is charged.
Earns ==
    \A x \in usages' \ usages : Charged(x[3])'

LEMMA SettleEarns ==
    ASSUME BaseInv, NEW i \in IntentIds, Settle(i), intents[i] # None,
           intents[i].status = "succeeded", UNCHANGED <<payment, intents>>
    PROVE  Earns
<1> SUFFICES ASSUME NEW x \in usages' \ usages
             PROVE  Charged(x[3])'
  BY DEF Earns
<1>1. PICK o \in LinkedTo(i) : x = <<orders[o].code, orders[o].user, o>>
  BY DEF Settle
<1>2. payment[o] = i /\ x[3] = o
  BY <1>1 DEF LinkedTo
<1>3. QED
  BY <1>2, ConstantsAssumption DEF Charged

LEMMA StepUses ==
    ASSUME BaseInv, [Next]_vars
    PROVE  Earns \/ \E w \in Workers : Spends(w)
<1> USE DEF BaseInv, TypeOK
<1>1. CASE UNCHANGED usages
  BY <1>1 DEF Earns
<1>2. ASSUME NEW w \in Workers, CreateUsage(w) PROVE Spends(w)
  <2>1. /\ call[w] \in Calls /\ call[w] # None /\ call[w].code \in Codes
        /\ found[w] \in OrderIds
    BY <1>2 DEF CreateUsage, Locals, LocalsOf, CreateLocals, CreateSteps, Calls
  <2>2. QED
    BY <1>2, <2>1 DEF CreateUsage, Spends, Alone, Goto
<1>3. ASSUME NEW w \in Workers, ApplyCommit(w) PROVE Spends(w)
  <2>1. call[w] \in Calls /\ call[w] # None /\ call[w].code \in Codes
    BY <1>3 DEF ApplyCommit, Locals, LocalsOf, ApplyLocals, ApplySteps, Calls
  <2>2. PICK o \in OrderIds : usages' = usages \cup {<<call[w].code, call[w].user, o>>}
    BY <1>3 DEF ApplyCommit, Fresh
  <2>3. QED
    BY <1>3, <2>1, <2>2 DEF ApplyCommit, Spends, Alone, Goto
<1>4. ASSUME NEW i \in IntentIds, Webhook(i) \/ VerifyPayment(i) PROVE Earns
  <2>1. /\ Settle(i) /\ intents[i] # None /\ intents[i].status = "succeeded"
        /\ UNCHANGED <<payment, intents>>
    BY <1>4 DEF Webhook, VerifyPayment, ReferencesOK, stripe
  <2>2. QED
    BY <2>1, SettleEarns
<1>5. CASE \/ \E w \in Workers : \/ CreateLock(w) \/ ApplyCheckCode(w) \/ CreateCheckCode(w)
                                 \/ CreateRead(w) \/ CreateWrite(w) \/ CreateFree(w)
                                 \/ CreateIntent(w) \/ CreateLink(w) \/ CreateRelease(w)
                                 \/ ApplyLock(w) \/ ApplyRefused(w) \/ ApplyCheckUser(w)
                                 \/ ApplyRead(w) \/ ApplyRelease(w) \/ Fail(w) \/ Crash(w)
           \/ \E k \in OrderLocks \cup CodeLocks : ExpireLock(k)
           \/ \E i \in IntentIds : Pay(i)
           \/ UNCHANGED vars
  <2>1. UNCHANGED usages
    BY <1>5 DEF CreateLock, ApplyCheckCode, CreateCheckCode, CreateRead, CreateWrite, CreateFree,
                CreateIntent, CreateLink, CreateRelease, ApplyLock, ApplyRefused, ApplyCheckUser,
                ApplyRead, ApplyRelease, Fail, Crash, ExpireLock, Pay, tables, vars
  <2>2. QED
    BY <1>1, <2>1
<1>6. QED
  BY <1>2, <1>3, <1>4, <1>5 DEF Next, Step, CreateStep, ApplyStep

\* Charges last, so that no more uses lack a payment than before.
LEMMA FewerGiveaways ==
    ASSUME BaseInv, [Next]_vars, NEW c \in Codes, Earns
    PROVE  Giveaways(c)' \subseteq Giveaways(c)
<1>1. Persist /\ BaseInv'
  BY StepPersists, BaseInductive
<1>2. \A o \in OrderIds : Charged(o) => Charged(o)'
  BY <1>1, ConstantsAssumption DEF Persist, Charged, BaseInv, TypeOK, ReferencesOK
<1>3. ASSUME NEW x \in usages', x[1] = c, ~Charged(x[3])' PROVE x \in Giveaways(c)
  <2>1. x \in usages /\ x[3] \in OrderIds
    BY <1>3 DEF Earns, BaseInv, TypeOK
  <2>2. QED
    BY <1>2, <1>3, <2>1 DEF Giveaways, UsesOf
<1>4. QED
  BY <1>3 DEF Giveaways, UsesOf

\* The request that spends a use is one of those that passed the limits.
LEMMA SpentGiveaways ==
    ASSUME BaseInv, [Next]_vars, NEW c \in Codes, NEW w \in Workers, Spends(w)
    PROVE  \/ /\ call[w].code # c
              /\ Giveaways(c)' \subseteq Giveaways(c)
           \/ /\ call[w].code = c
              /\ \E o \in OrderIds :
                    Giveaways(c)' \subseteq Giveaways(c) \cup {<<c, call[w].user, o>>}
<1>1. Persist /\ BaseInv'
  BY StepPersists, BaseInductive
<1>2. \A o \in OrderIds : Charged(o) => Charged(o)'
  BY <1>1, ConstantsAssumption DEF Persist, Charged, BaseInv, TypeOK, ReferencesOK
<1>3. PICK o \in OrderIds : usages' = usages \cup {<<call[w].code, call[w].user, o>>}
  BY DEF Spends
<1>4. \A x \in usages : x[1] = c /\ ~Charged(x[3])' => x \in Giveaways(c)
  <2>1. \A x \in usages : x[3] \in OrderIds
    BY DEF BaseInv, TypeOK
  <2>2. QED
    BY <1>2, <2>1 DEF Giveaways, UsesOf
<1>5. QED
  BY <1>3, <1>4 DEF Giveaways, UsesOf

\* A request comes to count only by finding the code below its limit.
Counts(w, steps) ==
    /\ Alone(w)
    /\ pc'[w] \in steps => pc[w] \in steps /\ call'[w] = call[w]

LEMMA StepCounts ==
    ASSUME BaseInv, [Next]_vars
    PROVE  \/ UNCHANGED <<pc, call>>
           \/ \E w \in Workers : CreateLock(w) /\ Alone(w)
           \/ \E w \in Workers : CreateCheckCode(w) /\ Alone(w)
           \/ \E w \in Workers : ApplyCheckCode(w) /\ Alone(w)
           \/ \E w \in Workers : ApplyCheckUser(w) /\ Alone(w)
           \/ \E w \in Workers : /\ Counts(w, CountedSteps)
                                 /\ Counts(w, CountedSteps \cup {"a_lock", "a_user"})
<1> USE DEF BaseInv, TypeOK, Alone, Counts, CountedSteps, Goto, Finish
<1>1. \A w \in Workers : CreateLock(w) => Alone(w)
  BY DEF CreateLock
<1>2. \A w \in Workers : CreateCheckCode(w) => Alone(w)
  BY DEF CreateCheckCode
<1>3. \A w \in Workers : ApplyCheckCode(w) => Alone(w)
  BY DEF ApplyCheckCode
<1>4. \A w \in Workers : ApplyCheckUser(w) => Alone(w)
  BY DEF ApplyCheckUser
<1>5. ASSUME NEW w \in Workers,
             \/ CreateRead(w) \/ CreateWrite(w) \/ CreateFree(w) \/ CreateUsage(w)
             \/ CreateIntent(w) \/ CreateLink(w) \/ CreateRelease(w)
      PROVE  Counts(w, CountedSteps) /\ Counts(w, CountedSteps \cup {"a_lock", "a_user"})
  BY <1>5 DEF CreateRead, CreateWrite, CreateFree, CreateUsage, CreateIntent, CreateLink,
              CreateRelease
<1>6. ASSUME NEW w \in Workers,
             \/ ApplyLock(w) \/ ApplyRefused(w) \/ ApplyRead(w) \/ ApplyCommit(w)
             \/ ApplyRelease(w) \/ Fail(w) \/ Crash(w)
      PROVE  Counts(w, CountedSteps) /\ Counts(w, CountedSteps \cup {"a_lock", "a_user"})
  BY <1>6 DEF ApplyLock, ApplyRefused, ApplyRead, ApplyCommit, ApplyRelease, Fail, Crash
<1>7. CASE \/ \E k \in OrderLocks \cup CodeLocks : ExpireLock(k)
           \/ \E i \in IntentIds : Webhook(i) \/ VerifyPayment(i) \/ Pay(i)
           \/ UNCHANGED vars
  BY <1>7 DEF ExpireLock, Webhook, VerifyPayment, Pay, locals, vars
<1>8. QED
  BY <1>1, <1>2, <1>3, <1>4, <1>5, <1>6, <1>7 DEF Next, Step, CreateStep, ApplyStep

LEMMA StepPromises ==
    ASSUME BaseInv, [Next]_vars, NEW c \in Codes
    PROVE  \/ Promised(c)' \subseteq Promised(c)
           \/ Cardinality(UsesOf(c)) < MaxTotal[c]
<1> USE DEF Promised, CountedSteps, Alone, Goto, BaseInv, TypeOK
<1>1. ASSUME NEW w \in Workers, CreateLock(w), Alone(w) PROVE Promised(c)' \subseteq Promised(c)
  BY <1>1, ConstantsAssumption DEF CreateLock
<1>2. ASSUME NEW w \in Workers, CreateCheckCode(w), Alone(w),
             ~Promised(c)' \subseteq Promised(c)
      PROVE  Cardinality(UsesOf(c)) < MaxTotal[c]
  BY <1>2 DEF CreateCheckCode, CodeUsable
<1>3. ASSUME NEW w \in Workers, ApplyCheckCode(w), Alone(w),
             ~Promised(c)' \subseteq Promised(c)
      PROVE  Cardinality(UsesOf(c)) < MaxTotal[c]
  BY <1>3 DEF ApplyCheckCode, CodeUsable
<1>4. ASSUME NEW w \in Workers, ApplyCheckUser(w), Alone(w)
      PROVE  Promised(c)' \subseteq Promised(c)
  BY <1>4 DEF ApplyCheckUser
<1>5. ASSUME NEW w \in Workers, Counts(w, CountedSteps \cup {"a_lock", "a_user"})
      PROVE  Promised(c)' \subseteq Promised(c)
  BY <1>5 DEF Counts
<1>6. CASE UNCHANGED <<pc, call>>
  BY <1>6
<1>7. QED
  BY <1>1, <1>2, <1>3, <1>4, <1>5, <1>6, StepCounts

LEMMA StepGrants ==
    ASSUME BaseInv, [Next]_vars, NEW c \in Codes, NEW u \in Users
    PROVE  \/ Granted(c, u)' \subseteq Granted(c, u)
           \/ Cardinality(UsesBy(c, u)) < MaxPerUser[c]
<1> USE DEF Granted, CountedSteps, Alone, Goto, BaseInv, TypeOK
<1>1. ASSUME NEW w \in Workers, CreateLock(w), Alone(w)
      PROVE  Granted(c, u)' \subseteq Granted(c, u)
  BY <1>1, ConstantsAssumption DEF CreateLock
<1>2. ASSUME NEW w \in Workers, CreateCheckCode(w), Alone(w),
             ~Granted(c, u)' \subseteq Granted(c, u)
      PROVE  Cardinality(UsesBy(c, u)) < MaxPerUser[c]
  BY <1>2 DEF CreateCheckCode
<1>3. ASSUME NEW w \in Workers, ApplyCheckCode(w), Alone(w)
      PROVE  Granted(c, u)' \subseteq Granted(c, u)
  BY <1>3 DEF ApplyCheckCode
<1>4. ASSUME NEW w \in Workers, ApplyCheckUser(w), Alone(w),
             ~Granted(c, u)' \subseteq Granted(c, u)
      PROVE  Cardinality(UsesBy(c, u)) < MaxPerUser[c]
  BY <1>4 DEF ApplyCheckUser
<1>5. ASSUME NEW w \in Workers, Counts(w, CountedSteps)
      PROVE  Granted(c, u)' \subseteq Granted(c, u)
  BY <1>5 DEF Counts
<1>6. CASE UNCHANGED <<pc, call>>
  BY <1>6
<1>7. QED
  BY <1>1, <1>2, <1>3, <1>4, <1>5, <1>6, StepCounts
-----------------------------------------------------------------------------
(* The total limit *)

LEMMA StepGiveaways ==
    ASSUME BaseInv, GiveawaysInv, [Next]_vars
    PROVE  GiveawaysInv'
<1> SUFFICES ASSUME NEW c \in Codes
             PROVE  Cardinality(Giveaways(c)') + Cardinality(Promised(c)')
                       < MaxTotal[c] + Cardinality(Workers)
  BY DEF GiveawaysInv
<1>1. /\ IsFiniteSet(UsesOf(c)) /\ IsFiniteSet(Giveaways(c)) /\ IsFiniteSet(Promised(c))
      /\ Cardinality(Giveaways(c)) + Cardinality(Promised(c)) < MaxTotal[c] + Cardinality(Workers)
      /\ MaxTotal[c] + Cardinality(Workers) \in Nat
  BY FiniteUses, FiniteAssumption, ConstantsAssumption, FS_CardinalityType
  DEF BaseInv, GiveawaysInv
<1>a. Cardinality(Giveaways(c)) + Cardinality(Promised(c)) \in Nat
  BY <1>1, FS_CardinalityType
<1>2. CASE Earns /\ Promised(c)' \subseteq Promised(c)
  <2>1. Giveaways(c)' \subseteq Giveaways(c)
    BY <1>2, FewerGiveaways
  <2>2. QED
    BY <1>1, <1>a, <1>2, <2>1, FewerCount
<1>3. CASE Earns /\ Cardinality(UsesOf(c)) < MaxTotal[c]
  <2>1. Giveaways(c)' \subseteq UsesOf(c)
    BY <1>3, FewerGiveaways DEF Giveaways
  <2>2. /\ Cardinality(Giveaways(c)') <= Cardinality(UsesOf(c))
        /\ Cardinality(Giveaways(c)') \in Nat /\ Cardinality(UsesOf(c)) \in Nat
    BY <1>1, <2>1, FS_Subset, FS_CardinalityType
  <2>3. /\ Cardinality(Promised(c)') <= Cardinality(Workers)
        /\ Cardinality(Promised(c)') \in Nat /\ Cardinality(Workers) \in Nat
    <3>1. Promised(c)' \subseteq Workers
      BY DEF Promised
    <3>2. QED
      BY <3>1, FiniteAssumption, FS_Subset, FS_CardinalityType
  <2>4. MaxTotal[c] \in Nat
    BY ConstantsAssumption
  <2>5. QED
    BY <1>3, <2>2, <2>3, <2>4
<1>4. ASSUME NEW w \in Workers, Spends(w)
      PROVE  Cardinality(Giveaways(c)') + Cardinality(Promised(c)')
                < MaxTotal[c] + Cardinality(Workers)
  <2>1. CASE call[w].code # c
    <3>1. Promised(c)' \subseteq Promised(c)
      BY <1>4 DEF Spends, Alone, Promised, CountedSteps
    <3>2. Giveaways(c)' \subseteq Giveaways(c)
      BY <1>4, <2>1, SpentGiveaways
    <3>3. QED
      BY <1>1, <1>a, <3>1, <3>2, FewerCount
  <2>2. CASE call[w].code = c
    <3>1. w \in Promised(c) /\ Promised(c)' \subseteq Promised(c) \ {w}
      BY <1>4, <2>2 DEF Spends, Alone, Promised, CountedSteps
    <3>2. PICK x : Giveaways(c)' \subseteq Giveaways(c) \cup {x}
      BY <1>4, <2>2, SpentGiveaways
    <3>3. /\ Cardinality(Giveaways(c)') + Cardinality(Promised(c)')
                <= Cardinality(Giveaways(c)) + Cardinality(Promised(c))
          /\ Cardinality(Giveaways(c)') + Cardinality(Promised(c)') \in Nat
      BY <1>1, <3>1, <3>2, SpentCount
    <3>4. QED
      BY <1>1, <1>a, <3>3
  <2>3. QED
    BY <2>1, <2>2
<1>5. QED
  BY <1>2, <1>3, <1>4, StepUses, StepPromises

\* CreateStripePaymentView, ApplyDiscountCodeView: however many students use a
\* code at the same time, the count of its uses passes max_uses_total by fewer
\* than there are processes, also if locks expire or processes are killed.
THEOREM TotalLimitIsPassedByFew == Spec => []GiveawaysBounded
<1>1. Init => GiveawaysInv
  <2> SUFFICES ASSUME Init, NEW c \in Codes
               PROVE  Cardinality(Giveaways(c)) + Cardinality(Promised(c))
                         < MaxTotal[c] + Cardinality(Workers)
    BY DEF GiveawaysInv
  <2>1. Giveaways(c) = {} /\ Promised(c) = {}
    BY DEF Init, Giveaways, UsesOf, Promised, CountedSteps
  <2>2. Cardinality(Workers) \in Nat /\ Cardinality(Workers) # 0 /\ MaxTotal[c] \in Nat
    BY FiniteAssumption, FS_EmptySet, FS_CardinalityType, ConstantsAssumption
  <2>3. QED
    BY <2>1, <2>2, FS_EmptySet
<1>2. BaseInv /\ GiveawaysInv /\ [Next]_vars => BaseInv' /\ GiveawaysInv'
  BY BaseInductive, StepGiveaways
<1>3. BaseInv /\ GiveawaysInv => GiveawaysBounded
  <2> SUFFICES ASSUME BaseInv, GiveawaysInv, NEW c \in Codes
               PROVE  Cardinality(Giveaways(c)) < MaxTotal[c] + Cardinality(Workers)
    BY DEF GiveawaysBounded
  <2>1. Cardinality(Giveaways(c)) \in Nat /\ Cardinality(Promised(c)) \in Nat
    BY FiniteUses, FS_CardinalityType DEF BaseInv
  <2>2. MaxTotal[c] \in Nat /\ Cardinality(Workers) \in Nat
    BY FiniteAssumption, ConstantsAssumption, FS_CardinalityType
  <2>3. QED
    BY <2>1, <2>2 DEF GiveawaysInv
<1>4. QED
  BY <1>1, <1>2, <1>3, BaseInitially, PTL DEF Spec

-----------------------------------------------------------------------------
(* The limit per student *)

\* While no lock expires under its holder, a request that applies a code holds
\* the lock of its spelling from its second step to its end.
LEMMA StepHoldsCodeLock ==
    ASSUME LocksOutliveRequests, BaseInv, HoldsCodeLock, [Next]_vars
    PROVE  HoldsCodeLock'
<1> USE ConstantsAssumption DEF BaseInv, TypeOK, HoldsCodeLock, CreateSteps, ApplySteps
<1>b. ASSUME NEW w \in Workers, locks' = locks, call'[w] = call[w],
             pc'[w] \in ApplySteps \ {"a_lock"} => pc[w] \in ApplySteps \ {"a_lock"},
             \A v \in Workers \ {w} : pc'[v] = pc[v] /\ call'[v] = call[v]
      PROVE  HoldsCodeLock'
  BY <1>b DEF CodeLock
<1>c. \A v \in Workers : pc[v] \in ApplySteps => CodeLock(call[v]) \in CodeLocks
  BY DEF Locals, LocalsOf, ApplyLocals, CodeLock, CodeLocks, Calls
<1>d. \A v \in Workers : pc[v] \in CreateSteps => OrderLock(call[v]) \in OrderLocks
  BY DEF Locals, LocalsOf, CreateLocals, OrderLock, OrderLocks, Calls
<1>e. \A c \in Calls : OrderLock(c) \in OrderLocks
  BY DEF OrderLock, OrderLocks, Calls
<1>f. \A k \in OrderLocks, l \in CodeLocks : k # l
  BY DEF OrderLocks, CodeLocks
<1>1. ASSUME NEW w \in Workers, CreateLock(w) PROVE HoldsCodeLock'
  <2>1. PICK c \in Calls :
            /\ locks' = [locks EXCEPT ![OrderLock(c)] = w]
            /\ call' = [call EXCEPT ![w] = c]
            /\ pc' = [pc EXCEPT ![w] = IF c.code = None THEN "c_read" ELSE "c_code"]
    BY <1>1 DEF CreateLock, Goto
  <2>2. /\ pc'[w] \notin ApplySteps
        /\ \A v \in Workers \ {w} : pc'[v] = pc[v] /\ call'[v] = call[v]
    BY <2>1
  <2>3. ASSUME NEW v \in Workers \ {w}, pc[v] \in ApplySteps \ {"a_lock"}
        PROVE  locks'[CodeLock(call[v])] = v
    BY <2>1, <2>3, <1>c, <1>e, <1>f
  <2>4. QED
    BY <2>2, <2>3 DEF CodeLock
<1>2. ASSUME NEW w \in Workers, ApplyCheckCode(w) PROVE HoldsCodeLock'
  <2>1. /\ pc'[w] = "a_lock" /\ locks' = locks
        /\ \A v \in Workers \ {w} : pc'[v] = pc[v] /\ call'[v] = call[v]
    BY <1>2 DEF ApplyCheckCode, Goto
  <2>2. QED
    BY <2>1 DEF CodeLock
<1>3. ASSUME NEW w \in Workers,
             \/ CreateCheckCode(w) \/ CreateRead(w) \/ CreateWrite(w) \/ CreateFree(w)
             \/ CreateUsage(w) \/ CreateIntent(w) \/ CreateLink(w)
      PROVE  HoldsCodeLock'
  BY <1>3, <1>b DEF CreateCheckCode, CreateRead, CreateWrite, CreateFree, CreateUsage,
                    CreateIntent, CreateLink, Goto
<1>4. ASSUME NEW w \in Workers, CreateRelease(w) PROVE HoldsCodeLock'
  <2>1. /\ OrderLock(call[w]) \in OrderLocks
        /\ locks' = [locks EXCEPT ![OrderLock(call[w])] = None]
        /\ pc'[w] = "idle"
        /\ \A v \in Workers \ {w} : pc'[v] = pc[v] /\ call'[v] = call[v]
    BY <1>4, <1>d DEF CreateRelease, Finish, Goto
  <2>2. ASSUME NEW v \in Workers \ {w}, pc[v] \in ApplySteps \ {"a_lock"}
        PROVE  locks'[CodeLock(call[v])] = v
    BY <2>1, <2>2, <1>c, <1>f
  <2>3. QED
    BY <2>1, <2>2 DEF CodeLock
<1>5. ASSUME NEW w \in Workers, ApplyLock(w) PROVE HoldsCodeLock'
  <2>1. /\ CodeLock(call[w]) \in CodeLocks /\ locks[CodeLock(call[w])] = None
        /\ locks' = [locks EXCEPT ![CodeLock(call[w])] = w] /\ call' = call
        /\ \A v \in Workers \ {w} : pc'[v] = pc[v]
    BY <1>5, <1>c DEF ApplyLock, Goto
  <2>2. ASSUME NEW v \in Workers \ {w}, pc[v] \in ApplySteps \ {"a_lock"}
        PROVE  locks'[CodeLock(call[v])] = v
    <3>1. locks[CodeLock(call[v])] = v /\ CodeLock(call[v]) \in CodeLocks
      BY <2>2, <1>c
    <3>2. CodeLock(call[v]) # CodeLock(call[w])
      BY <2>1, <3>1
    <3>3. QED
      BY <2>1, <3>1, <3>2
  <2>3. locks'[CodeLock(call[w])] = w
    BY <2>1
  <2>4. QED
    BY <2>1, <2>2, <2>3 DEF CodeLock
<1>6. ASSUME NEW w \in Workers, ApplyRefused(w) PROVE HoldsCodeLock'
  <2>1. /\ pc'[w] = "idle" /\ locks' = locks
        /\ \A v \in Workers \ {w} : pc'[v] = pc[v] /\ call'[v] = call[v]
    BY <1>6 DEF ApplyRefused, Finish, Goto
  <2>2. QED
    BY <2>1 DEF CodeLock
<1>7. ASSUME NEW w \in Workers, ApplyCheckUser(w) \/ ApplyRead(w) \/ ApplyCommit(w) \/ Fail(w)
      PROVE  HoldsCodeLock'
  BY <1>7, <1>b DEF ApplyCheckUser, ApplyRead, ApplyCommit, Fail, Goto
<1>8. ASSUME NEW w \in Workers, ApplyRelease(w) PROVE HoldsCodeLock'
  <2>1. /\ locks' = [locks EXCEPT ![CodeLock(call[w])] = None]
        /\ pc[w] = "a_release" /\ pc'[w] = "idle"
        /\ \A v \in Workers \ {w} : pc'[v] = pc[v] /\ call'[v] = call[v]
    BY <1>8 DEF ApplyRelease, Finish, Goto
  <2>2. ASSUME NEW v \in Workers \ {w}, pc[v] \in ApplySteps \ {"a_lock"}
        PROVE  locks'[CodeLock(call[v])] = v
    BY <2>1, <2>2, <1>c
  <2>3. QED
    BY <2>1, <2>2 DEF CodeLock
<1>9. ASSUME NEW w \in Workers, Crash(w) PROVE HoldsCodeLock'
  <2>1. /\ pc'[w] = "idle"
        /\ \A v \in Workers \ {w} : pc'[v] = pc[v] /\ call'[v] = call[v]
        /\ \A k \in CodeLocks : locks[k] # w => locks'[k] = locks[k]
    BY <1>9 DEF Crash, Finish, Goto
  <2>2. ASSUME NEW v \in Workers \ {w}, pc[v] \in ApplySteps \ {"a_lock"}
        PROVE  locks'[CodeLock(call[v])] = v
    BY <2>1, <2>2, <1>c
  <2>3. QED
    BY <2>1, <2>2 DEF CodeLock
<1>10. ASSUME NEW k \in OrderLocks \cup CodeLocks, ExpireLock(k) PROVE HoldsCodeLock'
  <2>1. locks[k] = "dead" /\ locks' = [locks EXCEPT ![k] = None]
    BY <1>10 DEF ExpireLock
  <2>2. pc' = pc /\ call' = call
    BY <1>10 DEF ExpireLock, locals
  <2>3. ASSUME NEW v \in Workers, pc[v] \in ApplySteps \ {"a_lock"}
        PROVE  locks'[CodeLock(call[v])] = v
    BY <2>1, <2>3, <1>c
  <2>4. QED
    BY <2>2, <2>3 DEF CodeLock
<1>11. CASE \/ \E i \in IntentIds : Webhook(i) \/ VerifyPayment(i) \/ Pay(i)
            \/ UNCHANGED vars
  BY <1>11 DEF Webhook, VerifyPayment, Pay, locals, vars, CodeLock
<1>12. QED
  BY <1>1, <1>2, <1>3, <1>4, <1>5, <1>6, <1>7, <1>8, <1>9, <1>10, <1>11
  DEF Next, Step, CreateStep, ApplyStep

\* The requests of a student that count hold locks of their own: one for each
\* course of a purchase, one for each spelling of an applied code.
LEMMA FewGranted ==
    ASSUME BaseInv, HoldsOrderLock, HoldsCodeLock, NEW c \in Codes, NEW u \in Users
    PROVE  /\ IsFiniteSet(Granted(c, u))
           /\ Cardinality(Granted(c, u)) <= Cardinality(Courses) + Cardinality(Spellings)
           /\ Cardinality(Granted(c, u)) \in Nat
<1> DEFINE buying == {w \in Granted(c, u) : pc[w] \in CreateSteps}
           applying == {w \in Granted(c, u) : pc[w] \in ApplySteps}
           f == [w \in buying |-> call[w].course]
           g == [w \in applying |-> call[w].spelling]
<1>1. Granted(c, u) = buying \cup applying
  BY DEF Granted, CountedSteps, CreateSteps, ApplySteps
<1>2. \A w \in Granted(c, u) : w \in Workers /\ call[w] \in Calls /\ call[w].code = c
                               /\ call[w].user = u
  BY DEF Granted, CountedSteps, BaseInv, TypeOK, Locals, LocalsOf, CreateLocals, ApplyLocals,
         CreateSteps, ApplySteps
<1>3. IsFiniteSet(buying) /\ Cardinality(buying) <= Cardinality(Courses)
  <2>1. f \in [buying -> Courses]
    BY <1>2 DEF Calls
  <2>2. ASSUME NEW v \in buying, NEW w \in buying, f[v] = f[w] PROVE v = w
    <3>1. OrderLock(call[v]) = OrderLock(call[w])
      BY <1>2, <2>2 DEF OrderLock
    <3>2. QED
      BY <1>2, <3>1 DEF HoldsOrderLock
  <2>3. f \in Injection(buying, Courses)
    BY <2>1, <2>2 DEF Injection, IsInjective
  <2>4. QED
    BY <2>3, FiniteAssumption, FS_Injection
<1>4. IsFiniteSet(applying) /\ Cardinality(applying) <= Cardinality(Spellings)
  <2>1. g \in [applying -> Spellings]
    BY <1>2 DEF Calls
  <2>2. ASSUME NEW v \in applying, NEW w \in applying, g[v] = g[w] PROVE v = w
    <3>1. CodeLock(call[v]) = CodeLock(call[w])
      BY <1>2, <2>2 DEF CodeLock
    <3>2. pc[v] # "a_lock" /\ pc[w] # "a_lock"
      BY DEF Granted, CountedSteps
    <3>3. QED
      BY <1>2, <3>1, <3>2 DEF HoldsCodeLock
  <2>3. g \in Injection(applying, Spellings)
    BY <2>1, <2>2 DEF Injection, IsInjective
  <2>4. QED
    BY <2>3, FiniteAssumption, FS_Injection
<1> HIDE DEF buying, applying, f, g
<1>5. /\ IsFiniteSet(buying \cup applying)
      /\ Cardinality(buying \cup applying)
            = Cardinality(buying) + Cardinality(applying) - Cardinality(buying \cap applying)
      /\ Cardinality(buying \cap applying) \in Nat
  <2>1. IsFiniteSet(buying \cap applying)
    BY <1>3, FS_Subset
  <2>2. QED
    BY <1>3, <1>4, <2>1, FS_Union, FS_CardinalityType
<1>6. /\ Cardinality(buying) \in Nat /\ Cardinality(applying) \in Nat
      /\ Cardinality(Courses) \in Nat /\ Cardinality(Spellings) \in Nat
      /\ Cardinality(buying \cup applying) \in Nat
  BY <1>3, <1>4, <1>5, FiniteAssumption, FS_CardinalityType
<1>7. QED
  BY <1>1, <1>3, <1>4, <1>5, <1>6

GrantedAreFew ==
    \A c \in Codes, u \in Users :
        /\ Cardinality(Granted(c, u)) <= Cardinality(Courses) + Cardinality(Spellings)
        /\ Cardinality(Granted(c, u)) \in Nat

LEMMA FewGrantedNow == BaseInv /\ HoldsOrderLock /\ HoldsCodeLock => GrantedAreFew
  BY FewGranted DEF GrantedAreFew

LEMMA FewGrantedNext == (BaseInv /\ HoldsOrderLock /\ HoldsCodeLock)' => GrantedAreFew'
  BY FewGrantedNow, PTL

LEMMA FiniteRepeats ==
    ASSUME TypeOK, NEW c \in Codes, NEW u \in Users
    PROVE  /\ IsFiniteSet(UsesBy(c, u)) /\ Cardinality(UsesBy(c, u)) \in Nat
           /\ IsFiniteSet(Repeats(c, u)) /\ Cardinality(Repeats(c, u)) \in Nat
           /\ Repeats(c, u) \subseteq UsesBy(c, u)
<1>1. /\ UsesBy(c, u) \subseteq UsesOf(c) /\ Repeats(c, u) \subseteq UsesBy(c, u)
      /\ Repeats(c, u) \subseteq UsesOf(c)
  BY DEF UsesBy, Repeats, Giveaways
<1>2. QED
  BY <1>1, FiniteUses, FS_Subset, FS_CardinalityType

\* Of how many uses and requests the limit per student speaks.
LEMMA RepeatsBoundType ==
    ASSUME NEW c \in Codes
    PROVE  /\ MaxPerUser[c] \in Nat /\ Cardinality(Courses) \in Nat
           /\ Cardinality(Spellings) \in Nat /\ Cardinality(Spellings) # 0
  BY FiniteAssumption, ConstantsAssumption, FS_EmptySet, FS_CardinalityType

LEMMA StepRepeats ==
    ASSUME BaseInv, HoldsOrderLock, HoldsCodeLock, RepeatsInv, [Next]_vars,
           HoldsOrderLock', HoldsCodeLock'
    PROVE  RepeatsInv'
<1> SUFFICES ASSUME NEW c \in Codes, NEW u \in Users
             PROVE  Cardinality(Repeats(c, u)') + Cardinality(Granted(c, u)')
                       < MaxPerUser[c] + Cardinality(Courses) + Cardinality(Spellings)
  BY DEF RepeatsInv
<1>1. /\ IsFiniteSet(Repeats(c, u)) /\ IsFiniteSet(Granted(c, u))
      /\ Cardinality(Repeats(c, u)) + Cardinality(Granted(c, u))
            < MaxPerUser[c] + Cardinality(Courses) + Cardinality(Spellings)
      /\ Cardinality(Repeats(c, u)) + Cardinality(Granted(c, u)) \in Nat
  BY FiniteRepeats, FewGranted DEF BaseInv, RepeatsInv
<1>2. ASSUME Cardinality(Repeats(c, u)') + Cardinality(Granted(c, u)')
                <= Cardinality(Repeats(c, u)) + Cardinality(Granted(c, u)),
             Cardinality(Repeats(c, u)') + Cardinality(Granted(c, u)') \in Nat
      PROVE  Cardinality(Repeats(c, u)') + Cardinality(Granted(c, u)')
                < MaxPerUser[c] + Cardinality(Courses) + Cardinality(Spellings)
  BY <1>1, <1>2, RepeatsBoundType
<1>3. CASE Earns /\ Granted(c, u)' \subseteq Granted(c, u)
  <2>1. Repeats(c, u)' \subseteq Repeats(c, u)
    BY <1>3, FewerGiveaways DEF Repeats
  <2>2. QED
    BY <1>1, <1>2, <1>3, <2>1, FewerCount
<1>4. CASE Earns /\ Cardinality(UsesBy(c, u)) < MaxPerUser[c]
  <2>1. Repeats(c, u)' \subseteq Repeats(c, u) /\ Repeats(c, u) \subseteq UsesBy(c, u)
    BY <1>4, FewerGiveaways, FiniteRepeats DEF Repeats, BaseInv
  <2>2. /\ Cardinality(Repeats(c, u)') <= Cardinality(UsesBy(c, u))
        /\ Cardinality(Repeats(c, u)') \in Nat /\ Cardinality(UsesBy(c, u)) \in Nat
    BY <2>1, FiniteRepeats, FS_Subset, FS_CardinalityType DEF BaseInv
  <2>3. /\ Cardinality(Granted(c, u)') <= Cardinality(Courses) + Cardinality(Spellings)
        /\ Cardinality(Granted(c, u)') \in Nat
    <3>1. BaseInv'
      BY BaseInductive
    <3>2. QED
      BY <3>1, FewGrantedNext DEF GrantedAreFew
  <2>4. QED
    BY <1>4, <2>2, <2>3, RepeatsBoundType
<1>5. ASSUME NEW w \in Workers, Spends(w)
      PROVE  Cardinality(Repeats(c, u)') + Cardinality(Granted(c, u)')
                < MaxPerUser[c] + Cardinality(Courses) + Cardinality(Spellings)
  <2>1. CASE call[w].code # c \/ call[w].user # u
    <3>1. Granted(c, u)' \subseteq Granted(c, u)
      BY <1>5 DEF Spends, Alone, Granted, CountedSteps
    <3>2. Repeats(c, u)' \subseteq Repeats(c, u)
      BY <1>5, <2>1, SpentGiveaways DEF Repeats
    <3>3. QED
      BY <1>1, <1>2, <3>1, <3>2, FewerCount
  <2>2. CASE call[w].code = c /\ call[w].user = u
    <3>1. w \in Granted(c, u) /\ Granted(c, u)' \subseteq Granted(c, u) \ {w}
      BY <1>5, <2>2 DEF Spends, Alone, Granted, CountedSteps
    <3>2. PICK x : Giveaways(c)' \subseteq Giveaways(c) \cup {x}
      BY <1>5, <2>2, SpentGiveaways
    <3>3. Repeats(c, u)' \subseteq Repeats(c, u) \cup {x}
      BY <3>2 DEF Repeats
    <3>4. QED
      BY <1>1, <1>2, <3>1, <3>3, SpentCount
  <2>3. QED
    BY <2>1, <2>2
<1>6. QED
  BY <1>3, <1>4, <1>5, StepUses, StepGrants

\* CreateStripePaymentView, ApplyDiscountCodeView: while locks outlive requests,
\* a student passes max_uses_per_user only through requests with different
\* keys, so by fewer than there are courses and spellings of the code.
THEOREM StudentLimitIsPassedByFew ==
    ASSUME LocksOutliveRequests
    PROVE  Spec => []RepeatsBounded
<1> DEFINE RInv == BaseInv /\ HoldsOrderLock /\ HoldsCodeLock /\ RepeatsInv
<1>1. Init => HoldsOrderLock /\ HoldsCodeLock /\ RepeatsInv
  <2> SUFFICES ASSUME Init
               PROVE  HoldsOrderLock /\ HoldsCodeLock /\ RepeatsInv
    OBVIOUS
  <2>1. HoldsOrderLock /\ HoldsCodeLock
    BY DEF Init, HoldsOrderLock, HoldsCodeLock, CreateSteps, ApplySteps
  <2>2. ASSUME NEW c \in Codes, NEW u \in Users
        PROVE  Cardinality(Repeats(c, u)) + Cardinality(Granted(c, u))
                  < MaxPerUser[c] + Cardinality(Courses) + Cardinality(Spellings)
    <3>1. Repeats(c, u) = {} /\ Granted(c, u) = {}
      BY DEF Init, Repeats, Giveaways, UsesOf, Granted, CountedSteps
    <3>2. QED
      BY <3>1, FS_EmptySet, RepeatsBoundType
  <2>3. QED
    BY <2>1, <2>2 DEF RepeatsInv
<1>2. RInv /\ [Next]_vars => RInv'
  BY BaseInductive, StepHoldsOrderLock, StepHoldsCodeLock, StepRepeats
<1>3. RInv => RepeatsBounded
  <2> SUFFICES ASSUME RInv, NEW c \in Codes, NEW u \in Users
               PROVE  Cardinality(Repeats(c, u))
                         < MaxPerUser[c] + Cardinality(Courses) + Cardinality(Spellings)
    BY DEF RepeatsBounded
  <2>1. Cardinality(Repeats(c, u)) \in Nat /\ Cardinality(Granted(c, u)) \in Nat
    BY FiniteRepeats, FewGranted DEF BaseInv
  <2>2. QED
    BY <2>1, RepeatsBoundType DEF RepeatsInv
<1>4. QED
  BY <1>1, <1>2, <1>3, BaseInitially, PTL DEF Spec
=============================================================================

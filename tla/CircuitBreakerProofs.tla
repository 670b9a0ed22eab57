----------------------- MODULE CircuitBreakerProofs -----------------------
(***************************************************************************)
(* Proofs about CircuitBreaker, for every finite number of workers, every  *)
(* threshold and every pair of timeouts.                                   *)
(***************************************************************************)
EXTENDS CircuitBreaker, FiniteSetTheorems, TLAPS

-----------------------------------------------------------------------------
(* Types *)

\* One more tick keeps the age of a key within its timeout.
LEMMA OlderType ==
    ASSUME NEW age \in 0 .. TTL
    PROVE  Older(age) \in 0 .. TTL
  BY ConstantsAssumption DEF Older

\* No interleaving of calls, ticks and outages takes a key of the cache or a
\* local of call() out of its type.
LEMMA StepType ==
    ASSUME TypeOK, [Next]_vars
    PROVE  TypeOK'
<1> USE ConstantsAssumption DEF TypeOK
<1>1. ASSUME NEW c \in Callers, ReadState(c) PROVE TypeOK'
  BY <1>1 DEF ReadState, Goto, Finish, SetState, SetFailures, breaker, history, States, Steps
<1>2. ASSUME NEW c \in Callers, ReadLastFailure(c) PROVE TypeOK'
  BY <1>2 DEF ReadLastFailure, Goto, Finish, SetState, SetFailures, breaker, history, States, Steps
<1>3. ASSUME NEW c \in Callers, SetHalfOpen(c) PROVE TypeOK'
  BY <1>3 DEF SetHalfOpen, Goto, Finish, SetState, SetFailures, breaker, history, States, Steps
<1>4. ASSUME NEW c \in Callers, Return(c) PROVE TypeOK'
  BY <1>4 DEF Return, Goto, Finish, SetState, SetFailures, breaker, history, States, Steps
<1>5. ASSUME NEW c \in Callers, Close(c) PROVE TypeOK'
  BY <1>5 DEF Close, Goto, Finish, SetState, SetFailures, breaker, history, States, Steps
<1>6. ASSUME NEW c \in Callers, Reset(c) PROVE TypeOK'
  BY <1>6 DEF Reset, Goto, Finish, SetState, SetFailures, breaker, history, States, Steps
<1>7. ASSUME NEW c \in Callers, Raise(c) PROVE TypeOK'
  <2>1. faulted' \in BOOLEAN
    <3>1. faulted \in BOOLEAN
      OBVIOUS
    <3>2. faulted' = faulted \/ faulted' = TRUE
      BY <1>7, Zenon DEF Raise
    <3>3. QED
      BY <3>1, <3>2, Zenon
  <2>2. /\ raised' = raised + 1 /\ raised < MaxRaised
        /\ Goto(c, "count")
        /\ UNCHANGED <<breaker, up, seen, count>>
    BY <1>7, Zenon DEF Raise
  <2>3. QED
    BY <2>1, <2>2 DEF Goto, breaker, Steps
<1>8. ASSUME NEW c \in Callers, CountFailure(c) PROVE TypeOK'
  BY <1>8 DEF CountFailure, Goto, Finish, SetState, SetFailures, breaker, history, States, Steps
<1>9. ASSUME NEW c \in Callers, StoreFailures(c) PROVE TypeOK'
  BY <1>9 DEF StoreFailures, Goto, Finish, SetState, SetFailures, breaker, history, States, Steps
<1>10. ASSUME NEW c \in Callers, StampFailure(c) PROVE TypeOK'
  BY <1>10 DEF StampFailure, Goto, Finish, SetState, SetFailures, breaker, history, States, Steps
<1>11. ASSUME NEW c \in Callers, Trip(c) PROVE TypeOK'
  BY <1>11 DEF Trip, Goto, Finish, SetState, SetFailures, breaker, history, States, Steps
<1>12. ASSUME NEW c \in Callers, Abandon(c) PROVE TypeOK'
  BY <1>12 DEF Abandon, Goto, Finish, SetState, SetFailures, breaker, history, States, Steps
<1>13. ASSUME Tick PROVE TypeOK'
  BY <1>13, OlderType DEF Tick, history, locals, States
<1>14. ASSUME ServiceChanges PROVE TypeOK'
  BY <1>14 DEF ServiceChanges, history, breaker, locals
<1>15. CASE UNCHANGED vars
  BY <1>15 DEF vars
<1>16. QED
  BY <1>1, <1>2, <1>3, <1>4, <1>5, <1>6, <1>7, <1>8, <1>9, <1>10, <1>11,
       <1>12, <1>13, <1>14, <1>15 DEF Next, Proceed

\* An empty cache and idle workers are well typed.
LEMMA TypeInitially == Init => TypeOK
<1> SUFFICES ASSUME Init PROVE TypeOK
  OBVIOUS
<1>1. faulted \in BOOLEAN /\ up \in BOOLEAN
  BY Zenon DEF Init
<1>2. QED
  BY <1>1, ConstantsAssumption DEF Init, TypeOK, States, Steps

\* Every key and every local keeps its type.
THEOREM BreakerTypeCorrect == Spec => []TypeOK
  BY TypeInitially, StepType, PTL DEF Spec

-----------------------------------------------------------------------------
(* The breaker trips only after enough failures *)

\* There are finitely many workers, so the uncounted can be counted.
LEMMA UncountedFinite ==
    /\ IsFiniteSet(Uncounted)
    /\ Cardinality(Uncounted) \in Nat
<1>1. IsFiniteSet(Uncounted)
  BY ConstantsAssumption, FS_Subset DEF Uncounted
<1>2. QED
  BY <1>1, FS_CardinalityType

\* A call that raises adds itself to the uncounted.
LEMMA UncountedGrows ==
    ASSUME TypeOK, NEW c \in Callers, Raise(c)
    PROVE  Cardinality(Uncounted)' = Cardinality(Uncounted) + 1
<1>1. c \notin Uncounted
  BY DEF Raise, Uncounted
<1>2. Uncounted' = Uncounted \cup {c}
  BY DEF TypeOK, Raise, Goto, Uncounted
<1>3. QED
  BY <1>1, <1>2, UncountedFinite, FS_AddElement

\* A call that reads the count leaves the uncounted.
LEMMA UncountedLeft ==
    ASSUME TypeOK, NEW c \in Callers, CountFailure(c)
    PROVE  Cardinality(Uncounted)' = Cardinality(Uncounted) - 1
<1>1. c \in Uncounted
  BY DEF CountFailure, Uncounted
<1>2. Uncounted' = Uncounted \ {c}
  BY DEF TypeOK, CountFailure, Goto, Uncounted
<1>3. QED
  BY <1>1, <1>2, UncountedFinite, FS_RemoveElement

\* Calls that leave the uncounted, or are killed among them, make them fewer.
LEMMA UncountedShrinks ==
    ASSUME Uncounted' \subseteq Uncounted
    PROVE  Cardinality(Uncounted)' <= Cardinality(Uncounted)
  BY UncountedFinite, FS_Subset

\* The inductive step: a count that is stored was read when it left room for
\* every call still uncounted, so overlapping writes can only lose failures.
LEMMA StepEarned ==
    ASSUME EarnedInv, [Next]_vars
    PROVE  CountsAreEarned' /\ WritesAreEarned' /\ TripIsEarned'
<1> DEFINE Earned == CountsAreEarned /\ WritesAreEarned /\ TripIsEarned
<1> DEFINE U == Cardinality(Uncounted)
<1> USE ConstantsAssumption DEF EarnedInv, TypeOK
<1>a. U \in Nat /\ U' \in Nat
  <2>1. IsFiniteSet(Uncounted')
    BY FS_Subset DEF Uncounted
  <2>2. QED
    BY <2>1, UncountedFinite, FS_CardinalityType
<1>b. /\ failures + U <= raised
      /\ \A v \in Callers : count[v] + U <= raised
  BY DEF CountsAreEarned
<1>c. TypeOK'
  BY StepType
<1>d. ASSUME U' <= U, raised' = raised, failures' \in {failures, 0},
             \A v \in Callers : count'[v] \in {count[v], 0}
      PROVE  CountsAreEarned'
  BY <1>a, <1>b, <1>c, <1>d DEF CountsAreEarned
<1>e. ASSUME Uncounted' \subseteq Uncounted PROVE U' <= U
  BY <1>e, UncountedShrinks
<1>1. ASSUME NEW c \in Callers, ReadState(c) PROVE Earned'
  <2>1. /\ raised' = raised /\ failures' \in {failures, 0}
        /\ \A v \in Callers : count'[v] \in {count[v], 0}
    BY <1>1 DEF ReadState, Goto, Finish, history, SetState, SetFailures, breaker
  <2>2. Uncounted' \subseteq Uncounted
    BY <1>1 DEF ReadState, Goto, Finish, Uncounted
  <2>3. CountsAreEarned'
    BY <1>d, <1>e, <2>1, <2>2
  <2>4. WritesAreEarned' /\ TripIsEarned'
    BY <1>1, <1>a, <1>b, <1>c, <2>1
       DEF ReadState, Goto, Finish, history, SetState, breaker, WritesAreEarned, TripIsEarned, States
  <2>5. QED
    BY <2>3, <2>4
<1>2. ASSUME NEW c \in Callers, ReadLastFailure(c) PROVE Earned'
  <2>1. /\ raised' = raised /\ failures' \in {failures, 0}
        /\ \A v \in Callers : count'[v] \in {count[v], 0}
    BY <1>2 DEF ReadLastFailure, Goto, Finish, history, SetState, SetFailures, breaker
  <2>2. Uncounted' \subseteq Uncounted
    BY <1>2 DEF ReadLastFailure, Goto, Finish, Uncounted
  <2>3. CountsAreEarned'
    BY <1>d, <1>e, <2>1, <2>2
  <2>4. WritesAreEarned' /\ TripIsEarned'
    BY <1>2, <1>a, <1>b, <1>c, <2>1
       DEF ReadLastFailure, Goto, Finish, history, SetState, breaker, WritesAreEarned, TripIsEarned, States
  <2>5. QED
    BY <2>3, <2>4
<1>3. ASSUME NEW c \in Callers, SetHalfOpen(c) PROVE Earned'
  <2>1. /\ raised' = raised /\ failures' \in {failures, 0}
        /\ \A v \in Callers : count'[v] \in {count[v], 0}
    BY <1>3 DEF SetHalfOpen, Goto, Finish, history, SetState, SetFailures, breaker
  <2>2. Uncounted' \subseteq Uncounted
    BY <1>3 DEF SetHalfOpen, Goto, Finish, Uncounted
  <2>3. CountsAreEarned'
    BY <1>d, <1>e, <2>1, <2>2
  <2>4. WritesAreEarned' /\ TripIsEarned'
    BY <1>3, <1>a, <1>b, <1>c, <2>1
       DEF SetHalfOpen, Goto, Finish, history, SetState, breaker, WritesAreEarned, TripIsEarned, States
  <2>5. QED
    BY <2>3, <2>4
<1>4. ASSUME NEW c \in Callers, Return(c) PROVE Earned'
  <2>1. /\ raised' = raised /\ failures' \in {failures, 0}
        /\ \A v \in Callers : count'[v] \in {count[v], 0}
    BY <1>4 DEF Return, Goto, Finish, history, SetState, SetFailures, breaker
  <2>2. Uncounted' \subseteq Uncounted
    BY <1>4 DEF Return, Goto, Finish, Uncounted
  <2>3. CountsAreEarned'
    BY <1>d, <1>e, <2>1, <2>2
  <2>4. WritesAreEarned' /\ TripIsEarned'
    BY <1>4, <1>a, <1>b, <1>c, <2>1
       DEF Return, Goto, Finish, history, SetState, breaker, WritesAreEarned, TripIsEarned, States
  <2>5. QED
    BY <2>3, <2>4
<1>5. ASSUME NEW c \in Callers, Close(c) PROVE Earned'
  <2>1. /\ raised' = raised /\ failures' \in {failures, 0}
        /\ \A v \in Callers : count'[v] \in {count[v], 0}
    BY <1>5 DEF Close, Goto, Finish, history, SetState, SetFailures, breaker
  <2>2. Uncounted' \subseteq Uncounted
    BY <1>5 DEF Close, Goto, Finish, Uncounted
  <2>3. CountsAreEarned'
    BY <1>d, <1>e, <2>1, <2>2
  <2>4. WritesAreEarned' /\ TripIsEarned'
    BY <1>5, <1>a, <1>b, <1>c, <2>1
       DEF Close, Goto, Finish, history, SetState, breaker, WritesAreEarned, TripIsEarned, States
  <2>5. QED
    BY <2>3, <2>4
<1>6. ASSUME NEW c \in Callers, Reset(c) PROVE Earned'
  <2>1. /\ raised' = raised /\ failures' \in {failures, 0}
        /\ \A v \in Callers : count'[v] \in {count[v], 0}
    BY <1>6 DEF Reset, Goto, Finish, history, SetState, SetFailures, breaker
  <2>2. Uncounted' \subseteq Uncounted
    BY <1>6 DEF Reset, Goto, Finish, Uncounted
  <2>3. CountsAreEarned'
    BY <1>d, <1>e, <2>1, <2>2
  <2>4. WritesAreEarned' /\ TripIsEarned'
    BY <1>6, <1>a, <1>b, <1>c, <2>1
       DEF Reset, Goto, Finish, history, SetState, breaker, WritesAreEarned, TripIsEarned, States
  <2>5. QED
    BY <2>3, <2>4
<1>7. ASSUME NEW c \in Callers, Raise(c) PROVE Earned'
  <2>1. U' = U + 1 /\ raised' = raised + 1
    BY <1>7, UncountedGrows DEF Raise
  <2>2. failures' = failures /\ count' = count
    BY <1>7 DEF Raise, breaker
  <2>3. CountsAreEarned'
    BY <1>a, <1>b, <1>c, <2>1, <2>2 DEF CountsAreEarned
  <2>4. WritesAreEarned' /\ TripIsEarned'
    BY <1>7, <2>1, <2>2 DEF Raise, Goto, breaker, WritesAreEarned, TripIsEarned
  <2>5. QED
    BY <2>3, <2>4
<1>8. ASSUME NEW c \in Callers, CountFailure(c) PROVE Earned'
  <2>1. U' = U - 1 /\ raised' = raised
    BY <1>8, UncountedLeft DEF CountFailure, history
  <2>2. failures' = failures /\ count' = [count EXCEPT ![c] = failures + 1]
    BY <1>8 DEF CountFailure, history, breaker
  <2>3. CountsAreEarned'
    BY <1>a, <1>b, <1>c, <2>1, <2>2 DEF CountsAreEarned
  <2>4. WritesAreEarned' /\ TripIsEarned'
    BY <1>8, <2>1, <2>2
       DEF CountFailure, Goto, breaker, WritesAreEarned, TripIsEarned
  <2>5. QED
    BY <2>3, <2>4
<1>9. ASSUME NEW c \in Callers, StoreFailures(c) PROVE Earned'
  <2>1. /\ raised' = raised /\ failures' = count[c] /\ count' = count
        /\ state' = state
    BY <1>9 DEF StoreFailures, history, SetFailures
  <2>2. Uncounted' \subseteq Uncounted
    BY <1>9 DEF StoreFailures, Goto, Uncounted
  <2>3. CountsAreEarned'
    BY <1>a, <1>b, <1>c, <1>e, <2>1, <2>2 DEF CountsAreEarned
  <2>4. WritesAreEarned' /\ TripIsEarned'
    BY <1>9, <2>1 DEF StoreFailures, Goto, WritesAreEarned, TripIsEarned
  <2>5. QED
    BY <2>3, <2>4
<1>10. ASSUME NEW c \in Callers, StampFailure(c) PROVE Earned'
  <2>1. /\ raised' = raised /\ failures' \in {failures, 0}
        /\ \A v \in Callers : count'[v] \in {count[v], 0}
    BY <1>10 DEF StampFailure, Goto, Finish, history, SetState, SetFailures, breaker
  <2>2. Uncounted' \subseteq Uncounted
    BY <1>10 DEF StampFailure, Goto, Finish, Uncounted
  <2>3. CountsAreEarned'
    BY <1>d, <1>e, <2>1, <2>2
  <2>4. WritesAreEarned' /\ TripIsEarned'
    BY <1>10, <1>a, <1>b, <1>c, <2>1
       DEF StampFailure, Goto, Finish, history, SetState, breaker, WritesAreEarned, TripIsEarned, States
  <2>5. QED
    BY <2>3, <2>4
<1>11. ASSUME NEW c \in Callers, Trip(c) PROVE Earned'
  <2>1. /\ raised' = raised /\ failures' \in {failures, 0}
        /\ \A v \in Callers : count'[v] \in {count[v], 0}
    BY <1>11 DEF Trip, Goto, Finish, history, SetState, SetFailures, breaker
  <2>2. Uncounted' \subseteq Uncounted
    BY <1>11 DEF Trip, Goto, Finish, Uncounted
  <2>3. CountsAreEarned'
    BY <1>d, <1>e, <2>1, <2>2
  <2>4. WritesAreEarned' /\ TripIsEarned'
    BY <1>11, <1>a, <1>b, <1>c, <2>1
       DEF Trip, Goto, Finish, history, SetState, breaker, WritesAreEarned, TripIsEarned, States
  <2>5. QED
    BY <2>3, <2>4
<1>12. ASSUME NEW c \in Callers, Abandon(c) PROVE Earned'
  <2>1. /\ raised' = raised /\ failures' \in {failures, 0}
        /\ \A v \in Callers : count'[v] \in {count[v], 0}
    BY <1>12 DEF Abandon, Goto, Finish, history, SetState, SetFailures, breaker
  <2>2. Uncounted' \subseteq Uncounted
    BY <1>12 DEF Abandon, Goto, Finish, Uncounted
  <2>3. CountsAreEarned'
    BY <1>d, <1>e, <2>1, <2>2
  <2>4. WritesAreEarned' /\ TripIsEarned'
    BY <1>12, <1>a, <1>b, <1>c, <2>1
       DEF Abandon, Goto, Finish, history, SetState, breaker, WritesAreEarned, TripIsEarned, States
  <2>5. QED
    BY <2>3, <2>4
<1>13. ASSUME Tick PROVE Earned'
  <2>1. /\ raised' = raised /\ failures' \in {failures, 0}
        /\ count' = count /\ pc' = pc /\ state' \in {state, "CLOSED"}
    BY <1>13 DEF Tick, history, breaker, locals
  <2>2. Uncounted' \subseteq Uncounted
    BY <2>1 DEF Uncounted
  <2>3. CountsAreEarned'
    BY <1>d, <1>e, <2>1, <2>2
  <2>4. WritesAreEarned' /\ TripIsEarned'
    BY <2>1 DEF WritesAreEarned, TripIsEarned
  <2>5. QED
    BY <2>3, <2>4
<1>14. ASSUME ServiceChanges PROVE Earned'
  <2>1. /\ raised' = raised /\ failures' \in {failures, 0}
        /\ count' = count /\ pc' = pc /\ state' \in {state, "CLOSED"}
    BY <1>14 DEF ServiceChanges, history, breaker, locals
  <2>2. Uncounted' \subseteq Uncounted
    BY <2>1 DEF Uncounted
  <2>3. CountsAreEarned'
    BY <1>d, <1>e, <2>1, <2>2
  <2>4. WritesAreEarned' /\ TripIsEarned'
    BY <2>1 DEF WritesAreEarned, TripIsEarned
  <2>5. QED
    BY <2>3, <2>4
<1>15. CASE UNCHANGED vars
  BY <1>15 DEF vars, CountsAreEarned, WritesAreEarned, TripIsEarned, Uncounted
<1>16. QED
  BY <1>1, <1>2, <1>3, <1>4, <1>5, <1>6, <1>7, <1>8, <1>9, <1>10, <1>11,
       <1>12, <1>13, <1>14, <1>15 DEF Next, Proceed

\* However the workers' reads and writes of the cache overlap, and whichever
\* key expires first, a breaker that is not closed has seen Threshold failures.
THEOREM TripsAreEarned == Spec => []TripIsEarned
<1>1. Init => EarnedInv
  <2> SUFFICES ASSUME Init PROVE CountsAreEarned /\ WritesAreEarned /\ TripIsEarned
    BY TypeInitially DEF EarnedInv
  <2>1. Uncounted = {}
    BY DEF Init, Uncounted
  <2>2. Cardinality(Uncounted) = 0
    BY <2>1, FS_EmptySet
  <2>3. QED
    BY <2>2 DEF Init, CountsAreEarned, WritesAreEarned, TripIsEarned
<1>2. EarnedInv /\ [Next]_vars => EarnedInv'
  BY StepType, StepEarned DEF EarnedInv
<1>3. EarnedInv => TripIsEarned
  BY DEF EarnedInv
<1>4. QED
  BY <1>1, <1>2, <1>3, PTL DEF Spec

-----------------------------------------------------------------------------
(* A full count is never left next to a closed breaker *)

\* The inductive step: between the write of a full count and the write of the
\* state there is a worker that still has to settle, and from then on the
\* state key is the younger of the two.
LEMMA StepSilent ==
    ASSUME SilentInv, [Next]_vars, ~faulted'
    PROVE  TrippedOutlivesCount'
<1> USE ConstantsAssumption DEF SilentInv, TypeOK
<1>a. TypeOK'
  BY StepType
<1>b. ~faulted
  BY DEF Next, Proceed, ReadState, ReadLastFailure, SetHalfOpen, Return, Close,
         Reset, Raise, CountFailure, StoreFailures, StampFailure, Trip, Abandon,
         Tick, ServiceChanges, history, vars
<1>c. TrippedOutlivesCount
  BY <1>b
<1>1. ASSUME NEW c \in Callers, ReadState(c) PROVE TrippedOutlivesCount'
  <2>1. \A v \in Callers : Settling(v) => Settling(v)'
    BY <1>1 DEF ReadState, Goto, Finish, Settling
  <2>2. QED
    BY <1>1, <1>c, <2>1 DEF ReadState, Goto, SetState, SetFailures, breaker,
         Settling, TrippedOutlivesCount
<1>2. ASSUME NEW c \in Callers, ReadLastFailure(c) PROVE TrippedOutlivesCount'
  <2>1. \A v \in Callers : Settling(v) => Settling(v)'
    BY <1>2 DEF ReadLastFailure, Goto, Finish, Settling
  <2>2. QED
    BY <1>2, <1>c, <2>1 DEF ReadLastFailure, Goto, SetState, SetFailures, breaker, Settling, TrippedOutlivesCount
<1>3. ASSUME NEW c \in Callers, SetHalfOpen(c) PROVE TrippedOutlivesCount'
  <2>1. \A v \in Callers : Settling(v) => Settling(v)'
    BY <1>3 DEF SetHalfOpen, Goto, Finish, Settling
  <2>2. QED
    BY <1>3, <1>c, <2>1 DEF SetHalfOpen, Goto, SetState, SetFailures, breaker, Settling, TrippedOutlivesCount
<1>4. ASSUME NEW c \in Callers, Return(c) PROVE TrippedOutlivesCount'
  <2>1. \A v \in Callers : Settling(v) => Settling(v)'
    BY <1>4 DEF Return, Goto, Finish, Settling
  <2>2. QED
    BY <1>4, <1>c, <2>1 DEF Return, Goto, SetState, SetFailures, breaker, Settling, TrippedOutlivesCount
<1>5. ASSUME NEW c \in Callers, Close(c) PROVE TrippedOutlivesCount'
  BY <1>5, <1>a, <1>c DEF Close, Goto, Finish, SetState, SetFailures, breaker, Settling, TrippedOutlivesCount
<1>6. ASSUME NEW c \in Callers, Reset(c) PROVE TrippedOutlivesCount'
  BY <1>6, <1>a, <1>c DEF Reset, Goto, Finish, SetState, SetFailures, breaker, Settling, TrippedOutlivesCount
<1>7. ASSUME NEW c \in Callers, Raise(c) PROVE TrippedOutlivesCount'
  <2>1. \A v \in Callers : Settling(v) => Settling(v)'
    BY <1>7 DEF Raise, Goto, Finish, Settling
  <2>2. QED
    BY <1>7, <1>c, <2>1 DEF Raise, Goto, SetState, SetFailures, breaker, Settling, TrippedOutlivesCount
<1>8. ASSUME NEW c \in Callers, CountFailure(c) PROVE TrippedOutlivesCount'
  <2>1. \A v \in Callers : Settling(v) => Settling(v)'
    BY <1>8 DEF CountFailure, Goto, Finish, Settling
  <2>2. QED
    BY <1>8, <1>c, <2>1 DEF CountFailure, Goto, SetState, SetFailures, breaker, Settling, TrippedOutlivesCount
<1>9. ASSUME NEW c \in Callers, StoreFailures(c) PROVE TrippedOutlivesCount'
  <2>1. \A v \in Callers : Settling(v) => Settling(v)'
    BY <1>9 DEF StoreFailures, Goto, Finish, Settling
  <2>2. QED
    BY <1>9, <1>c, <2>1 DEF StoreFailures, Goto, SetState, SetFailures, breaker, Settling, TrippedOutlivesCount
<1>10. ASSUME NEW c \in Callers, StampFailure(c) PROVE TrippedOutlivesCount'
  <2>1. \A v \in Callers : Settling(v) => Settling(v)'
    BY <1>10 DEF StampFailure, Goto, Finish, Settling
  <2>2. QED
    BY <1>10, <1>c, <2>1 DEF StampFailure, Goto, SetState, SetFailures, breaker, Settling, TrippedOutlivesCount
<1>11. ASSUME NEW c \in Callers, Trip(c) PROVE TrippedOutlivesCount'
  BY <1>11, <1>a, <1>c DEF Trip, Goto, Finish, SetState, SetFailures, breaker, Settling, TrippedOutlivesCount
<1>12. ASSUME NEW c \in Callers, Abandon(c) PROVE TrippedOutlivesCount'
  BY <1>12 DEF Abandon
<1>13. ASSUME Tick PROVE TrippedOutlivesCount'
  <2>1. /\ \A v \in Callers : Settling(v) => Settling(v)'
        /\ failures' \in {failures, 0}
        /\ failures' = 0 \/ failAge' # TTL
    BY <1>13 DEF Tick, locals, Settling
  <2>2. ASSUME state # "CLOSED", stateAge <= failAge, failAge' # TTL
        PROVE  state' # "CLOSED" /\ stateAge' <= failAge'
    BY <1>13, <2>2 DEF Tick, Older
  <2>3. QED
    BY <1>c, <2>1, <2>2 DEF TrippedOutlivesCount
<1>14. ASSUME ServiceChanges PROVE TrippedOutlivesCount'
  BY <1>14, <1>c DEF ServiceChanges, breaker, locals, Settling, TrippedOutlivesCount
<1>15. CASE UNCHANGED vars
  BY <1>15, <1>c DEF vars, Settling, TrippedOutlivesCount
<1>16. QED
  BY <1>1, <1>2, <1>3, <1>4, <1>5, <1>6, <1>7, <1>8, <1>9, <1>10, <1>11,
       <1>12, <1>13, <1>14, <1>15 DEF Next, Proceed

\* Until a worker is killed in a call, a full count of failures is never left
\* next to a closed breaker.
THEOREM FailuresAreNotSilent == Spec => []NoSilentFailures
<1>1. Init => SilentInv
  BY TypeInitially, ConstantsAssumption DEF Init, SilentInv, TrippedOutlivesCount
<1>2. SilentInv /\ [Next]_vars => SilentInv'
  BY StepType, StepSilent DEF SilentInv
<1>3. SilentInv => NoSilentFailures
  BY DEF SilentInv, TrippedOutlivesCount, Settling, NoSilentFailures
<1>4. QED
  BY <1>1, <1>2, <1>3, PTL DEF Spec
=============================================================================

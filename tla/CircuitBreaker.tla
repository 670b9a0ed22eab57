--------------------------- MODULE CircuitBreaker ---------------------------
(***************************************************************************)
(* The circuit breaker around calls to Stripe                              *)
(* (learnnov-cloud/apps/core/circuit_breaker.py), shared by the workers    *)
(* through three keys of the cache: the state, the number of failures and  *)
(* the time of the last failure.  A key written with cache.set lives for   *)
(* Django's default timeout.  The breaker takes no lock, so between two    *)
(* accesses to the cache any other worker may run: each access is an       *)
(* action, and pc[c] says which comes next in the call of worker c.        *)
(*                                                                         *)
(* Time passes in ticks.  A key's age is the number of ticks since it was  *)
(* written, and TTL when it is not in the cache.                           *)
(***************************************************************************)
EXTENDS Naturals, FiniteSets

CONSTANTS
    Callers,     \* workers that call the service
    Threshold,   \* failure_threshold
    Recovery,    \* recovery_timeout, in ticks
    TTL,         \* the cache's default timeout, in ticks
    MaxRaised    \* calls that raise in a run (a bound, for TLC)

ASSUME ConstantsAssumption ==
    /\ IsFiniteSet(Callers)
    /\ Threshold \in Nat \ {0}
    /\ Recovery \in Nat
    /\ TTL \in Nat
    /\ Recovery < TTL
    /\ MaxRaised \in Nat

VARIABLES
    state,      \* "cb:default:state": CLOSED also when the key is absent
    failures,   \* "cb:default:failures": 0 also when the key is absent
    stateAge, failAge, lastAge,  \* ages of the three keys
    up,         \* calls that end now succeed
    pc,         \* per worker: the next step of its call
    seen,       \* per worker: the local variable state of call()
    count,      \* per worker: the local variable failures of call()
    raised,     \* history: calls whose except clause was entered
    faulted     \* history: a worker was killed in a call, or the cache raised

breaker == <<state, failures, stateAge, failAge, lastAge>>
locals == <<pc, seen, count>>
history == <<raised, faulted>>
vars == <<state, failures, stateAge, failAge, lastAge, up,
          pc, seen, count, raised, faulted>>

States == {"CLOSED", "OPEN", "HALF_OPEN"}
Steps == {"idle", "check", "probe", "calling", "close", "reset",
          "count", "store", "stamp", "trip"}
-----------------------------------------------------------------------------
Init ==
    /\ state = "CLOSED"
    /\ failures = 0
    /\ stateAge = TTL
    /\ failAge = TTL
    /\ lastAge = TTL
    /\ up \in BOOLEAN
    /\ pc = [c \in Callers |-> "idle"]
    /\ seen = [c \in Callers |-> "CLOSED"]
    /\ count = [c \in Callers |-> 0]
    /\ raised = 0
    /\ faulted = FALSE

\* Worker c goes on to step s; a call that is over leaves no locals.
Goto(c, s) == pc' = [pc EXCEPT ![c] = s]
Finish(c) ==
    /\ Goto(c, "idle")
    /\ seen' = [seen EXCEPT ![c] = "CLOSED"]
    /\ count' = [count EXCEPT ![c] = 0]

\* cache.set of the state.  A key that says CLOSED is as good as none.
SetState(s) ==
    /\ state' = s
    /\ stateAge' = IF s = "CLOSED" THEN TTL ELSE 0

\* cache.set of the number of failures.
SetFailures(n) ==
    /\ failures' = n
    /\ failAge' = IF n = 0 THEN TTL ELSE 0
-----------------------------------------------------------------------------
ReadState(c) ==
    /\ pc[c] = "idle"
    /\ seen' = [seen EXCEPT ![c] = state]
    /\ Goto(c, IF state = "OPEN" THEN "check" ELSE "calling")
    /\ UNCHANGED <<breaker, up, count, history>>

\* Mutant: a refused call counts as a failure: the breaker is opened anew.
RefusalReopens(c) ==
    /\ pc[c] = "check"
    /\ \/ /\ lastAge > Recovery
          /\ Goto(c, "probe")
          /\ UNCHANGED <<breaker, seen, count>>
       \/ /\ lastAge <= Recovery
          /\ SetState("OPEN")
          /\ lastAge' = 0
          /\ Finish(c)
          /\ UNCHANGED <<failures, failAge>>
    /\ UNCHANGED <<up, history>>

\* The time of the last failure is read; one that is absent reads as 0.0,
\* long ago.  Until the recovery timeout is exceeded the call is refused.
ReadLastFailure(c) ==
    /\ pc[c] = "check"
    /\ \/ /\ lastAge > Recovery
          /\ Goto(c, "probe")
          /\ UNCHANGED <<seen, count>>
       \/ /\ lastAge <= Recovery
          /\ Finish(c)
    /\ UNCHANGED <<breaker, up, history>>

\* The breaker is half open for everyone: nothing limits it to one probe.
SetHalfOpen(c) ==
    /\ pc[c] = "probe"
    /\ SetState("HALF_OPEN")
    /\ seen' = [seen EXCEPT ![c] = "HALF_OPEN"]
    /\ Goto(c, "calling")
    /\ UNCHANGED <<failures, failAge, lastAge, up, count, history>>

\* A success while closed leaves the failures counted so far as they are.
Return(c) ==
    /\ pc[c] = "calling"
    /\ up
    /\ IF seen[c] = "HALF_OPEN"
       THEN Goto(c, "close") /\ UNCHANGED <<seen, count>>
       ELSE Finish(c)
    /\ UNCHANGED <<breaker, up, history>>

\* Mutant: a successful probe closes the breaker and keeps the failures.
CloseKeepsFailures(c) ==
    /\ pc[c] = "close"
    /\ SetState("CLOSED")
    /\ Finish(c)
    /\ UNCHANGED <<failures, failAge, lastAge, up, history>>

Close(c) ==
    /\ pc[c] = "close"
    /\ SetState("CLOSED")
    /\ Goto(c, "reset")
    /\ UNCHANGED <<failures, failAge, lastAge, up, seen, count, history>>

\* Mutant: a successful probe takes back one failure.
ResetOne(c) ==
    /\ pc[c] = "reset"
    /\ SetFailures(failures - 1)
    /\ Finish(c)
    /\ UNCHANGED <<state, stateAge, lastAge, up, history>>

Reset(c) ==
    /\ pc[c] = "reset"
    /\ SetFailures(0)
    /\ Finish(c)
    /\ UNCHANGED <<state, stateAge, lastAge, up, history>>

\* The call raises.  So does, inside the same try block, a write of Close or
\* Reset that does not reach the cache.
Raise(c) ==
    /\ \/ pc[c] = "calling" /\ ~up /\ UNCHANGED faulted
       \/ pc[c] \in {"close", "reset"} /\ faulted' = TRUE
    /\ raised < MaxRaised
    /\ raised' = raised + 1
    /\ Goto(c, "count")
    /\ UNCHANGED <<breaker, up, seen, count>>

\* Mutant: a count that is not in the cache reads as 1.
CountFromOne(c) ==
    /\ pc[c] = "count"
    /\ count' = [count EXCEPT ![c] = IF failures = 0 THEN 2 ELSE failures + 1]
    /\ Goto(c, "store")
    /\ UNCHANGED <<breaker, up, seen, history>>

\* The number of failures is read ...
CountFailure(c) ==
    /\ pc[c] = "count"
    /\ count' = [count EXCEPT ![c] = failures + 1]
    /\ Goto(c, "store")
    /\ UNCHANGED <<breaker, up, seen, history>>

\* ... and written back, over what other workers wrote in between.
StoreFailures(c) ==
    /\ pc[c] = "store"
    /\ SetFailures(count[c])
    /\ Goto(c, "stamp")
    /\ UNCHANGED <<state, stateAge, lastAge, up, seen, count, history>>

StampFailure(c) ==
    /\ pc[c] = "stamp"
    /\ lastAge' = 0
    /\ IF count[c] >= Threshold
       THEN Goto(c, "trip") /\ UNCHANGED <<seen, count>>
       ELSE Finish(c)
    /\ UNCHANGED <<state, failures, stateAge, failAge, up, history>>

Trip(c) ==
    /\ pc[c] = "trip"
    /\ SetState("OPEN")
    /\ Finish(c)
    /\ UNCHANGED <<failures, failAge, lastAge, up, history>>

\* The worker is killed, or the cache raises outside the try block.
Abandon(c) ==
    /\ pc[c] # "idle"
    /\ faulted' = TRUE
    /\ Finish(c)
    /\ UNCHANGED <<breaker, up, raised>>
-----------------------------------------------------------------------------
Older(age) == IF age < TTL THEN age + 1 ELSE TTL

\* A tick passes, and the cache drops the keys whose timeout is over.
Tick ==
    /\ stateAge' = Older(stateAge)
    /\ failAge' = Older(failAge)
    /\ lastAge' = Older(lastAge)
    /\ state' = IF stateAge' = TTL THEN "CLOSED" ELSE state
    /\ failures' = IF failAge' = TTL THEN 0 ELSE failures
    /\ UNCHANGED <<up, locals, history>>

\* The service fails, or is restored.
ServiceChanges ==
    /\ up' = ~up
    /\ UNCHANGED <<breaker, locals, history>>

\* What a worker does in a call once it is made.
Proceed(c) ==
    \/ ReadLastFailure(c) \/ SetHalfOpen(c) \/ Return(c) \/ Close(c)
    \/ Reset(c) \/ Raise(c) \/ CountFailure(c) \/ StoreFailures(c)
    \/ StampFailure(c) \/ Trip(c)

Next ==
    \/ \E c \in Callers : ReadState(c) \/ Proceed(c) \/ Abandon(c)
    \/ Tick
    \/ ServiceChanges

Spec == Init /\ [][Next]_vars

\* A call that was made goes on, and time passes.  Nobody has to call.
Fairness ==
    /\ \A c \in Callers : WF_vars(Proceed(c))
    /\ WF_vars(Tick)

FairSpec == Spec /\ Fairness
-----------------------------------------------------------------------------
(* Properties *)

TypeOK ==
    /\ state \in States
    /\ failures \in Nat
    /\ stateAge \in 0 .. TTL
    /\ failAge \in 0 .. TTL
    /\ lastAge \in 0 .. TTL
    /\ up \in BOOLEAN
    /\ pc \in [Callers -> Steps]
    /\ seen \in [Callers -> States]
    /\ count \in [Callers -> Nat]
    /\ raised \in 0 .. MaxRaised
    /\ faulted \in BOOLEAN

\* The breaker never refuses a service that has not failed Threshold times:
\* reads and writes of the count that overlap lose failures and never invent
\* one (circuit_breaker.py:57-61).
TripIsEarned == state # "CLOSED" => raised >= Threshold

\* Until a worker is killed or the cache raises in a call: once no call is
\* under way, a count of failures that has reached the threshold is never next
\* to a closed breaker, whatever order probes closed and failures tripped it in
\* and whichever key expired first (circuit_breaker.py:52-61).
NoSilentFailures ==
    ~faulted /\ (\A c \in Callers : pc[c] = "idle") /\ failures >= Threshold
        => state # "CLOSED"

\* When the service stays up the breaker ends up closed, by a probe or by the
\* timeout of its key, even if the worker that probed was killed and even if
\* nobody calls again (circuit_breaker.py:36-54).
Recovers == <>[]up => <>[](state = "CLOSED")
-----------------------------------------------------------------------------
(* What makes the safety properties inductive *)

\* Calls that have raised and not yet read the count.
Uncounted == {c \in Callers : pc[c] = "count"}

\* Every count, stored or about to be, leaves room for the uncounted ...
CountsAreEarned ==
    /\ failures + Cardinality(Uncounted) <= raised
    /\ \A c \in Callers : count[c] + Cardinality(Uncounted) <= raised

\* ... a worker trips the breaker on a full count, and probes one it saw open.
WritesAreEarned ==
    /\ \A c \in Callers : pc[c] = "trip" => count[c] >= Threshold
    /\ \A c \in Callers : pc[c] \in {"check", "probe"} => raised >= Threshold

EarnedInv == TypeOK /\ CountsAreEarned /\ WritesAreEarned /\ TripIsEarned

\* A worker whose next writes settle the breaker and the count.
Settling(c) ==
    \/ pc[c] = "reset"
    \/ pc[c] \in {"stamp", "trip"} /\ count[c] >= Threshold

\* The state key outlives a count that has reached the threshold.
TrippedOutlivesCount ==
    failures >= Threshold =>
        \/ \E c \in Callers : Settling(c)
        \/ state # "CLOSED" /\ stateAge <= failAge

SilentInv == TypeOK /\ (~faulted => TrippedOutlivesCount)
=============================================================================

--------------------------- MODULE PurchaseLedger ---------------------------
(***************************************************************************)
(* What the purchase endpoints of learnnov-cloud promise, without the      *)
(* requests, locks, events and tables by which they keep it: a ledger of   *)
(* orders.  Money and spent codes are entered once, one order at a time,   *)
(* and never struck out; an order is settled only by an entry for that     *)
(* very order that is in the ledger already, or is made in the same step.  *)
(* OrderPayments is shown to implement it.                                 *)
(***************************************************************************)
CONSTANT Orders

VARIABLES
    placed,     \* orders a student has placed
    free,       \* those whose price came to nothing
    charged,    \* those Stripe holds the money for
    waived,     \* those a 100% code was spent on
    settled     \* those that give access to the course

ledger == <<placed, free, charged, waived, settled>>

Init ==
    /\ placed = {}
    /\ free = {}
    /\ charged = {}
    /\ waived = {}
    /\ settled = {}

\* An order is placed, or a pending one priced anew.  If it was settled after
\* it was read as pending, it has to be settled again.
Place(o) ==
    /\ placed' = placed \cup {o}
    /\ free' \in {free \cup {o}, free \ {o}}
    /\ settled' = settled \ {o}
    /\ UNCHANGED <<charged, waived>>

\* Stripe charges the client for an order, and for none a second time.
Charge(o) ==
    /\ o \in placed \ charged
    /\ charged' = charged \cup {o}
    /\ UNCHANGED <<placed, free, waived, settled>>

\* A free order is settled with no further entry.
Waive(o) ==
    /\ placed' = placed \cup {o}
    /\ free' = free \cup {o}
    /\ settled' = settled \cup {o}
    /\ UNCHANGED <<charged, waived>>

\* A 100% code is spent on an order, which it may settle.
Redeem(o) ==
    /\ placed' = placed \cup {o}
    /\ free' \in {free \cup {o}, free \ {o}}
    /\ waived' = waived \cup {o}
    /\ settled' \in {settled, settled \cup {o}}
    /\ UNCHANGED charged

\* A charged order is settled, and its code spent.
Settle(o) ==
    /\ o \in charged \ settled
    /\ settled' = settled \cup {o}
    /\ waived' \in {waived, waived \cup {o}}
    /\ UNCHANGED <<placed, free, charged>>

Next ==
    \E o \in Orders :
        Place(o) \/ Charge(o) \/ Waive(o) \/ Redeem(o) \/ Settle(o)

Spec == Init /\ [][Next]_ledger
=============================================================================

--------------------------- MODULE MCSubscriptions ---------------------------
(* Subscriptions on small instances. *)
EXTENDS Subscriptions, TLC

CONSTANTS s1, s2, monthly, yearly, w1, w2

\* One subscription has late events, and is billed for longer than the code
\* grants; the other is billed for less than it is granted.
MCBilled == [s \in Subs |-> IF s = s1 THEN 2 ELSE 1]
MCDelay == [s \in Subs |-> IF s = s1 THEN 1 ELSE 0]
MCPlan == [s \in Subs |-> IF s = s1 THEN monthly ELSE yearly]
=============================================================================

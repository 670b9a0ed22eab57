-------------------------- MODULE MCOrderPayments --------------------------
(* OrderPayments on small instances. *)
EXTENDS OrderPayments, TLC

CONSTANTS u1, u2, math, art, half, full, w1, w2, w3, o1, o2, o3, o4, i1, i2

MCFee == [k \in Courses |-> 1001]
MCPercent == [c \in Codes |-> IF c = full THEN 100 ELSE 50]
MCValidFor == [c \in Codes |-> IF c = half THEN {math} ELSE Courses]
MCOne == [c \in Codes |-> 1]
MCTwo == [c \in Codes |-> 2]

Symmetry == Permutations(OrderIds) \cup Permutations(IntentIds)
               \cup Permutations(Workers) \cup Permutations(Users)
============================================================================

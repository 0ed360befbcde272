-------------------------- MODULE MCSubscriptions --------------------------
(* Instances of Subscriptions: a monthly plan of two credits a period and  *)
(* a yearly one of one credit a month.                                     *)
EXTENDS Subscriptions, TLC

CONSTANTS c1, c2, monthly, yearly

MCSlice == [p \in Plans |-> IF p = monthly THEN 2 ELSE 1]
NoCredits == [sub |-> 0, top |-> 0]
=============================================================================

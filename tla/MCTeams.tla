------------------------------ MODULE MCTeams ------------------------------
(* Instances of Teams, small enough for the last seat to be fought over.   *)
EXTENDS Teams, TLC

CONSTANTS ann, bob, cid, dan, q1, q2, p1, p2, d1, d2

\* Bound: two invites; or one, and the deletion of the team or one payment;
\* or the deletion and two payments, or deliveries of one.
Inviting == IF invite = <<>> THEN 0 ELSE Len(invite) + 1

Deleting == team # "live" \/ \E q \in Requests : request[q].at = "deleting"

Paying == Cardinality({<<p, d>> \in Payments \X Deliveries : handler[p][d] # Free})
          + Cardinality({p \in Payments : txn[p] # "none"})

FewThings ==
    Inviting + (IF Deleting THEN 1 ELSE 0) + Paying <= 3

Interchangeable ==
    Permutations({cid, dan}) \union Permutations({q1, q2}) \union Permutations({d1, d2})
=============================================================================

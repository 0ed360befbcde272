------------------------------ MODULE Credits ------------------------------
(***************************************************************************)
(* The credit arithmetic of app/services/credits.py and of the batch split *)
(* in create_generation_batch (app/services/generation.py).                *)
(*                                                                         *)
(* A team has two pools: subscription credits (sub), which lapse at each   *)
(* refill, and top-up credits (top), which never expire.  A charge takes   *)
(* from both pools and remembers how much came from each.                  *)
(*                                                                         *)
(* An operator whose name ends in a slip (GrantedRoundedUp, ...) is a wrong *)
(* version of the operator below it, kept to show that the properties tell *)
(* the two apart; nothing else uses it.                                    *)
(***************************************************************************)
EXTENDS Integers

Pool == [sub : Nat, top : Nat]

Empty == [sub |-> 0, top |-> 0]

\* get_total_credits
Total(p) == p.sub + p.top

Lesser(a, b) == IF a <= b THEN a ELSE b

\* What spending `amount` takes from each pool: subscription credits first.
Taken(p, amount) ==
    LET s == Lesser(p.sub, amount) IN [sub |-> s, top |-> amount - s]

Minus(p, c) == [sub |-> p.sub - c.sub, top |-> p.top - c.top]

\* refund_credits: back into the same pools, in the same split.
Plus(p, c) == [sub |-> p.sub + c.sub, top |-> p.top + c.top]

GrantedRoundedUp(p, cost, wanted) ==
    IF cost <= 0 THEN wanted ELSE Lesser(wanted, (Total(p) + cost - 1) \div cost)

\* spend_credits_up_to: how many whole units a team can afford.  A free
\* tool grants the whole request.
Granted(p, cost, wanted) ==
    IF cost <= 0 THEN wanted ELSE Lesser(wanted, Total(p) \div cost)

PartOfNoRemainder(a, n, i) == a \div n

\* create_generation_batch splits what was taken over its n jobs, pool by
\* pool, rounding down; the first job carries both remainders.
PartOf(a, n, i) == (a \div n) + (IF i = 1 THEN a - (a \div n) * n ELSE 0)

Share(c, n, i) == [sub |-> PartOf(c.sub, n, i), top |-> PartOf(c.top, n, i)]
=============================================================================

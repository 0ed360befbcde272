---------------------------- MODULE CreditLedger ----------------------------
(***************************************************************************)
(* What the billing of generations promises, without locks, queues or      *)
(* workers: a batch charges a team for the jobs it can afford, and each    *)
(* charge is then settled once, by a delivery or by a refund of exactly    *)
(* what was taken.  A job that was refunded because it ran late may still  *)
(* be delivered, free of charge; nothing else follows a settlement.        *)
(*                                                                         *)
(* The team row's lock makes a batch, a refund, a refill and the move of   *)
(* leftover credits one atomic step each: none of them has read the team   *)
(* before it holds the lock.  A credit pack is bought in two steps: the    *)
(* webhook of the payment reads the team, and later, holding the lock,     *)
(* writes the sum of the balance it read then and the pack.  Whatever      *)
(* touched the top-up pool in between is overwritten.  Only one delivery   *)
(* of a payment grants anything (its id is unique), so that one is enough. *)
(***************************************************************************)
EXTENDS Credits, FiniteSets, Functions

CONSTANTS
    Teams,          \* teams, each with its own pools
    Requests,       \* generation requests, each at most one batch
    TeamOf,         \* TeamOf[r] is the team that pays for request r
    Cost,           \* credits per output
    MaxOutputs,     \* MAX_OUTPUT_COUNT: most outputs in one batch
    OpeningPool,    \* what every team starts with
    Purchases,      \* payments of credit packs
    BuyerOf,        \* BuyerOf[p] is the team that payment p is for
    PackOf,         \* PackOf[p] is the number of credits it buys
    Plans,          \* sizes of the subscription refills, 0 for a lapse
    MaxMoved        \* bound: a leftover moves while added stays within this

ASSUME LedgerAssumption ==
    /\ IsFiniteSet(Requests)
    /\ TeamOf \in [Requests -> Teams]
    /\ Cost \in Nat
    /\ MaxOutputs \in Nat \ {0}
    /\ OpeningPool \in Pool
    /\ BuyerOf \in [Purchases -> Teams]
    /\ PackOf \in [Purchases -> Nat \ {0}]
    /\ Plans \subseteq Nat
    /\ MaxMoved \in Nat

Jobs == Requests \X (1 .. MaxOutputs)

Team(j) == TeamOf[j[1]]

VARIABLES
    pool,       \* the two balances of each team
    charge,     \* what each job was charged, per pool
    phase,      \* where the charge of each job stands
    purchase,   \* where each payment stands, and the balance its webhook read
    added,      \* history: credits packs and leftovers added to top-up pools
    refilled,   \* history: what the subscription pool was last set to, and the
                \* jobs that held their charge at that moment
    overtaken   \* history: payments granted on a balance that was out of date

purchaseVars == <<purchase, added, refilled, overtaken>>
ledgerVars == <<pool, charge, phase, purchaseVars>>

Phases == {"absent", "held", "delivered", "refunded", "gift"}

\* The jobs of a team whose charge has not been given back.
Holding(t) == {j \in Jobs : Team(j) = t /\ phase[j] \in {"held", "delivered"}}

Unread == [at |-> "open", seen |-> 0]

LedgerInit ==
    /\ pool = [t \in Teams |-> OpeningPool]
    /\ charge = [j \in Jobs |-> Empty]
    /\ phase = [j \in Jobs |-> "absent"]
    /\ purchase = [p \in Purchases |-> Unread]
    /\ added = [t \in Teams |-> 0]
    /\ refilled = [t \in Teams |-> [credits |-> OpeningPool.sub, held |-> {}]]
    /\ overtaken = {}

\* spend_credits_up_to and the inserted rows, in one transaction.
ChargeBatch(r, wanted) ==
    LET t == TeamOf[r]
        n == Granted(pool[t], Cost, wanted)
        c == Taken(pool[t], Cost * n)
    IN  /\ \A i \in 1 .. MaxOutputs : phase[<<r, i>>] = "absent"
        /\ n >= 1
        /\ pool' = [pool EXCEPT ![t] = Minus(@, c)]
        /\ charge' = [j \in Jobs |-> IF j[1] = r /\ j[2] <= n
                                     THEN Share(c, n, j[2]) ELSE charge[j]]
        /\ phase' = [j \in Jobs |-> IF j[1] = r /\ j[2] <= n
                                    THEN "held" ELSE phase[j]]
        /\ UNCHANGED purchaseVars

Deliver(j) ==
    /\ phase[j] = "held"
    /\ phase' = [phase EXCEPT ![j] = "delivered"]
    /\ UNCHANGED <<pool, charge, purchaseVars>>

Refund(j) ==
    /\ phase[j] = "held"
    /\ phase' = [phase EXCEPT ![j] = "refunded"]
    /\ pool' = [pool EXCEPT ![Team(j)] = Plus(@, charge[j])]
    /\ UNCHANGED <<charge, purchaseVars>>

\* _deliver_late_success_after_timeout: the refund stands.
DeliverFree(j) ==
    /\ phase[j] = "refunded"
    /\ phase' = [phase EXCEPT ![j] = "gift"]
    /\ UNCHANGED <<pool, charge, purchaseVars>>

\* handle_payment_captured reads the team, to see whether it is deleted.
LoadTeam(p) ==
    /\ purchase[p].at = "open"
    /\ purchase' = [purchase EXCEPT ![p] = [at |-> "loaded", seen |-> pool[BuyerOf[p]].top]]
    /\ UNCHANGED <<pool, charge, phase, added, refilled, overtaken>>

\* add_topup_credits.  The row comes back locked, but the session keeps the
\* balance it has loaded before, and adds to that.
AddTopup(p) ==
    LET t == BuyerOf[p]
        sum == purchase[p].seen + PackOf[p]
    IN  /\ purchase[p].at = "loaded"
        /\ purchase' = [purchase EXCEPT ![p] = [at |-> "granted", seen |-> 0]]
        /\ pool' = [pool EXCEPT ![t].top = sum]
        /\ added' = [added EXCEPT ![t] = @ + PackOf[p]]
        /\ overtaken' = IF purchase[p].seen = pool[t].top
                        THEN overtaken ELSE overtaken \union {p}
        /\ UNCHANGED <<charge, phase, refilled>>

\* The webhook fails in between, and Razorpay delivers it again.
PurchaseFails(p) ==
    /\ purchase[p].at = "loaded"
    /\ purchase' = [purchase EXCEPT ![p] = Unread]
    /\ UNCHANGED <<pool, charge, phase, added, refilled, overtaken>>

\* The subscription pool is set to an amount, whatever it was.
SetTo(t, amount) ==
    refilled' = [refilled EXCEPT ![t] = [credits |-> amount, held |-> Holding(t)]]

RefillBoth(t, amount) ==
    /\ pool' = [pool EXCEPT ![t] = [sub |-> amount, top |-> 0]]
    /\ SetTo(t, amount)
    /\ UNCHANGED <<charge, phase, purchase, added, overtaken>>

RefillAdds(t, amount) ==
    /\ pool' = [pool EXCEPT ![t].sub = @ + amount]
    /\ SetTo(t, amount)
    /\ UNCHANGED <<charge, phase, purchase, added, overtaken>>

\* refill_subscription_credits replaces the balance: unused credits lapse.
\* The lapse of a cancelled subscription sets it to 0.
Refill(t, amount) ==
    /\ pool' = [pool EXCEPT ![t].sub = amount]
    /\ SetTo(t, amount)
    /\ UNCHANGED <<charge, phase, purchase, added, overtaken>>

\* switch_subscription moves what is left of the old plan's credits into the
\* top-up pool.
MoveLeftover(t) ==
    /\ added[t] + pool[t].sub <= MaxMoved
    /\ pool' = [pool EXCEPT ![t] = [sub |-> 0, top |-> @.top + @.sub]]
    /\ added' = [added EXCEPT ![t] = @ + pool[t].sub]
    /\ SetTo(t, 0)
    /\ UNCHANGED <<charge, phase, purchase, overtaken>>

LedgerNext ==
    \/ \E r \in Requests, n \in 1 .. MaxOutputs : ChargeBatch(r, n)
    \/ \E j \in Jobs : Deliver(j) \/ Refund(j) \/ DeliverFree(j)
    \/ \E p \in Purchases : LoadTeam(p) \/ AddTopup(p) \/ PurchaseFails(p)
    \/ \E t \in Teams : (\E a \in Plans : Refill(t, a)) \/ MoveLeftover(t)

LedgerSpec == LedgerInit /\ [][LedgerNext]_ledgerVars
-----------------------------------------------------------------------------
LedgerTypeOK ==
    /\ pool \in [Teams -> Pool]
    /\ charge \in [Jobs -> Pool]
    /\ phase \in [Jobs -> Phases]
    /\ purchase \in [Purchases -> [at : {"open", "loaded", "granted"}, seen : Nat]]
    /\ added \in [Teams -> Nat]
    /\ refilled \in [Teams -> [credits : Nat, held : SUBSET Jobs]]
    /\ overtaken \subseteq Purchases

\* What each job took from the pools, and what a team's jobs that still hold
\* their charge took from each.
SubOf == [j \in Jobs |-> charge[j].sub]
TopOf == [j \in Jobs |-> charge[j].top]
SubHeld(t) == SumFunctionOnSet(SubOf, Holding(t))
TopupHeld(t) == SumFunctionOnSet(TopOf, Holding(t))

\* A team none of whose packs was granted on a balance that was out of date.
Undisturbed(t) == \A p \in overtaken : BuyerOf[p] # t

\* Bought credits never expire (credits.py: "Credit pack purchase --
\* permanent, never expires"): whatever the order of purchases, refills,
\* switches, batches, deliveries and refunds, the top-up pool plus what
\* unsettled and delivered jobs took from it is what the team opened with
\* plus what was added.  A pack that is granted on a balance that changed
\* after it was read loses or duplicates credits, and ends the promise for
\* that team: that this happens is shown with two packs by the run
\* ClaimPaymentsAddUp.
TopupsArePermanent ==
    \A t \in Teams : Undisturbed(t) =>
        pool[t].top + TopupHeld(t) = OpeningPool.top + added[t]

\* A refill replaces, and jobs are refunded into the pool they were paid
\* from: the subscription pool is what it was last set to, less what the jobs
\* charged since then hold, plus what the jobs charged before have got back.
\* Credits that have lapsed come back by no other way, and a pack granted in
\* between, late or not, does not disturb it.
RefillsReplace ==
    \A t \in Teams :
        pool[t].sub + SubHeld(t)
            = refilled[t].credits + SumFunctionOnSet(SubOf, refilled[t].held)

\* spend_credits_up_to grants the largest number of units, up to the number
\* asked for, that both pools together can pay, and all of them when the
\* tool is free: for every balance the ledger reaches.
GrantIsLargestAffordable ==
    \A t \in Teams, wanted \in 1 .. MaxOutputs :
        LET granted == Granted(pool[t], Cost, wanted)
            payable == {k \in 0 .. wanted : k * Cost <= Total(pool[t])}
        IN  granted \in payable /\ \A k \in payable : k <= granted

\* The jobs of team t that a step charges.
Charged(t) == {j \in Jobs : Team(j) = t /\ phase[j] = "absent" /\ phase'[j] = "held"}

\* Splitting a batch's charge over its jobs loses and invents nothing, pool
\* by pool: refunding the jobs one by one would put back what it took.
SharesAddUp ==
    [][\A t \in Teams : Charged(t) # {} =>
         pool[t] = Plus(pool'[t], [sub |-> SumFunctionOnSet(SubOf', Charged(t)),
                                   top |-> SumFunctionOnSet(TopOf', Charged(t))])]_ledgerVars
=============================================================================

---------------------------- MODULE Subscriptions ----------------------------
(***************************************************************************)
(* The subscription of one team: its row (app/models/team_subscription.py),*)
(* the checkout, cancel and switch calls of app/services/billing.py, the   *)
(* webhook handlers of app/services/webhooks.py, the refill, lapse and     *)
(* cleanup cron jobs of app/worker.py, and Razorpay as these use it.       *)
(*                                                                         *)
(* A transaction that reads the row FOR UPDATE is one step.  The calls of  *)
(* several transactions (a switch, the drop that follows a checkout), the  *)
(* handler of an activation whose id is on no row, and the cron jobs that  *)
(* select before they lock are several steps, and everything interleaves:  *)
(* the API runs in several processes.                                      *)
(*                                                                         *)
(* A definition marked "Slip" is a wrong version of the one below it, kept *)
(* to show that the properties tell the two apart; nothing else uses it.   *)
(***************************************************************************)
EXTENDS Credits, Sequences, SequencesExt, FiniteSets

CONSTANTS
    Callers,        \* requests of the owners that can be open at a time
    Plans,
    Yearly,         \* the plans with period_label "year"
    Slice,          \* _credits_per_refill of each plan
    NoPlan,         \* no plan: the row before it exists, a plain cancel
    MaxIds,         \* bound: subscriptions created at Razorpay
    MaxTime,        \* bound: the clock, in refill periods
    TotalCount,     \* charges of a subscription that is not yearly
    OpeningPool,    \* the team's balance
    Events          \* what may happen in this instance

EventKinds == {"reorder",       \* webhooks of a subscription overtake each other
               "redeliver",     \* a webhook is delivered again
               "razorpayFails", \* calls to Razorpay fail
               "crash",         \* a process dies inside a call
               "payReplaced",   \* a checkout is paid after it was replaced
               "hurry",         \* a checkout that has been paid is replaced or
                                \* cancelled before it is activated
               "lapse",         \* the second half of refill_due_subscriptions
               "cleanup",       \* cleanup_stale_pending_subscriptions runs
               "switch",        \* owners switch from one plan to another
               "spend"}         \* generations spend the team's credits

ASSUME SubscriptionsAssumption ==
    /\ Yearly \subseteq Plans
    /\ Slice \in [Plans -> Nat \ {0}]
    /\ NoPlan \notin Plans
    /\ MaxIds \in Nat /\ MaxTime \in Nat
    /\ TotalCount \in Nat \ {0}
    /\ OpeningPool \in Pool
    /\ Events \subseteq EventKinds

\* Razorpay's ids, in the order in which it gives them out.
NoId == 0
Ids == 1 .. MaxIds

VARIABLES
    row,        \* the team's row of team_subscriptions
    pool,       \* the team's two balances
    call,       \* the open calls of the owners
    activating, \* activations that found their id on no row
    worker,     \* what the cron job that is running has selected
    rz,         \* Razorpay's subscriptions
    inbox,      \* webhooks not yet answered with 200, per subscription
    clock,      \* in refill periods
    fills       \* history: refills the webhooks of each subscription made

vars == <<row, pool, call, activating, worker, rz, inbox, clock, fills>>

Absent == [status |-> "none", id |-> NoId, plan |-> NoPlan,
           per |-> 0,       \* credits_per_refill
           paid |-> 0,      \* last_paid_count
           due |-> 0,       \* next_refill_at
           old |-> FALSE]   \* created_at is half an hour ago

\* A session that has not loaded the row yet.
NotRead == [Absent EXCEPT !.status = "notRead"]

Idle == [at |-> "idle", plan |-> NoPlan, seen |-> NotRead, drop |-> NoId]

Init ==
    /\ row = Absent
    /\ pool = OpeningPool
    /\ call = [c \in Callers |-> Idle]
    /\ activating = {}
    /\ worker = "idle"
    /\ rz = [i \in Ids |-> [state |-> "none", plan |-> NoPlan, paid |-> 0, next |-> 0]]
    /\ inbox = [i \in Ids |-> <<>>]
    /\ clock = 0
    /\ fills = [i \in Ids |-> 0]
-----------------------------------------------------------------------------
(* Razorpay.                                                               *)

CanFail == "razorpayFails" \in Events

Cancellable(i) == i \in Ids /\ rz[i].state \in {"created", "active", "retrying", "halted"}

Billing(i) == i \in Ids /\ rz[i].state \in {"active", "retrying"}

\* subscription.cancel, on a subscription that can be cancelled.
CancelAtRazorpay(i) ==
    /\ rz' = [rz EXCEPT ![i].state = "cancelled"]
    /\ inbox' = [inbox EXCEPT ![i] = Append(@, "cancelled")]

\* How many charges a plan has, and how long one of them lasts.
Charges(p) == IF p \in Yearly THEN 1 ELSE TotalCount
Length(p) == IF p \in Yearly THEN 2 ELSE 1

OnlyRazorpay == UNCHANGED <<row, pool, call, activating, worker, fills, clock>>

Report(i, events) == inbox' = [inbox EXCEPT ![i] = @ \o events]

Charge(i) ==
    rz' = [rz EXCEPT ![i] = [state |-> "active", plan |-> @.plan, paid |-> @.paid + 1,
                             next |-> clock + Length(@.plan)]]

\* The owner pays in the checkout window.
Pay(i) ==
    /\ rz[i].state = "created"
    /\ row.id = i \/ "payReplaced" \in Events
    /\ Charge(i) /\ Report(i, <<"activated", "charged">>)
    /\ OnlyRazorpay

DueForRenewal(i) == rz[i].next <= clock /\ rz[i].paid < Charges(rz[i].plan)

Renew(i) ==
    /\ rz[i].state = "retrying" \/ (rz[i].state = "active" /\ DueForRenewal(i))
    /\ Charge(i) /\ Report(i, <<"charged">>)
    /\ OnlyRazorpay

BecomesAtRazorpay(i, state, event) ==
    /\ rz' = [rz EXCEPT ![i].state = state]
    /\ Report(i, <<event>>)
    /\ OnlyRazorpay

RenewalFails(i) ==
    /\ rz[i].state = "active" /\ DueForRenewal(i)
    /\ BecomesAtRazorpay(i, "retrying", "pending")

RetriesExhausted(i) ==
    /\ rz[i].state = "retrying"
    /\ BecomesAtRazorpay(i, "halted", "halted")

LastPeriodEnds(i) ==
    /\ rz[i].state = "active" /\ rz[i].next <= clock /\ ~DueForRenewal(i)
    /\ BecomesAtRazorpay(i, "completed", "completed")

Tick ==
    /\ clock < MaxTime
    /\ clock' = clock + 1
    /\ UNCHANGED <<row, pool, call, activating, worker, rz, inbox, fills>>
-----------------------------------------------------------------------------
(* The calls of the owners (app/services/billing.py).                      *)

\* Slip: "pending" alone.
UnpaidIfPending(r) == r.status = "pending"

\* is_unpaid_checkout
Unpaid(r) == r.status = "pending" /\ r.per = 0

\* The row as the call's session sees it.  A query does not refresh a row
\* the session has loaded before, FOR UPDATE or not; a commit does.
Seen(c) == IF call[c].seen = NotRead THEN row ELSE call[c].seen

\* A flush writes the columns that differ from the ones the session loaded.
Flush(seen, new) ==
    row' = [f \in DOMAIN row |-> IF new[f] = seen[f] THEN row[f] ELSE new[f]]

CallAt(c, where) == call' = [call EXCEPT ![c] = [@ EXCEPT !.at = where, !.seen = NotRead]]

Return(c) == call' = [call EXCEPT ![c] = Idle]

\* A request for a checkout or a cancel arrives.
Ask(c) ==
    /\ call[c] = Idle
    /\ \/ \E p \in Plans :
            call' = [call EXCEPT ![c] = [Idle EXCEPT !.at = "checkingOut", !.plan = p]]
       \/ CallAt(c, "cancelling")
    /\ UNCHANGED <<row, pool, activating, worker, rz, inbox, clock, fills>>

\* switch_subscription reads the row without a lock: it starts a checkout
\* if nobody has paid the current one, and else cancels first.
Switch(c) ==
    /\ "switch" \in Events
    /\ call[c] = Idle
    /\ \E p \in Plans :
         call' = [call EXCEPT ![c] =
                    [at |-> IF Unpaid(row) THEN "checkingOut" ELSE "cancelling",
                     plan |-> p, drop |-> NoId,
                     seen |-> IF row = Absent THEN NotRead ELSE row]]
    /\ UNCHANGED <<row, pool, activating, worker, rz, inbox, clock, fills>>

\* create_subscription_checkout finds a subscription in the way, or the
\* same checkout still open, which it hands out again; or Razorpay creates
\* nothing and the claim is rolled back.
CheckoutLeavesRow(c) ==
    /\ call[c].at = "checkingOut"
    /\ LET seen == Seen(c) IN
         \/ seen.status \in {"active", "pending"} /\ ~Unpaid(seen)
         \/ Unpaid(seen) /\ seen.plan = call[c].plan /\ rz[seen.id].state = "created"
         \/ CanFail
    /\ Return(c)
    /\ UNCHANGED <<row, pool, activating, worker, rz, inbox, clock, fills>>

\* Slip: the row keeps the plan of its previous subscription.
ClaimKeepingPlan(seen, id, p) ==
    [seen EXCEPT !.status = "pending", !.id = id, !.per = 0, !.due = clock]

\* The row claimed for a new subscription (last_paid_count stays).
Claim(seen, id, p) ==
    [seen EXCEPT !.status = "pending", !.id = id, !.plan = p, !.per = 0, !.due = clock]

\* create_subscription_checkout claims the row for a new subscription.  A
\* checkout it replaces is dropped after the commit.
Checkout(c) ==
    /\ call[c].at = "checkingOut"
    /\ LET seen == Seen(c)
           p == call[c].plan
           id == Cardinality({i \in Ids : rz[i].state # "none"}) + 1
       IN  /\ seen.status \in {"active", "pending"} => Unpaid(seen)
           /\ Unpaid(seen) /\ seen.plan = p /\ rz[seen.id].state = "created" => CanFail
           /\ Unpaid(seen) /\ rz[seen.id].paid > 0 => "hurry" \in Events
           /\ id \in Ids
           /\ rz' = [rz EXCEPT ![id] = [@ EXCEPT !.state = "created", !.plan = p]]
           /\ Flush(seen, Claim(seen, id, p))
           /\ IF Unpaid(seen)
              THEN call' = [call EXCEPT ![c] = [Idle EXCEPT !.at = "dropping",
                                                            !.drop = seen.id]]
              ELSE Return(c)
    /\ UNCHANGED <<pool, activating, worker, inbox, clock, fills>>

\* _cancel_abandoned_razorpay_subscription: the best effort of a cancel.
TryCancelAtRazorpay(i) ==
    \/ Cancellable(i) /\ CancelAtRazorpay(i)
    \/ ~Cancellable(i) /\ UNCHANGED <<rz, inbox>>
    \/ CanFail /\ UNCHANGED <<rz, inbox>>

DropReplaced(c) ==
    /\ call[c].at = "dropping"
    /\ TryCancelAtRazorpay(call[c].drop)
    /\ Return(c)
    /\ UNCHANGED <<row, pool, activating, worker, clock, fills>>

\* Where a call goes when the cancel it made is committed.
AfterCancel(c) == IF call[c].plan = NoPlan THEN Return(c) ELSE CallAt(c, "moving")

Cancelled(seen) == Flush(seen, [seen EXCEPT !.status = "cancelled"])

\* cancel_subscription of a checkout nobody has paid.
CancelUnpaid(c) ==
    /\ call[c].at = "cancelling"
    /\ row.status \in {"active", "pending"} /\ Unpaid(Seen(c))
    /\ rz[Seen(c).id].paid > 0 => "hurry" \in Events
    /\ TryCancelAtRazorpay(Seen(c).id)
    /\ Cancelled(Seen(c))
    /\ AfterCancel(c)
    /\ UNCHANGED <<pool, activating, worker, clock, fills>>

\* Slip: the best effort is enough for a paid subscription too.
CancelPaidAnyway(c) ==
    /\ call[c].at = "cancelling"
    /\ row.status \in {"active", "pending"} /\ ~Unpaid(Seen(c))
    /\ Cancelled(Seen(c))
    /\ AfterCancel(c)
    /\ UNCHANGED <<pool, activating, worker, rz, inbox, clock, fills>>

\* cancel_subscription of a paid one: Razorpay first, then the row.
CancelPaid(c) ==
    /\ call[c].at = "cancelling"
    /\ row.status \in {"active", "pending"} /\ ~Unpaid(Seen(c))
    /\ Cancellable(Seen(c).id) /\ CancelAtRazorpay(Seen(c).id)
    /\ Cancelled(Seen(c))
    /\ AfterCancel(c)
    /\ UNCHANGED <<pool, activating, worker, clock, fills>>

\* Nothing to cancel, or Razorpay refuses or fails; or the answer of its
\* cancel, or the process, is lost before the row is written.
CancelLeavesRow(c) ==
    /\ call[c].at = "cancelling"
    /\ \/ /\ \/ row.status \notin {"active", "pending"}
             \/ ~Cancellable(Seen(c).id)
             \/ CanFail
          /\ UNCHANGED <<rz, inbox>>
       \/ /\ row.status \in {"active", "pending"}
          /\ CanFail \/ "crash" \in Events
          /\ Cancellable(Seen(c).id) /\ CancelAtRazorpay(Seen(c).id)
    /\ Return(c)
    /\ UNCHANGED <<row, pool, activating, worker, clock, fills>>

\* Slip: the leftover is copied.
MoveLeftoverTwice(c) ==
    /\ call[c].at = "moving"
    /\ pool' = [pool EXCEPT !.top = @ + pool.sub]
    /\ CallAt(c, "checkingOut")
    /\ UNCHANGED <<row, activating, worker, rz, inbox, clock, fills>>

\* switch_subscription makes what is left of the subscription permanent.
MoveLeftover(c) ==
    /\ call[c].at = "moving"
    /\ pool' = [sub |-> 0, top |-> pool.top + pool.sub]
    /\ CallAt(c, "checkingOut")
    /\ UNCHANGED <<row, activating, worker, rz, inbox, clock, fills>>

\* The process of a call dies between two of its transactions.
Die(c) ==
    /\ "crash" \in Events
    /\ call[c] # Idle
    /\ Return(c)
    /\ UNCHANGED <<row, pool, activating, worker, rz, inbox, clock, fills>>
-----------------------------------------------------------------------------
(* The webhooks (app/services/webhooks.py).  A handler that raises answers *)
(* 500 and changes nothing: its webhook stays in the inbox.                *)

\* The k-th webhook of a subscription is handled.
Receives(i, k, event) ==
    /\ k \in DOMAIN inbox[i] /\ inbox[i][k] = event
    /\ k = 1 \/ "reorder" \in Events
    /\ inbox' \in {[inbox EXCEPT ![i] = RemoveAt(@, k)]}
                  \union IF "redeliver" \in Events THEN {inbox} ELSE {}

OnRow(i) == row.id = i

RefillPool(amount) == pool' = [pool EXCEPT !.sub = amount]

\* Slip: the row keeps the id of the checkout it was claimed for.
PromoteKeepingId(i) ==
    LET p == rz[i].plan IN
    /\ row' = [row EXCEPT !.status = "active", !.plan = p,
                          !.per = Slice[p], !.paid = 0, !.due = clock + 1]
    /\ RefillPool(Slice[p])
    /\ fills' = [fills EXCEPT ![i] = @ + 1]

\* The row serves subscription i from now on, and its first period is paid.
Promote(i) ==
    LET p == rz[i].plan IN
    /\ row' = [row EXCEPT !.status = "active", !.id = i, !.plan = p,
                          !.per = Slice[p], !.paid = 0, !.due = clock + 1]
    /\ RefillPool(Slice[p])
    /\ fills' = [fills EXCEPT ![i] = @ + 1]

\* handle_subscription_activated
Activated(i) ==
    /\ \E k \in DOMAIN inbox[i] : Receives(i, k, "activated")
    /\ IF ~OnRow(i)
       THEN activating' = activating \union {i} /\ UNCHANGED <<row, pool, fills>>
       ELSE /\ IF row.status \in {"active", "cancelled"}
               THEN UNCHANGED <<row, pool, fills>>
               ELSE Promote(i)
            /\ UNCHANGED activating
    /\ UNCHANGED <<call, worker, rz, clock>>

\* The row is active, or cancelled, under another id.
ServesAnother(i) == row.status \in {"active", "cancelled"} /\ row.id # i

\* ... whose id was on no row takes the team's row, whatever checkout has it.
ActivatedByTeam(i) ==
    /\ i \in activating
    /\ activating' = activating \ {i}
    /\ IF ServesAnother(i) THEN UNCHANGED <<row, pool, fills>> ELSE Promote(i)
    /\ UNCHANGED <<call, worker, rz, inbox, clock>>

\* Slip: every delivery counts as a renewal.
IsNewAlways(i) == rz[i].paid > 1

\* paid_count, as Razorpay has it now, is beyond what the row has recorded.
IsNew(i) == rz[i].paid > row.paid

\* The charge is a renewal, whose credits the webhook grants.
Refills(i) == IsNew(i) /\ row.plan \notin Yearly /\ rz[i].paid > 1

\* handle_subscription_charged
Charged(i) ==
    /\ \E k \in DOMAIN inbox[i] : Receives(i, k, "charged")
    /\ IF ~OnRow(i) \/ row.status = "cancelled" \/ Unpaid(row)
       THEN UNCHANGED <<row, pool, fills>>
       ELSE /\ row' = [row EXCEPT !.status = "active",
                                  !.paid = IF IsNew(i) THEN rz[i].paid ELSE @,
                                  !.due = IF Refills(i) THEN clock + 1 ELSE @]
            /\ IF Refills(i)
               THEN RefillPool(row.per) /\ fills' = [fills EXCEPT ![i] = @ + 1]
               ELSE UNCHANGED <<pool, fills>>
    /\ UNCHANGED <<call, activating, worker, rz, clock>>

\* A webhook that only moves the row's status.
Moves(i, event, from, to) ==
    /\ \E k \in DOMAIN inbox[i] : Receives(i, k, event)
    /\ row' = IF OnRow(i) /\ row.status \in from THEN [row EXCEPT !.status = to] ELSE row
    /\ UNCHANGED <<pool, call, activating, worker, rz, clock, fills>>

AnyStatus == {"pending", "active", "cancelled", "halted"}

\* handle_subscription_completed, _halted, _cancelled and _pending
Completed(i) == Moves(i, "completed", {"active"}, "cancelled")
Halted(i) == Moves(i, "halted", AnyStatus, "halted")
CancelledAtRazorpay(i) == Moves(i, "cancelled", AnyStatus, "cancelled")
RenewalPending(i) == Moves(i, "pending", {"active"}, "pending")
-----------------------------------------------------------------------------
(* The cron jobs (app/worker.py), one at a time on the worker's loop.      *)

\* refill_due_subscriptions, its first half: the row is selected, then
\* locked and looked at again.
RefillDue ==
    /\ worker = "idle"
    /\ row.status = "active" /\ row.due <= clock
    /\ RefillPool(row.per)
    /\ row' = [row EXCEPT !.due = clock + 1]
    /\ UNCHANGED <<call, activating, worker, rz, inbox, clock, fills>>

\* Its second half selects a cancelled subscription whose period is over,
SelectLapsed ==
    /\ "lapse" \in Events
    /\ worker = "idle"
    /\ row.status = "cancelled" /\ row.due <= clock /\ pool.sub > 0
    /\ worker' = "lapsing"
    /\ UNCHANGED <<row, pool, call, activating, rz, inbox, clock, fills>>

\* and then locks the team only.
Lapse ==
    /\ worker = "lapsing"
    /\ RefillPool(0)
    /\ worker' = "idle"
    /\ UNCHANGED <<row, call, activating, rz, inbox, clock, fills>>

RowGetsOld ==
    /\ "cleanup" \in Events
    /\ row # Absent /\ ~row.old
    /\ row' = [row EXCEPT !.old = TRUE]
    /\ UNCHANGED <<pool, call, activating, worker, rz, inbox, clock, fills>>

\* cleanup_stale_pending_subscriptions selects, without a lock,
SelectStale ==
    /\ "cleanup" \in Events
    /\ worker = "idle"
    /\ Unpaid(row) /\ row.old
    /\ worker' = "cleaning"
    /\ UNCHANGED <<row, pool, call, activating, rz, inbox, clock, fills>>

\* and deletes the rows it has selected.  (A session that had loaded the
\* row finds it gone, or loads the next one afresh.)
DeleteStale ==
    /\ worker = "cleaning"
    /\ row' = Absent
    /\ call' = [c \in Callers |-> [call[c] EXCEPT !.seen = NotRead]]
    /\ worker' = "idle"
    /\ UNCHANGED <<pool, activating, rz, inbox, clock, fills>>

\* spend_credits_up_to, by a generation of the team.
Spend ==
    /\ "spend" \in Events
    /\ Total(pool) > 0
    /\ pool' = Minus(pool, Taken(pool, 1))
    /\ UNCHANGED <<row, call, activating, worker, rz, inbox, clock, fills>>
-----------------------------------------------------------------------------
CallStep(c) ==
    \/ Ask(c) \/ Switch(c)
    \/ Checkout(c) \/ CheckoutLeavesRow(c) \/ DropReplaced(c)
    \/ CancelUnpaid(c) \/ CancelPaid(c) \/ CancelLeavesRow(c)
    \/ MoveLeftover(c) \/ Die(c)

WebhookStep(i) ==
    \/ Activated(i) \/ ActivatedByTeam(i) \/ Charged(i)
    \/ Completed(i) \/ Halted(i) \/ CancelledAtRazorpay(i) \/ RenewalPending(i)

CronStep == RefillDue \/ SelectLapsed \/ Lapse \/ SelectStale \/ DeleteStale

RazorpayStep(i) ==
    \/ Pay(i) \/ Renew(i) \/ RenewalFails(i) \/ RetriesExhausted(i) \/ LastPeriodEnds(i)

Next ==
    \/ \E c \in Callers : CallStep(c)
    \/ \E i \in Ids : WebhookStep(i) \/ RazorpayStep(i)
    \/ CronStep \/ Spend \/ Tick \/ RowGetsOld

Spec == Init /\ [][Next]_vars
-----------------------------------------------------------------------------
Statuses == AnyStatus \union {"none"}

RowType == [status : Statuses, id : Ids \union {NoId}, plan : Plans \union {NoPlan},
            per : Nat, paid : Nat, due : Nat, old : BOOLEAN]

CallType ==
    [at : {"idle", "checkingOut", "cancelling", "moving", "dropping"},
     plan : Plans \union {NoPlan}, seen : RowType \union {NotRead},
     drop : Ids \union {NoId}]

RzStates == {"none", "created", "active", "retrying", "halted", "cancelled", "completed"}

RzType == [state : RzStates, plan : Plans \union {NoPlan}, paid : Nat, next : Nat]

Kinds == {"activated", "charged", "completed", "halted", "cancelled", "pending"}

\* Typing: balances and counters are natural numbers, and the row is absent
\* or has a subscription Razorpay knows, with the plan of its checkout.
TypeOK ==
    /\ row \in RowType /\ (row.status = "none" <=> row.id = NoId)
    /\ row.id # NoId => rz[row.id].state # "none" /\ rz[row.id].plan = row.plan
    /\ pool \in Pool
    /\ call \in [Callers -> CallType]
    /\ activating \subseteq Ids
    /\ worker \in {"idle", "lapsing", "cleaning"}
    /\ rz \in [Ids -> RzType]
    /\ inbox \in [Ids -> Seq(Kinds)]
    /\ clock \in 0 .. MaxTime
    /\ fills \in [Ids -> Nat]

\* Every refill a webhook makes is paid by a charge of its own: neither an
\* activation nor a charge is counted twice.
OneFillPerCharge == \A i \in Ids : fills[i] <= rz[i].paid

\* A row that shows "cancelled" names a subscription that charges nobody:
\* Razorpay is told first, and no late webhook starts it again.
CancelledIsNotBilled ==
    row.status = "cancelled" => ~Billing(row.id)

\* Razorpay bills a team for nothing but the subscription on its row, so
\* that no team pays for two at once or for one it cannot cancel.
OneBilled == \A i \in Ids : Billing(i) => row.id = i

\* A row that refills has been paid for at least once.
ActiveWasPaid == row.status = "active" => row.id \in Ids /\ rz[row.id].paid > 0

\* All webhooks are answered and no call is open.
Quiet ==
    /\ \A i \in Ids : inbox[i] = <<>>
    /\ activating = {}
    /\ \A c \in Callers : call[c] = Idle

ServedAs(state) ==
    CASE state = "active" -> {"active"}
      [] state = "retrying" -> {"pending"}
      [] state = "halted" -> {"halted"}
      [] state \in {"cancelled", "completed"} -> {"cancelled"}
      [] OTHER -> {"pending", "cancelled"}

\* When the webhooks are through, the row stands where Razorpay does.
AgreesWithRazorpay ==
    Quiet /\ row.id # NoId => row.status \in ServedAs(rz[row.id].state)

\* Credits only come from the refill of an active subscription: a switch,
\* whatever it races with, moves the leftover and never doubles it.
CreditsComeFromRefills ==
    [][Total(pool') > Total(pool) =>
         row'.status = "active" /\ pool' = [pool EXCEPT !.sub = row'.per]]_vars
=============================================================================

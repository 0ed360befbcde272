------------------------------- MODULE RowLocks -------------------------------
(***************************************************************************)
(* Who waits for whom.  Handlers lock rows of one team (its jobs, its      *)
(* subscription, the team itself) in a database transaction, and run on    *)
(* the event loop of a process or on a thread of it.  PostgreSQL resolves  *)
(* a cycle of transactions by aborting one; it does not see a transaction  *)
(* that is waited for and itself waits for the waiter's event loop.        *)
(*                                                                         *)
(* A handler is the set of its paths, a path the sequence of the steps     *)
(* that matter here: locking a row, getting on or off the event loop,      *)
(* committing.  Every path ends in a commit or a rollback.  A path that    *)
(* leaves its transaction to get_db (an error, or a return without a       *)
(* commit) gets on the loop first, for the loop closes the session.        *)
(*                                                                         *)
(* A definition marked "Slip" is a wrong version of the one below it.      *)
(***************************************************************************)
EXTENDS Naturals, Sequences

CONSTANTS
    Sessions,       \* database sessions
    Apis,           \* API processes
    Worker,         \* the arq worker
    JobRows,        \* the jobs of the team
    NoSession

ASSUME RowLocksAssumption ==
    /\ Worker \notin Apis
    /\ NoSession \notin Sessions
    /\ JobRows \intersect {"sub", "team"} = {}

Processes == Apis \union {Worker}
Rows == JobRows \union {"sub", "team"}

On == [op |-> "on"]
Off == [op |-> "off"]
Commit == [op |-> "commit"]
Take(row, mode) == [op |-> "take", row |-> row, mode |-> mode]

\* SELECT FOR UPDATE, a DELETE, and an INSERT of the one row a key allows.
Lock(row) == Take(row, "lock")

\* An UPDATE of columns that are no key.
Update(row) == Take(row, "update")

\* What an INSERT of a row that refers to the team takes on the team.
Refer == Take("team", "share")
-----------------------------------------------------------------------------
(* The API.                                                                *)

\* POST /generate, up to the commit of the batch; the route is async.
Generate == {<<On, Lock("team")>>}

\* fail_and_release, for each job: the refund locks the team, and its commit
\* writes the job; a second commit writes completed_at.
FailAndRelease(j) == <<Lock("team"), Update(j), Commit, Update(j), Commit>>

EnqueueFailure == {<<On>> \o FailAndRelease(j) : j \in JobRows}

\* Slip: the refund is made before the row is locked.
SettleTeamFirst(j) == {<<Lock(j)>>, <<Lock("team"), Lock(j)>>}

\* handle_fal_webhook, as far as it commits: a failure refunds.
Settle(j) == {<<Lock(j)>>, <<Lock(j), Lock("team")>>}

\* POST /webhooks/fal handles it on a thread; an answer that is ignored
\* leaves the row locked.
FalWebhook == UNION {Settle(j) \union {<<Lock(j), On>>} : j \in JobRows}

\* POST /billing/webhook is async and calls its handlers directly.
PaymentCaptured == {<<On, Refer>>, <<On, Refer, Lock("team")>>}

SubscriptionActivated ==
    {<<On, Lock("sub")>>, <<On, Lock("sub"), Lock("team")>>,
     <<On, Lock("sub"), Refer, Lock("team")>>}

SubscriptionCharged == {<<On, Lock("sub")>>, <<On, Lock("sub"), Lock("team")>>}

\* create_subscription_checkout: an error, or the running checkout handed
\* out again, leaves the row locked; a first one inserts it.
Checkout == {<<Lock("sub")>>, <<Lock("sub"), On>>, <<Lock("sub"), Refer>>}

\* cancel_subscription: Razorpay's refusal leaves the row locked.
CancelSubscription == {<<Lock("sub")>>, <<Lock("sub"), On>>}

\* switch_subscription, after a cancel that succeeded.
Switch == {<<Lock("sub"), Commit, Lock("team"), Commit>> \o p : p \in Checkout}

\* soft_delete_team: a cancel that failed leaves the row locked for the
\* rest; restore_team and renaming write the team alone.
EditTeam ==
    {<<Lock("sub"), Commit, Update("team")>>, <<Lock("sub"), Update("team")>>,
     <<Update("team")>>}

\* create_invite and accept_invite: a full team, or a mail too many, leaves
\* the team locked.
TakeSeat == {<<Lock("team")>>, <<Lock("team"), On>>}

ApiHandlers ==
    [generate |-> Generate, enqueueFailure |-> EnqueueFailure,
     falWebhook |-> FalWebhook, payment |-> PaymentCaptured,
     activated |-> SubscriptionActivated, charged |-> SubscriptionCharged,
     checkout |-> Checkout, cancel |-> CancelSubscription, switch |-> Switch,
     editTeam |-> EditTeam, seat |-> TakeSeat]
-----------------------------------------------------------------------------
(* The worker: everything runs on its loop, HTTP calls aside.              *)

\* submit_generation_to_fal keeps the job's row while it waits for fal.
Submit == UNION {{<<On, Lock(j), Off, On>>, <<On, Lock(j), Off, On, Lock("team")>>} :
                 j \in JobRows}

\* _fail_stale_job: a job settled in the meantime is left, and stays locked
\* until the next commit of its caller.
FailStaleJob(j) == {<<Lock(j), Lock("team"), Commit>>, <<Lock(j)>>}

\* check_generation_timeouts, for one job: fal is asked, the result handled
\* on a thread, or the job failed.
CheckTimeout(j) ==
    {<<Off>> \o p \o <<On>> : p \in {Append(s, Commit) : s \in Settle(j)} \union {<<Lock(j)>>}}
        \union {<<Off, On>> \o p : p \in FailStaleJob(j)}

\* Two jobs, in the order the query returns them.
OfTwoJobs(paths) ==
    UNION {{<<On>> \o two[1] \o two[2] :
                two \in paths[j] \X UNION {paths[k] : k \in JobRows \ {j}}} : j \in JobRows}

CheckTimeouts == OfTwoJobs([j \in JobRows |-> CheckTimeout(j)])

Sweep == OfTwoJobs([j \in JobRows |-> FailStaleJob(j)])

\* Slip: the notice is sent off the loop, with the row locked.
RenewAwaiting ==
    {<<On, Lock("sub"), Lock("team")>>, <<On, Lock("team")>>, <<On, Lock("sub"), Off, On>>}

\* refill_due_subscriptions: a refill, the lapse of a cancelled one; the
\* notices and the cleanup.
Renew == {<<On, Lock("sub"), Lock("team")>>, <<On, Lock("team")>>, <<On, Lock("sub")>>}

\* purge_team.
Purge == OfTwoJobs([j \in JobRows |-> {<<Lock(j)>>}])

PurgeTeam == {p \o <<Lock("sub"), Lock("team")>> : p \in Purge}

WorkerHandlers ==
    [submit |-> Submit, checkTimeouts |-> CheckTimeouts, sweep |-> Sweep,
     renew |-> Renew, purge |-> PurgeTeam]
-----------------------------------------------------------------------------
VARIABLES
    handler,    \* what a session is for: "none" before it, "ended" after
    home,       \* the process it belongs to
    rest,       \* the steps it still has to take
    held,       \* the rows it has, and how
    loop        \* the session each event loop is busy with

rowLocksVars == <<handler, home, rest, held, loop>>

RowLocksInit ==
    /\ handler = [s \in Sessions |-> "none"]
    /\ home = [s \in Sessions |-> Worker]
    /\ rest = [s \in Sessions |-> <<>>]
    /\ held = [s \in Sessions |-> {}]
    /\ loop = [p \in Processes |-> NoSession]

Active(s) == handler[s] \notin {"none", "ended"}

NextStep(s) == IF Active(s) /\ rest[s] # <<>> THEN Head(rest[s]) ELSE Commit

Begins(s, p, h, path) ==
    /\ handler' = [handler EXCEPT ![s] = h]
    /\ home' = [home EXCEPT ![s] = p]
    /\ rest' = [rest EXCEPT ![s] = path]
    /\ UNCHANGED <<held, loop>>

Begin(s) ==
    /\ handler[s] = "none"
    /\ \/ \E p \in Apis : \E h \in DOMAIN ApiHandlers : \E path \in ApiHandlers[h] :
             Begins(s, p, h, path)
       \/ \E h \in DOMAIN WorkerHandlers : \E path \in WorkerHandlers[h] :
             Begins(s, Worker, h, path)

\* The row locks of PostgreSQL: a reference and an update go together.
Compatible(m, n) == "share" \in {m, n} /\ "lock" \notin {m, n}

\* The sessions s waits for in the database.
Blockers(s) ==
    {t \in Sessions \ {s} :
        /\ NextStep(s).op = "take"
        /\ \E l \in held[t] : l[1] = NextStep(s).row /\ ~Compatible(l[2], NextStep(s).mode)}

Goes(s, op) ==
    /\ Active(s) /\ rest[s] # <<>> /\ NextStep(s).op = op
    /\ rest' = [rest EXCEPT ![s] = Tail(@)]
    /\ UNCHANGED <<handler, home>>

TakeRow(s) ==
    /\ Blockers(s) = {}
    /\ Goes(s, "take")
    /\ held' = [held EXCEPT ![s] = @ \union {<<NextStep(s).row, NextStep(s).mode>>}]
    /\ UNCHANGED loop

GetOnLoop(s) ==
    /\ loop[home[s]] = NoSession
    /\ Goes(s, "on")
    /\ loop' = [loop EXCEPT ![home[s]] = s]
    /\ UNCHANGED held

GetOffLoop(s) ==
    /\ Goes(s, "off")
    /\ loop' = [loop EXCEPT ![home[s]] = NoSession]
    /\ UNCHANGED held

CommitRows(s) ==
    /\ Goes(s, "commit")
    /\ held' = [held EXCEPT ![s] = {}]
    /\ UNCHANGED loop

\* The sessions in S are over, and so are their locks.
End(S) ==
    /\ handler' = [s \in Sessions |-> IF s \in S THEN "ended" ELSE handler[s]]
    /\ rest' = [s \in Sessions |-> IF s \in S THEN <<>> ELSE rest[s]]
    /\ held' = [s \in Sessions |-> IF s \in S THEN {} ELSE held[s]]
    /\ loop' = [p \in Processes |-> IF loop[p] \in S THEN NoSession ELSE loop[p]]
    /\ UNCHANGED home

Finish(s) == Active(s) /\ rest[s] = <<>> /\ End({s})

\* Who waits for whom in the database, and for the loop of a process.
InDatabase == {pair \in Sessions \X Sessions : pair[2] \in Blockers(pair[1])}

ForLoops ==
    {pair \in Sessions \X Sessions :
        /\ pair[1] # pair[2] /\ Active(pair[1]) /\ NextStep(pair[1]).op = "on"
        /\ loop[home[pair[1]]] = pair[2]}

\* The smallest sets of sessions that wait for one another.
Circular(waits, C) == C # {} /\ \A s \in C : \E t \in C : <<s, t>> \in waits

Circles(waits) ==
    {C \in SUBSET Sessions :
        Circular(waits, C) /\ \A D \in (SUBSET C) \ {C} : ~Circular(waits, D)}

\* Deadlock detected: PostgreSQL aborts one transaction of the cycle.
Deadlock(s) ==
    /\ Blockers(s) # {}
    /\ \E C \in Circles(InDatabase) : s \in C
    /\ End({s})

\* The cycles it cannot see.
Freezes == Circles(InDatabase \union ForLoops) \ Circles(InDatabase)

\* The watchdog exits the worker; the API has none.
KillWorker ==
    /\ loop[Worker] # NoSession /\ Blockers(loop[Worker]) # {}
    /\ \E C \in Freezes : loop[Worker] \in C
    /\ End({s \in Sessions : Active(s) /\ home[s] = Worker})

RowLocksNext ==
    \/ \E s \in Sessions :
          \/ Begin(s) \/ TakeRow(s) \/ GetOnLoop(s) \/ GetOffLoop(s)
          \/ CommitRows(s) \/ Finish(s) \/ Deadlock(s)
    \/ KillWorker

RowLocksSpec == RowLocksInit /\ [][RowLocksNext]_rowLocksVars
-----------------------------------------------------------------------------
RowLocksTypeOK ==
    /\ \A s \in Sessions :
          /\ handler[s] \in {"none", "ended"} \union DOMAIN ApiHandlers \union DOMAIN WorkerHandlers
          /\ home[s] \in Processes
          /\ held[s] \subseteq Rows \X {"lock", "update", "share"}
          /\ ~Active(s) => rest[s] = <<>> /\ held[s] = {}
    /\ loop \in [Processes -> Sessions \union {NoSession}]

HandlersOf(C) == {handler[s] : s \in C}

TwoOf(C, names) == \E s, t \in C : s # t /\ {handler[s], handler[t]} \subseteq names

\* Jobs and subscriptions are locked before their team, everywhere but where
\* an enqueue fails: transactions wait for each other only if one of them is
\* such a failure, or two refer to the team and now want it for themselves
\* (payments and activations, in two API processes), or two go through
\* several jobs (which two queries need not return in one order).
DeadlocksAreKnown ==
    \A C \in Circles(InDatabase) :
        \/ "enqueueFailure" \in HandlersOf(C)
        \/ TwoOf(C, {"payment", "activated"}) /\ \A s, t \in C : s # t => home[s] # home[t]
        \/ TwoOf(C, {"checkTimeouts", "sweep", "purge"})

\* No process stops for good but in two ways.  The worker does when its loop
\* waits for a job another coroutine of it keeps locked over an await: a
\* submission, or a poll that found its job settled.  An API process does
\* when a webhook or POST /generate waits on the loop for a row that a
\* request of the same process left locked, for the loop to release.
FreezesAreKnown ==
    \A C \in Freezes :
        \/ /\ loop[Worker] \in C
           /\ HandlersOf(C) \intersect {"submit", "checkTimeouts"} # {}
        \/ \E p \in Apis :
              /\ loop[p] \in C
              /\ handler[loop[p]] \in {"generate", "enqueueFailure", "payment",
                                       "activated", "charged"}
              /\ \E s \in C : rest[s] = <<On>> /\ held[s] # {}
=============================================================================

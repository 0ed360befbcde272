----------------------------- MODULE Generation -----------------------------
(***************************************************************************)
(* The generation pipeline: POST /generate, the per-user Redis lock and    *)
(* the per-team slot counter, the arq worker that submits jobs to fal.ai,  *)
(* the handler of fal's results, and the worker's timeout, sweep and       *)
(* reconcile cron jobs.                                                    *)
(*                                                                         *)
(* Every database transaction and every Redis command is one step; the API *)
(* threads, the result handlers and the worker interleave between them.    *)
(* The worker is one event loop: its coroutines give it up only at an      *)
(* await, so a synchronous stretch of worker code (loop.at # "idle")       *)
(* excludes every other worker step, but no step of the API.  A job's row  *)
(* lock is held by a suspended submission or by a result handler.          *)
(*                                                                         *)
(* A definition marked "Slip" is a wrong version of the one below it, kept *)
(* to show that the properties tell the two apart; nothing else uses it.   *)
(***************************************************************************)
EXTENDS Credits, FiniteSets, Functions

CONSTANTS
    Users, Teams,
    Requests,       \* POST /generate calls
    UserOf,         \* the user of each request
    TeamOf,         \* the team that pays for it
    Planned,        \* requests of the tools that plan under the lock
                    \* (listing_photoshoot, model_shoot)
    Nobody,         \* the holder of a lock nobody holds
    NoJob,          \* the job of an idle worker loop
    MaxOutputs,     \* MAX_OUTPUT_COUNT
    Cost,           \* credits per output
    Limit,          \* fal_per_team_concurrency_limit
    OpeningPool,    \* the balance of every team
    MaxDeaths,      \* bound: deaths of result handlers and of the worker
    Events          \* what may happen in this instance

EventKinds == {"enqueue",       \* Redis refuses a message
               "toolGone",      \* a tool's row disappears
               "reserve",       \* Redis fails while a slot is reserved
               "apiCrash",      \* an API process dies
               "workerCrash",   \* the worker dies
               "lockAges",      \* a lock gets older than 30 seconds
               "time",          \* jobs outlive their budgets
               "reconcile"}     \* reconcile_fal_slots runs

ASSUME GenerationAssumption ==
    /\ IsFiniteSet(Requests)
    /\ UserOf \in [Requests -> Users]
    /\ TeamOf \in [Requests -> Teams]
    /\ Planned \subseteq Requests
    /\ Nobody \notin Requests
    /\ MaxOutputs \in Nat \ {0}
    /\ Cost \in Nat
    /\ Limit \in Nat
    /\ MaxDeaths \in Nat
    /\ OpeningPool \in Pool
    /\ Events \subseteq EventKinds

\* The jobs of a request are numbered from 1, as create_generation_batch
\* inserts them; a smaller grant leaves the last ones uncreated.
Jobs == Requests \X (1 .. MaxOutputs)

ASSUME NoJobAssumption == NoJob \notin Jobs

User(j) == UserOf[j[1]]
Team(j) == TeamOf[j[1]]
Batch(r) == {r} \X (1 .. MaxOutputs)

VARIABLES
    \* PostgreSQL
    status,     \* GenerationJob.status; "none" before the row exists
    error,      \* GenerationJob.error_message, by kind
    charge,     \* credits_from_subscription and credits_from_topup
    pool,       \* the team's two balances
    \* Redis
    lock,       \* genlock:user:{id}, with the request that set it
    lockOld,    \* the lock is older than STALE_LOCK_GRACE_SECONDS
    inflight,   \* fal:inflight_count:{team}
    arq,        \* jobs with a submit message waiting or being worked on
    \* processes
    api,        \* where the handler of each POST /generate stands
    next,       \* the job its enqueue or failure loop is at
    submit,     \* suspended submit_generation_to_fal coroutines
    handler,    \* handle_fal_webhook, called by the route or by the poll
    loop,       \* the synchronous stretch the worker's event loop is in
    counted,    \* what reconcile_fal_slots read (0 outside of it)
    \* the world
    fal,        \* what fal.ai is doing for the job
    age,        \* how old a batch is, in the thresholds the code uses
    \* history
    deaths,     \* handlers and workers that died, the watchdog's excepted
    refunds,    \* how many times each job was refunded
    skewed,     \* teams whose counter ever lost a slot that was in use
    healed      \* users one of whose locks was taken for an orphan

rows == <<status, error, charge, pool, refunds>>
locks == <<lock, lockOld>>
requestVars == <<api, next, healed>>
workerVars == <<submit, loop, counted, arq>>
worldVars == <<fal, age, deaths>>
slotVars == <<inflight, skewed>>
vars == <<rows, locks, slotVars, requestVars, workerVars, handler, worldVars>>

Init ==
    /\ status = [j \in Jobs |-> "none"]
    /\ error = [j \in Jobs |-> "none"]
    /\ charge = [j \in Jobs |-> Empty]
    /\ pool = [t \in Teams |-> OpeningPool]
    /\ refunds = [j \in Jobs |-> 0]
    /\ lock = [u \in Users |-> Nobody]
    /\ lockOld = [u \in Users |-> FALSE]
    /\ inflight = [t \in Teams |-> 0]
    /\ skewed = [t \in Teams |-> FALSE]
    /\ arq = {}
    /\ api = [r \in Requests |-> "new"]
    /\ next = [r \in Requests |-> 1]
    /\ healed = {}
    /\ submit = [j \in Jobs |-> "none"]
    /\ handler = [j \in Jobs |-> "none"]
    /\ loop = [at |-> "idle", job |-> NoJob]
    /\ counted = [t \in Teams |-> 0]
    /\ fal = [j \in Jobs |-> "none"]
    /\ age = [r \in Requests |-> 0]
    /\ deaths = 0
-----------------------------------------------------------------------------
(* What the code asks of the database and of Redis.                        *)

Active(j) == status[j] \in {"queued", "processing"}

\* _user_has_active_generation_job
UserActive(u) == \E j \in Jobs : User(j) = u /\ Active(j)

\* The count of a batch's active rows that decides about lock and slot.
Remaining(r) == Cardinality({j \in Batch(r) : Active(j)})

\* Slip: rows are read without FOR UPDATE.
RowNeverLocked(j) == FALSE

\* A row lock (SELECT ... FOR UPDATE) somebody else holds.
RowLocked(j) ==
    \/ submit[j] # "none"
    \/ handler[j] \in {"stored", "unusable", "giveSlot", "commit"}

LoopIdle == loop.at = "idle"

LoopAt(where, j) == loop' = [loop EXCEPT !.at = where, !.job = j]

\* release_generation_lock: DEL, whoever set the key.
DelLock(u) ==
    /\ lock' = [lock EXCEPT ![u] = Nobody]
    /\ lockOld' = [lockOld EXCEPT ![u] = FALSE]

\* acquire_generation_lock: SET NX.
SetLock(r) ==
    /\ lock' = [lock EXCEPT ![UserOf[r]] = r]
    /\ lockOld' = [lockOld EXCEPT ![UserOf[r]] = FALSE]

\* release_fal_slot: DECR, with no floor.  (The global counter, which gates
\* nothing, moves with the teams' counters and is left out.)
GiveSlot(t) == inflight' = [inflight EXCEPT ![t] = @ - 1]

\* status = "failed" and refund_credits, whose commit also commits the row.
FailRow(j, why) ==
    /\ status' = [status EXCEPT ![j] = "failed"]
    /\ error' = [error EXCEPT ![j] = why]
    /\ pool' = [pool EXCEPT ![Team(j)] = Plus(@, charge[j])]
    /\ refunds' = [refunds EXCEPT ![j] = @ + 1]
    /\ UNCHANGED charge
-----------------------------------------------------------------------------
(* POST /generate.                                                         *)

ApiAt(r, from, to) ==
    /\ api[r] = from /\ api' = [api EXCEPT ![r] = to]
    /\ healed' = IF from = "healing" THEN healed \union {UserOf[r]} ELSE healed

LockGranted(r) == IF r \in Planned THEN "planning" ELSE "creating"

\* acquire_or_heal_generation_lock, its first SET NX.
AcquireLock(r) ==
    /\ IF lock[UserOf[r]] = Nobody
       THEN ApiAt(r, "new", LockGranted(r)) /\ SetLock(r)
       ELSE ApiAt(r, "new", "checking") /\ UNCHANGED locks
    /\ UNCHANGED <<rows, slotVars, next, workerVars, handler, worldVars>>

\* Slip: the rejection releases the lock it did not get.
ReadLockAgeReleasing(r) ==
    LET u == UserOf[r] IN
    /\ IF lock[u] # Nobody /\ lockOld[u]
       THEN ApiAt(r, "checking", "suspecting") /\ UNCHANGED locks
       ELSE ApiAt(r, "checking", "finished") /\ DelLock(u)
    /\ UNCHANGED <<rows, slotVars, next, workerVars, handler, worldVars>>

\* The lock is taken: generation_lock_age_seconds.  Its TTL and its GET are one
\* read here: a lock that changes hands between the two looks old, as one that
\* does so right after the second.
ReadLockAge(r) ==
    LET u == UserOf[r] IN
    /\ ApiAt(r, "checking", IF lock[u] # Nobody /\ lockOld[u]
                            THEN "suspecting" ELSE "finished")
    /\ UNCHANGED <<rows, locks, slotVars, next, workerVars, handler, worldVars>>

\* A lock that was old is an orphan if the user has no active job now.
LookForJobs(r) ==
    /\ ApiAt(r, "suspecting", IF UserActive(UserOf[r]) THEN "finished" ELSE "healing")
    /\ UNCHANGED <<rows, locks, slotVars, next, workerVars, handler, worldVars>>

HealLock(r) ==
    /\ ApiAt(r, "healing", "reacquiring")
    /\ DelLock(UserOf[r])
    /\ UNCHANGED <<rows, slotVars, next, workerVars, handler, worldVars>>

ReacquireLock(r) ==
    /\ IF lock[UserOf[r]] = Nobody
       THEN ApiAt(r, "reacquiring", LockGranted(r)) /\ SetLock(r)
       ELSE ApiAt(r, "reacquiring", "finished") /\ UNCHANGED locks
    /\ UNCHANGED <<rows, slotVars, next, workerVars, handler, worldVars>>

\* plan_listing_shots or plan_model_shoot returns, or fails or blocks the
\* request and the route releases the lock.
Plan(r) ==
    /\ \/ ApiAt(r, "planning", "creating") /\ UNCHANGED locks
       \/ ApiAt(r, "planning", "finished") /\ DelLock(UserOf[r])
    /\ UNCHANGED <<rows, slotVars, next, workerVars, handler, worldVars>>

\* create_generation_batch: the lock, if there is one, gets a new TTL; then
\* one transaction charges the team and inserts the granted jobs.
CreateBatch(r) ==
    \E wanted \in 1 .. MaxOutputs :
      LET t == TeamOf[r]
          n == Granted(pool[t], Cost, wanted)
          c == Taken(pool[t], Cost * n)
          created == {r} \X (1 .. n)
      IN  /\ n >= 1
          /\ ApiAt(r, "creating", "enqueueing")
          /\ lockOld' = [lockOld EXCEPT ![UserOf[r]] = FALSE]
          /\ pool' = [pool EXCEPT ![t] = Minus(@, c)]
          /\ status' = [j \in Jobs |-> IF j \in created THEN "queued" ELSE status[j]]
          /\ charge' = [j \in Jobs |-> IF j \in created THEN Share(c, n, j[2])
                                                        ELSE charge[j]]
          /\ UNCHANGED <<error, refunds, lock, slotVars, next, workerVars,
                         handler, worldVars>>

\* ... or an exception (unknown tool, bad input, not one output affordable)
\* rolls back and releases the lock.
CreateFails(r) ==
    /\ ApiAt(r, "creating", "finished")
    /\ DelLock(UserOf[r])
    /\ UNCHANGED <<rows, slotVars, next, workerVars, handler, worldVars>>

Created(r) == {j \in Batch(r) : status[j] # "none"}

\* Slip: one past the end.
IsLastOffByOne(r) == next[r] = Cardinality(Created(r)) + 1

IsLast(r) == next[r] = Cardinality(Created(r))

\* The enqueue loop of the route.
Enqueue(r) ==
    /\ ApiAt(r, "enqueueing", IF IsLast(r) THEN "finished" ELSE "enqueueing")
    /\ next' = [next EXCEPT ![r] = IF IsLast(r) THEN 1 ELSE @ + 1]
    /\ arq' = arq \union {<<r, next[r]>>}
    /\ UNCHANGED <<rows, locks, slotVars, submit, loop, counted, handler, worldVars>>

\* enqueue_job raises; the message it was writing may be in Redis anyway.
\* Every job of the batch is then failed, the enqueued ones too.
EnqueueFails(r) ==
    /\ "enqueue" \in Events
    /\ ApiAt(r, "enqueueing", "failing")
    /\ next' = [next EXCEPT ![r] = 1]
    /\ arq' \in {arq, arq \union {<<r, next[r]>>}}
    /\ UNCHANGED <<rows, locks, slotVars, submit, loop, counted, handler, worldVars>>

\* fail_and_release, up to refund_credits' commit: no row lock is taken and
\* the status in the database is not read, only waited for and overwritten.
FailAndRelease(r) ==
    LET j == <<r, next[r]>> IN
    /\ ~RowLocked(j)
    /\ ApiAt(r, "failing", "releasing")
    /\ FailRow(j, "enqueue")
    /\ UNCHANGED <<locks, slotVars, next, workerVars, handler, worldVars>>

\* fail_and_release, its count and release; then the next job.
ReleaseAfterFailure(r) ==
    /\ ApiAt(r, "releasing", IF IsLast(r) THEN "finished" ELSE "failing")
    /\ next' = [next EXCEPT ![r] = IF IsLast(r) THEN 1 ELSE @ + 1]
    /\ IF Remaining(r) <= 1 THEN DelLock(UserOf[r]) ELSE UNCHANGED locks
    /\ UNCHANGED <<rows, slotVars, workerVars, handler, worldVars>>

ApiDies(r) ==
    /\ "apiCrash" \in Events
    /\ api[r] \notin {"new", "finished", "dead"}
    /\ api' = [api EXCEPT ![r] = "dead"]
    /\ UNCHANGED <<rows, locks, slotVars, next, healed, workerVars, handler, worldVars>>
-----------------------------------------------------------------------------
(* handle_fal_webhook, called by POST /webhooks/fal and by the poll.       *)

\* Slip: the status of the locked row is not looked at.
HandleResultOfAnyJob(j) ==
    /\ ~RowLocked(j) /\ handler[j] = "none"
    /\ \/ fal[j] = "ok" /\ handler' = [handler EXCEPT ![j] = "stored"]
       \/ fal[j] \in {"ok", "error"} /\ handler' = [handler EXCEPT ![j] = "unusable"]
    /\ UNCHANGED <<rows, locks, slotVars, requestVars, workerVars, worldVars>>

\* The row is locked and read; an active job takes fal's verdict.  A result
\* that cannot be downloaded or stored is a failure.  Anything else that
\* arrives for a settled job is ignored (LateDelivery excepted).
HandleResult(j) ==
    /\ ~RowLocked(j) /\ handler[j] = "none"
    /\ Active(j)
    /\ \/ fal[j] = "ok" /\ handler' = [handler EXCEPT ![j] = "stored"]
       \/ fal[j] \in {"ok", "error"} /\ handler' = [handler EXCEPT ![j] = "unusable"]
    /\ UNCHANGED <<rows, locks, slotVars, requestVars, workerVars, worldVars>>

\* Slip: the siblings are not counted.
ReleaseBeforeCommitOfAny(j) ==
    /\ handler[j] = "stored"
    /\ DelLock(User(j)) /\ handler' = [handler EXCEPT ![j] = "giveSlot"]
    /\ UNCHANGED <<rows, slotVars, requestVars, workerVars, worldVars>>

\* Success: lock and slot are given back while the row is still active in
\* the database, and only if it is the last active one of its batch.
ReleaseBeforeCommit(j) ==
    /\ handler[j] = "stored"
    /\ IF Remaining(j[1]) <= 1
       THEN DelLock(User(j)) /\ handler' = [handler EXCEPT ![j] = "giveSlot"]
       ELSE UNCHANGED locks /\ handler' = [handler EXCEPT ![j] = "commit"]
    /\ UNCHANGED <<rows, slotVars, requestVars, workerVars, worldVars>>

GiveSlotBeforeCommit(j) ==
    /\ handler[j] = "giveSlot"
    /\ handler' = [handler EXCEPT ![j] = "commit"]
    /\ GiveSlot(Team(j))
    /\ UNCHANGED <<rows, locks, skewed, requestVars, workerVars, worldVars>>

CommitSuccess(j) ==
    /\ handler[j] = "commit"
    /\ handler' = [handler EXCEPT ![j] = "none"]
    /\ status' = [status EXCEPT ![j] = "completed"]
    /\ UNCHANGED <<error, charge, pool, refunds, locks, slotVars, requestVars,
                   workerVars, worldVars>>

\* Failure: refund_credits commits first, which also unlocks the row.
CommitFailure(j) ==
    /\ handler[j] = "unusable"
    /\ handler' = [handler EXCEPT ![j] = "failed"]
    /\ FailRow(j, "fal")
    /\ UNCHANGED <<locks, slotVars, requestVars, workerVars, worldVars>>

ReleaseAfterCommit(j) ==
    /\ handler[j] = "failed"
    /\ IF Remaining(j[1]) <= 1
       THEN DelLock(User(j)) /\ handler' = [handler EXCEPT ![j] = "giveSlotLate"]
       ELSE UNCHANGED locks /\ handler' = [handler EXCEPT ![j] = "none"]
    /\ UNCHANGED <<rows, slotVars, requestVars, workerVars, worldVars>>

GiveSlotAfterCommit(j) ==
    /\ handler[j] = "giveSlotLate"
    /\ handler' = [handler EXCEPT ![j] = "none"]
    /\ GiveSlot(Team(j))
    /\ UNCHANGED <<rows, locks, skewed, requestVars, workerVars, worldVars>>

\* Slip: whatever the job failed of.
LateDeliveryOfAnyFailure(j) ==
    /\ ~RowLocked(j)
    /\ status[j] = "failed" /\ fal[j] = "ok"
    /\ status' = [status EXCEPT ![j] = "completed"]
    /\ UNCHANGED <<error, charge, pool, refunds, locks, slotVars, requestVars,
                   workerVars, handler, worldVars>>

\* _deliver_late_success_after_timeout: no charge, no release.
LateDelivery(j) ==
    /\ ~RowLocked(j)
    /\ status[j] = "failed" /\ error[j] = "timeout" /\ fal[j] = "ok"
    /\ status' = [status EXCEPT ![j] = "completed"]
    /\ UNCHANGED <<error, charge, pool, refunds, locks, slotVars, requestVars,
                   workerVars, handler, worldVars>>

\* The process running the handler dies: an uncommitted row is unlocked as
\* it was, but what went to Redis stays there.  A slot given back for a row
\* that is active again has been lost.
HandlerDies(j) ==
    /\ {"apiCrash", "workerCrash"} \intersect Events # {}
    /\ handler[j] # "none"
    /\ deaths < MaxDeaths /\ deaths' = deaths + 1
    /\ handler' = [handler EXCEPT ![j] = "none"]
    /\ skewed' = [skewed EXCEPT ![Team(j)] = @ \/ handler[j] = "commit"]
    /\ UNCHANGED <<rows, locks, inflight, requestVars, workerVars, fal, age>>
-----------------------------------------------------------------------------
(* The worker: submit_generation_to_fal.                                   *)

\* A message whose row is not locked is picked up; picking up a job that is
\* no longer queued, or whose tool is unknown, drops the message.
PicksUp(j) == LoopIdle /\ j \in arq /\ ~RowLocked(j)

DropMessage(j) ==
    /\ PicksUp(j)
    /\ status[j] # "queued" \/ "toolGone" \in Events
    /\ arq' = arq \ {j}
    /\ UNCHANGED <<rows, locks, slotVars, requestVars, submit, loop, counted,
                   handler, worldVars>>

\* Slip: the counter is compared before its increment.
HasRoomBeforeIncrement(t) == inflight[t] <= Limit

\* The INCR of try_reserve_fal_slot stays within the team's limit.
HasRoom(t) == inflight[t] + 1 <= Limit

\* try_reserve_fal_slot succeeds; the row stays locked while fal is called.
ReserveSlot(j) ==
    /\ PicksUp(j) /\ status[j] = "queued"
    /\ HasRoom(Team(j))
    /\ inflight' = [inflight EXCEPT ![Team(j)] = @ + 1]
    /\ submit' = [submit EXCEPT ![j] = "sending"]
    /\ UNCHANGED <<rows, locks, skewed, requestVars, loop, counted, arq,
                   handler, worldVars>>

GaveUpWaiting(r) == age[r] >= 3

\* At the cap, within SLOT_ACQUISITION_DEADLINE_SECONDS: try again later.
WaitForSlot(j) ==
    /\ PicksUp(j) /\ status[j] = "queued"
    /\ ~HasRoom(Team(j)) /\ ~GaveUpWaiting(j[1])
    /\ submit' = [submit EXCEPT ![j] = "deferring"]
    /\ UNCHANGED <<rows, locks, slotVars, requestVars, loop, counted, arq,
                   handler, worldVars>>

\* fail_cleanly, up to its commit; "unlock" and "unlockAndGive" are what is
\* left of it (a redelivery of the message would find the row failed).
FailCleanly(j, rest) ==
    /\ FailRow(j, "start")
    /\ LoopAt(rest, j)
    /\ submit' = [submit EXCEPT ![j] = "none"]
    /\ arq' = arq \ {j}
    /\ UNCHANGED <<locks, slotVars, requestVars, counted, handler, worldVars>>

\* The slot counter cannot be reached, or the deadline has passed.
StartFails(j) ==
    /\ PicksUp(j) /\ status[j] = "queued"
    /\ "reserve" \in Events \/ (~HasRoom(Team(j)) /\ GaveUpWaiting(j[1]))
    /\ FailCleanly(j, "unlock")

\* The deferred message is written; the coroutine ends, unlocking the row.
Defer(j) ==
    /\ LoopIdle /\ submit[j] = "deferring"
    /\ submit' = [submit EXCEPT ![j] = "none"]
    /\ arq' = arq \union {j}
    /\ UNCHANGED <<rows, locks, slotVars, requestVars, loop, counted, handler,
                   worldVars>>

DeferFails(j) ==
    /\ "enqueue" \in Events
    /\ LoopIdle /\ submit[j] = "deferring"
    /\ FailCleanly(j, "unlock")

\* fal accepted the request; slot and lock are kept.
SubmitSucceeds(j) ==
    /\ LoopIdle /\ submit[j] = "accepted"
    /\ status' = [status EXCEPT ![j] = "processing"]
    /\ submit' = [submit EXCEPT ![j] = "none"]
    /\ arq' = arq \ {j}
    /\ UNCHANGED <<error, charge, pool, refunds, locks, slotVars, requestVars,
                   loop, counted, handler, worldVars>>

\* Any exception while preparing or sending, an answer lost on its way back
\* included.
SubmitFails(j) ==
    /\ LoopIdle /\ submit[j] \in {"sending", "accepted"}
    /\ FailCleanly(j, "unlockAndGive")

\* fail_cleanly releases the user's lock whatever else the user is running.
UnlockAfterFailure ==
    /\ loop.at \in {"unlock", "unlockAndGive"}
    /\ DelLock(User(loop.job))
    /\ IF loop.at = "unlock" THEN LoopAt("idle", NoJob) ELSE LoopAt("giveSlot", loop.job)
    /\ UNCHANGED <<rows, slotVars, requestVars, submit, counted, arq, handler,
                   worldVars>>

GiveSlotAfterFailure ==
    /\ loop.at = "giveSlot"
    /\ GiveSlot(Team(loop.job))
    /\ LoopAt("idle", NoJob)
    /\ UNCHANGED <<rows, locks, skewed, requestVars, submit, counted, arq,
                   handler, worldVars>>
-----------------------------------------------------------------------------
(* The worker's cron jobs.                                                 *)

\* Slip: a queued job gives back a slot too.
FailStaleGivingSlot(j) ==
    /\ LoopIdle /\ ~RowLocked(j) /\ Active(j)
    /\ FailRow(j, "timeout")
    /\ LoopAt("staleWithSlot", j)
    /\ UNCHANGED <<locks, slotVars, requestVars, submit, counted, arq, handler,
                   worldVars>>

\* _fail_stale_job, up to its commit: row locked, read again, failed and
\* refunded in one stretch.  Only a processing job is taken to hold a slot.
FailStale(j) ==
    /\ LoopIdle /\ ~RowLocked(j) /\ Active(j)
    /\ FailRow(j, "timeout")
    /\ LoopAt(IF status[j] = "processing" THEN "staleWithSlot" ELSE "stale", j)
    /\ UNCHANGED <<locks, slotVars, requestVars, submit, counted, arq, handler,
                   worldVars>>

\* check_generation_timeouts: past the tool's budget, measured from the
\* batch's creation, and fal was not seen to have completed it.
TimeOut(j) ==
    /\ age[j[1]] >= 1 /\ status[j] = "processing"
    /\ FailStale(j)

\* Slip: the sweep leaves queued jobs alone.
SweepProcessing(j) == age[j[1]] >= 2 /\ status[j] = "processing" /\ FailStale(j)

\* sweep_stale_generation_jobs: ten minutes.
Sweep(j) == age[j[1]] >= 2 /\ FailStale(j)

\* The sweep waits, inside the event loop, for a row lock a coroutine of
\* that same loop is holding: nothing moves until the watchdog.
SweepBlocks(j) ==
    /\ LoopIdle /\ age[j[1]] >= 2
    /\ Active(j) /\ submit[j] # "none"
    /\ LoopAt("frozen", j)
    /\ UNCHANGED <<rows, locks, slotVars, requestVars, submit, counted, arq,
                   handler, worldVars>>

\* Released only if the user has nothing else running.
UnlockAfterStale ==
    /\ loop.at \in {"stale", "staleWithSlot"}
    /\ IF UserActive(User(loop.job)) THEN UNCHANGED locks ELSE DelLock(User(loop.job))
    /\ IF loop.at = "stale" THEN LoopAt("idle", NoJob) ELSE LoopAt("giveSlot", loop.job)
    /\ UNCHANGED <<rows, slotVars, requestVars, submit, counted, arq, handler,
                   worldVars>>

InFal(t) == {j \in Jobs : Team(j) = t /\ status[j] = "processing"}

\* reconcile_fal_slots reads every team's processing jobs ...
CountSlots ==
    /\ "reconcile" \in Events
    /\ LoopIdle
    /\ counted' = [t \in Teams |-> Cardinality(InFal(t))]
    /\ LoopAt("reconciling", NoJob)
    /\ UNCHANGED <<rows, locks, slotVars, requestVars, submit, arq, handler,
                   worldVars>>

\* Jobs whose slot is taken and will still be given back: in the hands of a
\* submission, at fal, in the hands of a handler or of the cleanup after a
\* failure, or left queued by a worker that died while fal had the request.
OwesSlot(j) ==
    \/ submit[j] \in {"sending", "accepted"}
    \/ status[j] = "processing" /\ handler[j] # "commit"
    \/ status[j] = "queued" /\ fal[j] # "none" /\ handler[j] # "commit"
    \/ handler[j] \in {"stored", "unusable", "giveSlot", "failed", "giveSlotLate"}
    \/ loop.at \in {"unlockAndGive", "staleWithSlot", "giveSlot"} /\ loop.job = j

Owing(t) == {j \in Jobs : Team(j) = t /\ OwesSlot(j)}

\* Slip: only teams that still have jobs at fal are corrected.
SetCountersOfBusyTeams ==
    /\ loop.at = "reconciling"
    /\ inflight' = [t \in Teams |-> IF counted[t] > 0 THEN counted[t] ELSE inflight[t]]
    /\ skewed' = [t \in Teams |-> skewed[t] \/ counted[t] < Cardinality(Owing(t))]
    /\ counted' = [t \in Teams |-> 0]
    /\ LoopAt("idle", NoJob)
    /\ UNCHANGED <<rows, locks, requestVars, submit, arq, handler, worldVars>>

\* ... and then sets the counters to what it read.
SetCounters ==
    /\ loop.at = "reconciling"
    /\ inflight' = counted
    /\ skewed' = [t \in Teams |-> skewed[t] \/ counted[t] < Cardinality(Owing(t))]
    /\ counted' = [t \in Teams |-> 0]
    /\ LoopAt("idle", NoJob)
    /\ UNCHANGED <<rows, locks, requestVars, submit, arq, handler, worldVars>>

\* The worker dies, or the watchdog kills a frozen one: its transactions
\* are rolled back, its messages are delivered again, its slots stay taken.
WorkerDies ==
    /\ \/ loop.at = "frozen" /\ UNCHANGED deaths
       \/ /\ "workerCrash" \in Events
          /\ deaths < MaxDeaths /\ deaths' = deaths + 1
          /\ loop.at # "idle" \/ \E j \in Jobs : submit[j] # "none"
    /\ submit' = [j \in Jobs |-> "none"]
    /\ counted' = [t \in Teams |-> 0]
    /\ LoopAt("idle", NoJob)
    /\ UNCHANGED <<rows, locks, slotVars, requestVars, arq, handler, fal, age>>
-----------------------------------------------------------------------------
(* The world.                                                              *)

\* fal takes the request; a resubmission replaces an older one, whose
\* result no longer matches fal_request_id.
FalAccepts(j) ==
    /\ submit[j] = "sending"
    /\ submit' = [submit EXCEPT ![j] = "accepted"]
    /\ fal' = [fal EXCEPT ![j] = "running"]
    /\ UNCHANGED <<rows, locks, slotVars, requestVars, loop, counted, arq,
                   handler, age, deaths>>

FalFinishes(j) ==
    /\ fal[j] = "running"
    /\ \E verdict \in {"ok", "error"} : fal' = [fal EXCEPT ![j] = verdict]
    /\ UNCHANGED <<rows, locks, slotVars, requestVars, workerVars, handler, age, deaths>>

\* The holder's own request is still between its SET NX and its commit.
Creating(r) == r \in Requests /\ api[r] = "creating"

\* Thirty seconds pass for a lock; job creation itself takes under a second.
LockAges(u) ==
    /\ "lockAges" \in Events
    /\ lock[u] # Nobody /\ ~lockOld[u]
    /\ ~Creating(lock[u])
    /\ lockOld' = [lockOld EXCEPT ![u] = TRUE]
    /\ UNCHANGED <<rows, lock, slotVars, requestVars, workerVars, handler, worldVars>>

\* Slip: SET without EX.
LockWithoutTTL(u) == FALSE /\ UNCHANGED vars

\* The lock's TTL: the tool's budget and 30 seconds from the batch's
\* creation; without a batch, longer than any planning call.
LockExpires(u) ==
    /\ lock[u] # Nobody /\ lockOld[u]
    /\ api[lock[u]] \notin {"planning", "creating"}
    /\ Created(lock[u]) # {} => age[lock[u]] >= 1
    /\ DelLock(u)
    /\ UNCHANGED <<rows, slotVars, requestVars, workerVars, handler, worldVars>>

\* A batch gets older: past its tool's budget (1), past the sweep's ten
\* minutes (2), past the slot deadline (3).
Ages(r) ==
    /\ "time" \in Events
    /\ age[r] < 3 /\ Created(r) # {}
    /\ lock[UserOf[r]] = r \/ \E j \in Batch(r) : Active(j)
    /\ age' = [age EXCEPT ![r] = @ + 1]
    /\ UNCHANGED <<rows, locks, slotVars, requestVars, workerVars, handler, fal, deaths>>
-----------------------------------------------------------------------------
ApiStep(r) ==
    \/ AcquireLock(r) \/ ReadLockAge(r) \/ LookForJobs(r) \/ HealLock(r) \/ ReacquireLock(r)
    \/ Plan(r) \/ CreateBatch(r) \/ CreateFails(r)
    \/ Enqueue(r) \/ EnqueueFails(r) \/ FailAndRelease(r) \/ ReleaseAfterFailure(r)

HandlerStep(j) ==
    \/ HandleResult(j) \/ ReleaseBeforeCommit(j) \/ GiveSlotBeforeCommit(j)
    \/ CommitSuccess(j) \/ CommitFailure(j) \/ ReleaseAfterCommit(j)
    \/ GiveSlotAfterCommit(j)

SubmitStep(j) ==
    \/ DropMessage(j) \/ ReserveSlot(j) \/ WaitForSlot(j) \/ StartFails(j)
    \/ Defer(j) \/ DeferFails(j) \/ SubmitSucceeds(j) \/ SubmitFails(j)

LoopStep ==
    UnlockAfterFailure \/ GiveSlotAfterFailure \/ UnlockAfterStale \/ SetCounters

Next ==
    \/ \E r \in Requests : ApiStep(r) \/ ApiDies(r) \/ Ages(r)
    \/ \E j \in Jobs : \/ HandlerStep(j) \/ LateDelivery(j) \/ HandlerDies(j)
                       \/ SubmitStep(j)
                       \/ TimeOut(j) \/ Sweep(j) \/ SweepBlocks(j)
                       \/ FalAccepts(j) \/ FalFinishes(j)
    \/ \E u \in Users : LockAges(u) \/ LockExpires(u)
    \/ LoopStep \/ CountSlots \/ WorkerDies

Spec == Init /\ [][Next]_vars
-----------------------------------------------------------------------------
TypeOK ==
    /\ status \in [Jobs -> {"none", "queued", "processing", "completed", "failed"}]
    /\ error \in [Jobs -> {"none", "enqueue", "fal", "start", "timeout"}]
    /\ charge \in [Jobs -> Pool]
    /\ pool \in [Teams -> Pool]
    /\ refunds \in [Jobs -> Nat]
    /\ lock \in [Users -> Requests \union {Nobody}]
    /\ lockOld \in [Users -> BOOLEAN]
    /\ inflight \in [Teams -> Int]
    /\ skewed \in [Teams -> BOOLEAN]
    /\ arq \subseteq Jobs
    /\ api \in [Requests -> {"new", "checking", "suspecting", "healing", "reacquiring", "planning",
                             "creating", "enqueueing", "failing", "releasing",
                             "finished", "dead"}]
    /\ next \in [Requests -> 1 .. MaxOutputs]
    /\ healed \subseteq Users
    /\ submit \in [Jobs -> {"none", "sending", "accepted", "deferring"}]
    /\ handler \in [Jobs -> {"none", "stored", "unusable", "giveSlot", "commit",
                             "failed", "giveSlotLate"}]
    /\ loop \in [at : {"idle", "unlock", "unlockAndGive", "giveSlot", "stale",
                       "staleWithSlot", "frozen", "reconciling"},
                 job : Jobs \union {NoJob}]
    /\ counted \in [Teams -> Nat]
    /\ fal \in [Jobs -> {"none", "running", "ok", "error"}]
    /\ age \in [Requests -> 0 .. 3]
    /\ deaths \in 0 .. MaxDeaths

\* Every charge is settled exactly once, whichever of the worker, the result
\* handler, the poll, the sweep and the API gets to the job first: an active
\* or delivered job has not been refunded, a failed one has been refunded
\* once, and a late delivery keeps the refund of its timeout.  Only
\* fail_and_release, which does not read the row it overwrites, can refund a
\* second time.
Settlement ==
    \A j \in Jobs :
        refunds[j] \in
            IF error[j] = "enqueue" THEN {1, 2}
            ELSE IF status[j] = "failed" \/ error[j] = "timeout" THEN {1}
            ELSE {0}

\* What the unrefunded jobs of a team took from each pool.
TeamJobs(t) == {j \in Jobs : Team(j) = t}
SubUnrefunded == [j \in Jobs |-> charge[j].sub * (1 - refunds[j])]
TopUnrefunded == [j \in Jobs |-> charge[j].top * (1 - refunds[j])]
Unrefunded(t) == [sub |-> SumFunctionOnSet(SubUnrefunded, TeamJobs(t)),
                  top |-> SumFunctionOnSet(TopUnrefunded, TeamJobs(t))]

\* Credits are neither lost nor made, pool by pool: what a team opened with
\* is its balance plus what its unrefunded jobs took (a second refund is the
\* only thing that makes credits, and it is counted as one).
PoolsConserved == \A t \in Teams : Plus(pool[t], Unrefunded(t)) = OpeningPool

\* How the rows tell where a charge stands.
PhaseOf(j) ==
    CASE status[j] = "none" -> "absent"
      [] Active(j) -> "held"
      [] status[j] = "failed" -> "refunded"
      [] status[j] = "completed" -> IF error[j] = "timeout" THEN "gift" ELSE "delivered"

Ledger == INSTANCE CreditLedger WITH
    phase <- [j \in Jobs |-> PhaseOf(j)],
    purchase <- <<>>,
    added <- [t \in Teams |-> 0],
    refilled <- [t \in Teams |-> [credits |-> OpeningPool.sub, held |-> {}]],
    overtaken <- {},
    Purchases <- {}, BuyerOf <- <<>>, PackOf <- <<>>, Plans <- {}, MaxMoved <- 0

\* The pipeline keeps the promise of the credit ledger, as long as no
\* enqueue fails: with retries, deaths, timeouts, late results and two
\* generations of one user at once, every step charges a batch, settles one
\* charge in full, or leaves all money alone.
KeepsTheLedger == Ledger!LedgerSpec

\* A settled job never becomes active again, a delivered one stays
\* delivered, and a failed one is delivered only after a timeout; the one
\* exception is fail_and_release overwriting what the worker did.
SettledIsFinal ==
    [][\A j \in Jobs :
         /\ status[j] = "completed" => status'[j] = "completed" \/ error'[j] = "enqueue"
         /\ status[j] = "failed" =>
              \/ status'[j] = "failed"
              \/ status'[j] = "completed" /\ error[j] = "timeout"]_vars

\* The slot counter of a team never falls below the slots that are in use
\* or still to be given back, unless it has been skewed: by a reconcile that
\* counted between a reservation and its commit, or by a handler that died
\* between giving a slot back and its commit.
SlotsCovered ==
    \A t \in Teams : ~skewed[t] => inflight[t] >= Cardinality(Owing(t))

\* The jobs fal is working on for a team, as far as the code can know.
AtFal(t) ==
    {j \in Jobs : /\ Team(j) = t
                  /\ \/ submit[j] \in {"sending", "accepted"}
                     \/ status[j] = "processing" /\ handler[j] = "none"}

\* What the counter is for: a team never has more requests at fal than its
\* concurrency limit, unless its counter has been skewed.
SlotCap ==
    \A t \in Teams : ~skewed[t] => Cardinality(AtFal(t)) <= Limit

\* A generation in progress: its request is before or in its enqueue loop,
\* or one of its jobs is active and its handler has not yet released it.
InProgress(r) ==
    \/ api[r] \in {"planning", "creating", "enqueueing"}
    \/ \E j \in Batch(r) : Active(j) /\ handler[j] \notin {"giveSlot", "commit"}

\* The rule the per-user lock is for: one generation at a time.  It holds
\* for single-output batches within their budget until a lock of the user is
\* healed, whichever requests die, if no worker and no result handler does
\* and no message is refused.  (A lock older than thirty seconds whose holder
\* is still planning is healed as an orphan, and two healers can undo one
\* another's lock.)
OneAtATime ==
    \A r, q \in Requests :
        r # q /\ UserOf[r] = UserOf[q] /\ UserOf[r] \notin healed
        => ~(InProgress(r) /\ InProgress(q))

\* Nothing has gone wrong for a user: no lock of theirs was taken for an
\* orphan's, no worker and no handler has died, no batch of theirs is past its
\* budget, and no job of theirs has failed.
Undisturbed(u) ==
    /\ u \notin healed /\ deaths = 0
    /\ \A r \in Requests : UserOf[r] = u => age[r] = 0
    /\ \A j \in Jobs : User(j) = u => refunds[j] = 0

\* Until then a generation in progress has its user's lock, from the planning
\* to the handler of the last job of its batch, whatever their number: siblings
\* that are handled at once or before the batch is enqueued, submitted again or
\* waiting for a slot, a request that dies, a lock that grows old, and a second
\* request that is just being turned away do not open the door.
LockKept ==
    \A r \in Requests : InProgress(r) /\ Undisturbed(UserOf[r]) => lock[UserOf[r]] = r
-----------------------------------------------------------------------------
(* Fairness.  Threads of the API and the database make progress; a         *)
(* coroutine of the worker gets the event loop again and again (asyncio    *)
(* runs ready callbacks in order), and so does every cron job; the         *)
(* watchdog kills a frozen worker; time passes.  Nothing is assumed of     *)
(* fal, and neither deaths nor failures are ever forced.                   *)
Fairness ==
    /\ \A r \in Requests : WF_vars(ApiStep(r)) /\ WF_vars(Ages(r))
    /\ \A j \in Jobs : /\ WF_vars(HandlerStep(j))
                       /\ SF_vars(SubmitStep(j)) /\ SF_vars(Sweep(j))
    /\ \A u \in Users : WF_vars(LockAges(u)) /\ WF_vars(LockExpires(u))
    /\ WF_vars(LoopStep) /\ SF_vars(CountSlots)
    /\ WF_vars(loop.at = "frozen" /\ WorkerDies)

FairSpec == Spec /\ Fairness

\* The promise of the sweep: every charged job is eventually delivered or
\* failed and refunded, whatever dies, is lost or never answers.
EveryJobSettles == \A j \in Jobs : Active(j) ~> ~Active(j)

\* A user is never locked out for good: whoever died holding the lock, it
\* is eventually free.
LockIsFreed == \A u \in Users : (lock[u] # Nobody) ~> (lock[u] = Nobody)

\* The promise of reconcile_fal_slots: however many slots leaked, once the
\* work is done every counter settles at zero.
SlotsHeal == <>[](\A t \in Teams : inflight[t] = 0)
=============================================================================

# A TLA+ model of the photo-shoot backend

The repository is the backend of a paid image-generation product: a FastAPI
application (four processes, `run.py`), an arq worker (one process, one event
loop), PostgreSQL, Redis, the image service fal.ai and the payment service
Razorpay. This directory models the part of it in which money, quotas and
memberships can go wrong (the credit ledger, the generation pipeline, the
requests to fal, subscriptions, teams, credit-pack payments, first logins and the
sign-up bonus) and the mechanisms it rests on: row locks and event loops, the
caches of hand-edited rows, the worker's watchdog. TLC checks the models on small
instances and TLAPS proves the central facts for every instance.

Paths below are relative to the repository root, usually under `app/`.

## Inventory

| Part | State it keeps | Operations | Correct if |
|---|---|---|---|
| Credit arithmetic (`services/credits.py`, the shares in `services/generation.py`) | none | grant up to what is affordable, split over two pools, split over a batch | nothing is overdrawn, lost or invented |
| Credit ledger (`services/credits.py`, `models/team.py`) | two balances of each team | charge, refund, add a pack, refill, lapse, move a leftover | each charge is settled once; bought credits pay for outputs only; a refill replaces, and nothing lapsed comes back but refunds |
| Generation, API side (`routes/generation.py`, `services/generation.py`, `services/generation_lock.py`) | job rows, balances, the user's Redis lock | `POST /generate`: lock, heal, plan, create the batch, enqueue, fail and release | one generation for each user; a failed start costs nothing |
| Planned tools (`tools/listing_planner.py`, `tools/model_shoot.py`, their part of `routes/generation.py`) | none of their own | check the form, upload, ask the vision model, build fal's request | fal gets what was planned; no lock is left behind |
| Generation, worker side (`worker.py`) | job rows, the team's slot counter, arq messages | reserve a slot, submit, defer, fail cleanly | no team exceeds its concurrency; no job is forgotten |
| Requests to fal (`core/http_retry.py`, `core/fal_client.py`) | the request id of a job | send, try again, record | one request decides a job; only lost answers are paid twice |
| Generation, results (`services/generation.py`) | job rows, counter, lock | fal's webhook, the delivery poll, late deliveries | a result is taken once, a refund is final |
| Time-outs, sweep, reconcile (`worker.py`) | the same | three cron jobs | every job ends; leaked slots come back |
| Watchdog and health (`core/watchdog.py`, `routes/health.py`) | a heartbeat, arq's health key | beat, check, alert, exit; refresh | what is frozen is killed, and nothing else; the key tells the truth |
| Row locks and event loops (every handler) | row locks, who is on which loop | lock, await, commit, roll back | transactions wait for each other in known cases only |
| Subscriptions (`services/billing.py`, `services/webhooks.py`, three cron jobs of `worker.py`) | one row for each team, the subscription pool | checkout, cancel, switch, six webhooks, refill, lapse, cleanup | nobody is billed twice, or billed and not served; one refill for each charge |
| Credit packs (`handle_payment_captured` in `services/webhooks.py`) | `billing_transactions`, the top-up balance | one webhook | each payment is credited once |
| Teams and members (`services/teams.py`, `routes/teams.py`) | `team_members` | create, remove, rename | a team has an owner and at most `MAX_TEAM_MEMBERS` members |
| Invites (`services/team_invites.py`) | `team_invites`, a Redis cooldown | invite, cancel, accept, expire | one invite for an address, no seat given twice |
| Deletion and purge (`services/teams.py`, `worker.py`) | `deleted_at` | delete, restore, purge | what can be restored is not purged |
| Users and sign-up bonus (`services/users.py`, `services/signup_abuse.py`) | users, a cache of them, Redis counters | first login, bonus | one account for each user, as many bonuses as the cap allows |
| Caches of hand-edited rows (`core/cache.py`, `services/tool_definitions.py`, `services/homepage.py`, `routes/cache.py`) | Redis entries | look up, store, clear | an old row is shown for a bounded time |
| Pool, rate limiter (`core/arq_pool.py`, `core/limiter.py`) | little | connect, count | - |
| Auth, links, email, storage, other tools, homepage content, scripts, schemas | none of their own | I/O, look-ups, prompt texts | - |

How they interact: the API charges a team and inserts jobs in one transaction,
then writes one arq message for each job. The worker reserves a slot in Redis,
calls fal and commits. fal's result comes back to the API as a webhook, or to
the worker by polling. Cron jobs of the worker settle what nobody answered for.
Razorpay's webhooks change subscriptions and balances at any time, and owners'
calls do so from any of the four API processes. Handlers meet in the rows they
lock and on the event loop they run on.

What is hard here: every Redis command and every transaction is a step of its
own, and most sequences of them (lock, then create; commit, then release; count,
then delete) have no transaction around them. The worker gives up its event loop
only at an `await`, but keeps row locks across one. Webhooks are repeated,
delayed and reordered. Processes die between any two steps. `SELECT ... FOR
UPDATE` locks a row and does not refresh what the session has read of it. Each
of these hazards is listed at its line in `PROJECT.json`, with the property that
would notice it; for five of them there is none, and a note says why.

## Modules

| Module | What it is |
|---|---|
| `Credits` | the arithmetic of a charge, as operators: `Granted`, `Taken`, `Share` |
| `CreditLedger` | the abstract specification: batches are charged, each charge is settled once; refills, lapses, packs and moved leftovers |
| `Generation` | the whole pipeline; implements `CreditLedger` |
| `FalRequests` | the requests fal gets for one job |
| `Planning` | a planned request, from its form to what fal gets |
| `Subscriptions` | the subscription of one team, with Razorpay |
| `Teams` | the members, invites, deletion and credit packs of one team |
| `Accounts` | first logins and the sign-up bonus |
| `Catalogue` | hand-edited rows behind caches |
| `WorkerHealth` | the heartbeat, the watchdog and arq's health key, in discrete time |
| `RowLocks` | which handler locks which row, in which order, on or off which event loop |
| `CreditsProofs`, `GenerationProofs`, `SubscriptionsProofs`, `TeamsProofs`, `RowLocksProofs` | theorems about the module in their name; `CreditsProofs` also the sums the others add up |
| `ApiProofs` | theorems about `CreditLedger`, `Accounts`, `Catalogue` and `Planning` |
| `WorkerProofs` | theorems about `FalRequests` and `WorkerHealth` |
| `MCGeneration`, `MCSubscriptions`, `MCTeams` | instances of the module in their name for TLC |
| `MCParts` | instances of `CreditLedger`, `Accounts`, `Catalogue`, `FalRequests`, `WorkerHealth`, `Planning` and `RowLocks`, one part at a time |
| `PartsProofs` | `MCParts` implements the parts it is made of, for all values of the constants |

A definition marked *Slip* is a wrong version of the one that follows it, as a
plausible mistake in the code would make it. Nothing refers to it; it documents
what the properties are able to notice. The events an instance allows are the
constant `Events` of the larger modules: an interleaving of everything with
everything is out of TLC's reach, so each run takes the events its question needs.

### CreditLedger

`pool` and `charge` are the balances of each team and what each job took, `phase`
says whether a job's charge is held, delivered or refunded (`gift`: refunded for
being late, and delivered after all). Charges, refunds, refills, lapses and moved
leftovers are one step each: their code locks the team row before it has read it.
A pack takes two. `LoadTeam` is the read at `services/webhooks.py:151`, and
`purchase` keeps the balance it has `seen`; `AddTopup` is `add_topup_credits`, which
locks the row, does not refresh it, and writes the sum of the old balance and the
pack. In between anything may touch the balance, and the webhook may fail
(`PurchaseFails`), to be delivered again. The histories `added`, `refilled` and
`overtaken` say what was added to the top-up pool, what the subscription pool was
last set to and which jobs held a charge then, and which packs were granted on a
balance that was out of date. `TopupsArePermanent` is promised to teams without such
a pack; `RefillsReplace` to all.

### Generation

| Variables | Code |
|---|---|
| `status`, `error`, `charge` | columns of `GenerationJob`; `error` keeps the kind of the message |
| `pool` | the two balance columns of `Team` |
| `lock`, `lockOld` | `genlock:user:{id}`: who set it, and whether it is older than `STALE_LOCK_GRACE_SECONDS` |
| `inflight` | `fal:inflight_count:{team}` |
| `arq` | messages of `submit_generation_to_fal` not yet acknowledged |
| `api`, `next` | where each `POST /generate` stands, and at which job its loops are |
| `submit` | coroutines suspended at their `await` (they hold their row lock there) |
| `handler` | calls of `handle_fal_webhook` (row lock held up to the commit) |
| `loop`, `counted` | the synchronous stretch the worker is in, and what reconciling has read |
| `fal`, `age`, `deaths` | the service, the passing of time, the crash bound |
| `refunds`, `skewed`, `healed` | history: refunds of each job; whether a slot in use was ever dropped from a team's counter; users one of whose locks was taken for an orphan |

A transaction is one step, ending at its commit; so is a Redis command. Taking a
lock for an orphan's is four steps: its age (`ReadLockAge`), the look for active
jobs (`LookForJobs`), the deletion and the new lock. The count of a batch's
remaining jobs and the deletion of the lock that follows it are one step where
nothing can come between that matters (no await, and the row is locked). The
worker is a single event loop: while it is in a synchronous stretch (`loop.at #
"idle"`) no other worker step happens, but the API moves on. A redelivered message
is a message that stays in `arq` when the worker dies. The sweep that waits for a
row which a suspended coroutine of its own loop has locked freezes the worker
(`SweepBlocks`), until the watchdog ends it (`WorkerDies`).

Abstractions: validation, prompt building and planning are a nondeterministic
failure (for the planned tools, `Planning` has the detail); a job's requests at
fal are one (`FalRequests` has them all); `age` distinguishes the thresholds the
code compares with (the tool's budget, ten minutes, the slot deadline) and nothing
between them; a lock expires only when its TTL says so; the global slot counter,
which refuses nothing, is left out.

### FalRequests

`queue` is what fal made of each request ever sent for the job, `run` the coroutine
that is sending (its attempt, and the id it was given), `message` the arq message.
`submit_to_fal` and `send_with_retry` are `Accepted`, `AnswerLost` (fal has queued
the request, nobody knows its id), `NotReached`, `Rejected` and `Unreadable` (an
answer whose JSON raises, which is outside of the retries). `Result` is
`handle_fal_webhook` for any request that is done, as often as it likes; the row
lock of a run keeps it waiting. `lost` and `died` count what a duplicate may be
blamed on.

### Planning

`ask` is the form of a request, `toolRow` the tool's row, which `EditTool` changes
at any time and the code reads three times: for the checks (`checked`), for the
batch, for each submission. `answer` ranges over what the vision model may say:
shots for a listing (too few, too many, none), a classification for a shoot, text
nobody can parse, a value that makes the parser raise. `labelled` is the order in
which the planner numbered the images, `sent` what fal got: each job's prompt and
the images in the order of `_translate_fal_params`. Prices are left to `Credits`;
what an insufficient balance does is in `CreateBatch` (a smaller batch) and
`RefuseBatch`.

### Subscriptions

`row` is the team's row of `team_subscriptions`, `rz` what Razorpay knows of each
subscription, `inbox` the webhooks not yet answered with 200, `call` the owners'
open calls with the row their session has read (`seen`) and the subscription they
still have to cancel (`drop`), `activating` the activations whose id was on no
row, `worker` what a cron job has selected, `clock` the time in refill periods.
A webhook's transaction under the row lock is one step. What the session has
loaded before it locks the row stays as it was (`Seen`, `Flush`: only changed
columns are written), because `FOR UPDATE` does not refresh it.
Left out: the renewal notices and the subscriptions that a failed create leaves
unpaid at Razorpay.

### Teams

`member`, `invite` and `cooling` are the rows of `team_members` and
`team_invites` and the cooldown keys; `team`, `grace` and `sweeping` the life of
the team; `txn`, `handler`, `balance` and `spent` the credit packs. A request is a
step that checks its caller and reads, and a step that writes (two, for an
acceptance). The part under the team's lock is one step: it counts again. A
cooldown lasts longer than the requests that were open when it began. The purge
ends whatever is still open with an error, because its rows are gone.

### Accounts

`account` is the row of each uid (by the request that created it), `userCache` the
Redis entry `user:uid:*`, `counted` the increments of the bonus counters. `login`
says where a request stands between its round trips: cache, query, one `GET` for
each counter, the insert (which waits for an uncommitted one with the same uid or
address: `Blocked`), the commit, one `INCR` for each counter, the cache again.
`told` is the account it goes on with, `eligible` what it has decided about the
bonus, `readOn` the day whose counters it has read. With `Outages`, Redis, the
database or the process may fail at each of these points.

### Catalogue

A value is represented by how long ago an edit replaced it in the database (`old`,
or `Current`). A request looks up, reads and stores in three steps; `Edit` is SQL
that tells no cache; `ListKeys` and `DeleteKeys` are the two halves of
`POST /admin/cache/clear`.

### WorkerHealth

A tick is the unit of the intervals. `eventLoop` is free, busy with a synchronous
stretch, hung or down; `sinceBeat`, `toCheck` and `alerting` are the watchdog,
`sentinel` and `sinceFresh` arq's key. Time passes only when nothing is due.
`AlertTime` bounds the whole alert, an assumption: httpx's timeout
(`core/watchdog.py:54`) is one for each phase and each read, so an alert may take
a multiple of it, and a frozen worker that much longer to go. The assumption
`MaxStretch + BeatEvery <= Threshold` is what `core/config.py:66` asks of whoever
sets the threshold.

### RowLocks

A handler is the set of its paths, a path the sequence of rows it locks, of the
moments it gets on or off the event loop of its process, and of its commits.
`Compatible` is PostgreSQL's: a reference (the key share an insert takes) and an
update go together, two locks do not. A path that leaves its transaction to
`get_db` gets on the loop first, because the loop closes the session.
`InDatabase` is who waits for whom in the database, where a cycle is resolved by
aborting one transaction (`Deadlock`); `Freezes` are the cycles that go through an
event loop, which the database cannot see.

## Runs

Every run lets the system stop (`CHECK_DEADLOCK FALSE`): a model in which every
request has been answered and every bound is used up has nothing left to do.

| Run | Instance | What it shows |
|---|---|---|
| `MCParts` | nine parts, one at a time, see below | `TopupsArePermanent`, `RefillsReplace`, `GrantIsLargestAffordable`, `SharesAddUp`; `OneAccountEach`, `CapUpToRaces`; `StaleIsBounded`; `OneVerdict`, `DuplicatesAreLostAnswers`; `OnlyTheFrozenAreKilled`, `HealthTellsTheTruth`; `FalGetsThePlan`; `DeadlocksAreKnown`, `FreezesAreKnown` |
| `GenBatch` | one request of two outputs, cap 1, price 3, balance 3 + 4, one death; dying API processes, ageing locks, time, reconciling | `Settlement`, `PoolsConserved`, `SettledIsFinal`; `KeepsTheLedger`: every step is a step of `CreditLedger` or moves no money; the counter: `SlotsCovered`, `SlotCap`; the lock: `LockKept` |
| `GenContention` | three single-output requests of one user, one of them planned, cap 1; a failing reservation, a vanished tool, ageing locks, dying API processes | `OneAtATime` until a lock is healed |
| `GenLive` | one planned request with every kind of event | `EveryJobSettles`, `LockIsFreed`, `SlotsHeal`; `Settlement` with refused messages |
| `SubsSwitch` | one owner, a monthly and a yearly plan, two subscriptions, webhooks in order | `CancelledIsNotBilled`, `AgreesWithRazorpay`, `OneBilled`, `CreditsComeFromRefills` |
| `SubsFailures` | two owners at once, paid checkouts replaced and replaced ones paid, Razorpay failing, deaths, lapse and cleanup; webhooks in order | `ActiveWasPaid`, `OneFillPerCharge` |
| `Teams` | two owners and two invitees, cap 3, two requests at a time, two invites, a payment delivered twice and a mispriced one | `MemberCap`, `OneInviteEach`, `PaymentsAddUp`, `PurgedPastGrace` |
| `ClaimHeldUntilTerminal` | a batch of two, no deaths | violated, see below |
| `ClaimSlotsComeBack` | a batch of two, no failures | violated, see below |
| `ClaimAlwaysAnOwner` | two owners, two requests | violated, see below |
| `ClaimPaymentsAddUp` | two payments | violated, see below |
| `ClaimOneFill` | one owner, one subscription, webhooks reordered and delivered twice | violated, see below |

`MCParts` chooses one part at the start and lets the others stand still, so its
states are the sum of theirs, not the product:

| Part | Instance |
|---|---|
| `ledger` | one team with 2 + 3 credits, two batches of up to two at 3 each, a pack of 2, refills of 5, lapses, leftovers moved while no more than 3 were added |
| `accounts` | four requests of three users; two of one user, one with another's address and a throwaway one; a shared IP address; cap 1; outages |
| `midnight` | the first three of them, over two days |
| `catalogue` | a cache of one row (TTL 1) and one of a list (TTL 3), three readers of at most one tick, one edit, outages |
| `fal` | three attempts, one death: up to six requests |
| `health` | the real intervals in ticks of five seconds, alerts of up to four ticks (five seconds for each of httpx's four phases), a stretch as long as the assumption allows, one check that raises |
| `planning` | shoots with two slots and references, listings; five rows of a tool; every class of answer |
| `two` | any two handlers, of two API processes and the worker, two jobs |
| `three` | any three handlers of one API process and the worker that lock one job at most |

Why the bounds are enough: two outputs are the least for which a batch has a
sibling, a charge split over both pools, and (in `ledger`, after a first batch of
one) a partial grant. A cap of one slot makes any two submissions compete; of
three requests of one user one holds the lock, one is refused or heals it, and the
third is who would profit. One death reaches every point at which a process can
die; a second death only repeats the first after a redelivery. `GenLive` has one
output: the product with liveness is the largest TLC finishes in minutes. Two
Razorpay subscriptions are the least for one to replace another. A cap of three
with two owners leaves one seat to fight over. A cycle of row locks needs two
sessions, and one through a loop may need a third that keeps the loop waiting; the
order of sessions (`InOrder`) is a symmetry. In `ledger`, one pack is enough to be
granted late and to overwrite a batch, a refund or a leftover, and two requests are
enough for a refill to fall between the charge of one and its refund; the two, which
differ in nothing, are a symmetry (`Alike`). Times to live of 1 and 3 are on both sides
of the two steps between a read and its store. `FewThings` (in `MCTeams`) bounds
what happens together in a behaviour: two invites; or one, and the deletion or one
payment; or the deletion and two payments or deliveries. The symmetry of `MCTeams`
swaps the invitees, the requests and the deliveries, none of which a property names.
`PaymentsAddUp` in `Teams` is about one creditable payment, reported twice, held
or granted, with spending; with two it fails (`ClaimPaymentsAddUp`). The two
instances of `Subscriptions` are on the two sides of what its theorems assume:
`OneBilled` fails once a paid checkout is replaced or a replaced one is paid, and
`OneFillPerCharge` once webhooks are reordered and repeated (`ClaimOneFill`).

`OneAtATime` needs its scope: batches of one output, until a lock of the user is
healed, jobs within their budget, no dying worker or result handler, no refused
message. `LockKept` is about batches of any size, and any number of them, until something
goes wrong for the user (`Undisturbed`): a job fails, a batch outlives its budget, a worker
or handler dies, a lock is healed. Outside of these the code lets two generations of a user
run, in ways listed under *Observations*. `DeadlocksAreKnown`
and `FreezesAreKnown` do not say that no handlers wait for each other: they list
the pairs that do; TLC finds no other, and `RowLocksProofs` shows that there is none.

### Fairness

`FairSpec` assumes weak fairness of the API's threads and of result handlers (the
database and Redis answer), of the worker's synchronous stretches and of time;
strong fairness of each submission, of the sweep of each job and of reconciling,
because asyncio runs ready callbacks in their order, arq delivers a message again
until it is acknowledged, and a cron job comes again; and that the watchdog kills a frozen
worker. Nothing is assumed of fal: the liveness properties hold if it never
answers. Deaths are never forced.

The other modules have no liveness property. What happens in `Subscriptions` and
`Teams` depends on people and on Razorpay. `WorkerHealth` has none to assume:
there, time waits for what is due, and *in bounded time* is an invariant over ages.
In `RowLocks` a cycle is a property of a state, so that no fairness is needed to
see it; which of them end, and how, is what `Deadlock` and `KillWorker` say.

## Findings

Five statements of the code or its tests which the code does not keep; each is a run
that TLC ends with a counterexample.

* `LockHeldUntilTerminal`: `tests/test_generation.py:1157` says of the lock "held until
  every job in the batch is terminal". A failure has committed its own job when the
  handler counts the siblings (`app/services/generation.py:528`), and the test at `:540`
  is written for a count that includes it: the first failure of a batch of two frees
  the lock.
* `SlotsComeBack`: `app/worker.py:575` says a slot "is only released once this job
  reaches a real terminal state". Each job of a batch takes a slot, the result handler
  returns one for the batch (`app/services/generation.py:540`). Reconciling repairs
  the counter (`SlotsHeal`).
* `AlwaysAnOwner`: `app/services/teams.py:247` says "Cannot remove the last owner".
  Two removals at once each count two owners.
* `PaymentsAddUp`: `app/services/credits.py:10` calls a pack "permanent, never
  expires". The grant is added to the balance read before the row was locked, so
  two payments at once leave one.
* `OneFillPerCharge`: `app/services/webhooks.py:214` says that a replayed activation is
  skipped. It is when the row is active; while Razorpay retries a renewal the row is
  pending (`:421`), so a late replay promotes it again, grants a period nobody paid, and
  forgets which charge it had counted (`:268`).

### Observations

Seen while modelling; no run asserts them.

Generation. The refund is the job's share of the charge, which may be a credit off the
price the usage report shows (`services/generation.py:352`, `services/usage.py:54`). The
lock is deleted unconditionally, so the sweep of an old batch can free a newer batch's
lock. A free late delivery counts as spent (`services/generation.py:435`). Reconciling
misses submissions in flight (`worker.py:793`), and so lets a team exceed its cap until
it has passed: `skewed`. `fail_cleanly` frees the lock while a sibling runs
(`worker.py:407` against `:627`): a batch of two of which one fails to start lets the
next batch in. A lock's TTL can be shorter than the wait for a slot
(`services/generation_lock.py:47`). A failed enqueue fails every job of the batch, also
those the worker already has: one that it has failed is refunded twice, one that it has
submitted is refunded although its result will come (`services/generation.py:386` says
"before the job has ever reached the worker"). `Settlement` states exactly this
exception, and `OneStepLeavesTheLedger` shows that there is no other. Healing can delete
the lock of a request that is still planning (`services/generation.py:274`), and two
healers can undo one another's lock. The sweep fails what waits for a slot ten minutes
after its creation (`worker.py:756`), although `worker.py:443` speaks of a deadline that
is twenty minutes (`:361`).

Requests to fal. `core/fal_client.py` speaks of "at most one extra generation": three
attempts can lose three answers, and a redelivered message starts again.

Planned tools. A shoot that asks for nine to twenty outputs pays for its uploads and the
vision call before it is refused (only listings are checked, `routes/generation.py:295`). Uploads are validated slot by slot,
not all of them before the first is sent (`routes/generation.py:50`). `default_output_count`
is read from a hand-edited row again at the submission, so an edit to a value out of
range fails jobs that were planned before it.

Subscriptions. A switch decides on a row read without a lock (`services/billing.py:235`).
A paid checkout that is replaced before it is activated is billed and not served
(`services/webhooks.py:286`). A replayed activation of a cancelled subscription takes
over the row of the next checkout (`services/webhooks.py:276`). The cleanup deletes
without looking again (`worker.py:295`). A late `charged` after `halted` makes the row
active, and the cron refills it (`services/webhooks.py:358`). The lapse can wipe fresh
credits (`worker.py:199`). A crash between the commit of a checkout and the drop of what
it replaced leaves two subscriptions billed.

Teams. A cancel overwrites an acceptance, and the cancelled invitee is a member
(`services/team_invites.py:190`); members and pending invites together may then exceed
the cap, though members alone never do. A stale acceptance can bring back a removed
member. An owner who accepts an editor invite is an editor (`services/team_invites.py:242`).
A team restored just before the boundary may be purged (`services/teams.py:365`; the event
`straddle`, in no run). A payment for a purged team is answered as a duplicate.

Accounts. The comment at `services/users.py:75` says that a caller without an address
still gets the bonus; the code below it gives none. Whoever logs in first with an address
has it: another uid with the same address is refused from then on. If Redis fails after
the commit, the request ends in an error, the account and its bonus stay, and the bonus
is counted only in part or not at all. *n* sign-ups at once may exceed the cap by *n* - 1.

Caches. `services/tool_definitions.py:13` says that a clear "gives an immediate way to
force a refresh": a request that read before the edit may store after the clear, and the
old row is shown for another time to live.

Watchdog. The threshold has to exceed the longest legitimate stretch
(`core/config.py:66`), but the job that sends renewal notices has no longest one: it
sends all of them without an `await` (`worker.py:252`), so a slow mail server can get a
working worker killed. The health key lives one second longer than its interval, so a
single 30-second call may be enough for `GET /health/worker` to answer 503, which the
comment at `worker.py:894` rules out.

Row locks. Every handler locks jobs and subscriptions before their team, but a failed
enqueue locks the team first; payments and activations hold a reference to the team when
they want it for themselves. A submission keeps its job locked over an `await`
(`worker.py:391`), so that the sweep freezes the worker. The API freezes in the same way:
a refused invite, a failed or returned checkout and a failed cancel keep their lock until
the event loop closes the session, and a webhook or `POST /generate` of the same process
may be waiting for it on that loop (`routes/webhooks.py:33`); no watchdog ends an API
process.

## Proofs

Every theorem is about all values of the constants that satisfy the module's named
assumptions. Some need more; what they add is written in their `ASSUME`, and is where
the code lets the property fail otherwise.

`CreditsProofs`: for all balances, prices and requests, a grant is affordable
(`GrantIsAffordable`), takes no more than each pool has and the subscription pool
first (`TakenWithinPools`), and splits into shares near the price (`SharesNearThePrice`).
It also has the sums of the other modules: what a sum over a finite set is when a member
is added, removed or changed (`SumAdd`, `SumRemove`, `SumChange`), and that a batch's shares
add up to what it took (`SharesAreAdded`). The induction behind them is on the sets
(`SubsetInduction`), with a set where the library's theorems want a predicate.

`GenerationProofs`: `TypeCorrect` (`TypeOK`; in particular no balance is ever negative),
`ChargesSettleOnce` (`Settlement`) and `SettlementsAreFinal` (`SettledIsFinal`).
`Settlement` is not inductive: that a row is failed once rests on who may hold it. The
invariant is

    IInv == TypeOK /\ BatchShape /\ RowsInHand /\ Errors /\ Settlement

where `BatchShape` says that a batch's rows are an initial segment and that the loops
of the route stand on one of them, `RowsInHand` that a row somebody has locked is
active (and queued, for a submission), and `Errors` that an enqueue failure is behind
the failure loop, so that it refunds a job once. On top of it:

| Theorem | Property | What the invariant adds | What it assumes besides |
|---|---|---|---|
| `LedgerIsKept` | `KeepsTheLedger` | `NoneRefused` | no refused message (one can refund twice) |
| `CreditsAreConserved` | `PoolsConserved` | `FreshCharges`: a job is charged when it is inserted, not before | nothing |
| `SlotsAreCovered` | `SlotsCovered` | `SlotsInHand`: who gives a slot back comes after the commit that settled the row, and is alone | nothing |
| `SlotsAreCapped` | `SlotCap` | `ClaimsCapped`: the cap for the jobs that will be at fal unless their handler dies | nothing |
| `LocksAreKept` | `LockKept` | `ErrorsExplained`, `TimeoutsAreLate`: every release has a failure, a time-out or a last job to show; `RestIsFresh`: while a batch is enqueued, its next job is active | nothing |
| `GenerationsTakeTurns` | `OneAtATime` | `InBudget`, `EnqueuedFirst`, `HeldByTheRightOne`: who is about to release the lock holds it | batches of one, no death of a worker or handler, no refused message, no time-out |

`LedgerIsKept` is the refinement: each step of the pipeline is a step of `CreditLedger`
under the mapping of `Generation`, or leaves it alone. Where messages are refused, too,
`OneStepLeavesTheLedger` says that there is one exception and no other: `fail_and_release`
at a job that is settled already. `BatchesTakeTurns` draws the conclusion of `LockKept` that two
requests of a user are never in progress together, for batches of any size, until something
goes wrong for the user. `GenerationsTakeTurns` is about what happens after failures, and has
no weaker assumptions: a failure in a larger batch frees the lock under its siblings, a
second request of a user can take a lock for an orphan that has come to life since, and a
time-out can free the lock of the user's next batch.

`SubscriptionsProofs`: `CreditsHaveASource` (`CreditsComeFromRefills`) holds in every
instance, from `Types`. The other six each need that something does not happen:

| Theorem | Property | What the invariant adds | What it assumes |
|---|---|---|---|
| `RowIsTyped` | `TypeOK` | `PlanIsKept`, `SessionsAreFresh` | `Careful` |
| `RowWasPaid` | `ActiveWasPaid` | `PaidFor` | `Careful` |
| `RefillsArePaid` | `OneFillPerCharge` | `FillsArePaid` | webhooks of a subscription in order and once (`InOrder`) |
| `CancelledRowIsNotBilled` | `CancelledIsNotBilled` | `EndsAreReal` | `Careful`, calls to Razorpay succeed |
| `TeamIsBilledForItsRow` | `OneBilled` | `RowFollows`, `DropsReplaced` | `Careful`, `Orderly` |
| `RowStandsWhereRazorpayDoes` | `AgreesWithRazorpay` | the same | `Careful`, `Orderly` |

`Careful` asks nothing of a team that never switches plans. Where one does, it asks for one
owner at a time, no process that dies in a call, and `Orderly`: a switch writes the row from
a session that may be stale, and puts back what a webhook has changed since. `Orderly` is
what `AgreesWithRazorpay` cannot do without: webhooks in order and once, calls that succeed,
nothing paid that was replaced nor replaced that was paid, no cleanup. `RowFollows` says what
is still to come of the row's subscription: nothing, and the row shows its state; or
webhooks, and the last of them tells of its state (`Settles`).

`TeamsProofs`: `TypeCorrect` (`TypeOK`, with *no row outlives its team*), `CapIsKept`
(`MemberCap`), `PurgesAreFinal` (`PurgedPastGrace`, if no restore straddles the end of the
grace period), `InvitesAreSingle` (`OneInviteEach`) and `PaymentsAreKept` (`PaymentsAddUp`,
for one payment at the right price; with two it is false). The cap is not inductive because
applying a role writes a member without counting: `RowsRead` says that the row it has read
is still there. The purge does not look again, and is right because nothing is left by then
that could bring the team back (`GraceIsFinal`). An invite is created on a look-up that may
be old, and is right as long as the address has not cooled since (`LookedUpRightly`). A
payment writes a balance it read without the lock, and is right as long as nothing was
credited since (`SeenBeforeCredits`).

`ApiProofs`, for any finite set of racing requests, any addresses, counters and caches, with
outages. `FirstRequestsAreSafe` (`OneAccountEach`): the step that matters is the commit,
which no longer looks; `InsertedAlone` says that a request whose insert went through is alone
with its uid and address. `BonusesAreCapped` (`CapUpToRaces`): what a counter shows is counted
together with what it may come to show (`Passed`); only a reading adds to that, and one below
the cap overlooks no more than the requests between reading and counting at that moment
(`CapIsNear`). `AnswersAreFresh` (`StaleIsBounded`) adds the ages of what a request has in
its hands (`ReadLately`) and of what a cache keeps (`KeptFresh`).

Also in `ApiProofs`, for any teams, requests, prices, packs and refills: `LedgerIsTyped`,
`SharesAreComplete` (`SharesAddUp`) and `GrantsAreLargest` (`GrantIsLargestAffordable`) follow
from the types: the balances stay natural numbers because a batch takes no more than there
is. `TopupsStay` (`TopupsArePermanent`) is about teams none of whose packs was granted on a
balance that was out of date; for the others it is false, as `ClaimPaymentsAddUp` shows.
`RefillsDoReplace` (`RefillsReplace`) has no such condition. It is inductive together with
`HeldWereCharged`: the jobs that held a charge at the last refill were charged before it, so
their charges never change (`ChargesAreFinal`), and a job charged later is not among them.

And for any form, row of the tool, limit and answer of the vision model: `PlansReachFal`
(`FalGetsThePlan`), from

    PlanInv == PlanTypes /\ ImagesFit /\ PlanComplete /\ JobsFollowThePlan /\ LockIsForPlanning

Three computations have to agree, as they do in the code: the number of images the route
checks before it uploads them (`ImageCount`), the order in which the planner numbers them
(`Labelled`), and the order in which the worker sends them (`ImagesSent`: the model's picture,
the garments one group after the other, the references). They are recursive functions, and
in TLA+ such a function is a `CHOOSE`, of which nothing is known before it is shown that
there is a solution: `RecursionHasASolution` does so for any recursion over `0 .. n`, by
induction on `n`, with a set of numbers where the library's theorems want a predicate. Then
`SentInOrder` and `NumberOfImages` compare them by induction on the groups and the slots.
`ImagesFit` is the check of the row that was read first, and survives its
edits because no later step looks at it again; `PlanComplete` holds of a plan with too few
answers, too, which the code completes. What the constants are assumed to be
(`PlanningAssumption`) is the shape of a form, a row and an answer, and that a listing has no
references.

`WorkerProofs`: `OneRequestDecides` (`OneVerdict`) and `DuplicatesAreAccountedFor`
(`DuplicatesAreLostAnswers`), for any number of attempts and deaths: each request but the one
in hand was lost or died with its run (`Accounted`, a count on finite sets).
`TheWatchdogIsRight` (`OnlyTheFrozenAreKilled`) and `TheKeyIsRight` (`HealthTellsTheTruth`),
for all intervals that satisfy `HealthAssumption`: a loop that is not hung has beaten within a
stretch and an interval (`BeatsAreRecent`), a hung one is found in time (`HungIsFound`).

`RowLocksProofs`, for any number of sessions, API processes and jobs:
`DeadlocksAreOfThreeKinds` (`DeadlocksAreKnown`) and `FreezesAreOfTwoKinds`
(`FreezesAreKnown`). `InLockOrder` says of what is left of a path that it takes no row while
it has a later one, but for the three kinds; `ApiVisits` and `WorkerVisits` say when it gets
on its loop. They are shown of every path of every handler, from the order in which its
pieces are joined, and survive each step. A circle of waiting sessions is then followed for
at most three edges, and its being a smallest one rules out the rest.

`PartsProofs`: `PartsStandAlone` says that `MCParts`, which runs one part at a time, implements
the specification of each (but for the row locks, which it may also start with a session that
is over, and for which `RowLocksInParts` shows their invariant instead). So what is proved of a
part holds in `MCParts` for all values of the constants, and `PartsAreTyped` (`TypesOK`) puts
the types of the seven together.

Every invariant and action property of the runs that pass is now a theorem, some of them under the
assumptions in the tables. Only model-checked:

* The liveness properties (`EveryJobSettles`, `LockIsFreed`, `SlotsHeal`): fairness is
  stated with `ENABLED`, which is out of their reach.
* What lies beyond the assumptions in the tables. Much of it is false (the runs that end
  with a counterexample, and the observations above); the rest is open.

## Plan

1. Done: credits and ledger, generation, subscriptions, teams, first logins, requests to
   fal, planned tools, caches, the watchdog, row locks, and the proofs above.
2. Next proofs: that the composition of `Subscriptions` and `Teams` with the ledger conserves
   its credits; `CapIsKept` for members and pending invites together, under the order of
   cancels and acceptances in which it holds.
3. Possible models: the renewal notices; a lock that only its owner deletes, as a proposal
   under which `OneAtATime` should hold without its scope.

## Not modelled

Usage reports, homepage content and scripts read only. Signatures of webhooks,
authentication, sign-in links, email, storage and Firebase are calls without state here:
the models take authentic input. Prompts and price tables are data, and enter
as a constant price and a possible failure. Connection pools, the rate limiter,
configuration, schemas and routes without logic are left to their libraries. Of what is
modelled, these parts are left out: the contents of renewal notices (their cron job is in
`RowLocks`), the overdue-queue signal of the health route, the log of sign-up bonuses, and
the retries of status checks, downloads and uploads, which repeat what changes nothing
here. Database and Redis outages inside cleanup code are not modelled; a failing step
elsewhere is.

-------------------------- MODULE GenerationProofs --------------------------
(***************************************************************************)
(* Theorems about Generation for every set of users, teams and requests,   *)
(* every price, limit and opening balance: the type invariant, the         *)
(* settlement of every charge and its finality, the refinement of          *)
(* CreditLedger, the conservation of credits, the slot counter and the cap *)
(* it stands for, and the per-user lock.                                   *)
(*                                                                         *)
(* None of them is inductive.  That no job is refunded twice rests on who  *)
(* may hold a row (RowsInHand), on errors being written only when a job is *)
(* settled and on the failure loop of the route visiting each job once     *)
(* (Errors), and on that loop walking over the jobs of the batch and over  *)
(* nothing else (BatchShape).  That the counter covers the slots in use    *)
(* rests on each slot having one party that gives it back (SlotsInHand),   *)
(* and the cap on a form that survives a handler's death (ClaimsCapped).   *)
(* That a lock is released by its holder rests on every release having a   *)
(* failure, a time-out or a last job to show for it (ErrorsExplained,      *)
(* TimeoutsAreLate, RestIsFresh; EnqueuedFirst, HeldByTheRightOne).  That  *)
(* credits are conserved rests on a job being charged when it is inserted, *)
(* and not before (FreshCharges), and on the sums of CreditsProofs.        *)
(***************************************************************************)
EXTENDS Generation, CreditsProofs, FiniteSetTheorems

\* Where a request has not created its batch yet.
Before == {"new", "checking", "suspecting", "healing", "reacquiring", "planning", "creating"}

\* Where its enqueue loop or its failure loop is at job next[r].
InLoop == {"enqueueing", "failing", "releasing"}

\* Where a result handler holds its job's row lock.
HoldsRow == {"stored", "unusable", "giveSlot", "commit"}

\* A batch is an initial segment of its request's jobs, inserted by one
\* step; the loops of the route only ever stand at one of its jobs.
BatchShape ==
    /\ \A r \in Requests : \E n \in 0 .. MaxOutputs : Created(r) = {r} \X (1 .. n)
    /\ \A r \in Requests : api[r] \in Before => Created(r) = {} /\ next[r] = 1
    /\ \A r \in Requests : api[r] \in InLoop => status[<<r, next[r]>>] # "none"

\* A row lock is held by one party, on a row that is still active, and a
\* suspended submission's row is queued.
RowsInHand ==
    \A j \in Jobs :
        /\ submit[j] # "none" => status[j] = "queued" /\ handler[j] \notin HoldsRow
        /\ handler[j] \in HoldsRow => Active(j)

\* The failure loop of a request has done with its i-th job.
Passed(r, i) ==
    \/ api[r] \in {"finished", "dead"}
    \/ api[r] = "failing" /\ i < next[r]
    \/ api[r] = "releasing" /\ i <= next[r]

\* Only settled jobs have an error, and only jobs that the failure loop of
\* their request has passed have its error.
Errors ==
    /\ \A j \in Jobs : Active(j) \/ status[j] = "none" => error[j] = "none"
    /\ \A r \in Requests, i \in 1 .. MaxOutputs :
         error[<<r, i>>] = "enqueue" => Passed(r, i)

\* The inductive invariant.  Settlement alone is not inductive: that a row is
\* failed once needs that whoever holds it holds an active one (RowsInHand),
\* and that the failure loop comes to each job once (Errors, BatchShape).
IInv == TypeOK /\ BatchShape /\ RowsInHand /\ Errors /\ Settlement
-----------------------------------------------------------------------------
\* Finitely many requests have finitely many jobs.
LEMMA JobsAreFinite == IsFiniteSet(Jobs)
<1>1. IsFiniteSet(1 .. MaxOutputs)
    BY GenerationAssumption, FS_Interval
<1> QED
    BY <1>1, GenerationAssumption, FS_Product DEF Jobs

\* Every output position of every request is a job.
LEMMA PairsAreJobs == \A r \in Requests, i \in 1 .. MaxOutputs : <<r, i>> \in Jobs
BY DEF Jobs

\* A batch of n jobs, numbered from 1, has n elements (IsLast counts them).
LEMMA SegmentCardinality ==
    ASSUME NEW r, NEW n \in Nat
    PROVE  Cardinality({r} \X (1 .. n)) = n
<1>1. IsFiniteSet({r}) /\ Cardinality({r}) = 1
    BY FS_Singleton
<1>2. IsFiniteSet(1 .. n) /\ Cardinality(1 .. n) = n
    BY FS_Interval
<1>3. Cardinality({r} \X (1 .. n)) = Cardinality({r}) * Cardinality(1 .. n)
    BY <1>1, <1>2, FS_Product
<1> QED
    BY <1>1, <1>2, <1>3

\* The rows change in these steps only; every other step leaves them alone.
RowStep ==
    \/ \E r \in Requests : CreateBatch(r) \/ FailAndRelease(r)
    \/ \E j \in Jobs : \/ CommitSuccess(j) \/ CommitFailure(j) \/ LateDelivery(j)
                       \/ StartFails(j) \/ DeferFails(j) \/ SubmitSucceeds(j)
                       \/ SubmitFails(j) \/ TimeOut(j) \/ Sweep(j)

\* What is none of these leaves every row as it is.
LEMMA RowsChangeInRowSteps ==
    ASSUME [Next]_vars, ~RowStep
    PROVE  UNCHANGED rows
<1>1. CASE UNCHANGED vars
    BY <1>1 DEF vars
<1>2. ASSUME NEW r \in Requests, ApiStep(r) \/ ApiDies(r) \/ Ages(r)
      PROVE  UNCHANGED rows
    BY <1>2 DEF RowStep, ApiStep, ApiDies, Ages, AcquireLock, ReadLockAge, LookForJobs, HealLock,
                ReacquireLock, Plan, CreateFails, Enqueue, EnqueueFails,
                ReleaseAfterFailure
<1>3. ASSUME NEW j \in Jobs, HandlerStep(j) \/ LateDelivery(j) \/ HandlerDies(j)
      PROVE  UNCHANGED rows
    BY <1>3 DEF RowStep, HandlerStep, HandlerDies, HandleResult, ReleaseBeforeCommit,
                GiveSlotBeforeCommit, ReleaseAfterCommit, GiveSlotAfterCommit
<1>4. ASSUME NEW j \in Jobs, \/ SubmitStep(j) \/ TimeOut(j) \/ Sweep(j)
                             \/ SweepBlocks(j) \/ FalAccepts(j) \/ FalFinishes(j)
      PROVE  UNCHANGED rows
    BY <1>4 DEF RowStep, SubmitStep, DropMessage, ReserveSlot, WaitForSlot, Defer,
                SweepBlocks, FalAccepts, FalFinishes
<1>5. ASSUME NEW u \in Users, LockAges(u) \/ LockExpires(u)
      PROVE  UNCHANGED rows
    BY <1>5 DEF LockAges, LockExpires
<1>6. CASE LoopStep \/ CountSlots \/ WorkerDies
    BY <1>6 DEF LoopStep, CountSlots, WorkerDies, UnlockAfterFailure,
                GiveSlotAfterFailure, UnlockAfterStale, SetCounters
<1> QED
    BY <1>1, <1>2, <1>3, <1>4, <1>5, <1>6 DEF Next
-----------------------------------------------------------------------------
\* A batch that is created charges no more than the team has and gives
\* every job a share of it.
LEMMA BatchIsPaid ==
    ASSUME TypeOK, NEW r \in Requests, CreateBatch(r)
    PROVE  \E n \in 1 .. MaxOutputs :
             /\ status' = [j \in Jobs |-> IF j \in {r} \X (1 .. n) THEN "queued"
                                                                 ELSE status[j]]
             /\ pool' \in [Teams -> Pool]
             /\ charge' \in [Jobs -> Pool]
<1> DEFINE t == TeamOf[r]
           n(w) == Granted(pool[t], Cost, w)
           c(w) == Taken(pool[t], Cost * n(w))
<1>1. PICK w \in 1 .. MaxOutputs :
         /\ n(w) >= 1
         /\ pool' = [pool EXCEPT ![t] = Minus(@, c(w))]
         /\ status' = [j \in Jobs |-> IF j \in {r} \X (1 .. n(w)) THEN "queued"
                                                                ELSE status[j]]
         /\ charge' = [j \in Jobs |-> IF j \in {r} \X (1 .. n(w))
                                      THEN Share(c(w), n(w), j[2]) ELSE charge[j]]
    BY DEF CreateBatch
<1>2. t \in Teams /\ pool[t] \in Pool /\ Cost \in Nat /\ w \in Nat /\ MaxOutputs \in Nat
    BY GenerationAssumption DEF TypeOK
<1>3. n(w) \in 0 .. w /\ Cost * n(w) \in 0 .. Total(pool[t])
    BY <1>2, GrantIsAffordable
<1>4. c(w) \in Pool /\ Minus(pool[t], c(w)) \in Pool
    BY <1>2, <1>3, TakenWithinPools
<1> HIDE DEF n, c
<1>5. n(w) \in 1 .. MaxOutputs
    BY <1>1, <1>2, <1>3
<1>6. ASSUME NEW j \in Jobs, j \in {r} \X (1 .. n(w))
      PROVE  Share(c(w), n(w), j[2]) \in Pool
    <2>1. j[2] \in Nat /\ n(w) \in Nat /\ n(w) > 0
        BY <1>5, <1>6
    <2> QED
        BY <1>4, <2>1, ShareInPool
<1>7. charge' \in [Jobs -> Pool]
    BY <1>1, <1>6 DEF TypeOK
<1>8. pool' \in [Teams -> Pool]
    BY <1>1, <1>2, <1>4 DEF TypeOK
<1> QED
    BY <1>1, <1>5, <1>7, <1>8

\* Every job has a user and a team.
LEMMA OwnersOfJobs ==
    ASSUME NEW j \in Jobs
    PROVE  User(j) \in Users /\ Team(j) \in Teams
BY GenerationAssumption DEF User, Team, Jobs

\* Setting or deleting a lock leaves every user with at most one holder.
LEMMA LockType ==
    ASSUME TypeOK, NEW u,
           DelLock(u) \/ UNCHANGED locks \/ \E r \in Requests : UserOf[r] = u /\ SetLock(r)
    PROVE  /\ lock' \in [Users -> Requests \union {Nobody}]
           /\ lockOld' \in [Users -> BOOLEAN]
<1>1. lock' \in [Users -> Requests \union {Nobody}]
    BY DEF TypeOK, DelLock, SetLock, locks
<1>2. lockOld' = [lockOld EXCEPT ![u] = FALSE] \/ lockOld' = lockOld
    BY DEF DelLock, SetLock, locks
<1>3. lockOld' \in [Users -> BOOLEAN]
    BY <1>2, Zenon DEF TypeOK
<1> QED
    BY <1>1, <1>3

\* A released slot leaves an integer in the counter, which has no floor.
LEMMA SlotType ==
    ASSUME TypeOK, NEW t, GiveSlot(t)
    PROVE  inflight' \in [Teams -> Int]
<1>1. t \in Teams => inflight[t] - 1 \in Int
    BY DEF TypeOK
<1> QED
    BY <1>1 DEF TypeOK, GiveSlot

\* Failing a job keeps the rows typed, whatever the reason.
LEMMA FailRowType ==
    ASSUME TypeOK, NEW j \in Jobs,
           NEW why \in {"enqueue", "fal", "start", "timeout"}, FailRow(j, why)
    PROVE  /\ status' \in [Jobs -> {"none", "queued", "processing", "completed", "failed"}]
           /\ error' \in [Jobs -> {"none", "enqueue", "fal", "start", "timeout"}]
           /\ charge' \in [Jobs -> Pool]
           /\ pool' \in [Teams -> Pool]
           /\ refunds' \in [Jobs -> Nat]
<1>1. Team(j) \in Teams /\ pool[Team(j)] \in Pool /\ charge[j] \in Pool
    BY GenerationAssumption DEF TypeOK, Team, Jobs
<1>2. Plus(pool[Team(j)], charge[j]) \in Pool
    BY <1>1, PlusInPool
<1>3. refunds[j] + 1 \in Nat
    BY DEF TypeOK
<1> QED
    BY <1>2, <1>3 DEF TypeOK, FailRow

\* The job a loop of the route stands at exists.
LEMMA LoopJob ==
    ASSUME TypeOK, NEW r \in Requests
    PROVE  <<r, next[r]>> \in Jobs
BY DEF TypeOK, Jobs

\* The loops end at the last job of their batch.
LEMMA LoopStaysInBatch ==
    ASSUME TypeOK, BatchShape, NEW r \in Requests, api[r] \in InLoop, ~IsLast(r)
    PROVE  /\ next[r] + 1 \in 1 .. MaxOutputs
           /\ status[<<r, next[r] + 1>>] # "none"
<1>1. PICK n \in 0 .. MaxOutputs : Created(r) = {r} \X (1 .. n)
    BY DEF BatchShape
<1>2. n \in Nat /\ MaxOutputs \in Nat
    BY GenerationAssumption
<1>3. Cardinality(Created(r)) = n
    BY <1>1, <1>2, SegmentCardinality
<1>4. <<r, next[r]>> \in Created(r)
    BY LoopJob DEF BatchShape, Created, Batch, Jobs
<1>5. next[r] \in 1 .. n /\ next[r] # n
    BY <1>1, <1>3, <1>4 DEF IsLast
<1>6. <<r, next[r] + 1>> \in Created(r)
    BY <1>1, <1>2, <1>5
<1> QED
    BY <1>2, <1>5, <1>6 DEF Created
-----------------------------------------------------------------------------
\* Every step keeps the types; only CreateBatch needs more than the types,
\* that what it charges is within the pools (BatchIsPaid).
LEMMA TypeStep ==
    ASSUME IInv, [Next]_vars
    PROVE  TypeOK'
<1> USE DEF IInv
<1>1. CASE UNCHANGED vars
    BY <1>1 DEF TypeOK, vars, rows, locks, slotVars, requestVars, workerVars, worldVars
<1>2. ASSUME NEW r \in Requests, ApiStep(r) \/ ApiDies(r) \/ Ages(r)
      PROVE  TypeOK'
    <2> USE DEF TypeOK, rows, locks, slotVars, requestVars, workerVars, worldVars, ApiAt
    <2>0. UserOf[r] \in Users
        BY GenerationAssumption
    <2>1. CASE AcquireLock(r)
        <3>1. /\ lock' \in [Users -> Requests \union {Nobody}]
              /\ lockOld' \in [Users -> BOOLEAN]
            BY <2>0, <2>1, LockType DEF AcquireLock
        <3> QED
            BY <2>0, <2>1, <3>1 DEF AcquireLock, LockGranted
    <2>2. CASE ReadLockAge(r) \/ LookForJobs(r)
        BY <2>2 DEF ReadLockAge, LookForJobs
    <2>3. CASE HealLock(r)
        <3>1. /\ lock' \in [Users -> Requests \union {Nobody}]
              /\ lockOld' \in [Users -> BOOLEAN]
            BY <2>0, <2>3, LockType DEF HealLock
        <3> QED
            BY <2>0, <2>3, <3>1 DEF HealLock
    <2>4. CASE ReacquireLock(r)
        <3>1. /\ lock' \in [Users -> Requests \union {Nobody}]
              /\ lockOld' \in [Users -> BOOLEAN]
            BY <2>0, <2>4, LockType DEF ReacquireLock
        <3> QED
            BY <2>0, <2>4, <3>1 DEF ReacquireLock, LockGranted
    <2>5. CASE Plan(r)
        <3>1. /\ lock' \in [Users -> Requests \union {Nobody}]
              /\ lockOld' \in [Users -> BOOLEAN]
            BY <2>0, <2>5, LockType DEF Plan
        <3> QED
            BY <2>0, <2>5, <3>1 DEF Plan
    <2>6. CASE CreateBatch(r)
        <3>1. PICK n \in 1 .. MaxOutputs :
                /\ status' = [j \in Jobs |-> IF j \in {r} \X (1 .. n) THEN "queued"
                                                                    ELSE status[j]]
                /\ pool' \in [Teams -> Pool]
                /\ charge' \in [Jobs -> Pool]
            BY <2>6, BatchIsPaid
        <3>2. /\ api' = [api EXCEPT ![r] = "enqueueing"]
              /\ healed' \subseteq Users
              /\ lockOld' = [lockOld EXCEPT ![UserOf[r]] = FALSE]
              /\ UNCHANGED <<error, refunds, lock, slotVars, next, workerVars,
                             handler, worldVars>>
            BY <2>0, <2>6 DEF CreateBatch
        <3> QED
            BY <3>1, <3>2
    <2>7. CASE CreateFails(r)
        <3>1. /\ lock' \in [Users -> Requests \union {Nobody}]
              /\ lockOld' \in [Users -> BOOLEAN]
            BY <2>0, <2>7, LockType DEF CreateFails
        <3> QED
            BY <2>0, <2>7, <3>1 DEF CreateFails
    <2>8. CASE Enqueue(r)
        <3>1. next' \in [Requests -> 1 .. MaxOutputs]
            <4>1. IsLast(r) \/ next[r] + 1 \in 1 .. MaxOutputs
                BY <2>8, LoopStaysInBatch DEF Enqueue, InLoop
            <4>2. 1 \in 1 .. MaxOutputs
                BY GenerationAssumption
            <4> QED
                BY <2>8, <4>1, <4>2 DEF Enqueue
        <3>2. arq' \subseteq Jobs
            BY <2>8, LoopJob DEF Enqueue
        <3> QED
            BY <2>8, <3>1, <3>2 DEF Enqueue
    <2>9. CASE EnqueueFails(r)
        BY <2>9, LoopJob, GenerationAssumption DEF EnqueueFails
    <2>10. CASE FailAndRelease(r)
        BY <2>10, LoopJob, FailRowType DEF FailAndRelease
    <2>11. CASE ReleaseAfterFailure(r)
        <3>1. next' \in [Requests -> 1 .. MaxOutputs]
            <4>1. IsLast(r) \/ next[r] + 1 \in 1 .. MaxOutputs
                BY <2>11, LoopStaysInBatch DEF ReleaseAfterFailure, InLoop
            <4>2. 1 \in 1 .. MaxOutputs
                BY GenerationAssumption
            <4> QED
                BY <2>11, <4>1, <4>2 DEF ReleaseAfterFailure
        <3> QED
            BY <2>0, <2>11, <3>1, LockType DEF ReleaseAfterFailure
    <2>12. CASE ApiDies(r)
        BY <2>12 DEF ApiDies
    <2>13. CASE Ages(r)
        BY <2>13 DEF Ages
    <2> QED
        BY <1>2, <2>1, <2>2, <2>3, <2>4, <2>5, <2>6, <2>7, <2>8, <2>9, <2>10,
           <2>11, <2>12, <2>13 DEF ApiStep
<1>3. ASSUME NEW j \in Jobs, HandlerStep(j) \/ LateDelivery(j) \/ HandlerDies(j)
      PROVE  TypeOK'
    <2> USE DEF TypeOK, rows, locks, slotVars, requestVars, workerVars, worldVars
    <2>1. CASE HandleResult(j)
        BY <2>1 DEF HandleResult
    <2>2. CASE ReleaseBeforeCommit(j)
        <3>1. /\ lock' \in [Users -> Requests \union {Nobody}]
              /\ lockOld' \in [Users -> BOOLEAN]
            BY <2>2, LockType DEF ReleaseBeforeCommit
        <3> QED
            BY <2>2, <3>1 DEF ReleaseBeforeCommit
    <2>3. CASE GiveSlotBeforeCommit(j)
        <3>1. inflight' \in [Teams -> Int]
            BY <2>3, SlotType DEF GiveSlotBeforeCommit
        <3> QED
            BY <2>3, <3>1 DEF GiveSlotBeforeCommit
    <2>4. CASE CommitSuccess(j)
        BY <2>4 DEF CommitSuccess
    <2>5. CASE CommitFailure(j)
        BY <2>5, FailRowType DEF CommitFailure
    <2>6. CASE ReleaseAfterCommit(j)
        <3>1. /\ lock' \in [Users -> Requests \union {Nobody}]
              /\ lockOld' \in [Users -> BOOLEAN]
            BY <2>6, LockType DEF ReleaseAfterCommit
        <3> QED
            BY <2>6, <3>1 DEF ReleaseAfterCommit
    <2>7. CASE GiveSlotAfterCommit(j)
        <3>1. inflight' \in [Teams -> Int]
            BY <2>7, SlotType DEF GiveSlotAfterCommit
        <3> QED
            BY <2>7, <3>1 DEF GiveSlotAfterCommit
    <2>8. CASE LateDelivery(j)
        BY <2>8 DEF LateDelivery
    <2>9. CASE HandlerDies(j)
        <3>1. skewed' \in [Teams -> BOOLEAN]
            <4>1. skewed' = [skewed EXCEPT ![Team(j)] = @ \/ handler[j] = "commit"]
                BY <2>9 DEF HandlerDies
            <4> QED
                BY <4>1, Zenon
        <3>2. deaths' \in 0 .. MaxDeaths
            BY <2>9, GenerationAssumption DEF HandlerDies
        <3> QED
            BY <2>9, <3>1, <3>2 DEF HandlerDies
    <2> QED
        BY <1>3, <2>1, <2>2, <2>3, <2>4, <2>5, <2>6, <2>7, <2>8, <2>9 DEF HandlerStep
<1>4. ASSUME NEW j \in Jobs, \/ SubmitStep(j) \/ TimeOut(j) \/ Sweep(j)
                             \/ SweepBlocks(j) \/ FalAccepts(j) \/ FalFinishes(j)
      PROVE  TypeOK'
    <2> USE DEF TypeOK, rows, locks, slotVars, requestVars, workerVars, worldVars, LoopAt
    <2>1. CASE DropMessage(j)
        BY <2>1 DEF DropMessage
    <2>2. CASE ReserveSlot(j)
        <3>1. inflight[Team(j)] + 1 \in Int
            BY OwnersOfJobs
        <3> QED
            BY <2>2, <3>1 DEF ReserveSlot
    <2>3. CASE WaitForSlot(j)
        BY <2>3 DEF WaitForSlot
    <2>4. CASE StartFails(j)
        BY <2>4, FailRowType DEF StartFails, FailCleanly
    <2>5. CASE Defer(j)
        BY <2>5 DEF Defer
    <2>6. CASE DeferFails(j)
        BY <2>6, FailRowType DEF DeferFails, FailCleanly
    <2>7. CASE SubmitSucceeds(j)
        BY <2>7 DEF SubmitSucceeds
    <2>8. CASE SubmitFails(j)
        BY <2>8, FailRowType DEF SubmitFails, FailCleanly
    <2>9. CASE TimeOut(j) \/ Sweep(j)
        <3>1. FailStale(j)
            BY <2>9 DEF TimeOut, Sweep
        <3> QED
            BY <3>1, FailRowType DEF FailStale
    <2>10. CASE SweepBlocks(j)
        BY <2>10 DEF SweepBlocks
    <2>11. CASE FalAccepts(j)
        BY <2>11 DEF FalAccepts
    <2>12. CASE FalFinishes(j)
        BY <2>12 DEF FalFinishes
    <2> QED
        BY <1>4, <2>1, <2>2, <2>3, <2>4, <2>5, <2>6, <2>7, <2>8, <2>9, <2>10,
           <2>11, <2>12 DEF SubmitStep
<1>5. ASSUME NEW u \in Users, LockAges(u) \/ LockExpires(u)
      PROVE  TypeOK'
    <2> USE DEF TypeOK, rows, locks, slotVars, requestVars, workerVars, worldVars
    <2>1. CASE LockAges(u)
        <3>1. lockOld' = [lockOld EXCEPT ![u] = TRUE]
            BY <2>1 DEF LockAges
        <3>2. lockOld' \in [Users -> BOOLEAN]
            BY <3>1, Zenon
        <3> QED
            BY <2>1, <3>2 DEF LockAges
    <2>2. CASE LockExpires(u)
        <3>1. /\ lock' \in [Users -> Requests \union {Nobody}]
              /\ lockOld' \in [Users -> BOOLEAN]
            BY <2>2, LockType DEF LockExpires
        <3> QED
            BY <2>2, <3>1 DEF LockExpires
    <2> QED
        BY <1>5, <2>1, <2>2
<1>6. CASE LoopStep \/ CountSlots \/ WorkerDies
    <2> USE DEF TypeOK, rows, locks, slotVars, requestVars, workerVars, worldVars, LoopAt
    <2>1. CASE UnlockAfterFailure
        <3>1. /\ lock' \in [Users -> Requests \union {Nobody}]
              /\ lockOld' \in [Users -> BOOLEAN]
            BY <2>1, LockType DEF UnlockAfterFailure
        <3> QED
            BY <2>1, <3>1 DEF UnlockAfterFailure
    <2>2. CASE GiveSlotAfterFailure
        <3>1. inflight' \in [Teams -> Int]
            BY <2>2, SlotType DEF GiveSlotAfterFailure
        <3> QED
            BY <2>2, <3>1 DEF GiveSlotAfterFailure
    <2>3. CASE UnlockAfterStale
        <3>1. /\ lock' \in [Users -> Requests \union {Nobody}]
              /\ lockOld' \in [Users -> BOOLEAN]
            BY <2>3, LockType DEF UnlockAfterStale
        <3> QED
            BY <2>3, <3>1 DEF UnlockAfterStale
    <2>4. CASE SetCounters
        <3>1. skewed' \in [Teams -> BOOLEAN]
            <4>1. skewed' = [t \in Teams |-> skewed[t] \/ counted[t] < Cardinality(Owing(t))]
                BY <2>4 DEF SetCounters
            <4> QED
                BY <4>1, Zenon
        <3>2. inflight' \in [Teams -> Int] /\ counted' \in [Teams -> Nat]
            BY <2>4 DEF SetCounters
        <3> QED
            BY <2>4, <3>1, <3>2 DEF SetCounters
    <2>5. CASE CountSlots
        <3>1. ASSUME NEW t \in Teams
              PROVE  Cardinality(InFal(t)) \in Nat
            <4>1. IsFiniteSet(InFal(t))
                BY JobsAreFinite, FS_Subset DEF InFal
            <4> QED
                BY <4>1, FS_CardinalityType
        <3> QED
            BY <2>5, <3>1 DEF CountSlots
    <2>6. CASE WorkerDies
        <3>1. deaths' \in 0 .. MaxDeaths
            BY <2>6, GenerationAssumption DEF WorkerDies
        <3> QED
            BY <2>6, <3>1 DEF WorkerDies
    <2> QED
        BY <1>6, <2>1, <2>2, <2>3, <2>4, <2>5, <2>6 DEF LoopStep
<1> QED
    BY <1>1, <1>2, <1>3, <1>4, <1>5, <1>6 DEF Next
-----------------------------------------------------------------------------
\* No step but CreateBatch makes a row appear, and none makes one vanish.
LEMMA RowsStay ==
    ASSUME IInv, [Next]_vars, \A r \in Requests : ~CreateBatch(r), NEW j \in Jobs
    PROVE  status'[j] = "none" <=> status[j] = "none"
<1> USE DEF IInv, TypeOK
<1>1. CASE ~RowStep
    BY <1>1, RowsChangeInRowSteps DEF rows
<1>2. ASSUME NEW r \in Requests, FailAndRelease(r)
      PROVE  status'[j] = "none" <=> status[j] = "none"
    BY <1>2 DEF FailAndRelease, FailRow, ApiAt, BatchShape, InLoop
<1>3. ASSUME NEW k \in Jobs, CommitSuccess(k) \/ CommitFailure(k) \/ LateDelivery(k)
      PROVE  status'[j] = "none" <=> status[j] = "none"
    BY <1>3 DEF CommitSuccess, CommitFailure, LateDelivery, FailRow, RowsInHand,
                HoldsRow, Active
<1>4. ASSUME NEW k \in Jobs, StartFails(k) \/ DeferFails(k) \/ SubmitSucceeds(k)
                                           \/ SubmitFails(k)
      PROVE  status'[j] = "none" <=> status[j] = "none"
    BY <1>4 DEF StartFails, DeferFails, SubmitSucceeds, SubmitFails, FailCleanly,
                FailRow, RowsInHand
<1>5. ASSUME NEW k \in Jobs, TimeOut(k) \/ Sweep(k)
      PROVE  status'[j] = "none" <=> status[j] = "none"
    BY <1>5 DEF TimeOut, Sweep, FailStale, FailRow, Active
<1> QED
    BY <1>1, <1>2, <1>3, <1>4, <1>5 DEF RowStep

\* Only its own steps move a request.
LEMMA ControlStays ==
    ASSUME TypeOK, [Next]_vars, NEW q \in Requests, ~(ApiStep(q) \/ ApiDies(q))
    PROVE  api'[q] = api[q] /\ next'[q] = next[q]
<1>1. CASE UNCHANGED vars
    BY <1>1 DEF vars, requestVars
<1>2. ASSUME NEW r \in Requests, r # q, ApiStep(r) \/ ApiDies(r)
      PROVE  api'[q] = api[q] /\ next'[q] = next[q]
    BY <1>2 DEF TypeOK, ApiAt, ApiStep, ApiDies, AcquireLock, ReadLockAge, LookForJobs,
                HealLock, ReacquireLock, Plan, CreateBatch, CreateFails,
                Enqueue, EnqueueFails, FailAndRelease, ReleaseAfterFailure
<1>3. ASSUME NEW r \in Requests, Ages(r)
      PROVE  UNCHANGED requestVars
    BY <1>3 DEF Ages
<1>4. ASSUME NEW j \in Jobs, HandlerStep(j) \/ LateDelivery(j) \/ HandlerDies(j)
      PROVE  UNCHANGED requestVars
    BY <1>4 DEF HandlerStep, LateDelivery, HandlerDies, HandleResult,
                ReleaseBeforeCommit, GiveSlotBeforeCommit, CommitSuccess,
                CommitFailure, ReleaseAfterCommit, GiveSlotAfterCommit
<1>5. ASSUME NEW j \in Jobs, \/ SubmitStep(j) \/ TimeOut(j) \/ Sweep(j)
                             \/ SweepBlocks(j) \/ FalAccepts(j) \/ FalFinishes(j)
      PROVE  UNCHANGED requestVars
    BY <1>5 DEF SubmitStep, DropMessage, ReserveSlot, WaitForSlot, StartFails,
                Defer, DeferFails, SubmitSucceeds, SubmitFails, FailCleanly,
                TimeOut, Sweep, FailStale, SweepBlocks, FalAccepts, FalFinishes
<1>6. ASSUME NEW u \in Users, LockAges(u) \/ LockExpires(u)
      PROVE  UNCHANGED requestVars
    BY <1>6 DEF LockAges, LockExpires
<1>7. ASSUME LoopStep \/ CountSlots \/ WorkerDies
      PROVE  UNCHANGED requestVars
    BY <1>7 DEF LoopStep, CountSlots, WorkerDies, UnlockAfterFailure,
                GiveSlotAfterFailure, UnlockAfterStale, SetCounters
<1> QED
    BY <1>1, <1>2, <1>3, <1>4, <1>5, <1>6, <1>7 DEF Next, requestVars

\* A request that has not created its batch stays put until it does, and
\* its loops walk over created jobs only.
LEMMA ControlStep ==
    ASSUME IInv, [Next]_vars, NEW q \in Requests, ~CreateBatch(q)
    PROVE  /\ api'[q] \in Before => api[q] \in Before /\ next'[q] = next[q]
           /\ api'[q] \in InLoop => status[<<q, next'[q]>>] # "none"
<1> USE DEF IInv
<1>1. CASE api'[q] = api[q] /\ next'[q] = next[q]
    BY <1>1 DEF BatchShape
<1>2. CASE ApiStep(q) \/ ApiDies(q)
    <2> USE DEF TypeOK, ApiAt, Before, InLoop
    <2>1. CASE \/ AcquireLock(q) \/ ReadLockAge(q) \/ LookForJobs(q) \/ HealLock(q)
               \/ ReacquireLock(q) \/ Plan(q) \/ CreateFails(q) \/ ApiDies(q)
        BY <2>1 DEF AcquireLock, ReadLockAge, LookForJobs, HealLock, ReacquireLock, LockGranted,
                    Plan, CreateFails, ApiDies
    <2>2. CASE Enqueue(q)
        BY <2>2, LoopStaysInBatch DEF Enqueue
    <2>3. CASE EnqueueFails(q)
        <3>1. PICK n \in 0 .. MaxOutputs : Created(q) = {q} \X (1 .. n)
            BY DEF BatchShape
        <3>2. <<q, next[q]>> \in Created(q)
            BY <2>3, LoopJob DEF EnqueueFails, BatchShape, Created, Batch, Jobs
        <3>3. <<q, 1>> \in Created(q)
            BY <3>1, <3>2, GenerationAssumption
        <3> QED
            BY <2>3, <3>3 DEF EnqueueFails, Created
    <2>4. CASE FailAndRelease(q)
        BY <2>4 DEF FailAndRelease, BatchShape
    <2>5. CASE ReleaseAfterFailure(q)
        BY <2>5, LoopStaysInBatch DEF ReleaseAfterFailure
    <2> QED
        BY <1>2, <2>1, <2>2, <2>3, <2>4, <2>5 DEF ApiStep
<1>3. CASE ~(ApiStep(q) \/ ApiDies(q))
    BY <1>1, <1>3, ControlStays
<1> QED
    BY <1>2, <1>3

\* Every step keeps batches contiguous and the loops within them.
LEMMA ShapeStep ==
    ASSUME IInv, [Next]_vars
    PROVE  BatchShape'
<1> USE DEF IInv
<1>1. ASSUME NEW r \in Requests, CreateBatch(r)
      PROVE  BatchShape'
    <2>1. PICK n \in 1 .. MaxOutputs :
            status' = [j \in Jobs |-> IF j \in {r} \X (1 .. n) THEN "queued"
                                                             ELSE status[j]]
        BY <1>1, BatchIsPaid
    <2>2. /\ api[r] = "creating" /\ api' = [api EXCEPT ![r] = "enqueueing"]
          /\ next' = next
        BY <1>1 DEF CreateBatch, ApiAt
    <2>3. Created(r) = {} /\ next[r] = 1
        BY <2>2 DEF BatchShape, Before
    <2>4. n \in Nat /\ n >= 1 /\ MaxOutputs \in Nat /\ n <= MaxOutputs
        BY GenerationAssumption
    <2>5. Created(r)' = {r} \X (1 .. n)
        BY <2>1, <2>3, <2>4 DEF Created, Batch, Jobs
    <2>6. ASSUME NEW q \in Requests, q # r
          PROVE  /\ Created(q)' = Created(q)
                 /\ api'[q] = api[q] /\ next'[q] = next[q]
                 /\ <<q, next[q]>> \in Jobs
                 /\ status'[<<q, next[q]>>] = status[<<q, next[q]>>]
        <3>1. ASSUME NEW j \in Batch(q)
              PROVE  status'[j] = status[j]
            BY <2>1, <2>6, <3>1 DEF Batch, Jobs
        <3>2. <<q, next[q]>> \in Jobs /\ <<q, next[q]>> \in Batch(q)
            BY LoopJob DEF Batch, Jobs
        <3>3. Created(q)' = Created(q)
            BY <3>1 DEF Created, Batch
        <3>4. api'[q] = api[q] /\ next'[q] = next[q]
            BY <2>2, <2>6 DEF TypeOK
        <3> QED
            BY <3>1, <3>2, <3>3, <3>4
    <2>7. status'[<<r, 1>>] # "none"
        BY <2>1, <2>4 DEF Jobs
    <2>8. api'[r] = "enqueueing" /\ next'[r] = 1
        BY <2>2, <2>3 DEF TypeOK
    <2>9. \A q \in Requests : \E m \in 0 .. MaxOutputs : Created(q)' = {q} \X (1 .. m)
        <3>1. \E m \in 0 .. MaxOutputs : Created(r)' = {r} \X (1 .. m)
            BY <2>4, <2>5
        <3>2. ASSUME NEW q \in Requests, q # r
              PROVE  \E m \in 0 .. MaxOutputs : Created(q)' = {q} \X (1 .. m)
            BY <2>6, <3>2 DEF BatchShape
        <3> QED
            BY <3>1, <3>2
    <2>10. \A q \in Requests : api'[q] \in Before => Created(q)' = {} /\ next'[q] = 1
        BY <2>6, <2>8 DEF BatchShape, Before
    <2>11. \A q \in Requests : api'[q] \in InLoop => status'[<<q, next'[q]>>] # "none"
        BY <2>6, <2>7, <2>8 DEF BatchShape
    <2> QED
        BY <2>9, <2>10, <2>11 DEF BatchShape
<1>2. CASE \A r \in Requests : ~CreateBatch(r)
    <2>1. ASSUME NEW q \in Requests
          PROVE  Created(q)' = Created(q)
        <3>1. \A j \in Batch(q) : j \in Jobs
            BY DEF Batch, Jobs
        <3>2. \A j \in Batch(q) : status'[j] = "none" <=> status[j] = "none"
            BY <1>2, <3>1, RowsStay
        <3> QED
            BY <3>2 DEF Created, Batch
    <2>2. ASSUME NEW q \in Requests
          PROVE  /\ api'[q] \in Before => Created(q)' = {} /\ next'[q] = 1
                 /\ api'[q] \in InLoop => status'[<<q, next'[q]>>] # "none"
        <3>1. TypeOK'
            BY TypeStep
        <3>2. <<q, next'[q]>> \in Jobs
            BY <3>1 DEF TypeOK, Jobs
        <3> QED
            BY <1>2, <2>1, <3>2, ControlStep, RowsStay DEF BatchShape
    <2> QED
        BY <2>1, <2>2 DEF BatchShape
<1> QED
    BY <1>1, <1>2
-----------------------------------------------------------------------------
\* A failed row is nobody's any more.
LEMMA HandsAfterFailure ==
    ASSUME TypeOK, RowsInHand, NEW j \in Jobs, NEW why, FailRow(j, why),
           handler' = handler \/ handler' = [handler EXCEPT ![j] = "failed"],
           submit' = submit \/ submit' = [submit EXCEPT ![j] = "none"],
           handler'[j] \notin HoldsRow, submit'[j] = "none"
    PROVE  RowsInHand'
BY DEF TypeOK, RowsInHand, FailRow, HoldsRow, Active

\* Every step keeps locked rows active and with a single holder: a row is
\* settled only by who holds it, or by who waited until nobody does.
LEMMA HandsStep ==
    ASSUME IInv, [Next]_vars
    PROVE  RowsInHand'
<1> USE DEF IInv
<1>1. CASE UNCHANGED <<status, submit, handler>>
    BY <1>1 DEF RowsInHand, Active
<1>2. ASSUME NEW r \in Requests, ApiStep(r) \/ ApiDies(r) \/ Ages(r)
      PROVE  RowsInHand'
    <2>1. CASE CreateBatch(r)
        <3>1. PICK n \in 1 .. MaxOutputs :
                status' = [j \in Jobs |-> IF j \in {r} \X (1 .. n) THEN "queued"
                                                                 ELSE status[j]]
            BY <2>1, BatchIsPaid
        <3>2. UNCHANGED <<submit, handler>>
            BY <2>1 DEF CreateBatch, workerVars
        <3> QED
            BY <3>1, <3>2 DEF RowsInHand, Active
    <2>2. CASE FailAndRelease(r)
        <3>1. UNCHANGED <<submit, handler>>
            BY <2>2 DEF FailAndRelease, workerVars
        <3>2. submit[<<r, next[r]>>] = "none" /\ handler[<<r, next[r]>>] \notin HoldsRow
            BY <2>2 DEF FailAndRelease, RowLocked, HoldsRow
        <3> QED
            BY <2>2, <3>1, <3>2, LoopJob, HandsAfterFailure DEF FailAndRelease
    <2>3. CASE ~(CreateBatch(r) \/ FailAndRelease(r))
        BY <1>1, <1>2, <2>3 DEF ApiStep, ApiDies, Ages, AcquireLock, ReadLockAge, LookForJobs,
               HealLock, ReacquireLock, Plan, CreateFails, Enqueue, EnqueueFails,
               ReleaseAfterFailure, rows, workerVars
    <2> QED
        BY <2>1, <2>2, <2>3
<1>3. ASSUME NEW j \in Jobs, HandlerStep(j) \/ LateDelivery(j) \/ HandlerDies(j)
      PROVE  RowsInHand'
    <2> USE DEF TypeOK, RowsInHand, HoldsRow, Active, rows, workerVars
    <2>1. CASE HandleResult(j)
        BY <2>1 DEF HandleResult, RowLocked
    <2>2. CASE \/ ReleaseBeforeCommit(j) \/ GiveSlotBeforeCommit(j)
               \/ ReleaseAfterCommit(j) \/ GiveSlotAfterCommit(j) \/ HandlerDies(j)
        BY <2>2 DEF ReleaseBeforeCommit, GiveSlotBeforeCommit, ReleaseAfterCommit,
                    GiveSlotAfterCommit, HandlerDies
    <2>3. CASE CommitSuccess(j)
        BY <2>3 DEF CommitSuccess
    <2>4. CASE CommitFailure(j)
        <3>1. submit[j] = "none" /\ submit' = submit
            BY <2>4 DEF CommitFailure
        <3>2. handler' = [handler EXCEPT ![j] = "failed"] /\ handler'[j] \notin HoldsRow
            BY <2>4 DEF CommitFailure
        <3> QED
            BY <2>4, <3>1, <3>2, HandsAfterFailure DEF CommitFailure
    <2>5. CASE LateDelivery(j)
        BY <2>5 DEF LateDelivery, RowLocked
    <2> QED
        BY <1>3, <2>1, <2>2, <2>3, <2>4, <2>5 DEF HandlerStep
<1>4. ASSUME NEW j \in Jobs, \/ SubmitStep(j) \/ TimeOut(j) \/ Sweep(j)
                             \/ SweepBlocks(j) \/ FalAccepts(j) \/ FalFinishes(j)
      PROVE  RowsInHand'
    <2> USE DEF TypeOK
    <2>1. CASE DropMessage(j) \/ SweepBlocks(j) \/ FalFinishes(j)
        BY <1>1, <2>1 DEF DropMessage, SweepBlocks, FalFinishes, rows, workerVars
    <2>2. CASE ReserveSlot(j) \/ WaitForSlot(j)
        BY <2>2 DEF ReserveSlot, WaitForSlot, PicksUp, RowLocked, RowsInHand, HoldsRow,
                    Active, rows
    <2>3. CASE Defer(j) \/ SubmitSucceeds(j) \/ FalAccepts(j)
        BY <2>3 DEF Defer, SubmitSucceeds, FalAccepts, RowsInHand, HoldsRow, Active, rows
    <2>4. ASSUME NEW rest, FailCleanly(j, rest), handler[j] \notin HoldsRow
          PROVE  RowsInHand'
        BY <2>4, HandsAfterFailure DEF FailCleanly
    <2>5. CASE StartFails(j) \/ DeferFails(j) \/ SubmitFails(j)
        BY <2>4, <2>5 DEF StartFails, DeferFails, SubmitFails, PicksUp, RowLocked,
                          HoldsRow, RowsInHand
    <2>6. CASE TimeOut(j) \/ Sweep(j)
        <3>1. FailStale(j)
            BY <2>6 DEF TimeOut, Sweep
        <3> QED
            BY <3>1, HandsAfterFailure DEF FailStale, RowLocked, HoldsRow
    <2> QED
        BY <1>4, <2>1, <2>2, <2>3, <2>5, <2>6 DEF SubmitStep
<1>5. ASSUME NEW u \in Users, LockAges(u) \/ LockExpires(u)
      PROVE  RowsInHand'
    BY <1>1, <1>5 DEF LockAges, LockExpires, rows, workerVars
<1>6. CASE LoopStep \/ CountSlots \/ WorkerDies
    <2>1. CASE WorkerDies
        BY <2>1 DEF WorkerDies, RowsInHand, HoldsRow, Active, TypeOK, rows
    <2>2. CASE LoopStep \/ CountSlots
        BY <1>1, <2>2 DEF LoopStep, CountSlots, UnlockAfterFailure,
               GiveSlotAfterFailure, UnlockAfterStale, SetCounters, rows
    <2> QED
        BY <1>6, <2>1, <2>2
<1> QED
    BY <1>1, <1>2, <1>3, <1>4, <1>5, <1>6 DEF Next, vars, rows, workerVars
-----------------------------------------------------------------------------
\* The failure loop never returns to a job, nor does a request to its loop.
LEMMA PassedStays ==
    ASSUME TypeOK, BatchShape, [Next]_vars, NEW r \in Requests, NEW i \in 1 .. MaxOutputs,
           Passed(r, i)
    PROVE  Passed(r, i)'
<1>1. CASE api'[r] = api[r] /\ next'[r] = next[r]
    BY <1>1 DEF Passed
<1>2. CASE ApiStep(r) \/ ApiDies(r)
    <2>1. api[r] \in {"failing", "releasing", "finished", "dead"}
        BY DEF Passed
    <2>2. \/ FailAndRelease(r) \/ ReleaseAfterFailure(r) \/ ApiDies(r)
        BY <1>2, <2>1 DEF ApiStep, ApiAt, AcquireLock, ReadLockAge, LookForJobs, HealLock,
               ReacquireLock, Plan, CreateBatch, CreateFails, Enqueue, EnqueueFails
    <2>3. i \in Nat /\ next[r] \in Nat /\ MaxOutputs \in Nat
        BY GenerationAssumption DEF TypeOK
    <2> QED
        BY <2>2, <2>3 DEF TypeOK, Passed, FailAndRelease, ReleaseAfterFailure, ApiDies,
                          ApiAt
<1> QED
    BY <1>1, <1>2, ControlStays

\* A row is failed while it is active, or by the failure loop when it first
\* comes to it; either way its charge stays settled once.
LEMMA FailedOnce ==
    ASSUME TypeOK, Errors, Settlement, NEW j \in Jobs,
           NEW why \in {"enqueue", "fal", "start", "timeout"}, FailRow(j, why),
           \/ Active(j)
           \/ why = "enqueue" /\ status[j] # "none" /\ error[j] # "enqueue"
    PROVE  /\ Settlement'
           /\ \A k \in Jobs : Active(k)' \/ status'[k] = "none" => error'[k] = "none"
           /\ \A k \in Jobs : error'[k] = "enqueue" =>
                                error[k] = "enqueue" \/ (k = j /\ why = "enqueue")
<1>1. refunds[j] \in {0, 1} /\ (why # "enqueue" => refunds[j] = 0)
    BY DEF Settlement, Errors, Active, TypeOK
<1>2. /\ status' = [status EXCEPT ![j] = "failed"]
      /\ error' = [error EXCEPT ![j] = why]
      /\ refunds' = [refunds EXCEPT ![j] = @ + 1]
    BY DEF FailRow
<1>3. Settlement'
    BY <1>1, <1>2 DEF Settlement, TypeOK
<1>4. \A k \in Jobs : Active(k)' \/ status'[k] = "none" => error'[k] = "none"
    BY <1>2 DEF Errors, Active, TypeOK
<1>5. \A k \in Jobs : error'[k] = "enqueue" =>
                        error[k] = "enqueue" \/ (k = j /\ why = "enqueue")
    BY <1>2 DEF TypeOK
<1> QED
    BY <1>3, <1>4, <1>5

\* A job leaves "queued" or "processing" for "completed" with no error, or
\* is delivered late; its refunds do not change.
LEMMA DeliveredOnce ==
    ASSUME TypeOK, Errors, Settlement, NEW j \in Jobs,
           NEW what \in {"completed", "processing"},
           status' = [status EXCEPT ![j] = what], UNCHANGED <<error, refunds>>,
           Active(j) \/ (what = "completed" /\ error[j] = "timeout")
    PROVE  /\ Settlement'
           /\ \A k \in Jobs : Active(k)' \/ status'[k] = "none" => error'[k] = "none"
           /\ \A k \in Jobs : error'[k] = "enqueue" => error[k] = "enqueue"
BY DEF Settlement, Errors, Active, TypeOK

\* Every step keeps the count of refunds what the rows say it is.
LEMMA SettlementStep ==
    ASSUME IInv, [Next]_vars
    PROVE  Errors' /\ Settlement'
<1> USE DEF IInv
<1> DEFINE Goal == /\ Settlement'
                   /\ \A k \in Jobs : Active(k)' \/ status'[k] = "none" => error'[k] = "none"
                   /\ \A r \in Requests, i \in 1 .. MaxOutputs :
                        error'[<<r, i>>] = "enqueue" =>
                           error[<<r, i>>] = "enqueue" \/ (FailAndRelease(r) /\ i = next[r])
<1>1. ASSUME UNCHANGED <<status, error, refunds>>
      PROVE  Goal
    <2>1. Settlement'
        BY <1>1 DEF Settlement
    <2>2. \A k \in Jobs : Active(k)' \/ status'[k] = "none" => error'[k] = "none"
        BY <1>1 DEF Errors, Active
    <2> QED
        BY <1>1, <2>1, <2>2
<1>2. ASSUME NEW r \in Requests, CreateBatch(r)
      PROVE  Goal
    <2>1. PICK n \in 1 .. MaxOutputs :
            status' = [j \in Jobs |-> IF j \in {r} \X (1 .. n) THEN "queued"
                                                             ELSE status[j]]
        BY <1>2, BatchIsPaid
    <2>2. UNCHANGED <<error, refunds>>
        BY <1>2 DEF CreateBatch
    <2>3. \A j \in Jobs : j \in {r} \X (1 .. n) => status[j] = "none"
        BY <1>2 DEF CreateBatch, ApiAt, BatchShape, Before, Created, Batch, Jobs
    <2> QED
        <3>1. Settlement'
            BY <2>1, <2>2, <2>3 DEF Settlement, Errors
        <3>2. \A k \in Jobs : Active(k)' \/ status'[k] = "none" => error'[k] = "none"
            BY <2>1, <2>2, <2>3 DEF Errors, Active
        <3> QED
            BY <2>2, <3>1, <3>2
<1>3. ASSUME NEW r \in Requests, FailAndRelease(r)
      PROVE  Goal
    <2> DEFINE j == <<r, next[r]>>
    <2>1. j \in Jobs /\ next[r] \in 1 .. MaxOutputs
        BY LoopJob DEF TypeOK
    <2>2. api[r] = "failing" /\ FailRow(j, "enqueue")
        BY <1>3 DEF FailAndRelease, ApiAt
    <2>3. status[j] # "none"
        BY <2>2 DEF BatchShape, InLoop
    <2>4. error[j] # "enqueue"
        BY <2>1, <2>2, GenerationAssumption DEF Errors, Passed
    <2> HIDE DEF j
    <2>5. /\ Settlement'
          /\ \A k \in Jobs : Active(k)' \/ status'[k] = "none" => error'[k] = "none"
          /\ \A k \in Jobs : error'[k] = "enqueue" => error[k] = "enqueue" \/ k = j
        BY <2>1, <2>2, <2>3, <2>4, FailedOnce
    <2> QED
        BY <1>3, <2>5, PairsAreJobs DEF j
<1>4. ASSUME NEW j \in Jobs, NEW why \in {"fal", "start", "timeout"}, FailRow(j, why),
             Active(j)
      PROVE  Goal
    <2>1. /\ Settlement'
          /\ \A k \in Jobs : Active(k)' \/ status'[k] = "none" => error'[k] = "none"
          /\ \A k \in Jobs : error'[k] = "enqueue" => error[k] = "enqueue"
        BY <1>4, FailedOnce
    <2> QED
        BY <2>1, PairsAreJobs
<1>5. ASSUME NEW j \in Jobs, \/ CommitFailure(j) \/ StartFails(j) \/ DeferFails(j)
                             \/ SubmitFails(j) \/ TimeOut(j) \/ Sweep(j)
      PROVE  Goal
    <2>1. Active(j)
        BY <1>5 DEF CommitFailure, StartFails, DeferFails, SubmitFails, TimeOut, Sweep,
                    FailStale, RowsInHand, HoldsRow, Active
    <2>2. FailRow(j, "fal") \/ FailRow(j, "start") \/ FailRow(j, "timeout")
        BY <1>5 DEF CommitFailure, StartFails, DeferFails, SubmitFails, FailCleanly,
                    TimeOut, Sweep, FailStale
    <2> QED
        BY <1>4, <2>1, <2>2
<1>6. ASSUME NEW j \in Jobs, CommitSuccess(j) \/ LateDelivery(j) \/ SubmitSucceeds(j)
      PROVE  Goal
    <2>1. \E what \in {"completed", "processing"} :
            /\ status' = [status EXCEPT ![j] = what]
            /\ UNCHANGED <<error, refunds>>
            /\ Active(j) \/ (what = "completed" /\ error[j] = "timeout")
        BY <1>6 DEF CommitSuccess, LateDelivery, SubmitSucceeds, RowsInHand, HoldsRow,
                    Active
    <2>2. /\ Settlement'
          /\ \A k \in Jobs : Active(k)' \/ status'[k] = "none" => error'[k] = "none"
          /\ \A k \in Jobs : error'[k] = "enqueue" => error[k] = "enqueue"
        BY <2>1, DeliveredOnce
    <2> QED
        BY <2>2, PairsAreJobs
<1>7. Goal
    <2>1. CASE ~RowStep
        BY <1>1, <2>1, RowsChangeInRowSteps DEF rows
    <2>2. CASE RowStep
        BY <1>2, <1>3, <1>5, <1>6, <2>2 DEF RowStep
    <2> QED
        BY <2>1, <2>2
<1>8. ASSUME NEW r \in Requests, NEW i \in 1 .. MaxOutputs, error'[<<r, i>>] = "enqueue"
      PROVE  Passed(r, i)'
    <2>1. CASE error[<<r, i>>] = "enqueue"
        BY <2>1, PassedStays DEF Errors
    <2>2. CASE FailAndRelease(r) /\ i = next[r]
        BY <2>2, GenerationAssumption DEF FailAndRelease, ApiAt, Passed, TypeOK
    <2> QED
        BY <1>7, <1>8, <2>1, <2>2
<1> QED
    BY <1>7, <1>8 DEF Errors
-----------------------------------------------------------------------------
\* The invariant holds before the first request.
LEMMA InitInv == Init => IInv
<1> SUFFICES ASSUME Init PROVE IInv
    OBVIOUS
<1>1. TypeOK
    <2>1. Empty \in Pool /\ 1 \in 1 .. MaxOutputs /\ 0 \in 0 .. MaxDeaths
        BY GenerationAssumption DEF Empty, Pool
    <2> QED
        BY <2>1, GenerationAssumption DEF Init, TypeOK
<1>2. BatchShape
    <2>1. \A r \in Requests : Created(r) = {}
        BY DEF Init, Created, Batch, Jobs
    <2>2. \A r \in Requests : {} = {r} \X (1 .. 0) /\ 0 \in 0 .. MaxOutputs
        BY GenerationAssumption
    <2>3. \A r \in Requests : api[r] = "new" /\ next[r] = 1
        BY DEF Init
    <2> QED
        BY <2>1, <2>2, <2>3 DEF BatchShape, InLoop
<1>3. RowsInHand
    BY DEF Init, RowsInHand, HoldsRow
<1>4. Errors
    BY PairsAreJobs DEF Init, Errors
<1>5. Settlement
    BY DEF Init, Settlement
<1> QED
    BY <1>1, <1>2, <1>3, <1>4, <1>5 DEF IInv

\* The invariant holds in every reachable state.
LEMMA Invariance == Spec => []IInv
<1>1. IInv /\ [Next]_vars => IInv'
    BY TypeStep, ShapeStep, HandsStep, SettlementStep DEF IInv
<1> QED
    BY InitInv, <1>1, PTL DEF Spec

\* Every variable keeps its type: in particular no pool of credits is ever
\* overdrawn, whatever a batch costs and however many requests share it.
THEOREM TypeCorrect == Spec => []TypeOK
<1>1. IInv => TypeOK
    BY DEF IInv
<1> QED
    BY Invariance, <1>1, PTL

\* Every charge is settled exactly once (generation.py, worker.py: each path
\* that fails a job refunds it), for any number of users, teams, requests
\* and jobs, with every process dying and every message failing at will.
THEOREM ChargesSettleOnce == Spec => []Settlement
<1>1. IInv => Settlement
    BY DEF IInv
<1> QED
    BY Invariance, <1>1, PTL

\* A settled job is never revived; only fail_and_release can fail a job
\* that was delivered, and only a timeout can be followed by a delivery.
THEOREM SettlementsAreFinal == Spec => SettledIsFinal
<1> DEFINE Final(j) == /\ status[j] = "completed" =>
                            status'[j] = "completed" \/ error'[j] = "enqueue"
                       /\ status[j] = "failed" =>
                            \/ status'[j] = "failed"
                            \/ status'[j] = "completed" /\ error[j] = "timeout"
<1>1. ASSUME IInv, [Next]_vars, NEW j \in Jobs
      PROVE  Final(j)
    <2> USE DEF IInv, TypeOK
    <2>1. CASE ~RowStep
        BY <1>1, <2>1, RowsChangeInRowSteps DEF rows
    <2>2. ASSUME NEW r \in Requests, CreateBatch(r)
          PROVE  Final(j)
        <3>1. PICK n \in 1 .. MaxOutputs :
                status' = [k \in Jobs |-> IF k \in {r} \X (1 .. n) THEN "queued"
                                                                 ELSE status[k]]
            BY <1>1, <2>2, BatchIsPaid
        <3>2. j \in {r} \X (1 .. n) => status[j] = "none"
            BY <1>1, <2>2 DEF CreateBatch, ApiAt, BatchShape, Before, Created, Batch, Jobs
        <3> QED
            BY <3>1, <3>2
    <2>3. ASSUME NEW r \in Requests, FailAndRelease(r)
          PROVE  Final(j)
        BY <1>1, <2>3 DEF FailAndRelease, FailRow
    <2>4. ASSUME NEW k \in Jobs, CommitSuccess(k) \/ CommitFailure(k) \/ LateDelivery(k)
          PROVE  Final(j)
        BY <1>1, <2>4 DEF CommitSuccess, CommitFailure, LateDelivery, FailRow,
                          RowsInHand, HoldsRow, Active
    <2>5. ASSUME NEW k \in Jobs, StartFails(k) \/ DeferFails(k) \/ SubmitSucceeds(k)
                                               \/ SubmitFails(k)
          PROVE  Final(j)
        BY <1>1, <2>5 DEF StartFails, DeferFails, SubmitSucceeds, SubmitFails,
                          FailCleanly, FailRow, RowsInHand
    <2>6. ASSUME NEW k \in Jobs, TimeOut(k) \/ Sweep(k)
          PROVE  Final(j)
        BY <1>1, <2>6 DEF TimeOut, Sweep, FailStale, FailRow, Active
    <2> QED
        BY <2>1, <2>2, <2>3, <2>4, <2>5, <2>6 DEF RowStep
<1>2. IInv /\ [Next]_vars => [\A j \in Jobs : Final(j)]_vars
    BY <1>1
<1> QED
    BY Invariance, <1>2, PTL DEF Spec, SettledIsFinal
-----------------------------------------------------------------------------
(* The credit ledger.                                                      *)

\* No message has been refused: no request is in its failure loop and no
\* row carries that loop's error.
NoneRefused ==
    /\ \A r \in Requests : api[r] \notin {"failing", "releasing"}
    /\ \A j \in Jobs : error[j] # "enqueue"

\* Only a refused message starts the failure loop.
LEMMA NoneRefusedStep ==
    ASSUME "enqueue" \notin Events, IInv, NoneRefused, [Next]_vars
    PROVE  NoneRefused'
<1> USE DEF IInv, TypeOK
<1>1. ASSUME NEW r \in Requests
      PROVE  api'[r] \notin {"failing", "releasing"}
    <2>1. CASE ApiStep(r) \/ ApiDies(r)
        BY <2>1 DEF NoneRefused, ApiStep, ApiDies, ApiAt, AcquireLock, ReadLockAge, LookForJobs,
               HealLock, ReacquireLock, LockGranted, Plan, CreateBatch, CreateFails,
               Enqueue, EnqueueFails, FailAndRelease, ReleaseAfterFailure
    <2>2. CASE ~(ApiStep(r) \/ ApiDies(r))
        BY <2>2, ControlStays DEF NoneRefused
    <2> QED
        BY <2>1, <2>2
<1>2. ASSUME NEW j \in Jobs
      PROVE  error'[j] # "enqueue"
    <2>1. CASE ~RowStep
        BY <2>1, RowsChangeInRowSteps DEF NoneRefused, rows
    <2>2. ASSUME NEW r \in Requests, CreateBatch(r) \/ FailAndRelease(r)
          PROVE  error'[j] # "enqueue"
        BY <2>2 DEF NoneRefused, CreateBatch, FailAndRelease, ApiAt
    <2>3. ASSUME NEW k \in Jobs, CommitSuccess(k) \/ LateDelivery(k) \/ SubmitSucceeds(k)
          PROVE  error'[j] # "enqueue"
        BY <2>3 DEF NoneRefused, CommitSuccess, LateDelivery, SubmitSucceeds
    <2>4. ASSUME NEW k \in Jobs, CommitFailure(k) \/ StartFails(k) \/ DeferFails(k)
                                 \/ SubmitFails(k) \/ TimeOut(k) \/ Sweep(k)
          PROVE  error'[j] # "enqueue"
        BY <2>4 DEF NoneRefused, CommitFailure, StartFails, DeferFails, SubmitFails,
               FailCleanly, TimeOut, Sweep, FailStale, FailRow
    <2> QED
        BY <2>1, <2>2, <2>3, <2>4 DEF RowStep
<1> QED
    BY <1>1, <1>2 DEF NoneRefused

\* The phase of a job's charge, read off its row.
PhaseRead(j) ==
    /\ status[j] = "none" => PhaseOf(j) = "absent"
    /\ Active(j) => PhaseOf(j) = "held"
    /\ status[j] = "failed" => PhaseOf(j) = "refunded"
    /\ status[j] = "completed" =>
         PhaseOf(j) = IF error[j] = "timeout" THEN "gift" ELSE "delivered"

\* Every row tells one phase.
LEMMA PhasesAreRead == TypeOK => \A j \in Jobs : PhaseRead(j)
BY DEF PhaseRead, PhaseOf, Active, TypeOK

\* ... and so does every row after a step.
LEMMA PhasesStayRead == TypeOK' => (\A j \in Jobs : PhaseRead(j))'
BY PhasesAreRead, PTL

\* The ledger computes with the arithmetic of Credits.
LEMMA LedgerArithmetic ==
    /\ Ledger!Jobs = Jobs
    /\ \A j : Ledger!Team(j) = Team(j)
    /\ \A p, cost, wanted : Ledger!Granted(p, cost, wanted) = Granted(p, cost, wanted)
    /\ \A p, amount : Ledger!Taken(p, amount) = Taken(p, amount)
    /\ \A p, c : Ledger!Minus(p, c) = Minus(p, c) /\ Ledger!Plus(p, c) = Plus(p, c)
    /\ \A c, n, i : Ledger!Share(c, n, i) = Share(c, n, i)
BY DEF Ledger!Jobs, Jobs, Ledger!Team, Team, Ledger!Granted, Granted, Ledger!Taken,
       Taken, Ledger!Minus, Minus, Ledger!Plus, Plus, Ledger!Share, Share,
       Ledger!Lesser, Lesser, Ledger!Total, Total, Ledger!PartOf, PartOf

\* A batch that is created is the ledger's ChargeBatch.
LEMMA BatchIsCharged ==
    ASSUME IInv, TypeOK', NEW r \in Requests, CreateBatch(r)
    PROVE  \E w \in 1 .. MaxOutputs : Ledger!ChargeBatch(r, w)
<1> DEFINE t == TeamOf[r]
           n(w) == Granted(pool[t], Cost, w)
           c(w) == Taken(pool[t], Cost * n(w))
<1>1. PICK w \in 1 .. MaxOutputs :
         /\ n(w) >= 1
         /\ pool' = [pool EXCEPT ![t] = Minus(@, c(w))]
         /\ status' = [j \in Jobs |-> IF j \in {r} \X (1 .. n(w)) THEN "queued"
                                                                ELSE status[j]]
         /\ charge' = [j \in Jobs |-> IF j \in {r} \X (1 .. n(w))
                                      THEN Share(c(w), n(w), j[2]) ELSE charge[j]]
         /\ error' = error
    BY DEF CreateBatch
<1>2. t \in Teams /\ pool[t] \in Pool /\ Cost \in Nat /\ w \in Nat /\ MaxOutputs \in Nat
    BY GenerationAssumption DEF IInv, TypeOK
<1>3. n(w) \in 1 .. MaxOutputs
    <2>1. n(w) \in 0 .. w
        BY <1>2, GrantIsAffordable
    <2>2. n(w) >= 1
        BY <1>1
    <2> HIDE DEF n
    <2> QED
        BY <2>1, <2>2, <1>2
<1> HIDE DEF n, c
<1>4. \A j \in Jobs : (j \in {r} \X (1 .. n(w))) <=> (j[1] = r /\ j[2] <= n(w))
    BY <1>2, <1>3 DEF Jobs
<1>5. \A i \in 1 .. MaxOutputs : status[<<r, i>>] = "none"
    BY DEF IInv, CreateBatch, ApiAt, BatchShape, Before, Created, Batch
<1>6. (\A j \in Jobs : PhaseRead(j)) /\ (\A j \in Jobs : PhaseRead(j))'
    BY PhasesAreRead, PhasesStayRead DEF IInv
<1>7. \A i \in 1 .. MaxOutputs : PhaseOf(<<r, i>>) = "absent"
    BY <1>5, <1>6, PairsAreJobs DEF PhaseRead
<1>8. charge' = [j \in Jobs |-> IF j[1] = r /\ j[2] <= n(w)
                                THEN Share(c(w), n(w), j[2]) ELSE charge[j]]
    BY <1>1, <1>4
<1>9. ASSUME NEW j \in Jobs
      PROVE  PhaseOf(j)' = IF j[1] = r /\ j[2] <= n(w) THEN "held" ELSE PhaseOf(j)
    <2>1. status'[j] = IF j[1] = r /\ j[2] <= n(w) THEN "queued" ELSE status[j]
        BY <1>1, <1>4
    <2>2. error'[j] = error[j] /\ PhaseRead(j)' /\ PhaseRead(j)
        BY <1>1, <1>6
    <2>3. CASE j[1] = r /\ j[2] <= n(w)
        BY <2>1, <2>2, <2>3 DEF PhaseRead, Active
    <2>4. CASE ~(j[1] = r /\ j[2] <= n(w))
        BY <2>1, <2>2, <2>4, TypeOK, TypeOK' DEF PhaseRead, Active, TypeOK, IInv
    <2> QED
        BY <2>3, <2>4
<1>10. Ledger!ChargeBatch(r, w)
    <2> DEFINE phases == [j \in Jobs |-> PhaseOf(j)]
    <2>1. phases' = [j \in Jobs |-> IF j[1] = r /\ j[2] <= n(w) THEN "held"
                                                              ELSE phases[j]]
        BY <1>9
    <2>2. \A i \in 1 .. MaxOutputs : phases[<<r, i>>] = "absent"
        BY <1>7, PairsAreJobs
    <2> HIDE DEF phases
    <2>3. Ledger!Granted(pool[t], Cost, w) = n(w) /\ Ledger!Taken(pool[t], Cost * n(w)) = c(w)
        BY LedgerArithmetic DEF n, c
    <2>4. pool' = [pool EXCEPT ![t] = Ledger!Minus(@, c(w))]
        BY <1>1, LedgerArithmetic
    <2>5. charge' = [j \in Ledger!Jobs |-> IF j[1] = r /\ j[2] <= n(w)
                                     THEN Ledger!Share(c(w), n(w), j[2]) ELSE charge[j]]
        BY <1>8, LedgerArithmetic
    <2>6. phases' = [j \in Ledger!Jobs |-> IF j[1] = r /\ j[2] <= n(w) THEN "held"
                                                              ELSE phases[j]]
        BY <2>1, LedgerArithmetic
    <2>8. \A m, d : /\ m = Ledger!Granted(pool[t], Cost, w)
                   /\ d = Ledger!Taken(pool[t], Cost * m)
            => /\ m >= 1
               /\ pool' = [pool EXCEPT ![t] = Ledger!Minus(@, d)]
               /\ charge' = [j \in Ledger!Jobs |-> IF j[1] = r /\ j[2] <= m
                                THEN Ledger!Share(d, m, j[2]) ELSE charge[j]]
               /\ phases' = [j \in Ledger!Jobs |-> IF j[1] = r /\ j[2] <= m
                                                   THEN "held" ELSE phases[j]]
        <3> SUFFICES ASSUME NEW m, NEW d, m = Ledger!Granted(pool[t], Cost, w),
                            d = Ledger!Taken(pool[t], Cost * m)
                     PROVE  /\ m >= 1
                            /\ pool' = [pool EXCEPT ![t] = Ledger!Minus(@, d)]
                            /\ charge' = [j \in Ledger!Jobs |-> IF j[1] = r /\ j[2] <= m
                                             THEN Ledger!Share(d, m, j[2]) ELSE charge[j]]
                            /\ phases' = [j \in Ledger!Jobs |-> IF j[1] = r /\ j[2] <= m
                                                                THEN "held" ELSE phases[j]]
            OBVIOUS
        <3>1. m = n(w) /\ d = c(w)
            BY <2>3
        <3>2. pool' = [pool EXCEPT ![t] = Ledger!Minus(@, d)]
            BY <2>4, <3>1
        <3>3. charge' = [j \in Ledger!Jobs |-> IF j[1] = r /\ j[2] <= m
                           THEN Ledger!Share(d, m, j[2]) ELSE charge[j]]
            BY <2>5, <3>1
        <3>4. phases' = [j \in Ledger!Jobs |-> IF j[1] = r /\ j[2] <= m
                                              THEN "held" ELSE phases[j]]
            BY <2>6, <3>1
        <3> QED
            BY <1>1, <3>1, <3>2, <3>3, <3>4
    <2>9. \A m, d : /\ m = Ledger!Granted(pool[t], Cost, w)
                   /\ d = Ledger!Taken(pool[t], Cost * m)
                   => Ledger!ChargeBatch(r, w)
        BY <2>2, <2>8 DEF Ledger!ChargeBatch, Ledger!purchaseVars, phases
    <2> QED
        BY <2>9
<1> QED
    BY <1>10

\* A row that fails while its charge is held is the ledger's Refund.
LEMMA FailureRefunds ==
    ASSUME TypeOK, TypeOK', NEW j \in Jobs, Active(j),
           NEW why \in {"enqueue", "fal", "start", "timeout"}, FailRow(j, why)
    PROVE  Ledger!Refund(j)
<1> DEFINE phases == [k \in Jobs |-> PhaseOf(k)]
<1>1. (\A k \in Jobs : PhaseRead(k)) /\ (\A k \in Jobs : PhaseRead(k))'
    BY PhasesAreRead, PhasesStayRead
<1>2. /\ status' = [status EXCEPT ![j] = "failed"]
      /\ error' = [error EXCEPT ![j] = why]
      /\ pool' = [pool EXCEPT ![Team(j)] = Plus(@, charge[j])]
      /\ charge' = charge
    BY DEF FailRow
<1>3. phases[j] = "held"
    BY <1>1 DEF PhaseRead
<1>4. ASSUME NEW k \in Jobs
      PROVE  PhaseOf(k)' = IF k = j THEN "refunded" ELSE PhaseOf(k)
    <2>1. PhaseRead(k) /\ PhaseRead(k)'
        BY <1>1
    <2>2. CASE k = j
        BY <1>2, <2>1, <2>2 DEF PhaseRead, TypeOK
    <2>3. CASE k # j
        BY <1>2, <2>1, <2>3 DEF PhaseRead, Active, TypeOK
    <2> QED
        BY <2>2, <2>3
<1>5. phases' = [phases EXCEPT ![j] = "refunded"]
    BY <1>4
<1>6. pool' = [pool EXCEPT ![Ledger!Team(j)] = Ledger!Plus(@, charge[j])]
    BY <1>2, LedgerArithmetic
<1> QED
    BY <1>2, <1>3, <1>5, <1>6 DEF Ledger!Refund, Ledger!purchaseVars

\* A row that becomes completed delivers a held charge, or gives a refunded
\* one away after a timeout.
LEMMA CompletionDelivers ==
    ASSUME TypeOK, TypeOK', Errors, NEW j \in Jobs,
           status' = [status EXCEPT ![j] = "completed"],
           UNCHANGED <<error, charge, pool>>,
           Active(j) \/ (status[j] = "failed" /\ error[j] = "timeout")
    PROVE  Ledger!Deliver(j) \/ Ledger!DeliverFree(j)
<1> DEFINE phases == [k \in Jobs |-> PhaseOf(k)]
           done == IF Active(j) THEN "delivered" ELSE "gift"
<1>1. (\A k \in Jobs : PhaseRead(k)) /\ (\A k \in Jobs : PhaseRead(k))'
    BY PhasesAreRead, PhasesStayRead
<1>2. phases[j] = IF Active(j) THEN "held" ELSE "refunded"
    BY <1>1 DEF PhaseRead
<1>3. ASSUME NEW k \in Jobs
      PROVE  PhaseOf(k)' = IF k = j THEN done ELSE PhaseOf(k)
    <2>1. PhaseRead(k) /\ PhaseRead(k)'
        BY <1>1
    <2>2. CASE k = j
        BY <2>1, <2>2 DEF PhaseRead, Errors, TypeOK
    <2>3. CASE k # j
        BY <2>1, <2>3 DEF PhaseRead, Active, TypeOK
    <2> QED
        BY <2>2, <2>3
<1>4. phases' = [phases EXCEPT ![j] = done]
    BY <1>3
<1> QED
    BY <1>2, <1>4 DEF Ledger!Deliver, Ledger!DeliverFree, Ledger!purchaseVars

\* A submission that succeeds, like every step that leaves the rows alone,
\* is no step of the ledger.
LEMMA LedgerStutters ==
    ASSUME TypeOK, TypeOK', UNCHANGED <<error, charge, pool>>,
           \A j \in Jobs : status'[j] = status[j] \/ (Active(j) /\ Active(j)')
    PROVE  UNCHANGED Ledger!ledgerVars
<1>1. (\A j \in Jobs : PhaseRead(j)) /\ (\A j \in Jobs : PhaseRead(j))'
    BY PhasesAreRead, PhasesStayRead
<1>2. ASSUME NEW j \in Jobs
      PROVE  PhaseOf(j)' = PhaseOf(j)
    BY <1>1, <1>2 DEF PhaseRead, Active, TypeOK
<1>3. UNCHANGED [j \in Jobs |-> PhaseOf(j)]
    BY <1>2
<1> QED
    BY <1>3 DEF Ledger!ledgerVars, Ledger!purchaseVars

\* The failure loop of a request comes to a job that is settled already, and
\* refunds it.
RefundsAgain(r) == FailAndRelease(r) /\ ~Active(<<r, next[r]>>)

\* Every other step of the pipeline is a step of the ledger or a stutter.
LEMMA LedgerStep ==
    ASSUME IInv, IInv', [Next]_vars, \A r \in Requests : ~RefundsAgain(r)
    PROVE  [Ledger!LedgerNext]_(Ledger!ledgerVars)
<1> USE DEF IInv
<1>1. CASE ~RowStep
    BY <1>1, RowsChangeInRowSteps, LedgerStutters DEF rows
<1>2. ASSUME NEW r \in Requests, CreateBatch(r) \/ FailAndRelease(r)
      PROVE  Ledger!LedgerNext
    <2>1. CASE CreateBatch(r)
        BY <2>1, BatchIsCharged DEF Ledger!LedgerNext
    <2>2. CASE FailAndRelease(r)
        <3>1. <<r, next[r]>> \in Jobs /\ Active(<<r, next[r]>>)
            BY <2>2, LoopJob DEF RefundsAgain
        <3>2. FailRow(<<r, next[r]>>, "enqueue")
            BY <2>2 DEF FailAndRelease
        <3>3. Ledger!Refund(<<r, next[r]>>)
            BY <3>1, <3>2, FailureRefunds
        <3> QED
            BY <3>1, <3>3, LedgerArithmetic DEF Ledger!LedgerNext
    <2> QED
        BY <1>2, <2>1, <2>2
<1>3. ASSUME NEW j \in Jobs, CommitSuccess(j) \/ LateDelivery(j)
      PROVE  Ledger!LedgerNext
    <2>1. /\ status' = [status EXCEPT ![j] = "completed"]
          /\ UNCHANGED <<error, charge, pool>>
          /\ Active(j) \/ (status[j] = "failed" /\ error[j] = "timeout")
        BY <1>3 DEF CommitSuccess, LateDelivery, RowsInHand, HoldsRow
    <2> QED
        BY <2>1, CompletionDelivers, LedgerArithmetic DEF Ledger!LedgerNext
<1>4. ASSUME NEW j \in Jobs, SubmitSucceeds(j)
      PROVE  UNCHANGED Ledger!ledgerVars
    <2>1. /\ status' = [status EXCEPT ![j] = "processing"]
          /\ UNCHANGED <<error, charge, pool>>
          /\ Active(j)
        BY <1>4 DEF SubmitSucceeds, RowsInHand, Active
    <2>2. \A k \in Jobs : status'[k] = status[k] \/ (Active(k) /\ Active(k)')
        BY <2>1 DEF Active, TypeOK
    <2> QED
        BY <2>1, <2>2, LedgerStutters
<1>5. ASSUME NEW j \in Jobs, \/ CommitFailure(j) \/ StartFails(j) \/ DeferFails(j)
                             \/ SubmitFails(j) \/ TimeOut(j) \/ Sweep(j)
      PROVE  Ledger!LedgerNext
    <2>1. Active(j)
        BY <1>5 DEF CommitFailure, StartFails, DeferFails, SubmitFails, TimeOut, Sweep,
                    FailStale, RowsInHand, HoldsRow, Active
    <2>2. FailRow(j, "fal") \/ FailRow(j, "start") \/ FailRow(j, "timeout")
        BY <1>5 DEF CommitFailure, StartFails, DeferFails, SubmitFails, FailCleanly,
                    TimeOut, Sweep, FailStale
    <2>3. Ledger!Refund(j)
        BY <2>1, <2>2, FailureRefunds
    <2> QED
        BY <2>3, LedgerArithmetic DEF Ledger!LedgerNext
<1> QED
    BY <1>1, <1>2, <1>3, <1>4, <1>5 DEF RowStep

\* The pipeline implements the credit ledger when no message is refused:
\* every step charges a batch, settles one charge in full, or leaves all
\* money alone, whatever dies, times out, is retried or arrives late.
THEOREM LedgerIsKept ==
    ASSUME "enqueue" \notin Events
    PROVE  Spec => KeepsTheLedger
<1>1. Init => NoneRefused
    BY DEF Init, NoneRefused
<1>2. IInv /\ NoneRefused /\ [Next]_vars => NoneRefused'
    BY NoneRefusedStep
<1>3. Init => Ledger!LedgerInit
    <2> SUFFICES ASSUME Init PROVE Ledger!LedgerInit
        OBVIOUS
    <2>1. TypeOK /\ \A j \in Jobs : PhaseRead(j)
        BY InitInv, PhasesAreRead DEF IInv
    <2>2. \A j \in Jobs : PhaseOf(j) = "absent"
        BY <2>1 DEF Init, PhaseRead
    <2>3. Ledger!Empty = Empty
        BY DEF Ledger!Empty, Empty
    <2> QED
        BY <2>2, <2>3, LedgerArithmetic DEF Init, Ledger!LedgerInit, Ledger!Unread
<1>4. IInv /\ IInv' /\ NoneRefused /\ [Next]_vars
      => [Ledger!LedgerNext]_(Ledger!ledgerVars)
    <2>1. NoneRefused => \A r \in Requests : ~RefundsAgain(r)
        BY DEF NoneRefused, RefundsAgain, FailAndRelease, ApiAt
    <2> QED
        BY <2>1, LedgerStep
<1> QED
    BY Invariance, <1>1, <1>2, <1>3, <1>4, PTL DEF Spec, KeepsTheLedger, Ledger!LedgerSpec

\* Where messages are refused, too, one step of the code keeps no promise of
\* the ledger, and no more than one: fail_and_release, which does not read the
\* row it overwrites, at a job that is settled.
THEOREM OneStepLeavesTheLedger ==
    Spec => [][\/ [Ledger!LedgerNext]_(Ledger!ledgerVars)
               \/ \E r \in Requests : RefundsAgain(r)]_vars
<1>1. IInv /\ IInv' /\ [Next]_vars =>
        [\/ [Ledger!LedgerNext]_(Ledger!ledgerVars)
         \/ \E r \in Requests : RefundsAgain(r)]_vars
    BY LedgerStep
<1> QED
    BY Invariance, <1>1, PTL DEF Spec
-----------------------------------------------------------------------------
(* Slots.                                                                  *)

\* A job that is settled.
Over(j) == status[j] \in {"completed", "failed"}

\* Where the worker's loop is cleaning up after a job it failed.
Settling == {"unlock", "unlockAndGive", "giveSlot", "stale", "staleWithSlot"}

\* Who gives a slot back does it once and for a job that can no longer take
\* or hold one: the cleanup of a handler and that of the worker come after
\* the commit that settled the row, and never meet on one job; and fal has
\* never heard of a job whose row does not exist.
SlotsInHand ==
    /\ \A j \in Jobs : status[j] = "none" => fal[j] = "none"
    /\ \A j \in Jobs : handler[j] \in {"failed", "giveSlotLate"} => Over(j)
    /\ loop.at \in Settling => /\ loop.job \in Jobs
                               /\ Over(loop.job)
                               /\ handler[loop.job] = "none"

\* A settled job stays settled, and no job that has a row is created again.
LEMMA OverStays ==
    ASSUME IInv, [Next]_vars, NEW j \in Jobs, Over(j)
    PROVE  Over(j)'
<1> USE DEF IInv, TypeOK, Over
<1>1. CASE ~RowStep
    BY <1>1, RowsChangeInRowSteps DEF rows
<1>2. ASSUME NEW r \in Requests, CreateBatch(r)
      PROVE  Over(j)'
    <2>1. PICK n \in 1 .. MaxOutputs :
            status' = [k \in Jobs |-> IF k \in {r} \X (1 .. n) THEN "queued"
                                                             ELSE status[k]]
        BY <1>2, BatchIsPaid
    <2>2. j \in {r} \X (1 .. n) => status[j] = "none"
        BY <1>2 DEF CreateBatch, ApiAt, BatchShape, Before, Created, Batch, Jobs
    <2> QED
        BY <2>1, <2>2
<1>3. ASSUME NEW r \in Requests, FailAndRelease(r)
      PROVE  Over(j)'
    BY <1>3 DEF FailAndRelease, FailRow
<1>4. ASSUME NEW k \in Jobs, CommitSuccess(k) \/ CommitFailure(k) \/ LateDelivery(k)
      PROVE  Over(j)'
    BY <1>4 DEF CommitSuccess, CommitFailure, LateDelivery, FailRow
<1>5. ASSUME NEW k \in Jobs, SubmitSucceeds(k)
      PROVE  Over(j)'
    BY <1>5 DEF SubmitSucceeds, RowsInHand
<1>6. ASSUME NEW k \in Jobs, \/ StartFails(k) \/ DeferFails(k) \/ SubmitFails(k)
                             \/ TimeOut(k) \/ Sweep(k)
      PROVE  Over(j)'
    BY <1>6 DEF StartFails, DeferFails, SubmitFails, FailCleanly, TimeOut, Sweep,
                FailStale, FailRow
<1> QED
    BY <1>1, <1>2, <1>3, <1>4, <1>5, <1>6 DEF RowStep

\* Where the worker's loop is given a job or takes leave of one.
LoopMoves ==
    \/ LoopStep \/ CountSlots \/ WorkerDies
    \/ \E j \in Jobs : \/ StartFails(j) \/ DeferFails(j) \/ SubmitFails(j)
                       \/ TimeOut(j) \/ Sweep(j) \/ SweepBlocks(j)

\* Which steps move a job's handler, its submission and its request at fal,
\* the worker's loop, and the age of a batch.
LEMMA WhoMoves ==
    ASSUME TypeOK, [Next]_vars
    PROVE  /\ \A j \in Jobs : handler'[j] = handler[j] \/ HandlerStep(j) \/ HandlerDies(j)
           /\ \A j \in Jobs : submit'[j] = submit[j] \/ SubmitStep(j) \/ FalAccepts(j)
                                                     \/ WorkerDies
           /\ \A j \in Jobs : fal'[j] = fal[j] \/ FalAccepts(j) \/ FalFinishes(j)
           /\ loop' = loop \/ LoopMoves
           /\ \A r \in Requests : age'[r] = age[r] \/ Ages(r)
<1> DEFINE Goal ==
    /\ \A j \in Jobs : handler'[j] = handler[j] \/ HandlerStep(j) \/ HandlerDies(j)
    /\ \A j \in Jobs : submit'[j] = submit[j] \/ SubmitStep(j) \/ FalAccepts(j)
                                              \/ WorkerDies
    /\ \A j \in Jobs : fal'[j] = fal[j] \/ FalAccepts(j) \/ FalFinishes(j)
    /\ loop' = loop \/ LoopMoves
    /\ \A r \in Requests : age'[r] = age[r] \/ Ages(r)
<1> USE DEF workerVars, worldVars
<1>1. CASE UNCHANGED vars
    BY <1>1 DEF vars
<1>2. ASSUME NEW r \in Requests, ApiStep(r) \/ ApiDies(r)
      PROVE  Goal
    <2>1. UNCHANGED <<submit, loop, handler, fal, age>>
        BY <1>2 DEF ApiStep, ApiDies, AcquireLock, ReadLockAge, LookForJobs, HealLock, ReacquireLock,
                    Plan, CreateBatch, CreateFails, Enqueue, EnqueueFails,
                    FailAndRelease, ReleaseAfterFailure
    <2> QED
        BY <2>1
<1>3. ASSUME NEW r \in Requests, Ages(r)
      PROVE  Goal
    <2>1. UNCHANGED <<submit, loop, handler, fal>> /\ age' = [age EXCEPT ![r] = @ + 1]
        BY <1>3 DEF Ages
    <2> QED
        BY <1>3, <2>1 DEF TypeOK
<1>4. ASSUME NEW j \in Jobs, HandlerStep(j) \/ HandlerDies(j)
      PROVE  Goal
    <2>1. UNCHANGED <<submit, loop, fal, age>>
        BY <1>4 DEF HandlerStep, HandlerDies, HandleResult, ReleaseBeforeCommit,
                    GiveSlotBeforeCommit, CommitSuccess, CommitFailure,
                    ReleaseAfterCommit, GiveSlotAfterCommit
    <2>2. \E h : handler' = [handler EXCEPT ![j] = h]
        BY <1>4 DEF HandlerStep, HandlerDies, HandleResult, ReleaseBeforeCommit,
                    GiveSlotBeforeCommit, CommitSuccess, CommitFailure,
                    ReleaseAfterCommit, GiveSlotAfterCommit
    <2>3. \A k \in Jobs : handler'[k] = handler[k] \/ k = j
        BY <2>2 DEF TypeOK
    <2> QED
        BY <1>4, <2>1, <2>3
<1>5. ASSUME NEW j \in Jobs, SubmitStep(j)
      PROVE  Goal
    <2>1. UNCHANGED <<handler, fal, age>>
        BY <1>5 DEF SubmitStep, DropMessage, ReserveSlot, WaitForSlot, StartFails, Defer,
                    DeferFails, SubmitSucceeds, SubmitFails, FailCleanly
    <2>2. submit' = submit \/ \E w : submit' = [submit EXCEPT ![j] = w]
        BY <1>5 DEF SubmitStep, DropMessage, ReserveSlot, WaitForSlot, StartFails, Defer,
                    DeferFails, SubmitSucceeds, SubmitFails, FailCleanly
    <2>3. \A k \in Jobs : submit'[k] = submit[k] \/ k = j
        BY <2>2 DEF TypeOK
    <2>4. loop' = loop \/ LoopMoves
        BY <1>5 DEF LoopMoves, SubmitStep, DropMessage, ReserveSlot, WaitForSlot, Defer,
                    SubmitSucceeds
    <2> QED
        BY <1>5, <2>1, <2>3, <2>4
<1>6. ASSUME NEW j \in Jobs, LateDelivery(j) \/ TimeOut(j) \/ Sweep(j) \/ SweepBlocks(j)
      PROVE  Goal
    <2>1. UNCHANGED <<submit, handler, fal, age>>
        BY <1>6 DEF LateDelivery, TimeOut, Sweep, FailStale, SweepBlocks
    <2>2. loop' = loop \/ LoopMoves
        BY <1>6 DEF LateDelivery, LoopMoves
    <2> QED
        BY <2>1, <2>2
<1>7. ASSUME NEW j \in Jobs, FalAccepts(j) \/ FalFinishes(j)
      PROVE  Goal
    <2>1. UNCHANGED <<loop, handler, age>>
        BY <1>7 DEF FalAccepts, FalFinishes
    <2>2. \E f : fal' = [fal EXCEPT ![j] = f]
        BY <1>7 DEF FalAccepts, FalFinishes
    <2>3. submit' = submit \/ (FalAccepts(j) /\ \E w : submit' = [submit EXCEPT ![j] = w])
        BY <1>7 DEF FalAccepts, FalFinishes
    <2>4. \A k \in Jobs : (fal'[k] = fal[k] /\ submit'[k] = submit[k]) \/ k = j
        BY <2>2, <2>3 DEF TypeOK
    <2> QED
        BY <1>7, <2>1, <2>3, <2>4
<1>8. ASSUME NEW u \in Users, LockAges(u) \/ LockExpires(u)
      PROVE  Goal
    <2>1. UNCHANGED <<submit, loop, handler, fal, age>>
        BY <1>8 DEF LockAges, LockExpires
    <2> QED
        BY <2>1
<1>9. CASE LoopStep \/ CountSlots \/ WorkerDies
    <2>1. UNCHANGED <<handler, fal, age>> /\ (UNCHANGED submit \/ WorkerDies)
        BY <1>9 DEF LoopStep, CountSlots, WorkerDies, UnlockAfterFailure,
                    GiveSlotAfterFailure, UnlockAfterStale, SetCounters
    <2> QED
        BY <1>9, <2>1 DEF LoopMoves
<1> QED
    BY <1>1, <1>2, <1>3, <1>4, <1>5, <1>6, <1>7, <1>8, <1>9 DEF Next

\* A job fal knows of has a row: fal hears of it from a submission.
LEMMA FalKnowsRows ==
    ASSUME IInv, SlotsInHand, [Next]_vars, NEW j \in Jobs, status'[j] = "none"
    PROVE  fal'[j] = "none"
<1>1. status[j] = "none"
    <2>1. CASE \A r \in Requests : ~CreateBatch(r)
        BY <2>1, RowsStay
    <2>2. ASSUME NEW r \in Requests, CreateBatch(r)
          PROVE  status[j] = "none"
        <3>1. PICK n \in 1 .. MaxOutputs :
                status' = [k \in Jobs |-> IF k \in {r} \X (1 .. n) THEN "queued"
                                                                 ELSE status[k]]
            BY <2>2, BatchIsPaid DEF IInv
        <3> QED
            BY <3>1
    <2> QED
        BY <2>1, <2>2
<1>2. fal[j] = "none" /\ submit[j] = "none"
    BY <1>1 DEF IInv, SlotsInHand, RowsInHand
<1> QED
    BY <1>2, WhoMoves DEF IInv, FalAccepts, FalFinishes

\* Where the worker's loop goes.
LEMMA LoopGoes ==
    ASSUME TypeOK, NEW where, NEW j, LoopAt(where, j)
    PROVE  loop'.at = where /\ loop'.job = j
BY DEF TypeOK, LoopAt

\* Every step leaves each slot with at most one who will give it back.
LEMMA SlotsInHandStep ==
    ASSUME IInv, SlotsInHand, [Next]_vars
    PROVE  SlotsInHand'
<1> USE DEF IInv, TypeOK
<1>1. ASSUME NEW j \in Jobs, handler'[j] \in {"failed", "giveSlotLate"}
      PROVE  Over(j)'
    <2>1. CASE handler[j] \in {"failed", "giveSlotLate"}
        BY <2>1, OverStays DEF SlotsInHand
    <2>2. CASE CommitFailure(j)
        BY <2>2 DEF CommitFailure, FailRow, Over
    <2>3. handler'[j] = handler[j] \/ HandlerStep(j) \/ HandlerDies(j)
        BY WhoMoves
    <2> QED
        BY <1>1, <2>1, <2>2, <2>3 DEF HandlerStep, HandlerDies, HandleResult,
           ReleaseBeforeCommit, GiveSlotBeforeCommit, CommitSuccess, ReleaseAfterCommit,
           GiveSlotAfterCommit
<1>2. ASSUME NEW k \in Jobs, Over(k), handler[k] = "none"
      PROVE  Over(k)' /\ handler'[k] = "none"
    <2>1. handler'[k] = handler[k] \/ HandlerStep(k) \/ HandlerDies(k)
        BY WhoMoves
    <2>2. ~Active(k)
        BY <1>2 DEF Active, Over
    <2>3. handler'[k] = "none"
        BY <1>2, <2>1, <2>2 DEF HandlerStep, HandlerDies, HandleResult,
           ReleaseBeforeCommit, GiveSlotBeforeCommit, CommitSuccess, CommitFailure,
           ReleaseAfterCommit, GiveSlotAfterCommit
    <2> QED
        BY <1>2, <2>3, OverStays
<1>3. ASSUME loop'.at \in Settling
      PROVE  (loop.job \in Jobs /\ Over(loop.job) /\ handler[loop.job] = "none")'
    <2>1. CASE loop.at \in Settling /\ loop'.job = loop.job
        <3>1. loop'.job \in Jobs /\ Over(loop.job) /\ handler[loop.job] = "none"
            BY <2>1 DEF SlotsInHand
        <3> QED
            BY <1>2, <2>1, <3>1 DEF Over
    <2>2. CASE loop' = loop
        BY <1>3, <2>1, <2>2
    <2>3. CASE LoopStep \/ CountSlots \/ WorkerDies
        <3>1. \/ loop.at \in Settling /\ LoopAt("giveSlot", loop.job)
              \/ \E w \in {"idle", "reconciling"} : LoopAt(w, NoJob)
            BY <2>3 DEF LoopStep, CountSlots, WorkerDies, UnlockAfterFailure,
                        GiveSlotAfterFailure, UnlockAfterStale, SetCounters, Settling
        <3>2. loop.at \in Settling /\ loop'.job = loop.job
            BY <1>3, <3>1, LoopGoes DEF Settling
        <3> QED
            BY <2>1, <3>2
    <2>4. ASSUME NEW k \in Jobs, \/ StartFails(k) \/ DeferFails(k) \/ SubmitFails(k)
                                 \/ TimeOut(k) \/ Sweep(k)
          PROVE  (loop.job \in Jobs /\ Over(loop.job) /\ handler[loop.job] = "none")'
        <3>1. Active(k) /\ handler[k] \notin HoldsRow
            BY <2>4 DEF StartFails, DeferFails, SubmitFails, PicksUp, TimeOut, Sweep,
                        FailStale, RowLocked, RowsInHand, HoldsRow, Active
        <3>2. handler[k] = "none"
            BY <3>1 DEF SlotsInHand, Over, Active, HoldsRow
        <3>3. handler' = handler /\ loop'.job = k
            BY <2>4, LoopGoes DEF StartFails, DeferFails, SubmitFails, FailCleanly, TimeOut, Sweep,
                        FailStale
        <3>4. status'[k] = "failed"
            BY <2>4 DEF StartFails, DeferFails, SubmitFails, FailCleanly, TimeOut, Sweep,
                        FailStale, FailRow
        <3> QED
            BY <3>2, <3>3, <3>4 DEF Over
    <2>5. ASSUME NEW k \in Jobs, SweepBlocks(k)
          PROVE  loop'.at \notin Settling
        BY <2>5, LoopGoes DEF SweepBlocks, Settling
    <2> QED
        BY <1>3, <2>2, <2>3, <2>4, <2>5, WhoMoves DEF LoopMoves
<1> QED
    BY <1>1, <1>3, FalKnowsRows DEF SlotsInHand
-----------------------------------------------------------------------------
\* One element more makes a finite set larger by one at most.
LEMMA AtMostOneMore ==
    ASSUME NEW S, NEW T, NEW x, IsFiniteSet(S), T \subseteq S \union {x}
    PROVE  /\ Cardinality(T) \in Nat /\ Cardinality(S) \in Nat
           /\ Cardinality(T) <= Cardinality(S) + 1
<1>1. IsFiniteSet(S \union {x}) /\ Cardinality(S \union {x}) \in Nat
    BY FS_AddElement, FS_CardinalityType
<1>2. Cardinality(S \union {x}) <= Cardinality(S) + 1 /\ Cardinality(S) \in Nat
    BY FS_AddElement, FS_CardinalityType
<1>3. Cardinality(T) <= Cardinality(S \union {x}) /\ Cardinality(T) \in Nat
    BY <1>1, FS_Subset, FS_CardinalityType
<1> QED
    BY <1>1, <1>2, <1>3

\* One element less makes it smaller by one.
LEMMA OneLess ==
    ASSUME NEW S, NEW T, NEW x \in S, IsFiniteSet(S), T \subseteq S \ {x}
    PROVE  /\ Cardinality(T) \in Nat /\ Cardinality(S) \in Nat
           /\ Cardinality(T) <= Cardinality(S) - 1
<1>1. /\ IsFiniteSet(S \ {x})
      /\ Cardinality(S \ {x}) = Cardinality(S) - 1
    BY FS_RemoveElement
<1>2. Cardinality(T) <= Cardinality(S \ {x}) /\ IsFiniteSet(T)
    BY <1>1, FS_Subset
<1> QED
    BY <1>1, <1>2, FS_CardinalityType

\* Requests at fal that count towards the cap even while a handler is busy
\* with the answer: a handler that dies gives the job back to fal.
Claims(j) ==
    \/ submit[j] \in {"sending", "accepted"}
    \/ status[j] = "processing" /\ handler[j] # "commit"

Claiming(t) == {j \in Jobs : Team(j) = t /\ Claims(j)}

\* The cap in the form that is inductive.
ClaimsCapped == \A t \in Teams : ~skewed[t] => Cardinality(Claiming(t)) <= Limit

\* A slot comes into use by a reservation, or because a handler dies that
\* has given it back but not yet settled the row.
ComesIntoUse(j) == ReserveSlot(j) \/ (HandlerDies(j) /\ handler[j] = "commit")

\* No other step makes a job owe a slot or claim one.
LEMMA SlotsTaken ==
    ASSUME IInv, SlotsInHand, [Next]_vars, NEW j \in Jobs, ~ComesIntoUse(j)
    PROVE  /\ OwesSlot(j)' => OwesSlot(j)
           /\ Claims(j)' => Claims(j)
<1> DEFINE Goal == (OwesSlot(j)' => OwesSlot(j)) /\ (Claims(j)' => Claims(j))
<1>1. ASSUME UNCHANGED <<status, submit, handler, fal, loop>>
      PROVE  Goal
    BY <1>1 DEF OwesSlot, Claims
<1>2. ASSUME NEW r \in Requests, CreateBatch(r)
      PROVE  Goal
    <2>1. PICK n \in 1 .. MaxOutputs :
            status' = [k \in Jobs |-> IF k \in {r} \X (1 .. n) THEN "queued"
                                                             ELSE status[k]]
        BY <1>2, BatchIsPaid DEF IInv
    <2>2. UNCHANGED <<submit, handler, fal, loop>>
        BY <1>2 DEF CreateBatch, workerVars, worldVars
    <2>3. j \in {r} \X (1 .. n) => status[j] = "none"
        BY <1>2 DEF CreateBatch, ApiAt, IInv, BatchShape, Before, Created, Batch, Jobs
    <2>4. status[j] = "none" => fal[j] = "none" /\ submit[j] = "none"
        BY DEF IInv, SlotsInHand, RowsInHand
    <2> QED
        BY <2>1, <2>2, <2>3, <2>4 DEF OwesSlot, Claims
<1>3. ASSUME NEW r \in Requests, FailAndRelease(r)
      PROVE  Goal
    <2>1. UNCHANGED <<submit, handler, fal, loop>>
        BY <1>3 DEF FailAndRelease, workerVars, worldVars
    <2>2. status'[j] \in {status[j], "failed"}
        BY <1>3 DEF FailAndRelease, FailRow, IInv, TypeOK
    <2> QED
        BY <2>1, <2>2 DEF OwesSlot, Claims
<1>4. ASSUME NEW r \in Requests, ApiStep(r) \/ ApiDies(r) \/ Ages(r)
      PROVE  Goal
    BY <1>1, <1>2, <1>3, <1>4 DEF ApiStep, ApiDies, Ages, AcquireLock, ReadLockAge, LookForJobs,
           HealLock, ReacquireLock, Plan, CreateFails, Enqueue, EnqueueFails,
           ReleaseAfterFailure, rows, workerVars, worldVars
<1>5. ASSUME NEW k \in Jobs, HandlerStep(k) \/ LateDelivery(k) \/ HandlerDies(k)
      PROVE  Goal
    <2>1. UNCHANGED <<submit, fal, loop>>
        BY <1>5 DEF workerVars, worldVars, HandlerStep, HandlerDies, HandleResult,
           ReleaseBeforeCommit, GiveSlotBeforeCommit, CommitSuccess, CommitFailure,
           ReleaseAfterCommit, GiveSlotAfterCommit, LateDelivery
    <2>2. CASE k # j
        <3>1. status'[j] = status[j] /\ handler'[j] = handler[j]
            BY <1>5, <2>2 DEF IInv, TypeOK, rows, HandlerStep, HandlerDies, HandleResult,
               ReleaseBeforeCommit, GiveSlotBeforeCommit, CommitSuccess, CommitFailure,
               ReleaseAfterCommit, GiveSlotAfterCommit, LateDelivery, FailRow
        <3> QED
            BY <2>1, <3>1 DEF OwesSlot, Claims
    <2>3. CASE k = j
        <3> USE DEF IInv, TypeOK, rows
        <3>1. CASE HandleResult(j)
            BY <2>1, <3>1 DEF HandleResult, OwesSlot, Claims, Active, RowLocked
        <3>2. CASE ReleaseBeforeCommit(j) \/ GiveSlotBeforeCommit(j)
            <4>1. UNCHANGED status /\ handler[j] \in {"stored", "giveSlot"}
                BY <3>2 DEF ReleaseBeforeCommit, GiveSlotBeforeCommit
            <4>2. handler'[j] \in {"giveSlot", "commit"} /\ submit[j] = "none"
                BY <3>2 DEF ReleaseBeforeCommit, GiveSlotBeforeCommit, RowsInHand, HoldsRow
            <4> QED
                BY <2>1, <4>1, <4>2 DEF OwesSlot, Claims
        <3>3. CASE CommitSuccess(j) \/ LateDelivery(j)
            <4>1. status'[j] = "completed" /\ handler'[j] \in {handler[j], "none"}
                BY <3>3 DEF CommitSuccess, LateDelivery
            <4> QED
                BY <2>1, <4>1 DEF OwesSlot, Claims
        <3>4. CASE CommitFailure(j)
            <4>1. status'[j] = "failed" /\ handler[j] = "unusable" /\ submit[j] = "none"
                BY <3>4 DEF CommitFailure, FailRow, RowsInHand, HoldsRow
            <4> QED
                BY <2>1, <4>1 DEF OwesSlot, Claims
        <3>5. CASE ReleaseAfterCommit(j) \/ GiveSlotAfterCommit(j)
            <4>1. UNCHANGED status /\ handler[j] \in {"failed", "giveSlotLate"}
                BY <3>5 DEF ReleaseAfterCommit, GiveSlotAfterCommit
            <4>2. Over(j)
                BY <4>1 DEF SlotsInHand
            <4> QED
                BY <2>1, <4>1, <4>2 DEF OwesSlot, Claims, Over
        <3>6. CASE HandlerDies(j)
            <4>1. UNCHANGED status /\ handler[j] \notin {"none", "commit"}
                BY <3>6 DEF HandlerDies, ComesIntoUse
            <4>2. handler'[j] = "none"
                BY <3>6 DEF HandlerDies
            <4>3. handler[j] \in {"stored", "unusable", "giveSlot", "failed", "giveSlotLate"}
                BY <4>1
            <4> QED
                BY <2>1, <4>1, <4>2, <4>3 DEF OwesSlot, Claims
        <3> QED
            BY <1>5, <2>3, <3>1, <3>2, <3>3, <3>4, <3>5, <3>6 DEF HandlerStep
    <2> QED
        BY <2>2, <2>3
<1>6. ASSUME NEW k \in Jobs, SubmitStep(k) \/ FalAccepts(k) \/ FalFinishes(k)
      PROVE  Goal
    <2> USE DEF rows
    <2>1. CASE DropMessage(k)
        BY <1>1, <2>1 DEF DropMessage, worldVars
    <2>2. CASE ReserveSlot(k) \/ WaitForSlot(k) \/ Defer(k)
        <3>1. UNCHANGED <<status, handler, fal, loop>>
            BY <2>2 DEF ReserveSlot, WaitForSlot, Defer, worldVars
        <3>2. k = j => ~ReserveSlot(k)
            BY DEF ComesIntoUse
        <3>3. submit'[j] \in {submit[j], "deferring", "none"}
            BY <2>2, <3>2 DEF ReserveSlot, WaitForSlot, Defer, IInv, TypeOK
        <3> QED
            BY <3>1, <3>3 DEF OwesSlot, Claims
    <2>3. CASE StartFails(k) \/ DeferFails(k)
        <3>1. UNCHANGED <<handler, fal>> /\ LoopIdle /\ LoopAt("unlock", k)
            BY <2>3 DEF StartFails, DeferFails, PicksUp, FailCleanly, worldVars
        <3>2. loop'.at = "unlock"
            BY <3>1, LoopGoes DEF IInv
        <3>3. status'[j] \in {status[j], "failed"} /\ submit'[j] \in {submit[j], "none"}
            BY <2>3 DEF StartFails, DeferFails, FailCleanly, FailRow, IInv, TypeOK
        <3> QED
            BY <3>1, <3>2, <3>3 DEF OwesSlot, Claims
    <2>4. CASE SubmitSucceeds(k)
        <3>1. UNCHANGED <<handler, fal, loop>>
            BY <2>4 DEF SubmitSucceeds, worldVars
        <3>2. IF k = j THEN submit[j] = "accepted"
                       ELSE status'[j] = status[j] /\ submit'[j] = submit[j]
            BY <2>4 DEF SubmitSucceeds, IInv, TypeOK
        <3> QED
            BY <3>1, <3>2 DEF OwesSlot, Claims
    <2>5. CASE SubmitFails(k)
        <3>1. UNCHANGED <<handler, fal>> /\ LoopIdle /\ LoopAt("unlockAndGive", k)
            BY <2>5 DEF SubmitFails, FailCleanly, worldVars
        <3>2. loop'.at = "unlockAndGive" /\ loop'.job = k
            BY <3>1, LoopGoes DEF IInv
        <3>3. submit[k] \in {"sending", "accepted"}
            BY <2>5 DEF SubmitFails
        <3>4. status'[j] \in {status[j], "failed"} /\ submit'[j] \in {submit[j], "none"}
            BY <2>5 DEF SubmitFails, FailCleanly, FailRow, IInv, TypeOK
        <3> QED
            BY <3>1, <3>2, <3>3, <3>4 DEF OwesSlot, Claims
    <2>6. CASE FalAccepts(k)
        <3>1. UNCHANGED <<status, handler, loop>> /\ submit[k] = "sending"
            BY <2>6 DEF FalAccepts
        <3>2. k # j => submit'[j] = submit[j] /\ fal'[j] = fal[j]
            BY <2>6 DEF FalAccepts, IInv, TypeOK
        <3> QED
            BY <3>1, <3>2 DEF OwesSlot, Claims
    <2>7. CASE FalFinishes(k)
        <3>1. UNCHANGED <<status, submit, handler, loop>>
            BY <2>7 DEF FalFinishes, workerVars
        <3>2. fal'[j] = fal[j] \/ fal[j] = "running"
            BY <2>7 DEF FalFinishes, IInv, TypeOK
        <3> QED
            BY <3>1, <3>2 DEF OwesSlot, Claims
    <2> QED
        BY <1>6, <2>1, <2>2, <2>3, <2>4, <2>5, <2>6, <2>7 DEF SubmitStep
<1>7. ASSUME NEW k \in Jobs, TimeOut(k) \/ Sweep(k) \/ SweepBlocks(k)
      PROVE  Goal
    <2>1. UNCHANGED <<submit, handler, fal>>
        BY <1>7 DEF TimeOut, Sweep, FailStale, SweepBlocks, worldVars
    <2>2. CASE SweepBlocks(k)
        <3>1. UNCHANGED status /\ loop'.at = "frozen"
            BY <2>2, LoopGoes DEF SweepBlocks, rows, IInv
        <3> QED
            BY <2>1, <3>1 DEF OwesSlot, Claims
    <2>3. CASE FailStale(k)
        <3>1. status'[j] \in {status[j], "failed"}
            BY <2>3 DEF FailStale, FailRow, IInv, TypeOK
        <3>2. \/ loop'.at = "stale"
              \/ loop'.at = "staleWithSlot" /\ loop'.job = k /\ status[k] = "processing"
            BY <2>3, LoopGoes DEF FailStale, IInv
        <3>3. handler[k] # "commit"
            BY <2>3 DEF FailStale, RowLocked
        <3> QED
            BY <2>1, <3>1, <3>2, <3>3 DEF OwesSlot, Claims
    <2> QED
        BY <1>7, <2>2, <2>3 DEF TimeOut, Sweep
<1>8. ASSUME NEW u \in Users, LockAges(u) \/ LockExpires(u)
      PROVE  Goal
    BY <1>1, <1>8 DEF LockAges, LockExpires, rows, workerVars, worldVars
<1>9. CASE LoopStep \/ CountSlots \/ WorkerDies
    <2>1. UNCHANGED <<status, handler, fal>> /\ submit'[j] \in {submit[j], "none"}
        BY <1>9 DEF LoopStep, CountSlots, WorkerDies, UnlockAfterFailure,
           GiveSlotAfterFailure, UnlockAfterStale, SetCounters, rows, worldVars
    <2>2. \/ /\ loop.at \in {"unlockAndGive", "staleWithSlot"}
             /\ LoopAt("giveSlot", loop.job)
          \/ \E w \in {"idle", "reconciling"} : LoopAt(w, NoJob)
        BY <1>9 DEF LoopStep, CountSlots, WorkerDies, UnlockAfterFailure,
           GiveSlotAfterFailure, UnlockAfterStale, SetCounters
    <2>3. \/ loop.at \in {"unlockAndGive", "staleWithSlot"} /\ loop'.job = loop.job
          \/ loop'.at \in {"idle", "reconciling"}
        BY <2>2, LoopGoes DEF IInv
    <2> QED
        BY <2>1, <2>3 DEF OwesSlot, Claims
<1> QED
    BY <1>1, <1>4, <1>5, <1>6, <1>7, <1>8, <1>9 DEF Next, vars, rows, workerVars, worldVars

\* The three places where a slot is given back, and the job it was for.
GivesBack(j) ==
    \/ GiveSlotBeforeCommit(j) \/ GiveSlotAfterCommit(j)
    \/ GiveSlotAfterFailure /\ loop.job = j

\* Who gives a slot back had it, and has it no more.
LEMMA SlotsGivenBack ==
    ASSUME IInv, SlotsInHand, NEW j \in Jobs, GivesBack(j)
    PROVE  OwesSlot(j) /\ ~OwesSlot(j)'
<1> USE DEF IInv, TypeOK, rows
<1>1. CASE GiveSlotBeforeCommit(j)
    <2>1. UNCHANGED <<status, submit, loop>> /\ handler[j] = "giveSlot" /\ handler'[j] = "commit"
        BY <1>1 DEF GiveSlotBeforeCommit, workerVars
    <2>2. Active(j) /\ submit[j] = "none"
        BY <2>1 DEF RowsInHand, HoldsRow
    <2>3. ~(loop.at \in {"unlockAndGive", "staleWithSlot", "giveSlot"} /\ loop.job = j)
        BY <2>1 DEF SlotsInHand, Settling
    <2> QED
        BY <2>1, <2>2, <2>3 DEF OwesSlot
<1>2. CASE GiveSlotAfterCommit(j)
    <2>1. UNCHANGED <<status, submit, loop>> /\ handler[j] = "giveSlotLate" /\ handler'[j] = "none"
        BY <1>2 DEF GiveSlotAfterCommit, workerVars
    <2>2. Over(j)
        BY <2>1 DEF SlotsInHand
    <2>3. submit[j] = "none"
        BY <2>2 DEF RowsInHand, Over
    <2>4. ~(loop.at \in {"unlockAndGive", "staleWithSlot", "giveSlot"} /\ loop.job = j)
        BY <2>1 DEF SlotsInHand, Settling
    <2> QED
        BY <2>1, <2>2, <2>3, <2>4 DEF OwesSlot, Over
<1>3. CASE GiveSlotAfterFailure /\ loop.job = j
    <2>1. UNCHANGED <<status, submit, handler>> /\ loop.at = "giveSlot" /\ LoopAt("idle", NoJob)
        BY <1>3 DEF GiveSlotAfterFailure
    <2>2. Over(j) /\ handler[j] = "none" /\ loop'.at = "idle"
        BY <1>3, <2>1, LoopGoes DEF SlotsInHand, Settling
    <2>3. submit[j] = "none"
        BY <2>2 DEF RowsInHand, Over
    <2> QED
        BY <1>3, <2>1, <2>2, <2>3 DEF OwesSlot, Over
<1> QED
    BY <1>1, <1>2, <1>3 DEF GivesBack

\* What a step does to the counter of a team.
CounterMove(t) ==
    \/ SetCounters
    \/ \E j \in Jobs : Team(j) = t /\ ReserveSlot(j) /\ inflight'[t] = inflight[t] + 1
    \/ \E j \in Jobs : Team(j) = t /\ GivesBack(j) /\ inflight'[t] = inflight[t] - 1
    \/ inflight'[t] = inflight[t]

\* The counter moves by one with a reservation or a release, and is set by
\* a reconcile; a team once skewed stays skewed.
LEMMA CounterMoves ==
    ASSUME TypeOK, SlotsInHand, [Next]_vars, NEW t \in Teams
    PROVE  CounterMove(t) /\ (skewed[t] => skewed'[t])
<1> USE DEF CounterMove, slotVars
<1>1. CASE UNCHANGED vars
    BY <1>1 DEF vars
<1>2. ASSUME NEW r \in Requests, ApiStep(r) \/ ApiDies(r) \/ Ages(r)
      PROVE  inflight' = inflight /\ skewed' = skewed
    BY <1>2 DEF ApiStep, ApiDies, Ages, AcquireLock, ReadLockAge, LookForJobs, HealLock,
           ReacquireLock, Plan, CreateBatch, CreateFails, Enqueue, EnqueueFails,
           FailAndRelease, ReleaseAfterFailure
<1>3. ASSUME NEW j \in Jobs, HandlerStep(j) \/ LateDelivery(j) \/ HandlerDies(j)
      PROVE  CounterMove(t) /\ (skewed[t] => skewed'[t])
    <2>1. CASE \/ HandleResult(j) \/ ReleaseBeforeCommit(j) \/ CommitSuccess(j)
               \/ CommitFailure(j) \/ ReleaseAfterCommit(j) \/ LateDelivery(j)
        BY <2>1 DEF HandleResult, ReleaseBeforeCommit, CommitSuccess, CommitFailure,
               ReleaseAfterCommit, LateDelivery
    <2>2. CASE GiveSlotBeforeCommit(j) \/ GiveSlotAfterCommit(j)
        <3>1. /\ inflight' = [inflight EXCEPT ![Team(j)] = @ - 1]
              /\ skewed' = skewed
              /\ GivesBack(j)
            BY <2>2 DEF GiveSlotBeforeCommit, GiveSlotAfterCommit, GiveSlot, GivesBack
        <3> QED
            BY <3>1 DEF TypeOK
    <2>3. CASE HandlerDies(j)
        BY <2>3 DEF HandlerDies, TypeOK
    <2> QED
        BY <1>3, <2>1, <2>2, <2>3 DEF HandlerStep
<1>4. ASSUME NEW j \in Jobs, SubmitStep(j)
      PROVE  CounterMove(t) /\ skewed' = skewed
    <2>1. CASE ReserveSlot(j)
        BY <2>1 DEF ReserveSlot, TypeOK
    <2>2. CASE ~ReserveSlot(j)
        BY <1>4, <2>2 DEF SubmitStep, DropMessage, WaitForSlot, StartFails, Defer,
               DeferFails, SubmitSucceeds, SubmitFails, FailCleanly
    <2> QED
        BY <2>1, <2>2
<1>5. ASSUME NEW j \in Jobs, \/ TimeOut(j) \/ Sweep(j) \/ SweepBlocks(j)
                             \/ FalAccepts(j) \/ FalFinishes(j)
      PROVE  inflight' = inflight /\ skewed' = skewed
    BY <1>5 DEF TimeOut, Sweep, FailStale, SweepBlocks, FalAccepts, FalFinishes
<1>6. ASSUME NEW u \in Users, LockAges(u) \/ LockExpires(u)
      PROVE  inflight' = inflight /\ skewed' = skewed
    BY <1>6 DEF LockAges, LockExpires
<1>7. CASE LoopStep \/ CountSlots \/ WorkerDies
    <2>1. CASE GiveSlotAfterFailure
        <3>1. /\ inflight' = [inflight EXCEPT ![Team(loop.job)] = @ - 1]
              /\ skewed' = skewed
            BY <2>1 DEF GiveSlotAfterFailure, GiveSlot
        <3>2. loop.job \in Jobs /\ GivesBack(loop.job)
            BY <2>1 DEF GiveSlotAfterFailure, GivesBack, SlotsInHand, Settling
        <3> QED
            BY <3>1, <3>2 DEF TypeOK
    <2>2. CASE SetCounters
        BY <2>2 DEF SetCounters
    <2>3. CASE ~GiveSlotAfterFailure /\ ~SetCounters
        BY <1>7, <2>3 DEF LoopStep, CountSlots, WorkerDies, UnlockAfterFailure,
               UnlockAfterStale
    <2> QED
        BY <2>1, <2>2, <2>3
<1> QED
    BY <1>1, <1>2, <1>3, <1>4, <1>5, <1>6, <1>7 DEF Next

\* Every step keeps the counter of a team that has not been skewed at or
\* above its slots in use, and those within the limit: a slot is reserved
\* only when the counter, and so the slots it covers, leave room for it.
LEMMA SlotsStep ==
    ASSUME IInv, SlotsInHand, SlotsCovered, ClaimsCapped, [Next]_vars
    PROVE  SlotsCovered' /\ ClaimsCapped'
<1> SUFFICES ASSUME NEW t \in Teams, ~skewed'[t]
             PROVE  /\ inflight'[t] >= Cardinality(Owing(t)')
                    /\ Cardinality(Claiming(t)') <= Limit
    BY DEF SlotsCovered, ClaimsCapped
<1>1. TypeOK /\ inflight[t] \in Int /\ inflight'[t] \in Int /\ Limit \in Nat
    BY TypeStep, GenerationAssumption DEF IInv, TypeOK
<1>2. CounterMove(t) /\ ~skewed[t]
    BY <1>1, CounterMoves
<1>3. /\ IsFiniteSet(Owing(t)) /\ IsFiniteSet(Claiming(t))
      /\ Cardinality(Owing(t)) \in Nat /\ Cardinality(Claiming(t)) \in Nat
    BY JobsAreFinite, FS_Subset, FS_CardinalityType DEF Owing, Claiming
<1>4. /\ inflight[t] >= Cardinality(Owing(t))
      /\ Cardinality(Claiming(t)) <= Limit
    BY <1>2 DEF SlotsCovered, ClaimsCapped
<1>5. Claiming(t) \subseteq Owing(t)
    BY DEF Claiming, Claims, Owing, OwesSlot
<1>6. Cardinality(Claiming(t)) <= Cardinality(Owing(t))
    BY <1>3, <1>5, FS_Subset
<1>7. ASSUME NEW j \in Jobs, Team(j) = t, HandlerDies(j)
      PROVE  handler[j] # "commit"
    BY <1>7, <1>1 DEF HandlerDies, TypeOK
<1>8. CASE \A j \in Jobs : Team(j) = t => ~ReserveSlot(j)
    <2>1. \A j \in Jobs : Team(j) = t => ~ComesIntoUse(j)
        BY <1>7, <1>8 DEF ComesIntoUse
    <2>2. Owing(t)' \subseteq Owing(t) /\ Claiming(t)' \subseteq Claiming(t)
        BY <2>1, SlotsTaken DEF Owing, Claiming
    <2>3. /\ Cardinality(Owing(t)') \in Nat /\ Cardinality(Owing(t)') <= Cardinality(Owing(t))
          /\ Cardinality(Claiming(t)') \in Nat
          /\ Cardinality(Claiming(t)') <= Cardinality(Claiming(t))
        BY <1>3, <2>2, FS_Subset, FS_CardinalityType
    <2>4. CASE SetCounters
        <3>1. inflight'[t] = counted[t] /\ ~(counted[t] < Cardinality(Owing(t)))
            BY <2>4 DEF SetCounters
        <3>2. counted[t] \in Nat
            BY <1>1 DEF TypeOK
        <3> QED
            BY <1>3, <1>4, <2>3, <3>1, <3>2, <1>1
    <2>5. CASE inflight'[t] = inflight[t]
        BY <1>1, <1>3, <1>4, <2>3, <2>5
    <2>6. ASSUME NEW j \in Jobs, Team(j) = t, GivesBack(j), inflight'[t] = inflight[t] - 1
          PROVE  inflight'[t] >= Cardinality(Owing(t)')
        <3>1. j \in Owing(t) /\ j \notin Owing(t)'
            BY <2>6, SlotsGivenBack DEF Owing
        <3>2. Cardinality(Owing(t)') <= Cardinality(Owing(t)) - 1
            BY <1>3, <2>2, <3>1, OneLess
        <3> QED
            BY <1>1, <1>3, <1>4, <2>3, <2>6, <3>2
    <2>7. Cardinality(Claiming(t)') <= Limit
        BY <1>1, <1>3, <1>4, <2>3
    <2> QED
        BY <1>2, <1>8, <2>4, <2>5, <2>6, <2>7 DEF CounterMove
<1>9. ASSUME NEW j \in Jobs, Team(j) = t, ReserveSlot(j)
      PROVE  /\ inflight'[t] >= Cardinality(Owing(t)')
             /\ Cardinality(Claiming(t)') <= Limit
    <2>1. inflight'[t] = inflight[t] + 1 /\ inflight[t] + 1 <= Limit
        BY <1>1, <1>9 DEF ReserveSlot, HasRoom, TypeOK
    <2>2. \A k \in Jobs : k # j /\ Team(k) = t => ~ComesIntoUse(k)
        <3>1. \A k \in Jobs : ReserveSlot(k) => k = j
            BY <1>1, <1>9 DEF ReserveSlot, PicksUp, RowLocked, TypeOK
        <3> QED
            BY <1>7, <3>1 DEF ComesIntoUse
    <2>3. /\ Owing(t)' \subseteq Owing(t) \union {j}
          /\ Claiming(t)' \subseteq Claiming(t) \union {j}
        BY <2>2, SlotsTaken DEF Owing, Claiming
    <2>4. /\ Cardinality(Owing(t)') \in Nat /\ Cardinality(Claiming(t)') \in Nat
          /\ Cardinality(Owing(t)') <= Cardinality(Owing(t)) + 1
          /\ Cardinality(Claiming(t)') <= Cardinality(Claiming(t)) + 1
        BY <1>3, <2>3, AtMostOneMore
    <2> QED
        BY <1>1, <1>3, <1>4, <1>6, <2>1, <2>4
<1> QED
    BY <1>8, <1>9

\* The slots are accounted for in every reachable state.
LEMMA SlotInvariance == Spec => [](IInv /\ SlotsInHand /\ SlotsCovered /\ ClaimsCapped)
<1>1. Init => SlotsInHand /\ SlotsCovered /\ ClaimsCapped
    <2> SUFFICES ASSUME Init PROVE SlotsInHand /\ SlotsCovered /\ ClaimsCapped
        OBVIOUS
    <2>1. SlotsInHand
        BY DEF Init, SlotsInHand, Settling
    <2>2. \A j \in Jobs : ~OwesSlot(j) /\ ~Claims(j)
        BY DEF Init, OwesSlot, Claims
    <2>3. \A t \in Teams : Owing(t) = {} /\ Claiming(t) = {} /\ inflight[t] = 0
        BY <2>2 DEF Init, Owing, Claiming
    <2>4. Cardinality({}) = 0 /\ 0 <= Limit
        BY FS_EmptySet, GenerationAssumption
    <2> QED
        BY <2>1, <2>3, <2>4 DEF SlotsCovered, ClaimsCapped
<1>2. IInv /\ SlotsInHand /\ SlotsCovered /\ ClaimsCapped /\ [Next]_vars
      => (SlotsInHand /\ SlotsCovered /\ ClaimsCapped)'
    BY SlotsInHandStep, SlotsStep
<1> QED
    BY Invariance, <1>1, <1>2, PTL DEF Spec

\* The slot counter of a team covers every slot that is in use or still to
\* be given back, unless a reconcile or a dying handler has skewed it.
THEOREM SlotsAreCovered == Spec => []SlotsCovered
BY SlotInvariance, PTL

\* A team never has more requests at fal than its limit, unless its counter
\* has been skewed.
THEOREM SlotsAreCapped == Spec => []SlotCap
<1>1. IInv /\ ClaimsCapped => SlotCap
    <2> SUFFICES ASSUME ClaimsCapped, NEW t \in Teams, ~skewed[t]
                 PROVE  Cardinality(AtFal(t)) <= Limit
        BY DEF SlotCap
    <2>1. IsFiniteSet(Claiming(t)) /\ AtFal(t) \subseteq Claiming(t)
        BY JobsAreFinite, FS_Subset DEF Claiming, Claims, AtFal
    <2>2. /\ Cardinality(AtFal(t)) <= Cardinality(Claiming(t))
          /\ Cardinality(AtFal(t)) \in Nat /\ Cardinality(Claiming(t)) \in Nat
        BY <2>1, FS_Subset, FS_CardinalityType
    <2> QED
        BY <2>2, GenerationAssumption DEF ClaimsCapped
<1> QED
    BY SlotInvariance, <1>1, PTL
-----------------------------------------------------------------------------
(* The per-user lock.                                                      *)

\* A set of one element at most has no two.
LEMMA AtMostOneElement ==
    ASSUME NEW S, IsFiniteSet(S), Cardinality(S) <= 1, NEW x \in S, NEW y \in S
    PROVE  x = y
<1>1. /\ IsFiniteSet(S \ {x})
      /\ Cardinality(S \ {x}) = Cardinality(S) - 1
    BY FS_RemoveElement
<1>2. Cardinality(S) \in Nat /\ Cardinality(S \ {x}) \in Nat
    BY <1>1, FS_CardinalityType
<1>3. Cardinality(S \ {x}) = 0
    BY <1>1, <1>2
<1>4. S \ {x} = {}
    BY <1>1, <1>3, FS_EmptySet
<1> QED
    BY <1>4

\* The steps that take or delete the lock of user u, and what they know.
LockMove(u) ==
    \/ \E r \in Requests : /\ UserOf[r] = u /\ lock[u] = Nobody /\ lock'[u] = r
                           /\ AcquireLock(r) \/ ReacquireLock(r)
    \/ \E r \in Requests : /\ UserOf[r] = u
                           /\ \/ HealLock(r)
                              \/ Plan(r) /\ api'[r] = "finished"
                              \/ CreateFails(r)
                              \/ ReleaseAfterFailure(r)
    \/ \E j \in Jobs : /\ User(j) = u
                       /\ \/ ReleaseBeforeCommit(j) /\ Remaining(j[1]) <= 1
                          \/ ReleaseAfterCommit(j)
    \/ UnlockAfterFailure /\ User(loop.job) = u
    \/ UnlockAfterStale /\ User(loop.job) = u /\ ~UserActive(u)
    \/ LockExpires(u)

\* Deleting the lock of one user leaves the others' alone.
LEMMA OnlyThatLock ==
    ASSUME TypeOK, NEW u \in Users, NEW v, DelLock(v), lock'[u] # lock[u]
    PROVE  u = v
BY DEF TypeOK, DelLock

\* Setting a user's lock leaves the others' alone.
LEMMA OnlyThatHolder ==
    ASSUME TypeOK, NEW u \in Users, NEW r \in Requests, SetLock(r), lock'[u] # lock[u]
    PROVE  UserOf[r] = u /\ lock'[u] = r
BY DEF TypeOK, SetLock

\* No other step changes a lock's holder.
LEMMA LockMoves ==
    ASSUME TypeOK, SlotsInHand, [Next]_vars, NEW u \in Users, lock'[u] # lock[u]
    PROVE  LockMove(u)
<1> USE DEF locks
<1>1. CASE UNCHANGED vars
    BY <1>1 DEF vars
<1>2. ASSUME NEW r \in Requests, ApiStep(r) \/ ApiDies(r) \/ Ages(r)
      PROVE  LockMove(u)
    <2>1. CASE AcquireLock(r)
        <3>1. lock[UserOf[r]] = Nobody /\ SetLock(r)
            BY <2>1 DEF AcquireLock
        <3> QED
            BY <2>1, <3>1, OnlyThatHolder DEF LockMove
    <2>2. CASE ReacquireLock(r)
        <3>1. lock[UserOf[r]] = Nobody /\ SetLock(r)
            BY <2>2 DEF ReacquireLock
        <3> QED
            BY <2>2, <3>1, OnlyThatHolder DEF LockMove
    <2>3. CASE HealLock(r) \/ CreateFails(r)
        <3>1. DelLock(UserOf[r])
            BY <2>3 DEF HealLock, CreateFails
        <3> QED
            BY <2>3, <3>1, OnlyThatLock DEF LockMove
    <2>4. CASE Plan(r)
        <3>1. DelLock(UserOf[r]) /\ api'[r] = "finished"
            BY <2>4 DEF Plan, ApiAt, TypeOK
        <3> QED
            BY <2>4, <3>1, OnlyThatLock DEF LockMove
    <2>5. CASE ReleaseAfterFailure(r)
        <3>1. DelLock(UserOf[r])
            BY <2>5 DEF ReleaseAfterFailure
        <3> QED
            BY <2>5, <3>1, OnlyThatLock DEF LockMove
    <2> QED
        BY <1>2, <2>1, <2>2, <2>3, <2>4, <2>5 DEF ApiStep, ApiDies, Ages, ReadLockAge, LookForJobs,
           CreateBatch, Enqueue, EnqueueFails, FailAndRelease
<1>3. ASSUME NEW j \in Jobs, HandlerStep(j) \/ LateDelivery(j) \/ HandlerDies(j)
      PROVE  LockMove(u)
    <2>1. CASE ReleaseBeforeCommit(j)
        <3>1. DelLock(User(j)) /\ Remaining(j[1]) <= 1
            BY <2>1 DEF ReleaseBeforeCommit
        <3> QED
            BY <2>1, <3>1, OnlyThatLock DEF LockMove
    <2>2. CASE ReleaseAfterCommit(j)
        <3>1. DelLock(User(j))
            BY <2>2 DEF ReleaseAfterCommit
        <3> QED
            BY <2>2, <3>1, OnlyThatLock DEF LockMove
    <2> QED
        BY <1>3, <2>1, <2>2 DEF HandlerStep, HandlerDies, HandleResult,
           GiveSlotBeforeCommit, CommitSuccess, CommitFailure, GiveSlotAfterCommit,
           LateDelivery
<1>4. ASSUME NEW j \in Jobs, \/ SubmitStep(j) \/ TimeOut(j) \/ Sweep(j)
                             \/ SweepBlocks(j) \/ FalAccepts(j) \/ FalFinishes(j)
      PROVE  lock' = lock
    BY <1>4 DEF SubmitStep, DropMessage, ReserveSlot, WaitForSlot, StartFails, Defer,
           DeferFails, SubmitSucceeds, SubmitFails, FailCleanly, TimeOut, Sweep,
           FailStale, SweepBlocks, FalAccepts, FalFinishes
<1>5. ASSUME NEW v \in Users, LockAges(v) \/ LockExpires(v)
      PROVE  LockMove(u)
    <2>1. LockExpires(v) /\ DelLock(v)
        BY <1>5 DEF LockAges, LockExpires
    <2> QED
        BY <2>1, OnlyThatLock DEF LockMove
<1>6. CASE LoopStep \/ CountSlots \/ WorkerDies
    <2>1. CASE UnlockAfterFailure
        BY <2>1, OnlyThatLock DEF UnlockAfterFailure, LockMove
    <2>2. CASE UnlockAfterStale
        <3>1. DelLock(User(loop.job)) /\ ~UserActive(User(loop.job))
            BY <2>2 DEF UnlockAfterStale
        <3> QED
            BY <2>2, <3>1, OnlyThatLock DEF LockMove
    <2> QED
        BY <1>6, <2>1, <2>2 DEF LoopStep, CountSlots, WorkerDies, GiveSlotAfterFailure,
           SetCounters
<1> QED
    BY <1>1, <1>2, <1>3, <1>4, <1>5, <1>6 DEF Next

\* A worker or a handler that dies is counted, and nothing is forgotten.
LEMMA HistoryGrows ==
    ASSUME TypeOK, [Next]_vars
    PROVE  /\ deaths' \in Nat /\ deaths' >= deaths
           /\ healed \subseteq healed'
           /\ \A j \in Jobs : HandlerDies(j) => deaths' >= 1
           /\ \A r \in Requests : HealLock(r) => UserOf[r] \in healed'
<1> USE DEF requestVars, worldVars
<1>1. deaths \in Nat
    BY GenerationAssumption DEF TypeOK
<1>2. \A r \in Requests : HealLock(r) => UserOf[r] \in healed'
    BY DEF HealLock, ApiAt
<1>3. \A j \in Jobs : HandlerDies(j) => deaths' = deaths + 1
    BY DEF HandlerDies
<1>4. deaths' \in {deaths, deaths + 1} /\ healed \subseteq healed'
    <2>1. CASE UNCHANGED vars
        BY <2>1 DEF vars
    <2>2. ASSUME NEW r \in Requests, ApiStep(r) \/ ApiDies(r) \/ Ages(r)
          PROVE  deaths' = deaths /\ healed \subseteq healed'
        BY <2>2 DEF ApiAt, ApiStep, ApiDies, Ages, AcquireLock, ReadLockAge, LookForJobs, HealLock,
               ReacquireLock, Plan, CreateBatch, CreateFails, Enqueue, EnqueueFails,
               FailAndRelease, ReleaseAfterFailure
    <2>3. ASSUME NEW j \in Jobs, HandlerStep(j) \/ LateDelivery(j) \/ HandlerDies(j)
          PROVE  deaths' \in {deaths, deaths + 1} /\ healed' = healed
        BY <2>3 DEF HandlerStep, HandlerDies, HandleResult, ReleaseBeforeCommit,
               GiveSlotBeforeCommit, CommitSuccess, CommitFailure, ReleaseAfterCommit,
               GiveSlotAfterCommit, LateDelivery
    <2>4. ASSUME NEW j \in Jobs, \/ SubmitStep(j) \/ TimeOut(j) \/ Sweep(j)
                                 \/ SweepBlocks(j) \/ FalAccepts(j) \/ FalFinishes(j)
          PROVE  deaths' = deaths /\ healed' = healed
        BY <2>4 DEF SubmitStep, DropMessage, ReserveSlot, WaitForSlot, StartFails, Defer,
               DeferFails, SubmitSucceeds, SubmitFails, FailCleanly, TimeOut, Sweep,
               FailStale, SweepBlocks, FalAccepts, FalFinishes
    <2>5. ASSUME NEW v \in Users, LockAges(v) \/ LockExpires(v)
          PROVE  deaths' = deaths /\ healed' = healed
        BY <2>5 DEF LockAges, LockExpires
    <2>6. CASE LoopStep \/ CountSlots \/ WorkerDies
        BY <2>6 DEF LoopStep, CountSlots, WorkerDies, UnlockAfterFailure,
               GiveSlotAfterFailure, UnlockAfterStale, SetCounters
    <2> QED
        BY <2>1, <2>2, <2>3, <2>4, <2>5, <2>6 DEF Next
<1> QED
    BY <1>1, <1>2, <1>3, <1>4
-----------------------------------------------------------------------------
\* What can become of a job's row in one step.
RowFate(j) ==
    \/ status'[j] = status[j] /\ error'[j] = error[j]
    \/ status[j] = "none" /\ status'[j] = "queued" /\ error'[j] = error[j]
                          /\ CreateBatch(j[1])
    \/ status[j] = "queued" /\ status'[j] = "processing" /\ error'[j] = error[j]
    \/ /\ status'[j] = "completed" /\ error'[j] = error[j]
       /\ Active(j) \/ (status[j] = "failed" /\ error[j] = "timeout")
    \/ status'[j] = "failed" /\ error'[j] \in {"enqueue", "fal", "start"}
    \/ status'[j] = "failed" /\ error'[j] = "timeout" /\ age[j[1]] >= 1

\* There is no other fate: rows are inserted with their batch, settled by one
\* commit, and failed of a timeout only past their budget.
LEMMA RowFates ==
    ASSUME IInv, [Next]_vars, NEW j \in Jobs
    PROVE  RowFate(j)
<1> USE DEF IInv, TypeOK
<1>1. CASE ~RowStep
    BY <1>1, RowsChangeInRowSteps DEF rows, RowFate
<1>2. ASSUME NEW r \in Requests, CreateBatch(r)
      PROVE  RowFate(j)
    <2>1. PICK n \in 1 .. MaxOutputs :
            status' = [k \in Jobs |-> IF k \in {r} \X (1 .. n) THEN "queued"
                                                             ELSE status[k]]
        BY <1>2, BatchIsPaid
    <2>2. j \in {r} \X (1 .. n) => j[1] = r /\ status[j] = "none"
        BY <1>2 DEF CreateBatch, ApiAt, BatchShape, Before, Created, Batch, Jobs
    <2>3. error' = error
        BY <1>2 DEF CreateBatch
    <2> QED
        BY <1>2, <2>1, <2>2, <2>3 DEF RowFate
<1>3. ASSUME NEW r \in Requests, FailAndRelease(r)
      PROVE  RowFate(j)
    BY <1>3 DEF FailAndRelease, FailRow, RowFate
<1>4. ASSUME NEW k \in Jobs, CommitSuccess(k) \/ LateDelivery(k)
      PROVE  RowFate(j)
    BY <1>4 DEF CommitSuccess, LateDelivery, RowsInHand, HoldsRow, RowFate
<1>5. ASSUME NEW k \in Jobs, SubmitSucceeds(k)
      PROVE  RowFate(j)
    BY <1>5 DEF SubmitSucceeds, RowsInHand, RowFate
<1>6. ASSUME NEW k \in Jobs, \/ CommitFailure(k) \/ StartFails(k) \/ DeferFails(k)
                             \/ SubmitFails(k)
      PROVE  RowFate(j)
    BY <1>6 DEF CommitFailure, StartFails, DeferFails, SubmitFails, FailCleanly,
                FailRow, RowFate
<1>7. ASSUME NEW k \in Jobs, TimeOut(k) \/ Sweep(k)
      PROVE  RowFate(j)
    <2>1. age[k[1]] >= 1
        <3>1. age[k[1]] \in 0 .. 3
            BY DEF Jobs
        <3> QED
            BY <1>7, <3>1 DEF TimeOut, Sweep
    <2>2. FailRow(k, "timeout")
        BY <1>7 DEF TimeOut, Sweep, FailStale
    <2> QED
        BY <2>1, <2>2 DEF FailRow, RowFate
<1> QED
    BY <1>1, <1>2, <1>3, <1>4, <1>5, <1>6, <1>7 DEF RowStep

\* Who lets go of a lock because a job failed finds the failure in its row:
\* an error stays, and only that of a timeout can be followed by a delivery.
ErrorsExplained ==
    /\ \A j \in Jobs : /\ status[j] = "completed" => error[j] \in {"none", "timeout"}
                       /\ error[j] = "timeout" => age[j[1]] >= 1
                       /\ handler[j] = "failed" => error[j] # "none"
    /\ \A r \in Requests : api[r] = "releasing" => error[<<r, next[r]>>] # "none"
    /\ loop.at \in {"unlock", "unlockAndGive"} => error[loop.job] # "none"

\* A batch does not get younger.
LEMMA AgesGrow ==
    ASSUME TypeOK, [Next]_vars, NEW r \in Requests
    PROVE  age[r] \in 0 .. 3 /\ age'[r] >= age[r]
<1>1. age'[r] = age[r] \/ Ages(r)
    BY WhoMoves
<1> QED
    BY <1>1 DEF TypeOK, Ages

\* Every step leaves each failure explained.
LEMMA ErrorsExplainedStep ==
    ASSUME IInv, SlotsInHand, ErrorsExplained, [Next]_vars
    PROVE  ErrorsExplained'
<1> USE DEF IInv, TypeOK
<1>1. ASSUME NEW j \in Jobs
      PROVE  /\ error[j] # "none" => error'[j] # "none"
             /\ status'[j] = "completed" => error'[j] \in {"none", "timeout"}
             /\ error'[j] = "timeout" => age'[j[1]] >= 1
    <2>1. j[1] \in Requests
        BY DEF Jobs
    <2>2. age[j[1]] \in 0 .. 3 /\ age'[j[1]] >= age[j[1]]
        BY <2>1, AgesGrow
    <2>3. age'[j[1]] \in 0 .. 3
        BY <2>1, TypeStep
    <2>4. Active(j) => error[j] = "none"
        BY DEF Errors
    <2> QED
        BY <2>2, <2>3, <2>4, RowFates DEF RowFate, ErrorsExplained, Active
<1>2. ASSUME NEW j \in Jobs, handler'[j] = "failed"
      PROVE  error'[j] # "none"
    <2>1. CASE handler[j] = "failed"
        BY <1>1, <2>1 DEF ErrorsExplained
    <2>2. CASE CommitFailure(j)
        BY <2>2 DEF CommitFailure, FailRow
    <2>3. handler'[j] = handler[j] \/ HandlerStep(j) \/ HandlerDies(j)
        BY WhoMoves
    <2> QED
        BY <1>2, <2>1, <2>2, <2>3 DEF HandlerStep, HandlerDies, HandleResult,
           ReleaseBeforeCommit, GiveSlotBeforeCommit, CommitSuccess, ReleaseAfterCommit,
           GiveSlotAfterCommit
<1>3. ASSUME NEW r \in Requests, api'[r] = "releasing"
      PROVE  (error[<<r, next[r]>>])' # "none"
    <2>1. <<r, next[r]>> \in Jobs
        BY LoopJob
    <2>2. CASE api[r] = "releasing" /\ next'[r] = next[r]
        BY <1>1, <2>1, <2>2 DEF ErrorsExplained
    <2>3. CASE FailAndRelease(r)
        BY <2>1, <2>3 DEF FailAndRelease, FailRow
    <2>4. CASE ~(ApiStep(r) \/ ApiDies(r))
        BY <1>3, <2>2, <2>4, ControlStays
    <2> QED
        BY <1>3, <2>2, <2>3, <2>4 DEF ApiStep, ApiDies, ApiAt, AcquireLock, ReadLockAge, LookForJobs,
           HealLock, ReacquireLock, LockGranted, Plan, CreateBatch, CreateFails,
           Enqueue, EnqueueFails, ReleaseAfterFailure
<1>4. ASSUME loop'.at \in {"unlock", "unlockAndGive"}
      PROVE  (error[loop.job])' # "none"
    <2>1. CASE loop' = loop
        <3>1. loop.job \in Jobs /\ error[loop.job] # "none"
            BY <1>4, <2>1 DEF ErrorsExplained, SlotsInHand, Settling
        <3> QED
            BY <1>1, <2>1, <3>1
    <2>2. ASSUME NEW k \in Jobs, StartFails(k) \/ DeferFails(k) \/ SubmitFails(k)
          PROVE  (error[loop.job])' # "none"
        <3>1. error'[k] # "none" /\ loop'.job = k
            BY <2>2, LoopGoes DEF StartFails, DeferFails, SubmitFails, FailCleanly, FailRow
        <3> QED
            BY <3>1
    <2>3. ASSUME NEW k \in Jobs, TimeOut(k) \/ Sweep(k) \/ SweepBlocks(k)
          PROVE  FALSE
        <3>1. loop'.at \in {"stale", "staleWithSlot", "frozen"}
            BY <2>3, LoopGoes DEF TimeOut, Sweep, FailStale, SweepBlocks
        <3> QED
            BY <1>4, <3>1
    <2>4. CASE LoopStep \/ CountSlots \/ WorkerDies
        <3>1. \/ LoopAt("giveSlot", loop.job)
              \/ \E w \in {"idle", "reconciling"} : LoopAt(w, NoJob)
            BY <2>4 DEF LoopStep, CountSlots, WorkerDies, UnlockAfterFailure,
                        GiveSlotAfterFailure, UnlockAfterStale, SetCounters
        <3>2. loop'.at \in {"giveSlot", "idle", "reconciling"}
            BY <3>1, LoopGoes
        <3> QED
            BY <1>4, <3>2
    <2> QED
        BY <2>1, <2>2, <2>3, <2>4, WhoMoves DEF LoopMoves
<1> QED
    BY <1>1, <1>2, <1>3, <1>4 DEF ErrorsExplained
-----------------------------------------------------------------------------
\* A message is written by the enqueue loop, and by a deferral.
LEMMA MessagesComeFrom ==
    ASSUME TypeOK, [Next]_vars, NEW j \in Jobs, j \in arq', j \notin arq
    PROVE  Enqueue(j[1]) \/ EnqueueFails(j[1]) \/ Defer(j)
<1> USE DEF workerVars
<1>1. CASE UNCHANGED vars
    BY <1>1 DEF vars
<1>2. ASSUME NEW r \in Requests, ApiStep(r) \/ ApiDies(r) \/ Ages(r)
      PROVE  Enqueue(j[1]) \/ EnqueueFails(j[1])
    <2>1. CASE Enqueue(r) \/ EnqueueFails(r)
        <3>1. j = <<r, next[r]>>
            BY <2>1 DEF Enqueue, EnqueueFails
        <3> QED
            BY <2>1, <3>1
    <2>2. CASE ~(Enqueue(r) \/ EnqueueFails(r))
        BY <1>2, <2>2 DEF ApiStep, ApiDies, Ages, AcquireLock, ReadLockAge, LookForJobs, HealLock,
           ReacquireLock, Plan, CreateBatch, CreateFails, FailAndRelease,
           ReleaseAfterFailure
    <2> QED
        BY <2>1, <2>2
<1>3. ASSUME NEW k \in Jobs, HandlerStep(k) \/ LateDelivery(k) \/ HandlerDies(k)
      PROVE  arq' = arq
    BY <1>3 DEF HandlerStep, HandlerDies, HandleResult, ReleaseBeforeCommit,
           GiveSlotBeforeCommit, CommitSuccess, CommitFailure, ReleaseAfterCommit,
           GiveSlotAfterCommit, LateDelivery
<1>4. ASSUME NEW k \in Jobs, SubmitStep(k)
      PROVE  Defer(j)
    <2>1. CASE Defer(k)
        BY <2>1 DEF Defer
    <2>2. CASE ~Defer(k)
        BY <1>4, <2>2 DEF SubmitStep, DropMessage, ReserveSlot, WaitForSlot, StartFails,
           DeferFails, SubmitSucceeds, SubmitFails, FailCleanly
    <2> QED
        BY <2>1, <2>2
<1>5. ASSUME NEW k \in Jobs, \/ TimeOut(k) \/ Sweep(k) \/ SweepBlocks(k)
                             \/ FalAccepts(k) \/ FalFinishes(k)
      PROVE  arq' = arq
    BY <1>5 DEF TimeOut, Sweep, FailStale, SweepBlocks, FalAccepts, FalFinishes
<1>6. ASSUME NEW u \in Users, LockAges(u) \/ LockExpires(u)
      PROVE  arq' = arq
    BY <1>6 DEF LockAges, LockExpires
<1>7. CASE LoopStep \/ CountSlots \/ WorkerDies
    BY <1>7 DEF LoopStep, CountSlots, WorkerDies, UnlockAfterFailure,
           GiveSlotAfterFailure, UnlockAfterStale, SetCounters
<1> QED
    BY <1>1, <1>2, <1>3, <1>4, <1>5, <1>6, <1>7 DEF Next

\* The clean-up after a timeout is that of a batch past its budget.
TimeoutsAreLate ==
    loop.at \in {"stale", "staleWithSlot"} => age[loop.job[1]] >= 1

\* Nobody has touched the jobs that the enqueue loop has not come to: no
\* message, no submission, no request at fal, no result; a row is queued, or
\* the sweep has failed it.
Fresh(j) ==
    /\ j \notin arq /\ submit[j] = "none" /\ handler[j] = "none" /\ fal[j] = "none"
    /\ status[j] \in {"none", "queued", "failed"}

RestIsFresh ==
    \A r \in Requests, i \in 1 .. MaxOutputs :
        api[r] \in Before \union {"enqueueing"} /\ i >= next[r] => Fresh(<<r, i>>)

\* A batch past its budget stays so.
LEMMA TimeoutsAreLateStep ==
    ASSUME IInv, SlotsInHand, TimeoutsAreLate, [Next]_vars
    PROVE  TimeoutsAreLate'
<1> USE DEF IInv, TypeOK
<1> SUFFICES ASSUME loop'.at \in {"stale", "staleWithSlot"}
             PROVE  age'[loop'.job[1]] >= 1
    BY DEF TimeoutsAreLate
<1>1. ASSUME NEW j \in Jobs, age[j[1]] >= 1
      PROVE  age'[j[1]] >= 1
    <2>1. j[1] \in Requests
        BY DEF Jobs
    <2>2. age[j[1]] \in 0 .. 3 /\ age'[j[1]] >= age[j[1]]
        BY <2>1, AgesGrow
    <2>3. age'[j[1]] \in 0 .. 3
        BY <2>1, TypeStep
    <2> QED
        BY <1>1, <2>2, <2>3
<1>2. CASE loop' = loop
    <2>1. loop.job \in Jobs /\ age[loop.job[1]] >= 1
        BY <1>2 DEF TimeoutsAreLate, SlotsInHand, Settling
    <2> QED
        BY <1>1, <1>2, <2>1
<1>3. ASSUME NEW k \in Jobs, TimeOut(k) \/ Sweep(k)
      PROVE  age'[loop'.job[1]] >= 1
    <2>1. age[k[1]] >= 1
        <3>1. age[k[1]] \in 0 .. 3
            BY DEF Jobs
        <3> QED
            BY <1>3, <3>1 DEF TimeOut, Sweep
    <2>2. loop'.job = k
        BY <1>3, LoopGoes DEF TimeOut, Sweep, FailStale
    <2> QED
        BY <1>1, <2>1, <2>2
<1>4. ASSUME NEW k \in Jobs, StartFails(k) \/ DeferFails(k) \/ SubmitFails(k) \/ SweepBlocks(k)
      PROVE  FALSE
    <2>1. loop'.at \in {"unlock", "unlockAndGive", "frozen"}
        BY <1>4, LoopGoes DEF StartFails, DeferFails, SubmitFails, FailCleanly, SweepBlocks
    <2> QED
        BY <2>1
<1>5. ~(LoopStep \/ CountSlots \/ WorkerDies)
    <2>1. LoopStep \/ CountSlots \/ WorkerDies =>
            \E w \in {"giveSlot", "idle", "reconciling"}, k \in {loop.job, NoJob} :
              LoopAt(w, k)
        BY DEF LoopStep, CountSlots, WorkerDies, UnlockAfterFailure,
               GiveSlotAfterFailure, UnlockAfterStale, SetCounters
    <2> QED
        BY <2>1, LoopGoes
<1> QED
    BY <1>2, <1>3, <1>4, <1>5, WhoMoves DEF LoopMoves

\* The enqueue loop hands its jobs over one by one, and nobody else does.
LEMMA RestIsFreshStep ==
    ASSUME IInv, RestIsFresh, [Next]_vars
    PROVE  RestIsFresh'
<1> USE DEF IInv, TypeOK
<1> SUFFICES ASSUME NEW r \in Requests, NEW i \in 1 .. MaxOutputs,
                    api'[r] \in Before \union {"enqueueing"}, i >= next'[r]
             PROVE  Fresh(<<r, i>>)'
    BY DEF RestIsFresh
<1> DEFINE j == <<r, i>>
<1>1. j \in Jobs /\ j[1] = r /\ j[2] = i /\ i \in Nat /\ next[r] \in Nat
    BY PairsAreJobs
<1>2. /\ api[r] \in Before \union {"enqueueing"}
      /\ ~EnqueueFails(r)
      /\ next'[r] = next[r] \/ (Enqueue(r) /\ next'[r] = next[r] + 1)
    <2>1. CASE ~(ApiStep(r) \/ ApiDies(r))
        BY <2>1, ControlStays DEF ApiStep
    <2>2. CASE ApiStep(r) \/ ApiDies(r)
        BY <2>2 DEF ApiStep, ApiDies, ApiAt, AcquireLock, ReadLockAge, LookForJobs, HealLock,
           ReacquireLock, Plan, CreateBatch, CreateFails, Enqueue, EnqueueFails,
           FailAndRelease, ReleaseAfterFailure, Before
    <2> QED
        BY <2>1, <2>2
<1>3. i >= next[r] /\ (Enqueue(r) => i # next[r])
    <2>1. Enqueue(r) => next'[r] = next[r] + 1
        BY <1>2 DEF Enqueue, ApiAt, Before
    <2> QED
        BY <1>1, <1>2, <2>1
<1>4. Fresh(j)
    BY <1>2, <1>3 DEF RestIsFresh
<1> HIDE DEF j
<1>5. ~SubmitStep(j) /\ ~FalAccepts(j)
    BY <1>4 DEF Fresh, SubmitStep, DropMessage, ReserveSlot, WaitForSlot, StartFails, Defer,
       DeferFails, SubmitSucceeds, SubmitFails, PicksUp, FalAccepts
<1>6. j \notin arq'
    <2>1. Enqueue(r) => j \notin arq'
        <3>1. j # <<r, next[r]>> \/ ~Enqueue(r)
            BY <1>1, <1>3
        <3> QED
            BY <1>4, <3>1 DEF Fresh, Enqueue
    <2> QED
        BY <1>1, <1>2, <1>4, <1>5, <2>1, MessagesComeFrom DEF Fresh, SubmitStep
<1>7. submit'[j] = "none"
    BY <1>1, <1>4, <1>5, WhoMoves DEF Fresh, WorkerDies
<1>8. fal'[j] = "none"
    BY <1>1, <1>4, <1>5, WhoMoves DEF Fresh, FalFinishes
<1>9. handler'[j] = "none"
    BY <1>1, <1>4, WhoMoves DEF Fresh, HandlerStep, HandlerDies, HandleResult,
       ReleaseBeforeCommit, GiveSlotBeforeCommit, CommitSuccess, CommitFailure,
       ReleaseAfterCommit, GiveSlotAfterCommit
<1>10. status'[j] \in {"none", "queued", "failed"}
    <2>1. CASE status'[j] = status[j]
        BY <1>4, <2>1 DEF Fresh
    <2>2. ASSUME NEW k \in Jobs, CommitSuccess(k) \/ LateDelivery(k) \/ SubmitSucceeds(k)
          PROVE  status'[j] = status[j]
        <3>1. k # j
            BY <1>4, <1>5, <2>2 DEF Fresh, CommitSuccess, LateDelivery, SubmitStep
        <3> QED
            BY <1>1, <2>2, <3>1 DEF CommitSuccess, LateDelivery, SubmitSucceeds
    <2>3. ASSUME NEW q \in Requests, CreateBatch(q)
          PROVE  status'[j] \in {"queued", status[j]}
        <3>1. PICK n \in 1 .. MaxOutputs :
                status' = [k \in Jobs |-> IF k \in {q} \X (1 .. n) THEN "queued"
                                                                 ELSE status[k]]
            BY <2>3, BatchIsPaid
        <3> QED
            BY <1>1, <3>1
    <2>4. ASSUME NEW k \in Jobs, NEW why, FailRow(k, why)
          PROVE  status'[j] \in {"failed", status[j]}
        BY <1>1, <2>4 DEF FailRow
    <2>5. ASSUME NEW q \in Requests, FailAndRelease(q)
          PROVE  status'[j] \in {"failed", status[j]}
        BY <2>4, <2>5, LoopJob DEF FailAndRelease
    <2>6. ASSUME NEW k \in Jobs, \/ CommitFailure(k) \/ StartFails(k) \/ DeferFails(k)
                                 \/ SubmitFails(k) \/ TimeOut(k) \/ Sweep(k)
          PROVE  status'[j] \in {"failed", status[j]}
        BY <2>4, <2>6 DEF CommitFailure, StartFails, DeferFails, SubmitFails, FailCleanly,
           TimeOut, Sweep, FailStale
    <2>7. CASE ~RowStep
        BY <2>1, <2>7, RowsChangeInRowSteps DEF rows
    <2> QED
        BY <1>4, <2>1, <2>2, <2>3, <2>5, <2>6, <2>7 DEF Fresh, RowStep
<1> QED
    BY <1>6, <1>7, <1>8, <1>9, <1>10 DEF Fresh, j

\* What has gone wrong for a user has gone wrong for good.
LEMMA DisturbedStays ==
    ASSUME IInv, IInv', ErrorsExplained, [Next]_vars, NEW u \in Users, Undisturbed(u)'
    PROVE  Undisturbed(u)
<1> USE DEF IInv, TypeOK
<1>1. u \notin healed /\ deaths = 0
    BY HistoryGrows, GenerationAssumption DEF Undisturbed
<1>2. ASSUME NEW r \in Requests, UserOf[r] = u
      PROVE  age[r] = 0
    BY <1>2, AgesGrow DEF Undisturbed
<1>3. ASSUME NEW j \in Jobs, User(j) = u
      PROVE  refunds[j] = 0
    <2>1. refunds'[j] = 0
        BY <1>3 DEF Undisturbed, User
    <2>2. status'[j] # "failed" /\ error'[j] \notin {"timeout", "enqueue"}
        BY <2>1 DEF Settlement
    <2>3. status[j] # "failed" /\ error[j] \notin {"timeout", "enqueue"}
        BY <2>2, RowFates DEF RowFate, Errors, Active
    <2> QED
        BY <2>3 DEF Settlement
<1> QED
    BY <1>1, <1>2, <1>3 DEF Undisturbed

\* No job of an undisturbed user has an error.
LEMMA NoErrorsYet ==
    ASSUME IInv, ErrorsExplained, NEW j \in Jobs, Undisturbed(User(j))
    PROVE  error[j] = "none" /\ status[j] # "failed"
<1>1. refunds[j] = 0
    BY DEF Undisturbed
<1>2. status[j] # "failed" /\ error[j] \notin {"timeout", "enqueue"}
    BY <1>1 DEF IInv, Settlement
<1> QED
    BY <1>2 DEF IInv, TypeOK, Errors, ErrorsExplained, Active

\* While no handler dies, a generation is in progress from the step that
\* takes the lock.
LEMMA ProgressBegins ==
    ASSUME IInv, [Next]_vars, NEW r \in Requests, InProgress(r)', ~InProgress(r), deaths' = 0
    PROVE  (AcquireLock(r) \/ ReacquireLock(r)) /\ SetLock(r)
<1> USE DEF IInv, TypeOK
<1>1. ~CreateBatch(r) /\ api[r] \notin {"planning", "creating", "enqueueing"}
    BY DEF CreateBatch, ApiAt, InProgress
<1>2. CASE api'[r] \in {"planning", "creating", "enqueueing"}
    <2>1. ApiStep(r) \/ ApiDies(r)
        BY <1>1, <1>2, ControlStays
    <2> QED
        BY <1>1, <1>2, <2>1 DEF ApiStep, ApiDies, ApiAt, AcquireLock, ReadLockAge, LookForJobs,
           HealLock, ReacquireLock, Plan, CreateBatch, CreateFails, Enqueue,
           EnqueueFails, FailAndRelease, ReleaseAfterFailure
<1>3. ASSUME NEW j \in Batch(r), Active(j)', handler'[j] \notin {"giveSlot", "commit"}
      PROVE  FALSE
    <2>1. j \in Jobs /\ j[1] = r
        BY DEF Batch, Jobs
    <2>2. Active(j)
        BY <1>1, <1>3, <2>1, RowFates DEF RowFate, Active
    <2>3. handler[j] \in {"giveSlot", "commit"}
        BY <2>2 DEF InProgress
    <2>4. HandlerStep(j)
        <3>1. ~HandlerDies(j)
            BY <2>1, HistoryGrows
        <3> QED
            BY <1>3, <2>1, <2>3, <3>1, WhoMoves
    <2>5. CommitSuccess(j) \/ GiveSlotBeforeCommit(j)
        BY <2>3, <2>4 DEF HandlerStep, HandleResult, ReleaseBeforeCommit, CommitFailure,
           ReleaseAfterCommit, GiveSlotAfterCommit
    <2> QED
        BY <1>3, <2>1, <2>5 DEF CommitSuccess, GiveSlotBeforeCommit, Active
<1> QED
    BY <1>2, <1>3 DEF InProgress, Batch

\* While a batch is being enqueued, the job that is next is active, and so
\* whoever handles an earlier one sees two.
LEMMA NextIsActive ==
    ASSUME IInv, RestIsFresh, NEW r \in Requests, api[r] = "enqueueing",
           refunds[<<r, next[r]>>] = 0
    PROVE  /\ <<r, next[r]>> \in Batch(r) /\ Active(<<r, next[r]>>)
           /\ handler[<<r, next[r]>>] = "none"
<1> USE DEF IInv, TypeOK
<1>1. next[r] \in 1 .. MaxOutputs /\ next[r] >= next[r]
    OBVIOUS
<1>2. Fresh(<<r, next[r]>>)
    BY <1>1 DEF RestIsFresh
<1>3. status[<<r, next[r]>>] \notin {"none", "failed"}
    <2>1. <<r, next[r]>> \in Jobs
        BY LoopJob
    <2> QED
        BY <2>1 DEF BatchShape, InLoop, Settlement
<1> QED
    BY <1>1, <1>2, <1>3 DEF Fresh, Active, Batch

\* While nothing has gone wrong for a user, nobody takes the lock from the
\* generation in progress: whoever releases it answers for it, and has then
\* come to the end of it.
LEMMA LockKeptStep ==
    ASSUME IInv, IInv', SlotsInHand, ErrorsExplained, TimeoutsAreLate, RestIsFresh, LockKept,
           [Next]_vars
    PROVE  LockKept'
<1> USE DEF IInv, TypeOK
<1> SUFFICES ASSUME NEW r \in Requests, InProgress(r)', Undisturbed(UserOf[r])'
             PROVE  lock'[UserOf[r]] = r
    BY DEF LockKept
<1> DEFINE u == UserOf[r]
<1>1. u \in Users /\ r # Nobody
    BY GenerationAssumption
<1>2. Undisturbed(u)
    BY <1>1, DisturbedStays
<1>3. deaths' = 0 /\ u \notin healed' /\ age[r] = 0
    BY <1>2 DEF Undisturbed
<1>4. CASE ~InProgress(r)
    <2>1. SetLock(r)
        BY <1>3, <1>4, ProgressBegins
    <2> QED
        BY <1>1, <2>1 DEF SetLock
<1>5. CASE InProgress(r)
    <2>1. lock[u] = r
        BY <1>2, <1>5 DEF LockKept
    <2>2. ASSUME NEW q \in Requests, UserOf[q] = u, InProgress(q)
          PROVE  q = r
        BY <1>2, <2>1, <2>2 DEF LockKept
    <2>3. \A j \in Jobs : j[1] \in Requests /\ UserOf[j[1]] = User(j) /\ j \in Batch(j[1])
        BY DEF Jobs, User, Batch
    <2>4. \A j \in Batch(r) : j \in Jobs /\ j[1] = r /\ User(j) = u
        BY DEF User, Jobs, Batch
    <2>5. ASSUME NEW j \in Jobs, User(j) = u
          PROVE  error[j] = "none" /\ status[j] # "failed" /\ refunds[j] = 0 /\ age[j[1]] = 0
        <3>1. error[j] = "none" /\ status[j] # "failed"
            BY <1>2, <2>5, NoErrorsYet
        <3> QED
            BY <1>2, <2>3, <2>5, <3>1 DEF Undisturbed
    <2> HIDE DEF u
    <2> SUFFICES ASSUME LockMove(u) PROVE FALSE
        BY <1>1, <2>1, LockMoves DEF u
    <2>6. ASSUME NEW q \in Requests, UserOf[q] = u,
                 (Plan(q) /\ api'[q] = "finished") \/ CreateFails(q)
          PROVE  FALSE
        <3>1. q = r /\ api[r] \in {"planning", "creating"}
            BY <2>2, <2>6 DEF Plan, CreateFails, ApiAt, InProgress
        <3>2. api'[r] = "finished" /\ status' = status
            BY <2>6, <3>1 DEF Plan, CreateFails, ApiAt, rows
        <3>3. \A j \in Batch(r) : status[j] = "none"
            BY <3>1 DEF BatchShape, Before, Created
        <3> QED
            BY <2>4, <3>2, <3>3 DEF InProgress, Active, Batch
    <2>7. ASSUME NEW q \in Requests, UserOf[q] = u, ReleaseAfterFailure(q)
          PROVE  FALSE
        <3>1. api[q] = "releasing" /\ <<q, next[q]>> \in Jobs
            BY <2>7, LoopJob DEF ReleaseAfterFailure, ApiAt
        <3>2. User(<<q, next[q]>>) = u
            BY <2>7 DEF User
        <3> QED
            BY <2>5, <3>1, <3>2 DEF ErrorsExplained
    <2>8. ASSUME NEW k \in Jobs, User(k) = u, ReleaseBeforeCommit(k), Remaining(k[1]) <= 1
          PROVE  FALSE
        <3>1. Active(k) /\ handler[k] = "stored" /\ handler'[k] = "giveSlot"
            BY <2>8 DEF ReleaseBeforeCommit, RowsInHand, HoldsRow
        <3>2. k[1] = r /\ k \in Batch(r)
            <4>1. InProgress(k[1])
                BY <2>3, <3>1 DEF InProgress
            <4>2. k[1] = r
                BY <2>2, <2>3, <2>8, <4>1
            <4> QED
                BY <2>3, <4>2
        <3>3. ASSUME NEW j \in Batch(r), Active(j)
              PROVE  j = k
            <4> DEFINE S == {i \in Batch(r) : Active(i)}
            <4>1. Cardinality(S) <= 1
                BY <2>8, <3>2 DEF Remaining
            <4>2. IsFiniteSet(S)
                <5>1. S \subseteq Jobs
                    BY <2>4
                <5> QED
                    BY <5>1, JobsAreFinite, FS_Subset
            <4>3. j \in S /\ k \in S
                BY <3>1, <3>2, <3>3
            <4> HIDE DEF S
            <4> QED
                BY <4>1, <4>2, <4>3, AtMostOneElement
        <3>4. UNCHANGED <<status, api>>
            BY <2>8 DEF ReleaseBeforeCommit, rows, requestVars
        <3>5. api[r] \notin {"planning", "creating"}
            BY <3>1, <3>2 DEF BatchShape, Before, Created, Active
        <3>6. api[r] # "enqueueing"
            <4>1. SUFFICES ASSUME api[r] = "enqueueing" PROVE FALSE
                OBVIOUS
            <4>2. refunds[<<r, next[r]>>] = 0
                <5>1. <<r, next[r]>> \in Batch(r)
                    BY DEF Batch
                <5> QED
                    BY <2>4, <2>5, <5>1
            <4>3. <<r, next[r]>> \in Batch(r) /\ Active(<<r, next[r]>>)
                  /\ handler[<<r, next[r]>>] = "none"
                BY <4>1, <4>2, NextIsActive
            <4> QED
                BY <3>1, <3>3, <4>3
        <3>7. PICK j \in Batch(r) : Active(j)' /\ handler'[j] \notin {"giveSlot", "commit"}
            BY <3>4, <3>5, <3>6 DEF InProgress, Batch
        <3>8. j = k
            BY <3>3, <3>4, <3>7 DEF Active
        <3> QED
            BY <3>1, <3>7, <3>8
    <2>9. ASSUME NEW k \in Jobs, User(k) = u, ReleaseAfterCommit(k)
          PROVE  FALSE
        BY <2>5, <2>9 DEF ReleaseAfterCommit, ErrorsExplained
    <2>10. ~(UnlockAfterFailure /\ User(loop.job) = u)
        BY <2>5 DEF UnlockAfterFailure, ErrorsExplained, SlotsInHand, Settling
    <2>11. ~(UnlockAfterStale /\ User(loop.job) = u)
        <3>1. SUFFICES ASSUME UnlockAfterStale, User(loop.job) = u PROVE FALSE
            OBVIOUS
        <3>2. loop.job \in Jobs /\ age[loop.job[1]] >= 1
            BY <3>1 DEF UnlockAfterStale, TimeoutsAreLate, SlotsInHand, Settling
        <3>3. age[loop.job[1]] = 0
            BY <2>5, <3>1, <3>2
        <3> QED
            BY <3>2, <3>3
    <2>12. ~LockExpires(u)
        <3>1. api[r] \in {"planning", "creating"} \/ Created(r) # {}
            <4>1. api[r] = "enqueueing" => <<r, next[r]>> \in Created(r)
                <5>1. <<r, next[r]>> \in Batch(r)
                    BY DEF Batch
                <5> QED
                    BY <5>1 DEF BatchShape, InLoop, Created
            <4>2. \A j \in Batch(r) : Active(j) => j \in Created(r)
                BY DEF Created, Active
            <4> QED
                BY <1>5, <4>1, <4>2 DEF InProgress
        <3> QED
            BY <1>3, <2>1, <3>1 DEF LockExpires
    <2>13. \A q \in Requests : UserOf[q] = u => ~HealLock(q)
        BY <1>3, HistoryGrows DEF u
    <2> QED
        BY <1>1, <2>1, <2>6, <2>7, <2>8, <2>9, <2>10, <2>11, <2>12, <2>13 DEF LockMove
<1> QED
    BY <1>4, <1>5

\* Until something goes wrong for a user, a generation of theirs in progress
\* holds their lock, from its planning to the handler of its last job: for
\* any number of requests of the user and of outputs, whatever is dropped,
\* resubmitted, deferred or reconciled, and whichever requests die.
THEOREM LocksAreKept == Spec => []LockKept
<1> DEFINE Inv == /\ IInv /\ SlotsInHand /\ ErrorsExplained /\ TimeoutsAreLate
                  /\ RestIsFresh /\ LockKept
<1>1. Init => Inv
    <2> SUFFICES ASSUME Init PROVE Inv
        OBVIOUS
    <2>1. SlotsInHand /\ ErrorsExplained /\ TimeoutsAreLate /\ RestIsFresh
        BY PairsAreJobs DEF Init, SlotsInHand, Settling, ErrorsExplained, TimeoutsAreLate,
           RestIsFresh, Fresh
    <2>2. \A r \in Requests : ~InProgress(r)
        BY PairsAreJobs DEF Init, InProgress, Active, Batch
    <2> QED
        BY <2>1, <2>2, InitInv DEF LockKept
<1>2. Inv /\ IInv' /\ [Next]_vars => Inv'
    BY SlotsInHandStep, ErrorsExplainedStep, TimeoutsAreLateStep, RestIsFreshStep, LockKeptStep
<1>3. Inv => LockKept
    OBVIOUS
<1> QED
    BY Invariance, <1>1, <1>2, <1>3, PTL DEF Spec

\* So the generations of a user take turns, whatever the size of their
\* batches, until something goes wrong: an enqueue, a job or a worker fails,
\* a batch outlives its budget, or a lock is taken for an orphan's.
THEOREM BatchesTakeTurns ==
    Spec => [](\A r, q \in Requests :
                 /\ r # q /\ UserOf[r] = UserOf[q] /\ Undisturbed(UserOf[r])
                 => ~(InProgress(r) /\ InProgress(q)))
<1>1. LockKept => \A r, q \in Requests :
                    /\ r # q /\ UserOf[r] = UserOf[q] /\ Undisturbed(UserOf[r])
                    => ~(InProgress(r) /\ InProgress(q))
    BY DEF LockKept
<1> QED
    BY <1>1, LocksAreKept, PTL
-----------------------------------------------------------------------------
\* Where single-output batches take turns: nothing times out, no message is
\* refused, no handler and no worker dies.
TakesTurns ==
    /\ MaxOutputs = 1 /\ MaxDeaths = 0
    /\ "enqueue" \notin Events /\ "time" \notin Events

\* No batch is past its budget, and no clean-up after a timeout runs.
InBudget ==
    /\ \A r \in Requests : age[r] = 0
    /\ loop.at \notin {"stale", "staleWithSlot"}

\* Nobody has touched the jobs of a batch that are not all enqueued yet: no
\* message, no submission, no request at fal, no result and no clean-up.
Untouched(r) ==
    \A j \in Batch(r) : /\ j \notin arq /\ submit[j] = "none"
                        /\ handler[j] = "none" /\ fal[j] = "none"
                        /\ ~(loop.at \in Settling /\ loop.job = j)

EnqueuedFirst ==
    \A r \in Requests : api[r] \in Before \union {"enqueueing"} => Untouched(r)

\* Who answers for the lock of a request: the request in progress, and who
\* has just failed its job and is about to release it.
Holding(r) ==
    \/ InProgress(r)
    \/ \E j \in Batch(r) : \/ handler[j] = "failed"
                           \/ loop.at \in {"unlock", "unlockAndGive"} /\ loop.job = j

HeldByTheRightOne ==
    \A r \in Requests : Holding(r) /\ UserOf[r] \notin healed => lock[UserOf[r]] = r

\* Time that does not pass makes no batch older.
LEMMA InBudgetStep ==
    ASSUME TakesTurns, TypeOK, InBudget, [Next]_vars
    PROVE  InBudget'
<1>1. ASSUME NEW r \in Requests
      PROVE  age'[r] = 0
    BY WhoMoves DEF Ages, TakesTurns, InBudget
<1>2. loop'.at \notin {"stale", "staleWithSlot"}
    <2>1. CASE loop' = loop
        BY <2>1 DEF InBudget
    <2>2. CASE LoopStep \/ CountSlots \/ WorkerDies
        <3>1. \E w \in {"giveSlot", "idle", "reconciling"}, k \in {loop.job, NoJob} :
                LoopAt(w, k)
            BY <2>2 DEF LoopStep, CountSlots, WorkerDies, UnlockAfterFailure,
                        GiveSlotAfterFailure, UnlockAfterStale, SetCounters
        <3> QED
            BY <3>1, LoopGoes
    <2>3. ASSUME NEW k \in Jobs, StartFails(k) \/ DeferFails(k) \/ SubmitFails(k)
          PROVE  loop'.at \in {"unlock", "unlockAndGive"}
        BY <2>3, LoopGoes DEF StartFails, DeferFails, SubmitFails, FailCleanly
    <2>4. ASSUME NEW k \in Jobs, TimeOut(k) \/ Sweep(k) \/ SweepBlocks(k)
          PROVE  FALSE
        <3>1. age[k[1]] = 0
            BY DEF InBudget, Jobs
        <3> QED
            BY <2>4, <3>1 DEF TimeOut, Sweep, SweepBlocks
    <2> QED
        BY <2>1, <2>2, <2>3, <2>4, WhoMoves DEF LoopMoves
<1> QED
    BY <1>1, <1>2 DEF InBudget

\* A single job is the last of its batch: once it is enqueued the route is
\* done.
LEMMA LastIsFirst ==
    ASSUME TakesTurns, IInv, NEW r \in Requests, api[r] = "enqueueing"
    PROVE  IsLast(r)
<1>1. MaxOutputs = 1 /\ next[r] = 1
    BY DEF TakesTurns, IInv, TypeOK
<1>2. status[<<r, 1>>] # "none"
    BY <1>1 DEF IInv, BatchShape, InLoop
<1>3. Created(r) = {<<r, 1>>}
    BY <1>1, <1>2 DEF Created, Batch
<1> QED
    BY <1>1, <1>3, FS_Singleton DEF IsLast

\* Only the enqueue loop puts a job into the worker's hands.
LEMMA EnqueuedFirstStep ==
    ASSUME TakesTurns, IInv, NoneRefused, InBudget, EnqueuedFirst, [Next]_vars
    PROVE  EnqueuedFirst'
<1> USE DEF IInv, TypeOK
<1> SUFFICES ASSUME NEW r \in Requests, api'[r] \in Before \union {"enqueueing"},
                    NEW j \in Batch(r)
             PROVE  (/\ j \notin arq /\ submit[j] = "none"
                     /\ handler[j] = "none" /\ fal[j] = "none"
                     /\ ~(loop.at \in Settling /\ loop.job = j))'
    BY DEF EnqueuedFirst, Untouched, Batch
<1>1. j \in Jobs /\ j[1] = r
    BY DEF Batch, Jobs
<1>2. api[r] \in Before \union {"enqueueing"} /\ ~Enqueue(r) /\ ~EnqueueFails(r)
    <2>1. ~EnqueueFails(r)
        BY DEF EnqueueFails, TakesTurns
    <2>2. ~Enqueue(r)
        <3>1. Enqueue(r) => api'[r] = "finished"
            BY LastIsFirst DEF Enqueue, ApiAt
        <3> QED
            BY <3>1 DEF Before
    <2>3. CASE ApiStep(r) \/ ApiDies(r)
        BY <2>1, <2>2, <2>3 DEF ApiStep, ApiDies, ApiAt, AcquireLock, ReadLockAge, LookForJobs,
           HealLock, ReacquireLock, Plan, CreateBatch, CreateFails, FailAndRelease,
           ReleaseAfterFailure, Before
    <2> QED
        BY <2>1, <2>2, <2>3, ControlStays
<1>3. /\ j \notin arq /\ submit[j] = "none" /\ handler[j] = "none" /\ fal[j] = "none"
      /\ ~(loop.at \in Settling /\ loop.job = j)
    BY <1>2 DEF EnqueuedFirst, Untouched
<1>4. ~SubmitStep(j) /\ ~FalAccepts(j)
    BY <1>3 DEF SubmitStep, DropMessage, ReserveSlot, WaitForSlot, StartFails, Defer,
       DeferFails, SubmitSucceeds, SubmitFails, PicksUp, FalAccepts
<1>5. j \notin arq'
    BY <1>1, <1>2, <1>3, <1>4, MessagesComeFrom DEF SubmitStep
<1>6. submit'[j] = "none"
    BY <1>1, <1>3, <1>4, WhoMoves DEF WorkerDies
<1>7. fal'[j] = "none"
    BY <1>1, <1>3, <1>4, WhoMoves DEF FalFinishes
<1>8. handler'[j] = "none"
    BY <1>1, <1>3, WhoMoves DEF HandlerStep, HandlerDies, HandleResult,
       ReleaseBeforeCommit, GiveSlotBeforeCommit, CommitSuccess, CommitFailure,
       ReleaseAfterCommit, GiveSlotAfterCommit
<1>9. ~(loop'.at \in Settling /\ loop'.job = j)
    <2>1. CASE LoopStep \/ CountSlots \/ WorkerDies
        <3>1. \/ loop.at \in Settling /\ LoopAt("giveSlot", loop.job)
              \/ \E w \in {"idle", "reconciling"} : LoopAt(w, NoJob)
            BY <2>1 DEF LoopStep, CountSlots, WorkerDies, UnlockAfterFailure,
                        GiveSlotAfterFailure, UnlockAfterStale, SetCounters, Settling
        <3>2. (loop.at \in Settling /\ loop'.job = loop.job) \/ loop'.job = NoJob
            BY <3>1, LoopGoes
        <3> QED
            BY <1>1, <1>3, <3>2, NoJobAssumption
    <2>2. ASSUME NEW k \in Jobs, StartFails(k) \/ DeferFails(k) \/ SubmitFails(k)
          PROVE  loop'.job # j
        <3>1. SubmitStep(k) /\ loop'.job = k
            BY <2>2, LoopGoes DEF SubmitStep, StartFails, DeferFails, SubmitFails,
               FailCleanly
        <3> QED
            BY <1>4, <3>1
    <2>3. ASSUME NEW k \in Jobs, TimeOut(k) \/ Sweep(k) \/ SweepBlocks(k)
          PROVE  FALSE
        <3>1. age[k[1]] = 0
            BY DEF InBudget, Jobs
        <3> QED
            BY <2>3, <3>1 DEF TimeOut, Sweep, SweepBlocks
    <2> QED
        BY <1>3, <2>1, <2>2, <2>3, WhoMoves DEF LoopMoves
<1> QED
    BY <1>5, <1>6, <1>7, <1>8, <1>9

\* A request begins to answer for its lock by taking it.
LEMMA HoldingBegins ==
    ASSUME TakesTurns, IInv, SlotsInHand, [Next]_vars,
           NEW r \in Requests, Holding(r)', ~Holding(r)
    PROVE  (AcquireLock(r) \/ ReacquireLock(r)) /\ SetLock(r)
<1> USE DEF IInv, TypeOK
<1>1. ~CreateBatch(r) /\ api[r] \notin {"planning", "creating", "enqueueing"}
    BY DEF CreateBatch, ApiAt, Holding, InProgress
<1>2. ASSUME NEW j \in Batch(r)
      PROVE  /\ j \in Jobs /\ j[1] = r /\ handler[j] # "failed"
             /\ Active(j) => handler[j] \in {"giveSlot", "commit"}
             /\ ~(loop.at \in {"unlock", "unlockAndGive"} /\ loop.job = j)
    BY DEF Holding, InProgress, Batch, Jobs
<1>3. CASE api'[r] \in {"planning", "creating", "enqueueing"}
    <2>1. ApiStep(r) \/ ApiDies(r)
        BY <1>1, <1>3, ControlStays
    <2> QED
        BY <1>1, <1>3, <2>1 DEF ApiStep, ApiDies, ApiAt, AcquireLock, ReadLockAge, LookForJobs,
           HealLock, ReacquireLock, Plan, CreateBatch, CreateFails, Enqueue,
           EnqueueFails, FailAndRelease, ReleaseAfterFailure
<1>4. ASSUME NEW j \in Batch(r)
      PROVE  handler'[j] = handler[j] \/ HandlerStep(j)
    BY <1>2, WhoMoves, GenerationAssumption DEF HandlerDies, TakesTurns
<1>5. ASSUME NEW j \in Batch(r), Active(j)', handler'[j] \notin {"giveSlot", "commit"}
      PROVE  FALSE
    <2>1. Active(j)
        BY <1>1, <1>2, <1>5, RowFates DEF RowFate, Active
    <2>2. HandlerStep(j) /\ handler[j] \in {"giveSlot", "commit"}
        BY <1>2, <1>4, <1>5, <2>1
    <2>3. CommitSuccess(j) \/ GiveSlotBeforeCommit(j)
        BY <2>2 DEF HandlerStep, HandleResult, ReleaseBeforeCommit, CommitFailure,
           ReleaseAfterCommit, GiveSlotAfterCommit
    <2> QED
        BY <1>2, <1>5, <2>3 DEF CommitSuccess, GiveSlotBeforeCommit, Active
<1>6. ASSUME NEW j \in Batch(r), handler'[j] = "failed"
      PROVE  FALSE
    <2>1. CommitFailure(j)
        BY <1>2, <1>4, <1>6 DEF HandlerStep, HandleResult, ReleaseBeforeCommit,
           GiveSlotBeforeCommit, CommitSuccess, ReleaseAfterCommit, GiveSlotAfterCommit
    <2> QED
        BY <1>2, <2>1 DEF CommitFailure, RowsInHand, HoldsRow
<1>7. ASSUME NEW j \in Batch(r), loop'.at \in {"unlock", "unlockAndGive"}, loop'.job = j
      PROVE  FALSE
    <2>1. loop' # loop
        BY <1>2, <1>7
    <2>2. ASSUME NEW k \in Jobs, StartFails(k) \/ DeferFails(k) \/ SubmitFails(k)
          PROVE  FALSE
        <3>1. k = j
            BY <1>7, <2>2, LoopGoes DEF StartFails, DeferFails, SubmitFails, FailCleanly
        <3>2. Active(k) /\ handler[k] \notin HoldsRow
            BY <2>2 DEF StartFails, DeferFails, SubmitFails, PicksUp, RowLocked,
               RowsInHand, HoldsRow, Active
        <3> QED
            BY <1>2, <3>1, <3>2 DEF HoldsRow
    <2>3. ASSUME NEW k \in Jobs, TimeOut(k) \/ Sweep(k) \/ SweepBlocks(k)
          PROVE  FALSE
        <3>1. loop'.at \in {"stale", "staleWithSlot", "frozen"}
            BY <2>3, LoopGoes DEF TimeOut, Sweep, FailStale, SweepBlocks
        <3> QED
            BY <1>7, <3>1
    <2>4. ~(LoopStep \/ CountSlots \/ WorkerDies)
        <3>1. LoopStep \/ CountSlots \/ WorkerDies =>
                \E w \in {"giveSlot", "idle", "reconciling"}, k \in {loop.job, NoJob} :
                  LoopAt(w, k)
            BY DEF LoopStep, CountSlots, WorkerDies, UnlockAfterFailure,
                   GiveSlotAfterFailure, UnlockAfterStale, SetCounters
        <3> QED
            BY <1>7, <3>1, LoopGoes
    <2> QED
        BY <2>1, <2>2, <2>3, <2>4, WhoMoves DEF LoopMoves
<1> QED
    BY <1>3, <1>5, <1>6, <1>7 DEF Holding, InProgress, Batch

\* Whoever releases a lock answers for it, and no longer does afterwards.
LEMMA ReleasedByItsHolder ==
    ASSUME TakesTurns, IInv, SlotsInHand, NoneRefused, InBudget, EnqueuedFirst,
           HeldByTheRightOne, [Next]_vars, NEW r \in Requests,
           lock[UserOf[r]] = r, UserOf[r] \notin healed', Holding(r), LockMove(UserOf[r])
    PROVE  ~Holding(r)'
<1> USE DEF IInv, TypeOK
<1>1. UserOf[r] \in Users /\ r # Nobody /\ UserOf[r] \notin healed
    BY HistoryGrows, GenerationAssumption
<1>2. ASSUME NEW q \in Requests, UserOf[q] = UserOf[r], Holding(q)
      PROVE  q = r
    BY <1>1, <1>2 DEF HeldByTheRightOne
<1>3. \A j \in Batch(r) : j = <<r, 1>> /\ j \in Jobs
    BY DEF Batch, Jobs, TakesTurns
<1>4. \A j \in Jobs : j[1] \in Requests /\ UserOf[j[1]] = User(j) /\ j \in Batch(j[1])
    BY DEF Jobs, User, Batch
<1>5. ASSUME NEW q \in Requests, UserOf[q] = UserOf[r],
             (Plan(q) /\ api'[q] = "finished") \/ CreateFails(q)
      PROVE  ~Holding(r)'
    <2>1. q = r /\ api[r] \in {"planning", "creating"}
        BY <1>2, <1>5 DEF Plan, CreateFails, ApiAt, Holding, InProgress
    <2>2. Untouched(r) /\ Created(r) = {}
        BY <2>1 DEF EnqueuedFirst, Before, BatchShape
    <2>3. api'[r] = "finished" /\ UNCHANGED <<status, handler, loop>>
        BY <1>5, <2>1 DEF Plan, CreateFails, ApiAt, rows, workerVars
    <2>4. \A j \in Batch(r) : status[j] = "none" /\ handler[j] = "none"
                              /\ ~(loop.at \in {"unlock", "unlockAndGive"} /\ loop.job = j)
        BY <2>2 DEF Untouched, Created, Settling
    <2> QED
        BY <2>3, <2>4 DEF Holding, InProgress, Active, Batch
<1>6. ASSUME NEW k \in Jobs, User(k) = UserOf[r], ReleaseBeforeCommit(k), Remaining(k[1]) <= 1
      PROVE  ~Holding(r)'
    <2>1. Active(k) /\ handler[k] = "stored" /\ handler'[k] = "giveSlot"
        BY <1>6 DEF ReleaseBeforeCommit, RowsInHand, HoldsRow
    <2>2. Holding(k[1])
        BY <1>4, <2>1 DEF Holding, InProgress
    <2>3. k[1] = r /\ k = <<r, 1>>
        BY <1>2, <1>3, <1>4, <1>6, <2>2
    <2>4. UNCHANGED <<status, api, loop>>
        BY <1>6 DEF ReleaseBeforeCommit, rows, requestVars, workerVars
    <2>5. api[r] \notin {"planning", "creating", "enqueueing"}
        BY <1>4, <2>1, <2>3 DEF EnqueuedFirst, Untouched, Before
    <2>6. ~(loop.at \in {"unlock", "unlockAndGive"} /\ loop.job = k)
        BY <2>1 DEF SlotsInHand, Settling
    <2> QED
        BY <1>3, <2>1, <2>3, <2>4, <2>5, <2>6 DEF Holding, InProgress, Batch
<1>7. ASSUME NEW k \in Jobs, User(k) = UserOf[r], ReleaseAfterCommit(k)
      PROVE  ~Holding(r)'
    <2>1. Over(k) /\ handler[k] = "failed" /\ handler'[k] # "failed"
        BY <1>7 DEF ReleaseAfterCommit, SlotsInHand
    <2>2. Holding(k[1])
        BY <1>4, <2>1 DEF Holding
    <2>3. k[1] = r /\ k = <<r, 1>>
        BY <1>2, <1>3, <1>4, <1>7, <2>2
    <2>4. UNCHANGED <<status, api, loop>>
        BY <1>7 DEF ReleaseAfterCommit, rows, requestVars, workerVars
    <2>5. api[r] \notin {"planning", "creating", "enqueueing"}
        BY <1>4, <2>1, <2>3 DEF EnqueuedFirst, Untouched, Before
    <2>6. ~(loop.at \in {"unlock", "unlockAndGive"} /\ loop.job = k)
        BY <2>1 DEF SlotsInHand, Settling
    <2> QED
        BY <1>3, <2>1, <2>3, <2>4, <2>5, <2>6 DEF Holding, InProgress, Batch, Active, Over
<1>8. ASSUME UnlockAfterFailure, User(loop.job) = UserOf[r]
      PROVE  ~Holding(r)'
    <2>1. PICK k \in Jobs : k = loop.job /\ Over(k) /\ handler[k] = "none"
        BY <1>8 DEF UnlockAfterFailure, SlotsInHand, Settling
    <2>2. Holding(k[1])
        BY <1>4, <1>8, <2>1 DEF Holding, UnlockAfterFailure
    <2>3. k[1] = r /\ k = <<r, 1>>
        BY <1>2, <1>3, <1>4, <1>8, <2>1, <2>2
    <2>4. UNCHANGED <<status, api, handler>>
        BY <1>8 DEF UnlockAfterFailure, rows, requestVars
    <2>5. loop'.at \in {"idle", "giveSlot"}
        BY <1>8, LoopGoes DEF UnlockAfterFailure
    <2>6. api[r] \notin {"planning", "creating", "enqueueing"}
        BY <1>4, <1>8, <2>1, <2>3 DEF EnqueuedFirst, Untouched, Before,
           UnlockAfterFailure, Settling
    <2> QED
        BY <1>3, <2>1, <2>3, <2>4, <2>5, <2>6 DEF Holding, InProgress, Batch, Active, Over
<1>9. ~LockExpires(UserOf[r])
    <2>1. Created(r) # {} \/ api[r] \in {"planning", "creating"}
        <3>1. api[r] = "enqueueing" => Created(r) # {}
            <4>1. <<r, next[r]>> \in Batch(r)
                BY DEF Batch
            <4> QED
                BY <4>1 DEF BatchShape, InLoop, Created
        <3>2. \A j \in Batch(r) : Active(j) \/ Over(j) => Created(r) # {}
            BY DEF Created, Active, Over
        <3> QED
            BY <1>3, <3>1, <3>2 DEF Holding, InProgress, SlotsInHand, Settling, Batch
    <2> QED
        BY <2>1 DEF LockExpires, InBudget
<1>10. \A q \in Requests : UserOf[q] = UserOf[r] => ~HealLock(q) /\ ~ReleaseAfterFailure(q)
    BY HistoryGrows DEF NoneRefused, ReleaseAfterFailure, ApiAt
<1> QED
    BY <1>1, <1>5, <1>6, <1>7, <1>8, <1>9, <1>10 DEF LockMove, UnlockAfterStale, InBudget

\* A user's generations take turns: one generation at a time holds the lock
\* from its SET NX to the release after its job, and everybody who releases
\* it is the one who holds it.  It needs that single-output batches stay
\* within their budget, that no message is refused and that no worker or
\* handler dies; requests may die, and locks may age, until one is taken for
\* an orphan.
THEOREM GenerationsTakeTurns ==
    ASSUME MaxOutputs = 1, MaxDeaths = 0, "enqueue" \notin Events, "time" \notin Events
    PROVE  Spec => []OneAtATime
<1> DEFINE Inv == /\ IInv /\ SlotsInHand /\ NoneRefused /\ InBudget /\ EnqueuedFirst
                  /\ HeldByTheRightOne
<1>1. TakesTurns
    BY DEF TakesTurns
<1>2. Init => Inv
    <2> SUFFICES ASSUME Init PROVE Inv
        OBVIOUS
    <2>1. SlotsInHand /\ NoneRefused /\ InBudget /\ EnqueuedFirst
        BY PairsAreJobs DEF Init, SlotsInHand, Settling, NoneRefused, InBudget, EnqueuedFirst,
           Untouched, Batch
    <2>2. \A r \in Requests : ~Holding(r)
        BY PairsAreJobs DEF Init, Holding, InProgress, Active, Batch
    <2> QED
        BY <2>1, <2>2, InitInv DEF HeldByTheRightOne
<1>3. Inv /\ IInv' /\ [Next]_vars => Inv'
    <2> SUFFICES ASSUME Inv, IInv', [Next]_vars PROVE HeldByTheRightOne'
        BY <1>1, SlotsInHandStep, NoneRefusedStep, InBudgetStep, EnqueuedFirstStep
           DEF IInv, TakesTurns
    <2> SUFFICES ASSUME NEW r \in Requests, Holding(r)', UserOf[r] \notin healed'
                 PROVE  lock'[UserOf[r]] = r
        BY DEF HeldByTheRightOne
    <2>1. UserOf[r] \in Users /\ UserOf[r] \notin healed
        BY HistoryGrows, GenerationAssumption DEF IInv
    <2>2. CASE Holding(r)
        BY <1>1, <2>1, <2>2, ReleasedByItsHolder, LockMoves DEF HeldByTheRightOne, IInv
    <2>3. CASE ~Holding(r)
        BY <1>1, <2>1, <2>3, HoldingBegins DEF SetLock, IInv, TypeOK
    <2> QED
        BY <2>2, <2>3
<1>4. Inv => OneAtATime
    BY DEF OneAtATime, HeldByTheRightOne, Holding
<1> QED
    BY Invariance, <1>2, <1>3, <1>4, PTL DEF Spec

-----------------------------------------------------------------------------
(* Credits are neither lost nor made.                                      *)

\* A job that is not inserted has not been charged.
FreshCharges == \A j \in Jobs : status[j] = "none" => charge[j] = Empty

\* What a job took, unless it was refunded, is an integer.
LEMMA UnrefundedAreInts ==
    ASSUME TypeOK
    PROVE  \A j \in Jobs : SubUnrefunded[j] \in Int /\ TopUnrefunded[j] \in Int
<1> SUFFICES ASSUME NEW j \in Jobs
             PROVE  SubUnrefunded[j] \in Int /\ TopUnrefunded[j] \in Int
    OBVIOUS
<1>1. charge[j].sub \in Int /\ charge[j].top \in Int /\ 1 - refunds[j] \in Int
    BY DEF TypeOK, Pool
<1>2. \A x, y \in Int : x * y \in Int
    OBVIOUS
<1> QED
    BY <1>1, <1>2 DEF SubUnrefunded, TopUnrefunded

\* ... and so it is after a step.
LEMMA UnrefundedStayInts ==
    TypeOK' => (\A j \in Jobs : SubUnrefunded[j] \in Int /\ TopUnrefunded[j] \in Int)'
BY UnrefundedAreInts, PTL

\* A team has finitely many jobs.
LEMMA TeamJobsAreFinite == \A t : IsFiniteSet(TeamJobs(t)) /\ TeamJobs(t) \subseteq Jobs
BY JobsAreFinite, FS_Subset DEF TeamJobs

\* A batch that is created moves its charge from the pools to its jobs.
LEMMA BatchConserves ==
    ASSUME IInv, IInv', FreshCharges, PoolsConserved, NEW r \in Requests, CreateBatch(r)
    PROVE  PoolsConserved'
<1> DEFINE t == TeamOf[r]
           n(w) == Granted(pool[t], Cost, w)
           c(w) == Taken(pool[t], Cost * n(w))
           f == SubUnrefunded
           g == SubUnrefunded'
           h == TopUnrefunded
           k == TopUnrefunded'
<1>1. PICK w \in 1 .. MaxOutputs :
         /\ n(w) >= 1
         /\ pool' = [pool EXCEPT ![t] = Minus(@, c(w))]
         /\ charge' = [j \in Jobs |-> IF j \in {r} \X (1 .. n(w))
                                      THEN Share(c(w), n(w), j[2]) ELSE charge[j]]
         /\ refunds' = refunds
    BY DEF CreateBatch
<1>2. t \in Teams /\ pool[t] \in Pool /\ Cost \in Nat /\ w \in Nat /\ MaxOutputs \in Nat
    BY GenerationAssumption DEF IInv, TypeOK
<1>3. n(w) \in 1 .. MaxOutputs /\ Cost * n(w) \in 0 .. Total(pool[t])
    <2>1. n(w) \in 0 .. w /\ Cost * n(w) \in 0 .. Total(pool[t])
        BY <1>2, GrantIsAffordable
    <2>2. n(w) >= 1
        BY <1>1
    <2> HIDE DEF n
    <2> QED
        BY <2>1, <2>2, <1>2
<1>4. c(w) \in Pool
    BY <1>2, <1>3, TakenWithinPools
<1> HIDE DEF n, c
<1> DEFINE B == {r} \X (1 .. n(w))
<1>5. B \subseteq TeamJobs(t) /\ \A u : u # t => B \cap TeamJobs(u) = {}
    <2>1. \A i \in 1 .. n(w) : <<r, i>> \in Jobs
        BY <1>2, <1>3, PairsAreJobs
    <2>2. ASSUME NEW b \in B
          PROVE  b \in Jobs /\ b[1] = r
        <3>1. PICK i \in 1 .. n(w) : b = <<r, i>>
            OBVIOUS
        <3> QED
            BY <2>1, <3>1
    <2>3. \A b \in B : b \in TeamJobs(t)
        BY <2>2 DEF TeamJobs, Team
    <2>4. \A u : \A b \in TeamJobs(u) \cap B : u = t
        BY <2>2 DEF TeamJobs, Team
    <2> HIDE DEF B
    <2> QED
        BY <2>3, <2>4
<1>6. \A i \in 1 .. n(w) : /\ <<r, i>> \in Jobs
                           /\ charge[<<r, i>>] = Empty /\ refunds[<<r, i>>] = 0
    <2> SUFFICES ASSUME NEW i \in 1 .. n(w)
                 PROVE  /\ <<r, i>> \in Jobs
                        /\ charge[<<r, i>>] = Empty /\ refunds[<<r, i>>] = 0
        OBVIOUS
    <2>0. i \in 1 .. MaxOutputs
        BY <1>2, <1>3
    <2>1. <<r, i>> \in Jobs
        BY <2>0, PairsAreJobs
    <2>2. status[<<r, i>>] = "none"
        <3>1. Created(r) = {}
            BY DEF IInv, CreateBatch, ApiAt, BatchShape, Before
        <3> QED
            BY <2>0, <3>1 DEF Created, Batch
    <2> QED
        BY <2>1, <2>2 DEF FreshCharges, IInv, Errors, Settlement
<1>7. \A j \in Jobs \ B : g[j] = f[j] /\ k[j] = h[j]
    BY <1>1 DEF SubUnrefunded, TopUnrefunded
<1>8. \A i \in 1 .. n(w) :
         /\ f[<<r, i>>] = 0 /\ g[<<r, i>>] = PartOf(c(w).sub, n(w), i)
         /\ h[<<r, i>>] = 0 /\ k[<<r, i>>] = PartOf(c(w).top, n(w), i)
    <2> SUFFICES ASSUME NEW i \in 1 .. n(w)
                 PROVE  /\ f[<<r, i>>] = 0 /\ g[<<r, i>>] = PartOf(c(w).sub, n(w), i)
                        /\ h[<<r, i>>] = 0 /\ k[<<r, i>>] = PartOf(c(w).top, n(w), i)
        OBVIOUS
    <2>1. charge'[<<r, i>>] = Share(c(w), n(w), i)
        BY <1>1, <1>6
    <2>2. PartOf(c(w).sub, n(w), i) \in Nat /\ PartOf(c(w).top, n(w), i) \in Nat
        BY <1>3, <1>4, PartBounds DEF Pool
    <2> QED
        BY <1>1, <1>6, <2>1, <2>2 DEF SubUnrefunded, TopUnrefunded, Share, Empty
<1>9. \A j \in Jobs : f[j] \in Int /\ h[j] \in Int
    BY UnrefundedAreInts DEF IInv
<1> HIDE DEF f, g, h, k
<1>10. /\ SumFunctionOnSet(g, TeamJobs(t)) = SumFunctionOnSet(f, TeamJobs(t)) + c(w).sub
       /\ SumFunctionOnSet(k, TeamJobs(t)) = SumFunctionOnSet(h, TeamJobs(t)) + c(w).top
    <2>1. \A j \in TeamJobs(t) : f[j] \in Int /\ h[j] \in Int
        BY <1>9, TeamJobsAreFinite
    <2>2. \A j \in TeamJobs(t) \ B : g[j] = f[j] /\ k[j] = h[j]
        BY <1>7, TeamJobsAreFinite
    <2>3. c(w).sub \in Nat /\ c(w).top \in Nat /\ n(w) \in Nat /\ n(w) > 0
        BY <1>3, <1>4 DEF Pool
    <2>4. IsFiniteSet(TeamJobs(t)) /\ {r} \X (1 .. n(w)) \subseteq TeamJobs(t)
        BY <1>5, TeamJobsAreFinite
    <2>5. SumFunctionOnSet(g, TeamJobs(t)) = SumFunctionOnSet(f, TeamJobs(t)) + c(w).sub
        <3>1. ChargesBatch(TeamJobs(t), r, n(w), c(w).sub, f, g)
            BY <1>8, <2>1, <2>2, <2>3, <2>4 DEF ChargesBatch
        <3> QED
            BY <2>4, <3>1, SharesAreAdded
    <2>6. SumFunctionOnSet(k, TeamJobs(t)) = SumFunctionOnSet(h, TeamJobs(t)) + c(w).top
        <3>1. ChargesBatch(TeamJobs(t), r, n(w), c(w).top, h, k)
            BY <1>8, <2>1, <2>2, <2>3, <2>4 DEF ChargesBatch
        <3> QED
            BY <2>4, <3>1, SharesAreAdded
    <2> QED
        BY <2>5, <2>6
<1>11. ASSUME NEW u \in Teams, u # t
       PROVE  /\ SumFunctionOnSet(g, TeamJobs(u)) = SumFunctionOnSet(f, TeamJobs(u))
              /\ SumFunctionOnSet(k, TeamJobs(u)) = SumFunctionOnSet(h, TeamJobs(u))
    <2>1. \A j \in TeamJobs(u) : /\ f[j] \in Int /\ g[j] = f[j]
                                 /\ h[j] \in Int /\ k[j] = h[j]
        BY <1>5, <1>7, <1>9, <1>11, TeamJobsAreFinite
    <2>2. IsFiniteSet(TeamJobs(u))
        BY TeamJobsAreFinite
    <2> QED
        BY <2>1, <2>2, SumSame
<1>12. \A u \in Teams :
         /\ SumFunctionOnSet(f, TeamJobs(u)) \in Int
         /\ SumFunctionOnSet(h, TeamJobs(u)) \in Int
    <2> SUFFICES ASSUME NEW u \in Teams
                 PROVE  /\ SumFunctionOnSet(f, TeamJobs(u)) \in Int
                        /\ SumFunctionOnSet(h, TeamJobs(u)) \in Int
        OBVIOUS
    <2>1. IsFiniteSet(TeamJobs(u)) /\ \A j \in TeamJobs(u) : f[j] \in Int /\ h[j] \in Int
        BY <1>9, TeamJobsAreFinite
    <2> QED
        BY <2>1, SumType
<1>13. ASSUME NEW u \in Teams
       PROVE  Plus(pool'[u], [sub |-> SumFunctionOnSet(g, TeamJobs(u)),
                              top |-> SumFunctionOnSet(k, TeamJobs(u))]) = OpeningPool
    <2> DEFINE x == SumFunctionOnSet(f, TeamJobs(u))
               y == SumFunctionOnSet(h, TeamJobs(u))
    <2>1. Plus(pool[u], [sub |-> x, top |-> y]) = OpeningPool
        BY DEF PoolsConserved, Unrefunded, f, h
    <2>2. x \in Int /\ y \in Int /\ pool[u] \in Pool /\ c(w) \in Pool
        BY <1>4, <1>12 DEF IInv, TypeOK
    <2>3. CASE u = t
        <3>1. pool'[u] = Minus(pool[u], c(w))
            BY <1>1, <1>2, <2>3 DEF IInv, TypeOK
        <3>2. /\ SumFunctionOnSet(g, TeamJobs(u)) = x + c(w).sub
              /\ SumFunctionOnSet(k, TeamJobs(u)) = y + c(w).top
            BY <1>10, <2>3
        <3> HIDE DEF x, y
        <3> QED
            BY <2>1, <2>2, <3>1, <3>2 DEF Plus, Minus, Pool
    <2>4. CASE u # t
        <3>1. pool'[u] = pool[u]
            BY <1>1, <1>2, <2>4 DEF IInv, TypeOK
        <3>2. /\ SumFunctionOnSet(g, TeamJobs(u)) = x
              /\ SumFunctionOnSet(k, TeamJobs(u)) = y
            BY <1>11, <2>4
        <3> QED
            BY <2>1, <3>1, <3>2
    <2> QED
        BY <2>3, <2>4
<1> QED
    BY <1>13 DEF PoolsConserved, Unrefunded, g, k

\* A refund moves the charge of its job back, whenever it is made.
LEMMA RefundConserves ==
    ASSUME IInv, IInv', PoolsConserved, NEW j \in Jobs, NEW why, FailRow(j, why)
    PROVE  PoolsConserved'
<1> DEFINE t == Team(j)
           f == SubUnrefunded
           g == SubUnrefunded'
           h == TopUnrefunded
           k == TopUnrefunded'
<1>1. /\ pool' = [pool EXCEPT ![t] = Plus(@, charge[j])]
      /\ refunds' = [refunds EXCEPT ![j] = @ + 1] /\ charge' = charge
    BY DEF FailRow
<1>2. /\ t \in Teams /\ pool \in [Teams -> Pool] /\ charge[j] \in Pool
      /\ refunds \in [Jobs -> Nat] /\ j \in TeamJobs(t)
    BY OwnersOfJobs DEF IInv, TypeOK, TeamJobs
<1>3. \A i \in Jobs : f[i] \in Int /\ g[i] \in Int /\ h[i] \in Int /\ k[i] \in Int
    <2>1. \A i \in Jobs : f[i] \in Int /\ h[i] \in Int
        BY UnrefundedAreInts DEF IInv
    <2>2. (\A i \in Jobs : SubUnrefunded[i] \in Int /\ TopUnrefunded[i] \in Int)'
        BY UnrefundedStayInts DEF IInv
    <2> QED
        BY <2>1, <2>2
<1>4. \A i \in Jobs \ {j} : g[i] = f[i] /\ k[i] = h[i]
    BY <1>1, <1>2 DEF SubUnrefunded, TopUnrefunded
<1>5. g[j] = f[j] - charge[j].sub /\ k[j] = h[j] - charge[j].top
    <2>1. /\ f[j] = charge[j].sub * (1 - refunds[j])
          /\ g[j] = charge[j].sub * (1 - (refunds[j] + 1))
          /\ h[j] = charge[j].top * (1 - refunds[j])
          /\ k[j] = charge[j].top * (1 - (refunds[j] + 1))
        BY <1>1, <1>2 DEF SubUnrefunded, TopUnrefunded
    <2>2. \A a, m \in Nat : a * (1 - (m + 1)) = a * (1 - m) - a
        OBVIOUS
    <2>3. charge[j].sub \in Nat /\ charge[j].top \in Nat /\ refunds[j] \in Nat
        BY <1>2 DEF Pool
    <2> HIDE DEF f, g, h, k
    <2> QED
        BY <2>1, <2>2, <2>3
<1> HIDE DEF f, g, h, k
<1>6. /\ SumFunctionOnSet(g, TeamJobs(t)) = SumFunctionOnSet(f, TeamJobs(t)) - f[j] + g[j]
      /\ SumFunctionOnSet(k, TeamJobs(t)) = SumFunctionOnSet(h, TeamJobs(t)) - h[j] + k[j]
    <2>1. /\ \A i \in TeamJobs(t) : f[i] \in Int /\ g[i] \in Int
          /\ \A i \in TeamJobs(t) : h[i] \in Int /\ k[i] \in Int
        BY <1>3, TeamJobsAreFinite
    <2>2. /\ \A i \in TeamJobs(t) \ {j} : g[i] = f[i]
          /\ \A i \in TeamJobs(t) \ {j} : k[i] = h[i]
        BY <1>4, TeamJobsAreFinite
    <2>3. IsFiniteSet(TeamJobs(t)) /\ j \in TeamJobs(t)
        BY <1>2, TeamJobsAreFinite
    <2> QED
        BY <2>1, <2>2, <2>3, SumChange
<1>7. ASSUME NEW u \in Teams, u # t
      PROVE  /\ SumFunctionOnSet(g, TeamJobs(u)) = SumFunctionOnSet(f, TeamJobs(u))
             /\ SumFunctionOnSet(k, TeamJobs(u)) = SumFunctionOnSet(h, TeamJobs(u))
    <2>1. j \notin TeamJobs(u)
        BY <1>7 DEF TeamJobs
    <2>2. \A i \in TeamJobs(u) : /\ f[i] \in Int /\ g[i] = f[i]
                                 /\ h[i] \in Int /\ k[i] = h[i]
        BY <1>3, <1>4, <2>1, TeamJobsAreFinite
    <2>3. IsFiniteSet(TeamJobs(u))
        BY TeamJobsAreFinite
    <2> QED
        BY <2>2, <2>3, SumSame
<1>8. \A u \in Teams :
         /\ SumFunctionOnSet(f, TeamJobs(u)) \in Int
         /\ SumFunctionOnSet(h, TeamJobs(u)) \in Int
    <2> SUFFICES ASSUME NEW u \in Teams
                 PROVE  /\ SumFunctionOnSet(f, TeamJobs(u)) \in Int
                        /\ SumFunctionOnSet(h, TeamJobs(u)) \in Int
        OBVIOUS
    <2>1. IsFiniteSet(TeamJobs(u)) /\ \A i \in TeamJobs(u) : f[i] \in Int /\ h[i] \in Int
        BY <1>3, TeamJobsAreFinite
    <2> QED
        BY <2>1, SumType
<1>9. ASSUME NEW u \in Teams
      PROVE  Plus(pool'[u], [sub |-> SumFunctionOnSet(g, TeamJobs(u)),
                             top |-> SumFunctionOnSet(k, TeamJobs(u))]) = OpeningPool
    <2> DEFINE x == SumFunctionOnSet(f, TeamJobs(u))
               y == SumFunctionOnSet(h, TeamJobs(u))
    <2>1. Plus(pool[u], [sub |-> x, top |-> y]) = OpeningPool
        BY DEF PoolsConserved, Unrefunded, f, h
    <2>2. /\ x \in Int /\ y \in Int /\ pool[u] \in Pool /\ charge[j] \in Pool
          /\ f[j] \in Int /\ h[j] \in Int
        BY <1>2, <1>3, <1>8
    <2>3. CASE u = t
        <3>1. pool'[u] = Plus(pool[u], charge[j])
            BY <1>1, <1>2, <2>3
        <3>2. /\ SumFunctionOnSet(g, TeamJobs(u)) = x - f[j] + (f[j] - charge[j].sub)
              /\ SumFunctionOnSet(k, TeamJobs(u)) = y - h[j] + (h[j] - charge[j].top)
            BY <1>5, <1>6, <2>3
        <3> HIDE DEF x, y
        <3> QED
            BY <2>1, <2>2, <3>1, <3>2 DEF Plus, Pool
    <2>4. CASE u # t
        <3>1. pool'[u] = pool[u]
            BY <1>1, <1>2, <2>4
        <3>2. /\ SumFunctionOnSet(g, TeamJobs(u)) = x
              /\ SumFunctionOnSet(k, TeamJobs(u)) = y
            BY <1>7, <2>4
        <3> QED
            BY <2>1, <3>1, <3>2
    <2> QED
        BY <2>3, <2>4
<1> QED
    BY <1>9 DEF PoolsConserved, Unrefunded, g, k

\* Every other step leaves charges, refunds and pools alone.
LEMMA WhoMovesCredits ==
    ASSUME IInv, [Next]_vars
    PROVE  \/ \E r \in Requests : CreateBatch(r)
           \/ /\ UNCHANGED charge
              /\ \A j \in Jobs : status'[j] = "none" => status[j] = "none"
              /\ \/ UNCHANGED <<pool, refunds>>
                 \/ \E j \in Jobs, why \in {"enqueue", "fal", "start", "timeout"} : FailRow(j, why)
<1> USE DEF IInv
<1> DEFINE Kept == \A j \in Jobs : status'[j] = "none" => status[j] = "none"
<1>0. ASSUME NEW j \in Jobs, NEW why, FailRow(j, why)
      PROVE  UNCHANGED charge /\ Kept
    BY <1>0 DEF FailRow, TypeOK
<1>1. CASE ~RowStep
    BY <1>1, RowsChangeInRowSteps DEF rows
<1>2. ASSUME NEW r \in Requests, FailAndRelease(r)
      PROVE  \E j \in Jobs : FailRow(j, "enqueue")
    <2>1. <<r, next[r]>> \in Jobs
        BY PairsAreJobs DEF TypeOK
    <2> QED
        BY <1>2, <2>1 DEF FailAndRelease
<1>3. ASSUME NEW j \in Jobs, CommitSuccess(j) \/ LateDelivery(j) \/ SubmitSucceeds(j)
      PROVE  UNCHANGED <<charge, pool, refunds>> /\ Kept
    BY <1>3 DEF CommitSuccess, LateDelivery, SubmitSucceeds, TypeOK
<1>4. ASSUME NEW j \in Jobs, \/ CommitFailure(j) \/ StartFails(j) \/ DeferFails(j)
                             \/ SubmitFails(j) \/ TimeOut(j) \/ Sweep(j)
      PROVE  \E why \in {"enqueue", "fal", "start", "timeout"} : FailRow(j, why)
    BY <1>4 DEF CommitFailure, StartFails, DeferFails, SubmitFails, FailCleanly,
                TimeOut, Sweep, FailStale
<1> HIDE DEF Kept
<1>5. CASE RowStep
    <2> DEFINE Refund == \E j \in Jobs, why \in {"enqueue", "fal", "start", "timeout"} :
                           FailRow(j, why)
    <2>1. CASE \E r \in Requests : CreateBatch(r)
        BY <2>1
    <2>2. CASE \E r \in Requests : FailAndRelease(r)
        <3>1. Refund
            BY <1>2, <2>2
        <3>2. UNCHANGED charge /\ Kept
            BY <1>0, <3>1
        <3> QED
            BY <3>1, <3>2 DEF Kept
    <2>3. ASSUME NEW j \in Jobs, CommitSuccess(j) \/ LateDelivery(j) \/ SubmitSucceeds(j)
          PROVE  UNCHANGED <<charge, pool, refunds>> /\ Kept
        BY <1>3, <2>3
    <2>4. ASSUME NEW j \in Jobs, \/ CommitFailure(j) \/ StartFails(j) \/ DeferFails(j)
                                 \/ SubmitFails(j) \/ TimeOut(j) \/ Sweep(j)
          PROVE  Refund /\ UNCHANGED charge /\ Kept
        <3>1. Refund
            BY <1>4, <2>4
        <3>2. UNCHANGED charge /\ Kept
            BY <1>0, <3>1
        <3> QED
            BY <3>1, <3>2
    <2> HIDE DEF Refund
    <2>5. CASE \E j \in Jobs : CommitSuccess(j) \/ LateDelivery(j) \/ SubmitSucceeds(j)
        BY <2>3, <2>5 DEF Kept
    <2>6. CASE \E j \in Jobs : \/ CommitFailure(j) \/ StartFails(j) \/ DeferFails(j)
                               \/ SubmitFails(j) \/ TimeOut(j) \/ Sweep(j)
        BY <2>4, <2>6 DEF Kept, Refund
    <2> QED
        BY <1>5, <2>1, <2>2, <2>5, <2>6 DEF RowStep
<1> QED
    BY <1>1, <1>5 DEF Kept, rows

\* Every step keeps the credits.
LEMMA PoolsStep ==
    ASSUME IInv, IInv', FreshCharges, PoolsConserved, [Next]_vars
    PROVE  FreshCharges' /\ PoolsConserved'
<1>1. ASSUME NEW r \in Requests, CreateBatch(r)
      PROVE  FreshCharges' /\ PoolsConserved'
    <2>1. FreshCharges'
        BY <1>1 DEF CreateBatch, FreshCharges, IInv, TypeOK
    <2> QED
        BY <1>1, <2>1, BatchConserves
<1>2. ASSUME UNCHANGED charge, \A j \in Jobs : status'[j] = "none" => status[j] = "none"
      PROVE  FreshCharges'
    BY <1>2 DEF FreshCharges
<1>3. CASE UNCHANGED <<charge, pool, refunds>>
    <2>1. UNCHANGED <<SubUnrefunded, TopUnrefunded>>
        BY <1>3 DEF SubUnrefunded, TopUnrefunded
    <2>2. PoolsConserved'
        BY <1>3, <2>1 DEF PoolsConserved, Unrefunded
    <2> QED
        BY <1>2, <1>3, <2>2, WhoMovesCredits, <1>1
<1>4. ASSUME NEW j \in Jobs, NEW why, FailRow(j, why)
      PROVE  PoolsConserved'
    BY <1>4, RefundConserves
<1> QED
    BY <1>1, <1>2, <1>3, <1>4, WhoMovesCredits

\* Credits are neither lost nor made: at any time, what a team opened with is
\* its balance and what its unrefunded jobs took, pool by pool, for any number
\* of requests and of jobs, whatever dies, is refused, times out or arrives
\* late.
THEOREM CreditsAreConserved == Spec => []PoolsConserved
<1>1. ASSUME Init
      PROVE  FreshCharges /\ PoolsConserved
    <2>1. FreshCharges
        BY <1>1 DEF Init, FreshCharges
    <2>2. \A j \in Jobs : SubUnrefunded[j] = 0 /\ TopUnrefunded[j] = 0
        BY <1>1 DEF Init, SubUnrefunded, TopUnrefunded, Empty
    <2>3. \A t \in Teams : /\ SumFunctionOnSet(SubUnrefunded, TeamJobs(t)) = 0
                           /\ SumFunctionOnSet(TopUnrefunded, TeamJobs(t)) = 0
        <3> SUFFICES ASSUME NEW t \in Teams
                     PROVE  /\ SumFunctionOnSet(SubUnrefunded, TeamJobs(t)) = 0
                            /\ SumFunctionOnSet(TopUnrefunded, TeamJobs(t)) = 0
            OBVIOUS
        <3>1. IsFiniteSet(TeamJobs(t))
            BY TeamJobsAreFinite
        <3>2. \A j \in TeamJobs(t) : SubUnrefunded[j] = 0 /\ TopUnrefunded[j] = 0
            BY <2>2, TeamJobsAreFinite
        <3> QED
            BY <3>1, <3>2, SumZero
    <2>4. PoolsConserved
        BY <1>1, <2>3, GenerationAssumption DEF Init, PoolsConserved, Unrefunded, Plus, Pool
    <2> QED
        BY <2>1, <2>4
<1>2. IInv /\ IInv' /\ FreshCharges /\ PoolsConserved /\ [Next]_vars
      => FreshCharges' /\ PoolsConserved'
    BY PoolsStep
<1> QED
    BY Invariance, <1>1, <1>2, PTL DEF Spec
=============================================================================

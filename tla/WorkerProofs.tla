---------------------------- MODULE WorkerProofs ----------------------------
(***************************************************************************)
(* Theorems about what the worker does beside the jobs: FalRequests and    *)
(* WorkerHealth.                                                           *)
(*                                                                         *)
(* Theorems about FalRequests for every number of attempts and of deaths   *)
(* of the worker.                                                          *)
(*                                                                         *)
(* That one request decides is not inductive: a run that is sending has    *)
(* the job to itself only because nobody touches a row it keeps locked     *)
(* (RunHasJob), and a verdict stands only because fal does not decide      *)
(* twice (VerdictStands). The number of requests is bounded in each state  *)
(* by what the next step may add to it (Accounted).                        *)
(*                                                                         *)
(* Theorems about WorkerHealth for all intervals with which the threshold  *)
(* exceeds a legitimate stretch by one beat.                               *)
(*                                                                         *)
(* An alert is right because the last beat is no older than the stretch    *)
(* and one beat (BeatsAreRecent). A hung loop is gone in time because what *)
(* the thread may still sleep and how long the loop has hung add up to no  *)
(* more than the threshold and an interval per check (HungIsFound): a      *)
(* check that finds nothing wrong sees a beat younger than the threshold,  *)
(* and the loop has not hung longer than that. The key's time to live is   *)
(* what its age leaves of it (KeyAges).                                    *)
(***************************************************************************)
EXTENDS FalRequests, WorkerHealth, FiniteSetTheorems, TLAPS
-----------------------------------------------------------------------------
(* Requests to fal.                                                        *)

\* A run in progress has a queued job, and a queued job no request.
RunHasJob ==
    /\ run.at # "none" => job = "queued"
    /\ run.at = "accepted" => run.id \in AllRequests
    /\ job = "queued" => requestId = NoRequest

\* The request that settled the job has been decided.
VerdictStands == settledBy # NoRequest => queue[settledBy] \in {"ok", "error"}

\* Requests in fal's queue: one for each lost answer and each death, and one
\* more once the job needs no other.
Accounted ==
    Cardinality(Queued) <=
        Cardinality(lost) + died +
            (IF run.at = "accepted" \/ job # "queued" THEN 1 ELSE 0)

\* The inductive invariant.
FalInv == FalTypeOK /\ RunHasJob /\ VerdictStands /\ OneVerdict /\ Accounted
-----------------------------------------------------------------------------
\* The bound on the requests is a number, and they are finite.
LEMMA RequestsFinite ==
    /\ MaxAttempts * (MaxDeaths + 1) \in Nat
    /\ NoRequest \notin AllRequests
    /\ IsFiniteSet(AllRequests)
<1>1. MaxAttempts * (MaxDeaths + 1) \in Nat
  BY FalAssumption, SMT
<1>2. NoRequest \notin AllRequests
  BY <1>1 DEF AllRequests, NoRequest
<1>3. IsFiniteSet(AllRequests)
  BY <1>1, FS_Interval DEF AllRequests
<1> QED
  BY <1>1, <1>2, <1>3

\* Queued and lost requests are finitely many.
LEMMA CountsAreNumbers ==
    ASSUME FalTypeOK
    PROVE  /\ IsFiniteSet(Queued) /\ Cardinality(Queued) \in Nat
           /\ IsFiniteSet(lost) /\ Cardinality(lost) \in Nat
<1>1. Queued \subseteq AllRequests /\ lost \subseteq Queued
  BY DEF FalTypeOK, Queued
<1> QED
  BY <1>1, RequestsFinite, FS_Subset, FS_CardinalityType

\* One more request in the queue is one more to count.
LEMMA OneMoreQueued ==
    ASSUME FalTypeOK, NEW i \in AllRequests, Enqueues(i)
    PROVE  /\ Queued' = Queued \union {i} /\ i \notin Queued
           /\ Cardinality(Queued') = Cardinality(Queued) + 1
           /\ queue' \in [AllRequests -> {"unsent", "running", "ok", "error"}]
           /\ \A k \in AllRequests : queue[k] # "unsent" => queue'[k] = queue[k]
<1>1. queue' \in [AllRequests -> {"unsent", "running", "ok", "error"}]
  BY DEF FalTypeOK, Enqueues
<1>2. Queued' = Queued \union {i} /\ i \notin Queued
  BY DEF FalTypeOK, Enqueues, Queued
<1>3. Cardinality(Queued') = Cardinality(Queued) + 1
  BY <1>2, CountsAreNumbers, FS_AddElement
<1> QED
  BY <1>1, <1>2, <1>3 DEF FalTypeOK, Enqueues

\* The end of a submission, whether the attempt queued a request or not.
LEMMA SubmissionEnds ==
    ASSUME FalInv, Sending, SubmissionFails,
           UNCHANGED <<queue, lost, died>>
        \/ \E i \in AllRequests : Enqueues(i) /\ lost' \in {lost, lost \union {i}} /\ died' = died
    PROVE  FalInv'
<1>1. /\ job' = "failed" /\ run' = NoRun /\ message' = FALSE
      /\ requestId' = NoRequest /\ settledBy' = NoRequest
  BY RequestsFinite DEF FalInv, RunHasJob, OneVerdict, Sending, SubmissionFails
<1>2. NoRun \in [at : {"none", "sending", "accepted"}, attempt : 0 .. MaxAttempts,
                 id : AllRequests \union {NoRequest}]
  BY FalAssumption DEF NoRun
<1>3. Cardinality(Queued) <= Cardinality(lost) + died
  BY CountsAreNumbers DEF FalInv, Accounted, RunHasJob, Sending, FalTypeOK
<1>4. CASE UNCHANGED <<queue, lost, died>>
  <2>1. FalTypeOK'
    BY <1>1, <1>2, <1>4 DEF FalInv, FalTypeOK, Queued
  <2>2. Accounted'
    BY <1>1, <1>3, <1>4, CountsAreNumbers DEF FalInv, FalTypeOK, Accounted, Queued
  <2> QED
    BY <1>1, <2>1, <2>2 DEF FalInv, RunHasJob, VerdictStands, OneVerdict, NoRun
<1>5. ASSUME NEW i \in AllRequests, Enqueues(i), lost' \in {lost, lost \union {i}}, died' = died
      PROVE  FalInv'
  <2>1. FalTypeOK'
    <3>1. lost' \subseteq Queued'
      BY <1>5, OneMoreQueued DEF FalInv, FalTypeOK
    <3> QED
      BY <1>1, <1>2, <1>5, <3>1, OneMoreQueued DEF FalInv, FalTypeOK
  <2>2. Cardinality(lost) <= Cardinality(lost')
    <3>1. lost \subseteq lost' /\ IsFiniteSet(lost')
      BY <1>5, CountsAreNumbers, FS_AddElement DEF FalInv
    <3> QED
      BY <3>1, FS_Subset
  <2>3. Accounted'
    <3>1. Cardinality(Queued') = Cardinality(Queued) + 1
      BY <1>5, OneMoreQueued DEF FalInv
    <3>2. /\ Cardinality(Queued) \in Nat /\ Cardinality(lost) \in Nat /\ died \in Nat
          /\ Cardinality(lost') \in Nat
      BY <2>1, CountsAreNumbers, FS_Subset, FS_CardinalityType, FS_AddElement, <1>5
      DEF FalInv, FalTypeOK
    <3> QED
      BY <1>1, <1>3, <1>5, <2>2, <3>1, <3>2 DEF Accounted
  <2> QED
    BY <1>1, <2>1, <2>3 DEF FalInv, RunHasJob, VerdictStands, OneVerdict, NoRun
<1> QED
  BY <1>4, <1>5

\* Another attempt of a run.
LEMMA AnotherAttempt ==
    ASSUME FalInv, Sending, run.attempt < MaxAttempts,
           run' = [run EXCEPT !.attempt = @ + 1], UNCHANGED <<jobVars, message>>
    PROVE  /\ run'.at = "sending" /\ UNCHANGED <<job, requestId, settledBy, message>>
           /\ run' \in [at : {"none", "sending", "accepted"}, attempt : 0 .. MaxAttempts,
                        id : AllRequests \union {NoRequest}]
           /\ job = "queued" /\ requestId = NoRequest /\ settledBy = NoRequest
<1>1. run.attempt + 1 \in 0 .. MaxAttempts
  BY FalAssumption DEF FalInv, FalTypeOK
<1>2. job = "queued" /\ requestId = NoRequest /\ settledBy = NoRequest
  BY DEF FalInv, RunHasJob, OneVerdict, Sending
<1> QED
  BY <1>1, <1>2 DEF FalInv, FalTypeOK, Sending, jobVars

\* An attempt whose answer was lost, with another to come.
LEMMA LostAndRepeated ==
    ASSUME FalInv, Sending, run.attempt < MaxAttempts,
           run' = [run EXCEPT !.attempt = @ + 1], UNCHANGED <<jobVars, message, died>>,
           NEW i \in AllRequests, Enqueues(i), lost' = lost \union {i}
    PROVE  FalInv'
<1>1. /\ Queued' = Queued \union {i} /\ i \notin Queued
      /\ Cardinality(Queued') = Cardinality(Queued) + 1
      /\ queue' \in [AllRequests -> {"unsent", "running", "ok", "error"}]
  BY OneMoreQueued DEF FalInv
<1>2. Cardinality(lost') = Cardinality(lost) + 1
  BY <1>1, CountsAreNumbers, FS_AddElement DEF FalInv, FalTypeOK
<1>3. FalTypeOK'
  BY <1>1, AnotherAttempt DEF FalInv, FalTypeOK
<1>4. Accounted'
  <2>1. /\ Cardinality(Queued) \in Nat /\ Cardinality(lost) \in Nat /\ died \in Nat
    BY CountsAreNumbers DEF FalInv, FalTypeOK
  <2>2. Cardinality(Queued) <= Cardinality(lost) + died
    BY <2>1, AnotherAttempt DEF FalInv, Accounted, Sending
  <2> QED
    BY <1>1, <1>2, <2>1, <2>2, AnotherAttempt DEF Accounted
<1> QED
  BY <1>3, <1>4, AnotherAttempt, RequestsFinite
  DEF FalInv, RunHasJob, VerdictStands, OneVerdict

\* The invariant holds at first.
LEMMA FalInvHoldsAtFirst == FalInit => FalInv
<1> SUFFICES ASSUME FalInit PROVE FalInv
  OBVIOUS
<1>1. Queued = {}
  BY DEF FalInit, Queued
<1>2. FalTypeOK
  BY <1>1, FalAssumption DEF FalInit, FalTypeOK, NoRun
<1>3. Accounted
  BY <1>1, FS_EmptySet DEF FalInit, Accounted, NoRun
<1> QED
  BY <1>2, <1>3 DEF FalInit, FalInv, RunHasJob, VerdictStands, OneVerdict, NoRun

\* Each step keeps it.
LEMMA FalInvIsKept == FalInv /\ [FalNext]_falVars => FalInv'
<1> SUFFICES ASSUME FalInv, [FalNext]_falVars PROVE FalInv'
  OBVIOUS
<1>t. /\ NoRequest \notin AllRequests
      /\ Cardinality(Queued) \in Nat /\ Cardinality(lost) \in Nat /\ died \in Nat
  BY RequestsFinite, CountsAreNumbers DEF FalInv, FalTypeOK
<1>r. /\ NoRun \in [at : {"none", "sending", "accepted"}, attempt : 0 .. MaxAttempts,
                    id : AllRequests \union {NoRequest}]
      /\ 1 \in 0 .. MaxAttempts
  BY FalAssumption DEF NoRun
<1>1. CASE PickUpJob
  <2>1. FalTypeOK' /\ Queued' = Queued
    <3>1. run' \in [at : {"none", "sending", "accepted"}, attempt : 0 .. MaxAttempts,
                    id : AllRequests \union {NoRequest}]
      BY <1>1, <1>r DEF PickUpJob
    <3>2. UNCHANGED <<job, requestId, settledBy, message, queue, lost, died>>
      BY <1>1 DEF PickUpJob, jobVars
    <3>3. Queued' = Queued
      BY <3>2 DEF Queued
    <3>4. lost' \subseteq Queued'
      BY <3>2, <3>3 DEF FalInv, FalTypeOK
    <3> QED
      BY <3>1, <3>2, <3>3, <3>4 DEF FalInv, FalTypeOK
  <2> QED
    BY <1>1, <2>1 DEF PickUpJob, jobVars, FalInv, RunHasJob, VerdictStands, OneVerdict, Accounted
<1>2. CASE DropJob
  <2>1. FalTypeOK' /\ Queued' = Queued
    BY <1>2 DEF DropJob, jobVars, FalInv, FalTypeOK, Queued
  <2> QED
    BY <1>2, <2>1 DEF DropJob, jobVars, FalInv, RunHasJob, VerdictStands, OneVerdict, Accounted
<1>3. CASE Accepted
  <2>1. PICK i \in AllRequests : Enqueues(i) /\ run' = [run EXCEPT !.at = "accepted", !.id = i]
    BY <1>3 DEF Accepted
  <2>2. /\ Queued' = Queued \union {i} /\ Cardinality(Queued') = Cardinality(Queued) + 1
        /\ queue' \in [AllRequests -> {"unsent", "running", "ok", "error"}]
    BY <2>1, OneMoreQueued DEF FalInv
  <2>3. FalTypeOK'
    BY <1>3, <2>1, <2>2 DEF Accepted, jobVars, FalInv, FalTypeOK
  <2>4. /\ run.at = "sending" /\ job = "queued" /\ requestId = NoRequest /\ settledBy = NoRequest
    BY <1>3 DEF Accepted, Sending, FalInv, RunHasJob, OneVerdict
  <2>5. run'.at = "accepted" /\ run'.id = i
    BY <2>1 DEF FalInv, FalTypeOK
  <2>6. Accounted'
    BY <1>3, <1>t, <2>2, <2>4, <2>5 DEF Accepted, jobVars, FalInv, Accounted
  <2> QED
    BY <1>3, <2>3, <2>4, <2>5, <2>6 DEF Accepted, jobVars, FalInv, RunHasJob, VerdictStands, OneVerdict
<1>4. CASE AnswerLost
  <2>1. PICK i \in AllRequests : Enqueues(i) /\ lost' = lost \union {i}
    BY <1>4 DEF AnswerLost
  <2>2. CASE run.attempt < MaxAttempts
    BY <1>4, <2>1, <2>2, LostAndRepeated DEF AnswerLost, RetryOrFail
  <2>3. CASE ~(run.attempt < MaxAttempts)
    BY <1>4, <2>1, <2>3, SubmissionEnds DEF AnswerLost, RetryOrFail
  <2> QED
    BY <2>2, <2>3
<1>5. CASE NotReached
  <2>1. CASE run.attempt < MaxAttempts
    <3>1. FalTypeOK' /\ Queued' = Queued
      BY <1>5, <2>1, AnotherAttempt DEF NotReached, RetryOrFail, jobVars, FalInv, FalTypeOK, Queued
    <3> QED
      BY <1>5, <1>t, <2>1, <3>1, AnotherAttempt
      DEF NotReached, RetryOrFail, jobVars, FalInv, RunHasJob, VerdictStands, OneVerdict,
          Accounted, Sending
  <2>2. CASE ~(run.attempt < MaxAttempts)
    BY <1>5, <2>2, SubmissionEnds DEF NotReached, RetryOrFail
  <2> QED
    BY <2>1, <2>2
<1>6. CASE Rejected
  BY <1>6, SubmissionEnds DEF Rejected
<1>7. CASE Unreadable
  BY <1>7, SubmissionEnds DEF Unreadable
<1>8. CASE RecordRequest
  <2>1. /\ job = "queued" /\ requestId = NoRequest /\ settledBy = NoRequest
        /\ run.id \in AllRequests /\ run.at = "accepted"
    BY <1>8 DEF RecordRequest, FalInv, RunHasJob, OneVerdict
  <2>2. FalTypeOK' /\ Queued' = Queued
    <3>1. run' \in [at : {"none", "sending", "accepted"}, attempt : 0 .. MaxAttempts,
                    id : AllRequests \union {NoRequest}]
      BY <1>8, <1>r DEF RecordRequest
    <3>2. /\ job' = "processing" /\ requestId' \in AllRequests /\ message' = FALSE
          /\ UNCHANGED <<settledBy, queue, lost, died>>
      BY <1>8, <2>1 DEF RecordRequest
    <3>3. Queued' = Queued
      BY <3>2 DEF Queued
    <3>4. lost' \subseteq Queued'
      BY <3>2, <3>3 DEF FalInv, FalTypeOK
    <3> QED
      BY <3>1, <3>2, <3>3, <3>4 DEF FalInv, FalTypeOK
  <2> QED
    BY <1>8, <1>t, <2>1, <2>2
    DEF RecordRequest, NoRun, FalInv, RunHasJob, VerdictStands, OneVerdict, Accounted
<1>9. CASE SenderDies
  <2>1. FalTypeOK' /\ Queued' = Queued
    <3>1. run' \in [at : {"none", "sending", "accepted"}, attempt : 0 .. MaxAttempts,
                    id : AllRequests \union {NoRequest}]
      BY <1>9, <1>r DEF SenderDies
    <3>2. UNCHANGED <<job, requestId, settledBy, message, queue, lost>>
      BY <1>9 DEF SenderDies, jobVars
    <3>3. Queued' = Queued
      BY <3>2 DEF Queued
    <3>4. lost' \subseteq Queued' /\ died' \in 0 .. MaxDeaths
      BY <1>9, <3>2, <3>3, FalAssumption DEF SenderDies, FalInv, FalTypeOK
    <3> QED
      BY <3>1, <3>2, <3>3, <3>4 DEF FalInv, FalTypeOK
  <2>2. job = "queued" /\ run'.at = "none"
    BY <1>9 DEF SenderDies, NoRun, FalInv, RunHasJob
  <2> QED
    BY <1>9, <1>t, <2>1, <2>2
    DEF SenderDies, jobVars, FalInv, RunHasJob, VerdictStands, OneVerdict, Accounted
<1>10. CASE GiveUpWaiting
  <2>1. FalTypeOK' /\ Queued' = Queued
    BY <1>10 DEF GiveUpWaiting, FalInv, FalTypeOK, Queued
  <2>2. settledBy = NoRequest
    BY <1>10 DEF GiveUpWaiting, FalInv, OneVerdict
  <2> QED
    BY <1>10, <1>t, <2>1, <2>2
    DEF GiveUpWaiting, FalInv, RunHasJob, VerdictStands, OneVerdict, Accounted
<1>11. ASSUME NEW i \in AllRequests, FalDecides(i) PROVE FalInv'
  <2>1. /\ queue' \in [AllRequests -> {"unsent", "running", "ok", "error"}]
        /\ \A k \in AllRequests : k # i => queue'[k] = queue[k]
        /\ queue[i] = "running" /\ queue'[i] \in {"ok", "error"}
    BY <1>11 DEF FalDecides, FalInv, FalTypeOK
  <2>2. Queued' = Queued
    BY <2>1 DEF Queued
  <2>3. FalTypeOK'
    BY <1>11, <2>1, <2>2 DEF FalDecides, jobVars, FalInv, FalTypeOK
  <2>4. settledBy # NoRequest => settledBy \in AllRequests /\ settledBy # i
    BY <2>1 DEF FalInv, FalTypeOK, VerdictStands
  <2> QED
    BY <1>11, <2>1, <2>2, <2>3, <2>4
    DEF FalDecides, jobVars, FalInv, RunHasJob, VerdictStands, OneVerdict, Accounted
<1>12. ASSUME NEW i \in AllRequests, Result(i) PROVE FalInv'
  <2>1. FalTypeOK' /\ Queued' = Queued
    BY <1>12 DEF Result, SettledByResult, FalInv, FalTypeOK, Queued
  <2> QED
    BY <1>12, <1>t, <2>1
    DEF Result, SettledByResult, MeantFor, FalInv, RunHasJob, VerdictStands, OneVerdict, Accounted
<1>13. CASE UNCHANGED falVars
  <2>1. FalTypeOK' /\ Queued' = Queued
    BY <1>13 DEF falVars, jobVars, FalInv, FalTypeOK, Queued
  <2> QED
    BY <1>13, <2>1
    DEF falVars, jobVars, FalInv, RunHasJob, VerdictStands, OneVerdict, Accounted
<1> QED
  BY <1>1, <1>2, <1>3, <1>4, <1>5, <1>6, <1>7, <1>8, <1>9, <1>10, <1>11, <1>12, <1>13
  DEF FalNext

\* The types of the requests of a job.
THEOREM FalTypesHold == FalSpec => []FalTypeOK
<1>1. FalInv => FalTypeOK
  BY DEF FalInv
<1> QED
  BY <1>1, FalInvHoldsAtFirst, FalInvIsKept, PTL DEF FalSpec

\* For every number of attempts and of deaths: one request decides a job, the
\* recorded one if there is one, whatever became of the others
\* (handle_fal_webhook, submit_to_fal).
THEOREM OneRequestDecides == FalSpec => []OneVerdict
<1>1. FalInv => OneVerdict
  BY DEF FalInv
<1> QED
  BY <1>1, FalInvHoldsAtFirst, FalInvIsKept, PTL DEF FalSpec

\* For every number of attempts and of deaths: a request more than one has
\* its lost answer or its death of the worker, and a job that is settled or
\* processing gets no other (send_with_retry, submit_generation_job).
THEOREM DuplicatesAreAccountedFor == FalSpec => []DuplicatesAreLostAnswers
<1>1. FalInv => DuplicatesAreLostAnswers
  <2> SUFFICES ASSUME FalInv PROVE DuplicatesAreLostAnswers
    OBVIOUS
  <2>1. /\ Cardinality(Queued) \in Nat /\ Cardinality(lost) \in Nat /\ died \in Nat
    BY CountsAreNumbers DEF FalInv, FalTypeOK
  <2>2. Cardinality(Queued) <= 1 + Cardinality(lost) + died
    BY <2>1 DEF FalInv, Accounted
  <2> QED
    BY <2>2 DEF FalInv, RunHasJob, DuplicatesAreLostAnswers
<1> QED
  BY <1>1, FalInvHoldsAtFirst, FalInvIsKept, PTL DEF FalSpec
-----------------------------------------------------------------------------
(* The watchdog and the health key.                                        *)

\* The intervals of the checks that may pass by a hung loop.
Checks == (1 + raised) * CheckEvery

\* How old the last beat may be.
BeatsAreRecent ==
    /\ eventLoop = "free" => stretch = 0 /\ sinceBeat <= Threshold
    /\ eventLoop = "busy" => stretch <= MaxStretch /\ sinceBeat <= BeatEvery + stretch
    /\ eventLoop = "hung" /\ sinceBeat <= Threshold => stretch <= sinceBeat

\* How long a loop may have hung.
HungIsFound ==
    /\ eventLoop = "hung" /\ alerting = 0 => stretch + toCheck <= Threshold + Checks
    /\ alerting > 0 => eventLoop = "hung" /\ stretch + 1 <= Threshold + Checks + alerting

\* The health key and its age.
KeyAges ==
    /\ sinceFresh < RefreshEvery => sentinel + sinceFresh = SentinelTTL
    /\ sentinel > 0 /\ eventLoop # "free" => stretch <= SentinelTTL - sentinel

\* The inductive invariant.
HealthInv == HealthTypeOK /\ BeatsAreRecent /\ HungIsFound /\ KeyAges
-----------------------------------------------------------------------------
\* The assumptions in the form the steps use them.
LEMMA IntervalsAreNumbers ==
    /\ BeatEvery \in Nat /\ BeatEvery > 0 /\ CheckEvery \in Nat /\ CheckEvery > 0
    /\ RefreshEvery \in Nat /\ RefreshEvery > 0
    /\ Threshold \in Nat /\ AlertTime \in Nat /\ MaxStretch \in Nat /\ MaxRaises \in Nat
    /\ MaxStretch + BeatEvery <= Threshold
  BY HealthAssumption

\* A bound that is a product is a number, and no less than its factors' sum.
LEMMA ProductsAreNumbers ==
    ASSUME NEW n \in Nat
    PROVE  /\ (1 + n) * CheckEvery \in Nat
           /\ (1 + (n + 1)) * CheckEvery = (1 + n) * CheckEvery + CheckEvery
           /\ CheckEvery <= (1 + n) * CheckEvery
<1> DEFINE p == n * CheckEvery
<1>1. p \in Nat
  BY IntervalsAreNumbers, SMT
<1>2. /\ (1 + n) * CheckEvery = CheckEvery + p
      /\ (1 + (n + 1)) * CheckEvery = CheckEvery + CheckEvery + p
  BY IntervalsAreNumbers, SMT
<1> HIDE DEF p
<1> QED
  BY <1>1, <1>2, IntervalsAreNumbers

\* The clock adds one to a stretch, exactly one while it may be legitimate.
LEMMA StretchGrows ==
    ASSUME HealthInv, HealthTick
    PROVE  /\ stretch' \in Nat
           /\ eventLoop = "free" => stretch' = 0
           /\ eventLoop # "free" => stretch' <= stretch + 1
           /\ eventLoop = "busy" => stretch' = stretch + 1
<1> DEFINE cap == Threshold + (1 + MaxRaises) * CheckEvery + AlertTime + 1
<1>1. cap \in Nat /\ MaxStretch < cap
  BY IntervalsAreNumbers, ProductsAreNumbers
<1>2. stretch' = IF eventLoop = "free" THEN 0 ELSE Later(stretch, cap)
  BY DEF HealthTick
<1>3. stretch \in Nat /\ (eventLoop = "busy" => stretch < MaxStretch)
  BY DEF HealthInv, HealthTypeOK, HealthTick
<1> HIDE DEF cap
<1> QED
  BY <1>1, <1>2, <1>3, IntervalsAreNumbers DEF Later

\* The clock.
LEMMA TickKeepsHealth ==
    ASSUME HealthInv, HealthTick
    PROVE  HealthInv'
<1>n. /\ stretch \in Nat /\ sinceBeat \in 0 .. Threshold + 1
      /\ toCheck \in 0 .. CheckEvery /\ alerting \in 0 .. AlertTime + 1
      /\ sentinel \in 0 .. SentinelTTL /\ sinceFresh \in 0 .. RefreshEvery
      /\ raised \in Nat
  BY IntervalsAreNumbers DEF HealthInv, HealthTypeOK
<1>u. UNCHANGED <<eventLoop, raised>> /\ Checks' = Checks /\ Checks \in Nat
  BY <1>n, ProductsAreNumbers DEF HealthTick, Checks
<1>a. /\ sinceBeat' = IF sinceBeat < Threshold + 1 THEN sinceBeat + 1 ELSE sinceBeat
      /\ sinceFresh' = IF sinceFresh < RefreshEvery THEN sinceFresh + 1 ELSE sinceFresh
      /\ toCheck' = IF Running /\ alerting = 0 THEN toCheck - 1 ELSE toCheck
      /\ alerting' = IF alerting > 0 THEN alerting + 1 ELSE 0
      /\ sentinel' = IF sentinel > 0 THEN sentinel - 1 ELSE 0
      /\ alerting <= AlertTime
  BY DEF HealthTick, Later
<1>b. /\ eventLoop = "free" => sinceBeat < BeatEvery
      /\ eventLoop = "free" => sinceFresh < RefreshEvery
      /\ eventLoop # "down" /\ alerting = 0 => toCheck > 0
      /\ eventLoop = "busy" => stretch < MaxStretch
  BY <1>n, IntervalsAreNumbers
  DEF HealthTick, BeatDue, RefreshDue, CheckDue, Running
<1>1. HealthTypeOK'
  BY <1>n, <1>u, <1>a, <1>b, StretchGrows, IntervalsAreNumbers
  DEF HealthInv, HealthTypeOK, SentinelTTL, Running
<1>2. BeatsAreRecent'
  BY <1>n, <1>u, <1>a, <1>b, StretchGrows, IntervalsAreNumbers DEF HealthInv, BeatsAreRecent
<1>3. HungIsFound'
  BY <1>n, <1>u, <1>a, <1>b, StretchGrows, IntervalsAreNumbers
  DEF HealthInv, HungIsFound, Running
<1>4. KeyAges'
  BY <1>n, <1>u, <1>a, <1>b, StretchGrows, IntervalsAreNumbers
  DEF HealthInv, KeyAges, SentinelTTL
<1> QED
  BY <1>1, <1>2, <1>3, <1>4 DEF HealthInv

\* A check of the watchdog's thread.
LEMMA CheckKeepsHealth ==
    ASSUME HealthInv, CheckLoop
    PROVE  HealthInv'
<1>n. /\ stretch \in Nat /\ sinceBeat \in 0 .. Threshold + 1
      /\ toCheck = 0 /\ alerting = 0 /\ raised \in Nat /\ eventLoop # "down"
      /\ eventLoop \in {"free", "busy", "hung", "down"}
  BY IntervalsAreNumbers DEF HealthInv, HealthTypeOK, CheckLoop, CheckDue, Running
<1>u. UNCHANGED <<eventLoop, stretch, sinceBeat, sentinel, sinceFresh, raised>>
  BY DEF CheckLoop
<1>c. Checks' = Checks /\ Checks \in Nat /\ CheckEvery <= Checks
  BY <1>n, <1>u, ProductsAreNumbers DEF Checks
<1>k. BeatsAreRecent' /\ KeyAges'
  BY <1>u DEF HealthInv, BeatsAreRecent, KeyAges
<1>1. CASE Frozen
  <2>1. alerting' = 1 /\ toCheck' = toCheck /\ eventLoop = "hung"
    BY <1>1, <1>n, IntervalsAreNumbers DEF CheckLoop, Frozen, HealthInv, BeatsAreRecent
  <2>2. HealthTypeOK'
    BY <1>u, <2>1, IntervalsAreNumbers DEF HealthInv, HealthTypeOK
  <2>3. HungIsFound'
    BY <1>n, <1>u, <1>c, <2>1, IntervalsAreNumbers DEF HealthInv, HungIsFound
  <2> QED
    BY <1>k, <2>2, <2>3 DEF HealthInv
<1>2. CASE ~Frozen
  <2>1. alerting' = 0 /\ toCheck' = CheckEvery /\ sinceBeat <= Threshold
    BY <1>2, <1>n, IntervalsAreNumbers DEF CheckLoop, Frozen
  <2>2. HealthTypeOK'
    BY <1>u, <2>1, IntervalsAreNumbers DEF HealthInv, HealthTypeOK
  <2>3. HungIsFound'
    BY <1>n, <1>u, <1>c, <2>1, IntervalsAreNumbers DEF HealthInv, BeatsAreRecent, HungIsFound
  <2> QED
    BY <1>k, <2>2, <2>3 DEF HealthInv
<1> QED
  BY <1>1, <1>2

\* Each step keeps the invariant.
LEMMA HealthInvIsKept == HealthInv /\ [HealthNext]_healthVars => HealthInv'
<1> SUFFICES ASSUME HealthInv, [HealthNext]_healthVars PROVE HealthInv'
  OBVIOUS
<1>n. /\ stretch \in Nat /\ sinceBeat \in 0 .. Threshold + 1
      /\ toCheck \in 0 .. CheckEvery /\ alerting \in 0 .. AlertTime + 1
      /\ sentinel \in 0 .. SentinelTTL /\ sinceFresh \in 0 .. RefreshEvery
      /\ raised \in Nat /\ Checks \in Nat /\ CheckEvery <= Checks
      /\ eventLoop \in {"free", "busy", "hung", "down"}
  BY IntervalsAreNumbers, ProductsAreNumbers DEF HealthInv, HealthTypeOK, Checks
<1>c. raised' = raised => Checks' = Checks
  BY DEF Checks
<1> USE IntervalsAreNumbers
<1>1. CASE Beat
  BY <1>1, <1>n, <1>c
  DEF Beat, BeatDue, HealthInv, HealthTypeOK, BeatsAreRecent, HungIsFound, KeyAges, SentinelTTL
<1>2. CASE Refresh
  BY <1>2, <1>n, <1>c
  DEF Refresh, RefreshDue, HealthInv, HealthTypeOK, BeatsAreRecent, HungIsFound, KeyAges,
      SentinelTTL
<1>3. CASE Block
  BY <1>3, <1>n, <1>c
  DEF Block, BeatDue, RefreshDue, HealthInv, HealthTypeOK, BeatsAreRecent, HungIsFound,
      KeyAges, SentinelTTL
<1>4. CASE Unblock
  BY <1>4, <1>n, <1>c
  DEF Unblock, HealthInv, HealthTypeOK, BeatsAreRecent, HungIsFound, KeyAges, SentinelTTL
<1>5. CASE Hang
  BY <1>5, <1>n, <1>c
  DEF Hang, HealthInv, HealthTypeOK, BeatsAreRecent, HungIsFound, KeyAges, SentinelTTL
<1>6. CASE CheckLoop
  BY <1>6, CheckKeepsHealth
<1>7. CASE CheckRaises
  <2>1. Checks' = Checks + CheckEvery
    BY <1>7, <1>n, ProductsAreNumbers DEF CheckRaises, Checks
  <2> QED
    BY <1>7, <1>n, <2>1
    DEF CheckRaises, CheckDue, HealthInv, HealthTypeOK, BeatsAreRecent, HungIsFound, KeyAges,
        SentinelTTL
<1>8. CASE ExitFrozen
  BY <1>8, <1>n, <1>c
  DEF ExitFrozen, HealthInv, HealthTypeOK, BeatsAreRecent, HungIsFound, KeyAges, SentinelTTL
<1>9. CASE StopWorker
  BY <1>9, <1>n, <1>c
  DEF StopWorker, HealthInv, HealthTypeOK, BeatsAreRecent, HungIsFound, KeyAges, SentinelTTL
<1>10. CASE RestartWorker
  BY <1>10, <1>n, <1>c
  DEF RestartWorker, Started, HealthInv, HealthTypeOK, BeatsAreRecent, HungIsFound, KeyAges,
      SentinelTTL
<1>11. CASE HealthTick
  BY <1>11, TickKeepsHealth
<1>12. CASE UNCHANGED healthVars
  BY <1>12, <1>c
  DEF healthVars, HealthInv, HealthTypeOK, BeatsAreRecent, HungIsFound, KeyAges
<1> QED
  BY <1>1, <1>2, <1>3, <1>4, <1>5, <1>6, <1>7, <1>8, <1>9, <1>10, <1>11, <1>12 DEF HealthNext

\* It holds at first.
LEMMA HealthInvHoldsAtFirst == HealthInit => HealthInv
  BY IntervalsAreNumbers
  DEF HealthInit, HealthInv, HealthTypeOK, BeatsAreRecent, HungIsFound, KeyAges, SentinelTTL

\* HealthTypeOK, for any intervals: every age and every countdown stays within
\* its bound, however beats, checks, alerts and restarts come together.
THEOREM HealthIsTyped == HealthSpec => []HealthTypeOK
<1>1. HealthInv => HealthTypeOK
  BY DEF HealthInv
<1> QED
  BY <1>1, HealthInvHoldsAtFirst, HealthInvIsKept, PTL DEF HealthSpec

\* For all intervals: the watchdog alerts about a hung loop only, and a loop
\* that hangs is gone within the threshold, one interval for each check and
\* the alert (app/watchdog.py, config.py worker_watchdog_seconds).
THEOREM TheWatchdogIsRight == HealthSpec => []OnlyTheFrozenAreKilled
<1>1. HealthInv => OnlyTheFrozenAreKilled
  <2> SUFFICES ASSUME HealthInv PROVE OnlyTheFrozenAreKilled
    OBVIOUS
  <2>1. /\ stretch \in Nat /\ toCheck \in Nat /\ alerting \in 0 .. AlertTime + 1
        /\ Checks \in Nat
    BY IntervalsAreNumbers, ProductsAreNumbers DEF HealthInv, HealthTypeOK, Checks
  <2>2. eventLoop = "hung" => stretch <= Threshold + Checks + AlertTime
    BY <2>1, IntervalsAreNumbers DEF HealthInv, HungIsFound
  <2> QED
    BY <2>2 DEF Checks, HealthInv, HungIsFound, OnlyTheFrozenAreKilled
<1> QED
  BY <1>1, HealthInvHoldsAtFirst, HealthInvIsKept, PTL DEF HealthSpec

\* For all intervals: a health key in Redis was set within the last interval,
\* and a worker whose loop is free has one (worker.py: health_check_interval).
THEOREM TheKeyIsRight == HealthSpec => []HealthTellsTheTruth
<1>1. HealthInv => HealthTellsTheTruth
  BY IntervalsAreNumbers DEF HealthInv, HealthTypeOK, KeyAges, SentinelTTL, HealthTellsTheTruth
<1> QED
  BY <1>1, HealthInvHoldsAtFirst, HealthInvIsKept, PTL DEF HealthSpec
=============================================================================

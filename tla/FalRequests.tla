---------------------------- MODULE FalRequests -----------------------------
(***************************************************************************)
(* The requests fal.ai gets for one job.  submit_to_fal sends at most      *)
(* MaxAttempts requests in a run (send_with_retry); an answer that is lost *)
(* may leave a request in fal's queue whose id nobody knows.  The worker   *)
(* may die in between, and its message is then delivered again.  Results   *)
(* of every queued request come back as webhooks, more than once; the      *)
(* worker's poll asks for the recorded request only.                       *)
(*                                                                         *)
(* Generation takes the requests of a job for one; this module is about    *)
(* what that leaves out.  The job's row is locked while a run is sending,  *)
(* so that results wait for it.                                            *)
(*                                                                         *)
(* A definition marked "Slip" is a wrong version of the one below it.      *)
(***************************************************************************)
EXTENDS Naturals, FiniteSets

CONSTANTS
    MaxAttempts,    \* MAX_ATTEMPTS
    MaxDeaths       \* bound: deaths of the worker while it is sending

ASSUME FalAssumption == MaxAttempts \in Nat \ {0} /\ MaxDeaths \in Nat

AllRequests == 1 .. MaxAttempts * (MaxDeaths + 1)
NoRequest == 0

VARIABLES
    job,        \* GenerationJob.status, and "late" for a job that was timed
                \* out: failed, with a message a result may still overrule
    requestId,  \* GenerationJob.fal_request_id
    message,    \* the arq message is waiting or being worked on
    run,        \* the run in progress: where, which attempt, with which id
    queue,      \* what fal did with each request
    settledBy,  \* history: the request whose result settled the job
    lost,       \* history: queued requests whose answer was lost
    died        \* deaths so far

jobVars == <<job, requestId, settledBy>>
falVars == <<jobVars, message, run, queue, lost, died>>

NoRun == [at |-> "none", attempt |-> 0, id |-> NoRequest]

FalInit ==
    /\ job = "queued" /\ requestId = NoRequest /\ settledBy = NoRequest
    /\ message = TRUE
    /\ run = NoRun
    /\ queue = [i \in AllRequests |-> "unsent"]
    /\ lost = {} /\ died = 0
-----------------------------------------------------------------------------
Queued == {i \in AllRequests : queue[i] # "unsent"}

Sending == run.at = "sending"

\* The row is locked and read again.
PickUpJob ==
    /\ message /\ run.at = "none" /\ job = "queued"
    /\ run' = [at |-> "sending", attempt |-> 1, id |-> NoRequest]
    /\ UNCHANGED <<jobVars, message, queue, lost, died>>

DropJob ==
    /\ message /\ run.at = "none" /\ job # "queued"
    /\ message' = FALSE
    /\ UNCHANGED <<jobVars, run, queue, lost, died>>

\* fal queues the request of an attempt.
Enqueues(i) ==
    /\ queue[i] = "unsent" /\ \A k \in 1 .. (i - 1) : queue[k] # "unsent"
    /\ queue' = [queue EXCEPT ![i] = "running"]

\* Any exception: fail_cleanly commits the refund, the run is over.
SubmissionFails ==
    /\ job' = "failed" /\ message' = FALSE /\ run' = NoRun
    /\ UNCHANGED <<requestId, settledBy>>

\* After the last attempt the error propagates; before it, another attempt.
RetryOrFail ==
    IF run.attempt < MaxAttempts
    THEN run' = [run EXCEPT !.attempt = @ + 1] /\ UNCHANGED <<jobVars, message>>
    ELSE SubmissionFails

\* 200 with an id.
Accepted ==
    /\ Sending
    /\ \E i \in AllRequests :
          Enqueues(i) /\ run' = [run EXCEPT !.at = "accepted", !.id = i]
    /\ UNCHANGED <<jobVars, message, lost, died>>

\* A transport error or a gateway's 502 or 504 after fal has queued the
\* request.
AnswerLost ==
    /\ Sending
    /\ \E i \in AllRequests : Enqueues(i) /\ lost' = lost \union {i}
    /\ RetryOrFail
    /\ UNCHANGED died

\* A transport error or one of RETRYABLE_STATUS_CODES, and nothing queued.
NotReached ==
    /\ Sending
    /\ RetryOrFail
    /\ UNCHANGED <<queue, lost, died>>

\* Any other status: never repeated.
Rejected ==
    /\ Sending
    /\ SubmissionFails
    /\ UNCHANGED <<queue, lost, died>>

\* Slip: an answer without an id is tried again.
UnreadableRetried ==
    /\ Sending
    /\ \E i \in AllRequests : Enqueues(i)
    /\ RetryOrFail
    /\ UNCHANGED <<lost, died>>

\* 200, but response.json()["request_id"] raises: outside of the retries.
Unreadable ==
    /\ Sending
    /\ \E i \in AllRequests : Enqueues(i)
    /\ SubmissionFails
    /\ UNCHANGED <<lost, died>>

\* The id is committed with the status "processing".
RecordRequest ==
    /\ run.at = "accepted"
    /\ job' = "processing" /\ requestId' = run.id
    /\ message' = FALSE /\ run' = NoRun
    /\ UNCHANGED <<settledBy, queue, lost, died>>

\* The transaction is gone, the message is not.
SenderDies ==
    /\ run.at # "none" /\ died < MaxDeaths
    /\ died' = died + 1
    /\ run' = NoRun
    /\ UNCHANGED <<jobVars, message, queue, lost>>

\* fal is done with a request.
FalDecides(i) ==
    /\ queue[i] = "running"
    /\ \E v \in {"ok", "error"} : queue' = [queue EXCEPT ![i] = v]
    /\ UNCHANGED <<jobVars, message, run, lost, died>>

\* Slip: the webhook's request id is not compared.
MeantForAny(i) == TRUE

\* handle_fal_webhook: a job that has recorded an id listens to that one.
MeantFor(i) == requestId \in {NoRequest, i}

SettledByResult(i) ==
    /\ job' = IF queue[i] = "ok" THEN "completed" ELSE "failed"
    /\ settledBy' = i

\* A webhook, at any time, as often as it likes; and the poll, for the
\* recorded id.  It waits for a run's row lock.
Result(i) ==
    /\ queue[i] \in {"ok", "error"} /\ run.at = "none"
    /\ MeantFor(i)
    /\ job \in {"queued", "processing"} \/ (job = "late" /\ queue[i] = "ok")
    /\ SettledByResult(i)
    /\ UNCHANGED <<requestId, message, run, queue, lost, died>>

\* The budget, or the sweep's ten minutes, are over.
GiveUpWaiting ==
    /\ job \in {"queued", "processing"} /\ run.at = "none"
    /\ job' = "late"
    /\ UNCHANGED <<requestId, settledBy, message, run, queue, lost, died>>

FalNext ==
    \/ PickUpJob \/ DropJob \/ Accepted \/ AnswerLost \/ NotReached \/ Rejected
    \/ Unreadable \/ RecordRequest \/ SenderDies \/ GiveUpWaiting
    \/ \E i \in AllRequests : FalDecides(i) \/ Result(i)

FalSpec == FalInit /\ [][FalNext]_falVars
-----------------------------------------------------------------------------
FalTypeOK ==
    /\ job \in {"queued", "processing", "completed", "failed", "late"}
    /\ requestId \in AllRequests \union {NoRequest}
    /\ settledBy \in AllRequests \union {NoRequest}
    /\ message \in BOOLEAN
    /\ run \in [at : {"none", "sending", "accepted"}, attempt : 0 .. MaxAttempts,
                id : AllRequests \union {NoRequest}]
    /\ queue \in [AllRequests -> {"unsent", "running", "ok", "error"}]
    /\ lost \subseteq Queued /\ died \in 0 .. MaxDeaths

\* However many requests fal got for a job, one of them decides: once an id
\* is recorded, that one; and the job is completed exactly if it succeeded.
\* (fal_client.py: "the duplicate's webhook is ignored".)
OneVerdict ==
    /\ settledBy # NoRequest =>
          /\ requestId \in {NoRequest, settledBy}
          /\ job = IF queue[settledBy] = "ok" THEN "completed" ELSE "failed"
    /\ job = "completed" => settledBy # NoRequest

\* fal is paid twice for a job only if an answer was lost or the worker died
\* with an answer in its hands, and never once the job is settled: without
\* either it gets one request.  (fal_client.py speaks of "at most one extra
\* generation"; three attempts can lose three answers.)
DuplicatesAreLostAnswers ==
    /\ Cardinality(Queued) <= 1 + Cardinality(lost) + died
    /\ job \in {"completed", "failed", "processing"} => run.at = "none"
=============================================================================

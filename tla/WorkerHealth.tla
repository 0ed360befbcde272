---------------------------- MODULE WorkerHealth ----------------------------
(***************************************************************************)
(* Who notices that the worker's event loop has stopped.  The loop beats   *)
(* while it is free; a daemon thread compares the age of the last beat     *)
(* with a threshold and, past it, sends an alert and exits the process,    *)
(* which a process manager starts again.  The loop also refreshes arq's    *)
(* health key in Redis, which GET /health/worker looks for.                *)
(*                                                                         *)
(* Time passes in ticks, and only when nothing is due: a beat, a refresh   *)
(* and a check happen on time if whoever does them can run.                *)
(*                                                                         *)
(* A definition marked "Slip" is a wrong version of the one below it.      *)
(***************************************************************************)
EXTENDS Naturals

CONSTANTS
    BeatEvery,      \* LOOP_BEAT_INTERVAL_SECONDS
    CheckEvery,     \* CHECK_INTERVAL_SECONDS
    Threshold,      \* worker_watchdog_seconds
    AlertTime,      \* bound: how long one whole alert takes
    RefreshEvery,   \* health_check_interval
    MaxStretch,     \* longest time the loop is busy between two free moments
    MaxRaises       \* bound: checks that raise

\* AlertTime is an assumption: httpx applies ALERT_TIMEOUT_SECONDS to each of
\* connecting, writing, reading and waiting for the pool, and to each read
\* anew, so that an alert may take a multiple of it.
\*
\* config.py: the threshold "must comfortably exceed the longest LEGITIMATE
\* blocking stretch".
ASSUME HealthAssumption ==
    /\ {BeatEvery, CheckEvery, RefreshEvery} \subseteq Nat \ {0}
    /\ {Threshold, AlertTime, MaxStretch, MaxRaises} \subseteq Nat
    /\ MaxStretch + BeatEvery <= Threshold

\* arq keeps the key one second longer than its interval.
SentinelTTL == RefreshEvery + 1

VARIABLES
    eventLoop,  \* "free", "busy", "hung", or "down" with its process
    stretch,    \* how long it has been so, if not free
    sinceBeat,  \* the age of _last_beat
    toCheck,    \* when the watchdog thread wakes up
    alerting,   \* how long the alert has taken; 0 before one
    sentinel,   \* what is left of the health key's time to live
    sinceFresh, \* how long ago the worker set it
    raised      \* checks that raised

healthVars == <<eventLoop, stretch, sinceBeat, toCheck, alerting, sentinel,
                sinceFresh, raised>>

\* startup: the watchdog is armed and the loop attached; the first round of
\* arq's main loop sets the key.
Started ==
    /\ eventLoop' = "free" /\ stretch' = 0
    /\ sinceBeat' = 0 /\ toCheck' = CheckEvery /\ alerting' = 0
    /\ sinceFresh' = RefreshEvery

HealthInit ==
    /\ eventLoop = "free" /\ stretch = 0
    /\ sinceBeat = 0 /\ toCheck = CheckEvery /\ alerting = 0
    /\ sinceFresh = RefreshEvery
    /\ sentinel = 0 /\ raised = 0
-----------------------------------------------------------------------------
Running == eventLoop # "down"

BeatDue == eventLoop = "free" /\ sinceBeat >= BeatEvery

RefreshDue == eventLoop = "free" /\ sinceFresh >= RefreshEvery

CheckDue == Running /\ alerting = 0 /\ toCheck = 0

\* _tick.
Beat ==
    /\ BeatDue
    /\ sinceBeat' = 0
    /\ UNCHANGED <<eventLoop, stretch, toCheck, alerting, sentinel, sinceFresh, raised>>

\* Slip: the key is refreshed by a thread of its own.
RefreshByThread ==
    /\ Running /\ sinceFresh >= RefreshEvery
    /\ sentinel' = SentinelTTL /\ sinceFresh' = 0
    /\ UNCHANGED <<eventLoop, stretch, sinceBeat, toCheck, alerting, raised>>

\* arq's main loop.
Refresh ==
    /\ RefreshDue
    /\ sentinel' = SentinelTTL /\ sinceFresh' = 0
    /\ UNCHANGED <<eventLoop, stretch, sinceBeat, toCheck, alerting, raised>>

\* A synchronous stretch begins, and ends; or one begins that never ends.
Block ==
    /\ eventLoop = "free" /\ ~BeatDue /\ ~RefreshDue
    /\ eventLoop' \in {"busy", "hung"} /\ stretch' = 0
    /\ UNCHANGED <<sinceBeat, toCheck, alerting, sentinel, sinceFresh, raised>>

Unblock ==
    /\ eventLoop = "busy"
    /\ eventLoop' = "free" /\ stretch' = 0
    /\ UNCHANGED <<sinceBeat, toCheck, alerting, sentinel, sinceFresh, raised>>

Hang ==
    /\ eventLoop = "busy"
    /\ eventLoop' = "hung" /\ stretch' = 0
    /\ UNCHANGED <<sinceBeat, toCheck, alerting, sentinel, sinceFresh, raised>>

\* Slip: as good as frozen.
FrozenByThen == sinceBeat + BeatEvery >= Threshold

Frozen == sinceBeat > Threshold

\* check_once.
CheckLoop ==
    /\ CheckDue
    /\ IF Frozen THEN alerting' = 1 /\ UNCHANGED toCheck
                 ELSE toCheck' = CheckEvery /\ UNCHANGED alerting
    /\ UNCHANGED <<eventLoop, stretch, sinceBeat, sentinel, sinceFresh, raised>>

\* A check raises: logged, and the thread goes on.
CheckRaises ==
    /\ CheckDue /\ raised < MaxRaises
    /\ raised' = raised + 1 /\ toCheck' = CheckEvery
    /\ UNCHANGED <<eventLoop, stretch, sinceBeat, alerting, sentinel, sinceFresh>>

\* send_alert has returned, or has run into its timeout; os._exit.
ExitFrozen ==
    /\ alerting > 0
    /\ eventLoop' = "down" /\ stretch' = 0 /\ alerting' = 0
    /\ UNCHANGED <<sinceBeat, toCheck, sentinel, sinceFresh, raised>>

\* A deployment stops a working process (shutdown stops the thread).
StopWorker ==
    /\ eventLoop = "free" /\ alerting = 0
    /\ eventLoop' = "down" /\ stretch' = 0
    /\ UNCHANGED <<sinceBeat, toCheck, alerting, sentinel, sinceFresh, raised>>

\* The process manager.
RestartWorker == ~Running /\ Started /\ UNCHANGED <<sentinel, raised>>

Later(n, bound) == IF n < bound THEN n + 1 ELSE n

\* Nothing that is due waits for the clock.
HealthTick ==
    /\ ~BeatDue /\ ~RefreshDue /\ ~CheckDue
    /\ eventLoop = "busy" => stretch < MaxStretch
    /\ alerting <= AlertTime
    /\ stretch' = IF eventLoop = "free" THEN 0
                  ELSE Later(stretch, Threshold + (1 + MaxRaises) * CheckEvery + AlertTime + 1)
    /\ sinceBeat' = Later(sinceBeat, Threshold + 1)
    /\ sinceFresh' = Later(sinceFresh, RefreshEvery)
    /\ toCheck' = IF Running /\ alerting = 0 THEN toCheck - 1 ELSE toCheck
    /\ alerting' = IF alerting > 0 THEN alerting + 1 ELSE 0
    /\ sentinel' = IF sentinel > 0 THEN sentinel - 1 ELSE 0
    /\ UNCHANGED <<eventLoop, raised>>

HealthNext ==
    \/ Beat \/ Refresh \/ Block \/ Unblock \/ Hang \/ CheckLoop \/ CheckRaises
    \/ ExitFrozen \/ StopWorker \/ RestartWorker \/ HealthTick

HealthSpec == HealthInit /\ [][HealthNext]_healthVars
-----------------------------------------------------------------------------
HealthTypeOK ==
    /\ eventLoop \in {"free", "busy", "hung", "down"}
    /\ stretch \in Nat /\ sinceBeat \in 0 .. Threshold + 1
    /\ toCheck \in 0 .. CheckEvery /\ alerting \in 0 .. AlertTime + 1
    /\ sentinel \in 0 .. SentinelTTL /\ sinceFresh \in 0 .. RefreshEvery
    /\ raised \in 0 .. MaxRaises

\* The watchdog kills what is frozen and nothing else: a loop that is merely
\* busy, for as long as a legitimate stretch may last, is never alerted
\* about, and one that hangs is gone within the threshold, one interval of
\* the thread for each check (and for each that raises), and the alert.
OnlyTheFrozenAreKilled ==
    /\ alerting > 0 => eventLoop = "hung"
    /\ eventLoop = "hung" =>
          stretch <= Threshold + (1 + raised) * CheckEvery + AlertTime

\* GET /health/worker: a key that is there was set by a loop that ran within
\* the last interval, and a worker whose loop is free has one (unless it is
\* about to set it).
HealthTellsTheTruth ==
    /\ sentinel > 0 /\ eventLoop # "free" => stretch <= SentinelTTL - sentinel
    /\ eventLoop = "free" /\ sinceFresh < RefreshEvery => sentinel > 0
=============================================================================

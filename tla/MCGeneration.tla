---------------------------- MODULE MCGeneration ----------------------------
(***************************************************************************)
(* Instances of Generation, and two claims of the code's own comments.     *)
(***************************************************************************)
EXTENDS Generation, TLC

CONSTANTS u1, t1, r1, r2, r3

OneUser == [r \in Requests |-> u1]
OneTeam == [r \in Requests |-> t1]
MCPool == [sub |-> 3, top |-> 4]

-----------------------------------------------------------------------------
(* Two claims of comments, which the code does not keep.                   *)

Settled(j) == ~Active(j) /\ handler[j] = "none" /\ submit[j] = "none"

\* worker.py:575 says a slot "is only released once this job reaches a real
\* terminal state": then it should be back once every job is settled and no
\* reconcile has interfered.  The handler gives back one slot for a batch.
SlotsComeBack ==
    \A t \in Teams :
        /\ LoopIdle /\ ~skewed[t]
        /\ \A j \in Jobs : Team(j) = t => Settled(j)
        => inflight[t] = 0

\* A batch that still has a job nobody has let go of.
Unfinished(r) ==
    \E j \in Batch(r) : Active(j) /\ handler[j] \notin {"giveSlot", "commit"}

\* tests/test_generation.py:1157 says the lock is "held until every job in
\* the batch is terminal".  After a success the handler counts the siblings
\* before its commit, after a failure it counts them with its own row
\* already failed: the same "<= 1" then lets go one job too early.  (Jobs
\* that failed before they reached fal are left out: fail_cleanly does not
\* count siblings at all.)
LockHeldUntilTerminal ==
    \A r \in Requests :
        /\ Unfinished(r) /\ age[r] = 0
        /\ \A j \in Batch(r) : error[j] # "start"
        => lock[UserOf[r]] = r
=============================================================================

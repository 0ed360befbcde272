--------------------------- MODULE RowLocksProofs ---------------------------
(***************************************************************************)
(* Theorems about RowLocks for any number of sessions, API processes and   *)
(* jobs.                                                                   *)
(*                                                                         *)
(* What decides who may wait for whom is the order in which a path takes   *)
(* its rows (InLockOrder) and when it visits the loop (ApiVisits,          *)
(* WorkerVisits).  Both are shown of every path of every handler, and both *)
(* survive each step: they speak of what is left of a path and of the      *)
(* locks the session has by then.  A circle of sessions is followed for    *)
(* three edges at most, and its being a smallest one does the rest.        *)
(***************************************************************************)
EXTENDS RowLocks, SequenceTheorems, TLAPS

\* Handlers that go through several jobs, that refer to the team before they
\* lock it, and that take rows on the event loop of an API process.
ThroughJobs == {"checkTimeouts", "sweep", "purge"}
Referring == {"payment", "activated"}
OnTheLoop == {"generate", "enqueueFailure", "payment", "activated", "charged"}

Modes == {"lock", "update", "share"}
Steps == {On, Off, Commit} \union {Take(row, mode) : row \in Rows, mode \in Modes}

\* A session with handler h that has lock l may wait for a step's row.
Bears(h, l, step) ==
    /\ l[1] = "team" => h \in Referring /\ l[2] = "share" /\ step = Lock("team")
    /\ step.row # "team" => h \in ThroughJobs

Takes(step) == step.op = "take"
Of(step) == <<step.row, step.mode>>

Uncommitted(path, i, k) == \A m \in i .. k : path[m].op # "commit"

\* Jobs and subscriptions are locked before the team: in what is left of a
\* path, by a session that has the locks H.
InLockOrder(h, H, path) ==
    h # "enqueueFailure" =>
        \A k \in 1 .. Len(path) : Takes(path[k]) =>
            /\ \A l \in H : Uncommitted(path, 1, k) => Bears(h, l, path[k])
            /\ \A i \in 1 .. k - 1 :
                  Takes(path[i]) /\ Uncommitted(path, i, k) => Bears(h, Of(path[i]), path[k])

\* An API handler is on the loop from its first step, or gets there for its
\* last.
ApiVisits(h, H, path) ==
    \A k \in 1 .. Len(path) :
        /\ path[k].op # "off"
        /\ path[k].op = "on" =>
              \/ k = Len(path)
              \/ k = 1 /\ H = {} /\ h \in OnTheLoop

\* A coroutine of the worker that comes back to the loop with a lock is a
\* submission or a poll.
WorkerVisits(h, H, path) ==
    h \notin {"submit", "checkTimeouts"} =>
        \A k \in 1 .. Len(path) : path[k].op = "on" => k = 1 /\ H = {}
-----------------------------------------------------------------------------
\* The steps.
LEMMA StepFacts ==
    /\ On.op = "on" /\ Off.op = "off" /\ Commit.op = "commit"
    /\ \A row, mode : /\ Take(row, mode).op = "take" /\ Of(Take(row, mode)) = <<row, mode>>
                      /\ Take(row, mode).row = row /\ Take(row, mode).mode = mode
    /\ {On, Off, Commit} \subseteq Steps
    /\ \A row \in Rows : Lock(row) \in Steps /\ Update(row) \in Steps
    /\ "sub" \in Rows /\ "team" \in Rows /\ JobRows \subseteq Rows /\ Refer \in Steps
    /\ \A row : Lock(row) = Take(row, "lock") /\ Update(row) = Take(row, "update")
    /\ Refer = Take("team", "share")
<1>1. \A row, mode : /\ Take(row, mode).op = "take" /\ Of(Take(row, mode)) = <<row, mode>>
                      /\ Take(row, mode).row = row /\ Take(row, mode).mode = mode
    BY DEF Take, Of
<1>2. /\ \A row : Lock(row) = Take(row, "lock") /\ Update(row) = Take(row, "update")
      /\ Refer = Take("team", "share")
    BY DEF Lock, Update, Refer
<1>3. \A row \in Rows : Take(row, "lock") \in Steps /\ Take(row, "update") \in Steps
                        /\ Take(row, "share") \in Steps
    BY DEF Steps, Modes
<1>4. "sub" \in Rows /\ "team" \in Rows /\ JobRows \subseteq Rows
    BY DEF Rows
<1>5. {On, Off, Commit} \subseteq Steps
    BY DEF Steps
<1>6. On.op = "on" /\ Off.op = "off" /\ Commit.op = "commit"
    BY DEF On, Off, Commit
<1> QED
    BY <1>1, <1>2, <1>3, <1>4, <1>5, <1>6

\* What is left of a path keeps to the order.
LEMMA OrderTail ==
    ASSUME NEW h, NEW H, NEW path \in Seq(Steps), path # <<>>, InLockOrder(h, H, path)
    PROVE  /\ Tail(path) \in Seq(Steps) /\ Head(path) \in Steps
           /\ Takes(Head(path)) => InLockOrder(h, H \union {Of(Head(path))}, Tail(path))
           /\ Head(path).op \in {"on", "off"} => InLockOrder(h, H, Tail(path))
           /\ Head(path).op = "commit" => InLockOrder(h, {}, Tail(path))
<1> DEFINE n == Len(path)
           q == Tail(path)
<1>1. /\ n \in Nat /\ n > 0 /\ Len(q) = n - 1 /\ q \in Seq(Steps) /\ Head(path) = path[1]
      /\ path[1] \in Steps /\ \A k \in 1 .. n - 1 : q[k] = path[k + 1]
    BY HeadTailProperties, LenProperties, ElementOfSeq
<1> HIDE DEF q
<1>2. \A i, k \in 1 .. n - 1 : Uncommitted(q, i, k) => Uncommitted(path, i + 1, k + 1)
    <2> SUFFICES ASSUME NEW i \in 1 .. n - 1, NEW k \in 1 .. n - 1, Uncommitted(q, i, k),
                        NEW m \in i + 1 .. k + 1
                 PROVE  path[m].op # "commit"
        BY DEF Uncommitted
    <2>1. m - 1 \in i .. k /\ q[m - 1] = path[m]
        BY <1>1
    <2> QED
        BY <2>1 DEF Uncommitted
<1>3. \A k \in 1 .. n - 1 : path[1].op # "commit" /\ Uncommitted(q, 1, k) => Uncommitted(path, 1, k + 1)
    <2> SUFFICES ASSUME NEW k \in 1 .. n - 1, path[1].op # "commit", Uncommitted(q, 1, k),
                        NEW m \in 1 .. k + 1
                 PROVE  path[m].op # "commit"
        BY DEF Uncommitted
    <2>1. CASE m = 1
        BY <2>1
    <2>2. CASE m # 1
        <3>1. m - 1 \in 1 .. k /\ q[m - 1] = path[m]
            BY <1>1, <2>2
        <3> QED
            BY <3>1 DEF Uncommitted
    <2> QED
        BY <2>1, <2>2
<1>4. ASSUME h # "enqueueFailure", NEW k \in 1 .. n - 1, Takes(q[k])
      PROVE  /\ \A i \in 1 .. k - 1 :
                   Takes(q[i]) /\ Uncommitted(q, i, k) => Bears(h, Of(q[i]), q[k])
             /\ path[1].op # "commit" /\ Uncommitted(q, 1, k) =>
                   /\ \A l \in H : Bears(h, l, q[k])
                   /\ Takes(path[1]) => Bears(h, Of(path[1]), q[k])
    <2>1. k + 1 \in 1 .. n /\ q[k] = path[k + 1] /\ Takes(path[k + 1])
        BY <1>1, <1>4
    <2>2. /\ \A l \in H : Uncommitted(path, 1, k + 1) => Bears(h, l, q[k])
          /\ \A i \in 1 .. (k + 1) - 1 :
               Takes(path[i]) /\ Uncommitted(path, i, k + 1) => Bears(h, Of(path[i]), q[k])
        BY <1>4, <2>1 DEF InLockOrder
    <2>3. ASSUME NEW i \in 1 .. k - 1, Takes(q[i]), Uncommitted(q, i, k)
          PROVE  Bears(h, Of(q[i]), q[k])
        <3>1. i + 1 \in 1 .. (k + 1) - 1 /\ q[i] = path[i + 1] /\ Uncommitted(path, i + 1, k + 1)
            BY <1>1, <1>2, <2>3
        <3> QED
            BY <2>2, <2>3, <3>1
    <2> QED
        BY <1>3, <2>2, <2>3
<1> QED
    BY <1>1, <1>4 DEF InLockOrder, q, Takes

\* A session that waits bears what it has.
LEMMA OrderHead ==
    ASSUME NEW h, NEW H, NEW path \in Seq(Steps), path # <<>>, InLockOrder(h, H, path),
           h # "enqueueFailure", Takes(Head(path)), NEW l \in H
    PROVE  Bears(h, l, Head(path))
<1>1. Len(path) \in Nat /\ Len(path) > 0 /\ Head(path) = path[1]
    BY HeadTailProperties, LenProperties
<1>2. Uncommitted(path, 1, 1)
    BY <1>1 DEF Uncommitted, Takes
<1> QED
    BY <1>1, <1>2 DEF InLockOrder
-----------------------------------------------------------------------------
(* The paths.                                                              *)

\* No session has locks at first.
Ordered(h, path) == path \in Seq(Steps) /\ InLockOrder(h, {}, path)

\* The order of two steps of a path, and what it takes to show it.
Apart(h, path, i, k) ==
    k <= Len(path) /\ Takes(path[i]) /\ Takes(path[k]) /\ Uncommitted(path, i, k)
        => Bears(h, Of(path[i]), path[k])

\* A path of up to four steps is shown to keep to the order pair by pair.
LEMMA OrderByPairs ==
    ASSUME NEW h, NEW path \in Seq(Steps), Len(path) <= 4,
           Apart(h, path, 1, 2), Apart(h, path, 1, 3), Apart(h, path, 2, 3),
           Apart(h, path, 1, 4), Apart(h, path, 2, 4), Apart(h, path, 3, 4)
    PROVE  Ordered(h, path)
<1>1. Len(path) \in Nat
    BY LenProperties
<1>2. ASSUME NEW k \in 1 .. Len(path), NEW i \in 1 .. k - 1,
             Takes(path[k]), Takes(path[i]), Uncommitted(path, i, k)
      PROVE  Bears(h, Of(path[i]), path[k])
    <2>1. \/ i = 1 /\ k = 2
          \/ i = 1 /\ k = 3
          \/ i = 2 /\ k = 3
          \/ i = 1 /\ k = 4
          \/ i = 2 /\ k = 4
          \/ i = 3 /\ k = 4
        BY <1>1
    <2> QED
        BY <1>1, <1>2, <2>1 DEF Apart
<1> QED
    BY <1>2 DEF Ordered, InLockOrder

\* Paths of one to four steps.
LEMMA ShortPaths ==
    ASSUME NEW h, NEW a \in Steps
    PROVE  /\ Ordered(h, <<a>>)
           /\ \A b \in Steps :
                 /\ Takes(a) /\ Takes(b) => Bears(h, Of(a), b)
                 => Ordered(h, <<a, b>>)
           /\ \A b, c \in Steps :
                 /\ Takes(a) /\ Takes(b) => Bears(h, Of(a), b)
                 /\ Takes(a) /\ Takes(c) /\ b.op # "commit" => Bears(h, Of(a), c)
                 /\ Takes(b) /\ Takes(c) => Bears(h, Of(b), c)
                 => Ordered(h, <<a, b, c>>)
           /\ \A b, c, d \in Steps :
                 /\ Takes(a) /\ Takes(b) => Bears(h, Of(a), b)
                 /\ Takes(a) /\ Takes(c) /\ b.op # "commit" => Bears(h, Of(a), c)
                 /\ Takes(b) /\ Takes(c) => Bears(h, Of(b), c)
                 /\ Takes(a) /\ Takes(d) /\ b.op # "commit" /\ c.op # "commit" => Bears(h, Of(a), d)
                 /\ Takes(b) /\ Takes(d) /\ c.op # "commit" => Bears(h, Of(b), d)
                 /\ Takes(c) /\ Takes(d) => Bears(h, Of(c), d)
                 => Ordered(h, <<a, b, c, d>>)
<1>1. Ordered(h, <<a>>)
    <2> DEFINE p == <<a>>
    <2>1. p \in Seq(Steps) /\ Len(p) = 1
        OBVIOUS
    <2> HIDE DEF p
    <2>2. Ordered(h, p)
        BY <2>1, OrderByPairs DEF Apart
    <2> QED
        BY <2>2 DEF p
<1>2. ASSUME NEW b \in Steps, Takes(a) /\ Takes(b) => Bears(h, Of(a), b)
      PROVE  Ordered(h, <<a, b>>)
    <2> DEFINE p == <<a, b>>
    <2>1. p \in Seq(Steps) /\ Len(p) = 2 /\ Len(p) <= 4 /\ p[1] = a /\ p[2] = b
        OBVIOUS
    <2> HIDE DEF p
    <2>2. Apart(h, p, 1, 2) /\ Apart(h, p, 1, 3) /\ Apart(h, p, 2, 3)
        BY <1>2, <2>1 DEF Apart, Uncommitted
    <2>3. Apart(h, p, 1, 4) /\ Apart(h, p, 2, 4) /\ Apart(h, p, 3, 4)
        BY <1>2, <2>1 DEF Apart, Uncommitted
    <2>4. Ordered(h, p)
        BY <2>1, <2>2, <2>3, OrderByPairs, Zenon
    <2> QED
        BY <2>4 DEF p
<1>3. ASSUME NEW b \in Steps, NEW c \in Steps,
             Takes(a) /\ Takes(b) => Bears(h, Of(a), b),
             Takes(a) /\ Takes(c) /\ b.op # "commit" => Bears(h, Of(a), c),
             Takes(b) /\ Takes(c) => Bears(h, Of(b), c)
      PROVE  Ordered(h, <<a, b, c>>)
    <2> DEFINE p == <<a, b, c>>
    <2>1. p \in Seq(Steps) /\ Len(p) = 3 /\ Len(p) <= 4 /\ p[1] = a /\ p[2] = b /\ p[3] = c
        OBVIOUS
    <2> HIDE DEF p
    <2>2. Apart(h, p, 1, 2) /\ Apart(h, p, 1, 3) /\ Apart(h, p, 2, 3)
        BY <1>3, <2>1 DEF Apart, Uncommitted
    <2>3. Apart(h, p, 1, 4) /\ Apart(h, p, 2, 4) /\ Apart(h, p, 3, 4)
        BY <1>3, <2>1 DEF Apart, Uncommitted
    <2>4. Ordered(h, p)
        BY <2>1, <2>2, <2>3, OrderByPairs, Zenon
    <2> QED
        BY <2>4 DEF p
<1>4. ASSUME NEW b \in Steps, NEW c \in Steps, NEW d \in Steps,
             Takes(a) /\ Takes(b) => Bears(h, Of(a), b),
             Takes(a) /\ Takes(c) /\ b.op # "commit" => Bears(h, Of(a), c),
             Takes(b) /\ Takes(c) => Bears(h, Of(b), c),
             Takes(a) /\ Takes(d) /\ b.op # "commit" /\ c.op # "commit" => Bears(h, Of(a), d),
             Takes(b) /\ Takes(d) /\ c.op # "commit" => Bears(h, Of(b), d),
             Takes(c) /\ Takes(d) => Bears(h, Of(c), d)
      PROVE  Ordered(h, <<a, b, c, d>>)
    <2> DEFINE p == <<a, b, c, d>>
    <2>1. p \in Seq(Steps) /\ Len(p) = 4 /\ Len(p) <= 4 /\ p[1] = a /\ p[2] = b /\ p[3] = c /\ p[4] = d
        OBVIOUS
    <2> HIDE DEF p
    <2>2. Apart(h, p, 1, 2) /\ Apart(h, p, 1, 3) /\ Apart(h, p, 2, 3)
        BY <1>4, <2>1 DEF Apart, Uncommitted
    <2>3. Apart(h, p, 1, 4) /\ Apart(h, p, 2, 4) /\ Apart(h, p, 3, 4)
        BY <1>4, <2>1 DEF Apart, Uncommitted
    <2>4. Ordered(h, p)
        BY <2>1, <2>2, <2>3, OrderByPairs, Zenon
    <2> QED
        BY <2>4 DEF p
<1> QED
    BY <1>1, <1>2, <1>3, <1>4

\* No row is kept to the end of a path that a later step would not bear.
Leaves(h, path) ==
    \A i \in 1 .. Len(path) : Takes(path[i]) =>
        \/ \E m \in i + 1 .. Len(path) : path[m].op = "commit"
        \/ h \in ThroughJobs /\ path[i].row # "team"

\* Nothing of a path has to do with the loop.
NoVisit(path) == \A k \in 1 .. Len(path) : path[k].op \notin {"on", "off"}

\* Two paths one after the other.
LEMMA Joined ==
    ASSUME NEW h, NEW p \in Seq(Steps), NEW q \in Seq(Steps),
           Ordered(h, p), Leaves(h, p), Ordered(h, q)
    PROVE  Ordered(h, p \o q) /\ (Leaves(h, q) => Leaves(h, p \o q))
<1> DEFINE m == Len(p)
           n == Len(q)
           s == p \o q
<1>1. /\ m \in Nat /\ n \in Nat /\ s \in Seq(Steps) /\ Len(s) = m + n
      /\ \A i \in 1 .. m : s[i] = p[i]
      /\ \A i \in m + 1 .. m + n : s[i] = q[i - m]
    BY ConcatProperties, LenProperties
<1> HIDE DEF s, m, n
<1>2. ASSUME h # "enqueueFailure", NEW k \in 1 .. m + n, NEW i \in 1 .. k - 1,
             Takes(s[k]), Takes(s[i]), Uncommitted(s, i, k)
      PROVE  Bears(h, Of(s[i]), s[k])
    <2>1. CASE k <= m
        <3>1. k \in 1 .. m /\ i \in 1 .. m /\ s[k] = p[k] /\ s[i] = p[i]
            BY <1>1, <2>1
        <3>2. Uncommitted(p, i, k)
            BY <1>1, <1>2, <2>1 DEF Uncommitted
        <3> QED
            BY <1>2, <3>1, <3>2 DEF Ordered, InLockOrder, m
    <2>2. CASE i > m
        <3>1. /\ k - m \in 1 .. n /\ i - m \in 1 .. (k - m) - 1
              /\ k \in m + 1 .. m + n /\ i \in m + 1 .. m + n
            BY <1>1, <2>2
        <3>2. s[k] = q[k - m] /\ s[i] = q[i - m]
            BY <1>1, <3>1
        <3>3. Uncommitted(q, i - m, k - m)
            <4> SUFFICES ASSUME NEW l \in i - m .. k - m PROVE q[l].op # "commit"
                BY DEF Uncommitted
            <4>1. l + m \in i .. k /\ l + m \in m + 1 .. m + n /\ (l + m) - m = l
                BY <1>1, <2>2
            <4> QED
                BY <1>1, <1>2, <4>1 DEF Uncommitted
        <3> QED
            BY <1>2, <3>1, <3>2, <3>3 DEF Ordered, InLockOrder, n
    <2>3. CASE i <= m /\ k > m
        <3>1. i \in 1 .. m /\ s[i] = p[i]
            BY <1>1, <2>3
        <3>2. ~ \E l \in i + 1 .. m : p[l].op = "commit"
            <4> SUFFICES ASSUME NEW l \in i + 1 .. m PROVE p[l].op # "commit"
                OBVIOUS
            <4>1. l \in i .. k /\ l \in 1 .. m
                BY <1>1, <2>3
            <4> QED
                BY <1>1, <1>2, <4>1 DEF Uncommitted
        <3>3. h \in ThroughJobs /\ p[i].row # "team"
            BY <1>2, <3>1, <3>2 DEF Leaves, m
        <3> QED
            BY <3>1, <3>3 DEF Bears, Of
    <2> QED
        BY <1>1, <2>1, <2>2, <2>3
<1>3. Ordered(h, s)
    BY <1>1, <1>2 DEF Ordered, InLockOrder
<1>4. ASSUME Leaves(h, q)
      PROVE  Leaves(h, s)
    <2> SUFFICES ASSUME NEW i \in 1 .. m + n, Takes(s[i])
                 PROVE  \/ \E l \in i + 1 .. m + n : s[l].op = "commit"
                        \/ h \in ThroughJobs /\ s[i].row # "team"
        BY <1>1 DEF Leaves
    <2>1. CASE i <= m
        <3>1. i \in 1 .. m /\ s[i] = p[i]
            BY <1>1, <2>1
        <3>2. \/ \E l \in i + 1 .. m : p[l].op = "commit"
              \/ h \in ThroughJobs /\ p[i].row # "team"
            BY <3>1 DEF Leaves, m
        <3>3. \A l \in i + 1 .. m : l \in i + 1 .. m + n /\ s[l] = p[l]
            BY <1>1, <2>1
        <3> QED
            BY <3>1, <3>2, <3>3
    <2>2. CASE i > m
        <3>1. i - m \in 1 .. n /\ s[i] = q[i - m]
            <4>1. i - m \in 1 .. n /\ i \in m + 1 .. m + n
                BY <1>1, <2>2
            <4> QED
                BY <1>1, <4>1
        <3>2. \/ \E l \in (i - m) + 1 .. n : q[l].op = "commit"
              \/ h \in ThroughJobs /\ q[i - m].row # "team"
            BY <1>4, <3>1 DEF Leaves, n
        <3>3. \A l \in (i - m) + 1 .. n : l + m \in i + 1 .. m + n /\ s[l + m] = q[l]
            <4> SUFFICES ASSUME NEW l \in (i - m) + 1 .. n
                         PROVE  l + m \in i + 1 .. m + n /\ s[l + m] = q[l]
                OBVIOUS
            <4>1. l + m \in i + 1 .. m + n /\ l + m \in m + 1 .. m + n /\ (l + m) - m = l
                BY <1>1, <2>2
            <4> QED
                BY <1>1, <4>1
        <3> QED
            BY <3>1, <3>2, <3>3
    <2> QED
        BY <1>1, <2>1, <2>2
<1> QED
    BY <1>3, <1>4 DEF s

\* The same of two paths that have nothing to do with the loop, and of an API
\* handler that gets on it at the end.
LEMMA JoinedVisits ==
    ASSUME NEW p \in Seq(Steps), NEW q \in Seq(Steps), NoVisit(p)
    PROVE  /\ NoVisit(q) => NoVisit(p \o q)
           /\ \A h : h \notin OnTheLoop /\ p # <<>> /\ ApiVisits(h, {}, q)
                        => ApiVisits(h, {}, p \o q)
<1> DEFINE m == Len(p)
           n == Len(q)
           s == p \o q
<1>1. /\ m \in Nat /\ n \in Nat /\ Len(s) = m + n
      /\ \A i \in 1 .. m : s[i] = p[i]
      /\ \A i \in m + 1 .. m + n : s[i] = q[i - m]
    BY ConcatProperties, LenProperties
<1> HIDE DEF s
<1>2. ASSUME NoVisit(q)
      PROVE  NoVisit(s)
    <2>1. \A k \in m + 1 .. m + n : k - m \in 1 .. n
        BY <1>1
    <2>2. \A k \in 1 .. m + n : k \in 1 .. m \/ k \in m + 1 .. m + n
        BY <1>1
    <2> QED
        BY <1>1, <1>2, <2>1, <2>2 DEF NoVisit
<1>3. ASSUME NEW h, h \notin OnTheLoop, ApiVisits(h, {}, q)
      PROVE  ApiVisits(h, {}, s)
    <2>1. \A k \in 1 .. n : q[k].op # "off" /\ (q[k].op = "on" => k = n)
        BY <1>3 DEF ApiVisits
    <2>2. \A k \in 1 .. m + n : s[k].op # "off" /\ (s[k].op = "on" => k = m + n)
        <3> TAKE k \in 1 .. m + n
        <3>1. CASE k <= m
            <4>1. k \in 1 .. m
                BY <1>1, <3>1
            <4> QED
                BY <1>1, <4>1 DEF NoVisit
        <3>2. CASE k > m
            <4>1. k \in m + 1 .. m + n /\ k - m \in 1 .. n /\ (k - m = n => k = m + n)
                BY <1>1, <3>2
            <4> QED
                BY <1>1, <2>1, <4>1
        <3> QED
            BY <1>1, <3>1, <3>2
    <2> QED
        BY <1>1, <2>2 DEF ApiVisits
<1> QED
    BY <1>2, <1>3 DEF s

-----------------------------------------------------------------------------
\* What an API handler, and a coroutine of the worker, begins with.
ApiPath(h, path) ==
    /\ Ordered(h, path)
    /\ ApiVisits(h, {}, path)
    /\ h \in Referring => path # <<>> /\ Head(path).op = "on"

WorkerPath(h, path) == Ordered(h, path) /\ WorkerVisits(h, {}, path)

\* Short paths visit the loop first or last.
LEMMA ShortApiVisits ==
    ASSUME NEW h, NEW a, a.op # "off"
    PROVE  /\ ApiVisits(h, {}, <<a>>)
           /\ \A b : b.op # "off" /\ (a.op = "on" => h \in OnTheLoop) => ApiVisits(h, {}, <<a, b>>)
           /\ \A b, c : b.op \notin {"on", "off"} /\ c.op # "off" /\ (a.op = "on" => h \in OnTheLoop)
                        => ApiVisits(h, {}, <<a, b, c>>)
           /\ \A b, c, d : /\ b.op \notin {"on", "off"} /\ c.op \notin {"on", "off"} /\ d.op # "off"
                           /\ a.op = "on" => h \in OnTheLoop
                           => ApiVisits(h, {}, <<a, b, c, d>>)
<1>1. ApiVisits(h, {}, <<a>>)
    BY DEF ApiVisits
<1>2. ASSUME NEW b, b.op # "off", a.op = "on" => h \in OnTheLoop
      PROVE  ApiVisits(h, {}, <<a, b>>)
    BY <1>2 DEF ApiVisits
<1>3. ASSUME NEW b, NEW c, b.op \notin {"on", "off"}, c.op # "off", a.op = "on" => h \in OnTheLoop
      PROVE  ApiVisits(h, {}, <<a, b, c>>)
    BY <1>3 DEF ApiVisits
<1>4. ASSUME NEW b, NEW c, NEW d, b.op \notin {"on", "off"}, c.op \notin {"on", "off"},
             d.op # "off", a.op = "on" => h \in OnTheLoop
      PROVE  ApiVisits(h, {}, <<a, b, c, d>>)
    <2> DEFINE p == <<a, b, c, d>>
    <2>1. Len(p) = 4 /\ p[1] = a /\ p[2] = b /\ p[3] = c /\ p[4] = d
        OBVIOUS
    <2> HIDE DEF p
    <2>2. ApiVisits(h, {}, p)
        BY <1>4, <2>1 DEF ApiVisits
    <2> QED
        BY <2>2 DEF p
<1> QED
    BY <1>1, <1>2, <1>3, <1>4

\* The same of the worker: a path is on the loop from its first step.
LEMMA ShortWorkerVisits ==
    ASSUME NEW h, NEW a
    PROVE  /\ \A b : b.op # "on" => WorkerVisits(h, {}, <<a, b>>)
           /\ \A b, c : b.op # "on" /\ c.op # "on" => WorkerVisits(h, {}, <<a, b, c>>)
<1>1. ASSUME NEW b, b.op # "on"
      PROVE  WorkerVisits(h, {}, <<a, b>>)
    BY <1>1 DEF WorkerVisits
<1>2. ASSUME NEW b, NEW c, b.op # "on", c.op # "on"
      PROVE  WorkerVisits(h, {}, <<a, b, c>>)
    BY <1>2 DEF WorkerVisits
<1> QED
    BY <1>1, <1>2

\* Rows other than the team.
OtherRows == JobRows \union {"sub"}

\* What a take of one row means for a later one.
LEMMA BearFacts ==
    /\ OtherRows \subseteq Rows /\ "sub" \in OtherRows /\ JobRows \subseteq OtherRows
    /\ \A h : \A row \in OtherRows :
          /\ Bears(h, Of(Lock(row)), Lock("team")) /\ Bears(h, Of(Lock(row)), Update("team"))
          /\ Bears(h, Of(Lock(row)), Refer)
    /\ \A h \in Referring : Bears(h, Of(Refer), Lock("team"))
    /\ \A h \in ThroughJobs : \A row \in OtherRows : \A step : Bears(h, Of(Lock(row)), step)
<1>1. \A j \in OtherRows : j # "team"
    BY RowLocksAssumption DEF OtherRows
<1>2. /\ \A row : Of(Lock(row)) = <<row, "lock">>
      /\ Of(Refer) = <<"team", "share">>
      /\ Lock("team").row = "team" /\ Update("team").row = "team" /\ Refer.row = "team"
    BY StepFacts
<1>3. ASSUME NEW h, NEW row \in OtherRows
      PROVE  /\ Bears(h, Of(Lock(row)), Lock("team")) /\ Bears(h, Of(Lock(row)), Update("team"))
             /\ Bears(h, Of(Lock(row)), Refer)
             /\ h \in ThroughJobs => \A step : Bears(h, Of(Lock(row)), step)
    BY <1>1, <1>2, <1>3 DEF Bears
<1>4. \A h \in Referring : Bears(h, Of(Refer), Lock("team"))
    BY <1>2 DEF Bears
<1> QED
    BY <1>3, <1>4, StepFacts DEF OtherRows

\* The paths of the API handlers, but the longest.
Good(h, path) == Ordered(h, path) /\ ApiVisits(h, {}, path)

\* The paths of handlers on a thread.
LEMMA PathsOffTheLoop ==
    ASSUME NEW h
    PROVE  /\ \A row \in Rows : Good(h, <<Lock(row)>>) /\ Good(h, <<Lock(row), On>>)
           /\ \A row \in OtherRows :
                 Good(h, <<Lock(row), Lock("team")>>) /\ Good(h, <<Lock(row), Refer>>)
           /\ Good(h, <<Lock("sub"), Commit, Update("team")>>)
           /\ Good(h, <<Lock("sub"), Update("team")>>) /\ Good(h, <<Update("team")>>)
<1> USE StepFacts, BearFacts
<1>1. ASSUME NEW row \in Rows
      PROVE  Good(h, <<Lock(row)>>) /\ Good(h, <<Lock(row), On>>)
    <2>1. Ordered(h, <<Lock(row)>>) /\ Ordered(h, <<Lock(row), On>>)
        BY ShortPaths DEF Takes
    <2> QED
        BY <2>1, ShortApiVisits DEF Good
<1>2. ASSUME NEW row \in OtherRows
      PROVE  Good(h, <<Lock(row), Lock("team")>>) /\ Good(h, <<Lock(row), Refer>>)
    <2>1. Ordered(h, <<Lock(row), Lock("team")>>) /\ Ordered(h, <<Lock(row), Refer>>)
        BY ShortPaths DEF Takes
    <2> QED
        BY <2>1, ShortApiVisits DEF Good
<1>3. Good(h, <<Lock("sub"), Commit, Update("team")>>)
    <2>1. Ordered(h, <<Lock("sub"), Commit, Update("team")>>)
        BY ShortPaths DEF Takes
    <2> QED
        BY <2>1, ShortApiVisits DEF Good
<1>4. Good(h, <<Lock("sub"), Update("team")>>) /\ Good(h, <<Update("team")>>)
    <2>1. Ordered(h, <<Lock("sub"), Update("team")>>) /\ Ordered(h, <<Update("team")>>)
        BY ShortPaths DEF Takes
    <2> QED
        BY <2>1, ShortApiVisits DEF Good
<1> QED
    BY <1>1, <1>2, <1>3, <1>4

\* The paths of handlers that begin on the loop.
LEMMA PathsOnTheLoop ==
    ASSUME NEW h \in OnTheLoop
    PROVE  /\ \A row \in Rows : Good(h, <<On, Lock(row)>>)
           /\ Good(h, <<On, Refer>>) /\ Good(h, <<On, Lock("sub"), Lock("team")>>)
           /\ h \in Referring => /\ Good(h, <<On, Refer, Lock("team")>>)
                                 /\ Good(h, <<On, Lock("sub"), Refer, Lock("team")>>)
<1> USE StepFacts, BearFacts
<1>1. ASSUME NEW row \in Rows
      PROVE  Good(h, <<On, Lock(row)>>)
    <2>1. Ordered(h, <<On, Lock(row)>>)
        BY ShortPaths DEF Takes
    <2> QED
        BY <2>1, ShortApiVisits DEF Good
<1>2. Good(h, <<On, Refer>>)
    <2>1. Ordered(h, <<On, Refer>>)
        BY ShortPaths DEF Takes
    <2> QED
        BY <2>1, ShortApiVisits DEF Good
<1>3. Good(h, <<On, Lock("sub"), Lock("team")>>)
    <2>1. Ordered(h, <<On, Lock("sub"), Lock("team")>>)
        BY ShortPaths DEF Takes
    <2> QED
        BY <2>1, ShortApiVisits DEF Good
<1>4. ASSUME h \in Referring
      PROVE  Good(h, <<On, Refer, Lock("team")>>)
    <2>1. Ordered(h, <<On, Refer, Lock("team")>>)
        BY <1>4, ShortPaths DEF Takes
    <2> QED
        BY <2>1, ShortApiVisits DEF Good
<1>5. ASSUME h \in Referring
      PROVE  Good(h, <<On, Lock("sub"), Refer, Lock("team")>>)
    <2>1. Ordered(h, <<On, Lock("sub"), Refer, Lock("team")>>)
        BY <1>5, ShortPaths DEF Takes
    <2>2. ApiVisits(h, {}, <<On, Lock("sub"), Refer, Lock("team")>>)
        BY ShortApiVisits
    <2> QED
        BY <2>1, <2>2 DEF Good
<1> QED
    BY <1>1, <1>2, <1>3, <1>4, <1>5

\* A path that begins on the loop and never leaves it.
LEMMA OnFirst ==
    ASSUME NEW q \in Seq(Steps), NoVisit(q)
    PROVE  /\ <<On>> \o q \in Seq(Steps)
           /\ \A h \in OnTheLoop : ApiVisits(h, {}, <<On>> \o q)
           /\ \A h : WorkerVisits(h, {}, <<On>> \o q)
<1> DEFINE p == <<On>>
<1>1. p \in Seq(Steps) /\ Len(p) = 1 /\ p[1] = On
    BY StepFacts
<1> HIDE DEF p
<1>2. /\ p \o q \in Seq(Steps) /\ Len(p \o q) = Len(p) + Len(q)
      /\ \A i \in 1 .. Len(p) + Len(q) :
            (p \o q)[i] = IF i <= Len(p) THEN p[i] ELSE q[i - Len(p)]
    BY <1>1, ConcatProperties
<1>3. Len(q) \in Nat /\ \A i \in 1 .. Len(q) : q[i].op \notin {"on", "off"}
    BY LenProperties DEF NoVisit
<1>4. \A i \in 1 .. Len(p \o q) :
          (p \o q)[i].op # "off" /\ ((p \o q)[i].op = "on" => i = 1)
    <2> TAKE i \in 1 .. Len(p \o q)
    <2>1. CASE i = 1
        BY <1>1, <1>2, <2>1, StepFacts
    <2>2. CASE i # 1
        <3>1. i - 1 \in 1 .. Len(q) /\ (p \o q)[i] = q[i - 1]
            BY <1>1, <1>2, <1>3, <2>2
        <3> QED
            BY <1>3, <3>1
    <2> QED
        BY <2>1, <2>2
<1> QED
    BY <1>2, <1>4 DEF ApiVisits, WorkerVisits, p

\* fail_and_release comes after the loop.
LEMMA EnqueueFailureIsFine ==
    ASSUME NEW path \in EnqueueFailure
    PROVE  Good("enqueueFailure", path)
<1>1. PICK j \in JobRows : path = <<On>> \o FailAndRelease(j)
    BY DEF EnqueueFailure
<1> DEFINE q == <<Lock("team"), Update(j), Commit, Update(j), Commit>>
<1>2. q \in Seq(Steps) /\ FailAndRelease(j) = q
    BY StepFacts DEF FailAndRelease
<1>3. NoVisit(q)
    <2>1. /\ Len(q) = 5 /\ q[1] = Lock("team") /\ q[2] = Update(j) /\ q[3] = Commit
          /\ q[4] = Update(j) /\ q[5] = Commit
        OBVIOUS
    <2> QED
        BY <2>1, StepFacts DEF NoVisit
<1> HIDE DEF q
<1>4. path \in Seq(Steps) /\ ApiVisits("enqueueFailure", {}, path)
    BY <1>1, <1>2, <1>3, OnFirst DEF OnTheLoop
<1> QED
    BY <1>4 DEF Good, Ordered, InLockOrder

\* A switch commits before it goes on to a checkout.
LEMMA SwitchIsFine ==
    ASSUME NEW path \in Switch
    PROVE  Good("switch", path)
<1> USE StepFacts, BearFacts
<1> DEFINE h == "switch"
           p == <<Lock("sub"), Commit, Lock("team"), Commit>>
<1>1. PICK q \in Checkout : path = p \o q
    BY DEF Switch
<1>2. Good(h, q)
    <2>1. q \in {<<Lock("sub")>>, <<Lock("sub"), On>>, <<Lock("sub"), Refer>>}
        BY DEF Checkout
    <2> QED
        BY <2>1, PathsOffTheLoop
<1>3. Ordered(h, p)
    BY ShortPaths DEF Takes
<1>4. /\ Len(p) = 4 /\ p[1] = Lock("sub") /\ p[2] = Commit /\ p[3] = Lock("team") /\ p[4] = Commit
      /\ p # <<>>
    OBVIOUS
<1> HIDE DEF p, h
<1>5. Leaves(h, p)
    BY <1>4 DEF Leaves, Takes
<1>6. NoVisit(p)
    BY <1>4 DEF NoVisit
<1>7. p \in Seq(Steps) /\ q \in Seq(Steps)
    BY <1>2, <1>3 DEF Ordered, Good
<1>8. Ordered(h, p \o q)
    BY <1>2, <1>3, <1>5, <1>7, Joined DEF Good
<1>9. ApiVisits(h, {}, p \o q)
    BY <1>2, <1>4, <1>6, <1>7, JoinedVisits DEF Good, OnTheLoop, h
<1> QED
    BY <1>1, <1>8, <1>9 DEF Good, h

\* Every API handler begins with an ApiPath.
LEMMA ApiPathsAreFine ==
    ASSUME NEW h \in DOMAIN ApiHandlers, NEW path \in ApiHandlers[h]
    PROVE  ApiPath(h, path)
<1> USE StepFacts
<1>1. CASE h = "generate"
    <2>1. path = <<On, Lock("team")>>
        BY <1>1 DEF ApiHandlers, Generate
    <2>2. Good(h, path)
        BY <1>1, <2>1, PathsOnTheLoop DEF OnTheLoop
    <2> QED
        BY <1>1, <2>2 DEF ApiPath, Good, Referring
<1>2. CASE h = "enqueueFailure"
    <2>1. Good(h, path)
        BY <1>2, EnqueueFailureIsFine DEF ApiHandlers
    <2> QED
        BY <1>2, <2>1 DEF ApiPath, Good, Referring
<1>3. CASE h = "falWebhook"
    <2>1. PICK j \in JobRows : path \in Settle(j) \union {<<Lock(j), On>>}
        BY <1>3 DEF ApiHandlers, FalWebhook
    <2>2. path \in {<<Lock(j)>>, <<Lock(j), Lock("team")>>, <<Lock(j), On>>}
        BY <2>1 DEF Settle
    <2>3. Good(h, path)
        BY <2>2, PathsOffTheLoop, BearFacts
    <2> QED
        BY <1>3, <2>3 DEF ApiPath, Good, Referring
<1>4. CASE h = "payment"
    <2>1. path \in {<<On, Refer>>, <<On, Refer, Lock("team")>>}
        BY <1>4 DEF ApiHandlers, PaymentCaptured
    <2>2. Good(h, path)
        BY <1>4, <2>1, PathsOnTheLoop DEF OnTheLoop, Referring
    <2>3. path # <<>> /\ Head(path) = On
        BY <2>1
    <2> QED
        BY <2>2, <2>3 DEF ApiPath, Good
<1>5. CASE h = "activated"
    <2>1. path \in {<<On, Lock("sub")>>, <<On, Lock("sub"), Lock("team")>>,
                     <<On, Lock("sub"), Refer, Lock("team")>>}
        BY <1>5 DEF ApiHandlers, SubscriptionActivated
    <2>2. Good(h, path)
        BY <1>5, <2>1, PathsOnTheLoop DEF OnTheLoop, Referring
    <2>3. path # <<>> /\ Head(path) = On
        BY <2>1
    <2> QED
        BY <2>2, <2>3 DEF ApiPath, Good
<1>6. CASE h = "charged"
    <2>1. path \in {<<On, Lock("sub")>>, <<On, Lock("sub"), Lock("team")>>}
        BY <1>6 DEF ApiHandlers, SubscriptionCharged
    <2>2. Good(h, path)
        BY <1>6, <2>1, PathsOnTheLoop DEF OnTheLoop
    <2> QED
        BY <1>6, <2>2 DEF ApiPath, Good, Referring
<1>7. CASE h = "checkout"
    <2>1. path \in {<<Lock("sub")>>, <<Lock("sub"), On>>, <<Lock("sub"), Refer>>}
        BY <1>7 DEF ApiHandlers, Checkout
    <2>2. Good(h, path)
        BY <2>1, PathsOffTheLoop, BearFacts
    <2> QED
        BY <1>7, <2>2 DEF ApiPath, Good, Referring
<1>8. CASE h = "cancel"
    <2>1. path \in {<<Lock("sub")>>, <<Lock("sub"), On>>}
        BY <1>8 DEF ApiHandlers, CancelSubscription
    <2>2. Good(h, path)
        BY <2>1, PathsOffTheLoop, BearFacts
    <2> QED
        BY <1>8, <2>2 DEF ApiPath, Good, Referring
<1>9. CASE h = "switch"
    <2>1. Good(h, path)
        BY <1>9, SwitchIsFine DEF ApiHandlers
    <2> QED
        BY <1>9, <2>1 DEF ApiPath, Good, Referring
<1>10. CASE h = "editTeam"
    <2>1. path \in {<<Lock("sub"), Commit, Update("team")>>, <<Lock("sub"), Update("team")>>,
                     <<Update("team")>>}
        BY <1>10 DEF ApiHandlers, EditTeam
    <2>2. Good(h, path)
        BY <2>1, PathsOffTheLoop, BearFacts
    <2> QED
        BY <1>10, <2>2 DEF ApiPath, Good, Referring
<1>11. CASE h = "seat"
    <2>1. path \in {<<Lock("team")>>, <<Lock("team"), On>>}
        BY <1>11 DEF ApiHandlers, TakeSeat
    <2>2. Good(h, path)
        BY <2>1, PathsOffTheLoop, BearFacts
    <2> QED
        BY <1>11, <2>2 DEF ApiPath, Good, Referring
<1> QED
    BY <1>1, <1>2, <1>3, <1>4, <1>5, <1>6, <1>7, <1>8, <1>9, <1>10, <1>11 DEF ApiHandlers

\* Pieces of the worker's paths.
Tidy(h, path) == Ordered(h, path) /\ Leaves(h, path)

\* Each piece keeps to the order, and keeps no row another piece would not bear.
LEMMA TidyPieces ==
    ASSUME NEW h \in ThroughJobs, NEW j \in JobRows
    PROVE  /\ Tidy(h, <<Off>>) /\ Tidy(h, <<On>>) /\ Tidy(h, <<Off, On>>)
           /\ Tidy(h, <<Lock(j)>>) /\ Tidy(h, <<Lock(j), Commit>>)
           /\ Tidy(h, <<Lock(j), Lock("team"), Commit>>)
<1> USE StepFacts, BearFacts
<1>1. Ordered(h, <<Off>>) /\ Ordered(h, <<On>>) /\ Ordered(h, <<Off, On>>)
    BY ShortPaths DEF Takes
<1>2. Ordered(h, <<Lock(j)>>) /\ Ordered(h, <<Lock(j), Commit>>)
    BY ShortPaths DEF Takes
<1>3. Ordered(h, <<Lock(j), Lock("team"), Commit>>)
    BY ShortPaths DEF Takes
<1>4. Leaves(h, <<Off>>) /\ Leaves(h, <<On>>) /\ Leaves(h, <<Off, On>>)
    BY DEF Leaves, Takes
<1>5. j # "team"
    BY RowLocksAssumption
<1>6. Leaves(h, <<Lock(j)>>)
    BY <1>5 DEF Leaves
<1>7. Leaves(h, <<Lock(j), Commit>>)
    BY <1>5 DEF Leaves, Takes
<1>8. Leaves(h, <<Lock(j), Lock("team"), Commit>>)
    <2> DEFINE p == <<Lock(j), Lock("team"), Commit>>
    <2>1. Len(p) = 3 /\ p[1] = Lock(j) /\ p[2] = Lock("team") /\ p[3] = Commit
        OBVIOUS
    <2> HIDE DEF p
    <2>2. Leaves(h, p)
        BY <2>1 DEF Leaves, Takes
    <2> QED
        BY <2>2 DEF p
<1> QED
    BY <1>1, <1>2, <1>3, <1>4, <1>6, <1>7, <1>8 DEF Tidy

\* Tidy pieces can follow one another.
LEMMA TidyJoined ==
    ASSUME NEW h, NEW p, NEW q, Tidy(h, p), Tidy(h, q)
    PROVE  Tidy(h, p \o q)
    BY Joined DEF Tidy, Ordered

\* What a poll and the sweep do to one job.
LEMMA OneJobIsTidy ==
    ASSUME NEW h \in ThroughJobs, NEW j \in JobRows
    PROVE  /\ \A p \in CheckTimeout(j) : Tidy(h, p)
           /\ \A p \in FailStaleJob(j) : Tidy(h, p) /\ NoVisit(p)
<1>1. ASSUME NEW p \in FailStaleJob(j)
      PROVE  Tidy(h, p) /\ NoVisit(p)
    <2>1. p \in {<<Lock(j), Lock("team"), Commit>>, <<Lock(j)>>}
        BY <1>1 DEF FailStaleJob
    <2>2. NoVisit(<<Lock(j), Lock("team"), Commit>>) /\ NoVisit(<<Lock(j)>>)
        BY StepFacts DEF NoVisit
    <2> QED
        BY <2>1, <2>2, TidyPieces
<1>2. ASSUME NEW p \in {Append(s, Commit) : s \in Settle(j)} \union {<<Lock(j)>>}
      PROVE  Tidy(h, p)
    <2>1. p \in {<<Lock(j), Commit>>, <<Lock(j), Lock("team"), Commit>>, <<Lock(j)>>}
        BY <1>2 DEF Settle
    <2> QED
        BY <2>1, TidyPieces
<1>3. ASSUME NEW p \in CheckTimeout(j)
      PROVE  Tidy(h, p)
    <2>1. CASE \E q \in FailStaleJob(j) : p = <<Off, On>> \o q
        BY <1>1, <2>1, TidyJoined, TidyPieces
    <2>2. CASE \E q \in {Append(s, Commit) : s \in Settle(j)} \union {<<Lock(j)>>} :
                  p = <<Off>> \o q \o <<On>>
        <3>1. PICK q \in {Append(s, Commit) : s \in Settle(j)} \union {<<Lock(j)>>} :
                  p = <<Off>> \o q \o <<On>>
            BY <2>2
        <3>2. Tidy(h, q)
            BY <1>2
        <3>3. Tidy(h, <<Off>> \o q)
            BY <3>2, TidyJoined, TidyPieces
        <3> QED
            BY <3>1, <3>3, TidyJoined, TidyPieces
    <2> QED
        BY <1>3, <2>1, <2>2 DEF CheckTimeout
<1> QED
    BY <1>1, <1>3

\* Two jobs one after the other.
LEMMA TwoJobsAreTidy ==
    ASSUME NEW h \in ThroughJobs, NEW Paths, NEW path \in OfTwoJobs(Paths),
           \A j \in JobRows : \A p \in Paths[j] : Tidy(h, p)
    PROVE  \E q : /\ path = <<On>> \o q /\ Tidy(h, q)
                  /\ (\A j \in JobRows : \A p \in Paths[j] : NoVisit(p)) => NoVisit(q)
<1>1. PICK j \in JobRows :
          \E two \in Paths[j] \X UNION {Paths[k] : k \in JobRows \ {j}} :
              path = <<On>> \o two[1] \o two[2]
    <2> DEFINE Joint(j) == {<<On>> \o two[1] \o two[2] :
                               two \in Paths[j] \X UNION {Paths[k] : k \in JobRows \ {j}}}
    <2>1. path \in UNION {Joint(j) : j \in JobRows}
        BY DEF OfTwoJobs
    <2> HIDE DEF Joint
    <2>2. PICK j \in JobRows : path \in Joint(j)
        BY <2>1
    <2>3. \E two \in Paths[j] \X UNION {Paths[k] : k \in JobRows \ {j}} :
              path = <<On>> \o two[1] \o two[2]
        BY <2>2 DEF Joint
    <2> QED
        BY <2>2, <2>3
<1>2. PICK k \in JobRows : \E p \in Paths[j], q \in Paths[k] : path = <<On>> \o p \o q
    <2>1. PICK two \in Paths[j] \X UNION {Paths[k] : k \in JobRows \ {j}} :
              path = <<On>> \o two[1] \o two[2]
        BY <1>1
    <2>2. PICK k \in JobRows : two[2] \in Paths[k]
        BY <2>1
    <2> QED
        BY <2>1, <2>2
<1> PICK p \in Paths[j], q \in Paths[k] : path = <<On>> \o p \o q
    BY <1>2
<1>3. Tidy(h, p) /\ Tidy(h, q)
    BY <1>1, <1>2
<1>4. <<On>> \in Seq(Steps) /\ p \in Seq(Steps) /\ q \in Seq(Steps)
    BY <1>3, StepFacts DEF Tidy, Ordered
<1>5. path = <<On>> \o (p \o q)
    BY <1>4, ConcatAssociative
<1>6. Tidy(h, p \o q)
    BY <1>3, TidyJoined
<1>7. NoVisit(p) /\ NoVisit(q) => NoVisit(p \o q)
    BY <1>4, JoinedVisits
<1> QED
    BY <1>5, <1>6, <1>7

\* A submission that refunds takes the team last.
LEMMA SubmitIsOrdered ==
    ASSUME NEW path \in Submit
    PROVE  Ordered("submit", path)
<1> USE StepFacts, BearFacts
<1>1. PICK j \in JobRows :
          path \in {<<On, Lock(j), Off, On>>, <<On, Lock(j), Off, On, Lock("team")>>}
    BY DEF Submit
<1>2. Ordered("submit", <<On, Lock(j), Off, On>>)
    BY ShortPaths DEF Takes
<1>3. Ordered("submit", <<On, Lock(j), Off, On, Lock("team")>>)
    <2> DEFINE p == <<On, Lock(j), Off, On, Lock("team")>>
    <2>1. /\ p \in Seq(Steps) /\ Len(p) = 5
          /\ p[1] = On /\ p[2] = Lock(j) /\ p[3] = Off /\ p[4] = On /\ p[5] = Lock("team")
        OBVIOUS
    <2> HIDE DEF p
    <2>2. \A k \in 1 .. 5 : Takes(p[k]) => k = 2 \/ k = 5
        BY <2>1 DEF Takes
    <2>3. ASSUME NEW k \in 1 .. 5, NEW i \in 1 .. k - 1, Takes(p[k]), Takes(p[i])
          PROVE  Bears("submit", Of(p[i]), p[k])
        <3>1. i = 2 /\ k = 5
            BY <2>2, <2>3
        <3> QED
            BY <2>1, <3>1
    <2>4. Ordered("submit", p)
        BY <2>1, <2>3 DEF Ordered, InLockOrder
    <2> QED
        BY <2>4 DEF p
<1> QED
    BY <1>1, <1>2, <1>3

\* The sweep is on the loop from its first step.
LEMMA SweepIsFine ==
    ASSUME NEW path \in Sweep
    PROVE  WorkerPath("sweep", path)
<1> DEFINE Paths == [j \in JobRows |-> FailStaleJob(j)]
<1>1. "sweep" \in ThroughJobs /\ path \in OfTwoJobs(Paths)
    BY DEF ThroughJobs, Sweep
<1>2. \A j \in JobRows : \A p \in Paths[j] : Tidy("sweep", p) /\ NoVisit(p)
    BY <1>1, OneJobIsTidy
<1> HIDE DEF Paths
<1>3. PICK q : path = <<On>> \o q /\ Tidy("sweep", q) /\ NoVisit(q)
    BY <1>1, <1>2, TwoJobsAreTidy
<1>4. q \in Seq(Steps)
    BY <1>3 DEF Tidy, Ordered
<1>5. JobRows # {}
    BY <1>1 DEF OfTwoJobs
<1>6. Tidy("sweep", <<On>>)
    BY <1>1, <1>5, TidyPieces
<1>7. Tidy("sweep", path)
    BY <1>3, <1>6, TidyJoined
<1> QED
    BY <1>3, <1>4, <1>7, OnFirst DEF WorkerPath, Tidy

\* The polls keep to the order.
LEMMA CheckTimeoutsAreFine ==
    ASSUME NEW path \in CheckTimeouts
    PROVE  WorkerPath("checkTimeouts", path)
<1> DEFINE Paths == [j \in JobRows |-> CheckTimeout(j)]
<1>1. "checkTimeouts" \in ThroughJobs /\ path \in OfTwoJobs(Paths)
    BY DEF ThroughJobs, CheckTimeouts
<1>2. \A j \in JobRows : \A p \in Paths[j] : Tidy("checkTimeouts", p)
    BY <1>1, OneJobIsTidy
<1> HIDE DEF Paths
<1>3. PICK q : path = <<On>> \o q /\ Tidy("checkTimeouts", q)
    BY <1>1, <1>2, TwoJobsAreTidy
<1>4. JobRows # {}
    BY <1>1 DEF OfTwoJobs
<1>5. Tidy("checkTimeouts", <<On>>)
    BY <1>1, <1>4, TidyPieces
<1>6. Tidy("checkTimeouts", path)
    BY <1>3, <1>5, TidyJoined
<1> QED
    BY <1>6 DEF WorkerPath, Tidy, WorkerVisits

\* The purge locks the jobs, then the subscription, then the team.
LEMMA PurgeIsFine ==
    ASSUME NEW path \in PurgeTeam
    PROVE  WorkerPath("purge", path)
<1> USE StepFacts, BearFacts
<1> DEFINE Paths == [j \in JobRows |-> {<<Lock(j)>>}]
           r == <<Lock("sub"), Lock("team")>>
<1>1. PICK p \in Purge : path = p \o r
    BY DEF PurgeTeam
<1>2. "purge" \in ThroughJobs /\ p \in OfTwoJobs(Paths)
    BY DEF ThroughJobs, Purge
<1>3. \A j \in JobRows : \A x \in Paths[j] : Tidy("purge", x) /\ NoVisit(x)
    <2> SUFFICES ASSUME NEW j \in JobRows
                 PROVE  Tidy("purge", <<Lock(j)>>) /\ NoVisit(<<Lock(j)>>)
        OBVIOUS
    <2>1. NoVisit(<<Lock(j)>>)
        BY DEF NoVisit
    <2> QED
        BY <1>2, <2>1, TidyPieces
<1>4. Ordered("purge", r)
    BY ShortPaths DEF Takes
<1>5. NoVisit(r)
    BY DEF NoVisit
<1> HIDE DEF Paths, r
<1>6. PICK q : p = <<On>> \o q /\ Tidy("purge", q) /\ NoVisit(q)
    BY <1>2, <1>3, TwoJobsAreTidy
<1>7. <<On>> \in Seq(Steps) /\ q \in Seq(Steps) /\ r \in Seq(Steps)
    BY <1>4, <1>6 DEF Tidy, Ordered
<1>8. path = <<On>> \o (q \o r)
    BY <1>1, <1>6, <1>7, ConcatAssociative
<1>9. q \o r \in Seq(Steps) /\ NoVisit(q \o r)
    BY <1>5, <1>6, <1>7, JoinedVisits, ConcatProperties
<1>10. JobRows # {}
    BY <1>2 DEF OfTwoJobs
<1>11. Tidy("purge", <<On>>)
    BY <1>2, <1>10, TidyPieces
<1>12. Tidy("purge", p)
    BY <1>6, <1>11, TidyJoined
<1>13. Ordered("purge", path)
    BY <1>1, <1>4, <1>7, <1>12, Joined DEF Tidy, Ordered
<1> QED
    BY <1>8, <1>9, <1>13, OnFirst DEF WorkerPath

\* The renewal locks the subscription before the team.
LEMMA RenewIsFine ==
    ASSUME NEW path \in Renew
    PROVE  WorkerPath("renew", path)
<1> USE StepFacts, BearFacts
<1>1. path \in {<<On, Lock("sub"), Lock("team")>>, <<On, Lock("team")>>, <<On, Lock("sub")>>}
    BY DEF Renew
<1>2. Ordered("renew", <<On, Lock("sub"), Lock("team")>>)
    BY ShortPaths DEF Takes
<1>3. Ordered("renew", <<On, Lock("team")>>) /\ Ordered("renew", <<On, Lock("sub")>>)
    <2>1. On \in Steps /\ Lock("team") \in Steps /\ Lock("sub") \in Steps /\ ~Takes(On)
        BY DEF Takes
    <2> QED
        BY <2>1, ShortPaths
<1>4. /\ WorkerVisits("renew", {}, <<On, Lock("sub"), Lock("team")>>)
      /\ WorkerVisits("renew", {}, <<On, Lock("team")>>)
      /\ WorkerVisits("renew", {}, <<On, Lock("sub")>>)
    BY ShortWorkerVisits
<1> QED
    BY <1>1, <1>2, <1>3, <1>4 DEF WorkerPath

\* Every coroutine of the worker begins with a WorkerPath.
LEMMA WorkerPathsAreFine ==
    ASSUME NEW h \in DOMAIN WorkerHandlers, NEW path \in WorkerHandlers[h]
    PROVE  WorkerPath(h, path)
<1>1. CASE h = "submit"
    <2>1. Ordered(h, path)
        BY <1>1, SubmitIsOrdered DEF WorkerHandlers
    <2> QED
        BY <1>1, <2>1 DEF WorkerPath, WorkerVisits
<1>2. CASE h = "checkTimeouts"
    BY <1>2, CheckTimeoutsAreFine DEF WorkerHandlers
<1>3. CASE h = "sweep"
    BY <1>3, SweepIsFine DEF WorkerHandlers
<1>4. CASE h = "renew"
    BY <1>4, RenewIsFine DEF WorkerHandlers
<1>5. CASE h = "purge"
    BY <1>5, PurgeIsFine DEF WorkerHandlers
<1> QED
    BY <1>1, <1>2, <1>3, <1>4, <1>5 DEF WorkerHandlers
-----------------------------------------------------------------------------
(* The invariant.                                                          *)

Names == {"none", "ended"} \union DOMAIN ApiHandlers \union DOMAIN WorkerHandlers

Shapes ==
    /\ handler \in [Sessions -> Names]
    /\ home \in [Sessions -> Processes]
    /\ rest \in [Sessions -> Seq(Steps)]
    /\ held \in [Sessions -> SUBSET (Rows \X Modes)]
    /\ loop \in [Processes -> Sessions \union {NoSession}]
    /\ \A s \in Sessions : ~Active(s) => rest[s] = <<>> /\ held[s] = {}

\* A loop is busy with an active session of its process.
LoopsAreBusy ==
    \A p \in Processes : loop[p] \in Sessions => Active(loop[p]) /\ home[loop[p]] = p

\* A session with handler h of process p that has the locks H and the path
\* before it, on the loop or not.
SessionFine(h, H, path, p, onLoop) ==
    /\ InLockOrder(h, H, path)
    /\ p \in Apis =>
          /\ ApiVisits(h, H, path)
          /\ onLoop => path = <<>> \/ h \in OnTheLoop
    /\ p = Worker => WorkerVisits(h, H, path)
    /\ h \in Referring =>
          /\ p \in Apis
          /\ onLoop \/ (H = {} /\ path # <<>> /\ Head(path).op = "on")

SessionsAreFine ==
    \A s \in Sessions : SessionFine(handler[s], held[s], rest[s], home[s], loop[home[s]] = s)

\* The inductive invariant.
RowLocksInv == Shapes /\ LoopsAreBusy /\ SessionsAreFine

\* A step of a session leaves it in order.
LEMMA SessionSteps ==
    ASSUME NEW h, NEW H, NEW path \in Seq(Steps), path # <<>>, NEW p \in Processes,
           NEW onLoop \in BOOLEAN, SessionFine(h, H, path, p, onLoop)
    PROVE  /\ Tail(path) \in Seq(Steps) /\ Head(path) \in Steps
           /\ Takes(Head(path)) =>
                 SessionFine(h, H \union {Of(Head(path))}, Tail(path), p, onLoop)
           /\ Head(path).op = "on" => SessionFine(h, H, Tail(path), p, TRUE)
           /\ Head(path).op = "off" => p = Worker /\ SessionFine(h, H, Tail(path), p, FALSE)
           /\ Head(path).op = "commit" => SessionFine(h, {}, Tail(path), p, onLoop)
<1> DEFINE n == Len(path)
           q == Tail(path)
<1>1. /\ n \in Nat /\ n > 0 /\ Len(q) = n - 1 /\ q \in Seq(Steps) /\ Head(path) = path[1]
      /\ \A k \in 1 .. n - 1 : q[k] = path[k + 1]
    BY HeadTailProperties, LenProperties
<1> HIDE DEF q
<1>2. n = 1 => q = <<>>
    BY <1>1, EmptySeq
<1>3. Worker \notin Apis /\ (p \in Apis \/ p = Worker)
    BY RowLocksAssumption DEF Processes
<1>4. ASSUME NEW G
      PROVE  /\ p \in Apis => ApiVisits(h, G, q)
             /\ p = Worker => WorkerVisits(h, G, q)
    <2>1. \A k \in 1 .. n - 1 : k + 1 \in 1 .. n /\ k + 1 # 1 /\ (k + 1 = n => k = n - 1)
        BY <1>1
    <2>2. ASSUME p \in Apis PROVE ApiVisits(h, G, q)
        <3>1. ApiVisits(h, H, path)
            BY <2>2 DEF SessionFine
        <3>2. \A k \in 1 .. n - 1 : q[k].op # "off" /\ (q[k].op = "on" => k = n - 1)
            BY <1>1, <2>1, <3>1 DEF ApiVisits
        <3> QED
            BY <1>1, <3>2 DEF ApiVisits
    <2>3. ASSUME p = Worker PROVE WorkerVisits(h, G, q)
        <3>1. WorkerVisits(h, H, path)
            BY <2>3 DEF SessionFine
        <3>2. h \notin {"submit", "checkTimeouts"} => \A k \in 1 .. n - 1 : q[k].op # "on"
            BY <1>1, <2>1, <3>1 DEF WorkerVisits
        <3> QED
            BY <1>1, <3>2 DEF WorkerVisits
    <2> QED
        BY <2>2, <2>3
<1>5. InLockOrder(h, H, path)
    BY DEF SessionFine
<1>6. p \in Apis => path[1].op # "off" /\ (path[1].op = "on" => q = <<>> \/ h \in OnTheLoop)
    <2> SUFFICES ASSUME p \in Apis
                 PROVE  path[1].op # "off" /\ (path[1].op = "on" => n = 1 \/ h \in OnTheLoop)
        BY <1>2
    <2> QED
        BY <1>1 DEF SessionFine, ApiVisits
<1>7. onLoop /\ p \in Apis => h \in OnTheLoop
    BY DEF SessionFine
<1>8. h \in Referring => p \in Apis /\ (onLoop \/ path[1].op = "on")
    BY <1>1 DEF SessionFine
<1>9. ASSUME Takes(path[1])
      PROVE  SessionFine(h, H \union {Of(path[1])}, q, p, onLoop)
    <2>1. InLockOrder(h, H \union {Of(path[1])}, q)
        BY <1>1, <1>5, <1>9, OrderTail DEF q
    <2> QED
        BY <1>4, <1>7, <1>8, <1>9, <2>1 DEF SessionFine, Takes
<1>10. ASSUME path[1].op = "on"
       PROVE  SessionFine(h, H, q, p, TRUE)
    <2>1. InLockOrder(h, H, q)
        BY <1>1, <1>5, <1>10, OrderTail DEF q
    <2> QED
        BY <1>4, <1>6, <1>8, <1>10, <2>1 DEF SessionFine
<1>11. ASSUME path[1].op = "off"
       PROVE  p = Worker /\ SessionFine(h, H, q, p, FALSE)
    <2>1. InLockOrder(h, H, q)
        BY <1>1, <1>5, <1>11, OrderTail DEF q
    <2> QED
        BY <1>3, <1>4, <1>6, <1>8, <1>11, <2>1 DEF SessionFine
<1>12. ASSUME path[1].op = "commit"
       PROVE  SessionFine(h, {}, q, p, onLoop)
    <2>1. InLockOrder(h, {}, q)
        BY <1>1, <1>5, <1>12, OrderTail DEF q
    <2> QED
        BY <1>4, <1>7, <1>8, <1>12, <2>1 DEF SessionFine
<1> QED
    BY <1>1, <1>9, <1>10, <1>11, <1>12, OrderTail, <1>5 DEF q

\* Before its first step and after its last, a session is in order.
LEMMA SessionEnds ==
    ASSUME NEW p, NEW onLoop \in BOOLEAN
    PROVE  /\ SessionFine("none", {}, <<>>, p, onLoop) /\ SessionFine("ended", {}, <<>>, p, onLoop)
<1>1. \A h : InLockOrder(h, {}, <<>>) /\ ApiVisits(h, {}, <<>>) /\ WorkerVisits(h, {}, <<>>)
    BY DEF InLockOrder, ApiVisits, WorkerVisits
<1> QED
    BY <1>1 DEF SessionFine, Referring

\* The invariant holds at first.
LEMMA RowLocksInvHoldsAtFirst == RowLocksInit => RowLocksInv
<1> SUFFICES ASSUME RowLocksInit PROVE RowLocksInv
    OBVIOUS
<1>1. <<>> \in Seq(Steps) /\ Worker \in Processes /\ NoSession \notin Sessions
    BY EmptySeq, RowLocksAssumption DEF Processes
<1>2. Shapes
    BY <1>1 DEF RowLocksInit, Shapes, Names
<1>3. LoopsAreBusy
    BY <1>1 DEF RowLocksInit, LoopsAreBusy
<1>4. SessionsAreFine
    BY SessionEnds DEF RowLocksInit, SessionsAreFine
<1> QED
    BY <1>2, <1>3, <1>4 DEF RowLocksInv

\* A session that begins has the path of its handler before it.
LEMMA BeginKeeps ==
    ASSUME RowLocksInv, NEW s \in Sessions, Begin(s)
    PROVE  RowLocksInv'
<1>1. PICK p \in Processes, h \in Names \ {"none", "ended"}, path \in Seq(Steps) :
          Begins(s, p, h, path) /\ SessionFine(h, {}, path, p, FALSE)
    <2>1. ASSUME NEW p \in Apis, NEW h \in DOMAIN ApiHandlers, NEW path \in ApiHandlers[h],
                 Begins(s, p, h, path)
          PROVE  /\ p \in Processes /\ h \in Names \ {"none", "ended"} /\ path \in Seq(Steps)
                 /\ SessionFine(h, {}, path, p, FALSE)
        <3>1. ApiPath(h, path)
            BY ApiPathsAreFine
        <3>2. h \notin {"none", "ended"}
            BY DEF ApiHandlers
        <3>3. p \in Processes /\ p # Worker
            BY RowLocksAssumption DEF Processes
        <3> QED
            BY <3>1, <3>2, <3>3 DEF ApiPath, Ordered, SessionFine, Names
    <2>2. ASSUME NEW h \in DOMAIN WorkerHandlers, NEW path \in WorkerHandlers[h],
                 Begins(s, Worker, h, path)
          PROVE  /\ Worker \in Processes /\ h \in Names \ {"none", "ended"} /\ path \in Seq(Steps)
                 /\ SessionFine(h, {}, path, Worker, FALSE)
        <3>1. WorkerPath(h, path)
            BY WorkerPathsAreFine
        <3>2. h \notin {"none", "ended"} /\ h \notin Referring
            BY DEF WorkerHandlers, Referring
        <3>3. Worker \in Processes /\ Worker \notin Apis
            BY RowLocksAssumption DEF Processes
        <3> QED
            BY <3>1, <3>2, <3>3 DEF WorkerPath, Ordered, SessionFine, Names
    <2>3. \/ \E p \in Apis : \E h \in DOMAIN ApiHandlers : \E path \in ApiHandlers[h] :
               Begins(s, p, h, path)
          \/ \E h \in DOMAIN WorkerHandlers : \E path \in WorkerHandlers[h] :
               Begins(s, Worker, h, path)
        BY DEF Begin
    <2> QED
        BY <2>1, <2>2, <2>3
<1>2. /\ handler[s] = "none" /\ handler' = [handler EXCEPT ![s] = h]
      /\ home' = [home EXCEPT ![s] = p] /\ rest' = [rest EXCEPT ![s] = path]
      /\ held' = held /\ loop' = loop
    BY <1>1 DEF Begin, Begins
<1>3. held[s] = {} /\ \A r \in Processes : loop[r] # s
    BY <1>2 DEF RowLocksInv, Shapes, LoopsAreBusy, Active
<1>4. Shapes'
    BY <1>1, <1>2 DEF RowLocksInv, Shapes, Active
<1>5. LoopsAreBusy'
    BY <1>1, <1>2, <1>3 DEF RowLocksInv, Shapes, LoopsAreBusy, Active
<1>6. ASSUME NEW t \in Sessions
      PROVE  SessionFine(handler[t], held[t], rest[t], home[t], loop[home[t]] = t)'
    <2>1. CASE t = s
        <3>1. (loop[home[t]] = t)' = FALSE
            BY <1>1, <1>2, <1>3, <2>1 DEF RowLocksInv, Shapes
        <3> QED
            BY <1>1, <1>2, <1>3, <2>1, <3>1 DEF RowLocksInv, Shapes
    <2>2. CASE t # s
        <3>1. SessionFine(handler[t], held[t], rest[t], home[t], loop[home[t]] = t)
            BY DEF RowLocksInv, SessionsAreFine
        <3>2. handler'[t] = handler[t] /\ rest'[t] = rest[t] /\ home'[t] = home[t]
            BY <1>2, <2>2 DEF RowLocksInv, Shapes
        <3> QED
            BY <1>2, <3>1, <3>2
    <2> QED
        BY <2>1, <2>2
<1> QED
    BY <1>4, <1>5, <1>6 DEF RowLocksInv, SessionsAreFine

\* What a session's next step is, and what taking it changes.
LEMMA GoesOn ==
    ASSUME RowLocksInv, NEW s \in Sessions, NEW op, Goes(s, op)
    PROVE  /\ Active(s) /\ rest[s] # <<>> /\ rest[s] \in Seq(Steps)
           /\ NextStep(s) = Head(rest[s]) /\ NextStep(s) \in Steps /\ NextStep(s).op = op
           /\ handler' = handler /\ home' = home /\ home[s] \in Processes
           /\ rest' = [rest EXCEPT ![s] = Tail(rest[s])] /\ Tail(rest[s]) \in Seq(Steps)
           /\ SessionFine(handler[s], held[s], rest[s], home[s], loop[home[s]] = s)
<1>1. Active(s) /\ rest[s] # <<>> /\ NextStep(s).op = op /\ handler' = handler /\ home' = home
      /\ rest' = [rest EXCEPT ![s] = Tail(rest[s])]
    BY DEF Goes
<1>2. rest[s] \in Seq(Steps) /\ home[s] \in Processes
    BY DEF RowLocksInv, Shapes
<1>3. NextStep(s) = Head(rest[s])
    BY <1>1 DEF NextStep
<1>4. Head(rest[s]) \in Steps /\ Tail(rest[s]) \in Seq(Steps)
    BY <1>1, <1>2, HeadTailProperties
<1> QED
    BY <1>1, <1>2, <1>3, <1>4 DEF RowLocksInv, SessionsAreFine

\* One session has moved: the others are still in order, for nobody but
\* itself takes a session of an API process off its loop.
LEMMA OneMoves ==
    ASSUME RowLocksInv, NEW s \in Sessions, NEW H \in SUBSET (Rows \X Modes), NEW q \in Seq(Steps),
           Active(s), handler' = handler, home' = home,
           rest' = [rest EXCEPT ![s] = q], held' = [held EXCEPT ![s] = H],
           loop' \in [Processes -> Sessions \union {NoSession}],
           SessionFine(handler[s], H, q, home[s], (loop[home[s]] = s)'),
           \A t \in Sessions \ {s} : home[t] \in Apis => (loop[home[t]] = t)' = (loop[home[t]] = t)
    PROVE  Shapes' /\ SessionsAreFine'
<1>1. Shapes'
    BY DEF RowLocksInv, Shapes, Active
<1>2. ASSUME NEW t \in Sessions
      PROVE  SessionFine(handler[t], held[t], rest[t], home[t], loop[home[t]] = t)'
    <2>1. CASE t = s
        <3>1. held'[s] = H /\ rest'[s] = q
            BY DEF RowLocksInv, Shapes
        <3> QED
            BY <2>1, <3>1
    <2>2. CASE t # s
        <3>1. held'[t] = held[t] /\ rest'[t] = rest[t] /\ handler'[t] = handler[t] /\ home'[t] = home[t]
            BY <2>2 DEF RowLocksInv, Shapes
        <3>2. SessionFine(handler[t], held[t], rest[t], home[t], loop[home[t]] = t)
            BY DEF RowLocksInv, SessionsAreFine
        <3>3. CASE home[t] \in Apis
            BY <2>2, <3>1, <3>2, <3>3
        <3>4. CASE home[t] \notin Apis
            BY <3>1, <3>2, <3>4 DEF SessionFine
        <3> QED
            BY <3>3, <3>4
    <2> QED
        BY <2>1, <2>2
<1> QED
    BY <1>1, <1>2 DEF SessionsAreFine

\* A row is taken.
LEMMA TakeRowKeeps ==
    ASSUME RowLocksInv, NEW s \in Sessions, TakeRow(s)
    PROVE  RowLocksInv'
<1> DEFINE H == held[s] \union {Of(NextStep(s))}
<1>1. Goes(s, "take") /\ loop' = loop /\ held' = [held EXCEPT ![s] = H]
    BY DEF TakeRow, Of
<1>2. /\ Active(s) /\ rest[s] # <<>> /\ rest[s] \in Seq(Steps)
      /\ NextStep(s) = Head(rest[s]) /\ NextStep(s) \in Steps /\ NextStep(s).op = "take"
      /\ handler' = handler /\ home' = home /\ home[s] \in Processes
      /\ rest' = [rest EXCEPT ![s] = Tail(rest[s])] /\ Tail(rest[s]) \in Seq(Steps)
      /\ SessionFine(handler[s], held[s], rest[s], home[s], loop[home[s]] = s)
    BY <1>1, GoesOn
<1>3. Of(NextStep(s)) \in Rows \X Modes /\ Takes(NextStep(s))
    <2>1. PICK row \in Rows, mode \in Modes : NextStep(s) = Take(row, mode)
        BY <1>2, StepFacts DEF Steps
    <2> QED
        BY <1>2, <2>1, StepFacts DEF Takes
<1>4. SessionFine(handler[s], H, Tail(rest[s]), home[s], loop[home[s]] = s)
    BY <1>2, <1>3, SessionSteps
<1>5. H \in SUBSET (Rows \X Modes) /\ loop \in [Processes -> Sessions \union {NoSession}]
    BY <1>3 DEF RowLocksInv, Shapes
<1> HIDE DEF H
<1>6. Shapes' /\ SessionsAreFine'
    BY <1>1, <1>2, <1>4, <1>5, OneMoves
<1>7. LoopsAreBusy'
    BY <1>1, <1>2 DEF RowLocksInv, LoopsAreBusy, Active
<1> QED
    BY <1>6, <1>7 DEF RowLocksInv

\* The locks are released.
LEMMA CommitKeeps ==
    ASSUME RowLocksInv, NEW s \in Sessions, CommitRows(s)
    PROVE  RowLocksInv'
<1>1. Goes(s, "commit") /\ loop' = loop /\ held' = [held EXCEPT ![s] = {}]
    BY DEF CommitRows
<1>2. /\ Active(s) /\ rest[s] # <<>> /\ rest[s] \in Seq(Steps)
      /\ NextStep(s) = Head(rest[s]) /\ NextStep(s).op = "commit"
      /\ handler' = handler /\ home' = home /\ home[s] \in Processes
      /\ rest' = [rest EXCEPT ![s] = Tail(rest[s])] /\ Tail(rest[s]) \in Seq(Steps)
      /\ SessionFine(handler[s], held[s], rest[s], home[s], loop[home[s]] = s)
    BY <1>1, GoesOn
<1>3. SessionFine(handler[s], {}, Tail(rest[s]), home[s], loop[home[s]] = s)
    BY <1>2, SessionSteps
<1>4. {} \in SUBSET (Rows \X Modes) /\ loop \in [Processes -> Sessions \union {NoSession}]
    BY DEF RowLocksInv, Shapes
<1>5. Shapes' /\ SessionsAreFine'
    BY <1>1, <1>2, <1>3, <1>4, OneMoves
<1>6. LoopsAreBusy'
    BY <1>1, <1>2 DEF RowLocksInv, LoopsAreBusy, Active
<1> QED
    BY <1>5, <1>6 DEF RowLocksInv

\* A session gets on the loop of its process.
LEMMA GetOnLoopKeeps ==
    ASSUME RowLocksInv, NEW s \in Sessions, GetOnLoop(s)
    PROVE  RowLocksInv'
<1>1. Goes(s, "on") /\ loop[home[s]] = NoSession /\ loop' = [loop EXCEPT ![home[s]] = s] /\ held' = held
    BY DEF GetOnLoop
<1>2. /\ Active(s) /\ rest[s] # <<>> /\ rest[s] \in Seq(Steps)
      /\ NextStep(s) = Head(rest[s]) /\ NextStep(s).op = "on"
      /\ handler' = handler /\ home' = home /\ home[s] \in Processes
      /\ rest' = [rest EXCEPT ![s] = Tail(rest[s])] /\ Tail(rest[s]) \in Seq(Steps)
      /\ SessionFine(handler[s], held[s], rest[s], home[s], loop[home[s]] = s)
    BY <1>1, GoesOn
<1>3. SessionFine(handler[s], held[s], Tail(rest[s]), home[s], TRUE)
    BY <1>2, SessionSteps
<1>4. /\ held[s] \in SUBSET (Rows \X Modes) /\ held' = [held EXCEPT ![s] = held[s]]
      /\ loop' \in [Processes -> Sessions \union {NoSession}] /\ loop'[home[s]] = s
      /\ \A p \in Processes \ {home[s]} : loop'[p] = loop[p]
    BY <1>1, <1>2 DEF RowLocksInv, Shapes
<1>5. \A t \in Sessions \ {s} : (loop[home[t]] = t)' = (loop[home[t]] = t)
    <2> SUFFICES ASSUME NEW t \in Sessions \ {s}
                 PROVE  (loop'[home[t]] = t) = (loop[home[t]] = t)
        BY <1>2
    <2>1. CASE home[t] = home[s]
        BY <1>1, <1>4, <2>1, RowLocksAssumption
    <2>2. CASE home[t] # home[s]
        BY <1>4, <2>2 DEF RowLocksInv, Shapes
    <2> QED
        BY <2>1, <2>2
<1>6. SessionFine(handler[s], held[s], Tail(rest[s]), home[s], (loop[home[s]] = s)')
    <2>1. (loop[home[s]] = s)' = TRUE
        BY <1>2, <1>4
    <2> QED
        BY <1>3, <2>1
<1>7. Shapes' /\ SessionsAreFine'
    BY <1>2, <1>4, <1>5, <1>6, OneMoves
<1>8. LoopsAreBusy'
    BY <1>2, <1>4 DEF RowLocksInv, LoopsAreBusy, Active
<1> QED
    BY <1>7, <1>8 DEF RowLocksInv

\* Only a coroutine of the worker gets off its loop.
LEMMA GetOffLoopKeeps ==
    ASSUME RowLocksInv, NEW s \in Sessions, GetOffLoop(s)
    PROVE  RowLocksInv'
<1>1. Goes(s, "off") /\ loop' = [loop EXCEPT ![home[s]] = NoSession] /\ held' = held
    BY DEF GetOffLoop
<1>2. /\ Active(s) /\ rest[s] # <<>> /\ rest[s] \in Seq(Steps)
      /\ NextStep(s) = Head(rest[s]) /\ NextStep(s).op = "off"
      /\ handler' = handler /\ home' = home /\ home[s] \in Processes
      /\ rest' = [rest EXCEPT ![s] = Tail(rest[s])] /\ Tail(rest[s]) \in Seq(Steps)
      /\ SessionFine(handler[s], held[s], rest[s], home[s], loop[home[s]] = s)
    BY <1>1, GoesOn
<1>3. home[s] = Worker /\ SessionFine(handler[s], held[s], Tail(rest[s]), home[s], FALSE)
    BY <1>2, SessionSteps
<1>4. /\ held[s] \in SUBSET (Rows \X Modes) /\ held' = [held EXCEPT ![s] = held[s]]
      /\ loop' \in [Processes -> Sessions \union {NoSession}] /\ loop'[Worker] = NoSession
      /\ \A p \in Processes \ {Worker} : loop'[p] = loop[p]
    BY <1>1, <1>2, <1>3 DEF RowLocksInv, Shapes
<1>5. \A t \in Sessions \ {s} : home[t] \in Apis => (loop[home[t]] = t)' = (loop[home[t]] = t)
    BY <1>2, <1>4, RowLocksAssumption DEF Processes
<1>6. SessionFine(handler[s], held[s], Tail(rest[s]), home[s], (loop[home[s]] = s)')
    <2>1. (loop[home[s]] = s)' = FALSE
        BY <1>2, <1>3, <1>4, RowLocksAssumption
    <2> QED
        BY <1>3, <2>1
<1>7. Shapes' /\ SessionsAreFine'
    BY <1>2, <1>4, <1>5, <1>6, OneMoves
<1>8. LoopsAreBusy'
    BY <1>2, <1>4, RowLocksAssumption DEF RowLocksInv, LoopsAreBusy, Active
<1> QED
    BY <1>7, <1>8 DEF RowLocksInv

\* Sessions that are over leave everything in order.
LEMMA EndKeeps ==
    ASSUME RowLocksInv, NEW S, End(S)
    PROVE  RowLocksInv'
<1>1. /\ \A s \in Sessions : home'[s] = home[s]
      /\ \A s \in Sessions : s \notin S =>
            handler'[s] = handler[s] /\ rest'[s] = rest[s] /\ held'[s] = held[s]
      /\ \A s \in Sessions : s \in S => handler'[s] = "ended" /\ rest'[s] = <<>> /\ held'[s] = {}
      /\ \A p \in Processes : loop'[p] = IF loop[p] \in S THEN NoSession ELSE loop[p]
    BY DEF End
<1>2. Shapes'
    <2>1. <<>> \in Seq(Steps) /\ "ended" \in Names
        BY EmptySeq DEF Names
    <2>2. /\ handler' \in [Sessions -> Names] /\ home' \in [Sessions -> Processes]
          /\ rest' \in [Sessions -> Seq(Steps)]
          /\ loop' \in [Processes -> Sessions \union {NoSession}]
        BY <2>1 DEF End, RowLocksInv, Shapes
    <2>3. held' \in [Sessions -> SUBSET (Rows \X Modes)]
        BY DEF End, RowLocksInv, Shapes
    <2>4. \A s \in Sessions : ~Active(s)' => rest'[s] = <<>> /\ held'[s] = {}
        BY <1>1 DEF RowLocksInv, Shapes, Active
    <2> QED
        BY <2>2, <2>3, <2>4 DEF Shapes
<1>3. LoopsAreBusy'
    BY <1>1, RowLocksAssumption DEF RowLocksInv, Shapes, LoopsAreBusy, Active
<1>4. ASSUME NEW t \in Sessions
      PROVE  SessionFine(handler[t], held[t], rest[t], home[t], loop[home[t]] = t)'
    <2>1. CASE t \in S
        <3>1. \A onLoop \in BOOLEAN : SessionFine("ended", {}, <<>>, home[t], onLoop)
            BY SessionEnds
        <3>2. (loop[home[t]] = t)' \in BOOLEAN
            OBVIOUS
        <3> QED
            BY <1>1, <2>1, <3>1, <3>2
    <2>2. CASE t \notin S
        <3>1. (loop[home[t]] = t)' = (loop[home[t]] = t)
            BY <1>1, <2>2, RowLocksAssumption DEF RowLocksInv, Shapes
        <3>2. SessionFine(handler[t], held[t], rest[t], home[t], loop[home[t]] = t)
            BY DEF RowLocksInv, SessionsAreFine
        <3> QED
            BY <1>1, <2>2, <3>1, <3>2
    <2> QED
        BY <2>1, <2>2
<1> QED
    BY <1>2, <1>3, <1>4 DEF RowLocksInv, SessionsAreFine

\* The invariant is inductive.
LEMMA RowLocksInvIsKept == RowLocksInv /\ [RowLocksNext]_rowLocksVars => RowLocksInv'
<1> SUFFICES ASSUME RowLocksInv, [RowLocksNext]_rowLocksVars PROVE RowLocksInv'
    OBVIOUS
<1>1. ASSUME NEW s \in Sessions, Begin(s) PROVE RowLocksInv'
    BY <1>1, BeginKeeps
<1>2. ASSUME NEW s \in Sessions, TakeRow(s) PROVE RowLocksInv'
    BY <1>2, TakeRowKeeps
<1>3. ASSUME NEW s \in Sessions, GetOnLoop(s) PROVE RowLocksInv'
    BY <1>3, GetOnLoopKeeps
<1>4. ASSUME NEW s \in Sessions, GetOffLoop(s) PROVE RowLocksInv'
    BY <1>4, GetOffLoopKeeps
<1>5. ASSUME NEW s \in Sessions, CommitRows(s) PROVE RowLocksInv'
    BY <1>5, CommitKeeps
<1>6. ASSUME NEW s \in Sessions, Finish(s) PROVE RowLocksInv'
    BY <1>6, EndKeeps DEF Finish
<1>7. ASSUME NEW s \in Sessions, Deadlock(s) PROVE RowLocksInv'
    BY <1>7, EndKeeps DEF Deadlock
<1>8. CASE KillWorker
    BY <1>8, EndKeeps DEF KillWorker
<1>9. CASE UNCHANGED rowLocksVars
    <2>1. /\ handler' = handler /\ home' = home /\ rest' = rest /\ held' = held /\ loop' = loop
        BY <1>9 DEF rowLocksVars
    <2> QED
        BY <2>1 DEF RowLocksInv, Shapes, LoopsAreBusy, SessionsAreFine, Active
<1> QED
    BY <1>1, <1>2, <1>3, <1>4, <1>5, <1>6, <1>7, <1>8, <1>9 DEF RowLocksNext
-----------------------------------------------------------------------------
(* Who waits for whom.                                                     *)

\* A session that waits in the database is about to take a row that its
\* blocker has, and bears what it has itself.
LEMMA Waiting ==
    ASSUME RowLocksInv, NEW s \in Sessions, NEW t \in Blockers(s)
    PROVE  /\ t \in Sessions /\ t # s /\ rest[s] # <<>> /\ rest[s] \in Seq(Steps)
           /\ Active(s) /\ NextStep(s) = Head(rest[s]) /\ NextStep(s).op = "take"
           /\ \E l \in held[t] : l[1] = NextStep(s).row
           /\ handler[s] # "enqueueFailure" => \A l \in held[s] : Bears(handler[s], l, NextStep(s))
<1>1. t \in Sessions /\ t # s /\ NextStep(s).op = "take" /\ \E l \in held[t] : l[1] = NextStep(s).row
    BY DEF Blockers
<1>2. Active(s) /\ rest[s] # <<>> /\ NextStep(s) = Head(rest[s])
    BY <1>1, StepFacts DEF NextStep
<1>3. rest[s] \in Seq(Steps) /\ InLockOrder(handler[s], held[s], rest[s])
    BY DEF RowLocksInv, Shapes, SessionsAreFine, SessionFine
<1> QED
    BY <1>1, <1>2, <1>3, OrderHead DEF Takes

\* A smallest circle of sessions, of which none is a failure to enqueue.
\* Whoever blocks one that waits for the team refers to the team and wants
\* to lock it, and so does its own blocker: the two are all there is, and
\* each is on the loop of its process.
LEMMA TwoRefer ==
    ASSUME RowLocksInv, NEW C \in Circles(InDatabase), "enqueueFailure" \notin HandlersOf(C),
           NEW t \in C, NextStep(t).row = "team", NEW r \in C, t \in Blockers(r)
    PROVE  TwoOf(C, Referring) /\ \A a, b \in C : a # b => home[a] # home[b]
<1>1. /\ C \subseteq Sessions
      /\ \A a \in C : \E b \in C : b \in Blockers(a)
      /\ \A a \in C : handler[a] # "enqueueFailure"
      /\ \A D \in (SUBSET C) \ {C} : ~Circular(InDatabase, D)
    BY DEF Circles, Circular, InDatabase, HandlersOf
<1>2. ASSUME NEW a \in C, NEW b \in C, b \in Blockers(a), NextStep(a).row = "team"
      PROVE  /\ handler[b] \in Referring /\ NextStep(b) = Lock("team")
             /\ \E l \in held[b] : l[1] = "team" /\ l[2] = "share"
    <2>1. a \in Sessions /\ b \in Sessions
        BY <1>1
    <2>2. \E l \in held[b] : l[1] = NextStep(a).row
        BY <1>2, <2>1, Waiting
    <2>3. PICK l \in held[b] : l[1] = "team"
        BY <1>2, <2>2
    <2>4. PICK c \in C : c \in Blockers(b)
        BY <1>1
    <2>5. Bears(handler[b], l, NextStep(b))
        BY <1>1, <2>4, Waiting
    <2> QED
        BY <2>3, <2>5 DEF Bears
<1>3. PICK u \in C : u \in Blockers(t)
    BY <1>1
<1>4. PICK v \in C : v \in Blockers(u)
    BY <1>1
<1>5. handler[u] \in Referring /\ NextStep(u) = Lock("team") /\ \E l \in held[u] : l[1] = "team" /\ l[2] = "share"
    BY <1>2, <1>3
<1>6. NextStep(u).row = "team" /\ u # v
    BY <1>1, <1>4, <1>5, StepFacts, Waiting
<1>7. handler[v] \in Referring /\ NextStep(v) = Lock("team")
    BY <1>2, <1>4, <1>6
<1>8. u \in Blockers(v)
    <2>1. NextStep(v).op = "take" /\ NextStep(v).row = "team" /\ NextStep(v).mode = "lock"
        BY <1>7, StepFacts
    <2>2. ~Compatible("share", "lock")
        BY DEF Compatible
    <2> QED
        BY <1>1, <1>5, <1>6, <2>1, <2>2 DEF Blockers
<1>9. Circular(InDatabase, {u, v})
    BY <1>1, <1>4, <1>8 DEF Circular, InDatabase
<1>10. C = {u, v}
    BY <1>1, <1>9
<1>11. \A a \in {u, v} : loop[home[a]] = a
    <2> SUFFICES ASSUME NEW a \in {u, v} PROVE loop[home[a]] = a
        OBVIOUS
    <2>1. a \in Sessions /\ handler[a] \in Referring /\ rest[a] # <<>> /\ Head(rest[a]).op = "take"
        BY <1>1, <1>4, <1>5, <1>7, <1>8, Waiting
    <2>2. SessionFine(handler[a], held[a], rest[a], home[a], loop[home[a]] = a)
        BY <2>1 DEF RowLocksInv, SessionsAreFine
    <2> QED
        BY <2>1, <2>2 DEF SessionFine
<1> QED
    BY <1>5, <1>6, <1>7, <1>10, <1>11 DEF TwoOf

\* Otherwise two go through several jobs.
LEMMA DeadlocksAreOfTheseKinds == RowLocksInv => DeadlocksAreKnown
<1> SUFFICES ASSUME RowLocksInv, NEW C \in Circles(InDatabase), "enqueueFailure" \notin HandlersOf(C)
             PROVE  \/ TwoOf(C, Referring) /\ \A a, b \in C : a # b => home[a] # home[b]
                    \/ TwoOf(C, ThroughJobs)
    BY DEF DeadlocksAreKnown, Referring, ThroughJobs
<1>1. /\ C \subseteq Sessions /\ C # {}
      /\ \A a \in C : \E b \in C : b \in Blockers(a)
      /\ \A a \in C : handler[a] # "enqueueFailure"
    BY DEF Circles, Circular, InDatabase, HandlersOf
<1>2. PICK r \in C, t \in C : t \in Blockers(r)
    BY <1>1
<1>3. PICK u \in C : u \in Blockers(t)
    BY <1>1
<1>4. CASE NextStep(t).row = "team" \/ NextStep(u).row = "team"
    BY <1>2, <1>3, <1>4, TwoRefer
<1>5. CASE NextStep(t).row # "team" /\ NextStep(u).row # "team"
    <2>1. ASSUME NEW a \in C, NEW b \in C, b \in Blockers(a), NextStep(b).row # "team"
          PROVE  handler[b] \in ThroughJobs
        <3>1. PICK l \in held[b] : l[1] = NextStep(a).row
            BY <1>1, <2>1, Waiting
        <3>2. PICK c \in C : c \in Blockers(b)
            BY <1>1
        <3>3. Bears(handler[b], l, NextStep(b))
            BY <1>1, <3>2, Waiting
        <3> QED
            BY <2>1, <3>3 DEF Bears
    <2>2. handler[t] \in ThroughJobs /\ handler[u] \in ThroughJobs /\ t # u
        BY <1>1, <1>2, <1>3, <1>5, <2>1, Waiting
    <2> QED
        BY <2>2 DEF TwoOf
<1> QED
    BY <1>4, <1>5

\* In a smallest circle that PostgreSQL does not see, somebody waits for a
\* loop that another of it is busy on, and is itself waited for in the
\* database.
LEMMA FreezesAreOfTheseKinds == RowLocksInv => FreezesAreKnown
<1> SUFFICES ASSUME RowLocksInv, NEW C \in Freezes
             PROVE  \/ /\ loop[Worker] \in C
                       /\ HandlersOf(C) \intersect {"submit", "checkTimeouts"} # {}
                    \/ \E p \in Apis :
                          /\ loop[p] \in C
                          /\ handler[loop[p]] \in OnTheLoop
                          /\ \E s \in C : rest[s] = <<On>> /\ held[s] # {}
    BY DEF FreezesAreKnown, OnTheLoop
<1> DEFINE waits == InDatabase \union ForLoops
<1>1. /\ C \subseteq Sessions /\ C # {}
      /\ \A a \in C : \E b \in C : <<a, b>> \in waits
      /\ \A D \in (SUBSET C) \ {C} : ~Circular(waits, D)
      /\ C \notin Circles(InDatabase)
    BY DEF Freezes, Circles, Circular
<1>2. PICK s \in C, t \in C : <<s, t>> \in ForLoops
    <2> SUFFICES ASSUME \A a, b \in C : <<a, b>> \notin ForLoops
                 PROVE  C \in Circles(InDatabase)
        BY <1>1
    <2>1. Circular(InDatabase, C)
        BY <1>1 DEF Circular
    <2>2. \A D : Circular(InDatabase, D) => Circular(waits, D)
        BY DEF Circular
    <2> QED
        BY <1>1, <2>1, <2>2 DEF Circles
<1>3. /\ s \in Sessions /\ t \in Sessions /\ s # t /\ Active(s) /\ NextStep(s).op = "on"
      /\ loop[home[s]] = t /\ home[s] \in Processes /\ rest[s] \in Seq(Steps)
      /\ SessionFine(handler[s], held[s], rest[s], home[s], loop[home[s]] = s)
    BY <1>1, <1>2 DEF ForLoops, RowLocksInv, Shapes, SessionsAreFine
<1>4. home[t] = home[s] /\ SessionFine(handler[t], held[t], rest[t], home[t], loop[home[t]] = t)
    BY <1>3 DEF RowLocksInv, LoopsAreBusy, SessionsAreFine
<1>5. PICK r \in C : <<r, s>> \in waits
    <2> SUFFICES ASSUME \A r \in C : <<r, s>> \notin waits
                 PROVE  Circular(waits, C \ {s})
        BY <1>1, <1>2
    <2>1. C \ {s} # {}
        BY <1>2, <1>3
    <2>2. ASSUME NEW a \in C \ {s}
          PROVE  \E b \in C \ {s} : <<a, b>> \in waits
        BY <1>1
    <2> QED
        BY <2>1, <2>2 DEF Circular
<1>6. held[s] # {}
    <2>1. <<r, s>> \notin ForLoops
        <3> SUFFICES ASSUME <<r, s>> \in ForLoops PROVE FALSE
            OBVIOUS
        <3>1. r \in Sessions /\ home[r] \in Processes /\ loop[home[r]] = s
            BY <1>1 DEF ForLoops, RowLocksInv, Shapes
        <3>2. home[s] = home[r]
            BY <1>3, <3>1 DEF RowLocksInv, LoopsAreBusy
        <3> QED
            BY <1>3, <3>1, <3>2
    <2>2. s \in Blockers(r)
        BY <1>5, <2>1 DEF InDatabase
    <2> QED
        BY <1>1, <2>2, Waiting
<1>7. /\ rest[s] # <<>> /\ Len(rest[s]) \in Nat /\ Len(rest[s]) > 0 /\ rest[s][1] \in Steps
      /\ rest[s][1].op = "on"
    <2>1. rest[s] # <<>> /\ Head(rest[s]).op = "on"
        BY <1>3, StepFacts DEF NextStep
    <2> QED
        BY <1>3, <2>1, HeadTailProperties, LenProperties, ElementOfSeq
<1>8. CASE home[s] = Worker
    <2>1. WorkerVisits(handler[s], held[s], rest[s])
        BY <1>3, <1>8 DEF SessionFine
    <2>2. handler[s] \in {"submit", "checkTimeouts"}
        BY <1>6, <1>7, <2>1 DEF WorkerVisits
    <2> QED
        BY <1>2, <1>3, <1>8, <2>2 DEF HandlersOf
<1>9. CASE home[s] \in Apis
    <2>1. ApiVisits(handler[s], held[s], rest[s])
        BY <1>3, <1>9 DEF SessionFine
    <2>2. 1 \in 1 .. Len(rest[s])
        BY <1>7
    <2>3. Len(rest[s]) = 1
        BY <1>6, <1>7, <2>1, <2>2 DEF ApiVisits
    <2>4. rest[s][1] = On /\ rest[s] = <<On>>
        <3>1. rest[s][1] = On
            BY <1>7, StepFacts DEF Steps
        <3> QED
            BY <1>3, <2>3, <3>1
    <2>5. rest[t] # <<>>
        <3>1. PICK b \in C : <<t, b>> \in waits
            BY <1>1, <1>2
        <3>2. <<t, b>> \notin ForLoops
            BY <1>3, <1>4 DEF ForLoops
        <3> QED
            BY <1>1, <3>1, <3>2, Waiting DEF InDatabase
    <2>6. handler[t] \in OnTheLoop
        BY <1>3, <1>4, <1>9, <2>5 DEF SessionFine
    <2> QED
        BY <1>2, <1>3, <1>6, <1>9, <2>4, <2>6
<1> QED
    BY <1>3, <1>8, <1>9 DEF Processes
-----------------------------------------------------------------------------
\* For any number of sessions, API processes and jobs.

\* A session that is not in progress has no locks, and a loop is busy with a
\* session or with none.
THEOREM SessionsAreTyped == RowLocksSpec => []RowLocksTypeOK
<1>1. RowLocksInv => RowLocksTypeOK
    BY DEF RowLocksInv, Shapes, RowLocksTypeOK, Names, Modes
<1> QED
    BY <1>1, RowLocksInvHoldsAtFirst, RowLocksInvIsKept, PTL DEF RowLocksSpec

\* Whatever number of handlers run at once, they wait for each other in the
\* database only if one is a failed enqueue, two refer to the team on two
\* loops and now want it for themselves, or two go through several jobs.
THEOREM DeadlocksAreOfThreeKinds == RowLocksSpec => []DeadlocksAreKnown
    BY DeadlocksAreOfTheseKinds, RowLocksInvHoldsAtFirst, RowLocksInvIsKept, PTL DEF RowLocksSpec

\* Whatever number of handlers run at once, a process stops for good only as
\* the worker does over a job that a submission or a poll keeps locked, or
\* an API process over a row that a request leaves for its loop to release.
THEOREM FreezesAreOfTwoKinds == RowLocksSpec => []FreezesAreKnown
    BY FreezesAreOfTheseKinds, RowLocksInvHoldsAtFirst, RowLocksInvIsKept, PTL DEF RowLocksSpec
=============================================================================

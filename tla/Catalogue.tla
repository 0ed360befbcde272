----------------------------- MODULE Catalogue ------------------------------
(***************************************************************************)
(* Hand-edited rows (tools, plans, packs, slides) behind best-effort Redis *)
(* caches.  A request takes the cached value, or reads the database and    *)
(* stores what it read with the cache's time to live.  Rows are edited by  *)
(* SQL, which tells no cache; POST /admin/cache/clear lists the keys and   *)
(* deletes the ones it listed.                                             *)
(*                                                                         *)
(* A value in somebody's hands is represented by how long ago an edit      *)
(* replaced it in the database.  Time passes in ticks.                     *)
(*                                                                         *)
(* A definition marked "Slip" is a wrong version of the one below it.      *)
(***************************************************************************)
EXTENDS Integers

CONSTANTS
    Caches,         \* keys of Redis
    TTLOf,          \* their times to live, in ticks
    RowCaches,      \* the caches of one row (tooldef:*), where a row that
                    \* is not there is not stored
    Readers,        \* requests
    ReaderOf,       \* the cache a request asks
    Span,           \* bound: ticks a request takes at most
    MaxEdits,       \* bound: edits of the rows
    CacheOutages    \* TRUE if Redis may fail

ASSUME CatalogueAssumption ==
    /\ TTLOf \in [Caches -> Nat \ {0}]
    /\ RowCaches \subseteq Caches
    /\ ReaderOf \in [Readers -> Caches]
    /\ Span \in Nat /\ MaxEdits \in Nat
    /\ CacheOutages \in BOOLEAN

Current == -1

\* A value, a request before it has one, and an empty cache.
Value(old, there) == [old |-> old, there |-> there]
Idle == [at |-> "new", age |-> 0, value |-> Value(Current, TRUE)]
NoEntry == [kept |-> FALSE, age |-> 0, value |-> Value(Current, TRUE)]

VARIABLES
    rowThere,   \* the rows are in the database
    edits,      \* edits so far
    entry,      \* what each cache holds, and for how long
    reader,     \* where each request stands, since when, and with what value
    clearing    \* the keys listed by a clear in progress

catalogueVars == <<rowThere, edits, entry, reader, clearing>>

CatalogueInit ==
    /\ rowThere = TRUE /\ edits = 0
    /\ entry = [c \in Caches |-> NoEntry]
    /\ reader = [r \in Readers |-> Idle]
    /\ clearing = {}

Cache(r) == ReaderOf[r]

ReaderGoes(r, from, to, v) ==
    /\ reader[r].at = from
    /\ reader' = [reader EXCEPT ![r] = [@ EXCEPT !.at = to, !.value = v]]

\* Slip: a hit renews the time to live.
HitRenewing(r) ==
    /\ entry[Cache(r)].kept
    /\ ReaderGoes(r, "new", "done", entry[Cache(r)].value)
    /\ entry' = [entry EXCEPT ![Cache(r)].age = 0]
    /\ UNCHANGED <<rowThere, edits, clearing>>

\* get_cached returns a value.
Hit(r) ==
    /\ entry[Cache(r)].kept
    /\ ReaderGoes(r, "new", "done", entry[Cache(r)].value)
    /\ UNCHANGED <<rowThere, edits, entry, clearing>>

\* get_cached returns None, as it does when Redis fails.
Miss(r) ==
    /\ ~entry[Cache(r)].kept \/ CacheOutages
    /\ ReaderGoes(r, "new", "missed", reader[r].value)
    /\ UNCHANGED <<rowThere, edits, entry, clearing>>

\* The query.
ReadRows(r) ==
    /\ ReaderGoes(r, "missed", "storing", Value(Current, rowThere))
    /\ UNCHANGED <<rowThere, edits, entry, clearing>>

\* set_cached, whatever is in the cache by now; then the answer.
Store(r) ==
    LET c == Cache(r)  v == reader[r].value IN
    /\ ReaderGoes(r, "storing", "done", v)
    /\ \/ /\ v.there \/ c \notin RowCaches
          /\ entry' = [entry EXCEPT ![c] = [kept |-> TRUE, age |-> 0, value |-> v]]
       \/ /\ CacheOutages \/ (~v.there /\ c \in RowCaches)
          /\ UNCHANGED entry
    /\ UNCHANGED <<rowThere, edits, clearing>>

\* KEYS.
ListKeys ==
    /\ clearing = {}
    /\ clearing' = {c \in Caches : entry[c].kept}
    /\ UNCHANGED <<rowThere, edits, entry, reader>>

\* DEL of what was listed; or Redis fails (503) and it stays.
DeleteKeys ==
    /\ clearing # {}
    /\ clearing' = {}
    /\ \/ entry' = [c \in Caches |-> IF c \in clearing THEN NoEntry ELSE entry[c]]
       \/ CacheOutages /\ UNCHANGED entry
    /\ UNCHANGED <<rowThere, edits, reader>>

Replaced(v) == [v EXCEPT !.old = IF @ = Current THEN 0 ELSE @]

\* The rows change, or are removed or put back.
Edit ==
    /\ edits < MaxEdits /\ edits' = edits + 1
    /\ rowThere' \in BOOLEAN
    /\ entry' = [c \in Caches |->
          IF entry[c].kept THEN [entry[c] EXCEPT !.value = Replaced(@)] ELSE NoEntry]
    /\ reader' = [r \in Readers |->
          IF reader[r].at = "storing" THEN [reader[r] EXCEPT !.value = Replaced(@)]
                                      ELSE reader[r]]
    /\ UNCHANGED clearing

Underway(r) == reader[r].at \in {"missed", "storing"}

Older(v) == [v EXCEPT !.old = IF @ = Current THEN @ ELSE @ + 1]

Aged(c, e) ==
    IF ~e.kept \/ e.age + 1 >= TTLOf[c] THEN NoEntry
    ELSE [e EXCEPT !.age = @ + 1, !.value = Older(@)]

\* A tick: values get older, entries reach their time to live.  A request
\* takes no longer than Span, and an idle one starts anew.
CatalogueTick ==
    /\ \A r \in Readers : Underway(r) => reader[r].age < Span
    /\ entry' = [c \in Caches |-> Aged(c, entry[c])]
    /\ reader' = [r \in Readers |->
          IF Underway(r)
          THEN [reader[r] EXCEPT !.age = @ + 1, !.value = Older(@)]
          ELSE Idle]
    /\ UNCHANGED <<rowThere, edits, clearing>>

CatalogueNext ==
    \/ \E r \in Readers : Hit(r) \/ Miss(r) \/ ReadRows(r) \/ Store(r)
    \/ ListKeys \/ DeleteKeys \/ Edit \/ CatalogueTick

CatalogueSpec == CatalogueInit /\ [][CatalogueNext]_catalogueVars
-----------------------------------------------------------------------------
CatalogueTypeOK ==
    /\ rowThere \in BOOLEAN /\ edits \in 0 .. MaxEdits
    /\ \A c \in Caches : entry[c].kept \in BOOLEAN /\ entry[c].age \in 0 .. TTLOf[c]
    /\ \A r \in Readers : /\ reader[r].at \in {"new", "missed", "storing", "done"}
                          /\ reader[r].age \in 0 .. Span
    /\ clearing \subseteq Caches

\* tool_definitions.py: a short time to live "bounds worst-case staleness on
\* its own".  The bound is the time to live and one request: a request that
\* read before an edit may store after it, after a clear even, and what it
\* stored is then shown for a whole time to live.
StaleIsBounded ==
    \A r \in Readers : reader[r].at = "done" =>
        reader[r].value.old <= TTLOf[Cache(r)] + Span - 1
=============================================================================

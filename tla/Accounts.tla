------------------------------ MODULE Accounts ------------------------------
(***************************************************************************)
(* First logins.  Every authenticated request looks its Firebase uid up    *)
(* (Redis, then the database) and, finding nothing, creates the user, a    *)
(* personal team with or without the sign-up bonus, and the membership, in *)
(* one transaction.  The bonus is capped for each IP address and device    *)
(* and day by Redis counters that are read before the insert and           *)
(* incremented after its commit.  The log of bonuses, written after the    *)
(* response and never read, is left out.                                   *)
(*                                                                         *)
(* A definition marked "Slip" is a wrong version of the one below it.      *)
(***************************************************************************)
EXTENDS Naturals, Sequences, FiniteSets

CONSTANTS
    Logins,         \* authenticated requests
    Uids,           \* Firebase users
    UidOf,          \* whose request it is
    EmailOf,        \* the address in a user's token
    Throwaway,      \* users with a disposable address
    KeysOf,         \* the counters of a request: address and device;
                    \* <<>> for a caller without an address
    Nobody,         \* no account
    BonusCap,       \* MAX_BONUS_PER_WINDOW
    LastDay,        \* bound: days
    Outages         \* TRUE if Redis, the database and processes may fail

ASSUME AccountsAssumption ==
    /\ IsFiniteSet(Logins)
    /\ UidOf \in [Logins -> Uids]
    /\ KeysOf \in [Logins -> Seq(STRING)]
    /\ Throwaway \subseteq Uids
    /\ Nobody \notin Logins
    /\ BonusCap \in Nat \ {0}
    /\ LastDay \in Nat
    /\ Outages \in BOOLEAN

Email(l) == EmailOf[UidOf[l]]

VARIABLES
    account,    \* users by uid: the login that created the row
    bonus,      \* uids whose team opened with FREE_SIGNUP_CREDITS
    userCache,  \* user:uid:{uid}, by the account it names
    login,      \* where each request stands
    told,       \* the account a request goes on with
    eligible,   \* bonus_eligible of a request, as far as it has been decided
    keyNo,      \* the counter a request reads or increments next
    readOn,     \* the day whose counters a request read
    counted,    \* increments: request, key and day
    today,      \* the date bucket
    crowd       \* history: most requests ever at once between reading the
                \* counters and having incremented them

requestVars == <<login, told, eligible, keyNo, readOn>>
storeVars == <<account, bonus, userCache, counted>>
accountsVars == <<requestVars, storeVars, today, crowd>>

AccountsInit ==
    /\ account = [u \in Uids |-> Nobody]
    /\ bonus = {}
    /\ userCache = [u \in Uids |-> Nobody]
    /\ login = [l \in Logins |-> "new"]
    /\ told = [l \in Logins |-> Nobody]
    /\ eligible = [l \in Logins |-> FALSE]
    /\ keyNo = [l \in Logins |-> 1]
    /\ readOn = [l \in Logins |-> 0]
    /\ counted = {}
    /\ today = 0
    /\ crowd = 0
-----------------------------------------------------------------------------
LoginAt(l, from, to) == login[l] = from /\ login' = [login EXCEPT ![l] = to]

GoesOnWith(l, a) == told' = [told EXCEPT ![l] = a]

\* get_cached: a failure of Redis counts as a miss.
LookUpCache(l) ==
    /\ \/ /\ userCache[UidOf[l]] # Nobody
          /\ LoginAt(l, "new", "served") /\ GoesOnWith(l, userCache[UidOf[l]])
       \/ /\ userCache[UidOf[l]] = Nobody \/ Outages
          /\ LoginAt(l, "new", "missed") /\ UNCHANGED told
    /\ UNCHANGED <<eligible, keyNo, readOn, storeVars, today, crowd>>

\* The query by uid, before an insert or after one that was refused.
FindUser(l) ==
    /\ account[UidOf[l]] # Nobody
    /\ LoginAt(l, "missed", "caching") \/ LoginAt(l, "refused", "caching")
    /\ GoesOnWith(l, account[UidOf[l]])
    /\ UNCHANGED <<eligible, keyNo, readOn, storeVars, today, crowd>>

\* Refused, and still not there: get_or_create_user raises.
GiveUp(l) ==
    /\ account[UidOf[l]] = Nobody
    /\ LoginAt(l, "refused", "conflict")
    /\ UNCHANGED <<told, eligible, keyNo, readOn, storeVars, today, crowd>>

\* No such user: callers without an address and disposable mail get no bonus.
DecideBonus(l) ==
    LET asks == KeysOf[l] # <<>> /\ UidOf[l] \notin Throwaway IN
    /\ account[UidOf[l]] = Nobody
    /\ LoginAt(l, "missed", IF asks THEN "checking" ELSE "inserting")
    /\ eligible' = [eligible EXCEPT ![l] = asks]
    /\ readOn' = [readOn EXCEPT ![l] = today]
    /\ UNCHANGED <<told, keyNo, storeVars, today, crowd>>

Key(l) == KeysOf[l][keyNo[l]]

LastKey(l) == keyNo[l] = Len(KeysOf[l])

NextKey(l) == keyNo' = [keyNo EXCEPT ![l] = IF LastKey(l) THEN 1 ELSE @ + 1]

Count(k, d) == Cardinality({c \in counted : c[2] = k /\ c[3] = d})

\* Requests that have read a counter for a bonus they may still count.
Open ==
    {l \in Logins : \/ login[l] = "checking" /\ keyNo[l] > 1
                    \/ login[l] \in {"inserting", "inserted", "counting"} /\ eligible[l]}

\* Slip: one past the cap.
UnderCapOrAtIt(k, d) == Count(k, d) <= BonusCap

UnderCap(k, d) == Count(k, d) < BonusCap

\* should_grant_signup_bonus, one GET of it.
CheckCounter(l) ==
    /\ LoginAt(l, "checking", IF LastKey(l) THEN "inserting" ELSE "checking")
    /\ eligible' = [eligible EXCEPT ![l] = @ /\ UnderCap(Key(l), readOn[l])]
    /\ NextKey(l)
    /\ crowd' = IF Cardinality(Open \union {l}) > crowd
                THEN Cardinality(Open \union {l}) ELSE crowd
    /\ UNCHANGED <<told, readOn, storeVars, today>>

\* Another transaction holds the same uid or address, uncommitted.
Blocked(l) ==
    \E o \in Logins \ {l} :
        login[o] = "inserted" /\ (UidOf[o] = UidOf[l] \/ Email(o) = Email(l))

InUse(l) ==
    \E u \in Uids :
        account[u] # Nobody /\ (u = UidOf[l] \/ EmailOf[u] = Email(l))

\* Slip: the user is cached as soon as it has an id.
InsertCachingEarly(l) ==
    /\ ~Blocked(l)
    /\ LoginAt(l, "inserting", IF InUse(l) THEN "refused" ELSE "inserted")
    /\ userCache' = IF InUse(l) THEN userCache ELSE [userCache EXCEPT ![UidOf[l]] = l]
    /\ UNCHANGED <<told, eligible, keyNo, readOn, account, bonus, counted, today, crowd>>

\* The flush of the user row waits for such a transaction; the two unique
\* columns then let it through or raise IntegrityError, and the rollback
\* leaves nothing behind.
Insert(l) ==
    /\ ~Blocked(l)
    /\ LoginAt(l, "inserting", IF InUse(l) THEN "refused" ELSE "inserted")
    /\ UNCHANGED <<told, eligible, keyNo, readOn, storeVars, today, crowd>>

\* User, team and membership in one commit.
CommitAccount(l) ==
    /\ LoginAt(l, "inserted", IF eligible[l] THEN "counting" ELSE "caching")
    /\ account' = [account EXCEPT ![UidOf[l]] = l]
    /\ bonus' = IF eligible[l] THEN bonus \union {UidOf[l]} ELSE bonus
    /\ GoesOnWith(l, l)
    /\ UNCHANGED <<eligible, keyNo, readOn, userCache, counted, today, crowd>>

\* record_signup_bonus_grant, one INCR of it, in the bucket of its moment.
CountBonus(l) ==
    /\ LoginAt(l, "counting", IF LastKey(l) THEN "caching" ELSE "counting")
    /\ counted' = counted \union {<<l, Key(l), today>>}
    /\ NextKey(l)
    /\ UNCHANGED <<told, eligible, readOn, account, bonus, userCache, today, crowd>>

\* _cache_user never raises; without Redis nothing is stored.
CacheUser(l) ==
    /\ LoginAt(l, "caching", "served")
    /\ \/ userCache' = [userCache EXCEPT ![UidOf[l]] = told[l]]
       \/ Outages /\ UNCHANGED userCache
    /\ UNCHANGED <<told, eligible, keyNo, readOn, account, bonus, counted, today, crowd>>

\* Redis fails while counters are read or written (nothing there catches it),
\* the database before a commit, the process anywhere: the request ends,
\* uncommitted work is undone, what is committed stays.
LoginFails(l) ==
    /\ Outages
    /\ login[l] \notin {"new", "served", "conflict", "failed"}
    /\ login' = [login EXCEPT ![l] = "failed"]
    /\ UNCHANGED <<told, eligible, keyNo, readOn, storeVars, today, crowd>>

\* USER_CACHE_TTL_SECONDS.
UserCacheExpires(u) ==
    /\ userCache[u] # Nobody
    /\ userCache' = [userCache EXCEPT ![u] = Nobody]
    /\ UNCHANGED <<requestVars, account, bonus, counted, today, crowd>>

Midnight ==
    /\ today < LastDay /\ today' = today + 1
    /\ UNCHANGED <<requestVars, storeVars, crowd>>

AccountsNext ==
    \/ \E l \in Logins :
          \/ LookUpCache(l) \/ FindUser(l) \/ GiveUp(l) \/ DecideBonus(l)
          \/ CheckCounter(l) \/ Insert(l) \/ CommitAccount(l) \/ CountBonus(l)
          \/ CacheUser(l) \/ LoginFails(l)
    \/ \E u \in Uids : UserCacheExpires(u)
    \/ Midnight

AccountsSpec == AccountsInit /\ [][AccountsNext]_accountsVars
-----------------------------------------------------------------------------
AccountsTypeOK ==
    /\ account \in [Uids -> Logins \union {Nobody}]
    /\ bonus \subseteq Uids
    /\ userCache \in [Uids -> Logins \union {Nobody}]
    /\ login \in [Logins -> {"new", "missed", "checking", "inserting", "inserted",
                             "refused", "counting", "caching", "served", "conflict",
                             "failed"}]
    /\ told \in [Logins -> Logins \union {Nobody}]
    /\ eligible \in [Logins -> BOOLEAN]
    /\ \A l \in Logins : keyNo[l] \in 1 .. Len(KeysOf[l]) \union {1}
    /\ readOn \in [Logins -> 0 .. LastDay]
    /\ today \in 0 .. LastDay
    /\ crowd \in Nat

\* get_or_create_user is "safe against concurrent first requests": however
\* first requests, cache entries and failures interleave, whoever is served
\* goes on as the one committed account of its uid, no two accounts share an
\* address, and a request is turned away only when another account has its
\* address.
OneAccountEach ==
    /\ \A l \in Logins :
          login[l] \in {"caching", "served"} => told[l] = account[UidOf[l]]
    /\ \A u \in Uids : userCache[u] \in {Nobody, account[u]}
    /\ \A u, v \in Uids :
          account[u] # Nobody /\ account[v] # Nobody /\ EmailOf[u] = EmailOf[v] => u = v
    /\ \A l \in Logins : login[l] = "conflict" =>
          \E u \in Uids \ {UidOf[l]} : account[u] # Nobody /\ EmailOf[u] = Email(l)

\* The bonuses a counter should show: granted on its reading, and counted by
\* now or still to be counted.
Bonused(k, d) ==
    {l \in Logins : /\ account[UidOf[l]] = l /\ UidOf[l] \in bonus
                    /\ k \in {KeysOf[l][i] : i \in DOMAIN KeysOf[l]} /\ readOn[l] = d
                    /\ <<l, k, d>> \in counted \/ l \in Open}

\* The bonus cap is exact for sign-ups that come one at a time, and n at
\* once exceed it by n - 1 at most; beyond that it only loses the counts that
\* an outage or midnight swallowed.  Counters never show more bonuses than
\* were granted.
CapUpToRaces ==
    /\ \A l \in Logins, k \in {c[2] : c \in counted}, d \in 0 .. LastDay :
          <<l, k, d>> \in counted => UidOf[l] \in bonus
    /\ \A l \in Logins : \A i \in DOMAIN KeysOf[l] :
          Cardinality(Bonused(KeysOf[l][i], readOn[l]))
             <= BonusCap + (IF crowd = 0 THEN 0 ELSE crowd - 1)
=============================================================================

------------------------------ MODULE ApiProofs -----------------------------
(***************************************************************************)
(* Theorems about what the API does beside the generations: what it keeps  *)
(* in Redis next to the database (Accounts, Catalogue), the planned tools  *)
(* (Planning), and what it promises of the credits (CreditLedger).         *)
(*                                                                         *)
(* Theorems about Accounts for any number of requests, users, addresses    *)
(* and counters, with and without outages.                                 *)
(*                                                                         *)
(* Two accounts of one address, or two of one user, would need two commits *)
(* that the unique columns let through. A transaction that has inserted    *)
(* has the uid and the address to itself until it commits (InsertedAlone); *)
(* an account is therefore never replaced, and whoever was told of it was  *)
(* told right (ToldRight).                                                 *)
(*                                                                         *)
(* The cap on bonuses counts what a counter shows together with what it    *)
(* may come to show (Passed).  Only the reading of a counter adds to that, *)
(* and one that finds it below the cap overlooks no more than the requests *)
(* between reading and counting beside its own (CapIsNear).                *)
(*                                                                         *)
(* A theorem about Catalogue for any caches, requests, times to live and   *)
(* edits, with and without outages of Redis.                               *)
(*                                                                         *)
(* The bound is the sum of two: what a request is about to store is no     *)
(* older than the request (ReadLately), and what a cache holds no older    *)
(* than its entry and the longest request (KeptFresh).                     *)
(*                                                                         *)
(* A theorem about Planning for any requests, answers, rows of the tool    *)
(* and limits.  The lists of images are recursive functions, that is, a    *)
(* CHOOSE; each is first shown to have a solution (RecursionHasASolution), *)
(* and then compared with another by induction on the number of slots or   *)
(* groups.                                                                 *)
(*                                                                         *)
(* Theorems about CreditLedger, the abstract specification of the billing, *)
(* for any number of teams, requests, outputs, prices, packs and refills.  *)
(* They rest on the types alone: the two balances stay natural numbers     *)
(* because a batch never takes more than there is, and what its jobs are   *)
(* charged adds up to what it takes.                                       *)
(***************************************************************************)
EXTENDS Accounts, Catalogue, Planning, CreditLedger, CreditsProofs, Functions,
        SequenceTheorems, FiniteSetTheorems, TLAPS
-----------------------------------------------------------------------------
(* Accounts.                                                               *)

\* Where a request may stand.
Places == {"new", "missed", "checking", "inserting", "inserted", "refused", "counting",
           "caching", "served", "conflict", "failed"}

\* The types of what the argument is about.
StoreTypes ==
    /\ account \in [Uids -> Logins \union {Nobody}]
    /\ userCache \in [Uids -> Logins \union {Nobody}]
    /\ told \in [Logins -> Logins \union {Nobody}]
    /\ login \in [Logins -> Places]

\* An inserted row is the only one of its uid and of its address.
InsertedAlone ==
    \A l \in Logins : login[l] = "inserted" => ~InUse(l) /\ ~Blocked(l)

\* A refused request met an account; one told of an account was told right.
ToldRight ==
    \A l \in Logins :
        /\ login[l] = "refused" => InUse(l)
        /\ login[l] \in {"counting", "caching", "served"} =>
              told[l] # Nobody /\ told[l] = account[UidOf[l]]

\* The inductive invariant.
AccountsInv == StoreTypes /\ InsertedAlone /\ ToldRight /\ OneAccountEach
-----------------------------------------------------------------------------
\* A request belongs to a user and is somebody.
LEMMA LoginsAreSomebody == Nobody \notin Logins /\ \A l \in Logins : UidOf[l] \in Uids
  BY AccountsAssumption

\* The invariant holds at first.
LEMMA AccountsInvHoldsAtFirst == AccountsInit => AccountsInv
<1> SUFFICES ASSUME AccountsInit PROVE AccountsInv
  OBVIOUS
<1>1. StoreTypes
  BY DEF AccountsInit, StoreTypes, Places
<1>2. \A l \in Logins : login[l] = "new"
  BY DEF AccountsInit
<1>3. \A u \in Uids : account[u] = Nobody /\ userCache[u] = Nobody
  BY DEF AccountsInit
<1>4. InsertedAlone /\ ToldRight
  BY <1>2 DEF InsertedAlone, ToldRight
<1>5. OneAccountEach
  BY <1>2, <1>3 DEF OneAccountEach
<1> QED
  BY <1>1, <1>4, <1>5 DEF AccountsInv

\* A step of one request that changes neither accounts nor the cache, keeps
\* what others stand on.
LEMMA AloneStep ==
    ASSUME AccountsInv, NEW l \in Logins, NEW s \in Places,
           login' = [login EXCEPT ![l] = s],
           account' = account, userCache' = userCache,
           told' \in [Logins -> Logins \union {Nobody}],
           \A o \in Logins \ {l} : told'[o] = told[o],
           s = "inserted" => ~InUse(l) /\ ~Blocked(l),
           s = "refused" => InUse(l),
           s = "conflict" => login[l] = "refused" /\ account[UidOf[l]] = Nobody,
           s \in {"counting", "caching", "served"} =>
               told'[l] # Nobody /\ told'[l] = account[UidOf[l]]
    PROVE  AccountsInv'
<1>t. StoreTypes'
  BY LoginsAreSomebody DEF AccountsInv, StoreTypes
<1>o. /\ login'[l] = s
      /\ \A o \in Logins \ {l} : login'[o] = login[o] /\ told'[o] = told[o]
      /\ \A o \in Logins : InUse(o)' = InUse(o)
  BY DEF AccountsInv, StoreTypes, InUse, Email
<1>1. InsertedAlone'
  <2> SUFFICES ASSUME NEW o \in Logins, login'[o] = "inserted"
               PROVE  ~InUse(o) /\ ~Blocked(o)'
    BY <1>o DEF InsertedAlone
  <2>1. CASE o = l
    BY <1>o, <2>1 DEF Blocked, Email
  <2>2. CASE o # l
    <3>1. login[o] = "inserted" /\ ~InUse(o) /\ ~Blocked(o)
      BY <1>o, <2>2 DEF AccountsInv, InsertedAlone
    <3>2. s = "inserted" => ~(UidOf[o] = UidOf[l] \/ Email(o) = Email(l))
      BY <2>2, <3>1 DEF Blocked
    <3> QED
      BY <1>o, <3>1, <3>2 DEF Blocked, Email
  <2> QED
    BY <2>1, <2>2
<1>2. ToldRight'
  BY <1>o DEF AccountsInv, ToldRight
<1>3. OneAccountEach'
  <2>1. \A o \in Logins : login'[o] \in {"caching", "served"} => told'[o] = account'[UidOf[o]]
    BY <1>2 DEF ToldRight
  <2>2. s = "conflict" => \E u \in Uids \ {UidOf[l]} : account[u] # Nobody /\ EmailOf[u] = Email(l)
    BY DEF AccountsInv, ToldRight, InUse
  <2>3. \A o \in Logins : login'[o] = "conflict" =>
            \E u \in Uids \ {UidOf[o]} : account[u] # Nobody /\ EmailOf[u] = Email(o)
    BY <1>o, <2>2 DEF AccountsInv, OneAccountEach
  <2> QED
    BY <2>1, <2>3 DEF AccountsInv, OneAccountEach, Email
<1> QED
  BY <1>t, <1>1, <1>2, <1>3 DEF AccountsInv

\* The same, of a request that is told nothing.
LEMMA StandStep ==
    ASSUME AccountsInv, NEW l \in Logins, NEW s \in Places,
           login' = [login EXCEPT ![l] = s],
           account' = account, userCache' = userCache, told' = told,
           s = "inserted" => ~InUse(l) /\ ~Blocked(l),
           s = "refused" => InUse(l),
           s = "conflict" => login[l] = "refused" /\ account[UidOf[l]] = Nobody,
           s \in {"counting", "caching", "served"} =>
               told[l] # Nobody /\ told[l] = account[UidOf[l]]
    PROVE  AccountsInv'
<1>1. told' \in [Logins -> Logins \union {Nobody}]
  BY DEF AccountsInv, StoreTypes
<1> QED
  BY <1>1, AloneStep

\* A commit: the account is the first of its uid and of its address.
LEMMA CommitStep ==
    ASSUME AccountsInv, NEW l \in Logins, CommitAccount(l)
    PROVE  AccountsInv'
<1> DEFINE s == IF eligible[l] THEN "counting" ELSE "caching"
<1>a. /\ login[l] = "inserted" /\ login' = [login EXCEPT ![l] = s]
      /\ account' = [account EXCEPT ![UidOf[l]] = l]
      /\ told' = [told EXCEPT ![l] = l] /\ userCache' = userCache
  BY DEF CommitAccount, LoginAt, GoesOnWith
<1>s. s \in {"counting", "caching"}
  OBVIOUS
<1> HIDE DEF s
<1>b. ~InUse(l) /\ ~Blocked(l) /\ UidOf[l] \in Uids /\ account[UidOf[l]] = Nobody
  BY <1>a, LoginsAreSomebody DEF AccountsInv, InsertedAlone, InUse
<1>t. StoreTypes'
  BY <1>a, <1>b, <1>s DEF AccountsInv, StoreTypes, Places
<1>o. /\ login'[l] = s /\ told'[l] = l /\ account'[UidOf[l]] = l
      /\ \A o \in Logins \ {l} : login'[o] = login[o] /\ told'[o] = told[o]
      /\ \A u \in Uids \ {UidOf[l]} : account'[u] = account[u]
      /\ \A u \in Uids : account[u] # Nobody => account'[u] = account[u] /\ account'[u] # Nobody
  BY <1>a, <1>b DEF AccountsInv, StoreTypes
<1>1. InsertedAlone'
  <2> SUFFICES ASSUME NEW o \in Logins, login'[o] = "inserted"
               PROVE  ~InUse(o)' /\ ~Blocked(o)'
    BY DEF InsertedAlone
  <2>1. o # l /\ login[o] = "inserted" /\ ~InUse(o) /\ ~Blocked(o)
    BY <1>o, <1>s DEF AccountsInv, InsertedAlone
  <2>2. UidOf[o] # UidOf[l] /\ Email(o) # Email(l)
    BY <1>a, <2>1 DEF Blocked
  <2>3. ~InUse(o)'
    BY <1>b, <1>o, <2>1, <2>2 DEF InUse, Email
  <2>4. ~Blocked(o)'
    BY <1>o, <1>s, <2>1 DEF Blocked, Email
  <2> QED
    BY <2>3, <2>4
<1>2. ToldRight'
  <2> SUFFICES ASSUME NEW o \in Logins
               PROVE  /\ login'[o] = "refused" => InUse(o)'
                      /\ login'[o] \in {"counting", "caching", "served"} =>
                            told'[o] # Nobody /\ told'[o] = account'[UidOf[o]]
    BY DEF ToldRight
  <2>1. CASE o = l
    BY <1>o, <1>s, <2>1, LoginsAreSomebody
  <2>2. CASE o # l
    <3>1. InUse(o) => InUse(o)'
      BY <1>o DEF InUse, Email
    <3>2. UidOf[o] \in Uids
      BY LoginsAreSomebody
    <3> QED
      BY <1>o, <2>2, <3>1, <3>2 DEF AccountsInv, ToldRight
  <2> QED
    BY <2>1, <2>2
<1>3. OneAccountEach'
  <2>1. \A o \in Logins : login'[o] \in {"caching", "served"} => told'[o] = account'[UidOf[o]]
    BY <1>2 DEF ToldRight
  <2>2. \A u \in Uids : userCache'[u] \in {Nobody, account'[u]}
    BY <1>a, <1>b, <1>o DEF AccountsInv, OneAccountEach
  <2>3. ASSUME NEW u \in Uids, NEW v \in Uids, account'[u] # Nobody, account'[v] # Nobody,
               EmailOf[u] = EmailOf[v]
        PROVE  u = v
    <3>1. \A w \in Uids : account[w] # Nobody => EmailOf[w] # EmailOf[UidOf[l]]
      BY <1>b DEF InUse, Email
    <3> QED
      BY <1>o, <2>3, <3>1 DEF AccountsInv, OneAccountEach
  <2>4. \A o \in Logins : login'[o] = "conflict" =>
            \E u \in Uids \ {UidOf[o]} : account'[u] # Nobody /\ EmailOf[u] = Email(o)
    BY <1>o, <1>s DEF AccountsInv, OneAccountEach
  <2> QED
    BY <2>1, <2>2, <2>3, <2>4 DEF OneAccountEach, Email
<1> QED
  BY <1>t, <1>1, <1>2, <1>3 DEF AccountsInv

\* Steps of the cache alone.
LEMMA CacheStep ==
    ASSUME AccountsInv, UNCHANGED <<account, told, login>>,
           NEW u \in Uids, NEW a \in {Nobody, account[u]},
           userCache' = [userCache EXCEPT ![u] = a] \/ userCache' = userCache
    PROVE  AccountsInv'
<1>1. StoreTypes' /\ \A v \in Uids : userCache'[v] \in {Nobody, account'[v]}
  BY DEF AccountsInv, StoreTypes, OneAccountEach
<1> QED
  BY <1>1
  DEF AccountsInv, InsertedAlone, ToldRight, OneAccountEach, InUse, Blocked, Email

\* Each step keeps the invariant.
LEMMA AccountsInvIsKept == AccountsInv /\ [AccountsNext]_accountsVars => AccountsInv'
<1> SUFFICES ASSUME AccountsInv, [AccountsNext]_accountsVars PROVE AccountsInv'
  OBVIOUS
<1>1. ASSUME NEW l \in Logins, LookUpCache(l) PROVE AccountsInv'
  <2>1. UNCHANGED <<account, userCache>> /\ UidOf[l] \in Uids
    BY <1>1, LoginsAreSomebody DEF LookUpCache, storeVars
  <2>2. userCache[UidOf[l]] # Nobody =>
            userCache[UidOf[l]] \in Logins /\ userCache[UidOf[l]] = account[UidOf[l]]
    BY <2>1 DEF AccountsInv, StoreTypes, OneAccountEach
  <2>3. CASE /\ userCache[UidOf[l]] # Nobody
             /\ LoginAt(l, "new", "served") /\ GoesOnWith(l, userCache[UidOf[l]])
    <3>1. /\ login' = [login EXCEPT ![l] = "served"]
          /\ told' \in [Logins -> Logins \union {Nobody}]
          /\ told'[l] = userCache[UidOf[l]]
          /\ \A o \in Logins \ {l} : told'[o] = told[o]
      BY <2>2, <2>3 DEF LoginAt, GoesOnWith, AccountsInv, StoreTypes
    <3> QED
      BY <2>1, <2>2, <2>3, <3>1, AloneStep DEF Places
  <2>4. CASE LoginAt(l, "new", "missed") /\ UNCHANGED told
    <3>1. login' = [login EXCEPT ![l] = "missed"] /\ told' = told
      BY <2>4 DEF LoginAt
    <3> QED
      BY <2>1, <3>1, StandStep DEF Places
  <2> QED
    BY <1>1, <2>3, <2>4 DEF LookUpCache
<1>2. ASSUME NEW l \in Logins, FindUser(l) PROVE AccountsInv'
  <2>1. /\ UNCHANGED <<account, userCache>> /\ account[UidOf[l]] # Nobody
        /\ login' = [login EXCEPT ![l] = "caching"]
        /\ told' = [told EXCEPT ![l] = account[UidOf[l]]]
    BY <1>2 DEF FindUser, LoginAt, GoesOnWith, storeVars
  <2>2. account[UidOf[l]] \in Logins
    BY <2>1, LoginsAreSomebody DEF AccountsInv, StoreTypes
  <2>3. /\ told' \in [Logins -> Logins \union {Nobody}]
        /\ told'[l] = account[UidOf[l]]
        /\ \A o \in Logins \ {l} : told'[o] = told[o]
    BY <2>1, <2>2 DEF AccountsInv, StoreTypes
  <2> QED
    BY <2>1, <2>2, <2>3, AloneStep DEF Places
<1>3. ASSUME NEW l \in Logins, GiveUp(l) PROVE AccountsInv'
  <2>1. /\ account' = account /\ userCache' = userCache /\ told' = told
        /\ login[l] = "refused" /\ account[UidOf[l]] = Nobody
        /\ login' = [login EXCEPT ![l] = "conflict"]
    BY <1>3 DEF GiveUp, LoginAt, storeVars
  <2> QED
    BY <2>1, StandStep DEF Places
<1>4. ASSUME NEW l \in Logins, DecideBonus(l) PROVE AccountsInv'
  <2>1. UNCHANGED <<account, userCache, told>>
    BY <1>4 DEF DecideBonus, storeVars
  <2>2. PICK s \in {"checking", "inserting"} : login' = [login EXCEPT ![l] = s]
    BY <1>4 DEF DecideBonus, LoginAt
  <2> QED
    BY <2>1, <2>2, StandStep DEF Places
<1>5. ASSUME NEW l \in Logins, CheckCounter(l) PROVE AccountsInv'
  <2>1. UNCHANGED <<account, userCache, told>>
    BY <1>5 DEF CheckCounter, storeVars
  <2>2. PICK s \in {"checking", "inserting"} : login' = [login EXCEPT ![l] = s]
    BY <1>5 DEF CheckCounter, LoginAt
  <2> QED
    BY <2>1, <2>2, StandStep DEF Places
<1>6. ASSUME NEW l \in Logins, Insert(l) PROVE AccountsInv'
  <2>1. UNCHANGED <<account, userCache, told>> /\ ~Blocked(l)
    BY <1>6 DEF Insert, storeVars
  <2>2. CASE InUse(l)
    <3>1. login' = [login EXCEPT ![l] = "refused"]
      BY <1>6, <2>2 DEF Insert, LoginAt
    <3> QED
      BY <2>1, <2>2, <3>1, StandStep DEF Places
  <2>3. CASE ~InUse(l)
    <3>1. login' = [login EXCEPT ![l] = "inserted"]
      BY <1>6, <2>3 DEF Insert, LoginAt
    <3> QED
      BY <2>1, <2>3, <3>1, StandStep DEF Places
  <2> QED
    BY <2>2, <2>3
<1>7. ASSUME NEW l \in Logins, CommitAccount(l) PROVE AccountsInv'
  BY <1>7, CommitStep
<1>8. ASSUME NEW l \in Logins, CountBonus(l) PROVE AccountsInv'
  <2>1. UNCHANGED <<account, userCache, told>> /\ login[l] = "counting"
    BY <1>8 DEF CountBonus, LoginAt
  <2>2. PICK s \in {"counting", "caching"} : login' = [login EXCEPT ![l] = s]
    BY <1>8 DEF CountBonus, LoginAt
  <2>3. told[l] # Nobody /\ told[l] = account[UidOf[l]]
    BY <2>1 DEF AccountsInv, ToldRight
  <2> QED
    BY <2>1, <2>2, <2>3, StandStep DEF Places
<1>9. ASSUME NEW l \in Logins, CacheUser(l) PROVE AccountsInv'
  <2>1. /\ UNCHANGED <<account, told>> /\ login[l] = "caching"
        /\ login' = [login EXCEPT ![l] = "served"]
        /\ userCache' = [userCache EXCEPT ![UidOf[l]] = told[l]] \/ userCache' = userCache
    BY <1>9 DEF CacheUser, LoginAt
  <2>2. told[l] # Nobody /\ told[l] = account[UidOf[l]] /\ UidOf[l] \in Uids
    BY <2>1, LoginsAreSomebody DEF AccountsInv, ToldRight
  <2>3. /\ login'[l] = "served" /\ \A o \in Logins \ {l} : login'[o] = login[o]
        /\ \A v \in Uids : userCache'[v] \in {Nobody, account'[v]}
        /\ StoreTypes'
    BY <2>1, <2>2 DEF AccountsInv, StoreTypes, OneAccountEach, Places
  <2>4. InsertedAlone' /\ ToldRight'
    BY <2>1, <2>2, <2>3 DEF AccountsInv, InsertedAlone, ToldRight, InUse, Blocked, Email
  <2>5. OneAccountEach'
    BY <2>1, <2>2, <2>3 DEF AccountsInv, OneAccountEach, Email
  <2> QED
    BY <2>3, <2>4, <2>5 DEF AccountsInv
<1>10. ASSUME NEW l \in Logins, LoginFails(l) PROVE AccountsInv'
  <2>1. /\ account' = account /\ userCache' = userCache /\ told' = told
        /\ login' = [login EXCEPT ![l] = "failed"]
    BY <1>10 DEF LoginFails, storeVars
  <2> QED
    BY <2>1, StandStep DEF Places
<1>11. ASSUME NEW u \in Uids, UserCacheExpires(u) PROVE AccountsInv'
  BY <1>11, CacheStep DEF UserCacheExpires, requestVars
<1>12. CASE Midnight \/ UNCHANGED accountsVars
  <2>1. UNCHANGED <<account, told, login, userCache>>
    BY <1>12 DEF Midnight, accountsVars, requestVars, storeVars
  <2> QED
    BY <2>1
    DEF AccountsInv, StoreTypes, InsertedAlone, ToldRight, OneAccountEach, InUse, Blocked, Email
<1> QED
  BY <1>1, <1>2, <1>3, <1>4, <1>5, <1>6, <1>7, <1>8, <1>9, <1>10, <1>11, <1>12
  DEF AccountsNext

\* For any requests, users and addresses, with any outages: a request is
\* served as the one account of its user, and no two accounts share an
\* address (get_or_create_user).
THEOREM FirstRequestsAreSafe == AccountsSpec => []OneAccountEach
<1>1. AccountsInv => OneAccountEach
  BY DEF AccountsInv
<1> QED
  BY <1>1, AccountsInvHoldsAtFirst, AccountsInvIsKept, PTL DEF AccountsSpec
-----------------------------------------------------------------------------
(* The cap on bonuses.                                                     *)

KeysAre(l) == {KeysOf[l][i] : i \in DOMAIN KeysOf[l]}

\* Requests that go on with the reading of a counter.
ReadIt(k) ==
    {l \in Logins : eligible[l] /\
        \/ login[l] \in {"inserting", "inserted", "counting"}
        \/ login[l] = "checking" /\ \E i \in 1 .. keyNo[l] - 1 : KeysOf[l][i] = k}

\* The bonuses a counter of day d shows, and those it may come to show.
Passed(k, d) ==
    {l \in Logins : /\ k \in KeysAre(l) /\ readOn[l] = d
                    /\ <<l, k, d>> \in counted \/ l \in ReadIt(k)}

Slack == IF crowd = 0 THEN 0 ELSE crowd - 1

BonusTypes ==
    /\ eligible \in [Logins -> BOOLEAN]
    /\ keyNo \in [Logins -> Nat]
    /\ readOn \in [Logins -> Nat]
    /\ today \in Nat /\ crowd \in Nat
    /\ IsFiniteSet(counted)
    /\ \A c \in counted : c = <<c[1], c[2], c[3]>> /\ c[1] \in Logins

\* A request has read no counter before it decides, and has counted none
\* before its commit.
Stages ==
    \A l \in Logins :
        /\ login[l] \in {"new", "missed"} => keyNo[l] = 1
        /\ login[l] = "counting" => eligible[l] /\ UidOf[l] \in bonus
        /\ account[UidOf[l]] = l => login[l] \in {"counting", "caching", "served", "failed"}
        /\ (\E c \in counted : c[1] = l) =>
              UidOf[l] \in bonus /\ login[l] \in {"counting", "caching", "served", "failed"}

\* A reading below the cap lets in one more than is counted and than are
\* under way.
CapIsNear == \A k, d : Cardinality(Passed(k, d)) <= BonusCap + Slack

BonusInv == BonusTypes /\ Stages /\ CapIsNear

\* The numbers.
LEMMA CapIsNumber == BonusCap \in Nat /\ BonusCap > 0 /\ IsFiniteSet(Logins)
  BY AccountsAssumption

\* The bound holds at first.
LEMMA BonusInvHoldsAtFirst == AccountsInit => BonusInv
<1> SUFFICES ASSUME AccountsInit PROVE BonusInv
  OBVIOUS
<1>1. BonusTypes
  BY FS_EmptySet DEF AccountsInit, BonusTypes
<1>2. Stages
  <2> SUFFICES ASSUME NEW l \in Logins
               PROVE  login[l] = "new" /\ keyNo[l] = 1 /\ account[UidOf[l]] # l /\ counted = {}
    BY DEF Stages
  <2> QED
    BY LoginsAreSomebody DEF AccountsInit
<1>3. \A k, d : Passed(k, d) = {}
  BY DEF AccountsInit, Passed, ReadIt
<1>4. CapIsNear
  BY <1>3, FS_EmptySet, CapIsNumber DEF AccountsInit, CapIsNear, Slack
<1> QED
  BY <1>1, <1>2, <1>4 DEF BonusInv

\* Steps that let nobody pass leave the bound.
LEMMA NobodyPasses ==
    ASSUME BonusInv, BonusTypes', crowd' = crowd,
           \A k, d : Passed(k, d)' \subseteq Passed(k, d)
    PROVE  CapIsNear'
<1> SUFFICES ASSUME NEW k, NEW d PROVE Cardinality(Passed(k, d)') <= BonusCap + Slack'
  BY DEF CapIsNear
<1>1. IsFiniteSet(Passed(k, d)) /\ Passed(k, d)' \subseteq Passed(k, d)
  BY FS_Subset, CapIsNumber DEF Passed
<1>2. /\ Cardinality(Passed(k, d)') <= Cardinality(Passed(k, d))
      /\ Cardinality(Passed(k, d)') \in Nat /\ Cardinality(Passed(k, d)) \in Nat
  BY <1>1, FS_Subset, FS_CardinalityType
<1>3. Cardinality(Passed(k, d)) <= BonusCap + Slack /\ Slack' = Slack /\ Slack \in Nat
  BY DEF BonusInv, CapIsNear, Slack, BonusTypes
<1> QED
  BY <1>2, <1>3, CapIsNumber

\* A request that reads a counter below the cap: it and whoever has not
\* counted yet are the crowd.
LEMMA OnePasses ==
    ASSUME AccountsInv, BonusInv, NEW l \in Logins, CheckCounter(l)
    PROVE  CapIsNear'
<1>1. /\ login[l] = "checking" /\ login' = [login EXCEPT ![l] = IF LastKey(l) THEN "inserting" ELSE "checking"]
      /\ eligible' = [eligible EXCEPT ![l] = eligible[l] /\ UnderCap(Key(l), readOn[l])]
      /\ keyNo' = [keyNo EXCEPT ![l] = IF LastKey(l) THEN 1 ELSE keyNo[l] + 1]
      /\ UNCHANGED <<readOn, counted>>
      /\ crowd' = IF Cardinality(Open \union {l}) > crowd
                  THEN Cardinality(Open \union {l}) ELSE crowd
  BY DEF CheckCounter, LoginAt, NextKey, storeVars
<1>2. /\ keyNo[l] \in Nat /\ readOn' = readOn /\ counted' = counted
      /\ \A o \in Logins \ {l} : login'[o] = login[o] /\ eligible'[o] = eligible[o] /\ keyNo'[o] = keyNo[o]
      /\ eligible'[l] = (eligible[l] /\ UnderCap(Key(l), readOn[l]))
      /\ LastKey(l) => login'[l] = "inserting"
      /\ ~LastKey(l) => login'[l] = "checking" /\ keyNo'[l] = keyNo[l] + 1
  BY <1>1 DEF AccountsInv, StoreTypes, BonusInv, BonusTypes
<1>3. /\ IsFiniteSet(Open \union {l}) /\ Cardinality(Open \union {l}) \in Nat
      /\ Cardinality(Open \union {l}) >= 1 /\ crowd \in Nat
  <2>1. IsFiniteSet(Open)
    BY FS_Subset, CapIsNumber DEF Open
  <2>2. IsFiniteSet(Open \union {l})
    BY <2>1, FS_AddElement
  <2>3. Cardinality(Open \union {l}) \in Nat /\ Cardinality(Open \union {l}) # 0
    BY <2>2, FS_CardinalityType, FS_EmptySet
  <2> QED
    BY <2>2, <2>3 DEF BonusInv, BonusTypes
<1>4. /\ crowd' \in Nat /\ crowd' >= Cardinality(Open \union {l}) /\ crowd' >= crowd
      /\ Slack' = crowd' - 1 /\ Slack \in Nat /\ Slack' \in Nat
      /\ BonusCap + Slack \in Nat /\ BonusCap + Slack' \in Nat
      /\ BonusCap + Slack <= BonusCap + Slack'
  BY <1>1, <1>3, CapIsNumber DEF Slack
<1> SUFFICES ASSUME NEW k, NEW d PROVE Cardinality(Passed(k, d)') <= BonusCap + Slack'
  BY DEF CapIsNear
<1>5. \A o \in Logins \ {l} : o \in Passed(k, d)' => o \in Passed(k, d)
  BY <1>2 DEF Passed, ReadIt
<1>6. CASE l \notin Passed(k, d)' \/ l \in Passed(k, d)
  <2>1. Passed(k, d)' \subseteq Passed(k, d) /\ IsFiniteSet(Passed(k, d))
    BY <1>5, <1>6, FS_Subset, CapIsNumber DEF Passed
  <2>2. /\ Cardinality(Passed(k, d)') <= Cardinality(Passed(k, d))
        /\ Cardinality(Passed(k, d)') \in Nat /\ Cardinality(Passed(k, d)) \in Nat
    BY <2>1, FS_Subset, FS_CardinalityType
  <2>3. Cardinality(Passed(k, d)) <= BonusCap + Slack
    BY DEF BonusInv, CapIsNear
  <2> QED
    BY <1>4, <2>2, <2>3
<1>7. CASE l \in Passed(k, d)' /\ l \notin Passed(k, d)
  <2>1. k = Key(l) /\ readOn[l] = d /\ eligible'[l]
    <3>1. /\ k \in KeysAre(l) /\ readOn[l] = d /\ l \in ReadIt(k)' /\ l \notin ReadIt(k)
      BY <1>2, <1>7 DEF Passed
    <3>2. eligible'[l] /\ eligible[l]
      BY <1>2, <3>1 DEF ReadIt
    <3>3. \A i \in 1 .. keyNo[l] - 1 : KeysOf[l][i] # k
      BY <1>1, <3>1, <3>2 DEF ReadIt
    <3>4. CASE LastKey(l)
      <4>1. PICK i \in DOMAIN KeysOf[l] : k = KeysOf[l][i]
        BY <3>1 DEF KeysAre
      <4>2. DOMAIN KeysOf[l] = 1 .. keyNo[l]
        BY <1>2, <3>4, AccountsAssumption, LenProperties DEF LastKey
      <4>3. i = keyNo[l]
        BY <1>2, <3>3, <4>1, <4>2
      <4> QED
        BY <3>1, <3>2, <4>1, <4>3 DEF Key
    <3>5. CASE ~LastKey(l)
      <4>1. PICK i \in 1 .. keyNo'[l] - 1 : KeysOf[l][i] = k
        BY <1>2, <3>1, <3>5 DEF ReadIt
      <4>2. i = keyNo[l]
        BY <1>2, <3>3, <3>5, <4>1
      <4> QED
        BY <3>1, <3>2, <4>1, <4>2 DEF Key
    <3> QED
      BY <3>4, <3>5
  <2> DEFINE C == {c \in counted : c[2] = k /\ c[3] = d}
             T == {o \in Logins : <<o, k, d>> \in counted}
  <2>2. IsFiniteSet(C) /\ Cardinality(C) \in Nat /\ Cardinality(C) < BonusCap
    <3>1. IsFiniteSet(C)
      BY FS_Subset DEF BonusInv, BonusTypes
    <3>2. Cardinality(C) < BonusCap
      BY <1>2, <2>1 DEF UnderCap, Count
    <3> QED
      BY <3>1, <3>2, FS_CardinalityType
  <2>3. IsFiniteSet(T) /\ Cardinality(T) <= Cardinality(C) /\ Cardinality(T) \in Nat
    <3> DEFINE f == [o \in T |-> <<o, k, d>>]
    <3>1. f \in Injection(T, C)
      BY DEF Injection, IsInjective
    <3>2. IsFiniteSet(T) /\ Cardinality(T) <= Cardinality(C)
      BY <2>2, <3>1, FS_Injection
    <3> QED
      BY <3>2, FS_CardinalityType
  <2> HIDE DEF C, T
  <2>4. Passed(k, d)' \subseteq T \union (Open \union {l})
    <3> SUFFICES ASSUME NEW o \in Passed(k, d)', o \notin T, o # l
                 PROVE  o \in Open
      OBVIOUS
    <3>1. o \in Logins /\ o \in ReadIt(k)
      BY <1>2, <1>5 DEF Passed, T
    <3>2. keyNo[o] \in Nat /\ \A i \in 1 .. keyNo[o] - 1 : keyNo[o] > 1
      BY <3>1 DEF BonusInv, BonusTypes
    <3> QED
      BY <3>1, <3>2 DEF ReadIt, Open
  <2>5. /\ IsFiniteSet(T \union (Open \union {l}))
        /\ Cardinality(T \union (Open \union {l})) <= Cardinality(T) + Cardinality(Open \union {l})
    <3> DEFINE X == Open \union {l}
    <3>1. IsFiniteSet(T) /\ IsFiniteSet(X) /\ Cardinality(T) \in Nat /\ Cardinality(X) \in Nat
      BY <1>3, <2>3
    <3> HIDE DEF X
    <3>2. /\ IsFiniteSet(T \union X)
          /\ Cardinality(T \union X) = Cardinality(T) + Cardinality(X) - Cardinality(T \cap X)
      BY <3>1, FS_Union
    <3>3. Cardinality(T \cap X) \in Nat
      BY <3>1, FS_Subset, FS_CardinalityType
    <3>4. Cardinality(T \union X) <= Cardinality(T) + Cardinality(X)
      BY <3>1, <3>2, <3>3
    <3> QED
      BY <3>2, <3>4 DEF X
  <2>6. /\ Cardinality(Passed(k, d)') <= Cardinality(T \union (Open \union {l}))
        /\ Cardinality(Passed(k, d)') \in Nat /\ Cardinality(T \union (Open \union {l})) \in Nat
    BY <2>4, <2>5, FS_Subset, FS_CardinalityType
  <2> QED
    BY <1>3, <1>4, <2>2, <2>3, <2>5, <2>6, CapIsNumber
<1> QED
  BY <1>6, <1>7

\* A request that moves on without reading, counting or committing.
LEMMA StageMoves ==
    ASSUME AccountsInv, BonusInv, NEW l \in Logins,
           NEW s \in Places \ {"new", "checking", "counting"},
           login' = [login EXCEPT ![l] = s],
           UNCHANGED <<eligible, keyNo, readOn, counted, account, bonus, today, crowd>>,
           s = "missed" => login[l] = "new",
           s \in {"inserting", "inserted"} => login[l] \in {"inserting", "inserted"},
           login[l] \in {"counting", "caching", "served", "failed"} =>
               s \in {"caching", "served", "failed"}
    PROVE  BonusInv'
<1>1. /\ login'[l] = s /\ \A o \in Logins \ {l} : login'[o] = login[o]
      /\ eligible' = eligible /\ keyNo' = keyNo /\ readOn' = readOn /\ counted' = counted
      /\ account' = account /\ bonus' = bonus /\ today' = today /\ crowd' = crowd
  BY DEF AccountsInv, StoreTypes
<1>2. BonusTypes'
  BY <1>1 DEF BonusInv, BonusTypes
<1>3. Stages'
  BY <1>1 DEF BonusInv, Stages
<1>4. \A k, d : Passed(k, d)' \subseteq Passed(k, d)
  BY <1>1 DEF Passed, ReadIt
<1> QED
  BY <1>1, <1>2, <1>3, <1>4, NobodyPasses DEF BonusInv

\* The request has read nothing yet and has been counted nowhere.
LEMMA DecideKeepsBound ==
    ASSUME AccountsInv, BonusInv, NEW l \in Logins, DecideBonus(l)
    PROVE  BonusInv'
<1> DEFINE asks == KeysOf[l] # <<>> /\ UidOf[l] \notin Throwaway
<1>1. /\ login[l] = "missed"
      /\ login' = [login EXCEPT ![l] = IF asks THEN "checking" ELSE "inserting"]
      /\ eligible' = [eligible EXCEPT ![l] = asks] /\ readOn' = [readOn EXCEPT ![l] = today]
      /\ UNCHANGED <<keyNo, counted, account, bonus, today, crowd>>
  BY DEF DecideBonus, LoginAt, storeVars
<1>2. asks \in BOOLEAN
  OBVIOUS
<1> HIDE DEF asks
<1>3. /\ \A o \in Logins \ {l} : login'[o] = login[o] /\ eligible'[o] = eligible[o] /\ readOn'[o] = readOn[o]
      /\ login'[l] = IF asks THEN "checking" ELSE "inserting"
      /\ eligible'[l] = asks /\ keyNo[l] = 1 /\ \A c \in counted : c[1] # l
      /\ account[UidOf[l]] # l
      /\ keyNo' = keyNo /\ counted' = counted /\ account' = account /\ bonus' = bonus /\ crowd' = crowd
  BY <1>1 DEF AccountsInv, StoreTypes, BonusInv, BonusTypes, Stages
<1>4. BonusTypes'
  BY <1>1, <1>2 DEF BonusInv, BonusTypes
<1>5. Stages'
  BY <1>3 DEF BonusInv, Stages
<1>6. ASSUME NEW k, NEW d PROVE Passed(k, d)' \subseteq Passed(k, d)
  <2>1. l \notin ReadIt(k)'
    <3>1. \A i \in 1 .. keyNo'[l] - 1 : FALSE
      BY <1>3
    <3> QED
      BY <1>3, <3>1 DEF ReadIt
  <2>2. <<l, k, d>> \notin counted'
    BY <1>3
  <2> QED
    BY <1>3, <2>1, <2>2 DEF Passed, ReadIt
<1> QED
  BY <1>3, <1>4, <1>5, <1>6, NobodyPasses DEF BonusInv

\* Reading a counter.
LEMMA CheckKeepsBound ==
    ASSUME AccountsInv, BonusInv, NEW l \in Logins, CheckCounter(l)
    PROVE  BonusInv'
<1>1. /\ login[l] = "checking" /\ login' = [login EXCEPT ![l] = IF LastKey(l) THEN "inserting" ELSE "checking"]
      /\ eligible' = [eligible EXCEPT ![l] = eligible[l] /\ UnderCap(Key(l), readOn[l])]
      /\ keyNo' = [keyNo EXCEPT ![l] = IF LastKey(l) THEN 1 ELSE keyNo[l] + 1]
      /\ crowd' = IF Cardinality(Open \union {l}) > crowd
                  THEN Cardinality(Open \union {l}) ELSE crowd
      /\ UNCHANGED <<readOn, counted, account, bonus, today>>
  BY DEF CheckCounter, LoginAt, NextKey, storeVars
<1>2. /\ \A o \in Logins \ {l} : login'[o] = login[o] /\ eligible'[o] = eligible[o] /\ keyNo'[o] = keyNo[o]
      /\ login'[l] \in {"inserting", "checking"}
      /\ counted' = counted /\ account' = account /\ bonus' = bonus
  BY <1>1 DEF AccountsInv, StoreTypes, BonusInv, BonusTypes
<1>3. BonusTypes'
  <2>1. Cardinality(Open \union {l}) \in Nat
    BY FS_Subset, FS_AddElement, FS_CardinalityType, CapIsNumber DEF Open
  <2>2. UnderCap(Key(l), readOn[l]) \in BOOLEAN
    BY DEF UnderCap
  <2> QED
    BY <1>1, <2>1, <2>2 DEF BonusInv, BonusTypes
<1>4. Stages'
  BY <1>1, <1>2 DEF BonusInv, Stages
<1> QED
  BY <1>3, <1>4, OnePasses DEF BonusInv

\* A commit, with or without the bonus.
LEMMA CommitKeepsBound ==
    ASSUME AccountsInv, BonusInv, NEW l \in Logins, CommitAccount(l)
    PROVE  BonusInv'
<1>1. /\ login[l] = "inserted" /\ login' = [login EXCEPT ![l] = IF eligible[l] THEN "counting" ELSE "caching"]
      /\ account' = [account EXCEPT ![UidOf[l]] = l]
      /\ bonus' = IF eligible[l] THEN bonus \union {UidOf[l]} ELSE bonus
      /\ UNCHANGED <<eligible, keyNo, readOn, counted, today, crowd>>
  BY DEF CommitAccount, LoginAt
<1>2. /\ \A o \in Logins \ {l} : login'[o] = login[o]
      /\ login'[l] = IF eligible[l] THEN "counting" ELSE "caching"
      /\ \A o \in Logins \ {l} : account'[UidOf[o]] = o => account[UidOf[o]] = o
      /\ eligible' = eligible /\ keyNo' = keyNo /\ readOn' = readOn /\ counted' = counted
      /\ bonus \subseteq bonus' /\ (eligible[l] => UidOf[l] \in bonus') /\ crowd' = crowd
  BY <1>1, LoginsAreSomebody DEF AccountsInv, StoreTypes
<1>3. BonusTypes'
  BY <1>1 DEF BonusInv, BonusTypes
<1>4. Stages'
  BY <1>1, <1>2 DEF BonusInv, Stages
<1>5. \A k, d : Passed(k, d)' \subseteq Passed(k, d)
  BY <1>1, <1>2 DEF Passed, ReadIt
<1> QED
  BY <1>2, <1>3, <1>4, <1>5, NobodyPasses DEF BonusInv

\* A count on a day that need not be the one the counter was read on.
LEMMA CountKeepsBound ==
    ASSUME AccountsInv, BonusInv, NEW l \in Logins, CountBonus(l)
    PROVE  BonusInv'
<1>1. /\ login[l] = "counting" /\ login' = [login EXCEPT ![l] = IF LastKey(l) THEN "caching" ELSE "counting"]
      /\ counted' = counted \union {<<l, Key(l), today>>}
      /\ keyNo' = [keyNo EXCEPT ![l] = IF LastKey(l) THEN 1 ELSE keyNo[l] + 1]
      /\ UNCHANGED <<eligible, readOn, account, bonus, today, crowd>>
  BY DEF CountBonus, LoginAt, NextKey
<1>2. /\ \A o \in Logins \ {l} : login'[o] = login[o] /\ keyNo'[o] = keyNo[o]
      /\ login'[l] \in {"caching", "counting"} /\ eligible[l] /\ UidOf[l] \in bonus
      /\ eligible' = eligible /\ readOn' = readOn /\ account' = account /\ bonus' = bonus
      /\ crowd' = crowd
  BY <1>1 DEF AccountsInv, StoreTypes, BonusInv, BonusTypes, Stages
<1>3. \A c \in counted' : c \in counted \/ (c[1] = l /\ c = <<c[1], c[2], c[3]>>)
  BY <1>1
<1>4. BonusTypes'
  <2>1. IsFiniteSet(counted')
    BY <1>1, FS_AddElement DEF BonusInv, BonusTypes
  <2>2. \A c \in counted' : c = <<c[1], c[2], c[3]>> /\ c[1] \in Logins
    BY <1>3 DEF BonusInv, BonusTypes
  <2>3. keyNo' \in [Logins -> Nat]
    BY <1>1 DEF BonusInv, BonusTypes
  <2> QED
    BY <1>1, <2>1, <2>2, <2>3 DEF BonusInv, BonusTypes
<1>5. Stages'
  BY <1>1, <1>2, <1>3 DEF BonusInv, Stages
<1>6. ASSUME NEW k, NEW d PROVE Passed(k, d)' \subseteq Passed(k, d)
  <2>1. l \in ReadIt(k)
    BY <1>1, <1>2 DEF ReadIt
  <2>2. \A o \in Logins \ {l} : <<o, k, d>> \in counted' => <<o, k, d>> \in counted
    BY <1>1
  <2> QED
    BY <1>2, <2>1, <2>2 DEF Passed, ReadIt
<1> QED
  BY <1>2, <1>4, <1>5, <1>6, NobodyPasses DEF BonusInv

\* Each step keeps the bound.
LEMMA BonusInvIsKept == AccountsInv /\ BonusInv /\ [AccountsNext]_accountsVars => BonusInv'
<1> SUFFICES ASSUME AccountsInv, BonusInv, [AccountsNext]_accountsVars PROVE BonusInv'
  OBVIOUS
<1>1. ASSUME NEW l \in Logins,
             \/ LookUpCache(l) \/ FindUser(l) \/ GiveUp(l)
             \/ Insert(l) \/ CacheUser(l) \/ LoginFails(l)
      PROVE  BonusInv'
  <2>1. UNCHANGED <<eligible, keyNo, readOn, counted, account, bonus, today, crowd>>
    BY <1>1 DEF LookUpCache, FindUser, GiveUp, Insert, CacheUser, LoginFails, storeVars
  <2>2. PICK s \in Places \ {"new", "checking", "counting"} :
            /\ login' = [login EXCEPT ![l] = s]
            /\ s = "missed" => login[l] = "new"
            /\ s \in {"inserting", "inserted"} => login[l] \in {"inserting", "inserted"}
            /\ login[l] \in {"counting", "caching", "served", "failed"} =>
                  s \in {"caching", "served", "failed"}
    BY <1>1 DEF LookUpCache, FindUser, GiveUp, Insert, CacheUser, LoginFails, LoginAt, Places
  <2> QED
    BY <2>1, <2>2, StageMoves
<1>2. ASSUME NEW l \in Logins, DecideBonus(l) PROVE BonusInv'
  BY <1>2, DecideKeepsBound
<1>3. ASSUME NEW l \in Logins, CheckCounter(l) PROVE BonusInv'
  BY <1>3, CheckKeepsBound
<1>4. ASSUME NEW l \in Logins, CommitAccount(l) PROVE BonusInv'
  BY <1>4, CommitKeepsBound
<1>5. ASSUME NEW l \in Logins, CountBonus(l) PROVE BonusInv'
  BY <1>5, CountKeepsBound
<1>6. CASE (\E u \in Uids : UserCacheExpires(u)) \/ Midnight \/ UNCHANGED accountsVars
  <2>1. /\ UNCHANGED <<login, eligible, keyNo, readOn, counted, account, bonus, crowd>>
        /\ today' \in Nat
    BY <1>6 DEF UserCacheExpires, Midnight, accountsVars, requestVars, storeVars, BonusInv, BonusTypes
  <2>2. BonusTypes'
    BY <2>1 DEF BonusInv, BonusTypes
  <2>3. Stages'
    BY <2>1 DEF BonusInv, Stages
  <2>4. crowd' = crowd /\ \A k, d : Passed(k, d)' \subseteq Passed(k, d)
    BY <2>1 DEF Passed, ReadIt
  <2> QED
    BY <2>2, <2>3, <2>4, NobodyPasses DEF BonusInv
<1> QED
  BY <1>1, <1>2, <1>3, <1>4, <1>5, <1>6 DEF AccountsNext

\* The bound on the bonuses a counter may come to show bounds those that
\* were granted.
LEMMA GrantedHadPassed == AccountsInv /\ BonusInv => CapUpToRaces
<1> SUFFICES ASSUME AccountsInv, BonusInv PROVE CapUpToRaces
  OBVIOUS
<1>1. \A l \in Logins : \A k, d : <<l, k, d>> \in counted => UidOf[l] \in bonus
  BY DEF BonusInv, Stages
<1>2. ASSUME NEW k, NEW d
      PROVE  Cardinality(Bonused(k, d)) <= BonusCap + Slack
  <2>1. Bonused(k, d) \subseteq Passed(k, d)
    BY DEF Bonused, Passed, KeysAre, Open, ReadIt, BonusInv, Stages
  <2>2. IsFiniteSet(Passed(k, d))
    BY FS_Subset, CapIsNumber DEF Passed
  <2>3. /\ Cardinality(Bonused(k, d)) <= Cardinality(Passed(k, d))
        /\ Cardinality(Bonused(k, d)) \in Nat /\ Cardinality(Passed(k, d)) \in Nat
    BY <2>1, <2>2, FS_Subset, FS_CardinalityType
  <2>4. Cardinality(Passed(k, d)) <= BonusCap + Slack /\ BonusCap + Slack \in Nat
    BY CapIsNumber DEF BonusInv, BonusTypes, CapIsNear, Slack
  <2> QED
    BY <2>3, <2>4
<1> QED
  BY <1>1, <1>2 DEF CapUpToRaces, Slack

\* For any requests, counters, cap and days, with any outages: a counter
\* shows, or may come to show, no more bonuses than the cap and the requests
\* beside the first that were between reading and counting at once
\* (should_grant_signup_bonus, record_signup_bonus_grant).
THEOREM BonusesAreCapped == AccountsSpec => []CapUpToRaces
  BY GrantedHadPassed, AccountsInvHoldsAtFirst, AccountsInvIsKept,
     BonusInvHoldsAtFirst, BonusInvIsKept, PTL DEF AccountsSpec

\* The rest of the types, and that a request with counters to read or to
\* increment has some.
RestOfAccounts ==
    /\ bonus \subseteq Uids
    /\ readOn \in [Logins -> 0 .. LastDay] /\ today \in 0 .. LastDay
    /\ \A l \in Logins :
          /\ keyNo[l] \in 1 .. Len(KeysOf[l]) \union {1}
          /\ login[l] = "checking" \/ eligible[l] => Len(KeysOf[l]) > 0

\* The next counter of a request is one of its counters.
LEMMA NextKeyIsAKey ==
    ASSUME RestOfAccounts, BonusTypes, NEW l \in Logins, Len(KeysOf[l]) > 0, NextKey(l)
    PROVE  \A o \in Logins : keyNo'[o] \in 1 .. Len(KeysOf[o]) \union {1}
<1>1. Len(KeysOf[l]) \in Nat
  BY AccountsAssumption
<1>2. keyNo'[l] \in 1 .. Len(KeysOf[l]) \union {1}
  BY <1>1 DEF NextKey, LastKey, RestOfAccounts, BonusTypes
<1>3. \A o \in Logins \ {l} : keyNo'[o] = keyNo[o]
  BY DEF NextKey, BonusTypes
<1> QED
  BY <1>2, <1>3 DEF RestOfAccounts

\* No step breaks them.
LEMMA RestOfAccountsIsKept ==
    AccountsInv /\ BonusInv /\ RestOfAccounts /\ [AccountsNext]_accountsVars => RestOfAccounts'
<1> SUFFICES ASSUME AccountsInv, BonusInv, RestOfAccounts, [AccountsNext]_accountsVars
             PROVE  RestOfAccounts'
  OBVIOUS
<1>0. /\ login \in [Logins -> Places] /\ eligible \in [Logins -> BOOLEAN]
      /\ \A l \in Logins : login[l] = "counting" => eligible[l]
      /\ \A l \in Logins : UidOf[l] \in Uids /\ Len(KeysOf[l]) \in Nat
      /\ BonusTypes
  BY AccountsAssumption DEF AccountsInv, StoreTypes, BonusInv, BonusTypes, Stages
<1>1. ASSUME NEW l \in Logins,
             LookUpCache(l) \/ FindUser(l) \/ GiveUp(l) \/ Insert(l) \/ CacheUser(l)
                \/ LoginFails(l)
      PROVE  RestOfAccounts'
  <2>1. UNCHANGED <<eligible, keyNo, readOn, bonus, today>>
    BY <1>1 DEF LookUpCache, FindUser, GiveUp, Insert, CacheUser, LoginFails, storeVars
  <2>2. \A o \in Logins : login'[o] = "checking" => login[o] = "checking"
    BY <1>0, <1>1
    DEF LookUpCache, FindUser, GiveUp, Insert, CacheUser, LoginFails, LoginAt
  <2> QED
    BY <2>1, <2>2 DEF RestOfAccounts
<1>2. ASSUME NEW l \in Logins, DecideBonus(l) PROVE RestOfAccounts'
  <2> DEFINE asks == KeysOf[l] # <<>> /\ UidOf[l] \notin Throwaway
  <2>1. /\ login' = [login EXCEPT ![l] = IF asks THEN "checking" ELSE "inserting"]
        /\ eligible' = [eligible EXCEPT ![l] = asks]
        /\ readOn' = [readOn EXCEPT ![l] = today]
        /\ UNCHANGED <<keyNo, bonus, today>>
    BY <1>2 DEF DecideBonus, LoginAt, storeVars
  <2>2. asks => Len(KeysOf[l]) > 0
    BY AccountsAssumption
  <2> HIDE DEF asks
  <2>3. \A o \in Logins : login'[o] = "checking" \/ eligible'[o] => Len(KeysOf[o]) > 0
    BY <1>0, <2>1, <2>2 DEF RestOfAccounts
  <2>4. readOn' \in [Logins -> 0 .. LastDay]
    BY <2>1 DEF RestOfAccounts
  <2> QED
    BY <2>1, <2>3, <2>4 DEF RestOfAccounts
<1>3. ASSUME NEW l \in Logins, CheckCounter(l) PROVE RestOfAccounts'
  <2>1. /\ login[l] = "checking" /\ NextKey(l)
        /\ login' = [login EXCEPT ![l] = IF LastKey(l) THEN "inserting" ELSE "checking"]
        /\ eligible' = [eligible EXCEPT ![l] = @ /\ UnderCap(Key(l), readOn[l])]
        /\ UNCHANGED <<readOn, bonus, today>>
    BY <1>3 DEF CheckCounter, LoginAt, storeVars
  <2>2. \A o \in Logins : keyNo'[o] \in 1 .. Len(KeysOf[o]) \union {1}
    BY <1>0, <2>1, NextKeyIsAKey DEF RestOfAccounts
  <2>3. \A o \in Logins : login'[o] = "checking" \/ eligible'[o] => Len(KeysOf[o]) > 0
    BY <1>0, <2>1 DEF RestOfAccounts
  <2> QED
    BY <2>1, <2>2, <2>3 DEF RestOfAccounts
<1>4. ASSUME NEW l \in Logins, CommitAccount(l) PROVE RestOfAccounts'
  <2>1. /\ login' = [login EXCEPT ![l] = IF eligible[l] THEN "counting" ELSE "caching"]
        /\ bonus' = IF eligible[l] THEN bonus \union {UidOf[l]} ELSE bonus
        /\ UNCHANGED <<eligible, keyNo, readOn, today>>
    BY <1>4 DEF CommitAccount, LoginAt
  <2> QED
    BY <1>0, <2>1 DEF RestOfAccounts
<1>5. ASSUME NEW l \in Logins, CountBonus(l) PROVE RestOfAccounts'
  <2>1. /\ login[l] = "counting" /\ NextKey(l)
        /\ login' = [login EXCEPT ![l] = IF LastKey(l) THEN "caching" ELSE "counting"]
        /\ UNCHANGED <<eligible, readOn, bonus, today>>
    BY <1>5 DEF CountBonus, LoginAt
  <2>2. \A o \in Logins : keyNo'[o] \in 1 .. Len(KeysOf[o]) \union {1}
    BY <1>0, <2>1, NextKeyIsAKey DEF RestOfAccounts
  <2> QED
    BY <1>0, <2>1, <2>2 DEF RestOfAccounts
<1>6. CASE (\E u \in Uids : UserCacheExpires(u)) \/ Midnight \/ UNCHANGED accountsVars
  <2>1. /\ UNCHANGED <<login, eligible, keyNo, readOn, bonus>>
        /\ today' \in 0 .. LastDay
    BY <1>6, AccountsAssumption
    DEF UserCacheExpires, Midnight, accountsVars, requestVars, storeVars, RestOfAccounts
  <2> QED
    BY <2>1 DEF RestOfAccounts
<1> QED
  BY <1>1, <1>2, <1>3, <1>4, <1>5, <1>6 DEF AccountsNext

\* AccountsTypeOK, for any requests, counters and days: a request always
\* stands at one of its own counters.
THEOREM AccountsAreTyped == AccountsSpec => []AccountsTypeOK
<1>1. AccountsInit => RestOfAccounts
  BY AccountsAssumption DEF AccountsInit, RestOfAccounts
<1>2. AccountsInv /\ BonusInv /\ RestOfAccounts => AccountsTypeOK
  BY DEF AccountsInv, StoreTypes, Places, BonusInv, BonusTypes, RestOfAccounts, AccountsTypeOK
<1> QED
  BY <1>1, <1>2, AccountsInvHoldsAtFirst, AccountsInvIsKept, BonusInvHoldsAtFirst,
     BonusInvIsKept, RestOfAccountsIsKept, PTL DEF AccountsSpec
-----------------------------------------------------------------------------
(* Rows edited by hand and their caches.                                   *)

Values == [old : Int, there : BOOLEAN]
Entries == [kept : BOOLEAN, age : Nat, value : Values]
Readings == [at : {"new", "missed", "storing", "done"}, age : Nat, value : Values]

\* The types of the records.
RecordTypes ==
    /\ rowThere \in BOOLEAN
    /\ entry \in [Caches -> Entries]
    /\ reader \in [Readers -> Readings]
    /\ \A r \in Readers : reader[r].age <= Span

\* What a request has read was current when it began at the earliest.
ReadLately ==
    \A r \in Readers : reader[r].at = "storing" => reader[r].value.old <= reader[r].age

\* What a cache holds.
KeptFresh ==
    \A c \in Caches : entry[c].kept =>
        /\ entry[c].age + 1 <= TTLOf[c]
        /\ entry[c].value.old <= entry[c].age + Span

\* The inductive invariant.
CatalogueInv == RecordTypes /\ ReadLately /\ KeptFresh /\ StaleIsBounded
-----------------------------------------------------------------------------
\* The assumptions in the form the steps use them.
LEMMA TimesAreNumbers ==
    /\ Span \in Nat
    /\ \A c \in Caches : TTLOf[c] \in Nat /\ TTLOf[c] >= 1
    /\ \A r \in Readers : ReaderOf[r] \in Caches
  BY CatalogueAssumption

\* The records a cache and a request start with.
LEMMA FirstRecords == Idle \in Readings /\ NoEntry \in Entries /\ Current \in Int
  BY DEF Idle, NoEntry, Value, Current, Readings, Entries, Values

\* A request gets on, and nobody else does.
LEMMA ReaderMoves ==
    ASSUME CatalogueInv, NEW r \in Readers, NEW from,
           NEW to \in {"missed", "storing", "done"}, NEW v \in Values,
           ReaderGoes(r, from, to, v), rowThere' = rowThere, entry' = entry,
           to = "storing" => v.old <= reader[r].age,
           to = "done" => v.old <= TTLOf[Cache(r)] + Span - 1
    PROVE  CatalogueInv'
<1>1. reader' = [reader EXCEPT ![r] = [@ EXCEPT !.at = to, !.value = v]]
  BY DEF ReaderGoes
<1>2. /\ reader' \in [Readers -> Readings]
      /\ reader'[r].at = to /\ reader'[r].value = v /\ reader'[r].age = reader[r].age
      /\ \A q \in Readers \ {r} : reader'[q] = reader[q]
  BY <1>1 DEF CatalogueInv, RecordTypes, Readings
<1>3. RecordTypes'
  BY <1>2 DEF CatalogueInv, RecordTypes
<1>4. ReadLately'
  BY <1>2 DEF CatalogueInv, ReadLately
<1>5. KeptFresh'
  BY DEF CatalogueInv, KeptFresh
<1>6. StaleIsBounded'
  BY <1>2 DEF CatalogueInv, StaleIsBounded, Cache
<1> QED
  BY <1>3, <1>4, <1>5, <1>6 DEF CatalogueInv

\* Records with another age and another value.
AgedEntry(e, n, v) == [e EXCEPT !.age = n, !.value = v]
AgedReading(q, n, v) == [q EXCEPT !.age = n, !.value = v]

\* They are records of the same kind.
LEMMA LaterRecords ==
    ASSUME NEW n \in Nat, NEW v \in Values
    PROVE  /\ \A e \in Entries :
                 /\ AgedEntry(e, n, v) \in Entries /\ AgedEntry(e, n, v).kept = e.kept
                 /\ AgedEntry(e, n, v).age = n /\ AgedEntry(e, n, v).value = v
           /\ \A q \in Readings :
                 /\ AgedReading(q, n, v) \in Readings /\ AgedReading(q, n, v).at = q.at
                 /\ AgedReading(q, n, v).age = n /\ AgedReading(q, n, v).value = v
  BY DEF Entries, Readings, AgedEntry, AgedReading

\* The clock.
LEMMA TickKeepsCatalogue ==
    ASSUME CatalogueInv, CatalogueTick
    PROVE  CatalogueInv'
<1>1. ASSUME NEW c \in Caches
      PROVE  /\ entry'[c] \in Entries
             /\ entry'[c].kept => /\ entry'[c].age + 1 <= TTLOf[c]
                                  /\ entry'[c].value.old <= entry'[c].age + Span
  <2>1. entry'[c] = Aged(c, entry[c]) /\ entry[c] \in Entries
    BY DEF CatalogueTick, CatalogueInv, RecordTypes
  <2>2. CASE ~entry[c].kept \/ entry[c].age + 1 >= TTLOf[c]
    BY <2>1, <2>2, FirstRecords DEF Aged, NoEntry
  <2>3. CASE entry[c].kept /\ entry[c].age + 1 < TTLOf[c]
    <3>1. entry'[c] = [entry[c] EXCEPT !.age = @ + 1, !.value = Older(@)]
      BY <2>1, <2>3, TimesAreNumbers DEF Aged, Entries
    <3>2. Older(entry[c].value) \in Values
          /\ Older(entry[c].value).old <= entry[c].age + 1 + Span
      BY <2>1, <2>3, TimesAreNumbers
      DEF Older, Current, Entries, Values, CatalogueInv, KeptFresh
    <3>3. entry[c].age + 1 \in Nat
      BY <2>1 DEF Entries
    <3>4. /\ entry'[c].kept /\ entry'[c].age = entry[c].age + 1
          /\ entry'[c].value = Older(entry[c].value) /\ entry'[c] \in Entries
      <4>1. entry'[c] = AgedEntry(entry[c], entry[c].age + 1, Older(entry[c].value))
        BY <3>1 DEF AgedEntry
      <4>2. entry[c] \in Entries /\ Older(entry[c].value) \in Values
        BY <2>1, <3>2
      <4> QED
        BY <2>3, <3>3, <4>1, <4>2, LaterRecords
    <3>5. entry[c].age + 1 + 1 <= TTLOf[c]
      BY <2>1, <2>3, TimesAreNumbers DEF Entries
    <3> QED
      BY <3>2, <3>4, <3>5
  <2> QED
    BY <2>1, <2>2, <2>3, TimesAreNumbers DEF Entries
<1>2. ASSUME NEW r \in Readers
      PROVE  /\ reader'[r] \in Readings /\ reader'[r].age <= Span
             /\ reader'[r].at = "storing" => reader'[r].value.old <= reader'[r].age
             /\ reader'[r].at # "done"
  <2>1. /\ reader[r] \in Readings
        /\ reader'[r] = IF Underway(r)
                        THEN [reader[r] EXCEPT !.age = @ + 1, !.value = Older(@)]
                        ELSE Idle
        /\ Underway(r) => reader[r].age < Span
    BY DEF CatalogueTick, CatalogueInv, RecordTypes
  <2>2. CASE ~Underway(r)
    BY <2>1, <2>2, FirstRecords, TimesAreNumbers DEF Idle
  <2>3. CASE Underway(r)
    <3>1. /\ Older(reader[r].value) \in Values
          /\ reader[r].at = "storing" => Older(reader[r].value).old <= reader[r].age + 1
      BY <2>1 DEF Older, Current, Readings, Values, CatalogueInv, ReadLately
    <3>2. reader[r].age + 1 \in Nat
      BY <2>1 DEF Readings
    <3>3. /\ reader'[r].at = reader[r].at /\ reader'[r].age = reader[r].age + 1
          /\ reader'[r].value = Older(reader[r].value) /\ reader'[r] \in Readings
      <4>1. reader'[r] = AgedReading(reader[r], reader[r].age + 1, Older(reader[r].value))
        BY <2>1, <2>3 DEF AgedReading
      <4>2. reader[r] \in Readings /\ Older(reader[r].value) \in Values
        BY <2>1, <3>1
      <4> QED
        BY <3>2, <4>1, <4>2, LaterRecords
    <3>4. reader[r].age + 1 <= Span
      BY <2>1, <2>3, TimesAreNumbers DEF Readings
    <3> QED
      BY <2>3, <3>1, <3>3, <3>4 DEF Underway
  <2> QED
    BY <2>2, <2>3
<1>3. entry' \in [Caches -> Entries] /\ reader' \in [Readers -> Readings]
  BY <1>1, <1>2 DEF CatalogueTick
<1>4. rowThere' = rowThere
  BY DEF CatalogueTick
<1> QED
  BY <1>1, <1>2, <1>3, <1>4
  DEF CatalogueInv, RecordTypes, ReadLately, KeptFresh, StaleIsBounded

\* An edit makes current values old, and no value older.
LEMMA EditKeepsCatalogue ==
    ASSUME CatalogueInv, Edit
    PROVE  CatalogueInv'
<1>r. \A v \in Values : /\ Replaced(v) \in Values
                        /\ Replaced(v).old = (IF v.old = Current THEN 0 ELSE v.old)
  BY DEF Replaced, Values
<1>1. ASSUME NEW c \in Caches
      PROVE  /\ entry'[c] \in Entries
             /\ entry'[c].kept => /\ entry'[c].age + 1 <= TTLOf[c]
                                  /\ entry'[c].value.old <= entry'[c].age + Span
  <2>1. /\ entry'[c] = IF entry[c].kept THEN [entry[c] EXCEPT !.value = Replaced(@)]
                                        ELSE NoEntry
        /\ entry[c] \in Entries
    BY DEF Edit, CatalogueInv, RecordTypes
  <2>2. CASE ~entry[c].kept
    BY <2>1, <2>2, FirstRecords DEF NoEntry
  <2>3. CASE entry[c].kept
    <3>1. /\ entry'[c] = [entry[c] EXCEPT !.value = Replaced(entry[c].value)]
          /\ entry[c].value \in Values /\ entry[c].age \in Nat
      BY <2>1, <2>3 DEF Entries
    <3>2. /\ entry'[c].kept /\ entry'[c].age = entry[c].age
          /\ entry'[c].value = Replaced(entry[c].value) /\ entry'[c] \in Entries
      BY <2>1, <2>3, <3>1, <1>r DEF Entries
    <3> QED
      BY <2>3, <3>1, <3>2, <1>r, TimesAreNumbers
      DEF CatalogueInv, KeptFresh, Current, Values
  <2> QED
    BY <2>2, <2>3
<1>2. ASSUME NEW r \in Readers
      PROVE  /\ reader'[r] \in Readings /\ reader'[r].age = reader[r].age
             /\ reader'[r].at = "storing" => reader'[r].value.old <= reader'[r].age
             /\ reader'[r].at = "done" => reader'[r] = reader[r]
  <2>1. /\ reader'[r] = IF reader[r].at = "storing"
                        THEN [reader[r] EXCEPT !.value = Replaced(reader[r].value)]
                        ELSE reader[r]
        /\ reader[r] \in Readings
    BY DEF Edit, CatalogueInv, RecordTypes
  <2>2. CASE reader[r].at = "storing"
    <3>1. reader[r].value \in Values /\ reader[r].age \in Nat
      BY <2>1 DEF Readings
    <3>2. /\ reader'[r].at = "storing" /\ reader'[r].age = reader[r].age
          /\ reader'[r].value = Replaced(reader[r].value) /\ reader'[r] \in Readings
      BY <2>1, <2>2, <3>1, <1>r DEF Readings
    <3> QED
      BY <2>2, <3>1, <3>2, <1>r DEF CatalogueInv, ReadLately, Current, Values
  <2>3. CASE reader[r].at # "storing"
    BY <2>1, <2>3
  <2> QED
    BY <2>2, <2>3
<1>3. /\ entry' \in [Caches -> Entries] /\ reader' \in [Readers -> Readings]
      /\ rowThere' \in BOOLEAN
  BY <1>1, <1>2 DEF Edit
<1> QED
  BY <1>1, <1>2, <1>3
  DEF CatalogueInv, RecordTypes, ReadLately, KeptFresh, StaleIsBounded, Cache

\* Each step keeps the invariant.
LEMMA CatalogueInvIsKept == CatalogueInv /\ [CatalogueNext]_catalogueVars => CatalogueInv'
<1> SUFFICES ASSUME CatalogueInv, [CatalogueNext]_catalogueVars PROVE CatalogueInv'
  OBVIOUS
<1>n. \A r \in Readers : /\ Cache(r) \in Caches /\ reader[r] \in Readings
                         /\ reader[r].value \in Values /\ reader[r].age \in 0 .. Span
  BY TimesAreNumbers DEF Cache, CatalogueInv, RecordTypes, Readings
<1>e. \A c \in Caches : entry[c] \in Entries /\ entry[c].value \in Values /\ entry[c].age \in Nat
  BY DEF CatalogueInv, RecordTypes, Entries
<1>1. ASSUME NEW r \in Readers, Hit(r) PROVE CatalogueInv'
  <2>1. /\ ReaderGoes(r, "new", "done", entry[Cache(r)].value)
        /\ entry[Cache(r)].kept /\ rowThere' = rowThere /\ entry' = entry
    BY <1>1 DEF Hit
  <2>2. entry[Cache(r)].value.old <= TTLOf[Cache(r)] + Span - 1
    BY <1>n, <1>e, <2>1, TimesAreNumbers DEF CatalogueInv, KeptFresh, Values
  <2> QED
    BY <1>n, <1>e, <2>1, <2>2, ReaderMoves
<1>2. ASSUME NEW r \in Readers, Miss(r) PROVE CatalogueInv'
  BY <1>2, <1>n, ReaderMoves DEF Miss
<1>3. ASSUME NEW r \in Readers, ReadRows(r) PROVE CatalogueInv'
  <2>1. Value(Current, rowThere) \in Values /\ Value(Current, rowThere).old <= reader[r].age
    BY <1>n, TimesAreNumbers DEF Value, Current, Values, CatalogueInv, RecordTypes
  <2> QED
    BY <1>3, <2>1, ReaderMoves DEF ReadRows
<1>4. ASSUME NEW r \in Readers, Store(r) PROVE CatalogueInv'
  <2> DEFINE v == reader[r].value
             c == Cache(r)
             new == [kept |-> TRUE, age |-> 0, value |-> v]
  <2>1. /\ reader[r].at = "storing" /\ rowThere' = rowThere
        /\ reader' = [reader EXCEPT ![r] = [@ EXCEPT !.at = "done", !.value = v]]
        /\ entry' = [entry EXCEPT ![c] = new] \/ entry' = entry
    BY <1>4 DEF Store, ReaderGoes
  <2>2. v \in Values /\ v.old <= Span /\ v.old \in Int
    BY <1>n, <2>1, TimesAreNumbers DEF CatalogueInv, ReadLately, Values
  <2>3. new \in Entries /\ c \in Caches
    BY <1>n, <2>2 DEF Entries
  <2>4. /\ reader' \in [Readers -> Readings]
        /\ reader'[r].at = "done" /\ reader'[r].value = v /\ reader'[r].age = reader[r].age
        /\ \A q \in Readers \ {r} : reader'[q] = reader[q]
    BY <2>1, <2>2 DEF CatalogueInv, RecordTypes, Readings
  <2>5. entry' \in [Caches -> Entries] /\ \A d \in Caches : entry'[d] \in {entry[d], new}
    BY <2>1, <2>3 DEF CatalogueInv, RecordTypes
  <2>6. KeptFresh'
    BY <2>2, <2>5, TimesAreNumbers DEF CatalogueInv, KeptFresh
  <2>7. StaleIsBounded'
    BY <2>2, <2>3, <2>4, TimesAreNumbers DEF CatalogueInv, StaleIsBounded, Cache
  <2>8. RecordTypes' /\ ReadLately'
    BY <2>1, <2>4, <2>5 DEF CatalogueInv, RecordTypes, ReadLately
  <2> QED
    BY <2>6, <2>7, <2>8 DEF CatalogueInv
<1>5. CASE ListKeys
  BY <1>5
  DEF ListKeys, CatalogueInv, RecordTypes, ReadLately, KeptFresh, StaleIsBounded
<1>6. CASE DeleteKeys
  <2>1. /\ rowThere' = rowThere /\ reader' = reader
        /\ entry' \in [Caches -> Entries] /\ \A c \in Caches : entry'[c] \in {entry[c], NoEntry}
    BY <1>6, FirstRecords DEF DeleteKeys, CatalogueInv, RecordTypes
  <2>2. ~NoEntry.kept
    BY DEF NoEntry
  <2> QED
    BY <2>1, <2>2 DEF CatalogueInv, RecordTypes, ReadLately, KeptFresh, StaleIsBounded
<1>7. CASE Edit
  BY <1>7, EditKeepsCatalogue
<1>8. CASE CatalogueTick
  BY <1>8, TickKeepsCatalogue
<1>9. CASE UNCHANGED catalogueVars
  BY <1>9
  DEF catalogueVars, CatalogueInv, RecordTypes, ReadLately, KeptFresh, StaleIsBounded
<1> QED
  BY <1>1, <1>2, <1>3, <1>4, <1>5, <1>6, <1>7, <1>8, <1>9 DEF CatalogueNext

\* It holds at first.
LEMMA CatalogueInvHoldsAtFirst == CatalogueInit => CatalogueInv
<1> SUFFICES ASSUME CatalogueInit PROVE CatalogueInv
  OBVIOUS
<1>1. RecordTypes
  <2>1. Idle.age = 0
    BY DEF Idle
  <2> QED
    BY <2>1, FirstRecords, TimesAreNumbers DEF CatalogueInit, RecordTypes
<1>2. Idle.at = "new" /\ ~NoEntry.kept
  BY DEF Idle, NoEntry
<1> QED
  BY <1>1, <1>2 DEF CatalogueInit, CatalogueInv, ReadLately, KeptFresh, StaleIsBounded

\* For any times to live: an answer is never older than a time to live and
\* one request, whatever is edited, cleared or lost in between (cache.py,
\* tool_definitions.py).
THEOREM AnswersAreFresh == CatalogueSpec => []StaleIsBounded
<1>1. CatalogueInv => StaleIsBounded
  BY DEF CatalogueInv
<1> QED
  BY <1>1, CatalogueInvHoldsAtFirst, CatalogueInvIsKept, PTL DEF CatalogueSpec

\* The rest of the types, and that an empty cache is of no age.
RestOfCatalogue ==
    /\ edits \in 0 .. MaxEdits /\ clearing \subseteq Caches
    /\ \A c \in Caches : ~entry[c].kept => entry[c].age = 0

\* No step breaks them.
LEMMA RestOfCatalogueIsKept ==
    CatalogueInv /\ RestOfCatalogue /\ [CatalogueNext]_catalogueVars => RestOfCatalogue'
<1> SUFFICES ASSUME CatalogueInv, RestOfCatalogue, [CatalogueNext]_catalogueVars
             PROVE  RestOfCatalogue'
  OBVIOUS
<1>0. /\ MaxEdits \in Nat /\ NoEntry.age = 0
      /\ entry \in [Caches -> Entries]
      /\ \A r \in Readers : Cache(r) \in Caches
  BY CatalogueAssumption DEF NoEntry, CatalogueInv, RecordTypes, Cache
<1>1. ASSUME NEW r \in Readers, Hit(r) \/ Miss(r) \/ ReadRows(r) PROVE RestOfCatalogue'
  BY <1>1 DEF Hit, Miss, ReadRows, RestOfCatalogue
<1>2. ASSUME NEW r \in Readers, Store(r) PROVE RestOfCatalogue'
  <2>1. /\ UNCHANGED <<edits, clearing>>
        /\ \/ entry' = [entry EXCEPT ![Cache(r)] =
                            [kept |-> TRUE, age |-> 0, value |-> reader[r].value]]
           \/ entry' = entry
    BY <1>2 DEF Store
  <2> QED
    BY <1>0, <2>1 DEF RestOfCatalogue
<1>3. CASE ListKeys
  BY <1>3 DEF ListKeys, RestOfCatalogue
<1>4. CASE DeleteKeys
  <2>1. /\ edits' = edits /\ clearing' = {}
        /\ \A c \in Caches : entry'[c] \in {entry[c], NoEntry}
    BY <1>0, <1>4 DEF DeleteKeys
  <2> QED
    BY <1>0, <2>1 DEF RestOfCatalogue
<1>5. CASE Edit
  <2>1. edits' \in 0 .. MaxEdits /\ clearing' = clearing
    BY <1>0, <1>5 DEF Edit, RestOfCatalogue
  <2>2. ASSUME NEW c \in Caches, ~entry'[c].kept PROVE entry'[c].age = 0
    <3>1. CASE entry[c].kept
      <4>1. entry'[c] = [entry[c] EXCEPT !.value = Replaced(entry[c].value)]
        BY <1>5, <3>1 DEF Edit
      <4> QED
        BY <1>0, <2>2, <3>1, <4>1 DEF Entries
    <3>2. CASE ~entry[c].kept
      BY <1>0, <1>5, <3>2 DEF Edit
    <3> QED
      BY <3>1, <3>2
  <2> QED
    BY <2>1, <2>2 DEF RestOfCatalogue
<1>6. CASE CatalogueTick
  <2>1. edits' = edits /\ clearing' = clearing
    BY <1>6 DEF CatalogueTick
  <2>2. ASSUME NEW c \in Caches, ~entry'[c].kept PROVE entry'[c].age = 0
    <3>1. entry'[c] = Aged(c, entry[c])
      BY <1>6 DEF CatalogueTick
    <3>2. CASE ~entry[c].kept \/ entry[c].age + 1 >= TTLOf[c]
      BY <1>0, <3>1, <3>2 DEF Aged
    <3>3. CASE ~(~entry[c].kept \/ entry[c].age + 1 >= TTLOf[c])
      <4>1. entry'[c] = [entry[c] EXCEPT !.age = @ + 1, !.value = Older(@)]
        BY <3>1, <3>3 DEF Aged
      <4> QED
        BY <1>0, <2>2, <3>3, <4>1 DEF Entries
    <3> QED
      BY <3>2, <3>3
  <2> QED
    BY <2>1, <2>2 DEF RestOfCatalogue
<1>7. CASE UNCHANGED catalogueVars
  BY <1>7 DEF catalogueVars, RestOfCatalogue
<1> QED
  BY <1>1, <1>2, <1>3, <1>4, <1>5, <1>6, <1>7 DEF CatalogueNext

\* CatalogueTypeOK, for any caches and times to live: nothing is kept longer
\* than its time to live, and no request takes longer than Span.
THEOREM CatalogueIsTyped == CatalogueSpec => []CatalogueTypeOK
<1>1. CatalogueInit => RestOfCatalogue
  BY CatalogueAssumption DEF CatalogueInit, RestOfCatalogue, NoEntry
<1>2. CatalogueInv /\ RestOfCatalogue => CatalogueTypeOK
  BY TimesAreNumbers
  DEF CatalogueInv, RecordTypes, KeptFresh, RestOfCatalogue, CatalogueTypeOK, Entries, Readings
<1> QED
  BY <1>1, <1>2, CatalogueInvHoldsAtFirst, CatalogueInvIsKept, RestOfCatalogueIsKept, PTL
  DEF CatalogueSpec
-----------------------------------------------------------------------------
(* Planned tools: the images.                                              *)

\* The values of a recursion over 0 .. n.
Recurs(f, n, e, g) == f[0] = e /\ \A i \in 1 .. n : f[i] = g[<<f[i - 1], i>>]

\* There are such values.
LEMMA RecursionHasASolution ==
    ASSUME NEW n \in Nat, NEW V, NEW e \in V, NEW g \in [V \X (1 .. n) -> V]
    PROVE  \E f \in [0 .. n -> V] : Recurs(f, n, e, g)
<1> DEFINE Solves(f, m) == f[0] = e /\ \A i \in 1 .. m : f[i] = g[<<f[i - 1], i>>]
           P == {m \in Nat : m <= n => \E f \in [0 .. m -> V] : Solves(f, m)}
<1>1. 0 \in P
    <2> DEFINE f == [i \in 0 .. 0 |-> e]
    <2>1. f \in [0 .. 0 -> V] /\ Solves(f, 0)
        OBVIOUS
    <2> QED
        BY <2>1
<1>2. ASSUME NEW m \in Nat, m \in P PROVE m + 1 \in P
    <2> SUFFICES ASSUME m + 1 <= n PROVE \E f \in [0 .. m + 1 -> V] : Solves(f, m + 1)
        OBVIOUS
    <2>1. PICK f \in [0 .. m -> V] : Solves(f, m)
        BY <1>2
    <2> DEFINE h == [i \in 0 .. m + 1 |-> IF i = m + 1 THEN g[<<f[m], m + 1>>] ELSE f[i]]
    <2>2. f[m] \in V /\ m + 1 \in 1 .. n
        OBVIOUS
    <2>3. g[<<f[m], m + 1>>] \in V
        BY <2>2
    <2>4. h \in [0 .. m + 1 -> V]
        BY <2>3
    <2>5. h[0] = e /\ \A i \in 0 .. m : h[i] = f[i]
        BY <2>1
    <2>6. ASSUME NEW i \in 1 .. m + 1 PROVE h[i] = g[<<h[i - 1], i>>]
        <3>1. i - 1 \in 0 .. m /\ h[i - 1] = f[i - 1]
            BY <2>5
        <3>2. CASE i = m + 1
            <4>1. h[m + 1] = g[<<f[m], m + 1>>]
                OBVIOUS
            <4>2. h[i - 1] = f[m]
                BY <3>1, <3>2
            <4> HIDE DEF h
            <4> QED
                BY <3>2, <4>1, <4>2
        <3>3. CASE i \in 1 .. m
            BY <2>1, <2>5, <3>1, <3>3
        <3> QED
            BY <3>2, <3>3
    <2> HIDE DEF h
    <2> QED
        BY <2>4, <2>5, <2>6
<1> HIDE DEF P
<1>3. n \in P
    BY <1>1, <1>2, NatSetInduction
<1> QED
    BY <1>3 DEF P, Recurs

\* Joining sequences one after the other.
Joins(f, n, e, p) == f[0] = e /\ \A i \in 1 .. n : f[i] = f[i - 1] \o p[i]

\* It can be done.
LEMMA JoiningEnds ==
    ASSUME NEW n \in Nat, NEW S, NEW e \in Seq(S), NEW p \in [1 .. n -> Seq(S)]
    PROVE  \E f \in [0 .. n -> Seq(S)] : Joins(f, n, e, p)
<1> DEFINE g == [x \in Seq(S) \X (1 .. n) |-> x[1] \o p[x[2]]]
<1>1. g \in [Seq(S) \X (1 .. n) -> Seq(S)]
    <2>1. ASSUME NEW x \in Seq(S) \X (1 .. n) PROVE x[1] \o p[x[2]] \in Seq(S)
        <3>1. x[1] \in Seq(S) /\ p[x[2]] \in Seq(S)
            OBVIOUS
        <3> QED
            BY <3>1, ConcatProperties
    <2> QED
        BY <2>1
<1>2. \A s \in Seq(S), i \in 1 .. n : g[<<s, i>>] = s \o p[i]
    OBVIOUS
<1> HIDE DEF g
<1>3. PICK f \in [0 .. n -> Seq(S)] : Recurs(f, n, e, g)
    BY Zenon, <1>1, RecursionHasASolution
<1>4. ASSUME NEW i \in 1 .. n PROVE f[i] = f[i - 1] \o p[i]
    <2>1. f[i - 1] \in Seq(S)
        OBVIOUS
    <2> QED
        BY <1>2, <1>3, <2>1 DEF Recurs
<1> QED
    BY <1>3, <1>4 DEF Joins, Recurs

\* ConcatAssociative, in a form that is easily used.
Then(s, t) == s \o t

LEMMA ThenIsAssociative ==
    ASSUME NEW S, NEW a \in Seq(S), NEW b \in Seq(S), NEW c \in Seq(S)
    PROVE  Then(Then(a, b), c) = Then(a, Then(b, c))
  BY ConcatAssociative DEF Then

\* The values of f are those of g, each after e.
AllAfter(f, n, e, g) == \A i \in 0 .. n : f[i] = e \o g[i]

\* Joining to e is joining to nothing, and that to e.
LEMMA JoiningToIsJoining ==
    ASSUME NEW n \in Nat, NEW S, NEW e \in Seq(S), NEW p \in [1 .. n -> Seq(S)],
           NEW f \in [0 .. n -> Seq(S)], Joins(f, n, e, p),
           NEW g \in [0 .. n -> Seq(S)], Joins(g, n, <<>>, p)
    PROVE  AllAfter(f, n, e, g)
<1> DEFINE P == {m \in Nat : m <= n => f[m] = e \o g[m]}
<1>1. 0 \in P
    BY ConcatEmptySeq DEF Joins
<1>2. ASSUME NEW m \in Nat, m \in P PROVE m + 1 \in P
    <2> SUFFICES ASSUME m + 1 <= n PROVE f[m + 1] = e \o g[m + 1]
        OBVIOUS
    <2>1. m + 1 \in 1 .. n /\ (m + 1) - 1 = m /\ m \in 0 .. n
        OBVIOUS
    <2>2. f[m + 1] = f[m] \o p[m + 1] /\ g[m + 1] = g[m] \o p[m + 1]
        BY <2>1 DEF Joins
    <2>3. f[m] = e \o g[m]
        BY <1>2
    <2> DEFINE a == g[m]
               b == p[m + 1]
    <2>4. a \in Seq(S) /\ b \in Seq(S)
        BY <2>1
    <2>5. f[m + 1] = (e \o a) \o b /\ g[m + 1] = a \o b
        BY <2>2, <2>3
    <2> HIDE DEF P, a, b
    <2>6. Then(Then(e, a), b) = Then(e, Then(a, b))
        BY <2>4, ThenIsAssociative
    <2> QED
        BY <2>5, <2>6 DEF Then
<1> HIDE DEF P
<1>3. \A m \in Nat : m \in P
    BY <1>1, <1>2, NatSetInduction
<1> QED
    BY <1>3 DEF P, AllAfter

\* The last of the joined sequences is FlattenSeq of all.
Flattens(f, s) == f = [i \in 1 .. Len(s) |-> IF i = 1 THEN s[i] ELSE f[i - 1] \o s[i]]

LEMMA FlattenSeqSolves ==
    ASSUME NEW s, Len(s) # 0
    PROVE  FlattenSeq(s) = (CHOOSE f : Flattens(f, s))[Len(s)]
BY Zenon DEF FlattenSeq, Flattens

LEMMA FlattenSeqJoins ==
    ASSUME NEW n \in Nat, NEW S, NEW p \in [1 .. n -> Seq(S)]
    PROVE  \E f \in [0 .. n -> Seq(S)] : Joins(f, n, <<>>, p) /\ FlattenSeq(p) = f[n]
<1>0. p \in Seq(Seq(S)) /\ Len(p) = n
    OBVIOUS
<1>1. PICK f \in [0 .. n -> Seq(S)] : Joins(f, n, <<>>, p)
    <2>1. <<>> \in Seq(S)
        OBVIOUS
    <2> QED
        BY Zenon, <2>1, JoiningEnds
<1>2. CASE n = 0
    <2>1. p = <<>> /\ Len(p) = 0
        BY <1>0, <1>2
    <2>2. FlattenSeq(p) = p
        BY <2>1, Zenon DEF FlattenSeq
    <2> QED
        BY <1>1, <1>2, <2>1, <2>2 DEF Joins
<1>3. CASE n # 0
    <2>1. \E h : Flattens(h, p)
        <3> DEFINE h == [i \in 1 .. n |-> f[i]]
        <3>1. ASSUME NEW i \in 1 .. n PROVE h[i] = IF i = 1 THEN p[i] ELSE h[i - 1] \o p[i]
            <4>1. h[i] = f[i - 1] \o p[i]
                BY <1>1 DEF Joins
            <4>2. CASE i = 1
                <5>1. f[i - 1] = <<>> /\ p[i] \in Seq(S)
                    BY <1>1, <4>2 DEF Joins
                <5> QED
                    BY <4>1, <4>2, <5>1, ConcatEmptySeq
            <4>3. CASE i # 1
                <5>1. i - 1 \in 1 .. n
                    BY <4>3
                <5>2. h[i - 1] = f[i - 1]
                    BY <5>1
                <5> QED
                    BY <4>1, <4>3, <5>2
            <4> QED
                BY <4>2, <4>3
        <3>2. h = [i \in 1 .. n |-> h[i]]
            OBVIOUS
        <3> HIDE DEF h
        <3>3. h = [i \in 1 .. n |-> IF i = 1 THEN p[i] ELSE h[i - 1] \o p[i]]
            BY <3>1, <3>2
        <3> QED
            BY <1>0, <3>3 DEF Flattens
    <2> DEFINE h == CHOOSE x : Flattens(x, p)
    <2>2. Flattens(h, p) /\ FlattenSeq(p) = h[n]
        BY <1>0, <1>3, <2>1, FlattenSeqSolves
    <2> HIDE DEF h
    <2>3. h = [i \in 1 .. n |-> IF i = 1 THEN p[i] ELSE h[i - 1] \o p[i]]
        BY <1>0, <2>2 DEF Flattens
    <2>4. \A i \in 1 .. n : h[i] = IF i = 1 THEN p[i] ELSE h[i - 1] \o p[i]
        BY <2>3
    <2> DEFINE P == {m \in Nat : m \in 1 .. n => h[m] = f[m]}
    <2>5. 0 \in P
        OBVIOUS
    <2>6. ASSUME NEW m \in Nat, m \in P PROVE m + 1 \in P
        <3> SUFFICES ASSUME m + 1 \in 1 .. n PROVE h[m + 1] = f[m + 1]
            OBVIOUS
        <3>0. (m + 1) - 1 = m
            OBVIOUS
        <3>1. f[m + 1] = f[m] \o p[m + 1]
            BY <1>1, <3>0 DEF Joins
        <3>2. CASE m = 0
            <4>1. f[m] = <<>> /\ p[m + 1] \in Seq(S)
                BY <1>1, <3>2 DEF Joins
            <4>2. h[m + 1] = p[m + 1]
                BY <2>4, <3>2
            <4> QED
                BY <3>1, <4>1, <4>2, ConcatEmptySeq
        <3>3. CASE m # 0
            <4>1. h[m] = f[m]
                BY <2>6, <3>3
            <4>2. m + 1 # 1
                BY <3>3
            <4>3. h[m + 1] = h[m] \o p[m + 1]
                BY <2>4, <3>0, <4>2
            <4> QED
                BY <3>1, <4>1, <4>3
        <3> QED
            BY <3>2, <3>3
    <2> HIDE DEF P
    <2>7. n \in P
        BY <2>5, <2>6, NatSetInduction
    <2> QED
        <3>1. n \in 1 .. n
            BY <1>3
        <3> QED
            BY <1>1, <2>2, <2>7, <3>1 DEF P
<1> QED
    BY <1>2, <1>3
-----------------------------------------------------------------------------
\* The pictures a request can have.
Pictures == {ModelImage} \union (Nat \X {"upload", "library"} \X Nat)

\* What a request is.
LEMMA AskTypes ==
    ASSUME ask \in Asks
    PROVE  /\ ask \in [tool : {"shoot", "listing"}, models : Nat, slots : Seq(Slots),
                       refs : Slots, asked : Nat]
           /\ ask.tool = "listing" => ask.refs = Slot(0, 0)
           /\ Len(ask.slots) \in Nat
           /\ \A i \in 1 .. Len(ask.slots) :
                 ask.slots[i].up \in Nat /\ ask.slots[i].lib \in Nat
<1>1. /\ ask \in [tool : {"shoot", "listing"}, models : Nat, slots : Seq(Slots),
                  refs : Slots, asked : Nat]
      /\ ask.tool = "listing" => ask.refs = Slot(0, 0)
    BY PlanningAssumption
<1>2. ask.slots \in Seq(Slots)
    BY <1>1
<1>3. Len(ask.slots) \in Nat /\ \A i \in 1 .. Len(ask.slots) : ask.slots[i] \in Slots
    BY <1>2, LenProperties, ElementOfSeq
<1> QED
    BY <1>1, <1>3 DEF Slots

\* A function on 1 .. n is a sequence of its values.
LEMMA ImagesAreASequence ==
    ASSUME NEW n \in Nat, NEW k \in Nat, NEW from \in {"upload", "library"}
    PROVE  /\ [i \in 1 .. n |-> <<k, from, i>>] \in Seq(Pictures)
           /\ Len([i \in 1 .. n |-> <<k, from, i>>]) = n
<1> DEFINE s == [i \in 1 .. n |-> <<k, from, i>>]
<1>1. \A i \in 1 .. n : <<k, from, i>> \in Pictures
    BY DEF Pictures
<1>2. s \in [1 .. n -> Pictures]
    BY <1>1
<1> HIDE DEF s
<1>3. s \in Seq(Pictures) /\ Len(s) = n
    BY <1>2
<1> QED
    BY <1>3 DEF s

\* The images of a slot.
LEMMA ImagesOfSlot ==
    ASSUME NEW slot, slot.up \in Nat, slot.lib \in Nat, NEW k \in Nat
    PROVE  /\ ImagesOf(slot, k) \in Seq(Pictures)
           /\ Len(ImagesOf(slot, k)) = slot.up + slot.lib
<1> DEFINE u == [i \in 1 .. slot.up |-> <<k, "upload", i>>]
           l == [i \in 1 .. slot.lib |-> <<k, "library", i>>]
<1>1. u \in Seq(Pictures) /\ Len(u) = slot.up
    BY ImagesAreASequence
<1>2. l \in Seq(Pictures) /\ Len(l) = slot.lib
    BY ImagesAreASequence
<1>3. ImagesOf(slot, k) = u \o l
    BY DEF ImagesOf
<1> HIDE DEF u, l
<1> QED
    BY <1>1, <1>2, <1>3, ConcatProperties

\* The recursion of ImageCount.
CountsImages(f) ==
    f = [i \in 0 .. Len(ask.slots) |->
            IF i = 0 THEN 0 ELSE f[i - 1] + ask.slots[i].up + ask.slots[i].lib]

LEMMA ImageCountSolves == ImageCount = (CHOOSE f : CountsImages(f))[Len(ask.slots)]
BY Zenon DEF ImageCount, CountsImages

\* The images are counted slot by slot.
LEMMA ImagesAreCounted ==
    ASSUME ask \in Asks
    PROVE  \E c \in [0 .. Len(ask.slots) -> Nat] :
              /\ c[0] = 0
              /\ \A i \in 1 .. Len(ask.slots) :
                    c[i] = c[i - 1] + ask.slots[i].up + ask.slots[i].lib
              /\ ImageCount = c[Len(ask.slots)]
<1> DEFINE N == Len(ask.slots)
           g == [x \in Nat \X (1 .. N) |-> x[1] + ask.slots[x[2]].up + ask.slots[x[2]].lib]
<1>1. N \in Nat /\ \A i \in 1 .. N : ask.slots[i].up \in Nat /\ ask.slots[i].lib \in Nat
    BY AskTypes
<1>2. g \in [Nat \X (1 .. N) -> Nat]
    BY <1>1
<1>3. \A m \in Nat, i \in 1 .. N : g[<<m, i>>] = m + ask.slots[i].up + ask.slots[i].lib
    OBVIOUS
<1> HIDE DEF g, N
<1>4. PICK c \in [0 .. N -> Nat] : Recurs(c, N, 0, g)
    BY <1>1, <1>2, RecursionHasASolution
<1>5. ASSUME NEW i \in 1 .. N PROVE c[i] = c[i - 1] + ask.slots[i].up + ask.slots[i].lib
    <2>1. c[i - 1] \in Nat
        BY <1>1
    <2> QED
        BY <1>3, <1>4, <2>1 DEF Recurs
<1>6. CountsImages(c)
    <2>1. c[0] = 0
        BY <1>4 DEF Recurs
    <2>2. \A i \in 0 .. N :
             c[i] = IF i = 0 THEN 0 ELSE c[i - 1] + ask.slots[i].up + ask.slots[i].lib
        BY <1>1, <1>5, <2>1
    <2>3. c = [i \in 0 .. N |-> c[i]]
        OBVIOUS
    <2> QED
        BY <2>2, <2>3 DEF CountsImages, N
<1> DEFINE d == CHOOSE f : CountsImages(f)
<1>7. CountsImages(d) /\ ImageCount = d[N]
    BY <1>6, ImageCountSolves DEF N
<1> HIDE DEF d
<1>8. /\ d = [i \in 0 .. N |-> IF i = 0 THEN 0 ELSE d[i - 1] + ask.slots[i].up + ask.slots[i].lib]
    BY <1>7 DEF CountsImages, N
<1>9. \A i \in 0 .. N :
         d[i] = IF i = 0 THEN 0 ELSE d[i - 1] + ask.slots[i].up + ask.slots[i].lib
    BY <1>8
<1> DEFINE P == {m \in Nat : m <= N => d[m] = c[m]}
<1>10. 0 \in P
    BY <1>1, <1>4, <1>9 DEF Recurs
<1>11. ASSUME NEW m \in Nat, m \in P PROVE m + 1 \in P
    <2> SUFFICES ASSUME m + 1 <= N PROVE d[m + 1] = c[m + 1]
        OBVIOUS
    <2>1. m + 1 \in 1 .. N /\ m + 1 # 0 /\ (m + 1) - 1 = m /\ m + 1 \in 0 .. N
        BY <1>1
    <2>2. d[m + 1] = d[m] + ask.slots[m + 1].up + ask.slots[m + 1].lib
        BY <1>9, <2>1
    <2>3. c[m + 1] = c[m] + ask.slots[m + 1].up + ask.slots[m + 1].lib
        BY <1>5, <2>1
    <2>4. d[m] = c[m]
        BY <1>1, <1>11
    <2> QED
        BY <2>2, <2>3, <2>4
<1> HIDE DEF P
<1>12. N \in P
    BY <1>1, <1>10, <1>11, NatSetInduction
<1>13. ImageCount = c[N]
    BY <1>1, <1>7, <1>12 DEF P
<1>14. c[0] = 0
    BY <1>4 DEF Recurs
<1> QED
    BY <1>5, <1>13, <1>14 DEF N

\* The recursion of Groups.
CollectsGroups(f) ==
    f = [i \in 0 .. Len(ask.slots) |->
            IF i = 0 THEN <<>>
            ELSE IF ask.slots[i].up + ask.slots[i].lib > 0 THEN Append(f[i - 1], i)
            ELSE f[i - 1]]

LEMMA GroupsSolves == Groups = (CHOOSE f : CollectsGroups(f))[Len(ask.slots)]
BY Zenon DEF Groups, CollectsGroups

\* The groups are collected slot by slot.
LEMMA GroupsAreCollected ==
    ASSUME ask \in Asks
    PROVE  \E c \in [0 .. Len(ask.slots) -> Seq(1 .. Len(ask.slots))] :
              /\ c[0] = <<>>
              /\ \A i \in 1 .. Len(ask.slots) :
                    c[i] = IF ask.slots[i].up + ask.slots[i].lib > 0
                           THEN Append(c[i - 1], i) ELSE c[i - 1]
              /\ Groups = c[Len(ask.slots)]
<1> DEFINE N == Len(ask.slots)
           Q == Seq(1 .. N)
           used(i) == ask.slots[i].up + ask.slots[i].lib > 0
           g == [x \in Q \X (1 .. N) |-> IF used(x[2]) THEN Append(x[1], x[2]) ELSE x[1]]
<1>1. N \in Nat
    BY AskTypes
<1>2. ASSUME NEW x \in Q \X (1 .. N) PROVE g[x] \in Q
    <2>1. x[1] \in Q /\ x[2] \in 1 .. N
        OBVIOUS
    <2>2. Append(x[1], x[2]) \in Q
        BY <2>1
    <2> QED
        BY <2>1, <2>2
<1>3. \A s \in Q, i \in 1 .. N : g[<<s, i>>] = IF used(i) THEN Append(s, i) ELSE s
    OBVIOUS
<1>4. g = [x \in Q \X (1 .. N) |-> g[x]]
    OBVIOUS
<1>5. <<>> \in Q
    OBVIOUS
<1> HIDE DEF g, N, Q, used
<1>6. g \in [Q \X (1 .. N) -> Q]
    BY <1>2, <1>4
<1>7. PICK c \in [0 .. N -> Q] : Recurs(c, N, <<>>, g)
    BY <1>1, <1>5, <1>6, RecursionHasASolution
<1>8. c[0] = <<>>
    BY <1>7 DEF Recurs
<1>9. ASSUME NEW i \in 1 .. N PROVE c[i] = IF used(i) THEN Append(c[i - 1], i) ELSE c[i - 1]
    <2>1. c[i - 1] \in Q
        BY <1>1
    <2> QED
        BY <1>3, <1>7, <2>1 DEF Recurs
<1>10. CollectsGroups(c)
    <2>1. ASSUME NEW i \in 0 .. N
          PROVE  c[i] = IF i = 0 THEN <<>>
                        ELSE IF used(i) THEN Append(c[i - 1], i) ELSE c[i - 1]
        <3>1. CASE i = 0
            BY <1>8, <3>1
        <3>2. CASE i \in 1 .. N
            <4>1. i # 0
                BY <1>1, <3>2
            <4>2. c[i] = IF used(i) THEN Append(c[i - 1], i) ELSE c[i - 1]
                BY Zenon, <1>9, <3>2
            <4> QED
                BY Zenon, <4>1, <4>2
        <3> QED
            BY <1>1, <3>1, <3>2
    <2>2. c = [i \in 0 .. N |-> c[i]]
        OBVIOUS
    <2>3. c = [i \in 0 .. N |-> IF i = 0 THEN <<>>
                                ELSE IF used(i) THEN Append(c[i - 1], i) ELSE c[i - 1]]
        BY <2>1, <2>2
    <2> QED
        BY Zenon, <2>3 DEF CollectsGroups, N, used
<1> DEFINE d == CHOOSE f : CollectsGroups(f)
<1>11. CollectsGroups(d) /\ Groups = d[N]
    BY <1>10, GroupsSolves DEF N
<1> HIDE DEF d
<1>12. d = [i \in 0 .. N |-> IF i = 0 THEN <<>>
                             ELSE IF used(i) THEN Append(d[i - 1], i) ELSE d[i - 1]]
    BY Zenon, <1>11 DEF CollectsGroups, N, used
<1>13. \A i \in 0 .. N :
          d[i] = IF i = 0 THEN <<>>
                 ELSE IF used(i) THEN Append(d[i - 1], i) ELSE d[i - 1]
    BY <1>12
<1> DEFINE P == {m \in Nat : m <= N => d[m] = c[m]}
<1>14. 0 \in P
    BY <1>1, <1>8, <1>13
<1>15. ASSUME NEW m \in Nat, m \in P PROVE m + 1 \in P
    <2> SUFFICES ASSUME m + 1 <= N PROVE d[m + 1] = c[m + 1]
        OBVIOUS
    <2>1. m + 1 \in 1 .. N /\ m + 1 # 0 /\ (m + 1) - 1 = m /\ m + 1 \in 0 .. N
        BY <1>1
    <2>2. d[m + 1] = IF used(m + 1) THEN Append(d[m], m + 1) ELSE d[m]
        BY <1>13, <2>1
    <2>3. c[m + 1] = IF used(m + 1) THEN Append(c[m], m + 1) ELSE c[m]
        BY <1>9, <2>1
    <2>4. d[m] = c[m]
        BY <1>1, <1>15
    <2> QED
        BY <2>2, <2>3, <2>4
<1> HIDE DEF P
<1>16. N \in P
    BY <1>1, <1>14, <1>15, NatSetInduction
<1>17. Groups = c[N]
    BY <1>1, <1>11, <1>16 DEF P
<1> QED
    BY Zenon, <1>8, <1>9, <1>17 DEF N, Q, used

\* A prefix of a sequence.
IsBeginning(s, t) == Len(s) <= Len(t) /\ \A k \in 1 .. Len(s) : t[k] = s[k]

\* Every slot in use is a group, at the place it is given.
LEMMA GroupsTypes ==
    ASSUME ask \in Asks
    PROVE  /\ Groups \in Seq(1 .. Len(ask.slots)) /\ Len(Groups) \in Nat
           /\ DOMAIN Groups = 1 .. Len(Groups)
           /\ [i \in DOMAIN Groups |-> GarmentUrls(Groups[i])]
                 \in [1 .. Len(Groups) -> Seq(Pictures)]
           /\ \A i \in 1 .. Len(Groups) : Groups[i] \in 1 .. Len(ask.slots)
<1> DEFINE N == Len(ask.slots)
<1>1. N \in Nat
    BY AskTypes
<1>2. Groups \in Seq(1 .. N)
    BY <1>1, GroupsAreCollected
<1> HIDE DEF N
<1>3. Len(Groups) \in Nat /\ DOMAIN Groups = 1 .. Len(Groups)
    BY <1>2
<1>4. \A i \in 1 .. Len(Groups) : Groups[i] \in 1 .. N
    BY <1>2, ElementOfSeq
<1>5. ASSUME NEW i \in 1 .. Len(Groups) PROVE GarmentUrls(Groups[i]) \in Seq(Pictures)
    <2>1. Groups[i] \in 1 .. N /\ Groups[i] \in Nat
        BY <1>1, <1>4
    <2>2. ask.slots[Groups[i]].up \in Nat /\ ask.slots[Groups[i]].lib \in Nat
        BY <2>1, AskTypes DEF N
    <2> QED
        BY <2>1, <2>2, ImagesOfSlot DEF GarmentUrls
<1> DEFINE p == [i \in DOMAIN Groups |-> GarmentUrls(Groups[i])]
<1>6. p \in [1 .. Len(Groups) -> Seq(Pictures)]
    BY <1>3, <1>5
<1> QED
    BY <1>2, <1>3, <1>4, <1>6 DEF N

\* The pieces that are joined.
Pieces == [i \in DOMAIN Groups |-> GarmentUrls(Groups[i])]
FirstImage == IF ask.tool = "shoot" THEN <<ModelImage>> ELSE <<>>

\* The recursion of Labelled.
Numbers(f) ==
    f = [i \in 0 .. Len(Groups) |->
            IF i = 0 THEN (IF ask.tool = "shoot" THEN <<ModelImage>> ELSE <<>>)
            ELSE f[i - 1] \o GarmentUrls(Groups[i])]

LEMMA LabelledSolves ==
    Labelled = (CHOOSE f : Numbers(f))[Len(Groups)] \o References
BY Zenon DEF Labelled, Numbers

\* The first image, and how many that is.
LEMMA FirstImageTypes ==
    FirstImage \in Seq(Pictures) /\ Len(FirstImage) = IF ask.tool = "shoot" THEN 1 ELSE 0
<1>1. ModelImage \in Pictures
    BY DEF Pictures
<1> QED
    BY <1>1 DEF FirstImage

\* The images are numbered group by group.
LEMMA ImagesAreNumbered ==
    ASSUME ask \in Asks
    PROVE  \E f \in [0 .. Len(Groups) -> Seq(Pictures)] :
              /\ Joins(f, Len(Groups), FirstImage, Pieces)
              /\ Labelled = f[Len(Groups)] \o References
<1> DEFINE n == Len(Groups)
<1>1. n \in Nat /\ DOMAIN Groups = 1 .. n /\ Pieces \in [1 .. n -> Seq(Pictures)]
    BY GroupsTypes DEF Pieces
<1>2. \A i \in 1 .. n : Pieces[i] = GarmentUrls(Groups[i])
    BY <1>1 DEF Pieces
<1> HIDE DEF n
<1>3. PICK f \in [0 .. n -> Seq(Pictures)] : Joins(f, n, FirstImage, Pieces)
    BY Zenon, <1>1, FirstImageTypes, JoiningEnds
<1>4. f[0] = FirstImage /\ \A i \in 1 .. n : f[i] = f[i - 1] \o Pieces[i]
    BY <1>3 DEF Joins
<1>5. Numbers(f)
    <2>1. ASSUME NEW i \in 0 .. n
          PROVE  f[i] = IF i = 0 THEN FirstImage ELSE f[i - 1] \o GarmentUrls(Groups[i])
        <3>1. CASE i = 0
            BY Zenon, <1>4, <3>1
        <3>2. CASE i \in 1 .. n
            <4>1. i # 0
                BY <1>1, <3>2
            <4>2. f[i] = f[i - 1] \o GarmentUrls(Groups[i])
                BY Zenon, <1>2, <1>4, <3>2
            <4> QED
                BY Zenon, <4>1, <4>2
        <3>3. i = 0 \/ i \in 1 .. n
            BY <1>1
        <3> QED
            BY Zenon, <3>1, <3>2, <3>3
    <2>2. f = [i \in 0 .. n |-> f[i]]
        BY <1>3
    <2>3. f = [i \in 0 .. n |-> IF i = 0 THEN FirstImage
                                ELSE f[i - 1] \o GarmentUrls(Groups[i])]
        BY Zenon, <2>1, <2>2
    <2> QED
        BY Zenon, <2>3 DEF Numbers, FirstImage, n
<1> DEFINE d == CHOOSE h : Numbers(h)
<1>6. Numbers(d) /\ Labelled = d[n] \o References
    BY Zenon, <1>5, LabelledSolves DEF n
<1> HIDE DEF d
<1>7. d = [i \in 0 .. n |-> IF i = 0 THEN FirstImage
                            ELSE d[i - 1] \o GarmentUrls(Groups[i])]
    BY Zenon, <1>6 DEF Numbers, FirstImage, n
<1>8. \A i \in 0 .. n :
         d[i] = IF i = 0 THEN FirstImage ELSE d[i - 1] \o GarmentUrls(Groups[i])
    BY Zenon, <1>7
<1> DEFINE P == {m \in Nat : m <= n => d[m] = f[m]}
<1>9. 0 \in P
    BY <1>1, <1>4, <1>8
<1>10. ASSUME NEW m \in Nat, m \in P PROVE m + 1 \in P
    <2> SUFFICES ASSUME m + 1 <= n PROVE d[m + 1] = f[m + 1]
        OBVIOUS
    <2>1. m + 1 \in 1 .. n /\ m + 1 # 0 /\ (m + 1) - 1 = m /\ m + 1 \in 0 .. n
        BY <1>1
    <2>2. d[m + 1] = d[(m + 1) - 1] \o GarmentUrls(Groups[m + 1])
        BY Zenon, <1>8, <2>1
    <2>3. f[m + 1] = f[(m + 1) - 1] \o GarmentUrls(Groups[m + 1])
        BY Zenon, <1>2, <1>4, <2>1
    <2>4. d[m] = f[m]
        BY <1>1, <1>10
    <2> QED
        BY Zenon, <2>1, <2>2, <2>3, <2>4
<1> HIDE DEF P
<1>11. n \in P
    BY <1>1, <1>9, <1>10, NatSetInduction
<1>12. d[n] = f[n]
    BY <1>1, <1>11 DEF P
<1>13. Labelled = f[n] \o References
    BY Zenon, <1>6, <1>12
<1> QED
    BY Zenon, <1>3, <1>13 DEF n

\* The images are sent in the order in which the planner numbered them.
LEMMA SentInOrder ==
    ASSUME ask \in Asks
    PROVE  ImagesSent = Labelled
<1> DEFINE n == Len(Groups)
<1>1. n \in Nat /\ DOMAIN Groups = 1 .. n /\ Pieces \in [1 .. n -> Seq(Pictures)]
    BY GroupsTypes DEF Pieces
<1>2. PICK f \in [0 .. n -> Seq(Pictures)] :
         Joins(f, n, FirstImage, Pieces) /\ Labelled = f[n] \o References
    BY ImagesAreNumbered
<1> HIDE DEF n
<1>3. PICK g \in [0 .. n -> Seq(Pictures)] :
         Joins(g, n, <<>>, Pieces) /\ FlattenSeq(Pieces) = g[n]
    BY Zenon, <1>1, FlattenSeqJoins
<1>4. f[n] = FirstImage \o g[n]
    <2>1. FirstImage \in Seq(Pictures)
        BY FirstImageTypes
    <2>2. Joins(f, n, FirstImage, Pieces) /\ Joins(g, n, <<>>, Pieces)
        BY Zenon, <1>2, <1>3
    <2>3. AllAfter(f, n, FirstImage, g)
        BY <1>1, <2>1, <2>2, JoiningToIsJoining
    <2>4. n \in 0 .. n
        BY <1>1
    <2> QED
        BY Zenon, <2>3, <2>4 DEF AllAfter
<1>5. Flattened = g[n]
    BY Zenon, <1>3 DEF Flattened, Pieces
<1>6. ImagesSent = FirstImage \o Flattened \o References
    BY Zenon DEF ImagesSent, FirstImage
<1> QED
    BY Zenon, <1>2, <1>4, <1>5, <1>6

\* The images are as many as the route counted.
LEMMA NumberOfImages ==
    ASSUME ask \in Asks
    PROVE  /\ Labelled \in Seq(Pictures)
           /\ Len(Labelled) = (IF ask.tool = "shoot" THEN 1 ELSE 0)
                                 + ImageCount + ask.refs.up + ask.refs.lib
           /\ ImageCount \in Nat
<1> DEFINE N == Len(ask.slots)
           n == Len(Groups)
<1>1. N \in Nat /\ \A i \in 1 .. N : ask.slots[i].up \in Nat /\ ask.slots[i].lib \in Nat
    BY AskTypes
<1>0. N \in Nat
    BY Zenon, <1>1
<1>2. PICK c \in [0 .. N -> Nat] :
         /\ c[0] = 0
         /\ \A i \in 1 .. N : c[i] = c[i - 1] + ask.slots[i].up + ask.slots[i].lib
         /\ ImageCount = c[N]
    BY Zenon, ImagesAreCounted
<1>3. PICK g \in [0 .. N -> Seq(1 .. N)] :
         /\ g[0] = <<>>
         /\ \A i \in 1 .. N : g[i] = IF ask.slots[i].up + ask.slots[i].lib > 0
                                     THEN Append(g[i - 1], i) ELSE g[i - 1]
         /\ Groups = g[N]
    BY Zenon, GroupsAreCollected
<1>4. PICK f \in [0 .. n -> Seq(Pictures)] :
         Joins(f, n, FirstImage, Pieces) /\ Labelled = f[n] \o References
    BY Zenon, ImagesAreNumbered
<1>5. /\ n \in Nat /\ DOMAIN Groups = 1 .. n /\ Pieces \in [1 .. n -> Seq(Pictures)]
      /\ \A k \in 1 .. n : Pieces[k] = GarmentUrls(Groups[k])
      /\ \A k \in 1 .. n : Groups[k] \in 1 .. N
    BY GroupsTypes DEF Pieces
<1> HIDE DEF N, n
<1>6. \A i \in 0 .. N : g[i] \in Seq(1 .. N) /\ Len(g[i]) \in Nat
    <2>1. \A s \in Seq(1 .. N) : Len(s) \in Nat
        OBVIOUS
    <2> QED
        BY <2>1
<1>7. \A m \in 0 .. N : \A i \in 0 .. m : IsBeginning(g[i], g[m])
    <2> DEFINE P == {m \in Nat : m <= N => \A i \in 0 .. m : IsBeginning(g[i], g[m])}
    <2>1. 0 \in P
        BY <1>1, <1>6 DEF IsBeginning
    <2>2. ASSUME NEW m \in Nat, m \in P PROVE m + 1 \in P
        <3>1. m + 1 \in Nat
            OBVIOUS
        <3> SUFFICES m + 1 <= N => \A i \in 0 .. m + 1 : IsBeginning(g[i], g[m + 1])
            BY Zenon, <3>1
        <3> HAVE m + 1 <= N
        <3> TAKE i \in 0 .. m + 1
        <3>2. m + 1 \in 1 .. N /\ (m + 1) - 1 = m /\ m \in 0 .. N /\ m + 1 \in 0 .. N
            BY <1>0
        <3>3. CASE i = m + 1
            BY <1>6, <3>2, <3>3 DEF IsBeginning
        <3>4. CASE i \in 0 .. m
            <4>1. IsBeginning(g[i], g[m])
                <5>1. m <= N
                    BY <1>0, <3>2
                <5> QED
                    BY Zenon, <2>2, <3>4, <5>1
            <4>2. g[m + 1] = g[m] \/ g[m + 1] = Append(g[m], m + 1)
                BY <1>3, <3>2
            <4>3. CASE g[m + 1] = g[m]
                BY <4>1, <4>3
            <4>4. CASE g[m + 1] = Append(g[m], m + 1)
                <5> DEFINE s == g[m]
                <5>1. s \in Seq(1 .. N)
                    BY <1>6, <3>2
                <5>2. Len(g[i]) \in Nat
                    <6>1. i \in 0 .. N
                        BY <1>0, <3>2, <3>4
                    <6> QED
                        BY Zenon, <1>6, <6>1
                <5>3. IsBeginning(g[i], s) /\ g[m + 1] = Append(s, m + 1)
                    BY <4>1, <4>4
                <5> HIDE DEF s
                <5>4. Len(g[m + 1]) = Len(s) + 1 /\ \A k \in 1 .. Len(s) : g[m + 1][k] = s[k]
                    BY <5>1, <5>3
                <5>5. Len(s) \in Nat
                    BY <5>1
                <5> QED
                    BY <5>2, <5>3, <5>4, <5>5 DEF IsBeginning
            <4> QED
                BY <4>2, <4>3, <4>4
        <3> QED
            BY <3>3, <3>4
    <2> HIDE DEF P
    <2>3. \A m \in Nat : m \in P
        BY <2>1, <2>2, NatSetInduction
    <2> SUFFICES ASSUME NEW m \in 0 .. N PROVE \A i \in 0 .. m : IsBeginning(g[i], g[m])
        OBVIOUS
    <2>4. m \in Nat /\ m <= N
        BY <1>0
    <2>5. m \in P
        BY Zenon, <2>3, <2>4
    <2> QED
        BY Zenon, <2>4, <2>5 DEF P
<1>8. \A i \in 0 .. N : Len(g[i]) <= n /\ \A k \in 1 .. Len(g[i]) : Groups[k] = g[i][k]
    <2>1. N \in 0 .. N
        BY <1>0
    <2> QED
        BY <1>3, <1>7, <2>1 DEF IsBeginning, n
<1>9. \A i \in 0 .. N : Len(f[Len(g[i])]) = Len(FirstImage) + c[i]
    <2> DEFINE P == {m \in Nat : m <= N => Len(f[Len(g[m])]) = Len(FirstImage) + c[m]}
    <2>1. 0 \in P
        <3>1. Len(g[0]) = 0 /\ f[0] = FirstImage
            BY <1>3, <1>4 DEF Joins
        <3>2. Len(FirstImage) \in Nat
            BY FirstImageTypes
        <3>3. Len(f[Len(g[0])]) = Len(FirstImage)
            BY Zenon, <3>1
        <3> QED
            BY <1>2, <3>2, <3>3
    <2>2. ASSUME NEW m \in Nat, m \in P PROVE m + 1 \in P
        <3> SUFFICES ASSUME m + 1 <= N
                     PROVE  Len(f[Len(g[m + 1])]) = Len(FirstImage) + c[m + 1]
            OBVIOUS
        <3>1. m + 1 \in 1 .. N /\ (m + 1) - 1 = m /\ m \in 0 .. N /\ m + 1 \in 0 .. N
            BY <1>0
        <3>2. Len(f[Len(g[m])]) = Len(FirstImage) + c[m]
            BY <1>1, <2>2, <3>1
        <3>3. /\ c[m + 1] = c[m] + ask.slots[m + 1].up + ask.slots[m + 1].lib
              /\ c[m] \in Nat /\ ask.slots[m + 1].up \in Nat /\ ask.slots[m + 1].lib \in Nat
            BY <1>1, <1>2, <3>1
        <3>4. CASE ~(ask.slots[m + 1].up + ask.slots[m + 1].lib > 0)
            <4>1. g[m + 1] = g[m]
                BY <1>3, <3>1, <3>4
            <4>2. c[m + 1] = c[m]
                BY <3>3, <3>4
            <4> QED
                BY <3>2, <4>1, <4>2
        <3>5. CASE ask.slots[m + 1].up + ask.slots[m + 1].lib > 0
            <4> DEFINE s == g[m]
                       k == Len(s) + 1
            <4>1. g[m + 1] = Append(s, m + 1)
                BY <1>3, <3>1, <3>5
            <4>2. s \in Seq(1 .. N) /\ Len(s) \in Nat
                BY <1>6, <3>1
            <4> HIDE DEF s
            <4>3. Len(g[m + 1]) = k /\ g[m + 1][k] = m + 1
                BY <4>1, <4>2
            <4>4. k \in 1 .. n /\ k - 1 = Len(s) /\ Groups[k] = m + 1
                <5>1. k <= n
                    BY <1>8, <3>1, <4>3
                <5>2. Groups[k] = g[m + 1][k]
                    BY <1>8, <3>1, <4>2, <4>3
                <5> QED
                    BY <1>5, <4>2, <4>3, <5>1, <5>2
            <4> HIDE DEF k
            <4>5. f[k] = f[k - 1] \o Pieces[k] /\ Pieces[k] = GarmentUrls(m + 1)
                BY <1>4, <1>5, <4>4 DEF Joins
            <4>6. /\ GarmentUrls(m + 1) \in Seq(Pictures)
                  /\ Len(GarmentUrls(m + 1)) = ask.slots[m + 1].up + ask.slots[m + 1].lib
                BY <3>3, ImagesOfSlot DEF GarmentUrls
            <4>7. f[k - 1] \in Seq(Pictures)
                BY <1>4, <1>5, <4>4
            <4>8. Len(f[k]) = Len(f[k - 1]) + (ask.slots[m + 1].up + ask.slots[m + 1].lib)
                <5> DEFINE a == f[k - 1]
                           b == GarmentUrls(m + 1)
                <5>1. a \in Seq(Pictures) /\ b \in Seq(Pictures) /\ f[k] = a \o b
                    BY Zenon, <4>5, <4>6, <4>7
                <5> HIDE DEF a, b
                <5>2. Len(a \o b) = Len(a) + Len(b)
                    BY <5>1, ConcatProperties
                <5>3. Len(f[k]) = Len(f[k - 1]) + Len(GarmentUrls(m + 1))
                    BY Zenon, <5>1, <5>2 DEF a, b
                <5> QED
                    BY Zenon, <4>6, <5>3
            <4>9. Len(f[k - 1]) = Len(FirstImage) + c[m]
                BY <3>2, <4>4 DEF s
            <4>10. Len(FirstImage) \in Nat
                BY FirstImageTypes
            <4>11. Len(f[Len(g[m + 1])]) = Len(f[k])
                BY Zenon, <4>3
            <4> DEFINE here == Len(FirstImage)
                       size == ask.slots[m + 1].up + ask.slots[m + 1].lib
            <4>12. size \in Nat /\ c[m + 1] = c[m] + size
                BY <3>3
            <4>13. Len(f[k]) = (here + c[m]) + size
                BY Zenon, <4>8, <4>9
            <4>14. c[m] \in Nat /\ here \in Nat
                BY Zenon, <3>3, <4>10
            <4> HIDE DEF here, size
            <4>15. Len(f[k]) = here + c[m + 1]
                BY <4>12, <4>13, <4>14
            <4> QED
                BY Zenon, <4>11, <4>15 DEF here
        <3> QED
            BY <3>4, <3>5
    <2> HIDE DEF P
    <2>3. \A m \in Nat : m \in P
        BY <2>1, <2>2, NatSetInduction
    <2> QED
        BY <1>1, <2>3 DEF P
<1>10. Len(f[n]) = Len(FirstImage) + ImageCount
    <2>1. N \in 0 .. N
        BY <1>0
    <2>2. Len(g[N]) = n
        BY <1>3 DEF n
    <2>3. Len(f[Len(g[N])]) = Len(FirstImage) + c[N]
        BY <1>9, <2>1
    <2> QED
        BY <1>2, <2>2, <2>3
<1>11. /\ References \in Seq(Pictures) /\ Len(References) = ask.refs.up + ask.refs.lib
       /\ ask.refs.up \in Nat /\ ask.refs.lib \in Nat
    <2>1. ask.refs \in Slots
        BY AskTypes
    <2>2. ask.refs.up \in Nat /\ ask.refs.lib \in Nat
        BY <2>1 DEF Slots
    <2> QED
        BY <2>2, ImagesOfSlot DEF References
<1>12. f[n] \in Seq(Pictures)
    BY <1>4, <1>5
<1>13. /\ Labelled \in Seq(Pictures)
       /\ Len(Labelled) = Len(f[n]) + Len(References)
    BY <1>4, <1>11, <1>12, ConcatProperties
<1>14. ImageCount \in Nat
    BY <1>1, <1>2
<1> QED
    BY <1>10, <1>11, <1>13, <1>14, FirstImageTypes

\* Labelled, of a request and its groups.
LabelledOf(a, gs) ==
    LET next[i \in 0 .. Len(gs)] ==
            IF i = 0 THEN (IF a.tool = "shoot" THEN <<ModelImage>> ELSE <<>>)
            ELSE next[i - 1] \o ImagesOf(a.slots[gs[i]], gs[i])
    IN  next[Len(gs)] \o ImagesOf(a.refs, 0)

\* The images are the request's.
LEMMA ImagesStay == ask' = ask => Labelled' = Labelled
<1> SUFFICES ASSUME ask' = ask PROVE Labelled' = Labelled
  OBVIOUS
<1>1. Groups' = Groups
  BY Zenon DEF Groups
<1>2. Labelled = LabelledOf(ask, Groups) /\ Labelled' = LabelledOf(ask', Groups')
  BY Zenon DEF Labelled, LabelledOf, GarmentUrls, References
<1> QED
  BY Zenon, <1>1, <1>2

\* A sequence of something.
IsSequence(s) == \E V : s \in Seq(V)

\* A function on 1 .. n is a sequence of its values.
LEMMA FunctionIsASequence ==
    ASSUME NEW n \in Nat, NEW f, f = [i \in 1 .. n |-> f[i]]
    PROVE  IsSequence(f) /\ Len(f) = n
<1> DEFINE V == {f[i] : i \in 1 .. n}
<1>1. f \in [1 .. n -> V]
    OBVIOUS
<1> HIDE DEF V
<1>2. f \in Seq(V) /\ Len(f) = n
    BY <1>1
<1> QED
    BY <1>2 DEF IsSequence

\* Two sequences, one after the other.
LEMMA BothAreASequence ==
    ASSUME NEW s, NEW t, IsSequence(s), IsSequence(t)
    PROVE  IsSequence(s \o t) /\ Len(s \o t) = Len(s) + Len(t)
<1>1. PICK V : s \in Seq(V)
    BY DEF IsSequence
<1>2. PICK W : t \in Seq(W)
    BY DEF IsSequence
<1> DEFINE U == V \union W
<1>3. V \subseteq U /\ W \subseteq U
    OBVIOUS
<1> HIDE DEF U
<1>4. s \in Seq(U) /\ t \in Seq(U)
    BY <1>1, <1>2, <1>3, SeqMonotonic
<1>5. s \o t \in Seq(U) /\ Len(s \o t) = Len(s) + Len(t)
    BY <1>4, ConcatProperties
<1> QED
    BY <1>5 DEF IsSequence

\* The first m of a sequence.
LEMMA BeginningOfASequence ==
    ASSUME NEW s, IsSequence(s), NEW m \in 0 .. Len(s)
    PROVE  /\ IsSequence(SubSeq(s, 1, m)) /\ Len(SubSeq(s, 1, m)) = m
           /\ DOMAIN SubSeq(s, 1, m) = 1 .. m
           /\ \A i \in 1 .. m : SubSeq(s, 1, m)[i] = s[i]
<1>1. PICK V : s \in Seq(V)
    BY DEF IsSequence
<1>2. Len(s) \in Nat /\ \A i \in 1 .. Len(s) : s[i] \in V
    BY <1>1
<1>3. \A i \in 1 .. m : s[i] \in V
    BY <1>2
<1> DEFINE t == SubSeq(s, 1, m)
<1>4. t \in Seq(V) /\ Len(t) = m /\ \A i \in 1 .. m : t[i] = s[i]
    BY <1>2, <1>3, SubSeqProperties
<1> HIDE DEF t
<1>5. DOMAIN t = 1 .. m
    BY <1>4
<1> QED
    BY <1>4, <1>5 DEF IsSequence, t

\* There are as many prompts as outputs.
LEMMA PromptsAreSequences ==
    ASSUME NEW n \in Nat
    PROVE  /\ IsSequence(Planned(n)) /\ Len(Planned(n)) = n
           /\ IsSequence(FallbackShots(n)) /\ Len(FallbackShots(n)) = n
<1>1. Planned(n) = [i \in 1 .. n |-> Planned(n)[i]]
    BY DEF Planned
<1> DEFINE types == FlattenSeq([i \in 1 .. (n \div Len(ShotTypes)) + 1 |-> ShotTypes])
           shots == [i \in 1 .. n |-> <<"standard", types[i]>>]
<1>2. FallbackShots(n) = shots
    BY Zenon DEF FallbackShots
<1> HIDE DEF types
<1>3. shots = [i \in 1 .. n |-> shots[i]]
    OBVIOUS
<1> HIDE DEF shots
<1> QED
    BY <1>1, <1>2, <1>3, FunctionIsASequence

\* _parse_shots returns as many shots as it is asked for.
LEMMA ParseShotsIsComplete ==
    ASSUME NEW a \in Answers \union {NotJson}, NEW n \in Nat
    PROVE  IsSequence(ParseShots(a, n)) /\ Len(ParseShots(a, n)) = n
<1>1. CASE a.is # "shots" \/ a.n = 0
    BY <1>1, PromptsAreSequences DEF ParseShots
<1>2. CASE ~(a.is # "shots" \/ a.n = 0)
    <2>1. a.is = "shots" /\ a.n # 0
        BY <1>2
    <2>2. a.n \in Nat
        BY <2>1, PlanningAssumption DEF NotJson, Raising
    <2>3. CASE a.n > n
        <3>1. ParseShots(a, n) = SubSeq(Planned(a.n), 1, n)
            BY <1>2, <2>3 DEF ParseShots
        <3>2. IsSequence(Planned(a.n)) /\ n \in 0 .. Len(Planned(a.n))
            BY <2>2, <2>3, PromptsAreSequences
        <3> QED
            BY <3>1, <3>2, BeginningOfASequence
    <2>4. CASE ~(a.n > n)
        <3>1. ParseShots(a, n) = Planned(a.n) \o FallbackShots(n - a.n)
            BY <1>2, <2>4 DEF ParseShots
        <3>2. n - a.n \in Nat
            BY <2>2, <2>4
        <3>3. /\ IsSequence(Planned(a.n)) /\ Len(Planned(a.n)) = a.n
              /\ IsSequence(FallbackShots(n - a.n)) /\ Len(FallbackShots(n - a.n)) = n - a.n
            BY <2>2, <3>2, PromptsAreSequences
        <3>4. /\ IsSequence(ParseShots(a, n))
              /\ Len(ParseShots(a, n)) = Len(Planned(a.n)) + Len(FallbackShots(n - a.n))
            BY Zenon, <3>1, <3>3, BothAreASequence
        <3> QED
            BY <2>2, <3>3, <3>4
    <2> QED
        BY <2>3, <2>4
<1> QED
    BY <1>1, <1>2
-----------------------------------------------------------------------------
(* Planned tools: the invariant.                                           *)

\* The types of what the argument is about.
PlanTypes ==
    /\ stage \in {"new", "checked", "uploaded", "planning", "planned", "created", "refused"}
    /\ ask \in Asks /\ toolRow \in ToolRows /\ checked \in ToolRows
    /\ answer \in Answers \union {NotJson}
    /\ userLock \in BOOLEAN

\* A request that has been checked has no more images than the tool takes.
ImagesFit ==
    stage \in {"checked", "uploaded", "planning", "planned", "created"} =>
        Len(Labelled) <= checked.maxImages

\* A plan is complete, was made with the images in their order, and was not
\* blocked.
PlanComplete ==
    stage \in {"planned", "created"} =>
        /\ IsSequence(prompts) /\ Len(prompts) = Outputs(checked)
        /\ labelled = Labelled
        /\ ask.tool = "shoot" => ~PlanBlocked(answer, checked, Outputs(checked))

\* Jobs are only there in the end, and have the prompts of the plan.
JobsFollowThePlan ==
    /\ stage # "created" => jobs = <<>> /\ sent = <<>>
    /\ DOMAIN sent = DOMAIN jobs
    /\ \A i \in DOMAIN jobs :
          jobs[i] = prompts[i] /\ (sent[i] # <<>> => sent[i] = <<prompts[i], labelled>>)

\* Only a request that is being planned, or has been, has the lock.
LockIsForPlanning ==
    stage \in {"new", "checked", "uploaded", "refused"} => ~userLock

\* The inductive invariant.
PlanInv == PlanTypes /\ ImagesFit /\ PlanComplete /\ JobsFollowThePlan /\ LockIsForPlanning

\* The invariant holds at first.
LEMMA PlanInvHoldsAtFirst == PlanningInit => PlanInv
<1> SUFFICES ASSUME PlanningInit PROVE PlanInv
    OBVIOUS
<1>1. PlanTypes /\ ImagesFit /\ PlanComplete /\ LockIsForPlanning
    BY DEF PlanningInit, PlanTypes, ImagesFit, PlanComplete, LockIsForPlanning
<1>2. JobsFollowThePlan
    BY DEF PlanningInit, JobsFollowThePlan
<1> QED
    BY <1>1, <1>2 DEF PlanInv

\* The invariant is more than what is promised.
LEMMA PlanInvIsEnough == PlanInv => FalGetsThePlan
<1> SUFFICES ASSUME PlanInv PROVE FalGetsThePlan
    OBVIOUS
<1>1. stage = "refused" => ~userLock
    BY DEF PlanInv, LockIsForPlanning
<1>2. ASSUME NEW i \in DOMAIN sent, sent[i] # <<>>
      PROVE  sent[i] = <<prompts[i], labelled>> /\ Len(labelled) <= checked.maxImages
    <2>1. i \in DOMAIN jobs
        BY <1>2 DEF PlanInv, JobsFollowThePlan
    <2>2. jobs # <<>>
        BY <2>1
    <2>3. stage = "created"
        BY <2>2 DEF PlanInv, JobsFollowThePlan
    <2>4. labelled = Labelled /\ Len(Labelled) <= checked.maxImages
        BY <2>3 DEF PlanInv, PlanComplete, ImagesFit
    <2>5. sent[i] = <<prompts[i], labelled>>
        BY <1>2, <2>1 DEF PlanInv, JobsFollowThePlan
    <2> QED
        BY <2>4, <2>5
<1>3. ASSUME jobs # <<>>
      PROVE  /\ Len(prompts) = Outputs(checked)
             /\ ask.tool = "shoot" => ~ /\ answer.category = "intimate"
                                        /\ answer.age # "adult"
                                        /\ answer.age = "adult_uncertain" => checked.careful
    <2>1. stage = "created"
        BY <1>3 DEF PlanInv, JobsFollowThePlan
    <2>2. /\ Len(prompts) = Outputs(checked)
          /\ ask.tool = "shoot" => ~PlanBlocked(answer, checked, Outputs(checked))
        BY <2>1 DEF PlanInv, PlanComplete
    <2> QED
        BY <2>2 DEF PlanBlocked, BlockingAges
<1> QED
    BY <1>1, <1>2, <1>3 DEF FalGetsThePlan

\* A step that leaves the jobs alone, out of created.
LEMMA JobsStay ==
    ASSUME JobsFollowThePlan, stage # "created", stage' # "created", UNCHANGED <<jobs, sent>>
    PROVE  JobsFollowThePlan'
  BY DEF JobsFollowThePlan

\* The limit that the route checks is the number of images.
LEMMA WellformedFits ==
    ASSUME PlanTypes, Wellformed
    PROVE  Len(Labelled) <= toolRow.maxImages
<1>1. ask.tool \in {"shoot", "listing"} /\ (ask.tool = "listing" => ask.refs = Slot(0, 0))
    BY AskTypes DEF PlanTypes
<1>2. /\ Len(Labelled) = (IF ask.tool = "shoot" THEN 1 ELSE 0)
                             + ImageCount + ask.refs.up + ask.refs.lib
      /\ ImageCount \in Nat
    BY NumberOfImages DEF PlanTypes
<1>3. CASE ask.tool = "shoot"
    <2>1. 1 + ImageCount + ask.refs.up + ask.refs.lib <= toolRow.maxImages
        BY <1>3 DEF Wellformed
    <2> QED
        BY <1>2, <1>3, <2>1
<1>4. CASE ask.tool = "listing"
    <2>1. ImageCount <= toolRow.maxImages
        BY <1>4 DEF Wellformed
    <2>2. ask.refs.up = 0 /\ ask.refs.lib = 0
        BY <1>1, <1>4 DEF Slot
    <2>3. Len(Labelled) = 0 + ImageCount + 0 + 0
        BY <1>2, <1>4, <2>2
    <2> QED
        BY <1>2, <2>1, <2>3
<1> QED
    BY <1>1, <1>3, <1>4

\* The number of outputs is a number.
LEMMA OutputsAreANumber ==
    ASSUME PlanTypes
    PROVE  Outputs(checked) \in Nat
<1>1. ask.asked \in Nat
    BY AskTypes DEF PlanTypes
<1>2. checked.default \in Nat
    BY PlanningAssumption DEF PlanTypes
<1> QED
    BY <1>1, <1>2 DEF Outputs

\* No step breaks the invariant.
LEMMA PlanInvIsInductive == PlanInv /\ [PlanningNext]_planningVars => PlanInv'
<1> SUFFICES ASSUME PlanInv, [PlanningNext]_planningVars PROVE PlanInv'
    OBVIOUS
<1>0. PlanTypes /\ ImagesFit /\ PlanComplete /\ JobsFollowThePlan /\ LockIsForPlanning
    BY DEF PlanInv
<1>1. CASE CheckRequest
    <2>0. /\ stage = "new" /\ stage' \in {"checked", "refused"} /\ checked' = toolRow
          /\ stage' = "checked" => Wellformed
          /\ UNCHANGED <<ask, toolRow, planVars, userLock, jobs, sent>>
        BY <1>1 DEF CheckRequest, StageGoes
    <2>1. PlanTypes'
        BY <1>0, <2>0 DEF PlanTypes, planVars
    <2>2. ImagesFit'
        <3>1. Labelled' = Labelled
            BY <2>0, ImagesStay
        <3>2. stage' = "checked" => Len(Labelled) <= toolRow.maxImages
            BY <1>0, <2>0, WellformedFits
        <3> QED
            BY <2>0, <3>1, <3>2 DEF ImagesFit
    <2>3. PlanComplete' /\ LockIsForPlanning'
        BY <1>0, <2>0 DEF PlanComplete, LockIsForPlanning
    <2>4. JobsFollowThePlan'
        BY <1>0, <2>0, JobsStay
    <2> QED
        BY <2>1, <2>2, <2>3, <2>4 DEF PlanInv
<1>2. CASE Upload
    <2>0. /\ stage = "checked" /\ stage' \in {"uploaded", "refused"}
          /\ UNCHANGED <<ask, toolRow, checked, planVars, userLock, jobs, sent>>
        BY <1>2 DEF Upload, StageGoes
    <2>1. PlanTypes'
        BY <1>0, <2>0 DEF PlanTypes, planVars
    <2>2. ImagesFit'
        BY <1>0, <2>0, ImagesStay DEF ImagesFit
    <2>3. PlanComplete' /\ LockIsForPlanning'
        BY <1>0, <2>0 DEF PlanComplete, LockIsForPlanning
    <2>4. JobsFollowThePlan'
        BY <1>0, <2>0, JobsStay
    <2> QED
        BY <2>1, <2>2, <2>3, <2>4 DEF PlanInv
<1>3. CASE LockUser
    <2>0. /\ stage = "uploaded"
          /\ \/ stage' = "planning" /\ userLock' = TRUE
             \/ stage' = "refused" /\ UNCHANGED userLock
          /\ UNCHANGED <<ask, toolRow, checked, planVars, jobs, sent>>
        BY <1>3 DEF LockUser, StageGoes
    <2>1. PlanTypes'
        BY <1>0, <2>0 DEF PlanTypes, planVars
    <2>2. ImagesFit'
        BY <1>0, <2>0, ImagesStay DEF ImagesFit
    <2>3. PlanComplete' /\ LockIsForPlanning'
        BY <1>0, <2>0 DEF PlanComplete, LockIsForPlanning
    <2>4. JobsFollowThePlan'
        BY <1>0, <2>0, JobsStay
    <2> QED
        BY <2>1, <2>2, <2>3, <2>4 DEF PlanInv
<1>4. CASE PlanRaises
    <2>0. /\ stage = "planning" /\ stage' = "refused" /\ userLock' = FALSE
          /\ answer' \in Answers
          /\ UNCHANGED <<ask, toolRow, checked, prompts, jobs, sent>>
        BY <1>4 DEF PlanRaises, StageGoes
    <2>1. PlanTypes'
        BY <1>0, <2>0 DEF PlanTypes
    <2>2. ImagesFit' /\ PlanComplete' /\ LockIsForPlanning'
        BY <2>0 DEF ImagesFit, PlanComplete, LockIsForPlanning
    <2>3. JobsFollowThePlan'
        BY <1>0, <2>0, JobsStay
    <2> QED
        BY <2>1, <2>2, <2>3 DEF PlanInv
<1>5. CASE PlanListing
    <2>0. /\ ask.tool = "listing" /\ stage = "planning" /\ stage' = "planned"
          /\ labelled' = Labelled /\ answer' \in Answers
          /\ prompts' = ParseShots(answer', Outputs(checked))
          /\ UNCHANGED <<ask, toolRow, checked, userLock, jobs, sent>>
        BY <1>5 DEF PlanListing, StageGoes
    <2>1. PlanTypes'
        BY <1>0, <2>0 DEF PlanTypes
    <2>2. Labelled' = Labelled
        BY <2>0, ImagesStay
    <2>3. ImagesFit'
        BY <1>0, <2>0, <2>2 DEF ImagesFit
    <2>4. PlanComplete'
        <3>1. Outputs(checked)' = Outputs(checked)
            BY <2>0 DEF Outputs
        <3>2. IsSequence(prompts') /\ Len(prompts') = Outputs(checked)
            BY <1>0, <2>0, OutputsAreANumber, ParseShotsIsComplete
        <3>3. IsSequence(prompts)'
            BY <3>2 DEF IsSequence
        <3>4. ask'.tool # "shoot"
            BY <2>0
        <3> QED
            BY <2>0, <2>2, <3>1, <3>2, <3>3, <3>4 DEF PlanComplete
    <2>5. LockIsForPlanning'
        BY <2>0 DEF LockIsForPlanning
    <2>6. JobsFollowThePlan'
        BY <1>0, <2>0, JobsStay
    <2> QED
        BY <2>1, <2>3, <2>4, <2>5, <2>6 DEF PlanInv
<1>6. CASE PlanShoot
    <2>0. /\ stage = "planning" /\ stage' \in {"refused", "planned"}
          /\ labelled' = Labelled /\ answer' \in Answers
          /\ stage' = "refused" => userLock' = FALSE
          /\ stage' = "planned" => /\ ~PlanBlocked(answer', checked, Outputs(checked))
                                   /\ prompts' = Planned(answer'.n)
          /\ userLock' \in {FALSE, userLock}
          /\ UNCHANGED <<ask, toolRow, checked, jobs, sent>>
        <3>1. PICK a \in Answers :
                 /\ answer' = a
                 /\ IF PlanBlocked(a, checked, Outputs(checked))
                    THEN StageGoes("planning", "refused") /\ userLock' = FALSE
                    ELSE /\ StageGoes("planning", "planned") /\ UNCHANGED userLock
                         /\ prompts' = Planned(a.n)
            BY <1>6 DEF PlanShoot
        <3>2. labelled' = Labelled /\ UNCHANGED <<ask, toolRow, checked, jobs, sent>>
            BY <1>6 DEF PlanShoot
        <3>3. CASE PlanBlocked(a, checked, Outputs(checked))
            BY <3>1, <3>2, <3>3 DEF StageGoes
        <3>4. CASE ~PlanBlocked(a, checked, Outputs(checked))
            BY <3>1, <3>2, <3>4 DEF StageGoes
        <3> QED
            BY <3>3, <3>4
    <2>1. PlanTypes'
        BY <1>0, <2>0 DEF PlanTypes
    <2>2. Labelled' = Labelled
        BY <2>0, ImagesStay
    <2>3. ImagesFit'
        BY <1>0, <2>0, <2>2 DEF ImagesFit
    <2>4. PlanComplete'
        <3> SUFFICES ASSUME stage' = "planned" PROVE PlanComplete'
            BY <2>0 DEF PlanComplete
        <3>1. Outputs(checked)' = Outputs(checked) /\ Outputs(checked) \in Nat
            BY <1>0, <2>0, OutputsAreANumber DEF Outputs
        <3>2. answer'.n = Outputs(checked) /\ prompts' = Planned(answer'.n)
            BY <2>0 DEF PlanBlocked
        <3>3. IsSequence(prompts') /\ Len(prompts') = Outputs(checked)
            BY <3>1, <3>2, PromptsAreSequences
        <3>4. IsSequence(prompts)'
            BY <3>3 DEF IsSequence
        <3>5. PlanBlocked(answer, checked, Outputs(checked))'
                 = PlanBlocked(answer', checked, Outputs(checked))
            BY <2>0, <3>1 DEF PlanBlocked, BlockingAges
        <3> QED
            BY <2>0, <2>2, <3>1, <3>3, <3>4, <3>5 DEF PlanComplete
    <2>5. LockIsForPlanning'
        BY <2>0 DEF LockIsForPlanning
    <2>6. JobsFollowThePlan'
        BY <1>0, <2>0, JobsStay
    <2> QED
        BY <2>1, <2>3, <2>4, <2>5, <2>6 DEF PlanInv
<1>7. CASE CreateBatch
    <2>0. /\ stage = "planned" /\ stage' = "created"
          /\ sent' = [i \in DOMAIN jobs' |-> <<>>]
          /\ UNCHANGED <<ask, toolRow, checked, planVars, userLock>>
        BY <1>7 DEF CreateBatch, StageGoes
    <2>1. PICK granted \in 1 .. Len(prompts) : jobs' = SubSeq(prompts, 1, granted)
        BY <1>7 DEF CreateBatch
    <2>2. IsSequence(prompts) /\ Len(prompts) \in Nat
        BY <1>0, <2>0, OutputsAreANumber DEF PlanComplete
    <2>3. DOMAIN jobs' = 1 .. granted /\ \A i \in 1 .. granted : jobs'[i] = prompts[i]
        <3>1. granted \in 0 .. Len(prompts)
            BY <2>2
        <3> QED
            BY <2>1, <2>2, <3>1, BeginningOfASequence
    <2>4. PlanTypes'
        BY <1>0, <2>0 DEF PlanTypes, planVars
    <2>5. Labelled' = Labelled
        BY <2>0, ImagesStay
    <2>6. ImagesFit'
        BY <1>0, <2>0, <2>5 DEF ImagesFit
    <2>7. PlanComplete' /\ LockIsForPlanning'
        BY <1>0, <2>0, <2>5
           DEF PlanComplete, LockIsForPlanning, planVars, Outputs, IsSequence, PlanBlocked,
               BlockingAges
    <2>8. JobsFollowThePlan'
        BY <2>0, <2>3 DEF JobsFollowThePlan, planVars
    <2> QED
        BY <2>4, <2>6, <2>7, <2>8 DEF PlanInv
<1>8. CASE RefuseBatch
    <2>0. /\ stage = "planned" /\ stage' = "refused" /\ userLock' = FALSE
          /\ UNCHANGED <<ask, toolRow, checked, planVars, jobs, sent>>
        BY <1>8 DEF RefuseBatch, StageGoes
    <2>1. PlanTypes'
        BY <1>0, <2>0 DEF PlanTypes, planVars
    <2>2. ImagesFit' /\ PlanComplete' /\ LockIsForPlanning'
        BY <2>0 DEF ImagesFit, PlanComplete, LockIsForPlanning
    <2>3. JobsFollowThePlan'
        BY <1>0, <2>0, JobsStay
    <2> QED
        BY <2>1, <2>2, <2>3 DEF PlanInv
<1>9. CASE \E i \in DOMAIN jobs : SubmitPlanned(i)
    <2>1. PICK i \in DOMAIN jobs : SubmitPlanned(i)
        BY <1>9
    <2>0. /\ stage = "created"
          /\ sent' = [sent EXCEPT ![i] = <<jobs[i], ImagesSent>>]
          /\ UNCHANGED <<stage, ask, toolRow, checked, planVars, userLock, jobs>>
        BY <2>1 DEF SubmitPlanned
    <2>2. PlanTypes'
        BY <1>0, <2>0 DEF PlanTypes, planVars
    <2>3. Labelled' = Labelled
        BY <2>0, ImagesStay
    <2>4. ImagesFit'
        BY <1>0, <2>0, <2>3 DEF ImagesFit
    <2>5. PlanComplete' /\ LockIsForPlanning'
        BY <1>0, <2>0, <2>3
           DEF PlanComplete, LockIsForPlanning, planVars, Outputs, IsSequence, PlanBlocked,
               BlockingAges
    <2>6. JobsFollowThePlan'
        <3>1. ImagesSent = labelled
            BY <1>0, <2>0, SentInOrder DEF PlanTypes, PlanComplete
        <3>2. jobs[i] = prompts[i]
            BY <1>0 DEF JobsFollowThePlan
        <3>3. sent' = [sent EXCEPT ![i] = <<prompts[i], labelled>>]
            BY Zenon, <2>0, <3>1, <3>2
        <3> QED
            BY <1>0, <2>0, <3>3 DEF JobsFollowThePlan, planVars
    <2> QED
        BY <2>2, <2>4, <2>5, <2>6 DEF PlanInv
<1>10. CASE EditTool \/ UNCHANGED planningVars
    <2>0. /\ toolRow' \in ToolRows
          /\ UNCHANGED <<stage, ask, checked, planVars, userLock, jobs, sent>>
        BY <1>0, <1>10 DEF EditTool, planningVars, PlanTypes
    <2>1. PlanTypes'
        BY <1>0, <2>0 DEF PlanTypes, planVars
    <2>2. Labelled' = Labelled
        BY <2>0, ImagesStay
    <2>3. ImagesFit'
        BY <1>0, <2>0, <2>2 DEF ImagesFit
    <2>4. PlanComplete' /\ LockIsForPlanning'
        BY <1>0, <2>0, <2>2
           DEF PlanComplete, LockIsForPlanning, planVars, Outputs, IsSequence, PlanBlocked,
               BlockingAges
    <2>5. JobsFollowThePlan'
        BY <1>0, <2>0 DEF JobsFollowThePlan, planVars
    <2> QED
        BY <2>1, <2>3, <2>4, <2>5 DEF PlanInv
<1> QED
    BY <1>1, <1>2, <1>3, <1>4, <1>5, <1>6, <1>7, <1>8, <1>9, <1>10 DEF PlanningNext

\* FalGetsThePlan, for any requests, answers of the vision model, rows of the
\* tool and limits: every job has a prompt of its own from a plan that has as
\* many as were wanted, fal gets it with the images in the planner's order and
\* no more of them than the tool took when the request was checked, nobody who
\* may be a minor is shown in an intimate garment, and a refused request does
\* not keep the user's lock.
THEOREM PlansReachFal == PlanningSpec => []FalGetsThePlan
<1>1. PlanningInit => PlanInv
    BY PlanInvHoldsAtFirst
<1>2. PlanInv /\ [PlanningNext]_planningVars => PlanInv'
    BY PlanInvIsInductive
<1>3. PlanInv => FalGetsThePlan
    BY PlanInvIsEnough
<1> QED
    BY <1>1, <1>2, <1>3, PTL DEF PlanningSpec

\* PlanningTypeOK, for any requests, answers and rows of the tool.
THEOREM PlansAreTyped == PlanningSpec => []PlanningTypeOK
<1>1. PlanInv => PlanningTypeOK
    BY DEF PlanInv, PlanTypes, JobsFollowThePlan, PlanningTypeOK
<1> QED
    BY <1>1, PlanInvHoldsAtFirst, PlanInvIsInductive, PTL DEF PlanningSpec
-----------------------------------------------------------------------------
(* The credit ledger.                                                      *)

\* The assumptions in the form the steps use them.
LEMMA LedgerFacts ==
    /\ IsFiniteSet(Jobs) /\ Cost \in Nat /\ MaxOutputs \in Nat /\ OpeningPool \in Pool
    /\ \A r \in Requests : TeamOf[r] \in Teams
    /\ \A j \in Jobs : j = <<j[1], j[2]>> /\ j[1] \in Requests /\ j[2] \in 1 .. MaxOutputs
    /\ \A j \in Jobs : Team(j) \in Teams
    /\ \A p \in Purchases : BuyerOf[p] \in Teams /\ PackOf[p] \in Nat
    /\ Plans \subseteq Nat
<1>1. MaxOutputs \in Nat /\ IsFiniteSet(1 .. MaxOutputs)
    BY LedgerAssumption, FS_Interval
<1>2. IsFiniteSet(Jobs)
    BY <1>1, LedgerAssumption, FS_Product DEF Jobs
<1> QED
    BY <1>1, <1>2, LedgerAssumption DEF Jobs, Team

\* What a batch of request r, of which n jobs are granted, does.
Batch(r, n, c) ==
    /\ n \in 1 .. MaxOutputs /\ c \in Pool
    /\ Minus(pool[TeamOf[r]], c) \in Pool
    /\ \A i \in 1 .. MaxOutputs : phase[<<r, i>>] = "absent"
    /\ pool' = [pool EXCEPT ![TeamOf[r]] = Minus(@, c)]
    /\ charge' = [j \in Jobs |-> IF j[1] = r /\ j[2] <= n THEN Share(c, n, j[2]) ELSE charge[j]]
    /\ phase' = [j \in Jobs |-> IF j[1] = r /\ j[2] <= n THEN "held" ELSE phase[j]]
    /\ UNCHANGED purchaseVars

\* It takes what it can pay.
LEMMA ChargeIsBatch ==
    ASSUME LedgerTypeOK, NEW r \in Requests, NEW wanted \in 1 .. MaxOutputs,
           ChargeBatch(r, wanted)
    PROVE  \E n, c : Batch(r, n, c)
<1> DEFINE t == TeamOf[r]
           n == Granted(pool[t], Cost, wanted)
           c == Taken(pool[t], Cost * n)
<1>1. t \in Teams /\ pool[t] \in Pool /\ Cost \in Nat /\ wanted \in Nat
    BY LedgerFacts DEF LedgerTypeOK
<1>2. n \in 0 .. wanted /\ Cost * n \in 0 .. Total(pool[t])
    BY <1>1, GrantIsAffordable
<1>3. c \in Pool /\ Minus(pool[t], c) \in Pool
    BY <1>1, <1>2, TakenWithinPools
<1>4. n >= 1
    BY DEF ChargeBatch
<1>5. n \in 1 .. MaxOutputs
    BY <1>2, <1>4, LedgerFacts
<1>6. /\ \A i \in 1 .. MaxOutputs : phase[<<r, i>>] = "absent"
      /\ pool' = [pool EXCEPT ![t] = Minus(@, c)]
      /\ charge' = [j \in Jobs |-> IF j[1] = r /\ j[2] <= n THEN Share(c, n, j[2]) ELSE charge[j]]
      /\ phase' = [j \in Jobs |-> IF j[1] = r /\ j[2] <= n THEN "held" ELSE phase[j]]
      /\ UNCHANGED purchaseVars
    BY DEF ChargeBatch
<1> HIDE DEF n, c
<1> QED
    BY <1>3, <1>5, <1>6 DEF Batch

\* A charge in a ledger whose types hold, is a pool.
LEMMA ChargesAreNumbers ==
    ASSUME LedgerTypeOK
    PROVE  /\ \A t \in Teams : pool[t].sub \in Nat /\ pool[t].top \in Nat
           /\ \A j \in Jobs : SubOf[j] \in Int /\ TopOf[j] \in Int
BY DEF LedgerTypeOK, SubOf, TopOf, Pool
-----------------------------------------------------------------------------
\* Every step keeps the types.
LEMMA LedgerTypesStep ==
    ASSUME LedgerTypeOK, [LedgerNext]_ledgerVars
    PROVE  LedgerTypeOK'
<1> USE DEF LedgerTypeOK, Phases
<1>1. ASSUME NEW r \in Requests, NEW n, NEW c, Batch(r, n, c)
      PROVE  LedgerTypeOK'
    <2>1. c \in Pool /\ n \in Nat /\ n > 0
        BY <1>1, LedgerFacts DEF Batch
    <2>2. \A j \in Jobs : Share(c, n, j[2]) \in Pool
        BY <2>1, LedgerFacts, ShareInPool
    <2> QED
        BY <1>1, <2>2 DEF Batch, purchaseVars
<1>2. ASSUME NEW j \in Jobs, Deliver(j) \/ Refund(j) \/ DeliverFree(j)
      PROVE  LedgerTypeOK'
    <2>1. Plus(pool[Team(j)], charge[j]) \in Pool
        BY LedgerFacts, PlusInPool
    <2>2. /\ UNCHANGED <<purchase, added, refilled, overtaken>> /\ charge' = charge
          /\ pool' = pool \/ pool' = [pool EXCEPT ![Team(j)] = Plus(@, charge[j])]
          /\ \E s \in {"delivered", "refunded", "gift"} : phase' = [phase EXCEPT ![j] = s]
        BY <1>2 DEF Deliver, Refund, DeliverFree, purchaseVars
    <2> QED
        BY <2>1, <2>2
<1>3. ASSUME NEW p \in Purchases, LoadTeam(p) \/ PurchaseFails(p)
      PROVE  LedgerTypeOK'
    <2>1. pool[BuyerOf[p]].top \in Nat
        BY LedgerFacts DEF Pool
    <2> QED
        BY <1>3, <2>1 DEF LoadTeam, PurchaseFails, Unread
<1>4. ASSUME NEW p \in Purchases, AddTopup(p)
      PROVE  LedgerTypeOK'
    <2> DEFINE t == BuyerOf[p]
               sum == purchase[p].seen + PackOf[p]
    <2>1. t \in Teams /\ sum \in Nat /\ PackOf[p] \in Nat
        BY LedgerFacts
    <2>2. [pool[t] EXCEPT !.top = sum] \in Pool
        BY <2>1 DEF Pool
    <2>3. pool' = [pool EXCEPT ![t] = [pool[t] EXCEPT !.top = sum]]
        BY <1>4 DEF AddTopup
    <2>4. /\ purchase' = [purchase EXCEPT ![p] = [at |-> "granted", seen |-> 0]]
          /\ added' = [added EXCEPT ![t] = @ + PackOf[p]]
          /\ overtaken' \in {overtaken, overtaken \union {p}}
          /\ UNCHANGED <<charge, phase, refilled>>
        BY <1>4 DEF AddTopup
    <2> HIDE DEF t, sum
    <2>5. pool' \in [Teams -> Pool]
        BY <2>1, <2>2, <2>3
    <2>6. added' \in [Teams -> Nat]
        BY <2>1, <2>4
    <2> QED
        BY <2>4, <2>5, <2>6
<1>5. ASSUME NEW t \in Teams, NEW a,
             \/ Refill(t, a) /\ a \in Plans
             \/ MoveLeftover(t) /\ a = 0
      PROVE  LedgerTypeOK'
    <2>1. a \in Nat /\ pool[t] \in Pool /\ pool[t].sub \in Nat /\ Holding(t) \in SUBSET Jobs
        BY <1>5, LedgerFacts DEF Pool, Holding
    <2>2. pool' \in [Teams -> Pool]
        <3>1. /\ [pool[t] EXCEPT !.sub = a] \in Pool
              /\ [sub |-> 0, top |-> pool[t].top + pool[t].sub] \in Pool
            BY <2>1 DEF Pool
        <3>2. \/ pool' = [pool EXCEPT ![t] = [pool[t] EXCEPT !.sub = a]]
              \/ pool' = [pool EXCEPT ![t] = [sub |-> 0, top |-> pool[t].top + pool[t].sub]]
            BY <1>5 DEF Refill, MoveLeftover
        <3> QED
            BY <3>1, <3>2
    <2>3. added' \in [Teams -> Nat]
        BY <1>5, <2>1 DEF Refill, MoveLeftover
    <2>4. refilled' \in [Teams -> [credits : Nat, held : SUBSET Jobs]]
        BY <1>5, <2>1 DEF Refill, MoveLeftover, SetTo
    <2> QED
        BY <1>5, <2>2, <2>3, <2>4 DEF Refill, MoveLeftover
<1>6. CASE UNCHANGED ledgerVars
    BY <1>6 DEF ledgerVars, purchaseVars
<1> QED
    BY <1>1, <1>2, <1>3, <1>4, <1>5, <1>6, ChargeIsBatch DEF LedgerNext

\* The ledger keeps its types: no balance and no charge is ever negative.
THEOREM LedgerIsTyped == LedgerSpec => []LedgerTypeOK
<1>1. LedgerInit => LedgerTypeOK
    BY LedgerFacts DEF LedgerInit, LedgerTypeOK, Phases, Pool, Empty, Unread
<1> QED
    BY <1>1, LedgerTypesStep, PTL DEF LedgerSpec
-----------------------------------------------------------------------------
(* Sums.                                                                   *)

New(r, n) == {<<r, i>> : i \in 1 .. n}

\* The new jobs of a batch, and their charges.
LEMMA NewJobs ==
    ASSUME LedgerTypeOK, NEW r \in Requests, NEW n, NEW c, Batch(r, n, c)
    PROVE  /\ New(r, n) \subseteq Jobs /\ IsFiniteSet(New(r, n))
           /\ \A j \in New(r, n) : Team(j) = TeamOf[r] /\ phase[j] = "absent" /\ phase'[j] = "held"
           /\ \A j \in Jobs \ New(r, n) : phase'[j] = phase[j] /\ charge'[j] = charge[j]
           /\ SumFunctionOnSet(SubOf', New(r, n)) = c.sub
           /\ SumFunctionOnSet(TopOf', New(r, n)) = c.top
<1> DEFINE e == [i \in 1 .. n |-> <<r, i>>]
           new == {e[i] : i \in 1 .. n}
<1>1. n \in Nat /\ n > 0 /\ c.sub \in Nat /\ c.top \in Nat /\ 1 .. n \subseteq 1 .. MaxOutputs
    BY LedgerFacts DEF Batch, Pool
<1>2. \A i \in 1 .. n : e[i] = <<r, i>> /\ e[i] \in Jobs /\ e[i][1] = r /\ e[i][2] = i
    BY <1>1 DEF Jobs
<1>3. new \subseteq Jobs /\ IsFiniteSet(new)
    BY <1>2, LedgerFacts, FS_Subset
<1>4. \A j \in Jobs : j \in new <=> j[1] = r /\ j[2] <= n
    <2> SUFFICES ASSUME NEW j \in Jobs, j[1] = r, j[2] <= n PROVE j \in new
        BY <1>2
    <2>1. j[2] \in 1 .. n /\ j = <<r, j[2]>>
        BY <1>1, LedgerFacts
    <2> QED
        BY <1>2, <2>1
<1>5. \A i, k \in 1 .. n : e[i] = e[k] => i = k
    BY <1>2
<1>6. \A i \in 1 .. n : /\ SubOf'[e[i]] = PartOf(c.sub, n, i)
                        /\ TopOf'[e[i]] = PartOf(c.top, n, i)
    <2> SUFFICES ASSUME NEW i \in 1 .. n
                 PROVE  SubOf'[e[i]] = PartOf(c.sub, n, i) /\ TopOf'[e[i]] = PartOf(c.top, n, i)
        OBVIOUS
    <2>1. charge'[e[i]] = Share(c, n, i)
        BY <1>1, <1>2 DEF Batch
    <2> QED
        BY <1>2, <2>1 DEF SubOf, TopOf, Share
<1>7. \A j \in Jobs : /\ j \in new => Team(j) = TeamOf[r] /\ phase[j] = "absent" /\ phase'[j] = "held"
                      /\ j \notin new => phase'[j] = phase[j] /\ charge'[j] = charge[j]
    BY <1>1, <1>4, LedgerFacts DEF Batch, Team
<1>10. new = New(r, n)
    BY <1>2 DEF New
<1> HIDE DEF e
<1>8. SumFunctionOnSet(SubOf', new) = c.sub
    BY <1>1, <1>5, <1>6, PartsAddUp
<1>9. SumFunctionOnSet(TopOf', new) = c.top
    BY <1>1, <1>5, <1>6, PartsAddUp
<1> QED
    BY <1>3, <1>7, <1>8, <1>9, <1>10

\* What a batch takes from a pool is what its jobs are charged.
THEOREM SharesAreComplete == LedgerSpec => SharesAddUp
<1> DEFINE AddUp == \A t \in Teams : Charged(t) # {} =>
             pool[t] = Plus(pool'[t], [sub |-> SumFunctionOnSet(SubOf', Charged(t)),
                                       top |-> SumFunctionOnSet(TopOf', Charged(t))])
<1>1. ASSUME LedgerTypeOK, [LedgerNext]_ledgerVars
      PROVE  AddUp
    <2>1. ASSUME NEW r \in Requests, NEW n, NEW c, Batch(r, n, c)
          PROVE  AddUp
        <3> DEFINE mine == New(r, n)
        <3>1. /\ mine \subseteq Jobs
              /\ \A j \in mine : Team(j) = TeamOf[r] /\ phase[j] = "absent" /\ phase'[j] = "held"
              /\ \A j \in Jobs \ mine : phase'[j] = phase[j]
              /\ SumFunctionOnSet(SubOf', mine) = c.sub /\ SumFunctionOnSet(TopOf', mine) = c.top
            BY <1>1, <2>1, NewJobs
        <3> HIDE DEF mine
        <3> SUFFICES ASSUME NEW t \in Teams, Charged(t) # {}
                     PROVE  pool[t] = Plus(pool'[t], [sub |-> SumFunctionOnSet(SubOf', Charged(t)),
                                                      top |-> SumFunctionOnSet(TopOf', Charged(t))])
            OBVIOUS
        <3>2. t = TeamOf[r] /\ Charged(t) = mine
            BY <3>1 DEF Charged
        <3>3. pool'[t] = Minus(pool[t], c) /\ pool[t] \in Pool /\ c \in Pool
            BY <1>1, <2>1, <3>2 DEF Batch, LedgerTypeOK
        <3>4. pool[t] = Plus(Minus(pool[t], c), [sub |-> c.sub, top |-> c.top])
            BY <3>3 DEF Pool, Plus, Minus
        <3> QED
            BY <3>1, <3>2, <3>3, <3>4
    <2>2. CASE \A j \in Jobs : phase'[j] = "held" => phase[j] = "held"
        BY <2>2 DEF Charged
    <2>3. ASSUME NEW j \in Jobs, Deliver(j) \/ Refund(j) \/ DeliverFree(j)
          PROVE  \A k \in Jobs : phase'[k] = "held" => phase[k] = "held"
        BY <1>1, <2>3 DEF Deliver, Refund, DeliverFree, LedgerTypeOK
    <2> QED
        BY <1>1, <2>1, <2>2, <2>3, ChargeIsBatch DEF LedgerNext, LoadTeam, AddTopup,
                  PurchaseFails, Refill, MoveLeftover, ledgerVars
<1>2. LedgerTypeOK /\ [LedgerNext]_ledgerVars => [AddUp]_ledgerVars
    BY <1>1
<1>3. LedgerSpec => [][AddUp]_ledgerVars
    BY <1>2, LedgerIsTyped, PTL DEF LedgerSpec
<1> QED
    BY <1>3 DEF SharesAddUp

\* A batch gets as many jobs as both pools together can pay, up to what was
\* asked for: for every balance, price and number of outputs.
THEOREM GrantsAreLargest == LedgerSpec => []GrantIsLargestAffordable
<1>1. LedgerTypeOK => GrantIsLargestAffordable
    <2> SUFFICES ASSUME LedgerTypeOK, NEW t \in Teams, NEW wanted \in 1 .. MaxOutputs
                 PROVE  LET granted == Granted(pool[t], Cost, wanted)
                            payable == {k \in 0 .. wanted : k * Cost <= Total(pool[t])}
                        IN  granted \in payable /\ \A k \in payable : k <= granted
        BY DEF GrantIsLargestAffordable
    <2> DEFINE g == Granted(pool[t], Cost, wanted)
               m == Total(pool[t])
               q == m \div Cost
    <2>1. pool[t] \in Pool /\ Cost \in Nat /\ wanted \in Nat
        BY LedgerFacts DEF LedgerTypeOK
    <2>2. m \in Nat
        BY <2>1 DEF Pool, Total
    <2>3. g \in 0 .. wanted /\ Cost * g \in 0 .. m
        BY <2>1, GrantIsAffordable
    <2>4. g * Cost <= m
        BY <2>1, <2>3
    <2>5. ASSUME NEW k \in 0 .. wanted, k * Cost <= m
          PROVE  k <= g
        <3>1. CASE Cost = 0
            BY <2>1, <3>1 DEF Granted
        <3>2. CASE Cost > 0
            <4>1. q \in Nat /\ q * Cost <= m /\ m - q * Cost < Cost
                BY <2>1, <2>2, <3>2, DivisionRoundsDown
            <4>2. g = Lesser(wanted, q)
                BY <2>1, <3>2 DEF Granted
            <4> HIDE DEF q, g, m
            <4>3. k * Cost < (q + 1) * Cost
                <5>1. (q + 1) * Cost = q * Cost + Cost /\ k * Cost \in Nat /\ q * Cost \in Nat
                    BY <2>1, <4>1, SMT
                <5> QED
                    BY <2>1, <2>2, <2>5, <4>1, <5>1
            <4>4. k < q + 1
                BY <2>1, <3>2, <4>1, <4>3, CancelFactor
            <4> QED
                BY <2>1, <4>1, <4>2, <4>4 DEF Lesser
        <3> QED
            BY <2>1, <3>1, <3>2
    <2> HIDE DEF g, m
    <2> QED
        BY <2>3, <2>4, <2>5 DEF g, m
<1> QED
    BY <1>1, LedgerIsTyped, PTL

\* What each job took from one of the two pools, and what a team's jobs that
\* still hold their charge took from it.
Kinds == {"sub", "top"}
Took(kind) == [j \in Jobs |-> charge[j][kind]]
Held(kind, t) == SumFunctionOnSet(Took(kind), Holding(t))

\* The two pools, in that form.
LEMMA HeldIsHeld ==
    /\ SubOf = Took("sub") /\ TopOf = Took("top")
    /\ \A t : SubHeld(t) = Held("sub", t) /\ TopupHeld(t) = Held("top", t)
BY DEF SubOf, TopOf, Took, SubHeld, TopupHeld, Held

\* Balances, charges and sums of charges are numbers.
LEMMA SumsAreNumbers ==
    ASSUME LedgerTypeOK, NEW kind \in Kinds
    PROVE  /\ \A t \in Teams : pool[t][kind] \in Nat
           /\ \A j \in Jobs : Took(kind)[j] \in Int
           /\ \A J \in SUBSET Jobs : IsFiniteSet(J) /\ SumFunctionOnSet(Took(kind), J) \in Int
           /\ \A t \in Teams : Holding(t) \in SUBSET Jobs /\ Held(kind, t) \in Int
<1>1. \A t \in Teams : pool[t][kind] \in Nat
    BY DEF LedgerTypeOK, Pool, Kinds
<1>2. \A j \in Jobs : Took(kind)[j] \in Int
    BY DEF LedgerTypeOK, Pool, Kinds, Took
<1>3. \A J \in SUBSET Jobs : IsFiniteSet(J) /\ SumFunctionOnSet(Took(kind), J) \in Int
    <2> SUFFICES ASSUME NEW J \in SUBSET Jobs
                 PROVE  IsFiniteSet(J) /\ SumFunctionOnSet(Took(kind), J) \in Int
        OBVIOUS
    <2>1. IsFiniteSet(J)
        BY LedgerFacts, FS_Subset
    <2>2. \A j \in J : Took(kind)[j] \in Int
        BY <1>2
    <2> QED
        BY <2>1, <2>2, SumType
<1>4. \A t \in Teams : Holding(t) \in SUBSET Jobs
    BY DEF Holding
<1> QED
    BY <1>1, <1>2, <1>3, <1>4 DEF Held

\* Jobs whose charges do not change took in all what they took before.
LEMMA SameTaken ==
    ASSUME LedgerTypeOK, NEW kind \in Kinds, NEW J \in SUBSET Jobs,
           \A j \in J : charge'[j] = charge[j]
    PROVE  SumFunctionOnSet(Took(kind)', J) = SumFunctionOnSet(Took(kind), J)
<1>1. IsFiniteSet(J) /\ \A j \in J : Took(kind)[j] \in Int
    BY SumsAreNumbers
<1>2. \A j \in J : Took(kind)'[j] = Took(kind)[j]
    BY DEF Took
<1> QED
    BY <1>1, <1>2, SumSame

\* A step that changes neither a team's holdings nor their charges keeps their
\* sum.
LEMMA SameHeld ==
    ASSUME LedgerTypeOK, NEW kind \in Kinds, NEW t \in Teams, Holding(t)' = Holding(t),
           \A j \in Holding(t) : charge'[j] = charge[j]
    PROVE  Held(kind, t)' = Held(kind, t)
<1>1. SumFunctionOnSet(Took(kind)', Holding(t)) = SumFunctionOnSet(Took(kind), Holding(t))
    BY SumsAreNumbers, SameTaken
<1> QED
    BY <1>1 DEF Held

\* A step that charges, settles or delivers jobs.
Billing ==
    \/ \E r \in Requests : \E n, c : Batch(r, n, c)
    \/ \E j \in Jobs : Deliver(j) \/ Refund(j) \/ DeliverFree(j)

\* It moves credits between a pool and the jobs of its team, no more.
LEMMA BillingKeeps ==
    ASSUME LedgerTypeOK, LedgerTypeOK', Billing, NEW kind \in Kinds, NEW t \in Teams
    PROVE  pool'[t][kind] + Held(kind, t)' = pool[t][kind] + Held(kind, t)
<1> DEFINE Balanced == pool'[t][kind] + Held(kind, t)' = pool[t][kind] + Held(kind, t)
<1>1. /\ pool[t] \in Pool /\ pool[t][kind] \in Nat /\ Held(kind, t) \in Int
      /\ Holding(t) \in SUBSET Jobs /\ IsFiniteSet(Holding(t))
      /\ \A j \in Holding(t) : Took(kind)[j] \in Int
    BY SumsAreNumbers DEF LedgerTypeOK
<1>2. CASE /\ Holding(t)' = Holding(t) /\ \A j \in Holding(t) : charge'[j] = charge[j]
           /\ pool'[t] = pool[t]
    BY <1>2, SameHeld
<1>3. ASSUME NEW r \in Requests, NEW n, NEW c, Batch(r, n, c)
      PROVE  Balanced
    <2> DEFINE new == New(r, n)
    <2>1. /\ new \subseteq Jobs /\ IsFiniteSet(new)
          /\ \A j \in new : Team(j) = TeamOf[r] /\ phase[j] = "absent" /\ phase'[j] = "held"
          /\ \A j \in Jobs \ new : phase'[j] = phase[j] /\ charge'[j] = charge[j]
          /\ SumFunctionOnSet(SubOf', new) = c.sub
          /\ SumFunctionOnSet(TopOf', new) = c.top
        BY <1>3, NewJobs
    <2> HIDE DEF new
    <2>2. Holding(t) \cap new = {} /\ \A j \in Holding(t) : charge'[j] = charge[j]
        BY <1>1, <2>1 DEF Holding
    <2>3. CASE TeamOf[r] # t
        <3>1. Holding(t)' = Holding(t)
            BY <2>1, <2>3 DEF Holding
        <3>2. pool'[t] = pool[t]
            BY <1>3, <2>3 DEF Batch, LedgerTypeOK
        <3> QED
            BY <1>2, <2>2, <3>1, <3>2
    <2>4. CASE TeamOf[r] = t
        <3>1. Holding(t)' = Holding(t) \union new
            BY <2>1, <2>4 DEF Holding
        <3>2. \A j \in Holding(t) \union new : Took(kind)'[j] \in Int
            BY <1>1, <2>1 DEF LedgerTypeOK, Took, Pool, Kinds
        <3>3. SumFunctionOnSet(Took(kind)', Holding(t) \union new)
                = SumFunctionOnSet(Took(kind)', Holding(t)) + SumFunctionOnSet(Took(kind)', new)
            BY <1>1, <2>1, <2>2, <3>2, SumUnion
        <3>4. SumFunctionOnSet(Took(kind)', Holding(t)) = Held(kind, t)
            BY <1>1, <2>2, SameTaken DEF Held
        <3>5. SumFunctionOnSet(Took(kind)', new) = c[kind]
            <4>1. SubOf' = Took("sub")' /\ TopOf' = Took("top")'
                BY DEF SubOf, TopOf, Took
            <4> QED
                BY <2>1, <4>1 DEF Kinds
        <3>6. Held(kind, t)' = Held(kind, t) + c[kind]
            BY <3>1, <3>3, <3>4, <3>5 DEF Held
        <3>7. pool'[t] = Minus(pool[t], c) /\ c \in Pool
            BY <1>3, <2>4 DEF Batch, LedgerTypeOK
        <3>8. pool'[t][kind] = pool[t][kind] - c[kind] /\ c[kind] \in Nat
            BY <1>1, <3>7 DEF Minus, Pool, Kinds
        <3> QED
            BY <1>1, <3>6, <3>8
    <2> QED
        BY <2>3, <2>4
<1>4. ASSUME NEW k \in Jobs, Refund(k)
      PROVE  Balanced
    <2>1. /\ charge' = charge /\ phase[k] = "held" /\ phase'[k] = "refunded"
          /\ \A j \in Jobs \ {k} : phase'[j] = phase[j]
          /\ pool' = [pool EXCEPT ![Team(k)] = Plus(@, charge[k])]
        BY <1>4 DEF Refund, LedgerTypeOK
    <2>2. CASE Team(k) # t
        <3>1. Holding(t)' = Holding(t)
            BY <2>1, <2>2 DEF Holding
        <3>2. pool'[t] = pool[t]
            BY <2>1, <2>2 DEF LedgerTypeOK
        <3> QED
            BY <1>2, <2>1, <3>1, <3>2
    <2>3. CASE Team(k) = t
        <3>1. k \in Holding(t) /\ Holding(t)' = Holding(t) \ {k}
            BY <2>1, <2>3 DEF Holding
        <3>2. Held(kind, t) = SumFunctionOnSet(Took(kind), Holding(t) \ {k}) + Took(kind)[k]
            BY <1>1, <3>1, SumRemove DEF Held
        <3>3. Took(kind)' = Took(kind) /\ Took(kind)[k] = charge[k][kind] /\ charge[k] \in Pool
            BY <2>1 DEF Took, LedgerTypeOK
        <3>4. Held(kind, t)' = SumFunctionOnSet(Took(kind), Holding(t) \ {k})
            BY <3>1, <3>3 DEF Held
        <3>5. SumFunctionOnSet(Took(kind), Holding(t) \ {k}) \in Int
            BY <1>1, SumsAreNumbers
        <3>6. pool'[t] = Plus(pool[t], charge[k])
            BY <2>1, <2>3 DEF LedgerTypeOK
        <3>7. pool'[t][kind] = pool[t][kind] + charge[k][kind] /\ charge[k][kind] \in Nat
            BY <1>1, <3>3, <3>6 DEF Plus, Pool, Kinds
        <3> QED
            BY <1>1, <3>2, <3>3, <3>4, <3>5, <3>7
    <2> QED
        BY <2>2, <2>3
<1>5. ASSUME NEW k \in Jobs, Deliver(k) \/ DeliverFree(k)
      PROVE  Balanced
    <2>1. /\ UNCHANGED <<pool, charge>>
          /\ \A j \in Jobs : phase'[j] \in {"held", "delivered"} <=> phase[j] \in {"held", "delivered"}
        BY <1>5 DEF Deliver, DeliverFree, LedgerTypeOK
    <2>2. Holding(t)' = Holding(t)
        BY <2>1 DEF Holding
    <2> QED
        BY <1>2, <2>1, <2>2
<1> QED
    BY <1>3, <1>4, <1>5 DEF Billing

\* The steps of the ledger: billing, or one that leaves the jobs alone.
LEMMA LedgerSteps ==
    ASSUME LedgerTypeOK, [LedgerNext]_ledgerVars
    PROVE  \/ Billing /\ UNCHANGED purchaseVars
           \/ /\ UNCHANGED <<charge, phase>>
              /\ \/ \E p \in Purchases : AddTopup(p)
                 \/ \E t \in Teams, a \in Plans : Refill(t, a)
                 \/ \E t \in Teams : MoveLeftover(t)
                 \/ UNCHANGED <<pool, added, refilled, overtaken>>
<1>1. ASSUME NEW r \in Requests, NEW w \in 1 .. MaxOutputs, ChargeBatch(r, w)
      PROVE  Billing /\ UNCHANGED purchaseVars
    <2>1. PICK n, c : Batch(r, n, c)
        BY <1>1, ChargeIsBatch
    <2> QED
        BY <2>1 DEF Billing, Batch
<1>2. ASSUME NEW j \in Jobs, Deliver(j) \/ Refund(j) \/ DeliverFree(j)
      PROVE  Billing /\ UNCHANGED purchaseVars
    BY <1>2 DEF Billing, Deliver, Refund, DeliverFree
<1> QED
    BY <1>1, <1>2 DEF LedgerNext, LoadTeam, AddTopup, PurchaseFails, Refill, MoveLeftover,
                      ledgerVars, purchaseVars

\* A step that leaves the jobs alone leaves their sums alone.
LEMMA JobsAlone ==
    ASSUME UNCHANGED <<charge, phase>>, NEW t
    PROVE  /\ Holding(t)' = Holding(t) /\ SubOf' = SubOf /\ TopOf' = TopOf
           /\ SubHeld(t)' = SubHeld(t) /\ TopupHeld(t)' = TopupHeld(t)
<1>1. Holding(t)' = Holding(t) /\ SubOf' = SubOf /\ TopOf' = TopOf
    BY DEF Holding, SubOf, TopOf
<1> QED
    BY <1>1 DEF SubHeld, TopupHeld

\* Every step keeps a team's top-up credits in balance, except a grant on a
\* balance that is out of date.
LEMMA TopupsStep ==
    ASSUME LedgerTypeOK, LedgerTypeOK', TopupsArePermanent, [LedgerNext]_ledgerVars
    PROVE  TopupsArePermanent'
<1> SUFFICES ASSUME NEW t \in Teams, Undisturbed(t)'
             PROVE  pool'[t].top + TopupHeld(t)' = OpeningPool.top + added'[t]
    BY DEF TopupsArePermanent
<1> DEFINE Balanced == pool'[t].top + TopupHeld(t)' = OpeningPool.top + added'[t]
<1>1. /\ pool[t] \in Pool /\ pool[t].top \in Nat /\ pool[t].sub \in Nat /\ added[t] \in Nat
      /\ OpeningPool.top \in Nat /\ TopupHeld(t) \in Int
    BY LedgerFacts, SumsAreNumbers, HeldIsHeld DEF LedgerTypeOK, Pool, Kinds
<1>2. Undisturbed(t) => pool[t].top + TopupHeld(t) = OpeningPool.top + added[t]
    BY DEF TopupsArePermanent
<1>3. overtaken \subseteq overtaken' => Undisturbed(t)
    BY DEF Undisturbed
<1>4. CASE Billing /\ UNCHANGED purchaseVars
    <2>1. pool'[t]["top"] + Held("top", t)' = pool[t]["top"] + Held("top", t)
        BY <1>4, BillingKeeps DEF Kinds
    <2>2. TopupHeld(t) = Held("top", t) /\ TopupHeld(t)' = Held("top", t)'
        BY DEF TopupHeld, Held, TopOf, Took
    <2> QED
        BY <1>2, <1>3, <1>4, <2>1, <2>2 DEF purchaseVars
<1>5. ASSUME UNCHANGED <<charge, phase>>, NEW p \in Purchases, AddTopup(p)
      PROVE  Balanced
    <2> DEFINE b == BuyerOf[p]
               sum == purchase[p].seen + PackOf[p]
    <2>1. /\ b \in Teams /\ PackOf[p] \in Nat /\ TopupHeld(t)' = TopupHeld(t)
          /\ overtaken \subseteq overtaken'
          /\ purchase[p].seen # pool[b].top => p \in overtaken'
          /\ pool' = [pool EXCEPT ![b] = [pool[b] EXCEPT !.top = sum]]
          /\ added' = [added EXCEPT ![b] = @ + PackOf[p]]
        BY <1>5, LedgerFacts, JobsAlone DEF AddTopup
    <2> HIDE DEF b, sum
    <2>2. CASE b # t
        BY <1>1, <1>2, <1>3, <2>1, <2>2 DEF LedgerTypeOK
    <2>3. CASE b = t
        <3>1. purchase[p].seen = pool[t].top
            BY <2>1, <2>3 DEF Undisturbed, b
        <3>2. pool'[t].top = pool[t].top + PackOf[p] /\ added'[t] = added[t] + PackOf[p]
            BY <1>1, <2>1, <2>3, <3>1 DEF LedgerTypeOK, Pool, sum
        <3> QED
            BY <1>1, <1>2, <1>3, <2>1, <3>2
    <2> QED
        BY <2>2, <2>3
<1>6. ASSUME UNCHANGED <<charge, phase>>, NEW u \in Teams, NEW a \in Plans, Refill(u, a)
      PROVE  Balanced
    <2>1. /\ UNCHANGED <<added, overtaken>> /\ TopupHeld(t)' = TopupHeld(t)
          /\ pool' = [pool EXCEPT ![u] = [pool[u] EXCEPT !.sub = a]]
        BY <1>6, JobsAlone DEF Refill
    <2>2. pool'[t].top = pool[t].top
        BY <1>1, <2>1 DEF LedgerTypeOK, Pool
    <2> QED
        BY <1>2, <1>3, <2>1, <2>2
<1>7. ASSUME UNCHANGED <<charge, phase>>, NEW u \in Teams, MoveLeftover(u)
      PROVE  Balanced
    <2>1. /\ overtaken' = overtaken /\ TopupHeld(t)' = TopupHeld(t)
          /\ pool' = [pool EXCEPT ![u] = [sub |-> 0, top |-> @.top + @.sub]]
          /\ added' = [added EXCEPT ![u] = @ + pool[u].sub]
        BY <1>7, JobsAlone DEF MoveLeftover
    <2>2. /\ pool'[t].top = IF u = t THEN pool[t].top + pool[t].sub ELSE pool[t].top
          /\ added'[t] = IF u = t THEN added[t] + pool[t].sub ELSE added[t]
        BY <1>1, <2>1 DEF LedgerTypeOK, Pool
    <2> QED
        BY <1>1, <1>2, <1>3, <2>1, <2>2
<1>8. CASE UNCHANGED <<charge, phase>> /\ UNCHANGED <<pool, added, refilled, overtaken>>
    BY <1>2, <1>3, <1>8, JobsAlone
<1> QED
    BY <1>4, <1>5, <1>6, <1>7, <1>8, LedgerSteps

\* Bought credits are permanent, for any number of teams, purchases, refills,
\* switches, batches, deliveries and refunds, for each team none of whose packs
\* was granted on a balance that had changed since it was read.
THEOREM TopupsStay == LedgerSpec => []TopupsArePermanent
<1>1. LedgerInit => TopupsArePermanent
    <2> SUFFICES ASSUME LedgerInit, NEW t \in Teams
                 PROVE  pool[t].top + TopupHeld(t) = OpeningPool.top + added[t]
        BY DEF TopupsArePermanent
    <2>1. Holding(t) = {}
        BY DEF LedgerInit, Holding
    <2>2. TopupHeld(t) = 0
        BY <2>1, FS_EmptySet, SumZero DEF TopupHeld
    <2> QED
        BY <2>2, LedgerFacts DEF LedgerInit, Pool
<1> QED
    BY <1>1, LedgerIsTyped, TopupsStep, PTL DEF LedgerSpec
-----------------------------------------------------------------------------
(* The subscription pool.                                                  *)

\* Jobs that held a charge at the last refill have one: their charges are
\* final, and a batch that is created later is not among them.
HeldWereCharged == \A t \in Teams : \A j \in refilled[t].held : phase[j] # "absent"

\* RefillsReplace is inductive with it.
RefillInv == HeldWereCharged /\ RefillsReplace

\* A job with a charge keeps it, and never becomes absent again.
LEMMA ChargesAreFinal ==
    ASSUME LedgerTypeOK, [LedgerNext]_ledgerVars, NEW j \in Jobs, phase[j] # "absent"
    PROVE  charge'[j] = charge[j] /\ phase'[j] # "absent"
<1>1. ASSUME NEW r \in Requests, NEW n, NEW c, Batch(r, n, c)
      PROVE  charge'[j] = charge[j] /\ phase'[j] = phase[j]
    <2>1. \A k \in New(r, n) : phase[k] = "absent"
        BY <1>1, NewJobs
    <2>2. \A k \in Jobs \ New(r, n) : phase'[k] = phase[k] /\ charge'[k] = charge[k]
        BY <1>1, NewJobs
    <2> QED
        BY <2>1, <2>2
<1>2. ASSUME NEW k \in Jobs, Deliver(k) \/ Refund(k) \/ DeliverFree(k)
      PROVE  charge'[j] = charge[j] /\ phase'[j] # "absent"
    BY <1>2 DEF Deliver, Refund, DeliverFree, LedgerTypeOK
<1> QED
    BY <1>1, <1>2, LedgerSteps DEF Billing

\* Every step keeps both.
LEMMA RefillStep ==
    ASSUME LedgerTypeOK, LedgerTypeOK', RefillInv, [LedgerNext]_ledgerVars
    PROVE  RefillInv'
<1> USE DEF RefillInv
<1>1. \A t \in Teams : /\ refilled[t].held \in SUBSET Jobs /\ refilled[t].credits \in Nat
                       /\ Holding(t) \in SUBSET Jobs
                       /\ \A j \in Holding(t) : phase[j] # "absent"
    BY DEF LedgerTypeOK, Holding
<1>2. HeldWereCharged'
    <2> SUFFICES ASSUME NEW t \in Teams, NEW j \in refilled'[t].held PROVE phase'[j] # "absent"
        BY DEF HeldWereCharged
    <2>1. \/ refilled'[t] = refilled[t]
          \/ refilled'[t].held = Holding(t)
        <3>1. ASSUME NEW u \in Teams, NEW a, SetTo(u, a)
              PROVE  refilled'[t] = refilled[t] \/ refilled'[t].held = Holding(t)
            BY <3>1 DEF SetTo, LedgerTypeOK
        <3>2. refilled' = refilled \/ \E u \in Teams : \E a : SetTo(u, a)
            BY LedgerSteps DEF purchaseVars, AddTopup, Refill, MoveLeftover
        <3> QED
            BY <3>1, <3>2
    <2>2. j \in Jobs /\ phase[j] # "absent"
        BY <1>1, <2>1 DEF HeldWereCharged
    <2> QED
        BY <2>2, ChargesAreFinal
<1>3. ASSUME NEW t \in Teams
      PROVE  pool'[t].sub + SubHeld(t)'
                = refilled'[t].credits + SumFunctionOnSet(SubOf', refilled'[t].held)
    <2> DEFINE IsReplaced == pool'[t].sub + SubHeld(t)'
                  = refilled'[t].credits + SumFunctionOnSet(SubOf', refilled'[t].held)
    <2>1. pool[t].sub + SubHeld(t)
            = refilled[t].credits + SumFunctionOnSet(SubOf, refilled[t].held)
        BY DEF RefillsReplace
    <2>2. pool[t] \in Pool /\ pool[t].sub \in Nat /\ pool[t].top \in Nat
        BY DEF LedgerTypeOK, Pool
    <2>3. CASE Billing /\ UNCHANGED purchaseVars
        <3>1. pool'[t]["sub"] + Held("sub", t)' = pool[t]["sub"] + Held("sub", t)
            BY <2>3, BillingKeeps DEF Kinds
        <3>2. SubHeld(t) = Held("sub", t) /\ SubHeld(t)' = Held("sub", t)'
            BY DEF SubHeld, Held, SubOf, Took
        <3>3. SumFunctionOnSet(SubOf', refilled[t].held) = SumFunctionOnSet(SubOf, refilled[t].held)
            <4>1. \A j \in refilled[t].held : charge'[j] = charge[j]
                BY <1>1, ChargesAreFinal DEF HeldWereCharged
            <4>2. SubOf = Took("sub") /\ SubOf' = Took("sub")'
                BY DEF SubOf, Took
            <4> QED
                BY <1>1, <4>1, <4>2, SameTaken DEF Kinds
        <3>4. refilled' = refilled
            BY <2>3 DEF purchaseVars
        <3> QED
            BY <2>1, <3>1, <3>2, <3>3, <3>4
    <2>4. ASSUME UNCHANGED <<charge, phase>>, refilled'[t] = refilled[t], pool'[t].sub = pool[t].sub
          PROVE  IsReplaced
        BY <2>1, <2>4, JobsAlone
    <2>5. ASSUME UNCHANGED <<charge, phase>>,
                 refilled'[t] = [credits |-> pool'[t].sub, held |-> Holding(t)]
          PROVE  IsReplaced
        BY <2>5, JobsAlone DEF SubHeld
    <2>6. ASSUME UNCHANGED <<charge, phase>>, NEW p \in Purchases, AddTopup(p)
          PROVE  IsReplaced
        <3>1. /\ refilled' = refilled
              /\ pool' = [pool EXCEPT ![BuyerOf[p]]
                            = [pool[BuyerOf[p]] EXCEPT !.top = purchase[p].seen + PackOf[p]]]
            BY <2>6 DEF AddTopup
        <3>2. pool'[t].sub = pool[t].sub
            BY <2>2, <3>1 DEF LedgerTypeOK, Pool
        <3> QED
            BY <2>4, <2>6, <3>1, <3>2
    <2>7. ASSUME UNCHANGED <<charge, phase>>, NEW u \in Teams, NEW a,
                 Refill(u, a) \/ (MoveLeftover(u) /\ a = 0)
          PROVE  IsReplaced
        <3>1. refilled' = [refilled EXCEPT ![u] = [credits |-> a, held |-> Holding(u)]]
            BY <2>7 DEF Refill, MoveLeftover, SetTo
        <3>2. \/ pool' = [pool EXCEPT ![u] = [pool[u] EXCEPT !.sub = a]]
              \/ a = 0 /\ pool' = [pool EXCEPT ![u] = [sub |-> 0, top |-> @.top + @.sub]]
            BY <2>7 DEF Refill, MoveLeftover
        <3>3. CASE u = t
            <4>1. pool'[t].sub = a
                BY <2>2, <3>2, <3>3 DEF LedgerTypeOK, Pool
            <4>2. refilled'[t] = [credits |-> a, held |-> Holding(t)]
                BY <3>1, <3>3 DEF LedgerTypeOK
            <4> QED
                BY <2>5, <2>7, <4>1, <4>2
        <3>4. CASE u # t
            BY <2>4, <2>7, <3>1, <3>2, <3>4 DEF LedgerTypeOK
        <3> QED
            BY <3>3, <3>4
    <2>8. CASE UNCHANGED <<charge, phase>> /\ UNCHANGED <<pool, added, refilled, overtaken>>
        BY <2>4, <2>8
    <2> QED
        BY <2>3, <2>6, <2>7, <2>8, LedgerSteps
<1> QED
    BY <1>2, <1>3 DEF RefillsReplace

\* A refill replaces what is left, and only refunds of jobs that were paid
\* before bring lapsed credits back: for any number of teams, batches, refills,
\* switches and packs, late grants included.
THEOREM RefillsDoReplace == LedgerSpec => []RefillsReplace
<1>1. LedgerInit => RefillInv
    <2> SUFFICES ASSUME LedgerInit, NEW t \in Teams
                 PROVE  /\ refilled[t].held = {}
                        /\ pool[t].sub + SubHeld(t)
                             = refilled[t].credits + SumFunctionOnSet(SubOf, refilled[t].held)
        BY DEF RefillInv, HeldWereCharged, RefillsReplace
    <2>1. refilled[t] = [credits |-> OpeningPool.sub, held |-> {}] /\ pool[t] = OpeningPool
        BY DEF LedgerInit
    <2>2. Holding(t) = {}
        BY DEF LedgerInit, Holding
    <2> QED
        BY <2>1, <2>2 DEF SubHeld
<1>2. RefillInv => RefillsReplace
    BY DEF RefillInv
<1> QED
    BY <1>1, <1>2, LedgerIsTyped, RefillStep, PTL DEF LedgerSpec
=============================================================================

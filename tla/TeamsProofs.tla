---------------------------- MODULE TeamsProofs ----------------------------
(***************************************************************************)
(* Theorems about Teams for every number of users, requests, invites,      *)
(* payments and deliveries, every cap and every set of events: the type    *)
(* invariant, the cap on the members, the finality of the grace period,    *)
(* one invite for each address, and the account of the payments.           *)
(*                                                                         *)
(* None of the last four is inductive.  A request that applies a role      *)
(* writes a member without counting, and adds none only because the row it *)
(* has read is still there (RowsRead).  The purge does not look again, and *)
(* is right only because nothing is left by then that could bring the team *)
(* back (GraceIsFinal).  A request creates an invite on a look-up that may *)
(* be old, and is right as long as the address is not cooling              *)
(* (LookedUpRightly).  A payment writes a balance it has read without the  *)
(* lock, and is right as long as nothing was credited since                *)
(* (SeenBeforeCredits).                                                    *)
(***************************************************************************)
EXTENDS Teams, FiniteSetTheorems, TLAPS

\* What an open request carries was taken from an invite or from its caller.
RequestsCarry ==
    \A q \in Requests :
        request[q].at \in {"inviting", "accepting", "joining"} =>
            request[q].user \in Users /\ request[q].role \in Roles

\* A request that will write the row of a member has read one that is there.
RowsRead ==
    \A q \in Requests :
        request[q].at = "joining" /\ request[q].seen \notin {"none", request[q].role} =>
            member[request[q].user] # "none"

\* No request, handler or purge of a purged team is open.
NobodyIsLeft ==
    team = "purged" =>
        /\ ~sweeping
        /\ \A q \in Requests : request[q] = Idle
        /\ \A p \in Payments, d \in Deliveries : handler[p][d] = Free

\* The bound of the model on the invites.
InvitesBounded == Len(invite) <= MaxInvites

\* The inductive invariant.
IInv == TypeOK /\ RequestsCarry /\ RowsRead /\ NobodyIsLeft /\ InvitesBounded /\ MemberCap
-----------------------------------------------------------------------------
\* Members are finitely many, and the cap bounds any part of them.
LEMMA MembersAreFinite == IsFiniteSet(Members) /\ MemberCount \in Nat
<1>1. IsFiniteSet(Members)
    BY TeamsAssumption, FS_Subset DEF Members
<1> QED
    BY <1>1, FS_CardinalityType DEF MemberCount

\* The rows of team_invites are invites.
LEMMA InvitesAreTyped ==
    ASSUME invite \in Seq(InviteType)
    PROVE  /\ DOMAIN invite = 1 .. Len(invite) /\ Len(invite) \in Nat
           /\ \A i \in DOMAIN invite : invite[i] \in InviteType
OBVIOUS

\* Changing the i-th invite, if there is one, leaves a sequence of invites
\* as long as it was.
LEMMA InviteChanges ==
    ASSUME TypeOK, NEW i, NEW new \in InviteType
    PROVE  LET s == [invite EXCEPT ![i] = new]
           IN  s \in Seq(InviteType) /\ Len(s) = Len(invite)
<1>1. invite \in [1 .. Len(invite) -> InviteType] /\ Len(invite) \in Nat
    BY DEF TypeOK
<1>2. [invite EXCEPT ![i] = new] \in [1 .. Len(invite) -> InviteType]
    BY <1>1
<1> QED
    BY <1>1, <1>2

\* The first state satisfies the invariant: the first owners are within the
\* cap.
LEMMA InitIInv == Init => IInv
<1> SUFFICES ASSUME Init PROVE IInv
    OBVIOUS
<1>1. Members = FirstOwners
    BY TeamsAssumption DEF Init, Members
<1>2. MemberCap
    BY <1>1, TeamsAssumption DEF MemberCap, MemberCount
<1>3. TypeOK
    <2>1. member \in [Users -> Roles \union {"none"}]
        BY DEF Init, Roles
    <2>2. request \in [Requests -> RequestType]
        BY TeamsAssumption DEF Init, RequestType, Idle, Ats, Roles
    <2>3. handler \in [Payments -> [Deliveries ->
                        [at : Statuses \union {"free", "priced"}, seen : Nat]]]
        BY DEF Init, Free, Statuses
    <2>4. invite \in Seq(InviteType) /\ team = "live"
        BY DEF Init
    <2> QED
        BY <2>1, <2>2, <2>3, <2>4 DEF Init, TypeOK, Statuses
<1>4. RequestsCarry /\ RowsRead /\ NobodyIsLeft /\ InvitesBounded
    BY TeamsAssumption DEF Init, RequestsCarry, RowsRead, NobodyIsLeft, InvitesBounded, Idle
<1> QED
    BY <1>2, <1>3, <1>4 DEF IInv
-----------------------------------------------------------------------------
\* Only these steps change the invites.
LEMMA WhoChangesInvites ==
    ASSUME [Next]_vars
    PROVE  \/ invite' = invite \/ Purge
           \/ \E i \in DOMAIN invite : InviteExpires(i)
           \/ \E q \in Requests : \/ CreateInvite(q) \/ UpdateInvite(q) \/ CancelInvite(q)
                                  \/ Join(q) \/ ApplyRole(q)
BY DEF Next, vars, InviteStep, TeamStep, PaymentStep, Passing, AskInvite, RefuseInvite,
       AskCancel, AskAccept, ReadMembership, RefuseJoin, AskRemove, RemoveMember,
       AskDelete, DeleteTeam, AskRestore, RestoreTeam, StartPayment, ReadTeam,
       RecordOnly, Grant, PaymentFails, Handles, SelectExpired, PurgeFails,
       GraceEnding, GraceEnds, CooldownEnds, Spend

\* Invites stay invites, and within the bound.
LEMMA InvitesKeepType ==
    ASSUME IInv, [Next]_vars
    PROVE  invite' \in Seq(InviteType) /\ InvitesBounded'
<1>1. CASE invite' = invite
    BY <1>1 DEF IInv, TypeOK, InvitesBounded
<1>2. ASSUME NEW q \in Requests, CreateInvite(q)
      PROVE  invite' \in Seq(InviteType) /\ InvitesBounded'
    <2>1. NewInvite(q) \in InviteType
        BY <1>2 DEF CreateInvite, NewInvite, InviteType, IInv, RequestsCarry
    <2>2. invite \in Seq(InviteType)
        BY DEF IInv, TypeOK
    <2>3. Len(invite) < MaxInvites /\ invite' = Append(invite, NewInvite(q))
        BY <1>2 DEF CreateInvite
    <2>4. invite' \in Seq(InviteType)
        BY <2>1, <2>2, <2>3
    <2>5. Len(invite') <= MaxInvites
        BY <2>1, <2>2, <2>3, TeamsAssumption
    <2> QED
        BY <2>4, <2>5 DEF InvitesBounded
<1>3. ASSUME NEW q \in Requests, UpdateInvite(q)
      PROVE  invite' \in Seq(InviteType) /\ InvitesBounded'
    <2> DEFINE k == request[q].invite
               new == [invite[k] EXCEPT !.role = request[q].role]
    <2>1. CASE invite' = invite
        BY <2>1, <1>1
    <2>2. CASE invite' = [invite EXCEPT ![k] = new] /\ k \in DOMAIN invite
        <3>1. new \in InviteType
            <4>1. invite[k] \in InviteType
                BY <2>2, InvitesAreTyped DEF IInv, TypeOK
            <4>2. request[q].role \in Roles
                BY <1>3 DEF UpdateInvite, IInv, RequestsCarry
            <4> QED
                BY <4>1, <4>2 DEF InviteType
        <3> HIDE DEF new, k
        <3> QED
            BY <2>2, <3>1, InviteChanges DEF IInv, InvitesBounded
    <2>3. invite' = [invite EXCEPT ![k] = new] /\ k \notin DOMAIN invite => invite' = invite
        BY DEF IInv, TypeOK
    <2> QED
        BY <1>3, <2>1, <2>2, <2>3 DEF UpdateInvite
<1>4. ASSUME NEW q \in Requests, CancelInvite(q) \/ Join(q) \/ ApplyRole(q)
      PROVE  invite' \in Seq(InviteType) /\ InvitesBounded'
    <2> DEFINE k == request[q].invite
               new(s) == [invite[k] EXCEPT !.status = s]
    <2>1. PICK s \in {"accepted", "cancelled"} : invite' = [invite EXCEPT ![k] = new(s)]
        BY <1>4 DEF CancelInvite, Join, ApplyRole, Accepted
    <2>2. CASE k \in DOMAIN invite
        <3>1. new(s) \in InviteType
            BY <2>2, InvitesAreTyped DEF IInv, TypeOK, InviteType
        <3> HIDE DEF new, k
        <3> QED
            BY <2>1, <3>1, InviteChanges DEF IInv, InvitesBounded
    <2>3. CASE k \notin DOMAIN invite
        BY <2>1, <2>3, <1>1 DEF IInv, TypeOK
    <2> QED
        BY <2>2, <2>3
<1>5. ASSUME NEW i \in DOMAIN invite, InviteExpires(i)
      PROVE  invite' \in Seq(InviteType) /\ InvitesBounded'
    <2> DEFINE new == [invite[i] EXCEPT !.live = FALSE]
    <2>1. new \in InviteType
        BY InvitesAreTyped DEF IInv, TypeOK, InviteType
    <2>2. invite' = [invite EXCEPT ![i] = new]
        BY <1>5 DEF InviteExpires
    <2> HIDE DEF new
    <2> QED
        BY <2>1, <2>2, InviteChanges DEF IInv, InvitesBounded
<1>6. CASE Purge
    BY <1>6, TeamsAssumption DEF Purge, InvitesBounded
<1> QED
    BY <1>1, <1>2, <1>3, <1>4, <1>5, <1>6, WhoChangesInvites

\* Only these steps change the payments, their handlers and the balance.
LEMMA WhoChangesMoney ==
    ASSUME [Next]_vars
    PROVE  \/ UNCHANGED money \/ Purge \/ Spend
           \/ \E p \in Payments, d \in Deliveries : PaymentStep(p, d)
BY DEF Next, vars, money, InviteStep, TeamStep, Passing, AskInvite, CreateInvite,
       UpdateInvite, RefuseInvite, AskCancel, CancelInvite, AskAccept, ReadMembership,
       Join, RefuseJoin, ApplyRole, AskRemove, RemoveMember, AskDelete, DeleteTeam,
       AskRestore, RestoreTeam, SelectExpired, PurgeFails, GraceEnding, GraceEnds,
       CooldownEnds, InviteExpires

\* The money of the team stays typed: balances and what handlers have read
\* of them are natural numbers.
LEMMA MoneyKeepsType ==
    ASSUME IInv, [Next]_vars
    PROVE  /\ txn' \in [Payments -> Statuses]
           /\ handler' \in [Payments -> [Deliveries ->
                               [at : Statuses \union {"free", "priced"}, seen : Nat]]]
           /\ balance' \in Nat /\ spent' \in Nat
<1> DEFINE HandlerType == [at : Statuses \union {"free", "priced"}, seen : Nat]
           Fine == /\ txn' \in [Payments -> Statuses]
                   /\ handler' \in [Payments -> [Deliveries -> HandlerType]]
                   /\ balance' \in Nat /\ spent' \in Nat
<1>1. CASE UNCHANGED money
    BY <1>1 DEF money, IInv, TypeOK
<1>2. ASSUME NEW p \in Payments, NEW d \in Deliveries, NEW h \in HandlerType,
             Handles(p, d, h)
      PROVE  handler' \in [Payments -> [Deliveries -> HandlerType]] /\ spent' \in Nat
    BY <1>2 DEF Handles, IInv, TypeOK
<1>3. ASSUME NEW p \in Payments, NEW d \in Deliveries, PaymentStep(p, d)
      PROVE  Fine
    <2> handler[p][d] \in HandlerType
        BY DEF IInv, TypeOK
    <2>1. Free \in HandlerType /\ {"none", "completed", "held", "mismatch"} = Statuses
        BY DEF Free, Statuses
    <2>2. PICK h \in HandlerType : Handles(p, d, h)
        <3>1. CASE StartPayment(p, d)
            BY <2>1, <3>1 DEF StartPayment, Free
        <3>2. CASE ReadTeam(p, d)
            BY <2>1, <3>2 DEF ReadTeam, Free, IInv, TypeOK
        <3>3. CASE RecordOnly(p, d) \/ Grant(p, d) \/ PaymentFails(p, d)
            BY <2>1, <3>3 DEF RecordOnly, Grant, PaymentFails
        <3> QED
            BY <1>3, <3>1, <3>2, <3>3 DEF PaymentStep
    <2>3. handler' \in [Payments -> [Deliveries -> HandlerType]] /\ spent' \in Nat
        BY <1>2, <2>2
    <2>4. txn' \in [Payments -> Statuses] /\ balance' \in Nat
        BY <1>3, <2>1, TeamsAssumption
        DEF PaymentStep, StartPayment, ReadTeam, RecordOnly, Grant, PaymentFails, IInv, TypeOK
    <2> QED
        BY <2>3, <2>4
<1>4. CASE Purge
    BY <1>4 DEF Purge, Free, Statuses
<1>5. CASE Spend
    BY <1>5 DEF Spend, IInv, TypeOK
<1> QED
    BY <1>1, <1>3, <1>4, <1>5, WhoChangesMoney

\* Requests keep their type, and carry what they were opened with.
LEMMA RequestsKeepType ==
    ASSUME IInv, [Next]_vars
    PROVE  request' \in [Requests -> RequestType] /\ RequestsCarry'
<1> DEFINE Carried == {r \in RequestType :
                         r.at \in {"inviting", "accepting", "joining"} =>
                             r.user \in Users /\ r.role \in Roles}
<1>0. 0 \in 0 .. MaxInvites
    BY TeamsAssumption
<1>1. request \in [Requests -> Carried]
    BY DEF IInv, TypeOK, RequestsCarry
<1>2. Idle \in Carried
    BY <1>0 DEF Idle, RequestType, Ats
<1>3. SUFFICES request' \in [Requests -> Carried]
    BY <1>3 DEF RequestsCarry
<1>4. ASSUME NEW q \in Requests, NEW r \in Carried, Opens(q, r)
      PROVE  request' \in [Requests -> Carried]
    BY <1>1, <1>4 DEF Opens
<1>5. ASSUME NEW q \in Requests, Close(q) \/ CoolAndClose(q)
      PROVE  request' \in [Requests -> Carried]
    <2>1. CASE Close(q)
        BY <1>1, <1>2, <2>1 DEF Close
    <2>2. CASE CoolAndClose(q)
        <3>1. ASSUME NEW r \in Carried, NEW b \in BOOLEAN
              PROVE  [r EXCEPT !.early = b] \in Carried
            BY DEF RequestType
        <3>2. \A x \in Requests : request[x] \in Carried /\ request[x].early \in BOOLEAN
            BY <1>1 DEF RequestType
        <3> HIDE DEF Carried
        <3> QED
            BY <1>2, <2>2, <3>1, <3>2 DEF CoolAndClose
    <2> QED
        BY <1>5, <2>1, <2>2
<1>6. ASSUME NEW q \in Requests, AskInvite(q)
      PROVE  request' \in [Requests -> Carried]
    <2>1. ASSUME NEW u \in Users, NEW role \in RolesGiven,
                 NEW i \in 0 .. MaxInvites, NEW seen \in Roles \union {"none"}
          PROVE  [Idle EXCEPT !.at = "inviting", !.user = u, !.role = role,
                              !.invite = i, !.seen = seen] \in Carried
        BY <1>0, TeamsAssumption DEF Idle, RequestType, Ats, Roles
    <2>2. CASE \E u \in Users, role \in RolesGiven :
                 Opens(q, [Idle EXCEPT !.at = "inviting", !.user = u, !.role = role])
        <3>1. PICK u \in Users, role \in RolesGiven :
                Opens(q, [Idle EXCEPT !.at = "inviting", !.user = u, !.role = role])
            BY <2>2
        <3>2. [Idle EXCEPT !.at = "inviting", !.user = u, !.role = role] \in Carried
            BY <1>0, TeamsAssumption DEF Idle, RequestType, Ats, Roles
        <3> HIDE DEF Carried
        <3> QED
            BY <1>4, <3>1, <3>2
    <2>3. CASE \E u \in Users, role \in RolesGiven : \E i \in PendingFor(u) :
                 Opens(q, [Idle EXCEPT !.at = "inviting", !.user = u, !.role = role,
                                       !.invite = i, !.seen = invite[i].role])
        <3>1. PICK u \in Users, role \in RolesGiven : \E i \in PendingFor(u) :
                Opens(q, [Idle EXCEPT !.at = "inviting", !.user = u, !.role = role,
                                      !.invite = i, !.seen = invite[i].role])
            BY <2>3
        <3> PICK i \in PendingFor(u) :
                Opens(q, [Idle EXCEPT !.at = "inviting", !.user = u, !.role = role,
                                      !.invite = i, !.seen = invite[i].role])
            BY <3>1
        <3>2. i \in 0 .. MaxInvites /\ invite[i].role \in Roles
            BY InvitesAreTyped, TeamsAssumption
            DEF IInv, TypeOK, InvitesBounded, PendingFor, InviteType
        <3> HIDE DEF Carried
        <3> QED
            BY <1>4, <2>1, <3>1, <3>2
    <2> QED
        BY <1>6, <2>2, <2>3 DEF AskInvite
<1>7. ASSUME NEW q \in Requests, AskCancel(q)
      PROVE  request' \in [Requests -> Carried]
    <2>1. PICK i \in DOMAIN invite : Opens(q, [Idle EXCEPT !.at = "cancelling", !.invite = i])
        BY <1>7 DEF AskCancel
    <2>2. i \in 0 .. MaxInvites
        BY InvitesAreTyped, TeamsAssumption DEF IInv, TypeOK, InvitesBounded
    <2>3. [Idle EXCEPT !.at = "cancelling", !.invite = i] \in Carried
        BY <2>2 DEF Idle, RequestType, Ats
    <2> HIDE DEF Carried
    <2> QED
        BY <1>4, <2>1, <2>3
<1>8. ASSUME NEW q \in Requests, AskAccept(q)
      PROVE  request' \in [Requests -> Carried]
    <2>1. PICK i \in DOMAIN invite :
            Opens(q, [Idle EXCEPT !.at = "accepting", !.invite = i,
                                  !.user = invite[i].for, !.role = invite[i].role])
        BY <1>8 DEF AskAccept
    <2>2. i \in 0 .. MaxInvites /\ invite[i].for \in Users /\ invite[i].role \in Roles
        BY InvitesAreTyped, TeamsAssumption DEF IInv, TypeOK, InvitesBounded, InviteType
    <2>3. [Idle EXCEPT !.at = "accepting", !.invite = i,
                       !.user = invite[i].for, !.role = invite[i].role] \in Carried
        BY <2>2 DEF Idle, RequestType, Ats
    <2> HIDE DEF Carried
    <2> QED
        BY <1>4, <2>1, <2>3
<1>9. ASSUME NEW q \in Requests, ReadMembership(q)
      PROVE  request' \in [Requests -> Carried]
    <2>1. request[q] \in Carried /\ request[q].at = "accepting"
        BY <1>1, <1>9 DEF ReadMembership
    <2>2. member[request[q].user] \in Roles \union {"none"}
        BY <2>1 DEF IInv, TypeOK
    <2>3. [request[q] EXCEPT !.at = "joining", !.seen = member[request[q].user]] \in Carried
        BY <2>1, <2>2 DEF RequestType, Ats
    <2>4. request' = [request EXCEPT ![q] =
                        [request[q] EXCEPT !.at = "joining", !.seen = member[request[q].user]]]
        BY <1>1, <1>9 DEF ReadMembership
    <2> HIDE DEF Carried
    <2> QED
        BY <1>1, <2>3, <2>4
<1>10. ASSUME NEW q \in Requests, AskRemove(q) \/ AskDelete(q) \/ AskRestore(q)
       PROVE  request' \in [Requests -> Carried]
    <2>1. ASSUME NEW u \in Users PROVE [Idle EXCEPT !.at = "removing", !.user = u] \in Carried
        BY <1>0 DEF Idle, RequestType, Ats
    <2>2. \A at \in {"deleting", "restoring"} : [Idle EXCEPT !.at = at] \in Carried
        BY <1>0 DEF Idle, RequestType, Ats
    <2>3. Members \subseteq Users
        BY DEF Members
    <2>4. CASE AskRemove(q)
        BY <1>4, <2>1, <2>3, <2>4 DEF AskRemove
    <2>5. CASE AskDelete(q)
        BY <1>4, <2>2, <2>5 DEF AskDelete
    <2>6. CASE AskRestore(q)
        BY <1>4, <2>2, <2>6 DEF AskRestore
    <2> QED
        BY <1>10, <2>4, <2>5, <2>6
<1>11. ASSUME NEW q \in Requests, RemoveMember(q)
       PROVE  request' \in [Requests -> Carried]
    BY <1>1, <1>2, <1>11 DEF RemoveMember
<1>12. CASE Purge
    BY <1>2, <1>12 DEF Purge
<1>13. CASE request' = request
    BY <1>1, <1>13
<1>14. ASSUME NEW q \in Requests, InviteStep(q) \/ TeamStep(q)
       PROVE  request' \in [Requests -> Carried]
    <2>1. Close(q) \/ CoolAndClose(q) \/ AskInvite(q) \/ AskCancel(q) \/ AskAccept(q)
          \/ ReadMembership(q) \/ AskRemove(q) \/ AskDelete(q) \/ AskRestore(q)
          \/ RemoveMember(q)
        BY <1>14 DEF InviteStep, TeamStep, CreateInvite, UpdateInvite, RefuseInvite,
                     CancelInvite, Join, RefuseJoin, ApplyRole, DeleteTeam, RestoreTeam
    <2> HIDE DEF Carried
    <2> QED
        BY <1>5, <1>6, <1>7, <1>8, <1>9, <1>10, <1>11, <2>1
<1>15. \/ request' = request \/ Purge
       \/ \E q \in Requests : InviteStep(q) \/ TeamStep(q)
    BY DEF Next, vars, PaymentStep, Passing, StartPayment, ReadTeam, RecordOnly, Grant,
           PaymentFails, Handles, SelectExpired, PurgeFails, GraceEnding, GraceEnds,
           CooldownEnds, InviteExpires, Spend
<1> QED
    BY <1>12, <1>13, <1>14, <1>15

\* Only these steps change the membership.
LEMMA WhoChangesMembers ==
    ASSUME [Next]_vars
    PROVE  \/ member' = member \/ Purge
           \/ \E q \in Requests : Join(q) \/ ApplyRole(q) \/ RemoveMember(q)
BY DEF Next, vars, money, InviteStep, TeamStep, PaymentStep, Passing, AskInvite,
       CreateInvite, UpdateInvite, RefuseInvite, AskCancel, CancelInvite, AskAccept,
       ReadMembership, RefuseJoin, AskRemove, AskDelete, DeleteTeam, AskRestore,
       RestoreTeam, StartPayment, ReadTeam, RecordOnly, Grant, PaymentFails, Handles,
       SelectExpired, PurgeFails, GraceEnding, GraceEnds, CooldownEnds, InviteExpires,
       Spend

\* A step leaves a set of members that is one the cap allows: it adds a
\* member only after counting, under the lock of the team.
LEMMA MembersKeepCap ==
    ASSUME IInv, [Next]_vars
    PROVE  member' \in [Users -> Roles \union {"none"}] /\ MemberCap'
<1> USE DEF IInv
<1>1. CASE member' = member
    BY <1>1 DEF TypeOK, MemberCap, MemberCount, Members
<1>2. ASSUME NEW q \in Requests, Join(q)
      PROVE  member' \in [Users -> Roles \union {"none"}] /\ MemberCap'
    <2> DEFINE u == request[q].user
    <2>1. u \in Users /\ request[q].role \in Roles
        BY <1>2 DEF Join, RequestsCarry
    <2>2. member' \in [Users -> Roles \union {"none"}]
        BY <1>2, <2>1 DEF Join, TypeOK
    <2>3. Members' = Members \union {u}
        BY <1>2, <2>1, <2>2 DEF Join, TypeOK, Members, Roles
    <2>4. Cardinality(Members \union {u}) \in {MemberCount, MemberCount + 1}
        BY MembersAreFinite, FS_AddElement DEF MemberCount
    <2> QED
        BY <1>2, <2>2, <2>3, <2>4, MembersAreFinite, TeamsAssumption
        DEF Join, MemberCap, MemberCount
<1>3. ASSUME NEW q \in Requests, ApplyRole(q)
      PROVE  member' \in [Users -> Roles \union {"none"}] /\ MemberCap'
    <2> DEFINE u == request[q].user
    <2>1. CASE request[q].seen = request[q].role
        BY <1>1, <1>3, <2>1 DEF ApplyRole
    <2>2. CASE request[q].seen # request[q].role
        <3>1. u \in Users /\ request[q].role \in Roles /\ member[u] # "none"
            BY <1>3, <2>2 DEF ApplyRole, RequestsCarry, RowsRead
        <3>2. member' = [member EXCEPT ![u] = request[q].role]
            BY <1>3, <2>2 DEF ApplyRole
        <3>3. member' \in [Users -> Roles \union {"none"}] /\ Members' = Members
            BY <3>1, <3>2 DEF TypeOK, Members, Roles
        <3> QED
            BY <3>3 DEF MemberCap, MemberCount
    <2> QED
        BY <2>1, <2>2
<1>4. ASSUME NEW q \in Requests, RemoveMember(q)
      PROVE  member' \in [Users -> Roles \union {"none"}] /\ MemberCap'
    <2>1. member' \in [Users -> Roles \union {"none"}] /\ Members' \subseteq Members
        BY <1>4 DEF RemoveMember, TypeOK, Members
    <2>2. Cardinality(Members') <= Cardinality(Members) /\ Cardinality(Members') \in Nat
        BY <2>1, MembersAreFinite, FS_Subset, FS_CardinalityType
    <2> QED
        BY <2>1, <2>2, MembersAreFinite, TeamsAssumption DEF MemberCap, MemberCount
<1>5. CASE Purge
    <2>1. member' \in [Users -> Roles \union {"none"}] /\ Members' = {}
        BY <1>5 DEF Purge, Members
    <2> QED
        BY <2>1, FS_EmptySet, TeamsAssumption DEF MemberCap, MemberCount
<1> QED
    BY <1>1, <1>2, <1>3, <1>4, <1>5, WhoChangesMembers

\* A request that has read the row of a member never finds it gone: removing
\* the member ends every request that would write the row.
LEMMA RowsReadStay ==
    ASSUME IInv, [Next]_vars
    PROVE  RowsRead'
<1> SUFFICES ASSUME NEW x \in Requests, request'[x].at = "joining",
                    request'[x].seen \notin {"none", request'[x].role}
             PROVE  member'[request'[x].user] # "none"
    BY DEF RowsRead
<1> USE DEF IInv
<1> request \in [Requests -> RequestType]
    BY DEF TypeOK
<1>1. CASE request' = request /\ member' = member
    BY <1>1 DEF RowsRead
<1>2. ASSUME NEW q \in Requests, Close(q) \/ CoolAndClose(q), member' = member
      PROVE  member'[request'[x].user] # "none"
    <2>1. \/ request'[x] = Idle
          \/ /\ request'[x].at = request[x].at
             /\ request'[x].seen = request[x].seen
             /\ request'[x].role = request[x].role
             /\ request'[x].user = request[x].user
        <3>1. request[x] \in RequestType
            OBVIOUS
        <3>2. CASE Close(q)
            BY <3>2 DEF Close
        <3>3. CASE CoolAndClose(q)
            BY <3>1, <3>3 DEF CoolAndClose, RequestType
        <3> QED
            BY <1>2, <3>2, <3>3
    <2> QED
        BY <1>2, <2>1 DEF RowsRead, Idle
<1>3. ASSUME NEW q \in Requests, NEW r, Opens(q, r), r.at # "joining", member' = member
      PROVE  member'[request'[x].user] # "none"
    BY <1>3 DEF Opens, RowsRead
<1>4. ASSUME NEW q \in Requests, ReadMembership(q)
      PROVE  member'[request'[x].user] # "none"
    BY <1>4 DEF ReadMembership, RowsRead, RequestType
<1>5. ASSUME NEW q \in Requests, Join(q) \/ ApplyRole(q)
      PROVE  member'[request'[x].user] # "none"
    <2>1. x # q /\ request'[x] = request[x]
        BY <1>5 DEF Join, ApplyRole, Close, Idle
    <2>2. request[q].role \in Roles /\ request[x].user \in Users
        BY <1>5, <2>1 DEF Join, ApplyRole, RequestsCarry
    <2>3. member[request[x].user] # "none"
        BY <2>1 DEF RowsRead
    <2> QED
        BY <1>5, <2>1, <2>2, <2>3 DEF Join, ApplyRole, TypeOK, Roles
<1>6. ASSUME NEW q \in Requests, RemoveMember(q)
      PROVE  member'[request'[x].user] # "none"
    <2>1. request'[x] = request[x] /\ ~WritesRowOf(x, request[q].user)
        BY <1>6 DEF RemoveMember, Idle
    <2>2. request[x].user # request[q].user /\ request[x].user \in Users
        BY <2>1 DEF WritesRowOf, RequestsCarry
    <2> QED
        BY <1>6, <2>1, <2>2 DEF RemoveMember, RowsRead, TypeOK
<1>7. CASE Purge
    BY <1>7 DEF Purge, Idle
<1>8. ASSUME NEW q \in Requests, \/ AskInvite(q) \/ AskCancel(q) \/ AskAccept(q)
                                 \/ AskRemove(q) \/ AskDelete(q) \/ AskRestore(q)
      PROVE  \E r : Opens(q, r) /\ r.at # "joining" /\ member' = member
    <2>1. CASE AskInvite(q)
        BY <2>1 DEF AskInvite, Idle
    <2>2. CASE AskCancel(q)
        BY <2>2 DEF AskCancel, Idle
    <2>3. CASE AskAccept(q)
        BY <2>3 DEF AskAccept, Idle
    <2>4. CASE AskRemove(q) \/ AskDelete(q) \/ AskRestore(q)
        BY <2>4 DEF AskRemove, AskDelete, AskRestore, Idle
    <2> QED
        BY <1>8, <2>1, <2>2, <2>3, <2>4
<1>9. ASSUME NEW q \in Requests, InviteStep(q) \/ TeamStep(q)
      PROVE  \/ ReadMembership(q) \/ Join(q) \/ ApplyRole(q) \/ RemoveMember(q)
             \/ AskInvite(q) \/ AskCancel(q) \/ AskAccept(q)
             \/ AskRemove(q) \/ AskDelete(q) \/ AskRestore(q)
             \/ ((Close(q) \/ CoolAndClose(q)) /\ member' = member)
    BY <1>9 DEF InviteStep, TeamStep, CreateInvite, UpdateInvite, RefuseInvite,
                CancelInvite, RefuseJoin, DeleteTeam, RestoreTeam
<1>10. \/ request' = request /\ member' = member
       \/ Purge
       \/ \E q \in Requests : InviteStep(q) \/ TeamStep(q)
    BY DEF Next, vars, PaymentStep, Passing, StartPayment, ReadTeam, RecordOnly, Grant,
           PaymentFails, Handles, SelectExpired, PurgeFails, GraceEnding, GraceEnds,
           CooldownEnds, InviteExpires, Spend
<1>11. CASE \E q \in Requests : InviteStep(q) \/ TeamStep(q)
    BY <1>2, <1>3, <1>4, <1>5, <1>6, <1>8, <1>9, <1>11
<1> QED
    BY <1>1, <1>7, <1>10, <1>11

\* Nothing happens to a team that has been purged.
LEMMA PurgedStays ==
    ASSUME IInv, [Next]_vars, team = "purged"
    PROVE  UNCHANGED <<member, invite, request, team, sweeping, handler, balance>>
<1> /\ Owners = {} /\ DOMAIN invite = {} /\ ~sweeping
    /\ \A q \in Requests : request[q].at = "idle"
    /\ \A p \in Payments, d \in Deliveries : handler[p][d].at = "free" /\ handler[p][d] = Free
    BY DEF IInv, TypeOK, NobodyIsLeft, Members, Owners, Idle, Free
<1>1. ASSUME NEW q \in Requests PROVE ~InviteStep(q) /\ ~TeamStep(q)
    BY DEF InviteStep, TeamStep, AskInvite, CreateInvite, UpdateInvite, RefuseInvite,
           AskCancel, CancelInvite, AskAccept, ReadMembership, Join, RefuseJoin,
           ApplyRole, AskRemove, RemoveMember, AskDelete, DeleteTeam, AskRestore,
           RestoreTeam, ByOwner, ByOwnerEvenDeleted
<1>2. ASSUME NEW p \in Payments, NEW d \in Deliveries PROVE ~PaymentStep(p, d)
    BY DEF PaymentStep, StartPayment, ReadTeam, RecordOnly, Grant, PaymentFails
<1>3. ~SelectExpired /\ ~Purge /\ ~PurgeFails /\ ~Spend /\ ~GraceEnding /\ ~GraceEnds
    BY DEF SelectExpired, Purge, PurgeFails, Spend, GraceEnding, GraceEnds
<1>4. CASE \E u \in Users : CooldownEnds(u)
    BY <1>4 DEF CooldownEnds, life, money
<1> QED
    BY <1>1, <1>2, <1>3, <1>4 DEF Next, Passing, vars, life

\* Nothing is left of a purged team.
LEMMA NobodyStays ==
    ASSUME IInv, [Next]_vars
    PROVE  /\ NobodyIsLeft'
           /\ team' = "purged" => Members' = {} /\ invite' = <<>> /\ balance' = 0
<1>1. CASE Purge
    BY <1>1 DEF Purge, NobodyIsLeft, Members
<1>2. CASE team = "purged"
    BY <1>2, PurgedStays DEF IInv, TypeOK, NobodyIsLeft, Members
<1>3. team # "purged" /\ ~Purge => team' # "purged"
    BY DEF Next, vars, life, InviteStep, TeamStep, PaymentStep, Passing, AskInvite,
           CreateInvite, UpdateInvite, RefuseInvite, AskCancel, CancelInvite, AskAccept,
           ReadMembership, Join, RefuseJoin, ApplyRole, AskRemove, RemoveMember,
           AskDelete, DeleteTeam, AskRestore, RestoreTeam, StartPayment, ReadTeam,
           RecordOnly, Grant, PaymentFails, Handles, SelectExpired, PurgeFails,
           GraceEnding, GraceEnds, CooldownEnds, InviteExpires, Spend
<1> QED
    BY <1>1, <1>2, <1>3 DEF NobodyIsLeft

\* The steps of the passing of time and of the purge keep their types.
LEMMA LifeKeepsType ==
    ASSUME IInv, [Next]_vars
    PROVE  /\ cooling' \subseteq Users
           /\ team' \in {"live", "deleted", "purged"}
           /\ grace' \in {"begun", "ending", "over"}
           /\ sweeping' \in BOOLEAN
<1>1. ASSUME NEW q \in Requests, CoolAndClose(q), request[q].at = "inviting"
      PROVE  cooling' \subseteq Users
    BY <1>1 DEF CoolAndClose, IInv, TypeOK, RequestsCarry
<1>2. ASSUME NEW q \in Requests, CreateInvite(q) \/ UpdateInvite(q)
      PROVE  cooling' \subseteq Users /\ UNCHANGED life
    BY <1>1, <1>2 DEF CreateInvite, UpdateInvite
<1>3. cooling' \subseteq Users
      \/ \E q \in Requests : CreateInvite(q) \/ UpdateInvite(q)
    BY DEF IInv, TypeOK, Next, vars, InviteStep, TeamStep, PaymentStep, Passing, AskInvite,
           RefuseInvite, AskCancel, CancelInvite, AskAccept, ReadMembership, Join,
           RefuseJoin, ApplyRole, AskRemove, RemoveMember, AskDelete, DeleteTeam,
           AskRestore, RestoreTeam, StartPayment, ReadTeam, RecordOnly, Grant,
           PaymentFails, Handles, SelectExpired, Purge, PurgeFails, GraceEnding,
           GraceEnds, CooldownEnds, InviteExpires, Spend
<1>4. \/ \E q \in Requests : DeleteTeam(q) \/ RestoreTeam(q)
      \/ SelectExpired \/ Purge \/ PurgeFails \/ GraceEnding \/ GraceEnds
      \/ UNCHANGED life
    BY DEF Next, vars, life, InviteStep, TeamStep, PaymentStep, Passing, AskInvite,
           CreateInvite, UpdateInvite, RefuseInvite, AskCancel, CancelInvite, AskAccept,
           ReadMembership, Join, RefuseJoin, ApplyRole, AskRemove, RemoveMember,
           AskDelete, AskRestore, StartPayment, ReadTeam, RecordOnly, Grant,
           PaymentFails, Handles, CooldownEnds, InviteExpires, Spend
<1>5. /\ team' \in {"live", "deleted", "purged"}
      /\ grace' \in {"begun", "ending", "over"}
      /\ sweeping' \in BOOLEAN
    BY <1>4 DEF IInv, TypeOK, life, DeleteTeam, RestoreTeam, SelectExpired, Purge,
                PurgeFails, GraceEnding, GraceEnds
<1> QED
    BY <1>2, <1>3, <1>5

\* The invariant is inductive.
LEMMA NextIInv == IInv /\ [Next]_vars => IInv'
<1> SUFFICES ASSUME IInv, [Next]_vars PROVE IInv'
    OBVIOUS
<1>1. TypeOK'
    BY InvitesKeepType, MoneyKeepsType, RequestsKeepType, MembersKeepCap, NobodyStays,
       LifeKeepsType DEF TypeOK
<1> QED
    BY <1>1, InvitesKeepType, RequestsKeepType, MembersKeepCap, RowsReadStay, NobodyStays
    DEF IInv

\* It holds in every reachable state.
LEMMA Invariance == Spec => []IInv
BY InitIInv, NextIInv, PTL DEF Spec
-----------------------------------------------------------------------------
\* Every variable keeps its type, and no row outlives its team, for any
\* number of users, requests, invites and payments.
THEOREM TypeCorrect == Spec => []TypeOK
<1>1. IInv => TypeOK
    BY DEF IInv
<1> QED
    BY <1>1, Invariance, PTL

\* The team never has more members than the cap, whatever acceptances,
\* role changes, cancels and removals race for the last seat
\* (app/services/team_invites.py counts again under the lock of the team).
THEOREM CapIsKept == Spec => []MemberCap
<1>1. IInv => MemberCap
    BY DEF IInv
<1> QED
    BY <1>1, Invariance, PTL
-----------------------------------------------------------------------------
(* The grace period.                                                       *)

\* Once the grace period is over nobody can bring the team back: no request
\* to restore or to delete it is open, and the purge holds only such a team.
GraceIsFinal ==
    /\ team = "deleted" /\ grace # "begun" => \A q \in Requests : request[q].at # "deleting"
    /\ grace = "over" => /\ team \in {"deleted", "purged"}
                         /\ \A q \in Requests : request[q].at \notin {"deleting", "restoring"}
    /\ sweeping => team = "deleted" /\ grace = "over"
    /\ team = "purged" => grace = "over"

\* A request to delete or to restore the team was opened as one.
LEMMA WhoOpens ==
    ASSUME IInv, [Next]_vars, NEW x \in Requests
    PROVE  /\ request'[x].at = "deleting" => request[x].at = "deleting" \/ AskDelete(x)
           /\ request'[x].at = "restoring" => request[x].at = "restoring" \/ AskRestore(x)
<1> DEFINE Good == /\ request'[x].at = "deleting" => request[x].at = "deleting" \/ AskDelete(x)
                   /\ request'[x].at = "restoring" => request[x].at = "restoring" \/ AskRestore(x)
<1> request \in [Requests -> RequestType] /\ request[x] \in RequestType
    BY DEF IInv, TypeOK
<1>1. CASE request' = request
    BY <1>1
<1>2. ASSUME NEW q \in Requests, Close(q) \/ CoolAndClose(q) \/ RemoveMember(q)
      PROVE  Good
    <2>1. CASE Close(q)
        BY <2>1 DEF Close, Idle
    <2>2. CASE CoolAndClose(q)
        BY <2>2 DEF CoolAndClose, Idle, RequestType
    <2>3. CASE RemoveMember(q)
        BY <2>3 DEF RemoveMember, Idle
    <2> QED
        BY <1>2, <2>1, <2>2, <2>3
<1>3. ASSUME NEW q \in Requests, NEW r, Opens(q, r), r.at \notin {"deleting", "restoring"}
      PROVE  Good
    BY <1>3 DEF Opens
<1>4. ASSUME NEW q \in Requests, AskInvite(q) \/ AskCancel(q) \/ AskAccept(q) \/ AskRemove(q)
      PROVE  Good
    <2>1. CASE AskInvite(q)
        BY <1>3, <2>1 DEF AskInvite, Idle
    <2>2. CASE AskCancel(q)
        BY <1>3, <2>2 DEF AskCancel, Idle
    <2>3. CASE AskAccept(q)
        BY <1>3, <2>3 DEF AskAccept, Idle
    <2>4. CASE AskRemove(q)
        BY <1>3, <2>4 DEF AskRemove, Idle
    <2> QED
        BY <1>4, <2>1, <2>2, <2>3, <2>4
<1>5. ASSUME NEW q \in Requests, ReadMembership(q)
      PROVE  Good
    BY <1>5 DEF ReadMembership, RequestType
<1>6. ASSUME NEW q \in Requests, AskDelete(q) \/ AskRestore(q)
      PROVE  Good
    BY <1>6 DEF AskDelete, AskRestore, Opens, Idle
<1>7. CASE Purge
    BY <1>7 DEF Purge, Idle
<1>8. ASSUME NEW q \in Requests, InviteStep(q) \/ TeamStep(q)
      PROVE  \/ Close(q) \/ CoolAndClose(q) \/ RemoveMember(q)
             \/ AskInvite(q) \/ AskCancel(q) \/ AskAccept(q) \/ AskRemove(q)
             \/ ReadMembership(q) \/ AskDelete(q) \/ AskRestore(q)
    BY <1>8 DEF InviteStep, TeamStep, CreateInvite, UpdateInvite, RefuseInvite,
                CancelInvite, Join, RefuseJoin, ApplyRole, DeleteTeam, RestoreTeam
<1>9. \/ request' = request \/ Purge
      \/ \E q \in Requests : InviteStep(q) \/ TeamStep(q)
    BY DEF Next, vars, PaymentStep, Passing, StartPayment, ReadTeam, RecordOnly, Grant,
           PaymentFails, Handles, SelectExpired, PurgeFails, GraceEnding, GraceEnds,
           CooldownEnds, InviteExpires, Spend
<1>10. ASSUME NEW q \in Requests, InviteStep(q) \/ TeamStep(q)
       PROVE  Good
    <2> HIDE DEF Good
    <2> QED
        BY <1>2, <1>4, <1>5, <1>6, <1>8, <1>10
<1> QED
    BY <1>1, <1>7, <1>9, <1>10

\* Only these steps change the life of the team.
LEMMA WhoChangesLife ==
    ASSUME [Next]_vars
    PROVE  \/ UNCHANGED life
           \/ SelectExpired \/ Purge \/ PurgeFails \/ GraceEnding \/ GraceEnds
           \/ \E q \in Requests : DeleteTeam(q) \/ RestoreTeam(q)
BY DEF Next, vars, life, InviteStep, TeamStep, PaymentStep, Passing, AskInvite,
       CreateInvite, UpdateInvite, RefuseInvite, AskCancel, CancelInvite, AskAccept,
       ReadMembership, Join, RefuseJoin, ApplyRole, AskRemove, RemoveMember,
       AskDelete, AskRestore, StartPayment, ReadTeam, RecordOnly, Grant,
       PaymentFails, Handles, CooldownEnds, InviteExpires, Spend

\* GraceIsFinal is inductive, as long as no request to restore the team
\* straddles the end of the grace period.
LEMMA GraceStays ==
    ASSUME "straddle" \notin Events, IInv, GraceIsFinal, [Next]_vars
    PROVE  GraceIsFinal'
<1>1. ASSUME NEW x \in Requests, request'[x].at = "deleting"
      PROVE  request[x].at = "deleting" \/ team = "live"
    BY <1>1, WhoOpens DEF AskDelete
<1>2. ASSUME NEW x \in Requests, request'[x].at = "restoring"
      PROVE  request[x].at = "restoring" \/ (team = "deleted" /\ grace # "over")
    BY <1>2, WhoOpens DEF AskRestore
<1>3. CASE UNCHANGED life
    BY <1>1, <1>2, <1>3 DEF life, GraceIsFinal
<1>4. ASSUME NEW q \in Requests, DeleteTeam(q) \/ RestoreTeam(q)
      PROVE  GraceIsFinal'
    BY <1>4 DEF DeleteTeam, RestoreTeam, GraceIsFinal
<1>5. CASE SelectExpired \/ PurgeFails
    BY <1>1, <1>2, <1>5 DEF SelectExpired, PurgeFails, PastGrace, GraceIsFinal
<1>6. CASE Purge
    BY <1>6 DEF Purge, GraceIsFinal, Idle
<1>7. CASE GraceEnding
    BY <1>7 DEF GraceEnding, GraceIsFinal, Idle
<1>8. CASE GraceEnds
    BY <1>1, <1>8 DEF GraceEnds, GraceIsFinal
<1> QED
    BY <1>3, <1>4, <1>5, <1>6, <1>7, <1>8, WhoChangesLife

\* Only a team that nobody can restore any more is purged, although the
\* purge does not look again at the teams it has selected: as long as no
\* request to restore a team is open across the end of its grace period.
THEOREM PurgesAreFinal ==
    ASSUME "straddle" \notin Events
    PROVE  Spec => PurgedPastGrace
<1>1. Init => GraceIsFinal
    BY DEF Init, GraceIsFinal
<1>2. IInv /\ GraceIsFinal /\ [Next]_vars => GraceIsFinal'
    BY GraceStays
<1>3. ASSUME IInv, GraceIsFinal, Next, team' = "purged"
      PROVE  team \in {"deleted", "purged"} /\ grace = "over"
    <2>1. CASE team = "purged"
        BY <1>3, <2>1 DEF GraceIsFinal
    <2>2. CASE team # "purged"
        <3>1. Purge
            BY <1>3, <2>2, WhoChangesLife
            DEF life, SelectExpired, PurgeFails, GraceEnding, GraceEnds, DeleteTeam, RestoreTeam
        <3> QED
            BY <1>3, <3>1 DEF Purge, GraceIsFinal
    <2> QED
        BY <2>1, <2>2
<1>4. IInv /\ GraceIsFinal /\ [Next]_vars
        => [team' = "purged" => team \in {"deleted", "purged"} /\ grace = "over"]_vars
    BY <1>3
<1> QED
    BY <1>1, <1>2, <1>4, Invariance, PTL DEF Spec, PurgedPastGrace
-----------------------------------------------------------------------------
(* One invite for each address.                                            *)

\* No two pending invites of one address.
AtMostOnePending == \A u \in Users : \A i, j \in PendingFor(u) : i = j

\* A request that has found no pending invite of an address is right about
\* it, unless the address has started to cool since, and is still cooling.
LookedUpRightly ==
    \A q \in Requests :
        /\ request[q].early =>
             request[q].at = "inviting" /\ request[q].user \in cooling
        /\ request[q].at = "inviting" /\ request[q].invite = 0 /\ ~request[q].early =>
             PendingFor(request[q].user) = {}

\* Only a request that creates an invite makes an invite pending.
LEMMA WhoInvites ==
    ASSUME IInv, [Next]_vars, NEW u \in Users
    PROVE  \/ PendingFor(u)' \subseteq PendingFor(u)
           \/ \E q \in Requests : /\ CreateInvite(q) /\ request[q].user = u
                                  /\ PendingFor(u)' \subseteq PendingFor(u) \union {Len(invite) + 1}
<1> DEFINE Fewer == PendingFor(u)' \subseteq PendingFor(u)
<1>0. invite \in Seq(InviteType)
    BY DEF IInv, TypeOK
<1>1. ASSUME invite' = invite
      PROVE  Fewer
    BY <1>1 DEF PendingFor, Pending
<1>2. ASSUME NEW q \in Requests, CreateInvite(q)
      PROVE  \/ Fewer
             \/ /\ request[q].user = u
                /\ PendingFor(u)' \subseteq PendingFor(u) \union {Len(invite) + 1}
    <2>1. NewInvite(q) \in InviteType /\ NewInvite(q).for = request[q].user
        BY <1>2 DEF CreateInvite, NewInvite, InviteType, IInv, RequestsCarry
    <2>2. invite' = Append(invite, NewInvite(q))
        BY <1>2 DEF CreateInvite
    <2>3. /\ Len(invite) \in Nat /\ DOMAIN invite = 1 .. Len(invite)
          /\ DOMAIN invite' = 1 .. Len(invite) + 1
          /\ \A i \in DOMAIN invite : invite'[i] = invite[i]
          /\ invite'[Len(invite) + 1] = NewInvite(q)
        BY <1>0, <2>1, <2>2
    <2> QED
        BY <2>1, <2>3 DEF PendingFor, Pending
<1>3. ASSUME NEW k, NEW new, invite' = [invite EXCEPT ![k] = new],
             k \in DOMAIN invite =>
               new.for = invite[k].for /\ (new.status = "pending" /\ new.live => Pending(k))
      PROVE  Fewer
    <2>1. DOMAIN invite' = DOMAIN invite
        BY <1>0, <1>3
    <2>2. \A i \in DOMAIN invite : invite'[i] = IF i = k THEN new ELSE invite[i]
        BY <1>0, <1>3
    <2> QED
        BY <1>3, <2>1, <2>2 DEF PendingFor, Pending
<1>4. ASSUME NEW q \in Requests, UpdateInvite(q)
      PROVE  Fewer
    <2> DEFINE k == request[q].invite
               new == [invite[k] EXCEPT !.role = request[q].role]
    <2>1. invite' = invite \/ invite' = [invite EXCEPT ![k] = new]
        BY <1>4 DEF UpdateInvite
    <2>2. k \in DOMAIN invite =>
            new.for = invite[k].for /\ (new.status = "pending" /\ new.live => Pending(k))
        BY <1>0, InvitesAreTyped DEF InviteType, Pending
    <2> HIDE DEF k, new
    <2>3. ASSUME invite' = [invite EXCEPT ![k] = new]
          PROVE  Fewer
        BY <1>3, <2>2, <2>3
    <2>4. ASSUME invite' = invite
          PROVE  Fewer
        BY <1>1, <2>4
    <2> HIDE DEF Fewer
    <2> QED
        BY <2>1, <2>3, <2>4
<1>5. ASSUME NEW q \in Requests, CancelInvite(q) \/ Join(q) \/ ApplyRole(q)
      PROVE  Fewer
    <2> DEFINE k == request[q].invite
               new(s) == [invite[k] EXCEPT !.status = s]
    <2>1. PICK s \in {"accepted", "cancelled"} : invite' = [invite EXCEPT ![k] = new(s)]
        BY <1>5 DEF CancelInvite, Join, ApplyRole, Accepted
    <2>2. k \in DOMAIN invite =>
            new(s).for = invite[k].for /\ new(s).status # "pending"
        BY <1>0, InvitesAreTyped DEF InviteType
    <2> HIDE DEF k, new
    <2> QED
        BY <1>3, <2>1, <2>2
<1>6. ASSUME NEW i \in DOMAIN invite, InviteExpires(i)
      PROVE  Fewer
    <2> DEFINE new == [invite[i] EXCEPT !.live = FALSE]
    <2>1. invite' = [invite EXCEPT ![i] = new]
        BY <1>6 DEF InviteExpires
    <2>2. new.for = invite[i].for /\ ~new.live
        BY <1>0, InvitesAreTyped DEF InviteType
    <2> HIDE DEF new
    <2> QED
        BY <1>3, <2>1, <2>2
<1>7. CASE Purge
    BY <1>7 DEF Purge, PendingFor
<1>8. \/ invite' = invite \/ Purge
      \/ \E i \in DOMAIN invite : InviteExpires(i)
      \/ \E q \in Requests : \/ CreateInvite(q) \/ UpdateInvite(q) \/ CancelInvite(q)
                             \/ Join(q) \/ ApplyRole(q)
    BY WhoChangesInvites
<1> QED
    BY <1>1, <1>2, <1>4, <1>5, <1>6, <1>7, <1>8

\* What a step does to the open requests and to the cooling addresses.
LEMMA WhoLooks ==
    ASSUME [Next]_vars
    PROVE  \/ request' = request
              /\ (cooling' = cooling \/ \E u \in Users : CooldownEnds(u))
           \/ cooling' = cooling /\ \E q \in Requests :
                \/ Close(q) \/ AskInvite(q) \/ ReadMembership(q) \/ RemoveMember(q)
                \/ \E r : Opens(q, r) /\ r.at # "inviting" /\ r.early = FALSE
           \/ \E q \in Requests : CoolAndClose(q) /\ request[q].at = "inviting"
           \/ Purge
<1>1. CASE \E q \in Requests : InviteStep(q)
    <2>1. PICK q \in Requests : InviteStep(q)
        BY <1>1
    <2>2. CASE AskCancel(q)
        <3>1. cooling' = cooling /\ \E r : Opens(q, r) /\ r.at # "inviting" /\ r.early = FALSE
            <4>1. PICK i \in DOMAIN invite :
                    Opens(q, [Idle EXCEPT !.at = "cancelling", !.invite = i])
                BY <2>2 DEF AskCancel
            <4> DEFINE r == [Idle EXCEPT !.at = "cancelling", !.invite = i]
            <4>2. r.at # "inviting" /\ r.early = FALSE
                BY DEF Idle
            <4>3. cooling' = cooling
                BY <2>2 DEF AskCancel
            <4> HIDE DEF r
            <4>4. Opens(q, r)
                BY <4>1 DEF r
            <4> QED
                BY <4>2, <4>3, <4>4
        <3> QED
            BY <3>1
    <2>3. CASE AskAccept(q)
        <3>1. cooling' = cooling /\ \E r : Opens(q, r) /\ r.at # "inviting" /\ r.early = FALSE
            <4>1. PICK i \in DOMAIN invite :
                    Opens(q, [Idle EXCEPT !.at = "accepting", !.invite = i,
                                          !.user = invite[i].for, !.role = invite[i].role])
                BY <2>3 DEF AskAccept
            <4> DEFINE r == [Idle EXCEPT !.at = "accepting", !.invite = i,
                                         !.user = invite[i].for, !.role = invite[i].role]
            <4>2. r.at # "inviting" /\ r.early = FALSE
                BY DEF Idle
            <4>3. cooling' = cooling
                BY <2>3 DEF AskAccept
            <4> HIDE DEF r
            <4>4. Opens(q, r)
                BY <4>1 DEF r
            <4> QED
                BY <4>2, <4>3, <4>4
        <3> QED
            BY <3>1
    <2> QED
        BY <2>1, <2>2, <2>3 DEF InviteStep, AskInvite, CreateInvite, UpdateInvite,
           RefuseInvite, CancelInvite, ReadMembership, Join, RefuseJoin, ApplyRole
<1>2. CASE \E q \in Requests : TeamStep(q)
    <2>1. PICK q \in Requests : TeamStep(q)
        BY <1>2
    <2>2. CASE AskRemove(q)
        <3>1. cooling' = cooling /\ \E r : Opens(q, r) /\ r.at # "inviting" /\ r.early = FALSE
            <4>1. PICK u \in Members : Opens(q, [Idle EXCEPT !.at = "removing", !.user = u])
                BY <2>2 DEF AskRemove
            <4> DEFINE r == [Idle EXCEPT !.at = "removing", !.user = u]
            <4>2. r.at # "inviting" /\ r.early = FALSE
                BY DEF Idle
            <4>3. cooling' = cooling
                BY <2>2 DEF AskRemove
            <4> HIDE DEF r
            <4>4. Opens(q, r)
                BY <4>1 DEF r
            <4> QED
                BY <4>2, <4>3, <4>4
        <3> QED
            BY <3>1
    <2>3. CASE AskDelete(q) \/ AskRestore(q)
        <3>1. cooling' = cooling /\ \E r : Opens(q, r) /\ r.at # "inviting" /\ r.early = FALSE
            BY <2>3 DEF AskDelete, AskRestore, Idle, life, money
        <3> QED
            BY <3>1
    <2> QED
        BY <2>1, <2>2, <2>3 DEF TeamStep, RemoveMember, DeleteTeam, RestoreTeam
<1> QED
    BY <1>1, <1>2 DEF Next, vars, PaymentStep, Passing, StartPayment, ReadTeam, RecordOnly,
       Grant, PaymentFails, Handles, SelectExpired, PurgeFails, GraceEnding, GraceEnds,
       CooldownEnds, InviteExpires, Spend

\* Who creates an invite finds none pending: it has looked itself, and had
\* another request created one since, the address would still be cooling.
LEMMA CreatedAlone ==
    ASSUME IInv, AtMostOnePending, LookedUpRightly, [Next]_vars,
           NEW q \in Requests, CreateInvite(q)
    PROVE  AtMostOnePending' /\ LookedUpRightly'
<1> request \in [Requests -> RequestType]
    BY DEF IInv, TypeOK
<1> DEFINE u == request[q].user
<1>1. /\ request[q].at = "inviting" /\ request[q].invite = 0
      /\ u \in Users /\ u \notin cooling /\ cooling' = cooling \union {u}
      /\ request'[q] = Idle
      /\ \A x \in Requests : x # q => request'[x] = [request[x] EXCEPT !.early =
                     @ \/ (request[x].at = "inviting" /\ request[x].user = u)]
    BY DEF CreateInvite, CoolAndClose, IInv, RequestsCarry
<1>2. PendingFor(u) = {}
    BY <1>1 DEF LookedUpRightly
<1>3. \A x \in Requests : CreateInvite(x) => x = q
    <2> SUFFICES ASSUME NEW x \in Requests, CreateInvite(x), x # q PROVE FALSE
        OBVIOUS
    <2>1. request'[x] = Idle /\ request[x].at = "inviting"
        BY DEF CreateInvite, CoolAndClose
    <2>2. request'[x].at = request[x].at
        BY <1>1 DEF RequestType
    <2> QED
        BY <2>1, <2>2 DEF Idle
<1>4. \A v \in Users : IF v = u THEN PendingFor(v)' \subseteq {Len(invite) + 1}
                                ELSE PendingFor(v)' \subseteq PendingFor(v)
    BY <1>1, <1>2, <1>3, WhoInvites
<1>5. AtMostOnePending'
    BY <1>4 DEF AtMostOnePending
<1>6. ASSUME NEW x \in Requests
      PROVE  /\ request'[x].early =>
                  request'[x].at = "inviting" /\ request'[x].user \in cooling'
             /\ request'[x].at = "inviting" /\ request'[x].invite = 0 /\ ~request'[x].early =>
                  (PendingFor(request[x].user) = {})'
    <2>1. CASE x = q
        BY <1>1, <2>1 DEF Idle
    <2>2. CASE x # q
        <3>1. /\ request'[x].at = request[x].at
              /\ request'[x].user = request[x].user
              /\ request'[x].invite = request[x].invite
              /\ request'[x].early <=> \/ request[x].early
                                       \/ request[x].at = "inviting" /\ request[x].user = u
            <4> DEFINE b == \/ request[x].early
                            \/ request[x].at = "inviting" /\ request[x].user = u
            <4>1. request'[x] = [request[x] EXCEPT !.early = b] /\ request[x] \in RequestType
                BY <1>1, <2>2
            <4>2. b \in BOOLEAN
                OBVIOUS
            <4> HIDE DEF b
            <4>3. /\ request'[x].at = request[x].at
                  /\ request'[x].user = request[x].user
                  /\ request'[x].invite = request[x].invite
                  /\ request'[x].early = b
                BY <4>1, <4>2 DEF RequestType
            <4> QED
                BY <4>2, <4>3 DEF b
        <3>2. request'[x].early =>
                request'[x].at = "inviting" /\ request'[x].user \in cooling'
            BY <1>1, <3>1 DEF LookedUpRightly
        <3>3. ASSUME request[x].at = "inviting", request[x].invite = 0,
                     ~request[x].early, request[x].user # u
              PROVE  (PendingFor(request[x].user) = {})'
            <4>1. PICK v \in Users : v = request[x].user /\ PendingFor(v) = {}
                BY <3>3 DEF LookedUpRightly, IInv, RequestsCarry
            <4>2. PendingFor(v)' = {} /\ request'[x].user = v
                BY <1>4, <3>1, <3>3, <4>1
            <4> QED
                BY <4>2 DEF PendingFor
        <3> QED
            BY <3>1, <3>2, <3>3
    <2> QED
        BY <2>1, <2>2
<1> QED
    BY <1>5, <1>6 DEF LookedUpRightly

\* Nobody else makes a second invite pending, or a look-up wrong.
LEMMA LookedUpStep ==
    ASSUME IInv, AtMostOnePending, LookedUpRightly, [Next]_vars
    PROVE  AtMostOnePending' /\ LookedUpRightly'
<1>1. CASE \E q \in Requests : CreateInvite(q)
    BY <1>1, CreatedAlone
<1>2. CASE \A q \in Requests : ~CreateInvite(q)
    <2> request \in [Requests -> RequestType]
        BY DEF IInv, TypeOK
    <2>1. \A v \in Users : PendingFor(v)' \subseteq PendingFor(v)
        BY <1>2, WhoInvites
    <2>2. AtMostOnePending'
        BY <2>1 DEF AtMostOnePending
    <2>3. ASSUME NEW x \in Requests, request'[x].early
          PROVE  request'[x].at = "inviting" /\ request'[x].user \in cooling'
        <3>1. CASE request' = request /\ (cooling' = cooling \/ \E u \in Users : CooldownEnds(u))
            BY <2>3, <3>1 DEF LookedUpRightly, CooldownEnds
        <3>2. ASSUME cooling' = cooling, NEW q \in Requests,
                     Close(q) \/ AskInvite(q) \/ RemoveMember(q)
              PROVE  request'[x].at = "inviting" /\ request'[x].user \in cooling'
            <4>1. request'[x] = request[x] \/ ~request'[x].early
                <5>1. CASE Close(q) \/ RemoveMember(q)
                    BY <5>1 DEF Close, RemoveMember, Idle
                <5>2. CASE AskInvite(q)
                    BY <5>2 DEF AskInvite, Opens, Idle
                <5> QED
                    BY <3>2, <5>1, <5>2
            <4> QED
                BY <2>3, <3>2, <4>1 DEF LookedUpRightly
        <3>3. ASSUME cooling' = cooling, NEW q \in Requests, ReadMembership(q)
              PROVE  request'[x].at = "inviting" /\ request'[x].user \in cooling'
            <4>1. request[x].early /\ (x = q \/ request'[x] = request[x])
                BY <2>3, <3>3 DEF ReadMembership, RequestType
            <4> QED
                BY <3>3, <4>1 DEF LookedUpRightly, ReadMembership
        <3>4. ASSUME cooling' = cooling, NEW q \in Requests,
                     NEW r, Opens(q, r), r.at # "inviting", r.early = FALSE
              PROVE  request'[x].at = "inviting" /\ request'[x].user \in cooling'
            BY <2>3, <3>4 DEF Opens, LookedUpRightly
        <3>5. ASSUME NEW q \in Requests, CoolAndClose(q), request[q].at = "inviting"
              PROVE  request'[x].at = "inviting" /\ request'[x].user \in cooling'
            <4>1. /\ cooling' = cooling \union {request[q].user}
                  /\ request'[x] = IF x = q THEN Idle
                       ELSE [request[x] EXCEPT !.early =
                          @ \/ (request[x].at = "inviting" /\ request[x].user = request[q].user)]
                BY <3>5 DEF CoolAndClose
            <4>2. x # q
                BY <2>3, <4>1 DEF Idle
            <4>3. /\ request'[x].at = request[x].at /\ request'[x].user = request[x].user
                  /\ request[x].early \/ (request[x].at = "inviting"
                                          /\ request[x].user = request[q].user)
                BY <2>3, <4>1, <4>2 DEF RequestType
            <4> QED
                BY <4>1, <4>3 DEF LookedUpRightly
        <3>6. CASE Purge
            BY <2>3, <3>6 DEF Purge, Idle
        <3> QED
            BY <3>1, <3>2, <3>3, <3>4, <3>5, <3>6, WhoLooks
    <2>4. ASSUME NEW x \in Requests, request'[x].at = "inviting", request'[x].invite = 0,
                 ~request'[x].early
          PROVE  (PendingFor(request[x].user) = {})'
        <3>1. CASE \/ request'[x] = request[x]
                   \/ /\ request[x].at = "inviting" /\ request[x].invite = 0
                      /\ ~request[x].early /\ request'[x].user = request[x].user
            <4>1. PICK v \in Users : v = request[x].user /\ PendingFor(v) = {}
                BY <2>4, <3>1 DEF LookedUpRightly, IInv, RequestsCarry
            <4>2. PendingFor(v)' = {} /\ request'[x].user = v
                BY <2>1, <3>1, <4>1
            <4> QED
                BY <4>2 DEF PendingFor
        <3>2. ASSUME NEW q \in Requests, Close(q) \/ RemoveMember(q)
              PROVE  request'[x] = request[x]
            BY <2>4, <3>2 DEF Close, RemoveMember, Idle
        <3>3. ASSUME NEW q \in Requests, ReadMembership(q)
              PROVE  request'[x] = request[x]
            BY <2>4, <3>3 DEF ReadMembership, RequestType
        <3>4. ASSUME NEW q \in Requests, NEW r, Opens(q, r), r.at # "inviting"
              PROVE  request'[x] = request[x]
            BY <2>4, <3>4 DEF Opens
        <3>5. ASSUME NEW q \in Requests, CoolAndClose(q)
              PROVE  /\ request[x].at = "inviting" /\ request[x].invite = 0
                     /\ ~request[x].early /\ request'[x].user = request[x].user
            <4>1. request'[x] = IF x = q THEN Idle
                       ELSE [request[x] EXCEPT !.early =
                          @ \/ (request[x].at = "inviting" /\ request[x].user = request[q].user)]
                BY <3>5 DEF CoolAndClose
            <4>2. x # q
                BY <2>4, <4>1 DEF Idle
            <4> QED
                BY <2>4, <4>1, <4>2 DEF RequestType
        <3>6. ASSUME NEW q \in Requests, AskInvite(q)
              PROVE  (PendingFor(request[x].user) = {})'
            <4>1. CASE x = q
                <5>1. PICK u \in Users, role \in RolesGiven :
                    \/ /\ PendingFor(u) = {}
                       /\ Opens(q, [Idle EXCEPT !.at = "inviting", !.user = u, !.role = role])
                    \/ \E i \in PendingFor(u) :
                         Opens(q, [Idle EXCEPT !.at = "inviting", !.user = u, !.role = role,
                                               !.invite = i, !.seen = invite[i].role])
                    BY <3>6 DEF AskInvite
                <5>2. 0 \notin PendingFor(u)
                    BY InvitesAreTyped DEF PendingFor, IInv, TypeOK
                <5>3. request'[x].user = u /\ PendingFor(u) = {}
                    BY <2>4, <4>1, <5>1, <5>2 DEF Opens, Idle
                <5>4. PendingFor(u)' = {}
                    BY <2>1, <5>3
                <5> QED
                    BY <5>3, <5>4 DEF PendingFor
            <4>2. CASE x # q
                BY <3>1, <3>6, <4>2 DEF AskInvite, Opens
            <4> QED
                BY <4>1, <4>2
        <3>7. CASE Purge
            BY <2>4, <3>7 DEF Purge, Idle
        <3> QED
            BY <3>1, <3>2, <3>3, <3>4, <3>5, <3>6, <3>7, WhoLooks
    <2> QED
        BY <2>2, <2>3, <2>4 DEF LookedUpRightly
<1> QED
    BY <1>1, <1>2

\* No address ever has two pending invites: the cooldown of the email stands
\* in for the lock that the look-up does not take.
THEOREM InvitesAreSingle == Spec => []OneInviteEach
<1>1. Init => AtMostOnePending /\ LookedUpRightly
    BY DEF Init, AtMostOnePending, LookedUpRightly, PendingFor, Idle
<1>2. IInv /\ AtMostOnePending /\ LookedUpRightly /\ [Next]_vars
      => AtMostOnePending' /\ LookedUpRightly'
    BY LookedUpStep
<1>3. AtMostOnePending => OneInviteEach
    <2> SUFFICES ASSUME AtMostOnePending, NEW u \in Users
                 PROVE  Cardinality(PendingFor(u)) <= 1
        BY DEF OneInviteEach
    <2>1. CASE PendingFor(u) = {}
        BY <2>1, FS_EmptySet
    <2>2. CASE PendingFor(u) # {}
        <3>1. PICK i : PendingFor(u) = {i}
            BY <2>2 DEF AtMostOnePending
        <3>2. Cardinality({i}) = 1
            BY FS_Singleton
        <3> QED
            BY <3>1, <3>2
    <2> QED
        BY <2>1, <2>2
<1> QED
    BY Invariance, <1>1, <1>2, <1>3, PTL DEF Spec
-----------------------------------------------------------------------------
(* Payments.                                                               *)

\* A payment that is not at its pack's price is on no path to credits.
MispricedWait ==
    \A p \in Mispriced :
        /\ txn[p] # "completed"
        /\ \A d \in Deliveries : handler[p][d].at \notin {"priced", "held", "completed"}

\* A handler that will claim its payment has read the balance before there
\* were any credits.
SeenBeforeCredits ==
    \A p \in Payments, d \in Deliveries :
        handler[p][d].at = "completed" /\ txn[p] = "none" => handler[p][d].seen = 0

Completed == {p \in Payments : txn[p] = "completed"}

\* With one payment at the right price, there are no credits before its own.
LEMMA NothingYet ==
    ASSUME IInv, MispricedWait, PaymentsAddUp,
           NEW p \in Payments \ Mispriced, txn[p] = "none",
           \A q, r \in Payments \ Mispriced : q = r
    PROVE  Completed = {} /\ balance = 0 /\ spent = 0
<1>1. Completed = {}
    BY DEF Completed, MispricedWait
<1>2. Cardinality(Completed) = 0
    BY <1>1, FS_EmptySet
<1>3. balance + spent = PackCredits * 0
    BY <1>2 DEF PaymentsAddUp, Completed
<1>4. balance + spent = 0
    BY <1>3, TeamsAssumption
<1> QED
    BY <1>1, <1>4 DEF IInv, TypeOK

\* What the steps of a handler do to its payment.
LEMMA HandlerMoves ==
    ASSUME IInv, NEW p \in Payments, NEW d \in Deliveries, PaymentStep(p, d)
    PROVE  \E h :
             /\ \A q \in Payments, e \in Deliveries :
                  handler'[q][e] = IF q = p /\ e = d THEN h ELSE handler[q][e]
             /\ spent' = spent
             /\ \/ UNCHANGED <<txn, balance>> /\ h = Free
                \/ UNCHANGED <<txn, balance>> /\ h.at = "mismatch"
                \/ UNCHANGED <<txn, balance>> /\ h.at = "priced" /\ p \notin Mispriced
                \/ UNCHANGED <<txn, balance>> /\ h.at = "held" /\ handler[p][d].at = "priced"
                \/ /\ UNCHANGED <<txn, balance>> /\ handler[p][d].at = "priced"
                   /\ h.at = "completed" /\ h.seen = balance
                \/ /\ UNCHANGED balance /\ h = Free
                   /\ \E s \in {"mismatch", "held"} :
                        txn' = [txn EXCEPT ![p] = IF txn[p] = "none" THEN s ELSE txn[p]]
                \/ Grant(p, d) /\ h = Free
<1>1. ASSUME NEW h, Handles(p, d, h)
      PROVE  /\ \A q \in Payments, e \in Deliveries :
                  handler'[q][e] = IF q = p /\ e = d THEN h ELSE handler[q][e]
             /\ spent' = spent
    <2>1. handler \in [Payments -> [Deliveries ->
                        [at : Statuses \union {"free", "priced"}, seen : Nat]]]
        BY DEF IInv, TypeOK
    <2> QED
        BY <1>1, <2>1 DEF Handles
<1>2. CASE StartPayment(p, d)
    <2> DEFINE h == [Free EXCEPT !.at = IF p \in Mispriced THEN "mismatch" ELSE "priced"]
    <2>1. Handles(p, d, h) /\ UNCHANGED <<txn, balance>>
        BY <1>2 DEF StartPayment
    <2>2. h.at = "mismatch" \/ (h.at = "priced" /\ p \notin Mispriced)
        <3>1. CASE p \in Mispriced
            BY <3>1 DEF Free
        <3>2. CASE p \notin Mispriced
            BY <3>2 DEF Free
        <3> QED
            BY <3>1, <3>2
    <2> HIDE DEF h
    <2> QED
        BY <1>1, <2>1, <2>2
<1>3. CASE ReadTeam(p, d)
    <2> DEFINE h == IF team = "deleted" THEN [Free EXCEPT !.at = "held"]
                    ELSE [at |-> "completed", seen |-> balance]
    <2>1. /\ Handles(p, d, h) /\ UNCHANGED <<txn, balance>>
          /\ handler[p][d].at = "priced"
        BY <1>3 DEF ReadTeam
    <2>2. h.at = "held" \/ (h.at = "completed" /\ h.seen = balance)
        <3>1. CASE team = "deleted"
            BY <3>1 DEF Free
        <3>2. CASE team # "deleted"
            BY <3>2
        <3> QED
            BY <3>1, <3>2
    <2> HIDE DEF h
    <2> QED
        BY <1>1, <2>1, <2>2
<1>4. CASE RecordOnly(p, d)
    <2>1. Handles(p, d, Free) /\ UNCHANGED balance
        BY <1>4 DEF RecordOnly
    <2>2. \E s \in {"mismatch", "held"} :
             txn' = [txn EXCEPT ![p] = IF txn[p] = "none" THEN s ELSE txn[p]]
        BY <1>4 DEF RecordOnly
    <2> QED
        BY <1>1, <2>1, <2>2
<1>5. CASE Grant(p, d)
    <2>1. Handles(p, d, Free)
        BY <1>5 DEF Grant
    <2> QED
        BY <1>1, <1>5, <2>1
<1>6. CASE PaymentFails(p, d)
    <2>1. Handles(p, d, Free) /\ UNCHANGED <<txn, balance>>
        BY <1>6 DEF PaymentFails
    <2> QED
        BY <1>1, <2>1
<1> QED
    BY <1>2, <1>3, <1>4, <1>5, <1>6 DEF PaymentStep

\* Mispriced payments stay off the path to credits.
LEMMA MispricedStay ==
    ASSUME IInv, MispricedWait, [Next]_vars
    PROVE  MispricedWait'
<1>1. CASE UNCHANGED money
    BY <1>1 DEF money, MispricedWait
<1>2. CASE Purge
    BY <1>2, TeamsAssumption DEF Purge, MispricedWait, Free
<1>3. CASE Spend
    BY <1>3 DEF Spend, MispricedWait
<1>4. ASSUME NEW p \in Payments, NEW d \in Deliveries, PaymentStep(p, d)
      PROVE  MispricedWait'
    <2>1. Mispriced \subseteq Payments /\ txn \in [Payments -> Statuses]
        BY TeamsAssumption DEF IInv, TypeOK
    <2>2. p \in Mispriced => ~Grant(p, d)
        BY DEF Grant, MispricedWait
    <2>3. Free.at = "free"
        BY DEF Free
    <2>4. /\ txn' = txn \/ Grant(p, d) \/ \E s \in {"mismatch", "held"} :
                        txn' = [txn EXCEPT ![p] = IF txn[p] = "none" THEN s ELSE txn[p]]
          /\ Grant(p, d) => \E t : txn' = [txn EXCEPT ![p] = t]
        <3>1. Grant(p, d) => txn' = [txn EXCEPT ![p] = "completed"] \/ txn' = txn
            BY DEF Grant
        <3>2. txn = [txn EXCEPT ![p] = txn[p]]
            BY <2>1
        <3> QED
            BY <3>1, <3>2, HandlerMoves, <1>4
    <2>5. \A r \in Mispriced : txn'[r] # "completed"
        BY <2>1, <2>2, <2>4 DEF MispricedWait
    <2>6. \A r \in Mispriced, e \in Deliveries :
            handler'[r][e].at \notin {"priced", "held", "completed"}
        BY <1>4, <2>1, <2>2, <2>3, HandlerMoves DEF MispricedWait
    <2> QED
        BY <2>5, <2>6 DEF MispricedWait
<1> QED
    BY <1>1, <1>2, <1>3, <1>4, WhoChangesMoney

\* A handler reads the balance before its own payment is credited, and with
\* one payment at the right price, nobody else's is.
LEMMA SeenStays ==
    ASSUME IInv, MispricedWait, SeenBeforeCredits, PaymentsAddUp, [Next]_vars,
           \A q, r \in Payments \ Mispriced : q = r
    PROVE  SeenBeforeCredits'
<1>1. CASE UNCHANGED money
    BY <1>1 DEF money, SeenBeforeCredits
<1>2. CASE Purge
    BY <1>2 DEF Purge, SeenBeforeCredits, Free
<1>3. CASE Spend
    BY <1>3 DEF Spend, SeenBeforeCredits
<1>4. ASSUME NEW p \in Payments, NEW d \in Deliveries, PaymentStep(p, d)
      PROVE  SeenBeforeCredits'
    <2> SUFFICES ASSUME NEW q \in Payments, NEW e \in Deliveries,
                        handler'[q][e].at = "completed", txn'[q] = "none"
                 PROVE  handler'[q][e].seen = 0
        BY DEF SeenBeforeCredits
    <2>1. txn[q] = "none"
        <3>1. txn \in [Payments -> Statuses]
            BY DEF IInv, TypeOK
        <3>2. txn' = txn \/ (\E t \in {"mismatch", "held", "completed"} :
                 txn' = [txn EXCEPT ![p] = IF txn[p] = "none" THEN t ELSE txn[p]])
            <4>1. Grant(p, d) =>
                    txn' = txn \/ txn' = [txn EXCEPT ![p] = IF txn[p] = "none" THEN "completed"
                                                            ELSE txn[p]]
                <5>1. CASE txn[p] = "none"
                    BY <5>1 DEF Grant
                <5>2. CASE txn[p] # "none"
                    BY <5>2 DEF Grant
                <5> QED
                    BY <5>1, <5>2
            <4>2. \/ UNCHANGED txn \/ Grant(p, d)
                  \/ \E s \in {"mismatch", "held"} :
                       txn' = [txn EXCEPT ![p] = IF txn[p] = "none" THEN s ELSE txn[p]]
                BY <1>4, HandlerMoves
            <4> QED
                BY <4>1, <4>2
        <3> QED
            BY <3>1, <3>2
    <2>2. CASE handler'[q][e] = handler[q][e]
        BY <2>1, <2>2 DEF SeenBeforeCredits
    <2>3. CASE /\ q = p /\ handler[p][d].at = "priced"
               /\ handler'[q][e].seen = balance
        <3>1. p \notin Mispriced
            BY <2>3 DEF MispricedWait
        <3> QED
            BY <2>1, <2>3, <3>1, NothingYet
    <2>4. Free.at = "free"
        BY DEF Free
    <2> QED
        BY <1>4, <2>2, <2>3, <2>4, HandlerMoves
<1> QED
    BY <1>1, <1>2, <1>3, <1>4, WhoChangesMoney

\* The account of the team keeps adding up.
LEMMA AccountStays ==
    ASSUME IInv, MispricedWait, SeenBeforeCredits, PaymentsAddUp, [Next]_vars,
           \A q, r \in Payments \ Mispriced : q = r
    PROVE  PaymentsAddUp'
<1>1. ASSUME Completed' = Completed, balance' + spent' = balance + spent
      PROVE  PaymentsAddUp'
    BY <1>1 DEF PaymentsAddUp, Completed
<1>2. CASE UNCHANGED money
    BY <1>1, <1>2 DEF money, Completed
<1>3. CASE Purge
    <2>1. Completed' = {} /\ balance' + spent' = 0
        BY <1>3 DEF Purge, Completed
    <2>2. Cardinality(Completed') = 0
        BY <2>1, FS_EmptySet
    <2>3. PackCredits * 0 = 0
        BY TeamsAssumption
    <2> QED
        BY <2>1, <2>2, <2>3 DEF PaymentsAddUp, Completed
<1>4. CASE Spend
    <2>1. balance' + spent' = balance + spent
        BY <1>4 DEF Spend, IInv, TypeOK
    <2> QED
        BY <1>1, <1>4, <2>1 DEF Spend, Completed
<1>5. ASSUME NEW p \in Payments, NEW d \in Deliveries, PaymentStep(p, d)
      PROVE  PaymentsAddUp'
    <2> txn \in [Payments -> Statuses] /\ balance \in Nat /\ spent \in Nat
        BY DEF IInv, TypeOK
    <2>1. CASE Grant(p, d) /\ txn[p] = "none"
        <3>1. /\ handler[p][d].at = "completed" /\ spent' = spent
              /\ txn' = [txn EXCEPT ![p] = "completed"]
              /\ balance' = handler[p][d].seen + PackCredits
            BY <2>1 DEF Grant, Handles
        <3>2. handler[p][d].seen = 0
            BY <2>1, <3>1 DEF SeenBeforeCredits
        <3>3. p \notin Mispriced
            BY <3>1 DEF MispricedWait
        <3>4. Completed = {} /\ spent = 0
            BY <2>1, <3>3, NothingYet
        <3>5. Completed' = {p}
            BY <3>1, <3>4 DEF Completed
        <3>6. Cardinality(Completed') = 1
            BY <3>5, FS_Singleton
        <3>7. balance' + spent' = PackCredits * 1
            BY <3>1, <3>2, <3>4, TeamsAssumption
        <3> QED
            BY <3>6, <3>7 DEF PaymentsAddUp, Completed
    <2>2. CASE ~(Grant(p, d) /\ txn[p] = "none")
        <3>1. spent' = spent /\ balance' = balance
            BY <1>5, <2>2, HandlerMoves DEF Grant
        <3>2. txn' = txn \/ (\E s \in {"mismatch", "held"} :
                 txn' = [txn EXCEPT ![p] = IF txn[p] = "none" THEN s ELSE txn[p]])
            BY <1>5, <2>2, HandlerMoves DEF Grant
        <3>3. Completed' = Completed
            BY <3>2 DEF Completed
        <3> QED
            BY <1>1, <3>1, <3>3
    <2> QED
        BY <2>1, <2>2
<1> QED
    BY <1>2, <1>3, <1>4, <1>5, WhoChangesMoney

\* What the team was credited for its payments is what it has or has spent,
\* however the webhooks of a payment are repeated, race one another or fail:
\* as long as one payment at the right price is under way.  (Two of them can
\* overwrite one another's credits.)
THEOREM PaymentsAreKept ==
    ASSUME \A q, r \in Payments \ Mispriced : q = r
    PROVE  Spec => []PaymentsAddUp
<1>1. Init => MispricedWait /\ SeenBeforeCredits /\ PaymentsAddUp
    <2> SUFFICES ASSUME Init PROVE MispricedWait /\ SeenBeforeCredits /\ PaymentsAddUp
        OBVIOUS
    <2>1. Completed = {}
        BY DEF Init, Completed
    <2>2. Cardinality(Completed) = 0 /\ PackCredits * 0 = 0
        BY <2>1, FS_EmptySet, TeamsAssumption
    <2>3. PaymentsAddUp
        BY <2>2 DEF Init, PaymentsAddUp, Completed
    <2>4. MispricedWait /\ SeenBeforeCredits
        BY TeamsAssumption DEF Init, MispricedWait, SeenBeforeCredits, Free
    <2> QED
        BY <2>3, <2>4
<1>2. IInv /\ MispricedWait /\ SeenBeforeCredits /\ PaymentsAddUp /\ [Next]_vars
      => MispricedWait' /\ SeenBeforeCredits' /\ PaymentsAddUp'
    BY MispricedStay, SeenStays, AccountStays
<1> QED
    BY <1>1, <1>2, Invariance, PTL DEF Spec
=============================================================================

------------------------------- MODULE Teams -------------------------------
(***************************************************************************)
(* One team: its members and invites (app/services/teams.py and            *)
(* app/services/team_invites.py), its deletion, restore and purge          *)
(* (app/services/teams.py and the cron job of app/worker.py), and the      *)
(* payments for credit packs (handle_payment_captured of                   *)
(* app/services/webhooks.py).                                              *)
(*                                                                         *)
(* A request is a step that checks its caller and reads, and one or two    *)
(* steps that write what it decided: nothing holds the rows it read.       *)
(* What happens under the lock of the team's row is one step, since only   *)
(* steps that free seats can come between.  A definition marked "Slip" is  *)
(* a wrong version of the one below it, kept to show that the properties   *)
(* tell the two apart; nothing else uses it.                               *)
(***************************************************************************)
EXTENDS Naturals, Sequences, SequencesExt, FiniteSets

CONSTANTS
    Users,          \* each with an email address of its own
    Nobody,         \* no user
    FirstOwners,    \* who owned the team when the run starts
    MaxMembers,     \* MAX_TEAM_MEMBERS
    RolesGiven,     \* roles the owners invite to
    MaxInvites,     \* bound: invites ever created
    Requests,       \* API requests that can be open at a time
    Payments,       \* payments for credit packs
    Mispriced,      \* those whose pack costs something else by now
    Deliveries,     \* webhooks of payments that can be handled at a time
    PackCredits,    \* credits of a pack
    MaxSpent,       \* bound: credits generations spend
    Events          \* what may happen in this instance

EventKinds == {"members",   \* owners remove members
               "deletion",  \* owners delete and restore the team
               "straddle",  \* a restore is still open when the grace ends
               "expiry"}    \* invites expire

ASSUME TeamsAssumption ==
    /\ IsFiniteSet(Users) /\ Nobody \notin Users
    /\ FirstOwners \subseteq Users /\ FirstOwners # {}
    /\ Cardinality(FirstOwners) <= MaxMembers
    /\ MaxMembers \in Nat \ {0}
    /\ RolesGiven \subseteq {"editor", "owner"}
    /\ MaxInvites \in Nat /\ MaxSpent \in Nat
    /\ Mispriced \subseteq Payments
    /\ PackCredits \in Nat \ {0}
    /\ Events \subseteq EventKinds

VARIABLES
    member,     \* role of each user, the rows of team_members
    invite,     \* the rows of team_invites, in the order of their creation
    cooling,    \* addresses with an invite:cooldown key in Redis
    request,    \* the open requests
    team,       \* "live", "deleted" (deleted_at is set) or "purged"
    grace,      \* how much of the grace period has passed since deleted_at
    sweeping,   \* the purge has selected the team
    txn,        \* status of each payment's row of billing_transactions
    handler,    \* the webhooks being handled
    balance,    \* topup_credits_balance
    spent       \* history: credits generations have spent

vars == <<member, invite, cooling, request, team, grace, sweeping,
          txn, handler, balance, spent>>

money == <<txn, handler, balance, spent>>
life == <<team, grace, sweeping>>

Roles == {"editor", "owner"}     \* ALLOWED_ROLES

Idle == [at |-> "idle", user |-> Nobody, role |-> "none", seen |-> "none",
         invite |-> 0,      \* the invite it has read
         early |-> FALSE]   \* it looked before the address started to cool

Free == [at |-> "free", seen |-> 0]

\* A team after create_team, or with more owners after that.
Init ==
    /\ member = [u \in Users |-> IF u \in FirstOwners THEN "owner" ELSE "none"]
    /\ invite = <<>>
    /\ cooling = {}
    /\ request = [q \in Requests |-> Idle]
    /\ team = "live" /\ grace = "begun" /\ sweeping = FALSE
    /\ txn = [p \in Payments |-> "none"]
    /\ handler = [p \in Payments |-> [d \in Deliveries |-> Free]]
    /\ balance = 0 /\ spent = 0
-----------------------------------------------------------------------------
(* What requests read.                                                     *)

Members == {u \in Users : member[u] # "none"}
Owners == {u \in Users : member[u] = "owner"}

\* _require_owner; and the check of the delete and restore routes, which
\* sees deleted teams too
ByOwner == team = "live" /\ Owners # {}
ByOwnerEvenDeleted == Owners # {}

\* A pending invite past its expires_at stays pending, and counts for nothing.
Pending(i) == invite[i].status = "pending" /\ invite[i].live

PendingFor(u) == {i \in DOMAIN invite : invite[i].for = u /\ Pending(i)}

\* team_member_count and team_seat_count
MemberCount == Cardinality(Members)
SeatCount == MemberCount + Cardinality({i \in DOMAIN invite : Pending(i)})

Opens(q, r) == request[q] = Idle /\ request' = [request EXCEPT ![q] = r]

Close(q) == request' = [request EXCEPT ![q] = Idle]
-----------------------------------------------------------------------------
(* Invites (app/services/team_invites.py).                                 *)

\* create_invite looks for a pending invite of the address, without a lock.
AskInvite(q) ==
    /\ ByOwner
    /\ \E u \in Users, role \in RolesGiven :
         \/ /\ PendingFor(u) = {} /\ Len(invite) < MaxInvites
            /\ Opens(q, [Idle EXCEPT !.at = "inviting", !.user = u, !.role = role])
         \/ \E i \in PendingFor(u) :
              Opens(q, [Idle EXCEPT !.at = "inviting", !.user = u, !.role = role,
                                    !.invite = i, !.seen = invite[i].role])
    /\ UNCHANGED <<member, invite, cooling, life, money>>

\* acquire_cooldown succeeds for the address of request q, which is over;
\* other requests may have looked before.
CoolAndClose(q) ==
    LET u == request[q].user IN
    /\ u \notin cooling
    /\ cooling' = cooling \union {u}
    /\ request' = [x \in Requests |->
                     IF x = q THEN Idle
                     ELSE [request[x] EXCEPT !.early =
                             @ \/ (request[x].at = "inviting" /\ request[x].user = u)]]

NewInvite(q) == [for |-> request[q].user, role |-> request[q].role,
                 status |-> "pending", live |-> TRUE]

\* Slip: no cooldown.
CreateInviteUncooled(q) ==
    /\ request[q].at = "inviting" /\ request[q].invite = 0
    /\ Len(invite) < MaxInvites
    /\ SeatCount < MaxMembers
    /\ Close(q)
    /\ invite' = Append(invite, NewInvite(q))
    /\ UNCHANGED <<member, cooling, life, money>>

\* It found none: under the team's lock, a seat is free.
CreateInvite(q) ==
    /\ request[q].at = "inviting" /\ request[q].invite = 0
    /\ Len(invite) < MaxInvites
    /\ SeatCount < MaxMembers
    /\ CoolAndClose(q)
    /\ invite' = Append(invite, NewInvite(q))
    /\ UNCHANGED <<member, life, money>>

\* It found one: the invite gets the new role.
UpdateInvite(q) ==
    /\ request[q].at = "inviting" /\ request[q].invite # 0
    /\ CoolAndClose(q)
    /\ invite' = IF request[q].seen = request[q].role THEN invite
                 ELSE [invite EXCEPT ![request[q].invite].role = request[q].role]
    /\ UNCHANGED <<member, life, money>>

\* TeamFullError, or InviteEmailRateLimitedError.  (Or the bound.)
RefuseInvite(q) ==
    /\ request[q].at = "inviting"
    /\ \/ request[q].invite = 0 /\ (SeatCount >= MaxMembers \/ Len(invite) = MaxInvites)
       \/ request[q].user \in cooling
    /\ Close(q)
    /\ UNCHANGED <<member, invite, cooling, life, money>>

\* A cooldown outlasts the requests that were open when it began.
CooldownEnds(u) ==
    /\ u \in cooling
    /\ \A q \in Requests : request[q].user = u => ~request[q].early
    /\ cooling' = cooling \ {u}
    /\ UNCHANGED <<member, invite, request, life, money>>

InviteExpires(i) ==
    /\ "expiry" \in Events
    /\ Pending(i)
    /\ invite' = [invite EXCEPT ![i].live = FALSE]
    /\ UNCHANGED <<member, cooling, request, life, money>>

\* cancel_invite checks the status, expired or not,
AskCancel(q) ==
    /\ ByOwner
    /\ \E i \in DOMAIN invite :
         /\ invite[i].status = "pending"
         /\ Opens(q, [Idle EXCEPT !.at = "cancelling", !.invite = i])
    /\ UNCHANGED <<member, invite, cooling, life, money>>

\* and writes whatever has become of it.
CancelInvite(q) ==
    /\ request[q].at = "cancelling"
    /\ invite' = [invite EXCEPT ![request[q].invite].status = "cancelled"]
    /\ Close(q)
    /\ UNCHANGED <<member, cooling, life, money>>

\* accept_invite reads the invite, for the one it was sent to,
AskAccept(q) ==
    /\ \E i \in DOMAIN invite :
         /\ Pending(i)
         /\ Opens(q, [Idle EXCEPT !.at = "accepting", !.invite = i,
                                  !.user = invite[i].for, !.role = invite[i].role])
    /\ UNCHANGED <<member, invite, cooling, life, money>>

\* then the membership,
ReadMembership(q) ==
    /\ request[q].at = "accepting"
    /\ request' = [request EXCEPT ![q].at = "joining", ![q].seen = member[request[q].user]]
    /\ UNCHANGED <<member, invite, cooling, life, money>>

Accepted(q) == invite' = [invite EXCEPT ![request[q].invite].status = "accepted"]

\* Slip: the invite has reserved the seat.
JoinUncounted(q) ==
    /\ request[q].at = "joining" /\ request[q].seen = "none"
    /\ member' = [member EXCEPT ![request[q].user] = IF @ = "none" THEN request[q].role ELSE @]
    /\ Accepted(q)
    /\ Close(q)
    /\ UNCHANGED <<cooling, life, money>>

\* and joins under the team's lock, if nothing shows a member in its way:
\* the unique constraint lets one of two calls of a user insert.
Join(q) ==
    /\ request[q].at = "joining" /\ request[q].seen = "none"
    /\ MemberCount < MaxMembers
    /\ member' = [member EXCEPT ![request[q].user] = IF @ = "none" THEN request[q].role ELSE @]
    /\ Accepted(q)
    /\ Close(q)
    /\ UNCHANGED <<cooling, life, money>>

RefuseJoin(q) ==
    /\ request[q].at = "joining" /\ request[q].seen = "none"
    /\ MemberCount >= MaxMembers
    /\ Close(q)
    /\ UNCHANGED <<member, invite, cooling, life, money>>

\* A member gets the role of the invite, up or down.
ApplyRole(q) ==
    /\ request[q].at = "joining" /\ request[q].seen # "none"
    /\ member' = IF request[q].seen = request[q].role THEN member
                 ELSE [member EXCEPT ![request[q].user] = request[q].role]
    /\ Accepted(q)
    /\ Close(q)
    /\ UNCHANGED <<cooling, life, money>>
-----------------------------------------------------------------------------
(* Members, deletion, restore and purge (app/services/teams.py).           *)

\* remove_member reads the role and counts the owners, without a lock,
AskRemove(q) ==
    /\ "members" \in Events
    /\ ByOwner
    /\ \E u \in Members :
         /\ u \in Owners => Cardinality(Owners) > 1
         /\ Opens(q, [Idle EXCEPT !.at = "removing", !.user = u])
    /\ UNCHANGED <<member, invite, cooling, life, money>>

\* A request that has read the row of user u in team_members, and will
\* write it.
WritesRowOf(x, u) ==
    /\ request[x].user = u
    /\ \/ request[x].at = "removing"
       \/ /\ request[x].at = "joining"
          /\ request[x].seen \notin {"none", request[x].role}

\* and deletes the row.  Others who have read it find it gone, which is an
\* error.
RemoveMember(q) ==
    LET u == request[q].user IN
    /\ request[q].at = "removing"
    /\ member' = [member EXCEPT ![u] = "none"]
    /\ request' = [x \in Requests |-> IF WritesRowOf(x, u) THEN Idle ELSE request[x]]
    /\ UNCHANGED <<invite, cooling, life, money>>

\* soft_delete_team reads the team and cancels the subscription,
AskDelete(q) ==
    /\ "deletion" \in Events
    /\ ByOwnerEvenDeleted /\ team = "live"
    /\ Opens(q, [Idle EXCEPT !.at = "deleting"])
    /\ UNCHANGED <<member, invite, cooling, life, money>>

\* and sets deleted_at, again if another request has.
DeleteTeam(q) ==
    /\ request[q].at = "deleting"
    /\ team' = "deleted" /\ grace' = "begun"
    /\ Close(q)
    /\ UNCHANGED <<member, invite, cooling, sweeping, money>>

\* restore_team checks deleted_at against the grace period,
AskRestore(q) ==
    /\ ByOwnerEvenDeleted /\ team = "deleted" /\ grace # "over"
    /\ Opens(q, [Idle EXCEPT !.at = "restoring"])
    /\ UNCHANGED <<member, invite, cooling, life, money>>

\* and clears it.
RestoreTeam(q) ==
    /\ request[q].at = "restoring"
    /\ team' = "live"
    /\ Close(q)
    /\ UNCHANGED <<member, invite, cooling, grace, sweeping, money>>

\* Days go by, more than any request lasts, and the last moment comes.
GraceEnding ==
    /\ team = "deleted" /\ grace = "begun"
    /\ \A q \in Requests : request[q] = Idle
    /\ grace' = "ending"
    /\ UNCHANGED <<member, invite, cooling, request, team, sweeping, money>>

GraceEnds ==
    /\ team = "deleted" /\ grace = "ending"
    /\ "straddle" \in Events \/ \A q \in Requests : request[q].at # "restoring"
    /\ grace' = "over"
    /\ UNCHANGED <<member, invite, cooling, request, team, sweeping, money>>

\* Slip: a team at the boundary is taken.
PastGraceOrAtTheBoundary == grace \in {"ending", "over"}

PastGrace == grace = "over"

\* purge_expired_deleted_teams selects with list_teams_past_grace_period,
SelectExpired ==
    /\ team = "deleted" /\ PastGrace /\ ~sweeping
    /\ sweeping' = TRUE
    /\ UNCHANGED <<member, invite, cooling, request, team, grace, money>>

\* Slip: the invites are not in the list of tables.
PurgeForgettingInvites ==
    /\ sweeping
    /\ team' = "purged" /\ sweeping' = FALSE
    /\ member' = [u \in Users |-> "none"]
    /\ txn' = [p \in Payments |-> "none"]
    /\ balance' = 0 /\ spent' = 0
    /\ request' = [q \in Requests |-> Idle]
    /\ handler' = [p \in Payments |-> [d \in Deliveries |-> Free]]
    /\ UNCHANGED <<invite, cooling, grace>>

\* and purge_team deletes the team and all that refers to it, without
\* looking again.  What the open requests and handlers still try fails.
Purge ==
    /\ sweeping
    /\ team' = "purged" /\ sweeping' = FALSE
    /\ member' = [u \in Users |-> "none"]
    /\ invite' = <<>>
    /\ txn' = [p \in Payments |-> "none"]
    /\ balance' = 0 /\ spent' = 0
    /\ request' = [q \in Requests |-> Idle]
    /\ handler' = [p \in Payments |-> [d \in Deliveries |-> Free]]
    /\ UNCHANGED <<cooling, grace>>

\* A row inserted meanwhile violates a foreign key: rolled back until the
\* next day's run.
PurgeFails ==
    /\ sweeping
    /\ sweeping' = FALSE
    /\ UNCHANGED <<member, invite, cooling, request, team, grace, money>>
-----------------------------------------------------------------------------
(* handle_payment_captured (app/services/webhooks.py).                     *)

Handles(p, d, h) ==
    /\ handler' = [handler EXCEPT ![p][d] = h]
    /\ UNCHANGED <<member, invite, cooling, request, life, spent>>

\* The fast path knows nothing of the payment.
StartPayment(p, d) ==
    /\ team # "purged"
    /\ handler[p][d] = Free /\ txn[p] = "none"
    /\ Handles(p, d, [Free EXCEPT !.at = IF p \in Mispriced THEN "mismatch" ELSE "priced"])
    /\ UNCHANGED <<txn, balance>>

\* The team is read without a lock, its balance with it.
ReadTeam(p, d) ==
    /\ handler[p][d].at = "priced"
    /\ Handles(p, d, IF team = "deleted" THEN [Free EXCEPT !.at = "held"]
                     ELSE [at |-> "completed", seen |-> balance])
    /\ UNCHANGED <<txn, balance>>

\* amount_mismatch and held_team_deleted: a row and no credits.
RecordOnly(p, d) ==
    /\ handler[p][d].at \in {"mismatch", "held"}
    /\ txn' = [txn EXCEPT ![p] = IF @ = "none" THEN handler[p][d].at ELSE @]
    /\ Handles(p, d, Free)
    /\ UNCHANGED balance

\* Slip: the fast path is enough.
GrantUnclaimed(p, d) ==
    /\ handler[p][d].at = "completed"
    /\ txn' = [txn EXCEPT ![p] = "completed"]
    /\ balance' = balance + PackCredits
    /\ Handles(p, d, Free)

\* The payment id is claimed and the credits are granted in one
\* transaction.  add_topup_credits locks the team's row, which the session
\* has loaded before: FOR UPDATE does not refresh it.
Grant(p, d) ==
    /\ handler[p][d].at = "completed"
    /\ IF txn[p] = "none"
       THEN /\ txn' = [txn EXCEPT ![p] = "completed"]
            /\ balance' = handler[p][d].seen + PackCredits
       ELSE UNCHANGED <<txn, balance>>
    /\ Handles(p, d, Free)

\* The process dies, or Razorpay or the database fails: 500, and Razorpay
\* delivers the webhook again.
PaymentFails(p, d) ==
    /\ handler[p][d] # Free
    /\ Handles(p, d, Free)
    /\ UNCHANGED <<txn, balance>>

\* A generation spends a credit, under the lock and without a stale row.
Spend ==
    /\ team = "live" /\ balance > 0 /\ spent < MaxSpent
    /\ balance' = balance - 1 /\ spent' = spent + 1
    /\ UNCHANGED <<member, invite, cooling, request, life, txn, handler>>
-----------------------------------------------------------------------------
InviteStep(q) ==
    \/ AskInvite(q) \/ CreateInvite(q) \/ UpdateInvite(q) \/ RefuseInvite(q)
    \/ AskCancel(q) \/ CancelInvite(q)
    \/ AskAccept(q) \/ ReadMembership(q)
    \/ Join(q) \/ RefuseJoin(q) \/ ApplyRole(q)

TeamStep(q) ==
    \/ AskRemove(q) \/ RemoveMember(q)
    \/ AskDelete(q) \/ DeleteTeam(q) \/ AskRestore(q) \/ RestoreTeam(q)

PaymentStep(p, d) ==
    \/ StartPayment(p, d) \/ ReadTeam(p, d) \/ RecordOnly(p, d)
    \/ Grant(p, d) \/ PaymentFails(p, d)

Passing ==
    \/ GraceEnding \/ GraceEnds
    \/ \E u \in Users : CooldownEnds(u)
    \/ \E i \in DOMAIN invite : InviteExpires(i)

Next ==
    \/ \E q \in Requests : InviteStep(q) \/ TeamStep(q)
    \/ \E p \in Payments, d \in Deliveries : PaymentStep(p, d)
    \/ SelectExpired \/ Purge \/ PurgeFails
    \/ Passing \/ Spend

Spec == Init /\ [][Next]_vars
-----------------------------------------------------------------------------
Ats == {"idle", "inviting", "cancelling", "accepting", "joining", "removing",
        "deleting", "restoring"}

RequestType ==
    [at : Ats, user : Users \union {Nobody}, role : Roles \union {"none"},
     seen : Roles \union {"none"}, invite : 0 .. MaxInvites, early : BOOLEAN]

InviteType ==
    [for : Users, role : Roles, status : {"pending", "accepted", "cancelled"},
     live : BOOLEAN]

Statuses == {"none", "completed", "held", "mismatch"}

\* Typing; and no row outlives its team, which is what the order of the
\* deletes in purge_team is for.
TypeOK ==
    /\ member \in [Users -> Roles \union {"none"}]
    /\ invite \in Seq(InviteType)
    /\ cooling \subseteq Users
    /\ request \in [Requests -> RequestType]
    /\ team \in {"live", "deleted", "purged"}
    /\ grace \in {"begun", "ending", "over"}
    /\ sweeping \in BOOLEAN
    /\ txn \in [Payments -> Statuses]
    /\ handler \in [Payments -> [Deliveries ->
                      [at : Statuses \union {"free", "priced"}, seen : Nat]]]
    /\ balance \in Nat /\ spent \in Nat
    /\ team = "purged" => Members = {} /\ invite = <<>> /\ balance = 0

\* The team never has more members than MAX_TEAM_MEMBERS, whatever
\* acceptances, cancels and new invites race for the last seat.
MemberCap == MemberCount <= MaxMembers

\* No address has two pending invites, each holding a seat, although the
\* look-up that should find the first one takes no lock.
OneInviteEach == \A u \in Users : Cardinality(PendingFor(u)) <= 1

\* What the team was credited for its payments is what it has or has spent:
\* no payment is credited twice, and none is lost.
PaymentsAddUp ==
    balance + spent =
        PackCredits * Cardinality({p \in Payments : txn[p] = "completed"})

\* Only a team that nobody could restore any more is purged.
PurgedPastGrace ==
    [][team' = "purged" => team \in {"deleted", "purged"} /\ grace = "over"]_vars

\* A team that exists has an owner (teams.py:247: "Cannot remove the last
\* owner").
AlwaysAnOwner == team # "purged" => Owners # {}
=============================================================================

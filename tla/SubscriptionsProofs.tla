------------------------ MODULE SubscriptionsProofs ------------------------
(***************************************************************************)
(* What Subscriptions keeps for any number of callers, plans, ids and      *)
(* periods.                                                                *)
(*                                                                         *)
(* Types, the typing and where rows and calls may point, is inductive in   *)
(* every instance.  On it rest, each under the events it can bear: the     *)
(* count of refills and charges (FillsArePaid, while webhooks come in      *)
(* order), what has been paid (PaidFor) and is over (EndsAreReal), and     *)
(* what is still to come of the row's subscription (RowFollows, Settles).  *)
(* The steps are read once, as what they do to the row, to a subscription  *)
(* and to its inbox (the lemmas ...Facts), and the invariants are proved   *)
(* from that.                                                              *)
(***************************************************************************)
EXTENDS Subscriptions, SequenceTheorems, FiniteSetTheorems, TLAPS

\* What is left of an inbox when its k-th webhook is answered.
LEMMA RemoveAtProperties ==
    ASSUME NEW S, NEW s \in Seq(S), NEW k \in DOMAIN s
    PROVE  /\ k \in 1 .. Len(s) /\ Len(s) \in Nat
           /\ RemoveAt(s, k) \in Seq(S)
           /\ Len(RemoveAt(s, k)) = Len(s) - 1
           /\ \A m \in 1 .. Len(s) - 1 : RemoveAt(s, k)[m] = IF m < k THEN s[m] ELSE s[m + 1]
<1> DEFINE a == SubSeq(s, 1, k - 1)
           b == SubSeq(s, k + 1, Len(s))
<1>1. k \in 1 .. Len(s) /\ Len(s) \in Nat
    BY LenProperties
<1>2. \A m \in 1 .. Len(s) : s[m] \in S
    BY ElementOfSeq
<1>3. /\ a \in Seq(S) /\ Len(a) = k - 1
      /\ \A m \in 1 .. k - 1 : a[m] = s[m]
    <2>1. \A m \in 1 .. k - 1 : s[m] \in S
        BY <1>1, <1>2
    <2>2. /\ a \in Seq(S) /\ Len(a) = IF 1 <= k - 1 THEN (k - 1) - 1 + 1 ELSE 0
          /\ \A m \in 1 .. (k - 1) - 1 + 1 : a[m] = s[1 + m - 1]
        BY <1>1, <2>1, SubSeqProperties
    <2> HIDE DEF a
    <2> QED
        BY <1>1, <2>2
<1>4. /\ b \in Seq(S) /\ Len(b) = Len(s) - k
      /\ \A m \in 1 .. Len(s) - k : b[m] = s[k + m]
    <2>1. \A m \in k + 1 .. Len(s) : s[m] \in S
        BY <1>1, <1>2
    <2>2. /\ b \in Seq(S) /\ Len(b) = IF k + 1 <= Len(s) THEN Len(s) - (k + 1) + 1 ELSE 0
          /\ \A m \in 1 .. Len(s) - (k + 1) + 1 : b[m] = s[(k + 1) + m - 1]
        BY <1>1, <2>1, SubSeqProperties
    <2> HIDE DEF b
    <2> QED
        BY <1>1, <2>2
<1>6. RemoveAt(s, k) = a \o b
    BY Zenon DEF RemoveAt
<1> HIDE DEF a, b
<1>5. /\ a \o b \in Seq(S)
      /\ Len(a \o b) = Len(a) + Len(b)
      /\ \A m \in 1 .. Len(a) + Len(b) : (a \o b)[m] = IF m <= Len(a) THEN a[m]
                                                                     ELSE b[m - Len(a)]
    BY <1>3, <1>4, ConcatProperties
<1>7. ASSUME NEW m \in 1 .. Len(s) - 1
      PROVE  (a \o b)[m] = IF m < k THEN s[m] ELSE s[m + 1]
    <2>1. m \in 1 .. Len(a) + Len(b) /\ (m <= Len(a) <=> m < k)
        BY <1>1, <1>3, <1>4
    <2>2. CASE m < k
        BY <1>1, <1>3, <1>5, <2>1, <2>2
    <2>3. CASE ~(m < k)
        <3>1. (a \o b)[m] = b[m - (k - 1)]
            BY <1>3, <1>5, <2>1, <2>3
        <3>2. m - (k - 1) \in 1 .. Len(s) - k /\ k + (m - (k - 1)) = m + 1
            BY <1>1, <2>3
        <3>3. b[m - (k - 1)] = s[k + (m - (k - 1))]
            BY <1>4, <3>2
        <3> QED
            BY <2>3, <3>1, <3>2, <3>3
    <2> QED
        BY <2>2, <2>3
<1>8. Len(a) + Len(b) = Len(s) - 1
    BY <1>1, <1>3, <1>4
<1> QED
    BY <1>1, <1>5, <1>6, <1>7, <1>8

\* Every count of subscriptions given out gives the next id, and a new one.
Issued == {i \in Ids : rz[i].state # "none"}

NextId == Cardinality(Issued) + 1

\* The typing of TypeOK, and where its rows and calls may point: at
\* subscriptions that Razorpay has given out.
IdsInOrder == \E n \in 0 .. MaxIds : Issued = 1 .. n

Known(i) == i \in Ids => rz[i].state # "none"

KnownCall(k) ==
    /\ k \in CallType
    /\ Known(k.drop)
    /\ k.seen # NotRead => Known(k.seen.id) /\ k.seen.id # NoId /\ k.seen.status # "none"
    /\ k.at \in {"checkingOut", "moving"} => k.plan \in Plans

FreshIds ==
    \A i \in Ids : rz[i].state = "none" => inbox[i] = <<>> /\ rz[i].paid = 0 /\ fills[i] = 0

Types ==
    /\ row \in RowType /\ Known(row.id)
    /\ row.status = "none" <=> row.id = NoId
    /\ row.status = "none" => row = Absent
    /\ pool \in Pool
    /\ call \in [Callers -> CallType]
    /\ \A c \in Callers : KnownCall(call[c]) /\ (call[c].seen # NotRead => row.id # NoId)
    /\ activating \subseteq Ids /\ \A i \in activating : Known(i)
    /\ worker \in {"idle", "lapsing", "cleaning"}
    /\ rz \in [Ids -> RzType] /\ IdsInOrder
    /\ \A i \in Ids : rz[i].state # "none" => rz[i].plan \in Plans
    /\ inbox \in [Ids -> Seq(Kinds)] /\ FreshIds
    /\ clock \in 0 .. MaxTime
    /\ fills \in [Ids -> Nat]

\* A flush leaves a row of the right type, field by field.
LEMMA FlushedRow ==
    ASSUME NEW seen \in RowType, NEW new \in RowType, row \in RowType, Flush(seen, new)
    PROVE  /\ row' \in RowType
           /\ row'.status = IF new.status = seen.status THEN row.status ELSE new.status
           /\ row'.id = IF new.id = seen.id THEN row.id ELSE new.id
           /\ row'.plan = IF new.plan = seen.plan THEN row.plan ELSE new.plan
           /\ row'.per = IF new.per = seen.per THEN row.per ELSE new.per
           /\ row'.paid = IF new.paid = seen.paid THEN row.paid ELSE new.paid
           /\ seen = row => row' = new
BY DEF Flush, RowType

\* The next id has not been given out.
LEMMA FreshId ==
    ASSUME IdsInOrder, NEW id, id = NextId, id \in Ids
    PROVE  /\ rz[id].state = "none"
           /\ Issued = 1 .. id - 1
<1>1. PICK n \in 0 .. MaxIds : Issued = 1 .. n
    BY DEF IdsInOrder
<1>2. n \in Nat /\ MaxIds \in Nat
    BY <1>1, SubscriptionsAssumption
<1>3. Cardinality(1 .. n) = IF 1 > n THEN 0 ELSE n - 1 + 1
    BY <1>2, FS_Interval
<1>4. id = n + 1
    BY <1>1, <1>2, <1>3 DEF NextId
<1>5. id \notin Issued
    BY <1>1, <1>2, <1>4
<1> QED
    BY <1>1, <1>2, <1>4, <1>5 DEF Issued

\* Razorpay's events and states change, its ids do not.
LEMMA IdsStayInOrder ==
    ASSUME IdsInOrder, \A i \in Ids : rz'[i].state = "none" <=> rz[i].state = "none"
    PROVE  IdsInOrder'
<1>1. Issued' = Issued
    BY DEF Issued
<1> QED
    BY <1>1 DEF IdsInOrder

\* A report keeps the inboxes' type.
LEMMA InboxGrows ==
    ASSUME inbox \in [Ids -> Seq(Kinds)], NEW i \in Ids, NEW e \in Kinds
    PROVE  /\ [inbox EXCEPT ![i] = Append(@, e)] \in [Ids -> Seq(Kinds)]
           /\ [inbox EXCEPT ![i] = @ \o <<e>>] \in [Ids -> Seq(Kinds)]
           /\ [inbox EXCEPT ![i] = @ \o <<"activated", "charged">>] \in [Ids -> Seq(Kinds)]
<1>1. inbox[i] \in Seq(Kinds) /\ <<e>> \in Seq(Kinds) /\ <<"activated", "charged">> \in Seq(Kinds)
    BY DEF Kinds
<1>2. /\ Append(inbox[i], e) \in Seq(Kinds)
      /\ inbox[i] \o <<e>> \in Seq(Kinds)
      /\ inbox[i] \o <<"activated", "charged">> \in Seq(Kinds)
    BY <1>1, AppendProperties, ConcatProperties
<1> QED
    BY <1>2

\* A webhook that is handled leaves the inbox or stays.
LEMMA ReceivedTypes ==
    ASSUME inbox \in [Ids -> Seq(Kinds)], NEW i \in Ids, NEW event,
           \E k \in DOMAIN inbox[i] : Receives(i, k, event)
    PROVE  /\ inbox' \in [Ids -> Seq(Kinds)]
           /\ inbox[i] # <<>>
           /\ \A j \in Ids : j # i => inbox'[j] = inbox[j]
<1>1. PICK k \in DOMAIN inbox[i] : Receives(i, k, event)
    OBVIOUS
<1>2. inbox[i] \in Seq(Kinds) /\ RemoveAt(inbox[i], k) \in Seq(Kinds) /\ k \in 1 .. Len(inbox[i])
    BY RemoveAtProperties
<1>3. inbox' = inbox \/ inbox' = [inbox EXCEPT ![i] = RemoveAt(@, k)]
    BY <1>1 DEF Receives
<1>4. inbox[i] # <<>>
    BY <1>2
<1> QED
    BY <1>2, <1>3, <1>4

\* An idle call may stand in any state.
LEMMA IdleIsKnown == KnownCall(Idle)
BY DEF KnownCall, CallType, Idle, Known, NoId, Ids, NotRead, Absent

\* A step of a call that leaves Razorpay and the row alone.
LEMMA CallStays ==
    ASSUME Types, NEW c \in Callers, NEW k, KnownCall(k), k.seen # NotRead => row.id # NoId,
           call' = [call EXCEPT ![c] = k], pool' \in Pool,
           UNCHANGED <<row, activating, worker, rz, inbox, clock, fills>>
    PROVE  Types'
<1>1. /\ call' \in [Callers -> CallType]
      /\ \A d \in Callers : KnownCall(call'[d]) /\ (call'[d].seen # NotRead => row.id # NoId)
    BY DEF Types, KnownCall
<1>2. \A d \in Callers : KnownCall(call[d])' /\ (call'[d].seen # NotRead => row'.id # NoId)
    BY <1>1 DEF KnownCall, Known
<1>3. UNCHANGED Issued
    BY DEF Issued
<1> QED
    BY <1>1, <1>2, <1>3 DEF Types, Known, IdsInOrder, FreshIds

\* Changing one call leaves the others known.
LEMMA CallTypes ==
    ASSUME Types, NEW c \in Callers, Ask(c) \/ Switch(c) \/ MoveLeftover(c) \/ Die(c)
                                   \/ CheckoutLeavesRow(c)
    PROVE  Types'
<1>0. call[c] \in CallType /\ KnownCall(call[c])
    BY DEF Types
<1>1. CASE Die(c) \/ CheckoutLeavesRow(c)
    <2>1. /\ call' = [call EXCEPT ![c] = Idle] /\ pool' \in Pool
          /\ UNCHANGED <<row, activating, worker, rz, inbox, clock, fills>>
        BY <1>1 DEF Die, CheckoutLeavesRow, Return, Types
    <2>2. Idle.seen = NotRead
        BY DEF Idle
    <2> QED
        BY <2>1, <2>2, IdleIsKnown, CallStays
<1>2. CASE MoveLeftover(c)
    <2> DEFINE k == [call[c] EXCEPT !.at = "checkingOut", !.seen = NotRead]
    <2>1. /\ call' = [call EXCEPT ![c] = k]
          /\ UNCHANGED <<row, activating, worker, rz, inbox, clock, fills>>
        BY <1>2 DEF MoveLeftover, CallAt, Types
    <2>2. pool' \in Pool
        BY <1>2 DEF MoveLeftover, Types, Pool
    <2>3. KnownCall(k) /\ k.seen = NotRead
        BY <1>0, <1>2 DEF KnownCall, CallType, MoveLeftover
    <2> HIDE DEF k
    <2> QED
        BY <2>1, <2>2, <2>3, CallStays
<1>3. CASE Ask(c)
    <2>1. /\ call[c] = Idle
          /\ UNCHANGED <<row, activating, worker, rz, inbox, clock, fills>> /\ pool' \in Pool
        BY <1>3 DEF Ask, Types
    <2>2. ASSUME NEW p \in Plans,
                 call' = [call EXCEPT ![c] = [Idle EXCEPT !.at = "checkingOut", !.plan = p]]
          PROVE  Types'
        <3> DEFINE k == [Idle EXCEPT !.at = "checkingOut", !.plan = p]
        <3>1. KnownCall(k) /\ k.seen = NotRead
            BY IdleIsKnown DEF KnownCall, CallType, Idle
        <3> HIDE DEF k
        <3> QED
            BY <2>1, <2>2, <3>1, CallStays DEF k
    <2>3. CASE CallAt(c, "cancelling")
        <3> DEFINE k == [call[c] EXCEPT !.at = "cancelling", !.seen = NotRead]
        <3>1. call' = [call EXCEPT ![c] = k]
            BY <2>3 DEF CallAt
        <3>2. KnownCall(k) /\ k.seen = NotRead
            BY <2>1, IdleIsKnown DEF KnownCall, CallType, Idle
        <3> HIDE DEF k
        <3> QED
            BY <2>1, <3>1, <3>2, CallStays
    <2> QED
        BY <1>3, <2>2, <2>3 DEF Ask
<1>4. CASE Switch(c)
    <2>1. PICK p \in Plans, at \in {"checkingOut", "cancelling"},
               seen \in {IF row = Absent THEN NotRead ELSE row} :
             call' = [call EXCEPT ![c] = [at |-> at, plan |-> p, drop |-> NoId, seen |-> seen]]
        BY <1>4 DEF Switch
    <2> DEFINE k == [at |-> at, plan |-> p, drop |-> NoId, seen |-> seen]
    <2>2. KnownCall(k) /\ (k.seen # NotRead => row.id # NoId)
        BY <2>1 DEF KnownCall, CallType, Types, Known, Ids, NoId
    <2>3. pool' \in Pool /\ UNCHANGED <<row, activating, worker, rz, inbox, clock, fills>>
        BY <1>4 DEF Switch, Types
    <2> HIDE DEF k
    <2> QED
        BY <2>1, <2>2, <2>3, CallStays DEF k
<1> QED
    BY <1>1, <1>2, <1>3, <1>4

\* What Razorpay does on its own.
LEMMA RazorpayTypes ==
    ASSUME Types, NEW i \in Ids, RazorpayStep(i)
    PROVE  Types'
<1>0. /\ rz \in [Ids -> RzType] /\ inbox \in [Ids -> Seq(Kinds)] /\ clock \in Nat
      /\ rz[i] \in RzType
    BY SubscriptionsAssumption DEF Types
<1>1. UNCHANGED <<row, pool, call, activating, worker, fills, clock>>
    BY DEF RazorpayStep, Pay, Renew, RenewalFails, RetriesExhausted, LastPeriodEnds,
           BecomesAtRazorpay, OnlyRazorpay
<1>2. /\ rz[i].state # "none" /\ rz'[i].state # "none"
      /\ rz' \in [Ids -> RzType]
      /\ \A j \in Ids : rz'[j].plan = rz[j].plan /\ (j # i => rz'[j] = rz[j])
    <2>1. CASE BecomesAtRazorpay(i, "retrying", "pending") /\ rz[i].state = "active"
        BY <1>0, <2>1 DEF BecomesAtRazorpay, RzType, RzStates
    <2>2. CASE BecomesAtRazorpay(i, "halted", "halted") /\ rz[i].state = "retrying"
        BY <1>0, <2>2 DEF BecomesAtRazorpay, RzType, RzStates
    <2>3. CASE BecomesAtRazorpay(i, "completed", "completed") /\ rz[i].state = "active"
        BY <1>0, <2>3 DEF BecomesAtRazorpay, RzType, RzStates
    <2>4. CASE Charge(i) /\ rz[i].state \in {"created", "active", "retrying"}
        <3>1. clock + Length(rz[i].plan) \in Nat
            BY <1>0 DEF Length
        <3> QED
            BY <1>0, <2>4, <3>1 DEF Charge, RzType, RzStates
    <2> QED
        BY <2>1, <2>2, <2>3, <2>4 DEF RazorpayStep, Pay, Renew, RenewalFails,
           RetriesExhausted, LastPeriodEnds
<1>3. /\ inbox' \in [Ids -> Seq(Kinds)]
      /\ \A j \in Ids : j # i => inbox'[j] = inbox[j]
    <2>1. \A e \in Kinds : Report(i, <<e>>) =>
             /\ inbox' \in [Ids -> Seq(Kinds)]
             /\ \A j \in Ids : j # i => inbox'[j] = inbox[j]
        BY <1>0, InboxGrows DEF Report
    <2>2. Report(i, <<"activated", "charged">>) =>
             /\ inbox' \in [Ids -> Seq(Kinds)]
             /\ \A j \in Ids : j # i => inbox'[j] = inbox[j]
        <3>1. "charged" \in Kinds
            BY DEF Kinds
        <3> QED
            BY <1>0, <3>1, InboxGrows DEF Report
    <2>3. \/ \E e \in Kinds : Report(i, <<e>>)
          \/ Report(i, <<"activated", "charged">>)
        BY DEF RazorpayStep, Pay, Renew, RenewalFails, RetriesExhausted, LastPeriodEnds,
               BecomesAtRazorpay, Kinds
    <2> QED
        BY <2>1, <2>2, <2>3
<1>4. IdsInOrder'
    BY <1>2, IdsStayInOrder DEF Types
<1> QED
    BY <1>1, <1>2, <1>3, <1>4 DEF Types, Known, KnownCall, FreshIds

\* A row that is written by a webhook or a cron job.
LEMMA RowTypes ==
    ASSUME Types, row' \in RowType, Known(row'.id), row'.id # NoId, row'.status # "none",
           pool' \in Pool, activating' \subseteq Ids, \A i \in activating' : Known(i),
           worker' \in {"idle", "lapsing", "cleaning"},
           inbox' \in [Ids -> Seq(Kinds)], fills' \in [Ids -> Nat],
           \A i \in Ids : rz[i].state = "none" => inbox'[i] = <<>> /\ fills'[i] = 0,
           UNCHANGED <<call, rz, clock>>
    PROVE  Types'
<1>1. UNCHANGED Issued
    BY DEF Issued
<1> QED
    BY <1>1 DEF Types, Known, KnownCall, FreshIds, IdsInOrder

\* A promotion keeps the types.
LEMMA PromotedTypes ==
    ASSUME Types, NEW i \in Ids, Known(i), Promote(i)
    PROVE  /\ row' \in RowType /\ Known(row'.id) /\ row'.id # NoId /\ row'.status # "none"
           /\ pool' \in Pool /\ fills' \in [Ids -> Nat]
           /\ \A j \in Ids : rz[j].state = "none" => fills'[j] = 0
           /\ row'.id = i /\ row'.status = "active" /\ row'.plan = rz[i].plan /\ row'.per > 0
           /\ row'.paid = 0 /\ fills' = [fills EXCEPT ![i] = @ + 1]
           /\ pool' = [pool EXCEPT !.sub = row'.per]
<1>1. /\ rz[i].plan \in Plans /\ Slice[rz[i].plan] \in Nat \ {0} /\ clock + 1 \in Nat
      /\ NoId \notin Ids
    BY SubscriptionsAssumption DEF Types, Known, NoId, Ids
<1>2. /\ row' \in RowType /\ row'.id = i /\ row'.status = "active" /\ row'.plan = rz[i].plan
      /\ row'.per = Slice[rz[i].plan] /\ row'.paid = 0
    BY <1>1 DEF Promote, Types, RowType, Statuses, AnyStatus
<1>3. pool' \in Pool /\ pool' = [pool EXCEPT !.sub = Slice[rz[i].plan]]
    BY <1>1 DEF Promote, RefillPool, Types, Pool
<1>4. fills' = [fills EXCEPT ![i] = @ + 1]
    BY DEF Promote
<1> QED
    BY <1>1, <1>2, <1>3, <1>4 DEF Types, Known, FreshIds

\* The webhooks.
LEMMA WebhookTypes ==
    ASSUME Types, NEW i \in Ids, WebhookStep(i)
    PROVE  Types'
<1>0. UNCHANGED <<call, worker, rz, clock>>
    BY DEF WebhookStep, Activated, ActivatedByTeam, Charged, Completed, Halted,
           CancelledAtRazorpay, RenewalPending, Moves
<1>1. ASSUME NEW event, \E k \in DOMAIN inbox[i] : Receives(i, k, event),
             row' \in RowType, Known(row'.id), row'.id # NoId <=> row'.status # "none",
             row'.status = "none" => row' = Absent, row.id # NoId => row'.id # NoId,
             pool' \in Pool, fills' \in [Ids -> Nat],
             \A j \in Ids : rz[j].state = "none" => fills'[j] = 0,
             activating' \in {activating, activating \union {i}}
      PROVE  Types'
    <2>1. /\ inbox' \in [Ids -> Seq(Kinds)] /\ inbox[i] # <<>>
          /\ \A j \in Ids : j # i => inbox'[j] = inbox[j]
        BY <1>1, ReceivedTypes DEF Types
    <2>2. rz[i].state # "none"
        BY <2>1 DEF Types, FreshIds
    <2>3. UNCHANGED Issued
        BY <1>0 DEF Issued
    <2> QED
        BY <1>0, <1>1, <2>1, <2>2, <2>3 DEF Types, Known, KnownCall, FreshIds, IdsInOrder
<1>2. ASSUME UNCHANGED row
      PROVE  /\ row' \in RowType /\ Known(row'.id) /\ (row'.id # NoId <=> row'.status # "none")
             /\ (row'.status = "none" => row' = Absent) /\ (row.id # NoId => row'.id # NoId)
    BY <1>2 DEF Types
<1>3. ASSUME UNCHANGED <<pool, fills>>
      PROVE  /\ pool' \in Pool /\ fills' \in [Ids -> Nat]
             /\ \A j \in Ids : rz[j].state = "none" => fills'[j] = 0
    BY <1>3 DEF Types, FreshIds
<1>4. CASE Activated(i)
    <2>1. \E k \in DOMAIN inbox[i] : Receives(i, k, "activated")
        BY <1>4 DEF Activated
    <2>2. rz[i].state # "none"
        BY <2>1, ReceivedTypes DEF Types, FreshIds
    <2>3. activating' \in {activating, activating \union {i}}
        BY <1>4 DEF Activated
    <2>4. CASE UNCHANGED <<row, pool, fills>>
        BY <1>1, <1>2, <1>3, <2>1, <2>3, <2>4
    <2>5. CASE Promote(i)
        <3>1. /\ row' \in RowType /\ Known(row'.id) /\ row'.id # NoId /\ row'.status # "none"
              /\ pool' \in Pool /\ fills' \in [Ids -> Nat]
              /\ \A j \in Ids : rz[j].state = "none" => fills'[j] = 0
            BY <2>2, <2>5, PromotedTypes DEF Known
        <3> QED
            BY <1>1, <2>1, <2>3, <3>1
    <2> QED
        BY <1>4, <2>4, <2>5 DEF Activated
<1>5. CASE ActivatedByTeam(i)
    <2>1. i \in activating /\ Known(i) /\ activating' = activating \ {i} /\ inbox' = inbox
        BY <1>5 DEF ActivatedByTeam, Types
    <2>2. CASE UNCHANGED <<row, pool, fills>>
        <3>1. UNCHANGED Issued
            BY <1>0 DEF Issued
        <3> QED
            BY <1>0, <2>1, <2>2, <3>1 DEF Types, Known, KnownCall, FreshIds, IdsInOrder
    <2>3. CASE Promote(i)
        <3>1. /\ row' \in RowType /\ Known(row'.id) /\ row'.id # NoId /\ row'.status # "none"
              /\ pool' \in Pool /\ fills' \in [Ids -> Nat]
              /\ \A j \in Ids : rz[j].state = "none" => fills'[j] = 0
            BY <2>1, <2>3, PromotedTypes
        <3> QED
            BY <1>0, <2>1, <3>1, RowTypes DEF Types, FreshIds
    <2> QED
        BY <1>5, <2>2, <2>3 DEF ActivatedByTeam
<1>6. CASE Charged(i)
    <2>1. \E k \in DOMAIN inbox[i] : Receives(i, k, "charged")
        BY <1>6 DEF Charged
    <2>2. activating' = activating
        BY <1>6 DEF Charged
    <2>3. CASE UNCHANGED <<row, pool, fills>>
        BY <1>1, <1>2, <1>3, <2>1, <2>2, <2>3
    <2>4. CASE /\ OnRow(i) /\ row.status # "cancelled"
               /\ row' = [row EXCEPT !.status = "active",
                                     !.paid = IF IsNew(i) THEN rz[i].paid ELSE @,
                                     !.due = IF Refills(i) THEN clock + 1 ELSE @]
               /\ IF Refills(i)
                  THEN RefillPool(row.per) /\ fills' = [fills EXCEPT ![i] = @ + 1]
                  ELSE UNCHANGED <<pool, fills>>
        <3>1. /\ row' \in RowType /\ row'.id = row.id /\ row'.status = "active"
            <4>1. rz[i].paid \in Nat /\ clock + 1 \in Nat
                BY SubscriptionsAssumption DEF Types, RzType
            <4> QED
                BY <2>4, <4>1 DEF Types, RowType, Statuses, AnyStatus
        <3>2. row.id = i /\ i # NoId /\ rz[i].state # "none"
            <4>1. row.id = i /\ Known(row.id)
                BY <2>4 DEF OnRow, Types
            <4>2. i # NoId
                BY SubscriptionsAssumption DEF NoId, Ids
            <4> QED
                BY <4>1, <4>2 DEF Known
        <3>3. pool' \in Pool /\ fills' \in [Ids -> Nat]
            <4>1. row.per \in Nat /\ pool \in Pool /\ fills \in [Ids -> Nat]
                BY DEF Types, RowType
            <4>2. pool' \in Pool
                BY <2>4, <4>1 DEF RefillPool, Pool
            <4>3. fills' \in [Ids -> Nat]
                BY <2>4, <4>1
            <4> QED
                BY <4>2, <4>3
        <3>4. \A j \in Ids : rz[j].state = "none" => fills'[j] = 0
            BY <2>4, <3>2 DEF Types, FreshIds
        <3> QED
            BY <1>1, <2>1, <2>2, <3>1, <3>2, <3>3, <3>4 DEF Types, Known
    <2> QED
        BY <1>6, <2>3, <2>4 DEF Charged
<1>7. ASSUME NEW event, NEW from \in SUBSET AnyStatus, NEW to \in AnyStatus, Moves(i, event, from,
   to)
      PROVE  Types'
    <2>1. /\ \E k \in DOMAIN inbox[i] : Receives(i, k, event)
          /\ UNCHANGED <<pool, activating, fills>>
        BY <1>7 DEF Moves
    <2>2. /\ row' \in RowType /\ row'.id = row.id
          /\ row'.status # "none" <=> row.status # "none"
          /\ row.status = "none" => row' = row
        BY <1>7 DEF Moves, Types, RowType, Statuses, AnyStatus, OnRow
    <2> QED
        BY <1>1, <1>3, <2>1, <2>2 DEF Types, Known
<1> QED
    BY <1>4, <1>5, <1>6, <1>7 DEF WebhookStep, Completed, Halted, CancelledAtRazorpay,
       RenewalPending, AnyStatus

\* The cron jobs, the clock and the generations.
LEMMA CronTypes ==
    ASSUME Types, CronStep \/ Spend \/ Tick \/ RowGetsOld
    PROVE  Types'
<1>1. CASE RefillDue
    <2>1. /\ row.per \in Nat /\ pool \in Pool /\ clock + 1 \in Nat
        BY SubscriptionsAssumption DEF Types, RowType
    <2>2. pool' \in Pool
        BY <1>1, <2>1 DEF RefillDue, RefillPool, Pool
    <2>3. row' \in RowType /\ row'.id = row.id /\ row'.status = "active" /\ row.status = "active"
        BY <1>1, <2>1 DEF RefillDue, Types, RowType
    <2>4. UNCHANGED <<call, activating, worker, rz, inbox, clock, fills>>
        BY <1>1 DEF RefillDue
    <2> QED
        BY <2>2, <2>3, <2>4, RowTypes DEF Types, FreshIds
<1>2. CASE SelectLapsed \/ SelectStale
    <2>1. /\ worker' \in {"lapsing", "cleaning"}
          /\ UNCHANGED <<row, pool, call, activating, rz, inbox, clock, fills, Issued>>
        BY <1>2 DEF SelectLapsed, SelectStale, Issued
    <2> QED
        BY <2>1 DEF Types, Known, KnownCall, FreshIds, IdsInOrder
<1>3. CASE Lapse \/ Spend
    <2>1. /\ worker' \in {worker, "idle"}
          /\ UNCHANGED <<row, call, activating, rz, inbox, clock, fills, Issued>>
        BY <1>3 DEF Lapse, Spend, Issued
    <2>2. pool' \in Pool
        <3>1. pool \in Pool
            BY DEF Types
        <3> QED
            BY <1>3, <3>1 DEF Lapse, Spend, RefillPool, Pool, Minus, Taken, Lesser, Total
    <2> QED
        BY <2>1, <2>2 DEF Types, Known, KnownCall, FreshIds, IdsInOrder
<1>4. CASE RowGetsOld
    <2>1. /\ row' \in RowType /\ row'.id = row.id /\ row'.status = row.status
          /\ row.status # "none"
          /\ UNCHANGED <<pool, call, activating, worker, rz, inbox, clock, fills>>
        BY <1>4 DEF RowGetsOld, Types, RowType
    <2> QED
        BY <2>1, RowTypes DEF Types, FreshIds
<1>5. CASE Tick
    <2>1. clock' \in 0 .. MaxTime
        BY <1>5, SubscriptionsAssumption DEF Tick, Types
    <2>2. UNCHANGED <<row, pool, call, activating, worker, rz, inbox, fills, Issued>>
        BY <1>5 DEF Tick, Issued
    <2> QED
        BY <2>1, <2>2 DEF Types, Known, KnownCall, FreshIds, IdsInOrder
<1>6. CASE DeleteStale
    <2>1. /\ row' = Absent /\ worker' = "idle"
          /\ call' = [c \in Callers |-> [call[c] EXCEPT !.seen = NotRead]]
          /\ UNCHANGED <<pool, activating, rz, inbox, clock, fills, Issued>>
        BY <1>6 DEF DeleteStale, Issued
    <2>2. Absent \in RowType /\ Absent.id = NoId /\ Absent.status = "none" /\ NoId \notin Ids
        BY SubscriptionsAssumption DEF Absent, RowType, Statuses, NoId, Ids
    <2>3. \A c \in Callers : KnownCall(call'[c]) /\ call'[c].seen = NotRead
        BY <2>1 DEF Types, KnownCall, CallType
    <2>4. call' \in [Callers -> CallType]
        BY <2>1, <2>3 DEF KnownCall
    <2>5. \A c \in Callers : KnownCall(call[c])'
        BY <2>1, <2>3 DEF KnownCall, Known
    <2> QED
        BY <2>1, <2>2, <2>3, <2>4, <2>5 DEF Types, Known, FreshIds, IdsInOrder
<1> QED
    BY <1>1, <1>2, <1>3, <1>4, <1>5, <1>6 DEF CronStep

\* A cancel at Razorpay changes the state of one subscription, if any.
LEMMA CancelTypes ==
    ASSUME Types, NEW i, \/ UNCHANGED <<rz, inbox>>
                         \/ Cancellable(i) /\ CancelAtRazorpay(i)
    PROVE  /\ rz' \in [Ids -> RzType] /\ inbox' \in [Ids -> Seq(Kinds)]
           /\ \A j \in Ids : /\ rz'[j].state = "none" <=> rz[j].state = "none"
                             /\ rz'[j].plan = rz[j].plan /\ rz'[j].paid = rz[j].paid
                             /\ rz[j].state = "none" => inbox'[j] = inbox[j]
<1>1. CASE UNCHANGED <<rz, inbox>>
    BY <1>1 DEF Types
<1>2. CASE Cancellable(i) /\ CancelAtRazorpay(i)
    <2>1. /\ i \in Ids /\ rz[i].state # "none" /\ rz \in [Ids -> RzType]
          /\ inbox \in [Ids -> Seq(Kinds)] /\ "cancelled" \in Kinds
        BY <1>2 DEF Cancellable, Types, Kinds
    <2>2. inbox' \in [Ids -> Seq(Kinds)]
        BY <1>2, <2>1, InboxGrows DEF CancelAtRazorpay
    <2>3. rz' \in [Ids -> RzType]
        BY <1>2, <2>1 DEF CancelAtRazorpay, RzType, RzStates
    <2>4. rz'[i].state = "cancelled" /\ rz'[i].plan = rz[i].plan /\ rz'[i].paid = rz[i].paid
        BY <1>2, <2>1 DEF CancelAtRazorpay, RzType
    <2>5. \A j \in Ids : j # i => rz'[j] = rz[j] /\ inbox'[j] = inbox[j]
        BY <1>2, <2>1 DEF CancelAtRazorpay
    <2> QED
        BY <2>1, <2>2, <2>3, <2>4, <2>5
<1> QED
    BY <1>1, <1>2

\* A call that may cancel at Razorpay and write a status.
LEMMA CancelCallTypes ==
    ASSUME Types, NEW c \in Callers, NEW k, KnownCall(k), k.seen = NotRead, NEW i,
           \/ UNCHANGED <<rz, inbox>>
           \/ Cancellable(i) /\ CancelAtRazorpay(i),
           call' = [call EXCEPT ![c] = k],
           row' \in RowType, row'.id = row.id, row'.status = "none" <=> row.status = "none",
           row.status = "none" => row' = row,
           UNCHANGED <<pool, activating, worker, clock, fills>>
    PROVE  Types'
<1>1. /\ rz' \in [Ids -> RzType] /\ inbox' \in [Ids -> Seq(Kinds)]
      /\ \A j \in Ids : /\ rz'[j].state = "none" <=> rz[j].state = "none"
                        /\ rz'[j].plan = rz[j].plan /\ rz'[j].paid = rz[j].paid
                        /\ rz[j].state = "none" => inbox'[j] = inbox[j]
    BY CancelTypes
<1>2. IdsInOrder'
    BY <1>1, IdsStayInOrder DEF Types
<1>3. /\ call' \in [Callers -> CallType]
      /\ \A d \in Callers : KnownCall(call'[d]) /\ (call'[d].seen # NotRead => row.id # NoId)
    BY DEF Types, KnownCall
<1>4. \A d \in Callers : KnownCall(call[d])' /\ (call'[d].seen # NotRead => row'.id # NoId)
    BY <1>1, <1>3 DEF KnownCall, Known
<1> QED
    BY <1>1, <1>2, <1>3, <1>4 DEF Types, Known, FreshIds

\* Where a call goes after its cancel.
LEMMA AfterCancelTypes ==
    ASSUME Types, NEW c \in Callers, AfterCancel(c) \/ Return(c)
    PROVE  \E k : /\ KnownCall(k) /\ k.seen = NotRead /\ k.at \in {"idle", "moving"}
                  /\ call' = [call EXCEPT ![c] = k]
<1>1. CASE Return(c)
    BY <1>1, IdleIsKnown DEF Return, Idle
<1>2. CASE CallAt(c, "moving") /\ call[c].plan # NoPlan
    <2> DEFINE k == [call[c] EXCEPT !.at = "moving", !.seen = NotRead]
    <2>1. call' = [call EXCEPT ![c] = k]
        BY <1>2 DEF CallAt
    <2>2. KnownCall(k) /\ k.seen = NotRead /\ k.at = "moving"
        BY <1>2 DEF Types, KnownCall, CallType
    <2> HIDE DEF k
    <2> QED
        BY <2>1, <2>2
<1> QED
    BY <1>1, <1>2 DEF AfterCancel

\* What a session holds of the row is a row.
LEMMA SeenTypes ==
    ASSUME Types, NEW c \in Callers
    PROVE  /\ Seen(c) \in RowType /\ Known(Seen(c).id)
           /\ call[c].seen # NotRead => /\ Seen(c) = call[c].seen /\ Seen(c).id # NoId
                                        /\ Seen(c).status # "none" /\ row.id # NoId
           /\ call[c].seen = NotRead => Seen(c) = row
BY DEF Types, Seen, KnownCall, CallType

\* A cancel's write to the row: from the session's row, or nothing.
LEMMA CancelledRow ==
    ASSUME Types, NEW c \in Callers, Cancelled(Seen(c)), row.status \in {"active", "pending"}
    PROVE  /\ row' \in RowType /\ row'.id = row.id /\ row'.plan = row.plan /\ row'.per = row.per
           /\ row'.paid = row.paid
           /\ row'.status = IF Seen(c).status = "cancelled" THEN row.status ELSE "cancelled"
           /\ row'.status # "none" /\ row.status # "none"
<1> DEFINE seen == Seen(c)
           new == [seen EXCEPT !.status = "cancelled"]
<1>1. seen \in RowType /\ row \in RowType
    BY SeenTypes DEF Types
<1>2. /\ new \in RowType /\ new.status = "cancelled" /\ new.id = seen.id /\ new.plan = seen.plan
      /\ new.per = seen.per /\ new.paid = seen.paid
    BY <1>1 DEF RowType, Statuses, AnyStatus
<1>3. Flush(seen, new)
    BY DEF Cancelled
<1> HIDE DEF seen, new
<1>4. /\ row' \in RowType
      /\ row'.status = IF new.status = seen.status THEN row.status ELSE new.status
      /\ row'.id = row.id /\ row'.plan = row.plan /\ row'.per = row.per /\ row'.paid = row.paid
    BY <1>1, <1>2, <1>3, FlushedRow
<1> QED
    BY <1>2, <1>4 DEF seen

\* A step of a cancel keeps the types.
LEMMA CancelStepTypes ==
    ASSUME Types, NEW c \in Callers,
           DropReplaced(c) \/ CancelUnpaid(c) \/ CancelPaid(c) \/ CancelLeavesRow(c)
    PROVE  Types'
<1>1. UNCHANGED <<pool, activating, worker, clock, fills>>
    BY DEF DropReplaced, CancelUnpaid, CancelPaid, CancelLeavesRow
<1>2. PICK i : \/ UNCHANGED <<rz, inbox>>
               \/ Cancellable(i) /\ CancelAtRazorpay(i)
    BY DEF DropReplaced, CancelUnpaid, CancelPaid, CancelLeavesRow, TryCancelAtRazorpay
<1>3. PICK k : /\ KnownCall(k) /\ k.seen = NotRead
               /\ call' = [call EXCEPT ![c] = k]
    BY AfterCancelTypes DEF DropReplaced, CancelUnpaid, CancelPaid, CancelLeavesRow
<1>4. /\ row' \in RowType /\ row'.id = row.id
      /\ row'.status = "none" <=> row.status = "none"
      /\ row.status = "none" => row' = row
    <2>1. CASE row' = row
        BY <2>1 DEF Types
    <2>2. CASE row.status \in {"active", "pending"} /\ Cancelled(Seen(c))
        BY <2>2, CancelledRow
    <2> QED
        BY <2>1, <2>2 DEF DropReplaced, CancelUnpaid, CancelPaid, CancelLeavesRow
<1> QED
    BY <1>1, <1>2, <1>3, <1>4, CancelCallTypes

\* What a checkout does: the row gets a new id, and the fields the session
\* had loaded with their new values keep what they have.
LEMMA CheckoutFacts ==
    ASSUME Types, NEW c \in Callers, Checkout(c)
    PROVE  LET seen == Seen(c)  p == call[c].plan  id == NextId IN
           /\ id \in Ids /\ rz[id].state = "none" /\ p \in Plans /\ id # row.id /\ id # NoId
           /\ row' \in RowType /\ row'.id = id
           /\ row'.status = IF seen.status = "pending" THEN row.status ELSE "pending"
           /\ row'.plan = IF seen.plan = p THEN row.plan ELSE p
           /\ row'.per = IF seen.per = 0 THEN row.per ELSE 0
           /\ row'.paid = row.paid
           /\ rz' \in [Ids -> RzType]
           /\ rz'[id].state = "created" /\ rz'[id].plan = p /\ rz'[id].paid = 0
           /\ \A j \in Ids : j # id => rz'[j] = rz[j]
           /\ call' = [call EXCEPT ![c] = IF Unpaid(seen)
                                          THEN [Idle EXCEPT !.at = "dropping", !.drop = seen.id]
                                          ELSE Idle]
           /\ UNCHANGED <<pool, activating, worker, inbox, clock, fills>>
<1> DEFINE seen == Seen(c)
           p == call[c].plan
           id == NextId
           new == Claim(seen, id, p)
<1>1. seen \in RowType /\ row \in RowType /\ Known(seen.id) /\ Known(row.id)
    BY SeenTypes DEF Types
<1>2. p \in Plans /\ clock \in Nat
    BY SubscriptionsAssumption DEF Types, KnownCall, Checkout
<1>3. /\ id \in Ids /\ Flush(seen, new)
      /\ rz' = [rz EXCEPT ![id] = [@ EXCEPT !.state = "created", !.plan = p]]
      /\ IF Unpaid(seen)
         THEN call' = [call EXCEPT ![c] = [Idle EXCEPT !.at = "dropping", !.drop = seen.id]]
         ELSE Return(c)
      /\ UNCHANGED <<pool, activating, worker, inbox, clock, fills>>
    BY DEF Checkout, NextId, Issued
<1>4. rz[id].state = "none" /\ id # NoId
    BY <1>3, FreshId, SubscriptionsAssumption DEF Types, NoId, Ids
<1>5. id # row.id /\ id # seen.id
    BY <1>1, <1>3, <1>4 DEF Known
<1>6. /\ new \in RowType /\ new.status = "pending" /\ new.id = id /\ new.plan = p /\ new.per = 0
      /\ new.paid = seen.paid
    BY <1>1, <1>2, <1>3 DEF Claim, RowType, Statuses, AnyStatus
<1>7. /\ rz' \in [Ids -> RzType]
      /\ rz'[id].state = "created" /\ rz'[id].plan = p /\ rz'[id].paid = 0
      /\ \A j \in Ids : j # id => rz'[j] = rz[j]
    <2>1. rz \in [Ids -> RzType] /\ rz[id].paid = 0
        BY <1>3, <1>4 DEF Types, FreshIds
    <2> HIDE DEF p, id
    <2> QED
        BY <1>2, <1>3, <2>1 DEF RzType, RzStates
<1>8. call' = [call EXCEPT ![c] = IF Unpaid(seen)
                                 THEN [Idle EXCEPT !.at = "dropping", !.drop = seen.id]
                                 ELSE Idle]
    BY <1>3 DEF Return
<1> HIDE DEF new
<1>9. /\ row' \in RowType
      /\ row'.status = IF new.status = seen.status THEN row.status ELSE new.status
      /\ row'.id = IF new.id = seen.id THEN row.id ELSE new.id
      /\ row'.plan = IF new.plan = seen.plan THEN row.plan ELSE new.plan
      /\ row'.per = IF new.per = seen.per THEN row.per ELSE new.per
      /\ row'.paid = IF new.paid = seen.paid THEN row.paid ELSE new.paid
    BY <1>1, <1>3, <1>6, FlushedRow
<1> QED
    BY <1>2, <1>3, <1>4, <1>5, <1>6, <1>7, <1>8, <1>9

\* A step of a checkout keeps the types.
LEMMA CheckoutTypes ==
    ASSUME Types, NEW c \in Callers, Checkout(c)
    PROVE  Types'
<1> DEFINE id == NextId
           k == IF Unpaid(Seen(c)) THEN [Idle EXCEPT !.at = "dropping", !.drop = Seen(c).id]
                                   ELSE Idle
<1>1. /\ id \in Ids /\ rz[id].state = "none" /\ call[c].plan \in Plans /\ id # NoId
      /\ row' \in RowType /\ row'.id = id
      /\ row'.status = IF Seen(c).status = "pending" THEN row.status ELSE "pending"
      /\ rz' \in [Ids -> RzType]
      /\ rz'[id].state = "created" /\ rz'[id].plan = call[c].plan /\ rz'[id].paid = 0
      /\ \A j \in Ids : j # id => rz'[j] = rz[j]
      /\ call' = [call EXCEPT ![c] = k]
      /\ UNCHANGED <<pool, activating, worker, inbox, clock, fills>>
    BY CheckoutFacts
<1>2. /\ Seen(c) \in RowType /\ Known(Seen(c).id)
      /\ Seen(c).status = "pending" => row.status # "none"
    BY SeenTypes DEF Types
<1>3. KnownCall(k) /\ k.seen = NotRead
    <2>1. Seen(c).id \in Ids \union {NoId}
        BY <1>2 DEF RowType
    <2> QED
        BY <1>2, <2>1, IdleIsKnown DEF KnownCall, CallType, Idle
<1> HIDE DEF k
<1>4. \A j \in Ids : rz[j].state # "none" => rz'[j].state # "none"
    BY <1>1
<1>5. \A d \in Callers : KnownCall(call'[d]) /\ call' \in [Callers -> CallType]
    BY <1>1, <1>3 DEF Types, KnownCall
<1>6. \A d \in Callers : KnownCall(call[d])'
    BY <1>4, <1>5 DEF KnownCall, Known
<1>7. IdsInOrder'
    <2>1. Issued = 1 .. id - 1
        BY <1>1, FreshId DEF Types
    <2>2. \A j : j \in Issued' <=> (j \in Issued \/ j = id)
        BY <1>1 DEF Issued
    <2>0. id \in Ids
        BY <1>1
    <2> HIDE DEF id
    <2>3. id \in 1 .. MaxIds /\ MaxIds \in Nat /\ id \in 0 .. MaxIds
        BY <2>0, SubscriptionsAssumption DEF Ids
    <2>4. \A j : j \in 1 .. id <=> (j \in 1 .. id - 1 \/ j = id)
        BY <2>3
    <2>5. Issued' = 1 .. id
        <3>1. \A j : j \in Issued' <=> j \in 1 .. id
            BY <2>1, <2>2, <2>4
        <3> QED
            BY <3>1
    <2> QED
        BY <2>3, <2>5 DEF IdsInOrder
<1>8. row'.status # "none"
    BY <1>1, <1>2
<1>9. \A i \in Ids : rz'[i].state = "none" => inbox'[i] = <<>> /\ rz'[i].paid = 0 /\ fills'[i] = 0
    BY <1>1 DEF Types, FreshIds
<1>10. \A i \in Ids : rz'[i].state # "none" => rz'[i].plan \in Plans
    BY <1>1 DEF Types
<1>11. activating' \subseteq Ids /\ \A i \in activating' : rz'[i].state # "none"
    BY <1>1, <1>4 DEF Types, Known
<1> QED
    BY <1>1, <1>5, <1>6, <1>7, <1>8, <1>9, <1>10, <1>11 DEF Types, Known, FreshIds

\* Every step keeps the types.
LEMMA TypesStep ==
    ASSUME Types, [Next]_vars
    PROVE  Types'
<1>1. CASE UNCHANGED vars
    BY <1>1 DEF vars, Types, Known, KnownCall, FreshIds, IdsInOrder, Issued
<1>2. ASSUME NEW c \in Callers, CallStep(c)
      PROVE  Types'
    BY <1>2, CallTypes, CancelStepTypes, CheckoutTypes DEF CallStep
<1>3. ASSUME NEW i \in Ids, WebhookStep(i) \/ RazorpayStep(i)
      PROVE  Types'
    BY <1>3, WebhookTypes, RazorpayTypes
<1>4. CASE CronStep \/ Spend \/ Tick \/ RowGetsOld
    BY <1>4, CronTypes
<1> QED
    BY <1>1, <1>2, <1>3, <1>4 DEF Next

\* The first state has the types.
LEMMA TypesAtFirst == Init => Types
<1> SUFFICES ASSUME Init PROVE Types
    OBVIOUS
<1>1. row \in RowType /\ row.id = NoId /\ row.status = "none" /\ NoId \notin Ids
    BY SubscriptionsAssumption DEF Init, RowType, Absent, Statuses, NoId, Ids
<1>2. call \in [Callers -> CallType] /\ \A c \in Callers : call[c] = Idle
    BY IdleIsKnown DEF Init, KnownCall
<1>3. /\ rz \in [Ids -> RzType] /\ inbox \in [Ids -> Seq(Kinds)] /\ fills \in [Ids -> Nat]
      /\ \A i \in Ids : rz[i].state = "none" /\ rz[i].paid = 0 /\ inbox[i] = <<>> /\ fills[i] = 0
    BY DEF Init, RzType, RzStates
<1>4. IdsInOrder
    <2>1. Issued = 1 .. 0
        BY <1>3 DEF Issued
    <2> QED
        BY <2>1, SubscriptionsAssumption DEF IdsInOrder
<1>5. clock \in 0 .. MaxTime /\ pool \in Pool /\ activating = {} /\ worker = "idle"
    BY SubscriptionsAssumption DEF Init
<1> QED
    BY <1>1, <1>2, <1>3, <1>4, <1>5, IdleIsKnown DEF Types, Known, FreshIds, Init, Idle

\* So the types hold always, whatever the constants.
LEMMA TypesHold == Spec => []Types
BY TypesAtFirst, TypesStep, PTL DEF Spec

\* Credits only come from the refill of an active subscription, whatever the
\* owners, Razorpay and the cron jobs do, in whatever order and number.
THEOREM CreditsHaveASource == Spec => CreditsComeFromRefills
<1> DEFINE Source == Total(pool') > Total(pool) =>
                         row'.status = "active" /\ pool' = [pool EXCEPT !.sub = row'.per]
<1>1. ASSUME Types, [Next]_vars
      PROVE  Source
    <2>1. pool \in Pool
        BY <1>1 DEF Types
    <2>2. CASE UNCHANGED pool
        BY <2>1, <2>2 DEF Total, Pool
    <2>3. CASE RefillDue
        BY <2>3 DEF RefillDue, RefillPool, RowType
    <2>4. CASE Lapse \/ Spend
        BY <2>1, <2>4 DEF Lapse, Spend, RefillPool, Pool, Total, Minus, Taken, Lesser
    <2>5. ASSUME NEW c \in Callers, MoveLeftover(c)
          PROVE  Source
        BY <2>1, <2>5 DEF MoveLeftover, Pool, Total
    <2>6. ASSUME NEW i \in Ids, Charged(i), ~UNCHANGED pool
          PROVE  Source
        <3>1. /\ RefillPool(row.per) /\ row \in RowType
              /\ row' = [row EXCEPT !.status = "active",
                                     !.paid = IF IsNew(i) THEN rz[i].paid ELSE @,
                                     !.due = IF Refills(i) THEN clock + 1 ELSE @]
            BY <1>1, <2>6 DEF Charged, Types
        <3>2. row'.status = "active" /\ row'.per = row.per
            BY <3>1 DEF RowType
        <3> QED
            BY <3>1, <3>2 DEF RefillPool
    <2>7. ASSUME NEW i \in Ids, Promote(i), Known(i)
          PROVE  Source
        BY <1>1, <2>7, PromotedTypes
    <2>8. ASSUME NEW i \in Ids, Activated(i) \/ ActivatedByTeam(i), ~UNCHANGED pool
          PROVE  Source
        <3>1. Promote(i)
            BY <2>8 DEF Activated, ActivatedByTeam
        <3>2. Known(i)
            BY <1>1, <2>8, ReceivedTypes DEF Activated, ActivatedByTeam, Types, FreshIds, Known
        <3> QED
            BY <2>7, <3>1, <3>2
    <2>9. ASSUME ~UNCHANGED pool
          PROVE  \/ RefillDue \/ Lapse \/ Spend
                 \/ \E c \in Callers : MoveLeftover(c)
                 \/ \E i \in Ids : Charged(i) \/ Activated(i) \/ ActivatedByTeam(i)
        BY <1>1, <2>9 DEF Next, vars, CallStep, WebhookStep, CronStep, RazorpayStep, Ask, Switch,
           Checkout, CheckoutLeavesRow, DropReplaced, CancelUnpaid, CancelPaid, CancelLeavesRow,
           Die, Completed, Halted, CancelledAtRazorpay, RenewalPending, Moves, SelectLapsed,
           SelectStale, DeleteStale, Pay, Renew, RenewalFails, RetriesExhausted, LastPeriodEnds,
           BecomesAtRazorpay, OnlyRazorpay, Tick, RowGetsOld
    <2> HIDE DEF Source
    <2> QED
        BY <2>2, <2>3, <2>4, <2>5, <2>6, <2>8, <2>9
<1> QED
    BY <1>1, TypesHold, PTL DEF Spec, CreditsComeFromRefills

-----------------------------------------------------------------------------
(* What the steps do to Razorpay's subscriptions and to the inboxes.        *)

Reported(i, e) == \E k \in DOMAIN inbox[i] : inbox[i][k] = e

Dead(i) == rz[i].state \in {"cancelled", "completed"}

\* Webhooks are handled in order, and each of them once.
InOrder == Events \cap {"reorder", "redeliver"} = {}

\* One of the webhooks of subscription i is handled.
Takes(i, event) == \E k \in DOMAIN inbox[i] : Receives(i, k, event)

\* What is handled was reported, and nothing else is reported by that; in
\* order, it was the first.
LEMMA ReceivedFacts ==
    ASSUME Types, NEW i \in Ids, NEW event, Takes(i, event)
    PROVE  /\ Reported(i, event)
           /\ \A j \in Ids : j # i => inbox'[j] = inbox[j]
           /\ \A j \in Ids : \A e : Reported(j, e)' => Reported(j, e)
           /\ InOrder => /\ Len(inbox[i]) \in Nat /\ Len(inbox[i]) > 0 /\ inbox[i][1] = event
                         /\ DOMAIN inbox[i] = 1 .. Len(inbox[i])
                         /\ DOMAIN inbox'[i] = 1 .. Len(inbox[i]) - 1
                         /\ Len(inbox'[i]) = Len(inbox[i]) - 1
                         /\ \A m \in 1 .. Len(inbox[i]) - 1 : inbox'[i][m] = inbox[i][m + 1]
                         /\ inbox'[i] = <<>> <=> Len(inbox[i]) = 1
<1>1. PICK k \in DOMAIN inbox[i] : Receives(i, k, event)
    BY DEF Takes
<1> DEFINE s == inbox[i]
           r == RemoveAt(s, k)
<1>2. s \in Seq(Kinds) /\ k \in DOMAIN s /\ s[k] = event /\ inbox \in [Ids -> Seq(Kinds)]
    BY <1>1 DEF Types, Receives
<1>3. inbox' = inbox \/ inbox' = [inbox EXCEPT ![i] = r]
    BY <1>1 DEF Receives
<1>4. /\ k \in 1 .. Len(s) /\ Len(s) \in Nat
      /\ r \in Seq(Kinds)
      /\ Len(r) = Len(s) - 1
      /\ \A m \in 1 .. Len(s) - 1 : r[m] = IF m < k THEN s[m] ELSE s[m + 1]
    BY <1>2, RemoveAtProperties
<1>5. DOMAIN s = 1 .. Len(s) /\ DOMAIN r = 1 .. Len(s) - 1
    BY <1>2, <1>4, LenProperties
<1> HIDE DEF s, r
<1>6. \A m \in DOMAIN r : \E n \in DOMAIN s : r[m] = s[n]
    <2> SUFFICES ASSUME NEW m \in DOMAIN r
                 PROVE  \E n \in DOMAIN s : r[m] = s[n]
        OBVIOUS
    <2>1. m \in DOMAIN s /\ m + 1 \in DOMAIN s
        BY <1>4, <1>5
    <2>2. r[m] = s[m] \/ r[m] = s[m + 1]
        BY <1>4, <1>5
    <2> QED
        BY <2>1, <2>2
<1>7. \A j \in Ids : j # i => inbox'[j] = inbox[j]
    BY <1>2, <1>3
<1>8. inbox'[i] = inbox[i] \/ inbox'[i] = r
    BY <1>2, <1>3
<1>9. \A j \in Ids : \A e : Reported(j, e)' => Reported(j, e)
    BY <1>6, <1>7, <1>8 DEF Reported, s
<1>10. Reported(i, event)
    BY <1>2 DEF Reported, s
<1>11. ASSUME InOrder
       PROVE  k = 1 /\ inbox'[i] = r
    BY <1>1, <1>2, <1>11 DEF Receives, InOrder, r, s
<1>12. ASSUME InOrder
       PROVE  /\ Len(s) \in Nat /\ Len(s) > 0 /\ s[1] = event
              /\ DOMAIN s = 1 .. Len(s)
              /\ DOMAIN inbox'[i] = 1 .. Len(s) - 1
              /\ Len(inbox'[i]) = Len(s) - 1
              /\ \A m \in 1 .. Len(s) - 1 : inbox'[i][m] = s[m + 1]
              /\ inbox'[i] = <<>> <=> Len(s) = 1
    <2>1. k = 1 /\ inbox'[i] = r
        BY <1>11, <1>12
    <2>2. \A m \in 1 .. Len(s) - 1 : r[m] = s[m + 1]
        BY <1>4, <2>1
    <2>3. r = <<>> <=> Len(s) = 1
        BY <1>4, EmptySeq
    <2> QED
        BY <1>2, <1>4, <1>5, <2>1, <2>2, <2>3
<1> QED
    BY <1>7, <1>9, <1>10, <1>12 DEF s

\* Razorpay adds webhooks at the end of an inbox.
LEMMA AppendedFacts ==
    ASSUME Types, NEW i \in Ids, NEW t \in Seq(Kinds), NEW n \in 1 .. 2, Len(t) = n,
           Report(i, t)
    PROVE  /\ \A j \in Ids : j # i => inbox'[j] = inbox[j]
           /\ Len(inbox[i]) \in Nat /\ Len(inbox'[i]) = Len(inbox[i]) + n
           /\ DOMAIN inbox[i] = 1 .. Len(inbox[i])
           /\ DOMAIN inbox'[i] = 1 .. Len(inbox[i]) + n
           /\ \A m \in 1 .. Len(inbox[i]) : inbox'[i][m] = inbox[i][m]
           /\ \A m \in 1 .. n : inbox'[i][Len(inbox[i]) + m] = t[m]
           /\ inbox[i] = <<>> <=> Len(inbox[i]) = 0
           /\ inbox'[i] # <<>>
<1> DEFINE s == inbox[i]
           u == s \o t
<1>1. s \in Seq(Kinds) /\ inbox \in [Ids -> Seq(Kinds)]
    BY DEF Types
<1>2. /\ u \in Seq(Kinds) /\ Len(u) = Len(s) + n /\ Len(s) \in Nat
      /\ \A m \in 1 .. Len(s) + n : u[m] = IF m <= Len(s) THEN s[m] ELSE t[m - Len(s)]
    BY <1>1, ConcatProperties, LenProperties
<1>3. DOMAIN s = 1 .. Len(s) /\ DOMAIN u = 1 .. Len(u)
    BY <1>1, <1>2, LenProperties
<1>4. inbox'[i] = u /\ \A j \in Ids : j # i => inbox'[j] = inbox[j]
    BY <1>1 DEF Report
<1>5. s = <<>> <=> Len(s) = 0
    BY <1>1, EmptySeq
<1>6. u # <<>>
    BY <1>2, EmptySeq
<1> HIDE DEF s, u
<1>7. \A m \in 1 .. Len(s) : u[m] = s[m]
    BY <1>2
<1>8. ASSUME NEW m \in 1 .. n
      PROVE  u[Len(s) + m] = t[m]
    <2>1. /\ Len(s) + m \in 1 .. Len(s) + n /\ ~(Len(s) + m <= Len(s))
          /\ (Len(s) + m) - Len(s) = m
        BY <1>2
    <2> QED
        BY <1>2, <2>1
<1> QED
    BY <1>2, <1>3, <1>4, <1>5, <1>6, <1>7, <1>8 DEF s

\* One webhook is added.
LEMMA OneAppended ==
    ASSUME Types, NEW i \in Ids, NEW e \in Kinds, Report(i, <<e>>)
    PROVE  /\ \A j \in Ids : j # i => inbox'[j] = inbox[j]
           /\ Len(inbox[i]) \in Nat /\ Len(inbox'[i]) = Len(inbox[i]) + 1
           /\ DOMAIN inbox[i] = 1 .. Len(inbox[i])
           /\ DOMAIN inbox'[i] = 1 .. Len(inbox[i]) + 1
           /\ \A m \in 1 .. Len(inbox[i]) : inbox'[i][m] = inbox[i][m]
           /\ inbox'[i][Len(inbox[i]) + 1] = e
           /\ inbox[i] = <<>> <=> Len(inbox[i]) = 0
           /\ inbox'[i] # <<>>
           /\ \A j \in Ids : \A f : Reported(j, f)' => Reported(j, f) \/ (j = i /\ f = e)
<1> DEFINE t == <<e>>
<1>1. t \in Seq(Kinds) /\ Len(t) = 1 /\ t[1] = e /\ 1 \in 1 .. 2
    OBVIOUS
<1>0. Report(i, t)
    OBVIOUS
<1> HIDE DEF t
<1>2. /\ \A j \in Ids : j # i => inbox'[j] = inbox[j]
      /\ Len(inbox[i]) \in Nat /\ Len(inbox'[i]) = Len(inbox[i]) + 1
      /\ DOMAIN inbox[i] = 1 .. Len(inbox[i])
      /\ DOMAIN inbox'[i] = 1 .. Len(inbox[i]) + 1
      /\ \A m \in 1 .. Len(inbox[i]) : inbox'[i][m] = inbox[i][m]
      /\ \A m \in 1 .. 1 : inbox'[i][Len(inbox[i]) + m] = t[m]
      /\ inbox[i] = <<>> <=> Len(inbox[i]) = 0
      /\ inbox'[i] # <<>>
    BY <1>0, <1>1, AppendedFacts
<1>3. inbox'[i][Len(inbox[i]) + 1] = e
    BY <1>1, <1>2
<1>4. ASSUME NEW f, Reported(i, f)'
      PROVE  Reported(i, f) \/ f = e
    <2>1. PICK m \in 1 .. Len(inbox[i]) + 1 : inbox'[i][m] = f
        BY <1>2, <1>4 DEF Reported
    <2>2. m \in 1 .. Len(inbox[i]) \/ m = Len(inbox[i]) + 1
        BY <1>2
    <2> QED
        BY <1>2, <1>3, <2>1, <2>2 DEF Reported
<1>5. \A j \in Ids : \A f : j # i /\ Reported(j, f)' => Reported(j, f)
    BY <1>2 DEF Reported
<1> QED
    BY <1>2, <1>3, <1>4, <1>5

\* The first payment is reported twice.
LEMMA PaymentReported ==
    ASSUME Types, NEW i \in Ids, Report(i, <<"activated", "charged">>)
    PROVE  /\ \A j \in Ids : j # i => inbox'[j] = inbox[j]
           /\ Len(inbox[i]) \in Nat /\ Len(inbox'[i]) = Len(inbox[i]) + 2
           /\ DOMAIN inbox'[i] = 1 .. Len(inbox[i]) + 2
           /\ inbox'[i][Len(inbox[i]) + 1] = "activated"
           /\ inbox'[i][Len(inbox[i]) + 2] = "charged"
           /\ inbox[i] = <<>> <=> Len(inbox[i]) = 0
           /\ inbox'[i] # <<>>
           /\ \A j \in Ids : \A f : Reported(j, f)' =>
                 Reported(j, f) \/ (j = i /\ f \in {"activated", "charged"})
<1> DEFINE t == <<"activated", "charged">>
<1>1. t \in Seq(Kinds) /\ Len(t) = 2 /\ t[1] = "activated" /\ t[2] = "charged" /\ 2 \in 1 .. 2
    BY DEF Kinds
<1>0. Report(i, t)
    OBVIOUS
<1> HIDE DEF t
<1>2. /\ \A j \in Ids : j # i => inbox'[j] = inbox[j]
      /\ Len(inbox[i]) \in Nat /\ Len(inbox'[i]) = Len(inbox[i]) + 2
      /\ DOMAIN inbox[i] = 1 .. Len(inbox[i])
      /\ DOMAIN inbox'[i] = 1 .. Len(inbox[i]) + 2
      /\ \A m \in 1 .. Len(inbox[i]) : inbox'[i][m] = inbox[i][m]
      /\ \A m \in 1 .. 2 : inbox'[i][Len(inbox[i]) + m] = t[m]
      /\ inbox[i] = <<>> <=> Len(inbox[i]) = 0
      /\ inbox'[i] # <<>>
    BY <1>0, <1>1, AppendedFacts
<1>3. inbox'[i][Len(inbox[i]) + 1] = "activated" /\ inbox'[i][Len(inbox[i]) + 2] = "charged"
    BY <1>1, <1>2
<1>4. ASSUME NEW f, Reported(i, f)'
      PROVE  Reported(i, f) \/ f \in {"activated", "charged"}
    <2>1. PICK m \in 1 .. Len(inbox[i]) + 2 : inbox'[i][m] = f
        BY <1>2, <1>4 DEF Reported
    <2>2. m \in 1 .. Len(inbox[i]) \/ m = Len(inbox[i]) + 1 \/ m = Len(inbox[i]) + 2
        BY <1>2
    <2> QED
        BY <1>2, <1>3, <2>1, <2>2 DEF Reported
<1>5. \A j \in Ids : \A f : j # i /\ Reported(j, f)' => Reported(j, f)
    BY <1>2 DEF Reported
<1> QED
    BY <1>2, <1>3, <1>4, <1>5

-----------------------------------------------------------------------------
(* What each step does to the fields that the invariants below relate.     *)

\* The row but for its dates, and everything that is counted with it.
SameRow ==
    /\ row'.status = row.status /\ row'.id = row.id /\ row'.plan = row.plan
    /\ row'.per = row.per /\ row'.paid = row.paid

Calm == SameRow /\ UNCHANGED <<activating, rz, inbox, fills>>

CancelStep(c) == DropReplaced(c) \/ CancelUnpaid(c) \/ CancelPaid(c) \/ CancelLeavesRow(c)

\* The steps that matter to the row, its subscriptions and their webhooks.
LEMMA StepsThatMatter ==
    ASSUME Types, [Next]_vars
    PROVE  \/ Calm
           \/ DeleteStale
           \/ \E c \in Callers : Checkout(c) \/ CancelStep(c)
           \/ \E i \in Ids : WebhookStep(i) \/ RazorpayStep(i)
<1>1. CASE UNCHANGED vars
    BY <1>1 DEF vars, Calm, SameRow
<1>2. ASSUME NEW c \in Callers, CallStep(c)
      PROVE  Calm \/ Checkout(c) \/ CancelStep(c)
    <2>1. CASE Ask(c) \/ Switch(c) \/ CheckoutLeavesRow(c) \/ MoveLeftover(c) \/ Die(c)
        BY <2>1 DEF Ask, Switch, CheckoutLeavesRow, MoveLeftover, Die, Calm, SameRow
    <2> QED
        BY <1>2, <2>1 DEF CallStep, CancelStep
<1>3. CASE RefillDue \/ RowGetsOld
    <2>1. row \in RowType
        BY DEF Types
    <2>2. row' = [row EXCEPT !.due = clock + 1] \/ row' = [row EXCEPT !.old = TRUE]
        BY <1>3 DEF RefillDue, RowGetsOld
    <2>3. SameRow
        BY <2>1, <2>2 DEF RowType, SameRow
    <2> QED
        BY <1>3, <2>3 DEF RefillDue, RowGetsOld, Calm
<1>4. CASE SelectLapsed \/ Lapse \/ SelectStale \/ Spend \/ Tick
    BY <1>4 DEF SelectLapsed, Lapse, SelectStale, Spend, Tick, Calm, SameRow
<1> QED
    BY <1>1, <1>2, <1>3, <1>4 DEF Next, CronStep

\* Only the i-th subscription changes, and its plan does not.
OnlyChanges(i) ==
    /\ rz'[i].plan = rz[i].plan
    /\ \A j \in Ids : j # i => rz'[j] = rz[j]

Becomes(i, from, to, event) ==
    /\ rz[i].state = from /\ rz'[i].state = to /\ rz'[i].paid = rz[i].paid
    /\ Report(i, <<event>>)

\* What Razorpay does by itself: it charges, retries, halts and completes.
LEMMA RazorpayFacts ==
    ASSUME Types, NEW i \in Ids, RazorpayStep(i)
    PROVE  /\ UNCHANGED <<row, pool, call, activating, worker, fills, clock>>
           /\ OnlyChanges(i)
           /\ \/ /\ rz[i].state = "created" /\ rz'[i].state = "active"
                 /\ rz'[i].paid = rz[i].paid + 1
                 /\ Report(i, <<"activated", "charged">>)
                 /\ row.id = i \/ "payReplaced" \in Events
              \/ /\ rz[i].state \in {"active", "retrying"} /\ rz'[i].state = "active"
                 /\ rz'[i].paid = rz[i].paid + 1
                 /\ Report(i, <<"charged">>)
              \/ Becomes(i, "active", "retrying", "pending")
              \/ Becomes(i, "retrying", "halted", "halted")
              \/ Becomes(i, "active", "completed", "completed")
<1>0. rz \in [Ids -> RzType] /\ rz[i] \in RzType
    BY DEF Types
<1>1. UNCHANGED <<row, pool, call, activating, worker, fills, clock>>
    BY DEF RazorpayStep, Pay, Renew, RenewalFails, RetriesExhausted, LastPeriodEnds,
           BecomesAtRazorpay, OnlyRazorpay
<1>2. ASSUME NEW from, NEW to, NEW event, rz[i].state = from, BecomesAtRazorpay(i, to, event)
      PROVE  OnlyChanges(i) /\ Becomes(i, from, to, event)
    BY <1>0, <1>2 DEF BecomesAtRazorpay, OnlyChanges, Becomes, RzType
<1>3. ASSUME Charge(i)
      PROVE  OnlyChanges(i) /\ rz'[i].state = "active" /\ rz'[i].paid = rz[i].paid + 1
    BY <1>0, <1>3 DEF Charge, OnlyChanges
<1>4. CASE Pay(i)
    BY <1>1, <1>3, <1>4 DEF Pay
<1>5. CASE Renew(i)
    BY <1>1, <1>3, <1>5 DEF Renew
<1>6. CASE RenewalFails(i)
    BY <1>1, <1>2, <1>6 DEF RenewalFails
<1>7. CASE RetriesExhausted(i)
    BY <1>1, <1>2, <1>7 DEF RetriesExhausted
<1>8. CASE LastPeriodEnds(i)
    BY <1>1, <1>2, <1>8 DEF LastPeriodEnds
<1> QED
    BY <1>4, <1>5, <1>6, <1>7, <1>8 DEF RazorpayStep

\* A cancel at Razorpay that goes through.
CancelsAt(i) ==
    /\ i \in Ids /\ Cancellable(i) /\ OnlyChanges(i)
    /\ rz'[i].state = "cancelled" /\ rz'[i].paid = rz[i].paid
    /\ Report(i, <<"cancelled">>)

\* What a cancel at Razorpay does.
LEMMA CancelFacts ==
    ASSUME Types, NEW i, Cancellable(i), CancelAtRazorpay(i)
    PROVE  CancelsAt(i)
<1>1. i \in Ids /\ rz \in [Ids -> RzType] /\ inbox[i] \in Seq(Kinds) /\ "cancelled" \in Kinds
    BY DEF Cancellable, Types, Kinds
<1>2. Append(inbox[i], "cancelled") = inbox[i] \o <<"cancelled">>
    BY <1>1, AppendIsConcat
<1>3. Report(i, <<"cancelled">>)
    BY <1>2 DEF CancelAtRazorpay, Report
<1> QED
    BY <1>1, <1>3 DEF CancelAtRazorpay, CancelsAt, OnlyChanges, RzType

\* The calls that may cancel.
LEMMA CancelStepFacts ==
    ASSUME Types, NEW c \in Callers, CancelStep(c)
    PROVE  /\ UNCHANGED <<pool, activating, worker, clock, fills>>
           /\ UNCHANGED <<rz, inbox>> \/ \E i \in Ids : CancelsAt(i)
           /\ row'.id = row.id /\ row'.plan = row.plan /\ row'.per = row.per
           /\ row'.paid = row.paid /\ row'.status \in {row.status, "cancelled"}
           /\ \E k : call' = [call EXCEPT ![c] = k] /\ k.seen = NotRead
                     /\ k.at \in {"idle", "moving"}
<1>1. UNCHANGED <<pool, activating, worker, clock, fills>>
    BY DEF CancelStep, DropReplaced, CancelUnpaid, CancelPaid, CancelLeavesRow
<1>2. UNCHANGED <<rz, inbox>> \/ \E i \in Ids : CancelsAt(i)
    <2>1. ASSUME NEW i, Cancellable(i), CancelAtRazorpay(i)
          PROVE  \E j \in Ids : CancelsAt(j)
        BY <2>1, CancelFacts DEF Cancellable
    <2> QED
        BY <2>1 DEF CancelStep, DropReplaced, CancelUnpaid, CancelPaid, CancelLeavesRow,
                    TryCancelAtRazorpay
<1>3. /\ row'.id = row.id /\ row'.plan = row.plan /\ row'.per = row.per
      /\ row'.paid = row.paid /\ row'.status \in {row.status, "cancelled"}
    <2>1. CASE row.status \in {"active", "pending"} /\ Cancelled(Seen(c))
        BY <2>1, CancelledRow
    <2>2. CASE row' = row
        BY <2>2
    <2> QED
        BY <2>1, <2>2 DEF CancelStep, DropReplaced, CancelUnpaid, CancelPaid, CancelLeavesRow
<1>4. AfterCancel(c) \/ Return(c)
    BY DEF CancelStep, DropReplaced, CancelUnpaid, CancelPaid, CancelLeavesRow
<1>5. \E k : /\ k.seen = NotRead /\ k.at \in {"idle", "moving"}
             /\ call' = [call EXCEPT ![c] = k]
    BY <1>4, AfterCancelTypes
<1> QED
    BY <1>1, <1>2, <1>3, <1>5

\* What the handlers of the webhooks do to the row.
Promoted(i) ==
    /\ row'.status = "active" /\ row'.id = i /\ row'.plan = rz[i].plan
    /\ row'.per > 0 /\ row'.paid = 0
    /\ fills' = [fills EXCEPT ![i] = @ + 1]

Renewed(i) ==
    /\ row.id = i /\ row.status # "cancelled" /\ ~Unpaid(row)
    /\ row'.status = "active" /\ row'.id = i /\ row'.plan = row.plan /\ row'.per = row.per
    /\ row'.paid = IF IsNew(i) THEN rz[i].paid ELSE row.paid
    /\ fills' = IF Refills(i) THEN [fills EXCEPT ![i] = @ + 1] ELSE fills

Moved(i, event, from, to) ==
    /\ Takes(i, event)
    /\ row'.id = row.id /\ row'.plan = row.plan /\ row'.per = row.per /\ row'.paid = row.paid
    /\ row'.status = IF row.id = i /\ row.status \in from THEN to ELSE row.status
    /\ UNCHANGED <<activating, fills>>

\* What handling a webhook does.
LEMMA WebhookFacts ==
    ASSUME Types, NEW i \in Ids, WebhookStep(i)
    PROVE  /\ UNCHANGED <<call, worker, rz, clock>>
           /\ \/ /\ Takes(i, "activated") /\ row.id # i
                 /\ activating' = activating \union {i} /\ UNCHANGED <<row, fills>>
              \/ /\ Takes(i, "activated") /\ row.id = i /\ row.status \in {"active", "cancelled"}
                 /\ UNCHANGED <<row, fills, activating>>
              \/ /\ Takes(i, "activated") /\ row.id = i /\ row.status \notin {"active", "cancelled"}
                 /\ Promoted(i) /\ UNCHANGED activating
              \/ /\ i \in activating /\ activating' = activating \ {i} /\ UNCHANGED inbox
                 /\ Promoted(i) \/ UNCHANGED <<row, fills>>
              \/ /\ Takes(i, "charged") /\ UNCHANGED activating
                 /\ row.id # i \/ row.status = "cancelled" \/ Unpaid(row)
                 /\ UNCHANGED <<row, fills>>
              \/ Takes(i, "charged") /\ UNCHANGED activating /\ Renewed(i)
              \/ Moved(i, "completed", {"active"}, "cancelled")
              \/ Moved(i, "halted", AnyStatus, "halted")
              \/ Moved(i, "cancelled", AnyStatus, "cancelled")
              \/ Moved(i, "pending", {"active"}, "pending")
<1>0. /\ row \in RowType /\ fills \in [Ids -> Nat]
      /\ UNCHANGED <<call, worker, rz, clock>>
    BY DEF WebhookStep, Activated, ActivatedByTeam, Charged, Completed, Halted,
           CancelledAtRazorpay, RenewalPending, Moves, Types
<1>1. ASSUME Promote(i), Known(i)
      PROVE  Promoted(i)
    BY <1>1, PromotedTypes DEF Promoted
<1>2. Takes(i, "activated") => Known(i)
    BY ReceivedTypes DEF Takes, Types, FreshIds, Known
<1>3. CASE Activated(i)
    BY <1>0, <1>1, <1>2, <1>3 DEF Activated, Takes, OnRow
<1>4. CASE ActivatedByTeam(i)
    BY <1>0, <1>1, <1>4 DEF ActivatedByTeam, Types
<1>5. CASE Charged(i)
    <2>1. Takes(i, "charged") /\ UNCHANGED activating
        BY <1>5 DEF Charged, Takes
    <2>2. CASE ~OnRow(i) \/ row.status = "cancelled" \/ Unpaid(row)
        BY <1>0, <1>5, <2>1, <2>2 DEF Charged, OnRow
    <2>3. CASE ~(~OnRow(i) \/ row.status = "cancelled" \/ Unpaid(row))
        <3>1. /\ row' = [row EXCEPT !.status = "active",
                                  !.paid = IF IsNew(i) THEN rz[i].paid ELSE @,
                                  !.due = IF Refills(i) THEN clock + 1 ELSE @]
              /\ fills' = IF Refills(i) THEN [fills EXCEPT ![i] = @ + 1] ELSE fills
            BY <1>5, <2>3 DEF Charged
        <3>2. Renewed(i)
            BY <1>0, <2>3, <3>1 DEF Renewed, RowType, OnRow
        <3> QED
            BY <1>0, <2>1, <3>2
    <2> QED
        BY <2>2, <2>3
<1>6. ASSUME NEW event, NEW from, NEW to, Moves(i, event, from, to)
      PROVE  Moved(i, event, from, to)
    BY <1>0, <1>6 DEF Moves, Moved, Takes, OnRow, RowType
<1>7. CASE Completed(i) \/ Halted(i) \/ CancelledAtRazorpay(i) \/ RenewalPending(i)
    BY <1>0, <1>6, <1>7 DEF Completed, Halted, CancelledAtRazorpay, RenewalPending
<1> QED
    BY <1>3, <1>4, <1>5, <1>7 DEF WebhookStep

-----------------------------------------------------------------------------
(* The sessions of a switch.                                               *)

\* What a call has loaded of the row and acts on later.
FreshSession(k) ==
    /\ "hurry" \notin Events
    /\ k.seen.id = row.id /\ k.seen.plan = row.plan
    /\ \/ /\ k.at = "checkingOut" /\ Unpaid(k.seen)
          /\ Unpaid(row) \/ rz[row.id].paid > 0
       \/ /\ k.at = "cancelling" /\ ~Unpaid(k.seen) /\ ~Unpaid(row)
          /\ k.seen.status = "cancelled" => Dead(row.id)

SessionsAreFresh == \A c \in Callers : call[c].seen # NotRead => FreshSession(call[c])

\* Then a checkout claims the row it finds,
LEMMA FreshCheckout ==
    ASSUME Types, SessionsAreFresh, NEW c \in Callers, Checkout(c)
    PROVE  /\ NextId \in Ids /\ rz[NextId].state = "none" /\ NextId # row.id
           /\ row'.status = "pending" /\ row'.id = NextId /\ row'.plan = call[c].plan
           /\ row'.per = 0 /\ row'.paid = row.paid
           /\ row.status \in {"active", "pending"} => Unpaid(row)
           /\ Unpaid(row) /\ rz[row.id].paid > 0 => "hurry" \in Events
           /\ rz'[NextId].state = "created" /\ rz'[NextId].plan = call[c].plan
           /\ rz'[NextId].paid = 0
           /\ \A j \in Ids : j # NextId => rz'[j] = rz[j]
           /\ \E k : /\ call' = [call EXCEPT ![c] = k] /\ k.seen = NotRead
                     /\ k.at \in {"idle", "dropping"}
                     /\ k.at = "dropping" => k.drop = row.id
           /\ UNCHANGED <<pool, activating, worker, inbox, clock, fills>>
<1> DEFINE seen == Seen(c)
           p == call[c].plan
           k == IF Unpaid(seen) THEN [Idle EXCEPT !.at = "dropping", !.drop = seen.id] ELSE Idle
<1>1. /\ NextId \in Ids /\ rz[NextId].state = "none" /\ NextId # row.id
      /\ row'.id = NextId
      /\ row'.status = IF seen.status = "pending" THEN row.status ELSE "pending"
      /\ row'.plan = IF seen.plan = p THEN row.plan ELSE p
      /\ row'.per = IF seen.per = 0 THEN row.per ELSE 0
      /\ row'.paid = row.paid
      /\ rz'[NextId].state = "created" /\ rz'[NextId].plan = p /\ rz'[NextId].paid = 0
      /\ \A j \in Ids : j # NextId => rz'[j] = rz[j]
      /\ call' = [call EXCEPT ![c] = k]
      /\ UNCHANGED <<pool, activating, worker, inbox, clock, fills>>
    BY CheckoutFacts
<1>k. /\ k.seen = NotRead /\ k.at \in {"idle", "dropping"}
      /\ k.at = "dropping" => k.drop = seen.id
    BY DEF Idle
<1>2. /\ call[c].at = "checkingOut"
      /\ seen.status \in {"active", "pending"} => Unpaid(seen)
      /\ Unpaid(seen) /\ rz[seen.id].paid > 0 => "hurry" \in Events
    BY DEF Checkout
<1>3. CASE call[c].seen = NotRead
    <2>1. seen = row
        BY <1>3, SeenTypes
    <2> HIDE DEF seen, k
    <2> QED
        BY <1>1, <1>2, <1>k, <2>1 DEF Unpaid
<1>4. CASE call[c].seen # NotRead
    <2>1. seen = call[c].seen /\ FreshSession(call[c])
        BY <1>4, SeenTypes DEF SessionsAreFresh
    <2>2. seen.id = row.id /\ seen.plan = row.plan /\ Unpaid(seen) /\ Unpaid(row)
        BY <1>2, <2>1 DEF FreshSession
    <2> HIDE DEF seen, k
    <2> QED
        BY <1>1, <1>2, <1>k, <2>2 DEF Unpaid
<1> QED
    BY <1>3, <1>4

\* and a cancel cancels it as it is.
LEMMA FreshCancelUnpaid ==
    ASSUME Types, SessionsAreFresh, NEW c \in Callers, CancelUnpaid(c)
    PROVE  /\ Unpaid(row) /\ row'.status = "cancelled"
           /\ rz[row.id].paid > 0 => "hurry" \in Events
           /\ TryCancelAtRazorpay(row.id)
<1>1. call[c].seen = NotRead
    BY SeenTypes DEF SessionsAreFresh, FreshSession, CancelUnpaid
<1>2. Seen(c) = row
    BY <1>1, SeenTypes
<1> QED
    BY <1>2, CancelledRow DEF CancelUnpaid, Unpaid

\* A cancel from a fresh session keeps what PaidFor says of the row.
LEMMA FreshCancelPaid ==
    ASSUME Types, SessionsAreFresh, NEW c \in Callers, CancelPaid(c)
    PROVE  /\ row.status \in {"active", "pending"} /\ ~Unpaid(row) /\ row'.status = "cancelled"
           /\ CancelsAt(row.id)
<1>1. Cancellable(Seen(c).id) /\ CancelsAt(Seen(c).id)
    BY CancelFacts DEF CancelPaid
<1>2. /\ row.status \in {"active", "pending"} /\ ~Unpaid(Seen(c)) /\ call[c].at = "cancelling"
      /\ row'.status = IF Seen(c).status = "cancelled" THEN row.status ELSE "cancelled"
    BY CancelledRow DEF CancelPaid
<1>3. CASE call[c].seen = NotRead
    <2>1. Seen(c) = row
        BY <1>3, SeenTypes
    <2> QED
        BY <1>1, <1>2, <2>1
<1>4. CASE call[c].seen # NotRead
    <2>1. Seen(c) = call[c].seen /\ FreshSession(call[c])
        BY <1>4, SeenTypes DEF SessionsAreFresh
    <2>2. Seen(c).id = row.id /\ ~Unpaid(row) /\ (Seen(c).status = "cancelled" => Dead(row.id))
        BY <1>2, <2>1 DEF FreshSession
    <2>3. Seen(c).status # "cancelled"
        BY <1>1, <2>2 DEF Cancellable, Dead
    <2> QED
        BY <1>1, <1>2, <2>2, <2>3
<1> QED
    BY <1>3, <1>4

\* Without switches no session loads the row early.
LEMMA NoSessions ==
    ASSUME Types, SessionsAreFresh, "switch" \notin Events, [Next]_vars,
           \A c \in Callers : call[c].seen = NotRead
    PROVE  \A c \in Callers : call'[c].seen = NotRead
<1>1. /\ Idle.seen = NotRead /\ call \in [Callers -> CallType]
      /\ \A c \in Callers : call[c] \in CallType
    BY DEF Idle, Types
<1>2. ASSUME NEW c \in Callers, CallStep(c)
      PROVE  \A d \in Callers : call'[d].seen = NotRead
    <2>1. CASE Checkout(c)
        BY <1>1, <2>1, FreshCheckout
    <2>2. CASE CancelStep(c)
        <3>1. PICK k : call' = [call EXCEPT ![c] = k] /\ k.seen = NotRead
            BY <2>2, CancelStepFacts
        <3> QED
            BY <1>1, <3>1
    <2>3. CASE CallAt(c, "cancelling") \/ CallAt(c, "checkingOut") \/ Return(c)
        <3>1. call[c] \in CallType
            BY <1>1
        <3>2. \A where : [call[c] EXCEPT !.at = where, !.seen = NotRead].seen = NotRead
            BY <3>1 DEF CallType
        <3>3. ASSUME NEW where, CallAt(c, where)
              PROVE  \A d \in Callers : call'[d].seen = NotRead
            <4> DEFINE k == [call[c] EXCEPT !.at = where, !.seen = NotRead]
            <4>1. call' = [call EXCEPT ![c] = k] /\ k.seen = NotRead
                BY <3>2, <3>3 DEF CallAt
            <4> HIDE DEF k
            <4> QED
                BY <1>1, <4>1
        <3> QED
            BY <1>1, <2>3, <3>3 DEF Return
    <2>4. CASE \E p \in Plans :
                 call' = [call EXCEPT ![c] = [Idle EXCEPT !.at = "checkingOut", !.plan = p]]
        BY <1>1, <2>4 DEF Idle
    <2> QED
        BY <1>2, <2>1, <2>2, <2>3, <2>4 DEF CallStep, CancelStep, Ask, Switch, CheckoutLeavesRow,
           MoveLeftover, Die
<1>3. CASE UNCHANGED call
    BY <1>3
<1>4. CASE DeleteStale
    BY <1>1, <1>4 DEF DeleteStale, CallType
<1>5. UNCHANGED call \/ DeleteStale \/ \E c \in Callers : CallStep(c)
    BY WebhookFacts, RazorpayFacts DEF Next, vars, CronStep, RefillDue, SelectLapsed, Lapse,
       SelectStale, Spend, Tick, RowGetsOld
<1> QED
    BY <1>2, <1>3, <1>4, <1>5

-----------------------------------------------------------------------------
(* What has been paid, and what is cancelled.                              *)

\* Activations and charges are reported of subscriptions that have been
\* paid, and the row is active for one of them.
PaidFor ==
    /\ \A i \in Ids : Reported(i, "activated") \/ Reported(i, "charged") => rz[i].paid > 0
    /\ \A i \in activating : rz[i].paid > 0
    /\ row.status = "active" => row.id \in Ids /\ rz[row.id].paid > 0

\* A report adds that webhook to that inbox, and no other.
LEMMA ReportedAfter ==
    ASSUME Types, NEW i \in Ids, NEW e \in Kinds, Report(i, <<e>>)
    PROVE  \A j \in Ids : \A f : Reported(j, f)' => Reported(j, f) \/ (j = i /\ f = e)
BY OneAppended

\* What has been paid stays paid, once it is reported.
LEMMA PaidForStep ==
    ASSUME Types, SessionsAreFresh, PaidFor, [Next]_vars
    PROVE  PaidFor'
<1>0. /\ row \in RowType /\ NoId \notin Ids /\ "cancelled" \in Kinds /\ "charged" \in Kinds
      /\ "pending" \in Kinds /\ "halted" \in Kinds /\ "completed" \in Kinds
      /\ activating \subseteq Ids /\ \A i \in Ids : rz[i].paid \in Nat
    BY SubscriptionsAssumption DEF Types, NoId, Ids, Kinds, RzType
<1>1. CASE Calm
    BY <1>1 DEF Calm, SameRow, PaidFor, Reported
<1>2. CASE DeleteStale
    BY <1>2 DEF DeleteStale, PaidFor, Reported, Absent
<1>3. ASSUME NEW c \in Callers, Checkout(c)
      PROVE  PaidFor'
    <2>1. PICK n \in Ids :
          /\ rz[n].state = "none" /\ row'.status = "pending"
          /\ \A j \in Ids : j # n => rz'[j] = rz[j]
          /\ UNCHANGED <<activating, inbox>>
        BY <1>3, FreshCheckout
    <2>2. inbox[n] = <<>> /\ n \notin activating
        BY <2>1 DEF Types, FreshIds, Known
    <2>3. \A e : ~Reported(n, e)'
        BY <2>1, <2>2 DEF Reported
    <2>4. \A j \in Ids : \A e : Reported(j, e)' => Reported(j, e)
        BY <2>1 DEF Reported
    <2> QED
        BY <1>0, <2>1, <2>2, <2>3, <2>4 DEF PaidFor
<1>4. ASSUME NEW c \in Callers, CancelStep(c)
      PROVE  PaidFor'
    <2>1. /\ UNCHANGED activating
          /\ UNCHANGED <<rz, inbox>> \/ \E i \in Ids : CancelsAt(i)
          /\ row'.id = row.id /\ row'.status \in {row.status, "cancelled"}
        BY <1>4, CancelStepFacts
    <2>2. CASE UNCHANGED <<rz, inbox>>
        BY <2>1, <2>2 DEF PaidFor, Reported
    <2>3. ASSUME NEW i \in Ids, CancelsAt(i)
          PROVE  PaidFor'
        <3>1. \A j \in Ids : \A f : Reported(j, f)' => Reported(j, f) \/ f = "cancelled"
            BY <1>0, <2>3, ReportedAfter DEF CancelsAt
        <3>2. \A j \in Ids : rz'[j].paid = rz[j].paid
            BY <2>3 DEF CancelsAt, OnlyChanges
        <3> QED
            BY <1>0, <2>1, <3>1, <3>2 DEF PaidFor
    <2> QED
        BY <2>1, <2>2, <2>3
<1>5. ASSUME NEW i \in Ids, RazorpayStep(i)
      PROVE  PaidFor'
    <2>1. UNCHANGED <<row, activating>> /\ OnlyChanges(i) /\ rz[i].paid \in Nat
        BY <1>0, <1>5, RazorpayFacts
    <2>2. /\ rz'[i].paid = rz[i].paid \/ rz'[i].paid = rz[i].paid + 1
          /\ \A j \in Ids : \A f : Reported(j, f)' =>
                \/ Reported(j, f)
                \/ j = i /\ rz'[i].paid = rz[i].paid + 1
                \/ f \notin {"activated", "charged"}
        <3>1. CASE Report(i, <<"activated", "charged">>) /\ rz'[i].paid = rz[i].paid + 1
            BY <3>1, PaymentReported
        <3>2. CASE Report(i, <<"charged">>) /\ rz'[i].paid = rz[i].paid + 1
            BY <1>0, <3>2, ReportedAfter
        <3>3. ASSUME NEW from, NEW to, NEW e \in {"pending", "halted", "completed"},
                     Becomes(i, from, to, e)
              PROVE  /\ rz'[i].paid = rz[i].paid
                     /\ \A j \in Ids : \A f : Reported(j, f)' => Reported(j, f) \/ f = e
            BY <1>0, <3>3, ReportedAfter DEF Becomes
        <3> QED
            BY <1>5, <3>1, <3>2, <3>3, RazorpayFacts
    <2> QED
        BY <1>0, <2>1, <2>2 DEF PaidFor, OnlyChanges
<1>6. ASSUME NEW i \in Ids, WebhookStep(i)
      PROVE  PaidFor'
    <2>1. UNCHANGED rz /\ \A j \in Ids : \A f : Reported(j, f)' => Reported(j, f)
        BY <1>6, WebhookFacts, ReceivedFacts DEF Moved, Reported
    <2>2. \A e : Takes(i, e) => Reported(i, e)
        BY ReceivedFacts
    <2>3. /\ activating' \subseteq activating \/ (activating' = activating \union {i} /\ rz[i].paid > 0)
          /\ row'.status = "active" => \/ row'.id = i /\ rz[i].paid > 0
                                       \/ row.status = "active" /\ row'.id = row.id
        BY <1>6, <2>2, WebhookFacts DEF PaidFor, Moved, Promoted, Renewed
    <2> QED
        BY <1>0, <2>1, <2>3 DEF PaidFor
<1> QED
    BY <1>1, <1>2, <1>3, <1>4, <1>5, <1>6, StepsThatMatter

\* The row has the plan that Razorpay charges for.
PlanIsKept == row.id \in Ids => rz[row.id].plan = row.plan

\* Every step keeps the row on the plan Razorpay charges for.
LEMMA PlanIsKeptStep ==
    ASSUME Types, SessionsAreFresh, PlanIsKept, [Next]_vars
    PROVE  PlanIsKept'
<1>0. NoId \notin Ids
    BY SubscriptionsAssumption DEF NoId, Ids
<1>1. CASE Calm
    BY <1>1 DEF Calm, SameRow, PlanIsKept
<1>2. CASE DeleteStale
    BY <1>0, <1>2 DEF DeleteStale, PlanIsKept, Absent
<1>3. ASSUME NEW c \in Callers, Checkout(c)
      PROVE  PlanIsKept'
    BY <1>3, FreshCheckout DEF PlanIsKept
<1>4. ASSUME NEW c \in Callers, CancelStep(c)
      PROVE  PlanIsKept'
    BY <1>4, CancelStepFacts DEF PlanIsKept, CancelsAt, OnlyChanges
<1>5. ASSUME NEW i \in Ids, RazorpayStep(i)
      PROVE  PlanIsKept'
    BY <1>5, RazorpayFacts DEF PlanIsKept, OnlyChanges
<1>6. ASSUME NEW i \in Ids, WebhookStep(i)
      PROVE  PlanIsKept'
    BY <1>6, WebhookFacts DEF PlanIsKept, Moved, Promoted, Renewed
<1> QED
    BY <1>1, <1>2, <1>3, <1>4, <1>5, <1>6, StepsThatMatter

\* What is reported as cancelled or completed is, and the row that shows
\* "cancelled" is one of these.
EndsAreReal ==
    /\ \A i \in Ids : Reported(i, "cancelled") => rz[i].state = "cancelled"
    /\ \A i \in Ids : Reported(i, "completed") => rz[i].state = "completed"
    /\ row.status = "cancelled" => row.id \in Ids /\ Dead(row.id)

\* While calls to Razorpay succeed, every step keeps the ends real.
LEMMA EndsAreRealStep ==
    ASSUME Types, SessionsAreFresh, EndsAreReal, ~CanFail, [Next]_vars
    PROVE  EndsAreReal'
<1>0. /\ row \in RowType /\ NoId \notin Ids /\ "cancelled" \in Kinds /\ "charged" \in Kinds
      /\ "pending" \in Kinds /\ "halted" \in Kinds /\ "completed" \in Kinds
      /\ row.status # "none" => row.id \in Ids /\ rz[row.id].state # "none"
      /\ rz \in [Ids -> RzType]
    BY SubscriptionsAssumption DEF Types, NoId, Ids, Kinds, RowType, Known
<1>1. CASE Calm
    BY <1>1 DEF Calm, SameRow, EndsAreReal, Reported, Dead
<1>2. CASE DeleteStale
    BY <1>2 DEF DeleteStale, EndsAreReal, Reported, Absent
<1>3. ASSUME NEW c \in Callers, Checkout(c)
      PROVE  EndsAreReal'
    <2>1. PICK n \in Ids :
          /\ rz[n].state = "none" /\ row'.status = "pending"
          /\ \A j \in Ids : j # n => rz'[j] = rz[j]
          /\ UNCHANGED inbox
        BY <1>3, FreshCheckout
    <2>2. inbox[n] = <<>>
        BY <2>1 DEF Types, FreshIds
    <2>3. \A e : ~Reported(n, e)'
        BY <2>1, <2>2 DEF Reported
    <2>4. \A j \in Ids : \A e : Reported(j, e)' => Reported(j, e)
        BY <2>1 DEF Reported
    <2> QED
        BY <2>1, <2>3, <2>4 DEF EndsAreReal
<1>4. ASSUME NEW c \in Callers, CancelStep(c)
      PROVE  EndsAreReal'
    <2>1. /\ UNCHANGED <<rz, inbox>> \/ \E i \in Ids : CancelsAt(i)
          /\ row'.id = row.id /\ row'.status \in {row.status, "cancelled"}
        BY <1>4, CancelStepFacts
    <2>2. /\ \A i \in Ids : Reported(i, "cancelled")' => rz'[i].state = "cancelled"
          /\ \A i \in Ids : Reported(i, "completed")' => rz'[i].state = "completed"
          /\ \A i \in Ids : Dead(i) => Dead(i)'
        <3>1. CASE UNCHANGED <<rz, inbox>>
            BY <3>1 DEF EndsAreReal, Reported, Dead
        <3>2. ASSUME NEW i \in Ids, CancelsAt(i)
              PROVE  /\ \A j \in Ids : Reported(j, "cancelled")' => rz'[j].state = "cancelled"
                     /\ \A j \in Ids : Reported(j, "completed")' => rz'[j].state = "completed"
                     /\ \A j \in Ids : Dead(j) => Dead(j)'
            <4>1. \A j \in Ids : \A f : Reported(j, f)' => Reported(j, f) \/ (j = i /\ f = "cancelled")
                BY <1>0, <3>2, ReportedAfter DEF CancelsAt
            <4>2. /\ \A j \in Ids : j # i => rz'[j] = rz[j]
                  /\ rz'[i].state = "cancelled" /\ ~Dead(i)
                BY <3>2 DEF CancelsAt, OnlyChanges, Cancellable, Dead
            <4> QED
                BY <4>1, <4>2 DEF EndsAreReal, Dead
        <3> QED
            BY <2>1, <3>1, <3>2
    <2>3. ASSUME row'.status = "cancelled"
          PROVE  row'.id \in Ids /\ Dead(row.id)'
        <3>1. ASSUME NEW i \in Ids, i = row.id, TryCancelAtRazorpay(i), row.status # "none"
              PROVE  Dead(i)'
            <4>1. CASE Cancellable(i) /\ CancelAtRazorpay(i)
                BY <4>1, CancelFacts DEF CancelsAt, Dead
            <4>2. CASE ~Cancellable(i) /\ UNCHANGED <<rz, inbox>>
                <5>1. rz[i] \in RzType /\ rz[i].state # "none"
                    BY <1>0, <3>1
                <5> QED
                    BY <4>2, <5>1 DEF Cancellable, Dead, RzType, RzStates
            <4> QED
                BY <3>1, <4>1, <4>2 DEF TryCancelAtRazorpay
        <3>2. CASE row.status = "cancelled"
            BY <2>1, <2>2, <3>2 DEF EndsAreReal
        <3>3. CASE CancelUnpaid(c)
            BY <1>0, <2>1, <3>1, <3>3, FreshCancelUnpaid DEF Unpaid
        <3>4. CASE CancelPaid(c)
            BY <1>0, <2>1, <3>4, FreshCancelPaid DEF CancelsAt, Dead
        <3>5. CASE DropReplaced(c) \/ CancelLeavesRow(c)
            BY <2>3, <3>2, <3>5 DEF DropReplaced, CancelLeavesRow
        <3> QED
            BY <1>4, <3>3, <3>4, <3>5 DEF CancelStep
    <2> QED
        BY <2>1, <2>2, <2>3 DEF EndsAreReal, Dead
<1>5. ASSUME NEW i \in Ids, RazorpayStep(i)
      PROVE  EndsAreReal'
    <2>1. UNCHANGED row /\ OnlyChanges(i) /\ ~Dead(i)
        BY <1>5, RazorpayFacts DEF Becomes, Dead
    <2>2. \A j \in Ids : \A f : Reported(j, f)' =>
             \/ Reported(j, f)
             \/ f \notin {"cancelled", "completed"}
             \/ j = i /\ f = "completed" /\ rz'[i].state = "completed"
        <3>1. CASE Report(i, <<"activated", "charged">>)
            BY <3>1, PaymentReported
        <3>2. CASE Report(i, <<"charged">>)
            BY <1>0, <3>2, ReportedAfter
        <3>3. ASSUME NEW from, NEW to, NEW e \in {"pending", "halted", "completed"},
                     Becomes(i, from, to, e), e = "completed" => to = "completed"
              PROVE  \A j \in Ids : \A f : Reported(j, f)' =>
                         \/ Reported(j, f)
                         \/ f \notin {"cancelled", "completed"}
                         \/ j = i /\ f = "completed" /\ rz'[i].state = "completed"
            BY <1>0, <3>3, ReportedAfter DEF Becomes
        <3> QED
            BY <1>5, <3>1, <3>2, <3>3, RazorpayFacts
    <2> QED
        BY <2>1, <2>2 DEF EndsAreReal, Dead, OnlyChanges
<1>6. ASSUME NEW i \in Ids, WebhookStep(i)
      PROVE  EndsAreReal'
    <2>1. UNCHANGED rz /\ \A j \in Ids : \A f : Reported(j, f)' => Reported(j, f)
        BY <1>6, WebhookFacts, ReceivedFacts DEF Moved, Reported
    <2>2. \A e : Takes(i, e) => Reported(i, e)
        BY ReceivedFacts
    <2>3. row'.status = "cancelled" => \/ row'.id = row.id /\ row.status = "cancelled"
                                       \/ row'.id = i /\ Dead(i)
        BY <1>6, <2>2, WebhookFacts DEF EndsAreReal, Moved, Promoted, Renewed, Dead
    <2> QED
        BY <2>1, <2>3 DEF EndsAreReal, Dead
<1> QED
    BY <1>1, <1>2, <1>3, <1>4, <1>5, <1>6, StepsThatMatter

-----------------------------------------------------------------------------
(* Refills and the charges that pay for them, when the webhooks of a       *)
(* subscription are handled in order and once.                             *)

\* The activation comes first, and before any refill; from then on a refill
\* is one that the row has recorded, or the first.
Counted(i) ==
    /\ rz[i].state \in {"none", "created"} =>
          inbox[i] = <<>> /\ i \notin activating /\ fills[i] = 0
    /\ \A k \in DOMAIN inbox[i] : inbox[i][k] = "activated" => k = 1
    /\ Reported(i, "activated") => i \notin activating /\ fills[i] = 0 /\ rz[i].paid > 0
    /\ i \in activating => row.id # i /\ fills[i] = 0 /\ rz[i].paid > 0
    /\ fills[i] <= rz[i].paid
    /\ row.id = i => fills[i] <= 1 \/ fills[i] <= row.paid

FillsArePaid == \A i \in Ids : Counted(i)

\* A step that is about other subscriptions.
Untouched(j) ==
    /\ rz'[j].paid = rz[j].paid
    /\ rz'[j].state = rz[j].state \/ (inbox[j] = <<>> /\ j \notin activating /\ fills[j] = 0)
                                  \/ rz'[j].state \notin {"none", "created"}
    /\ inbox'[j] = inbox[j] /\ fills'[j] = fills[j]
    /\ j \in activating' => j \in activating
    /\ row'.id = j => row.id = j /\ row'.paid = row.paid

\* A step that does not touch a subscription keeps its count.
LEMMA UntouchedCounted ==
    ASSUME NEW j \in Ids, Counted(j), Untouched(j)
    PROVE  Counted(j)'
BY DEF Counted, Untouched, Reported

\* While webhooks come in order, every step keeps the counts.
LEMMA FillsArePaidStep ==
    ASSUME Types, InOrder, FillsArePaid, [Next]_vars
    PROVE  FillsArePaid'
<1>a. /\ row \in RowType /\ NoId \notin Ids /\ "cancelled" \in Kinds /\ "charged" \in Kinds
      /\ "pending" \in Kinds /\ "halted" \in Kinds /\ "completed" \in Kinds
    BY SubscriptionsAssumption DEF Types, NoId, Ids, Kinds
<1>b. /\ rz \in [Ids -> RzType] /\ \A i \in Ids : rz[i].paid \in Nat
      /\ fills \in [Ids -> Nat] /\ \A i \in Ids : fills[i] \in Nat
    BY DEF Types, RzType
<1>0. /\ row \in RowType /\ NoId \notin Ids /\ "cancelled" \in Kinds /\ "charged" \in Kinds
      /\ "pending" \in Kinds /\ "halted" \in Kinds /\ "completed" \in Kinds
      /\ rz \in [Ids -> RzType] /\ \A i \in Ids : rz[i].paid \in Nat
      /\ fills \in [Ids -> Nat] /\ \A i \in Ids : fills[i] \in Nat
    BY <1>a, <1>b
<1>1. CASE Calm
    <2>1. \A j \in Ids : Untouched(j)
        BY <1>1 DEF Calm, SameRow, Untouched
    <2> QED
        BY <2>1, UntouchedCounted DEF FillsArePaid
<1>2. CASE DeleteStale
    <2>1. \A j \in Ids : Untouched(j)
        BY <1>0, <1>2 DEF DeleteStale, Untouched, Absent
    <2> QED
        BY <2>1, UntouchedCounted DEF FillsArePaid
<1>3. ASSUME NEW c \in Callers, Checkout(c)
      PROVE  FillsArePaid'
    <2>1. PICK n \in Ids :
          /\ rz[n].state = "none" /\ row'.id = n /\ row'.paid = row.paid
          /\ rz'[n].state = "created" /\ rz'[n].paid = 0
          /\ \A j \in Ids : j # n => rz'[j] = rz[j]
          /\ UNCHANGED <<activating, inbox, fills>>
        BY <1>3, CheckoutFacts
    <2>2. ASSUME NEW j \in Ids, j # n
          PROVE  Untouched(j)
        BY <2>1, <2>2 DEF Untouched
    <2>3. Counted(n)'
        <3>1. inbox[n] = <<>> /\ n \notin activating /\ fills[n] = 0
            BY <2>1 DEF FillsArePaid, Counted
        <3>2. \A e : ~Reported(n, e)'
            BY <2>1, <3>1 DEF Reported
        <3> QED
            BY <2>1, <3>1, <3>2 DEF Counted
    <2> QED
        BY <2>2, <2>3, UntouchedCounted DEF FillsArePaid
<1>4. ASSUME NEW i \in Ids, NEW e \in Kinds \ {"activated"},
             rz[i].state \notin {"none", "created"}, rz'[i].state \notin {"none", "created"},
             rz'[i].paid \in {rz[i].paid, rz[i].paid + 1}, OnlyChanges(i), Report(i, <<e>>),
             UNCHANGED <<activating, fills>>, row'.id = row.id, row'.paid = row.paid
      PROVE  FillsArePaid'
    <2>1. /\ \A j \in Ids : j # i => inbox'[j] = inbox[j]
          /\ Len(inbox[i]) \in Nat
          /\ DOMAIN inbox[i] = 1 .. Len(inbox[i])
          /\ DOMAIN inbox'[i] = 1 .. Len(inbox[i]) + 1
          /\ \A m \in 1 .. Len(inbox[i]) : inbox'[i][m] = inbox[i][m]
          /\ inbox'[i][Len(inbox[i]) + 1] = e
          /\ \A j \in Ids : \A f : Reported(j, f)' => Reported(j, f) \/ (j = i /\ f = e)
        BY <1>4, OneAppended
    <2>2. ASSUME NEW j \in Ids, j # i
          PROVE  Untouched(j)
        BY <1>4, <2>1, <2>2 DEF Untouched, OnlyChanges
    <2>3. Counted(i)'
        <3>1. \A k \in DOMAIN inbox'[i] : inbox'[i][k] = "activated" => k = 1
            BY <1>4, <2>1 DEF FillsArePaid, Counted
        <3>2. Reported(i, "activated")' => Reported(i, "activated")
            BY <1>4, <2>1
        <3>3. rz'[i].paid >= rz[i].paid
            BY <1>0, <1>4
        <3> QED
            BY <1>0, <1>4, <3>1, <3>2, <3>3 DEF FillsArePaid, Counted
    <2> QED
        BY <2>2, <2>3, UntouchedCounted DEF FillsArePaid
<1>5. ASSUME NEW c \in Callers, CancelStep(c)
      PROVE  FillsArePaid'
    <2>1. /\ UNCHANGED <<activating, fills>>
          /\ UNCHANGED <<rz, inbox>> \/ \E i \in Ids : CancelsAt(i)
          /\ row'.id = row.id /\ row'.paid = row.paid
        BY <1>5, CancelStepFacts
    <2>2. CASE UNCHANGED <<rz, inbox>>
        <3>1. \A j \in Ids : Untouched(j)
            BY <2>1, <2>2 DEF Untouched
        <3> QED
            BY <3>1, UntouchedCounted DEF FillsArePaid
    <2>3. ASSUME NEW i \in Ids, CancelsAt(i)
          PROVE  FillsArePaid'
        <3>1. CASE rz[i].state \notin {"none", "created"}
            BY <1>0, <1>4, <2>1, <2>3, <3>1 DEF CancelsAt
        <3>2. CASE rz[i].state \in {"none", "created"}
            <4>1. /\ inbox[i] = <<>> /\ i \notin activating /\ fills[i] = 0
                  /\ ~Reported(i, "activated")
                BY <3>2 DEF FillsArePaid, Counted, Reported
            <4>2. /\ \A j \in Ids : j # i => inbox'[j] = inbox[j]
                  /\ Len(inbox[i]) \in Nat
                  /\ DOMAIN inbox'[i] = 1 .. Len(inbox[i]) + 1
                  /\ inbox[i] = <<>> <=> Len(inbox[i]) = 0
                  /\ \A j \in Ids : \A f : Reported(j, f)' => Reported(j, f) \/ (j = i /\ f = "cancelled")
                BY <1>0, <2>3, OneAppended DEF CancelsAt
            <4>3. ASSUME NEW j \in Ids, j # i
                  PROVE  Untouched(j)
                BY <2>1, <2>3, <4>2, <4>3 DEF Untouched, OnlyChanges, CancelsAt
            <4>4. DOMAIN inbox'[i] = 1 .. 1
                BY <4>1, <4>2
            <4>5. Counted(i)'
                BY <1>0, <2>1, <2>3, <4>1, <4>2, <4>4 DEF Counted, CancelsAt
            <4> QED
                BY <4>3, <4>5, UntouchedCounted DEF FillsArePaid
        <3> QED
            BY <3>1, <3>2
    <2> QED
        BY <2>1, <2>2, <2>3
<1>6. ASSUME NEW i \in Ids, RazorpayStep(i)
      PROVE  FillsArePaid'
    <2>1. UNCHANGED <<row, activating, fills>> /\ OnlyChanges(i)
        BY <1>6, RazorpayFacts
    <2>2. CASE /\ rz[i].state = "created" /\ rz'[i].state = "active"
               /\ rz'[i].paid = rz[i].paid + 1
               /\ Report(i, <<"activated", "charged">>)
        <3>1. inbox[i] = <<>> /\ i \notin activating /\ fills[i] = 0
            BY <2>2 DEF FillsArePaid, Counted
        <3>2. /\ \A j \in Ids : j # i => inbox'[j] = inbox[j]
              /\ Len(inbox[i]) \in Nat
              /\ DOMAIN inbox'[i] = 1 .. Len(inbox[i]) + 2
              /\ inbox'[i][Len(inbox[i]) + 1] = "activated"
              /\ inbox'[i][Len(inbox[i]) + 2] = "charged"
              /\ inbox[i] = <<>> <=> Len(inbox[i]) = 0
            BY <2>2, PaymentReported
        <3>3. ASSUME NEW j \in Ids, j # i
              PROVE  Untouched(j)
            BY <2>1, <3>2, <3>3 DEF Untouched, OnlyChanges
        <3>4. DOMAIN inbox'[i] = 1 .. 2 /\ inbox'[i][2] = "charged"
            BY <3>1, <3>2
        <3>5. \A k \in DOMAIN inbox'[i] : inbox'[i][k] = "activated" => k = 1
            BY <3>4
        <3>6. Counted(i)'
            BY <1>0, <2>1, <2>2, <3>1, <3>5 DEF Counted
        <3> QED
            BY <3>3, <3>6, UntouchedCounted DEF FillsArePaid
    <2>3. ASSUME NEW from \in {"active", "retrying"}, NEW to \in {"retrying", "halted",
       "completed"},
                 NEW e \in Kinds \ {"activated"}, Becomes(i, from, to, e)
          PROVE  FillsArePaid'
        BY <1>4, <2>1, <2>3 DEF Becomes
    <2>4. CASE /\ rz[i].state \in {"active", "retrying"} /\ rz'[i].state = "active"
               /\ rz'[i].paid = rz[i].paid + 1
               /\ Report(i, <<"charged">>)
        BY <1>0, <1>4, <2>1, <2>4
    <2> QED
        BY <1>0, <1>6, <2>2, <2>3, <2>4, RazorpayFacts
<1>7. ASSUME NEW i \in Ids, WebhookStep(i)
      PROVE  FillsArePaid'
    <2>1. UNCHANGED rz
        BY <1>7, WebhookFacts
    <2>2. ASSUME NEW e, Takes(i, e)
          PROVE  /\ Reported(i, e)
                 /\ \A j \in Ids : j # i => inbox'[j] = inbox[j]
                 /\ Reported(i, "activated")' => Reported(i, "activated")
                 /\ Reported(i, "activated") => e = "activated"
                 /\ ~Reported(i, "activated")'
                 /\ rz[i].state \notin {"none", "created"}
        <3>1. /\ Reported(i, e)
              /\ \A j \in Ids : j # i => inbox'[j] = inbox[j]
              /\ \A j \in Ids : \A f : Reported(j, f)' => Reported(j, f)
              /\ Len(inbox[i]) \in Nat /\ Len(inbox[i]) > 0 /\ inbox[i][1] = e
              /\ DOMAIN inbox[i] = 1 .. Len(inbox[i])
              /\ DOMAIN inbox'[i] = 1 .. Len(inbox[i]) - 1
              /\ \A m \in 1 .. Len(inbox[i]) - 1 : inbox'[i][m] = inbox[i][m + 1]
            BY <2>2, ReceivedFacts
        <3>2. \A k \in DOMAIN inbox[i] : inbox[i][k] = "activated" => k = 1
            BY DEF FillsArePaid, Counted
        <3>3. ~Reported(i, "activated")'
            <4> SUFFICES ASSUME NEW m \in DOMAIN inbox'[i], inbox'[i][m] = "activated"
                         PROVE  FALSE
                BY DEF Reported
            <4>1. m + 1 \in DOMAIN inbox[i] /\ inbox[i][m + 1] = "activated" /\ m + 1 # 1
                BY <3>1
            <4> QED
                BY <3>2, <4>1
        <3>4. Reported(i, "activated") => e = "activated"
            BY <3>1, <3>2 DEF Reported
        <3>5. rz[i].state \notin {"none", "created"}
            BY <3>1 DEF FillsArePaid, Counted
        <3> QED
            BY <3>1, <3>3, <3>4, <3>5
    <2>3. \A j \in Ids : j # i => Untouched(j)
        <3>1. /\ \A j \in Ids : j # i => inbox'[j] = inbox[j] /\ fills'[j] = fills[j]
              /\ activating' \subseteq activating \union {i}
              /\ row'.id = i \/ (row'.id = row.id /\ row'.paid = row.paid)
            BY <1>0, <1>7, <2>2, WebhookFacts DEF Moved, Promoted, Renewed
        <3> QED
            BY <2>1, <3>1 DEF Untouched
    <2>4. ASSUME Takes(i, "activated"), row.id # i,
                 activating' = activating \union {i}, UNCHANGED <<row, fills>>
          PROVE  Counted(i)'
        BY <1>0, <2>1, <2>2, <2>4 DEF FillsArePaid, Counted, Reported
    <2>5. ASSUME NEW e, Takes(i, e), UNCHANGED <<activating, fills>>, row'.id = row.id,
                 row'.paid = row.paid
          PROVE  Counted(i)'
        <3>1. \A k \in DOMAIN inbox'[i] : inbox'[i][k] # "activated"
            BY <2>2, <2>5 DEF Reported
        <3> QED
            BY <1>0, <2>1, <2>2, <2>5, <3>1 DEF FillsArePaid, Counted
    <2>6. ASSUME Promoted(i),
                 \/ Takes(i, "activated") /\ UNCHANGED activating
                 \/ i \in activating /\ activating' = activating \ {i} /\ UNCHANGED inbox
          PROVE  Counted(i)'
        <3>1. fills[i] = 0 /\ rz[i].paid > 0 /\ i \notin activating'
            BY <2>2, <2>6 DEF FillsArePaid, Counted
        <3>2. ~Reported(i, "activated")'
            BY <2>2, <2>6 DEF FillsArePaid, Counted, Reported
        <3>3. fills'[i] = 1 /\ rz[i].state \notin {"none", "created"}
            BY <1>0, <2>2, <2>6, <3>1 DEF Promoted, FillsArePaid, Counted
        <3>4. \A k \in DOMAIN inbox'[i] : inbox'[i][k] # "activated"
            BY <3>2 DEF Reported
        <3>5. fills'[i] <= rz'[i].paid /\ rz'[i] = rz[i]
            BY <1>0, <2>1, <3>1, <3>3
        <3> QED
            BY <3>1, <3>2, <3>3, <3>4, <3>5 DEF Counted
    <2>7. ASSUME i \in activating, activating' = activating \ {i}, UNCHANGED inbox,
                 UNCHANGED <<row, fills>>
          PROVE  Counted(i)'
        BY <1>0, <2>1, <2>7 DEF FillsArePaid, Counted, Reported
    <2>8. ASSUME Takes(i, "charged"), UNCHANGED activating, Renewed(i)
          PROVE  Counted(i)'
        <3>1. /\ ~Reported(i, "activated")' /\ rz[i].state \notin {"none", "created"}
              /\ row.id = i /\ i \notin activating
            BY <2>2, <2>8 DEF Renewed, FillsArePaid, Counted
        <3>2. \A k \in DOMAIN inbox'[i] : inbox'[i][k] # "activated"
            BY <3>1 DEF Reported
        <3>3. /\ fills[i] <= rz[i].paid /\ (fills[i] <= 1 \/ fills[i] <= row.paid)
              /\ fills[i] \in Nat /\ rz[i].paid \in Nat /\ row.paid \in Nat
            BY <1>0, <3>1 DEF FillsArePaid, Counted, RowType
        <3>4. /\ fills'[i] <= rz[i].paid
              /\ fills'[i] <= 1 \/ fills'[i] <= row'.paid
            <4>1. CASE Refills(i)
                <5>1. /\ fills'[i] = fills[i] + 1 /\ row'.paid = rz[i].paid
                      /\ rz[i].paid > row.paid /\ rz[i].paid > 1
                    BY <1>0, <2>8, <4>1 DEF Renewed, Refills, IsNew
                <5> QED
                    BY <3>3, <5>1
            <4>2. CASE ~Refills(i)
                <5>1. /\ fills'[i] = fills[i]
                      /\ row'.paid = rz[i].paid \/ row'.paid = row.paid
                    BY <1>0, <2>8, <4>2 DEF Renewed
                <5> QED
                    BY <3>3, <5>1
            <4> QED
                BY <4>1, <4>2
        <3>5. /\ rz'[i] = rz[i] /\ i \notin activating' /\ row'.id = i
              /\ ~Reported(i, "activated")'
            BY <2>1, <2>8, <3>1 DEF Renewed
        <3> QED
            BY <3>1, <3>2, <3>4, <3>5 DEF Counted
    <2>9. Counted(i)'
        <3>1. ASSUME NEW e, NEW from, NEW to, Moved(i, e, from, to)
              PROVE  Counted(i)'
            BY <2>5, <3>1 DEF Moved
        <3>2. ASSUME NEW e, Takes(i, e), UNCHANGED activating, UNCHANGED <<row, fills>>
              PROVE  Counted(i)'
            BY <2>5, <3>2
        <3> QED
            BY <1>7, <2>4, <2>6, <2>7, <2>8, <3>1, <3>2, WebhookFacts
    <2> QED
        BY <2>3, <2>9, UntouchedCounted DEF FillsArePaid
<1> QED
    BY <1>1, <1>2, <1>3, <1>5, <1>6, <1>7, StepsThatMatter

\* Every refill that a webhook makes is paid by a charge of its own, as long
\* as the webhooks of a subscription are handled in order and once.
THEOREM RefillsArePaid ==
    ASSUME InOrder
    PROVE  Spec => []OneFillPerCharge
<1>1. Init => FillsArePaid
    <2> SUFFICES ASSUME Init PROVE FillsArePaid
        OBVIOUS
    <2> QED
        BY SubscriptionsAssumption DEF Init, FillsArePaid, Counted, Reported
<1>2. FillsArePaid /\ Types /\ [Next]_vars => FillsArePaid'
    BY FillsArePaidStep
<1>3. FillsArePaid => OneFillPerCharge
    BY DEF FillsArePaid, Counted, OneFillPerCharge
<1> QED
    BY <1>1, <1>2, <1>3, TypesHold, PTL DEF Spec

-----------------------------------------------------------------------------
(* The row follows its subscription.                                       *)

\* Webhooks arrive in order and once, calls to Razorpay succeed, a checkout
\* is paid only while it is the row's and is replaced only before it is.
Orderly ==
    Events \cap {"reorder", "redeliver", "razorpayFails", "payReplaced", "hurry", "cleanup"} = {}

\* The webhook that tells of a state.
Tells(event, state) ==
    \/ event = "charged" /\ state = "active"
    \/ event = "pending" /\ state = "retrying"
    \/ event = "halted" /\ state = "halted"
    \/ event = "cancelled" /\ state = "cancelled"
    \/ event = "completed" /\ state = "completed"

\* A subscription the row has, and what is still to come of it: nothing, and
\* the row shows its state, or last the webhook that tells of its state.
Settles(i) ==
    /\ rz[i].state = "created" => inbox[i] = <<>> /\ Unpaid(row)
    /\ rz[i].state = "active" /\ inbox[i] = <<>> => row.status = "active"
    /\ rz[i].state = "retrying" /\ inbox[i] = <<>> => row.status = "pending"
    /\ rz[i].state = "halted" /\ inbox[i] = <<>> => row.status = "halted"
    /\ Dead(i) /\ inbox[i] = <<>> => row.status = "cancelled"
    /\ inbox[i] # <<>> => Tells(inbox[i][Len(inbox[i])], rz[i].state)
    /\ rz[i].state = "completed" /\ inbox[i] # <<>> =>
          /\ row.status \notin {"cancelled", "halted"}
          /\ Len(inbox[i]) = 1 => row.status = "active"
          /\ Len(inbox[i]) > 1 => inbox[i][Len(inbox[i]) - 1] = "charged"

\* A subscription's webhooks and its state.
Tidy(i) ==
    /\ i # row.id => ~Billing(i)
    /\ rz[i].state \in {"active", "retrying", "halted", "completed"} => rz[i].paid > 0
    /\ \A e \in Kinds : Reported(i, e) /\ e # "cancelled" => rz[i].paid > 0
    /\ Reported(i, "halted") => rz[i].state \in {"halted", "cancelled"}
    /\ \A k \in DOMAIN inbox[i] :
          /\ inbox[i][k] = "activated" => k = 1 /\ row.id = i /\ Unpaid(row)
          /\ inbox[i][k] = "completed" => k = Len(inbox[i])

\* The row and its subscription.
InStep(i) ==
    /\ row.status = "halted" => rz[i].state \in {"halted", "cancelled"} /\ rz[i].paid > 0
    /\ rz[i].paid > 0 /\ row.per = 0 =>
          Unpaid(row) /\ inbox[i] # <<>> /\ inbox[i][1] = "activated"
    /\ "crash" \notin Events /\ rz[i].state = "cancelled" /\ rz[i].paid = 0 =>
          row.status = "cancelled"
    /\ Settles(i)

RowFollows ==
    /\ activating = {}
    /\ \A i \in Ids : Tidy(i)
    /\ \A i \in Ids : row.id = i => InStep(i)

DropsReplaced ==
    /\ worker # "cleaning"
    /\ \A c \in Callers : call[c].at = "dropping" => call[c].drop # row.id

\* A step that leaves a subscription and the row alone.
SameFor(j) ==
    /\ rz'[j] = rz[j] /\ inbox'[j] = inbox[j]
    /\ row'.id = row.id /\ row'.status = row.status /\ row'.per = row.per

\* A step that changes nothing of it leaves a subscription tidy,
LEMMA SameTidy ==
    ASSUME NEW j \in Ids, Tidy(j), SameFor(j)
    PROVE  Tidy(j)'
BY DEF Tidy, SameFor, Reported, Billing, Unpaid

\* and in step.
LEMMA SameInStep ==
    ASSUME NEW j \in Ids, InStep(j), SameFor(j)
    PROVE  InStep(j)'
BY DEF InStep, Settles, SameFor, Unpaid, Dead, Tells

\* A subscription whose last webhook tells of its state settles.
LEMMA LastTells ==
    ASSUME NEW i \in Ids, rz'[i].state \notin {"created", "completed"}, inbox'[i] # <<>>,
           Tells(inbox'[i][Len(inbox'[i])], rz'[i].state)
    PROVE  Settles(i)'
BY DEF Settles

\* What Orderly excludes.
LEMMA OrderlyFacts ==
    ASSUME Orderly
    PROVE  /\ ~CanFail /\ InOrder
           /\ "hurry" \notin Events /\ "payReplaced" \notin Events /\ "cleanup" \notin Events
BY DEF Orderly, CanFail, InOrder

\* What the row of a state can be.
LEMMA RowOfState ==
    ASSUME Types, EndsAreReal, RowFollows, NEW i \in Ids, row.id = i
    PROVE  /\ row.status \in AnyStatus /\ rz[i].state \in RzStates \ {"none"}
           /\ row.status = "cancelled" => Dead(i)
           /\ row.status = "halted" => rz[i].state \in {"halted", "cancelled"}
<1>1. row.status # "none" /\ row.status \in Statuses /\ rz[i] \in RzType /\ rz[i].state # "none"
    BY SubscriptionsAssumption DEF Types, RowType, Known, NoId, Ids
<1> QED
    BY <1>1 DEF EndsAreReal, RowFollows, InStep, Statuses, RzType

\* The steps of calls and cron jobs.
LEMMA CheckoutFollows ==
    ASSUME Types, SessionsAreFresh, EndsAreReal, RowFollows, Orderly,
           NEW c \in Callers, Checkout(c)
    PROVE  RowFollows'
<1>1. PICK n \in Ids :
      /\ rz[n].state = "none" /\ n # row.id
      /\ row'.status = "pending" /\ row'.id = n /\ row'.per = 0
      /\ row.status \in {"active", "pending"} => Unpaid(row)
      /\ Unpaid(row) /\ rz[row.id].paid > 0 => "hurry" \in Events
      /\ rz'[n].state = "created" /\ rz'[n].paid = 0
      /\ \A j \in Ids : j # n => rz'[j] = rz[j]
      /\ UNCHANGED <<activating, inbox>>
    BY FreshCheckout
<1>2. inbox[n] = <<>>
    BY <1>1 DEF Types, FreshIds
<1>3. \A e : ~Reported(n, e)'
    BY <1>1, <1>2 DEF Reported
<1>4. Tidy(n)'
    BY <1>1, <1>2, <1>3 DEF Tidy, Billing
<1>5. ASSUME NEW j \in Ids, j # n
      PROVE  Tidy(j)'
    <2>1. rz'[j] = rz[j] /\ inbox'[j] = inbox[j] /\ Tidy(j)
        BY <1>1, <1>5 DEF RowFollows
    <2>2. ASSUME j = row.id
          PROVE  ~Billing(j) /\ ~Reported(j, "activated")
        <3>1. CASE Unpaid(row)
            <4>1. ~(rz[j].paid > 0)
                BY <1>1, <2>2, <3>1, OrderlyFacts
            <4> QED
                BY <2>1, <4>1 DEF Tidy, Billing, Kinds
        <3>2. CASE ~Unpaid(row)
            <4>1. ~Billing(j)
                BY <1>1, <2>2, <3>2, RowOfState DEF AnyStatus, Billing, Dead
            <4> QED
                BY <2>1, <3>2, <4>1 DEF Tidy, Reported
        <3> QED
            BY <3>1, <3>2
    <2>3. ~Billing(j) /\ ~Reported(j, "activated")
        BY <2>1, <2>2 DEF Tidy, Reported
    <2> QED
        BY <2>1, <2>3 DEF Tidy, Reported, Billing
<1>6. InStep(n)'
    BY <1>1, <1>2 DEF InStep, Settles, Unpaid, Dead
<1> QED
    BY <1>1, <1>4, <1>5, <1>6 DEF RowFollows

\* A cancel at Razorpay leaves every subscription tidy, if the row keeps a
\* paid checkout open.
LEMMA CancelsTidy ==
    ASSUME Types, EndsAreReal, RowFollows, NEW i \in Ids, CancelsAt(i), row'.id = row.id,
           row'.status = row.status \/ ~Reported(row.id, "activated"),
           row'.per = row.per, NEW j \in Ids
    PROVE  Tidy(j)'
<1>0. "cancelled" \in Kinds
    BY DEF Kinds
<1>1. /\ Cancellable(i) /\ OnlyChanges(i) /\ rz'[i].state = "cancelled"
      /\ rz'[i].paid = rz[i].paid /\ Report(i, <<"cancelled">>)
    BY DEF CancelsAt
<1>2. /\ \A l \in Ids : l # i => inbox'[l] = inbox[l]
      /\ Len(inbox[i]) \in Nat /\ Len(inbox'[i]) = Len(inbox[i]) + 1
      /\ DOMAIN inbox[i] = 1 .. Len(inbox[i])
      /\ DOMAIN inbox'[i] = 1 .. Len(inbox[i]) + 1
      /\ \A m \in 1 .. Len(inbox[i]) : inbox'[i][m] = inbox[i][m]
      /\ inbox'[i][Len(inbox[i]) + 1] = "cancelled"
      /\ \A l \in Ids : \A f : Reported(l, f)' => Reported(l, f) \/ (l = i /\ f = "cancelled")
    BY <1>0, <1>1, OneAppended
<1>3. Tidy(j)
    BY DEF RowFollows
<1>4. Reported(j, "activated") => row'.id = j /\ Unpaid(row')
    <2>1. Reported(j, "activated") => row.id = j /\ Unpaid(row)
        BY <1>3 DEF Tidy, Reported
    <2> QED
        BY <2>1 DEF Unpaid
<1>5. CASE j # i
    BY <1>1, <1>2, <1>3, <1>4, <1>5 DEF Tidy, Reported, Billing, OnlyChanges
<1>6. CASE j = i
    <2>1. \A k \in DOMAIN inbox'[i] : /\ inbox'[i][k] # "completed"
                                      /\ inbox'[i][k] = "activated" => k = 1 /\ Reported(i, "activated")
        <3> SUFFICES ASSUME NEW k \in DOMAIN inbox'[i]
                     PROVE  /\ inbox'[i][k] # "completed"
                            /\ inbox'[i][k] = "activated" => k = 1 /\ Reported(i, "activated")
            OBVIOUS
        <3>1. CASE k = Len(inbox[i]) + 1
            BY <1>2, <3>1
        <3>2. CASE k # Len(inbox[i]) + 1
            <4>1. k \in DOMAIN inbox[i] /\ inbox'[i][k] = inbox[i][k]
                BY <1>2, <3>2
            <4>2. inbox[i][k] # "completed"
                BY <1>1, <4>1 DEF EndsAreReal, Reported, Cancellable
            <4> QED
                BY <1>3, <1>6, <4>1, <4>2 DEF Tidy, Reported
        <3> QED
            BY <3>1, <3>2
    <2>2. \A e \in Kinds : Reported(i, e)' /\ e # "cancelled" => Reported(i, e)
        BY <1>2
    <2>3. \A e \in Kinds : Reported(i, e)' /\ e # "cancelled" => rz'[i].paid > 0
        BY <1>1, <1>3, <1>6, <2>2 DEF Tidy
    <2> QED
        BY <1>1, <1>4, <1>6, <2>1, <2>3 DEF Tidy, Billing
<1> QED
    BY <1>5, <1>6

\* The row's own subscription is cancelled, and the row shows it.
LEMMA CancelsInStep ==
    ASSUME Types, RowFollows, NEW i \in Ids, row.id = i, CancelsAt(i), row'.per = row.per,
           \/ row'.status = "cancelled" /\ (rz[i].paid > 0 => ~Unpaid(row))
           \/ row'.status = row.status /\ "crash" \in Events
    PROVE  InStep(i)'
<1>0. "cancelled" \in Kinds
    BY DEF Kinds
<1>1. /\ rz'[i].state = "cancelled" /\ rz'[i].paid = rz[i].paid /\ Report(i, <<"cancelled">>)
    BY DEF CancelsAt
<1>2. /\ Len(inbox[i]) \in Nat /\ Len(inbox'[i]) = Len(inbox[i]) + 1
      /\ DOMAIN inbox[i] = 1 .. Len(inbox[i])
      /\ \A m \in 1 .. Len(inbox[i]) : inbox'[i][m] = inbox[i][m]
      /\ inbox'[i][Len(inbox[i]) + 1] = "cancelled"
      /\ inbox[i] = <<>> <=> Len(inbox[i]) = 0
      /\ inbox'[i] # <<>>
    BY <1>0, <1>1, OneAppended
<1>3. Settles(i)'
    BY <1>1, <1>2, LastTells DEF Tells
<1>4. InStep(i)
    BY DEF RowFollows
<1>5. rz[i].paid > 0 /\ row.per = 0 =>
          Unpaid(row) /\ inbox'[i] # <<>> /\ inbox'[i][1] = "activated"
    BY <1>2, <1>4 DEF InStep
<1>6. (row.status = "halted" => rz[i].state \in {"halted", "cancelled"} /\ rz[i].paid > 0)'
    BY <1>1, <1>4 DEF InStep
<1>7. rz'[i].paid > 0 /\ row'.per = 0 =>
          Unpaid(row') /\ inbox'[i] # <<>> /\ inbox'[i][1] = "activated"
    BY <1>1, <1>5 DEF Unpaid
<1>8. "crash" \notin Events => row'.status = "cancelled"
    OBVIOUS
<1> QED
    BY <1>3, <1>6, <1>7, <1>8 DEF InStep

\* A step of a cancel keeps what is to come of every subscription.
LEMMA CancelFollows ==
    ASSUME Types, SessionsAreFresh, EndsAreReal, RowFollows, DropsReplaced, Orderly,
           NEW c \in Callers, CancelStep(c)
    PROVE  RowFollows'
<1>0. /\ activating' = {} /\ row'.id = row.id /\ row'.per = row.per
    BY CancelStepFacts DEF RowFollows
<1>1. ASSUME UNCHANGED <<rz, inbox>>, row'.status = row.status
      PROVE  RowFollows'
    <2>1. \A j \in Ids : SameFor(j)
        BY <1>0, <1>1 DEF SameFor
    <2> QED
        BY <1>0, <2>1, SameTidy, SameInStep DEF RowFollows
<1>2. ASSUME NEW i \in Ids, CancelsAt(i), i # row.id, row'.status = row.status
      PROVE  RowFollows'
    <2>0. "cancelled" \in Kinds
        BY DEF Kinds
    <2>1. \A j \in Ids : j # i => rz'[j] = rz[j] /\ inbox'[j] = inbox[j]
        BY <1>2, <2>0, OneAppended DEF CancelsAt, OnlyChanges
    <2>2. \A j \in Ids : j # i => SameFor(j)
        BY <1>0, <1>2, <2>1 DEF SameFor
    <2>3. \A j \in Ids : Tidy(j)'
        BY <1>0, <1>2, CancelsTidy
    <2> QED
        BY <1>0, <1>2, <2>2, <2>3, SameInStep DEF RowFollows
<1>3. ASSUME NEW i \in Ids, CancelsAt(i), i = row.id,
             ~Reported(i, "activated") \/ row'.status = row.status,
             \/ row'.status = "cancelled" /\ (rz[i].paid > 0 => ~Unpaid(row))
             \/ row'.status = row.status /\ "crash" \in Events
      PROVE  RowFollows'
    <2>1. \A j \in Ids : Tidy(j)'
        BY <1>0, <1>3, CancelsTidy
    <2>2. InStep(i)'
        BY <1>0, <1>3, CancelsInStep
    <2> QED
        BY <1>0, <1>3, <2>1, <2>2 DEF RowFollows
<1>4. CASE DropReplaced(c)
    <2>1. /\ row' = row /\ call[c].drop # row.id
          /\ UNCHANGED <<rz, inbox>> \/ CancelsAt(call[c].drop)
        BY <1>4, CancelFacts DEF DropReplaced, TryCancelAtRazorpay, DropsReplaced
    <2> QED
        BY <1>1, <1>2, <2>1 DEF CancelsAt
<1>5. CASE CancelUnpaid(c)
    <2>1. /\ Unpaid(row) /\ row'.status = "cancelled" /\ ~(rz[row.id].paid > 0)
          /\ TryCancelAtRazorpay(row.id)
        BY <1>5, FreshCancelUnpaid, OrderlyFacts
    <2>2. PICK i \in Ids : i = row.id
        BY <2>1, SubscriptionsAssumption DEF Types, Unpaid, RowType
    <2>3. InStep(i) /\ Tidy(i) /\ rz[i].state \in RzStates \ {"none"} /\ ~Reported(i, "activated")
        BY <2>1, <2>2, RowOfState DEF RowFollows, Tidy, Kinds
    <2>4. CASE CancelsAt(i)
        BY <1>3, <2>1, <2>2, <2>3, <2>4
    <2>5. CASE ~Cancellable(i) /\ UNCHANGED <<rz, inbox>>
        <3>1. rz[i].state = "cancelled"
            <4>1. Dead(i)
                BY <2>3, <2>5 DEF Cancellable, RzStates, Dead
            <4> QED
                BY <2>1, <2>2, <2>3, <4>1 DEF Dead, Tidy
        <3>2. InStep(i)'
            BY <1>0, <2>1, <2>2, <2>3, <2>5, <3>1 DEF InStep, Settles, Dead, Tells
        <3>3. ASSUME NEW j \in Ids
              PROVE  Tidy(j)'
            <4>1. Tidy(j) /\ Reported(j, "activated") => row'.id = j /\ Unpaid(row')
                BY <2>2, <2>3 DEF RowFollows, Tidy, Reported
            <4>2. Tidy(j)
                BY DEF RowFollows
            <4> QED
                BY <1>0, <2>5, <4>1, <4>2 DEF Tidy, Reported, Billing
        <3> QED
            BY <1>0, <2>2, <3>2, <3>3 DEF RowFollows
    <2>6. CancelsAt(i) \/ (~Cancellable(i) /\ UNCHANGED <<rz, inbox>>)
        BY <2>1, <2>2, CancelFacts, OrderlyFacts DEF TryCancelAtRazorpay
    <2> QED
        BY <2>4, <2>5, <2>6
<1>6. CASE CancelPaid(c)
    <2>1. ~Unpaid(row) /\ row'.status = "cancelled" /\ CancelsAt(row.id)
        BY <1>6, FreshCancelPaid
    <2>2. PICK i \in Ids : i = row.id /\ CancelsAt(i)
        BY <2>1 DEF CancelsAt
    <2>3. ~Reported(i, "activated")
        BY <2>1 DEF RowFollows, Tidy, Reported
    <2> QED
        BY <1>3, <2>1, <2>2, <2>3
<1>7. CASE CancelLeavesRow(c)
    <2>1. /\ row' = row
          /\ \/ UNCHANGED <<rz, inbox>>
             \/ "crash" \in Events /\ CancelsAt(Seen(c).id)
        BY <1>7, CancelFacts, OrderlyFacts DEF CancelLeavesRow
    <2>2. Seen(c).id = row.id
        BY SeenTypes DEF SessionsAreFresh, FreshSession
    <2>3. CASE CancelsAt(row.id) /\ "crash" \in Events
        <3>1. row.id \in Ids
            BY <2>3 DEF CancelsAt
        <3> QED
            BY <1>3, <2>1, <2>3, <3>1
    <2> QED
        BY <1>1, <2>1, <2>2, <2>3
<1> QED
    BY <1>4, <1>5, <1>6, <1>7 DEF CancelStep

\* One more webhook of the row's subscription, which tells of its new state.
LEMMA MoreInStep ==
    ASSUME Types, RowFollows, NEW i \in Ids, row.id = i, UNCHANGED row,
           NEW e \in Kinds \ {"activated", "completed"}, Report(i, <<e>>),
           rz[i].paid > 0 /\ rz'[i].paid > 0, rz'[i].state # "created", Tells(e, rz'[i].state),
           row.status = "halted" => rz'[i].state \in {"halted", "cancelled"}
    PROVE  InStep(i)'
<1>2. /\ Len(inbox[i]) \in Nat /\ Len(inbox'[i]) = Len(inbox[i]) + 1
      /\ DOMAIN inbox[i] = 1 .. Len(inbox[i])
      /\ \A m \in 1 .. Len(inbox[i]) : inbox'[i][m] = inbox[i][m]
      /\ inbox'[i][Len(inbox[i]) + 1] = e
      /\ inbox[i] = <<>> <=> Len(inbox[i]) = 0
      /\ inbox'[i] # <<>>
    BY OneAppended
<1>3. Settles(i)'
    BY <1>2, LastTells DEF Tells
<1>4. InStep(i)
    BY DEF RowFollows
<1>5. row.per = 0 => Unpaid(row) /\ inbox'[i] # <<>> /\ inbox'[i][1] = "activated"
    BY <1>2, <1>4 DEF InStep
<1> QED
    BY <1>3, <1>4, <1>5 DEF InStep

\* A webhook of a subscription that stays tidy.
LEMMA MoreTidy ==
    ASSUME Types, EndsAreReal, RowFollows, NEW i \in Ids, row.id = i, UNCHANGED row,
           NEW e \in Kinds \ {"activated"}, Report(i, <<e>>),
           rz[i].state \in {"active", "retrying"}, rz'[i].paid > 0,
           e = "halted" => rz'[i].state = "halted",
           ~Reported(i, "halted") \/ rz'[i].state = "halted"
    PROVE  Tidy(i)'
<1>2. /\ Len(inbox[i]) \in Nat /\ Len(inbox'[i]) = Len(inbox[i]) + 1
      /\ DOMAIN inbox[i] = 1 .. Len(inbox[i])
      /\ DOMAIN inbox'[i] = 1 .. Len(inbox[i]) + 1
      /\ \A m \in 1 .. Len(inbox[i]) : inbox'[i][m] = inbox[i][m]
      /\ inbox'[i][Len(inbox[i]) + 1] = e
      /\ \A f : Reported(i, f)' => Reported(i, f) \/ f = e
    BY OneAppended
<1>3. Tidy(i) /\ ~Reported(i, "completed")
    BY DEF RowFollows, EndsAreReal
<1>4. \A k \in DOMAIN inbox'[i] :
          /\ inbox'[i][k] = "activated" => k = 1 /\ Unpaid(row)
          /\ inbox'[i][k] = "completed" => k = Len(inbox'[i])
    <2> SUFFICES ASSUME NEW k \in DOMAIN inbox'[i]
                 PROVE  /\ inbox'[i][k] = "activated" => k = 1 /\ Unpaid(row)
                        /\ inbox'[i][k] = "completed" => k = Len(inbox'[i])
        OBVIOUS
    <2>1. CASE k = Len(inbox[i]) + 1
        BY <1>2, <2>1
    <2>2. CASE k # Len(inbox[i]) + 1
        <3>1. k \in DOMAIN inbox[i] /\ inbox'[i][k] = inbox[i][k]
            BY <1>2, <2>2
        <3> QED
            BY <1>3, <3>1 DEF Tidy, Reported
    <2> QED
        BY <2>1, <2>2
<1>5. \A f \in Kinds : Reported(i, f)' /\ f # "cancelled" => rz'[i].paid > 0
    OBVIOUS
<1>6. Reported(i, "halted")' => rz'[i].state = "halted"
    BY <1>2
<1> QED
    BY <1>4, <1>5, <1>6 DEF Tidy

\* So does what Razorpay does by itself.
LEMMA RazorpayFollows ==
    ASSUME Types, EndsAreReal, RowFollows, Orderly, NEW i \in Ids, RazorpayStep(i)
    PROVE  RowFollows'
<1>0. /\ "charged" \in Kinds /\ "pending" \in Kinds /\ "halted" \in Kinds
      /\ "completed" \in Kinds /\ rz[i].paid \in Nat
    BY DEF Kinds, Types, RzType
<1>1. UNCHANGED <<row, activating>> /\ OnlyChanges(i)
    BY RazorpayFacts
<1>2. \A j \in Ids : j # i => inbox'[j] = inbox[j]
    <2>1. \A e \in Kinds : Report(i, <<e>>) => \A j \in Ids : j # i => inbox'[j] = inbox[j]
        BY OneAppended
    <2>2. Report(i, <<"activated", "charged">>) => \A j \in Ids : j # i => inbox'[j] = inbox[j]
        BY PaymentReported
    <2> QED
        BY <1>0, <2>1, <2>2, RazorpayFacts DEF Becomes
<1>3. ASSUME Tidy(i)', row.id = i, InStep(i)'
      PROVE  RowFollows'
    <2>1. \A j \in Ids : j # i => SameFor(j)
        BY <1>1, <1>2 DEF SameFor, OnlyChanges
    <2> QED
        BY <1>1, <1>3, <2>1, SameTidy DEF RowFollows
<1>4. Tidy(i)
    BY DEF RowFollows
<1>5. rz[i].state \in {"active", "retrying"} => /\ row.id = i /\ InStep(i) /\ rz[i].paid > 0
                                                /\ ~Reported(i, "halted")
    BY <1>4 DEF Tidy, Billing, RowFollows
<1>6. CASE /\ rz[i].state = "created" /\ rz'[i].state = "active"
           /\ rz'[i].paid = rz[i].paid + 1
           /\ Report(i, <<"activated", "charged">>)
           /\ row.id = i
    <2>1. inbox[i] = <<>> /\ Unpaid(row)
        BY <1>6 DEF RowFollows, InStep, Settles
    <2>2. /\ Len(inbox[i]) \in Nat /\ Len(inbox'[i]) = Len(inbox[i]) + 2
          /\ DOMAIN inbox'[i] = 1 .. Len(inbox[i]) + 2
          /\ inbox'[i][Len(inbox[i]) + 1] = "activated"
          /\ inbox'[i][Len(inbox[i]) + 2] = "charged"
          /\ inbox[i] = <<>> <=> Len(inbox[i]) = 0
          /\ inbox'[i] # <<>>
        BY <1>6, PaymentReported
    <2>3. /\ Len(inbox'[i]) = 2 /\ DOMAIN inbox'[i] = 1 .. 2
          /\ inbox'[i][1] = "activated" /\ inbox'[i][2] = "charged"
        BY <2>1, <2>2
    <2>4. rz'[i].paid > 0
        BY <1>0, <1>6
    <2>5. Settles(i)'
        BY <1>6, <2>2, <2>3, LastTells DEF Tells
    <2>6. InStep(i)'
        BY <1>1, <1>6, <2>1, <2>2, <2>3, <2>4, <2>5 DEF InStep, Unpaid
    <2>7. Tidy(i)'
        BY <1>1, <1>6, <2>1, <2>3, <2>4 DEF Tidy, Reported, Unpaid
    <2> QED
        BY <1>3, <1>6, <2>6, <2>7
<1>7. ASSUME rz[i].state \in {"active", "retrying"}, rz'[i].paid > 0,
             NEW e \in Kinds \ {"activated", "completed"}, Report(i, <<e>>),
             rz'[i].state # "created",
             Tells(e, rz'[i].state)
      PROVE  RowFollows'
    <2>1. row.status # "halted"
        BY <1>5, <1>7, RowOfState
    <2>2. InStep(i)'
        BY <1>1, <1>5, <1>7, <2>1, MoreInStep
    <2>3. e = "halted" => rz'[i].state = "halted"
        BY <1>7 DEF Tells
    <2>4. Tidy(i)'
        BY <1>1, <1>5, <1>7, <2>3, MoreTidy
    <2> QED
        BY <1>3, <1>5, <1>7, <2>2, <2>4
<1>8. CASE /\ rz[i].state \in {"active", "retrying"} /\ rz'[i].state = "active"
           /\ rz'[i].paid = rz[i].paid + 1
           /\ Report(i, <<"charged">>)
    BY <1>0, <1>7, <1>8 DEF Tells
<1>9. CASE Becomes(i, "active", "retrying", "pending") \/ Becomes(i, "retrying", "halted", "halted")
    BY <1>0, <1>5, <1>7, <1>9 DEF Becomes, Tells
<1>10. CASE Becomes(i, "active", "completed", "completed")
    <2>1. /\ rz[i].state = "active" /\ rz'[i].state = "completed" /\ rz'[i].paid = rz[i].paid
          /\ Report(i, <<"completed">>) /\ row.id = i /\ InStep(i) /\ rz[i].paid > 0
        BY <1>5, <1>10 DEF Becomes
    <2>2. /\ Len(inbox[i]) \in Nat /\ Len(inbox'[i]) = Len(inbox[i]) + 1
          /\ DOMAIN inbox[i] = 1 .. Len(inbox[i])
          /\ \A m \in 1 .. Len(inbox[i]) : inbox'[i][m] = inbox[i][m]
          /\ inbox'[i][Len(inbox[i]) + 1] = "completed"
          /\ inbox[i] = <<>> <=> Len(inbox[i]) = 0
          /\ inbox'[i] # <<>>
        BY <1>0, <2>1, OneAppended
    <2>3. row.status \notin {"cancelled", "halted"}
        BY <2>1, RowOfState DEF Dead
    <2>4. inbox[i] = <<>> => row.status = "active"
        BY <2>1 DEF InStep, Settles
    <2>5. inbox[i] # <<>> => inbox[i][Len(inbox[i])] = "charged"
        BY <2>1 DEF InStep, Settles, Tells
    <2>6. Len(inbox'[i]) = 1 => row.status = "active"
        BY <2>2, <2>4
    <2>7. Len(inbox'[i]) > 1 => inbox'[i][Len(inbox'[i]) - 1] = "charged"
        BY <2>2, <2>5
    <2>8. Tells(inbox'[i][Len(inbox'[i])], rz'[i].state)
        BY <2>1, <2>2 DEF Tells
    <2>9. Settles(i)'
        BY <1>1, <2>1, <2>2, <2>3, <2>6, <2>7, <2>8 DEF Settles
    <2>10. row.per = 0 => Unpaid(row) /\ inbox'[i] # <<>> /\ inbox'[i][1] = "activated"
        BY <2>1, <2>2 DEF InStep
    <2>11. InStep(i)'
        BY <1>1, <2>1, <2>3, <2>9, <2>10 DEF InStep
    <2>12. Tidy(i)'
        BY <1>0, <1>1, <1>5, <2>1, MoreTidy
    <2> QED
        BY <1>3, <2>1, <2>11, <2>12
<1> QED
    BY <1>6, <1>8, <1>9, <1>10, RazorpayFacts, OrderlyFacts

\* A webhook is handled.
LEMMA WebhookFollows ==
    ASSUME Types, EndsAreReal, RowFollows, Orderly, NEW i \in Ids, WebhookStep(i)
    PROVE  RowFollows'
<1>1. UNCHANGED rz /\ activating = {}
    BY WebhookFacts DEF RowFollows
<1>2. PICK e \in Kinds : Takes(i, e)
    BY <1>1, WebhookFacts DEF Moved, Kinds
<1>3. /\ Reported(i, e)
      /\ \A j \in Ids : j # i => inbox'[j] = inbox[j]
      /\ \A j \in Ids : \A f : Reported(j, f)' => Reported(j, f)
      /\ Len(inbox[i]) \in Nat /\ Len(inbox[i]) > 0 /\ inbox[i][1] = e
      /\ DOMAIN inbox[i] = 1 .. Len(inbox[i])
      /\ DOMAIN inbox'[i] = 1 .. Len(inbox[i]) - 1
      /\ Len(inbox'[i]) = Len(inbox[i]) - 1
      /\ \A m \in 1 .. Len(inbox[i]) - 1 : inbox'[i][m] = inbox[i][m + 1]
      /\ inbox'[i] = <<>> <=> Len(inbox[i]) = 1
    BY <1>2, ReceivedFacts, OrderlyFacts
<1>4. \A f : Takes(i, f) => f = e
    BY <1>3, ReceivedFacts, OrderlyFacts
<1>5. inbox[i] # <<>>
    BY <1>3
<1>6. /\ activating' = {} /\ row'.id = row.id
      /\ row.id # i => row'.status = row.status /\ row'.per = row.per
    <2>1. Tidy(i)
        BY DEF RowFollows
    <2>2. Takes(i, "activated") => row.id = i
        BY <2>1, ReceivedFacts DEF Tidy, Reported
    <2> QED
        BY <1>1, <2>2, WebhookFacts DEF Moved, Promoted, Renewed
<1>7. ASSUME NEW j \in Ids, j # i
      PROVE  Tidy(j)' /\ (row.id = j => InStep(j)')
    <2>1. Tidy(j) /\ (row.id = j => InStep(j))
        BY DEF RowFollows
    <2>2. CASE row.id # i
        <3>1. SameFor(j)
            BY <1>1, <1>3, <1>6, <1>7, <2>2 DEF SameFor
        <3> QED
            BY <2>1, <3>1, SameTidy, SameInStep
    <2>3. CASE row.id = i
        <3>1. \A k \in DOMAIN inbox[j] : inbox[j][k] # "activated"
            BY <1>7, <2>1, <2>3 DEF Tidy
        <3> QED
            BY <1>1, <1>3, <1>6, <1>7, <2>1, <2>3, <3>1 DEF Tidy, Reported, Billing
    <2> QED
        BY <2>2, <2>3
<1>8. Tidy(i)'
    <2>1. Tidy(i)
        BY DEF RowFollows
    <2>2. \A k \in DOMAIN inbox'[i] :
             /\ inbox'[i][k] # "activated"
             /\ inbox'[i][k] = "completed" => k = Len(inbox'[i])
        <3> SUFFICES ASSUME NEW k \in DOMAIN inbox'[i]
                     PROVE  /\ inbox'[i][k] # "activated"
                            /\ inbox'[i][k] = "completed" => k = Len(inbox'[i])
            OBVIOUS
        <3>1. k + 1 \in DOMAIN inbox[i] /\ inbox'[i][k] = inbox[i][k + 1] /\ k + 1 # 1 /\ k \in Nat
            BY <1>3
        <3>2. /\ inbox[i][k + 1] # "activated"
              /\ inbox[i][k + 1] = "completed" => k + 1 = Len(inbox[i])
            BY <2>1, <3>1 DEF Tidy
        <3> QED
            BY <1>3, <3>1, <3>2
    <2>3. /\ i # row'.id => ~Billing(i)'
          /\ \A f \in Kinds : Reported(i, f)' /\ f # "cancelled" => rz'[i].paid > 0
          /\ Reported(i, "halted")' => rz'[i].state \in {"halted", "cancelled"}
        BY <1>1, <1>3, <1>6, <2>1 DEF Tidy, Billing
    <2> QED
        BY <1>1, <2>1, <2>2, <2>3 DEF Tidy
<1>9. ASSUME row.id = i
      PROVE  InStep(i)'
    <2>1. InStep(i) /\ Tidy(i)
        BY <1>9 DEF RowFollows
    <2>2. /\ row.status \in AnyStatus /\ rz[i].state \in RzStates \ {"none"}
          /\ row.status = "cancelled" => Dead(i)
          /\ row.status = "halted" => rz[i].state \in {"halted", "cancelled"}
        BY <1>9, RowOfState
    <2>3. /\ e # "cancelled" => rz[i].paid > 0
          /\ e = "halted" => rz[i].state \in {"halted", "cancelled"}
          /\ e = "cancelled" => rz[i].state = "cancelled"
          /\ e = "completed" => rz[i].state = "completed" /\ Len(inbox[i]) = 1
          /\ e = "activated" => Unpaid(row)
        BY <1>3, <2>1 DEF Tidy, EndsAreReal
    <2>4. rz[i].paid > 0 /\ row.per = 0 => e = "activated"
        BY <1>3, <2>1 DEF InStep
    <2>5. /\ e = "activated" => row'.status = "active" /\ row'.per > 0
          /\ e = "charged" /\ row.status # "cancelled" => row'.status = "active"
          /\ e = "charged" /\ row.status = "cancelled" => row'.status = "cancelled"
          /\ e = "completed" => row'.status = IF row.status = "active" THEN "cancelled"
                                                                       ELSE row.status
          /\ e = "halted" => row'.status = "halted"
          /\ e = "cancelled" => row'.status = "cancelled"
          /\ e = "pending" => row'.status = IF row.status = "active" THEN "pending"
                                                                     ELSE row.status
          /\ e # "activated" => row'.per = row.per
        <3>1. \A from, to : Moved(i, e, from, to) =>
                 /\ row'.status = IF row.status \in from THEN to ELSE row.status
                 /\ row'.per = row.per
            BY <1>9 DEF Moved
        <3>2. e = "charged" => ~Unpaid(row)
            BY <2>3, <2>4 DEF Unpaid
        <3>3. CASE e = "activated"
            BY <1>1, <1>4, <1>9, <2>3, <3>3, WebhookFacts DEF Moved, Promoted, Unpaid
        <3>4. CASE e = "charged"
            BY <1>1, <1>4, <1>9, <3>2, <3>4, WebhookFacts DEF Moved, Renewed
        <3>5. CASE e \notin {"activated", "charged"}
            <4>1. \/ e = "completed" /\ Moved(i, e, {"active"}, "cancelled")
                  \/ e = "halted" /\ Moved(i, e, AnyStatus, "halted")
                  \/ e = "cancelled" /\ Moved(i, e, AnyStatus, "cancelled")
                  \/ e = "pending" /\ Moved(i, e, {"active"}, "pending")
                BY <1>1, <1>4, <3>5, WebhookFacts DEF Moved
            <4> QED
                BY <2>2, <3>1, <4>1
        <3> QED
            BY <3>3, <3>4, <3>5
    <2>6. rz[i].paid > 0 => row'.per # 0
        BY <2>4, <2>5
    <2>7. row'.status = "halted" => rz[i].state \in {"halted", "cancelled"} /\ rz[i].paid > 0
        BY <1>2, <2>1, <2>2, <2>3, <2>5 DEF InStep, Kinds
    <2>8. "crash" \notin Events /\ rz[i].state = "cancelled" /\ ~(rz[i].paid > 0) =>
             row'.status = "cancelled"
        BY <2>3, <2>5
    <2>9. rz[i].state # "created"
        BY <1>5, <2>1 DEF InStep, Settles
    <2>10. ASSUME inbox'[i] = <<>>
           PROVE  /\ rz[i].state = "active" => row'.status = "active"
                  /\ rz[i].state = "retrying" => row'.status = "pending"
                  /\ rz[i].state = "halted" => row'.status = "halted"
                  /\ Dead(i) => row'.status = "cancelled"
        <3>1. Len(inbox[i]) = 1 /\ Tells(e, rz[i].state)
            BY <1>3, <1>5, <2>1, <2>10 DEF InStep, Settles
        <3>2. rz[i].state = "completed" => row.status = "active"
            BY <1>5, <2>1, <3>1 DEF InStep, Settles
        <3> QED
            BY <2>2, <2>5, <3>1, <3>2 DEF Tells, Dead, AnyStatus
    <2>11. ASSUME inbox'[i] # <<>>
           PROVE  /\ Tells(inbox'[i][Len(inbox'[i])], rz[i].state)
                  /\ rz[i].state = "completed" =>
                        /\ row'.status \notin {"cancelled", "halted"}
                        /\ Len(inbox'[i]) = 1 => row'.status = "active"
                        /\ Len(inbox'[i]) > 1 => inbox'[i][Len(inbox'[i]) - 1] = "charged"
        <3>1. Len(inbox[i]) > 1 /\ Len(inbox[i]) - 1 \in 1 .. Len(inbox[i]) - 1
            BY <1>3, <2>11
        <3>2. inbox'[i][Len(inbox'[i])] = inbox[i][Len(inbox[i])]
            BY <1>3, <3>1
        <3>3. Tells(inbox'[i][Len(inbox'[i])], rz[i].state)
            BY <1>5, <2>1, <3>2 DEF InStep, Settles
        <3>4. ASSUME rz[i].state = "completed"
              PROVE  /\ row'.status \notin {"cancelled", "halted"}
                     /\ Len(inbox'[i]) = 1 => row'.status = "active"
                     /\ Len(inbox'[i]) > 1 => inbox'[i][Len(inbox'[i]) - 1] = "charged"
            <4>1. row.status \notin {"cancelled",
               "halted"} /\ inbox[i][Len(inbox[i]) - 1] = "charged"
                BY <1>5, <2>1, <3>1, <3>4 DEF InStep, Settles
            <4>2. e \in {"activated", "charged", "pending"}
                <5>1. e # "completed"
                    BY <1>3, <2>3, <3>1
                <5>2. e \notin {"halted", "cancelled"}
                    BY <2>3, <3>4
                <5> QED
                    BY <1>2, <5>1, <5>2 DEF Kinds
            <4>3. row'.status \notin {"cancelled", "halted"}
                BY <2>5, <4>1, <4>2
            <4>4. Len(inbox'[i]) = 1 => e = "charged"
                BY <1>3, <4>1
            <4>5. Len(inbox'[i]) > 1 => inbox'[i][Len(inbox'[i]) - 1] = inbox[i][Len(inbox[i]) - 1]
                BY <1>3
            <4> QED
                BY <2>5, <4>1, <4>3, <4>4, <4>5
        <3> QED
            BY <3>3, <3>4
    <2>12. Settles(i)'
        BY <1>1, <2>9, <2>10, <2>11 DEF Settles, Dead
    <2>13. ~(rz[i].paid > 0) => rz[i].paid = 0
        BY DEF Types, RzType
    <2> QED
        BY <1>1, <2>6, <2>7, <2>8, <2>12, <2>13 DEF InStep
<1> QED
    BY <1>6, <1>7, <1>8, <1>9 DEF RowFollows

\* So does every step.
LEMMA RowFollowsStep ==
    ASSUME Types, SessionsAreFresh, EndsAreReal, RowFollows, DropsReplaced, Orderly,
           [Next]_vars
    PROVE  RowFollows'
<1>1. CASE Calm
    <2>1. \A j \in Ids : SameFor(j)
        BY <1>1 DEF Calm, SameRow, SameFor
    <2> QED
        BY <1>1, <2>1, SameTidy, SameInStep DEF RowFollows, Calm, SameRow
<1>2. ~DeleteStale
    BY DEF DeleteStale, DropsReplaced
<1> QED
    BY <1>1, <1>2, CheckoutFollows, CancelFollows, RazorpayFollows, WebhookFollows, StepsThatMatter

\* The calls that are about to drop a checkout drop a replaced one.
LEMMA DropsReplacedStep ==
    ASSUME Types, SessionsAreFresh, RowFollows, DropsReplaced, Orderly, [Next]_vars
    PROVE  DropsReplaced'
<1>0. call \in [Callers -> CallType] /\ \A c \in Callers : Known(call[c].drop)
    BY DEF Types, KnownCall
<1>1. ASSUME NEW c \in Callers, CallStep(c)
      PROVE  DropsReplaced'
    <2>0. worker' # "cleaning"
        BY <1>1, FreshCheckout, CancelStepFacts DEF DropsReplaced, CallStep, CancelStep, Ask,
           Switch,
           CheckoutLeavesRow, MoveLeftover, Die
    <2>1. CASE Checkout(c)
        <3>1. /\ row'.id # row.id /\ row'.id \in Ids /\ rz[row'.id].state = "none"
              /\ \E k : /\ call' = [call EXCEPT ![c] = k]
                        /\ k.at = "dropping" => k.drop = row.id
            BY <2>1, FreshCheckout
        <3> QED
            BY <1>0, <2>0, <3>1 DEF DropsReplaced, Known
    <2>2. ASSUME NEW k, call' = [call EXCEPT ![c] = k], k.at # "dropping", row'.id = row.id
          PROVE  DropsReplaced'
        BY <1>0, <2>0, <2>2 DEF DropsReplaced
    <2>3. CASE CancelStep(c)
        <3>1. PICK k : call' = [call EXCEPT ![c] = k] /\ k.at \in {"idle", "moving"}
            BY <2>3, CancelStepFacts
        <3> QED
            BY <2>2, <2>3, <3>1, CancelStepFacts
    <2>4. ASSUME NEW where \in {"cancelling", "checkingOut"}, CallAt(c, where), UNCHANGED row
          PROVE  DropsReplaced'
        <3> DEFINE k == [call[c] EXCEPT !.at = where, !.seen = NotRead]
        <3>1. call' = [call EXCEPT ![c] = k]
            BY <2>4 DEF CallAt
        <3>2. k.at = where
            BY <1>0 DEF CallType
        <3> HIDE DEF k
        <3> QED
            BY <2>2, <2>4, <3>1, <3>2
    <2>5. CASE Return(c) /\ UNCHANGED row
        <3>1. Idle.at = "idle"
            BY DEF Idle
        <3> QED
            BY <2>2, <2>5, <3>1 DEF Return
    <2>6. CASE Ask(c)
        <3>1. ASSUME NEW p \in Plans,
                     call' = [call EXCEPT ![c] = [Idle EXCEPT !.at = "checkingOut", !.plan = p]]
              PROVE  DropsReplaced'
            <4> DEFINE k == [Idle EXCEPT !.at = "checkingOut", !.plan = p]
            <4>1. k.at = "checkingOut"
                BY DEF Idle
            <4> HIDE DEF k
            <4> QED
                BY <2>2, <2>6, <3>1, <4>1 DEF k, Ask
        <3> QED
            BY <2>4, <2>6, <3>1 DEF Ask
    <2>7. CASE Switch(c)
        <3>1. PICK k : call' = [call EXCEPT ![c] = k] /\ k.at # "dropping"
            <4>1. PICK p \in Plans, at \in {"checkingOut", "cancelling"},
                       seen \in {IF row = Absent THEN NotRead ELSE row} :
                     call' = [call EXCEPT ![c] = [at |-> at, plan |-> p, drop |-> NoId,
                        seen |-> seen]]
                BY <2>7 DEF Switch
            <4> DEFINE k == [at |-> at, plan |-> p, drop |-> NoId, seen |-> seen]
            <4>2. call' = [call EXCEPT ![c] = k] /\ k.at # "dropping"
                BY <4>1
            <4> HIDE DEF k
            <4> QED
                BY <4>2
        <3> QED
            BY <2>2, <2>7, <3>1 DEF Switch
    <2> QED
        BY <1>1, <2>1, <2>3, <2>4, <2>5, <2>6, <2>7 DEF CallStep, CancelStep, CheckoutLeavesRow,
           MoveLeftover, Die
<1>2. ASSUME UNCHANGED call, row'.id = row.id, worker' # "cleaning"
      PROVE  DropsReplaced'
    BY <1>2 DEF DropsReplaced
<1>3. ASSUME NEW i \in Ids, WebhookStep(i) \/ RazorpayStep(i)
      PROVE  DropsReplaced'
    <2>1. UNCHANGED <<call, worker>>
        BY <1>3, WebhookFacts, RazorpayFacts
    <2>2. row'.id = row.id
        <3>1. Takes(i, "activated") => row.id = i
            BY ReceivedFacts DEF RowFollows, Tidy, Reported
        <3> QED
            BY <1>3, <3>1, WebhookFacts, RazorpayFacts DEF Moved, Promoted, Renewed, RowFollows
    <2> QED
        BY <1>2, <2>1, <2>2 DEF DropsReplaced
<1>4. CASE CronStep \/ Spend \/ Tick \/ RowGetsOld \/ UNCHANGED vars
    <2>1. UNCHANGED call /\ worker' # "cleaning"
        BY <1>4, OrderlyFacts DEF CronStep, RefillDue, SelectLapsed, Lapse, SelectStale,
           DeleteStale,
           Spend, Tick, RowGetsOld, vars, DropsReplaced
    <2>2. row'.id = row.id
        BY <1>4, OrderlyFacts DEF CronStep, RefillDue, SelectLapsed, Lapse, SelectStale,
           DeleteStale,
           Spend, Tick, RowGetsOld, vars, DropsReplaced, Types, RowType
    <2> QED
        BY <1>2, <2>1, <2>2
<1> QED
    BY <1>1, <1>3, <1>4 DEF Next

\* What keeps a loaded row good enough to act on.
KeepsSessions ==
    /\ row'.id = row.id /\ row'.plan = row.plan
    /\ row.id \in Ids =>
          /\ Unpaid(row) \/ rz[row.id].paid > 0 => Unpaid(row') \/ rz'[row.id].paid > 0
          /\ rz[row.id].state \in {"cancelled", "completed"} =>
                rz'[row.id].state \in {"cancelled", "completed"}
    /\ ~Unpaid(row) => ~Unpaid(row')

\* A session stays fresh while the row and its plan stay what it read.
LEMMA SessionKept ==
    ASSUME NEW k, FreshSession(k), KeepsSessions, row.id \in Ids
    PROVE  FreshSession(k)'
BY DEF FreshSession, KeepsSessions, Dead

\* Razorpay and its webhooks keep it, as long as no cancel is under way.
LEMMA WebhooksKeepSessions ==
    ASSUME Types, PaidFor, PlanIsKept, EndsAreReal, RowFollows, Orderly,
           "crash" \notin Events, NEW i \in Ids, WebhookStep(i) \/ RazorpayStep(i)
    PROVE  KeepsSessions
<1>1. CASE RazorpayStep(i)
    <2>1. UNCHANGED row /\ OnlyChanges(i) /\ ~Dead(i) /\ rz[i].paid \in Nat
          /\ (rz'[i].paid = rz[i].paid \/ rz'[i].paid = rz[i].paid + 1)
        BY <1>1, RazorpayFacts DEF Becomes, Dead, Types, RzType
    <2>2. rz[i].paid > 0 => rz'[i].paid > 0
        BY <2>1
    <2> QED
        BY <2>1, <2>2 DEF KeepsSessions, OnlyChanges, Dead
<1>2. CASE WebhookStep(i)
    <2>0. Tidy(i) /\ (row.id = i => InStep(i)) /\ activating = {}
        BY DEF RowFollows
    <2>1. \A e : Takes(i, e) => Reported(i, e)
        BY ReceivedFacts
    <2>2. Takes(i, "activated") => row.id = i
        BY <2>0, <2>1 DEF Tidy, Reported
    <2>3. UNCHANGED rz /\ row'.id = row.id /\ row'.plan = row.plan
        BY <1>2, <2>0, <2>2, WebhookFacts DEF Moved, Promoted, Renewed, PlanIsKept
    <2>4. CASE row.id # i
        <3>1. row'.status = row.status /\ row'.per = row.per
            BY <1>2, <2>0, <2>2, <2>4, WebhookFacts DEF Moved, Promoted, Renewed
        <3> QED
            BY <2>3, <3>1 DEF KeepsSessions, Unpaid
    <2>5. CASE row.id = i
        <3>1. ASSUME Unpaid(row), ~(rz[i].paid > 0)
              PROVE  FALSE
            <4>1. \A e \in Kinds : Takes(i, e) => e = "cancelled"
                BY <2>0, <2>1, <3>1 DEF Tidy
            <4>2. Takes(i, "cancelled")
                BY <1>2, <2>0, <4>1, WebhookFacts DEF Moved, Kinds
            <4>3. rz[i].state = "cancelled"
                BY <2>1, <4>2 DEF EndsAreReal
            <4>4. rz[i].paid = 0
                BY <3>1 DEF Types, RzType
            <4> QED
                BY <2>0, <2>5, <3>1, <4>3, <4>4 DEF InStep, Unpaid
        <3>2. ASSUME ~Unpaid(row)
              PROVE  ~Unpaid(row')
            <4>1. row.status = "active" => row.per # 0
                BY <2>0, <2>5, <3>2 DEF PaidFor, InStep
            <4>2. row'.status = "pending" => row.status \in {"active", "pending"} /\ row'.per = row.per
                BY <1>2, <2>0, WebhookFacts DEF Moved, Promoted, Renewed
            <4> QED
                BY <3>2, <4>1, <4>2 DEF Unpaid
        <3> QED
            BY <2>3, <2>5, <3>1, <3>2 DEF KeepsSessions
    <2> QED
        BY <2>4, <2>5
<1> QED
    BY <1>1, <1>2

\* A plan is switched by one owner at a time, while nothing goes wrong outside
\* and no process dies: a session that is stale when the switch checks out
\* loses what others wrote to the row in between.  A team that never switches
\* is careful whatever happens.
Careful ==
    "switch" \in Events => /\ Orderly /\ "crash" \notin Events
                           /\ \A c, d \in Callers : c = d

\* With one caller and no crash, every step keeps the sessions fresh.
LEMMA SessionsStep ==
    ASSUME Types, SessionsAreFresh, PaidFor, PlanIsKept, EndsAreReal, RowFollows, DropsReplaced,
           "switch" \in Events, Careful, [Next]_vars
    PROVE  SessionsAreFresh'
<1>0. /\ Orderly /\ "crash" \notin Events /\ \A c, d \in Callers : c = d
      /\ call \in [Callers -> CallType]
    BY DEF Careful, Types
<1>1. ASSUME NEW c \in Callers, CallStep(c)
      PROVE  SessionsAreFresh'
    <2>1. ASSUME NEW k, call' = [call EXCEPT ![c] = k], k.seen = NotRead
          PROVE  SessionsAreFresh'
        BY <1>0, <2>1 DEF SessionsAreFresh
    <2>2. CASE Checkout(c)
        <3>1. PICK k : call' = [call EXCEPT ![c] = k] /\ k.seen = NotRead
            BY <2>2, FreshCheckout
        <3> QED
            BY <2>1, <3>1
    <2>3. CASE CancelStep(c)
        <3>1. PICK k : call' = [call EXCEPT ![c] = k] /\ k.seen = NotRead
            BY <2>3, CancelStepFacts
        <3> QED
            BY <2>1, <3>1
    <2>4. ASSUME NEW where, CallAt(c, where)
          PROVE  SessionsAreFresh'
        <3> DEFINE k == [call[c] EXCEPT !.at = where, !.seen = NotRead]
        <3>1. call' = [call EXCEPT ![c] = k]
            BY <2>4 DEF CallAt
        <3>2. k.seen = NotRead
            BY <1>0 DEF CallType
        <3> HIDE DEF k
        <3> QED
            BY <2>1, <3>1, <3>2
    <2>5. CASE Return(c)
        <3>1. Idle.seen = NotRead
            BY DEF Idle
        <3> QED
            BY <2>1, <2>5, <3>1 DEF Return
    <2>6. CASE Ask(c)
        <3>1. ASSUME NEW p \in Plans,
                     call' = [call EXCEPT ![c] = [Idle EXCEPT !.at = "checkingOut", !.plan = p]]
              PROVE  SessionsAreFresh'
            <4> DEFINE k == [Idle EXCEPT !.at = "checkingOut", !.plan = p]
            <4>1. k.seen = NotRead
                BY DEF Idle
            <4> HIDE DEF k
            <4> QED
                BY <2>1, <3>1, <4>1 DEF k
        <3> QED
            BY <2>4, <2>6, <3>1 DEF Ask
    <2>7. CASE Switch(c)
        <3>1. PICK p \in Plans, at \in {IF Unpaid(row) THEN "checkingOut" ELSE "cancelling"},
                   seen \in {IF row = Absent THEN NotRead ELSE row} :
                 call' = [call EXCEPT ![c] = [at |-> at, plan |-> p, drop |-> NoId, seen |-> seen]]
            BY <2>7 DEF Switch
        <3> DEFINE k == [at |-> at, plan |-> p, drop |-> NoId, seen |-> seen]
        <3>2. call'[c] = k /\ k.seen = seen /\ k.at = at
            BY <1>0, <3>1
        <3>3. UNCHANGED <<row, rz>>
            BY <2>7 DEF Switch
        <3> HIDE DEF k
        <3>4. ASSUME k.seen # NotRead
              PROVE  FreshSession(k)'
            <4>1. k.seen = row
                BY <3>1, <3>2, <3>4
            <4>2. row.status = "cancelled" => Dead(row.id)
                BY DEF EndsAreReal
            <4> QED
                BY <1>0, <3>1, <3>2, <3>3, <4>1, <4>2, OrderlyFacts DEF FreshSession, Dead
        <3> QED
            BY <1>0, <3>2, <3>4 DEF SessionsAreFresh
    <2> QED
        BY <1>1, <2>2, <2>3, <2>4, <2>5, <2>6, <2>7 DEF CallStep, CancelStep, CheckoutLeavesRow,
           MoveLeftover, Die
<1>2. ASSUME UNCHANGED call, KeepsSessions
      PROVE  SessionsAreFresh'
    <2> SUFFICES ASSUME NEW c \in Callers, call'[c].seen # NotRead
                 PROVE  FreshSession(call[c])'
        BY DEF SessionsAreFresh
    <2>1. PICK k : k = call[c] /\ k = call'[c]
        BY <1>2
    <2>2. FreshSession(k) /\ row.id \in Ids
        BY <2>1, SubscriptionsAssumption DEF SessionsAreFresh, Types, RowType
    <2>3. FreshSession(k)'
        BY <1>2, <2>2, SessionKept
    <2> QED
        BY <2>1, <2>3
<1>3. ASSUME NEW i \in Ids, WebhookStep(i) \/ RazorpayStep(i)
      PROVE  SessionsAreFresh'
    <2>1. UNCHANGED call
        BY <1>3, WebhookFacts, RazorpayFacts
    <2> QED
        BY <1>0, <1>2, <1>3, <2>1, WebhooksKeepSessions
<1>4. CASE CronStep \/ Spend \/ Tick \/ RowGetsOld \/ UNCHANGED vars
    <2>1. UNCHANGED <<call, rz>>
        BY <1>4, OrderlyFacts DEF CronStep, RefillDue, SelectLapsed, Lapse, SelectStale,
           DeleteStale,
           Spend, Tick, RowGetsOld, vars, DropsReplaced
    <2>2. row'.id = row.id /\ row'.plan = row.plan /\ row'.status = row.status /\ row'.per = row.per
        BY <1>4, OrderlyFacts DEF CronStep, RefillDue, SelectLapsed, Lapse, SelectStale,
           DeleteStale,
           Spend, Tick, RowGetsOld, vars, DropsReplaced, Types, RowType
    <2>3. KeepsSessions
        BY <2>1, <2>2 DEF KeepsSessions, Unpaid
    <2> QED
        BY <1>2, <2>1, <2>3
<1> QED
    BY <1>1, <1>3, <1>4 DEF Next

NoSession == \A c \in Callers : call[c].seen = NotRead

\* What holds of the row and the sessions whatever goes wrong outside,
Sound ==
    /\ Types /\ SessionsAreFresh /\ PaidFor /\ PlanIsKept
    /\ "switch" \notin Events => NoSession

\* and what holds when nothing does.
InOrderSound == Sound /\ EndsAreReal /\ RowFollows /\ DropsReplaced

\* The first state is sound,
LEMMA SoundAtFirst ==
    ASSUME Init
    PROVE  InOrderSound
<1>1. /\ Types /\ row.status = "none" /\ row.id = NoId /\ NoId \notin Ids
      /\ activating = {} /\ worker = "idle"
    BY TypesAtFirst, SubscriptionsAssumption DEF Init, Absent, NoId, Ids
<1>2. \A c \in Callers : call[c].seen = NotRead /\ call[c].at = "idle"
    BY DEF Init, Idle
<1>3. \A i \in Ids : rz[i].state = "none" /\ inbox[i] = <<>> /\ rz[i].paid = 0
    BY DEF Init
<1>4. \A i \in Ids : \A e : ~Reported(i, e)
    BY <1>3 DEF Reported
<1>5. \A i \in Ids : Tidy(i)
    BY <1>3, <1>4 DEF Tidy, Billing
<1> QED
    BY <1>1, <1>2, <1>4, <1>5 DEF InOrderSound, Sound, SessionsAreFresh, NoSession, PaidFor,
       PlanIsKept,
       EndsAreReal, RowFollows, DropsReplaced

\* Without switches the sessions are no matter.
LEMMA SoundWithoutSwitches ==
    ASSUME "switch" \notin Events
    PROVE  Spec => []Sound
<1>1. Sound /\ [Next]_vars => Sound'
    <2> SUFFICES ASSUME Sound, [Next]_vars PROVE Sound'
        OBVIOUS
    <2>1. Types' /\ PaidFor' /\ PlanIsKept'
        BY TypesStep, PaidForStep, PlanIsKeptStep DEF Sound
    <2>2. NoSession'
        BY NoSessions DEF Sound, NoSession
    <2>3. SessionsAreFresh'
        BY <2>2 DEF NoSession, SessionsAreFresh
    <2> QED
        BY <2>1, <2>2, <2>3 DEF Sound
<1> QED
    BY <1>1, SoundAtFirst, PTL DEF Spec, InOrderSound

\* every state is, when nothing goes wrong outside,
LEMMA SoundInOrder ==
    ASSUME Careful, Orderly
    PROVE  Spec => []InOrderSound
<1>1. InOrderSound /\ [Next]_vars => InOrderSound'
    <2> SUFFICES ASSUME InOrderSound, [Next]_vars PROVE InOrderSound'
        OBVIOUS
    <2>1. Types' /\ PaidFor' /\ PlanIsKept'
        BY TypesStep, PaidForStep, PlanIsKeptStep DEF InOrderSound, Sound
    <2>2. EndsAreReal' /\ RowFollows' /\ DropsReplaced'
        BY EndsAreRealStep, RowFollowsStep, DropsReplacedStep, OrderlyFacts DEF InOrderSound, Sound
    <2>3. CASE "switch" \in Events
        BY <2>1, <2>2, <2>3, SessionsStep DEF InOrderSound, Sound
    <2>4. CASE "switch" \notin Events
        <3>1. NoSession'
            BY <2>4, NoSessions DEF InOrderSound, Sound, NoSession
        <3>2. SessionsAreFresh'
            BY <3>1 DEF NoSession, SessionsAreFresh
        <3> QED
            BY <2>1, <2>2, <3>1, <3>2 DEF InOrderSound, Sound
    <2> QED
        BY <2>3, <2>4
<1> QED
    BY <1>1, SoundAtFirst, PTL DEF Spec

\* and, without a switch, when something does.
LEMMA SoundAlways ==
    ASSUME Careful
    PROVE  Spec => []Sound
<1>1. CASE "switch" \notin Events
    BY <1>1, SoundWithoutSwitches
<1>2. CASE "switch" \in Events
    <2>1. Orderly
        BY <1>2 DEF Careful
    <2>2. Spec => []InOrderSound
        BY <2>1, SoundInOrder
    <2>3. InOrderSound => Sound
        BY DEF InOrderSound
    <2> QED
        BY <2>2, <2>3, PTL
<1> QED
    BY <1>1, <1>2

\* The row, the calls and Razorpay's subscriptions keep their types, and the
\* row names a subscription Razorpay knows, with the plan it charges for,
\* whatever fails outside while no plan is switched.
THEOREM RowIsTyped ==
    ASSUME Careful
    PROVE  Spec => []TypeOK
<1>1. Sound => TypeOK
    <2> SUFFICES ASSUME Sound PROVE TypeOK
        OBVIOUS
    <2>1. row.id # NoId => rz[row.id].state # "none" /\ rz[row.id].plan = row.plan
        BY DEF Sound, Types, PlanIsKept, Known, RowType
    <2> QED
        BY <2>1 DEF Sound, Types, TypeOK
<1> QED
    BY <1>1, SoundAlways, PTL

\* A row that refills has been paid for at least once, whatever fails outside
\* while no plan is switched, in whatever order and however often the webhooks
\* come.
THEOREM RowWasPaid ==
    ASSUME Careful
    PROVE  Spec => []ActiveWasPaid
<1>1. Sound => ActiveWasPaid
    BY DEF Sound, PaidFor, ActiveWasPaid
<1> QED
    BY <1>1, SoundAlways, PTL

\* While calls to Razorpay do not fail, a row that shows "cancelled" names a
\* subscription that charges nobody, also when, without a switch, processes
\* die in between and webhooks come late, twice or out of order.
THEOREM CancelledRowIsNotBilled ==
    ASSUME Careful, "razorpayFails" \notin Events
    PROVE  Spec => []CancelledIsNotBilled
<1>1. Sound /\ EndsAreReal /\ [Next]_vars => EndsAreReal'
    BY EndsAreRealStep DEF Sound, CanFail
<1>2. Init => EndsAreReal
    BY SoundAtFirst DEF InOrderSound
<1>3. EndsAreReal => CancelledIsNotBilled
    BY DEF EndsAreReal, CancelledIsNotBilled, Billing, Dead
<1> QED
    BY <1>1, <1>2, <1>3, SoundAlways, PTL DEF Spec

\* A team is billed for nothing but the subscription on its row, as long as
\* webhooks come in order and once, calls to Razorpay succeed, and a checkout
\* is replaced only before it is paid.
THEOREM TeamIsBilledForItsRow ==
    ASSUME Careful, Orderly
    PROVE  Spec => []OneBilled
<1>1. InOrderSound => OneBilled
    BY DEF InOrderSound, RowFollows, Tidy, OneBilled
<1> QED
    BY <1>1, SoundInOrder, PTL

\* Under the same conditions the row stands where Razorpay does when all
\* webhooks are answered, also when, without a switch, processes have died
\* inside a cancel.
THEOREM RowStandsWhereRazorpayDoes ==
    ASSUME Careful, Orderly
    PROVE  Spec => []AgreesWithRazorpay
<1>1. InOrderSound => AgreesWithRazorpay
    <2> SUFFICES ASSUME InOrderSound, Quiet, row.id # NoId
                 PROVE  row.status \in ServedAs(rz[row.id].state)
        BY DEF AgreesWithRazorpay
    <2>1. PICK i \in Ids : i = row.id
        BY DEF InOrderSound, Sound, Types, RowType
    <2>2. Settles(i) /\ inbox[i] = <<>> /\ rz[i].state \in RzStates \ {"none"}
        BY <2>1, RowOfState DEF InOrderSound, Sound, RowFollows, InStep, Quiet
    <2>3. row.status \in ServedAs(rz[i].state)
        BY <2>2 DEF Settles, ServedAs, Unpaid, Dead, RzStates
    <2> QED
        BY <2>1, <2>3
<1> QED
    BY <1>1, SoundInOrder, PTL
=============================================================================

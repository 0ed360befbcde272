CONSTANTS
    ann = ann
    bob = bob
    cid = cid
    dan = dan
    Nobody = Nobody
    q1 = q1
    q2 = q2
    p1 = p1
    p2 = p2
    d1 = d1
    d2 = d2
    Users = {ann, bob, cid, dan}
    FirstOwners = {ann, bob}
    MaxMembers = 3
    RolesGiven = {"editor"}
    MaxInvites = 2
    Requests = {q1, q2}
    Payments = {p1, p2}
    Mispriced = {p2}
    Deliveries = {d1, d2}
    PackCredits = 2
    MaxSpent = 1
    Events = {"members", "deletion", "expiry"}
SPECIFICATION Spec
CONSTRAINT FewThings
SYMMETRY Interchangeable
INVARIANTS
    TypeOK
    MemberCap
    OneInviteEach
    PaymentsAddUp
PROPERTY PurgedPastGrace
CHECK_DEADLOCK FALSE

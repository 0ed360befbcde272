CONSTANTS
    ann = ann
    bob = bob
    cid = cid
    dan = dan
    Nobody = Nobody
    q1 = q1
    q2 = q2
    p1 = p1
    p2 = p2
    d1 = d1
    d2 = d2
    Users = {ann, bob}
    FirstOwners = {ann, bob}
    MaxMembers = 3
    RolesGiven = {"editor"}
    MaxInvites = 0
    Requests = {q1}
    Payments = {p1, p2}
    Mispriced = {}
    Deliveries = {d1, d2}
    PackCredits = 2
    MaxSpent = 2
    Events = {"deletion"}
SPECIFICATION Spec
INVARIANT PaymentsAddUp
CHECK_DEADLOCK FALSE

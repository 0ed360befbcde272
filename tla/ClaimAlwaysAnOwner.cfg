CONSTANTS
    ann = ann
    bob = bob
    cid = cid
    dan = dan
    Nobody = Nobody
    q1 = q1
    q2 = q2
    p1 = p1
    p2 = p2
    d1 = d1
    d2 = d2
    Users = {ann, bob}
    FirstOwners = {ann, bob}
    MaxMembers = 3
    RolesGiven = {"editor", "owner"}
    MaxInvites = 1
    Requests = {q1, q2}
    Payments = {}
    Mispriced = {}
    Deliveries = {}
    PackCredits = 2
    MaxSpent = 0
    Events = {"members"}
SPECIFICATION Spec
INVARIANT AlwaysAnOwner
CHECK_DEADLOCK FALSE

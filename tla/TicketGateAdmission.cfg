SPECIFICATION FairSpec
CONSTANTS
    g1 = g1
    g2 = g2
    r1 = r1
    r2 = r2
    t1 = t1
    NoTicket = NoTicket
    NoGateway = NoGateway
    Gateway = {g1, g2}
    Request = {r1, r2}
    Ticket = {t1}
    Expiry = {1, 2, 4, 9}
    MaxLifetime = 2
    Horizon = 3
    MaxFaults = 2
PROPERTIES EntriesLeave
INVARIANTS    EntriesBounded

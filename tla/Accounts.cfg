SPECIFICATION MCSpec
CONSTANTS
    Users = {u1}
    Requests = {r1, r2}
    Tokens = {t1, t2, t3}
    Tickets = {k1}
    Secrets = {s1, s2}
    CodesPerSecret = 2
    Default = l0
    Libraries = {l1}
    Invitations = {i1}
    None = None
    TicketTTL = 2
    ClaimTTL = 3
    Stall = 1
CHECK_DEADLOCK FALSE
SYMMETRY Symmetry
INVARIANTS
    AccountsInvariant
    OneSessionPerTicket
PROPERTIES
    RevokedStaysRevoked

SPECIFICATION UserApiSpec
CONSTANTS
    r1 = r1
    r2 = r2
    r3 = r3
    e1 = e1
    e2 = e2
    NoId = NoId
    NoEmail = NoEmail
    Requests = {r1, r2, r3}
    Ids = {1, 2, 3, 4}
    Emails = {e1, e2}
    HoldsLeave = {0}
    Queries <- MCQueries
    Earlier <- MCEarlier
    FaultLimit <- Once
INVARIANTS
    ServerTypeOK
    OneAccountPerEmail
    SomebodyWins
    ReplyCurrent
    CreateToldTruly
SYMMETRY CallSymmetry
CHECK_DEADLOCK FALSE

SPECIFICATION Spec
CONSTANTS
    u1 = u1
    u2 = u2
    u3 = u3
    u4 = u4
    i1 = i1
    i2 = i2
    c1 = c1
    c2 = c2
    NoUser = NoUser
    Users = {u2, u3}
    Invoices = {i1}
    Calls = {c1}
    Registered = {u2}
    Provider <- MCProvider
    Amount <- MCAmount
    Opening <- MCOpening
    FaultLimit <- OneUserCrash
    SerialFunds = TRUE
    StableGroup = TRUE
INVARIANTS
    RejectedNotHeld
CHECK_DEADLOCK FALSE

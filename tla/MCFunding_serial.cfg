SPECIFICATION Spec
CONSTANTS
    u1 = u1
    u2 = u2
    u3 = u3
    u4 = u4
    i1 = i1
    i2 = i2
    c1 = c1
    c2 = c2
    NoUser = NoUser
    Users = {u1, u2, u3}
    Invoices = {i1, i2}
    Calls = {c1, c2}
    Registered = {u1, u2}
    Provider <- MCProvider
    Amount <- MCAmount
    Opening <- MCOpening
    FaultLimit <- NoFaults
    SerialFunds = TRUE
    StableGroup = TRUE
INVARIANTS
    FundedPaid
    ChargedOnce
    NoStrandedHold
PROPERTIES
    FundedFinal
    ImplementsSaga
CHECK_DEADLOCK FALSE

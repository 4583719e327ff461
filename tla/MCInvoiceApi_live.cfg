SPECIFICATION FairApiSpec
CONSTANTS
    u1 = u1
    u2 = u2
    u3 = u3
    u4 = u4
    i1 = i1
    c1 = c1
    c2 = c2
    NoUser = NoUser
    Users = {u1, u2, u3, u4}
    Invoices = {i1}
    Calls = {c1}
    Requests <- MCRequests
    Registered = {u1, u2}
    Provider <- MCProvider
    Amount <- MCAmount
    Opening <- MCOpening
    FaultLimit <- Restart
    SerialFunds = FALSE
    StableGroup = TRUE
INVARIANTS
    ReadyBeforeWork
PROPERTIES
    FundingCompletes
    EveryCallAnswered
CHECK_DEADLOCK FALSE

SPECIFICATION Spec
CONSTANTS
    u1 = u1
    u2 = u2
    i1 = i1
    i2 = i2
    NoUser = NoUser
    Users = {u1, u2}
    Invoices = {i1}
    Registered = {u1}
    Provider <- MCProvider
    Amount <- MCAmount
    Opening <- MCOpening
    FaultLimit <- NoFaults
    NewBalances = {50}
    MaxUpdates = 1
    MaxInvoiceEvents = 3
PROPERTIES
    HoldSubtracts
CHECK_DEADLOCK FALSE

SPECIFICATION Spec
CONSTANTS
    u1 = u1
    u2 = u2
    i1 = i1
    i2 = i2
    NoUser = NoUser
    Users = {u1, u2}
    Invoices = {i1}
    Registered = {u1}
    Provider <- MCProvider
    Amount <- SubCentAmount
    Opening <- MCOpening
    FaultLimit <- NoFaults
    NewBalances = {}
    MaxUpdates = 0
    MaxInvoiceEvents = 3
INVARIANTS
    AtMostOneHold
CHECK_DEADLOCK FALSE

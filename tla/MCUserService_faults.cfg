SPECIFICATION Spec
CONSTANTS
    u1 = u1
    u2 = u2
    i1 = i1
    i2 = i2
    NoUser = NoUser
    Users = {u1, u2}
    Invoices = {i1}
    Registered = {u1}
    Provider <- MCProvider
    Amount <- MCAmount
    Opening <- MCOpening
    FaultLimit <- UserFaults
    NewBalances <- DebtOrOpening
    MaxUpdates = 1
    MaxInvoiceEvents = 3
INVARIANTS
    TypeOK
    AtMostOneHold
    ReservedBacked
    AnswerBeforeCommit
    Conservation
PROPERTIES
    CommittedMonotone
    OnlyUpdatesOverdraw
CHECK_DEADLOCK FALSE

\* One deposit and one withdrawal of the same size, two requests and two
\* webhook deliveries at once, one fault.
SPECIFICATION FairSpec
CONSTANTS
    alice = alice
    d1 = d1
    w1 = w1
    r1 = r1
    r2 = r2
    h1 = h1
    h2 = h2
    Customers = {alice}
    DepositKeys = {d1}
    WithdrawalKeys = {w1}
    Owner <- MCOwner
    Amount <- MCAmount
    Requests = {r1, r2}
    Deliveries = {h1, h2}
    MaxBusy = 2
    MaxFaults = 1
INVARIANTS
    RowsMatchLedger
    PayableIsLinked
PROPERTIES
    PromiseKept
    EventsHandled
CHECK_DEADLOCK FALSE

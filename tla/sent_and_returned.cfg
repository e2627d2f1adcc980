\* A withdrawal whose transfer was made and whose answer, or row update, was lost.
SPECIFICATION Spec
CONSTANTS
    alice = alice
    d1 = d1
    w1 = w1
    r1 = r1
    r2 = r2
    h1 = h1
    h2 = h2
    Customers = {alice}
    DepositKeys = {d1}
    WithdrawalKeys = {w1}
    Owner <- MCOwner
    Amount <- MCAmount
    Requests = {r1, r2}
    Deliveries = {h1, h2}
    MaxBusy = 2
    MaxFaults = 1
INVARIANTS
    ReversedMeansNotSent
CHECK_DEADLOCK FALSE

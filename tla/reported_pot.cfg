\* A decision that lands on a bet voided meanwhile.
SPECIFICATION Spec
CONSTANTS
    alice = alice
    bob = bob
    ref = ref
    rev = rev
    adm = adm
    m1 = m1
    m2 = m2
    demo = demo
    d1 = d1
    d2 = d2
    Null = Null
    Bets = {m1}
    Users = {alice, bob, ref, rev, adm}
    Players = {alice, bob}
    Referees = {ref}
    Reviewers = {ref, rev, adm}
    Admins = {adm}
    Disputes = {d1, d2}
    Stakes = {105}
    Opening = 110
    OpeningBalance <- MCOpeningBalance
    EscrowCap = 1000
    MaxSingleBet = 500
    FeeBp = 500
    RewardBp = 1000
    RevShareBp = 2000
    SeededBets = {}
    ScanBatch = 1
    MaxDeciding = 2
INVARIANTS
    ReportedBetsHoldPot
CHECK_DEADLOCK FALSE

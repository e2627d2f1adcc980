\* Two real bets and a demo row, two referees one of whom also plays, wallets
\* and an escrow cap too small for everything: bets compete.
SPECIFICATION Spec
CONSTANTS
    alice = alice
    bob = bob
    ref = ref
    rev = rev
    adm = adm
    m1 = m1
    m2 = m2
    d1 = d1
    d2 = d2
    demo = demo
    Null = Null
    Bets = {m1, m2, demo}
    Users = {alice, bob, ref, rev}
    Players = {alice, bob, ref}
    Referees = {ref, rev}
    Reviewers = {}
    Admins = {}
    Disputes = {}
    Stakes = {100, 105}
    Opening = 205
    OpeningBalance <- MCOpeningBalance
    EscrowCap = 410
    MaxSingleBet = 105
    FeeBp = 500
    RewardBp = 1000
    RevShareBp = 2000
    SeededBets = {demo}
    ScanBatch = 1
    MaxDeciding = 1
INVARIANTS
    OneActiveMatchPerReferee
    EscrowCounterExact
SYMMETRY BetSymmetry
CHECK_DEADLOCK FALSE

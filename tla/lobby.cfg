\* Ann and Cat both challenge Bob, and Ann also Cat; or Ann challenges Bob, Cat
\* challenges Ann, and Ann takes breaks; two requests at once.  When all is
\* answered the lobby stops.
SPECIFICATION SceneSpec
CONSTANTS
    ann = ann
    bob = bob
    cat = cat
    annToBob = annToBob
    catToBob = catToBob
    annToCat = annToCat
    catToAnn = catToAnn
    r1 = r1
    r2 = r2
    Players = {ann, bob, cat}
    Challenges = {annToBob, catToBob, annToCat, catToAnn}
    From <- MCFrom
    To <- MCTo
    Funds <- MCFunds
    MaxPerPair = 1
    Requests = {r1, r2}
    Leavers = {ann}
    Deadlines = 1
INVARIANTS
    OneOfRivals
PROPERTIES
    PromiseKept
    SweepEndsPlay
SYMMETRY RequestSymmetry
CHECK_DEADLOCK FALSE

\* Ann challenges Bob and Cat, at once or one after the other, and takes breaks
\* meanwhile; two requests at once, and time passes.
SPECIFICATION FairSpec
CONSTANTS
    ann = ann
    bob = bob
    cat = cat
    annToBob = annToBob
    catToBob = catToBob
    annToCat = annToCat
    catToAnn = catToAnn
    r1 = r1
    r2 = r2
    Players = {ann, bob, cat}
    Challenges = {annToBob, annToCat}
    From <- MCFrom
    To <- MCTo
    Funds <- MCFunds
    MaxPerPair = 1
    Requests = {r1, r2}
    Leavers = {ann}
    Deadlines = 2
PROPERTIES
    NothingStaysOpen

------------------------------ MODULE MCLobby ------------------------------
(* Instances of Lobby for TLC. *)
EXTENDS Lobby, TLC

CONSTANTS
    ann, bob, cat,                                  \* players
    annToBob, catToBob, annToCat, catToAnn,         \* challenges
    r1, r2                                          \* requests

Challenger == annToBob :> ann @@ catToBob :> cat @@ annToCat :> ann @@ catToAnn :> cat
Challenged == annToBob :> bob @@ catToBob :> bob @@ annToCat :> cat @@ catToAnn :> ann
MCFrom == [c \in Challenges |-> Challenger[c]]
MCTo == [c \in Challenges |-> Challenged[c]]

\* Ann can afford one match, the others two.
MCFunds == [p \in Players |-> IF p = ann THEN 1 ELSE 2]

RequestSymmetry == Permutations(Requests)
=============================================================================

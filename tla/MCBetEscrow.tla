---------------------------- MODULE MCBetEscrow ----------------------------
(***************************************************************************)
(* Instances of BetEscrow for TLC, and the properties that add balances up *)
(* over all wallets and bets.                                              *)
(***************************************************************************)
EXTENDS BetEscrow, FiniteSetsExt, TLC

CONSTANTS
    Opening,        \* what everyone's wallet holds at first
    alice, bob,     \* players
    ref, rev, adm,  \* a referee, a reviewer, an admin
    m1, m2, demo,   \* two bets and a demo row
    d1, d2          \* disputes

MCOpeningBalance == [u \in Users |-> Opening]

\* Dispute rows are alike, and so are the two players: who is player A is a
\* field of the bet.
BetSymmetry == Permutations({m1, m2}) \cup Permutations({alice, bob})
RowSymmetry == Permutations({d1, d2}) \cup Permutations({alice, bob})

Total(f) == MapThenSumSet(LAMBDA x : f[x], DOMAIN f)

\* Money is neither made nor lost: every wallet, every escrow account, the
\* platform and the developer always add up to what there was at first.
MoneyConserved ==
    Total(wallet) + Total(escrow) + revenue + devBalance = Total(OpeningBalance)

\* The developer's escrow counter, kept apart from the accounts and clamped at
\* zero, is always exactly what the escrow accounts hold: no path forgets to
\* give room back, and none gives it back twice.
EscrowCounterExact == currentEscrow = Total(escrow)
=============================================================================

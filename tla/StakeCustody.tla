---------------------------- MODULE StakeCustody ----------------------------
(***************************************************************************)
(* What PlayStake promises about the two stakes of a bet: they are taken   *)
(* together, held together, and leave together exactly once, either back   *)
(* to the players who put them up or divided between a winner (or both     *)
(* players, on a draw) and the house.  Nothing happens after that.         *)
(***************************************************************************)
EXTENDS Integers

CONSTANT Bets

VARIABLES
    custody,    \* where the stakes of a bet are
    stake,      \* what each player put up
    share       \* what each side, and the house, has had out of the pot

custodyVars == <<custody, stake, share>>

Nothing == [A |-> 0, B |-> 0, house |-> 0]

Init ==
    /\ custody = [b \in Bets |-> "none"]
    /\ stake \in [Bets -> Nat]
    /\ share = [b \in Bets |-> Nothing]

\* Both stakes are taken in one step.
Hold(b) ==
    /\ custody[b] = "none"
    /\ custody' = [custody EXCEPT ![b] = "held"]
    /\ stake'[b] \in Nat \ {0}
    /\ stake' = [stake EXCEPT ![b] = stake'[b]]
    /\ UNCHANGED share

\* Each player has their own stake back, in full.
Refund(b) ==
    /\ custody[b] = "held"
    /\ custody' = [custody EXCEPT ![b] = "refunded"]
    /\ share' = [share EXCEPT ![b] = [A |-> stake[b], B |-> stake[b], house |-> 0]]
    /\ UNCHANGED stake

\* A division of a pot: all of it, to one player and the house, or to the
\* house and both players in halves that differ by a penny at most.
Divides(part, pot) ==
    /\ part \in [A : Nat, B : Nat, house : Nat]
    /\ part.A + part.B + part.house = pot
    /\ part.A = 0 \/ part.B = 0 \/ part.A = part.B \/ part.A = part.B + 1

PayOut(b) ==
    /\ custody[b] = "held"
    /\ custody' = [custody EXCEPT ![b] = "paid"]
    /\ Divides(share'[b], 2 * stake[b])
    /\ share' = [share EXCEPT ![b] = share'[b]]
    /\ UNCHANGED stake

Next == \E b \in Bets : Hold(b) \/ Refund(b) \/ PayOut(b)

Spec == Init /\ [][Next]_custodyVars
=============================================================================

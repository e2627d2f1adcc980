------------------------------ MODULE MCPayout ------------------------------
(***************************************************************************)
(* Payout over a range of stakes, one penny after another, under every     *)
(* mix of the percentages listed.  Prices are set by a game's fee, so a    *)
(* behaviour keeps its percentages and raises the stake.                   *)
(***************************************************************************)
EXTENDS Payout

CONSTANTS
    MaxStake,       \* bound: the largest stake tried, in pence
    FeeBps, RewardBps, RevShareBps

ASSUME PercentagesAssumption ==
    /\ FeeBps \cup RewardBps \cup RevShareBps \subseteq TenThousandths
    /\ MaxStake \in Nat \ {0}

Outcomes == {"PLAYER_A_WIN", "PLAYER_B_WIN", "DRAW"}

VARIABLES stake, feeBp, rewardBp, revBp

priceVars == <<stake, feeBp, rewardBp, revBp>>

PriceInit ==
    /\ stake = 1
    /\ feeBp \in FeeBps /\ rewardBp \in RewardBps /\ revBp \in RevShareBps

RaiseStake ==
    /\ stake < MaxStake
    /\ stake' = stake + 1
    /\ UNCHANGED <<feeBp, rewardBp, revBp>>

PriceTypeOK ==
    /\ stake \in 1 .. MaxStake
    /\ feeBp \in FeeBps /\ rewardBp \in RewardBps /\ revBp \in RevShareBps

-----------------------------------------------------------------------------
\* Settlement comes out even and goes through, whichever way its roundings
\* fall: the fee and both shares are the pot, and a loser's share is nothing;
\* what the platform pays the referee and the developer out of the fee never
\* exceeds it; and with a fee under a quarter no release is refused as not
\* positive, down to a stake of a penny, so no bet is stuck.
PotDivides ==
    \A result \in Outcomes :
        LET toA == ShareA(result, stake, feeBp)
            toB == ShareB(result, stake, feeBp)
            fee == Fee(stake, feeBp)
        IN  /\ toA >= 0 /\ toB >= 0
            /\ fee + toA + toB = Pot(stake)
            /\ result = "PLAYER_A_WIN" => toB = 0
            /\ result = "PLAYER_B_WIN" => toA = 0
            /\ result = "DRAW" => toA - toB \in {0, 1}
            /\ RefereeFee(stake, feeBp, rewardBp) + DevShare(stake, feeBp, rewardBp, revBp) <= fee
            /\ feeBp < 2500 => Releasable(result, stake, feeBp)

\* Nobody is paid less than the quote they staked on, and a winner exactly it.
QuoteIsPaid ==
    LET quote == Quote(stake, feeBp)
    IN  /\ quote.fee = Fee(stake, feeBp)
        /\ quote.win = ShareA("PLAYER_A_WIN", stake, feeBp)
        /\ quote.win = ShareB("PLAYER_B_WIN", stake, feeBp)
        /\ ShareA("DRAW", stake, feeBp) \in {quote.drawEach, quote.drawEach + 1}
        /\ ShareB("DRAW", stake, feeBp) = quote.drawEach
=============================================================================

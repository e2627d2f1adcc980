------------------------------- MODULE Payout -------------------------------
(***************************************************************************)
(* How a settled pot is divided.  Amounts are whole pence; percentages are *)
(* whole ten-thousandths, the precision of the Decimal(5,4) columns that   *)
(* hold platformFeePercent, rewardPercent and revSharePercent.             *)
(*                                                                         *)
(* The settlement worker works in exact decimals, so these operators are   *)
(* exact; the quote shown to players before they stake is computed apart,  *)
(* and is modelled apart (Quote), without its floating-point error.        *)
(*                                                                         *)
(* An operator named Mutant... is the definition after it with a plausible *)
(* bug; README.md lists which property catches which.                      *)
(***************************************************************************)
EXTENDS Integers

\* The percentages a Decimal(5,4) column can hold, up to 100%.
TenThousandths == 0..10000

\* amount.mul(percent).toDecimalPlaces(2, ROUND_HALF_UP), in pence.
Percent(amount, bp) == (amount * bp + 5000) \div 10000

Pot(stake) == 2 * stake

\* What leaves the pot for PLATFORM_REVENUE.
Fee(stake, feeBp) == Percent(Pot(stake), feeBp)

\* The referee's reward, out of the fee.
RefereeFee(stake, feeBp, rewardBp) == Percent(Fee(stake, feeBp), rewardBp)

\* A share of the pot.
MutantDevShare(stake, feeBp, rewardBp, revBp) == Percent(Pot(stake), revBp)

\* The developer's share, out of what is left of the fee.
DevShare(stake, feeBp, rewardBp, revBp) ==
    Percent(Fee(stake, feeBp) - RefereeFee(stake, feeBp, rewardBp), revBp)

\* What the players divide.
Winnings(stake, feeBp) == Pot(stake) - Fee(stake, feeBp)

\* A draw: half to player A, rounded half up, the rest to player B.
DrawShareA(stake, feeBp) == (Winnings(stake, feeBp) + 1) \div 2
DrawShareB(stake, feeBp) == Winnings(stake, feeBp) - DrawShareA(stake, feeBp)

\* What each side is paid from escrow under an outcome.
ShareA(result, stake, feeBp) ==
    IF result = "DRAW" THEN DrawShareA(stake, feeBp)
    ELSE IF result = "PLAYER_A_WIN" THEN Winnings(stake, feeBp) ELSE 0

\* Both halves rounded up.
MutantShareB(result, stake, feeBp) ==
    IF result = "DRAW" THEN DrawShareA(stake, feeBp)
    ELSE Winnings(stake, feeBp) - ShareA(result, stake, feeBp)

ShareB(result, stake, feeBp) == Winnings(stake, feeBp) - ShareA(result, stake, feeBp)

(* releaseEscrow refuses a transfer that is not positive: a draw makes two *)
(* releases, a win makes one.                                              *)
Releasable(result, stake, feeBp) ==
    IF result = "DRAW"
    THEN DrawShareA(stake, feeBp) > 0 /\ DrawShareB(stake, feeBp) > 0
    ELSE Winnings(stake, feeBp) > 0

-----------------------------------------------------------------------------
(* The quote shown before a stake is committed. *)

\* The fee of one stake.
MutantQuote(stake, feeBp) ==
    LET fee == Percent(stake, feeBp)
    IN  [fee |-> fee, win |-> 2 * stake - fee, drawEach |-> (2 * stake - fee) \div 2]

Quote(stake, feeBp) ==
    LET fee == Percent(2 * stake, feeBp)
    IN  [fee |-> fee, win |-> 2 * stake - fee, drawEach |-> (2 * stake - fee) \div 2]
=============================================================================

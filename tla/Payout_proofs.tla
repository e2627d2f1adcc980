--------------------------- MODULE Payout_proofs ---------------------------
(***************************************************************************)
(* Facts about the settlement arithmetic for every stake and percentage.   *)
(***************************************************************************)
EXTENDS Payout, TLAPS

\* A product of naturals grows with either factor.
LEMMA ProductMonotone ==
    ASSUME NEW m \in Nat, NEW k \in Nat, NEW l \in Nat, k <= l
    PROVE  m * k \in Nat /\ m * l \in Nat /\ m * k <= m * l
<1> DEFINE gap == l - k
<1>1. gap \in Nat /\ l = k + gap
  OBVIOUS
<1>2. m * k \in Nat /\ m * gap \in Nat
  BY <1>1
<1>3. m * l = m * k + m * gap
  BY <1>1
<1> QED
  BY <1>2, <1>3

\* A percentage up to 100% of an amount is a natural number and no more than
\* the amount, however the half penny is rounded.
LEMMA PercentBounds ==
    ASSUME NEW amount \in Nat, NEW bp \in TenThousandths
    PROVE  Percent(amount, bp) \in Nat /\ Percent(amount, bp) <= amount
<1>1. bp \in Nat /\ bp <= 10000
  BY DEF TenThousandths
<1>2. amount * bp \in Nat /\ amount * bp <= amount * 10000
  BY <1>1, ProductMonotone
<1> DEFINE n == amount * bp
<1>3. n \in Nat /\ n <= amount * 10000
  BY <1>2
<1> HIDE DEF n
<1>4. (n + 5000) \div 10000 \in Nat /\ (n + 5000) \div 10000 <= amount
  BY <1>3
<1> QED
  BY <1>4 DEF Percent, n

\* Rounding is monotone: a larger amount never has a smaller percentage.
LEMMA PercentMonotone ==
    ASSUME NEW small \in Nat, NEW large \in Nat, small <= large, NEW bp \in TenThousandths
    PROVE  Percent(small, bp) <= Percent(large, bp)
<1>1. bp \in Nat
  BY DEF TenThousandths
<1> DEFINE m == small * bp
           n == large * bp
<1>2. m \in Nat /\ n \in Nat /\ m <= n
  <2>1. bp * small <= bp * large /\ bp * small \in Nat /\ bp * large \in Nat
    BY <1>1, ProductMonotone
  <2>2. bp * small = small * bp /\ bp * large = large * bp
    BY <1>1
  <2> QED
    BY <2>1, <2>2
<1> HIDE DEF m, n
<1>3. (m + 5000) \div 10000 <= (n + 5000) \div 10000
  BY <1>2
<1> QED
  BY <1>3 DEF Percent, m, n

\* The fee comes out of the pot and leaves the winnings.
LEMMA FeeBounds ==
    ASSUME NEW stake \in Nat, NEW feeBp \in TenThousandths
    PROVE  /\ Pot(stake) \in Nat
           /\ Fee(stake, feeBp) \in Nat /\ Winnings(stake, feeBp) \in Nat
           /\ Fee(stake, feeBp) + Winnings(stake, feeBp) = Pot(stake)
<1>1. Pot(stake) \in Nat
  BY DEF Pot
<1>2. Fee(stake, feeBp) \in Nat /\ Fee(stake, feeBp) <= Pot(stake)
  BY <1>1, PercentBounds DEF Fee
<1> QED
  BY <1>1, <1>2 DEF Winnings

\* The referee and the developer are paid out of the fee of the bet they are
\* paid for: the platform never pays them from anything else.
THEOREM FeeCoversShares ==
    ASSUME NEW stake \in Nat, NEW feeBp \in TenThousandths,
           NEW rewardBp \in TenThousandths, NEW revBp \in TenThousandths
    PROVE  /\ RefereeFee(stake, feeBp, rewardBp) \in Nat
           /\ DevShare(stake, feeBp, rewardBp, revBp) \in Nat
           /\ RefereeFee(stake, feeBp, rewardBp) + DevShare(stake, feeBp, rewardBp, revBp)
                 <= Fee(stake, feeBp)
<1> DEFINE fee == Fee(stake, feeBp)
           reward == RefereeFee(stake, feeBp, rewardBp)
           share == DevShare(stake, feeBp, rewardBp, revBp)
<1>1. fee \in Nat
  BY FeeBounds
<1>2. reward \in Nat /\ reward <= fee
  BY <1>1, PercentBounds DEF RefereeFee
<1>3. fee - reward \in Nat
  BY <1>1, <1>2
<1>4. share \in Nat /\ share <= fee - reward
  BY <1>3, PercentBounds DEF DevShare
<1> HIDE DEF fee, reward, share
<1>5. reward + share <= fee
  BY <1>1, <1>2, <1>4
<1> QED
  BY <1>2, <1>4, <1>5 DEF fee, reward, share

\* Under every result the two shares and the fee are the whole pot, and the
\* shares are all one player's or differ by a penny at most.
THEOREM SharesDividePot ==
    ASSUME NEW stake \in Nat, NEW feeBp \in TenThousandths, NEW result
    PROVE  LET toA == ShareA(result, stake, feeBp)
               toB == ShareB(result, stake, feeBp)
           IN  /\ toA \in Nat /\ toB \in Nat
               /\ toA + toB + Fee(stake, feeBp) = Pot(stake)
               /\ toA = 0 \/ toB = 0 \/ toA = toB \/ toA = toB + 1
<1> DEFINE w == Winnings(stake, feeBp)
           fee == Fee(stake, feeBp)
           pot == Pot(stake)
           toA == ShareA(result, stake, feeBp)
           toB == ShareB(result, stake, feeBp)
<1>1. w \in Nat /\ fee \in Nat /\ pot \in Nat /\ fee + w = pot
  BY FeeBounds
<1>2. toA \in {(w + 1) \div 2, w, 0}
  BY DEF ShareA, DrawShareA
<1>3. toB = w - toA
  BY DEF ShareB
<1> HIDE DEF w, fee, pot, toA, toB
<1>4. /\ toA \in Nat /\ toB \in Nat /\ toA + toB + fee = pot
      /\ toA = 0 \/ toB = 0 \/ toA = toB \/ toA = toB + 1
  BY <1>1, <1>2, <1>3
<1> QED
  BY <1>4 DEF fee, pot, toA, toB

\* A fee under a quarter of the pot leaves every result payable: settlement
\* never asks escrow to release nothing, so no such bet can get stuck there.
THEOREM SmallFeePayable ==
    ASSUME NEW stake \in Nat \ {0}, NEW feeBp \in TenThousandths, feeBp < 2500, NEW result
    PROVE  Releasable(result, stake, feeBp)
<1> DEFINE pot == Pot(stake)
           n == pot * feeBp
           w == Winnings(stake, feeBp)
<1>1. pot \in Nat /\ pot >= 2
  BY DEF Pot
<1>2. feeBp \in Nat /\ feeBp <= 2499
  BY DEF TenThousandths
<1>3. n \in Nat /\ n <= pot * 2499
  BY <1>1, <1>2, ProductMonotone
<1>4. w = pot - ((n + 5000) \div 10000)
  BY DEF Winnings, Fee, Percent
<1> HIDE DEF pot, n, w
<1>5. w \in Nat /\ w >= 2
  BY <1>1, <1>3, <1>4
<1>6. (w + 1) \div 2 > 0 /\ w - ((w + 1) \div 2) > 0
  BY <1>5
<1> QED
  BY <1>5, <1>6 DEF Releasable, DrawShareA, DrawShareB, w

\* Staking more never wins less.
THEOREM WinningsMonotone ==
    ASSUME NEW stake \in Nat, NEW feeBp \in TenThousandths
    PROVE  Winnings(stake + 1, feeBp) >= Winnings(stake, feeBp)
<1> DEFINE n == Pot(stake) * feeBp
           m == Pot(stake + 1) * feeBp
<1>1. feeBp \in Nat /\ feeBp <= 10000
  BY DEF TenThousandths
<1>2. n \in Nat
  BY <1>1 DEF Pot
<1>3. m = n + 2 * feeBp
  BY <1>1 DEF Pot
<1>4. /\ Winnings(stake, feeBp) = Pot(stake) - ((n + 5000) \div 10000)
      /\ Winnings(stake + 1, feeBp) = Pot(stake + 1) - ((m + 5000) \div 10000)
  BY DEF Winnings, Fee, Percent
<1>6. Pot(stake) \in Nat /\ Pot(stake + 1) = Pot(stake) + 2
  BY DEF Pot
<1> HIDE DEF n, m
<1>5. (m + 5000) \div 10000 <= ((n + 5000) \div 10000) + 2
  BY <1>1, <1>2, <1>3
<1> QED
  BY <1>1, <1>2, <1>3, <1>4, <1>5, <1>6
=============================================================================

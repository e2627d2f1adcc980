----------------------- MODULE BetEscrowCustody_proofs -----------------------
(***************************************************************************)
(* BetEscrow implements StakeCustody, for any values of its constants:     *)
(* taking a challenge is Hold, every void with a refund is Refund, a       *)
(* settlement is PayOut, and all the other steps leave custody alone.  And *)
(* the promises about the people who decide: a referee's call is kept, a   *)
(* reviewer's claim is exclusive, and, where no two requests decide the    *)
(* same dispute, an open dispute freezes the pot it is about.              *)
(***************************************************************************)
EXTENDS BetEscrow_proofs, FiniteSetTheorems

-----------------------------------------------------------------------------
(* Where a pot is, in the terms of StakeCustody *)

LEMMA CustodyValue ==
    ASSUME NEW b \in Bets, stake[b] \in Nat \ {0}
    PROVE  /\ Untouched(b) => CustodyOf(b) = "none"
           /\ Held(b) => CustodyOf(b) = "held"
           /\ Paid(b) => CustodyOf(b) = "paid"
           /\ Refunded(b) => CustodyOf(b) = "refunded"
<1>1. "settle" \notin RefundKeys
  BY RowsAssumption DEF RefundKeys
<1>2. Pot(stake[b]) > 0
  BY DEF Pot
<1> QED
  BY <1>1, <1>2 DEF Untouched, Held, Paid, Refunded, CustodyOf

\* The same after a step.
LEMMA CustodyValueNext ==
    ASSUME NEW b \in Bets, stake'[b] \in Nat \ {0}
    PROVE  /\ Held(b)' => CustodyOf(b)' = "held"
           /\ Paid(b)' => CustodyOf(b)' = "paid"
           /\ Refunded(b)' => CustodyOf(b)' = "refunded"
<1>1. "settle" \notin RefundKeys
  BY RowsAssumption DEF RefundKeys
<1>2. Pot(stake'[b]) > 0
  BY DEF Pot
<1> QED
  BY <1>1, <1>2 DEF Held, Paid, Refunded, CustodyOf, Pot

\* A step that leaves the ledger and the stakes alone leaves custody alone.
LEMMA CustodyFrame ==
    ASSUME UNCHANGED <<stake, ledgerVars>>
    PROVE  UNCHANGED Custody!custodyVars
<1>1. [b \in Bets |-> CustodyOf(b)]' = [b \in Bets |-> CustodyOf(b)]
  BY DEF CustodyOf, ledgerVars
<1> QED
  BY <1>1 DEF Custody!custodyVars, ledgerVars

LEMMA AcceptHolds ==
    ASSUME IInv, IInv', NEW b \in Bets, NEW p \in Players, NEW q \in Players, NEW s \in Stakes,
           Accept(b, p, q, s)
    PROVE  Custody!Hold(b)
<1> USE DEF IInv
<1>1. s \in Nat \ {0}
  BY MoneyAssumption
<1>2. Untouched(b)
  BY DEF Accept, PotState
<1>3. /\ stake' = [stake EXCEPT ![b] = s]
      /\ escrow' = [escrow EXCEPT ![b] = 2 * s]
      /\ UNCHANGED <<posted, credit>>
  BY DEF Accept, HoldBoth
<1>4. stake'[b] = s /\ escrow'[b] = 2 * s
  BY <1>3 DEF TypeOK
<1>5. CustodyOf(b) = "none" /\ CustodyOf(b)' = "held"
  BY <1>1, <1>2, <1>4 DEF Untouched, CustodyOf
<1>6. \A c \in Bets \ {b} : CustodyOf(c)' = CustodyOf(c)
  BY <1>3 DEF CustodyOf, TypeOK
<1> QED
  BY <1>1, <1>3, <1>4, <1>5, <1>6 DEF Custody!Hold

LEMMA RefundRefunds ==
    ASSUME IInv, NEW b \in Bets \ SeededBets, NEW key \in RefundKeys,
           status[b] # "NONE", RefundBoth(b, key), UNCHANGED <<stake, playerA, playerB>>
    PROVE  Custody!Refund(b)
<1> USE DEF IInv
<1>1. stake[b] \in Nat \ {0}
  BY DEF BetRows, TypeOK
<1>2. Held(b) \/ Paid(b) \/ Refunded(b)
  BY DEF PotState
<1>3. /\ Held(b) /\ Refunded(b)'
      /\ credit' \in [Bets -> [A : Nat, B : Nat, house : Nat]]
      /\ \A c \in Bets \ {b} :
            escrow'[c] = escrow[c] /\ posted'[c] = posted[c] /\ credit'[c] = credit[c]
  BY <1>1, <1>2, RefundFacts
<1>4. CustodyOf(b) = "held" /\ CustodyOf(b)' = "refunded"
  BY <1>1, <1>3, CustodyValue, CustodyValueNext
<1>5. \A c \in Bets \ {b} : CustodyOf(c)' = CustodyOf(c)
  BY <1>3 DEF CustodyOf
<1>6. credit' = [credit EXCEPT ![b] = [A |-> stake[b], B |-> stake[b], house |-> 0]]
  BY <1>3 DEF Refunded, TypeOK
<1> QED
  BY <1>4, <1>5, <1>6 DEF Custody!Refund

LEMMA SettlementPaysOut ==
    ASSUME IInv, NEW b \in Bets, SettleBet(b)
    PROVE  Custody!PayOut(b)
<1> USE DEF IInv
<1> DEFINE toA == ShareA(outcome[b], stake[b], FeeBp)
           toB == ShareB(outcome[b], stake[b], FeeBp)
           fee == Fee(stake[b], FeeBp)
<1>1. /\ b \notin SeededBets /\ Held(b) /\ Paid(b)' /\ UNCHANGED stake
      /\ credit'[b] = [A |-> toA, B |-> toB, house |-> fee]
      /\ credit' \in [Bets -> [A : Nat, B : Nat, house : Nat]]
      /\ \A c \in Bets \ {b} :
            escrow'[c] = escrow[c] /\ posted'[c] = posted[c] /\ credit'[c] = credit[c]
  BY SettledPot DEF LedgerTypes
<1>2. stake[b] \in Nat \ {0}
  <2>1. status[b] # "NONE"
    BY DEF SettleBet, StillReported
  <2> QED
    BY <2>1 DEF BetRows, TypeOK
<1>3. CustodyOf(b) = "held" /\ CustodyOf(b)' = "paid"
  BY <1>1, <1>2, CustodyValue, CustodyValueNext
<1>4. \A c \in Bets \ {b} : CustodyOf(c)' = CustodyOf(c)
  BY <1>1 DEF CustodyOf
<1>5. toA \in Nat /\ toB \in Nat /\ toA + toB + fee = Pot(stake[b])
      /\ (toA = 0 \/ toB = 0 \/ toA = toB \/ toA = toB + 1)
  BY <1>2, SharesDividePot, MoneyAssumption
<1>6. fee \in Nat
  BY <1>2, FeeBounds, MoneyAssumption
<1> HIDE DEF toA, toB, fee
<1>7. Custody!Divides(credit'[b], 2 * stake[b])
  BY <1>1, <1>2, <1>5, <1>6 DEF Custody!Divides, Pot
<1>8. credit' = [credit EXCEPT ![b] = credit'[b]]
  BY <1>1 DEF TypeOK
<1> QED
  BY <1>1, <1>3, <1>4, <1>7, <1>8 DEF Custody!PayOut

-----------------------------------------------------------------------------
LEMMA CustodyInit == Init => Custody!Init
<1> SUFFICES ASSUME Init PROVE Custody!Init
  OBVIOUS
<1>1. stake \in [Bets -> Nat]
  BY InitIInv DEF IInv, TypeOK
<1>2. \A b \in Bets : CustodyOf(b) = "none"
  BY DEF Init, CustodyOf
<1> QED
  BY <1>1, <1>2 DEF Init, Custody!Init, Custody!Nothing, NoCredit

\* A void refunds a bet that had an escrow account, and moves nothing else.
LEMMA VoidCustody ==
    ASSUME IInv, NEW b \in Bets, NEW key \in RefundKeys, status[b] # "NONE",
           VoidBet(b), RefundIfHeld(b, key)
    PROVE  [Custody!Next]_(Custody!custodyVars)
<1>1. UNCHANGED <<stake, playerA, playerB>>
  BY DEF VoidBet
<1>2. CASE b \in SeededBets
  BY <1>1, <1>2, CustodyFrame DEF RefundIfHeld, HasEscrowAccount
<1>3. CASE b \notin SeededBets
  BY <1>1, <1>3, RefundRefunds DEF RefundIfHeld, HasEscrowAccount, Custody!Next
<1> QED
  BY <1>2, <1>3

LEMMA CustodyStep ==
    IInv /\ IInv' /\ [Next]_vars => [Custody!Next]_(Custody!custodyVars)
<1> SUFFICES ASSUME IInv, IInv', [Next]_vars PROVE [Custody!Next]_(Custody!custodyVars)
  OBVIOUS
<1> USE DEF ledgerVars, betVars
<1>1. ASSUME NEW b \in Bets, VoidNoShowMatch(b)
      PROVE  [Custody!Next]_(Custody!custodyVars)
  BY <1>1, VoidCustody DEF VoidNoShowMatch, RefundKeys
<1>2. ASSUME NEW b \in Bets, PlayerStep(b)
      PROVE  [Custody!Next]_(Custody!custodyVars)
  BY <1>1, <1>2, AcceptHolds DEF PlayerStep, WithdrawFromMatch, Custody!Next
<1>3. ASSUME NEW b \in Bets, RefereeStep(b)
      PROVE  [Custody!Next]_(Custody!custodyVars)
  <2>1. UNCHANGED <<stake, ledgerVars>>
    BY <1>3 DEF RefereeStep, ClaimAssignment, Ready, Start, AdvanceAssignment, SubmitDecision
  <2> QED
    BY <2>1, CustodyFrame
<1>4. ASSUME NEW b \in Bets, SweepStep(b)
      PROVE  [Custody!Next]_(Custody!custodyVars)
  <2>1. CASE SweepStalled(b)
    BY <2>1, CustodyFrame DEF SweepStalled
  <2> QED
    BY <1>1, <1>4, <2>1 DEF SweepStep, SweepUnclaimed, SweepOverrun, VoidStaleMatch
<1>5. ASSUME NEW b \in Bets, VoidUnderage(b)
      PROVE  [Custody!Next]_(Custody!custodyVars)
  BY <1>5, VoidCustody DEF VoidUnderage, RefundKeys
<1>6. ASSUME NEW b \in Bets, Tick(b)
      PROVE  [Custody!Next]_(Custody!custodyVars)
  BY <1>6, CustodyFrame DEF Tick
<1>7. ASSUME NEW d \in Disputes, FilingStep(d)
      PROVE  [Custody!Next]_(Custody!custodyVars)
  <2>1. UNCHANGED <<stake, ledgerVars>>
    BY <1>7 DEF FilingStep, FileCheck, FileCommit, FileConflict
  <2> QED
    BY <2>1, CustodyFrame
<1>8. ASSUME NEW d \in Disputes, ReviewStep(d)
      PROVE  [Custody!Next]_(Custody!custodyVars)
  <2>1. ASSUME NEW r \in Reviewers, ResolveVoid(r, d)
        PROVE  [Custody!Next]_(Custody!custodyVars)
    <3>1. <<r, d>> \in deciding /\ RefundBoth(filedOn[d], d) /\ VoidBet(filedOn[d])
      BY <2>1 DEF ResolveVoid
    <3>2. /\ filedOn[d] \in Bets \ SeededBets /\ status[filedOn[d]] # "NONE"
          /\ d \in RefundKeys
      BY <3>1, DecidedDispute DEF RefundKeys
    <3>3. RefundIfHeld(filedOn[d], d)
      BY <3>1, <3>2 DEF RefundIfHeld, HasEscrowAccount
    <3> QED
      BY <3>1, <3>2, <3>3, VoidCustody
  <2>2. CASE ~\E r \in Reviewers : ResolveVoid(r, d)
    <3>1. UNCHANGED <<stake, ledgerVars>>
      BY <1>8, <2>2 DEF ReviewStep, ClaimDispute, DecideCheck, ResolveOutcome, ResolveFails
    <3> QED
      BY <3>1, CustodyFrame
  <2> QED
    BY <2>1, <2>2
<1>9. ASSUME NEW d \in Disputes, EscalationStep(d)
      PROVE  [Custody!Next]_(Custody!custodyVars)
  <2>1. CASE AutoVoidDispute(d)
    <3>1. /\ dispute[d] # "idle" /\ RefundBoth(filedOn[d], "autoVoid")
          /\ VoidBet(filedOn[d]) /\ status[filedOn[d]] # "NONE"
      BY <2>1 DEF AutoVoidDispute
    <3>2. filedOn[d] \in Bets \ SeededBets /\ "autoVoid" \in RefundKeys
      BY <3>1 DEF IInv, DisputeRows, RefundKeys
    <3>3. RefundIfHeld(filedOn[d], "autoVoid")
      BY <3>1, <3>2 DEF RefundIfHeld, HasEscrowAccount
    <3> QED
      BY <3>1, <3>2, <3>3, VoidCustody
  <2>2. CASE Escalate(d) \/ AutoCloseDispute(d)
    BY <2>2, CustodyFrame DEF Escalate, AutoCloseDispute
  <2> QED
    BY <1>9, <2>1, <2>2 DEF EscalationStep
<1>10. ASSUME NEW b \in Bets, SettlementStep(b)
       PROVE  [Custody!Next]_(Custody!custodyVars)
  <2>1. CASE SettleBet(b)
    BY <2>1, SettlementPaysOut DEF Custody!Next
  <2>2. CASE SettleSkip(b) \/ SettleFails(b) \/ Announce(b)
    BY <2>2, CustodyFrame DEF SettleSkip, SettleFails, Announce
  <2> QED
    BY <1>10, <2>1, <2>2 DEF SettlementStep
<1>11. ASSUME SettlementScan \/ CrashSettlement \/ UNCHANGED vars
       PROVE  [Custody!Next]_(Custody!custodyVars)
  BY <1>11, CustodyFrame DEF SettlementScan, CrashSettlement, vars
<1> QED
  BY <1>2, <1>3, <1>4, <1>5, <1>6, <1>7, <1>8, <1>9, <1>10, <1>11 DEF Next

\* The transactions, sweeps, reviews and settlement implement the custody
\* promise: stakes are taken together, and leave together exactly once.
THEOREM ImplementsCustody == Spec => CustodyKept
<1>1. Init => Custody!Init
  BY CustodyInit
<1>2. IInv /\ IInv' /\ [Next]_vars => [Custody!Next]_(Custody!custodyVars)
  BY CustodyStep
<1> QED
  BY <1>1, <1>2, Inductive, PTL DEF Spec, CustodyKept, Custody!Spec

-----------------------------------------------------------------------------
(* The referee's call *)

\* No call is recorded before the match is over.
CallRows == \A b \in Bets : status[b] \in {"NONE", "MATCHED"} => decision[b] = "none"

\* A step records a call only where there was none, and takes no bet back to
\* before its result.
CallStep ==
    \A b \in Bets :
        /\ status'[b] \in {"NONE", "MATCHED"} =>
               status[b] \in {"NONE", "MATCHED"} /\ decision'[b] = decision[b]
        /\ decision[b] \in Outcomes => decision'[b] = decision[b]

LEMMA CallStepTaken == IInv /\ CallRows /\ [Next]_vars => CallStep
<1> SUFFICES ASSUME IInv, CallRows, [Next]_vars PROVE CallStep
  OBVIOUS
<1> USE DEF IInv, CallStep, betVars, refereeVars
<1>1. ASSUME UNCHANGED <<status, decision>> PROVE CallStep
  BY <1>1
<1>2. ASSUME NEW b \in Bets, VoidBet(b), UNCHANGED decision PROVE CallStep
  BY <1>2 DEF VoidBet, TypeOK
<1>3. ASSUME NEW b \in Bets, VoidNoShowMatch(b) PROVE CallStep
  BY <1>2, <1>3 DEF VoidNoShowMatch, CancelAssignment
<1>4. ASSUME NEW b \in Bets, PlayerStep(b) PROVE CallStep
  <2>1. ASSUME NEW p \in Players, NEW q \in Players, NEW s \in Stakes, Accept(b, p, q, s)
        PROVE  CallStep
    BY <2>1 DEF Accept, TypeOK
  <2> QED
    BY <1>3, <1>4, <2>1 DEF PlayerStep, WithdrawFromMatch
<1>5. ASSUME NEW b \in Bets, RefereeStep(b) PROVE CallStep
  <2>1. ASSUME NEW result \in Outcomes, SubmitDecision(b, result) PROVE CallStep
    <3>1. decision[b] = "none" /\ "none" \notin Outcomes
      BY <2>1 DEF SubmitDecision, CallRows, Outcomes
    <3> QED
      BY <2>1, <3>1 DEF SubmitDecision, TypeOK
  <2>2. CASE \/ \E r \in Referees : ClaimAssignment(b, r)
             \/ Ready(b) \/ Start(b)
    BY <1>1, <2>2 DEF ClaimAssignment, Ready, Start, AdvanceAssignment
  <2> QED
    BY <1>5, <2>1, <2>2 DEF RefereeStep
<1>6. ASSUME NEW b \in Bets, SweepStep(b) PROVE CallStep
  <2>1. CASE SweepStalled(b)
    BY <1>1, <2>1 DEF SweepStalled
  <2> QED
    BY <1>3, <1>6, <2>1 DEF SweepStep, SweepUnclaimed, SweepOverrun, VoidStaleMatch
<1>7. ASSUME NEW b \in Bets, VoidUnderage(b) PROVE CallStep
  BY <1>2, <1>7 DEF VoidUnderage, CancelAssignment
<1>8. ASSUME NEW b \in Bets, Tick(b) PROVE CallStep
  BY <1>1, <1>8 DEF Tick
<1>9. ASSUME NEW d \in Disputes, FilingStep(d) PROVE CallStep
  <2>1. CASE FileCommit(d)
    BY <2>1 DEF FileCommit, StatusOnDispute, TypeOK
  <2>2. CASE FileConflict(d) \/ \E b \in Bets, p \in Players : FileCheck(d, b, p)
    BY <1>1, <2>2 DEF FileConflict, FileCheck
  <2> QED
    BY <1>9, <2>1, <2>2 DEF FilingStep
<1>10. ASSUME NEW d \in Disputes, ReviewStep(d) PROVE CallStep
  <2>1. ASSUME NEW r \in Reviewers, ResolveVoid(r, d) PROVE CallStep
    <3>1. filedOn[d] \in Bets
      BY <2>1, DecidedDispute DEF ResolveVoid
    <3> QED
      BY <1>2, <2>1, <3>1 DEF ResolveVoid, CancelAssignment
  <2>2. ASSUME NEW r \in Reviewers, NEW result \in Outcomes, ResolveOutcome(r, d, result)
        PROVE  CallStep
    <3>1. "none" \notin Outcomes
      BY DEF Outcomes
    <3> QED
      BY <2>2, <3>1 DEF ResolveOutcome, KeptCall, TypeOK
  <2>3. CASE \E r \in Reviewers : ClaimDispute(r, d) \/ DecideCheck(r, d) \/ ResolveFails(r, d)
    BY <1>1, <2>3 DEF ClaimDispute, DecideCheck, ResolveFails
  <2> QED
    BY <1>10, <2>1, <2>2, <2>3 DEF ReviewStep
<1>11. ASSUME NEW d \in Disputes, EscalationStep(d) PROVE CallStep
  <2>1. CASE AutoVoidDispute(d)
    <3>1. filedOn[d] \in Bets
      BY <2>1 DEF AutoVoidDispute, DisputeRows
    <3> QED
      BY <1>2, <2>1, <3>1 DEF AutoVoidDispute, CancelAssignment
  <2>2. CASE Escalate(d) \/ AutoCloseDispute(d)
    BY <1>1, <2>2 DEF Escalate, AutoCloseDispute
  <2> QED
    BY <1>11, <2>1, <2>2 DEF EscalationStep
<1>12. ASSUME NEW b \in Bets, SettlementStep(b) PROVE CallStep
  <2>1. CASE SettleBet(b)
    BY <2>1 DEF SettleBet, StillReported, TypeOK
  <2>2. CASE SettleSkip(b) \/ SettleFails(b) \/ Announce(b)
    BY <1>1, <2>2 DEF SettleSkip, SettleFails, Announce
  <2> QED
    BY <1>12, <2>1, <2>2 DEF SettlementStep
<1>13. ASSUME SettlementScan \/ CrashSettlement \/ UNCHANGED vars PROVE CallStep
  BY <1>1, <1>13 DEF SettlementScan, CrashSettlement, vars
<1> QED
  BY <1>4, <1>5, <1>6, <1>7, <1>8, <1>9, <1>10, <1>11, <1>12, <1>13 DEF Next

\* A referee's call, once made, is never changed: not by a review that decides
\* otherwise, not by a void.
THEOREM CallIsKept == Spec => RefereeCallIsKept
<1>1. Init => CallRows
  BY DEF Init, CallRows
<1>2. IInv /\ CallRows /\ [Next]_vars => CallRows'
  BY CallStepTaken DEF CallStep, CallRows
<1>3. IInv /\ CallRows /\ [Next]_vars =>
        [\A b \in Bets : decision[b] \in Outcomes => decision'[b] = decision[b]]_vars
  BY CallStepTaken DEF CallStep
<1> QED
  BY <1>1, <1>2, <1>3, Inductive, PTL DEF Spec, RefereeCallIsKept

-----------------------------------------------------------------------------
(* The reviewer's claim *)

\* Whoever is about to decide a dispute, or has, holds it, unless an admin.
ReviewerRows ==
    \A d \in Disputes, u \in Reviewers \ Admins :
        <<u, d>> \in deciding \/ decidedBy[d] = u => reviewer[d] = u

LEMMA ReviewerRowsKept == IInv /\ ReviewerRows /\ [Next]_vars => ReviewerRows'
<1> SUFFICES ASSUME IInv, ReviewerRows, [Next]_vars PROVE ReviewerRows'
  OBVIOUS
<1> USE DEF IInv, ReviewerRows, disputeVars
<1>1. ASSUME UNCHANGED <<deciding, decidedBy, reviewer>> PROVE ReviewerRows'
  BY <1>1
<1>2. Null \notin Reviewers
  BY UsersAssumption
<1>3. ASSUME NEW r \in Reviewers, NEW d \in Disputes, <<r, d>> \in deciding,
             NEW rule, RecordRuling(r, d, rule)
      PROVE  ReviewerRows'
  <2>1. /\ reviewer' = [reviewer EXCEPT ![d] = IF @ = Null THEN r ELSE @]
        /\ decidedBy' = [decidedBy EXCEPT ![d] = r]
        /\ deciding' = deciding \ {<<r, d>>}
    BY <1>3 DEF RecordRuling
  <2> QED
    BY <1>2, <1>3, <2>1 DEF TypeOK
<1>4. ASSUME NEW d \in Disputes, ReviewStep(d) PROVE ReviewerRows'
  <2>1. ASSUME NEW r \in Reviewers, ClaimDispute(r, d) PROVE ReviewerRows'
    BY <1>2, <2>1 DEF ClaimDispute, TypeOK
  <2>2. ASSUME NEW r \in Reviewers, DecideCheck(r, d) PROVE ReviewerRows'
    BY <2>2 DEF DecideCheck, MayDecide
  <2>3. ASSUME NEW r \in Reviewers,
               \/ ResolveVoid(r, d)
               \/ \E result \in Outcomes : ResolveOutcome(r, d, result)
        PROVE  ReviewerRows'
    BY <1>3, <2>3 DEF ResolveVoid, ResolveOutcome
  <2>4. ASSUME NEW r \in Reviewers, ResolveFails(r, d) PROVE ReviewerRows'
    BY <2>4 DEF ResolveFails
  <2> QED
    BY <1>4, <2>1, <2>2, <2>3, <2>4 DEF ReviewStep
<1>5. ASSUME NEW d \in Disputes, FilingStep(d) \/ EscalationStep(d) PROVE ReviewerRows'
  BY <1>1, <1>5 DEF FilingStep, FileCheck, FileCommit, FileConflict, EscalationStep, Escalate,
     AutoVoidDispute, AutoCloseDispute, CloseStaleDispute
<1>6. ASSUME NEW b \in Bets, PlayerStep(b) \/ RefereeStep(b) \/ SweepStep(b) PROVE ReviewerRows'
  BY <1>1, <1>6 DEF PlayerStep, Accept, WithdrawFromMatch, RefereeStep, ClaimAssignment, Ready,
     Start, AdvanceAssignment, SubmitDecision, SweepStep, SweepUnclaimed, SweepStalled,
     SweepOverrun, VoidStaleMatch, VoidNoShowMatch
<1>7. ASSUME NEW b \in Bets, VoidUnderage(b) \/ Tick(b) \/ SettlementStep(b) PROVE ReviewerRows'
  BY <1>1, <1>7 DEF VoidUnderage, Tick, SettlementStep, SettleBet, SettleSkip, SettleFails,
     Announce
<1>8. ASSUME SettlementScan \/ CrashSettlement \/ UNCHANGED vars PROVE ReviewerRows'
  BY <1>1, <1>8 DEF SettlementScan, CrashSettlement, vars
<1> QED
  BY <1>4, <1>5, <1>6, <1>7, <1>8 DEF Next

\* Only who took a dispute decides it, admins apart, although the claim is
\* checked before the transaction that decides.
THEOREM ClaimsAreExclusive == Spec => []ClaimIsExclusive
<1>1. Init => ReviewerRows
  BY UsersAssumption DEF Init, ReviewerRows
<1>2. IInv /\ ReviewerRows /\ [Next]_vars => ReviewerRows'
  BY ReviewerRowsKept
<1>3. IInv /\ ReviewerRows => ClaimIsExclusive
  BY DEF IInv, TypeOK, ReviewerRows, ClaimIsExclusive
<1> QED
  BY <1>1, <1>2, <1>3, Inductive, PTL DEF Spec

-----------------------------------------------------------------------------
(* What a dispute freezes, as long as each is decided by one request at a time *)

\* A pot still held has one open dispute at most, which its bet shows; and
\* whoever is deciding about it, is deciding that one.
FrozenPots ==
    \A b \in Bets :
        escrow[b] > 0 =>
            /\ OpenDisputes(b) # {} => status[b] = "DISPUTED"
            /\ \A d, e \in OpenDisputes(b) : d = e
            /\ \A u \in Reviewers, d \in Disputes :
                  <<u, d>> \in deciding /\ filedOn[d] = b => d \in OpenDisputes(b)

\* Nothing is filed, let alone decided, about a bet before its result.
LEMMA NothingFiledYet ==
    ASSUME IInv, NEW b \in Bets, status[b] \in {"NONE", "MATCHED"}
    PROVE  /\ OpenDisputes(b) = {}
           /\ \A u \in Reviewers, d \in Disputes : <<u, d>> \in deciding => filedOn[d] # b
<1>1. \A d \in Disputes : dispute[d] # "idle" => filedOn[d] # b
  BY DEF IInv, DisputeRows
<1>2. \A u \in Reviewers, d \in Disputes : <<u, d>> \in deciding => dispute[d] # "idle"
  BY DEF IInv, DisputeRows, FiledDisputeStatuses, OpenDisputeStatuses
<1> QED
  BY <1>1, <1>2 DEF OpenDisputes, OpenDisputeStatuses

LEMMA FrozenFrame ==
    ASSUME FrozenPots, UNCHANGED <<status, escrow, dispute, filedOn>>, deciding' \subseteq deciding
    PROVE  FrozenPots'
BY DEF FrozenPots, OpenDisputes

\* Once its pot is gone, anything may happen to a bet and to the disputes over
\* it; about the other bets nothing changes.
LEMMA FrozenElsewhere ==
    ASSUME FrozenPots, NEW b \in Bets, escrow'[b] = 0,
           \A c \in Bets \ {b} : escrow'[c] = escrow[c] /\ status'[c] = status[c],
           UNCHANGED filedOn, deciding' \subseteq deciding,
           \A d \in Disputes : filedOn[d] # b => dispute'[d] = dispute[d]
    PROVE  FrozenPots'
<1> SUFFICES ASSUME NEW c \in Bets \ {b}, escrow'[c] > 0
             PROVE  /\ OpenDisputes(c)' # {} => status'[c] = "DISPUTED"
                    /\ \A d, e \in OpenDisputes(c)' : d = e
                    /\ \A u \in Reviewers, d \in Disputes :
                          <<u, d>> \in deciding' /\ filedOn'[d] = c => d \in OpenDisputes(c)'
  BY DEF FrozenPots
<1>1. OpenDisputes(c)' = OpenDisputes(c)
  BY DEF OpenDisputes
<1> QED
  BY <1>1 DEF FrozenPots

\* The steps that empty a pot: a void with its refund, and a settlement.
LEMMA VoidKeepsFrozen ==
    ASSUME IInv, FrozenPots, NEW b \in Bets, NEW key \in RefundKeys, status[b] # "NONE",
           VoidBet(b), RefundIfHeld(b, key), UNCHANGED filedOn, deciding' \subseteq deciding,
           \A d \in Disputes : filedOn[d] # b => dispute'[d] = dispute[d]
    PROVE  FrozenPots'
<1> USE DEF IInv
<1>1. \A c \in Bets \ {b} : status'[c] = status[c]
  BY DEF VoidBet, TypeOK
<1>2. CASE b \in SeededBets
  <2>1. UNCHANGED escrow /\ escrow[b] = 0
    BY <1>2 DEF RefundIfHeld, HasEscrowAccount, ledgerVars, PotState, Untouched
  <2> QED
    BY <1>1, <2>1, FrozenElsewhere
<1>3. CASE b \notin SeededBets
  <2>1. RefundBoth(b, key) /\ UNCHANGED <<stake, playerA, playerB>>
    BY <1>3 DEF RefundIfHeld, HasEscrowAccount, VoidBet
  <2>2. stake[b] > 0 /\ (Held(b) \/ Paid(b) \/ Refunded(b))
    BY <1>3 DEF BetRows, PotState
  <2>3. Refunded(b)' /\ \A c \in Bets \ {b} : escrow'[c] = escrow[c]
    BY <2>1, <2>2, RefundFacts
  <2> QED
    BY <1>1, <2>3, FrozenElsewhere DEF Refunded
<1> QED
  BY <1>2, <1>3

LEMMA SettlementKeepsFrozen ==
    ASSUME IInv, FrozenPots, NEW b \in Bets, SettleBet(b)
    PROVE  FrozenPots'
<1>1. Paid(b)' /\ \A c \in Bets \ {b} : escrow'[c] = escrow[c]
  BY SettledPot DEF IInv
<1>2. /\ \A c \in Bets \ {b} : status'[c] = status[c]
      /\ UNCHANGED <<dispute, filedOn, deciding>>
  BY DEF SettleBet, disputeVars, IInv, TypeOK
<1> QED
  BY <1>1, <1>2, FrozenElsewhere DEF Paid

LEMMA StartKeepsFrozen ==
    ASSUME IInv, FrozenPots, NEW b \in Bets, status[b] \in {"NONE", "MATCHED"},
           \A c \in Bets \ {b} : escrow'[c] = escrow[c] /\ status'[c] = status[c],
           UNCHANGED disputeVars
    PROVE  FrozenPots'
<1>1. \A c \in Bets : OpenDisputes(c)' = OpenDisputes(c)
  BY DEF OpenDisputes, disputeVars
<1>2. /\ OpenDisputes(b)' = {}
      /\ \A u \in Reviewers, d \in Disputes : <<u, d>> \in deciding' => filedOn'[d] # b
  BY <1>1, NothingFiledYet DEF disputeVars
<1> QED
  BY <1>1, <1>2 DEF FrozenPots, disputeVars

\* A step about one bet, after which it has no open dispute, or shows the only
\* one it has, and nobody is deciding about it.
LEMMA FrozenOne ==
    ASSUME FrozenPots, NEW b \in Bets, UNCHANGED <<escrow, filedOn>>, deciding' \subseteq deciding,
           \A c \in Bets \ {b} : OpenDisputes(c)' = OpenDisputes(c) /\ status'[c] = status[c],
           escrow[b] > 0 =>
               /\ \/ OpenDisputes(b)' = {}
                  \/ status'[b] = "DISPUTED" /\ \E d \in Disputes : OpenDisputes(b)' = {d}
               /\ \A u \in Reviewers, d \in Disputes : <<u, d>> \in deciding' => filedOn[d] # b
    PROVE  FrozenPots'
<1> SUFFICES ASSUME NEW c \in Bets, escrow'[c] > 0
             PROVE  /\ OpenDisputes(c)' # {} => status'[c] = "DISPUTED"
                    /\ \A d, e \in OpenDisputes(c)' : d = e
                    /\ \A u \in Reviewers, d \in Disputes :
                          <<u, d>> \in deciding' /\ filedOn'[d] = c => d \in OpenDisputes(c)'
  BY DEF FrozenPots
<1>1. CASE c = b
  BY <1>1
<1>2. CASE c # b
  <2>1. OpenDisputes(c)' = OpenDisputes(c) /\ status'[c] = status[c] /\ escrow[c] > 0
    BY <1>2
  <2> QED
    BY <2>1 DEF FrozenPots
<1> QED
  BY <1>1, <1>2

LEMMA FilingKeepsFrozen ==
    ASSUME IInv, FrozenPots, NEW d \in Disputes, FilingStep(d)
    PROVE  FrozenPots'
<1> USE DEF IInv, betVars, ledgerVars
<1>1. \A u \in Reviewers : <<u, d>> \in deciding => dispute[d] \in FiledDisputeStatuses
  BY DEF DisputeRows
<1>2. CASE FileConflict(d) \/ \E b \in Bets, p \in Players : FileCheck(d, b, p)
  <2>1. /\ dispute[d] \in {"idle", "filing"} /\ dispute'[d] \in {"idle", "filing"}
        /\ \A e \in Disputes \ {d} : dispute'[e] = dispute[e] /\ filedOn'[e] = filedOn[e]
        /\ UNCHANGED <<status, escrow, deciding>>
    BY <1>2 DEF FileConflict, FileCheck, TypeOK
  <2>2. \A c \in Bets : OpenDisputes(c)' = OpenDisputes(c)
    BY <2>1 DEF OpenDisputes, OpenDisputeStatuses
  <2>3. \A u \in Reviewers : <<u, d>> \notin deciding
    BY <1>1, <2>1 DEF FiledDisputeStatuses, OpenDisputeStatuses
  <2> QED
    BY <2>1, <2>2, <2>3 DEF FrozenPots
<1>3. CASE FileCommit(d)
  <2>2. PICK b \in Bets : b = filedOn[d]
    BY <1>3 DEF FileCommit, DisputeRows
  <2>1. /\ dispute[d] = "filing" /\ status[b] \in {"RESULT_REPORTED", "SETTLED"}
        /\ dispute' = [dispute EXCEPT ![d] = "OPEN"]
        /\ status' = [status EXCEPT ![b] = StatusOnDispute(@)]
        /\ UNCHANGED <<escrow, filedOn, deciding>>
    BY <1>3, <2>2 DEF FileCommit
  <2>3. \A c \in Bets \ {b} : OpenDisputes(c)' = OpenDisputes(c) /\ status'[c] = status[c]
    BY <2>1, <2>2 DEF OpenDisputes, TypeOK
  <2>4. OpenDisputes(b)' = OpenDisputes(b) \cup {d}
    BY <2>1, <2>2 DEF OpenDisputes, OpenDisputeStatuses, TypeOK
  <2>5. ASSUME escrow[b] > 0
        PROVE  /\ status'[b] = "DISPUTED" /\ OpenDisputes(b)' = {d}
               /\ \A u \in Reviewers, e \in Disputes : <<u, e>> \in deciding => filedOn[e] # b
    <3>1. status[b] = "RESULT_REPORTED"
      BY <2>1, <2>2, <2>5 DEF PotState, Paid
    <3>2. status'[b] = "DISPUTED"
      BY <2>1, <2>2, <3>1 DEF StatusOnDispute, TypeOK
    <3>3. OpenDisputes(b) = {}
      BY <2>2, <2>5, <3>1 DEF FrozenPots
    <3>4. OpenDisputes(b)' = {d}
      BY <2>4, <3>3
    <3>5. \A u \in Reviewers, e \in Disputes : <<u, e>> \in deciding => filedOn[e] # b
      BY <2>2, <2>5, <3>3 DEF FrozenPots
    <3> QED
      BY <3>2, <3>4, <3>5
  <2> QED
    BY <2>1, <2>3, <2>5, FrozenOne
<1> QED
  BY <1>2, <1>3 DEF FilingStep

\* The only step that needs the hypothesis: another request could find the
\* dispute decided and a later one open.
LEMMA OutcomeKeepsFrozen ==
    ASSUME IInv, FrozenPots, OneDecisionEach, NEW d \in Disputes, NEW r \in Reviewers,
           NEW result \in Outcomes, ResolveOutcome(r, d, result)
    PROVE  FrozenPots'
<1> USE DEF IInv
<1>2. PICK b \in Bets : b = filedOn[d]
  BY DecidedDispute DEF ResolveOutcome, RecordRuling
<1>1. /\ <<r, d>> \in deciding
      /\ status' = [status EXCEPT ![b] = "RESULT_REPORTED"]
      /\ dispute' = [dispute EXCEPT ![d] = "RESOLVED"]
      /\ deciding' = deciding \ {<<r, d>>}
      /\ UNCHANGED <<escrow, filedOn>>
  BY <1>2 DEF ResolveOutcome, RecordRuling, ledgerVars
<1>3. \A c \in Bets \ {b} : OpenDisputes(c)' = OpenDisputes(c) /\ status'[c] = status[c]
  BY <1>1, <1>2 DEF OpenDisputes, TypeOK
<1>4. ASSUME escrow[b] > 0
      PROVE  /\ OpenDisputes(b)' = {}
             /\ \A u \in Reviewers, e \in Disputes : <<u, e>> \in deciding' => filedOn[e] # b
  <2>1. d \in OpenDisputes(b) /\ \A e \in OpenDisputes(b) : e = d
    BY <1>1, <1>2, <1>4 DEF FrozenPots
  <2>2. OpenDisputes(b)' = {}
    BY <1>1, <2>1 DEF OpenDisputes, OpenDisputeStatuses, TypeOK
  <2>3. ASSUME NEW u \in Reviewers, NEW e \in Disputes, <<u, e>> \in deciding', filedOn[e] = b
        PROVE  FALSE
    <3>1. e = d
      BY <1>1, <1>2, <1>4, <2>1, <2>3 DEF FrozenPots
    <3>2. u = r
      BY <1>1, <2>3, <3>1 DEF OneDecisionEach
    <3> QED
      BY <1>1, <2>3, <3>1, <3>2
  <2> QED
    BY <2>2, <2>3
<1> QED
  BY <1>1, <1>3, <1>4, FrozenOne

LEMMA ReviewKeepsFrozen ==
    ASSUME IInv, FrozenPots, OneDecisionEach, NEW d \in Disputes, ReviewStep(d)
    PROVE  FrozenPots'
<1> USE DEF IInv, betVars, ledgerVars
<1>1. ASSUME NEW r \in Reviewers, ClaimDispute(r, d) PROVE FrozenPots'
  <2>1. /\ dispute[d] \in OpenDisputeStatuses /\ dispute'[d] \in OpenDisputeStatuses
        /\ \A e \in Disputes \ {d} : dispute'[e] = dispute[e]
        /\ UNCHANGED <<status, escrow, filedOn, deciding>>
    BY <1>1 DEF ClaimDispute, OpenDisputeStatuses, TypeOK
  <2>2. \A c \in Bets : OpenDisputes(c)' = OpenDisputes(c)
    BY <2>1 DEF OpenDisputes
  <2> QED
    BY <2>1, <2>2 DEF FrozenPots
<1>2. ASSUME NEW r \in Reviewers, DecideCheck(r, d) PROVE FrozenPots'
  <2>1. /\ dispute[d] \in OpenDisputeStatuses /\ deciding' = deciding \cup {<<r, d>>}
        /\ UNCHANGED <<status, escrow, filedOn, dispute>>
    BY <1>2 DEF DecideCheck
  <2>2. \A c \in Bets : OpenDisputes(c)' = OpenDisputes(c)
    BY <2>1 DEF OpenDisputes
  <2>3. d \in OpenDisputes(filedOn[d])
    BY <2>1 DEF OpenDisputes
  <2> QED
    BY <2>1, <2>2, <2>3 DEF FrozenPots
<1>3. ASSUME NEW r \in Reviewers, ResolveVoid(r, d) PROVE FrozenPots'
  <2>1. /\ <<r, d>> \in deciding /\ RefundBoth(filedOn[d], d) /\ VoidBet(filedOn[d])
        /\ UNCHANGED filedOn /\ deciding' \subseteq deciding
        /\ dispute' = [dispute EXCEPT ![d] = "RESOLVED"]
    BY <1>3 DEF ResolveVoid, RecordRuling
  <2>2. /\ filedOn[d] \in Bets \ SeededBets /\ status[filedOn[d]] # "NONE"
        /\ d \in RefundKeys
    BY <2>1, DecidedDispute DEF RefundKeys
  <2>3. RefundIfHeld(filedOn[d], d)
    BY <2>1, <2>2 DEF RefundIfHeld, HasEscrowAccount
  <2>4. \A e \in Disputes : filedOn[e] # filedOn[d] => dispute'[e] = dispute[e]
    BY <2>1 DEF TypeOK
  <2> QED
    BY <2>1, <2>2, <2>3, <2>4, VoidKeepsFrozen
<1>4. ASSUME NEW r \in Reviewers, ResolveFails(r, d) PROVE FrozenPots'
  BY <1>4, FrozenFrame DEF ResolveFails
<1> QED
  BY <1>1, <1>2, <1>3, <1>4, OutcomeKeepsFrozen DEF ReviewStep

LEMMA EscalationKeepsFrozen ==
    ASSUME IInv, FrozenPots, NEW d \in Disputes, EscalationStep(d)
    PROVE  FrozenPots'
<1> USE DEF IInv, betVars, ledgerVars
<1>1. dispute[d] # "idle" => filedOn[d] \in Bets \ SeededBets /\ status[filedOn[d]] \notin {"NONE", "MATCHED"}
  BY DEF DisputeRows
<1>2. CASE Escalate(d)
  <2>1. /\ dispute[d] \in OpenDisputeStatuses /\ dispute'[d] \in OpenDisputeStatuses
        /\ \A e \in Disputes \ {d} : dispute'[e] = dispute[e]
        /\ UNCHANGED <<status, escrow, filedOn, deciding>>
    BY <1>2 DEF Escalate, OpenDisputeStatuses, TypeOK
  <2>2. \A c \in Bets : OpenDisputes(c)' = OpenDisputes(c)
    BY <2>1 DEF OpenDisputes
  <2> QED
    BY <2>1, <2>2 DEF FrozenPots
<1>3. CASE AutoVoidDispute(d)
  <2>1. /\ dispute[d] = "UNDER_REVIEW" /\ RefundBoth(filedOn[d], "autoVoid") /\ VoidBet(filedOn[d])
        /\ UNCHANGED <<filedOn, deciding>>
        /\ dispute' = [dispute EXCEPT ![d] = "RESOLVED"]
    BY <1>3 DEF AutoVoidDispute, CloseStaleDispute
  <2>2. filedOn[d] \in Bets \ SeededBets /\ status[filedOn[d]] # "NONE" /\ "autoVoid" \in RefundKeys
    BY <1>1, <2>1 DEF RefundKeys
  <2>3. RefundIfHeld(filedOn[d], "autoVoid")
    BY <2>1, <2>2 DEF RefundIfHeld, HasEscrowAccount
  <2>4. \A e \in Disputes : filedOn[e] # filedOn[d] => dispute'[e] = dispute[e]
    BY <2>1 DEF TypeOK
  <2> QED
    BY <2>1, <2>2, <2>3, <2>4, VoidKeepsFrozen
<1>4. CASE AutoCloseDispute(d)
  <2>1. /\ dispute[d] = "UNDER_REVIEW" /\ status[filedOn[d]] \notin {"RESULT_REPORTED", "DISPUTED"}
        /\ UNCHANGED <<status, escrow, filedOn, deciding>>
        /\ dispute' = [dispute EXCEPT ![d] = "RESOLVED"]
    BY <1>4 DEF AutoCloseDispute, CloseStaleDispute
  <2>2. filedOn[d] \in Bets /\ status[filedOn[d]] \in {"SETTLED", "VOIDED"}
    BY <1>1, <2>1 DEF TypeOK, BetStatuses
  <2>3. escrow[filedOn[d]] = 0
    BY <1>1, <2>1, <2>2 DEF PotState, Paid, Refunded
  <2>4. \A e \in Disputes : filedOn[e] # filedOn[d] => dispute'[e] = dispute[e]
    BY <2>1 DEF TypeOK
  <2> QED
    BY <2>1, <2>2, <2>3, <2>4, FrozenElsewhere
<1> QED
  BY <1>2, <1>3, <1>4 DEF EscalationStep

LEMMA FrozenKept == IInv /\ FrozenPots /\ OneDecisionEach /\ [Next]_vars => FrozenPots'
<1> SUFFICES ASSUME IInv, FrozenPots, OneDecisionEach, [Next]_vars PROVE FrozenPots'
  OBVIOUS
<1> USE DEF betVars, ledgerVars, disputeVars
<1>1. ASSUME UNCHANGED <<betVars, ledgerVars, disputeVars>> PROVE FrozenPots'
  BY <1>1, FrozenFrame
<1>2. ASSUME NEW b \in Bets, VoidNoShowMatch(b) PROVE FrozenPots'
  BY <1>2, VoidKeepsFrozen DEF VoidNoShowMatch, RefundKeys
<1>3. ASSUME NEW b \in Bets, PlayerStep(b) PROVE FrozenPots'
  <2>1. ASSUME NEW p \in Players, NEW q \in Players, NEW s \in Stakes, Accept(b, p, q, s)
        PROVE  FrozenPots'
    BY <2>1, StartKeepsFrozen DEF Accept, HoldBoth, IInv, TypeOK
  <2> QED
    BY <1>2, <1>3, <2>1 DEF PlayerStep, WithdrawFromMatch
<1>4. ASSUME NEW b \in Bets, RefereeStep(b) PROVE FrozenPots'
  <2>1. ASSUME NEW result \in Outcomes, SubmitDecision(b, result) PROVE FrozenPots'
    BY <2>1, StartKeepsFrozen DEF SubmitDecision, IInv, TypeOK
  <2>2. CASE \/ \E r \in Referees : ClaimAssignment(b, r)
             \/ Ready(b) \/ Start(b)
    BY <1>1, <2>2 DEF ClaimAssignment, Ready, Start, AdvanceAssignment
  <2> QED
    BY <1>4, <2>1, <2>2 DEF RefereeStep
<1>5. ASSUME NEW b \in Bets, SweepStep(b) PROVE FrozenPots'
  <2>1. CASE SweepStalled(b)
    BY <1>1, <2>1 DEF SweepStalled
  <2> QED
    BY <1>2, <1>5, <2>1 DEF SweepStep, SweepUnclaimed, SweepOverrun, VoidStaleMatch
<1>6. ASSUME NEW b \in Bets, VoidUnderage(b) PROVE FrozenPots'
  BY <1>6, VoidKeepsFrozen DEF VoidUnderage, RefundKeys
<1>7. ASSUME NEW b \in Bets, Tick(b) PROVE FrozenPots'
  BY <1>1, <1>7 DEF Tick
<1>8. ASSUME NEW d \in Disputes, FilingStep(d) PROVE FrozenPots'
  BY <1>8, FilingKeepsFrozen
<1>9. ASSUME NEW d \in Disputes, ReviewStep(d) PROVE FrozenPots'
  BY <1>9, ReviewKeepsFrozen
<1>10. ASSUME NEW d \in Disputes, EscalationStep(d) PROVE FrozenPots'
  BY <1>10, EscalationKeepsFrozen
<1>11. ASSUME NEW b \in Bets, SettlementStep(b) PROVE FrozenPots'
  <2>1. CASE SettleSkip(b) \/ SettleFails(b) \/ Announce(b)
    BY <1>1, <2>1 DEF SettleSkip, SettleFails, Announce
  <2> QED
    BY <1>11, <2>1, SettlementKeepsFrozen DEF SettlementStep
<1>12. ASSUME SettlementScan \/ CrashSettlement \/ UNCHANGED vars PROVE FrozenPots'
  BY <1>1, <1>12 DEF SettlementScan, CrashSettlement, vars
<1> QED
  BY <1>3, <1>4, <1>5, <1>6, <1>7, <1>8, <1>9, <1>10, <1>11, <1>12 DEF Next

LEMMA FrozenInductive == Spec /\ []OneDecisionEach => []FrozenPots
<1>1. Init => FrozenPots
  BY DEF Init, FrozenPots
<1> QED
  BY <1>1, FrozenKept, Inductive, PTL DEF Spec

\* However many requests are in flight, if no two of them decide the same
\* dispute then a bet whose pot is still held shows every open dispute over it.
THEOREM DisputesFreezePots == Spec /\ []OneDecisionEach => []OpenDisputeHoldsPot
<1>1. FrozenPots => OpenDisputeHoldsPot
  BY DEF FrozenPots, OpenDisputeHoldsPot
<1> QED
  BY <1>1, FrozenInductive, PTL

\* A bet is settled by its own settlement and by nothing else.
LEMMA OnlySettlementSettles ==
    ASSUME IInv, [Next]_vars, NEW b \in Bets, status[b] # "SETTLED", status'[b] = "SETTLED"
    PROVE  SettleBet(b)
<1> USE DEF IInv, TypeOK, betVars
<1> SUFFICES ASSUME ~SettleBet(b) PROVE FALSE
  OBVIOUS
<1>1. status' # status
  OBVIOUS
<1>2. ASSUME NEW c \in Bets, VoidBet(c) PROVE FALSE
  BY <1>2 DEF VoidBet
<1>3. ASSUME NEW c \in Bets, PlayerStep(c) \/ SweepStep(c) \/ VoidUnderage(c) PROVE FALSE
  BY <1>1, <1>2, <1>3 DEF PlayerStep, Accept, WithdrawFromMatch, VoidNoShowMatch, SweepStep,
     SweepUnclaimed, SweepOverrun, SweepStalled, VoidStaleMatch, VoidUnderage
<1>4. ASSUME NEW c \in Bets, RefereeStep(c) \/ Tick(c) PROVE FALSE
  BY <1>1, <1>4 DEF RefereeStep, ClaimAssignment, Ready, Start, AdvanceAssignment,
     SubmitDecision, Tick
<1>5. ASSUME NEW d \in Disputes, FilingStep(d) PROVE FALSE
  BY <1>1, <1>5 DEF FilingStep, FileCheck, FileCommit, FileConflict, StatusOnDispute
<1>6. ASSUME NEW d \in Disputes, ReviewStep(d) \/ EscalationStep(d) PROVE FALSE
  BY <1>1, <1>6 DEF ReviewStep, ClaimDispute, DecideCheck, ResolveVoid, ResolveOutcome,
     ResolveFails, EscalationStep, Escalate, AutoVoidDispute, AutoCloseDispute, VoidBet
<1>7. ASSUME NEW c \in Bets, SettlementStep(c) PROVE FALSE
  BY <1>1, <1>7 DEF SettlementStep, SettleBet, SettleSkip, SettleFails, Announce
<1>8. ASSUME SettlementScan \/ CrashSettlement \/ UNCHANGED vars PROVE FALSE
  BY <1>1, <1>8 DEF SettlementScan, CrashSettlement, vars
<1> QED
  BY <1>3, <1>4, <1>5, <1>6, <1>7, <1>8 DEF Next

\* Under the same condition nothing settles over an open dispute, although the
\* worker picked its bets before and does not look at disputes again.
THEOREM DisputedAreNotSettled == Spec /\ []OneDecisionEach => NeverSettledWhileDisputed
<1>1. ASSUME IInv, FrozenPots, [Next]_vars,
             NEW b \in Bets, status[b] # "SETTLED", status'[b] = "SETTLED"
      PROVE  OpenDisputes(b) = {}
  <2>1. SettleBet(b)
    BY <1>1, OnlySettlementSettles
  <2>2. status[b] = "RESULT_REPORTED" /\ escrow[b] = Pot(stake[b])
    BY <2>1 DEF SettleBet, StillReported, PotIntact
  <2>3. escrow[b] > 0
    BY <1>1, <2>2 DEF IInv, BetRows, TypeOK, Pot
  <2> QED
    BY <1>1, <2>2, <2>3 DEF FrozenPots
<1>2. IInv /\ FrozenPots /\ [Next]_vars =>
        [\A b \in Bets :
            status[b] # "SETTLED" /\ status'[b] = "SETTLED" => OpenDisputes(b) = {}]_vars
  BY <1>1
<1> QED
  BY <1>2, FrozenInductive, Inductive, PTL DEF Spec, NeverSettledWhileDisputed

\* With one request in flight at a time no two decide the same dispute.
OneInFlight == deciding = {} \/ \E x \in Reviewers \X Disputes : deciding = {x}

LEMMA FewerInFlight ==
    ASSUME OneInFlight, deciding' \subseteq deciding
    PROVE  OneInFlight'
BY DEF OneInFlight

LEMMA OneAtATime ==
    ASSUME MaxDeciding = 1
    PROVE  Spec => []OneDecisionEach
<1>1. Init => OneInFlight
  BY DEF Init, OneInFlight
<1>2. ASSUME OneInFlight, [Next]_vars PROVE OneInFlight'
  <2> USE DEF betVars, ledgerVars, disputeVars
  <2>1. ASSUME NEW r \in Reviewers, NEW d \in Disputes, DecideCheck(r, d) PROVE OneInFlight'
    <3>1. Cardinality(deciding) < 1 /\ deciding' = deciding \cup {<<r, d>>}
      BY <2>1 DEF DecideCheck
    <3>2. deciding = {}
      BY <1>2, <3>1, FS_Singleton DEF OneInFlight
    <3> QED
      BY <3>1, <3>2 DEF OneInFlight
  <2>2. ASSUME NEW b \in Bets, PlayerStep(b) \/ RefereeStep(b) \/ Tick(b)
        PROVE  deciding' \subseteq deciding
    BY <2>2 DEF PlayerStep, Accept, WithdrawFromMatch, VoidNoShowMatch, RefereeStep,
       ClaimAssignment, Ready, Start, AdvanceAssignment, SubmitDecision, Tick
  <2>3. ASSUME NEW b \in Bets, SweepStep(b) \/ VoidUnderage(b) \/ SettlementStep(b)
        PROVE  deciding' \subseteq deciding
    BY <2>3 DEF SweepStep, SweepUnclaimed, SweepOverrun, SweepStalled, VoidStaleMatch,
       VoidNoShowMatch, VoidUnderage, SettlementStep, SettleBet, SettleSkip, SettleFails, Announce
  <2>4. ASSUME NEW d \in Disputes, FilingStep(d) \/ EscalationStep(d)
        PROVE  deciding' \subseteq deciding
    BY <2>4 DEF FilingStep, FileCheck, FileCommit, FileConflict, EscalationStep, Escalate,
       AutoVoidDispute, AutoCloseDispute, CloseStaleDispute
  <2>5. ASSUME NEW d \in Disputes, ReviewStep(d) PROVE OneInFlight'
    BY <1>2, <2>1, <2>5, FewerInFlight DEF ReviewStep, ClaimDispute, ResolveVoid,
       ResolveOutcome, RecordRuling, ResolveFails
  <2>6. CASE SettlementScan \/ CrashSettlement \/ UNCHANGED vars
    BY <1>2, <2>6, FewerInFlight DEF SettlementScan, CrashSettlement, vars
  <2> QED
    BY <1>2, <2>2, <2>3, <2>4, <2>5, <2>6, FewerInFlight DEF Next
<1>3. OneInFlight => OneDecisionEach
  BY DEF OneInFlight, OneDecisionEach
<1> QED
  BY <1>1, <1>2, <1>3, PTL DEF Spec
=============================================================================

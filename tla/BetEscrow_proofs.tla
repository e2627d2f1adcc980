-------------------------- MODULE BetEscrow_proofs --------------------------
(***************************************************************************)
(* The safety of BetEscrow for any bets, users, disputes, stakes and       *)
(* percentages: the invariant IInv is inductive, the invariants the model  *)
(* checker sees on small instances follow from it, and every step is a     *)
(* step of StakeCustody or leaves custody alone.                           *)
(***************************************************************************)
EXTENDS BetEscrow, Payout_proofs

-----------------------------------------------------------------------------
(* Frames: what a step that touches only some of the tables preserves *)

\* A step that leaves bets, ledger and assignments alone.
LEMMA BetFrame ==
    ASSUME BetRows, PotState, PaidAccordingToOutcome, OneActiveMatchPerReferee,
           UNCHANGED <<betVars, ledgerVars, refereeVars>>
    PROVE  BetRows' /\ PotState' /\ PaidAccordingToOutcome' /\ OneActiveMatchPerReferee'
<1> USE DEF betVars, ledgerVars, refereeVars
<1>1. BetRows'
  BY DEF BetRows
<1>2. PotState'
  BY DEF PotState, Untouched, Held, Paid, Refunded
<1>3. PaidAccordingToOutcome'
  BY DEF PaidAccordingToOutcome
<1>4. OneActiveMatchPerReferee'
  BY DEF OneActiveMatchPerReferee
<1> QED
  BY <1>1, <1>2, <1>3, <1>4

\* A step that leaves disputes, players and referees alone, and takes no bet
\* back to before its result.
LEMMA DisputeFrame ==
    ASSUME DisputeRows, UNCHANGED <<disputeVars, playerA, playerB, referee>>,
           \A b \in Bets : status'[b] \in {"NONE", "MATCHED"} => status[b] \in {"NONE", "MATCHED"}
    PROVE  DisputeRows'
BY DEF DisputeRows, disputeVars, Independent, IsPlayer

\* Refunding both players is possible only from a whole pot, and empties it.
LEMMA RefundFacts ==
    ASSUME TypeOK, NEW b \in Bets, stake[b] > 0, Held(b) \/ Paid(b) \/ Refunded(b),
           NEW key \in RefundKeys, RefundBoth(b, key), UNCHANGED <<stake, playerA, playerB>>
    PROVE  /\ Held(b)
           /\ Refunded(b)'
           /\ \A c \in Bets \ {b} :
                 escrow'[c] = escrow[c] /\ posted'[c] = posted[c] /\ credit'[c] = credit[c]
           /\ escrow' \in [Bets -> Nat]
           /\ posted' \in [Bets -> SUBSET PostingKeys]
           /\ credit' \in [Bets -> [A : Nat, B : Nat, house : Nat]]
           /\ wallet' \in [Users -> Nat]
           /\ revenue' \in Nat /\ devBalance' \in Nat /\ currentEscrow' \in Nat
<1>1. stake[b] \in Nat /\ escrow[b] \in Nat /\ Moved(b, key) \in {0, stake[b]}
  BY DEF TypeOK, Moved
<1>2. escrow[b] >= stake[b] + Moved(b, key)
  BY DEF RefundBoth, Refundable
<1>3. escrow[b] > 0
  BY <1>1, <1>2
<1>4. Held(b)
  BY <1>3 DEF Paid, Refunded
<1>5. Moved(b, key) = stake[b]
  BY <1>4 DEF Held, Moved
<1>6. escrow' = [escrow EXCEPT ![b] = @ - 2 * stake[b]]
  BY <1>5 DEF RefundBoth
<1>7. escrow'[b] = 0 /\ escrow' \in [Bets -> Nat]
  BY <1>1, <1>4, <1>6 DEF Held, Pot, TypeOK
<1>8. posted' = [posted EXCEPT ![b] = {key}]
  BY <1>4 DEF RefundBoth, Held
<1>9. posted'[b] = {key} /\ posted' \in [Bets -> SUBSET PostingKeys]
  BY <1>8 DEF TypeOK, PostingKeys
<1>10. credit' = [credit EXCEPT ![b] = [A |-> stake[b], B |-> stake[b], house |-> 0]]
  <2>1. credit[b] = [A |-> 0, B |-> 0, house |-> 0]
    BY <1>4 DEF Held, NoCredit
  <2>2. credit' = [credit EXCEPT ![b] =
           [A |-> credit[b].A + stake[b], B |-> credit[b].B + stake[b], house |-> credit[b].house]]
    BY <1>5 DEF RefundBoth
  <2>3. credit[b].A + stake[b] = stake[b] /\ credit[b].B + stake[b] = stake[b] /\ credit[b].house = 0
    BY <2>1, <1>1
  <2> QED
    BY <2>2, <2>3
<1>11. /\ credit'[b] = [A |-> stake[b], B |-> stake[b], house |-> 0]
       /\ credit' \in [Bets -> [A : Nat, B : Nat, house : Nat]]
  BY <1>1, <1>10 DEF TypeOK
<1>12. wallet' \in [Users -> Nat]
  BY <1>1, <1>5 DEF TypeOK, RefundBoth, Receives
<1>13. revenue' \in Nat /\ devBalance' \in Nat /\ currentEscrow' \in Nat
  BY <1>1, <1>5 DEF TypeOK, RefundBoth, AtLeastZero, FreedByRefund
<1>14. Refunded(b)'
  BY <1>7, <1>9, <1>11 DEF Refunded
<1>15. \A c \in Bets \ {b} :
          escrow'[c] = escrow[c] /\ posted'[c] = posted[c] /\ credit'[c] = credit[c]
  BY <1>6, <1>8, <1>10 DEF TypeOK
<1> QED
  BY <1>4, <1>7, <1>9, <1>11, <1>12, <1>13, <1>14, <1>15

-----------------------------------------------------------------------------
(* The initial states *)

LEMMA InitIInv == Init => IInv
<1> SUFFICES ASSUME Init PROVE IInv
  OBVIOUS
<1> USE UsersAssumption, MoneyAssumption, RowsAssumption DEF Init
<1>1. PICK s \in Stakes, p \in Players, q \in Players :
         /\ stake = [b \in Bets |-> IF b \in SeededBets THEN s ELSE 0]
         /\ playerA = [b \in Bets |-> IF b \in SeededBets THEN p ELSE Null]
         /\ playerB = [b \in Bets |-> IF b \in SeededBets THEN q ELSE Null]
  OBVIOUS
<1>2. TypeOK
  BY <1>1 DEF TypeOK, BetStatuses, AssignmentStatuses, NoCredit
<1>3. BetRows
  BY <1>1 DEF BetRows, LiveAssignments
<1>4. DisputeRows
  BY DEF DisputeRows
<1>5. PotState
  <2>1. \A b \in Bets : Untouched(b)
    BY DEF Untouched
  <2>2. \A b \in SeededBets : escrow[b] = 0 /\ stake[b] > 0 /\ stake[b] \in Nat
    BY <1>1
  <2> QED
    BY <2>1, <2>2 DEF PotState, Held, Pot
<1>6. PaidAccordingToOutcome
  BY DEF PaidAccordingToOutcome
<1>7. OneActiveMatchPerReferee
  BY DEF OneActiveMatchPerReferee, ActiveAssignments
<1> QED
  BY <1>2, <1>3, <1>4, <1>5, <1>6, <1>7 DEF IInv

-----------------------------------------------------------------------------
(* Steps that change only disputes or the settlement worker *)

LEMMA FileCheckStep ==
    ASSUME IInv, NEW d \in Disputes, NEW b \in Bets, NEW p \in Players, FileCheck(d, b, p)
    PROVE  IInv'
<1> USE DEF FileCheck, IInv
<1>1. TypeOK'
  BY DEF TypeOK, betVars, ledgerVars, refereeVars, workerVars
<1>2. DisputeRows'
  <2>1. b \notin SeededBets /\ status[b] \notin {"NONE", "MATCHED"}
    BY DEF BetRows
  <2>2. \A u \in Reviewers : ~(<<u, d>> \in deciding) /\ decidedBy[d] # u
    BY DEF DisputeRows, FiledDisputeStatuses, OpenDisputeStatuses
  <2> QED
    BY <2>1, <2>2 DEF DisputeRows, TypeOK, Independent, IsPlayer, betVars, refereeVars
<1>3. BetRows' /\ PotState' /\ PaidAccordingToOutcome' /\ OneActiveMatchPerReferee'
  BY BetFrame
<1> QED
  BY <1>1, <1>2, <1>3

LEMMA FileConflictStep ==
    ASSUME IInv, NEW d \in Disputes, FileConflict(d)
    PROVE  IInv'
<1> USE DEF FileConflict, IInv
<1>1. TypeOK'
  BY DEF TypeOK, betVars, ledgerVars, refereeVars, workerVars
<1>2. DisputeRows'
  <2>1. \A u \in Reviewers : ~(<<u, d>> \in deciding) /\ decidedBy[d] # u
    BY DEF DisputeRows, FiledDisputeStatuses, OpenDisputeStatuses
  <2> QED
    BY <2>1 DEF DisputeRows, TypeOK, Independent, IsPlayer, betVars, refereeVars
<1>3. BetRows' /\ PotState' /\ PaidAccordingToOutcome' /\ OneActiveMatchPerReferee'
  BY BetFrame
<1> QED
  BY <1>1, <1>2, <1>3

LEMMA ClaimDisputeStep ==
    ASSUME IInv, NEW r \in Reviewers, NEW d \in Disputes, ClaimDispute(r, d)
    PROVE  IInv'
<1> USE DEF ClaimDispute, IInv, FiledDisputeStatuses, OpenDisputeStatuses
<1>1. TypeOK'
  BY DEF TypeOK, betVars, ledgerVars, refereeVars, workerVars
<1>2. DisputeRows'
  BY DEF DisputeRows, TypeOK, Independent, IsPlayer, betVars, refereeVars
<1>3. BetRows' /\ PotState' /\ PaidAccordingToOutcome' /\ OneActiveMatchPerReferee'
  BY BetFrame
<1> QED
  BY <1>1, <1>2, <1>3

LEMMA DecideCheckStep ==
    ASSUME IInv, NEW r \in Reviewers, NEW d \in Disputes, DecideCheck(r, d)
    PROVE  IInv'
<1> USE DEF DecideCheck, IInv, FiledDisputeStatuses, OpenDisputeStatuses
<1>1. TypeOK'
  BY DEF TypeOK, betVars, ledgerVars, refereeVars, workerVars
<1>2. DisputeRows'
  BY DEF DisputeRows, TypeOK, Independent, IsPlayer, betVars, refereeVars
<1>3. BetRows' /\ PotState' /\ PaidAccordingToOutcome' /\ OneActiveMatchPerReferee'
  BY BetFrame
<1> QED
  BY <1>1, <1>2, <1>3

LEMMA ResolveFailsStep ==
    ASSUME IInv, NEW r \in Reviewers, NEW d \in Disputes, ResolveFails(r, d)
    PROVE  IInv'
<1> USE DEF ResolveFails, IInv
<1>1. TypeOK'
  BY DEF TypeOK, betVars, ledgerVars, refereeVars, workerVars
<1>2. DisputeRows'
  BY DEF DisputeRows, TypeOK, Independent, IsPlayer, betVars, refereeVars
<1>3. BetRows' /\ PotState' /\ PaidAccordingToOutcome' /\ OneActiveMatchPerReferee'
  BY BetFrame
<1> QED
  BY <1>1, <1>2, <1>3

LEMMA EscalateStep ==
    ASSUME IInv, NEW d \in Disputes, Escalate(d)
    PROVE  IInv'
<1> USE DEF Escalate, IInv, FiledDisputeStatuses, OpenDisputeStatuses
<1>1. TypeOK'
  BY DEF TypeOK, betVars, ledgerVars, refereeVars, workerVars
<1>2. DisputeRows'
  BY DEF DisputeRows, TypeOK, Independent, IsPlayer, betVars, refereeVars
<1>3. BetRows' /\ PotState' /\ PaidAccordingToOutcome' /\ OneActiveMatchPerReferee'
  BY BetFrame
<1> QED
  BY <1>1, <1>2, <1>3

LEMMA AutoCloseDisputeStep ==
    ASSUME IInv, NEW d \in Disputes, AutoCloseDispute(d)
    PROVE  IInv'
<1> USE DEF AutoCloseDispute, CloseStaleDispute, IInv, FiledDisputeStatuses, OpenDisputeStatuses
<1>1. TypeOK'
  BY DEF TypeOK, betVars, ledgerVars, refereeVars, workerVars, Rulings
<1>2. DisputeRows'
  BY DEF DisputeRows, TypeOK, Independent, IsPlayer, betVars, refereeVars
<1>3. BetRows' /\ PotState' /\ PaidAccordingToOutcome' /\ OneActiveMatchPerReferee'
  BY BetFrame
<1> QED
  BY <1>1, <1>2, <1>3

\* The worker's bookkeeping: batches, skips, failures, mail, crashes.
LEMMA WorkerStep ==
    ASSUME IInv,
           \/ SettlementScan \/ CrashSettlement
           \/ \E b \in Bets : SettleSkip(b) \/ SettleFails(b) \/ Announce(b)
    PROVE  IInv'
<1>1. UNCHANGED <<betVars, ledgerVars, refereeVars, disputeVars>>
  BY DEF SettlementScan, CrashSettlement, SettleSkip, SettleFails, Announce
<1>2. /\ settling' \subseteq Bets /\ announcing' \subseteq Bets
      /\ mailed' \in [Bets -> Outcomes \cup {"none"}]
  BY DEF SettlementScan, CrashSettlement, SettleSkip, SettleFails, Announce, IInv, TypeOK
<1>3. TypeOK'
  BY <1>1, <1>2 DEF IInv, TypeOK, betVars, ledgerVars, refereeVars, disputeVars
<1>4. DisputeRows'
  BY <1>1, DisputeFrame DEF IInv, betVars, refereeVars
<1>5. BetRows' /\ PotState' /\ PaidAccordingToOutcome' /\ OneActiveMatchPerReferee'
  BY <1>1, BetFrame DEF IInv
<1> QED
  BY <1>3, <1>4, <1>5 DEF IInv

-----------------------------------------------------------------------------
(* Accepting, and the referee's steps *)

\* A step that moves no money and takes no bet in or out of NONE, MATCHED,
\* SETTLED or VOIDED, other than from MATCHED to RESULT_REPORTED.
LEMMA PotFrame ==
    ASSUME PotState, UNCHANGED <<ledgerVars, stake>>,
           \A b \in Bets :
              \/ status'[b] = status[b]
              \/ /\ status[b] # "NONE" /\ b \notin SeededBets
                 /\ status'[b] \in {"RESULT_REPORTED", "DISPUTED"}
    PROVE  PotState'
BY DEF PotState, Untouched, Held, Paid, Refunded, ledgerVars

LEMMA AcceptStep ==
    ASSUME IInv, NEW b \in Bets, NEW p \in Players, NEW q \in Players, NEW s \in Stakes,
           Accept(b, p, q, s)
    PROVE  IInv'
<1> USE DEF Accept, HoldBoth, IInv
<1>1. s \in Nat /\ s > 0 /\ p \in Users /\ q \in Users
  BY MoneyAssumption, UsersAssumption
<1>2. b \notin SeededBets /\ Untouched(b)
  BY DEF BetRows, PotState
<1>3. TypeOK'
  BY <1>1 DEF TypeOK, BetStatuses, AssignmentStatuses, LiveAssignments, disputeVars, workerVars
<1>4. BetRows'
  BY <1>1, <1>2 DEF BetRows, TypeOK
<1>5. DisputeRows'
  BY DEF DisputeRows, TypeOK, Independent, IsPlayer, disputeVars, FiledDisputeStatuses,
         OpenDisputeStatuses
<1>6. PotState'
  <2>1. Held(b)'
    BY <1>1, <1>2 DEF Held, Untouched, Pot, TypeOK
  <2>2. \A c \in Bets \ {b} :
           /\ status'[c] = status[c]
           /\ Untouched(c)' = Untouched(c) /\ Held(c)' = Held(c)
           /\ Paid(c)' = Paid(c) /\ Refunded(c)' = Refunded(c)
    BY DEF TypeOK, Untouched, Held, Paid, Refunded
  <2>3. status'[b] = "MATCHED"
    BY DEF TypeOK
  <2> QED
    BY <1>2, <2>1, <2>2, <2>3 DEF PotState
<1>7. PaidAccordingToOutcome'
  BY DEF PaidAccordingToOutcome, TypeOK
<1>8. OneActiveMatchPerReferee'
  BY DEF OneActiveMatchPerReferee, TypeOK, ActiveAssignments
<1> QED
  BY <1>3, <1>4, <1>5, <1>6, <1>7, <1>8

LEMMA ClaimAssignmentStep ==
    ASSUME IInv, NEW b \in Bets, NEW r \in Referees, ClaimAssignment(b, r)
    PROVE  IInv'
<1> USE DEF ClaimAssignment, IInv
<1>1. status[b] = "MATCHED" /\ b \notin SeededBets
  BY DEF BetRows, LiveAssignments
<1>2. TypeOK'
  BY DEF TypeOK, AssignmentStatuses, LiveAssignments, betVars, ledgerVars, disputeVars,
         workerVars
<1>3. BetRows'
  BY <1>1 DEF BetRows, TypeOK, betVars
<1>4. DisputeRows'
  BY <1>1 DEF DisputeRows, TypeOK, Independent, IsPlayer, disputeVars, betVars,
         FiledDisputeStatuses, OpenDisputeStatuses
<1>5. PotState'
  BY PotFrame DEF betVars
<1>6. PaidAccordingToOutcome'
  BY DEF PaidAccordingToOutcome, betVars, ledgerVars
<1>7. OneActiveMatchPerReferee'
  BY DEF OneActiveMatchPerReferee, FreeToClaim, TypeOK
<1> QED
  BY <1>2, <1>3, <1>4, <1>5, <1>6, <1>7

LEMMA AdvanceStep ==
    ASSUME IInv, NEW b \in Bets, Ready(b) \/ Start(b)
    PROVE  IInv'
<1> USE DEF Ready, Start, AdvanceAssignment, IInv
<1>1. status[b] = "MATCHED" /\ b \notin SeededBets
  BY DEF BetRows, LiveAssignments
<1>2. TypeOK'
  BY DEF TypeOK, AssignmentStatuses, LiveAssignments, betVars, ledgerVars, disputeVars,
         workerVars
<1>3. BetRows'
  BY <1>1 DEF BetRows, TypeOK, betVars
<1>4. DisputeRows'
  BY DisputeFrame DEF betVars
<1>5. PotState'
  BY PotFrame DEF betVars
<1>6. PaidAccordingToOutcome'
  BY DEF PaidAccordingToOutcome, betVars, ledgerVars
<1>7. OneActiveMatchPerReferee'
  BY DEF OneActiveMatchPerReferee, TypeOK, ActiveAssignments
<1> QED
  BY <1>2, <1>3, <1>4, <1>5, <1>6, <1>7

LEMMA SubmitDecisionStep ==
    ASSUME IInv, NEW b \in Bets, NEW result \in Outcomes, SubmitDecision(b, result)
    PROVE  IInv'
<1> USE DEF SubmitDecision, IInv
<1>1. b \notin SeededBets
  BY DEF BetRows, LiveAssignments
<1>2. TypeOK'
  BY DEF TypeOK, AssignmentStatuses, BetStatuses, ledgerVars, disputeVars, workerVars
<1>3. BetRows'
  BY <1>1 DEF BetRows, TypeOK, LiveAssignments
<1>4. DisputeRows'
  BY DisputeFrame DEF TypeOK
<1>5. PotState'
  BY <1>1, PotFrame DEF TypeOK
<1>6. PaidAccordingToOutcome'
  BY DEF PaidAccordingToOutcome, TypeOK, ledgerVars
<1>7. OneActiveMatchPerReferee'
  BY DEF OneActiveMatchPerReferee, TypeOK, ActiveAssignments
<1> QED
  BY <1>2, <1>3, <1>4, <1>5, <1>6, <1>7

LEMMA TickStep ==
    ASSUME IInv, NEW b \in Bets, Tick(b)
    PROVE  IInv'
<1> USE DEF Tick, IInv
<1>1. TypeOK'
  BY DEF TypeOK, betVars, ledgerVars, disputeVars, workerVars
<1>2. BetRows' /\ PaidAccordingToOutcome' /\ OneActiveMatchPerReferee'
  BY DEF BetRows, PaidAccordingToOutcome, OneActiveMatchPerReferee, betVars, ledgerVars
<1>3. DisputeRows'
  BY DisputeFrame DEF betVars
<1>4. PotState'
  BY PotFrame DEF betVars
<1> QED
  BY <1>1, <1>2, <1>3, <1>4

LEMMA SweepStalledStep ==
    ASSUME IInv, NEW b \in Bets, SweepStalled(b)
    PROVE  IInv'
<1> USE DEF SweepStalled, IInv
<1>1. TypeOK'
  BY DEF TypeOK, AssignmentStatuses, LiveAssignments, betVars, ledgerVars, disputeVars,
         workerVars
<1>2. BetRows'
  BY DEF BetRows, TypeOK, betVars, LiveAssignments
<1>3. DisputeRows'
  BY DEF DisputeRows, TypeOK, Independent, IsPlayer, disputeVars, betVars,
         FiledDisputeStatuses, OpenDisputeStatuses
<1>4. PotState'
  BY PotFrame DEF betVars
<1>5. PaidAccordingToOutcome'
  BY DEF PaidAccordingToOutcome, betVars, ledgerVars
<1>6. OneActiveMatchPerReferee'
  BY DEF OneActiveMatchPerReferee, TypeOK, ActiveAssignments
<1> QED
  BY <1>1, <1>2, <1>3, <1>4, <1>5, <1>6

-----------------------------------------------------------------------------
(* Voids *)

LedgerTypes ==
    /\ escrow \in [Bets -> Nat]
    /\ posted \in [Bets -> SUBSET PostingKeys]
    /\ credit \in [Bets -> [A : Nat, B : Nat, house : Nat]]
    /\ wallet \in [Users -> Nat]
    /\ revenue \in Nat /\ devBalance \in Nat /\ currentEscrow \in Nat

\* Voiding an unsettled bet with its refund moves its pot from held to
\* refunded; a demo bet has nothing to move.
LEMMA VoidedPot ==
    ASSUME IInv, NEW b \in Bets, NEW key \in RefundKeys,
           status[b] \in {"MATCHED", "RESULT_REPORTED", "DISPUTED"},
           VoidBet(b), RefundIfHeld(b, key)
    PROVE  /\ LedgerTypes' /\ PotState' /\ PaidAccordingToOutcome'
           /\ b \notin SeededBets => Held(b) /\ Refunded(b)'
           /\ status' \in [Bets -> BetStatuses] /\ status'[b] = "VOIDED"
           /\ \A c \in Bets \ {b} :
                 /\ status'[c] = status[c]
                 /\ escrow'[c] = escrow[c] /\ posted'[c] = posted[c] /\ credit'[c] = credit[c]
<1> USE DEF IInv
<1>1. /\ status' \in [Bets -> BetStatuses] /\ status'[b] = "VOIDED"
      /\ \A c \in Bets \ {b} : status'[c] = status[c]
      /\ UNCHANGED <<outcome, stake, playerA, playerB>>
  BY DEF VoidBet, TypeOK, BetStatuses
<1>2. stake[b] > 0 /\ stake[b] \in Nat
  BY DEF BetRows, TypeOK
<1>3. CASE b \in SeededBets
  <2>1. UNCHANGED ledgerVars
    BY <1>3 DEF RefundIfHeld, HasEscrowAccount
  <2>2. LedgerTypes'
    BY <2>1 DEF LedgerTypes, TypeOK, ledgerVars
  <2>3. Untouched(b)
    BY <1>3 DEF PotState
  <2>4. PotState'
    BY <1>1, <1>2, <1>3, <2>1, <2>3 DEF PotState, Untouched, Held, Paid, Refunded, Pot, ledgerVars
  <2>5. PaidAccordingToOutcome'
    BY <1>1, <2>1 DEF PaidAccordingToOutcome, ledgerVars
  <2> QED
    BY <1>1, <1>3, <2>1, <2>2, <2>4, <2>5 DEF ledgerVars
<1>4. CASE b \notin SeededBets
  <2>1. RefundBoth(b, key)
    BY <1>4 DEF RefundIfHeld, HasEscrowAccount
  <2>2. Held(b) \/ Paid(b) \/ Refunded(b)
    BY <1>4 DEF PotState
  <2>3. /\ Held(b) /\ Refunded(b)' /\ LedgerTypes'
        /\ \A c \in Bets \ {b} :
              escrow'[c] = escrow[c] /\ posted'[c] = posted[c] /\ credit'[c] = credit[c]
    BY <1>1, <1>2, <2>1, <2>2, RefundFacts DEF LedgerTypes
  <2>4. ~Held(b)'
    <3>1. escrow'[b] = 0 /\ stake'[b] = stake[b]
      BY <1>1, <2>3 DEF Refunded
    <3> QED
      BY <1>2, <3>1 DEF Held, Pot
  <2>5. PotState'
    <3>1. \A c \in Bets \ {b} :
             /\ Untouched(c)' = Untouched(c) /\ Held(c)' = Held(c)
             /\ Paid(c)' = Paid(c) /\ Refunded(c)' = Refunded(c)
      BY <1>1, <2>3 DEF Untouched, Held, Paid, Refunded
    <3> QED
      BY <1>1, <1>4, <2>3, <2>4, <3>1 DEF PotState
  <2>6. PaidAccordingToOutcome'
    BY <1>1, <2>3 DEF PaidAccordingToOutcome
  <2> QED
    BY <1>1, <2>3, <2>5, <2>6
<1> QED
  BY <1>3, <1>4

\* What cancelling an assignment does to the rows about it.
LEMMA CancelledAssignment ==
    ASSUME TypeOK, NEW b \in Bets, NEW cancellable, CancelAssignment(b, cancellable)
    PROVE  /\ assignment' \in [Bets -> AssignmentStatuses]
           /\ assignment'[b] \in {"CANCELLED", assignment[b]}
           /\ assignment[b] \in cancellable => assignment'[b] = "CANCELLED"
           /\ \A c \in Bets \ {b} : assignment'[c] = assignment[c]
           /\ UNCHANGED <<referee, decision, clock>>
BY DEF TypeOK, CancelAssignment, AssignmentStatuses

\* The tables a void leaves in order, once its pot is.
LEMMA VoidedRows ==
    ASSUME IInv, NEW b \in Bets, NEW cancellable, LiveAssignments \subseteq cancellable,
           VoidBet(b), CancelAssignment(b, cancellable),
           status[b] \notin {"NONE", "SETTLED"}
    PROVE  BetRows' /\ OneActiveMatchPerReferee'
<1> USE DEF IInv
<1>1. /\ status'[b] = "VOIDED" /\ UNCHANGED <<stake, playerA, playerB>>
      /\ \A c \in Bets \ {b} : status'[c] = status[c]
  BY DEF VoidBet, TypeOK
<1>2. assignment'[b] \notin LiveAssignments
  BY CancelledAssignment DEF LiveAssignments
<1>3. /\ \A c \in Bets \ {b} : assignment'[c] = assignment[c]
      /\ UNCHANGED referee
  BY CancelledAssignment
<1>4. BetRows'
  BY <1>1, <1>2, <1>3 DEF BetRows
<1>5. OneActiveMatchPerReferee'
  BY <1>2, <1>3 DEF OneActiveMatchPerReferee, ActiveAssignments, LiveAssignments
<1> QED
  BY <1>4, <1>5

LEMMA VoidNoShowStep ==
    ASSUME IInv, NEW b \in Bets, VoidNoShowMatch(b)
    PROVE  IInv'
<1> USE DEF VoidNoShowMatch, IInv
<1>1. "noshow" \in RefundKeys
  BY DEF RefundKeys
<1>2. LedgerTypes' /\ PotState' /\ PaidAccordingToOutcome' /\ status' \in [Bets -> BetStatuses]
  BY <1>1, VoidedPot
<1>3. TypeOK'
  BY <1>2, CancelledAssignment DEF TypeOK, LedgerTypes, VoidBet, disputeVars, workerVars
<1>4. BetRows' /\ OneActiveMatchPerReferee'
  BY VoidedRows
<1>5. DisputeRows'
  BY DisputeFrame, CancelledAssignment DEF VoidBet, TypeOK
<1> QED
  BY <1>2, <1>3, <1>4, <1>5

LEMMA VoidUnderageStep ==
    ASSUME IInv, NEW b \in Bets, VoidUnderage(b)
    PROVE  IInv'
<1> USE DEF VoidUnderage, IInv
<1>1. "underage" \in RefundKeys
  BY DEF RefundKeys
<1>2. LedgerTypes' /\ PotState' /\ PaidAccordingToOutcome' /\ status' \in [Bets -> BetStatuses]
  BY <1>1, VoidedPot
<1>3. TypeOK'
  BY <1>2, CancelledAssignment DEF TypeOK, LedgerTypes, VoidBet, disputeVars, workerVars
<1>4. BetRows' /\ OneActiveMatchPerReferee'
  <2>1. LiveAssignments \subseteq AssignmentStatuses \ {"NONE", "COMPLETED", "CANCELLED"}
    BY DEF LiveAssignments, AssignmentStatuses
  <2> QED
    BY <2>1, VoidedRows
<1>5. DisputeRows'
  BY DisputeFrame, CancelledAssignment DEF VoidBet, TypeOK
<1> QED
  BY <1>2, <1>3, <1>4, <1>5

LEMMA AutoVoidDisputeStep ==
    ASSUME IInv, NEW d \in Disputes, AutoVoidDispute(d)
    PROVE  IInv'
<1> DEFINE b == filedOn[d]
<1> USE DEF AutoVoidDispute, CloseStaleDispute, IInv
<1>1. "autoVoid" \in RefundKeys
  BY DEF RefundKeys
<1>2. b \in Bets /\ b \notin SeededBets /\ dispute[d] \in FiledDisputeStatuses
  BY DEF DisputeRows, FiledDisputeStatuses, OpenDisputeStatuses
<1>3. RefundIfHeld(b, "autoVoid")
  BY <1>2 DEF RefundIfHeld, HasEscrowAccount
<1>4. LedgerTypes' /\ PotState' /\ PaidAccordingToOutcome' /\ status' \in [Bets -> BetStatuses]
  BY <1>1, <1>2, <1>3, VoidedPot
<1>5. /\ assignment' \in [Bets -> AssignmentStatuses]
      /\ UNCHANGED <<referee, decision, clock>>
  BY <1>2, CancelledAssignment
<1>6. TypeOK'
  BY <1>4, <1>5 DEF TypeOK, LedgerTypes, VoidBet, workerVars, FiledDisputeStatuses, Rulings
<1>7. BetRows' /\ OneActiveMatchPerReferee'
  <2>1. LiveAssignments \subseteq AssignmentStatuses \ {"NONE", "COMPLETED", "CANCELLED"}
    BY DEF LiveAssignments, AssignmentStatuses
  <2> QED
    BY <1>2, <2>1, VoidedRows
<1>8. DisputeRows'
  BY <1>2, <1>5 DEF DisputeRows, VoidBet, TypeOK, Independent, IsPlayer, FiledDisputeStatuses
<1> QED
  BY <1>4, <1>6, <1>7, <1>8

-----------------------------------------------------------------------------
(* Disputes that change their bet *)

LEMMA FileCommitStep ==
    ASSUME IInv, NEW d \in Disputes, FileCommit(d)
    PROVE  IInv'
<1> DEFINE b == filedOn[d]
<1> USE DEF FileCommit, StatusOnDispute, IInv
<1>1. b \in Bets /\ b \notin SeededBets
  BY DEF DisputeRows
<1>2. TypeOK'
  BY DEF TypeOK, BetStatuses, AssignmentStatuses, FiledDisputeStatuses, OpenDisputeStatuses,
         ledgerVars, workerVars
<1>3. BetRows'
  BY <1>1 DEF BetRows, TypeOK, LiveAssignments
<1>4. DisputeRows'
  BY <1>1 DEF DisputeRows, TypeOK, Independent, IsPlayer, FiledDisputeStatuses,
         OpenDisputeStatuses
<1>5. PotState'
  BY <1>1, PotFrame DEF TypeOK
<1>6. PaidAccordingToOutcome'
  BY DEF PaidAccordingToOutcome, TypeOK, ledgerVars
<1>7. OneActiveMatchPerReferee'
  BY DEF OneActiveMatchPerReferee, TypeOK, ActiveAssignments
<1> QED
  BY <1>2, <1>3, <1>4, <1>5, <1>6, <1>7

\* The dispute a decision is about to be recorded on.
LEMMA DecidedDispute ==
    ASSUME IInv, NEW r \in Reviewers, NEW d \in Disputes, <<r, d>> \in deciding
    PROVE  /\ filedOn[d] \in Bets \ SeededBets
           /\ status[filedOn[d]] \notin {"NONE", "MATCHED"}
           /\ dispute[d] \in FiledDisputeStatuses
           /\ Independent(r, filedOn[d])
BY DEF IInv, DisputeRows, FiledDisputeStatuses, OpenDisputeStatuses

\* Recording a ruling keeps the dispute tables in order.
LEMMA RecordedRuling ==
    ASSUME IInv, NEW r \in Reviewers, NEW d \in Disputes, <<r, d>> \in deciding,
           NEW rule \in Rulings, RecordRuling(r, d, rule),
           UNCHANGED <<playerA, playerB, referee>>,
           \A b \in Bets : status'[b] \in {"NONE", "MATCHED"} => status[b] \in {"NONE", "MATCHED"}
    PROVE  /\ dispute' \in [Disputes -> {"idle", "filing"} \cup FiledDisputeStatuses]
           /\ reviewer' \in [Disputes -> Reviewers \cup {Null}]
           /\ ruling' \in [Disputes -> Rulings \cup {"none"}]
           /\ decidedBy' \in [Disputes -> Reviewers \cup {Null}]
           /\ deciding' \subseteq Reviewers \X Disputes
           /\ UNCHANGED <<filedOn, filedBy, workerVars>>
           /\ DisputeRows'
<1> USE DEF IInv, RecordRuling
<1>1. /\ dispute' \in [Disputes -> {"idle", "filing"} \cup FiledDisputeStatuses]
      /\ reviewer' \in [Disputes -> Reviewers \cup {Null}]
      /\ ruling' \in [Disputes -> Rulings \cup {"none"}]
      /\ decidedBy' \in [Disputes -> Reviewers \cup {Null}]
      /\ deciding' \subseteq Reviewers \X Disputes
      /\ UNCHANGED <<filedOn, filedBy, workerVars>>
  BY DEF TypeOK, FiledDisputeStatuses
<1>2. DisputeRows'
  BY DecidedDispute DEF DisputeRows, TypeOK, Independent, IsPlayer, FiledDisputeStatuses
<1> QED
  BY <1>1, <1>2

LEMMA ResolveVoidStep ==
    ASSUME IInv, NEW r \in Reviewers, NEW d \in Disputes, ResolveVoid(r, d)
    PROVE  IInv'
<1> DEFINE b == filedOn[d]
<1> USE DEF IInv
<1>1. /\ <<r, d>> \in deciding /\ status[b] = "DISPUTED"
      /\ RefundBoth(b, d) /\ VoidBet(b) /\ CancelAssignment(b, AssignmentStatuses)
      /\ RecordRuling(r, d, "VOID")
  BY DEF ResolveVoid
<1>2. b \in Bets /\ b \notin SeededBets /\ d \in RefundKeys /\ "VOID" \in Rulings
  BY <1>1, DecidedDispute DEF RefundKeys, Rulings
<1>3. RefundIfHeld(b, d)
  BY <1>1, <1>2 DEF RefundIfHeld, HasEscrowAccount
<1>4. LedgerTypes' /\ PotState' /\ PaidAccordingToOutcome' /\ status' \in [Bets -> BetStatuses]
  BY <1>1, <1>2, <1>3, VoidedPot
<1>5. /\ assignment' \in [Bets -> AssignmentStatuses]
      /\ UNCHANGED <<referee, decision, clock>>
  BY <1>1, <1>2, CancelledAssignment
<1>6. /\ UNCHANGED <<outcome, stake, playerA, playerB>>
      /\ \A c \in Bets : status'[c] \in {"NONE", "MATCHED"} => status[c] \in {"NONE", "MATCHED"}
  BY <1>1 DEF VoidBet, TypeOK
<1>7. /\ dispute' \in [Disputes -> {"idle", "filing"} \cup FiledDisputeStatuses]
      /\ reviewer' \in [Disputes -> Reviewers \cup {Null}]
      /\ ruling' \in [Disputes -> Rulings \cup {"none"}]
      /\ decidedBy' \in [Disputes -> Reviewers \cup {Null}]
      /\ deciding' \subseteq Reviewers \X Disputes
      /\ UNCHANGED <<filedOn, filedBy, workerVars>>
      /\ DisputeRows'
  BY <1>1, <1>2, <1>5, <1>6, RecordedRuling
<1>8. TypeOK'
  BY <1>4, <1>5, <1>6, <1>7 DEF TypeOK, LedgerTypes, workerVars
<1>9. BetRows' /\ OneActiveMatchPerReferee'
  <2>1. LiveAssignments \subseteq AssignmentStatuses
    BY DEF AssignmentStatuses
  <2> QED
    BY <1>1, <1>2, <2>1, VoidedRows
<1> QED
  BY <1>4, <1>7, <1>8, <1>9

LEMMA ResolveOutcomeStep ==
    ASSUME IInv, NEW r \in Reviewers, NEW d \in Disputes, NEW result \in Outcomes,
           ResolveOutcome(r, d, result)
    PROVE  IInv'
<1> DEFINE b == filedOn[d]
<1> USE DEF IInv
<1>1. /\ <<r, d>> \in deciding
      /\ status' = [status EXCEPT ![b] = "RESULT_REPORTED"]
      /\ outcome' = [outcome EXCEPT ![b] = result]
      /\ assignment' = [assignment EXCEPT ![b] = "DECISION_SUBMITTED"]
      /\ decision' = [decision EXCEPT ![b] = KeptCall(@, result)]
      /\ clock' = [clock EXCEPT ![b] = "closed"]
      /\ RecordRuling(r, d, result)
      /\ UNCHANGED <<stake, playerA, playerB, ledgerVars, referee>>
  BY DEF ResolveOutcome
<1>2. /\ b \in Bets /\ b \notin SeededBets /\ status[b] \notin {"NONE", "MATCHED"}
      /\ result \in Rulings
  BY <1>1, DecidedDispute DEF Rulings
<1>3. /\ status' \in [Bets -> BetStatuses] /\ status'[b] = "RESULT_REPORTED"
      /\ \A c \in Bets \ {b} : status'[c] = status[c]
  BY <1>1, <1>2 DEF TypeOK, BetStatuses
<1>4. /\ dispute' \in [Disputes -> {"idle", "filing"} \cup FiledDisputeStatuses]
      /\ reviewer' \in [Disputes -> Reviewers \cup {Null}]
      /\ ruling' \in [Disputes -> Rulings \cup {"none"}]
      /\ decidedBy' \in [Disputes -> Reviewers \cup {Null}]
      /\ deciding' \subseteq Reviewers \X Disputes
      /\ UNCHANGED <<filedOn, filedBy, workerVars>>
      /\ DisputeRows'
  <2>1. \A c \in Bets : status'[c] \in {"NONE", "MATCHED"} => status[c] \in {"NONE", "MATCHED"}
    BY <1>3
  <2> QED
    BY <1>1, <1>2, <2>1, RecordedRuling
<1>5. TypeOK'
  <2>1. /\ outcome' \in [Bets -> Outcomes \cup {"none"}]
        /\ decision' \in [Bets -> Outcomes \cup {"none"}]
        /\ assignment' \in [Bets -> AssignmentStatuses]
        /\ clock' \in [Bets -> {"none", "open", "closed", "due"}]
    BY <1>1, <1>2 DEF TypeOK, AssignmentStatuses, KeptCall
  <2> QED
    BY <1>1, <1>3, <1>4, <2>1 DEF TypeOK, ledgerVars, workerVars
<1>6. BetRows'
  BY <1>1, <1>2, <1>3 DEF BetRows, TypeOK, LiveAssignments
<1>7. PotState'
  BY <1>1, <1>2, <1>3, PotFrame
<1>8. PaidAccordingToOutcome'
  BY <1>1, <1>2, <1>3 DEF PaidAccordingToOutcome, TypeOK, ledgerVars
<1>9. OneActiveMatchPerReferee'
  BY <1>1, <1>2 DEF OneActiveMatchPerReferee, TypeOK, ActiveAssignments
<1> QED
  BY <1>4, <1>5, <1>6, <1>7, <1>8, <1>9

-----------------------------------------------------------------------------
(* Settlement *)

\* What SettleBet does to its bet's pot: all of it is paid out.
LEMMA SettledPot ==
    ASSUME IInv, NEW b \in Bets, SettleBet(b)
    PROVE  /\ b \notin SeededBets
           /\ Held(b) /\ Paid(b)'
           /\ credit'[b] = [A |-> ShareA(outcome[b], stake[b], FeeBp),
                            B |-> ShareB(outcome[b], stake[b], FeeBp),
                            house |-> Fee(stake[b], FeeBp)]
           /\ LedgerTypes'
           /\ \A c \in Bets \ {b} :
                 escrow'[c] = escrow[c] /\ posted'[c] = posted[c] /\ credit'[c] = credit[c]
           /\ UNCHANGED stake
<1> USE DEF IInv
<1> DEFINE s == stake[b]
           toA == ShareA(outcome[b], s, FeeBp)
           toB == ShareB(outcome[b], s, FeeBp)
           fee == Fee(s, FeeBp)
           refereeFee == RefereeFee(s, FeeBp, RewardBp)
           devShare == DevShare(s, FeeBp, RewardBp, RevShareBp)
<1>1. /\ status[b] = "RESULT_REPORTED"
      /\ escrow[b] = Pot(s)
      /\ escrow' = [escrow EXCEPT ![b] = @ - fee - toA - toB]
      /\ posted' = [posted EXCEPT ![b] = @ \cup {"settle"}]
      /\ credit' = [credit EXCEPT ![b] = [A |-> toA, B |-> toB, house |-> fee]]
      /\ wallet' = [u \in Users |-> wallet[u] + Receives(u, playerA[b], toA)
                                              + Receives(u, playerB[b], toB)
                                              + Receives(u, referee[b], refereeFee)]
      /\ revenue' = revenue + (fee - refereeFee - devShare)
      /\ devBalance' = devBalance + devShare
      /\ currentEscrow' = AtLeastZero(currentEscrow - Pot(s))
      /\ UNCHANGED stake
  BY DEF SettleBet, PotIntact, StillReported, PaidResult, KeptByPlatform, FreedBySettlement
<1>2. b \notin SeededBets /\ s \in Nat /\ s > 0
  BY <1>1 DEF BetRows, TypeOK
<1>3. Held(b)
  <2>1. Held(b) \/ Paid(b) \/ Refunded(b)
    BY <1>1, <1>2 DEF PotState
  <2>2. escrow[b] # 0
    BY <1>1, <1>2 DEF Pot
  <2> QED
    BY <2>1, <2>2 DEF Paid, Refunded
<1>4. toA \in Nat /\ toB \in Nat /\ toA + toB + fee = Pot(s)
  BY <1>2, SharesDividePot, MoneyAssumption
<1>5. fee \in Nat /\ refereeFee \in Nat /\ devShare \in Nat /\ refereeFee + devShare <= fee
  BY <1>2, FeeCoversShares, FeeBounds, MoneyAssumption
<1> HIDE DEF s, toA, toB, fee, refereeFee, devShare
<1>6. Pot(s) \in Nat /\ Pot(s) - fee - toA - toB = 0
  BY <1>4, <1>5
<1>7. escrow' \in [Bets -> Nat] /\ escrow'[b] = 0
  BY <1>1, <1>6 DEF TypeOK
<1>8. posted' \in [Bets -> SUBSET PostingKeys] /\ posted'[b] = {"settle"}
  BY <1>1, <1>3 DEF TypeOK, PostingKeys, Held
<1>9. /\ credit' \in [Bets -> [A : Nat, B : Nat, house : Nat]]
      /\ credit'[b] = [A |-> toA, B |-> toB, house |-> fee]
  BY <1>1, <1>4, <1>5 DEF TypeOK
<1>10. wallet' \in [Users -> Nat]
  <2>1. \A u \in Users : /\ Receives(u, playerA[b], toA) \in Nat
                         /\ Receives(u, playerB[b], toB) \in Nat
                         /\ Receives(u, referee[b], refereeFee) \in Nat
                         /\ wallet[u] \in Nat
    BY <1>4, <1>5 DEF Receives, TypeOK
  <2> QED
    BY <1>1, <2>1
<1>11. revenue' \in Nat /\ devBalance' \in Nat /\ currentEscrow' \in Nat
  BY <1>1, <1>5, <1>6 DEF TypeOK, AtLeastZero
<1>12. Paid(b)'
  BY <1>1, <1>4, <1>5, <1>6, <1>7, <1>8, <1>9 DEF Paid, s
<1>13. \A c \in Bets \ {b} :
          escrow'[c] = escrow[c] /\ posted'[c] = posted[c] /\ credit'[c] = credit[c]
  BY <1>1 DEF TypeOK
<1>14. LedgerTypes'
  BY <1>7, <1>8, <1>9, <1>10, <1>11 DEF LedgerTypes
<1> QED
  BY <1>1, <1>2, <1>3, <1>9, <1>12, <1>13, <1>14 DEF s, toA, toB, fee

LEMMA SettleBetStep ==
    ASSUME IInv, NEW b \in Bets, SettleBet(b)
    PROVE  IInv'
<1> USE DEF IInv
<1>1. /\ status[b] = "RESULT_REPORTED"
      /\ status' = [status EXCEPT ![b] = "SETTLED"]
      /\ assignment' = [assignment EXCEPT ![b] = "COMPLETED"]
      /\ settling' = settling \ {b} /\ announcing' = {b}
      /\ UNCHANGED <<outcome, stake, playerA, playerB, referee, decision, clock,
                     disputeVars, mailed>>
  BY DEF SettleBet, StillReported
<1>2. /\ status' \in [Bets -> BetStatuses] /\ status'[b] = "SETTLED"
      /\ \A c \in Bets \ {b} : status'[c] = status[c]
  BY <1>1 DEF TypeOK, BetStatuses
<1>3. TypeOK'
  BY <1>1, <1>2, SettledPot DEF TypeOK, LedgerTypes, AssignmentStatuses, disputeVars
<1>4. BetRows'
  BY <1>1, <1>2, SettledPot DEF BetRows, TypeOK, LiveAssignments
<1>5. DisputeRows'
  BY <1>1, <1>2, DisputeFrame
<1>6. PotState'
  <2>1. \A c \in Bets \ {b} :
           /\ Untouched(c)' = Untouched(c) /\ Held(c)' = Held(c)
           /\ Paid(c)' = Paid(c) /\ Refunded(c)' = Refunded(c)
    BY SettledPot DEF Untouched, Held, Paid, Refunded
  <2>2. b \notin SeededBets /\ Paid(b)'
    BY SettledPot
  <2> QED
    BY <1>2, <2>1, <2>2 DEF PotState
<1>7. PaidAccordingToOutcome'
  <2>1. /\ credit'[b].A = ShareA(outcome'[b], stake'[b], FeeBp)
        /\ credit'[b].B = ShareB(outcome'[b], stake'[b], FeeBp)
        /\ credit'[b].house = Fee(stake'[b], FeeBp)
    <3> DEFINE toA == ShareA(outcome[b], stake[b], FeeBp)
               toB == ShareB(outcome[b], stake[b], FeeBp)
               fee == Fee(stake[b], FeeBp)
    <3>1. credit'[b] = [A |-> toA, B |-> toB, house |-> fee]
      BY SettledPot
    <3>2. outcome'[b] = outcome[b] /\ stake'[b] = stake[b]
      BY <1>1
    <3>3. /\ toA = ShareA(outcome'[b], stake'[b], FeeBp)
          /\ toB = ShareB(outcome'[b], stake'[b], FeeBp)
          /\ fee = Fee(stake'[b], FeeBp)
      BY <3>2
    <3> HIDE DEF toA, toB, fee
    <3> QED
      BY <3>1, <3>3
  <2>2. \A c \in Bets \ {b} : /\ status'[c] = status[c] /\ credit'[c] = credit[c]
                              /\ outcome'[c] = outcome[c] /\ stake'[c] = stake[c]
    BY <1>1, <1>2, SettledPot
  <2> QED
    BY <2>1, <2>2 DEF PaidAccordingToOutcome
<1>8. OneActiveMatchPerReferee'
  BY <1>1 DEF OneActiveMatchPerReferee, TypeOK, ActiveAssignments
<1> QED
  BY <1>3, <1>4, <1>5, <1>6, <1>7, <1>8

-----------------------------------------------------------------------------
(* Every step *)

\* IInv is inductive: no step of any actor, from a state it allows, leaves it.
THEOREM NextIInv == IInv /\ [Next]_vars => IInv'
<1> SUFFICES ASSUME IInv, [Next]_vars PROVE IInv'
  OBVIOUS
<1>1. ASSUME NEW b \in Bets, PlayerStep(b) PROVE IInv'
  BY <1>1, AcceptStep, VoidNoShowStep DEF PlayerStep, WithdrawFromMatch
<1>2. ASSUME NEW b \in Bets, RefereeStep(b) PROVE IInv'
  BY <1>2, ClaimAssignmentStep, AdvanceStep, SubmitDecisionStep DEF RefereeStep
<1>3. ASSUME NEW b \in Bets, SweepStep(b) PROVE IInv'
  BY <1>3, VoidNoShowStep, SweepStalledStep
     DEF SweepStep, SweepUnclaimed, SweepOverrun, VoidStaleMatch
<1>4. ASSUME NEW b \in Bets, VoidUnderage(b) PROVE IInv'
  BY <1>4, VoidUnderageStep
<1>5. ASSUME NEW b \in Bets, Tick(b) PROVE IInv'
  BY <1>5, TickStep
<1>6. ASSUME NEW d \in Disputes, FilingStep(d) PROVE IInv'
  BY <1>6, FileCheckStep, FileCommitStep, FileConflictStep DEF FilingStep
<1>7. ASSUME NEW d \in Disputes, ReviewStep(d) PROVE IInv'
  BY <1>7, ClaimDisputeStep, DecideCheckStep, ResolveVoidStep, ResolveOutcomeStep,
     ResolveFailsStep DEF ReviewStep
<1>8. ASSUME NEW d \in Disputes, EscalationStep(d) PROVE IInv'
  BY <1>8, EscalateStep, AutoVoidDisputeStep, AutoCloseDisputeStep DEF EscalationStep
<1>9. ASSUME NEW b \in Bets, SettlementStep(b) PROVE IInv'
  BY <1>9, SettleBetStep, WorkerStep DEF SettlementStep
<1>10. ASSUME SettlementScan \/ CrashSettlement PROVE IInv'
  BY <1>10, WorkerStep
<1>11. ASSUME UNCHANGED vars PROVE IInv'
  <2>1. UNCHANGED <<betVars, ledgerVars, refereeVars, disputeVars, workerVars>>
    BY <1>11 DEF vars
  <2>2. TypeOK'
    BY <2>1 DEF IInv, TypeOK, betVars, ledgerVars, refereeVars, disputeVars, workerVars
  <2>3. BetRows' /\ PotState' /\ PaidAccordingToOutcome' /\ OneActiveMatchPerReferee'
    BY <2>1, BetFrame DEF IInv
  <2>4. UNCHANGED <<disputeVars, playerA, playerB, referee, status>>
    BY <2>1 DEF betVars, refereeVars
  <2>5. DisputeRows'
    BY <2>4, DisputeFrame DEF IInv
  <2> QED
    BY <2>2, <2>3, <2>5 DEF IInv
<1> QED
  BY <1>1, <1>2, <1>3, <1>4, <1>5, <1>6, <1>7, <1>8, <1>9, <1>10, <1>11 DEF Next

\* Every reachable state satisfies the inductive invariant, whatever the bets,
\* people, stakes and percentages are.
THEOREM Inductive == Spec => []IInv
<1>1. Init => IInv
  BY InitIInv
<1>2. IInv /\ [Next]_vars => IInv'
  BY NextIInv
<1> QED
  BY <1>1, <1>2, PTL DEF Spec

-----------------------------------------------------------------------------
(* What follows from the invariant *)

\* Every variable has its type: in particular no balance, escrow account or
\* counter ever goes below zero.
THEOREM TypeCorrect == Spec => []TypeOK
<1>1. IInv => TypeOK
  BY DEF IInv
<1> QED
  BY <1>1, Inductive, PTL

\* A bet's escrow account holds both stakes or nothing, in every race between
\* the sweeps, the reviewers, the admins and the settlement worker.
THEOREM PotIsWholeOrGone == Spec => []PotWholeOrGone
<1>1. IInv => PotWholeOrGone
  <2> SUFFICES ASSUME IInv, NEW b \in Bets \ SeededBets
               PROVE  /\ escrow[b] \in {0, Pot(stake[b])}
                      /\ status[b] = "MATCHED" => escrow[b] = Pot(stake[b])
                      /\ status[b] \in {"SETTLED", "VOIDED"} => escrow[b] = 0
    BY DEF PotWholeOrGone
  <2>1. CASE status[b] = "NONE"
    BY <2>1 DEF IInv, PotState, Untouched
  <2>2. CASE status[b] # "NONE"
    BY <2>2 DEF IInv, PotState, Held, Paid, Refunded
  <2> QED
    BY <2>1, <2>2
<1> QED
  BY <1>1, Inductive, PTL

\* However a bet ends, its pot leaves escrow once, under one key family: all of
\* it divided by a settlement, or each stake refunded to who staked it.
THEOREM PotIsPaidOnce == Spec => []PotPaidOnce
<1>1. "settle" \notin RefundKeys
  BY RowsAssumption DEF RefundKeys
<1>2. IInv => PotPaidOnce
  <2> SUFFICES ASSUME IInv, NEW b \in Bets
               PROVE  /\ \A k, l \in posted[b] : k = l
                      /\ "settle" \in posted[b] =>
                             credit[b].A + credit[b].B + credit[b].house = Pot(stake[b])
                      /\ posted[b] \cap RefundKeys # {} =>
                             credit[b] = [A |-> stake[b], B |-> stake[b], house |-> 0]
                      /\ posted[b] = {} => credit[b] = NoCredit
    BY DEF PotPaidOnce
  <2>1. Untouched(b) \/ Held(b) \/ Paid(b) \/ Refunded(b)
    BY DEF IInv, PotState
  <2>2. CASE Untouched(b) \/ Held(b)
    BY <2>2 DEF Untouched, Held
  <2>3. CASE Paid(b)
    BY <2>3, <1>1 DEF Paid
  <2>4. CASE Refunded(b)
    BY <2>4, <1>1 DEF Refunded
  <2> QED
    BY <2>1, <2>2, <2>3, <2>4
<1> QED
  BY <1>2, Inductive, PTL

\* No assignment stays live once its bet is over or decided, so no void, sweep
\* or dispute leaves a referee blocked by a match that no longer exists.
THEOREM AssignmentsFollowBets == Spec => []LiveAssignmentMatched
<1>1. IInv => LiveAssignmentMatched
  BY DEF IInv, BetRows, LiveAssignmentMatched
<1> QED
  BY <1>1, Inductive, PTL

\* A referee officiates one match at a time, however claims and sweeps
\* interleave.
THEOREM OneMatchEach == Spec => []OneActiveMatchPerReferee
<1>1. IInv => OneActiveMatchPerReferee
  BY DEF IInv
<1> QED
  BY <1>1, Inductive, PTL

\* Nobody decides a dispute about a match they played or refereed, although
\* independence is checked before the transaction that decides.
THEOREM DecisionsAreIndependent == Spec => []IndependentDecision
<1>1. IInv => IndependentDecision
  <2> SUFFICES ASSUME IInv, NEW d \in Disputes, decidedBy[d] # Null
               PROVE  ~IsPlayer(filedOn[d], decidedBy[d]) /\ referee[filedOn[d]] # decidedBy[d]
    BY DEF IndependentDecision
  <2>1. decidedBy[d] \in Reviewers
    BY DEF IInv, TypeOK
  <2> QED
    BY <2>1 DEF IInv, DisputeRows, Independent
<1> QED
  BY <1>1, Inductive, PTL

\* What a settled bet paid each side, and the house, follows the outcome it
\* settled with, whatever dispute changed that outcome on the way.
THEOREM PaymentsFollowOutcomes == Spec => []PaidAccordingToOutcome
<1>1. IInv => PaidAccordingToOutcome
  BY DEF IInv
<1> QED
  BY <1>1, Inductive, PTL
=============================================================================

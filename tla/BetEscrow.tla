----------------------------- MODULE BetEscrow -----------------------------
(***************************************************************************)
(* The life of a refereed bet from the moment both stakes are taken: the   *)
(* referee's assignment, the call, the dispute window, dispute review, the *)
(* settlement worker, and every way a match is voided.  One step is one    *)
(* committed database transaction, or one check a request makes outside    *)
(* its transaction and acts on later.                                      *)
(*                                                                         *)
(* Transactions are serializable (lib/db/client.ts, withTransaction) or    *)
(* lock the bet row they change, so a committed one is a single step, and  *)
(* one that throws is no step at all.  What is not serialized is between   *)
(* transactions: a settlement batch is read before it is worked through, a *)
(* reviewer's right to decide and a player's right to dispute are checked  *)
(* before the transaction that uses them, and mail is sent after it.       *)
(*                                                                         *)
(* Left out: audit-trail rows, recordings, referee statistics, and the     *)
(* conditions that are data here (KYC, qualification, being live on Kick,  *)
(* follows and blocks): a step they forbid is one this model may take.     *)
(*                                                                         *)
(* An operator named Mutant... is the definition after it with a plausible *)
(* bug; README.md lists which property catches which.                      *)
(***************************************************************************)
EXTENDS Payout, FiniteSets

CONSTANTS
    Bets,
    Users,          \* everyone with a wallet
    Players,        \* who stake
    Referees,       \* approved referees
    Reviewers,      \* who may decide disputes: admins and approved reviewers
    Admins,
    Disputes,       \* dispute rows, and the requests that would create them
    Stakes,         \* stake sizes, in pence
    OpeningBalance, \* [Users -> Nat]
    EscrowCap,      \* DeveloperEscrowLimit.maxTotalEscrow
    MaxSingleBet,   \* DeveloperEscrowLimit.maxSingleBet
    FeeBp,          \* bets.platformFeePercent
    RewardBp,       \* refereeAssignment.rewardPercent
    RevShareBp,     \* developerProfile.revSharePercent
    SeededBets,     \* demo rows: MATCHED, with no escrow account or assignment
    Null,           \* no user, no bet: an empty column
    ScanBatch,      \* bets a settlement scan takes
    MaxDeciding     \* bound: decision requests in flight at once

ASSUME UsersAssumption ==
    /\ Players \subseteq Users /\ Referees \subseteq Users
    /\ Reviewers \subseteq Users /\ Admins \subseteq Reviewers
    /\ Null \notin Users \cup Bets
ASSUME MoneyAssumption ==
    /\ Stakes \subseteq Nat \ {0}
    /\ OpeningBalance \in [Users -> Nat]
    /\ EscrowCap \in Nat /\ MaxSingleBet \in Nat
    /\ FeeBp \in TenThousandths /\ RewardBp \in TenThousandths
    /\ RevShareBp \in TenThousandths
ASSUME RowsAssumption ==
    /\ SeededBets \subseteq Bets
    /\ {"settle", "noshow", "underage", "autoVoid"} \cap Disputes = {}
    /\ ScanBatch \in Nat \ {0} /\ MaxDeciding \in Nat
ASSUME FiniteAssumption == IsFiniteSet(Users) /\ IsFiniteSet(Bets)

Outcomes == {"PLAYER_A_WIN", "PLAYER_B_WIN", "DRAW"}
Rulings == Outcomes \cup {"VOID"}
BetStatuses == {"NONE", "MATCHED", "RESULT_REPORTED", "DISPUTED", "SETTLED", "VOIDED"}

LiveAssignments == {"OPEN", "ASSIGNED", "READY", "IN_PROGRESS"}
ActiveAssignments == {"ASSIGNED", "READY", "IN_PROGRESS"}
BeforeStart == {"OPEN", "ASSIGNED", "READY"}
AssignmentStatuses ==
    LiveAssignments \cup {"NONE", "DECISION_SUBMITTED", "DISPUTED", "COMPLETED", "CANCELLED"}

OpenDisputeStatuses == {"OPEN", "UNDER_REVIEW"}
FiledDisputeStatuses == OpenDisputeStatuses \cup {"RESOLVED"}

\* Idempotency-key families of the transfers out of a bet's escrow account.
RefundKeys == {"noshow", "underage", "autoVoid"} \cup Disputes
PostingKeys == {"settle"} \cup RefundKeys

VARIABLES
    \* bets
    status, outcome, stake, playerA, playerB,
    \* ledger: what a bet's escrow account holds, the key families posted
    \* against it, what each side and the house had out of it; balances of
    \* players, platform and developer; developer_escrow_limits.current_escrow
    escrow, posted, credit, wallet, revenue, devBalance, currentEscrow,
    \* referee_assignments: status, referee, the referee's own call; and where
    \* the bet is against disputeDeadline and the settlement delay
    assignment, referee, decision, clock,
    \* disputes: status, bet, filer, reviewer, ruling, resolvedBy; and the
    \* decision requests that have passed their checks but not committed
    dispute, filedOn, filedBy, reviewer, ruling, decidedBy, deciding,
    \* settlement worker: bets of the current batch not tried yet, the bet
    \* whose players are about to be told, the outcome each bet's mail told
    settling, announcing, mailed

betVars == <<status, outcome, stake, playerA, playerB>>
ledgerVars == <<escrow, posted, credit, wallet, revenue, devBalance, currentEscrow>>
refereeVars == <<assignment, referee, decision, clock>>
disputeVars == <<dispute, filedOn, filedBy, reviewer, ruling, decidedBy, deciding>>
workerVars == <<settling, announcing, mailed>>
vars == <<betVars, ledgerVars, refereeVars, disputeVars, workerVars>>

-----------------------------------------------------------------------------
(* Reading the state *)

\* Only an accepted bet has an escrow account: demo rows never had one.
HasEscrowAccount(b) == status[b] # "NONE" /\ b \notin SeededBets

IsPlayer(b, u) == u \in {playerA[b], playerB[b]}

OpenDisputes(b) == {d \in Disputes : dispute[d] \in OpenDisputeStatuses /\ filedOn[d] = b}

NoCredit == [A |-> 0, B |-> 0, house |-> 0]

AtLeastZero(n) == IF n < 0 THEN 0 ELSE n

\* What a transfer of amount to payee adds to the wallet of u.
Receives(u, payee, amount) == IF u = payee THEN amount ELSE 0

Init ==
    /\ status = [b \in Bets |-> IF b \in SeededBets THEN "MATCHED" ELSE "NONE"]
    /\ outcome = [b \in Bets |-> "none"]
    /\ \E s \in Stakes, p, q \in Players :
         /\ p # q
         /\ stake = [b \in Bets |-> IF b \in SeededBets THEN s ELSE 0]
         /\ playerA = [b \in Bets |-> IF b \in SeededBets THEN p ELSE Null]
         /\ playerB = [b \in Bets |-> IF b \in SeededBets THEN q ELSE Null]
    /\ escrow = [b \in Bets |-> 0]
    /\ posted = [b \in Bets |-> {}]
    /\ credit = [b \in Bets |-> NoCredit]
    /\ wallet = OpeningBalance
    /\ revenue = 0 /\ devBalance = 0 /\ currentEscrow = 0
    /\ assignment = [b \in Bets |-> "NONE"]
    /\ referee = [b \in Bets |-> Null]
    /\ decision = [b \in Bets |-> "none"]
    /\ clock = [b \in Bets |-> "none"]
    /\ dispute = [d \in Disputes |-> "idle"]
    /\ filedOn = [d \in Disputes |-> Null]
    /\ filedBy = [d \in Disputes |-> Null]
    /\ reviewer = [d \in Disputes |-> Null]
    /\ ruling = [d \in Disputes |-> "none"]
    /\ decidedBy = [d \in Disputes |-> Null]
    /\ deciding = {}
    /\ settling = {} /\ announcing = {}
    /\ mailed = [b \in Bets |-> "none"]

-----------------------------------------------------------------------------
(* Accepting a challenge: the bet, both holds, the assignment, at once *)

\* holdEscrow, for each player: from the wallet, within the escrow cap.
HoldBoth(b, p, q, s) ==
    /\ wallet[p] >= s /\ wallet[q] >= s
    /\ s <= MaxSingleBet
    /\ currentEscrow + 2 * s <= EscrowCap
    /\ wallet' = [wallet EXCEPT ![p] = @ - s, ![q] = @ - s]
    /\ escrow' = [escrow EXCEPT ![b] = 2 * s]
    /\ currentEscrow' = currentEscrow + 2 * s
    /\ UNCHANGED <<posted, credit, revenue, devBalance>>

Accept(b, p, q, s) ==
    /\ status[b] = "NONE"
    /\ p # q
    /\ HoldBoth(b, p, q, s)
    /\ status' = [status EXCEPT ![b] = "MATCHED"]
    /\ stake' = [stake EXCEPT ![b] = s]
    /\ playerA' = [playerA EXCEPT ![b] = p]
    /\ playerB' = [playerB EXCEPT ![b] = q]
    /\ assignment' = [assignment EXCEPT ![b] = "OPEN"]
    /\ UNCHANGED <<outcome, referee, decision, clock, disputeVars, workerVars>>

-----------------------------------------------------------------------------
(* The referee *)

MutantFreeToClaim(r) ==
    \A c \in Bets : referee[c] = r => assignment[c] # "IN_PROGRESS"

\* The one-active-match rule looks at assignments only, never at bets.
FreeToClaim(r) ==
    \A c \in Bets : referee[c] = r => assignment[c] \notin ActiveAssignments

ClaimAssignment(b, r) ==
    /\ assignment[b] = "OPEN"
    /\ ~IsPlayer(b, r)
    /\ FreeToClaim(r)
    /\ assignment' = [assignment EXCEPT ![b] = "ASSIGNED"]
    /\ referee' = [referee EXCEPT ![b] = r]
    /\ UNCHANGED <<betVars, ledgerVars, decision, clock, disputeVars, workerVars>>

AdvanceAssignment(b, from, to) ==
    /\ assignment[b] = from
    /\ assignment' = [assignment EXCEPT ![b] = to]
    /\ UNCHANGED <<betVars, ledgerVars, referee, decision, clock, disputeVars, workerVars>>

Ready(b) == AdvanceAssignment(b, "ASSIGNED", "READY")
Start(b) == AdvanceAssignment(b, "READY", "IN_PROGRESS")

SubmitDecision(b, result) ==
    /\ assignment[b] = "IN_PROGRESS"
    /\ status[b] = "MATCHED"
    /\ assignment' = [assignment EXCEPT ![b] = "DECISION_SUBMITTED"]
    /\ decision' = [decision EXCEPT ![b] = result]
    /\ clock' = [clock EXCEPT ![b] = "open"]
    /\ status' = [status EXCEPT ![b] = "RESULT_REPORTED"]
    /\ outcome' = [outcome EXCEPT ![b] = result]
    /\ UNCHANGED <<stake, playerA, playerB, ledgerVars, referee, disputeVars, workerVars>>

\* The dispute window (15 minutes) outlasts the settlement delay (2 minutes);
\* a reviewer's decision closes the window at once and starts the delay.
Tick(b) ==
    /\ clock[b] \in {"open", "closed"}
    /\ clock' = [clock EXCEPT ![b] = "due"]
    /\ UNCHANGED <<betVars, ledgerVars, assignment, referee, decision, disputeVars, workerVars>>

-----------------------------------------------------------------------------
(* Voiding a match nobody played, or that cannot be played out *)

\* refundEscrow, for player A and then for player B, under one key family: a
\* family already posted moves nothing, but the balance is checked first.
Moved(b, key) == IF key \in posted[b] THEN 0 ELSE stake[b]

MutantRefundable(b, key) == TRUE

Refundable(b, key) == escrow[b] >= stake[b] + Moved(b, key)

\* Each player's refund gives their part of the escrow cap back.
FreedByRefund(moved) == 2 * moved

RefundBoth(b, key) ==
    LET moved == Moved(b, key)
    IN  /\ Refundable(b, key)
        /\ escrow' = [escrow EXCEPT ![b] = @ - 2 * moved]
        /\ posted' = [posted EXCEPT ![b] = @ \cup {key}]
        /\ credit' = [credit EXCEPT ![b] = [A |-> @.A + moved, B |-> @.B + moved, house |-> @.house]]
        /\ wallet' = [u \in Users |-> wallet[u] + Receives(u, playerA[b], moved)
                                                + Receives(u, playerB[b], moved)]
        /\ currentEscrow' = AtLeastZero(currentEscrow - FreedByRefund(moved))
        /\ UNCHANGED <<revenue, devBalance>>

\* A bet without an escrow account is closed and nothing is refunded.
RefundIfHeld(b, key) ==
    IF HasEscrowAccount(b) THEN RefundBoth(b, key) ELSE UNCHANGED ledgerVars

VoidBet(b) ==
    /\ status' = [status EXCEPT ![b] = "VOIDED"]
    /\ UNCHANGED <<outcome, stake, playerA, playerB>>

MutantCancelAssignment(b, cancellable) == UNCHANGED refereeVars

CancelAssignment(b, cancellable) ==
    /\ assignment' = [assignment EXCEPT ![b] = IF @ \in cancellable THEN "CANCELLED" ELSE @]
    /\ UNCHANGED <<referee, decision, clock>>

VoidNoShowMatch(b) ==
    /\ status[b] = "MATCHED"
    /\ VoidBet(b)
    /\ CancelAssignment(b, LiveAssignments)
    /\ RefundIfHeld(b, "noshow")
    /\ UNCHANGED <<disputeVars, workerVars>>

\* A player pulls out before the referee has started the match.
WithdrawFromMatch(b) ==
    /\ assignment[b] \in BeforeStart \cup {"NONE"}
    /\ VoidNoShowMatch(b)

\* The referee sweep: nobody claimed in time, the match overran, or the
\* referee stalled (then the match goes back to the pool).
SweepUnclaimed(b) ==
    /\ assignment[b] = "OPEN"
    /\ VoidNoShowMatch(b)

MutantSweepOverrun(b) ==
    /\ assignment[b] = "READY"
    /\ VoidNoShowMatch(b)

SweepOverrun(b) ==
    /\ assignment[b] = "IN_PROGRESS"
    /\ VoidNoShowMatch(b)

SweepStalled(b) ==
    /\ status[b] = "MATCHED"
    /\ assignment[b] \in {"ASSIGNED", "READY"}
    /\ assignment' = [assignment EXCEPT ![b] = "OPEN"]
    /\ referee' = [referee EXCEPT ![b] = Null]
    /\ UNCHANGED <<betVars, ledgerVars, decision, clock, disputeVars, workerVars>>

\* The no-show sweep leaves bets with a live assignment to the referee sweep.
VoidStaleMatch(b) ==
    /\ assignment[b] \in {"NONE", "CANCELLED", "COMPLETED"}
    /\ VoidNoShowMatch(b)

\* An admin finds a player under age: every unsettled bet of theirs is void,
\* whatever disputes are open on it.
VoidUnderage(b) ==
    /\ status[b] \in {"MATCHED", "RESULT_REPORTED", "DISPUTED"}
    /\ VoidBet(b)
    /\ CancelAssignment(b, AssignmentStatuses \ {"NONE", "COMPLETED", "CANCELLED"})
    /\ RefundIfHeld(b, "underage")
    /\ UNCHANGED <<disputeVars, workerVars>>

-----------------------------------------------------------------------------
(* Filing a dispute: checked in one breath, committed in another *)

FileCheck(d, b, p) ==
    /\ dispute[d] = "idle"
    /\ status[b] \in {"RESULT_REPORTED", "SETTLED"}
    /\ IsPlayer(b, p)
    /\ clock[b] = "open"
    /\ ~\E e \in Disputes :
          dispute[e] \in FiledDisputeStatuses /\ filedOn[e] = b /\ filedBy[e] = p
    /\ dispute' = [dispute EXCEPT ![d] = "filing"]
    /\ filedOn' = [filedOn EXCEPT ![d] = b]
    /\ filedBy' = [filedBy EXCEPT ![d] = p]
    /\ UNCHANGED <<betVars, ledgerVars, refereeVars, reviewer, ruling, decidedBy, deciding,
                   workerVars>>

MutantStatusOnDispute(st) == st

StatusOnDispute(st) == IF st = "RESULT_REPORTED" THEN "DISPUTED" ELSE st

\* The window and the earlier dispute are not looked at again; a settled bet
\* stays settled, but its assignment is disputed all the same.
FileCommit(d) ==
    LET b == filedOn[d]
    IN  /\ dispute[d] = "filing"
        /\ status[b] \in {"RESULT_REPORTED", "SETTLED"}
        /\ dispute' = [dispute EXCEPT ![d] = "OPEN"]
        /\ status' = [status EXCEPT ![b] = StatusOnDispute(@)]
        /\ assignment' = [assignment EXCEPT ![b] = "DISPUTED"]
        /\ UNCHANGED <<outcome, stake, playerA, playerB, ledgerVars, referee, decision, clock,
                       filedOn, filedBy, reviewer, ruling, decidedBy, deciding, workerVars>>

\* Refused at the commit: the bet was disputed or voided since the check.
FileConflict(d) ==
    /\ dispute[d] = "filing"
    /\ status[filedOn[d]] \notin {"RESULT_REPORTED", "SETTLED"}
    /\ dispute' = [dispute EXCEPT ![d] = "idle"]
    /\ filedOn' = [filedOn EXCEPT ![d] = Null]
    /\ filedBy' = [filedBy EXCEPT ![d] = Null]
    /\ UNCHANGED <<betVars, ledgerVars, refereeVars, reviewer, ruling, decidedBy, deciding,
                   workerVars>>

-----------------------------------------------------------------------------
(* Reviewing a dispute *)

Independent(r, b) == ~IsPlayer(b, r) /\ referee[b] # r

ClaimDispute(r, d) ==
    /\ dispute[d] \in OpenDisputeStatuses
    /\ Independent(r, filedOn[d])
    /\ reviewer[d] \in {Null, r}
    /\ dispute' = [dispute EXCEPT ![d] = "UNDER_REVIEW"]
    /\ reviewer' = [reviewer EXCEPT ![d] = r]
    /\ UNCHANGED <<betVars, ledgerVars, refereeVars, filedOn, filedBy, ruling, decidedBy,
                   deciding, workerVars>>

MayDecide(r, d) == r \in Admins \/ reviewer[d] = r

\* resolveDispute up to its transaction.
DecideCheck(r, d) ==
    /\ dispute[d] \in OpenDisputeStatuses
    /\ Independent(r, filedOn[d])
    /\ MayDecide(r, d)
    /\ Cardinality(deciding) < MaxDeciding
    /\ deciding' = deciding \cup {<<r, d>>}
    /\ UNCHANGED <<betVars, ledgerVars, refereeVars, dispute, filedOn, filedBy, reviewer,
                   ruling, decidedBy, workerVars>>

RecordRuling(r, d, rule) ==
    /\ dispute' = [dispute EXCEPT ![d] = "RESOLVED"]
    /\ ruling' = [ruling EXCEPT ![d] = rule]
    /\ decidedBy' = [decidedBy EXCEPT ![d] = r]
    /\ reviewer' = [reviewer EXCEPT ![d] = IF @ = Null THEN r ELSE @]
    /\ deciding' = deciding \ {<<r, d>>}
    /\ UNCHANGED <<filedOn, filedBy, workerVars>>

\* The transaction reads the dispute again but does not ask whether it is
\* still open; only a void asks what the bet's status is.
ResolveVoid(r, d) ==
    LET b == filedOn[d]
    IN  /\ <<r, d>> \in deciding
        /\ status[b] = "DISPUTED"
        /\ RefundBoth(b, d)
        /\ VoidBet(b)
        /\ CancelAssignment(b, AssignmentStatuses)
        /\ RecordRuling(r, d, "VOID")

MutantKeptCall(call, result) == result

\* The referee's own call stays, whatever the review says.
KeptCall(call, result) == IF call = "none" THEN result ELSE call

ResolveOutcome(r, d, result) ==
    LET b == filedOn[d]
    IN  /\ <<r, d>> \in deciding
        /\ status' = [status EXCEPT ![b] = "RESULT_REPORTED"]
        /\ outcome' = [outcome EXCEPT ![b] = result]
        /\ assignment' = [assignment EXCEPT ![b] = "DECISION_SUBMITTED"]
        /\ decision' = [decision EXCEPT ![b] = KeptCall(@, result)]
        /\ clock' = [clock EXCEPT ![b] = "closed"]
        /\ RecordRuling(r, d, result)
        /\ UNCHANGED <<stake, playerA, playerB, ledgerVars, referee>>

\* A void that throws, on the status or in refundEscrow, leaves no trace.
ResolveFails(r, d) ==
    LET b == filedOn[d]
    IN  /\ <<r, d>> \in deciding
        /\ status[b] # "DISPUTED" \/ ~Refundable(b, d)
        /\ deciding' = deciding \ {<<r, d>>}
        /\ UNCHANGED <<betVars, ledgerVars, refereeVars, dispute, filedOn, filedBy, reviewer,
                       ruling, decidedBy, workerVars>>

-----------------------------------------------------------------------------
(* Disputes nobody acts on *)

\* After 48 hours.
Escalate(d) ==
    /\ dispute[d] = "OPEN"
    /\ dispute' = [dispute EXCEPT ![d] = "UNDER_REVIEW"]
    /\ UNCHANGED <<betVars, ledgerVars, refereeVars, filedOn, filedBy, reviewer, ruling,
                   decidedBy, deciding, workerVars>>

CloseStaleDispute(d) ==
    /\ dispute' = [dispute EXCEPT ![d] = "RESOLVED"]
    /\ ruling' = [ruling EXCEPT ![d] = "VOID"]
    /\ UNCHANGED <<filedOn, filedBy, reviewer, decidedBy, deciding, workerVars>>

\* After 7 days under review.
AutoVoidDispute(d) ==
    LET b == filedOn[d]
    IN  /\ dispute[d] = "UNDER_REVIEW"
        /\ status[b] \in {"RESULT_REPORTED", "DISPUTED"}
        /\ VoidBet(b)
        /\ RefundBoth(b, "autoVoid")
        /\ CancelAssignment(b, AssignmentStatuses \ {"NONE", "COMPLETED", "CANCELLED"})
        /\ CloseStaleDispute(d)

\* The bet was settled or voided meanwhile: only the dispute is closed.
AutoCloseDispute(d) ==
    /\ dispute[d] = "UNDER_REVIEW"
    /\ status[filedOn[d]] \notin {"RESULT_REPORTED", "DISPUTED"}
    /\ CloseStaleDispute(d)
    /\ UNCHANGED <<betVars, ledgerVars, refereeVars>>

-----------------------------------------------------------------------------
(* The settlement worker: one batch at a time, one bet after another *)

MutantSettleable(b) ==
    /\ status[b] = "RESULT_REPORTED"
    /\ clock[b] = "due"
    /\ \A d \in Disputes : filedOn[d] # b
    /\ assignment[b] = "DECISION_SUBMITTED"

Settleable(b) ==
    /\ status[b] = "RESULT_REPORTED"
    /\ clock[b] = "due"
    /\ OpenDisputes(b) = {}
    /\ assignment[b] = "DECISION_SUBMITTED"

\* Nothing orders the bets a scan takes: with more of them than it takes, any
\* may be left for a later one.
SettlementScan ==
    /\ settling = {} /\ announcing = {}
    /\ LET due == {b \in Bets : Settleable(b)}
       IN  \E batch \in SUBSET due \ {{}} :
             /\ batch = due \/ Cardinality(batch) = ScanBatch
             /\ Cardinality(batch) <= ScanBatch
             /\ settling' = batch
    /\ UNCHANGED <<betVars, ledgerVars, refereeVars, disputeVars, announcing, mailed>>

MutantPotIntact(b) ==
    /\ "settle" \notin posted[b]
    /\ Releasable(outcome[b], stake[b], FeeBp)

\* Under its locks the worker asks again only for the status, the outcome and
\* the balance; nothing posted under the settlement keys can be paid twice.
PotIntact(b) ==
    /\ escrow[b] = Pot(stake[b])
    /\ "settle" \notin posted[b]
    /\ Releasable(outcome[b], stake[b], FeeBp)

MutantStillReported(b) == status[b] \in {"RESULT_REPORTED", "DISPUTED"}

StillReported(b) == status[b] = "RESULT_REPORTED"

MutantPaidResult(b) == decision[b]

\* The bet's outcome, which a dispute may have changed, not the referee's call.
PaidResult(b) == outcome[b]

MutantKeptByPlatform(fee, refereeFee, devShare) == fee - devShare

KeptByPlatform(fee, refereeFee, devShare) == fee - refereeFee - devShare

MutantFreedBySettlement(s) == Winnings(s, FeeBp)

\* A settlement gives the whole pot's part of the escrow cap back.
FreedBySettlement(s) == Pot(s)

SettleBet(b) ==
    LET s == stake[b]
        toA == ShareA(PaidResult(b), s, FeeBp)
        toB == ShareB(PaidResult(b), s, FeeBp)
        fee == Fee(s, FeeBp)
        refereeFee == RefereeFee(s, FeeBp, RewardBp)
        devShare == DevShare(s, FeeBp, RewardBp, RevShareBp)
    IN  /\ b \in settling /\ announcing = {}
        /\ StillReported(b)
        /\ PotIntact(b)
        /\ escrow' = [escrow EXCEPT ![b] = @ - fee - toA - toB]
        /\ posted' = [posted EXCEPT ![b] = @ \cup {"settle"}]
        /\ credit' = [credit EXCEPT ![b] = [A |-> toA, B |-> toB, house |-> fee]]
        /\ wallet' = [u \in Users |-> wallet[u] + Receives(u, playerA[b], toA)
                                                + Receives(u, playerB[b], toB)
                                                + Receives(u, referee[b], refereeFee)]
        /\ revenue' = revenue + KeptByPlatform(fee, refereeFee, devShare)
        /\ devBalance' = devBalance + devShare
        /\ currentEscrow' = AtLeastZero(currentEscrow - FreedBySettlement(s))
        /\ status' = [status EXCEPT ![b] = "SETTLED"]
        /\ assignment' = [assignment EXCEPT ![b] = "COMPLETED"]
        /\ settling' = settling \ {b}
        /\ announcing' = {b}
        /\ UNCHANGED <<outcome, stake, playerA, playerB, referee, decision, clock,
                       disputeVars, mailed>>

\* The other holder of the bet's advisory lock, at this point of its life.
LockedElsewhere(b) == \E d \in OpenDisputes(b) : dispute[d] = "UNDER_REVIEW"

\* The worker returns early: the mail is sent all the same.
SettleSkip(b) ==
    /\ b \in settling /\ announcing = {}
    /\ ~StillReported(b) \/ LockedElsewhere(b)
    /\ settling' = settling \ {b}
    /\ announcing' = {b}
    /\ UNCHANGED <<betVars, ledgerVars, refereeVars, disputeVars, mailed>>

\* The transaction throws: rolled back, and the loop goes on to the next bet.
SettleFails(b) ==
    /\ b \in settling /\ announcing = {}
    /\ StillReported(b)
    /\ ~PotIntact(b)
    /\ settling' = settling \ {b}
    /\ UNCHANGED <<betVars, ledgerVars, refereeVars, disputeVars, announcing, mailed>>

\* Mail is keyed by bet and player, so only the first one queued is sent.
Announce(b) ==
    /\ b \in announcing
    /\ announcing' = announcing \ {b}
    /\ mailed' = [mailed EXCEPT ![b] = IF @ = "none" THEN outcome[b] ELSE @]
    /\ UNCHANGED <<betVars, ledgerVars, refereeVars, disputeVars, settling>>

\* The worker process dies and is restarted.
CrashSettlement ==
    /\ settling # {} \/ announcing # {}
    /\ settling' = {} /\ announcing' = {}
    /\ UNCHANGED <<betVars, ledgerVars, refereeVars, disputeVars, mailed>>

-----------------------------------------------------------------------------
PlayerStep(b) ==
    \/ \E p, q \in Players, s \in Stakes : Accept(b, p, q, s)
    \/ WithdrawFromMatch(b)

RefereeStep(b) ==
    \/ \E r \in Referees : ClaimAssignment(b, r)
    \/ Ready(b)
    \/ Start(b)
    \/ \E result \in Outcomes : SubmitDecision(b, result)

SweepStep(b) ==
    \/ SweepUnclaimed(b)
    \/ SweepStalled(b)
    \/ SweepOverrun(b)
    \/ VoidStaleMatch(b)

FilingStep(d) ==
    \/ \E b \in Bets, p \in Players : FileCheck(d, b, p)
    \/ FileCommit(d)
    \/ FileConflict(d)

ReviewStep(d) ==
    \/ \E r \in Reviewers : ClaimDispute(r, d)
    \/ \E r \in Reviewers : DecideCheck(r, d)
    \/ \E r \in Reviewers : ResolveVoid(r, d)
    \/ \E r \in Reviewers, result \in Outcomes : ResolveOutcome(r, d, result)
    \/ \E r \in Reviewers : ResolveFails(r, d)

EscalationStep(d) ==
    \/ Escalate(d)
    \/ AutoVoidDispute(d)
    \/ AutoCloseDispute(d)

SettlementStep(b) ==
    \/ SettleBet(b)
    \/ SettleSkip(b)
    \/ SettleFails(b)
    \/ Announce(b)

Next ==
    \/ \E b \in Bets : PlayerStep(b)
    \/ \E b \in Bets : RefereeStep(b)
    \/ \E b \in Bets : SweepStep(b)
    \/ \E b \in Bets : VoidUnderage(b)
    \/ \E b \in Bets : Tick(b)
    \/ \E d \in Disputes : FilingStep(d)
    \/ \E d \in Disputes : ReviewStep(d)
    \/ \E d \in Disputes : EscalationStep(d)
    \/ SettlementScan
    \/ \E b \in Bets : SettlementStep(b)
    \/ CrashSettlement

Spec == Init /\ [][Next]_vars

-----------------------------------------------------------------------------
(* Properties *)

\* Every variable has its type.
TypeOK ==
    /\ status \in [Bets -> BetStatuses]
    /\ outcome \in [Bets -> Outcomes \cup {"none"}]
    /\ stake \in [Bets -> Nat]
    /\ playerA \in [Bets -> Players \cup {Null}]
    /\ playerB \in [Bets -> Players \cup {Null}]
    /\ escrow \in [Bets -> Nat]
    /\ posted \in [Bets -> SUBSET PostingKeys]
    /\ credit \in [Bets -> [A : Nat, B : Nat, house : Nat]]
    /\ wallet \in [Users -> Nat]
    /\ revenue \in Nat /\ devBalance \in Nat /\ currentEscrow \in Nat
    /\ assignment \in [Bets -> AssignmentStatuses]
    /\ referee \in [Bets -> Referees \cup {Null}]
    /\ decision \in [Bets -> Outcomes \cup {"none"}]
    /\ clock \in [Bets -> {"none", "open", "closed", "due"}]
    /\ dispute \in [Disputes -> {"idle", "filing"} \cup FiledDisputeStatuses]
    /\ filedOn \in [Disputes -> Bets \cup {Null}]
    /\ filedBy \in [Disputes -> Players \cup {Null}]
    /\ reviewer \in [Disputes -> Reviewers \cup {Null}]
    /\ ruling \in [Disputes -> Rulings \cup {"none"}]
    /\ decidedBy \in [Disputes -> Reviewers \cup {Null}]
    /\ deciding \subseteq Reviewers \X Disputes
    /\ settling \subseteq Bets /\ announcing \subseteq Bets
    /\ mailed \in [Bets -> Outcomes \cup {"none"}]

\* A bet's escrow account holds both stakes or nothing: both while the match
\* is on, nothing once it is settled or voided.
PotWholeOrGone ==
    \A b \in Bets \ SeededBets :
        /\ escrow[b] \in {0, Pot(stake[b])}
        /\ status[b] = "MATCHED" => escrow[b] = Pot(stake[b])
        /\ status[b] \in {"SETTLED", "VOIDED"} => escrow[b] = 0

\* However a bet ends, and whatever races to end it, its pot leaves escrow
\* under one key family only: a settlement that divides all of it, or one
\* refund that gives each player exactly their own stake.
PotPaidOnce ==
    \A b \in Bets :
        /\ \A k, l \in posted[b] : k = l
        /\ "settle" \in posted[b] =>
               credit[b].A + credit[b].B + credit[b].house = Pot(stake[b])
        /\ posted[b] \cap RefundKeys # {} =>
               credit[b] = [A |-> stake[b], B |-> stake[b], house |-> 0]
        /\ posted[b] = {} => credit[b] = NoCredit

\* No referee, and no pool of claimable matches, is left holding an
\* assignment of a bet that is over or already decided.
LiveAssignmentMatched ==
    \A b \in Bets : assignment[b] \in LiveAssignments => status[b] = "MATCHED"

\* A referee officiates one match at a time.
OneActiveMatchPerReferee ==
    \A b, c \in Bets :
        /\ assignment[b] \in ActiveAssignments /\ assignment[c] \in ActiveAssignments
        /\ referee[b] = referee[c]
        => b = c

\* No dispute is decided by someone who played or refereed the match, although
\* independence is checked before the deciding transaction only.
IndependentDecision ==
    \A d \in Disputes :
        decidedBy[d] # Null =>
            /\ ~IsPlayer(filedOn[d], decidedBy[d])
            /\ referee[filedOn[d]] # decidedBy[d]

\* A reviewer who is not an admin decides only a dispute they have taken.
ClaimIsExclusive ==
    \A d \in Disputes :
        decidedBy[d] \notin Admins \cup {Null} => reviewer[d] = decidedBy[d]

\* What a settled bet paid follows its outcome, to the penny, even when a
\* dispute changed the outcome after the worker had picked the bet.
PaidAccordingToOutcome ==
    \A b \in Bets :
        status[b] = "SETTLED" =>
            /\ credit[b].A = ShareA(outcome[b], stake[b], FeeBp)
            /\ credit[b].B = ShareB(outcome[b], stake[b], FeeBp)
            /\ credit[b].house = Fee(stake[b], FeeBp)

\* A referee's call is never overwritten, so overturn rates can be measured.
RefereeCallIsKept ==
    [][\A b \in Bets : decision[b] \in Outcomes => decision'[b] = decision[b]]_vars

(* What makes those invariants inductive. *)

\* Where a bet's pot is.
Untouched(b) == escrow[b] = 0 /\ posted[b] = {} /\ credit[b] = NoCredit
Held(b) == escrow[b] = Pot(stake[b]) /\ posted[b] = {} /\ credit[b] = NoCredit
Paid(b) ==
    /\ escrow[b] = 0 /\ posted[b] = {"settle"}
    /\ credit[b].A + credit[b].B + credit[b].house = Pot(stake[b])
Refunded(b) ==
    /\ escrow[b] = 0 /\ \E k \in RefundKeys : posted[b] = {k}
    /\ credit[b] = [A |-> stake[b], B |-> stake[b], house |-> 0]

\* A pot is in one of those places, and which of them the status allows.  A
\* decision may put a settled or voided bet back to RESULT_REPORTED, so that
\* status, and DISPUTED, allow all but Untouched.
PotState ==
    \A b \in Bets :
        /\ status[b] = "NONE" \/ b \in SeededBets => Untouched(b)
        /\ status[b] # "NONE" /\ b \notin SeededBets => Held(b) \/ Paid(b) \/ Refunded(b)
        /\ status[b] = "MATCHED" /\ b \notin SeededBets => Held(b)
        /\ status[b] = "SETTLED" => Paid(b)
        /\ status[b] = "VOIDED" => ~Held(b)

\* Which rows exist together: a live assignment only with a match, a demo bet
\* with neither assignment nor result, a stake with every accepted bet.
BetRows ==
    \A b \in Bets :
        /\ assignment[b] \in LiveAssignments => status[b] = "MATCHED" /\ b \notin SeededBets
        /\ status[b] = "NONE" => b \notin SeededBets
        /\ status[b] # "NONE" => stake[b] > 0
        /\ b \in SeededBets => status[b] \in {"MATCHED", "VOIDED"}

\* A dispute is about a bet whose match is over, and whoever may decide it, or
\* has, was neither its player nor its referee.
DisputeRows ==
    \A d \in Disputes :
        /\ dispute[d] # "idle" =>
               filedOn[d] \in Bets \ SeededBets /\ status[filedOn[d]] \notin {"NONE", "MATCHED"}
        /\ \A u \in Reviewers :
               <<u, d>> \in deciding \/ decidedBy[d] = u =>
                   dispute[d] \in FiledDisputeStatuses /\ Independent(u, filedOn[d])

IInv ==
    /\ TypeOK
    /\ BetRows
    /\ DisputeRows
    /\ PotState
    /\ PaidAccordingToOutcome
    /\ OneActiveMatchPerReferee

(* As long as no two requests decide the same dispute at once, a dispute
   freezes the pot it is about. *)

OneDecisionEach ==
    \A d \in Disputes, r, q \in Reviewers :
        <<r, d>> \in deciding /\ <<q, d>> \in deciding => r = q

\* An unresolved dispute over a pot still held keeps its bet DISPUTED, out of
\* the settlement worker's reach.
OpenDisputeHoldsPot ==
    \A b \in Bets :
        OpenDisputes(b) # {} /\ escrow[b] > 0 => status[b] = "DISPUTED"

\* No bet is settled over an unresolved dispute, although the worker does not
\* look at disputes again after its scan.
NeverSettledWhileDisputed ==
    [][\A b \in Bets :
          status[b] # "SETTLED" /\ status'[b] = "SETTLED" => OpenDisputes(b) = {}]_vars

(* The stakes of every bet follow the custody promise. *)

CustodyOf(b) ==
    IF escrow[b] > 0 THEN "held"
    ELSE IF posted[b] = {} THEN "none"
    ELSE IF "settle" \in posted[b] THEN "paid" ELSE "refunded"

Custody == INSTANCE StakeCustody
    WITH custody <- [b \in Bets |-> CustodyOf(b)], share <- credit

\* Every behaviour of the transactions, workers and requests is a behaviour of
\* StakeCustody: stakes are taken together, and leave together exactly once.
CustodyKept == Custody!Spec

(* Statements of the code's comments that the code does not keep. *)

\* A bet waiting for settlement or for a dispute decision holds its pot.
ReportedBetsHoldPot ==
    \A b \in Bets :
        status[b] \in {"RESULT_REPORTED", "DISPUTED"} => escrow[b] = Pot(stake[b])

\* A dispute is decided once: a decided one is not decided again.
DecidedOnce ==
    [][\A d \in Disputes : dispute[d] = "RESOLVED" =>
          ruling'[d] = ruling[d] /\ decidedBy'[d] = decidedBy[d]]_vars

\* Players get the result mail of a bet only after it has settled.
ResultMailAfterSettlement ==
    \A b \in Bets : mailed[b] # "none" => "settle" \in posted[b]

(* Liveness *)

(* The workers are repeatable jobs (lib/jobs/schedules.ts): every scan runs
   again for as long as it finds work, and time passes.  A crash may interrupt
   a settlement batch any number of times, but not every time. *)
Fairness ==
    /\ \A b \in Bets :
         /\ WF_vars(Tick(b))
         /\ WF_vars(SweepUnclaimed(b)) /\ WF_vars(SweepStalled(b)) /\ WF_vars(SweepOverrun(b))
         /\ SF_vars(SettleBet(b))
         /\ WF_vars(SettleSkip(b)) /\ WF_vars(SettleFails(b)) /\ WF_vars(Announce(b))
    /\ WF_vars(SettlementScan)
    /\ \A d \in Disputes :
         /\ WF_vars(Escalate(d)) /\ WF_vars(AutoVoidDispute(d))

FairSpec == Spec /\ Fairness

\* Once a result is called, the pot always leaves escrow: by settlement, or by
\* a refund when the dispute over it is voided or nobody decides it.
HeldPotReleased ==
    \A b \in Bets :
        (status[b] \in {"RESULT_REPORTED", "DISPUTED"} /\ escrow[b] > 0) ~> escrow[b] = 0

\* A started match ends: in a call, or in a void when the referee goes silent.
StartedMatchEnds ==
    \A b \in Bets : assignment[b] = "IN_PROGRESS" ~> status[b] # "MATCHED"
=============================================================================

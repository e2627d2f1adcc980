# PlayStake in TLA+

PlayStake takes equal stakes from two players, has a human referee watch their match, and
pays the winner. This directory models the parts of it where money can be lost, paid twice
or stuck, and where a rule that protects the customer can be raced: the escrow accounts and
everything that empties them, deposits and withdrawals over Stripe, the challenges that
become bets, deposit limits and breaks, identity checks, complaints, what follows a marker of
harm, the recordings of a match, the mail and webhook queues and the referee's audit trail. The reference is the code in `src/`; every definition is translated from it, and
`PROJECT.json` ("map") names the lines.

    tlc -workers 2 -config races.cfg MCBetEscrow      # any .cfg, with the MC module it is for
    tlapm BetEscrowCustody_proofs.tla                 # and the other *_proofs modules

## 1. The system

A Next.js application (API routes under `src/app/api`) and a BullMQ worker process
(`src/workers`) share one Postgres database through Prisma, and Redis for queues and
pub/sub. Stripe moves money in and out; Kick says who is live.

| component | state it keeps | operations | what makes it correct |
|---|---|---|---|
| Lobby (`lib/lobby/service`) | lobby entries, challenges | create, accept, decline, cancel, expire | an invite is accepted once; both stakes are held or neither |
| Ledger (`lib/ledger`) | accounts, transactions by idempotency key, the developer's escrow counter | hold, release, refund, fee, shares | money conserved, no account below zero, the counter equals the escrow |
| Bet (`lobby/match-lifecycle`, `matches/withdraw`, `compliance/account-actions`, `bet-expiry.worker`) | `bets` | withdraw, no-show, sweep, under-age void | a pot leaves once, to the right people, and always leaves |
| Referee workflow (`lib/referees/service`) | `referee_assignments` | claim, ready, start, decide, sweep | one match per referee; no live assignment without a match |
| Disputes (`bets/[id]/dispute`, `disputes/review`, `dispute-escalation.worker`) | `disputes` | file, take, decide, escalate, auto-void | a dispute freezes the pot; an independent reviewer decides it once |
| Settlement (`settlement.worker`) | none of its own: a batch in memory | scan, settle, tell the players | pays what the bet's outcome says; nothing while disputed |
| Payout (`settlement.worker`, `utils/payout`) | none | fee, referee, developer, shares, quote | shares add up to the pot; the quote is what is paid |
| Wallet (`wallet/*`, `webhooks/stripe`) | transactions, Stripe events | deposit, withdraw, webhook | credited exactly once; a withdrawal leaves exactly once |
| Responsible play (`lib/responsible-play`) | breaks, deposit limits | break, exclude, return, limits | an excluded player enters no match; limits only loosen after a delay |
| Identity (`lib/kyc`, `compliance/identity-checks`) | submissions, `kycStatus`, identity cases | upload, Didit decision, screen, review | nobody is verified without an approval, nor past an open case |
| Email and webhooks (`email/outbox`, `webhooks/dispatch`) | outbox rows, delivery rows | queue, claim, send, retry | one sender per mail; a row's status is true |
| Referee audit (`referees/audit`) | a hash chain per assignment | append, verify | no fork, no gap |
| Recordings (`recorder`, `lib/recordings`, `lib/voice`, `recording-retention.worker`) | rows, and files in storage under one prefix per match | record, seal, hold, release, delete | a file is what was sealed; nothing disputed goes, everything goes in the end |
| Complaints (`lib/complaints`) | complaints and their events | file, act, answer, warn | one final response; overdue ones are noticed |
| Care (`responsible-play/risk`, `interaction`) | signals, interactions | raise, answer, act, evaluate | a signal is seen; every interaction is settled, truthfully |
| Sessions, throttles, AML scores, Kick, pages | their own rows | | see "Not modelled" |

How they interact: accepting an invite calls the ledger twice and creates the bet and its
assignment in one transaction. Referee, dispute and void handlers write bet, assignment
and dispute rows in one transaction each. Workers read a batch and then run one
transaction per row of it. Mail, webhooks and live events are sent after the commit.

What is hard: transactions are serializable (`withTransaction`) or lock the bet row
(`FOR UPDATE`), so each is atomic; the races are *between* them.

- A reviewer's right to decide, and that the dispute is open, are checked before the
  deciding transaction (`review.ts:288-293`), a player's right to dispute before the filing
  one (`dispute/route.ts:46-114`).
- A settlement batch is stale when its last bet is reached (`settlement.worker.ts:383`).
- Each path out of escrow has idempotency keys of its own, so the keys do not exclude
  each other; balance and status checks must.
- Advisory locks, crashes between commit and mail, referees and reviewers who go silent.
- The wallet routes alternate database and Stripe calls; a request may stop, or be retried
  with its key, between any two. Stripe repeats events until answered 200.
- The lobby's transactions are READ COMMITTED and mostly update by id what they listed
  before; checks of break, balance and opponent run before the accepting transaction.
- Limits, Didit decisions and webhook deliveries are read and then updated by id, in
  statements of their own.
- Breaks, exclusions, complaints, interactions and recordings are read in one statement and
  written in another, by requests and jobs that may stop in between. The queue starts a
  recorder's job again when its worker died, and LiveKit delivers an event again.
- Four roundings that must not together exceed the pot.

## 2. Modules

| module | what it is |
|---|---|
| `Payout` | pure arithmetic of a settled pot, in pence and ten-thousandths |
| `StakeCustody` | the abstract promise: stakes are taken together, held together, and leave together exactly once |
| `BetEscrow` | the core: bets, ledger, assignments, disputes, escalation, settlement worker |
| `WalletPromise` | the abstract promise: a card payment is credited at most once, a withdrawal leaves, is sent and is given back at most once each |
| `StripePayments` | the deposit and withdraw routes, the Stripe webhook, and Stripe as they see it |
| `ChallengePromise` | the abstract promise: a challenge ends once, in a match that takes both stakes, or for good |
| `Lobby` | sending, answering, cancelling and expiring challenges; taking a barred player out |
| `EmailOutbox`, `WebhookDelivery` | the two queues and their workers, several instances of each |
| `DepositLimits` | one limit, the requests that change it, its worker, and the deposits it bounds |
| `IdentityChecks` | one customer's submissions: Didit's webhook and sync, uploads, staff, cases |
| `AuditTrail` | concurrent appends to one referee assignment's hash chain |
| `Recordings` | the recordings of one match: recorder, voice webhook, dispute, hold, retention worker, storage |
| `PlayBreaks` | the cool-offs and self-exclusions of two accounts of one person, over the days |
| `Complaints` | one complaint, the staff who act on it, the scan that watches its deadline |
| `CustomerCare` | one customer's signals and interactions, and what staff and the evaluating job do |
| `MCBetEscrow`, `MCStripePayments`, `MCLobby` | instances for TLC; sums over accounts |
| `MCLobbyScenes` | `MCLobby` in scenes: which challenges are sent, and who takes breaks |
| `MCPayout` | `Payout` over a range of stakes |
| `MCBackground`, `MCSafeguards` | parts that share no state, in one run each |
| `BetEscrow_proofs`, `BetEscrowCustody_proofs`, `BetEscrowMoney_proofs` | theorems of the core: its invariant, its refinement and disputes, its sums |
| `Payout_proofs`, `StripePayments_proofs`, `Lobby_proofs` | theorems of the arithmetic, the wallet and the lobby |
| `Background_proofs`, `Safeguards_proofs` | theorems of the parts of `MCBackground` and `MCSafeguards`, and of those modules' own properties |

`BetEscrow` extends `Payout` and instantiates `StakeCustody` under a refinement mapping
(`CustodyOf`: a bet's custody is read off its escrow balance and the keys posted).

`StripePayments` instantiates `WalletPromise`, and `Lobby` `ChallengePromise`, the same way.
`Lobby` ends where `BetEscrow` begins: a match with both stakes held. `DepositLimits` guards
the row that `StripePayments` begins with; they are checked apart, as any gate may refuse at
any time there. `MCBackground` extends the mail, hooks, limits, identity, trail and price modules,
which share no state: its variable `part`, chosen initially, says which one moves, so their state
spaces add up. `MCSafeguards` does the same with `Recordings`, `PlayBreaks`, `Complaints` and
`CustomerCare`, whose liveness is checked too. In `Lobby` a break is on or off; what it is
made of is `PlayBreaks`'. `Recordings` has the match's dispute as a status only: who files and
decides it is `BetEscrow`'s. The hash chain its seals go into is `AuditTrail`'s.

### State of BetEscrow

| variables | code |
|---|---|
| `status outcome stake playerA playerB` | `bets`; "NONE" is a row not created |
| `escrow posted credit wallet revenue devBalance currentEscrow` | ledger account balances; the families of idempotency keys posted per bet; what each side had out of its pot (a history variable); `developer_escrow_limits.current_escrow` |
| `assignment referee decision` | `referee_assignments` |
| `clock` | where a bet is against `disputeDeadline` and the two-minute delay: "open" while the window is, "closed" after a review decision, "due" when the worker may settle |
| `dispute filedOn filedBy reviewer ruling decidedBy` | `disputes`; "filing" is a request past its checks; `RESOLVED` with a `ruling` stands for the four RESOLVED statuses |
| `deciding` | decision requests past their checks and not committed |
| `settling announcing mailed` | the worker's batch, the bet whose mail is next, the outcome of the mail queued |

### Actions

One action is one committed transaction, or one check a request acts on later. A
transaction that throws changes nothing; it is an action only where the caller goes on
afterwards (`SettleFails`, `ResolveFails`, `FileConflict`). `FileCheck`/`FileCommit` and
`DecideCheck`/`Resolve...` are the two halves of a request. Two submissions by one reviewer
of one dispute are one element of `deciding`: when both commit, the second does what
another reviewer's would.

`LockedElsewhere` is the settlement worker losing `pg_try_advisory_xact_lock` to the
auto-void, the only other taker of that lock that can meet it. The auto-void losing it is
the step not being taken.

Conditions that are data here (KYC, age, qualification, being live, follows and blocks)
are not guards: every step they forbid is one the model may take, so safety holds with
them too. Audit rows, recordings, statistics and webhook dispatch are left out.

Demo rows: the seed creates bets that never had an escrow account. `SeededBets` are the
MATCHED ones, which the no-show sweep meets and must close without a refund.

### StripePayments

| variables | code |
|---|---|
| `row linked` | `transactions.status` by client key; the rows with a `stripePaymentId` |
| `posted wallet` | the ledger's idempotency keys and the wallet balances |
| `usable` | users not suspended |
| `record` | `stripe_events`: none, received, processed |
| `request delivery` | where an HTTP request or a webhook delivery stands |
| `secrets paid transfers outbox` | Stripe: client secrets handed out, payments, transfers, events not yet answered 200 |
| `happened unprocessed reported` | history: events; events answered 200 unprocessed; customers with a chargeback case (one open case stands for later disputes too) |

One action is one statement or transaction, or one call to Stripe. A request may stop before
any of them (`Crash`, `DeliveryFails`), and Stripe's answer may be lost with the transfer made
(`SendTransfer`). `StartDeposit` and `StartWithdrawal` are the reads that decide where a retry
of a key resumes. Stripe's own idempotency (one intent and one transfer per key) is assumed.
A payment may use a method that is not on the approved list; its deposit is marked FAILED.

### Lobby

| variables | code |
|---|---|
| `challenge viewerEntry streamerEntry` | `stream_challenges.status` and the status of its two `lobby_entries` |
| `late` | which of its deadlines (60 s, 10 min) have passed |
| `matched balance` | bets made, stakes free |
| `barred sweep swept` | players on a break or with a closed account; their `withdrawOpenActivity`; history |
| `request` | `find`, `send`; `ask`, `read`, `hold`, `match`; `decline` |
| `scanned` | entries the expiry scan has listed and not written yet; the write is by id, whatever the entry has become |
| `sentAfter` | history: which accepts came before a challenge was sent |

The transactions here are READ COMMITTED, so an action is what one of them reads, or all it
writes (its row locks make the writes one step). `holdEscrow` locks both players' ledger rows,
so accepts that share a player come one after the other (`HoldStakes`). One game and one stake
are enough, as nothing a challenge does depends on them. `ENDED` stands for DECLINED,
CANCELLED and EXPIRED, `GONE` for the entries' CANCELLED and EXPIRED: no code tells them
apart. A challenge of the code that goes from ACCEPTED to CANCELLED (section 5) is `ENDED` with
its bet in `matched`. Gates that are data (live on Kick, match rules, blocks, age) are
`Abandon`: a request may be refused anywhere. Two assumptions about time: no request or
scan lasts from a challenge's 60 s to its 10 min, and a break (a day at least) outlives its own
sweep. The scan's limit of 200 entries is not met by the instances.

### The background components

- `EmailOutbox`: `outbox` rows, `mailer` (an instance's batch and the mail it holds); external
  `accepted`; history `lostMail`. Claim, provider call and take-back are three actions; a call
  may fail with the mail taken; an instance may stop at any of them.
- `WebhookDelivery`: `hook` rows, `sender` (per instance and delivery, as a batch is delivered
  concurrently), the configuration's `active` switch; external `told`; history `tries`.
  `UpdateHook` writes from the count that was read.
- `DepositLimits`: `limit` (the row; `staged` is the side of `pendingEffectiveAt` it is on),
  `deposits` in the period's window, `tab` (requests between read and write), `tidy` (the
  worker). A deposit in flight carries two history fields: `under`, the highest limit in force
  since its check, and `crowd`, the most deposits in flight at once with it. `InForce` is `resolveLimit`.
- `IdentityChecks`: `kycStatus`, `submission`, `identityCase`, and the four kinds of actors,
  `applier` (Didit's webhook or the sync, unguarded updates), `upload`, `reviewer`
  (serializable); external `verdict` and `mismatch` (the documents are somebody else's).
- `AuditTrail`: `trail`, the assignment's row lock, and per append its snapshot and what it read.
  Filing a dispute runs READ COMMITTED, everything else SERIALIZABLE with a snapshot older
  than the lock; callers that only lock the assignment (`LockOnly`: sealing recordings, a
  ruling) leave nothing for Postgres to refuse the next one on, and there the unique index
  does it (`Free`).

### Recordings, breaks, complaints and care

- `Recordings`: `row` (the composite is row 0, voice recordings the others), `store` (the objects
  under the match's prefix, each marked with the run that wrote it), `seals` (the audit trail),
  `recorder`, `hook` (deliveries of LiveKit's event), `jobs` (seal-voice jobs), `scan` (the
  retention worker), `release` (an admin's). The clock is in coarse units: `now = 0` is the dispute
  window, `Month` and `Year` are the retention periods in such units. `Tick` waits for
  what takes minutes (`NothingUnderWay`), so no step is stretched over a month. One dispute
  stands for the two players' two. `egress` is LiveKit's event: of a file, or of a recording that is
  empty or failed, whose FAILED row has no storage key and is not found again by a repeated
  delivery. `FailRecording` may fail too and leave the row as it was. One event has one file here.
  Playback and the log of viewings are left out.
- `PlayBreaks`: `breaks` (rows, in order), `tab` (a request between read and write), `screen`
  (the screening of the second account), `told` (the mails of the day; the outbox takes one a
  break). Lengths are in days, and a request is over within its day. `MaxDay` stands for
  every later day.
- `Complaints`: `complaint timeline letters audited` are what one transaction writes together;
  `handler` is staff between load and transaction. A mail key taken before ends its transaction:
  `queueEmail` passes over the error, Postgres does not (`FinalQueued`).
- `CustomerCare`: `raised talks alerts limit`, and the three actors `detector`, `evaluator` (two
  passes of one job, so never both) and `staff`. `since` of an interaction is what the evaluation
  would find dated after it. What was spent before and after is a choice; one
  deposit limit, one kind of signal; staff reviews of a signal change nothing here. A note of staff
  has no follow-up date (`NoDate`) and is never evaluated; an email or a call has the one they chose.

## 3. Runs

| run | instance | distinct states | what it shows |
|---|---|---|---|
| `races` | one bet, 2 disputes, referee, 3 reviewers (one is the referee), 2 decisions in flight | 838,815 | every way to end a bet against every other: the ledger, dispute and refinement properties |
| `pair` | 2 bets and a demo row, 3 players, 2 referees (one also plays), cap and wallets too small for all | 2,152,008 | one match per referee, the counter shared by bets |
| `careful` | as `races`, one decision in flight, with fairness | 161,219 | disputes freeze the pot; every pot is released; started matches end |
| `wallet` | a deposit and a withdrawal of one customer, 2 requests and deliveries in flight, 1 fault, with fairness | 183,975 | the wallet keeps its promise, rows tell the truth, every event has its effect |
| `lobby` | 3 players, 2 requests, two scenes: 3 challenges (two to one streamer, two by one viewer) and no breaks; a challenge from and one to a player who takes breaks | 1,883,775 | a challenge ends once; one stake per match; rivals lose; after the sweep no match |
| `lobby_expiry` | 2 challenges by one viewer, who takes breaks, 2 requests, both deadlines, with fairness | 645,236 | nothing stays in the lobby |
| `background` | 2 mails and 2 mailers; 1 delivery and 2 senders; limits 1..3, 2 tabs, 3 deposits; 1 session, 1 upload, 2 appliers; 5 appends; stakes 1..300 p, 11 fees x 4 rewards x 4 shares | 849,720 | the six parts, each on its own |
| `safeguards` | the composite and 1 voice recording, 1 delivery, 1 crash or 1 hold, month 2 and year 3 units of 4; 2 accounts, 2 requests, 2 breaks each, cool-off 1 day, exclusion 2, of 4 days; 2 staff, 2 outcomes, a warning in week 1 of 2; 2 interactions, follow-ups after 1 or 2 days or none, 1 staff action, 1 crash; with fairness | 526,939 | files are what was sealed, nothing disputed goes, the rest does; no way round an exclusion and a way back; one final response; overdue complaints and due interactions are dealt with |
| `sent_and_returned` | as `wallet`, without fairness | stops at the first violation | a withdrawal both sent and given back |
| `reported_pot`, `decided_once`, `result_mail` | as `races` | stops at the first violation | disagreements between the code and its own comments (section 5) |

Bounds, and why they are enough. Bets meet only through wallets, the cap and referees, and
two bets at once are enough for each: in `pair` a wallet of 205 p can stake 100 p twice, or
100 p and 105 p, and the cap of 410 p likewise holds two bets but not two of 105 p. Within a
bet the actors are two filers, one worker of each kind, and decision requests; three
requests would repeat what two do, as what a decision does depends on the bet's status
only. `MaxDeciding` bounds the requests in flight. `ScanBatch = 1` is the worker's batch of 50 at its
limit: with two bets due a scan takes either and leaves the other. A stake of 105 p under a fee of 5% and a
reward of 10% leaves both roundings a remainder (fee 10.5 p, reward 1.1 p) and a draw an odd
penny.

`wallet`: requests meet only by sharing a key or a balance, deliveries by sharing an event or
a row. Two of them at once (`MaxBusy`), one deposit and a withdrawal of the same size have
both. One fault (`MaxFaults`) is a crash, a lost answer or a failed statement; after it every
retry is possible, and a second fault repeats the first on what is left. `lobby`: rivals at one
streamer, a viewer who supersedes, and a player who is viewer of one challenge and can pay for one
match only; in the scene with breaks the player who leaves is streamer of one challenge and viewer of
the other. `Deadlines = 1` lets only the 60 s pass: at the 10 min entries are closed and nothing else,
which is `lobby_expiry`'s question, with two challenges one viewer may send at once, so that neither
sees the other. `background`: three deposits let two in flight pass a limit of 1 or 2 together; a third
instance repeats what two do to one row; the attempt bounds are the
code's own (5); three limits give one below, in and above; the appends cover both isolation
levels, and locking with and without an update, twice each but one. What a bound leaves out, the
theorems of section 4 cover: every invariant and action property of these four runs is proved for
any bound.

`safeguards`, recordings: one crash can hit the recorder, a delivery, the filing request or the
retention worker, at any step, or one hold is placed and released (a behaviour has one of the two);
a job is started twice by the queue at most. Four units let a row expire after a release. Breaks: two
rows an account are a pair that overlaps; a third repeats it. Two days to start in, an exclusion
and a cooling-off fit before `MaxDay`, by `BreakAssumption`. Complaints: two staff give every order
of two actions, and events only add up. Care: two interactions of any two kinds, one crash of a
job; a staff action more changes what the evaluation finds, not whether it ends. Its invariants
and its action property are proved for any bound, crashes and holds together included.

Symmetry: disputes are alike, bets are alike, and players `alice` and `bob` are alike (which is
player A is a field of the bet); so are the two requests of `lobby`, and in `background` the
instances, tabs and appliers. Runs that check liveness use no symmetry.

Deadlock is not checked (`CHECK_DEADLOCK FALSE`) because the system may stop: a settled
bet whose disputes are decided takes no further step, nor does a lobby whose challenges have
ended, or a wallet whose requests and events are answered. So do the days and weeks of `safeguards`. In `lobby_expiry` it is checked:
breaks come and go for ever.

### Fairness

**`careful`.**
`WF` of `Tick` (time passes), of the sweeps, the scan, the escalation and the auto-void:
they are repeatable jobs (`lib/jobs/schedules.ts`: settlement every 30 s, bet expiry every
60 s, escalation every 5 min). `SF` of `SettleBet` because a crash disables it, and the next scan
enables it again: crashes may interrupt any number of batches, not every one. No fairness
for players, referees, reviewers and admins; a dispute nobody decides is escalated and
auto-voided, which `HeldPotReleased` depends on.

**`wallet`.** `WF` of each request's and each delivery's next step: code that is running runs
on unless it stops, and stopping is a fault. `SF` of receiving each event: Stripe sends it again
until it is answered, and a delivery may find `MaxBusy` reached each time it comes by. None for
customers, payments or staff.

**`lobby_expiry`.** `WF` of the scan's expiry of a challenge and of its listing of entries (every 30 s,
`lib/jobs/schedules.ts`), `SF` of its write of an entry, since an error is caught and the entry left to
a later scan (`MissEntry`): any number of scans may miss it, not every one. `WF` of time, and of a
request's next step or refusal. None for sending, answering, cancelling, breaking or coming back, nor
for finishing a sweep: `NothingStaysOpen` holds by the scan alone.

**`safeguards`.** Recordings: `WF` of the recorder's next step (a run that fails is a step too), of each delivery's,
of the retention worker (hourly), of holding for a filed dispute, of the escalation worker, of time, and of a
release that has begun. None for filing, deciding by staff, holding or releasing.
Breaks: `WF` of days, of a request's second half and of the screening's; and of asking to
return, which is the customer's own doing: `ComesBack` is about a customer who asks. Complaints:
`WF` of the scan (every 5 min) and `SF` of its alert, which a failing scan may lose any number of times, not
every time. None for staff. Care: `WF` of the job's passes (its schedule repeats them after a
crash), of a staff request that has begun, and of days. None for customer or staff.

`HeldPotReleased` and `StartedMatchEnds` say nothing of a match that referees claim and
drop for ever: the sweep gives it back to the pool each time (`SweepStalled`), and the
code has no bound on that.

### Properties and the bug each catches

`MaxDeciding = 1`, one decision being made at a time, is how `OpenDisputeHoldsPot`,
`NeverSettledWhileDisputed` and the liveness properties of a bet are checked. The code does not
ensure it: these two say what holds short of the gap in section 5, and the theorems of section 4 show
that a weaker condition is enough, that no two requests decide one dispute at once. With two the first of them fails: both players pass the filing check, one
files, two decisions of that dispute pass theirs, the first commits, the other player's
filing commits, and the second decision puts the bet back to RESULT_REPORTED under that
open dispute. This is the same gap as the findings of section 5. Every other safety property of
a bet is checked with two.

| property | mutant | the bug |
|---|---|---|
| `TypeOK` | `MutantDevShare` | the developer's share taken of the pot: revenue below zero |
| `PotPaidOnce` | `MutantRefundable` | a refund that does not look at the balance |
| `LiveAssignmentMatched` | `MutantCancelAssignment` | a void that forgets the assignment |
| `OneActiveMatchPerReferee` | `MutantFreeToClaim` | only started matches count as active |
| `PaidAccordingToOutcome` | `MutantPaidResult` | the referee's call paid, not the outcome |
| `MoneyConserved` | `MutantKeptByPlatform` | the referee's reward paid twice over |
| `EscrowCounterExact` | `MutantFreedBySettlement` | room given back for the winnings only |
| `RefereeCallIsKept` | `MutantKeptCall` | a review overwrites the call |
| `CustodyKept` | `MutantPotIntact` | the worker does not look at the balance |
| `OpenDisputeHoldsPot` | `MutantStatusOnDispute` | filing leaves the bet reported |
| `NeverSettledWhileDisputed` | `MutantStillReported` | a disputed bet of the batch is settled |
| `HeldPotReleased` | `MutantSettleable` | any dispute, even decided, bars settlement |
| `StartedMatchEnds` | `MutantSweepOverrun` | the sweep forgets started matches |
| `PotDivides` | `MutantShareB` | both halves of a draw rounded up |
| `QuoteIsPaid` | `MutantQuote` | the fee quoted of one stake |
| `RowsMatchLedger` | `MutantReverseWithdrawal` | a reversal that leaves the row COMPLETED |
| `PayableIsLinked` | `MutantAttachIntent` | the intent's id not put on the row |
| `PromiseKept` (wallet) | `MutantPostOnce` | a ledger that moves money for a key posted before |
| `EventsHandled` | `MutantRecordEvent` | an event recorded as processed on arrival |
| `OneOfRivals`, `PromiseKept` (lobby) | `MutantMatch` | an accept that does not ask whether the challenge is still pending |
| `SweepEndsPlay` | `MutantCheckOpponent` | the opponent's break not asked for |
| `NothingStaysOpen` | `MutantExpireChallenge` | expiry by the challenge's entry, not by the challenge: one that lost its entries to another sent at once stays PENDING |
| `TypeOK` (background) | `MutantAskRemove` | a removal staged when no limit is in force |
| `OutboxTellsTruth` | `MutantClaim` | a claim without its guard |
| `HookTellsTruth` | `MutantHookOutcome` | giving up one attempt early |
| `LoosensOnlyAfterDelay` | `MutantFoldIncrease` | the worker folds by id, without its guard |
| `OvershootIsBounded` | `MutantCanDeposit` | deposits on their way not counted |
| `VerifiedIsApproved` | `MutantDecide` | a rejection that leaves the user's own status |
| `MismatchBlocksApproval` | `MutantPassCaseCheck` | approval without asking for an open case |
| `ChainVerifies` | `MutantFree` | no unique index on the sequence number |
| `TypeOK` (safeguards) | `MutantRespondToPrompt` | the customer's answer stored as the outcome |
| `ReadyMatchesSealed` | `MutantBegin` | a second run leaves the row READY while it replaces the file |
| `NeverDeletedWhileDisputed` | `MutantExpired` | the deletion relies on the dates alone |
| `UndisputedDeleted` | `MutantWriteRelease` | a released hold that sets no date |
| `PlaysOnlyAfterReturn` | `MutantAwaitingReturn` | a running exclusion may be returned from |
| `ComesBack` | `MutantAskReturn` | the return asked of the first exclusion, not the active one |
| `OneFinalResponse` | `MutantFinalQueued` | a mail key of each response's own |
| `OverdueIsAlerted` | `MutantFindNearDeadline` | one alert key for both stages |
| `DueIsSettled` | `MutantDue` | answered messages not evaluated |

What these say when something goes wrong is part of them. `EventsHandled` excuses an event that
was answered 200 unprocessed, which the code does on purpose (section 5); `LoosensOnlyAfterDelay`
excuses two overlapping requests of one customer, which the code does not exclude, and says that
nothing else, the worker above all, loosens the limit; `OutboxTellsTruth` accounts for the mail lost
with an instance that stops. `OvershootIsBounded` excuses nothing: the check of a deposit and its row
are two steps, deposits that overlap can together pass the limit, and the property says by how much,
whatever else is recorded, settled or dropped, and however the limit changes, in between.
`OneActiveMatchPerReferee` rests on the claim being one Serializable step and shows that counting is
then enough; `MismatchBlocksApproval` is of requests whose screening ran; `PlaysOnlyAfterReturn` is of the
exclusions an account has; `NeverDeletedWhileDisputed` is of disputes, not of holds (section 5).

Some properties are proved and not run: `PromiseKept` has no wallet or balance below zero and no
stake held twice, so the `TypeOK` of `StripePayments` and `Lobby` and `StakesMatchBets` are
theorems only; so are `PotWholeOrGone`, `IndependentDecision`, `ClaimIsExclusive`,
`BreakNeverShortened` and `StakesWithinCap`.

## 4. Proofs

All theorems hold for every value of the constants, from the named assumptions of the modules.

### Escrow

For every set of bets, users, disputes, every stake, percentage, cap and any number of
decisions in flight, from the assumptions of `BetEscrow` (players and referees are
users, percentages are ten-thousandths, key families are not disputes).

**The invariant.** `IInv` is `TypeOK`, `BetRows`, `DisputeRows`, `PotState`,
`PaidAccordingToOutcome` and `OneActiveMatchPerReferee`. None of the safety properties is
inductive alone. What must be added is where a pot *is*: `PotState` says it is untouched,
held, paid or refunded, each with its balance, keys and credits together, and which of
these a status allows. It cannot say that a reported bet's pot is held, since a late decision revives
finished bets; that a settlement or refund of such a bet moves nothing follows from its
empty account, not from its status. `DisputeRows` carries a reviewer's
independence from the check to the commit: it survives because a dispute's bet is past MATCHED, and
players and referee of such a bet never change.

- `NextIInv` has one lemma per action; `Inductive` is `Spec => []IInv`. From it:
  `TypeCorrect`, `PotIsWholeOrGone`, `PotIsPaidOnce`, `AssignmentsFollowBets`,
  `OneMatchEach`, `DecisionsAreIndependent`, `PaymentsFollowOutcomes`.
- `ImplementsCustody` is the refinement `Spec => Custody!Spec`: accepting is `Hold`, the
  three kinds of void and a VOID ruling are `Refund`, `SettleBet` is `PayOut`, and every other
  step changes neither balances nor credits nor, once set, a stake.
- `CallIsKept` needs one more conjunct (`CallRows`: a bet whose assignment has not been
  decided has no call), `ClaimsAreExclusive` another (`ReviewerRows`: whoever is deciding
  without being an admin has the dispute).
- `DisputesFreezePots`, `DisputedAreNotSettled` assume `OneDecisionEach` throughout: no two reviewers are
  past their checks on the same dispute, with any number of them deciding different ones. `FrozenPots`
  is then inductive next to `IInv`: while a pot is held, its bet shows its open dispute,
  it has no second one, and whoever is deciding about it is deciding that one. The second part needs the
  third: a filing over a held pot commits only while the bet is RESULT_REPORTED, and the only step that takes a disputed bet
  back there is a decision of the very dispute that was open. Once the pot is empty nothing is claimed, so
  late decisions of a voided bet (section 5) do no harm. `OneAtATime` shows that `MaxDeciding = 1`
  implies the condition, which is how the run `careful` meets it.
- `Payout_proofs`: `FeeCoversShares`, `SharesDividePot`, `SmallFeePayable`,
  `WinningsMonotone`, from bounds and monotonicity of one rounding. `TypeCorrect` uses the
  first two: they are why revenue and escrow cannot go negative.

### Money (`BetEscrowMoney_proofs`)

For any finite sets of users and bets (`FiniteAssumption`), `MoneyIsConserved`, `EscrowCounterIsExact`
and `StakesAreWithinCap`: the total of all balances never changes, the developer's counter is the total
of the escrow accounts, and that total stays within the cap.

- **Sums.** `Total` is a fold over a function's domain. The induction theorems of the library cannot be
  instantiated here, so its facts are proved by a least counterexample: among the subsets of a finite set
  that violate a claim one is smallest (`MinimalSubset`, strict inclusion being well-founded), and taking
  one element out of it contradicts that. In this way the fold exists and has one value
  (`AdderExists`, `SumsAgree`), any element may be taken out first (`SumToWithout`), and changing one entry
  changes the total by as much (`TotalChanged`), from which a payment to one payee adds what was
  paid (`ReceiptAdds`).
- **Payees.** A payment to nobody would lose money. `PayeesKnown` says that an accepted bet has both players and
  one with a result, an active assignment or a dispute over it a referee; it is inductive next to `IInv`,
  and holds because only `SweepStalled` drops a referee, before the match has started, and reopens the
  assignment as it does.
- **Balances.** Only an accept, a void with its refund and a settlement move balances (`AcceptBalances`,
  `RefundBalances`, `SettlementBalances`); the last two use `PotState`, that the account holds exactly
  what is paid out of it, and `SharesDividePot`. The counter is clamped at zero by the code
  (`GREATEST`), which would lose count if it ever acted; the sum shows that it does not.

### Wallet (`StripePayments_proofs`)

For any customers, keys, amounts, requests, deliveries and faults, from `KeysAssumption`.
`IInv` adds to the three invariants where a request stands: `RequestKnows` (a request attaches
only to its own kind of key, answers only with a linked row, and sends, links or reverses only
what has been debited) and `OnlyDebitedSent`. `WalletTypeCorrect`, `RowsTellTruth` and
`PaymentsMatchable` follow. `WalletRefines` is the refinement: `Pay` is `Charge`, `ApplyPayment`
a `Credit` or a stutter, `DebitWithdrawal`, `SendTransfer` and `ReverseWithdrawal` are `Debit`,
`Transfer` and `Return`, or stutter when `PostOnce` finds the key; the rest stutters.

### Lobby (`Lobby_proofs`)

For any players, challenges, requests and funds, from `LobbyAssumption`. `IInv` says what an
accept in flight may rely on: `StakesHeld` (two requests that hold stakes share no player, and
can pay), `RivalsKnown` (a rival still open is listed or was sent later), `SweepMissesNothing`
(if a request saw a player free, then that player's sweep has not read the lobby yet, or has
its challenge in its list), besides `OneSender`, `ListedWasSent` and `MatchedWasAnswered`. From it
`LobbyTypeCorrect`, `StakesAreHeldOnce`, `RivalsLose`, `BarredAreNotMatched` (an action property),
and the refinement `LobbyRefines`.

### Background components (`Background_proofs`)

- `OutboxIsTruthful`: `MailInv` adds that an instance remembers the row's attempt count.
- `HookIsTruthful`: `HookInv` adds `CountsTries`: a row's count, and any count an instance has
  read, never exceed the failed posts, which is why stale updates cannot give up early.
- `TrailVerifies`: `TrailInv` adds that what an append has read is a row of the trail.
- `VerifiedHasApproval`, `MismatchNotApproved`: `IdentityInv` adds `ScreenedCase`: after a
  screening that ran, the case is open or staff have closed one since.
- `LimitHoldsForTheDay`, `OvershootBounded`: `LimitInv` says a staged increase is above the limit
  it waits behind, that what the worker found is what a row still matured for it says, and (`Fits`) that
  for each deposit in flight the usage together with all that are in flight is within its limit but for
  the others of its crowd. The count of requests in flight is what each check, record and drop
  moves (`FlightCounted`).
- `SettlementDividesPot`, `QuotesArePaid`: the price part tries every stake up to `MaxStake`, which is any
  number here. The quote and the settlement round apart; the winner's share is the pot less the same
  rounded fee, and the smaller half of a draw is what was quoted.
- `BackgroundTyped`: a behaviour of `MCBackground` is one of each part's own specification, the parts not
  chosen stuttering (`PartsAsAlone`), so that each part's theorem holds of the whole.

### Recordings, breaks, complaints and care (`Safeguards_proofs`)

For any number of voice rows, deliveries, crashes and holds, requests, breaks, lengths and days,
staff and outcomes.

- `FinalResponseIsOne`: besides types, only that nobody acts on a complaint not filed is needed;
  the letters are what refuses a second response, not the check of the status.
- `PlayNeedsReturn`, `BreaksStand`: `BreakInv` adds `ReturnsLapsed` (a request to return is about
  an exclusion that has ended, and rows never move) and `GrantedAfterEnd` (a date of return is a cooling-off
  after the end of its row), which needs `EndsInTime`, that no row ends too late for
  its return to fit before `MaxDay`.
- `ReadyIsSealed`: `RunOwnsFile` says that while a run writes, the row is not READY, and from the
  upload on the file is that run's; so the fingerprint it seals is the file's.
- `DisputedIsKept`: `DeletesUndisputed` says that a deletion under way began with no open dispute
  and after the window in which one can be filed. That, and not the retention dates, is what keeps the
  evidence: dates are lost and overwritten (`LoseHold`, `Seal`), and the theorem holds.
- `RecordingTypeCorrect` needs `QueuesOwnRow`, that a delivery queues the row it made.
- `CareTypeCorrect` needs `EvaluatesRows` (a batch of evaluations names interactions there are) and
  `AuditsRequests` (each audited action is one that staff made). `SafeguardsTyped` puts the four parts'
  types together as in `MCBackground`.

### Only model-checked

No invariant, action property or refinement of a passing run: each has its theorem. What is left to
TLC is liveness, which the prover cannot do under fairness (`HeldPotReleased`, `StartedMatchEnds`,
`EventsHandled`, `NothingStaysOpen`, `UndisputedDeleted`, `ComesBack`, `OverdueIsAlerted`,
`DueIsSettled`), and the four violations of section 5.

## 5. Where the code and its comments disagree

- **A decision can revive a finished bet** (run `reported_pot`). `resolveDispute` sets
  RESULT_REPORTED without asking for the bet's status. If the bet was voided or settled since the check, it is
  reported again with an empty account, and every scan fails on it. Money is safe
  (`PotPaidOnce`, `CustodyKept` hold); the bet's status is wrong for good.
- **A dispute can be decided twice** (run `decided_once`), the check being outside the
  transaction. It takes no second reviewer: the worker's auto-void between check and commit is enough
  (the same configuration with `MaxDeciding = 1` fails too).
- **Result mail without a result** (run `result_mail`). The mail follows the transaction
  even when it returned early, and its dedupe key silences the real one.

- **A withdrawal sent and given back** (run `sent_and_returned`). One catch around the Stripe
  call and the row update takes every error for "Stripe payout failed" (`withdraw/route.ts:161`).
  A lost answer or a failed update after the transfer credits the wallet as well, and a new key
  withdraws the money again. `PromiseKept` holds: each happens at most once.

Against what is written too, reached by the models of section 2 and checked by no run, since what
is said there is less than what the properties say:

- A recording under an investigation hold is deleted. "Never deleted while set"
  (`schema.prisma:1605`) is asked in the query that lists up to 100 rows, not when a row's turn comes
  (`FindExpired`, `PlaceHold`, `DeletePrefix`).
- Recordings are kept for ever. "A dispute keeps them until it's decided, then for 12 months"
  (`recordings/service.ts:11-12`), but a dispute the worker closes leaves no date (`WorkerDecides`).
- A voice recording is never sealed. Row and seal job are two steps, and a delivery made again
  takes the row for the whole (`voice/service.ts:208-209`; `HookFails` between `CreateVoiceRow` and
  `QueueSeal`).
- A crash loses what was uploaded. "So a crash loses little" (`recorder/index.ts:10`), but the
  second run of a job uses the first one's segment names and then deletes the prefix
  (`UploadSegment`, `DropSegments`).
- "Your account is active again" (`templates.ts:516`) is sent for each break that ended, whatever
  else is in force (`Announce`).
- "Access resumes this much later" (`responsible-play/service.ts:290`) fails with two lapsed
  exclusions: the date is put on one (`GrantReturn`). `ComesBack` says that asking again helps.
- A running cool-off hides a lapsed exclusion from `getActiveBreak`, so that it does not follow
  the person to a second account (`identity-checks.ts:10-11`, `:73`; `Screen`).
- A closed complaint is reopened by a change of status loaded before the final response
  (`complaints/service.ts:144`, `:197`; `AddEvent`); no second response can then be issued.
- "Operator-applied limits only ever tighten" (`interaction.ts:188`), but a raise is refused
  after it was staged (`ApplyLimit`).
- Outcomes are to be established "from what they did" (`interaction.ts:102`); limits and breaks that
  staff applied count as well (`ReadBehaviour`).
- "A signal nobody sees" (`risk.ts:166`): the row alone, when the job stops after it, keeps the
  next scans from raising it (`JobCrashes`).

What the models allow and no comment denies outright:

- A deposit whose payment fails and then succeeds is FAILED, charged and never credited: the
  success finds no PENDING row (`stripe/route.ts:215`). Two deliveries at once can also leave a
  FAILED row whose money was credited. `Handled` and `RowsMatchLedger` say exactly this much.
- An event that could not be looked up or recorded, or that races another delivery of itself which
  then fails, is answered 200 (`stripe/route.ts:87-97`): `unprocessed`.
- A screening that throws after it raised its case leaves the case open and the approval goes on as if
  it had not run (`Screen`).
- The expiry scan writes entries by id: one it listed as a timed-out invite goes back to WAITING even if
  its challenge was accepted meanwhile, and stays in the lobby until its 10 min (`TimeOutInvite`).
- Two deposits at once can pass the deposit limit together (`CheckDeposit`, `CreateDeposit`).
- The outbox's "so nothing is lost" (`outbox.ts:200-201`) is of failed calls: a crash between
  claim and call loses the mail (`lostMail`).
- "Once staff have decided a submission, a later change in Didit doesn't overturn it"
  (`didit-decisions.ts:15-16`) holds of a request that starts later. One that had read PENDING
  updates by id afterwards, and one that refers to staff sets the user back to PENDING.
- Superseding and the sweep of a barred player end listed challenges by id: one accepted in between
  shows CANCELLED while its bet runs.
- The last backoff of the webhook worker (12 h, header lines 4-6) is never waited: the fifth
  failure is final.
- A serializable append to the audit trail after a caller that only locked the assignment is refused
  by the unique index, which `withTransaction` does not retry: the caller's request fails.

- An outcome that staff recorded while an evaluation was under way is overwritten by it, and a
  customer's answer after the evaluation puts the interaction back to ACKNOWLEDGED until the next
  one (`interaction.ts:117`, `:318`): `DueIsSettled` says that it is settled again.
- Staff actions on a signal are several commits: one that fails in between leaves a break or limit with
  no interaction or audit record.
- A recording job whose worker died twice leaves its row RECORDING, without a date, and its
  segments in storage (`recorder.at = "dead"`); so does one whose `failRecording` failed too, which is
  swallowed (`recorder/index.ts:184`). `UndisputedDeleted` is of rows that are READY or FAILED.
- A repeated delivery of a failed voice recording files a second FAILED row, the first having no key.
- Two overlapping deliveries of one voice event may file the recording twice.

Seen while reading, outside the models: the ruling "Draw - both stakes returned"
(`review.ts:45`) is settled like any draw, minus the fee; `settlementDueAt` shows players
the dispute deadline, while after a review decision the worker also waits two minutes;
`transfer` refuses inactive accounts, and nothing ever makes one inactive.

## 6. Not modelled

- Everything without an order to go wrong: pages, components, templates, FAQ, avatars,
  follows, chat, directory, SEO.
- Scores and reports: the rules of AML and of harm signals, anomaly detection, ledger audit (its
  questions are invariants here), statistics. Of AML only the identity and chargeback cases appear,
  of harm signals what happens once one is raised.
- External systems: Kick, Didit, GAMSTOP, LiveKit, storage. Their answers are
  nondeterministic conditions. Stripe is modelled as far as the routes and the webhook see it.
- Capture itself (Chrome, ffmpeg), joining voice rooms, playback links and the log of viewings.
- Sessions, tokens, throttles and rate limits: single guarded statements, or counters in one
  process or in Redis.
- Of responsible play, session reminders and suggested limits; of Stripe, `account.updated` and
  Connect onboarding.
- Unreachable code: consent expiry, unverified results, expiry of OPEN bets and the
  dispute branch without a referee. Bets are created only by accepting an invite,
  which commits them MATCHED with an assignment, and results only by referees, verified.
- The escrow cap is a constant: anomaly detection halves it for third-party developers,
  while the lobby's games belong to the platform's, which is exempt.

## 7. Plan

Done: the escrow core (`Payout`, `StakeCustody`, `BetEscrow`), the wallet (`WalletPromise`,
`StripePayments`), the lobby with breaks (`ChallengePromise`, `Lobby`), the two queues, deposit
limits, identity checks and the audit trail, recordings, breaks, complaints and customer care, with
their runs and proofs. The larger part of the
repository's lines is pages, templates, validation schemas and read-only reports, which keep no
state a model could get wrong.

What a later revision could add, in this order:

1. `Lobby` composed with `BetEscrow`, so that a stake held by an accept is one the bet pays out.
2. `PlayBreaks` under `Lobby` and `DepositLimits`, so that "barred" is a break in force.

--------------------------- MODULE StripePayments ---------------------------
(***************************************************************************)
(* Money in and out of a wallet: the deposit and withdraw routes, the      *)
(* Stripe webhook, and Stripe itself as far as those three see it.  A step *)
(* is one database statement or transaction, or one call to Stripe, of one *)
(* request or of one webhook delivery; requests and deliveries interleave, *)
(* may carry the same key or the same event, and may stop anywhere (Crash, *)
(* DeliveryFails: an exception, a lost connection, a killed process).      *)
(*                                                                         *)
(* Stripe is external.  It keeps one PaymentIntent per idempotency key,    *)
(* lets the customer pay only with a client secret the deposit route has   *)
(* handed out, may fail a payment attempt before a later one succeeds, and *)
(* delivers an event again until it is answered 200.                       *)
(*                                                                         *)
(* Left out: the gates that are data here (session, KYC, limits, terms,    *)
(* Connect onboarding, AML review; any may refuse, which is no step), the mail *)
(* after each change, and STRIPE_SOURCE and STRIPE_SINK, whose balances    *)
(* are what the wallets lack.  So are payout.paid and payout.failed: they  *)
(* look for a PENDING row of a withdrawal, and RowsMatchLedger says that   *)
(* there is none, as rows of withdrawals are created COMPLETED.            *)
(*                                                                         *)
(* An operator named Mutant... is the definition after it with a plausible *)
(* bug; README.md lists which property catches which.                      *)
(***************************************************************************)
EXTENDS Integers, FiniteSets

CONSTANTS
    Customers,
    DepositKeys, WithdrawalKeys,    \* the client's idempotency keys
    Owner,                          \* [keys -> Customers]
    Amount,                         \* [keys -> pence]
    Requests, Deliveries,           \* HTTP requests and webhook deliveries in flight
    MaxBusy,                        \* bound: how many of them at once
    MaxFaults                       \* bound: faults of the network, processes and database

Keys == DepositKeys \cup WithdrawalKeys

ASSUME KeysAssumption ==
    /\ DepositKeys \cap WithdrawalKeys = {}
    /\ Owner \in [Keys -> Customers]
    /\ Amount \in [Keys -> Nat \ {0}]
    /\ MaxBusy \in Nat /\ MaxFaults \in Nat

RowStatuses == {"none", "PENDING", "COMPLETED", "FAILED"}

\* The events the webhook acts on.
Events == {"succeeded", "failed", "dispute"} \X DepositKeys

\* The ledger's own idempotency keys: a credit, a withdrawal, its reversal.
Postings == ({"credit"} \X DepositKeys) \cup ({"debit", "reversal"} \X WithdrawalKeys)

RequestSteps ==
    {"create", "attach", "answer", "debit", "send", "link", "reverse"}

DeliverySteps == {"record", "find", "apply", "suspend", "raise", "mark"}

VARIABLES
    \* the database: transaction rows by client key, those with a
    \* stripePaymentId, ledger postings, balances, users not suspended, stripe_events
    \* rows
    row, linked, posted, wallet, usable, record,
    \* requests and deliveries in flight
    request, delivery,
    \* Stripe: PaymentIntents whose secret a client has, how they were
    \* paid, transfers made to connected accounts, events not answered yet
    secrets, paid, transfers, outbox,
    \* history: events that happened, events answered 200 without being
    \* processed, customers with a chargeback case opened; and faults so far
    happened, unprocessed, reported, faults

dbVars == <<row, linked, posted, wallet, usable, record>>
stripeVars == <<secrets, paid, transfers, outbox>>
historyVars == <<happened, unprocessed, reported>>
vars == <<dbVars, request, delivery, stripeVars, historyVars, faults>>

Idle == [at |-> "idle"]
Busy(r) == request[r] # Idle
Handling(h) == delivery[h] # Idle

Room ==
    Cardinality({r \in Requests : Busy(r)}) + Cardinality({h \in Deliveries : Handling(h)}) < MaxBusy

Init ==
    /\ row = [k \in Keys |-> "none"]
    /\ linked = {} /\ posted = {}
    /\ wallet = [u \in Customers |-> 0]
    /\ usable = [u \in Customers |-> TRUE]
    /\ record = [e \in Events |-> "none"]
    /\ request = [r \in Requests |-> Idle]
    /\ delivery = [h \in Deliveries |-> Idle]
    /\ secrets = {} /\ transfers = {} /\ outbox = {}
    /\ paid = [d \in DepositKeys |-> "no"]
    /\ happened = {} /\ unprocessed = {} /\ reported = {}
    /\ faults = 0

-----------------------------------------------------------------------------
(* Steps of a request *)

At(r, step) == Busy(r) /\ request[r].at = step

Goto(r, step) == request' = [request EXCEPT ![r] = [@ EXCEPT !.at = step]]
Finish(r) == request' = [request EXCEPT ![r] = Idle]

Fault ==
    /\ faults < MaxFaults
    /\ faults' = faults + 1

\* transfer(): a key posted before moves nothing.
MutantPostOnce(posting, k, amount) ==
    /\ posted' = posted \cup {posting}
    /\ wallet' = [wallet EXCEPT ![Owner[k]] = @ + amount]

PostOnce(posting, k, amount) ==
    /\ posted' = posted \cup {posting}
    /\ wallet' = [wallet EXCEPT ![Owner[k]] = IF posting \in posted THEN @ ELSE @ + amount]

(* Deposit *)

\* The row of a key that has been used is read before anything is written: a
\* FAILED one is refused, and one with a client secret answers with it.
StartDeposit(r, d) ==
    /\ ~Busy(r) /\ Room
    /\ usable[Owner[d]]
    /\ row[d] \in {"none", "PENDING", "COMPLETED"}
    /\ request' = [request EXCEPT ![r] =
         [at  |-> IF d \in linked THEN "answer"
                  ELSE IF row[d] = "none" THEN "create" ELSE "attach",
          key |-> d]]
    /\ UNCHANGED <<dbVars, delivery, stripeVars, historyVars, faults>>

\* The key is unique: the second of two requests to insert it throws.
CreateRow(r) ==
    /\ At(r, "create")
    /\ LET d == request[r].key IN
         IF row[d] = "none"
           THEN Goto(r, "attach") /\ row' = [row EXCEPT ![d] = "PENDING"]
           ELSE Finish(r) /\ UNCHANGED row
    /\ UNCHANGED <<linked, posted, wallet, usable, record,
                   delivery, stripeVars, historyVars, faults>>

MutantAttachIntent(r) ==
    /\ At(r, "attach")
    /\ Goto(r, "answer")
    /\ UNCHANGED <<row, linked, posted, wallet, usable, record,
                   delivery, stripeVars, historyVars, faults>>

\* Stripe returns the one PaymentIntent of the key, however often it is asked;
\* its id and its client secret are put on the row.
AttachIntent(r) ==
    /\ At(r, "attach")
    /\ linked' = linked \cup {request[r].key}
    /\ Goto(r, "answer")
    /\ UNCHANGED <<row, posted, wallet, usable, record,
                   delivery, stripeVars, historyVars, faults>>

AnswerDeposit(r) ==
    /\ At(r, "answer")
    /\ secrets' = secrets \cup {request[r].key}
    /\ Finish(r)
    /\ UNCHANGED <<dbVars, delivery, paid, transfers, outbox, historyVars, faults>>

(* Withdrawal *)

\* checkIdempotency: a FAILED row is a conflict; a COMPLETED one is answered
\* from the row when Stripe's transfer is on it, and taken up again when not.
StartWithdrawal(r, w) ==
    /\ ~Busy(r) /\ Room
    /\ usable[Owner[w]]
    /\ \/ row[w] = "none"
       \/ row[w] = "COMPLETED" /\ w \notin linked
    /\ request' = [request EXCEPT ![r] = [at |-> "debit", key |-> w]]
    /\ UNCHANGED <<dbVars, delivery, stripeVars, historyVars, faults>>

Covered(w) == wallet[Owner[w]] >= Amount[w]

\* The balance is checked before transfer() looks at the key; transfer()
\* returns the posting of a COMPLETED row and throws on a FAILED one.
DebitWithdrawal(r) ==
    /\ At(r, "debit")
    /\ LET w == request[r].key IN
         IF Covered(w) /\ row[w] \in {"none", "COMPLETED"}
           THEN /\ PostOnce(<<"debit", w>>, w, -Amount[w])
                /\ row' = [row EXCEPT ![w] = "COMPLETED"]
                /\ Goto(r, "send")
           ELSE Finish(r) /\ UNCHANGED <<row, posted, wallet>>
    /\ UNCHANGED <<linked, usable, record, delivery, stripeVars, historyVars, faults>>

\* One transfer per key at Stripe.  An error may come with the transfer made,
\* its answer lost, or with none.
SendTransfer(r) ==
    /\ At(r, "send")
    /\ \/ transfers' = transfers \cup {request[r].key} /\ Goto(r, "link") /\ UNCHANGED faults
       \/ transfers' = transfers \cup {request[r].key} /\ Goto(r, "reverse") /\ Fault
       \/ UNCHANGED transfers /\ Goto(r, "reverse") /\ Fault
    /\ UNCHANGED <<dbVars, delivery, secrets, paid, outbox, historyVars>>

\* The row update is inside the same try: when it fails the catch reverses.
LinkWithdrawal(r) ==
    /\ At(r, "link")
    /\ \/ linked' = linked \cup {request[r].key} /\ Finish(r) /\ UNCHANGED faults
       \/ UNCHANGED linked /\ Goto(r, "reverse") /\ Fault
    /\ UNCHANGED <<row, posted, wallet, usable, record,
                   delivery, stripeVars, historyVars>>

MutantReverseWithdrawal(r) ==
    /\ At(r, "reverse")
    /\ LET w == request[r].key IN PostOnce(<<"reversal", w>>, w, Amount[w])
    /\ Finish(r)
    /\ UNCHANGED <<row, linked, usable, record, delivery, stripeVars, historyVars, faults>>

ReverseWithdrawal(r) ==
    /\ At(r, "reverse")
    /\ LET w == request[r].key IN
         /\ PostOnce(<<"reversal", w>>, w, Amount[w])
         /\ row' = [row EXCEPT ![w] = "FAILED"]
    /\ Finish(r)
    /\ UNCHANGED <<linked, usable, record, delivery, stripeVars, historyVars, faults>>

\* A request stops: what it has committed stays, the rest never happens.
Crash(r) ==
    /\ Busy(r)
    /\ Fault
    /\ Finish(r)
    /\ UNCHANGED <<dbVars, delivery, stripeVars, historyVars>>

-----------------------------------------------------------------------------
(* Stripe *)

Happens(e) ==
    /\ e \notin happened
    /\ happened' = happened \cup {e}
    /\ outbox' = outbox \cup {e}

\* The customer pays, by a card or by a method that is not on the approved list.
Pay(d) ==
    /\ d \in secrets /\ paid[d] = "no"
    /\ \E how \in {"card", "other"} : paid' = [paid EXCEPT ![d] = how]
    /\ Happens(<<"succeeded", d>>)
    /\ UNCHANGED <<dbVars, request, delivery, secrets, transfers, unprocessed, reported, faults>>

\* A payment attempt fails; the intent stays open for another.
Decline(d) ==
    /\ d \in secrets /\ paid[d] = "no"
    /\ Happens(<<"failed", d>>)
    /\ UNCHANGED <<dbVars, request, delivery, secrets, paid, transfers, unprocessed, reported, faults>>

\* The customer disputes the payment with their card issuer.
DisputeCharge(d) ==
    /\ paid[d] = "card"
    /\ Happens(<<"dispute", d>>)
    /\ UNCHANGED <<dbVars, request, delivery, secrets, paid, transfers, unprocessed, reported, faults>>

-----------------------------------------------------------------------------
(* The webhook *)

Step(h, step) == delivery' = [delivery EXCEPT ![h] = [@ EXCEPT !.at = step]]
Stage(h, step) == Handling(h) /\ delivery[h].at = step

\* Answered 200: Stripe will not send the event again.
Answer(h, e) ==
    /\ outbox' = outbox \ {e}
    /\ unprocessed' = IF record[e] = "processed" THEN unprocessed ELSE unprocessed \cup {e}
    /\ delivery' = [delivery EXCEPT ![h] = Idle]

\* An event seen and not processed is processed again; one that is processed,
\* or whose look-up fails, is answered.
Receive(h, e) ==
    /\ ~Handling(h) /\ Room
    /\ e \in outbox
    /\ \/ record[e] = "processed" /\ Answer(h, e) /\ UNCHANGED faults
       \/ Fault /\ Answer(h, e)
       \/ /\ record[e] # "processed"
          /\ delivery' = [delivery EXCEPT ![h] =
               [at |-> IF record[e] = "none" THEN "record" ELSE "find", event |-> e]]
          /\ UNCHANGED <<outbox, unprocessed, faults>>
    /\ UNCHANGED <<dbVars, request, secrets, paid, transfers, happened, reported>>

\* The event counts as processed from the start.
MutantRecordEvent(h) ==
    /\ Stage(h, "record")
    /\ LET e == delivery[h].event IN
         \/ /\ record[e] = "none"
            /\ record' = [record EXCEPT ![e] = "processed"]
            /\ Step(h, "find")
            /\ UNCHANGED <<outbox, unprocessed, faults>>
         \/ record[e] # "none" /\ Answer(h, e) /\ UNCHANGED <<record, faults>>
         \/ Fault /\ Answer(h, e) /\ UNCHANGED record
    /\ UNCHANGED <<row, linked, posted, wallet, usable,
                   request, secrets, paid, transfers, happened, reported>>

\* Another delivery may have inserted the row since, and the insert may fail:
\* both are answered 200.
RecordEvent(h) ==
    /\ Stage(h, "record")
    /\ LET e == delivery[h].event IN
         \/ /\ record[e] = "none"
            /\ record' = [record EXCEPT ![e] = "received"]
            /\ Step(h, "find")
            /\ UNCHANGED <<outbox, unprocessed, faults>>
         \/ record[e] # "none" /\ Answer(h, e) /\ UNCHANGED <<record, faults>>
         \/ Fault /\ Answer(h, e) /\ UNCHANGED record
    /\ UNCHANGED <<row, linked, posted, wallet, usable,
                   request, secrets, paid, transfers, happened, reported>>

\* The row the event is about: a PENDING one, except for a dispute.
Matches(e) ==
    /\ e[2] \in linked
    /\ \/ e[1] = "dispute"
       \/ row[e[2]] = "PENDING"

FindRow(h) ==
    /\ Stage(h, "find")
    /\ LET e == delivery[h].event
           step == IF ~Matches(e) THEN "mark"
                   ELSE IF e[1] = "dispute" THEN "suspend" ELSE "apply"
       IN  Step(h, step)
    /\ UNCHANGED <<dbVars, request, stripeVars, historyVars, faults>>

\* The transaction of a payment that succeeded by an approved method.
CreditDeposit(h, d) ==
    /\ delivery[h].event = <<"succeeded", d>> /\ paid[d] = "card"
    /\ PostOnce(<<"credit", d>>, d, Amount[d])
    /\ row' = [row EXCEPT ![d] = "COMPLETED"]

\* A failed payment, or one by an unapproved method: the row is updated by
\* its id, whatever has happened to it since it was found.
FailDeposit(h, d) ==
    /\ \/ delivery[h].event = <<"failed", d>>
       \/ delivery[h].event = <<"succeeded", d>> /\ paid[d] = "other"
    /\ row' = [row EXCEPT ![d] = "FAILED"]
    /\ UNCHANGED <<posted, wallet>>

ApplyPayment(h) ==
    /\ Stage(h, "apply")
    /\ \E d \in DepositKeys : CreditDeposit(h, d) \/ FailDeposit(h, d)
    /\ Step(h, "mark")
    /\ UNCHANGED <<linked, usable, record, request, stripeVars, historyVars, faults>>

\* recordChargeback: the account is suspended, then the case is opened.
SuspendAccount(h) ==
    /\ Stage(h, "suspend")
    /\ usable' = [usable EXCEPT ![Owner[delivery[h].event[2]]] = FALSE]
    /\ Step(h, "raise")
    /\ UNCHANGED <<row, linked, posted, wallet, record,
                   request, stripeVars, historyVars, faults>>

\* raiseAmlCase opens one unless the customer has one open already.
RaiseChargebackCase(h) ==
    /\ Stage(h, "raise")
    /\ reported' = reported \cup {Owner[delivery[h].event[2]]}
    /\ Step(h, "mark")
    /\ UNCHANGED <<row, linked, posted, wallet, usable, record,
                   request, stripeVars, happened, unprocessed, faults>>

\* processed = true, and the answer, which may be lost: the next delivery of
\* the event is answered from the row.
MarkProcessed(h) ==
    /\ Stage(h, "mark")
    /\ LET e == delivery[h].event IN
         /\ record' = [record EXCEPT ![e] = "processed"]
         /\ \/ outbox' = outbox \ {e} /\ UNCHANGED faults
            \/ UNCHANGED outbox /\ Fault
    /\ delivery' = [delivery EXCEPT ![h] = Idle]
    /\ UNCHANGED <<row, linked, posted, wallet, usable,
                   request, secrets, paid, transfers, historyVars>>

\* An exception is answered 500, a stopped process not at all: Stripe keeps
\* the event.
DeliveryFails(h) ==
    /\ Handling(h)
    /\ Fault
    /\ delivery' = [delivery EXCEPT ![h] = Idle]
    /\ UNCHANGED <<dbVars, request, stripeVars, historyVars>>

-----------------------------------------------------------------------------
\* Staff reinstate a suspended account (setAccountStatus).

Reinstate(u) ==
    /\ ~usable[u]
    /\ usable' = [usable EXCEPT ![u] = TRUE]
    /\ UNCHANGED <<row, linked, posted, wallet, record,
                   request, delivery, stripeVars, historyVars, faults>>

-----------------------------------------------------------------------------

RequestStep(r) ==
    \/ CreateRow(r) \/ AttachIntent(r) \/ AnswerDeposit(r)
    \/ DebitWithdrawal(r) \/ SendTransfer(r)
    \/ LinkWithdrawal(r) \/ ReverseWithdrawal(r)

DeliveryStep(h) ==
    \/ RecordEvent(h) \/ FindRow(h) \/ ApplyPayment(h)
    \/ SuspendAccount(h) \/ RaiseChargebackCase(h)
    \/ MarkProcessed(h)

Next ==
    \/ \E r \in Requests :
         \/ \E d \in DepositKeys : StartDeposit(r, d)
         \/ \E w \in WithdrawalKeys : StartWithdrawal(r, w)
         \/ RequestStep(r)
         \/ Crash(r)
    \/ \E d \in DepositKeys : Pay(d) \/ Decline(d) \/ DisputeCharge(d)
    \/ \E h \in Deliveries :
         \/ \E e \in Events : Receive(h, e)
         \/ DeliveryStep(h)
         \/ DeliveryFails(h)
    \/ \E u \in Customers : Reinstate(u)

Spec == Init /\ [][Next]_vars

\* A request or delivery that does not stop runs to its end, and Stripe sends
\* an event again until it is answered: strong fairness, for a delivery may
\* find no room at any one time.  Nothing is assumed of customers or staff.
Fairness ==
    /\ \A r \in Requests : WF_vars(RequestStep(r))
    /\ \A h \in Deliveries : WF_vars(DeliveryStep(h))
    /\ \A e \in Events : SF_vars(\E h \in Deliveries : Receive(h, e))

FairSpec == Spec /\ Fairness

-----------------------------------------------------------------------------
(* Properties *)

TypeOK ==
    /\ row \in [Keys -> RowStatuses]
    /\ linked \subseteq Keys
    /\ posted \subseteq Postings
    /\ wallet \in [Customers -> Nat]
    /\ usable \in [Customers -> BOOLEAN]
    /\ record \in [Events -> {"none", "received", "processed"}]
    /\ request \in [Requests -> {Idle} \cup [at : RequestSteps, key : Keys]]
    /\ delivery \in [Deliveries -> {Idle} \cup [at : DeliverySteps, event : Events]]
    /\ secrets \subseteq DepositKeys
    /\ paid \in [DepositKeys -> {"no", "card", "other"}]
    /\ transfers \subseteq WithdrawalKeys
    /\ outbox \subseteq Events /\ happened \subseteq Events /\ unprocessed \subseteq Events
    /\ reported \subseteq Customers
    /\ faults \in 0..MaxFaults

\* A row a customer or staff can see tells the truth about the ledger: a
\* deposit shown COMPLETED was credited; a withdrawal shown COMPLETED left the
\* wallet and stayed out, and one shown FAILED was given back.  (A deposit
\* shown FAILED may have been credited: see README.md.)
RowsMatchLedger ==
    /\ \A d \in DepositKeys : row[d] = "COMPLETED" => <<"credit", d>> \in posted
    /\ \A w \in WithdrawalKeys :
         /\ row[w] # "PENDING"
         /\ row[w] # "none" <=> <<"debit", w>> \in posted
         /\ row[w] = "FAILED" <=> <<"reversal", w>> \in posted

\* A payment can always be matched to its deposit: by the time the customer is
\* able to pay, the row carries the intent's id, also after a retry by another
\* request of a deposit that stopped half way.
PayableIsLinked == \A d \in DepositKeys : d \in secrets \/ paid[d] # "no" => d \in linked

\* The routes and the webhook keep the wallet's promise.
Promise == INSTANCE WalletPromise WITH
    balance     <- wallet,
    charged     <- {d \in DepositKeys : paid[d] = "card"},
    credited    <- {d \in DepositKeys : <<"credit", d>> \in posted},
    debited     <- {w \in WithdrawalKeys : <<"debit", w>> \in posted},
    transferred <- transfers,
    returned    <- {w \in WithdrawalKeys : <<"reversal", w>> \in posted}

PromiseKept == Promise!Spec

\* What each event is delivered for.
Handled(e) ==
    CASE e[1] = "succeeded" -> <<"credit", e[2]>> \in posted \/ row[e[2]] = "FAILED"
      [] e[1] = "failed"    -> row[e[2]] # "PENDING"
      [] e[1] = "dispute"   -> Owner[e[2]] \in reported

\* Every event has its effect in the end, over failed deliveries and
\* overlapping ones, unless it was answered 200 without being processed.
EventsHandled == \A e \in Events : e \in happened ~> Handled(e) \/ e \in unprocessed

\* "Stripe payout failed -- reverse the ledger transaction"
\* (app/api/wallet/withdraw/route.ts:161): a withdrawal is given back only when
\* the transfer to the customer's account was not made.
ReversedMeansNotSent ==
    \A w \in WithdrawalKeys : <<"reversal", w>> \in posted => w \notin transfers
=============================================================================

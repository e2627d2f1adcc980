----------------------- MODULE StripePayments_proofs -----------------------
(***************************************************************************)
(* The inductive invariant of StripePayments, and the refinement of        *)
(* WalletPromise.  What the invariants alone do not say is where a request *)
(* stands: it attaches an intent only to a row that exists, answers only   *)
(* with a linked one, and sends or reverses only what has been debited.    *)
(***************************************************************************)
EXTENDS StripePayments, TLAPS

\* The key of a request is of the kind its step works on.
RequestKnows ==
    \A r \in Requests : Busy(r) =>
        LET k == request[r].key IN
          /\ request[r].at \in {"create", "attach", "answer"} => k \in DepositKeys
          /\ request[r].at = "answer" => k \in linked
          /\ request[r].at \in {"debit", "send", "link", "reverse"} => k \in WithdrawalKeys
          /\ request[r].at \in {"send", "link", "reverse"} => row[k] # "none"

OnlyDebitedSent == \A w \in transfers : <<"debit", w>> \in posted

IInv == TypeOK /\ RowsMatchLedger /\ PayableIsLinked /\ RequestKnows /\ OnlyDebitedSent

LEMMA InitIInv == Init => IInv
  BY KeysAssumption
  DEF Init, IInv, TypeOK, RowsMatchLedger, PayableIsLinked, RequestKnows, OnlyDebitedSent,
      Keys, RowStatuses, Events, Postings, Idle, Busy

\* transfer() leaves every balance a natural number when what it takes is there.
LEMMA PostOnceType ==
  ASSUME NEW posting, NEW k \in Keys, NEW amount \in Int,
         wallet \in [Customers -> Nat],
         amount >= 0 \/ posting \in posted \/ wallet[Owner[k]] + amount >= 0,
         PostOnce(posting, k, amount)
  PROVE  wallet' \in [Customers -> Nat]
  <1>1. Owner[k] \in Customers BY KeysAssumption
  <1>2. (IF posting \in posted THEN wallet[Owner[k]] ELSE wallet[Owner[k]] + amount) \in Nat
    BY <1>1
  <1> QED BY <1>1, <1>2 DEF PostOnce

\* A step of one request is one of the steps, with a key of the right kind.
LEMMA RequestType ==
  ASSUME TypeOK, NEW r \in Requests, Busy(r)
  PROVE  /\ request[r] \in [at : RequestSteps, key : Keys]
         /\ request[r].key \in Keys /\ request[r].at \in RequestSteps
  BY DEF TypeOK, Busy

LEMMA DeliveryType ==
  ASSUME TypeOK, NEW h \in Deliveries, Handling(h)
  PROVE  /\ delivery[h] \in [at : DeliverySteps, event : Events]
         /\ delivery[h].event \in Events /\ delivery[h].at \in DeliverySteps
  BY DEF TypeOK, Handling

\* Moving a request on, ending it, and starting one keep the type.
LEMMA GotoType ==
  ASSUME TypeOK, NEW r \in Requests, NEW step \in RequestSteps, Busy(r), Goto(r, step)
  PROVE  /\ request' \in [Requests -> {Idle} \cup [at : RequestSteps, key : Keys]]
         /\ request'[r] = [at |-> step, key |-> request[r].key]
         /\ \A q \in Requests \ {r} : request'[q] = request[q]
  <1>1. request[r] = [at |-> request[r].at, key |-> request[r].key]
    BY RequestType
  <1>2. [request[r] EXCEPT !.at = step] = [at |-> step, key |-> request[r].key]
    BY RequestType
  <1> QED BY <1>2, RequestType DEF Goto, TypeOK

LEMMA FinishType ==
  ASSUME TypeOK, NEW r \in Requests, Finish(r)
  PROVE  /\ request' \in [Requests -> {Idle} \cup [at : RequestSteps, key : Keys]]
         /\ request'[r] = Idle
         /\ \A q \in Requests \ {r} : request'[q] = request[q]
  BY DEF Finish, TypeOK

LEMMA StepType ==
  ASSUME TypeOK, NEW h \in Deliveries, NEW step \in DeliverySteps, Handling(h), Step(h, step)
  PROVE  delivery' \in [Deliveries -> {Idle} \cup [at : DeliverySteps, event : Events]]
  <1>1. [delivery[h] EXCEPT !.at = step] \in [at : DeliverySteps, event : Events]
    BY DeliveryType
  <1> QED BY <1>1 DEF Step, TypeOK

LEMMA IdleBusy == \A r \in Requests : request'[r] = Idle => ~Busy(r)'
  BY DEF Busy

-----------------------------------------------------------------------------
(* The steps of a request *)

LEMMA StartDepositIInv ==
  ASSUME IInv, NEW r \in Requests, NEW d \in DepositKeys, StartDeposit(r, d)
  PROVE  IInv'
  <1>1. TypeOK'
    BY DEF IInv, TypeOK, StartDeposit, dbVars, stripeVars, historyVars, Keys, RequestSteps
  <1>2. RequestKnows'
    <2>1. request'[r].key = d /\ request'[r].at \in {"answer", "create", "attach"}
          /\ (request'[r].at = "answer" => d \in linked)
      BY DEF IInv, TypeOK, StartDeposit
    <2>2. \A q \in Requests \ {r} : request'[q] = request[q]
      BY DEF IInv, TypeOK, StartDeposit
    <2> QED BY <2>1, <2>2 DEF IInv, RequestKnows, StartDeposit, dbVars, Busy, Idle
  <1> QED
    BY <1>1, <1>2
    DEF IInv, StartDeposit, dbVars, stripeVars, RowsMatchLedger, PayableIsLinked, OnlyDebitedSent

LEMMA StartWithdrawalIInv ==
  ASSUME IInv, NEW r \in Requests, NEW w \in WithdrawalKeys, StartWithdrawal(r, w)
  PROVE  IInv'
  <1>1. TypeOK'
    BY DEF IInv, TypeOK, StartWithdrawal, dbVars, stripeVars, historyVars, Keys, RequestSteps
  <1>2. RequestKnows'
    <2>1. request'[r].key = w /\ request'[r].at = "debit"
      BY DEF IInv, TypeOK, StartWithdrawal
    <2>2. \A q \in Requests \ {r} : request'[q] = request[q]
      BY DEF IInv, TypeOK, StartWithdrawal
    <2> QED BY <2>1, <2>2 DEF IInv, RequestKnows, StartWithdrawal, dbVars, Busy, Idle
  <1> QED
    BY <1>1, <1>2
    DEF IInv, StartWithdrawal, dbVars, stripeVars, RowsMatchLedger, PayableIsLinked, OnlyDebitedSent

LEMMA CreateRowIInv ==
  ASSUME IInv, NEW r \in Requests, CreateRow(r)
  PROVE  IInv'
  <1> DEFINE d == request[r].key
  <1>1. Busy(r) /\ request[r].at = "create" /\ d \in DepositKeys /\ d \notin WithdrawalKeys
    BY KeysAssumption DEF CreateRow, At, IInv, RequestKnows
  <1>2. CASE row[d] = "none"
    <2>1. Goto(r, "attach") /\ row' = [row EXCEPT ![d] = "PENDING"]
      BY <1>2 DEF CreateRow
    <2>2. /\ request' \in [Requests -> {Idle} \cup [at : RequestSteps, key : Keys]]
          /\ request'[r] = [at |-> "attach", key |-> d]
          /\ \A q \in Requests \ {r} : request'[q] = request[q]
      BY <1>1, <2>1, GotoType DEF RequestSteps, IInv
    <2>3. row' \in [Keys -> RowStatuses] /\ row'[d] = "PENDING"
          /\ \A k \in Keys \ {d} : row'[k] = row[k]
      BY <1>1, <2>1 DEF IInv, TypeOK, Keys, RowStatuses
    <2>4. TypeOK'
      BY <2>2, <2>3 DEF IInv, TypeOK, CreateRow, stripeVars, historyVars
    <2>5. RequestKnows'
      BY <1>1, <2>2, <2>3 DEF IInv, RequestKnows, CreateRow, Busy, Idle, Keys
    <2>6. RowsMatchLedger'
      BY <1>1, <2>3 DEF IInv, RowsMatchLedger, CreateRow, Keys
    <2> QED
      BY <2>4, <2>5, <2>6
      DEF IInv, CreateRow, stripeVars, PayableIsLinked, OnlyDebitedSent
  <1>3. CASE row[d] # "none"
    <2>1. Finish(r) /\ UNCHANGED row
      BY <1>3 DEF CreateRow
    <2>2. /\ request' \in [Requests -> {Idle} \cup [at : RequestSteps, key : Keys]]
          /\ request'[r] = Idle
          /\ \A q \in Requests \ {r} : request'[q] = request[q]
      BY <2>1, FinishType DEF IInv
    <2> QED
      BY <2>1, <2>2
      DEF IInv, TypeOK, CreateRow, stripeVars, historyVars, RequestKnows, Busy,
          RowsMatchLedger, PayableIsLinked, OnlyDebitedSent
  <1> QED BY <1>2, <1>3

LEMMA AttachIntentIInv ==
  ASSUME IInv, NEW r \in Requests, AttachIntent(r)
  PROVE  IInv'
  <1> DEFINE d == request[r].key
  <1>1. Busy(r) /\ request[r].at = "attach" /\ d \in DepositKeys
    BY DEF AttachIntent, At, IInv, RequestKnows
  <1>2. /\ request' \in [Requests -> {Idle} \cup [at : RequestSteps, key : Keys]]
        /\ request'[r] = [at |-> "answer", key |-> d]
        /\ \A q \in Requests \ {r} : request'[q] = request[q]
    BY <1>1, GotoType DEF RequestSteps, IInv, AttachIntent
  <1>3. linked' = linked \cup {d}
    BY DEF AttachIntent
  <1>4. TypeOK'
    BY <1>1, <1>2, <1>3 DEF IInv, TypeOK, AttachIntent, stripeVars, historyVars, Keys
  <1>5. RequestKnows'
    BY <1>1, <1>2, <1>3 DEF IInv, RequestKnows, AttachIntent, Busy, Idle
  <1> QED
    BY <1>3, <1>4, <1>5
    DEF IInv, AttachIntent, stripeVars, RowsMatchLedger, PayableIsLinked, OnlyDebitedSent

LEMMA AnswerDepositIInv ==
  ASSUME IInv, NEW r \in Requests, AnswerDeposit(r)
  PROVE  IInv'
  <1> DEFINE d == request[r].key
  <1>1. Busy(r) /\ request[r].at = "answer" /\ d \in DepositKeys /\ d \in linked
    BY DEF AnswerDeposit, At, IInv, RequestKnows
  <1>2. /\ request' \in [Requests -> {Idle} \cup [at : RequestSteps, key : Keys]]
        /\ request'[r] = Idle
        /\ \A q \in Requests \ {r} : request'[q] = request[q]
    BY FinishType DEF IInv, AnswerDeposit
  <1>3. TypeOK'
    BY <1>1, <1>2 DEF IInv, TypeOK, AnswerDeposit, dbVars, historyVars
  <1>4. PayableIsLinked'
    BY <1>1 DEF IInv, PayableIsLinked, AnswerDeposit, dbVars
  <1> QED
    BY <1>2, <1>3, <1>4
    DEF IInv, AnswerDeposit, dbVars, RequestKnows, Busy, RowsMatchLedger, OnlyDebitedSent

LEMMA DebitWithdrawalIInv ==
  ASSUME IInv, NEW r \in Requests, DebitWithdrawal(r)
  PROVE  IInv'
  <1> DEFINE w == request[r].key
  <1>1. Busy(r) /\ request[r].at = "debit" /\ w \in WithdrawalKeys /\ w \notin DepositKeys
    BY KeysAssumption DEF DebitWithdrawal, At, IInv, RequestKnows
  <1>2. CASE Covered(w) /\ row[w] \in {"none", "COMPLETED"}
    <2>1. /\ Goto(r, "send") /\ row' = [row EXCEPT ![w] = "COMPLETED"]
          /\ PostOnce(<<"debit", w>>, w, -Amount[w])
      BY <1>2 DEF DebitWithdrawal
    <2>2. /\ request' \in [Requests -> {Idle} \cup [at : RequestSteps, key : Keys]]
          /\ request'[r] = [at |-> "send", key |-> w]
          /\ \A q \in Requests \ {r} : request'[q] = request[q]
      BY <1>1, <2>1, GotoType DEF RequestSteps, IInv
    <2>3. row' \in [Keys -> RowStatuses] /\ row'[w] = "COMPLETED"
          /\ \A k \in Keys \ {w} : row'[k] = row[k]
      BY <1>1, <2>1 DEF IInv, TypeOK, Keys, RowStatuses
    <2>4. posted' = posted \cup {<<"debit", w>>} /\ posted' \subseteq Postings
      BY <1>1, <2>1 DEF PostOnce, IInv, TypeOK, Postings
    <2>5. wallet' \in [Customers -> Nat]
      <3>1. w \in Keys /\ Owner[w] \in Customers /\ Amount[w] \in Nat
            /\ wallet \in [Customers -> Nat]
        BY <1>1, KeysAssumption DEF Keys, IInv, TypeOK
      <3>2. wallet[Owner[w]] + (-Amount[w]) >= 0 /\ -Amount[w] \in Int
        BY <1>2, <3>1 DEF Covered
      <3> QED BY <2>1, <3>1, <3>2, PostOnceType
    <2>6. TypeOK'
      BY <2>2, <2>3, <2>4, <2>5 DEF IInv, TypeOK, DebitWithdrawal, stripeVars, historyVars
    <2>7. RequestKnows'
      BY <1>1, <2>2, <2>3 DEF IInv, RequestKnows, DebitWithdrawal, Busy, Idle, Keys
    <2>8. RowsMatchLedger'
      BY <1>1, <1>2, <2>3, <2>4 DEF IInv, RowsMatchLedger, Keys
    <2>9. OnlyDebitedSent'
      BY <2>4 DEF IInv, OnlyDebitedSent, DebitWithdrawal, stripeVars
    <2> QED
      BY <2>6, <2>7, <2>8, <2>9 DEF IInv, DebitWithdrawal, stripeVars, PayableIsLinked
  <1>3. CASE ~(Covered(w) /\ row[w] \in {"none", "COMPLETED"})
    <2>1. Finish(r) /\ UNCHANGED <<row, posted, wallet>>
      BY <1>3 DEF DebitWithdrawal
    <2>2. /\ request' \in [Requests -> {Idle} \cup [at : RequestSteps, key : Keys]]
          /\ request'[r] = Idle
          /\ \A q \in Requests \ {r} : request'[q] = request[q]
      BY <2>1, FinishType DEF IInv
    <2> QED
      BY <2>1, <2>2
      DEF IInv, TypeOK, DebitWithdrawal, stripeVars, historyVars, RequestKnows, Busy,
          RowsMatchLedger, PayableIsLinked, OnlyDebitedSent
  <1> QED BY <1>2, <1>3

LEMMA SendTransferIInv ==
  ASSUME IInv, NEW r \in Requests, SendTransfer(r)
  PROVE  IInv'
  <1> DEFINE w == request[r].key
  <1>1. Busy(r) /\ w \in WithdrawalKeys /\ row[w] # "none"
    BY DEF SendTransfer, At, IInv, RequestKnows
  <1>2. PICK step \in {"link", "reverse"} : Goto(r, step)
    BY DEF SendTransfer
  <1>3. /\ request' \in [Requests -> {Idle} \cup [at : RequestSteps, key : Keys]]
        /\ request'[r] = [at |-> step, key |-> w]
        /\ \A q \in Requests \ {r} : request'[q] = request[q]
    BY <1>1, <1>2, GotoType DEF RequestSteps, IInv
  <1>4. transfers' \in {transfers, transfers \cup {w}} /\ faults' \in 0..MaxFaults
    BY KeysAssumption DEF SendTransfer, Fault, IInv, TypeOK
  <1>5. TypeOK'
    BY <1>1, <1>3, <1>4 DEF IInv, TypeOK, SendTransfer, dbVars, historyVars
  <1>6. RequestKnows'
    BY <1>1, <1>3 DEF IInv, RequestKnows, SendTransfer, dbVars, Busy, Idle
  <1>7. OnlyDebitedSent'
    BY <1>1, <1>4 DEF IInv, OnlyDebitedSent, RowsMatchLedger, SendTransfer, dbVars
  <1> QED
    BY <1>5, <1>6, <1>7 DEF IInv, SendTransfer, dbVars, RowsMatchLedger, PayableIsLinked

LEMMA LinkWithdrawalIInv ==
  ASSUME IInv, NEW r \in Requests, LinkWithdrawal(r)
  PROVE  IInv'
  <1> DEFINE w == request[r].key
  <1>1. Busy(r) /\ w \in WithdrawalKeys /\ row[w] # "none" /\ request[r].at = "link"
    BY DEF LinkWithdrawal, At, IInv, RequestKnows
  <1>2. /\ request' \in [Requests -> {Idle} \cup [at : RequestSteps, key : Keys]]
        /\ request'[r] \in {Idle, [at |-> "reverse", key |-> w]}
        /\ \A q \in Requests \ {r} : request'[q] = request[q]
    BY <1>1, GotoType, FinishType DEF RequestSteps, IInv, LinkWithdrawal
  <1>3. linked' \in {linked, linked \cup {w}} /\ faults' \in 0..MaxFaults
    BY KeysAssumption DEF LinkWithdrawal, Fault, IInv, TypeOK
  <1>4. TypeOK'
    BY <1>1, <1>2, <1>3 DEF IInv, TypeOK, LinkWithdrawal, stripeVars, historyVars, Keys
  <1>5. RequestKnows'
    BY <1>1, <1>2, <1>3 DEF IInv, RequestKnows, LinkWithdrawal, Busy, Idle
  <1> QED
    BY <1>3, <1>4, <1>5
    DEF IInv, LinkWithdrawal, stripeVars, RowsMatchLedger, PayableIsLinked, OnlyDebitedSent

LEMMA ReverseWithdrawalIInv ==
  ASSUME IInv, NEW r \in Requests, ReverseWithdrawal(r)
  PROVE  IInv'
  <1> DEFINE w == request[r].key
  <1>1. Busy(r) /\ w \in WithdrawalKeys /\ w \notin DepositKeys /\ row[w] # "none"
    BY KeysAssumption DEF ReverseWithdrawal, At, IInv, RequestKnows
  <1>2. /\ request' \in [Requests -> {Idle} \cup [at : RequestSteps, key : Keys]]
        /\ request'[r] = Idle
        /\ \A q \in Requests \ {r} : request'[q] = request[q]
    BY FinishType DEF IInv, ReverseWithdrawal
  <1>3. row' \in [Keys -> RowStatuses] /\ row'[w] = "FAILED"
        /\ \A k \in Keys \ {w} : row'[k] = row[k]
    BY <1>1 DEF IInv, TypeOK, Keys, RowStatuses, ReverseWithdrawal
  <1>4. posted' = posted \cup {<<"reversal", w>>} /\ posted' \subseteq Postings
    BY <1>1 DEF ReverseWithdrawal, PostOnce, IInv, TypeOK, Postings
  <1>5. wallet' \in [Customers -> Nat]
    <2>1. w \in Keys /\ Amount[w] \in Int /\ Amount[w] >= 0 /\ wallet \in [Customers -> Nat]
      BY <1>1, KeysAssumption DEF Keys, IInv, TypeOK
    <2> QED BY <2>1, PostOnceType DEF ReverseWithdrawal
  <1>6. TypeOK'
    BY <1>2, <1>3, <1>4, <1>5 DEF IInv, TypeOK, ReverseWithdrawal, stripeVars, historyVars
  <1>7. RequestKnows'
    BY <1>1, <1>2, <1>3 DEF IInv, RequestKnows, ReverseWithdrawal, Busy, Keys
  <1>8. RowsMatchLedger'
    BY <1>1, <1>3, <1>4 DEF IInv, RowsMatchLedger, Keys
  <1>9. OnlyDebitedSent'
    BY <1>4 DEF IInv, OnlyDebitedSent, ReverseWithdrawal, stripeVars
  <1> QED
    BY <1>6, <1>7, <1>8, <1>9 DEF IInv, ReverseWithdrawal, stripeVars, PayableIsLinked

LEMMA CrashIInv ==
  ASSUME IInv, NEW r \in Requests, Crash(r)
  PROVE  IInv'
  <1>1. /\ request' \in [Requests -> {Idle} \cup [at : RequestSteps, key : Keys]]
        /\ request'[r] = Idle
        /\ \A q \in Requests \ {r} : request'[q] = request[q]
    BY FinishType DEF IInv, Crash
  <1>2. faults' \in 0..MaxFaults
    BY KeysAssumption DEF Crash, Fault, IInv, TypeOK
  <1>3. TypeOK'
    BY <1>1, <1>2 DEF IInv, TypeOK, Crash, dbVars, stripeVars, historyVars
  <1>4. RequestKnows'
    BY <1>1 DEF IInv, RequestKnows, Crash, Busy, dbVars
  <1> QED
    BY <1>3, <1>4
    DEF IInv, Crash, dbVars, stripeVars, RowsMatchLedger, PayableIsLinked, OnlyDebitedSent

-----------------------------------------------------------------------------
(* Stripe, the webhook, staff: none of them moves a request *)

\* What a step must keep for the parts of IInv it does not touch.
LEMMA RequestsKept ==
  ASSUME IInv, UNCHANGED request, linked' = linked,
         \A k \in Keys : row[k] # "none" => row'[k] # "none"
  PROVE  RequestKnows'
  BY DEF IInv, RequestKnows, Busy, Keys

LEMMA CustomerIInv ==
  ASSUME IInv, NEW d \in DepositKeys, Pay(d) \/ Decline(d) \/ DisputeCharge(d)
  PROVE  IInv'
  <1>1. /\ UNCHANGED <<dbVars, request, delivery, secrets, transfers, unprocessed, reported, faults>>
        /\ \E e \in Events : Happens(e)
    BY DEF Pay, Decline, DisputeCharge, Events
  <1>2. /\ paid' \in [DepositKeys -> {"no", "card", "other"}]
        /\ \A x \in DepositKeys : paid'[x] # "no" => paid[x] # "no" \/ x \in secrets
    BY DEF IInv, TypeOK, Pay, Decline, DisputeCharge
  <1>3. TypeOK'
    BY <1>1, <1>2 DEF IInv, TypeOK, Happens, dbVars
  <1>4. PayableIsLinked'
    BY <1>1, <1>2 DEF IInv, PayableIsLinked, dbVars
  <1>5. RequestKnows'
    BY <1>1, RequestsKept DEF dbVars
  <1> QED
    BY <1>1, <1>3, <1>4, <1>5 DEF IInv, dbVars, RowsMatchLedger, OnlyDebitedSent

LEMMA ReceiveIInv ==
  ASSUME IInv, NEW h \in Deliveries, NEW e \in Events, Receive(h, e)
  PROVE  IInv'
  <1>1. UNCHANGED <<dbVars, request, secrets, paid, transfers, happened, reported>>
    BY DEF Receive
  <1>4. faults' \in 0..MaxFaults
    BY KeysAssumption DEF Receive, Fault, IInv, TypeOK
  <1>2. TypeOK'
    BY <1>1, <1>4 DEF IInv, TypeOK, Receive, Answer, DeliverySteps, dbVars
  <1>3. RequestKnows'
    BY <1>1, RequestsKept DEF dbVars
  <1> QED
    BY <1>1, <1>2, <1>3 DEF IInv, dbVars, RowsMatchLedger, PayableIsLinked, OnlyDebitedSent

LEMMA RecordEventIInv ==
  ASSUME IInv, NEW h \in Deliveries, RecordEvent(h)
  PROVE  IInv'
  <1> DEFINE e == delivery[h].event
  <1>1. Handling(h) /\ e \in Events
    BY DeliveryType DEF RecordEvent, Stage, IInv
  <1>2. UNCHANGED <<row, linked, posted, wallet, usable, request, secrets, paid, transfers,
                    happened, reported>>
    BY DEF RecordEvent
  <1>3. /\ record' \in [Events -> {"none", "received", "processed"}]
        /\ outbox' \subseteq Events /\ unprocessed' \subseteq Events
        /\ faults' \in 0..MaxFaults
    BY <1>1, KeysAssumption DEF RecordEvent, Answer, Fault, IInv, TypeOK
  <1>4. delivery' \in [Deliveries -> {Idle} \cup [at : DeliverySteps, event : Events]]
    <2>1. CASE Step(h, "find")
      BY <1>1, <2>1, StepType DEF DeliverySteps, IInv
    <2>2. CASE Answer(h, e)
      BY <2>2 DEF Answer, IInv, TypeOK
    <2> QED BY <2>1, <2>2 DEF RecordEvent
  <1>5. TypeOK'
    BY <1>2, <1>3, <1>4 DEF IInv, TypeOK
  <1>6. RequestKnows'
    BY <1>2, RequestsKept
  <1> QED
    BY <1>2, <1>5, <1>6 DEF IInv, RowsMatchLedger, PayableIsLinked, OnlyDebitedSent

LEMMA FindRowIInv ==
  ASSUME IInv, NEW h \in Deliveries, FindRow(h)
  PROVE  IInv'
  <1>1. \E step \in DeliverySteps : Step(h, step)
    BY DEF FindRow, DeliverySteps
  <1>2. UNCHANGED <<dbVars, request, stripeVars, historyVars, faults>> /\ Handling(h)
    BY DEF FindRow, Stage
  <1>3. TypeOK'
    BY <1>1, <1>2, StepType DEF IInv, TypeOK, dbVars, stripeVars, historyVars
  <1>4. RequestKnows'
    BY <1>2, RequestsKept DEF dbVars
  <1> QED
    BY <1>2, <1>3, <1>4
    DEF IInv, dbVars, stripeVars, RowsMatchLedger, PayableIsLinked, OnlyDebitedSent

LEMMA ApplyPaymentIInv ==
  ASSUME IInv, NEW h \in Deliveries, ApplyPayment(h)
  PROVE  IInv'
  <1>1. PICK d \in DepositKeys : CreditDeposit(h, d) \/ FailDeposit(h, d)
    BY DEF ApplyPayment
  <1>2. UNCHANGED <<linked, usable, record, request, stripeVars, historyVars, faults>>
    BY DEF ApplyPayment
  <1>3. d \in Keys /\ d \notin WithdrawalKeys /\ Amount[d] \in Int /\ Amount[d] >= 0
    BY KeysAssumption DEF Keys
  <1>4. /\ row' \in [Keys -> RowStatuses] /\ row'[d] \in {"COMPLETED", "FAILED"}
        /\ \A k \in Keys \ {d} : row'[k] = row[k]
        /\ row'[d] = "COMPLETED" => <<"credit", d>> \in posted'
    BY <1>1, <1>3 DEF CreditDeposit, FailDeposit, PostOnce, IInv, TypeOK, RowStatuses
  <1>5. /\ posted \subseteq posted' /\ posted' \subseteq posted \cup {<<"credit", d>>}
        /\ posted' \subseteq Postings
    BY <1>1 DEF CreditDeposit, FailDeposit, PostOnce, IInv, TypeOK, Postings
  <1>6. wallet' \in [Customers -> Nat]
    <2>1. wallet \in [Customers -> Nat]
      BY DEF IInv, TypeOK
    <2>2. CASE CreditDeposit(h, d)
      BY <2>1, <2>2, <1>3, PostOnceType DEF CreditDeposit
    <2>3. CASE FailDeposit(h, d)
      BY <2>1, <2>3 DEF FailDeposit
    <2> QED BY <1>1, <2>2, <2>3
  <1>7. delivery' \in [Deliveries -> {Idle} \cup [at : DeliverySteps, event : Events]]
    BY StepType DEF ApplyPayment, Stage, DeliverySteps, IInv
  <1>8. TypeOK'
    BY <1>2, <1>4, <1>5, <1>6, <1>7 DEF IInv, TypeOK, stripeVars, historyVars
  <1>9. RowsMatchLedger'
    <2>1. \A w \in WithdrawalKeys :
            /\ row'[w] = row[w]
            /\ <<"debit", w>> \in posted' <=> <<"debit", w>> \in posted
            /\ <<"reversal", w>> \in posted' <=> <<"reversal", w>> \in posted
      BY <1>3, <1>4, <1>5 DEF Keys
    <2>2. \A x \in DepositKeys : row'[x] = "COMPLETED" => <<"credit", x>> \in posted'
      BY <1>4, <1>5 DEF IInv, RowsMatchLedger, Keys
    <2> QED BY <2>1, <2>2 DEF IInv, RowsMatchLedger
  <1>10. RequestKnows'
    BY <1>2, <1>4, RequestsKept
  <1> QED
    BY <1>2, <1>5, <1>8, <1>9, <1>10 DEF IInv, stripeVars, PayableIsLinked, OnlyDebitedSent

LEMMA ChargebackIInv ==
  ASSUME IInv, NEW h \in Deliveries, SuspendAccount(h) \/ RaiseChargebackCase(h)
  PROVE  IInv'
  <1> DEFINE d == delivery[h].event[2]
  <1>1. Handling(h) /\ d \in DepositKeys /\ d \in Keys
    BY DeliveryType DEF SuspendAccount, RaiseChargebackCase, Stage, IInv, Events, Keys
  <1>2. UNCHANGED <<row, linked, posted, wallet, record, request, stripeVars, happened,
                    unprocessed, faults>>
    BY DEF SuspendAccount, RaiseChargebackCase, historyVars
  <1>3. /\ usable' \in [Customers -> BOOLEAN]
        /\ reported' \subseteq Customers
    BY <1>1, KeysAssumption DEF SuspendAccount, RaiseChargebackCase, historyVars, IInv, TypeOK
  <1>4. delivery' \in [Deliveries -> {Idle} \cup [at : DeliverySteps, event : Events]]
    BY <1>1, StepType DEF SuspendAccount, RaiseChargebackCase, DeliverySteps, IInv
  <1>5. TypeOK'
    BY <1>2, <1>3, <1>4 DEF IInv, TypeOK, stripeVars
  <1>6. RequestKnows'
    BY <1>2, RequestsKept
  <1> QED
    BY <1>2, <1>5, <1>6 DEF IInv, stripeVars, RowsMatchLedger, PayableIsLinked, OnlyDebitedSent

LEMMA DeliveryEndsIInv ==
  ASSUME IInv, NEW h \in Deliveries, MarkProcessed(h) \/ DeliveryFails(h)
  PROVE  IInv'
  <1>1. Handling(h) /\ delivery[h].event \in Events
    BY DeliveryType DEF MarkProcessed, DeliveryFails, Stage, IInv
  <1>2. UNCHANGED <<row, linked, posted, wallet, usable, request, secrets, paid, transfers,
                    historyVars>>
    BY DEF MarkProcessed, DeliveryFails, dbVars, stripeVars
  <1>3. /\ record' \in [Events -> {"none", "received", "processed"}]
        /\ outbox' \subseteq Events
        /\ faults' \in 0..MaxFaults
    BY <1>1, KeysAssumption
    DEF MarkProcessed, DeliveryFails, dbVars, stripeVars, Fault, IInv, TypeOK
  <1>4. delivery' \in [Deliveries -> {Idle} \cup [at : DeliverySteps, event : Events]]
    BY DEF MarkProcessed, DeliveryFails, IInv, TypeOK
  <1>5. TypeOK'
    BY <1>2, <1>3, <1>4 DEF IInv, TypeOK, historyVars
  <1>6. RequestKnows'
    BY <1>2, RequestsKept
  <1> QED
    BY <1>2, <1>5, <1>6 DEF IInv, RowsMatchLedger, PayableIsLinked, OnlyDebitedSent

LEMMA ReinstateIInv ==
  ASSUME IInv, NEW u \in Customers, Reinstate(u)
  PROVE  IInv'
  <1>1. RequestKnows'
    BY RequestsKept DEF Reinstate
  <1> QED
    BY <1>1
    DEF IInv, TypeOK, Reinstate, stripeVars, historyVars, RowsMatchLedger, PayableIsLinked,
        OnlyDebitedSent

LEMMA StutterIInv == IInv /\ UNCHANGED vars => IInv'
  BY DEF IInv, vars, dbVars, stripeVars, historyVars, TypeOK, RowsMatchLedger, PayableIsLinked,
         RequestKnows, Busy, OnlyDebitedSent

LEMMA NextIInv == IInv /\ [Next]_vars => IInv'
  <1> SUFFICES ASSUME IInv, Next PROVE IInv'
    BY StutterIInv
  <1>1. CASE \E r \in Requests, d \in DepositKeys : StartDeposit(r, d)
    BY <1>1, StartDepositIInv
  <1>2. CASE \E r \in Requests, w \in WithdrawalKeys : StartWithdrawal(r, w)
    BY <1>2, StartWithdrawalIInv
  <1>3. CASE \E r \in Requests : RequestStep(r)
    BY <1>3, CreateRowIInv, AttachIntentIInv, AnswerDepositIInv, DebitWithdrawalIInv,
       SendTransferIInv, LinkWithdrawalIInv, ReverseWithdrawalIInv
    DEF RequestStep
  <1>4. CASE \E r \in Requests : Crash(r)
    BY <1>4, CrashIInv
  <1>5. CASE \E d \in DepositKeys : Pay(d) \/ Decline(d) \/ DisputeCharge(d)
    BY <1>5, CustomerIInv
  <1>6. CASE \E h \in Deliveries, e \in Events : Receive(h, e)
    BY <1>6, ReceiveIInv
  <1>7. CASE \E h \in Deliveries : DeliveryStep(h) \/ DeliveryFails(h)
    BY <1>7, RecordEventIInv, FindRowIInv, ApplyPaymentIInv, ChargebackIInv, DeliveryEndsIInv
    DEF DeliveryStep
  <1>8. CASE \E u \in Customers : Reinstate(u)
    BY <1>8, ReinstateIInv
  <1> QED BY <1>1, <1>2, <1>3, <1>4, <1>5, <1>6, <1>7, <1>8 DEF Next

\* The inductive invariant: every reachable state is one of those IInv allows.
THEOREM WalletInductive == Spec => []IInv
  BY InitIInv, NextIInv, PTL DEF Spec

\* Types, and with them: no sequence of requests, retries, deliveries and
\* faults takes a wallet below zero.
THEOREM WalletTypeCorrect == Spec => []TypeOK
  BY WalletInductive, PTL DEF IInv

\* What rows say of deposits and withdrawals agrees with the ledger.
THEOREM RowsTellTruth == Spec => []RowsMatchLedger
  BY WalletInductive, PTL DEF IInv

\* A payment the customer is able to make can be matched to its deposit.
THEOREM PaymentsMatchable == Spec => []PayableIsLinked
  BY WalletInductive, PTL DEF IInv

-----------------------------------------------------------------------------
(* The refinement *)

\* A step that touches none of these is a stutter of the wallet's promise.
LEMMA PromiseStutter ==
  ASSUME UNCHANGED <<wallet, posted, paid, transfers>>
  PROVE  UNCHANGED Promise!promiseVars
  BY DEF Promise!promiseVars

LEMMA PayRefines ==
  ASSUME IInv, NEW d \in DepositKeys, Pay(d)
  PROVE  [Promise!Next]_(Promise!promiseVars)
  <1>1. UNCHANGED <<wallet, posted, transfers>>
    BY DEF Pay, dbVars
  <1>2. PICK how \in {"card", "other"} : paid' = [paid EXCEPT ![d] = how]
    BY DEF Pay
  <1>3. /\ \A x \in DepositKeys \ {d} : paid'[x] = paid[x]
        /\ paid[d] = "no" /\ paid'[d] = how
    BY <1>2 DEF Pay, IInv, TypeOK
  <1>4. CASE how = "card"
    <2>1. Promise!Charge(d)
      BY <1>1, <1>3, <1>4 DEF Promise!Charge
    <2> QED BY <2>1 DEF Promise!Next
  <1>5. CASE how = "other"
    BY <1>1, <1>3, <1>5 DEF Promise!promiseVars
  <1> QED BY <1>4, <1>5

LEMMA ApplyPaymentRefines ==
  ASSUME IInv, NEW h \in Deliveries, ApplyPayment(h)
  PROVE  [Promise!Next]_(Promise!promiseVars)
  <1>1. UNCHANGED <<paid, transfers>>
    BY DEF ApplyPayment, stripeVars
  <1>2. PICK d \in DepositKeys : CreditDeposit(h, d) \/ FailDeposit(h, d)
    BY DEF ApplyPayment
  <1>3. CASE FailDeposit(h, d) \/ <<"credit", d>> \in posted
    <2>1. d \in Keys /\ Owner[d] \in Customers /\ wallet \in [Customers -> Nat]
      BY KeysAssumption DEF Keys, IInv, TypeOK
    <2>2. wallet' = wallet /\ posted' = posted
      BY <1>2, <1>3, <2>1 DEF FailDeposit, CreditDeposit, PostOnce
    <2> QED BY <1>1, <2>2, PromiseStutter
  <1>4. CASE CreditDeposit(h, d) /\ <<"credit", d>> \notin posted
    <2>1. /\ posted' = posted \cup {<<"credit", d>>}
          /\ wallet' = [wallet EXCEPT ![Owner[d]] = @ + Amount[d]]
          /\ paid[d] = "card"
      BY <1>4 DEF CreditDeposit, PostOnce
    <2>2. /\ \A w \in WithdrawalKeys :
               /\ <<"debit", w>> \in posted' <=> <<"debit", w>> \in posted
               /\ <<"reversal", w>> \in posted' <=> <<"reversal", w>> \in posted
          /\ \A x \in DepositKeys :
               <<"credit", x>> \in posted' <=> <<"credit", x>> \in posted \/ x = d
      BY <2>1
    <2>3. Promise!Credit(d)
      BY <1>1, <1>4, <2>1, <2>2 DEF Promise!Credit, Promise!Adds
    <2> QED BY <2>3 DEF Promise!Next
  <1> QED BY <1>2, <1>3, <1>4

LEMMA DebitRefines ==
  ASSUME IInv, NEW r \in Requests, DebitWithdrawal(r)
  PROVE  [Promise!Next]_(Promise!promiseVars)
  <1>0. PICK w \in WithdrawalKeys : w = request[r].key
    BY DEF DebitWithdrawal, At, IInv, RequestKnows
  <1>1. UNCHANGED <<paid, transfers>>
    BY DEF DebitWithdrawal, stripeVars
  <1>2. CASE UNCHANGED <<posted, wallet>>
    BY <1>1, <1>2, PromiseStutter
  <1>3. CASE PostOnce(<<"debit", w>>, w, -Amount[w]) /\ Covered(w)
    <2>1. w \in Keys /\ Owner[w] \in Customers /\ wallet \in [Customers -> Nat]
      BY <1>0, KeysAssumption DEF Keys, IInv, TypeOK
    <2>2. CASE <<"debit", w>> \in posted
      <3>1. wallet' = wallet /\ posted' = posted
        BY <1>3, <2>1, <2>2 DEF PostOnce
      <3> QED BY <1>1, <3>1, PromiseStutter
    <2>3. CASE <<"debit", w>> \notin posted
      <3>1. /\ posted' = posted \cup {<<"debit", w>>}
            /\ wallet' = [wallet EXCEPT ![Owner[w]] = @ + (-Amount[w])]
            /\ wallet[Owner[w]] >= Amount[w]
        BY <1>3, <2>3 DEF PostOnce, Covered
      <3>2. /\ \A x \in WithdrawalKeys :
                 /\ <<"debit", x>> \in posted' <=> <<"debit", x>> \in posted \/ x = w
                 /\ <<"reversal", x>> \in posted' <=> <<"reversal", x>> \in posted
            /\ \A d \in DepositKeys : <<"credit", d>> \in posted' <=> <<"credit", d>> \in posted
        BY <3>1
      <3>3. Promise!Debit(w)
        BY <1>1, <2>3, <3>1, <3>2 DEF Promise!Debit, Promise!Adds
      <3>4. \E x \in WithdrawalKeys : Promise!Debit(x)
        BY <1>1, <3>3
      <3> QED BY <3>4 DEF Promise!Next
    <2> QED BY <2>2, <2>3
  <1> QED BY <1>0, <1>2, <1>3 DEF DebitWithdrawal

LEMMA ReverseRefines ==
  ASSUME IInv, NEW r \in Requests, ReverseWithdrawal(r)
  PROVE  [Promise!Next]_(Promise!promiseVars)
  <1>0. PICK w \in WithdrawalKeys : w = request[r].key
    BY DEF ReverseWithdrawal, At, IInv, RequestKnows
  <1>1. /\ UNCHANGED <<paid, transfers>>
        /\ row[w] # "none"
        /\ PostOnce(<<"reversal", w>>, w, Amount[w])
    BY <1>0 DEF ReverseWithdrawal, stripeVars, At, IInv, RequestKnows
  <1>2. w \in Keys /\ Owner[w] \in Customers /\ wallet \in [Customers -> Nat]
        /\ <<"debit", w>> \in posted
    BY <1>0, <1>1, KeysAssumption DEF Keys, IInv, TypeOK, RowsMatchLedger
  <1>3. CASE <<"reversal", w>> \in posted
    <2>1. wallet' = wallet /\ posted' = posted
      BY <1>1, <1>2, <1>3 DEF PostOnce
    <2> QED BY <1>1, <2>1, PromiseStutter
  <1>4. CASE <<"reversal", w>> \notin posted
    <2>1. /\ posted' = posted \cup {<<"reversal", w>>}
          /\ wallet' = [wallet EXCEPT ![Owner[w]] = @ + Amount[w]]
      BY <1>1, <1>4 DEF PostOnce
    <2>2. /\ \A x \in WithdrawalKeys :
               /\ <<"debit", x>> \in posted' <=> <<"debit", x>> \in posted
               /\ <<"reversal", x>> \in posted' <=> <<"reversal", x>> \in posted \/ x = w
          /\ \A d \in DepositKeys : <<"credit", d>> \in posted' <=> <<"credit", d>> \in posted
      BY <2>1
    <2>3. Promise!Return(w)
      BY <1>1, <1>2, <1>4, <2>1, <2>2 DEF Promise!Return, Promise!Adds
    <2>4. \E x \in WithdrawalKeys : Promise!Return(x)
      BY <1>1, <2>3
    <2> QED BY <2>4 DEF Promise!Next
  <1> QED BY <1>3, <1>4

LEMMA SendRefines ==
  ASSUME IInv, NEW r \in Requests, SendTransfer(r)
  PROVE  [Promise!Next]_(Promise!promiseVars)
  <1> DEFINE w == request[r].key
  <1>1. /\ UNCHANGED <<wallet, posted, paid>>
        /\ w \in WithdrawalKeys /\ row[w] # "none"
        /\ transfers' \in {transfers, transfers \cup {w}}
    BY DEF SendTransfer, dbVars, At, IInv, RequestKnows
  <1>2. <<"debit", w>> \in posted
    BY <1>1 DEF IInv, RowsMatchLedger
  <1>3. CASE transfers' = transfers
    BY <1>1, <1>3, PromiseStutter
  <1>4. CASE transfers' # transfers
    <2>1. Promise!Transfer(w)
      BY <1>1, <1>2, <1>4 DEF Promise!Transfer
    <2> QED BY <1>1, <2>1 DEF Promise!Next
  <1> QED BY <1>3, <1>4

LEMMA NextRefines == IInv /\ [Next]_vars => [Promise!Next]_(Promise!promiseVars)
  <1> SUFFICES ASSUME IInv, [Next]_vars PROVE [Promise!Next]_(Promise!promiseVars)
    OBVIOUS
  <1>1. CASE \E r \in Requests :
               \/ \E d \in DepositKeys : StartDeposit(r, d)
               \/ \E w \in WithdrawalKeys : StartWithdrawal(r, w)
               \/ CreateRow(r) \/ AttachIntent(r) \/ AnswerDeposit(r) \/ LinkWithdrawal(r)
               \/ Crash(r)
    <2>1. UNCHANGED <<wallet, posted, paid, transfers>>
      BY <1>1
      DEF StartDeposit, StartWithdrawal, CreateRow, AttachIntent, AnswerDeposit, LinkWithdrawal,
          Crash, dbVars, stripeVars
    <2> QED BY <2>1, PromiseStutter
  <1>2. CASE \E r \in Requests : DebitWithdrawal(r) \/ SendTransfer(r) \/ ReverseWithdrawal(r)
    BY <1>2, DebitRefines, SendRefines, ReverseRefines
  <1>3. CASE \E d \in DepositKeys : Pay(d)
    BY <1>3, PayRefines
  <1>4. CASE \E d \in DepositKeys : Decline(d) \/ DisputeCharge(d)
    <2>1. UNCHANGED <<wallet, posted, paid, transfers>>
      BY <1>4 DEF Decline, DisputeCharge, dbVars
    <2> QED BY <2>1, PromiseStutter
  <1>5. CASE \E h \in Deliveries : ApplyPayment(h)
    BY <1>5, ApplyPaymentRefines
  <1>6. CASE \E h \in Deliveries :
               \/ \E e \in Events : Receive(h, e)
               \/ RecordEvent(h) \/ FindRow(h) \/ SuspendAccount(h) \/ RaiseChargebackCase(h)
               \/ MarkProcessed(h) \/ DeliveryFails(h)
    <2>1. UNCHANGED <<wallet, posted, paid, transfers>>
      BY <1>6
      DEF Receive, RecordEvent, FindRow, SuspendAccount, RaiseChargebackCase, MarkProcessed,
          DeliveryFails, dbVars, stripeVars
    <2> QED BY <2>1, PromiseStutter
  <1>7. CASE (\E u \in Customers : Reinstate(u)) \/ UNCHANGED vars
    <2>1. UNCHANGED <<wallet, posted, paid, transfers>>
      BY <1>7 DEF Reinstate, vars, dbVars, stripeVars
    <2> QED BY <2>1, PromiseStutter
  <1> QED
    BY <1>1, <1>2, <1>3, <1>4, <1>5, <1>6, <1>7 DEF Next, RequestStep, DeliveryStep

\* The routes and the webhook keep the wallet's promise: each step is a step of
\* WalletPromise or none, whatever repeats, overlaps or stops.
THEOREM WalletRefines == Spec => PromiseKept
  <1>1. Init => Promise!Init
    BY DEF Init, Promise!Init
  <1> QED BY <1>1, NextRefines, WalletInductive, PTL DEF Spec, PromiseKept, Promise!Spec
=============================================================================

--------------------------- MODULE Background_proofs ---------------------------
(***************************************************************************)
(* Proofs about the email outbox, the developer webhooks, the referee      *)
(* audit trail, the identity checks and the deposit limits, for any number *)
(* of rows, instances, transactions and requests; about the prices, for    *)
(* any stake; and about the six of them as they are checked together.      *)
(***************************************************************************)
EXTENDS MCBackground, Payout_proofs, FiniteSetTheorems, TLAPS

(***************************************************************************)
(* The outbox.  Beyond its truth, an instance remembers the attempts of    *)
(* the row it holds, which decides whether a failure is the last.          *)
(***************************************************************************)
Remembers ==
  \A w \in Mailers : \A e \in HeldBy(w) : mailer[w].attempts = outbox[e].attempts

MailInv == MailTypeOK /\ OutboxTellsTruth /\ Remembers

LEMMA MailInitially == MailInit => MailInv
<1> SUFFICES ASSUME MailInit PROVE MailInv
  OBVIOUS
<1> USE DEF MailInit, MailIdle
<1>1. MailTypeOK
  BY DEF MailTypeOK, MailTasks, MailStatuses
<1>2. OutboxTellsTruth /\ Remembers
  BY DEF OutboxTellsTruth, Remembers, HeldBy
<1> QED BY <1>1, <1>2 DEF MailInv

\* After its last row an instance is idle, before it at the next: it holds none.
LEMMA RestHoldsNothing ==
  ASSUME MailTypeOK, NEW w \in Mailers, NEW e \in Emails
  PROVE  Rest(w, e) \in MailTasks /\ Rest(w, e).at \notin {"send", "failed"}
<1>1. mailer[w].todo \subseteq Emails
  BY DEF MailTypeOK, MailTasks
<1> QED BY <1>1 DEF Rest, MailIdle, MailTasks

\* What an instance holds is an email, with its type.
LEMMA Holding ==
  ASSUME MailTypeOK, NEW w \in Mailers, mailer[w].at \in {"send", "failed"}
  PROVE  /\ mailer[w].row \in Emails /\ mailer[w].attempts \in Nat
         /\ mailer[w].todo \subseteq Emails
         /\ HeldBy(w) = {mailer[w].row}
  BY DEF MailTypeOK, MailTasks, HeldBy

LEMMA MailStepKeeps == MailInv /\ [MailNext]_mailVars => MailInv'
<1> SUFFICES ASSUME MailInv, [MailNext]_mailVars PROVE MailInv'
  OBVIOUS
<1>0. MailTypeOK /\ OutboxTellsTruth /\ Remembers
  BY DEF MailInv
<1>1. ASSUME NEW e \in Emails, QueueEmail(e) PROVE MailInv'
  <2>1. MailTypeOK'
    BY <1>0, <1>1 DEF QueueEmail, MailTypeOK, MailStatuses
  <2>2. OutboxTellsTruth' /\ Remembers'
    BY <1>0, <1>1, <2>1 DEF QueueEmail, MailTypeOK, OutboxTellsTruth, Remembers, HeldBy
  <2> QED BY <2>1, <2>2 DEF MailInv
<1>2. ASSUME NEW e \in Emails, BackoffEnds(e) PROVE MailInv'
  <2>1. MailTypeOK'
    BY <1>0, <1>2 DEF BackoffEnds, MailTypeOK
  <2>2. OutboxTellsTruth' /\ Remembers'
    BY <1>0, <1>2 DEF BackoffEnds, MailTypeOK, OutboxTellsTruth, Remembers, HeldBy
  <2> QED BY <2>1, <2>2 DEF MailInv
<1>3. ASSUME NEW w \in Mailers, FindDue(w) PROVE MailInv'
  <2>1. MailTypeOK'
    <3>1. [at |-> "next", todo |-> Due] \in MailTasks
      BY DEF MailTasks, Due
    <3> QED BY <1>0, <1>3, <3>1 DEF FindDue, MailTypeOK
  <2>2. \A v \in Mailers : HeldBy(v)' = HeldBy(v)
    BY <1>0, <1>3 DEF FindDue, HeldBy, MailTypeOK
  <2>3. OutboxTellsTruth' /\ Remembers'
    BY <1>0, <1>3, <2>2 DEF FindDue, OutboxTellsTruth, Remembers, HeldBy, MailTypeOK
  <2> QED BY <2>1, <2>3 DEF MailInv
<1>4. ASSUME NEW w \in Mailers, NEW e \in Emails, Claim(w, e) PROVE MailInv'
  <2>1. CASE outbox[e].status = "PENDING"
    <3> DEFINE task == [at |-> "send", todo |-> mailer[w].todo,
                        row |-> e, attempts |-> outbox[e].attempts + 1]
    <3>1. task \in MailTasks
      BY <1>0 DEF MailTypeOK, MailTasks
    <3>2. /\ mailer' = [mailer EXCEPT ![w] = task]
          /\ outbox' = [outbox EXCEPT ![e].status = "SENT", ![e].attempts = @ + 1]
          /\ UNCHANGED <<accepted, lostMail>>
      BY <1>4, <2>1 DEF Claim
    <3>3. /\ outbox'[e].status = "SENT" /\ outbox'[e].attempts = outbox[e].attempts + 1
          /\ \A f \in Emails \ {e} : outbox'[f] = outbox[f]
      BY <1>0, <3>2 DEF MailTypeOK
    <3>4. MailTypeOK'
      BY <1>0, <3>1, <3>2 DEF MailTypeOK, MailStatuses
    <3>5. HeldBy(w)' = {e} /\ \A v \in Mailers \ {w} : HeldBy(v)' = HeldBy(v)
      BY <1>0, <3>2 DEF HeldBy, MailTypeOK
    <3>6. \A v \in Mailers : e \notin HeldBy(v)
      BY <1>0, <2>1 DEF OutboxTellsTruth
    <3>7. OutboxTellsTruth'
      <4>0. \A v \in Mailers : HeldBy(v) \subseteq Emails
        BY <1>0, Holding DEF HeldBy
      <4>1. \A u, v \in Mailers : u # v => HeldBy(u)' \cap HeldBy(v)' = {}
        BY <1>0, <3>5, <3>6 DEF OutboxTellsTruth
      <4>2. \A v \in Mailers : \A f \in HeldBy(v)' : outbox'[f].status = "SENT"
        BY <1>0, <3>3, <3>5, <3>6, <4>0 DEF OutboxTellsTruth
      <4>3. ASSUME NEW f \in Emails
            PROVE  /\ outbox'[f].status = "SENT" =>
                        f \in accepted' \cup lostMail' \/ \E v \in Mailers : f \in HeldBy(v)'
                   /\ outbox'[f].status = "FAILED" => outbox'[f].attempts >= MaxEmailAttempts
        <5>1. CASE f = e
          BY <3>3, <3>5, <5>1
        <5>2. CASE f # e
          <6>1. outbox'[f] = outbox[f] /\ accepted' = accepted /\ lostMail' = lostMail
            BY <3>2, <3>3, <5>2
          <6>2. \A v \in Mailers : f \in HeldBy(v) => f \in HeldBy(v)'
            BY <1>4, <3>5 DEF Claim, HeldBy
          <6> QED BY <1>0, <6>1, <6>2 DEF OutboxTellsTruth
        <5> QED BY <5>1, <5>2
      <4> QED BY <4>1, <4>2, <4>3 DEF OutboxTellsTruth
    <3>8. Remembers'
      <4>1. mailer'[w].attempts = outbox'[e].attempts
        BY <1>0, <3>2, <3>3 DEF MailTypeOK
      <4>2. \A v \in Mailers \ {w} : mailer'[v] = mailer[v]
        BY <1>0, <3>2 DEF MailTypeOK
      <4>3. \A v \in Mailers \ {w} : \A f \in HeldBy(v) : f \in Emails \ {e}
        BY <1>0, <3>6, Holding DEF HeldBy
      <4> QED BY <1>0, <3>3, <3>5, <4>1, <4>2, <4>3 DEF Remembers
    <3> QED BY <3>4, <3>7, <3>8 DEF MailInv
  <2>2. CASE outbox[e].status # "PENDING"
    <3>1. mailer' = [mailer EXCEPT ![w] = Rest(w, e)] /\ mailer[w].at = "next"
          /\ UNCHANGED <<outbox, accepted, lostMail>>
      BY <1>4, <2>2 DEF Claim
    <3>2. MailTypeOK'
      BY <1>0, <3>1, RestHoldsNothing DEF MailTypeOK
    <3>3. \A v \in Mailers : HeldBy(v)' = HeldBy(v)
      BY <1>0, <3>1, RestHoldsNothing DEF HeldBy, MailTypeOK
    <3>4. Remembers'
      BY <1>0, <3>1, RestHoldsNothing DEF Remembers, HeldBy, MailTypeOK
    <3>5. OutboxTellsTruth'
      BY <1>0, <3>1, <3>3 DEF OutboxTellsTruth
    <3> QED BY <3>2, <3>4, <3>5 DEF MailInv
  <2> QED BY <2>1, <2>2
<1>5. ASSUME NEW w \in Mailers, Deliver(w) PROVE MailInv'
  <2>0. mailer[w].row \in Emails /\ HeldBy(w) = {mailer[w].row} /\ mailer[w].at = "send"
    BY <1>0, <1>5, Holding DEF Deliver
  <2>1. CASE /\ accepted' = accepted \cup {mailer[w].row}
             /\ mailer' = [mailer EXCEPT ![w] = Rest(w, mailer[w].row)]
    <3>1. MailTypeOK'
      BY <1>0, <1>5, <2>0, <2>1, RestHoldsNothing DEF MailTypeOK, Deliver
    <3>2. HeldBy(w)' = {} /\ \A v \in Mailers \ {w} : HeldBy(v)' = HeldBy(v)
      BY <1>0, <2>0, <2>1, RestHoldsNothing DEF HeldBy, MailTypeOK
    <3>3. OutboxTellsTruth'
      BY <1>0, <1>5, <2>0, <2>1, <3>2 DEF OutboxTellsTruth, Deliver
    <3>4. \A v \in Mailers \ {w} : mailer'[v] = mailer[v]
      BY <1>0, <2>1 DEF MailTypeOK
    <3>5. Remembers'
      BY <1>0, <1>5, <3>2, <3>4 DEF Remembers, Deliver
    <3> QED BY <3>1, <3>3, <3>5 DEF MailInv
  <2>2. CASE /\ accepted' \in {accepted, accepted \cup {mailer[w].row}}
             /\ mailer' = [mailer EXCEPT ![w].at = "failed"]
    <3>1. /\ mailer'[w] \in MailTasks /\ mailer'[w].at = "failed"
          /\ mailer'[w].row = mailer[w].row /\ mailer'[w].attempts = mailer[w].attempts
      BY <1>0, <2>0, <2>2 DEF MailTypeOK, MailTasks
    <3>2. \A v \in Mailers \ {w} : mailer'[v] = mailer[v]
      BY <1>0, <2>2 DEF MailTypeOK
    <3>3. MailTypeOK'
      BY <1>0, <1>5, <2>0, <2>2, <3>1 DEF MailTypeOK, Deliver
    <3>4. \A v \in Mailers : HeldBy(v)' = HeldBy(v)
      BY <2>0, <3>1, <3>2 DEF HeldBy
    <3>5. OutboxTellsTruth' /\ Remembers'
      BY <1>0, <1>5, <2>2, <3>1, <3>2, <3>4 DEF OutboxTellsTruth, Remembers, Deliver
    <3> QED BY <3>3, <3>5 DEF MailInv
  <2> QED BY <1>5, <2>1, <2>2 DEF Deliver
<1>6. ASSUME NEW w \in Mailers, TakeBack(w) PROVE MailInv'
  <2> DEFINE e == mailer[w].row
  <2>0. e \in Emails /\ HeldBy(w) = {e} /\ mailer[w].attempts = outbox[e].attempts
    BY <1>0, <1>6, Holding DEF TakeBack, Remembers
  <2>1. /\ outbox'[e].status =
             (IF mailer[w].attempts >= MaxEmailAttempts THEN "FAILED" ELSE "PENDING")
        /\ outbox'[e].attempts = outbox[e].attempts
        /\ \A f \in Emails \ {e} : outbox'[f] = outbox[f]
    BY <1>0, <1>6, <2>0 DEF TakeBack, MailTypeOK
  <2>2. MailTypeOK'
    BY <1>0, <1>6, <2>0, RestHoldsNothing DEF TakeBack, MailTypeOK, MailStatuses
  <2>3. HeldBy(w)' = {} /\ \A v \in Mailers \ {w} : HeldBy(v)' = HeldBy(v)
    BY <1>0, <1>6, <2>0, RestHoldsNothing DEF TakeBack, HeldBy, MailTypeOK
  <2>4. \A v \in Mailers \ {w} : e \notin HeldBy(v) /\ mailer'[v] = mailer[v]
    BY <1>0, <1>6, <2>0 DEF OutboxTellsTruth, TakeBack, MailTypeOK
  <2>5. OutboxTellsTruth'
    <3>0. \A v \in Mailers : HeldBy(v) \subseteq Emails
      BY <1>0, Holding DEF HeldBy
    <3>1. \A u, v \in Mailers : u # v => HeldBy(u)' \cap HeldBy(v)' = {}
      BY <1>0, <2>3 DEF OutboxTellsTruth
    <3>2. \A v \in Mailers : \A f \in HeldBy(v)' : outbox'[f].status = "SENT"
      BY <1>0, <2>1, <2>3, <2>4, <3>0 DEF OutboxTellsTruth
    <3>3. ASSUME NEW f \in Emails
          PROVE  /\ outbox'[f].status = "SENT" =>
                      f \in accepted' \cup lostMail' \/ \E v \in Mailers : f \in HeldBy(v)'
                 /\ outbox'[f].status = "FAILED" => outbox'[f].attempts >= MaxEmailAttempts
      <4>1. CASE f = e
        BY <2>0, <2>1, <4>1
      <4>2. CASE f # e
        <5>1. outbox'[f] = outbox[f] /\ accepted' = accepted /\ lostMail' = lostMail
          BY <1>6, <2>1, <4>2 DEF TakeBack
        <5>2. \A v \in Mailers : f \in HeldBy(v) => f \in HeldBy(v)'
          BY <2>0, <2>3, <4>2
        <5> QED BY <1>0, <5>1, <5>2 DEF OutboxTellsTruth
      <4> QED BY <4>1, <4>2
    <3> QED BY <3>1, <3>2, <3>3 DEF OutboxTellsTruth
  <2>6. Remembers'
    <3>1. \A v \in Mailers \ {w} : \A f \in HeldBy(v) : f \in Emails \ {e}
      BY <1>0, <2>4, Holding DEF HeldBy
    <3> QED BY <1>0, <2>1, <2>3, <2>4, <3>1 DEF Remembers
  <2> QED BY <2>2, <2>5, <2>6 DEF MailInv
<1>7. ASSUME NEW w \in Mailers, MailerStops(w) PROVE MailInv'
  <2>1. /\ mailer'[w] = MailIdle /\ \A v \in Mailers \ {w} : mailer'[v] = mailer[v]
        /\ lostMail' = lostMail \cup HeldBy(w) /\ UNCHANGED <<outbox, accepted>>
    BY <1>0, <1>7 DEF MailerStops, MailTypeOK, MailTasks, HeldBy, MailIdle
  <2>2. MailTypeOK'
    <3>1. MailIdle \in MailTasks /\ HeldBy(w) \subseteq Emails
      BY <1>0 DEF MailIdle, MailTasks, HeldBy, MailTypeOK
    <3> QED BY <1>0, <1>7, <2>1, <3>1 DEF MailerStops, MailTypeOK
  <2>3. HeldBy(w)' = {} /\ \A v \in Mailers \ {w} : HeldBy(v)' = HeldBy(v)
    BY <2>1 DEF HeldBy, MailIdle
  <2>4. OutboxTellsTruth' /\ Remembers'
    BY <1>0, <2>1, <2>3 DEF OutboxTellsTruth, Remembers
  <2> QED BY <2>2, <2>4 DEF MailInv
<1>8. CASE UNCHANGED mailVars
  <2>1. \A v \in Mailers : HeldBy(v)' = HeldBy(v)
    BY <1>8 DEF mailVars, HeldBy
  <2> QED BY <1>0, <1>8, <2>1 DEF mailVars, MailInv, MailTypeOK, OutboxTellsTruth, Remembers
<1> QED
  BY <1>1, <1>2, <1>3, <1>4, <1>5, <1>6, <1>7, <1>8 DEF MailNext

\* Two instances never work on one email, and a row says SENT only for what
\* the provider took, is being given, or lost with its instance.
THEOREM OutboxIsTruthful == MailSpec => []OutboxTellsTruth
<1>1. MailInv => OutboxTellsTruth
  BY DEF MailInv
<1> QED BY <1>1, MailInitially, MailStepKeeps, PTL DEF MailSpec

(***************************************************************************)
(* The developer webhooks.  What a call has read bounds what it may write: *)
(* an attempt count never runs ahead of the posts that failed.             *)
(***************************************************************************)
CountsTries ==
  /\ ~active => switchedOff
  /\ \A d \in Deliveries : hook[d].status \in Waiting =>
       hook[d].attemptCount <= tries[d] /\ hook[d].attemptCount < MaxAttempts
  /\ \A i \in Senders, d \in Deliveries :
       /\ sender[i][d].at = "post" =>
            sender[i][d].attemptCount <= tries[d] /\ sender[i][d].attemptCount < MaxAttempts
       /\ sender[i][d].at = "answered" /\ ~sender[i][d].success =>
            sender[i][d].attemptCount + 1 <= tries[d]
       /\ sender[i][d].at = "answered" /\ sender[i][d].success => d \in told

HookInv == HookTypeOK /\ HookTellsTruth /\ CountsTries

LEMMA HookInitially == HookInit => HookInv
<1> SUFFICES ASSUME HookInit PROVE HookInv
  OBVIOUS
<1> USE HookAssumption DEF HookInit, Unlisted
<1>1. HookTypeOK
  <2>1. sender \in [Senders -> [Deliveries -> HookCalls]]
    <3>1. [at |-> "idle"] \in HookCalls
      BY DEF HookCalls
    <3> QED BY <3>1
  <2>2. tries \in [Deliveries -> 0 .. MaxAttempts]
    <3>1. 0 \in 0 .. MaxAttempts
      OBVIOUS
    <3> QED BY <3>1
  <2>3. hook \in [Deliveries -> [status : {"NONE", "DELIVERED", "FAILED"} \cup Waiting,
                                attemptCount : Nat, due : BOOLEAN]]
    OBVIOUS
  <2> QED BY <2>1, <2>2, <2>3 DEF HookTypeOK
<1>2. HookTellsTruth /\ CountsTries
  BY DEF HookTellsTruth, CountsTries, Waiting
<1> QED BY <1>1, <1>2 DEF HookInv

LEMMA HookStepKeeps == HookInv /\ [HookNext]_hookVars => HookInv'
<1> SUFFICES ASSUME HookInv, [HookNext]_hookVars PROVE HookInv'
  OBVIOUS
<1>0. HookTypeOK /\ HookTellsTruth /\ CountsTries
  BY DEF HookInv
<1> USE HookAssumption
<1>1. ASSUME NEW d \in Deliveries, DispatchWebhook(d) PROVE HookInv'
  <2>1. HookTypeOK'
    BY <1>0, <1>1 DEF DispatchWebhook, HookTypeOK, Waiting
  <2>2. HookTellsTruth' /\ CountsTries'
    BY <1>0, <1>1 DEF DispatchWebhook, HookTypeOK, HookTellsTruth, CountsTries, Waiting
  <2> QED BY <2>1, <2>2 DEF HookInv
<1>2. ASSUME NEW d \in Deliveries, RetryDue(d) PROVE HookInv'
  <2>1. HookTypeOK'
    BY <1>0, <1>2 DEF RetryDue, HookTypeOK, Waiting
  <2>2. HookTellsTruth' /\ CountsTries'
    BY <1>0, <1>2 DEF RetryDue, HookTypeOK, HookTellsTruth, CountsTries, Waiting
  <2> QED BY <2>1, <2>2 DEF HookInv
<1>3. CASE SwitchConfig
  BY <1>0, <1>3 DEF SwitchConfig, HookInv, HookTypeOK, HookTellsTruth, CountsTries
<1>4. ASSUME NEW i \in Senders, ScanHooks(i) \/ SenderStops(i) PROVE HookInv'
  <2>1. PICK calls \in [Deliveries -> [at : {"idle", "listed"}]] :
          sender' = [sender EXCEPT ![i] = calls]
    <3>1. CASE ScanHooks(i)
      <4> DEFINE calls == [d \in Deliveries |->
            [at |-> IF hook[d].status \in Waiting /\ hook[d].due THEN "listed" ELSE "idle"]]
      <4>1. calls \in [Deliveries -> [at : {"idle", "listed"}]]
        OBVIOUS
      <4> QED BY <3>1, <4>1 DEF ScanHooks
    <3>2. CASE SenderStops(i)
      <4>1. Unlisted \in [Deliveries -> [at : {"idle", "listed"}]]
        BY DEF Unlisted
      <4> QED BY <3>2, <4>1 DEF SenderStops
    <3> QED BY <1>4, <3>1, <3>2
  <2>2. UNCHANGED <<hook, active, told, tries, switchedOff>>
    BY <1>4 DEF ScanHooks, SenderStops
  <2>3. HookTypeOK'
    <3>1. calls \in [Deliveries -> HookCalls]
      BY <2>1 DEF HookCalls
    <3> QED BY <1>0, <2>1, <2>2, <3>1 DEF HookTypeOK
  <2>4. HookTellsTruth' /\ CountsTries'
    BY <1>0, <2>1, <2>2 DEF HookTypeOK, HookTellsTruth, CountsTries
  <2> QED BY <2>3, <2>4 DEF HookInv
<1>5. ASSUME NEW i \in Senders, NEW d \in Deliveries, ReadHook(i, d) PROVE HookInv'
  <2>1. /\ hook[d].attemptCount \in Nat /\ tries[d] \in Nat
        /\ UNCHANGED <<active, told, tries, switchedOff>>
    BY <1>0, <1>5 DEF ReadHook, HookTypeOK
  <2>2. PICK call \in HookCalls :
          /\ sender' = [sender EXCEPT ![i][d] = call]
          /\ \/ call = [at |-> "idle"] /\ UNCHANGED hook
             \/ /\ call = [at |-> "idle"] /\ ~active
                /\ hook' = [hook EXCEPT ![d].status = "FAILED"]
             \/ /\ call = [at |-> "post", attemptCount |-> hook[d].attemptCount]
                /\ hook[d].status \in Waiting /\ UNCHANGED hook
    <3>1. [at |-> "idle"] \in HookCalls
          /\ [at |-> "post", attemptCount |-> hook[d].attemptCount] \in HookCalls
      BY <2>1 DEF HookCalls
    <3>2. CASE hook[d].status \notin Waiting
      BY <1>5, <3>1, <3>2 DEF ReadHook
    <3>3. CASE hook[d].status \in Waiting /\ ~active
      BY <1>5, <3>1, <3>3 DEF ReadHook
    <3>4. CASE hook[d].status \in Waiting /\ active
      BY <1>5, <3>1, <3>4 DEF ReadHook
    <3> QED BY <3>2, <3>3, <3>4
  <2>3. /\ sender'[i][d] = call
        /\ \A j \in Senders, c \in Deliveries :
             <<j, c>> # <<i, d>> => sender'[j][c] = sender[j][c]
    BY <1>0, <2>2 DEF HookTypeOK
  <2>4. \A c \in Deliveries :
          /\ hook'[c].attemptCount = hook[c].attemptCount
          /\ hook'[c].due = hook[c].due
          /\ hook'[c].status = hook[c].status \/ (~active /\ hook'[c].status = "FAILED")
    BY <1>0, <2>2 DEF HookTypeOK
  <2>5. HookTypeOK'
    <3>1. sender' \in [Senders -> [Deliveries -> HookCalls]]
      BY <1>0, <2>2 DEF HookTypeOK
    <3>2. CASE UNCHANGED hook
      BY <1>0, <2>1, <3>1, <3>2 DEF HookTypeOK
    <3>3. CASE hook' = [hook EXCEPT ![d].status = "FAILED"]
      BY <1>0, <2>1, <3>1, <3>3 DEF HookTypeOK, Waiting
    <3> QED BY <2>2, <3>2, <3>3
  <2>6. HookTellsTruth'
    BY <1>0, <2>1, <2>4 DEF HookTellsTruth, CountsTries
  <2>7. CountsTries'
    <3>1. ASSUME NEW c \in Deliveries, hook'[c].status \in Waiting
          PROVE  hook'[c].attemptCount <= tries'[c] /\ hook'[c].attemptCount < MaxAttempts
      <4>1. hook[c].status \in Waiting
        BY <2>4, <3>1 DEF Waiting
      <4> QED BY <1>0, <2>1, <2>4, <4>1 DEF CountsTries
    <3>2. ASSUME NEW j \in Senders, NEW c \in Deliveries
          PROVE  /\ sender'[j][c].at = "post" =>
                      sender'[j][c].attemptCount <= tries'[c]
                        /\ sender'[j][c].attemptCount < MaxAttempts
                 /\ sender'[j][c].at = "answered" /\ ~sender'[j][c].success =>
                      sender'[j][c].attemptCount + 1 <= tries'[c]
                 /\ sender'[j][c].at = "answered" /\ sender'[j][c].success => c \in told'
      <4>1. CASE <<j, c>> = <<i, d>>
        <5>1. CASE call = [at |-> "idle"]
          BY <2>3, <4>1, <5>1
        <5>2. CASE /\ call = [at |-> "post", attemptCount |-> hook[d].attemptCount]
                   /\ hook[d].status \in Waiting
          BY <1>0, <2>1, <2>3, <4>1, <5>2 DEF CountsTries
        <5> QED BY <2>2, <5>1, <5>2
      <4>2. CASE <<j, c>> # <<i, d>>
        BY <1>0, <2>1, <2>3, <4>2 DEF CountsTries
      <4> QED BY <4>1, <4>2
    <3>3. (~active => switchedOff)'
      BY <1>0, <2>1 DEF CountsTries
    <3> QED BY <3>1, <3>2, <3>3 DEF CountsTries
  <2> QED BY <2>5, <2>6, <2>7 DEF HookInv
<1>6. ASSUME NEW i \in Senders, NEW d \in Deliveries, PostHook(i, d) PROVE HookInv'
  <2>1. PICK success \in BOOLEAN :
          /\ sender' = [sender EXCEPT ![i][d] =
                          [at |-> "answered", attemptCount |-> sender[i][d].attemptCount,
                           success |-> success]]
          /\ told' \in IF success THEN {told \cup {d}} ELSE {told, told \cup {d}}
          /\ tries' = [tries EXCEPT ![d] = IF success \/ @ = MaxAttempts THEN @ ELSE @ + 1]
    BY <1>6 DEF PostHook
  <2>2. /\ sender[i][d].at = "post" /\ sender[i][d].attemptCount \in Nat
        /\ tries[d] \in 0 .. MaxAttempts
        /\ UNCHANGED <<hook, active, switchedOff>>
    BY <1>0, <1>6 DEF PostHook, HookTypeOK, HookCalls
  <2>3. HookTypeOK'
    <3>1. [at |-> "answered", attemptCount |-> sender[i][d].attemptCount,
           success |-> success] \in HookCalls
      BY <2>2 DEF HookCalls
    <3>2. told' \subseteq Deliveries /\ told \subseteq told'
      BY <1>0, <2>1 DEF HookTypeOK
    <3>3. tries' \in [Deliveries -> 0 .. MaxAttempts]
      <4> DEFINE n == IF success \/ tries[d] = MaxAttempts THEN tries[d] ELSE tries[d] + 1
      <4>1. n \in 0 .. MaxAttempts
        BY <2>2
      <4>2. tries' = [tries EXCEPT ![d] = n]
        BY <2>1
      <4> QED BY <1>0, <4>1, <4>2 DEF HookTypeOK
    <3> QED BY <1>0, <2>1, <2>2, <3>1, <3>2, <3>3 DEF HookTypeOK
  <2>4. /\ told \subseteq told' /\ (success => d \in told')
        /\ \A c \in Deliveries : tries[c] <= tries'[c]
        /\ ~success => sender[i][d].attemptCount + 1 <= tries'[d]
    BY <1>0, <2>1, <2>2 DEF HookTypeOK, CountsTries
  <2>5. HookTellsTruth'
    BY <1>0, <2>2, <2>3, <2>4 DEF HookTellsTruth, HookTypeOK
  <2>6. CountsTries'
    <3>1. ASSUME NEW j \in Senders, NEW c \in Deliveries, <<j, c>> # <<i, d>>
          PROVE  sender'[j][c] = sender[j][c]
      BY <1>0, <2>1, <3>1 DEF HookTypeOK
    <3>2. sender'[i][d] = [at |-> "answered", attemptCount |-> sender[i][d].attemptCount,
                           success |-> success]
      BY <1>0, <2>1 DEF HookTypeOK
    <3>3. ASSUME NEW j \in Senders, NEW c \in Deliveries
          PROVE  /\ sender'[j][c].at = "post" =>
                      sender'[j][c].attemptCount <= tries'[c]
                        /\ sender'[j][c].attemptCount < MaxAttempts
                 /\ sender'[j][c].at = "answered" /\ ~sender'[j][c].success =>
                      sender'[j][c].attemptCount + 1 <= tries'[c]
                 /\ sender'[j][c].at = "answered" /\ sender'[j][c].success => c \in told'
      <4>1. CASE <<j, c>> = <<i, d>>
        BY <2>4, <3>2, <4>1
      <4>2. CASE <<j, c>> # <<i, d>>
        <5>1. sender[j][c] \in HookCalls /\ tries[c] \in Nat /\ tries'[c] \in Nat
          BY <1>0, <2>3 DEF HookTypeOK
        <5>2. sender[j][c].at \in {"post", "answered"} => sender[j][c].attemptCount \in Nat
          BY <5>1 DEF HookCalls
        <5> QED BY <1>0, <2>4, <3>1, <4>2, <5>1, <5>2 DEF CountsTries
      <4> QED BY <4>1, <4>2
    <3>4. ASSUME NEW c \in Deliveries, hook'[c].status \in Waiting
          PROVE  hook'[c].attemptCount <= tries'[c] /\ hook'[c].attemptCount < MaxAttempts
      <4>1. hook[c].attemptCount \in Nat /\ tries[c] \in Nat /\ tries'[c] \in Nat
        BY <1>0, <2>3 DEF HookTypeOK
      <4> QED BY <1>0, <2>2, <2>4, <3>4, <4>1 DEF CountsTries
    <3> QED BY <1>0, <2>2, <3>3, <3>4 DEF CountsTries
  <2> QED BY <2>3, <2>5, <2>6 DEF HookInv
<1>7. ASSUME NEW i \in Senders, NEW d \in Deliveries, UpdateHook(i, d) PROVE HookInv'
  <2> DEFINE call == sender[i][d]
             new == [status |-> HookOutcome(call.attemptCount, call.success),
                     attemptCount |-> call.attemptCount + 1, due |-> FALSE]
  <2>1. /\ call.at = "answered" /\ call.attemptCount \in Nat /\ call.success \in BOOLEAN
        /\ tries[d] \in 0 .. MaxAttempts
    BY <1>0, <1>7 DEF UpdateHook, HookTypeOK, HookCalls
  <2>2. /\ hook' = [hook EXCEPT ![d] = new]
        /\ sender' = [sender EXCEPT ![i][d] = [at |-> "idle"]]
        /\ UNCHANGED <<active, told, tries, switchedOff>>
    BY <1>7 DEF UpdateHook
  <2>3. /\ new.status \in {"DELIVERED", "FAILED", "RETRYING"}
        /\ new.status = "DELIVERED" => d \in told
        /\ new.status = "FAILED" => tries[d] = MaxAttempts
        /\ new.status = "RETRYING" =>
             new.attemptCount <= tries[d] /\ new.attemptCount < MaxAttempts
    BY <1>0, <2>1 DEF HookOutcome, CountsTries
  <2>4. HookTypeOK'
    <3>1. [at |-> "idle"] \in HookCalls
      BY DEF HookCalls
    <3> QED BY <1>0, <2>1, <2>2, <2>3, <3>1 DEF HookTypeOK, Waiting
  <2>5. HookTellsTruth'
    BY <1>0, <2>2, <2>3 DEF HookTellsTruth, HookTypeOK
  <2>6. CountsTries'
    BY <1>0, <2>2, <2>3 DEF CountsTries, HookTypeOK, Waiting
  <2> QED BY <2>4, <2>5, <2>6 DEF HookInv
<1>8. CASE UNCHANGED hookVars
  BY <1>0, <1>8 DEF hookVars, HookInv, HookTypeOK, HookTellsTruth, CountsTries
<1> QED
  BY <1>1, <1>2, <1>3, <1>4, <1>5, <1>6, <1>7, <1>8 DEF HookNext

\* A delivery row says DELIVERED only for what the developer answered, and
\* FAILED only after every attempt, or a configuration switched off, however
\* many instances write it from stale counts.
THEOREM HookIsTruthful == HookSpec => []HookTellsTruth
<1>1. HookInv => HookTellsTruth
  BY DEF HookInv
<1> QED BY <1>1, HookInitially, HookStepKeeps, PTL DEF HookSpec

(***************************************************************************)
(* The audit trail.  Rows are never removed, so what a transaction read    *)
(* stays the hash and number of a row; that no other row took the next     *)
(* number since is what the unique index says at the end.                  *)
(***************************************************************************)
ReadIsARow ==
  \A t \in Appends :
    /\ append[t].at \in {"begun", "locked"} => append[t].seen \subseteq trail
    /\ append[t].at = "read" =>
         \/ append[t].previous = NoEvent
         \/ \E e \in trail :
              append[t].previous = [sequence |-> e.sequence, eventHash |-> e.eventHash]

TrailInv == trail \subseteq AuditEvents /\ DOMAIN append = Appends /\ ReadIsARow /\ ChainVerifies

LEMMA TrailInitially == TrailInit => TrailInv
<1> SUFFICES ASSUME TrailInit PROVE TrailInv
  OBVIOUS
<1>1. trail = {} /\ append = [t \in Appends |-> NotBegun]
  BY DEF TrailInit
<1>2. \A t \in Appends : append[t].at = "idle"
  BY <1>1 DEF NotBegun
<1>3. ReadIsARow
  BY <1>2 DEF ReadIsARow
<1> QED BY <1>1, <1>3 DEF TrailInv, ChainVerifies

LEMMA LastIsARow ==
  ASSUME NEW rows, rows \subseteq trail, NEW previous \in Last(rows)
  PROVE  \/ previous = NoEvent
         \/ \E e \in trail : previous = [sequence |-> e.sequence, eventHash |-> e.eventHash]
<1>1. CASE rows = {}
  BY <1>1 DEF Last
<1>2. CASE rows # {}
  <2>1. PICK e \in rows : previous = [sequence |-> e.sequence, eventHash |-> e.eventHash]
    BY <1>2 DEF Last
  <2> QED BY <2>1
<1> QED BY <1>1, <1>2

LEMMA TrailStepKeeps == TrailInv /\ [TrailNext]_trailVars => TrailInv'
<1> SUFFICES ASSUME TrailInv, [TrailNext]_trailVars PROVE TrailInv'
  OBVIOUS
<1>0. trail \subseteq AuditEvents /\ DOMAIN append = Appends /\ ReadIsARow /\ ChainVerifies
  BY DEF TrailInv
<1>1. ASSUME NEW t \in Appends, BeginAppend(t) \/ LockAssignment(t) \/ RollBack(t)
      PROVE  TrailInv'
  <2>1. /\ trail' = trail /\ DOMAIN append' = Appends
        /\ \A u \in Appends \ {t} : append'[u] = append[u]
    BY <1>0, <1>1 DEF BeginAppend, LockAssignment, RollBack
  <2>2. /\ append'[t].at # "read"
        /\ append'[t].at \in {"begun", "locked"} => append'[t].seen \subseteq trail
    <3>1. CASE BeginAppend(t)
      <4>1. append'[t] = [at |-> "begun", seen |-> trail]
        BY <1>0, <3>1 DEF BeginAppend
      <4> QED BY <4>1
    <3>2. CASE LockAssignment(t)
      <4>1. /\ append'[t] = [append[t] EXCEPT !.at = "locked"]
            /\ append[t].at = "begun" /\ append[t].seen \subseteq trail
        BY <1>0, <3>2 DEF LockAssignment, ReadIsARow
      <4>2. append'[t].at # "read" /\ append'[t].seen = append[t].seen
        BY <4>1, <1>0 DEF TrailTypeOK
      <4> QED BY <4>1, <4>2
    <3>3. CASE RollBack(t)
      <4>1. append'[t] = [at |-> "idle"]
        BY <1>0, <3>3 DEF RollBack, NotBegun
      <4> QED BY <4>1
    <3> QED BY <1>1, <3>1, <3>2, <3>3
  <2>3. ReadIsARow'
    BY <1>0, <2>1, <2>2 DEF ReadIsARow
  <2> QED BY <1>0, <2>1, <2>3 DEF TrailInv, ChainVerifies
<1>2. ASSUME NEW t \in Appends, ReadPrevious(t) PROVE TrailInv'
  <2> DEFINE rows == IF t \in ReadCommitted THEN trail ELSE append[t].seen
  <2>1. PICK previous \in Last(rows) :
          append' = [append EXCEPT ![t] = [at |-> "read", previous |-> previous]]
    BY <1>2 DEF ReadPrevious
  <2>2. trail' = trail /\ rows \subseteq trail
    BY <1>0, <1>2 DEF ReadPrevious, ReadIsARow
  <2>3. \/ previous = NoEvent
        \/ \E e \in trail : previous = [sequence |-> e.sequence, eventHash |-> e.eventHash]
    BY <2>1, <2>2, LastIsARow
  <2>4. /\ append'[t] = [at |-> "read", previous |-> previous]
        /\ \A u \in Appends \ {t} : append'[u] = append[u]
    BY <1>0, <2>1
  <2>5. ReadIsARow'
    BY <1>0, <2>2, <2>3, <2>4 DEF ReadIsARow
  <2> QED BY <1>0, <2>1, <2>2, <2>5 DEF TrailInv, ChainVerifies
<1>3. ASSUME NEW t \in Appends, CommitAppend(t) PROVE TrailInv'
  <2> DEFINE previous == append[t].previous
             event == [sequence |-> previous.sequence + 1,
                       previousHash |-> previous.eventHash, eventHash |-> t]
  <2>1. /\ trail' = trail \cup {event}
        /\ \A e \in trail : e.sequence # event.sequence
        /\ append' = [append EXCEPT ![t] = [at |-> "committed"]]
    BY <1>3 DEF CommitAppend, Free
  <2>2. \/ /\ event.sequence = 1 /\ event.previousHash = NoHash
        \/ \E e \in trail : /\ event.sequence = e.sequence + 1
                           /\ event.previousHash = e.eventHash
    <3>1. \/ previous = NoEvent
          \/ \E e \in trail : previous = [sequence |-> e.sequence, eventHash |-> e.eventHash]
      BY <1>0, <1>3 DEF CommitAppend, ReadIsARow
    <3>2. CASE previous = NoEvent
      <4>1. previous.sequence = 0 /\ previous.eventHash = NoHash
        BY <3>2 DEF NoEvent
      <4> QED BY <4>1
    <3>3. ASSUME NEW e \in trail,
                 previous = [sequence |-> e.sequence, eventHash |-> e.eventHash]
          PROVE  event.sequence = e.sequence + 1 /\ event.previousHash = e.eventHash
      <4>1. previous.sequence = e.sequence /\ previous.eventHash = e.eventHash
        BY <3>3
      <4> QED BY <4>1
    <3> QED BY <3>1, <3>2, <3>3
  <2>3. event \in AuditEvents
    BY <1>0, <2>2 DEF AuditEvents
  <2>4. ReadIsARow'
    <3>1. \A u \in Appends \ {t} : append'[u] = append[u]
      BY <1>0, <2>1
    <3>2. append'[t].at = "committed"
      BY <1>0, <2>1
    <3> QED BY <1>0, <2>1, <3>1, <3>2 DEF ReadIsARow
  <2>5. ChainVerifies'
    <3>1. \A e, f \in trail' : e.sequence = f.sequence => e = f
      BY <1>0, <2>1 DEF ChainVerifies
    <3>2. ASSUME NEW e \in trail'
          PROVE  IF e.sequence = 1 THEN e.previousHash = NoHash
                 ELSE \E f \in trail' : f.sequence + 1 = e.sequence
                                       /\ f.eventHash = e.previousHash
      <4>1. CASE e \in trail
        BY <1>0, <2>1, <4>1 DEF ChainVerifies
      <4>2. CASE e = event
        <5>1. \A f \in trail : f.sequence \in Nat \ {0}
          BY <1>0 DEF AuditEvents
        <5> QED BY <2>1, <2>2, <4>2, <5>1
      <4> QED BY <2>1, <4>1, <4>2
    <3> QED BY <3>1, <3>2 DEF ChainVerifies
  <2> QED BY <1>0, <2>1, <2>3, <2>4, <2>5 DEF TrailInv
<1>4. CASE UNCHANGED trailVars
  BY <1>0, <1>4 DEF trailVars, TrailInv, ReadIsARow, ChainVerifies
<1> QED BY <1>1, <1>2, <1>3, <1>4 DEF TrailNext

\* The rows, the lock and what a transaction has read keep their types.
LEMMA TrailTyped == TrailSpec => []TrailTypeOK
<1>1. TrailInit => TrailTypeOK
  BY DEF TrailInit, TrailTypeOK, NotBegun
<1>2. ASSUME TrailInv, TrailTypeOK, [TrailNext]_trailVars PROVE TrailTypeOK'
  <2> DEFINE Reads == [sequence : Nat, eventHash : Appends \cup {NoHash}]
             AppendStates ==
               [at : {"idle", "committed"}] \cup [at : {"begun", "locked"}, seen : SUBSET AuditEvents]
                 \cup [at : {"read"}, previous : Reads]
  <2>0. append \in [Appends -> AppendStates] /\ trail \subseteq AuditEvents
    BY <1>2 DEF TrailTypeOK
  <2>1. trail' \subseteq AuditEvents
    BY <1>2, TrailStepKeeps DEF TrailInv
  <2>2. ASSUME NEW t \in Appends, BeginAppend(t) \/ LockAssignment(t) \/ RollBack(t)
        PROVE  append' \in [Appends -> AppendStates] /\ lockedBy' \in Appends \cup {NoHash}
    <3>1. CASE BeginAppend(t)
      BY <1>2, <2>0, <3>1 DEF BeginAppend, TrailTypeOK
    <3>2. CASE LockAssignment(t)
      <4>1. append[t] \in [at : {"begun", "locked"}, seen : SUBSET AuditEvents]
        BY <2>0, <3>2 DEF LockAssignment
      <4>2. [append[t] EXCEPT !.at = "locked"] \in AppendStates
        BY <4>1
      <4> QED
        BY <2>0, <3>2, <4>2 DEF LockAssignment
    <3>3. CASE RollBack(t)
      BY <1>2, <2>0, <3>3 DEF RollBack, NotBegun, TrailTypeOK
    <3> QED BY <2>2, <3>1, <3>2, <3>3
  <2>3. ASSUME NEW t \in Appends, ReadPrevious(t)
        PROVE  append' \in [Appends -> AppendStates] /\ UNCHANGED lockedBy
    <3> DEFINE rows == IF t \in ReadCommitted THEN trail ELSE append[t].seen
    <3>1. PICK previous \in Last(rows) :
            append' = [append EXCEPT ![t] = [at |-> "read", previous |-> previous]]
      BY <2>3 DEF ReadPrevious
    <3>2. rows \subseteq trail
      BY <1>2, <2>3 DEF ReadPrevious, TrailInv, ReadIsARow
    <3>3. previous \in Reads
      <4>1. NoEvent \in Reads
        BY DEF NoEvent
      <4>2. \A e \in trail : e.sequence \in Nat /\ e.eventHash \in Appends
        BY <2>0 DEF AuditEvents
      <4>3. \/ previous = NoEvent
            \/ \E e \in trail : previous = [sequence |-> e.sequence, eventHash |-> e.eventHash]
        BY <3>2, LastIsARow
      <4> QED BY <4>1, <4>2, <4>3
    <3>4. [at |-> "read", previous |-> previous] \in AppendStates
      BY <3>3
    <3> HIDE DEF AppendStates
    <3> QED BY <2>0, <2>3, <3>1, <3>4 DEF ReadPrevious
  <2>4. ASSUME NEW t \in Appends, CommitAppend(t)
        PROVE  append' \in [Appends -> AppendStates] /\ lockedBy' = NoHash
    <3>1. [at |-> "committed"] \in AppendStates
      OBVIOUS
    <3> HIDE DEF AppendStates
    <3> QED BY <2>0, <2>4, <3>1 DEF CommitAppend
  <2>5. append' \in [Appends -> AppendStates] /\ lockedBy' \in Appends \cup {NoHash}
    <3> HIDE DEF AppendStates
    <3>1. lockedBy \in Appends \cup {NoHash}
      BY <1>2 DEF TrailTypeOK
    <3> QED BY <1>2, <2>0, <2>2, <2>3, <2>4, <3>1 DEF TrailNext, trailVars
  <2> QED BY <2>1, <2>5 DEF TrailTypeOK
<1> QED BY <1>1, <1>2, TrailInitially, TrailStepKeeps, PTL DEF TrailSpec

\* However many transactions append at once, and however stale what they
\* read, the trail of an assignment verifies.
THEOREM TrailVerifies == TrailSpec => []ChainVerifies
<1>1. TrailInv => ChainVerifies
  BY DEF TrailInv
<1> QED BY <1>1, TrailInitially, TrailStepKeeps, PTL DEF TrailSpec

(***************************************************************************)
(* Identity checks: any number of sessions, uploads and requests.          *)
(***************************************************************************)
USE DEF Submissions

\* A screening that ran on a mismatch left a case open, or staff have closed
\* one since: what a request past its screening can rely on.
ScreenedCase ==
  \A h \in Appliers :
    applier[h].at \in {"judge", "approve"} /\ applier[h].screened /\ mismatch =>
      \/ resolved
      \/ applier[h].at = "judge" /\ identityCase = "open"

IdentityInv == IdentityTypeOK /\ VerifiedIsApproved /\ ScreenedCase

LEMMA IdentityInitially == IdentityInit => IdentityInv
<1> SUFFICES ASSUME IdentityInit PROVE IdentityInv
  OBVIOUS
<1> USE DEF IdentityInit, Idle
<1>1. IdentityTypeOK
  BY DEF IdentityTypeOK
<1>2. VerifiedIsApproved
  BY DEF VerifiedIsApproved
<1>3. ScreenedCase
  BY DEF ScreenedCase
<1> QED BY <1>1, <1>2, <1>3 DEF IdentityInv

\* Every step keeps the types.
LEMMA IdentityTypeKept ==
  IdentityTypeOK /\ [IdentityNext]_identityVars => IdentityTypeOK'
<1> SUFFICES ASSUME IdentityTypeOK, [IdentityNext]_identityVars
             PROVE  IdentityTypeOK'
  OBVIOUS
<1> USE DEF IdentityTypeOK, Verdicts, Decided, Idle
<1>1. ASSUME NEW s \in Sessions, StartSession(s) PROVE IdentityTypeOK'
  BY <1>1 DEF StartSession
<1>2. ASSUME NEW s \in Sessions, DiditDecides(s) PROVE IdentityTypeOK'
  BY <1>2 DEF DiditDecides
<1>3. ASSUME NEW h \in Appliers, NEW s \in Sessions, Fetch(h, s) PROVE IdentityTypeOK'
  BY <1>3 DEF Fetch, Applies
<1>4. ASSUME NEW h \in Appliers, Look(h) PROVE IdentityTypeOK'
  BY <1>4 DEF Look, Applies
<1>5. ASSUME NEW h \in Appliers, Record(h) PROVE IdentityTypeOK'
  BY <1>5 DEF Record, Applies
<1>6. ASSUME NEW h \in Appliers, Screen(h) PROVE IdentityTypeOK'
  BY <1>6 DEF Screen, Applies, CaseAfterScreening
<1>7. ASSUME NEW h \in Appliers, Reject(h) PROVE IdentityTypeOK'
  BY <1>7 DEF Reject, Applies, Decide
<1>8. ASSUME NEW h \in Appliers, PassCaseCheck(h) PROVE IdentityTypeOK'
  BY <1>8 DEF PassCaseCheck, Applies
<1>9. ASSUME NEW h \in Appliers, Approve(h) PROVE IdentityTypeOK'
  BY <1>9 DEF Approve, Applies, Decide
<1>10. ASSUME NEW h \in Appliers, Refer(h) PROVE IdentityTypeOK'
  BY <1>10 DEF Refer, Applies
<1>11. ASSUME NEW h \in Appliers, ApplierStops(h) PROVE IdentityTypeOK'
  BY <1>11 DEF ApplierStops, Applies
<1>12. ASSUME NEW u \in Uploads, AskUpload(u) PROVE IdentityTypeOK'
  BY <1>12 DEF AskUpload
<1>13. CASE FileUpload
  BY <1>13 DEF FileUpload
<1>14. CASE ScreenUpload
  BY <1>14 DEF ScreenUpload, CaseAfterScreening
<1>15. ASSUME NEW s \in Submissions, NEW approve \in BOOLEAN, Review(s, approve)
       PROVE  IdentityTypeOK'
  BY <1>15 DEF Review
<1>16. CASE CommitReview
  <2>1. reviewer.packet \in Submissions
    BY <1>16 DEF CommitReview
  <2>2. CASE submission[reviewer.packet].status = "PENDING"
    <3> DEFINE decision == IF reviewer.approve THEN "APPROVED" ELSE "REJECTED"
    <3>1. submission' = [submission EXCEPT ![reviewer.packet] =
                           [status |-> decision, byStaff |-> TRUE]]
      BY <1>16, <2>2 DEF CommitReview
    <3>2. [status |-> decision, byStaff |-> TRUE] \in
            [status : {"NONE", "PENDING"} \cup Decided, byStaff : BOOLEAN]
      OBVIOUS
    <3>3. submission' \in [Submissions ->
            [status : {"NONE", "PENDING"} \cup Decided, byStaff : BOOLEAN]]
      BY <2>1, <3>1, <3>2
    <3>4. /\ kycStatus' \in {"VERIFIED", "REJECTED"} /\ reviewer' = Idle
          /\ UNCHANGED <<identityCase, resolved, mismatch, verdict, applier, upload>>
      BY <1>16, <2>2 DEF CommitReview
    <3> QED BY <3>3, <3>4
  <2>3. CASE submission[reviewer.packet].status # "PENDING"
    BY <1>16, <2>3 DEF CommitReview
  <2> QED BY <2>2, <2>3
<1>17. CASE CloseCase
  BY <1>17 DEF CloseCase
<1>18. CASE UNCHANGED identityVars
  BY <1>18 DEF identityVars
<1> QED
  BY <1>1, <1>2, <1>3, <1>4, <1>5, <1>6, <1>7, <1>8, <1>9, <1>10, <1>11, <1>12,
     <1>13, <1>14, <1>15, <1>16, <1>17, <1>18 DEF IdentityNext

\* The user row and the submissions change together, or not in a way that
\* takes an approval from under a VERIFIED user.
LEMMA VerifiedKept ==
  IdentityTypeOK /\ VerifiedIsApproved /\ [IdentityNext]_identityVars
    => VerifiedIsApproved'
<1> SUFFICES ASSUME IdentityTypeOK, VerifiedIsApproved, [IdentityNext]_identityVars
             PROVE  VerifiedIsApproved'
  OBVIOUS
<1> USE DEF VerifiedIsApproved
<1>1. CASE UNCHANGED <<kycStatus, submission>>
  BY <1>1
<1>2. ASSUME NEW h \in Appliers, Record(h) PROVE VerifiedIsApproved'
  <2>1. /\ kycStatus' = kycStatus
        /\ \A s \in Submissions :
             submission[s].status = "APPROVED" => submission'[s].status = "APPROVED"
    BY <1>2 DEF Record, IdentityTypeOK
  <2> QED BY <2>1
<1>3. ASSUME NEW h \in Appliers, Reject(h) PROVE VerifiedIsApproved'
  BY <1>3 DEF Reject, Decide
<1>4. ASSUME NEW h \in Appliers, Approve(h) PROVE VerifiedIsApproved'
  <2>1. applier[h].session \in Sessions
    BY <1>4 DEF Approve, IdentityTypeOK, Idle
  <2> QED BY <1>4, <2>1 DEF Approve, Decide, IdentityTypeOK
<1>5. ASSUME NEW h \in Appliers, Refer(h) PROVE VerifiedIsApproved'
  BY <1>5 DEF Refer
<1>6. CASE FileUpload
  BY <1>6 DEF FileUpload
<1>7. CASE CommitReview
  <2>1. reviewer.packet \in Submissions /\ reviewer.approve \in BOOLEAN
    BY <1>7 DEF CommitReview, IdentityTypeOK, Idle
  <2> QED BY <1>7, <2>1 DEF CommitReview, IdentityTypeOK
<1> QED
  BY <1>1, <1>2, <1>3, <1>4, <1>5, <1>6, <1>7
     DEF IdentityNext, identityVars, StartSession, DiditDecides, Fetch, Look, Screen,
         PassCaseCheck, ApplierStops, AskUpload, ScreenUpload, Review, CloseCase

\* Only the screening puts a request before the case check, with the case
\* open; only the check, which asks for no open case, takes it past it.
LEMMA ScreenedKept ==
  IdentityTypeOK /\ ScreenedCase /\ [IdentityNext]_identityVars => ScreenedCase'
<1> SUFFICES ASSUME IdentityTypeOK, ScreenedCase, [IdentityNext]_identityVars,
                    NEW g \in Appliers,
                    applier'[g].at \in {"judge", "approve"}, applier'[g].screened,
                    mismatch'
             PROVE  \/ resolved'
                    \/ applier'[g].at = "judge" /\ identityCase' = "open"
  BY DEF ScreenedCase
<1> USE DEF IdentityTypeOK, ScreenedCase, Idle
<1>1. CASE UNCHANGED <<applier, identityCase, resolved, mismatch>>
  BY <1>1
<1>2. ASSUME NEW h \in Appliers,
             Look(h) \/ Record(h) \/ Reject(h) \/ Approve(h) \/ Refer(h) \/ ApplierStops(h)
      PROVE  resolved' \/ (applier'[g].at = "judge" /\ identityCase' = "open")
  <2>1. applier'[h].at \in {"idle", "record", "screen"}
    <3>1. CASE Look(h)
      <4>1. CASE applier'[h] = Idle
        BY <4>1
      <4>2. CASE applier'[h] = [at |-> "record", session |-> applier[h].session,
                                decision |-> applier[h].decision,
                                fresh |-> submission[applier[h].session].status = "NONE"]
        BY <4>2
      <4> QED BY <3>1, <4>1, <4>2 DEF Look, Applies
    <3>2. CASE Record(h)
      <4>1. CASE applier'[h] = Idle
        BY <4>1
      <4>2. CASE applier'[h] = [at |-> "screen", session |-> applier[h].session,
                                decision |-> applier[h].decision]
        BY <4>2
      <4> QED BY <3>2, <4>1, <4>2 DEF Record, Applies
    <3>3. CASE Reject(h) \/ Approve(h) \/ Refer(h) \/ ApplierStops(h)
      <4>1. applier'[h] = Idle
        BY <3>3 DEF Reject, Approve, Refer, ApplierStops, Applies
      <4> QED BY <4>1
    <3> QED BY <1>2, <3>1, <3>2, <3>3
  <2>2. h # g /\ applier'[g] = applier[g]
    BY <1>2, <2>1 DEF Look, Record, Reject, Approve, Refer, ApplierStops, Applies
  <2>3. mismatch' = mismatch /\ resolved' = resolved /\ identityCase' = identityCase
    BY <1>2 DEF Look, Record, Reject, Approve, Refer, ApplierStops, Applies
  <2> QED BY <2>2, <2>3
<1>3. ASSUME NEW h \in Appliers, NEW s \in Sessions, Fetch(h, s)
      PROVE  resolved' \/ (applier'[g].at = "judge" /\ identityCase' = "open")
  BY <1>3 DEF Fetch, Applies
<1>4. ASSUME NEW h \in Appliers, Screen(h)
      PROVE  resolved' \/ (applier'[g].at = "judge" /\ identityCase' = "open")
  BY <1>4 DEF Screen, Applies, CaseAfterScreening
<1>5. ASSUME NEW h \in Appliers, PassCaseCheck(h)
      PROVE  resolved' \/ (applier'[g].at = "judge" /\ identityCase' = "open")
  BY <1>5 DEF PassCaseCheck, Applies, BlockingCase
<1>6. CASE ScreenUpload
  BY <1>6 DEF ScreenUpload, CaseAfterScreening
<1>7. CASE CloseCase
  BY <1>7 DEF CloseCase
<1> QED
  BY <1>1, <1>2, <1>3, <1>4, <1>5, <1>6, <1>7
     DEF IdentityNext, identityVars, StartSession, DiditDecides, AskUpload,
         FileUpload, Review, CommitReview

\* The inductive invariant holds in every reachable state.
THEOREM IdentityInductive == IdentitySpec => []IdentityInv
<1>1. IdentityInit => IdentityInv
  BY IdentityInitially
<1>2. IdentityInv /\ [IdentityNext]_identityVars => IdentityInv'
  BY IdentityTypeKept, VerifiedKept, ScreenedKept DEF IdentityInv
<1> QED
  BY <1>1, <1>2, PTL DEF IdentitySpec

\* The user row says VERIFIED only while a submission is APPROVED
\* (service.ts:228-231), however requests and staff interleave.
THEOREM VerifiedHasApproval == IdentitySpec => []VerifiedIsApproved
<1>1. IdentityInv => VerifiedIsApproved
  BY DEF IdentityInv
<1> QED
  BY <1>1, IdentityInductive, PTL

\* A screening that ran keeps an unresolved mismatch from being approved
\* (identity-checks.ts:14).
THEOREM MismatchNotApproved == IdentitySpec => []MismatchBlocksApproval
<1>1. IdentityInv => MismatchBlocksApproval
  BY DEF IdentityInv, ScreenedCase, MismatchBlocksApproval
<1> QED
  BY <1>1, IdentityInductive, PTL

(***************************************************************************)
(* Deposit limits, for any limits, any bound on the deposits and any       *)
(* number of overlapping requests.                                         *)
(***************************************************************************)

\* A staged increase is above the limit it replaces and is no removal; what a
\* removal keeps in force is an amount; what the worker found is what a row
\* still matured for it says; with every deposit in flight recorded, the usage
\* would exceed what each was checked under by no more than its company.
Staged == limit.pending # 0 => limit.pending > limit.amount /\ ~limit.removal
Removing == \A t \in Tabs : tab[t].op = "remove" => InForce(tab[t].seen) \in Amounts
Found ==
  /\ tidy.at = "fold" => tidy.amount \in Amounts
  /\ tidy.at = "fold" /\ limit.pending # 0 /\ TidyMatured => tidy.amount = limit.pending
Fits ==
  \A t \in Tabs : tab[t].op = "deposit" =>
    /\ InForce(limit) <= tab[t].under
    /\ Usage + InFlight(tab) <= tab[t].under + tab[t].crowd - 1

LimitInv == LimitTypeOK /\ Staged /\ Removing /\ Found /\ Fits

\* A row has a limit in force that is an amount, or none.
LEMMA InForceType ==
  ASSUME NEW row \in Rows
  PROVE  /\ InForce(row) \in Amounts \cup {NoLimit}
         /\ NoLimit \in Nat /\ \A a \in Amounts : a \in Nat /\ 0 < a /\ a < NoLimit
         /\ row # NoRow => row.amount \in Amounts
  BY LimitAssumption DEF Rows, InForce, Amounts, NoLimit, NoRow

LEMMA FixedRow ==
  ASSUME NEW a \in Amounts
  PROVE  /\ Fixed(a) \in Rows /\ Fixed(a) # NoRow /\ InForce(Fixed(a)) = a
         /\ Fixed(a).pending = 0 /\ Fixed(a).staged = "no"
  BY LimitAssumption DEF Fixed, Rows, InForce, Amounts, NoRow

\* What setDepositLimit writes: a row whose limit in force is no looser than
\* that of the row it read, and whose staged increase is above it.
LEMMA LimitSetRow ==
  ASSUME NEW seen \in Rows, NEW a \in Amounts
  PROVE  /\ LimitSet(seen, a) \in Rows
         /\ InForce(LimitSet(seen, a)) <= InForce(seen)
         /\ LimitSet(seen, a).staged # "matured"
         /\ LimitSet(seen, a).pending # 0 =>
              /\ LimitSet(seen, a).pending > LimitSet(seen, a).amount
              /\ ~LimitSet(seen, a).removal
<1> DEFINE new == LimitSet(seen, a)
<1>1. CASE a <= InForce(seen)
  BY <1>1, FixedRow DEF LimitSet
<1>2. CASE ~(a <= InForce(seen))
  <2>1. InForce(seen) \in Amounts /\ InForce(seen) < a
    BY <1>2, InForceType
  <2>2. new = [amount |-> InForce(seen), pending |-> a, removal |-> FALSE,
               staged |-> "waiting"]
    BY <1>2 DEF LimitSet
  <2>3. new \in Rows /\ new # NoRow
    BY <2>1, <2>2 DEF Rows, NoRow
  <2>4. InForce(new) = InForce(seen)
    BY <2>2, <2>3 DEF InForce
  <2> QED BY <2>1, <2>2, <2>3, <2>4, InForceType
<1> QED BY <1>1, <1>2

LEMMA RemovalRow ==
  ASSUME NEW seen \in Rows, InForce(seen) \in Amounts
  PROVE  LET new == [amount |-> InForce(seen), pending |-> 0, removal |-> TRUE,
                     staged |-> "waiting"]
         IN new \in Rows /\ new # NoRow /\ InForce(new) = InForce(seen)
  BY DEF Rows, NoRow, InForce

LEMMA NoRowType == NoRow \in Rows /\ InForce(NoRow) = NoLimit
  BY DEF Rows, InForce, NoRow

\* The deposits in flight are a number; one that ends counts no more, one that
\* begins counts once, and whatever else a request does leaves their number.
LEMMA FlightCounted ==
  ASSUME NEW tabs, NEW t \in Tabs, tabs \in [Tabs -> TabTasks], NEW task \in TabTasks
  PROVE  /\ InFlight(tabs) \in Nat
         /\ InFlight([tabs EXCEPT ![t] = task]) \in Nat
         /\ tabs[t].op = "deposit" => InFlight(tabs) > 0
         /\ tabs[t].op = "deposit" /\ task.op # "deposit" =>
              InFlight([tabs EXCEPT ![t] = task]) = InFlight(tabs) - 1
         /\ (tabs[t].op = "deposit" <=> task.op = "deposit") =>
              InFlight([tabs EXCEPT ![t] = task]) = InFlight(tabs)
         /\ tabs[t].op # "deposit" /\ task.op = "deposit" =>
              InFlight([tabs EXCEPT ![t] = task]) = InFlight(tabs) + 1
<1> DEFINE old == {u \in Tabs : tabs[u].op = "deposit"}
           moved == [tabs EXCEPT ![t] = task]
           new == {u \in Tabs : moved[u].op = "deposit"}
<1>1. IsFiniteSet(old) /\ IsFiniteSet(new)
  BY LimitAssumption, FS_Subset
<1>2. Cardinality(old) \in Nat /\ Cardinality(new) \in Nat
  BY <1>1, FS_CardinalityType
<1>3. (t \in old <=> tabs[t].op = "deposit") /\ (t \in new <=> task.op = "deposit")
  OBVIOUS
<1>4. t \in old => Cardinality(old) > 0
  BY <1>1, <1>2, FS_EmptySet
<1>5. t \in old /\ t \notin new => Cardinality(new) = Cardinality(old) - 1
  <2>1. t \in old /\ t \notin new => new = old \ {t}
    OBVIOUS
  <2> QED BY <1>1, <2>1, FS_RemoveElement
<1>6. (t \in old <=> t \in new) => new = old
  OBVIOUS
<1>7. t \notin old /\ t \in new => Cardinality(new) = Cardinality(old) + 1
  <2>1. t \notin old /\ t \in new => new = old \cup {t}
    OBVIOUS
  <2> QED BY <1>1, <2>1, FS_AddElement
<1>8. InFlight(tabs) = Cardinality(old) /\ InFlight(moved) = Cardinality(new)
  BY DEF InFlight
<1> HIDE DEF old, new
<1> QED BY <1>2, <1>3, <1>4, <1>5, <1>6, <1>7, <1>8

LEMMA LimitInitially == LimitInit => LimitInv
<1> SUFFICES ASSUME LimitInit PROVE LimitInv
  OBVIOUS
<1> USE DEF LimitInit
<1>1. LimitTypeOK
  BY NoRowType DEF LimitTypeOK, TabTasks, TabIdle, TidyIdle
<1>2. Staged
  BY DEF Staged, NoRow
<1>3. Removing /\ Fits
  BY DEF Removing, Fits, TabIdle
<1>4. Found
  BY DEF Found, TidyIdle
<1> QED BY <1>1, <1>2, <1>3, <1>4 DEF LimitInv

\* Watching keeps every request but raises what a deposit in flight has seen.
LEMMA WatchedTabs ==
  ASSUME NEW tabs \in [Tabs -> TabTasks], NEW row \in Rows, InFlight(tabs) \in Nat
  PROVE  /\ Watched(tabs, row) \in [Tabs -> TabTasks]
         /\ InFlight(Watched(tabs, row)) = InFlight(tabs)
         /\ \A t \in Tabs :
              /\ tabs[t].op # "deposit" => Watched(tabs, row)[t] = tabs[t]
              /\ Watched(tabs, row)[t].op = tabs[t].op
              /\ tabs[t].op = "deposit" =>
                   /\ Watched(tabs, row)[t].under \in Nat
                   /\ Watched(tabs, row)[t].crowd \in Nat
                   /\ tabs[t].under \in Nat /\ tabs[t].crowd \in Nat
                   /\ Watched(tabs, row)[t].under >= tabs[t].under
                   /\ Watched(tabs, row)[t].under >= InForce(row)
                   /\ Watched(tabs, row)[t].crowd >= tabs[t].crowd
                   /\ Watched(tabs, row)[t].crowd >= InFlight(tabs)
<1> DEFINE new == Watched(tabs, row)
<1>0. InForce(row) \in Amounts \cup {NoLimit} /\ Amounts \cup {NoLimit} \subseteq Nat
  BY InForceType
<1>1. ASSUME NEW t \in Tabs
      PROVE  /\ new[t] \in TabTasks
             /\ tabs[t].op # "deposit" => new[t] = tabs[t]
             /\ new[t].op = tabs[t].op
             /\ tabs[t].op = "deposit" =>
                  /\ new[t].under \in Nat /\ new[t].crowd \in Nat
                  /\ tabs[t].under \in Nat /\ tabs[t].crowd \in Nat
                  /\ new[t].under >= tabs[t].under /\ new[t].under >= InForce(row)
                  /\ new[t].crowd >= tabs[t].crowd /\ new[t].crowd >= InFlight(tabs)
  <2>1. CASE tabs[t].op # "deposit"
    BY <2>1 DEF Watched
  <2>2. CASE tabs[t].op = "deposit"
    <3>1. tabs[t].under \in Amounts \cup {NoLimit} /\ tabs[t].crowd \in Nat
      BY <2>2 DEF TabTasks
    <3>2. new[t] = [op |-> "deposit", under |-> Higher(tabs[t].under, InForce(row)),
                    crowd |-> Higher(tabs[t].crowd, InFlight(tabs))]
      BY <2>2 DEF Watched
    <3>3. Higher(tabs[t].under, InForce(row)) \in Amounts \cup {NoLimit}
          /\ Higher(tabs[t].under, InForce(row)) >= tabs[t].under
          /\ Higher(tabs[t].under, InForce(row)) >= InForce(row)
      BY <1>0, <3>1 DEF Higher
    <3>4. Higher(tabs[t].crowd, InFlight(tabs)) \in Nat
          /\ Higher(tabs[t].crowd, InFlight(tabs)) >= tabs[t].crowd
          /\ Higher(tabs[t].crowd, InFlight(tabs)) >= InFlight(tabs)
      BY <3>1 DEF Higher
    <3>5. new[t] \in TabTasks
      BY <3>2, <3>3, <3>4 DEF TabTasks
    <3> QED BY <1>0, <2>2, <3>1, <3>2, <3>3, <3>4, <3>5
  <2> QED BY <2>1, <2>2
<1>2. new \in [Tabs -> TabTasks]
  <2>1. new = [t \in Tabs |-> new[t]]
    BY DEF Watched
  <2> QED BY <1>1, <2>1
<1>3. InFlight(new) = InFlight(tabs)
  BY <1>1 DEF InFlight
<1> QED BY <1>1, <1>2, <1>3

\* A step that may change the row, with the deposits in flight watched, leaves
\* them within what they saw.
LEMMA RowWatched ==
  ASSUME LimitInv, NEW tabs \in [Tabs -> TabTasks],
         tab' = Watched(tabs, limit'), InFlight(tabs) = InFlight(tab), InFlight(tab) \in Nat,
         \A t \in Tabs : tabs[t].op \in {"remove", "deposit"} => tabs[t] = tab[t],
         limit' \in Rows, deposits' = deposits
  PROVE  tab' \in [Tabs -> TabTasks] /\ Removing' /\ Fits'
<1> USE DEF LimitInv
<1>0. /\ tab' \in [Tabs -> TabTasks] /\ InFlight(tab)' = InFlight(tab)
      /\ \A t \in Tabs : tab'[t].op = tabs[t].op
      /\ \A t \in Tabs : tab'[t].op = "remove" => tab'[t] = tab[t]
      /\ \A t \in Tabs : tab'[t].op = "deposit" =>
           /\ tab[t].op = "deposit" /\ tab[t].under \in Nat /\ tab[t].crowd \in Nat
           /\ tab'[t].under \in Nat /\ tab'[t].crowd \in Nat
           /\ tab'[t].under >= tab[t].under /\ tab'[t].under >= InForce(limit')
           /\ tab'[t].crowd >= tab[t].crowd
  <2>1. InFlight(tabs) \in Nat
    OBVIOUS
  <2>2. InFlight(tab)' = InFlight(Watched(tabs, limit'))
    BY DEF InFlight
  <2> QED BY <2>1, <2>2, WatchedTabs
<1>1. Removing'
  BY <1>0 DEF Removing
<1>2. Fits'
  <2> SUFFICES ASSUME NEW t \in Tabs, tab'[t].op = "deposit"
               PROVE  /\ InForce(limit') <= tab'[t].under
                      /\ Usage' + InFlight(tab)' <= tab'[t].under + tab'[t].crowd - 1
    BY DEF Fits
  <2>1. Usage + InFlight(tab) <= tab[t].under + tab[t].crowd - 1
    BY <1>0 DEF Fits
  <2>2. Usage' = Usage /\ Usage \in Nat
    BY DEF Usage, LimitTypeOK
  <2>3. InForce(limit') \in Nat
    BY InForceType
  <2> QED BY <1>0, <2>1, <2>2, <2>3
<1> QED BY <1>0, <1>1, <1>2

\* It keeps the invariant when the new row is well formed and not matured.
LEMMA RowReplaced ==
  ASSUME LimitInv, NEW tabs \in [Tabs -> TabTasks],
         tab' = Watched(tabs, limit'), InFlight(tabs) = InFlight(tab), InFlight(tab) \in Nat,
         \A t \in Tabs : tabs[t].op \in {"remove", "deposit"} => tabs[t] = tab[t],
         limit' \in Rows, limit'.pending # 0 => limit'.pending > limit'.amount /\ ~limit'.removal,
         limit'.staged # "matured",
         deposits' = deposits, tidy' \in [at : {"idle", "find", "fold"},
                                           amount : {0} \cup Amounts, late : BOOLEAN],
         tidy'.at = "fold" => tidy'.amount \in Amounts
  PROVE  LimitInv'
<1> USE DEF LimitInv
<1>1. tab' \in [Tabs -> TabTasks] /\ Removing' /\ Fits'
  BY RowWatched
<1>2. LimitTypeOK'
  BY <1>1 DEF LimitTypeOK
<1>3. Staged'
  BY DEF Staged
<1>4. Found'
  BY DEF Found, TidyMatured
<1> QED BY <1>1, <1>2, <1>3, <1>4

\* A step that moves a request that is no deposit keeps it too, and so does one
\* that ends a deposit and counts it, at most, among the recorded ones.
LEMMA RequestMoved ==
  ASSUME LimitInv, NEW t \in Tabs, NEW task \in TabTasks,
         tab' = [tab EXCEPT ![t] = task],
         task.op = "remove" => InForce(task.seen) \in Amounts,
         task.op # "deposit",
         deposits' \in [pending : Nat, completed : Nat],
         Usage' <= Usage \/ (tab[t].op = "deposit" /\ Usage' = Usage + 1),
         UNCHANGED <<limit, tidy>>
  PROVE  LimitInv'
<1> USE DEF LimitInv
<1>1. LimitTypeOK'
  BY DEF LimitTypeOK
<1>2. Staged'
  BY DEF Staged
<1>3. Removing'
  BY DEF Removing, LimitTypeOK
<1>4. Found'
  BY DEF Found, TidyMatured
<1>5. Fits'
  <2>0. tab \in [Tabs -> TabTasks] /\ InFlight(tab)' = InFlight([tab EXCEPT ![t] = task])
    BY DEF LimitTypeOK, InFlight
  <2>1. InFlight(tab) \in Nat /\ InFlight(tab)' \in Nat
        /\ InFlight(tab)' <= InFlight(tab)
        /\ (tab[t].op = "deposit" => InFlight(tab)' = InFlight(tab) - 1)
    <3> DEFINE moved == [tab EXCEPT ![t] = task]
    <3>1. /\ InFlight(tab) \in Nat /\ InFlight(moved) \in Nat
          /\ tab[t].op = "deposit" => InFlight(moved) = InFlight(tab) - 1
          /\ tab[t].op # "deposit" => InFlight(moved) = InFlight(tab)
      BY <2>0, FlightCounted
    <3>2. InFlight(tab)' = InFlight(moved)
      BY <2>0
    <3> HIDE DEF moved
    <3> QED BY <3>1, <3>2
  <2>2. Usage \in Nat /\ Usage' \in Nat
    BY DEF Usage, LimitTypeOK
  <2>3. Usage' + InFlight(tab)' <= Usage + InFlight(tab)
    BY <2>1, <2>2
  <2> SUFFICES ASSUME NEW u \in Tabs, tab'[u].op = "deposit"
               PROVE  /\ InForce(limit') <= tab'[u].under
                      /\ Usage' + InFlight(tab)' <= tab'[u].under + tab'[u].crowd - 1
    BY DEF Fits
  <2>4. u # t /\ tab'[u] = tab[u]
    BY <2>0
  <2>5. tab[u].under \in Nat /\ tab[u].crowd \in Nat
    BY <2>0, <2>4, LimitAssumption DEF TabTasks, Amounts, NoLimit
  <2>6. InForce(limit) <= tab[u].under
        /\ Usage + InFlight(tab) <= tab[u].under + tab[u].crowd - 1
    BY <2>4 DEF Fits
  <2> QED BY <2>1, <2>2, <2>3, <2>4, <2>5, <2>6
<1> QED BY <1>1, <1>2, <1>3, <1>4, <1>5

\* So does a deposit past its check: with it the usage stays under the limit.
LEMMA DepositChecked ==
  ASSUME LimitInv, NEW t \in Tabs, CheckDeposit(t)
  PROVE  LimitInv'
<1> USE DEF LimitInv
<1> DEFINE task == [op |-> "deposit", under |-> InForce(limit), crowd |-> 1]
           asked == [tab EXCEPT ![t] = task]
<1>0. tab \in [Tabs -> TabTasks] /\ limit \in Rows /\ InForce(limit) \in Amounts \cup {NoLimit}
      /\ InForce(limit) \in Nat /\ Usage \in Nat
  BY InForceType DEF LimitTypeOK, Usage
<1>1. task \in TabTasks /\ task.op = "deposit"
  BY <1>0 DEF TabTasks
<1>2. asked \in [Tabs -> TabTasks] /\ asked[t] = task
  BY <1>0, <1>1
<1>3. InFlight(asked) \in Nat
  BY <1>0, <1>1, FlightCounted
<1>4. tab' = Watched(asked, limit) /\ UNCHANGED <<limit, deposits, tidy>>
      /\ Usage + 1 <= InForce(limit)
  BY DEF CheckDeposit, CanDeposit
<1>5. InFlight(tab)' = InFlight(asked)
  <2>1. InFlight(tab)' = InFlight(Watched(asked, limit))
    BY <1>4 DEF InFlight
  <2> HIDE DEF asked
  <2> QED BY <1>0, <1>2, <1>3, <2>1, WatchedTabs
<1> HIDE DEF asked
<1>6. /\ tab' \in [Tabs -> TabTasks]
      /\ \A u \in Tabs : tab'[u].op = "remove" => tab'[u] = asked[u]
      /\ \A u \in Tabs : tab'[u].op = "deposit" =>
           /\ tab'[u].under \in Nat /\ tab'[u].crowd \in Nat
           /\ tab'[u].under >= InForce(limit) /\ tab'[u].crowd >= InFlight(asked)
  BY <1>0, <1>2, <1>3, <1>4, WatchedTabs
<1>7. LimitTypeOK' /\ Staged' /\ Found'
  BY <1>4, <1>6 DEF LimitTypeOK, Staged, Found, TidyMatured
<1>8. Removing'
  <2>1. \A u \in Tabs : asked[u].op = "remove" => asked[u] = tab[u]
    BY <1>0, <1>1 DEF asked
  <2> QED BY <1>4, <1>6, <2>1 DEF Removing
<1>9. Fits'
  <2>1. Usage' = Usage
    BY <1>4 DEF Usage
  <2> QED BY <1>0, <1>3, <1>4, <1>5, <1>6, <2>1 DEF Fits
<1> QED BY <1>7, <1>8, <1>9

\* So does a step of the payments, which only takes away from the usage.
LEMMA DepositsMoved ==
  ASSUME LimitInv,
         deposits' \in [pending : Nat, completed : Nat], Usage' <= Usage,
         UNCHANGED <<limit, tab, tidy>>
  PROVE  LimitInv'
<1> USE DEF LimitInv
<1>1. LimitTypeOK'
  BY DEF LimitTypeOK
<1>2. Staged' /\ Removing'
  BY DEF Staged, Removing
<1>3. Found'
  BY DEF Found, TidyMatured
<1>4. Fits'
  <2>1. Usage \in Nat /\ Usage' \in Nat
    BY DEF Usage, LimitTypeOK
  <2> SUFFICES ASSUME NEW u \in Tabs, tab[u].op = "deposit"
               PROVE  /\ InForce(limit) <= tab[u].under
                      /\ Usage' + InFlight(tab) <= tab[u].under + tab[u].crowd - 1
    BY DEF Fits, InFlight
  <2>2. InFlight(tab) \in Nat /\ tab[u].under \in Nat /\ tab[u].crowd \in Nat
    BY FlightCounted, LimitAssumption DEF LimitTypeOK, TabTasks, Amounts, NoLimit
  <2>3. InForce(limit) <= tab[u].under
        /\ Usage + InFlight(tab) <= tab[u].under + tab[u].crowd - 1
    BY DEF Fits
  <2> QED BY <2>1, <2>2, <2>3
<1> QED BY <1>1, <1>2, <1>3, <1>4

\* The requests of the customer.
LEMMA RequestsKeep ==
  ASSUME LimitInv, NEW t \in Tabs,
         \/ \E a \in Amounts : AskSet(t, a)
         \/ AskRemove(t) \/ CheckDeposit(t) \/ CancelPending(t)
         \/ WriteSet(t) \/ WriteRemoval(t) \/ RequestFails(t)
         \/ CreateDeposit(t) \/ DropDeposit(t)
  PROVE  LimitInv'
<1>0. /\ limit \in Rows /\ tab \in [Tabs -> TabTasks] /\ tab[t] \in TabTasks
      /\ deposits \in [pending : Nat, completed : Nat]
      /\ tidy \in [at : {"idle", "find", "fold"}, amount : {0} \cup Amounts, late : BOOLEAN]
      /\ tidy.at = "fold" => tidy.amount \in Amounts
      /\ TabIdle \in TabTasks /\ TabIdle.op = "idle"
      /\ [tab EXCEPT ![t] = TabIdle] \in [Tabs -> TabTasks]
      /\ \A u \in Tabs : [tab EXCEPT ![t] = TabIdle][u].op \in {"remove", "deposit"} =>
                           [tab EXCEPT ![t] = TabIdle][u] = tab[u]
      /\ Usage \in Nat
  BY DEF LimitInv, LimitTypeOK, Found, TabTasks, TabIdle, Usage
<1>f. /\ InFlight(tab) \in Nat
      /\ tab[t].op # "deposit" => InFlight([tab EXCEPT ![t] = TabIdle]) = InFlight(tab)
  BY <1>0, FlightCounted
<1>u. deposits' = deposits => Usage' <= Usage
  BY <1>0 DEF Usage
<1>1. ASSUME NEW a \in Amounts, AskSet(t, a) PROVE LimitInv'
  <2>1. [op |-> "set", to |-> a, seen |-> limit] \in TabTasks
    BY <1>0 DEF TabTasks
  <2> QED BY <1>0, <1>u, <1>1, <2>1, RequestMoved DEF AskSet, Ask
<1>2. CASE AskRemove(t)
  <2>1. [op |-> "remove", seen |-> limit] \in TabTasks
    BY <1>0 DEF TabTasks
  <2>2. InForce(limit) \in Amounts
    BY <1>0, <1>2, InForceType DEF AskRemove
  <2> QED BY <1>0, <1>u, <1>2, <2>1, <2>2, RequestMoved DEF AskRemove, Ask
<1>3. CASE CheckDeposit(t)
  BY <1>3, DepositChecked
<1>4. CASE CancelPending(t)
  <2>1. limit.amount \in Amounts
    BY <1>0, <1>4, InForceType DEF CancelPending
  <2> QED BY <1>0, <1>f, <1>4, <2>1, FixedRow, RowReplaced DEF CancelPending, Written
<1>5. CASE WriteSet(t)
  <2>1. tab[t].seen \in Rows /\ tab[t].to \in Amounts
    BY <1>0, <1>5 DEF WriteSet, TabTasks
  <2> QED BY <1>0, <1>f, <1>5, <2>1, LimitSetRow, RowReplaced DEF WriteSet, Written
<1>6. CASE WriteRemoval(t)
  <2>1. tab[t].seen \in Rows /\ InForce(tab[t].seen) \in Amounts
    BY <1>0, <1>6 DEF WriteRemoval, TabTasks, LimitInv, Removing
  <2> DEFINE new == [amount |-> InForce(tab[t].seen), pending |-> 0, removal |-> TRUE,
                     staged |-> "waiting"]
  <2>2. new \in Rows /\ new.pending = 0 /\ new.staged # "matured"
    BY <2>1, RemovalRow
  <2>3. limit' = new /\ tab' = Watched([tab EXCEPT ![t] = TabIdle], limit')
        /\ UNCHANGED <<deposits, tidy>> /\ tab[t].op # "deposit"
    BY <1>6 DEF WriteRemoval, Written
  <2> QED BY <1>0, <1>f, <2>2, <2>3, RowReplaced
<1>7. CASE RequestFails(t)
  BY <1>0, <1>u, <1>7, RequestMoved DEF RequestFails
<1>8. CASE CreateDeposit(t)
  <2>1. deposits' \in [pending : Nat, completed : Nat] /\ Usage' = Usage + 1
    BY <1>0, <1>8 DEF CreateDeposit, Usage
  <2> QED BY <1>0, <1>8, <2>1, RequestMoved DEF CreateDeposit
<1>9. CASE DropDeposit(t)
  BY <1>0, <1>u, <1>9, RequestMoved DEF DropDeposit
<1> QED BY <1>1, <1>2, <1>3, <1>4, <1>5, <1>6, <1>7, <1>8, <1>9

\* Payments, the passing day and the worker.
LEMMA WorldKeeps ==
  ASSUME LimitInv,
         SettleDeposit \/ LeaveWindow \/ Mature \/ DeleteRemoved \/ FindMatured \/ FoldIncrease
  PROVE  LimitInv'
<1>0. /\ limit \in Rows /\ tab \in [Tabs -> TabTasks]
      /\ deposits \in [pending : Nat, completed : Nat]
      /\ tidy \in [at : {"idle", "find", "fold"}, amount : {0} \cup Amounts, late : BOOLEAN]
      /\ tidy.at = "fold" => tidy.amount \in Amounts
      /\ limit.pending # 0 => limit.pending > limit.amount /\ ~limit.removal
  BY DEF LimitInv, LimitTypeOK, Found, Staged
<1>t. InFlight(tab) \in Nat
  BY LimitAssumption, FS_Subset, FS_CardinalityType DEF InFlight
<1>1. CASE SettleDeposit
  <2>1. deposits' \in [pending : Nat, completed : Nat] /\ Usage' <= Usage
    BY <1>0, <1>1 DEF SettleDeposit, Usage
  <2> QED BY <1>0, <1>1, <2>1, DepositsMoved DEF SettleDeposit
<1>2. CASE LeaveWindow
  <2>1. deposits' \in [pending : Nat, completed : Nat] /\ Usage' <= Usage
    BY <1>0, <1>2 DEF LeaveWindow, Usage
  <2> QED BY <1>0, <1>2, <2>1, DepositsMoved DEF LeaveWindow
<1>3. CASE Mature
  <2>1. limit # NoRow /\ limit \in [amount : Amounts, pending : {0} \cup Amounts,
                                    removal : BOOLEAN, staged : {"no", "waiting", "matured"}]
    BY <1>0, <1>3 DEF Mature, Rows, NoRow
  <2>2. limit' \in Rows /\ limit'.pending = limit.pending /\ limit'.amount = limit.amount
        /\ limit'.removal = limit.removal
    BY <1>3, <2>1 DEF Mature, Rows
  <2>3. tidy' \in [at : {"idle", "find", "fold"}, amount : {0} \cup Amounts, late : BOOLEAN]
        /\ tidy'.at = tidy.at /\ tidy'.amount = tidy.amount /\ tidy'.late = (tidy.at # "idle")
    BY <1>0, <1>3 DEF Mature
  <2>6. tab' \in [Tabs -> TabTasks] /\ Removing' /\ Fits'
    BY <1>0, <1>t, <1>3, <2>2, RowWatched DEF Mature
  <2>4. LimitTypeOK'
    BY <1>0, <1>3, <2>2, <2>3, <2>6 DEF Mature, LimitTypeOK
  <2>5. Staged' /\ Found'
    BY <1>0, <2>2, <2>3 DEF Staged, Found, TidyMatured
  <2> QED BY <2>4, <2>5, <2>6 DEF LimitInv
<1>4. CASE DeleteRemoved
  <2>1. tidy' \in [at : {"idle", "find", "fold"}, amount : {0} \cup Amounts, late : BOOLEAN]
        /\ tidy'.at = "find"
    BY <1>0, <1>4 DEF DeleteRemoved
  <2>2. CASE limit' = limit
    <3>2. tab' \in [Tabs -> TabTasks] /\ Removing' /\ Fits'
      BY <1>0, <1>t, <1>4, <2>2, RowWatched DEF DeleteRemoved
    <3>1. LimitTypeOK' /\ Staged' /\ Found'
      BY <1>0, <1>4, <2>1, <2>2, <3>2 DEF DeleteRemoved, LimitTypeOK, Staged, Found
    <3> QED BY <3>1, <3>2 DEF LimitInv
  <2>3. CASE limit' # limit
    <3>1. limit' = NoRow /\ tab' = Watched(tab, limit') /\ deposits' = deposits
      BY <1>4, <2>3 DEF DeleteRemoved
    <3> QED BY <1>0, <1>t, <2>1, <3>1, NoRowType, RowReplaced DEF NoRow
  <2> QED BY <2>2, <2>3
<1>5. CASE FindMatured
  <2>1. tidy' \in [at : {"idle", "find", "fold"}, amount : {0} \cup Amounts, late : BOOLEAN]
        /\ (tidy'.at = "fold" => limit.pending # 0 /\ tidy'.amount = limit.pending)
    <3>1. limit.pending \in {0} \cup Amounts
      BY <1>0 DEF Rows, NoRow
    <3> QED BY <1>0, <1>5, <3>1 DEF FindMatured, TidyIdle
  <2>2. limit.pending # 0 => limit.pending \in Amounts
    BY <1>0 DEF Rows, NoRow
  <2>3. LimitTypeOK' /\ Staged' /\ Found'
    BY <1>0, <1>5, <2>1, <2>2 DEF FindMatured, LimitTypeOK, Staged, Found
  <2>4. Removing' /\ Fits'
    BY <1>5 DEF FindMatured, LimitInv, Removing, Fits, Usage, InFlight
  <2> QED BY <2>3, <2>4 DEF LimitInv
<1>6. CASE FoldIncrease
  <2>1. tidy' \in [at : {"idle", "find", "fold"}, amount : {0} \cup Amounts, late : BOOLEAN]
        /\ tidy'.at = "idle"
    BY <1>6 DEF FoldIncrease, TidyIdle
  <2>2. CASE limit' = limit
    <3>2. tab' \in [Tabs -> TabTasks] /\ Removing' /\ Fits'
      BY <1>0, <1>t, <1>6, <2>2, RowWatched DEF FoldIncrease
    <3>1. LimitTypeOK' /\ Staged' /\ Found'
      BY <1>0, <1>6, <2>1, <2>2, <3>2 DEF FoldIncrease, LimitTypeOK, Staged, Found
    <3> QED BY <3>1, <3>2 DEF LimitInv
  <2>3. CASE limit' # limit
    <3>1. /\ limit' = Fixed(tidy.amount) /\ tab' = Watched(tab, limit') /\ deposits' = deposits
          /\ tidy.amount \in Amounts
      BY <1>0, <1>6, <2>3 DEF FoldIncrease
    <3> QED BY <1>0, <1>t, <2>1, <3>1, FixedRow, RowReplaced
  <2> QED BY <2>2, <2>3
<1> QED BY <1>1, <1>2, <1>3, <1>4, <1>5, <1>6

LEMMA LimitStepKeeps == LimitInv /\ [LimitNext]_limitVars => LimitInv'
<1>1. ASSUME LimitInv, UNCHANGED limitVars PROVE LimitInv'
  BY <1>1 DEF limitVars, LimitInv, LimitTypeOK, Staged, Removing, Found, Fits, Usage,
              InFlight, TidyMatured
<1> QED BY <1>1, RequestsKeep, WorldKeeps DEF LimitNext

\* The inductive invariant holds in every reachable state.
THEOREM LimitInductive == LimitSpec => []LimitInv
  BY LimitInitially, LimitStepKeeps, PTL DEF LimitSpec

(***************************************************************************)
(* The action properties, step by step.                                    *)
(***************************************************************************)

\* The step of [LoosensOnlyAfterDelay]: only the day, or a stale request.
LoosenedRightly ==
  InForce(limit') > InForce(limit) =>
    (limit.staged = "waiting" /\ limit' = [limit EXCEPT !.staged = "matured"])
      \/ \E t \in Tabs : StaleWrite(t)

LEMMA NotLoosened ==
  ASSUME LimitInv, LimitNext
  PROVE  LoosenedRightly
<1>0. /\ limit \in Rows /\ tab \in [Tabs -> TabTasks]
      /\ limit.pending # 0 => limit.pending > limit.amount /\ ~limit.removal
      /\ InForce(limit) \in Nat
  BY InForceType DEF LimitInv, LimitTypeOK, Staged, Amounts
<1> USE DEF LoosenedRightly
<1>1. CASE limit' = limit
  BY <1>0, <1>1
<1>2. ASSUME NEW t \in Tabs, CancelPending(t) PROVE LoosenedRightly
  <2>1. limit.amount \in Amounts /\ limit # NoRow /\ limit' = Fixed(limit.amount)
    BY <1>0, <1>2, InForceType DEF CancelPending, Written
  <2>2. limit.amount <= InForce(limit)
    BY <1>0, <2>1, InForceType DEF InForce
  <2> QED BY <1>0, <2>1, <2>2, FixedRow DEF Amounts
<1>3. ASSUME NEW t \in Tabs, WriteSet(t) PROVE LoosenedRightly
  <2>1. tab[t].seen \in Rows /\ tab[t].to \in Amounts
    BY <1>0, <1>3 DEF WriteSet, TabTasks
  <2>2. CASE tab[t].seen = limit
    <3>1. limit' = LimitSet(limit, tab[t].to)
      BY <1>3, <2>2 DEF WriteSet, Written
    <3>2. InForce(limit') <= InForce(limit) /\ InForce(limit') \in Nat
      BY <1>0, <2>1, <3>1, LimitSetRow, InForceType DEF Amounts
    <3> QED BY <1>0, <3>2
  <2>3. CASE tab[t].seen # limit
    <3>1. tab'[t].op = "idle"
      BY <1>0, <1>3 DEF WriteSet, Written, Watched, TabIdle
    <3> QED BY <1>3, <2>3, <3>1 DEF StaleWrite, WriteSet
  <2> QED BY <2>2, <2>3
<1>4. ASSUME NEW t \in Tabs, WriteRemoval(t) PROVE LoosenedRightly
  <2>1. tab[t].seen \in Rows /\ InForce(tab[t].seen) \in Amounts
    BY <1>0, <1>4 DEF WriteRemoval, TabTasks, LimitInv, Removing
  <2>2. CASE tab[t].seen = limit
    <3>1. limit' = [amount |-> InForce(limit), pending |-> 0, removal |-> TRUE,
                    staged |-> "waiting"]
      BY <1>4, <2>2 DEF WriteRemoval, Written
    <3>2. InForce(limit') = InForce(limit)
      BY <2>1, <2>2, <3>1, RemovalRow
    <3> QED BY <1>0, <3>2
  <2>3. CASE tab[t].seen # limit
    <3>1. tab'[t].op = "idle"
      BY <1>0, <1>4 DEF WriteRemoval, Written, Watched, TabIdle
    <3> QED BY <1>4, <2>3, <3>1 DEF StaleWrite, WriteRemoval
  <2> QED BY <2>2, <2>3
<1>5. CASE Mature
  BY <1>5 DEF Mature
<1>6. CASE DeleteRemoved
  <2>1. CASE limit' # limit
    <3>1. limit' = NoRow /\ limit.removal /\ limit.staged = "matured"
      BY <1>6, <2>1 DEF DeleteRemoved, TidyMatured
    <3>2. InForce(limit) = NoLimit /\ InForce(limit') = NoLimit
      BY <3>1, NoRowType DEF InForce
    <3> QED BY <1>0, <3>2
  <2> QED BY <1>1, <2>1
<1>7. CASE FoldIncrease
  <2>1. CASE limit' # limit
    <3>1. /\ limit' = Fixed(tidy.amount) /\ limit.pending # 0 /\ TidyMatured
          /\ tidy.amount = limit.pending /\ tidy.amount \in Amounts
      BY <1>7, <2>1 DEF FoldIncrease, LimitInv, Found
    <3>2. InForce(limit) = limit.pending
      BY <1>0, <3>1 DEF InForce, TidyMatured, NoRow
    <3>3. InForce(limit') = limit.pending
      BY <3>1, FixedRow
    <3> QED BY <1>0, <3>2, <3>3
  <2> QED BY <1>1, <2>1
<1> QED
  BY <1>1, <1>2, <1>3, <1>4, <1>5, <1>6, <1>7
     DEF LimitNext, AskSet, AskRemove, CheckDeposit, Ask, RequestFails, CreateDeposit,
         DropDeposit, SettleDeposit, LeaveWindow, FindMatured

\* The step of [OvershootIsBounded].
RecordedRightly ==
  \A t \in Tabs : Recorded(t) => Usage' <= tab[t].under + tab[t].crowd - 1

LEMMA NotOverLimit ==
  ASSUME LimitInv, LimitNext
  PROVE  RecordedRightly
<1> SUFFICES ASSUME NEW t \in Tabs, Recorded(t)
             PROVE  Usage' <= tab[t].under + tab[t].crowd - 1
  BY DEF RecordedRightly
<1>0. /\ tab \in [Tabs -> TabTasks] /\ deposits \in [pending : Nat, completed : Nat]
      /\ Usage \in Nat /\ tab[t].op = "deposit" /\ deposits'.pending > deposits.pending
  BY DEF LimitInv, LimitTypeOK, Usage, Recorded
<1>1. tab[t].under \in Nat /\ tab[t].crowd \in Nat
  BY <1>0, LimitAssumption DEF TabTasks, Amounts, NoLimit
<1>2. InFlight(tab) \in Nat /\ InFlight(tab) > 0
  BY <1>0, FlightCounted
<1>3. Usage + InFlight(tab) <= tab[t].under + tab[t].crowd - 1
  BY <1>0 DEF LimitInv, Fits
<1>4. ~SettleDeposit /\ ~LeaveWindow
  BY <1>0 DEF SettleDeposit, LeaveWindow
<1>5. PICK u \in Tabs : CreateDeposit(u)
  <2>1. deposits' # deposits
    BY <1>0
  <2> QED BY <2>1, <1>4
     DEF LimitNext, AskSet, AskRemove, CheckDeposit, Ask, CancelPending, WriteSet,
         WriteRemoval, Written, RequestFails, DropDeposit, Mature, DeleteRemoved,
         FindMatured, FoldIncrease
<1>6. Usage' = Usage + 1
  BY <1>0, <1>5 DEF CreateDeposit, Usage
<1> QED BY <1>0, <1>1, <1>2, <1>3, <1>6

\* Only the staged day loosens a limit, the worker and the requests aside that
\* write over a row replaced since they read it (service.ts:141-142, :234-235).
THEOREM LimitHoldsForTheDay == LimitSpec => LoosensOnlyAfterDelay
<1>1. LimitInv /\ [LimitNext]_limitVars => [LoosenedRightly]_limitVars
  BY NotLoosened
<1>2. LoosenedRightly <=> (InForce(limit') > InForce(limit) =>
       (limit.staged = "waiting" /\ limit' = [limit EXCEPT !.staged = "matured"])
         \/ \E t \in Tabs : StaleWrite(t))
  BY DEF LoosenedRightly
<1> QED BY <1>1, <1>2, LimitInductive, PTL DEF LimitSpec, LoosensOnlyAfterDelay

\* The deposits recorded pass the highest limit in force since the check by at
\* most one for each other deposit in flight at once with the one recorded, for
\* any limits and any number of requests (policy.ts:64-83, deposit/route.ts:53,
\* :102).
THEOREM OvershootBounded == LimitSpec => OvershootIsBounded
<1>1. LimitInv /\ [LimitNext]_limitVars => [RecordedRightly]_limitVars
  BY NotOverLimit
<1>2. RecordedRightly <=>
        \A t \in Tabs : Recorded(t) => Usage' <= tab[t].under + tab[t].crowd - 1
  BY DEF RecordedRightly
<1> QED BY <1>1, <1>2, LimitInductive, PTL DEF LimitSpec, OvershootIsBounded

(***************************************************************************)
(* The prices, and the six parts in one behaviour, of which one moves.     *)
(***************************************************************************)
PriceSpec == PriceInit /\ [][RaiseStake]_priceVars

\* The stake is a whole number of pence, under percentages the columns hold.
LEMMA PricesTyped == PriceSpec => []PriceTypeOK
<1>1. PriceInit => PriceTypeOK
  BY PercentagesAssumption DEF PriceInit, PriceTypeOK
<1>2. PriceTypeOK /\ [RaiseStake]_priceVars => PriceTypeOK'
  BY PercentagesAssumption DEF PriceTypeOK, RaiseStake, priceVars
<1> QED
  BY <1>1, <1>2, PTL DEF PriceSpec

\* Each part behaves as it does alone, so what is proved of it holds here.
LEMMA PartsAsAlone ==
  Spec => MailSpec /\ HookSpec /\ LimitSpec /\ IdentitySpec /\ TrailSpec /\ PriceSpec
<1>1. Init => MailInit /\ HookInit /\ LimitInit /\ IdentityInit /\ TrailInit /\ PriceInit
  BY DEF Init
<1>2. [Next]_vars => /\ [MailNext]_mailVars /\ [HookNext]_hookVars /\ [LimitNext]_limitVars
                     /\ [IdentityNext]_identityVars /\ [TrailNext]_trailVars
                     /\ [RaiseStake]_priceVars
  BY DEF Next, vars
<1> QED
  BY <1>1, <1>2, PTL
     DEF Spec, MailSpec, HookSpec, LimitSpec, IdentitySpec, TrailSpec, PriceSpec

\* Every variable of the six parts has its type, in every reachable state.
THEOREM BackgroundTyped == Spec => []TypeOK
<1>1. MailSpec => []MailTypeOK
  <2>1. MailInv => MailTypeOK
    BY DEF MailInv
  <2> QED BY <2>1, MailInitially, MailStepKeeps, PTL DEF MailSpec
<1>2. HookSpec => []HookTypeOK
  <2>1. HookInv => HookTypeOK
    BY DEF HookInv
  <2> QED BY <2>1, HookInitially, HookStepKeeps, PTL DEF HookSpec
<1>3. LimitSpec => []LimitTypeOK
  <2>1. LimitInv => LimitTypeOK
    BY DEF LimitInv
  <2> QED BY <2>1, LimitInductive, PTL
<1>4. IdentitySpec => []IdentityTypeOK
  <2>1. IdentityInv => IdentityTypeOK
    BY DEF IdentityInv
  <2> QED BY <2>1, IdentityInductive, PTL
<1>5. MailTypeOK /\ HookTypeOK /\ LimitTypeOK /\ IdentityTypeOK /\ TrailTypeOK /\ PriceTypeOK
        => TypeOK
  BY DEF TypeOK
<1> QED
  BY <1>1, <1>2, <1>3, <1>4, <1>5, TrailTyped, PricesTyped, PartsAsAlone, PTL

\* Settlement comes out even and goes through at every stake and percentage:
\* fee and shares are the pot, the fee covers what is paid out of it, and under
\* a fee of a quarter no release is refused (settlement.worker.ts).
THEOREM SettlementDividesPot == Spec => []PotDivides
<1>1. ASSUME PriceTypeOK PROVE PotDivides
  <2>1. /\ stake \in Nat \ {0} /\ feeBp \in TenThousandths
        /\ rewardBp \in TenThousandths /\ revBp \in TenThousandths
    BY <1>1, PercentagesAssumption DEF PriceTypeOK
  <2> SUFFICES ASSUME NEW result \in Outcomes
               PROVE  LET toA == ShareA(result, stake, feeBp)
                          toB == ShareB(result, stake, feeBp)
                          fee == Fee(stake, feeBp)
                      IN  /\ toA >= 0 /\ toB >= 0
                          /\ fee + toA + toB = Pot(stake)
                          /\ result = "PLAYER_A_WIN" => toB = 0
                          /\ result = "PLAYER_B_WIN" => toA = 0
                          /\ result = "DRAW" => toA - toB \in {0, 1}
                          /\ RefereeFee(stake, feeBp, rewardBp)
                                + DevShare(stake, feeBp, rewardBp, revBp) <= fee
                          /\ feeBp < 2500 => Releasable(result, stake, feeBp)
    BY DEF PotDivides
  <2> DEFINE toA == ShareA(result, stake, feeBp)
             toB == ShareB(result, stake, feeBp)
             fee == Fee(stake, feeBp)
             w == Winnings(stake, feeBp)
             pot == Pot(stake)
  <2>2. toA \in Nat /\ toB \in Nat /\ toA + toB + fee = pot
    BY <2>1, SharesDividePot
  <2>3. fee \in Nat /\ w \in Nat
    BY <2>1, FeeBounds
  <2>4. result = "PLAYER_A_WIN" => toB = 0
    BY <2>3 DEF ShareA, ShareB
  <2>5. result = "PLAYER_B_WIN" => toA = 0
    BY DEF ShareA
  <2>6. result = "DRAW" => toA - toB \in {0, 1}
    <3>1. result = "DRAW" => toA = (w + 1) \div 2 /\ toB = w - ((w + 1) \div 2)
      BY DEF ShareA, ShareB, DrawShareA
    <3> HIDE DEF toA, toB, w
    <3> QED BY <2>3, <3>1
  <2>7. RefereeFee(stake, feeBp, rewardBp) + DevShare(stake, feeBp, rewardBp, revBp) <= fee
    BY <2>1, FeeCoversShares
  <2>8. feeBp < 2500 => Releasable(result, stake, feeBp)
    BY <2>1, SmallFeePayable
  <2>9. toA >= 0 /\ toB >= 0 /\ fee + toA + toB = pot
    <3> HIDE DEF toA, toB, fee, pot
    <3> QED BY <2>2, <2>3
  <2> QED BY <2>4, <2>5, <2>6, <2>7, <2>8, <2>9
<1> QED
  BY <1>1, PricesTyped, PartsAsAlone, PTL

\* Whatever the stake and the fee, a winner is paid the quote they staked on
\* and a draw never less, although the two are computed apart.
THEOREM QuotesArePaid == Spec => []QuoteIsPaid
<1>1. ASSUME PriceTypeOK PROVE QuoteIsPaid
  <2> DEFINE fee == Fee(stake, feeBp)
             w == Winnings(stake, feeBp)
             quote == Quote(stake, feeBp)
  <2>1. stake \in Nat \ {0} /\ feeBp \in TenThousandths
    BY <1>1, PercentagesAssumption DEF PriceTypeOK
  <2>2. fee \in Nat /\ w \in Nat /\ w = Pot(stake) - fee
    BY <2>1, FeeBounds DEF Winnings
  <2>3. quote = [fee |-> fee, win |-> w, drawEach |-> w \div 2]
    BY DEF Quote, Fee, Winnings, Pot
  <2>4. ShareA("PLAYER_A_WIN", stake, feeBp) = w /\ ShareB("PLAYER_B_WIN", stake, feeBp) = w
    BY <2>2 DEF ShareA, ShareB
  <2>5. /\ ShareA("DRAW", stake, feeBp) = (w + 1) \div 2
        /\ ShareB("DRAW", stake, feeBp) = w - ((w + 1) \div 2)
    BY DEF ShareA, ShareB, DrawShareA
  <2> HIDE DEF fee, w
  <2>6. (w + 1) \div 2 \in {w \div 2, (w \div 2) + 1} /\ w - ((w + 1) \div 2) = w \div 2
    BY <2>2
  <2>7. quote.fee = fee /\ quote.win = w /\ quote.drawEach = w \div 2
    BY <2>3
  <2> HIDE DEF quote
  <2> QED BY <2>4, <2>5, <2>6, <2>7 DEF QuoteIsPaid, quote, fee
<1> QED
  BY <1>1, PricesTyped, PartsAsAlone, PTL

===============================================================================

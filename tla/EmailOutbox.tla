---------------------------- MODULE EmailOutbox ----------------------------
(***************************************************************************)
(* The email outbox: src/lib/email/outbox.ts and the email-delivery worker.*)
(*                                                                         *)
(* A row is written once per dedupe key.  Every 15 seconds an instance of  *)
(* the worker reads the rows that are due, claims each with a guarded      *)
(* update that already says SENT, hands it to the provider and takes the   *)
(* claim back when the provider's call fails.  Claim, call and take-back   *)
(* are separate statements: another instance, or a crash, may come between.*)
(***************************************************************************)
EXTENDS Naturals, FiniteSets

CONSTANTS
  Emails,            \* the dedupe keys
  Mailers,           \* the running instances of the worker
  MaxEmailAttempts   \* MAX_EMAIL_ATTEMPTS

ASSUME MailAssumption == MaxEmailAttempts \in Nat \ {0}

VARIABLES
  outbox,    \* Emails -> the row, status "NONE" before it is written
  mailer,    \* Mailers -> what the instance has in memory
  accepted,  \* external: the keys the provider has taken
  lostMail   \* history: the keys an instance held when it stopped

mailVars == <<outbox, mailer, accepted, lostMail>>

MailStatuses == {"NONE", "PENDING", "SENT", "FAILED"}
MailIdle == [at |-> "idle", todo |-> {}]
MailTasks ==
  [at : {"idle", "next"}, todo : SUBSET Emails]
    \cup [at : {"send", "failed"}, todo : SUBSET Emails,
          row : Emails, attempts : Nat]

MailTypeOK ==
  /\ outbox \in [Emails -> [status : MailStatuses, attempts : Nat, due : BOOLEAN]]
  /\ mailer \in [Mailers -> MailTasks]
  /\ accepted \subseteq Emails
  /\ lostMail \subseteq Emails

MailInit ==
  /\ outbox = [e \in Emails |-> [status |-> "NONE", attempts |-> 0, due |-> FALSE]]
  /\ mailer = [w \in Mailers |-> MailIdle]
  /\ accepted = {}
  /\ lostMail = {}

(***************************************************************************)
(* The writers.  A key already in the table is ignored (P2002).            *)
(***************************************************************************)
QueueEmail(e) ==
  /\ outbox[e].status = "NONE"
  /\ outbox' = [outbox EXCEPT ![e] = [status |-> "PENDING", attempts |-> 0, due |-> TRUE]]
  /\ UNCHANGED <<mailer, accepted, lostMail>>

\* nextAttemptAt passes.
BackoffEnds(e) ==
  /\ outbox[e].status = "PENDING" /\ ~outbox[e].due
  /\ outbox' = [outbox EXCEPT ![e].due = TRUE]
  /\ UNCHANGED <<mailer, accepted, lostMail>>

(***************************************************************************)
(* One flush.                                                              *)
(***************************************************************************)
Due == {e \in Emails : outbox[e].status = "PENDING" /\ outbox[e].due}

FindDue(w) ==
  /\ mailer[w].at = "idle" /\ Due # {}
  /\ mailer' = [mailer EXCEPT ![w] = [at |-> "next", todo |-> Due]]
  /\ UNCHANGED <<outbox, accepted, lostMail>>

Rest(w, e) ==
  IF mailer[w].todo = {e} THEN MailIdle
  ELSE [at |-> "next", todo |-> mailer[w].todo \ {e}]

\* The slip of a claim that updates the row whatever its status.
MutantClaim(w, e) ==
  /\ mailer[w].at = "next" /\ e \in mailer[w].todo
  /\ outbox' = [outbox EXCEPT ![e].status = "SENT", ![e].attempts = @ + 1]
  /\ mailer' = [mailer EXCEPT ![w] =
                  [at |-> "send", todo |-> mailer[w].todo,
                   row |-> e, attempts |-> outbox[e].attempts + 1]]
  /\ UNCHANGED <<accepted, lostMail>>

\* The claim: PENDING -> SENT, or the row is skipped.
Claim(w, e) ==
  /\ mailer[w].at = "next" /\ e \in mailer[w].todo
  /\ IF outbox[e].status = "PENDING"
     THEN /\ outbox' = [outbox EXCEPT ![e].status = "SENT",
                                      ![e].attempts = @ + 1]
          /\ mailer' = [mailer EXCEPT ![w] =
                          [at |-> "send", todo |-> mailer[w].todo,
                           row |-> e, attempts |-> outbox[e].attempts + 1]]
     ELSE /\ mailer' = [mailer EXCEPT ![w] = Rest(w, e)]
          /\ UNCHANGED outbox
  /\ UNCHANGED <<accepted, lostMail>>

\* The provider's call: taken and answered, taken but the answer lost, or
\* refused.  The dedupe key is the provider's idempotency key.
Deliver(w) ==
  /\ mailer[w].at = "send"
  /\ \/ /\ accepted' = accepted \cup {mailer[w].row}
        /\ mailer' = [mailer EXCEPT ![w] = Rest(w, mailer[w].row)]
     \/ /\ accepted' \in {accepted, accepted \cup {mailer[w].row}}
        /\ mailer' = [mailer EXCEPT ![w].at = "failed"]
  /\ UNCHANGED <<outbox, lostMail>>

\* The take-back is an unguarded update by id.
TakeBack(w) ==
  /\ mailer[w].at = "failed"
  /\ outbox' = [outbox EXCEPT ![mailer[w].row].status =
                  IF mailer[w].attempts >= MaxEmailAttempts THEN "FAILED" ELSE "PENDING",
                                        ![mailer[w].row].due = FALSE]
  /\ mailer' = [mailer EXCEPT ![w] = Rest(w, mailer[w].row)]
  /\ UNCHANGED <<accepted, lostMail>>

\* The process stops, or a statement of the flush throws.
MailerStops(w) ==
  /\ mailer[w].at # "idle"
  /\ lostMail' = IF mailer[w].at = "next" THEN lostMail ELSE lostMail \cup {mailer[w].row}
  /\ mailer' = [mailer EXCEPT ![w] = MailIdle]
  /\ UNCHANGED <<outbox, accepted>>

MailNext ==
  \/ \E e \in Emails : QueueEmail(e) \/ BackoffEnds(e)
  \/ \E w \in Mailers : FindDue(w) \/ Deliver(w) \/ TakeBack(w) \/ MailerStops(w)
  \/ \E w \in Mailers, e \in Emails : Claim(w, e)

MailSpec == MailInit /\ [][MailNext]_mailVars

(***************************************************************************)
(* The property.                                                           *)
(***************************************************************************)

\* The rows instance w has claimed and not yet settled.
HeldBy(w) ==
  IF mailer[w].at \in {"send", "failed"} THEN {mailer[w].row} ELSE {}

\* What a row says is true of the provider: two instances never work on the
\* same email (outbox.ts:186-187); a claimed row says SENT; a row that says
\* SENT was taken by the provider, or is being sent, or was lost with the
\* instance that had claimed it; a FAILED row had all its attempts.
OutboxTellsTruth ==
  /\ \A v, w \in Mailers : v # w => HeldBy(v) \cap HeldBy(w) = {}
  /\ \A w \in Mailers : \A e \in HeldBy(w) : outbox[e].status = "SENT"
  /\ \A e \in Emails :
       /\ outbox[e].status = "SENT" =>
            e \in accepted \cup lostMail \/ \E w \in Mailers : e \in HeldBy(w)
       /\ outbox[e].status = "FAILED" => outbox[e].attempts >= MaxEmailAttempts

============================================================================

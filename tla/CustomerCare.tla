---------------------------- MODULE CustomerCare ----------------------------
(***************************************************************************)
(* Identify, act, evaluate: a marker of harm is raised and its message put *)
(* before the customer (src/lib/responsible-play/risk.ts), customer and    *)
(* staff act on it, and what came of each interaction is settled when its  *)
(* follow-up date has passed (interaction.ts).                             *)
(*                                                                         *)
(* One customer, one marker, one deposit limit.  Every statement commits   *)
(* on its own: nothing here runs in a transaction.                         *)
(***************************************************************************)
EXTENDS Integers, Sequences

CONSTANTS
  Amounts,      \* deposit limits, in some unit
  Window,       \* EVALUATION_WINDOW_MS, in days
  FollowUps,    \* followUpDays: when a contact by staff may be evaluated
  Cooldown,     \* how long a marker is not raised again, in days
  MaxTalks,     \* bound on interactions
  MaxActions,   \* bound on what staff do
  MaxJobCrashes,   \* bound on crashes of the anomaly-detection job
  LastDay       \* bound on the clock

ASSUME CareAssumption ==
  /\ Amounts \subseteq Nat \ {0} /\ Amounts # {}
  /\ Window \in Nat \ {0} /\ Cooldown \in Nat \ {0} /\ FollowUps \subseteq Nat \ {0}
  /\ MaxTalks \in Nat /\ MaxActions \in Nat /\ MaxJobCrashes \in Nat /\ LastDay \in Nat

VARIABLES
  raised,     \* the days signals were raised on
  talks,      \* the rows of customer_interactions, in order
  alerts,     \* the admin alerts queued, by key
  limit,      \* the customer's deposit limit and a staged raise; 0 is none
  detector,   \* the job raising a signal
  evaluator,  \* the job settling interactions
  staff,      \* a request of staff
  audits,     \* how many staff requests are in the audit log
  today, jobCrashes, acts

careVars ==
  <<raised, talks, alerts, limit, detector, evaluator, staff, audits, today, jobCrashes, acts>>

Deeds == {"break", "limit"} \X {"customer", "staff"}
Settled == {"setLimit", "tookBreak", "improved", "unchanged", "escalated", "noResponse"}
Unsettled == {"pending", "acknowledged"}
NoDate == -1                 \* followUpAt NULL: never evaluated
TalkKinds == {"message", "contact", "limitApplied", "coolOffApplied"}

\* "since" is what was done after the row was written: createdAt compared
\* with the dates of the customer's breaks and limit.
TalkRecords ==
  [kind : TalkKinds, due : Nat \cup {NoDate}, outcome : Settled \cup Unsettled, ack : BOOLEAN,
   since : SUBSET Deeds]

StaffIdle == [at |-> "idle", kind |-> "contact"]

CareTypeOK ==
  /\ raised \subseteq 0 .. LastDay
  /\ Len(talks) <= MaxTalks /\ \A i \in DOMAIN talks : talks[i] \in TalkRecords
  /\ alerts \subseteq ({"risk"} \X (0 .. LastDay)) \cup ({"unchanged"} \X (1 .. MaxTalks))
  /\ limit \in [amount : Amounts \cup {0}, staged : Amounts \cup {0}]
  /\ detector \in {"idle", "prompt", "alert"}
  /\ evaluator \in [at : {"idle", "read", "write", "alert"}, todo : SUBSET (1 .. MaxTalks),
                    id : 0 .. MaxTalks, outcome : Settled]
  /\ staff \in [at : {"idle", "talk", "audit"}, kind : TalkKinds]
  /\ audits \in 0 .. MaxActions
  /\ today \in 0 .. LastDay
  /\ jobCrashes \in 0 .. MaxJobCrashes
  /\ acts \in 0 .. MaxActions

CareInit ==
  /\ raised = {} /\ talks = <<>> /\ alerts = {}
  /\ limit \in [amount : Amounts \cup {0}, staged : {0}]
  /\ detector = "idle"
  /\ evaluator = [at |-> "idle", todo |-> {}, id |-> 0, outcome |-> "unchanged"]
  /\ staff = StaffIdle
  /\ audits = 0 /\ today = 0 /\ jobCrashes = 0 /\ acts = 0

NewTalk(kind, due) ==
  Append(talks, [kind |-> kind, due |-> due, outcome |-> "pending",
                 ack |-> FALSE, since |-> {}])

After(deed) == [i \in DOMAIN talks |-> [talks[i] EXCEPT !.since = @ \cup {deed}]]

(***************************************************************************)
(* raise: the signal, the customer's message and the alert to staff.  One  *)
(* job raises signals and then evaluates: one at a time.                   *)
(***************************************************************************)
RaiseSignal ==
  /\ detector = "idle" /\ evaluator.at = "idle" /\ Len(talks) < MaxTalks
  /\ \A d \in raised : d + Cooldown < today         \* recentlySignalled
  /\ raised' = raised \cup {today}
  /\ detector' = "prompt"
  /\ UNCHANGED <<talks, alerts, limit, evaluator, staff, audits, today, jobCrashes, acts>>

StartAutomatedInteraction ==
  /\ detector = "prompt"
  /\ talks' = IF Len(talks) < MaxTalks THEN NewTalk("message", today + Window) ELSE talks
  /\ detector' = "alert"
  /\ UNCHANGED <<raised, alerts, limit, evaluator, staff, audits, today, jobCrashes, acts>>

AlertSignal ==
  /\ detector = "alert"
  /\ alerts' = alerts \cup {<<"risk", today>>}
  /\ detector' = "idle"
  /\ UNCHANGED <<raised, talks, limit, evaluator, staff, audits, today, jobCrashes, acts>>

\* The job's process dies: both scans run in it.
JobCrashes ==
  /\ jobCrashes < MaxJobCrashes
  /\ detector # "idle" \/ evaluator.at # "idle"
  /\ jobCrashes' = jobCrashes + 1
  /\ detector' = "idle"
  /\ evaluator' = [evaluator EXCEPT !.at = "idle", !.todo = {}, !.id = 0]
  /\ UNCHANGED <<raised, talks, alerts, limit, staff, audits, today, acts>>

(***************************************************************************)
(* The customer: respondToPrompt, a break or a limit of their own.         *)
(***************************************************************************)
\* The customer's answer is kept as the outcome.
MutantRespondToPrompt(i) ==
  /\ i \in DOMAIN talks /\ talks[i].kind = "message" /\ ~talks[i].ack
  /\ talks' = [talks EXCEPT ![i].ack = TRUE, ![i].outcome = "ok"]
  /\ UNCHANGED <<raised, alerts, limit, detector, evaluator, staff, audits, today, jobCrashes, acts>>

RespondToPrompt(i) ==
  /\ i \in DOMAIN talks /\ talks[i].kind = "message" /\ ~talks[i].ack
  /\ talks' = [talks EXCEPT ![i].ack = TRUE, ![i].outcome = "acknowledged"]
  /\ UNCHANGED <<raised, alerts, limit, detector, evaluator, staff, audits, today, jobCrashes, acts>>

CustomerActs ==
  /\ \E what \in {"break", "limit"} : talks' = After(<<what, "customer">>)
  /\ talks' # talks
  /\ UNCHANGED <<raised, alerts, limit, detector, evaluator, staff, audits, today, jobCrashes, acts>>

(***************************************************************************)
(* actOnSignal: the change, the interaction and the audit record, each     *)
(* committed alone.                                                        *)
(***************************************************************************)
CanAct == staff.at = "idle" /\ raised # {} /\ acts < MaxActions /\ Len(talks) < MaxTalks

\* A note has no follow-up date, an email or a call the one staff chose.
ContactCustomer ==
  /\ CanAct /\ acts' = acts + 1
  /\ \E due \in {NoDate} \cup {today + days : days \in FollowUps} :
       talks' = NewTalk("contact", due)
  /\ staff' = [at |-> "audit", kind |-> "contact"]
  /\ UNCHANGED <<raised, alerts, limit, detector, evaluator, audits, today, jobCrashes>>

ApplyCoolOff ==
  /\ CanAct /\ acts' = acts + 1
  /\ talks' = After(<<"break", "staff">>)
  /\ staff' = [at |-> "talk", kind |-> "coolOffApplied"]
  /\ UNCHANGED <<raised, alerts, limit, detector, evaluator, audits, today, jobCrashes>>

\* setDepositLimit: a lower or a first limit holds at once, a higher one is
\* staged; the request is refused after that.
ApplyLimit ==
  /\ CanAct /\ acts' = acts + 1
  /\ talks' = After(<<"limit", "staff">>)
  /\ \E amount \in Amounts :
       IF limit.amount = 0 \/ amount <= limit.amount
         THEN /\ limit' = [amount |-> amount, staged |-> 0]
              /\ staff' = [at |-> "talk", kind |-> "limitApplied"]
         ELSE /\ limit' = [limit EXCEPT !.staged = amount]
              /\ UNCHANGED staff
  /\ UNCHANGED <<raised, alerts, detector, evaluator, audits, today, jobCrashes>>

RecordTalk ==
  /\ staff.at = "talk"
  /\ talks' = IF Len(talks) < MaxTalks THEN NewTalk(staff.kind, today + Window) ELSE talks
  /\ staff' = [staff EXCEPT !.at = "audit"]
  /\ UNCHANGED <<raised, alerts, limit, detector, evaluator, audits, today, jobCrashes, acts>>

RecordOutcome ==
  /\ staff.at = "idle" /\ acts < MaxActions /\ acts' = acts + 1
  /\ \E i \in DOMAIN talks, outcome \in Settled \cup Unsettled :
       talks' = [talks EXCEPT ![i].outcome = outcome]
  /\ staff' = [at |-> "audit", kind |-> "contact"]
  /\ UNCHANGED <<raised, alerts, limit, detector, evaluator, audits, today, jobCrashes>>

AuditAction ==
  /\ staff.at = "audit"
  /\ audits' = audits + 1
  /\ staff' = StaffIdle
  /\ UNCHANGED <<raised, talks, alerts, limit, detector, evaluator, today, jobCrashes, acts>>

(***************************************************************************)
(* evaluateDueInteractions, one row after the other.                       *)
(***************************************************************************)
\* A message the customer answered is taken for settled.
MutantDue == {i \in DOMAIN talks : talks[i].due \in 0 .. today /\ talks[i].outcome = "pending"}

Due == {i \in DOMAIN talks : talks[i].due \in 0 .. today /\ talks[i].outcome \in Unsettled}

FindDue ==
  /\ detector = "idle" /\ evaluator.at = "idle" /\ Due # {}
  /\ evaluator' = [evaluator EXCEPT !.at = "read", !.todo = Due]
  /\ UNCHANGED <<raised, talks, alerts, limit, detector, staff, audits, today, jobCrashes, acts>>

\* What the customer spent before and after is a choice.
ReadBehaviour ==
  /\ evaluator.at = "read"
  /\ \E i \in evaluator.todo :
     \E outcome \in IF \E who \in {"customer", "staff"} : <<"break", who>> \in talks[i].since
                      THEN {"tookBreak"}
                    ELSE IF \E who \in {"customer", "staff"} : <<"limit", who>> \in talks[i].since
                      THEN {"setLimit"}
                    ELSE {"improved", "unchanged"} :
       evaluator' = [at |-> "write", todo |-> evaluator.todo \ {i}, id |-> i, outcome |-> outcome]
  /\ UNCHANGED <<raised, talks, alerts, limit, detector, staff, audits, today, jobCrashes, acts>>

NextOf(todo) == IF todo = {} THEN "idle" ELSE "read"

WriteOutcome ==
  /\ evaluator.at = "write"
  /\ talks' = [talks EXCEPT ![evaluator.id].outcome = evaluator.outcome]
  /\ evaluator' = [evaluator EXCEPT
       !.at = IF evaluator.outcome = "unchanged" THEN "alert" ELSE NextOf(evaluator.todo)]
  /\ UNCHANGED <<raised, alerts, limit, detector, staff, audits, today, jobCrashes, acts>>

AlertUnchanged ==
  /\ evaluator.at = "alert"
  /\ alerts' = alerts \cup {<<"unchanged", evaluator.id>>}
  /\ evaluator' = [evaluator EXCEPT !.at = NextOf(evaluator.todo)]
  /\ UNCHANGED <<raised, talks, limit, detector, staff, audits, today, jobCrashes, acts>>

Tomorrow ==
  /\ today < LastDay
  /\ detector = "idle" /\ evaluator.at = "idle" /\ staff.at = "idle"
  /\ today' = today + 1
  /\ UNCHANGED <<raised, talks, alerts, limit, detector, evaluator, staff, audits, jobCrashes, acts>>

Detector == StartAutomatedInteraction \/ AlertSignal
Evaluator == FindDue \/ ReadBehaviour \/ WriteOutcome \/ AlertUnchanged
Staff == ContactCustomer \/ ApplyCoolOff \/ ApplyLimit \/ RecordTalk \/ RecordOutcome

CareNext ==
  \/ RaiseSignal \/ Detector \/ Evaluator \/ JobCrashes
  \/ CustomerActs \/ \E i \in 1 .. MaxTalks : RespondToPrompt(i)
  \/ Staff \/ AuditAction
  \/ Tomorrow

\* The jobs run again after a crash, a request ends, days pass.
CareFairness ==
  /\ WF_careVars(Detector) /\ WF_careVars(Evaluator)
  /\ WF_careVars(RecordTalk \/ AuditAction)
  /\ WF_careVars(Tomorrow)

CareSpec == CareInit /\ [][CareNext]_careVars
FairCareSpec == CareSpec /\ CareFairness

(***************************************************************************)
(* Properties.                                                             *)
(***************************************************************************)
Unevaluated ==
  {i \in DOMAIN talks : talks[i].due \in 0 .. today /\ talks[i].outcome \in Unsettled}

\* What came of every interaction is settled once its follow-up date has
\* passed, though the customer may answer its message after the evaluation
\* and undo it, and a crash may cut the batch short.
\* (evaluateDueInteractions, respondToPrompt)
DueIsSettled == (Unevaluated # {}) ~> (Unevaluated = {})
=============================================================================

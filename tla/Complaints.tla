----------------------------- MODULE Complaints -----------------------------
(***************************************************************************)
(* One complaint: filed and acknowledged, worked on by staff until its     *)
(* final response (src/lib/complaints/service.ts), and watched by the scan *)
(* of the dispute escalation worker for its eight-week deadline.           *)
(*                                                                         *)
(* Staff load the complaint first and act in a Serializable transaction    *)
(* after it: a transaction is one step here, but what it was allowed on    *)
(* may be old.  A mail is queued under a key; a second row under the same  *)
(* key is refused by Postgres, which ends the transaction it happens in.   *)
(***************************************************************************)
EXTENDS Integers, FiniteSets

CONSTANTS
  Handlers,     \* staff acting on the complaint at a time
  Verdicts,     \* ComplaintOutcome
  WarningWeek,  \* the week the deadline is two weeks away
  DueWeek,      \* FINAL_RESPONSE_WINDOW_MS
  LastWeek      \* bound on the clock

ASSUME ComplaintAssumption ==
  /\ WarningWeek \in Nat /\ DueWeek \in Nat /\ LastWeek \in Nat
  /\ WarningWeek < DueWeek /\ DueWeek <= LastWeek
  /\ Verdicts \cap {"none", "idle", "received", "acknowledged", "update", "note", "message",
                    "investigating", "awaiting", "dueSoon", "overdue"} = {}

VARIABLES
  complaint,   \* the row
  timeline,    \* the kinds of its events
  letters,     \* the mails queued: to the customer and to staff
  audited,     \* the staff actions in the audit log
  handler,     \* Handlers -> a request between its load and its transaction
  warning,     \* the scan's finding, on its way to a mail
  week

complaintVars == <<complaint, timeline, letters, audited, handler, warning, week>>

NoVerdict == "none"
Statuses == {"open", "investigating", "awaiting", "final"}
Kinds == {"note", "message", "investigating", "awaiting"} \cup Verdicts
Stages == {"dueSoon", "overdue"}

ComplaintTypeOK ==
  /\ complaint \in [status : Statuses \cup {"none"}, verdict : Verdicts \cup {NoVerdict}]
  /\ timeline \subseteq Kinds \cup {"received", "acknowledged"}
  /\ letters \subseteq {"received", "update"} \cup Stages \cup Verdicts
  /\ audited \subseteq Kinds
  /\ handler \in [Handlers -> {"idle"} \cup Kinds]
  /\ warning \in {"none"} \cup Stages
  /\ week \in 0 .. LastWeek

ComplaintInit ==
  /\ complaint = [status |-> "none", verdict |-> NoVerdict]
  /\ timeline = {} /\ letters = {} /\ audited = {}
  /\ handler = [h \in Handlers |-> "idle"]
  /\ warning = "none"
  /\ week = 0

\* fileComplaint: the row, its two events and the acknowledgement, together.
FileComplaint ==
  /\ complaint.status = "none"
  /\ complaint' = [complaint EXCEPT !.status = "open"]
  /\ timeline' = {"received", "acknowledged"}
  /\ letters' = {"received"}
  /\ UNCHANGED <<audited, handler, warning, week>>

\* loadOpenComplaint, for any of the actions staff may take.
LoadComplaint(h) ==
  /\ handler[h] = "idle"
  /\ complaint.status \notin {"none", "final"}
  /\ \E kind \in Kinds : handler' = [handler EXCEPT ![h] = kind]
  /\ UNCHANGED <<complaint, timeline, letters, audited, warning, week>>

\* The mail's key is the response's.
MutantFinalQueued == FALSE

FinalQueued == letters \cap Verdicts # {}

\* The transaction ends without a trace: retries used up, a crash, or a mail
\* key that is taken.
AbandonAction(h) ==
  /\ handler[h] # "idle"
  /\ handler' = [handler EXCEPT ![h] = "idle"]
  /\ UNCHANGED <<complaint, timeline, letters, audited, warning, week>>

AddEvent(h) ==
  /\ handler[h] \in {"note", "message", "investigating", "awaiting"}
  /\ complaint' = IF handler[h] \in Statuses THEN [complaint EXCEPT !.status = handler[h]]
                  ELSE complaint
  /\ timeline' = timeline \cup {handler[h]}
  /\ letters' = IF handler[h] = "message" THEN letters \cup {"update"} ELSE letters
  /\ audited' = audited \cup {handler[h]}
  /\ handler' = [handler EXCEPT ![h] = "idle"]
  /\ UNCHANGED <<warning, week>>

\* The mail's key is the complaint's: queueEmail passes over the refusal, but
\* nothing after it in the transaction succeeds, so there is no step.
IssueFinalResponse(h) ==
  /\ handler[h] \in Verdicts /\ ~FinalQueued
  /\ complaint' = [status |-> "final", verdict |-> handler[h]]
  /\ timeline' = timeline \cup {handler[h]}
  /\ letters' = letters \cup {handler[h]}
  /\ audited' = audited \cup {handler[h]}
  /\ handler' = [handler EXCEPT ![h] = "idle"]
  /\ UNCHANGED <<warning, week>>

(***************************************************************************)
(* alertComplaintDeadlines: a query, and then a mail per complaint.        *)
(***************************************************************************)
Near == complaint.status \notin {"none", "final"} /\ week >= WarningWeek

\* One alert for a complaint, whatever the stage.
MutantFindNearDeadline ==
  /\ warning = "none" /\ Near
  /\ warning' = "dueSoon"
  /\ UNCHANGED <<complaint, timeline, letters, audited, handler, week>>

FindNearDeadline ==
  /\ warning = "none" /\ Near
  /\ warning' = IF week >= DueWeek THEN "overdue" ELSE "dueSoon"
  /\ UNCHANGED <<complaint, timeline, letters, audited, handler, week>>

AlertStaff ==
  /\ warning # "none"
  /\ letters' = letters \cup {warning}
  /\ warning' = "none"
  /\ UNCHANGED <<complaint, timeline, audited, handler, week>>

\* The scan fails in between; the next one finds the complaint again.
LoseWarning ==
  /\ warning # "none"
  /\ warning' = "none"
  /\ UNCHANGED <<complaint, timeline, letters, audited, handler, week>>

NextWeek ==
  /\ complaint.status # "none" /\ week < LastWeek
  /\ warning = "none" /\ \A h \in Handlers : handler[h] = "idle"
  /\ week' = week + 1
  /\ UNCHANGED <<complaint, timeline, letters, audited, handler, warning>>

ComplaintNext ==
  \/ FileComplaint \/ NextWeek
  \/ \E h \in Handlers :
       LoadComplaint(h) \/ AddEvent(h) \/ IssueFinalResponse(h) \/ AbandonAction(h)
  \/ FindNearDeadline \/ AlertStaff \/ LoseWarning

\* The scan runs every few minutes and does not fail each time.  Staff need
\* not answer.
ComplaintFairness ==
  /\ WF_complaintVars(FindNearDeadline)
  /\ SF_complaintVars(AlertStaff)

ComplaintSpec == ComplaintInit /\ [][ComplaintNext]_complaintVars
FairComplaintSpec == ComplaintSpec /\ ComplaintFairness

(***************************************************************************)
(* Properties.                                                             *)
(***************************************************************************)
\* The customer is sent one final response, and it is the one on the
\* complaint, in its timeline and in the audit log, whoever wrote one at the
\* same time.  (actOnComplaint; queueEmail passing over a duplicate key)
OneFinalResponse ==
  /\ letters \cap Verdicts = audited \cap Verdicts
  /\ letters \cap Verdicts = timeline \cap Verdicts
  /\ letters \cap Verdicts = {complaint.verdict} \ {NoVerdict}

\* A complaint past its deadline is answered or staff hear that it is
\* overdue, though they were told before that it was due soon.
\* (findComplaintsNearDeadline: "once per complaint per stage")
OverdueIsAlerted ==
  (complaint.status # "none" /\ week >= DueWeek)
    ~> (complaint.status = "final" \/ "overdue" \in letters)
=============================================================================

--------------------------- MODULE IdentityChecks ---------------------------
(***************************************************************************)
(* One customer's identity check: src/lib/kyc/didit-decisions.ts, the      *)
(* upload and the staff review of src/lib/kyc/service.ts and the screening *)
(* of src/lib/compliance/identity-checks.ts.                               *)
(*                                                                         *)
(* Didit's decision for a session is applied by two requests that nothing  *)
(* orders: Didit's webhook (and its retries) and the sync the player's     *)
(* browser sends on coming back.  Each reads the decision, then the        *)
(* submission, and some statements later updates by id.  Staff decide the  *)
(* same submissions in serializable transactions.                          *)
(***************************************************************************)
EXTENDS FiniteSets

CONSTANTS
  Sessions,   \* Didit sessions; a session's submission has the same name
  Uploads,    \* document uploads
  Appliers    \* the requests that apply a Didit decision

ASSUME IdentityAssumption == Sessions \cap Uploads = {}

Submissions == Sessions \cup Uploads

VARIABLES
  kycStatus,   \* User.kycStatus, what every money path asks
  submission,  \* Submissions -> status, and whether a reviewer is recorded
  identityCase,\* the customer's DOB_MISMATCH / SHARED_IDENTITY case
  resolved,    \* history: staff have closed such a case
  mismatch,    \* external: the documents are not those of this customer
  verdict,     \* external: Sessions -> what Didit says
  applier,     \* Appliers -> the request
  upload,      \* the player's upload request
  reviewer     \* the staff transaction

identityVars == <<kycStatus, submission, identityCase, resolved, mismatch, verdict,
                  applier, upload, reviewer>>

\* "approve": Approved, 21 or over, an address in Great Britain; "reject":
\* Declined, 18 to 20, or an address elsewhere; "refer": the rest.
Verdicts == {"approve", "reject", "refer"}
Decided == {"APPROVED", "REJECTED"}
Idle == [at |-> "idle"]

IdentityTypeOK ==
  /\ kycStatus \in {"NOT_STARTED", "PENDING", "VERIFIED", "REJECTED"}
  /\ submission \in [Submissions ->
       [status : {"NONE", "PENDING"} \cup Decided, byStaff : BOOLEAN]]
  /\ identityCase \in {"none", "open", "closed"}
  /\ resolved \in BOOLEAN
  /\ mismatch \in BOOLEAN
  /\ verdict \in [Sessions -> {"none", "waiting"} \cup Verdicts]
  /\ applier \in [Appliers ->
       {Idle}
         \cup [at : {"look", "screen"}, session : Sessions, decision : Verdicts]
         \cup [at : {"record"}, session : Sessions, decision : Verdicts,
               fresh : BOOLEAN]
         \cup [at : {"judge", "approve"}, session : Sessions, decision : Verdicts,
               screened : BOOLEAN]]
  /\ upload \in {Idle} \cup [at : {"file", "screen"}, packet : Uploads]
  /\ reviewer \in {Idle} \cup [at : {"review"}, packet : Submissions, approve : BOOLEAN]

IdentityInit ==
  /\ kycStatus = "NOT_STARTED"
  /\ submission = [s \in Submissions |-> [status |-> "NONE", byStaff |-> FALSE]]
  /\ identityCase = "none"
  /\ resolved = FALSE
  /\ mismatch \in BOOLEAN
  /\ verdict = [s \in Sessions |-> "none"]
  /\ applier = [h \in Appliers |-> Idle]
  /\ upload = Idle
  /\ reviewer = Idle

MayStart == kycStatus \in {"NOT_STARTED", "REJECTED"}

(***************************************************************************)
(* Didit.                                                                  *)
(***************************************************************************)
StartSession(s) ==
  /\ MayStart /\ verdict[s] = "none"
  /\ verdict' = [verdict EXCEPT ![s] = "waiting"]
  /\ UNCHANGED <<kycStatus, submission, identityCase, resolved, mismatch, applier, upload, reviewer>>

\* Didit finishes the session, or changes its mind later.
DiditDecides(s) ==
  /\ verdict[s] # "none"
  /\ verdict' \in {[verdict EXCEPT ![s] = v] : v \in Verdicts \ {verdict[s]}}
  /\ UNCHANGED <<kycStatus, submission, identityCase, resolved, mismatch, applier, upload, reviewer>>

(***************************************************************************)
(* applyDiditDecision, called by the webhook and by the sync.              *)
(***************************************************************************)
Applies(h, next) ==
  /\ applier' = [applier EXCEPT ![h] = next]
  /\ UNCHANGED <<resolved, mismatch, verdict, upload, reviewer>>

\* getDiditDecision; a status that is not final is ignored.
Fetch(h, s) ==
  /\ applier[h].at = "idle" /\ verdict[s] \in Verdicts
  /\ Applies(h, [at |-> "look", session |-> s, decision |-> verdict[s]])
  /\ UNCHANGED <<kycStatus, submission, identityCase>>

\* A decided submission, or a stray session of a verified player, is let be.
Look(h) ==
  LET found == submission[applier[h].session].status
  IN /\ applier[h].at = "look"
     /\ Applies(h, IF found \in Decided \/ (found = "NONE" /\ kycStatus = "VERIFIED")
                   THEN Idle
                   ELSE [at |-> "record", session |-> applier[h].session,
                         decision |-> applier[h].decision, fresh |-> found = "NONE"])
     /\ UNCHANGED <<kycStatus, submission, identityCase>>

\* The row is created, or its details updated.  A second create of one
\* session fails on providerSessionId and the request answers 500.
Record(h) ==
  LET s == applier[h].session
      clash == applier[h].fresh /\ submission[s].status # "NONE"
  IN /\ applier[h].at = "record"
     /\ Applies(h, IF clash THEN Idle
                   ELSE [at |-> "screen", session |-> s, decision |-> applier[h].decision])
     /\ submission' = IF submission[s].status = "NONE"
                      THEN [submission EXCEPT ![s].status = "PENDING"] ELSE submission
     /\ UNCHANGED <<kycStatus, identityCase>>

\* screenKycSubmission opens a case for a mismatch unless one is open.
CaseAfterScreening == IF mismatch THEN "open" ELSE identityCase

\* An error of the screening, before or after it has opened its case, is logged
\* and swallowed; without a name and a date of birth, which an approval never
\* lacks, there is no screening.
Screen(h) ==
  /\ applier[h].at = "screen"
  /\ \E ran \in BOOLEAN :
       /\ Applies(h, [at |-> "judge", session |-> applier[h].session,
                      decision |-> applier[h].decision, screened |-> ran])
       /\ identityCase' \in {CaseAfterScreening} \cup IF ran THEN {} ELSE {identityCase}
  /\ UNCHANGED <<kycStatus, submission>>

\* The slip of a rejection that leaves the user's own status.
MutantDecide(s, approved) ==
  /\ submission' = [submission EXCEPT ![s].status =
                      IF approved THEN "APPROVED" ELSE "REJECTED"]
  /\ kycStatus' = IF approved THEN "VERIFIED" ELSE kycStatus

\* decide: one transaction over the submission and the user, by id.
Decide(s, approved) ==
  /\ submission' = [submission EXCEPT ![s].status =
                      IF approved THEN "APPROVED" ELSE "REJECTED"]
  /\ kycStatus' = IF approved THEN "VERIFIED" ELSE "REJECTED"

BlockingCase == identityCase = "open"

Reject(h) ==
  /\ applier[h].at = "judge" /\ applier[h].decision = "reject"
  /\ Decide(applier[h].session, FALSE)
  /\ Applies(h, Idle)
  /\ UNCHANGED identityCase

\* The slip of approving without asking for an open case.
MutantPassCaseCheck(h) ==
  /\ applier[h].at = "judge" /\ applier[h].decision = "approve"
  /\ Applies(h, [applier[h] EXCEPT !.at = "approve"])
  /\ UNCHANGED <<kycStatus, submission, identityCase>>

PassCaseCheck(h) ==
  /\ applier[h].at = "judge" /\ applier[h].decision = "approve" /\ ~BlockingCase
  /\ Applies(h, [applier[h] EXCEPT !.at = "approve"])
  /\ UNCHANGED <<kycStatus, submission, identityCase>>

Approve(h) ==
  /\ applier[h].at = "approve"
  /\ Decide(applier[h].session, TRUE)
  /\ Applies(h, Idle)
  /\ UNCHANGED identityCase

\* Left for staff: the user goes to PENDING, whatever he is by now.
Refer(h) ==
  /\ applier[h].at = "judge"
  /\ applier[h].decision = "refer" \/ (applier[h].decision = "approve" /\ BlockingCase)
  /\ kycStatus' = "PENDING"
  /\ Applies(h, Idle)
  /\ UNCHANGED <<submission, identityCase>>

\* The request stops, or a statement throws; Didit retries the webhook.
ApplierStops(h) ==
  /\ applier[h].at # "idle"
  /\ Applies(h, Idle)
  /\ UNCHANGED <<kycStatus, submission, identityCase>>

(***************************************************************************)
(* submitKyc: the check, the transaction, the screening.                   *)
(***************************************************************************)
AskUpload(u) ==
  /\ upload.at = "idle" /\ submission[u].status = "NONE" /\ MayStart
  /\ upload' = [at |-> "file", packet |-> u]
  /\ UNCHANGED <<kycStatus, submission, identityCase, resolved, mismatch, verdict, applier, reviewer>>

FileUpload ==
  /\ upload.at = "file"
  /\ submission' = [submission EXCEPT ![upload.packet].status = "PENDING"]
  /\ kycStatus' = "PENDING"
  /\ upload' = [upload EXCEPT !.at = "screen"]
  /\ UNCHANGED <<identityCase, resolved, mismatch, verdict, applier, reviewer>>

ScreenUpload ==
  /\ upload.at = "screen"
  /\ identityCase' \in {identityCase, CaseAfterScreening}
  /\ upload' = Idle
  /\ UNCHANGED <<kycStatus, submission, resolved, mismatch, verdict, applier, reviewer>>

(***************************************************************************)
(* Staff: reviewSubmission, and the case closed in the AML queue.          *)
(***************************************************************************)

\* The open case is looked up on a connection of its own, before the
\* transaction's updates; the transaction is refused if the row has changed.
Review(s, approve) ==
  /\ reviewer.at = "idle" /\ submission[s].status = "PENDING"
  /\ approve => ~BlockingCase
  /\ reviewer' = [at |-> "review", packet |-> s, approve |-> approve]
  /\ UNCHANGED <<kycStatus, submission, identityCase, resolved, mismatch, verdict, applier, upload>>

CommitReview ==
  /\ reviewer.at = "review"
  /\ IF submission[reviewer.packet].status = "PENDING"
     THEN /\ kycStatus' = IF reviewer.approve THEN "VERIFIED" ELSE "REJECTED"
          /\ submission' = [submission EXCEPT ![reviewer.packet] =
               [status |-> IF reviewer.approve THEN "APPROVED" ELSE "REJECTED",
                byStaff |-> TRUE]]
     ELSE UNCHANGED <<kycStatus, submission>>
  /\ reviewer' = Idle
  /\ UNCHANGED <<identityCase, resolved, mismatch, verdict, applier, upload>>

CloseCase ==
  /\ identityCase = "open"
  /\ identityCase' = "closed"
  /\ resolved' = TRUE
  /\ UNCHANGED <<kycStatus, submission, mismatch, verdict, applier, upload, reviewer>>

IdentityNext ==
  \/ \E s \in Sessions : StartSession(s) \/ DiditDecides(s)
  \/ \E h \in Appliers, s \in Sessions : Fetch(h, s)
  \/ \E h \in Appliers :
       \/ Look(h) \/ Record(h) \/ Screen(h) \/ Reject(h) \/ PassCaseCheck(h)
       \/ Approve(h) \/ Refer(h) \/ ApplierStops(h)
  \/ \E u \in Uploads : AskUpload(u)
  \/ FileUpload \/ ScreenUpload
  \/ \E s \in Submissions, approve \in BOOLEAN : Review(s, approve)
  \/ CommitReview \/ CloseCase

IdentitySpec == IdentityInit /\ [][IdentityNext]_identityVars

(***************************************************************************)
(* The properties.                                                         *)
(***************************************************************************)

\* The user row the money paths ask (service.ts:228-231) says VERIFIED only
\* while some submission is APPROVED, although a late request may turn an
\* approved submission into a rejected one, and the other way round.
VerifiedIsApproved ==
  kycStatus = "VERIFIED" => \E s \in Submissions : submission[s].status = "APPROVED"

\* A Didit approval whose screening ran gets past a mismatch only after staff
\* have closed a case about it ("Approval of the submission is blocked while
\* either case is open", identity-checks.ts:14), whatever another request on
\* the same session screened or approved in between.
MismatchBlocksApproval ==
  \A h \in Appliers :
    applier[h].at = "approve" /\ applier[h].screened /\ mismatch => resolved

============================================================================

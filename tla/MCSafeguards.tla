---------------------------- MODULE MCSafeguards ----------------------------
(***************************************************************************)
(* Recordings, breaks, complaints and customer care share no state and are *)
(* checked in one run: the initial state says which of them moves.  Each   *)
(* keeps its own fairness, as an obligation of its turn.  With MaxCrashes  *)
(* and MaxHolds 1 the recordings meet one crash or one hold.               *)
(***************************************************************************)
EXTENDS Recordings, PlayBreaks, Complaints, CustomerCare

VARIABLE part   \* the part that moves

vars == <<part, recordingVars, breakVars, complaintVars, careVars>>

Recorded(A) == part = "recordings" /\ A /\ UNCHANGED <<part, breakVars, complaintVars, careVars>>
Played(A) == part = "breaks" /\ A /\ UNCHANGED <<part, recordingVars, complaintVars, careVars>>
Complained(A) == part = "complaints" /\ A /\ UNCHANGED <<part, recordingVars, breakVars, careVars>>
Cared(A) == part = "care" /\ A /\ UNCHANGED <<part, recordingVars, breakVars, complaintVars>>

Init ==
  /\ part \in {"recordings", "breaks", "complaints", "care"}
  /\ RecordingInit /\ crashes + holds = (IF part = "recordings" THEN 1 ELSE 0)
  /\ BreakInit /\ ComplaintInit
  /\ CareInit /\ (limit.amount # 0 => part = "care")

Next ==
  \/ Recorded(RecordingNext)
  \/ Played(BreakNext)
  \/ Complained(ComplaintNext)
  \/ Cared(CareNext)

\* RecordingFairness, BreakFairness, ComplaintFairness and CareFairness: with
\* one part moving, actions of different parts are fair together or apart.
Fairness ==
  /\ WF_vars(Recorded(Decide \/ Tick) \/ Played(NextDay) \/ Cared(Tomorrow))
  /\ WF_vars(Recorded(Recorder) \/ Played(CopyExclusion) \/ Complained(FindNearDeadline)
               \/ Cared(Detector))
  /\ WF_vars(Recorded(Retention) \/ Played(\E t \in Tabs : AskReturn(t)) \/ Cared(Evaluator))
  /\ WF_vars(Recorded(HoldForDispute) \/ Cared(RecordTalk \/ AuditAction))
  /\ WF_vars(Recorded(WorkerDecides))
  /\ WF_vars(Recorded(ComputeRelease \/ WriteRelease))
  /\ \A h \in Hooks : WF_vars(Recorded(Webhook(h)))
  /\ \A t \in Tabs : WF_vars(Played(CreateBreak(t) \/ GrantReturn(t)))
  /\ SF_vars(Complained(AlertStaff))

FairSpec == Init /\ [][Next]_vars /\ Fairness

TypeOK == RecordingTypeOK /\ PlayTypeOK /\ ComplaintTypeOK /\ CareTypeOK
=============================================================================

----------------------------- MODULE Recordings -----------------------------
(***************************************************************************)
(* The recordings of one match: the recorder service (src/recorder),       *)
(* sealing, retention and deletion (src/lib/recordings/service.ts), the    *)
(* investigation hold (admin-access.ts), LiveKit's voice recording         *)
(* (src/lib/voice/service.ts) and what a dispute does to all of them.      *)
(*                                                                         *)
(* A row says how long its file is kept; the files are objects in storage  *)
(* under one prefix, matches/<betId>/.  Rows and objects are changed by    *)
(* requests, a webhook and two services, statement by statement.           *)
(*                                                                         *)
(* Time is in coarse units since the referee's result: the dispute window  *)
(* is the unit 0, the worker closes disputes from the unit 1 on, a date is *)
(* past when it is smaller than "now".                                     *)
(***************************************************************************)
EXTENDS Integers, FiniteSets

CONSTANTS
  VoiceRows,    \* the rows voice recordings may take, in the order 1 .. VoiceRows
  Hooks,        \* deliveries of egress_ended that may be handled at a time
  Deciders,     \* who decides disputes here: "staff", "worker" or both
  Month,        \* UNDISPUTED_RETENTION_MS
  Year,         \* DISPUTED_RECORDING_RETENTION_MS
  MaxTime,      \* bound on the clock
  MaxCrashes,   \* bound on crashes of the recorder and of a webhook delivery
  MaxHolds      \* bound on the holds staff place

ASSUME RecordingAssumption ==
  /\ VoiceRows \in Nat /\ Cardinality(Hooks) <= VoiceRows
  /\ MaxCrashes \in Nat /\ MaxHolds \in Nat
  /\ Deciders \subseteq {"staff", "worker"}
  /\ Month \in Nat /\ Year \in Nat /\ MaxTime \in Nat /\ 2 <= Month /\ Month < Year

VARIABLES
  row,       \* Rows -> the row of match_recordings
  store,     \* what lies under the match's prefix
  egress,    \* LiveKit's event: none yet, of a file, or of a recording that failed
  seals,     \* the RECORDING_SEALED events of the audit trail
  now,       \* the clock; -1 while the match is played
  dispute,   \* the match's dispute
  recorder,  \* the recorder's job
  hook,      \* Hooks -> a delivery of LiveKit's webhook
  jobs,      \* the rows whose seal-voice job is queued
  scan,      \* the retention worker
  release,   \* an admin's release of a hold
  crashes, holds   \* bounds

recordingVars ==
  <<row, store, egress, seals, now, dispute, recorder, hook, jobs, scan, release, crashes,
    holds>>

Rows == 0 .. VoiceRows       \* 0 is the composite
Stream == 0
Voices == 1 .. VoiceRows
Runs == 1 .. 2               \* a stalled job is started a second time
Never == 99                  \* retainUntil NULL: no date
Dates == 0 .. MaxTime + Year

NoRow == [status |-> "none", keep |-> Never, held |-> FALSE, sealed |-> {}, ended |-> 0]

RowRecords ==
  [status : {"none", "recording", "ready", "failed", "deleted"},
   keep : Dates \cup {Never}, held : BOOLEAN, sealed : SUBSET Runs, ended : 0 .. MaxTime]

HookRecords ==
  [at : {"idle", "hold", "look", "count", "create", "queue", "done"}, seg : 0 .. VoiceRows + 1,
   keep : BOOLEAN, held : BOOLEAN]

\* A voice file's one content is written as {1}.
RecordingTypeOK ==
  /\ row \in [Rows -> RowRecords]
  /\ store \in [segments : SUBSET Runs, stream : SUBSET Runs, voice : SUBSET {1}]
  /\ egress \in {"none", "file", "failed"}
  /\ seals \subseteq Rows \X SUBSET Runs
  /\ now \in -1 .. MaxTime
  /\ dispute \in [status : {"none", "open", "decided"}, at : 0 .. MaxTime, toHold : BOOLEAN,
                  by : {"none", "staff", "worker"}]
  /\ recorder \in [at : {"queued", "capture", "upload", "tidy", "check", "seal", "close",
                         "done", "dead"},
                   run : Runs, keep : BOOLEAN, held : BOOLEAN]
  /\ hook \in [Hooks -> HookRecords]
  /\ jobs \subseteq Voices
  /\ scan \in [at : {"find", "delete", "mark"}, todo : SUBSET Rows]
  /\ release \in [todo : SUBSET Rows, next : Rows \cup {Never}, keep : Dates \cup {Never}]
  /\ crashes \in 0 .. MaxCrashes
  /\ holds \in 0 .. MaxHolds

HookIdle == [at |-> "idle", seg |-> 0, keep |-> FALSE, held |-> FALSE]

\* queueMatchRecording has queued the job when the referee started the match.
\* How much of its two bounds a behaviour may use is chosen at its start.
RecordingInit ==
  /\ row = [r \in Rows |-> NoRow]
  /\ store = [segments |-> {}, stream |-> {}, voice |-> {}]
  /\ egress = "none"
  /\ seals = {}
  /\ now = -1
  /\ dispute = [status |-> "none", at |-> 0, toHold |-> FALSE, by |-> "none"]
  /\ recorder = [at |-> "queued", run |-> 1, keep |-> FALSE, held |-> FALSE]
  /\ hook = [h \in Hooks |-> HookIdle]
  /\ jobs = {}
  /\ scan = [at |-> "find", todo |-> {}]
  /\ release = [todo |-> {}, next |-> Never, keep |-> Never]
  /\ crashes \in 0 .. MaxCrashes /\ holds \in 0 .. MaxHolds

Open == dispute.status = "open"
Kept == {r \in Rows : row[r].status \notin {"none", "deleted"}}   \* deletedAt NULL
Held == \E r \in Rows : row[r].held                                \* activeHold
Later(a, b) == IF a >= b THEN a ELSE b
Clock == Later(now, 0)
Stored == store.segments \cup store.stream \cup store.voice # {}

\* The retention a new row gets from what was read before it was written.
KeepAs(open, held) == IF open \/ held THEN Never ELSE Clock + Month

(***************************************************************************)
(* The match and its dispute.                                              *)
(***************************************************************************)
Decide ==
  /\ now = -1 /\ now' = 0
  /\ UNCHANGED <<row, egress, store, seals, dispute, recorder, hook, jobs, scan, release,
                 crashes, holds>>

\* Nothing that takes minutes is left half done for a unit of time, LiveKit
\* has had its answer, and a recording job is picked up within the month.
NothingUnderWay ==
  /\ recorder.at \in {"queued", "done", "dead"}
  /\ recorder.at = "queued" => now + 1 < Month
  /\ ~dispute.toHold
  /\ release.todo = {} /\ jobs = {} /\ scan.at = "find"
  /\ \A h \in Hooks : hook[h].at \in {"idle", "done"}
  /\ egress # "none" => \E h \in Hooks : hook[h].at = "done"

Tick ==
  /\ now \in 0 .. MaxTime - 1
  /\ NothingUnderWay
  /\ now' = now + 1
  /\ UNCHANGED <<row, egress, store, seals, dispute, recorder, hook, jobs, scan, release,
                 crashes, holds>>

\* The dispute's transaction commits; the recordings are held after it.
FileDispute ==
  /\ now = 0 /\ dispute.status = "none"
  /\ dispute' = [dispute EXCEPT !.status = "open", !.toHold = TRUE]
  /\ UNCHANGED <<row, egress, store, seals, now, recorder, hook, jobs, scan, release,
                 crashes, holds>>

HoldForDispute ==
  /\ dispute.toHold
  /\ dispute' = [dispute EXCEPT !.toHold = FALSE]
  /\ row' = [r \in Rows |-> IF r \in Kept THEN [row[r] EXCEPT !.keep = Never] ELSE row[r]]
  /\ UNCHANGED <<egress, store, seals, now, recorder, hook, jobs, scan, release, crashes,
                 holds>>

\* The request ends between the commit and the hold.
LoseHold ==
  /\ dispute.toHold /\ crashes < MaxCrashes
  /\ crashes' = crashes + 1
  /\ dispute' = [dispute EXCEPT !.toHold = FALSE]
  /\ UNCHANGED <<row, egress, store, seals, now, recorder, hook, jobs, scan, release, holds>>

\* resolveDispute, in one transaction with the decision.
StaffDecides ==
  /\ Open /\ "staff" \in Deciders
  /\ dispute' = [dispute EXCEPT !.status = "decided", !.at = Clock, !.by = "staff"]
  /\ row' = [r \in Rows |-> IF r \in Kept /\ ~row[r].held
                            THEN [row[r] EXCEPT !.keep = Clock + Year] ELSE row[r]]
  /\ UNCHANGED <<egress, store, seals, now, recorder, hook, jobs, scan, release, crashes,
                 holds>>

\* autoVoidDispute leaves the recordings as they are.
WorkerDecides ==
  /\ Open /\ "worker" \in Deciders /\ now >= 1
  /\ dispute' = [dispute EXCEPT !.status = "decided", !.at = now, !.by = "worker"]
  /\ UNCHANGED <<row, egress, store, seals, now, recorder, hook, jobs, scan, release,
                 crashes, holds>>

(***************************************************************************)
(* The recorder.  Its job is tried once, but BullMQ starts a job whose     *)
(* worker died a second time, from the beginning.                          *)
(***************************************************************************)
\* The row is taken over as it was.
MutantBegin ==
  /\ recorder.at = "queued"
  /\ recorder' = [recorder EXCEPT !.at = "capture"]
  /\ row' = [row EXCEPT ![Stream].status = IF @ = "none" THEN "recording" ELSE @]
  /\ UNCHANGED <<egress, store, seals, now, dispute, hook, jobs, scan, release, crashes, holds>>

\* The row is made, or taken over with all but its status and start.
Begin ==
  /\ recorder.at = "queued"
  /\ recorder' = [recorder EXCEPT !.at = "capture"]
  /\ row' = [row EXCEPT ![Stream].status = "recording"]
  /\ UNCHANGED <<egress, store, seals, now, dispute, hook, jobs, scan, release, crashes, holds>>

\* Segments are numbered from 000 in each run: one run's replace the other's.
UploadSegment ==
  /\ recorder.at = "capture"
  /\ store' = [store EXCEPT !.segments = {recorder.run}]
  /\ UNCHANGED <<row, egress, seals, now, dispute, recorder, hook, jobs, scan, release,
                 crashes, holds>>

\* The match is over, or the recording has run for its two hours: the last
\* segments are uploaded and joined into one file.
Stop ==
  /\ recorder.at = "capture"
  /\ store' = [store EXCEPT !.segments = {recorder.run}]
  /\ recorder' = [recorder EXCEPT !.at = "upload"]
  /\ UNCHANGED <<row, egress, seals, now, dispute, hook, jobs, scan, release, crashes, holds>>

UploadFile ==
  /\ recorder.at = "upload"
  /\ store' = [store EXCEPT !.stream = {recorder.run}]
  /\ recorder' = [recorder EXCEPT !.at = "tidy"]
  /\ UNCHANGED <<row, egress, seals, now, dispute, hook, jobs, scan, release, crashes, holds>>

DropSegments ==
  /\ recorder.at = "tidy"
  /\ store' = [store EXCEPT !.segments = {}]
  /\ recorder' = [recorder EXCEPT !.at = "check"]
  /\ UNCHANGED <<row, egress, seals, now, dispute, hook, jobs, scan, release, crashes, holds>>

\* sealRecording reads the dispute and the hold, then opens its transaction.
CheckRetention ==
  /\ recorder.at = "check"
  /\ recorder' = [recorder EXCEPT !.at = "seal", !.keep = Open, !.held = Held]
  /\ UNCHANGED <<row, egress, store, seals, now, dispute, hook, jobs, scan, release,
                 crashes, holds>>

Seal ==
  /\ recorder.at = "seal"
  /\ row' = [row EXCEPT ![Stream] =
       [status |-> "ready", keep |-> KeepAs(recorder.keep, recorder.held),
        held |-> @.held \/ recorder.held, sealed |-> {recorder.run}, ended |-> Clock]]
  /\ seals' = seals \cup {<<Stream, {recorder.run}>>}
  /\ recorder' = [recorder EXCEPT !.at = "close"]
  /\ UNCHANGED <<egress, store, now, dispute, hook, jobs, scan, release, crashes, holds>>

\* Any step but the last may throw, the first ones before there is a row; what
\* is in storage stays there, and the row too if writing it throws again.
FailRecording ==
  /\ recorder.at \in {"queued", "capture", "upload", "tidy", "check", "seal"}
  /\ recorder' = [recorder EXCEPT !.at = "close"]
  /\ \/ UNCHANGED row
     \/ /\ row[Stream].status # "none"
        /\ row' = [row EXCEPT ![Stream].status = "failed", ![Stream].keep = Clock + Month,
                              ![Stream].ended = Clock]
  /\ UNCHANGED <<egress, store, seals, now, dispute, hook, jobs, scan, release, crashes, holds>>

\* BullMQ hears that the job is completed, or has failed.
CloseJob ==
  /\ recorder.at = "close"
  /\ recorder' = [recorder EXCEPT !.at = "done", !.keep = FALSE, !.held = FALSE]
  /\ UNCHANGED <<row, egress, store, seals, now, dispute, hook, jobs, scan, release,
                 crashes, holds>>

\* The recorder dies, perhaps with the row sealed and the job not closed.
RecorderCrashes ==
  /\ crashes < MaxCrashes
  /\ recorder.at \notin {"queued", "done", "dead"}
  /\ crashes' = crashes + 1
  /\ recorder' = [at |-> IF recorder.run = 1 THEN "queued" ELSE "dead", run |-> 2,
                  keep |-> FALSE, held |-> FALSE]
  /\ UNCHANGED <<row, egress, store, seals, now, dispute, hook, jobs, scan, release, holds>>

(***************************************************************************)
(* LiveKit's webhook.  The file is in storage before the event, which may  *)
(* also say that it is empty or failed; a delivery not answered 200 is     *)
(* made again, and may overlap the one it repeats.                         *)
(***************************************************************************)
VoiceEnds ==
  /\ now <= 0 /\ egress = "none"
  /\ \/ egress' = "file" /\ store' = [store EXCEPT !.voice = {1}]
     \/ egress' = "failed" /\ UNCHANGED store
  /\ UNCHANGED <<row, seals, now, dispute, recorder, hook, jobs, scan, release, crashes, holds>>

\* The dispute, then the hold, then whether a row already names the file.
HandleEvent(h) ==
  /\ hook[h].at = "idle" /\ now <= 0 /\ egress # "none"
  /\ hook' = [hook EXCEPT ![h] = [at |-> "hold", seg |-> 0, keep |-> Open, held |-> FALSE]]
  /\ UNCHANGED <<row, egress, store, seals, now, dispute, recorder, jobs, scan, release,
                 crashes, holds>>

ReadHold(h) ==
  /\ hook[h].at = "hold"
  /\ hook' = [hook EXCEPT ![h].at = "look", ![h].held = Held]
  /\ UNCHANGED <<row, egress, store, seals, now, dispute, recorder, jobs, scan, release,
                 crashes, holds>>

\* The row of a failed recording has no storage key: it is not found.
LookForRow(h) ==
  /\ hook[h].at = "look"
  /\ hook' = [hook EXCEPT ![h] =
       IF \E v \in Voices : row[v].status = "ready"
         THEN [HookIdle EXCEPT !.at = "done"]
         ELSE [@ EXCEPT !.at = "count"]]
  /\ UNCHANGED <<row, egress, store, seals, now, dispute, recorder, jobs, scan, release,
                 crashes, holds>>

CountVoiceRows(h) ==
  /\ hook[h].at = "count"
  /\ hook' = [hook EXCEPT ![h] =
       [@ EXCEPT !.at = "create",
                 !.seg = 1 + Cardinality({v \in Voices : row[v].status # "none"})]]
  /\ UNCHANGED <<row, egress, store, seals, now, dispute, recorder, jobs, scan, release,
                 crashes, holds>>

\* A segment number already taken is an error, answered 500: made again.
\* Only a file is queued to be sealed.  VoiceRows bounds the rows.
CreateVoiceRow(h) ==
  /\ hook[h].at = "create" /\ hook[h].seg \in Voices
  /\ IF row[hook[h].seg].status # "none"
       THEN /\ hook' = [hook EXCEPT ![h] = HookIdle]
            /\ UNCHANGED row
       ELSE /\ hook' = [hook EXCEPT ![h] = IF egress = "file" THEN [@ EXCEPT !.at = "queue"]
                                           ELSE [HookIdle EXCEPT !.at = "done"]]
            /\ row' = [row EXCEPT ![hook[h].seg] =
                 [status |-> IF egress = "file" THEN "ready" ELSE "failed",
                  keep |-> KeepAs(hook[h].keep, hook[h].held),
                  held |-> hook[h].held, sealed |-> {}, ended |-> Clock]]
  /\ UNCHANGED <<egress, store, seals, now, dispute, recorder, jobs, scan, release,
                 crashes, holds>>

QueueSeal(h) ==
  /\ hook[h].at = "queue"
  /\ jobs' = jobs \cup {hook[h].seg}
  /\ hook' = [hook EXCEPT ![h] = [HookIdle EXCEPT !.at = "done"]]
  /\ UNCHANGED <<row, egress, store, seals, now, dispute, recorder, scan, release,
                 crashes, holds>>

\* The server stops, or the queue is not reachable: 500 or no answer.
HookFails(h) ==
  /\ crashes < MaxCrashes
  /\ hook[h].at \notin {"idle", "done"}
  /\ crashes' = crashes + 1
  /\ hook' = [hook EXCEPT ![h] = HookIdle]
  /\ UNCHANGED <<row, egress, store, seals, now, dispute, recorder, jobs, scan, release, holds>>

\* The seal-voice job, in the worker that also deletes: one at a time.
SealVoice(v) ==
  /\ v \in jobs /\ scan.todo = {}
  /\ jobs' = jobs \ {v}
  /\ IF row[v].status = "ready" /\ row[v].sealed = {} /\ store.voice # {}
       THEN /\ row' = [row EXCEPT ![v].sealed = store.voice]
            /\ seals' = seals \cup {<<v, store.voice>>}
       ELSE UNCHANGED <<row, seals>>
  /\ UNCHANGED <<egress, store, now, dispute, recorder, hook, scan, release, crashes, holds>>

(***************************************************************************)
(* deleteExpiredRecordings: one query, then row by row the whole prefix of *)
(* the match and the row.                                                  *)
(***************************************************************************)
\* The open disputes are not looked for.
MutantExpired == {r \in Kept : row[r].keep < now /\ ~row[r].held}

Expired ==
  {r \in Kept : row[r].keep < now /\ ~row[r].held /\ ~Open}

FindExpired ==
  /\ scan.at = "find" /\ Expired # {}
  /\ scan' = [at |-> "delete", todo |-> Expired]
  /\ UNCHANGED <<row, egress, store, seals, now, dispute, recorder, hook, jobs, release,
                 crashes, holds>>

DeletePrefix ==
  /\ scan.at = "delete"
  /\ store' = [segments |-> {}, stream |-> {}, voice |-> {}]
  /\ scan' = [scan EXCEPT !.at = "mark"]
  /\ UNCHANGED <<row, egress, seals, now, dispute, recorder, hook, jobs, release, crashes,
                 holds>>

MarkDeleted ==
  /\ scan.at = "mark"
  /\ \E r \in scan.todo :
       /\ row' = [row EXCEPT ![r].status = "deleted"]
       /\ scan' = [at |-> IF scan.todo = {r} THEN "find" ELSE "delete", todo |-> scan.todo \ {r}]
  /\ UNCHANGED <<egress, store, seals, now, dispute, recorder, hook, jobs, release,
                 crashes, holds>>

\* The job fails or its worker dies; the next hour's job starts over.
ScanFails ==
  /\ crashes < MaxCrashes /\ scan.at # "find"
  /\ crashes' = crashes + 1
  /\ scan' = [at |-> "find", todo |-> {}]
  /\ UNCHANGED <<row, egress, store, seals, now, dispute, recorder, hook, jobs, release, holds>>

(***************************************************************************)
(* setRecordingHold: a hold is one statement; a release computes each      *)
(* row's date and then writes it.  Both are bound in time so that a        *)
(* released row can still expire before MaxTime.                           *)
(***************************************************************************)
PlaceHold ==
  /\ Kept # {} /\ holds < MaxHolds
  /\ holds' = holds + 1
  /\ row' = [r \in Rows |-> IF r \in Kept THEN [row[r] EXCEPT !.held = TRUE, !.keep = Never]
                                          ELSE row[r]]
  /\ UNCHANGED <<egress, store, seals, now, dispute, recorder, hook, jobs, scan, release,
                 crashes>>

BeginRelease ==
  /\ Held /\ release.todo = {} /\ now + 2 <= MaxTime
  /\ release' = [release EXCEPT !.todo = Kept]
  /\ UNCHANGED <<row, egress, store, seals, now, dispute, recorder, hook, jobs, scan,
                 crashes, holds>>

NormalRetainUntil(r) ==
  IF Open THEN Never
  ELSE Later(Later(row[r].ended + Month, Clock + 1),
             IF dispute.status = "decided" THEN dispute.at + Year ELSE 0)

ComputeRelease ==
  /\ release.next = Never
  /\ \E r \in release.todo :
       release' = [release EXCEPT !.next = r, !.keep = NormalRetainUntil(r)]
  /\ UNCHANGED <<row, egress, store, seals, now, dispute, recorder, hook, jobs, scan,
                 crashes, holds>>

\* The hold is taken off and no date is set.
MutantWriteRelease ==
  /\ release.next # Never
  /\ row' = [row EXCEPT ![release.next].held = FALSE]
  /\ release' = [todo |-> release.todo \ {release.next}, next |-> Never, keep |-> Never]
  /\ UNCHANGED <<egress, store, seals, now, dispute, recorder, hook, jobs, scan, crashes,
                 holds>>

WriteRelease ==
  /\ release.next # Never
  /\ row' = [row EXCEPT ![release.next].held = FALSE, ![release.next].keep = release.keep]
  /\ release' = [todo |-> release.todo \ {release.next}, next |-> Never, keep |-> Never]
  /\ UNCHANGED <<egress, store, seals, now, dispute, recorder, hook, jobs, scan, crashes,
                 holds>>

(***************************************************************************)
(* The next-state relation, and the fairness of services that run.         *)
(***************************************************************************)
Recorder ==
  Begin \/ Stop \/ UploadFile \/ DropSegments \/ CheckRetention \/ Seal
    \/ CloseJob

Webhook(h) ==
  HandleEvent(h) \/ ReadHold(h) \/ LookForRow(h) \/ CountVoiceRows(h) \/ CreateVoiceRow(h)
    \/ QueueSeal(h)

Retention ==
  FindExpired \/ DeletePrefix \/ MarkDeleted \/ \E v \in Voices : SealVoice(v)

Release == BeginRelease \/ ComputeRelease \/ WriteRelease

RecordingNext ==
  \/ Decide \/ Tick
  \/ FileDispute \/ HoldForDispute \/ LoseHold \/ StaffDecides \/ WorkerDecides
  \/ Recorder \/ UploadSegment \/ FailRecording \/ RecorderCrashes
  \/ VoiceEnds \/ \E h \in Hooks : Webhook(h) \/ HookFails(h)
  \/ Retention \/ ScanFails
  \/ PlaceHold \/ Release

\* The match is decided and time passes; the recorder, LiveKit's deliveries,
\* the retention worker, the request that filed a dispute and the escalation
\* worker do their next step.  Nobody has to file, hold or release, but a
\* release under way goes on.
RecordingFairness ==
  /\ WF_recordingVars(Decide) /\ WF_recordingVars(Tick)
  /\ WF_recordingVars(Recorder)
  /\ \A h \in Hooks : WF_recordingVars(Webhook(h))
  /\ WF_recordingVars(Retention)
  /\ WF_recordingVars(HoldForDispute) /\ WF_recordingVars(WorkerDecides)
  /\ WF_recordingVars(ComputeRelease \/ WriteRelease)

RecordingSpec == RecordingInit /\ [][RecordingNext]_recordingVars
FairRecordingSpec == RecordingSpec /\ RecordingFairness

(***************************************************************************)
(* Properties.                                                             *)
(***************************************************************************)
\* A READY stream recording is the file its fingerprint was taken of, and
\* the fingerprint is in the audit trail, whatever run of a job that was
\* started twice wrote which of them.  (recorder/index.ts, sealRecording)
ReadyMatchesSealed ==
  row[Stream].status = "ready" =>
    /\ store.stream # {} => store.stream = row[Stream].sealed
    /\ <<Stream, row[Stream].sealed>> \in seals

\* While a dispute is open no file of the match disappears, though holding
\* the rows may be lost and rows are written from what was read before the
\* dispute was filed.  (deleteExpiredRecordings, recording-retention.worker)
NeverDeletedWhileDisputed ==
  [][Open => /\ store.stream # {} => store'.stream # {}
             /\ store.voice # {} => store'.voice # {}]_recordingVars

LeftOver == \E r \in Rows : row[r].status \in {"ready", "failed"}

\* The recordings of a match nobody disputed are deleted in the end, all of
\* them, unless a hold is on them, whatever crashes, fails or is released
\* meanwhile.  (service.ts: "deleted 30 days after the match")
UndisputedDeleted ==
  (LeftOver /\ dispute.status = "none" /\ now >= 1)
    ~> (Held \/ (~LeftOver /\ recorder.at \in {"done", "dead"}))
=============================================================================

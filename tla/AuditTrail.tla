----------------------------- MODULE AuditTrail -----------------------------
(***************************************************************************)
(* The referee audit trail of one assignment: appendRefereeAudit in        *)
(* src/lib/referees/audit.ts, called inside the transactions of the        *)
(* referee workflow, disputes, settlement and recordings.                  *)
(*                                                                         *)
(* Filing a dispute is READ COMMITTED, every other caller is SERIALIZABLE  *)
(* and reads the snapshot of its first statement, taken before it has the  *)
(* assignment's row lock.  A caller that only locks that row leaves no     *)
(* conflict behind for the next to be refused on.  An event's hash is      *)
(* taken to be the transaction that wrote it: sha256 meets no collision.   *)
(***************************************************************************)
EXTENDS Naturals

CONSTANTS
  Appends,         \* transactions that append one event
  ReadCommitted,   \* those of them that file a dispute
  LockOnly,        \* those that lock the assignment and do not update it
  NoHash           \* previousHash of the first event

ASSUME TrailAssumption ==
  /\ ReadCommitted \subseteq Appends /\ LockOnly \subseteq Appends
  /\ NoHash \notin Appends

VARIABLES
  trail,      \* the committed rows of referee_audit_events
  lockedBy,   \* who holds the assignment's row lock: a transaction, NoHash for none
  append      \* Appends -> how far the transaction is, what it has seen and read

trailVars == <<trail, lockedBy, append>>

AuditEvents == [sequence : Nat \ {0}, previousHash : Appends \cup {NoHash}, eventHash : Appends]
NoEvent == [sequence |-> 0, eventHash |-> NoHash]
NotBegun == [at |-> "idle"]

TrailTypeOK ==
  /\ trail \subseteq AuditEvents
  /\ lockedBy \in Appends \cup {NoHash}
  /\ append \in [Appends ->
       [at : {"idle", "committed"}] \cup [at : {"begun", "locked"}, seen : SUBSET AuditEvents]
         \cup [at : {"read"}, previous : [sequence : Nat, eventHash : Appends \cup {NoHash}]]]

TrailInit ==
  /\ trail = {}
  /\ lockedBy = NoHash
  /\ append = [t \in Appends |-> NotBegun]

\* The first statement of a transaction takes its snapshot.
BeginAppend(t) ==
  /\ append[t].at = "idle"
  /\ append' = [append EXCEPT ![t] = [at |-> "begun", seen |-> trail]]
  /\ UNCHANGED <<trail, lockedBy>>

\* FOR UPDATE is refused to a snapshot older than the row's last update.
UpdatedSince(t) ==
  \E e \in trail \ append[t].seen : e.eventHash \notin LockOnly

LockAssignment(t) ==
  /\ append[t].at = "begun"
  /\ lockedBy = NoHash
  /\ t \in ReadCommitted \/ ~UpdatedSince(t)
  /\ lockedBy' = t
  /\ append' = [append EXCEPT ![t].at = "locked"]
  /\ UNCHANGED trail

\* The last row, as far as the transaction sees.
Last(rows) ==
  IF rows = {} THEN {NoEvent}
  ELSE {[sequence |-> e.sequence, eventHash |-> e.eventHash] :
          e \in {e \in rows : \A f \in rows : f.sequence <= e.sequence}}

ReadPrevious(t) ==
  /\ append[t].at = "locked"
  /\ \E previous \in Last(IF t \in ReadCommitted THEN trail ELSE append[t].seen) :
       append' = [append EXCEPT ![t] = [at |-> "read", previous |-> previous]]
  /\ UNCHANGED <<trail, lockedBy>>

\* Without uq_referee_audit_sequence.
MutantFree(sequence) == TRUE

\* No row has the sequence number (uq_referee_audit_sequence).
Free(sequence) == \A e \in trail : e.sequence # sequence

\* The row is created and the transaction commits.
CommitAppend(t) ==
  /\ append[t].at = "read"
  /\ LET previous == append[t].previous
     IN  /\ Free(previous.sequence + 1)
         /\ trail' = trail \cup {[sequence |-> previous.sequence + 1,
                                  previousHash |-> previous.eventHash, eventHash |-> t]}
  /\ lockedBy' = NoHash
  /\ append' = [append EXCEPT ![t] = [at |-> "committed"]]

\* Refused, failed or stopped; withTransaction tries a refused one again.
RollBack(t) ==
  /\ append[t].at \in {"begun", "locked", "read"}
  /\ lockedBy' = IF lockedBy = t THEN NoHash ELSE lockedBy
  /\ append' = [append EXCEPT ![t] = NotBegun]
  /\ UNCHANGED trail

TrailNext ==
  \E t \in Appends :
    \/ BeginAppend(t) \/ LockAssignment(t) \/ ReadPrevious(t)
    \/ CommitAppend(t) \/ RollBack(t)

TrailSpec == TrailInit /\ [][TrailNext]_trailVars

\* The trail always verifies (verifyRefereeAuditChain, audit.ts:118-149): its
\* numbers leave no gap and nothing shares one, and each event carries the
\* hash of the one before it, whatever transactions append at once and
\* however old their snapshots.
ChainVerifies ==
  /\ \A e, f \in trail : e.sequence = f.sequence => e = f
  /\ \A e \in trail :
       IF e.sequence = 1 THEN e.previousHash = NoHash
       ELSE \E f \in trail : f.sequence + 1 = e.sequence /\ f.eventHash = e.previousHash

=============================================================================

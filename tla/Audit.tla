--------------------------------- MODULE Audit ---------------------------------
(***************************************************************************)
(* The audit trail of the scorer: the actuator enqueues a record for every  *)
(* applied decision, and one more for a block; a loop inserts them in       *)
(* batches.  A batch is sent as one implicit transaction.  Records are      *)
(* numbered as they are made.  stored, dropped, unheard and vanished are    *)
(* history: the table keeps the first, the counter the size of the second,  *)
(* nothing tells of the others.                                             *)
(***************************************************************************)
EXTENDS Integers, Sequences, FiniteSets, SequencesExt

CONSTANTS
  AuditBuffer, AuditBatch,
  MaxRecords       \* bound: records made

ASSUME AuditAssumption == {AuditBuffer, AuditBatch, MaxRecords} \subseteq Nat \ {0}

VARIABLES
  made,        \* records made: number -> "audit" or "block"
  due,         \* is the block record of the last decision still to be enqueued?
  queued,      \* the channel
  pack,        \* the loop's batch
  trail,       \* "open", "closing", "gone"
  stored,      \* in their table
  dropped,     \* counted as dropped
  unheard,     \* not in their table, and the failure was not heard of
  vanished     \* gone with the process

auditVars == <<made, due, queued, pack, trail, stored, dropped, unheard, vanished>>

AuditInit ==
  /\ made = << >> /\ due = FALSE /\ queued = << >> /\ pack = << >> /\ trail = "open"
  /\ stored = {} /\ dropped = {} /\ unheard = {} /\ vanished = {}

-------------------------------------------------------------------------------
\* enqueue: never waits.  Close has closed the channel while Run still applies
\* decisions: the send panics in a goroutine nobody recovers, and the process
\* ends with all it holds.
Enqueue(kind) ==
  LET r == Len(made) + 1
  IN  /\ trail # "gone" /\ Len(made) < MaxRecords
      /\ made' = Append(made, kind)
      /\ \/ /\ trail = "open" /\ Len(queued) < AuditBuffer
            /\ queued' = Append(queued, r)
            /\ UNCHANGED <<pack, trail, stored, dropped, unheard, vanished>>
         \/ /\ trail = "open" /\ Len(queued) = AuditBuffer
            /\ dropped' = dropped \cup {r}
            /\ UNCHANGED <<queued, pack, trail, stored, unheard, vanished>>
         \/ /\ trail = "closing"
            /\ trail' = "gone"
            /\ vanished' = vanished \cup ToSet(queued) \cup ToSet(pack) \cup {r}
            /\ queued' = << >> /\ pack' = << >>
            /\ UNCHANGED <<stored, dropped, unheard>>

\* record: a decision that changed something is recorded, a block twice.
Record(block) == ~due /\ Enqueue("audit") /\ due' = block
RecordBlock == due /\ Enqueue("block") /\ due' = FALSE

TakeRecord ==
  /\ queued # << >> /\ Len(pack) < AuditBatch
  /\ pack' = Append(pack, Head(queued))
  /\ queued' = Tail(queued)
  /\ UNCHANGED <<made, due, trail, stored, dropped, unheard, vanished>>

\* The INSERT into blocks names no shard_id, and the column is NOT NULL.
Insertable(r) == made[r] # "block"

\* Mutant: a batch whose insert failed is forgotten without a count.
DroppedAfterSilent(err) == dropped

DroppedAfter(err) == IF err THEN dropped \cup ToSet(pack) ELSE dropped

\* Mutant: no ticker, only full batches are written.
WriteDueFull == Len(pack) = AuditBatch

WriteDue == pack # << >>

\* write, and what flush makes of its error.  The table gets all of the batch or
\* none of it.  A record that cannot be inserted fails the batch, and its answer
\* says so; otherwise the answer need not agree with the outcome: an error
\* (auditTimeout, a lost connection) may come of a batch that was committed, and
\* no error of one that was not, as the answer to the commit is read by
\* results.Close, whose error is ignored.
WritePack ==
  /\ WriteDue
  /\ \E inserted, err \in BOOLEAN :
       /\ (\E r \in ToSet(pack) : ~Insertable(r)) => ~inserted /\ err
       /\ stored' = IF inserted THEN stored \cup ToSet(pack) ELSE stored
       /\ dropped' = DroppedAfter(err)
       /\ unheard' = IF inserted \/ err THEN unheard ELSE unheard \cup ToSet(pack)
  /\ pack' = << >>
  /\ UNCHANGED <<made, due, queued, trail, vanished>>

\* Close, up to the wait for the loop.
CloseTrail ==
  /\ trail = "open"
  /\ trail' = "closing"
  /\ UNCHANGED <<made, due, queued, pack, stored, dropped, unheard, vanished>>

\* NewAudit in a new process, after the loop has drained the channel, after
\* auditDrain or after a crash: what the old one still held is gone.
NewTrail ==
  /\ trail' = "open" /\ due' = FALSE
  /\ vanished' = vanished \cup ToSet(queued) \cup ToSet(pack)
  /\ queued' = << >> /\ pack' = << >>
  /\ UNCHANGED <<made, stored, dropped, unheard>>

AuditNext ==
  \/ \E block \in BOOLEAN : Record(block)
  \/ RecordBlock
  \/ TakeRecord \/ WritePack
  \/ CloseTrail \/ NewTrail

\* The loop of the trail runs.
AuditFairness == WF_auditVars(TakeRecord \/ WritePack)

-------------------------------------------------------------------------------
(* Properties *)

\* Every record is under way, settled (in the table, counted or both), gone with
\* its process, or missing because the failure of a commit was not heard of, and
\* never two of these: there is no other way of losing a record, and one that is
\* settled or lost does not come back (enqueue, write, flush: "what is dropped is
\* counted").  So the counter may exceed what the table lacks, or fall short.
TrailAccounted ==
  LET places == <<ToSet(queued), ToSet(pack), stored \cup dropped, unheard, vanished>>
  IN  /\ DOMAIN made = UNION ToSet(places)
      /\ \A i, j \in DOMAIN places : i # j => places[i] \cap places[j] = {}

\* A record does not stay under way, whatever the database does.
TrailSettles ==
  \A r \in 1 .. MaxRecords :
    (r \in ToSet(queued)) ~> (r \in stored \cup dropped \cup unheard \cup vanished)
===============================================================================

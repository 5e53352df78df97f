-------------------------------- MODULE MCTrails --------------------------------
(* The two asynchronous trails, into the scorer and out of it.  They share no
   state, so a behaviour follows one of them and the other rests. *)
EXTENDS Telemetry, Audit

\* Two processes that publish under the same shard, one of them twice.
MCMaxEvents == [p \in Processes |-> IF p = "gate" THEN 2 ELSE 1]

VARIABLE side

TrailsVars == <<telemetryVars, auditVars, side>>

TrailsInit == TelemetryInit /\ AuditInit /\ side \in {"telemetry", "audit"}

TrailsNext ==
  /\ \/ side = "telemetry" /\ TelemetryNext /\ UNCHANGED auditVars
     \/ side = "audit" /\ AuditNext /\ UNCHANGED telemetryVars
  /\ UNCHANGED side

TrailsSpec ==
  /\ TrailsInit /\ [][TrailsNext]_TrailsVars
  /\ TelemetryFairness /\ AuditFairness

-------------------------------------------------------------------------------
(* What a comment says of the audit trail, beyond what it does *)

\* The database answers, the process lives and the channel never fills.
CalmRecord(block) == Len(queued) < AuditBuffer /\ Record(block)
CalmWrite ==
  /\ WritePack
  /\ (\A r \in ToSet(pack) : Insertable(r)) => stored' # stored /\ dropped' = dropped
CalmSpec ==
  /\ TrailsInit /\ side = "audit"
  /\ [][/\ \/ \E block \in BOOLEAN : CalmRecord(block)
           \/ Len(queued) < AuditBuffer /\ RecordBlock
           \/ TakeRecord \/ CalmWrite
        /\ UNCHANGED <<telemetryVars, side>>]_TrailsVars

\* "The evidence of a block is always kept with it" (001_schema.sql:37): in such
\* times every record finds its way into its table.
EvidenceKept == dropped = {}
=================================================================================

--------------------------- MODULE PostgresStore ---------------------------
(***************************************************************************)
(* The engine store over PostgreSQL, READ COMMITTED.  A call of a single   *)
(* statement is one step, which waits while another transaction holds the  *)
(* row it writes; updateRun is a transaction of several statements, other  *)
(* clients run between them, and its client may be gone before it commits. *)
(* It is to be indistinguishable, by its rows and by its answers, from the *)
(* store MemoryStore describes.                                            *)
(***************************************************************************)
EXTENDS Naturals

CONSTANTS Client, Gate, Patch, NodeWrite, MaxReworks, NoClient,
          Attempt, Content  \* attempt counts, and what a node's other columns hold

Absent == "absent"
Key == {"approval", "cancel_reason"}
Field == Client \cup {Absent}

RunStatus == {"pending", "running", "paused", "interrupted", "completed", "failed", "cancelled"}
NodeStatus == {"running", "completed", "failed", "skipped", "interrupted"}

PatchType == [status : RunStatus \cup {Absent}, meta : [Key -> {"set", Absent}]]

NodeWriteType ==
  [status : NodeStatus, attempt : Attempt \cup {Absent},
   output : Content \cup {Absent}, error : Content \cup {Absent},
   effects : {"idempotent", "at_most_once", Absent}, started : Content]

ASSUME StoreAssumption ==
  /\ NoClient \notin Client /\ Absent \notin Client
  /\ "0" \in Attempt
  /\ Patch \subseteq PatchType
  /\ NodeWrite \subseteq NodeWriteType
  /\ MaxReworks \in Nat

VARIABLES runRecord, leaseLapsed, nodeRecord, gateRecord, told, \* committed, and the last answer
          txStage,   \* how far each client's updateRun is
          txPatch,   \* what it was called with
          rowLock,   \* whose transaction has written the run's row
          rowDraft   \* that row, uncommitted

storeVars == <<runRecord, leaseLapsed, nodeRecord, gateRecord, told>>
txVars == <<txStage, txPatch, rowLock, rowDraft>>
postgresVars == <<storeVars, txVars>>

NoRun == [status |-> Absent, meta |-> [k \in Key |-> Absent], owner |-> Absent]
NoNode == [status |-> Absent, attempt |-> "0", output |-> Absent, error |-> Absent,
           effects |-> "idempotent", started |-> Absent]
NoGate == [decision |-> Absent, reworks |-> 0]
NoPatch == [status |-> Absent, meta |-> [k \in Key |-> Absent]]

RunRecord == [status : RunStatus \cup {Absent},
              meta : [Key -> {"set", Absent}], owner : Field]

NodeRecord == [status : NodeStatus \cup {Absent},
               attempt : Attempt, output : Content \cup {Absent}, error : Content \cup {Absent},
               effects : {"idempotent", "at_most_once"}, started : Content \cup {Absent}]

StoreTypeOK ==
  /\ runRecord \in RunRecord /\ leaseLapsed \in BOOLEAN
  /\ nodeRecord \in NodeRecord
  /\ gateRecord \in [Gate -> [decision : {Absent, "none", "approved", "rejected"}, reworks : 0..MaxReworks]]
  /\ txStage \in [Client -> {"idle", "begun", "columns set", "merged"}]
  /\ txPatch \in [Client -> Patch \cup {NoPatch}]
  /\ rowLock \in Client \cup {NoClient}
  /\ rowDraft \in RunRecord

PostgresInit ==
  /\ runRecord = NoRun /\ leaseLapsed = FALSE
  /\ nodeRecord = NoNode
  /\ gateRecord = [g \in Gate |-> NoGate]
  /\ told = <<>>
  /\ txStage = [c \in Client |-> "idle"]
  /\ txPatch = [c \in Client |-> NoPatch]
  /\ rowLock = NoClient
  /\ rowDraft = NoRun

-----------------------------------------------------------------------------
\* COALESCE(value, other)
Coalesce(value, other) == IF value = Absent THEN other ELSE value

\* A statement that updates the run's row waits for whoever has updated it.
RowFree == rowLock = NoClient

OnlyRun == UNCHANGED <<nodeRecord, gateRecord, txVars>>

CreateRun ==
  /\ runRecord = NoRun
  /\ runRecord' = [NoRun EXCEPT !.status = "pending"]
  /\ told' = <<"created">>
  /\ UNCHANGED leaseLapsed /\ OnlyRun

-----------------------------------------------------------------------------
(* updateRun. *)

SetsColumns(c) == txPatch[c].status # Absent
Merges(c) == \E k \in Key : txPatch[c].meta[k] # Absent

\* An empty patch is a read.
GetRun(p) ==
  /\ runRecord # NoRun
  /\ p = NoPatch
  /\ told' = <<"run", runRecord>>
  /\ UNCHANGED <<runRecord, leaseLapsed>> /\ OnlyRun

Begin(c, p) ==
  /\ runRecord # NoRun
  /\ txStage[c] = "idle" /\ p # NoPatch
  /\ txStage' = [txStage EXCEPT ![c] = "begun"]
  /\ txPatch' = [txPatch EXCEPT ![c] = p]
  /\ UNCHANGED <<storeVars, rowLock, rowDraft>>

\* The row as a statement of c's transaction sees it: its own version, or the
\* last committed one, for which it has waited.
SeenBy(c) == IF rowLock = c THEN rowDraft ELSE runRecord

Writes(c, row) ==
  /\ rowLock \in {NoClient, c}
  /\ rowLock' = c
  /\ rowDraft' = row
  /\ UNCHANGED <<storeVars, txPatch>>

\* Mutant of SetColumns: the statements are not one transaction.
SetColumnsAtOnce(c) ==
  /\ txStage[c] = "begun" /\ rowLock \in {NoClient, c}
  /\ runRecord' = [runRecord EXCEPT !.status = Coalesce(txPatch[c].status, @)]
  /\ txStage' = [txStage EXCEPT ![c] = "columns set"]
  /\ UNCHANGED <<leaseLapsed, nodeRecord, gateRecord, told, txPatch, rowLock, rowDraft>>

\* UPDATE workflow_runs SET status = ..., when the patch has a column
SetColumns(c) ==
  /\ txStage[c] = "begun"
  /\ IF SetsColumns(c)
     THEN Writes(c, [SeenBy(c) EXCEPT !.status = txPatch[c].status])
     ELSE UNCHANGED <<storeVars, txPatch, rowLock, rowDraft>>
  /\ txStage' = [txStage EXCEPT ![c] = "columns set"]

\* SET metadata = metadata || ..., when the patch has metadata
MergeMetadata(c) ==
  /\ txStage[c] = "columns set"
  /\ IF Merges(c)
     THEN Writes(c, [SeenBy(c) EXCEPT !.meta = [k \in Key |-> Coalesce(txPatch[c].meta[k], @[k])]])
     ELSE UNCHANGED <<storeVars, txPatch, rowLock, rowDraft>>
  /\ txStage' = [txStage EXCEPT ![c] = "merged"]

EndTx(c) ==
  /\ txStage' = [txStage EXCEPT ![c] = "idle"]
  /\ txPatch' = [txPatch EXCEPT ![c] = NoPatch]
  /\ rowLock' = IF rowLock = c THEN NoClient ELSE rowLock
  /\ rowDraft' = IF rowLock = c THEN NoRun ELSE rowDraft

\* SELECT and COMMIT: nobody else can write between them what the first returns.
CommitUpdate(c) ==
  /\ txStage[c] = "merged"
  /\ runRecord' = rowDraft
  /\ told' = <<"run", rowDraft>>
  /\ EndTx(c)
  /\ UNCHANGED <<leaseLapsed, nodeRecord, gateRecord>>

\* The client or its connection is gone.
RollBack(c) ==
  /\ txStage[c] # "idle"
  /\ EndTx(c)
  /\ UNCHANGED storeVars

-----------------------------------------------------------------------------
(* Leases. *)

AcquireLease(c) ==
  /\ runRecord # NoRun /\ RowFree
  /\ \/ /\ runRecord.owner = Absent \/ runRecord.owner = c \/ leaseLapsed
        /\ runRecord' = [runRecord EXCEPT !.owner = c]
        /\ leaseLapsed' = FALSE
        /\ told' = <<"acquired", c>>
     \/ /\ runRecord.owner \notin {Absent, c} /\ ~leaseLapsed
        /\ told' = <<"not acquired">>
        /\ UNCHANGED <<runRecord, leaseLapsed>>
  /\ OnlyRun

RenewLease(c) ==
  /\ runRecord # NoRun /\ RowFree
  /\ leaseLapsed' = IF runRecord.owner = c THEN FALSE ELSE leaseLapsed
  /\ told' = <<"renewed">>
  /\ UNCHANGED runRecord /\ OnlyRun

ReleaseLease(c) ==
  /\ runRecord # NoRun /\ RowFree
  /\ runRecord' = [runRecord EXCEPT !.owner = IF @ = c THEN Absent ELSE @]
  /\ leaseLapsed' = (leaseLapsed /\ runRecord.owner # c)
  /\ told' = <<"released">>
  /\ OnlyRun

\* now() passes lease_expires_at, whoever has the row.
LeaseLapses ==
  /\ runRecord.owner # Absent /\ ~leaseLapsed
  /\ leaseLapsed' = TRUE
  /\ UNCHANGED <<runRecord, told>> /\ OnlyRun

\* Reads wait for nobody: they see the committed row.
FindExpiredRuns ==
  /\ told' = <<"expired", runRecord.status = "running" /\ (runRecord.owner = Absent \/ leaseLapsed)>>
  /\ UNCHANGED <<runRecord, leaseLapsed>> /\ OnlyRun

-----------------------------------------------------------------------------
(* Nodes.  Their foreign key locks no more of the run's row than updateRun  *)
(* leaves free.                                                             *)

\* The row INSERT proposes, its missing values defaulted.
Excluded(w) ==
  [status |-> w.status, attempt |-> Coalesce(w.attempt, "0"), output |-> w.output,
   error |-> w.error, effects |-> Coalesce(w.effects, "idempotent"), started |-> w.started]

\* ON CONFLICT DO UPDATE: the defaulted columns take the caller's value, the
\* others that of the proposed row.
OnConflict(row, w) ==
  LET excluded == Excluded(w)
  IN [status |-> excluded.status, error |-> excluded.error,
      attempt |-> Coalesce(w.attempt, row.attempt),
      output |-> Coalesce(excluded.output, row.output),
      effects |-> Coalesce(w.effects, row.effects),
      started |-> Coalesce(row.started, excluded.started)]

Upserted(w) == IF nodeRecord = NoNode THEN Excluded(w) ELSE OnConflict(nodeRecord, w)

UpsertNode(w) ==
  /\ runRecord # NoRun
  /\ nodeRecord' = Upserted(w)
  /\ told' = <<"node", Upserted(w)>>
  /\ UNCHANGED <<runRecord, leaseLapsed, gateRecord, txVars>>

MarkRunningNodesInterrupted ==
  /\ nodeRecord' = [nodeRecord EXCEPT !.status = IF @ = "running" THEN "interrupted" ELSE @]
  /\ told' = <<"interrupted", nodeRecord.status = "running">>
  /\ UNCHANGED <<runRecord, leaseLapsed, gateRecord, txVars>>

-----------------------------------------------------------------------------
(* Approvals. *)

\* idx_approvals_one_pending refuses a second undecided row of a run.
CreateApproval(g) ==
  /\ runRecord # NoRun
  /\ gateRecord[g] = NoGate
  /\ \/ /\ \A h \in Gate : gateRecord[h].decision # "none"
        /\ gateRecord' = [gateRecord EXCEPT ![g].decision = "none"]
        /\ told' = <<"asked", g>>
     \/ /\ \E h \in Gate : gateRecord[h].decision = "none"
        /\ told' = <<"already asked">>
        /\ UNCHANGED gateRecord
  /\ UNCHANGED <<runRecord, leaseLapsed, nodeRecord, txVars>>

\* WHERE id = ... AND decision IS NULL
DecideApproval(g, d) ==
  /\ gateRecord[g] # NoGate
  /\ \/ /\ gateRecord[g].decision = "none"
        /\ gateRecord' = [gateRecord EXCEPT ![g].decision = d]
        /\ told' = <<"decided", d>>
     \/ /\ gateRecord[g].decision # "none"
        /\ told' = <<"not decided">>
        /\ UNCHANGED gateRecord
  /\ UNCHANGED <<runRecord, leaseLapsed, nodeRecord, txVars>>

IncrementReworkAttempts(g) ==
  /\ gateRecord[g] # NoGate /\ gateRecord[g].reworks < MaxReworks
  /\ gateRecord' = [gateRecord EXCEPT ![g].reworks = @ + 1]
  /\ told' = <<"reworks", gateRecord'[g].reworks>>
  /\ UNCHANGED <<runRecord, leaseLapsed, nodeRecord, txVars>>

-----------------------------------------------------------------------------
RunRowStep ==
  \/ CreateRun \/ LeaseLapses \/ FindExpiredRuns
  \/ \E p \in Patch : GetRun(p) \/ \E c \in Client : Begin(c, p)
  \/ \E c \in Client : \/ SetColumns(c) \/ MergeMetadata(c) \/ CommitUpdate(c) \/ RollBack(c)
                       \/ AcquireLease(c) \/ RenewLease(c) \/ ReleaseLease(c)

NodeStep == MarkRunningNodesInterrupted \/ \E w \in NodeWrite : UpsertNode(w)

GateStep ==
  \E g \in Gate : \/ CreateApproval(g) \/ IncrementReworkAttempts(g)
                  \/ \E d \in {"approved", "rejected"} : DecideApproval(g, d)

PostgresNext == RunRowStep \/ NodeStep \/ GateStep

PostgresSpec == PostgresInit /\ [][PostgresNext]_postgresVars

-----------------------------------------------------------------------------
\* Whatever the clients do at once, and wherever one is cut off, the rows and
\* the answers are those of the in-memory store: no half of a patch is seen, no
\* concurrent patch is lost, a write that leaves a field out does not reset it.
Memory == INSTANCE MemoryStore WITH
  runRecord <- runRecord, leaseLapsed <- leaseLapsed, nodeRecord <- nodeRecord,
  gateRecord <- gateRecord, told <- told

KeepsMemory == Memory!MemorySpec
=============================================================================

---------------------------- MODULE MemoryStore ----------------------------
(***************************************************************************)
(* What the engine is promised by its store: the in-memory implementation, *)
(* in which every call is one step.  The rows are those of one run; a call *)
(* on a run or a node is made only with an id the store has given out.     *)
(* Every step leaves in told what the caller is given.                     *)
(***************************************************************************)
EXTENDS Naturals

CONSTANTS
  Client,     \* processes, or concurrent calls of one process, using the store
  Gate,       \* ids of approvals
  Patch,      \* patches updateRun is called with
  NodeWrite,  \* inputs upsertNode is called with
  MaxReworks  \* bound on the reworks of a gate

Absent == "absent"
Key == {"approval", "cancel_reason"}

VARIABLES
  runRecord,   \* one run: status, metadata, lease_owner
  leaseLapsed, \* lease_expires_at is past
  nodeRecord,  \* one node of it
  gateRecord,  \* its approvals
  told         \* the last answer

storeVars == <<runRecord, leaseLapsed, nodeRecord, gateRecord, told>>

NoRun == [status |-> Absent, meta |-> [k \in Key |-> Absent], owner |-> Absent]
NoNode == [status |-> Absent, attempt |-> "0", output |-> Absent, error |-> Absent,
           effects |-> "idempotent", started |-> Absent]
NoGate == [decision |-> Absent, reworks |-> 0]

MemoryInit ==
  /\ runRecord = NoRun /\ leaseLapsed = FALSE
  /\ nodeRecord = NoNode
  /\ gateRecord = [g \in Gate |-> NoGate]
  /\ told = <<>>

\* value ?? other
Or(value, other) == IF value = Absent THEN other ELSE value

-----------------------------------------------------------------------------
(* Runs. *)

CreateRun ==
  /\ runRecord = NoRun
  /\ runRecord' = [NoRun EXCEPT !.status = "pending"]
  /\ told' = <<"created">>
  /\ UNCHANGED <<leaseLapsed, nodeRecord, gateRecord>>

Patched(row, p) ==
  [row EXCEPT !.status = Or(p.status, @),
              !.meta = [k \in Key |-> Or(p.meta[k], @[k])]]

UpdateRun(p) ==
  /\ runRecord # NoRun
  /\ runRecord' = Patched(runRecord, p)
  /\ told' = <<"run", Patched(runRecord, p)>>
  /\ UNCHANGED <<leaseLapsed, nodeRecord, gateRecord>>

AcquireLease(c) ==
  /\ runRecord # NoRun
  /\ IF runRecord.owner \in {Absent, c} \/ leaseLapsed
     THEN /\ runRecord' = [runRecord EXCEPT !.owner = c]
          /\ leaseLapsed' = FALSE
          /\ told' = <<"acquired", c>>
     ELSE told' = <<"not acquired">> /\ UNCHANGED <<runRecord, leaseLapsed>>
  /\ UNCHANGED <<nodeRecord, gateRecord>>

RenewLease(c) ==
  /\ runRecord # NoRun
  /\ leaseLapsed' = (leaseLapsed /\ runRecord.owner # c)
  /\ told' = <<"renewed">>
  /\ UNCHANGED <<runRecord, nodeRecord, gateRecord>>

ReleaseLease(c) ==
  /\ runRecord # NoRun
  /\ IF runRecord.owner = c
     THEN runRecord' = [runRecord EXCEPT !.owner = Absent] /\ leaseLapsed' = FALSE
     ELSE UNCHANGED <<runRecord, leaseLapsed>>
  /\ told' = <<"released">>
  /\ UNCHANGED <<nodeRecord, gateRecord>>

\* The clock passes lease_expires_at.
LeaseLapses ==
  /\ runRecord.owner # Absent /\ ~leaseLapsed
  /\ leaseLapsed' = TRUE
  /\ UNCHANGED <<runRecord, nodeRecord, gateRecord, told>>

FindExpiredRuns ==
  /\ told' = <<"expired", runRecord.status = "running" /\ (runRecord.owner = Absent \/ leaseLapsed)>>
  /\ UNCHANGED <<runRecord, leaseLapsed, nodeRecord, gateRecord>>

-----------------------------------------------------------------------------
(* Nodes. *)

\* Which fields a write without a value leaves alone, and which it clears.
Merged(prev, w) ==
  [status |-> w.status,
   attempt |-> Or(w.attempt, prev.attempt),
   output |-> Or(w.output, prev.output),
   error |-> w.error,
   effects |-> Or(w.effects, prev.effects),
   started |-> Or(prev.started, w.started)]

UpsertNode(w) ==
  /\ runRecord # NoRun
  /\ nodeRecord' = Merged(nodeRecord, w)
  /\ told' = <<"node", Merged(nodeRecord, w)>>
  /\ UNCHANGED <<runRecord, leaseLapsed, gateRecord>>

MarkRunningNodesInterrupted ==
  /\ nodeRecord' = IF nodeRecord.status = "running"
                   THEN [nodeRecord EXCEPT !.status = "interrupted"] ELSE nodeRecord
  /\ told' = <<"interrupted", nodeRecord.status = "running">>
  /\ UNCHANGED <<runRecord, leaseLapsed, gateRecord>>

-----------------------------------------------------------------------------
(* Approvals. *)

Undecided == {g \in Gate : gateRecord[g].decision = "none"}

\* A second open question is an error.
CreateApproval(g) ==
  /\ runRecord # NoRun
  /\ gateRecord[g] = NoGate
  /\ IF Undecided = {}
     THEN /\ gateRecord' = [gateRecord EXCEPT ![g].decision = "none"]
          /\ told' = <<"asked", g>>
     ELSE told' = <<"already asked">> /\ UNCHANGED gateRecord
  /\ UNCHANGED <<runRecord, leaseLapsed, nodeRecord>>

DecideApproval(g, d) ==
  /\ gateRecord[g] # NoGate
  /\ IF g \in Undecided
     THEN gateRecord' = [gateRecord EXCEPT ![g].decision = d] /\ told' = <<"decided", d>>
     ELSE told' = <<"not decided">> /\ UNCHANGED gateRecord
  /\ UNCHANGED <<runRecord, leaseLapsed, nodeRecord>>

IncrementReworkAttempts(g) ==
  /\ gateRecord[g] # NoGate /\ gateRecord[g].reworks < MaxReworks
  /\ gateRecord' = [gateRecord EXCEPT ![g].reworks = @ + 1]
  /\ told' = <<"reworks", gateRecord[g].reworks + 1>>
  /\ UNCHANGED <<runRecord, leaseLapsed, nodeRecord>>

-----------------------------------------------------------------------------
MemoryNext ==
  \/ CreateRun \/ LeaseLapses \/ FindExpiredRuns \/ MarkRunningNodesInterrupted
  \/ \E p \in Patch : UpdateRun(p)
  \/ \E c \in Client : AcquireLease(c) \/ RenewLease(c) \/ ReleaseLease(c)
  \/ \E w \in NodeWrite : UpsertNode(w)
  \/ \E g \in Gate : \/ CreateApproval(g) \/ IncrementReworkAttempts(g)
                     \/ \E d \in {"approved", "rejected"} : DecideApproval(g, d)

MemorySpec == MemoryInit /\ [][MemoryNext]_storeVars
=============================================================================

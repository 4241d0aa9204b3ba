--------------------------- MODULE Storage_proofs ---------------------------
(***************************************************************************)
(* What is kept on disk: the store over PostgreSQL implements the          *)
(* in-memory one for any number of clients (PostgresStore), any number of  *)
(* processes open and migrate its database (Migrations), and a run is one  *)
(* document whatever happens to its file (WorkflowFiles).  Then documents  *)
(* themselves: what the validator lets through runs to its end             *)
(* (WorkflowGraph).                                                        *)
(***************************************************************************)
EXTENDS PostgresStore, Migrations, WorkflowFiles, WorkflowGraph, TLAPS

-----------------------------------------------------------------------------
(***************************************************************************)
(* The store over PostgreSQL implements the in-memory store, for any       *)
(* number of clients, whatever they write: every statement is a step of    *)
(* the in-memory store or changes nothing it knows of.                     *)
(*                                                                         *)
(* What makes it so is the lock on the run's row.  From the first update   *)
(* of a transaction to its end the row it has in hand is the committed one *)
(* with its own patch applied, so that committing it is one call of        *)
(* updateRun on the row as it is then.                                     *)
(***************************************************************************)

\* What a run's row is once there is one.
IsRun(row) == row.status \in RunStatus

\* A transaction that is under way has something to write, to a row that exists.
TxHasWork ==
  \A c \in Client :
    txStage[c] # "idle" => IsRun(runRecord) /\ txPatch[c] \in Patch /\ txPatch[c] # NoPatch

\* Who has the lock, at every stage, and what it has in hand.
TxHolds ==
  \A c \in Client :
    /\ txStage[c] \in {"idle", "begun"} => rowLock # c
    /\ txStage[c] = "columns set" =>
         IF SetsColumns(c)
         THEN /\ rowLock = c
              /\ rowDraft = [runRecord EXCEPT !.status = txPatch[c].status]
         ELSE rowLock # c
    /\ txStage[c] = "merged" =>
         /\ rowLock = c
         /\ rowDraft = Memory!Patched(runRecord, txPatch[c])

StoreInv == StoreTypeOK /\ (runRecord = NoRun \/ IsRun(runRecord)) /\ TxHasWork /\ TxHolds

-----------------------------------------------------------------------------
(* The same thing said in the two vocabularies. *)

LEMMA CoalesceIsOr ==
  ASSUME NEW value, NEW other
  PROVE  Coalesce(value, other) = Memory!Or(value, other)
  BY DEF Coalesce, Memory!Or, Absent, Memory!Absent

LEMMA SameRows == NoRun = Memory!NoRun /\ NoNode = Memory!NoNode /\ NoGate = Memory!NoGate
  BY DEF NoRun, Memory!NoRun, NoNode, Memory!NoNode, NoGate, Memory!NoGate,
         Absent, Memory!Absent, Key, Memory!Key

\* The columns first and the metadata next, or only one of them, make the patch.
LEMMA TwoUpdatesArePatch ==
  ASSUME NEW row \in RunRecord, NEW p \in PatchType
  PROVE  /\ p.status # Absent =>
              Memory!Patched(row, p) =
                [[row EXCEPT !.status = p.status]
                   EXCEPT !.meta = [k \in Key |-> Coalesce(p.meta[k], @[k])]]
         /\ p.status = Absent =>
              Memory!Patched(row, p) =
                [row EXCEPT !.meta = [k \in Key |-> Coalesce(p.meta[k], @[k])]]
         /\ (\A k \in Key : p.meta[k] = Absent) =>
              Memory!Patched(row, p) = [row EXCEPT !.status = Coalesce(p.status, @)]
         /\ Memory!Patched(row, p) \in RunRecord
         /\ IsRun(row) => IsRun(Memory!Patched(row, p))
<1>1. Memory!Patched(row, p) =
        [row EXCEPT !.status = Coalesce(p.status, @),
                    !.meta = [k \in Key |-> Coalesce(p.meta[k], @[k])]]
  BY CoalesceIsOr DEF Memory!Patched, Key, Memory!Key, RunRecord, PatchType
<1>2. /\ row.status \in RunStatus \cup {Absent} /\ row.meta \in [Key -> {"set", Absent}]
      /\ p.status \in RunStatus \cup {Absent} /\ p.meta \in [Key -> {"set", Absent}]
  BY DEF RunRecord, PatchType
<1>3. [k \in Key |-> Coalesce(p.meta[k], row.meta[k])] \in [Key -> {"set", Absent}]
  BY <1>2 DEF Coalesce
<1>4. (\A k \in Key : p.meta[k] = Absent) =>
        [k \in Key |-> Coalesce(p.meta[k], row.meta[k])] = row.meta
  BY <1>2 DEF Coalesce
<1> QED
  BY <1>1, <1>2, <1>3, <1>4 DEF RunRecord, Coalesce, IsRun

-----------------------------------------------------------------------------
(* The invariant. *)

LEMMA InitStoreInv == PostgresInit => StoreInv
<1> USE StoreAssumption
<1>1. NoRun \in RunRecord
  BY DEF NoRun, RunRecord, Field
<1>b. NoNode \in NodeRecord
  BY DEF NoNode, NodeRecord
<1>2. PostgresInit => StoreTypeOK
  <2>1. NoGate \in [decision : {Absent, "none", "approved", "rejected"}, reworks : 0..MaxReworks]
    BY DEF NoGate
  <2> QED
    BY <1>1, <1>b, <2>1 DEF PostgresInit, StoreTypeOK
<1>3. PostgresInit => TxHasWork /\ TxHolds
  BY DEF PostgresInit, TxHasWork, TxHolds
<1> QED
  BY <1>2, <1>3 DEF StoreInv, PostgresInit

\* Steps that leave transactions and the run's row alone.
LEMMA OtherRows ==
  ASSUME StoreInv, UNCHANGED <<runRecord, txVars>>,
         leaseLapsed' \in BOOLEAN, nodeRecord' \in NodeRecord,
         gateRecord' \in [Gate -> [decision : {Absent, "none", "approved", "rejected"},
                                   reworks : 0..MaxReworks]]
  PROVE  StoreInv'
  BY DEF StoreInv, StoreTypeOK, TxHasWork, IsRun, TxHolds, txVars, SetsColumns

\* A statement on the run's row by a client outside a transaction finds nobody
\* who has the row in hand.
LEMMA FreeRow ==
  ASSUME StoreInv, RowFree, UNCHANGED <<txVars, nodeRecord, gateRecord>>,
         IsRun(runRecord'), runRecord' \in RunRecord, leaseLapsed' \in BOOLEAN
  PROVE  StoreInv'
<1>1. \A c \in Client : rowLock # c
  BY StoreAssumption DEF RowFree
<1>2. \A c \in Client : txStage[c] # "merged" /\ ~(txStage[c] = "columns set" /\ SetsColumns(c))
  BY <1>1 DEF StoreInv, TxHolds
<1>3. StoreTypeOK'
  BY DEF StoreInv, StoreTypeOK, txVars
<1>4. TxHasWork'
  BY DEF StoreInv, TxHasWork, IsRun, txVars
<1>5. TxHolds'
  BY <1>1, <1>2 DEF StoreInv, TxHolds, txVars, SetsColumns
<1> QED
  BY <1>3, <1>4, <1>5 DEF StoreInv, IsRun

LEMMA BeginInv ==
  ASSUME StoreInv, NEW c \in Client, NEW p \in Patch, Begin(c, p)
  PROVE  StoreInv'
<1>1. StoreTypeOK'
  BY DEF Begin, StoreInv, StoreTypeOK, storeVars
<1>2. TxHasWork'
  BY DEF Begin, StoreInv, StoreTypeOK, TxHasWork, IsRun, storeVars
<1>3. TxHolds'
  BY DEF Begin, StoreInv, StoreTypeOK, TxHolds, SetsColumns, storeVars
<1> QED
  BY <1>1, <1>2, <1>3 DEF StoreInv, IsRun, Begin, storeVars

LEMMA SetColumnsInv ==
  ASSUME StoreInv, NEW c \in Client, SetColumns(c)
  PROVE  StoreInv'
<1> USE StoreAssumption
<1>1. txPatch[c] \in PatchType /\ rowLock # c /\ runRecord \in RunRecord
  BY DEF SetColumns, StoreInv, StoreTypeOK, TxHasWork, TxHolds
<1>2. CASE SetsColumns(c)
  <2>1. /\ rowLock = NoClient /\ rowLock' = c
        /\ rowDraft' = [runRecord EXCEPT !.status = txPatch[c].status]
        /\ UNCHANGED <<storeVars, txPatch>>
        /\ txStage' = [txStage EXCEPT ![c] = "columns set"]
    BY <1>1, <1>2 DEF SetColumns, Writes, SeenBy
  <2>2. rowDraft' \in RunRecord
    BY <1>1, <2>1 DEF RunRecord, PatchType
  <2>3. StoreTypeOK'
    BY <2>1, <2>2 DEF StoreInv, StoreTypeOK, storeVars
  <2>4. TxHasWork'
    BY <2>1 DEF StoreInv, StoreTypeOK, TxHasWork, IsRun, storeVars, SetColumns
  <2>5. TxHolds'
    BY <1>2, <2>1 DEF StoreInv, StoreTypeOK, TxHolds, SetsColumns, storeVars
  <2> QED
    BY <2>1, <2>3, <2>4, <2>5 DEF StoreInv, IsRun, storeVars
<1>3. CASE ~SetsColumns(c)
  <2>1. /\ UNCHANGED <<storeVars, txPatch, rowLock, rowDraft>>
        /\ txStage' = [txStage EXCEPT ![c] = "columns set"]
    BY <1>3 DEF SetColumns
  <2>2. StoreTypeOK'
    BY <2>1 DEF StoreInv, StoreTypeOK, storeVars
  <2>3. TxHasWork'
    BY <2>1 DEF StoreInv, StoreTypeOK, TxHasWork, IsRun, storeVars, SetColumns
  <2>4. TxHolds'
    BY <1>1, <1>3, <2>1 DEF StoreInv, StoreTypeOK, TxHolds, SetsColumns, storeVars
  <2> QED
    BY <2>1, <2>2, <2>3, <2>4 DEF StoreInv, IsRun, storeVars
<1> QED
  BY <1>2, <1>3

LEMMA MergeMetadataInv ==
  ASSUME StoreInv, NEW c \in Client, MergeMetadata(c)
  PROVE  StoreInv'
<1> USE StoreAssumption
<1>1. /\ txPatch[c] \in PatchType /\ txPatch[c] # NoPatch
      /\ runRecord \in RunRecord /\ txStage[c] = "columns set"
      /\ txStage' = [txStage EXCEPT ![c] = "merged"]
  BY DEF MergeMetadata, StoreInv, StoreTypeOK, TxHasWork, IsRun
<1>2. /\ UNCHANGED <<storeVars, txPatch>>
      /\ rowLock' = c /\ rowLock \in {NoClient, c}
      /\ rowDraft' = Memory!Patched(runRecord, txPatch[c])
  <2>1. CASE Merges(c)
    <3>1. /\ rowLock \in {NoClient, c} /\ rowLock' = c
          /\ rowDraft' = [SeenBy(c) EXCEPT
                            !.meta = [k \in Key |-> Coalesce(txPatch[c].meta[k], @[k])]]
          /\ UNCHANGED <<storeVars, txPatch>>
      BY <2>1 DEF MergeMetadata, Writes
    <3>2. CASE SetsColumns(c)
      <4>1. SeenBy(c) = [runRecord EXCEPT !.status = txPatch[c].status]
        BY <1>1, <3>2 DEF StoreInv, TxHolds, SeenBy
      <4>2. Memory!Patched(runRecord, txPatch[c]) =
              [[runRecord EXCEPT !.status = txPatch[c].status]
                 EXCEPT !.meta = [k \in Key |-> Coalesce(txPatch[c].meta[k], @[k])]]
        BY <1>1, <3>2, TwoUpdatesArePatch DEF SetsColumns
      <4> QED
        BY <3>1, <4>1, <4>2, Zenon
    <3>3. CASE ~SetsColumns(c)
      <4>1. SeenBy(c) = runRecord
        BY <1>1, <3>3 DEF StoreInv, TxHolds, SeenBy
      <4> QED
        BY <1>1, <3>1, <3>3, <4>1, TwoUpdatesArePatch DEF SetsColumns
    <3> QED
      BY <3>2, <3>3
  <2>2. CASE ~Merges(c)
    <3>1. UNCHANGED <<storeVars, txPatch, rowLock, rowDraft>>
      BY <2>2 DEF MergeMetadata
    <3>2. \A k \in Key : txPatch[c].meta[k] = Absent
      BY <2>2 DEF Merges
    <3>3. SetsColumns(c)
      <4>1. SUFFICES ASSUME txPatch[c].status = Absent PROVE FALSE
        BY DEF SetsColumns
      <4>2. txPatch[c].meta = [k \in Key |-> Absent]
        BY <1>1, <3>2 DEF PatchType
      <4>3. txPatch[c] = [status |-> txPatch[c].status, meta |-> txPatch[c].meta]
        BY <1>1 DEF PatchType
      <4> QED
        BY <1>1, <4>1, <4>2, <4>3 DEF NoPatch
    <3>4. /\ rowLock = c
          /\ rowDraft = [runRecord EXCEPT !.status = txPatch[c].status]
      BY <1>1, <3>3 DEF StoreInv, TxHolds
    <3>5. Memory!Patched(runRecord, txPatch[c]) = [runRecord EXCEPT !.status = txPatch[c].status]
      BY <1>1, <3>2, <3>3, TwoUpdatesArePatch DEF SetsColumns, Coalesce
    <3> QED
      BY <3>1, <3>4, <3>5
  <2> QED
    BY <2>1, <2>2
<1>3. rowDraft' \in RunRecord
  BY <1>1, <1>2, TwoUpdatesArePatch
<1>4. StoreTypeOK'
  BY <1>1, <1>2, <1>3 DEF StoreInv, StoreTypeOK, storeVars
<1>5. TxHasWork'
  BY <1>1, <1>2 DEF StoreInv, StoreTypeOK, TxHasWork, IsRun, storeVars
<1>6. TxHolds'
  <2> SUFFICES ASSUME NEW d \in Client
               PROVE  /\ txStage'[d] \in {"idle", "begun"} => rowLock' # d
                      /\ txStage'[d] = "columns set" =>
                           IF SetsColumns(d)'
                           THEN /\ rowLock' = d
                                /\ rowDraft' = [runRecord' EXCEPT !.status = txPatch'[d].status]
                           ELSE rowLock' # d
                      /\ txStage'[d] = "merged" =>
                           /\ rowLock' = d
                           /\ rowDraft' = Memory!Patched(runRecord', txPatch'[d])
    BY DEF TxHolds, Memory!Patched
  <2>1. UNCHANGED <<runRecord, txPatch>>
    BY <1>2 DEF storeVars
  <2>2. CASE d = c
    BY <1>1, <1>2, <2>1, <2>2 DEF StoreInv, StoreTypeOK
  <2>3. CASE d # c
    <3>1. txStage'[d] = txStage[d] /\ rowLock # d /\ rowLock' # d
      BY <1>1, <1>2, <2>3 DEF StoreInv, StoreTypeOK
    <3> QED
      BY <2>1, <3>1 DEF StoreInv, TxHolds, SetsColumns
  <2> QED
    BY <2>2, <2>3
<1> QED
  BY <1>2, <1>4, <1>5, <1>6 DEF StoreInv, IsRun, storeVars

\* Whatever a transaction leaves behind, it leaves the lock.
LEMMA EndTxInv ==
  ASSUME StoreInv, NEW c \in Client, EndTx(c), txStage[c] # "idle",
         runRecord' \in RunRecord, IsRun(runRecord'),
         runRecord' = runRecord \/ rowLock = c,
         UNCHANGED <<leaseLapsed, nodeRecord, gateRecord>>
  PROVE  StoreInv'
<1> USE StoreAssumption
<1>1. /\ txStage' = [txStage EXCEPT ![c] = "idle"]
      /\ txPatch' = [txPatch EXCEPT ![c] = NoPatch]
      /\ rowLock' = IF rowLock = c THEN NoClient ELSE rowLock
      /\ rowDraft' = IF rowLock = c THEN NoRun ELSE rowDraft
  BY DEF EndTx
<1>2. StoreTypeOK'
  <2>1. NoRun \in RunRecord
    BY DEF NoRun, RunRecord, Field, Key
  <2> QED
    BY <1>1, <2>1 DEF StoreInv, StoreTypeOK
<1>3. TxHasWork'
  BY <1>1 DEF StoreInv, StoreTypeOK, TxHasWork, IsRun
<1>4. TxHolds'
  <2> SUFFICES ASSUME NEW d \in Client
               PROVE  /\ txStage'[d] \in {"idle", "begun"} => rowLock' # d
                      /\ txStage'[d] = "columns set" =>
                           IF SetsColumns(d)'
                           THEN /\ rowLock' = d
                                /\ rowDraft' = [runRecord' EXCEPT !.status = txPatch'[d].status]
                           ELSE rowLock' # d
                      /\ txStage'[d] = "merged" =>
                           /\ rowLock' = d
                           /\ rowDraft' = Memory!Patched(runRecord', txPatch'[d])
    BY DEF TxHolds, Memory!Patched
  <2>1. CASE d = c
    BY <1>1, <2>1 DEF StoreInv, StoreTypeOK
  <2>2. CASE d # c
    <3>1. txStage'[d] = txStage[d] /\ txPatch'[d] = txPatch[d]
      BY <1>1, <2>2 DEF StoreInv, StoreTypeOK
    <3>2. CASE rowLock = c
      <4>1. rowLock # d /\ rowLock' # d
        BY <1>1, <2>2, <3>2
      <4> QED
        BY <3>1, <4>1 DEF StoreInv, TxHolds, SetsColumns
    <3>3. CASE rowLock # c
      <4>1. UNCHANGED <<rowLock, rowDraft, runRecord>>
        BY <1>1, <3>3
      <4> QED
        BY <3>1, <4>1 DEF StoreInv, TxHolds, SetsColumns
    <3> QED
      BY <3>2, <3>3
  <2> QED
    BY <2>1, <2>2
<1> QED
  BY <1>2, <1>3, <1>4 DEF StoreInv

LEMMA CommitUpdateInv ==
  ASSUME StoreInv, NEW c \in Client, CommitUpdate(c)
  PROVE  StoreInv'
<1>1. /\ txStage[c] = "merged" /\ rowLock = c /\ runRecord' = rowDraft
      /\ rowDraft = Memory!Patched(runRecord, txPatch[c])
      /\ runRecord \in RunRecord /\ IsRun(runRecord) /\ txPatch[c] \in PatchType
  BY StoreAssumption DEF CommitUpdate, StoreInv, StoreTypeOK, TxHasWork, TxHolds
<1>2. runRecord' \in RunRecord /\ IsRun(runRecord')
  BY <1>1, TwoUpdatesArePatch
<1> QED
  BY <1>1, <1>2, EndTxInv DEF CommitUpdate

LEMMA RollBackInv ==
  ASSUME StoreInv, NEW c \in Client, RollBack(c)
  PROVE  StoreInv'
<1>1. runRecord \in RunRecord /\ IsRun(runRecord)
  BY DEF RollBack, StoreInv, StoreTypeOK, TxHasWork, IsRun
<1> QED
  BY <1>1, EndTxInv DEF RollBack, storeVars

\* Both branches of the upsert merge as the in-memory store does.
LEMMA UpsertIsMerge ==
  ASSUME NEW row \in NodeRecord, NEW w \in NodeWriteType
  PROVE  /\ OnConflict(row, w) = Memory!Merged(row, w)
         /\ Excluded(w) = Memory!Merged(NoNode, w)
<1>1. OnConflict(row, w) =
        [status |-> w.status, attempt |-> Coalesce(w.attempt, row.attempt),
         output |-> Coalesce(w.output, row.output), error |-> w.error,
         effects |-> Coalesce(w.effects, row.effects),
         started |-> Coalesce(row.started, w.started)]
  BY DEF OnConflict, Excluded
<1>2. OnConflict(row, w) = Memory!Merged(row, w)
  BY <1>1, CoalesceIsOr DEF Memory!Merged
<1>3. Excluded(w) = Memory!Merged(NoNode, w)
  BY DEF Excluded, Memory!Merged, NoNode, Coalesce, Memory!Or, Absent, Memory!Absent
<1> QED
  BY <1>2, <1>3

LEMMA NodeTypes ==
  ASSUME StoreInv, NEW w \in NodeWrite
  PROVE  Upserted(w) \in NodeRecord
<1>1. w \in NodeWriteType /\ nodeRecord \in NodeRecord
  BY StoreAssumption DEF StoreInv, StoreTypeOK
<1>2. Excluded(w) \in NodeRecord
  BY <1>1, StoreAssumption DEF Excluded, NodeWriteType, NodeRecord, Coalesce
<1>3. OnConflict(nodeRecord, w) \in NodeRecord
  <2>1. OnConflict(nodeRecord, w) = Memory!Merged(nodeRecord, w)
    BY <1>1, UpsertIsMerge
  <2> QED
    BY <1>1, <2>1, CoalesceIsOr DEF Memory!Merged, NodeWriteType, NodeRecord, Coalesce
<1> QED
  BY <1>2, <1>3 DEF Upserted

LEMMA StoreInvStep ==
  ASSUME StoreInv, [PostgresNext]_postgresVars
  PROVE  StoreInv'
<1> USE StoreAssumption
<1>1. CASE UNCHANGED postgresVars
  BY <1>1, OtherRows DEF postgresVars, storeVars, StoreInv, StoreTypeOK
<1>2. CASE CreateRun
  <2>1. IsRun(runRecord') /\ runRecord' \in RunRecord
    BY <1>2 DEF CreateRun, NoRun, IsRun, RunStatus, RunRecord, Field
  <2>2. RowFree
    <3>1. ~IsRun(runRecord)
      BY <1>2 DEF CreateRun, NoRun, IsRun, RunStatus, Absent
    <3>2. \A c \in Client : txStage[c] = "idle"
      BY <3>1 DEF StoreInv, TxHasWork
    <3> QED
      BY <3>2 DEF StoreInv, StoreTypeOK, TxHolds, RowFree
  <2> QED
    BY <1>2, <2>1, <2>2, FreeRow DEF CreateRun, OnlyRun, StoreInv, StoreTypeOK
<1>3. CASE LeaseLapses \/ FindExpiredRuns \/ \E p \in Patch : GetRun(p)
  BY <1>3, OtherRows DEF LeaseLapses, FindExpiredRuns, GetRun, OnlyRun, StoreInv, StoreTypeOK
<1>4. CASE \E c \in Client, p \in Patch : Begin(c, p)
  BY <1>4, BeginInv
<1>5. CASE \E c \in Client : SetColumns(c) \/ MergeMetadata(c) \/ CommitUpdate(c) \/ RollBack(c)
  BY <1>5, SetColumnsInv, MergeMetadataInv, CommitUpdateInv, RollBackInv
<1>6. ASSUME NEW c \in Client, AcquireLease(c) \/ RenewLease(c) \/ ReleaseLease(c)
      PROVE  StoreInv'
  <2>1. /\ RowFree /\ UNCHANGED <<txVars, nodeRecord, gateRecord>>
        /\ runRecord \in RunRecord /\ IsRun(runRecord)
    BY <1>6 DEF AcquireLease, RenewLease, ReleaseLease, OnlyRun, StoreInv, StoreTypeOK
  <2>2. \/ runRecord' = runRecord
        \/ \E o \in Field : runRecord' = [runRecord EXCEPT !.owner = o]
    BY <1>6, <2>1 DEF AcquireLease, RenewLease, ReleaseLease, Field, RunRecord
  <2>3. runRecord' \in RunRecord /\ IsRun(runRecord')
    BY <2>1, <2>2 DEF RunRecord, IsRun
  <2>4. leaseLapsed' \in BOOLEAN
    BY <1>6 DEF AcquireLease, RenewLease, ReleaseLease, StoreInv, StoreTypeOK
  <2> QED
    BY <2>1, <2>3, <2>4, FreeRow
<1>7. CASE MarkRunningNodesInterrupted
  <2>1. nodeRecord' \in NodeRecord
    BY <1>7 DEF MarkRunningNodesInterrupted, StoreInv, StoreTypeOK, NodeRecord, NodeStatus
  <2> QED
    BY <1>7, <2>1, OtherRows DEF MarkRunningNodesInterrupted, StoreInv, StoreTypeOK
<1>8. CASE \E w \in NodeWrite : UpsertNode(w)
  BY <1>8, NodeTypes, OtherRows DEF UpsertNode, StoreInv, StoreTypeOK
<1>9. CASE GateStep
  <2>1. /\ gateRecord' \in [Gate -> [decision : {Absent, "none", "approved", "rejected"},
                                     reworks : 0..MaxReworks]]
        /\ UNCHANGED <<runRecord, leaseLapsed, nodeRecord, txVars>>
    <3>1. PICK g \in Gate : \/ CreateApproval(g) \/ IncrementReworkAttempts(g)
                            \/ \E d \in {"approved", "rejected"} : DecideApproval(g, d)
      BY <1>9 DEF GateStep
    <3>2. CASE CreateApproval(g)
      BY <3>2 DEF CreateApproval, StoreInv, StoreTypeOK
    <3>3. CASE IncrementReworkAttempts(g)
      <4>2. gateRecord[g].reworks \in 0..MaxReworks
        BY DEF StoreInv, StoreTypeOK
      <4>1. gateRecord[g].reworks + 1 \in 0..MaxReworks
        BY <3>3, <4>2 DEF IncrementReworkAttempts
      <4> QED
        BY <3>3, <4>1 DEF IncrementReworkAttempts, StoreInv, StoreTypeOK
    <3>4. CASE \E d \in {"approved", "rejected"} : DecideApproval(g, d)
      BY <3>4 DEF DecideApproval, StoreInv, StoreTypeOK
    <3> QED
      BY <3>1, <3>2, <3>3, <3>4
  <2> QED
    BY <2>1, OtherRows DEF StoreInv, StoreTypeOK
<1> QED
  BY <1>1, <1>2, <1>3, <1>4, <1>5, <1>6, <1>7, <1>8, <1>9
  DEF PostgresNext, RunRowStep, NodeStep

-----------------------------------------------------------------------------
(* The refinement. *)

LEMMA InitRefines == PostgresInit => Memory!MemoryInit
  BY SameRows DEF PostgresInit, Memory!MemoryInit

\* Statements inside a transaction show nothing.
LEMMA TxSteps ==
  ASSUME StoreInv, NEW c \in Client,
         SetColumns(c) \/ MergeMetadata(c) \/ RollBack(c) \/ \E p \in Patch : Begin(c, p)
  PROVE  UNCHANGED storeVars
  BY DEF SetColumns, MergeMetadata, RollBack, Begin, Writes

\* Its commit is one call of updateRun.
LEMMA CommitIsUpdate ==
  ASSUME StoreInv, NEW c \in Client, CommitUpdate(c)
  PROVE  \E p \in Patch : Memory!UpdateRun(p)
<1>1. /\ txPatch[c] \in Patch /\ runRecord # NoRun
      /\ rowDraft = Memory!Patched(runRecord, txPatch[c])
  <2>1. txStage[c] = "merged"
    BY DEF CommitUpdate
  <2>2. IsRun(runRecord) => runRecord # NoRun
    BY DEF IsRun, NoRun, RunStatus, Absent
  <2> QED
    BY <2>1, <2>2 DEF StoreInv, TxHasWork, TxHolds
<1>2. Memory!UpdateRun(txPatch[c])
  BY <1>1, SameRows DEF CommitUpdate, Memory!UpdateRun
<1> QED
  BY <1>1, <1>2

\* An empty patch leaves every row as it is.
LEMMA GetRunIsUpdate ==
  ASSUME StoreInv, NEW p \in Patch, GetRun(p)
  PROVE  Memory!UpdateRun(p)
<1>1. p \in PatchType /\ p = NoPatch /\ runRecord \in RunRecord
  BY StoreAssumption DEF GetRun, StoreInv, StoreTypeOK
<1>2. p.status = Absent /\ \A k \in Key : p.meta[k] = Absent
  BY <1>1 DEF NoPatch
<1>3. Memory!Patched(runRecord, p) = [runRecord EXCEPT !.status = runRecord.status]
  BY <1>1, <1>2, TwoUpdatesArePatch DEF Coalesce
<1>4. Memory!Patched(runRecord, p) = runRecord
  BY <1>1, <1>3 DEF RunRecord
<1> QED
  BY <1>4, SameRows DEF GetRun, OnlyRun, Memory!UpdateRun

LEMMA LeaseRefines ==
  ASSUME StoreInv, NEW c \in Client
  PROVE  /\ AcquireLease(c) => Memory!AcquireLease(c)
         /\ RenewLease(c) => Memory!RenewLease(c)
         /\ ReleaseLease(c) => Memory!ReleaseLease(c)
<1>1. AcquireLease(c) => Memory!AcquireLease(c)
  BY SameRows DEF AcquireLease, OnlyRun, Memory!AcquireLease, Absent, Memory!Absent
<1>2. RenewLease(c) => Memory!RenewLease(c)
  BY SameRows DEF RenewLease, OnlyRun, Memory!RenewLease, StoreInv, StoreTypeOK
<1>3. ReleaseLease(c) => Memory!ReleaseLease(c)
  BY SameRows DEF ReleaseLease, OnlyRun, Memory!ReleaseLease, StoreInv, StoreTypeOK,
                  RunRecord, Absent, Memory!Absent
<1> QED
  BY <1>1, <1>2, <1>3

LEMMA NodeRefines ==
  ASSUME StoreInv
  PROVE  /\ MarkRunningNodesInterrupted => Memory!MarkRunningNodesInterrupted
         /\ \A w \in NodeWrite : UpsertNode(w) => Memory!UpsertNode(w)
<1>1. MarkRunningNodesInterrupted => Memory!MarkRunningNodesInterrupted
  BY DEF MarkRunningNodesInterrupted, Memory!MarkRunningNodesInterrupted,
         StoreInv, StoreTypeOK, NodeRecord
<1>2. ASSUME NEW w \in NodeWrite, UpsertNode(w)
      PROVE  Memory!UpsertNode(w)
  <2>1. Upserted(w) = Memory!Merged(nodeRecord, w)
    BY UpsertIsMerge, StoreAssumption DEF Upserted, StoreInv, StoreTypeOK
  <2> QED
    BY <1>2, <2>1, SameRows DEF UpsertNode, Memory!UpsertNode
<1> QED
  BY <1>1, <1>2

LEMMA GateRefines ==
  ASSUME StoreInv, NEW g \in Gate
  PROVE  /\ CreateApproval(g) => Memory!CreateApproval(g)
         /\ IncrementReworkAttempts(g) => Memory!IncrementReworkAttempts(g)
         /\ \A d \in {"approved", "rejected"} : DecideApproval(g, d) => Memory!DecideApproval(g, d)
<1>1. CreateApproval(g) => Memory!CreateApproval(g)
  BY SameRows DEF CreateApproval, Memory!CreateApproval, Memory!Undecided
<1>2. IncrementReworkAttempts(g) => Memory!IncrementReworkAttempts(g)
  BY SameRows DEF IncrementReworkAttempts, Memory!IncrementReworkAttempts, StoreInv, StoreTypeOK
<1>3. ASSUME NEW d \in {"approved", "rejected"}, DecideApproval(g, d)
      PROVE  Memory!DecideApproval(g, d)
  BY <1>3, SameRows DEF DecideApproval, Memory!DecideApproval, Memory!Undecided
<1> QED
  BY <1>1, <1>2, <1>3

LEMMA StepRefines ==
  ASSUME StoreInv, [PostgresNext]_postgresVars
  PROVE  [Memory!MemoryNext]_storeVars
<1>1. CASE UNCHANGED postgresVars
  BY <1>1 DEF postgresVars
<1>2. CASE CreateRun
  <2>1. Memory!CreateRun
    BY <1>2, SameRows DEF CreateRun, OnlyRun, Memory!CreateRun
  <2> QED
    BY <2>1 DEF Memory!MemoryNext
<1>3. CASE LeaseLapses \/ FindExpiredRuns
  BY <1>3 DEF LeaseLapses, FindExpiredRuns, OnlyRun, Memory!LeaseLapses, Memory!FindExpiredRuns,
              Memory!MemoryNext, Absent, Memory!Absent
<1>4. CASE \E p \in Patch : GetRun(p)
  BY <1>4, GetRunIsUpdate DEF Memory!MemoryNext
<1>5. CASE \E c \in Client : \/ SetColumns(c) \/ MergeMetadata(c) \/ RollBack(c)
                             \/ \E p \in Patch : Begin(c, p)
  BY <1>5, TxSteps
<1>6. CASE \E c \in Client : CommitUpdate(c)
  BY <1>6, CommitIsUpdate DEF Memory!MemoryNext
<1>7. CASE \E c \in Client : AcquireLease(c) \/ RenewLease(c) \/ ReleaseLease(c)
  BY <1>7, LeaseRefines DEF Memory!MemoryNext
<1>8. CASE NodeStep
  BY <1>8, NodeRefines DEF NodeStep, Memory!MemoryNext
<1>9. CASE GateStep
  BY <1>9, GateRefines DEF GateStep, Memory!MemoryNext
<1> QED
  BY <1>1, <1>2, <1>3, <1>4, <1>5, <1>6, <1>7, <1>8, <1>9 DEF PostgresNext, RunRowStep

\* The rows of the engine store are always of their types, and so is what a
\* transaction has in hand (postgres.ts, updateRun and the row mappers).
THEOREM StoreTypes == PostgresSpec => []StoreTypeOK
<1>1. StoreInv /\ [PostgresNext]_postgresVars => StoreInv'
  BY StoreInvStep
<1> QED
  BY InitStoreInv, <1>1, PTL DEF PostgresSpec, StoreInv

\* PostgresStore behaves as MemoryStore: updateRun's transaction is one step,
\* no concurrent patch, lease or answer is lost, and an upsert keeps what it is
\* not given (postgres.ts against memory.ts).
THEOREM PostgresKeepsMemory == PostgresSpec => KeepsMemory
<1>1. StoreInv /\ [PostgresNext]_postgresVars => StoreInv'
  BY StoreInvStep
<1>2. StoreInv /\ [PostgresNext]_postgresVars => [Memory!MemoryNext]_(Memory!storeVars)
  BY StepRefines DEF storeVars, Memory!storeVars
<1> QED
  BY InitStoreInv, InitRefines, <1>1, <1>2, PTL DEF PostgresSpec, KeepsMemory, Memory!MemorySpec
-----------------------------------------------------------------------------
(***************************************************************************)
(* Any number of processes may open the database at once, with either      *)
(* build, and die as often as they like.  The applied set a process works  *)
(* from is read inside the lock, so it is the ledger for as long as the    *)
(* process is applying, and the tables are those of the ledger; hence no   *)
(* migration meets a table that is there already, and one that needs a     *)
(* table finds it, because migrations are applied in version order.        *)
(***************************************************************************)

\* The lock and the two stages it covers.
LockCovers ==
  \A p \in Opener : at[p] \in {"locked", "applying"} <=> lock = p

\* What a process at work has read, and what it has done so far.
WorksFromLedger ==
  \A p \in Opener :
    /\ at[p] = "applying" => have[p] = ledger /\ done[p] \subseteq build[p] \ ledger
    /\ at[p] # "applying" => done[p] = {}

\* The tables are those of the ledger, unless a pre-merge build made them, and
\* then nobody gets past the check.
TablesMatch ==
  IF PreMerge \in ledger
  THEN \A p \in Opener : at[p] \in {"closed", "refused"}
  ELSE /\ CreatedBy(ledger) \subseteq tables
       /\ tables \subseteq CreatedBy(ledger) \cup {Ledger}

\* Nobody has failed, and whoever has opened the database was served.
Served == \A p \in Opener : at[p] # "failed" /\ (at[p] = "open" => build[p] \subseteq ledger)

MigrationInv == MigrationTypeOK /\ LockCovers /\ WorksFromLedger /\ TablesMatch /\ Served

-----------------------------------------------------------------------------
(* The migrations. *)

LEMMA CreatesValue ==
  /\ Creates(1) = {"workflow_runs", "workflow_run_nodes", "workflow_run_loop_iterations",
                   "workflow_run_events", "workflow_approvals", "worktrees"}
  /\ Creates(2) = {"workflow_runs.external_key", "issue_analyses", "synced_repos", "registry_meta"}
  /\ Creates(4) = {}
  /\ Creates(100) = {"tickets", "ticket_targets", "control_events", "tracker_outbox", "scaffold_jobs"}
  /\ Creates(200) = {"hub_workspaces", "hub_log_events", "hub_token_daily"}
  BY DEF Creates, EngineCreates, ControlCreates, HubCreates

\* No two of them create the same table, and none creates the ledger.
LEMMA CreatesDisjoint ==
  ASSUME NEW v \in Version, NEW w \in Version, v # w
  PROVE  Creates(v) \cap Creates(w) = {} /\ Ledger \notin Creates(v)
  BY CreatesValue DEF Version, Ledger

LEMMA CreatedByUnion ==
  ASSUME NEW A, NEW B
  PROVE  /\ CreatedBy(A \cup B) = CreatedBy(A) \cup CreatedBy(B)
         /\ A \subseteq B => CreatedBy(A) \subseteq CreatedBy(B)
  BY DEF CreatedBy

\* A pending migration creates nothing that is there, and what it needs is.
LEMMA PendingApplies ==
  ASSUME MigrationInv, NEW p \in Opener, at[p] = "applying",
         NEW v \in Pending(p), \A w \in Pending(p) : v <= w
  PROVE  LET visible == tables \cup CreatedBy(done[p])
         IN Creates(v) \cap visible = {} /\ Needs(v) \subseteq visible
<1>1. PreMerge \notin ledger
  BY DEF MigrationInv, TablesMatch
<1>2. /\ ledger \subseteq Version /\ build[p] \subseteq Version /\ 1 \in build[p]
      /\ done[p] \subseteq Version /\ have[p] = ledger
  BY <1>1 DEF MigrationInv, MigrationTypeOK, WorksFromLedger, PreMerge, Build, Version
<1>3. v \in Version /\ v \notin ledger /\ v \notin done[p]
  BY <1>2 DEF Pending
<1>4. Creates(v) \cap CreatedBy(ledger) = {} /\ Creates(v) \cap CreatedBy(done[p]) = {}
  BY <1>2, <1>3, CreatesDisjoint DEF CreatedBy
<1>5. Ledger \notin Creates(v)
  BY <1>3, CreatesValue DEF Version, Ledger
<1>6. tables \subseteq CreatedBy(ledger) \cup {Ledger} /\ CreatedBy(ledger) \subseteq tables
  BY <1>1 DEF MigrationInv, TablesMatch
<1>7. Needs(v) \subseteq tables \cup CreatedBy(done[p])
  <2>1. CASE v \in {2, 4}
    <3>1. 1 \in ledger \cup done[p]
      BY <1>2, <2>1 DEF Pending
    <3>2. "workflow_runs" \in CreatedBy(ledger) \cup CreatedBy(done[p])
      BY <3>1, CreatesValue DEF CreatedBy
    <3> QED
      BY <1>6, <2>1, <3>2 DEF Needs
  <2>2. CASE v \notin {2, 4}
    BY <2>2 DEF Needs
  <2> QED
    BY <2>1, <2>2
<1> QED
  BY <1>4, <1>5, <1>6, <1>7

-----------------------------------------------------------------------------
(* The invariant. *)

LEMMA InitMigration == MigrationInit => MigrationInv
<1> SUFFICES ASSUME MigrationInit PROVE MigrationInv
  OBVIOUS
<1> USE MigrationsAssumption DEF MigrationInit
<1>1. CreatedBy({}) = {} /\ {1, 2} \subseteq Version /\ PreMerge \notin Version
  BY DEF CreatedBy, Version, PreMerge
<1>2. LockCovers /\ WorksFromLedger /\ Served
  <2>1. Nobody \notin Opener
    BY MigrationsAssumption
  <2> QED
    BY <2>1 DEF LockCovers, WorksFromLedger, Served
<1>3. TablesMatch
  BY <1>1 DEF TablesMatch, PreMerge, Version
<1>4. /\ ledger \subseteq Version \cup {PreMerge}
      /\ tables \subseteq CreatedBy(Version) \cup {Ledger}
  <2>1. CreatedBy({1, 2}) \subseteq CreatedBy(Version)
    BY <1>1, CreatedByUnion
  <2>2. CreatedBy(Version \ {4}) \subseteq CreatedBy(Version)
    BY CreatedByUnion
  <2>3. {"scaffold_jobs", "hub_workspaces", "hub_token_daily"} \subseteq CreatedBy(Version)
    BY CreatesValue DEF CreatedBy, Version
  <2> QED
    BY <1>1, <2>1, <2>2, <2>3 DEF PreMergeTables
<1> QED
  BY <1>2, <1>3, <1>4 DEF MigrationInv, MigrationTypeOK

LEMMA CheckInv ==
  ASSUME MigrationInv, NEW p \in Opener, AssertNotPreMerge(p)
  PROVE  MigrationInv'
<1> USE DEF AssertNotPreMerge, Goes
<1>1. MigrationTypeOK'
  BY DEF MigrationInv, MigrationTypeOK
<1>2. LockCovers'
  BY DEF MigrationInv, MigrationTypeOK, LockCovers
<1>3. WorksFromLedger'
  BY DEF MigrationInv, MigrationTypeOK, WorksFromLedger
<1>4. TablesMatch'
  BY DEF MigrationInv, MigrationTypeOK, TablesMatch
<1>5. Served'
  BY DEF MigrationInv, MigrationTypeOK, Served
<1> QED
  BY <1>1, <1>2, <1>3, <1>4, <1>5 DEF MigrationInv

LEMMA TakeLockInv ==
  ASSUME MigrationInv, NEW p \in Opener, TakeLock(p)
  PROVE  MigrationInv'
<1> USE MigrationsAssumption DEF TakeLock, Goes
<1>1. MigrationTypeOK'
  BY DEF MigrationInv, MigrationTypeOK
<1>2. LockCovers'
  BY DEF MigrationInv, MigrationTypeOK, LockCovers
<1>3. WorksFromLedger'
  BY DEF MigrationInv, MigrationTypeOK, WorksFromLedger
<1>4. TablesMatch'
  BY DEF MigrationInv, MigrationTypeOK, TablesMatch
<1>5. Served'
  BY DEF MigrationInv, MigrationTypeOK, Served
<1> QED
  BY <1>1, <1>2, <1>3, <1>4, <1>5 DEF MigrationInv

LEMMA ReadAppliedInv ==
  ASSUME MigrationInv, NEW p \in Opener, ReadApplied(p)
  PROVE  MigrationInv'
<1> USE DEF ReadApplied, Goes
<1>1. MigrationTypeOK'
  BY DEF MigrationInv, MigrationTypeOK
<1>2. LockCovers'
  BY DEF MigrationInv, MigrationTypeOK, LockCovers
<1>3. WorksFromLedger'
  BY DEF MigrationInv, MigrationTypeOK, WorksFromLedger
<1>4. TablesMatch'
  BY DEF MigrationInv, MigrationTypeOK, TablesMatch
<1>5. Served'
  BY DEF MigrationInv, MigrationTypeOK, Served
<1> QED
  BY <1>1, <1>2, <1>3, <1>4, <1>5 DEF MigrationInv

LEMMA ApplyInv ==
  ASSUME MigrationInv, NEW p \in Opener, Apply(p)
  PROVE  MigrationInv'
<1>1. PICK v \in Pending(p) : \A w \in Pending(p) : v <= w
  BY DEF Apply
<1>2. /\ at[p] = "applying" /\ UNCHANGED <<at, lock, ledger, tables, build, have, crashed>>
      /\ \E w \in Pending(p) : done' = [done EXCEPT ![p] = @ \cup {w}]
  BY PendingApplies DEF Apply
<1>3. PICK w \in Pending(p) : done' = [done EXCEPT ![p] = @ \cup {w}]
  BY <1>2
<1>4. w \in Version /\ w \in build[p] \ ledger
  <2>1. have[p] = ledger /\ build[p] \subseteq Version
    BY <1>2 DEF MigrationInv, MigrationTypeOK, WorksFromLedger, Build
  <2> QED
    BY <1>3, <2>1 DEF Pending
<1>5. MigrationTypeOK'
  BY <1>2, <1>3, <1>4 DEF MigrationInv, MigrationTypeOK
<1>6. LockCovers' /\ TablesMatch' /\ Served'
  BY <1>2 DEF MigrationInv, LockCovers, TablesMatch, Served
<1>7. WorksFromLedger'
  BY <1>2, <1>3, <1>4 DEF MigrationInv, MigrationTypeOK, WorksFromLedger
<1> QED
  BY <1>5, <1>6, <1>7 DEF MigrationInv

LEMMA CommitSchemaInv ==
  ASSUME MigrationInv, NEW p \in Opener, CommitSchema(p)
  PROVE  MigrationInv'
<1> USE MigrationsAssumption
<1>1. /\ at[p] = "applying" /\ at' = [at EXCEPT ![p] = "open"]
      /\ lock' = Nobody /\ done' = [done EXCEPT ![p] = {}]
      /\ Pending(p) = {}
      /\ ledger' = ledger \cup done[p]
      /\ tables' = tables \cup CreatedBy(done[p]) \cup {Ledger}
      /\ UNCHANGED <<build, have, crashed>>
  BY DEF CommitSchema, Ends, Goes
<1>2. /\ PreMerge \notin ledger /\ PreMerge \notin ledger'
      /\ ledger \subseteq Version /\ ledger' \subseteq Version
      /\ have[p] = ledger /\ lock = p
  <2>1. PreMerge \notin ledger /\ have[p] = ledger /\ lock = p /\ done[p] \subseteq Version
    BY <1>1 DEF MigrationInv, MigrationTypeOK, TablesMatch, WorksFromLedger, LockCovers
  <2>2. PreMerge \notin Version
    BY DEF PreMerge, Version
  <2> QED
    BY <1>1, <2>1, <2>2 DEF MigrationInv, MigrationTypeOK
<1>3. build[p] \subseteq ledger'
  BY <1>1, <1>2 DEF Pending
<1>4. CreatedBy(ledger') = CreatedBy(ledger) \cup CreatedBy(done[p])
  BY <1>1, CreatedByUnion
<1>5. TablesMatch'
  <2>1. /\ CreatedBy(ledger') \subseteq tables'
        /\ tables' \subseteq CreatedBy(ledger') \cup {Ledger}
    BY <1>1, <1>2, <1>4 DEF MigrationInv, TablesMatch
  <2>2. CreatedBy(ledger)' = CreatedBy(ledger')
    BY DEF CreatedBy, Creates
  <2> QED
    BY <1>2, <2>1, <2>2 DEF TablesMatch
<1>6. MigrationTypeOK'
  <2>1. CreatedBy(ledger') \subseteq CreatedBy(Version)
    BY <1>2, CreatedByUnion
  <2>2. tables' \subseteq CreatedBy(Version) \cup {Ledger}
    BY <1>1, <1>2, <1>4, <2>1 DEF MigrationInv, TablesMatch
  <2> QED
    BY <1>1, <1>2, <2>2 DEF MigrationInv, MigrationTypeOK
<1>7. LockCovers'
  BY <1>1, <1>2 DEF MigrationInv, MigrationTypeOK, LockCovers
<1>8. WorksFromLedger'
  BY <1>1, <1>2 DEF MigrationInv, MigrationTypeOK, WorksFromLedger, LockCovers
<1>9. Served'
  BY <1>1, <1>3 DEF MigrationInv, MigrationTypeOK, Served
<1> QED
  BY <1>5, <1>6, <1>7, <1>8, <1>9 DEF MigrationInv

LEMMA DieInv ==
  ASSUME MigrationInv, NEW p \in Opener, Die(p)
  PROVE  MigrationInv'
<1> USE MigrationsAssumption DEF Die
<1>1. MigrationTypeOK'
  BY DEF MigrationInv, MigrationTypeOK
<1>2. LockCovers'
  BY DEF MigrationInv, MigrationTypeOK, LockCovers
<1>3. WorksFromLedger'
  BY DEF MigrationInv, MigrationTypeOK, WorksFromLedger
<1>4. TablesMatch'
  BY DEF MigrationInv, MigrationTypeOK, TablesMatch
<1>5. Served'
  BY DEF MigrationInv, MigrationTypeOK, Served
<1> QED
  BY <1>1, <1>2, <1>3, <1>4, <1>5 DEF MigrationInv

LEMMA StepMigration ==
  ASSUME MigrationInv, [MigrationNext]_migrationVars
  PROVE  MigrationInv'
<1>1. CASE UNCHANGED migrationVars
  BY <1>1 DEF migrationVars, MigrationInv, MigrationTypeOK, LockCovers, WorksFromLedger,
              TablesMatch, Served
<1>2. CASE MigrationNext
  BY <1>2, CheckInv, TakeLockInv, ReadAppliedInv, ApplyInv, CommitSchemaInv, DieInv
  DEF MigrationNext, OpenerStep
<1> QED
  BY <1>1, <1>2

\* What was served is the whole schema of the build.
LEMMA InvImpliesWhole == MigrationInv => EveryoneOpensWholeSchema
<1> SUFFICES ASSUME MigrationInv, NEW p \in Opener, at[p] = "open"
             PROVE  CreatedBy(build[p]) \subseteq tables /\ build[p] \subseteq ledger
  BY DEF EveryoneOpensWholeSchema, MigrationInv, Served
<1>1. build[p] \subseteq ledger /\ PreMerge \notin ledger
  BY DEF MigrationInv, Served, TablesMatch
<1>2. CreatedBy(build[p]) \subseteq CreatedBy(ledger)
  BY <1>1, CreatedByUnion
<1> QED
  BY <1>1, <1>2 DEF MigrationInv, TablesMatch

\* Nobody fails in a CREATE TABLE, and whoever has opened the database finds
\* every table its build works with (store/migrate.ts).
THEOREM WholeSchemaCorrect == MigrationSpec => []EveryoneOpensWholeSchema
<1>1. MigrationInv /\ [MigrationNext]_migrationVars => MigrationInv'
  BY StepMigration
<1> QED
  BY InitMigration, InvImpliesWhole, <1>1, PTL DEF MigrationSpec
-----------------------------------------------------------------------------
(***************************************************************************)
(* A run is one document, for any number of surfaces that answer its gate, *)
(* of edits and of restarts.  A runner in memory, and one an answer has    *)
(* built and not yet used, were built from the run's own revision, because *)
(* the hash is compared whenever one is built and the run's hash is        *)
(* written once.                                                           *)
(***************************************************************************)

\* Nothing has happened to a run that was never started.
Untouched ==
  run.status = "none" =>
    /\ run.hash = NoRevision /\ driver = NoRevision /\ gate = "unasked"
    /\ \A w \in Work : rows[w] = NoRevision
    /\ \A s \in Surface : prepared[s] = NoRevision

\* Every runner there is, is the run's.
OwnRunners ==
  /\ driver \in {NoRevision, run.hash}
  /\ \A s \in Surface : prepared[s] \in {NoRevision, run.hash}

FilesInv == FilesTypeOK /\ Untouched /\ OwnRunners /\ OneDocumentPerRun

\* A name resolves to a revision or to nothing, whatever the files are.
LEMMA ResolvedType ==
  ASSUME file \in [Root -> File]
  PROVE  Resolved \in Revision \cup {NoRevision}
<1>1. Scanned \in File
  BY DEF Scanned, Root
<1> QED
  BY <1>1 DEF Resolved, HashOf, Loads, File, Revision

LEMMA InitFiles == FilesInit => FilesInv
  BY FilesAssumption
  DEF FilesInit, FilesInv, FilesTypeOK, Untouched, OwnRunners, OneDocumentPerRun, Work, Revision, NoRevision

LEMMA StepFiles ==
  ASSUME FilesInv, [FilesNext]_fileVars
  PROVE  FilesInv'
<1> USE FilesAssumption
    DEF FilesInv, FilesTypeOK, Untouched, OwnRunners, OneDocumentPerRun
<1>0. Resolved \in Revision \cup {NoRevision} /\ NoRevision \notin Revision
  BY ResolvedType DEF Revision, NoRevision
<1>1. CASE UNCHANGED fileVars
  BY <1>1 DEF fileVars
<1>2. ASSUME NEW root \in Root, Edit(root)
      PROVE  FilesInv'
  BY <1>2 DEF Edit
<1>3. CASE StartNamed
  BY <1>0, <1>3 DEF StartNamed
<1>4. CASE ParkAtGate
  BY <1>0, <1>4 DEF ParkAtGate, Work
<1>5. CASE RunEnds
  BY <1>0, <1>5 DEF RunEnds
<1>6. CASE ExecutorDies
  BY <1>0, <1>6 DEF ExecutorDies
<1>7. CASE Recover
  BY <1>0, <1>7 DEF Recover, PrepareResume
<1>8. ASSUME NEW w \in Work, Completes(w)
      PROVE  FilesInv'
  BY <1>0, <1>8 DEF Completes
<1>9. ASSUME NEW s \in Surface, Prepare(s)
      PROVE  FilesInv'
  BY <1>0, <1>9 DEF Prepare, PrepareResume
<1>10. ASSUME NEW s \in Surface, RecordDecision(s)
       PROVE  FilesInv'
  BY <1>0, <1>10 DEF RecordDecision
<1> QED
  BY <1>1, <1>2, <1>3, <1>4, <1>5, <1>6, <1>7, <1>8, <1>9, <1>10 DEF FilesNext

\* Whatever is edited, broken and restored while a run works, waits at its gate
\* or lies interrupted, its completed nodes come from one revision
\* (engine/index.ts, prepareResume and decide; recovery.ts).
THEOREM OneDocumentCorrect == FilesSpec => []OneDocumentPerRun
<1>1. FilesInv /\ [FilesNext]_fileVars => FilesInv'
  BY StepFiles
<1> QED
  BY InitFiles, <1>1, PTL DEF FilesSpec, FilesInv

-----------------------------------------------------------------------------
(***************************************************************************)
(* A document that passed the validator is carried out to its end, and the *)
(* branch it takes is taken for good, for documents of any number of       *)
(* nodes (WorkflowGraph).                                                  *)
(*                                                                         *)
(* The settled nodes are closed under depends_on, because nothing begins   *)
(* before what it waits for has settled.  Hence the node a condition asks  *)
(* about has spoken when the condition is judged, if it is upstream; and   *)
(* were nothing open and nothing running, the nodes that are left would    *)
(* wait for each other.                                                    *)
(***************************************************************************)

\* What an accepted document is: it names no node that it does not have, no
\* nodes wait for each other, and, unless it came with a warning, each of the two
\* answers waits for the node that it asks about.
SoundDocument ==
  verdict = "accepted" =>
    /\ document \in Document
    /\ \A n \in Step : document.deps[n] \subseteq Step
    /\ ~Cyclic(Step, document.deps)
    /\ document.asks \in Step
    /\ ~warned => \A n \in Route : document.asks \in Upstream(Step, document.deps, n)

\* What n waits for has settled.
DepsSettled(n) == \A d \in document.deps[n] : states[d] \in StepSettled

\* What a plan decided on waits for nothing and has not been started.
PlanStands ==
  loop = "act" =>
    /\ decided.skip # {}
    /\ decided.skip \cap decided.ready = {}
    /\ \A n \in decided.skip : states[n] \in {"pending", "skipped"} /\ DepsSettled(n)
    /\ \A n \in decided.ready : states[n] = "pending" /\ DepsSettled(n)

\* Only nodes of an accepted document move.
UnacceptedRests == verdict # "accepted" => (\A n \in Step : states[n] = "pending") /\ loop = "plan"

\* Nothing begins before what it waits for has settled.
StartsInOrder == \A n \in Step : states[n] # "pending" => DepsSettled(n)

\* The condition was judged on what the question's node had left for good.
JudgedForGood ==
  verdict = "accepted" /\ ~warned =>
    /\ TakenBranchHolds
    /\ loop = "act" => \A n \in decided.ready : EvaluateWhen(n)

GraphInv ==
  /\ GraphTypeOK /\ SoundDocument /\ UnacceptedRests
  /\ StartsInOrder /\ PlanStands /\ JudgedForGood
  /\ AcceptedWorkflowRunsThrough

\* The node a condition asks about has settled before the condition is judged.
LEMMA QuestionSettled ==
  ASSUME GraphTypeOK, SoundDocument, StartsInOrder, verdict = "accepted", ~warned,
         NEW n \in Route, n \in Step, DepsSettled(n)
  PROVE  states[document.asks] \in StepSettled
<1> DEFINE named == UNION {document.deps[m] : m \in Step}
           spoken == {m \in named : states[m] \in StepSettled}
<1>1. document.asks \in Upstream(Step, document.deps, n)
  BY DEF SoundDocument
<1>2. document.deps[n] \subseteq spoken
  BY DEF DepsSettled, SoundDocument
<1>3. \A m \in spoken \cap Step : document.deps[m] \subseteq spoken
  BY DEF StartsInOrder, DepsSettled, StepSettled
<1>4. spoken \in SUBSET named
  OBVIOUS
<1>5. document.asks \in spoken
  <2> HIDE DEF spoken
  <2> QED
    BY <1>1, <1>2, <1>3, <1>4 DEF Upstream
<1> QED
  BY <1>5

\* The condition of a node keeps its verdict while the question's node keeps
\* what it left.
LEMMA SameVerdict ==
  ASSUME NEW n, UNCHANGED document, outputs'[document.asks] = outputs[document.asks]
  PROVE  EvaluateWhen(n)' <=> EvaluateWhen(n)
  BY DEF EvaluateWhen

\* Whatever has not settled includes a node that can be decided on, when nothing
\* runs.
LEMMA SomethingOpen ==
  ASSUME GraphTypeOK, SoundDocument, verdict = "accepted", InFlight = {}, Open = {}
  PROVE  \A n \in Step : states[n] \in StepSettled
<1> DEFINE left == {n \in Step : states[n] \notin StepSettled}
<1>1. SUFFICES ASSUME left # {} PROVE FALSE
  OBVIOUS
<1>2. \A n \in left : document.deps[n] \cap left # {}
  <2> SUFFICES ASSUME NEW n \in left PROVE document.deps[n] \cap left # {}
    OBVIOUS
  <2>1. n \in Step /\ states[n] \notin StepSettled /\ states[n] # "running"
    BY DEF InFlight
  <2>2. ~ \A d \in document.deps[n] : states[d] \in StepSettled
    BY <2>1 DEF Open
  <2> QED
    BY <2>1, <2>2 DEF SoundDocument
<1>3. left \in SUBSET Step
  OBVIOUS
<1>4. Cyclic(Step, document.deps)
  <2> HIDE DEF left
  <2> QED
    BY <1>1, <1>2, <1>3 DEF Cyclic
<1> QED
  BY <1>4 DEF SoundDocument

LEMMA RouteSteps == Route \subseteq Step
  BY GraphAssumption DEF Route, Step

LEMMA GraphInitInv == GraphInit => GraphInv
<1> SUFFICES ASSUME GraphInit PROVE GraphInv
  OBVIOUS
<1>1. 1 \in Step /\ Step \subseteq Nat
  BY GraphAssumption DEF Step
<1>2. GraphTypeOK
  BY <1>1 DEF GraphInit, GraphTypeOK, StepStatus, Text, Verdict, Document, Blank
<1> QED
  BY <1>2, RouteSteps DEF GraphInit, GraphInv, SoundDocument, UnacceptedRests, StartsInOrder, PlanStands, JudgedForGood, AcceptedWorkflowRunsThrough

\* A step of the run: the document stays, what has settled stays as it is, and
\* nothing begins before what it waits for has settled.
GraphRunStep ==
  /\ UNCHANGED <<document, verdict, warned>>
  /\ verdict = "accepted"
  /\ GraphTypeOK'
  /\ \A n \in Step : states[n] \in StepSettled => states'[n] = states[n] /\ outputs'[n] = outputs[n]
  /\ \A n \in Step : states[n] = "pending" /\ states'[n] # "pending" => DepsSettled(n)

LEMMA DepsStaySettled ==
  ASSUME GraphInv, GraphRunStep, NEW n \in Step, DepsSettled(n)
  PROVE  DepsSettled(n)'
  BY DEF GraphInv, SoundDocument, GraphRunStep, DepsSettled

LEMMA VerdictStays ==
  ASSUME GraphInv, GraphRunStep, NEW n \in Step, DepsSettled(n), ~warned, EvaluateWhen(n)
  PROVE  EvaluateWhen(n)'
<1>1. CASE n \notin Route
  BY <1>1 DEF EvaluateWhen
<1>2. CASE n \in Route
  <2>1. states[document.asks] \in StepSettled /\ document.asks \in Step
    BY <1>2, QuestionSettled DEF GraphInv, GraphRunStep, SoundDocument
  <2>2. outputs'[document.asks] = outputs[document.asks] /\ UNCHANGED document
    BY <2>1 DEF GraphRunStep
  <2> QED
    BY <2>2, SameVerdict
<1> QED
  BY <1>1, <1>2

\* What a step of the run has to show for itself: what it starts was decided on
\* with a condition that holds, and what it decides on is open.
LEMMA GraphRunStepKeeps ==
  ASSUME GraphInv, GraphRunStep, PlanStands', loop' # "stuck",
         ~warned => \A n \in Route :
           states[n] = "pending" /\ states'[n] \in {"running", "completed", "failed"} => EvaluateWhen(n),
         loop' = "act" =>
           \A n \in decided'.ready : n \in Step /\ DepsSettled(n) /\ (~warned => EvaluateWhen(n))
  PROVE  GraphInv'
<1>1. GraphTypeOK' /\ SoundDocument' /\ UnacceptedRests' /\ AcceptedWorkflowRunsThrough'
  BY DEF GraphRunStep, GraphInv, GraphTypeOK, SoundDocument, UnacceptedRests, AcceptedWorkflowRunsThrough
<1>2. StartsInOrder'
  <2> SUFFICES ASSUME NEW n \in Step, states'[n] # "pending" PROVE DepsSettled(n)'
    BY DEF StartsInOrder
  <2>1. DepsSettled(n)
    BY DEF GraphInv, StartsInOrder, GraphRunStep
  <2> QED
    BY <2>1, DepsStaySettled
<1>3. JudgedForGood'
  <2> SUFFICES ASSUME ~warned PROVE JudgedForGood'
    BY DEF JudgedForGood, GraphRunStep
  <2>1. ASSUME NEW n \in Route, states'[n] \in {"running", "completed", "failed"}
        PROVE  EvaluateWhen(n)'
    <3>0. n \in Step /\ states[n] \in StepStatus
      BY RouteSteps DEF GraphInv, GraphTypeOK
    <3>1. DepsSettled(n)
      BY <2>1, <3>0 DEF GraphInv, StartsInOrder, GraphRunStep
    <3>2. EvaluateWhen(n)
      <4>1. CASE states[n] = "pending"
        BY <2>1, <4>1
      <4>2. CASE states[n] # "pending"
        <5>1. states[n] \in {"running", "completed", "failed"}
          BY <2>1, <3>0, <4>2 DEF GraphRunStep, StepStatus, StepSettled
        <5> QED
          BY <5>1 DEF GraphInv, JudgedForGood, TakenBranchHolds, GraphRunStep
      <4> QED
        BY <4>1, <4>2
    <3> QED
      BY <3>0, <3>1, <3>2, VerdictStays
  <2>2. ASSUME loop' = "act", NEW n \in decided'.ready
        PROVE  EvaluateWhen(n)'
    BY <2>2, VerdictStays
  <2> QED
    BY <2>1, <2>2 DEF JudgedForGood, TakenBranchHolds
<1> QED
  BY <1>1, <1>2, <1>3 DEF GraphInv

LEMMA OpenIs ==
  ASSUME GraphTypeOK, NEW n \in Open
  PROVE  n \in Step /\ states[n] = "pending" /\ DepsSettled(n)
  BY DEF Open, DepsSettled, GraphTypeOK, StepStatus, StepSettled

LEMMA PlanKeeps == ASSUME GraphInv, Plan PROVE GraphInv'
<1> DEFINE ready == {n \in Open : TriggerHolds(n) /\ EvaluateWhen(n)}
           skip == Open \ ready
<1>0. verdict = "accepted" /\ loop = "plan" /\ UNCHANGED <<document, verdict, warned, outputs>>
  BY DEF Plan
<1>1. \A n \in ready \cup skip : n \in Step /\ states[n] = "pending" /\ DepsSettled(n)
  BY OpenIs DEF GraphInv
<1>2. \A n \in ready : EvaluateWhen(n)
  OBVIOUS
<1>3. decided' = [skip |-> skip, ready |-> ready]
  BY DEF Plan
<1>4. skip \cap ready = {} /\ skip \cup ready = Open
  OBVIOUS
<1>5. CASE skip # {}
  <2>1. loop' = "act" /\ UNCHANGED states
    BY <1>5 DEF Plan
  <2>2. GraphTypeOK'
    BY <1>0, <1>1, <1>3, <2>1 DEF GraphInv, GraphTypeOK
  <2>3. GraphRunStep
    BY <1>0, <2>1, <2>2 DEF GraphRunStep
  <2>4. PlanStands'
    <3> HIDE DEF ready, skip
    <3> QED
      BY <1>0, <1>1, <1>3, <1>4, <1>5, <2>1 DEF PlanStands, DepsSettled
  <2> QED
    BY <1>1, <1>2, <1>3, <2>1, <2>3, <2>4, GraphRunStepKeeps, RouteSteps
<1>6. CASE skip = {}
  <2>1. StartNodes(ready, {})
    BY <1>6 DEF Plan
  <2>2. states' = [n \in Step |-> IF n \in Startable(ready) THEN "running" ELSE states[n]]
    BY <2>1 DEF StartNodes
  <2>3. Startable(ready) \subseteq ready
    BY DEF Startable
  <2>4. loop' \in {"wait", "plan", "finished", "stuck"}
    BY <2>1 DEF StartNodes
  <2>5. loop' # "stuck"
    <3> SUFFICES ASSUME loop' = "stuck" PROVE FALSE
      OBVIOUS
    <3>1. InFlight = {} /\ ready = {} /\ ~ \A n \in Step : states[n] \in StepSettled
      BY <2>1 DEF StartNodes
    <3>2. Open = {}
      BY <1>4, <1>6, <3>1
    <3> QED
      BY <1>0, <3>1, <3>2, SomethingOpen DEF GraphInv
  <2>6. GraphTypeOK'
    <3> HIDE DEF ready, skip
    <3>1. skip \subseteq Step /\ ready \subseteq Step
      BY <1>1
    <3> QED
      BY <1>0, <1>3, <2>2, <2>4, <3>1 DEF GraphInv, GraphTypeOK, StepStatus
  <2>7. GraphRunStep
    BY <1>0, <1>1, <2>2, <2>3, <2>6 DEF GraphRunStep, StepSettled
  <2>8. PlanStands'
    BY <2>4 DEF PlanStands
  <2>9. \A n \in Step : states[n] = "pending" /\ states'[n] # "pending" => EvaluateWhen(n)
    BY <1>2, <2>2, <2>3
  <2> QED
    BY <2>4, <2>5, <2>7, <2>8, <2>9, GraphRunStepKeeps, RouteSteps
<1> QED
  BY <1>5, <1>6

LEMMA RecordSkipKeeps ==
  ASSUME GraphInv, NEW m \in Step, RecordSkip(m)
  PROVE  GraphInv'
<1>0. loop = "act" /\ m \in decided.skip /\ states[m] # "skipped"
  BY DEF RecordSkip, Unrecorded
<1>1. verdict = "accepted" /\ UNCHANGED <<document, verdict, warned, outputs, decided, loop>>
  BY <1>0 DEF RecordSkip, GraphInv, UnacceptedRests
<1>2. states[m] = "pending" /\ DepsSettled(m) /\ m \notin decided.ready
  BY <1>0 DEF GraphInv, PlanStands
<1>3. states' = [states EXCEPT ![m] = "skipped"]
  BY DEF RecordSkip
<1>4. GraphTypeOK'
  BY <1>1, <1>3 DEF GraphInv, GraphTypeOK, StepStatus
<1>5. GraphRunStep
  BY <1>1, <1>2, <1>3, <1>4 DEF GraphRunStep, StepSettled, GraphInv, GraphTypeOK
<1>6. \A n \in Step : DepsSettled(n) => DepsSettled(n)'
  BY <1>5, DepsStaySettled
<1>7. PlanStands'
  BY <1>0, <1>1, <1>2, <1>3, <1>6 DEF GraphInv, GraphTypeOK, PlanStands
<1>8. \A n \in decided'.ready : n \in Step /\ DepsSettled(n)
  BY <1>0, <1>1 DEF GraphInv, GraphTypeOK, PlanStands
<1>9. ~warned => \A n \in decided'.ready : EvaluateWhen(n)
  BY <1>0, <1>1 DEF GraphInv, JudgedForGood
<1> QED
  BY <1>0, <1>1, <1>2, <1>3, <1>5, <1>7, <1>8, <1>9, GraphRunStepKeeps, RouteSteps DEF GraphInv, AcceptedWorkflowRunsThrough, GraphTypeOK

LEMMA StartReadyKeeps == ASSUME GraphInv, StartReady PROVE GraphInv'
<1>0. loop = "act" /\ StartNodes(decided.ready, decided.skip) /\ UNCHANGED <<document, verdict, warned, outputs, decided>>
  BY DEF StartReady
<1>1. verdict = "accepted" /\ decided.skip # {}
  BY <1>0 DEF GraphInv, UnacceptedRests, PlanStands
<1>2. \A n \in decided.ready : n \in Step /\ states[n] = "pending" /\ DepsSettled(n) /\ (~warned => EvaluateWhen(n))
  BY <1>0, <1>1 DEF GraphInv, GraphTypeOK, PlanStands, JudgedForGood
<1>3. states' = [n \in Step |-> IF n \in Startable(decided.ready) THEN "running" ELSE states[n]]
  BY <1>0 DEF StartNodes
<1>4. Startable(decided.ready) \subseteq decided.ready
  BY DEF Startable
<1>5. loop' \in {"wait", "plan"}
  BY <1>0, <1>1 DEF StartNodes
<1>6. GraphTypeOK'
  BY <1>0, <1>3, <1>5 DEF GraphInv, GraphTypeOK, StepStatus
<1>7. GraphRunStep
  BY <1>0, <1>1, <1>2, <1>3, <1>4, <1>6 DEF GraphRunStep, StepSettled
<1>8. PlanStands'
  BY <1>5 DEF PlanStands
<1>9. ~warned => \A n \in Step : states[n] = "pending" /\ states'[n] # "pending" => EvaluateWhen(n)
  BY <1>2, <1>3, <1>4
<1> QED
  BY <1>5, <1>7, <1>8, <1>9, GraphRunStepKeeps, RouteSteps

LEMMA FinishKeeps ==
  ASSUME GraphInv, NEW m \in Step, Finish(m)
  PROVE  GraphInv'
<1>0. states[m] = "running" /\ UNCHANGED <<document, verdict, warned, decided>>
  BY DEF Finish
<1>1. verdict = "accepted"
  BY <1>0 DEF GraphInv, UnacceptedRests
<1>2. PICK s \in {"completed", "failed"} : states' = [states EXCEPT ![m] = s]
  BY DEF Finish
<1>3. /\ outputs' \in [Step -> Text]
      /\ \A n \in Step : n # m => outputs'[n] = outputs[n]
  BY DEF Finish, GraphInv, GraphTypeOK
<1>4. loop' = IF loop = "wait" THEN "plan" ELSE loop
  BY DEF Finish
<1>5. GraphTypeOK'
  BY <1>0, <1>2, <1>3, <1>4 DEF GraphInv, GraphTypeOK, StepStatus
<1>6. GraphRunStep
  BY <1>0, <1>1, <1>2, <1>3, <1>5 DEF GraphRunStep, StepSettled, GraphInv, GraphTypeOK
<1>7. \A n \in Step : DepsSettled(n) => DepsSettled(n)'
  BY <1>6, DepsStaySettled
<1>8. PlanStands'
  BY <1>0, <1>2, <1>4, <1>7 DEF GraphInv, GraphTypeOK, PlanStands
<1>9. loop' = "act" => \A n \in decided'.ready : n \in Step /\ DepsSettled(n) /\ (~warned => EvaluateWhen(n))
  BY <1>0, <1>1, <1>4 DEF GraphInv, GraphTypeOK, PlanStands, JudgedForGood
<1> QED
  BY <1>0, <1>2, <1>4, <1>6, <1>8, <1>9, GraphRunStepKeeps, RouteSteps DEF GraphInv, GraphTypeOK, AcceptedWorkflowRunsThrough

LEMMA ResolveKeeps == ASSUME GraphInv, ResolveWorkflow PROVE GraphInv'
<1>1. verdict = "none" /\ UNCHANGED <<states, outputs, decided, loop>>
  BY DEF ResolveWorkflow, runVars
<1>2. (\A n \in Step : states[n] = "pending") /\ loop = "plan"
  BY <1>1 DEF GraphInv, UnacceptedRests
<1>3. /\ document' \in Document
      /\ verdict' = IF HasError(document') THEN "refused" ELSE "accepted"
      /\ warned' = (~HasError(document') /\ HasWarning(document'))
  BY DEF ResolveWorkflow
<1>4. GraphTypeOK'
  BY <1>1, <1>3 DEF GraphInv, GraphTypeOK, Verdict
<1>5. SoundDocument'
  <2> SUFFICES ASSUME ~HasError(document')
               PROVE  SoundDocument'
    BY <1>3 DEF SoundDocument
  <2>1. /\ \A n \in Step : Unknown \notin document'.deps[n]
        /\ ~Cyclic(Step, document'.deps)
        /\ document'.asks # Unknown
    BY DEF HasError
  <2>2. /\ document'.deps \in [Step -> SUBSET (Step \cup {Unknown})]
        /\ document'.asks \in Step \cup {Unknown}
    BY <1>3 DEF Document
  <2>3. ~warned' => \A n \in Route : document'.asks \in Upstream(Step, document'.deps, n)
    BY <1>3 DEF HasWarning
  <2> QED
    BY <1>3, <2>1, <2>2, <2>3 DEF SoundDocument
<1> QED
  BY <1>1, <1>2, <1>4, <1>5, RouteSteps DEF GraphInv, UnacceptedRests, StartsInOrder, PlanStands, JudgedForGood, TakenBranchHolds, AcceptedWorkflowRunsThrough

LEMMA GraphStep == ASSUME GraphInv, [GraphNext]_graphVars PROVE GraphInv'
<1>1. CASE UNCHANGED graphVars
  BY <1>1 DEF graphVars, GraphInv, GraphTypeOK, SoundDocument, UnacceptedRests, StartsInOrder, PlanStands, JudgedForGood,
     TakenBranchHolds, EvaluateWhen, DepsSettled, AcceptedWorkflowRunsThrough
<1>2. CASE GraphNext
  BY <1>2, ResolveKeeps, PlanKeeps, StartReadyKeeps, RecordSkipKeeps, FinishKeeps DEF GraphNext
<1> QED
  BY <1>1, <1>2

\* The loop never finds an accepted document unable to progress, for documents of
\* any number of nodes and whatever the nodes end as (validate.ts, findCycle;
\* runner.ts, run).
THEOREM RunsThroughCorrect == GraphSpec => []AcceptedWorkflowRunsThrough
<1>1. GraphInv => AcceptedWorkflowRunsThrough
  BY DEF GraphInv
<1> QED
  BY <1>1, GraphInitInv, GraphStep, PTL DEF GraphSpec

\* The condition of a node that has started holds for good, unless the document
\* came with a warning (validate.ts, ancestorsOf; conditions.ts).
THEOREM TakenBranchCorrect == GraphSpec => []TakenBranchHolds
<1>1. GraphInv => TakenBranchHolds
  BY DEF GraphInv, JudgedForGood, TakenBranchHolds
<1> QED
  BY <1>1, GraphInitInv, GraphStep, PTL DEF GraphSpec
=============================================================================

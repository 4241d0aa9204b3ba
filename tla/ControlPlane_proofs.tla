------------------------ MODULE ControlPlane_proofs ------------------------
(***************************************************************************)
(* Proofs about ControlPlane, for every set of tickets, targets and        *)
(* daemons, every dependency relation and every bound.                     *)
(***************************************************************************)
EXTENDS ControlPlane, FiniteSetTheorems, TLAPS

USE DEF TicketStatus, TargetStatus, PreRun, Settled, Live, PreDispatch,
        GateDecision, NoDecision

\* The free slots are a number of slots, because a workspace has finitely
\* many targets.
LEMMA FreeSlotsType == FreeSlots \in 0..MaxRuns
<1>1. IsFiniteSet(LiveTargets)
    BY ControlAssumption, FS_Subset DEF LiveTargets
<1>2. Cardinality(LiveTargets) \in Nat
    BY <1>1, FS_CardinalityType
<1>3. MaxRuns \in Nat
    BY ControlAssumption
<1> QED BY <1>2, <1>3 DEF FreeSlots

\* Settling a ticket gives it a ticket status.
LEMMA ResettledType ==
  ASSUME TypeOK, NEW k \in Ticket, NEW st
  PROVE  Resettled(k, st) \in TicketStatus
BY DEF Resettled, TypeOK

\* The promotion effect yields statuses.
LEMMA PromoteReadyType ==
  ASSUME NEW st \in [Target -> TargetStatus \cup {"absent"}], NEW k
  PROVE  PromoteReady(k, st) \in [Target -> TargetStatus \cup {"absent"}]
BY DEF PromoteReady

\* Both halves of the target envelope keep the types.
LEMMA CommitType ==
  ASSUME TypeOK, NEW t \in Target,
         NEW st \in [Target -> TargetStatus \cup {"absent"}], Commit(t, st)
  PROVE  /\ tstatus' \in [Ticket -> TicketStatus]
         /\ status' \in [Target -> TargetStatus \cup {"absent"}]
<1> DEFINE k == TicketOf[t]
<1>1. k \in Ticket
    BY ControlAssumption
<1>2. Resettled(k, st) \in TicketStatus
    BY <1>1, ResettledType
<1>3. PromoteReady(k, st) \in [Target -> TargetStatus \cup {"absent"}]
    BY PromoteReadyType
<1>4. tstatus' = [tstatus EXCEPT ![k] = Resettled(k, st)]
    BY DEF Commit
<1>5. status' = PromoteReady(k, st) \/ status' = st
    BY DEF Commit
<1> HIDE DEF k
<1> HIDE DEF Init
<1> QED BY <1>1, <1>2, <1>3, <1>4, <1>5 DEF TypeOK

LEMMA MoveType ==
  ASSUME TypeOK, NEW t \in Target,
         NEW to \in TargetStatus, Move(t, to)
  PROVE  /\ tstatus' \in [Ticket -> TicketStatus]
         /\ status' \in [Target -> TargetStatus \cup {"absent"}]
<1>1. [status EXCEPT ![t] = to] \in [Target -> TargetStatus \cup {"absent"}]
    BY DEF TypeOK
<1>2. Commit(t, [status EXCEPT ![t] = to])
    BY DEF Move
<1> QED BY <1>1, <1>2, CommitType

-----------------------------------------------------------------------------
(* Type correctness. *)

LEMMA BoundsType == MaxRuns \in Nat /\ MaxRework \in Nat /\ MaxRestarts \in Nat
BY ControlAssumption

LEMMA InitType == Init => TypeOK
<1> SUFFICES ASSUME Init PROVE TypeOK
    OBVIOUS
<1> USE DEF Init
<1>1. /\ tstatus \in [Ticket -> TicketStatus]
      /\ blocked \in [Ticket -> BOOLEAN]
    OBVIOUS
<1>2. /\ status \in [Target -> TargetStatus \cup {"absent"}]
      /\ deployed \in [Target -> BOOLEAN]
      /\ cancelReq \in [Target -> BOOLEAN]
      /\ hasRun \in [Target -> BOOLEAN]
      /\ ran \in [Target -> BOOLEAN]
    OBVIOUS
<1>3. /\ rework \in [Target -> 0..MaxRework]
      /\ decision \in [Target -> GateDecision \cup {NoDecision}]
      /\ basis \in [Target -> {"current", "older_question", "older_gate"}]
    BY BoundsType
<1>4. /\ phase \in [Daemon -> {"up", "startup"}]
      /\ slots \in [Daemon -> [Pass -> 0..MaxRuns]]
      /\ restarts \in 0..MaxRestarts
    BY BoundsType
<1>5. /\ analysing \in [Daemon -> SUBSET Ticket]
      /\ spawning \in [Daemon -> SUBSET Target]
      /\ answers \in [Daemon -> [Pass -> SUBSET (Target \X GateDecision)]]
      /\ answering \in [Daemon -> [Pass -> Target \cup {NoTarget}]]
    OBVIOUS
<1> HIDE DEF Init
<1> QED BY <1>1, <1>2, <1>3, <1>4, <1>5 DEF TypeOK

LEMMA TicketStepType ==
  ASSUME TypeOK, NEW k \in Ticket, TicketStep(k)
  PROVE  TypeOK'
<1> USE DEF TypeOK, rowVars, daemonVars
<1>1. CASE UpsertTicket(k)
    <2>2. deployed' \in [Target -> BOOLEAN]
        BY <1>1 DEF UpsertTicket
    <2>3. blocked' \in [Ticket -> BOOLEAN]
        BY <1>1 DEF UpsertTicket
    <2> QED BY <1>1, <2>2, <2>3 DEF UpsertTicket
<1>2. CASE ExternalTerminal(k)
    BY <1>2 DEF ExternalTerminal
<1>3. CASE RequestAnalysis(k)
    BY <1>3 DEF RequestAnalysis
<1>4. CASE Start(k)
    <2>1. PromoteReady(k, status) \in [Target -> TargetStatus \cup {"absent"}]
        BY PromoteReadyType
    <2> QED BY <1>4, <2>1 DEF Start
<1>5. CASE CancelTicket(k)
    BY <1>5 DEF CancelTicket
<1>6. CASE Archive(k)
    BY <1>6 DEF Archive
<1>7. CASE Restore(k)
    BY <1>7 DEF Restore
<1> QED BY <1>1, <1>2, <1>3, <1>4, <1>5, <1>6, <1>7 DEF TicketStep

LEMMA OperatorStepType ==
  ASSUME TypeOK, NEW t \in Target, OperatorStep(t)
  PROVE  TypeOK'
<1> USE DEF rowVars, daemonVars
<1>1. CASE CancelTarget(t)
    <2>1. CASE status[t] \in Live /\ UNCHANGED <<tstatus, status>>
        BY <1>1, <2>1 DEF CancelTarget, TypeOK
    <2>2. CASE Move(t, "cancelled")
        <3>1. /\ tstatus' \in [Ticket -> TicketStatus]
              /\ status' \in [Target -> TargetStatus \cup {"absent"}]
            BY <2>2, MoveType
        <3>2. cancelReq' \in [Target -> BOOLEAN]
            BY <1>1 DEF CancelTarget, TypeOK
        <3>3. UNCHANGED <<blocked, deployed, hasRun, ran, rework, decision, basis, daemonVars>>
            BY <1>1 DEF CancelTarget
        <3> QED BY <3>1, <3>2, <3>3 DEF TypeOK
    <2> QED BY <1>1, <2>1, <2>2 DEF CancelTarget
<1>2. CASE ExcludeTarget(t)
    <2>1. /\ tstatus' \in [Ticket -> TicketStatus]
          /\ status' \in [Target -> TargetStatus \cup {"absent"}]
        BY <1>2, MoveType DEF ExcludeTarget
    <2> QED BY <1>2, <2>1 DEF ExcludeTarget, TypeOK
<1>3. CASE IncludeTarget(t)
    <2>1. /\ tstatus' \in [Ticket -> TicketStatus]
          /\ status' \in [Target -> TargetStatus \cup {"absent"}]
        BY <1>3, MoveType DEF IncludeTarget
    <2> QED BY <1>3, <2>1 DEF IncludeTarget, TypeOK
<1>4. CASE RedispatchTarget(t)
    <2> DEFINE st == PromoteReady(TicketOf[t], [status EXCEPT ![t] = "blocked"])
    <2>1. [status EXCEPT ![t] = "blocked"] \in [Target -> TargetStatus \cup {"absent"}]
        BY DEF TypeOK
    <2>2. st \in [Target -> TargetStatus \cup {"absent"}]
        BY <2>1, PromoteReadyType
    <2>3. Commit(t, st)
        BY <1>4 DEF RedispatchTarget
    <2> HIDE DEF st
    <2>4. /\ tstatus' \in [Ticket -> TicketStatus]
          /\ status' \in [Target -> TargetStatus \cup {"absent"}]
        BY <2>2, <2>3, CommitType
    <2>5. /\ cancelReq' \in [Target -> BOOLEAN]
          /\ hasRun' \in [Target -> BOOLEAN]
        BY <1>4 DEF RedispatchTarget, TypeOK
    <2>6. rework' \in [Target -> 0..MaxRework]
        BY <1>4, BoundsType DEF RedispatchTarget, TypeOK
    <2>7. UNCHANGED <<blocked, deployed, ran, decision, basis, daemonVars>>
        BY <1>4 DEF RedispatchTarget
    <2> QED BY <2>4, <2>5, <2>6, <2>7 DEF TypeOK
<1>5. CASE \E d \in GateDecision : RequestGateDecision(t, d)
    BY <1>5 DEF RequestGateDecision, TypeOK
<1> QED BY <1>1, <1>2, <1>3, <1>4, <1>5 DEF OperatorStep

LEMMA TargetStepType ==
  ASSUME TypeOK, NEW t \in Target, TargetStep(t)
  PROVE  TypeOK'
<1> USE DEF rowVars, daemonVars
<1>1. CASE RecordRunId(t)
    BY <1>1 DEF RecordRunId, Launched, TypeOK
<1>2. CASE RunSucceeded(t)
    <2>1. /\ tstatus' \in [Ticket -> TicketStatus]
          /\ status' \in [Target -> TargetStatus \cup {"absent"}]
        BY <1>2, MoveType DEF RunSucceeded
    <2> QED BY <1>2, <2>1 DEF RunSucceeded, TypeOK
<1>3. CASE RunFailed(t)
    <2>1. /\ tstatus' \in [Ticket -> TicketStatus]
          /\ status' \in [Target -> TargetStatus \cup {"absent"}]
        BY <1>3, MoveType DEF RunFailed
    <2> QED BY <1>3, <2>1 DEF RunFailed, TypeOK
<1>4. CASE GateOpened(t)
    <2>1. /\ tstatus' \in [Ticket -> TicketStatus]
          /\ status' \in [Target -> TargetStatus \cup {"absent"}]
        BY <1>4, MoveType DEF GateOpened
    <2> QED BY <1>4, <2>1 DEF GateOpened, TypeOK
<1>5. CASE GateQuestionChanged(t)
    BY <1>5 DEF GateQuestionChanged, TypeOK
<1>6. CASE GateTimedOut(t)
    <2>1. /\ tstatus' \in [Ticket -> TicketStatus]
          /\ status' \in [Target -> TargetStatus \cup {"absent"}]
        BY <1>6, MoveType DEF GateTimedOut
    <2> QED BY <1>6, <2>1 DEF GateTimedOut, TypeOK
<1>7. CASE ConfirmCancel(t)
    <2>1. /\ tstatus' \in [Ticket -> TicketStatus]
          /\ status' \in [Target -> TargetStatus \cup {"absent"}]
        BY <1>7, MoveType DEF ConfirmCancel
    <2> QED BY <1>7, <2>1 DEF ConfirmCancel, TypeOK
<1>8. CASE EvaluateReadiness(t)
    <2>1. /\ tstatus' \in [Ticket -> TicketStatus]
          /\ status' \in [Target -> TargetStatus \cup {"absent"}]
        BY <1>8, MoveType DEF EvaluateReadiness
    <2> QED BY <1>8, <2>1 DEF EvaluateReadiness, TypeOK
<1>9. CASE SweepOrphanedTarget(t)
    BY <1>9 DEF SweepOrphanedTarget, TypeOK
<1> QED BY <1>1, <1>2, <1>3, <1>4, <1>5, <1>6, <1>7, <1>8, <1>9 DEF TargetStep, RunStep

\* What a pass lists and carries out keeps the types.
LEMMA PassStepType ==
  ASSUME TypeOK, NEW d \in Daemon, NEW p \in Pass, PassStep(d, p)
  PROVE  TypeOK'
<1> USE DEF rowVars, daemonVars
<1>1. CASE ReadSlots(d, p)
    BY <1>1, FreeSlotsType DEF ReadSlots, TypeOK
<1>2. CASE ClaimAnalysisWork(d, p)
    BY <1>2, BoundsType DEF ClaimAnalysisWork, TypeOK
<1>3. CASE ClaimReadyTargets(d, p)
    BY <1>3, BoundsType DEF ClaimReadyTargets, TypeOK
<1>4. CASE ReadGateDecisions(d, p)
    <2> DEFINE listed == {t \in Target : status[t] = "gate_waiting" /\ decision[t] # NoDecision}
    <2>1. {<<t, decision[t]>> : t \in listed} \in SUBSET (Target \X GateDecision)
        BY DEF TypeOK
    <2>2. /\ answers' = [answers EXCEPT ![d][p] = {<<t, decision[t]>> : t \in listed}]
          /\ UNCHANGED <<tstatus, blocked, status, deployed, rowVars, phase, slots,
                         analysing, spawning, answering, restarts>>
        BY <1>4 DEF ReadGateDecisions
    <2> HIDE DEF listed
    <2>3. answers' \in [Daemon -> [Pass -> SUBSET (Target \X GateDecision)]]
        BY <2>1, <2>2 DEF TypeOK
    <2> QED BY <2>2, <2>3 DEF TypeOK
<1>5. ASSUME NEW t \in Target, NEW answer \in GateDecision, ApplyGateDecision(d, p, t, answer)
      PROVE  TypeOK'
    <2>1. \/ UNCHANGED <<tstatus, status>>
          \/ \E to \in TargetStatus : Move(t, to)
        BY <1>5 DEF ApplyGateDecision, AnsweredGate
    <2>2. /\ tstatus' \in [Ticket -> TicketStatus]
          /\ status' \in [Target -> TargetStatus \cup {"absent"}]
        BY <2>1, MoveType DEF TypeOK
    <2>3. cancelReq' \in [Target -> BOOLEAN]
        <3>1. \/ UNCHANGED cancelReq
              \/ cancelReq' = [cancelReq EXCEPT ![t] = FALSE]
            BY <1>5 DEF ApplyGateDecision, AnsweredGate
        <3> QED BY <3>1 DEF TypeOK
    <2>4. rework' \in [Target -> 0..MaxRework]
        <3>1. \/ UNCHANGED rework
              \/ rework[t] < MaxRework /\ rework' = [rework EXCEPT ![t] = @ + 1]
            BY <1>5 DEF ApplyGateDecision, AnsweredGate
        <3>2. rework \in [Target -> 0..MaxRework]
            BY DEF TypeOK
        <3> QED BY <3>1, <3>2, BoundsType
    <2>5. /\ answering' = [answering EXCEPT ![d][p] = t]
          /\ answers' = [answers EXCEPT ![d][p] = @ \ {<<t, answer>>}]
          /\ UNCHANGED <<blocked, deployed, hasRun, ran, decision, basis, phase, slots,
                         analysing, spawning, restarts>>
        BY <1>5 DEF ApplyGateDecision
    <2>6. answering' \in [Daemon -> [Pass -> Target \cup {NoTarget}]]
        BY <2>5 DEF TypeOK
    <2>7. answers' \in [Daemon -> [Pass -> SUBSET (Target \X GateDecision)]]
        BY <2>5 DEF TypeOK
    <2> QED BY <2>2, <2>3, <2>4, <2>5, <2>6, <2>7 DEF TypeOK
<1>6. CASE ClearGateDecision(d, p)
    BY <1>6 DEF ClearGateDecision, TypeOK
<1> QED BY <1>1, <1>2, <1>3, <1>4, <1>5, <1>6 DEF PassStep

LEMMA DaemonStepType ==
  ASSUME TypeOK, NEW d \in Daemon, DaemonStep(d)
  PROVE  TypeOK'
<1> USE DEF rowVars, daemonVars
<1>1. ASSUME NEW p \in Pass, PassStep(d, p)
      PROVE  TypeOK'
    BY <1>1, PassStepType
<1>2. ASSUME NEW k \in Ticket, AnalysisSucceeded(d, k)
      PROVE  TypeOK'
    BY <1>2, BoundsType DEF AnalysisSucceeded, AnalysisReturned, TypeOK
<1>3. ASSUME NEW k \in Ticket, AnalysisFailed(d, k)
      PROVE  TypeOK'
    BY <1>3 DEF AnalysisFailed, AnalysisReturned, TypeOK
<1>4. ASSUME NEW k \in Ticket, AnalysisRefused(d, k)
      PROVE  TypeOK'
    BY <1>4 DEF AnalysisRefused, AnalysisReturned, TypeOK
<1>5. ASSUME NEW t \in Target, RunStarted(d, t)
      PROVE  TypeOK'
    <2>1. /\ tstatus' \in [Ticket -> TicketStatus]
          /\ status' \in [Target -> TargetStatus \cup {"absent"}]
        BY <1>5, MoveType DEF RunStarted
    <2> QED BY <1>5, <2>1 DEF RunStarted, SpawnReturned, Launched, TypeOK
<1>6. ASSUME NEW t \in Target, DispatchFailed(d, t)
      PROVE  TypeOK'
    <2>1. CASE Move(t, "failed")
        <3>1. /\ tstatus' \in [Ticket -> TicketStatus]
              /\ status' \in [Target -> TargetStatus \cup {"absent"}]
            BY <2>1, MoveType
        <3>2. /\ cancelReq' \in [Target -> BOOLEAN]
              /\ ran' \in [Target -> BOOLEAN]
              /\ spawning' \in [Daemon -> SUBSET Target]
            BY <1>6 DEF DispatchFailed, SpawnReturned, TypeOK
        <3>3. UNCHANGED <<blocked, deployed, hasRun, rework, decision, basis,
                          phase, slots, analysing, answers, answering, restarts>>
            BY <1>6 DEF DispatchFailed, SpawnReturned
        <3> QED BY <3>1, <3>2, <3>3 DEF TypeOK
    <2>2. CASE UNCHANGED <<tstatus, status>>
        BY <1>6, <2>2 DEF DispatchFailed, SpawnReturned, TypeOK
    <2> QED BY <1>6, <2>1, <2>2 DEF DispatchFailed
<1>7. CASE Crash(d)
    BY <1>7, BoundsType DEF Crash, TypeOK
<1>8. CASE RecoverOnStartup(d)
    BY <1>8 DEF RecoverOnStartup, TypeOK
<1> QED BY <1>1, <1>2, <1>3, <1>4, <1>5, <1>6, <1>7, <1>8 DEF DaemonStep, TickStep

LEMMA NextType == TypeOK /\ [Next]_vars => TypeOK'
<1> SUFFICES ASSUME TypeOK, [Next]_vars
             PROVE  TypeOK'
    OBVIOUS
<1>1. CASE UNCHANGED vars
    BY <1>1 DEF vars, TypeOK
<1>2. CASE Next
    BY <1>2, TicketStepType, OperatorStepType, TargetStepType, DaemonStepType DEF Next
<1> QED BY <1>1, <1>2

\* Every reachable state of the control plane is well typed.
THEOREM TypeCorrect == Spec => []TypeOK
<1>1. Init => TypeOK
    BY InitType
<1>2. TypeOK /\ [Next]_vars => TypeOK'
    BY NextType
<1> QED BY <1>1, <1>2, PTL DEF Spec
-----------------------------------------------------------------------------
(***************************************************************************)
(* The shapes of a step.  Every transaction of the control plane moves     *)
(* statuses in one of six ways; the safety invariants are proved once per  *)
(* shape instead of once per action.                                       *)
(***************************************************************************)
Started == {"running", "done", "cancelled"}
Queued  == Live \cup {"ready"}
Ran     == Queued \cup {"succeeded", "failed"}

USE DEF Started, Queued, Ran

\* Tickets move between statuses before their start, targets between the
\* statuses of a queued or live one.
Shuffle ==
  /\ \A k \in Ticket : \/ tstatus'[k] = tstatus[k]
                       \/ tstatus[k] \notin Started /\ tstatus'[k] \notin Started
  /\ \A t \in Target : \/ status'[t] = status[t]
                       \/ status[t] \in Queued /\ status'[t] \in Queued

\* One target moves through the envelope, and only a queued target, or a ready
\* one of a running ticket, gets anywhere near a run.
Shift(t, to) ==
  /\ Move(t, to)
  /\ to \in TargetStatus
  /\ status[t] \notin {"absent", "succeeded"}
  /\ to \in Ran => \/ status[t] \in Queued
                   \/ /\ to = "ready"
                      /\ tstatus[TicketOf[t]] = "running"
                      /\ Ready(t, status)

Shape ==
  \/ Shuffle
  \/ \E t \in Target, to \in TargetStatus : Shift(t, to)
  \/ \E k \in Ticket : Start(k) \/ CancelTicket(k)
  \/ \E k \in Ticket, d \in Daemon : AnalysisSucceeded(d, k)
  \/ \E t \in Target : RedispatchTarget(t)

LEMMA QuietShape == ASSUME UNCHANGED <<tstatus, status>> PROVE Shape
BY DEF Shape, Shuffle

LEMMA TicketShape ==
  ASSUME TypeOK, NEW k \in Ticket, TicketStep(k)
  PROVE  Shape
<1> USE DEF TypeOK
<1>1. CASE UpsertTicket(k)
    BY <1>1, QuietShape DEF UpsertTicket
<1>2. CASE ExternalTerminal(k)
    BY <1>2 DEF ExternalTerminal, Shape, Shuffle
<1>3. CASE RequestAnalysis(k)
    BY <1>3 DEF RequestAnalysis, Shape, Shuffle
<1>4. CASE Start(k) \/ CancelTicket(k)
    BY <1>4 DEF Shape
<1>5. CASE Archive(k)
    BY <1>5 DEF Archive, Shape, Shuffle
<1>6. CASE Restore(k)
    BY <1>6 DEF Restore, Shape, Shuffle
<1> QED BY <1>1, <1>2, <1>3, <1>4, <1>5, <1>6 DEF TicketStep

LEMMA ShiftShape ==
  ASSUME NEW t \in Target, NEW to \in TargetStatus, Move(t, to),
         status[t] \notin {"absent", "succeeded"},
         to \notin Ran \/ status[t] \in Queued
  PROVE  Shape
<1>1. Shift(t, to)
    BY DEF Shift
<1> QED BY <1>1 DEF Shape

LEMMA OperatorShape ==
  ASSUME TypeOK, NEW t \in Target, OperatorStep(t)
  PROVE  Shape
<1>1. CASE CancelTarget(t)
    <2>1. \/ UNCHANGED <<tstatus, status>>
          \/ Move(t, "cancelled") /\ status[t] \in {"blocked", "ready"}
        BY <1>1 DEF CancelTarget
    <2> QED BY <2>1, QuietShape, ShiftShape
<1>2. CASE ExcludeTarget(t)
    <2>1. Move(t, "excluded") /\ status[t] \in PreDispatch \cup {"failed", "cancelled"}
        BY <1>2 DEF ExcludeTarget
    <2> QED BY <2>1, ShiftShape
<1>3. CASE IncludeTarget(t)
    <2>1. Move(t, "blocked") /\ status[t] = "excluded"
        BY <1>3 DEF IncludeTarget
    <2> QED BY <2>1, ShiftShape
<1>4. CASE RedispatchTarget(t)
    BY <1>4 DEF Shape
<1>5. CASE \E d \in GateDecision : RequestGateDecision(t, d)
    BY <1>5, QuietShape DEF RequestGateDecision
<1> QED BY <1>1, <1>2, <1>3, <1>4, <1>5 DEF OperatorStep

LEMMA EvaluateShape ==
  ASSUME NEW t \in Target, EvaluateReadiness(t)
  PROVE  Shape
<1>1. \/ /\ status[t] = "blocked" /\ Ready(t, status) /\ Move(t, "ready")
         /\ tstatus[TicketOf[t]] = "running"
      \/ status[t] = "ready" /\ Move(t, "blocked")
    BY DEF EvaluateReadiness
<1>2. Shift(t, "ready") \/ Shift(t, "blocked")
    BY <1>1 DEF Shift
<1> QED BY <1>2 DEF Shape

LEMMA TargetShape ==
  ASSUME TypeOK, NEW t \in Target, TargetStep(t)
  PROVE  Shape
<1>1. CASE RecordRunId(t)
    BY <1>1, QuietShape DEF RecordRunId
<1>2. CASE RunSucceeded(t)
    BY <1>2, ShiftShape DEF RunSucceeded
<1>3. CASE RunFailed(t)
    BY <1>3, ShiftShape DEF RunFailed
<1>4. CASE GateOpened(t)
    BY <1>4, ShiftShape DEF GateOpened
<1>5. CASE GateQuestionChanged(t)
    BY <1>5, QuietShape DEF GateQuestionChanged
<1>6. CASE GateTimedOut(t)
    BY <1>6, ShiftShape DEF GateTimedOut
<1>7. CASE ConfirmCancel(t)
    BY <1>7, ShiftShape DEF ConfirmCancel
<1>8. CASE EvaluateReadiness(t)
    BY <1>8, EvaluateShape
<1>9. CASE SweepOrphanedTarget(t)
    BY <1>9 DEF SweepOrphanedTarget, TypeOK, Shape, Shuffle
<1> QED BY <1>1, <1>2, <1>3, <1>4, <1>5, <1>6, <1>7, <1>8, <1>9 DEF TargetStep, RunStep

LEMMA DaemonShape ==
  ASSUME TypeOK, NEW d \in Daemon, DaemonStep(d)
  PROVE  Shape
<1>1. CASE Crash(d)
    BY <1>1, QuietShape DEF Crash
<1>2. ASSUME NEW p \in Pass, PassStep(d, p)
      PROVE  Shape
    <2>1. CASE ReadSlots(d, p) \/ ReadGateDecisions(d, p) \/ ClearGateDecision(d, p)
        BY <2>1, QuietShape DEF ReadSlots, ReadGateDecisions, ClearGateDecision
    <2>2. CASE ClaimAnalysisWork(d, p)
        BY <2>2 DEF ClaimAnalysisWork, TypeOK, Shape, Shuffle
    <2>3. CASE ClaimReadyTargets(d, p)
        BY <2>3 DEF ClaimReadyTargets, TypeOK, Shape, Shuffle
    <2>4. ASSUME NEW t \in Target, NEW answer \in GateDecision, ApplyGateDecision(d, p, t, answer)
          PROVE  Shape
        <3>1. \/ UNCHANGED <<tstatus, status>>
              \/ status[t] = "gate_waiting" /\ \E to \in TargetStatus : Move(t, to)
            BY <2>4 DEF ApplyGateDecision, AnsweredGate
        <3> QED BY <3>1, QuietShape, ShiftShape
    <2> QED BY <1>2, <2>1, <2>2, <2>3, <2>4 DEF PassStep
<1>3. ASSUME NEW k \in Ticket, AnalysisSucceeded(d, k)
      PROVE  Shape
    BY <1>3 DEF Shape
<1>4. ASSUME NEW k \in Ticket, AnalysisFailed(d, k)
      PROVE  Shape
    BY <1>4 DEF AnalysisFailed, TypeOK, Shape, Shuffle
<1>5. ASSUME NEW k \in Ticket, AnalysisRefused(d, k)
      PROVE  Shape
    BY <1>5, QuietShape DEF AnalysisRefused
<1>6. ASSUME NEW t \in Target, RunStarted(d, t)
      PROVE  Shape
    BY <1>6, ShiftShape DEF RunStarted
<1>7. ASSUME NEW t \in Target, DispatchFailed(d, t)
      PROVE  Shape
    <2>1. \/ UNCHANGED <<tstatus, status>>
          \/ status[t] \in Live /\ Move(t, "failed")
        BY <1>7 DEF DispatchFailed
    <2> QED BY <2>1, QuietShape, ShiftShape
<1>8. CASE RecoverOnStartup(d)
    BY <1>8 DEF RecoverOnStartup, TypeOK, Shape, Shuffle
<1> QED BY <1>1, <1>2, <1>3, <1>4, <1>5, <1>6, <1>7, <1>8 DEF DaemonStep, TickStep

LEMMA StepShape == ASSUME TypeOK, [Next]_vars PROVE Shape
<1>1. CASE UNCHANGED vars
    BY <1>1, QuietShape DEF vars
<1>2. CASE Next
    BY <1>2, TicketShape, OperatorShape, TargetShape, DaemonShape DEF Next
<1> QED BY <1>1, <1>2
=============================================================================

--------------------- MODULE ControlPlaneSafety_proofs ----------------------
(***************************************************************************)
(* The safety invariants of ControlPlane, proved over the step shapes of   *)
(* ControlPlane_proofs for every set of tickets, targets and daemons,      *)
(* every dependency relation and every bound; and the one among them that  *)
(* ControlRaces puts at risk, at the grain of its statements.              *)
(***************************************************************************)
EXTENDS ControlPlane_proofs, ControlRaces

USE DEF TicketStatus, TargetStatus, PreRun, Settled, Live, PreDispatch,
        GateDecision, NoDecision, Started, Queued, Ran

\* The fan-out of ticket k under st still has work in it, or is there at all.
StillOpen(st, k)    == \E u \in TargetsOf(k) : st[u] \notin {"absent", "excluded", "succeeded"}
Planned(st, k) == \E u \in TargetsOf(k) : st[u] # "absent"

\* Settlement in the terms the proofs use.
LEMMA SettleMeans ==
  ASSUME NEW st, NEW k
  PROVE  /\ SettleTicketStatus(st, TargetsOf(k)) = "running" <=> StillOpen(st, k)
         /\ SettleTicketStatus(st, TargetsOf(k)) = "done" <=> Planned(st, k) /\ ~StillOpen(st, k)
<1>1. Fanout(st, TargetsOf(k)) = {} <=> ~Planned(st, k)
    BY DEF Fanout, Planned
<1>2. (\A t \in Participating(st, TargetsOf(k)) : st[t] = "succeeded") <=> ~StillOpen(st, k)
    BY DEF Participating, Fanout, StillOpen
<1>3. StillOpen(st, k) => Planned(st, k)
    BY DEF StillOpen, Planned
<1> QED BY <1>1, <1>2, <1>3 DEF SettleTicketStatus

\* A target that the promotion effect carries from 'blocked' to 'ready'.
Carried(u, st) ==
  /\ st[u] = "blocked"
  /\ status'[u] = "ready"
  /\ Ready(u, st)

\* What a commit through the target envelope does to every row.
LEMMA CommitEffect ==
  ASSUME TypeOK, NEW t \in Target, NEW st \in [Target -> TargetStatus \cup {"absent"}],
         Commit(t, st)
  PROVE  /\ \A u \in Target :
              \/ status'[u] = st[u]
              \/ /\ TicketOf[u] = TicketOf[t]
                 /\ tstatus[TicketOf[t]] = "done"
                 /\ tstatus'[TicketOf[t]] = "running"
                 /\ Carried(u, st)
         /\ \A k \in Ticket : k # TicketOf[t] => tstatus'[k] = tstatus[k]
         /\ tstatus'[TicketOf[t]] = Resettled(TicketOf[t], st)
<1>1. TicketOf[t] \in Ticket
    BY ControlAssumption
<1>2. tstatus' = [tstatus EXCEPT ![TicketOf[t]] = Resettled(TicketOf[t], st)]
    BY DEF Commit
<1>3. \/ status' = st
      \/ /\ tstatus[TicketOf[t]] = "done"
         /\ Resettled(TicketOf[t], st) = "running"
         /\ status' = PromoteReady(TicketOf[t], st)
    BY DEF Commit
<1>4. tstatus'[TicketOf[t]] = Resettled(TicketOf[t], st)
    BY <1>1, <1>2 DEF TypeOK
<1>5. \A k \in Ticket : k # TicketOf[t] => tstatus'[k] = tstatus[k]
    BY <1>2 DEF TypeOK
<1>6. ASSUME NEW u \in Target
      PROVE  \/ PromoteReady(TicketOf[t], st)[u] = st[u]
             \/ /\ TicketOf[u] = TicketOf[t]
                /\ st[u] = "blocked"
                /\ PromoteReady(TicketOf[t], st)[u] = "ready"
                /\ Ready(u, st)
    BY DEF PromoteReady
<1> QED BY <1>3, <1>4, <1>5, <1>6 DEF Carried

\* A settlement moves a ticket between 'running' and 'done' and nowhere else.
LEMMA ResettledEffect ==
  ASSUME NEW k, NEW st
  PROVE  /\ tstatus[k] \notin {"running", "done"} => Resettled(k, st) = tstatus[k]
         /\ tstatus[k] \in {"running", "done"} => Resettled(k, st) \in {"running", "done"}
         /\ tstatus[k] \in {"running", "done"} /\ StillOpen(st, k) => Resettled(k, st) = "running"
         /\ tstatus[k] \in {"running", "done"} /\ Planned(st, k) /\ ~StillOpen(st, k)
              => Resettled(k, st) = "done"
BY SettleMeans DEF Resettled

-----------------------------------------------------------------------------
(* DependenciesRanFirst. *)

\* No step takes a success back, short of replacing the whole fan-out.
Replaced(k) == \A u \in TargetsOf(k) : status'[u] \in {"absent", "blocked"}

\* A target enters the queue or a run from one of them, or because what it
\* depends on has succeeded.
LegalMove(t) ==
  /\ status[t] = "succeeded" => status'[t] = "succeeded"
  /\ status'[t] \in Ran /\ status[t] \notin Ran =>
       \A u \in DependsOn[t] : status'[u] = "succeeded"

LEMMA ShiftLegal ==
  ASSUME TypeOK, NEW t \in Target, NEW to \in TargetStatus, Shift(t, to)
  PROVE  \A u \in Target : LegalMove(u)
<1> DEFINE st == [status EXCEPT ![t] = to]
<1>1. st \in [Target -> TargetStatus \cup {"absent"}]
    BY DEF TypeOK
<1>2. Commit(t, st)
    BY DEF Shift, Move
<1>3. \A w \in Target : st[w] = IF w = t THEN to ELSE status[w]
    BY DEF TypeOK
<1>4. status[t] \notin {"absent", "succeeded"}
    BY DEF Shift
<1>5. to \in Ran => status[t] \in Queued \/ (to = "ready" /\ Ready(t, status))
    BY DEF Shift
<1> HIDE DEF st
<1>6. \A w \in Target : status'[w] = st[w] \/ Carried(w, st)
    BY <1>1, <1>2, CommitEffect
<1>7. \A w \in Target : st[w] = "succeeded" => status'[w] = "succeeded"
    BY <1>6 DEF Carried
<1> SUFFICES ASSUME NEW u \in Target PROVE LegalMove(u)
    OBVIOUS
<1>8. DependsOn[u] \subseteq Target
    BY ControlAssumption
<1>9. status[u] = "succeeded" => status'[u] = "succeeded"
    BY <1>3, <1>4, <1>7
<1>10. ASSUME status'[u] \in Ran, status[u] \notin Ran
       PROVE  \A w \in DependsOn[u] : status'[w] = "succeeded"
    <2>1. CASE Carried(u, st)
        BY <1>7, <1>8, <2>1 DEF Carried, Ready
    <2>2. CASE status'[u] = st[u]
        <3>1. u = t /\ Ready(t, status)
            BY <1>3, <1>5, <1>10, <2>2
        <3>2. \A w \in DependsOn[u] : st[w] = "succeeded"
            BY <1>3, <1>4, <1>8, <3>1 DEF Ready
        <3> QED BY <1>7, <1>8, <3>2
    <2> QED BY <1>6, <2>1, <2>2
<1> QED BY <1>9, <1>10 DEF LegalMove

LEMMA RedispatchLegal ==
  ASSUME TypeOK, NEW t \in Target, RedispatchTarget(t)
  PROVE  \A u \in Target : LegalMove(u)
<1> DEFINE base == [status EXCEPT ![t] = "blocked"]
           st   == PromoteReady(TicketOf[t], base)
<1>1. base \in [Target -> TargetStatus \cup {"absent"}]
    BY DEF TypeOK
<1>2. st \in [Target -> TargetStatus \cup {"absent"}]
    BY <1>1, PromoteReadyType
<1>3. /\ Commit(t, st)
      /\ status[t] \in {"failed", "cancelled"}
      /\ tstatus[TicketOf[t]] = "running"
    BY DEF RedispatchTarget
<1>4. \A w \in Target : base[w] = IF w = t THEN "blocked" ELSE status[w]
    BY DEF TypeOK
<1>5. \A w \in Target : st[w] = base[w] \/ (base[w] = "blocked" /\ Ready(w, base) /\ st[w] = "ready")
    BY DEF PromoteReady
<1> HIDE DEF base, st
<1>6. \A w \in Target : status'[w] = st[w]
    BY <1>2, <1>3, CommitEffect
<1>7. \A w \in Target : base[w] = "succeeded" <=> status[w] = "succeeded"
    BY <1>3, <1>4
<1>8. \A w \in Target : base[w] = "succeeded" => status'[w] = "succeeded"
    BY <1>5, <1>6
<1> SUFFICES ASSUME NEW u \in Target PROVE LegalMove(u)
    OBVIOUS
<1>9. ASSUME status'[u] \in Ran, status[u] \notin Ran
      PROVE  \A w \in DependsOn[u] : status'[w] = "succeeded"
    <2>1. DependsOn[u] \subseteq Target
        BY ControlAssumption
    <2>2. Ready(u, base)
        BY <1>4, <1>5, <1>6, <1>9
    <2> QED BY <1>8, <2>1, <2>2 DEF Ready
<1> QED BY <1>7, <1>8, <1>9 DEF LegalMove

LEMMA StartLegal ==
  ASSUME TypeOK, NEW k \in Ticket, Start(k)
  PROVE  \A u \in Target : LegalMove(u)
<1> SUFFICES ASSUME NEW u \in Target PROVE LegalMove(u)
    OBVIOUS
<1>1. \A w \in Target : \/ status'[w] = status[w]
                        \/ status[w] = "blocked" /\ Ready(w, status) /\ status'[w] = "ready"
    BY DEF Start, PromoteReady
<1>2. DependsOn[u] \subseteq Target
    BY ControlAssumption
<1> QED BY <1>1, <1>2 DEF LegalMove, Ready

\* Every step leaves every success alone and queues only what may run, or
\* replaces the fan-out.
LEMMA StepLegal ==
  ASSUME TypeOK, [Next]_vars, NEW u \in Target
  PROVE  LegalMove(u) \/ Replaced(TicketOf[u])
<1>1. CASE Shuffle
    BY <1>1 DEF Shuffle, LegalMove
<1>2. ASSUME NEW t \in Target, NEW to \in TargetStatus, Shift(t, to)
      PROVE  LegalMove(u)
    BY <1>2, ShiftLegal
<1>3. ASSUME NEW k \in Ticket, Start(k)
      PROVE  LegalMove(u)
    BY <1>3, StartLegal
<1>4. ASSUME NEW k \in Ticket, CancelTicket(k)
      PROVE  LegalMove(u)
    BY <1>4 DEF CancelTicket, LegalMove
<1>5. ASSUME NEW k \in Ticket, NEW d \in Daemon, AnalysisSucceeded(d, k)
      PROVE  LegalMove(u) \/ Replaced(TicketOf[u])
    <2>1. PICK S : status' = [t \in Target |-> IF TicketOf[t] # k THEN status[t]
                                               ELSE IF t \in S THEN "blocked" ELSE "absent"]
        BY <1>5, Zenon DEF AnalysisSucceeded
    <2>2. CASE TicketOf[u] = k
        BY <2>1, <2>2 DEF Replaced, TargetsOf
    <2>3. CASE TicketOf[u] # k
        BY <2>1, <2>3 DEF LegalMove
    <2> QED BY <2>2, <2>3
<1>6. ASSUME NEW t \in Target, RedispatchTarget(t)
      PROVE  LegalMove(u)
    BY <1>6, RedispatchLegal
<1>7. Shape
    BY StepShape
<1> QED BY <1>1, <1>2, <1>3, <1>4, <1>5, <1>6, <1>7 DEF Shape

LEMMA DependenciesStep ==
  TypeOK /\ DependenciesRanFirst /\ [Next]_vars => DependenciesRanFirst'
<1> SUFFICES ASSUME TypeOK, DependenciesRanFirst, [Next]_vars,
                    NEW t \in Target, status'[t] \in Ran,
                    NEW u \in DependsOn[t]
             PROVE  status'[u] = "succeeded"
    BY DEF DependenciesRanFirst
<1>1. u \in Target /\ TicketOf[u] = TicketOf[t]
    BY ControlAssumption
<1>2. ~Replaced(TicketOf[t])
    BY DEF Replaced, TargetsOf
<1>3. LegalMove(t) /\ LegalMove(u)
    BY <1>1, <1>2, StepLegal
<1>4. CASE status[t] \in Ran
    BY <1>3, <1>4 DEF LegalMove, DependenciesRanFirst
<1>5. CASE status[t] \notin Ran
    BY <1>3, <1>5 DEF LegalMove
<1> QED BY <1>4, <1>5

\* No target is queued, dispatched or run, and none has ended, while a sibling
\* it depends on has not succeeded (evaluateReadiness and every path that
\* queues or requeues a target).
THEOREM DependenciesCorrect == Spec => []DependenciesRanFirst
<1>1. Init => DependenciesRanFirst
    BY DEF Init, DependenciesRanFirst
<1>2. TypeOK /\ DependenciesRanFirst /\ [Next]_vars => DependenciesRanFirst'
    BY DependenciesStep
<1> QED BY <1>1, <1>2, TypeCorrect, PTL DEF Spec

-----------------------------------------------------------------------------
(* UnstartedTicketHasNoRun. *)

Unqueued == {"absent", "excluded", "blocked", "cancelled"}

USE DEF Unqueued

\* What a Shift does, target by target and ticket by ticket.
LEMMA ShiftEffect ==
  ASSUME TypeOK, NEW t \in Target, NEW to \in TargetStatus, Shift(t, to)
  PROVE  /\ \A u \in Target :
              \/ status'[u] = IF u = t THEN to ELSE status[u]
              \/ /\ TicketOf[u] = TicketOf[t]
                 /\ tstatus[TicketOf[t]] = "done"
                 /\ tstatus'[TicketOf[t]] = "running"
                 /\ u = t => to = "blocked"
                 /\ u # t => status[u] = "blocked"
                 /\ status'[u] = "ready"
         /\ \A k \in Ticket : \/ tstatus'[k] = tstatus[k]
                              \/ /\ k = TicketOf[t]
                                 /\ tstatus[k] \in {"running", "done"}
                                 /\ tstatus'[k] \in {"running", "done"}
<1> DEFINE st == [status EXCEPT ![t] = to]
<1>1. st \in [Target -> TargetStatus \cup {"absent"}]
    BY DEF TypeOK
<1>2. Commit(t, st)
    BY DEF Shift, Move
<1>3. \A w \in Target : st[w] = IF w = t THEN to ELSE status[w]
    BY DEF TypeOK
<1> HIDE DEF st
<1>4. \A u \in Target :
        \/ status'[u] = st[u]
        \/ /\ TicketOf[u] = TicketOf[t]
           /\ tstatus[TicketOf[t]] = "done"
           /\ tstatus'[TicketOf[t]] = "running"
           /\ Carried(u, st)
    BY <1>1, <1>2, CommitEffect
<1>5. \A k \in Ticket : \/ tstatus'[k] = tstatus[k]
                        \/ k = TicketOf[t] /\ tstatus'[k] = Resettled(k, st)
    BY <1>1, <1>2, CommitEffect
<1>6. \A k \in Ticket : \/ tstatus'[k] = tstatus[k]
                        \/ /\ k = TicketOf[t]
                           /\ tstatus[k] \in {"running", "done"}
                           /\ tstatus'[k] \in {"running", "done"}
    BY <1>5, ResettledEffect
<1> QED BY <1>3, <1>4, <1>6 DEF Carried

\* Redispatch, in the same terms.
LEMMA RedispatchEffect ==
  ASSUME TypeOK, NEW t \in Target, RedispatchTarget(t)
  PROVE  /\ \A u \in Target : TicketOf[u] # TicketOf[t] => status'[u] = status[u]
         /\ \A k \in Ticket : \/ tstatus'[k] = tstatus[k]
                              \/ k = TicketOf[t] /\ tstatus'[k] \in {"running", "done"}
         /\ tstatus[TicketOf[t]] = "running"
<1> DEFINE base == [status EXCEPT ![t] = "blocked"]
           st   == PromoteReady(TicketOf[t], base)
<1>1. base \in [Target -> TargetStatus \cup {"absent"}]
    BY DEF TypeOK
<1>2. st \in [Target -> TargetStatus \cup {"absent"}]
    BY <1>1, PromoteReadyType
<1>3. Commit(t, st) /\ tstatus[TicketOf[t]] = "running"
    BY DEF RedispatchTarget
<1>4. \A u \in Target : TicketOf[u] # TicketOf[t] => st[u] = status[u]
    BY DEF PromoteReady, TypeOK
<1> HIDE DEF base, st
<1>5. /\ \A u \in Target : status'[u] = st[u]
      /\ \A k \in Ticket : k # TicketOf[t] => tstatus'[k] = tstatus[k]
      /\ tstatus'[TicketOf[t]] = Resettled(TicketOf[t], st)
    BY <1>2, <1>3, CommitEffect
<1>6. tstatus'[TicketOf[t]] \in {"running", "done"}
    BY <1>3, <1>5, ResettledEffect
<1> QED BY <1>3, <1>4, <1>5, <1>6

\* A ticket that has started never goes back, and the targets of one that has
\* not started stay idle.
LEMMA UnstartedStatus ==
  ASSUME TypeOK, UnstartedTicketHasNoRun, [Next]_vars,
         NEW u \in Target, tstatus'[TicketOf[u]] \notin Started
  PROVE  tstatus[TicketOf[u]] \notin Started /\ status'[u] \in Unqueued
<1> DEFINE j == TicketOf[u]
<1>1. j \in Ticket
    BY ControlAssumption
<1>2. tstatus[j] \notin Started => status[u] \in Unqueued
    BY DEF UnstartedTicketHasNoRun
<1>3. CASE Shuffle
    BY <1>1, <1>2, <1>3 DEF Shuffle
<1>4. ASSUME NEW t \in Target, NEW to \in TargetStatus, Shift(t, to)
      PROVE  tstatus[j] \notin Started /\ status'[u] \in Unqueued
    <2>1. tstatus[j] \notin Started
        BY <1>1, <1>4, ShiftEffect
    <2>2. status'[u] = IF u = t THEN to ELSE status[u]
        BY <1>4, <2>1, ShiftEffect
    <2>3. CASE u = t
        <3>1. status[t] \in Unqueued /\ status[t] # "absent" /\ tstatus[TicketOf[t]] # "running"
            BY <1>2, <1>4, <2>1, <2>3 DEF Shift
        <3>2. to \notin Ran
            BY <1>4, <3>1 DEF Shift
        <3> QED BY <2>1, <2>2, <2>3, <3>2
    <2> QED BY <1>2, <2>1, <2>2, <2>3
<1>5. ASSUME NEW k \in Ticket, Start(k)
      PROVE  tstatus[j] \notin Started /\ status'[u] \in Unqueued
    <2>1. j # k /\ tstatus'[j] = tstatus[j]
        BY <1>1, <1>5 DEF Start, TypeOK
    <2>2. status'[u] = status[u]
        BY <1>5, <2>1 DEF Start, PromoteReady, TypeOK
    <2> QED BY <1>2, <2>1, <2>2
<1>6. ASSUME NEW k \in Ticket, CancelTicket(k)
      PROVE  tstatus[j] \notin Started /\ status'[u] \in Unqueued
    BY <1>1, <1>2, <1>6 DEF CancelTicket, TypeOK
<1>7. ASSUME NEW k \in Ticket, NEW d \in Daemon, AnalysisSucceeded(d, k)
      PROVE  tstatus[j] \notin Started /\ status'[u] \in Unqueued
    <2>1. PICK S : status' = [t \in Target |-> IF TicketOf[t] # k THEN status[t]
                                               ELSE IF t \in S THEN "blocked" ELSE "absent"]
        BY <1>7, Zenon DEF AnalysisSucceeded
    <2>2. tstatus[j] \notin Started
        BY <1>1, <1>7 DEF AnalysisSucceeded, TypeOK
    <2> QED BY <1>2, <2>1, <2>2
<1>8. ASSUME NEW t \in Target, RedispatchTarget(t)
      PROVE  tstatus[j] \notin Started /\ status'[u] \in Unqueued
    BY <1>1, <1>2, <1>8, RedispatchEffect
<1>9. Shape
    BY StepShape
<1> QED BY <1>3, <1>4, <1>5, <1>6, <1>7, <1>8, <1>9 DEF Shape

\* A daemon starts spawning only what it claims, and it claims what is ready.
LEMMA SpawningStep ==
  ASSUME TypeOK, [Next]_vars, NEW d \in Daemon, NEW t \in spawning'[d]
  PROVE  t \in spawning[d] \/ status[t] = "ready"
<1> USE DEF daemonVars
<1>0. spawning \in [Daemon -> SUBSET Target]
    BY DEF TypeOK
<1>1. CASE UNCHANGED vars
    BY <1>1 DEF vars
<1>2. ASSUME NEW k \in Ticket, TicketStep(k)
      PROVE  spawning' = spawning
    BY <1>2 DEF TicketStep, UpsertTicket, ExternalTerminal, RequestAnalysis, Start,
                CancelTicket, Archive, Restore
<1>3. ASSUME NEW u \in Target, OperatorStep(u)
      PROVE  spawning' = spawning
    BY <1>3 DEF OperatorStep, CancelTarget, ExcludeTarget, IncludeTarget,
                RedispatchTarget, RequestGateDecision
<1>4. ASSUME NEW u \in Target, TargetStep(u)
      PROVE  spawning' = spawning
    BY <1>4 DEF TargetStep, RunStep, RecordRunId, RunSucceeded, RunFailed, GateOpened,
                GateQuestionChanged, GateTimedOut, ConfirmCancel, EvaluateReadiness,
                SweepOrphanedTarget
<1>5. ASSUME NEW e \in Daemon, DaemonStep(e)
      PROVE  t \in spawning[d] \/ status[t] = "ready"
    <2>1. ASSUME NEW p \in Pass, PassStep(e, p)
          PROVE  t \in spawning[d] \/ status[t] = "ready"
        <3>1. CASE ClaimReadyTargets(e, p)
            BY <1>0, <3>1 DEF ClaimReadyTargets
        <3>2. CASE ~ClaimReadyTargets(e, p)
            BY <2>1, <3>2 DEF PassStep, ReadSlots, ClaimAnalysisWork, ReadGateDecisions,
                              ApplyGateDecision, ClearGateDecision
        <3> QED BY <3>1, <3>2
    <2>2. CASE Crash(e)
        BY <1>0, <2>2 DEF Crash
    <2>3. ASSUME NEW u \in Target, RunStarted(e, u) \/ DispatchFailed(e, u)
          PROVE  t \in spawning[d]
        BY <1>0, <2>3 DEF RunStarted, DispatchFailed, SpawnReturned
    <2>4. ASSUME NEW k \in Ticket,
                 AnalysisSucceeded(e, k) \/ AnalysisFailed(e, k) \/ AnalysisRefused(e, k)
          PROVE  spawning' = spawning
        BY <2>4 DEF AnalysisSucceeded, AnalysisFailed, AnalysisRefused, AnalysisReturned
    <2>5. CASE RecoverOnStartup(e)
        BY <2>5 DEF RecoverOnStartup
    <2> QED BY <1>5, <2>1, <2>2, <2>3, <2>4, <2>5 DEF DaemonStep, TickStep
<1> QED BY <1>1, <1>2, <1>3, <1>4, <1>5 DEF Next

LEMMA UnstartedStep ==
  TypeOK /\ UnstartedTicketHasNoRun /\ [Next]_vars => UnstartedTicketHasNoRun'
<1> SUFFICES ASSUME TypeOK, UnstartedTicketHasNoRun, [Next]_vars,
                    NEW t \in Target, tstatus'[TicketOf[t]] \notin Started
             PROVE  /\ status'[t] \in Unqueued
                    /\ \A d \in Daemon : t \notin spawning'[d]
    BY DEF UnstartedTicketHasNoRun
<1>1. tstatus[TicketOf[t]] \notin Started /\ status'[t] \in Unqueued
    BY UnstartedStatus
<1>2. status[t] # "ready" /\ \A d \in Daemon : t \notin spawning[d]
    BY <1>1 DEF UnstartedTicketHasNoRun
<1>3. \A d \in Daemon : t \notin spawning'[d]
    BY <1>2, SpawningStep
<1> QED BY <1>1, <1>3

\* No target of a ticket that has not started is queued, live or being spawned:
\* the fan-out an analysis replaces (replace_targets) has no run behind it.
THEOREM UnstartedCorrect == Spec => []UnstartedTicketHasNoRun
<1>1. Init => UnstartedTicketHasNoRun
    BY DEF Init, UnstartedTicketHasNoRun
<1>2. TypeOK /\ UnstartedTicketHasNoRun /\ [Next]_vars => UnstartedTicketHasNoRun'
    BY UnstartedStep
<1> QED BY <1>1, <1>2, TypeCorrect, PTL DEF Spec

-----------------------------------------------------------------------------
(* TicketAgreesWithTargets. *)

\* A ticket whose target moved is settled by the statuses it moved to.
LEMMA CommitAgrees ==
  ASSUME TypeOK, NEW t \in Target, NEW st \in [Target -> TargetStatus \cup {"absent"}],
         Commit(t, st), Planned(st, TicketOf[t])
  PROVE  /\ tstatus'[TicketOf[t]] = "done" => SettleTicketStatus(status', TargetsOf(TicketOf[t])) = "done"
         /\ tstatus'[TicketOf[t]] = "running" => SettleTicketStatus(status', TargetsOf(TicketOf[t])) = "running"
<1> DEFINE k == TicketOf[t]
<1>1. tstatus'[k] = Resettled(k, st)
    BY CommitEffect
<1>2. \A u \in Target : \/ status'[u] = st[u]
                        \/ st[u] = "blocked" /\ status'[u] = "ready"
    BY CommitEffect DEF Carried
<1>3. StillOpen(status', k) <=> StillOpen(st, k)
    BY <1>2 DEF StillOpen, TargetsOf
<1>4. Planned(status', k) <=> Planned(st, k)
    BY <1>2 DEF Planned, TargetsOf
<1>5. tstatus'[k] = "done" => Planned(st, k) /\ ~StillOpen(st, k)
    BY <1>1, ResettledEffect
<1>6. tstatus'[k] = "running" => StillOpen(st, k)
    BY <1>1, ResettledEffect
<1> QED BY <1>3, <1>4, <1>5, <1>6, SettleMeans

Agrees(k) ==
  /\ tstatus[k] = "done" => SettleTicketStatus(status, TargetsOf(k)) = "done"
  /\ tstatus[k] = "running" => SettleTicketStatus(status, TargetsOf(k)) = "running"

\* A ticket whose targets only move within the open statuses needs no settling.
LEMMA FrameAgrees ==
  ASSUME NEW k \in Ticket, Agrees(k),
         tstatus'[k] = tstatus[k] \/ tstatus'[k] \notin {"running", "done"},
         \A u \in TargetsOf(k) : \/ status'[u] = status[u]
                                 \/ status[u] \in Queued /\ status'[u] \in Queued
  PROVE  Agrees(k)'
<1>1. StillOpen(status', k) <=> StillOpen(status, k)
    BY DEF StillOpen
<1>2. Planned(status', k) <=> Planned(status, k)
    BY DEF Planned
<1> QED BY <1>1, <1>2, SettleMeans DEF Agrees

LEMMA ShiftAgrees ==
  ASSUME TypeOK, NEW t \in Target, NEW to \in TargetStatus, Shift(t, to),
         NEW k \in Ticket, Agrees(k)
  PROVE  Agrees(k)'
<1> DEFINE st == [status EXCEPT ![t] = to]
<1>1. st \in [Target -> TargetStatus \cup {"absent"}]
    BY DEF TypeOK
<1>2. Commit(t, st)
    BY DEF Shift, Move
<1>3. st[t] = to
    BY DEF TypeOK
<1>4. Planned(st, TicketOf[t])
    BY <1>3 DEF Planned, TargetsOf
<1> HIDE DEF st
<1>5. CASE k = TicketOf[t]
    BY <1>1, <1>2, <1>4, <1>5, CommitAgrees DEF Agrees
<1>6. CASE k # TicketOf[t]
    <2>1. tstatus'[k] = tstatus[k]
        BY <1>6, ShiftEffect
    <2>2. \A u \in TargetsOf(k) : status'[u] = status[u]
        BY <1>6, ShiftEffect DEF TargetsOf
    <2> QED BY <2>1, <2>2, FrameAgrees
<1> QED BY <1>5, <1>6

LEMMA RedispatchAgrees ==
  ASSUME TypeOK, NEW t \in Target, RedispatchTarget(t), NEW k \in Ticket, Agrees(k)
  PROVE  Agrees(k)'
<1> DEFINE base == [status EXCEPT ![t] = "blocked"]
           st   == PromoteReady(TicketOf[t], base)
<1>1. base \in [Target -> TargetStatus \cup {"absent"}]
    BY DEF TypeOK
<1>2. st \in [Target -> TargetStatus \cup {"absent"}]
    BY <1>1, PromoteReadyType
<1>3. Commit(t, st)
    BY DEF RedispatchTarget
<1>4. st[t] \in {"blocked", "ready"}
    BY DEF PromoteReady, TypeOK
<1>5. Planned(st, TicketOf[t])
    BY <1>4 DEF Planned, TargetsOf
<1> HIDE DEF base, st
<1>6. CASE k = TicketOf[t]
    BY <1>2, <1>3, <1>5, <1>6, CommitAgrees DEF Agrees
<1>7. CASE k # TicketOf[t]
    <2>1. tstatus'[k] = tstatus[k]
        BY <1>7, RedispatchEffect
    <2>2. \A u \in TargetsOf(k) : status'[u] = status[u]
        BY <1>7, RedispatchEffect DEF TargetsOf
    <2> QED BY <2>1, <2>2, FrameAgrees
<1> QED BY <1>6, <1>7

\* A ticket that starts has work, because nothing of it can have succeeded yet.
LEMMA StartAgrees ==
  ASSUME TypeOK, UnstartedTicketHasNoRun, NEW j \in Ticket, Start(j),
         NEW k \in Ticket, Agrees(k)
  PROVE  Agrees(k)'
<1>1. \A u \in Target : \/ status'[u] = status[u]
                        \/ status[u] = "blocked" /\ status'[u] = "ready"
    BY DEF Start, PromoteReady
<1>2. CASE k = j
    <2>1. PICK u \in TargetsOf(k) : status[u] \notin {"absent", "excluded"}
        BY <1>2 DEF Start, Participating, Fanout
    <2>2. status[u] \in {"blocked", "cancelled"}
        BY <1>2, <2>1 DEF UnstartedTicketHasNoRun, Start, TargetsOf
    <2>3. StillOpen(status', k)
        BY <1>1, <2>1, <2>2 DEF StillOpen, TargetsOf
    <2>4. tstatus'[k] = "running"
        BY <1>2 DEF Start, TypeOK
    <2> QED BY <2>3, <2>4, SettleMeans DEF Agrees
<1>3. CASE k # j
    <2>1. tstatus'[k] = tstatus[k]
        BY <1>3 DEF Start, TypeOK
    <2>2. \A u \in TargetsOf(k) : status'[u] = status[u]
        BY <1>3 DEF Start, PromoteReady, TargetsOf, TypeOK
    <2> QED BY <2>1, <2>2, FrameAgrees
<1> QED BY <1>2, <1>3

LEMMA AgreesStep ==
  ASSUME TypeOK, UnstartedTicketHasNoRun, [Next]_vars, NEW k \in Ticket, Agrees(k)
  PROVE  Agrees(k)'
<1>1. CASE Shuffle
    <2>1. tstatus'[k] = tstatus[k] \/ tstatus'[k] \notin {"running", "done"}
        BY <1>1 DEF Shuffle
    <2>2. \A u \in TargetsOf(k) : \/ status'[u] = status[u]
                                  \/ status[u] \in Queued /\ status'[u] \in Queued
        BY <1>1 DEF Shuffle, TargetsOf
    <2> QED BY <2>1, <2>2, FrameAgrees
<1>2. ASSUME NEW t \in Target, NEW to \in TargetStatus, Shift(t, to)
      PROVE  Agrees(k)'
    BY <1>2, ShiftAgrees
<1>3. ASSUME NEW j \in Ticket, Start(j)
      PROVE  Agrees(k)'
    BY <1>3, StartAgrees
<1>4. ASSUME NEW j \in Ticket, CancelTicket(j)
      PROVE  Agrees(k)'
    <2>1. tstatus'[k] = tstatus[k] \/ tstatus'[k] = "cancelled"
        BY <1>4 DEF CancelTicket, TypeOK
    <2>2. CASE k = j
        BY <1>4, <2>2 DEF Agrees, CancelTicket, TypeOK
    <2>3. CASE k # j
        <3>1. \A u \in TargetsOf(k) : status'[u] = status[u]
            BY <1>4, <2>3 DEF CancelTicket, TargetsOf
        <3> QED BY <2>1, <3>1, FrameAgrees
    <2> QED BY <2>2, <2>3
<1>5. ASSUME NEW j \in Ticket, NEW d \in Daemon, AnalysisSucceeded(d, j)
      PROVE  Agrees(k)'
    <2>1. PICK S : status' = [t \in Target |-> IF TicketOf[t] # j THEN status[t]
                                               ELSE IF t \in S THEN "blocked" ELSE "absent"]
        BY <1>5, Zenon DEF AnalysisSucceeded
    <2>2. tstatus' = [tstatus EXCEPT ![j] = "analyzed"]
        BY <1>5 DEF AnalysisSucceeded
    <2>3. CASE k = j
        BY <2>2, <2>3 DEF Agrees, TypeOK
    <2>4. CASE k # j
        <3>1. \A u \in TargetsOf(k) : status'[u] = status[u]
            BY <2>1, <2>4 DEF TargetsOf
        <3>2. tstatus'[k] = tstatus[k]
            BY <2>2, <2>4 DEF TypeOK
        <3> QED BY <3>1, <3>2, FrameAgrees
    <2> QED BY <2>3, <2>4
<1>6. ASSUME NEW t \in Target, RedispatchTarget(t)
      PROVE  Agrees(k)'
    BY <1>6, RedispatchAgrees
<1>7. Shape
    BY StepShape
<1> QED BY <1>1, <1>2, <1>3, <1>4, <1>5, <1>6, <1>7 DEF Shape

\* A ticket's status is the one its targets imply, after every transaction: done
\* exactly when every participating target succeeded, and running while one has
\* not (settleTicketStatus, applied by the target envelope and by no sweep).
THEOREM AgreementCorrect == Spec => []TicketAgreesWithTargets
<1>1. Init => TicketAgreesWithTargets
    BY DEF Init, TicketAgreesWithTargets
<1>2. TypeOK /\ UnstartedTicketHasNoRun /\ TicketAgreesWithTargets /\ [Next]_vars
        => TicketAgreesWithTargets'
    <2> SUFFICES ASSUME TypeOK, UnstartedTicketHasNoRun, TicketAgreesWithTargets,
                        [Next]_vars, NEW k \in Ticket
                 PROVE  Agrees(k)'
        BY DEF TicketAgreesWithTargets, Agrees
    <2>1. Agrees(k)
        BY DEF TicketAgreesWithTargets, Agrees
    <2> QED BY <2>1, AgreesStep
<1> QED BY <1>1, <1>2, TypeCorrect, UnstartedCorrect, PTL DEF Spec

-----------------------------------------------------------------------------
(* CancelledTicketFlagsItsRuns. *)

\* Only CancelTicket cancels a ticket, and nothing enters the queue of a
\* cancelled one.
LEMMA CancelledStatus ==
  ASSUME TypeOK, [Next]_vars, NEW u \in Target,
         tstatus'[TicketOf[u]] = "cancelled", status'[u] \in Queued
  PROVE  \/ CancelTicket(TicketOf[u])
         \/ tstatus[TicketOf[u]] = "cancelled" /\ status[u] \in Queued
<1> DEFINE j == TicketOf[u]
<1>1. j \in Ticket
    BY ControlAssumption
<1>2. CASE Shuffle
    BY <1>1, <1>2 DEF Shuffle
<1>3. ASSUME NEW t \in Target, NEW to \in TargetStatus, Shift(t, to)
      PROVE  tstatus[j] = "cancelled" /\ status[u] \in Queued
    <2>1. tstatus[j] = "cancelled"
        BY <1>1, <1>3, ShiftEffect
    <2>2. status'[u] = IF u = t THEN to ELSE status[u]
        BY <1>3, <2>1, ShiftEffect
    <2>3. CASE u = t
        BY <1>3, <2>1, <2>2, <2>3 DEF Shift
    <2> QED BY <2>1, <2>2, <2>3
<1>4. ASSUME NEW k \in Ticket, Start(k)
      PROVE  tstatus[j] = "cancelled" /\ status[u] \in Queued
    <2>1. j # k /\ tstatus'[j] = tstatus[j]
        BY <1>1, <1>4 DEF Start, TypeOK
    <2>2. status'[u] = status[u]
        BY <1>4, <2>1 DEF Start, PromoteReady, TypeOK
    <2> QED BY <2>1, <2>2
<1>5. ASSUME NEW k \in Ticket, CancelTicket(k), k # j
      PROVE  tstatus[j] = "cancelled" /\ status[u] \in Queued
    BY <1>1, <1>5 DEF CancelTicket, TypeOK
<1>6. ASSUME NEW k \in Ticket, NEW d \in Daemon, AnalysisSucceeded(d, k)
      PROVE  tstatus[j] = "cancelled" /\ status[u] \in Queued
    <2>1. PICK S : status' = [t \in Target |-> IF TicketOf[t] # k THEN status[t]
                                               ELSE IF t \in S THEN "blocked" ELSE "absent"]
        BY <1>6, Zenon DEF AnalysisSucceeded
    <2>2. tstatus[j] = "cancelled" /\ j # k
        BY <1>1, <1>6 DEF AnalysisSucceeded, TypeOK
    <2> QED BY <2>1, <2>2
<1>7. ASSUME NEW t \in Target, RedispatchTarget(t)
      PROVE  tstatus[j] = "cancelled" /\ status[u] \in Queued
    <2>1. tstatus[j] = "cancelled" /\ j # TicketOf[t]
        BY <1>1, <1>7, RedispatchEffect
    <2> QED BY <1>7, <2>1, RedispatchEffect
<1>8. Shape
    BY StepShape
<1> QED BY <1>2, <1>3, <1>4, <1>5, <1>6, <1>7, <1>8 DEF Shape

\* A transaction that clears the flag of t takes t out of the queue for good.
LEMMA FlagCleared ==
  ASSUME TypeOK, NEW t \in Target, NEW to \in {"failed", "cancelled", "excluded"},
         Move(t, to), cancelReq' = [cancelReq EXCEPT ![t] = FALSE],
         NEW u \in Target, cancelReq[u]
  PROVE  cancelReq'[u] \/ status'[u] \notin Queued
<1> DEFINE st == [status EXCEPT ![t] = to]
<1>1. st \in [Target -> TargetStatus \cup {"absent"}]
    BY DEF TypeOK
<1>2. Commit(t, st)
    BY DEF Move
<1>3. st[t] = to
    BY DEF TypeOK
<1> HIDE DEF st
<1>4. status'[t] = st[t]
    BY <1>1, <1>2, <1>3, CommitEffect DEF Carried
<1>5. CASE u = t
    BY <1>3, <1>4, <1>5
<1>6. CASE u # t
    BY <1>6 DEF TypeOK
<1> QED BY <1>5, <1>6

Kept(u) == \/ cancelReq'[u]
           \/ status'[u] \notin Queued
           \/ tstatus[TicketOf[u]] = "running"

LEMMA FlagKept ==
  ASSUME TypeOK, [Next]_vars, NEW u \in Target, cancelReq[u]
  PROVE  Kept(u)
<1> USE DEF rowVars
<1>1. CASE UNCHANGED vars
    BY <1>1 DEF vars, Kept
<1>2. ASSUME NEW k \in Ticket, TicketStep(k)
      PROVE  Kept(u)
    <2>1. cancelReq'[u]
        BY <1>2 DEF TicketStep, UpsertTicket, ExternalTerminal, RequestAnalysis, Start,
                    CancelTicket, Archive, Restore
    <2> QED BY <2>1 DEF Kept
<1>3. ASSUME NEW t \in Target, OperatorStep(t)
      PROVE  Kept(u)
    <2>1. CASE CancelTarget(t)
        <3>1. CASE cancelReq' = [cancelReq EXCEPT ![t] = TRUE]
            BY <3>1 DEF Kept, TypeOK
        <3>2. CASE Move(t, "cancelled") /\ cancelReq' = [cancelReq EXCEPT ![t] = FALSE]
            BY <3>2, FlagCleared DEF Kept
        <3> QED BY <2>1, <3>1, <3>2 DEF CancelTarget
    <2>2. CASE ExcludeTarget(t)
        BY <2>2, FlagCleared DEF ExcludeTarget, Kept
    <2>3. CASE IncludeTarget(t)
        BY <2>3 DEF IncludeTarget, Kept
    <2>4. CASE RedispatchTarget(t)
        <3>1. tstatus[TicketOf[t]] = "running" /\ cancelReq' = [cancelReq EXCEPT ![t] = FALSE]
            BY <2>4 DEF RedispatchTarget
        <3> QED BY <3>1 DEF Kept, TypeOK
    <2>5. CASE \E d \in GateDecision : RequestGateDecision(t, d)
        BY <2>5 DEF RequestGateDecision, Kept
    <2> QED BY <1>3, <2>1, <2>2, <2>3, <2>4, <2>5 DEF OperatorStep
<1>4. ASSUME NEW t \in Target, TargetStep(t)
      PROVE  Kept(u)
    <2>1. CASE RunFailed(t) \/ GateTimedOut(t) \/ ConfirmCancel(t)
        BY <2>1, FlagCleared DEF RunFailed, GateTimedOut, ConfirmCancel, Kept
    <2>2. CASE cancelReq' = cancelReq
        BY <2>2 DEF Kept
    <2> QED BY <1>4, <2>1, <2>2 DEF TargetStep, RunStep, RecordRunId, RunSucceeded, GateOpened,
                GateQuestionChanged, EvaluateReadiness, SweepOrphanedTarget
<1>5. ASSUME NEW d \in Daemon, DaemonStep(d)
      PROVE  Kept(u)
    <2>1. CASE cancelReq' = cancelReq
        BY <2>1 DEF Kept
    <2>2. ASSUME NEW k \in Ticket, AnalysisSucceeded(d, k)
          PROVE  Kept(u)
        <3>1. PICK S : status' = [t \in Target |-> IF TicketOf[t] # k THEN status[t]
                                                   ELSE IF t \in S THEN "blocked" ELSE "absent"]
            BY <2>2, Zenon DEF AnalysisSucceeded
        <3>2. cancelReq'[u] <=> TicketOf[u] # k
            BY <2>2 DEF AnalysisSucceeded
        <3> QED BY <3>1, <3>2 DEF Kept
    <2>3. ASSUME NEW t \in Target, DispatchFailed(d, t)
          PROVE  Kept(u)
        BY <2>1, <2>3, FlagCleared DEF DispatchFailed, Kept
    <2>4. ASSUME NEW p \in Pass, PassStep(d, p)
          PROVE  Kept(u)
        <3>1. ASSUME NEW t \in Target, NEW answer \in GateDecision, ApplyGateDecision(d, p, t, answer)
              PROVE  Kept(u)
            BY <2>1, <3>1, FlagCleared DEF ApplyGateDecision, AnsweredGate, Kept
        <3>2. CASE \/ ReadSlots(d, p) \/ ClaimAnalysisWork(d, p) \/ ClaimReadyTargets(d, p)
                   \/ ReadGateDecisions(d, p) \/ ClearGateDecision(d, p)
            BY <2>1, <3>2 DEF ReadSlots, ClaimAnalysisWork, ClaimReadyTargets,
                              ReadGateDecisions, ClearGateDecision
        <3> QED BY <2>4, <3>1, <3>2 DEF PassStep
    <2>5. ASSUME NEW k \in Ticket, AnalysisFailed(d, k) \/ AnalysisRefused(d, k)
          PROVE  cancelReq' = cancelReq
        BY <2>5 DEF AnalysisFailed, AnalysisRefused
    <2>6. ASSUME NEW t \in Target, RunStarted(d, t)
          PROVE  cancelReq' = cancelReq
        BY <2>6 DEF RunStarted
    <2>7. CASE Crash(d) \/ RecoverOnStartup(d)
        BY <2>1, <2>7 DEF Crash, RecoverOnStartup
    <2> QED BY <1>5, <2>1, <2>2, <2>3, <2>4, <2>5, <2>6, <2>7 DEF DaemonStep, TickStep
<1> QED BY <1>1, <1>2, <1>3, <1>4, <1>5 DEF Next

\* A live or queued target of a cancelled ticket carries the flag that makes a
\* daemon kill it (cancel_targets), whatever claims, requeues, gates, restarts
\* and redispatches came between.
THEOREM CancellationCorrect == Spec => []CancelledTicketFlagsItsRuns
<1>1. Init => CancelledTicketFlagsItsRuns
    BY DEF Init, CancelledTicketFlagsItsRuns
<1>2. TypeOK /\ CancelledTicketFlagsItsRuns /\ [Next]_vars => CancelledTicketFlagsItsRuns'
    <2> SUFFICES ASSUME TypeOK, CancelledTicketFlagsItsRuns, [Next]_vars,
                        NEW t \in Target,
                        tstatus'[TicketOf[t]] = "cancelled", status'[t] \in Queued
                 PROVE  cancelReq'[t]
        BY DEF CancelledTicketFlagsItsRuns
    <2>1. CASE CancelTicket(TicketOf[t])
        BY <2>1 DEF CancelTicket, TypeOK
    <2>2. CASE tstatus[TicketOf[t]] = "cancelled" /\ status[t] \in Queued
        <3>1. cancelReq[t]
            BY <2>2 DEF CancelledTicketFlagsItsRuns
        <3>2. Kept(t)
            BY <3>1, FlagKept
        <3> QED BY <2>2, <3>2 DEF Kept
    <2> QED BY <2>1, <2>2, CancelledStatus
<1> QED BY <1>1, <1>2, TypeCorrect, PTL DEF Spec

-----------------------------------------------------------------------------
(* LiveWithinCeilings. *)

\* No target becomes live.
NoneGoesLive == LiveTargets' \subseteq LiveTargets

\* The slots some pass has counted and not used, one by one.
Passes == Daemon \X Pass
Held   == {h \in Passes \X (1..MaxRuns) : h[2] <= slots[h[1][1]][h[1][2]]}

\* What is live and what the passes believe to be free fit under one ceiling
\* for each of them.
SlotsAreFree ==
  Cardinality(LiveTargets) + Cardinality(Held) <= MaxRuns * Cardinality(Passes)

LEMMA LiveFinite ==
  /\ IsFiniteSet(LiveTargets) /\ Cardinality(LiveTargets) \in Nat
  /\ IsFiniteSet(LiveTargets') /\ Cardinality(LiveTargets') \in Nat
<1>1. LiveTargets \subseteq Target /\ LiveTargets' \subseteq Target
    BY DEF LiveTargets
<1> QED BY <1>1, ControlAssumption, FS_Subset, FS_CardinalityType

\* A target that moves through the envelope is live afterwards only if it was,
\* and what the envelope promotes is queued.
LEMMA MoveStaysDead ==
  ASSUME TypeOK, NEW t \in Target, NEW to \in TargetStatus, Move(t, to),
         to \in Live => status[t] \in Live
  PROVE  NoneGoesLive
<1> DEFINE st == [status EXCEPT ![t] = to]
<1>1. st \in [Target -> TargetStatus \cup {"absent"}] /\ Commit(t, st)
    BY DEF TypeOK, Move
<1>2. \A u \in Target : st[u] = IF u = t THEN to ELSE status[u]
    BY DEF TypeOK
<1> HIDE DEF st
<1>3. \A u \in Target : status'[u] = st[u] \/ status'[u] = "ready"
    BY <1>1, CommitEffect DEF Carried
<1> QED BY <1>2, <1>3 DEF NoneGoesLive, LiveTargets

LEMMA RedispatchStaysDead ==
  ASSUME TypeOK, NEW t \in Target, RedispatchTarget(t)
  PROVE  NoneGoesLive
<1> DEFINE base == [status EXCEPT ![t] = "blocked"]
           st   == PromoteReady(TicketOf[t], base)
<1>1. base \in [Target -> TargetStatus \cup {"absent"}]
    BY DEF TypeOK
<1>2. st \in [Target -> TargetStatus \cup {"absent"}]
    BY <1>1, PromoteReadyType
<1>3. Commit(t, st)
    BY DEF RedispatchTarget
<1>4. \A u \in Target : st[u] \in {status[u], "blocked", "ready"}
    BY DEF PromoteReady, TypeOK
<1> HIDE DEF base, st
<1>5. \A u \in Target : status'[u] = st[u] \/ status'[u] = "ready"
    BY <1>2, <1>3, CommitEffect DEF Carried
<1> QED BY <1>4, <1>5 DEF NoneGoesLive, LiveTargets

\* Tickets, operators, runs and sweeps: none of them makes a target live, and
\* none touches a daemon's count.
LEMMA OthersStayDead ==
  ASSUME TypeOK,
         \/ \E k \in Ticket : TicketStep(k)
         \/ \E t \in Target : OperatorStep(t) \/ TargetStep(t)
  PROVE  NoneGoesLive /\ slots' = slots
<1> USE DEF rowVars, daemonVars
<1>1. ASSUME NEW k \in Ticket, TicketStep(k)
      PROVE  NoneGoesLive /\ slots' = slots
    BY <1>1 DEF TicketStep, UpsertTicket, ExternalTerminal, RequestAnalysis, Start, PromoteReady,
                CancelTicket, Archive, Restore, NoneGoesLive, LiveTargets
<1>2. ASSUME NEW t \in Target, OperatorStep(t)
      PROVE  NoneGoesLive /\ slots' = slots
    <2>1. CASE UNCHANGED status
        BY <1>2, <2>1 DEF OperatorStep, CancelTarget, ExcludeTarget, IncludeTarget, RedispatchTarget,
                          RequestGateDecision, NoneGoesLive, LiveTargets
    <2>2. CASE RedispatchTarget(t)
        BY <2>2, RedispatchStaysDead DEF RedispatchTarget
    <2>3. CASE CancelTarget(t) \/ ExcludeTarget(t) \/ IncludeTarget(t)
        <3>1. UNCHANGED status \/ Move(t, "cancelled") \/ Move(t, "excluded") \/ Move(t, "blocked")
            BY <2>3 DEF CancelTarget, ExcludeTarget, IncludeTarget
        <3>2. slots' = slots
            BY <2>3 DEF CancelTarget, ExcludeTarget, IncludeTarget
        <3> QED BY <2>1, <3>1, <3>2, MoveStaysDead
    <2> QED BY <1>2, <2>1, <2>2, <2>3 DEF OperatorStep, RequestGateDecision
<1>3. ASSUME NEW t \in Target, TargetStep(t)
      PROVE  NoneGoesLive /\ slots' = slots
    <2>1. slots' = slots
        BY <1>3 DEF TargetStep, RunStep, RecordRunId, RunSucceeded, RunFailed, GateOpened,
                    GateQuestionChanged, GateTimedOut, ConfirmCancel, EvaluateReadiness,
                    SweepOrphanedTarget
    <2>2. CASE RecordRunId(t) \/ GateQuestionChanged(t)
        BY <2>2 DEF RecordRunId, GateQuestionChanged, NoneGoesLive, LiveTargets
    <2>3. CASE GateOpened(t)
        BY <2>3, MoveStaysDead DEF GateOpened
    <2>4. CASE SweepOrphanedTarget(t)
        BY <2>4 DEF SweepOrphanedTarget, NoneGoesLive, LiveTargets, TypeOK
    <2>5. CASE \/ RunSucceeded(t) \/ RunFailed(t) \/ GateTimedOut(t) \/ ConfirmCancel(t)
               \/ EvaluateReadiness(t)
        <3>1. PICK to \in TargetStatus : Move(t, to) /\ to \notin Live
            BY <2>5 DEF RunSucceeded, RunFailed, GateTimedOut, ConfirmCancel, EvaluateReadiness
        <3> QED BY <2>1, <3>1, MoveStaysDead
    <2> QED BY <1>3, <2>1, <2>2, <2>3, <2>4, <2>5, Zenon DEF TargetStep, RunStep
<1> QED BY <1>1, <1>2, <1>3, Zenon

\* Of the daemon's steps only a claim makes targets live.
LEMMA PassStaysDead ==
  ASSUME TypeOK, NEW d \in Daemon, NEW p \in Pass, PassStep(d, p), ~ClaimReadyTargets(d, p)
  PROVE  NoneGoesLive
<1>1. CASE ReadSlots(d, p) \/ ClaimAnalysisWork(d, p) \/ ReadGateDecisions(d, p) \/ ClearGateDecision(d, p)
    BY <1>1 DEF ReadSlots, ClaimAnalysisWork, ReadGateDecisions, ClearGateDecision, NoneGoesLive,
                LiveTargets
<1>2. ASSUME NEW t \in Target, NEW answer \in GateDecision, ApplyGateDecision(d, p, t, answer)
      PROVE  NoneGoesLive
    <2>1. \/ UNCHANGED status
          \/ status[t] = "gate_waiting" /\ \E to \in TargetStatus : Move(t, to)
        BY <1>2 DEF ApplyGateDecision, AnsweredGate
    <2> QED BY <2>1, MoveStaysDead DEF NoneGoesLive, LiveTargets
<1> QED BY <1>1, <1>2, Zenon DEF PassStep

LEMMA DaemonStaysDead ==
  ASSUME TypeOK, NEW d \in Daemon, DaemonStep(d), \A p \in Pass : ~ClaimReadyTargets(d, p)
  PROVE  NoneGoesLive
<1> USE DEF rowVars
<1>1. CASE Crash(d) \/ \E k \in Ticket : AnalysisFailed(d, k) \/ AnalysisRefused(d, k)
    BY <1>1 DEF Crash, AnalysisFailed, AnalysisRefused, NoneGoesLive, LiveTargets
<1>2. ASSUME NEW k \in Ticket, AnalysisSucceeded(d, k)
      PROVE  NoneGoesLive
    <2>1. PICK S : status' = [t \in Target |-> IF TicketOf[t] # k THEN status[t]
                                               ELSE IF t \in S THEN "blocked" ELSE "absent"]
        BY <1>2, Zenon DEF AnalysisSucceeded
    <2> QED BY <2>1 DEF NoneGoesLive, LiveTargets
<1>3. ASSUME NEW t \in Target, RunStarted(d, t)
      PROVE  NoneGoesLive
    BY <1>3, MoveStaysDead DEF RunStarted
<1>4. ASSUME NEW t \in Target, DispatchFailed(d, t)
      PROVE  NoneGoesLive
    <2>1. UNCHANGED status \/ Move(t, "failed")
        BY <1>4 DEF DispatchFailed
    <2> QED BY <2>1, MoveStaysDead DEF NoneGoesLive, LiveTargets
<1>5. CASE \E p \in Pass : PassStep(d, p)
    BY <1>5, PassStaysDead
<1>6. CASE RecoverOnStartup(d)
    BY <1>6 DEF RecoverOnStartup, NoneGoesLive, LiveTargets
<1> QED BY <1>1, <1>2, <1>3, <1>4, <1>5, <1>6, Zenon DEF DaemonStep, TickStep

LEMMA HeldFinite ==
  /\ IsFiniteSet(Passes) /\ Cardinality(Passes) \in Nat
  /\ IsFiniteSet(Held) /\ Cardinality(Held) \in Nat
  /\ IsFiniteSet(Held') /\ Cardinality(Held') \in Nat
<1>1. IsFiniteSet(Passes) /\ Cardinality(Passes) \in Nat
    BY ControlAssumption, FS_Product, FS_CardinalityType DEF Passes
<1>2. IsFiniteSet(1..MaxRuns)
    BY BoundsType, FS_Interval
<1>3. IsFiniteSet(Passes \X (1..MaxRuns))
    BY <1>1, <1>2, FS_Product
<1>4. Held \subseteq Passes \X (1..MaxRuns) /\ Held' \subseteq Passes \X (1..MaxRuns)
    BY DEF Held
<1> QED BY <1>1, <1>3, <1>4, FS_Subset, FS_CardinalityType

\* Nothing becomes live and no pass believes more than before.
LEMMA QuietSlots ==
  ASSUME NoneGoesLive, Held' \subseteq Held, SlotsAreFree
  PROVE  SlotsAreFree'
<1>1. /\ Cardinality(LiveTargets') <= Cardinality(LiveTargets)
      /\ Cardinality(Held') <= Cardinality(Held)
    BY LiveFinite, HeldFinite, FS_Subset DEF NoneGoesLive
<1>2. Passes' = Passes /\ MaxRuns * Cardinality(Passes) \in Nat
    BY BoundsType, HeldFinite DEF Passes
<1> QED BY <1>1, <1>2, LiveFinite, HeldFinite DEF SlotsAreFree

LEMMA ColumnCount ==
  ASSUME NEW x, NEW n \in Nat
  PROVE  IsFiniteSet({x} \X (1..n)) /\ Cardinality({x} \X (1..n)) = n
<1>1. IsFiniteSet({x}) /\ Cardinality({x}) = 1
    BY FS_Singleton
<1>2. IsFiniteSet(1..n) /\ Cardinality(1..n) = n
    BY FS_Interval
<1>3. Cardinality({x} \X (1..n)) = Cardinality({x}) * Cardinality(1..n)
    BY <1>1, <1>2, FS_Product
<1> QED BY <1>1, <1>2, <1>3, FS_Product

\* The slots of one pass: a column of Held.
Column(d, p) == {h \in Held : h[1] = <<d, p>>}

LEMMA ColumnSize ==
  ASSUME TypeOK, NEW d \in Daemon, NEW p \in Pass
  PROVE  /\ Column(d, p) = {<<d, p>>} \X (1..slots[d][p])
         /\ Cardinality(Column(d, p)) = slots[d][p]
<1>1. slots[d][p] \in 0..MaxRuns /\ MaxRuns \in Nat
    BY BoundsType DEF TypeOK
<1>2. Column(d, p) = {<<d, p>>} \X (1..slots[d][p])
    BY <1>1 DEF Column, Held, Passes
<1>3. slots[d][p] \in Nat
    BY <1>1
<1> QED BY <1>2, <1>3, ColumnCount

\* The claim takes no more than the slots its pass counted, and uses them up.
LEMMA ClaimFits ==
  ASSUME TypeOK, NEW d \in Daemon, NEW p \in Pass, ClaimReadyTargets(d, p), SlotsAreFree
  PROVE  SlotsAreFree'
<1>1. PICK S \in SUBSET Target :
        /\ Cardinality(S) <= slots[d][p]
        /\ status' = [t \in Target |-> IF t \in S THEN "dispatching" ELSE status[t]]
    BY DEF ClaimReadyTargets, Claims
<1>2. slots' = [slots EXCEPT ![d][p] = 0] /\ slots[d][p] \in Nat /\ MaxRuns \in Nat
    BY BoundsType DEF ClaimReadyTargets, TypeOK
<1>3. IsFiniteSet(S) /\ Cardinality(S) \in Nat
    BY ControlAssumption, FS_Subset, FS_CardinalityType
<1>4. LiveTargets' = LiveTargets \cup S
    BY <1>1 DEF LiveTargets
<1>5. /\ Cardinality(LiveTargets \cup S)
           = Cardinality(LiveTargets) + Cardinality(S) - Cardinality(LiveTargets \cap S)
      /\ Cardinality(LiveTargets \cap S) \in Nat
    BY <1>3, LiveFinite, FS_Union, FS_Intersection, FS_CardinalityType
<1>6. Cardinality(Held') <= Cardinality(Held) - slots[d][p]
    <2>1. Held' \subseteq Held \ Column(d, p)
        BY <1>2 DEF Held, Column, Passes, TypeOK
    <2>2. Held \cap Column(d, p) = Column(d, p)
        BY DEF Column
    <2>3. Cardinality(Held \ Column(d, p)) = Cardinality(Held) - slots[d][p]
        <3>1. Cardinality(Column(d, p)) = slots[d][p]
            BY ColumnSize
        <3>2. Cardinality(Held \ Column(d, p))
                = Cardinality(Held) - Cardinality(Held \cap Column(d, p))
            BY HeldFinite, FS_Difference
        <3> QED BY <2>2, <3>1, <3>2
    <2>4. IsFiniteSet(Held \ Column(d, p))
        BY HeldFinite, FS_Difference
    <2>5. Cardinality(Held') <= Cardinality(Held \ Column(d, p))
        <3>1. Held' \in SUBSET (Held \ Column(d, p))
            BY <2>1
        <3> QED BY <2>4, <3>1, FS_Subset, Zenon
    <2> QED BY <2>3, <2>5
<1>7. Passes' = Passes /\ MaxRuns * Cardinality(Passes) \in Nat
    BY <1>2, HeldFinite DEF Passes
<1> QED BY <1>1, <1>2, <1>3, <1>4, <1>5, <1>6, <1>7, LiveFinite, HeldFinite DEF SlotsAreFree

\* A count adds what is missing to one ceiling, or nothing; the other passes
\* hold at most a ceiling each.
LEMMA CountFits ==
  ASSUME TypeOK, NEW d \in Daemon, NEW p \in Pass, ReadSlots(d, p), SlotsAreFree
  PROVE  SlotsAreFree'
<1> DEFINE Others == Passes \ {<<d, p>>}
<1>1. /\ LiveTargets' = LiveTargets /\ MaxRuns \in Nat
      /\ slots' = [slots EXCEPT ![d][p] = FreeSlots] /\ FreeSlots \in 0..MaxRuns
    BY BoundsType, FreeSlotsType DEF ReadSlots, LiveTargets
<1>2. CASE Cardinality(LiveTargets) > MaxRuns
    <2>1. FreeSlots = 0
        BY <1>2 DEF FreeSlots
    <2>2. Held' \subseteq Held
        BY <1>1, <2>1 DEF Held, Passes, TypeOK
    <2> QED BY <1>1, <2>2, QuietSlots DEF NoneGoesLive
<1>3. CASE Cardinality(LiveTargets) <= MaxRuns
    <2>1. FreeSlots = MaxRuns - Cardinality(LiveTargets)
        BY <1>1, <1>3, LiveFinite DEF FreeSlots
    <2>2. IsFiniteSet(Others) /\ Cardinality(Others) = Cardinality(Passes) - 1
        <3>1. <<d, p>> \in Passes /\ IsFiniteSet(Passes)
            BY HeldFinite DEF Passes
        <3> QED BY <3>1, FS_RemoveElement
    <2>3. IsFiniteSet(1..MaxRuns) /\ Cardinality(1..MaxRuns) = MaxRuns
        <3>1. MaxRuns \in Nat
            BY BoundsType
        <3> QED BY <3>1, FS_Interval
    <2>4. /\ IsFiniteSet(Others \X (1..MaxRuns))
          /\ Cardinality(Others \X (1..MaxRuns)) = Cardinality(Others) * MaxRuns
        BY <2>2, <2>3, FS_Product
    <2>5. TypeOK'
        BY PassStepType DEF PassStep
    <2>6. /\ IsFiniteSet(Column(d, p)') /\ Cardinality(Column(d, p)') = FreeSlots
        <3>1. slots'[d][p] = FreeSlots
            BY <1>1 DEF TypeOK
        <3>2. Column(d, p)' = {<<d, p>>} \X (1..FreeSlots)
            BY <1>1, <3>1 DEF Column, Held, Passes
        <3>3. FreeSlots \in Nat
            BY <1>1
        <3>4. /\ IsFiniteSet({<<d, p>>} \X (1..FreeSlots))
              /\ Cardinality({<<d, p>>} \X (1..FreeSlots)) = FreeSlots
            BY <3>3, ColumnCount, Zenon
        <3> QED BY <3>2, <3>4, Zenon
    <2>7. Held' \subseteq (Others \X (1..MaxRuns)) \cup Column(d, p)'
        BY DEF Held, Column
    <2>8. /\ IsFiniteSet((Others \X (1..MaxRuns)) \cup Column(d, p)')
          /\ Cardinality((Others \X (1..MaxRuns)) \cup Column(d, p)')
               <= Cardinality(Others) * MaxRuns + FreeSlots
        <3>1. /\ IsFiniteSet((Others \X (1..MaxRuns)) \cap Column(d, p)')
              /\ Cardinality((Others \X (1..MaxRuns)) \cap Column(d, p)') \in Nat
            BY <2>6, FS_Intersection, FS_CardinalityType
        <3>2. Cardinality(Others) * MaxRuns \in Nat
            BY <1>1, <2>2, FS_CardinalityType
        <3>3. /\ IsFiniteSet((Others \X (1..MaxRuns)) \cup Column(d, p)')
              /\ Cardinality((Others \X (1..MaxRuns)) \cup Column(d, p)')
                   = Cardinality(Others \X (1..MaxRuns)) + Cardinality(Column(d, p)')
                       - Cardinality((Others \X (1..MaxRuns)) \cap Column(d, p)')
            <4> DEFINE A == Others \X (1..MaxRuns)
                       B == Column(d, p)'
            <4>1. IsFiniteSet(A) /\ IsFiniteSet(B)
                BY <2>4, <2>6
            <4> HIDE DEF A, B
            <4>2. IsFiniteSet(A \cup B) /\ Cardinality(A \cup B) = Cardinality(A) + Cardinality(B) - Cardinality(A \cap B)
                BY <4>1, FS_Union
            <4> QED BY <4>2 DEF A, B
        <3> HIDE DEF Others
        <3> QED BY <1>1, <2>4, <2>6, <3>1, <3>2, <3>3
    <2>9. Cardinality(Held') <= Cardinality(Others) * MaxRuns + FreeSlots
        <3>1. Cardinality(Held') <= Cardinality((Others \X (1..MaxRuns)) \cup Column(d, p)')
            BY <2>7, <2>8, FS_Subset
        <3>2. Cardinality((Others \X (1..MaxRuns)) \cup Column(d, p)') \in Nat
            BY <2>8, FS_CardinalityType
        <3>3. Cardinality(Others) * MaxRuns \in Nat
            BY <1>1, <2>2, FS_CardinalityType
        <3> HIDE DEF Others
        <3> QED BY <1>1, <2>8, <3>1, <3>2, <3>3, HeldFinite
    <2>10. Cardinality(Others) * MaxRuns + MaxRuns = MaxRuns * Cardinality(Passes)
        <3>1. Cardinality(Passes) \in Nat /\ Cardinality(Others) \in Nat
            BY <2>2, HeldFinite, FS_CardinalityType
        <3> QED BY <1>1, <2>2, <3>1
    <2>11. Passes' = Passes /\ Cardinality(Others) * MaxRuns \in Nat
        BY <1>1, <2>2, FS_CardinalityType DEF Passes
    <2> HIDE DEF Others
    <2> QED BY <1>1, <2>1, <2>9, <2>10, <2>11, LiveFinite, HeldFinite DEF SlotsAreFree
<1> QED BY <1>1, <1>2, <1>3, LiveFinite

\* The count and the claim are two statements, and between them other passes
\* count and claim: each overshoots by what it counted, once.
LEMMA SlotsStep ==
  ASSUME TypeOK, SlotsAreFree, [Next]_vars
  PROVE  SlotsAreFree'
<1>1. CASE UNCHANGED vars
    BY <1>1, QuietSlots DEF vars, NoneGoesLive, LiveTargets, Held, Passes
<1>2. CASE \/ \E k \in Ticket : TicketStep(k)
           \/ \E t \in Target : OperatorStep(t) \/ TargetStep(t)
    BY <1>2, OthersStayDead, QuietSlots DEF Held, Passes
<1>3. ASSUME NEW d \in Daemon, NEW p \in Pass, ReadSlots(d, p)
      PROVE  SlotsAreFree'
    BY <1>3, CountFits
<1>4. ASSUME NEW d \in Daemon, NEW p \in Pass, ClaimReadyTargets(d, p)
      PROVE  SlotsAreFree'
    BY <1>4, ClaimFits
<1>5. ASSUME NEW d \in Daemon, DaemonStep(d),
             \A p \in Pass : ~ReadSlots(d, p) /\ ~ClaimReadyTargets(d, p)
      PROVE  SlotsAreFree'
    <2>1. \/ slots' = slots
          \/ slots' = [slots EXCEPT ![d] = [p \in Pass |-> 0]]
          \/ \E p \in Pass : slots' = [slots EXCEPT ![d][p] = 0]
        BY <1>5
        DEF DaemonStep, TickStep, PassStep, ClaimAnalysisWork, AnalysisSucceeded, AnalysisFailed,
            AnalysisRefused, AnalysisReturned, RunStarted, DispatchFailed, SpawnReturned,
            ReadGateDecisions, ApplyGateDecision, ClearGateDecision, Crash, RecoverOnStartup
    <2>2. Held' \subseteq Held
        <3>1. ASSUME NEW h \in Held'
              PROVE  h[2] <= slots[h[1][1]][h[1][2]]
            <4>1. /\ h \in Passes \X (1..MaxRuns) /\ h[2] <= slots'[h[1][1]][h[1][2]]
                  /\ h[1][1] \in Daemon /\ h[1][2] \in Pass /\ h[2] \in Nat /\ h[2] >= 1
                BY BoundsType DEF Held, Passes
            <4>2. \/ slots'[h[1][1]][h[1][2]] = slots[h[1][1]][h[1][2]]
                  \/ slots'[h[1][1]][h[1][2]] = 0
                <5>1. slots \in [Daemon -> [Pass -> 0..MaxRuns]]
                    BY DEF TypeOK
                <5> QED BY <2>1, <4>1, <5>1
            <4> QED BY <4>1, <4>2
        <3> QED BY <3>1 DEF Held, Passes
    <2> QED BY <1>5, <2>2, DaemonStaysDead, QuietSlots
<1> QED BY <1>1, <1>2, <1>3, <1>4, <1>5 DEF Next

\* There are never more live targets than one max_concurrent_agents for each
\* reconcile pass under way, for any number of daemons and of abandoned passes,
\* although the slots are counted in one statement and used in a later one, while
\* runs end, gates open and close, operators redispatch and daemons restart
\* (control/reconciler.ts, availableSlots and drainReadyTargets; orchestrator.ts,
\* safely).
THEOREM CeilingCorrect == Spec => []LiveWithinCeilings
<1>1. Init => SlotsAreFree
    <2> SUFFICES ASSUME Init PROVE SlotsAreFree
        OBVIOUS
    <2>1. LiveTargets = {}
        BY DEF Init, LiveTargets
    <2>2. Held = {}
        BY BoundsType DEF Init, Held, Passes
    <2>3. MaxRuns * Cardinality(Passes) \in Nat
        BY BoundsType, HeldFinite
    <2> QED BY <2>1, <2>2, <2>3, FS_EmptySet DEF SlotsAreFree
<1>2. TypeOK /\ SlotsAreFree /\ [Next]_vars => SlotsAreFree'
    BY SlotsStep
<1>3. SlotsAreFree => LiveWithinCeilings
    <2>1. MaxRuns * Cardinality(Passes) \in Nat
        BY BoundsType, HeldFinite
    <2> QED BY <2>1, LiveFinite, HeldFinite DEF SlotsAreFree, LiveWithinCeilings, Passes
<1> QED BY <1>1, <1>2, <1>3, TypeCorrect, PTL DEF Spec

-----------------------------------------------------------------------------
(***************************************************************************)
(* UnstartedTicketHasNoRun once more, at the grain of statements           *)
(* (ControlRaces).  A sweep writes by id what it decided on earlier, so    *)
(* what matters is that no target leaves a started ticket and no ticket    *)
(* starts between the list and the write.  With a second daemon one does:  *)
(* it starts the ticket whose analysis the first is about to reopen.       *)
(***************************************************************************)

Recovering == {"startup", "claims", "analyses"}

RaceTypeOK ==
  /\ TypeOK
  /\ stage \in [Daemon -> Recovering \cup {"idle", "orphans", "readiness"}]
  /\ pending \in [Daemon -> SUBSET ((Target \cup Ticket) \X {"ready", "blocked", "analysis_requested"})]
  /\ snapshot \in [Ticket -> [Target -> TargetStatus \cup {"absent"}] \cup {<<>>}]

\* Where a daemon's pass is, and of what its writes are.
PassOfPhase ==
  \A d \in Daemon :
    /\ phase[d] = "startup" <=> stage[d] \in Recovering
    /\ phase[d] = "startup" => spawning[d] = {}
    /\ stage[d] \in {"startup", "idle"} => pending[d] = {}
    /\ stage[d] = "analyses" => pending[d] \subseteq Ticket \X {"analysis_requested"}
    /\ stage[d] # "analyses" => pending[d] \subseteq Target \X {"ready", "blocked"}

\* A ticket that is not on its way to a run.
Halted == TicketStatus \ {"analyzed", "running", "done"}

\* What a pass will write to was started, or, when an analysis is reopened, has
\* not been started since.
PassFits ==
  \A d \in Daemon :
    IF stage[d] = "analyses"
    THEN \A k \in Ticket : <<k, "analysis_requested">> \in pending[d] =>
           tstatus[k] \in Halted /\ \A u \in TargetsOf(k) : status[u] \in Unqueued
    ELSE \A t \in Target, to \in {"ready", "blocked"} :
           <<t, to>> \in pending[d] => tstatus[TicketOf[t]] \in Started

RaceInv == RaceTypeOK /\ PassOfPhase /\ PassFits /\ UnstartedTicketHasNoRun

-----------------------------------------------------------------------------
\* A step of ControlPlane that leaves the passes alone.
LEMMA WholeIsNext ==
  ASSUME WholeStep
  PROVE  Next /\ UNCHANGED raceVars
BY DEF WholeStep, Next, TargetStep, DaemonStep

\* However many daemons there are, the statements keep the types of the rows.
LEMMA RaceTypes ==
  ASSUME TypeOK, [RaceNext]_allVars
  PROVE  TypeOK'
<1>1. CASE UNCHANGED vars
    BY <1>1 DEF vars, TypeOK
<1>2. CASE WholeStep
    BY <1>2, WholeIsNext, NextType
<1>3. ASSUME NEW d \in Daemon, SweepPass(d)
      PROVE  TypeOK'
    <2>1. CASE \/ ReadOrphans(d) \/ ReadClaims(d) \/ ReadAnalyses(d) \/ FinishSweep(d)
               \/ \E k \in Ticket : JudgeReadiness(d, k)
               \/ \E t \in Target, to \in {"ready", "blocked"} : VerdictRefused(d, t, to)
        <3>1. UNCHANGED vars
            BY <2>1 DEF ReadOrphans, ReadClaims, ReadAnalyses, FinishSweep, JudgeReadiness, VerdictRefused
        <3> QED BY <3>1, <1>1
    <2>2. CASE FinishRecovery(d)
        BY <2>2 DEF FinishRecovery, TypeOK, rowVars
    <2>3. ASSUME NEW t \in Target, RequeueTarget(d, t)
          PROVE  TypeOK'
        BY <2>3 DEF RequeueTarget, TypeOK, rowVars, daemonVars
    <2>4. ASSUME NEW k \in Ticket, ReopenTicket(d, k)
          PROVE  TypeOK'
        BY <2>4 DEF ReopenTicket, TypeOK, rowVars, daemonVars
    <2>5. ASSUME NEW t \in Target, NEW to \in {"ready", "blocked"}, ApplyVerdict(d, t, to)
          PROVE  TypeOK'
        BY <2>5, MoveType DEF ApplyVerdict, TypeOK, rowVars, daemonVars
    <2> QED BY <1>3, <2>1, <2>2, <2>3, <2>4, <2>5 DEF SweepPass
<1>4. ASSUME NEW d \in Daemon, CrashPass(d)
      PROVE  TypeOK'
    BY <1>4, NextType DEF CrashPass, Next, DaemonStep, TickStep
<1>5. ASSUME NEW k \in Ticket, CommitCancel(k)
      PROVE  TypeOK'
    <2>1. status' \in [Target -> TargetStatus \cup {"absent"}] /\ cancelReq' \in [Target -> BOOLEAN]
        BY <1>5 DEF CommitCancel, TypeOK
    <2> QED BY <1>5, <2>1 DEF CommitCancel, TypeOK, daemonVars
<1>6. ASSUME NEW k \in Ticket, BeginCancel(k)
      PROVE  UNCHANGED vars
    BY <1>6 DEF BeginCancel
<1> QED BY <1>1, <1>2, <1>3, <1>4, <1>5, <1>6 DEF RaceNext, allVars

\* A move through the envelope by an operator leaves a halted ticket halted.
LEMMA ShiftHalted ==
  ASSUME TypeOK, NEW t \in Target, NEW to \in TargetStatus, Shift(t, to),
         NEW k \in Ticket, tstatus[k] \in Halted, \A u \in TargetsOf(k) : status[u] \in Unqueued
  PROVE  tstatus'[k] \in Halted /\ \A u \in TargetsOf(k) : status'[u] \in Unqueued
<1>1. tstatus'[k] = tstatus[k]
    BY ShiftEffect DEF Halted
<1>2. ASSUME NEW u \in TargetsOf(k)
      PROVE  status'[u] \in Unqueued
    <2>1. u \in Target /\ TicketOf[u] = k /\ status[u] \in Unqueued
        BY DEF TargetsOf
    <2>2. status'[u] = IF u = t THEN to ELSE status[u]
        BY <2>1, ShiftEffect DEF Halted
    <2>3. u = t => to \notin Ran
        BY <2>1 DEF Shift, Halted
    <2> QED BY <2>1, <2>2, <2>3
<1> QED BY <1>1, <1>2

LEMMA OperatorHalted ==
  ASSUME TypeOK, NEW k \in Ticket, tstatus[k] \in Halted,
         \A u \in TargetsOf(k) : status[u] \in Unqueued,
         \/ \E j \in Ticket : TicketStep(j)
         \/ \E t \in Target : OperatorStep(t)
  PROVE  tstatus'[k] \in Halted /\ \A u \in TargetsOf(k) : status'[u] \in Unqueued
<1>1. ASSUME NEW j \in Ticket, TicketStep(j)
      PROVE  tstatus'[k] \in Halted /\ \A u \in TargetsOf(k) : status'[u] \in Unqueued
    <2>1. CASE Start(j)
        <3>1. j # k /\ tstatus'[k] = tstatus[k]
            BY <2>1 DEF Start, TypeOK, Halted
        <3>2. \A u \in TargetsOf(k) : status'[u] = status[u]
            BY <2>1, <3>1 DEF Start, PromoteReady, TargetsOf
        <3> QED BY <3>1, <3>2
    <2>2. CASE CancelTicket(j)
        <3>1. tstatus'[k] \in {tstatus[k], "cancelled"}
            BY <2>2 DEF CancelTicket, TypeOK
        <3>2. \A u \in TargetsOf(k) : status'[u] \in {status[u], "cancelled"}
            BY <2>2 DEF CancelTicket, TargetsOf
        <3> QED BY <3>1, <3>2 DEF Halted
    <2>3. CASE UpsertTicket(j) \/ ExternalTerminal(j) \/ RequestAnalysis(j) \/ Archive(j) \/ Restore(j)
        <3>1. UNCHANGED status
            BY <2>3 DEF UpsertTicket, ExternalTerminal, RequestAnalysis, Archive, Restore
        <3>2. tstatus'[k] \in {tstatus[k], "archived", "analysis_requested", "imported"}
            BY <2>3 DEF UpsertTicket, ExternalTerminal, RequestAnalysis, Archive, Restore, TypeOK
        <3> QED BY <3>1, <3>2 DEF Halted
    <2> QED BY <1>1, <2>1, <2>2, <2>3 DEF TicketStep
<1>2. ASSUME NEW t \in Target, OperatorStep(t)
      PROVE  tstatus'[k] \in Halted /\ \A u \in TargetsOf(k) : status'[u] \in Unqueued
    <2>1. \/ UNCHANGED <<tstatus, status>>
          \/ RedispatchTarget(t)
          \/ \E to \in {"cancelled", "excluded", "blocked"} :
               Move(t, to) /\ status[t] \notin {"absent", "succeeded"}
        BY <1>2 DEF OperatorStep, CancelTarget, ExcludeTarget, IncludeTarget, RequestGateDecision
    <2>2. CASE RedispatchTarget(t)
        <3>1. tstatus[TicketOf[t]] = "running" /\ TicketOf[t] # k
            BY <2>2, RedispatchEffect DEF Halted
        <3>2. tstatus'[k] = tstatus[k] /\ \A u \in TargetsOf(k) : status'[u] = status[u]
            BY <2>2, <3>1, RedispatchEffect DEF TargetsOf
        <3> QED BY <3>2
    <2>3. ASSUME NEW to \in {"cancelled", "excluded", "blocked"}, Move(t, to),
                 status[t] \notin {"absent", "succeeded"}
          PROVE  tstatus'[k] \in Halted /\ \A u \in TargetsOf(k) : status'[u] \in Unqueued
        <3>1. Shift(t, to)
            BY <2>3 DEF Shift
        <3> QED BY <3>1, ShiftHalted
    <2>4. CASE UNCHANGED <<tstatus, status>>
        BY <2>4
    <2> QED BY <2>1, <2>2, <2>3, <2>4
<1> QED BY <1>1, <1>2

\* A step of ControlPlane between two steps of a pass.
LEMMA WholeRace ==
  ASSUME NEW d, Daemon = {d}, RaceInv, WholeStep
  PROVE  RaceInv'
<1>1. Next /\ UNCHANGED <<stage, pending, snapshot>>
    BY WholeIsNext DEF raceVars
<1>2. RaceTypeOK'
    BY <1>1, NextType DEF RaceInv, RaceTypeOK
<1>3. UnstartedTicketHasNoRun'
    BY <1>1, UnstartedStep DEF RaceInv, RaceTypeOK
<1>4. \/ UNCHANGED <<phase, spawning>>
      \/ phase[d] = "up" /\ phase'[d] = "up"
    <2>1. CASE \E k \in Ticket : TicketStep(k)
        BY <2>1 DEF TicketStep, UpsertTicket, ExternalTerminal, RequestAnalysis, Start, CancelTicket,
           Archive, Restore, daemonVars
    <2>2. CASE \E t \in Target : OperatorStep(t)
        BY <2>2 DEF OperatorStep, CancelTarget, ExcludeTarget, IncludeTarget, RedispatchTarget,
           RequestGateDecision, daemonVars
    <2>3. CASE \E t \in Target : RunStep(t)
        BY <2>3 DEF RunStep, RecordRunId, RunSucceeded, RunFailed, GateOpened, GateQuestionChanged,
           GateTimedOut, ConfirmCancel, daemonVars
    <2>4. CASE stage[d] = "idle" /\ phase'[d] = "up"
        BY <2>4 DEF RaceInv, PassOfPhase, RaceTypeOK, TypeOK, Recovering
    <2> QED BY <2>1, <2>2, <2>3, <2>4 DEF WholeStep
<1>5. PassOfPhase'
    BY <1>1, <1>4 DEF RaceInv, PassOfPhase
<1>6. CASE stage[d] = "analyses"
    <2>1. phase[d] = "startup"
        BY <1>6 DEF RaceInv, PassOfPhase, Recovering
    <2>2. (\E k \in Ticket : TicketStep(k)) \/ (\E t \in Target : OperatorStep(t))
        BY <1>6, <2>1 DEF WholeStep, SomeDaemonUp, Running
    <2>3. PassFits'
        BY <1>1, <1>6, <2>2, OperatorHalted DEF RaceInv, RaceTypeOK, PassFits, TargetsOf
    <2> QED BY <1>2, <1>3, <1>5, <2>3 DEF RaceInv
<1>7. CASE stage[d] # "analyses"
    <2>1. ASSUME NEW t \in Target, tstatus[TicketOf[t]] \in Started
          PROVE  tstatus'[TicketOf[t]] \in Started
        BY <1>1, <2>1, UnstartedStatus DEF RaceInv, RaceTypeOK
    <2>2. PassFits'
        BY <1>1, <1>7, <2>1 DEF RaceInv, PassFits
    <2> QED BY <1>2, <1>3, <1>5, <2>2 DEF RaceInv
<1> QED BY <1>6, <1>7

-----------------------------------------------------------------------------
(* The reads of a pass. *)

\* A pass in stage from goes to stage to with the writes it decided on.
PassRead(d, from, to, writes) ==
  /\ Decide(d, from, to, writes)
  /\ \/ /\ from = "idle" /\ to = "orphans" /\ Running(d)
        /\ \E S \in SUBSET {t \in Target : status[t] \in {"running", "gate_waiting"}} :
             writes = S \X {"ready"}
     \/ /\ from = "startup" /\ to = "claims"
        /\ \E S \in SUBSET {t \in Target : status[t] = "dispatching"} : writes = S \X {"ready"}
     \/ /\ from = "claims" /\ to = "analyses"
        /\ \E A \in SUBSET {k \in Ticket : tstatus[k] = "analyzing"} :
             writes = A \X {"analysis_requested"}
     \/ from \in {"orphans", "readiness"} /\ to = "idle" /\ writes = {}
     \/ /\ from = "idle" /\ to = "readiness" /\ Running(d)
        /\ \E k \in Ticket : /\ tstatus[k] = "running"
                             /\ writes \subseteq TargetsOf(k) \X {"ready", "blocked"}

LEMMA ReadRace ==
  ASSUME NEW d, Daemon = {d}, RaceInv,
         \/ ReadOrphans(d) \/ ReadClaims(d) \/ ReadAnalyses(d) \/ FinishSweep(d)
         \/ \E k \in Ticket : JudgeReadiness(d, k)
         \/ \E t \in Target, to \in {"ready", "blocked"} : VerdictRefused(d, t, to)
  PROVE  RaceInv'
<1>1. UNCHANGED <<vars, snapshot>>
    BY DEF ReadOrphans, ReadClaims, ReadAnalyses, FinishSweep, JudgeReadiness, VerdictRefused
<1>2. TypeOK' /\ UnstartedTicketHasNoRun'
    BY <1>1 DEF vars, RaceInv, RaceTypeOK, TypeOK, UnstartedTicketHasNoRun
<1>3. \E from, to, writes : PassRead(d, from, to, writes)
    <2>1. CASE ReadOrphans(d)
        BY <2>1 DEF ReadOrphans, PassRead
    <2>2. CASE ReadClaims(d)
        BY <2>2 DEF ReadClaims, PassRead
    <2>3. CASE ReadAnalyses(d)
        BY <2>3 DEF ReadAnalyses, PassRead
    <2>4. CASE FinishSweep(d)
        BY <2>4 DEF FinishSweep, PassRead
    <2>5. ASSUME NEW k \in Ticket, JudgeReadiness(d, k)
          PROVE  \E writes : PassRead(d, "idle", "readiness", writes)
        <3> DEFINE promoted == {t \in TargetsOf(k) : status[t] = "blocked" /\ Ready(t, status)}
                   demoted  == {t \in TargetsOf(k) : status[t] = "ready" /\ ~Ready(t, status)}
        <3>1. /\ Decide(d, "idle", "readiness", promoted \X {"ready"} \cup demoted \X {"blocked"})
              /\ Running(d) /\ tstatus[k] = "running"
            BY <2>5 DEF JudgeReadiness
        <3>2. promoted \X {"ready"} \cup demoted \X {"blocked"} \subseteq TargetsOf(k) \X {"ready", "blocked"}
            <4>1. promoted \subseteq TargetsOf(k) /\ demoted \subseteq TargetsOf(k)
                OBVIOUS
            <4> HIDE DEF promoted, demoted
            <4> QED BY <4>1
        <3> HIDE DEF promoted, demoted
        <3> QED BY <3>1, <3>2 DEF PassRead
    <2>6. ASSUME NEW t \in Target, NEW to \in {"ready", "blocked"}, VerdictRefused(d, t, to)
          PROVE  PassRead(d, "readiness", "idle", {})
        BY <2>6 DEF VerdictRefused, PassRead
    <2> QED BY <2>1, <2>2, <2>3, <2>4, <2>5, <2>6
<1>11. PICK from, to, writes : PassRead(d, from, to, writes)
    BY <1>3
<1>4. \A w \in writes :
        IF to = "analyses"
        THEN \E k \in Ticket : w = <<k, "analysis_requested">> /\ tstatus[k] = "analyzing"
        ELSE \E t \in Target, new \in {"ready", "blocked"} :
               w = <<t, new>> /\ tstatus[TicketOf[t]] \in Started
    <2>1. \A t \in Target : status[t] \in Live => tstatus[TicketOf[t]] \in Started
        BY DEF RaceInv, UnstartedTicketHasNoRun
    <2> QED BY <1>11, <2>1 DEF TargetsOf, PassRead
<1>5. stage[d] = from /\ stage' = [stage EXCEPT ![d] = to] /\ pending' = [pending EXCEPT ![d] = writes]
    BY <1>11 DEF Decide, PassRead
<1>6. stage'[d] = to /\ pending'[d] = writes
    BY <1>5 DEF RaceInv, RaceTypeOK
<1>7. RaceTypeOK'
    <2>1. writes \in SUBSET ((Target \cup Ticket) \X {"ready", "blocked", "analysis_requested"})
        BY <1>4
    <2>2. to \in Recovering \cup {"idle", "orphans", "readiness"}
        BY <1>11 DEF Recovering, PassRead
    <2> QED BY <1>1, <1>2, <1>5, <2>1, <2>2 DEF RaceInv, RaceTypeOK
<1>8. PassOfPhase'
    <2>1. UNCHANGED <<phase, spawning>>
        BY <1>1 DEF vars
    <2>2. phase[d] = "startup" <=> stage[d] \in Recovering
        BY DEF RaceInv, PassOfPhase
    <2>3. phase[d] = "startup" <=> to \in Recovering
        BY <1>11, <1>5, <2>2 DEF Running, Recovering, PassRead
    <2>4. to \in {"startup", "idle"} => writes = {}
        BY <1>11 DEF PassRead
    <2>5. to = "analyses" => writes \subseteq Ticket \X {"analysis_requested"}
        BY <1>4
    <2>6. to # "analyses" => writes \subseteq Target \X {"ready", "blocked"}
        BY <1>4
    <2> QED BY <1>6, <2>1, <2>3, <2>4, <2>5, <2>6 DEF RaceInv, PassOfPhase
<1>9. PassFits'
    <2>1. UNCHANGED <<status, tstatus>>
        BY <1>1 DEF vars
    <2>2. CASE to = "analyses"
        <3>1. ASSUME NEW k \in Ticket, <<k, "analysis_requested">> \in writes
              PROVE  tstatus[k] \in Halted /\ \A u \in TargetsOf(k) : status[u] \in Unqueued
            BY <1>4, <2>2, <3>1 DEF Halted, RaceInv, UnstartedTicketHasNoRun, TargetsOf
        <3> QED BY <1>6, <2>1, <2>2, <3>1 DEF PassFits, TargetsOf
    <2>3. CASE to # "analyses"
        <3>1. ASSUME NEW t \in Target, NEW new \in {"ready", "blocked"}, <<t, new>> \in writes
              PROVE  tstatus[TicketOf[t]] \in Started
            BY <1>4, <2>3, <3>1
        <3> QED BY <1>6, <2>1, <2>3, <3>1 DEF PassFits
    <2> QED BY <2>2, <2>3
<1> QED BY <1>2, <1>7, <1>8, <1>9 DEF RaceInv

-----------------------------------------------------------------------------
(* The writes of a pass. *)

\* One write fewer leaves what is pending as it was.
LEMMA DonePending ==
  ASSUME RaceInv, NEW d \in Daemon, NEW w, Done(d, w)
  PROVE  /\ pending' \in [Daemon -> SUBSET ((Target \cup Ticket) \X {"ready", "blocked", "analysis_requested"})]
         /\ \A e \in Daemon : pending'[e] \subseteq pending[e]
         /\ w \in pending[d] /\ UNCHANGED <<stage, snapshot>>
BY DEF Done, RaceInv, RaceTypeOK

LEMMA RequeueRace ==
  ASSUME NEW d, Daemon = {d}, RaceInv, NEW t \in Target, RequeueTarget(d, t)
  PROVE  RaceInv'
<1>1. /\ pending' \in [Daemon -> SUBSET ((Target \cup Ticket) \X {"ready", "blocked", "analysis_requested"})]
      /\ pending'[d] \subseteq pending[d] /\ <<t, "ready">> \in pending[d]
      /\ UNCHANGED <<stage, snapshot>>
    BY DonePending DEF RequeueTarget
<1>2. /\ stage[d] # "analyses" /\ status' = [status EXCEPT ![t] = "ready"]
      /\ UNCHANGED <<tstatus, blocked, deployed, rowVars, daemonVars>>
    BY DEF RequeueTarget
<1>3. tstatus[TicketOf[t]] \in Started
    BY <1>1, <1>2 DEF RaceInv, PassFits
<1>4. RaceTypeOK'
    BY <1>1, <1>2 DEF RaceInv, RaceTypeOK, TypeOK, rowVars, daemonVars
<1>5. PassOfPhase' /\ PassFits'
    BY <1>1, <1>2 DEF RaceInv, PassOfPhase, PassFits, daemonVars
<1>6. UnstartedTicketHasNoRun'
    BY <1>2, <1>3 DEF RaceInv, RaceTypeOK, TypeOK, UnstartedTicketHasNoRun, daemonVars
<1> QED BY <1>4, <1>5, <1>6 DEF RaceInv

LEMMA ReopenRace ==
  ASSUME NEW d, Daemon = {d}, RaceInv, NEW k \in Ticket, ReopenTicket(d, k)
  PROVE  RaceInv'
<1>1. /\ pending' \in [Daemon -> SUBSET ((Target \cup Ticket) \X {"ready", "blocked", "analysis_requested"})]
      /\ pending'[d] \subseteq pending[d] /\ <<k, "analysis_requested">> \in pending[d]
      /\ UNCHANGED <<stage, snapshot>>
    BY DonePending DEF ReopenTicket
<1>2. /\ stage[d] = "analyses" /\ tstatus' = [tstatus EXCEPT ![k] = "analysis_requested"]
      /\ UNCHANGED <<blocked, status, deployed, rowVars, daemonVars>>
    BY DEF ReopenTicket
<1>3. \A u \in TargetsOf(k) : status[u] \in Unqueued
    BY <1>1, <1>2 DEF RaceInv, PassFits
<1>4. RaceTypeOK'
    BY <1>1, <1>2 DEF RaceInv, RaceTypeOK, TypeOK, rowVars, daemonVars
<1>5. spawning[d] = {}
    BY <1>2 DEF RaceInv, PassOfPhase, Recovering
<1>6. PassOfPhase'
    BY <1>1, <1>2 DEF RaceInv, PassOfPhase, daemonVars
<1>7. PassFits'
    <2>1. ASSUME NEW j \in Ticket, <<j, "analysis_requested">> \in pending'[d]
          PROVE  tstatus'[j] \in Halted /\ \A u \in TargetsOf(j) : status'[u] \in Unqueued
        <3>1. tstatus[j] \in Halted /\ \A u \in TargetsOf(j) : status[u] \in Unqueued
            BY <1>1, <1>2, <2>1 DEF RaceInv, PassFits
        <3>2. tstatus'[j] \in {tstatus[j], "analysis_requested"}
            BY <1>2 DEF RaceInv, RaceTypeOK, TypeOK
        <3> QED BY <1>2, <3>1, <3>2 DEF Halted
    <2> QED BY <1>1, <1>2, <2>1 DEF PassFits, TargetsOf
<1>8. UnstartedTicketHasNoRun'
    BY <1>2, <1>3, <1>5 DEF RaceInv, RaceTypeOK, TypeOK, UnstartedTicketHasNoRun, daemonVars, TargetsOf
<1> QED BY <1>4, <1>6, <1>7, <1>8 DEF RaceInv

LEMMA VerdictRace ==
  ASSUME NEW d, Daemon = {d}, RaceInv, NEW t \in Target, NEW to \in {"ready", "blocked"},
         ApplyVerdict(d, t, to)
  PROVE  RaceInv'
<1>1. /\ pending' \in [Daemon -> SUBSET ((Target \cup Ticket) \X {"ready", "blocked", "analysis_requested"})]
      /\ pending'[d] \subseteq pending[d] /\ <<t, to>> \in pending[d]
      /\ UNCHANGED <<stage, snapshot>>
    BY DonePending DEF ApplyVerdict
<1>2. /\ stage[d] = "readiness" /\ Move(t, to)
      /\ UNCHANGED <<blocked, deployed, rowVars, daemonVars>>
    BY DEF ApplyVerdict
<1>3. tstatus[TicketOf[t]] \in Started
    BY <1>1, <1>2 DEF RaceInv, PassFits
<1> DEFINE st == [status EXCEPT ![t] = to]
<1>4. st \in [Target -> TargetStatus \cup {"absent"}] /\ Commit(t, st)
    BY <1>2 DEF Move, RaceInv, RaceTypeOK, TypeOK
<1>5. \A u \in Target : TicketOf[u] # TicketOf[t] => st[u] = status[u]
    BY DEF RaceInv, RaceTypeOK, TypeOK
<1> HIDE DEF st
<1>6. /\ \A u \in Target : TicketOf[u] # TicketOf[t] => status'[u] = status[u]
      /\ \A k \in Ticket : \/ tstatus'[k] = tstatus[k]
                           \/ k = TicketOf[t] /\ tstatus'[k] = Resettled(k, st)
    BY <1>4, <1>5, CommitEffect DEF RaceInv, RaceTypeOK
<1>7. TicketOf[t] \in Ticket /\ tstatus'[TicketOf[t]] \in Started
    BY <1>3, <1>6, ResettledEffect, ControlAssumption
<1>8. \A k \in Ticket : tstatus[k] \in Started => tstatus'[k] \in Started
    BY <1>6, <1>7
<1>9. RaceTypeOK'
    BY <1>1, <1>2, MoveType DEF RaceInv, RaceTypeOK, TypeOK, rowVars, daemonVars
<1>10. PassOfPhase'
    BY <1>1, <1>2 DEF RaceInv, PassOfPhase, daemonVars
<1>11. PassFits'
    BY <1>1, <1>2, <1>8, ControlAssumption DEF RaceInv, PassFits
<1>12. UnstartedTicketHasNoRun'
    <2>1. ASSUME NEW u \in Target, tstatus'[TicketOf[u]] \notin Started
          PROVE  /\ tstatus[TicketOf[u]] \notin Started
                 /\ status'[u] = status[u]
        BY <1>6, <1>7, <1>8, <2>1, ControlAssumption
    <2> QED BY <1>2, <2>1 DEF RaceInv, UnstartedTicketHasNoRun, daemonVars
<1> QED BY <1>9, <1>10, <1>11, <1>12 DEF RaceInv

LEMMA FinishRecoveryRace ==
  ASSUME NEW d, Daemon = {d}, RaceInv, FinishRecovery(d)
  PROVE  RaceInv'
<1>1. /\ pending[d] = {} /\ stage[d] = "analyses"
      /\ stage' = [stage EXCEPT ![d] = "idle"] /\ pending' = [pending EXCEPT ![d] = {}]
      /\ phase' = [phase EXCEPT ![d] = "up"]
      /\ UNCHANGED <<tstatus, blocked, status, deployed, rowVars, slots, analysing,
                     spawning, answers, answering, restarts, snapshot>>
    BY DEF FinishRecovery, Decide
<1>2. stage'[d] = "idle" /\ pending'[d] = {} /\ phase'[d] = "up"
    BY <1>1 DEF RaceInv, RaceTypeOK, TypeOK
<1>3. RaceTypeOK'
    BY <1>1 DEF RaceInv, RaceTypeOK, TypeOK, rowVars
<1>4. PassOfPhase' /\ PassFits'
    BY <1>2 DEF PassOfPhase, PassFits, Recovering
<1>5. UnstartedTicketHasNoRun'
    BY <1>1 DEF RaceInv, UnstartedTicketHasNoRun
<1> QED BY <1>3, <1>4, <1>5 DEF RaceInv

LEMMA CrashRace ==
  ASSUME NEW d, Daemon = {d}, RaceInv, CrashPass(d)
  PROVE  RaceInv'
<1>1. /\ Crash(d) /\ stage' = [stage EXCEPT ![d] = "startup"]
      /\ pending' = [pending EXCEPT ![d] = {}] /\ UNCHANGED snapshot
    BY DEF CrashPass
<1>2. Next
    BY <1>1 DEF Next, DaemonStep, TickStep
<1>3. TypeOK' /\ UnstartedTicketHasNoRun'
    BY <1>2, NextType, UnstartedStep DEF RaceInv, RaceTypeOK
<1>4. stage'[d] = "startup" /\ pending'[d] = {} /\ phase'[d] = "startup" /\ spawning'[d] = {}
    BY <1>1 DEF Crash, RaceInv, RaceTypeOK, TypeOK
<1>5. RaceTypeOK'
    BY <1>1, <1>3 DEF RaceInv, RaceTypeOK, Recovering
<1>6. PassOfPhase' /\ PassFits'
    BY <1>4 DEF PassOfPhase, PassFits, Recovering
<1> QED BY <1>3, <1>5, <1>6 DEF RaceInv

-----------------------------------------------------------------------------
(* A cancelling transaction. *)

LEMMA BeginCancelRace ==
  ASSUME RaceInv, NEW k \in Ticket, BeginCancel(k)
  PROVE  RaceInv'
<1>1. snapshot' = [snapshot EXCEPT ![k] = status] /\ UNCHANGED <<vars, stage, pending>>
    BY DEF BeginCancel
<1>2. RaceTypeOK'
    BY <1>1 DEF vars, RaceInv, RaceTypeOK, TypeOK
<1>3. PassOfPhase' /\ PassFits' /\ UnstartedTicketHasNoRun'
    BY <1>1 DEF vars, RaceInv, PassOfPhase, PassFits, UnstartedTicketHasNoRun, TargetsOf
<1> QED BY <1>2, <1>3 DEF RaceInv

LEMMA CommitCancelRace ==
  ASSUME RaceInv, NEW k \in Ticket, CommitCancel(k)
  PROVE  RaceInv'
<1>1. /\ tstatus' = [tstatus EXCEPT ![k] = "cancelled"]
      /\ snapshot' = [snapshot EXCEPT ![k] = <<>>]
      /\ UNCHANGED <<blocked, deployed, hasRun, ran, rework, decision, basis, daemonVars, stage, pending>>
    BY DEF CommitCancel
<1>2. /\ status' \in [Target -> TargetStatus \cup {"absent"}]
      /\ \A t \in Target : status'[t] = status[t] \/ (TicketOf[t] = k /\ status'[t] = "cancelled")
    BY DEF CommitCancel, RaceInv, RaceTypeOK, TypeOK
<1>3. cancelReq' \in [Target -> BOOLEAN]
    BY DEF CommitCancel
<1>4. RaceTypeOK'
    BY <1>1, <1>2, <1>3 DEF RaceInv, RaceTypeOK, TypeOK, daemonVars
<1>5. /\ \A j \in Ticket : tstatus'[j] = IF j = k THEN "cancelled" ELSE tstatus[j]
      /\ \A t \in Target : TicketOf[t] \in Ticket
    BY <1>1, ControlAssumption DEF RaceInv, RaceTypeOK, TypeOK
<1>6. PassOfPhase'
    BY <1>1 DEF RaceInv, PassOfPhase, daemonVars
<1>7. PassFits'
    <2>1. ASSUME NEW d \in Daemon, stage[d] = "analyses", NEW j \in Ticket,
                 <<j, "analysis_requested">> \in pending[d]
          PROVE  tstatus'[j] \in Halted /\ \A u \in TargetsOf(j) : status'[u] \in Unqueued
        <3>1. tstatus[j] \in Halted /\ \A u \in TargetsOf(j) : status[u] \in Unqueued
            BY <2>1 DEF RaceInv, PassFits
        <3> QED BY <1>2, <1>5, <3>1 DEF Halted, TargetsOf
    <2>2. ASSUME NEW d \in Daemon, stage[d] # "analyses", NEW t \in Target,
                 NEW to \in {"ready", "blocked"}, <<t, to>> \in pending[d]
          PROVE  tstatus'[TicketOf[t]] \in Started
        BY <1>5, <2>2 DEF RaceInv, PassFits
    <2> QED BY <1>1, <2>1, <2>2 DEF PassFits, TargetsOf
<1>8. UnstartedTicketHasNoRun'
    BY <1>1, <1>2, <1>5 DEF RaceInv, UnstartedTicketHasNoRun, daemonVars
<1> QED BY <1>4, <1>6, <1>7, <1>8 DEF RaceInv

-----------------------------------------------------------------------------
LEMMA RaceStep ==
  ASSUME NEW d, Daemon = {d}, RaceInv, [RaceNext]_allVars
  PROVE  RaceInv'
<1>1. CASE UNCHANGED allVars
    <2>1. UNCHANGED <<tstatus, blocked, status, deployed, cancelReq, hasRun, ran, rework, decision, basis,
                      phase, slots, analysing, spawning, answers, answering, restarts, stage, pending,
                      snapshot>>
        BY <1>1 DEF allVars, vars, raceVars
    <2>2. RaceTypeOK'
        BY <2>1 DEF RaceInv, RaceTypeOK, TypeOK
    <2>3. PassOfPhase' /\ PassFits' /\ UnstartedTicketHasNoRun'
        BY <2>1 DEF RaceInv, PassOfPhase, PassFits, UnstartedTicketHasNoRun, TargetsOf
    <2> QED BY <2>2, <2>3 DEF RaceInv
<1>2. CASE WholeStep
    BY <1>2, WholeRace
<1>3. CASE SweepPass(d)
    BY <1>3, ReadRace, RequeueRace, ReopenRace, VerdictRace, FinishRecoveryRace DEF SweepPass
<1>4. CASE CrashPass(d)
    BY <1>4, CrashRace
<1>5. CASE \E k \in Ticket : BeginCancel(k) \/ CommitCancel(k)
    BY <1>5, BeginCancelRace, CommitCancelRace
<1> QED BY <1>1, <1>2, <1>3, <1>4, <1>5 DEF RaceNext

\* With one daemon, UnstartedTicketHasNoRun holds even when every sweep is a
\* read and its writes: no target of a ticket that has not started is queued,
\* live or being spawned.
THEOREM RaceUnstartedCorrect ==
  ASSUME NEW d, Daemon = {d}
  PROVE  RaceSpec => []UnstartedTicketHasNoRun
<1>1. RaceInit => RaceInv
    <2> SUFFICES ASSUME RaceInit
                 PROVE  RaceInv
        OBVIOUS
    <2>1. TypeOK
        BY InitType DEF RaceInit
    <2>2. RaceTypeOK
        BY <2>1 DEF RaceInit, RaceTypeOK, Recovering
    <2>3. PassOfPhase /\ PassFits /\ UnstartedTicketHasNoRun
        BY DEF RaceInit, Init, PassOfPhase, PassFits, UnstartedTicketHasNoRun, Recovering
    <2> QED BY <2>2, <2>3 DEF RaceInv
<1>2. RaceInv /\ [RaceNext]_allVars => RaceInv'
    BY RaceStep
<1>3. RaceInv => UnstartedTicketHasNoRun
    BY DEF RaceInv
<1> QED BY <1>1, <1>2, <1>3, PTL DEF RaceSpec
=============================================================================

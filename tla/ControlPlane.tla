---------------------------- MODULE ControlPlane ----------------------------
(***************************************************************************)
(* The control plane of GaggleDispatch: tickets, the repository targets    *)
(* they fan out to, and everything that may move one.                      *)
(*                                                                         *)
(* An action is one database transaction of ControlService, or one of the  *)
(* single statements the daemon runs outside the envelope (the two claims, *)
(* the sweeps, the clearing of a gate decision).  Operators, any number of *)
(* daemons, the tracker sync and the executor act in any order.  The       *)
(* executor is an environment here: it may report any outcome for any      *)
(* target at any time, and the status guards of the target machine decide  *)
(* what is accepted.  A refused event changes nothing and has no action.   *)
(*                                                                         *)
(* A reconcile phase that exceeds its budget is abandoned, not cancelled,  *)
(* and the next tick starts another: what one pass has read and not used   *)
(* yet is therefore state of the pass, not of the daemon.                  *)
(*                                                                         *)
(* Left out, because no guard reads it: titles, timestamps, the tracker    *)
(* labels and comments (the outbox has its own module), the attempt        *)
(* number, the gate's message, external_terminal_at, sub-issue ids.        *)
(***************************************************************************)
EXTENDS ControlTypes, Naturals, FiniteSets

CONSTANTS
  Ticket,        \* tickets of the workspace
  Target,        \* repository slots, each belonging to one ticket
  TicketOf,      \* the ticket of a slot
  DependsOn,     \* depends_on: the slots of the same ticket a slot waits for
  EnvGated,      \* slots whose ready_when is an environment, not 'merged'
  Daemon,        \* daemon processes sharing the database
  Pass,          \* reconcile passes of one daemon that may be under way at once
  MaxRuns,       \* max_concurrent_agents
  MaxRework,     \* max_gate_rework_attempts
  MaxRestarts,   \* bound: crashes of a daemon in one behaviour
  NoTarget       \* "no gate answer in progress"

ASSUME ControlAssumption ==
  /\ TicketOf \in [Target -> Ticket]
  /\ DependsOn \in [Target -> SUBSET Target]
  /\ \A t \in Target : \A u \in DependsOn[t] : TicketOf[u] = TicketOf[t]
  /\ EnvGated \subseteq Target
  /\ IsFiniteSet(Target)
  /\ IsFiniteSet(Daemon)
  /\ IsFiniteSet(Pass)
  /\ MaxRuns \in Nat
  /\ MaxRework \in Nat
  /\ MaxRestarts \in Nat
  /\ NoTarget \notin Target

VARIABLES
  tstatus,       \* tickets.status
  blocked,       \* tickets.blocked_by holds an unsatisfied blocker
  status,        \* ticket_targets.status, or "absent"
  deployed,      \* the target's tracker state satisfies ready_when
  cancelReq,     \* ticket_targets.cancel_requested
  hasRun,        \* ticket_targets.run_id is not null
  ran,           \* some attempt of this row created a run in the engine
  rework,        \* ticket_targets.gate_rework_attempts
  decision,      \* ticket_targets.gate_decision
  basis,         \* ghost: what the recorded decision was given on
  phase,         \* a daemon is "up", or in "startup" recovery
  slots,         \* free slots a pass counted and has not used yet
  analysing,     \* tickets the daemon claimed and is running the analyzer for
  spawning,      \* targets the daemon claimed and has not reported a spawn for
  answers,       \* gate answers a pass listed and has not come to yet
  answering,     \* target whose answer a pass has carried out but not cleared
  restarts       \* crashes so far

rowVars    == <<cancelReq, hasRun, ran, rework, decision, basis>>
daemonVars == <<phase, slots, analysing, spawning, answers, answering, restarts>>
vars == <<tstatus, blocked, status, deployed, cancelReq, hasRun, ran, rework, decision,
          basis, phase, slots, analysing, spawning, answers, answering, restarts>>

TargetsOf(k) == {t \in Target : TicketOf[t] = k}

TypeOK ==
  /\ tstatus \in [Ticket -> TicketStatus]
  /\ blocked \in [Ticket -> BOOLEAN]
  /\ status \in [Target -> TargetStatus \cup {"absent"}]
  /\ deployed \in [Target -> BOOLEAN]
  /\ cancelReq \in [Target -> BOOLEAN]
  /\ hasRun \in [Target -> BOOLEAN]
  /\ ran \in [Target -> BOOLEAN]
  /\ rework \in [Target -> 0..MaxRework]
  /\ decision \in [Target -> GateDecision \cup {NoDecision}]
  /\ basis \in [Target -> {"current", "older_question", "older_gate"}]
  /\ phase \in [Daemon -> {"up", "startup"}]
  /\ slots \in [Daemon -> [Pass -> 0..MaxRuns]]
  /\ analysing \in [Daemon -> SUBSET Ticket]
  /\ spawning \in [Daemon -> SUBSET Target]
  /\ answers \in [Daemon -> [Pass -> SUBSET (Target \X GateDecision)]]
  /\ answering \in [Daemon -> [Pass -> Target \cup {NoTarget}]]
  /\ restarts \in 0..MaxRestarts

Init ==
  /\ tstatus = [k \in Ticket |-> "imported"]
  /\ blocked \in [Ticket -> BOOLEAN]
  /\ status = [t \in Target |-> "absent"]
  /\ deployed = [t \in Target |-> FALSE]
  /\ cancelReq = [t \in Target |-> FALSE]
  /\ hasRun = [t \in Target |-> FALSE]
  /\ ran = [t \in Target |-> FALSE]
  /\ rework = [t \in Target |-> 0]
  /\ decision = [t \in Target |-> NoDecision]
  /\ basis = [t \in Target |-> "current"]
  /\ phase = [d \in Daemon |-> "startup"]
  /\ slots = [d \in Daemon |-> [p \in Pass |-> 0]]
  /\ analysing = [d \in Daemon |-> {}]
  /\ spawning = [d \in Daemon |-> {}]
  /\ answers = [d \in Daemon |-> [p \in Pass |-> {}]]
  /\ answering = [d \in Daemon |-> [p \in Pass |-> NoTarget]]
  /\ restarts = 0

-----------------------------------------------------------------------------
(***************************************************************************)
(* Readiness.  Ready(t, st) is evaluateReadiness over the statuses st: no  *)
(* unsatisfied tracker blocker on the ticket, and every sibling in         *)
(* depends_on present, succeeded and, when the level is an environment,    *)
(* deployed there.                                                         *)
(***************************************************************************)
Ready(t, st) ==
  /\ ~blocked[TicketOf[t]]
  /\ \A u \in DependsOn[t] : /\ st[u] = "succeeded"
                             /\ t \in EnvGated => deployed[u]

\* The evaluate_target_readiness effect: promote what is ready, in the
\* transaction that called for it.
PromoteReady(k, st) ==
  [t \in Target |-> IF TicketOf[t] = k /\ st[t] = "blocked" /\ Ready(t, st)
                    THEN "ready" ELSE st[t]]

(***************************************************************************)
(* The second half of the target envelope.  The statuses are st and the    *)
(* ticket of target t is re-settled from them in the same transaction; a   *)
(* ticket that reopens promotes what it can.                               *)
(***************************************************************************)
\* Mutant: 'done' taken for terminal.
ResettledNeverReopens(k, st) ==
  IF tstatus[k] = "running" /\ SettleTicketStatus(st, TargetsOf(k)) = "done"
  THEN "done" ELSE tstatus[k]

Resettled(k, st) ==
  LET settled == SettleTicketStatus(st, TargetsOf(k)) IN
  IF tstatus[k] = "running" /\ settled = "done" THEN "done"
  ELSE IF tstatus[k] = "done" /\ settled = "running" THEN "running"
  ELSE tstatus[k]

Commit(t, st) ==
  LET k    == TicketOf[t]
      next == Resettled(k, st)
  IN /\ tstatus' = [tstatus EXCEPT ![k] = next]
     /\ status' = IF tstatus[k] = "done" /\ next = "running"
                  THEN PromoteReady(k, st)
                  ELSE st

\* Move one target and settle its ticket.
Move(t, to) == Commit(t, [status EXCEPT ![t] = to])

-----------------------------------------------------------------------------
(* Tracker sync. *)

\* An upsert may change blockers and deployment evidence, never a status.
UpsertTicket(k) ==
  /\ \E b \in BOOLEAN : blocked' = [blocked EXCEPT ![k] = b]
  /\ \E S \in SUBSET {u \in TargetsOf(k) : \E t \in EnvGated : u \in DependsOn[t]} :
       deployed' = [t \in Target |-> t \in S \/ (TicketOf[t] # k /\ deployed[t])]
  /\ UNCHANGED <<tstatus, status, rowVars, daemonVars>>

\* Terminal in the tracker archives a ticket that has not started; a running
\* one is only marked.
ExternalTerminal(k) ==
  /\ tstatus[k] \in PreRun
  /\ tstatus' = [tstatus EXCEPT ![k] = "archived"]
  /\ UNCHANGED <<blocked, status, deployed, rowVars, daemonVars>>

-----------------------------------------------------------------------------
(* Operator actions on a ticket. *)

RequestAnalysis(k) ==
  /\ tstatus[k] \in PreRun
  /\ tstatus' = [tstatus EXCEPT ![k] = "analysis_requested"]
  /\ UNCHANGED <<blocked, status, deployed, rowVars, daemonVars>>

Start(k) ==
  /\ tstatus[k] = "analyzed"
  /\ Participating(status, TargetsOf(k)) # {}
  /\ tstatus' = [tstatus EXCEPT ![k] = "running"]
  /\ status' = PromoteReady(k, status)
  /\ UNCHANGED <<blocked, deployed, rowVars, daemonVars>>

\* Mutant: cancel_targets overlooks a target that is still being spawned.
CancelTicketButDispatching(k) ==
  /\ tstatus[k] \in {"running", "analyzed", "analyzing", "analysis_requested"}
  /\ tstatus' = [tstatus EXCEPT ![k] = "cancelled"]
  /\ status' = [t \in Target |-> IF TicketOf[t] = k /\ status[t] \in {"blocked", "ready"}
                                 THEN "cancelled" ELSE status[t]]
  /\ cancelReq' = [t \in Target |->
                     cancelReq[t] \/ (TicketOf[t] = k /\ status[t] \in {"running", "gate_waiting"})]
  /\ UNCHANGED <<blocked, deployed, hasRun, ran, rework, decision, basis, daemonVars>>

\* cancel_targets: live targets are flagged for their daemon, the others
\* cancel with the ticket.
CancelTicket(k) ==
  /\ tstatus[k] \in {"running", "analyzed", "analyzing", "analysis_requested"}
  /\ tstatus' = [tstatus EXCEPT ![k] = "cancelled"]
  /\ status' = [t \in Target |-> IF TicketOf[t] = k /\ status[t] \in {"blocked", "ready"}
                                 THEN "cancelled" ELSE status[t]]
  /\ cancelReq' = [t \in Target |-> \/ cancelReq[t]
                                    \/ TicketOf[t] = k /\ status[t] \in Live]
  /\ UNCHANGED <<blocked, deployed, hasRun, ran, rework, decision, basis, daemonVars>>

Archive(k) ==
  /\ tstatus[k] \in PreRun
  /\ tstatus' = [tstatus EXCEPT ![k] = "archived"]
  /\ UNCHANGED <<blocked, status, deployed, rowVars, daemonVars>>

Restore(k) ==
  /\ tstatus[k] = "archived"
  /\ tstatus' = [tstatus EXCEPT ![k] = "imported"]
  /\ UNCHANGED <<blocked, status, deployed, rowVars, daemonVars>>

-----------------------------------------------------------------------------
(* Operator actions on a target. *)

CancelTarget(t) ==
  \/ /\ status[t] \in Live
     /\ cancelReq' = [cancelReq EXCEPT ![t] = TRUE]
     /\ UNCHANGED <<tstatus, blocked, status, deployed, hasRun, ran, rework,
                    decision, basis, daemonVars>>
  \/ /\ status[t] \in {"blocked", "ready"}
     /\ Move(t, "cancelled")
     /\ cancelReq' = [cancelReq EXCEPT ![t] = FALSE]
     /\ UNCHANGED <<blocked, deployed, hasRun, ran, rework, decision, basis, daemonVars>>

ExcludeTarget(t) ==
  /\ status[t] \in PreDispatch \cup {"failed", "cancelled"}
  /\ Move(t, "excluded")
  /\ cancelReq' = [cancelReq EXCEPT ![t] = FALSE]
  /\ UNCHANGED <<blocked, deployed, hasRun, ran, rework, decision, basis, daemonVars>>

IncludeTarget(t) ==
  /\ status[t] = "excluded"
  /\ Move(t, "blocked")
  /\ UNCHANGED <<blocked, deployed, rowVars, daemonVars>>

\* Mutant: straight to 'ready', past blockers and depends_on.
RedispatchPastBlockers(t) ==
  /\ status[t] \in {"failed", "cancelled"}
  /\ tstatus[TicketOf[t]] = "running"
  /\ Move(t, "ready")
  /\ cancelReq' = [cancelReq EXCEPT ![t] = FALSE]
  /\ hasRun' = [hasRun EXCEPT ![t] = FALSE]
  /\ rework' = [rework EXCEPT ![t] = 0]
  /\ UNCHANGED <<blocked, deployed, ran, decision, basis, daemonVars>>

\* A fresh attempt: the run id, the flag and the rework budget start over and
\* the ticket's readiness is evaluated in the same transaction.
RedispatchTarget(t) ==
  /\ status[t] \in {"failed", "cancelled"}
  /\ tstatus[TicketOf[t]] = "running"
  /\ Commit(t, PromoteReady(TicketOf[t], [status EXCEPT ![t] = "blocked"]))
  /\ cancelReq' = [cancelReq EXCEPT ![t] = FALSE]
  /\ hasRun' = [hasRun EXCEPT ![t] = FALSE]
  /\ rework' = [rework EXCEPT ![t] = 0]
  /\ UNCHANGED <<blocked, deployed, ran, decision, basis, daemonVars>>

\* The dashboard records an answer; the statement's WHERE clause is the guard.
RequestGateDecision(t, d) ==
  /\ status[t] = "gate_waiting"
  /\ decision[t] = NoDecision
  /\ decision' = [decision EXCEPT ![t] = d]
  /\ UNCHANGED <<tstatus, blocked, status, deployed, cancelReq, hasRun, ran, rework,
                 basis, daemonVars>>

-----------------------------------------------------------------------------
(* The daemon: analysis. *)

Running(d) == phase[d] = "up"

\* The slots left under the ceiling, counted from the store.
LiveTargets == {t \in Target : status[t] \in Live}
\* Mutant: a claim that has not reported its run yet holds no slot.
FreeSlotsButDispatching ==
  LET held == Cardinality({t \in LiveTargets : status[t] # "dispatching"})
  IN IF held > MaxRuns THEN 0 ELSE MaxRuns - held

FreeSlots == IF Cardinality(LiveTargets) > MaxRuns
             THEN 0 ELSE MaxRuns - Cardinality(LiveTargets)

\* Every drain reads the free slots first and claims in a later statement of
\* the same pass.
ReadSlots(d, p) ==
  /\ Running(d)
  /\ slots' = [slots EXCEPT ![d][p] = FreeSlots]
  /\ UNCHANGED <<tstatus, blocked, status, deployed, rowVars, phase, analysing,
                 spawning, answers, answering, restarts>>

\* A claim takes as many rows as it may: the limit, or all of them.
Claims(S, candidates, limit) ==
  /\ S \subseteq candidates
  /\ Cardinality(S) <= limit
  /\ S = candidates \/ Cardinality(S) = limit

ClaimAnalysisWork(d, p) ==
  /\ Running(d)
  /\ slots[d][p] > 0
  /\ \E S \in SUBSET {k \in Ticket : tstatus[k] = "analysis_requested"} :
       /\ Claims(S, {k \in Ticket : tstatus[k] = "analysis_requested"}, slots[d][p])
       /\ tstatus' = [k \in Ticket |-> IF k \in S THEN "analyzing" ELSE tstatus[k]]
       /\ analysing' = [analysing EXCEPT ![d] = @ \cup S]
  /\ slots' = [slots EXCEPT ![d][p] = 0]
  /\ UNCHANGED <<blocked, status, deployed, rowVars, phase, spawning, answers,
                 answering, restarts>>

\* runAnalysis is over for k: its outcome is recorded only from 'analyzing'.
AnalysisReturned(d, k) ==
  /\ Running(d)
  /\ k \in analysing[d]
  /\ analysing' = [analysing EXCEPT ![d] = @ \ {k}]
  /\ UNCHANGED <<blocked, deployed, phase, slots, spawning, answers, answering, restarts>>

\* replace_targets: the fan-out becomes S, every row of it new.
AnalysisSucceeded(d, k) ==
  /\ AnalysisReturned(d, k)
  /\ tstatus[k] = "analyzing"
  /\ tstatus' = [tstatus EXCEPT ![k] = "analyzed"]
  /\ \E S \in SUBSET TargetsOf(k) \ {{}} :
       status' = [t \in Target |-> IF TicketOf[t] # k THEN status[t]
                                   ELSE IF t \in S THEN "blocked" ELSE "absent"]
  /\ cancelReq' = [t \in Target |-> cancelReq[t] /\ TicketOf[t] # k]
  /\ hasRun' = [t \in Target |-> hasRun[t] /\ TicketOf[t] # k]
  /\ ran' = [t \in Target |-> ran[t] /\ TicketOf[t] # k]
  /\ rework' = [t \in Target |-> IF TicketOf[t] = k THEN 0 ELSE rework[t]]
  /\ decision' = [t \in Target |-> IF TicketOf[t] = k THEN NoDecision ELSE decision[t]]
  /\ basis' = [t \in Target |-> IF TicketOf[t] = k THEN "current" ELSE basis[t]]

\* The analyzer threw, or matched no repository: the old fan-out stays.
AnalysisFailed(d, k) ==
  /\ AnalysisReturned(d, k)
  /\ tstatus[k] = "analyzing"
  /\ tstatus' = [tstatus EXCEPT ![k] = "analysis_failed"]
  /\ UNCHANGED <<status, rowVars>>

\* The ticket moved while its analysis was in flight.
AnalysisRefused(d, k) ==
  /\ AnalysisReturned(d, k)
  /\ tstatus[k] # "analyzing"
  /\ UNCHANGED <<tstatus, status, rowVars>>

-----------------------------------------------------------------------------
(* The daemon: dispatch. *)

\* claimReadyTargets reads the target's status only, not its ticket's.
ClaimReadyTargets(d, p) ==
  /\ Running(d)
  /\ slots[d][p] > 0
  /\ \E S \in SUBSET {t \in Target : status[t] = "ready"} :
       /\ Claims(S, {t \in Target : status[t] = "ready"}, slots[d][p])
       /\ status' = [t \in Target |-> IF t \in S THEN "dispatching" ELSE status[t]]
       /\ spawning' = [spawning EXCEPT ![d] = @ \cup S]
  /\ slots' = [slots EXCEPT ![d][p] = 0]
  /\ UNCHANGED <<tstatus, blocked, deployed, rowVars, phase, analysing, answers,
                 answering, restarts>>

\* dispatch is over for t, one way or the other.
SpawnReturned(d, t) ==
  /\ Running(d)
  /\ t \in spawning[d]
  /\ spawning' = [spawning EXCEPT ![d] = @ \ {t}]
  /\ UNCHANGED <<blocked, deployed, rework, decision, basis, phase, slots,
                 analysing, answers, answering, restarts>>

\* The run id comes with the launch: the row's attempt now has a run, or an
\* older attempt of it had one.
Launched(t) ==
  /\ hasRun' = [hasRun EXCEPT ![t] = TRUE]
  /\ ran' = [ran EXCEPT ![t] = TRUE]

\* spawnRun returned, with the id of the run it created; or with none, after a
\* launch that was aborted before there was a run, whose exit callback reports
\* run_failed on its own (RunFailed).
RunStarted(d, t) ==
  /\ SpawnReturned(d, t)
  /\ status[t] = "dispatching"
  /\ Move(t, "running")
  /\ Launched(t) \/ UNCHANGED <<hasRun, ran>>
  /\ UNCHANGED cancelReq

\* The spawn threw, or run_started was refused for a run that exists: the same
\* catch reports run_failed, which any live status accepts.
DispatchFailed(d, t) ==
  /\ SpawnReturned(d, t)
  /\ \/ /\ status[t] \in Live
        /\ Move(t, "failed")
        /\ cancelReq' = [cancelReq EXCEPT ![t] = FALSE]
     \/ /\ status[t] \notin Live
        /\ UNCHANGED <<tstatus, status, cancelReq>>
  /\ \E created \in BOOLEAN : ran' = [ran EXCEPT ![t] = @ \/ created]
  /\ UNCHANGED hasRun

\* recordRunId is a bare update from the launch's callback: it lands whatever
\* became of the target, and whichever attempt's run it names.
RecordRunId(t) ==
  /\ ran[t] \/ \E d \in Daemon : t \in spawning[d]
  /\ Launched(t)
  /\ UNCHANGED <<tstatus, blocked, status, deployed, cancelReq, rework,
                 decision, basis, daemonVars>>

-----------------------------------------------------------------------------
(* The daemon: what a run reports, by event or by reconciliation.  A late  *)
(* report of an earlier attempt's run counts for the target as it is now.  *)

RunSucceeded(t) ==
  /\ ran[t]
  /\ status[t] \in {"running", "gate_waiting"}
  /\ Move(t, "succeeded")
  /\ UNCHANGED <<blocked, deployed, rowVars, daemonVars>>

RunFailed(t) ==
  /\ status[t] \in Live
  /\ Move(t, "failed")
  /\ cancelReq' = [cancelReq EXCEPT ![t] = FALSE]
  /\ UNCHANGED <<blocked, deployed, hasRun, ran, rework, decision, basis, daemonVars>>

\* The run is recorded before its gate, so a parked target always has one.  A
\* gate that opens over a decision still on the row inherits that answer.
GateOpened(t) ==
  /\ ran[t]
  /\ status[t] = "running"
  /\ Move(t, "gate_waiting")
  /\ hasRun' = [hasRun EXCEPT ![t] = TRUE]
  /\ basis' = [basis EXCEPT ![t] = IF decision[t] = NoDecision THEN @ ELSE "older_gate"]
  /\ UNCHANGED <<blocked, deployed, cancelReq, ran, rework, decision, daemonVars>>

\* gate_opened with another message at a gate already open: only the question
\* changes, so only what a recorded decision was given on does.
GateQuestionChanged(t) ==
  /\ status[t] = "gate_waiting"
  /\ decision[t] # NoDecision
  /\ basis' = [basis EXCEPT ![t] = IF @ = "current" THEN "older_question" ELSE @]
  /\ UNCHANGED <<tstatus, blocked, status, deployed, cancelReq, hasRun, ran, rework,
                 decision, daemonVars>>

GateTimedOut(t) ==
  /\ status[t] = "gate_waiting"
  /\ Move(t, "failed")
  /\ cancelReq' = [cancelReq EXCEPT ![t] = FALSE]
  /\ UNCHANGED <<blocked, deployed, hasRun, ran, rework, decision, basis, daemonVars>>

\* applyCancelRequests, and a run the executor reports as cancelled.
ConfirmCancel(t) ==
  /\ status[t] \in Live
  /\ Move(t, "cancelled")
  /\ cancelReq' = [cancelReq EXCEPT ![t] = FALSE]
  /\ UNCHANGED <<blocked, deployed, hasRun, ran, rework, decision, basis, daemonVars>>

-----------------------------------------------------------------------------
(* The daemon: gate answers. *)

\* applyGateDecisions lists every recorded answer of a waiting gate at once,
\* and goes through its list row by row.
ReadGateDecisions(d, p) ==
  LET listed == {t \in Target : status[t] = "gate_waiting" /\ decision[t] # NoDecision}
  IN /\ Running(d)
     /\ answers[d][p] = {}
     /\ answering[d][p] = NoTarget
     /\ listed # {}
     /\ answers' = [answers EXCEPT ![d][p] = {<<t, decision[t]>> : t \in listed}]
     /\ UNCHANGED <<tstatus, blocked, status, deployed, rowVars, phase, slots,
                    analysing, spawning, answering, restarts>>

\* approveGate, rejectGate and createGateBlocker through the envelope.  A
\* rejection reworks until the budget is spent, then fails the target.
AnsweredGate(t, answer) ==
  \/ /\ answer = "approved"
     /\ Move(t, "running")
     /\ UNCHANGED <<cancelReq, rework>>
  \/ /\ answer = "rejected"
     /\ rework[t] < MaxRework
     /\ Move(t, "running")
     /\ rework' = [rework EXCEPT ![t] = @ + 1]
     /\ UNCHANGED cancelReq
  \/ /\ answer = "rejected"
     /\ rework[t] >= MaxRework
     /\ Move(t, "failed")
     /\ cancelReq' = [cancelReq EXCEPT ![t] = FALSE]
     /\ UNCHANGED rework
  \/ /\ answer = "blocker"
     /\ Move(t, "blocked")
     /\ UNCHANGED <<cancelReq, rework>>

\* The answer as it was listed, to the target as it is now: a gate that waits
\* takes it, any other status refuses it.
ApplyGateDecision(d, p, t, answer) ==
  /\ Running(d)
  /\ answering[d][p] = NoTarget
  /\ <<t, answer>> \in answers[d][p]
  /\ \/ status[t] = "gate_waiting" /\ AnsweredGate(t, answer)
     \/ status[t] # "gate_waiting" /\ UNCHANGED <<tstatus, status, cancelReq, rework>>
  /\ answers' = [answers EXCEPT ![d][p] = @ \ {<<t, answer>>}]
  /\ answering' = [answering EXCEPT ![d][p] = t]
  /\ UNCHANGED <<blocked, deployed, hasRun, ran, decision, basis, phase, slots,
                 analysing, spawning, restarts>>

\* The finally block, one statement after the commit and the deferred effects,
\* or after the refusal.
ClearGateDecision(d, p) ==
  /\ Running(d)
  /\ answering[d][p] # NoTarget
  /\ decision' = [decision EXCEPT ![answering[d][p]] = NoDecision]
  /\ basis' = [basis EXCEPT ![answering[d][p]] = "current"]
  /\ answering' = [answering EXCEPT ![d][p] = NoTarget]
  /\ UNCHANGED <<tstatus, blocked, status, deployed, cancelReq, hasRun, ran, rework,
                 phase, slots, analysing, spawning, answers, restarts>>

-----------------------------------------------------------------------------
(* The daemon: readiness, sweeps and startup. *)

\* Mutant: the sweep demotes what is no longer ready and promotes nothing.
EvaluateReadinessDemotesOnly(t) ==
  /\ tstatus[TicketOf[t]] = "running"
  /\ status[t] = "ready"
  /\ ~Ready(t, status)
  /\ Move(t, "blocked")
  /\ UNCHANGED <<blocked, deployed, rowVars, daemonVars>>

EvaluateReadiness(t) ==
  /\ tstatus[TicketOf[t]] = "running"
  /\ \/ status[t] = "blocked" /\ Ready(t, status) /\ Move(t, "ready")
     \/ status[t] = "ready" /\ ~Ready(t, status) /\ Move(t, "blocked")
  /\ UNCHANGED <<blocked, deployed, rowVars, daemonVars>>

\* A live target that no run id was ever recorded for goes back to the queue,
\* outside the envelope: no guard on its ticket, no settlement.
SweepOrphanedTarget(t) ==
  /\ status[t] \in {"running", "gate_waiting"}
  /\ ~hasRun[t]
  /\ status' = [status EXCEPT ![t] = "ready"]
  /\ UNCHANGED <<tstatus, blocked, deployed, rowVars, daemonVars>>

Crash(d) ==
  /\ restarts < MaxRestarts
  /\ restarts' = restarts + 1
  /\ phase' = [phase EXCEPT ![d] = "startup"]
  /\ slots' = [slots EXCEPT ![d] = [p \in Pass |-> 0]]
  /\ analysing' = [analysing EXCEPT ![d] = {}]
  /\ spawning' = [spawning EXCEPT ![d] = {}]
  /\ answers' = [answers EXCEPT ![d] = [p \in Pass |-> {}]]
  /\ answering' = [answering EXCEPT ![d] = [p \in Pass |-> NoTarget]]
  /\ UNCHANGED <<tstatus, blocked, status, deployed, rowVars>>

\* recoverOnStartup: claims older than the grace window go back, whoever made
\* them; S and A are the rows that are old enough.
RecoverOnStartup(d) ==
  /\ phase[d] = "startup"
  /\ \E S \in SUBSET {t \in Target : status[t] = "dispatching"},
        A \in SUBSET {k \in Ticket : tstatus[k] = "analyzing"} :
       /\ status' = [t \in Target |-> IF t \in S THEN "ready" ELSE status[t]]
       /\ tstatus' = [k \in Ticket |-> IF k \in A THEN "analysis_requested" ELSE tstatus[k]]
  /\ phase' = [phase EXCEPT ![d] = "up"]
  /\ UNCHANGED <<blocked, deployed, rowVars, slots, analysing, spawning, answers,
                 answering, restarts>>

-----------------------------------------------------------------------------
TicketStep(k) ==
  \/ UpsertTicket(k)
  \/ ExternalTerminal(k)
  \/ RequestAnalysis(k)
  \/ Start(k)
  \/ CancelTicket(k)
  \/ Archive(k)
  \/ Restore(k)

OperatorStep(t) ==
  \/ CancelTarget(t)
  \/ ExcludeTarget(t)
  \/ IncludeTarget(t)
  \/ RedispatchTarget(t)
  \/ \E d \in GateDecision : RequestGateDecision(t, d)

\* Every callback and every sweep runs inside some daemon that is up.
SomeDaemonUp == \E d \in Daemon : Running(d)

RunStep(t) ==
  \/ RecordRunId(t)
  \/ RunSucceeded(t)
  \/ RunFailed(t)
  \/ GateOpened(t)
  \/ GateQuestionChanged(t)
  \/ GateTimedOut(t)
  \/ ConfirmCancel(t)

TargetStep(t) ==
  /\ SomeDaemonUp
  /\ \/ RunStep(t)
     \/ EvaluateReadiness(t)
     \/ SweepOrphanedTarget(t)

\* The steps of one pass, any of which another pass may get in between.
PassStep(d, p) ==
  \/ ReadSlots(d, p)
  \/ ClaimAnalysisWork(d, p)
  \/ ClaimReadyTargets(d, p)
  \/ ReadGateDecisions(d, p)
  \/ \E t \in Target, answer \in GateDecision : ApplyGateDecision(d, p, t, answer)
  \/ ClearGateDecision(d, p)

TickStep(d) ==
  \/ \E p \in Pass : PassStep(d, p)
  \/ \E k \in Ticket : \/ AnalysisSucceeded(d, k)
                     \/ AnalysisFailed(d, k)
                     \/ AnalysisRefused(d, k)
  \/ \E t \in Target : \/ RunStarted(d, t)
                     \/ DispatchFailed(d, t)
  \/ Crash(d)

DaemonStep(d) == TickStep(d) \/ RecoverOnStartup(d)

Next ==
  \/ \E k \in Ticket : TicketStep(k)
  \/ \E t \in Target : OperatorStep(t) \/ TargetStep(t)
  \/ \E d \in Daemon : DaemonStep(d)

Spec == Init /\ [][Next]_vars
-----------------------------------------------------------------------------
(* Safety. *)

\* A ticket's status is the one its targets imply: done only when every
\* participating target succeeded, running only while that is not so.  Every
\* path that moves a target must re-settle, the sweeps outside the envelope
\* must not need to.
TicketAgreesWithTargets ==
  \A k \in Ticket :
    /\ tstatus[k] = "done" => SettleTicketStatus(status, TargetsOf(k)) = "done"
    /\ tstatus[k] = "running" => SettleTicketStatus(status, TargetsOf(k)) = "running"

\* What protects a live run from having its fan-out replaced underneath it:
\* before Start no target is queued, live or being spawned by a daemon, whatever
\* cancels, restores, re-analyses and restarts came before.
UnstartedTicketHasNoRun ==
  \A t \in Target :
    tstatus[TicketOf[t]] \notin {"running", "done", "cancelled"} =>
      /\ status[t] \in {"absent", "excluded", "blocked", "cancelled"}
      /\ \A d \in Daemon : t \notin spawning[d]

\* Whatever was queued, dispatched or run had every sibling it depends on
\* succeeded, and they stay so: requeues, redispatches and reopened tickets
\* included.
DependenciesRanFirst ==
  \A t \in Target : status[t] \in Live \cup {"ready", "succeeded", "failed"} =>
    \A u \in DependsOn[t] : status[u] = "succeeded"

\* Nothing escapes a cancelled ticket: a target of it that is live or queued
\* carries the flag that makes a daemon kill it, even after a requeue.
CancelledTicketFlagsItsRuns ==
  \A t \in Target :
    tstatus[TicketOf[t]] = "cancelled" /\ status[t] \in Live \cup {"ready"} => cancelReq[t]

\* The concurrency ceiling is counted in one statement and spent in a later one.
\* What is live never exceeds one ceiling per pass under way, through requeues,
\* restarts and abandoned passes: the count must see every claim, and a count
\* must be spent once.  With one pass of one daemon that is the ceiling itself.
LiveWithinCeilings ==
  Cardinality(LiveTargets) <= MaxRuns * Cardinality(Daemon \X Pass)

-----------------------------------------------------------------------------
(* Action properties. *)

\* An answer reaches a waiting gate.
Answers(d, p, t) ==
  /\ answering[d][p] # t /\ answering'[d][p] = t
  /\ status[t] = "gate_waiting"

\* An operator's answer is applied to the gate and the question it was given
\* for, never to a later one.
DecisionAnswersItsGate ==
  [][\A d \in Daemon, p \in Pass, t \in Target :
       Answers(d, p, t) => decision[t] # NoDecision /\ basis[t] = "current"]_vars

-----------------------------------------------------------------------------
(* Liveness. *)

\* The daemon loop: every tick takes every step that has something to do, a
\* spawn returns, and a run ends or parks at a gate.  Nothing is assumed of
\* operators, the tracker, or crashes.
Fairness ==
  /\ \A d \in Daemon :
       /\ WF_vars(RecoverOnStartup(d))
       /\ \A p \in Pass :
            /\ WF_vars(ReadSlots(d, p))
            /\ SF_vars(ClaimReadyTargets(d, p))
            /\ WF_vars(ReadGateDecisions(d, p))
            /\ WF_vars(\E t \in Target, answer \in GateDecision :
                         ApplyGateDecision(d, p, t, answer))
            /\ WF_vars(ClearGateDecision(d, p))
       /\ \A t \in Target : WF_vars(RunStarted(d, t) \/ DispatchFailed(d, t))
  /\ \A t \in Target :
       /\ WF_vars(EvaluateReadiness(t))
       /\ SF_vars(cancelReq[t] /\ ConfirmCancel(t))
       /\ WF_vars(status[t] = "running" /\ (RunSucceeded(t) \/ RunFailed(t) \/ GateOpened(t)))

\* What the liveness runs assume of the world: no launch is aborted before it
\* has a run, and operators do not bring excluded targets back for ever.
Cooperative ==
  \A t \in Target :
    /\ status[t] = "dispatching" /\ status'[t] = "running" => hasRun'[t]
    /\ status[t] = "excluded" => status'[t] = "excluded"

FairSpec == Init /\ [][Next /\ Cooperative]_vars /\ Fairness

\* A target of ticket k only a human or the tracker can move.
NeedsAttention(k) ==
  \/ blocked[k]
  \/ \E t \in TargetsOf(k) :
       \/ status[t] \in {"failed", "cancelled"}
       \/ \E u \in DependsOn[t] : status[u] \in {"excluded", "absent"}
       \/ t \in EnvGated /\ \E u \in DependsOn[t] : ~deployed[u]

\* No started ticket is lost: it completes, is cancelled, or waits for
\* something a human can see on the board.
StartedTicketProgresses ==
  \A k \in Ticket :
    tstatus[k] = "running" ~>
      \/ tstatus[k] \in {"done", "cancelled"}
      \/ NeedsAttention(k)
      \/ \E t \in Target : status[t] = "gate_waiting"

\* Cancelling a ticket stops all of it, for good.
CancelledTicketDrains ==
  \A k \in Ticket :
    tstatus[k] = "cancelled" ~>
      [](\A t \in TargetsOf(k) : status[t] \notin Live \cup {"ready"})

\* A claim never stays a claim: it becomes a run, fails, or goes back to the
\* queue when the daemon that made it is started again.  Startup recovery says
\* so of every claim a dead process left, and passes over the young ones.
ClaimIsResolved ==
  \A t \in Target : status[t] = "dispatching" ~> status[t] # "dispatching"
=============================================================================

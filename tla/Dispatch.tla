------------------------------ MODULE Dispatch ------------------------------
(***************************************************************************)
(* One target and the runs its attempts start: the adapter that launches a *)
(* run, answers its gates and kills it, the handle it keeps, and the       *)
(* engine's events, which are keyed by target and applied some time after  *)
(* they were emitted.                                                      *)
(*                                                                         *)
(* Every map of the adapter is keyed by target id, so one target is the    *)
(* general case.  An attempt and its run have the same number.  The steps  *)
(* of a tick follow each other: a launch holds up the rest of the tick,    *)
(* and only the engine's callbacks and the operator act during it.  What a *)
(* run does is RunEngine's subject: here it ends, parks or is cancelled.   *)
(* A daemon that starts looks for running rows without a live lease, once, *)
(* before its first tick: what it does not find then it never looks for.   *)
(***************************************************************************)
EXTENDS Naturals, FiniteSets

CONSTANTS
  MaxLaunches,       \* bound: attempts
  MaxPending,    \* bound: callbacks waiting for their statement
  MaxDispatchCrashes     \* bound: daemon restarts

ASSUME DispatchAssumption ==
  MaxLaunches \in Nat \ {0} /\ MaxPending \in Nat \ {0} /\ MaxDispatchCrashes \in Nat

Run == 1..MaxLaunches
None == 0

VARIABLES
  target,     \* ticket_targets.status
  runId,      \* ticket_targets.run_id
  spawn,      \* where the dispatch of an attempt is
  runRow,     \* workflow_runs.status
  runner,     \* executor.active: running, or the stop it has decided on
  listener,   \* who hears the runner: spawnRun's callbacks, decide's, nobody
  live,       \* the adapter's handle for the target
  events,     \* callbacks whose statements have not been executed
  startup,    \* how far the daemon's start has come
  expired,    \* runs its recovery has found and not handled yet
  killed,     \* ghost: runs a daemon was told to stop while it could
  dispatchCrashes

startVars == <<startup, expired>>
dispatchVars == <<target, runId, spawn, runRow, runner, listener, live, events, startVars,
                  killed, dispatchCrashes>>
engineVars == <<runRow, runner, listener>>

LiveStatus == {"dispatching", "running", "gate_waiting"}
Final == {"completed", "failed", "cancelled"}
Event == [kind : {"id", "gate", "opened", "succeeded", "failed", "done"}, run : Run]

DispatchTypeOK ==
  /\ target \in LiveStatus \cup {"ready", "succeeded", "failed", "cancelled"}
  /\ runId \in Run \cup {None}
  /\ spawn \in [Run -> {"unused", "launching", "started", "returned", "over"}]
  /\ runRow \in [Run -> Final \cup {"none", "running", "paused", "interrupted"}]
  /\ runner \in [Run -> Final \cup {"none", "running", "paused"}]
  /\ listener \in [Run -> {"none", "spawned", "resumed"}]
  /\ live \in Run \cup {None}
  /\ events \subseteq Event
  /\ startup \in {"down", "adopting", "done"}
  /\ expired \subseteq Run
  /\ killed \subseteq Run
  /\ dispatchCrashes \in 0..MaxDispatchCrashes

DispatchInit ==
  /\ target = "ready"
  /\ runId = None
  /\ spawn = [r \in Run |-> "unused"]
  /\ runRow = [r \in Run |-> "none"]
  /\ runner = [r \in Run |-> "none"]
  /\ listener = [r \in Run |-> "none"]
  /\ live = None
  /\ events = {}
  /\ startup = "done"
  /\ expired = {}
  /\ killed = {}
  /\ dispatchCrashes = 0

\* The daemon has started, and its tick is between two of its steps.
Idle == startup = "done" /\ \A r \in Run : spawn[r] \in {"unused", "over"}

Say(r, kinds) ==
  /\ events' = events \cup [kind : kinds, run : {r}]
  /\ Cardinality(events') <= MaxPending

-----------------------------------------------------------------------------
(* An attempt. *)

Claim(r) ==
  /\ target = "ready"
  /\ Idle
  /\ spawn[r] = "unused"
  /\ \A s \in Run : s < r => spawn[s] # "unused"
  /\ target' = "dispatching"
  /\ spawn' = [spawn EXCEPT ![r] = "launching"]
  /\ UNCHANGED <<runId, engineVars, live, events, startVars, killed, dispatchCrashes>>

\* startRun has written the row and started the loop, which will report the id.
StartRun(r) ==
  /\ spawn[r] = "launching"
  /\ spawn' = [spawn EXCEPT ![r] = "started"]
  /\ runRow' = [runRow EXCEPT ![r] = "running"]
  /\ runner' = [runner EXCEPT ![r] = "running"]
  /\ listener' = [listener EXCEPT ![r] = "spawned"]
  /\ Say(r, {"id"})
  /\ UNCHANGED <<target, runId, live, startVars, killed, dispatchCrashes>>

\* A hook or the workflow is refused: the worker reports an exit, and then
\* returns a handle without a run.
LaunchFails(r) ==
  /\ spawn[r] = "launching"
  /\ spawn' = [spawn EXCEPT ![r] = "started"]
  /\ live' = None
  /\ Say(r, {"failed"})
  /\ UNCHANGED <<target, runId, engineVars, startVars, killed, dispatchCrashes>>

\* spawnRun returns.  The handle is kept even when the run is over by now.
SpawnReturns(r) ==
  /\ spawn[r] = "started"
  /\ spawn' = [spawn EXCEPT ![r] = "returned"]
  /\ live' = r
  /\ UNCHANGED <<target, runId, engineVars, events, startVars, killed, dispatchCrashes>>

\* run_started; refused, it is followed by run_failed, which is refused as
\* well unless an attempt is live by then.
CommitLaunch(r) ==
  /\ spawn[r] = "returned"
  /\ spawn' = [spawn EXCEPT ![r] = "over"]
  /\ IF target = "dispatching"
     THEN /\ target' = "running"
          /\ runId' = IF runRow[r] # "none" THEN r ELSE runId
     ELSE /\ target' = IF target \in LiveStatus THEN "failed" ELSE target
          /\ UNCHANGED runId
  /\ UNCHANGED <<engineVars, live, events, startVars, killed, dispatchCrashes>>

-----------------------------------------------------------------------------
(* The run, and what is heard of it. *)

\* The loop has decided how it ends: from here a cancel does nothing.
Stops(r) ==
  /\ runner[r] = "running"
  /\ \E stop \in {"completed", "failed", "paused"} : runner' = [runner EXCEPT ![r] = stop]
  /\ UNCHANGED <<target, runId, spawn, runRow, listener, live, events, startVars, killed,
                 dispatchCrashes>>

\* finalize: the row, the event, and the handle.
Finalize(r) ==
  LET stop == runner[r]
      report == IF stop = "paused" THEN {"gate"}
                ELSE IF stop = "completed" THEN {"succeeded"} ELSE {"failed"}
  IN
  /\ stop \in Final \cup {"paused"}
  /\ runRow' = [runRow EXCEPT ![r] = stop]
  /\ runner' = [runner EXCEPT ![r] = "none"]
  /\ listener' = [listener EXCEPT ![r] = "none"]
  /\ CASE listener[r] = "none" -> UNCHANGED <<events, live>>
       [] listener[r] = "resumed" -> Say(r, report \cup {"done"}) /\ UNCHANGED live
       [] OTHER -> /\ Say(r, report)
                   /\ live' = IF stop = "paused" THEN live ELSE None
  /\ UNCHANGED <<target, runId, spawn, startVars, killed, dispatchCrashes>>

\* One callback's statement.  A refused transition is logged.
Deliver(e) ==
  /\ e \in events
  /\ events' = (events \ {e}) \cup
       (IF e.kind = "gate" THEN {[kind |-> "opened", run |-> e.run]} ELSE {})
  /\ runId' = IF e.kind \in {"id", "gate"} THEN e.run ELSE runId
  /\ live' = IF e.kind = "done" THEN None ELSE live
  /\ target' =
       CASE e.kind = "succeeded" /\ target \in {"running", "gate_waiting"} -> "succeeded"
         [] e.kind = "failed" /\ target \in LiveStatus -> "failed"
         [] e.kind = "opened" /\ target = "running" -> "gate_waiting"
         [] OTHER -> target
  /\ UNCHANGED <<spawn, engineVars, startVars, killed, dispatchCrashes>>

-----------------------------------------------------------------------------
(* The daemon's steps. *)

Stopping(R) == [q \in Run |-> IF q \in R /\ runner[q] = "running" THEN "cancelled" ELSE runner[q]]

\* Mutant: only the handle is used.
KillByHandle(r) ==
  /\ runner' = Stopping({live})
  /\ live' = None
  /\ killed' = killed \cup {q \in Run : q = r /\ runner[q] # "paused"}
  /\ UNCHANGED <<runRow, listener>>

\* killRun: through the handle, and by id, for the handle may be gone or be
\* another run's.  A run that nobody drives is settled in its row.
KillRun(r) ==
  /\ runner' = Stopping({live, r})
  /\ live' = None
  /\ killed' = killed \cup {q \in Run : q = r /\ runner[q] # "paused"}
  /\ runRow' = [q \in Run |-> IF q = r /\ runner[q] = "none" /\ runRow[q] \notin Final
                           THEN "cancelled" ELSE runRow[q]]
  /\ UNCHANGED listener

\* cancel_confirmed for an operator's flag, or a gate that ran out of time or
\* of reworks.
StopTarget ==
  /\ Idle
  /\ \/ target \in LiveStatus /\ target' = "cancelled"
     \/ target = "gate_waiting" /\ target' = "failed"
  /\ KillRun(runId)
  /\ UNCHANGED <<runId, spawn, events, startVars, dispatchCrashes>>

\* The operator's answer, and the run it resumes, if it still asks.
AnswerGate ==
  /\ Idle
  /\ target = "gate_waiting"
  /\ target' = "running"
  /\ IF runId # None /\ runRow[runId] = "paused" /\ runner[runId] = "none"
     THEN /\ runRow' = [runRow EXCEPT ![runId] = "running"]
          /\ runner' = [runner EXCEPT ![runId] = "running"]
          /\ listener' = [listener EXCEPT ![runId] = "resumed"]
          /\ live' = runId
     ELSE UNCHANGED <<engineVars, live>>
  /\ UNCHANGED <<runId, spawn, events, startVars, killed, dispatchCrashes>>

Redispatch ==
  /\ target \in {"failed", "cancelled"}
  /\ target' = "ready"
  /\ runId' = None
  /\ UNCHANGED <<spawn, engineVars, live, events, startVars, killed, dispatchCrashes>>

\* Mutant: a completed run is left to its own event.
ReconcileUnfinished ==
  /\ Idle
  /\ target \in {"running", "gate_waiting"}
  /\ runId # None
  /\ \/ runRow[runId] = "cancelled" /\ target' = "cancelled" /\ KillRun(runId)
     \/ /\ \/ runRow[runId] = "failed" /\ target' = "failed"
           \/ runRow[runId] = "paused" /\ target' = "gate_waiting"
        /\ UNCHANGED <<engineVars, live, killed>>
  /\ UNCHANGED <<runId, spawn, events, startVars, dispatchCrashes>>

\* reconcileOne
Reconcile ==
  /\ Idle
  /\ target \in {"running", "gate_waiting"}
  /\ runId # None
  /\ \/ runRow[runId] = "cancelled" /\ target' = "cancelled" /\ KillRun(runId)
     \/ /\ \/ runRow[runId] = "completed" /\ target' = "succeeded"
           \/ runRow[runId] = "failed" /\ target' = "failed"
           \/ runRow[runId] = "paused" /\ target' = "gate_waiting"
        /\ UNCHANGED <<engineVars, live, killed>>
  /\ UNCHANGED <<runId, spawn, events, startVars, dispatchCrashes>>

\* sweepOrphanedTargets
Requeue ==
  /\ Idle
  /\ target \in {"running", "gate_waiting"} /\ runId = None
  /\ target' = "ready"
  /\ UNCHANGED <<runId, spawn, engineVars, live, events, startVars, killed, dispatchCrashes>>

-----------------------------------------------------------------------------
(* The daemon dies with its memory, and the next one adopts runs. *)

\* A run that was stopped and whose end has not been written is as good as any
\* other that was interrupted: the next daemon may drive it on.
CrashDaemon ==
  /\ dispatchCrashes < MaxDispatchCrashes
  /\ dispatchCrashes' = dispatchCrashes + 1
  /\ spawn' = [r \in Run |-> IF spawn[r] = "unused" THEN "unused" ELSE "over"]
  /\ runner' = [r \in Run |-> "none"]
  /\ listener' = [r \in Run |-> "none"]
  /\ live' = None
  /\ events' = {}
  /\ startup' = "down"
  /\ expired' = {}
  /\ killed' = {r \in killed : runRow[r] \in Final}
  /\ UNCHANGED <<target, runId, runRow>>

\* The next daemon: of the runs whose rows say running, those whose leases have
\* lapsed by now.
FindExpired ==
  /\ startup = "down"
  /\ startup' = "adopting"
  /\ expired' \in SUBSET {r \in Run : runRow[r] = "running"}
  /\ UNCHANGED <<target, runId, spawn, engineVars, live, events, killed, dispatchCrashes>>

\* recoverInterruptedRuns: it is resumed with nobody listening, or asks first,
\* or cannot be resumed: the workflow has changed, or a gate is unanswered.
Adopt(r) ==
  /\ r \in expired
  /\ expired' = expired \ {r}
  /\ \/ runner' = [runner EXCEPT ![r] = "running"] /\ UNCHANGED runRow
     \/ /\ \E status \in {"paused", "interrupted"} : runRow' = [runRow EXCEPT ![r] = status]
        /\ UNCHANGED runner
  /\ UNCHANGED <<target, runId, spawn, listener, live, events, startup, killed,
                 dispatchCrashes>>

\* recoverOnStartup, once: a claim that nobody launches is returned if it is old
\* enough by then, and is not looked at again if it is not.
RecoverClaim ==
  /\ startup = "adopting"
  /\ expired = {}
  /\ startup' = "done"
  /\ target' \in {target} \cup (IF target = "dispatching" THEN {"ready"} ELSE {})
  /\ UNCHANGED <<runId, spawn, engineVars, live, events, expired, killed, dispatchCrashes>>

-----------------------------------------------------------------------------
AttemptStep(r) == StartRun(r) \/ LaunchFails(r) \/ SpawnReturns(r) \/ CommitLaunch(r)
EngineStep(r) == Stops(r) \/ Finalize(r)
StartupStep == FindExpired \/ (\E r \in Run : Adopt(r)) \/ RecoverClaim
Hear == \E e \in Event : Deliver(e)

DispatchNext ==
  \/ \E r \in Run : Claim(r) \/ AttemptStep(r) \/ EngineStep(r)
  \/ Hear \/ StopTarget \/ AnswerGate \/ Redispatch \/ Reconcile \/ Requeue
  \/ CrashDaemon \/ StartupStep

DispatchSpec == DispatchInit /\ [][DispatchNext]_dispatchVars

\* A run the control plane has stopped by its id is not driven on, whatever
\* became of the handle: an earlier attempt that ends late takes the handle of
\* the attempt after it.  Nor does a later daemon drive it on, once its end has
\* been written; a daemon that dies before that leaves it to recovery.  (A run
\* that was parking at a gate when it was stopped parks all the same, and a late
\* event may hand it to the next attempt.)
KilledRunStops == \A r \in killed : runner[r] # "running"

\* Recovery has passed the target's run by.  An interrupted run is not looked at
\* again, for recovery asks for running ones and the reconciler takes the status
\* for unknown; nor is one whose lease had not lapsed when the daemon started.
Stranded ==
  /\ runId # None
  /\ startup = "done"
  /\ \/ runRow[runId] = "interrupted"
     \/ runRow[runId] = "running" /\ runner[runId] = "none"

\* No target stays "running" for good, stranded ones apart: not when the outcome
\* arrives before run_started has been committed and is refused, not when it was
\* emitted to a daemon that died, not when nobody knows a run.
RunningTargetSettles == target = "running" ~> target # "running" \/ Stranded
=============================================================================

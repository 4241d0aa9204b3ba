------------------------------ MODULE MCDaemon ------------------------------
(***************************************************************************)
(* The daemon's side of the system for TLC, with the documents and the     *)
(* database it works on.  Components that share no variable are checked in *)
(* one run: which of them a behaviour is about is chosen at its start, and *)
(* the others rest in their initial states.                                *)
(***************************************************************************)
EXTENDS ControlRaces, Outbox, Dispatch, TickLoop,
        WorkflowGraph, WorkflowFiles, Migrations, PostgresStore

CONSTANTS k1, t1, d1, drain1, drain2, s1, pr1, pr2, su1, su2, o1, o2, o3, c1, c2, g1, g2

VARIABLE part

OneTicketOf == [t \in Target |-> k1]
NoDeps == [t \in Target |-> {}]

\* All rows of the outbox write to one issue.
SameIssue == [i \in Row |-> s1]

\* What the runner, recovery and the resume pass to updateRun: nothing, a
\* status, or a status and one key of the metadata; and one key alone.
PatchOf(s, keys) == [status |-> s, meta |-> [k \in Key |-> IF k \in keys THEN "set" ELSE Absent]]
SomePatches ==
  {NoPatch, PatchOf("running", {}), PatchOf("paused", {"approval"}),
   PatchOf("completed", {"cancel_reason"}), PatchOf(Absent, {"approval"})}

\* The start of an attempt, with and without its safety class, its two ends, and
\* a bare status.
WriteOf(s, a, o, e) ==
  [status |-> s, attempt |-> a, output |-> o, error |-> Absent, effects |-> e, started |-> s]
SomeWrites ==
  {WriteOf("running", Absent, Absent, "at_most_once"), WriteOf("running", Absent, Absent, Absent),
   WriteOf("completed", "1", "text", Absent), WriteOf("failed", "2", "", Absent)}

restVars == <<graphVars, fileVars, migrationVars, postgresVars>>
daemonRunVars == <<part, allVars, outboxVars, dispatchVars, tickVars, restVars>>

DaemonInit ==
  /\ part \in {"races", "outbox", "dispatch", "tick", "graph", "files", "schema",
              "run row", "node row", "gates"}
  /\ RaceInit /\ OutboxInit /\ DispatchInit /\ TickInit
  /\ GraphInit /\ FilesInit /\ MigrationInit /\ PostgresInit
  /\ part # "races" => \A k \in Ticket : ~blocked[k]
  /\ part # "files" => \A root \in Root : file[root] = "absent"
  /\ part # "schema" => ledger = {} /\ \A p \in Opener : build[p] = Version

RestNext ==
  \/ /\ part = "graph" /\ GraphNext
     /\ UNCHANGED <<fileVars, migrationVars, postgresVars>>
  \/ /\ part = "files" /\ FilesNext
     /\ UNCHANGED <<graphVars, migrationVars, postgresVars>>
  \/ /\ part = "schema" /\ MigrationNext
     /\ UNCHANGED <<graphVars, fileVars, postgresVars>>
  \/ /\ \/ part = "run row" /\ RunRowStep
        \/ part = "node row" /\ (CreateRun \/ NodeStep)
        \/ part = "gates" /\ (CreateRun \/ GateStep)
     /\ UNCHANGED <<graphVars, fileVars, migrationVars>>

DaemonNext ==
  \/ /\ part = "races" /\ RaceNext
     /\ UNCHANGED <<part, outboxVars, dispatchVars, tickVars, restVars>>
  \/ /\ part = "outbox" /\ OutboxNext
     /\ UNCHANGED <<part, allVars, dispatchVars, tickVars, restVars>>
  \/ /\ part = "dispatch" /\ DispatchNext
     /\ UNCHANGED <<part, allVars, outboxVars, tickVars, restVars>>
  \/ /\ part = "tick" /\ TickNext
     /\ UNCHANGED <<part, allVars, outboxVars, dispatchVars, restVars>>
  \/ RestNext /\ UNCHANGED <<part, allVars, outboxVars, dispatchVars, tickVars>>

-----------------------------------------------------------------------------
\* OutboxFairness, in the behaviours that are about the outbox.
OutboxFair ==
  /\ \A d \in Drainer : WF_outboxVars(part = "outbox" /\ Drain(d))
  /\ \A i \in Row : WF_outboxVars(part = "outbox" /\ LeaseExpires(i))

\* A launch, a run and its events go on, a daemon that died is started again,
\* and every tick reconciles and requeues.
DispatchFair ==
  /\ \A r \in Run : /\ WF_dispatchVars(part = "dispatch" /\ AttemptStep(r))
                    /\ WF_dispatchVars(part = "dispatch" /\ EngineStep(r))
  /\ WF_dispatchVars(part = "dispatch" /\ StartupStep)
  /\ WF_dispatchVars(part = "dispatch" /\ Hear)
  /\ WF_dispatchVars(part = "dispatch" /\ Reconcile)
  /\ WF_dispatchVars(part = "dispatch" /\ Requeue)

\* A timer fires, and a phase that does not end runs out of its budget.
TickFair ==
  /\ WF_tickVars(part = "tick" /\ TimerFires)
  /\ WF_tickVars(part = "tick" /\ Abandon)

DaemonSpec ==
  DaemonInit /\ [][DaemonNext]_daemonRunVars /\ OutboxFair /\ DispatchFair /\ TickFair

-----------------------------------------------------------------------------
\* Every variable of the components has its type, in every state; the variables
\* of a component that rests keep the values they have when it begins.
DaemonTypeOK ==
  CASE part = "races" -> TypeOK
    [] part = "outbox" -> OutboxTypeOK
    [] part = "dispatch" -> DispatchTypeOK
    [] part = "tick" -> TickTypeOK
    [] part = "graph" -> GraphTypeOK
    [] part = "files" -> FilesTypeOK
    [] part = "schema" -> MigrationTypeOK
    [] OTHER -> StoreTypeOK

\* In the behaviours that are about the timer loop, every phase comes round
\* (TickLoop); in the others the loop rests.
PhasesComeRound == part = "tick" => EveryPhaseComesRound
=============================================================================

# Verification of GaggleDispatch

TLA+ models of the parts of GaggleDispatch that decide what runs, when, and what survives a
crash; TLC configurations that check them on small instances; and proofs, checked by TLAPS, of
the invariants that matter most for every value of the constants. `PROJECT.json` holds the
machine-readable index: components, runs, the map from every definition to the lines it
translates, hazards, findings and theorems.

To check: `tlc -config X.cfg M` for a run (the table below says which module), `tlapm M.tla` for a
proof module.

## The system

GaggleDispatch takes issues from a tracker (Linear), fans each one out to the repositories it
touches, runs a workflow per repository, and reports back. Components, the state each keeps, and
how they meet:

| Component (source) | State | Operations | Meets |
|---|---|---|---|
| Control plane (`control/`: `transitions`, `service`, `reconciler`, `readiness`) | `tickets`, `ticket_targets` rows | operator requests; executor events; the daemon's tick: claims, sweeps, gate answers, cancel requests; startup recovery | every state change is a transaction on Postgres; other processes share the rows |
| Outbox (`control/outbox.ts`) | `tracker_outbox` rows | enqueue in the deciding transaction; discard, claim, send, mark | drained by every daemon's tick |
| Ticket sync (`control/sync.ts`) | tracker sync window | upsert, external terminal, deployment evidence | writes tickets |
| Adapters (`control/adapters/`) | a handle per target | spawn, resume, cancel; translate run events; open sub-issues and blockers | control plane on one side, engine and tracker on the other |
| Engine (`executor/engine/`) | `workflow_runs`, `workflow_run_nodes`, `workflow_approvals`, leases; the runner's memory | start, plan, run nodes, park at a gate, answer, cancel, suspend, recover | processes share the rows; the lease arbitrates |
| Engine store (`executor/store/`) | those rows | one call per operation; in memory or on Postgres | every process of the machine is a client |
| Node execution (`executor/engine/nodes/`) | attempts, child processes, saved loop iterations | run, retry, time out, kill | called by the runner |
| Workflow documents (`executor/engine/loader`, `validate`, `conditions`; `cli/templates-default`) | files in two search roots | load, validate, hash | read again at every resume |
| Tick loop, merge watcher (`orchestrator/`) | the timer, the running phase; nothing of an issue | phases under budgets; close an issue whose pull requests are merged | calls the reconciler and the outbox; a phase past its budget runs on |
| Registry and repository syncer (`registry/`, `util/lock.ts`) | checkouts, the synced registry, lock files, what the loader last read | sync pass, reload | processes share the file system; the analyzer reads the context |
| Hub (`hub/`) | a record per workspace: child, timer, status; sidecar files | start, adopt, stop, restart | starts daemons |
| Tracker client (`tracker/`) | OAuth tokens in memory and in `auth.json` | call, refresh, retry after a 401, login | called by sync and outbox; processes share the token file |
| Schema (`store/migrate.ts`) | `schema_migrations`, an advisory lock | bring a database up to date | every process that opens it |

What is hard in it: several daemons may share a workspace; a sweep lists rows in one statement
and updates them in another; an operator, a run's event and the daemon's tick meet on one target;
a daemon dies between a claim and the run it claimed for; a run parks for days at a gate and is
resumed by another process from its rows; an `at_most_once` node must not run twice; a tracker
write must be sent though its answer may be lost; two sync passes write what they were told at
different times; a timer, an exit handler or a callback outlives the thing it was made for; three
processes migrate an empty database at once.

## The modules

| Module | Models | Source |
|---|---|---|
| `ControlTypes` | statuses and their groups, `settleTicketStatus` | `control/types.ts` |
| `ControlPlane` | tickets, targets, operators, executor events, the daemon's tick and recovery; one action per transaction | `control/transitions.ts`, `service.ts`, `reconciler.ts`, `readiness.ts`, `store/` |
| `ControlRaces` | the same with the sweeps, recovery, the readiness pass and the cancelling transaction split into their reads and their writes | `reconciler.ts`, `service.ts` |
| `TrackerWrites` | abstract: what is promised of a tracker write | `control/outbox.ts` |
| `Outbox` | rows, leases, concurrent drains, a tracker that may answer or not; implements `TrackerWrites` | `control/outbox.ts`, `control/store/` |
| `Planner` | trigger rules, ready and skipped nodes, outcome of a run; pure operators | `executor/engine/planner.ts` |
| `RunEngine` | one workflow run: run loop, nodes in flight, gates, lease, cancel, suspend, recovery | `executor/engine/runner.ts`, `index.ts`, `recovery.ts`, `executor/store/` |
| `Dispatch` | one target and the runs its attempts start: launch, handle, events that arrive late, kill, answers, a daemon that dies in between | `control/adapters/executor.ts`, `orchestrator/worker.ts`, `control/reconciler.ts` |
| `TickLoop` | the timer loop, its budgets and abandoned phases; the merge watcher call by call | `orchestrator/orchestrator.ts`, `pr-merge-watcher.ts` |
| `TicketSync` | an issue, its ticket, the sub-issue the reconciler opens, overlapping passes | `control/sync.ts`, `adapters/linear.ts` |
| `RegistrySync` | one repository: branch, checkout, registry entry, lock; two syncing processes; the loader's reloads | `registry/`, `util/lock.ts` |
| `TrackerAccess` | calls, 401 and the one retry, the shared refresh, the token file, the login | `tracker/linear.ts`, `linear-auth.ts`, `auth-store.ts` |
| `HubProcesses` | one workspace: records, daemons spawned or adopted, sidecar, restart timer | `hub/process-manager.ts`, `sidecar.ts` |
| `NodeAttempts` | one node from inside: retries, process tree, timeouts, model calls, loop iterations | `executor/engine/nodes/`, `runner.ts` |
| `DocumentGraph` | what the validator's two searches find, said without the search: cycles, ancestors | `executor/engine/validate.ts` |
| `GraphChecks` | the searches as they are written, compared with `DocumentGraph` | `executor/engine/validate.ts` |
| `WorkflowGraph` | documents of up to `DocumentNodes` nodes: accepted or refused, and what the plan loop does with them | `executor/engine/validate.ts`, `conditions.ts`, `runner.ts` |
| `WorkflowFiles` | a workflow's files edited, broken and removed under its run | `executor/engine/loader.ts`, `index.ts` |
| `DefaultWorkflows` | the three workflows `gaggle init` writes, carried out by `Planner` | `cli/templates-default.ts` |
| `MemoryStore` | abstract: what the engine's store promises; every call is one step | `executor/store/memory.ts` |
| `PostgresStore` | the store statement by statement; implements `MemoryStore` | `executor/store/postgres.ts` |
| `Migrations` | processes of this build and of the one before that open one database | `store/migrate.ts`, `migrations.ts` |
| `MCControlPlane`, `MCOutbox`, `MCRunEngine` | instances of one module for TLC | |
| `MCDaemon`, `MCHost`, `MCIntake` | instances of several: see Runs | |
| `ControlPlane_proofs`, `ControlPlaneSafety_proofs` | theorems about `ControlPlane` and `ControlRaces` | |
| `RunEngine_proofs`, `RunEngineGates_proofs` | about `RunEngine` | |
| `Storage_proofs` | about `PostgresStore`, `Migrations`, `WorkflowFiles`, `WorkflowGraph` | |
| `Daemon_proofs` | about `Outbox`, `Dispatch`, `TickLoop`, `TicketSync`, `MCDaemon` | |
| `Host_proofs` | about `NodeAttempts`, `TrackerAccess`, `MCHost` | |
| `DefaultWorkflows_proofs` | about `DefaultWorkflows` | |

`PROJECT.json` maps each definition to its lines; the header of a module says what it takes as
external.

### Control plane

`tstatus` and `status` are the two status columns; `cancelReq`, `hasRun`, `rework`, `decision` are
columns of the target that a guard reads; `blocked` and `deployed` are what the tracker says;
`phase`, `slots`, `analysing`, `spawning`, `answers`, `answering` are what a daemon remembers between
its statements and loses in a crash. Ghosts are `basis`, whether the recorded answer was given on the
question that is open now, and `ran`, whether some attempt of the row created a run at all: what a run
reports, it can only report when there is one.

A reconcile phase that exceeds its ten minutes is abandoned and not cancelled, and the next tick starts
another (`orchestrator.ts` 199-244). So what a pass has read and not used yet, its count of free slots
(`slots`) and its list of gate answers (`answers`, `answering`), belongs to one of the passes `Pass`
of a daemon. `ReadGateDecisions` lists the answers; each is applied later as it was listed, to the
target as it is then.

`applyTargetEvent` locks the ticket, moves the target, re-settles the ticket and, when it reopens,
promotes what became ready, all in one transaction: that is `Commit`, and every event action uses
it. The sweeps and claims bypass that envelope: they are `Move`, and take the ticket as it is.
The executor is an environment: it may report any outcome for any target at any time, and the
guards of the target machine decide. `ControlPlane` takes the orphan sweep and startup recovery
(`SweepOrphanedTarget`, `RecoverOnStartup`) as one step each, although they list rows and write by id
afterwards. `ControlRaces` keeps every action of `ControlPlane` and replaces the sweeps, recovery, the
readiness pass and the ticket cancellation by a read and separate writes, with anything in between that
the row locks permit (`RespectsLocks`). There a daemon is in one sweep at a time: a sweep that an
abandoned pass goes on with beside its successor's is left out.

### Outbox

A drain is discard, claim of a batch under a lease, then one row after the other: send, then mark
sent or failed. `Send` lets the tracker receive the write and answer, receive it and not answer,
or refuse. `LeaseExpires` may hit a row in the hands of a live drain only when `SlowBatch` is TRUE;
the exclusion result rests on FALSE, which is the claim of `control/store/types.ts` about the lease.

### Engine

An action is what happens between two awaits. `mem`, `at`, `todo`, `stop`, `aborted`, `suspended`,
`answer` are the runner's fields and the progress of its promises; `run`, `row`, `gate`, `lease`
are rows. A node's status is set in memory before its row is written, as in `record()`, so the
planner may be ahead of the store; the order of statements in `dispatch`, `executeApproval`,
`recoverInterruptedRuns` and `decide` is the order of the actions. A crash loses the runner and
leaves its lease to lapse (`DeadProc`, `LeaseLapses`).

Left out of `RunEngine`: what happens inside a node (`NodeAttempts`); outputs, so that a `when` has
a fixed verdict per run (`WorkflowGraph` and `DefaultWorkflows` have them); the workflow's hash
(`WorkflowFiles`); errors of the store inside the run loop; a lease that lapses under a live
process; an answer given through the very process whose runner is still releasing its lease. Processes
answer, recover and resume in any order otherwise. Three ghosts name what goes wrong on the way (see
below), so that the properties can say that nothing else does: `unheeded`, an answer was recorded that no
runner carries out; `overlooked`, recovery passed by the running row of a dead process, whose lease had
not lapsed yet; `everDone`, the nodes whose rows have said completed or skipped at some time, since a
runner built from older rows may write over them.

### Dispatch

`target`, `runId` are columns; `spawn` is where the await chain of an attempt is; `live` and
`listener` are the adapter's handle and the callbacks the runner has; `events` are callbacks that
were fired and whose statements have not run. An attempt and its run have the same number, so that
an event of run 1 that reaches the target while attempt 2 is on is visible. A daemon that starts looks for
running rows without a live lease (`FindExpired`), adopts those it found (`Adopt`), looks at the claim
(`RecoverClaim`), and only then ticks: once, as `cli/start.ts` and `Orchestrator.start` do. `killed` is
a ghost: the runs a daemon was told to stop while it could. A daemon's death takes a run out of it
only when the run's end had not been written: such a run is for recovery like any other. What a run
does inside is `RunEngine`'s subject.

### Tracker side

In `TicketSync` a pass (`progress`) reads the candidates, then the rows, then writes row by row, and keeps
what it read in variables of its own; `Sync` has two because the Sync button and an abandoned tick
may both be on their way. In `TrackerAccess` a token is the number of the grant that minted it, so
that a stale one can be told from a fresh one; `accepted` is what the authorization server still
takes. `TickLoop` follows a poll of the merge watcher from one GitHub call to the next.

### Machine side

`HubProcesses` numbers the records of a workspace, since the callbacks of a replaced one go on with
the record they were made with. `RegistrySync` holds the lock for the one write that the code holds
it for, and lets a pass overwrite the whole registry with what it read at its beginning.
`Migrations` has the advisory lock, the transaction of each owner and the ledger, with tables as the
sets of things that a second `CREATE` would collide with.

### Documents and nodes

`WorkflowGraph` enumerates the documents at `Init` (who depends on whom, unknown names and cycles
included, and the reference of the condition) and runs those that validation accepts. The validator's
searches are recursive, which no module that is proved about may be: `DocumentGraph` says what they find,
and the run `RunEngine_safety` evaluates `GraphChecks`, where the searches as they are written are
compared with it on every document of three nodes. `WorkflowFiles`
keeps, as a ghost, from which revision each completed node was run. `DefaultWorkflows` writes the
three shipped documents as functions `depends_on`, `trigger_rule`, `when`; a prompt is what the later
conditions can tell of its answer, a value of its enum, or an output that is no JSON, and any node may
fail. `NodeAttempts` chooses at `Init` whether the node is a shell script, a model call or a loop; `calls`
counts what the model was asked of a loop, whether the call returned, failed or was cut off, because each
may leave work behind, and `retries` the attempts made because the one before failed.

### Engine store

`MemoryStore` takes each call as one step that leaves its answer in `told`. `PostgresStore` takes a
call of one statement as one step that waits for row locks, and `updateRun` as the transaction it
is: lock, status, metadata, read back, commit, and a client may be gone before the commit. The
refinement says that no client can tell the two apart, by rows or by answers.

## Runs

| Run | Question | Instance and why it is enough |
|---|---|---|
| `ControlPlane_safety` | do tickets and targets stay consistent? | one ticket, two repositories, the second waits for the first to be deployed, one daemon that may crash once: dependency, fan-out replacement, cancel, redispatch, restart all occur. Tickets share nothing but the slots, so one ticket suffices here |
| `ControlPlane_ceiling` | does the count of slots in one statement and the claim in another respect the ceiling? | three independent repositories, one slot, two passes of one daemon, one crash: two passes can bring two runs to life, and a third would break the bound. Operators answer no gate here, since an answer makes no target live; repositories and passes are interchangeable (symmetry) |
| `ControlPlane_live` | is a started ticket ever lost? | the chain without crashes |
| `RunEngine_safety` | who drives a run, what a gate holds, when a run is complete, what a parked run waits for | two processes, an `at_most_once` node beside a gate that may be reworked once, a node behind the gate; one crash, one shutdown and one rework, each two of them in every order (the constraint `TwoTroubles` ends the search where all three have happened); processes are interchangeable (symmetry). Two recoveries, two answers, an answer beside a recovery and beside a lease that is still held all occur |
| `Daemon_components` | the daemon's components, the documents and the database | see below |
| `Host_components` | the processes and runs of one machine | see below |
| `Intake_components` | tickets from the tracker, repositories from GitHub | see below |
| five violations | see "Where code and documentation disagree" | |

The last three runs each hold several components that share no variable. A variable `part`, chosen at
`Init`, says which of them a behaviour is about; the others rest in an initial state. That is the
disjoint union of their state spaces, not their product, and each property is about one part (the
type invariants select by `part`, and a leads-to property whose antecedent holds in a resting component
is guarded by it).

| Run | Part | Instance |
|---|---|---|
| `Daemon` | races | `ControlRaces`, one repository, one daemon, one restart: every sweep, and the cancelling transaction, at statement grain |
| | outbox | two rows of one issue, batches of two, two drains, one death, a budget of two attempts: a row claimed, retried, discarded under a peer |
| | dispatch | two attempts, two callbacks waiting, one daemon death and the start after it: an event of the first attempt can meet the second, and the start may find a run, miss it, or find it too early |
| | tick | one issue, two pull requests, a poll beside an abandoned one: the least with which half an answer can be acted on |
| | graph | every document of three nodes, two at a time: the shortest cycle through an unknown, a skip that propagates, a reference to a node that is no ancestor |
| | files | two answering surfaces, two search roots, two edits, one crash: break and restore, shadow and unshadow, edit between preparing and recording an answer |
| | schema | three openers, each of this build or of the one before, on an empty, an earlier or a pre-merge database, one death |
| | run row, node row, gates | two clients of the store, five patches, four node writes, two gates with one rework: the rows of a run do not depend on each other, so they are three parts |
| `Host` | runs | two gates in one layer (rework is in `RunEngine_safety`) and a cancel node with a condition that joins them; one death, one shutdown that unwinds or times out |
| | nodes | two attempts, two iterations, one death |
| | hub | three records, one hub death: a record is replaced while callbacks of two older ones are due |
| | tracker | two daemons with a call each, three grants, one restart: one refreshes while the other holds the old token |
| | templates | three documents of up to thirty nodes, two nodes at a time, every outcome of every prompt, one failing node |
| `Intake` | sync | two overlapping passes, two moves of people or failures |
| | registry | one readable and one malformed revision, one push, one `gaggle sync` beside the daemon, one fault |

All passing runs are exhaustive within the bounds, whose names begin with `Max` (`MaxRestarts`,
`MaxCrashes`, `MaxShutdowns`, `MaxRows`, `MaxLaunches`, `MaxPending`, `MaxDispatchCrashes`, `MaxMoves`, `MaxPushes`,
`MaxCommands`, `MaxFaults`, `MaxEdits`, `MaxFileCrashes`, `MaxOpenerCrashes`, `MaxReworks`, `MaxCuts`,
`MaxRecords`, `MaxHubCrashes`, `MaxGrants`, `MaxNodeFailures`); `MaxRework`, `MaxRuns`,
`MaxAttempts`, `MaxIterations`, `MaxParallel`, `MaxParallelNodes`, `ParallelNodes` and `BatchSize` are settings of the
program. Deadlock checking is off where something ends for good: a run, a node, a stopped hub, an opened
database, a bound of the environment that is used up.

What the properties say is at each definition; in short:

- control plane: `TicketAgreesWithTargets`, `UnstartedTicketHasNoRun`, `DependenciesRanFirst`,
  `CancelledTicketFlagsItsRuns`, `LiveWithinCeilings` (one ceiling for each pass under way);
  `StartedTicketProgresses`, `CancelledTicketDrains` for its liveness;
- outbox: `OneSenderPerRow`, `BudgetOverrunBounded`, `KeepsPromise` (refinement of `TrackerWrites`),
  `EveryRowResolves`;
- dispatch: `KilledRunStops`, a run the control plane has stopped by its id is not driven on, whoever holds the
  handle by then, nor by a later daemon once its end is written;
  `RunningTargetSettles`, but for the stranded runs named below;
- tick loop: `PhasesComeRound` though phases hang; `ClosedIssueHasLanded`, the watcher closes no issue
  with an unmerged pull request that was attached when it looked;
- intake: `SubIssueIsNoTicket`, `StartedWorkIsLeft`, `BoardCatchesUp`, `ContextCatchesUp`;
- engine: `OneDriver`; `CompletedRunIsWhole`, a run is complete only when every node has been; `UnansweredGateHolds`;
  `ParkedRunHasQuestion` and `RunningRunEnds`, but for an unheeded answer and an overlooked run;
  `LoopBudgetHolds` (a loop's model calls are within its budget, one more for each retry and each death),
  `EveryNodeEnds` inside a node;
- documents: `AcceptedWorkflowRunsThrough`, `TakenBranchHolds`, `OneDocumentPerRun`;
  `CompletedRunDelivers`, a shipped workflow that completes has opened its pull request or says why
  not; `NothingBuiltUnasked`, nothing is built on a plan nobody approved or on questions
  nobody answered, and no pull request is opened for work that waits for another repository;
- machine: `KeepsMemory` (refinement of `MemoryStore`), `EveryoneOpensWholeSchema`,
  `CrashedChildIsReplaced`, `StoredTokenIsAccepted`, `EveryCallEnds`.

The type invariants of `TicketSync` and `RegistrySync` are stated in their modules and are not among a
run's properties.

### Fairness

Control plane: every tick runs every phase (weak fairness of the daemon's steps), a ready target
is claimed if slots keep being free (strong: other targets may take the slot in between), a cancel
request that keeps being claimable is confirmed (strong: the target may be requeued), a running
run ends or parks (nodes have timeouts, runs a deadline). `Cooperative` narrows the world of the
liveness run: no launch is aborted before it has a run, and operators do not exclude and include
for ever. Outbox: a drain runs on every tick, a call ends by its deadline, a lease expires.
Engine: statements return, node bodies end by their timeouts (weak fairness of `RunnerStep`), a lease that
nobody renews lapses, a stopped process is started again; nothing says that it lapses before that.
Dispatch: a launch, a run and its events go on, a daemon that starts goes through its recovery once, and
every tick reconciles and requeues. Tick loop: the timer fires and a phase that does not end runs out of its
budget; that a phase ends by itself is not assumed. Node: timers, bounded waits and model calls come to
an end (`NodeOwnStep`); that a process dies or closes its output is not assumed. Hub: its own
callbacks run (`HubOwnStep`); daemons owe nothing. Tracker client: a call and a refresh have
deadlines; that the endpoint answers is not assumed. Sync: passes go on and come again, and an analysis ends.
Registry: the interval comes round, a begun command ends, the loader polls. Operators, the tracker,
GitHub and a dying process owe nothing anywhere.

### Where code and documentation disagree

Each is a run that TLC must find violated, and a finding in `PROJECT.json` with the quoted line.

- `ControlPlane_gate`: an answer recorded for one question is applied to another.
- `ControlPlane_claim`: a daemon that dies between its claim and its spawn and is started again at once
  passes over its own young claim, and nobody looks at the claim again, though recovery and `service.ts`
  both say that the startup sweep returns it.
- `Outbox_order`: a retried older state lands on a newer one, though the claim is "oldest first".
- `RunEngine_gate`: a rejected gate is recorded `completed` before the run is stopped, and a
  sibling that finishes in between lets the node behind it start.
- `RunEngine_once`: recovery that dies between marking nodes and raising the gate loses the
  question, and the `at_most_once` node runs again unasked.

Others were met while modelling and have no run of their own; most of them are visible in the models
as a disjunct, an exception or an assumption.

Control plane:
- startup recovery reopens the analysis of a ticket cancelled since it was listed, and requeues a peer's
  older claim, which is then spawned twice; a cancellation that read its targets before a claim misses
  the claimed one;
- the orphan sweep writes `ready` by id over whatever became of the row it listed: a target that failed or
  was excluded in between is back in the queue, and so is, with a second daemon or an abandoned pass
  beside it, one that succeeded, which `control/types.ts:54` calls terminal;
- the configured ceiling is kept by one pass at a time. Two daemons, or an abandoned reconcile phase and
  its successor in one daemon, count before either claims, though the comment at
  `control/adapters/analyzer.ts:98` says that it holds across two daemons;
- a cancel at a gate leaves the tracker's issue in the gate state and its labels to the mirror
  (`transitions.ts:463`), and so do the orphan sweep and the requeue.

Runs and gates:
- a run that is interrupted and whose resume is refused or cut off is looked at by nobody again and its
  target stays live (`Dispatch!Stranded`);
- recovery looks once, when a daemon starts, at running rows whose lease has lapsed. A daemon that died and
  was started again before its lease lapsed finds nothing, later ticks do not look, and the run stays
  `running` with nobody to drive it (`overlooked` in `RunEngine`, `Stranded` in `Dispatch`).
  `orchestrator.ts:161-170` and `engine/index.ts:428-431` say why a graceful stop avoids this; a death
  does not;
- an answer is recorded before its run is launched. If the process dies in between, or another process still
  holds the lease of the run it has just parked, the run stays paused and there is nothing left to
  answer (`unheeded`), which is what `engine/index.ts:342-346` sets out to avoid;
- two recoveries that listed one run resume it one after the other; the second builds its runner from the rows
  it read before the first one's work landed, and nodes that completed run again, although `hydrate`
  "skips work that already landed" (`runner.ts:244`);
- a lease is released by the name of the process: a runner of a process that ends late drops the lease of a
  newer runner of that process;
- a rework prompt that is cancelled parks the run again instead of ending it; two gates of one layer
  may both insert and one node fails;
- a run parked at a gate has neither deadline nor cancel; an interactive loop parked at its last
  iteration fails when it is approved; a shell process that exits just before its timeout counts as
  timed out; `shell.ts:151` listens for an abort without asking whether it has happened;
- `workflow_hash` keeps its first value, a forced resume included. (`opts.force` would mix two revisions in one
  run; nothing in the repository passes it, and `WorkflowFiles!PrepareResume` leaves it out.)

Workflows:
- `conditions.ts` says it fails closed, but a reference to a node that was skipped compares as `""`, so
  that `!=` holds, and `< 5` takes it for 0; a reference to a node that is not upstream is a warning;
- `templates-default.ts:144` promises that GaggleDispatch detects `blocker-request.md`, creates the
  upstream issue and restarts; no code reads the file. A run whose blocker gate is approved completes
  without a pull request and its target counts as succeeded (the exception in `CompletedRunDelivers`);
- the plan gate says that after three revisions "the workflow proceeds automatically"; the engine
  cancels the run, and the control plane fails the target after three;
- an evaluation that is no JSON counts as `""`: the second round of questions is skipped, and an
  unparsable classification means "plan". A reviewer that fails, fails the run although its pull
  request is open.

Around the daemon:
- `cli/start.ts` reads the registry's context right after starting the loader, whose first reload is not
  awaited;
- `repo-syncer.ts:87` resets the checkout hard; `SPEC_SYMPHONY.md:1515` demands `--ff-only`, and
  `README.md:571` claims it. A sync pass overwrites the whole registry with what it read at its start;
- `auth-store.ts` calls its write of the token file atomic; it renames nothing and writes the real file in
  place. Under rotation a process that holds an older refresh token is locked out until it restarts;
- the candidate query stops at a hundred issues (`linear.ts:200`); a blocker whose relation cannot be set
  blocks nobody (`adapters/linear.ts:73`);
- an adopted daemon's death goes unnoticed by the hub (`process-manager.ts:74`).

## Proofs

Every safety property of the passing runs, invariants and action properties both, is a theorem for
every value of the constants that satisfies the named assumptions (`ControlAssumption`,
`OutboxAssumption`, `PlannerAssumption`, `EngineAssumption`, `StoreAssumption`, `FilesAssumption`,
`MigrationsAssumption`, `DispatchAssumption`, `SyncAssumption`, `NodeAssumption`, `TrackerAssumption`,
`TemplateAssumption`, `GraphAssumption`, `HubAssumption`: counters are natural numbers, "nobody" is
nobody, a target depends on siblings) and, where it says so below, a hypothesis of its own.

Types: `TypeCorrect`, `OutboxTypeCorrect`, `EngineTypeCorrect`, `StoreTypes`; `DaemonTypeCorrect` and
`HostTypeCorrect` put the inductive invariants of the components together for the composed
specifications, each of which holds whether its component takes a step or rests.

Control plane:

- `UnstartedCorrect`: `[]UnstartedTicketHasNoRun`. Inductive with `TypeOK`. The work is in the shape
  lemmas: every step moves statuses in one of six ways (`Shape`: a shuffle that disturbs nothing, one
  target through the envelope, a start, a cancellation, a replacement of the fan-out, a redispatch),
  so that each invariant needs one case per shape and not one per action.
- `RaceUnstartedCorrect`: the same at the grain of statements (`ControlRaces`), for one daemon. A sweep
  writes by id what it decided on earlier; `PassFits` says of what is pending that its ticket was
  started, or, when an analysis is reopened, is halted with nothing queued. With two daemons it is
  false: one lists an analysis in progress, the other finishes it, the ticket is started and its target
  claimed, and the first sets the ticket back to `analysis_requested`.
  One daemon cannot, since operators start only analysed tickets and only a daemon finishes an analysis
  (`OperatorHalted`).
- `DependenciesCorrect`: `[]DependenciesRanFirst`, from `StepLegal`: a target enters the statuses that
  mean "ran or may run" only when what it depends on has succeeded, and no step takes a success back
  short of replacing the ticket's whole fan-out.
- `AgreementCorrect`: `[]TicketAgreesWithTargets`. Needs `UnstartedTicketHasNoRun`: `Start` makes a
  ticket `running` and would not agree if a target had already run.
- `CancellationCorrect`: `[]CancelledTicketFlagsItsRuns`; `FlagKept` says a cancel flag goes only
  with a step that settles its target.
- `CeilingCorrect`: `[]LiveWithinCeilings`, for any number of daemons and of passes in each. Needs
  `SlotsAreFree`: what is live and what the passes have counted and not spent is together at most one
  ceiling for each pass, since only claims make a target live (`NoneGoesLive`) and a claim spends what its
  own pass counted. For one daemon and one pass that is the configured ceiling; for more, the configured
  ceiling itself is broken, as said above.

Outbox, dispatch, tick loop, sync:

- `PromiseKept`: `Outbox` implements `TrackerWrites` under the refinement mapping. Needs `InHand`:
  what a drain marks as sent is what reached the tracker.
- `ExclusionCorrect`: one sender per row, assuming `SlowBatch = FALSE`; strengthened by the fact that
  what a drain holds is leased.
- `BudgetCorrect`: `[]BudgetOverrunBounded`, for finitely many drains and without any assumption about
  leases. The invariant `SpentAndPending` counts: the attempts spent and the drains that may still
  record one before they look at the budget again (`MayFail`) are together at most the ceiling.
- `KilledRunStopsCorrect`: `[]KilledRunStops`. `KilledIsSettled`: what was killed has been launched, and
  its row is final or will be made so by the runner that is ending; `UnlaunchedIsUnknown`: nobody has
  the number of a run that is still being launched. A daemon's death keeps what is final in `killed`, and
  recovery finds only rows that say running.
- `ClosedIssueHasLandedCorrect`: what a poll has asked GitHub about and not given up on is merged.
- `SubIssueIsNoTicketCorrect`: rests on the order of two reads, the candidates and then the rows
  (`SeenSubIsKnown`): a pass that was told of the sub-issue loads rows that have its ticket.
  `StartedWorkIsLeftCorrect`: the guard of `applyExternalState` is on the row and not on what the pass
  has loaded.

Engine:

- `OneDriverCorrect`: `[]OneDriver`, for any graph and any number of processes. `OneDriver` is not
  inductive; `Owned` is: whoever drives the run owns the lease (`OwnerDrives`), and nodes are in
  flight only in a runner at work (`InFlightDriven`), so that no step of a node can follow the loss
  of the lease. It rests on what the model leaves out: a
  lease that lapses under a process that is alive and slow.
- `UnansweredGateCorrect`: `[]UnansweredGateHolds`. `GateInv` follows a gate's `completed` back to an
  answer: in a runner's memory, in the rows another runner hydrates from, and in the decision a
  runner was launched with. `Effect` says the little that any step may do to the three; the
  decision being recorded is for the gate it was read from because gates are numbered. It assumes
  that no approval node is marked `at_most_once`, so that an answer to recovery's synthetic gate
  covers no gate; the loader does not refuse such a workflow (`loader.ts:233`), and for one the
  theorem says nothing: `takeDecisionFor` would take that answer for the gate's own.
- `CompletedRunCorrect`: `[]CompletedRunIsWhole`, for any processes, crashes and overlapping recoveries.
  `DoneInv`: what a row says is done has been done at some time (`RowsDone`), and what a runner takes for
  done has been, or its row is being written (`MemDone`); the run is finalized when nothing is in flight.
  It does not say that the rows together show it at that moment, which is false.
- `ParkedRunCorrect`: `[]ParkedRunHasQuestion`, for any graph, processes, shutdowns and crashes.
  `ParkingAsked`: a runner or a recovery that has decided to park the run has raised its question or found
  one, and no step takes a question away without making it an answer that some process carries, or that
  is `unheeded` from then on.

Nodes and tokens:

- `LoopBudgetCorrect`: `Accounted`, a call of the model has its row, or was followed by a retry or a death,
  or is the last one (`LastCall`), and that one was made with budget left.
- `StoredTokenCorrect`: `ReplyIsOwn`, an answer on its way is known to nobody but its receiver, so that
  nobody can have spent what it carries.

Documents:

- `RunsThroughCorrect`: `[]AcceptedWorkflowRunsThrough`, for documents of any number of nodes. Were the
  loop stuck, the nodes that are open and not startable would each wait for another of them: a cycle,
  which the validator refuses (`SomethingOpen`).
- `TakenBranchCorrect`: `[]TakenBranchHolds`. A condition may refer to an ancestor only, and the nodes
  whose dependencies have all settled form a closed set (`QuestionSettled`): so what it referred to had
  settled when it was judged, and what has settled stays (`JudgedForGood`).
- `NothingUnaskedCorrect` and `DeliversCorrect`, for any number of nodes at a time and of failures. The
  invariant is that a node ran only if it is due, and was skipped only if it is not, in terms of the state
  as it is now; what completes is then read off the three graphs, part by part.
- `OneDocumentCorrect`: `[]OneDocumentPerRun`, for any number of surfaces, edits and crashes. Needs
  `OwnRunners`: a runner in memory, and one an answer has built and not used, is of the run's revision.

Stores:

- `PostgresKeepsMemory`: `PostgresStore` implements `MemoryStore`. Needs `StoreInv`: who has the row
  lock is the one transaction that has a draft, and the draft is the committed row with the part of the
  patch that has been written; then the commit is `updateRun` on the row as it is at that moment
  (`TwoUpdatesArePatch`), and the statements before it stutter.
- `WholeSchemaCorrect`: `[]EveryoneOpensWholeSchema`, for any number of processes. Needs
  `TablesMatch` (the tables are those the ledger says) and `WorksFromLedger` (the applied set a process
  works from was read inside the lock); `PendingApplies` is about the migrations themselves: each
  creates what is not there and finds what it refers to.

Only model-checked:

- liveness, which is out of the prover's reach: `StartedTicketProgresses`, `CancelledTicketDrains`,
  `EveryRowResolves`, `RunningTargetSettles`, `PhasesComeRound`, `RunningRunEnds`,
  `EveryNodeEnds`, `CrashedChildIsReplaced`, `EveryCallEnds`, `BoardCatchesUp`, `ContextCatchesUp`;
- that the validator's searches find what `DocumentGraph` says (`GraphChecks`): induction over data;
- the properties of `ControlRaces` for two daemons, which do not hold.

## Not modelled

- Worktrees: `ensureWorktree` has no caller, runs work in the repository's own checkout.
- YAML and variable substitution, the bundled commands' prompts, the agent SDK: data; what later
  decisions can tell of them is modelled.
- HTTP, the dashboard, run history, terminal output: views.
- The mirror of labels and states that transitions put into the outbox (the outbox carries opaque
  writes), titles and labels in ticket sync.
- Scaffold jobs (a row that is read, changed and written back without a lock), adding and removing
  repositories.
- Configuration: its defaults are constants of the models.
- In the engine: errors of the store inside the run loop, a lease that lapses under a live process, token
  counts and sessions.

`PROJECT.json` says for each component what is missing.

## Plan

1. Done: control plane and its statement-grain races, outbox, engine, planner, dispatch, tick loop, sync,
   registry, hub, token refresh, node attempts, documents, shipped workflows, engine store, migrations;
   a theorem for each safety property of the passing runs.
2. Theorems next: the other invariants of `ControlPlane` at statement grain, where they hold;
   `OneDriverCorrect` for a model in which a lease may lapse under a live process.
3. `TrackerMirror`: the labels and states each transition enqueues, against what the board shows in the
   end; scaffold jobs; the analyzer's routing of targets to repositories.
4. Engine: errors of the store inside the run loop.

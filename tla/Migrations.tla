----------------------------- MODULE Migrations -----------------------------
(***************************************************************************)
(* Bringing one database up to date.  Every process that opens it, daemon, *)
(* hub or command, applies what it finds missing of the migrations its     *)
(* build knows; nest start launches them together on an empty database,    *)
(* and any of them may die half-way.                                       *)
(***************************************************************************)
EXTENDS Naturals, FiniteSets

CONSTANTS
  Opener,          \* processes that open the database
  MaxOpenerCrashes \* bound

Nobody == "nobody"

ASSUME MigrationsAssumption == MaxOpenerCrashes \in Nat /\ Nobody \notin Opener

Ledger == "schema_migrations"

\* What each owner's migrations create.  An added column counts as a creation;
\* an index IF NOT EXISTS creates nothing that could collide.
EngineCreates == [v \in {1, 2, 4} |->
  CASE v = 1 -> {"workflow_runs", "workflow_run_nodes", "workflow_run_loop_iterations",
                 "workflow_run_events", "workflow_approvals", "worktrees"}
    [] v = 2 -> {"workflow_runs.external_key", "issue_analyses", "synced_repos", "registry_meta"}
    [] v = 4 -> {}]

ControlCreates == [v \in {100} |->
  {"tickets", "ticket_targets", "control_events", "tracker_outbox", "scaffold_jobs"}]

HubCreates == [v \in {200} |-> {"hub_workspaces", "hub_log_events", "hub_token_daily"}]

\* ALL_MIGRATIONS, in version order.
Version == {1, 2, 4, 100, 200}
Creates(v) == IF v < 100 THEN EngineCreates[v]
              ELSE IF v < 200 THEN ControlCreates[v] ELSE HubCreates[v]

\* Tables of other migrations that a migration alters or refers to.
Needs(v) == IF v \in {2, 4} THEN {"workflow_runs"} ELSE {}

CreatedBy(versions) == UNION {Creates(v) : v \in versions}

\* A database a pre-merge build has migrated: version 3 made tables that others
\* own now.
PreMerge == 3
PreMergeTables == CreatedBy({1, 2}) \cup {"scaffold_jobs", "hub_workspaces", "hub_token_daily"}

\* This build, and the one before version 4.
Build == {Version, Version \ {4}}

VARIABLES
  ledger,   \* schema_migrations, committed
  tables,   \* tables and columns, committed
  lock,     \* holder of the advisory lock
  build,    \* what each process knows
  at,       \* where each process is
  have,     \* the applied set it has read
  done,     \* what its transaction has applied
  crashed   \* deaths so far

migrationVars == <<ledger, tables, lock, build, at, have, done, crashed>>

MigrationTypeOK ==
  /\ ledger \subseteq Version \cup {PreMerge}
  /\ tables \subseteq CreatedBy(Version) \cup {Ledger}
  /\ lock \in Opener \cup {Nobody}
  /\ build \in [Opener -> Build]
  /\ at \in [Opener -> {"closed", "checked", "locked", "applying", "open", "refused", "failed"}]
  /\ have \in [Opener -> SUBSET (Version \cup {PreMerge})]
  /\ done \in [Opener -> SUBSET Version]
  /\ crashed \in 0..MaxOpenerCrashes

\* Empty, left by an earlier build, or by a pre-merge one.
MigrationInit ==
  /\ \/ ledger = {} /\ tables = {}
     \/ /\ ledger \in {{1, 2}, Version \ {4}}
        /\ tables = CreatedBy(ledger) \cup {Ledger}
     \/ ledger = {1, 2, PreMerge} /\ tables = PreMergeTables \cup {Ledger}
  /\ lock = Nobody
  /\ build \in [Opener -> Build]
  /\ at = [p \in Opener |-> "closed"]
  /\ have = [p \in Opener |-> {}]
  /\ done = [p \in Opener |-> {}]
  /\ crashed = 0

-----------------------------------------------------------------------------
Goes(p, from, to) == at[p] = from /\ at' = [at EXCEPT ![p] = to]

\* assertNotPreMergeEngineSchema, before the lock and outside the transaction.
AssertNotPreMerge(p) ==
  /\ IF PreMerge \in ledger THEN Goes(p, "closed", "refused") ELSE Goes(p, "closed", "checked")
  /\ UNCHANGED <<ledger, tables, lock, build, have, done, crashed>>

\* Mutant of TakeLock: nobody waits for a lock.
TakeNoLock(p) ==
  /\ Goes(p, "checked", "locked")
  /\ UNCHANGED <<ledger, tables, lock, build, have, done, crashed>>

\* pg_advisory_xact_lock
TakeLock(p) ==
  /\ lock = Nobody
  /\ lock' = p
  /\ Goes(p, "checked", "locked")
  /\ UNCHANGED <<ledger, tables, build, have, done, crashed>>

\* The bookkeeping table, and the applied set, inside the lock.
ReadApplied(p) ==
  /\ Goes(p, "locked", "applying")
  /\ have' = [have EXCEPT ![p] = ledger]
  /\ UNCHANGED <<ledger, tables, lock, build, done, crashed>>

Pending(p) == build[p] \ (have[p] \cup done[p])

\* The transaction is over, one way or the other, and the lock with it.
Ends(p, to) ==
  /\ Goes(p, "applying", to)
  /\ lock' = Nobody
  /\ done' = [done EXCEPT ![p] = {}]

\* The next pending migration; a table that exists, or one that does not, fails
\* the whole transaction.
Apply(p) ==
  /\ at[p] = "applying"
  /\ \E v \in Pending(p) :
       /\ \A w \in Pending(p) : v <= w
       /\ LET visible == tables \cup CreatedBy(done[p])
          IN IF Creates(v) \cap visible = {} /\ Needs(v) \subseteq visible
             THEN done' = [done EXCEPT ![p] = @ \cup {v}] /\ UNCHANGED <<at, lock>>
             ELSE Ends(p, "failed")
  /\ UNCHANGED <<ledger, tables, build, have, crashed>>

CommitSchema(p) ==
  /\ Pending(p) = {}
  /\ ledger' = ledger \cup done[p]
  /\ tables' = tables \cup CreatedBy(done[p]) \cup {Ledger}
  /\ Ends(p, "open")
  /\ UNCHANGED <<build, have, crashed>>

\* A process dies, rolls back what it has not committed, and is started again,
\* perhaps with the other build.
Die(p) ==
  /\ crashed < MaxOpenerCrashes
  /\ crashed' = crashed + 1
  /\ at[p] \notin {"closed", "refused"}
  /\ at' = [at EXCEPT ![p] = "closed"]
  /\ lock' = IF lock = p THEN Nobody ELSE lock
  /\ done' = [done EXCEPT ![p] = {}]
  /\ \E b \in Build : build' = [build EXCEPT ![p] = b]
  /\ UNCHANGED <<ledger, tables, have>>

OpenerStep(p) ==
  AssertNotPreMerge(p) \/ TakeLock(p) \/ ReadApplied(p) \/ Apply(p) \/ CommitSchema(p)

MigrationNext == \E p \in Opener : OpenerStep(p) \/ Die(p)

MigrationSpec == MigrationInit /\ [][MigrationNext]_migrationVars

-----------------------------------------------------------------------------
\* However many processes open the database together, from whatever earlier
\* state and with whatever builds, nobody dies in a CREATE TABLE, and whoever
\* has opened it finds every table its build works with.
EveryoneOpensWholeSchema ==
  \A p \in Opener :
    /\ at[p] # "failed"
    /\ at[p] = "open" => CreatedBy(build[p]) \subseteq tables /\ build[p] \subseteq ledger
=============================================================================

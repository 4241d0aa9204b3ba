----------------------------- MODULE RunEngine -----------------------------
(***************************************************************************)
(* One workflow run of the execution engine: the runner that drives its    *)
(* graph, the approval gates that park it, the lease that says which       *)
(* process may drive it, and the recovery of a run whose process stopped.  *)
(*                                                                         *)
(* A step is what happens between two awaits: one database statement and   *)
(* the code that follows it.  What a runner remembers (mem, stop, answer)  *)
(* is lost with its process; run, row, gate and lease are rows.  A node    *)
(* keeps its new status in memory before the row is written, so the        *)
(* planner can be ahead of the store.                                      *)
(*                                                                         *)
(* Left out: loop nodes, the retry policy of idempotent nodes, outputs and *)
(* sessions (a "when" has a fixed verdict), the workflow's hash, leases    *)
(* that lapse under a process that is still alive, approval nodes marked   *)
(* at_most_once, which the loader does not refuse, and an answer given     *)
(* through a process whose own runner is still releasing the lease: here a *)
(* process has one runner at a time, and the answer comes through another. *)
(***************************************************************************)
EXTENDS Planner, Naturals, FiniteSets

CONSTANTS
  Proc,              \* processes sharing the database
  Gate,              \* approval nodes
  Stopper,           \* cancel nodes
  Unsafe,            \* nodes marked at_most_once
  MaxRework,         \* on_reject.max_attempts of a gate, 0 without on_reject
  Conditional,       \* nodes with a "when" expression
  MaxParallel,       \* max_parallel_nodes
  MaxCrashes,        \* bound: processes killed in one behaviour
  MaxShutdowns,      \* bound: graceful shutdowns in one behaviour
  NoNode,            \* "no node"
  NoProc,            \* "unowned", for the lease
  DeadProc           \* owner of a lease whose process is gone and that has not lapsed

ASSUME EngineAssumption ==
  /\ IsFiniteSet(Node)
  /\ Gate \subseteq Node
  /\ Stopper \subseteq Node
  /\ Unsafe \subseteq Node
  /\ Gate \cap (Stopper \cup Unsafe) = {}
  /\ MaxRework \in [Node -> Nat]
  /\ Conditional \subseteq Node
  /\ MaxParallel \in Nat \ {0}
  /\ MaxCrashes \in Nat
  /\ MaxShutdowns \in Nat
  /\ NoNode \notin Node
  /\ NoProc \notin Proc
  /\ DeadProc \notin Proc \cup {NoProc}

VARIABLES
  run,        \* workflow_runs.status, or "absent"
  lease,      \* workflow_runs.lease_owner
  row,        \* workflow_run_nodes.status, "pending" when there is no row
  gate,       \* the newest workflow_approvals row: number, node, rework count, undecided
  holds,      \* what each node's "when" evaluates to
  pc,         \* where process p is
  mem,        \* runner.states
  at,         \* how far the dispatch of a node in flight has come
  todo,       \* the plan being carried out: nodes to skip, nodes to start
  stop,       \* runner.stopped
  aborted,    \* runner.abort has fired
  suspended,  \* runner.suspended
  answer,     \* runner.pendingDecision, with the number of its gate
  tries,      \* rework_attempts of the gate being reworked
  found,      \* unsafe nodes that recovery found interrupted
  said,       \* ghost: the last answer to a gate of this node
  everDone,   \* ghost: nodes whose rows have said completed or skipped
  unheeded,   \* ghost: an answer was recorded that no runner carries out
  overlooked, \* ghost: recovery has passed by the running row of a dead process
  crashes,
  shutdowns

dbVars == <<run, lease, row, gate>>
runnerVars == <<mem, at, todo, stop, aborted, suspended, answer, tries>>
ghostVars == <<everDone, unheeded, overlooked>>
boundVars == <<crashes, shutdowns>>
vars == <<run, lease, row, gate, holds, pc, mem, at, todo, stop, aborted,
          suspended, answer, tries, found, said, everDone, unheeded, overlooked,
          crashes, shutdowns>>

Terminal == {"completed", "failed", "cancelled"}
RunStatus == {"absent", "pending", "running", "paused", "interrupted"} \cup Terminal
Verdict == {"approved", "rejected"}

\* A runner exists: GaggleExecutor.active has an entry for the run.
Active == {"launching", "starting", "planning", "skipping", "waiting", "draining", "releasing"}
\* The process has acquired the lease and writes the run's rows.
Driving == (Active \ {"launching"}) \cup {"marking", "parking", "pausing", "interrupting", "yielding"}

Fresh == [n \in Node |-> "pending"]
Nowhere == [n \in Node |-> "no"]
NoPlan == [skip |-> {}, ready |-> {}]
NoAnswer == [no |-> 0, node |-> NoNode, covers |-> {}, verdict |-> "approved", rework |-> 0]

TypeOK ==
  /\ run \in RunStatus
  /\ lease \in Proc \cup {NoProc, DeadProc}
  /\ row \in [Node -> NodeStatus]
  /\ gate \in [no : Nat, node : Node \cup {NoNode}, rework : Nat, pending : BOOLEAN]
  /\ holds \in [Node -> BOOLEAN]
  /\ pc \in [Proc -> Active \cup Driving \cup
                     {"down", "startup", "reclaiming", "resuming", "idle", "prepared"}]
  /\ mem \in [Proc -> [Node -> NodeStatus \ {"interrupted"}]]
  /\ at \in [Proc -> [Node -> {"no", "starting", "body", "asking", "rework", "reasking",
                               "counting", "saving", "refusing"}]]
  /\ todo \in [Proc -> [skip : SUBSET Node, ready : SUBSET Node]]
  /\ stop \in [Proc -> {"none", "paused", "cancelled"}]
  /\ aborted \in [Proc -> BOOLEAN]
  /\ suspended \in [Proc -> BOOLEAN]
  /\ answer \in [Proc -> [no : Nat, node : Node \cup {NoNode}, covers : SUBSET Node,
                          verdict : Verdict, rework : Nat]]
  /\ tries \in [Proc -> Nat]
  /\ found \in [Proc -> SUBSET Unsafe]
  /\ said \in [Node -> Verdict \cup {"nothing"}]
  /\ everDone \subseteq Node
  /\ unheeded \in BOOLEAN
  /\ overlooked \in BOOLEAN
  /\ crashes \in 0..MaxCrashes
  /\ shutdowns \in 0..MaxShutdowns

Init ==
  /\ run = "absent"
  /\ lease = NoProc
  /\ row = Fresh
  /\ gate = [no |-> 0, node |-> NoNode, rework |-> 0, pending |-> FALSE]
  /\ holds \in {h \in [Node -> BOOLEAN] : \A n \in Node \ Conditional : h[n]}
  /\ pc = [p \in Proc |-> "idle"]
  /\ mem = [p \in Proc |-> Fresh]
  /\ at = [p \in Proc |-> Nowhere]
  /\ todo = [p \in Proc |-> NoPlan]
  /\ stop = [p \in Proc |-> "none"]
  /\ aborted = [p \in Proc |-> FALSE]
  /\ suspended = [p \in Proc |-> FALSE]
  /\ answer = [p \in Proc |-> NoAnswer]
  /\ tries = [p \in Proc |-> 0]
  /\ found = [p \in Proc |-> {}]
  /\ said = [n \in Node |-> "nothing"]
  /\ everDone = {}
  /\ unheeded = FALSE
  /\ overlooked = FALSE
  /\ crashes = 0
  /\ shutdowns = 0

Goto(p, where) == pc' = [pc EXCEPT ![p] = where]

\* The process is done with its runner and comes to be at "where".
Drop(p, where) ==
  /\ Goto(p, where)
  /\ mem' = [mem EXCEPT ![p] = Fresh]
  /\ at' = [at EXCEPT ![p] = Nowhere]
  /\ todo' = [todo EXCEPT ![p] = NoPlan]
  /\ stop' = [stop EXCEPT ![p] = "none"]
  /\ aborted' = [aborted EXCEPT ![p] = FALSE]
  /\ suspended' = [suspended EXCEPT ![p] = FALSE]
  /\ answer' = [answer EXCEPT ![p] = NoAnswer]
  /\ tries' = [tries EXCEPT ![p] = 0]

-----------------------------------------------------------------------------
(* Launching a runner. *)

StartRun(p) ==
  /\ pc[p] = "idle"
  /\ run = "absent"
  /\ run' = "pending"
  /\ Goto(p, "launching")
  /\ UNCHANGED <<lease, row, gate, holds, runnerVars, found, said, ghostVars, boundVars>>

\* Mutant: the lease taken whoever holds it.
AcquireAnyLease(p) ==
  /\ pc[p] = "launching"
  /\ lease' = p
  /\ Goto(p, "starting")
  /\ UNCHANGED <<run, row, gate, holds, runnerVars, found, said, ghostVars, boundVars>>

\* An answer was recorded, and its run is not under way yet.
CarriesAnswer(p) == pc[p] \in {"launching", "starting"} /\ answer[p].node # NoNode

\* Unowned, or already ours; otherwise the runner gives up and leaves the row
\* alone.
AcquireLease(p) ==
  /\ pc[p] = "launching"
  /\ IF lease \in {NoProc, p}
     THEN /\ lease' = p
          /\ Goto(p, "starting")
          /\ UNCHANGED <<runnerVars, unheeded>>
     ELSE /\ Drop(p, "idle")
          /\ unheeded' = (unheeded \/ CarriesAnswer(p))
          /\ UNCHANGED lease
  /\ UNCHANGED <<run, row, gate, holds, found, said, everDone, overlooked, boundVars>>

MarkRunning(p) ==
  /\ pc[p] = "starting"
  /\ run' = "running"
  /\ unheeded' = FALSE
  /\ Goto(p, "planning")
  /\ UNCHANGED <<lease, row, gate, holds, runnerVars, found, said, everDone, overlooked, boundVars>>

-----------------------------------------------------------------------------
(* The run loop. *)

\* Mutant: a node is out of flight while its row is still being written.
InFlightUntilDone(p) == {n \in Node : at[p][n] \notin {"no", "saving"}}

\* A dispatch that has not returned.
InFlight(p) == {n \in Node : at[p][n] # "no"}

\* A plan's ready nodes are started, as many as fit; then the loop waits for
\* a node, goes round again, or is over.
StartNodes(p, ready, skipped) ==
  \E S \in SUBSET ready :
    /\ LET room == IF Cardinality(InFlight(p)) >= MaxParallel
                   THEN 0 ELSE MaxParallel - Cardinality(InFlight(p))
       IN Cardinality(S) = IF Cardinality(ready) <= room THEN Cardinality(ready) ELSE room
    /\ mem' = [mem EXCEPT ![p] = [n \in Node |-> IF n \in S THEN "running" ELSE @[n]]]
    /\ at' = [at EXCEPT ![p] = [n \in Node |-> IF n \in S THEN "starting" ELSE @[n]]]
    /\ Goto(p, IF InFlight(p) \cup S # {} THEN "waiting"
               ELSE IF skipped THEN "planning"
               ELSE "draining")
    /\ todo' = [todo EXCEPT ![p] = NoPlan]

\* stopped is looked at here and nowhere else in the loop.
Plan(p) ==
  /\ pc[p] = "planning"
  /\ LET ready == ReadyNodes(mem[p], holds)
         skip  == SkippedNodes(mem[p], holds)
     IN \/ /\ stop[p] # "none"
           /\ Goto(p, "draining")
           /\ UNCHANGED <<mem, at, todo>>
        \/ /\ stop[p] = "none"
           /\ skip # {}
           /\ todo' = [todo EXCEPT ![p] = [skip |-> skip, ready |-> ready]]
           /\ Goto(p, "skipping")
           /\ UNCHANGED <<mem, at>>
        \/ /\ stop[p] = "none"
           /\ skip = {}
           /\ StartNodes(p, ready, FALSE)
  /\ UNCHANGED <<dbVars, holds, stop, aborted, suspended, answer, tries, found, said, ghostVars,
                 boundVars>>

\* The row of n says how it ended.
Lands(n, status) ==
  everDone' = IF status \in {"completed", "skipped"} THEN everDone \cup {n} ELSE everDone

RecordSkip(p, n) ==
  /\ pc[p] = "skipping"
  /\ n \in todo[p].skip
  /\ mem' = [mem EXCEPT ![p][n] = "skipped"]
  /\ row' = [row EXCEPT ![n] = "skipped"]
  /\ Lands(n, "skipped")
  /\ todo' = [todo EXCEPT ![p].skip = @ \ {n}]
  /\ UNCHANGED <<run, lease, gate, holds, pc, at, stop, aborted, suspended, answer, tries,
                 found, said, unheeded, overlooked, boundVars>>

\* After the skips the plan is carried out as it was made.
StartPlanned(p) ==
  /\ pc[p] = "skipping"
  /\ todo[p].skip = {}
  /\ StartNodes(p, todo[p].ready, TRUE)
  /\ UNCHANGED <<dbVars, holds, stop, aborted, suspended, answer, tries, found, said, ghostVars,
                 boundVars>>

-----------------------------------------------------------------------------
(* A node in flight. *)

\* The dispatch of n is over; the loop, if it waits, goes round again.
Leave(p, n) ==
  /\ at' = [at EXCEPT ![p][n] = "no"]
  /\ pc' = [pc EXCEPT ![p] = IF @ = "waiting" THEN "planning" ELSE @]

\* The body of n returned a status: a suspended runner records nothing,
\* another remembers it and writes the row next.
Conclude(p, n, status, next) ==
  IF suspended[p]
  THEN Leave(p, n) /\ UNCHANGED mem
  ELSE /\ mem' = [mem EXCEPT ![p][n] = status]
       /\ at' = [at EXCEPT ![p][n] = next]
       /\ UNCHANGED pc

\* A pause stops the run whatever stopped it before; the node stays running.
Pause(p, n) ==
  /\ stop' = IF suspended[p] THEN stop ELSE [stop EXCEPT ![p] = "paused"]
  /\ Leave(p, n)

\* Mutant: a decision is taken by whichever node looks first.
CoveredByAny(p, n) == answer[p].node # NoNode

\* takeDecisionFor: the gate's own node, and the nodes recovery asked about.
Covered(p, n) == answer[p].node = n \/ n \in answer[p].covers

\* A decision that covers other nodes too stays for them.
TakeAnswer(p) ==
  answer' = [answer EXCEPT ![p] = IF @.covers = {} THEN NoAnswer ELSE @]

\* The row becomes running, and the body starts.
Begin(p, n) ==
  /\ at[p][n] = "starting"
  /\ row' = [row EXCEPT ![n] = "running"]
  /\ IF n \notin Gate /\ Covered(p, n) THEN TakeAnswer(p) ELSE UNCHANGED answer
  /\ \/ /\ n \notin Gate
        /\ Covered(p, n)
        /\ answer[p].verdict = "rejected"
        /\ Conclude(p, n, "cancelled", "refusing")
     \/ /\ n \in Stopper
        /\ ~(Covered(p, n) /\ answer[p].verdict = "rejected")
        /\ Conclude(p, n, "completed", "refusing")
     \/ /\ n \notin Stopper
        /\ n \in Gate \/ ~(Covered(p, n) /\ answer[p].verdict = "rejected")
        /\ at' = [at EXCEPT ![p][n] = "body"]
        /\ UNCHANGED <<pc, mem>>
  /\ UNCHANGED <<run, lease, gate, holds, todo, stop, aborted, suspended, tries, found,
                 said, ghostVars, boundVars>>

\* A shell, script, prompt or command node ends; an abort may or may not
\* reach it in time.
BodyReturns(p, n) ==
  /\ at[p][n] = "body"
  /\ n \notin Gate
  /\ \/ Conclude(p, n, "completed", "saving")
     \/ Conclude(p, n, "failed", "saving")
     \/ aborted[p] /\ Conclude(p, n, "cancelled", "saving")
  /\ UNCHANGED <<dbVars, holds, todo, stop, aborted, suspended, answer, tries, found, said,
                 ghostVars, boundVars>>

Save(p, n) ==
  /\ at[p][n] = "saving"
  /\ row' = [row EXCEPT ![n] = mem[p][n]]
  /\ Lands(n, mem[p][n])
  /\ Leave(p, n)
  /\ UNCHANGED <<run, lease, gate, holds, mem, todo, stop, aborted, suspended, answer, tries,
                 found, said, unheeded, overlooked, boundVars>>

\* A cancel node, a refused node or a rejected gate: the row first, then the
\* run is stopped and its siblings aborted.
SaveRefusal(p, n) ==
  /\ at[p][n] = "refusing"
  /\ row' = [row EXCEPT ![n] = mem[p][n]]
  /\ Lands(n, mem[p][n])
  /\ stop' = [stop EXCEPT ![p] = "cancelled"]
  /\ aborted' = [aborted EXCEPT ![p] = TRUE]
  /\ Leave(p, n)
  /\ UNCHANGED <<run, lease, gate, holds, mem, todo, suspended, answer, tries, found, said,
                 unheeded, overlooked, boundVars>>

-----------------------------------------------------------------------------
(* Approval nodes. *)

\* No decision for this gate: is one pending already?
AskGate(p, n) ==
  /\ at[p][n] = "body"
  /\ n \in Gate
  /\ ~Covered(p, n)
  /\ IF gate.pending
     THEN Pause(p, n)
     ELSE at' = [at EXCEPT ![p][n] = "asking"] /\ UNCHANGED <<pc, stop>>
  /\ UNCHANGED <<dbVars, holds, mem, todo, aborted, suspended, answer, tries, found, said,
                 ghostVars, boundVars>>

\* The decision made while the run was parked.
ConsumeAnswer(p, n) ==
  /\ at[p][n] = "body"
  /\ n \in Gate
  /\ Covered(p, n)
  /\ TakeAnswer(p)
  /\ \/ /\ answer[p].verdict = "approved"
        /\ Conclude(p, n, "completed", "saving")
        /\ UNCHANGED tries
     \/ /\ answer[p].verdict = "rejected"
        /\ answer[p].rework >= MaxRework[n]
        /\ Conclude(p, n, "completed", "refusing")
        /\ UNCHANGED tries
     \/ /\ answer[p].verdict = "rejected"
        /\ answer[p].rework < MaxRework[n]
        /\ at' = [at EXCEPT ![p][n] = "rework"]
        /\ tries' = [tries EXCEPT ![p] = answer[p].rework]
        /\ UNCHANGED <<pc, mem>>
  /\ UNCHANGED <<dbVars, holds, todo, stop, aborted, suspended, found, said, ghostVars, boundVars>>

\* The rework prompt; only a failure ends the node, a cancelled prompt goes on
\* to ask again.
ReworkReturns(p, n) ==
  /\ at[p][n] = "rework"
  /\ \/ Conclude(p, n, "failed", "saving")
     \/ at' = [at EXCEPT ![p][n] = "reasking"] /\ UNCHANGED <<pc, mem>>
  /\ UNCHANGED <<dbVars, holds, todo, stop, aborted, suspended, answer, tries, found, said,
                 ghostVars, boundVars>>

\* One undecided gate per run, by unique index: a second one throws, and the
\* throw is the node's failure.
CreateApproval(p, n) ==
  /\ at[p][n] \in {"asking", "reasking"}
  /\ \/ /\ gate.pending
        /\ Conclude(p, n, "failed", "saving")
        /\ UNCHANGED <<gate, stop>>
     \/ /\ ~gate.pending
        /\ gate' = [no |-> gate.no + 1, node |-> n, rework |-> 0, pending |-> TRUE]
        /\ UNCHANGED mem
        /\ IF at[p][n] = "asking"
           THEN Pause(p, n)
           ELSE at' = [at EXCEPT ![p][n] = "counting"] /\ UNCHANGED <<pc, stop>>
  /\ UNCHANGED <<run, lease, row, holds, todo, aborted, suspended, answer, tries, found, said,
                 ghostVars, boundVars>>

\* incrementReworkAttempts, one statement at a time.
CountRework(p, n) ==
  /\ at[p][n] = "counting"
  /\ IF gate.rework <= tries[p]
     THEN gate' = [gate EXCEPT !.rework = @ + 1] /\ UNCHANGED <<pc, at, stop>>
     ELSE Pause(p, n) /\ UNCHANGED gate
  /\ UNCHANGED <<run, lease, row, holds, mem, todo, aborted, suspended, answer, tries, found,
                 said, ghostVars, boundVars>>

-----------------------------------------------------------------------------
(* Ending an attempt. *)

\* What the row becomes when stop is s and the runner remembers m.
Outcome(s, m) ==
  CASE s = "paused" -> "paused"
    [] s = "cancelled" -> "cancelled"
    [] s = "none" /\ ~Finished(m) -> "failed"
    [] s = "none" /\ Finished(m) -> IF RunOutcome(m) = "succeeded" THEN "completed"
                                    ELSE RunOutcome(m)

\* Everything in flight has finished; a suspended run keeps its row.
Finalize(p) ==
  /\ pc[p] = "draining"
  /\ InFlight(p) = {}
  /\ run' = IF suspended[p] THEN run ELSE Outcome(stop[p], mem[p])
  /\ Goto(p, "releasing")
  /\ UNCHANGED <<lease, row, gate, holds, runnerVars, found, said, ghostVars, boundVars>>

\* DELETE by owner: the lease goes whichever runner of p holds it.
Released(p) == IF lease = p THEN NoProc ELSE lease

ReleaseLease(p) ==
  /\ pc[p] = "releasing"
  /\ lease' = Released(p)
  /\ Drop(p, IF suspended[p] THEN "down" ELSE "idle")
  /\ UNCHANGED <<run, row, gate, holds, found, said, ghostVars, boundVars>>

\* executor.cancel: the runner if it is here, the row if it is not.
CancelRun(p) ==
  \/ /\ pc[p] \in Active
     /\ stop[p] = "none"
     /\ pc[p] # "releasing"
     /\ stop' = [stop EXCEPT ![p] = "cancelled"]
     /\ aborted' = [aborted EXCEPT ![p] = TRUE]
     /\ UNCHANGED <<dbVars, holds, pc, mem, at, todo, suspended, answer, tries, found, said,
                    ghostVars, boundVars>>
  \/ /\ pc[p] = "idle"
     /\ run \notin Terminal \cup {"absent"}
     /\ run' = "cancelled"
     /\ UNCHANGED <<lease, row, gate, holds, pc, runnerVars, found, said, ghostVars, boundVars>>

-----------------------------------------------------------------------------
(* Answering a gate. *)

\* Mutant: every row is carried over.
HydratedRows == row

\* hydrate: only what completed is carried over.
Hydrated == [n \in Node |-> IF row[n] = "completed" THEN "completed" ELSE "pending"]

\* Mutant: the gate consumed before the runner is built.
PrepareConsumes(p) ==
  /\ pc[p] = "idle"
  /\ run = "paused"
  /\ gate.pending
  /\ gate' = [gate EXCEPT !.pending = FALSE]
  /\ mem' = [mem EXCEPT ![p] = Hydrated]
  /\ \E v \in Verdict :
       answer' = [answer EXCEPT ![p] =
         [no |-> gate.no, node |-> gate.node, rework |-> gate.rework, verdict |-> v, covers |-> {}]]
  /\ Goto(p, "prepared")
  /\ UNCHANGED <<run, lease, row, holds, at, todo, stop, aborted, suspended, tries, found, said,
                 ghostVars, boundVars>>

\* An operator answers a run they saw paused: read the gate, build the runner.
Prepare(p) ==
  /\ pc[p] = "idle"
  /\ run = "paused"
  /\ gate.pending
  /\ mem' = [mem EXCEPT ![p] = Hydrated]
  /\ \E v \in Verdict :
       answer' = [answer EXCEPT ![p] =
         [no |-> gate.no, node |-> gate.node, rework |-> gate.rework, verdict |-> v,
          covers |-> {n \in Unsafe \ {gate.node} : row[n] = "interrupted"}]]
  /\ Goto(p, "prepared")
  /\ UNCHANGED <<dbVars, holds, at, todo, stop, aborted, suspended, tries, found, said, ghostVars,
                 boundVars>>

\* decideApproval by id: the second answer to one gate changes nothing.
Decide(p) ==
  /\ pc[p] = "prepared"
  /\ IF gate.pending /\ gate.no = answer[p].no
     THEN /\ gate' = [gate EXCEPT !.pending = FALSE]
          /\ said' = [said EXCEPT ![gate.node] = answer[p].verdict]
          /\ Goto(p, "launching")
          /\ UNCHANGED runnerVars
     ELSE Drop(p, "idle") /\ UNCHANGED <<gate, said>>
  /\ UNCHANGED <<run, lease, row, holds, found, ghostVars, boundVars>>

-----------------------------------------------------------------------------
(* Processes stop and start; recovery, once per start. *)

Suspend(p) ==
  /\ pc[p] \in Active
  /\ ~suspended[p]
  /\ shutdowns < MaxShutdowns
  /\ suspended' = [suspended EXCEPT ![p] = TRUE]
  /\ stop' = [stop EXCEPT ![p] = "cancelled"]
  /\ aborted' = [aborted EXCEPT ![p] = TRUE]
  /\ shutdowns' = shutdowns + 1
  /\ UNCHANGED <<dbVars, holds, pc, mem, at, todo, answer, tries, found, said, ghostVars, crashes>>

\* A node would not unwind: the lease is released and the process exits.
ShutdownTimesOut(p) ==
  /\ suspended[p]
  /\ \E n \in Node : at[p][n] \in {"body", "rework"}
  /\ lease' = Released(p)
  /\ Drop(p, "down")
  /\ UNCHANGED <<run, row, gate, holds, found, said, ghostVars, boundVars>>

\* A process without a run to suspend just exits.
Exit(p) ==
  /\ pc[p] = "idle"
  /\ shutdowns < MaxShutdowns
  /\ shutdowns' = shutdowns + 1
  /\ Goto(p, "down")
  /\ UNCHANGED <<dbVars, holds, runnerVars, found, said, ghostVars, crashes>>

Crash(p) ==
  /\ pc[p] # "down"
  /\ crashes < MaxCrashes
  /\ crashes' = crashes + 1
  /\ lease' = IF lease = p THEN DeadProc ELSE lease
  /\ Drop(p, "down")
  /\ found' = [found EXCEPT ![p] = {}]
  /\ unheeded' = (unheeded \/ CarriesAnswer(p))
  /\ UNCHANGED <<run, row, gate, holds, said, everDone, overlooked, shutdowns>>

LeaseLapses ==
  /\ lease = DeadProc
  /\ lease' = NoProc
  /\ UNCHANGED <<run, row, gate, holds, pc, runnerVars, found, said, ghostVars, boundVars>>

Restart(p) ==
  /\ pc[p] = "down"
  /\ Goto(p, "startup")
  /\ UNCHANGED <<dbVars, holds, runnerVars, found, said, ghostVars, boundVars>>

\* A run is expired when its row says running and nobody holds a live lease: the
\* lease of a dead process that has not lapsed yet hides its run.
FindExpiredRuns(p) ==
  /\ pc[p] = "startup"
  /\ Goto(p, IF run = "running" /\ lease = NoProc THEN "reclaiming" ELSE "idle")
  /\ overlooked' = (run = "running" /\ lease = DeadProc)
  /\ UNCHANGED <<dbVars, holds, runnerVars, found, said, everDone, unheeded, boundVars>>

ReclaimLease(p) ==
  /\ pc[p] = "reclaiming"
  /\ IF lease \in {NoProc, p}
     THEN lease' = p /\ Goto(p, "marking")
     ELSE Goto(p, "idle") /\ UNCHANGED lease
  /\ UNCHANGED <<run, row, gate, holds, runnerVars, found, said, ghostVars, boundVars>>

MarkRunningNodesInterrupted(p) ==
  /\ pc[p] = "marking"
  /\ row' = [n \in Node |-> IF row[n] = "running" THEN "interrupted" ELSE row[n]]
  /\ found' = [found EXCEPT ![p] = {n \in Unsafe : row[n] = "running"}]
  /\ Goto(p, IF \E n \in Unsafe : row[n] = "running" THEN "parking" ELSE "interrupting")
  /\ UNCHANGED <<run, lease, gate, holds, runnerVars, said, ghostVars, boundVars>>

\* The synthetic gate; a gate that is pending already gets the warning instead.
RaiseGate(p) ==
  /\ pc[p] = "parking"
  /\ \/ gate.pending /\ UNCHANGED gate
     \/ /\ ~gate.pending
        /\ \E n \in found[p] :
             gate' = [no |-> gate.no + 1, node |-> n, rework |-> 0, pending |-> TRUE]
  /\ Goto(p, "pausing")
  /\ UNCHANGED <<run, lease, row, holds, runnerVars, found, said, ghostVars, boundVars>>

\* Mutant: recovery writes the status of a run that it parks, and leaves the one
\* it will resume.
ParksOnly(p) ==
  /\ pc[p] \in {"pausing", "interrupting"}
  /\ run' = IF pc[p] = "pausing" THEN "paused" ELSE run
  /\ Goto(p, "yielding")
  /\ UNCHANGED <<lease, row, gate, holds, runnerVars, found, said, ghostVars, boundVars>>

ParkRun(p) ==
  /\ pc[p] \in {"pausing", "interrupting"}
  /\ run' = IF pc[p] = "pausing" THEN "paused" ELSE "interrupted"
  /\ Goto(p, "yielding")
  /\ UNCHANGED <<lease, row, gate, holds, runnerVars, found, said, ghostVars, boundVars>>

YieldLease(p) ==
  /\ pc[p] = "yielding"
  /\ lease' = Released(p)
  /\ Goto(p, IF found[p] = {} THEN "resuming" ELSE "idle")
  /\ found' = [found EXCEPT ![p] = {}]
  /\ UNCHANGED <<run, row, gate, holds, runnerVars, said, ghostVars, boundVars>>

\* resumeRun refuses to walk past an unanswered gate.
ResumeRun(p) ==
  /\ pc[p] = "resuming"
  /\ IF gate.pending
     THEN Goto(p, "idle") /\ UNCHANGED mem
     ELSE Goto(p, "launching") /\ mem' = [mem EXCEPT ![p] = Hydrated]
  /\ UNCHANGED <<dbVars, holds, at, todo, stop, aborted, suspended, answer, tries, found, said,
                 ghostVars, boundVars>>

-----------------------------------------------------------------------------
NodeStep(p, n) ==
  \/ Begin(p, n)
  \/ BodyReturns(p, n)
  \/ Save(p, n)
  \/ SaveRefusal(p, n)
  \/ AskGate(p, n)
  \/ ConsumeAnswer(p, n)
  \/ ReworkReturns(p, n)
  \/ CreateApproval(p, n)
  \/ CountRework(p, n)

RunnerStep(p) ==
  \/ AcquireLease(p)
  \/ MarkRunning(p)
  \/ Plan(p)
  \/ StartPlanned(p)
  \/ \E n \in Node : RecordSkip(p, n) \/ NodeStep(p, n)
  \/ Finalize(p)
  \/ ReleaseLease(p)

RecoveryStep(p) ==
  \/ FindExpiredRuns(p)
  \/ ReclaimLease(p)
  \/ MarkRunningNodesInterrupted(p)
  \/ RaiseGate(p)
  \/ ParkRun(p)
  \/ YieldLease(p)
  \/ ResumeRun(p)

\* What an operator, the dispatcher or the world does to process p.
OutsideStep(p) ==
  \/ StartRun(p)
  \/ CancelRun(p)
  \/ Prepare(p)
  \/ Suspend(p)
  \/ ShutdownTimesOut(p)
  \/ Exit(p)
  \/ Crash(p)
  \/ Restart(p)

Next ==
  \/ \E p \in Proc : RunnerStep(p) \/ Decide(p) \/ RecoveryStep(p) \/ OutsideStep(p)
  \/ LeaseLapses

Spec == Init /\ [][Next]_vars
-----------------------------------------------------------------------------
(* Safety. *)

\* No two processes drive one run: two answers to a gate, an answer and a
\* recovery, two recoveries, a crash and a peer, whichever comes first.
OneDriver == \A p, q \in Proc : pc[p] \in Driving /\ pc[q] \in Driving => p = q

\* A run is reported completed only when every node of the graph has been
\* completed or skipped and a row has said so, over any number of attempts and
\* however two recoveries run past each other.  (The rows together need not say
\* so at that moment: of two processes that resume the run one after the other,
\* the second does again what the first has done, from the rows it read before.)
CompletedRunIsWhole == run = "completed" => everDone = Node

\* A node that waits for a gate has not started while the gate was never
\* answered: parking, crashes, recovery and resuming do not open a gate.
UnansweredGateHolds ==
  \A n \in Node : \A g \in DependsOn[n] \cap Gate :
    Rule[n] = "all_success" /\ row[n] \in {"running", "completed", "interrupted"} =>
      said[g] # "nothing"

\* A parked run can be answered, or an answer to it is being carried out; unless
\* the process that had recorded the answer died, or was refused the lease,
\* before the run was under way: then nobody can answer the run any more.
ParkedRunHasQuestion ==
  run = "paused" =>
    gate.pending \/ unheeded \/ \E p \in Proc : CarriesAnswer(p)

\* The body of n starts.
Starts(p, n) == at[p][n] = "starting" /\ at'[p][n] = "body"

\* What a person refused does not run: a node starts behind a gate only when
\* the last answer to that gate was yes.
RejectedGateHolds ==
  [][\A p \in Proc, n \in Node : Starts(p, n) /\ Rule[n] = "all_success" =>
       \A g \in DependsOn[n] \cap Gate : said[g] = "approved"]_vars

\* An at_most_once node that was interrupted starts again only because a
\* person said so.
AtMostOnce ==
  [][\A p \in Proc, n \in Unsafe : Starts(p, n) /\ row[n] = "interrupted" =>
       Covered(p, n) /\ answer[p].verdict = "approved"]_vars

-----------------------------------------------------------------------------
(* Liveness. *)

\* A process that has something to do goes on: statements return and node bodies
\* end (they have timeouts), the lease of a dead process lapses, and a supervisor
\* starts what stopped.  Operators owe nothing.
Fairness ==
  /\ \A p \in Proc :
       /\ WF_vars(RunnerStep(p))
       /\ WF_vars(Decide(p) \/ RecoveryStep(p) \/ Restart(p))
  /\ WF_vars(LeaseLapses)

FairSpec == Spec /\ Fairness

\* A run does not stay 'running' for ever: it ends, parks, or is handed back;
\* unless recovery came too early for it.  It looks once, when a process starts,
\* and the lease of a process that died a moment ago still stands then.
RunningRunEnds == run = "running" ~> run # "running" \/ overlooked
=============================================================================

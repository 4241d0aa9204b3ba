------------------------------ MODULE Planner ------------------------------
(***************************************************************************)
(* The workflow planner: which nodes of the graph start, which are         *)
(* skipped, and when the run is over, given a status for every node.  Pure *)
(* operators; RunEngine calls them with what its runner remembers.         *)
(***************************************************************************)
CONSTANTS
  Node,        \* nodes of one workflow document
  DependsOn,   \* depends_on
  Rule         \* trigger_rule

TriggerRule == {"all_success", "one_success", "none_failed_min_one_success", "all_done"}

ASSUME PlannerAssumption ==
  /\ DependsOn \in [Node -> SUBSET Node]
  /\ Rule \in [Node -> TriggerRule]

NodeStatus == {"pending", "running", "completed", "failed", "skipped", "cancelled",
               "interrupted"}
Settled == {"completed", "failed", "skipped", "cancelled"}

\* The join condition of n, once everything it depends on has settled.
TriggerSatisfied(n, st) ==
  \/ DependsOn[n] = {}
  \/ Rule[n] = "all_done"
  \/ Rule[n] = "all_success" /\ \A d \in DependsOn[n] : st[d] = "completed"
  \/ Rule[n] = "one_success" /\ \E d \in DependsOn[n] : st[d] = "completed"
  \/ /\ Rule[n] = "none_failed_min_one_success"
     /\ \A d \in DependsOn[n] : st[d] \notin {"failed", "cancelled"}
     /\ \E d \in DependsOn[n] : st[d] = "completed"

\* Nodes a plan decides on: neither running nor settled, every dependency
\* settled.
Decidable(st) == {n \in Node : /\ st[n] \notin Settled \cup {"running"}
                               /\ \A d \in DependsOn[n] : st[d] \in Settled}

\* plan().ready and plan().skip; holds is the verdict of each node's "when".
ReadyNodes(st, holds) == {n \in Decidable(st) : TriggerSatisfied(n, st) /\ holds[n]}
SkippedNodes(st, holds) == Decidable(st) \ ReadyNodes(st, holds)

\* plan().finished: nothing running, nothing pending.
Finished(st) == \A n \in Node : st[n] \in Settled

RunOutcome(st) ==
  IF \E n \in Node : st[n] = "cancelled" THEN "cancelled"
  ELSE IF \E n \in Node : st[n] = "failed" THEN "failed"
  ELSE "succeeded"
=============================================================================

--------------------------- MODULE WorkflowGraph ---------------------------
(***************************************************************************)
(* A workflow document between the file and the runner: the graph checks   *)
(* that accept or refuse it, the references its nodes make to each other's *)
(* output, and the plan loop that runs what was accepted.                  *)
(*                                                                         *)
(* The document has its nodes numbered in document order.  Nodes 2 and 3   *)
(* are two answers to one question, complementary conditions on one        *)
(* reference; the question is node 1 or whichever node the reference       *)
(* names.  Any node may depend on any other, on itself, or on a name the   *)
(* document does not have.                                                 *)
(***************************************************************************)
EXTENDS Naturals, FiniteSets, DocumentGraph

CONSTANTS
  MaxParallelNodes,   \* config.maxParallelNodes
  DocumentNodes       \* how many nodes the document has

ASSUME GraphAssumption ==
  /\ MaxParallelNodes \in Nat \ {0}
  /\ DocumentNodes \in Nat /\ DocumentNodes >= 3

Step == 1..DocumentNodes
Unknown == 0

\* What a reference resolves to: nothing, a word, or a number.
Text == {"", "word", "3", "8"}

Verdict == {"none", "accepted", "refused"}
StepStatus == {"pending", "running", "completed", "failed", "skipped"}
StepSettled == {"completed", "failed", "skipped"}

VARIABLES
  document,   \* the normalized document
  verdict,    \* resolveWorkflow's answer
  warned,     \* it came with a warning about the reference
  states,     \* runner.states
  outputs,    \* runner.outputs: "" also stands for no entry
  decided,    \* the plan being carried out: what it skips, what it starts
  loop        \* where the runner's loop is

graphVars == <<document, verdict, warned, states, outputs, decided, loop>>
runVars == <<states, outputs, decided, loop>>

Document == [deps : [Step -> SUBSET (Step \cup {Unknown})],
             asks : Step \cup {Unknown},
             form : {"word", "number", "broken"},
             rule : {"all_success", "all_done"}]

Blank == [deps |-> [n \in Step |-> {}], asks |-> 1, form |-> "word", rule |-> "all_success"]

GraphTypeOK ==
  /\ document \in Document
  /\ verdict \in Verdict
  /\ warned \in BOOLEAN
  /\ states \in [Step -> StepStatus]
  /\ outputs \in [Step -> Text]
  /\ decided \in [skip : SUBSET Step, ready : SUBSET Step]
  /\ loop \in {"plan", "act", "wait", "finished", "stuck"}

GraphInit ==
  /\ document = Blank
  /\ verdict = "none"
  /\ warned = FALSE
  /\ states = [n \in Step |-> "pending"]
  /\ outputs = [n \in Step |-> ""]
  /\ decided = [skip |-> {}, ready |-> {}]
  /\ loop = "plan"

-----------------------------------------------------------------------------
(* The checks. *)

\* The nodes that carry a condition on document.asks.
Route == {2, 3}

\* validateWorkflow's errors: a dependency on itself or on an unknown name, a
\* cycle, a condition that does not parse, a reference to itself or to an
\* unknown name.
HasError(d) ==
  \/ \E n \in Step : n \in d.deps[n] \/ Unknown \in d.deps[n]
  \/ Cyclic(Step, d.deps)
  \/ d.form = "broken"
  \/ d.asks \in Route \cup {Unknown}

\* "is not an upstream dependency - it will substitute as empty"
HasWarning(d) == \E n \in Route : d.asks \notin Upstream(Step, d.deps, n)

\* resolveWorkflow: loaded, validated, handed to a run or refused.
ResolveWorkflow ==
  /\ verdict = "none"
  /\ \E d \in Document :
       \* One node with an unknown dependency stands for any.
       /\ \A n \in Route : Unknown \notin d.deps[n]
       /\ document' = d
       /\ verdict' = IF HasError(d) THEN "refused" ELSE "accepted"
       /\ warned' = (~HasError(d) /\ HasWarning(d))
  /\ UNCHANGED runVars

-----------------------------------------------------------------------------
(* Conditions. *)

\* Number(): a missing or empty output is zero, a word is no number.
IsNumber(text) == text # "word"
NumberOf(text) == CASE text = "3" -> 3 [] text = "8" -> 8 [] OTHER -> 0

\* Node 2 asks == 'word' or < '5'; node 3 asks != 'word' or >= '5'.
Compare(n, form, left) ==
  IF form = "word" THEN (left = "word") = (n = 2)
  ELSE IsNumber(left) /\ (NumberOf(left) < 5) = (n = 2)

EvaluateWhen(n) == n \notin Route \/ Compare(n, document.form, outputs[document.asks])

TriggerHolds(n) ==
  document.rule = "all_done" \/ \A d \in document.deps[n] : states[d] = "completed"

\* The nodes a plan decides on.
Open == {n \in Step : /\ states[n] \notin StepSettled \cup {"running"}
                      /\ \A d \in document.deps[n] : states[d] \in StepSettled}

-----------------------------------------------------------------------------
(* The runner's loop: one plan, then its skips, each of which waits for the *)
(* store while running nodes go on, then its starts, then a wait for one of *)
(* the nodes in flight.                                                     *)

InFlight == {n \in Step : states[n] = "running"}

\* The first of the ready nodes, as many as there is capacity for.
Startable(ready) ==
  {n \in ready : Cardinality({m \in ready : m < n}) + Cardinality(InFlight) < MaxParallelNodes}

\* The rest of the loop's body, with what the plan has decided.
StartNodes(ready, skip) ==
  /\ states' = [n \in Step |-> IF n \in Startable(ready) THEN "running" ELSE states[n]]
  /\ loop' = IF InFlight \cup Startable(ready) # {} THEN "wait"
             ELSE IF ready \cup skip # {} THEN "plan"
             ELSE IF \A n \in Step : states[n] \in StepSettled THEN "finished"
             ELSE "stuck"

Plan ==
  /\ verdict = "accepted" /\ loop = "plan"
  /\ LET ready == {n \in Open : TriggerHolds(n) /\ EvaluateWhen(n)}
         skip == Open \ ready
     IN /\ decided' = [skip |-> skip, ready |-> ready]
        /\ IF skip = {} THEN StartNodes(ready, {}) ELSE loop' = "act" /\ UNCHANGED states
  /\ UNCHANGED <<document, verdict, warned, outputs>>

Unrecorded == {n \in decided.skip : states[n] # "skipped"}

RecordSkip(n) ==
  /\ loop = "act"
  /\ n \in Unrecorded
  /\ \A m \in Unrecorded : n <= m
  /\ states' = [states EXCEPT ![n] = "skipped"]
  /\ UNCHANGED <<document, verdict, warned, outputs, decided, loop>>

StartReady ==
  /\ loop = "act" /\ Unrecorded = {}
  /\ StartNodes(decided.ready, decided.skip)
  /\ UNCHANGED <<document, verdict, warned, outputs, decided>>

\* A node in flight ends; a failed one leaves no output.
Finish(n) ==
  /\ states[n] = "running"
  /\ \/ /\ states' = [states EXCEPT ![n] = "completed"]
        /\ \E text \in Text : outputs' = [outputs EXCEPT ![n] = text]
     \/ states' = [states EXCEPT ![n] = "failed"] /\ UNCHANGED outputs
  /\ loop' = IF loop = "wait" THEN "plan" ELSE loop
  /\ UNCHANGED <<document, verdict, warned, decided>>

GraphNext ==
  \/ ResolveWorkflow \/ Plan \/ StartReady
  \/ \E n \in Step : RecordSkip(n) \/ Finish(n)

GraphSpec == GraphInit /\ [][GraphNext]_graphVars

-----------------------------------------------------------------------------
\* What validation accepts can be run: the loop never finds the graph unable
\* to progress, in any order of the nodes' ends and whatever they end as.
AcceptedWorkflowRunsThrough == loop # "stuck"

\* A branch that was taken was taken for good: unless the document came with
\* the warning, the condition of a node that has started holds of the output it
\* asks about, then and ever after.  The verdict is given while other nodes
\* run and used after the plan's skips have been written, and two answers to
\* one question must not both start.
TakenBranchHolds ==
  (verdict = "accepted" /\ ~warned) =>
    \A n \in Route : states[n] \in {"running", "completed", "failed"} => EvaluateWhen(n)
=============================================================================

-------------------------- MODULE DefaultWorkflows --------------------------
(***************************************************************************)
(* The workflows that `gaggle init` writes and that every target runs      *)
(* unless its repository brings one of its own, carried out by the planner *)
(* (module Planner): fix-issue, supervised and scaffold.                   *)
(*                                                                         *)
(* Of a node the model keeps what the engine decides by: depends_on,       *)
(* trigger_rule, when, and that it is an approval gate.  A prompt is what  *)
(* the later conditions can tell of its answer: the structured output with *)
(* a value of its enum or not to be parsed at all, or a file left in the   *)
(* run's artifacts directory.  Any node may fail.  Crashes and leases    *)
(* are RunEngine's; retries, loops and timeouts are NodeAttempts's.        *)
(***************************************************************************)
EXTENDS Naturals, FiniteSets

CONSTANTS
  ParallelNodes,    \* config.maxParallelNodes
  MaxNodeFailures   \* bound: nodes of one run that fail

ASSUME TemplateAssumption == ParallelNodes \in Nat \ {0} /\ MaxNodeFailures \in Nat

-----------------------------------------------------------------------------
(* Nodes. *)

\* A node under its name, and the nodes of two parts.
LOCAL name :> task == [n \in {name} |-> task]
LOCAL part @@ rest ==
  [n \in (DOMAIN part) \cup (DOMAIN rest) |-> IF n \in DOMAIN part THEN part[n] ELSE rest[n]]

\* depends_on, trigger_rule, which is "all_success" unless the node says
\* otherwise, and when.
Task(ds, r, c) == [deps |-> ds, rule |-> r, when |-> c]
After(ds) == Task(ds, "all_success", "always")
When(ds, c) == Task(ds, "all_success", c)

\* Mutant of OneSuccess: the line with the trigger rule is left out.
OneSuccessForgotten(ds) == After(ds)

\* A merge of branches of which at most some are taken.
OneSuccess(ds) == Task(ds, "one_success", "always")

-----------------------------------------------------------------------------
(* gaggle-fix-issue. *)

FixResearch ==
  "classify" :> After({})
  @@ "investigate" :> When({"classify"}, "bug")
  @@ "plan" :> When({"classify"}, "other")
  @@ "bridge-artifacts" :> OneSuccess({"investigate", "plan"})

FixImplement ==
  "implement" :> After({"bridge-artifacts"})
  @@ "check-blocker" :> After({"implement"})
  @@ "blocker-gate" :> When({"check-blocker"}, "blocker")

FixDeliver ==
  "validate-script" :> When({"check-blocker"}, "continue")
  @@ "validate" :> After({"validate-script"})
  @@ "create-pr" :> After({"validate"})
  @@ "verify-pr-base" :> After({"create-pr"})

\* The reviewers that review-classify may leave out.
Optional == {"error-handling", "test-coverage", "comment-quality", "docs-impact"}

FixReviewers ==
  "review-scope" :> After({"verify-pr-base"})
  @@ "review-classify" :> After({"review-scope"})
  @@ "code-review" :> After({"review-classify"})
  @@ [r \in Optional |-> When({"review-classify"}, r)]

FixReviewed ==
  "synthesize" :> OneSuccess({"code-review"} \cup Optional)
  @@ "self-fix" :> After({"synthesize"})
  @@ "simplify" :> After({"self-fix"})
  @@ "report" :> After({"simplify"})

FixReview == FixReviewers @@ FixReviewed

FixIssue == FixResearch @@ FixImplement @@ FixDeliver @@ FixReview

-----------------------------------------------------------------------------
(* gaggle-supervised. *)

SupervisedAsk ==
  "classify" :> After({})
  @@ "clarify" :> After({"classify"})
  @@ "clarify-needed" :> After({"clarify"})
  @@ "clarify-post-round-1" :> When({"clarify-needed"}, "asked")
  @@ "clarify-gate-round-1" :> When({"clarify-post-round-1"}, "asked")
  @@ "clarify-evaluate-round-1" :> When({"clarify-gate-round-1"}, "asked")

SupervisedAskAgain ==
  "clarify-post-round-2" :> When({"clarify-evaluate-round-1"}, "incomplete")
  @@ "clarify-gate-round-2" :> When({"clarify-post-round-2"}, "incomplete")
  @@ "clarify-append-round-2" :> When({"clarify-gate-round-2"}, "incomplete")
  @@ "clarify-merge" :> OneSuccess({"clarify-needed", "clarify-evaluate-round-1",
                                    "clarify-append-round-2"})

SupervisedPlan ==
  "investigate" :> When({"clarify-merge"}, "bug")
  @@ "plan" :> When({"clarify-merge"}, "other")
  @@ "bridge-artifacts" :> OneSuccess({"investigate", "plan"})
  @@ "summarize" :> After({"bridge-artifacts"})
  @@ "post-summary" :> After({"summarize"})
  @@ "plan-gate" :> After({"post-summary"})

SupervisedBuild ==
  "implement" :> After({"plan-gate"})
  @@ "validate-script" :> After({"implement"})
  @@ "validate" :> After({"validate-script"})

SupervisedDeliver ==
  "create-pr" :> After({"validate"})
  @@ "verify-pr-base" :> After({"create-pr"})

\* Word for word the review of fix-issue.
SupervisedReview == FixReview

Supervised == SupervisedAsk @@ SupervisedAskAgain @@ SupervisedPlan @@ SupervisedBuild
              @@ SupervisedDeliver @@ SupervisedReview

\* on_reject.max_attempts of plan-gate; the other gates have no on_reject.
PlanRevisions == 3

-----------------------------------------------------------------------------
(* gaggle-scaffold. *)

Scaffold == "inspect" :> After({}) @@ "draft" :> After({"inspect"})

Template == [fix |-> FixIssue, supervised |-> Supervised, scaffold |-> Scaffold]

Deps(t) == [n \in DOMAIN t |-> t[n].deps]
Rules(t) == [n \in DOMAIN t |-> t[n].rule]

FixPlanner == INSTANCE Planner
  WITH Node <- DOMAIN FixIssue, DependsOn <- Deps(FixIssue), Rule <- Rules(FixIssue)
SupervisedPlanner == INSTANCE Planner
  WITH Node <- DOMAIN Supervised, DependsOn <- Deps(Supervised), Rule <- Rules(Supervised)
ScaffoldPlanner == INSTANCE Planner
  WITH Node <- DOMAIN Scaffold, DependsOn <- Deps(Scaffold), Rule <- Rules(Scaffold)

-----------------------------------------------------------------------------
(* A run of one of them. *)

VARIABLES
  wf,         \* the workflow
  statuses,   \* status of its nodes
  told,       \* what the nodes left behind that a condition can tell apart
  agreed,     \* gates that were approved
  revisions,  \* rework_attempts of the question that is open
  ended       \* how the run is

templateVars == <<wf, statuses, told, agreed, revisions, ended>>

Gates == {"blocker-gate", "clarify-gate-round-1", "clarify-gate-round-2", "plan-gate"}

\* Structured output, where "" is any other value of the enum and a text that is
\* no JSON; questions.md, where "NONE" is also no such file; blocker-request.md;
\* the reviewers that review-classify asked for.
Told == [issue : {"", "bug"}, questions : {"NONE", "some"}, complete : {"", "false"},
         blocker : BOOLEAN, reviews : SUBSET Optional]

Untold == [issue |-> "", questions |-> "NONE", complete |-> "", blocker |-> FALSE,
           reviews |-> {}]

TemplateTypeOK ==
  /\ wf \in DOMAIN Template
  /\ statuses \in [DOMAIN Template[wf] -> FixPlanner!NodeStatus]
  /\ told \in Told
  /\ agreed \subseteq Gates
  /\ revisions \in 0..PlanRevisions
  /\ ended \in {"running", "asking", "completed", "failed", "cancelled"}

TemplateInit ==
  /\ wf \in DOMAIN Template
  /\ statuses = [n \in DOMAIN Template[wf] |-> "pending"]
  /\ told = Untold
  /\ agreed = {} /\ revisions = 0
  /\ ended = "running"

Done(n) == n \in DOMAIN statuses /\ statuses[n] = "completed"
Failed == {n \in DOMAIN statuses : statuses[n] = "failed"}
Underway == {n \in DOMAIN statuses : statuses[n] = "running"}

\* evaluateWhen: a reference to a node without an output is the empty string.
Holds(c) ==
  \/ c = "always"
  \/ c = "bug" /\ told.issue = "bug"
  \/ c = "other" /\ told.issue # "bug"
  \/ c = "asked" /\ Done("clarify-needed") /\ told.questions = "some"
  \/ c = "incomplete" /\ told.complete = "false"
  \/ c = "blocker" /\ Done("check-blocker") /\ told.blocker
  \/ c = "continue" /\ Done("check-blocker") /\ ~told.blocker
  \/ c \in told.reviews

Verdicts == [n \in DOMAIN statuses |-> Holds(Template[wf][n].when)]

Ready ==
  IF wf = "fix" THEN FixPlanner!ReadyNodes(statuses, Verdicts)
  ELSE IF wf = "supervised" THEN SupervisedPlanner!ReadyNodes(statuses, Verdicts)
  ELSE ScaffoldPlanner!ReadyNodes(statuses, Verdicts)

Skips ==
  IF wf = "fix" THEN FixPlanner!SkippedNodes(statuses, Verdicts)
  ELSE IF wf = "supervised" THEN SupervisedPlanner!SkippedNodes(statuses, Verdicts)
  ELSE ScaffoldPlanner!SkippedNodes(statuses, Verdicts)

RunVerdict ==
  IF wf = "fix" THEN FixPlanner!RunOutcome(statuses)
  ELSE IF wf = "supervised" THEN SupervisedPlanner!RunOutcome(statuses)
  ELSE ScaffoldPlanner!RunOutcome(statuses)

\* One round of the runner's loop: what is decided is skipped, and one ready
\* node is started while there is room.  A gate parks the run.
SkipNodes ==
  /\ ended = "running"
  /\ LET skips == Skips
     IN /\ skips # {}
        /\ statuses' = [n \in DOMAIN statuses |-> IF n \in skips THEN "skipped" ELSE statuses[n]]
  /\ UNCHANGED <<wf, told, agreed, revisions, ended>>

StartNode ==
  /\ ended = "running" /\ Cardinality(Underway) < ParallelNodes /\ Skips = {}
  /\ \E n \in Ready :
       /\ statuses' = [statuses EXCEPT ![n] = "running"]
       /\ ended' = IF n \in Gates THEN "asking" ELSE ended
  /\ UNCHANGED <<wf, told, agreed, revisions>>

\* What a node leaves behind when it completes.
Tells(n) == {t \in Told :
  /\ n # "classify" => t.issue = told.issue
  /\ n # "clarify" => t.questions = told.questions
  /\ n # "clarify-evaluate-round-1" => t.complete = told.complete
  /\ n # "implement" \/ wf # "fix" => t.blocker = told.blocker
  /\ n # "review-classify" => t.reviews = told.reviews}

NodeCompletes(n) ==
  /\ n \in Underway \ Gates
  /\ statuses' = [statuses EXCEPT ![n] = "completed"]
  /\ told' \in Tells(n)
  /\ UNCHANGED <<wf, agreed, revisions, ended>>

NodeFails(n) ==
  /\ n \in Underway \ Gates
  /\ Cardinality(Failed) < MaxNodeFailures
  /\ statuses' = [statuses EXCEPT ![n] = "failed"]
  /\ UNCHANGED <<wf, told, agreed, revisions, ended>>

\* The run is parked once what ran beside the gate has ended.
Asked(g) == ended = "asking" /\ Underway = {g} /\ g \in Gates

Approve(g) ==
  /\ Asked(g)
  /\ statuses' = [statuses EXCEPT ![g] = "completed"]
  /\ agreed' = agreed \cup {g}
  /\ ended' = "running"
  /\ revisions' = 0
  /\ UNCHANGED <<wf, told>>

\* Mutant of Reject: after the last revision the workflow goes on by itself, as
\* the gate's message has it.
RejectThenProceed(g) ==
  /\ Asked(g)
  /\ IF g = "plan-gate" /\ revisions < PlanRevisions
     THEN revisions' = revisions + 1 /\ UNCHANGED <<statuses, ended>>
     ELSE /\ statuses' = [statuses EXCEPT ![g] = "completed"]
          /\ ended' = IF g = "plan-gate" THEN "running" ELSE "cancelled"
          /\ revisions' = 0
  /\ UNCHANGED <<wf, told, agreed>>

\* With on_reject and budget the rework prompt runs and the gate asks again;
\* without, the node is completed and the run cancelled.
Reject(g) ==
  /\ Asked(g)
  /\ IF g = "plan-gate" /\ revisions < PlanRevisions
     THEN revisions' = revisions + 1 /\ UNCHANGED <<statuses, ended>>
     ELSE /\ statuses' = [statuses EXCEPT ![g] = "completed"]
          /\ ended' = "cancelled"
          /\ revisions' = 0
  /\ UNCHANGED <<wf, told, agreed>>

\* A rework prompt that fails ends the gate's node.
ReworkFails ==
  /\ Asked("plan-gate") /\ revisions < PlanRevisions
  /\ Cardinality(Failed) < MaxNodeFailures
  /\ statuses' = [statuses EXCEPT !["plan-gate"] = "failed"]
  /\ ended' = "running" /\ revisions' = 0
  /\ UNCHANGED <<wf, told, agreed>>

EndRun ==
  /\ ended = "running"
  /\ \A n \in DOMAIN statuses : statuses[n] \in FixPlanner!Settled
  /\ ended' = IF RunVerdict = "succeeded" THEN "completed" ELSE RunVerdict
  /\ UNCHANGED <<wf, statuses, told, agreed, revisions>>

TemplateNext ==
  \/ SkipNodes \/ StartNode \/ ReworkFails \/ EndRun
  \/ \E n \in Underway : NodeCompletes(n) \/ NodeFails(n)
  \/ \E g \in Gates : Approve(g) \/ Reject(g)

TemplateSpec == TemplateInit /\ [][TemplateNext]_templateVars

-----------------------------------------------------------------------------
(* Properties. *)

Steps == {"implement", "validate", "create-pr", "code-review", "synthesize", "self-fix", "report"}

\* A run that completed did the whole job: whichever branches were taken, the
\* merges brought it to the end, and everything on the way completed.  The one
\* way to complete without a pull request is a blocker a person approved.  The
\* control plane takes "completed" for a target that succeeded, so a run that
\* skipped its way to the end would close the ticket with nothing done
\* (cli/templates-default.ts:112, :380, :595; planner.ts, runOutcome).
CompletedRunDelivers ==
  ended = "completed" =>
    \/ wf = "scaffold" /\ Done("draft")
    \/ /\ \A n \in Steps : Done(n)
       /\ Done("investigate") # Done("plan")
       /\ wf = "supervised" /\ told.questions = "some" => Done("clarify-evaluate-round-1")
    \/ /\ wf = "fix" /\ "blocker-gate" \in agreed
       /\ Done("implement") /\ statuses["create-pr"] = "skipped"

\* Nothing is built that nobody agreed to.  The supervised workflow writes code
\* only after its plan was approved, and unless something failed on the way, not
\* before its questions were answered; neither workflow opens a pull request
\* for work that waits for another repository
\* (cli/templates-default.ts:172-198, :407, :742-760, :785).
NothingBuiltUnasked ==
  /\ wf = "supervised" /\ statuses["implement"] \notin {"pending", "skipped"} =>
       /\ "plan-gate" \in agreed
       /\ \/ told.questions # "some" \/ "clarify-gate-round-1" \in agreed
          \/ Failed # {}
  /\ wf # "scaffold" /\ told.blocker => statuses["create-pr"] \in {"pending", "skipped"}
=============================================================================

----------------------- MODULE DefaultWorkflows_proofs -----------------------
(***************************************************************************)
(* What a run of a default workflow leaves behind, for any number of nodes *)
(* at a time and any number of failures.                                   *)
(*                                                                         *)
(* A node settles after everything it depends on, and what has settled     *)
(* stays; so what a condition read when the planner decided on a node is   *)
(* what it reads for ever after.  Hence a node ran only if it is due, and  *)
(* was skipped only if it is not, in terms of the state as it is now: this *)
(* is the invariant, and what completes is read off the graph.             *)
(***************************************************************************)
EXTENDS DefaultWorkflows, TLAPS

-----------------------------------------------------------------------------
(* The graphs, part by part. *)

LEMMA ResearchNodes ==
  /\ DOMAIN FixResearch = {"classify", "investigate", "plan", "bridge-artifacts"}
  /\ FixResearch["classify"] = After({})
  /\ FixResearch["investigate"] = When({"classify"}, "bug")
  /\ FixResearch["plan"] = When({"classify"}, "other")
  /\ FixResearch["bridge-artifacts"] = OneSuccess({"investigate", "plan"})
  BY DEF FixResearch

LEMMA ImplementNodes ==
  /\ DOMAIN FixImplement = {"implement", "check-blocker", "blocker-gate"}
  /\ FixImplement["implement"] = After({"bridge-artifacts"})
  /\ FixImplement["check-blocker"] = After({"implement"})
  /\ FixImplement["blocker-gate"] = When({"check-blocker"}, "blocker")
  BY DEF FixImplement

LEMMA DeliverNodes ==
  /\ DOMAIN FixDeliver = {"validate-script", "validate", "create-pr", "verify-pr-base"}
  /\ FixDeliver["validate-script"] = When({"check-blocker"}, "continue")
  /\ FixDeliver["validate"] = After({"validate-script"})
  /\ FixDeliver["create-pr"] = After({"validate"})
  /\ FixDeliver["verify-pr-base"] = After({"create-pr"})
  BY DEF FixDeliver

ReviewNames == {"review-scope", "review-classify", "code-review", "synthesize", "self-fix", "simplify", "report"}

LEMMA ReviewNodes ==
  /\ DOMAIN FixReview = ReviewNames \cup Optional
  /\ FixReview["review-scope"] = After({"verify-pr-base"})
  /\ FixReview["review-classify"] = After({"review-scope"})
  /\ FixReview["code-review"] = After({"review-classify"})
  /\ FixReview["synthesize"] = OneSuccess({"code-review"} \cup Optional)
  /\ FixReview["self-fix"] = After({"synthesize"})
  /\ FixReview["simplify"] = After({"self-fix"})
  /\ FixReview["report"] = After({"simplify"})
  /\ \A r \in Optional : FixReview[r] = When({"review-classify"}, r)
<1>1. /\ DOMAIN FixReviewers = {"review-scope", "review-classify", "code-review"} \cup Optional
      /\ FixReviewers["review-scope"] = After({"verify-pr-base"})
      /\ FixReviewers["review-classify"] = After({"review-scope"})
      /\ FixReviewers["code-review"] = After({"review-classify"})
  BY DEF FixReviewers
<1>2. /\ DOMAIN FixReviewed = {"synthesize", "self-fix", "simplify", "report"}
      /\ FixReviewed["synthesize"] = OneSuccess({"code-review"} \cup Optional)
      /\ FixReviewed["self-fix"] = After({"synthesize"})
      /\ FixReviewed["simplify"] = After({"self-fix"})
      /\ FixReviewed["report"] = After({"simplify"})
  BY DEF FixReviewed
<1>3. \A r \in Optional : FixReviewers[r] = When({"review-classify"}, r)
  <2>1. \A r \in Optional : r \notin {"review-scope", "review-classify", "code-review"}
    BY DEF Optional
  <2> QED
    BY <2>1 DEF FixReviewers
<1>4. DOMAIN FixReviewers \cap DOMAIN FixReviewed = {}
  BY <1>1, <1>2 DEF Optional
<1>5. /\ DOMAIN FixReview = DOMAIN FixReviewers \cup DOMAIN FixReviewed
      /\ \A n \in DOMAIN FixReviewers : FixReview[n] = FixReviewers[n]
      /\ \A n \in DOMAIN FixReviewed : FixReview[n] = FixReviewed[n]
  BY <1>4 DEF FixReview
<1>6. DOMAIN FixReview = ReviewNames \cup Optional
  BY <1>1, <1>2, <1>5 DEF ReviewNames
<1> QED
  BY <1>1, <1>2, <1>3, <1>5, <1>6

LEMMA AskNodes ==
  /\ DOMAIN SupervisedAsk = {"classify", "clarify", "clarify-needed", "clarify-post-round-1",
                             "clarify-gate-round-1", "clarify-evaluate-round-1"}
  /\ SupervisedAsk["classify"] = After({})
  /\ SupervisedAsk["clarify"] = After({"classify"})
  /\ SupervisedAsk["clarify-needed"] = After({"clarify"})
  /\ SupervisedAsk["clarify-post-round-1"] = When({"clarify-needed"}, "asked")
  /\ SupervisedAsk["clarify-gate-round-1"] = When({"clarify-post-round-1"}, "asked")
  /\ SupervisedAsk["clarify-evaluate-round-1"] = When({"clarify-gate-round-1"}, "asked")
  BY DEF SupervisedAsk

LEMMA AskAgainNodes ==
  /\ DOMAIN SupervisedAskAgain = {"clarify-post-round-2", "clarify-gate-round-2",
                                  "clarify-append-round-2", "clarify-merge"}
  /\ SupervisedAskAgain["clarify-post-round-2"] = When({"clarify-evaluate-round-1"}, "incomplete")
  /\ SupervisedAskAgain["clarify-gate-round-2"] = When({"clarify-post-round-2"}, "incomplete")
  /\ SupervisedAskAgain["clarify-append-round-2"] = When({"clarify-gate-round-2"}, "incomplete")
  /\ SupervisedAskAgain["clarify-merge"] = OneSuccess({"clarify-needed", "clarify-evaluate-round-1",
                                    "clarify-append-round-2"})
  BY DEF SupervisedAskAgain

LEMMA PlanNodes ==
  /\ DOMAIN SupervisedPlan = {"investigate", "plan", "bridge-artifacts", "summarize",
                              "post-summary", "plan-gate"}
  /\ SupervisedPlan["investigate"] = When({"clarify-merge"}, "bug")
  /\ SupervisedPlan["plan"] = When({"clarify-merge"}, "other")
  /\ SupervisedPlan["bridge-artifacts"] = OneSuccess({"investigate", "plan"})
  /\ SupervisedPlan["summarize"] = After({"bridge-artifacts"})
  /\ SupervisedPlan["post-summary"] = After({"summarize"})
  /\ SupervisedPlan["plan-gate"] = After({"post-summary"})
  BY DEF SupervisedPlan

LEMMA BuildNodes ==
  /\ DOMAIN SupervisedBuild = {"implement", "validate-script", "validate"}
  /\ SupervisedBuild["implement"] = After({"plan-gate"})
  /\ SupervisedBuild["validate-script"] = After({"implement"})
  /\ SupervisedBuild["validate"] = After({"validate-script"})
  BY DEF SupervisedBuild

LEMMA HandoverNodes ==
  /\ DOMAIN SupervisedDeliver = {"create-pr", "verify-pr-base"}
  /\ SupervisedDeliver["create-pr"] = After({"validate"})
  /\ SupervisedDeliver["verify-pr-base"] = After({"create-pr"})
  BY DEF SupervisedDeliver

LEMMA FixParts ==
  /\ DOMAIN FixIssue = DOMAIN FixResearch \cup DOMAIN FixImplement \cup DOMAIN FixDeliver
                       \cup DOMAIN FixReview
  /\ \A n \in DOMAIN FixResearch : FixIssue[n] = FixResearch[n]
  /\ \A n \in DOMAIN FixImplement : FixIssue[n] = FixImplement[n]
  /\ \A n \in DOMAIN FixDeliver : FixIssue[n] = FixDeliver[n]
  /\ \A n \in DOMAIN FixReview : FixIssue[n] = FixReview[n]
<1>1. /\ DOMAIN FixResearch \cap (DOMAIN FixImplement \cup DOMAIN FixDeliver \cup DOMAIN FixReview) = {}
      /\ DOMAIN FixImplement \cap (DOMAIN FixDeliver \cup DOMAIN FixReview) = {}
      /\ DOMAIN FixDeliver \cap DOMAIN FixReview = {}
  BY ResearchNodes, ImplementNodes, DeliverNodes, ReviewNodes DEF ReviewNames, Optional
<1> QED
  BY <1>1 DEF FixIssue

LEMMA SupervisedParts ==
  /\ DOMAIN Supervised = DOMAIN SupervisedAsk \cup DOMAIN SupervisedAskAgain \cup DOMAIN SupervisedPlan
       \cup DOMAIN SupervisedBuild \cup DOMAIN SupervisedDeliver \cup DOMAIN FixReview
  /\ \A n \in DOMAIN SupervisedAsk : Supervised[n] = SupervisedAsk[n]
  /\ \A n \in DOMAIN SupervisedAskAgain : Supervised[n] = SupervisedAskAgain[n]
  /\ \A n \in DOMAIN SupervisedPlan : Supervised[n] = SupervisedPlan[n]
  /\ \A n \in DOMAIN SupervisedBuild : Supervised[n] = SupervisedBuild[n]
  /\ \A n \in DOMAIN SupervisedDeliver : Supervised[n] = SupervisedDeliver[n]
  /\ \A n \in DOMAIN FixReview : Supervised[n] = FixReview[n]
<1> DEFINE A == DOMAIN SupervisedAsk  B == DOMAIN SupervisedAskAgain  C == DOMAIN SupervisedPlan
           D == DOMAIN SupervisedBuild  E == DOMAIN SupervisedDeliver  F == DOMAIN FixReview
<1>1. /\ A \cap (B \cup C \cup D \cup E \cup F) = {}
      /\ B \cap (C \cup D \cup E \cup F) = {}
      /\ C \cap (D \cup E \cup F) = {}
      /\ D \cap (E \cup F) = {}
      /\ E \cap F = {}
  BY AskNodes, AskAgainNodes, PlanNodes, BuildNodes, HandoverNodes, ReviewNodes
  DEF ReviewNames, Optional
<1> QED
  BY <1>1 DEF Supervised, SupervisedReview

-----------------------------------------------------------------------------
(* What the planner makes of them. *)

Closed == {"completed", "failed", "skipped"}
Needs(n) == Template[wf][n].deps
Clear(n) == \A d \in Needs(n) : statuses[d] \in Closed

\* The join condition of n and its "when".
Due(n) ==
  /\ \/ Needs(n) = {}
     \/ Template[wf][n].rule = "all_success" /\ \A d \in Needs(n) : statuses[d] = "completed"
     \/ Template[wf][n].rule = "one_success" /\ \E d \in Needs(n) : statuses[d] = "completed"
  /\ Holds(Template[wf][n].when)
Ran(n) == statuses[n] \in {"running", "completed", "failed"}

RunType ==
  /\ wf \in {"fix", "supervised", "scaffold"}
  /\ DOMAIN statuses = DOMAIN Template[wf]
  /\ \A n \in DOMAIN statuses : statuses[n] \in Closed \cup {"pending", "running"}
  /\ told \in Told

\* Nothing is decided before what it depends on, a node runs only when it was
\* due, and one that was due is not skipped.
InOrder == \A n \in DOMAIN statuses : statuses[n] # "pending" => Clear(n)
RanWhenDue == \A n \in DOMAIN statuses : Ran(n) => Due(n)
SkippedWhenNotDue == \A n \in DOMAIN statuses : statuses[n] = "skipped" => ~Due(n)

Planned == RunType /\ InOrder /\ RanWhenDue /\ SkippedWhenNotDue

WellPlaced(t, n) ==
  t[n].deps \subseteq DOMAIN t /\ t[n].rule \in {"all_success", "one_success"}
WellFormed(t) == \A n \in DOMAIN t : WellPlaced(t, n)

LEMMA TemplatesOf ==
  /\ Template["fix"] = FixIssue /\ Template["supervised"] = Supervised
  /\ Template["scaffold"] = Scaffold
  /\ DOMAIN Template = {"fix", "supervised", "scaffold"}
  BY DEF Template

LEMMA FixWellFormed == WellFormed(FixIssue)
<1>1. \A n \in DOMAIN FixResearch : WellPlaced(FixIssue, n)
  BY FixParts, ResearchNodes DEF WellPlaced, After, When, OneSuccess, Task
<1>2. \A n \in DOMAIN FixImplement : WellPlaced(FixIssue, n)
  BY FixParts, ResearchNodes, ImplementNodes DEF WellPlaced, After, When, OneSuccess, Task
<1>3. \A n \in DOMAIN FixDeliver : WellPlaced(FixIssue, n)
  BY FixParts, ImplementNodes, DeliverNodes DEF WellPlaced, After, When, OneSuccess, Task
<1>4. \A n \in DOMAIN FixReview : WellPlaced(FixIssue, n)
  BY FixParts, DeliverNodes, ReviewNodes DEF WellPlaced, After, When, OneSuccess, Task, ReviewNames
<1> QED
  BY <1>1, <1>2, <1>3, <1>4, FixParts DEF WellFormed

LEMMA SupervisedWellFormed == WellFormed(Supervised)
<1>1. \A n \in DOMAIN SupervisedAsk : WellPlaced(Supervised, n)
  BY SupervisedParts, AskNodes DEF WellPlaced, After, When, OneSuccess, Task
<1>2. \A n \in DOMAIN SupervisedAskAgain : WellPlaced(Supervised, n)
  BY SupervisedParts, AskNodes, AskAgainNodes DEF WellPlaced, After, When, OneSuccess, Task
<1>3. \A n \in DOMAIN SupervisedPlan : WellPlaced(Supervised, n)
  BY SupervisedParts, AskAgainNodes, PlanNodes DEF WellPlaced, After, When, OneSuccess, Task
<1>4. \A n \in DOMAIN SupervisedBuild : WellPlaced(Supervised, n)
  BY SupervisedParts, PlanNodes, BuildNodes DEF WellPlaced, After, When, OneSuccess, Task
<1>5. \A n \in DOMAIN SupervisedDeliver : WellPlaced(Supervised, n)
  BY SupervisedParts, BuildNodes, HandoverNodes DEF WellPlaced, After, When, OneSuccess, Task
<1>6. \A n \in DOMAIN FixReview : WellPlaced(Supervised, n)
  BY SupervisedParts, HandoverNodes, ReviewNodes DEF WellPlaced, After, When, OneSuccess, Task, ReviewNames
<1> QED
  BY <1>1, <1>2, <1>3, <1>4, <1>5, <1>6, SupervisedParts DEF WellFormed

LEMMA ScaffoldNodes ==
  /\ DOMAIN Scaffold = {"inspect", "draft"}
  /\ Scaffold["inspect"] = After({})
  /\ Scaffold["draft"] = After({"inspect"})
  BY DEF Scaffold

LEMMA AllWellFormed ==
  ASSUME RunType
  PROVE  WellFormed(Template[wf])
<1>1. WellFormed(Scaffold)
  BY ScaffoldNodes DEF WellFormed, WellPlaced, After, Task
<1> QED
  BY <1>1, FixWellFormed, SupervisedWellFormed, TemplatesOf DEF RunType

\* plan() by its own words.
LEMMA PlanIs ==
  ASSUME RunType, NEW n \in DOMAIN statuses
  PROVE  /\ n \in Ready <=> statuses[n] = "pending" /\ Clear(n) /\ Due(n)
         /\ n \in Skips <=> statuses[n] = "pending" /\ Clear(n) /\ ~Due(n)
<1> DEFINE t == Template[wf]
<1>0. /\ n \in DOMAIN t /\ t[n].deps \subseteq DOMAIN t
      /\ t[n].rule \in {"all_success", "one_success"}
  BY AllWellFormed DEF RunType, WellFormed, WellPlaced
<1>1. Verdicts[n] = Holds(t[n].when)
  BY DEF Verdicts
<1>2. Deps(t)[n] = t[n].deps /\ Rules(t)[n] = t[n].rule
  BY <1>0 DEF Deps, Rules
<1> USE DEF Closed, Needs, Clear, Due
<1>3. CASE wf = "fix"
  <2>1. t = FixIssue
    BY <1>3, TemplatesOf
  <2> QED
    BY <1>0, <1>1, <1>2, <1>3, <2>1
    DEF Ready, Skips, FixPlanner!ReadyNodes, FixPlanner!SkippedNodes, FixPlanner!Decidable,
        FixPlanner!TriggerSatisfied, FixPlanner!Settled, RunType
<1>4. CASE wf = "supervised"
  <2>1. t = Supervised
    BY <1>4, TemplatesOf
  <2> QED
    BY <1>0, <1>1, <1>2, <1>4, <2>1
    DEF Ready, Skips, SupervisedPlanner!ReadyNodes, SupervisedPlanner!SkippedNodes,
        SupervisedPlanner!Decidable, SupervisedPlanner!TriggerSatisfied, SupervisedPlanner!Settled, RunType
<1>5. CASE wf = "scaffold"
  <2>1. t = Scaffold
    BY <1>5, TemplatesOf
  <2> QED
    BY <1>0, <1>1, <1>2, <1>5, <2>1
    DEF Ready, Skips, ScaffoldPlanner!ReadyNodes, ScaffoldPlanner!SkippedNodes,
        ScaffoldPlanner!Decidable, ScaffoldPlanner!TriggerSatisfied, ScaffoldPlanner!Settled, RunType
<1> QED
  BY <1>3, <1>4, <1>5 DEF RunType

\* Every part of the graph a condition may be at.
LEMMA FixNames == DOMAIN FixIssue = {"classify", "investigate", "plan", "bridge-artifacts",
    "implement", "check-blocker", "blocker-gate", "validate-script", "validate", "create-pr",
    "verify-pr-base"} \cup ReviewNames \cup Optional
  BY FixParts, ResearchNodes, ImplementNodes, DeliverNodes, ReviewNodes

LEMMA SupervisedNames == DOMAIN Supervised = {"classify", "clarify", "clarify-needed",
    "clarify-post-round-1", "clarify-gate-round-1", "clarify-evaluate-round-1",
    "clarify-post-round-2", "clarify-gate-round-2", "clarify-append-round-2", "clarify-merge",
    "investigate", "plan", "bridge-artifacts", "summarize", "post-summary", "plan-gate",
    "implement", "validate-script", "validate", "create-pr", "verify-pr-base"}
    \cup ReviewNames \cup Optional
  BY SupervisedParts, AskNodes, AskAgainNodes, PlanNodes, BuildNodes, HandoverNodes, ReviewNodes

\* The nodes that a condition reads have settled.
SourcesClosed(c) ==
  /\ c \in {"bug", "other"} => statuses["classify"] \in Closed
  /\ c = "asked" => statuses["clarify"] \in Closed /\ statuses["clarify-needed"] \in Closed
  /\ c = "incomplete" => statuses["clarify-evaluate-round-1"] \in Closed
  /\ c \in {"blocker", "continue"} =>
       statuses["check-blocker"] \in Closed /\ statuses["implement"] \in Closed
  /\ c \in Optional => statuses["review-classify"] \in Closed

\* What a node depends on has settled before it, up the graph.
LEMMA Upstream ==
  ASSUME RunType, InOrder, NEW n \in DOMAIN statuses, statuses[n] \in Closed
  PROVE  Clear(n)
  BY DEF InOrder, Closed

LEMMA FixSources ==
  ASSUME RunType, InOrder, wf = "fix", NEW n \in DOMAIN statuses, Clear(n)
  PROVE  SourcesClosed(Template[wf][n].when)
<1>0. Template[wf] = FixIssue /\ DOMAIN statuses = DOMAIN FixIssue
  BY TemplatesOf DEF RunType
<1>1. CASE n \in DOMAIN FixResearch
  BY <1>0, <1>1, FixParts, ResearchNodes DEF Clear, Needs, SourcesClosed, After, When, OneSuccess, Task, Optional
<1>2. CASE n \in DOMAIN FixImplement
  <2>1. "check-blocker" \in DOMAIN statuses /\ FixIssue["check-blocker"] = After({"implement"})
    BY <1>0, FixParts, ImplementNodes
  <2>2. statuses["check-blocker"] \in Closed => statuses["implement"] \in Closed
    BY <1>0, <2>1, Upstream DEF Clear, Needs, After, Task
  <2> QED
    BY <1>0, <1>2, <2>2, FixParts, ImplementNodes
    DEF Clear, Needs, SourcesClosed, After, When, OneSuccess, Task, Optional
<1>3. CASE n \in DOMAIN FixDeliver
  <2>1. "check-blocker" \in DOMAIN statuses /\ FixIssue["check-blocker"] = After({"implement"})
    BY <1>0, FixParts, ImplementNodes
  <2>2. statuses["check-blocker"] \in Closed => statuses["implement"] \in Closed
    BY <1>0, <2>1, Upstream DEF Clear, Needs, After, Task
  <2> QED
    BY <1>0, <1>3, <2>2, FixParts, DeliverNodes
    DEF Clear, Needs, SourcesClosed, After, When, OneSuccess, Task, Optional
<1>4. CASE n \in DOMAIN FixReview
  BY <1>0, <1>4, FixParts, ReviewNodes
  DEF Clear, Needs, SourcesClosed, After, When, OneSuccess, Task, Optional, ReviewNames
<1> QED
  BY <1>0, <1>1, <1>2, <1>3, <1>4, FixParts

\* Whatever came after clarify-merge, came after classify.
LEMMA MergeAfterClassify ==
  ASSUME RunType, InOrder, wf = "supervised"
  PROVE  /\ statuses["clarify-needed"] \in Closed => statuses["clarify"] \in Closed
         /\ statuses["clarify"] \in Closed => statuses["classify"] \in Closed
         /\ statuses["clarify-merge"] \in Closed => statuses["clarify-needed"] \in Closed
         /\ statuses["clarify-post-round-1"] \in Closed => statuses["clarify-needed"] \in Closed
         /\ statuses["clarify-gate-round-1"] \in Closed => statuses["clarify-post-round-1"] \in Closed
         /\ statuses["clarify-post-round-2"] \in Closed => statuses["clarify-evaluate-round-1"] \in Closed
         /\ statuses["clarify-gate-round-2"] \in Closed => statuses["clarify-post-round-2"] \in Closed
<1>0. Template[wf] = Supervised /\ DOMAIN statuses = DOMAIN Supervised
  BY TemplatesOf DEF RunType
<1>1. ASSUME NEW n \in DOMAIN Supervised, NEW d \in Supervised[n].deps, statuses[n] \in Closed
      PROVE  statuses[d] \in Closed
  BY <1>0, <1>1, Upstream DEF Clear, Needs
<1>2. /\ "clarify-needed" \in DOMAIN Supervised /\ "clarify" \in Supervised["clarify-needed"].deps
      /\ "clarify" \in DOMAIN Supervised /\ "classify" \in Supervised["clarify"].deps
      /\ "clarify-post-round-1" \in DOMAIN Supervised
      /\ "clarify-needed" \in Supervised["clarify-post-round-1"].deps
      /\ "clarify-gate-round-1" \in DOMAIN Supervised
      /\ "clarify-post-round-1" \in Supervised["clarify-gate-round-1"].deps
  BY SupervisedParts, AskNodes DEF After, When, Task
<1>3. /\ "clarify-merge" \in DOMAIN Supervised /\ "clarify-needed" \in Supervised["clarify-merge"].deps
      /\ "clarify-post-round-2" \in DOMAIN Supervised
      /\ "clarify-evaluate-round-1" \in Supervised["clarify-post-round-2"].deps
      /\ "clarify-gate-round-2" \in DOMAIN Supervised
      /\ "clarify-post-round-2" \in Supervised["clarify-gate-round-2"].deps
  BY SupervisedParts, AskAgainNodes DEF After, When, OneSuccess, Task
<1> QED
  BY <1>1, <1>2, <1>3

LEMMA SupervisedSources ==
  ASSUME RunType, InOrder, wf = "supervised", NEW n \in DOMAIN statuses, Clear(n)
  PROVE  SourcesClosed(Template[wf][n].when)
<1> USE DEF Clear, Needs, SourcesClosed, After, When, OneSuccess, Task, Optional
<1>0. Template[wf] = Supervised /\ DOMAIN statuses = DOMAIN Supervised
  BY TemplatesOf DEF RunType
<1>1. CASE n \in DOMAIN SupervisedAsk
  BY <1>0, <1>1, SupervisedParts, AskNodes, MergeAfterClassify
<1>2. CASE n \in DOMAIN SupervisedAskAgain
  BY <1>0, <1>2, SupervisedParts, AskAgainNodes, MergeAfterClassify
<1>3. CASE n \in DOMAIN SupervisedPlan
  BY <1>0, <1>3, SupervisedParts, PlanNodes, MergeAfterClassify
<1>4. CASE n \in DOMAIN SupervisedBuild
  BY <1>0, <1>4, SupervisedParts, BuildNodes
<1>5. CASE n \in DOMAIN SupervisedDeliver
  BY <1>0, <1>5, SupervisedParts, HandoverNodes
<1>6. CASE n \in DOMAIN FixReview
  BY <1>0, <1>6, SupervisedParts, ReviewNodes DEF ReviewNames
<1> QED
  BY <1>0, <1>1, <1>2, <1>3, <1>4, <1>5, <1>6, SupervisedParts

LEMMA AllSources ==
  ASSUME RunType, InOrder, NEW n \in DOMAIN statuses, Clear(n)
  PROVE  SourcesClosed(Template[wf][n].when)
<1>1. CASE wf = "scaffold"
  BY <1>1, TemplatesOf, ScaffoldNodes DEF RunType, SourcesClosed, After, Task, Optional
<1> QED
  BY <1>1, FixSources, SupervisedSources DEF RunType

\* What one step does to the nodes: what has settled stays, a node starts when
\* it is due and is skipped when it is not, and only a node that runs tells.
Move ==
  /\ wf' = wf
  /\ DOMAIN statuses' = DOMAIN statuses
  /\ \A n \in DOMAIN statuses : statuses'[n] # statuses[n] =>
       \/ statuses[n] = "pending" /\ statuses'[n] = "running" /\ Clear(n) /\ Due(n)
       \/ statuses[n] = "pending" /\ statuses'[n] = "skipped" /\ Clear(n) /\ ~Due(n)
       \/ statuses[n] = "running" /\ statuses'[n] \in {"completed", "failed"}
  /\ \/ told' = told
     \/ \E m \in DOMAIN statuses : statuses[m] = "running" /\ told' \in Tells(m)

LEMMA HoldsStays ==
  ASSUME RunType, Move, NEW c, SourcesClosed(c)
  PROVE  Holds(c)' <=> Holds(c)
<1>1. \A n \in DOMAIN statuses : statuses[n] \in Closed => statuses'[n] = statuses[n]
  BY DEF Move, Closed
<1>2. CASE told' = told
  <2>1. \A n : statuses[n] \in Closed => (Done(n)' <=> Done(n))
    BY <1>1 DEF Move, Done
  <2> QED
    BY <1>2, <2>1 DEF Holds, SourcesClosed
<1>3. ASSUME NEW m \in DOMAIN statuses, statuses[m] = "running", told' \in Tells(m)
      PROVE  Holds(c)' <=> Holds(c)
  <2>1. \A n : statuses[n] \in Closed => n # m /\ (Done(n)' <=> Done(n))
    BY <1>1, <1>3 DEF Move, Done, Closed
  <2>2. told \in Told /\ told' \in Told
    BY <1>3 DEF RunType, Tells
  <2>3. c \in {"bug", "other"} => told'.issue = told.issue
    BY <1>3, <2>1 DEF Tells, SourcesClosed
  <2>4. c = "asked" => told'.questions = told.questions
    BY <1>3, <2>1 DEF Tells, SourcesClosed
  <2>5. c = "incomplete" => told'.complete = told.complete
    BY <1>3, <2>1 DEF Tells, SourcesClosed
  <2>6. c \in {"blocker", "continue"} => told'.blocker = told.blocker
    BY <1>3, <2>1 DEF Tells, SourcesClosed
  <2>7. c \in Optional => told'.reviews = told.reviews
    BY <1>3, <2>1 DEF Tells, SourcesClosed
  <2>8. c \in told.reviews \/ c \in told'.reviews => c \in Optional
    BY <2>2 DEF Told
  <2> QED
    BY <2>1, <2>3, <2>4, <2>5, <2>6, <2>7, <2>8 DEF Holds, SourcesClosed
<1> QED
  BY <1>2, <1>3 DEF Move

LEMMA DueStays ==
  ASSUME RunType, InOrder, Move, NEW n \in DOMAIN statuses, Clear(n)
  PROVE  Clear(n)' /\ (Due(n)' <=> Due(n))
<1>1. \A d \in Needs(n) : d \in DOMAIN statuses /\ statuses'[d] = statuses[d]
  BY AllWellFormed DEF RunType, WellFormed, WellPlaced, Clear, Needs, Move, Closed
<1>2. Needs(n)' = Needs(n) /\ Template[wf'] = Template[wf]
  BY DEF Needs, Move
<1>3. Holds(Template[wf][n].when)' <=> Holds(Template[wf][n].when)
  BY AllSources, HoldsStays DEF Move
<1>4. Clear(n)'
  BY <1>1, <1>2 DEF Clear
<1>5. wf' = wf
  BY DEF Move
<1> QED
  BY <1>1, <1>2, <1>3, <1>4, <1>5 DEF Due

LEMMA MoveKeeps ==
  ASSUME Planned, Move
  PROVE  Planned'
<1> USE DEF Planned
<1>1. RunType'
  BY DEF RunType, Move, Closed, Tells
<1>2. DOMAIN statuses' = DOMAIN statuses
  BY DEF Move
<1>3. InOrder'
  BY <1>2, DueStays DEF InOrder, Move
<1>4. RanWhenDue'
  <2> SUFFICES ASSUME NEW n \in DOMAIN statuses, Ran(n)'
               PROVE  Due(n)'
    BY <1>2 DEF RanWhenDue
  <2>1. Clear(n) /\ Due(n)
    BY DEF Move, Ran, RanWhenDue, InOrder
  <2> QED
    BY <2>1, DueStays
<1>5. SkippedWhenNotDue'
  <2> SUFFICES ASSUME NEW n \in DOMAIN statuses, statuses'[n] = "skipped"
               PROVE  ~Due(n)'
    BY <1>2 DEF SkippedWhenNotDue
  <2>1. Clear(n) /\ ~Due(n)
    BY DEF Move, SkippedWhenNotDue, InOrder
  <2> QED
    BY <2>1, DueStays
<1> QED
  BY <1>1, <1>3, <1>4, <1>5

-----------------------------------------------------------------------------
(* The whole run. *)

\* A gate is completed by a person's approval, or the run was rejected with it.
GateDecided == \A a \in Gates \cap DOMAIN statuses :
                 statuses[a] = "completed" => a \in agreed \/ ended = "cancelled"

\* What comes after a gate, comes after its approval.
AfterApproval ==
  \A n \in DOMAIN statuses : \A a \in Gates \cap Needs(n) :
    Ran(n) /\ statuses[a] = "completed" => a \in agreed

CompletedIsClean ==
  ended = "completed" => \A n \in DOMAIN statuses : statuses[n] \in {"completed", "skipped"}

BlockersAreFix == wf # "fix" => ~told.blocker

RunInv == Planned /\ GateDecided /\ AfterApproval /\ CompletedIsClean /\ BlockersAreFix

LEMMA InitRun == TemplateInit => RunInv
<1> SUFFICES ASSUME TemplateInit PROVE RunInv
  OBVIOUS
<1>1. RunType
  BY TemplatesOf DEF TemplateInit, RunType, Told, Untold
<1>2. \A n \in DOMAIN statuses : statuses[n] = "pending"
  BY DEF TemplateInit
<1>3. Planned
  BY <1>1, <1>2 DEF Planned, InOrder, RanWhenDue, SkippedWhenNotDue, Ran
<1>4. GateDecided /\ AfterApproval
  BY <1>2 DEF GateDecided, AfterApproval, Ran
<1>5. CompletedIsClean /\ BlockersAreFix
  BY DEF TemplateInit, CompletedIsClean, BlockersAreFix, Untold
<1> QED
  BY <1>3, <1>4, <1>5 DEF RunInv

\* And what one step does to the run.
Outer ==
  /\ agreed \subseteq agreed'
  /\ ended = "cancelled" => ended' = "cancelled"
  /\ \A a \in Gates \cap DOMAIN statuses :
       statuses[a] # "completed" /\ statuses'[a] = "completed" => a \in agreed' \/ ended' = "cancelled"
  /\ \A n \in DOMAIN statuses : statuses[n] = "pending" /\ statuses'[n] = "running" => ended = "running"
  /\ ended' = "completed" =>
       \/ ended = "completed" /\ statuses' = statuses
       \/ \A n \in DOMAIN statuses' : statuses'[n] \in {"completed", "skipped"}
  /\ wf # "fix" => told'.blocker = told.blocker

LEMMA OuterKeeps ==
  ASSUME RunInv, Move, Outer
  PROVE  RunInv'
<1>1. Planned'
  BY MoveKeeps DEF RunInv
<1>2. DOMAIN statuses' = DOMAIN statuses /\ wf' = wf
  BY DEF Move
<1>3. GateDecided'
  BY <1>2 DEF RunInv, GateDecided, Outer
<1>4. AfterApproval'
  <2> SUFFICES ASSUME NEW n \in DOMAIN statuses, NEW a \in Gates, a \in Needs(n)',
                      Ran(n)', statuses'[a] = "completed"
               PROVE  a \in agreed'
    BY <1>2 DEF AfterApproval
  <2>1. a \in Needs(n) /\ a \in DOMAIN statuses
    BY <1>2, AllWellFormed DEF Needs, RunInv, Planned, RunType, WellFormed, WellPlaced
  <2>2. CASE Ran(n)
    <3>1. statuses[a] \in Closed
      BY <2>1, <2>2 DEF RunInv, Planned, InOrder, Clear, Ran
    <3>2. statuses[a] = "completed"
      BY <2>1, <3>1 DEF Move, Closed
    <3> QED
      BY <2>1, <2>2, <3>2 DEF RunInv, AfterApproval, Outer
  <2>3. CASE ~Ran(n)
    <3>1. statuses[n] = "pending" /\ statuses'[n] = "running" /\ Clear(n)
      BY <2>3 DEF Move, Ran
    <3>2. statuses[a] = "completed"
      BY <2>1, <3>1 DEF Move, Clear, Closed
    <3>3. ended = "running"
      BY <3>1 DEF Outer
    <3> QED
      BY <2>1, <3>2, <3>3 DEF RunInv, GateDecided, Outer
  <2> QED
    BY <2>2, <2>3
<1>5. CompletedIsClean'
  BY DEF RunInv, CompletedIsClean, Outer
<1>6. BlockersAreFix'
  BY <1>2 DEF RunInv, BlockersAreFix, Outer
<1> QED
  BY <1>1, <1>3, <1>4, <1>5, <1>6 DEF RunInv

LEMMA SettledIsClosed ==
  ASSUME RunType, NEW n \in DOMAIN statuses, RunVerdict = "succeeded",
         statuses[n] \in FixPlanner!Settled
  PROVE  statuses[n] \in {"completed", "skipped"}
<1>1. DOMAIN statuses = DOMAIN Template[wf]
  BY DEF RunType
<1>2. CASE wf = "fix"
  BY <1>1, <1>2, TemplatesOf DEF RunType, RunVerdict, FixPlanner!RunOutcome, FixPlanner!Settled
<1>3. CASE wf = "supervised"
  BY <1>1, <1>3, TemplatesOf DEF RunType, RunVerdict, SupervisedPlanner!RunOutcome, FixPlanner!Settled
<1>4. CASE wf = "scaffold"
  BY <1>1, <1>4, TemplatesOf DEF RunType, RunVerdict, ScaffoldPlanner!RunOutcome, FixPlanner!Settled
<1> QED
  BY <1>2, <1>3, <1>4 DEF RunType

LEMMA StepRun ==
  ASSUME RunInv, [TemplateNext]_templateVars
  PROVE  RunInv'
<1>0. RunType
  BY DEF RunInv, Planned
<1>1. CASE UNCHANGED templateVars
  <2>1. Move /\ Outer
    BY <1>1 DEF templateVars, Move, Outer
  <2> QED
    BY <2>1, OuterKeeps
<1>2. CASE SkipNodes
  <2>1. Move
    BY <1>2, PlanIs, <1>0 DEF SkipNodes, Move
  <2>2. Outer
    BY <1>2 DEF SkipNodes, Outer
  <2> QED
    BY <2>1, <2>2, OuterKeeps
<1>3. CASE StartNode
  <2>1. Move
    BY <1>3, PlanIs, <1>0 DEF StartNode, Move
  <2>2. Outer
    BY <1>3 DEF StartNode, Outer
  <2> QED
    BY <2>1, <2>2, OuterKeeps
<1>4. ASSUME NEW n \in DOMAIN statuses, NodeCompletes(n)
      PROVE  RunInv'
  <2>0. statuses[n] = "running" /\ n \notin Gates /\ ended # "completed"
    BY <1>4 DEF NodeCompletes, Underway, RunInv, CompletedIsClean
  <2>1. Move
    BY <1>4, <2>0 DEF NodeCompletes, Move
  <2>2. Outer
    BY <1>4, <2>0 DEF NodeCompletes, Outer, Tells
  <2> QED
    BY <2>1, <2>2, OuterKeeps
<1>5. ASSUME NEW n \in DOMAIN statuses, NodeFails(n)
      PROVE  RunInv'
  <2>0. statuses[n] = "running" /\ n \notin Gates /\ ended # "completed"
    BY <1>5 DEF NodeFails, Underway, RunInv, CompletedIsClean
  <2>1. Move
    BY <1>5, <2>0 DEF NodeFails, Move
  <2>2. Outer
    BY <1>5, <2>0 DEF NodeFails, Outer
  <2> QED
    BY <2>1, <2>2, OuterKeeps
<1>6. ASSUME NEW a \in Gates, Approve(a) \/ Reject(a)
      PROVE  RunInv'
  <2>0. statuses[a] = "running" /\ a \in DOMAIN statuses /\ ended = "asking"
    BY <1>6 DEF Approve, Reject, Asked, Underway
  <2>1. Move
    BY <1>6, <2>0 DEF Approve, Reject, Move
  <2>2. Outer
    BY <1>6, <2>0 DEF Approve, Reject, Outer
  <2> QED
    BY <2>1, <2>2, OuterKeeps
<1>7. CASE ReworkFails
  <2>0. statuses["plan-gate"] = "running" /\ "plan-gate" \in DOMAIN statuses /\ ended = "asking"
    BY <1>7 DEF ReworkFails, Asked, Underway
  <2>1. Move
    BY <1>7, <2>0 DEF ReworkFails, Move
  <2>2. Outer
    BY <1>7, <2>0 DEF ReworkFails, Outer
  <2> QED
    BY <2>1, <2>2, OuterKeeps
<1>8. CASE EndRun
  <2>1. Move
    BY <1>8 DEF EndRun, Move
  <2>2. ended' = "completed" => \A n \in DOMAIN statuses : statuses[n] \in {"completed", "skipped"}
    <3>1. RunVerdict # "completed"
      BY DEF RunVerdict, FixPlanner!RunOutcome, SupervisedPlanner!RunOutcome, ScaffoldPlanner!RunOutcome
    <3> QED
      BY <1>0, <1>8, <3>1, SettledIsClosed DEF EndRun
  <2>3. Outer
    BY <1>8, <2>2 DEF EndRun, Outer
  <2> QED
    BY <2>1, <2>3, OuterKeeps
<1> QED
  BY <1>1, <1>2, <1>3, <1>4, <1>5, <1>6, <1>7, <1>8 DEF TemplateNext, Underway

-----------------------------------------------------------------------------
(* What was agreed to. *)

\* A node that ran, ran after what it needs.
LEMMA RanAfter ==
  ASSUME Planned, NEW n \in DOMAIN statuses, Ran(n), Template[wf][n].rule = "all_success",
         NEW d \in Needs(n)
  PROVE  statuses[d] = "completed" /\ Ran(d)
<1>1. statuses[d] = "completed"
  BY DEF Planned, RanWhenDue, Due
<1> QED
  BY <1>1 DEF Ran

LEMMA SupervisedChain ==
  ASSUME Planned, wf = "supervised"
  PROVE  /\ Ran("implement") => statuses["plan-gate"] = "completed"
         /\ Ran("plan-gate") => Ran("post-summary")
         /\ Ran("post-summary") => Ran("summarize")
         /\ Ran("summarize") => Ran("bridge-artifacts")
         /\ Ran("bridge-artifacts") => Ran("investigate") \/ Ran("plan")
         /\ Ran("investigate") \/ Ran("plan") => Ran("clarify-merge")
<1>0. Template[wf] = Supervised /\ DOMAIN statuses = DOMAIN Supervised
  BY TemplatesOf DEF Planned, RunType
<1> USE DEF Needs, After, When, OneSuccess, Task
<1>1. Ran("implement") => statuses["plan-gate"] = "completed"
  BY <1>0, SupervisedParts, BuildNodes, RanAfter
<1>2. Ran("plan-gate") => Ran("post-summary")
  BY <1>0, SupervisedParts, PlanNodes, RanAfter
<1>3. Ran("post-summary") => Ran("summarize")
  BY <1>0, SupervisedParts, PlanNodes, RanAfter
<1>4. Ran("summarize") => Ran("bridge-artifacts")
  BY <1>0, SupervisedParts, PlanNodes, RanAfter
<1>5. Ran("bridge-artifacts") => Ran("investigate") \/ Ran("plan")
  BY <1>0, SupervisedParts, PlanNodes DEF Planned, RanWhenDue, Due, Ran
<1>6. Ran("investigate") \/ Ran("plan") => Ran("clarify-merge")
  BY <1>0, SupervisedParts, PlanNodes, RanAfter
<1> QED
  BY <1>1, <1>2, <1>3, <1>4, <1>5, <1>6

\* Past the merge of its questions, a run had no questions, or had them answered
\* at the first gate, or something failed there.
LEMMA QuestionsAnswered ==
  ASSUME RunInv, wf = "supervised", Ran("clarify-merge"), told.questions = "some", Failed = {}
  PROVE  "clarify-gate-round-1" \in agreed /\ statuses["clarify-evaluate-round-1"] = "completed"
<1>0. /\ Template[wf] = Supervised /\ DOMAIN statuses = DOMAIN Supervised
      /\ Planned /\ RunType /\ InOrder
  BY TemplatesOf DEF RunInv, Planned, RunType
<1>13. /\ {"clarify-needed", "clarify-post-round-1", "clarify-gate-round-1",
          "clarify-evaluate-round-1", "clarify-post-round-2", "clarify-gate-round-2",
          "clarify-append-round-2", "clarify-merge"} \subseteq DOMAIN statuses
  BY <1>0, SupervisedNames
<1>1. \A n \in DOMAIN statuses : statuses[n] \in Closed => statuses[n] \in {"completed", "skipped"}
  BY DEF Failed, Closed
<1>2. /\ statuses["clarify-needed"] \in Closed /\ statuses["clarify-evaluate-round-1"] \in Closed
      /\ statuses["clarify-append-round-2"] \in Closed
      /\ \/ statuses["clarify-needed"] = "completed"
         \/ statuses["clarify-evaluate-round-1"] = "completed"
         \/ statuses["clarify-append-round-2"] = "completed"
  BY <1>0, <1>13, SupervisedParts, AskAgainNodes
  DEF OneSuccess, Task, Planned, InOrder, Clear, RanWhenDue, Due, Ran, Needs
<1> USE DEF Needs, After, When, OneSuccess, Task
<1>3. /\ statuses["clarify-append-round-2"] = "completed" => statuses["clarify-gate-round-2"] = "completed"
      /\ statuses["clarify-gate-round-2"] = "completed" => statuses["clarify-post-round-2"] = "completed"
      /\ statuses["clarify-post-round-2"] = "completed" => statuses["clarify-evaluate-round-1"] = "completed"
  BY <1>0, <1>13, SupervisedParts, AskAgainNodes, RanAfter DEF Ran
<1>4. /\ statuses["clarify-evaluate-round-1"] = "completed" => statuses["clarify-gate-round-1"] = "completed"
      /\ statuses["clarify-gate-round-1"] = "completed" => statuses["clarify-post-round-1"] = "completed"
      /\ statuses["clarify-post-round-1"] = "completed" => statuses["clarify-needed"] = "completed"
  BY <1>0, <1>13, SupervisedParts, AskNodes, RanAfter DEF Ran
<1>5. statuses["clarify-needed"] = "completed"
  BY <1>2, <1>3, <1>4
<1>6. Holds("asked")
  BY <1>5, <1>13 DEF Holds, Done
<1>7. /\ Clear("clarify-evaluate-round-1") /\ statuses["clarify-gate-round-1"] \in Closed
      /\ statuses["clarify-post-round-1"] \in Closed
  BY <1>0, <1>2, <1>13, SupervisedParts, AskNodes, Upstream DEF Clear
<1>8. /\ Supervised["clarify-post-round-1"] = When({"clarify-needed"}, "asked")
      /\ Supervised["clarify-gate-round-1"] = When({"clarify-post-round-1"}, "asked")
      /\ Supervised["clarify-evaluate-round-1"] = When({"clarify-gate-round-1"}, "asked")
  BY SupervisedParts, AskNodes
<1>9. statuses["clarify-post-round-1"] = "completed"
  BY <1>0, <1>1, <1>5, <1>6, <1>7, <1>8, <1>13 DEF Planned, SkippedWhenNotDue, Due
<1>10. statuses["clarify-gate-round-1"] = "completed"
  BY <1>0, <1>1, <1>6, <1>7, <1>8, <1>9, <1>13 DEF Planned, SkippedWhenNotDue, Due
<1>11. statuses["clarify-evaluate-round-1"] = "completed"
  BY <1>0, <1>1, <1>2, <1>6, <1>8, <1>10, <1>13 DEF Planned, SkippedWhenNotDue, Due
<1>12. "clarify-gate-round-1" \in agreed
  BY <1>0, <1>8, <1>10, <1>11, <1>13 DEF RunInv, AfterApproval, Ran, Gates
<1> QED
  BY <1>11, <1>12

LEMMA NothingUnasked == RunInv => NothingBuiltUnasked
<1> SUFFICES ASSUME RunInv PROVE NothingBuiltUnasked
  OBVIOUS
<1>0. Planned /\ RunType
  BY DEF RunInv, Planned
<1>1. ASSUME wf = "supervised", statuses["implement"] \notin {"pending", "skipped"}
      PROVE  "plan-gate" \in agreed
             /\ (told.questions # "some" \/ "clarify-gate-round-1" \in agreed \/ Failed # {})
  <2>1. "implement" \in DOMAIN statuses /\ Needs("implement") = {"plan-gate"}
    BY <1>0, <1>1, TemplatesOf, SupervisedParts, BuildNodes DEF RunType, Needs, After, Task
  <2>2. Ran("implement")
    BY <1>0, <1>1, <2>1 DEF RunType, Closed, Ran
  <2>3. statuses["plan-gate"] = "completed" /\ Ran("clarify-merge")
    BY <1>0, <1>1, <2>2, SupervisedChain DEF Ran
  <2>4. "plan-gate" \in agreed
    BY <2>1, <2>2, <2>3 DEF RunInv, AfterApproval, Gates
  <2> QED
    BY <1>1, <2>3, <2>4, QuestionsAnswered
<1>2. ASSUME wf # "scaffold", told.blocker
      PROVE  statuses["create-pr"] \in {"pending", "skipped"}
  <2>1. wf = "fix" /\ Template[wf] = FixIssue /\ DOMAIN statuses = DOMAIN FixIssue
    BY <1>0, <1>2, TemplatesOf DEF RunInv, BlockersAreFix, RunType
  <2>2. /\ {"create-pr", "validate", "validate-script"} \subseteq DOMAIN statuses
        /\ FixIssue["create-pr"] = After({"validate"})
        /\ FixIssue["validate"] = After({"validate-script"})
        /\ FixIssue["validate-script"] = When({"check-blocker"}, "continue")
    BY <2>1, FixParts, DeliverNodes
  <2>3. ~Holds("continue")
    BY <1>2, <2>1 DEF Holds, RunInv, Planned, RunType, Told, Optional
  <2>4. ~Ran("validate-script")
    BY <2>1, <2>2, <2>3, <1>0 DEF Planned, RanWhenDue, Due, When, Task
  <2>5. ~Ran("create-pr")
    BY <1>0, <2>1, <2>2, <2>4, RanAfter DEF Needs, After, Task
  <2> QED
    BY <1>0, <2>2, <2>5 DEF RunType, Closed, Ran
<1> QED
  BY <1>1, <1>2 DEF NothingBuiltUnasked

\* However its nodes are interleaved and whichever of them fail, a supervised run
\* writes code only after its plan was approved and its questions were answered,
\* and neither workflow opens a pull request for work that a blocker holds up
\* (cli/templates-default.ts, plan-gate, clarify-gate-round-1, validate-script;
\* planner.ts, plan).
THEOREM NothingUnaskedCorrect == TemplateSpec => []NothingBuiltUnasked
<1>1. RunInv /\ [TemplateNext]_templateVars => RunInv'
  BY StepRun
<1> QED
  BY InitRun, <1>1, NothingUnasked, PTL DEF TemplateSpec

-----------------------------------------------------------------------------
(* What was delivered. *)

\* In a run that completed, a node was done exactly when it was due.
LEMMA CompletedNode ==
  ASSUME RunInv, ended = "completed", NEW n \in DOMAIN statuses
  PROVE  /\ statuses[n] \in {"completed", "skipped"}
         /\ statuses[n] = "completed" <=> Due(n)
<1>1. statuses[n] \in {"completed", "skipped"}
  BY DEF RunInv, CompletedIsClean
<1> QED
  BY <1>1 DEF RunInv, Planned, RanWhenDue, SkippedWhenNotDue, Ran

\* After one node, under no condition.
LEMMA CompletedAfter ==
  ASSUME RunInv, ended = "completed", NEW n \in DOMAIN statuses, NEW d,
         Template[wf][n] = After({d})
  PROVE  statuses[n] = "completed" <=> statuses[d] = "completed"
  BY CompletedNode DEF Due, Needs, Holds, After, Task

LEMMA CompletedWhen ==
  ASSUME RunInv, ended = "completed", NEW n \in DOMAIN statuses, NEW d, NEW c,
         Template[wf][n] = When({d}, c)
  PROVE  statuses[n] = "completed" <=> statuses[d] = "completed" /\ Holds(c)
  BY CompletedNode DEF Due, Needs, When, Task

\* The review, which both workflows end with.
LEMMA ReviewDelivers ==
  ASSUME RunInv, ended = "completed", wf \in {"fix", "supervised"},
         statuses["verify-pr-base"] = "completed"
  PROVE  \A n \in {"code-review", "synthesize", "self-fix", "report"} : Done(n)
<1>0. /\ DOMAIN FixReview \subseteq DOMAIN statuses
      /\ \A n \in DOMAIN FixReview : Template[wf][n] = FixReview[n]
  BY TemplatesOf, FixParts, SupervisedParts DEF RunInv, Planned, RunType
<1>1. ReviewNames \subseteq DOMAIN statuses
  BY <1>0, ReviewNodes
<1>2. statuses["review-scope"] = "completed"
  BY <1>0, <1>1, ReviewNodes, CompletedAfter DEF ReviewNames
<1>3. statuses["review-classify"] = "completed"
  BY <1>0, <1>1, <1>2, ReviewNodes, CompletedAfter DEF ReviewNames
<1>4. statuses["code-review"] = "completed"
  BY <1>0, <1>1, <1>3, ReviewNodes, CompletedAfter DEF ReviewNames
<1>5. statuses["synthesize"] = "completed"
  BY <1>0, <1>1, <1>4, ReviewNodes, CompletedNode DEF ReviewNames, Due, Needs, Holds, OneSuccess, Task
<1>6. statuses["self-fix"] = "completed"
  BY <1>0, <1>1, <1>5, ReviewNodes, CompletedAfter DEF ReviewNames
<1>7. statuses["simplify"] = "completed"
  BY <1>0, <1>1, <1>6, ReviewNodes, CompletedAfter DEF ReviewNames
<1>8. statuses["report"] = "completed"
  BY <1>0, <1>1, <1>7, ReviewNodes, CompletedAfter DEF ReviewNames
<1> QED
  BY <1>1, <1>4, <1>5, <1>6, <1>8 DEF Done, ReviewNames

\* One of the two branches, and their merge.
LEMMA OneBranch ==
  ASSUME RunInv, ended = "completed", NEW d,
         {"investigate", "plan", "bridge-artifacts"} \subseteq DOMAIN statuses,
         statuses[d] = "completed",
         Template[wf]["investigate"] = When({d}, "bug"),
         Template[wf]["plan"] = When({d}, "other"),
         Template[wf]["bridge-artifacts"] = OneSuccess({"investigate", "plan"})
  PROVE  /\ Done("investigate") # Done("plan")
         /\ statuses["bridge-artifacts"] = "completed"
<1>1. Holds("bug") <=> ~Holds("other")
  BY DEF Holds, RunInv, Planned, RunType, Told, Optional
<1>2. statuses["investigate"] = "completed" <=> Holds("bug")
  BY CompletedWhen
<1>3. statuses["plan"] = "completed" <=> Holds("other")
  BY CompletedWhen
<1>4. statuses["bridge-artifacts"] = "completed"
  BY <1>1, <1>2, <1>3, CompletedNode DEF Due, Needs, Holds, OneSuccess, Task
<1> QED
  BY <1>1, <1>2, <1>3, <1>4, Zenon DEF Done

LEMMA FixDelivers ==
  ASSUME RunInv, ended = "completed", wf = "fix"
  PROVE  CompletedRunDelivers
<1>0. /\ Template[wf] = FixIssue /\ DOMAIN statuses = DOMAIN FixIssue
      /\ {"classify", "investigate", "plan", "bridge-artifacts", "implement", "check-blocker",
          "blocker-gate", "validate-script", "validate", "create-pr", "verify-pr-base"}
           \subseteq DOMAIN statuses
  BY TemplatesOf, FixNames DEF RunInv, Planned, RunType
<1>1. statuses["classify"] = "completed"
  BY <1>0, FixParts, ResearchNodes, CompletedNode DEF Due, Needs, Holds, After, Task
<1>2. /\ Done("investigate") # Done("plan")
      /\ statuses["bridge-artifacts"] = "completed"
  BY <1>0, <1>1, FixParts, ResearchNodes, OneBranch
<1>3. /\ FixIssue["implement"] = After({"bridge-artifacts"})
      /\ FixIssue["check-blocker"] = After({"implement"})
      /\ FixIssue["blocker-gate"] = When({"check-blocker"}, "blocker")
  BY FixParts, ImplementNodes
<1>4. statuses["implement"] = "completed" /\ statuses["check-blocker"] = "completed"
  BY <1>0, <1>2, <1>3, CompletedAfter
<1>5. /\ FixIssue["validate-script"] = When({"check-blocker"}, "continue")
      /\ FixIssue["validate"] = After({"validate-script"})
      /\ FixIssue["create-pr"] = After({"validate"})
      /\ FixIssue["verify-pr-base"] = After({"create-pr"})
  BY FixParts, DeliverNodes
<1>6. /\ statuses["validate"] = "completed" <=> statuses["validate-script"] = "completed"
      /\ statuses["create-pr"] = "completed" <=> statuses["validate"] = "completed"
      /\ statuses["verify-pr-base"] = "completed" <=> statuses["create-pr"] = "completed"
  BY <1>0, <1>5, CompletedAfter
<1>7. CASE told.blocker
  <2>1. Holds("blocker") /\ ~Holds("continue")
    BY <1>0, <1>4, <1>7 DEF Holds, Done, RunInv, Planned, RunType, Told, Optional
  <2>2. statuses["blocker-gate"] = "completed"
    BY <1>0, <1>3, <1>4, <2>1, CompletedWhen
  <2>3. "blocker-gate" \in agreed
    BY <1>0, <2>2 DEF RunInv, GateDecided, Gates
  <2>4. statuses["validate-script"] # "completed"
    BY <1>0, <1>5, <2>1, CompletedWhen
  <2>5. statuses["create-pr"] = "skipped"
    BY <1>0, <1>6, <2>4, CompletedNode
  <2> QED
    BY <1>0, <1>4, <2>3, <2>5 DEF CompletedRunDelivers, Done
<1>8. CASE ~told.blocker
  <2>1. Holds("continue")
    BY <1>0, <1>4, <1>8 DEF Holds, Done
  <2>2. statuses["validate-script"] = "completed"
    BY <1>0, <1>4, <1>5, <2>1, CompletedWhen
  <2>3. \A n \in Steps : Done(n)
    BY <1>0, <1>4, <1>6, <2>2, ReviewDelivers DEF Steps, Done
  <2> QED
    BY <1>2, <2>3 DEF CompletedRunDelivers
<1> QED
  BY <1>7, <1>8

LEMMA SupervisedDelivers ==
  ASSUME RunInv, ended = "completed", wf = "supervised"
  PROVE  CompletedRunDelivers
<1>0. /\ Template[wf] = Supervised /\ DOMAIN statuses = DOMAIN Supervised
      /\ {"classify", "clarify", "clarify-needed", "clarify-merge", "clarify-evaluate-round-1",
          "investigate", "plan", "bridge-artifacts", "summarize", "post-summary", "plan-gate",
          "implement", "validate-script", "validate", "create-pr", "verify-pr-base"}
           \subseteq DOMAIN statuses
  BY TemplatesOf, SupervisedNames DEF RunInv, Planned, RunType
<1>1. statuses["classify"] = "completed"
  BY <1>0, SupervisedParts, AskNodes, CompletedNode DEF Due, Needs, Holds, After, Task
<1>2. statuses["clarify"] = "completed"
  BY <1>0, <1>1, SupervisedParts, AskNodes, CompletedAfter
<1>3. statuses["clarify-needed"] = "completed"
  BY <1>0, <1>2, SupervisedParts, AskNodes, CompletedAfter
<1>4. statuses["clarify-merge"] = "completed"
  BY <1>0, <1>3, SupervisedParts, AskAgainNodes, CompletedNode DEF Due, Needs, Holds, OneSuccess, Task
<1>5. /\ Done("investigate") # Done("plan")
      /\ statuses["bridge-artifacts"] = "completed"
  BY <1>0, <1>4, SupervisedParts, PlanNodes, OneBranch
<1>6. statuses["summarize"] = "completed"
  BY <1>0, <1>5, SupervisedParts, PlanNodes, CompletedAfter
<1>7. statuses["post-summary"] = "completed"
  BY <1>0, <1>6, SupervisedParts, PlanNodes, CompletedAfter
<1>8. statuses["plan-gate"] = "completed"
  BY <1>0, <1>7, SupervisedParts, PlanNodes, CompletedAfter
<1>9. statuses["implement"] = "completed"
  BY <1>0, <1>8, SupervisedParts, BuildNodes, CompletedAfter
<1>10. statuses["validate-script"] = "completed"
  BY <1>0, <1>9, SupervisedParts, BuildNodes, CompletedAfter
<1>11. statuses["validate"] = "completed"
  BY <1>0, <1>10, SupervisedParts, BuildNodes, CompletedAfter
<1>12. statuses["create-pr"] = "completed"
  BY <1>0, <1>11, SupervisedParts, HandoverNodes, CompletedAfter
<1>13. statuses["verify-pr-base"] = "completed"
  BY <1>0, <1>12, SupervisedParts, HandoverNodes, CompletedAfter
<1>14. \A n \in Steps : Done(n)
  BY <1>0, <1>9, <1>11, <1>12, <1>13, ReviewDelivers DEF Steps, Done
<1>15. told.questions = "some" => Done("clarify-evaluate-round-1")
  <2>1. Failed = {}
    BY CompletedNode DEF Failed
  <2> QED
    BY <1>0, <1>4, <2>1, QuestionsAnswered DEF Ran, Done
<1> QED
  BY <1>5, <1>14, <1>15 DEF CompletedRunDelivers

LEMMA ScaffoldDelivers ==
  ASSUME RunInv, ended = "completed", wf = "scaffold"
  PROVE  CompletedRunDelivers
<1>0. /\ Template[wf] = Scaffold /\ {"inspect", "draft"} \subseteq DOMAIN statuses
  BY TemplatesOf, ScaffoldNodes DEF RunInv, Planned, RunType
<1>1. statuses["inspect"] = "completed"
  BY <1>0, ScaffoldNodes, CompletedNode DEF Due, Needs, Holds, After, Task
<1>2. statuses["draft"] = "completed"
  BY <1>0, <1>1, ScaffoldNodes, CompletedAfter
<1> QED
  BY <1>0, <1>2 DEF CompletedRunDelivers, Done

\* A run that completed did the whole job, whichever branches it took, or ends at
\* a blocker that a person approved: no node on the way to the pull request and
\* its review can be skipped in a run that nothing failed in
\* (cli/templates-default.ts; planner.ts, plan and runOutcome).
THEOREM DeliversCorrect == TemplateSpec => []CompletedRunDelivers
<1>1. RunInv /\ [TemplateNext]_templateVars => RunInv'
  BY StepRun
<1>2. RunInv => CompletedRunDelivers
  <2>1. RunInv /\ ended = "completed" => CompletedRunDelivers
    BY FixDelivers, SupervisedDelivers, ScaffoldDelivers DEF RunInv, Planned, RunType
  <2>2. ended # "completed" => CompletedRunDelivers
    BY DEF CompletedRunDelivers
  <2> QED
    BY <2>1, <2>2
<1> QED
  BY InitRun, <1>1, <1>2, PTL DEF TemplateSpec
==============================================================================

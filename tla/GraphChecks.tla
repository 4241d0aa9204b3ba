---------------------------- MODULE GraphChecks ----------------------------
(***************************************************************************)
(* The searches of the workflow validator as they are written              *)
(* (executor/engine/validate.ts), against what DocumentGraph says they     *)
(* find.  TLC compares them on every document of three nodes.              *)
(***************************************************************************)
EXTENDS DocumentGraph, Naturals, FiniteSetsExt

\* findCycle visits depth first; a node met while it is being visited closes a
\* cycle, and one that is done is not entered again.
RECURSIVE Visit(_, _, _, _)
Visit(nodes, deps, n, walk) ==
  IF walk.cycle \/ walk.seen[n] = "done" THEN walk
  ELSE IF walk.seen[n] = "visiting" THEN [walk EXCEPT !.cycle = TRUE]
  ELSE LET below == FoldSet(LAMBDA d, w : Visit(nodes, deps, d, w),
                            [walk EXCEPT !.seen[n] = "visiting"], deps[n] \cap nodes)
       IN [below EXCEPT !.seen[n] = "done"]

FindCycle(nodes, deps) ==
  FoldSet(LAMBDA n, w : Visit(nodes, deps, n, w),
          [cycle |-> FALSE, seen |-> [n \in nodes |-> "new"]], nodes).cycle

\* ancestorsOf walks depends_on backwards with a stack.
RECURSIVE Walk(_, _, _, _)
Walk(nodes, deps, stack, seen) ==
  LET new == stack \ seen
  IN IF new = {} THEN seen
     ELSE Walk(nodes, deps, UNION {deps[d] : d \in new \cap nodes}, seen \cup new)

AncestorsOf(nodes, deps, n) == Walk(nodes, deps, deps[n], {})

\* 0 is a name that the document does not have.
ThreeNodes == 1..3

\* A cycle is found exactly when some nodes wait for each other.
ASSUME CyclesAreFound ==
  \A deps \in [ThreeNodes -> SUBSET (0..3)] :
    FindCycle(ThreeNodes, deps) = Cyclic(ThreeNodes, deps)

\* The ancestors found are all that a node waits for and nothing else.
ASSUME AncestorsAreFound ==
  \A deps \in [ThreeNodes -> SUBSET (0..3)] : \A n \in ThreeNodes :
    AncestorsOf(ThreeNodes, deps, n) = Upstream(ThreeNodes, deps, n)
=============================================================================

------------------------------- MODULE MCHost -------------------------------
(***************************************************************************)
(* The processes and the runs of one machine for TLC.  Components that     *)
(* share no variable are checked in one run: which of them a behaviour is  *)
(* about is chosen at its start, and the others rest in their initial      *)
(* states.                                                                 *)
(***************************************************************************)
EXTENDS RunEngine, NodeAttempts, HubProcesses, TrackerAccess, DefaultWorkflows

CONSTANTS g, h, s, p1, c1, c2, q1, q2

VARIABLE part

\* Two gates in one layer; s joins them, if its condition holds.
TwoGates == [n \in Node |-> IF n = s THEN {g, h} ELSE {}]
NoneFailed == [n \in Node |-> "none_failed_min_one_success"]
NoRework == [n \in Node |-> 0]

\* Two daemons, with one call each.
CallersOwn == [q \in Call |-> IF q = q1 THEN c1 ELSE c2]

hostVars == <<part, vars, nodeVars, hubVars, trackerVars, templateVars>>

HostInit ==
  /\ part \in {"runs", "nodes", "hub", "tracker", "templates"}
  /\ Init /\ NodeInit /\ HubInit /\ TrackerInit /\ TemplateInit
  /\ part # "runs" => \A n \in Node : holds[n]
  /\ part # "nodes" => body = "shell"
  /\ part # "templates" => wf = "scaffold"

HostNext ==
  \/ part = "runs" /\ Next
     /\ UNCHANGED <<part, nodeVars, hubVars, trackerVars, templateVars>>
  \/ part = "nodes" /\ NodeNext
     /\ UNCHANGED <<part, vars, hubVars, trackerVars, templateVars>>
  \/ part = "hub" /\ HubNext
     /\ UNCHANGED <<part, vars, nodeVars, trackerVars, templateVars>>
  \/ part = "tracker" /\ TrackerNext
     /\ UNCHANGED <<part, vars, nodeVars, hubVars, templateVars>>
  \/ part = "templates" /\ TemplateNext
     /\ UNCHANGED <<part, vars, nodeVars, hubVars, trackerVars>>

-----------------------------------------------------------------------------
\* Fairness of RunEngine, in the behaviours that are about a run.
RunsFair ==
  /\ \A p \in Proc :
       /\ WF_vars(part = "runs" /\ RunnerStep(p))
       /\ WF_vars(part = "runs" /\ (Decide(p) \/ RecoveryStep(p) \/ Restart(p)))
  /\ WF_vars(part = "runs" /\ LeaseLapses)

\* Timers, bounded waits and model calls come to an end.
NodesFair == WF_nodeVars(part = "nodes" /\ NodeOwnStep)

\* The hub's own callbacks run; daemons and operators owe nothing.
HubFair == \A n \in Record : WF_hubVars(part = "hub" /\ HubOwnStep(n))

\* A call goes on and a refresh goes on: each has a deadline.
TrackerFair ==
  /\ \A q \in Call : WF_trackerVars(part = "tracker" /\ CallStep(q))
  /\ \A c \in Client : WF_trackerVars(part = "tracker" /\ RefreshStep(c))

HostSpec ==
  HostInit /\ [][HostNext]_hostVars /\ RunsFair /\ NodesFair /\ HubFair /\ TrackerFair

-----------------------------------------------------------------------------
\* Every variable of the components has its type, in every state.
HostTypeOK == TypeOK /\ NodeTypeOK /\ HubTypeOK /\ TrackerTypeOK /\ TemplateTypeOK

\* In the behaviours that are about a node, it ends (NodeAttempts); in the
\* others it waits.
EveryNodeEnds == part = "nodes" => NodeEnds
=============================================================================

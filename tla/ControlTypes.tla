---------------------------- MODULE ControlTypes ----------------------------
(***************************************************************************)
(* The statuses of the control plane, the named groups of statuses its     *)
(* guards are written with, and the ticket status a fan-out implies        *)
(* (src/control/types.ts).                                                 *)
(*                                                                         *)
(* A target that has no row is in the extra status "absent": the analyzer  *)
(* replaces the whole fan-out, so a repository is a slot of its ticket     *)
(* that an analysis either fills or leaves empty.                          *)
(***************************************************************************)

TicketStatus == {"imported", "analysis_requested", "analyzing", "analyzed",
                 "analysis_failed", "running", "done", "cancelled", "archived"}

TargetStatus == {"excluded", "blocked", "ready", "dispatching", "running",
                 "gate_waiting", "succeeded", "failed", "cancelled"}

PreRun      == {"imported", "analyzed", "analysis_failed"}
Settled     == {"succeeded", "failed", "cancelled"}
Live        == {"dispatching", "running", "gate_waiting"}
PreDispatch == {"excluded", "blocked", "ready"}

GateDecision == {"approved", "rejected", "blocker"}
NoDecision   == "none"

(***************************************************************************)
(* Which targets of the set T count towards completion, and the ticket     *)
(* status the statuses st of T imply: "done", "running", or "none" when    *)
(* there is no fan-out at all.                                             *)
(***************************************************************************)
Fanout(st, T) == {t \in T : st[t] # "absent"}

Participating(st, T) == {t \in Fanout(st, T) : st[t] # "excluded"}

SettleTicketStatus(st, T) ==
  IF Fanout(st, T) = {} THEN "none"
  ELSE IF \A t \in Participating(st, T) : st[t] = "succeeded"
       THEN "done"
       ELSE "running"
=============================================================================

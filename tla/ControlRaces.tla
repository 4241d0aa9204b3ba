---------------------------- MODULE ControlRaces ----------------------------
(***************************************************************************)
(* The control plane at the grain of its statements.                       *)
(*                                                                         *)
(* ControlPlane takes every sweep and every transaction as one step.  Four *)
(* pieces of code are not: the two requeue sweeps and startup recovery     *)
(* list rows and then update each one by id, with no lock and no check of  *)
(* the status they read; the readiness pass judges a ticket's targets from *)
(* an unlocked read and applies its verdicts through the envelope, which   *)
(* asks only whether the target is still blocked or ready; and the         *)
(* transaction that cancels a ticket holds the ticket's row but not its    *)
(* targets', while claimReadyTargets locks targets and no ticket.          *)
(*                                                                         *)
(* Here each is its read and its writes, and everything else of            *)
(* ControlPlane may happen in between.  A daemon runs one of these sweeps  *)
(* at a time, because the steps of its tick follow each other; a tick that *)
(* was abandoned in the middle of one, and its successor, are left out.    *)
(***************************************************************************)
EXTENDS ControlPlane

VARIABLES
  stage,      \* which pass daemon d is in
  pending,    \* the writes it has decided on: row and new status
  snapshot    \* the statuses a cancelling transaction read, <<>> when none runs

raceVars == <<stage, pending, snapshot>>
allVars == <<vars, raceVars>>

RaceInit ==
  /\ Init
  /\ stage = [d \in Daemon |-> "startup"]
  /\ pending = [d \in Daemon |-> {}]
  /\ snapshot = [k \in Ticket |-> <<>>]

Cancelling(k) == snapshot[k] # <<>>

\* A pass reads its rows and decides what it will write.
Decide(d, from, to, writes) ==
  /\ stage[d] = from
  /\ stage' = [stage EXCEPT ![d] = to]
  /\ pending' = [pending EXCEPT ![d] = writes]

\* One write of the pass is over.
Done(d, write) ==
  /\ write \in pending[d]
  /\ pending' = [pending EXCEPT ![d] = @ \ {write}]
  /\ UNCHANGED <<stage, snapshot>>

-----------------------------------------------------------------------------
(* sweepOrphanedTargets *)

ReadOrphans(d) ==
  /\ Running(d)
  /\ \E S \in SUBSET {t \in Target : status[t] \in {"running", "gate_waiting"} /\ ~hasRun[t]} \ {{}} :
       Decide(d, "idle", "orphans", S \X {"ready"})
  /\ UNCHANGED <<vars, snapshot>>

\* updateTarget by id, whatever the row says by now.
RequeueTarget(d, t) ==
  /\ stage[d] \in {"orphans", "claims"}
  /\ Done(d, <<t, "ready">>)
  /\ status' = [status EXCEPT ![t] = "ready"]
  /\ UNCHANGED <<tstatus, blocked, deployed, rowVars, daemonVars>>

-----------------------------------------------------------------------------
(* recoverOnStartup *)

ReadClaims(d) ==
  /\ phase[d] = "startup"
  /\ \E S \in SUBSET {t \in Target : status[t] = "dispatching"} :
       Decide(d, "startup", "claims", S \X {"ready"})
  /\ UNCHANGED <<vars, snapshot>>

ReadAnalyses(d) ==
  /\ pending[d] = {}
  /\ \E A \in SUBSET {k \in Ticket : tstatus[k] = "analyzing"} :
       Decide(d, "claims", "analyses", A \X {"analysis_requested"})
  /\ UNCHANGED <<vars, snapshot>>

\* updateTicket by id: it waits for a lock, and then overwrites what it finds.
ReopenTicket(d, k) ==
  /\ stage[d] = "analyses"
  /\ ~Cancelling(k)
  /\ Done(d, <<k, "analysis_requested">>)
  /\ tstatus' = [tstatus EXCEPT ![k] = "analysis_requested"]
  /\ UNCHANGED <<blocked, status, deployed, rowVars, daemonVars>>

FinishRecovery(d) ==
  /\ pending[d] = {}
  /\ Decide(d, "analyses", "idle", {})
  /\ phase' = [phase EXCEPT ![d] = "up"]
  /\ UNCHANGED <<tstatus, blocked, status, deployed, rowVars, slots, analysing,
                 spawning, answers, answering, restarts, snapshot>>

-----------------------------------------------------------------------------
(* promoteBlockedTargets and evaluateReadiness *)

\* Mutant: the pass judges tickets that have not started.
JudgeUnstarted(d, k) ==
  /\ Running(d)
  /\ Decide(d, "idle", "readiness",
            {<<t, "ready">> : t \in {u \in TargetsOf(k) : status[u] = "blocked" /\ Ready(u, status)}})
  /\ UNCHANGED <<vars, snapshot>>

JudgeReadiness(d, k) ==
  /\ Running(d)
  /\ tstatus[k] = "running"
  /\ LET promoted == {t \in TargetsOf(k) : status[t] = "blocked" /\ Ready(t, status)}
         demoted  == {t \in TargetsOf(k) : status[t] = "ready" /\ ~Ready(t, status)}
     IN /\ promoted \cup demoted # {}
        /\ Decide(d, "idle", "readiness", promoted \X {"ready"} \cup demoted \X {"blocked"})
  /\ UNCHANGED <<vars, snapshot>>

\* blockers_satisfied and blockers_unsatisfied ask for the target's status and
\* for nothing else.
Accepted(t, to) == \/ status[t] = "blocked" /\ to = "ready"
                   \/ status[t] = "ready" /\ to = "blocked"

ApplyVerdict(d, t, to) ==
  /\ stage[d] = "readiness"
  /\ Accepted(t, to)
  /\ Done(d, <<t, to>>)
  /\ Move(t, to)
  /\ UNCHANGED <<blocked, deployed, rowVars, daemonVars>>

\* A refused verdict throws, and the rest of the pass is abandoned.
VerdictRefused(d, t, to) ==
  /\ <<t, to>> \in pending[d]
  /\ ~Accepted(t, to)
  /\ Decide(d, "readiness", "idle", {})
  /\ UNCHANGED <<vars, snapshot>>

FinishSweep(d) ==
  /\ pending[d] = {}
  /\ \E pass \in {"orphans", "readiness"} : Decide(d, pass, "idle", {})
  /\ UNCHANGED <<vars, snapshot>>

-----------------------------------------------------------------------------
(* cancel_requested on a ticket *)

\* lockTicket, then listTargets: the snapshot the cancellation works from.
BeginCancel(k) ==
  /\ ~Cancelling(k)
  /\ tstatus[k] \in {"running", "analyzed", "analyzing", "analysis_requested"}
  /\ snapshot' = [snapshot EXCEPT ![k] = status]
  /\ UNCHANGED <<vars, stage, pending>>

CommitCancel(k) ==
  /\ Cancelling(k)
  /\ LET seen == snapshot[k] IN
       /\ status' = [t \in Target |-> IF TicketOf[t] = k /\ seen[t] \in {"blocked", "ready"}
                                      THEN "cancelled" ELSE status[t]]
       /\ cancelReq' = [t \in Target |-> \/ cancelReq[t]
                                         \/ TicketOf[t] = k /\ seen[t] \in Live]
  /\ tstatus' = [tstatus EXCEPT ![k] = "cancelled"]
  /\ snapshot' = [snapshot EXCEPT ![k] = <<>>]
  /\ UNCHANGED <<blocked, deployed, hasRun, ran, rework, decision, basis, daemonVars,
                 stage, pending>>

\* Every other transaction on the ticket waits for its row; a dispatch claim
\* and a recovery requeue lock targets only.
RespectsLocks ==
  \A k \in Ticket : Cancelling(k) =>
    /\ tstatus'[k] = tstatus[k]
    /\ \A t \in TargetsOf(k) : status'[t] \in {status[t], "dispatching"}

-----------------------------------------------------------------------------
SweepPass(d) ==
  \/ ReadOrphans(d)
  \/ ReadClaims(d)
  \/ ReadAnalyses(d)
  \/ FinishRecovery(d)
  \/ FinishSweep(d)
  \/ \E t \in Target : RequeueTarget(d, t)
  \/ \E k \in Ticket : ReopenTicket(d, k) \/ JudgeReadiness(d, k)
  \/ \E t \in Target, to \in {"ready", "blocked"} :
       VerdictRefused(d, t, to) \/ (ApplyVerdict(d, t, to) /\ RespectsLocks)

\* The steps of ControlPlane that are one transaction or one statement.
WholeStep ==
  /\ \/ \E k \in Ticket : TicketStep(k)
     \/ \E t \in Target : OperatorStep(t) \/ (SomeDaemonUp /\ RunStep(t))
     \/ \E d \in Daemon : stage[d] = "idle" /\ TickStep(d) /\ phase'[d] = "up"
  /\ RespectsLocks
  /\ UNCHANGED raceVars

\* A crash loses the writes that were decided on.
CrashPass(d) ==
  /\ Crash(d)
  /\ stage' = [stage EXCEPT ![d] = "startup"]
  /\ pending' = [pending EXCEPT ![d] = {}]
  /\ UNCHANGED snapshot

RaceNext ==
  \/ WholeStep
  \/ \E d \in Daemon : SweepPass(d) \/ CrashPass(d)
  \/ \E k \in Ticket : BeginCancel(k) \/ CommitCancel(k)

RaceSpec == RaceInit /\ [][RaceNext]_allVars
=============================================================================

---------------------------- MODULE NodeAttempts ----------------------------
(***************************************************************************)
(* One node of a run, from inside: its attempts and the rests between      *)
(* them, the process tree of a shell node with its timeout and its pipes,  *)
(* a model call with its idle timeout, and a loop that saves an iteration  *)
(* at a time and may ask a person between two.                             *)
(*                                                                         *)
(* RunEngine takes all of this as "the body of a node returns".  Here the  *)
(* runner around it only cancels, parks and dies.                          *)
(*                                                                         *)
(* The model and the programs that a script runs are external.  What the   *)
(* model streams comes to an end or stalls: nothing but the deadline of    *)
(* the run bounds a reply that goes on for ever.                           *)
(***************************************************************************)
EXTENDS Naturals

CONSTANTS
  MaxAttempts,     \* retry.max_attempts
  MaxIterations,   \* loop.max_iterations
  MaxCuts          \* bound: daemons that die under the node

ASSUME NodeAssumption ==
  MaxAttempts \in Nat \ {0} /\ MaxIterations \in Nat \ {0} /\ MaxCuts \in Nat

VARIABLES
  body,        \* what the node is made of, chosen once
  asks,        \* loop.interactive
  progress,    \* where executeWithRetry is
  attempt,
  result,      \* of the last attempt
  shell,       \* the process of a shell node
  piped,       \* a process it left behind holds its output open
  exit,        \* it exited with 0
  overtime,    \* timedOut
  stopping,    \* cancelled
  subscribed,  \* the process will hear of a cancellation
  iteration,   \* of the loop, as the runner counts
  saved,       \* loop iterations in the store
  complete,    \* the last of them has completed = true
  gone,        \* the runner's abort signal
  calls,       \* ghost: model calls of the loop, each of which may leave work behind
  retries,     \* ghost: attempts made because the one before failed
  cuts

nodeVars == <<body, asks, progress, attempt, result, shell, piped, exit, overtime, stopping,
              subscribed, iteration, saved, complete, gone, calls, retries, cuts>>
kindVars == <<body, asks>>
shellVars == <<shell, piped, exit, overtime, stopping, subscribed>>
loopVars == <<iteration, saved, complete, calls>>

Busy == {"waiting", "calling", "looping", "landed", "saved", "resting"}

NodeTypeOK ==
  /\ body \in {"shell", "prompt", "loop"}
  /\ {asks, piped, exit, overtime, stopping, subscribed, complete, gone} \subseteq BOOLEAN
  /\ progress \in Busy \cup {"parked", "over"}
  /\ attempt \in 0..MaxAttempts
  /\ result \in {"none", "completed", "failed", "cancelled"}
  /\ shell \in {"none", "alive", "draining"}
  /\ {iteration, saved} \subseteq 0..MaxIterations
  /\ calls \in Nat /\ retries \in Nat
  /\ cuts \in 0..MaxCuts

NodeInit ==
  /\ body \in {"shell", "prompt", "loop"}
  /\ asks \in BOOLEAN /\ (asks => body = "loop")
  /\ progress = "waiting" /\ attempt = 0 /\ result = "none"
  /\ shell = "none" /\ piped = FALSE /\ exit = FALSE
  /\ overtime = FALSE /\ stopping = FALSE /\ subscribed = FALSE
  /\ iteration = 0 /\ saved = 0 /\ complete = FALSE /\ calls = 0 /\ retries = 0
  /\ gone = FALSE /\ cuts = 0

-----------------------------------------------------------------------------
(* Attempts. *)

\* An attempt has ended with res: it is the last one, or the node rests.
ConcludeAttempt(res) ==
  /\ result' = res
  /\ progress' = IF res # "failed" \/ attempt = MaxAttempts \/ gone THEN "over" ELSE "resting"

\* runProcess: a listener that is added after the abort is never called.
Spawn ==
  /\ shell' = "alive"
  /\ subscribed' = ~gone
  /\ piped' = FALSE /\ exit' = FALSE /\ overtime' = FALSE /\ stopping' = FALSE
  /\ progress' = "calling"
  /\ UNCHANGED <<result, loopVars>>

\* Mutant: a resumed loop begins at its first iteration.
LoopFromStart ==
  /\ iteration' = 0
  /\ IF complete
     THEN progress' = "over" /\ result' = "completed"
     ELSE progress' = "looping" /\ UNCHANGED result
  /\ UNCHANGED <<shellVars, saved, complete, calls>>

\* executeLoop: what the store holds is not done again.
ReadIterations ==
  /\ iteration' = saved
  /\ IF complete
     THEN progress' = "over" /\ result' = "completed"
     ELSE progress' = "looping" /\ UNCHANGED result
  /\ UNCHANGED <<shellVars, saved, complete, calls>>

\* The first attempt when dispatch has recorded the node, or the next one after
\* its rest, whatever happened to the run meanwhile.
StartAttempt ==
  /\ progress \in {"waiting", "resting"}
  /\ attempt' = attempt + 1
  /\ retries' = IF progress = "resting" THEN retries + 1 ELSE retries
  /\ \/ body = "shell" /\ Spawn
     \/ body = "loop" /\ ReadIterations
     \/ body = "prompt" /\ progress' = "calling" /\ UNCHANGED <<result, shellVars, loopVars>>
  /\ UNCHANGED <<kindVars, gone, cuts>>

-----------------------------------------------------------------------------
(* A shell node. *)

\* The process exits; something that it started may keep the pipes.
ProcessExits ==
  /\ shell = "alive"
  /\ shell' = "draining"
  /\ exit' \in BOOLEAN
  /\ piped' \in BOOLEAN
  /\ UNCHANGED <<kindVars, progress, attempt, result, overtime, stopping, subscribed, loopVars,
                 gone, retries, cuts>>

\* Kill: the tree is killed, but for what has left it.
KillTree(late, stopped) ==
  /\ overtime' = (overtime \/ late)
  /\ stopping' = (stopping \/ stopped)
  /\ IF shell = "alive"
     THEN shell' = "draining" /\ exit' = FALSE /\ piped' \in BOOLEAN
     ELSE UNCHANGED <<shell, exit, piped>>

\* The timer runs until the output is drained, so a process that exits just in
\* time may count as late.
ShellTimeout ==
  /\ shell # "none"
  /\ ~overtime
  /\ KillTree(TRUE, FALSE)
  /\ UNCHANGED <<kindVars, progress, attempt, result, subscribed, loopVars, gone, retries, cuts>>

\* shellOutcomeToResult
AttemptOutcome == IF stopping THEN "cancelled" ELSE IF overtime \/ ~exit THEN "failed" ELSE "completed"

NodeFinished ==
  /\ shell' = "none"
  /\ piped' = FALSE /\ exit' = FALSE /\ overtime' = FALSE /\ stopping' = FALSE
  /\ subscribed' = FALSE
  /\ ConcludeAttempt(AttemptOutcome)
  /\ UNCHANGED <<kindVars, attempt, loopVars, gone, retries, cuts>>

\* Mutant: the output is waited for.
DrainToTheEnd ==
  /\ shell = "draining"
  /\ ~piped
  /\ NodeFinished

\* The pipes are closed, or two seconds have passed.
Drained ==
  /\ shell = "draining"
  /\ NodeFinished

-----------------------------------------------------------------------------
(* A model call. *)

\* It answers, fails, stalls, or was told to stop; one that starts under an
\* abort does nothing.
ModelReturns ==
  /\ progress = "calling" /\ body # "shell"
  /\ \/ gone /\ ConcludeAttempt("cancelled")
     \/ ~gone /\ ConcludeAttempt("failed")
     \/ ~gone /\ body = "prompt" /\ ConcludeAttempt("completed")
     \/ ~gone /\ body = "loop" /\ progress' = "landed" /\ UNCHANGED result
  /\ UNCHANGED <<kindVars, attempt, shellVars, loopVars, gone, retries, cuts>>

-----------------------------------------------------------------------------
(* A loop. *)

\* The next iteration, unless the budget is spent or the run is cancelled.
NextIteration ==
  /\ progress = "looping"
  /\ \/ /\ iteration = MaxIterations
        /\ ConcludeAttempt("failed")
        /\ UNCHANGED <<iteration, calls>>
     \/ /\ iteration < MaxIterations /\ gone
        /\ ConcludeAttempt("cancelled")
        /\ UNCHANGED <<iteration, calls>>
     \/ /\ iteration < MaxIterations /\ ~gone
        /\ progress' = "calling"
        /\ iteration' = iteration + 1
        /\ calls' = calls + 1
        /\ UNCHANGED result
  /\ UNCHANGED <<kindVars, attempt, shellVars, saved, complete, gone, retries, cuts>>

\* appendLoopIteration, after the signal and the until_bash check: a check that
\* is cancelled says no.
SaveIteration ==
  /\ progress = "landed"
  /\ saved' = iteration
  /\ complete' \in BOOLEAN
  /\ progress' = "saved"
  /\ UNCHANGED <<kindVars, attempt, result, shellVars, iteration, calls, gone, retries, cuts>>

AfterIteration ==
  /\ progress = "saved"
  /\ IF complete THEN ConcludeAttempt("completed")
     ELSE progress' = (IF asks THEN "parked" ELSE "looping") /\ UNCHANGED result
  /\ UNCHANGED <<kindVars, attempt, shellVars, loopVars, gone, retries, cuts>>

-----------------------------------------------------------------------------
(* The run around the node. *)

\* A new runner begins with the node's first attempt, and a fresh signal.
Anew ==
  /\ progress' = "waiting"
  /\ attempt' = 0
  /\ result' = "none"
  /\ gone' = FALSE
  /\ shell' = "none"
  /\ piped' = FALSE /\ exit' = FALSE /\ overtime' = FALSE /\ stopping' = FALSE
  /\ subscribed' = FALSE
  /\ iteration' = 0
  /\ UNCHANGED <<kindVars, saved, complete, calls, retries>>

\* The person lets the loop go on, or ends it.
AnswerLoop ==
  /\ progress = "parked"
  /\ \/ Anew /\ UNCHANGED cuts
     \/ /\ progress' = "over" /\ result' = "cancelled"
        /\ UNCHANGED <<kindVars, attempt, shellVars, loopVars, gone, retries, cuts>>

\* A cancellation, a refused sibling, a suspension or the run's deadline.
Abort ==
  /\ progress \in Busy
  /\ ~gone
  /\ gone' = TRUE
  /\ IF subscribed THEN KillTree(FALSE, TRUE)
     ELSE UNCHANGED <<shell, piped, exit, overtime, stopping>>
  /\ UNCHANGED <<kindVars, progress, attempt, result, subscribed, loopVars, retries, cuts>>

\* The daemon dies, and recovery resumes the run.
CutOff ==
  /\ cuts < MaxCuts
  /\ cuts' = cuts + 1
  /\ progress \in Busy
  /\ Anew

-----------------------------------------------------------------------------
NodeOwnStep ==
  \/ StartAttempt \/ ShellTimeout \/ Drained \/ ModelReturns
  \/ NextIteration \/ SaveIteration \/ AfterIteration

NodeNext == NodeOwnStep \/ ProcessExits \/ AnswerLoop \/ Abort \/ CutOff

NodeSpec == NodeInit /\ [][NodeNext]_nodeVars

\* An attempt ends, and so do its repetitions: not by the good will of a
\* script, which may hang or leave something behind that keeps its output open.
NodeEnds == progress \in Busy ~> progress \notin Busy

\* However often a loop is retried, parked, cut off and resumed, the model is
\* called for it no more often than max_iterations, and once more for each retry
\* and each death of the daemon: a call that fails, stalls or is cut off leaves no
\* row, and its iteration is done again on top of whatever it left behind; a row
\* that was written is never paid for twice.
LoopBudgetHolds == calls <= MaxIterations + retries + cuts
=============================================================================

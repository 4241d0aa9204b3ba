------------------------------ MODULE TickLoop ------------------------------
(***************************************************************************)
(* The daemon's timer loop.  A tick runs its phases one after the other,   *)
(* each under a budget; a phase that throws or exceeds its budget costs    *)
(* the tick that phase only, and an abandoned one is not cancelled.  The   *)
(* last phase, the pull request watcher, is here in full with the issue it *)
(* watches: a poll that was abandoned goes on beside the next one.  The    *)
(* passes of the other two phases are Outbox's, ControlRaces' and          *)
(* TicketSync's subject, where two of them overlap.                        *)
(*                                                                         *)
(* The tracker, GitHub and the people who use them are external.           *)
(***************************************************************************)
EXTENDS FiniteSets

CONSTANT Pull      \* pull requests

Phase == {"sync", "reconcile", "merge"}
After(ph) == IF ph = "sync" THEN "reconcile" ELSE IF ph = "reconcile" THEN "merge" ELSE "rest"

\* The poll of the tick, and one that was abandoned.
Poller == {"tick", "adrift"}

VARIABLES
  tick,       \* the phase the tick awaits, or "rest" between ticks
  armed,      \* tickTimer is set
  stopped,    \* Orchestrator.stopped
  watched,      \* where the issue is in the tracker
  attached,   \* its pull requests
  merged,     \* those GitHub has merged
  poll,       \* how far a poll has come
  links,      \* the pull requests a poll has read
  unasked     \* those it has not asked GitHub about

tickVars == <<tick, armed, stopped, watched, attached, merged, poll, links, unasked>>
pollVars == <<poll, links, unasked>>
worldVars == <<watched, attached, merged>>

TickTypeOK ==
  /\ tick \in Phase \cup {"rest"}
  /\ {armed, stopped} \subseteq BOOLEAN
  /\ watched \in {"elsewhere", "review", "done"}
  /\ merged \subseteq Pull /\ attached \subseteq Pull
  /\ poll \in [Poller -> {"none", "fetched", "asking"}]
  /\ {links, unasked} \subseteq [Poller -> SUBSET Pull]

TickInit ==
  /\ tick = "rest"
  /\ armed = TRUE
  /\ stopped = FALSE
  /\ watched = "elsewhere"
  /\ attached = {} /\ merged = {}
  /\ poll = [w \in Poller |-> "none"]
  /\ links = [w \in Poller |-> {}]
  /\ unasked = [w \in Poller |-> {}]

-----------------------------------------------------------------------------
(* The loop. *)

TimerFires ==
  /\ armed
  /\ armed' = FALSE
  /\ tick' = "sync"
  /\ UNCHANGED <<stopped, worldVars, pollVars>>

\* The next phase, or the next tick unless the daemon stops.
GoOn ==
  /\ tick' = After(tick)
  /\ armed' = (After(tick) = "rest" /\ ~stopped)

\* A phase returns or throws.
PhaseEnds ==
  /\ tick \in Phase
  /\ tick = "merge" => poll["tick"] = "none"
  /\ GoOn
  /\ UNCHANGED <<stopped, worldVars, pollVars>>

\* Mutant: only the phases that talk to the tracker in bulk have a budget.
AbandonSync ==
  /\ tick = "sync"
  /\ GoOn
  /\ UNCHANGED <<stopped, worldVars, pollVars>>

\* The budget is spent.  A poll goes on by itself, or hangs for good.
Abandon ==
  /\ tick \in Phase
  /\ GoOn
  /\ \/ /\ poll["adrift"] = "none"
        /\ poll' = [poll EXCEPT !["adrift"] = poll["tick"], !["tick"] = "none"]
        /\ links' = [links EXCEPT !["adrift"] = links["tick"], !["tick"] = {}]
        /\ unasked' = [unasked EXCEPT !["adrift"] = unasked["tick"], !["tick"] = {}]
     \/ /\ poll' = [poll EXCEPT !["tick"] = "none"]
        /\ links' = [links EXCEPT !["tick"] = {}]
        /\ unasked' = [unasked EXCEPT !["tick"] = {}]
  /\ UNCHANGED <<stopped, worldVars>>

\* stop: the timer is cleared; a tick on its way goes through its phases.
StopDaemon ==
  /\ ~stopped
  /\ stopped' = TRUE
  /\ armed' = FALSE
  /\ UNCHANGED <<tick, worldVars, pollVars>>

-----------------------------------------------------------------------------
(* A poll of the watcher. *)

PollEnds(w) ==
  /\ poll' = [poll EXCEPT ![w] = "none"]
  /\ links' = [links EXCEPT ![w] = {}]
  /\ unasked' = [unasked EXCEPT ![w] = {}]

FetchInReview ==
  /\ tick = "merge" /\ poll["tick"] = "none"
  /\ watched = "review"
  /\ poll' = [poll EXCEPT !["tick"] = "fetched"]
  /\ UNCHANGED <<tick, armed, stopped, worldVars, links, unasked>>

\* Mutant: an issue without pull requests has none that is open.
FetchAnyLinks(w) ==
  /\ poll[w] = "fetched"
  /\ \/ /\ poll' = [poll EXCEPT ![w] = "asking"]
        /\ links' = [links EXCEPT ![w] = attached]
        /\ unasked' = [unasked EXCEPT ![w] = attached]
     \/ PollEnds(w)
  /\ UNCHANGED <<tick, armed, stopped, worldVars>>

\* An issue without pull requests, or a failed request, concludes nothing.
FetchLinks(w) ==
  /\ poll[w] = "fetched"
  /\ \/ /\ attached # {}
        /\ poll' = [poll EXCEPT ![w] = "asking"]
        /\ links' = [links EXCEPT ![w] = attached]
        /\ unasked' = [unasked EXCEPT ![w] = attached]
     \/ PollEnds(w)
  /\ UNCHANGED <<tick, armed, stopped, worldVars>>

\* GitHub says that one is merged, or anything else, or nothing.
AskMerged(w, pr) ==
  /\ poll[w] = "asking" /\ pr \in unasked[w]
  /\ \/ /\ pr \in merged
        /\ unasked' = [unasked EXCEPT ![w] = @ \ {pr}]
        /\ UNCHANGED <<poll, links>>
     \/ PollEnds(w)
  /\ UNCHANGED <<tick, armed, stopped, worldVars>>

\* The state is written wherever the issue is by now; the write may fail.
CloseIssue(w) ==
  /\ poll[w] = "asking" /\ unasked[w] = {}
  /\ watched' \in {"done", watched}
  /\ PollEnds(w)
  /\ UNCHANGED <<tick, armed, stopped, attached, merged>>

-----------------------------------------------------------------------------
(* People. *)

MoveWatched ==
  /\ watched' \in {"elsewhere", "review"} \ {watched}
  /\ UNCHANGED <<tick, armed, stopped, attached, merged, pollVars>>

AttachPull(pr) ==
  /\ attached' = attached \cup {pr}
  /\ UNCHANGED <<tick, armed, stopped, watched, merged, pollVars>>

MergePull(pr) ==
  /\ pr \in attached
  /\ merged' = merged \cup {pr}
  /\ UNCHANGED <<tick, armed, stopped, watched, attached, pollVars>>

-----------------------------------------------------------------------------
PollStep(w) == FetchLinks(w) \/ CloseIssue(w) \/ \E pr \in Pull : AskMerged(w, pr)

TickNext ==
  \/ TimerFires \/ PhaseEnds \/ Abandon \/ StopDaemon
  \/ FetchInReview \/ \E w \in Poller : PollStep(w)
  \/ MoveWatched \/ \E pr \in Pull : AttachPull(pr) \/ MergePull(pr)

TickSpec == TickInit /\ [][TickNext]_tickVars

\* An issue is closed for work that has landed: at least one pull request hung
\* on it, and all that the poll saw are merged.  Polls overlap and are
\* interrupted anywhere, and pull requests are attached meanwhile.
ClosedIssueHasLanded ==
  [][watched # "done" /\ watched' = "done" =>
       \E w \in Poller : links[w] # {} /\ links[w] \subseteq merged]_tickVars

\* Whatever a phase does, throw or hang, every phase comes round again until
\* the daemon is stopped.
EveryPhaseComesRound == <>stopped \/ \A ph \in Phase : []<>(tick = ph)
=============================================================================

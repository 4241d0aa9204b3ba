---------------------------- MODULE Daemon_proofs ----------------------------
(***************************************************************************)
(* What holds of the daemon's own components for any number of attempts,   *)
(* callbacks, pull requests, passes, drains and rows: a run that was       *)
(* stopped stays stopped (Dispatch), an issue is closed for work that has  *)
(* landed (TickLoop), the tracker's side of a ticket neither makes a       *)
(* ticket of a sub-issue nor stops what has started (TicketSync), and the  *)
(* outbox keeps the promise of TrackerWrites, overruns its budget by no    *)
(* more than its drains allow, and has one drain at a time at a row as     *)
(* long as no lease ends under a drain that still works on it (Outbox).    *)
(* The last theorem puts them together with the documents and the database *)
(* (MCDaemon).                                                             *)
(***************************************************************************)
EXTENDS MCDaemon, TicketSync, Storage_proofs, ControlPlaneSafety_proofs, FiniteSetTheorems, TLAPS

-----------------------------------------------------------------------------
(* A run and its handle. *)

\* A run that has not been launched does not exist, and nobody knows its number.
UnlaunchedIsUnknown ==
  \A r \in Run : spawn[r] \in {"unused", "launching"} =>
    /\ runner[r] = "none" /\ runRow[r] = "none"
    /\ runId # r
    /\ \A e \in events : e.run # r

\* A run that was stopped has been launched and never will be again, and its row
\* is settled, or will be by the runner that is ending, so that neither recovery
\* nor an answered gate drives it on.
KilledIsSettled ==
  \A r \in killed :
    /\ spawn[r] = "over"
    /\ runner[r] \in Final \cup {"none"}
    /\ runner[r] = "none" => runRow[r] \in Final

\* While a daemon starts it launches nothing, and what its recovery has found
\* is as it was found: a run that nobody drives and whose row says running.
StartIsQuiet ==
  /\ startup # "done" => \A r \in Run : spawn[r] \in {"unused", "over"}
  /\ startup = "down" => \A r \in Run : runner[r] = "none"
  /\ expired # {} => startup = "adopting"
  /\ \A r \in expired : runner[r] = "none" /\ runRow[r] = "running"

DispatchInv == DispatchTypeOK /\ UnlaunchedIsUnknown /\ KilledIsSettled /\ StartIsQuiet

LEMMA InitDispatch == DispatchInit => DispatchInv
  BY DispatchAssumption
  DEF DispatchInit, DispatchInv, DispatchTypeOK, UnlaunchedIsUnknown, KilledIsSettled,
      StartIsQuiet, Run, None

\* Killing a run through its id, in a daemon that is between two of its steps.
LEMMA KillRunInv ==
  ASSUME DispatchInv, Idle, KillRun(runId),
         target' \in LiveStatus \cup {"ready", "succeeded", "failed", "cancelled"},
         UNCHANGED <<runId, spawn, events, startVars, dispatchCrashes>>
  PROVE  DispatchInv'
<1> USE DispatchAssumption DEF DispatchInv
<1>1. /\ runner' \in [Run -> Final \cup {"none", "running", "paused"}]
      /\ \A q \in Run : runner'[q] = IF q \in {live, runId} /\ runner[q] = "running"
                                     THEN "cancelled" ELSE runner[q]
  BY DEF KillRun, Stopping, DispatchTypeOK, Final
<1>2. /\ runRow' \in [Run -> Final \cup {"none", "running", "paused", "interrupted"}]
      /\ \A q \in Run : runRow'[q] = IF q = runId /\ runner[q] = "none" /\ runRow[q] \notin Final
                                     THEN "cancelled" ELSE runRow[q]
  BY DEF KillRun, DispatchTypeOK, Final
<1>3. /\ killed' = killed \cup {q \in Run : q = runId /\ runner[q] # "paused"}
      /\ live' = None
      /\ UNCHANGED listener
  BY DEF KillRun
<1>4. DispatchTypeOK'
  BY <1>1, <1>2, <1>3 DEF DispatchTypeOK, startVars
<1>5. UnlaunchedIsUnknown'
  BY <1>1, <1>2 DEF UnlaunchedIsUnknown
<1>6. KilledIsSettled'
  <2> SUFFICES ASSUME NEW r \in killed'
               PROVE  /\ spawn[r] = "over"
                      /\ runner'[r] \in Final \cup {"none"}
                      /\ runner'[r] = "none" => runRow'[r] \in Final
    BY DEF KilledIsSettled
  <2>1. CASE r \in killed
    BY <1>1, <1>2, <2>1 DEF KilledIsSettled, DispatchTypeOK
  <2>2. CASE r \in Run /\ r = runId /\ runner[r] # "paused"
    <3>1. spawn[r] = "over"
      BY <2>2 DEF UnlaunchedIsUnknown, Idle
    <3> QED BY <1>1, <1>2, <2>2, <3>1 DEF DispatchTypeOK, Final
  <2> QED BY <1>3, <2>1, <2>2
<1>7. StartIsQuiet'
  BY DEF StartIsQuiet, Idle, startVars
<1> QED BY <1>4, <1>5, <1>6, <1>7

LEMMA StepDispatch ==
  ASSUME DispatchInv, [DispatchNext]_dispatchVars
  PROVE  DispatchInv'
<1> USE DispatchAssumption
    DEF DispatchInv, DispatchTypeOK, UnlaunchedIsUnknown, KilledIsSettled, StartIsQuiet,
        engineVars, startVars, LiveStatus, Final, Event
<1>1. CASE UNCHANGED dispatchVars
  BY <1>1 DEF dispatchVars
<1>2. ASSUME NEW r \in Run, Claim(r)
      PROVE  DispatchInv'
  BY <1>2 DEF Claim, Idle
<1>3. ASSUME NEW r \in Run, StartRun(r)
      PROVE  DispatchInv'
  BY <1>3 DEF StartRun, Say
<1>4. ASSUME NEW r \in Run, LaunchFails(r)
      PROVE  DispatchInv'
  BY <1>4 DEF LaunchFails, Say
<1>5. ASSUME NEW r \in Run, SpawnReturns(r)
      PROVE  DispatchInv'
  BY <1>5 DEF SpawnReturns
<1>6. ASSUME NEW r \in Run, CommitLaunch(r)
      PROVE  DispatchInv'
  BY <1>6 DEF CommitLaunch
<1>7. ASSUME NEW r \in Run, Stops(r)
      PROVE  DispatchInv'
  BY <1>7 DEF Stops
<1>8. ASSUME NEW r \in Run, Finalize(r)
      PROVE  DispatchInv'
  BY <1>8 DEF Finalize, Say
<1>9. ASSUME NEW r \in Run, Adopt(r)
      PROVE  DispatchInv'
  BY <1>9 DEF Adopt
<1>10. ASSUME NEW e \in Event, Deliver(e)
       PROVE  DispatchInv'
  BY <1>10 DEF Deliver
<1>11. CASE StopTarget
  BY <1>11, KillRunInv DEF StopTarget
<1>12. CASE AnswerGate
  BY <1>12 DEF AnswerGate, Idle
<1>13. CASE Redispatch
  BY <1>13 DEF Redispatch, Run, None
<1>14. CASE Reconcile
  BY <1>14, KillRunInv DEF Reconcile
<1>15. CASE Requeue
  BY <1>15 DEF Requeue
<1>16. CASE CrashDaemon
  BY <1>16 DEF CrashDaemon
<1>17. CASE FindExpired
  <2>1. \A r \in expired' : runRow[r] = "running" /\ spawn[r] = "over"
    BY <1>17 DEF FindExpired
  <2>2. \A r \in Run : runner[r] = "none"
    BY <1>17 DEF FindExpired
  <2> QED BY <1>17, <2>1, <2>2 DEF FindExpired
<1>18. CASE RecoverClaim
  BY <1>18 DEF RecoverClaim
<1> QED
  BY <1>1, <1>2, <1>3, <1>4, <1>5, <1>6, <1>7, <1>8, <1>9, <1>10, <1>11, <1>12, <1>13,
     <1>14, <1>15, <1>16, <1>17, <1>18 DEF DispatchNext, AttemptStep, EngineStep, StartupStep, Hear

\* However late events arrive and whichever attempt's handle is used, a run that
\* the control plane has stopped by its id is never driven on: not by its own
\* launch, nor by an answer to its gate, nor, once its end is in its row, by the
\* recovery of any later daemon, over any number of deaths
\* (control/adapters/executor.ts, killRun; executor/engine/recovery.ts).
THEOREM KilledRunStopsCorrect == DispatchSpec => []KilledRunStops
<1>1. DispatchInv /\ [DispatchNext]_dispatchVars => DispatchInv'
  BY StepDispatch
<1>2. DispatchInv => KilledRunStops
  BY DEF DispatchInv, KilledIsSettled, KilledRunStops, Final
<1> QED
  BY InitDispatch, <1>1, <1>2, PTL DEF DispatchSpec

-----------------------------------------------------------------------------
(* The merge watcher. *)

\* A poll that asks GitHub has pull requests to ask about, and those it has done
\* with are merged.
AskedAreMerged ==
  \A w \in Poller : poll[w] = "asking" =>
    links[w] # {} /\ \A pr \in links[w] \ unasked[w] : pr \in merged

TickInv == TickTypeOK /\ AskedAreMerged

LEMMA InitTick == TickInit => TickInv
  BY DEF TickInit, TickInv, TickTypeOK, AskedAreMerged

LEMMA StepTick ==
  ASSUME TickInv, [TickNext]_tickVars
  PROVE  TickInv'
<1> USE DEF TickInv, TickTypeOK, AskedAreMerged, worldVars, pollVars
<1>1. CASE UNCHANGED tickVars
  BY <1>1 DEF tickVars
<1>2. CASE TimerFires
  BY <1>2 DEF TimerFires, Phase
<1>3. CASE PhaseEnds
  BY <1>3 DEF PhaseEnds, GoOn, After, Phase
<1>4. CASE Abandon
  BY <1>4 DEF Abandon, GoOn, After, Phase, Poller
<1>5. CASE StopDaemon
  BY <1>5 DEF StopDaemon
<1>6. CASE FetchInReview
  BY <1>6 DEF FetchInReview
<1>7. ASSUME NEW w \in Poller, FetchLinks(w)
      PROVE  TickInv'
  BY <1>7 DEF FetchLinks, PollEnds
<1>8. ASSUME NEW w \in Poller, CloseIssue(w)
      PROVE  TickInv'
  BY <1>8 DEF CloseIssue, PollEnds
<1>9. ASSUME NEW w \in Poller, NEW pr \in Pull, AskMerged(w, pr)
      PROVE  TickInv'
  BY <1>9 DEF AskMerged, PollEnds
<1>10. CASE MoveWatched
  BY <1>10 DEF MoveWatched
<1>11. ASSUME NEW pr \in Pull, AttachPull(pr)
       PROVE  TickInv'
  BY <1>11 DEF AttachPull
<1>12. ASSUME NEW pr \in Pull, MergePull(pr)
       PROVE  TickInv'
  BY <1>12 DEF MergePull
<1> QED
  BY <1>1, <1>2, <1>3, <1>4, <1>5, <1>6, <1>7, <1>8, <1>9, <1>10, <1>11, <1>12
  DEF TickNext, PollStep

\* Only the end of a poll closes the issue.
LEMMA CloserHasAsked ==
  ASSUME TickInv, TickNext, watched # "done", watched' = "done"
  PROVE  \E w \in Poller : links[w] # {} /\ links[w] \subseteq merged
<1>1. PICK w \in Poller : CloseIssue(w)
  BY DEF TickNext, PollStep, TimerFires, PhaseEnds, Abandon, StopDaemon, FetchInReview,
         FetchLinks, AskMerged, MoveWatched, AttachPull, MergePull, worldVars
<1> QED
  BY <1>1 DEF CloseIssue, TickInv, TickTypeOK, AskedAreMerged

\* However polls overlap, are abandoned and are interrupted, and whatever is
\* attached meanwhile, an issue is closed for at least one pull request, and all
\* that the poll saw are merged (orchestrator/pr-merge-watcher.ts).
THEOREM ClosedIssueHasLandedCorrect == TickSpec => ClosedIssueHasLanded
<1>1. TickInv /\ [TickNext]_tickVars => TickInv'
  BY StepTick
<1>2. TickInv /\ [TickNext]_tickVars =>
        [watched # "done" /\ watched' = "done" =>
           \E w \in Poller : links[w] # {} /\ links[w] \subseteq merged]_tickVars
  BY CloserHasAsked
<1> QED
  BY InitTick, <1>1, <1>2, PTL DEF TickSpec, ClosedIssueHasLanded

-----------------------------------------------------------------------------
(* Sync passes. *)

\* There is a sub-issue only once its ticket has a row, and rows stay.
SubHasTicket == sub # "absent" => ticket # "absent"

\* So a pass that was told of the sub-issue loads the ticket's row after.
SeenSubIsKnown ==
  \A p \in Sync : "sub" \in left[p] =>
    /\ progress[p] = "fetched" => ticket # "absent"
    /\ progress[p] = "discovering" => known[p].ticket # "absent"

\* An id in a row is that of an issue that was opened, and a pass that has to
\* handle the sub-issue was told where it is.
KnownSubExists ==
  /\ subId \/ opening => sub # "absent"
  /\ \A p \in Sync : /\ known[p].sub => sub # "absent"
                     /\ "sub" \in left[p] => heard[p].sub # "absent"

SyncInv == SyncTypeOK /\ SubHasTicket /\ SeenSubIsKnown /\ KnownSubExists /\ SubIssueIsNoTicket

LEMMA InitSync == SyncInit => SyncInv
<1> SUFFICES ASSUME SyncInit PROVE SyncInv
  OBVIOUS
<1>1. Silence \in Answer /\ Nothing \in Known
  BY DEF Silence, Answer, Nothing, Known
<1>2. heard \in [Sync -> Answer] /\ known \in [Sync -> Known] /\ left \in [Sync -> SUBSET {"issue", "sub"}]
  BY <1>1 DEF SyncInit
<1>3. moves \in 0..MaxMoves
  BY SyncAssumption DEF SyncInit
<1>4. SyncTypeOK
  BY <1>2, <1>3, Zenon DEF SyncInit, SyncTypeOK, Unstarted, Closed
<1> QED
  BY <1>4 DEF SyncInit, SyncInv, SubHasTicket, SeenSubIsKnown, KnownSubExists,
             SubIssueIsNoTicket, Nothing

\* Handling one of the issues forgets what was said of it.
LEMMA HandledTypes ==
  ASSUME SyncTypeOK, NEW p \in Sync, NEW one \in {"issue", "sub"}, Handled(p, one)
  PROVE  /\ heard' \in [Sync -> Answer]
         /\ left' \in [Sync -> SUBSET {"issue", "sub"}]
         /\ \A q \in Sync : left'[q] \subseteq left[q]
         /\ \A q \in Sync : "sub" \in left'[q] => heard'[q].sub = heard[q].sub
<1>1. CASE one = "sub"
  BY <1>1 DEF Handled, SyncTypeOK, Answer
<1>2. CASE one = "issue"
  <2> DEFINE rest == [heard[p] EXCEPT !.related = FALSE,
                        !.issue = IF progress[p] = "discovering" THEN heard[p].issue ELSE "absent"]
  <2>1. rest \in Answer /\ rest.sub = heard[p].sub
    BY DEF SyncTypeOK, Answer
  <2>2. heard' = [heard EXCEPT ![p] = rest]
    BY <1>2, Zenon DEF Handled
  <2>3. left' = [left EXCEPT ![p] = @ \ {"issue"}]
    BY <1>2 DEF Handled
  <2> HIDE DEF rest
  <2> QED BY <2>1, <2>2, <2>3 DEF SyncTypeOK
<1> QED BY <1>1, <1>2

LEMMA MovesType ==
  ASSUME moves \in 0..MaxMoves, TrackerMoves
  PROVE  moves' \in 0..MaxMoves
BY SyncAssumption DEF TrackerMoves

LEMMA PassEndsInv ==
  ASSUME SyncInv, NEW p \in Sync, PassEnds(p), UNCHANGED <<trackerSide, ticketRow, targetRow>>,
         moves' \in 0..MaxMoves
  PROVE  SyncInv'
BY DEF PassEnds, Advance, SyncInv, SyncTypeOK, SubHasTicket, SeenSubIsKnown, KnownSubExists,
       SubIssueIsNoTicket, trackerSide, ticketRow, targetRow, Answer, Known, Silence, Nothing, Unstarted, Closed

LEMMA StepSync ==
  ASSUME SyncInv, [SyncNext]_syncVars
  PROVE  SyncInv'
<1> USE SyncAssumption
    DEF SyncInv, SyncTypeOK, SubHasTicket, SeenSubIsKnown, KnownSubExists, SubIssueIsNoTicket,
        trackerSide, ticketRow, targetRow, passVars, Advance, Answer, Known, Unstarted, Closed
<1>1. CASE UNCHANGED syncVars
  BY <1>1 DEF syncVars
<1>2. ASSUME NEW p \in Sync, FetchCandidates(p)
      PROVE  SyncInv'
  BY <1>2 DEF FetchCandidates
<1>3. ASSUME NEW p \in Sync, LoadKnown(p)
      PROVE  SyncInv'
  BY <1>3 DEF LoadKnown
<1>4. ASSUME NEW p \in Sync, DiscoverIssue(p)
      PROVE  SyncInv'
  BY <1>4, HandledTypes DEF DiscoverIssue, Upsert
<1>5. ASSUME NEW p \in Sync, DiscoverSub(p)
      PROVE  SyncInv'
  BY <1>5, HandledTypes DEF DiscoverSub, RefreshTarget
<1>6. ASSUME NEW p \in Sync, Track(p)
      PROVE  SyncInv'
  BY <1>6 DEF Track, Asked
<1>7. ASSUME NEW p \in Sync, NothingToTrack(p)
      PROVE  SyncInv'
  BY <1>7, PassEndsInv DEF NothingToTrack
<1>8. ASSUME NEW p \in Sync, TrackIssue(p)
      PROVE  SyncInv'
  BY <1>8 DEF TrackIssue, Upsert
<1>9. ASSUME NEW p \in Sync, CloseTicket(p)
      PROVE  SyncInv'
  BY <1>9, HandledTypes DEF CloseTicket
<1>10. ASSUME NEW p \in Sync, TrackSub(p)
       PROVE  SyncInv'
  BY <1>10, HandledTypes DEF TrackSub, RefreshTarget
<1>11. ASSUME NEW p \in Sync, Tracked(p)
       PROVE  SyncInv'
  BY <1>11, PassEndsInv DEF Tracked
<1>12. ASSUME NEW p \in Sync, PassThrows(p)
       PROVE  SyncInv'
  BY <1>12, PassEndsInv DEF PassThrows, TrackerMoves
<1>13. CASE OpenSub
  BY <1>13 DEF OpenSub
<1>14. CASE RecordSub
  BY <1>14 DEF RecordSub
<1>15. CASE AnalysisEnds
  BY <1>15 DEF AnalysisEnds
<1>16. CASE TicketFinishes
  BY <1>16 DEF TicketFinishes
<1>17. ASSUME NEW to \in {"open", "aside", "closed"}, MoveIssue(to)
       PROVE  SyncInv'
  BY <1>17 DEF MoveIssue, TrackerMoves
<1>18. ASSUME NEW to \in {"open", "aside"}, MoveSub(to)
       PROVE  SyncInv'
  BY <1>18 DEF MoveSub, TrackerMoves
<1>19. CASE DeclareBlocker
  BY <1>19, MovesType DEF DeclareBlocker
<1>20. CASE ResolveBlocker
  BY <1>20, MovesType DEF ResolveBlocker
<1>21. CASE Operate
  BY <1>21, MovesType DEF Operate
<1> QED
  BY <1>1, <1>2, <1>3, <1>4, <1>5, <1>6, <1>7, <1>8, <1>9, <1>10, <1>11, <1>12, <1>13, <1>14,
     <1>15, <1>16, <1>17, <1>18, <1>19, <1>20, <1>21 DEF SyncNext, SyncPassStep

\* However many passes overlap, however old what they read is, and although the
\* sub-issue may be a candidate long before its id is in a row, it never becomes
\* a ticket of its own (control/sync.ts, discoverTickets).
THEOREM SubIssueIsNoTicketCorrect == SyncSpec => []SubIssueIsNoTicket
<1>1. SyncInv /\ [SyncNext]_syncVars => SyncInv'
  BY StepSync
<1>2. SyncInv => SubIssueIsNoTicket
  BY DEF SyncInv
<1> QED
  BY InitSync, <1>1, <1>2, PTL DEF SyncSpec

\* A step of a pass moves a ticket that has no row or has not been started.
LEMMA PassLeavesStarted ==
  ASSUME NEW p \in Sync, SyncPassStep(p), ticket \in {"analyzing", "running"}
  PROVE  ticket' = ticket
BY DEF SyncPassStep, FetchCandidates, LoadKnown, DiscoverIssue, DiscoverSub, Upsert, RefreshTarget,
       Track, NothingToTrack, TrackIssue, CloseTicket, TrackSub, Tracked, ticketRow, Unstarted

\* No step of any pass, whatever it was told and whatever it had loaded, moves a
\* ticket that has been started (control/sync.ts, applyExternalState).
THEOREM StartedWorkIsLeftCorrect == SyncSpec => StartedWorkIsLeft
<1>1. [SyncNext]_syncVars =>
        [\A p \in Sync : ticket \in {"analyzing", "running"} /\ SyncPassStep(p)
           => ticket' = ticket]_syncVars
  BY PassLeavesStarted
<1> QED
  BY <1>1, PTL DEF SyncSpec, StartedWorkIsLeft
-----------------------------------------------------------------------------
(* The outbox: types, and what a drain has in hand. *)

\* What a drain has in hand: rows of the table, and the one being sent has
\* left the batch; an accepted write did arrive.
InHand ==
  \A d \in Drainer :
    /\ \A i \in batch[d] : row[i] # "none"
    /\ pc[d] \in {"accepted", "refused"} =>
         /\ current[d] \in Row
         /\ row[current[d]] # "none"
         /\ current[d] \notin batch[d]
    /\ pc[d] = "accepted" => current[d] \in reached

\* A row in hand is leased: this is what keeps it from the next claim.
HeldIsLeased ==
  \A d \in Drainer : \A i \in Holds(d) : leased[i]

LEMMA InitHand == OutboxInit => OutboxTypeOK /\ InHand
  BY OutboxAssumption DEF OutboxInit, OutboxTypeOK, InHand, Row

LEMMA StepHand ==
  ASSUME OutboxTypeOK, InHand, [OutboxNext]_outboxVars
  PROVE  OutboxTypeOK' /\ InHand'
<1> USE OutboxAssumption
<1>1. CASE UNCHANGED outboxVars
  BY <1>1 DEF outboxVars, OutboxTypeOK, InHand
<1>2. ASSUME NEW i \in Row, EnqueueOutbox(i)
      PROVE  OutboxTypeOK' /\ InHand'
  BY <1>2 DEF EnqueueOutbox, OutboxTypeOK, InHand, drainVars
<1>3. ASSUME NEW i \in Row, LeaseExpires(i)
      PROVE  OutboxTypeOK' /\ InHand'
  BY <1>3 DEF LeaseExpires, OutboxTypeOK, InHand, drainVars
<1>4. ASSUME NEW d \in Drainer, DiscardExhaustedOutbox(d)
      PROVE  OutboxTypeOK' /\ InHand'
  BY <1>4 DEF DiscardExhaustedOutbox, OutboxTypeOK, InHand
<1>5. ASSUME NEW d \in Drainer, ClaimOutbox(d)
      PROVE  OutboxTypeOK' /\ InHand'
  BY <1>5 DEF ClaimOutbox, Oldest, OutboxTypeOK, InHand
<1>6. ASSUME NEW d \in Drainer, NEW i \in Row, Send(d, i)
      PROVE  OutboxTypeOK' /\ InHand'
  BY <1>6 DEF Send, OutboxTypeOK, InHand, outboxRowVars
<1>7. ASSUME NEW d \in Drainer, MarkOutboxSent(d)
      PROVE  OutboxTypeOK' /\ InHand'
  BY <1>7 DEF MarkOutboxSent, Continue, OutboxTypeOK, InHand
<1>8. ASSUME NEW d \in Drainer, MarkOutboxFailed(d)
      PROVE  OutboxTypeOK' /\ InHand'
  BY <1>8 DEF MarkOutboxFailed, Continue, OutboxTypeOK, InHand
<1>9. ASSUME NEW d \in Drainer, DrainDies(d)
      PROVE  OutboxTypeOK' /\ InHand'
  BY <1>9 DEF DrainDies, OutboxTypeOK, InHand, outboxRowVars
<1> QED
  BY <1>1, <1>2, <1>3, <1>4, <1>5, <1>6, <1>7, <1>8, <1>9 DEF OutboxNext, Drain

LEMMA HandCorrect == OutboxSpec => [](OutboxTypeOK /\ InHand)
  BY InitHand, StepHand, PTL DEF OutboxSpec

\* The types of the outbox.
THEOREM OutboxTypeCorrect == OutboxSpec => []OutboxTypeOK
  BY HandCorrect, PTL

-----------------------------------------------------------------------------
(* The promise.  Each step of the outbox is a step of TrackerWrites under  *)
(* the mapping of Promise, or leaves its variables unchanged.              *)

LEMMA InitPromise == OutboxInit => Promise!Init
  BY DEF OutboxInit, Promise!Init, Fate

LEMMA StepPromise ==
  ASSUME OutboxTypeOK, InHand, [OutboxNext]_outboxVars
  PROVE  [Promise!Next]_(Promise!writeVars)
<1> USE OutboxAssumption
<1> USE DEF Promise!writeVars
<1>1. CASE UNCHANGED outboxVars
  BY <1>1 DEF outboxVars, Fate
<1>2. ASSUME NEW i \in Row, EnqueueOutbox(i)
      PROVE  Promise!Decide(i)
  BY <1>2 DEF EnqueueOutbox, Fate, Promise!Decide, OutboxTypeOK
<1>3. ASSUME NEW i \in Row, LeaseExpires(i)
      PROVE  UNCHANGED Promise!writeVars
  BY <1>3 DEF LeaseExpires, Fate
<1>4. ASSUME NEW d \in Drainer, DiscardExhaustedOutbox(d)
      PROVE  Promise!GiveUp
  BY <1>4 DEF DiscardExhaustedOutbox, Promise!GiveUp, Fate, OutboxTypeOK
<1>5. ASSUME NEW d \in Drainer, ClaimOutbox(d)
      PROVE  UNCHANGED Promise!writeVars
  BY <1>5 DEF ClaimOutbox, Fate
<1>6. ASSUME NEW d \in Drainer, NEW i \in Row, Send(d, i)
      PROVE  Promise!Reach(i) \/ UNCHANGED Promise!writeVars
  BY <1>6 DEF Send, Fate, Promise!Reach, InHand, OutboxTypeOK, outboxRowVars
<1>7. ASSUME NEW d \in Drainer, MarkOutboxSent(d)
      PROVE  (\E i \in Row : Promise!Settle(i)) \/ UNCHANGED Promise!writeVars
  <2>. DEFINE w == current[d]
  <2>0. w \in Row /\ w \in reached
    BY <1>7 DEF MarkOutboxSent, InHand
  <2>1. CASE row[w] = "pending"
    <3>1. \A i \in Row : Fate(i)' = IF i = w THEN "settled" ELSE Fate(i)
      BY <1>7, <2>0, <2>1 DEF MarkOutboxSent, OutboxTypeOK, Fate
    <3>0. Fate(w) = "owed"
      BY <2>1 DEF Fate
    <3>. UNCHANGED <<reached, attempts>>
      BY <1>7 DEF MarkOutboxSent
    <3>2. Promise!Settle(w)
      BY <2>0, <3>0, <3>1 DEF Promise!Settle
    <3> QED BY <2>0, <3>2
  <2>2. CASE row[w] # "pending"
    BY <1>7, <2>0, <2>2 DEF MarkOutboxSent, Fate, OutboxTypeOK
  <2> QED BY <2>1, <2>2
<1>8. ASSUME NEW d \in Drainer, MarkOutboxFailed(d)
      PROVE  (\E i \in Row : Promise!Fail(i)) \/ UNCHANGED Promise!writeVars
  <2>. DEFINE w == current[d]
  <2>0. w \in Row /\ row[w] # "none"
    BY <1>8 DEF MarkOutboxFailed, InHand
  <2>1. CASE row[w] = "discarded"
    BY <1>8, <2>0, <2>1 DEF MarkOutboxFailed, Fate, OutboxTypeOK
  <2>2. CASE row[w] # "discarded"
    <3>1. attempts' = [attempts EXCEPT ![w] = @ + 1] /\ UNCHANGED <<reached, row>>
      BY <1>8, <2>2 DEF MarkOutboxFailed, Fate
    <3>2. Promise!Fail(w)
      BY <2>0, <3>1 DEF Promise!Fail, Fate, OutboxTypeOK
    <3> QED BY <2>0, <3>2
  <2> QED BY <2>1, <2>2
<1>9. ASSUME NEW d \in Drainer, DrainDies(d)
      PROVE  UNCHANGED Promise!writeVars
  BY <1>9 DEF DrainDies, Fate, outboxRowVars
<1> QED
  BY <1>1, <1>2, <1>3, <1>4, <1>5, <1>6, <1>7, <1>8, <1>9 DEF OutboxNext, Drain, Promise!Next

\* Crashes, lost answers, concurrent drains and leases that end too early
\* included, no write is settled before it arrived or dropped before its
\* attempts were spent.
THEOREM PromiseKept == OutboxSpec => KeepsPromise
  BY InitPromise, StepPromise, HandCorrect, PTL DEF OutboxSpec, KeepsPromise, Promise!Spec

-----------------------------------------------------------------------------
(* Exclusion. *)

LEMMA InitExclusion == OutboxInit => OneSenderPerRow /\ HeldIsLeased
  BY DEF OutboxInit, OneSenderPerRow, HeldIsLeased, Holds

LEMMA StepExclusion ==
  ASSUME SlowBatch = FALSE, OutboxTypeOK, InHand, OneSenderPerRow, HeldIsLeased, [OutboxNext]_outboxVars
  PROVE  OneSenderPerRow' /\ HeldIsLeased'
<1> USE OutboxAssumption
<1> USE DEF OneSenderPerRow, HeldIsLeased, OutboxTypeOK
<1>1. CASE UNCHANGED outboxVars
  BY <1>1 DEF outboxVars, Holds
<1>2. ASSUME NEW i \in Row, EnqueueOutbox(i)
      PROVE  OneSenderPerRow' /\ HeldIsLeased'
  BY <1>2 DEF EnqueueOutbox, Holds, drainVars
<1>3. ASSUME NEW i \in Row, LeaseExpires(i)
      PROVE  OneSenderPerRow' /\ HeldIsLeased'
  BY <1>3 DEF LeaseExpires, Holds, drainVars
<1>4. ASSUME NEW d \in Drainer, DiscardExhaustedOutbox(d)
      PROVE  OneSenderPerRow' /\ HeldIsLeased'
  BY <1>4 DEF DiscardExhaustedOutbox, Holds
<1>5. ASSUME NEW d \in Drainer, ClaimOutbox(d)
      PROVE  OneSenderPerRow' /\ HeldIsLeased'
  <2>1. PICK S \in SUBSET Row :
          /\ \A i \in S : ~leased[i]
          /\ leased' = [i \in Row |-> leased[i] \/ i \in S]
          /\ batch' = [batch EXCEPT ![d] = S]
          /\ pc' = [pc EXCEPT ![d] = IF S = {} THEN "idle" ELSE "sending"]
    BY <1>5 DEF ClaimOutbox, Oldest
  <2>2. UNCHANGED current
    BY <1>5 DEF ClaimOutbox
  <2>3. Holds(d)' = S /\ \A e \in Drainer \ {d} : Holds(e)' = Holds(e)
    BY <2>1, <2>2 DEF Holds
  <2>4. \A e \in Drainer : Holds(e) \cap S = {} /\ Holds(e) \subseteq Row
    BY <2>1 DEF InHand, Holds
  <2>5. ASSUME NEW e \in Drainer, NEW i \in Row, i \in Holds(e)'
        PROVE  leased'[i]
    <3>1. CASE e = d
      BY <2>1, <2>2, <2>5, <3>1 DEF Holds
    <3>2. CASE e # d
      BY <2>1, <2>3, <2>5, <3>2
    <3> QED BY <3>1, <3>2
  <2>6. \A e \in Drainer : Holds(e)' \subseteq Row
    BY <2>1, <2>2, <2>4 DEF Holds
  <2> QED BY <2>3, <2>4, <2>5, <2>6
<1>6. ASSUME NEW d \in Drainer, NEW i \in Row, Send(d, i)
      PROVE  OneSenderPerRow' /\ HeldIsLeased'
  <2>1. Holds(d)' = Holds(d) /\ \A e \in Drainer \ {d} : Holds(e)' = Holds(e)
    BY <1>6 DEF Send, Holds
  <2>2. UNCHANGED leased
    BY <1>6 DEF Send, outboxRowVars
  <2> QED BY <2>1, <2>2
<1>7. ASSUME NEW d \in Drainer, MarkOutboxSent(d)
      PROVE  OneSenderPerRow' /\ HeldIsLeased'
  <2>1. /\ \E step \in {"idle", "sending"} : pc' = [pc EXCEPT ![d] = step]
        /\ UNCHANGED <<leased, batch, current>>
    BY <1>7 DEF MarkOutboxSent, Continue
  <2>2. \A e \in Drainer : Holds(e)' \subseteq Holds(e)
    BY <2>1 DEF Holds
  <2> QED BY <2>1, <2>2
<1>8. ASSUME NEW d \in Drainer, MarkOutboxFailed(d)
      PROVE  OneSenderPerRow' /\ HeldIsLeased'
  <2>1. /\ pc[d] \in {"accepted", "refused"}
        /\ leased' = [leased EXCEPT ![current[d]] = FALSE]
        /\ \E step \in {"idle", "sending"} : pc' = [pc EXCEPT ![d] = step]
        /\ UNCHANGED <<batch, current>>
    BY <1>8 DEF MarkOutboxFailed, Continue
  <2>2. Holds(d) = batch[d] \cup {current[d]} /\ current[d] \in Row \ batch[d]
    BY <2>1 DEF Holds, InHand
  <2>3. Holds(d)' = batch[d] /\ \A e \in Drainer \ {d} : Holds(e)' = Holds(e)
    BY <2>1 DEF Holds
  <2>4. \A e \in Drainer : Holds(e) \subseteq Row
    BY DEF Holds, InHand
  <2>5. ASSUME NEW e \in Drainer, NEW i \in Row, i \in Holds(e)'
        PROVE  leased'[i]
    <3>1. CASE e = d
      BY <2>1, <2>2, <2>5, <3>1 DEF Holds
    <3>2. CASE e # d
      BY <2>1, <2>2, <2>3, <2>5, <3>2
    <3> QED BY <3>1, <3>2
  <2>6. \A e \in Drainer : Holds(e)' \subseteq Row
    BY <2>1, <2>4 DEF Holds
  <2> QED BY <2>2, <2>3, <2>5, <2>6
<1>9. ASSUME NEW d \in Drainer, DrainDies(d)
      PROVE  OneSenderPerRow' /\ HeldIsLeased'
  BY <1>9 DEF DrainDies, Holds, outboxRowVars
<1> QED
  BY <1>1, <1>2, <1>3, <1>4, <1>5, <1>6, <1>7, <1>8, <1>9 DEF OutboxNext, Drain

\* The lease alone keeps a row with one drain, whatever dies and whatever is
\* retried, provided it outlives the batch it was taken for.
THEOREM ExclusionCorrect ==
  ASSUME SlowBatch = FALSE
  PROVE  OutboxSpec => []OneSenderPerRow
<1>1. OutboxTypeOK /\ InHand /\ OneSenderPerRow /\ HeldIsLeased /\ [OutboxNext]_outboxVars
        => (OneSenderPerRow /\ HeldIsLeased)'
  BY StepExclusion
<1> QED
  BY <1>1, InitExclusion, HandCorrect, PTL DEF OutboxSpec

-----------------------------------------------------------------------------
(* The budget. *)

\* The drains that may record one more failure of row i before they come to their
\* next discard: those between discard and claim, and those that have it in hand.
MayFail(i) ==
  {d \in Drainer : /\ row[i] # "discarded"
                   /\ (row[i] = "pending" /\ pc[d] = "claiming") \/ i \in Holds(d)}

\* What has not been written has not failed.
Unspent == \A i \in Row : row[i] = "none" => attempts[i] = 0

Ceiling == MaxAttempts + Cardinality(Drainer) - 1

\* Each of them has its failure still to come: what was spent and what may be
\* spent before anybody looks at the budget again.
SpentAndPending == \A i \in Row : attempts[i] + Cardinality(MayFail(i)) <= Ceiling

LEMMA MayFailFinite ==
  ASSUME IsFiniteSet(Drainer), NEW i \in Row
  PROVE  /\ IsFiniteSet(MayFail(i)) /\ Cardinality(MayFail(i)) \in Nat
         /\ Cardinality(MayFail(i)) <= Cardinality(Drainer)
         /\ IsFiniteSet(MayFail(i)') /\ Cardinality(MayFail(i)') \in Nat
         /\ Cardinality(MayFail(i)') <= Cardinality(Drainer)
         /\ Cardinality(Drainer) \in Nat
<1>1. MayFail(i) \subseteq Drainer /\ MayFail(i)' \subseteq Drainer
  BY DEF MayFail
<1> QED
  BY <1>1, FS_Subset, FS_CardinalityType

\* A step that counts no failure of i and lets no further drain at it.
LEMMA FewerMayFail ==
  ASSUME IsFiniteSet(Drainer), OutboxTypeOK, SpentAndPending, NEW i \in Row,
         attempts'[i] = attempts[i], MayFail(i)' \subseteq MayFail(i)
  PROVE  attempts'[i] + Cardinality(MayFail(i)') <= Ceiling
<1>1. Cardinality(MayFail(i)') <= Cardinality(MayFail(i))
  BY MayFailFinite, FS_Subset
<1> QED
  BY <1>1, MayFailFinite, OutboxAssumption DEF SpentAndPending, OutboxTypeOK, Ceiling

\* A row that is within its budget may be failed once more by everybody.
LEMMA AllMayFail ==
  ASSUME IsFiniteSet(Drainer), OutboxTypeOK, NEW i \in Row,
         attempts'[i] = attempts[i], attempts[i] < MaxAttempts
  PROVE  attempts'[i] + Cardinality(MayFail(i)') <= Ceiling
BY MayFailFinite, OutboxAssumption DEF OutboxTypeOK, Ceiling

LEMMA InitBudget ==
  ASSUME IsFiniteSet(Drainer), OutboxInit
  PROVE  Unspent /\ SpentAndPending
<1> SUFFICES ASSUME NEW i \in Row
             PROVE  attempts[i] + Cardinality(MayFail(i)) <= Ceiling
  BY DEF SpentAndPending, Unspent, OutboxInit
<1>1. MayFail(i) = {}
  BY DEF OutboxInit, MayFail, Holds
<1>2. Cardinality(MayFail(i)) = 0
  BY <1>1, FS_EmptySet
<1> QED
  BY <1>2, MayFailFinite, OutboxAssumption DEF OutboxInit, Ceiling

LEMMA StepUnspent ==
  ASSUME OutboxTypeOK, InHand, Unspent, [OutboxNext]_outboxVars
  PROVE  Unspent'
BY DEF OutboxTypeOK, InHand, Unspent, OutboxNext, outboxVars, EnqueueOutbox, LeaseExpires, Drain,
       DrainDies, DiscardExhaustedOutbox, ClaimOutbox, Send, MarkOutboxSent, MarkOutboxFailed,
       outboxRowVars, drainVars

LEMMA StepBudget ==
  ASSUME IsFiniteSet(Drainer), OutboxTypeOK, InHand, Unspent, SpentAndPending,
         [OutboxNext]_outboxVars
  PROVE  SpentAndPending'
<1> SUFFICES ASSUME NEW i \in Row
             PROVE  attempts'[i] + Cardinality(MayFail(i)') <= Ceiling
  BY DEF SpentAndPending, Ceiling
<1> USE OutboxAssumption DEF OutboxTypeOK
<1>1. CASE UNCHANGED outboxVars
  <2>1. MayFail(i)' = MayFail(i) /\ attempts'[i] = attempts[i]
    BY <1>1 DEF outboxVars, MayFail, Holds
  <2> QED BY <2>1, FewerMayFail
<1>2. ASSUME NEW j \in Row, EnqueueOutbox(j)
      PROVE  attempts'[i] + Cardinality(MayFail(i)') <= Ceiling
  <2>1. CASE i = j
    <3>1. attempts'[i] = attempts[i] /\ attempts[i] < MaxAttempts
      BY <1>2, <2>1 DEF EnqueueOutbox, Unspent
    <3> QED BY <3>1, AllMayFail
  <2>2. CASE i # j
    <3>1. MayFail(i)' = MayFail(i) /\ attempts'[i] = attempts[i]
      BY <1>2, <2>2 DEF EnqueueOutbox, drainVars, MayFail, Holds
    <3> QED BY <3>1, FewerMayFail
  <2> QED BY <2>1, <2>2
<1>3. ASSUME NEW j \in Row, LeaseExpires(j)
      PROVE  attempts'[i] + Cardinality(MayFail(i)') <= Ceiling
  <2>1. MayFail(i)' = MayFail(i) /\ attempts'[i] = attempts[i]
    BY <1>3 DEF LeaseExpires, drainVars, MayFail, Holds
  <2> QED BY <2>1, FewerMayFail
<1>4. ASSUME NEW d \in Drainer, DiscardExhaustedOutbox(d)
      PROVE  attempts'[i] + Cardinality(MayFail(i)') <= Ceiling
  <2>1. attempts'[i] = attempts[i]
    BY <1>4 DEF DiscardExhaustedOutbox
  <2>2. CASE row[i] = "pending" /\ attempts[i] < MaxAttempts
    BY <2>1, <2>2, AllMayFail
  <2>3. CASE ~(row[i] = "pending" /\ attempts[i] < MaxAttempts)
    <3>1. row'[i] # "pending" /\ (row[i] = "discarded" => row'[i] = "discarded")
      BY <1>4, <2>3 DEF DiscardExhaustedOutbox
    <3>2. \A e \in Drainer : Holds(e)' = Holds(e)
      BY <1>4 DEF DiscardExhaustedOutbox, Holds
    <3>3. MayFail(i)' \subseteq MayFail(i)
      BY <3>1, <3>2 DEF MayFail
    <3> QED BY <2>1, <3>3, FewerMayFail
  <2> QED BY <2>2, <2>3
<1>5. ASSUME NEW d \in Drainer, ClaimOutbox(d)
      PROVE  attempts'[i] + Cardinality(MayFail(i)') <= Ceiling
  <2>1. PICK S \in SUBSET Row :
          /\ \A j \in S : row[j] = "pending"
          /\ batch' = [batch EXCEPT ![d] = S]
          /\ pc' = [pc EXCEPT ![d] = IF S = {} THEN "idle" ELSE "sending"]
    BY <1>5 DEF ClaimOutbox, Oldest
  <2>2. pc[d] = "claiming" /\ UNCHANGED <<row, attempts, current>>
    BY <1>5 DEF ClaimOutbox
  <2>3. Holds(d)' = S /\ \A e \in Drainer \ {d} : Holds(e)' = Holds(e)
    BY <2>1, <2>2 DEF Holds
  <2>4. MayFail(i)' \subseteq MayFail(i)
    BY <2>1, <2>2, <2>3 DEF MayFail
  <2> QED BY <2>2, <2>4, FewerMayFail
<1>6. ASSUME NEW d \in Drainer, NEW j \in Row, Send(d, j)
      PROVE  attempts'[i] + Cardinality(MayFail(i)') <= Ceiling
  <2>1. \A e \in Drainer : Holds(e)' = Holds(e) /\ (pc'[e] = "claiming" <=> pc[e] = "claiming")
    BY <1>6 DEF Send, Holds
  <2>2. UNCHANGED <<row, attempts>>
    BY <1>6 DEF Send, outboxRowVars
  <2>3. MayFail(i)' = MayFail(i)
    BY <2>1, <2>2 DEF MayFail
  <2> QED BY <2>2, <2>3, FewerMayFail
<1>7. ASSUME NEW d \in Drainer, MarkOutboxSent(d)
      PROVE  attempts'[i] + Cardinality(MayFail(i)') <= Ceiling
  <2>1. /\ \E step \in {"idle", "sending"} : pc' = [pc EXCEPT ![d] = step]
        /\ UNCHANGED <<attempts, batch, current>>
    BY <1>7 DEF MarkOutboxSent, Continue
  <2>2. row[i] # "pending" => row'[i] = row[i]
    BY <1>7 DEF MarkOutboxSent, InHand
  <2>3. \A e \in Drainer : Holds(e)' \subseteq Holds(e) /\ (pc'[e] = "claiming" => pc[e] = "claiming")
    BY <2>1 DEF Holds
  <2>4. MayFail(i)' \subseteq MayFail(i)
    BY <2>2, <2>3 DEF MayFail
  <2> QED BY <2>1, <2>4, FewerMayFail
<1>8. ASSUME NEW d \in Drainer, MarkOutboxFailed(d)
      PROVE  attempts'[i] + Cardinality(MayFail(i)') <= Ceiling
  <2>1. /\ pc[d] \in {"accepted", "refused"}
        /\ \E step \in {"idle", "sending"} : pc' = [pc EXCEPT ![d] = step]
        /\ UNCHANGED <<row, batch, current>>
    BY <1>8 DEF MarkOutboxFailed, Continue
  <2>2. Holds(d) = batch[d] \cup {current[d]} /\ current[d] \in Row \ batch[d]
    BY <2>1 DEF Holds, InHand
  <2>3. Holds(d)' = batch[d] /\ \A e \in Drainer \ {d} : Holds(e)' = Holds(e)
    BY <2>1 DEF Holds
  <2>4. \A e \in Drainer : pc'[e] = "claiming" => pc[e] = "claiming"
    BY <2>1
  <2>5. CASE i = current[d] /\ row[i] # "discarded"
    <3>1. attempts'[i] = attempts[i] + 1
      BY <1>8, <2>5 DEF MarkOutboxFailed
    <3>2. d \in MayFail(i) /\ MayFail(i)' \subseteq MayFail(i) \ {d}
      BY <2>1, <2>2, <2>3, <2>4, <2>5 DEF MayFail
    <3> DEFINE others == MayFail(i) \ {d}
    <3>3. IsFiniteSet(others) /\ Cardinality(others) = Cardinality(MayFail(i)) - 1
      BY <3>2, MayFailFinite, FS_RemoveElement
    <3>4. Cardinality(MayFail(i)') <= Cardinality(others)
      BY <3>2, <3>3, FS_Subset
    <3> HIDE DEF others
    <3> QED BY <3>1, <3>3, <3>4, MayFailFinite DEF SpentAndPending, Ceiling
  <2>6. CASE ~(i = current[d] /\ row[i] # "discarded")
    <3>1. attempts'[i] = attempts[i]
      BY <1>8, <2>6 DEF MarkOutboxFailed
    <3>2. MayFail(i)' \subseteq MayFail(i)
      BY <2>1, <2>2, <2>3, <2>4 DEF MayFail
    <3> QED BY <3>1, <3>2, FewerMayFail
  <2> QED BY <2>5, <2>6
<1>9. ASSUME NEW d \in Drainer, DrainDies(d)
      PROVE  attempts'[i] + Cardinality(MayFail(i)') <= Ceiling
  <2>1. \A e \in Drainer : Holds(e)' \subseteq Holds(e) /\ (pc'[e] = "claiming" => pc[e] = "claiming")
    BY <1>9 DEF DrainDies, Holds
  <2>2. UNCHANGED <<row, attempts>>
    BY <1>9 DEF DrainDies, outboxRowVars
  <2>3. MayFail(i)' \subseteq MayFail(i)
    BY <2>1, <2>2 DEF MayFail
  <2> QED BY <2>2, <2>3, FewerMayFail
<1> QED
  BY <1>1, <1>2, <1>3, <1>4, <1>5, <1>6, <1>7, <1>8, <1>9 DEF OutboxNext, Drain

\* For any finite number of concurrent drains, whatever dies and whatever leases
\* end too early: a row's attempts pass the budget by at most one for each drain
\* but the first (control/outbox.ts, the discard that looks at attempts and not at
\* leases).
THEOREM BudgetCorrect ==
  ASSUME IsFiniteSet(Drainer)
  PROVE  OutboxSpec => []BudgetOverrunBounded
<1>1. OutboxInit => Unspent /\ SpentAndPending
  BY InitBudget
<1>2. OutboxTypeOK /\ InHand /\ Unspent /\ SpentAndPending /\ [OutboxNext]_outboxVars
        => (Unspent /\ SpentAndPending)'
  BY StepUnspent, StepBudget
<1>3. OutboxTypeOK /\ SpentAndPending => BudgetOverrunBounded
  BY MayFailFinite, OutboxAssumption DEF SpentAndPending, BudgetOverrunBounded, Ceiling, OutboxTypeOK
<1> QED
  BY <1>1, <1>2, <1>3, HandCorrect, PTL DEF OutboxSpec

-----------------------------------------------------------------------------
(* The components side by side, as MCDaemon checks them. *)

\* The inductive invariants of the components, each of which holds whether its
\* component takes a step or rests.
DaemonInv ==
  /\ TypeOK
  /\ OutboxTypeOK /\ InHand
  /\ DispatchInv /\ TickInv
  /\ GraphInv /\ FilesInv /\ MigrationInv /\ StoreInv

LEMMA StepDaemon ==
  ASSUME DaemonInv, [DaemonNext]_daemonRunVars
  PROVE  DaemonInv'
<1>1. /\ [RaceNext]_allVars
      /\ [OutboxNext]_outboxVars /\ [DispatchNext]_dispatchVars /\ [TickNext]_tickVars
      /\ [GraphNext]_graphVars /\ [FilesNext]_fileVars
      /\ [MigrationNext]_migrationVars /\ [PostgresNext]_postgresVars
  BY DEF DaemonNext, RestNext, PostgresNext, RunRowStep, daemonRunVars, restVars
<1>2. TypeOK'
  BY <1>1, RaceTypes DEF DaemonInv
<1>3. OutboxTypeOK' /\ InHand'
  BY <1>1, StepHand DEF DaemonInv
<1>4. DispatchInv' /\ TickInv'
  BY <1>1, StepDispatch, StepTick DEF DaemonInv
<1>5. GraphInv' /\ FilesInv'
  BY <1>1, GraphStep, StepFiles DEF DaemonInv
<1>6. MigrationInv' /\ StoreInv'
  BY <1>1, StepMigration, StoreInvStep DEF DaemonInv
<1> QED
  BY <1>2, <1>3, <1>4, <1>5, <1>6 DEF DaemonInv

\* Whichever component a behaviour is about, its variables keep their types, for
\* every value of the constants: no sweep, callback, drain, phase, pass of the
\* planner, rewrite of a file, opener or store transaction writes a value that
\* the columns and fields it writes to do not take.
THEOREM DaemonTypeCorrect == DaemonSpec => []DaemonTypeOK
<1>1. DaemonInit => DaemonInv
  BY InitType, InitHand, InitDispatch, InitTick, GraphInitInv, InitFiles, InitMigration, InitStoreInv
  DEF DaemonInit, RaceInit, DaemonInv
<1>2. DaemonInv /\ [DaemonNext]_daemonRunVars => DaemonInv'
  BY StepDaemon
<1>3. DaemonInv => DaemonTypeOK
  BY DEF DaemonInv, DaemonTypeOK, DispatchInv, TickInv, GraphInv, FilesInv, MigrationInv, StoreInv
<1> QED
  BY <1>1, <1>2, <1>3, PTL DEF DaemonSpec
==============================================================================

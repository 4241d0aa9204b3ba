----------------------------- MODULE TicketSync -----------------------------
(***************************************************************************)
(* The tracker's way into the board: one issue, the ticket it becomes, the *)
(* sub-issue the reconciler opens for one of the ticket's targets, and the *)
(* sync passes that copy tracker state into the rows.                      *)
(*                                                                         *)
(* A pass reads the candidate query, then the rows it knows, and then      *)
(* writes row by row; what it read is old by the time it is used.  The     *)
(* Sync button runs a pass beside the tick's, and a pass that the tick has *)
(* abandoned goes on beside the next one, so two are under way at once.    *)
(*                                                                         *)
(* "aside" is a tracker state that is neither active nor terminal, or an   *)
(* issue that is someone else's: the candidate query does not return it.   *)
(* Titles, labels and the ticket's own external_state follow the same path *)
(* as blocked_by and are left out.                                         *)
(***************************************************************************)
EXTENDS Naturals

CONSTANTS
  Sync,       \* passes that may be under way at once
  MaxMoves    \* bound: what people do, and passes that throw

ASSUME SyncAssumption == MaxMoves \in Nat

VARIABLES
  issue,      \* the issue in the tracker
  sub,        \* the sub-issue in the tracker
  related,    \* an open issue blocks the issue in the tracker
  ticket,     \* tickets.status, "absent" without a row
  held,       \* tickets.blocked_by names the blocker
  marked,     \* tickets.external_terminal_at
  subTicket,  \* there is a ticket row for the sub-issue
  subId,      \* ticket_targets.external_target_id
  subState,   \* ticket_targets.external_target_state
  opening,    \* the reconciler waits for createSubIssue
  progress,   \* how far a pass is
  heard,      \* the tracker's last answer to it
  left,       \* the issues of the answer it has not handled
  known,      \* loadKnown
  moves

syncVars == <<issue, sub, related, ticket, held, marked, subTicket, subId, subState, opening,
              progress, heard, left, known, moves>>
trackerSide == <<issue, sub, related>>
ticketRow == <<ticket, held, marked, subTicket>>
targetRow == <<subId, subState, opening>>
passVars == <<progress, heard, left, known>>

Unstarted == {"imported", "analyzed"}
Closed == {"finished", "archived"}
Answer == [issue : {"absent", "open", "aside", "closed"}, sub : {"absent", "open", "aside"},
           related : BOOLEAN]
Known == [ticket : {"absent", "held", "closed"}, sub : BOOLEAN,
          state : {"unknown", "open", "aside"}]

Silence == [issue |-> "absent", sub |-> "absent", related |-> FALSE]
Nothing == [ticket |-> "absent", sub |-> FALSE, state |-> "unknown"]

SyncTypeOK ==
  /\ issue \in {"open", "aside", "closed"}
  /\ sub \in {"absent", "open", "aside"}
  /\ {related, held, marked, subTicket, subId, opening} \subseteq BOOLEAN
  /\ ticket \in Unstarted \cup Closed \cup {"absent", "analyzing", "running"}
  /\ subState \in {"unknown", "open", "aside"}
  /\ progress \in [Sync -> {"idle", "fetched", "discovering", "tracking", "applied"}]
  /\ heard \in [Sync -> Answer]
  /\ left \in [Sync -> SUBSET {"issue", "sub"}]
  /\ known \in [Sync -> Known]
  /\ moves \in 0..MaxMoves

SyncInit ==
  /\ issue = "open" /\ sub = "absent" /\ related = FALSE
  /\ ticket \in {"absent", "running"}
  /\ held = FALSE /\ marked = FALSE /\ subTicket = FALSE
  /\ subId = FALSE /\ subState = "unknown" /\ opening = FALSE
  /\ progress = [p \in Sync |-> "idle"]
  /\ heard = [p \in Sync |-> Silence]
  /\ left = [p \in Sync |-> {}]
  /\ known = [p \in Sync |-> Nothing]
  /\ moves = 0

Advance(p, stage) == progress' = [progress EXCEPT ![p] = stage]

\* What the answer said of it is not needed any more, but that it was seen.
Handled(p, one) ==
  /\ left' = [left EXCEPT ![p] = @ \ {one}]
  /\ heard' = [heard EXCEPT ![p] =
       IF one = "sub" THEN [@ EXCEPT !.sub = "absent"]
       ELSE [@ EXCEPT !.related = FALSE,
                      !.issue = IF progress[p] = "discovering" THEN heard[p].issue ELSE "absent"]]

PassEnds(p) ==
  /\ Advance(p, "idle")
  /\ heard' = [heard EXCEPT ![p] = Silence]
  /\ left' = [left EXCEPT ![p] = {}]
  /\ known' = [known EXCEPT ![p] = Nothing]

-----------------------------------------------------------------------------
(* Discover. *)

\* fetchCandidateIssues: the active ones that are assigned to us.
FetchCandidates(p) ==
  LET found == {one \in {"issue", "sub"} : (IF one = "sub" THEN sub ELSE issue) = "open"} IN
  /\ progress[p] = "idle"
  /\ Advance(p, "fetched")
  /\ left' = [left EXCEPT ![p] = found]
  /\ heard' = [heard EXCEPT ![p] =
       [issue |-> IF "issue" \in found THEN "open" ELSE "absent",
        sub |-> IF "sub" \in found THEN "open" ELSE "absent",
        related |-> "issue" \in found /\ related]]
  /\ UNCHANGED <<trackerSide, ticketRow, targetRow, known, moves>>

\* The rows, and the sub-issues of tickets that are not closed.
LoadKnown(p) ==
  /\ progress[p] = "fetched"
  /\ Advance(p, "discovering")
  /\ known' = [known EXCEPT ![p] =
       [ticket |-> IF ticket = "absent" THEN "absent"
                   ELSE IF ticket \in Closed THEN "closed" ELSE "held",
        sub |-> subId /\ ticket \notin Closed,
        state |-> IF subId /\ ticket \notin Closed THEN subState ELSE "unknown"]]
  /\ UNCHANGED <<trackerSide, ticketRow, targetRow, heard, left, moves>>

\* upsertTicket: it creates the row, and refreshes what the tracker owns in it.
Upsert(p) ==
  /\ ticket' = IF ticket = "absent" THEN "imported" ELSE ticket
  /\ held' = heard[p].related
  /\ UNCHANGED <<marked, subTicket>>

DiscoverIssue(p) ==
  /\ progress[p] = "discovering" /\ "issue" \in left[p]
  /\ Handled(p, "issue")
  /\ Upsert(p)
  /\ UNCHANGED <<trackerSide, targetRow, progress, known, moves>>

\* refreshTargetFromIssue: compared with the row as it was loaded.
RefreshTarget(p) ==
  /\ subState' = IF known[p].sub /\ known[p].state # heard[p].sub THEN heard[p].sub ELSE subState
  /\ UNCHANGED <<subId, opening>>

\* Mutant: a sub-issue is known by the id in its target's row.
DiscoverSubById(p) ==
  /\ progress[p] = "discovering" /\ "sub" \in left[p]
  /\ Handled(p, "sub")
  /\ IF known[p].sub
     THEN RefreshTarget(p) /\ UNCHANGED ticketRow
     ELSE subTicket' = TRUE /\ UNCHANGED <<targetRow, ticket, held, marked>>
  /\ UNCHANGED <<trackerSide, progress, known, moves>>

\* A sub-issue of a ticket that was known is not a ticket.
DiscoverSub(p) ==
  /\ progress[p] = "discovering" /\ "sub" \in left[p]
  /\ Handled(p, "sub")
  /\ IF known[p].ticket # "absent"
     THEN RefreshTarget(p) /\ UNCHANGED ticketRow
     ELSE subTicket' = TRUE /\ UNCHANGED <<targetRow, ticket, held, marked>>
  /\ UNCHANGED <<trackerSide, progress, known, moves>>

-----------------------------------------------------------------------------
(* Track. *)

Stale(p) == known[p].ticket = "held" /\ heard[p].issue = "absent"

\* Mutant: without a stale ticket there is nothing to ask about.
AskedOfStale(p) == IF Stale(p) THEN {"issue"} \cup {s \in {"sub"} : known[p].sub} ELSE {}

\* The tickets that were not seen, and every sub-issue.
Asked(p) == {s \in {"issue"} : Stale(p)} \cup {s \in {"sub"} : known[p].sub}

\* fetchIssueStatesByIds, which may fail: then the pass is over.
Track(p) ==
  /\ progress[p] = "discovering" /\ left[p] = {}
  /\ Asked(p) # {}
  /\ Advance(p, "tracking")
  /\ left' = [left EXCEPT ![p] = Asked(p)]
  /\ heard' = [heard EXCEPT ![p] =
       [issue |-> IF Stale(p) THEN issue ELSE "absent",
        sub |-> IF known[p].sub THEN sub ELSE "absent",
        related |-> Stale(p) /\ related]]
  /\ known' = [known EXCEPT ![p].ticket = "absent"]
  /\ UNCHANGED <<trackerSide, ticketRow, targetRow, moves>>

NothingToTrack(p) ==
  /\ progress[p] = "discovering" /\ left[p] = {}
  /\ Asked(p) = {}
  /\ PassEnds(p)
  /\ UNCHANGED <<trackerSide, ticketRow, targetRow, moves>>

TrackIssue(p) ==
  /\ progress[p] = "tracking" /\ "issue" \in left[p]
  /\ Upsert(p)
  /\ Advance(p, "applied")
  /\ UNCHANGED <<trackerSide, targetRow, heard, left, known, moves>>

\* Mutant: the decision is taken on the row that was loaded.
CloseLoadedTicket(p) ==
  /\ progress[p] = "applied"
  /\ Advance(p, "tracking")
  /\ Handled(p, "issue")
  /\ ticket' = IF heard[p].issue = "closed" THEN "archived" ELSE ticket
  /\ UNCHANGED <<trackerSide, held, marked, subTicket, targetRow, known, moves>>

\* applyExternalState and external_terminal, on the ticket as it is by now: a
\* ticket that runs is marked, one whose analysis runs is left for a later pass.
CloseTicket(p) ==
  /\ progress[p] = "applied"
  /\ Advance(p, "tracking")
  /\ Handled(p, "issue")
  /\ IF heard[p].issue = "closed"
     THEN /\ ticket' = IF ticket \in Unstarted THEN "archived" ELSE ticket
          /\ marked' = (marked \/ ticket \in Unstarted \cup {"running"})
     ELSE UNCHANGED <<ticket, marked>>
  /\ UNCHANGED <<trackerSide, held, subTicket, targetRow, known, moves>>

TrackSub(p) ==
  /\ progress[p] = "tracking" /\ "sub" \in left[p]
  /\ Handled(p, "sub")
  /\ RefreshTarget(p)
  /\ UNCHANGED <<trackerSide, ticketRow, progress, known, moves>>

Tracked(p) ==
  /\ progress[p] = "tracking" /\ left[p] = {}
  /\ PassEnds(p)
  /\ UNCHANGED <<trackerSide, ticketRow, targetRow, moves>>

-----------------------------------------------------------------------------
(* The rest of the daemon. *)

\* ensureSubIssues: the issue is there before its id is in the row, and an
\* answer that is not heard leaves it there for good.
OpenSub ==
  /\ ticket = "running" /\ sub = "absent"
  /\ sub' = "open"
  /\ opening' = TRUE
  /\ UNCHANGED <<issue, related, ticketRow, subId, subState, passVars, moves>>

RecordSub ==
  /\ opening
  /\ opening' = FALSE
  /\ subId' \in BOOLEAN
  /\ UNCHANGED <<trackerSide, ticketRow, subState, passVars, moves>>

AnalysisEnds ==
  /\ ticket = "analyzing"
  /\ ticket' = "analyzed"
  /\ UNCHANGED <<trackerSide, held, marked, subTicket, targetRow, passVars, moves>>

TicketFinishes ==
  /\ ticket = "running"
  /\ ticket' = "finished"
  /\ UNCHANGED <<trackerSide, held, marked, subTicket, targetRow, passVars, moves>>

-----------------------------------------------------------------------------
(* People, and passes that throw. *)

TrackerMoves == moves < MaxMoves /\ moves' = moves + 1

MoveIssue(to) ==
  /\ TrackerMoves
  /\ issue' = to
  /\ UNCHANGED <<sub, related, ticketRow, targetRow, passVars>>

MoveSub(to) ==
  /\ TrackerMoves
  /\ sub # "absent" /\ sub' = to
  /\ UNCHANGED <<issue, related, ticketRow, targetRow, passVars>>

\* A gate is answered with a blocker: the issue, its relation, and the row.
\* The relation may fail, and then only the row knows.
DeclareBlocker ==
  /\ TrackerMoves
  /\ ticket = "running"
  /\ related' \in {related, TRUE}
  /\ held' = TRUE
  /\ UNCHANGED <<issue, sub, ticket, marked, subTicket, targetRow, passVars>>

ResolveBlocker ==
  /\ TrackerMoves
  /\ related' = FALSE
  /\ UNCHANGED <<issue, sub, ticketRow, targetRow, passVars>>

\* Analyze, Start, Restore and Cancel.
Operate ==
  /\ TrackerMoves
  /\ \/ ticket \in Unstarted /\ ticket' = "analyzing" /\ UNCHANGED marked
     \/ ticket = "analyzed" /\ ticket' = "running" /\ UNCHANGED marked
     \/ ticket = "archived" /\ ticket' = "imported" /\ marked' = FALSE
     \/ ticket \in {"analyzed", "analyzing", "running"} /\ ticket' = "finished"
        /\ UNCHANGED marked
  /\ UNCHANGED <<trackerSide, held, subTicket, targetRow, passVars>>

PassThrows(p) ==
  /\ TrackerMoves
  /\ progress[p] # "idle"
  /\ PassEnds(p)
  /\ UNCHANGED <<trackerSide, ticketRow, targetRow>>

-----------------------------------------------------------------------------
SyncPassStep(p) ==
  \/ FetchCandidates(p) \/ LoadKnown(p) \/ DiscoverIssue(p) \/ DiscoverSub(p)
  \/ Track(p) \/ NothingToTrack(p) \/ TrackIssue(p) \/ CloseTicket(p) \/ TrackSub(p)
  \/ Tracked(p)

SyncNext ==
  \/ \E p \in Sync : SyncPassStep(p) \/ PassThrows(p)
  \/ OpenSub \/ RecordSub \/ AnalysisEnds \/ TicketFinishes
  \/ \E to \in {"open", "aside", "closed"} : MoveIssue(to)
  \/ \E to \in {"open", "aside"} : MoveSub(to)
  \/ DeclareBlocker \/ ResolveBlocker \/ Operate

SyncSpec == SyncInit /\ [][SyncNext]_syncVars

\* A sub-issue that the reconciler opened never becomes a ticket of its own,
\* which would be analysed and run beside its parent: it may be a candidate
\* before its id is in any row, and a pass may have read the rows meanwhile.
SubIssueIsNoTicket == ~subTicket

\* Closing an issue stops nothing that has started, although the pass that saw
\* it closed had loaded the ticket before it was started.
StartedWorkIsLeft ==
  [][\A p \in Sync : ticket \in {"analyzing", "running"} /\ SyncPassStep(p) => ticket' = ticket]_syncVars

\* What the tracker says for good reaches the board.  An issue that stays
\* closed is noticed although it left the candidate query, and the rows of an
\* open ticket end up saying what the tracker says: a pass with old answers
\* does not have the last word.
BoardCatchesUp ==
  /\ <>[](issue = "closed") => []<>(ticket \in Closed \cup {"absent"} \/ marked)
  /\ <>[](ticket \notin Closed \cup {"absent"} =>
            held = related /\ (subId => subState = sub))
=============================================================================

---------------------------- MODULE RegistrySync ----------------------------
(***************************************************************************)
(* One registered repository: its remote branch, the base checkout, the    *)
(* entry of the synced registry, and the context the analyzer reads.       *)
(*                                                                         *)
(* A pass reads the registry first and replaces it wholesale at its end;   *)
(* the lock is held for that one write only.  The daemon's periodic pass   *)
(* and `gaggle sync` in another process therefore interleave.  The loader  *)
(* polls a marker, and its reloads are neither awaited nor ordered.        *)
(*                                                                         *)
(* GitHub, git and the operator are external.                              *)
(***************************************************************************)
EXTENDS Naturals

CONSTANTS
  Revision,       \* what the branch may point at
  Good,           \* the commits with a readable gaggle.md
  Malformed,      \* those whose gaggle.md cannot be parsed; others have none
  MaxPushes,      \* bound: moves of the branch
  MaxCommands,    \* bound: passes of `gaggle sync`
  MaxFaults       \* bound: failures of git, GitHub, the lock or the database

Syncer == {"daemon", "cli"}
Reload == {"first", "second"}
NoRevision == "none"
Sha == Revision \cup {NoRevision}
Entry == [status : {"pending", "ok", "error", "missing"}, sha : Sha, doc : Sha]
Unsynced == [status |-> "pending", sha |-> NoRevision, doc |-> NoRevision]

VARIABLES
  branch,      \* the remote's commit
  checkout,    \* HEAD of the base checkout
  entry,       \* synced_registry
  noticed,     \* the loader's lastSyncedAt is the registry's synced_at
  context,     \* the repository in lastGood: the commit its front matter is of
  pass,        \* how far a pass has come
  asked,       \* the sha a pass was told by GitHub
  mine,        \* the entry a pass has in hand
  reload,      \* how far a reload has come
  loaded,      \* the entry it has read
  pushes, commands, faults

registryVars == <<branch, checkout, entry, noticed, context, pass, asked, mine, reload, loaded,
                  pushes, commands, faults>>
syncerVars == <<pass, asked, mine>>
loaderVars == <<noticed, context, reload, loaded>>

RegistryTypeOK ==
  /\ branch \in Revision /\ checkout \in Sha
  /\ entry \in Entry
  /\ noticed \in BOOLEAN
  /\ context \in Sha
  /\ pass \in [Syncer -> {"none", "begun", "asked", "fetched", "read", "done"}]
  /\ asked \in [Syncer -> Sha]
  /\ mine \in [Syncer -> Entry]
  /\ reload \in [Reload -> {"none", "asked", "loaded"}]
  /\ loaded \in [Reload -> Entry]
  /\ pushes \in 0..MaxPushes /\ commands \in 0..MaxCommands /\ faults \in 0..MaxFaults

RegistryInit ==
  /\ branch \in Revision
  /\ checkout = NoRevision
  /\ entry = Unsynced
  /\ noticed = FALSE
  /\ context = NoRevision
  /\ pass = [p \in Syncer |-> "none"]
  /\ asked = [p \in Syncer |-> NoRevision]
  /\ mine = [p \in Syncer |-> Unsynced]
  /\ reload = [l \in Reload |-> IF l = "first" THEN "asked" ELSE "none"]
  /\ loaded = [l \in Reload |-> Unsynced]
  /\ pushes = 0 /\ commands = 0 /\ faults = 0

Fault == faults < MaxFaults /\ faults' = faults + 1

-----------------------------------------------------------------------------
(* A pass: runSyncPass and processRepository. *)

\* The prior entry is read.  `gaggle sync --repo` of another repository carries
\* it as it is.
BeginPass(p) ==
  /\ pass[p] = "none"
  /\ p = "cli" => commands < MaxCommands
  /\ commands' = IF p = "cli" THEN commands + 1 ELSE commands
  /\ mine' = [mine EXCEPT ![p] = entry]
  /\ \/ pass' = [pass EXCEPT ![p] = "begun"]
     \/ p = "cli" /\ pass' = [pass EXCEPT ![p] = "done"]
  /\ UNCHANGED <<branch, checkout, entry, loaderVars, asked, pushes, faults>>

\* What a failure writes: the last known good front matter and its commit.
GiveUp(p) ==
  /\ mine' = [mine EXCEPT ![p].status = "error"]
  /\ pass' = [pass EXCEPT ![p] = "done"]

AskRemote(p) ==
  /\ pass[p] = "begun"
  /\ \/ /\ asked' = [asked EXCEPT ![p] = branch]
        /\ pass' = [pass EXCEPT ![p] = "asked"]
        /\ UNCHANGED <<mine, faults>>
     \/ Fault /\ GiveUp(p) /\ UNCHANGED asked
  /\ UNCHANGED <<branch, checkout, entry, loaderVars, pushes, commands>>

\* Mutant: a repository that was in order the last time needs no pull.
FetchUnlessOk(p) ==
  /\ pass[p] = "asked"
  /\ \/ /\ checkout' = IF checkout = NoRevision \/ mine[p].status # "ok" THEN branch ELSE checkout
        /\ pass' = [pass EXCEPT ![p] = "fetched"]
        /\ UNCHANGED <<mine, asked, faults>>
     \/ Fault /\ GiveUp(p) /\ asked' = [asked EXCEPT ![p] = NoRevision] /\ UNCHANGED checkout
  /\ UNCHANGED <<branch, entry, loaderVars, pushes, commands>>

\* Cloned when there is no checkout, else fetched and reset to the branch when
\* GitHub's sha is not the prior entry's.
FetchBranch(p) ==
  /\ pass[p] = "asked"
  /\ \/ /\ checkout' = IF checkout = NoRevision \/ mine[p].sha # asked[p] THEN branch ELSE checkout
        /\ pass' = [pass EXCEPT ![p] = "fetched"]
        /\ UNCHANGED <<mine, asked, faults>>
     \/ Fault /\ GiveUp(p) /\ asked' = [asked EXCEPT ![p] = NoRevision] /\ UNCHANGED checkout
  /\ UNCHANGED <<branch, entry, loaderVars, pushes, commands>>

\* gitCurrentSha: the other pass may have moved the checkout.  When git does not
\* say, it is taken to be at what GitHub said.
ReadHead(p) ==
  /\ pass[p] = "fetched"
  /\ \/ mine' = [mine EXCEPT ![p].sha = checkout] /\ UNCHANGED faults
     \/ Fault /\ mine' = [mine EXCEPT ![p].sha = asked[p]]
  /\ asked' = [asked EXCEPT ![p] = NoRevision]
  /\ pass' = [pass EXCEPT ![p] = "read"]
  /\ UNCHANGED <<branch, checkout, entry, loaderVars, pushes, commands>>

\* readGaggleMdAt, and what the entry says of it.
ReadDoc(p) ==
  /\ pass[p] = "read"
  /\ mine' = [mine EXCEPT ![p] =
       CASE checkout \in Good -> [status |-> "ok", sha |-> @.sha, doc |-> checkout]
         [] checkout \in Malformed -> [@ EXCEPT !.status = "error"]
         [] OTHER -> [status |-> "missing", sha |-> @.sha, doc |-> NoRevision]]
  /\ pass' = [pass EXCEPT ![p] = "done"]
  /\ UNCHANGED <<branch, checkout, entry, loaderVars, asked, pushes, commands, faults>>

\* writeSyncedRegistry under the lock; neither is certain.
WriteRegistry(p) ==
  /\ pass[p] = "done"
  /\ \/ entry' = mine[p] /\ noticed' = FALSE /\ UNCHANGED faults
     \/ Fault /\ UNCHANGED <<entry, noticed>>
  /\ pass' = [pass EXCEPT ![p] = "none"]
  /\ mine' = [mine EXCEPT ![p] = Unsynced]
  /\ UNCHANGED <<branch, checkout, asked, context, reload, loaded, pushes, commands>>

-----------------------------------------------------------------------------
(* The loader. *)

PollMarker(l) ==
  /\ ~noticed /\ entry # Unsynced
  /\ reload[l] = "none"
  /\ noticed' = TRUE
  /\ reload' = [reload EXCEPT ![l] = "asked"]
  /\ UNCHANGED <<branch, checkout, entry, context, syncerVars, loaded, pushes, commands, faults>>

\* loadSyncedRegistry; an empty registry and a failed read leave the context.
LoadRegistry(l) ==
  /\ reload[l] = "asked"
  /\ \/ /\ entry # Unsynced
        /\ loaded' = [loaded EXCEPT ![l] = entry]
        /\ reload' = [reload EXCEPT ![l] = "loaded"]
        /\ UNCHANGED faults
     \/ /\ \/ entry = Unsynced /\ UNCHANGED faults
           \/ Fault
        /\ reload' = [reload EXCEPT ![l] = "none"]
        /\ UNCHANGED loaded
  /\ UNCHANGED <<branch, checkout, entry, noticed, context, syncerVars, pushes, commands>>

\* buildContext: only what is in order is offered to the analyzer.
SetContext(l) ==
  /\ reload[l] = "loaded"
  /\ context' = IF loaded[l].status = "ok" THEN loaded[l].doc ELSE NoRevision
  /\ reload' = [reload EXCEPT ![l] = "none"]
  /\ loaded' = [loaded EXCEPT ![l] = Unsynced]
  /\ UNCHANGED <<branch, checkout, entry, noticed, syncerVars, pushes, commands, faults>>

\* The branch moves, by a push or a forced one.
Push(c) ==
  /\ pushes < MaxPushes /\ c # branch
  /\ branch' = c
  /\ pushes' = pushes + 1
  /\ UNCHANGED <<checkout, entry, loaderVars, syncerVars, commands, faults>>

-----------------------------------------------------------------------------
SyncerStep(p) == AskRemote(p) \/ FetchBranch(p) \/ ReadHead(p) \/ ReadDoc(p) \/ WriteRegistry(p)
DaemonPass == BeginPass("daemon") \/ SyncerStep("daemon")
LoaderStep(l) == LoadRegistry(l) \/ SetContext(l)
Poll == \E l \in Reload : PollMarker(l)

RegistryNext ==
  \/ \E p \in Syncer : BeginPass(p) \/ SyncerStep(p)
  \/ Poll \/ \E l \in Reload : LoaderStep(l)
  \/ \E c \in Revision : Push(c)

\* Once the branch rests the analyzer comes to work from exactly what it holds,
\* and from nothing when that is unreadable: whatever stale entries overlapping
\* passes have written, whichever reload was lost or landed late.
RegistryCatchesUp ==
  <>[](entry.sha = branch /\ context = IF branch \in Good THEN branch ELSE NoRevision)
=============================================================================

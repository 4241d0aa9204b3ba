---------------------------- MODULE HubProcesses ----------------------------
(***************************************************************************)
(* One workspace under the hub's process manager: the daemon it spawns or  *)
(* adopts, the sidecar file by which a daemon makes itself known, the      *)
(* restart timer of a crashed child, the operator's start and stop, and a  *)
(* hub that dies while its daemons run on.                                 *)
(*                                                                         *)
(* startWorkspace makes a new record of the workspace every time, and the  *)
(* callbacks of the old one (its exit, its timer, its wait for the         *)
(* sidecar) keep the record they were made with.  A record and the daemon  *)
(* it spawned have the same number.  Process ids are not reused here.      *)
(***************************************************************************)
EXTENDS Naturals

CONSTANTS
  MaxRecords,     \* bound: records, and so daemons
  MaxHubCrashes   \* bound: hubs that die

ASSUME HubAssumption == MaxRecords \in Nat \ {0} /\ MaxHubCrashes \in Nat

Record == 1..MaxRecords
None == 0

VARIABLES
  hub,        \* up, or stopped for good
  used,       \* records made so far
  current,    \* the record in the manager's map
  child,      \* the daemon of a record: its own, or one it adopted
  status,     \* ManagedWorkspace.status; "gone" with the hub that held it
  manual,     \* ManagedWorkspace.manualStopped
  timer,      \* the restart of a record is scheduled
  waiting,    \* awaitSidecar of a record
  reaping,    \* stopWorkspace waits for the exit of a record's child
  daemon,     \* a gaggle process
  sidecar,    \* the daemon that .gaggle/hub.json names
  hubCrashes

hubVars == <<hub, used, current, child, status, manual, timer, waiting, reaping, daemon,
             sidecar, hubCrashes>>

Alive == {"starting", "serving", "closing"}

HubTypeOK ==
  /\ hub \in {"up", "down"}
  /\ used \in 0..MaxRecords
  /\ current \in 0..MaxRecords
  /\ child \in [Record -> 0..MaxRecords]
  /\ status \in [Record -> {"gone", "starting", "running", "crashed", "stopped"}]
  /\ manual \in [Record -> BOOLEAN] /\ timer \in [Record -> BOOLEAN]
  /\ waiting \in [Record -> BOOLEAN] /\ reaping \in [Record -> BOOLEAN]
  /\ daemon \in [Record -> Alive \cup {"none", "dead"}]
  /\ sidecar \in 0..MaxRecords
  /\ hubCrashes \in 0..MaxHubCrashes

HubInit ==
  /\ hub = "up"
  /\ used = 0
  /\ current = None
  /\ child = [n \in Record |-> None]
  /\ status = [n \in Record |-> "gone"]
  /\ manual = [n \in Record |-> FALSE]
  /\ timer = [n \in Record |-> FALSE]
  /\ waiting = [n \in Record |-> FALSE]
  /\ reaping = [n \in Record |-> FALSE]
  /\ daemon = [n \in Record |-> "none"]
  /\ sidecar = None
  /\ hubCrashes = 0

Own(n) == child[n] = n

-----------------------------------------------------------------------------
(* startWorkspace *)

\* Already started: nothing is done.
InHand == current # None /\ status[current] \in {"starting", "running"}

Named == sidecar # None /\ daemon[sidecar] \in Alive

\* A new record n takes the place of the current one, which is no longer
\* stopped by hand.
Replace(n, d, st) ==
  /\ used' = n
  /\ current' = n
  /\ child' = [child EXCEPT ![n] = d]
  /\ status' = [status EXCEPT ![n] = st]
  /\ manual' = [m \in Record |-> IF m = current THEN FALSE ELSE manual[m]]

StartWorkspace ==
  LET n == used + 1 IN
  IF InHand
  THEN UNCHANGED <<used, current, child, status, manual, waiting, daemon, sidecar>>
  ELSE /\ n \in Record
       /\ \/ /\ Named
             /\ Replace(n, sidecar, "running")
             /\ UNCHANGED <<waiting, daemon, sidecar>>
          \/ /\ ~Named
             /\ Replace(n, n, "starting")
             /\ waiting' = [waiting EXCEPT ![n] = TRUE]
             /\ daemon' = [daemon EXCEPT ![n] = "starting"]
             /\ sidecar' = None

OperatorStarts ==
  /\ hub = "up"
  /\ ~InHand
  /\ StartWorkspace
  /\ UNCHANGED <<hub, timer, reaping, hubCrashes>>

\* The backoff of a crashed child is over.
RestartChild(n) ==
  /\ timer[n] /\ hub = "up"
  /\ timer' = [timer EXCEPT ![n] = FALSE]
  /\ IF manual[n]
     THEN UNCHANGED <<used, current, child, status, manual, waiting, daemon, sidecar>>
     ELSE StartWorkspace
  /\ UNCHANGED <<hub, reaping, hubCrashes>>

\* Whatever daemon the sidecar names, the record takes it for its own child's.
AwaitSidecar(n) ==
  /\ waiting[n] /\ hub = "up"
  /\ waiting' = [waiting EXCEPT ![n] = FALSE]
  /\ \/ Named /\ status' = [status EXCEPT ![n] = "running"]
     \/ UNCHANGED status
  /\ UNCHANGED <<hub, used, current, child, manual, timer, reaping, daemon, sidecar, hubCrashes>>

\* Mutant: only a child that came to serve is due again.
ExitWhenReady(n) ==
  /\ hub = "up"
  /\ Own(n) /\ daemon[n] = "dead" /\ status[n] # "gone"
  /\ child' = [child EXCEPT ![n] = None]
  /\ status' = [status EXCEPT ![n] = IF manual[n] THEN "stopped" ELSE "crashed"]
  /\ timer' = [timer EXCEPT ![n] = ~manual[n] /\ status[n] = "running"]
  /\ reaping' = [reaping EXCEPT ![n] = FALSE]
  /\ sidecar' = None
  /\ UNCHANGED <<hub, used, current, manual, waiting, daemon, hubCrashes>>

\* child.exited: the sidecar is removed, whoever wrote it, and unless the
\* operator stopped it the child is due again.
ChildExited(n) ==
  /\ hub = "up"
  /\ Own(n) /\ daemon[n] = "dead" /\ status[n] # "gone"
  /\ child' = [child EXCEPT ![n] = None]
  /\ status' = [status EXCEPT ![n] = IF manual[n] THEN "stopped" ELSE "crashed"]
  /\ timer' = [timer EXCEPT ![n] = ~manual[n]]
  /\ reaping' = [reaping EXCEPT ![n] = FALSE]
  /\ sidecar' = None
  /\ UNCHANGED <<hub, used, current, manual, waiting, daemon, hubCrashes>>

-----------------------------------------------------------------------------
(* stopWorkspace and stopAll *)

\* SIGTERM: a daemon that has not come to its handlers dies of it.
Term(D) == [d \in Record |-> IF d \in D /\ daemon[d] = "starting" THEN "dead"
                             ELSE IF d \in D /\ daemon[d] = "serving" THEN "closing"
                             ELSE daemon[d]]

OperatorStops ==
  LET n == current IN
  /\ hub = "up"
  /\ n # None /\ status[n] # "stopped"
  /\ manual' = [manual EXCEPT ![n] = TRUE]
  /\ status' = [status EXCEPT ![n] = "stopped"]
  /\ reaping' = [reaping EXCEPT ![n] = Own(n)]
  /\ daemon' = Term({child[n]})
  /\ UNCHANGED <<hub, used, current, child, timer, waiting, sidecar, hubCrashes>>

\* Eight seconds on, SIGKILL.
Reap(n) ==
  /\ reaping[n] /\ hub = "up"
  /\ reaping' = [reaping EXCEPT ![n] = FALSE]
  /\ daemon' = [daemon EXCEPT ![n] = "dead"]
  /\ UNCHANGED <<hub, used, current, child, status, manual, timer, waiting, sidecar, hubCrashes>>

Forget ==
  /\ current' = None
  /\ status' = [n \in Record |-> "gone"]
  /\ manual' = [n \in Record |-> FALSE]
  /\ timer' = [n \in Record |-> FALSE]
  /\ waiting' = [n \in Record |-> FALSE]
  /\ reaping' = [n \in Record |-> FALSE]

\* The hub's children are stopped with it, those it adopted are not.
HubStops ==
  /\ hub = "up"
  /\ hub' = "down"
  /\ Forget
  /\ \E grace \in BOOLEAN : LET mine == {n \in Record : status[n] # "gone" /\ Own(n)} IN
       daemon' = [d \in Record |-> IF d \in mine /\ ~grace THEN "dead" ELSE Term(mine)[d]]
  /\ UNCHANGED <<used, child, sidecar, hubCrashes>>

\* The hub dies, its daemons do not, and its successor has an empty map.
HubCrashes ==
  /\ hub = "up"
  /\ hubCrashes < MaxHubCrashes
  /\ hubCrashes' = hubCrashes + 1
  /\ Forget
  /\ UNCHANGED <<hub, used, child, daemon, sidecar>>

-----------------------------------------------------------------------------
(* A daemon. *)

DaemonServes(d) ==
  /\ daemon[d] = "starting"
  /\ daemon' = [daemon EXCEPT ![d] = "serving"]
  /\ sidecar' = d
  /\ UNCHANGED <<hub, used, current, child, status, manual, timer, waiting, reaping, hubCrashes>>

DaemonDies(d) ==
  /\ daemon[d] \in {"starting", "serving"}
  /\ daemon' = [daemon EXCEPT ![d] = "dead"]
  /\ UNCHANGED <<hub, used, current, child, status, manual, timer, waiting, reaping, sidecar,
                 hubCrashes>>

\* A shutdown removes the sidecar first, and then suspends its runs.
DaemonCloses(d) ==
  /\ daemon[d] = "closing"
  /\ \/ sidecar # None /\ sidecar' = None /\ UNCHANGED daemon
     \/ daemon' = [daemon EXCEPT ![d] = "dead"] /\ UNCHANGED sidecar
  /\ UNCHANGED <<hub, used, current, child, status, manual, timer, waiting, reaping, hubCrashes>>

-----------------------------------------------------------------------------
HubOwnStep(n) == RestartChild(n) \/ AwaitSidecar(n) \/ ChildExited(n) \/ Reap(n)

HubNext ==
  \/ OperatorStarts \/ OperatorStops \/ HubStops \/ HubCrashes
  \/ \E n \in Record : HubOwnStep(n) \/ DaemonServes(n) \/ DaemonDies(n) \/ DaemonCloses(n)

\* A child that dies is replaced, or the operator stopped it, or the record has
\* another daemon's word for it: an older record's callbacks do not use up what
\* the restart of the newer one needs.
Orphaned == hub = "up" /\ current # None /\ Own(current) /\ daemon[current] = "dead"
Attended == \/ hub = "down" \/ used = MaxRecords \/ current = None
            \/ status[current] \in {"stopped", "starting", "running"} /\ ~Orphaned
CrashedChildIsReplaced == Orphaned ~> Attended
=============================================================================

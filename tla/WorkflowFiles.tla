--------------------------- MODULE WorkflowFiles ---------------------------
(***************************************************************************)
(* One workflow name and the files that define it: a definition in the     *)
(* checkout and one among the synced templates, either of which may be     *)
(* edited, broken or removed while a run is on its way through the         *)
(* document.  A run is resumed from the file, not from memory, after a     *)
(* gate and after a restart.                                               *)
(*                                                                         *)
(* The run does a piece of work, asks at a gate, and does another piece.   *)
(***************************************************************************)
EXTENDS Naturals

CONSTANTS
  Surface,         \* where the gate is answered: the dashboard, the tracker, the CLI
  MaxEdits,        \* bound: edits of files
  MaxFileCrashes   \* bound: deaths of the executor

ASSUME FilesAssumption == MaxEdits \in Nat /\ MaxFileCrashes \in Nat

Revision == {"first", "second"}
NoRevision == "none"

\* A file: absent, not loadable, loadable with errors between its nodes, or one
\* of two good revisions; the first exists in two layouts.
File == {"absent", "broken", "invalid", "first", "first, reformatted", "second"}

Root == {"checkout", "templates"}
Work == {"before", "after"}

VARIABLES
  file,      \* what each search root has under the name
  run,       \* workflow_runs: status and workflow_hash
  driver,    \* the revision its runner was built with, while it has one
  gate,      \* workflow_approvals
  rows,      \* completed nodes, and (ghost) the revision each was run from
  prepared,  \* runners built by an answer that is not recorded yet
  edits, fileCrashes

fileVars == <<file, run, driver, gate, rows, prepared, edits, fileCrashes>>

FilesTypeOK ==
  /\ file \in [Root -> File]
  /\ run \in [status : {"none", "refused", "running", "paused", "interrupted", "completed"},
             hash : Revision \cup {NoRevision}]
  /\ driver \in Revision \cup {NoRevision}
  /\ gate \in {"unasked", "pending", "approved"}
  /\ rows \in [Work -> Revision \cup {NoRevision}]
  /\ prepared \in [Surface -> Revision \cup {NoRevision}]
  /\ edits \in 0..MaxEdits /\ fileCrashes \in 0..MaxFileCrashes

FilesInit ==
  /\ file \in [Root -> File]
  /\ run = [status |-> "none", hash |-> NoRevision]
  /\ driver = NoRevision
  /\ gate = "unasked"
  /\ rows = [w \in Work |-> NoRevision]
  /\ prepared = [s \in Surface |-> NoRevision]
  /\ edits = 0 /\ fileCrashes = 0

-----------------------------------------------------------------------------
(* From a name to a document. *)

\* parseWorkflow
Loads(f) == f \notin {"absent", "broken"}

\* hashWorkflow: the normalized document, so layout does not count.
HashOf(f) == IF f = "first, reformatted" THEN "first" ELSE f

\* scanWorkflows: the first root whose file loads provides the name.
Scanned == CASE Loads(file["checkout"]) -> file["checkout"]
             [] OTHER -> file["templates"]

\* resolveWorkflow: refused when nothing loads or validation finds errors.
Resolved == IF Loads(Scanned) /\ Scanned # "invalid" THEN HashOf(Scanned) ELSE NoRevision

\* Somebody edits, removes or restores a definition; template sync rewrites the
\* checkout.
Edit(root) ==
  /\ edits < MaxEdits
  /\ edits' = edits + 1
  /\ \E f \in File \ {file[root]} : file' = [file EXCEPT ![root] = f]
  /\ UNCHANGED <<run, driver, gate, rows, prepared, fileCrashes>>

-----------------------------------------------------------------------------
(* The run. *)

StartNamed ==
  /\ run.status = "none"
  /\ driver' = Resolved
  /\ run' = IF Resolved = NoRevision THEN [run EXCEPT !.status = "refused"]
            ELSE [status |-> "running", hash |-> Resolved]
  /\ UNCHANGED <<file, gate, rows, prepared, edits, fileCrashes>>

Completes(w) ==
  /\ driver # NoRevision
  /\ rows[w] = NoRevision
  /\ w = "after" => gate = "approved"
  /\ rows' = [rows EXCEPT ![w] = driver]
  /\ UNCHANGED <<file, run, driver, gate, prepared, edits, fileCrashes>>

ParkAtGate ==
  /\ driver # NoRevision
  /\ rows["before"] # NoRevision /\ gate = "unasked"
  /\ gate' = "pending"
  /\ run' = [run EXCEPT !.status = "paused"]
  /\ driver' = NoRevision
  /\ UNCHANGED <<file, rows, prepared, edits, fileCrashes>>

RunEnds ==
  /\ driver # NoRevision
  /\ \A w \in Work : rows[w] # NoRevision
  /\ run' = [run EXCEPT !.status = "completed"]
  /\ driver' = NoRevision
  /\ UNCHANGED <<file, gate, rows, prepared, edits, fileCrashes>>

\* The executor dies with its runners; the rows and the files stay.
ExecutorDies ==
  /\ fileCrashes < MaxFileCrashes
  /\ fileCrashes' = fileCrashes + 1
  /\ driver' = NoRevision
  /\ prepared' = [s \in Surface |-> NoRevision]
  /\ UNCHANGED <<file, run, gate, rows, edits>>

-----------------------------------------------------------------------------
(* Resuming. *)

\* Mutant of PrepareResume: any valid document of the name will do.
PrepareAnyway == Resolved

\* prepareResume: the runner it builds, unless the document is gone, invalid or
\* another one than the run was started with.  (opts.force, which no surface of
\* the repository passes, is left out: it would resume with the other document.)
PrepareResume == IF Resolved = run.hash THEN Resolved ELSE NoRevision

\* recoverInterruptedRuns, at startup: a run nobody drives is marked, and
\* resumed if it can be.
Recover ==
  /\ run.status = "running" /\ driver = NoRevision
  /\ driver' = PrepareResume
  /\ run' = IF PrepareResume = NoRevision THEN [run EXCEPT !.status = "interrupted"] ELSE run
  /\ UNCHANGED <<file, gate, rows, prepared, edits, fileCrashes>>

\* decide: first the runner, and only then the answer, so that a document that
\* has changed leaves the question where it was.
Prepare(s) ==
  /\ gate = "pending" /\ prepared[s] = NoRevision
  /\ PrepareResume # NoRevision
  /\ prepared' = [prepared EXCEPT ![s] = PrepareResume]
  /\ UNCHANGED <<file, run, driver, gate, rows, edits, fileCrashes>>

\* The answer is recorded and the run resumed, by the first surface that gets
\* there.
RecordDecision(s) ==
  /\ prepared[s] # NoRevision
  /\ IF gate = "pending"
     THEN /\ gate' = "approved"
          /\ run' = [run EXCEPT !.status = "running"]
          /\ driver' = prepared[s]
     ELSE UNCHANGED <<gate, run, driver>>
  /\ prepared' = [prepared EXCEPT ![s] = NoRevision]
  /\ UNCHANGED <<file, rows, edits, fileCrashes>>

FilesNext ==
  \/ \E root \in Root : Edit(root)
  \/ StartNamed \/ ParkAtGate \/ RunEnds \/ ExecutorDies \/ Recover
  \/ \E w \in Work : Completes(w)
  \/ \E s \in Surface : Prepare(s) \/ RecordDecision(s)

FilesSpec == FilesInit /\ [][FilesNext]_fileVars

-----------------------------------------------------------------------------
\* A run is one document from its first node to its last: whatever is edited,
\* broken and restored while it works, waits at its gate or lies interrupted,
\* no two of its completed nodes come from different revisions.
OneDocumentPerRun == \A w \in Work : rows[w] \in {NoRevision, run.hash}
=============================================================================

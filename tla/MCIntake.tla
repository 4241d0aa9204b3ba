------------------------------ MODULE MCIntake ------------------------------
(***************************************************************************)
(* What comes into the system for TLC: tickets from the tracker and        *)
(* repositories from GitHub.  The two share no variable and are checked in *)
(* one run: which of them a behaviour is about is chosen at its start, and *)
(* the other rests in an initial state.                                    *)
(***************************************************************************)
EXTENDS TicketSync, RegistrySync

CONSTANTS p1, p2, good, bad

VARIABLE part

intakeVars == <<part, syncVars, registryVars>>

IntakeInit ==
  /\ part \in {"sync", "registry"}
  /\ SyncInit /\ RegistryInit
  /\ part = "sync" => branch = good
  /\ part = "registry" => ticket = "absent"

IntakeNext ==
  \/ part = "sync" /\ SyncNext /\ UNCHANGED <<part, registryVars>>
  \/ part = "registry" /\ RegistryNext /\ UNCHANGED <<part, syncVars>>

-----------------------------------------------------------------------------
\* Passes go on and come again, the reconciler records what it opened, and an
\* analysis ends.  The tracker and the operator owe nothing.
SyncFair ==
  /\ \A p \in Sync : WF_syncVars(part = "sync" /\ SyncPassStep(p))
  /\ WF_syncVars(part = "sync" /\ RecordSub)
  /\ WF_syncVars(part = "sync" /\ AnalysisEnds)

\* The interval of startPeriodicSyncer comes round, a command that was begun
\* ends, and the loader's poll and its reloads go on.
RegistryFair ==
  /\ WF_registryVars(part = "registry" /\ DaemonPass)
  /\ WF_registryVars(part = "registry" /\ SyncerStep("cli"))
  /\ WF_registryVars(part = "registry" /\ Poll)
  /\ \A l \in Reload : WF_registryVars(part = "registry" /\ LoaderStep(l))

IntakeSpec == IntakeInit /\ [][IntakeNext]_intakeVars /\ SyncFair /\ RegistryFair

-----------------------------------------------------------------------------
\* In the behaviours that are about the registry it catches up (RegistrySync);
\* in the others it rests.
ContextCatchesUp == part = "registry" => RegistryCatchesUp
=============================================================================

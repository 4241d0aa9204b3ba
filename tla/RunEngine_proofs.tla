-------------------------- MODULE RunEngine_proofs --------------------------
(***************************************************************************)
(* Proofs about RunEngine, for any workflow graph, any number of processes *)
(* and any bounds: its type invariant, and that one process at a time      *)
(* drives the run.  RunEngineGates_proofs builds on them.                  *)
(***************************************************************************)
EXTENDS RunEngine, TLAPS

USE DEF Verdict, boundVars, dbVars, runnerVars, ghostVars, Lands

Locations == Active \cup Driving \cup {"down", "startup", "reclaiming", "resuming", "idle", "prepared"}
Progress == {"no", "starting", "body", "asking", "rework", "reasking", "counting", "saving", "refusing"}
Answer == [no : Nat, node : Node \cup {NoNode}, covers : SUBSET Node, verdict : Verdict, rework : Nat]
Approval == [no : Nat, node : Node \cup {NoNode}, rework : Nat, pending : BOOLEAN]
Remembered == NodeStatus \ {"interrupted"}

USE DEF Locations, Progress, Answer, Approval, Remembered

LEMMA InitType == Init => TypeOK
<1> SUFFICES ASSUME Init PROVE TypeOK
    OBVIOUS
<1>1. /\ run \in RunStatus /\ lease \in Proc \cup {NoProc, DeadProc}
      /\ row \in [Node -> NodeStatus] /\ holds \in [Node -> BOOLEAN]
      /\ said \in [Node -> Verdict \cup {"nothing"}]
      /\ everDone \subseteq Node /\ unheeded \in BOOLEAN /\ overlooked \in BOOLEAN
    BY DEF Init, RunStatus, NodeStatus, Fresh
<1>2. gate \in [no : Nat, node : Node \cup {NoNode}, rework : Nat, pending : BOOLEAN]
    BY DEF Init
<1>3. pc \in [Proc -> Locations]
    BY DEF Init
<1>4. /\ mem \in [Proc -> [Node -> NodeStatus \ {"interrupted"}]]
      /\ at \in [Proc -> [Node -> Progress]]
      /\ todo \in [Proc -> [skip : SUBSET Node, ready : SUBSET Node]]
    BY DEF Init, NodeStatus, Fresh, Nowhere, NoPlan
<1>5. /\ stop \in [Proc -> {"none", "paused", "cancelled"}]
      /\ aborted \in [Proc -> BOOLEAN] /\ suspended \in [Proc -> BOOLEAN]
      /\ answer \in [Proc -> Answer] /\ tries \in [Proc -> Nat]
      /\ found \in [Proc -> SUBSET Unsafe]
    BY DEF Init, NoAnswer
<1>6. crashes \in 0..MaxCrashes /\ shutdowns \in 0..MaxShutdowns
    BY EngineAssumption DEF Init
<1> QED BY <1>1, <1>2, <1>3, <1>4, <1>5, <1>6 DEF TypeOK

\* What a runner's fields are, one by one.
PcOK == pc \in [Proc -> Locations]
MemOK == mem \in [Proc -> [Node -> Remembered]]
AtOK == at \in [Proc -> [Node -> Progress]]
TodoOK == todo \in [Proc -> [skip : SUBSET Node, ready : SUBSET Node]]
StopOK == /\ stop \in [Proc -> {"none", "paused", "cancelled"}]
          /\ aborted \in [Proc -> BOOLEAN]
          /\ suspended \in [Proc -> BOOLEAN]
AnswerOK == answer \in [Proc -> Answer]

USE DEF PcOK, MemOK, AtOK, TodoOK, StopOK, AnswerOK

\* The next gate of the run.
LEMMA NewGateType ==
  ASSUME TypeOK, NEW n \in Node
  PROVE  [no |-> gate.no + 1, node |-> n, rework |-> 0, pending |-> TRUE] \in Approval
<1>1. gate.no \in Nat
    BY DEF TypeOK
<1>2. gate.no + 1 \in Nat
    BY <1>1
<1> QED BY <1>2

\* A process drops its runner.
LEMMA DropType ==
  ASSUME TypeOK, NEW p \in Proc, NEW where \in Locations, Drop(p, where)
  PROVE  /\ PcOK' /\ MemOK' /\ AtOK' /\ TodoOK' /\ StopOK' /\ AnswerOK'
         /\ tries' \in [Proc -> Nat]
<1>1. Fresh \in [Node -> Remembered] /\ Nowhere \in [Node -> Progress]
    BY DEF Fresh, Nowhere, NodeStatus
<1>2. NoPlan \in [skip : SUBSET Node, ready : SUBSET Node] /\ NoAnswer \in Answer
    BY DEF NoPlan, NoAnswer
<1> QED BY <1>1, <1>2 DEF Drop, Goto, TypeOK

LEMMA LaunchType ==
  ASSUME TypeOK, NEW p \in Proc, StartRun(p) \/ AcquireLease(p) \/ MarkRunning(p)
  PROVE  TypeOK'
<1>1. CASE StartRun(p)
    BY <1>1 DEF StartRun, Goto, TypeOK, RunStatus, Active
<1>2. CASE AcquireLease(p)
  <2>1. CASE lease \in {NoProc, p}
      BY <1>2, <2>1 DEF AcquireLease, Goto, TypeOK, Active
  <2>2. CASE lease \notin {NoProc, p}
    <3>1. /\ Drop(p, "idle") /\ unheeded' \in BOOLEAN
          /\ UNCHANGED <<lease, run, row, gate, holds, found, said, everDone, overlooked,
                         crashes, shutdowns>>
        BY <1>2, <2>2 DEF AcquireLease, TypeOK
    <3> QED BY <3>1, DropType DEF TypeOK
  <2> QED BY <2>1, <2>2
<1>3. CASE MarkRunning(p)
    BY <1>3 DEF MarkRunning, Goto, TypeOK, RunStatus, Active
<1> QED BY <1>1, <1>2, <1>3

LEMMA StartNodesType ==
  ASSUME TypeOK, NEW p \in Proc, NEW ready \in SUBSET Node, NEW skipped, StartNodes(p, ready, skipped)
  PROVE  PcOK' /\ MemOK' /\ AtOK' /\ TodoOK'
<1>1. PICK S \in SUBSET ready :
        /\ mem' = [mem EXCEPT ![p] = [n \in Node |-> IF n \in S THEN "running" ELSE @[n]]]
        /\ at' = [at EXCEPT ![p] = [n \in Node |-> IF n \in S THEN "starting" ELSE @[n]]]
        /\ Goto(p, IF InFlight(p) \cup S # {} THEN "waiting"
                   ELSE IF skipped THEN "planning" ELSE "draining")
        /\ todo' = [todo EXCEPT ![p] = NoPlan]
    BY DEF StartNodes
<1>2. PcOK'
    BY <1>1 DEF Goto, TypeOK, Active
<1>3. MemOK' /\ AtOK'
    BY <1>1 DEF TypeOK, NodeStatus
<1>4. TodoOK'
    BY <1>1 DEF TypeOK, NoPlan
<1> QED BY <1>2, <1>3, <1>4

LEMMA LoopType ==
  ASSUME TypeOK, NEW p \in Proc,
         Plan(p) \/ StartPlanned(p) \/ (\E n \in Node : RecordSkip(p, n))
  PROVE  TypeOK'
<1> DEFINE ready == ReadyNodes(mem[p], holds)
           skip  == SkippedNodes(mem[p], holds)
<1>1. ready \in SUBSET Node /\ skip \in SUBSET Node
    BY DEF ReadyNodes, SkippedNodes, Decidable
<1>2. CASE Plan(p)
  <2>1. CASE stop[p] # "none"
      BY <1>2, <2>1 DEF Plan, Goto, TypeOK, Active
  <2>2. CASE todo' = [todo EXCEPT ![p] = [skip |-> skip, ready |-> ready]]
             /\ Goto(p, "skipping") /\ UNCHANGED <<mem, at>>
      BY <1>1, <1>2, <2>2 DEF Plan, Goto, TypeOK, Active
  <2>3. CASE StartNodes(p, ready, FALSE)
      BY <1>1, <1>2, <2>3, StartNodesType DEF Plan, TypeOK
  <2> QED BY <1>2, <2>1, <2>2, <2>3 DEF Plan
<1>3. CASE StartPlanned(p)
  <2>1. todo[p].ready \in SUBSET Node
      BY DEF TypeOK
  <2> QED BY <1>3, <2>1, StartNodesType DEF StartPlanned, TypeOK
<1>4. ASSUME NEW n \in Node, RecordSkip(p, n)
      PROVE  TypeOK'
  <2>1. "skipped" \in Remembered
      BY DEF NodeStatus
  <2>2. MemOK' /\ row' \in [Node -> NodeStatus]
      BY <1>4, <2>1 DEF RecordSkip, TypeOK
  <2> DEFINE rest == [todo[p] EXCEPT !.skip = @ \ {n}]
  <2>3. todo[p] \in [skip : SUBSET Node, ready : SUBSET Node]
      BY DEF TypeOK
  <2>4. rest \in [skip : SUBSET Node, ready : SUBSET Node]
      BY <2>3
  <2>5. todo' = [todo EXCEPT ![p] = rest]
      BY <1>4 DEF RecordSkip
  <2> HIDE DEF rest
  <2>6. TodoOK'
      BY <2>4, <2>5 DEF TypeOK
  <2> QED BY <1>4, <2>2, <2>6 DEF RecordSkip, TypeOK
<1> QED BY <1>2, <1>3, <1>4

-----------------------------------------------------------------------------
(* A node in flight. *)

LEMMA LeaveType ==
  ASSUME TypeOK, NEW p \in Proc, NEW n \in Node, Leave(p, n)
  PROVE  PcOK' /\ AtOK'
BY DEF Leave, TypeOK, Active

LEMMA ConcludeType ==
  ASSUME TypeOK, NEW p \in Proc, NEW n \in Node,
         NEW result \in Remembered, NEW next \in Progress, Conclude(p, n, result, next)
  PROVE  PcOK' /\ MemOK' /\ AtOK'
<1>1. CASE suspended[p]
    BY <1>1, LeaveType DEF Conclude, TypeOK
<1>2. CASE ~suspended[p]
  <2>1. /\ mem' = [mem EXCEPT ![p][n] = result]
        /\ at' = [at EXCEPT ![p][n] = next]
        /\ UNCHANGED pc
      BY <1>2 DEF Conclude
  <2>2. MemOK'
      BY <2>1 DEF TypeOK
  <2>3. AtOK' /\ PcOK'
      BY <2>1 DEF TypeOK
  <2> QED BY <2>2, <2>3
<1> QED BY <1>1, <1>2

LEMMA PauseType ==
  ASSUME TypeOK, NEW p \in Proc, NEW n \in Node, Pause(p, n)
  PROVE  PcOK' /\ AtOK' /\ stop' \in [Proc -> {"none", "paused", "cancelled"}]
BY LeaveType DEF Pause, TypeOK

LEMMA TakeAnswerType ==
  ASSUME TypeOK, NEW p \in Proc, TakeAnswer(p)
  PROVE  AnswerOK'
<1>1. NoAnswer \in Answer
    BY DEF NoAnswer
<1> QED BY <1>1 DEF TakeAnswer, TypeOK

LEMMA BeginType ==
  ASSUME TypeOK, NEW p \in Proc, NEW n \in Node, Begin(p, n)
  PROVE  TypeOK'
<1>1. "cancelled" \in Remembered /\ "completed" \in Remembered /\ "running" \in NodeStatus
    BY DEF NodeStatus
<1>2. AnswerOK'
    BY TakeAnswerType DEF Begin, TypeOK
<1>3. row' \in [Node -> NodeStatus]
    BY <1>1 DEF Begin, TypeOK
<1>4. PcOK' /\ MemOK' /\ AtOK'
  <2>1. CASE Conclude(p, n, "cancelled", "refusing")
      BY <1>1, <2>1, ConcludeType
  <2>2. CASE Conclude(p, n, "completed", "refusing")
      BY <1>1, <2>2, ConcludeType
  <2>3. CASE at' = [at EXCEPT ![p][n] = "body"] /\ UNCHANGED <<pc, mem>>
      BY <2>3 DEF TypeOK
  <2> QED BY <2>1, <2>2, <2>3 DEF Begin
<1> QED BY <1>2, <1>3, <1>4 DEF Begin, TypeOK

LEMMA BodyType ==
  ASSUME TypeOK, NEW p \in Proc, NEW n \in Node,
         BodyReturns(p, n) \/ Save(p, n) \/ SaveRefusal(p, n)
  PROVE  TypeOK'
<1>1. {"completed", "failed", "cancelled"} \subseteq Remembered
    BY DEF NodeStatus
<1>2. CASE BodyReturns(p, n)
  <2>1. PICK result \in {"completed", "failed", "cancelled"} : Conclude(p, n, result, "saving")
      BY <1>2 DEF BodyReturns
  <2>2. PcOK' /\ MemOK' /\ AtOK'
      BY <1>1, <2>1, ConcludeType
  <2> QED BY <1>2, <2>2 DEF BodyReturns, TypeOK
<1>3. ASSUME Leave(p, n), row' = [row EXCEPT ![n] = mem[p][n]]
      PROVE  PcOK' /\ AtOK' /\ row' \in [Node -> NodeStatus]
  <2>1. mem[p][n] \in NodeStatus
      BY DEF TypeOK
  <2> QED BY <1>3, <2>1, LeaveType DEF TypeOK
<1>4. CASE Save(p, n)
    BY <1>3, <1>4 DEF Save, TypeOK
<1>5. CASE SaveRefusal(p, n)
  <2>1. StopOK'
      BY <1>5 DEF SaveRefusal, TypeOK
  <2> QED BY <1>3, <1>5, <2>1 DEF SaveRefusal, TypeOK
<1> QED BY <1>2, <1>4, <1>5

LEMMA AskType ==
  ASSUME TypeOK, NEW p \in Proc, NEW n \in Node, AskGate(p, n) \/ ReworkReturns(p, n)
  PROVE  TypeOK'
<1>1. CASE AskGate(p, n)
  <2>1. PcOK' /\ AtOK' /\ stop' \in [Proc -> {"none", "paused", "cancelled"}]
    <3>1. CASE Pause(p, n)
        BY <3>1, PauseType
    <3>2. CASE at' = [at EXCEPT ![p][n] = "asking"] /\ UNCHANGED <<pc, stop>>
        BY <3>2 DEF TypeOK
    <3> QED BY <1>1, <3>1, <3>2 DEF AskGate
  <2> QED BY <1>1, <2>1 DEF AskGate, TypeOK
<1>2. CASE ReworkReturns(p, n)
  <2>1. PcOK' /\ MemOK' /\ AtOK'
    <3>1. "failed" \in Remembered
        BY DEF NodeStatus
    <3>2. CASE Conclude(p, n, "failed", "saving")
        BY <3>1, <3>2, ConcludeType
    <3>3. CASE at' = [at EXCEPT ![p][n] = "reasking"] /\ UNCHANGED <<pc, mem>>
        BY <3>3 DEF TypeOK
    <3> QED BY <1>2, <3>2, <3>3 DEF ReworkReturns
  <2> QED BY <1>2, <2>1 DEF ReworkReturns, TypeOK
<1> QED BY <1>1, <1>2

LEMMA ConsumeType ==
  ASSUME TypeOK, NEW p \in Proc, NEW n \in Node, ConsumeAnswer(p, n)
  PROVE  TypeOK'
<1>1. "completed" \in Remembered
    BY DEF NodeStatus
<1>2. AnswerOK'
    BY TakeAnswerType DEF ConsumeAnswer
<1>3. PcOK' /\ MemOK' /\ AtOK' /\ tries' \in [Proc -> Nat]
  <2>1. CASE UNCHANGED tries /\ \E next \in {"saving", "refusing"} : Conclude(p, n, "completed", next)
      BY <1>1, <2>1, ConcludeType DEF TypeOK
  <2>2. CASE /\ at' = [at EXCEPT ![p][n] = "rework"]
             /\ tries' = [tries EXCEPT ![p] = answer[p].rework]
             /\ UNCHANGED <<pc, mem>>
      BY <2>2 DEF TypeOK
  <2> QED BY <2>1, <2>2 DEF ConsumeAnswer
<1> QED BY <1>2, <1>3 DEF ConsumeAnswer, TypeOK

LEMMA ApprovalType ==
  ASSUME TypeOK, NEW p \in Proc, NEW n \in Node, CreateApproval(p, n) \/ CountRework(p, n)
  PROVE  TypeOK'
<1>1. gate.no \in Nat /\ gate.rework \in Nat /\ "failed" \in Remembered
    BY DEF TypeOK, NodeStatus
<1>2. CASE CreateApproval(p, n)
  <2>1. gate' \in Approval
    <3>1. gate' = gate \/ gate' = [no |-> gate.no + 1, node |-> n, rework |-> 0, pending |-> TRUE]
        BY <1>2 DEF CreateApproval
    <3>2. gate \in Approval
        BY DEF TypeOK
    <3> HIDE DEF Approval
    <3> QED BY <3>1, <3>2, NewGateType
  <2>2. PcOK' /\ MemOK' /\ AtOK' /\ stop' \in [Proc -> {"none", "paused", "cancelled"}]
    <3>1. CASE Conclude(p, n, "failed", "saving") /\ UNCHANGED stop
        BY <1>1, <3>1, ConcludeType DEF TypeOK
    <3>2. CASE Pause(p, n) /\ UNCHANGED mem
        BY <3>2, PauseType DEF TypeOK
    <3>3. CASE at' = [at EXCEPT ![p][n] = "counting"] /\ UNCHANGED <<pc, stop, mem>>
        BY <3>3 DEF TypeOK
    <3> QED BY <1>2, <3>1, <3>2, <3>3 DEF CreateApproval
  <2> QED BY <1>2, <2>1, <2>2 DEF CreateApproval, TypeOK
<1>3. CASE CountRework(p, n)
  <2>1. gate' \in Approval
    <3>1. gate' = gate \/ gate' = [gate EXCEPT !.rework = @ + 1]
        BY <1>3 DEF CountRework
    <3>2. gate \in Approval
        BY DEF TypeOK
    <3> QED BY <1>1, <3>1, <3>2
  <2>2. PcOK' /\ AtOK' /\ stop' \in [Proc -> {"none", "paused", "cancelled"}]
      BY <1>3, PauseType DEF CountRework, TypeOK
  <2> QED BY <1>3, <2>1, <2>2 DEF CountRework, TypeOK
<1> QED BY <1>2, <1>3

LEMMA NodeStepType ==
  ASSUME TypeOK, NEW p \in Proc, NEW n \in Node, NodeStep(p, n)
  PROVE  TypeOK'
BY BeginType, BodyType, AskType, ConsumeType, ApprovalType DEF NodeStep

-----------------------------------------------------------------------------
(* Ending an attempt, answering a gate. *)

LEMMA ReleasedType ==
  ASSUME TypeOK, NEW p \in Proc
  PROVE  Released(p) \in Proc \cup {NoProc, DeadProc}
BY DEF Released, TypeOK

LEMMA EndingType ==
  ASSUME TypeOK, NEW p \in Proc, Finalize(p) \/ ReleaseLease(p) \/ CancelRun(p)
  PROVE  TypeOK'
<1>1. CASE Finalize(p)
  <2>1. Outcome(stop[p], mem[p]) \in RunStatus
    <3>1. stop[p] \in {"none", "paused", "cancelled"}
        BY DEF TypeOK
    <3> QED BY <3>1 DEF Outcome, RunOutcome, RunStatus, Terminal
  <2>2. run' \in RunStatus
      BY <1>1, <2>1 DEF Finalize, TypeOK
  <2>3. PcOK'
      BY <1>1 DEF Finalize, Goto, TypeOK, Active
  <2> QED BY <1>1, <2>2, <2>3 DEF Finalize, TypeOK
<1>2. CASE ReleaseLease(p)
  <2>1. (IF suspended[p] THEN "down" ELSE "idle") \in Locations
      OBVIOUS
  <2> QED BY <1>2, <2>1, DropType, ReleasedType DEF ReleaseLease, TypeOK
<1>3. CASE CancelRun(p)
    BY <1>3 DEF CancelRun, TypeOK, RunStatus, Terminal
<1> QED BY <1>1, <1>2, <1>3

LEMMA HydratedType == ASSUME TypeOK PROVE Hydrated \in [Node -> Remembered]
BY DEF Hydrated, NodeStatus, TypeOK

LEMMA AnsweringType ==
  ASSUME TypeOK, NEW p \in Proc, Prepare(p) \/ Decide(p)
  PROVE  TypeOK'
<1>1. CASE Prepare(p)
  <2>1. MemOK'
      BY <1>1, HydratedType DEF Prepare, TypeOK
  <2>2. PICK v \in Verdict :
          answer' = [answer EXCEPT ![p] =
            [no |-> gate.no, node |-> gate.node, rework |-> gate.rework, verdict |-> v,
             covers |-> {n \in Unsafe \ {gate.node} : row[n] = "interrupted"}]]
      BY <1>1 DEF Prepare
  <2>3. AnswerOK'
      BY <2>2, EngineAssumption DEF TypeOK
  <2> QED BY <1>1, <2>1, <2>3 DEF Prepare, Goto, TypeOK
<1>2. CASE Decide(p)
  <2>1. CASE gate.pending /\ gate.no = answer[p].no
    <3>1. gate' \in Approval
        BY <1>2, <2>1 DEF Decide, TypeOK
    <3>2. said' \in [Node -> Verdict \cup {"nothing"}]
      <4>1. answer[p].verdict \in Verdict
          BY DEF TypeOK
      <4>2. said' = [said EXCEPT ![gate.node] = answer[p].verdict]
          BY <1>2, <2>1 DEF Decide
      <4> QED BY <4>1, <4>2 DEF TypeOK
    <3>3. PcOK'
      <4>1. pc' = [pc EXCEPT ![p] = "launching"]
          BY <1>2, <2>1 DEF Decide, Goto
      <4> QED BY <4>1 DEF TypeOK, Active
    <3> QED BY <1>2, <2>1, <3>1, <3>2, <3>3 DEF Decide, TypeOK
  <2>2. CASE ~(gate.pending /\ gate.no = answer[p].no)
      BY <1>2, <2>2, DropType DEF Decide, TypeOK
  <2> QED BY <2>1, <2>2
<1> QED BY <1>1, <1>2

-----------------------------------------------------------------------------
(* Processes and recovery. *)

LEMMA ProcessType ==
  ASSUME TypeOK, NEW p \in Proc,
         Suspend(p) \/ ShutdownTimesOut(p) \/ Exit(p) \/ Crash(p) \/ Restart(p)
  PROVE  TypeOK'
<1>1. CASE Suspend(p)
    BY <1>1, EngineAssumption DEF Suspend, TypeOK
<1>2. CASE ShutdownTimesOut(p)
    BY <1>2, DropType, ReleasedType DEF ShutdownTimesOut, TypeOK
<1>3. CASE Exit(p)
    BY <1>3, EngineAssumption DEF Exit, Goto, TypeOK
<1>4. CASE Crash(p)
  <2>1. crashes' \in 0..MaxCrashes /\ lease' \in Proc \cup {NoProc, DeadProc}
      BY <1>4, EngineAssumption DEF Crash, TypeOK
  <2>2. found' \in [Proc -> SUBSET Unsafe]
      BY <1>4 DEF Crash, TypeOK
  <2> QED BY <1>4, <2>1, <2>2, DropType DEF Crash, TypeOK
<1>5. CASE Restart(p)
    BY <1>5 DEF Restart, Goto, TypeOK
<1> QED BY <1>1, <1>2, <1>3, <1>4, <1>5

LEMMA RecoveryType ==
  ASSUME TypeOK, NEW p \in Proc, RecoveryStep(p)
  PROVE  TypeOK'
<1>1. CASE FindExpiredRuns(p) \/ ReclaimLease(p)
    BY <1>1 DEF FindExpiredRuns, ReclaimLease, Goto, TypeOK, Driving
<1>2. CASE MarkRunningNodesInterrupted(p)
  <2>1. row' \in [Node -> NodeStatus]
      BY <1>2 DEF MarkRunningNodesInterrupted, TypeOK, NodeStatus
  <2>2. PcOK' /\ found' \in [Proc -> SUBSET Unsafe]
      BY <1>2 DEF MarkRunningNodesInterrupted, Goto, TypeOK, Driving
  <2> QED BY <1>2, <2>1, <2>2 DEF MarkRunningNodesInterrupted, TypeOK
<1>3. CASE RaiseGate(p)
  <2>1. gate.no \in Nat /\ found[p] \subseteq Node
      BY EngineAssumption DEF TypeOK
  <2>2. gate' \in Approval
    <3>1. \/ gate' = gate
          \/ \E n \in found[p] :
               gate' = [no |-> gate.no + 1, node |-> n, rework |-> 0, pending |-> TRUE]
        BY <1>3 DEF RaiseGate
    <3>2. gate \in Approval
        BY DEF TypeOK
    <3> HIDE DEF Approval
    <3> QED BY <2>1, <3>1, <3>2, NewGateType
  <2>3. PcOK'
      BY <1>3 DEF RaiseGate, Goto, TypeOK, Driving
  <2> QED BY <1>3, <2>2, <2>3 DEF RaiseGate, TypeOK
<1>4. CASE ParkRun(p)
    BY <1>4 DEF ParkRun, Goto, TypeOK, RunStatus, Driving
<1>5. CASE YieldLease(p)
    BY <1>5, ReleasedType DEF YieldLease, Goto, TypeOK
<1>6. CASE ResumeRun(p)
  <2>1. MemOK'
    <3>1. mem' = mem \/ mem' = [mem EXCEPT ![p] = Hydrated]
        BY <1>6 DEF ResumeRun
    <3> QED BY <3>1, HydratedType DEF TypeOK
  <2>2. PcOK'
    <3>1. \E where \in {"idle", "launching"} : pc' = [pc EXCEPT ![p] = where]
        BY <1>6 DEF ResumeRun, Goto
    <3>2. {"idle", "launching"} \subseteq Locations
        BY DEF Active
    <3>3. PcOK
        BY DEF TypeOK
    <3> HIDE DEF Locations
    <3> QED BY <3>1, <3>2, <3>3
  <2> QED BY <1>6, <2>1, <2>2 DEF ResumeRun, TypeOK
<1> QED BY <1>1, <1>2, <1>3, <1>4, <1>5, <1>6 DEF RecoveryStep

LEMMA NextType == TypeOK /\ [Next]_vars => TypeOK'
<1> SUFFICES ASSUME TypeOK, [Next]_vars PROVE TypeOK'
    OBVIOUS
<1>1. CASE UNCHANGED vars
    BY <1>1 DEF TypeOK, vars
<1>2. CASE LeaseLapses
    BY <1>2 DEF LeaseLapses, TypeOK
<1>3. ASSUME NEW p \in Proc, RunnerStep(p) \/ Decide(p) \/ RecoveryStep(p) \/ OutsideStep(p)
      PROVE  TypeOK'
    BY <1>3, LaunchType, LoopType, NodeStepType, EndingType, AnsweringType, ProcessType, RecoveryType
       DEF RunnerStep, OutsideStep
<1> QED BY <1>1, <1>2, <1>3 DEF Next

\* In every behaviour the rows, the gate, the lease and what each runner
\* remembers keep their types, whatever order answers, cancels, shutdowns,
\* crashes and recoveries come in.
THEOREM EngineTypeCorrect == Spec => []TypeOK
<1> QED BY InitType, NextType, PTL DEF Spec

-----------------------------------------------------------------------------
(***************************************************************************)
(* One driver.  The strengthening: whoever drives the run owns its lease.  *)
(* A step of p keeps it when it moves nobody else, takes the lease from    *)
(* nobody else, and leaves p driving only as the owner.                    *)
(***************************************************************************)
OwnerDrives == \A p \in Proc : pc[p] \in Driving => lease = p

Orderly(p) ==
  /\ \A q \in Proc \ {p} : pc'[q] = pc[q] /\ (lease = q => lease' = q)
  /\ pc'[p] \in Driving => lease' = p

LEMMA NodeStepOrderly ==
  ASSUME TypeOK, OwnerDrives, NEW p \in Proc, NEW n \in Node, NodeStep(p, n), pc[p] \in Driving
  PROVE  Orderly(p)
<1>1. lease' = lease
    BY DEF NodeStep, Begin, BodyReturns, Save, SaveRefusal, AskGate, ConsumeAnswer, ReworkReturns,
           CreateApproval, CountRework
<1>2. UNCHANGED pc \/ Leave(p, n)
    BY DEF NodeStep, Begin, BodyReturns, Save, SaveRefusal, AskGate, ConsumeAnswer, ReworkReturns,
           CreateApproval, CountRework, Conclude, Pause
<1>3. \A q \in Proc \ {p} : pc'[q] = pc[q]
    BY <1>2 DEF Leave, TypeOK
<1> QED BY <1>1, <1>3 DEF Orderly, OwnerDrives

LEMMA LaunchOrderly ==
  ASSUME TypeOK, OwnerDrives, NEW p \in Proc,
         StartRun(p) \/ AcquireLease(p) \/ MarkRunning(p)
  PROVE  Orderly(p)
BY EngineAssumption
   DEF StartRun, AcquireLease, MarkRunning, Drop, Goto, Orderly, OwnerDrives, TypeOK, Driving, Active

LEMMA LoopOrderly ==
  ASSUME TypeOK, OwnerDrives, NEW p \in Proc,
         Plan(p) \/ StartPlanned(p) \/ (\E n \in Node : RecordSkip(p, n)) \/ Finalize(p)
  PROVE  Orderly(p)
<1>1. pc[p] \in Driving /\ lease' = lease
    BY DEF Plan, StartPlanned, RecordSkip, Finalize, Driving, Active
<1>2. \E where \in Locations : pc' = [pc EXCEPT ![p] = where]
    BY DEF Plan, StartPlanned, StartNodes, RecordSkip, Finalize, Goto, TypeOK, Active
<1>3. \A q \in Proc \ {p} : pc'[q] = pc[q]
    BY <1>2 DEF TypeOK
<1> QED BY <1>1, <1>3 DEF Orderly, OwnerDrives

LEMMA YieldingOrderly ==
  ASSUME TypeOK, OwnerDrives, NEW p \in Proc,
         ReleaseLease(p) \/ ShutdownTimesOut(p) \/ Crash(p) \/ YieldLease(p)
  PROVE  Orderly(p)
BY DEF ReleaseLease, ShutdownTimesOut, Crash, YieldLease, Released, Drop, Goto, Orderly, TypeOK,
       Driving, Active

LEMMA OtherOrderly ==
  ASSUME TypeOK, OwnerDrives, NEW p \in Proc,
         \/ CancelRun(p) \/ Prepare(p) \/ Decide(p) \/ Suspend(p) \/ Exit(p) \/ Restart(p)
         \/ FindExpiredRuns(p) \/ ReclaimLease(p) \/ MarkRunningNodesInterrupted(p)
         \/ RaiseGate(p) \/ ParkRun(p) \/ ResumeRun(p)
  PROVE  Orderly(p)
<1>1. CASE CancelRun(p) \/ Suspend(p)
    BY <1>1 DEF CancelRun, Suspend, Orderly, OwnerDrives
<1>2. CASE Prepare(p) \/ Exit(p) \/ Restart(p) \/ FindExpiredRuns(p) \/ ResumeRun(p)
    BY <1>2 DEF Prepare, Exit, Restart, FindExpiredRuns, ResumeRun, Goto, Orderly, TypeOK,
                Driving, Active
<1>3. CASE Decide(p)
    BY <1>3 DEF Decide, Drop, Goto, Orderly, TypeOK, Driving, Active
<1>4. CASE ReclaimLease(p)
    BY <1>4, EngineAssumption DEF ReclaimLease, Goto, Orderly, TypeOK, Driving, Active
<1>5. CASE MarkRunningNodesInterrupted(p) \/ RaiseGate(p) \/ ParkRun(p)
    BY <1>5 DEF MarkRunningNodesInterrupted, RaiseGate, ParkRun, Goto, Orderly, OwnerDrives, TypeOK,
                Driving, Active
<1> QED BY <1>1, <1>2, <1>3, <1>4, <1>5

\* Nodes are in flight only while a runner of the process is at work.
AtWork == Active \ {"launching"}
InFlightDriven == \A p \in Proc : pc[p] \notin AtWork => at[p] = Nowhere

USE DEF AtWork

LEMMA NodeStepAtWork ==
  ASSUME TypeOK, InFlightDriven, NEW p \in Proc, NEW n \in Node, NodeStep(p, n)
  PROVE  pc[p] \in AtWork
<1>1. at[p][n] # "no"
    BY DEF NodeStep, Begin, BodyReturns, Save, SaveRefusal, AskGate, ConsumeAnswer, ReworkReturns,
           CreateApproval, CountRework
<1> QED BY <1>1 DEF InFlightDriven, Nowhere

\* A step of p touches no other process's nodes, and leaves nodes of its own
\* in flight only where a runner is at work.
Tidy(p) ==
  /\ \A q \in Proc \ {p} : at'[q] = at[q]
  /\ pc'[p] \notin AtWork => at'[p] = Nowhere

LEMMA NodeStepTidy ==
  ASSUME TypeOK, InFlightDriven, NEW p \in Proc, NEW n \in Node, NodeStep(p, n)
  PROVE  Tidy(p)
<1>1. pc[p] \in AtWork
    BY NodeStepAtWork
<1>2. pc' = pc \/ pc' = [pc EXCEPT ![p] = IF @ = "waiting" THEN "planning" ELSE @]
    BY DEF NodeStep, Begin, BodyReturns, Save, SaveRefusal, AskGate, ConsumeAnswer, ReworkReturns,
           CreateApproval, CountRework, Conclude, Pause, Leave
<1>3. at' = at \/ \E where \in Progress : at' = [at EXCEPT ![p][n] = where]
    BY DEF NodeStep, Begin, BodyReturns, Save, SaveRefusal, AskGate, ConsumeAnswer, ReworkReturns,
           CreateApproval, CountRework, Conclude, Pause, Leave
<1>4. pc'[p] \in AtWork
    BY <1>1, <1>2 DEF TypeOK, Active
<1>5. \A q \in Proc \ {p} : at'[q] = at[q]
    BY <1>3 DEF TypeOK
<1> QED BY <1>4, <1>5 DEF Tidy

LEMMA LoopTidy ==
  ASSUME TypeOK, InFlightDriven, NEW p \in Proc,
         Plan(p) \/ StartPlanned(p) \/ (\E n \in Node : RecordSkip(p, n)) \/ Finalize(p)
  PROVE  Tidy(p)
<1>1. \E where \in AtWork : pc' = [pc EXCEPT ![p] = where]
    BY DEF Plan, StartPlanned, StartNodes, RecordSkip, Finalize, Goto, TypeOK, Active
<1>2. \A q \in Proc \ {p} : at'[q] = at[q]
    BY DEF Plan, StartPlanned, StartNodes, RecordSkip, Finalize, TypeOK
<1>3. pc'[p] \in AtWork
    BY <1>1 DEF TypeOK
<1> QED BY <1>2, <1>3 DEF Tidy

LEMMA OtherTidy ==
  ASSUME TypeOK, InFlightDriven, NEW p \in Proc,
         \/ StartRun(p) \/ AcquireLease(p) \/ MarkRunning(p) \/ ReleaseLease(p)
         \/ Decide(p) \/ RecoveryStep(p) \/ OutsideStep(p)
  PROVE  Tidy(p)
<1>1. CASE Drop(p, "idle") \/ Drop(p, "down")
    BY <1>1 DEF Drop, Tidy, TypeOK
<1>2. ASSUME UNCHANGED at, UNCHANGED pc \/ \E where \in Locations : Goto(p, where),
             pc[p] \in AtWork => pc'[p] \in AtWork
      PROVE  Tidy(p)
    BY <1>2 DEF Tidy, InFlightDriven
<1>3. CASE StartRun(p) \/ AcquireLease(p) \/ MarkRunning(p) \/ Decide(p)
    BY <1>1, <1>3 DEF StartRun, AcquireLease, MarkRunning, Decide, Goto, Tidy, InFlightDriven, TypeOK,
                      Active
<1>4. CASE ReleaseLease(p) \/ ShutdownTimesOut(p) \/ Crash(p)
    BY <1>1, <1>4 DEF ReleaseLease, ShutdownTimesOut, Crash
<1>5. CASE CancelRun(p) \/ Suspend(p)
    BY <1>2, <1>5 DEF CancelRun, Suspend
<1>6. CASE Prepare(p) \/ Exit(p) \/ Restart(p)
    BY <1>6 DEF Prepare, Exit, Restart, Goto, Tidy, InFlightDriven, TypeOK, Active
<1>7. CASE RecoveryStep(p)
    BY <1>7 DEF RecoveryStep, FindExpiredRuns, ReclaimLease, MarkRunningNodesInterrupted, RaiseGate,
                ParkRun, YieldLease, ResumeRun, Goto, Tidy, InFlightDriven, TypeOK, Active
<1> QED BY <1>3, <1>4, <1>5, <1>6, <1>7 DEF OutsideStep

Owned == OwnerDrives /\ InFlightDriven

LEMMA OwnedStep == TypeOK /\ Owned /\ [Next]_vars => Owned'
<1> SUFFICES ASSUME TypeOK, OwnerDrives, InFlightDriven, [Next]_vars PROVE Owned'
    BY DEF Owned
<1>1. CASE UNCHANGED vars
    BY <1>1 DEF vars, Owned, OwnerDrives, InFlightDriven
<1>2. CASE LeaseLapses
  <2>1. \A p \in Proc : lease # p
      BY <1>2, EngineAssumption DEF LeaseLapses
  <2> QED BY <1>2, <2>1 DEF LeaseLapses, Owned, OwnerDrives, InFlightDriven
<1>3. ASSUME NEW p \in Proc, Orderly(p), Tidy(p) PROVE Owned'
    BY <1>3 DEF Orderly, Tidy, Owned, OwnerDrives, InFlightDriven
<1>4. ASSUME NEW p \in Proc, RunnerStep(p) \/ Decide(p) \/ RecoveryStep(p) \/ OutsideStep(p)
      PROVE  Orderly(p) /\ Tidy(p)
  <2>1. CASE \E n \in Node : NodeStep(p, n)
    <3>1. PICK n \in Node : NodeStep(p, n)
        BY <2>1
    <3>2. pc[p] \in Driving
        BY <3>1, NodeStepAtWork DEF Driving
    <3> QED BY <3>1, <3>2, NodeStepOrderly, NodeStepTidy
  <2>2. CASE Plan(p) \/ StartPlanned(p) \/ (\E n \in Node : RecordSkip(p, n)) \/ Finalize(p)
      BY <2>2, LoopOrderly, LoopTidy
  <2>3. CASE AcquireLease(p) \/ MarkRunning(p) \/ ReleaseLease(p)
      BY <2>3, LaunchOrderly, YieldingOrderly, OtherTidy
  <2>4. CASE Decide(p) \/ RecoveryStep(p) \/ OutsideStep(p)
    <3>1. Tidy(p)
        BY <2>4, OtherTidy
    <3>2. Orderly(p)
        BY <2>4, LaunchOrderly, YieldingOrderly, OtherOrderly DEF RecoveryStep, OutsideStep
    <3> QED BY <3>1, <3>2
  <2> QED BY <1>4, <2>1, <2>2, <2>3, <2>4 DEF RunnerStep
<1> QED BY <1>1, <1>2, <1>3, <1>4 DEF Next

LEMMA OwnedCorrect == Spec => [](TypeOK /\ Owned)
<1>1. Init => Owned
    BY DEF Init, Owned, OwnerDrives, InFlightDriven, Driving, Active
<1> QED BY <1>1, InitType, NextType, OwnedStep, PTL DEF Spec

\* No two processes ever drive one run, for any number of them: a second
\* answer, a recovery beside a live runner, a restart and a crash included.
THEOREM OneDriverCorrect == Spec => []OneDriver
<1>1. Owned => OneDriver
    BY DEF Owned, OwnerDrives, OneDriver
<1> QED BY <1>1, OwnedCorrect, PTL

-----------------------------------------------------------------------------
=============================================================================

----------------------- MODULE RunEngineGates_proofs -----------------------
(***************************************************************************)
(* RunEngine's safety, for any graph and any number of processes.          *)
(*                                                                         *)
(* UnansweredGateHolds: a node starts when the planner sees its gates      *)
(* completed, so the proof follows a gate's "completed" back to an answer, *)
(* through a runner's memory, the rows another runner hydrates from, and   *)
(* the decision a runner was launched with.                                *)
(*                                                                         *)
(* CompletedRunIsWhole: what a runner remembers as done, a row has said or *)
(* is about to say, whichever runner wrote it.                             *)
(*                                                                         *)
(* ParkedRunHasQuestion: who stops for a gate, and who parks the run for   *)
(* one, does so while a question stands or its answer is being carried     *)
(* out, and the question outlives every other process's step.              *)
(***************************************************************************)
EXTENDS RunEngine_proofs

USE DEF Verdict, boundVars, dbVars, runnerVars, ghostVars, Lands, Locations, Progress, Answer,
        Approval, Remembered, PcOK, MemOK, AtOK, TodoOK, StopOK, AnswerOK, AtWork

Asked(g) == said[g] # "nothing"

Opened(n) == Rule[n] = "all_success" => \A g \in DependsOn[n] \cap Gate : Asked(g)

Touched == {"running", "completed", "interrupted"}

\* A gate counts as completed only when it was answered, in the store and in
\* every runner's memory.
RowsAsked == \A g \in Gate : row[g] = "completed" => Asked(g)
MemAsked == \A p \in Proc : \A g \in Gate : mem[p][g] = "completed" => Asked(g)

\* A node that was, is or will be in flight has its gates answered.
NodesOpened ==
  \A n \in Node :
    /\ row[n] \in Touched => Opened(n)
    /\ \A p \in Proc : at[p][n] # "no" \/ n \in todo[p].ready => Opened(n)

\* What a runner was launched with was said by a person, and a decision that is
\* still being recorded is for the gate it was read from.
AnswerSaid ==
  \A p \in Proc :
    /\ answer[p].covers \subseteq Unsafe
    /\ pc[p] \in Active /\ answer[p].node \in Gate => Asked(answer[p].node)
    /\ pc[p] \notin Active \cup {"prepared"} => answer[p].node = NoNode
    /\ pc[p] = "prepared" => /\ answer[p].no <= gate.no
                             /\ answer[p].no = gate.no => answer[p].node = gate.node

GateInv == RowsAsked /\ MemAsked /\ NodesOpened /\ AnswerSaid

-----------------------------------------------------------------------------
(* What a step of p may do to rows, memory, nodes in flight and answers.   *)

RowEffect(p) ==
  \A n \in Node :
    \/ row'[n] = row[n]
    \/ row'[n] \notin Touched
    \/ at[p][n] # "no" /\ row'[n] \in {"running", mem[p][n]}
    \/ row[n] = "running" /\ row'[n] = "interrupted"

MemEffect(p) ==
  \A q \in Proc : \A n \in Node :
    mem'[q][n] = "completed" =>
      \/ mem[q][n] = "completed"
      \/ row[n] = "completed"
      \/ n \in Gate => at[p][n] # "no" /\ Covered(p, n)

FlightEffect(p) ==
  \A q \in Proc : \A n \in Node :
    at'[q][n] # "no" \/ n \in todo'[q].ready =>
      at[q][n] # "no" \/ n \in todo[q].ready \/ n \in ReadyNodes(mem[p], holds)

SaidKept == \A n \in Node : Asked(n) => Asked(n)'

Effect(p) == RowEffect(p) /\ MemEffect(p) /\ FlightEffect(p) /\ SaidKept

LEMMA ReadyOpened ==
  ASSUME MemAsked, NEW p \in Proc, NEW n \in ReadyNodes(mem[p], holds)
  PROVE  n \in Node /\ Opened(n)
<1>1. n \in Node /\ TriggerSatisfied(n, mem[p])
    BY DEF ReadyNodes, Decidable
<1> SUFFICES ASSUME Rule[n] = "all_success", NEW g \in DependsOn[n] \cap Gate PROVE Asked(g)
    BY <1>1 DEF Opened
<1>2. mem[p][g] = "completed"
    BY <1>1 DEF TriggerSatisfied
<1> QED BY <1>2 DEF MemAsked

LEMMA CoveredGateAsked ==
  ASSUME AnswerSaid, NEW p \in Proc, pc[p] \in Active, NEW g \in Gate, Covered(p, g)
  PROVE  Asked(g)
<1>1. g \notin Unsafe
    BY EngineAssumption
<1>2. answer[p].node = g
    BY <1>1 DEF Covered, AnswerSaid
<1>3. answer[p].node \in Gate => Asked(answer[p].node)
    BY DEF AnswerSaid
<1> QED BY <1>2, <1>3 DEF Asked

LEMMA EffectKeepsGates ==
  ASSUME TypeOK, Owned, GateInv, NEW p \in Proc, Effect(p)
  PROVE  RowsAsked' /\ MemAsked' /\ NodesOpened'
<1>1. \A n \in Node : Opened(n) => Opened(n)'
  <2>1. Gate \subseteq Node
      BY EngineAssumption
  <2> QED BY <2>1 DEF Opened, Effect, SaidKept
<1>2. \A n \in Node : at[p][n] # "no" => pc[p] \in Active
    BY DEF Owned, InFlightDriven, Nowhere
<1>3. \A g \in Gate : at[p][g] # "no" /\ Covered(p, g) => Asked(g)
    BY <1>2, CoveredGateAsked, EngineAssumption DEF GateInv
<1>4. \A g \in Gate : Asked(g) => Asked(g)'
    BY EngineAssumption DEF Effect, SaidKept
<1>5. RowsAsked'
  <2> SUFFICES ASSUME NEW g \in Gate, row'[g] = "completed" PROVE Asked(g)'
      BY DEF RowsAsked
  <2>1. g \in Node
      BY EngineAssumption
  <2>2. row[g] = "completed" \/ mem[p][g] = "completed"
      BY <2>1 DEF Effect, RowEffect, Touched
  <2> QED BY <1>4, <2>2 DEF GateInv, RowsAsked, MemAsked
<1>6. MemAsked'
  <2> SUFFICES ASSUME NEW q \in Proc, NEW g \in Gate, mem'[q][g] = "completed" PROVE Asked(g)'
      BY DEF MemAsked
  <2>1. g \in Node
      BY EngineAssumption
  <2>2. \/ mem[q][g] = "completed" \/ row[g] = "completed"
        \/ at[p][g] # "no" /\ Covered(p, g)
      BY <2>1 DEF Effect, MemEffect
  <2> QED BY <1>3, <1>4, <2>2 DEF GateInv, RowsAsked, MemAsked
<1>7. NodesOpened'
  <2>1. ASSUME NEW n \in Node, row'[n] \in Touched PROVE Opened(n)'
    <3>1. row[n] \in Touched \/ at[p][n] # "no"
        BY <2>1 DEF Effect, RowEffect, Touched
    <3> QED BY <1>1, <3>1 DEF GateInv, NodesOpened
  <2>2. ASSUME NEW n \in Node, NEW q \in Proc, at'[q][n] # "no" \/ n \in todo'[q].ready
        PROVE  Opened(n)'
    <3>1. at[q][n] # "no" \/ n \in todo[q].ready \/ n \in ReadyNodes(mem[p], holds)
        BY <2>2 DEF Effect, FlightEffect
    <3> QED BY <1>1, <3>1, ReadyOpened DEF GateInv, NodesOpened
  <2> QED BY <2>1, <2>2 DEF NodesOpened
<1> QED BY <1>5, <1>6, <1>7

-----------------------------------------------------------------------------
(* The effects of the steps. *)

LEMMA ConcludeMem ==
  ASSUME TypeOK, NEW p \in Proc, NEW n \in Node, NEW result, NEW next, Conclude(p, n, result, next)
  PROVE  /\ \A q \in Proc : \A m \in Node :
              mem'[q][m] = mem[q][m] \/ (q = p /\ m = n /\ mem'[q][m] = result)
         /\ next # "no" => \A q \in Proc : \A m \in Node :
              at'[q][m] # "no" => at[q][m] # "no" \/ (q = p /\ m = n)
BY DEF Conclude, Leave, TypeOK

LEMMA LeaveFlight ==
  ASSUME TypeOK, NEW p \in Proc, NEW n \in Node, Leave(p, n)
  PROVE  \A q \in Proc : \A m \in Node : at'[q][m] # "no" => at[q][m] # "no"
BY DEF Leave, TypeOK

LEMMA NodeRows ==
  ASSUME TypeOK, NEW p \in Proc, NEW n \in Node, NodeStep(p, n)
  PROVE  RowEffect(p) /\ SaidKept /\ UNCHANGED todo /\ at[p][n] # "no"
<1>1. at[p][n] # "no" /\ UNCHANGED <<todo, said>>
    BY DEF NodeStep, Begin, BodyReturns, Save, SaveRefusal, AskGate, ConsumeAnswer, ReworkReturns,
           CreateApproval, CountRework
<1>2. \/ UNCHANGED row
      \/ row' = [row EXCEPT ![n] = "running"]
      \/ row' = [row EXCEPT ![n] = mem[p][n]]
    BY DEF NodeStep, Begin, BodyReturns, Save, SaveRefusal, AskGate, ConsumeAnswer, ReworkReturns,
           CreateApproval, CountRework
<1>3. RowEffect(p)
    BY <1>1, <1>2 DEF RowEffect, TypeOK
<1> QED BY <1>1, <1>3 DEF SaidKept, Asked

LEMMA NodeFlight ==
  ASSUME TypeOK, NEW p \in Proc, NEW n \in Node, NodeStep(p, n)
  PROVE  FlightEffect(p)
<1>1. at[p][n] # "no" /\ UNCHANGED todo
    BY NodeRows
<1>2. at' = at \/ \E where \in Progress : at' = [at EXCEPT ![p][n] = where]
    BY DEF NodeStep, Conclude, Pause, Leave,
           Begin, BodyReturns, Save, SaveRefusal, AskGate, ConsumeAnswer, ReworkReturns,
           CreateApproval, CountRework
<1>3. ASSUME NEW q \in Proc, NEW m \in Node PROVE at'[q][m] # "no" => at[q][m] # "no"
  <2>1. CASE at' = at
      BY <2>1
  <2>2. ASSUME NEW where \in Progress, at' = [at EXCEPT ![p][n] = where]
        PROVE  at'[q][m] = at[q][m] \/ (q = p /\ m = n)
      BY <2>2 DEF TypeOK
  <2> QED BY <1>1, <1>2, <2>1, <2>2
<1> QED BY <1>1, <1>3 DEF FlightEffect

LEMMA NodeMem ==
  ASSUME TypeOK, NEW p \in Proc, NEW n \in Node, NodeStep(p, n)
  PROVE  MemEffect(p)
<1>1. at[p][n] # "no"
    BY NodeRows
<1>2. n \in Gate => n \notin Stopper
    BY EngineAssumption
<1>3. CASE UNCHANGED mem
    BY <1>3 DEF MemEffect
<1>4. ASSUME NEW result, NEW next, Conclude(p, n, result, next),
             result = "completed" /\ n \in Gate => Covered(p, n)
      PROVE  MemEffect(p)
    BY <1>1, <1>4, ConcludeMem DEF MemEffect
<1>5. CASE Begin(p, n)
    BY <1>2, <1>3, <1>4, <1>5 DEF Begin
<1>6. CASE BodyReturns(p, n)
    BY <1>4, <1>6 DEF BodyReturns
<1>7. CASE ConsumeAnswer(p, n)
    BY <1>3, <1>4, <1>7 DEF ConsumeAnswer
<1>8. CASE ReworkReturns(p, n) \/ CreateApproval(p, n)
    BY <1>3, <1>4, <1>8 DEF ReworkReturns, CreateApproval
<1>9. CASE Save(p, n) \/ SaveRefusal(p, n) \/ AskGate(p, n) \/ CountRework(p, n)
    BY <1>3, <1>9 DEF Save, SaveRefusal, AskGate, CountRework
<1> QED BY <1>5, <1>6, <1>7, <1>8, <1>9 DEF NodeStep

LEMMA NodeEffect ==
  ASSUME TypeOK, NEW p \in Proc, NEW n \in Node, NodeStep(p, n)
  PROVE  Effect(p)
BY NodeRows, NodeFlight, NodeMem DEF Effect

\* A step that leaves rows and answers alone and starts nothing.
LEMMA QuietEffect ==
  ASSUME TypeOK, NEW p \in Proc, UNCHANGED <<row, said>>,
         \A q \in Proc : \A n \in Node :
           /\ mem'[q][n] = "completed" => mem[q][n] = "completed" \/ row[n] = "completed"
           /\ at'[q][n] # "no" => at[q][n] # "no"
           /\ n \in todo'[q].ready => n \in todo[q].ready
  PROVE  Effect(p)
BY DEF Effect, RowEffect, MemEffect, FlightEffect, SaidKept, Asked

LEMMA DropEffect ==
  ASSUME TypeOK, NEW p \in Proc, NEW where, Drop(p, where), UNCHANGED <<row, said>>
  PROVE  Effect(p)
<1>1. ASSUME NEW q \in Proc, NEW n \in Node
      PROVE  /\ mem'[q][n] = "completed" => mem[q][n] = "completed" \/ row[n] = "completed"
             /\ at'[q][n] # "no" => at[q][n] # "no"
             /\ n \in todo'[q].ready => n \in todo[q].ready
    BY DEF Drop, Fresh, Nowhere, NoPlan, TypeOK
<1> QED BY <1>1, QuietEffect

LEMMA HydrateEffect ==
  ASSUME TypeOK, NEW p \in Proc, mem' = [mem EXCEPT ![p] = Hydrated],
         UNCHANGED <<row, said, at, todo>>
  PROVE  Effect(p)
<1>1. ASSUME NEW q \in Proc, NEW n \in Node
      PROVE  mem'[q][n] = "completed" => mem[q][n] = "completed" \/ row[n] = "completed"
    BY DEF Hydrated, TypeOK
<1> QED BY <1>1, QuietEffect

LEMMA LoopEffect ==
  ASSUME TypeOK, NEW p \in Proc,
         Plan(p) \/ StartPlanned(p) \/ (\E n \in Node : RecordSkip(p, n)) \/ Finalize(p)
  PROVE  Effect(p)
<1>1. ASSUME NEW ready, NEW skipped, StartNodes(p, ready, skipped), UNCHANGED <<row, said>>,
             \A n \in ready : n \in todo[p].ready \/ n \in ReadyNodes(mem[p], holds)
      PROVE  Effect(p)
  <2>1. PICK S \in SUBSET ready :
          /\ mem' = [mem EXCEPT ![p] = [n \in Node |-> IF n \in S THEN "running" ELSE @[n]]]
          /\ at' = [at EXCEPT ![p] = [n \in Node |-> IF n \in S THEN "starting" ELSE @[n]]]
          /\ todo' = [todo EXCEPT ![p] = NoPlan]
      BY <1>1 DEF StartNodes
  <2>2. MemEffect(p)
      BY <2>1 DEF MemEffect, TypeOK
  <2>3. FlightEffect(p)
      BY <1>1, <2>1 DEF FlightEffect, NoPlan, TypeOK
  <2> QED BY <1>1, <2>2, <2>3 DEF Effect, RowEffect, SaidKept, Asked
<1>2. CASE Plan(p)
  <2>1. UNCHANGED <<row, said>>
      BY <1>2 DEF Plan
  <2>2. CASE UNCHANGED <<mem, at, todo>>
      BY <2>1, <2>2, QuietEffect
  <2>3. CASE /\ UNCHANGED <<mem, at>>
             /\ \E skip : todo' = [todo EXCEPT ![p] = [skip |-> skip, ready |-> ReadyNodes(mem[p], holds)]]
    <3>1. FlightEffect(p)
        BY <2>3 DEF FlightEffect, TypeOK
    <3>2. MemEffect(p)
        BY <2>3 DEF MemEffect
    <3> QED BY <2>1, <3>1, <3>2 DEF Effect, RowEffect, SaidKept, Asked
  <2>4. CASE StartNodes(p, ReadyNodes(mem[p], holds), FALSE)
      BY <1>1, <2>1, <2>4
  <2> QED BY <1>2, <2>2, <2>3, <2>4 DEF Plan
<1>3. CASE StartPlanned(p)
    BY <1>1, <1>3 DEF StartPlanned
<1>4. ASSUME NEW n \in Node, RecordSkip(p, n) PROVE Effect(p)
  <2>1. UNCHANGED <<at, said>> /\ row' = [row EXCEPT ![n] = "skipped"]
        /\ mem' = [mem EXCEPT ![p][n] = "skipped"]
        /\ todo' = [todo EXCEPT ![p].skip = @ \ {n}]
      BY <1>4 DEF RecordSkip
  <2>2. \A q \in Proc : todo'[q].ready = todo[q].ready
      BY <2>1 DEF TypeOK
  <2>3. MemEffect(p)
      BY <2>1 DEF MemEffect, TypeOK
  <2>4. RowEffect(p)
      BY <2>1 DEF RowEffect, Touched, TypeOK
  <2> QED BY <2>1, <2>2, <2>3, <2>4 DEF Effect, FlightEffect, SaidKept, Asked
<1>5. CASE Finalize(p)
    BY <1>5, QuietEffect DEF Finalize
<1> QED BY <1>2, <1>3, <1>4, <1>5

LEMMA RecoveryEffect ==
  ASSUME TypeOK, NEW p \in Proc, RecoveryStep(p)
  PROVE  Effect(p)
<1>1. CASE MarkRunningNodesInterrupted(p)
  <2>1. RowEffect(p)
      BY <1>1 DEF MarkRunningNodesInterrupted, RowEffect, TypeOK
  <2>2. UNCHANGED <<mem, at, todo, said>>
      BY <1>1 DEF MarkRunningNodesInterrupted
  <2> QED BY <2>1, <2>2 DEF Effect, MemEffect, FlightEffect, SaidKept, Asked
<1>2. CASE ResumeRun(p)
  <2>1. UNCHANGED <<row, said, at, todo>>
      BY <1>2 DEF ResumeRun
  <2>2. UNCHANGED mem \/ mem' = [mem EXCEPT ![p] = Hydrated]
      BY <1>2 DEF ResumeRun
  <2> QED BY <2>1, <2>2, HydrateEffect, QuietEffect
<1>3. CASE \/ FindExpiredRuns(p) \/ ReclaimLease(p) \/ RaiseGate(p) \/ ParkRun(p) \/ YieldLease(p)
  <2>1. UNCHANGED <<row, said, mem, at, todo>>
      BY <1>3 DEF FindExpiredRuns, ReclaimLease, RaiseGate, ParkRun, YieldLease
  <2> QED BY <2>1, QuietEffect
<1> QED BY <1>1, <1>2, <1>3 DEF RecoveryStep

LEMMA DecideEffect ==
  ASSUME TypeOK, NEW p \in Proc, Decide(p)
  PROVE  Effect(p)
<1>1. CASE Drop(p, "idle") /\ UNCHANGED said
    BY <1>1, DropEffect DEF Decide
<1>2. CASE said' = [said EXCEPT ![gate.node] = answer[p].verdict] /\ UNCHANGED runnerVars
  <2>1. SaidKept
    <3>1. answer[p].verdict # "nothing"
        BY DEF TypeOK
    <3> QED BY <1>2, <3>1 DEF SaidKept, Asked, TypeOK
  <2>2. UNCHANGED <<row, mem, at, todo>>
      BY <1>2 DEF Decide
  <2> QED BY <2>1, <2>2 DEF Effect, RowEffect, MemEffect, FlightEffect
<1> QED BY <1>1, <1>2 DEF Decide

LEMMA OutsideEffect ==
  ASSUME TypeOK, NEW p \in Proc, OutsideStep(p)
  PROVE  Effect(p)
<1>1. CASE ShutdownTimesOut(p) \/ Crash(p)
    BY <1>1, DropEffect DEF ShutdownTimesOut, Crash
<1>2. CASE Prepare(p)
    BY <1>2, HydrateEffect DEF Prepare
<1>3. CASE StartRun(p) \/ CancelRun(p) \/ Suspend(p) \/ Exit(p) \/ Restart(p)
  <2>1. UNCHANGED <<row, said, mem, at, todo>>
      BY <1>3 DEF StartRun, CancelRun, Suspend, Exit, Restart
  <2> QED BY <2>1, QuietEffect
<1> QED BY <1>1, <1>2, <1>3 DEF OutsideStep

LEMMA RunnerEffect ==
  ASSUME TypeOK, NEW p \in Proc, RunnerStep(p)
  PROVE  Effect(p)
<1>1. CASE AcquireLease(p) \/ MarkRunning(p)
  <2>1. UNCHANGED <<row, said>>
      BY <1>1 DEF AcquireLease, MarkRunning
  <2>2. UNCHANGED <<mem, at, todo>> \/ Drop(p, "idle")
      BY <1>1 DEF AcquireLease, MarkRunning
  <2> QED BY <2>1, <2>2, QuietEffect, DropEffect
<1>2. CASE ReleaseLease(p)
    BY <1>2, DropEffect DEF ReleaseLease
<1> QED BY <1>1, <1>2, LoopEffect, NodeEffect DEF RunnerStep

-----------------------------------------------------------------------------
(* Answers.                                                                *)

\* Only Prepare and Decide do more to an answer than forget it, or to a gate
\* than answer it or follow it by the next one.
AnswerEffect ==
  /\ \/ gate'.no = gate.no /\ gate'.node = gate.node
     \/ gate'.no \in Nat /\ gate'.no > gate.no
  /\ \A q \in Proc :
       \/ answer'[q] = NoAnswer /\ pc'[q] # "prepared"
       \/ /\ answer'[q] = answer[q]
          /\ \/ pc'[q] = pc[q]
             \/ pc[q] \in Active /\ pc'[q] \in Active
             \/ pc[q] \notin Active \cup {"prepared"} /\ pc'[q] # "prepared"

LEMMA AnswerKept ==
  ASSUME TypeOK, AnswerSaid, SaidKept, AnswerEffect
  PROVE  AnswerSaid'
<1> SUFFICES ASSUME NEW q \in Proc
    PROVE /\ answer'[q].covers \subseteq Unsafe
          /\ pc'[q] \in Active /\ answer'[q].node \in Gate => said'[answer'[q].node] # "nothing"
          /\ pc'[q] \notin Active \cup {"prepared"} => answer'[q].node = NoNode
          /\ pc'[q] = "prepared" => /\ answer'[q].no <= gate'.no
                                    /\ answer'[q].no = gate'.no => answer'[q].node = gate'.node
    BY DEF AnswerSaid, Asked
<1>1. NoNode \notin Gate /\ Gate \subseteq Node
    BY EngineAssumption
<1>2. CASE answer'[q] = NoAnswer /\ pc'[q] # "prepared"
    BY <1>1, <1>2 DEF NoAnswer
<1>3. CASE /\ answer'[q] = answer[q]
           /\ \/ pc'[q] = pc[q]
              \/ pc[q] \in Active /\ pc'[q] \in Active
              \/ pc[q] \notin Active \cup {"prepared"} /\ pc'[q] # "prepared"
  <2>1. /\ answer[q].covers \subseteq Unsafe
        /\ pc[q] \in Active /\ answer[q].node \in Gate => Asked(answer[q].node)
        /\ pc[q] \notin Active \cup {"prepared"} => answer[q].node = NoNode
        /\ pc[q] = "prepared" => /\ answer[q].no <= gate.no
                                 /\ answer[q].no = gate.no => answer[q].node = gate.node
      BY DEF AnswerSaid
  <2>2. answer[q].no \in Nat /\ gate.no \in Nat
      BY DEF TypeOK
  <2>3. answer[q].node \in Gate /\ Asked(answer[q].node) => said'[answer[q].node] # "nothing"
      BY <1>1 DEF SaidKept, Asked
  <2>4. /\ pc'[q] \in Active => pc[q] \in Active \/ answer[q].node = NoNode
        /\ pc'[q] \notin Active \cup {"prepared"} => pc[q] \notin Active \cup {"prepared"}
        /\ pc'[q] = "prepared" => pc[q] = "prepared"
      BY <1>3, <2>1 DEF Active
  <2>5. pc[q] = "prepared" => /\ answer[q].no <= gate'.no
                              /\ answer[q].no = gate'.no => answer[q].node = gate'.node
      BY <2>1, <2>2 DEF AnswerEffect
  <2> QED BY <1>1, <1>3, <2>1, <2>3, <2>4, <2>5
<1> QED BY <1>2, <1>3 DEF AnswerEffect

LEMMA NodeAnswers ==
  ASSUME TypeOK, Owned, NEW p \in Proc, NEW n \in Node, NodeStep(p, n)
  PROVE  AnswerEffect
<1>1. pc[p] \in Active
  <2>1. at[p][n] # "no"
      BY NodeRows
  <2> QED BY <2>1 DEF Owned, InFlightDriven, Nowhere
<1>2. UNCHANGED pc \/ pc' = [pc EXCEPT ![p] = IF @ = "waiting" THEN "planning" ELSE @]
    BY DEF NodeStep, Conclude, Pause, Leave,
           Begin, BodyReturns, Save, SaveRefusal, AskGate, ConsumeAnswer, ReworkReturns,
           CreateApproval, CountRework
<1>3. UNCHANGED answer \/ TakeAnswer(p)
    BY DEF TakeAnswer, NodeStep, Begin, BodyReturns, Save, SaveRefusal, AskGate, ConsumeAnswer,
           ReworkReturns, CreateApproval, CountRework
<1>4. \A q \in Proc :
        /\ pc'[q] = pc[q] \/ (pc[q] \in Active /\ pc'[q] \in Active)
        /\ q = p => pc'[q] \in Active
  <2>1. pc'[p] \in Active
      BY <1>1, <1>2 DEF Active, TypeOK
  <2>2. \A q \in Proc \ {p} : pc'[q] = pc[q]
      BY <1>2 DEF TypeOK
  <2> QED BY <1>1, <2>1, <2>2
<1>5. \A q \in Proc : answer'[q] = answer[q] \/ (q = p /\ answer'[q] = NoAnswer)
    BY <1>3 DEF TakeAnswer, TypeOK
<1>6. \/ UNCHANGED gate
      \/ gate' = [no |-> gate.no + 1, node |-> n, rework |-> 0, pending |-> TRUE]
      \/ gate' = [gate EXCEPT !.rework = @ + 1]
    BY DEF NodeStep, Begin, BodyReturns, Save, SaveRefusal, AskGate, ConsumeAnswer, ReworkReturns,
           CreateApproval, CountRework
<1>7. \/ gate'.no = gate.no /\ gate'.node = gate.node
      \/ gate'.no \in Nat /\ gate'.no > gate.no
    BY <1>6 DEF TypeOK
<1> QED BY <1>4, <1>5, <1>7 DEF AnswerEffect, Active

\* A step that leaves answers alone and takes p elsewhere.
LEMMA MoveAnswers ==
  ASSUME TypeOK, NEW p \in Proc, NEW where, Goto(p, where), UNCHANGED <<gate, answer>>,
         where # "prepared",
         (pc[p] \in Active /\ where \in Active) \/ pc[p] \notin Active \cup {"prepared"}
  PROVE  AnswerEffect
BY DEF AnswerEffect, Goto, TypeOK

LEMMA DropAnswers ==
  ASSUME TypeOK, NEW p \in Proc, NEW where, Drop(p, where), UNCHANGED gate, where # "prepared"
  PROVE  AnswerEffect
BY DEF AnswerEffect, Drop, Goto, TypeOK

LEMMA RunnerAnswers ==
  ASSUME TypeOK, Owned, NEW p \in Proc, RunnerStep(p)
  PROVE  AnswerEffect
<1>1. CASE AcquireLease(p) \/ ReleaseLease(p)
    BY <1>1, DropAnswers, MoveAnswers DEF AcquireLease, ReleaseLease, Active
<1>2. CASE MarkRunning(p) \/ Finalize(p)
    BY <1>2, MoveAnswers DEF MarkRunning, Finalize, Active
<1>3. CASE Plan(p) \/ StartPlanned(p)
  <2>1. \E where \in Active : Goto(p, where)
      BY <1>3 DEF Plan, StartPlanned, StartNodes, Active
  <2>2. UNCHANGED <<gate, answer>> /\ pc[p] \in Active
      BY <1>3 DEF Plan, StartPlanned, Active
  <2> QED BY <2>1, <2>2, MoveAnswers DEF Active
<1>4. CASE \E n \in Node : RecordSkip(p, n)
    BY <1>4 DEF RecordSkip, AnswerEffect
<1> QED BY <1>1, <1>2, <1>3, <1>4, NodeAnswers DEF RunnerStep

LEMMA RecoveryAnswers ==
  ASSUME TypeOK, NEW p \in Proc, RecoveryStep(p)
  PROVE  AnswerEffect
<1>1. UNCHANGED answer /\ pc[p] \notin Active \cup {"prepared"}
    BY DEF RecoveryStep, FindExpiredRuns, ReclaimLease, MarkRunningNodesInterrupted, RaiseGate,
           ParkRun, YieldLease, ResumeRun, Active
<1>2. \E where \in Locations \ {"prepared"} : Goto(p, where)
    BY DEF RecoveryStep, FindExpiredRuns, ReclaimLease, MarkRunningNodesInterrupted, RaiseGate,
           ParkRun, YieldLease, ResumeRun, Active, Driving
<1>3. UNCHANGED gate \/ \E n : gate' = [no |-> gate.no + 1, node |-> n, rework |-> 0, pending |-> TRUE]
    BY DEF RecoveryStep, FindExpiredRuns, ReclaimLease, MarkRunningNodesInterrupted, RaiseGate,
           ParkRun, YieldLease, ResumeRun
<1> QED BY <1>1, <1>2, <1>3 DEF AnswerEffect, Goto, TypeOK

LEMMA OutsideAnswers ==
  ASSUME TypeOK, NEW p \in Proc, OutsideStep(p), ~Prepare(p)
  PROVE  AnswerEffect
<1>1. CASE ShutdownTimesOut(p) \/ Crash(p)
    BY <1>1, DropAnswers DEF ShutdownTimesOut, Crash
<1>2. CASE StartRun(p) \/ Exit(p) \/ Restart(p)
    BY <1>2, MoveAnswers DEF StartRun, Exit, Restart, Active
<1>3. CASE CancelRun(p) \/ Suspend(p)
    BY <1>3 DEF CancelRun, Suspend, AnswerEffect
<1> QED BY <1>1, <1>2, <1>3 DEF OutsideStep

\* The runner is built for the gate that is pending.
LEMMA PrepareAnswer ==
  ASSUME TypeOK, AnswerSaid, NEW p \in Proc, Prepare(p)
  PROVE  AnswerSaid'
<1>1. PICK v \in Verdict :
        answer' = [answer EXCEPT ![p] =
          [no |-> gate.no, node |-> gate.node, rework |-> gate.rework, verdict |-> v,
           covers |-> {n \in Unsafe \ {gate.node} : row[n] = "interrupted"}]]
    BY DEF Prepare
<1>2. UNCHANGED <<gate, said>> /\ pc' = [pc EXCEPT ![p] = "prepared"]
    BY DEF Prepare, Goto
<1> SUFFICES ASSUME NEW q \in Proc
    PROVE /\ answer'[q].covers \subseteq Unsafe
          /\ pc'[q] \in Active /\ answer'[q].node \in Gate => said'[answer'[q].node] # "nothing"
          /\ pc'[q] \notin Active \cup {"prepared"} => answer'[q].node = NoNode
          /\ pc'[q] = "prepared" => /\ answer'[q].no <= gate'.no
                                    /\ answer'[q].no = gate'.no => answer'[q].node = gate'.node
    BY DEF AnswerSaid, Asked
<1>3. CASE q = p
  <2>1. pc'[p] = "prepared"
      BY <1>2 DEF TypeOK
  <2>2. /\ answer'[p].no = gate.no /\ answer'[p].node = gate.node
        /\ answer'[p].covers = {n \in Unsafe \ {gate.node} : row[n] = "interrupted"}
      BY <1>1 DEF TypeOK
  <2>3. gate.no \in Nat
      BY DEF TypeOK
  <2> QED BY <1>2, <1>3, <2>1, <2>2, <2>3 DEF Active
<1>4. CASE q # p
  <2>1. answer'[q] = answer[q] /\ pc'[q] = pc[q]
      BY <1>1, <1>2, <1>4 DEF TypeOK
  <2> QED BY <1>2, <2>1 DEF AnswerSaid, Asked
<1> QED BY <1>3, <1>4

\* The decision is recorded for the gate the runner was built for.
LEMMA DecideAnswer ==
  ASSUME TypeOK, AnswerSaid, NEW p \in Proc, Decide(p)
  PROVE  AnswerSaid'
<1>1. SaidKept
    BY DecideEffect DEF Effect
<1>2. CASE Drop(p, "idle") /\ UNCHANGED gate
    BY <1>1, <1>2, AnswerKept, DropAnswers
<1>3. CASE /\ gate.no = answer[p].no
           /\ gate' = [gate EXCEPT !.pending = FALSE]
           /\ said' = [said EXCEPT ![gate.node] = answer[p].verdict]
           /\ Goto(p, "launching")
           /\ UNCHANGED runnerVars
  <2>1. pc[p] = "prepared"
      BY DEF Decide
  <2>2. answer[p].node = gate.node
      BY <1>3, <2>1 DEF AnswerSaid
  <2>3. gate'.no = gate.no /\ gate'.node = gate.node
      BY <1>3 DEF TypeOK
  <2> SUFFICES ASSUME NEW q \in Proc
      PROVE /\ answer[q].covers \subseteq Unsafe
            /\ pc'[q] \in Active /\ answer[q].node \in Gate => said'[answer[q].node] # "nothing"
            /\ pc'[q] \notin Active \cup {"prepared"} => answer[q].node = NoNode
            /\ pc'[q] = "prepared" => /\ answer[q].no <= gate.no
                                      /\ answer[q].no = gate.no => answer[q].node = gate.node
      BY <1>3, <2>3 DEF AnswerSaid, Asked
  <2>4. Gate \subseteq Node
      BY EngineAssumption
  <2>5. CASE q = p
    <3>1. pc'[q] = "launching"
        BY <1>3, <2>5 DEF Goto, TypeOK
    <3>2. answer[q].node \in Gate => said'[answer[q].node] = answer[q].verdict
        BY <1>3, <2>2, <2>4, <2>5 DEF TypeOK
    <3>3. answer[q].verdict # "nothing"
        BY DEF TypeOK
    <3> QED BY <3>1, <3>2, <3>3 DEF AnswerSaid, Active
  <2>6. CASE q # p
    <3>1. pc'[q] = pc[q]
        BY <1>3, <2>6 DEF Goto, TypeOK
    <3>2. answer[q].node \in Gate /\ Asked(answer[q].node) => said'[answer[q].node] # "nothing"
        BY <1>1, <2>4 DEF SaidKept, Asked
    <3> QED BY <3>1, <3>2 DEF AnswerSaid
  <2> QED BY <2>5, <2>6
<1> QED BY <1>2, <1>3 DEF Decide

-----------------------------------------------------------------------------
LEMMA GateStep ==
  ASSUME TypeOK, Owned, GateInv, [Next]_vars
  PROVE  GateInv'
<1>1. ASSUME NEW p \in Proc, RunnerStep(p) \/ Decide(p) \/ RecoveryStep(p) \/ OutsideStep(p)
      PROVE  GateInv'
  <2>1. Effect(p)
      BY <1>1, RunnerEffect, DecideEffect, RecoveryEffect, OutsideEffect
  <2>2. RowsAsked' /\ MemAsked' /\ NodesOpened'
      BY <2>1, EffectKeepsGates
  <2>3. AnswerSaid /\ SaidKept
      BY <2>1 DEF Effect, GateInv
  <2>4. CASE Decide(p) \/ Prepare(p)
      BY <2>2, <2>3, <2>4, DecideAnswer, PrepareAnswer DEF GateInv
  <2>5. CASE ~Decide(p) /\ ~Prepare(p)
    <3>1. AnswerEffect
        BY <1>1, <2>5, RunnerAnswers, RecoveryAnswers, OutsideAnswers
    <3> QED BY <2>2, <2>3, <3>1, AnswerKept DEF GateInv
  <2> QED BY <2>4, <2>5
<1>2. CASE LeaseLapses \/ UNCHANGED vars
  <2>1. UNCHANGED <<row, gate, pc, mem, at, todo, answer, said>>
      BY <1>2 DEF LeaseLapses, vars
  <2> QED BY <2>1 DEF GateInv, RowsAsked, MemAsked, NodesOpened, AnswerSaid, Opened, Asked
<1> QED BY <1>1, <1>2 DEF Next

LEMMA GateInit == Init => GateInv
<1> SUFFICES ASSUME Init PROVE GateInv
    OBVIOUS
<1>1. Gate \subseteq Node /\ NoNode \notin Gate
    BY EngineAssumption
<1>2. RowsAsked /\ MemAsked
    BY <1>1 DEF Init, RowsAsked, MemAsked, Fresh
<1>3. NodesOpened
    BY DEF Init, NodesOpened, Fresh, Nowhere, NoPlan, Touched
<1>4. AnswerSaid
    BY <1>1 DEF Init, AnswerSaid, NoAnswer
<1> QED BY <1>2, <1>3, <1>4 DEF GateInv

\* A node that waits for a gate has not started while the gate was never
\* answered (GaggleExecutor, its planner and its recovery), for every graph.
THEOREM UnansweredGateCorrect == Spec => []UnansweredGateHolds
<1>1. Init => GateInv
    BY GateInit
<1>2. TypeOK /\ Owned /\ GateInv /\ [Next]_vars => GateInv'
    BY GateStep
<1>3. GateInv => UnansweredGateHolds
    BY DEF GateInv, NodesOpened, Opened, Touched, Asked, UnansweredGateHolds
<1> QED BY <1>1, <1>2, <1>3, OwnedCorrect, PTL DEF Spec

-----------------------------------------------------------------------------
(* What a step of p leaves alone: every other process.                     *)

Private(p) ==
  \A q \in Proc \ {p} :
    /\ pc'[q] = pc[q] /\ mem'[q] = mem[q] /\ at'[q] = at[q]
    /\ todo'[q] = todo[q] /\ answer'[q] = answer[q] /\ stop'[q] = stop[q]

LEMMA DropPrivate ==
  ASSUME TypeOK, NEW p \in Proc, NEW where \in Locations, Drop(p, where)
  PROVE  Private(p)
BY DEF Drop, Goto, Private, TypeOK

LEMMA NodePrivate ==
  ASSUME TypeOK, NEW p \in Proc, NEW n \in Node, NodeStep(p, n)
  PROVE  Private(p)
<1>1. /\ UNCHANGED todo
      /\ UNCHANGED stop \/ \E why \in {"paused", "cancelled"} : stop' = [stop EXCEPT ![p] = why]
    BY DEF Pause, NodeStep, Begin, BodyReturns, Save, SaveRefusal, AskGate, ConsumeAnswer, ReworkReturns,
           CreateApproval, CountRework
<1>2. UNCHANGED answer \/ TakeAnswer(p)
    BY DEF NodeStep, Begin, BodyReturns, Save, SaveRefusal, AskGate, ConsumeAnswer, ReworkReturns,
           CreateApproval, CountRework
<1>3. /\ UNCHANGED pc \/ Leave(p, n)
      /\ UNCHANGED at \/ \E where \in Progress : at' = [at EXCEPT ![p][n] = where]
      /\ UNCHANGED mem \/ \E result \in Remembered : mem' = [mem EXCEPT ![p][n] = result]
    BY DEF NodeStep, Begin, BodyReturns, Save, SaveRefusal, AskGate, ConsumeAnswer, ReworkReturns,
           CreateApproval, CountRework, Conclude, Pause, Leave, NodeStatus
<1>4. \A q \in Proc \ {p} : answer'[q] = answer[q]
    BY <1>2 DEF TakeAnswer, TypeOK
<1>5. \A q \in Proc \ {p} : pc'[q] = pc[q] /\ at'[q] = at[q] /\ mem'[q] = mem[q]
    BY <1>3 DEF Leave, TypeOK
<1>6. \A q \in Proc \ {p} : stop'[q] = stop[q]
    BY <1>1 DEF TypeOK
<1> QED BY <1>1, <1>4, <1>5, <1>6 DEF Private

LEMMA PerProcess ==
  ASSUME TypeOK
  PROVE  /\ DOMAIN pc = Proc /\ DOMAIN mem = Proc /\ DOMAIN at = Proc
         /\ DOMAIN todo = Proc /\ DOMAIN answer = Proc /\ DOMAIN stop = Proc
<1> QED BY DEF TypeOK

LEMMA StartNodesPrivate ==
  ASSUME TypeOK, NEW p \in Proc, NEW ready, NEW skipped, StartNodes(p, ready, skipped),
         UNCHANGED <<answer, stop>>
  PROVE  Private(p)
BY PerProcess DEF StartNodes, Goto, Private

LEMMA LoopPrivate ==
  ASSUME TypeOK, NEW p \in Proc,
         Plan(p) \/ StartPlanned(p) \/ (\E n \in Node : RecordSkip(p, n)) \/ Finalize(p)
  PROVE  Private(p)
<1>1. UNCHANGED <<answer, stop>>
    BY DEF Plan, StartPlanned, RecordSkip, Finalize
<1>2. CASE \E ready, skipped : StartNodes(p, ready, skipped)
    BY <1>1, <1>2, StartNodesPrivate
<1>3. CASE Plan(p) /\ ~\E ready, skipped : StartNodes(p, ready, skipped)
    BY <1>1, <1>3, PerProcess DEF Plan, Goto, Private
<1>4. CASE (\E n \in Node : RecordSkip(p, n)) \/ Finalize(p)
    BY <1>1, <1>4, PerProcess DEF RecordSkip, Finalize, Goto, Private
<1>5. StartPlanned(p) => \E ready, skipped : StartNodes(p, ready, skipped)
    BY DEF StartPlanned
<1> QED BY <1>2, <1>3, <1>4, <1>5

LEMMA OtherPrivate ==
  ASSUME TypeOK, NEW p \in Proc,
         \/ AcquireLease(p) \/ MarkRunning(p) \/ ReleaseLease(p)
         \/ Decide(p) \/ RecoveryStep(p) \/ OutsideStep(p)
  PROVE  Private(p)
<1> USE PerProcess
<1>1. CASE AcquireLease(p) \/ ReleaseLease(p) \/ Decide(p) \/ ShutdownTimesOut(p) \/ Crash(p)
  <2>1. CASE Drop(p, "idle") \/ Drop(p, "down")
      BY <2>1, DropPrivate
  <2>2. CASE \E where : Goto(p, where) /\ UNCHANGED runnerVars
      BY <2>2 DEF Goto, Private
  <2> QED BY <1>1, <2>1, <2>2 DEF AcquireLease, ReleaseLease, Decide, ShutdownTimesOut, Crash
<1>2. CASE MarkRunning(p) \/ StartRun(p) \/ CancelRun(p) \/ Suspend(p) \/ Exit(p) \/ Restart(p)
    BY <1>2 DEF MarkRunning, StartRun, CancelRun, Suspend, Exit, Restart, Goto, Private
<1>3. CASE Prepare(p)
    BY <1>3 DEF Prepare, Goto, Private
<1>4. CASE FindExpiredRuns(p) \/ ReclaimLease(p) \/ MarkRunningNodesInterrupted(p)
    BY <1>4 DEF FindExpiredRuns, ReclaimLease, MarkRunningNodesInterrupted, Goto, Private
<1>5. CASE RaiseGate(p) \/ ParkRun(p) \/ YieldLease(p) \/ ResumeRun(p)
    BY <1>5 DEF RaiseGate, ParkRun, YieldLease, ResumeRun, Goto, Private
<1> QED BY <1>1, <1>2, <1>3, <1>4, <1>5 DEF RecoveryStep, OutsideStep

LEMMA StepPrivate ==
  ASSUME TypeOK, NEW p \in Proc, RunnerStep(p) \/ Decide(p) \/ RecoveryStep(p) \/ OutsideStep(p)
  PROVE  Private(p)
BY NodePrivate, LoopPrivate, OtherPrivate DEF RunnerStep

-----------------------------------------------------------------------------
(***************************************************************************)
(* What is done.  A row that says completed or skipped has said so; what a *)
(* runner remembers so, a row has said or the runner is about to write.    *)
(***************************************************************************)
Done == {"completed", "skipped"}
Recording == {"saving", "refusing"}

RowsDone == \A n \in Node : row[n] \in Done => n \in everDone
MemDone ==
  \A p \in Proc : \A n \in Node :
    mem[p][n] \in Done => n \in everDone \/ at[p][n] \in Recording

DoneInv == RowsDone /\ MemDone /\ CompletedRunIsWhole

\* What a step of p may do to what is done.
DoneEffect(p) ==
  /\ everDone \subseteq everDone'
  /\ \A n \in Node : row'[n] \in Done => row[n] \in Done \/ n \in everDone'
  /\ \A n \in Node : mem'[p][n] \in Done =>
       \/ n \in everDone'
       \/ at'[p][n] \in Recording
       \/ row[n] \in Done
       \/ mem[p][n] \in Done /\ (at[p][n] \in Recording => at'[p][n] = at[p][n])

\* A step that writes no row.
LEMMA QuietDone ==
  ASSUME NEW p \in Proc, UNCHANGED <<row, everDone>>,
         \A n \in Node : mem'[p][n] \in Done =>
           \/ row[n] \in Done
           \/ mem[p][n] \in Done /\ at'[p][n] = at[p][n]
  PROVE  DoneEffect(p)
BY DEF DoneEffect

LEMMA DropDone ==
  ASSUME TypeOK, NEW p \in Proc, NEW where, Drop(p, where), UNCHANGED <<row, everDone>>
  PROVE  DoneEffect(p)
<1>1. mem'[p] = Fresh
    BY DEF Drop, TypeOK
<1> QED BY <1>1, QuietDone DEF Fresh, Done

LEMMA HydrateDone ==
  ASSUME TypeOK, NEW p \in Proc, mem' = [mem EXCEPT ![p] = Hydrated], UNCHANGED <<row, everDone>>
  PROVE  DoneEffect(p)
<1>1. mem'[p] = Hydrated
    BY DEF TypeOK
<1> QED BY <1>1, QuietDone DEF Hydrated, Done

LEMMA ConcludeDone ==
  ASSUME TypeOK, NEW p \in Proc, NEW n \in Node, NEW result, NEW next \in Recording,
         Conclude(p, n, result, next), at[p][n] \notin Recording
  PROVE  \A m \in Node : mem'[p][m] \in Done =>
           \/ at'[p][m] \in Recording
           \/ mem[p][m] \in Done /\ at[p][m] \notin Recording
<1>1. CASE suspended[p]
  <2>1. mem' = mem /\ at' = [at EXCEPT ![p][n] = "no"]
      BY <1>1 DEF Conclude, Leave
  <2> QED BY <2>1 DEF TypeOK
<1>2. CASE ~suspended[p]
  <2>1. mem' = [mem EXCEPT ![p][n] = result] /\ at' = [at EXCEPT ![p][n] = next]
      BY <1>2 DEF Conclude
  <2> QED BY <2>1 DEF TypeOK
<1> QED BY <1>1, <1>2

LEMMA NodeFrame ==
  ASSUME TypeOK, NEW p \in Proc, NEW n \in Node, NodeStep(p, n)
  PROVE  \A m \in Node \ {n} : row'[m] = row[m] /\ mem'[p][m] = mem[p][m] /\ at'[p][m] = at[p][m]
<1>1. UNCHANGED row \/ \E result : row' = [row EXCEPT ![n] = result]
    BY DEF NodeStep, Begin, BodyReturns, Save, SaveRefusal, AskGate, ConsumeAnswer, ReworkReturns,
           CreateApproval, CountRework
<1>2. /\ UNCHANGED at \/ \E where \in Progress : at' = [at EXCEPT ![p][n] = where]
      /\ UNCHANGED mem \/ \E result \in Remembered : mem' = [mem EXCEPT ![p][n] = result]
    BY DEF NodeStep, Begin, BodyReturns, Save, SaveRefusal, AskGate, ConsumeAnswer, ReworkReturns,
           CreateApproval, CountRework, Conclude, Pause, Leave, NodeStatus
<1>3. \A m \in Node \ {n} : row'[m] = row[m]
    BY <1>1 DEF TypeOK
<1>4. \A m \in Node \ {n} : mem'[p][m] = mem[p][m] /\ at'[p][m] = at[p][m]
    BY <1>2 DEF TypeOK
<1> QED BY <1>3, <1>4

LEMMA NodeDone ==
  ASSUME TypeOK, NEW p \in Proc, NEW n \in Node, NodeStep(p, n)
  PROVE  DoneEffect(p)
<1>1. CASE Save(p, n) \/ SaveRefusal(p, n)
  <2>1. /\ row' = [row EXCEPT ![n] = mem[p][n]] /\ UNCHANGED mem /\ Leave(p, n)
        /\ everDone' = IF mem[p][n] \in Done THEN everDone \cup {n} ELSE everDone
      BY <1>1 DEF Save, SaveRefusal, Done
  <2> QED BY <2>1 DEF DoneEffect, Leave, TypeOK
<1>2. ASSUME ~(Save(p, n) \/ SaveRefusal(p, n)) PROVE DoneEffect(p)
  <2>1. UNCHANGED everDone /\ at[p][n] \notin Recording
      BY <1>2 DEF NodeStep, Begin, BodyReturns, AskGate, ConsumeAnswer, ReworkReturns,
                  CreateApproval, CountRework, Recording
  <2>2. UNCHANGED row \/ row' = [row EXCEPT ![n] = "running"]
      BY <1>2 DEF NodeStep, Begin, BodyReturns, AskGate, ConsumeAnswer, ReworkReturns,
                  CreateApproval, CountRework
  <2>3. \/ \E result : \E next \in Recording : Conclude(p, n, result, next)
        \/ UNCHANGED mem
      BY <1>2 DEF NodeStep, Begin, BodyReturns, AskGate, ConsumeAnswer, ReworkReturns,
                  CreateApproval, CountRework, Recording
  <2>4. \A m \in Node \ {n} : at'[p][m] = at[p][m]
      BY NodeFrame
  <2>5. \A m \in Node : mem'[p][m] \in Done =>
           \/ at'[p][m] \in Recording
           \/ mem[p][m] \in Done /\ at[p][m] \notin Recording
      BY <2>1, <2>3, <2>4, ConcludeDone
  <2>6. \A m \in Node : row'[m] \in Done => row[m] \in Done
      BY <2>2 DEF Done, TypeOK
  <2> QED BY <2>1, <2>5, <2>6 DEF DoneEffect
<1> QED BY <1>1, <1>2

LEMMA StartNodesDone ==
  ASSUME TypeOK, NEW p \in Proc, NEW ready \in SUBSET Node, NEW skipped,
         StartNodes(p, ready, skipped), UNCHANGED <<row, everDone>>
  PROVE  DoneEffect(p)
<1>1. PICK S \in SUBSET ready :
        /\ mem' = [mem EXCEPT ![p] = [n \in Node |-> IF n \in S THEN "running" ELSE @[n]]]
        /\ at' = [at EXCEPT ![p] = [n \in Node |-> IF n \in S THEN "starting" ELSE @[n]]]
    BY DEF StartNodes
<1>2. \A n \in Node : mem'[p][n] \in Done => mem[p][n] \in Done /\ at'[p][n] = at[p][n]
    BY <1>1 DEF Done, TypeOK
<1> QED BY <1>2, QuietDone

LEMMA LoopDone ==
  ASSUME TypeOK, NEW p \in Proc,
         Plan(p) \/ StartPlanned(p) \/ (\E n \in Node : RecordSkip(p, n)) \/ Finalize(p)
  PROVE  DoneEffect(p)
<1>1. CASE Plan(p)
  <2>1. ReadyNodes(mem[p], holds) \in SUBSET Node
      BY DEF ReadyNodes, Decidable
  <2>2. CASE UNCHANGED <<mem, at>>
      BY <1>1, <2>2, QuietDone DEF Plan
  <2>3. CASE StartNodes(p, ReadyNodes(mem[p], holds), FALSE)
      BY <1>1, <2>1, <2>3, StartNodesDone DEF Plan
  <2> QED BY <1>1, <2>2, <2>3 DEF Plan
<1>2. CASE StartPlanned(p)
  <2>1. todo[p].ready \in SUBSET Node
      BY DEF TypeOK
  <2> QED BY <1>2, <2>1, StartNodesDone DEF StartPlanned
<1>3. ASSUME NEW n \in Node, RecordSkip(p, n) PROVE DoneEffect(p)
  <2>1. /\ mem' = [mem EXCEPT ![p][n] = "skipped"] /\ row' = [row EXCEPT ![n] = "skipped"]
        /\ everDone' = everDone \cup {n} /\ UNCHANGED at
      BY <1>3 DEF RecordSkip
  <2> QED BY <2>1 DEF DoneEffect, TypeOK
<1>4. CASE Finalize(p)
    BY <1>4, QuietDone DEF Finalize
<1> QED BY <1>1, <1>2, <1>3, <1>4

LEMMA OtherDone ==
  ASSUME TypeOK, NEW p \in Proc,
         \/ AcquireLease(p) \/ MarkRunning(p) \/ ReleaseLease(p)
         \/ Decide(p) \/ RecoveryStep(p) \/ OutsideStep(p)
  PROVE  DoneEffect(p)
<1>1. CASE AcquireLease(p) \/ ReleaseLease(p) \/ Decide(p) \/ ShutdownTimesOut(p) \/ Crash(p)
  <2>1. UNCHANGED <<row, everDone>>
      BY <1>1 DEF AcquireLease, ReleaseLease, Decide, ShutdownTimesOut, Crash
  <2>2. (\E where : Drop(p, where)) \/ UNCHANGED <<mem, at>>
      BY <1>1 DEF AcquireLease, ReleaseLease, Decide, ShutdownTimesOut, Crash
  <2> QED BY <2>1, <2>2, DropDone, QuietDone
<1>2. CASE \/ MarkRunning(p) \/ StartRun(p) \/ CancelRun(p) \/ Suspend(p) \/ Exit(p) \/ Restart(p)
           \/ FindExpiredRuns(p) \/ ReclaimLease(p) \/ RaiseGate(p) \/ ParkRun(p) \/ YieldLease(p)
  <2>1. UNCHANGED <<row, everDone, mem, at>>
      BY <1>2 DEF MarkRunning, StartRun, CancelRun, Suspend, Exit, Restart, FindExpiredRuns,
                  ReclaimLease, RaiseGate, ParkRun, YieldLease
  <2> QED BY <2>1, QuietDone
<1>3. CASE Prepare(p) \/ ResumeRun(p)
  <2>1. UNCHANGED <<row, everDone, at>> /\ (UNCHANGED mem \/ mem' = [mem EXCEPT ![p] = Hydrated])
      BY <1>3 DEF Prepare, ResumeRun
  <2> QED BY <2>1, HydrateDone, QuietDone
<1>4. CASE MarkRunningNodesInterrupted(p)
  <2>1. /\ row' = [n \in Node |-> IF row[n] = "running" THEN "interrupted" ELSE row[n]]
        /\ UNCHANGED <<everDone, mem, at>>
      BY <1>4 DEF MarkRunningNodesInterrupted
  <2>2. \A n \in Node : row'[n] \in Done => row[n] \in Done
      BY <2>1 DEF Done
  <2> QED BY <2>1, <2>2 DEF DoneEffect
<1> QED BY <1>1, <1>2, <1>3, <1>4 DEF RecoveryStep, OutsideStep


LEMMA ByFinalizing ==
  ASSUME TypeOK, NEW p \in Proc, RunnerStep(p) \/ Decide(p) \/ RecoveryStep(p) \/ OutsideStep(p),
         run # "completed", run' = "completed"
  PROVE  Finalize(p) /\ ~suspended[p] /\ \A n \in Node : mem[p][n] \in {"completed", "skipped"}
<1>1. Finalize(p)
    BY DEF RunnerStep, AcquireLease, MarkRunning, Plan, StartPlanned, RecordSkip, ReleaseLease, NodeStep,
           Begin, BodyReturns, Save, SaveRefusal, AskGate, ConsumeAnswer, ReworkReturns, CreateApproval,
           CountRework, Decide, RecoveryStep, FindExpiredRuns, ReclaimLease, MarkRunningNodesInterrupted,
           RaiseGate, ParkRun, YieldLease, ResumeRun, OutsideStep, StartRun, CancelRun, Prepare, Suspend,
           ShutdownTimesOut, Exit, Crash, Restart
<1>2. ~suspended[p] /\ Outcome(stop[p], mem[p]) = "completed"
    BY <1>1 DEF Finalize
<1>3. stop[p] \in {"none", "paused", "cancelled"}
    BY DEF TypeOK
<1>4. Finished(mem[p]) /\ RunOutcome(mem[p]) = "succeeded"
    BY <1>2, <1>3 DEF Outcome, RunOutcome
<1> QED BY <1>1, <1>2, <1>4 DEF Finished, RunOutcome, Settled

LEMMA DoneStep ==
  ASSUME TypeOK, DoneInv, [Next]_vars
  PROVE  DoneInv'
<1>1. ASSUME NEW p \in Proc, RunnerStep(p) \/ Decide(p) \/ RecoveryStep(p) \/ OutsideStep(p)
      PROVE  DoneInv'
  <2>1. DoneEffect(p)
      BY <1>1, NodeDone, LoopDone, OtherDone DEF RunnerStep
  <2>2. RowsDone'
      BY <2>1 DEF DoneInv, RowsDone, DoneEffect
  <2>3. MemDone'
    <3> SUFFICES ASSUME NEW q \in Proc, NEW n \in Node, mem'[q][n] \in Done
                 PROVE  n \in everDone' \/ at'[q][n] \in Recording
        BY DEF MemDone
    <3>1. CASE q = p
        BY <2>1, <3>1 DEF DoneInv, RowsDone, MemDone, DoneEffect
    <3>2. CASE q # p
      <4>1. mem'[q] = mem[q] /\ at'[q] = at[q]
          BY <1>1, <3>2, StepPrivate DEF Private
      <4> QED BY <2>1, <4>1 DEF DoneInv, MemDone, DoneEffect
    <3> QED BY <3>1, <3>2
  <2>4. everDone \subseteq everDone' /\ everDone' \subseteq Node
      BY <2>1, NextType DEF DoneEffect, TypeOK
  <2>5. run' = "completed" => everDone' = Node
    <3>1. CASE run = "completed"
        BY <2>4, <3>1 DEF DoneInv, CompletedRunIsWhole
    <3>2. CASE run # "completed" /\ run' = "completed"
      <4>1. Finalize(p) /\ \A n \in Node : mem[p][n] \in Done
          BY <1>1, <3>2, ByFinalizing DEF Done
      <4>2. \A n \in Node : at[p][n] \notin Recording
          BY <4>1 DEF Finalize, InFlight, Recording
      <4>3. Node \subseteq everDone
          BY <4>1, <4>2 DEF DoneInv, MemDone
      <4> QED BY <2>4, <4>3
    <3> QED BY <3>1, <3>2
  <2> QED BY <2>2, <2>3, <2>5 DEF DoneInv, CompletedRunIsWhole
<1>2. CASE LeaseLapses \/ UNCHANGED vars
  <2>1. UNCHANGED <<run, row, mem, at, everDone>>
      BY <1>2 DEF LeaseLapses, vars
  <2> QED BY <2>1 DEF DoneInv, RowsDone, MemDone, CompletedRunIsWhole
<1> QED BY <1>1, <1>2 DEF Next

\* A run is reported completed only when every node of the graph has been
\* completed or skipped and a row has said so, over any number of attempts,
\* processes, crashes and recoveries (runner.ts, finalize; planner.ts, runOutcome).
THEOREM CompletedRunCorrect == Spec => []CompletedRunIsWhole
<1>1. Init => DoneInv
    BY DEF Init, DoneInv, RowsDone, MemDone, CompletedRunIsWhole, Fresh, Done
<1>2. TypeOK /\ DoneInv /\ [Next]_vars => DoneInv'
    BY DoneStep
<1>3. DoneInv => CompletedRunIsWhole
    BY DEF DoneInv
<1> QED BY <1>1, <1>2, <1>3, InitType, NextType, PTL DEF Spec

-----------------------------------------------------------------------------
(***************************************************************************)
(* A parked run has a question.  Whoever stops its runner for a gate, asks *)
(* again after a rework or parks the run in recovery, does so while a      *)
(* question stands: a gate is undecided, its answer is being carried out,  *)
(* or the answer was lost.  A question goes only when a run is under way,  *)
(* and then the process that marks it running is the only driver.          *)
(***************************************************************************)
Looping == {"planning", "skipping", "waiting", "draining"}

\* Nodes are in flight only within the loop.
InFlightLooping == \A p \in Proc : pc[p] \notin Looping => at[p] = Nowhere

Questioned == gate.pending \/ unheeded \/ \E p \in Proc : CarriesAnswer(p)

\* p will park the run, or will stop its runner for the gate it asked about.
Parking(p) ==
  \/ stop[p] = "paused" /\ pc[p] \in Looping
  \/ \E n \in Node : at[p][n] = "counting"
  \/ pc[p] = "pausing"

PauseLooping == \A p \in Proc : stop[p] = "paused" => pc[p] \in Looping \cup {"releasing"}
AnswerNamed == /\ gate.pending => gate.node \in Node
               /\ \A p \in Proc : pc[p] = "prepared" => answer[p].node \in Node
ParkingAsked == \A p \in Proc : Parking(p) => Questioned

ParkedInv == InFlightLooping /\ PauseLooping /\ AnswerNamed /\ ParkingAsked /\ ParkedRunHasQuestion


LEMMA NodeLooping ==
  ASSUME TypeOK, InFlightLooping, NEW p \in Proc, NEW n \in Node, NodeStep(p, n)
  PROVE  pc[p] \in Looping /\ pc'[p] \in Looping /\ at[p][n] # "no"
<1>1. at[p][n] # "no"
    BY NodeRows
<1>2. pc[p] \in Looping
    BY <1>1 DEF InFlightLooping, Nowhere
<1>3. UNCHANGED pc \/ Leave(p, n)
    BY DEF NodeStep, Begin, BodyReturns, Save, SaveRefusal, AskGate, ConsumeAnswer, ReworkReturns,
           CreateApproval, CountRework, Conclude, Pause
<1>4. pc'[p] \in Looping
    BY <1>2, <1>3 DEF Leave, TypeOK, Looping
<1> QED BY <1>1, <1>2, <1>4

LEMMA LoopingStep ==
  ASSUME TypeOK, InFlightLooping, NEW p \in Proc,
         RunnerStep(p) \/ Decide(p) \/ RecoveryStep(p) \/ OutsideStep(p)
  PROVE  InFlightLooping'
<1>1. SUFFICES pc'[p] \in Looping \/ at'[p] = Nowhere
  <2>1. \A q \in Proc \ {p} : pc'[q] = pc[q] /\ at'[q] = at[q]
      BY StepPrivate DEF Private
  <2> QED BY <2>1 DEF InFlightLooping
<1>2. CASE \E n \in Node : NodeStep(p, n)
    BY <1>2, NodeLooping
<1>3. CASE Plan(p) \/ StartPlanned(p)
    BY <1>3 DEF Plan, StartPlanned, StartNodes, Goto, TypeOK, Looping
<1>4. CASE \E n \in Node : RecordSkip(p, n)
    BY <1>4 DEF RecordSkip, Looping
<1>5. CASE Finalize(p)
  <2>1. at[p] \in [Node -> Progress]
      BY DEF TypeOK
  <2> QED BY <1>5, <2>1 DEF Finalize, InFlight, Nowhere
<1>6. CASE Drop(p, "idle") \/ Drop(p, "down")
    BY <1>6 DEF Drop, TypeOK
<1>7. CASE UNCHANGED at /\ (pc[p] \in Looping => pc'[p] \in Looping)
    BY <1>7 DEF InFlightLooping
<1>8. CASE AcquireLease(p) \/ ReleaseLease(p) \/ Decide(p) \/ ShutdownTimesOut(p) \/ Crash(p)
    BY <1>6, <1>7, <1>8 DEF AcquireLease, ReleaseLease, Decide, ShutdownTimesOut, Crash, Looping
<1>9. CASE MarkRunning(p) \/ StartRun(p) \/ CancelRun(p) \/ Prepare(p) \/ Suspend(p) \/ Exit(p) \/ Restart(p)
    BY <1>7, <1>9 DEF MarkRunning, StartRun, CancelRun, Prepare, Suspend, Exit, Restart, Looping
<1>10. CASE RecoveryStep(p)
    BY <1>7, <1>10
       DEF RecoveryStep, FindExpiredRuns, ReclaimLease, MarkRunningNodesInterrupted, RaiseGate,
           ParkRun, YieldLease, ResumeRun, Looping
<1> QED BY <1>2, <1>3, <1>4, <1>5, <1>8, <1>9, <1>10 DEF RunnerStep, OutsideStep

-----------------------------------------------------------------------------
(* A step of p, other than its runner marking the run running, leaves a    *)
(* question that stands; it comes to park the run only with one.           *)

Asks(p) ==
  /\ Questioned => Questioned'
  /\ Parking(p)' => Parking(p) \/ Questioned'
  /\ run' = "paused" => run = "paused" \/ Questioned'
  /\ stop'[p] = "paused" => pc'[p] \in Looping \cup {"releasing"}
  /\ gate'.pending => gate'.node \in Node
  /\ pc'[p] = "prepared" => answer'[p].node \in Node

\* Nobody else's answer is touched.
LEMMA OthersCarry ==
  ASSUME NEW p \in Proc, Private(p), \E q \in Proc \ {p} : CarriesAnswer(q)
  PROVE  \E q \in Proc : CarriesAnswer(q)'
BY DEF Private, CarriesAnswer

\* The gate stays undecided, an answer lost stays lost, and p carries none.
LEMMA StillQuestioned ==
  ASSUME NEW p \in Proc, Private(p), gate.pending => gate'.pending, unheeded => unheeded',
         CarriesAnswer(p) => CarriesAnswer(p)' \/ unheeded'
  PROVE  Questioned => Questioned'
<1> SUFFICES ASSUME Questioned, ~gate.pending, ~unheeded PROVE Questioned'
    BY DEF Questioned
<1>1. PICK q \in Proc : CarriesAnswer(q)
    BY DEF Questioned
<1>2. CASE q = p
    BY <1>1, <1>2 DEF Questioned
<1>3. CASE q # p
    BY <1>1, <1>3, OthersCarry DEF Questioned
<1> QED BY <1>2, <1>3

LEMMA NodeAsks ==
  ASSUME TypeOK, ParkedInv, NEW p \in Proc, NEW n \in Node, NodeStep(p, n)
  PROVE  Asks(p)
<1>1. pc[p] \in Looping /\ pc'[p] \in Looping /\ Private(p)
    BY NodeLooping, NodePrivate DEF ParkedInv
<1>2. UNCHANGED <<run, unheeded>>
    BY DEF NodeStep, Begin, BodyReturns, Save, SaveRefusal, AskGate, ConsumeAnswer, ReworkReturns,
           CreateApproval, CountRework
<1>3. /\ gate.pending => gate'.pending
      /\ gate'.pending => (gate'.node = gate.node /\ gate.pending) \/ gate'.node = n
    BY DEF NodeStep, Begin, BodyReturns, Save, SaveRefusal, AskGate, ConsumeAnswer, ReworkReturns,
           CreateApproval, CountRework, TypeOK
<1>4. Questioned => Questioned'
    BY <1>1, <1>2, <1>3, StillQuestioned DEF CarriesAnswer, Looping
<1>5. Parking(p)' => Parking(p) \/ gate'.pending
  <2>1. stop'[p] = "paused" => Parking(p) \/ gate'.pending
    <3>1. CASE UNCHANGED stop
        BY <1>1, <3>1 DEF Parking
    <3>2. CASE SaveRefusal(p, n)
        BY <3>2 DEF SaveRefusal, TypeOK
    <3>3. CASE AskGate(p, n)
        BY <1>1, <3>3 DEF AskGate, Pause, Parking
    <3>4. CASE CreateApproval(p, n)
        BY <1>1, <3>4 DEF CreateApproval, Pause, Parking
    <3>5. CASE CountRework(p, n)
        BY <3>5 DEF CountRework, Parking
    <3> QED BY <3>1, <3>2, <3>3, <3>4, <3>5
            DEF NodeStep, Begin, BodyReturns, Save, ConsumeAnswer, ReworkReturns
  <2>2. at'[p][n] = "counting" => at[p][n] = "counting" \/ gate'.pending
    <3>1. CASE CreateApproval(p, n)
        BY <3>1 DEF CreateApproval, Conclude, Leave, TypeOK
    <3> QED BY <3>1 DEF NodeStep, Begin, BodyReturns, Save, SaveRefusal, AskGate, ConsumeAnswer,
                        ReworkReturns, CountRework, Conclude, Pause, Leave, TypeOK
  <2>3. \A m \in Node \ {n} : at'[p][m] = at[p][m]
      BY NodeFrame
  <2>4. pc'[p] # "pausing"
      BY <1>1 DEF Looping
  <2> QED BY <2>1, <2>2, <2>3, <2>4 DEF Parking
<1> QED BY <1>1, <1>2, <1>3, <1>4, <1>5 DEF Asks, Questioned, ParkedInv, AnswerNamed, Looping

LEMMA LoopAsks ==
  ASSUME TypeOK, ParkedInv, NEW p \in Proc,
         Plan(p) \/ StartPlanned(p) \/ (\E n \in Node : RecordSkip(p, n)) \/ Finalize(p)
  PROVE  Asks(p)
<1>1. UNCHANGED <<gate, stop, unheeded>> /\ pc[p] \in Looping /\ Private(p)
    BY LoopPrivate DEF Plan, StartPlanned, RecordSkip, Finalize, Looping
<1>2. Questioned => Questioned'
    BY <1>1, StillQuestioned DEF CarriesAnswer, Looping
<1>3. gate'.pending => gate'.node \in Node
    BY <1>1 DEF ParkedInv, AnswerNamed
<1>4. CASE Plan(p) \/ StartPlanned(p) \/ (\E n \in Node : RecordSkip(p, n))
  <2>1. pc'[p] \in Looping /\ run' = run
      BY <1>4 DEF Plan, StartPlanned, StartNodes, RecordSkip, Goto, TypeOK, Looping
  <2>2. \A n \in Node : at'[p][n] = "counting" => at[p][n] = "counting"
      BY <1>4 DEF Plan, StartPlanned, StartNodes, RecordSkip, TypeOK
  <2>3. Parking(p)' => Parking(p)
      BY <1>1, <2>1, <2>2 DEF Parking, Looping
  <2> QED BY <1>2, <1>3, <2>1, <2>3 DEF Asks, Looping
<1>5. CASE Finalize(p)
  <2>1. pc[p] = "draining" /\ pc'[p] = "releasing" /\ at' = at
      BY <1>5 DEF Finalize, Goto, TypeOK
  <2>2. run' = "paused" => run = "paused" \/ stop[p] = "paused"
    <3>1. stop[p] \in {"none", "paused", "cancelled"}
        BY DEF TypeOK
    <3> QED BY <1>5, <3>1 DEF Finalize, Outcome, RunOutcome
  <2>3. run' = "paused" => run = "paused" \/ Questioned'
      BY <1>1, <1>2, <2>2 DEF ParkedInv, ParkingAsked, Parking
  <2>4. Parking(p)' => Parking(p)
      BY <2>1 DEF Parking, Looping
  <2> QED BY <1>2, <1>3, <2>1, <2>3, <2>4 DEF Asks
<1> QED BY <1>4, <1>5

\* A step after which the process has no runner; the answer it carried, if any,
\* is noted as lost.
LEMMA DropAsks ==
  ASSUME TypeOK, ParkedInv, NEW p \in Proc, NEW where \in {"idle", "down"}, Drop(p, where),
         UNCHANGED <<run, gate>>, unheeded \/ CarriesAnswer(p) => unheeded'
  PROVE  Asks(p)
<1>1. pc'[p] = where /\ at'[p] = Nowhere /\ stop'[p] = "none"
    BY DEF Drop, Goto, TypeOK
<1>2. Private(p)
    BY DropPrivate DEF Active
<1>3. Questioned => Questioned'
    BY <1>2, StillQuestioned
<1>4. ~Parking(p)'
    BY <1>1 DEF Parking, Nowhere
<1> QED BY <1>1, <1>3, <1>4 DEF Asks, ParkedInv, AnswerNamed

\* A step that leaves the runner, the gate and the row of the run alone.
LEMMA MoveAsks ==
  ASSUME TypeOK, ParkedInv, NEW p \in Proc, Private(p), UNCHANGED <<run, gate, at, answer, unheeded>>,
         stop'[p] = "paused" => stop[p] = "paused" /\ pc'[p] = pc[p],
         CarriesAnswer(p) => pc'[p] \in {"launching", "starting"},
         pc'[p] # "pausing" \/ pc[p] = "pausing", pc'[p] # "prepared" \/ pc[p] = "prepared"
  PROVE  Asks(p)
<1>1. Questioned => Questioned'
    BY StillQuestioned DEF CarriesAnswer
<1>2. Parking(p)' => Parking(p)
    BY DEF Parking
<1> QED BY <1>1, <1>2 DEF Asks, ParkedInv, PauseLooping, AnswerNamed

LEMMA DecideAsks ==
  ASSUME TypeOK, ParkedInv, AnswerSaid, NEW p \in Proc, Decide(p)
  PROVE  Asks(p)
<1>1. pc[p] = "prepared" /\ UNCHANGED <<run, unheeded>>
    BY DEF Decide
<1>2. CASE gate.pending /\ gate.no = answer[p].no
  <2>1. Goto(p, "launching") /\ UNCHANGED runnerVars /\ gate' = [gate EXCEPT !.pending = FALSE]
      BY <1>2 DEF Decide
  <2>2. pc'[p] = "launching" /\ answer' = answer /\ at' = at /\ stop' = stop /\ ~gate'.pending
      BY <2>1 DEF Goto, TypeOK
  <2>3. answer[p].node \in Node
      BY <1>1 DEF ParkedInv, AnswerNamed
  <2>4. CarriesAnswer(p)'
      BY <2>2, <2>3, EngineAssumption DEF CarriesAnswer
  <2>5. stop[p] # "paused"
      BY <1>1 DEF ParkedInv, PauseLooping, Looping
  <2> QED BY <2>2, <2>4, <2>5 DEF Asks, Questioned
<1>3. CASE ~(gate.pending /\ gate.no = answer[p].no)
  <2>1. Drop(p, "idle") /\ UNCHANGED gate
      BY <1>3 DEF Decide
  <2> QED BY <1>1, <2>1, DropAsks DEF CarriesAnswer
<1> QED BY <1>2, <1>3

LEMMA RecoveryAsks ==
  ASSUME TypeOK, ParkedInv, NEW p \in Proc, RecoveryStep(p)
  PROVE  Asks(p)
<1>1. /\ UNCHANGED <<at, stop, answer, unheeded>> /\ Private(p)
      /\ pc[p] \notin Looping \cup {"releasing", "launching", "starting"}
    BY OtherPrivate
       DEF RecoveryStep, FindExpiredRuns, ReclaimLease, MarkRunningNodesInterrupted, RaiseGate, ParkRun,
           YieldLease, ResumeRun, Looping
<1>2. stop[p] # "paused" /\ ~CarriesAnswer(p)
    BY <1>1 DEF ParkedInv, PauseLooping, CarriesAnswer
<1>3. CASE FindExpiredRuns(p) \/ ReclaimLease(p) \/ MarkRunningNodesInterrupted(p) \/ YieldLease(p)
           \/ ResumeRun(p)
  <2>1. UNCHANGED <<run, gate>> /\ pc'[p] \notin {"pausing", "prepared"}
      BY <1>3 DEF FindExpiredRuns, ReclaimLease, MarkRunningNodesInterrupted, YieldLease, ResumeRun,
                  Goto, TypeOK
  <2> QED BY <1>1, <1>2, <2>1, MoveAsks
<1>4. CASE RaiseGate(p)
  <2>1. gate'.pending /\ run' = run /\ pc'[p] = "pausing"
      BY <1>4 DEF RaiseGate, Goto, TypeOK
  <2>2. gate' = gate \/ gate'.node \in Node
    <3>1. found[p] \subseteq Node
        BY EngineAssumption DEF TypeOK
    <3> QED BY <1>4, <3>1 DEF RaiseGate
  <2> QED BY <1>1, <1>2, <2>1, <2>2 DEF Asks, Questioned, ParkedInv, AnswerNamed
<1>5. CASE ParkRun(p)
  <2>1. /\ gate' = gate /\ pc'[p] = "yielding"
        /\ run' = "paused" => pc[p] = "pausing"
      BY <1>5 DEF ParkRun, Goto, TypeOK
  <2>2. Questioned => Questioned'
      BY <1>1, <1>2, <2>1, StillQuestioned
  <2>3. run' = "paused" => Questioned
      BY <2>1 DEF ParkedInv, ParkingAsked, Parking
  <2>4. Parking(p)' => Parking(p)
      BY <1>1, <1>2, <2>1 DEF Parking
  <2> QED BY <1>1, <1>2, <2>1, <2>2, <2>3, <2>4 DEF Asks, ParkedInv, AnswerNamed
<1> QED BY <1>3, <1>4, <1>5 DEF RecoveryStep

LEMMA OutsideAsks ==
  ASSUME TypeOK, ParkedInv, NEW p \in Proc, OutsideStep(p)
  PROVE  Asks(p)
<1>1. Private(p)
    BY OtherPrivate
<1>2. CASE StartRun(p)
  <2>1. /\ pc'[p] = "launching" /\ pc[p] = "idle" /\ run' = "pending"
        /\ UNCHANGED <<gate, at, stop, answer, unheeded>>
      BY <1>2 DEF StartRun, Goto, TypeOK
  <2>2. Questioned => Questioned'
      BY <1>1, <2>1, StillQuestioned DEF CarriesAnswer
  <2>3. stop[p] # "paused" /\ (Parking(p)' => Parking(p))
      BY <2>1 DEF ParkedInv, PauseLooping, Parking, Looping
  <2> QED BY <2>1, <2>2, <2>3 DEF Asks, ParkedInv, AnswerNamed
<1>3. CASE CancelRun(p) \/ Suspend(p)
  <2>1. /\ UNCHANGED <<gate, at, pc, answer, unheeded>> /\ run' \in {run, "cancelled"}
        /\ stop'[p] = "paused" => stop[p] = "paused"
      BY <1>3 DEF CancelRun, Suspend, TypeOK
  <2>2. Questioned => Questioned'
      BY <1>1, <2>1, StillQuestioned DEF CarriesAnswer
  <2> QED BY <2>1, <2>2 DEF Asks, Parking, ParkedInv, PauseLooping, AnswerNamed
<1>4. CASE Exit(p) \/ Restart(p)
  <2>1. /\ UNCHANGED <<run, gate, at, stop, answer, unheeded>> /\ pc'[p] \in {"down", "startup"}
        /\ pc[p] \in {"idle", "down"}
      BY <1>4 DEF Exit, Restart, Goto, TypeOK
  <2>2. stop[p] # "paused" /\ ~CarriesAnswer(p)
      BY <2>1 DEF ParkedInv, PauseLooping, CarriesAnswer, Looping
  <2> QED BY <1>1, <2>1, <2>2, MoveAsks
<1>5. CASE Prepare(p)
  <2>1. /\ UNCHANGED <<run, gate, at, stop, unheeded>> /\ pc'[p] = "prepared" /\ pc[p] = "idle"
        /\ answer'[p].node = gate.node /\ gate.pending
      BY <1>5 DEF Prepare, Goto, TypeOK
  <2>2. stop[p] # "paused" /\ ~CarriesAnswer(p)
      BY <2>1 DEF ParkedInv, PauseLooping, CarriesAnswer, Looping
  <2>3. Parking(p)' => Parking(p)
      BY <2>1 DEF Parking, Looping
  <2>4. Questioned'
      BY <2>1 DEF Questioned
  <2> QED BY <2>1, <2>2, <2>3, <2>4 DEF Asks, ParkedInv, AnswerNamed
<1>6. CASE ShutdownTimesOut(p)
  <2>1. pc[p] \in Looping
      BY <1>6 DEF ShutdownTimesOut, ParkedInv, InFlightLooping, Nowhere
  <2>2. UNCHANGED <<run, gate, unheeded>> /\ Drop(p, "down")
      BY <1>6 DEF ShutdownTimesOut
  <2> QED BY <2>1, <2>2, DropAsks DEF CarriesAnswer, Looping
<1>7. CASE Crash(p)
    BY <1>7, DropAsks DEF Crash
<1> QED BY <1>2, <1>3, <1>4, <1>5, <1>6, <1>7 DEF OutsideStep

LEMMA LaunchAsks ==
  ASSUME TypeOK, ParkedInv, NEW p \in Proc, AcquireLease(p) \/ ReleaseLease(p)
  PROVE  Asks(p)
<1>1. CASE AcquireLease(p) /\ lease \in {NoProc, p}
  <2>1. /\ pc[p] = "launching" /\ pc'[p] = "starting"
        /\ UNCHANGED <<run, gate, at, stop, answer, unheeded>>
      BY <1>1 DEF AcquireLease, Goto, TypeOK
  <2>2. stop[p] # "paused"
      BY <2>1 DEF ParkedInv, PauseLooping, Looping
  <2>3. Private(p)
      BY OtherPrivate
  <2> QED BY <2>1, <2>2, <2>3, MoveAsks
<1>2. CASE AcquireLease(p) /\ lease \notin {NoProc, p}
    BY <1>2, DropAsks DEF AcquireLease
<1>3. CASE ReleaseLease(p)
  <2>1. UNCHANGED <<run, gate, unheeded>> /\ ~CarriesAnswer(p)
      BY <1>3 DEF ReleaseLease, CarriesAnswer
  <2>2. Drop(p, "idle") \/ Drop(p, "down")
      BY <1>3 DEF ReleaseLease
  <2> QED BY <2>1, <2>2, DropAsks
<1> QED BY <1>1, <1>2, <1>3

\* The run comes to be under way: no process parks it then, for one that would
\* drives the run as well.
LEMMA MarkParked ==
  ASSUME TypeOK, Owned, ParkedInv, NEW p \in Proc, MarkRunning(p)
  PROVE  PauseLooping' /\ AnswerNamed' /\ ParkingAsked' /\ ParkedRunHasQuestion'
<1>1. /\ pc[p] = "starting" /\ pc'[p] = "planning" /\ run' = "running"
      /\ UNCHANGED <<gate, at, stop, answer>>
    BY DEF MarkRunning, Goto, TypeOK
<1>2. \A q \in Proc \ {p} : pc'[q] = pc[q]
    BY OtherPrivate DEF Private
<1>3. \A q \in Proc \ {p} : ~Parking(q)
  <2> SUFFICES ASSUME NEW q \in Proc, q # p, Parking(q) PROVE FALSE
      OBVIOUS
  <2>1. pc[q] \in Looping \cup {"pausing"}
      BY DEF Parking, ParkedInv, InFlightLooping, Nowhere
  <2>2. pc[q] \in Driving /\ pc[p] \in Driving
      BY <1>1, <2>1 DEF Driving, Active, Looping
  <2> QED BY <2>2 DEF Owned, OwnerDrives
<1>4. stop[p] # "paused" /\ at[p] = Nowhere
    BY <1>1 DEF ParkedInv, PauseLooping, InFlightLooping, Looping
<1>5. ParkingAsked'
  <2>1. ~Parking(p)'
      BY <1>1, <1>4 DEF Parking, Nowhere
  <2>2. \A q \in Proc \ {p} : ~Parking(q)'
      BY <1>1, <1>2, <1>3 DEF Parking
  <2> QED BY <2>1, <2>2 DEF ParkingAsked
<1>6. PauseLooping'
    BY <1>1, <1>2, <1>4 DEF ParkedInv, PauseLooping
<1>7. AnswerNamed'
    BY <1>1, <1>2 DEF ParkedInv, AnswerNamed
<1> QED BY <1>1, <1>5, <1>6, <1>7 DEF ParkedRunHasQuestion

LEMMA AsksParked ==
  ASSUME TypeOK, ParkedInv, NEW p \in Proc, Asks(p), Private(p)
  PROVE  PauseLooping' /\ AnswerNamed' /\ ParkingAsked' /\ ParkedRunHasQuestion'
<1>1. \A q \in Proc \ {p} : (Parking(q)' <=> Parking(q))
    BY DEF Private, Parking
<1>2. ParkingAsked'
    BY <1>1 DEF ParkedInv, ParkingAsked, Asks
<1>3. PauseLooping'
    BY DEF ParkedInv, PauseLooping, Asks, Private
<1>4. AnswerNamed'
    BY DEF ParkedInv, AnswerNamed, Asks, Private
<1>5. run' = "paused" => Questioned'
    BY DEF ParkedInv, ParkedRunHasQuestion, Questioned, Asks
<1> QED BY <1>2, <1>3, <1>4, <1>5 DEF ParkedRunHasQuestion, Questioned

LEMMA ParkedStep ==
  ASSUME TypeOK, Owned, GateInv, ParkedInv, [Next]_vars
  PROVE  ParkedInv'
<1>1. ASSUME NEW p \in Proc, RunnerStep(p) \/ Decide(p) \/ RecoveryStep(p) \/ OutsideStep(p)
      PROVE  ParkedInv'
  <2>1. InFlightLooping'
      BY <1>1, LoopingStep DEF ParkedInv
  <2>2. Private(p)
      BY <1>1, StepPrivate
  <2>3. MarkRunning(p) \/ Asks(p)
      BY <1>1, NodeAsks, LoopAsks, LaunchAsks, DecideAsks, RecoveryAsks, OutsideAsks DEF RunnerStep, GateInv
  <2> QED BY <2>1, <2>2, <2>3, MarkParked, AsksParked DEF ParkedInv
<1>2. CASE LeaseLapses \/ UNCHANGED vars
  <2>1. UNCHANGED <<run, gate, pc, at, stop, answer, unheeded>>
      BY <1>2 DEF LeaseLapses, vars
  <2> QED BY <2>1 DEF ParkedInv, InFlightLooping, PauseLooping, AnswerNamed, ParkingAsked, Parking,
                      Questioned, CarriesAnswer, ParkedRunHasQuestion
<1> QED BY <1>1, <1>2 DEF Next

\* A parked run can be answered, or its answer is being carried out, or the
\* answer was lost with its process or to the lease: whatever graph and gates it
\* has, for any number of processes, crashes, shutdowns, cancels and recoveries
\* (runner.ts, executeApprovalNode and finalize; recovery.ts, the synthetic gate).
THEOREM ParkedRunCorrect == Spec => []ParkedRunHasQuestion
<1>1. Init => ParkedInv
    BY EngineAssumption
       DEF Init, ParkedInv, InFlightLooping, PauseLooping, AnswerNamed, ParkingAsked, Parking,
           ParkedRunHasQuestion, Nowhere, Looping
<1>2. TypeOK /\ Owned /\ GateInv /\ ParkedInv /\ [Next]_vars => ParkedInv'
    BY ParkedStep
<1>3. TypeOK /\ Owned /\ GateInv /\ [Next]_vars => GateInv'
    BY GateStep
<1>4. ParkedInv => ParkedRunHasQuestion
    BY DEF ParkedInv
<1> QED BY <1>1, <1>2, <1>3, <1>4, GateInit, OwnedCorrect, PTL DEF Spec
=============================================================================

------------------------------- MODULE Outbox -------------------------------
(***************************************************************************)
(* The tracker outbox: rows written by the transaction that decided a      *)
(* tracker write, leased in batches by drainers that send them outside any *)
(* transaction (src/control/outbox.ts, claimOutbox and its siblings in     *)
(* src/control/store).                                                     *)
(*                                                                         *)
(* A drainer is one drain() in progress: two daemons of a workspace, or a  *)
(* pass the scheduler abandoned, which runs on beside its successor.       *)
(* Write i is row i of the table; a lease is kept as the fact that it      *)
(* still holds, claimed_by is not used for exclusion.                      *)
(***************************************************************************)
EXTENDS Naturals, FiniteSets

CONSTANTS
  Drainer,       \* concurrent drain() calls
  MaxRows,       \* bound: rows ever enqueued
  Issue,         \* tracker issues
  IssueOf,       \* the issue a row writes to
  BatchSize,     \* outbox.batch_size
  MaxAttempts,   \* tracker.outbox_max_attempts
  MaxCrashes,    \* bound: drains that die in one behaviour
  SlowBatch      \* a lease may expire under a drainer that still works on it

Row == 1..MaxRows

ASSUME OutboxAssumption ==
  /\ MaxRows \in Nat
  /\ IssueOf \in [Row -> Issue]
  /\ BatchSize \in Nat \ {0}
  /\ MaxAttempts \in Nat \ {0}
  /\ MaxCrashes \in Nat
  /\ SlowBatch \in BOOLEAN

VARIABLES
  row,           \* "none", "pending", "sent" or "discarded"
  attempts,      \* tracker_outbox.attempts
  leased,        \* claimed_at is within the lease window
  pc,            \* where the drain is: see OutboxTypeOK
  batch,         \* claimed rows the drain has not come to yet
  current,       \* the row being sent
  reached,       \* tracker: writes that arrived
  shown,         \* tracker: the last write an issue received, 0 for none
  crashes

outboxRowVars == <<row, attempts, leased>>
drainVars == <<pc, batch, current>>
outboxVars == <<row, attempts, leased, pc, batch, current, reached, shown, crashes>>

Enqueued == {i \in Row : row[i] # "none"}

\* The rows a drain has leased and not finished with.
Holds(d) == batch[d] \cup (IF pc[d] \in {"accepted", "refused"} THEN {current[d]} ELSE {})

OutboxTypeOK ==
  /\ row \in [Row -> {"none", "pending", "sent", "discarded"}]
  /\ attempts \in [Row -> Nat]
  /\ leased \in [Row -> BOOLEAN]
  /\ pc \in [Drainer -> {"idle", "claiming", "sending", "accepted", "refused"}]
  /\ batch \in [Drainer -> SUBSET Row]
  /\ \A d \in Drainer : /\ pc[d] \in {"idle", "claiming"} => batch[d] = {}
                        /\ pc[d] = "sending" => batch[d] # {}
  /\ current \in [Drainer -> Row \cup {0}]
  /\ reached \subseteq Row
  /\ shown \in [Issue -> Row \cup {0}]
  /\ crashes \in 0..MaxCrashes

OutboxInit ==
  /\ row = [i \in Row |-> "none"]
  /\ attempts = [i \in Row |-> 0]
  /\ leased = [i \in Row |-> FALSE]
  /\ pc = [d \in Drainer |-> "idle"]
  /\ batch = [d \in Drainer |-> {}]
  /\ current = [d \in Drainer |-> 0]
  /\ reached = {}
  /\ shown = [s \in Issue |-> 0]
  /\ crashes = 0

-----------------------------------------------------------------------------
\* A committed transition leaves the next row behind.
EnqueueOutbox(i) ==
  /\ row[i] = "none"
  /\ \A j \in Row : j < i => row[j] # "none"
  /\ row' = [row EXCEPT ![i] = "pending"]
  /\ UNCHANGED <<attempts, leased, drainVars, reached, shown, crashes>>

\* Mutant: one attempt more than the budget.
DiscardOneLate(d) ==
  /\ pc[d] = "idle"
  /\ row' = [i \in Row |-> IF row[i] = "pending" /\ attempts[i] > MaxAttempts
                           THEN "discarded" ELSE row[i]]
  /\ pc' = [pc EXCEPT ![d] = "claiming"]
  /\ UNCHANGED <<attempts, leased, batch, current, reached, shown, crashes>>

\* drain() first drops what is over budget, leased or not.
DiscardExhaustedOutbox(d) ==
  /\ pc[d] = "idle"
  /\ row' = [i \in Row |-> IF row[i] = "pending" /\ attempts[i] >= MaxAttempts
                           THEN "discarded" ELSE row[i]]
  /\ pc' = [pc EXCEPT ![d] = "claiming"]
  /\ UNCHANGED <<attempts, leased, batch, current, reached, shown, crashes>>

\* S is the oldest rows of the set P, up to the batch size.
Oldest(P, S) ==
  /\ S \subseteq P
  /\ \A i \in S, j \in P \ S : i < j
  /\ \/ Cardinality(S) = BatchSize
     \/ Cardinality(S) < BatchSize /\ S = P

\* Mutant: the claim does not look at the lease.
ClaimLeasedToo(d) ==
  /\ pc[d] = "claiming"
  /\ \E S \in SUBSET Row :
       /\ Oldest({i \in Row : row[i] = "pending"}, S)
       /\ leased' = [i \in Row |-> leased[i] \/ i \in S]
       /\ batch' = [batch EXCEPT ![d] = S]
       /\ pc' = [pc EXCEPT ![d] = IF S = {} THEN "idle" ELSE "sending"]
  /\ UNCHANGED <<row, attempts, current, reached, shown, crashes>>

\* One statement picks the oldest free rows and leases them.  Its RETURNING
\* has no order, so a batch is a set.
ClaimOutbox(d) ==
  /\ pc[d] = "claiming"
  /\ \E S \in SUBSET Row :
       /\ Oldest({i \in Row : row[i] = "pending" /\ ~leased[i]}, S)
       /\ leased' = [i \in Row |-> leased[i] \/ i \in S]
       /\ batch' = [batch EXCEPT ![d] = S]
       /\ pc' = [pc EXCEPT ![d] = IF S = {} THEN "idle" ELSE "sending"]
  /\ UNCHANGED <<row, attempts, current, reached, shown, crashes>>

\* The call to the tracker: the write arrives or not, and whatever arrived
\* may still be answered by a timeout.
Send(d, i) ==
  /\ pc[d] = "sending"
  /\ i \in batch[d]
  /\ batch' = [batch EXCEPT ![d] = @ \ {i}]
  /\ current' = [current EXCEPT ![d] = i]
  /\ \/ /\ reached' = reached \cup {i}
        /\ shown' = [shown EXCEPT ![IssueOf[i]] = i]
        /\ \E answer \in {"accepted", "refused"} : pc' = [pc EXCEPT ![d] = answer]
     \/ /\ pc' = [pc EXCEPT ![d] = "refused"]
        /\ UNCHANGED <<reached, shown>>
  /\ UNCHANGED <<outboxRowVars, crashes>>

\* Mutant: the loop over the batch returns after its first row.
StopAfterOne(d) == pc' = [pc EXCEPT ![d] = "idle"]

\* On to the next row of the batch.
Continue(d) ==
  pc' = [pc EXCEPT ![d] = IF batch[d] = {} THEN "idle" ELSE "sending"]

\* Mutant: the row is marked whatever the tracker answered.
MarkAnythingSent(d) ==
  /\ pc[d] \in {"accepted", "refused"}
  /\ row' = [row EXCEPT ![current[d]] = IF @ = "pending" THEN "sent" ELSE @]
  /\ Continue(d)
  /\ UNCHANGED <<attempts, leased, batch, current, reached, shown, crashes>>

\* By id: a row a peer discarded meanwhile is gone.  The lease stays.
MarkOutboxSent(d) ==
  /\ pc[d] = "accepted"
  /\ row' = [row EXCEPT ![current[d]] = IF @ = "pending" THEN "sent" ELSE @]
  /\ Continue(d)
  /\ UNCHANGED <<attempts, leased, batch, current, reached, shown, crashes>>

\* Mutant: a failure that is not counted.
MarkFailedUncounted(d) ==
  /\ pc[d] \in {"accepted", "refused"}
  /\ leased' = [leased EXCEPT ![current[d]] = FALSE]
  /\ Continue(d)
  /\ UNCHANGED <<row, attempts, batch, current, reached, shown, crashes>>

\* The catch: the tracker refused, or marking the row as sent threw.  A
\* recorded failure ends the lease.
MarkOutboxFailed(d) ==
  /\ pc[d] \in {"accepted", "refused"}
  /\ attempts' = [attempts EXCEPT ![current[d]] = IF row[current[d]] = "discarded" THEN @ ELSE @ + 1]
  /\ leased' = [leased EXCEPT ![current[d]] = FALSE]
  /\ Continue(d)
  /\ UNCHANGED <<row, batch, current, reached, shown, crashes>>

\* Time passes: the lease window of row i ends.
LeaseExpires(i) ==
  /\ leased[i]
  /\ SlowBatch \/ \A d \in Drainer : i \notin Holds(d)
  /\ leased' = [leased EXCEPT ![i] = FALSE]
  /\ UNCHANGED <<row, attempts, drainVars, reached, shown, crashes>>

\* The process dies, or recording a failure throws: drain() ends where it is
\* and its rows stay leased.
DrainDies(d) ==
  /\ crashes < MaxCrashes
  /\ pc[d] # "idle"
  /\ crashes' = crashes + 1
  /\ pc' = [pc EXCEPT ![d] = "idle"]
  /\ batch' = [batch EXCEPT ![d] = {}]
  /\ UNCHANGED <<outboxRowVars, current, reached, shown>>

Drain(d) ==
  \/ DiscardExhaustedOutbox(d)
  \/ ClaimOutbox(d)
  \/ \E i \in Row : Send(d, i)
  \/ MarkOutboxSent(d)
  \/ MarkOutboxFailed(d)

OutboxNext ==
  \/ \E i \in Row : EnqueueOutbox(i) \/ LeaseExpires(i)
  \/ \E d \in Drainer : Drain(d) \/ DrainDies(d)

OutboxSpec == OutboxInit /\ [][OutboxNext]_outboxVars

\* Every tick drains, a call to the tracker ends by its deadline, and a lease
\* expires.  Nothing is assumed of the tracker's answers or of crashes.
OutboxFairness ==
  /\ \A d \in Drainer : WF_outboxVars(Drain(d))
  /\ \A i \in Row : WF_outboxVars(LeaseExpires(i))

FairOutboxSpec == OutboxSpec /\ OutboxFairness

-----------------------------------------------------------------------------
\* A row is in the hands of one drain at a time, without a transaction held
\* open around the call: the claim that the lease "gives the same exclusion".
\* It rests on the lease outliving the batch (SlowBatch = FALSE).
OneSenderPerRow ==
  \A d, e \in Drainer : d # e => Holds(d) \cap Holds(e) = {}

\* The attempt budget is overrun by no more than the drains that were between
\* their discard and their send when a peer spent the last attempt.
BudgetOverrunBounded ==
  \A i \in Row : attempts[i] <= MaxAttempts + Cardinality(Drainer) - 1

\* The detailed outbox keeps the promise made for tracker writes.
Fate(i) ==
  CASE row[i] = "none" -> "undecided"
    [] row[i] = "pending" -> "owed"
    [] row[i] = "sent" -> "settled"
    [] row[i] = "discarded" -> "given_up"

Promise == INSTANCE TrackerWrites
  WITH Write <- Row, fate <- [i \in Row |-> Fate(i)], failures <- attempts

\* Nothing is marked sent that did not reach the tracker and nothing is
\* dropped before its budget, across crashes, lost answers and concurrent
\* drains.
KeepsPromise == Promise!Spec

\* An older write never lands on top of a newer one of the same issue, so the
\* tracker is left in the last state that was decided ("oldest first").
NewestWriteStays ==
  [][\A s \in Issue : shown'[s] >= shown[s]]_outboxVars

\* Every row is sent or given up in the end: a dying drainer costs a lease
\* window, a dead tracker costs the attempt budget.
EveryRowResolves ==
  \A i \in Row : row[i] = "pending" ~> row[i] \in {"sent", "discarded"}
=============================================================================

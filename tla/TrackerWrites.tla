---------------------------- MODULE TrackerWrites ----------------------------
(***************************************************************************)
(* What the outbox promises for the tracker writes of one workspace: a     *)
(* write that a transaction decided on is owed until it is settled, it is  *)
(* settled only after it reached the tracker, and it is given up only      *)
(* after the attempt budget was spent.  A write may reach the tracker more *)
(* than once, and even after it was given up: its sender may be slow.      *)
(***************************************************************************)
EXTENDS Naturals

CONSTANTS
  Write,         \* tracker writes
  MaxAttempts    \* tracker.outbox_max_attempts

VARIABLES
  fate,          \* "undecided", "owed", "settled" or "given_up"
  reached,       \* writes that reached the tracker at least once
  failures       \* how often sending a write was reported as failed

writeVars == <<fate, reached, failures>>

Init ==
  /\ fate = [w \in Write |-> "undecided"]
  /\ reached = {}
  /\ failures = [w \in Write |-> 0]

Decide(w) ==
  /\ fate[w] = "undecided"
  /\ fate' = [fate EXCEPT ![w] = "owed"]
  /\ UNCHANGED <<reached, failures>>

Reach(w) ==
  /\ fate[w] # "undecided"
  /\ reached' = reached \cup {w}
  /\ UNCHANGED <<fate, failures>>

Settle(w) ==
  /\ fate[w] = "owed"
  /\ w \in reached
  /\ fate' = [fate EXCEPT ![w] = "settled"]
  /\ UNCHANGED <<reached, failures>>

Fail(w) ==
  /\ fate[w] # "undecided"
  /\ failures' = [failures EXCEPT ![w] = @ + 1]
  /\ UNCHANGED <<fate, reached>>

\* One pass gives up everything that is over budget.
GiveUp ==
  /\ fate' = [w \in Write |-> IF fate[w] = "owed" /\ failures[w] >= MaxAttempts
                              THEN "given_up" ELSE fate[w]]
  /\ UNCHANGED <<reached, failures>>

Next ==
  \/ \E w \in Write : Decide(w) \/ Reach(w) \/ Settle(w) \/ Fail(w)
  \/ GiveUp

Spec == Init /\ [][Next]_writeVars
=============================================================================

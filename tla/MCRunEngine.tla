---------------------------- MODULE MCRunEngine ----------------------------
(* Finite instances of RunEngine for TLC.                                  *)
EXTENDS RunEngine, GraphChecks, TLC

CONSTANTS w, g, s, p1, p2

\* Work w beside a gate g; s comes after the gate.
BehindGate == [n \in Node |-> IF n = s THEN {g} ELSE {}]

AllSuccess == [n \in Node |-> "all_success"]

\* The gate may be reworked once, nothing else is a gate.
OneRework == [n \in Node |-> IF n = g THEN 1 ELSE 0]

\* Bound: the search goes no further from a state behind which lie a crash, a
\* shutdown and the rework of the gate that was raised last; each two of them
\* occur in every order.
TwoTroubles == crashes + shutdowns + gate.rework <= 2

\* No process has a role of its own.
Processes == Permutations(Proc)
=============================================================================

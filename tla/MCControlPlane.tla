--------------------------- MODULE MCControlPlane ---------------------------
(* Finite instances of ControlPlane for TLC.                               *)
EXTENDS ControlPlane, TLC

CONSTANTS k1, t1, t2, t3, d1, pass1, pass2

\* Every target belongs to the one ticket.
OneTicketOf == [t \in Target |-> k1]

\* The second repository waits for the first one.
Chain == [t \in Target |-> IF t = t2 THEN {t1} ELSE {}]

\* Repositories that wait for nothing, and are therefore interchangeable; so
\* are the passes.
NoDeps == [t \in Target |-> {}]
Interchangeable == Permutations(Target) \cup Permutations(Pass)

\* Operators answer no gate: an answer makes no target live, and every end it
\* brings a run to, a failed run brings too.
CeilingSpec == Init /\ [][Next /\ UNCHANGED <<decision, basis>>]_vars
=============================================================================

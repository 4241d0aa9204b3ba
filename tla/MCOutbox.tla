------------------------------ MODULE MCOutbox ------------------------------
(***************************************************************************)
(* Small instances of Outbox for TLC.                                      *)
(***************************************************************************)
EXTENDS Outbox

CONSTANTS d1, d2, s1

\* All rows write to one issue.
SameIssue == [i \in Row |-> s1]
=============================================================================

--------------------------- MODULE DocumentGraph ---------------------------
(***************************************************************************)
(* What the two searches of the validator find in a workflow document,     *)
(* said without the search: findCycle and ancestorsOf                      *)
(* (executor/engine/validate.ts).  Pure operators over depends_on, which   *)
(* may name nodes that the document does not have.  GraphChecks has the    *)
(* searches themselves and compares.                                       *)
(***************************************************************************)

\* Mutant of Cyclic: only two nodes that wait for each other are noticed.
CyclicInPairs(nodes, deps) ==
  \E n, m \in nodes : m \in deps[n] /\ n \in deps[m]

\* findCycle: some nodes of the document each wait for another of them.
Cyclic(nodes, deps) ==
  \E s \in SUBSET nodes : s # {} /\ \A n \in s : deps[n] \cap s # {}

\* Mutant of Upstream: edges are followed to the dependents.
Downstream(nodes, deps, n) == {m \in nodes : n \in deps[m]}

\* ancestorsOf: all that n waits for, directly or through others, which is what
\* is in every set that has what n waits for and what its members wait for.
Upstream(nodes, deps, n) ==
  LET named == UNION {deps[m] : m \in nodes}
  IN {a \in named :
        \A s \in SUBSET named :
          deps[n] \subseteq s /\ (\A m \in s \cap nodes : deps[m] \subseteq s) => a \in s}
=============================================================================

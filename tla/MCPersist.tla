----------------------------- MODULE MCPersist ------------------------------
(* An instance of Persist for TLC. *)
EXTENDS Persist, TLC

CONSTANTS k1, k2

MCKey == {k1, k2}

\* The query counts the inputs that are present.
MCEval(c) == Cardinality({k \in Key : c[k] # None})

Symmetry == Permutations(MCKey)
=============================================================================

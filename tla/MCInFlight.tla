----------------------------- MODULE MCInFlight -----------------------------
(* Instances of InFlight for TLC. *)
EXTENDS InFlight, TLC

CONSTANTS h1, h2, h3, k1, k2, e1, e2, e3

MCHolder == {h1, h2, h3}
MCKey == {k1, k2}
MCEntry == {e1, e2, e3}
TwoHolders == {h1, h2}
TwoEntries == {e1, e2}

\* Holders, keys and entries are interchangeable for the safety run.
Symmetry == Permutations(MCHolder) \union Permutations(MCKey)
=============================================================================

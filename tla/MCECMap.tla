------------------------------ MODULE MCECMap ------------------------------
(* Model values and bounds for model-checking ECMap. *)
EXTENDS ECMap, TLC

CONSTANTS n1, n2, k1, v1

TwoNodes   == {n1, n2}
OneKey     == {k1}
OneValue   == {v1}

NoFaults   == {}
Network    == {"lose", "ignore"}
AllFaults  == FaultKinds

Symmetry == Permutations(Nodes)

=============================================================================

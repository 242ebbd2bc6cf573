---------------------------- MODULE MCFlowTable ----------------------------
(* Model values and bounds for model-checking FlowTable. *)
EXTENDS FlowTable, TLC

CONSTANTS n1, n2, n3, r1, r2

TwoNodes   == {n1, n2}
ThreeNodes == {n1, n2, n3}
OneRule    == {r1}
TwoRules   == {r1, r2}

Adds    == {"add"}
Edits   == {"add", "update", "remove"}
Purges  == {"add", "purge"}

Symmetry == Permutations(Nodes)

=============================================================================

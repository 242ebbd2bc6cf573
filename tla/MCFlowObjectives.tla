-------------------------- MODULE MCFlowObjectives --------------------------
(* Objectives for model-checking FlowObjectives. *)
EXTENDS FlowObjectives

CONSTANTS f1, f2, n1, n2, sel, next, g

\* Two forwards of one queue that refer to group g, and two nexts of g's queue:
\* its creation and its removal.
Four      == {f1, f2, n1, n2}
BothKeys  == {sel, next}
OneGroup  == {g}

MCKeyOf  == [o \in Objectives |-> IF o \in {f1, f2} THEN sel ELSE next]
MCNextOf == [o \in Objectives |-> g]
MCOpOf   == [o \in Objectives |-> CASE o \in {f1, f2} -> "forward"
                                 [] o = n1 -> "add"
                                 [] o = n2 -> "remove"]

\* Bound: clients submit f1, n1 and n2, or f1, n1 and, after f1, f2.
ThreeOfThem ==
  f2 \in submitted' => f1 \in submitted' /\ n2 \notin submitted'

=============================================================================

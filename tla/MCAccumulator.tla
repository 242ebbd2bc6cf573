--------------------------- MODULE MCAccumulator ---------------------------
(* Items and kinds of task for model-checking Accumulator. *)
EXTENDS Accumulator

CONSTANTS i1, i2, i3

ThreeItems == {i1, i2, i3}

OnlyNow == {"now"}

=============================================================================

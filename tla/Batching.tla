------------------------------ MODULE Batching ------------------------------
(***************************************************************************)
(* What an Accumulator promises to those who add items to it: every item   *)
(* is handed on exactly once, in the order in which the items were added,  *)
(* in batches of one or more.                                              *)
(***************************************************************************)
EXTENDS Naturals, Sequences

CONSTANT Items

VARIABLES
  waiting,   \* items added and not handed on
  processed  \* items handed on

vars == <<waiting, processed>>

Init == waiting = << >> /\ processed = << >>

Add(i) ==
  /\ i \notin {waiting[j] : j \in 1..Len(waiting)}
  /\ i \notin {processed[j] : j \in 1..Len(processed)}
  /\ waiting' = Append(waiting, i)
  /\ UNCHANGED processed

\* A batch is what has waited longest.
ProcessBatch ==
  \E n \in 1..Len(waiting) :
    /\ processed' = processed \o SubSeq(waiting, 1, n)
    /\ waiting' = SubSeq(waiting, n + 1, Len(waiting))

Next == (\E i \in Items : Add(i)) \/ ProcessBatch

Spec == Init /\ [][Next]_vars

=============================================================================

---------------------------- MODULE BoundedFifo ----------------------------
(***************************************************************************)
(* What a blocking queue promises: values leave in the order they entered, *)
(* each exactly once, and no more than Limit are inside.                   *)
(***************************************************************************)
EXTENDS Integers, Sequences

CONSTANTS Limit, Value

VARIABLES entered, left  \* values that entered and that left, in order

Inside == Len(entered) - Len(left)

Init == entered = <<>> /\ left = <<>>

Enter ==
  /\ Inside < Limit
  /\ entered' \in {Append(entered, v) : v \in Value}
  /\ UNCHANGED left

Leave ==
  /\ Inside > 0
  /\ left' = Append(left, entered[Len(left) + 1])
  /\ UNCHANGED entered

Next == Enter \/ Leave

Spec == Init /\ [][Next]_<<entered, left>>
=============================================================================

------------------------------ MODULE Pipeline ------------------------------
(***************************************************************************)
(* main, two stages and the two bounded queues between them; a sentinel    *)
(* that main sends last stops the stages (bloque05,                        *)
(* e10_pipeline_multietapa).                                               *)
(*                                                                         *)
(* A step of a thread is what it does from lock, or from a wake-up, to     *)
(* unlock or to its next wait.                                             *)
(***************************************************************************)
EXTENDS RingBuffer, Condition, FiniteSets

CONSTANTS Items  \* ITEMS

ASSUME ItemsAssumption == Items \in Nat

SENTINEL == -1
None == -2      \* a stage that holds nothing

Thread == {"main", "stage1", "stage2"}
Conditions == {"in_not_empty", "in_not_full", "mid_not_empty", "mid_not_full"}

VARIABLES
  q_in, q_mid,
  state,      \* of the threads, see Condition
  i,          \* the next value of main; Items + 1 for the sentinel
  y,          \* what stage1 has to push
  z,          \* what stage2 has to add
  final_sum, final_count

vars == <<q_in, q_mid, state, i, y, z, final_sum, final_count>>

Init ==
  /\ q_in = EmptyRing /\ q_mid = EmptyRing
  /\ state = [t \in Thread |-> "ready"]
  /\ i = 1
  /\ y = None /\ z = None
  /\ final_sum = 0 /\ final_count = 0

\* The n-th value main pushes.
FeedValue(n) == IF n <= Items THEN n ELSE SENTINEL

\* main: queue_push(&q_in, ...).
Feed ==
  /\ state["main"] = "ready" /\ i <= Items + 1
  /\ IF Full(q_in)
     THEN /\ state' = Waits(state, "main", "in_not_full")
          /\ UNCHANGED <<q_in, i>>
     ELSE /\ q_in' = Push(q_in, FeedValue(i))
          /\ i' = i + 1
          /\ state' \in AfterSignal(state, "in_not_empty")
  /\ UNCHANGED <<q_mid, y, z, final_sum, final_count>>

\* stage1: what it sends on for x.
Stage1Value(x) == IF x = SENTINEL THEN SENTINEL ELSE 2 * x

\* stage1: queue_pop(&q_in).
Stage1Pop ==
  /\ state["stage1"] = "ready" /\ y = None
  /\ IF Empty(q_in)
     THEN /\ state' = Waits(state, "stage1", "in_not_empty")
          /\ UNCHANGED <<q_in, y>>
     ELSE /\ y' = Stage1Value(Front(q_in))
          /\ q_in' = Pop(q_in)
          /\ state' \in AfterSignal(state, "in_not_full")
  /\ UNCHANGED <<q_mid, i, z, final_sum, final_count>>

\* A slip of Stage1Push: a full queue is not waited for.
Stage1PushAnyway ==
  /\ state["stage1"] = "ready" /\ y # None
  /\ q_mid' = IF Full(q_mid) THEN q_mid ELSE Push(q_mid, y)
  /\ y' = None
  /\ \E s \in AfterSignal(state, "mid_not_empty") :
       state' = IF y = SENTINEL THEN [s EXCEPT !["stage1"] = "done"] ELSE s
  /\ UNCHANGED <<q_in, i, z, final_sum, final_count>>

\* stage1: queue_push(&q_mid, ...), and its end after the sentinel.
Stage1Push ==
  /\ state["stage1"] = "ready" /\ y # None
  /\ IF Full(q_mid)
     THEN /\ state' = Waits(state, "stage1", "mid_not_full")
          /\ UNCHANGED <<q_mid, y>>
     ELSE /\ q_mid' = Push(q_mid, y)
          /\ y' = None
          /\ \E s \in AfterSignal(state, "mid_not_empty") :
               state' = IF y = SENTINEL THEN [s EXCEPT !["stage1"] = "done"] ELSE s
  /\ UNCHANGED <<q_in, i, z, final_sum, final_count>>

\* stage2: queue_pop(&q_mid), and its end at the sentinel.
Stage2Pop ==
  /\ state["stage2"] = "ready" /\ z = None
  /\ IF Empty(q_mid)
     THEN /\ state' = Waits(state, "stage2", "mid_not_empty")
          /\ UNCHANGED <<q_mid, z>>
     ELSE LET v == Front(q_mid) IN
          /\ q_mid' = Pop(q_mid)
          /\ z' = IF v = SENTINEL THEN None ELSE v + 1
          /\ \E s \in AfterSignal(state, "mid_not_full") :
               state' = IF v = SENTINEL THEN [s EXCEPT !["stage2"] = "done"] ELSE s
  /\ UNCHANGED <<q_in, i, y, final_sum, final_count>>

\* stage2: the totals, under stats_m.
Add ==
  /\ z # None
  /\ final_sum' = final_sum + z
  /\ final_count' = final_count + 1
  /\ z' = None
  /\ UNCHANGED <<q_in, q_mid, state, i, y>>

\* A wait that ends without a signal.
Spurious(t) ==
  /\ state[t] \in Conditions
  /\ state' = [state EXCEPT ![t] = "ready"]
  /\ UNCHANGED <<q_in, q_mid, i, y, z, final_sum, final_count>>

\* main, after its last push and both joins.
Join ==
  /\ state["main"] = "ready" /\ i = Items + 2
  /\ state["stage1"] = "done" /\ state["stage2"] = "done"
  /\ state' = [state EXCEPT !["main"] = "done"]
  /\ UNCHANGED <<q_in, q_mid, i, y, z, final_sum, final_count>>

Ended == state["main"] = "done" /\ UNCHANGED vars

Next ==
  \/ Feed \/ Join
  \/ Stage1Pop \/ Stage1Push
  \/ Stage2Pop \/ Add
  \/ \E t \in Thread : Spurious(t)
  \/ Ended

Spec == Init /\ [][Next]_vars

\* Every thread that is ready gets the locks and the processor.
FairSpec ==
  /\ Spec
  /\ WF_vars(Feed \/ Join)
  /\ WF_vars(Stage1Pop \/ Stage1Push)
  /\ WF_vars(Stage2Pop \/ Add)

-----------------------------------------------------------------------------

\* The number a value of q_mid was made from.
Origin(v) == IF v = SENTINEL THEN SENTINEL ELSE v \div 2

\* All that is between main and the totals, oldest first, as the numbers main
\* pushed.
InFlight ==
  LET mid == Contents(q_mid) IN
    (IF z = None THEN <<>> ELSE <<Origin(z - 1)>>)
    \o [k \in 1 .. Len(mid) |-> Origin(mid[k])]
    \o (IF y = None THEN <<>> ELSE <<Origin(y)>>)
    \o Contents(q_in)

\* Nothing overtakes, is lost or is doubled on the way through two queues and
\* two stages: what stage2 has added and what is in flight is what main has
\* pushed, in its order, with the sentinel behind all of it; a stage stops only
\* when everything has gone through, so main's own check of the totals holds.
StreamInOrder ==
  /\ final_sum = final_count * (final_count + 2)
  /\ LET ended == IF state["stage2"] = "done" THEN 1 ELSE 0 IN
     /\ Len(InFlight) = i - 1 - final_count - ended
     /\ \A k \in 1 .. Len(InFlight) :
          InFlight[k] = IF final_count + k <= Items THEN final_count + k ELSE SENTINEL
  /\ state["stage2"] = "done" => state["stage1"] = "done" /\ final_count = Items

\* The pipeline drains and main joins both stages.
PipelineEnds == <>(state["main"] = "done")
=============================================================================

--------------------------- MODULE ProgramProofs ---------------------------
(***************************************************************************)
(* Theorems about the programs of module Programs, for any number of items *)
(* and threads, any length of the queues, any file and any trees.          *)
(***************************************************************************)
EXTENDS Programs, SequenceTheorems, Capacity

-----------------------------------------------------------------------------
(* The pipeline.                                                           *)

InLine == Contents(q_in)
MidLine == Contents(q_mid)

\* How many values stage2 has taken, stage1 has sent on and stage1 has taken.
Taken2 ==
  final_count + (IF z = None THEN 0 ELSE 1) + (IF state["stage2"] = "done" THEN 1 ELSE 0)
Sent1 == Taken2 + Len(MidLine)
Taken1 == Sent1 + (IF y = None THEN 0 ELSE 1)

PTypeInv ==
  /\ HoldsLine(q_in) /\ HoldsLine(q_mid)
  /\ state \in [Thread -> Conditions \cup {"ready", "done"}]
  /\ i \in 1 .. Items + 2 /\ y \in Int /\ z \in Int
  /\ final_count \in Nat /\ final_sum \in Nat

\* Where each value is that main has pushed.
StreamInv ==
  /\ i = Taken1 + Len(InLine) + 1
  /\ \A k \in 1 .. Len(InLine) : InLine[k] = FeedValue(Taken1 + k)
  /\ y # None => y = Stage1Value(FeedValue(Taken1))
  /\ \A k \in 1 .. Len(MidLine) : MidLine[k] = Stage1Value(FeedValue(Taken2 + k))
  /\ z # None => z = 2 * (final_count + 1) + 1 /\ final_count < Items

\* A stage stops behind the sentinel; the sum is that of the first odd numbers
\* after 1.
StopInv ==
  /\ state["stage1"] = "done" <=> Sent1 = Items + 1
  /\ state["stage2"] = "done" => z = None /\ final_count = Items
  /\ final_sum = final_count * (final_count + 2)

PInv == PTypeInv /\ StreamInv /\ StopInv

LEMMA PipelineInit == Init => PInv
<1> SUFFICES ASSUME Init PROVE PInv
  OBVIOUS
<1>1. Contents(EmptyRing) = <<>> /\ HoldsLine(EmptyRing)
  BY EmptyLine DEF HoldsLine
<1>2. InLine = <<>> /\ MidLine = <<>> /\ Len(InLine) = 0 /\ Len(MidLine) = 0
  BY <1>1 DEF Init, InLine, MidLine
<1>3. /\ state["stage1"] = "ready" /\ state["stage2"] = "ready"
      /\ y = None /\ z = None /\ i = 1 /\ final_sum = 0 /\ final_count = 0
  BY DEF Init, Thread
<1>4. Taken2 = 0 /\ Sent1 = 0 /\ Taken1 = 0
  BY <1>2, <1>3 DEF Taken2, Sent1, Taken1
<1>5. PTypeInv
  BY <1>1, <1>3, ItemsAssumption DEF Init, PTypeInv, None
<1>6. StreamInv
  BY <1>2, <1>3, <1>4 DEF StreamInv
<1>7. StopInv
  BY <1>3, <1>4, ItemsAssumption DEF StopInv
<1>. QED
  BY <1>5, <1>6, <1>7 DEF PInv

\* A wait, a signal and a wake-up change neither the type of the states nor who
\* is done.
SameDone ==
  \A t \in Thread : state'[t] = "done" <=> state[t] = "done"

LEMMA SignalKeeps ==
  ASSUME PTypeInv, NEW cv \in Conditions, NEW s \in AfterSignal(state, cv)
  PROVE  /\ s \in [Thread -> Conditions \cup {"ready", "done"}]
         /\ \A t \in Thread : s[t] = "done" <=> state[t] = "done"
<1>1. \/ s = state
      \/ \E t \in Thread : state[t] = cv /\ s = [state EXCEPT ![t] = "ready"]
  BY DEF AfterSignal, Asleep, PTypeInv
<1>2. cv # "done"
  BY DEF Conditions
<1>. QED
  BY <1>1, <1>2 DEF PTypeInv

LEMMA WaitKeeps ==
  ASSUME PTypeInv, NEW cv \in Conditions, NEW u \in Thread, state[u] = "ready"
  PROVE  /\ Waits(state, u, cv) \in [Thread -> Conditions \cup {"ready", "done"}]
         /\ \A t \in Thread : Waits(state, u, cv)[t] = "done" <=> state[t] = "done"
<1>1. cv # "done"
  BY DEF Conditions
<1>. QED
  BY <1>1 DEF Waits, PTypeInv

LEMMA CountFacts ==
  ASSUME PInv
  PROVE  /\ Len(InLine) \in Nat /\ Len(MidLine) \in Nat
         /\ Taken2 \in Nat /\ Sent1 \in Nat /\ Taken1 \in Nat
         /\ Items \in Nat /\ i \in Nat /\ i <= Items + 2
         /\ final_count \in Nat /\ y \in Int /\ z \in Int
         /\ InLine \in Seq(Int) /\ MidLine \in Seq(Int)
         /\ Taken1 + Len(InLine) <= Items + 1
<1>1. InLine \in Seq(Int) /\ MidLine \in Seq(Int)
  BY DEF PInv, PTypeInv, HoldsLine, InLine, MidLine
<1>2. Len(InLine) \in Nat /\ Len(MidLine) \in Nat
  BY <1>1
<1>3. /\ Items \in Nat /\ i \in Nat /\ i <= Items + 2
      /\ final_count \in Nat /\ y \in Int /\ z \in Int
  BY ItemsAssumption DEF PInv, PTypeInv
<1>4. Taken2 \in Nat
  BY <1>3 DEF Taken2
<1>5. Sent1 \in Nat
  BY <1>2, <1>4 DEF Sent1
<1>6. Taken1 \in Nat
  BY <1>5 DEF Taken1
<1>7. i = Taken1 + Len(InLine) + 1
  BY DEF PInv, StreamInv
<1>. QED
  BY <1>1, <1>2, <1>3, <1>4, <1>5, <1>6, <1>7

\* What main and stage1 send are numbers and, behind them, the sentinel.
LEMMA ValueFacts ==
  ASSUME NEW n \in Nat \ {0}
  PROVE  /\ FeedValue(n) \in Int /\ Stage1Value(FeedValue(n)) \in Int
         /\ FeedValue(n) = SENTINEL <=> n > Items
         /\ Stage1Value(FeedValue(n)) = SENTINEL <=> n > Items
         /\ Stage1Value(FeedValue(n)) # None
         /\ n <= Items => FeedValue(n) = n /\ Stage1Value(FeedValue(n)) = 2 * n
BY ItemsAssumption DEF FeedValue, Stage1Value, SENTINEL, None

\* A step that leaves the queues and the stages' values alone.
LEMMA QuietStep ==
  ASSUME PInv, state' \in [Thread -> Conditions \cup {"ready", "done"}], SameDone,
         UNCHANGED <<q_in, q_mid, i, y, z, final_sum, final_count>>
  PROVE  PInv'
<1>1. InLine' = InLine /\ MidLine' = MidLine
  BY DEF InLine, MidLine
<1>2. /\ state'["stage1"] = "done" <=> state["stage1"] = "done"
      /\ state'["stage2"] = "done" <=> state["stage2"] = "done"
  BY DEF SameDone, Thread
<1>3. Taken2' = Taken2
  BY <1>2 DEF Taken2
<1>4. Sent1' = Sent1
  BY <1>1, <1>3 DEF Sent1
<1>5. Taken1' = Taken1
  BY <1>4 DEF Taken1
<1>6. PTypeInv'
  BY DEF PInv, PTypeInv
<1>7. StreamInv'
  BY <1>1, <1>3, <1>5 DEF PInv, StreamInv
<1>8. StopInv'
  BY <1>2, <1>4 DEF PInv, StopInv
<1>. QED
  BY <1>6, <1>7, <1>8 DEF PInv

\* main's next value is the one that follows all that has been sent.
LEMMA FeedStep ==
  ASSUME PInv, Feed PROVE PInv'
<1>0. PTypeInv /\ StreamInv /\ StopInv
  BY DEF PInv
<1>c. /\ Len(InLine) \in Nat /\ Len(MidLine) \in Nat
      /\ Taken2 \in Nat /\ Sent1 \in Nat /\ Taken1 \in Nat
      /\ Items \in Nat /\ i \in Nat /\ final_count \in Nat /\ y \in Int
      /\ Taken1 + Len(InLine) <= Items + 1
  BY CountFacts
<1>s. InLine \in Seq(Int) /\ MidLine \in Seq(Int)
  BY CountFacts
<1>1. CASE Full(q_in)
  <2>1. state' = Waits(state, "main", "in_not_full") /\ state["main"] = "ready"
    BY <1>1 DEF Feed
  <2>2. state' \in [Thread -> Conditions \cup {"ready", "done"}] /\ SameDone
    BY <1>0, <2>1, WaitKeeps DEF SameDone, Conditions, Thread
  <2>. QED
    BY <1>1, <2>2, QuietStep DEF Feed
<1>2. CASE ~Full(q_in)
  <2>1. /\ i <= Items + 1 /\ q_in' = Push(q_in, FeedValue(i)) /\ i' = i + 1
        /\ state' \in AfterSignal(state, "in_not_empty")
        /\ UNCHANGED <<q_mid, y, z, final_sum, final_count>>
    BY <1>2 DEF Feed
  <2>2. state' \in [Thread -> Conditions \cup {"ready", "done"}] /\ SameDone
    BY <1>0, <2>1, SignalKeeps DEF SameDone, Conditions
  <2>3. /\ state'["stage1"] = "done" <=> state["stage1"] = "done"
        /\ state'["stage2"] = "done" <=> state["stage2"] = "done"
    BY <2>2 DEF SameDone, Thread
  <2>4. i \in Nat \ {0} /\ FeedValue(i) \in Int
    BY <1>0, ItemsAssumption, ValueFacts DEF PTypeInv
  <2>5. HoldsLine(q_in') /\ InLine' = Append(InLine, FeedValue(i))
    BY <1>0, <1>2, <2>1, <2>4, PushContents DEF PTypeInv, InLine
  <2>6. MidLine' = MidLine
    BY <2>1 DEF MidLine
  <2>7. Taken2' = Taken2
    BY <2>1, <2>3 DEF Taken2
  <2>8. Sent1' = Sent1
    BY <2>6, <2>7 DEF Sent1
  <2>9. Taken1' = Taken1
    BY <2>1, <2>8 DEF Taken1
  <2>10. PTypeInv'
    BY <1>0, <2>1, <2>2, <2>5, ItemsAssumption DEF PTypeInv
  <2>11. /\ Len(InLine') = Len(InLine) + 1
         /\ \A k \in 1 .. Len(InLine') :
              InLine'[k] = IF k <= Len(InLine) THEN InLine[k] ELSE FeedValue(i)
    BY <2>5, <1>c, <1>s
  <2>12. i' = Taken1' + Len(InLine') + 1
    BY <1>0, <2>1, <2>9, <2>11, <1>c DEF StreamInv
  <2>13. \A k \in 1 .. Len(InLine') : InLine'[k] = FeedValue(Taken1' + k)
    <3> SUFFICES ASSUME NEW k \in 1 .. Len(InLine')
                 PROVE  InLine'[k] = FeedValue(Taken1 + k)
      BY <2>9
    <3>1. CASE k <= Len(InLine)
      <4>1. k \in 1 .. Len(InLine)
        BY <2>11, <3>1, <1>c
      <4>2. InLine[k] = FeedValue(Taken1 + k)
        BY <1>0, <4>1 DEF StreamInv
      <4>. QED
        BY <2>11, <3>1, <4>2
    <3>2. CASE k = Len(InLine) + 1
      <4>1. Taken1 + k = i
        BY <1>0, <3>2, <1>c DEF StreamInv
      <4>. QED
        BY <2>11, <3>2, <4>1, <1>c
    <3>. QED
      BY <2>11, <3>1, <3>2, <1>c
  <2>14. StreamInv'
    BY <1>0, <2>1, <2>6, <2>7, <2>9, <2>12, <2>13 DEF StreamInv
  <2>15. StopInv'
    BY <1>0, <2>1, <2>3, <2>8 DEF StopInv
  <2>. QED
    BY <2>10, <2>14, <2>15 DEF PInv
<1>. QED
  BY <1>1, <1>2

\* stage1 takes the oldest value of main's.
LEMMA Stage1PopStep ==
  ASSUME PInv, Stage1Pop PROVE PInv'
<1>0. PTypeInv /\ StreamInv /\ StopInv
  BY DEF PInv
<1>c. /\ Len(InLine) \in Nat /\ Len(MidLine) \in Nat
      /\ Taken2 \in Nat /\ Sent1 \in Nat /\ Taken1 \in Nat
      /\ Items \in Nat /\ i \in Nat /\ final_count \in Nat /\ y \in Int
      /\ Taken1 + Len(InLine) <= Items + 1
  BY CountFacts
<1>s. InLine \in Seq(Int) /\ MidLine \in Seq(Int)
  BY CountFacts
<1>1. CASE Empty(q_in)
  <2>1. state' = Waits(state, "stage1", "in_not_empty") /\ state["stage1"] = "ready"
    BY <1>1 DEF Stage1Pop
  <2>2. state' \in [Thread -> Conditions \cup {"ready", "done"}] /\ SameDone
    BY <1>0, <2>1, WaitKeeps DEF SameDone, Conditions, Thread
  <2>. QED
    BY <1>1, <2>2, QuietStep DEF Stage1Pop
<1>2. CASE ~Empty(q_in)
  <2>1. /\ y = None /\ y' = Stage1Value(Front(q_in)) /\ q_in' = Pop(q_in)
        /\ state' \in AfterSignal(state, "in_not_full")
        /\ UNCHANGED <<q_mid, i, z, final_sum, final_count>>
    BY <1>2 DEF Stage1Pop
  <2>2. state' \in [Thread -> Conditions \cup {"ready", "done"}] /\ SameDone
    BY <1>0, <2>1, SignalKeeps DEF SameDone, Conditions
  <2>3. /\ state'["stage1"] = "done" <=> state["stage1"] = "done"
        /\ state'["stage2"] = "done" <=> state["stage2"] = "done"
    BY <2>2 DEF SameDone, Thread
  <2>4. /\ Len(InLine) > 0 /\ Front(q_in) = InLine[1]
        /\ HoldsLine(q_in') /\ InLine' = Tail(InLine)
    BY <1>0, <1>2, <2>1, PopContents DEF PTypeInv, InLine
  <2>5. MidLine' = MidLine
    BY <2>1 DEF MidLine
  <2>6. Taken2' = Taken2
    BY <2>1, <2>3 DEF Taken2
  <2>7. Sent1' = Sent1
    BY <2>5, <2>6 DEF Sent1
  <2>8. InLine[1] = FeedValue(Taken1 + 1)
    BY <1>0, <2>4, <1>c DEF StreamInv
  <2>9. y' = Stage1Value(FeedValue(Taken1 + 1)) /\ y' # None /\ y' \in Int
    BY <2>1, <2>4, <2>8, <1>c, ValueFacts
  <2>10. Taken1 = Sent1 /\ Taken1' = Taken1 + 1
    BY <2>1, <2>7, <2>9, <1>c DEF Taken1
  <2>11. PTypeInv'
    BY <1>0, <2>1, <2>2, <2>4, <2>9 DEF PTypeInv
  <2>12. /\ Len(InLine') = Len(InLine) - 1
         /\ \A k \in 1 .. Len(InLine') : InLine'[k] = InLine[k + 1]
    BY <2>4, <1>c, <1>s
  <2>13. i' = Taken1' + Len(InLine') + 1
    BY <1>0, <2>1, <2>10, <2>12, <1>c DEF StreamInv
  <2>14. \A k \in 1 .. Len(InLine') : InLine'[k] = FeedValue(Taken1' + k)
    <3> SUFFICES ASSUME NEW k \in 1 .. Len(InLine')
                 PROVE  InLine'[k] = FeedValue(Taken1' + k)
      OBVIOUS
    <3>1. k + 1 \in 1 .. Len(InLine) /\ Taken1' + k = Taken1 + (k + 1)
      BY <2>10, <2>12, <1>c
    <3>. QED
      BY <1>0, <2>12, <3>1 DEF StreamInv
  <2>15. StreamInv'
    BY <1>0, <2>1, <2>5, <2>6, <2>9, <2>10, <2>13, <2>14 DEF StreamInv
  <2>16. StopInv'
    BY <1>0, <2>1, <2>3, <2>7 DEF StopInv
  <2>. QED
    BY <2>11, <2>15, <2>16 DEF PInv
<1>. QED
  BY <1>1, <1>2

\* stage1 sends on what it has taken; behind the sentinel it stops.
LEMMA Stage1PushStep ==
  ASSUME PInv, Stage1Push PROVE PInv'
<1>0. PTypeInv /\ StreamInv /\ StopInv
  BY DEF PInv
<1>c. /\ Len(InLine) \in Nat /\ Len(MidLine) \in Nat
      /\ Taken2 \in Nat /\ Sent1 \in Nat /\ Taken1 \in Nat
      /\ Items \in Nat /\ i \in Nat /\ final_count \in Nat /\ y \in Int
      /\ Taken1 + Len(InLine) <= Items + 1
  BY CountFacts
<1>s. InLine \in Seq(Int) /\ MidLine \in Seq(Int)
  BY CountFacts
<1>1. CASE Full(q_mid)
  <2>1. state' = Waits(state, "stage1", "mid_not_full") /\ state["stage1"] = "ready"
    BY <1>1 DEF Stage1Push
  <2>2. state' \in [Thread -> Conditions \cup {"ready", "done"}] /\ SameDone
    BY <1>0, <2>1, WaitKeeps DEF SameDone, Conditions, Thread
  <2>. QED
    BY <1>1, <2>2, QuietStep DEF Stage1Push
<1>2. CASE ~Full(q_mid)
  <2>1. /\ state["stage1"] = "ready" /\ y # None
        /\ q_mid' = Push(q_mid, y) /\ y' = None
        /\ UNCHANGED <<q_in, i, z, final_sum, final_count>>
    BY <1>2 DEF Stage1Push
  <2>2. PICK s \in AfterSignal(state, "mid_not_empty") :
          state' = IF y = SENTINEL THEN [s EXCEPT !["stage1"] = "done"] ELSE s
    BY <1>2 DEF Stage1Push
  <2>3. /\ s \in [Thread -> Conditions \cup {"ready", "done"}]
        /\ \A t \in Thread : s[t] = "done" <=> state[t] = "done"
    BY <1>0, SignalKeeps DEF Conditions
  <2>4. /\ state' \in [Thread -> Conditions \cup {"ready", "done"}]
        /\ state'["stage1"] = "done" <=> y = SENTINEL
        /\ state'["stage2"] = "done" <=> state["stage2"] = "done"
    BY <2>1, <2>2, <2>3 DEF Thread
  <2>5. HoldsLine(q_mid') /\ MidLine' = Append(MidLine, y)
    BY <1>0, <1>2, <2>1, PushContents DEF PTypeInv, MidLine
  <2>6. InLine' = InLine
    BY <2>1 DEF InLine
  <2>7. Taken2' = Taken2
    BY <2>1, <2>4 DEF Taken2
  <2>8. /\ Len(MidLine') = Len(MidLine) + 1
        /\ \A k \in 1 .. Len(MidLine') :
             MidLine'[k] = IF k <= Len(MidLine) THEN MidLine[k] ELSE y
    BY <2>5, <1>c, <1>s
  <2>9. Sent1' = Sent1 + 1 /\ Taken1 = Sent1 + 1
    BY <2>1, <2>7, <2>8, <1>c DEF Sent1, Taken1
  <2>10. Taken1' = Taken1
    BY <2>1, <2>9 DEF Taken1
  <2>11. y = Stage1Value(FeedValue(Taken1)) /\ (y = SENTINEL <=> Taken1 > Items)
    <3>1. Taken1 \in Nat \ {0} /\ y = Stage1Value(FeedValue(Taken1))
      BY <1>0, <2>1, <2>9, <1>c DEF StreamInv
    <3>. QED
      BY <3>1, ValueFacts
  <2>12. PTypeInv'
    BY <1>0, <2>1, <2>4, <2>5 DEF PTypeInv, None
  <2>13. \A k \in 1 .. Len(MidLine') : MidLine'[k] = Stage1Value(FeedValue(Taken2' + k))
    <3> SUFFICES ASSUME NEW k \in 1 .. Len(MidLine')
                 PROVE  MidLine'[k] = Stage1Value(FeedValue(Taken2 + k))
      BY <2>7
    <3>1. CASE k <= Len(MidLine)
      BY <1>0, <2>8, <3>1, <1>c DEF StreamInv
    <3>2. CASE k = Len(MidLine) + 1
      <4>1. Taken2 + k = Taken1
        BY <2>9, <3>2, <1>c DEF Sent1
      <4>. QED
        BY <2>8, <2>11, <3>2, <4>1, <1>c
    <3>. QED
      BY <2>8, <3>1, <3>2, <1>c
  <2>14. StreamInv'
    BY <1>0, <2>1, <2>6, <2>7, <2>10, <2>13 DEF StreamInv
  <2>15. state'["stage1"] = "done" <=> Sent1' = Items + 1
    BY <2>4, <2>9, <2>11, <1>c
  <2>16. StopInv'
    BY <1>0, <2>1, <2>4, <2>15 DEF StopInv
  <2>. QED
    BY <2>12, <2>14, <2>16 DEF PInv
<1>. QED
  BY <1>1, <1>2

\* stage2 takes the oldest value of stage1's.
LEMMA Stage2PopStep ==
  ASSUME PInv, Stage2Pop PROVE PInv'
<1>0. PTypeInv /\ StreamInv /\ StopInv
  BY DEF PInv
<1>c. /\ Len(InLine) \in Nat /\ Len(MidLine) \in Nat
      /\ Taken2 \in Nat /\ Sent1 \in Nat /\ Taken1 \in Nat
      /\ Items \in Nat /\ i \in Nat /\ final_count \in Nat /\ y \in Int
      /\ Taken1 + Len(InLine) <= Items + 1
  BY CountFacts
<1>s. InLine \in Seq(Int) /\ MidLine \in Seq(Int)
  BY CountFacts
<1>1. CASE Empty(q_mid)
  <2>1. state' = Waits(state, "stage2", "mid_not_empty") /\ state["stage2"] = "ready"
    BY <1>1 DEF Stage2Pop
  <2>2. state' \in [Thread -> Conditions \cup {"ready", "done"}] /\ SameDone
    BY <1>0, <2>1, WaitKeeps DEF SameDone, Conditions, Thread
  <2>. QED
    BY <1>1, <2>2, QuietStep DEF Stage2Pop
<1>2. CASE ~Empty(q_mid)
  <2> DEFINE v == Front(q_mid)
  <2>1. /\ state["stage2"] = "ready" /\ z = None /\ q_mid' = Pop(q_mid)
        /\ z' = IF v = SENTINEL THEN None ELSE v + 1
        /\ UNCHANGED <<q_in, i, y, final_sum, final_count>>
    BY <1>2 DEF Stage2Pop
  <2>2. PICK s \in AfterSignal(state, "mid_not_full") :
          state' = IF v = SENTINEL THEN [s EXCEPT !["stage2"] = "done"] ELSE s
    BY <1>2 DEF Stage2Pop
  <2>3. /\ s \in [Thread -> Conditions \cup {"ready", "done"}]
        /\ \A t \in Thread : s[t] = "done" <=> state[t] = "done"
    BY <1>0, SignalKeeps DEF Conditions
  <2>4. /\ state' \in [Thread -> Conditions \cup {"ready", "done"}]
        /\ state'["stage1"] = "done" <=> state["stage1"] = "done"
        /\ state'["stage2"] = "done" <=> v = SENTINEL
    BY <2>1, <2>2, <2>3 DEF Thread
  <2>5. /\ Len(MidLine) > 0 /\ v = MidLine[1]
        /\ HoldsLine(q_mid') /\ MidLine' = Tail(MidLine)
    BY <1>0, <1>2, <2>1, PopContents DEF PTypeInv, MidLine
  <2> HIDE DEF v
  <2>6. InLine' = InLine
    BY <2>1 DEF InLine
  <2>7. Taken2 = final_count
    BY <2>1, <1>c DEF Taken2
  <2>8. v = Stage1Value(FeedValue(final_count + 1))
    BY <1>0, <2>5, <2>7, <1>c DEF StreamInv
  <2>9. final_count + 1 <= Items + 1
    BY <2>5, <2>7, <1>c DEF Sent1, Taken1
  <2>10. /\ v \in Int
         /\ v = SENTINEL <=> final_count = Items
         /\ v # SENTINEL => v = 2 * (final_count + 1) /\ final_count < Items
    BY <2>8, <2>9, <1>c, ValueFacts
  <2>11. /\ z' \in Int
         /\ z' = None <=> v = SENTINEL
         /\ z' # None => z' = 2 * (final_count + 1) + 1 /\ final_count < Items
    BY <2>1, <2>10, <1>c DEF None
  <2>12. Taken2' = Taken2 + 1
    BY <2>1, <2>4, <2>7, <2>11, <1>c DEF Taken2
  <2>13. /\ Len(MidLine') = Len(MidLine) - 1
         /\ \A k \in 1 .. Len(MidLine') : MidLine'[k] = MidLine[k + 1]
    BY <2>5, <1>c, <1>s
  <2>14. Sent1' = Sent1
    BY <2>12, <2>13, <1>c DEF Sent1
  <2>15. Taken1' = Taken1
    BY <2>1, <2>14 DEF Taken1
  <2>16. PTypeInv'
    BY <1>0, <2>1, <2>4, <2>5, <2>11 DEF PTypeInv
  <2>17. \A k \in 1 .. Len(MidLine') : MidLine'[k] = Stage1Value(FeedValue(Taken2' + k))
    <3> SUFFICES ASSUME NEW k \in 1 .. Len(MidLine')
                 PROVE  MidLine'[k] = Stage1Value(FeedValue(Taken2' + k))
      OBVIOUS
    <3>1. k + 1 \in 1 .. Len(MidLine) /\ Taken2' + k = Taken2 + (k + 1)
      BY <2>12, <2>13, <1>c
    <3>. QED
      BY <1>0, <2>13, <3>1 DEF StreamInv
  <2>18. StreamInv'
    BY <1>0, <2>1, <2>6, <2>11, <2>15, <2>17 DEF StreamInv
  <2>19. StopInv'
    BY <1>0, <2>1, <2>4, <2>10, <2>11, <2>14 DEF StopInv
  <2>. QED
    BY <2>16, <2>18, <2>19 DEF PInv
<1>. QED
  BY <1>1, <1>2

\* stage2 counts what it has taken.
LEMMA AddStep ==
  ASSUME PInv, Add PROVE PInv'
<1>0. PTypeInv /\ StreamInv /\ StopInv
  BY DEF PInv
<1>c. /\ Len(InLine) \in Nat /\ Len(MidLine) \in Nat
      /\ Taken2 \in Nat /\ Sent1 \in Nat /\ Taken1 \in Nat
      /\ Items \in Nat /\ i \in Nat /\ final_count \in Nat /\ y \in Int
      /\ Taken1 + Len(InLine) <= Items + 1
  BY CountFacts
<1>s. InLine \in Seq(Int) /\ MidLine \in Seq(Int)
  BY CountFacts
<1>1. /\ z # None /\ z' = None
      /\ final_sum' = final_sum + z /\ final_count' = final_count + 1
      /\ UNCHANGED <<q_in, q_mid, state, i, y>>
  BY DEF Add
<1>2. InLine' = InLine /\ MidLine' = MidLine
  BY <1>1 DEF InLine, MidLine
<1>3. z = 2 * (final_count + 1) + 1 /\ final_count < Items
  BY <1>0, <1>1 DEF StreamInv
<1>4. state["stage2"] # "done"
  BY <1>0, <1>1 DEF StopInv
<1>5. Taken2' = Taken2
  BY <1>1, <1>4, <1>c DEF Taken2
<1>6. Sent1' = Sent1
  BY <1>2, <1>5 DEF Sent1
<1>7. Taken1' = Taken1
  BY <1>1, <1>6 DEF Taken1
<1>8. PTypeInv'
  BY <1>0, <1>1, <1>3, <1>c DEF PTypeInv, None
<1>9. StreamInv'
  BY <1>0, <1>1, <1>2, <1>5, <1>7 DEF StreamInv
<1>10. final_sum' = final_count' * (final_count' + 2)
  <2>1. \A n \in Nat : n * (n + 2) + (2 * (n + 1) + 1) = (n + 1) * ((n + 1) + 2)
    OBVIOUS
  <2>. QED
    BY <1>0, <1>1, <1>3, <2>1, <1>c DEF StopInv
<1>11. StopInv'
  BY <1>0, <1>1, <1>4, <1>6, <1>10 DEF StopInv
<1>. QED
  BY <1>8, <1>9, <1>11 DEF PInv

LEMMA PipelineStep ==
  ASSUME PInv, [Next]_vars PROVE PInv'
<1>0. PTypeInv
  BY DEF PInv
<1>1. CASE Join
  <2>1. /\ state' = [state EXCEPT !["main"] = "done"]
        /\ UNCHANGED <<q_in, q_mid, i, y, z, final_sum, final_count>>
    BY <1>1 DEF Join
  <2>2. /\ state' \in [Thread -> Conditions \cup {"ready", "done"}]
        /\ state'["stage1"] = state["stage1"] /\ state'["stage2"] = state["stage2"]
    BY <1>0, <2>1 DEF PTypeInv, Thread
  <2>3. InLine' = InLine /\ MidLine' = MidLine
    BY <2>1 DEF InLine, MidLine
  <2>4. Taken2' = Taken2
    BY <2>1, <2>2 DEF Taken2
  <2>5. Sent1' = Sent1
    BY <2>3, <2>4 DEF Sent1
  <2>6. Taken1' = Taken1
    BY <2>1, <2>5 DEF Taken1
  <2>7. PTypeInv'
    BY <1>0, <2>1, <2>2 DEF PTypeInv
  <2>. QED
    BY <2>1, <2>2, <2>3, <2>4, <2>5, <2>6, <2>7 DEF PInv, StreamInv, StopInv
<1>2. CASE \E t \in Thread : Spurious(t)
  <2>1. PICK t \in Thread : Spurious(t)
    BY <1>2
  <2>2. state[t] # "done" /\ state' = [state EXCEPT ![t] = "ready"]
    BY <2>1 DEF Spurious, Conditions
  <2>3. state' \in [Thread -> Conditions \cup {"ready", "done"}] /\ SameDone
    BY <1>0, <2>2 DEF PTypeInv, SameDone
  <2>. QED
    BY <2>1, <2>3, QuietStep DEF Spurious
<1>3. CASE UNCHANGED vars
  <2>1. state' \in [Thread -> Conditions \cup {"ready", "done"}] /\ SameDone
    BY <1>0, <1>3 DEF PTypeInv, SameDone, vars
  <2>. QED
    BY <1>3, <2>1, QuietStep DEF vars
<1>. QED
  BY <1>1, <1>2, <1>3, FeedStep, Stage1PopStep, Stage1PushStep, Stage2PopStep, AddStep
  DEF Next, Ended

\* A part of what main pushes: the values after the first n.
IsStream(s, n) ==
  s \in Seq(Int) /\ \A k \in 1 .. Len(s) : s[k] = FeedValue(n + k)

LEMMA StreamsJoin ==
  ASSUME NEW s, NEW t, NEW n \in Nat, IsStream(s, n), IsStream(t, n + Len(s))
  PROVE  IsStream(s \o t, n) /\ Len(s \o t) = Len(s) + Len(t)
<1>1. /\ s \in Seq(Int) /\ t \in Seq(Int)
      /\ s \o t \in Seq(Int) /\ Len(s \o t) = Len(s) + Len(t)
      /\ Len(s) \in Nat /\ Len(t) \in Nat
  BY DEF IsStream
<1>2. ASSUME NEW k \in 1 .. Len(s \o t) PROVE (s \o t)[k] = FeedValue(n + k)
  <2>1. CASE k <= Len(s)
    <3>1. k \in 1 .. Len(s) /\ (s \o t)[k] = s[k]
      BY <1>1, <2>1
    <3>. QED
      BY <3>1 DEF IsStream
  <2>2. CASE ~(k <= Len(s))
    <3>1. k - Len(s) \in 1 .. Len(t) /\ (s \o t)[k] = t[k - Len(s)]
      BY <1>1, <2>2
    <3>2. t[k - Len(s)] = FeedValue((n + Len(s)) + (k - Len(s)))
      BY <3>1 DEF IsStream
    <3>3. (n + Len(s)) + (k - Len(s)) = n + k
      BY <1>1
    <3>. QED
      BY <3>1, <3>2, <3>3
  <2>. QED
    BY <2>1, <2>2
<1>. QED
  BY <1>1, <1>2 DEF IsStream

\* A value that has been sent on still tells what it was made from.
LEMMA OriginOfValue ==
  ASSUME NEW n \in Nat \ {0} PROVE Origin(Stage1Value(FeedValue(n))) = FeedValue(n)
<1>1. CASE n <= Items
  <2>1. FeedValue(n) = n /\ Stage1Value(FeedValue(n)) = 2 * n
    BY <1>1, ValueFacts
  <2>2. 2 * n # SENTINEL
    BY DEF SENTINEL
  <2>3. (2 * n) \div 2 = n
    BY Z3
  <2>. QED
    BY <2>1, <2>2, <2>3 DEF Origin
<1>2. CASE n > Items
  BY <1>2, ValueFacts DEF Origin, Stage1Value
<1>. QED
  BY <1>1, <1>2, ItemsAssumption

LEMMA StreamFromInvariant == PInv => StreamInOrder
<1> SUFFICES ASSUME PInv PROVE StreamInOrder
  OBVIOUS
<1>0. PTypeInv /\ StreamInv /\ StopInv
  BY DEF PInv
<1>c. /\ Len(InLine) \in Nat /\ Len(MidLine) \in Nat
      /\ Taken2 \in Nat /\ Sent1 \in Nat /\ Taken1 \in Nat
      /\ Items \in Nat /\ i \in Nat /\ final_count \in Nat
      /\ Taken1 + Len(InLine) <= Items + 1
  BY CountFacts
<1> DEFINE
  last == IF z = None THEN <<>> ELSE <<Origin(z - 1)>>
  mid == [k \in 1 .. Len(MidLine) |-> Origin(MidLine[k])]
  next == IF y = None THEN <<>> ELSE <<Origin(y)>>
  ended == IF state["stage2"] = "done" THEN 1 ELSE 0
<1>1. InFlight = last \o mid \o next \o InLine
  BY DEF InFlight, MidLine, InLine
<1>2. /\ state["stage2"] = "done" => z = None /\ final_count = Items
      /\ ended \in {0, 1} /\ Len(last) + ended + final_count = Taken2
  BY <1>0, <1>c DEF StopInv, Taken2
\* Behind the sentinel there is nothing, so its own place does not matter.
<1>3. state["stage2"] = "done" =>
        /\ Len(MidLine) = 0 /\ y = None /\ z = None /\ Len(InLine) = 0
        /\ Sent1 = Items + 1 /\ i = Items + 2
  <2>1. state["stage2"] = "done" => Taken2 = Items + 1
    BY <1>2, <1>c DEF Taken2
  <2>. QED
    BY <1>0, <1>2, <1>c, <2>1 DEF Sent1, Taken1, StreamInv
<1>4. CASE state["stage2"] = "done"
  <2>1. last = <<>> /\ mid = <<>> /\ next = <<>> /\ InLine = <<>> /\ ended = 1
    BY <1>3, <1>4, CountFacts
  <2>2. InFlight = <<>> /\ Len(InFlight) = 0
    BY <1>1, <2>1
  <2>3. state["stage1"] = "done"
    BY <1>0, <1>3, <1>4 DEF StopInv
  <2>4. Len(InFlight) = i - 1 - final_count - ended
    BY <1>2, <1>3, <1>4, <1>c, <2>1, <2>2
  <2>. QED
    BY <1>0, <1>2, <1>4, <2>2, <2>3, <2>4 DEF StreamInOrder, StopInv
<1>5. CASE state["stage2"] # "done"
  <2>1. ended = 0 /\ Len(last) + final_count = Taken2
    BY <1>2, <1>5, <1>c
  <2>2. IsStream(last, final_count)
    <3>1. CASE z = None
      BY <3>1 DEF IsStream
    <3>2. CASE z # None
      <4>1. z - 1 = Stage1Value(FeedValue(final_count + 1)) /\ final_count + 1 \in Nat \ {0}
        BY <1>0, <1>c, <3>2, ValueFacts DEF StreamInv
      <4>2. Origin(z - 1) = FeedValue(final_count + 1) /\ FeedValue(final_count + 1) \in Int
        BY <4>1, OriginOfValue, ValueFacts
      <4>. QED
        BY <3>2, <4>2 DEF IsStream
    <3>. QED
      BY <3>1, <3>2
  <2>3. IsStream(mid, Taken2) /\ Len(mid) = Len(MidLine)
    <3>1. ASSUME NEW k \in 1 .. Len(MidLine)
          PROVE  mid[k] = FeedValue(Taken2 + k) /\ mid[k] \in Int
      <4>1. Taken2 + k \in Nat \ {0} /\ MidLine[k] = Stage1Value(FeedValue(Taken2 + k))
        BY <1>0, <1>c DEF StreamInv
      <4>. QED
        BY <4>1, OriginOfValue, ValueFacts
    <3>2. Len(mid) = Len(MidLine)
      BY <1>c
    <3>. QED
      BY <1>c, <3>1, <3>2 DEF IsStream
  <2>4. IsStream(next, Sent1) /\ Len(next) + Sent1 = Taken1
    <3>1. CASE y = None
      BY <1>c, <3>1 DEF IsStream, Taken1
    <3>2. CASE y # None
      <4>1. Taken1 = Sent1 + 1 /\ y = Stage1Value(FeedValue(Taken1))
        BY <1>0, <1>c, <3>2 DEF StreamInv, Taken1
      <4>2. Origin(y) = FeedValue(Sent1 + 1) /\ FeedValue(Sent1 + 1) \in Int
        BY <1>c, <4>1, OriginOfValue, ValueFacts
      <4>. QED
        BY <1>c, <3>2, <4>1, <4>2 DEF IsStream
    <3>. QED
      BY <3>1, <3>2
  <2>5. IsStream(InLine, Taken1)
    BY <1>0, CountFacts DEF StreamInv, IsStream
  <2> HIDE DEF last, mid, next, ended
  <2>6. IsStream(last \o mid, final_count) /\ Len(last \o mid) + final_count = Sent1
    <3>1. final_count + Len(last) = Taken2 /\ Len(last) \in Nat
      BY <2>1, <2>2, <1>c DEF IsStream
    <3>. QED
      BY <1>c, <2>2, <2>3, <3>1, StreamsJoin DEF Sent1
  <2>7. /\ IsStream(last \o mid \o next, final_count)
        /\ Len(last \o mid \o next) + final_count = Taken1
    <3> DEFINE u == last \o mid
    <3>1. IsStream(u, final_count) /\ Len(u) \in Nat /\ Len(next) \in Nat
      BY <2>4, <2>6 DEF IsStream
    <3>2. final_count + Len(u) = Sent1
      BY <1>c, <2>6, <3>1
    <3> HIDE DEF u
    <3>3. IsStream(u \o next, final_count) /\ Len(u \o next) = Len(u) + Len(next)
      BY <1>c, <2>4, <3>1, <3>2, StreamsJoin
    <3>. QED
      BY <1>c, <2>4, <3>1, <3>2, <3>3 DEF u
  <2>8. /\ IsStream(InFlight, final_count)
        /\ Len(InFlight) + final_count = Taken1 + Len(InLine)
    <3> DEFINE u == last \o mid \o next
    <3>1. IsStream(u, final_count) /\ Len(u) \in Nat
      BY <2>7 DEF IsStream
    <3>2. final_count + Len(u) = Taken1
      BY <1>c, <2>7, <3>1
    <3>3. InFlight = u \o InLine
      BY <1>1
    <3> HIDE DEF u
    <3>4. IsStream(u \o InLine, final_count) /\ Len(u \o InLine) = Len(u) + Len(InLine)
      BY <1>c, <2>5, <3>1, <3>2, StreamsJoin
    <3>5. IsStream(InFlight, final_count) /\ Len(InFlight) = Len(u) + Len(InLine)
      BY <3>3, <3>4
    <3>. QED
      BY <1>c, <3>1, <3>2, <3>5
  <2>9. Len(InFlight) = i - 1 - final_count - ended
    BY <1>0, <1>c, <2>1, <2>8 DEF StreamInv, IsStream
  <2>10. \A k \in 1 .. Len(InFlight) :
           InFlight[k] = IF final_count + k <= Items THEN final_count + k ELSE SENTINEL
    BY <2>8 DEF IsStream, FeedValue
  <2>. QED
    BY <1>0, <1>5, <2>9, <2>10 DEF StreamInOrder, StopInv, ended
<1>. QED
  BY <1>4, <1>5

\* What the pipeline does by itself it does among the programs.
LEMMA PipelineAmongPrograms ==
  /\ ProgramsInit => Init
  /\ [ProgramsNext]_allVars => [Next]_vars
BY DEF ProgramsInit, ProgramsNext, allVars, PipelineTurn, PoolTurn, StockTurn, KitchenTurn,
       EntryTurn, LimiterTurn, CountersTurn, CacheTurn, CopyTurn, WalkTurn,
         SignalsTurn

\* Nothing overtakes, is lost or is doubled between main, the two queues and the
\* two stages, for every number of items and every length of the queues
\* (e10_pipeline_multietapa).
THEOREM PipelineKeepsOrder == ProgramsSpec => []StreamInOrder
<1>1. ProgramsInit => PInv
  BY PipelineAmongPrograms, PipelineInit
<1>2. PInv /\ [ProgramsNext]_allVars => PInv'
  BY PipelineAmongPrograms, PipelineStep
<1>. QED
  BY <1>1, <1>2, StreamFromInvariant, PTL DEF ProgramsSpec

-----------------------------------------------------------------------------
(* Counting.  A set of threads at some places, and the turns that threads  *)
(* have made, one for each pair of a thread and a number.                  *)

\* The members of T that are at one of the spots.
Where(T, f, spots) == {t \in T : f[t] \in spots}

Moved(f, g, t, place) == g = [f EXCEPT ![t] = place]

LEMMA WhereIsFinite ==
  ASSUME NEW T, IsFiniteSet(T), NEW f, NEW spots
  PROVE  IsFiniteSet(Where(T, f, spots)) /\ Cardinality(Where(T, f, spots)) \in Nat
<1>1. Where(T, f, spots) \subseteq T
  BY DEF Where
<1>. QED
  BY <1>1, FS_Subset, FS_CardinalityType

\* A thread that moves leaves one set of places and comes into another.
LEMMA WhereMoves ==
  ASSUME NEW D, NEW V, NEW T \in SUBSET D, IsFiniteSet(T), NEW f \in [D -> V], NEW t \in D,
         NEW place, NEW g, Moved(f, g, t, place), NEW spots
  PROVE  Cardinality(Where(T, g, spots)) =
           Cardinality(Where(T, f, spots)) - (IF t \in T /\ f[t] \in spots THEN 1 ELSE 0)
                                           + (IF t \in T /\ place \in spots THEN 1 ELSE 0)
<1> DEFINE A == Where(T, f, spots) \ {t}
<1>1. IsFiniteSet(Where(T, f, spots)) /\ Cardinality(Where(T, f, spots)) \in Nat
  BY WhereIsFinite
<1>2. t \in Where(T, f, spots) <=> t \in T /\ f[t] \in spots
  BY DEF Where
<1>3. /\ IsFiniteSet(A) /\ Cardinality(A) \in Nat
      /\ Cardinality(A) =
           Cardinality(Where(T, f, spots)) - (IF t \in T /\ f[t] \in spots THEN 1 ELSE 0)
  BY <1>1, <1>2, FS_RemoveElement, FS_CardinalityType
<1>4. Where(T, g, spots) = IF t \in T /\ place \in spots THEN A \cup {t} ELSE A
  BY DEF Where, Moved
<1>5. Cardinality(Where(T, g, spots)) =
        Cardinality(A) + (IF t \in T /\ place \in spots THEN 1 ELSE 0)
  <2>1. t \notin A
    OBVIOUS
  <2>2. Cardinality(A \cup {t}) = Cardinality(A) + 1
    BY <1>3, <2>1, FS_AddElement
  <2>. QED
    BY <1>3, <1>4, <2>2
<1>. QED
  BY <1>1, <1>3, <1>5

\* The turns that the members of T have made, of n each.
Made(T, n, f) == {p \in T \X (1 .. n) : p[2] <= f[p[1]]}

LEMMA MadeIsFinite ==
  ASSUME NEW T, IsFiniteSet(T), NEW n \in Nat, NEW f
  PROVE  /\ IsFiniteSet(T \X (1 .. n)) /\ Cardinality(T \X (1 .. n)) = Cardinality(T) * n
         /\ IsFiniteSet(Made(T, n, f)) /\ Cardinality(Made(T, n, f)) \in Nat
<1>1. IsFiniteSet(1 .. n) /\ Cardinality(1 .. n) = n
  BY FS_Interval
<1>2. IsFiniteSet(T \X (1 .. n)) /\ Cardinality(T \X (1 .. n)) = Cardinality(T) * n
  BY <1>1, FS_Product
<1>3. Made(T, n, f) \subseteq T \X (1 .. n)
  BY DEF Made
<1>. QED
  BY <1>2, <1>3, FS_Subset, FS_CardinalityType

LEMMA NoneMade ==
  ASSUME NEW T, NEW n \in Nat, NEW f, \A t \in T : f[t] = 0
  PROVE  Cardinality(Made(T, n, f)) = 0
<1>1. Made(T, n, f) = {}
  BY DEF Made
<1>. QED
  BY <1>1, FS_EmptySet

LEMMA AllMade ==
  ASSUME NEW T, IsFiniteSet(T), NEW n \in Nat, NEW f, \A t \in T : f[t] = n
  PROVE  Cardinality(Made(T, n, f)) = Cardinality(T) * n
<1>1. Made(T, n, f) = T \X (1 .. n)
  BY DEF Made
<1>. QED
  BY <1>1, MadeIsFinite

\* A turn more.
LEMMA OneMoreMade ==
  ASSUME NEW T, IsFiniteSet(T), NEW n \in Nat, NEW f, NEW g, NEW t \in T,
         f[t] \in Nat, f[t] < n, g[t] = f[t] + 1, \A u \in T \ {t} : g[u] = f[u]
  PROVE  Cardinality(Made(T, n, g)) = Cardinality(Made(T, n, f)) + 1
<1> DEFINE e == <<t, f[t] + 1>>
<1>1. e \in T \X (1 .. n) /\ e \notin Made(T, n, f)
  BY DEF Made
<1>2. Made(T, n, g) = Made(T, n, f) \cup {e}
  <2>1. ASSUME NEW u \in T, NEW k \in 1 .. n
        PROVE  k <= g[u] <=> k <= f[u] \/ <<u, k>> = e
    BY <2>1
  <2>. QED
    BY <1>1, <2>1 DEF Made
<1>. QED
  BY <1>1, <1>2, MadeIsFinite, FS_AddElement

-----------------------------------------------------------------------------
(* The limiter.                                                            *)

Places == {"wait", "enter", "leave", "post", "done"}

Inside == {"enter", "leave", "post"}
Active == {"leave"}
Behind == {"post", "done"}

\* The semaphore counts the threads outside, active_now those between the two
\* blocks under stats_m, done_threads those behind the second.
LimiterInv ==
  /\ lAt \in [Request -> Places]
  /\ lSem \in Nat /\ lMax \in Nat
  /\ lSem + Cardinality(Where(Request, lAt, Inside)) = Permits
  /\ lActive = Cardinality(Where(Request, lAt, Active))
  /\ lDone = Cardinality(Where(Request, lAt, Behind))
  /\ lMax <= Permits
  /\ lJoined => \A r \in Request : lAt[r] = "done"

LEMMA RequestMoves ==
  ASSUME lAt \in [Request -> Places], NEW r \in Request, NEW place,
         Moved(lAt, lAt', r, place), NEW spots
  PROVE  Cardinality(Where(Request, lAt', spots)) =
           Cardinality(Where(Request, lAt, spots)) - (IF lAt[r] \in spots THEN 1 ELSE 0)
                                                   + (IF place \in spots THEN 1 ELSE 0)
<1>1. /\ Request \in SUBSET Request /\ IsFiniteSet(Request) /\ r \in Request
      /\ lAt \in [Request -> Places] /\ Moved(lAt, lAt', r, place)
  BY LimiterAssumption
<1>. QED
  BY <1>1, WhereMoves

LEMMA LimiterInit == ProgramsInit => LimiterInv
<1> SUFFICES ASSUME ProgramsInit PROVE LimiterInv
  OBVIOUS
<1>1. /\ lSem = Permits /\ lAt = [r \in Request |-> "wait"]
      /\ lActive = 0 /\ lMax = 0 /\ lDone = 0 /\ lJoined = FALSE
  BY DEF ProgramsInit, L!Init
<1>2. /\ Where(Request, lAt, Inside) = {} /\ Where(Request, lAt, Active) = {}
      /\ Where(Request, lAt, Behind) = {}
  BY <1>1 DEF Where, Inside, Active, Behind
<1>. QED
  BY <1>1, <1>2, FS_EmptySet, LimiterAssumption DEF LimiterInv, Places

LEMMA LimiterStep ==
  ASSUME LimiterInv, [L!Next]_limiterVars PROVE LimiterInv'
<1>0. /\ lAt \in [Request -> Places] /\ Permits \in Nat
      /\ Cardinality(Where(Request, lAt, Inside)) \in Nat
      /\ Cardinality(Where(Request, lAt, Active)) \in Nat
      /\ Cardinality(Where(Request, lAt, Behind)) \in Nat
  BY WhereIsFinite, LimiterAssumption DEF LimiterInv
<1>1. ASSUME NEW r \in Request, L!Wait(r) PROVE LimiterInv'
  <2>1. /\ lAt[r] = "wait" /\ lSem > 0 /\ lSem' = lSem - 1
        /\ lAt' = [lAt EXCEPT ![r] = "enter"]
        /\ UNCHANGED <<lActive, lMax, lDone, lJoined>>
    BY <1>1 DEF L!Wait
  <2>2. /\ Cardinality(Where(Request, lAt', Inside)) = Cardinality(Where(Request, lAt, Inside)) + 1
        /\ Cardinality(Where(Request, lAt', Active)) = Cardinality(Where(Request, lAt, Active))
        /\ Cardinality(Where(Request, lAt', Behind)) = Cardinality(Where(Request, lAt, Behind))
    <3>1. /\ "wait" \notin Inside /\ "enter" \in Inside
          /\ "wait" \notin Active /\ "enter" \notin Active
          /\ "wait" \notin Behind /\ "enter" \notin Behind
          /\ "wait" \in Places /\ "enter" \in Places
      BY DEF Inside, Active, Behind, Places
    <3>m. Moved(lAt, lAt', r, "enter") /\ lAt[r] = "wait"
      BY <2>1 DEF Moved
    <3>2. /\ Cardinality(Where(Request, lAt', Inside)) =
               Cardinality(Where(Request, lAt, Inside)) - (IF "wait" \in Inside THEN 1 ELSE 0)
                 + (IF "enter" \in Inside THEN 1 ELSE 0)
          /\ Cardinality(Where(Request, lAt', Active)) =
               Cardinality(Where(Request, lAt, Active)) - (IF "wait" \in Active THEN 1 ELSE 0)
                 + (IF "enter" \in Active THEN 1 ELSE 0)
          /\ Cardinality(Where(Request, lAt', Behind)) =
               Cardinality(Where(Request, lAt, Behind)) - (IF "wait" \in Behind THEN 1 ELSE 0)
                 + (IF "enter" \in Behind THEN 1 ELSE 0)
      BY <1>0, <3>1, <3>m, RequestMoves
    <3>. QED
      BY <1>0, <3>1, <3>2
  <2>3. lAt' \in [Request -> Places] /\ ~lJoined
    BY <1>0, <2>1 DEF LimiterInv, Places
  <2>. QED
    BY <1>0, <2>1, <2>2, <2>3 DEF LimiterInv
<1>2. ASSUME NEW r \in Request, L!Enter(r) PROVE LimiterInv'
  <2>1. /\ lAt[r] = "enter" /\ lActive' = lActive + 1
        /\ lMax' = IF lActive' > lMax THEN lActive' ELSE lMax
        /\ lAt' = [lAt EXCEPT ![r] = "leave"]
        /\ UNCHANGED <<lSem, lDone, lJoined>>
    BY <1>2 DEF L!Enter
  <2>2. /\ Cardinality(Where(Request, lAt', Inside)) = Cardinality(Where(Request, lAt, Inside))
        /\ Cardinality(Where(Request, lAt', Active)) = Cardinality(Where(Request, lAt, Active)) + 1
        /\ Cardinality(Where(Request, lAt', Behind)) = Cardinality(Where(Request, lAt, Behind))
    <3>1. /\ "enter" \in Inside /\ "leave" \in Inside
          /\ "enter" \notin Active /\ "leave" \in Active
          /\ "enter" \notin Behind /\ "leave" \notin Behind
          /\ "enter" \in Places /\ "leave" \in Places
      BY DEF Inside, Active, Behind, Places
    <3>m. Moved(lAt, lAt', r, "leave") /\ lAt[r] = "enter"
      BY <2>1 DEF Moved
    <3>2. /\ Cardinality(Where(Request, lAt', Inside)) =
               Cardinality(Where(Request, lAt, Inside)) - (IF "enter" \in Inside THEN 1 ELSE 0)
                 + (IF "leave" \in Inside THEN 1 ELSE 0)
          /\ Cardinality(Where(Request, lAt', Active)) =
               Cardinality(Where(Request, lAt, Active)) - (IF "enter" \in Active THEN 1 ELSE 0)
                 + (IF "leave" \in Active THEN 1 ELSE 0)
          /\ Cardinality(Where(Request, lAt', Behind)) =
               Cardinality(Where(Request, lAt, Behind)) - (IF "enter" \in Behind THEN 1 ELSE 0)
                 + (IF "leave" \in Behind THEN 1 ELSE 0)
      BY <1>0, <3>1, <3>m, RequestMoves
    <3>. QED
      BY <1>0, <3>1, <3>2
  <2>3. lAt' \in [Request -> Places] /\ ~lJoined
    BY <1>0, <2>1 DEF LimiterInv, Places
  \* Who is active is inside.
  <2>4. Cardinality(Where(Request, lAt', Active)) <= Cardinality(Where(Request, lAt', Inside))
    <3>1. Where(Request, lAt', Active) \subseteq Where(Request, lAt', Inside)
      BY DEF Where, Inside, Active, Behind
    <3>. QED
      BY <3>1, WhereIsFinite, LimiterAssumption, FS_Subset
  <2>5. lActive' <= Permits /\ lActive' \in Nat
    BY <1>0, <2>1, <2>2, <2>4 DEF LimiterInv
  <2>. QED
    BY <1>0, <2>1, <2>2, <2>3, <2>5 DEF LimiterInv
<1>3. ASSUME NEW r \in Request, L!Leave(r) PROVE LimiterInv'
  <2>1. /\ lAt[r] = "leave" /\ lActive' = lActive - 1 /\ lDone' = lDone + 1
        /\ lAt' = [lAt EXCEPT ![r] = "post"]
        /\ UNCHANGED <<lSem, lMax, lJoined>>
    BY <1>3 DEF L!Leave
  <2>2. /\ Cardinality(Where(Request, lAt', Inside)) = Cardinality(Where(Request, lAt, Inside))
        /\ Cardinality(Where(Request, lAt', Active)) = Cardinality(Where(Request, lAt, Active)) - 1
        /\ Cardinality(Where(Request, lAt', Behind)) = Cardinality(Where(Request, lAt, Behind)) + 1
    <3>1. /\ "leave" \in Inside /\ "post" \in Inside
          /\ "leave" \in Active /\ "post" \notin Active
          /\ "leave" \notin Behind /\ "post" \in Behind
          /\ "leave" \in Places /\ "post" \in Places
      BY DEF Inside, Active, Behind, Places
    <3>m. Moved(lAt, lAt', r, "post") /\ lAt[r] = "leave"
      BY <2>1 DEF Moved
    <3>2. /\ Cardinality(Where(Request, lAt', Inside)) =
               Cardinality(Where(Request, lAt, Inside)) - (IF "leave" \in Inside THEN 1 ELSE 0)
                 + (IF "post" \in Inside THEN 1 ELSE 0)
          /\ Cardinality(Where(Request, lAt', Active)) =
               Cardinality(Where(Request, lAt, Active)) - (IF "leave" \in Active THEN 1 ELSE 0)
                 + (IF "post" \in Active THEN 1 ELSE 0)
          /\ Cardinality(Where(Request, lAt', Behind)) =
               Cardinality(Where(Request, lAt, Behind)) - (IF "leave" \in Behind THEN 1 ELSE 0)
                 + (IF "post" \in Behind THEN 1 ELSE 0)
      BY <1>0, <3>1, <3>m, RequestMoves
    <3>. QED
      BY <1>0, <3>1, <3>2
  <2>3. lAt' \in [Request -> Places] /\ ~lJoined
    BY <1>0, <2>1 DEF LimiterInv, Places
  <2>. QED
    BY <1>0, <2>1, <2>2, <2>3 DEF LimiterInv
<1>4. ASSUME NEW r \in Request, L!Post(r) PROVE LimiterInv'
  <2>1. /\ lAt[r] = "post" /\ lSem' = lSem + 1
        /\ lAt' = [lAt EXCEPT ![r] = "done"]
        /\ UNCHANGED <<lActive, lMax, lDone, lJoined>>
    BY <1>4 DEF L!Post
  <2>2. /\ Cardinality(Where(Request, lAt', Inside)) = Cardinality(Where(Request, lAt, Inside)) - 1
        /\ Cardinality(Where(Request, lAt', Active)) = Cardinality(Where(Request, lAt, Active))
        /\ Cardinality(Where(Request, lAt', Behind)) = Cardinality(Where(Request, lAt, Behind))
    <3>1. /\ "post" \in Inside /\ "done" \notin Inside
          /\ "post" \notin Active /\ "done" \notin Active
          /\ "post" \in Behind /\ "done" \in Behind
          /\ "post" \in Places /\ "done" \in Places
      BY DEF Inside, Active, Behind, Places
    <3>m. Moved(lAt, lAt', r, "done") /\ lAt[r] = "post"
      BY <2>1 DEF Moved
    <3>2. /\ Cardinality(Where(Request, lAt', Inside)) =
               Cardinality(Where(Request, lAt, Inside)) - (IF "post" \in Inside THEN 1 ELSE 0)
                 + (IF "done" \in Inside THEN 1 ELSE 0)
          /\ Cardinality(Where(Request, lAt', Active)) =
               Cardinality(Where(Request, lAt, Active)) - (IF "post" \in Active THEN 1 ELSE 0)
                 + (IF "done" \in Active THEN 1 ELSE 0)
          /\ Cardinality(Where(Request, lAt', Behind)) =
               Cardinality(Where(Request, lAt, Behind)) - (IF "post" \in Behind THEN 1 ELSE 0)
                 + (IF "done" \in Behind THEN 1 ELSE 0)
      BY <1>0, <3>1, <3>m, RequestMoves
    <3>. QED
      BY <1>0, <3>1, <3>2
  <2>3. lAt' \in [Request -> Places] /\ ~lJoined
    BY <1>0, <2>1 DEF LimiterInv, Places
  <2>. QED
    BY <1>0, <2>1, <2>2, <2>3 DEF LimiterInv
<1>5. CASE L!Join
  BY <1>5 DEF L!Join, LimiterInv
<1>6. CASE UNCHANGED limiterVars
  BY <1>6 DEF limiterVars, LimiterInv
<1>. QED
  BY <1>1, <1>2, <1>3, <1>4, <1>5, <1>6
  DEF L!Next, L!Request_worker, L!Ended, L!vars, limiterVars

\* The limiter counts with the same operator.
LEMMA SameCardinality == ASSUME NEW A PROVE L!Cardinality(A) = Cardinality(A)
BY DEF L!Cardinality, Cardinality

\* The semaphore never lets more threads in than it has permits, loses none of
\* them, and main finds every thread counted (e08_semaforo_rate_limiter).
THEOREM LimiterKeepsItsLimit == ProgramsSpec => []L!LimitIsKept
<1>1. [ProgramsNext]_allVars => [L!Next]_limiterVars
  BY DEF ProgramsNext, allVars, PipelineTurn, PoolTurn, StockTurn, KitchenTurn,
         EntryTurn, LimiterTurn, CountersTurn, CacheTurn, CopyTurn, WalkTurn,
         SignalsTurn
<1>2. LimiterInv => L!LimitIsKept
  <2> SUFFICES ASSUME LimiterInv PROVE L!LimitIsKept
    OBVIOUS
  <2>1. {r \in Request : lAt[r] \in {"enter", "leave", "post"}} = Where(Request, lAt, Inside)
    BY DEF Where, Inside, Active, Behind
  <2>2. lJoined => Where(Request, lAt, Behind) = Request /\ Where(Request, lAt, Active) = {}
    BY DEF LimiterInv, Where, Active, Behind
  <2>3. lJoined => lDone = Cardinality(Request) /\ lActive = 0
    BY <2>2, FS_EmptySet DEF LimiterInv
  <2>4. lSem + Cardinality({r \in Request : lAt[r] \in {"enter", "leave", "post"}}) = Permits
    BY <2>1 DEF LimiterInv
  <2>. QED
    BY <2>3, <2>4, SameCardinality DEF LimiterInv, L!LimitIsKept
<1>3. LimiterInv /\ [ProgramsNext]_allVars => LimiterInv'
  BY <1>1, LimiterStep
<1>. QED
  BY <1>2, <1>3, LimiterInit, PTL DEF ProgramsSpec

-----------------------------------------------------------------------------
(* The entry under a read-write lock.                                      *)

Entrant == Reader \cup Writer
Locked == {"first", "second", "unlock"}

\* Who is between lock and unlock holds the lock, and a writer holds it alone.
LockInv ==
  /\ eAt \in [Entrant -> Locked \cup {"lock", "count"}]
  /\ \A t \in Entrant : t \in eHolders <=> eAt[t] \in Locked
  /\ \A w \in Writer, t \in Entrant : {w, t} \subseteq eHolders => t = w

\* The entry is whole but for the writer between its two assignments.
WholeInv ==
  /\ eValue \in Nat /\ eVersion \in Nat
  /\ eValue = 10 * eVersion + (IF \E w \in Writer : eAt[w] = "second" THEN 10 ELSE 0)

\* What a reader has seen so far.
SeenInv ==
  /\ eSeen \in [Reader -> [{1, 2} -> Nat]]
  /\ \A r \in Reader : /\ eAt[r] = "second" => eSeen[r][1] = eValue
                       /\ eAt[r] = "unlock" => eSeen[r][1] = 10 * eSeen[r][2]

EntryInv == LockInv /\ WholeInv /\ SeenInv

LEMMA EntryInit == ProgramsInit => EntryInv
<1> SUFFICES ASSUME ProgramsInit PROVE EntryInv
  OBVIOUS
<1>1. /\ eValue = 0 /\ eVersion = 0 /\ eHolders = {}
      /\ eAt = [t \in Entrant |-> "lock"] /\ eSeen = [r \in Reader |-> <<0, 0>>]
  BY DEF ProgramsInit, E!Init, E!Thread, Entrant
<1>2. <<0, 0>> \in [{1, 2} -> Nat]
  OBVIOUS
<1>. QED
  BY <1>1, <1>2 DEF EntryInv, LockInv, WholeInv, SeenInv, Locked, Entrant

\* Nobody reads or writes while a writer has the lock.
LEMMA AloneInside ==
  ASSUME LockInv, NEW w \in Writer, NEW t \in Entrant, eAt[w] \in Locked, eAt[t] \in Locked
  PROVE  t = w
BY DEF LockInv, Entrant

LEMMA EntryStep ==
  ASSUME EntryInv, [E!Next]_entryVars PROVE EntryInv'
<1>0. LockInv /\ WholeInv /\ SeenInv
  BY DEF EntryInv
<1>r. Reader \cap Writer = {} /\ Reader \subseteq Entrant /\ Writer \subseteq Entrant
  BY EntryAssumption DEF Entrant
<1>1. ASSUME NEW t \in Entrant, E!Lock(t) PROVE EntryInv'
  <2>1. /\ eAt[t] = "lock" /\ E!MayLock(t) /\ eHolders' = eHolders \cup {t}
        /\ eAt' = [eAt EXCEPT ![t] = "first"]
        /\ UNCHANGED <<eValue, eVersion, eSeen>>
    BY <1>1 DEF E!Lock
  <2>2. IF t \in Reader THEN eHolders \cap Writer = {} ELSE eHolders = {}
    BY <2>1 DEF E!MayLock
  <2>3. LockInv'
    BY <1>0, <1>r, <2>1, <2>2 DEF LockInv, Locked, Entrant
  <2>4. \A u \in Entrant : (eAt'[u] = "second" <=> eAt[u] = "second")
                           /\ (eAt'[u] = "unlock" <=> eAt[u] = "unlock")
    BY <1>0, <2>1 DEF LockInv
  <2>5. WholeInv'
    BY <1>0, <1>r, <2>1, <2>4 DEF WholeInv
  <2>6. SeenInv'
    BY <1>0, <1>r, <2>1, <2>4 DEF SeenInv
  <2>. QED
    BY <2>3, <2>5, <2>6 DEF EntryInv
<1>2. ASSUME NEW t \in Entrant, E!First(t) PROVE EntryInv'
  <2>1. /\ eAt[t] = "first" /\ eAt' = [eAt EXCEPT ![t] = "second"]
        /\ UNCHANGED <<eVersion, eHolders>>
    BY <1>2 DEF E!First
  <2>2. LockInv'
    BY <1>0, <1>r, <2>1 DEF LockInv, Locked, Entrant
  <2>3. \A u \in Entrant \ {t} : eAt'[u] = eAt[u]
    BY <1>0, <2>1 DEF LockInv
  <2>4. eAt'[t] = "second"
    BY <1>0, <2>1 DEF LockInv
  <2>5. CASE t \in Reader
    <3>1. eSeen' = [eSeen EXCEPT ![t] = [eSeen[t] EXCEPT ![1] = eValue]] /\ eValue' = eValue
      BY <1>2, <1>r, <2>5 DEF E!First
    <3>2. t \notin Writer
      BY <1>r, <2>5
    <3>3. WholeInv'
      BY <1>0, <1>r, <2>1, <2>3, <3>1, <3>2 DEF WholeInv
    <3>4. SeenInv'
      BY <1>0, <1>r, <2>3, <2>4, <2>5, <3>1 DEF SeenInv, WholeInv
    <3>. QED
      BY <2>2, <3>3, <3>4 DEF EntryInv
  <2>6. CASE t \in Writer
    <3>1. eValue' = eValue + 10 /\ eSeen' = eSeen
      BY <1>2, <1>r, <2>6 DEF E!First
    <3>2. \A u \in Entrant : eAt[u] \in Locked => u = t
      BY <1>0, <2>1, <2>6, AloneInside DEF Locked
    <3>3. (\A w \in Writer : eAt[w] # "second") /\ (\E w \in Writer : eAt'[w] = "second")
      BY <1>r, <2>1, <2>4, <2>6, <3>2 DEF Locked
    <3>4. WholeInv'
      BY <1>0, <2>1, <3>1, <3>3 DEF WholeInv
    <3>5. \A r \in Reader : eAt'[r] \notin Locked
      BY <1>r, <2>3, <2>6, <3>2
    <3>6. SeenInv'
      BY <1>0, <3>1, <3>5 DEF SeenInv, Locked
    <3>. QED
      BY <2>2, <3>4, <3>6 DEF EntryInv
  <2>. QED
    BY <2>5, <2>6 DEF Entrant
<1>3. ASSUME NEW t \in Entrant, E!Second(t) PROVE EntryInv'
  <2>1. /\ eAt[t] = "second" /\ eAt' = [eAt EXCEPT ![t] = "unlock"]
        /\ UNCHANGED <<eValue, eHolders>>
    BY <1>3 DEF E!Second
  <2>2. LockInv'
    BY <1>0, <1>r, <2>1 DEF LockInv, Locked, Entrant
  <2>3. \A u \in Entrant \ {t} : eAt'[u] = eAt[u]
    BY <1>0, <2>1 DEF LockInv
  <2>4. eAt'[t] = "unlock"
    BY <1>0, <2>1 DEF LockInv
  <2>5. CASE t \in Reader
    <3>1. /\ eSeen' = [eSeen EXCEPT ![t] = [eSeen[t] EXCEPT ![2] = eVersion]]
          /\ eVersion' = eVersion
      BY <1>3, <1>r, <2>5 DEF E!Second
    <3>2. \A w \in Writer : eAt[w] # "second"
      BY <1>0, <1>r, <2>1, <2>5, AloneInside DEF Locked
    <3>3. \A w \in Writer : eAt'[w] # "second"
      BY <1>r, <2>3, <2>5, <3>2
    <3>4. WholeInv'
      BY <1>0, <2>1, <3>1, <3>2, <3>3 DEF WholeInv
    <3>5. eSeen[t][1] = 10 * eVersion
      BY <1>0, <2>1, <2>5, <3>2 DEF WholeInv, SeenInv
    <3>6. /\ eSeen' \in [Reader -> [{1, 2} -> Nat]]
          /\ eSeen'[t][1] = eSeen[t][1] /\ eSeen'[t][2] = eVersion
          /\ \A r \in Reader \ {t} : eSeen'[r] = eSeen[r]
      BY <1>0, <2>5, <3>1 DEF SeenInv, WholeInv
    <3>7. SeenInv'
      BY <1>0, <1>r, <2>1, <2>3, <2>4, <3>5, <3>6 DEF SeenInv
    <3>. QED
      BY <2>2, <3>4, <3>7 DEF EntryInv
  <2>6. CASE t \in Writer
    <3>1. eVersion' = eVersion + 1 /\ eSeen' = eSeen
      BY <1>3, <1>r, <2>6 DEF E!Second
    <3>2. \A u \in Entrant : eAt[u] \in Locked => u = t
      BY <1>0, <2>1, <2>6, AloneInside DEF Locked
    <3>3. (\E w \in Writer : eAt[w] = "second") /\ (\A w \in Writer : eAt'[w] # "second")
      BY <1>r, <2>1, <2>3, <2>4, <2>6, <3>2 DEF Locked
    <3>4. WholeInv'
      BY <1>0, <2>1, <3>1, <3>3 DEF WholeInv
    <3>5. \A r \in Reader : eAt'[r] \notin Locked
      BY <1>r, <2>3, <2>6, <3>2
    <3>6. SeenInv'
      BY <1>0, <3>1, <3>5 DEF SeenInv, Locked
    <3>. QED
      BY <2>2, <3>4, <3>6 DEF EntryInv
  <2>. QED
    BY <2>5, <2>6 DEF Entrant
<1>4. ASSUME NEW t \in Entrant, E!Unlock(t) \/ E!Count(t) PROVE EntryInv'
  <2>1. /\ \/ eAt[t] = "unlock" /\ eAt' = [eAt EXCEPT ![t] = "count"]
              /\ eHolders' = eHolders \ {t}
           \/ eAt[t] = "count" /\ eAt' = [eAt EXCEPT ![t] = "lock"]
              /\ eHolders' = eHolders
        /\ UNCHANGED <<eValue, eVersion, eSeen>>
    BY <1>4 DEF E!Unlock, E!Count
  <2>2. LockInv'
    BY <1>0, <1>r, <2>1 DEF LockInv, Locked, Entrant
  <2>3. \A u \in Entrant : (eAt'[u] = "second" <=> eAt[u] = "second")
                           /\ (eAt'[u] = "unlock" => eAt[u] = "unlock")
    BY <1>0, <2>1 DEF LockInv
  <2>4. WholeInv'
    BY <1>0, <1>r, <2>1, <2>3 DEF WholeInv
  <2>5. SeenInv'
    BY <1>0, <1>r, <2>1, <2>3 DEF SeenInv
  <2>. QED
    BY <2>2, <2>4, <2>5 DEF EntryInv
<1>5. CASE UNCHANGED <<eValue, eVersion, eHolders, eAt, eSeen>>
  BY <1>5 DEF EntryInv, LockInv, WholeInv, SeenInv
<1>. QED
  BY <1>1, <1>2, <1>3, <1>4, <1>5
  DEF E!Next, E!ThreadStep, E!Join, E!Ended, E!vars, entryVars, E!Thread, Entrant

\* The operations counted are the turns made; the version is ahead of them by the
\* writers that have not counted yet.
Uncounted == {"unlock", "count"}

Turns(t) == IF t \in Reader THEN ReadIters ELSE WriteIters

TurnsInv ==
  /\ eIter \in [Entrant -> Nat]
  /\ \A t \in Entrant : /\ eIter[t] <= Turns(t)
                        /\ eAt[t] # "lock" => eIter[t] < Turns(t)
  /\ eWrites = Cardinality(Made(Writer, WriteIters, eIter))
  /\ eReads = Cardinality(Made(Reader, ReadIters, eIter))
  /\ eVersion = eWrites + Cardinality(Where(Writer, eAt, Uncounted))
  /\ eJoined => \A t \in Entrant : eAt[t] = "lock" /\ eIter[t] = Turns(t)

LEMMA TurnsInit == ProgramsInit => TurnsInv
<1> SUFFICES ASSUME ProgramsInit PROVE TurnsInv
  OBVIOUS
<1>1. /\ eVersion = 0 /\ eReads = 0 /\ eWrites = 0 /\ eJoined = FALSE
      /\ eAt = [t \in Entrant |-> "lock"] /\ eIter = [t \in Entrant |-> 0]
  BY DEF ProgramsInit, E!Init, E!Thread, Entrant
<1>2. {ReadIters, WriteIters} \subseteq Nat /\ Writer \subseteq Entrant /\ Reader \subseteq Entrant
  BY EntryAssumption DEF Entrant
<1>3. /\ \A t \in Writer : eIter[t] = 0
      /\ \A t \in Reader : eIter[t] = 0
  BY <1>1, <1>2
<1>4. Cardinality(Made(Writer, WriteIters, eIter)) = 0
  BY <1>2, <1>3, NoneMade
<1>5. Cardinality(Made(Reader, ReadIters, eIter)) = 0
  BY <1>2, <1>3, NoneMade
<1>6. Where(Writer, eAt, Uncounted) = {}
  BY <1>1, <1>2 DEF Where, Uncounted
<1>7. Cardinality(Where(Writer, eAt, Uncounted)) = 0
  BY <1>6, FS_EmptySet
<1>. QED
  BY <1>1, <1>2, <1>4, <1>5, <1>7 DEF TurnsInv, Turns

LEMMA EntrantMoves ==
  ASSUME EntryInv, NEW t \in Entrant, NEW from, eAt[t] = from,
         NEW place, Moved(eAt, eAt', t, place)
  PROVE  Cardinality(Where(Writer, eAt', Uncounted)) =
           Cardinality(Where(Writer, eAt, Uncounted))
             - (IF t \in Writer /\ from \in Uncounted THEN 1 ELSE 0)
             + (IF t \in Writer /\ place \in Uncounted THEN 1 ELSE 0)
<1> DEFINE V == Locked \cup {"lock", "count"}
<1>1. eAt \in [Entrant -> V] /\ Writer \in SUBSET Entrant /\ IsFiniteSet(Writer)
  BY EntryAssumption DEF EntryInv, LockInv, Entrant
<1> HIDE DEF V
<1>. QED
  BY <1>1, WhereMoves

LEMMA TurnsStep ==
  ASSUME EntryInv, TurnsInv, [E!Next]_entryVars PROVE TurnsInv'
<1>0. /\ eAt \in [Entrant -> Locked \cup {"lock", "count"}] /\ eIter \in [Entrant -> Nat]
      /\ eVersion \in Nat
  BY DEF EntryInv, LockInv, WholeInv, TurnsInv
<1>r. /\ Reader \cap Writer = {} /\ Reader \subseteq Entrant /\ Writer \subseteq Entrant
      /\ ReadIters \in Nat /\ WriteIters \in Nat
      /\ IsFiniteSet(Reader) /\ IsFiniteSet(Writer)
  BY EntryAssumption DEF Entrant
<1>c. /\ Cardinality(Where(Writer, eAt, Uncounted)) \in Nat
      /\ Cardinality(Made(Writer, WriteIters, eIter)) \in Nat
      /\ Cardinality(Made(Reader, ReadIters, eIter)) \in Nat
  BY <1>r, WhereIsFinite, MadeIsFinite
\* A step of a thread before it counts: only the version moves.
<1>1. ASSUME NEW t \in Entrant, NEW from, NEW place, eAt[t] = from,
             Moved(eAt, eAt', t, place), place # "lock", eIter[t] < Turns(t),
             UNCHANGED <<eIter, eReads, eWrites, eJoined>>,
             eVersion' = eVersion - (IF t \in Writer /\ from \in Uncounted THEN 1 ELSE 0)
                                  + (IF t \in Writer /\ place \in Uncounted THEN 1 ELSE 0)
      PROVE  TurnsInv'
  <2>1. Cardinality(Where(Writer, eAt', Uncounted)) =
           Cardinality(Where(Writer, eAt, Uncounted))
             - (IF t \in Writer /\ from \in Uncounted THEN 1 ELSE 0)
             + (IF t \in Writer /\ place \in Uncounted THEN 1 ELSE 0)
    BY <1>1, EntrantMoves
  <2>2. eVersion' = eWrites' + Cardinality(Where(Writer, eAt', Uncounted))
    BY <1>1, <1>c, <2>1 DEF TurnsInv
  <2>3. \A u \in Entrant : eAt'[u] # "lock" => eIter[u] < Turns(u)
    BY <1>0, <1>1 DEF TurnsInv, Moved
  <2>4. ~eJoined'
    BY <1>0, <1>1 DEF TurnsInv, Turns, Entrant
  <2>. QED
    BY <1>1, <2>2, <2>3, <2>4 DEF TurnsInv
<1>2. ASSUME NEW t \in Entrant, E!Lock(t) PROVE TurnsInv'
  <2>1. /\ eAt[t] = "lock" /\ eIter[t] < Turns(t) /\ Moved(eAt, eAt', t, "first")
        /\ UNCHANGED <<eIter, eReads, eWrites, eJoined, eVersion>>
    BY <1>2 DEF E!Lock, E!Turns, Turns, Moved
  <2>2. "lock" \notin Uncounted /\ "first" \notin Uncounted /\ "first" # "lock"
    BY DEF Uncounted
  <2>3. eVersion' = eVersion - (IF t \in Writer /\ "lock" \in Uncounted THEN 1 ELSE 0)
                             + (IF t \in Writer /\ "first" \in Uncounted THEN 1 ELSE 0)
    BY <1>0, <2>1, <2>2
  <2>. QED
    BY <1>1, <2>1, <2>2, <2>3
<1>3. ASSUME NEW t \in Entrant, E!First(t) PROVE TurnsInv'
  <2>1. /\ eAt[t] = "first" /\ eIter[t] < Turns(t) /\ Moved(eAt, eAt', t, "second")
        /\ UNCHANGED <<eIter, eReads, eWrites, eJoined, eVersion>>
    BY <1>3 DEF E!First, Moved, TurnsInv
  <2>2. "first" \notin Uncounted /\ "second" \notin Uncounted /\ "second" # "lock"
    BY DEF Uncounted
  <2>3. eVersion' = eVersion - (IF t \in Writer /\ "first" \in Uncounted THEN 1 ELSE 0)
                             + (IF t \in Writer /\ "second" \in Uncounted THEN 1 ELSE 0)
    BY <1>0, <2>1, <2>2
  <2>. QED
    BY <1>1, <2>1, <2>2, <2>3
<1>4. ASSUME NEW t \in Entrant, E!Second(t) PROVE TurnsInv'
  <2>1. /\ eAt[t] = "second" /\ eIter[t] < Turns(t) /\ Moved(eAt, eAt', t, "unlock")
        /\ UNCHANGED <<eIter, eReads, eWrites, eJoined>>
        /\ eVersion' = eVersion + (IF t \in Writer THEN 1 ELSE 0)
    BY <1>0, <1>4, <1>r DEF E!Second, Moved, TurnsInv
  <2>2. "second" \notin Uncounted /\ "unlock" \in Uncounted /\ "unlock" # "lock"
    BY DEF Uncounted
  <2>3. eVersion' = eVersion - (IF t \in Writer /\ "second" \in Uncounted THEN 1 ELSE 0)
                             + (IF t \in Writer /\ "unlock" \in Uncounted THEN 1 ELSE 0)
    BY <1>0, <2>1, <2>2
  <2>. QED
    BY <1>1, <2>1, <2>2, <2>3
<1>5. ASSUME NEW t \in Entrant, E!Unlock(t) PROVE TurnsInv'
  <2>1. /\ eAt[t] = "unlock" /\ eIter[t] < Turns(t) /\ Moved(eAt, eAt', t, "count")
        /\ UNCHANGED <<eIter, eReads, eWrites, eJoined, eVersion>>
    BY <1>5 DEF E!Unlock, Moved, TurnsInv
  <2>2. "unlock" \in Uncounted /\ "count" \in Uncounted /\ "count" # "lock"
    BY DEF Uncounted
  <2>3. eVersion' = eVersion - (IF t \in Writer /\ "unlock" \in Uncounted THEN 1 ELSE 0)
                             + (IF t \in Writer /\ "count" \in Uncounted THEN 1 ELSE 0)
    BY <1>0, <2>1, <2>2
  <2>. QED
    BY <1>1, <2>1, <2>2, <2>3
<1>6. ASSUME NEW t \in Entrant, E!Count(t) PROVE TurnsInv'
  <2>1. /\ eAt[t] = "count" /\ eIter[t] < Turns(t) /\ Moved(eAt, eAt', t, "lock")
        /\ eIter' = [eIter EXCEPT ![t] = eIter[t] + 1]
        /\ eReads' = eReads + (IF t \in Reader THEN 1 ELSE 0)
        /\ eWrites' = eWrites + (IF t \in Writer THEN 1 ELSE 0)
        /\ UNCHANGED <<eJoined, eVersion>>
    BY <1>6 DEF E!Count, Moved, TurnsInv
  <2>2. /\ eIter' \in [Entrant -> Nat] /\ eIter'[t] = eIter[t] + 1
        /\ \A u \in Entrant \ {t} : eIter'[u] = eIter[u]
        /\ \A u \in Entrant : eIter'[u] \in Nat /\ eIter[u] \in Nat
    BY <1>0, <2>1
  <2>3. Cardinality(Where(Writer, eAt', Uncounted)) =
          Cardinality(Where(Writer, eAt, Uncounted)) - (IF t \in Writer THEN 1 ELSE 0)
    <3>1. "count" \in Uncounted /\ "lock" \notin Uncounted
      BY DEF Uncounted
    <3>2. Cardinality(Where(Writer, eAt', Uncounted)) =
           Cardinality(Where(Writer, eAt, Uncounted))
             - (IF t \in Writer /\ "count" \in Uncounted THEN 1 ELSE 0)
             + (IF t \in Writer /\ "lock" \in Uncounted THEN 1 ELSE 0)
      BY <2>1, EntrantMoves
    <3>. QED
      BY <1>c, <3>1, <3>2
  <2>4. Cardinality(Made(Writer, WriteIters, eIter')) =
          Cardinality(Made(Writer, WriteIters, eIter)) + (IF t \in Writer THEN 1 ELSE 0)
    <3>1. CASE t \in Writer
      <4>1. eIter[t] < WriteIters /\ \A u \in Writer \ {t} : eIter'[u] = eIter[u]
        BY <1>r, <2>1, <2>2, <3>1 DEF Turns
      <4>2. eIter[t] \in Nat /\ eIter'[t] = eIter[t] + 1
        BY <2>2
      <4>3. Cardinality(Made(Writer, WriteIters, eIter')) =
              Cardinality(Made(Writer, WriteIters, eIter)) + 1
        BY <1>r, <3>1, <4>1, <4>2, OneMoreMade
      <4>. QED
        BY <3>1, <4>3
    <3>2. CASE t \notin Writer
      <4>1. Made(Writer, WriteIters, eIter') = Made(Writer, WriteIters, eIter)
        BY <1>r, <2>2, <3>2 DEF Made
      <4>. QED
        BY <1>c, <3>2, <4>1
    <3>. QED
      BY <3>1, <3>2
  <2>5. Cardinality(Made(Reader, ReadIters, eIter')) =
          Cardinality(Made(Reader, ReadIters, eIter)) + (IF t \in Reader THEN 1 ELSE 0)
    <3>1. CASE t \in Reader
      <4>1. eIter[t] < ReadIters /\ \A u \in Reader \ {t} : eIter'[u] = eIter[u]
        BY <1>r, <2>1, <2>2, <3>1 DEF Turns
      <4>2. eIter[t] \in Nat /\ eIter'[t] = eIter[t] + 1
        BY <2>2
      <4>3. Cardinality(Made(Reader, ReadIters, eIter')) =
              Cardinality(Made(Reader, ReadIters, eIter)) + 1
        BY <1>r, <3>1, <4>1, <4>2, OneMoreMade
      <4>. QED
        BY <3>1, <4>3
    <3>2. CASE t \notin Reader
      <4>1. Made(Reader, ReadIters, eIter') = Made(Reader, ReadIters, eIter)
        BY <1>r, <2>2, <3>2 DEF Made
      <4>. QED
        BY <1>c, <3>2, <4>1
    <3>. QED
      BY <3>1, <3>2
  <2>6. \A u \in Entrant : /\ eIter'[u] <= Turns(u)
                           /\ eAt'[u] # "lock" => eIter'[u] < Turns(u)
    <3>1. \A u \in Entrant : Turns(u) \in Nat
      BY <1>r DEF Turns
    <3>2. eAt'[t] = "lock" /\ \A u \in Entrant \ {t} : eAt'[u] = eAt[u]
      BY <1>0, <2>1 DEF Moved
    <3>. QED
      BY <2>1, <2>2, <3>1, <3>2 DEF TurnsInv
  <2>7. ~eJoined'
    BY <2>1 DEF TurnsInv
  <2>8. /\ eWrites' = Cardinality(Made(Writer, WriteIters, eIter'))
        /\ eReads' = Cardinality(Made(Reader, ReadIters, eIter'))
        /\ eVersion' = eWrites' + Cardinality(Where(Writer, eAt', Uncounted))
    BY <1>c, <2>1, <2>3, <2>4, <2>5 DEF TurnsInv
  <2>. QED
    BY <2>2, <2>6, <2>7, <2>8 DEF TurnsInv
<1>7. CASE E!Join
  BY <1>7 DEF E!Join, E!Turns, E!Thread, Entrant, Turns, TurnsInv
<1>8. CASE UNCHANGED entryVars
  BY <1>8 DEF entryVars, TurnsInv
<1>. QED
  BY <1>2, <1>3, <1>4, <1>5, <1>6, <1>7, <1>8
  DEF E!Next, E!ThreadStep, E!Ended, E!vars, entryVars, E!Thread, Entrant

LEMMA SameCount == ASSUME NEW A PROVE E!Cardinality(A) = Cardinality(A)
BY DEF E!Cardinality, Cardinality

\* Under the read-write lock no reader sees half of a write, and no write and no
\* count is lost, for any number of readers, writers and turns
\* (e07_rwlock_cache_basica).
THEOREM EntryReadsAreWhole == ProgramsSpec => []E!ReadsAreWhole
<1>1. [ProgramsNext]_allVars => [E!Next]_entryVars
  BY DEF ProgramsNext, allVars, PipelineTurn, PoolTurn, StockTurn, KitchenTurn,
         EntryTurn, LimiterTurn, CountersTurn, CacheTurn, CopyTurn, WalkTurn,
         SignalsTurn
<1>2. EntryInv /\ TurnsInv => E!ReadsAreWhole
  <2> SUFFICES ASSUME EntryInv, TurnsInv PROVE E!ReadsAreWhole
    OBVIOUS
  <2>1. \A r \in Reader : eAt[r] = "unlock" => eSeen[r][1] = 10 * eSeen[r][2]
    BY DEF EntryInv, SeenInv
  <2>2. ASSUME eJoined
        PROVE  /\ eVersion = Cardinality(Writer) * WriteIters /\ eValue = 10 * eVersion
               /\ eWrites = eVersion /\ eReads = Cardinality(Reader) * ReadIters
    <3>r. /\ Reader \cap Writer = {} /\ Reader \subseteq Entrant /\ Writer \subseteq Entrant
          /\ ReadIters \in Nat /\ WriteIters \in Nat
          /\ IsFiniteSet(Reader) /\ IsFiniteSet(Writer)
      BY EntryAssumption DEF Entrant
    <3>1. /\ \A w \in Writer : eAt[w] = "lock" /\ eIter[w] = WriteIters
          /\ \A r \in Reader : eAt[r] = "lock" /\ eIter[r] = ReadIters
      BY <2>2, <3>r DEF TurnsInv, Turns
    <3>2. Where(Writer, eAt, Uncounted) = {}
      BY <3>1 DEF Where, Uncounted
    <3>3. Cardinality(Where(Writer, eAt, Uncounted)) = 0
      BY <3>2, FS_EmptySet
    <3>4. Cardinality(Made(Writer, WriteIters, eIter)) = Cardinality(Writer) * WriteIters
      BY <3>1, <3>r, AllMade
    <3>5. Cardinality(Made(Reader, ReadIters, eIter)) = Cardinality(Reader) * ReadIters
      BY <3>1, <3>r, AllMade
    <3>6. eValue = 10 * eVersion
      BY <3>1 DEF EntryInv, WholeInv
    <3>7. Cardinality(Made(Writer, WriteIters, eIter)) \in Nat
      BY <3>r, MadeIsFinite
    <3>. QED
      BY <3>3, <3>4, <3>5, <3>6, <3>7 DEF TurnsInv
  <2>. QED
    BY <2>1, <2>2, SameCount DEF E!ReadsAreWhole
<1>3. EntryInv /\ [ProgramsNext]_allVars => EntryInv'
  BY <1>1, EntryStep
<1>4. EntryInv /\ TurnsInv /\ [ProgramsNext]_allVars => TurnsInv'
  BY <1>1, TurnsStep
<1>. QED
  BY <1>2, <1>3, <1>4, EntryInit, TurnsInit, PTL DEF ProgramsSpec

-----------------------------------------------------------------------------
(* The counters.                                                           *)

Stations == {"top", "load", "b_read", "store", "b_write", "unlock"}
Barriers == {"b_read", "b_write"}

CounterTypeInv ==
  /\ kWay \in {"barriers", "bare", "mutex"}
  /\ kCounter \in Nat /\ kHolder \subseteq Adder
  /\ kAt \in [Adder -> Stations] /\ kTmp \in [Adder -> Nat] /\ kIter \in [Adder -> Nat]
  /\ kMyPhase \in [Adder -> Nat] /\ kArrived \in [Adder -> BOOLEAN]
  /\ kWaiting \in [Barriers -> Nat] /\ kPhase \in [Barriers -> Nat]

\* Each way has its stations; a thread that is past the loop's test has a turn left.
RouteInv ==
  /\ \A t \in Adder :
       /\ kAt[t] \in Barriers => kWay = "barriers"
       /\ kAt[t] = "unlock" => kWay = "mutex"
       /\ kIter[t] <= Iterations
       /\ kAt[t] # "top" => kIter[t] < Iterations
  /\ kJoined => \A t \in Adder : kAt[t] = "top" /\ kIter[t] = Iterations

AllTurns == Cardinality(Made(Adder, Iterations, kIter))

\* Under the mutex nobody stores what is no longer true.
MutexInv ==
  kWay = "mutex" =>
    /\ \A t \in Adder : t \in kHolder <=> kAt[t] \in {"load", "store", "unlock"}
    /\ \A t, u \in kHolder : t = u
    /\ \A t \in Adder : kAt[t] = "store" => kTmp[t] = kCounter
    /\ kCounter = AllTurns + (IF \E t \in Adder : kAt[t] = "unlock" THEN 1 ELSE 0)

\* With nothing the counter is never ahead of the turns; a thread that has made a
\* turn knows that others may have undone it, but not that the counter is 0.
BareInv ==
  kWay = "bare" =>
    /\ kCounter <= AllTurns
    /\ \A t \in Adder : kAt[t] = "store" => kTmp[t] <= AllTurns
    /\ (\E t \in Adder : kIter[t] >= 1) => kCounter >= 1
    /\ \A t \in Adder : kAt[t] = "store" /\ kIter[t] >= 1 => kTmp[t] >= 1
    /\ Iterations >= 2 /\ (\A t \in Adder : kIter[t] = Iterations) => kCounter >= 2

\* The threads that a barrier has counted since it opened last.
Counted(b) == {t \in Adder : kAt[t] = b /\ kArrived[t] /\ kMyPhase[t] = kPhase[b]}

\* Between the end of a turn of all and the opening of b_read; a thread may still
\* have to leave b_write.
ReadingAt(t) ==
  \/ kAt[t] \in {"top", "load"} /\ ~kArrived[t] /\ kIter[t] = kPhase["b_write"]
  \/ /\ kAt[t] = "b_read" /\ kIter[t] = kPhase["b_write"] /\ kTmp[t] = kPhase["b_write"]
     /\ kArrived[t] => kMyPhase[t] = kPhase["b_read"]
  \/ /\ kAt[t] = "b_write" /\ kArrived[t] /\ kMyPhase[t] + 1 = kPhase["b_write"]
     /\ kIter[t] + 1 = kPhase["b_write"]

\* Between the opening of b_read and that of b_write.
WritingAt(t) ==
  /\ kIter[t] = kPhase["b_write"] /\ kTmp[t] = kPhase["b_write"]
  /\ \/ kAt[t] = "b_read" /\ kArrived[t] /\ kMyPhase[t] + 1 = kPhase["b_read"]
     \/ kAt[t] = "store" /\ ~kArrived[t]
     \/ kAt[t] = "b_write" /\ (kArrived[t] => kMyPhase[t] = kPhase["b_write"])

Reading ==
  /\ kPhase["b_read"] = kPhase["b_write"] /\ kCounter = kPhase["b_write"]
  /\ \A t \in Adder : ReadingAt(t)

Writing ==
  /\ kPhase["b_read"] = kPhase["b_write"] + 1
  /\ kCounter = kPhase["b_write"] + (IF \E t \in Adder : kAt[t] = "b_write" THEN 1 ELSE 0)
  /\ \A t \in Adder : WritingAt(t)

BarrierInv ==
  kWay = "barriers" =>
    /\ Reading \/ Writing
    /\ \A b \in Barriers : kWaiting[b] = Cardinality(Counted(b))

CounterInv == CounterTypeInv /\ RouteInv /\ MutexInv /\ BareInv /\ BarrierInv

LEMMA CounterInit == ProgramsInit => CounterInv
<1> SUFFICES ASSUME ProgramsInit PROVE CounterInv
  OBVIOUS
<1>1. /\ kWay \in {"barriers", "bare", "mutex"} /\ kCounter = 0 /\ kHolder = {}
      /\ kWaiting = [b \in Barriers |-> 0] /\ kPhase = [b \in Barriers |-> 0]
      /\ kAt = [t \in Adder |-> "top"]
      /\ kTmp = [t \in Adder |-> 0] /\ kIter = [t \in Adder |-> 0]
      /\ kMyPhase = [t \in Adder |-> 0] /\ kArrived = [t \in Adder |-> FALSE]
      /\ kJoined = FALSE
  BY DEF ProgramsInit, K!Init, K!Barrier, Barriers
<1>2. AllTurns = 0
  BY <1>1, CounterAssumption, NoneMade DEF AllTurns
<1>3. CounterTypeInv
  BY <1>1 DEF CounterTypeInv, Stations
<1>4. RouteInv
  BY <1>1, CounterAssumption DEF RouteInv, Barriers
<1>5. MutexInv
  BY <1>1, <1>2 DEF MutexInv
<1>6. BareInv
  BY <1>1, <1>2, CounterAssumption DEF BareInv
<1>7. Counted("b_read") = {} /\ Counted("b_write") = {}
  BY <1>1 DEF Counted
<1>8. BarrierInv
  BY <1>1, <1>7, FS_EmptySet DEF BarrierInv, Reading, ReadingAt, Barriers
<1>. QED
  BY <1>3, <1>4, <1>5, <1>6, <1>8 DEF CounterInv

\* What each step does, told field by field.
StartFacts(t) ==
  /\ kAt[t] = "top" /\ kIter[t] < Iterations
  /\ kWay = "mutex" => kHolder = {}
  /\ kHolder' = IF kWay = "mutex" THEN {t} ELSE {}
  /\ kAt' = [kAt EXCEPT ![t] = "load"]
  /\ UNCHANGED <<kWay, kCounter, kWaiting, kPhase, kTmp, kIter, kMyPhase, kArrived, kJoined>>

LoadFacts(t) ==
  /\ kAt[t] = "load" /\ kTmp' = [kTmp EXCEPT ![t] = kCounter]
  /\ kAt' = [kAt EXCEPT ![t] = IF kWay = "barriers" THEN "b_read" ELSE "store"]
  /\ UNCHANGED <<kWay, kCounter, kHolder, kWaiting, kPhase, kIter, kMyPhase, kArrived, kJoined>>

StoreFacts(t) ==
  /\ kAt[t] = "store" /\ kCounter' = kTmp[t] + 1
  /\ \/ kWay = "barriers" /\ kAt' = [kAt EXCEPT ![t] = "b_write"] /\ UNCHANGED kIter
     \/ kWay = "mutex" /\ kAt' = [kAt EXCEPT ![t] = "unlock"] /\ UNCHANGED kIter
     \/ /\ kWay = "bare" /\ kAt' = [kAt EXCEPT ![t] = "top"]
        /\ kIter' = [kIter EXCEPT ![t] = kIter[t] + 1]
  /\ UNCHANGED <<kWay, kHolder, kWaiting, kPhase, kTmp, kMyPhase, kArrived, kJoined>>

UnlockFacts(t) ==
  /\ kAt[t] = "unlock" /\ kHolder' = kHolder \ {t}
  /\ kAt' = [kAt EXCEPT ![t] = "top"] /\ kIter' = [kIter EXCEPT ![t] = kIter[t] + 1]
  /\ UNCHANGED <<kWay, kCounter, kWaiting, kPhase, kTmp, kMyPhase, kArrived, kJoined>>

PastFacts(t, b) ==
  /\ kArrived' = [kArrived EXCEPT ![t] = FALSE]
  /\ \/ b = "b_read" /\ kAt' = [kAt EXCEPT ![t] = "store"] /\ UNCHANGED kIter
     \/ /\ b = "b_write" /\ kAt' = [kAt EXCEPT ![t] = "top"]
        /\ kIter' = [kIter EXCEPT ![t] = kIter[t] + 1]

ArriveFacts(t, b) ==
  /\ kAt[t] = b /\ ~kArrived[t]
  /\ kWaiting[b] + 1 # Cardinality(Adder)
  /\ kMyPhase' = [kMyPhase EXCEPT ![t] = kPhase[b]]
  /\ kWaiting' = [kWaiting EXCEPT ![b] = kWaiting[b] + 1]
  /\ kArrived' = [kArrived EXCEPT ![t] = TRUE]
  /\ UNCHANGED <<kWay, kCounter, kHolder, kPhase, kAt, kTmp, kIter, kJoined>>

OpenFacts(t, b) ==
  /\ kAt[t] = b /\ ~kArrived[t]
  /\ kWaiting[b] + 1 = Cardinality(Adder)
  /\ kMyPhase' = [kMyPhase EXCEPT ![t] = kPhase[b]]
  /\ kWaiting' = [kWaiting EXCEPT ![b] = 0]
  /\ kPhase' = [kPhase EXCEPT ![b] = kPhase[b] + 1]
  /\ PastFacts(t, b)
  /\ UNCHANGED <<kWay, kCounter, kHolder, kTmp, kJoined>>

WakeFacts(t, b) ==
  /\ kAt[t] = b /\ kArrived[t] /\ kMyPhase[t] # kPhase[b]
  /\ PastFacts(t, b)
  /\ UNCHANGED <<kWay, kCounter, kHolder, kWaiting, kPhase, kTmp, kMyPhase, kJoined>>

JoinFacts ==
  /\ \A t \in Adder : kAt[t] = "top" /\ kIter[t] = Iterations
  /\ UNCHANGED <<kWay, kCounter, kHolder, kWaiting, kPhase, kAt, kTmp, kIter, kMyPhase,
                 kArrived>>

SleepFacts ==
  UNCHANGED <<kWay, kCounter, kHolder, kWaiting, kPhase, kAt, kTmp, kIter, kMyPhase, kArrived,
              kJoined>>

LEMMA SameCounting == ASSUME NEW A PROVE K!Cardinality(A) = Cardinality(A)
BY DEF K!Cardinality, Cardinality

LEMMA CounterCases ==
  ASSUME [K!Next]_counterVars
  PROVE  \/ \E t \in Adder : StartFacts(t) \/ LoadFacts(t) \/ StoreFacts(t) \/ UnlockFacts(t)
         \/ \E t \in Adder, b \in Barriers : ArriveFacts(t, b) \/ OpenFacts(t, b) \/ WakeFacts(t, b)
         \/ JoinFacts \/ SleepFacts
<1>1. ASSUME NEW t \in Adder, K!Start(t) PROVE StartFacts(t)
  BY <1>1 DEF K!Start, K!Goes, StartFacts
<1>2. ASSUME NEW t \in Adder, K!Load(t) PROVE LoadFacts(t)
  BY <1>2 DEF K!Load, K!Goes, LoadFacts
<1>3. ASSUME NEW t \in Adder, K!Store(t) PROVE StoreFacts(t)
  BY <1>3 DEF K!Store, K!Goes, K!Again, StoreFacts
<1>4. ASSUME NEW t \in Adder, K!Unlock(t) PROVE UnlockFacts(t)
  BY <1>4 DEF K!Unlock, K!Goes, K!Again, UnlockFacts
<1>5. ASSUME NEW t \in Adder, NEW b \in Barriers, K!Past(t, b) PROVE PastFacts(t, b)
  BY <1>5 DEF K!Past, K!Goes, K!Again, PastFacts, Barriers
<1>6. ASSUME NEW t \in Adder, NEW b \in Barriers, K!Arrive(t, b)
      PROVE  ArriveFacts(t, b) \/ OpenFacts(t, b)
  <2>1. K!Cardinality(Adder) = Cardinality(Adder)
    BY SameCounting
  <2>2. CASE kWaiting[b] + 1 = Cardinality(Adder)
    BY <1>5, <1>6, <2>1, <2>2 DEF K!Arrive, OpenFacts
  <2>3. CASE kWaiting[b] + 1 # Cardinality(Adder)
    BY <1>6, <2>1, <2>3 DEF K!Arrive, ArriveFacts
  <2>. QED
    BY <2>2, <2>3
<1>7. ASSUME NEW t \in Adder, NEW b \in Barriers, K!Wake(t, b)
      PROVE  WakeFacts(t, b) \/ SleepFacts
  <2>1. CASE kMyPhase[t] = kPhase[b]
    BY <1>7, <2>1 DEF K!Wake, SleepFacts
  <2>2. CASE kMyPhase[t] # kPhase[b]
    BY <1>5, <1>7, <2>2 DEF K!Wake, WakeFacts
  <2>. QED
    BY <2>1, <2>2
<1>8. K!Spurious => SleepFacts
  BY DEF K!Spurious, SleepFacts
<1>9. K!Join => JoinFacts
  BY DEF K!Join, JoinFacts
<1>10. UNCHANGED counterVars => SleepFacts
  BY DEF counterVars, SleepFacts
<1>11. UNCHANGED K!vars => SleepFacts
  BY DEF K!vars, SleepFacts
<1>12. K!Barrier = Barriers
  BY DEF K!Barrier, Barriers
<1>. QED
  BY <1>1, <1>2, <1>3, <1>4, <1>6, <1>7, <1>8, <1>9, <1>10, <1>11, <1>12
  DEF K!Next, K!TurnStep, K!Ended

LEMMA CounterTypeStep ==
  ASSUME CounterInv, [K!Next]_counterVars PROVE CounterTypeInv' /\ RouteInv'
<1>0. CounterTypeInv /\ RouteInv /\ Iterations \in Nat
  BY CounterAssumption DEF CounterInv
<1>1. ASSUME NEW t \in Adder, StartFacts(t) \/ LoadFacts(t)
      PROVE  CounterTypeInv' /\ RouteInv'
  BY <1>0, <1>1 DEF StartFacts, LoadFacts, CounterTypeInv, RouteInv, Stations, Barriers
<1>2. ASSUME NEW t \in Adder, StoreFacts(t) PROVE CounterTypeInv' /\ RouteInv'
  BY <1>0, <1>2 DEF StoreFacts, CounterTypeInv, RouteInv, Stations, Barriers
<1>3. ASSUME NEW t \in Adder, UnlockFacts(t) PROVE CounterTypeInv' /\ RouteInv'
  BY <1>0, <1>3 DEF UnlockFacts, CounterTypeInv, RouteInv, Stations, Barriers
<1>4. ASSUME NEW t \in Adder, NEW b \in Barriers, PastFacts(t, b), kAt[t] = b
      PROVE  /\ kAt' \in [Adder -> Stations] /\ kIter' \in [Adder -> Nat]
             /\ kArrived' \in [Adder -> BOOLEAN]
             /\ \A u \in Adder : /\ kAt'[u] \in Barriers => kWay = "barriers"
                                 /\ kAt'[u] = "unlock" => kWay = "mutex"
                                 /\ kIter'[u] <= Iterations
                                 /\ kAt'[u] # "top" => kIter'[u] < Iterations
  BY <1>0, <1>4 DEF PastFacts, CounterTypeInv, RouteInv, Stations, Barriers
<1>5. ASSUME NEW t \in Adder, NEW b \in Barriers, ArriveFacts(t, b)
      PROVE  CounterTypeInv' /\ RouteInv'
  BY <1>0, <1>5 DEF ArriveFacts, CounterTypeInv, RouteInv
<1>6. ASSUME NEW t \in Adder, NEW b \in Barriers, OpenFacts(t, b) \/ WakeFacts(t, b)
      PROVE  CounterTypeInv' /\ RouteInv'
  <2>1. PastFacts(t, b) /\ kAt[t] = b
    BY <1>6 DEF OpenFacts, WakeFacts
  <2>2. ~kJoined
    BY <1>0, <2>1 DEF RouteInv, Barriers
  <2>3. kMyPhase' \in [Adder -> Nat] /\ kWaiting' \in [Barriers -> Nat]
        /\ kPhase' \in [Barriers -> Nat]
    BY <1>0, <1>6 DEF OpenFacts, WakeFacts, CounterTypeInv
  <2>4. UNCHANGED <<kWay, kCounter, kHolder, kTmp, kJoined>>
    BY <1>6 DEF OpenFacts, WakeFacts
  <2>. QED
    BY <1>0, <1>4, <2>1, <2>2, <2>3, <2>4 DEF CounterTypeInv, RouteInv
<1>7. CASE JoinFacts
  BY <1>0, <1>7 DEF JoinFacts, CounterTypeInv, RouteInv
<1>8. CASE SleepFacts
  BY <1>0, <1>8 DEF SleepFacts, CounterTypeInv, RouteInv
<1>. QED
  BY <1>1, <1>2, <1>3, <1>5, <1>6, <1>7, <1>8, CounterCases

\* The turns that are made, from one step to the next.
LEMMA AllTurnsIsNat ==
  ASSUME CounterInv PROVE AllTurns \in Nat
BY CounterAssumption, MadeIsFinite DEF AllTurns

LEMMA TurnMade ==
  ASSUME CounterInv, NEW t \in Adder, kAt[t] # "top", Moved(kIter, kIter', t, kIter[t] + 1)
  PROVE  AllTurns' = AllTurns + 1
<1>1. /\ kIter[t] \in Nat /\ kIter[t] < Iterations
      /\ kIter'[t] = kIter[t] + 1 /\ \A u \in Adder \ {t} : kIter'[u] = kIter[u]
  BY DEF CounterInv, CounterTypeInv, RouteInv, Moved
<1>2. IsFiniteSet(Adder) /\ Iterations \in Nat
  BY CounterAssumption
<1>3. Cardinality(Made(Adder, Iterations, kIter')) =
        Cardinality(Made(Adder, Iterations, kIter)) + 1
  BY <1>1, <1>2, OneMoreMade
<1>. QED
  BY <1>3 DEF AllTurns

LEMMA NoTurnMade == ASSUME kIter' = kIter PROVE AllTurns' = AllTurns
BY DEF AllTurns

LEMMA MutexStep ==
  ASSUME CounterInv, [K!Next]_counterVars PROVE MutexInv'
<1>0. CounterTypeInv /\ RouteInv /\ MutexInv
  BY DEF CounterInv
<1>1. kWay' = kWay
  BY CounterCases DEF StartFacts, LoadFacts, StoreFacts, UnlockFacts, ArriveFacts, OpenFacts,
                      WakeFacts, JoinFacts, SleepFacts
<1> SUFFICES ASSUME kWay = "mutex" PROVE MutexInv'
  BY <1>1 DEF MutexInv
<1>2. /\ \A t \in Adder : t \in kHolder <=> kAt[t] \in {"load", "store", "unlock"}
      /\ \A t, u \in kHolder : t = u
      /\ \A t \in Adder : kAt[t] = "store" => kTmp[t] = kCounter
      /\ kCounter = AllTurns + (IF \E t \in Adder : kAt[t] = "unlock" THEN 1 ELSE 0)
      /\ \A t \in Adder : kAt[t] \notin Barriers
      /\ AllTurns \in Nat /\ kCounter \in Nat
  BY <1>0, AllTurnsIsNat DEF MutexInv, RouteInv, CounterTypeInv
<1>3. ASSUME NEW t \in Adder, StartFacts(t) PROVE MutexInv'
  <2>1. AllTurns' = AllTurns
    BY <1>3, NoTurnMade DEF StartFacts
  <2>2. \A u \in Adder : kAt[u] \notin {"load", "store", "unlock"}
    BY <1>2, <1>3 DEF StartFacts
  <2>. QED
    BY <1>0, <1>2, <1>3, <2>1, <2>2 DEF StartFacts, MutexInv, CounterTypeInv
<1>4. ASSUME NEW t \in Adder, LoadFacts(t) PROVE MutexInv'
  <2>1. AllTurns' = AllTurns
    BY <1>4, NoTurnMade DEF LoadFacts
  <2>2. /\ kAt' = [kAt EXCEPT ![t] = "store"] /\ kAt[t] = "load"
        /\ kTmp' = [kTmp EXCEPT ![t] = kCounter]
        /\ UNCHANGED <<kCounter, kHolder>>
    BY <1>4 DEF LoadFacts
  <2>3. \A u \in Adder \ {t} : kAt[u] \notin {"load", "store", "unlock"}
    BY <1>2, <2>2
  <2>. QED
    BY <1>0, <1>2, <2>1, <2>2, <2>3 DEF MutexInv, CounterTypeInv
<1>5. ASSUME NEW t \in Adder, StoreFacts(t) PROVE MutexInv'
  <2>1. /\ kAt[t] = "store" /\ kCounter' = kTmp[t] + 1
        /\ kAt' = [kAt EXCEPT ![t] = "unlock"] /\ UNCHANGED <<kIter, kHolder, kTmp>>
    BY <1>5 DEF StoreFacts
  <2>2. AllTurns' = AllTurns
    BY <2>1, NoTurnMade
  <2>3. \A u \in Adder \ {t} : kAt[u] \notin {"load", "store", "unlock"}
    BY <1>2, <2>1
  <2>4. kCounter = AllTurns /\ kTmp[t] = kCounter
    BY <1>2, <2>1, <2>3
  <2>5. (\E u \in Adder : kAt'[u] = "unlock") /\ \A u \in Adder : kAt'[u] # "store"
    BY <1>0, <2>1, <2>3 DEF CounterTypeInv
  <2>6. \A u \in Adder : u \in kHolder' <=> kAt'[u] \in {"load", "store", "unlock"}
    BY <1>0, <1>2, <2>1 DEF CounterTypeInv
  <2>. QED
    BY <1>2, <2>1, <2>2, <2>4, <2>5, <2>6 DEF MutexInv
<1>6. ASSUME NEW t \in Adder, UnlockFacts(t) PROVE MutexInv'
  <2>1. /\ kAt[t] = "unlock" /\ kHolder' = kHolder \ {t}
        /\ kAt' = [kAt EXCEPT ![t] = "top"] /\ kIter' = [kIter EXCEPT ![t] = kIter[t] + 1]
        /\ UNCHANGED <<kCounter, kTmp>>
    BY <1>6 DEF UnlockFacts
  <2>2. AllTurns' = AllTurns + 1
    BY <2>1, TurnMade DEF Moved
  <2>3. \A u \in Adder \ {t} : kAt[u] \notin {"load", "store", "unlock"}
    BY <1>2, <2>1
  <2>4. kCounter = AllTurns + 1
    BY <1>2, <2>1
  <2>5. \A u \in Adder : kAt'[u] \notin {"load", "store", "unlock"} /\ u \notin kHolder'
    BY <1>0, <1>2, <2>1, <2>3 DEF CounterTypeInv
  <2>6. kHolder' = {}
    BY <1>0, <2>1, <2>5 DEF CounterTypeInv
  <2>. QED
    BY <2>1, <2>2, <2>4, <2>5, <2>6 DEF MutexInv
<1>7. CASE \E t \in Adder, b \in Barriers :
             ArriveFacts(t, b) \/ OpenFacts(t, b) \/ WakeFacts(t, b)
  BY <1>2, <1>7 DEF ArriveFacts, OpenFacts, WakeFacts
<1>8. CASE JoinFacts \/ SleepFacts
  <2>1. UNCHANGED <<kIter, kAt, kHolder, kTmp, kCounter>>
    BY <1>8 DEF JoinFacts, SleepFacts
  <2>2. AllTurns' = AllTurns
    BY <2>1, NoTurnMade
  <2>. QED
    BY <1>2, <2>1, <2>2 DEF MutexInv
<1>. QED
  BY <1>3, <1>4, <1>5, <1>6, <1>7, <1>8, CounterCases

LEMMA BareStep ==
  ASSUME CounterInv, [K!Next]_counterVars PROVE BareInv'
<1>0. CounterTypeInv /\ RouteInv /\ BareInv /\ Iterations \in Nat
  BY CounterAssumption DEF CounterInv
<1>1. kWay' = kWay
  BY CounterCases DEF StartFacts, LoadFacts, StoreFacts, UnlockFacts, ArriveFacts, OpenFacts,
                      WakeFacts, JoinFacts, SleepFacts
<1> SUFFICES ASSUME kWay = "bare" PROVE BareInv'
  BY <1>1 DEF BareInv
<1>2. /\ kCounter <= AllTurns
      /\ \A t \in Adder : kAt[t] = "store" => kTmp[t] <= AllTurns
      /\ (\E t \in Adder : kIter[t] >= 1) => kCounter >= 1
      /\ \A t \in Adder : kAt[t] = "store" /\ kIter[t] >= 1 => kTmp[t] >= 1
      /\ Iterations >= 2 /\ (\A t \in Adder : kIter[t] = Iterations) => kCounter >= 2
      /\ \A t \in Adder : kAt[t] \notin Barriers /\ kAt[t] # "unlock"
      /\ AllTurns \in Nat /\ kCounter \in Nat
      /\ \A t \in Adder : kTmp[t] \in Nat /\ kIter[t] \in Nat
  BY <1>0, AllTurnsIsNat DEF BareInv, RouteInv, CounterTypeInv
<1>3. ASSUME NEW t \in Adder, StartFacts(t) PROVE BareInv'
  <2>1. AllTurns' = AllTurns
    BY <1>3, NoTurnMade DEF StartFacts
  <2>2. \A u \in Adder : kAt'[u] = "store" => kAt[u] = "store"
    BY <1>0, <1>3 DEF StartFacts, CounterTypeInv
  <2>3. UNCHANGED <<kCounter, kTmp, kIter>>
    BY <1>3 DEF StartFacts
  <2>. QED
    BY <1>2, <2>1, <2>2, <2>3 DEF BareInv
<1>4. ASSUME NEW t \in Adder, LoadFacts(t) PROVE BareInv'
  <2>1. AllTurns' = AllTurns
    BY <1>4, NoTurnMade DEF LoadFacts
  <2>2. /\ kTmp'[t] = kCounter
        /\ \A u \in Adder \ {t} : kTmp'[u] = kTmp[u] /\ kAt'[u] = kAt[u]
        /\ UNCHANGED <<kCounter, kIter>>
    BY <1>0, <1>4 DEF LoadFacts, CounterTypeInv
  <2>. QED
    BY <1>2, <2>1, <2>2 DEF BareInv
<1>5. ASSUME NEW t \in Adder, StoreFacts(t) PROVE BareInv'
  <2>1. /\ kAt[t] = "store" /\ kCounter' = kTmp[t] + 1
        /\ kAt' = [kAt EXCEPT ![t] = "top"]
        /\ kIter' = [kIter EXCEPT ![t] = kIter[t] + 1] /\ kTmp' = kTmp
    BY <1>5 DEF StoreFacts
  <2>2. AllTurns' = AllTurns + 1
    BY <2>1, TurnMade DEF Moved
  <2>3. /\ kIter'[t] = kIter[t] + 1 /\ kAt'[t] # "store"
        /\ \A u \in Adder \ {t} : kIter'[u] = kIter[u] /\ kAt'[u] = kAt[u]
    BY <1>0, <2>1 DEF CounterTypeInv
  <2>4. kCounter' <= AllTurns' /\ kCounter' >= 1
    BY <1>2, <2>1, <2>2
  <2>5. \A u \in Adder : kAt'[u] = "store" => kTmp'[u] <= AllTurns'
    BY <1>2, <2>1, <2>2, <2>3
  <2>6. \A u \in Adder : kAt'[u] = "store" /\ kIter'[u] >= 1 => kTmp'[u] >= 1
    BY <1>2, <2>1, <2>3
  \* The last store of all is made by a thread that has made a turn before.
  <2>7. Iterations >= 2 /\ (\A u \in Adder : kIter'[u] = Iterations) => kCounter' >= 2
    <3> SUFFICES ASSUME Iterations >= 2, kIter'[t] = Iterations PROVE kCounter' >= 2
      OBVIOUS
    <3>1. kIter[t] >= 1
      BY <1>0, <1>2, <2>3
    <3>. QED
      BY <1>2, <2>1, <3>1
  <2>. QED
    BY <2>4, <2>5, <2>6, <2>7 DEF BareInv
<1>6. CASE \E t \in Adder : UnlockFacts(t)
  BY <1>2, <1>6 DEF UnlockFacts
<1>7. CASE \E t \in Adder, b \in Barriers :
             ArriveFacts(t, b) \/ OpenFacts(t, b) \/ WakeFacts(t, b)
  BY <1>2, <1>7 DEF ArriveFacts, OpenFacts, WakeFacts
<1>8. CASE JoinFacts \/ SleepFacts
  <2>1. UNCHANGED <<kIter, kAt, kTmp, kCounter>>
    BY <1>8 DEF JoinFacts, SleepFacts
  <2>2. AllTurns' = AllTurns
    BY <2>1, NoTurnMade
  <2>. QED
    BY <1>2, <2>1, <2>2 DEF BareInv
<1>. QED
  BY <1>3, <1>4, <1>5, <1>6, <1>7, <1>8, CounterCases

\* Where the threads are in each half of a turn.
LEMMA CountedIsFinite ==
  ASSUME NEW b PROVE IsFiniteSet(Counted(b)) /\ Cardinality(Counted(b)) \in Nat
<1>1. Counted(b) \subseteq Adder
  BY DEF Counted
<1>. QED
  BY <1>1, CounterAssumption, FS_Subset, FS_CardinalityType

\* When a barrier opens, everyone else has been counted at it.
LEMMA AllCounted ==
  ASSUME NEW t \in Adder, NEW b, t \notin Counted(b),
         Cardinality(Counted(b)) + 1 = Cardinality(Adder)
  PROVE  \A u \in Adder \ {t} : u \in Counted(b)
<1>1. IsFiniteSet(Counted(b)) /\ Cardinality(Counted(b)) \in Nat
  BY CountedIsFinite
<1>2. Cardinality(Counted(b) \cup {t}) = Cardinality(Adder)
  BY <1>1, FS_AddElement
<1>3. Counted(b) \cup {t} \subseteq Adder
  BY DEF Counted
<1>4. Counted(b) \cup {t} = Adder
  BY <1>2, <1>3, CounterAssumption, FS_Subset
<1>. QED
  BY <1>4

\* Within a half of a turn a step matters to the thread that makes it.
LEMMA HalfStep ==
  ASSUME NEW t \in Adder, kPhase' = kPhase, Reading \/ Writing,
         \A u \in Adder \ {t} : /\ kAt'[u] = kAt[u] /\ kIter'[u] = kIter[u]
                                /\ kTmp'[u] = kTmp[u] /\ kMyPhase'[u] = kMyPhase[u]
                                /\ kArrived'[u] = kArrived[u],
         Reading => ReadingAt(t)' /\ kCounter' = kCounter,
         Writing => /\ WritingAt(t)'
                    /\ \/ kCounter' = kCounter /\ (kAt'[t] = "b_write" <=> kAt[t] = "b_write")
                       \/ kCounter' = kPhase["b_write"] + 1 /\ kAt'[t] = "b_write"
  PROVE  Reading' \/ Writing'
<1>1. CASE Reading
  <2>1. \A u \in Adder \ {t} : ReadingAt(u)'
    BY <1>1 DEF Reading, ReadingAt
  <2>. QED
    BY <1>1, <2>1 DEF Reading
<1>2. CASE Writing
  <2>1. \A u \in Adder \ {t} : WritingAt(u)'
    BY <1>2 DEF Writing, WritingAt
  <2>2. kCounter' = kPhase["b_write"] + (IF \E u \in Adder : kAt'[u] = "b_write" THEN 1 ELSE 0)
    BY <1>2 DEF Writing
  <2>. QED
    BY <1>2, <2>1, <2>2 DEF Writing
<1>. QED
  BY <1>1, <1>2

LEMMA BarrierStep ==
  ASSUME CounterInv, [K!Next]_counterVars PROVE BarrierInv'
<1>0. CounterTypeInv /\ RouteInv /\ BarrierInv
  BY DEF CounterInv
<1>1. kWay' = kWay
  BY CounterCases DEF StartFacts, LoadFacts, StoreFacts, UnlockFacts, ArriveFacts, OpenFacts,
                      WakeFacts, JoinFacts, SleepFacts
<1> SUFFICES ASSUME kWay = "barriers" PROVE BarrierInv'
  BY <1>1 DEF BarrierInv
<1>2. /\ Reading \/ Writing
      /\ \A b \in Barriers : kWaiting[b] = Cardinality(Counted(b))
      /\ \A t \in Adder : kAt[t] # "unlock"
  BY <1>0 DEF BarrierInv, RouteInv
<1>t. /\ kPhase["b_read"] \in Nat /\ kPhase["b_write"] \in Nat /\ kCounter \in Nat
      /\ \A u \in Adder : kIter[u] \in Nat /\ kTmp[u] \in Nat /\ kMyPhase[u] \in Nat
  BY <1>0 DEF CounterTypeInv, Barriers
\* The steps between the barriers.
<1>3. ASSUME NEW t \in Adder, StartFacts(t) PROVE BarrierInv'
  <2>1. /\ kAt'[t] = "load" /\ kAt[t] = "top" /\ \A u \in Adder \ {t} : kAt'[u] = kAt[u]
        /\ UNCHANGED <<kCounter, kWaiting, kPhase, kTmp, kIter, kMyPhase, kArrived>>
    BY <1>0, <1>3 DEF StartFacts, CounterTypeInv
  <2>2. Reading => ReadingAt(t)'
    BY <2>1 DEF Reading, ReadingAt
  <2>3. ~Writing
    BY <2>1 DEF Writing, WritingAt
  <2>4. Reading' \/ Writing'
    BY <1>2, <2>1, <2>2, <2>3, HalfStep
  <2>5. \A b \in Barriers : Counted(b)' = Counted(b)
    BY <2>1 DEF Counted, Barriers
  <2>. QED
    BY <1>2, <2>1, <2>4, <2>5 DEF BarrierInv
<1>4. ASSUME NEW t \in Adder, LoadFacts(t) PROVE BarrierInv'
  <2>1. /\ kAt'[t] = "b_read" /\ kAt[t] = "load" /\ kTmp'[t] = kCounter
        /\ \A u \in Adder \ {t} : kAt'[u] = kAt[u] /\ kTmp'[u] = kTmp[u]
        /\ UNCHANGED <<kCounter, kWaiting, kPhase, kIter, kMyPhase, kArrived>>
    BY <1>0, <1>4 DEF LoadFacts, CounterTypeInv
  <2>2. ~Writing
    BY <2>1 DEF Writing, WritingAt
  <2>3. Reading => ReadingAt(t)' /\ ~kArrived[t]
    BY <2>1 DEF Reading, ReadingAt
  <2>4. Reading' \/ Writing'
    BY <1>2, <2>1, <2>2, <2>3, HalfStep
  <2>5. \A b \in Barriers : Counted(b)' = Counted(b)
    BY <1>2, <2>1, <2>2, <2>3 DEF Counted, Barriers
  <2>. QED
    BY <1>2, <2>1, <2>4, <2>5 DEF BarrierInv
<1>5. ASSUME NEW t \in Adder, StoreFacts(t) PROVE BarrierInv'
  <2>1. /\ kAt'[t] = "b_write" /\ kAt[t] = "store" /\ kCounter' = kTmp[t] + 1
        /\ \A u \in Adder \ {t} : kAt'[u] = kAt[u]
        /\ UNCHANGED <<kWaiting, kPhase, kTmp, kIter, kMyPhase, kArrived>>
    BY <1>0, <1>5 DEF StoreFacts, CounterTypeInv
  <2>2. ~Reading
    BY <2>1 DEF Reading, ReadingAt
  <2>3. Writing => WritingAt(t)' /\ ~kArrived[t] /\ kCounter' = kPhase["b_write"] + 1
    BY <2>1 DEF Writing, WritingAt
  <2>4. Reading' \/ Writing'
    BY <1>2, <2>1, <2>2, <2>3, HalfStep
  <2>5. \A b \in Barriers : Counted(b)' = Counted(b)
    BY <1>2, <2>1, <2>2, <2>3 DEF Counted, Barriers
  <2>. QED
    BY <1>2, <2>1, <2>4, <2>5 DEF BarrierInv
<1>6. CASE \E t \in Adder : UnlockFacts(t)
  BY <1>2, <1>6 DEF UnlockFacts
\* A thread that comes to a barrier before the last.
<1>7. ASSUME NEW t \in Adder, NEW b \in Barriers, ArriveFacts(t, b) PROVE BarrierInv'
  <2>1. /\ kAt[t] = b /\ ~kArrived[t] /\ kMyPhase'[t] = kPhase[b] /\ kArrived'[t] = TRUE
        /\ \A u \in Adder \ {t} : kMyPhase'[u] = kMyPhase[u] /\ kArrived'[u] = kArrived[u]
        /\ UNCHANGED <<kCounter, kPhase, kAt, kTmp, kIter>>
    BY <1>0, <1>7 DEF ArriveFacts, CounterTypeInv
  <2>2. Reading => ReadingAt(t)'
    BY <2>1 DEF Reading, ReadingAt, Barriers
  <2>3. Writing => WritingAt(t)'
    BY <2>1 DEF Writing, WritingAt, Barriers
  <2>4. Reading' \/ Writing'
    BY <1>2, <2>1, <2>2, <2>3, HalfStep
  <2>5. Counted(b)' = Counted(b) \cup {t} /\ t \notin Counted(b)
    BY <2>1 DEF Counted
  <2>6. Cardinality(Counted(b)') = Cardinality(Counted(b)) + 1
    BY <2>5, CountedIsFinite, FS_AddElement
  <2>7. \A c \in Barriers \ {b} : Counted(c)' = Counted(c)
    BY <2>1 DEF Counted
  <2>8. /\ kWaiting'[b] = kWaiting[b] + 1
        /\ \A c \in Barriers \ {b} : kWaiting'[c] = kWaiting[c]
    BY <1>0, <1>7 DEF ArriveFacts, CounterTypeInv
  <2>9. \A c \in Barriers : kWaiting'[c] = Cardinality(Counted(c)')
    BY <1>2, <2>6, <2>7, <2>8
  <2>. QED
    BY <2>4, <2>9 DEF BarrierInv
\* The last thread opens the barrier: the other half of a turn begins.
<1>8. ASSUME NEW t \in Adder, NEW b \in Barriers, OpenFacts(t, b) PROVE BarrierInv'
  <2>1. /\ kAt[t] = b /\ ~kArrived[t] /\ PastFacts(t, b)
        /\ kPhase'[b] = kPhase[b] + 1 /\ kWaiting'[b] = 0
        /\ \A c \in Barriers \ {b} : kPhase'[c] = kPhase[c] /\ kWaiting'[c] = kWaiting[c]
        /\ \A u \in Adder \ {t} : kMyPhase'[u] = kMyPhase[u]
        /\ UNCHANGED <<kCounter, kTmp>>
    BY <1>0, <1>8 DEF OpenFacts, CounterTypeInv
  <2>2. t \notin Counted(b) /\ Cardinality(Counted(b)) + 1 = Cardinality(Adder)
    BY <1>2, <1>8, <2>1 DEF OpenFacts, Counted
  <2>3. \A u \in Adder \ {t} : kAt[u] = b /\ kArrived[u] /\ kMyPhase[u] = kPhase[b]
    BY <2>2, AllCounted DEF Counted
  <2>4. /\ kArrived'[t] = FALSE /\ kAt'[t] \notin Barriers
        /\ \A u \in Adder \ {t} : /\ kAt'[u] = kAt[u] /\ kArrived'[u] = kArrived[u]
                                  /\ kIter'[u] = kIter[u]
    BY <1>0, <2>1 DEF PastFacts, CounterTypeInv, Barriers
  <2>5. \A c \in Barriers : Counted(c)' = {}
    BY <1>t, <2>1, <2>3, <2>4 DEF Counted, Barriers
  <2>6. \A c \in Barriers \ {b} : Counted(c) = {}
    BY <2>1, <2>3 DEF Counted
  <2>7. \A c \in Barriers : kWaiting'[c] = Cardinality(Counted(c)')
    BY <1>2, <2>1, <2>5, <2>6, FS_EmptySet
  <2>8. CASE b = "b_read"
    <3>1. kAt'[t] = "store" /\ kIter' = kIter
      BY <1>0, <2>1, <2>8 DEF PastFacts, CounterTypeInv
    <3>2. Reading
      BY <1>2, <2>1, <2>8 DEF Writing, WritingAt
    <3>3. kPhase'["b_read"] = kPhase["b_read"] + 1 /\ kPhase'["b_write"] = kPhase["b_write"]
      BY <2>1, <2>8 DEF Barriers
    <3>4. WritingAt(t)'
      BY <2>1, <2>4, <2>8, <3>1, <3>2, <3>3 DEF WritingAt, Reading, ReadingAt
    <3>5. \A u \in Adder \ {t} : WritingAt(u)'
      BY <2>1, <2>3, <2>4, <2>8, <3>1, <3>2, <3>3 DEF WritingAt, Reading, ReadingAt
    <3>6. \A u \in Adder : kAt'[u] # "b_write"
      BY <2>3, <2>4, <2>8, <3>1
    <3>7. Writing'
      BY <1>t, <2>1, <3>2, <3>3, <3>4, <3>5, <3>6 DEF Writing, Reading
    <3>. QED
      BY <2>7, <3>7 DEF BarrierInv
  <2>9. CASE b = "b_write"
    <3>1. kAt'[t] = "top" /\ kIter'[t] = kIter[t] + 1
      BY <1>0, <2>1, <2>9 DEF PastFacts, CounterTypeInv
    <3>2. Writing
      BY <1>2, <2>1, <2>9 DEF Reading, ReadingAt
    <3>3. kPhase'["b_write"] = kPhase["b_write"] + 1 /\ kPhase'["b_read"] = kPhase["b_read"]
      BY <2>1, <2>9 DEF Barriers
    <3>4. ReadingAt(t)'
      BY <2>4, <3>1, <3>2, <3>3 DEF Writing, WritingAt, ReadingAt
    <3>5. \A u \in Adder \ {t} : ReadingAt(u)'
      BY <2>1, <2>3, <2>4, <2>9, <3>2, <3>3 DEF Writing, WritingAt, ReadingAt
    <3>6. Reading'
      BY <1>t, <2>1, <2>9, <3>2, <3>3, <3>4, <3>5 DEF Writing, Reading
    <3>. QED
      BY <2>7, <3>6 DEF BarrierInv
  <2>. QED
    BY <2>8, <2>9 DEF Barriers
\* A thread that wakes up after that leaves.
<1>9. ASSUME NEW t \in Adder, NEW b \in Barriers, WakeFacts(t, b) PROVE BarrierInv'
  <2>1. /\ kAt[t] = b /\ kArrived[t] /\ kMyPhase[t] # kPhase[b] /\ PastFacts(t, b)
        /\ UNCHANGED <<kCounter, kWaiting, kPhase, kTmp, kMyPhase>>
    BY <1>9 DEF WakeFacts
  <2>2. /\ kArrived'[t] = FALSE
        /\ IF b = "b_read" THEN kAt'[t] = "store" /\ kIter'[t] = kIter[t]
                           ELSE kAt'[t] = "top" /\ kIter'[t] = kIter[t] + 1
        /\ \A u \in Adder \ {t} : /\ kAt'[u] = kAt[u] /\ kArrived'[u] = kArrived[u]
                                  /\ kIter'[u] = kIter[u]
    BY <1>0, <2>1 DEF PastFacts, CounterTypeInv
  <2>3. Reading => b = "b_write" /\ ReadingAt(t)'
    BY <1>t, <2>1, <2>2 DEF Reading, ReadingAt, Barriers
  <2>4. Writing => b = "b_read" /\ WritingAt(t)'
    BY <1>t, <2>1, <2>2 DEF Writing, WritingAt, Barriers
  <2>5. Reading' \/ Writing'
    BY <1>2, <2>1, <2>2, <2>3, <2>4, HalfStep
  <2>6. \A c \in Barriers : Counted(c)' = Counted(c)
    BY <2>1, <2>2 DEF Counted, Barriers
  <2>. QED
    BY <1>2, <2>1, <2>5, <2>6 DEF BarrierInv
<1>10. CASE JoinFacts \/ SleepFacts
  BY <1>2, <1>10 DEF JoinFacts, SleepFacts, BarrierInv, Reading, Writing, ReadingAt, WritingAt,
                     Counted
<1>. QED
  BY <1>3, <1>4, <1>5, <1>6, <1>7, <1>8, <1>9, <1>10, CounterCases

\* No addition is lost under the mutex; between two barriers exactly one of each
\* round is kept; with neither at least two are left: for any number of threads
\* and turns (e03_race_condition_demo, e04_mutex_contador_seguro, ej52).
THEOREM CountersAreRight == ProgramsSpec => []K!CounterIsRight
<1>1. [ProgramsNext]_allVars => [K!Next]_counterVars
  BY DEF ProgramsNext, allVars, PipelineTurn, PoolTurn, StockTurn, KitchenTurn,
         EntryTurn, LimiterTurn, CountersTurn, CacheTurn, CopyTurn, WalkTurn,
         SignalsTurn
<1>2. CounterInv => K!CounterIsRight
  <2> SUFFICES ASSUME CounterInv PROVE K!CounterIsRight
    OBVIOUS
  <2>0. CounterTypeInv /\ RouteInv /\ MutexInv /\ BareInv /\ BarrierInv
    BY DEF CounterInv
  <2>1. ASSUME kWay = "barriers"
        PROVE  /\ \A t \in Adder : kCounter \in {kIter[t], kIter[t] + 1}
               /\ \A t \in Adder : kAt[t] = "store" => kCounter \in {kTmp[t], kTmp[t] + 1}
    <3>1. CASE Reading
      BY <2>0, <3>1 DEF Reading, ReadingAt, CounterTypeInv
    <3>2. CASE Writing
      BY <2>0, <3>2 DEF Writing, WritingAt, CounterTypeInv
    <3>. QED
      BY <2>0, <2>1, <3>1, <3>2 DEF BarrierInv
  <2>2. ASSUME kJoined
        PROVE  /\ kWay = "barriers" => kCounter = Iterations
               /\ kWay = "mutex" => kCounter = Cardinality(Adder) * Iterations
               /\ kWay = "bare" => /\ kCounter <= Cardinality(Adder) * Iterations
                                   /\ Iterations >= 2 => kCounter >= 2
    <3>1. \A t \in Adder : kAt[t] = "top" /\ kIter[t] = Iterations
      BY <2>0, <2>2 DEF RouteInv
    <3>2. AllTurns = Cardinality(Adder) * Iterations
      BY <3>1, CounterAssumption, AllMade DEF AllTurns
    <3>3. PICK t \in Adder : kAt[t] = "top" /\ kIter[t] = Iterations
      BY <3>1, CounterAssumption
    <3>4. kWay = "barriers" => kCounter = Iterations
      BY <2>0, <3>3 DEF BarrierInv, Reading, ReadingAt, Writing, WritingAt
    <3>5. AllTurns \in Nat
      BY AllTurnsIsNat
    <3>6. kWay = "mutex" => kCounter = AllTurns
      BY <2>0, <3>1, <3>5 DEF MutexInv
    <3>7. kWay = "bare" => kCounter <= AllTurns /\ (Iterations >= 2 => kCounter >= 2)
      BY <2>0, <3>1 DEF BareInv
    <3>. QED
      BY <3>2, <3>4, <3>6, <3>7
  <2>. QED
    BY <2>1, <2>2, SameCounting DEF K!CounterIsRight
<1>3. CounterInv /\ [ProgramsNext]_allVars => CounterInv'
  BY <1>1, CounterTypeStep, MutexStep, BareStep, BarrierStep DEF CounterInv
<1>. QED
  BY <1>2, <1>3, CounterInit, PTL DEF ProgramsSpec

-----------------------------------------------------------------------------
(* The counted stock, with one producer and one consumer, and the kitchen. *)

StockStates == {"ready", "cv_not_full", "cv_not_empty", "done"}

\* The producer stops behind its last item, the consumer behind the empty shelf.
StockInv ==
  /\ sStock \in 0 .. Shelf /\ sProduced \in 0 .. TargetItems /\ sConsumed \in Nat
  /\ sProduced = sStock + sConsumed
  /\ sState \in [{"producer", "consumer"} -> StockStates]
  /\ sDone => sState["producer"] = "done" /\ sProduced = TargetItems
  /\ sState["consumer"] = "done" => sDone /\ sStock = 0
  /\ sJoined => \A t \in {"producer", "consumer"} : sState[t] = "done"

LEMMA StockSignal ==
  ASSUME StockInv, NEW cv \in {"cv_not_full", "cv_not_empty"}, NEW s \in S!AfterSignal(sState, cv)
  PROVE  /\ s \in [{"producer", "consumer"} -> StockStates]
         /\ \A t \in {"producer", "consumer"} : s[t] = "done" <=> sState[t] = "done"
BY DEF S!AfterSignal, S!Asleep, StockInv, StockStates

LEMMA StockStep ==
  ASSUME StockInv, [S!Next]_stockVars PROVE StockInv'
<1>0. /\ TargetItems \in Nat /\ Shelf \in Nat \ {0}
      /\ S!Thread = {"producer", "consumer"}
  BY StockAssumption DEF S!Thread
<1>1. CASE S!Produce
  <2>1. sState["producer"] = "ready" /\ sProduced < TargetItems
        /\ UNCHANGED <<sConsumed, sDone, sJoined>>
    BY <1>1 DEF S!Produce
  <2>2. CASE sStock = Shelf
    <3>1. /\ sState' = [sState EXCEPT !["producer"] = "cv_not_full"]
          /\ UNCHANGED <<sStock, sProduced>>
      BY <1>1, <2>2 DEF S!Produce, S!Waits
    <3>. QED
      BY <1>0, <2>1, <3>1 DEF StockInv, StockStates
  <2>3. CASE sStock # Shelf
    <3>1. /\ sStock' = sStock + 1 /\ sProduced' = sProduced + 1
          /\ sState' \in S!AfterSignal(sState, "cv_not_empty")
      BY <1>1, <2>3 DEF S!Produce
    <3>2. /\ sState' \in [{"producer", "consumer"} -> StockStates]
          /\ \A t \in {"producer", "consumer"} : sState'[t] = "done" <=> sState[t] = "done"
      BY <3>1, StockSignal
    <3>. QED
      BY <1>0, <2>1, <2>3, <3>1, <3>2 DEF StockInv
  <2>. QED
    BY <2>2, <2>3
<1>2. CASE S!Finish
  BY <1>0, <1>2 DEF S!Finish, S!AfterBroadcast, S!Asleep, StockInv, StockStates
<1>3. CASE S!Consume
  <2>1. sState["consumer"] = "ready" /\ UNCHANGED <<sProduced, sDone, sJoined>>
    BY <1>3 DEF S!Consume
  <2>2. CASE sStock > 0
    <3>1. /\ sStock' = sStock - 1 /\ sConsumed' = sConsumed + 1
          /\ sState' \in S!AfterSignal(sState, "cv_not_full")
      BY <1>3, <2>2 DEF S!Consume
    <3>2. /\ sState' \in [{"producer", "consumer"} -> StockStates]
          /\ \A t \in {"producer", "consumer"} : sState'[t] = "done" <=> sState[t] = "done"
      BY <3>1, StockSignal
    <3>. QED
      BY <1>0, <2>1, <2>2, <3>1, <3>2 DEF StockInv
  <2>3. CASE ~(sStock > 0)
    <3>1. /\ sState' = [sState EXCEPT !["consumer"] = IF sDone THEN "done" ELSE "cv_not_empty"]
          /\ UNCHANGED <<sStock, sConsumed>>
      BY <1>3, <2>3 DEF S!Consume, S!Waits
    <3>2. sStock = 0
      BY <1>0, <2>3 DEF StockInv
    <3>. QED
      BY <1>0, <2>1, <3>1, <3>2 DEF StockInv, StockStates
  <2>. QED
    BY <2>2, <2>3
<1>4. CASE S!Spurious
  BY <1>0, <1>4 DEF S!Spurious, StockInv, StockStates
<1>5. CASE S!Join
  BY <1>0, <1>5 DEF S!Join, StockInv
<1>6. CASE UNCHANGED stockVars
  BY <1>6 DEF stockVars, StockInv
<1>. QED
  BY <1>1, <1>2, <1>3, <1>4, <1>5, <1>6 DEF S!Next, S!Ended, S!vars, stockVars

\* The shelf is never overdrawn or overfilled, and nothing is left on it at the end,
\* for any length of the shelf (e05_condvar_productor_consumidor).
THEOREM StockStaysRight == ProgramsSpec => [](chosen = "stock" => S!StockIsRight)
<1>1. ProgramsInit => (chosen = "stock" => StockInv)
  <2> SUFFICES ASSUME ProgramsInit, chosen = "stock" PROVE StockInv
    OBVIOUS
  <2>1. S!Init
    BY DEF ProgramsInit
  <2>. QED
    BY <2>1, StockAssumption DEF S!Init, S!Thread, StockInv, StockStates
<1>2. (chosen = "stock" => StockInv) /\ [ProgramsNext]_allVars => (chosen = "stock" => StockInv)'
  <2> SUFFICES ASSUME chosen = "stock" => StockInv, [ProgramsNext]_allVars, chosen' = "stock"
               PROVE  StockInv'
    OBVIOUS
  <2>1. chosen = "stock" /\ [S!Next]_stockVars
    BY DEF ProgramsNext, allVars, PipelineTurn, PoolTurn, StockTurn, KitchenTurn,
           EntryTurn, LimiterTurn, CountersTurn, CacheTurn, CopyTurn, WalkTurn,
         SignalsTurn
  <2>. QED
    BY <2>1, StockStep
<1>3. StockInv => S!StockIsRight
  BY StockAssumption DEF StockInv, S!StockIsRight
<1>. QED
  BY <1>1, <1>2, <1>3, PTL DEF ProgramsSpec

\* A diner goes when all dishes are eaten and sleeps only while one is still to come.
KitchenInv ==
  /\ sStock \in Nat /\ sProduced \in 0 .. Dishes /\ sConsumed \in 0 .. Dishes
  /\ sProduced = sStock + sConsumed
  /\ sState \in [Diner \cup {"cook"} -> {"ready", "cv_stock", "done"}]
  /\ sState["cook"] = "done" => sProduced = Dishes
  /\ sDone => sState["cook"] = "done"
  /\ \A d \in Diner : /\ sState[d] = "cv_stock" => sProduced < Dishes
                      /\ sState[d] = "done" => sConsumed = Dishes
  /\ sJoined => sDone /\ \A d \in Diner : sState[d] = "done"

LEMMA KitchenStep ==
  ASSUME KitchenInv, [S!KitchenNext]_stockVars PROVE KitchenInv'
<1>0. Dishes \in Nat /\ "cook" \notin Diner
  BY StockAssumption
<1>1. CASE S!Cook
  BY <1>0, <1>1 DEF S!Cook, S!AfterBroadcast, S!Asleep, KitchenInv
<1>2. CASE S!CookGoes
  BY <1>0, <1>2 DEF S!CookGoes, KitchenInv
<1>3. CASE S!LastBell
  BY <1>0, <1>3 DEF S!LastBell, S!AfterBroadcast, S!Asleep, KitchenInv
<1>4. ASSUME NEW d \in Diner, S!Dine(d) PROVE KitchenInv'
  <2>1. sState[d] = "ready" /\ UNCHANGED <<sProduced, sDone, sJoined>> /\ ~sJoined
    BY <1>4 DEF S!Dine, KitchenInv
  <2>2. CASE sStock = 0 /\ sConsumed < Dishes
    <3>1. sState' = [sState EXCEPT ![d] = "cv_stock"] /\ UNCHANGED <<sStock, sConsumed>>
      BY <1>0, <1>4, <2>2 DEF S!Dine, S!Waits, KitchenInv
    <3>2. sProduced < Dishes
      BY <1>0, <2>2 DEF KitchenInv
    <3>. QED
      BY <1>0, <2>1, <3>1, <3>2 DEF KitchenInv
  <2>3. CASE ~(sConsumed < Dishes)
    <3>1. sState' = [sState EXCEPT ![d] = "done"] /\ UNCHANGED <<sStock, sConsumed>>
      BY <1>0, <1>4, <2>3 DEF S!Dine
    <3>2. sConsumed = Dishes
      BY <1>0, <2>3 DEF KitchenInv
    <3>. QED
      BY <1>0, <2>1, <3>1, <3>2 DEF KitchenInv
  <2>4. CASE sStock # 0 /\ sConsumed < Dishes
    <3>1. sStock' = sStock - 1 /\ sConsumed' = sConsumed + 1 /\ sState' = sState
      BY <1>0, <1>4, <2>4 DEF S!Dine, KitchenInv
    <3>. QED
      BY <1>0, <2>1, <2>4, <3>1 DEF KitchenInv
  <2>. QED
    BY <2>2, <2>3, <2>4
<1>5. CASE S!KitchenSpurious
  BY <1>0, <1>5 DEF S!KitchenSpurious, KitchenInv
<1>6. CASE S!KitchenJoin
  BY <1>0, <1>6 DEF S!KitchenJoin, KitchenInv
<1>7. CASE UNCHANGED stockVars
  BY <1>7 DEF stockVars, KitchenInv
<1>. QED
  BY <1>1, <1>2, <1>3, <1>4, <1>5, <1>6, <1>7 DEF S!KitchenNext, S!Ended, S!vars, stockVars

\* With one condition for all, no dish is eaten twice or left, and with the last dish
\* on the table nobody sleeps, for any number of diners and dishes (ej53).
THEOREM KitchenStaysRight == ProgramsSpec => [](chosen = "kitchen" => S!KitchenIsRight)
<1>1. ProgramsInit => (chosen = "kitchen" => KitchenInv)
  <2> SUFFICES ASSUME ProgramsInit, chosen = "kitchen" PROVE KitchenInv
    OBVIOUS
  <2>1. S!KitchenInit
    BY DEF ProgramsInit
  <2>. QED
    BY <2>1, StockAssumption DEF S!KitchenInit, KitchenInv
<1>2. (chosen = "kitchen" => KitchenInv) /\ [ProgramsNext]_allVars
        => (chosen = "kitchen" => KitchenInv)'
  <2> SUFFICES ASSUME chosen = "kitchen" => KitchenInv, [ProgramsNext]_allVars, chosen' = "kitchen"
               PROVE  KitchenInv'
    OBVIOUS
  <2>1. chosen = "kitchen" /\ [S!KitchenNext]_stockVars
    BY DEF ProgramsNext, allVars, PipelineTurn, PoolTurn, StockTurn, KitchenTurn,
           EntryTurn, LimiterTurn, CountersTurn, CacheTurn, CopyTurn, WalkTurn,
         SignalsTurn
  <2>. QED
    BY <2>1, KitchenStep
<1>3. KitchenInv => S!KitchenIsRight
  <2> SUFFICES ASSUME KitchenInv PROVE S!KitchenIsRight
    OBVIOUS
  <2>1. sJoined => sConsumed = Dishes /\ sStock = 0
    BY StockAssumption DEF KitchenInv
  <2>. QED
    BY <2>1, StockAssumption DEF KitchenInv, S!KitchenIsRight
<1>. QED
  BY <1>1, <1>2, <1>3, PTL DEF ProgramsSpec

-----------------------------------------------------------------------------
(* The programs that signals control.                                      *)

SignalPlaces ==
  {"start", "load", "open", "write", "install", "test", "enter", "paused", "look", "apply",
   "reset", "sleep", "unlink", "end"}

SignalTypes ==
  /\ gProg \in {"shield", "service", "counter"}
  /\ gAt \in [G!Proc -> SignalPlaces] /\ gCause \in [G!Proc -> G!Signal \cup {"none"}]
  /\ gRun \in [G!Proc -> BOOLEAN] /\ gReload \in [G!Proc -> BOOLEAN]
  /\ gOwed \in [G!Proc -> {"asked", "late", "none"}]
  /\ gCount \in [G!Proc -> Nat] /\ gLast \in [G!Proc -> Int]
  /\ gPending \in [G!Proc -> SUBSET G!Signal] /\ gSent \in [G!Signal -> Nat]

\* The pid file: whoever is past its open is the only one, and a file without an
\* owner was left by a daemon that died.
PidFileInv ==
  gProg = "service" =>
    /\ \A p, r \in Daemon : G!Owner(p) /\ G!Owner(r) => p = r
    /\ \A p \in Daemon : G!Owner(p) => gPidFile = IF gAt[p] = "write" THEN "empty" ELSE p
    /\ gPidFile = "none" \/ (\E p \in Daemon : G!Owner(p))
         \/ \E p \in Daemon : gPidFile \in {p, "empty"} /\ gCause[p] # "none"

\* A reload that was asked for stands in its flag: no reset is due.
ReloadInv ==
  \A p \in G!Proc : /\ gOwed[p] = "asked" => gReload[p]
                    /\ gAt[p] = "reset" => gOwed[p] # "asked"

\* What is pending or was handled was sent.
SentInv ==
  /\ \A p \in G!Proc : \A s \in gPending[p] : gSent[s] > 0
  /\ gProg = "shield" =>
       /\ gCount[Single] + (IF "INT" \in gPending[Single] THEN 1 ELSE 0) <= gSent["INT"]
       /\ gRun[Single] \/ gSent["TERM"] > 0 \/ gSent["INT"] >= Hits
  /\ \A p \in G!Proc : gLast[p] <= gCount[p]

SignalInv == SignalTypes /\ PidFileInv /\ ReloadInv /\ SentInv

LEMMA SignalInit == ProgramsInit => SignalInv
<1> SUFFICES ASSUME ProgramsInit PROVE SignalInv
  OBVIOUS
<1>1. G!Init
  BY DEF ProgramsInit
<1>2. SignalTypes
  BY <1>1 DEF G!Init, SignalTypes, SignalPlaces, G!None
<1>3. PidFileInv
  BY <1>1 DEF G!Init, PidFileInv, G!None, G!Owner, G!Proc
<1>4. ReloadInv
  BY <1>1 DEF G!Init, ReloadInv, G!None
<1>5. SentInv
  BY <1>1, SignalAssumption DEF G!Init, SentInv, G!Proc, G!Signal
<1>. QED
  BY <1>2, <1>3, <1>4, <1>5 DEF SignalInv

\* What a step of a process by itself changes.
LEMMA OwnSteps ==
  ASSUME SignalTypes, NEW p \in G!Proc, G!Begin(p) \/ G!Works(p)
  PROVE  /\ UNCHANGED <<gProg, gPending, gRun, gCount, gSent>>
         /\ \E to \in SignalPlaces : /\ gAt' = [gAt EXCEPT ![p] = to]
                                     /\ to = "reset" => gOwed' = [gOwed EXCEPT ![p] = "none"]
         /\ gCause' = gCause \/ gCause' = [gCause EXCEPT ![p] = "INT"]
         /\ gReload' = gReload \/ (gReload' = [gReload EXCEPT ![p] = FALSE] /\ gAt[p] = "reset")
         /\ gOwed' = gOwed \/ gOwed' = [gOwed EXCEPT ![p] = "none"]
         /\ gLast' = gLast \/ gLast' = [gLast EXCEPT ![p] = gCount[p]]
<1>1. CASE G!Begin(p)
  <2>1. \E to \in {"load", "open", "end", "install"} : gAt' = [gAt EXCEPT ![p] = to]
    BY <1>1 DEF G!Begin, G!Goes
  <2>2. \E to \in SignalPlaces : /\ gAt' = [gAt EXCEPT ![p] = to]
                               /\ to # "reset"
    BY <2>1 DEF SignalPlaces
  <2>. QED
    BY <1>1, <2>2 DEF G!Begin
<1>2. CASE G!Unblock(p)
  <2>1. \E to \in {"end", "install"} : gAt' = [gAt EXCEPT ![p] = to]
    BY <1>2 DEF G!Unblock, G!Goes
  <2>2. \E to \in SignalPlaces : /\ gAt' = [gAt EXCEPT ![p] = to]
                               /\ to # "reset"
    BY <2>1 DEF SignalPlaces
  <2>. QED
    BY <1>2, <2>2 DEF G!Unblock
<1>3. CASE G!OpenPidFile(p)
  <2>1. \E to \in {"write", "end"} : gAt' = [gAt EXCEPT ![p] = to]
    BY <1>3 DEF G!OpenPidFile, G!Goes
  <2>2. \E to \in SignalPlaces : /\ gAt' = [gAt EXCEPT ![p] = to]
                               /\ to # "reset"
    BY <2>1 DEF SignalPlaces
  <2>. QED
    BY <1>3, <2>2 DEF G!OpenPidFile
<1>4. CASE G!WritePid(p)
  <2>1. \E to \in {"install"} : gAt' = [gAt EXCEPT ![p] = to]
    BY <1>4 DEF G!WritePid, G!Goes
  <2>2. \E to \in SignalPlaces : /\ gAt' = [gAt EXCEPT ![p] = to]
                               /\ to # "reset"
    BY <2>1 DEF SignalPlaces
  <2>. QED
    BY <1>4, <2>2 DEF G!WritePid
<1>5. CASE G!Install(p)
  <2>1. \E to \in {"install", "test"} : gAt' = [gAt EXCEPT ![p] = to]
    BY <1>5 DEF G!Install, G!Goes
  <2>2. \E to \in SignalPlaces : /\ gAt' = [gAt EXCEPT ![p] = to]
                               /\ to # "reset"
    BY <2>1 DEF SignalPlaces
  <2>. QED
    BY <1>5, <2>2 DEF G!Install
<1>6. CASE G!Test(p)
  <2>1. \E to \in {"enter", "look", "unlink", "end"} : gAt' = [gAt EXCEPT ![p] = to]
    BY <1>6 DEF G!Test, G!Goes, SignalTypes
  <2>2. \E to \in SignalPlaces : /\ gAt' = [gAt EXCEPT ![p] = to]
                               /\ to # "reset"
    BY <2>1 DEF SignalPlaces
  <2>. QED
    BY <1>6, <2>2 DEF G!Test
<1>7. CASE G!Pause(p)
  <2>1. \E to \in {"paused"} : gAt' = [gAt EXCEPT ![p] = to]
    BY <1>7 DEF G!Pause, G!Goes
  <2>2. \E to \in SignalPlaces : /\ gAt' = [gAt EXCEPT ![p] = to]
                               /\ to # "reset"
    BY <2>1 DEF SignalPlaces
  <2>. QED
    BY <1>7, <2>2 DEF G!Pause
<1>8. CASE G!Look(p)
  <2>1. \E to \in {"apply", "sleep"} : gAt' = [gAt EXCEPT ![p] = to]
    BY <1>8 DEF G!Look, G!Goes
  <2>2. \E to \in SignalPlaces : /\ gAt' = [gAt EXCEPT ![p] = to]
                               /\ to # "reset"
    BY <2>1 DEF SignalPlaces
  <2>. QED
    BY <1>8, <2>2 DEF G!Look
<1>9. CASE G!Apply(p)
  <2>1. \E to \in {"reset"} : gAt' = [gAt EXCEPT ![p] = to]
    BY <1>9 DEF G!Apply, G!Goes
  <2>2. \E to \in SignalPlaces : /\ gAt' = [gAt EXCEPT ![p] = to]
                               /\ to = "reset"
    BY <2>1 DEF SignalPlaces
  <2>. QED
    BY <1>9, <2>2 DEF G!Apply, G!None
<1>10. CASE G!Reset(p)
  <2>1. \E to \in {"sleep"} : gAt' = [gAt EXCEPT ![p] = to]
    BY <1>10 DEF G!Reset, G!Goes
  <2>2. \E to \in SignalPlaces : /\ gAt' = [gAt EXCEPT ![p] = to]
                               /\ to # "reset"
    BY <2>1 DEF SignalPlaces
  <2>. QED
    BY <1>10, <2>2 DEF G!Reset, G!Goes
<1>11. CASE G!Elapse(p)
  <2>1. \E to \in {"test"} : gAt' = [gAt EXCEPT ![p] = to]
    BY <1>11 DEF G!Elapse, G!Goes
  <2>2. \E to \in SignalPlaces : /\ gAt' = [gAt EXCEPT ![p] = to]
                               /\ to # "reset"
    BY <2>1 DEF SignalPlaces
  <2>. QED
    BY <1>11, <2>2 DEF G!Elapse
<1>12. CASE G!Unlink(p)
  <2>1. \E to \in {"end"} : gAt' = [gAt EXCEPT ![p] = to]
    BY <1>12 DEF G!Unlink, G!Goes
  <2>2. \E to \in SignalPlaces : /\ gAt' = [gAt EXCEPT ![p] = to]
                               /\ to # "reset"
    BY <2>1 DEF SignalPlaces
  <2>. QED
    BY <1>12, <2>2 DEF G!Unlink
<1>. QED
  BY <1>1, <1>2, <1>3, <1>4, <1>5, <1>6, <1>7, <1>8, <1>9, <1>10, <1>11, <1>12 DEF G!Works

LEMMA OwnStepsKeepTypes ==
  ASSUME SignalInv, NEW p \in G!Proc, G!Begin(p) \/ G!Works(p)
  PROVE  SignalTypes' /\ ReloadInv' /\ SentInv'
<1>0. SignalTypes
  BY DEF SignalInv
<1>1. /\ UNCHANGED <<gProg, gPending, gRun, gCount, gSent>>
      /\ \E to \in SignalPlaces : /\ gAt' = [gAt EXCEPT ![p] = to]
                                  /\ to = "reset" => gOwed' = [gOwed EXCEPT ![p] = "none"]
      /\ gCause' = gCause \/ gCause' = [gCause EXCEPT ![p] = "INT"]
      /\ gReload' = gReload \/ (gReload' = [gReload EXCEPT ![p] = FALSE] /\ gAt[p] = "reset")
      /\ gOwed' = gOwed \/ gOwed' = [gOwed EXCEPT ![p] = "none"]
      /\ gLast' = gLast \/ gLast' = [gLast EXCEPT ![p] = gCount[p]]
  BY <1>0, OwnSteps
<1>p. G!Proc' = G!Proc
  BY <1>1 DEF G!Proc
<1>2. SignalTypes'
  <2>1. gAt' \in [G!Proc -> SignalPlaces] /\ gCause' \in [G!Proc -> G!Signal \cup {"none"}]
    BY <1>0, <1>1, <1>p DEF SignalTypes, G!Signal
  <2>2. gReload' \in [G!Proc -> BOOLEAN] /\ gOwed' \in [G!Proc -> {"asked", "late", "none"}]
    BY <1>0, <1>1, <1>p DEF SignalTypes
  <2>3. gLast' \in [G!Proc -> Int]
    BY <1>0, <1>1, <1>p DEF SignalTypes
  <2>. QED
    BY <1>0, <1>1, <1>p, <2>1, <2>2, <2>3 DEF SignalTypes, G!Signal
<1>3. ReloadInv'
  BY <1>0, <1>1, <1>p DEF SignalTypes, SignalInv, ReloadInv
<1>4. SentInv'
  BY <1>0, <1>1, <1>p DEF SignalTypes, SignalInv, SentInv, G!Proc
<1>. QED
  BY <1>2, <1>3, <1>4

\* A step that leaves the file and the places of its owners as they are.
LEMMA OwnerStays ==
  ASSUME SignalTypes, PidFileInv, NEW p \in G!Proc, NEW to \in SignalPlaces,
         gAt' = [gAt EXCEPT ![p] = to], UNCHANGED <<gProg, gPidFile, gCause>>,
         gProg = "service" =>
           \/ G!Owner(p) /\ gAt[p] # "write" /\ to \notin {"start", "open", "end", "write"}
           \/ ~G!Owner(p) /\ to \in {"open", "end"}
  PROVE  PidFileInv'
BY DEF SignalTypes, PidFileInv, G!Owner, G!Proc

LEMMA OwnStepsKeepFile ==
  ASSUME SignalInv, NEW p \in G!Proc, G!Begin(p) \/ G!Works(p)
  PROVE  PidFileInv'
<1>0. SignalTypes /\ PidFileInv /\ gProg' = gProg
  BY OwnSteps DEF SignalInv
<1> SUFFICES ASSUME gProg = "service" PROVE PidFileInv'
  BY <1>0 DEF PidFileInv
<1>p. p \in Daemon /\ G!Proc = Daemon /\ "none" \notin Daemon /\ "empty" \notin Daemon
  BY SignalAssumption DEF G!Proc
<1>1. CASE G!Begin(p)
  <2>1. PICK to \in {"open", "end"} : gAt[p] = "start" /\ gAt' = [gAt EXCEPT ![p] = to]
    BY <1>1 DEF G!Begin, G!Goes
  <2>2. UNCHANGED <<gPidFile, gCause>>
    BY <1>1 DEF G!Begin
  <2>3. to \in SignalPlaces /\ ~G!Owner(p)
    BY <2>1 DEF SignalPlaces, G!Owner
  <2>. QED
    BY <1>0, <2>1, <2>2, <2>3, OwnerStays
<1>2. CASE G!Unblock(p)
  <2>1. CASE "INT" \in gPending[p]
    <3>1. /\ gAt[p] = "load" /\ gAt' = [gAt EXCEPT ![p] = "end"]
          /\ gCause' = [gCause EXCEPT ![p] = "INT"] /\ gPidFile' = gPidFile
      BY <1>2, <2>1 DEF G!Unblock, G!Goes
    <3>2. gCause'[p] # "none" /\ gPidFile \in {p, "empty"}
      BY <1>0, <1>p, <3>1 DEF SignalTypes, PidFileInv, G!Owner
    <3>. QED
      BY <1>0, <1>p, <3>1, <3>2 DEF SignalTypes, PidFileInv, G!Owner
  <2>2. CASE "INT" \notin gPending[p]
    <3>1. /\ gAt[p] = "load" /\ gAt' = [gAt EXCEPT ![p] = "install"]
          /\ UNCHANGED <<gCause, gPidFile>>
      BY <1>2, <2>2 DEF G!Unblock, G!Goes
    <3>. QED
      BY <1>0, <3>1, OwnerStays DEF SignalPlaces, G!Owner
  <2>. QED
    BY <2>1, <2>2
<1>3. CASE G!OpenPidFile(p)
  <2>1. CASE gPidFile = "none"
    <3>1. /\ gAt[p] = "open" /\ gAt' = [gAt EXCEPT ![p] = "write"]
          /\ gPidFile' = "empty" /\ gCause' = gCause
      BY <1>3, <2>1 DEF G!OpenPidFile, G!Goes, G!None, G!Empty
    <3>2. \A r \in Daemon : ~G!Owner(r)
      BY <1>0, <1>p, <2>1 DEF PidFileInv
    <3>. QED
      BY <1>0, <1>p, <3>1, <3>2 DEF SignalTypes, PidFileInv, G!Owner
  <2>2. CASE gPidFile # "none"
    <3>1. /\ gAt[p] = "open" /\ gAt' = [gAt EXCEPT ![p] = "end"]
          /\ UNCHANGED <<gCause, gPidFile>>
      BY <1>3, <2>2 DEF G!OpenPidFile, G!Goes, G!None
    <3>. QED
      BY <1>0, <3>1, OwnerStays DEF SignalPlaces, G!Owner
  <2>. QED
    BY <2>1, <2>2
<1>4. CASE G!WritePid(p)
  <2>1. /\ gAt[p] = "write" /\ gAt' = [gAt EXCEPT ![p] = "install"]
        /\ gPidFile' = p /\ gCause' = gCause
    BY <1>4 DEF G!WritePid, G!Goes
  <2>2. \A r \in Daemon : G!Owner(r) => r = p
    BY <1>0, <1>p, <2>1 DEF PidFileInv, G!Owner
  <2>. QED
    BY <1>0, <1>p, <2>1, <2>2 DEF SignalTypes, PidFileInv, G!Owner
<1>5. CASE G!Unlink(p)
  <2>1. /\ gAt[p] = "unlink" /\ gAt' = [gAt EXCEPT ![p] = "end"]
        /\ gPidFile' = "none" /\ gCause' = gCause
    BY <1>5 DEF G!Unlink, G!Goes, G!None
  <2>2. \A r \in Daemon : G!Owner(r) => r = p
    BY <1>0, <1>p, <2>1 DEF PidFileInv, G!Owner
  <2>. QED
    BY <1>0, <1>p, <2>1, <2>2 DEF SignalTypes, PidFileInv, G!Owner
<1>6. CASE \/ G!Install(p) \/ G!Test(p) \/ G!Pause(p) \/ G!Look(p) \/ G!Apply(p)
           \/ G!Reset(p) \/ G!Elapse(p)
  <2>1. /\ UNCHANGED <<gCause, gPidFile>>
        /\ gAt[p] \in {"install", "test", "enter", "look", "apply", "reset", "sleep"}
    BY <1>6 DEF G!Install, G!Test, G!Pause, G!Look, G!Apply, G!Reset, G!Elapse, G!Goes
  <2>2. \E to \in {"install", "test", "look", "unlink", "paused", "apply", "sleep", "reset"} :
          gAt' = [gAt EXCEPT ![p] = to]
    BY <1>0, <1>6 DEF G!Install, G!Test, G!Pause, G!Look, G!Apply, G!Reset, G!Elapse, G!Goes,
                      SignalTypes
  <2>3. PICK to \in {"install", "test", "look", "unlink", "paused", "apply", "sleep", "reset"} :
          gAt' = [gAt EXCEPT ![p] = to]
    BY <2>2
  <2>4. to \in SignalPlaces /\ to \notin {"start", "open", "end", "write"}
    BY DEF SignalPlaces
  <2>5. G!Owner(p) /\ gAt[p] # "write"
    BY <2>1 DEF G!Owner
  <2>. QED
    BY <1>0, <2>1, <2>3, <2>4, <2>5, OwnerStays
<1>. QED
  BY <1>1, <1>2, <1>3, <1>4, <1>5, <1>6 DEF G!Works

LEMMA SendKeeps ==
  ASSUME SignalInv, NEW p \in G!Proc, G!Send(p)
  PROVE  SignalInv'
<1>1. PICK s \in G!Signal : /\ gSent' = [gSent EXCEPT ![s] = @ + 1]
                            /\ gPending' = [gPending EXCEPT ![p] = @ \cup {s}]
                            /\ s = "INT" => gProg = "shield"
  <2>1. \E s \in {G!Handlers[k] : k \in DOMAIN G!Handlers}
                 \cup (IF gProg = "service" THEN {"KILL"} ELSE {}) :
          /\ gSent' = [gSent EXCEPT ![s] = @ + 1]
          /\ gPending' = [gPending EXCEPT ![p] = @ \cup {s}]
    BY DEF G!Send
  <2>2. {G!Handlers[k] : k \in DOMAIN G!Handlers} \subseteq
          (IF gProg = "shield" THEN {"INT", "USR1", "TERM"} ELSE {"TERM", "HUP", "USR1"})
    BY DEF G!Handlers, SignalInv, SignalTypes
  <2>. QED
    BY <2>1, <2>2 DEF G!Signal
<1>2. /\ UNCHANGED <<gProg, gAt, gCaught, gRun, gCount, gLast, gReload, gOwed, gPidFile, gCause>>
      /\ G!Proc' = G!Proc
  BY DEF G!Send, G!Proc
<1>3. SignalTypes'
  BY <1>1, <1>2 DEF SignalInv, SignalTypes, G!Signal
<1>4. PidFileInv' /\ ReloadInv'
  BY <1>2 DEF SignalInv, PidFileInv, ReloadInv, G!Owner
<1>5. \A t \in G!Signal : gSent'[t] >= gSent[t] /\ gSent'[t] \in Nat
  BY <1>1 DEF SignalInv, SignalTypes
<1>6. SentInv'
  <2>1. \A r \in G!Proc : \A t \in gPending'[r] : gSent'[t] > 0
    BY <1>1, <1>5 DEF SignalInv, SignalTypes, SentInv
  <2>2. gProg = "shield" =>
          /\ gCount[Single] + (IF "INT" \in gPending'[Single] THEN 1 ELSE 0) <= gSent'["INT"]
          /\ gRun[Single] \/ gSent'["TERM"] > 0 \/ gSent'["INT"] >= Hits
    <3> SUFFICES ASSUME gProg = "shield"
                 PROVE  /\ gCount[Single] + (IF "INT" \in gPending'[Single] THEN 1 ELSE 0)
                             <= gSent'["INT"]
                        /\ gRun[Single] \/ gSent'["TERM"] > 0 \/ gSent'["INT"] >= Hits
      OBVIOUS
    <3>1. p = Single /\ Single \in G!Proc /\ {"INT", "TERM"} \subseteq G!Signal
      BY DEF G!Proc, G!Signal
    <3>2. gSent["INT"] \in Nat /\ gSent["TERM"] \in Nat /\ gCount[Single] \in Nat
      BY <3>1 DEF SignalInv, SignalTypes
    <3>3. gRun[Single] \/ gSent'["TERM"] > 0 \/ gSent'["INT"] >= Hits
      BY <1>5, <3>1, <3>2, SignalAssumption DEF SignalInv, SentInv
    <3>4. CASE s = "INT"
      BY <1>1, <3>1, <3>2, <3>3, <3>4 DEF SignalInv, SignalTypes, SentInv
    <3>5. CASE s # "INT"
      BY <1>1, <3>1, <3>2, <3>3, <3>5 DEF SignalInv, SignalTypes, SentInv
    <3>. QED
      BY <3>4, <3>5
  <2>. QED
    BY <1>2, <2>1, <2>2 DEF SignalInv, SentInv
<1>. QED
  BY <1>3, <1>4, <1>6 DEF SignalInv

LEMMA DeliverKeeps ==
  ASSUME SignalInv, NEW p \in G!Proc, G!Deliver(p)
  PROVE  SignalInv'
<1>1. PICK s \in gPending[p] : /\ gPending' = [gPending EXCEPT ![p] = @ \ {s}]
                               /\ G!Handle(p, s) \/ G!Die(p, s)
  BY DEF G!Deliver
<1>2. /\ UNCHANGED <<gProg, gCaught, gLast, gPidFile, gSent>> /\ G!Proc' = G!Proc
      /\ gAt[p] \notin {"start", "end"}
  BY DEF G!Deliver, G!Proc, G!Alive
<1>3. s \in G!Signal /\ s # "none"
  BY <1>1 DEF SignalInv, SignalTypes, G!Signal
<1>t. SignalTypes
  BY DEF SignalInv
<1>4. CASE G!Handle(p, s)
  <2>1. /\ gCount' = [gCount EXCEPT ![p] = G!Counted(p, s)]
        /\ gRun' = [gRun EXCEPT ![p] = G!KeepsRunning(p, s)]
        /\ gReload' = [gReload EXCEPT ![p] = @ \/ s = "HUP"]
        /\ gOwed' = [gOwed EXCEPT ![p] = IF s = "HUP"
                                         THEN IF gAt[p] = "reset" THEN "late" ELSE "asked"
                                         ELSE @]
        /\ gAt' = [gAt EXCEPT ![p] = IF @ \in {"paused", "sleep"} THEN "test" ELSE @]
        /\ gCause' = gCause
    BY <1>4 DEF G!Handle
  <2>2. /\ G!Counted(p, s) \in Nat /\ G!Counted(p, s) >= gCount[p]
        /\ G!KeepsRunning(p, s) \in BOOLEAN
    BY <1>t DEF SignalTypes, G!Counted, G!KeepsRunning
  <2>3. SignalTypes'
    <3>1. gAt' \in [G!Proc -> SignalPlaces] /\ gCause' \in [G!Proc -> G!Signal \cup {"none"}]
      BY <1>t, <2>1 DEF SignalTypes, SignalPlaces
    <3>2. gRun' \in [G!Proc -> BOOLEAN] /\ gCount' \in [G!Proc -> Nat]
      BY <1>t, <2>1, <2>2 DEF SignalTypes
    <3>3. gReload' \in [G!Proc -> BOOLEAN]
      BY <1>t, <2>1 DEF SignalTypes
    <3>4. gOwed' \in [G!Proc -> {"asked", "late", "none"}]
      BY <1>t, <2>1 DEF SignalTypes
    <3>5. gPending' \in [G!Proc -> SUBSET G!Signal]
      BY <1>t, <1>1 DEF SignalTypes
    <3>. QED
      BY <1>t, <1>2, <3>1, <3>2, <3>3, <3>4, <3>5 DEF SignalTypes, G!Signal
  <2>4. PidFileInv'
    BY <1>t, <1>2, <2>1 DEF SignalInv, SignalTypes, PidFileInv, G!Owner, G!Proc
  <2>5. ReloadInv'
    BY <1>t, <1>2, <2>1 DEF SignalInv, SignalTypes, ReloadInv
  <2>6. SentInv'
    <3>1. \A r \in G!Proc : \A t \in gPending'[r] : gSent'[t] > 0
      BY <1>t, <1>1, <1>2 DEF SignalInv, SignalTypes, SentInv
    <3>2. \A r \in G!Proc : gLast'[r] <= gCount'[r]
      BY <1>t, <1>2, <2>1, <2>2 DEF SignalInv, SignalTypes, SentInv
    <3>3. ASSUME gProg = "shield"
          PROVE  /\ gCount'[Single] + (IF "INT" \in gPending'[Single] THEN 1 ELSE 0)
                      <= gSent["INT"]
                 /\ gRun'[Single] \/ gSent["TERM"] > 0 \/ gSent["INT"] >= Hits
      <4>1. p = Single /\ {"INT", "TERM"} \subseteq G!Signal
        BY <3>3 DEF G!Proc, G!Signal
      <4>2. gSent["INT"] \in Nat /\ gSent["TERM"] \in Nat /\ gCount[p] \in Nat
        BY <1>t, <4>1 DEF SignalTypes
      <4>3. gCount'[p] = gCount[p] + (IF s = "INT" THEN 1 ELSE 0)
        BY <1>t, <2>1, <3>3, <4>2 DEF SignalTypes, G!Counted
      <4>4. gRun'[p] <=> gRun[p] /\ s # "TERM" /\ (s = "INT" => gCount'[p] < Hits)
        BY <1>t, <2>1, <2>2 DEF SignalTypes, G!KeepsRunning
      <4>5. gPending'[p] = gPending[p] \ {s}
        BY <1>t, <1>1 DEF SignalTypes
      <4>6. gCount[p] + (IF "INT" \in gPending[p] THEN 1 ELSE 0) <= gSent["INT"]
        BY <3>3, <4>1 DEF SignalInv, SentInv
      <4>7. gCount'[p] + (IF "INT" \in gPending'[p] THEN 1 ELSE 0) <= gSent["INT"]
        BY <1>1, <4>2, <4>3, <4>5, <4>6
      <4>8. s = "TERM" => gSent["TERM"] > 0
        BY <1>1 DEF SignalInv, SentInv
      <4>9. gRun[p] \/ gSent["TERM"] > 0 \/ gSent["INT"] >= Hits
        BY <3>3, <4>1 DEF SignalInv, SentInv
      <4>10. gCount'[p] >= Hits => gSent["INT"] >= Hits
        BY <4>2, <4>3, <4>7, SignalAssumption
      <4>11. gCount'[p] < Hits \/ gCount'[p] >= Hits
        BY <4>2, <4>3, SignalAssumption
      <4>12. gRun'[p] \/ gSent["TERM"] > 0 \/ gSent["INT"] >= Hits
        BY <4>4, <4>8, <4>9, <4>10, <4>11
      <4>. QED
        BY <4>1, <4>7, <4>12
    <3>. QED
      BY <1>2, <3>1, <3>2, <3>3 DEF SentInv
  <2>. QED
    BY <2>3, <2>4, <2>5, <2>6 DEF SignalInv
<1>5. CASE G!Die(p, s)
  <2>1. /\ gAt' = [gAt EXCEPT ![p] = "end"] /\ gCause' = [gCause EXCEPT ![p] = s]
        /\ UNCHANGED <<gRun, gCount, gReload, gOwed>>
    BY <1>5 DEF G!Die
  <2>2. SignalTypes'
    BY <1>t, <1>1, <1>2, <1>3, <2>1 DEF SignalTypes, SignalPlaces, G!Signal
  <2>3. PidFileInv'
    <3> SUFFICES ASSUME gProg = "service" PROVE PidFileInv'
      BY <1>2 DEF PidFileInv
    <3>p. p \in Daemon /\ G!Proc = Daemon /\ "none" \notin Daemon /\ "empty" \notin Daemon
      BY SignalAssumption DEF G!Proc
    <3>1. gCause'[p] # "none" /\ (\A r \in Daemon : gCause[r] # "none" => gCause'[r] # "none")
      BY <1>t, <1>3, <2>1, <3>p DEF SignalTypes
    <3>2. gAt'[p] = "end" /\ \A r \in Daemon \ {p} : gAt'[r] = gAt[r]
      BY <1>t, <2>1, <3>p DEF SignalTypes
    <3>3. G!Owner(p) => gPidFile \in {p, "empty"}
      BY <3>p DEF SignalInv, PidFileInv
    <3>. QED
      BY <1>2, <3>p, <3>1, <3>2, <3>3 DEF SignalInv, PidFileInv, G!Owner
  <2>4. ReloadInv'
    BY <1>t, <1>2, <2>1 DEF SignalInv, SignalTypes, ReloadInv
  <2>5. SentInv'
    <3>1. \A r \in G!Proc : \A t \in gPending'[r] : gSent'[t] > 0
      BY <1>t, <1>1, <1>2 DEF SignalInv, SignalTypes, SentInv
    <3>2. ASSUME gProg = "shield"
          PROVE  gCount[Single] + (IF "INT" \in gPending'[Single] THEN 1 ELSE 0) <= gSent["INT"]
      <4>1. p = Single /\ "INT" \in G!Signal
        BY <3>2 DEF G!Proc, G!Signal
      <4>2. /\ gSent["INT"] \in Nat /\ gCount[p] \in Nat
            /\ gPending'[p] = gPending[p] \ {s}
        BY <1>t, <1>1, <4>1 DEF SignalTypes
      <4>3. gCount[p] + (IF "INT" \in gPending[p] THEN 1 ELSE 0) <= gSent["INT"]
        BY <3>2, <4>1 DEF SignalInv, SentInv
      <4>. QED
        BY <4>1, <4>2, <4>3
    <3>. QED
      BY <1>2, <2>1, <3>1, <3>2 DEF SignalInv, SentInv
  <2>. QED
    BY <2>2, <2>3, <2>4, <2>5 DEF SignalInv
<1>. QED
  BY <1>1, <1>4, <1>5

LEMMA SignalStep ==
  ASSUME SignalInv, [G!Next]_signalVars PROVE SignalInv'
<1>1. ASSUME NEW p \in G!Proc, G!Begin(p) \/ G!Works(p) PROVE SignalInv'
  BY <1>1, OwnStepsKeepTypes, OwnStepsKeepFile DEF SignalInv
<1>2. ASSUME NEW p \in G!Proc, G!Send(p) \/ G!Deliver(p) PROVE SignalInv'
  BY <1>2, SendKeeps, DeliverKeeps
<1>3. CASE UNCHANGED signalVars
  BY <1>3 DEF signalVars, SignalInv, SignalTypes, PidFileInv, ReloadInv, SentInv, G!Owner, G!Proc
<1>. QED
  BY <1>1, <1>2, <1>3 DEF G!Next, G!Quiet, G!vars, signalVars

\* One daemon at a time owns the pid file and removes only its own, a file without
\* an owner was left by one that was killed, no reload is forgotten but in its gap,
\* and the shield gives in to nothing less than it says, for any number of daemons
\* and of signals (ej34, ej35, e07_sigaction_basico).
THEOREM SignalsAreKeptAlways == ProgramsSpec => []G!SignalsAreKept
<1>1. [ProgramsNext]_allVars => [G!Next]_signalVars
  BY DEF ProgramsNext, allVars, PipelineTurn, PoolTurn, StockTurn, KitchenTurn,
         EntryTurn, LimiterTurn, CountersTurn, CacheTurn, CopyTurn, WalkTurn,
         SignalsTurn
<1>2. SignalInv => G!SignalsAreKept
  <2> SUFFICES ASSUME SignalInv PROVE G!SignalsAreKept
    OBVIOUS
  <2>1. ASSUME gProg = "service"
        PROVE  /\ \A p, r \in Daemon : G!Owner(p) /\ G!Owner(r) => p = r
               /\ \A p \in Daemon :
                    G!Owner(p) => gPidFile = (IF gAt[p] = "write" THEN "empty" ELSE p)
               /\ gPidFile # "none" /\ (\A p \in Daemon : ~G!Owner(p)) =>
                    \E p \in Daemon : gPidFile \in {p, "empty"} /\ gCause[p] # "none"
               /\ \A p \in Daemon : gOwed[p] = "asked" => gReload[p]
    BY <2>1 DEF SignalInv, PidFileInv, ReloadInv, G!Proc
  <2>2. gProg = "shield" => gRun[Single] \/ gSent["TERM"] > 0 \/ gSent["INT"] >= Hits
    BY DEF SignalInv, SentInv
  <2>3. \A p \in G!Proc : gLast[p] <= gCount[p]
    BY DEF SignalInv, SentInv
  <2>. QED
    BY <2>1, <2>2, <2>3 DEF G!SignalsAreKept, G!None, G!Empty
<1>3. SignalInv /\ [ProgramsNext]_allVars => SignalInv'
  BY <1>1, SignalStep
<1>. QED
  BY <1>2, <1>3, SignalInit, PTL DEF ProgramsSpec

-----------------------------------------------------------------------------
(* The pool of workers.                                                    *)

\* A number counts itself.
Own == [n \in Nat |-> n]

\* The sum of a finite set of numbers, as the pool's check takes it.
LEMMA SumSetIsTotal ==
  ASSUME NEW N \in SUBSET Nat, IsFiniteSet(N)
  PROVE  P!SumSet(N) = Total(Own, N)
<1> DEFINE
    Rec(g) == g = [s \in SUBSET N |->
                     IF s = {} THEN 0
                     ELSE (CHOOSE x \in s : TRUE) + g[s \ {CHOOSE x \in s : TRUE}]]
    H == CHOOSE g : Rec(g)
<1>1. P!SumSet(N) = H[N]
  BY DEF P!SumSet, P!FoldSet, P!MapThenFoldSet
<1>2. ASSUME NEW g PROVE Rec(g) <=> SumsUp(g, Own, N)
  <2>1. ASSUME NEW s \in SUBSET N, s # {}
        PROVE  Own[CHOOSE x \in s : TRUE] = (CHOOSE x \in s : TRUE)
    <3>1. (CHOOSE x \in s : TRUE) \in Nat
      BY <2>1
    <3>. QED
      BY <3>1 DEF Own
  <2>. QED
    BY <2>1 DEF SumsUp
<1> HIDE DEF Rec
<1>3. \A x \in N : Own[x] \in Nat
  BY DEF Own
<1>4. \E g : SumsUp(g, Own, N)
  BY <1>3, TotalIsSum
<1>5. Rec(H)
  BY <1>2, <1>4
<1> HIDE DEF H
<1>. QED
  BY <1>1, <1>2, <1>3, <1>5, SumIsTotal

\* The line of tasks and how many of them have been taken.
TaskLine == P!Contents(pQ)
Taken == pX - 1 - Len(TaskLine)

\* The tasks that have been taken and are in no worker's hands.
DoneTasks == {t \in 1 .. Taken : \A w \in Worker : pTask[w] # t}

Sq(N) == {t * t : t \in N}

PoolTypeInv ==
  /\ P!HoldsLine(pQ) /\ pStop \in BOOLEAN /\ pX \in 1 .. Tasks + 1
  /\ pState \in [Worker \union {Main} -> {"ready", "done", "cv_not_empty", "cv_not_full"}]
  /\ pTask \in [Worker -> Nat]

\* The tasks wait in their order and each that was taken is in one hand at most.
TaskInv ==
  /\ Taken \in Nat
  /\ \A k \in 1 .. Len(TaskLine) : TaskLine[k] = Taken + k
  /\ \A w \in Worker : pTask[w] # 0 => pTask[w] \in 1 .. Taken /\ pState[w] = "ready"
  /\ \A w, v \in Worker : w # v /\ pTask[w] # 0 => pTask[w] # pTask[v]

\* The totals are those of the tasks that are done.
TotalInv ==
  /\ pProcessed = Cardinality(DoneTasks)
  /\ pSumSq = Total(Own, Sq(DoneTasks))

\* A worker ends at an empty queue that stays empty, and main after the workers.
PoolEndInv ==
  /\ pStop => pX = Tasks + 1
  /\ \A w \in Worker : pState[w] = "done" => pStop /\ Len(TaskLine) = 0
  /\ pState[Main] = "done" => \A w \in Worker : pState[w] = "done"

PoolInv == PoolTypeInv /\ TaskInv /\ TotalInv /\ PoolEndInv

LEMMA DoneIsFinite ==
  ASSUME Taken \in Nat
  PROVE  IsFiniteSet(DoneTasks) /\ DoneTasks \subseteq 1 .. Taken
<1>1. 1 \in Int /\ Taken \in Int
  OBVIOUS
<1>2. IsFiniteSet(1 .. Taken)
  BY ONLY <1>1, FS_Interval
<1>. QED
  BY <1>2, FS_Subset DEF DoneTasks

\* Different numbers have different squares.
LEMMA SquaresDiffer ==
  ASSUME NEW a \in Nat, NEW b \in Nat, a < b
  PROVE  a * a < b * b
<1>1. PICK d \in Nat : b = a + d /\ d > 0
  <2>1. b - a \in Nat /\ b = a + (b - a) /\ b - a > 0
    OBVIOUS
  <2>. QED
    BY <2>1
<1>2. b * b = a * a + 2 * (a * d) + d * d
  BY <1>1, Z3
<1>3. a * d >= 0 /\ d * d > 0
  BY <1>1, Z3
<1>4. a * a \in Nat /\ a * d \in Nat /\ d * d \in Nat
  BY <1>1, Z3
<1>. QED
  BY ONLY <1>2, <1>3, <1>4

\* One task more: its square is added.
LEMMA SquareAdds ==
  ASSUME NEW N \in SUBSET Nat, IsFiniteSet(N), NEW t \in Nat, t \notin N
  PROVE  /\ IsFiniteSet(Sq(N)) /\ Sq(N) \in SUBSET Nat
         /\ Total(Own, Sq(N \union {t})) = Total(Own, Sq(N)) + t * t
<1>1. \A a \in N : a * a \in Nat /\ a * a # t * t
  <2>1. ASSUME NEW a \in N PROVE a * a \in Nat /\ a * a # t * t
    <3>0. a \in Nat /\ (a < t \/ t < a)
      OBVIOUS
    <3>1. a * a \in Nat /\ t * t \in Nat
      BY <3>0, Z3
    <3>2. a < t => a * a < t * t
      BY <3>0, SquaresDiffer
    <3>3. t < a => t * t < a * a
      BY <3>0, SquaresDiffer
    <3>. QED
      BY ONLY <3>0, <3>1, <3>2, <3>3
  <2>. QED
    BY <2>1
<1>2. t * t \in Nat
  BY Z3
<1>3. Sq(N) \in SUBSET Nat /\ t * t \notin Sq(N) /\ Sq(N \union {t}) = Sq(N) \union {t * t}
  BY <1>1 DEF Sq
<1>4. IsFiniteSet(Sq(N))
  <2> DEFINE f == [a \in N |-> a * a]
  <2>1. f \in Surjection(N, Sq(N))
    BY DEF Surjection, Sq
  <2> HIDE DEF f
  <2>. QED
    BY <2>1, FS_Surjection
<1>5. (\A x \in Sq(N) : Own[x] \in Nat) /\ Own[t * t] = t * t
  BY <1>2, <1>3 DEF Own
<1> DEFINE v == t * t
<1> HIDE DEF v
<1>6. v \notin Sq(N) /\ Own[v] = v /\ v \in Nat
  BY <1>2, <1>3, <1>5 DEF v
<1>7. Total(Own, Sq(N) \union {v}) = Total(Own, Sq(N)) + Own[v]
  BY <1>4, <1>5, <1>6, TotalOfOneMore
<1>. QED
  BY <1>3, <1>4, <1>6, <1>7 DEF v

\* What the parts of the invariant say about one line of tasks, in plain terms.
LEMMA PoolFacts ==
  ASSUME PoolInv
  PROVE  /\ TaskLine \in Seq(Int) /\ Len(TaskLine) \in Nat /\ Taken \in Nat /\ pX \in Nat
         /\ Tasks \in Nat /\ pX <= Tasks + 1 /\ Taken + Len(TaskLine) = pX - 1
         /\ IsFiniteSet(DoneTasks) /\ DoneTasks \subseteq 1 .. Taken
         /\ P!Empty(pQ) <=> Len(TaskLine) = 0
<1>1. TaskLine \in Seq(Int) /\ Taken \in Nat /\ pX \in 1 .. Tasks + 1 /\ Tasks \in Nat
  BY PoolAssumption DEF PoolInv, PoolTypeInv, TaskInv, P!HoldsLine, TaskLine
<1>2. Len(TaskLine) \in Nat
  BY <1>1
<1>3. P!Empty(pQ) <=> Len(TaskLine) = 0
  BY DEF PoolInv, PoolTypeInv, P!HoldsLine, P!RingOf, P!Empty, TaskLine
<1>. QED
  BY <1>1, <1>2, <1>3, DoneIsFinite DEF Taken

LEMMA PoolStart == P!Init => PoolInv
<1> SUFFICES ASSUME P!Init PROVE PoolInv
  OBVIOUS
<1>0. PoolCapacity \in Nat \ {0} /\ Tasks \in Nat
  BY PoolAssumption
<1>1. P!Contents(P!EmptyRing) = <<>> /\ P!HoldsLine(P!EmptyRing)
  BY <1>0, P!EmptyLine DEF P!HoldsLine
<1>2. TaskLine = <<>> /\ Len(TaskLine) = 0 /\ pX = 1 /\ Taken = 0
  <2>1. TaskLine = <<>> /\ pX = 1
    BY <1>1 DEF P!Init, TaskLine
  <2>2. Len(<<>>) = 0 /\ 1 - 1 - 0 = 0
    OBVIOUS
  <2>. QED
    BY ONLY <2>1, <2>2 DEF Taken
<1>3. PoolTypeInv
  <2>1. P!HoldsLine(pQ) /\ pStop \in BOOLEAN /\ pX = 1
    BY <1>1 DEF P!Init
  <2>2. pX \in 1 .. Tasks + 1
    BY <1>0, <2>1
  <2>3. pState \in [Worker \union {Main} -> {"ready", "done", "cv_not_empty", "cv_not_full"}]
    BY DEF P!Init, P!Thread
  <2>4. pTask \in [Worker -> Nat]
    BY DEF P!Init
  <2>. QED
    BY <2>1, <2>2, <2>3, <2>4 DEF PoolTypeInv
<1>4. TaskInv
  BY <1>2 DEF P!Init, TaskInv
<1>5. DoneTasks = {} /\ Sq({}) = {}
  BY <1>2 DEF DoneTasks, Sq
<1>6. TotalInv
  <2>1. Total(Own, {}) = 0
    BY FS_EmptySet, TotalFacts
  <2>. QED
    BY <1>5, <2>1, FS_EmptySet DEF P!Init, TotalInv
<1>7. PoolEndInv
  BY DEF P!Init, PoolEndInv, P!Thread
<1>. QED
  BY <1>3, <1>4, <1>6, <1>7 DEF PoolInv

\* A signal wakes one thread that waits, and no other changes.
LEMMA PoolSignalKeeps ==
  ASSUME PoolTypeInv, NEW cv \in {"cv_not_empty", "cv_not_full"},
         NEW s \in P!AfterSignal(pState, cv)
  PROVE  /\ s \in [Worker \union {Main} -> {"ready", "done", "cv_not_empty", "cv_not_full"}]
         /\ \A t \in Worker \union {Main} : s[t] = "done" <=> pState[t] = "done"
         /\ \A t \in Worker : pState[t] = "ready" => s[t] = "ready"
<1>1. \/ s = pState
      \/ \E t \in Worker \union {Main} : pState[t] = cv /\ s = [pState EXCEPT ![t] = "ready"]
  BY DEF P!AfterSignal, P!Asleep, PoolTypeInv
<1>. QED
  BY <1>1 DEF PoolTypeInv

\* A step of the states alone.
LEMMA PoolQuiet ==
  ASSUME PoolInv, UNCHANGED <<pQ, pX, pTask, pProcessed, pSumSq>>, pStop' \in BOOLEAN,
         pState' \in [Worker \union {Main} -> {"ready", "done", "cv_not_empty", "cv_not_full"}],
         \A w \in Worker : pTask[w] # 0 => pState'[w] = "ready", PoolEndInv'
  PROVE  PoolInv'
<1>1. TaskLine' = TaskLine
  BY DEF TaskLine
<1>2. Taken' = Taken
  BY <1>1 DEF Taken
<1>3. DoneTasks' = DoneTasks
  BY <1>2 DEF DoneTasks
<1>4. PoolTypeInv'
  BY DEF PoolInv, PoolTypeInv
<1>5. TaskInv'
  BY <1>1, <1>2 DEF PoolInv, TaskInv
<1>6. TotalInv'
  BY <1>3 DEF PoolInv, TotalInv
<1>. QED
  BY <1>4, <1>5, <1>6 DEF PoolInv

LEMMA PoolEnqueues == PoolInv /\ P!Enqueue => PoolInv'
<1> SUFFICES ASSUME PoolInv, P!Enqueue PROVE PoolInv'
  OBVIOUS
<1>0. PoolTypeInv /\ TaskInv /\ TotalInv /\ PoolEndInv
  BY DEF PoolInv
<1>1. CASE P!Full(pQ)
  <2>1. /\ pState[Main] = "ready" /\ pState' = [pState EXCEPT ![Main] = "cv_not_full"]
        /\ UNCHANGED <<pQ, pX, pTask, pProcessed, pSumSq, pStop>>
    BY <1>1 DEF P!Enqueue, P!Waits
  <2>2. Main \notin Worker
    BY PoolAssumption
  <2>3. TaskLine' = TaskLine
    BY <2>1 DEF TaskLine
  <2>4. PoolEndInv'
    BY <1>0, <2>1, <2>2, <2>3 DEF PoolTypeInv, PoolEndInv
  <2>5. \A w \in Worker : pTask[w] # 0 => pState'[w] = "ready"
    BY <1>0, <2>1, <2>2 DEF PoolTypeInv, TaskInv
  <2>6. /\ pStop' \in BOOLEAN
        /\ pState' \in [Worker \union {Main} -> {"ready", "done", "cv_not_empty", "cv_not_full"}]
    BY <1>0, <2>1 DEF PoolTypeInv
  <2>. QED
    BY <2>1, <2>4, <2>5, <2>6, PoolQuiet
<1>2. CASE ~P!Full(pQ)
  <2>1. /\ pX <= Tasks /\ pQ' = P!Push(pQ, pX) /\ pX' = pX + 1 /\ pState[Main] = "ready"
        /\ pState' \in P!AfterSignal(pState, "cv_not_empty")
        /\ UNCHANGED <<pStop, pTask, pProcessed, pSumSq>>
    BY <1>2 DEF P!Enqueue
  <2>2. P!HoldsLine(pQ) /\ pX \in Int /\ PoolCapacity \in Nat \ {0}
    BY <1>0, PoolAssumption DEF PoolTypeInv
  <2>3. P!HoldsLine(pQ') /\ TaskLine' = Append(TaskLine, pX)
    BY <1>2, <2>1, <2>2, P!PushContents DEF TaskLine
  <2>4. /\ Len(TaskLine') = Len(TaskLine) + 1 /\ TaskLine'[Len(TaskLine) + 1] = pX
        /\ \A k \in 1 .. Len(TaskLine) : TaskLine'[k] = TaskLine[k]
    BY <2>3, PoolFacts
  <2>5. Taken' = Taken
    BY <2>1, <2>4, PoolFacts DEF Taken
  <2>6. DoneTasks' = DoneTasks
    BY <2>1, <2>5 DEF DoneTasks
  <2>7. /\ pState' \in [Worker \union {Main} -> {"ready", "done", "cv_not_empty", "cv_not_full"}]
        /\ \A t \in Worker \union {Main} : pState'[t] = "done" <=> pState[t] = "done"
        /\ \A t \in Worker : pState[t] = "ready" => pState'[t] = "ready"
    BY <1>0, <2>1, PoolSignalKeeps
  <2>8. ~pStop
    BY <1>0, <2>1, PoolFacts DEF PoolEndInv
  <2>9. PoolTypeInv'
    BY <1>0, <2>1, <2>3, <2>7, PoolFacts DEF PoolTypeInv
  <2>10. TaskInv'
    <3>1. \A k \in 1 .. Len(TaskLine') : TaskLine'[k] = Taken' + k
      <4>1. ASSUME NEW k \in 1 .. Len(TaskLine') PROVE TaskLine'[k] = Taken' + k
        <5>1. /\ Taken \in Nat /\ Len(TaskLine) \in Nat /\ pX \in Nat
              /\ Taken + Len(TaskLine) = pX - 1
          BY PoolFacts
        <5>2. k \in 1 .. Len(TaskLine) => TaskLine'[k] = Taken + k
          BY <1>0, <2>4 DEF TaskInv
        <5>3. k = Len(TaskLine) + 1 \/ k \in 1 .. Len(TaskLine)
          BY <2>4, <5>1
        <5>. QED
          BY <2>4, <2>5, <5>1, <5>2, <5>3
      <4>. QED
        BY <4>1
    <3>2. Taken' \in Nat
      BY <2>5, PoolFacts
    <3>3. \A w \in Worker : pTask'[w] # 0 => pTask'[w] \in 1 .. Taken' /\ pState'[w] = "ready"
      BY <1>0, <2>1, <2>5, <2>7 DEF TaskInv
    <3>4. \A w, v \in Worker : w # v /\ pTask'[w] # 0 => pTask'[w] # pTask'[v]
      BY <1>0, <2>1 DEF TaskInv
    <3>. QED
      BY <3>1, <3>2, <3>3, <3>4 DEF TaskInv
  <2>11. TotalInv'
    BY <1>0, <2>1, <2>6 DEF TotalInv
  <2>12. PoolEndInv'
    BY <1>0, <2>1, <2>7, <2>8 DEF PoolEndInv
  <2>. QED
    BY <2>9, <2>10, <2>11, <2>12 DEF PoolInv
<1>. QED
  BY <1>1, <1>2

LEMMA PoolShutsDown == PoolInv /\ P!Shutdown => PoolInv'
<1> SUFFICES ASSUME PoolInv, P!Shutdown PROVE PoolInv'
  OBVIOUS
<1>0. PoolTypeInv /\ TaskInv /\ PoolEndInv
  BY DEF PoolInv
<1>1. /\ pState[Main] = "ready" /\ pX > Tasks /\ ~pStop /\ pStop' = TRUE
      /\ UNCHANGED <<pQ, pX, pTask, pProcessed, pSumSq>>
      /\ pState' = P!AfterBroadcast(pState, "cv_not_empty")
  BY DEF P!Shutdown
<1>2. pState' = [t \in Worker \union {Main} |->
                   IF pState[t] = "cv_not_empty" THEN "ready" ELSE pState[t]]
  BY <1>0, <1>1 DEF P!AfterBroadcast, P!Asleep, PoolTypeInv
<1>3. /\ pState' \in [Worker \union {Main} -> {"ready", "done", "cv_not_empty", "cv_not_full"}]
      /\ \A t \in Worker \union {Main} : pState'[t] = "done" <=> pState[t] = "done"
      /\ \A t \in Worker : pState[t] = "ready" => pState'[t] = "ready"
  BY <1>0, <1>2 DEF PoolTypeInv
<1>4. TaskLine' = TaskLine /\ pX = Tasks + 1
  BY <1>1, PoolFacts DEF TaskLine
<1>5. PoolEndInv'
  BY <1>0, <1>1, <1>3, <1>4 DEF PoolEndInv
<1>6. \A w \in Worker : pTask[w] # 0 => pState'[w] = "ready"
  BY <1>0, <1>3 DEF TaskInv
<1>. QED
  BY <1>1, <1>3, <1>5, <1>6, PoolQuiet

LEMMA PoolWakes ==
  ASSUME PoolInv, NEW t \in Worker \union {Main}, P!Spurious(t)
  PROVE  PoolInv'
<1>0. PoolTypeInv /\ TaskInv /\ PoolEndInv
  BY DEF PoolInv
<1>1. /\ pState[t] \in {"cv_not_empty", "cv_not_full"} /\ pState' = [pState EXCEPT ![t] = "ready"]
      /\ UNCHANGED <<pQ, pStop, pX, pTask, pProcessed, pSumSq>>
  BY DEF P!Spurious
<1>2. /\ pState' \in [Worker \union {Main} -> {"ready", "done", "cv_not_empty", "cv_not_full"}]
      /\ \A u \in Worker \union {Main} : pState'[u] = "done" <=> pState[u] = "done"
      /\ \A u \in Worker : pState[u] = "ready" => pState'[u] = "ready"
  BY <1>0, <1>1 DEF PoolTypeInv
<1>3. TaskLine' = TaskLine /\ pStop' \in BOOLEAN
  BY <1>0, <1>1 DEF TaskLine, PoolTypeInv
<1>4. PoolEndInv'
  BY <1>0, <1>1, <1>2, <1>3 DEF PoolEndInv
<1>5. \A w \in Worker : pTask[w] # 0 => pState'[w] = "ready"
  BY <1>0, <1>2 DEF TaskInv
<1>. QED
  BY <1>1, <1>2, <1>3, <1>4, <1>5, PoolQuiet

LEMMA PoolJoins == PoolInv /\ P!Join => PoolInv'
<1> SUFFICES ASSUME PoolInv, P!Join PROVE PoolInv'
  OBVIOUS
<1>0. PoolTypeInv /\ TaskInv /\ PoolEndInv /\ Main \notin Worker
  BY PoolAssumption DEF PoolInv
<1>1. /\ \A w \in Worker : pState[w] = "done"
      /\ pState' = [pState EXCEPT ![Main] = "done"]
      /\ UNCHANGED <<pQ, pStop, pX, pTask, pProcessed, pSumSq>>
  BY DEF P!Join
<1>2. /\ pState' \in [Worker \union {Main} -> {"ready", "done", "cv_not_empty", "cv_not_full"}]
      /\ \A w \in Worker : pState'[w] = pState[w]
  BY <1>0, <1>1 DEF PoolTypeInv
<1>3. TaskLine' = TaskLine /\ pStop' \in BOOLEAN
  BY <1>0, <1>1 DEF TaskLine, PoolTypeInv
<1>4. PoolEndInv'
  BY <1>0, <1>1, <1>2, <1>3 DEF PoolEndInv
<1>5. \A w \in Worker : pTask[w] # 0 => pState'[w] = "ready"
  BY <1>0, <1>2 DEF TaskInv
<1>. QED
  BY <1>1, <1>2, <1>3, <1>4, <1>5, PoolQuiet

LEMMA PoolDequeues ==
  ASSUME PoolInv, NEW w \in Worker, P!Dequeue(w)
  PROVE  PoolInv'
<1>0. PoolTypeInv /\ TaskInv /\ TotalInv /\ PoolEndInv /\ Main \notin Worker
  BY PoolAssumption DEF PoolInv
<1>1. CASE P!Empty(pQ)
  <2>1. /\ pTask[w] = 0 /\ pState[w] = "ready"
        /\ pState' = [pState EXCEPT ![w] = IF pStop THEN "done" ELSE "cv_not_empty"]
        /\ UNCHANGED <<pQ, pX, pTask, pProcessed, pSumSq, pStop>>
    BY <1>1 DEF P!Dequeue, P!Waits
  <2>2. TaskLine' = TaskLine /\ Len(TaskLine) = 0 /\ pStop' \in BOOLEAN
    BY <1>0, <1>1, <2>1, PoolFacts DEF TaskLine, PoolTypeInv
  <2>3. /\ pState' \in [Worker \union {Main} -> {"ready", "done", "cv_not_empty", "cv_not_full"}]
        /\ \A t \in Worker \union {Main} : t # w => pState'[t] = pState[t]
        /\ pState'[w] = IF pStop THEN "done" ELSE "cv_not_empty"
    BY <1>0, <2>1 DEF PoolTypeInv
  <2>4. \A v \in Worker : pTask[v] # 0 => pState'[v] = "ready"
    BY <1>0, <2>1, <2>3 DEF TaskInv
  <2>5. PoolEndInv'
    BY <1>0, <2>1, <2>2, <2>3 DEF PoolEndInv
  <2>. QED
    BY <2>1, <2>2, <2>3, <2>4, <2>5, PoolQuiet
<1>2. CASE ~P!Empty(pQ)
  <2>1. /\ pTask[w] = 0 /\ pState[w] = "ready"
        /\ pTask' = [pTask EXCEPT ![w] = P!Front(pQ)] /\ pQ' = P!Pop(pQ)
        /\ pState' \in P!AfterSignal(pState, "cv_not_full")
        /\ UNCHANGED <<pStop, pX, pProcessed, pSumSq>>
    BY <1>2 DEF P!Dequeue
  <2>2. P!HoldsLine(pQ) /\ PoolCapacity \in Nat \ {0}
    BY <1>0, PoolAssumption DEF PoolTypeInv
  <2>3. /\ Len(TaskLine) > 0 /\ P!Front(pQ) = TaskLine[1]
        /\ P!HoldsLine(pQ') /\ TaskLine' = Tail(TaskLine)
    BY <1>2, <2>1, <2>2, P!PopContents DEF TaskLine
  <2>4. /\ Len(TaskLine') = Len(TaskLine) - 1
        /\ \A k \in 1 .. Len(TaskLine) - 1 : TaskLine'[k] = TaskLine[k + 1]
    BY <2>3, PoolFacts
  <2>5. Taken' = Taken + 1 /\ Taken \in Nat
    BY <2>1, <2>4, PoolFacts DEF Taken
  <2>6. P!Front(pQ) = Taken + 1
    <3>1. 1 \in 1 .. Len(TaskLine)
      BY <2>3, PoolFacts
    <3>2. TaskLine[1] = Taken + 1
      BY <1>0, <3>1 DEF TaskInv
    <3>. QED
      BY <2>3, <3>2
  <2>7. /\ pTask \in [Worker -> Nat] /\ pTask' = [pTask EXCEPT ![w] = Taken + 1]
    BY <1>0, <2>1, <2>6 DEF PoolTypeInv
  <2>8. DoneTasks' = DoneTasks
    <3>1. ASSUME NEW t \in 1 .. Taken
          PROVE  (\A v \in Worker : pTask'[v] # t) <=> (\A v \in Worker : pTask[v] # t)
      <4>1. t # Taken + 1 /\ t # 0
        BY <2>5
      <4>2. pTask'[w] = Taken + 1 /\ \A v \in Worker : v # w => pTask'[v] = pTask[v]
        BY <2>7
      <4>. QED
        BY <2>1, <4>1, <4>2
    <3>2. \A t \in 1 .. Taken + 1 : t = Taken + 1 \/ t \in 1 .. Taken
      BY <2>5
    <3>3. pTask'[w] = Taken + 1
      BY <2>7
    <3>4. 1 .. Taken \subseteq 1 .. Taken + 1
      BY <2>5
    <3>. QED
      BY <2>5, <3>1, <3>2, <3>3, <3>4 DEF DoneTasks
  <2>9. /\ pState' \in [Worker \union {Main} -> {"ready", "done", "cv_not_empty", "cv_not_full"}]
        /\ \A t \in Worker \union {Main} : pState'[t] = "done" <=> pState[t] = "done"
        /\ \A t \in Worker : pState[t] = "ready" => pState'[t] = "ready"
    BY <1>0, <2>1, PoolSignalKeeps
  <2>10. PoolTypeInv'
    <3>1. pTask' \in [Worker -> Nat] /\ pStop' \in BOOLEAN /\ pX' \in 1 .. Tasks + 1
      BY <1>0, <2>1, <2>5, <2>7 DEF PoolTypeInv
    <3>. QED
      BY <2>3, <2>9, <3>1 DEF PoolTypeInv
  <2>11. TaskInv'
    <3>1. ASSUME NEW k \in 1 .. Len(TaskLine') PROVE TaskLine'[k] = Taken' + k
      <4>1. Len(TaskLine) \in Nat /\ k + 1 \in 1 .. Len(TaskLine) /\ k \in 1 .. Len(TaskLine) - 1
        BY <2>4, PoolFacts
      <4>2. TaskLine'[k] = Taken + (k + 1)
        BY <1>0, <2>4, <4>1 DEF TaskInv
      <4>. QED
        BY <2>5, <4>1, <4>2
    <3>2. ASSUME NEW v \in Worker, pTask'[v] # 0
          PROVE  pTask'[v] \in 1 .. Taken' /\ pState'[v] = "ready"
      <4>1. v = w => pTask'[v] = Taken + 1 /\ pState[v] = "ready"
        BY <2>1, <2>7
      <4>2. v # w => pTask'[v] = pTask[v] /\ pTask[v] \in 1 .. Taken /\ pState[v] = "ready"
        BY <1>0, <2>7, <3>2 DEF TaskInv
      <4>. QED
        BY <2>5, <2>9, <4>1, <4>2
    <3>3. ASSUME NEW u \in Worker, NEW v \in Worker, u # v, pTask'[u] # 0
          PROVE  pTask'[u] # pTask'[v]
      <4>1. \A t \in Worker : t # w => pTask'[t] = pTask[t] /\ pTask[t] # Taken + 1
        <5>1. ASSUME NEW t \in Worker, t # w PROVE pTask'[t] = pTask[t] /\ pTask[t] # Taken + 1
          <6>1. pTask[t] = 0 \/ pTask[t] \in 1 .. Taken
            BY <1>0 DEF TaskInv
          <6>. QED
            BY <2>5, <2>7, <5>1, <6>1
        <5>. QED
          BY <5>1
      <4>2. pTask'[w] = Taken + 1
        BY <2>7
      <4>3. u # w => pTask[u] # 0
        BY <3>3, <4>1
      <4>. QED
        BY <1>0, <3>3, <4>1, <4>2, <4>3 DEF TaskInv
    <3>4. Taken' \in Nat
      BY <2>5
    <3>. QED
      BY <3>1, <3>2, <3>3, <3>4 DEF TaskInv
  <2>12. TotalInv'
    BY <1>0, <2>1, <2>8 DEF TotalInv
  <2>13. PoolEndInv'
    <3>1. \A v \in Worker : pState[v] # "done"
      BY <1>0, <2>3, PoolFacts DEF PoolEndInv
    <3>2. pState[Main] # "done"
      BY <1>0, <3>1 DEF PoolEndInv
    <3>. QED
      BY <1>0, <2>1, <2>9, <3>1, <3>2 DEF PoolEndInv
  <2>. QED
    BY <2>10, <2>11, <2>12, <2>13 DEF PoolInv
<1>. QED
  BY <1>1, <1>2

LEMMA PoolAccounts ==
  ASSUME PoolInv, NEW w \in Worker, P!Account(w)
  PROVE  PoolInv'
<1>0. PoolTypeInv /\ TaskInv /\ TotalInv /\ PoolEndInv
  BY DEF PoolInv
<1> DEFINE t == pTask[w]
<1>1. /\ t # 0 /\ pSumSq' = pSumSq + t * t /\ pProcessed' = pProcessed + 1
      /\ pTask' = [pTask EXCEPT ![w] = 0] /\ UNCHANGED <<pQ, pStop, pX, pState>>
  BY DEF P!Account
<1>2. t \in 1 .. Taken /\ pTask \in [Worker -> Nat] /\ Taken \in Nat /\ t \in Nat
  BY <1>0, <1>1 DEF TaskInv, PoolTypeInv
<1>3. TaskLine' = TaskLine
  BY <1>1 DEF TaskLine
<1>4. Taken' = Taken
  BY <1>1, <1>3 DEF Taken
<1>5. pTask'[w] = 0 /\ \A v \in Worker : v # w => pTask'[v] = pTask[v] /\ pTask[v] # t
  BY <1>0, <1>1, <1>2 DEF TaskInv
<1>6. t \notin DoneTasks /\ DoneTasks' = DoneTasks \union {t}
  <2>1. t \notin DoneTasks
    BY DEF DoneTasks
  <2>2. ASSUME NEW n \in 1 .. Taken
        PROVE  (\A v \in Worker : pTask'[v] # n) <=> (n = t \/ \A v \in Worker : pTask[v] # n)
    BY <1>2, <1>5
  <2>. QED
    BY <1>2, <1>4, <2>1, <2>2 DEF DoneTasks
<1>7. IsFiniteSet(DoneTasks) /\ DoneTasks \in SUBSET Nat
  BY PoolFacts
<1>8. TotalInv'
  <2> HIDE DEF t
  <2>1. Cardinality(DoneTasks \union {t}) = Cardinality(DoneTasks) + 1
    BY <1>6, <1>7, FS_AddElement
  <2>2. Total(Own, Sq(DoneTasks \union {t})) = Total(Own, Sq(DoneTasks)) + t * t
    BY <1>2, <1>6, <1>7, SquareAdds
  <2>. QED
    BY <1>0, <1>1, <1>6, <2>1, <2>2 DEF TotalInv
<1>9. PoolTypeInv'
  BY <1>0, <1>1, <1>2 DEF PoolTypeInv
<1>10. TaskInv'
  <2>1. \A v \in Worker : pTask'[v] # 0 => pTask'[v] \in 1 .. Taken' /\ pState'[v] = "ready"
    BY <1>0, <1>1, <1>4, <1>5 DEF TaskInv
  <2>2. \A u, v \in Worker : u # v /\ pTask'[u] # 0 => pTask'[u] # pTask'[v]
    BY <1>0, <1>5 DEF TaskInv
  <2>3. Taken' \in Nat /\ \A k \in 1 .. Len(TaskLine') : TaskLine'[k] = Taken' + k
    BY <1>0, <1>3, <1>4 DEF TaskInv
  <2>. QED
    BY <2>1, <2>2, <2>3 DEF TaskInv
<1>11. PoolEndInv'
  BY <1>0, <1>1, <1>3 DEF PoolEndInv
<1>. QED
  BY <1>8, <1>9, <1>10, <1>11 DEF PoolInv

\* The pool of workers: main's own check at its last line, for any number of tasks, of
\* workers and of slots (e09_thread_pool_minimo): each task was counted once.
THEOREM PoolTotalsAreRight == ProgramsSpec => []P!TotalsAtJoin
<1>1. [ProgramsNext]_allVars => [P!Next]_poolVars
  BY DEF ProgramsNext, allVars, PipelineTurn, PoolTurn, StockTurn, KitchenTurn,
         EntryTurn, LimiterTurn, CountersTurn, CacheTurn, CopyTurn, WalkTurn,
         SignalsTurn
<1>2. PoolInv /\ [P!Next]_poolVars => PoolInv'
  <2> SUFFICES ASSUME PoolInv, [P!Next]_poolVars PROVE PoolInv'
    OBVIOUS
  <2>1. CASE UNCHANGED poolVars
    <3>1. UNCHANGED <<pQ, pX, pTask, pProcessed, pSumSq, pStop, pState>>
      BY <2>1 DEF poolVars
    <3>2. TaskLine' = TaskLine
      BY <3>1 DEF TaskLine
    <3>3. PoolEndInv'
      BY <3>1, <3>2 DEF PoolInv, PoolEndInv
    <3>4. /\ \A w \in Worker : pTask[w] # 0 => pState'[w] = "ready"
          /\ pState' \in [Worker \union {Main} -> {"ready", "done", "cv_not_empty", "cv_not_full"}]
          /\ pStop' \in BOOLEAN
      BY <3>1 DEF PoolInv, PoolTypeInv, TaskInv
    <3>. QED
      BY <3>1, <3>3, <3>4, PoolQuiet
  <2>2. CASE P!Next
    BY <2>1, <2>2, PoolEnqueues, PoolShutsDown, PoolWakes, PoolJoins, PoolDequeues, PoolAccounts
    DEF P!Next, P!Thread, P!Ended, P!vars, poolVars
  <2>. QED
    BY <2>1, <2>2
<1>3. PoolInv => P!TotalsAtJoin
  <2> SUFFICES ASSUME PoolInv, pState[Main] = "done"
               PROVE  pProcessed = Tasks /\ pSumSq = P!Squares(1 .. Tasks)
    BY DEF P!TotalsAtJoin
  <2>0. TaskInv /\ TotalInv /\ PoolEndInv /\ Worker # {} /\ Tasks \in Nat
    BY PoolAssumption DEF PoolInv
  <2>1. \A w \in Worker : pState[w] = "done" /\ pTask[w] = 0
    BY <2>0 DEF PoolEndInv, TaskInv
  <2>2. Len(TaskLine) = 0 /\ pX = Tasks + 1
    BY <2>0, <2>1 DEF PoolEndInv
  <2>3. Taken = Tasks
    BY <2>0, <2>2 DEF Taken
  <2>4. DoneTasks = 1 .. Tasks
    BY <2>0, <2>1, <2>3 DEF DoneTasks
  <2>5. IsFiniteSet(1 .. Tasks) /\ Cardinality(1 .. Tasks) = Tasks
    <3>1. 1 \in Int /\ Tasks \in Int
      BY <2>0
    <3>2. /\ IsFiniteSet(1 .. Tasks)
          /\ Cardinality(1 .. Tasks) = IF 1 > Tasks THEN 0 ELSE Tasks - 1 + 1
      BY ONLY <3>1, FS_Interval
    <3>. QED
      BY <2>0, <3>2
  <2>6. IsFiniteSet(Sq(1 .. Tasks)) /\ Sq(1 .. Tasks) \in SUBSET Nat
    <3>1. 1 .. Tasks \in SUBSET Nat /\ Tasks + 1 \in Nat /\ Tasks + 1 \notin 1 .. Tasks
      BY <2>0
    <3>. QED
      BY <2>5, <3>1, SquareAdds
  <2>7. P!SumSet(Sq(1 .. Tasks)) = Total(Own, Sq(1 .. Tasks))
    BY <2>6, SumSetIsTotal
  <2>. QED
    BY <2>0, <2>4, <2>5, <2>7 DEF TotalInv, P!Squares, Sq
<1>4. ProgramsInit => PoolInv
  BY PoolStart DEF ProgramsInit
<1>. QED
  BY <1>1, <1>2, <1>3, <1>4, PTL DEF ProgramsSpec

-----------------------------------------------------------------------------
(* The copies of a file. *)

Byte == 0 .. 255

\* Where the copy has got to: what is written and what is held are the beginning of the
\* source, as far as it has been read.
Carried(d, h, n) ==
  /\ Len(d) + Len(h) = n /\ n <= Len(Original)
  /\ \A j \in 1 .. Len(d) : d[j] = Original[j]
  /\ \A j \in 1 .. Len(h) : h[j] = Original[Len(d) + j]

CopyTypeInv ==
  /\ fProg \in F!Programs /\ fSame \in BOOLEAN
  /\ fSrc \in Seq(Byte) /\ fDst \in Seq(Byte) /\ fHeld \in Seq(Byte)
  /\ fPos \in 0 .. Len(fSrc)
  /\ fAt \in {"open_in", "open_out", "read", "write", "close_in", "close_out", "end"}
  /\ fRc \in {0, 1} /\ fRoom \in Nat /\ fFaults \in Nat /\ fUnseen \in BOOLEAN

\* The descriptors that are open at each call.
OpenInv ==
  /\ fAt \in {"open_in", "end"} => fFds = {}
  /\ fAt = "open_out" => fFds = {"in"}
  /\ fAt \in {"read", "write"} => fFds = {"in", "out"}
  /\ fAt = "close_in" => fFds \in {{}, {"in"}, {"in", "out"}}
  /\ fAt = "close_out" => fFds = {"out"}

\* What the files hold before and while the destination is open.
BytesInv ==
  /\ fAt \in {"open_in", "open_out"} => fPos = 0 /\ fHeld = <<>>
  /\ "out" \notin fFds /\ fAt \notin {"close_out", "end"} =>
       fDst = IF fSame THEN Original ELSE Old
  /\ ~fSame => fSrc = Original
  /\ ~fSame /\ "out" \in fFds => Carried(fDst, fHeld, fPos)
  /\ fAt = "read" /\ fProg # "stdio" => fHeld = <<>>

\* What success and failure say.
ExitInv ==
  /\ fRc = 0 => /\ fAt \in {"close_in", "close_out", "end"}
                /\ "out" \in fFds \/ fAt = "end"
  /\ fRc = 0 /\ "out" \in fFds => fPos = Len(fSrc) /\ (fProg # "stdio" => fHeld = <<>>)
  /\ fRc = 1 /\ F!Retries /\ fAt \in {"close_in", "close_out", "end"} =>
       fFaults > 0 \/ fRoom = 0
  /\ fUnseen => fAt = "end" /\ ~F!LooksAtClose
  /\ fAt = "end" /\ ~fSame /\ fRc = 0 =>
       fDst = Original \/ (fUnseen /\ F!BeginsOriginal(fDst))

CopyInv == CopyTypeInv /\ OpenInv /\ BytesInv /\ ExitInv

\* The places past the first b of b + k.
LEMMA PlacesPast ==
  ASSUME NEW a \in Nat, NEW b \in Nat, NEW k \in Nat, NEW j \in 1 .. b + k, ~(j <= b)
  PROVE  j - b \in 1 .. k /\ a + b + (j - b) = a + j
OBVIOUS

LEMMA LongerBy ==
  ASSUME NEW a \in Nat, NEW b \in Nat, NEW k \in Nat, NEW n, NEW m, a + b = n, m = b + k
  PROVE  a + m = n + k
OBVIOUS

\* A read goes on where the last one stopped.
LEMMA CarriedRead ==
  ASSUME NEW d \in Seq(Byte), NEW h \in Seq(Byte), NEW o \in Seq(Byte), NEW n \in Nat,
         NEW k \in Nat, k > 0, n + k <= Len(o)
  PROVE  /\ h \o SubSeq(o, n + 1, n + k) \in Seq(Byte)
         /\ o = Original /\ Carried(d, h, n) => Carried(d, h \o SubSeq(o, n + 1, n + k), n + k)
<1> DEFINE t == SubSeq(o, n + 1, n + k)
<1>1. /\ Len(o) \in Nat /\ Len(d) \in Nat /\ Len(h) \in Nat
      /\ \A j \in 1 .. Len(o) : o[j] \in Byte
  BY LenProperties, ElementOfSeq
<1>2. t \in Seq(Byte) /\ Len(t) = k /\ \A j \in 1 .. k : t[j] = o[n + j]
  <2>1. n + 1 \in Int /\ n + k \in Int /\ \A j \in n + 1 .. n + k : o[j] \in Byte
    BY <1>1
  <2>2. /\ t \in Seq(Byte) /\ Len(t) = IF n + 1 <= n + k THEN n + k - (n + 1) + 1 ELSE 0
        /\ \A j \in 1 .. n + k - (n + 1) + 1 : t[j] = o[n + 1 + j - 1]
    BY <2>1, SubSeqProperties
  <2>3. n + 1 <= n + k /\ n + k - (n + 1) + 1 = k /\ \A j \in Int : n + 1 + j - 1 = n + j
    OBVIOUS
  <2> HIDE DEF t
  <2>. QED
    BY <2>2, <2>3
<1> HIDE DEF t
<1>3. /\ h \o t \in Seq(Byte) /\ Len(h \o t) = Len(h) + k
      /\ \A j \in 1 .. Len(h) + k : (h \o t)[j] = IF j <= Len(h) THEN h[j] ELSE t[j - Len(h)]
  BY <1>2, ConcatProperties
<1>4. ASSUME o = Original, Carried(d, h, n) PROVE Carried(d, h \o t, n + k)
  <2>1. /\ Len(d) + Len(h) = n
        /\ \A j \in 1 .. Len(d) : d[j] = o[j]
        /\ \A j \in 1 .. Len(h) : h[j] = o[Len(d) + j]
    BY <1>4 DEF Carried
  <2>2. ASSUME NEW j \in 1 .. Len(h \o t) PROVE (h \o t)[j] = o[Len(d) + j]
    <3>1. j \in 1 .. Len(h) + k
      BY <1>3
    <3>2. CASE j <= Len(h)
      BY <1>1, <1>3, <2>1, <3>1, <3>2
    <3>3. CASE ~(j <= Len(h))
      <4>0. Len(d) \in Nat /\ Len(h) \in Nat /\ k \in Nat /\ j \in Int /\ Len(d) + Len(h) = n
        BY <1>1, <2>1, <3>1
      <4>1. j - Len(h) \in 1 .. k /\ n + (j - Len(h)) = Len(d) + j
        BY ONLY <4>0, <3>1, <3>3, PlacesPast
      <4>. QED
        BY <1>2, <1>3, <3>1, <3>3, <4>1
    <3>. QED
      BY <3>2, <3>3
  <2>. QED
    <3> DEFINE c == h \o t
    <3>0. Len(c) = Len(h) + k
      BY <1>3
    <3>1. Len(d) + Len(c) = n + k /\ n + k <= Len(Original)
      <4> HIDE DEF c
      <4>1. Len(Original) = Len(o)
        BY <1>4
      <4>2. n + k <= Len(Original)
        BY <4>1
      <4>3. Len(d) \in Nat /\ Len(h) \in Nat /\ Len(d) + Len(h) = n /\ k \in Nat
        BY <1>1, <2>1
      <4>4. Len(d) + Len(c) = n + k
        BY ONLY <4>3, <3>0, LongerBy
      <4>. QED
        BY <4>2, <4>4
    <3>2. \A j \in 1 .. Len(c) : c[j] = Original[Len(d) + j]
      BY <1>4, <2>2
    <3> HIDE DEF c
    <3>3. Carried(d, c, n + k)
      BY <1>4, <2>1, <3>1, <3>2 DEF Carried
    <3>. QED
      BY <3>3 DEF c
<1>. QED
  BY <1>3, <1>4 DEF t

\* A write hands on the first of what is held.
LEMMA CarriedWrite ==
  ASSUME NEW d \in Seq(Byte), NEW h \in Seq(Byte), NEW n \in Nat, NEW k \in 0 .. Len(h)
  PROVE  /\ d \o SubSeq(h, 1, k) \in Seq(Byte) /\ SubSeq(h, k + 1, Len(h)) \in Seq(Byte)
         /\ Carried(d, h, n) => Carried(d \o SubSeq(h, 1, k), SubSeq(h, k + 1, Len(h)), n)
<1> DEFINE a == SubSeq(h, 1, k)
           b == SubSeq(h, k + 1, Len(h))
           l == Len(h)
<1>1. l \in Nat /\ k \in Nat /\ k <= l /\ Len(d) \in Nat /\ \A j \in 1 .. l : h[j] \in Byte
  BY LenProperties, ElementOfSeq
<1>2. a \in Seq(Byte) /\ Len(a) = k /\ \A j \in 1 .. k : a[j] = h[j]
  <2>1. 1 \in Int /\ k \in Int /\ \A j \in 1 .. k : h[j] \in Byte
    BY <1>1
  <2>2. /\ a \in Seq(Byte) /\ Len(a) = IF 1 <= k THEN k - 1 + 1 ELSE 0
        /\ \A j \in 1 .. k - 1 + 1 : a[j] = h[1 + j - 1]
    BY <2>1, SubSeqProperties
  <2> HIDE DEF a
  <2>. QED
    BY <1>1, <2>2
<1>3. b \in Seq(Byte) /\ Len(b) = l - k /\ \A j \in 1 .. l - k : b[j] = h[k + j]
  <2>1. k + 1 \in Int /\ l \in Int /\ \A j \in k + 1 .. l : h[j] \in Byte
    BY <1>1
  <2>2. /\ b \in Seq(Byte) /\ Len(b) = IF k + 1 <= l THEN l - (k + 1) + 1 ELSE 0
        /\ \A j \in 1 .. l - (k + 1) + 1 : b[j] = h[k + 1 + j - 1]
    BY <2>1, SubSeqProperties
  <2> HIDE DEF b, l
  <2>3. l - (k + 1) + 1 = l - k /\ \A j \in Int : k + 1 + j - 1 = k + j
    BY <1>1
  <2>. QED
    <3>1. b \in Seq(Byte) /\ Len(b) = l - k
      BY <1>1, <2>2
    <3>2. ASSUME NEW j \in 1 .. l - k PROVE b[j] = h[k + j]
      BY <1>1, <2>2, <2>3
    <3>. QED
      BY <3>1, <3>2
<1> HIDE DEF a, b
<1>4. /\ d \o a \in Seq(Byte) /\ Len(d \o a) = Len(d) + k
      /\ \A j \in 1 .. Len(d) + k : (d \o a)[j] = IF j <= Len(d) THEN d[j] ELSE a[j - Len(d)]
  BY <1>2, ConcatProperties
<1>5. ASSUME Carried(d, h, n) PROVE Carried(d \o a, b, n)
  <2>1. /\ Len(d) + l = n /\ n <= Len(Original)
        /\ \A j \in 1 .. Len(d) : d[j] = Original[j]
        /\ \A j \in 1 .. l : h[j] = Original[Len(d) + j]
    BY <1>5 DEF Carried
  <2>2. ASSUME NEW j \in 1 .. Len(d \o a) PROVE (d \o a)[j] = Original[j]
    <3>1. j \in 1 .. Len(d) + k
      BY <1>4
    <3>2. CASE j <= Len(d)
      BY <1>1, <1>4, <2>1, <3>1, <3>2
    <3>3. CASE ~(j <= Len(d))
      <4>1. j - Len(d) \in 1 .. k /\ j - Len(d) \in 1 .. l /\ Len(d) + (j - Len(d)) = j
        BY <1>1, <3>1, <3>3
      <4>. QED
        BY <1>2, <1>4, <2>1, <3>1, <3>3, <4>1
    <3>. QED
      BY <3>2, <3>3
  <2>3. ASSUME NEW j \in 1 .. Len(b) PROVE b[j] = Original[Len(d \o a) + j]
    <3>1. j \in 1 .. l - k /\ k + j \in 1 .. l /\ Len(d) + (k + j) = Len(d \o a) + j
      BY <1>1, <1>3, <1>4
    <3>. QED
      BY <1>3, <2>1, <3>1
  <2>. QED
    <3> DEFINE c == d \o a
    <3>0. Len(c) = Len(d) + k
      BY <1>4
    <3>1. Len(c) + Len(b) = n /\ n <= Len(Original)
      <4> HIDE DEF c, l
      <4>1. Len(d) \in Nat /\ l \in Nat /\ k \in Nat /\ Len(d) + l = n /\ Len(b) = l - k
        BY <1>1, <1>3, <2>1
      <4>2. Len(c) + Len(b) = n
        BY ONLY <4>1, <3>0
      <4>. QED
        BY <2>1, <4>2
    <3>2. /\ \A j \in 1 .. Len(c) : c[j] = Original[j]
          /\ \A j \in 1 .. Len(b) : b[j] = Original[Len(c) + j]
      BY <2>2, <2>3
    <3> HIDE DEF c
    <3>3. Carried(c, b, n)
      BY <3>1, <3>2 DEF Carried
    <3>. QED
      BY <3>3 DEF c
<1>. QED
  BY <1>3, <1>4, <1>5 DEF a, b

\* What is carried begins the source, and is the source when all has been read and
\* nothing is held.
LEMMA CarriedBegins ==
  ASSUME NEW d \in Seq(Byte), NEW h \in Seq(Byte), NEW n \in Nat, Carried(d, h, n)
  PROVE  /\ F!BeginsOriginal(d)
         /\ \A k \in 0 .. Len(d) : F!BeginsOriginal(SubSeq(d, 1, k))
         /\ n = Len(Original) /\ h = <<>> => d = Original
<1> DEFINE O == Original
<1>1. O \in Seq(Byte) /\ Len(O) \in Nat /\ Len(d) \in Nat /\ Len(h) \in Nat /\ Len(d) <= Len(O)
  BY CopyAssumption, LenProperties DEF Byte, Carried
<1>2. \A j \in 1 .. Len(d) : d[j] = O[j] /\ d[j] \in Byte /\ O[j] \in Byte
  BY <1>1, ElementOfSeq DEF Carried
<1>3. ASSUME NEW k \in 0 .. Len(d) PROVE SubSeq(d, 1, k) = SubSeq(O, 1, k)
  <2>1. 1 \in Int /\ k \in Int /\ \A j \in 1 .. k : d[j] \in Byte /\ O[j] \in Byte
    BY <1>1, <1>2
  <2>2. /\ SubSeq(d, 1, k) \in Seq(Byte) /\ Len(SubSeq(d, 1, k)) = IF 1 <= k THEN k - 1 + 1 ELSE 0
        /\ \A j \in 1 .. k - 1 + 1 : SubSeq(d, 1, k)[j] = d[1 + j - 1]
    BY <2>1, SubSeqProperties
  <2>3. /\ SubSeq(O, 1, k) \in Seq(Byte) /\ Len(SubSeq(O, 1, k)) = IF 1 <= k THEN k - 1 + 1 ELSE 0
        /\ \A j \in 1 .. k - 1 + 1 : SubSeq(O, 1, k)[j] = O[1 + j - 1]
    BY <2>1, SubSeqProperties
  <2>4. k - 1 + 1 = k /\ \A j \in 1 .. k : 1 + j - 1 = j /\ j \in 1 .. Len(d)
    BY <1>1
  <2> DEFINE s == SubSeq(d, 1, k)
             t == SubSeq(O, 1, k)
  <2>5. Len(s) = k /\ Len(t) = k
    BY <2>2, <2>3, <2>4
  <2>6. \A j \in 1 .. Len(s) : s[j] = t[j]
    BY <1>2, <2>2, <2>3, <2>4, <2>5
  <2> HIDE DEF s, t
  <2>7. s \in Seq(Byte) /\ t \in Seq(Byte)
    BY <2>2, <2>3 DEF s, t
  <2>8. s = t
    BY <2>5, <2>6, <2>7, SeqEqual
  <2>. QED
    BY <2>8 DEF s, t
<1>4. SubSeq(d, 1, Len(d)) = d /\ SubSeq(O, 1, Len(O)) = O
  BY <1>1, SubSeqFull
<1>5. ASSUME NEW k \in 0 .. Len(d) PROVE F!BeginsOriginal(SubSeq(d, 1, k))
  <2>1. SubSeq(d, 1, k) = SubSeq(O, 1, k)
    BY <1>3
  <2>2. Len(SubSeq(O, 1, k)) = k
    <3>1. \A j \in 1 .. k : O[j] \in Byte
      BY <1>1, <1>2
    <3>2. Len(SubSeq(O, 1, k)) = IF 1 <= k THEN k - 1 + 1 ELSE 0
      BY <3>1, SubSeqProperties
    <3>. QED
      BY <3>2
  <2>3. SubSeq(SubSeq(O, 1, k), 1, k) = SubSeq(O, 1, k)
    <3>1. SubSeq(d, 1, k) \in Seq(Byte)
      BY <1>1, <1>2, SubSeqProperties
    <3>. QED
      BY <2>1, <2>2, <3>1, SubSeqFull
  <2>. QED
    BY <1>1, <2>1, <2>2, <2>3 DEF F!BeginsOriginal
<1>6. F!BeginsOriginal(d)
  <2>1. Len(d) \in 0 .. Len(d)
    BY <1>1
  <2>. QED
    BY <1>4, <1>5, <2>1
<1>7. ASSUME n = Len(O), h = <<>> PROVE d = O
  <2>1. Len(d) = Len(O)
    BY <1>1, <1>7 DEF Carried
  <2>. QED
    BY <1>1, <1>2, <2>1, SeqEqual
<1>. QED
  BY <1>5, <1>6, <1>7

LEMMA CopyStart == F!Init => CopyInv
<1> SUFFICES ASSUME F!Init PROVE CopyInv
  OBVIOUS
<1> USE DEF F!Init
<1>1. Original \in Seq(Byte) /\ Old \in Seq(Byte) /\ <<>> \in Seq(Byte) /\ Len(Original) \in Nat
  BY CopyAssumption DEF Byte
<1>2. fDst \in Seq(Byte) /\ fRoom \in Nat
  BY <1>1, CopyAssumption
<1>6. fPos \in 0 .. Len(fSrc) /\ fSrc \in Seq(Byte) /\ fHeld \in Seq(Byte)
  BY <1>1
<1>7. /\ fProg \in F!Programs /\ fSame \in BOOLEAN /\ fAt = "open_in"
      /\ fRc = 1 /\ fFaults = 0 /\ fUnseen = FALSE
  OBVIOUS
<1>3. CopyTypeInv
  BY ONLY <1>2, <1>6, <1>7 DEF CopyTypeInv
<1>4. OpenInv /\ ExitInv
  BY DEF OpenInv, ExitInv
<1>5. BytesInv
  BY DEF BytesInv
<1>. QED
  BY <1>3, <1>4, <1>5 DEF CopyInv

\* Opening, a call that fails and one that is interrupted.
LEMMA CopyFails ==
  ASSUME CopyInv, fAt \in {"open_in", "open_out", "read", "write"}, F!Fails
  PROVE  CopyInv'
<1> USE DEF F!Fails
<1>1. CopyTypeInv' /\ OpenInv'
  BY DEF CopyInv, CopyTypeInv, OpenInv
<1>2. BytesInv'
  BY DEF CopyInv, BytesInv
<1>3. ExitInv'
  BY DEF CopyInv, CopyTypeInv, ExitInv, F!Retries, F!LooksAtClose
<1>. QED
  BY <1>1, <1>2, <1>3 DEF CopyInv

LEMMA CopyInterrupted ==
  ASSUME CopyInv, fAt \in {"read", "write"}, F!Interrupted
  PROVE  CopyInv'
<1> USE DEF F!Interrupted
<1>1. CopyTypeInv' /\ OpenInv'
  BY DEF CopyInv, CopyTypeInv, OpenInv
<1>2. BytesInv'
  BY DEF CopyInv, BytesInv
<1>3. ExitInv'
  BY DEF CopyInv, CopyTypeInv, ExitInv, F!Retries, F!LooksAtClose
<1>. QED
  BY <1>1, <1>2, <1>3 DEF CopyInv

LEMMA CopyOpens ==
  ASSUME CopyInv, F!OpenIn \/ F!OpenOut
  PROVE  CopyInv'
<1>1. CASE F!OpenIn /\ ~F!Fails
  <2> USE <1>1 DEF F!OpenIn
  <2>1. CopyTypeInv' /\ OpenInv'
    BY DEF CopyInv, CopyTypeInv, OpenInv
  <2>2. BytesInv'
    BY DEF CopyInv, OpenInv, BytesInv
  <2>3. ExitInv'
    BY DEF CopyInv, CopyTypeInv, ExitInv, F!Retries, F!LooksAtClose
  <2>. QED
    BY <2>1, <2>2, <2>3 DEF CopyInv
<1>2. CASE F!OpenOut /\ ~F!Fails
  <2> USE <1>2 DEF F!OpenOut
  <2>4. fSrc \in Seq(Byte) /\ <<>> \in Seq(Byte) /\ fPos = 0
    BY DEF CopyInv, CopyTypeInv, BytesInv
  <2>5. fSrc' \in Seq(Byte) /\ fDst' \in Seq(Byte)
    BY <2>4
  <2>6. fPos' \in 0 .. Len(fSrc')
    BY <2>4, <2>5
  <2>1. CopyTypeInv' /\ OpenInv'
    BY <2>5, <2>6 DEF CopyInv, CopyTypeInv, OpenInv
  <2>2. BytesInv'
    <3>1. Carried(<<>>, <<>>, 0)
      <4>1. Len(Original) \in Nat
        BY CopyAssumption
      <4>. QED
        BY <4>1 DEF Carried
    <3>. QED
      BY <3>1 DEF CopyInv, BytesInv
  <2>3. ExitInv'
    BY DEF CopyInv, CopyTypeInv, ExitInv, F!Retries, F!LooksAtClose
  <2>. QED
    BY <2>1, <2>2, <2>3 DEF CopyInv
<1>. QED
  BY <1>1, <1>2, CopyFails DEF F!OpenIn, F!OpenOut

LEMMA CopyReads ==
  ASSUME CopyInv, F!Read
  PROVE  CopyInv'
<1>1. fAt = "read"
  BY DEF F!Read
<1>2. ASSUME NEW n \in 1 .. F!ReadSize, fPos + n <= Len(fSrc),
             fHeld' = fHeld \o SubSeq(fSrc, fPos + 1, fPos + n), fPos' = fPos + n,
             fAt' = IF fProg = "stdio" /\ Len(fHeld') < BufSize THEN "read" ELSE "write",
             UNCHANGED <<fProg, fSame, fSrc, fDst, fFds, fRc, fRoom, fInterrupts, fFaults, fUnseen>>
      PROVE  CopyInv'
  <2>1. n \in Nat /\ n > 0 /\ fPos \in Nat /\ Len(fSrc) \in Nat
    BY <1>2, CopyAssumption DEF F!ReadSize, CopyInv, CopyTypeInv
  <2>2. /\ fDst \in Seq(Byte) /\ fHeld \in Seq(Byte) /\ fSrc \in Seq(Byte)
    BY DEF CopyInv, CopyTypeInv
  <2>3. fHeld' \in Seq(Byte)
        /\ (fSrc = Original /\ Carried(fDst, fHeld, fPos) => Carried(fDst, fHeld', fPos + n))
    BY <1>2, <2>1, <2>2, CarriedRead
  <2>4. fPos' \in 0 .. Len(fSrc')
    BY <1>2, <2>1
  <2>5. CopyTypeInv' /\ OpenInv'
    BY <1>1, <1>2, <2>3, <2>4 DEF CopyInv, CopyTypeInv, OpenInv
  <2>6. BytesInv'
    BY <1>1, <1>2, <2>3 DEF CopyInv, OpenInv, BytesInv
  <2>7. ExitInv'
    BY <1>1, <1>2 DEF CopyInv, CopyTypeInv, ExitInv, F!Retries, F!LooksAtClose
  <2>. QED
    BY <2>5, <2>6, <2>7 DEF CopyInv
<1>. QED
  BY <1>1, <1>2, CopyFails, CopyInterrupted DEF F!Read

LEMMA CopyWrites ==
  ASSUME CopyInv, F!Write
  PROVE  CopyInv'
<1>1. fAt = "write"
  BY DEF F!Write
<1>2. ASSUME NEW n \in 1 .. F!WriteSize, n <= fRoom, F!Wrote(n), fRoom' = fRoom - n,
             fAt' = IF fHeld' = <<>> THEN "read" ELSE "write",
             UNCHANGED <<fProg, fSame, fSrc, fPos, fFds, fRc, fInterrupts, fFaults, fUnseen>>
      PROVE  CopyInv'
  <2>1. /\ fDst \in Seq(Byte) /\ fHeld \in Seq(Byte) /\ fPos \in Nat
        /\ Len(fHeld) \in Nat /\ fRoom \in Nat
    BY DEF CopyInv, CopyTypeInv
  <2>2. n \in 0 .. Len(fHeld)
    BY <1>2, <2>1, CopyAssumption DEF F!WriteSize
  <2>3. /\ fDst' \in Seq(Byte) /\ fHeld' \in Seq(Byte)
        /\ Carried(fDst, fHeld, fPos) => Carried(fDst', fHeld', fPos)
    BY <1>2, <2>1, <2>2, CarriedWrite DEF F!Wrote
  <2>4. fRoom' \in Nat
    BY <1>2, <2>1, <2>2
  <2>5. CopyTypeInv' /\ OpenInv'
    BY <1>1, <1>2, <2>3, <2>4 DEF CopyInv, CopyTypeInv, OpenInv
  <2>6. BytesInv'
    BY <1>1, <1>2, <2>3 DEF CopyInv, OpenInv, BytesInv
  <2>7. ExitInv'
    BY <1>1, <1>2 DEF CopyInv, CopyTypeInv, ExitInv, F!Retries, F!LooksAtClose
  <2>. QED
    BY <2>5, <2>6, <2>7 DEF CopyInv
<1>3. ASSUME fRoom = 0, fAt' = "close_in",
             UNCHANGED <<fProg, fSame, fSrc, fDst, fPos, fHeld, fFds, fRc, fRoom,
                         fInterrupts, fFaults, fUnseen>>
      PROVE  CopyInv'
  <2>1. CopyTypeInv' /\ OpenInv'
    BY <1>1, <1>3 DEF CopyInv, CopyTypeInv, OpenInv
  <2>2. BytesInv'
    BY <1>1, <1>3 DEF CopyInv, BytesInv
  <2>3. ExitInv'
    BY <1>1, <1>3 DEF CopyInv, CopyTypeInv, ExitInv, F!Retries, F!LooksAtClose
  <2>. QED
    BY <2>1, <2>2, <2>3 DEF CopyInv
<1>. QED
  BY <1>1, <1>2, <1>3, CopyFails, CopyInterrupted DEF F!Write

LEMMA CopyReadsAll ==
  ASSUME CopyInv, F!EndOfFile
  PROVE  CopyInv'
<1> USE DEF F!EndOfFile
<1>1. CopyTypeInv' /\ OpenInv'
  BY DEF CopyInv, CopyTypeInv, OpenInv
<1>2. BytesInv'
  BY DEF CopyInv, BytesInv
<1>3. ExitInv'
  BY DEF CopyInv, CopyTypeInv, OpenInv, BytesInv, ExitInv, F!Retries, F!LooksAtClose
<1>. QED
  BY <1>1, <1>2, <1>3 DEF CopyInv

LEMMA CopyClosesIn ==
  ASSUME CopyInv, F!CloseIn
  PROVE  CopyInv'
<1> USE DEF F!CloseIn
<1>1. fAt = "close_in" /\ fFds \in {{}, {"in"}, {"in", "out"}} /\ fFaults \in Nat /\ ~fUnseen
  BY DEF CopyInv, CopyTypeInv, OpenInv, ExitInv
<1>2. fFds' = (IF "out" \in fFds THEN {"out"} ELSE {})
      /\ fAt' = (IF "out" \in fFds THEN "close_out" ELSE "end")
  BY <1>1
<1>3. CopyTypeInv' /\ OpenInv'
  BY <1>1, <1>2 DEF CopyInv, CopyTypeInv, OpenInv
<1>4. BytesInv'
  BY <1>1, <1>2 DEF CopyInv, BytesInv
<1>5. ExitInv'
  BY <1>1, <1>2 DEF CopyInv, CopyTypeInv, ExitInv, F!Retries, F!LooksAtClose
<1>. QED
  BY <1>3, <1>4, <1>5 DEF CopyInv

LEMMA CopyClosesOut ==
  ASSUME CopyInv, F!CloseOut
  PROVE  CopyInv'
<1> DEFINE rest == IF fProg = "stdio" THEN fHeld ELSE <<>>
<1>1. /\ fAt = "close_out" /\ fAt' = "end" /\ fFds = {"out"} /\ fFds' = {}
      /\ fHeld' = <<>> /\ UNCHANGED <<fProg, fSame, fSrc, fPos, fRoom, fInterrupts>>
  BY DEF F!CloseOut, CopyInv, OpenInv
<1>2. /\ fDst \in Seq(Byte) /\ fHeld \in Seq(Byte) /\ rest \in Seq(Byte) /\ fPos \in Nat
      /\ fRoom \in Nat /\ fFaults \in Nat /\ Len(rest) \in Nat /\ Len(fDst) \in Nat
  BY DEF CopyInv, CopyTypeInv
<1>3. ~fSame => Carried(fDst, fHeld, fPos)
  BY <1>1 DEF CopyInv, BytesInv
<1>4. fRc = 0 => fPos = Len(fSrc) /\ (fProg # "stdio" => fHeld = <<>>)
  BY <1>1 DEF CopyInv, ExitInv
<1>5. ASSUME NEW d \in Seq(Byte), fDst' = d, fRc' \in {0, 1}, fFaults' \in Nat,
             fUnseen' \in BOOLEAN, fUnseen' => ~F!LooksAtClose, fFaults' >= fFaults,
             fRc' # fRc => fFaults' > 0,
             ~fSame /\ fRc' = 0 => d = Original \/ (fUnseen' /\ F!BeginsOriginal(d))
      PROVE  CopyInv'
  <2>1. CopyTypeInv' /\ OpenInv'
    BY <1>1, <1>2, <1>5 DEF CopyInv, CopyTypeInv, OpenInv
  <2>2. BytesInv'
    BY <1>1 DEF CopyInv, BytesInv
  <2>3. ExitInv'
    BY <1>1, <1>2, <1>5 DEF CopyInv, CopyTypeInv, ExitInv, F!Retries, F!LooksAtClose
  <2>. QED
    BY <2>1, <2>2, <2>3 DEF CopyInv
<1>6. ~fSame /\ fRc = 0 => fPos = Len(Original)
  BY <1>4 DEF CopyInv, BytesInv
<1>7. ~fSame /\ fRc = 0 => rest = fHeld
  BY <1>4
<1> HIDE DEF rest
<1>8. ASSUME Len(rest) <= fRoom, fDst' = fDst \o rest, UNCHANGED <<fRc, fUnseen, fFaults>>
      PROVE  CopyInv'
  <2> DEFINE d == fDst \o rest
  <2>1. d \in Seq(Byte)
    BY <1>2, ConcatProperties
  <2>2. ASSUME ~fSame, fRc = 0 PROVE d = Original
    <3>1. Len(fHeld) \in 0 .. Len(fHeld)
      BY <1>2
    <3>2. SubSeq(fHeld, 1, Len(fHeld)) = fHeld
      BY <1>2, SubSeqFull
    <3>3. SubSeq(fHeld, Len(fHeld) + 1, Len(fHeld)) = <<>>
      BY <3>1, SubSeqEmpty
    <3>4. Carried(fDst \o fHeld, <<>>, fPos)
      BY <1>2, <1>3, <2>2, <3>1, <3>2, <3>3, CarriedWrite
    <3>5. Carried(d, <<>>, fPos) /\ <<>> \in Seq(Byte)
      BY <1>7, <2>2, <3>4
    <3> HIDE DEF d
    <3>. QED
      BY <1>2, <1>6, <2>1, <2>2, <3>5, CarriedBegins
  <2> HIDE DEF d
  <2>3. fRc' \in {0, 1} /\ fUnseen' \in BOOLEAN /\ ~fUnseen' /\ fRc' = fRc /\ fFaults' = fFaults
    BY <1>1, <1>8 DEF CopyInv, CopyTypeInv, ExitInv
  <2>4. fDst' = d
    BY <1>8 DEF d
  <2>. QED
    BY <1>2, <1>5, <2>1, <2>2, <2>3, <2>4
<1>9. ASSUME Len(rest) > fRoom, fDst' = fDst \o SubSeq(rest, 1, fRoom), fUnseen' = TRUE,
             UNCHANGED <<fRc, fFaults>>
      PROVE  CopyInv'
  <2> DEFINE d == fDst \o SubSeq(rest, 1, fRoom)
  <2>1. fRoom \in 0 .. Len(rest)
    BY <1>2, <1>9
  <2>2. d \in Seq(Byte) /\ SubSeq(rest, fRoom + 1, Len(rest)) \in Seq(Byte)
    BY <1>2, <2>1, CarriedWrite
  <2>3. ASSUME ~fSame, fRc = 0 PROVE F!BeginsOriginal(d)
    <3>1. Carried(d, SubSeq(rest, fRoom + 1, Len(rest)), fPos)
      BY <1>2, <1>3, <1>7, <2>1, <2>3, CarriedWrite
    <3> HIDE DEF d
    <3>. QED
      BY <1>2, <2>2, <3>1, CarriedBegins
  <2> HIDE DEF d
  <2>4. ~F!LooksAtClose
    <3>1. rest # <<>>
      BY <1>2, <1>9
    <3>. QED
      BY <3>1 DEF rest, F!LooksAtClose
  <2>5. fRc' \in {0, 1} /\ fUnseen' /\ fUnseen' \in BOOLEAN /\ fRc' = fRc /\ fFaults' = fFaults
    BY <1>9 DEF CopyInv, CopyTypeInv
  <2>6. fDst' = d
    BY <1>9 DEF d
  <2>. QED
    BY <1>2, <1>5, <2>2, <2>3, <2>4, <2>5, <2>6
<1>10. ASSUME NEW n \in 0 .. Len(fDst), fFaults' = fFaults + 1, fDst' = SubSeq(fDst, 1, n),
              fRc' = IF F!LooksAtClose THEN 1 ELSE fRc, fUnseen' = ~F!LooksAtClose
       PROVE  CopyInv'
  <2> DEFINE d == SubSeq(fDst, 1, n)
  <2>1. d \in Seq(Byte)
    BY <1>2, CarriedWrite
  <2>2. ASSUME ~fSame PROVE F!BeginsOriginal(d)
    BY <1>2, <1>3, <2>2, CarriedBegins
  <2> HIDE DEF d
  <2>3. fRc \in {0, 1} /\ F!LooksAtClose \in BOOLEAN
    BY DEF CopyInv, CopyTypeInv, F!LooksAtClose
  <2>4. fRc' \in {0, 1} /\ fUnseen' \in BOOLEAN /\ (fUnseen' <=> ~F!LooksAtClose)
        /\ (fRc' = 0 => fUnseen') /\ fFaults' = fFaults + 1
    <3>1. CASE F!LooksAtClose
      <4>1. fRc' = 1 /\ fUnseen' = FALSE
        BY <1>10, <3>1
      <4>. QED
        BY <1>10, <3>1, <4>1
    <3>2. CASE ~F!LooksAtClose
      <4>1. fRc' = fRc /\ fUnseen' = TRUE
        BY <1>10, <3>2
      <4>. QED
        BY <1>10, <2>3, <3>2, <4>1
    <3>. QED
      BY <3>1, <3>2
  <2>5. fDst' = d
    BY <1>10 DEF d
  <2>. QED
    BY <1>2, <1>5, <2>1, <2>2, <2>4, <2>5
<1>. QED
  BY <1>8, <1>9, <1>10 DEF F!CloseOut, rest

\* The copies: success means that all of the source was copied, for any source, any buffer,
\* and any calls that are cut short, interrupted or fail (the five programs of bloque02).
THEOREM CopiesAreHonest == ProgramsSpec => []F!CopyIsHonest
<1>1. [ProgramsNext]_allVars => [F!Next]_copyVars
  BY DEF ProgramsNext, allVars, PipelineTurn, PoolTurn, StockTurn, KitchenTurn,
         EntryTurn, LimiterTurn, CountersTurn, CacheTurn, CopyTurn, WalkTurn,
         SignalsTurn
<1>2. CopyInv /\ [F!Next]_copyVars => CopyInv'
  <2> SUFFICES ASSUME CopyInv, [F!Next]_copyVars PROVE CopyInv'
    OBVIOUS
  <2>1. CASE UNCHANGED copyVars
    BY <2>1 DEF copyVars, CopyInv, CopyTypeInv, OpenInv, BytesInv, ExitInv, F!Retries, F!LooksAtClose
  <2>2. CASE F!Next
    BY <2>1, <2>2, CopyOpens, CopyReads, CopyWrites, CopyReadsAll, CopyClosesIn, CopyClosesOut
    DEF F!Next, F!Ended, F!vars, copyVars
  <2>. QED
    BY <2>1, <2>2
<1>3. CopyInv => F!CopyIsHonest
  <2> SUFFICES ASSUME CopyInv PROVE F!CopyIsHonest
    OBVIOUS
  <2>1. fDst \in Seq(Byte) /\ fHeld \in Seq(Byte) /\ fPos \in Nat
    BY DEF CopyInv, CopyTypeInv
  <2>2. ~fSame /\ "out" \in fFds => F!BeginsOriginal(fDst)
    BY <2>1, CarriedBegins DEF CopyInv, BytesInv
  <2>. QED
    BY <2>2 DEF CopyInv, CopyTypeInv, OpenInv, BytesInv, ExitInv, F!CopyIsHonest
<1>4. ProgramsInit => CopyInv
  BY CopyStart DEF ProgramsInit
<1>. QED
  BY <1>1, <1>2, <1>3, <1>4, PTL DEF ProgramsSpec

-----------------------------------------------------------------------------
(* The walks of a tree.                                                    *)

\* The names and the paths that the trees and the newcomers may hold.
GivenPaths == (UNION {DOMAIN tree : tree \in Trees}) \union {c.path : c \in Newcomers}
Name == UNION {{q[k] : k \in DOMAIN q} : q \in GivenPaths}
Path == Seq(Name)
OpenDir == [path : Path, left : SUBSET Name]

\* Under, name by name.
Begins(q, p) == Len(q) <= Len(p) /\ \A j \in 1 .. Len(q) : q[j] = p[j]

Spotless(p) == \A q \in wTouched : ~Begins(q, p)

\* What the walk may still come to: below the path it is at, and below the names that
\* its open directories have not given yet.
ToCome(p) ==
  \E k \in DOMAIN wStack :
    k <= Len(p) /\ Begins(wStack[k].path, p) /\ p[k] \in wStack[k].left
Ahead(p) ==
  \/ wAt = "lstat" /\ Begins(wCur, p)
  \/ wAt = "open" /\ Begins(wCur, p) /\ wCur # p
  \/ ToCome(p)

Shown(p) == \E j \in DOMAIN wPrinted : wPrinted[j] = p
Wanted(p) == W!Matches(p, wFirst[p]) /\ (wProg = "project" => p # <<>>)
Steady(p) ==
  /\ p \in DOMAIN wFirst /\ Len(p) <= MaxOpen
  /\ \A q \in DOMAIN wFirst : Begins(q, p) /\ q # p => wFirst[q].readable

WalkTypeInv ==
  /\ wProg \in {"walk", "basic", "project"} /\ wFirst \in Trees
  /\ wAt \in {"lstat", "open", "read", "end"} /\ wError \in BOOLEAN
  /\ DOMAIN wFs \subseteq Path /\ wCur \in Path /\ wTouched \subseteq Path
  /\ wPrinted \in Seq(Path)
  /\ wStack \in Seq(OpenDir)

\* The open directories s are those above h, and none gives again a name of h, unless
\* somebody has put it there.
StackAt(s, h, T) ==
  \A k \in DOMAIN s :
    /\ Len(s[k].path) = k - 1 /\ Begins(s[k].path, h)
    /\ k <= Len(h) /\ h[k] \in s[k].left => \E q \in T : Begins(q, h) /\ Len(q) <= k

Here == IF wAt = "read" THEN wStack[Len(wStack)].path ELSE wCur

PlaceInv ==
  /\ wAt = "end" => wStack = <<>>
  /\ wAt = "read" => wStack # <<>>
  /\ wAt \in {"lstat", "open"} => Len(wCur) = Len(wStack)
  /\ wAt = "lstat" /\ wProg = "project" => wStack # <<>>
  /\ wAt # "end" => StackAt(wStack, Here, wTouched)

\* A path that nobody touches is as it was; it is printed once, when it has been reached
\* and matches; and a directory behind the walk was opened, if errors are remembered.
Opening(p) == wAt = "open" /\ wCur = p
Entered(p) ==
  wProg # "project" /\ ~wError /\ W!IsDir(wFirst, p)
    => wFirst[p].readable /\ Len(p) < MaxOpen
TreeSame(p) ==
  /\ p \in DOMAIN wFs <=> p \in DOMAIN wFirst
  /\ p \in DOMAIN wFs => wFs[p] = wFirst[p]
OncePrinted(p) ==
  /\ Shown(p) => p \in DOMAIN wFirst /\ Wanted(p) /\ ~Ahead(p)
  /\ \A j, k \in DOMAIN wPrinted : wPrinted[j] = p /\ wPrinted[k] = p => j = k
LeftBehind(p) ==
  Steady(p) /\ ~Ahead(p) /\ (wProg = "walk" => ~wError) =>
    (Wanted(p) => Shown(p)) /\ (Opening(p) \/ Entered(p))
PathInv == \A p \in Path : Spotless(p) => TreeSame(p) /\ OncePrinted(p) /\ LeftBehind(p)

\* An error has a reason.
Reason == \E p \in DOMAIN wFirst :
            W!IsDir(wFirst, p) /\ (~wFirst[p].readable \/ Len(p) >= MaxOpen)
ErrorInv ==
  /\ wProg = "project" => ~wError
  /\ wTouched = {} =>
       /\ wError => Reason
       /\ wAt \in {"lstat", "open"} => wCur \in DOMAIN wFirst
       /\ wAt = "open" /\ wProg # "project" => W!IsDir(wFirst, wCur)
       /\ \A k \in DOMAIN wStack : \A n \in wStack[k].left :
            Append(wStack[k].path, n) \in DOMAIN wFirst

WalkInv == WalkTypeInv /\ PlaceInv /\ PathInv /\ ErrorInv

-----------------------------------------------------------------------------

LEMMA GivenArePaths == GivenPaths \subseteq Path /\ <<>> \in Path
<1>1. ASSUME NEW p \in GivenPaths PROVE p \in Path
  <2>1. p \in Seq({p[k] : k \in DOMAIN p})
    <3>1. ASSUME NEW c \in Newcomers PROVE c.path \in Seq({c.path[k] : k \in DOMAIN c.path})
      BY WalkAssumption
    <3>2. ASSUME NEW tree \in Trees, NEW q \in DOMAIN tree PROVE q \in Seq({q[k] : k \in DOMAIN q})
      BY WalkAssumption
    <3>3. (\E c \in Newcomers : p = c.path) \/ \E tree \in Trees : p \in DOMAIN tree
      BY DEF GivenPaths
    <3>. QED
      BY ONLY <3>1, <3>2, <3>3
  <2>2. \A k \in 1 .. Len(p) : p[k] \in Name
    BY <2>1 DEF Name
  <2>. QED
    BY <2>1, <2>2 DEF Path
<1>. QED
  BY <1>1 DEF Path

LEMMA PrefixIsBegins ==
  ASSUME NEW q \in Path, NEW p \in Path
  PROVE  W!Under(q, p) <=> Begins(q, p)
BY DEF W!Under, Begins, Path

LEMMA BeginsFacts ==
  ASSUME NEW p \in Path, NEW q \in Path
  PROVE  /\ Len(p) \in Nat /\ Begins(p, p) /\ Begins(<<>>, p)
         /\ \A r \in Path : Begins(r, q) /\ Begins(q, p) => Begins(r, p)
         /\ \A r \in Path : Begins(r, p) /\ Begins(q, p) /\ Len(r) <= Len(q) => Begins(r, q)
         /\ Begins(q, p) /\ Len(q) = Len(p) => q = p
         /\ Begins(q, p) => Len(q) <= Len(p) /\ \A j \in 1 .. Len(q) : q[j] = p[j]
BY DEF Begins, Path

LEMMA BeginsOneMore ==
  ASSUME NEW p \in Path, NEW q \in Path, NEW n \in Name
  PROVE  /\ Append(q, n) \in Path /\ Len(Append(q, n)) = Len(q) + 1
         /\ Append(q, n)[Len(q) + 1] = n /\ \A j \in 1 .. Len(q) : Append(q, n)[j] = q[j]
         /\ Begins(q, Append(q, n))
         /\ Begins(Append(q, n), p) <=> Begins(q, p) /\ Len(q) < Len(p) /\ p[Len(q) + 1] = n
<1>1. /\ Append(q, n) \in Path /\ Len(Append(q, n)) = Len(q) + 1
      /\ Append(q, n)[Len(q) + 1] = n /\ \A j \in 1 .. Len(q) : Append(q, n)[j] = q[j]
      /\ Len(q) \in Nat /\ Len(p) \in Nat
  BY DEF Path
<1>2. Begins(q, Append(q, n))
  BY <1>1 DEF Begins
<1>3. Begins(Append(q, n), p) <=> Begins(q, p) /\ Len(q) < Len(p) /\ p[Len(q) + 1] = n
  BY ONLY <1>1 DEF Begins
<1>. QED
  BY <1>1, <1>2, <1>3

\* What is above a path of the first tree is a directory of it.
LEMMA AboveIsDir ==
  ASSUME WalkTypeInv, NEW p \in DOMAIN wFirst, NEW q \in Path, Begins(q, p)
  PROVE  /\ p \in Path /\ q \in DOMAIN wFirst
         /\ q # p => W!IsDir(wFirst, q) /\ Len(q) < Len(p)
<1>1. p \in Path
  BY GivenArePaths DEF WalkTypeInv, GivenPaths
<1>2. q = SubSeq(p, 1, Len(q)) /\ Len(q) \in Nat /\ Len(p) \in Nat /\ Len(q) <= Len(p)
  BY <1>1 DEF Begins, Path
<1>3. Len(q) = Len(p) => q = p
  BY <1>1, BeginsFacts
<1>4. Len(q) < Len(p) => q \in DOMAIN wFirst /\ wFirst[q].type = "d"
  <2>1. Len(q) < Len(p) => Len(q) \in 0 .. Len(p) - 1
    BY <1>2
  <2>. QED
    BY <1>2, <2>1, WalkAssumption DEF WalkTypeInv
<1>. QED
  BY <1>1, <1>2, <1>3, <1>4 DEF W!IsDir

LEMMA SpotlessAbove ==
  ASSUME WalkTypeInv, NEW p \in Path, NEW q \in Path, Begins(q, p), Spotless(p)
  PROVE  Spotless(q)
BY BeginsFacts DEF Spotless, WalkTypeInv

\* The names in a directory.
LEMMA ChildFacts ==
  ASSUME WalkTypeInv, NEW p \in Path
  PROVE  /\ W!Children(wFs, p) \subseteq Name
         /\ \A n \in Name : n \in W!Children(wFs, p) <=> Append(p, n) \in DOMAIN wFs
<1>1. ASSUME NEW q \in DOMAIN wFs, q # <<>>, W!Parent(q) = p
      PROVE  W!NameOf(q) \in Name /\ q = Append(p, W!NameOf(q))
  <2>1. q \in Path /\ q # <<>>
    BY <1>1 DEF WalkTypeInv
  <2>2. Len(q) \in Nat \ {0} /\ W!NameOf(q) = q[Len(q)] /\ q[Len(q)] \in Name
    BY <2>1 DEF W!NameOf, Path
  <2>3. p = SubSeq(q, 1, Len(q) - 1)
    BY <1>1 DEF W!Parent
  <2>4. q = Append(SubSeq(q, 1, Len(q) - 1), q[Len(q)])
    BY <2>1, <2>2 DEF Path
  <2>. QED
    BY <2>2, <2>3, <2>4
<1>2. ASSUME NEW n \in Name
      PROVE  /\ Append(p, n) # <<>> /\ W!Parent(Append(p, n)) = p /\ W!NameOf(Append(p, n)) = n
  BY DEF W!Parent, W!NameOf, Path
<1>. QED
  BY <1>1, <1>2 DEF W!Children

\* Plain facts about the stack.
LEMMA StackFacts ==
  ASSUME WalkTypeInv
  PROVE  /\ Len(wStack) \in Nat /\ DOMAIN wStack = 1 .. Len(wStack) /\ MaxOpen \in Nat
         /\ \A k \in DOMAIN wStack : wStack[k].path \in Path /\ wStack[k].left \subseteq Name
         /\ wStack # <<>> => Len(wStack) \in DOMAIN wStack
         /\ Len(wStack) = 0 <=> wStack = <<>>
         /\ wCur \in Path /\ Len(wCur) \in Nat
<1>1. wStack \in Seq(OpenDir) /\ wCur \in Path /\ MaxOpen \in Nat
  BY WalkAssumption DEF WalkTypeInv
<1>2. \A k \in DOMAIN wStack : wStack[k].path \in Path /\ wStack[k].left \subseteq Name
  <2>1. \A k \in DOMAIN wStack : wStack[k] \in OpenDir
    BY <1>1
  <2>. QED
    BY <2>1 DEF OpenDir
<1>3. Len(wStack) \in Nat /\ DOMAIN wStack = 1 .. Len(wStack) /\ Len(wCur) \in Nat
  BY <1>1 DEF Path
<1>4. Len(wStack) = 0 <=> wStack = <<>>
  BY <1>1
<1>5. wStack # <<>> => Len(wStack) \in 1 .. Len(wStack)
  BY <1>3, <1>4
<1>. QED
  BY <1>1, <1>2, <1>3, <1>4, <1>5

\* A stack is in its place also for the last of its directories.
LEMMA StackBack ==
  ASSUME NEW s \in Seq(OpenDir), NEW h \in Path,
         NEW T \in SUBSET Path, StackAt(s, h, T), s # <<>>
  PROVE  StackAt(s, s[Len(s)].path, T)
<1> DEFINE t == s[Len(s)].path
<1>1. /\ Len(s) \in DOMAIN s /\ DOMAIN s = 1 .. Len(s) /\ Len(s) \in Nat
      /\ \A k \in DOMAIN s : s[k].path \in Path
  <2>1. Len(s) \in Nat /\ DOMAIN s = 1 .. Len(s) /\ Len(s) # 0
    BY EmptySeq, LenProperties
  <2>2. \A k \in DOMAIN s : s[k] \in OpenDir
    BY <2>1, ElementOfSeq
  <2>. QED
    BY <2>1, <2>2 DEF OpenDir
<1>2. t \in Path /\ Begins(t, h) /\ Len(t) = Len(s) - 1
  BY <1>1 DEF StackAt
<1> HIDE DEF t
<1>3. ASSUME NEW k \in DOMAIN s
      PROVE  /\ Len(s[k].path) = k - 1 /\ Begins(s[k].path, t)
             /\ k <= Len(t) /\ t[k] \in s[k].left => \E q \in T : Begins(q, t) /\ Len(q) <= k
  <2>1. Len(s[k].path) = k - 1 /\ Begins(s[k].path, h) /\ s[k].path \in Path
    BY <1>1 DEF StackAt
  <2>2. Begins(s[k].path, t)
    <3>1. k - 1 <= Len(s) - 1
      BY <1>1
    <3>. QED
      BY <1>2, <2>1, <3>1, BeginsFacts
  <2>3. ASSUME k <= Len(t), t[k] \in s[k].left PROVE \E q \in T : Begins(q, t) /\ Len(q) <= k
    <3>1. h[k] = t[k] /\ k <= Len(h)
      <4>1. k \in 1 .. Len(t) /\ Len(h) \in Nat /\ Len(t) \in Nat
        BY <1>1, <1>2, <2>3, BeginsFacts
      <4>2. Len(t) <= Len(h) /\ \A j \in 1 .. Len(t) : t[j] = h[j]
        BY <1>2, BeginsFacts
      <4>. QED
        BY <4>1, <4>2
    <3>2. PICK q \in T : Begins(q, h) /\ Len(q) <= k
      BY <2>3, <3>1 DEF StackAt
    <3>3. Len(q) <= Len(t)
      <4>1. Len(q) \in Nat /\ Len(t) \in Nat /\ k \in Nat
        BY <1>1, <1>2, BeginsFacts
      <4>. QED
        BY <2>3, <3>2, <4>1
    <3>. QED
      BY <1>2, <3>2, <3>3, BeginsFacts
  <2>. QED
    BY <2>1, <2>2, <2>3
<1>. QED
  BY <1>3 DEF StackAt, t

\* A step that prints nothing and does not touch p.
LEMMA PathQuiet ==
  ASSUME WalkInv, NEW p \in Path, Spotless(p), UNCHANGED <<wProg, wFilter, wFirst, wPrinted>>,
         wError => wError', TreeSame(p)', Ahead(p)' => Ahead(p),
         Ahead(p) /\ ~Ahead(p)' => ~Steady(p) \/ (wProg = "walk" /\ wError'),
         Opening(p) => Opening(p)' \/ Entered(p)' \/ (wProg = "walk" /\ wError')
  PROVE  TreeSame(p)' /\ OncePrinted(p)' /\ LeftBehind(p)'
<1>1. OncePrinted(p) /\ LeftBehind(p)
  BY DEF WalkInv, PathInv
<1>2. /\ Shown(p)' <=> Shown(p)
      /\ Wanted(p)' <=> Wanted(p)
      /\ Steady(p)' <=> Steady(p)
  <2>1. Shown(p)' <=> Shown(p)
    BY DEF Shown
  <2>2. Wanted(p)' <=> Wanted(p)
    BY DEF Wanted, W!Matches, W!Passes
  <2>3. Steady(p)' <=> Steady(p)
    BY DEF Steady
  <2>. QED
    BY <2>1, <2>2, <2>3
<1>3. OncePrinted(p)'
  BY <1>1, <1>2 DEF OncePrinted
<1>4. Entered(p) => Entered(p)'
  BY DEF Entered, W!IsDir
<1>5. LeftBehind(p)'
  BY <1>1, <1>2, <1>4 DEF LeftBehind
<1>. QED
  BY <1>3, <1>5

\* After an lstat or an opendir: the directory to go on with, if there is one.
LEMMA BackToRead ==
  ASSUME WalkInv, wAt \in {"lstat", "open"}, wAt' = W!After(wStack),
         UNCHANGED <<wProg, wFilter, wFirst, wTouched, wStack, wCur>>
  PROVE  /\ PlaceInv' /\ wAt' \in {"read", "end"}
         /\ \A p \in Path : Ahead(p)' <=> ToCome(p)
<1>1. wAt' = IF wStack = <<>> THEN "end" ELSE "read"
  BY DEF W!After
<1>2. StackAt(wStack, wCur, wTouched)
  BY DEF WalkInv, PlaceInv, Here
<1>3. wStack # <<>> => StackAt(wStack, wStack[Len(wStack)].path, wTouched)
  BY <1>2, StackBack DEF WalkInv, WalkTypeInv
<1>4. PlaceInv'
  BY <1>1, <1>3 DEF PlaceInv, Here
<1>. QED
  BY <1>1, <1>4 DEF Ahead, ToCome

\* lstat finds nothing, or opendir fails.
LEMMA WalkFails ==
  ASSUME WalkInv, W!AfterError, UNCHANGED <<wProg, wFilter, wFirst, wFs, wTouched, wCur, wPrinted>>,
         \/ wAt = "lstat" /\ wCur \notin DOMAIN wFs
         \/ wAt = "open" /\ ~W!Opens(wCur)
  PROVE  WalkInv'
<1>0. WalkTypeInv /\ PlaceInv /\ PathInv /\ ErrorInv /\ wCur \in Path /\ MaxOpen \in Nat
  BY StackFacts DEF WalkInv
<1>1. /\ wError' = (wError \/ wProg # "project")
      /\ wProg = "walk" => wAt' = "end" /\ wStack' = <<>>
      /\ wProg # "walk" => wAt' = W!After(wStack) /\ wStack' = wStack
  BY DEF W!AfterError
<1>2. wError' \in BOOLEAN /\ wAt' \in {"end", "read"}
  BY <1>0, <1>1 DEF WalkTypeInv, W!After
<1>3. /\ PlaceInv' /\ \A p \in Path : Ahead(p)' <=> wProg # "walk" /\ ToCome(p)
  <2>1. CASE wProg = "walk"
    BY <1>1, <2>1 DEF PlaceInv, Ahead, ToCome
  <2>2. CASE wProg # "walk"
    BY <1>1, <2>2, BackToRead
  <2>. QED
    BY <2>1, <2>2
<1>4. WalkTypeInv'
  <2>1. wStack' \in Seq(OpenDir)
    BY <1>0, <1>1, EmptySeq DEF WalkTypeInv
  <2>. QED
    BY <1>0, <1>2, <2>1 DEF WalkTypeInv
\* What cannot be reached has a reason.
<1>5. ASSUME NEW p \in DOMAIN wFirst, Spotless(p), Begins(wCur, p), wAt = "open" => wCur # p
      PROVE  ~Steady(p) /\ (wAt = "open" /\ W!IsDir(wFirst, wCur))
  <2>1. p \in Path /\ wCur \in DOMAIN wFirst /\ Spotless(wCur) /\ Len(wCur) \in Nat
    BY <1>0, <1>5, AboveIsDir, SpotlessAbove, BeginsFacts
  <2>2. wCur \in DOMAIN wFs /\ wFs[wCur] = wFirst[wCur]
    BY <1>0, <2>1 DEF PathInv, TreeSame
  <2>3. wAt = "open" /\ wCur # p
    BY <1>5, <2>2
  <2>4. W!IsDir(wFirst, wCur) /\ Len(wCur) < Len(p) /\ Len(p) \in Nat
    BY <1>0, <1>5, <2>1, <2>3, AboveIsDir, BeginsFacts
  <2>5. ~wFirst[wCur].readable \/ Len(wCur) >= MaxOpen
    BY <1>0, <2>2, <2>3, <2>4, StackFacts DEF W!Opens, W!IsDir, PlaceInv
  <2>6. ~Steady(p)
    BY <1>0, <1>5, <2>1, <2>3, <2>4, <2>5 DEF Steady
  <2>. QED
    BY <2>3, <2>4, <2>6
<1>6. PathInv'
  <2> SUFFICES ASSUME NEW p \in Path, Spotless(p)'
               PROVE  TreeSame(p)' /\ OncePrinted(p)' /\ LeftBehind(p)'
    BY DEF PathInv
  <2>1. Spotless(p)
    BY DEF Spotless
  <2>2. TreeSame(p)'
    BY <1>0, <2>1 DEF PathInv, TreeSame
  <2>3. Ahead(p)' => Ahead(p)
    BY <1>3 DEF Ahead
  <2>4. ASSUME Ahead(p), ~Ahead(p)', ~(wProg = "walk" /\ wError') PROVE ~Steady(p)
    <3>1. ~ToCome(p)
      BY <1>1, <1>3, <2>4
    <3>2. Begins(wCur, p) /\ (wAt = "open" => wCur # p)
      BY <2>4, <3>1 DEF Ahead
    <3>. QED
      BY <1>5, <2>1, <3>2 DEF Steady
  <2>5. Opening(p) => Entered(p)'
    BY <1>1 DEF Entered
  <2>6. wError => wError'
    BY <1>1
  <2>. QED
    BY <2>1, <2>2, <2>3, <2>4, <2>5, <2>6, PathQuiet
<1>7. ErrorInv'
  <2>1. ASSUME wTouched = {}, wError' PROVE Reason
    <3>1. CASE wError
      BY <1>0, <2>1, <3>1 DEF ErrorInv
    <3>2. CASE ~wError
      <4>1. wProg # "project" /\ wCur \in DOMAIN wFirst /\ Spotless(wCur)
        BY <1>0, <1>1, <2>1, <3>2 DEF ErrorInv, Spotless
      <4>2. wCur \in DOMAIN wFs /\ wFs[wCur] = wFirst[wCur]
        BY <1>0, <4>1 DEF PathInv, TreeSame
      <4>3. wAt = "open" /\ W!IsDir(wFirst, wCur)
        BY <1>0, <2>1, <4>1, <4>2 DEF ErrorInv
      <4>4. ~wFirst[wCur].readable \/ Len(wCur) >= MaxOpen
        BY <1>0, <4>2, <4>3, StackFacts DEF W!Opens, W!IsDir, PlaceInv
      <4>. QED
        BY <4>1, <4>3, <4>4 DEF Reason
    <3>. QED
      BY <3>1, <3>2
  <2>2. Reason' <=> Reason
    BY DEF Reason, W!IsDir
  <2>3. wProg' = "project" => ~wError'
    BY <1>0, <1>1 DEF ErrorInv
  <2>4. ASSUME wTouched = {}, NEW k \in DOMAIN wStack', NEW n \in wStack'[k].left
        PROVE  Append(wStack'[k].path, n) \in DOMAIN wFirst
    <3>1. wStack' = wStack
      <4>1. DOMAIN <<>> = {}
        OBVIOUS
      <4>. QED
        BY <1>1, <2>4, <4>1
    <3>. QED
      BY <1>0, <2>4, <3>1 DEF ErrorInv
  <2>. QED
    BY <1>2, <2>1, <2>2, <2>3, <2>4 DEF ErrorInv
<1>. QED
  BY <1>3, <1>4, <1>6, <1>7 DEF WalkInv

LEMMA OnePrintMore ==
  ASSUME NEW s \in Seq(Path), NEW c \in Path
  PROVE  /\ DOMAIN Append(s, c) = DOMAIN s \union {Len(s) + 1} /\ Len(s) + 1 \notin DOMAIN s
         /\ Append(s, c)[Len(s) + 1] = c /\ \A j \in DOMAIN s : Append(s, c)[j] = s[j]
OBVIOUS

\* lstat finds what is printed if it matches.
LEMMA WalkLooks ==
  ASSUME WalkInv, W!Lstat, wCur \in DOMAIN wFs
  PROVE  WalkInv'
<1>0. WalkTypeInv /\ PlaceInv /\ PathInv /\ ErrorInv /\ wCur \in Path
  BY StackFacts DEF WalkInv
<1>1. /\ wAt = "lstat"
      /\ wPrinted' = IF W!Matches(wCur, wFs[wCur]) THEN Append(wPrinted, wCur) ELSE wPrinted
      /\ wAt' = IF W!IsDir(wFs, wCur) THEN "open" ELSE W!After(wStack)
      /\ UNCHANGED <<wProg, wFilter, wFirst, wFs, wTouched, wCur, wStack, wError>>
  BY DEF W!Lstat
<1>2. /\ PlaceInv' /\ wAt' \in {"open", "read", "end"}
      /\ \A p \in Path : Ahead(p)' <=>
           ToCome(p) \/ (W!IsDir(wFs, wCur) /\ Begins(wCur, p) /\ wCur # p)
  <2>1. CASE W!IsDir(wFs, wCur)
    BY <1>0, <1>1, <2>1 DEF PlaceInv, Here, Ahead, ToCome
  <2>2. CASE ~W!IsDir(wFs, wCur)
    BY <1>1, <2>2, BackToRead
  <2>. QED
    BY <2>1, <2>2
<1>3. WalkTypeInv'
  <2>1. wPrinted' \in Seq(Path)
    BY <1>0, <1>1 DEF WalkTypeInv
  <2>. QED
    BY <1>0, <1>1, <1>2, <2>1 DEF WalkTypeInv
<1>4. /\ ~Shown(wCur) /\ W!Matches(wCur, wFs[wCur]) => Shown(wCur)'
      /\ ~W!Matches(wCur, wFs[wCur]) => (Shown(wCur)' <=> Shown(wCur))
      /\ \A p \in Path : p # wCur => (Shown(p)' <=> Shown(p))
      /\ \A p \in Path : (p # wCur \/ ~Shown(p)) /\ OncePrinted(p) =>
           \A j, k \in DOMAIN wPrinted' : wPrinted'[j] = p /\ wPrinted'[k] = p => j = k
  <2>1. CASE W!Matches(wCur, wFs[wCur])
    <3> DEFINE s == Append(wPrinted, wCur)  e == Len(wPrinted) + 1
    <3>1. wPrinted' = s
      BY <1>1, <2>1
    <3>2. /\ DOMAIN s = DOMAIN wPrinted \union {e} /\ e \notin DOMAIN wPrinted
          /\ s[e] = wCur /\ \A j \in DOMAIN wPrinted : s[j] = wPrinted[j]
      BY <1>0, OnePrintMore DEF WalkTypeInv
    <3> HIDE DEF s, e
    <3>. QED
      BY <1>1, <2>1, <3>1, <3>2 DEF Shown, OncePrinted
  <2>2. CASE ~W!Matches(wCur, wFs[wCur])
    BY <1>1, <2>2 DEF Shown, OncePrinted
  <2>. QED
    BY <2>1, <2>2
<1>5. ASSUME NEW p \in Path, Spotless(p)'
      PROVE  TreeSame(p)' /\ OncePrinted(p)' /\ LeftBehind(p)'
  <2>1. Spotless(p) /\ TreeSame(p) /\ OncePrinted(p) /\ LeftBehind(p)
    BY <1>0, <1>1, <1>5 DEF Spotless, PathInv
  <2>2. TreeSame(p)'
    BY <1>1, <2>1 DEF TreeSame
  <2>3. /\ Wanted(p)' <=> Wanted(p)
        /\ Steady(p)' <=> Steady(p)
        /\ Entered(p)' <=> Entered(p)
    <3>1. Wanted(p)' <=> Wanted(p)
      BY <1>1 DEF Wanted, W!Matches, W!Passes
    <3>2. Steady(p)' <=> Steady(p)
      BY <1>1 DEF Steady
    <3>3. Entered(p)' <=> Entered(p)
      BY <1>1 DEF Entered, W!IsDir
    <3>. QED
      BY <3>1, <3>2, <3>3
  <2>4. CASE p # wCur
    <3>1. Ahead(p)' => Ahead(p)
      BY <1>1, <1>2 DEF Ahead
    <3>2. OncePrinted(p)'
      BY <1>1, <1>4, <2>1, <2>3, <2>4, <3>1 DEF OncePrinted
    <3>3. ASSUME Steady(p), Ahead(p) PROVE Ahead(p)'
      <4>1. CASE ToCome(p)
        BY <1>2, <4>1
      <4>2. CASE Begins(wCur, p)
        <5>1. wCur \in DOMAIN wFirst /\ W!IsDir(wFirst, wCur)
          BY <1>0, <2>4, <3>3, <4>2, AboveIsDir DEF Steady
        <5>2. TreeSame(wCur)
          BY <1>0, <2>1, <4>2, SpotlessAbove DEF PathInv
        <5>3. W!IsDir(wFs, wCur)
          BY <5>1, <5>2 DEF TreeSame, W!IsDir
        <5>. QED
          BY <1>2, <2>4, <4>2, <5>3
      <4>. QED
        BY <1>1, <3>3, <4>1, <4>2 DEF Ahead
    <3>4. LeftBehind(p)'
      <4>1. ~Opening(p)
        BY <1>1 DEF Opening
      <4>. QED
        BY <1>1, <1>4, <2>1, <2>3, <2>4, <3>3, <4>1 DEF LeftBehind
    <3>. QED
      BY <2>2, <3>2, <3>4
  <2>5. CASE p = wCur
    <3>1. wCur \in DOMAIN wFirst /\ wFs[wCur] = wFirst[wCur]
      BY <2>1, <2>5 DEF TreeSame
    <3>2. ~Shown(wCur)
      BY <1>0, <1>1, <2>1, <2>5, BeginsFacts DEF OncePrinted, Ahead
    <3>3. ~ToCome(wCur)
      <4>1. StackAt(wStack, wCur, wTouched)
        BY <1>0, <1>1 DEF PlaceInv, Here
      <4>. QED
        BY <2>1, <2>5, <4>1 DEF StackAt, ToCome, Spotless
    <3>4. ~Ahead(p)'
      BY <1>2, <2>5, <3>3
    <3>5. Wanted(wCur) <=> W!Matches(wCur, wFs[wCur])
      <4>1. wProg = "project" => wCur # <<>>
        <5>1. Len(<<>>) = 0
          OBVIOUS
        <5>. QED
          BY <1>0, <1>1, <5>1, StackFacts DEF PlaceInv
      <4>. QED
        BY <3>1, <4>1 DEF Wanted
    <3>6. Opening(wCur)' \/ Entered(wCur)
      BY <1>1, <3>1 DEF Opening, Entered, W!IsDir
    <3>7. OncePrinted(p)'
      BY <1>1, <1>4, <2>1, <2>3, <2>5, <3>1, <3>2, <3>4, <3>5 DEF OncePrinted
    <3>8. LeftBehind(p)'
      BY <1>1, <1>4, <2>3, <2>5, <3>2, <3>5, <3>6 DEF LeftBehind, Opening
    <3>. QED
      BY <2>2, <3>7, <3>8
  <2>. QED
    BY <2>4, <2>5
<1>6. PathInv'
  BY <1>5 DEF PathInv
<1>7. ErrorInv'
  <2>1. ASSUME wTouched = {} PROVE wCur \in DOMAIN wFirst /\ wFs[wCur] = wFirst[wCur]
    BY <1>0, <1>1, <2>1 DEF ErrorInv, PathInv, Spotless, TreeSame
  <2>2. Reason' <=> Reason
    BY <1>1 DEF Reason, W!IsDir
  <2>3. wTouched = {} /\ wAt' = "open" => W!IsDir(wFirst, wCur)
    BY <1>1, <2>1 DEF W!IsDir, W!After
  <2>. QED
    BY <1>0, <1>1, <2>1, <2>2, <2>3 DEF ErrorInv, W!IsDir
<1>. QED
  BY <1>2, <1>3, <1>6, <1>7 DEF WalkInv

\* opendir succeeds.
LEMMA WalkOpens ==
  ASSUME WalkInv, W!Opendir, W!Opens(wCur)
  PROVE  WalkInv'
<1>0. WalkTypeInv /\ PlaceInv /\ PathInv /\ ErrorInv
  BY DEF WalkInv
<1> DEFINE m == Len(wStack)  names == W!Children(wFs, wCur)
           d == [path |-> wCur, left |-> names]
<1>1. /\ wAt = "open" /\ wAt' = "read" /\ wStack' = Append(wStack, d)
      /\ UNCHANGED <<wProg, wFilter, wFirst, wFs, wTouched, wCur, wPrinted, wError>>
  BY DEF W!Opendir
<1>2. /\ m \in Nat /\ DOMAIN wStack = 1 .. m /\ wCur \in Path /\ Len(wCur) = m
      /\ MaxOpen \in Nat /\ m < MaxOpen /\ W!IsDir(wFs, wCur) /\ wFs[wCur].readable
  BY <1>0, <1>1, StackFacts DEF PlaceInv, W!Opens
<1>3. names \subseteq Name /\ \A n \in Name : n \in names <=> Append(wCur, n) \in DOMAIN wFs
  BY <1>0, <1>2, ChildFacts
<1> HIDE DEF names
<1>4. d \in OpenDir /\ d.path = wCur /\ d.left = names
  BY <1>2, <1>3 DEF OpenDir
<1> HIDE DEF d
<1>5. /\ wStack' \in Seq(OpenDir) /\ Len(wStack') = m + 1 /\ DOMAIN wStack' = 1 .. m + 1
      /\ wStack'[m + 1] = d /\ \A k \in 1 .. m : wStack'[k] = wStack[k]
  BY <1>0, <1>1, <1>2, <1>4, AppendProperties DEF WalkTypeInv
<1> HIDE DEF m
<1>6. WalkTypeInv'
  BY <1>0, <1>1, <1>5 DEF WalkTypeInv
<1>7. Here' = wCur
  BY <1>1, <1>4, <1>5 DEF Here
<1>8. StackAt(wStack', wCur, wTouched)
  <2>1. StackAt(wStack, wCur, wTouched)
    BY <1>0, <1>1 DEF PlaceInv, Here
  <2>2. \A k \in 1 .. m + 1 : k \in 1 .. m \/ k = m + 1
    BY <1>2
  <2>3. Len(d.path) = (m + 1) - 1 /\ Begins(d.path, wCur) /\ ~(m + 1 <= Len(wCur))
    BY <1>2, <1>4, BeginsFacts
  <2>. QED
    BY <1>2, <1>5, <2>1, <2>2, <2>3 DEF StackAt
<1>9. PlaceInv'
  <2>1. wStack' # <<>>
    BY <1>2, <1>5
  <2>. QED
    BY <1>1, <1>7, <1>8, <2>1 DEF PlaceInv
<1>10. ASSUME NEW p \in Path
       PROVE  Ahead(p)' <=> ToCome(p) \/ (Begins(wCur, p) /\ wCur # p /\ p[m + 1] \in names)
  <2>1. Ahead(p)' <=> ToCome(p) \/ (m + 1 <= Len(p) /\ Begins(wCur, p) /\ p[m + 1] \in names)
    <3>1. \A k \in 1 .. m + 1 : k \in 1 .. m \/ k = m + 1
      BY <1>2
    <3>2. m + 1 \in 1 .. m + 1 /\ 1 .. m \subseteq 1 .. m + 1
      BY <1>2
    <3>. QED
      BY <1>1, <1>2, <1>4, <1>5, <3>1, <3>2 DEF Ahead, ToCome
  <2>2. Begins(wCur, p) => (m + 1 <= Len(p) <=> wCur # p)
    <3>1. Len(p) \in Nat /\ (Begins(wCur, p) => m <= Len(p)) /\ (Len(p) = m /\ Begins(wCur, p) => wCur = p)
      BY <1>2, BeginsFacts
    <3>. QED
      BY <1>2, <3>1
  <2>. QED
    BY <2>1, <2>2
<1>11. PathInv'
  <2> SUFFICES ASSUME NEW p \in Path, Spotless(p)'
               PROVE  TreeSame(p)' /\ OncePrinted(p)' /\ LeftBehind(p)'
    BY DEF PathInv
  <2>1. Spotless(p) /\ TreeSame(p)
    BY <1>0, <1>1 DEF Spotless, PathInv
  <2>2. TreeSame(p)'
    BY <1>1, <2>1 DEF TreeSame
  <2>3. Ahead(p) <=> ToCome(p) \/ (Begins(wCur, p) /\ wCur # p)
    BY <1>1 DEF Ahead
  <2>4. Ahead(p)' => Ahead(p)
    BY <1>10, <2>3
  <2>5. ASSUME Ahead(p), ~Ahead(p)', Steady(p) PROVE FALSE
    <3>1. Begins(wCur, p) /\ wCur # p /\ p[m + 1] \notin names
      BY <1>10, <2>3, <2>5
    <3>2. p \in DOMAIN wFirst /\ Len(p) \in Nat /\ m < Len(p)
      <4>1. p \in DOMAIN wFirst
        BY <2>5 DEF Steady
      <4>. QED
        BY <1>0, <1>2, <3>1, <4>1, AboveIsDir, BeginsFacts
    <3>3. p[m + 1] \in Name
      BY <1>2, <3>2 DEF Path
    <3> DEFINE q == Append(wCur, p[m + 1])
    <3>4. q \in Path /\ Begins(q, p)
      BY <1>2, <3>1, <3>2, <3>3, BeginsOneMore
    <3>5. q \notin DOMAIN wFs
      BY <1>3, <3>1, <3>3
    <3> HIDE DEF q
    <3>6. q \in DOMAIN wFirst /\ TreeSame(q)
      BY <1>0, <2>1, <3>2, <3>4, AboveIsDir, SpotlessAbove DEF PathInv
    <3>. QED
      BY <3>5, <3>6 DEF TreeSame
  <2>6. Opening(p) => Entered(p)'
    BY <1>1, <1>2, <2>1 DEF Opening, Entered, TreeSame, W!IsDir
  <2>. QED
    BY <1>1, <2>1, <2>2, <2>4, <2>5, <2>6, PathQuiet DEF WalkInv
<1>12. ErrorInv'
  <2>1. ASSUME wTouched = {}, NEW n \in names PROVE Append(wCur, n) \in DOMAIN wFirst
    <3>1. n \in Name /\ Append(wCur, n) \in DOMAIN wFs
      BY <1>3
    <3>2. Append(wCur, n) \in Path
      BY <1>2, <3>1, BeginsOneMore
    <3>. QED
      BY <1>0, <2>1, <3>1, <3>2 DEF PathInv, Spotless, TreeSame
  <2>2. Reason' <=> Reason
    BY <1>1 DEF Reason, W!IsDir
  <2>3. ASSUME wTouched = {}, NEW k \in 1 .. m + 1, NEW n \in wStack'[k].left
        PROVE  Append(wStack'[k].path, n) \in DOMAIN wFirst
    <3>1. k \in 1 .. m \/ k = m + 1
      BY <1>2
    <3>. QED
      BY <1>0, <1>2, <1>4, <1>5, <2>1, <2>3, <3>1 DEF ErrorInv
  <2>. QED
    BY <1>0, <1>1, <1>5, <2>2, <2>3 DEF ErrorInv
<1>. QED
  BY <1>6, <1>9, <1>11, <1>12 DEF WalkInv

\* readdir gives a name, which is there or has gone.
LEMMA WalkReads == WalkInv /\ W!Readdir => WalkInv'
<1> SUFFICES ASSUME WalkInv, W!Readdir PROVE WalkInv'
  OBVIOUS
<1>0. WalkTypeInv /\ PlaceInv /\ PathInv /\ ErrorInv
  BY DEF WalkInv
<1> DEFINE m == Len(wStack)  t == wStack[m].path
<1>1. PICK n \in wStack[m].left :
        /\ wStack' = [wStack EXCEPT ![m].left = @ \ {n}]
        /\ \/ wCur' = Append(t, n) /\ wAt' = "lstat"
           \/ Append(t, n) \notin DOMAIN wFs /\ UNCHANGED <<wCur, wAt>>
  BY DEF W!Readdir, W!Top
<1>2. wAt = "read" /\ UNCHANGED <<wProg, wFilter, wFirst, wFs, wTouched, wPrinted, wError>>
  BY DEF W!Readdir
<1>3. /\ m \in Nat \ {0} /\ DOMAIN wStack = 1 .. m /\ m \in 1 .. m
      /\ \A k \in 1 .. m : wStack[k].path \in Path /\ wStack[k].left \subseteq Name
  BY <1>0, <1>2, StackFacts DEF PlaceInv
<1> DEFINE c == Append(t, n)
<1>4. StackAt(wStack, t, wTouched) /\ t \in Path /\ Len(t) = m - 1 /\ n \in Name
  BY <1>0, <1>2, <1>3 DEF PlaceInv, Here, StackAt
<1>5. /\ DOMAIN wStack' = 1 .. m /\ Len(wStack') = m
      /\ \A k \in 1 .. m : /\ wStack'[k].path = wStack[k].path
                           /\ wStack'[k].left = IF k = m THEN wStack[k].left \ {n}
                                                         ELSE wStack[k].left
      /\ wStack' \in Seq(OpenDir)
  <2>1. wStack \in Seq(OpenDir) /\ wStack[m] \in OpenDir
    BY <1>0, <1>3, ElementOfSeq DEF WalkTypeInv
  <2> DEFINE e == [wStack[m] EXCEPT !.left = @ \ {n}]
  <2>2. /\ e \in OpenDir /\ e.path = wStack[m].path /\ e.left = wStack[m].left \ {n}
    BY <2>1 DEF OpenDir
  <2>3. wStack' = [wStack EXCEPT ![m] = e]
    BY <1>1
  <2> HIDE DEF e
  <2>. QED
    <3>1. m \in 1 .. Len(wStack) /\ Len(wStack) = m
      BY <1>3
    <3>2. /\ wStack' \in Seq(OpenDir) /\ Len(wStack') = m
          /\ \A k \in 1 .. m : wStack'[k] = IF k = m THEN e ELSE wStack[k]
      BY <2>1, <2>2, <2>3, <3>1, ExceptSeq
    <3>3. DOMAIN wStack' = 1 .. m
      BY <3>2, LenProperties
    <3>. QED
      BY <1>3, <2>2, <3>2, <3>3
<1> HIDE DEF m, t
<1>6. /\ c \in Path /\ Len(c) = m /\ c[m] = n /\ \A j \in 1 .. m - 1 : c[j] = t[j]
      /\ Begins(t, c)
      /\ \A p \in Path : Begins(c, p) <=> Begins(t, p) /\ m <= Len(p) /\ p[m] = n
  <2>1. Len(t) + 1 = m
    BY <1>3, <1>4
  <2>2. \A p \in Path : Len(p) \in Nat
    BY BeginsFacts
  <2>3. \A p \in Path : Len(t) < Len(p) <=> m <= Len(p)
    BY <1>3, <1>4, <2>2
  <2>. QED
    BY <1>4, <2>1, <2>3, BeginsOneMore
<1> HIDE DEF c
<1>7. ASSUME NEW p \in Path
      PROVE  /\ ToCome(p) <=> ToCome(p)' \/ Begins(c, p)
             /\ Ahead(p) <=> ToCome(p)
  <2>1. ToCome(p) <=> \E k \in 1 .. m : k <= Len(p) /\ Begins(wStack[k].path, p) /\ p[k] \in wStack[k].left
    BY <1>3 DEF ToCome
  <2>2. ToCome(p)' <=> \E k \in 1 .. m : k <= Len(p) /\ Begins(wStack[k].path, p)
                         /\ p[k] \in (IF k = m THEN wStack[k].left \ {n} ELSE wStack[k].left)
    BY <1>5 DEF ToCome
  <2>3. n \in wStack[m].left /\ t = wStack[m].path
    BY DEF m, t
  <2>. QED
    BY <1>2, <1>3, <1>6, <2>1, <2>2, <2>3 DEF Ahead
<1>8. \/ wCur' = c /\ wAt' = "lstat"
      \/ c \notin DOMAIN wFs /\ wCur' = wCur /\ wAt' = "read"
  BY <1>1, <1>2 DEF c, m, t
<1>9. WalkTypeInv'
  BY <1>0, <1>2, <1>5, <1>6, <1>8 DEF WalkTypeInv
<1>10. PlaceInv'
  <2>1. wStack' # <<>>
    BY <1>3, <1>5
  <2>2. StackAt(wStack', t, wTouched)
    BY <1>3, <1>4, <1>5 DEF StackAt
  <2>3. StackAt(wStack', c, wTouched)
    <3>1. ASSUME NEW k \in 1 .. m
          PROVE  /\ Len(wStack'[k].path) = k - 1 /\ Begins(wStack'[k].path, c)
                 /\ k <= Len(c) /\ c[k] \in wStack'[k].left
                      => \E q \in wTouched : Begins(q, c) /\ Len(q) <= k
      <4>1. Len(wStack'[k].path) = k - 1 /\ Begins(wStack'[k].path, c)
        <5>1. wStack[k].path \in Path /\ Begins(wStack[k].path, t) /\ Len(wStack[k].path) = k - 1
          BY <1>3, <1>4 DEF StackAt
        <5>. QED
          BY <1>4, <1>5, <1>6, <5>1, BeginsFacts
      <4>2. ASSUME k # m, c[k] \in wStack'[k].left
            PROVE  \E q \in wTouched : Begins(q, c) /\ Len(q) <= k
        <5>1. k \in 1 .. m - 1 /\ k <= Len(t)
          BY <1>3, <1>4, <4>2
        <5>2. t[k] \in wStack[k].left
          BY <1>5, <1>6, <4>2, <5>1
        <5>3. PICK q \in wTouched : Begins(q, t) /\ Len(q) <= k
          BY <1>3, <1>4, <5>1, <5>2 DEF StackAt
        <5>. QED
          BY <1>0, <1>4, <1>6, <5>3, BeginsFacts DEF WalkTypeInv
      <4>3. k = m => c[k] \notin wStack'[k].left
        BY <1>5, <1>6
      <4>. QED
        BY <4>1, <4>2, <4>3
    <3>. QED
      BY <1>5, <3>1 DEF StackAt
  <2>4. wAt' = "read" => Here' = t
    BY <1>3, <1>5 DEF Here, t, m
  <2>5. wAt' = "lstat" => Here' = c /\ Len(wCur') = Len(wStack')
    BY <1>5, <1>6, <1>8 DEF Here
  <2>. QED
    BY <1>2, <1>8, <2>1, <2>2, <2>3, <2>4, <2>5 DEF PlaceInv
<1>11. PathInv'
  <2> SUFFICES ASSUME NEW p \in Path, Spotless(p)'
               PROVE  TreeSame(p)' /\ OncePrinted(p)' /\ LeftBehind(p)'
    BY DEF PathInv
  <2>1. Spotless(p) /\ TreeSame(p)
    BY <1>0, <1>2 DEF Spotless, PathInv
  <2>2. TreeSame(p)'
    BY <1>2, <2>1 DEF TreeSame
  <2>3. Ahead(p)' => Ahead(p)
    BY <1>7, <1>8 DEF Ahead
  <2>4. ASSUME Ahead(p), ~Ahead(p)', Steady(p) PROVE FALSE
    <3>1. Begins(c, p) /\ ~ToCome(p)'
      BY <1>7, <2>4 DEF Ahead
    <3>2. c \notin DOMAIN wFs
      BY <1>8, <2>4, <3>1 DEF Ahead
    <3>3. c \in DOMAIN wFirst /\ TreeSame(c)
      BY <1>0, <1>6, <2>1, <2>4, <3>1, AboveIsDir, SpotlessAbove DEF PathInv, Steady
    <3>. QED
      BY <3>2, <3>3 DEF TreeSame
  <2>5. ~Opening(p)
    BY <1>2 DEF Opening
  <2>. QED
    BY <1>2, <2>1, <2>2, <2>3, <2>4, <2>5, PathQuiet DEF WalkInv
<1>12. ErrorInv'
  <2>1. wTouched = {} => c \in DOMAIN wFirst
    BY <1>0, <1>3 DEF ErrorInv, c, m, t
  <2>2. Reason' <=> Reason
    BY <1>2 DEF Reason, W!IsDir
  <2>3. wTouched = {} => \A k \in DOMAIN wStack' : \A a \in wStack'[k].left :
                           Append(wStack'[k].path, a) \in DOMAIN wFirst
    BY <1>0, <1>3, <1>5 DEF ErrorInv
  <2>. QED
    BY <1>0, <1>2, <1>8, <2>1, <2>2, <2>3 DEF ErrorInv
<1>. QED
  BY <1>9, <1>10, <1>11, <1>12 DEF WalkInv

\* readdir has no more names: back to the directory before.
LEMMA WalkCloses == WalkInv /\ W!Closedir => WalkInv'
<1> SUFFICES ASSUME WalkInv, W!Closedir PROVE WalkInv'
  OBVIOUS
<1>0. WalkTypeInv /\ PlaceInv /\ PathInv /\ ErrorInv
  BY DEF WalkInv
<1> DEFINE m == Len(wStack)  t == wStack[m].path
<1>1. /\ wAt = "read" /\ wStack[m].left = {}
      /\ wStack' = SubSeq(wStack, 1, m - 1)
      /\ wAt' = IF wStack' = <<>> THEN "end" ELSE "read"
      /\ UNCHANGED <<wProg, wFilter, wFirst, wFs, wTouched, wCur, wPrinted, wError>>
  BY DEF W!Closedir, W!Top, W!After
<1>2. /\ m \in Nat \ {0} /\ DOMAIN wStack = 1 .. m /\ wStack \in Seq(OpenDir)
      /\ StackAt(wStack, t, wTouched) /\ t \in Path
  BY <1>0, <1>1, StackFacts DEF PlaceInv, Here, WalkTypeInv
<1>3. /\ wStack' \in Seq(OpenDir) /\ Len(wStack') = m - 1 /\ DOMAIN wStack' = 1 .. m - 1
      /\ \A k \in 1 .. m - 1 : wStack'[k] = wStack[k]
  BY <1>1, <1>2
<1> HIDE DEF m, t
<1>4. WalkTypeInv'
  BY <1>0, <1>1, <1>3 DEF WalkTypeInv
<1>5. StackAt(wStack', t, wTouched)
  <2>1. 1 .. m - 1 \subseteq 1 .. m
    BY <1>2
  <2>. QED
    BY <1>2, <1>3, <2>1 DEF StackAt
<1>6. PlaceInv'
  <2>1. wStack' # <<>> => StackAt(wStack', wStack'[Len(wStack')].path, wTouched)
    BY <1>0, <1>2, <1>3, <1>5, StackBack DEF WalkTypeInv
  <2>. QED
    BY <1>1, <2>1 DEF PlaceInv, Here
<1>7. ASSUME NEW p \in Path PROVE (Ahead(p) <=> ToCome(p)) /\ (Ahead(p)' <=> ToCome(p))
  <2>1. ToCome(p)' <=> ToCome(p)
    <3>1. \A k \in 1 .. m : k \in 1 .. m - 1 \/ k = m
      BY <1>2
    <3>2. 1 .. m - 1 \subseteq 1 .. m
      BY <1>2
    <3>3. wStack[m].left = {}
      BY <1>1 DEF m
    <3>. QED
      BY <1>2, <1>3, <3>1, <3>2, <3>3 DEF ToCome
  <2>. QED
    BY <1>1, <2>1 DEF Ahead
<1>8. PathInv'
  <2> SUFFICES ASSUME NEW p \in Path, Spotless(p)'
               PROVE  TreeSame(p)' /\ OncePrinted(p)' /\ LeftBehind(p)'
    BY DEF PathInv
  <2>1. Spotless(p) /\ TreeSame(p)' /\ ~Opening(p)
    BY <1>0, <1>1 DEF Spotless, PathInv, TreeSame, Opening
  <2>. QED
    BY <1>1, <1>7, <2>1, PathQuiet DEF WalkInv
<1>9. ErrorInv'
  <2>1. Reason' <=> Reason
    BY <1>1 DEF Reason, W!IsDir
  <2>2. 1 .. m - 1 \subseteq 1 .. m
    BY <1>2
  <2>. QED
    BY <1>0, <1>1, <1>2, <1>3, <2>1, <2>2 DEF ErrorInv
<1>. QED
  BY <1>4, <1>6, <1>8, <1>9 DEF WalkInv

\* Somebody changes the tree at v: with it goes what is below, and nothing else; an open
\* directory may get the name of v.
LEMMA WalkIsDisturbed ==
  ASSUME WalkInv, NEW v \in Path, wTouched' = wTouched \union {v}, DOMAIN wFs' \subseteq Path,
         UNCHANGED <<wProg, wFilter, wFirst, wCur, wAt, wPrinted, wError>>,
         \A p \in Path : ~Begins(v, p) =>
           (p \in DOMAIN wFs' <=> p \in DOMAIN wFs) /\ (p \in DOMAIN wFs => wFs'[p] = wFs[p]),
         wStack' \in Seq(OpenDir), Len(wStack') = Len(wStack),
         \A k \in DOMAIN wStack : wStack'[k].path = wStack[k].path,
         \A k \in DOMAIN wStack : \A n \in Name :
           n \in wStack'[k].left =>
             n \in wStack[k].left \/ v = Append(wStack[k].path, n),
         \A k \in DOMAIN wStack : wStack[k].left \subseteq wStack'[k].left
  PROVE  WalkInv'
<1>0. WalkTypeInv /\ PlaceInv /\ PathInv /\ ErrorInv
  BY DEF WalkInv
<1>1. /\ DOMAIN wStack = 1 .. Len(wStack) /\ DOMAIN wStack' = DOMAIN wStack
      /\ Len(wStack) \in Nat /\ (wStack' = <<>> <=> wStack = <<>>)
      /\ \A k \in DOMAIN wStack : wStack[k].path \in Path /\ wStack'[k].left \subseteq Name
  <2>1. /\ DOMAIN wStack = 1 .. Len(wStack) /\ Len(wStack) \in Nat
        /\ \A k \in DOMAIN wStack : wStack[k].path \in Path
        /\ wStack = <<>> <=> Len(wStack) = 0
    BY <1>0, StackFacts
  <2>2. DOMAIN wStack' = 1 .. Len(wStack') /\ (wStack' = <<>> <=> Len(wStack') = 0)
    BY EmptySeq, LenProperties
  <2>3. \A k \in 1 .. Len(wStack') : wStack'[k] \in OpenDir
    BY ElementOfSeq
  <2>. QED
    BY <2>1, <2>2, <2>3 DEF OpenDir
<1>2. WalkTypeInv'
  BY <1>0 DEF WalkTypeInv
<1>3. PlaceInv'
  <2>1. wAt = "read" => Len(wStack) \in DOMAIN wStack
    BY <1>0, StackFacts DEF PlaceInv
  <2>2. Here' = Here /\ (wAt # "end" => Here \in Path)
    BY <1>0, <1>1, <2>1 DEF Here, WalkTypeInv
  <2>3. ASSUME wAt # "end" PROVE StackAt(wStack', Here, wTouched')
    <3> DEFINE h == Here
    <3>0. StackAt(wStack, h, wTouched) /\ h \in Path
      BY <1>0, <2>2, <2>3 DEF PlaceInv
    <3> HIDE DEF h
    <3>1. ASSUME NEW k \in DOMAIN wStack, k <= Len(h), h[k] \in wStack'[k].left
          PROVE  \E q \in wTouched' : Begins(q, h) /\ Len(q) <= k
      <4>1. CASE h[k] \in wStack[k].left
        BY <3>0, <3>1, <4>1 DEF StackAt
      <4>2. CASE h[k] \notin wStack[k].left
        <5>1. v = Append(wStack[k].path, h[k]) /\ h[k] \in Name /\ wStack[k].path \in Path
          BY <1>1, <3>1, <4>2
        <5>2. Len(wStack[k].path) = k - 1 /\ Begins(wStack[k].path, h) /\ k \in Nat
          BY <1>1, <3>0 DEF StackAt
        <5>3. (k - 1) + 1 = k /\ Len(h) \in Nat
          BY <3>0, <5>2, BeginsFacts
        <5>4. k - 1 < Len(h)
          BY <3>1, <5>2, <5>3
        <5>5. Len(v) = k /\ Begins(v, h)
          BY <3>0, <5>1, <5>2, <5>3, <5>4, BeginsOneMore
        <5>. QED
          BY <5>2, <5>5
      <4>. QED
        BY <4>1, <4>2
    <3>2. StackAt(wStack', h, wTouched')
      BY <1>1, <3>0, <3>1 DEF StackAt
    <3>. QED
      BY <3>2 DEF h
  <2>. QED
    BY <1>0, <1>1, <2>2, <2>3 DEF PlaceInv
<1>4. PathInv'
  <2> SUFFICES ASSUME NEW p \in Path, Spotless(p)'
               PROVE  TreeSame(p)' /\ OncePrinted(p)' /\ LeftBehind(p)'
    BY DEF PathInv
  <2>1. Spotless(p) /\ ~Begins(v, p)
    BY DEF Spotless
  <2>2. TreeSame(p)'
    BY <1>0, <2>1 DEF PathInv, TreeSame
  <2>3. ToCome(p)' <=> ToCome(p)
    <3>1. ASSUME NEW k \in DOMAIN wStack, k <= Len(p), Begins(wStack[k].path, p)
          PROVE  p[k] \in wStack'[k].left <=> p[k] \in wStack[k].left
      <4>1. ASSUME p[k] \in wStack'[k].left, v = Append(wStack[k].path, p[k]) PROVE FALSE
        <5>1. p[k] \in Name /\ wStack[k].path \in Path
          BY <1>1, <4>1
        <5>2. Len(wStack[k].path) = k - 1 /\ k \in Nat /\ Len(p) \in Nat
          <6>1. wAt # "end"
            BY <1>0, <3>1, EmptySeq DEF PlaceInv
          <6>. QED
            BY <1>0, <1>1, <6>1, BeginsFacts DEF PlaceInv, StackAt
        <5>3. (k - 1) + 1 = k /\ k - 1 < Len(p)
          BY <3>1, <5>2
        <5>. QED
          BY <2>1, <3>1, <4>1, <5>1, <5>2, <5>3, BeginsOneMore
      <4>. QED
        BY <1>1, <4>1
    <3>. QED
      BY <1>1, <3>1 DEF ToCome
  <2>4. Ahead(p)' <=> Ahead(p)
    BY <2>3 DEF Ahead
  <2>5. Opening(p)' <=> Opening(p)
    BY DEF Opening
  <2>. QED
    BY <2>1, <2>2, <2>4, <2>5, PathQuiet
<1>5. ErrorInv'
  BY <1>0 DEF ErrorInv
<1>. QED
  BY <1>2, <1>3, <1>4, <1>5 DEF WalkInv

LEMMA WalkVanishes == WalkInv /\ W!Vanish => WalkInv'
<1> SUFFICES ASSUME WalkInv, W!Vanish PROVE WalkInv'
  OBVIOUS
<1>0. WalkTypeInv
  BY DEF WalkInv
<1>1. PICK v \in DOMAIN wFs : /\ wFs' = [q \in W!Spared(v) |-> wFs[q]]
                              /\ wTouched' = wTouched \union {v}
  BY DEF W!Vanish
<1>2. UNCHANGED <<wProg, wFilter, wFirst, wStack, wCur, wAt, wPrinted, wError>>
  BY DEF W!Vanish
<1>3. v \in Path /\ DOMAIN wFs \subseteq Path /\ wStack \in Seq(OpenDir)
  BY <1>0, <1>1 DEF WalkTypeInv
<1>4. W!Spared(v) = {q \in DOMAIN wFs : ~Begins(v, q)}
  BY <1>3, PrefixIsBegins DEF W!Spared
<1>5. /\ DOMAIN wFs' \subseteq Path
      /\ \A p \in Path : ~Begins(v, p) =>
           (p \in DOMAIN wFs' <=> p \in DOMAIN wFs) /\ (p \in DOMAIN wFs => wFs'[p] = wFs[p])
  BY <1>1, <1>3, <1>4
<1>. QED
  BY <1>1, <1>2, <1>3, <1>5, WalkIsDisturbed

LEMMA WalkIsPutTo == WalkInv /\ W!Put => WalkInv'
<1> SUFFICES ASSUME WalkInv, W!Put PROVE WalkInv'
  OBVIOUS
<1>0. WalkTypeInv
  BY DEF WalkInv
<1>1. PICK c \in Newcomers :
        /\ wFs' = [q \in W!Spared(c.path) \union {c.path} |-> IF q = c.path THEN c.entry ELSE wFs[q]]
        /\ wTouched' = wTouched \union {c.path}
        /\ wStack' \in {wStack,
                        [k \in DOMAIN wStack |->
                           IF wStack[k].path = W!Parent(c.path) /\ c.path \notin DOMAIN wFs
                           THEN [wStack[k] EXCEPT !.left = @ \union {W!NameOf(c.path)}]
                           ELSE wStack[k]]}
  BY DEF W!Put
<1> DEFINE v == c.path  n == W!NameOf(v)  t == W!Parent(v)
<1>2. UNCHANGED <<wProg, wFilter, wFirst, wCur, wAt, wPrinted, wError>>
  BY DEF W!Put
<1>3. v \in Path /\ DOMAIN wFs \subseteq Path /\ wStack \in Seq(OpenDir)
  <2>1. v \in GivenPaths
    BY DEF GivenPaths
  <2>. QED
    BY <1>0, <2>1, GivenArePaths DEF WalkTypeInv
<1>4. n \in Name /\ v = Append(t, n)
  <2>1. v # <<>>
    BY WalkAssumption
  <2>2. Len(v) \in Nat \ {0} /\ n = v[Len(v)] /\ v[Len(v)] \in Name
    BY <1>3, <2>1 DEF W!NameOf, Path
  <2>3. t = SubSeq(v, 1, Len(v) - 1)
    BY DEF W!Parent
  <2>4. v = Append(SubSeq(v, 1, Len(v) - 1), v[Len(v)])
    BY <1>3, <2>2 DEF Path
  <2>. QED
    BY <2>2, <2>3, <2>4
<1>5. /\ DOMAIN wStack = 1 .. Len(wStack) /\ Len(wStack) \in Nat
      /\ \A k \in DOMAIN wStack : wStack[k] \in OpenDir
  BY <1>0, <1>3, StackFacts, ElementOfSeq
<1>6. \/ wStack' = wStack
      \/ wStack' = [k \in DOMAIN wStack |->
                      IF wStack[k].path = t /\ v \notin DOMAIN wFs
                      THEN [wStack[k] EXCEPT !.left = @ \union {n}] ELSE wStack[k]]
  BY <1>1
<1>7. W!Spared(v) = {q \in DOMAIN wFs : ~Begins(v, q)}
  BY <1>3, PrefixIsBegins DEF W!Spared
<1>8. wFs' = [q \in W!Spared(v) \union {v} |-> IF q = v THEN c.entry ELSE wFs[q]]
  BY <1>1
<1>9. wTouched' = wTouched \union {v}
  BY <1>1
<1> HIDE DEF v, n, t
<1>10. /\ DOMAIN wFs' \subseteq Path
       /\ \A p \in Path : ~Begins(v, p) =>
            (p \in DOMAIN wFs' <=> p \in DOMAIN wFs) /\ (p \in DOMAIN wFs => wFs'[p] = wFs[p])
  <2>1. Begins(v, v)
    BY <1>3, BeginsFacts
  <2>. QED
    BY <1>3, <1>7, <1>8, <2>1
<1>11. /\ wStack' \in Seq(OpenDir) /\ Len(wStack') = Len(wStack)
       /\ \A k \in DOMAIN wStack :
            /\ wStack'[k].path = wStack[k].path /\ wStack[k].left \subseteq wStack'[k].left
            /\ \A a \in Name : a \in wStack'[k].left =>
                 a \in wStack[k].left \/ v = Append(wStack[k].path, a)
  <2>1. CASE wStack' = wStack
    BY <1>3, <2>1
  <2>2. CASE wStack' # wStack
    <3> DEFINE e(k) == IF wStack[k].path = t /\ v \notin DOMAIN wFs
                       THEN [wStack[k] EXCEPT !.left = @ \union {n}] ELSE wStack[k]
    <3>1. wStack' = [k \in 1 .. Len(wStack) |-> e(k)]
      BY <1>5, <1>6, <2>2
    <3>2. ASSUME NEW k \in 1 .. Len(wStack)
          PROVE  /\ e(k) \in OpenDir /\ e(k).path = wStack[k].path
                 /\ wStack[k].left \subseteq e(k).left
                 /\ \A a \in Name : a \in e(k).left => a \in wStack[k].left \/ v = Append(wStack[k].path, a)
      <4>1. wStack[k] \in OpenDir
        BY <1>5
      <4>. QED
        BY <1>4, <4>1 DEF OpenDir
    <3> HIDE DEF e
    <3>3. wStack' \in Seq(OpenDir) /\ Len(wStack') = Len(wStack)
      BY <1>5, <3>1, <3>2
    <3>. QED
      BY <1>5, <3>1, <3>2, <3>3
  <2>. QED
    BY <2>1, <2>2
<1>. QED
  BY <1>2, <1>3, <1>9, <1>10, <1>11, WalkIsDisturbed

LEMMA WalkStarts == W!Init => WalkInv
<1> SUFFICES ASSUME W!Init PROVE WalkInv
  OBVIOUS
<1>1. /\ wProg \in {"walk", "basic", "project"} /\ wFirst \in Trees /\ wFs = wFirst
      /\ wTouched = {} /\ wStack = <<>> /\ wCur = <<>>
      /\ wAt = IF wProg = "project" THEN "open" ELSE "lstat"
      /\ wPrinted = <<>> /\ wError = FALSE
  BY DEF W!Init
<1>2. /\ DOMAIN wFirst \subseteq Path /\ <<>> \in Path /\ <<>> \in DOMAIN wFirst
      /\ Len(<<>>) = 0 /\ DOMAIN <<>> = {}
  <2>1. DOMAIN wFirst \subseteq GivenPaths
    BY <1>1 DEF GivenPaths
  <2>. QED
    BY <1>1, <2>1, GivenArePaths, WalkAssumption
<1>3. WalkTypeInv
  BY <1>1, <1>2, EmptySeq DEF WalkTypeInv
<1>4. PlaceInv
  BY <1>1, <1>2 DEF PlaceInv, Here, StackAt
<1>5. PathInv
  <2> SUFFICES ASSUME NEW p \in Path PROVE TreeSame(p) /\ OncePrinted(p) /\ LeftBehind(p)
    BY DEF PathInv
  <2>1. TreeSame(p)
    BY <1>1 DEF TreeSame
  <2>2. ~Shown(p) /\ OncePrinted(p)
    BY <1>1, <1>2 DEF Shown, OncePrinted
  <2>3. Begins(wCur, p)
    BY <1>1, BeginsFacts
  <2>4. LeftBehind(p)
    BY <1>1, <2>2, <2>3 DEF LeftBehind, Ahead, Wanted, Opening
  <2>. QED
    BY <2>1, <2>2, <2>4
<1>6. ErrorInv
  BY <1>1, <1>2 DEF ErrorInv
<1>. QED
  BY <1>3, <1>4, <1>5, <1>6 DEF WalkInv

\* The walks: what nobody touches is printed once if it matches and nothing else of it is,
\* success means that no directory of it was left out and failure that something was, for
\* any tree, any changes meanwhile and any order of the names (e09, e10 and minifind).
THEOREM WalksAreHonest == ProgramsSpec => []W!WalkIsHonest
<1>1. [ProgramsNext]_allVars => [W!Next]_walkVars
  BY DEF ProgramsNext, allVars, PipelineTurn, PoolTurn, StockTurn, KitchenTurn,
         EntryTurn, LimiterTurn, CountersTurn, CacheTurn, CopyTurn, WalkTurn,
         SignalsTurn
<1>2. WalkInv /\ [W!Next]_walkVars => WalkInv'
  <2> SUFFICES ASSUME WalkInv, [W!Next]_walkVars PROVE WalkInv'
    OBVIOUS
  <2>1. CASE UNCHANGED walkVars
    BY <2>1 DEF walkVars, WalkInv, WalkTypeInv, PlaceInv, StackAt, Here, PathInv, Spotless,
         TreeSame, OncePrinted, LeftBehind, Shown, Wanted, Steady, Ahead, ToCome, Opening,
         Entered, ErrorInv, Reason, W!Matches, W!Passes, W!IsDir
  <2>2. CASE W!Lstat
    <3>1. CASE wCur \in DOMAIN wFs
      BY <2>2, <3>1, WalkLooks
    <3>2. CASE wCur \notin DOMAIN wFs
      <4>1. /\ W!AfterError /\ wAt = "lstat"
            /\ UNCHANGED <<wProg, wFilter, wFirst, wFs, wTouched, wCur, wPrinted>>
        BY <2>2, <3>2 DEF W!Lstat
      <4>. QED
        BY <3>2, <4>1, WalkFails
    <3>. QED
      BY <3>1, <3>2
  <2>3. CASE W!Opendir
    <3>1. CASE W!Opens(wCur)
      BY <2>3, <3>1, WalkOpens
    <3>2. CASE ~W!Opens(wCur)
      <4>1. /\ W!AfterError /\ wAt = "open"
            /\ UNCHANGED <<wProg, wFilter, wFirst, wFs, wTouched, wCur, wPrinted>>
        BY <2>3, <3>2 DEF W!Opendir
      <4>. QED
        BY <3>2, <4>1, WalkFails
    <3>. QED
      BY <3>1, <3>2
  <2>4. CASE W!Ended
    <3>1. UNCHANGED walkVars
      BY <2>4 DEF W!Ended, W!vars, walkVars
    <3>. QED
      BY <2>1, <3>1
  <2>. QED
    BY <2>1, <2>2, <2>3, <2>4, WalkReads, WalkCloses, WalkVanishes, WalkIsPutTo
    DEF W!Next, W!Walks
<1>3. WalkInv => W!WalkIsHonest
  <2> SUFFICES ASSUME WalkInv PROVE W!WalkIsHonest
    OBVIOUS
  <2>0. WalkTypeInv /\ PlaceInv /\ PathInv /\ ErrorInv /\ DOMAIN wFirst \subseteq Path
    <3>1. WalkTypeInv
      BY DEF WalkInv
    <3>2. DOMAIN wFirst \subseteq GivenPaths
      BY <3>1 DEF WalkTypeInv, GivenPaths
    <3>. QED
      BY <3>2, GivenArePaths DEF WalkInv
  <2>1. \A p \in Path : W!Untouched(p) <=> Spotless(p)
    BY <2>0, PrefixIsBegins DEF W!Untouched, Spotless, WalkTypeInv
  <2>2. \A j \in DOMAIN wPrinted : wPrinted[j] \in Path
    BY <2>0, ElementOfSeq, LenProperties DEF WalkTypeInv
  <2>3. \A j, k \in DOMAIN wPrinted : j # k /\ W!Untouched(wPrinted[j]) => wPrinted[j] # wPrinted[k]
    BY <2>0, <2>1, <2>2 DEF PathInv, OncePrinted
  <2>4. ASSUME NEW p \in W!Stable
        PROVE  p \in Path /\ Spotless(p) /\ Steady(p)
    <3>1. p \in DOMAIN wFirst /\ p \in Path /\ Spotless(p) /\ Len(p) <= MaxOpen
      BY <2>0, <2>1 DEF W!Stable
    <3>2. \A q \in DOMAIN wFirst : Begins(q, p) /\ q # p => q \in W!Above(p)
      BY <2>0, <3>1, PrefixIsBegins DEF W!Above
    <3>. QED
      BY <3>1, <3>2 DEF W!Stable, Steady
  <2>5. ASSUME wAt = "end"
        PROVE  /\ wStack = <<>>
               /\ \A p \in Path : ~Ahead(p) /\ ~Opening(p)
    <3>1. wStack = <<>>
      BY <2>0, <2>5 DEF PlaceInv
    <3>2. DOMAIN <<>> = {}
      OBVIOUS
    <3>. QED
      BY <2>5, <3>1, <3>2 DEF Ahead, ToCome, Opening
  <2>6. W!rc = 0 <=> ~wError
    BY <2>0 DEF W!rc, WalkTypeInv
  <2>7. ASSUME wAt = "end", wProg # "walk" \/ W!rc = 0, NEW p \in W!Stable
        PROVE  /\ (\E j \in DOMAIN wPrinted : wPrinted[j] = p)
                    <=> (W!Matches(p, wFirst[p]) /\ (wProg = "project" => p # <<>>))
               /\ wProg # "project" /\ W!rc = 0 /\ W!IsDir(wFirst, p)
                    => wFirst[p].readable /\ Len(p) < MaxOpen
    <3>1. OncePrinted(p) /\ LeftBehind(p) /\ ~Ahead(p) /\ ~Opening(p) /\ Steady(p)
      BY <2>0, <2>4, <2>5, <2>7 DEF PathInv
    <3>2. (Wanted(p) <=> Shown(p)) /\ Entered(p)
      BY <2>6, <2>7, <3>1 DEF OncePrinted, LeftBehind
    <3>. QED
      BY <2>6, <3>2 DEF Wanted, Shown, Entered
  <2>8. W!rc = 1 => wTouched # {} \/ Reason
    BY <2>0, <2>6 DEF ErrorInv, W!rc
  <2>. QED
    BY <2>3, <2>5, <2>7, <2>8 DEF W!WalkIsHonest, Reason
<1>4. ProgramsInit => WalkInv
  BY WalkStarts DEF ProgramsInit
<1>. QED
  BY <1>1, <1>2, <1>3, <1>4, PTL DEF ProgramsSpec

-----------------------------------------------------------------------------
(* The cache under poll.                                                   *)

\* The words of the streams, the lines of them, the entries of the table.
CacheWord == UNION {{s[k] : k \in DOMAIN s} : s \in Streams}
CacheLine == Seq(CacheWord)
TakenSlot == [used : {TRUE}, key : CacheWord, value : CacheWord]
SlotTable == [C!Slot -> {C!Unused} \union TakenSlot]
Reply ==
  {<<"OK">>, <<"ERR">>, <<"ERR", "FULL">>, <<"NULL">>} \union {<<"VALUE", v>> : v \in CacheWord}
HandledLine == [client : C!Client, line : CacheLine, answer : Reply]

\* The map that a table holds; no key has two entries.
UsedSlots(d) == {j \in C!Slot : d[j].used}
Pairs(d) == {<<d[j].key, d[j].value>> : j \in UsedSlots(d)}
OneEntry(d) == \A j, k \in UsedSlots(d) : d[j].key = d[k].key => j = k

\* The table holds what the lines handled have left, and each answer was right.
TableFits(d, h) ==
  /\ d \in SlotTable /\ OneEntry(d)
  /\ C!StoreAfter(h, Len(h)) = Pairs(d)
  /\ C!AnswersFitMap(h)

LEMMA SlotFacts ==
  ASSUME NEW d \in SlotTable, NEW j \in C!Slot
  PROVE  /\ j \in Nat \ {0} /\ d[j].used \in BOOLEAN
         /\ d[j].used => d[j].key \in CacheWord /\ d[j].value \in CacheWord
         /\ ~d[j].used => d[j] = C!Unused
<1>1. d[j] \in {C!Unused} \union TakenSlot
  BY DEF SlotTable
<1>2. j \in Nat \ {0}
  BY CacheAssumption DEF C!Slot
<1>3. CASE d[j] = C!Unused
  BY <1>2, <1>3 DEF C!Unused
<1>4. CASE d[j] \in TakenSlot
  BY <1>2, <1>4 DEF TakenSlot
<1>. QED
  BY <1>1, <1>3, <1>4

\* The words of a command.
LEMMA CommandFacts ==
  ASSUME NEW line \in CacheLine
  PROVE  /\ C!Is(line, "SET", 3) =>
              /\ line[2] \in CacheWord /\ line[3] \in CacheWord
              /\ ~C!Is(line, "GET", 2) /\ ~C!Is(line, "DEL", 2)
         /\ C!Is(line, "GET", 2) =>
              line[2] \in CacheWord /\ ~C!Is(line, "SET", 3) /\ ~C!Is(line, "DEL", 2)
         /\ C!Is(line, "DEL", 2) =>
              line[2] \in CacheWord /\ ~C!Is(line, "SET", 3) /\ ~C!Is(line, "GET", 2)
<1>1. Len(line) \in Nat /\ \A k \in 1 .. Len(line) : line[k] \in CacheWord
  BY LenProperties, ElementOfSeq DEF CacheLine
<1>2. ASSUME C!Is(line, "SET", 3) PROVE line[2] \in CacheWord /\ line[3] \in CacheWord
  BY <1>1, <1>2 DEF C!Is
<1>3. ASSUME C!Is(line, "GET", 2) PROVE line[2] \in CacheWord
  BY <1>1, <1>3 DEF C!Is
<1>4. ASSUME C!Is(line, "DEL", 2) PROVE line[2] \in CacheWord
  BY <1>1, <1>4 DEF C!Is
<1>5. /\ C!Is(line, "SET", 3) => line[1] = "SET"
      /\ C!Is(line, "GET", 2) => line[1] = "GET"
      /\ C!Is(line, "DEL", 2) => line[1] = "DEL"
  BY DEF C!Is
<1>. QED
  BY <1>2, <1>3, <1>4, <1>5

\* The entry of a key, if it has one, is the only one.
LEMMA FoundFacts ==
  ASSUME NEW d \in SlotTable, OneEntry(d), NEW k
  PROVE  /\ C!find_key(d, k) \subseteq UsedSlots(d)
         /\ \A j \in C!find_key(d, k) : C!find_key(d, k) = {j} /\ d[j].key = k
         /\ C!Earliest(C!find_key(d, k)) = C!find_key(d, k)
         /\ C!find_key(d, k) = {} <=> \A p \in Pairs(d) : p[1] # k
<1>1. C!find_key(d, k) = {j \in UsedSlots(d) : d[j].key = k}
  BY DEF C!find_key, UsedSlots
<1>2. \A j \in C!find_key(d, k) : C!find_key(d, k) = {j} /\ d[j].key = k
  BY <1>1 DEF OneEntry
<1>3. \A j \in C!find_key(d, k) : j \in Nat
  BY <1>1, SlotFacts DEF UsedSlots
<1>4. C!Earliest(C!find_key(d, k)) = C!find_key(d, k)
  <2>1. ASSUME NEW j \in C!find_key(d, k) PROVE \A l \in C!find_key(d, k) : j <= l
    BY <1>2, <1>3
  <2>. QED
    BY <2>1 DEF C!Earliest
<1>5. C!find_key(d, k) = {} <=> \A p \in Pairs(d) : p[1] # k
  <2>1. ASSUME C!find_key(d, k) = {}, NEW p \in Pairs(d) PROVE p[1] # k
    <3>1. PICK j \in UsedSlots(d) : p = <<d[j].key, d[j].value>>
      BY DEF Pairs
    <3>2. d[j].key # k
      BY <1>1, <2>1
    <3>. QED
      BY <3>1, <3>2
  <2>2. ASSUME NEW j \in C!find_key(d, k) PROVE \E p \in Pairs(d) : p[1] = k
    <3>1. <<d[j].key, d[j].value>> \in Pairs(d) /\ d[j].key = k
      BY <1>1 DEF Pairs
    <3>. QED
      BY <3>1
  <2>. QED
    BY <2>1, <2>2
<1>. QED
  BY <1>1, <1>2, <1>4, <1>5

\* If an entry is free, there is a first one.
LEMMA FreeFacts ==
  ASSUME NEW d \in SlotTable, C!find_free_slot(d) # {}
  PROVE  \E j \in C!Slot : C!Earliest(C!find_free_slot(d)) = {j} /\ ~d[j].used
<1> DEFINE free == C!find_free_slot(d)
<1>1. free \subseteq Nat /\ free \subseteq C!Slot /\ \A j \in free : ~d[j].used
  BY SlotFacts DEF C!find_free_slot
<1>2. PICK j \in free : \A l \in free : j <= l
  <2> HIDE DEF free
  <2>1. free # {}
    BY DEF free
  <2>. QED
    BY <1>1, <2>1, Least
<1>3. ASSUME NEW l \in free, \A m \in free : l <= m PROVE l = j
  <2>1. l <= j /\ j <= l /\ l \in Nat /\ j \in Nat
    BY <1>1, <1>2, <1>3
  <2>. QED
    BY <2>1
<1>4. C!Earliest(free) = {j}
  <2> HIDE DEF free
  <2>. QED
    BY <1>2, <1>3 DEF C!Earliest
<1>. QED
  BY <1>1, <1>4

LEMMA SameCardinal == ASSUME NEW A PROVE C!Cardinality(A) = Cardinality(A)
BY DEF C!Cardinality, Cardinality

\* The map is full when no entry is free.
LEMMA FullWhenFull ==
  ASSUME NEW d \in SlotTable, OneEntry(d)
  PROVE  C!Cardinality(Pairs(d)) < MaxItems <=> C!find_free_slot(d) # {}
<1> DEFINE u == UsedSlots(d)
           f == [j \in u |-> <<d[j].key, d[j].value>>]
<1>1. IsFiniteSet(C!Slot) /\ Cardinality(C!Slot) = MaxItems
  BY CacheAssumption, FS_Interval DEF C!Slot
<1>2. u \subseteq C!Slot /\ (u = C!Slot <=> C!find_free_slot(d) = {})
  BY SlotFacts DEF UsedSlots, C!find_free_slot
<1>3. IsFiniteSet(u) /\ Cardinality(u) <= MaxItems /\ (Cardinality(u) = MaxItems => u = C!Slot)
  <2> HIDE DEF u
  <2>. QED
    BY <1>1, <1>2, FS_Subset
<1>4. Cardinality(Pairs(d)) = Cardinality(u)
  <2>1. f \in Bijection(u, Pairs(d))
    <3>1. f \in [u -> Pairs(d)]
      BY DEF Pairs
    <3>2. ASSUME NEW a \in u, NEW b \in u, f[a] = f[b] PROVE a = b
      BY <3>2 DEF OneEntry
    <3>3. ASSUME NEW p \in Pairs(d) PROVE \E a \in u : f[a] = p
      BY DEF Pairs
    <3>. QED
      BY <3>1, <3>2, <3>3 DEF Bijection, Injection, Surjection, IsInjective
  <2>2. ExistsBijection(u, Pairs(d))
    <3> HIDE DEF f, u
    <3>. QED
      BY <2>1 DEF ExistsBijection
  <2> HIDE DEF u
  <2>. QED
    BY <1>3, <2>2, FS_Bijection
<1>5. Cardinality(u) \in Nat /\ MaxItems \in Nat
  <2> HIDE DEF u
  <2>. QED
    BY <1>3, FS_CardinalityType, CacheAssumption
<1>6. C!Cardinality(Pairs(d)) = Cardinality(u)
  BY <1>4, SameCardinal
<1>7. Cardinality(u) < MaxItems <=> u # C!Slot
  <2> HIDE DEF u
  <2>. QED
    BY <1>1, <1>3, <1>5
<1>. QED
  BY <1>2, <1>6, <1>7

\* The entry that a SET writes: the key's own, or the first free one.
LEMMA SlotForFacts ==
  ASSUME NEW d \in SlotTable, OneEntry(d), NEW k
  PROVE  \/ C!SlotFor(d, k) = {} /\ C!find_key(d, k) = {} /\ C!find_free_slot(d) = {}
         \/ \E j \in C!Slot :
              /\ C!SlotFor(d, k) = {j}
              /\ \/ C!find_key(d, k) = {j} /\ d[j].used /\ d[j].key = k
                 \/ C!find_key(d, k) = {} /\ C!find_free_slot(d) # {} /\ ~d[j].used
<1>1. CASE C!find_key(d, k) # {}
  <2>1. PICK j : j \in C!find_key(d, k)
    BY <1>1
  <2>2. C!find_key(d, k) = {j} /\ d[j].key = k /\ j \in UsedSlots(d)
    BY <2>1, FoundFacts
  <2>3. C!SlotFor(d, k) = C!find_key(d, k)
    BY <1>1, FoundFacts DEF C!SlotFor
  <2>. QED
    BY <2>2, <2>3 DEF UsedSlots
<1>2. CASE C!find_key(d, k) = {} /\ C!find_free_slot(d) # {}
  <2>1. PICK j \in C!Slot : C!Earliest(C!find_free_slot(d)) = {j} /\ ~d[j].used
    BY <1>2, FreeFacts
  <2>. QED
    BY <1>2, <2>1 DEF C!SlotFor
<1>3. CASE C!find_key(d, k) = {} /\ C!find_free_slot(d) = {}
  BY <1>3 DEF C!SlotFor, C!Earliest
<1>. QED
  BY <1>1, <1>2, <1>3

\* A SET finds no entry where the key has none and none is free.
LEMMA NoSlot ==
  ASSUME NEW d \in SlotTable, OneEntry(d), NEW k
  PROVE  C!SlotFor(d, k) = {} <=> C!find_key(d, k) = {} /\ C!find_free_slot(d) = {}
<1>1. C!find_key(d, k) = {} /\ C!find_free_slot(d) = {} => C!SlotFor(d, k) = {}
  BY DEF C!SlotFor, C!Earliest
<1>2. ASSUME C!SlotFor(d, k) = {}
      PROVE  C!find_key(d, k) = {} /\ C!find_free_slot(d) = {}
  <2>1. ~ \E j \in C!Slot :
            /\ C!SlotFor(d, k) = {j}
            /\ \/ C!find_key(d, k) = {j} /\ d[j].used /\ d[j].key = k
               \/ C!find_key(d, k) = {} /\ C!find_free_slot(d) # {} /\ ~d[j].used
    BY <1>2
  <2>. QED
    BY <2>1, SlotForFacts
<1>. QED
  BY <1>1, <1>2

\* A map without a key.
Without(map, k) == {p \in map : p[1] # k}

\* A map in which a key has a value.
With(map, k, v) == Without(map, k) \union {<<k, v>>}

\* No other entry than j is or may become that of k.
Owns(d, j, k) == \A l \in UsedSlots(d) : d[l].key = k <=> l = j

\* An entry is written: the key had it, or had none and it was free.
LEMMA EntryIsPut ==
  ASSUME NEW d \in SlotTable, OneEntry(d), NEW j \in C!Slot,
         NEW k \in CacheWord, NEW v \in CacheWord,
         Owns(d, j, k)
  PROVE  LET e == [d EXCEPT ![j] = [used |-> TRUE, key |-> k, value |-> v]]
         IN  /\ e \in SlotTable /\ OneEntry(e)
             /\ Pairs(e) = With(Pairs(d), k, v)
<1> DEFINE e == [d EXCEPT ![j] = [used |-> TRUE, key |-> k, value |-> v]]
<1>1. e \in SlotTable
  BY DEF SlotTable, TakenSlot
<1>2. /\ e[j].used /\ e[j].key = k /\ e[j].value = v
      /\ \A l \in C!Slot : l # j => e[l] = d[l]
  BY DEF SlotTable
<1> HIDE DEF e
<1>3. UsedSlots(e) = UsedSlots(d) \union {j}
  BY <1>2 DEF UsedSlots
<1>4. OneEntry(e)
  <2> SUFFICES ASSUME NEW a \in UsedSlots(e), NEW b \in UsedSlots(e), e[a].key = e[b].key
               PROVE  a = b
    BY DEF OneEntry
  <2>1. a \in C!Slot /\ b \in C!Slot
    BY DEF UsedSlots
  <2>2. CASE a # j /\ b # j
    BY <1>2, <1>3, <2>1, <2>2 DEF OneEntry, Owns
  <2>3. CASE a = j \/ b = j
    BY <1>2, <1>3, <2>1, <2>3 DEF Owns
  <2>. QED
    BY <2>2, <2>3
<1>5. ASSUME NEW p \in Pairs(e) PROVE p \in With(Pairs(d), k, v)
  <2>1. PICK l \in UsedSlots(e) : p = <<e[l].key, e[l].value>>
    BY DEF Pairs
  <2>2. CASE l = j
    BY <1>2, <2>1, <2>2 DEF With
  <2>3. CASE l # j
    <3>1. l \in UsedSlots(d) /\ e[l] = d[l] /\ d[l].key # k
      BY <1>2, <1>3, <2>3 DEF UsedSlots, Owns
    <3>. QED
      BY <2>1, <3>1 DEF Pairs, Without, With
  <2>. QED
    BY <2>2, <2>3
<1>6. ASSUME NEW p \in Pairs(d), p[1] # k PROVE p \in Pairs(e)
  <2>1. PICK l \in UsedSlots(d) : p = <<d[l].key, d[l].value>>
    BY DEF Pairs
  <2>2. l # j /\ l \in UsedSlots(e) /\ e[l] = d[l]
    BY <1>2, <1>3, <1>6, <2>1 DEF UsedSlots, Owns
  <2>. QED
    BY <2>1, <2>2 DEF Pairs
<1>7. <<k, v>> \in Pairs(e)
  BY <1>2, <1>3 DEF Pairs
<1>. QED
  BY <1>1, <1>4, <1>5, <1>6, <1>7 DEF e, Without, With

\* An entry is freed.
LEMMA EntryIsFreed ==
  ASSUME NEW d \in SlotTable, OneEntry(d), NEW j \in UsedSlots(d),
         NEW k, d[j].key = k
  PROVE  LET e == [d EXCEPT ![j] = C!Unused]
         IN  /\ e \in SlotTable /\ OneEntry(e)
             /\ Pairs(e) = Without(Pairs(d), k)
<1> DEFINE e == [d EXCEPT ![j] = C!Unused]
<1>1. e \in SlotTable
  BY DEF SlotTable
<1>2. /\ ~e[j].used
      /\ \A l \in C!Slot : l # j => e[l] = d[l]
  BY DEF SlotTable, UsedSlots, C!Unused
<1> HIDE DEF e
<1>3. UsedSlots(e) = UsedSlots(d) \ {j}
  BY <1>2 DEF UsedSlots
<1>4. \A l \in UsedSlots(e) : l \in UsedSlots(d) /\ l \in C!Slot /\ l # j /\ e[l] = d[l]
  BY <1>2, <1>3 DEF UsedSlots
<1>5. OneEntry(e)
  BY <1>4 DEF OneEntry
<1>6. ASSUME NEW p \in Pairs(e) PROVE p \in Pairs(d) /\ p[1] # k
  <2>1. PICK l \in UsedSlots(e) : p = <<e[l].key, e[l].value>>
    BY DEF Pairs
  <2>2. d[l].key # k
    BY <1>4 DEF OneEntry
  <2>. QED
    BY <1>4, <2>1, <2>2 DEF Pairs
<1>7. ASSUME NEW p \in Pairs(d), p[1] # k PROVE p \in Pairs(e)
  <2>1. PICK l \in UsedSlots(d) : p = <<d[l].key, d[l].value>>
    BY DEF Pairs
  <2>2. l \in UsedSlots(e)
    BY <1>3, <1>7, <2>1
  <2>. QED
    BY <1>4, <2>1, <2>2 DEF Pairs
<1>. QED
  BY <1>1, <1>5, <1>6, <1>7 DEF e, Without

\* What a command makes of the table.
LEMMA TableStep ==
  ASSUME NEW d \in SlotTable, OneEntry(d), NEW line \in CacheLine
  PROVE  /\ C!AfterCommand(d, line) \in SlotTable /\ OneEntry(C!AfterCommand(d, line))
         /\ Pairs(C!AfterCommand(d, line)) =
              IF C!Is(line, "SET", 3) /\ C!SlotFor(d, line[2]) # {}
              THEN With(Pairs(d), line[2], line[3])
              ELSE IF C!Is(line, "DEL", 2) THEN Without(Pairs(d), line[2])
              ELSE Pairs(d)
<1> DEFINE k == line[2]  v == line[3]  e == C!AfterCommand(d, line)
<1>0. d = [l \in C!Slot |-> d[l]]
  BY DEF SlotTable
<1>1. CASE C!Is(line, "SET", 3) /\ C!SlotFor(d, k) # {}
  <2>1. PICK j \in C!Slot :
          /\ C!SlotFor(d, k) = {j}
          /\ \/ C!find_key(d, k) = {j} /\ d[j].used /\ d[j].key = k
             \/ C!find_key(d, k) = {} /\ ~d[j].used
    BY <1>1, SlotForFacts
  <2>2. Owns(d, j, k)
    BY <2>1 DEF UsedSlots, C!find_key, Owns
  <2>3. e = [d EXCEPT ![j] = [used |-> TRUE, key |-> k, value |-> v]]
    BY <1>0, <1>1, <2>1, CommandFacts DEF C!AfterCommand
  <2>4. k \in CacheWord /\ v \in CacheWord
    BY <1>1, CommandFacts
  <2> HIDE DEF e, k, v
  <2>5. /\ e \in SlotTable /\ OneEntry(e)
        /\ Pairs(e) = With(Pairs(d), k, v)
    BY <2>1, <2>2, <2>3, <2>4, EntryIsPut
  <2>. QED
    BY <1>1, <2>5 DEF e, k, v
<1>2. CASE C!Is(line, "SET", 3) /\ C!SlotFor(d, k) = {}
  <2>1. e = d
    BY <1>0, <1>2, CommandFacts DEF C!AfterCommand
  <2>. QED
    BY <1>2, <2>1, CommandFacts
<1>3. CASE C!Is(line, "DEL", 2) /\ C!find_key(d, k) # {}
  <2>1. PICK j : j \in C!find_key(d, k)
    BY <1>3
  <2>2. C!find_key(d, k) = {j} /\ d[j].key = k /\ j \in UsedSlots(d)
    BY <2>1, FoundFacts
  <2>3. e = [d EXCEPT ![j] = C!Unused]
    BY <1>0, <1>3, <2>2, CommandFacts, FoundFacts DEF C!AfterCommand
  <2> HIDE DEF e
  <2>4. /\ e \in SlotTable /\ OneEntry(e) /\ Pairs(e) = Without(Pairs(d), k)
    BY <2>2, <2>3, EntryIsFreed
  <2>. QED
    BY <1>3, <2>4, CommandFacts DEF e
<1>4. CASE C!Is(line, "DEL", 2) /\ C!find_key(d, k) = {}
  <2>1. e = d
    BY <1>0, <1>4, CommandFacts, FoundFacts DEF C!AfterCommand
  <2>2. Pairs(d) = Without(Pairs(d), k)
    BY <1>4, FoundFacts DEF Without
  <2>. QED
    BY <1>4, <2>1, <2>2, CommandFacts
<1>5. CASE ~C!Is(line, "SET", 3) /\ ~C!Is(line, "DEL", 2)
  <2>1. e = d
    BY <1>0, <1>5 DEF C!AfterCommand
  <2>. QED
    BY <1>5, <2>1
<1>. QED
  BY <1>1, <1>2, <1>3, <1>4, <1>5

\* The map that a table holds knows what the table finds.
LEMMA FoundInMap ==
  ASSUME NEW d \in SlotTable, OneEntry(d), NEW k,
         NEW found, found = {p \in Pairs(d) : p[1] = k}
  PROVE  /\ found = {} <=> C!find_key(d, k) = {}
         /\ \A j \in C!find_key(d, k) : <<k, d[j].value>> \in found
<1>1. found = {} <=> C!find_key(d, k) = {}
  <2>1. found = {} <=> \A p \in Pairs(d) : p[1] # k
    OBVIOUS
  <2>. QED
    BY <2>1, FoundFacts
<1>2. ASSUME NEW j \in C!find_key(d, k) PROVE <<k, d[j].value>> \in found
  <2>1. j \in UsedSlots(d) /\ d[j].key = k
    BY FoundFacts
  <2>2. <<k, d[j].value>> \in Pairs(d)
    BY <2>1 DEF Pairs
  <2>. QED
    BY <2>2
<1>. QED
  BY <1>1, <1>2

\* The answer of the table is that of the map it holds.
LEMMA AnswerFits ==
  ASSUME NEW d \in SlotTable, OneEntry(d), NEW line \in CacheLine
  PROVE  C!Fits(Pairs(d), line, C!Answer(d, line)) /\ C!Answer(d, line) \in Reply
<1> DEFINE k == line[2]  found == {p \in Pairs(d) : p[1] = k}  a == C!Answer(d, line)
<1>1. found = {} <=> C!find_key(d, k) = {}
  <2> HIDE DEF k
  <2>. QED
    BY FoundInMap
<1>2. CASE C!Is(line, "SET", 3)
  <2>1. C!SlotFor(d, k) = {} <=> found = {} /\ C!find_free_slot(d) = {}
    <3> HIDE DEF found, k
    <3>1. C!SlotFor(d, k) = {} <=> C!find_key(d, k) = {} /\ C!find_free_slot(d) = {}
      BY NoSlot
    <3>. QED
      BY ONLY <1>1, <3>1
  <2>2. C!SlotFor(d, k) = {} <=> ~(found # {} \/ C!Cardinality(Pairs(d)) < MaxItems)
    <3> HIDE DEF found, k
    <3>. QED
      BY <2>1, FullWhenFull
  <2>3. a = IF C!SlotFor(d, k) = {} THEN <<"ERR", "FULL">> ELSE <<"OK">>
    BY <1>2 DEF C!Answer
  <2>4. a = IF found # {} \/ C!Cardinality(Pairs(d)) < MaxItems
            THEN <<"OK">> ELSE <<"ERR", "FULL">>
    <3> HIDE DEF found, k, a
    <3>. QED
      BY <2>2, <2>3
  <2>5. a \in Reply
    <3> HIDE DEF a, k
    <3>. QED
      BY <2>3 DEF Reply
  <2>6. ~C!Is(line, "GET", 2) /\ ~C!Is(line, "DEL", 2)
    BY <1>2, CommandFacts
  <2>. QED
    BY <1>2, <2>4, <2>5, <2>6 DEF C!Fits
<1>3. CASE C!Is(line, "GET", 2) /\ C!find_key(d, k) = {}
  <2>1. ~C!Is(line, "SET", 3) /\ ~C!Is(line, "DEL", 2)
    BY <1>3, CommandFacts
  <2>2. a = <<"NULL">> /\ a \in Reply
    BY <1>3, <2>1 DEF C!Answer, Reply
  <2>. QED
    BY <1>1, <1>3, <2>1, <2>2 DEF C!Fits
<1>4. CASE C!Is(line, "GET", 2) /\ C!find_key(d, k) # {}
  <2>1. ~C!Is(line, "SET", 3) /\ ~C!Is(line, "DEL", 2)
    BY <1>4, CommandFacts
  <2>2. PICK j : j \in C!find_key(d, k)
    BY <1>4
  <2>3. /\ C!Earliest(C!find_key(d, k)) = {j}
        /\ <<k, d[j].value>> \in found /\ j \in UsedSlots(d)
    <3> HIDE DEF k
    <3>. QED
      BY <2>2, FoundFacts, FoundInMap
  <2>4. a = <<"VALUE", d[CHOOSE l \in {j} : TRUE].value>>
    BY <1>4, <2>1, <2>3 DEF C!Answer
  <2>5. (CHOOSE l \in {j} : TRUE) = j
    OBVIOUS
  <2>6. a = <<"VALUE", d[j].value>>
    BY <2>4, <2>5
  <2>7. a \in Reply
    <3>1. d[j].value \in CacheWord
      BY <2>3, SlotFacts DEF UsedSlots
    <3> HIDE DEF a
    <3>. QED
      BY <2>6, <3>1 DEF Reply
  <2>8. \E p \in found : a = <<"VALUE", p[2]>>
    <3>1. <<k, d[j].value>>[2] = d[j].value
      OBVIOUS
    <3> HIDE DEF a, found
    <3>. QED
      BY <2>3, <2>6, <3>1
  <2>. QED
    BY <1>4, <2>1, <2>7, <2>8 DEF C!Fits
<1>5. CASE C!Is(line, "DEL", 2)
  <2>1. ~C!Is(line, "SET", 3) /\ ~C!Is(line, "GET", 2)
    BY <1>5, CommandFacts
  <2>2. a = <<"OK">> /\ a \in Reply
    BY <1>5, <2>1 DEF C!Answer, Reply
  <2>. QED
    BY <1>5, <2>1, <2>2 DEF C!Fits
<1>6. CASE ~C!Is(line, "SET", 3) /\ ~C!Is(line, "GET", 2) /\ ~C!Is(line, "DEL", 2)
  <2>1. a = <<"ERR">> /\ a \in Reply
    BY <1>6 DEF C!Answer, Reply
  <2>. QED
    BY <1>6, <2>1 DEF C!Fits
<1>. QED
  BY <1>2, <1>3, <1>4, <1>5, <1>6

\* What has been handled before is not changed by the next line.
LEMMA StoreBefore ==
  ASSUME NEW h \in Seq(HandledLine), NEW r \in HandledLine, NEW k \in 0 .. Len(h)
  PROVE  C!StoreAfter(Append(h, r), k) = C!StoreAfter(h, k)
<1>1. Len(h) \in Nat /\ \A j \in 1 .. Len(h) : Append(h, r)[j] = h[j]
  BY AppendProperties, LenProperties
<1>2. \A j \in 1 .. k : Append(h, r)[j] = h[j] /\ \A l \in j + 1 .. k : Append(h, r)[l] = h[l]
  BY <1>1
<1> DEFINE g == Append(h, r)
<1> HIDE DEF g
<1>3. \A j \in 1 .. k : g[j] = h[j] /\ \A l \in j + 1 .. k : g[l] = h[l]
  BY <1>2 DEF g
<1>4. {j \in 1 .. k : C!Stores(g[j]) /\ \A l \in j + 1 .. k : ~C!Touches(g[l], g[j].line[2])}
        = {j \in 1 .. k : C!Stores(h[j]) /\ \A l \in j + 1 .. k : ~C!Touches(h[l], h[j].line[2])}
  BY <1>3
<1>5. C!StoreAfter(g, k) = C!StoreAfter(h, k)
  BY <1>3, <1>4 DEF C!StoreAfter
<1>. QED
  BY <1>5 DEF g

\* What the next line leaves of what was stored.
LEMMA StoreNext ==
  ASSUME NEW h \in Seq(HandledLine), NEW r \in HandledLine
  PROVE  C!StoreAfter(Append(h, r), Len(h) + 1) =
           {p \in C!StoreAfter(h, Len(h)) : ~C!Touches(r, p[1])}
             \union (IF C!Stores(r) THEN {<<r.line[2], r.line[3]>>} ELSE {})
<1> DEFINE n == Len(h)  g == Append(h, r)
           kept == {p \in C!StoreAfter(h, n) : ~C!Touches(r, p[1])}
           new == IF C!Stores(r) THEN {<<r.line[2], r.line[3]>>} ELSE {}
<1>1. n \in Nat /\ g[n + 1] = r /\ \A j \in 1 .. n : g[j] = h[j]
  BY AppendProperties, LenProperties
<1> HIDE DEF n, g
<1>2. \A j \in 1 .. n : /\ g[j] = h[j] /\ j \in 1 .. n + 1
                        /\ \A l \in j + 1 .. n : g[l] = h[l] /\ l \in j + 1 .. n + 1
                        /\ n + 1 \in j + 1 .. n + 1
                        /\ \A l \in j + 1 .. n + 1 : l = n + 1 \/ l \in j + 1 .. n
  BY <1>1
<1>3. ASSUME NEW p \in C!StoreAfter(g, n + 1) PROVE p \in kept \union new
  <2>1. PICK j \in 1 .. n + 1 :
          /\ p = <<g[j].line[2], g[j].line[3]>> /\ C!Stores(g[j])
          /\ \A l \in j + 1 .. n + 1 : ~C!Touches(g[l], g[j].line[2])
    BY DEF C!StoreAfter
  <2>2. CASE j = n + 1
    BY <1>1, <2>1, <2>2
  <2>3. CASE j # n + 1
    <3>1. j \in 1 .. n
      BY <1>1, <2>3
    <3>2. C!Stores(h[j]) /\ \A l \in j + 1 .. n : ~C!Touches(h[l], h[j].line[2])
      BY <1>2, <2>1, <3>1
    <3>3. p = <<h[j].line[2], h[j].line[3]>> /\ ~C!Touches(r, p[1])
      BY <1>1, <1>2, <2>1, <3>1
    <3>4. p \in C!StoreAfter(h, n)
      BY <3>1, <3>2, <3>3 DEF C!StoreAfter
    <3>. QED
      BY <3>3, <3>4
  <2>. QED
    BY <2>2, <2>3
<1>4. ASSUME NEW p \in kept PROVE p \in C!StoreAfter(g, n + 1)
  <2>1. PICK j \in 1 .. n :
          /\ p = <<h[j].line[2], h[j].line[3]>> /\ C!Stores(h[j])
          /\ \A l \in j + 1 .. n : ~C!Touches(h[l], h[j].line[2])
    BY DEF C!StoreAfter
  <2>2. p[1] = h[j].line[2] /\ ~C!Touches(r, h[j].line[2])
    BY <2>1
  <2>3. \A l \in j + 1 .. n + 1 : ~C!Touches(g[l], g[j].line[2])
    BY <1>1, <1>2, <2>1, <2>2
  <2>. QED
    BY <1>2, <2>1, <2>3 DEF C!StoreAfter
<1>5. ASSUME NEW p \in new PROVE p \in C!StoreAfter(g, n + 1)
  <2>1. C!Stores(r) /\ p = <<r.line[2], r.line[3]>>
    BY <1>5
  <2>2. n + 1 \in 1 .. n + 1 /\ \A l \in (n + 1) + 1 .. n + 1 : FALSE
    BY <1>1
  <2>. QED
    BY <1>1, <2>1, <2>2 DEF C!StoreAfter
<1>6. C!StoreAfter(g, n + 1) = kept \union new
  BY <1>3, <1>4, <1>5
<1>. QED
  BY <1>6 DEF g, n

\* A command is handled.
LEMMA HandleKeeps ==
  ASSUME NEW d, NEW h \in Seq(HandledLine), TableFits(d, h),
         NEW line \in CacheLine, NEW c \in C!Client,
         NEW r, r = [client |-> c, line |-> line, answer |-> C!Answer(d, line)]
  PROVE  r \in HandledLine /\ TableFits(C!AfterCommand(d, line), Append(h, r))
<1> DEFINE e == C!AfterCommand(d, line)  g == Append(h, r)  n == Len(h)  k == line[2]
<1>1. d \in SlotTable /\ OneEntry(d) /\ C!StoreAfter(h, n) = Pairs(d) /\ C!AnswersFitMap(h)
  BY DEF TableFits
<1>2. C!Fits(Pairs(d), line, C!Answer(d, line)) /\ C!Answer(d, line) \in Reply
  BY <1>1, AnswerFits
<1>3. r \in HandledLine /\ r.line = line /\ r.answer = C!Answer(d, line)
  BY <1>2 DEF HandledLine
<1>4. /\ e \in SlotTable /\ OneEntry(e)
      /\ Pairs(e) = IF C!Is(line, "SET", 3) /\ C!SlotFor(d, k) # {}
                    THEN With(Pairs(d), k, line[3])
                    ELSE IF C!Is(line, "DEL", 2) THEN Without(Pairs(d), k) ELSE Pairs(d)
  BY <1>1, TableStep
<1>5. n \in Nat /\ Len(g) = n + 1 /\ g[n + 1] = r /\ \A j \in 1 .. n : g[j] = h[j]
  BY <1>3, AppendProperties, LenProperties
<1>6. C!Stores(r) <=> C!Is(line, "SET", 3) /\ C!SlotFor(d, k) # {}
  <2>1. C!Is(line, "SET", 3) => C!Answer(d, line) =
          IF C!SlotFor(d, k) = {} THEN <<"ERR", "FULL">> ELSE <<"OK">>
    BY DEF C!Answer
  <2> HIDE DEF k
  <2>. QED
    BY <1>3, <2>1 DEF C!Stores
<1>7. \A w : C!Touches(r, w) <=> (C!Stores(r) \/ C!Is(line, "DEL", 2)) /\ k = w
  BY <1>3 DEF C!Touches
<1>8. C!StoreAfter(g, n + 1) =
        {p \in Pairs(d) : ~C!Touches(r, p[1])}
          \union (IF C!Stores(r) THEN {<<k, line[3]>>} ELSE {})
  BY <1>1, <1>3, StoreNext
<1>9. C!StoreAfter(g, n + 1) = Pairs(e)
  <2>1. CASE C!Stores(r)
    <3>1. {p \in Pairs(d) : ~C!Touches(r, p[1])} = Without(Pairs(d), k)
      BY <1>7, <2>1 DEF Without
    <3> HIDE DEF e, g, n, k
    <3>. QED
      BY <1>4, <1>6, <1>8, <2>1, <3>1 DEF With
  <2>2. CASE ~C!Stores(r) /\ C!Is(line, "DEL", 2)
    <3>1. {p \in Pairs(d) : ~C!Touches(r, p[1])} = Without(Pairs(d), k)
      BY <1>7, <2>2 DEF Without
    <3> HIDE DEF e, g, n, k
    <3>. QED
      BY <1>4, <1>6, <1>8, <2>2, <3>1
  <2>3. CASE ~C!Stores(r) /\ ~C!Is(line, "DEL", 2)
    <3>1. {p \in Pairs(d) : ~C!Touches(r, p[1])} = Pairs(d)
      BY <1>7, <2>3
    <3> HIDE DEF e, g, n, k
    <3>. QED
      BY <1>4, <1>6, <1>8, <2>3, <3>1
  <2>. QED
    BY <2>1, <2>2, <2>3
<1>10. C!AnswersFitMap(g)
  <2> SUFFICES ASSUME NEW j \in DOMAIN g
               PROVE  C!Fits(C!StoreAfter(g, j - 1), g[j].line, g[j].answer)
    BY DEF C!AnswersFitMap
  <2>0. g \in Seq(HandledLine)
    BY <1>3, AppendProperties
  <2> HIDE DEF g, n
  <2>1. DOMAIN g = 1 .. n + 1 /\ DOMAIN h = 1 .. n
    BY <1>5, <2>0, LenProperties DEF n
  <2>2. j - 1 \in 0 .. n
    BY <1>5, <2>1
  <2>3. C!StoreAfter(g, j - 1) = C!StoreAfter(h, j - 1)
    BY <1>3, <2>2, StoreBefore DEF g, n
  <2>4. CASE j = n + 1
    <3>1. j - 1 = n
      BY <1>5, <2>4
    <3>. QED
      BY <1>1, <1>2, <1>3, <1>5, <2>3, <2>4, <3>1
  <2>5. CASE j # n + 1
    <3>1. j \in DOMAIN h /\ g[j] = h[j]
      BY <1>5, <2>1, <2>5
    <3>. QED
      BY <1>1, <2>3, <3>1 DEF C!AnswersFitMap
  <2>. QED
    BY <2>4, <2>5
<1>. QED
  BY <1>3, <1>4, <1>5, <1>9, <1>10 DEF TableFits

-----------------------------------------------------------------------------
(* Lines of a stream.                                                      *)

\* Newlines up to p, and lines handled of c.
UpTo(s, p) == {j \in C!Newlines(s) : j <= p}
LineCount(h, c) == C!Cardinality(C!HandledOf(h, c, Len(h)))

\* A line starts at one place.
LEMMA OneStart ==
  ASSUME NEW s, NEW e \in Nat, NEW a \in 0 .. e - 1, NEW b \in 0 .. e - 1,
         C!Runs(s, a, e), C!Runs(s, b, e)
  PROVE  a = b
<1>1. CASE a < b
  <2>1. b \in a + 1 .. e - 1 /\ b # 0
    BY <1>1
  <2>. QED
    BY <2>1 DEF C!Runs
<1>2. CASE b < a
  <2>1. a \in b + 1 .. e - 1 /\ a # 0
    BY <1>2
  <2>. QED
    BY <2>1 DEF C!Runs
<1>. QED
  BY <1>1, <1>2

LEMMA UpToFacts ==
  ASSUME NEW s \in Seq(CacheWord), NEW p \in 1 .. Len(s)
  PROVE  /\ s[p] # C!NL => UpTo(s, p) = UpTo(s, p - 1)
         /\ s[p] = C!NL => C!Cardinality(UpTo(s, p)) = C!Cardinality(UpTo(s, p - 1)) + 1
<1>1. Len(s) \in Nat /\ DOMAIN s = 1 .. Len(s)
  BY LenProperties
<1>2. UpTo(s, p - 1) \subseteq 1 .. Len(s) /\ p \notin UpTo(s, p - 1)
  BY <1>1 DEF UpTo, C!Newlines
<1>3. s[p] # C!NL => UpTo(s, p) = UpTo(s, p - 1)
  BY <1>1 DEF UpTo, C!Newlines
<1>4. s[p] = C!NL => UpTo(s, p) = UpTo(s, p - 1) \union {p}
  BY <1>1 DEF UpTo, C!Newlines
<1>5. IsFiniteSet(UpTo(s, p - 1))
  <2>1. IsFiniteSet(1 .. Len(s))
    BY <1>1, FS_Interval
  <2>. QED
    BY <1>2, <2>1, FS_Subset
<1>6. Cardinality(UpTo(s, p - 1) \union {p}) = Cardinality(UpTo(s, p - 1)) + 1
  BY <1>2, <1>5, FS_AddElement
<1>. QED
  BY <1>3, <1>4, <1>6, SameCardinal

LEMMA HandledFacts ==
  ASSUME NEW h \in Seq(HandledLine), NEW r \in HandledLine
  PROVE  /\ \A c, k : k \in 0 .. Len(h) =>
              C!HandledOf(Append(h, r), c, k) = C!HandledOf(h, c, k)
         /\ \A c : c # r.client => LineCount(Append(h, r), c) = LineCount(h, c)
         /\ LineCount(Append(h, r), r.client) = LineCount(h, r.client) + 1
         /\ LineCount(h, r.client) \in Nat
<1> DEFINE n == Len(h)  g == Append(h, r)
<1>1. /\ n \in Nat /\ Len(g) = n + 1 /\ g[n + 1] = r
      /\ \A j \in 1 .. n : g[j] = h[j]
  BY AppendProperties, LenProperties
<1> HIDE DEF n, g
<1>2. \A c, k : k \in 0 .. n => C!HandledOf(g, c, k) = C!HandledOf(h, c, k)
  <2> SUFFICES ASSUME NEW c, NEW k \in 0 .. n PROVE C!HandledOf(g, c, k) = C!HandledOf(h, c, k)
    OBVIOUS
  <2>1. \A j \in 1 .. k : g[j] = h[j]
    BY <1>1
  <2>. QED
    BY <2>1 DEF C!HandledOf
<1>3. \A c : c # r.client => C!HandledOf(g, c, n + 1) = C!HandledOf(h, c, n)
  BY <1>1 DEF C!HandledOf
<1>4. C!HandledOf(g, r.client, n + 1) = C!HandledOf(h, r.client, n) \union {n + 1}
  BY <1>1 DEF C!HandledOf
<1>5. C!HandledOf(h, r.client, n) \subseteq 1 .. n /\ n + 1 \notin C!HandledOf(h, r.client, n)
  BY <1>1 DEF C!HandledOf
<1>6. IsFiniteSet(C!HandledOf(h, r.client, n))
  <2>1. IsFiniteSet(1 .. n)
    BY <1>1, FS_Interval
  <2>. QED
    BY <1>5, <2>1, FS_Subset
<1>7. /\ Cardinality(C!HandledOf(g, r.client, n + 1))
           = Cardinality(C!HandledOf(h, r.client, n)) + 1
      /\ Cardinality(C!HandledOf(h, r.client, n)) \in Nat
  BY <1>4, <1>5, <1>6, FS_AddElement, FS_CardinalityType
<1>. QED
  BY <1>1, <1>2, <1>3, <1>7, SameCardinal DEF LineCount, n, g

-----------------------------------------------------------------------------

\* The next line of a client has been handled.
LEMMA NextInOrder ==
  ASSUME NEW h \in Seq(HandledLine), C!LinesInOrder(h), NEW r \in HandledLine,
         cScript[r.client] \in Seq(CacheWord),
         NEW p \in 1 .. Len(cScript[r.client]), cScript[r.client][p] = C!NL,
         NEW b \in 0 .. p - 1, C!Runs(cScript[r.client], b, p),
         r.line = SubSeq(cScript[r.client], b + 1, p - 1),
         LineCount(h, r.client) = C!Cardinality(UpTo(cScript[r.client], p - 1))
  PROVE  /\ C!LinesInOrder(Append(h, r))
         /\ LineCount(Append(h, r), r.client) = C!Cardinality(UpTo(cScript[r.client], p))
<1> DEFINE n == Len(h)  g == Append(h, r)  s == cScript[r.client]
<1>1. /\ n \in Nat /\ Len(g) = n + 1 /\ g[n + 1] = r /\ g \in Seq(HandledLine)
      /\ \A j \in 1 .. n : g[j] = h[j]
  BY AppendProperties, LenProperties
<1>2. DOMAIN g = 1 .. n + 1 /\ DOMAIN h = 1 .. n
  <2> HIDE DEF g
  <2>. QED
    BY <1>1, LenProperties
<1>3. /\ LineCount(g, r.client) = C!Cardinality(UpTo(s, p))
      /\ \A c, k : k \in 0 .. n => C!HandledOf(g, c, k) = C!HandledOf(h, c, k)
  BY HandledFacts, UpToFacts
<1>4. p \in C!Newlines(s) /\ b \in 0 .. Len(s) /\ b < p /\ Len(s) \in Nat
  BY LenProperties DEF C!Newlines
<1> HIDE DEF n, g
<1>5. C!LinesInOrder(g)
  <2> SUFFICES ASSUME NEW j \in DOMAIN g
               PROVE  \E e \in C!Newlines(cScript[g[j].client]),
                         a \in 0 .. Len(cScript[g[j].client]) :
                        /\ a < e /\ C!Runs(cScript[g[j].client], a, e)
                        /\ g[j].line = SubSeq(cScript[g[j].client], a + 1, e - 1)
                        /\ C!Cardinality(C!HandledOf(g, g[j].client, j))
                             = C!Cardinality(UpTo(cScript[g[j].client], e))
    BY DEF C!LinesInOrder, UpTo
  <2>1. CASE j = n + 1
    <3>1. g[j] = r /\ C!HandledOf(g, g[j].client, j) = C!HandledOf(g, r.client, Len(g))
      BY <1>1, <2>1
    <3>2. C!Cardinality(C!HandledOf(g, g[j].client, j)) = C!Cardinality(UpTo(s, p))
      BY <1>3, <3>1 DEF LineCount
    <3>. QED
      BY <1>4, <3>1, <3>2
  <2>2. CASE j # n + 1
    <3>1. j \in DOMAIN h /\ g[j] = h[j] /\ j \in 0 .. n
      BY <1>1, <1>2, <2>2
    <3>2. C!HandledOf(g, g[j].client, j) = C!HandledOf(h, h[j].client, j)
      BY <1>3, <3>1
    <3>. QED
      BY <3>1, <3>2 DEF C!LinesInOrder, UpTo
  <2>. QED
    BY <2>1, <2>2
<1>. QED
  BY <1>3, <1>5 DEF g

\* What was read of s up to p ends with this part of a line.
ReadyAt(s, line, p) ==
  \E b \in 0 .. p : C!Runs(s, b, p + 1) /\ line = SubSeq(s, b + 1, p)

\* No line that ends up to p is too long.
NoLong(s, p) ==
  \A e \in 1 .. p : s[e] = C!NL =>
    \A b \in 0 .. e - 1 : C!Runs(s, b, e) => (e - 1) - b < LineMax

PassState == [db : SlotTable, line : CacheLine, handled : Seq(HandledLine), failed : BOOLEAN]

\* A pass that started with the lines h handled has come to p of the stream of c.
PassAt(t, h, c, p) ==
  /\ t \in PassState
  /\ TableFits(t.db, t.handled) /\ C!LinesInOrder(t.handled)
  /\ \A q \in C!Client \ {c} : LineCount(t.handled, q) = LineCount(h, q)
  /\ t.failed => C!Unservable(cScript[c])
  /\ ~t.failed => /\ LineCount(t.handled, c) = C!Cardinality(UpTo(cScript[c], p))
                  /\ ReadyAt(cScript[c], t.line, p)
                  /\ NoLong(cScript[c], p)

\* What lies between a and b.
LEMMA PartFacts ==
  ASSUME NEW A, NEW s \in Seq(A), NEW a \in Nat, NEW b \in a .. Len(s)
  PROVE  /\ SubSeq(s, a + 1, b) \in Seq(A) /\ Len(SubSeq(s, a + 1, b)) = b - a
         /\ \A k \in 1 .. b - a : SubSeq(s, a + 1, b)[k] = s[a + k]
<1> DEFINE u == SubSeq(s, a + 1, b)
<1>1. Len(s) \in Nat /\ \A k \in 1 .. Len(s) : s[k] \in A
  BY LenProperties, ElementOfSeq
<1>2. a + 1 \in Int /\ b \in Int /\ \A k \in a + 1 .. b : s[k] \in A
  BY <1>1
<1>3. /\ u \in Seq(A) /\ Len(u) = IF a + 1 <= b THEN b - (a + 1) + 1 ELSE 0
      /\ \A k \in 1 .. b - (a + 1) + 1 : u[k] = s[(a + 1) + k - 1]
  BY <1>2, SubSeqProperties
<1> HIDE DEF u
<1>4. b - (a + 1) + 1 = b - a /\ (a + 1 <= b \/ b - a = 0)
  BY <1>1
<1>5. \A k \in 1 .. b - a : (a + 1) + k - 1 = a + k
  BY <1>1
<1>. QED
  BY <1>3, <1>4, <1>5 DEF u

\* What a line holds since it started.
LEMMA ReadyIs ==
  ASSUME NEW s, NEW p, NEW b \in 0 .. p, C!Runs(s, b, p + 1),
         NEW line, line = SubSeq(s, b + 1, p)
  PROVE  ReadyAt(s, line, p)
  BY DEF ReadyAt

\* A part of a sequence, and one that is longer by an element.
LEMMA SubSeqGrows ==
  ASSUME NEW A, NEW s \in Seq(A), NEW p \in 1 .. Len(s), NEW b \in 0 .. p - 1
  PROVE  /\ SubSeq(s, b + 1, p - 1) \in Seq(A) /\ Len(SubSeq(s, b + 1, p - 1)) = (p - 1) - b
         /\ SubSeq(s, b + 1, p) = Append(SubSeq(s, b + 1, p - 1), s[p])
<1> DEFINE u == SubSeq(s, b + 1, p - 1)  v == SubSeq(s, b + 1, p)
<1>1. /\ Len(s) \in Nat /\ p \in Nat /\ b \in Nat /\ b < p /\ p <= Len(s)
      /\ p - 1 \in b .. Len(s) /\ p \in b .. Len(s) /\ s[p] \in A
  BY LenProperties, ElementOfSeq
<1>2. u \in Seq(A) /\ Len(u) = (p - 1) - b /\ \A k \in 1 .. (p - 1) - b : u[k] = s[b + k]
  BY <1>1, PartFacts
<1>3. v \in Seq(A) /\ Len(v) = p - b /\ \A k \in 1 .. p - b : v[k] = s[b + k]
  BY <1>1, PartFacts
<1> HIDE DEF u, v
<1>4. /\ Append(u, s[p]) \in Seq(A) /\ Len(Append(u, s[p])) = Len(u) + 1
      /\ \A k \in 1 .. Len(u) : Append(u, s[p])[k] = u[k]
      /\ Append(u, s[p])[Len(u) + 1] = s[p]
  BY <1>1, <1>2, AppendProperties
<1>5. \A k \in 1 .. Len(v) : v[k] = Append(u, s[p])[k]
  <2> SUFFICES ASSUME NEW k \in 1 .. Len(v) PROVE v[k] = Append(u, s[p])[k]
    OBVIOUS
  <2>1. CASE k <= Len(u)
    BY <1>1, <1>2, <1>3, <1>4, <2>1
  <2>2. CASE k = Len(u) + 1
    <3>1. k = p - b /\ b + k = p
      BY <1>1, <1>2, <2>2
    <3>2. v[k] = s[p] /\ Append(u, s[p])[k] = s[p]
      BY <1>3, <1>4, <2>2, <3>1
    <3>. QED
      BY <3>2
  <2>. QED
    BY <1>1, <1>2, <1>3, <2>1, <2>2
<1>6. Len(v) = Len(Append(u, s[p]))
  BY <1>1, <1>2, <1>3, <1>4
<1>7. v = Append(u, s[p])
  BY <1>3, <1>4, <1>5, <1>6, SeqEqual
<1>. QED
  BY <1>2, <1>7 DEF u, v

LEMMA NoLongNext ==
  ASSUME NEW s, NEW p \in Nat \ {0}, NoLong(s, p - 1),
         s[p] = C!NL => \E b \in 0 .. p - 1 : C!Runs(s, b, p) /\ (p - 1) - b < LineMax
  PROVE  NoLong(s, p)
<1> SUFFICES ASSUME NEW e \in 1 .. p, s[e] = C!NL, NEW b \in 0 .. e - 1, C!Runs(s, b, e)
             PROVE  (e - 1) - b < LineMax
  BY DEF NoLong
<1>1. CASE e = p
  BY <1>1, OneStart
<1>2. CASE e # p
  <2>1. e \in 1 .. p - 1
    BY <1>2
  <2>. QED
    BY <2>1 DEF NoLong
<1>. QED
  BY <1>1, <1>2

\* A word is scanned.
LEMMA ScanKeeps ==
  ASSUME NEW t, NEW h, NEW c \in C!Client, cScript[c] \in Seq(CacheWord),
         NEW p \in 1 .. Len(cScript[c]), PassAt(t, h, c, p - 1)
  PROVE  PassAt(C!Scan(c, t, cScript[c][p]), h, c, p)
<1> DEFINE s == cScript[c]  e == C!Scan(c, t, s[p])
<1>0. p \in Nat \ {0} /\ Len(s) \in Nat /\ s[p] \in CacheWord /\ (p - 1) + 1 = p
  BY LenProperties, ElementOfSeq
<1>1. /\ t \in PassState /\ TableFits(t.db, t.handled) /\ C!LinesInOrder(t.handled)
      /\ \A q \in C!Client \ {c} : LineCount(t.handled, q) = LineCount(h, q)
  BY DEF PassAt
<1>2. CASE t.failed
  <2>1. e = t
    BY <1>2 DEF C!Scan
  <2>. QED
    BY <1>2, <2>1 DEF PassAt
<1>3. CASE ~t.failed
  <2>1. /\ LineCount(t.handled, c) = C!Cardinality(UpTo(s, p - 1))
        /\ NoLong(s, p - 1)
    BY <1>3 DEF PassAt
  <2>2. PICK b \in 0 .. p - 1 : C!Runs(s, b, p) /\ t.line = SubSeq(s, b + 1, p - 1)
    BY <1>0, <1>3 DEF PassAt, ReadyAt
  <2>3. Len(t.line) = (p - 1) - b /\ b \in Nat
    <3> HIDE DEF e
    <3>. QED
      BY <2>2, SubSeqGrows
  <2>4. CASE s[p] # C!NL
    <3>1. e = [t EXCEPT !.line = Append(@, s[p])]
      BY <1>3, <2>4 DEF C!Scan
    <3>2. /\ e \in PassState /\ e.db = t.db /\ e.handled = t.handled /\ ~e.failed
          /\ e.line = Append(t.line, s[p])
      <4>1. Append(t.line, s[p]) \in CacheLine
        BY <1>0, <1>1, AppendProperties DEF PassState, CacheLine
      <4>. QED
        BY <1>1, <1>3, <3>1, <4>1 DEF PassState
    <3> HIDE DEF e
    <3>3. e.line = SubSeq(s, b + 1, p)
      BY <2>2, <3>2, SubSeqGrows
    <3>4. C!Runs(s, b, p + 1)
      BY <1>0, <2>2, <2>4 DEF C!Runs
    <3>5. ReadyAt(s, e.line, p)
      <4>1. b \in 0 .. p
        BY <1>0, <2>2
      <4>. QED
        BY <3>3, <3>4, <4>1, ReadyIs
    <3>6. NoLong(s, p)
      BY <1>0, <2>1, <2>4, NoLongNext
    <3>7. LineCount(e.handled, c) = C!Cardinality(UpTo(s, p))
      BY <2>1, <2>4, <3>2, UpToFacts
    <3>10. PassAt(e, h, c, p)
      BY <1>1, <3>2, <3>5, <3>6, <3>7 DEF PassAt
    <3>. QED
      BY <3>10 DEF e
  <2>5. CASE s[p] = C!NL /\ Len(t.line) >= LineMax
    <3>1. e = [t EXCEPT !.failed = TRUE]
      BY <1>3, <2>5 DEF C!Scan
    <3>2. /\ e \in PassState /\ e.db = t.db /\ e.handled = t.handled /\ e.failed
      BY <1>1, <3>1 DEF PassState
    <3>3. p \in DOMAIN s /\ b \in 0 .. Len(s) /\ b < p /\ (p - 1) - b >= LineMax
      BY <1>0, <2>3, <2>5, LenProperties
    <3>4. C!Unservable(s)
      BY <2>2, <2>5, <3>3 DEF C!Unservable
    <3> HIDE DEF e
    <3>10. PassAt(e, h, c, p)
      BY <1>1, <3>2, <3>4 DEF PassAt
    <3>. QED
      BY <3>10 DEF e
  <2>6. CASE s[p] = C!NL /\ ~(Len(t.line) >= LineMax)
    <3> DEFINE r == [client |-> c, line |-> t.line, answer |-> C!Answer(t.db, t.line)]
    <3>1. e = [t EXCEPT !.db = C!AfterCommand(@, t.line), !.line = <<>>,
                        !.handled = Append(@, r)]
      BY <1>3, <2>6 DEF C!Scan
    <3>2. t.line \in CacheLine /\ t.handled \in Seq(HandledLine) /\ ~t.failed
      BY <1>1, <1>3 DEF PassState
    <3>3. r \in HandledLine /\ TableFits(C!AfterCommand(t.db, t.line), Append(t.handled, r))
      <4> HIDE DEF r
      <4>. QED
        BY <1>1, <3>2, HandleKeeps DEF r
    <3>4. r.client = c /\ r.line = t.line
      OBVIOUS
    <3> HIDE DEF r
    <3>5. /\ e.db = C!AfterCommand(t.db, t.line) /\ e.line = <<>>
          /\ e.handled = Append(t.handled, r) /\ ~e.failed
          /\ e \in PassState
      <4>1. C!AfterCommand(t.db, t.line) \in SlotTable
        BY <3>3 DEF TableFits
      <4>2. Append(t.handled, r) \in Seq(HandledLine) /\ <<>> \in CacheLine
        BY <3>2, <3>3, AppendProperties, EmptySeq DEF CacheLine
      <4>. QED
        BY <1>1, <3>1, <3>2, <4>1, <4>2 DEF PassState
    <3>6. C!LinesInOrder(e.handled) /\ LineCount(e.handled, c) = C!Cardinality(UpTo(s, p))
      BY <1>1, <2>1, <2>2, <2>6, <3>2, <3>3, <3>4, <3>5, NextInOrder
    <3>7. \A q \in C!Client \ {c} : LineCount(e.handled, q) = LineCount(t.handled, q)
      BY <3>2, <3>3, <3>4, <3>5, HandledFacts
    <3>8. ReadyAt(s, e.line, p)
      <4>1. C!Runs(s, p, p + 1)
        BY <1>0, <2>6 DEF C!Runs
      <4>2. SubSeq(s, p + 1, p) = <<>>
        BY <1>0, SubSeqEmpty
      <4>. QED
        BY <1>0, <3>5, <4>1, <4>2, p \in 0 .. p, ReadyIs
    <3>9. NoLong(s, p)
      <4>1. (p - 1) - b < LineMax
        BY <1>0, <2>3, <2>6, CacheAssumption
      <4>. QED
        BY <1>0, <2>1, <2>2, <4>1, NoLongNext
    <3> HIDE DEF e
    <3>10. PassAt(e, h, c, p)
      BY <1>1, <3>3, <3>5, <3>6, <3>7, <3>8, <3>9 DEF PassAt
    <3>. QED
      BY <3>10 DEF e
  <2>. QED
    BY <2>4, <2>5, <2>6
<1>. QED
  BY <1>2, <1>3

\* The recursion of After, as a condition on a function.
Passes(f, c, t, words, n) ==
  f = [k \in 0 .. n |-> IF k = 0 THEN t ELSE C!Scan(c, f[k - 1], words[k])]

\* Such a function exists, however long the pass is.
LEMMA PassExists ==
  ASSUME NEW c, NEW t, NEW words, NEW n \in Nat
  PROVE  \E f : Passes(f, c, t, words, n)
<1> DEFINE none == {k \in Nat : \A f : ~Passes(f, c, t, words, k)}
<1>1. SUFFICES ASSUME none # {} PROVE FALSE
  OBVIOUS
<1>2. PICK m \in none : \A l \in none : m <= l
  <2> HIDE DEF none
  <2>1. none \subseteq Nat
    BY DEF none
  <2>. QED
    BY <1>1, <2>1, Least
<1>3. m # 0
  <2> SUFFICES ASSUME m = 0 PROVE \E f : Passes(f, c, t, words, 0)
    OBVIOUS
  <2> DEFINE f == [k \in 0 .. 0 |-> t]
  <2>1. f = [k \in 0 .. 0 |-> IF k = 0 THEN t ELSE C!Scan(c, f[k - 1], words[k])]
    OBVIOUS
  <2>2. Passes(f, c, t, words, 0)
    BY <2>1 DEF Passes
  <2> HIDE DEF f
  <2>. QED
    BY <2>2
<1>4. m - 1 \in Nat /\ m \in Nat
  BY <1>3
<1>5. m - 1 \notin none
  <2> HIDE DEF none
  <2>. QED
    BY <1>2, <1>4
<1>6. PICK f : Passes(f, c, t, words, m - 1)
  BY <1>4, <1>5
<1> DEFINE g == [k \in 0 .. m |-> IF k < m THEN f[k] ELSE C!Scan(c, f[m - 1], words[m])]
<1>7. f = [k \in 0 .. m - 1 |-> IF k = 0 THEN t ELSE C!Scan(c, f[k - 1], words[k])]
  BY <1>6 DEF Passes
<1>8. \A k \in 0 .. m - 1 : f[k] = IF k = 0 THEN t ELSE C!Scan(c, f[k - 1], words[k])
  <2> QED
    BY ONLY <1>7, Zenon
<1>9. \A k \in 0 .. m : g[k] = IF k = 0 THEN t ELSE C!Scan(c, g[k - 1], words[k])
  <2> SUFFICES ASSUME NEW k \in 0 .. m
               PROVE  g[k] = IF k = 0 THEN t ELSE C!Scan(c, g[k - 1], words[k])
    OBVIOUS
  <2>1. CASE k = m
    BY <1>3, <1>4, <2>1
  <2>2. CASE k < m
    BY <1>4, <1>8, <2>2
  <2>. QED
    BY <1>4, <2>1, <2>2
<1>10. g = [k \in 0 .. m |-> IF k = 0 THEN t ELSE C!Scan(c, g[k - 1], words[k])]
  <2>1. g = [k \in 0 .. m |-> g[k]]
    OBVIOUS
  <2> HIDE DEF g
  <2>. QED
    BY <1>9, <2>1
<1>11. Passes(g, c, t, words, m)
  BY <1>10 DEF Passes
<1> HIDE DEF g
<1>. QED
  BY <1>2, <1>11

\* What After is at each word.
LEMMA AfterFacts ==
  ASSUME NEW c, NEW t, NEW words, Len(words) \in Nat
  PROVE  /\ C!After(c, t, words)[0] = t
         /\ \A k \in 1 .. Len(words) :
              C!After(c, t, words)[k] = C!Scan(c, C!After(c, t, words)[k - 1], words[k])
<1> DEFINE n == Len(words)  f == C!After(c, t, words)
<1>1. f = CHOOSE g : g = [k \in 0 .. n |-> IF k = 0 THEN t ELSE C!Scan(c, g[k - 1], words[k])]
  BY DEF C!After
<1>2. f = CHOOSE g : Passes(g, c, t, words, n)
  BY <1>1, Zenon DEF Passes
<1>3. Passes(f, c, t, words, n)
  <2> HIDE DEF f
  <2>. QED
    BY <1>2, PassExists, Zenon
<1>4. \A k \in 0 .. n : f[k] = IF k = 0 THEN t ELSE C!Scan(c, f[k - 1], words[k])
  <2> HIDE DEF f
  <2>1. f = [k \in 0 .. n |-> IF k = 0 THEN t ELSE C!Scan(c, f[k - 1], words[k])]
    BY <1>3 DEF Passes
  <2>. QED
    BY ONLY <2>1, Zenon
<1> HIDE DEF f
<1>5. 0 \in 0 .. n /\ \A k \in 1 .. n : k \in 0 .. n /\ k # 0
  OBVIOUS
<1>. QED
  BY <1>4, <1>5 DEF f

\* A pass over the words of a client from b to p.
LEMMA PassKeeps ==
  ASSUME NEW t, NEW h, NEW c \in C!Client, cScript[c] \in Seq(CacheWord),
         NEW p \in 0 .. Len(cScript[c]), NEW b \in 0 .. p, PassAt(t, h, c, b),
         NEW words, Len(words) = p - b,
         \A k \in 1 .. p - b : words[k] = cScript[c][b + k]
  PROVE  PassAt(C!Pass(c, t, words), h, c, p)
<1> DEFINE f == C!After(c, t, words)
           wrong == {k \in 0 .. p - b : ~PassAt(f[k], h, c, b + k)}
<1>0. p \in Nat /\ b \in Nat /\ p - b \in Nat /\ Len(cScript[c]) \in Nat
  BY LenProperties
<1>1. f[0] = t /\ \A k \in 1 .. p - b : f[k] = C!Scan(c, f[k - 1], words[k])
  BY <1>0, AfterFacts
<1> HIDE DEF f
<1>2. wrong = {}
  <2>1. SUFFICES ASSUME wrong # {} PROVE FALSE
    OBVIOUS
  <2>2. PICK m \in wrong : \A l \in wrong : m <= l
    <3> HIDE DEF wrong
    <3>1. wrong \subseteq Nat
      BY <1>0 DEF wrong
    <3>. QED
      BY <2>1, <3>1, Least
  <2>3. m # 0
    BY <1>0, <1>1
  <2>4. m \in 1 .. p - b /\ m - 1 \in 0 .. p - b /\ m - 1 \notin wrong
    <3>1. m \in 0 .. p - b
      OBVIOUS
    <3> HIDE DEF wrong
    <3>. QED
      BY <1>0, <2>2, <2>3, <3>1
  <2>5. PassAt(f[m - 1], h, c, b + (m - 1))
    BY <2>4
  <2>6. b + (m - 1) = (b + m) - 1 /\ b + m \in 1 .. Len(cScript[c])
    BY <1>0, <2>4
  <2>7. PassAt(C!Scan(c, f[m - 1], cScript[c][b + m]), h, c, b + m)
    BY <2>5, <2>6, ScanKeeps
  <2>. QED
    BY <1>1, <2>4, <2>7
<1>3. p - b \in 0 .. p - b /\ b + (p - b) = p
  BY <1>0
<1>4. PassAt(f[p - b], h, c, p)
  BY <1>2, <1>3
<1>. QED
  BY <1>4 DEF C!Pass, f

\* Multiples are R apart.
LEMMA MultipleIs ==
  ASSUME NEW R \in Nat \ {0}, NEW r \in Nat, r % R = 0
  PROVE  r = R * (r \div R) /\ r \div R \in Nat
OBVIOUS

LEMMA IsMultiple == ASSUME NEW R \in Nat \ {0}, NEW q \in Nat PROVE (R * q) % R = 0
OBVIOUS

LEMMA MultiplesApart ==
  ASSUME NEW R \in Nat \ {0}, NEW p \in Nat, NEW q \in Nat, R * p <= R * q, R * q < R * p + R
  PROVE  p = q
OBVIOUS

LEMMA NextMultiple ==
  ASSUME NEW R \in Nat \ {0}, NEW r \in Nat, r % R = 0
  PROVE  /\ (r + R) % R = 0
         /\ \A j \in r .. r + R - 1 : j % R = 0 => j = r
<1>1. PICK q \in Nat : r = R * q
  BY MultipleIs
<1>2. r + R = R * (q + 1)
  BY <1>1
<1>3. (R * (q + 1)) % R = 0
  BY IsMultiple
<1>4. ASSUME NEW j \in r .. r + R - 1, j % R = 0 PROVE j = r
  <2>1. PICK p \in Nat : j = R * p
    <3>1. j \in Nat /\ j % R = 0
      BY <1>4
    <3>2. j = R * (j \div R) /\ j \div R \in Nat
      BY <3>1, MultipleIs
    <3>. QED
      BY <3>2
  <2>2. R * q <= R * p /\ R * p < R * q + R
    BY <1>1, <1>4, <2>1
  <2>3. q = p
    BY <2>2, MultiplesApart
  <2>. QED
    BY <1>1, <2>1, <2>3
<1>. QED
  BY <1>2, <1>3, <1>4

\* The rest behind n more elements.
LEMMA RestFacts ==
  ASSUME NEW A, NEW s \in Seq(A), NEW r \in 0 .. Len(s),
         NEW u, u = SubSeq(s, r + 1, Len(s)), NEW n \in 0 .. Len(s) - r
  PROVE  /\ u \in Seq(A) /\ Len(u) = Len(s) - r
         /\ SubSeq(u, n + 1, Len(u)) = SubSeq(s, (r + n) + 1, Len(s))
         /\ \A k \in 1 .. n : SubSeq(u, 1, n)[k] = s[r + k]
         /\ SubSeq(u, 1, n) \in Seq(A) /\ Len(SubSeq(u, 1, n)) = n
<1>0. Len(s) \in Nat /\ r \in Nat /\ n \in Nat /\ r + n \in Nat /\ r + n <= Len(s) /\ 0 \in Nat
  BY LenProperties
<1>1. u \in Seq(A) /\ Len(u) = Len(s) - r /\ \A k \in 1 .. Len(s) - r : u[k] = s[r + k]
  <2>1. Len(s) \in r .. Len(s)
    BY <1>0
  <2>. QED
    BY <1>0, <2>1, PartFacts
<1>2. /\ SubSeq(u, 0 + 1, n) \in Seq(A) /\ Len(SubSeq(u, 0 + 1, n)) = n - 0
      /\ \A k \in 1 .. n - 0 : SubSeq(u, 0 + 1, n)[k] = u[0 + k]
  <2>1. n \in 0 .. Len(u)
    BY <1>0, <1>1
  <2>. QED
    BY <1>0, <1>1, <2>1, PartFacts
<1>3. /\ 0 + 1 = 1 /\ n - 0 = n /\ \A k \in 1 .. n : 0 + k = k /\ k \in 1 .. Len(s) - r
  BY <1>0
<1>4. /\ SubSeq(u, 1, n) \in Seq(A) /\ Len(SubSeq(u, 1, n)) = n
      /\ \A k \in 1 .. n : SubSeq(u, 1, n)[k] = s[r + k]
  BY <1>1, <1>2, <1>3
<1> DEFINE v == SubSeq(u, n + 1, Len(u))  w == SubSeq(s, (r + n) + 1, Len(s))
<1>5. v \in Seq(A) /\ Len(v) = Len(u) - n /\ \A k \in 1 .. Len(u) - n : v[k] = u[n + k]
  <2>1. Len(u) \in n .. Len(u)
    BY <1>0, <1>1
  <2>. QED
    BY <1>0, <1>1, <2>1, PartFacts
<1>6. w \in Seq(A) /\ Len(w) = Len(s) - (r + n) /\ \A k \in 1 .. Len(s) - (r + n) : w[k] = s[(r + n) + k]
  <2>1. Len(s) \in (r + n) .. Len(s)
    BY <1>0
  <2>. QED
    BY <1>0, <2>1, PartFacts
<1> HIDE DEF v, w
<1>7. Len(v) = Len(w) /\ Len(v) = Len(s) - (r + n)
  BY <1>0, <1>1, <1>5, <1>6
<1>8. ASSUME NEW k \in 1 .. Len(v) PROVE v[k] = w[k]
  <2>1. /\ k \in 1 .. Len(u) - n /\ k \in 1 .. Len(s) - (r + n)
        /\ n + k \in 1 .. Len(s) - r /\ r + (n + k) = (r + n) + k
    BY ONLY <1>0, <1>1, <1>7, k \in 1 .. Len(v)
  <2>2. v[k] = u[n + k] /\ w[k] = s[(r + n) + k]
    BY <1>5, <1>6, <2>1
  <2>3. u[n + k] = s[r + (n + k)]
    BY <1>1, <2>1
  <2>. QED
    BY <2>1, <2>2, <2>3
<1>9. v = w
  BY <1>5, <1>6, <1>7, <1>8, SeqEqual
<1>. QED
  BY <1>1, <1>4, <1>9 DEF v, w

-----------------------------------------------------------------------------

\* No read up to r found too much of a line before it.
NoFlood(s, r) ==
  \A e \in 1 .. r : (e - 1) % ReadMax = 0 =>
    \A b \in 0 .. e - 1 : C!Runs(s, b, e) =>
      (e - 1) - b + C!Shorter(ReadMax, Len(s) - (e - 1)) < BufMax

\* The loop has read s up to r: what waits, what is no line yet, how many were handled.
ReadUpTo(s, rest, line, n, r) ==
  /\ rest = SubSeq(s, r + 1, Len(s))
  /\ ReadyAt(s, line, r)
  /\ n = C!Cardinality(UpTo(s, r))
  /\ NoLong(s, r) /\ NoFlood(s, r)
  /\ r % ReadMax = 0 \/ r = Len(s)

ServedAt(c) ==
  \E r \in 0 .. Len(cScript[c]) :
    /\ ReadUpTo(cScript[c], cUnread[c], cInbuf[c], LineCount(cHandled, c), r)
    /\ c \notin cOpen => r = Len(cScript[c])

CacheTypeInv ==
  /\ cScript \in [C!Client -> Streams]
  /\ DOMAIN cUnread = C!Client /\ cUnread = [c \in C!Client |-> cUnread[c]]
  /\ cInbuf = [c \in C!Client |-> cInbuf[c]]
  /\ cHandled \in Seq(HandledLine)
  /\ cExit \in {"running", "ok", "failure"}

CacheInv ==
  /\ CacheTypeInv
  /\ TableFits(cDb, cHandled) /\ C!LinesInOrder(cHandled)
  /\ cExit # "failure" => \A c \in C!Client : ServedAt(c)
  /\ cExit = "ok" => cOpen \cap C!Client = {}
  /\ cExit = "failure" => \E c \in C!Client : C!Unservable(cScript[c])

LEMMA StreamIsSeq == ASSUME NEW s \in Streams PROVE s \in Seq(CacheWord)
<1>1. s \in Seq({s[k] : k \in DOMAIN s})
  BY CacheAssumption
<1>2. {s[k] : k \in DOMAIN s} \subseteq CacheWord
  BY DEF CacheWord
<1>. QED
  BY <1>1, <1>2, SeqMonotonic

LEMMA NothingRead ==
  ASSUME NEW s \in Seq(CacheWord)
  PROVE  ReadUpTo(s, s, <<>>, 0, 0)
<1>1. s = SubSeq(s, 0 + 1, Len(s))
  <2>1. s = SubSeq(s, 1, Len(s)) /\ 0 + 1 = 1
    BY SubSeqFull
  <2>. QED
    BY <2>1
<1>2. ReadyAt(s, <<>>, 0)
  <2>1. SubSeq(s, 0 + 1, 0) = <<>>
    BY SubSeqEmpty
  <2>2. C!Runs(s, 0, 0 + 1)
    BY DEF C!Runs
  <2>. QED
    BY <2>1, <2>2, 0 \in 0 .. 0, ReadyIs
<1>3. 0 = C!Cardinality(UpTo(s, 0))
  <2>1. UpTo(s, 0) = {}
    BY LenProperties DEF UpTo, C!Newlines
  <2>. QED
    BY <2>1, FS_EmptySet, SameCardinal
<1>4. NoLong(s, 0) /\ NoFlood(s, 0)
  BY DEF NoLong, NoFlood
<1>5. 0 % ReadMax = 0
  BY CacheAssumption
<1>. QED
  BY <1>1, <1>2, <1>3, <1>4, <1>5 DEF ReadUpTo

LEMMA CacheStart == C!Init => CacheInv
<1> SUFFICES ASSUME C!Init PROVE CacheInv
  OBVIOUS
<1>1. /\ cDb = [j \in C!Slot |-> C!Unused] /\ cHandled = <<>> /\ cExit = "running"
      /\ cScript \in [C!Client -> Streams] /\ cUnread = cScript
      /\ cInbuf = [c \in C!Client |-> <<>>] /\ cOpen = C!Client
  BY DEF C!Init
<1>2. CacheTypeInv
  BY <1>1, EmptySeq DEF CacheTypeInv
<1>3. TableFits(cDb, cHandled)
  <2>1. cDb \in SlotTable
    BY <1>1 DEF SlotTable
  <2>2. UsedSlots(cDb) = {}
    BY <1>1 DEF UsedSlots, C!Unused
  <2>3. OneEntry(cDb) /\ Pairs(cDb) = {}
    BY <2>2 DEF OneEntry, Pairs
  <2>4. Len(cHandled) = 0 /\ DOMAIN cHandled = {}
    BY <1>1, EmptySeq
  <2>5. C!StoreAfter(cHandled, Len(cHandled)) = {}
    BY <2>4 DEF C!StoreAfter
  <2>6. C!AnswersFitMap(cHandled)
    BY <2>4 DEF C!AnswersFitMap
  <2>. QED
    BY <2>1, <2>3, <2>5, <2>6 DEF TableFits
<1>4. C!LinesInOrder(cHandled)
  BY <1>1 DEF C!LinesInOrder
<1>5. ASSUME NEW c \in C!Client PROVE ServedAt(c)
  <2>1. cScript[c] \in Seq(CacheWord)
    BY <1>1, StreamIsSeq
  <2>2. LineCount(cHandled, c) = 0
    <3>1. Len(cHandled) = 0
      BY <1>1, EmptySeq
    <3>2. C!HandledOf(cHandled, c, Len(cHandled)) = {}
      BY <3>1 DEF C!HandledOf
    <3>. QED
      BY <3>2, FS_EmptySet, SameCardinal DEF LineCount
  <2>3. ReadUpTo(cScript[c], cUnread[c], cInbuf[c], LineCount(cHandled, c), 0)
    BY <1>1, <2>1, <2>2, NothingRead
  <2>4. 0 \in 0 .. Len(cScript[c])
    BY <2>1, LenProperties
  <2>. QED
    BY <1>1, <2>3, <2>4 DEF ServedAt
<1>. QED
  BY <1>1, <1>2, <1>3, <1>4, <1>5 DEF CacheInv

LEMMA ShorterFacts ==
  ASSUME NEW m \in Nat
  PROVE  /\ C!Shorter(ReadMax, m) \in 0 .. m /\ C!Shorter(ReadMax, m) <= ReadMax
         /\ C!Shorter(ReadMax, m) = 0 => m = 0
         /\ C!Shorter(ReadMax, m) # m => C!Shorter(ReadMax, m) = ReadMax
BY CacheAssumption DEF C!Shorter

\* A part of a line, from b to r.
PartOf(s, line, b, r) ==
  /\ C!Runs(s, b, r + 1) /\ line = SubSeq(s, b + 1, r)
  /\ line \in Seq(CacheWord) /\ Len(line) = r - b
  /\ \A k \in 1 .. r - b : line[k] = s[b + k]

\* The state of a client before a read that finds something.
LEMMA BeforeRead ==
  ASSUME NEW s \in Seq(CacheWord), NEW rest, NEW line, NEW n, NEW r \in 0 .. Len(s),
         ReadUpTo(s, rest, line, n, r)
  PROVE  /\ rest \in Seq(CacheWord) /\ Len(rest) = Len(s) - r /\ Len(rest) \in Nat
         /\ Len(rest) # 0 => r % ReadMax = 0 /\ r < Len(s)
         /\ \E b \in 0 .. r : PartOf(s, line, b, r)
<1>0. Len(s) \in Nat /\ r \in Nat /\ 0 \in 0 .. Len(s) - r
  BY LenProperties
<1>1. rest \in Seq(CacheWord) /\ Len(rest) = Len(s) - r
  BY <1>0, RestFacts DEF ReadUpTo
<1>2. Len(rest) # 0 => r % ReadMax = 0 /\ r < Len(s)
  BY <1>0, <1>1 DEF ReadUpTo
<1>3. PICK b \in 0 .. r : C!Runs(s, b, r + 1) /\ line = SubSeq(s, b + 1, r)
  BY DEF ReadUpTo, ReadyAt
<1>4. /\ line \in Seq(CacheWord) /\ Len(line) = r - b
      /\ \A k \in 1 .. r - b : line[k] = s[b + k]
  <2>1. b \in Nat /\ r \in b .. Len(s)
    BY <1>0
  <2>. QED
    BY <1>3, <2>1, PartFacts
<1>5. PartOf(s, line, b, r)
  BY <1>3, <1>4 DEF PartOf
<1>6. Len(rest) \in Nat
  BY <1>1, LenProperties
<1>. QED
  BY <1>1, <1>2, <1>5, <1>6

\* A read that does not fit.
LEMMA TooMuchFound ==
  ASSUME NEW s \in Seq(CacheWord), NEW rest, NEW line, NEW n, NEW r \in 0 .. Len(s),
         ReadUpTo(s, rest, line, n, r), C!Shorter(ReadMax, Len(rest)) > 0,
         Len(line) + C!Shorter(ReadMax, Len(rest)) >= BufMax
  PROVE  C!Unservable(s)
<1>0. Len(s) \in Nat /\ r \in Nat /\ DOMAIN s = 1 .. Len(s) /\ ReadMax \in Nat \ {0}
  BY LenProperties, CacheAssumption
<1>1. Len(rest) = Len(s) - r /\ (Len(rest) # 0 => r % ReadMax = 0 /\ r < Len(s))
  BY BeforeRead
<1>2. PICK b \in 0 .. r : C!Runs(s, b, r + 1) /\ Len(line) = r - b
  <2>1. \E b \in 0 .. r : PartOf(s, line, b, r)
    BY BeforeRead
  <2>. QED
    BY <2>1 DEF PartOf
<1>3. Len(rest) # 0 /\ Len(rest) \in Nat
  <2>1. Len(rest) \in Nat
    BY BeforeRead
  <2>2. C!Shorter(ReadMax, Len(rest)) \in 0 .. Len(rest)
    BY <2>1, ShorterFacts
  <2>. QED
    BY <2>1, <2>2
<1>4. r + 1 \in DOMAIN s /\ b \in 0 .. Len(s) /\ b < r + 1 /\ (r + 1) - 1 = r
  <2>1. r < Len(s)
    BY <1>1, <1>3
  <2>. QED
    BY <1>0, <2>1
<1>5. /\ ((r + 1) - 1) % ReadMax = 0
      /\ ((r + 1) - 1) - b + C!Shorter(ReadMax, Len(s) - ((r + 1) - 1)) >= BufMax
  BY <1>1, <1>2, <1>3, <1>4
<1>. QED
  BY <1>2, <1>4, <1>5 DEF C!Unservable

\* A read that fits finds no flood.
LEMMA NoFloodNext ==
  ASSUME NEW s \in Seq(CacheWord), NEW rest, NEW line, NEW n, NEW r \in 0 .. Len(s),
         ReadUpTo(s, rest, line, n, r),
         NEW m, m = C!Shorter(ReadMax, Len(rest)), m > 0, Len(line) + m < BufMax
  PROVE  /\ r + m \in 0 .. Len(s) /\ NoFlood(s, r + m)
         /\ (r + m) % ReadMax = 0 \/ r + m = Len(s)
<1>0. Len(s) \in Nat /\ r \in Nat /\ ReadMax \in Nat \ {0} /\ BufMax \in Nat
  BY LenProperties, CacheAssumption
<1>1. Len(rest) = Len(s) - r /\ (Len(rest) # 0 => r % ReadMax = 0 /\ r < Len(s))
  BY BeforeRead
<1>2. /\ m \in 0 .. Len(s) - r /\ m <= ReadMax /\ (m # Len(s) - r => m = ReadMax)
      /\ Len(rest) # 0
  <2>1. Len(rest) \in Nat
    BY BeforeRead
  <2>2. /\ m \in 0 .. Len(rest) /\ m <= ReadMax /\ (m = 0 => Len(rest) = 0)
        /\ m # Len(rest) => m = ReadMax
    BY <2>1, ShorterFacts
  <2>. QED
    BY <1>1, <2>1, <2>2
<1>3. /\ (r + ReadMax) % ReadMax = 0
      /\ \A j \in r .. r + ReadMax - 1 : j % ReadMax = 0 => j = r
  BY <1>0, <1>1, <1>2, NextMultiple
<1>4. r + m \in 0 .. Len(s)
  BY <1>0, <1>2
<1>5. (r + m) % ReadMax = 0 \/ r + m = Len(s)
  <2>1. CASE m = ReadMax
    BY <1>3, <2>1
  <2>2. CASE m = Len(s) - r
    BY <1>0, <2>2
  <2>. QED
    BY <1>2, <2>1, <2>2
<1>6. PICK b \in 0 .. r : C!Runs(s, b, r + 1) /\ Len(line) = r - b
  <2>1. \E b \in 0 .. r : PartOf(s, line, b, r)
    BY BeforeRead
  <2>. QED
    BY <2>1 DEF PartOf
<1>7. NoFlood(s, r + m)
  <2> SUFFICES ASSUME NEW e \in 1 .. r + m, (e - 1) % ReadMax = 0,
                      NEW a \in 0 .. e - 1, C!Runs(s, a, e)
               PROVE  (e - 1) - a + C!Shorter(ReadMax, Len(s) - (e - 1)) < BufMax
    BY DEF NoFlood
  <2>1. CASE e <= r
    <3>1. e \in 1 .. r
      BY <2>1, <1>0
    <3>. QED
      BY <3>1 DEF ReadUpTo, NoFlood
  <2>2. CASE e > r
    <3>1. e - 1 \in r .. r + ReadMax - 1
      BY <1>0, <1>2, <2>2
    <3>2. e - 1 = r /\ e = r + 1
      BY <1>3, <3>1
    <3>3. a = b
      <4>1. r + 1 \in Nat /\ a \in 0 .. (r + 1) - 1 /\ b \in 0 .. (r + 1) - 1
        BY <1>0, <3>2
      <4>. QED
        BY <1>6, <3>2, <4>1, OneStart
    <3>. QED
      BY <1>0, <1>1, <1>2, <1>6, <3>2, <3>3
  <2>. QED
    BY <1>0, <2>1, <2>2
<1>. QED
  BY <1>4, <1>5, <1>7

\* The part of a line holds no newline.
LEMMA UpToStart ==
  ASSUME NEW s \in Seq(CacheWord), NEW r \in 0 .. Len(s), NEW b \in 0 .. r,
         C!Runs(s, b, r + 1)
  PROVE  UpTo(s, r) = UpTo(s, b)
<1>1. Len(s) \in Nat /\ DOMAIN s = 1 .. Len(s)
  BY LenProperties
<1>2. \A j \in b + 1 .. r : s[j] # C!NL
  BY <1>1 DEF C!Runs
<1>3. ASSUME NEW j \in C!Newlines(s), j <= r PROVE j <= b
  <2>1. j \in 1 .. Len(s) /\ s[j] = C!NL
    BY <1>1 DEF C!Newlines
  <2>. QED
    BY <1>1, <1>2, <1>3, <2>1
<1>4. ASSUME NEW j \in C!Newlines(s), j <= b PROVE j <= r
  <2>1. j \in 1 .. Len(s)
    BY <1>1 DEF C!Newlines
  <2>. QED
    BY <1>1, <1>4, <2>1
<1>. QED
  BY <1>3, <1>4 DEF UpTo

\* A pass starts where the part of a line that was kept starts.
LEMMA PassStarts ==
  ASSUME CacheTypeInv, TableFits(cDb, cHandled), C!LinesInOrder(cHandled),
         NEW c \in C!Client, NEW r \in 0 .. Len(cScript[c]),
         ReadUpTo(cScript[c], cUnread[c], cInbuf[c], LineCount(cHandled, c), r),
         NEW b \in 0 .. r, C!Runs(cScript[c], b, r + 1)
  PROVE  PassAt([db |-> cDb, line |-> <<>>, handled |-> cHandled, failed |-> FALSE],
                cHandled, c, b)
<1> DEFINE s == cScript[c]
           t == [db |-> cDb, line |-> <<>>, handled |-> cHandled, failed |-> FALSE]
<1>0. s \in Seq(CacheWord)
  BY StreamIsSeq DEF CacheTypeInv
<1>1. Len(s) \in Nat /\ r \in Nat /\ b \in Nat
  BY <1>0, LenProperties
<1>2. t \in PassState
  BY EmptySeq DEF PassState, CacheLine, CacheTypeInv, TableFits
<1>3. /\ t.db = cDb /\ t.line = <<>> /\ t.handled = cHandled /\ t.failed = FALSE
  OBVIOUS
<1> HIDE DEF t
<1>4. LineCount(cHandled, c) = C!Cardinality(UpTo(s, b))
  BY <1>0, UpToStart DEF ReadUpTo
<1>5. ReadyAt(s, <<>>, b)
  <2>1. SubSeq(s, b + 1, b) = <<>>
    BY <1>1, SubSeqEmpty
  <2>2. C!Runs(s, b, b + 1)
    BY <1>1 DEF C!Runs
  <2>. QED
    BY <1>1, <2>1, <2>2, b \in 0 .. b, ReadyIs
<1>6. NoLong(s, b)
  BY <1>1 DEF NoLong, ReadUpTo
<1>7. PassAt(t, cHandled, c, b)
  BY <1>2, <1>3, <1>4, <1>5, <1>6 DEF PassAt
<1>. QED
  BY <1>7 DEF t

\* What the pass after a read has made of the cache and of the client's stream.
LEMMA ReadIsPassed ==
  ASSUME CacheTypeInv, TableFits(cDb, cHandled), C!LinesInOrder(cHandled),
         NEW c \in C!Client, NEW r \in 0 .. Len(cScript[c]),
         ReadUpTo(cScript[c], cUnread[c], cInbuf[c], LineCount(cHandled, c), r),
         NEW m, m = C!Shorter(ReadMax, Len(cUnread[c])), m > 0, Len(cInbuf[c]) + m < BufMax
  PROVE  /\ r + m \in 0 .. Len(cScript[c])
         /\ SubSeq(cUnread[c], m + 1, Len(cUnread[c]))
              = SubSeq(cScript[c], (r + m) + 1, Len(cScript[c]))
         /\ PassAt(C!Pass(c, [db |-> cDb, line |-> <<>>, handled |-> cHandled, failed |-> FALSE],
                          cInbuf[c] \o SubSeq(cUnread[c], 1, m)),
                   cHandled, c, r + m)
<1> DEFINE s == cScript[c]  rest == cUnread[c]  line == cInbuf[c]
           t == [db |-> cDb, line |-> <<>>, handled |-> cHandled, failed |-> FALSE]
           words == line \o SubSeq(rest, 1, m)
<1>0. s \in Seq(CacheWord)
  BY StreamIsSeq DEF CacheTypeInv
<1>1. /\ rest \in Seq(CacheWord) /\ Len(rest) = Len(s) - r /\ Len(rest) \in Nat
  <2> DEFINE n == LineCount(cHandled, c)
  <2>1. ReadUpTo(s, rest, line, n, r) /\ r \in 0 .. Len(s)
    OBVIOUS
  <2> HIDE DEF s, rest, line, n
  <2>. QED
    BY ONLY <1>0, <2>1, BeforeRead
<1>2. PICK b \in 0 .. r : PartOf(s, line, b, r)
  <2> DEFINE n == LineCount(cHandled, c)
  <2>1. ReadUpTo(s, rest, line, n, r) /\ r \in 0 .. Len(s)
    OBVIOUS
  <2> HIDE DEF s, rest, line, n
  <2>. QED
    BY ONLY <1>0, <2>1, BeforeRead
<1>3. PassAt(t, cHandled, c, b)
  BY <1>2, PassStarts DEF PartOf
<1> HIDE DEF t
<1>4. Len(s) \in Nat /\ r \in Nat /\ b \in Nat /\ r - b \in Nat
  BY <1>0, LenProperties
<1>5. m \in 0 .. Len(s) - r /\ m \in Nat
  <2>1. m \in 0 .. Len(rest)
    BY <1>1, ShorterFacts
  <2>. QED
    BY <1>1, <2>1
<1>6. /\ SubSeq(rest, m + 1, Len(rest)) = SubSeq(s, (r + m) + 1, Len(s))
      /\ \A k \in 1 .. m : SubSeq(rest, 1, m)[k] = s[r + k]
      /\ SubSeq(rest, 1, m) \in Seq(CacheWord) /\ Len(SubSeq(rest, 1, m)) = m
  <2>1. rest = SubSeq(s, r + 1, Len(s)) /\ r \in 0 .. Len(s)
    BY DEF ReadUpTo
  <2> HIDE DEF s, rest
  <2>. QED
    BY ONLY <1>0, <1>5, <2>1, RestFacts
<1>7. r + m \in 0 .. Len(s) /\ b \in 0 .. r + m
  BY <1>4, <1>5
<1>8. /\ line \in Seq(CacheWord) /\ Len(line) = r - b
      /\ \A k \in 1 .. r - b : line[k] = s[b + k]
  BY <1>2 DEF PartOf
<1>9. Len(words) = (r + m) - b /\ \A k \in 1 .. (r + m) - b : words[k] = s[b + k]
  <2> DEFINE u == SubSeq(rest, 1, m)
  <2> HIDE DEF u, line
  <2>1. /\ Len(line \o u) = Len(line) + Len(u)
        /\ \A k \in 1 .. Len(line) + Len(u) :
             (line \o u)[k] = IF k <= Len(line) THEN line[k] ELSE u[k - Len(line)]
    <3>1. u \in Seq(CacheWord) /\ line \in Seq(CacheWord)
      BY <1>6, <1>8 DEF u
    <3>. QED
      BY ONLY <3>1, ConcatProperties
  <2>2. Len(u) = m /\ Len(line) + Len(u) = (r + m) - b
    BY <1>4, <1>5, <1>6, <1>8 DEF u
  <2>3. ASSUME NEW k \in 1 .. (r + m) - b PROVE (line \o u)[k] = s[b + k]
    <3>1. (line \o u)[k] = IF k <= r - b THEN line[k] ELSE u[k - (r - b)]
      BY <1>8, <2>1, <2>2
    <3>2. CASE k <= r - b
      <4>1. k \in 1 .. r - b
        BY <1>4, <3>2
      <4>. QED
        BY <1>8, <3>1, <3>2, <4>1
    <3>3. CASE ~(k <= r - b)
      <4>1. k - (r - b) \in 1 .. m /\ r + (k - (r - b)) = b + k
        BY <1>4, <1>5, <3>3
      <4>2. u[k - (r - b)] = s[r + (k - (r - b))]
        BY <1>6, <4>1 DEF u
      <4>. QED
        BY <3>1, <3>3, <4>1, <4>2
    <3>. QED
      BY <3>2, <3>3
  <2>. QED
    BY <2>1, <2>2, <2>3 DEF u, line
<1>10. PassAt(C!Pass(c, t, words), cHandled, c, r + m)
  <2> HIDE DEF words
  <2>. QED
    BY <1>0, <1>3, <1>7, <1>9, PassKeeps
<1>. QED
  BY <1>6, <1>7, <1>10 DEF t

LEMMA CacheFeeds ==
  ASSUME CacheInv, cExit = "running", NEW c \in C!Client, c \in cOpen,
         NEW m, m = C!Shorter(ReadMax, Len(cUnread[c])), m > 0, Len(cInbuf[c]) + m < BufMax,
         C!Feed(c, m), cScript' = cScript
  PROVE  CacheInv'
<1> DEFINE t == [db |-> cDb, line |-> <<>>, handled |-> cHandled, failed |-> FALSE]
           e == C!Pass(c, t, cInbuf[c] \o SubSeq(cUnread[c], 1, m))
<1>1. /\ cUnread' = [cUnread EXCEPT ![c] = SubSeq(@, m + 1, Len(@))]
      /\ cInbuf' = [cInbuf EXCEPT ![c] = e.line]
      /\ cDb' = e.db /\ cHandled' = e.handled
      /\ cExit' = IF e.failed THEN "failure" ELSE cExit
      /\ cOpen' = cOpen
  BY DEF C!Feed
<1>2. CacheTypeInv /\ TableFits(cDb, cHandled) /\ C!LinesInOrder(cHandled)
  BY DEF CacheInv
<1>3. \A q \in C!Client : ServedAt(q)
  BY DEF CacheInv
<1>4. PICK r \in 0 .. Len(cScript[c]) :
        ReadUpTo(cScript[c], cUnread[c], cInbuf[c], LineCount(cHandled, c), r)
  BY <1>3 DEF ServedAt
<1>5. /\ r + m \in 0 .. Len(cScript[c])
      /\ SubSeq(cUnread[c], m + 1, Len(cUnread[c]))
           = SubSeq(cScript[c], (r + m) + 1, Len(cScript[c]))
      /\ PassAt(e, cHandled, c, r + m)
  BY <1>2, <1>4, ReadIsPassed
<1>6. NoFlood(cScript[c], r + m) /\ ((r + m) % ReadMax = 0 \/ r + m = Len(cScript[c]))
  <2>1. cScript[c] \in Seq(CacheWord)
    BY <1>2, StreamIsSeq DEF CacheTypeInv
  <2>. QED
    BY <1>4, <2>1, NoFloodNext
<1> HIDE DEF e
<1>7. e \in PassState /\ TableFits(e.db, e.handled) /\ C!LinesInOrder(e.handled)
  BY <1>5 DEF PassAt
<1>8. CacheTypeInv'
  BY <1>1, <1>2, <1>7 DEF CacheTypeInv, PassState
<1>9. TableFits(cDb, cHandled)'
  BY <1>1, <1>7 DEF TableFits
<1>10. C!LinesInOrder(cHandled)'
  BY <1>1, <1>7 DEF C!LinesInOrder
<1>11. ASSUME cExit' # "failure", NEW q \in C!Client PROVE ServedAt(q)'
  <2>1. ~e.failed
    BY <1>1, <1>11
  <2>2. CASE q = c
    <3>1. /\ cUnread'[c] = SubSeq(cScript[c], (r + m) + 1, Len(cScript[c]))
          /\ cInbuf'[c] = e.line
      BY <1>1, <1>2, <1>5 DEF CacheTypeInv
    <3>2. ReadUpTo(cScript[c], cUnread'[c], cInbuf'[c], LineCount(e.handled, c), r + m)
      BY <1>5, <1>6, <2>1, <3>1 DEF PassAt, ReadUpTo
    <3>. QED
      BY <1>1, <1>5, <2>2, <3>2 DEF ServedAt
  <2>3. CASE q # c
    <3>1. cUnread'[q] = cUnread[q] /\ cInbuf'[q] = cInbuf[q]
      BY <1>1, <1>2, <2>3 DEF CacheTypeInv
    <3>2. LineCount(e.handled, q) = LineCount(cHandled, q)
      BY <1>5, <2>3 DEF PassAt
    <3>. QED
      BY <1>1, <1>3, <3>1, <3>2 DEF ServedAt
  <2>. QED
    BY <2>2, <2>3
<1>12. ASSUME cExit' = "failure" PROVE \E q \in C!Client : C!Unservable(cScript[q])
  BY <1>1, <1>5, <1>12 DEF PassAt
<1>13. cExit' # "ok"
  BY <1>1
<1>. QED
  BY <1>8, <1>9, <1>10, <1>11, <1>12, <1>13 DEF CacheInv

\* What a step that leaves the table and the connections alone leaves true.
LEMMA CacheQuiet ==
  ASSUME CacheInv, cExit' \in {"running", "ok", "failure"},
         UNCHANGED <<cDb, cScript, cUnread, cInbuf, cHandled>>
  PROVE  /\ CacheTypeInv' /\ TableFits(cDb, cHandled)' /\ C!LinesInOrder(cHandled)'
         /\ \A c \in C!Client : (c \in cOpen' <=> c \in cOpen) /\ ServedAt(c) => ServedAt(c)'
<1>1. CacheTypeInv /\ TableFits(cDb, cHandled) /\ C!LinesInOrder(cHandled)
  BY DEF CacheInv
<1>2. CacheTypeInv'
  BY <1>1 DEF CacheTypeInv
<1>3. TableFits(cDb, cHandled)'
  BY <1>1 DEF TableFits
<1>4. C!LinesInOrder(cHandled)'
  BY <1>1 DEF C!LinesInOrder
<1>5. ASSUME NEW c \in C!Client, c \in cOpen' <=> c \in cOpen, ServedAt(c) PROVE ServedAt(c)'
  <2>1. LineCount(cHandled, c)' = LineCount(cHandled, c)
    BY DEF LineCount
  <2>. QED
    BY <1>5, <2>1 DEF ServedAt
<1>. QED
  BY <1>2, <1>3, <1>4, <1>5

\* Nor does one that changes nothing.
LEMMA CacheStutters ==
  ASSUME CacheInv, UNCHANGED <<cDb, cScript, cUnread, cInbuf, cOpen, cHandled, cExit>>
  PROVE  CacheInv'
<1>1. cExit' \in {"running", "ok", "failure"}
  BY DEF CacheInv, CacheTypeInv
<1>2. /\ CacheTypeInv' /\ TableFits(cDb, cHandled)' /\ C!LinesInOrder(cHandled)'
      /\ \A c \in C!Client : ServedAt(c) => ServedAt(c)'
  BY <1>1, CacheQuiet
<1>3. /\ cExit # "failure" => \A c \in C!Client : ServedAt(c)
      /\ cExit = "failure" => \E c \in C!Client : C!Unservable(cScript[c])
      /\ cExit = "ok" => cOpen \cap C!Client = {}
  BY DEF CacheInv
<1>. QED
  BY <1>2, <1>3 DEF CacheInv

LEMMA CacheStep == CacheInv /\ C!Next => CacheInv'
<1> SUFFICES ASSUME CacheInv, C!Next PROVE CacheInv'
  OBVIOUS
<1>0. CacheTypeInv
  BY DEF CacheInv
<1>1. CASE C!Leave
  <2>1. /\ cExit = "running" /\ cOpen = {} /\ cExit' = "ok"
        /\ UNCHANGED <<cDb, cScript, cUnread, cInbuf, cOpen, cHandled>>
    BY <1>1 DEF C!Leave
  <2>2. /\ CacheTypeInv' /\ TableFits(cDb, cHandled)' /\ C!LinesInOrder(cHandled)'
        /\ \A q \in C!Client : ServedAt(q) => ServedAt(q)'
    BY <2>1, CacheQuiet
  <2>3. ASSUME NEW q \in C!Client PROVE ServedAt(q)'
    BY <2>1, <2>2 DEF CacheInv
  <2>. QED
    BY <2>1, <2>2, <2>3 DEF CacheInv
<1>2. CASE C!Ended
  <2>1. UNCHANGED <<cDb, cScript, cUnread, cInbuf, cOpen, cHandled, cExit>>
    BY <1>2 DEF C!Ended, C!vars
  <2>. QED
    BY <2>1, CacheStutters
<1>3. ASSUME NEW c \in C!Client, C!Serve(c) PROVE CacheInv'
  <2> DEFINE m == C!Shorter(ReadMax, Len(cUnread[c]))
  <2>0. cScript[c] \in Seq(CacheWord)
    BY <1>0, StreamIsSeq DEF CacheTypeInv
  <2>1. cExit = "running" /\ cScript' = cScript /\ ServedAt(c)
    BY <1>3 DEF C!Serve, CacheInv
  <2>2. PICK r \in 0 .. Len(cScript[c]) :
          /\ ReadUpTo(cScript[c], cUnread[c], cInbuf[c], LineCount(cHandled, c), r)
          /\ c \notin cOpen => r = Len(cScript[c])
    BY <2>1 DEF ServedAt
  <2>3. CASE c \notin cOpen /\ UNCHANGED <<cDb, cUnread, cInbuf, cOpen, cExit, cHandled>>
    BY <2>1, <2>3, CacheStutters
  <2>4. CASE m = 0 /\ C!CloseEnd(c)
    <3>1. /\ cOpen' = cOpen \ {c}
          /\ UNCHANGED <<cDb, cScript, cUnread, cInbuf, cExit, cHandled>>
      BY <2>1, <2>4 DEF C!CloseEnd
    <3>2. r = Len(cScript[c])
      <4>1. Len(cUnread[c]) = Len(cScript[c]) - r /\ Len(cUnread[c]) \in Nat
        <5> DEFINE s == cScript[c]  rest == cUnread[c]  line == cInbuf[c]
                   n == LineCount(cHandled, c)
        <5>1. s \in Seq(CacheWord) /\ ReadUpTo(s, rest, line, n, r) /\ r \in 0 .. Len(s)
          BY <2>0, <2>2
        <5> HIDE DEF s, rest, line, n
        <5>2. Len(rest) = Len(s) - r /\ Len(rest) \in Nat
          BY ONLY <5>1, BeforeRead
        <5>. QED
          BY <5>2 DEF s, rest
      <4>2. Len(cUnread[c]) = 0
        BY <2>4, <4>1, ShorterFacts
      <4>. QED
        BY <2>0, <4>1, <4>2, LenProperties
    <3>4. /\ CacheTypeInv' /\ TableFits(cDb, cHandled)' /\ C!LinesInOrder(cHandled)'
          /\ \A q \in C!Client : (q \in cOpen' <=> q \in cOpen) /\ ServedAt(q) => ServedAt(q)'
      <4>1. cExit' \in {"running", "ok", "failure"}
        BY <2>1, <3>1
      <4>. QED
        BY <2>1, <3>1, <4>1, CacheQuiet
    <3>3. ASSUME NEW q \in C!Client PROVE ServedAt(q)'
      <4>1. CASE q = c
        <5>1. LineCount(cHandled, c)' = LineCount(cHandled, c)
          BY <3>1 DEF LineCount
        <5>. QED
          BY <2>1, <2>2, <3>1, <3>2, <4>1, <5>1 DEF ServedAt
      <4>2. CASE q # c
        BY <2>1, <3>1, <3>4, <4>2 DEF CacheInv
      <4>. QED
        BY <4>1, <4>2
    <3>. QED
      BY <2>1, <3>1, <3>3, <3>4 DEF CacheInv
  <2>5. CASE m > 0 /\ Len(cInbuf[c]) + m >= BufMax /\ C!TooMuch
    <3>1. cExit' = "failure" /\ UNCHANGED <<cDb, cScript, cUnread, cInbuf, cOpen, cHandled>>
      BY <2>1, <2>5 DEF C!TooMuch
    <3>2. C!Unservable(cScript[c])
      BY <2>0, <2>2, <2>5, TooMuchFound
    <3>3. CacheTypeInv' /\ TableFits(cDb, cHandled)' /\ C!LinesInOrder(cHandled)'
      BY <3>1, CacheQuiet
    <3>. QED
      BY <3>1, <3>2, <3>3 DEF CacheInv
  <2>6. CASE c \in cOpen /\ m > 0 /\ Len(cInbuf[c]) + m < BufMax /\ C!Feed(c, m)
    <3> HIDE DEF m
    <3>. QED
      BY <2>1, <2>6, CacheFeeds DEF m
  <2>. QED
    BY <1>3, <2>3, <2>4, <2>5, <2>6 DEF C!Serve
<1>. QED
  BY <1>1, <1>2, <1>3 DEF C!Next

\* What the invariant says of the clients' answers.
LEMMA CacheAnswers == CacheInv => C!AnswersInOrder
<1> SUFFICES ASSUME CacheInv PROVE C!AnswersInOrder
  OBVIOUS
<1>1. C!LinesInOrder(cHandled) /\ C!AnswersFitMap(cHandled) /\ CacheTypeInv
  BY DEF CacheInv, TableFits
<1>2. ASSUME cExit = "ok", NEW c \in C!Client
      PROVE  /\ LineCount(cHandled, c) = C!Cardinality(C!Newlines(cScript[c]))
             /\ ~C!Unservable(cScript[c])
  <2> DEFINE s == cScript[c]  r == Len(s)
  <2>1. s \in Seq(CacheWord) /\ Len(s) \in Nat /\ DOMAIN s = 1 .. Len(s)
    BY <1>1, StreamIsSeq, LenProperties DEF CacheTypeInv
  <2>2. /\ LineCount(cHandled, c) = C!Cardinality(UpTo(s, r))
        /\ NoLong(s, r) /\ NoFlood(s, r)
    BY <1>2 DEF CacheInv, ServedAt, ReadUpTo
  <2>3. UpTo(s, r) = C!Newlines(s)
    BY <2>1 DEF UpTo, C!Newlines
  <2>4. ASSUME NEW e \in DOMAIN s, NEW b \in 0 .. Len(s), b < e, C!Runs(s, b, e)
        PROVE  /\ ~(s[e] = C!NL /\ (e - 1) - b >= LineMax)
               /\ ~(/\ (e - 1) % ReadMax = 0
                    /\ (e - 1) - b + C!Shorter(ReadMax, Len(s) - (e - 1)) >= BufMax)
    <3>1. e \in 1 .. r /\ b \in 0 .. e - 1
      BY <2>1, <2>4
    <3>2. s[e] = C!NL => (e - 1) - b < LineMax
      BY <2>2, <2>4, <3>1 DEF NoLong
    <3>3. (e - 1) % ReadMax = 0 => (e - 1) - b + C!Shorter(ReadMax, Len(s) - (e - 1)) < BufMax
      BY <2>2, <2>4, <3>1 DEF NoFlood
    <3>4. (e - 1) - b \in Int /\ C!Shorter(ReadMax, Len(s) - (e - 1)) \in Int
      BY <2>1, <3>1, CacheAssumption DEF C!Shorter
    <3>. QED
      BY <3>2, <3>3, <3>4, CacheAssumption
  <2>. QED
    BY <2>2, <2>3, <2>4 DEF C!Unservable
<1>3. cExit = "failure" => \E c \in C!Client : C!Unservable(cScript[c])
  BY DEF CacheInv
<1>. QED
  BY <1>1, <1>2, <1>3 DEF C!AnswersInOrder, LineCount, CacheTypeInv

\* The lines of each client are handled whole, once and in their order wherever the
\* reads cut them, each answer is that of a map with room for MaxItems keys, and the
\* loop gives up only on what no buffer can hold (process_connection_buffer,
\* handle_command): for any streams, sizes of buffers and number of clients.
THEOREM CacheAnswersInOrder == ProgramsSpec => []C!AnswersInOrder
<1>1. [ProgramsNext]_allVars => [C!Next]_cacheVars
  BY DEF ProgramsNext, allVars, PipelineTurn, PoolTurn, StockTurn, KitchenTurn,
         EntryTurn, LimiterTurn, CountersTurn, CacheTurn, CopyTurn, WalkTurn,
         SignalsTurn, cacheVars
<1>2. CacheInv /\ [C!Next]_cacheVars => CacheInv'
  <2> SUFFICES ASSUME CacheInv, [C!Next]_cacheVars PROVE CacheInv'
    OBVIOUS
  <2>1. CASE UNCHANGED cacheVars
    BY <2>1, CacheStutters DEF cacheVars
  <2>. QED
    BY <2>1, CacheStep
<1>3. ProgramsInit => CacheInv
  BY CacheStart DEF ProgramsInit
<1>. QED
  BY <1>1, <1>2, <1>3, CacheAnswers, PTL DEF ProgramsSpec

-----------------------------------------------------------------------------

\* Whichever of the programs runs, what its main checks at the end is true, and what
\* its threads may not see they do not see before.
THEOREM ChecksAlwaysSucceed == ProgramsSpec => []ChecksSucceed
<1>1. /\ P!TotalsAtJoin
      /\ chosen = "stock" => S!StockIsRight
      /\ chosen = "kitchen" => S!KitchenIsRight
      /\ E!ReadsAreWhole /\ L!LimitIsKept /\ K!CounterIsRight
      /\ C!AnswersInOrder /\ F!CopyIsHonest /\ W!WalkIsHonest /\ G!SignalsAreKept
      => ChecksSucceed
  BY DEF ChecksSucceed
<1>. QED
  BY <1>1, PoolTotalsAreRight, StockStaysRight, KitchenStaysRight, EntryReadsAreWhole,
     LimiterKeepsItsLimit, CountersAreRight, CacheAnswersInOrder, CopiesAreHonest,
     WalksAreHonest, SignalsAreKeptAlways, PTL
=============================================================================

---------------------------- MODULE ProcessProofs ----------------------------
(***************************************************************************)
(* Theorems about the closing queue, for any capacity, any number of       *)
(* producers, consumers and values; about minishell, for any number of     *)
(* processes; and about miniserver, for any number of workers, clients and *)
(* descriptors and any length of the queue.  They share the ring buffer    *)
(* and no variable.                                                        *)
(***************************************************************************)
EXTENDS ClosingQueue, MiniShell, MiniServer, SequenceTheorems, FiniteSetTheorems,
        WellFoundedInduction

-----------------------------------------------------------------------------
\* What has entered and not left.
Rest(e, l) == SubSeq(e, Len(l) + 1, Len(e))

\* The end of a sequence, element by element.
LEMMA RestFacts ==
  ASSUME NEW e \in Seq(Int), NEW m \in Nat, m <= Len(e)
  PROVE  /\ SubSeq(e, m + 1, Len(e)) \in Seq(Int)
         /\ Len(SubSeq(e, m + 1, Len(e))) = Len(e) - m
         /\ \A i \in 1 .. Len(e) - m : SubSeq(e, m + 1, Len(e))[i] = e[m + i]
<1> DEFINE a == m + 1  b == Len(e)
<1>1. a \in Int /\ b \in Int /\ b \in Nat /\ (\A i \in a .. b : e[i] \in Int)
  <2>1. b \in Nat
    BY LenProperties
  <2>2. \A i \in a .. b : i \in 1 .. Len(e)
    BY <2>1
  <2>. QED
    BY <2>1, <2>2, ElementOfSeq
<1>2. /\ SubSeq(e, a, b) \in Seq(Int)
      /\ Len(SubSeq(e, a, b)) = IF a <= b THEN b - a + 1 ELSE 0
      /\ \A i \in 1 .. b - a + 1 : SubSeq(e, a, b)[i] = e[a + i - 1]
  <2> HIDE DEF a, b
  <2>. QED
    BY <1>1, SubSeqProperties
<1>3. b - a + 1 = b - m /\ (a <= b => b - a + 1 = b - m) /\ (~(a <= b) => b - m = 0)
  BY <1>1
<1>4. \A i \in 1 .. b - m : a + i - 1 = m + i
  BY <1>1
<1>. QED
  BY <1>1, <1>2, <1>3, <1>4

\* What enters goes to the end of what has not left.
LEMMA RestAppend ==
  ASSUME NEW e \in Seq(Int), NEW l \in Seq(Int), NEW v \in Int, Len(l) <= Len(e)
  PROVE  Rest(Append(e, v), l) = Append(Rest(e, l), v)
<1> DEFINE m == Len(l)  n == Len(e)  e2 == Append(e, v)
           s == SubSeq(e, m + 1, n)  t == SubSeq(e2, m + 1, n + 1)
<1>1. m \in Nat /\ n \in Nat /\ m <= n
  BY LenProperties
<1>2. e2 \in Seq(Int) /\ Len(e2) = n + 1
  OBVIOUS
<1>3. \A i \in 1 .. n + 1 : e2[i] = IF i = n + 1 THEN v ELSE e[i]
  BY <1>1
<1>4. s \in Seq(Int) /\ Len(s) = n - m /\ \A i \in 1 .. n - m : s[i] = e[m + i]
  BY <1>1, RestFacts
<1>5. /\ t \in Seq(Int) /\ Len(t) = n + 1 - m
      /\ \A i \in 1 .. n + 1 - m : t[i] = e2[m + i]
  <2>1. m <= Len(e2) /\ m \in Nat /\ e2 \in Seq(Int)
    BY <1>1, <1>2
  <2> HIDE DEF m, e2
  <2>2. /\ SubSeq(e2, m + 1, Len(e2)) \in Seq(Int)
        /\ Len(SubSeq(e2, m + 1, Len(e2))) = Len(e2) - m
        /\ \A i \in 1 .. Len(e2) - m : SubSeq(e2, m + 1, Len(e2))[i] = e2[m + i]
    BY <2>1, RestFacts
  <2>3. t = SubSeq(e2, m + 1, Len(e2))
    BY <1>2
  <2> HIDE DEF n, t
  <2>4. Len(e2) - m = n + 1 - m
    BY <1>1, <1>2
  <2>5. t \in Seq(Int) /\ Len(t) = n + 1 - m
    BY <2>2, <2>3, <2>4
  <2>6. \A i \in 1 .. n + 1 - m : t[i] = e2[m + i]
    BY <2>2, <2>3, <2>4
  <2>. QED
    BY <2>5, <2>6
<1>6. \A i \in 1 .. n + 1 - m : t[i] = Append(s, v)[i]
  <2> HIDE DEF m, n, s, t, e2
  <2> TAKE i \in 1 .. n + 1 - m
  <2>1. m + i \in 1 .. n + 1 /\ t[i] = e2[m + i]
    BY <1>1, <1>5
  <2>2. CASE i = n + 1 - m
    <3>1. m + i = n + 1 /\ i = Len(s) + 1
      BY <1>1, <1>4, <2>2
    <3>. QED
      BY <1>3, <1>4, <2>1, <3>1
  <2>3. CASE i \in 1 .. n - m
    <3>1. m + i # n + 1 /\ i \in 1 .. Len(s)
      BY <1>1, <1>4, <2>3
    <3>2. Append(s, v)[i] = s[i]
      BY <1>4, <3>1
    <3>3. e2[m + i] = e[m + i]
      BY <1>3, <2>1, <3>1
    <3>4. s[i] = e[m + i]
      BY <1>4, <2>3
    <3>. QED
      BY <2>1, <3>2, <3>3, <3>4
  <2>4. i = n + 1 - m \/ i \in 1 .. n - m
    BY <1>1
  <2>. QED
    BY <2>2, <2>3, <2>4
<1>7. Append(s, v) \in Seq(Int) /\ Len(Append(s, v)) = n + 1 - m
  BY <1>1, <1>4
<1>8. t = Append(s, v)
  <2> HIDE DEF m, n, s, t, e2
  <2>. QED
    BY <1>5, <1>6, <1>7, SeqEqual
<1>. QED
  BY <1>2, <1>8 DEF Rest

\* What leaves is the head of what has not left.
LEMMA RestTail ==
  ASSUME NEW e \in Seq(Int), NEW l \in Seq(Int), NEW v, Len(l) < Len(e)
  PROVE  /\ Head(Rest(e, l)) = e[Len(l) + 1]
         /\ Rest(e, Append(l, v)) = Tail(Rest(e, l))
<1>1. Len(l) \in Nat /\ Len(e) \in Nat
  BY LenProperties
<1>2. Len(l) + 1 \in 1 .. Len(e) /\ Len(e) \in Len(l) + 1 .. Len(e)
  BY <1>1
<1>3. Len(Append(l, v)) = Len(l) + 1
  OBVIOUS
<1>. QED
  BY <1>2, <1>3, HeadTailOfSubSeq DEF Rest

-----------------------------------------------------------------------------
(* The invariant of the queue.                                             *)

\* The array holds what has entered and not left.
RingInv == Len(left) <= Len(entered) /\ RingOf(q, Rest(entered, left))

\* producers_alive counts the producers that have not ended.
Active == {p \in Producer : state[p] # "done"}
AliveInv == alive = Cardinality(Active)

ProgressInv ==
  \A p \in Producer : /\ state[p] = "wait" => made[p] < Tasks
                      /\ state[p] = "done" => made[p] = Tasks

LeaveInv == (\E c \in Consumer : state[c] = "done") => alive = 0 /\ Empty(q)

ConsumerAwake == ~Empty(q) => \E c \in Consumer : state[c] = "ready"

\* Producers that will put something in when they get the mutex.
Able == {p \in Producer : state[p] = "ready" /\ made[p] < Tasks}

\* While a producer sleeps, there is a producer awake for every free slot.
ProducerAwake ==
  Waiting(Producer) # {} => Capacity - q.count <= Cardinality(Able)

QInv == /\ TypeOK /\ RingInv /\ AliveInv /\ ProgressInv
        /\ LeaveInv /\ ConsumerAwake /\ ProducerAwake

\* The capacity as the provers of arithmetic need it.
LEMMA CapacityFacts == Capacity \in Int /\ Capacity > 0
BY CapacityIsPositive

\* What a producer puts in the queue is a number.
LEMMA ValueIsInt ==
  ASSUME NEW p \in Producer, NEW i \in Int
  PROVE  ValueOf(p, i) \in Int
<1>1. p \in Int
  BY ThreadAssumption
<1>. QED
  BY <1>1 DEF ValueOf

\* The queue starts empty, with every thread awake.
LEMMA InitInv == Init => QInv
<1> SUFFICES ASSUME Init PROVE QInv
  OBVIOUS
<1> USE DEF Init
<1>1. Cardinality(Producer) \in Nat
  BY ThreadAssumption, FS_CardinalityType
<1>2. EmptyRing \in Ring(Int)
  BY CapacityFacts DEF EmptyRing, Ring, Slots
<1>3. TypeOK
  BY <1>1, <1>2, ThreadAssumption DEF TypeOK, Thread
<1>4. Rest(<<>>, <<>>) = <<>>
  BY SubSeqEmpty DEF Rest
<1>5. Wrap(0 + 0) = 0
  BY CapacityFacts, Z3 DEF Wrap
<1>6. RingInv
  BY <1>2, <1>4, <1>5 DEF RingInv, RingOf, EmptyRing
<1>7. Active = Producer
  BY DEF Active, Thread
<1>8. AliveInv
  BY <1>7 DEF AliveInv
<1>9. ProgressInv
  BY DEF ProgressInv, Thread
<1>10. LeaveInv
  BY DEF LeaveInv, Thread
<1>11. ConsumerAwake
  BY DEF ConsumerAwake, Empty, EmptyRing
<1>12. Waiting(Producer) = {}
  BY DEF Waiting, Thread
<1>13. ProducerAwake
  BY <1>12 DEF ProducerAwake
<1>. QED
  BY <1>3, <1>6, <1>8, <1>9, <1>10, <1>11, <1>13 DEF QInv

\* What each kind of step does to the states of the threads.
LEMMA StateStep ==
  ASSUME TypeOK, [Next]_vars
  PROVE  state' \in [Thread -> {"ready", "wait", "done"}]
<1> USE DEF TypeOK
<1>1. ASSUME NEW p \in Producer, Produce(p)
      PROVE  state' \in [Thread -> {"ready", "wait", "done"}]
  BY <1>1 DEF Produce, Wait, Put, Signal
<1>2. ASSUME NEW p \in Producer, Close(p)
      PROVE  state' \in [Thread -> {"ready", "wait", "done"}]
  BY <1>2 DEF Close
<1>3. ASSUME NEW c \in Consumer, Consume(c)
      PROVE  state' \in [Thread -> {"ready", "wait", "done"}]
  BY <1>3 DEF Consume, Wait, Leave, Take, Signal
<1>4. ASSUME NEW t \in Thread, Spurious(t)
      PROVE  state' \in [Thread -> {"ready", "wait", "done"}]
  BY <1>4 DEF Spurious
<1>5. CASE UNCHANGED vars
  BY <1>5 DEF vars
<1>. QED
  BY <1>1, <1>2, <1>3, <1>4, <1>5 DEF Next, ProducerStep, Joined

\* The queue is touched by Put and Take only.
QuietStep == UNCHANGED <<q, made, entered, left>>

\* A step puts a value in, takes one out, or does not touch the queue.
LEMMA DataCases ==
  ASSUME [Next]_vars
  PROVE  \/ \E p \in Producer : made[p] < Tasks /\ ~Full(q) /\ Put(p)
         \/ ~Empty(q) /\ Take
         \/ QuietStep
BY DEF Next, ProducerStep, Produce, Close, Consume, Wait, Leave, Spurious,
       Joined, QuietStep, vars, Put, Take

\* The array holds, in order, what has entered and not left.
LEMMA RingStep ==
  ASSUME TypeOK, RingInv, [Next]_vars
  PROVE  RingInv' /\ q' \in Ring(Int) /\ entered' \in Seq(Int) /\ left' \in Seq(Int)
<1> DEFINE s == Rest(entered, left)
<1>1. entered \in Seq(Int) /\ left \in Seq(Int) /\ Len(left) <= Len(entered)
      /\ RingOf(q, s)
  BY DEF TypeOK, RingInv
<1>2. Len(left) \in Nat /\ Len(entered) \in Nat
  BY <1>1, LenProperties
<1>3. s \in Seq(Int) /\ Len(s) = Len(entered) - Len(left)
  BY <1>1, <1>2, RestFacts DEF Rest
<1>4. ASSUME NEW p \in Producer, ~Full(q), Put(p)
      PROVE  RingInv' /\ q' \in Ring(Int) /\ entered' \in Seq(Int) /\ left' \in Seq(Int)
  <2> DEFINE v == ValueOf(p, made[p] + 1)
  <2>1. v \in Int
    <3>1. made[p] + 1 \in Int
      BY ThreadAssumption DEF TypeOK
    <3>. QED
      BY <3>1, ValueIsInt
  <2>2. q' = Push(q, v) /\ entered' = Append(entered, v) /\ left' = left
    BY <1>4 DEF Put
  <2> HIDE DEF v, s
  <2>3. RingOf(q', Append(s, v))
    BY <1>1, <1>3, <1>4, <2>1, <2>2, PushAppends
  <2>4. Rest(entered', left') = Append(s, v)
    BY <1>1, <2>1, <2>2, RestAppend DEF s
  <2>5. Len(left') <= Len(entered') /\ entered' \in Seq(Int) /\ left' \in Seq(Int)
    BY <1>1, <1>2, <2>1, <2>2
  <2>. QED
    BY <2>3, <2>4, <2>5 DEF RingInv, RingOf
<1>5. ASSUME ~Empty(q), Take
      PROVE  RingInv' /\ q' \in Ring(Int) /\ entered' \in Seq(Int) /\ left' \in Seq(Int)
  <2>1. q' = Pop(q) /\ left' = Append(left, Front(q)) /\ entered' = entered
    BY <1>5 DEF Take
  <2> HIDE DEF s
  <2>2. Front(q) = Head(s) /\ RingOf(q', Tail(s))
    BY <1>1, <1>3, <1>5, <2>1, PopRemoves
  <2>3. Len(left) < Len(entered)
    BY <1>1, <1>2, <1>3, <1>5, RingFacts DEF Empty
  <2>4. Rest(entered', left') = Tail(s)
    BY <1>1, <2>1, <2>3, RestTail DEF s
  <2>5. Front(q) \in Int
    BY <1>1, RingFacts DEF Front, Slots, RingOf, Ring
  <2>6. Len(left') <= Len(entered') /\ entered' \in Seq(Int) /\ left' \in Seq(Int)
    BY <1>1, <1>2, <2>1, <2>3, <2>5
  <2>. QED
    BY <2>2, <2>4, <2>6 DEF RingInv, RingOf
<1>6. CASE QuietStep
  BY <1>1, <1>6 DEF QuietStep, RingInv, RingOf
<1>. QED
  BY <1>4, <1>5, <1>6, DataCases

\* No producer makes more than its tasks.
LEMMA MadeStep ==
  ASSUME TypeOK, [Next]_vars
  PROVE  made' \in [Producer -> 0 .. Tasks]
<1> USE ThreadAssumption DEF TypeOK
<1>1. ASSUME NEW p \in Producer, made[p] < Tasks, Put(p)
      PROVE  made' \in [Producer -> 0 .. Tasks]
  <2>1. made' = [made EXCEPT ![p] = made[p] + 1] /\ made[p] + 1 \in 0 .. Tasks
    BY <1>1 DEF Put
  <2>. QED
    BY <2>1
<1>2. CASE Take
  BY <1>2 DEF Take
<1>3. CASE QuietStep
  BY <1>3 DEF QuietStep
<1>. QED
  BY <1>1, <1>2, <1>3, DataCases

\* No producer ends but by Close, which counts it out.
LEMMA AliveStep ==
  ASSUME TypeOK, AliveInv, [Next]_vars
  PROVE  AliveInv' /\ alive' \in 0 .. Cardinality(Producer)
<1> USE DEF TypeOK, Thread
<1>0. IsFiniteSet(Active) /\ IsFiniteSet(Producer) /\ Producer \cap Consumer = {}
  BY ThreadAssumption, FS_Subset DEF Active
<1>1. ASSUME NEW p \in Producer, Produce(p)
      PROVE  alive' = alive /\ Active' = Active
  BY <1>0, <1>1 DEF Produce, Wait, Put, Signal, Waiting, Active
<1>2. ASSUME NEW p \in Producer, Close(p)
      PROVE  AliveInv'
  <2>1. Active' = Active \ {p} /\ p \in Active /\ alive' = alive - 1
    BY <1>0, <1>2 DEF Close, Waiting, Active
  <2>. QED
    BY <1>0, <2>1, FS_RemoveElement DEF AliveInv
<1>3. ASSUME NEW c \in Consumer, Consume(c)
      PROVE  alive' = alive /\ Active' = Active
  BY <1>0, <1>3 DEF Consume, Wait, Leave, Take, Signal, Waiting, Active
<1>4. ASSUME NEW t \in Thread, Spurious(t)
      PROVE  alive' = alive /\ Active' = Active
  BY <1>4 DEF Spurious, Active
<1>5. UNCHANGED vars => alive' = alive /\ Active' = Active
  BY DEF vars, Active
<1>6. AliveInv'
  BY <1>1, <1>2, <1>3, <1>4, <1>5 DEF AliveInv, Next, ProducerStep, Joined
<1>7. IsFiniteSet(Active') /\ Cardinality(Active') <= Cardinality(Producer)
  BY <1>0, FS_Subset DEF Active
<1>. QED
  BY <1>0, <1>6, <1>7, FS_CardinalityType DEF AliveInv

\* A producer that has not ended is counted.
LEMMA ActiveCounts ==
  ASSUME AliveInv, NEW p \in Producer, state[p] # "done"
  PROVE  alive > 0
<1>1. IsFiniteSet(Active) /\ p \in Active
  BY ThreadAssumption, FS_Subset DEF Active
<1>. QED
  BY <1>1, FS_EmptySet, FS_CardinalityType DEF AliveInv

\* A producer sleeps only with values to make and ends when it has made all.
LEMMA ProgressStep ==
  ASSUME TypeOK, ProgressInv, [Next]_vars
  PROVE  ProgressInv'
<1> SUFFICES ASSUME NEW r \in Producer
             PROVE  /\ state'[r] = "wait" => made'[r] < Tasks
                    /\ state'[r] = "done" => made'[r] = Tasks
  BY DEF ProgressInv
<1> USE DEF TypeOK, Thread
<1>0. Producer \cap Consumer = {}
  BY ThreadAssumption
<1>1. ASSUME NEW p \in Producer, Produce(p)
      PROVE  /\ state'[r] = "wait" => made'[r] < Tasks
             /\ state'[r] = "done" => made'[r] = Tasks
  <2>1. CASE Full(q)
    BY <1>1, <2>1 DEF Produce, Wait, ProgressInv
  <2>2. CASE ~Full(q)
    <3>1. state'[r] = state[r]
      BY <1>0, <1>1, <2>2 DEF Produce, Put, Signal, Waiting
    <3>2. r # p => made'[r] = made[r]
      BY <1>1, <2>2 DEF Produce, Put
    <3>3. state[p] = "ready"
      BY <1>1 DEF Produce
    <3>. QED
      BY <3>1, <3>2, <3>3 DEF ProgressInv
  <2>. QED
    BY <2>1, <2>2
<1>2. ASSUME NEW p \in Producer, Close(p)
      PROVE  /\ state'[r] = "wait" => made'[r] < Tasks
             /\ state'[r] = "done" => made'[r] = Tasks
  BY <1>0, <1>2 DEF Close, Waiting, ProgressInv
<1>3. ASSUME NEW c \in Consumer, Consume(c)
      PROVE  /\ state'[r] = "wait" => made'[r] < Tasks
             /\ state'[r] = "done" => made'[r] = Tasks
  <2>1. made' = made
    BY <1>3 DEF Consume, Wait, Leave, Take
  <2>2. state'[r] = state[r] \/ state'[r] = "ready"
    BY <1>0, <1>3 DEF Consume, Wait, Leave, Take, Signal
  <2>. QED
    BY <2>1, <2>2 DEF ProgressInv
<1>4. ASSUME NEW t \in Thread, Spurious(t)
      PROVE  /\ state'[r] = "wait" => made'[r] < Tasks
             /\ state'[r] = "done" => made'[r] = Tasks
  BY <1>4 DEF Spurious, ProgressInv
<1>5. CASE UNCHANGED vars
  BY <1>5 DEF vars, ProgressInv
<1>. QED
  BY <1>1, <1>2, <1>3, <1>4, <1>5 DEF Next, ProducerStep, Joined

\* A consumer leaves only after the last producer and the last value.
LEMMA LeaveStep ==
  ASSUME TypeOK, AliveInv, LeaveInv, [Next]_vars
  PROVE  LeaveInv'
<1> USE DEF TypeOK, Thread
<1>0. Producer \cap Consumer = {}
  BY ThreadAssumption
<1>1. ASSUME NEW p \in Producer, ProducerStep(p)
      PROVE  LeaveInv'
  <2>1. state[p] = "ready" /\ alive > 0
    BY <1>1, ActiveCounts DEF ProducerStep, Produce, Close
  <2>2. \A c \in Consumer : state[c] # "done"
    BY <2>1 DEF LeaveInv
  <2>3. \A c \in Consumer : state'[c] # "done"
    BY <1>0, <1>1, <2>2 DEF ProducerStep, Produce, Close, Wait, Put, Signal
  <2>. QED
    BY <2>3 DEF LeaveInv
<1>2. ASSUME NEW c \in Consumer, Consume(c)
      PROVE  LeaveInv'
  <2>1. CASE Empty(q) /\ alive > 0
    <3>1. Wait(c)
      BY <1>2, <2>1 DEF Consume
    <3>2. \A d \in Consumer : state[d] # "done"
      BY <2>1 DEF LeaveInv
    <3>3. \A d \in Consumer : state'[d] # "done"
      BY <3>1, <3>2 DEF Wait
    <3>. QED
      BY <3>3 DEF LeaveInv
  <2>2. CASE Empty(q) /\ ~(alive > 0)
    <3>1. Leave(c)
      BY <1>2, <2>2 DEF Consume
    <3>2. alive' = 0
      <4>1. alive \in Nat /\ alive' = alive
        BY <3>1, ThreadAssumption, FS_CardinalityType DEF Leave
      <4>. QED
        BY <2>2, <4>1
    <3>3. Empty(q)'
      BY <2>2, <3>1 DEF Leave, Empty
    <3>. QED
      BY <3>2, <3>3 DEF LeaveInv
  <2>3. CASE ~Empty(q)
    <3>1. Take
      BY <1>2, <2>3 DEF Consume
    <3>2. \A d \in Consumer : state[d] # "done"
      BY <2>3 DEF LeaveInv
    <3>3. \A d \in Consumer : state'[d] # "done"
      BY <1>0, <3>1, <3>2 DEF Take, Signal
    <3>. QED
      BY <3>3 DEF LeaveInv
  <2>. QED
    BY <2>1, <2>2, <2>3
<1>3. ASSUME NEW t \in Thread, Spurious(t)
      PROVE  LeaveInv'
  BY <1>3 DEF Spurious, LeaveInv, Empty
<1>4. CASE UNCHANGED vars
  BY <1>4 DEF vars, LeaveInv, Empty
<1>. QED
  BY <1>1, <1>2, <1>3, <1>4 DEF Next, Joined

\* The signal of a push, and the broadcast of the close, keep enough consumers
\* awake.
LEMMA ConsumerAwakeStep ==
  ASSUME QInv, [Next]_vars
  PROVE  ConsumerAwake'
<1> USE DEF Thread
<1>0. Producer \cap Consumer = {} /\ Consumer # {}
      /\ state \in [Thread -> {"ready", "wait", "done"}]
  BY ThreadAssumption DEF QInv, TypeOK
<1>1. ASSUME NEW p \in Producer, Produce(p)
      PROVE  ConsumerAwake'
  <2>1. CASE Full(q)
    BY <1>0, <1>1, <2>1 DEF Produce, Wait, QInv, ConsumerAwake, Empty
  <2>2. CASE ~Full(q)
    <3>1. Put(p) /\ alive > 0
      BY <1>1, <2>2, ActiveCounts DEF Produce, QInv
    <3>2. \A c \in Consumer : state[c] # "done"
      BY <3>1 DEF QInv, LeaveInv
    <3>3. CASE Waiting(Consumer) = {}
      <4>1. \E c \in Consumer : state[c] = "ready"
        BY <1>0, <3>2, <3>3 DEF Waiting
      <4>. QED
        BY <3>1, <3>3, <4>1 DEF Put, Signal, ConsumerAwake
    <3>4. CASE Waiting(Consumer) # {}
      <4>1. PICK t \in Waiting(Consumer) : state' = [state EXCEPT ![t] = "ready"]
        BY <3>1, <3>4 DEF Put, Signal
      <4>2. t \in Consumer /\ state'[t] = "ready"
        BY <1>0, <4>1 DEF Waiting
      <4>. QED
        BY <4>2 DEF ConsumerAwake
    <3>. QED
      BY <3>3, <3>4
  <2>. QED
    BY <2>1, <2>2
<1>2. ASSUME NEW p \in Producer, Close(p)
      PROVE  ConsumerAwake'
  <2>1. q' = q /\ \A c \in Consumer : state[c] = "ready" => state'[c] = "ready"
    BY <1>0, <1>2 DEF Close, Waiting
  <2>. QED
    BY <2>1 DEF QInv, ConsumerAwake, Empty
<1>3. ASSUME NEW c \in Consumer, Consume(c)
      PROVE  ConsumerAwake'
  <2>1. CASE Empty(q)
    <3>1. q' = q
      BY <1>3, <2>1 DEF Consume, Wait, Leave
    <3>. QED
      BY <2>1, <3>1 DEF ConsumerAwake, Empty
  <2>2. CASE ~Empty(q)
    <3>1. state'[c] = "ready"
      BY <1>0, <1>3, <2>2 DEF Consume, Take, Signal
    <3>. QED
      BY <3>1 DEF ConsumerAwake
  <2>. QED
    BY <2>1, <2>2
<1>4. ASSUME NEW t \in Thread, Spurious(t)
      PROVE  ConsumerAwake'
  <2>1. q' = q /\ \A c \in Consumer : state[c] = "ready" => state'[c] = "ready"
    BY <1>0, <1>4 DEF Spurious
  <2>. QED
    BY <2>1 DEF QInv, ConsumerAwake, Empty
<1>5. CASE UNCHANGED vars
  BY <1>5 DEF vars, QInv, ConsumerAwake, Empty
<1>. QED
  BY <1>1, <1>2, <1>3, <1>4, <1>5 DEF Next, ProducerStep, Joined

\* Waking a producer that waits makes one more of them able.
LEMMA WakeProducer ==
  ASSUME QInv, NEW t \in Waiting(Producer),
         state' = [state EXCEPT ![t] = "ready"], made' = made
  PROVE  Cardinality(Able') = Cardinality(Able) + 1
<1>1. IsFiniteSet(Able)
  BY ThreadAssumption, FS_Subset DEF Able
<1>2. Able' = Able \union {t} /\ t \notin Able
  BY DEF Able, Waiting, QInv, TypeOK, ProgressInv, Thread
<1>. QED
  BY <1>1, <1>2, FS_AddElement

\* The signal of a pop keeps enough producers awake.
LEMMA ProducerAwakeStep ==
  ASSUME QInv, [Next]_vars
  PROVE  ProducerAwake'
<1> USE DEF Thread
<1>0. /\ Producer \cap Consumer = {}
      /\ state \in [Thread -> {"ready", "wait", "done"}]
      /\ made \in [Producer -> 0 .. Tasks] /\ Tasks \in Nat
      /\ Capacity \in Int /\ q.count \in Int
  BY ThreadAssumption, CapacityFacts DEF QInv, TypeOK, Ring
<1>1. IsFiniteSet(Able) /\ Cardinality(Able) \in Nat
  BY ThreadAssumption, FS_Subset, FS_CardinalityType DEF Able
<1>2. IsFiniteSet(Able') /\ Cardinality(Able') \in Nat
  BY ThreadAssumption, FS_Subset, FS_CardinalityType DEF Able
<1>3. ASSUME NEW p \in Producer, Produce(p)
      PROVE  ProducerAwake'
  <2>1. CASE Full(q)
    <3>1. q' = q
      BY <1>3, <2>1 DEF Produce, Wait
    <3>. QED
      BY <1>0, <1>2, <2>1, <3>1 DEF ProducerAwake, Full
  <2>2. CASE ~Full(q)
    <3>1. Put(p)
      BY <1>3, <2>2 DEF Produce
    <3>2. \A r \in Producer : state'[r] = state[r]
      BY <1>0, <3>1 DEF Put, Signal, Waiting
    <3>3. \A r \in Producer \ {p} : made'[r] = made[r]
      BY <1>0, <3>1 DEF Put
    <3>4. Able \ {p} \subseteq Able'
      BY <3>2, <3>3 DEF Able
    <3>5. Cardinality(Able) - 1 <= Cardinality(Able')
      <4>1. /\ Cardinality(Able \ {p}) \in Nat
            /\ Cardinality(Able) - 1 <= Cardinality(Able \ {p})
        <5>1. /\ IsFiniteSet(Able \ {p})
              /\ Cardinality(Able \ {p}) =
                   IF p \in Able THEN Cardinality(Able) - 1 ELSE Cardinality(Able)
          BY <1>1, FS_RemoveElement
        <5>2. Cardinality(Able \ {p}) \in Nat
          BY <5>1, FS_CardinalityType
        <5>. QED
          BY <1>1, <5>1, <5>2
      <4>2. Cardinality(Able \ {p}) <= Cardinality(Able')
        BY <1>2, <3>4, FS_Subset
      <4>. QED
        BY <1>1, <1>2, <4>1, <4>2
    <3>6. q'.count = q.count + 1
      BY <3>1 DEF Put, Push
    <3>7. Waiting(Producer)' = Waiting(Producer)
      BY <3>2 DEF Waiting
    <3>8. Waiting(Producer) # {} => Capacity - q.count <= Cardinality(Able)
      BY DEF QInv, ProducerAwake
    <3>. QED
      BY <1>0, <1>1, <1>2, <3>5, <3>6, <3>7, <3>8 DEF ProducerAwake
  <2>. QED
    BY <2>1, <2>2
<1>4. ASSUME NEW p \in Producer, Close(p)
      PROVE  ProducerAwake'
  <2>1. Able' = Able /\ Waiting(Producer)' = Waiting(Producer) /\ q' = q
    BY <1>0, <1>4 DEF Close, Able, Waiting
  <2>. QED
    BY <2>1 DEF QInv, ProducerAwake
<1>5. ASSUME NEW c \in Consumer, Consume(c)
      PROVE  ProducerAwake'
  <2>1. CASE Empty(q)
    <3>1. Able' = Able /\ Waiting(Producer)' = Waiting(Producer) /\ q' = q
      BY <1>0, <1>5, <2>1 DEF Consume, Wait, Leave, Able, Waiting
    <3>. QED
      BY <3>1 DEF QInv, ProducerAwake
  <2>2. CASE ~Empty(q)
    <3>1. Take /\ made' = made /\ q'.count = q.count - 1
      BY <1>5, <2>2 DEF Consume, Take, Pop
    <3>2. CASE Waiting(Producer) = {}
      <4>1. state' = state
        BY <3>1, <3>2 DEF Take, Signal
      <4>. QED
        BY <3>2, <4>1 DEF ProducerAwake, Waiting
    <3>3. CASE Waiting(Producer) # {}
      <4>1. PICK t \in Waiting(Producer) : state' = [state EXCEPT ![t] = "ready"]
        BY <3>1, <3>3 DEF Take, Signal
      <4>2. Cardinality(Able') = Cardinality(Able) + 1
        BY <3>1, <4>1, WakeProducer
      <4>3. Capacity - q.count <= Cardinality(Able)
        BY <3>3 DEF QInv, ProducerAwake
      <4>. QED
        BY <1>0, <1>1, <3>1, <4>2, <4>3 DEF ProducerAwake
    <3>. QED
      BY <3>2, <3>3
  <2>. QED
    BY <2>1, <2>2
<1>6. ASSUME NEW t \in Thread, Spurious(t)
      PROVE  ProducerAwake'
  <2>0. made' = made /\ q' = q /\ state[t] = "wait"
        /\ state' = [state EXCEPT ![t] = "ready"]
    BY <1>6 DEF Spurious
  <2>1. CASE t \in Producer
    <3>1. t \in Waiting(Producer)
      BY <2>0, <2>1 DEF Waiting
    <3>2. Cardinality(Able') = Cardinality(Able) + 1
      BY <2>0, <3>1, WakeProducer
    <3>3. Capacity - q.count <= Cardinality(Able)
      BY <3>1 DEF QInv, ProducerAwake
    <3>. QED
      BY <1>0, <1>1, <2>0, <3>2, <3>3 DEF ProducerAwake
  <2>2. CASE t \in Consumer
    <3>1. Able' = Able /\ Waiting(Producer)' = Waiting(Producer)
      BY <1>0, <2>0, <2>2 DEF Able, Waiting
    <3>. QED
      BY <2>0, <3>1 DEF QInv, ProducerAwake
  <2>. QED
    BY <2>1, <2>2
<1>7. CASE UNCHANGED vars
  <2>1. Able' = Able /\ Waiting(Producer)' = Waiting(Producer) /\ q' = q
    BY <1>7 DEF vars, Able, Waiting
  <2>. QED
    BY <2>1 DEF QInv, ProducerAwake
<1>. QED
  BY <1>3, <1>4, <1>5, <1>6, <1>7 DEF Next, ProducerStep, Joined

\* The inductive invariant of producers, consumers and main (main.c 46-154).
THEOREM QueueInvariant == Spec => []QInv
<1>1. Init => QInv
  BY InitInv
<1>2. QInv /\ [Next]_vars => QInv'
  <2> SUFFICES ASSUME QInv, [Next]_vars PROVE QInv'
    OBVIOUS
  <2>1. /\ TypeOK /\ RingInv /\ AliveInv /\ ProgressInv /\ LeaveInv
    BY DEF QInv
  <2>2. TypeOK'
    BY <2>1, RingStep, StateStep, MadeStep, AliveStep DEF TypeOK
  <2>3. RingInv' /\ AliveInv' /\ ProgressInv' /\ LeaveInv'
    BY <2>1, RingStep, AliveStep, ProgressStep, LeaveStep
  <2>4. ConsumerAwake' /\ ProducerAwake'
    BY ConsumerAwakeStep, ProducerAwakeStep
  <2>. QED
    BY <2>2, <2>3, <2>4 DEF QInv
<1>. QED
  BY <1>1, <1>2, PTL DEF Spec

\* The array, the indices and the counters stay in their ranges (main.c 31-44).
THEOREM QueueTypeCorrect == Spec => []TypeOK
<1>1. QInv => TypeOK
  BY DEF QInv
<1>. QED
  BY <1>1, QueueInvariant, PTL

\* One signal for each push and each pop is enough: no value is left to
\* consumers that sleep, no free slot to producers that sleep (main.c 55-66, 85-101).
THEOREM WakeUpsAreNotLost == Spec => []NoLostWakeup
<1>1. QInv => NoLostWakeup
  <2> SUFFICES ASSUME QInv, ~Full(q), Waiting(Producer) # {}
               PROVE  \E p \in Producer : state[p] = "ready" /\ made[p] < Tasks
    BY DEF QInv, ConsumerAwake, NoLostWakeup
  <2>1. IsFiniteSet(Able)
    BY ThreadAssumption, FS_Subset DEF Able
  <2>2. Capacity - q.count > 0 /\ Capacity - q.count \in Int
    BY CapacityFacts DEF QInv, TypeOK, Ring, Full
  <2>3. Cardinality(Able) \in Nat /\ Capacity - q.count <= Cardinality(Able)
    BY <2>1, FS_CardinalityType DEF QInv, ProducerAwake
  <2>4. Cardinality(Able) # 0
    BY <2>2, <2>3
  <2>5. Able # {}
    BY <2>4, FS_EmptySet
  <2>. QED
    BY <2>5 DEF Able
<1>. QED
  BY <1>1, QueueInvariant, PTL

\* The circular buffer and its conditions implement the abstract queue
\* (main.c 31-44): values leave once and in the order of entry.
THEOREM QueueImplementsFifo == Spec => FifoSpec
<1>1. Init => Fifo!Init
  BY DEF Init, Fifo!Init
<1>2. QInv /\ [Next]_vars => [Fifo!Next]_<<entered, left>>
  <2> SUFFICES ASSUME QInv, [Next]_vars
               PROVE  [Fifo!Next]_<<entered, left>>
    OBVIOUS
  <2> DEFINE s == Rest(entered, left)
  <2>1. /\ entered \in Seq(Int) /\ left \in Seq(Int) /\ Len(left) <= Len(entered)
        /\ RingOf(q, s)
    BY DEF QInv, TypeOK, RingInv
  <2>2. Len(left) \in Nat /\ Len(entered) \in Nat
    BY <2>1, LenProperties
  <2>3. s \in Seq(Int) /\ Len(s) = Len(entered) - Len(left)
    BY <2>1, <2>2, RestFacts DEF Rest
  <2>4. q.count = Len(entered) - Len(left) /\ q.count \in 0 .. Capacity
    BY <2>1, <2>3, RingFacts
  <2>5. ASSUME NEW p \in Producer, made[p] < Tasks, ~Full(q), Put(p)
        PROVE  Fifo!Enter
    <3> DEFINE v == ValueOf(p, made[p] + 1)
    <3>1. v \in Produced
      <4>1. made[p] + 1 \in 1 .. Tasks
        BY <2>5, ThreadAssumption DEF QInv, TypeOK
      <4>. QED
        BY <4>1 DEF Produced
    <3>2. entered' = Append(entered, v) /\ left' = left
      BY <2>5 DEF Put
    <3>3. Len(entered) - Len(left) < Capacity
      BY <2>4, <2>5, CapacityFacts DEF Full
    <3> HIDE DEF v
    <3>. QED
      BY <3>1, <3>2, <3>3 DEF Fifo!Enter, Fifo!Inside
  <2>6. ASSUME ~Empty(q), Take
        PROVE  Fifo!Leave
    <3>1. left' = Append(left, Front(q)) /\ entered' = entered
      BY <2>6 DEF Take
    <3>2. Len(left) < Len(entered)
      BY <2>2, <2>4, <2>6 DEF Empty
    <3> HIDE DEF s
    <3>3. Front(q) = Head(s)
      BY <2>1, <2>3, <2>6, PopRemoves
    <3>4. Front(q) = entered[Len(left) + 1]
      BY <2>1, <3>2, <3>3, RestTail DEF s
    <3>5. Len(entered) - Len(left) > 0
      BY <2>2, <3>2
    <3>. QED
      BY <3>1, <3>4, <3>5 DEF Fifo!Leave, Fifo!Inside
  <2>7. QuietStep => UNCHANGED <<entered, left>>
    BY DEF QuietStep
  <2>. QED
    BY <2>5, <2>6, <2>7, DataCases DEF Fifo!Next
<1>. QED
  BY <1>1, <1>2, QueueInvariant, PTL DEF Spec, FifoSpec, Fifo!Spec

-----------------------------------------------------------------------------
(* How many values have entered, for the count of those that have left.    *)

\* The values made so far, each named by its producer and its number.
Placed == {x \in Producer \X (1 .. Tasks) : x[2] <= made[x[1]]}

\* All values there are.
LEMMA AllValues ==
  /\ IsFiniteSet(Producer \X (1 .. Tasks))
  /\ Cardinality(Producer \X (1 .. Tasks)) = Cardinality(Producer) * Tasks
<1>1. IsFiniteSet(1 .. Tasks) /\ Cardinality(1 .. Tasks) = Tasks
  <2>1. /\ IsFiniteSet(1 .. Tasks)
        /\ Cardinality(1 .. Tasks) = IF 1 > Tasks THEN 0 ELSE Tasks - 1 + 1
    BY FS_Interval, ThreadAssumption
  <2>. QED
    BY <2>1, ThreadAssumption
<1>. QED
  BY <1>1, FS_Product, ThreadAssumption

\* One more value is made for each that enters.
CountInv == Len(entered) = Cardinality(Placed)

\* No value has been made at the start.
LEMMA CountInit == Init => CountInv
<1> SUFFICES ASSUME Init PROVE CountInv
  OBVIOUS
<1>1. \A x \in Producer \X (1 .. Tasks) : x[1] \in Producer /\ x[2] \in 1 .. Tasks
  OBVIOUS
<1>2. Placed = {}
  BY <1>1 DEF Init, Placed
<1>3. Len(entered) = 0
  BY DEF Init
<1>. QED
  BY <1>2, <1>3, FS_EmptySet DEF CountInv

\* A step that puts a value in makes one that was not made before.
LEMMA CountStep ==
  ASSUME TypeOK, CountInv, [Next]_vars
  PROVE  CountInv'
<1>1. ASSUME NEW p \in Producer, made[p] < Tasks, Put(p)
      PROVE  CountInv'
  <2> DEFINE x == <<p, made[p] + 1>>
  <2>0. /\ made \in [Producer -> 0 .. Tasks] /\ Tasks \in Nat /\ entered \in Seq(Int)
        /\ made' = [made EXCEPT ![p] = made[p] + 1]
    BY <1>1, ThreadAssumption DEF TypeOK, Put
  <2>1. x \in Producer \X (1 .. Tasks) /\ x \notin Placed
    <3>1. made[p] \in Int /\ 0 <= made[p]
      BY <2>0
    <3>2. made[p] + 1 \in 1 .. Tasks /\ ~(made[p] + 1 <= made[p])
      BY <1>1, <2>0, <3>1
    <3>. QED
      BY <3>2 DEF Placed
  <2>2. Placed' = Placed \union {x}
    <3>1. ASSUME NEW y \in Producer \X (1 .. Tasks)
          PROVE  y[2] <= made'[y[1]] <=> (y[2] <= made[y[1]] \/ y = x)
      <4>1. PICK r \in Producer, k \in 1 .. Tasks : y = <<r, k>>
        OBVIOUS
      <4>2. CASE r = p
        <5>1. made'[r] = made[p] + 1 /\ made[p] \in Int /\ k \in Int
          BY <2>0, <4>2
        <5>2. k <= made[p] + 1 <=> (k <= made[p] \/ k = made[p] + 1)
          BY <5>1
        <5>. QED
          BY <4>1, <4>2, <5>1, <5>2
      <4>3. CASE r # p
        BY <2>0, <4>1, <4>3
      <4>. QED
        BY <4>2, <4>3
    <3>. QED
      BY <2>1, <3>1 DEF Placed
  <2>3. IsFiniteSet(Placed)
    BY AllValues, FS_Subset DEF Placed
  <2>4. Cardinality(Placed') = Cardinality(Placed) + 1
    BY <2>1, <2>2, <2>3, FS_AddElement
  <2>5. Len(entered') = Len(entered) + 1
    <3>1. entered' = Append(entered, ValueOf(p, made[p] + 1))
      BY <1>1 DEF Put
    <3>2. ValueOf(p, made[p] + 1) \in Int
      BY <2>0, ValueIsInt
    <3>. QED
      BY <2>0, <3>1, <3>2
  <2>. QED
    BY <2>4, <2>5 DEF CountInv
<1>2. CASE Take
  BY <1>2 DEF Take, CountInv, Placed
<1>3. CASE QuietStep
  BY <1>3 DEF QuietStep, CountInv, Placed
<1>. QED
  BY <1>1, <1>2, <1>3, DataCases

\* A consumer that leaves has seen the end: every producer is done and every
\* value has been taken (main.c 91-96).
THEOREM ConsumersLeaveLast == Spec => []LeavesLast
<1>1. Init => QInv /\ CountInv
  BY InitInv, CountInit
<1>2. QInv /\ CountInv /\ [Next]_vars => CountInv'
  BY CountStep DEF QInv
<1>3. QInv /\ CountInv => LeavesLast
  <2> SUFFICES ASSUME QInv, CountInv, NEW c \in Consumer, state[c] = "done"
               PROVE  /\ Len(left) = Cardinality(Producer) * Tasks
                      /\ \A p \in Producer : state[p] = "done"
    BY DEF LeavesLast
  <2>1. alive = 0 /\ Empty(q)
    BY DEF QInv, LeaveInv
  <2>2. \A p \in Producer : state[p] = "done"
    <3> SUFFICES ASSUME NEW p \in Producer, state[p] # "done"
                 PROVE  FALSE
      OBVIOUS
    <3>1. alive > 0
      BY ActiveCounts DEF QInv
    <3>. QED
      BY <2>1, <3>1
  <2>3. \A p \in Producer : made[p] = Tasks
    BY <2>2 DEF QInv, ProgressInv
  <2>4. Placed = Producer \X (1 .. Tasks)
    <3>1. \A x \in Producer \X (1 .. Tasks) : x[2] <= made[x[1]]
      BY <2>3
    <3>. QED
      BY <3>1 DEF Placed
  <2>5. Len(left) = Len(entered)
    <3>1. /\ entered \in Seq(Int) /\ left \in Seq(Int) /\ Len(left) <= Len(entered)
          /\ RingOf(q, Rest(entered, left))
      BY DEF QInv, TypeOK, RingInv
    <3>2. Len(left) \in Nat /\ Len(entered) \in Nat
      BY <3>1, LenProperties
    <3>3. /\ Rest(entered, left) \in Seq(Int)
          /\ Len(Rest(entered, left)) = Len(entered) - Len(left)
      BY <3>1, <3>2, RestFacts DEF Rest
    <3>4. q.count = Len(entered) - Len(left)
      BY <3>1, <3>3, RingFacts
    <3>. QED
      BY <2>1, <3>2, <3>4 DEF Empty
  <2>. QED
    BY <2>2, <2>4, <2>5, AllValues DEF CountInv
<1>. QED
  BY <1>1, <1>2, <1>3, QueueInvariant, PTL DEF Spec

-----------------------------------------------------------------------------
(* minishell: the loop, the handler and the children, for any number of     *)
(* processes and of interrupts, whether or not fork fails.  What carries    *)
(* the proof that the prompt means "done" is LineInv: at each place of the  *)
(* loop, the foreground processes that live are among the one or two whose  *)
(* waitpid is still to come.                                                *)

\* What the last line runs in the foreground.
Busy == {p \in Pid : role[p] \in {"fg", "left", "right"} /\ proc[p] \in {"born", "run"}}

LineInv ==
  /\ pc \in {"prompt", "launch", "left", "exit"} => Busy = {}
  /\ pc \in {"wait", "right"} => Busy \subseteq {pid1}
  /\ pc \in {"close", "wait1"} => Busy \subseteq {pid1, pid2}
  /\ pc = "wait2" => Busy \subseteq {pid2}

Statuses == {"none", "born", "run", "zombie", "gone"}
Roles == {"none", "fg", "bg", "left", "right"}

\* The types one by one.
Types ==
  /\ pc \in Places /\ amp \in BOOLEAN
  /\ pid1 \in Pid \union {0, Failed} /\ pid2 \in Pid \union {0, Failed}
  /\ proc \in [Pid -> Statuses] /\ role \in [Pid -> Roles]
  /\ writers \subseteq {Shell} \union Alive /\ readers \subseteq {Shell} \union Alive
  /\ chld \in BOOLEAN /\ handling \in BOOLEAN
  /\ presses \in Nat /\ presses <= MaxCtrlC
  /\ pc = "wait" => pid1 \in Pid /\ role[pid1] = "fg"

SInv == Types /\ NoZombieForgotten /\ LineInv

\* Types is the type invariant.
LEMMA TypesAreTypeOK == Types <=> ShellTypeOK
BY ShellAssumption DEF Types, ShellTypeOK, Statuses, Roles

\* LineInv speaks of the same processes as PromptMeansDone.
LEMMA LineMeansDone == LineInv => PromptMeansDone
BY DEF LineInv, PromptMeansDone, Busy, Waited, Alive, In

\* A process is none of the other holders.
LEMMA PidIsOther == Shell \notin Pid /\ Failed \notin Pid
BY DEF Shell, Failed, Pid

\* The shell starts without children.
LEMMA InitSInv == ShellInit => SInv
<1> SUFFICES ASSUME ShellInit PROVE SInv
  OBVIOUS
<1>1. Types
  <2>1. presses = 0 /\ 0 <= MaxCtrlC
    BY ShellAssumption DEF ShellInit
  <2>2. proc \in [Pid -> Statuses] /\ role \in [Pid -> Roles]
    BY DEF ShellInit, Statuses, Roles
  <2>3. presses \in Nat /\ presses <= MaxCtrlC
    BY <2>1
  <2>4. amp \in BOOLEAN /\ chld \in BOOLEAN /\ handling \in BOOLEAN
    BY Zenon DEF ShellInit
  <2>5. pc = "prompt" /\ pid1 = 0 /\ pid2 = 0 /\ writers = {} /\ readers = {}
    BY DEF ShellInit
  <2> QED BY <2>2, <2>3, <2>4, <2>5 DEF Types, Places
<1>2. NoZombieForgotten
  BY DEF ShellInit, NoZombieForgotten, Zombies, In
<1>3. LineInv
  BY DEF ShellInit, LineInv, Busy
<1> QED BY <1>1, <1>2, <1>3 DEF SInv

\* A step that leaves the loop where it is keeps LineInv when nothing new runs
\* in the foreground.
LEMMA LineStays ==
  ASSUME LineInv, UNCHANGED <<pc, pid1, pid2>>, Busy' \subseteq Busy
  PROVE  LineInv'
BY DEF LineInv

\* A fork adds one process that lives, and no zombie.
LEMMA Forked ==
  ASSUME Types, NEW p \in Fresh, NEW r \in Roles, Born(p, r)
  PROVE  /\ p \in Pid
         /\ proc' \in [Pid -> Statuses] /\ role' \in [Pid -> Roles]
         /\ role'[p] = r
         /\ Alive' = Alive \union {p} /\ Zombies' = Zombies
         /\ Busy' \subseteq Busy \union {p}
         /\ r = "bg" => Busy' \subseteq Busy
<1>1. p \in Pid /\ proc[p] = "none"
  BY DEF Fresh, Unused, In
<1>2. proc' \in [Pid -> Statuses] /\ role' \in [Pid -> Roles] /\ role'[p] = r
      /\ proc'[p] = "born"
  BY <1>1 DEF Born, Types, Statuses
<1>3. \A x \in Pid \ {p} : proc'[x] = proc[x] /\ role'[x] = role[x]
  BY <1>1 DEF Born, Types
<1>4. Alive' = Alive \union {p} /\ Zombies' = Zombies
  BY <1>1, <1>2, <1>3 DEF Alive, Zombies, In
<1>5. Busy' \subseteq Busy \union {p} /\ (r = "bg" => Busy' \subseteq Busy)
  BY <1>1, <1>2, <1>3 DEF Busy
<1> QED BY <1>1, <1>2, <1>4, <1>5

\* launch_process.
LEMMA LaunchSInv ==
  ASSUME SInv, Launch
  PROVE  SInv'
<1> USE DEF SInv, At, Goto
<1>1. ASSUME NEW p \in Fresh, Born(p, IF amp THEN "bg" ELSE "fg"), pid1' = p,
             Goto(IF amp THEN "prompt" ELSE "wait"),
             UNCHANGED <<amp, pid2, pipe, chld, handling, presses>>, pc = "launch"
      PROVE  SInv'
  <2> DEFINE r == IF amp THEN "bg" ELSE "fg"
  <2>1. r \in Roles
    BY DEF Roles
  <2>2. /\ p \in Pid
        /\ proc' \in [Pid -> Statuses] /\ role' \in [Pid -> Roles]
        /\ role'[p] = r
        /\ Alive' = Alive \union {p} /\ Zombies' = Zombies
        /\ Busy' \subseteq Busy \union {p}
        /\ r = "bg" => Busy' \subseteq Busy
    BY <1>1, <2>1, Forked
  <2>3. Types'
    BY <1>1, <2>2 DEF Types, Places, pipe
  <2>4. NoZombieForgotten'
    BY <1>1, <2>2 DEF NoZombieForgotten
  <2>5. LineInv'
    BY <1>1, <2>2 DEF LineInv
  <2> QED BY <2>3, <2>4, <2>5
<1>2. ASSUME pid1' = Failed, Goto("prompt"), UNCHANGED <<proc, role>>,
             UNCHANGED <<amp, pid2, pipe, chld, handling, presses>>, pc = "launch"
      PROVE  SInv'
  <2>1. Types'
    BY <1>2 DEF Types, Places, pipe, Alive, In
  <2>2. NoZombieForgotten'
    BY <1>2 DEF NoZombieForgotten, Zombies, In
  <2>3. LineInv'
    BY <1>2 DEF LineInv, Busy
  <2> QED BY <2>1, <2>2, <2>3
<1> QED BY <1>1, <1>2 DEF Launch

\* The first fork of a pipe.
LEMMA LeftSInv ==
  ASSUME SInv, PipeLeft
  PROVE  SInv'
<1> USE DEF SInv, At, Goto
<1>1. ASSUME NEW p \in Fresh, Born(p, "left"), pid1' = p,
             writers' = {Shell, p}, readers' = {Shell, p}
      PROVE  SInv'
  <2>1. "left" \in Roles
    BY DEF Roles
  <2>2. /\ p \in Pid
        /\ proc' \in [Pid -> Statuses] /\ role' \in [Pid -> Roles]
        /\ Alive' = Alive \union {p} /\ Zombies' = Zombies
        /\ Busy' \subseteq Busy \union {p}
    BY <1>1, <2>1, Forked
  <2>3. Types'
    BY <1>1, <2>2 DEF Types, Places, PipeLeft
  <2>4. NoZombieForgotten'
    BY <1>1, <2>2 DEF NoZombieForgotten, PipeLeft
  <2>5. LineInv'
    BY <1>1, <2>2 DEF LineInv, PipeLeft
  <2> QED BY <2>3, <2>4, <2>5
<1>2. ASSUME pid1' = Failed, writers' = {Shell}, readers' = {Shell},
             UNCHANGED <<proc, role>>
      PROVE  SInv'
  <2>1. Types'
    BY <1>2 DEF Types, Places, PipeLeft
  <2>2. NoZombieForgotten'
    BY <1>2 DEF NoZombieForgotten, Zombies, In, PipeLeft
  <2>3. LineInv'
    BY <1>2 DEF LineInv, Busy, PipeLeft
  <2> QED BY <2>1, <2>2, <2>3
<1> QED BY <1>1, <1>2 DEF PipeLeft

\* The second fork.
LEMMA RightSInv ==
  ASSUME SInv, PipeRight
  PROVE  SInv'
<1> USE DEF SInv, At, Goto
<1>1. ASSUME NEW p \in Fresh, Born(p, "right"), pid2' = p,
             writers' = writers \union {p}, readers' = readers \union {p}
      PROVE  SInv'
  <2>1. "right" \in Roles
    BY DEF Roles
  <2>2. /\ p \in Pid
        /\ proc' \in [Pid -> Statuses] /\ role' \in [Pid -> Roles]
        /\ Alive' = Alive \union {p} /\ Zombies' = Zombies
        /\ Busy' \subseteq Busy \union {p}
    BY <1>1, <2>1, Forked
  <2>3. Types'
    BY <1>1, <2>2 DEF Types, Places, PipeRight
  <2>4. NoZombieForgotten'
    BY <1>1, <2>2 DEF NoZombieForgotten, PipeRight
  <2>5. LineInv'
    BY <1>1, <2>2 DEF LineInv, PipeRight
  <2> QED BY <2>3, <2>4, <2>5
<1>2. ASSUME pid2' = Failed, UNCHANGED <<proc, role, pipe>>
      PROVE  SInv'
  <2>1. Types'
    BY <1>2 DEF Types, Places, PipeRight, pipe, Alive, In
  <2>2. NoZombieForgotten'
    BY <1>2 DEF NoZombieForgotten, Zombies, In, PipeRight
  <2>3. LineInv'
    BY <1>2 DEF LineInv, Busy, PipeRight
  <2> QED BY <2>1, <2>2, <2>3
<1> QED BY <1>1, <1>2 DEF PipeRight

\* A line, the end, and the closing of the pipe: no process changes.
LEMMA QuietSInv ==
  ASSUME SInv, ReadLine \/ Exit \/ PipeClose
  PROVE  SInv'
<1> USE DEF SInv, At, Goto
<1>1. UNCHANGED <<proc, role, chld, handling, presses>>
  BY DEF ReadLine, Exit, PipeClose
<1>2. Alive' = Alive /\ Zombies' = Zombies /\ Busy' = Busy
  BY <1>1 DEF Alive, Zombies, In, Busy
<1>3. Types'
  BY <1>1, <1>2 DEF Types, Places, ReadLine, Exit, PipeClose, pipe
<1>4. NoZombieForgotten'
  BY <1>1, <1>2 DEF NoZombieForgotten, ReadLine, Exit, PipeClose
<1>5. LineInv'
  BY <1>1, <1>2 DEF LineInv, ReadLine, Exit, PipeClose
<1> QED BY <1>3, <1>4, <1>5

\* A zombie that is reaped: nobody begins or stops to run.
LEMMA Reaped ==
  ASSUME Types, NEW z \in Zombies, proc' = [proc EXCEPT ![z] = "gone"],
         role' = role
  PROVE  /\ proc' \in [Pid -> Statuses]
         /\ Alive' = Alive /\ Zombies' \subseteq Zombies /\ Busy' = Busy
<1>1. z \in Pid /\ proc[z] = "zombie"
  BY DEF Zombies, In
<1>2. proc' \in [Pid -> Statuses] /\ proc'[z] = "gone"
  BY <1>1 DEF Types, Statuses
<1>3. \A x \in Pid \ {z} : proc'[x] = proc[x]
  BY <1>1 DEF Types
<1> QED BY <1>1, <1>2, <1>3 DEF Alive, Zombies, In, Busy

\* waitpid lets the loop go on only when none of those it means is left to run.
LEMMA WaitSInv ==
  ASSUME SInv, WaitForeground \/ WaitLeft \/ WaitRight
  PROVE  SInv'
<1> USE DEF SInv, At, Goto
<1>1. UNCHANGED <<amp, pid1, pid2, role, pipe, chld, handling, presses>>
  BY DEF WaitForeground, WaitLeft, WaitRight, WaitFor
<1>2. /\ proc' \in [Pid -> Statuses]
      /\ Alive' = Alive /\ Zombies' \subseteq Zombies /\ Busy' = Busy
  <2>1. ASSUME NEW z \in Zombies, proc' = [proc EXCEPT ![z] = "gone"]
        PROVE  /\ proc' \in [Pid -> Statuses]
               /\ Alive' = Alive /\ Zombies' \subseteq Zombies /\ Busy' = Busy
    BY <1>1, <2>1, Reaped
  <2>2. CASE UNCHANGED proc
    BY <1>1, <2>2 DEF Types, Alive, Zombies, In, Busy
  <2> QED BY <2>1, <2>2 DEF WaitForeground, WaitLeft, WaitRight, WaitFor
<1>3. Types'
  BY <1>1, <1>2 DEF Types, Places, WaitForeground, WaitLeft, WaitRight,
     WaitFor, pipe
<1>4. NoZombieForgotten'
  BY <1>1, <1>2 DEF NoZombieForgotten, WaitForeground, WaitLeft, WaitRight, WaitFor
<1>5. ASSUME NEW pid \in Pid, NEW from, NEW to, WaitFor(pid, from, to)
      PROVE  pid \notin Busy
  <2>1. Meant(pid) = {pid}
    BY <1>5, PidIsOther DEF Meant
  <2>2. pid \in Zombies \/ pid \notin Alive
    BY <1>5, <2>1 DEF WaitFor
  <2> QED BY <2>2 DEF Zombies, In, Alive, Busy
<1>6. LineInv'
  <2>1. Busy \subseteq Pid
    BY DEF Busy
  <2>2. CASE WaitForeground
    BY <1>1, <1>2, <1>5, <2>1, <2>2 DEF WaitForeground, WaitFor, LineInv, Types
  <2>3. CASE WaitLeft
    <3>1. pc = "wait1" /\ pc' = "wait2" /\ (pid1 \in Pid => pid1 \notin Busy)
      BY <1>5, <2>3 DEF WaitLeft, WaitFor
    <3> QED BY <1>1, <1>2, <2>1, <3>1 DEF LineInv
  <2>4. CASE WaitRight
    <3>1. pc = "wait2" /\ pc' = "prompt" /\ (pid2 \in Pid => pid2 \notin Busy)
      BY <1>5, <2>4 DEF WaitRight, WaitFor
    <3> QED BY <1>1, <1>2, <2>1, <3>1 DEF LineInv
  <2> QED BY <2>2, <2>3, <2>4
<1> QED BY <1>3, <1>4, <1>6

\* The handler turns zombies into nothing, and returns only without one.
LEMMA HandlerSInv ==
  ASSUME SInv, HandlerStep
  PROVE  SInv'
<1> USE DEF SInv
<1>1. UNCHANGED <<pc, amp, pid1, pid2, role, pipe, presses>>
  BY DEF HandlerStep, Deliver, Reap, HandlerReturns
<1>2. /\ proc' \in [Pid -> Statuses]
      /\ Alive' = Alive /\ Zombies' \subseteq Zombies /\ Busy' = Busy
  <2>1. CASE Reap
    BY <1>1, <2>1, Reaped DEF Reap
  <2>2. CASE UNCHANGED proc
    BY <1>1, <2>2 DEF Types, Alive, Zombies, In, Busy
  <2> QED BY <2>1, <2>2 DEF HandlerStep, Deliver, HandlerReturns
<1>3. Types'
  BY <1>1, <1>2 DEF Types, HandlerStep, Deliver, Reap, HandlerReturns, pipe
<1>4. NoZombieForgotten'
  BY <1>1, <1>2 DEF NoZombieForgotten, HandlerStep, Deliver, Reap, HandlerReturns
<1>5. LineInv'
  BY <1>1, <1>2, LineStays
<1> QED BY <1>3, <1>4, <1>5

\* A death is always told to the shell.
LEMMA Died ==
  ASSUME SInv, NEW dead \in SUBSET In("run"), Die(dead),
         UNCHANGED <<pc, amp, pid1, pid2, role, handling>>,
         presses' \in Nat, presses' <= MaxCtrlC
  PROVE  SInv'
<1> USE DEF SInv
<1>1. proc' \in [Pid -> Statuses]
  BY DEF Die, Types, Statuses
<1>2. /\ \A x \in dead : proc'[x] = "zombie"
      /\ \A x \in Pid \ dead : proc'[x] = proc[x]
      /\ dead \subseteq Pid
  BY DEF Die, In
<1>3. /\ Alive' = Alive \ dead /\ Zombies' = Zombies \union dead
      /\ Busy' \subseteq Busy
  BY <1>2 DEF Alive, Zombies, In, Busy
<1>4. chld' \in BOOLEAN /\ (dead # {} => chld') /\ (chld => chld')
  BY DEF Die, Types
<1>5. writers' = writers \ dead /\ readers' = readers \ dead
  BY DEF Die
<1>6. Types'
  BY <1>1, <1>3, <1>4, <1>5 DEF Types
<1>7. NoZombieForgotten'
  BY <1>3, <1>4 DEF NoZombieForgotten
<1>8. LineInv'
  BY <1>3, LineStays
<1> QED BY <1>6, <1>7, <1>8

\* The processes and the user.
LEMMA ProcessSInv ==
  ASSUME SInv, CtrlC \/ \E p \in Pid : Start(p) \/ End(p)
  PROVE  SInv'
<1>1. ASSUME NEW p \in Pid, Start(p) PROVE SInv'
  <2> USE DEF SInv
  <2>1. proc' \in [Pid -> Statuses] /\ proc[p] = "born" /\ proc'[p] = "run"
        /\ \A x \in Pid \ {p} : proc'[x] = proc[x]
    BY <1>1 DEF Start, Types, Statuses
  <2>2. Alive' = Alive /\ Zombies' = Zombies /\ Busy' = Busy
    BY <1>1, <2>1 DEF Alive, Zombies, In, Busy, Start
  <2>3. writers' \subseteq writers /\ readers' \subseteq readers
    BY <1>1 DEF Start
  <2>4. Types'
    BY <1>1, <2>1, <2>2, <2>3 DEF Types, Start
  <2>5. NoZombieForgotten'
    BY <1>1, <2>2 DEF NoZombieForgotten, Start
  <2>6. LineInv'
    BY <1>1, <2>2, LineStays DEF Start
  <2> QED BY <2>4, <2>5, <2>6
<1>2. ASSUME NEW p \in Pid, End(p) PROVE SInv'
  BY <1>2, Died DEF End, In, SInv, Types
<1>3. CASE CtrlC
  <2>1. presses' \in Nat /\ presses' <= MaxCtrlC
    BY <1>3, ShellAssumption DEF CtrlC, SInv, Types
  <2> QED BY <1>3, <2>1, Died DEF CtrlC, Mortal
<1> QED BY <1>1, <1>2, <1>3

\* The invariant behind the three that follow.
THEOREM ShellInvariant == ShellSpec => []SInv
<1>1. SInv /\ [ShellNext]_shellVars => SInv'
  <2> SUFFICES ASSUME SInv, [ShellNext]_shellVars PROVE SInv'
    OBVIOUS
  <2>1. CASE UNCHANGED shellVars
    BY <2>1 DEF shellVars, SInv, Types, NoZombieForgotten, LineInv, Busy, Alive,
       Zombies, In, pipe
  <2> QED BY <2>1, LaunchSInv, LeftSInv, RightSInv, QuietSInv, WaitSInv,
       HandlerSInv, ProcessSInv DEF ShellNext, LoopStep
<1> QED BY <1>1, InitSInv, PTL DEF ShellSpec

\* The types, who may hold the pipe, and that launch_process waits only for a
\* process it has made.
THEOREM ShellTypeCorrect == ShellSpec => []ShellTypeOK
BY ShellInvariant, TypesAreTypeOK, PTL DEF SInv

\* Merged signals lose no zombie.
THEOREM ZombiesAreReaped == ShellSpec => []NoZombieForgotten
BY ShellInvariant, PTL DEF SInv

\* At the prompt nothing of the last line runs in the foreground, whoever reaped
\* it and whatever fork failed.
THEOREM PromptIsHonest == ShellSpec => []PromptMeansDone
BY ShellInvariant, LineMeansDone, PTL DEF SInv

-----------------------------------------------------------------------------
(* miniserver.                                                             *)

\* The descriptors in the queue, first in first.
Line == Contents(clients_queue)

Queued(f) == \E k \in 1 .. Len(Line) : Line[k] = f
Held(f) == \E w \in Worker : fd[w] = f

\* The array and its indices hold a line of descriptors.
QueueLineInv == Line \in Seq(Fd) /\ RingOf(clients_queue, Line)

\* A worker has a descriptor unless it looks for one, and sleeps only then.
HandsInv ==
  \A w \in Worker :
    /\ fd[w] = 0 <=> wpc[w] = "take"
    /\ wstate[w] = "q_cond" => wpc[w] = "take"

\* Whoever answers for a descriptor does so alone, and the descriptor is open.
MainInv == cli_fd # 0 => conn[cli_fd] # {} /\ ~Queued(cli_fd) /\ ~Held(cli_fd)

QueuedInv ==
  /\ \A k \in 1 .. Len(Line) : conn[Line[k]] # {} /\ ~Held(Line[k])
  /\ \A j, k \in 1 .. Len(Line) : Line[j] = Line[k] => j = k

HeldInv ==
  /\ \A w \in Worker : fd[w] # 0 => conn[fd[w]] # {}
  /\ \A v, w \in Worker : fd[v] # 0 /\ fd[v] = fd[w] => v = w

\* No open descriptor is forgotten.
OwnedInv == \A f \in Fd : conn[f] # {} => f = cli_fd \/ Queued(f) \/ Held(f)

\* The second write of an answer is made for a GET.
BodyInv == \A w \in Worker : wpc[w] = "body" => conn[fd[w]] \subseteq Getter

ServerInv ==
  /\ ServerTypeOK /\ QueueLineInv /\ HandsInv
  /\ MainInv /\ QueuedInv /\ HeldInv /\ OwnedInv
  /\ BodyInv /\ NoLostServerWakeup /\ AnswersFit
-----------------------------------------------------------------------------

\* The numbers of the descriptors are not 0.
LEMMA FdFacts == Fd \subseteq Nat /\ 0 \notin Fd /\ Fd \subseteq Int
BY ServerAssumption DEF Fd

\* accept hands out a descriptor that is free.
LEMMA MinIsFree == ASSUME Free # {} PROVE Min(Free) \in Free
<1> DEFINE R == OpToRel(<, Nat)
<1>1. Free \subseteq Fd /\ Free \subseteq Nat
  BY FdFacts DEF Free
<1>2. \E x \in Free : \A y \in Free : ~ (<<y, x>> \in R)
  <2> HIDE DEF R
  <2>1. IsWellFoundedOn(R, Nat)
    BY NatLessThanWellFounded DEF R
  <2>. QED
    BY <1>1, <2>1, WFMin
<1>3. PICK x \in Free : \A y \in Free : ~ (<<y, x>> \in R)
  BY <1>2
<1>4. \A y \in Free : x <= y
  <2> SUFFICES ASSUME NEW y \in Free PROVE x <= y
    OBVIOUS
  <2>1. x \in Nat /\ y \in Nat
    BY <1>1
  <2>2. ~(y < x)
    BY <1>3, <2>1 DEF OpToRel
  <2>. QED
    BY <2>1, <2>2
<1>. QED
  BY <1>4 DEF Min

\* The line as a sequence of integers.
LEMMA LineFacts ==
  ASSUME QueueLineInv
  PROVE  /\ Line \in Seq(Int) /\ Len(Line) \in Nat /\ Len(Line) = clients_queue.count
         /\ clients_queue \in Ring(Int)
         /\ \A k \in 1 .. Len(Line) : Line[k] \in Fd
<1>1. Line \in Seq(Fd) /\ clients_queue \in Ring(Int) /\ Len(Line) = clients_queue.count
  BY DEF QueueLineInv, RingOf
<1>2. Len(Line) \in Nat /\ \A k \in 1 .. Len(Line) : Line[k] \in Fd
  BY <1>1
<1>3. Line \in Seq(Int)
  <2>1. \A k \in 1 .. Len(Line) : Line[k] \in Int
    BY <1>2, FdFacts
  <2>2. Line = [k \in 1 .. Len(Line) |-> Line[k]]
    BY <1>1
  <2>. QED
    BY <1>2, <2>1, <2>2
<1>. QED
  BY <1>1, <1>2, <1>3

\* What goes into the queue goes to the end of the line.
LEMMA PushLine ==
  ASSUME QueueLineInv, NEW f \in Fd, ~Full(clients_queue), clients_queue' = Push(clients_queue, f)
  PROVE  Line' = Append(Line, f) /\ QueueLineInv'
<1>1. f \in Int /\ Line \in Seq(Int) /\ Line \in Seq(Fd) /\ RingOf(clients_queue, Line)
  BY FdFacts, LineFacts DEF QueueLineInv
<1>2. RingOf(clients_queue', Append(Line, f))
  BY <1>1, PushAppends
<1>3. Append(Line, f) \in Seq(Int) /\ Append(Line, f) \in Seq(Fd)
  BY <1>1
<1>4. Contents(clients_queue') = Append(Line, f)
  BY <1>2, <1>3, RingOfContents
<1>. QED
  BY <1>2, <1>3, <1>4 DEF Line, QueueLineInv

\* What a worker takes is the first of the line.
LEMMA PopLine ==
  ASSUME QueueLineInv, ~Empty(clients_queue), clients_queue' = Pop(clients_queue)
  PROVE  /\ Len(Line) > 0 /\ Front(clients_queue) = Line[1] /\ Front(clients_queue) \in Fd
         /\ Line' = Tail(Line) /\ QueueLineInv'
<1>1. Line \in Seq(Int) /\ Line \in Seq(Fd) /\ RingOf(clients_queue, Line) /\ Len(Line) = clients_queue.count
  BY LineFacts DEF QueueLineInv
<1>2. Front(clients_queue) = Head(Line) /\ RingOf(clients_queue', Tail(Line))
  BY <1>1, PopRemoves
<1>3. Len(Line) > 0 /\ Line # <<>>
  BY <1>1, LineFacts DEF Empty
<1>4. Tail(Line) \in Seq(Int) /\ Tail(Line) \in Seq(Fd)
  BY <1>1, <1>3
<1>5. Contents(clients_queue') = Tail(Line)
  BY <1>2, <1>4, RingOfContents
<1>6. Front(clients_queue) = Line[1] /\ Line[1] \in Fd
  BY <1>1, <1>2, <1>3
<1>. QED
  BY <1>2, <1>3, <1>4, <1>5, <1>6 DEF Line, QueueLineInv

\* A queue that does not change holds the same line.
LEMMA SameLine ==
  ASSUME QueueLineInv, clients_queue' = clients_queue
  PROVE  Line' = Line /\ QueueLineInv'
BY DEF Line, QueueLineInv

\* The invariant holds at the start.
LEMMA ServerInitInv == ServerInit => ServerInv
<1> SUFFICES ASSUME ServerInit PROVE ServerInv
  OBVIOUS
<1>1. Line = <<>> /\ QueueLineInv /\ Len(Line) = 0 /\ clients_queue \in Ring(Int) /\ clients_queue.count = 0
  BY EmptyLine DEF ServerInit, QueueLineInv, Line
<1>2. ServerTypeOK
  BY <1>1 DEF ServerInit, ServerTypeOK
<1>3. HandsInv /\ BodyInv
  BY DEF ServerInit, HandsInv, BodyInv
<1>4. MainInv /\ HeldInv
  BY DEF ServerInit, MainInv, HeldInv
<1>5. QueuedInv
  BY <1>1 DEF QueuedInv
<1>6. OwnedInv
  BY DEF ServerInit, OwnedInv
<1>7. NoLostServerWakeup
  BY DEF ServerInit, NoLostServerWakeup, Asleep
<1>8. AnswersFit
  BY DEF ServerInit, AnswersFit
<1>. QED
  BY <1>1, <1>2, <1>3, <1>4, <1>5, <1>6, <1>7, <1>8 DEF ServerInv

\* What a signal may do to the states of the workers.
LEMMA SignalFacts ==
  ASSUME ServerTypeOK, wstate' \in AfterSignal(wstate, "q_cond")
  PROVE  \/ Asleep(wstate, "q_cond") = {} /\ wstate' = wstate
         \/ \E t \in Worker : /\ wstate[t] = "q_cond"
                              /\ wstate' = [wstate EXCEPT ![t] = "ready"]
BY DEF AfterSignal, Asleep, ServerTypeOK

\* Every state has the types of the declarations.
LEMMA TypeStep ==
  ASSUME ServerInv, [ServerNext]_serverVars
  PROVE  ServerTypeOK' /\ QueueLineInv'
<1> USE DEF ServerInv
<1>0. ServerTypeOK /\ QueueLineInv
  OBVIOUS
<1>1. ASSUME NEW c \in Client, Connect(c)
      PROVE  ServerTypeOK' /\ QueueLineInv'
  BY <1>0, <1>1, SameLine DEF Connect, ServerTypeOK
<1>2. ASSUME NEW c \in Client, ClientLeaves(c)
      PROVE  ServerTypeOK' /\ QueueLineInv'
  BY <1>0, <1>2, SameLine DEF ClientLeaves, ServerTypeOK
<1>3. CASE Accept
  <2>1. Min(Free) \in Fd
    BY <1>3, MinIsFree DEF Accept, Free
  <2>2. Head(backlog) \in Client /\ Tail(backlog) \in Seq(Client)
    BY <1>3 DEF Accept, ServerTypeOK
  <2>. QED
    BY <1>0, <1>3, <2>1, <2>2, SameLine DEF Accept, ServerTypeOK
<1>4. CASE Enqueue
  <2>0. cli_fd \in Fd
    BY <1>0, <1>4 DEF Enqueue, ServerTypeOK
  <2>1. CASE Full(clients_queue)
    <3>1. /\ conn' = [conn EXCEPT ![cli_fd] = {}]
          /\ \E c \in conn[cli_fd] : Gets(c, "refused")
          /\ clients_queue' = clients_queue /\ wstate' = wstate
      BY <1>4, <2>1 DEF Enqueue, Refuse
    <3>2. answer' \in [Client -> {"none", "header", "ok", "bad", "refused"}]
      BY <1>0, <2>0, <3>1 DEF Gets, ServerTypeOK
    <3>3. conn' \in [Fd -> {{}} \union {{c} : c \in Client}]
      BY <1>0, <2>0, <3>1 DEF ServerTypeOK
    <3>. QED
      BY <1>0, <1>4, <3>1, <3>2, <3>3, SameLine DEF Enqueue, ServerTypeOK
  <2>2. CASE ~Full(clients_queue)
    <3>1. /\ clients_queue' = Push(clients_queue, cli_fd) /\ wstate' \in AfterSignal(wstate, "q_cond")
          /\ UNCHANGED <<conn, answer, up, backlog, fd, wpc, phase>> /\ cli_fd' = 0
      BY <1>4, <2>2 DEF Enqueue
    <3>2. QueueLineInv'
      BY <1>0, <2>0, <2>2, <3>1, PushLine
    <3>3. clients_queue' \in Ring(Int)
      BY <3>2 DEF QueueLineInv, RingOf
    <3>4. wstate' \in [Worker -> {"ready", "q_cond"}]
      BY <1>0, <3>1, SignalFacts DEF ServerTypeOK
    <3>. QED
      BY <1>0, <3>1, <3>2, <3>3, <3>4 DEF ServerTypeOK
  <2>. QED
    BY <2>1, <2>2
<1>5. ASSUME NEW w \in Worker, TakeFd(w)
      PROVE  ServerTypeOK' /\ QueueLineInv'
  <2>1. CASE Empty(clients_queue)
    <3>1. wstate' = Waits(wstate, w, "q_cond") /\ UNCHANGED <<clients_queue, fd, wpc>>
      BY <1>5, <2>1 DEF TakeFd
    <3>. QED
      BY <1>0, <1>5, <3>1, SameLine DEF TakeFd, Waits, ServerTypeOK
  <2>2. CASE ~Empty(clients_queue)
    <3>1. /\ fd' = [fd EXCEPT ![w] = Front(clients_queue)] /\ clients_queue' = Pop(clients_queue)
          /\ wpc' = [wpc EXCEPT ![w] = "read"] /\ wstate' = wstate
      BY <1>5, <2>2 DEF TakeFd
    <3>2. QueueLineInv' /\ Front(clients_queue) \in Fd
      BY <1>0, <2>2, <3>1, PopLine
    <3>3. clients_queue' \in Ring(Int)
      BY <3>2 DEF QueueLineInv, RingOf
    <3>. QED
      BY <1>0, <1>5, <3>1, <3>2, <3>3 DEF TakeFd, ServerTypeOK
  <2>. QED
    BY <2>1, <2>2
<1>6. ASSUME NEW w \in Worker, Read(w)
      PROVE  ServerTypeOK' /\ QueueLineInv'
  <2>0. fd[w] \in Fd
    BY <1>0, <1>6 DEF Read, HandsInv, ServerTypeOK
  <2>1. PICK c \in conn[fd[w]] :
          \/ c \in Getter /\ Gets(c, "header") /\ wpc' = [wpc EXCEPT ![w] = "body"]
          \/ c \in Poster /\ Gets(c, "bad") /\ wpc' = [wpc EXCEPT ![w] = "close"]
          \/ c \in Mute /\ wpc' = [wpc EXCEPT ![w] = "close"] /\ answer' = answer
    BY <1>6 DEF Read
  <2>2. c \in Client
    BY <2>1 DEF Client
  <2>3. answer' \in [Client -> {"none", "header", "ok", "bad", "refused"}]
    BY <1>0, <2>1, <2>2 DEF Gets, ServerTypeOK
  <2>4. wpc' \in [Worker -> {"take", "read", "body", "close"}]
    BY <1>0, <2>1 DEF ServerTypeOK
  <2>. QED
    BY <1>0, <1>6, <2>3, <2>4, SameLine DEF Read, ServerTypeOK
<1>7. ASSUME NEW w \in Worker, WriteBody(w)
      PROVE  ServerTypeOK' /\ QueueLineInv'
  <2>1. answer' \in [Client -> {"none", "header", "ok", "bad", "refused"}]
    <3>1. PICK c \in conn[fd[w]] : Gets(c, "ok")
      BY <1>7 DEF WriteBody
    <3>. QED
      BY <1>0, <3>1 DEF Gets, ServerTypeOK
  <2>. QED
    BY <1>0, <1>7, <2>1, SameLine DEF WriteBody, ServerTypeOK
<1>8. ASSUME NEW w \in Worker, CloseFd(w)
      PROVE  ServerTypeOK' /\ QueueLineInv'
  BY <1>0, <1>8, SameLine DEF CloseFd, ServerTypeOK
<1>9. ASSUME NEW w \in Worker, SigPipe(w)
      PROVE  ServerTypeOK' /\ QueueLineInv'
  <2>1. clients_queue' = EmptyRing /\ Line' = <<>>
    BY <1>9, EmptyLine DEF SigPipe, Line
  <2>2. QueueLineInv' /\ clients_queue' \in Ring(Int)
    BY <2>1, EmptyLine DEF QueueLineInv
  <2>3. /\ conn' \in [Fd -> {{}} \union {{c} : c \in Client}]
        /\ fd' \in [Worker -> Fd \union {0}]
        /\ wstate' \in [Worker -> {"ready", "q_cond"}]
        /\ wpc' \in [Worker -> {"take", "read", "body", "close"}]
    BY <1>9 DEF SigPipe
  <2>4. backlog' \in Seq(Client) /\ cli_fd' \in Fd \union {0} /\ phase' = phase /\ answer' = answer
    BY <1>9 DEF SigPipe
  <2>5. up' \in BOOLEAN
    BY <1>9 DEF SigPipe
  <2>. QED
    BY <1>0, <2>2, <2>3, <2>4, <2>5 DEF ServerTypeOK
<1>10. ASSUME NEW w \in Worker, SpuriousWake(w)
       PROVE  ServerTypeOK' /\ QueueLineInv'
  BY <1>0, <1>10, SameLine DEF SpuriousWake, ServerTypeOK
<1>11. CASE UNCHANGED serverVars
  BY <1>0, <1>11, SameLine DEF serverVars, ServerTypeOK
<1>. QED
  BY <1>1, <1>2, <1>3, <1>4, <1>5, <1>6, <1>7, <1>8, <1>9, <1>10, <1>11
     DEF ServerNext, WorkerStep

-----------------------------------------------------------------------------

\* The steps that move a descriptor from one owner to another.
Refused == Enqueue /\ Full(clients_queue)
Pushed == Enqueue /\ ~Full(clients_queue)
Taken(w) == TakeFd(w) /\ ~Empty(clients_queue)

\* All others leave descriptors, owners and the queue as they are.
LEMMA OwnerCases ==
  ASSUME [ServerNext]_serverVars
  PROVE  \/ UNCHANGED <<cli_fd, conn, clients_queue, fd>>
         \/ Accept \/ Refused \/ Pushed
         \/ \E w \in Worker : Taken(w) \/ CloseFd(w) \/ SigPipe(w)
<1>1. ASSUME NEW c \in Client, Connect(c) \/ ClientLeaves(c)
      PROVE  UNCHANGED <<cli_fd, conn, clients_queue, fd>>
  BY <1>1 DEF Connect, ClientLeaves
<1>2. ASSUME NEW w \in Worker, TakeFd(w), Empty(clients_queue)
      PROVE  UNCHANGED <<cli_fd, conn, clients_queue, fd>>
  BY <1>2 DEF TakeFd
<1>3. ASSUME NEW w \in Worker, Read(w) \/ WriteBody(w) \/ SpuriousWake(w)
      PROVE  UNCHANGED <<cli_fd, conn, clients_queue, fd>>
  BY <1>3 DEF Read, WriteBody, SpuriousWake
<1>4. CASE UNCHANGED serverVars
  BY <1>4 DEF serverVars
<1>. QED
  BY <1>1, <1>2, <1>3, <1>4 DEF ServerNext, WorkerStep, Refused, Pushed, Taken

\* A descriptor keeps one owner while it is open, and none when it is closed.
LEMMA OwnerStep ==
  ASSUME ServerInv, [ServerNext]_serverVars
  PROVE  MainInv' /\ QueuedInv' /\ HeldInv' /\ OwnedInv'
<1>0. ServerTypeOK /\ QueueLineInv /\ HandsInv /\ MainInv /\ QueuedInv /\ HeldInv /\ OwnedInv
  BY DEF ServerInv
<1>1. /\ cli_fd \in Fd \union {0} /\ conn \in [Fd -> {{}} \union {{c} : c \in Client}]
      /\ fd \in [Worker -> Fd \union {0}]
      /\ 0 \notin Fd /\ Fd \subseteq Nat
      /\ Line \in Seq(Fd) /\ Len(Line) \in Nat
      /\ \A k \in 1 .. Len(Line) : Line[k] \in Fd
  BY <1>0, FdFacts, LineFacts DEF ServerTypeOK, QueueLineInv
<1>2. CASE UNCHANGED <<cli_fd, conn, clients_queue, fd>>
  <2>1. Line' = Line /\ cli_fd' = cli_fd /\ conn' = conn /\ fd' = fd
    BY <1>0, <1>2, SameLine
  <2>. QED
    BY <1>0, <2>1 DEF MainInv, QueuedInv, HeldInv, OwnedInv, Queued, Held
<1>3. CASE Accept
  <2> DEFINE f == Min(Free)
  <2>1. f \in Fd /\ conn[f] = {}
    BY <1>3, MinIsFree DEF Accept, Free
  <2>2. cli_fd = 0 /\ cli_fd' = f /\ fd' = fd /\ Line' = Line
        /\ conn' = [conn EXCEPT ![f] = {Head(backlog)}]
    BY <1>0, <1>3, SameLine DEF Accept
  <2> HIDE DEF f
  <2>3. \A g \in Fd : conn'[g] = IF g = f THEN {Head(backlog)} ELSE conn[g]
    BY <1>1, <2>1, <2>2
  <2>4. ~Queued(f) /\ ~Held(f)
    BY <1>0, <1>1, <2>1 DEF QueuedInv, HeldInv, Queued, Held
  <2>5. MainInv'
    <3>1. conn'[f] # {}
      BY <2>1, <2>3
    <3>2. /\ \A k \in 1 .. Len(Line') : Line'[k] # f
          /\ \A w \in Worker : fd'[w] # f
      BY <2>2, <2>4 DEF Queued, Held
    <3>. QED
      BY <2>2, <3>1, <3>2 DEF MainInv, Queued, Held
  <2>6. QueuedInv'
    BY <1>0, <1>1, <2>2, <2>3 DEF QueuedInv, Held
  <2>7. HeldInv'
    BY <1>0, <1>1, <2>2, <2>3 DEF HeldInv
  <2>8. OwnedInv'
    BY <1>0, <1>1, <2>2, <2>3 DEF OwnedInv, Queued, Held
  <2>. QED
    BY <2>5, <2>6, <2>7, <2>8
<1>4. CASE Refused
  <2>1. cli_fd \in Fd /\ cli_fd' = 0 /\ fd' = fd /\ Line' = Line
        /\ conn' = [conn EXCEPT ![cli_fd] = {}]
    BY <1>0, <1>1, <1>4, SameLine DEF Refused, Enqueue, Refuse
  <2>2. \A g \in Fd : conn'[g] = IF g = cli_fd THEN {} ELSE conn[g]
    BY <1>1, <2>1
  <2>3. ~Queued(cli_fd) /\ ~Held(cli_fd)
    BY <1>0, <1>1, <2>1 DEF MainInv
  <2>4. MainInv'
    BY <2>1 DEF MainInv
  <2>5. QueuedInv'
    BY <1>0, <1>1, <2>1, <2>2, <2>3 DEF QueuedInv, Queued, Held
  <2>6. HeldInv'
    BY <1>0, <1>1, <2>1, <2>2, <2>3 DEF HeldInv, Held
  <2>7. OwnedInv'
    BY <1>0, <1>1, <2>1, <2>2 DEF OwnedInv, Queued, Held
  <2>. QED
    BY <2>4, <2>5, <2>6, <2>7
<1>5. CASE Pushed
  <2> DEFINE f == cli_fd
  <2>1. f \in Fd /\ cli_fd' = 0 /\ fd' = fd /\ conn' = conn /\ Line' = Append(Line, f)
    BY <1>0, <1>1, <1>5, PushLine DEF Pushed, Enqueue
  <2>2. conn[f] # {} /\ ~Queued(f) /\ ~Held(f)
    BY <1>0, <1>1, <2>1 DEF MainInv
  <2> HIDE DEF f
  <2>3. /\ Len(Line') = Len(Line) + 1 /\ Line'[Len(Line) + 1] = f
        /\ \A k \in 1 .. Len(Line) : Line'[k] = Line[k]
        /\ \A k \in 1 .. Len(Line') : k \in 1 .. Len(Line) \/ k = Len(Line) + 1
        /\ Len(Line) + 1 \in 1 .. Len(Line')
        /\ \A k \in 1 .. Len(Line) : k \in 1 .. Len(Line')
    BY <1>1, <2>1
  <2>4. MainInv'
    BY <2>1 DEF MainInv
  <2>5. QueuedInv'
    BY <1>0, <1>1, <2>1, <2>2, <2>3 DEF QueuedInv, Queued, Held
  <2>6. HeldInv'
    BY <1>0, <2>1 DEF HeldInv
  <2>7. OwnedInv'
    <3> SUFFICES ASSUME NEW g \in Fd, conn[g] # {}
                 PROVE  Queued(g)' \/ Held(g)'
      BY <2>1 DEF OwnedInv
    <3>1. CASE g = f
      BY <2>3, <3>1 DEF Queued
    <3>2. CASE Queued(g)
      BY <2>3, <3>2 DEF Queued
    <3>3. CASE Held(g)
      BY <2>1, <3>3 DEF Held
    <3>. QED
      BY <1>0, <3>1, <3>2, <3>3 DEF OwnedInv, f
  <2>. QED
    BY <2>4, <2>5, <2>6, <2>7
<1>6. ASSUME NEW w \in Worker, Taken(w)
      PROVE  MainInv' /\ QueuedInv' /\ HeldInv' /\ OwnedInv'
  <2> DEFINE f == Line[1]
  <2>1. /\ Len(Line) > 0 /\ Line' = Tail(Line) /\ cli_fd' = cli_fd /\ conn' = conn
        /\ fd' = [fd EXCEPT ![w] = f]
    BY <1>0, <1>6, PopLine DEF Taken, TakeFd
  <2>2. fd[w] = 0
    BY <1>0, <1>6 DEF HandsInv, Taken, TakeFd
  <2>3. /\ Len(Line') + 1 = Len(Line) /\ Len(Line') \in Nat
        /\ \A k \in 1 .. Len(Line') : Line'[k] = Line[k + 1] /\ k + 1 \in 1 .. Len(Line)
        /\ \A k \in 1 .. Len(Line) : k # 1 => k - 1 \in 1 .. Len(Line') /\ Line'[k - 1] = Line[k]
        /\ 1 \in 1 .. Len(Line)
    BY <1>1, <2>1
  <2>4. \A v \in Worker : fd'[v] = IF v = w THEN f ELSE fd[v]
    BY <1>1, <2>1
  <2>5. f \in Fd /\ conn[f] # {} /\ ~Held(f) /\ Queued(f)
    BY <1>0, <1>1, <2>3 DEF QueuedInv, Queued
  <2> HIDE DEF f
  <2>6. MainInv'
    <3>1. \A g : Queued(g)' => Queued(g)
      BY <2>3 DEF Queued
    <3>2. \A g : Held(g)' => Held(g) \/ g = f
      BY <2>4 DEF Held
    <3>. QED
      BY <1>0, <2>1, <2>5, <3>1, <3>2 DEF MainInv
  <2>7. QueuedInv'
    <3>1. \A k \in 1 .. Len(Line') : Line'[k] # f
      <4> TAKE k \in 1 .. Len(Line')
      <4>1. Line'[k] = Line[k + 1] /\ k + 1 \in 1 .. Len(Line) /\ k + 1 # 1
        BY <2>3
      <4>. QED
        BY <1>0, <2>3, <4>1 DEF QueuedInv, f
    <3>2. \A k \in 1 .. Len(Line') : conn'[Line'[k]] # {} /\ ~Held(Line'[k])
      <4> TAKE k \in 1 .. Len(Line')
      <4>1. Line'[k] = Line[k + 1] /\ k + 1 \in 1 .. Len(Line)
        BY <2>3
      <4>2. conn[Line[k + 1]] # {} /\ \A v \in Worker : fd[v] # Line[k + 1]
        BY <1>0, <4>1 DEF QueuedInv, Held
      <4>. QED
        BY <2>1, <4>1, <4>2 DEF Held
    <3>3. \A j, k \in 1 .. Len(Line') : Line'[j] = Line'[k] => j = k
      <4> TAKE j, k \in 1 .. Len(Line')
      <4>1. /\ Line'[j] = Line[j + 1] /\ j + 1 \in 1 .. Len(Line)
            /\ Line'[k] = Line[k + 1] /\ k + 1 \in 1 .. Len(Line)
        BY <2>3
      <4>2. Line[j + 1] = Line[k + 1] => j + 1 = k + 1
        BY <1>0, <4>1 DEF QueuedInv
      <4>. QED
        BY <2>3, <4>1, <4>2
    <3>. QED
      BY <2>4, <3>1, <3>2, <3>3 DEF QueuedInv, Held
  <2>8. HeldInv'
    BY <1>0, <1>1, <2>1, <2>2, <2>4, <2>5 DEF HeldInv, Held
  <2>9. OwnedInv'
    <3> SUFFICES ASSUME NEW g \in Fd, conn[g] # {}
                 PROVE  g = cli_fd \/ Queued(g)' \/ Held(g)'
      BY <2>1 DEF OwnedInv
    <3>1. CASE Queued(g)
      <4>1. PICK k \in 1 .. Len(Line) : Line[k] = g
        BY <3>1 DEF Queued
      <4>2. CASE k = 1
        BY <2>4, <4>1, <4>2 DEF Held, f
      <4>3. CASE k # 1
        BY <2>3, <4>1, <4>3 DEF Queued
      <4>. QED
        BY <4>2, <4>3
    <3>2. CASE Held(g)
      BY <1>1, <2>2, <2>4, <3>2 DEF Held
    <3>. QED
      BY <1>0, <3>1, <3>2 DEF OwnedInv
  <2>. QED
    BY <2>6, <2>7, <2>8, <2>9
<1>7. ASSUME NEW w \in Worker, CloseFd(w)
      PROVE  MainInv' /\ QueuedInv' /\ HeldInv' /\ OwnedInv'
  <2> DEFINE f == fd[w]
  <2>1. /\ f \in Fd /\ fd' = [fd EXCEPT ![w] = 0] /\ conn' = [conn EXCEPT ![f] = {}]
        /\ Line' = Line /\ cli_fd' = cli_fd
    BY <1>0, <1>1, <1>7, SameLine DEF CloseFd, HandsInv
  <2>2. f # 0 /\ Held(f)
    BY <1>1, <2>1 DEF Held
  <2>3. \A g \in Fd : conn'[g] = IF g = f THEN {} ELSE conn[g]
    BY <1>1, <2>1
  <2>4. \A v \in Worker : fd'[v] = IF v = w THEN 0 ELSE fd[v]
    BY <1>1, <2>1
  <2>5. \A v \in Worker : v # w => fd[v] # f
    BY <1>0, <2>2 DEF HeldInv
  <2> HIDE DEF f
  <2>6. MainInv'
    BY <1>0, <1>1, <2>1, <2>2, <2>3, <2>4 DEF MainInv, Queued, Held
  <2>7. QueuedInv'
    BY <1>0, <1>1, <2>1, <2>2, <2>3, <2>4 DEF QueuedInv, Held
  <2>8. HeldInv'
    <3>1. ASSUME NEW v \in Worker, fd'[v] # 0
          PROVE  conn'[fd'[v]] # {}
      <4>1. v # w /\ fd'[v] = fd[v] /\ fd[v] \in Fd /\ fd[v] # f
        BY <1>1, <2>4, <2>5, <3>1
      <4>. QED
        BY <1>0, <2>3, <3>1, <4>1 DEF HeldInv
    <3>2. \A v, u \in Worker : fd'[v] # 0 /\ fd'[v] = fd'[u] => v = u
      BY <1>0, <2>4 DEF HeldInv
    <3>. QED
      BY <3>1, <3>2 DEF HeldInv
  <2>9. OwnedInv'
    <3> SUFFICES ASSUME NEW g \in Fd, conn'[g] # {}
                 PROVE  g = cli_fd' \/ Queued(g)' \/ Held(g)'
      BY DEF OwnedInv
    <3>1. g # f /\ conn[g] # {}
      BY <2>3
    <3>2. Held(g) => Held(g)'
      BY <2>4, <3>1 DEF Held, f
    <3>. QED
      BY <1>0, <2>1, <3>1, <3>2 DEF OwnedInv, Queued
  <2>. QED
    BY <2>6, <2>7, <2>8, <2>9
<1>8. ASSUME NEW w \in Worker, SigPipe(w)
      PROVE  MainInv' /\ QueuedInv' /\ HeldInv' /\ OwnedInv'
  <2>1. Line' = <<>> /\ Len(Line') = 0
    BY <1>8, EmptyLine DEF SigPipe, Line
  <2>2. cli_fd' = 0 /\ conn' = [f \in Fd |-> {}] /\ fd' = [v \in Worker |-> 0]
    BY <1>8 DEF SigPipe
  <2>. QED
    BY <2>1, <2>2 DEF MainInv, QueuedInv, HeldInv, OwnedInv
<1>. QED
  BY <1>2, <1>3, <1>4, <1>5, <1>6, <1>7, <1>8, OwnerCases

-----------------------------------------------------------------------------

\* What a worker does next, and what it holds, fit after every step; the body
\* that is still to be written is for a GET.
LEMMA HandsStep ==
  ASSUME ServerInv, [ServerNext]_serverVars
  PROVE  HandsInv' /\ BodyInv'
<1>0. /\ ServerTypeOK /\ QueueLineInv /\ HandsInv /\ MainInv /\ QueuedInv /\ HeldInv /\ BodyInv
      /\ 0 \notin Fd
  BY FdFacts DEF ServerInv
<1>1. ASSUME NEW c \in Client, Connect(c) \/ ClientLeaves(c)
      PROVE  HandsInv' /\ BodyInv'
  BY <1>0, <1>1 DEF Connect, ClientLeaves, HandsInv, BodyInv
<1>2. CASE Accept
  <2>1. conn[Min(Free)] = {} /\ Min(Free) \in Fd
    BY <1>2, MinIsFree DEF Accept, Free
  <2>2. /\ conn' = [conn EXCEPT ![Min(Free)] = {Head(backlog)}]
        /\ fd' = fd /\ wpc' = wpc /\ wstate' = wstate
    BY <1>2 DEF Accept
  <2>3. \A w \in Worker : wpc[w] = "body" => fd[w] \in Fd /\ fd[w] # Min(Free)
    BY <1>0, <2>1 DEF HandsInv, HeldInv, ServerTypeOK
  <2>. QED
    BY <1>0, <2>1, <2>2, <2>3 DEF HandsInv, BodyInv, ServerTypeOK
<1>3. CASE Enqueue
  <2>1. fd' = fd /\ wpc' = wpc
    BY <1>3 DEF Enqueue
  <2>2. \A w \in Worker : wstate'[w] = "q_cond" => wstate[w] = "q_cond"
    BY <1>0, <1>3, SignalFacts DEF Enqueue, ServerTypeOK
  <2>3. \A w \in Worker : wpc[w] = "body" => conn'[fd[w]] = conn[fd[w]]
    <3>1. \/ conn' = conn
          \/ conn' = [conn EXCEPT ![cli_fd] = {}] /\ ~Held(cli_fd)
      BY <1>0, <1>3 DEF Enqueue, Refuse, MainInv
    <3>. QED
      BY <1>0, <3>1 DEF Held, ServerTypeOK, HandsInv
  <2>. QED
    BY <1>0, <2>1, <2>2, <2>3 DEF HandsInv, BodyInv
<1>4. ASSUME NEW w \in Worker, TakeFd(w)
      PROVE  HandsInv' /\ BodyInv'
  <2>1. CASE Empty(clients_queue)
    BY <1>0, <1>4, <2>1 DEF TakeFd, Waits, HandsInv, BodyInv, ServerTypeOK
  <2>2. CASE ~Empty(clients_queue)
    <3>1. Front(clients_queue) \in Fd
      <4>1. clients_queue' = Pop(clients_queue)
        BY <1>4, <2>2 DEF TakeFd
      <4>. QED
        BY <1>0, <2>2, <4>1, PopLine
    <3>2. /\ fd' = [fd EXCEPT ![w] = Front(clients_queue)] /\ wpc' = [wpc EXCEPT ![w] = "read"]
          /\ wstate' = wstate /\ conn' = conn /\ wstate[w] = "ready"
      BY <1>4, <2>2 DEF TakeFd
    <3>. QED
      BY <1>0, <3>1, <3>2 DEF HandsInv, BodyInv, ServerTypeOK
  <2>. QED
    BY <2>1, <2>2
<1>5. ASSUME NEW w \in Worker, Read(w)
      PROVE  HandsInv' /\ BodyInv'
  <2>0. fd[w] \in Fd /\ fd' = fd /\ wstate' = wstate /\ conn' = conn /\ wpc[w] = "read"
    BY <1>0, <1>5 DEF Read, HandsInv, ServerTypeOK
  <2>1. PICK c \in conn[fd[w]] :
          \/ c \in Getter /\ wpc' = [wpc EXCEPT ![w] = "body"]
          \/ wpc' = [wpc EXCEPT ![w] = "close"]
    BY <1>5 DEF Read
  <2>2. conn[fd[w]] = {c}
    BY <1>0, <2>0, <2>1 DEF ServerTypeOK
  <2>. QED
    BY <1>0, <2>0, <2>1, <2>2 DEF HandsInv, BodyInv, ServerTypeOK
<1>6. ASSUME NEW w \in Worker, WriteBody(w)
      PROVE  HandsInv' /\ BodyInv'
  BY <1>0, <1>6 DEF WriteBody, HandsInv, BodyInv, ServerTypeOK
<1>7. ASSUME NEW w \in Worker, CloseFd(w)
      PROVE  HandsInv' /\ BodyInv'
  BY <1>0, <1>7 DEF CloseFd, HandsInv, BodyInv, HeldInv, ServerTypeOK
<1>8. ASSUME NEW w \in Worker, SigPipe(w)
      PROVE  HandsInv' /\ BodyInv'
  BY <1>8 DEF SigPipe, HandsInv, BodyInv
<1>9. ASSUME NEW w \in Worker, SpuriousWake(w)
      PROVE  HandsInv' /\ BodyInv'
  BY <1>0, <1>9 DEF SpuriousWake, HandsInv, BodyInv, ServerTypeOK
<1>10. CASE UNCHANGED serverVars
  BY <1>0, <1>10 DEF serverVars, HandsInv, BodyInv
<1>. QED
  BY <1>1, <1>2, <1>3, <1>4, <1>5, <1>6, <1>7, <1>8, <1>9, <1>10 DEF ServerNext, WorkerStep

-----------------------------------------------------------------------------

\* The workers that will look at the queue.
Awake == {w \in Worker : wstate[w] = "ready" /\ wpc[w] = "take"}

\* They can be counted.
LEMMA AwakeIsFinite ==
  /\ IsFiniteSet(Awake) /\ Cardinality(Awake) \in Nat
  /\ IsFiniteSet(Awake') /\ Cardinality(Awake') \in Nat
BY ServerAssumption, FS_Subset, FS_CardinalityType DEF Awake

\* One more worker is on its way.
LEMMA OneMoreAwake ==
  ASSUME NEW w, Awake' = Awake \union {w}
  PROVE  /\ Cardinality(Awake') >= Cardinality(Awake)
         /\ w \notin Awake => Cardinality(Awake') = Cardinality(Awake) + 1
BY AwakeIsFinite, FS_AddElement

\* A signal for each descriptor is enough.
LEMMA WakeStep ==
  ASSUME ServerInv, [ServerNext]_serverVars
  PROVE  NoLostServerWakeup'
<1>0. /\ ServerTypeOK /\ QueueLineInv /\ HandsInv /\ NoLostServerWakeup
      /\ clients_queue.count \in Nat
  BY LineFacts DEF ServerInv
<1>1. NoLostServerWakeup' <=>
        ((\E w \in Worker : wstate'[w] = "q_cond") => clients_queue'.count <= Cardinality(Awake'))
  <2>1. ServerTypeOK'
    BY TypeStep
  <2>. QED
    BY <2>1 DEF NoLostServerWakeup, Asleep, Awake, ServerTypeOK
<1>2. (\E w \in Worker : wstate[w] = "q_cond") => clients_queue.count <= Cardinality(Awake)
  BY <1>0 DEF NoLostServerWakeup, Asleep, Awake, ServerTypeOK
<1>3. CASE UNCHANGED <<clients_queue, wstate>> /\ Awake' = Awake
  BY <1>1, <1>2, <1>3
<1>4. CASE Pushed
  <2>1. clients_queue'.count = clients_queue.count + 1 /\ wpc' = wpc
    BY <1>4 DEF Pushed, Enqueue, Push
  <2>2. \/ Asleep(wstate, "q_cond") = {} /\ wstate' = wstate
        \/ \E t \in Worker : /\ wstate[t] = "q_cond"
                             /\ wstate' = [wstate EXCEPT ![t] = "ready"]
    BY <1>0, <1>4, SignalFacts DEF Pushed, Enqueue
  <2>3. CASE Asleep(wstate, "q_cond") = {} /\ wstate' = wstate
    BY <1>0, <1>1, <2>3 DEF Asleep, ServerTypeOK
  <2>4. ASSUME NEW t \in Worker, wstate[t] = "q_cond",
               wstate' = [wstate EXCEPT ![t] = "ready"]
        PROVE  NoLostServerWakeup'
    <3>1. t \notin Awake /\ Awake' = Awake \union {t}
      BY <1>0, <2>1, <2>4 DEF Awake, HandsInv, ServerTypeOK
    <3>2. Cardinality(Awake') = Cardinality(Awake) + 1
      BY <3>1, OneMoreAwake
    <3>3. clients_queue.count <= Cardinality(Awake)
      BY <1>2, <2>4
    <3>. QED
      BY <1>0, <1>1, <2>1, <3>2, <3>3, AwakeIsFinite
  <2>. QED
    BY <2>2, <2>3, <2>4
<1>5. ASSUME NEW w \in Worker, Taken(w)
      PROVE  NoLostServerWakeup'
  <2>1. clients_queue'.count = clients_queue.count - 1 /\ wstate' = wstate /\ wpc' = [wpc EXCEPT ![w] = "read"]
    BY <1>5 DEF Taken, TakeFd, Pop
  <2>2. w \in Awake /\ Awake' = Awake \ {w}
    BY <1>0, <1>5, <2>1 DEF Awake, Taken, TakeFd, ServerTypeOK
  <2>3. Cardinality(Awake') = Cardinality(Awake) - 1
    BY <2>2, AwakeIsFinite, FS_RemoveElement
  <2>4. CASE \E v \in Worker : wstate[v] = "q_cond"
    <3>1. clients_queue.count <= Cardinality(Awake)
      BY <1>2, <2>4
    <3>. QED
      BY <1>0, <1>1, <2>1, <2>3, <3>1, AwakeIsFinite
  <2>5. CASE ~ \E v \in Worker : wstate[v] = "q_cond"
    BY <1>1, <2>1, <2>5
  <2>. QED
    BY <2>4, <2>5
<1>6. ASSUME NEW w \in Worker, TakeFd(w), Empty(clients_queue)
      PROVE  NoLostServerWakeup'
  <2>1. clients_queue' = clients_queue /\ clients_queue.count = 0
    BY <1>6 DEF TakeFd, Empty
  <2>. QED
    BY <1>1, <2>1, AwakeIsFinite
<1>7. ASSUME NEW w \in Worker, CloseFd(w) \/ SpuriousWake(w)
      PROVE  NoLostServerWakeup'
  <2>1. /\ clients_queue' = clients_queue /\ Awake' = Awake \union {w}
        /\ \A v \in Worker : wstate'[v] = "q_cond" => wstate[v] = "q_cond"
    <3>1. CASE CloseFd(w)
      <4>1. wstate' = wstate /\ wpc' = [wpc EXCEPT ![w] = "take"] /\ clients_queue' = clients_queue
        BY <3>1 DEF CloseFd
      <4>2. wstate[w] = "ready"
        BY <1>0, <3>1 DEF CloseFd, HandsInv, ServerTypeOK
      <4>. QED
        BY <1>0, <4>1, <4>2 DEF Awake, ServerTypeOK
    <3>2. CASE SpuriousWake(w)
      <4>1. wstate' = [wstate EXCEPT ![w] = "ready"] /\ wpc' = wpc /\ clients_queue' = clients_queue
        BY <3>2 DEF SpuriousWake
      <4>2. wpc[w] = "take"
        BY <1>0, <3>2 DEF SpuriousWake, HandsInv
      <4>. QED
        BY <1>0, <4>1, <4>2 DEF Awake, ServerTypeOK
    <3>. QED
      BY <1>7, <3>1, <3>2
  <2>2. Cardinality(Awake') >= Cardinality(Awake)
    BY <2>1, OneMoreAwake
  <2>. QED
    BY <1>0, <1>1, <1>2, <2>1, <2>2, AwakeIsFinite
<1>8. ASSUME NEW w \in Worker, SigPipe(w)
      PROVE  NoLostServerWakeup'
  BY <1>1, <1>8 DEF SigPipe
<1>9. ASSUME NEW c \in Client, Connect(c) \/ ClientLeaves(c)
      PROVE  UNCHANGED <<clients_queue, wstate>> /\ Awake' = Awake
  BY <1>9 DEF Connect, ClientLeaves, Awake
<1>10. Accept \/ Refused => UNCHANGED <<clients_queue, wstate>> /\ Awake' = Awake
  BY DEF Accept, Refused, Enqueue, Awake
<1>11. ASSUME NEW w \in Worker, Read(w) \/ WriteBody(w)
       PROVE  UNCHANGED <<clients_queue, wstate>> /\ Awake' = Awake
  BY <1>0, <1>11 DEF Read, WriteBody, Awake, ServerTypeOK
<1>12. UNCHANGED serverVars => UNCHANGED <<clients_queue, wstate>> /\ Awake' = Awake
  BY DEF serverVars, Awake
<1>. QED
  BY <1>3, <1>4, <1>5, <1>6, <1>7, <1>8, <1>9, <1>10, <1>11, <1>12
     DEF ServerNext, WorkerStep, Pushed, Refused, Taken

-----------------------------------------------------------------------------

\* Only the client that is written to gets anything, and not when it has left.
LEMMA GetsFacts ==
  ASSUME ServerTypeOK, NEW c \in Client, NEW what, Gets(c, what)
  PROVE  /\ \A d \in Client : d # c => answer'[d] = answer[d]
         /\ answer'[c] = IF phase[c] = "left" THEN answer[c] ELSE what
BY DEF Gets, ServerTypeOK

\* The body of the answer to c is about to be written.
BodyOwed(c) == \E w \in Worker : wpc[w] = "body" /\ conn[fd[w]] = {c}

\* Steps that write nothing and keep the workers at their bodies keep the answers fit.
LEMMA QuietAnswers ==
  ASSUME AnswersFit, answer' = answer,
         \A c \in Client : phase[c] = "left" => phase'[c] = "left",
         ~up => ~up',
         \A c \in Client : BodyOwed(c) => BodyOwed(c)'
  PROVE  AnswersFit'
BY DEF AnswersFit, BodyOwed

\* Each step keeps the answers fit.
LEMMA AnswersStep ==
  ASSUME ServerInv, [ServerNext]_serverVars
  PROVE  AnswersFit'
<1>0. /\ ServerTypeOK /\ HandsInv /\ MainInv /\ HeldInv /\ BodyInv /\ AnswersFit
      /\ 0 \notin Fd
      /\ Getter \cap Poster = {} /\ Mute \cap (Getter \union Poster) = {}
  BY FdFacts, ServerAssumption DEF ServerInv
<1>1. \A w \in Worker : wpc[w] # "take" => fd[w] \in Fd
  BY <1>0 DEF HandsInv, ServerTypeOK
<1>2. ASSUME NEW c \in Client, Connect(c) \/ ClientLeaves(c)
      PROVE  AnswersFit'
  <2>1. \A d \in Client : phase[d] = "left" => phase'[d] = "left"
    BY <1>0, <1>2 DEF Connect, ClientLeaves, ServerTypeOK
  <2>2. answer' = answer /\ up' = up /\ \A d \in Client : BodyOwed(d) => BodyOwed(d)'
    BY <1>2 DEF Connect, ClientLeaves, BodyOwed
  <2>. QED
    BY <1>0, <2>1, <2>2, QuietAnswers
<1>3. CASE Accept
  <2>1. conn[Min(Free)] = {} /\ Min(Free) \in Fd
    BY <1>3, MinIsFree DEF Accept, Free
  <2>2. /\ conn' = [conn EXCEPT ![Min(Free)] = {Head(backlog)}]
        /\ fd' = fd /\ wpc' = wpc /\ answer' = answer /\ phase' = phase /\ up' = up
    BY <1>3 DEF Accept
  <2>3. ASSUME NEW w \in Worker, NEW c \in Client, wpc[w] = "body", conn[fd[w]] = {c}
        PROVE  conn'[fd[w]] = {c}
    <3>1. fd[w] # Min(Free)
      BY <2>1, <2>3
    <3>. QED
      BY <1>0, <1>1, <2>2, <2>3, <3>1 DEF ServerTypeOK
  <2>4. \A c \in Client : BodyOwed(c) => BodyOwed(c)'
    BY <2>2, <2>3 DEF BodyOwed
  <2>. QED
    BY <1>0, <2>2, <2>4, QuietAnswers
<1>4. CASE Pushed
  <2>1. UNCHANGED <<answer, phase, up, conn, fd, wpc>>
    BY <1>4 DEF Pushed, Enqueue
  <2>2. \A c \in Client : BodyOwed(c) => BodyOwed(c)'
    BY <2>1 DEF BodyOwed
  <2>. QED
    BY <1>0, <2>1, <2>2, QuietAnswers
<1>5. CASE Refused
  <2>1. /\ conn' = [conn EXCEPT ![cli_fd] = {}] /\ ~Held(cli_fd)
        /\ UNCHANGED <<fd, wpc, phase, up>>
    BY <1>0, <1>5 DEF Refused, Enqueue, Refuse, MainInv
  <2>2. PICK c \in conn[cli_fd] : Gets(c, "refused")
    BY <1>5 DEF Refused, Enqueue, Refuse
  <2>3. c \in Client
    <3>1. cli_fd \in Fd
      BY <1>0, <1>5 DEF Refused, Enqueue, ServerTypeOK
    <3>. QED
      BY <1>0, <2>2, <3>1 DEF ServerTypeOK
  <2>4. \A d \in Client : answer'[d] = answer[d] \/ answer'[d] = "refused"
    BY <1>0, <2>2, <2>3, GetsFacts
  <2>5. \A w \in Worker : wpc[w] = "body" => conn'[fd[w]] = conn[fd[w]]
    BY <1>0, <1>1, <2>1 DEF Held, ServerTypeOK
  <2>. QED
    BY <1>0, <2>1, <2>4, <2>5 DEF AnswersFit
<1>6. ASSUME NEW w \in Worker, TakeFd(w)
      PROVE  AnswersFit'
  <2>1. UNCHANGED <<answer, phase, up, conn>> /\ wpc[w] = "take"
    BY <1>6 DEF TakeFd
  <2>2. \A v \in Worker : v # w => fd'[v] = fd[v] /\ wpc'[v] = wpc[v]
    BY <1>0, <1>6 DEF TakeFd, ServerTypeOK
  <2>3. \A c \in Client : BodyOwed(c) => BodyOwed(c)'
    <3> SUFFICES ASSUME NEW c \in Client, NEW v \in Worker,
                        wpc[v] = "body", conn[fd[v]] = {c}
                 PROVE  BodyOwed(c)'
      BY DEF BodyOwed
    <3>1. v # w
      BY <2>1
    <3>. QED
      BY <2>1, <2>2, <3>1 DEF BodyOwed
  <2>. QED
    BY <1>0, <2>1, <2>3, QuietAnswers
<1>7. ASSUME NEW w \in Worker, Read(w)
      PROVE  AnswersFit'
  <2>0. fd[w] \in Fd /\ wpc[w] = "read" /\ UNCHANGED <<up, conn, fd, phase>>
    BY <1>1, <1>7 DEF Read
  <2>1. PICK c \in conn[fd[w]] :
          \/ c \in Getter /\ Gets(c, "header") /\ wpc' = [wpc EXCEPT ![w] = "body"]
          \/ c \in Poster /\ Gets(c, "bad") /\ wpc' = [wpc EXCEPT ![w] = "close"]
          \/ wpc' = [wpc EXCEPT ![w] = "close"] /\ answer' = answer
    BY <1>7 DEF Read
  <2>2. c \in Client /\ conn[fd[w]] = {c}
    BY <1>0, <2>0, <2>1 DEF ServerTypeOK
  <2>3. \A v \in Worker : wpc[v] = "body" => wpc'[v] = "body"
    BY <1>0, <2>0, <2>1 DEF ServerTypeOK
  <2>4. \A d \in Client : BodyOwed(d) => BodyOwed(d)'
    BY <2>0, <2>3 DEF BodyOwed
  <2>5. CASE c \in Getter /\ Gets(c, "header") /\ wpc' = [wpc EXCEPT ![w] = "body"]
    <3>1. /\ \A d \in Client : d # c => answer'[d] = answer[d]
          /\ answer'[c] = IF phase[c] = "left" THEN answer[c] ELSE "header"
      BY <1>0, <2>2, <2>5, GetsFacts
    <3>2. BodyOwed(c)'
      BY <1>0, <2>0, <2>2, <2>5 DEF BodyOwed, ServerTypeOK
    <3>. QED
      BY <1>0, <2>0, <2>4, <2>5, <3>1, <3>2 DEF AnswersFit, BodyOwed
  <2>6. CASE c \in Poster /\ Gets(c, "bad")
    <3>1. /\ \A d \in Client : d # c => answer'[d] = answer[d]
          /\ answer'[c] = IF phase[c] = "left" THEN answer[c] ELSE "bad"
      BY <1>0, <2>2, <2>6, GetsFacts
    <3>. QED
      BY <1>0, <2>0, <2>4, <2>6, <3>1 DEF AnswersFit, BodyOwed
  <2>7. CASE answer' = answer
    BY <1>0, <2>0, <2>4, <2>7, QuietAnswers
  <2>. QED
    BY <2>1, <2>5, <2>6, <2>7
<1>8. ASSUME NEW w \in Worker, WriteBody(w)
      PROVE  AnswersFit'
  <2>0. /\ fd[w] \in Fd /\ wpc[w] = "body" /\ wpc' = [wpc EXCEPT ![w] = "close"]
        /\ UNCHANGED <<up, conn, fd, phase>>
    BY <1>1, <1>8 DEF WriteBody
  <2>1. PICK c \in conn[fd[w]] : Gets(c, "ok")
    BY <1>8 DEF WriteBody
  <2>2. c \in Client /\ conn[fd[w]] = {c} /\ c \in Getter
    BY <1>0, <2>0, <2>1 DEF ServerTypeOK, BodyInv
  <2>3. /\ \A d \in Client : d # c => answer'[d] = answer[d]
        /\ answer'[c] = IF phase[c] = "left" THEN answer[c] ELSE "ok"
    BY <1>0, <2>1, <2>2, GetsFacts
  <2>4. \A v \in Worker : v # w => wpc'[v] = wpc[v]
    BY <1>0, <2>0 DEF ServerTypeOK
  <2>5. \A d \in Client : d # c => (BodyOwed(d) => BodyOwed(d)')
    <3> SUFFICES ASSUME NEW d \in Client, d # c, NEW v \in Worker,
                        wpc[v] = "body", conn[fd[v]] = {d}
                 PROVE  BodyOwed(d)'
      BY DEF BodyOwed
    <3>1. v # w
      BY <2>2
    <3>. QED
      BY <2>0, <2>4, <3>1 DEF BodyOwed
  <2>. QED
    BY <1>0, <2>0, <2>2, <2>3, <2>5 DEF AnswersFit, BodyOwed
<1>9. ASSUME NEW w \in Worker, CloseFd(w)
      PROVE  AnswersFit'
  <2>0. /\ fd[w] \in Fd /\ wpc[w] = "close"
        /\ conn' = [conn EXCEPT ![fd[w]] = {}] /\ fd' = [fd EXCEPT ![w] = 0]
        /\ wpc' = [wpc EXCEPT ![w] = "take"] /\ UNCHANGED <<up, answer, phase>>
    BY <1>1, <1>9 DEF CloseFd
  <2>1. ASSUME NEW c \in Client, NEW v \in Worker, wpc[v] = "body", conn[fd[v]] = {c}
        PROVE  BodyOwed(c)'
    <3>1. v # w /\ fd[v] \in Fd /\ fd[v] # fd[w]
      BY <1>0, <1>1, <2>0, <2>1 DEF HeldInv
    <3>2. wpc'[v] = "body" /\ fd'[v] = fd[v] /\ conn'[fd[v]] = {c}
      BY <1>0, <2>0, <2>1, <3>1 DEF ServerTypeOK
    <3>. QED
      BY <3>2 DEF BodyOwed
  <2>2. \A c \in Client : BodyOwed(c) => BodyOwed(c)'
    BY <2>1 DEF BodyOwed
  <2>. QED
    BY <1>0, <2>0, <2>2, QuietAnswers
<1>10. ASSUME NEW w \in Worker, SigPipe(w)
       PROVE  AnswersFit'
  BY <1>0, <1>10 DEF SigPipe, AnswersFit
<1>11. ASSUME NEW w \in Worker, SpuriousWake(w)
       PROVE  AnswersFit'
  BY <1>0, <1>11 DEF SpuriousWake, AnswersFit
<1>12. CASE UNCHANGED serverVars
  BY <1>0, <1>12 DEF serverVars, AnswersFit
<1>. QED
  BY <1>2, <1>3, <1>4, <1>5, <1>6, <1>7, <1>8, <1>9, <1>10, <1>11, <1>12
     DEF ServerNext, WorkerStep, Pushed, Refused

-----------------------------------------------------------------------------

\* What holds between any two steps of main and the workers.
THEOREM ServerInvariant == ServerSpec => []ServerInv
<1>1. ServerInv /\ [ServerNext]_serverVars => ServerInv'
  BY TypeStep, HandsStep, OwnerStep, WakeStep, AnswersStep DEF ServerInv
<1>. QED
  BY <1>1, ServerInitInv, PTL DEF ServerSpec

\* Descriptors, positions and answers stay in their ranges (miniserver.c).
THEOREM ServerTypeCorrect == ServerSpec => []ServerTypeOK
<1>1. ServerInv => ServerTypeOK
  BY DEF ServerInv
<1>. QED
  BY <1>1, ServerInvariant, PTL

\* However descriptors are used again, an open one has exactly one owner and a
\* closed one has none: nothing leaks, nothing is closed twice and no worker
\* writes to a client that is not its own.
THEOREM DescriptorsHaveOneOwner == ServerSpec => []OneOwner
<1>1. ServerInv => OneOwner
  <2> SUFFICES ASSUME ServerInv, NEW f \in Fd
               PROVE  Owners(f) = IF conn[f] = {} THEN 0 ELSE 1
    BY DEF OneOwner
  <2> DEFINE K == {k \in 1 .. clients_queue.count : Contents(clients_queue)[k] = f}
             W == {w \in Worker : fd[w] = f}
             m == IF cli_fd = f THEN 1 ELSE 0
  <2>1. /\ MainInv /\ QueuedInv /\ HeldInv /\ OwnedInv
        /\ Len(Line) = clients_queue.count /\ f # 0
    BY LineFacts, FdFacts DEF ServerInv
  <2>2. /\ Queued(f) <=> K # {}
        /\ Held(f) <=> W # {}
    BY <2>1 DEF Queued, Held, Line
  <2>3. Cardinality(K) = IF Queued(f) THEN 1 ELSE 0
    <3>1. CASE Queued(f)
      <4>1. PICK k \in K : TRUE
        BY <2>2, <3>1
      <4>2. K = {k}
        BY <2>1, <4>1 DEF QueuedInv, Line
      <4>. QED
        BY <3>1, <4>2, FS_Singleton
    <3>2. CASE ~Queued(f)
      BY <2>2, <3>2, FS_EmptySet
    <3>. QED
      BY <3>1, <3>2
  <2>4. Cardinality(W) = IF Held(f) THEN 1 ELSE 0
    <3>1. CASE Held(f)
      <4>1. PICK w \in W : TRUE
        BY <2>2, <3>1
      <4>2. W = {w}
        BY <2>1, <4>1 DEF HeldInv
      <4>. QED
        BY <3>1, <4>2, FS_Singleton
    <3>2. CASE ~Held(f)
      BY <2>2, <3>2, FS_EmptySet
    <3>. QED
      BY <3>1, <3>2
  <2>5. Owners(f) = m + Cardinality(K) + Cardinality(W)
    BY DEF Owners
  <2>6. cli_fd = f => conn[f] # {} /\ ~Queued(f) /\ ~Held(f)
    BY <2>1 DEF MainInv
  <2>7. Queued(f) => conn[f] # {} /\ ~Held(f)
    BY <2>1 DEF QueuedInv, Queued, Held
  <2>8. Held(f) => conn[f] # {}
    BY <2>1 DEF HeldInv, Held
  <2>9. conn[f] # {} => cli_fd = f \/ Queued(f) \/ Held(f)
    BY <2>1 DEF OwnedInv
  <2> HIDE DEF K, W
  <2>10. CASE cli_fd = f
    BY <2>3, <2>4, <2>5, <2>6, <2>10
  <2>11. CASE cli_fd # f /\ Queued(f)
    BY <2>3, <2>4, <2>5, <2>7, <2>11
  <2>12. CASE cli_fd # f /\ ~Queued(f)
    BY <2>3, <2>4, <2>5, <2>8, <2>9, <2>12
  <2>. QED
    BY <2>10, <2>11, <2>12
<1>. QED
  BY <1>1, ServerInvariant, PTL

\* One signal for each descriptor that goes into the queue is enough: none waits
\* there for workers that all sleep.
THEOREM WorkersAreWoken == ServerSpec => []NoLostServerWakeup
<1>1. ServerInv => NoLostServerWakeup
  BY DEF ServerInv
<1>. QED
  BY <1>1, ServerInvariant, PTL

\* Each client gets what answers its own request, and the whole of it unless it
\* leaves or the server ends.
THEOREM AnswersAreTheirs == ServerSpec => []AnswersFit
<1>1. ServerInv => AnswersFit
  BY DEF ServerInv
<1>. QED
  BY <1>1, ServerInvariant, PTL
=============================================================================

---------------------------- MODULE ClosingQueue ----------------------------
(***************************************************************************)
(* Producers and consumers around a bounded queue that closes when the     *)
(* last producer ends (bloque05, e06_condvar_queue_cierre).                *)
(*                                                                         *)
(* Every access to shared data is made with the mutex held, so a step of a *)
(* thread is what it does from lock (or from its wake-up) to unlock (or to *)
(* its next wait).  A signal makes one waiting thread ready, which one is  *)
(* not determined; a wait may also end without a signal.                   *)
(***************************************************************************)
EXTENDS RingBuffer, FiniteSets

CONSTANTS
  Producer,   \* the numbers of the producers (ids[])
  Consumer,
  Tasks       \* values per producer (TASKS_PER_PRODUCER)

ASSUME ThreadAssumption ==
  /\ Producer \cap Consumer = {} /\ Consumer # {}
  /\ IsFiniteSet(Producer) /\ IsFiniteSet(Consumer)
  /\ Producer \subseteq Nat
  /\ Tasks \in Nat

\* The i-th value of a producer.
ValueOf(p, i) == p * 1000 + i - 1

Thread == Producer \union Consumer

VARIABLES
  q,        \* the ring buffer
  alive,    \* producers_alive
  made,     \* values each producer has put in
  state,    \* of a thread: "ready" for the mutex, "wait" or "done"
  entered,  \* history: values put in (produced_total is its length)
  left      \* history: values taken out (consumed_total)

vars == <<q, alive, made, state, entered, left>>

Waiting(T) == {t \in T : state[t] = "wait"}

Init ==
  /\ q = EmptyRing
  /\ alive = Cardinality(Producer)
  /\ made = [p \in Producer |-> 0]
  /\ state = [t \in Thread |-> "ready"]
  /\ entered = <<>>
  /\ left = <<>>

\* pthread_cond_wait: t gives the mutex up and sleeps.
Wait(t) ==
  /\ state' = [state EXCEPT ![t] = "wait"]
  /\ UNCHANGED <<q, alive, made, entered, left>>

\* pthread_cond_signal: one of the threads that wait, if any, becomes ready.
Signal(T) ==
  IF Waiting(T) = {} THEN UNCHANGED state
  ELSE \E t \in Waiting(T) : state' = [state EXCEPT ![t] = "ready"]

\* enqueue, with the lock held and a free slot.
Put(p) ==
  LET v == ValueOf(p, made[p] + 1) IN
  /\ q' = Push(q, v)
  /\ entered' = Append(entered, v)
  /\ made' = [made EXCEPT ![p] = @ + 1]
  /\ Signal(Consumer)
  /\ UNCHANGED <<alive, left>>

\* producer, in its loop.
Produce(p) ==
  /\ state[p] = "ready"
  /\ made[p] < Tasks
  /\ IF Full(q) THEN Wait(p) ELSE Put(p)

\* A slip of Close: it wakes one consumer instead of all.
CloseSignal(p) ==
  /\ state[p] = "ready"
  /\ made[p] = Tasks
  /\ alive' = alive - 1
  /\ \E c \in Consumer :
       /\ Waiting(Consumer) # {} => c \in Waiting(Consumer)
       /\ state' = [t \in Thread |->
                      IF t = p THEN "done"
                      ELSE IF t = c /\ state[c] = "wait" THEN "ready"
                      ELSE state[t]]
  /\ UNCHANGED <<q, made, entered, left>>

\* producer, after its loop: the last one closes the queue.
Close(p) ==
  /\ state[p] = "ready"
  /\ made[p] = Tasks
  /\ alive' = alive - 1
  /\ state' = [t \in Thread |->
                 IF t = p THEN "done"
                 ELSE IF t \in Waiting(Consumer) THEN "ready"
                 ELSE state[t]]
  /\ UNCHANGED <<q, made, entered, left>>

\* A slip of Take: no signal to the producers.
TakeQuiet ==
  /\ left' = Append(left, Front(q))
  /\ q' = Pop(q)
  /\ UNCHANGED <<alive, made, state, entered>>

\* dequeue, with the lock held and something to take.
Take ==
  /\ left' = Append(left, Front(q))
  /\ q' = Pop(q)
  /\ Signal(Producer)
  /\ UNCHANGED <<alive, made, entered>>

\* A consumer ends.
Leave(c) ==
  /\ state' = [state EXCEPT ![c] = "done"]
  /\ UNCHANGED <<q, alive, made, entered, left>>

\* A slip of Consume: the consumer leaves without looking for what is left.
ConsumeHasty(c) ==
  /\ state[c] = "ready"
  /\ IF alive = 0 THEN Leave(c)
     ELSE IF Empty(q) THEN Wait(c)
     ELSE Take

\* consumer.
Consume(c) ==
  /\ state[c] = "ready"
  /\ IF Empty(q) /\ alive > 0 THEN Wait(c)
     ELSE IF Empty(q) THEN Leave(c)
     ELSE Take

\* A wait that ends without a signal.
Spurious(t) ==
  /\ state[t] = "wait"
  /\ state' = [state EXCEPT ![t] = "ready"]
  /\ UNCHANGED <<q, alive, made, entered, left>>

\* main has joined every thread.
Joined == (\A t \in Thread : state[t] = "done") /\ UNCHANGED vars

ProducerStep(p) == Produce(p) \/ Close(p)

Next ==
  \/ \E p \in Producer : ProducerStep(p)
  \/ \E c \in Consumer : Consume(c)
  \/ \E t \in Thread : Spurious(t)
  \/ Joined

Spec == Init /\ [][Next]_vars

\* A thread that is ready gets the mutex and the processor; nothing is assumed
\* of wake-ups without a signal.
FairSpec ==
  /\ Spec
  /\ \A p \in Producer : WF_vars(ProducerStep(p))
  /\ \A c \in Consumer : WF_vars(Consume(c))

-----------------------------------------------------------------------------

Produced == {ValueOf(p, i) : p \in Producer, i \in 1 .. Tasks}

TypeOK ==
  /\ q \in Ring(Int)
  /\ alive \in 0 .. Cardinality(Producer)
  /\ made \in [Producer -> 0 .. Tasks]
  /\ state \in [Thread -> {"ready", "wait", "done"}]
  /\ entered \in Seq(Int)
  /\ left \in Seq(Int)

Fifo == INSTANCE BoundedFifo WITH Limit <- Capacity, Value <- Produced

\* The array, its indices and the two conditions implement a bounded FIFO:
\* values leave once, in the order of entry, whichever threads move them.
FifoSpec == Fifo!Spec

\* No lost wake-up: the queue never holds a value while every consumer sleeps
\* or has left, and, when producers sleep beside a free slot, one that has
\* something to put there is awake.
NoLostWakeup ==
  /\ ~Empty(q) => \E c \in Consumer : state[c] = "ready"
  /\ ~Full(q) /\ Waiting(Producer) # {} =>
       \E p \in Producer : state[p] = "ready" /\ made[p] < Tasks

\* A consumer leaves only when all is produced and taken: nothing can come to
\* the queue afterwards.
LeavesLast ==
  (\E c \in Consumer : state[c] = "done") =>
    /\ Len(left) = Cardinality(Producer) * Tasks
    /\ \A p \in Producer : state[p] = "done"

\* main's check succeeds: every thread ends, with every value taken.
AllJoined ==
  <>( /\ \A t \in Thread : state[t] = "done"
      /\ Len(entered) = Cardinality(Producer) * Tasks
      /\ Len(left) = Cardinality(Producer) * Tasks
      /\ Empty(q) )
=============================================================================

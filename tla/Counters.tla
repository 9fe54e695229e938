------------------------------ MODULE Counters ------------------------------
(***************************************************************************)
(* Threads that add to one counter (bloque05), in one of three ways: with  *)
(* two barriers between reading and writing, so that additions are lost on *)
(* purpose (e03_race_condition_demo), with nothing between them, or under  *)
(* a mutex (ej52, both rounds, and e04_mutex_contador_seguro).             *)
(*                                                                         *)
(* An increment loads and stores.  The increments of ej52 that race are    *)
(* compiled as they stand or as one addition for the whole loop; what the  *)
(* second can leave in the counter the first can leave too.                *)
(***************************************************************************)
EXTENDS Naturals, FiniteSets, Condition

CONSTANTS
  Adder,   \* the threads (NUM_THREADS, N_THREADS)
  Iterations    \* ITER, VUELTAS_MONETARIAS

Barrier == {"b_read", "b_write"}

VARIABLES
  way,              \* "barriers", "bare" or "mutex"
  counter,          \* shared_counter, saldo_corrupto, saldo_bancario
  holder,           \* the threads that hold the mutex
  waiting, phase,   \* of a barrier
  at,               \* of a thread: what it does next
  tmp, iter,        \* of a thread: what it has loaded, the turns it has made
  my_phase,         \* of a thread: the phase in which it came to a barrier
  arrived,          \* of a thread: it has been counted at the barrier it is at
  state,            \* of the threads, see Condition
  joined            \* main is past its joins

vars == <<way, counter, holder, waiting, phase, at, tmp, iter, my_phase, arrived, state, joined>>

Init ==
  /\ way \in {"barriers", "bare", "mutex"}
  /\ counter = 0 /\ holder = {}
  /\ waiting = [b \in Barrier |-> 0] /\ phase = [b \in Barrier |-> 0]
  /\ at = [t \in Adder |-> "top"]
  /\ tmp = [t \in Adder |-> 0] /\ iter = [t \in Adder |-> 0]
  /\ my_phase = [t \in Adder |-> 0] /\ arrived = [t \in Adder |-> FALSE]
  /\ state = [t \in Adder |-> "ready"]
  /\ joined = FALSE

Goes(t, place) == at' = [at EXCEPT ![t] = place]

\* The end of a turn.
Again(t) == Goes(t, "top") /\ iter' = [iter EXCEPT ![t] = @ + 1]

\* The loop's test, and pthread_mutex_lock where there is one.
Start(t) ==
  /\ at[t] = "top" /\ iter[t] < Iterations
  /\ way = "mutex" => holder = {}
  /\ holder' = IF way = "mutex" THEN {t} ELSE {}
  /\ Goes(t, "load")
  /\ UNCHANGED <<way, counter, waiting, phase, tmp, iter, my_phase, arrived, state, joined>>

Load(t) ==
  /\ at[t] = "load"
  /\ tmp' = [tmp EXCEPT ![t] = counter]
  /\ Goes(t, IF way = "barriers" THEN "b_read" ELSE "store")
  /\ UNCHANGED <<way, counter, holder, waiting, phase, iter, my_phase, arrived, state, joined>>

Store(t) ==
  /\ at[t] = "store"
  /\ counter' = tmp[t] + 1
  /\ \/ way = "barriers" /\ Goes(t, "b_write") /\ UNCHANGED iter
     \/ way = "bare" /\ Again(t)
     \/ way = "mutex" /\ Goes(t, "unlock") /\ UNCHANGED iter
  /\ UNCHANGED <<way, holder, waiting, phase, tmp, my_phase, arrived, state, joined>>

\* pthread_mutex_unlock
Unlock(t) ==
  /\ at[t] = "unlock"
  /\ holder' = holder \ {t}
  /\ Again(t)
  /\ UNCHANGED <<way, counter, waiting, phase, tmp, my_phase, arrived, state, joined>>

\* What a thread does after barrier_wait.
Past(t, b) ==
  /\ arrived' = [arrived EXCEPT ![t] = FALSE]
  /\ IF b = "b_read" THEN Goes(t, "store") /\ UNCHANGED iter ELSE Again(t)

\* barrier_wait, up to its first wait or to its end.
Arrive(t, b) ==
  /\ at[t] = b /\ ~arrived[t]
  /\ my_phase' = [my_phase EXCEPT ![t] = phase[b]]
  /\ IF waiting[b] + 1 = Cardinality(Adder)
     THEN /\ waiting' = [waiting EXCEPT ![b] = 0]
          /\ phase' = [phase EXCEPT ![b] = @ + 1]
          /\ state' = AfterBroadcast(state, b)
          /\ Past(t, b)
     ELSE /\ waiting' = [waiting EXCEPT ![b] = @ + 1]
          /\ state' = Waits(state, t, b)
          /\ arrived' = [arrived EXCEPT ![t] = TRUE]
          /\ UNCHANGED <<phase, at, iter>>
  /\ UNCHANGED <<way, counter, holder, tmp, joined>>

\* A slip of Wake: a thread that wakes up does not look at the phase.
WakeTrusting(t, b) ==
  /\ at[t] = b /\ arrived[t] /\ state[t] = "ready"
  /\ Past(t, b)
  /\ UNCHANGED <<way, counter, holder, waiting, phase, tmp, my_phase, state, joined>>

\* barrier_wait, from a wake-up to the next wait or to its end.
Wake(t, b) ==
  /\ at[t] = b /\ arrived[t] /\ state[t] = "ready"
  /\ IF my_phase[t] = phase[b]
     THEN state' = Waits(state, t, b) /\ UNCHANGED <<at, iter, arrived>>
     ELSE Past(t, b) /\ UNCHANGED state
  /\ UNCHANGED <<way, counter, holder, waiting, phase, tmp, my_phase, joined>>

\* A wait that ends without a signal.
Spurious ==
  /\ \E t \in Adder : /\ state[t] \in Barrier
                      /\ state' = [state EXCEPT ![t] = "ready"]
  /\ UNCHANGED <<way, counter, holder, waiting, phase, at, tmp, iter, my_phase, arrived, joined>>

TurnStep(t) ==
  \/ Start(t) \/ Load(t) \/ Store(t) \/ Unlock(t)
  \/ \E b \in Barrier : Arrive(t, b) \/ Wake(t, b)

\* main has joined every thread.
Join ==
  /\ ~joined
  /\ \A t \in Adder : at[t] = "top" /\ iter[t] = Iterations
  /\ joined' = TRUE
  /\ UNCHANGED <<way, counter, holder, waiting, phase, at, tmp, iter, my_phase, arrived, state>>

Ended == joined /\ UNCHANGED vars

Next == (\E t \in Adder : TurnStep(t)) \/ Spurious \/ Join \/ Ended

Spec == Init /\ [][Next]_vars

-----------------------------------------------------------------------------

\* With the barriers no thread is ever more than the turn it makes away from the
\* counter, so that each turn of all threads adds exactly one, as the comments of
\* e03 say; under the mutex nothing is lost; with nothing some additions may be
\* lost, but never so many that fewer than two are left.
CounterIsRight ==
  /\ way = "barriers" =>
       /\ \A t \in Adder : counter \in {iter[t], iter[t] + 1}
       /\ \A t \in Adder : at[t] = "store" => counter \in {tmp[t], tmp[t] + 1}
  /\ joined =>
       /\ way = "barriers" => counter = Iterations
       /\ way = "mutex" => counter = Cardinality(Adder) * Iterations
       /\ way = "bare" => /\ counter <= Cardinality(Adder) * Iterations
                          /\ Iterations >= 2 => counter >= 2
=============================================================================

----------------------------- MODULE ThreadPool -----------------------------
(***************************************************************************)
(* A pool of workers that main feeds, stops and joins (bloque05,           *)
(* e09_thread_pool_minimo).  A worker takes a task under the lock of the   *)
(* queue and adds its square to the totals later, under another lock.      *)
(***************************************************************************)
EXTENDS RingBuffer, Condition, FiniteSets, FiniteSetsExt

CONSTANTS
  Worker, Main,
  Tasks   \* main enqueues 1 .. Tasks

Thread == Worker \union {Main}

VARIABLES
  q, stop,
  x,          \* the next task of main
  state,      \* of the threads, see Condition
  task,       \* the task a worker works on; 0 for none
  processed, sum_sq

vars == <<q, stop, x, state, task, processed, sum_sq>>

Init ==
  /\ q = EmptyRing
  /\ stop = FALSE
  /\ x = 1
  /\ state = [t \in Thread |-> "ready"]
  /\ task = [w \in Worker |-> 0]
  /\ processed = 0
  /\ sum_sq = 0

\* enqueue_task(x), from lock or wake-up to unlock or wait.
Enqueue ==
  /\ state[Main] = "ready"
  /\ x <= Tasks
  /\ IF Full(q)
     THEN /\ state' = Waits(state, Main, "cv_not_full")
          /\ UNCHANGED <<q, x>>
     ELSE /\ q' = Push(q, x)
          /\ x' = x + 1
          /\ state' \in AfterSignal(state, "cv_not_empty")
  /\ UNCHANGED <<stop, task, processed, sum_sq>>

\* Slip of Shutdown: a signal for all workers.
ShutdownSignal ==
  /\ state[Main] = "ready"
  /\ x > Tasks /\ ~stop
  /\ stop' = TRUE
  /\ state' \in AfterSignal(state, "cv_not_empty")
  /\ UNCHANGED <<q, x, task, processed, sum_sq>>

\* main, after its last task.
Shutdown ==
  /\ state[Main] = "ready"
  /\ x > Tasks /\ ~stop
  /\ stop' = TRUE
  /\ state' = AfterBroadcast(state, "cv_not_empty")
  /\ UNCHANGED <<q, x, task, processed, sum_sq>>

\* Slip of Dequeue: stop is obeyed before the queue is drained.
DequeueHasty(w) ==
  /\ state[w] = "ready" /\ task[w] = 0
  /\ IF stop
     THEN /\ state' = [state EXCEPT ![w] = "done"]
          /\ UNCHANGED <<q, task>>
     ELSE IF Empty(q)
     THEN /\ state' = Waits(state, w, "cv_not_empty")
          /\ UNCHANGED <<q, task>>
     ELSE /\ task' = [task EXCEPT ![w] = Front(q)]
          /\ q' = Pop(q)
          /\ state' \in AfterSignal(state, "cv_not_full")
  /\ UNCHANGED <<stop, x, processed, sum_sq>>

\* dequeue_task, and the end of the worker when it returns 0.
Dequeue(w) ==
  /\ state[w] = "ready" /\ task[w] = 0
  /\ IF Empty(q)
     THEN /\ state' = IF stop THEN [state EXCEPT ![w] = "done"]
                      ELSE Waits(state, w, "cv_not_empty")
          /\ UNCHANGED <<q, task>>
     ELSE /\ task' = [task EXCEPT ![w] = Front(q)]
          /\ q' = Pop(q)
          /\ state' \in AfterSignal(state, "cv_not_full")
  /\ UNCHANGED <<stop, x, processed, sum_sq>>

\* worker, with stats_m held.
Account(w) ==
  /\ task[w] # 0
  /\ sum_sq' = sum_sq + task[w] * task[w]
  /\ processed' = processed + 1
  /\ task' = [task EXCEPT ![w] = 0]
  /\ UNCHANGED <<q, stop, x, state>>

\* A wait that ends without a signal.
Spurious(t) ==
  /\ state[t] \in {"cv_not_empty", "cv_not_full"}
  /\ state' = [state EXCEPT ![t] = "ready"]
  /\ UNCHANGED <<q, stop, x, task, processed, sum_sq>>

\* main has joined the workers and reads the totals.
Join ==
  /\ stop /\ state[Main] = "ready"
  /\ \A w \in Worker : state[w] = "done"
  /\ state' = [state EXCEPT ![Main] = "done"]
  /\ UNCHANGED <<q, stop, x, task, processed, sum_sq>>

Ended == state[Main] = "done" /\ UNCHANGED vars

Next ==
  \/ Enqueue \/ Shutdown \/ Join
  \/ \E w \in Worker : Dequeue(w) \/ Account(w)
  \/ \E t \in Thread : Spurious(t)
  \/ Ended

Spec == Init /\ [][Next]_vars

\* Every thread that is ready gets the locks and the processor.
FairSpec ==
  /\ Spec
  /\ WF_vars(Enqueue \/ Shutdown \/ Join)
  /\ \A w \in Worker : WF_vars(Dequeue(w) \/ Account(w))

-----------------------------------------------------------------------------

Squares(S) == SumSet({t * t : t \in S})

\* The totals are complete when main has joined: main's own check.
TotalsAtJoin ==
  state[Main] = "done" => processed = Tasks /\ sum_sq = Squares(1 .. Tasks)

\* The pool ends: no worker sleeps through the stop, and main does not sleep
\* beside a free slot.
PoolEnds == <>(state[Main] = "done")
=============================================================================

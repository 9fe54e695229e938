------------------------------- MODULE Limiter -------------------------------
(***************************************************************************)
(* Threads that pass a section for which there are fewer permits than      *)
(* threads (bloque05, e08_semaforo_rate_limiter).  A permit is taken and   *)
(* given back at the semaphore; the counts are kept under another lock,    *)
(* stats_m, and main checks them after its joins.                          *)
(*                                                                         *)
(* A semaphore with a name and one without behave alike.  sem_wait is      *)
(* repeated when a signal interrupts it; it has no other failure here.     *)
(***************************************************************************)
EXTENDS Naturals, FiniteSets

CONSTANTS
  Request,   \* the threads (THREADS)
  Permits    \* CAPACITY

VARIABLES
  sem,       \* the value of the semaphore
  at,        \* of a thread: what it does next, or "done"
  active_now, max_active, done_threads,
  joined     \* main is past its joins

vars == <<sem, at, active_now, max_active, done_threads, joined>>

Init ==
  /\ sem = Permits
  /\ at = [r \in Request |-> "wait"]
  /\ active_now = 0 /\ max_active = 0 /\ done_threads = 0
  /\ joined = FALSE

\* limiter_wait
Wait(r) ==
  /\ at[r] = "wait" /\ sem > 0
  /\ sem' = sem - 1
  /\ at' = [at EXCEPT ![r] = "enter"]
  /\ UNCHANGED <<active_now, max_active, done_threads, joined>>

\* The first block with stats_m held.
Enter(r) ==
  /\ at[r] = "enter"
  /\ active_now' = active_now + 1
  /\ max_active' = IF active_now' > max_active THEN active_now' ELSE max_active
  /\ at' = [at EXCEPT ![r] = "leave"]
  /\ UNCHANGED <<sem, done_threads, joined>>

\* The second block, after the usleep.
Leave(r) ==
  /\ at[r] = "leave"
  /\ active_now' = active_now - 1
  /\ done_threads' = done_threads + 1
  /\ at' = [at EXCEPT ![r] = "post"]
  /\ UNCHANGED <<sem, max_active, joined>>

\* limiter_post
Post(r) ==
  /\ at[r] = "post"
  /\ sem' = sem + 1
  /\ at' = [at EXCEPT ![r] = "done"]
  /\ UNCHANGED <<active_now, max_active, done_threads, joined>>

Request_worker(r) == Wait(r) \/ Enter(r) \/ Leave(r) \/ Post(r)

\* main has joined every thread.
Join ==
  /\ ~joined
  /\ \A r \in Request : at[r] = "done"
  /\ joined' = TRUE
  /\ UNCHANGED <<sem, at, active_now, max_active, done_threads>>

Ended == joined /\ UNCHANGED vars

Next == (\E r \in Request : Request_worker(r)) \/ Join \/ Ended

Spec == Init /\ [][Next]_vars

-----------------------------------------------------------------------------

\* At every moment the threads that main would count as active hold a permit
\* each, and no permit is lost; at the join all threads are counted: main's
\* own check.
LimitIsKept ==
  /\ max_active <= Permits
  /\ sem + Cardinality({r \in Request : at[r] \in {"enter", "leave", "post"}}) = Permits
  /\ joined => done_threads = Cardinality(Request) /\ active_now = 0
=============================================================================

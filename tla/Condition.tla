----------------------------- MODULE Condition -----------------------------
(***************************************************************************)
(* POSIX condition variables.  The state of a thread is "ready", "done" or *)
(* the name of the condition it waits on.                                  *)
(***************************************************************************)

Asleep(state, cv) == {t \in DOMAIN state : state[t] = cv}

\* pthread_cond_wait
Waits(state, t, cv) == [state EXCEPT ![t] = cv]

\* pthread_cond_signal: the states it may lead to.  Which of the threads that
\* wait wakes up is not determined.
AfterSignal(state, cv) ==
  IF Asleep(state, cv) = {} THEN {state}
  ELSE {[state EXCEPT ![t] = "ready"] : t \in Asleep(state, cv)}

\* pthread_cond_broadcast
AfterBroadcast(state, cv) ==
  [t \in DOMAIN state |-> IF t \in Asleep(state, cv) THEN "ready" ELSE state[t]]
=============================================================================

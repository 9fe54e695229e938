----------------------------- MODULE SharedCache -----------------------------
(***************************************************************************)
(* Readers and writers of one entry under a read-write lock (bloque05,     *)
(* e07_rwlock_cache_basica).  An entry has a value and the number of its   *)
(* version, which are read and written one after the other; the operations *)
(* are counted under another lock, stats_m.                                *)
(***************************************************************************)
EXTENDS Naturals, FiniteSets

CONSTANTS
  Reader, Writer,
  ReadIters, WriteIters   \* READ_ITERS, WRITE_ITERS

Thread == Reader \union Writer

VARIABLES
  value, version,      \* g_cache
  holders,             \* the threads that hold the lock
  at,                  \* of a thread: what it does next
  iter,                \* of a thread: the turns it has made
  seen,                \* of a reader: local_value and local_version
  read_ops, write_ops,
  joined               \* main is past its joins

vars == <<value, version, holders, at, iter, seen, read_ops, write_ops, joined>>

Init ==
  /\ value = 0 /\ version = 0
  /\ holders = {}
  /\ at = [t \in Thread |-> "lock"]
  /\ iter = [t \in Thread |-> 0]
  /\ seen = [r \in Reader |-> <<0, 0>>]
  /\ read_ops = 0 /\ write_ops = 0
  /\ joined = FALSE

Turns(t) == IF t \in Reader THEN ReadIters ELSE WriteIters

\* A slip of MayLock: a writer shares the lock with readers.
MayLockShared(t) == holders \cap Writer = {}

\* pthread_rwlock_rdlock and pthread_rwlock_wrlock: whether t may have the lock.
MayLock(t) == IF t \in Reader THEN holders \cap Writer = {} ELSE holders = {}

Lock(t) ==
  /\ at[t] = "lock" /\ iter[t] < Turns(t)
  /\ MayLock(t)
  /\ holders' = holders \union {t}
  /\ at' = [at EXCEPT ![t] = "first"]
  /\ UNCHANGED <<value, version, iter, seen, read_ops, write_ops, joined>>

\* The value, and then its version.
First(t) ==
  /\ at[t] = "first"
  /\ at' = [at EXCEPT ![t] = "second"]
  /\ \/ t \in Reader /\ seen' = [seen EXCEPT ![t][1] = value] /\ UNCHANGED value
     \/ t \in Writer /\ value' = value + 10 /\ UNCHANGED seen
  /\ UNCHANGED <<version, holders, iter, read_ops, write_ops, joined>>

Second(t) ==
  /\ at[t] = "second"
  /\ at' = [at EXCEPT ![t] = "unlock"]
  /\ \/ t \in Reader /\ seen' = [seen EXCEPT ![t][2] = version] /\ UNCHANGED version
     \/ t \in Writer /\ version' = version + 1 /\ UNCHANGED seen
  /\ UNCHANGED <<value, holders, iter, read_ops, write_ops, joined>>

\* pthread_rwlock_unlock
Unlock(t) ==
  /\ at[t] = "unlock"
  /\ holders' = holders \ {t}
  /\ at' = [at EXCEPT ![t] = "count"]
  /\ UNCHANGED <<value, version, iter, seen, read_ops, write_ops, joined>>

\* With stats_m held.
Count(t) ==
  /\ at[t] = "count"
  /\ read_ops' = read_ops + (IF t \in Reader THEN 1 ELSE 0)
  /\ write_ops' = write_ops + (IF t \in Writer THEN 1 ELSE 0)
  /\ iter' = [iter EXCEPT ![t] = @ + 1]
  /\ at' = [at EXCEPT ![t] = "lock"]
  /\ UNCHANGED <<value, version, holders, seen, joined>>

ThreadStep(t) == Lock(t) \/ First(t) \/ Second(t) \/ Unlock(t) \/ Count(t)

\* main has joined every thread.
Join ==
  /\ ~joined
  /\ \A t \in Thread : at[t] = "lock" /\ iter[t] = Turns(t)
  /\ joined' = TRUE
  /\ UNCHANGED <<value, version, holders, at, iter, seen, read_ops, write_ops>>

Ended == joined /\ UNCHANGED vars

Next == (\E t \in Thread : ThreadStep(t)) \/ Join \/ Ended

Spec == Init /\ [][Next]_vars

-----------------------------------------------------------------------------

\* A reader never sees the value of one version with the number of another, and
\* main finds every write in the entry and in the counts: its own check.
ReadsAreWhole ==
  /\ \A r \in Reader : at[r] = "unlock" => seen[r][1] = 10 * seen[r][2]
  /\ joined =>
       /\ version = Cardinality(Writer) * WriteIters /\ value = 10 * version
       /\ write_ops = version /\ read_ops = Cardinality(Reader) * ReadIters
=============================================================================

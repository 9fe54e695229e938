------------------------------ MODULE KVStore ------------------------------
(***************************************************************************)
(* What minicache promises its clients (bloque06, proyecto06): one map of  *)
(* at most Limit keys, and for each command the answer that fits the map   *)
(* at that moment.                                                         *)
(***************************************************************************)
EXTENDS Naturals, FiniteSets

CONSTANTS Key, Value, Limit

VARIABLES
  store,   \* the values of a key: {} or a singleton
  last     \* the last command and its answer

Keys(s) == {k \in Key : s[k] # {}}

Init ==
  /\ store = [k \in Key |-> {}]
  /\ last = [op |-> "none"]

Get(k) ==
  /\ UNCHANGED store
  /\ last' = [op |-> "GET", key |-> k, answer |-> store[k]]

Set(k, v) ==
  \/ /\ store[k] # {} \/ Cardinality(Keys(store)) < Limit
     /\ store' = [store EXCEPT ![k] = {v}]
     /\ last' = [op |-> "SET", key |-> k, answer |-> "OK"]
  \/ /\ store[k] = {} /\ Cardinality(Keys(store)) = Limit
     /\ UNCHANGED store
     /\ last' = [op |-> "SET", key |-> k, answer |-> "ERROR_OOM"]

Del(k) ==
  /\ store' = [store EXCEPT ![k] = {}]
  /\ last' = [op |-> "DEL", key |-> k,
              answer |-> IF store[k] = {} THEN "NULL" ELSE "OK"]

Bad == UNCHANGED store /\ last' = [op |-> "BAD", answer |-> "ERR"]

Next ==
  \/ \E k \in Key : Get(k) \/ Del(k) \/ \E v \in Value : Set(k, v)
  \/ Bad

Spec == Init /\ [][Next]_<<store, last>>
=============================================================================

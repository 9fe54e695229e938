----------------------------- MODULE CacheTable -----------------------------
(***************************************************************************)
(* handler_parseo_db of minicache (bloque06, proyecto06): the array my_db  *)
(* of entries that are taken or not, and the three commands over it.       *)
(*                                                                         *)
(* A key or a value is a model value; sscanf and the lengths of a line are *)
(* left out.  An answer is what is written: the value of a key, as a set,  *)
(* stands for "VALUE: ..." and {} for the "NULL" of a GET.                 *)
(***************************************************************************)
EXTENDS Naturals, FiniteSets

CONSTANTS
  Key, Value,
  Slots      \* CACHE_MAX_ENTS

ASSUME SlotsAssumption == Slots \in Nat \ {0}

VARIABLES my_db, last

Slot == 1 .. Slots

\* An entry that is not taken; what a deleted one still holds is never read.
Untaken == [ok_taken |-> FALSE]

Entry == {Untaken} \union [ok_taken : {TRUE}, key : Key, value : Value]

EmptyTable == [i \in Slot |-> Untaken]

Holds(db, k) == {i \in Slot : db[i].ok_taken /\ db[i].key = k}

Unused(db) == {i \in Slot : ~db[i].ok_taken}

Put(db, i, k, v) ==
  [db EXCEPT ![i] = [ok_taken |-> TRUE, key |-> k, value |-> v]]

\* A slip of Place: the first free entry, even when the key has one already.
PlaceFirstFree(db, k) == IF Unused(db) # {} THEN Unused(db) ELSE Holds(db, k)

\* The entries a SET may use: the one that has the key, or else any free one.
Place(db, k) == IF Holds(db, k) # {} THEN Holds(db, k) ELSE Unused(db)

\* The loops over the table stop at the first entry that fits.
First(S) == {i \in S : \A j \in S : i <= j}

Do(op, k, answer) == last' = [op |-> op, key |-> k, answer |-> answer]

Get(k) ==
  /\ \/ \E i \in First(Holds(my_db, k)) : Do("GET", k, {my_db[i].value})
     \/ Holds(my_db, k) = {} /\ Do("GET", k, {})
  /\ UNCHANGED my_db

Set(k, v) ==
  \/ \E i \in First(Place(my_db, k)) :
       my_db' = Put(my_db, i, k, v) /\ Do("SET", k, "OK")
  \/ Place(my_db, k) = {} /\ UNCHANGED my_db /\ Do("SET", k, "ERROR_OOM")

Del(k) ==
  \/ \E i \in First(Holds(my_db, k)) :
       my_db' = [my_db EXCEPT ![i] = Untaken] /\ Do("DEL", k, "OK")
  \/ Holds(my_db, k) = {} /\ UNCHANGED my_db /\ Do("DEL", k, "NULL")

Unknown == UNCHANGED my_db /\ last' = [op |-> "BAD", answer |-> "ERR"]

\* One call of handler_parseo_db.
Handle ==
  \/ \E k \in Key : Get(k) \/ Del(k) \/ \E v \in Value : Set(k, v)
  \/ Unknown

TableInit == my_db = EmptyTable /\ last = [op |-> "none"]

TableSpec == TableInit /\ [][Handle]_<<my_db, last>>

-----------------------------------------------------------------------------

\* The table keeps its shape and no key has two entries, so that a GET after
\* a SET or a DEL cannot meet a leftover of the key.
OneSlotPerKey ==
  /\ my_db \in [Slot -> Entry]
  /\ \A i, j \in Slot :
       my_db[i].ok_taken /\ my_db[j].ok_taken /\ my_db[i].key = my_db[j].key
         => i = j

\* The map the table stands for.
Store == [k \in Key |-> {my_db[i].value : i \in Holds(my_db, k)}]

KV == INSTANCE KVStore WITH store <- Store, Limit <- Slots

\* Whatever order of commands, the table answers like a map of at most Slots
\* keys: SET finds a free entry exactly while there are fewer keys.
KVSpec == KV!Spec
=============================================================================

------------------------------ MODULE StockRoom ------------------------------
(***************************************************************************)
(* A stock that is only counted, in two programs of bloque05: one producer *)
(* and one consumer around a shelf (e05_condvar_productor_consumidor), and  *)
(* one cook and several diners who share one condition (ej53).  A step is  *)
(* what a thread does from lock, or from a wake-up, to unlock or to its    *)
(* next wait.                                                              *)
(***************************************************************************)
EXTENDS Naturals, Condition

CONSTANTS
  TargetItems,   \* TARGET_ITEMS
  Shelf,         \* CAPACITY
  Diner,         \* tb_consumidores
  Dishes         \* max_comidas

Thread == {"producer", "consumer"}

VARIABLES
  stock, produced, consumed, done,
  state,    \* of the threads, see Condition
  joined    \* main is past its joins

vars == <<stock, produced, consumed, done, state, joined>>

Init ==
  /\ stock = 0 /\ produced = 0 /\ consumed = 0
  /\ done = FALSE
  /\ state = [t \in Thread |-> "ready"]
  /\ joined = FALSE

\* producer, in its loop.
Produce ==
  /\ state["producer"] = "ready" /\ produced < TargetItems
  /\ IF stock = Shelf
     THEN /\ state' = Waits(state, "producer", "cv_not_full")
          /\ UNCHANGED <<stock, produced>>
     ELSE /\ stock' = stock + 1
          /\ produced' = produced + 1
          /\ state' \in AfterSignal(state, "cv_not_empty")
  /\ UNCHANGED <<consumed, done, joined>>

\* producer, after its loop.
Finish ==
  /\ state["producer"] = "ready" /\ produced = TargetItems
  /\ done' = TRUE
  /\ state' = [AfterBroadcast(state, "cv_not_empty") EXCEPT !["producer"] = "done"]
  /\ UNCHANGED <<stock, produced, consumed, joined>>

\* consumer.
Consume ==
  /\ state["consumer"] = "ready"
  /\ IF stock > 0
     THEN /\ stock' = stock - 1
          /\ consumed' = consumed + 1
          /\ state' \in AfterSignal(state, "cv_not_full")
     ELSE /\ state' = IF done THEN [state EXCEPT !["consumer"] = "done"]
                      ELSE Waits(state, "consumer", "cv_not_empty")
          /\ UNCHANGED <<stock, consumed>>
  /\ UNCHANGED <<produced, done, joined>>

\* A wait that ends without a signal.
Spurious ==
  /\ \E t \in Thread : /\ state[t] \in {"cv_not_empty", "cv_not_full"}
                       /\ state' = [state EXCEPT ![t] = "ready"]
  /\ UNCHANGED <<stock, produced, consumed, done, joined>>

\* main has joined both.
Join ==
  /\ ~joined
  /\ \A t \in Thread : state[t] = "done"
  /\ joined' = TRUE
  /\ UNCHANGED <<stock, produced, consumed, done, state>>

Ended == joined /\ UNCHANGED vars

Next == Produce \/ Finish \/ Consume \/ Spurious \/ Join \/ Ended

Spec == Init /\ [][Next]_vars

-----------------------------------------------------------------------------
(* The kitchen.  stock is stock_buffer, consumed is comidas_consumidas,    *)
(* produced the turns of hilo_productor; done means that main has rung the *)
(* last bell.                                                              *)

KitchenInit ==
  /\ stock = 0 /\ produced = 0 /\ consumed = 0
  /\ done = FALSE
  /\ state = [t \in Diner \union {"cook"} |-> "ready"]
  /\ joined = FALSE

\* A slip of Cook: the bell wakes one diner.
CookSignals ==
  /\ state["cook"] = "ready" /\ produced < Dishes
  /\ stock' = stock + 1
  /\ produced' = produced + 1
  /\ state' \in AfterSignal(state, "cv_stock")
  /\ UNCHANGED <<consumed, done, joined>>

\* hilo_productor, in its loop.
Cook ==
  /\ state["cook"] = "ready" /\ produced < Dishes
  /\ stock' = stock + 1
  /\ produced' = produced + 1
  /\ state' = AfterBroadcast(state, "cv_stock")
  /\ UNCHANGED <<consumed, done, joined>>

CookGoes ==
  /\ state["cook"] = "ready" /\ produced = Dishes
  /\ state' = [state EXCEPT !["cook"] = "done"]
  /\ UNCHANGED <<stock, produced, consumed, done, joined>>

\* main, between its joins.
LastBell ==
  /\ state["cook"] = "done" /\ ~done
  /\ done' = TRUE
  /\ state' = AfterBroadcast(state, "cv_stock")
  /\ UNCHANGED <<stock, produced, consumed, joined>>

\* hilo_consumidor.
Dine(d) ==
  /\ state[d] = "ready"
  /\ \/ /\ stock = 0 /\ consumed < Dishes
        /\ state' = Waits(state, d, "cv_stock")
        /\ UNCHANGED <<stock, consumed>>
     \/ /\ consumed >= Dishes
        /\ state' = [state EXCEPT ![d] = "done"]
        /\ UNCHANGED <<stock, consumed>>
     \/ /\ stock # 0 /\ consumed < Dishes
        /\ stock' = stock - 1
        /\ consumed' = consumed + 1
        /\ UNCHANGED state
  /\ UNCHANGED <<produced, done, joined>>

KitchenSpurious ==
  /\ \E d \in Diner : /\ state[d] = "cv_stock"
                      /\ state' = [state EXCEPT ![d] = "ready"]
  /\ UNCHANGED <<stock, produced, consumed, done, joined>>

KitchenJoin ==
  /\ ~joined /\ done
  /\ \A d \in Diner : state[d] = "done"
  /\ joined' = TRUE
  /\ UNCHANGED <<stock, produced, consumed, done, state>>

KitchenNext ==
  \/ Cook \/ CookGoes \/ LastBell
  \/ \E d \in Diner : Dine(d)
  \/ KitchenSpurious \/ KitchenJoin \/ Ended

KitchenSpec == KitchenInit /\ [][KitchenNext]_vars

-----------------------------------------------------------------------------

\* The shelf is never overdrawn or overfilled, and main's own check at the join
\* succeeds.
StockIsRight ==
  /\ stock \in 0 .. Shelf /\ stock = produced - consumed
  /\ joined => produced = TargetItems /\ consumed = TargetItems

\* No dish is eaten twice or left, and when the last one is on the table no diner
\* sleeps: each sees either a dish or the end.  So nobody needs the last bell.
KitchenIsRight ==
  /\ stock \in 0 .. Dishes /\ stock = produced - consumed
  /\ produced = Dishes => \A d \in Diner : state[d] # "cv_stock"
  /\ joined => consumed = Dishes /\ stock = 0
=============================================================================

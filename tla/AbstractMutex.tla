--------------------------- MODULE AbstractMutex ---------------------------
(***************************************************************************)
(* What a Mutex promises to its users (sync/mutex.rs): a task gets a guard *)
(* for a mutex only while nobody else has one, whether it called lock() or *)
(* try_lock(), and gives it back by dropping it.                           *)
(***************************************************************************)
CONSTANTS Client, Lock

VARIABLE guards   \* the guards each task holds

Init == guards = [t \in Client |-> {}]

Acquire(t, m) ==
  /\ \A u \in Client : m \notin guards[u]
  /\ guards' = [guards EXCEPT ![t] = @ \cup {m}]

Release(t, m) ==
  /\ m \in guards[t]
  /\ guards' = [guards EXCEPT ![t] = @ \ {m}]

Next == \E t \in Client, m \in Lock : Acquire(t, m) \/ Release(t, m)

Spec == Init /\ [][Next]_guards
=============================================================================

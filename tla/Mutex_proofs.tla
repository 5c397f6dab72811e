---------------------------- MODULE Mutex_proofs ----------------------------
(* The safety of the sleeping mutex, for every number of tasks, CPUs and   *)
(* mutexes.                                                                *)
EXTENDS Mutex, RunQueue_proofs

(* A task on its way to a mutex does not have it.                          *)
NotMine ==
  \A t \in Task : pc[t] \in {"cas", "until", "cancel"} => at[t] \notin guards[t]

(* Without timeouts, only Blocked tasks are flagged.                       *)
FlaggedBlocked == \A t \in Task : t \in rq.in_wait_queue => rq.state[t] = "Blocked"

IInv ==
  /\ TypeOK
  /\ RunQueueOK
  /\ OwnerHasGuard
  /\ NotMine
  /\ QueueIsBlocked
  /\ FlaggedBlocked
  /\ NoLostWakeup

(* A task outside the mutex code is paired with some mutex.                *)
LEMMA NoMutexIn == NoMutex \in WQ
BY MutexAssumption DEF NoMutex

-----------------------------------------------------------------------------
LEMMA InitInv == Init => IInv
<1> SUFFICES ASSUME Init PROVE IInv
  OBVIOUS
<1>1. /\ MainTask \in Task /\ GcTask \in Task /\ MainTask # GcTask
      /\ ~is_idle(MainTask) /\ ~is_idle(GcTask)
  BY MutexAssumption
<1>2. /\ RQInv(rq) /\ rq.queue = [q \in WQ |-> << >>] /\ rq.in_wait_queue = {}
      /\ \A t \in Task : rq.state[t] \in {"New", "Ready", "Running"}
  BY <1>1, InitRQInv DEF Init
<1>3. TypeOK
  BY <1>2, NoMutexIn, MutexAssumption DEF Init, TypeOK, Pc, RQInv
<1>4. RunQueueOK
  BY <1>2 DEF RunQueueOK, RQInv
<1>5. OwnerHasGuard /\ NotMine
  BY MutexAssumption DEF Init, OwnerHasGuard, NotMine
<1>6. QueueIsBlocked /\ FlaggedBlocked /\ NoLostWakeup
  BY <1>2 DEF QueueIsBlocked, FlaggedBlocked, NoLostWakeup
<1> QED BY <1>3, <1>4, <1>5, <1>6 DEF IInv

-----------------------------------------------------------------------------
(* A task that takes a step is Running, so it is in no wait queue.         *)
LEMMA Stepping ==
  ASSUME IInv, NEW c \in Cpu, NEW t \in Task, rq.current[c] = t
  PROVE  /\ RQInv(rq) /\ rq.state[t] = "Running"
         /\ t \notin rq.in_wait_queue
         /\ \A m \in WQ : \A i \in DOMAIN rq.queue[m] : rq.queue[m][i] # t
BY DEF IInv, TypeOK, RunQueueOK, CurrentOK, RQInv, FlaggedBlocked, QueueIsBlocked

(* Steps that leave the run queue alone: the task goes to label l with     *)
(* mutex m.  What is left to show is the ownership.                        *)
LEMMA LocalStep ==
  ASSUME IInv, NEW c \in Cpu, NEW t \in Task, rq.current[c] = t, NEW m \in WQ,
         NEW l \in Pc, Goto(t, l, m), rq' = rq,
         owner_id' \in [WQ -> Task \cup {None}], guards' \in [Task -> SUBSET WQ],
         OwnerHasGuard', NotMine', NoLostWakeup'
  PROVE  IInv'
<1>1. RQInv(rq) /\ rq.state[t] = "Running"
  BY Stepping
<1>2. /\ pc' \in [Task -> Pc] /\ at' \in [Task -> WQ]
      /\ \A u \in Task : u # t => pc'[u] = pc[u] /\ at'[u] = at[u]
  BY DEF IInv, TypeOK, Goto
<1>3. TypeOK'
  BY <1>2 DEF IInv, TypeOK
<1>4. RunQueueOK' /\ FlaggedBlocked'
  BY DEF IInv, RunQueueOK, FlaggedBlocked
<1>5. QueueIsBlocked'
  <2>1. \A u \in Task : rq.state[u] = "Blocked" => pc'[u] = pc[u] /\ at'[u] = at[u]
    BY <1>1, <1>2
  <2>2. \A u \in Task : rq'.state[u] = "Blocked" =>
                           pc'[u] = "until" /\ InQueue(rq', at'[u], u)
    BY <2>1 DEF IInv, QueueIsBlocked
  <2>3. \A n \in WQ : \A i \in DOMAIN rq.queue[n] :
          /\ rq.queue[n][i] \in Task /\ rq.state[rq.queue[n][i]] = "Blocked"
          /\ at[rq.queue[n][i]] = n
    BY <1>1, Fields DEF IInv, QueueIsBlocked, RQInv
  <2>4. \A n \in WQ : \A i \in DOMAIN rq.queue[n] : at'[rq.queue[n][i]] = n
    BY <2>1, <2>3
  <2> QED BY <2>2, <2>3, <2>4 DEF IInv, QueueIsBlocked
<1> QED BY <1>3, <1>4, <1>5 DEF IInv

LEMMA LockStep ==
  ASSUME IInv, NEW c \in Cpu, NEW t \in Task, lock(c, t)
  PROVE  IInv'
<1> PICK m \in WQ : MayLock(t, m) /\ Goto(t, "cas", m)
  BY DEF lock
<1>1. /\ rq.current[c] = t /\ pc[t] = "user" /\ rq' = rq /\ owner_id' = owner_id
      /\ guards' = guards
  BY DEF lock, At
<1>2. /\ pc' = [pc EXCEPT ![t] = "cas"] /\ at' = [at EXCEPT ![t] = m]
      /\ pc \in [Task -> Pc] /\ at \in [Task -> WQ] /\ guards \in [Task -> SUBSET WQ]
  BY DEF Goto, IInv, TypeOK
<1>3. m \notin guards[t]
  <2>1. m \in Nat
    BY MutexAssumption
  <2> QED BY <2>1 DEF MayLock
<1>4. OwnerHasGuard' /\ NotMine'
  BY <1>1, <1>2, <1>3 DEF IInv, OwnerHasGuard, NotMine
<1>5. NoLostWakeup'
  BY <1>1, <1>2 DEF IInv, NoLostWakeup, Awake
<1>6. owner_id' \in [WQ -> Task \cup {None}] /\ guards' \in [Task -> SUBSET WQ]
  BY <1>1 DEF IInv, TypeOK
<1> QED BY <1>1, <1>4, <1>5, <1>6, LocalStep DEF Pc

(* The mutex m is taken by t, from lock() or from try_lock().              *)
LEMMA Taken ==
  ASSUME IInv, NEW t \in Task, NEW m \in WQ, owner_id[m] = None,
         owner_id' = [owner_id EXCEPT ![m] = t],
         guards' = [guards EXCEPT ![t] = @ \cup {m}]
  PROVE  /\ owner_id' \in [WQ -> Task \cup {None}]
         /\ guards' \in [Task -> SUBSET WQ]
         /\ OwnerHasGuard'
<1>1. owner_id \in [WQ -> Task \cup {None}] /\ guards \in [Task -> SUBSET WQ]
  BY DEF IInv, TypeOK
<1>2. \A u \in Task : m \notin guards[u]
  BY MutexAssumption DEF IInv, OwnerHasGuard
<1> QED BY <1>1, <1>2 DEF IInv, OwnerHasGuard

LEMMA CompareExchangeStep ==
  ASSUME IInv, NEW c \in Cpu, NEW t \in Task, compare_exchange(c, t)
  PROVE  IInv'
<1>1. rq.current[c] = t /\ pc[t] = "cas" /\ rq' = rq
  BY DEF compare_exchange, At
<1>2. /\ pc \in [Task -> Pc] /\ at \in [Task -> WQ] /\ guards \in [Task -> SUBSET WQ]
      /\ owner_id \in [WQ -> Task \cup {None}] /\ at[t] \in WQ
  BY DEF IInv, TypeOK
<1>3. CASE /\ owner_id[at[t]] = None
           /\ owner_id' = [owner_id EXCEPT ![at[t]] = t]
           /\ guards' = [guards EXCEPT ![t] = @ \cup {at[t]}]
           /\ Goto(t, "user", NoMutex)
  <2>1. /\ owner_id' \in [WQ -> Task \cup {None}] /\ guards' \in [Task -> SUBSET WQ]
        /\ OwnerHasGuard'
    BY <1>2, <1>3, Taken
  <2>2. NotMine'
    BY <1>2, <1>3 DEF IInv, NotMine, Goto
  <2>3. owner_id'[at[t]] # None
    BY <1>2, <1>3, MutexAssumption
  <2>4. NoLostWakeup'
    BY <1>1, <1>2, <1>3, <2>3 DEF IInv, NoLostWakeup, Awake, Goto
  <2> QED BY <1>1, <1>2, <1>3, <2>1, <2>2, <2>4, NoMutexIn, LocalStep DEF Pc
<1>4. CASE /\ Goto(t, IF owner_id[at[t]] = t THEN "panic" ELSE "until", at[t])
           /\ UNCHANGED << owner_id, guards >>
  <2>1. owner_id[at[t]] # t
    BY <1>1, <1>2 DEF IInv, OwnerHasGuard, NotMine
  <2>2. Goto(t, "until", at[t]) /\ owner_id' = owner_id /\ guards' = guards
    BY <1>4, <2>1
  <2>3. OwnerHasGuard' /\ NotMine'
    BY <1>1, <1>2, <2>2 DEF IInv, OwnerHasGuard, NotMine, Goto
  <2>4. NoLostWakeup'
    BY <1>1, <1>2, <2>2 DEF IInv, NoLostWakeup, Awake, Goto
  <2>5. owner_id' \in [WQ -> Task \cup {None}] /\ guards' \in [Task -> SUBSET WQ]
    BY <1>2, <2>2
  <2> QED BY <1>1, <1>2, <2>2, <2>3, <2>4, <2>5, LocalStep DEF Pc
<1> QED BY <1>3, <1>4 DEF compare_exchange

LEMMA TryLockStep ==
  ASSUME IInv, NEW c \in Cpu, NEW t \in Task, try_lock(c, t)
  PROVE  IInv'
<1> PICK m \in WQ : /\ owner_id[m] = None
                    /\ owner_id' = [owner_id EXCEPT ![m] = t]
                    /\ guards' = [guards EXCEPT ![t] = @ \cup {m}]
  BY DEF try_lock
<1>1. rq.current[c] = t /\ pc[t] = "user" /\ rq' = rq /\ pc' = pc /\ at' = at
  BY DEF try_lock, At
<1>2. /\ pc \in [Task -> Pc] /\ at \in [Task -> WQ] /\ guards \in [Task -> SUBSET WQ]
      /\ owner_id \in [WQ -> Task \cup {None}] /\ at[t] \in WQ
  BY DEF IInv, TypeOK
<1>3. /\ owner_id' \in [WQ -> Task \cup {None}] /\ guards' \in [Task -> SUBSET WQ]
      /\ OwnerHasGuard'
  BY Taken
<1>4. NotMine'
  BY <1>1, <1>2 DEF IInv, NotMine
<1>5. NoLostWakeup'
  <2>1. owner_id'[m] # None
    BY <1>2, MutexAssumption
  <2> QED BY <1>1, <1>2, <2>1 DEF IInv, NoLostWakeup, Awake
<1>6. Goto(t, "user", at[t])
  BY <1>1, <1>2 DEF Goto
<1> QED BY <1>1, <1>2, <1>3, <1>4, <1>5, <1>6, LocalStep DEF Pc

LEMMA ForceUnlockStep ==
  ASSUME IInv, NEW c \in Cpu, NEW t \in Task, force_unlock(c, t)
  PROVE  IInv'
<1>0. PICK m \in guards[t] :
        /\ owner_id' = [owner_id EXCEPT ![m] = None]
        /\ guards' = [guards EXCEPT ![t] = @ \ {m}]
        /\ Goto(t, IF owner_id[m] = t THEN "notify" ELSE "panic", m)
  BY DEF force_unlock
<1>1. rq.current[c] = t /\ pc[t] = "user" /\ rq' = rq
  BY DEF force_unlock, At
<1>2. /\ pc \in [Task -> Pc] /\ at \in [Task -> WQ] /\ guards \in [Task -> SUBSET WQ]
      /\ owner_id \in [WQ -> Task \cup {None}] /\ m \in WQ
  BY DEF IInv, TypeOK
<1>3. owner_id[m] = t
  BY <1>2 DEF IInv, OwnerHasGuard
<1>4. Goto(t, "notify", m) /\ owner_id' \in [WQ -> Task \cup {None}]
      /\ guards' \in [Task -> SUBSET WQ]
  BY <1>0, <1>2, <1>3
<1>5. OwnerHasGuard'
  BY <1>0, <1>2, <1>3, MutexAssumption DEF IInv, OwnerHasGuard
<1>6. NotMine'
  BY <1>0, <1>2, <1>4 DEF IInv, NotMine, Goto
<1>7. NoLostWakeup'
  <2>1. rq.state[t] = "Running"
    BY <1>1, Stepping
  <2> QED BY <1>0, <1>1, <1>2, <1>4, <2>1 DEF IInv, NoLostWakeup, Awake, Goto
<1> QED BY <1>1, <1>2, <1>4, <1>5, <1>6, <1>7, LocalStep DEF Pc

LEMMA CancelEventsStep ==
  ASSUME IInv, NEW c \in Cpu, NEW t \in Task, cancel_events(c, t)
  PROVE  IInv'
<1>1. /\ rq.current[c] = t /\ pc[t] = "cancel" /\ Goto(t, "cas", at[t])
      /\ owner_id' = owner_id /\ guards' = guards
  BY DEF cancel_events, At
<1>2. rq' = rq
  <2>1. t \notin rq.in_wait_queue
    BY <1>1, Stepping
  <2> QED BY <2>1 DEF cancel_events, cancel_wait
<1>3. /\ pc \in [Task -> Pc] /\ at \in [Task -> WQ] /\ guards \in [Task -> SUBSET WQ]
      /\ owner_id \in [WQ -> Task \cup {None}] /\ at[t] \in WQ
  BY DEF IInv, TypeOK
<1>4. OwnerHasGuard' /\ NotMine'
  BY <1>1, <1>3 DEF IInv, OwnerHasGuard, NotMine, Goto
<1>5. NoLostWakeup'
  BY <1>1, <1>2, <1>3 DEF IInv, NoLostWakeup, Awake, Goto
<1>6. owner_id' \in [WQ -> Task \cup {None}] /\ guards' \in [Task -> SUBSET WQ]
  BY <1>1, <1>3
<1> QED BY <1>1, <1>2, <1>3, <1>4, <1>5, <1>6, LocalStep DEF Pc

LEMMA WaitUntilStep ==
  ASSUME IInv, NEW c \in Cpu, NEW t \in Task, wait_until(c, t)
  PROVE  IInv'
<1>1. /\ rq.current[c] = t /\ pc[t] = "until" /\ ~is_idle(t)
      /\ owner_id' = owner_id /\ guards' = guards
  BY DEF wait_until, At
<1>2. /\ pc \in [Task -> Pc] /\ at \in [Task -> WQ] /\ guards \in [Task -> SUBSET WQ]
      /\ owner_id \in [WQ -> Task \cup {None}] /\ at[t] \in WQ
  BY DEF IInv, TypeOK
<1>3. CASE Goto(t, "cancel", at[t]) /\ rq' = rq
  <2>1. OwnerHasGuard' /\ NotMine'
    BY <1>1, <1>2, <1>3 DEF IInv, OwnerHasGuard, NotMine, Goto
  <2>2. NoLostWakeup'
    BY <1>1, <1>2, <1>3 DEF IInv, NoLostWakeup, Awake, Goto
  <2>3. owner_id' \in [WQ -> Task \cup {None}] /\ guards' \in [Task -> SUBSET WQ]
    BY <1>1, <1>2
  <2> QED BY <1>1, <1>2, <1>3, <2>1, <2>2, <2>3, LocalStep DEF Pc
<1>4. CASE /\ owner_id[at[t]] # None /\ rq' = block_current(rq, c, at[t])
           /\ pc' = pc /\ at' = at
  <2> DEFINE m == at[t]
  <2>1. /\ RQInv(rq) /\ rq.state[t] = "Running"
        /\ \A n \in WQ : \A i \in DOMAIN rq.queue[n] : rq.queue[n][i] # t
    BY <1>1, Stepping
  <2>2. /\ RQInv(rq')
        /\ rq'.queue = [rq.queue EXCEPT ![m] = Append(@, t)]
        /\ rq'.in_wait_queue = rq.in_wait_queue \cup {t}
        /\ SameButRunning([rq.state EXCEPT ![t] = "Blocked"], rq'.state)
    <3>1. /\ RQInv(block_current(rq, c, at[t]))
          /\ Enqueued(rq, block_current(rq, c, at[t]), at[t], rq.current[c])
          /\ SameButRunning([rq.state EXCEPT ![rq.current[c]] = "Blocked"],
                            block_current(rq, c, at[t]).state)
      <4>1. ~is_idle(rq.current[c])
        BY <1>1
      <4>2. RQInv(rq) /\ at[t] \in WQ
        BY <1>2, <2>1
      <4> QED BY <4>1, <4>2, BlockStep, Zenon
    <3> QED BY <1>1, <1>4, <3>1 DEF Enqueued
  <2>3. /\ rq.queue \in [WQ -> Seq(Task)] /\ rq.state \in [Task -> TaskState]
        /\ rq'.queue \in [WQ -> Seq(Task)]
    BY <2>1, <2>2, Fields DEF RQInv
  <2>4. /\ rq'.state[t] = "Blocked"
        /\ \A u \in Task : u # t => (rq'.state[u] = "Blocked" <=> rq.state[u] = "Blocked")
        /\ \A u \in Task : u # t /\ rq.state[u] \in Runnable => rq'.state[u] \in Runnable
    BY <2>2, <2>3 DEF SameButRunning, Runnable
  <2>5. TypeOK' /\ RunQueueOK'
    BY <1>1, <1>2, <1>4, <2>2 DEF TypeOK, RunQueueOK, RQInv
  <2>6. OwnerHasGuard' /\ NotMine'
    BY <1>1, <1>4 DEF IInv, OwnerHasGuard, NotMine
  <2>7. FlaggedBlocked'
    BY <2>2, <2>4 DEF IInv, FlaggedBlocked
  <2>8. \A n \in WQ : n # m => rq'.queue[n] = rq.queue[n]
    BY <2>2, <2>3
  <2>9. /\ DOMAIN rq'.queue[m] = DOMAIN rq.queue[m] \cup {Len(rq.queue[m]) + 1}
        /\ Len(rq.queue[m]) + 1 \notin DOMAIN rq.queue[m]
        /\ \A i \in DOMAIN rq.queue[m] : rq'.queue[m][i] = rq.queue[m][i]
        /\ rq'.queue[m][Len(rq.queue[m]) + 1] = t
    BY <1>2, <2>2, <2>3
  <2> DEFINE last == Len(rq.queue[m]) + 1
  <2> HIDE DEF m, last
  <2>10. QueueIsBlocked'
    <3>1. InQueue(rq', m, t)
      BY <2>9 DEF InQueue, last
    <3>2. \A u \in Task, n \in WQ : InQueue(rq, n, u) => InQueue(rq', n, u)
      BY <2>8, <2>9 DEF InQueue
    <3>3. \A u \in Task : rq'.state[u] = "Blocked" =>
                             pc'[u] = "until" /\ InQueue(rq', at'[u], u)
      BY <1>1, <1>2, <1>4, <2>4, <3>1, <3>2 DEF IInv, QueueIsBlocked, m
    <3>4. \A n \in WQ : \A i \in DOMAIN rq.queue[n] :
             rq.queue[n][i] \in Task /\ rq.queue[n][i] # t
      BY <2>1, <2>3
    <3>5. \A n \in WQ : n # m => \A i \in DOMAIN rq'.queue[n] :
            /\ rq'.state[rq'.queue[n][i]] = "Blocked"
            /\ at'[rq'.queue[n][i]] = n
            /\ \A j \in DOMAIN rq'.queue[n] : rq'.queue[n][i] = rq'.queue[n][j] => i = j
      BY <1>4, <2>4, <2>8, <3>4 DEF IInv, QueueIsBlocked
    <3>6. \A i \in DOMAIN rq'.queue[m] :
            /\ rq'.state[rq'.queue[m][i]] = "Blocked"
            /\ at'[rq'.queue[m][i]] = m
      BY <1>2, <1>4, <2>4, <2>9, <3>4 DEF IInv, QueueIsBlocked, last, m
    <3>7. \A i, j \in DOMAIN rq'.queue[m] : rq'.queue[m][i] = rq'.queue[m][j] => i = j
      BY <1>2, <2>9, <3>4 DEF IInv, QueueIsBlocked, last, m
    <3> QED BY <3>3, <3>5, <3>6, <3>7 DEF QueueIsBlocked
  <2>11. NoLostWakeup'
    <3>1. SUFFICES ASSUME NEW n \in WQ, owner_id'[n] = None, rq'.queue[n] # << >>
                   PROVE  \E u \in Task : at'[u] = n /\ Awake(u)'
                             /\ pc'[u] \in {"notify", "until", "cancel", "cas"}
      BY DEF NoLostWakeup
    <3>2. n # m
      BY <1>1, <1>4, <3>1 DEF m
    <3>3. PICK u \in Task : at[u] = n /\ Awake(u)
                             /\ pc[u] \in {"notify", "until", "cancel", "cas"}
      BY <1>1, <2>8, <3>1, <3>2 DEF IInv, NoLostWakeup
    <3>4. u # t
      BY <3>2, <3>3 DEF m
    <3> QED BY <1>4, <2>4, <3>3, <3>4 DEF Awake, Runnable
  <2> QED BY <2>5, <2>6, <2>7, <2>10, <2>11 DEF IInv
<1> QED BY <1>3, <1>4 DEF wait_until

(* The unlocker wakes the head of the queue.                               *)
LEMMA NotifyStep ==
  ASSUME IInv, NEW c \in Cpu, NEW t \in Task, force_unlock_notify(c, t)
  PROVE  IInv'
<1> DEFINE m == at[t]
<1>1. /\ rq.current[c] = t /\ pc[t] = "notify" /\ rq' = notify_one_locked(rq, m)
      /\ Goto(t, "user", NoMutex) /\ owner_id' = owner_id /\ guards' = guards
  BY DEF force_unlock_notify, At
<1>2. /\ pc \in [Task -> Pc] /\ at \in [Task -> WQ] /\ guards \in [Task -> SUBSET WQ]
      /\ owner_id \in [WQ -> Task \cup {None}] /\ m \in WQ
  BY DEF IInv, TypeOK
<1>3. /\ pc' = [pc EXCEPT ![t] = "user"] /\ at' = [at EXCEPT ![t] = NoMutex]
      /\ at' \in [Task -> WQ]
  BY <1>1, <1>2, NoMutexIn DEF Goto
<1>4. OwnerHasGuard' /\ NotMine'
  BY <1>1, <1>2, <1>3 DEF IInv, OwnerHasGuard, NotMine
<1>5. CASE rq.queue[m] = << >>
  <2>1. rq' = rq
    BY <1>1, <1>5 DEF notify_one_locked
  <2>2. NoLostWakeup'
    BY <1>1, <1>2, <1>3, <1>5, <2>1 DEF IInv, NoLostWakeup, Awake
  <2>3. owner_id' \in [WQ -> Task \cup {None}] /\ guards' \in [Task -> SUBSET WQ]
    BY <1>1, <1>2
  <2> QED BY <1>1, <1>2, <1>4, <2>1, <2>2, <2>3, NoMutexIn, LocalStep DEF Pc
<1>6. CASE rq.queue[m] # << >>
  <2> DEFINE h == Head(rq.queue[m])
  <2>1. /\ RQInv(rq) /\ rq.state[t] = "Running"
        /\ \A n \in WQ : \A i \in DOMAIN rq.queue[n] : rq.queue[n][i] # t
    BY <1>1, Stepping
  <2>2. /\ RQInv(rq') /\ h \in Task
        /\ rq'.queue = [rq.queue EXCEPT ![m] = Tail(@)]
        /\ rq'.in_wait_queue = rq.in_wait_queue \ {h}
        /\ rq'.state = IF rq.state[h] = "Blocked"
                         THEN [rq.state EXCEPT ![h] = "Ready"] ELSE rq.state
    BY <1>1, <1>2, <1>6, <2>1, NotifyOneStep, ZenonT(60)
  <2>3. /\ rq.queue \in [WQ -> Seq(Task)] /\ rq.state \in [Task -> TaskState]
    BY <2>1, Fields DEF RQInv
  <2>4. h = rq.queue[m][1] /\ 1 \in DOMAIN rq.queue[m]
    BY <1>2, <1>6, <2>3
  <2> HIDE DEF h, m
  <2>5. rq.state[h] = "Blocked" /\ pc[h] = "until" /\ at[h] = m /\ h # t
    BY <1>2, <2>1, <2>2, <2>4 DEF IInv, QueueIsBlocked
  <2>6. /\ rq'.state[h] = "Ready"
        /\ \A u \in Task : u # h => rq'.state[u] = rq.state[u]
    BY <2>2, <2>3, <2>5
  <2>7. TypeOK' /\ RunQueueOK'
    BY <1>1, <1>2, <1>3, <2>2 DEF TypeOK, RunQueueOK, RQInv, Pc
  <2>8. FlaggedBlocked'
    BY <2>2, <2>6 DEF IInv, FlaggedBlocked
  <2>9. /\ \A n \in WQ : n # m => rq'.queue[n] = rq.queue[n]
        /\ \A i \in DOMAIN rq'.queue[m] :
              rq'.queue[m][i] = rq.queue[m][i + 1] /\ i + 1 \in DOMAIN rq.queue[m]
        /\ \A i \in DOMAIN rq.queue[m] : i # 1 =>
              rq'.queue[m][i - 1] = rq.queue[m][i] /\ i - 1 \in DOMAIN rq'.queue[m]
        /\ DOMAIN rq'.queue[m] \subseteq Int
    <3>1. /\ rq'.queue[m] = Tail(rq.queue[m]) /\ rq.queue[m] \in Seq(Task)
          /\ \A n \in WQ : n # m => rq'.queue[n] = rq.queue[n]
      BY <1>2, <2>2, <2>3
    <3> QED BY <1>6, <3>1
  <2>10. \A u \in Task : rq'.state[u] = "Blocked" =>
                             pc'[u] = "until" /\ InQueue(rq', at'[u], u)
    <3> SUFFICES ASSUME NEW u \in Task, rq'.state[u] = "Blocked"
                 PROVE  pc'[u] = "until" /\ InQueue(rq', at'[u], u)
      OBVIOUS
    <3>1. rq.state[u] = "Blocked" /\ u # h /\ u # t
      BY <2>1, <2>5, <2>6
    <3>2. pc[u] = "until" /\ InQueue(rq, at[u], u)
      BY <3>1 DEF IInv, QueueIsBlocked
    <3>3. InQueue(rq', at[u], u)
      BY <1>2, <2>4, <2>9, <3>1, <3>2 DEF InQueue
    <3> QED BY <1>2, <1>3, <3>1, <3>2, <3>3
  <2>11. \A n \in WQ : n # m => \A i \in DOMAIN rq'.queue[n] :
            /\ rq'.state[rq'.queue[n][i]] = "Blocked"
            /\ at'[rq'.queue[n][i]] = n
            /\ \A j \in DOMAIN rq'.queue[n] : rq'.queue[n][i] = rq'.queue[n][j] => i = j
    <3> SUFFICES ASSUME NEW n \in WQ, n # m, NEW i \in DOMAIN rq'.queue[n]
                 PROVE  /\ rq'.state[rq'.queue[n][i]] = "Blocked"
                        /\ at'[rq'.queue[n][i]] = n
                        /\ \A j \in DOMAIN rq'.queue[n] :
                             rq'.queue[n][i] = rq'.queue[n][j] => i = j
      OBVIOUS
    <3> DEFINE u == rq.queue[n][i]
    <3>1. rq'.queue[n] = rq.queue[n] /\ i \in DOMAIN rq.queue[n]
      BY <2>9
    <3>2. u \in Task /\ u # t
      BY <2>1, <2>3, <3>1
    <3>3. /\ rq.state[u] = "Blocked" /\ at[u] = n
          /\ \A j \in DOMAIN rq.queue[n] : u = rq.queue[n][j] => i = j
      BY <3>1 DEF IInv, QueueIsBlocked
    <3>4. u # h
      BY <2>5, <3>3
    <3> QED BY <1>2, <1>3, <2>6, <3>1, <3>2, <3>3, <3>4
  <2>12. \A i \in DOMAIN rq'.queue[m] :
            /\ rq'.state[rq'.queue[m][i]] = "Blocked"
            /\ at'[rq'.queue[m][i]] = m
    <3> SUFFICES ASSUME NEW i \in DOMAIN rq'.queue[m]
                 PROVE  /\ rq'.state[rq'.queue[m][i]] = "Blocked"
                        /\ at'[rq'.queue[m][i]] = m
      OBVIOUS
    <3>1. /\ rq'.queue[m][i] = rq.queue[m][i + 1] /\ i + 1 \in DOMAIN rq.queue[m]
          /\ i \in DOMAIN rq'.queue[m] /\ rq.queue[m][i + 1] \in Task
      BY <1>2, <2>3, <2>9
    <3>2. i + 1 # 1
      BY <1>2, <1>6, <2>2, <2>3
    <3>3. rq.queue[m][i + 1] # h
      BY <1>2, <2>4, <3>1, <3>2 DEF IInv, QueueIsBlocked
    <3>4. rq.queue[m][i + 1] # t
      BY <1>2, <2>1, <3>1
    <3> QED BY <1>2, <1>3, <2>6, <3>1, <3>3, <3>4 DEF IInv, QueueIsBlocked
  <2>13. \A i, j \in DOMAIN rq'.queue[m] : rq'.queue[m][i] = rq'.queue[m][j] => i = j
    <3> SUFFICES ASSUME NEW i \in DOMAIN rq'.queue[m], NEW j \in DOMAIN rq'.queue[m],
                        rq'.queue[m][i] = rq'.queue[m][j]
                 PROVE  i = j
      OBVIOUS
    <3>1. i + 1 = j + 1
      BY <1>2, <2>9 DEF IInv, QueueIsBlocked
    <3> QED BY <2>9, <3>1
  <2>14. QueueIsBlocked'
    BY <2>10, <2>11, <2>12, <2>13 DEF QueueIsBlocked
  <2>15. NoLostWakeup'
    <3>1. SUFFICES ASSUME NEW n \in WQ, owner_id'[n] = None, rq'.queue[n] # << >>
                   PROVE  \E u \in Task : at'[u] = n /\ Awake(u)'
                             /\ pc'[u] \in {"notify", "until", "cancel", "cas"}
      BY DEF NoLostWakeup
    <3>2. CASE n = m
      BY <1>2, <1>3, <2>2, <2>5, <2>6, <3>2 DEF Awake
    <3>3. CASE n # m
      <4>1. PICK u \in Task : at[u] = n /\ Awake(u)
                               /\ pc[u] \in {"notify", "until", "cancel", "cas"}
        BY <1>1, <2>9, <3>1, <3>3 DEF IInv, NoLostWakeup
      <4>2. u # t
        BY <3>3, <4>1 DEF m
      <4> QED BY <1>2, <1>3, <2>6, <4>1, <4>2 DEF Awake
    <3> QED BY <3>2, <3>3
  <2> QED BY <1>4, <2>7, <2>8, <2>14, <2>15 DEF IInv
<1> QED BY <1>5, <1>6

(* Steps of the run queue alone: nobody blocks, nobody is woken.           *)
LEMMA QuietStep ==
  ASSUME IInv, RQInv(rq'), rq'.queue = rq.queue, rq'.in_wait_queue = rq.in_wait_queue,
         \A u \in Task : /\ rq'.state[u] = "Blocked" <=> rq.state[u] = "Blocked"
                         /\ rq.state[u] \in Runnable => rq'.state[u] \in Runnable,
         UNCHANGED << owner_id, guards, pc, at >>
  PROVE  IInv'
<1>1. TypeOK' /\ RunQueueOK'
  BY DEF IInv, TypeOK, RunQueueOK, RQInv
<1>2. OwnerHasGuard' /\ NotMine' /\ FlaggedBlocked'
  <2>1. rq.in_wait_queue \in SUBSET Task
    BY Fields DEF IInv, TypeOK
  <2> QED BY <2>1 DEF IInv, OwnerHasGuard, NotMine, FlaggedBlocked
<1>3. QueueIsBlocked'
  <2>1. \A m \in WQ : \A i \in DOMAIN rq.queue[m] : rq.queue[m][i] \in Task
    BY Fields DEF IInv, TypeOK
  <2> QED BY <2>1 DEF IInv, QueueIsBlocked, InQueue
<1>4. NoLostWakeup'
  BY DEF IInv, NoLostWakeup, Awake, Runnable
<1> QED BY <1>1, <1>2, <1>3, <1>4 DEF IInv

LEMMA SpawnStep ==
  ASSUME IInv, NEW c \in Cpu, NEW t \in Task, spawn(c, t)
  PROVE  IInv'
<1> PICK u \in Task : rq.state[u] = "New" /\ rq' = add_task(rq, u)
  BY DEF spawn
<1>1. RQInv(rq)
  BY DEF IInv, TypeOK, RunQueueOK, RQInv
<1>2. RQInv(rq')
  BY <1>1, AddTaskInv
<1>3. /\ rq'.state = [rq.state EXCEPT ![u] = "Ready"] /\ rq'.queue = rq.queue
      /\ rq'.in_wait_queue = rq.in_wait_queue
  BY <1>1, AddTaskEffect DEF RQInv
<1>4. \A x \in Task : /\ rq'.state[x] = "Blocked" <=> rq.state[x] = "Blocked"
                      /\ rq.state[x] \in Runnable => rq'.state[x] \in Runnable
  BY <1>1, <1>3, Fields DEF RQInv, Runnable
<1>5. UNCHANGED << owner_id, guards, pc, at >>
  BY DEF spawn
<1> QED BY <1>2, <1>3, <1>4, <1>5, QuietStep

LEMMA YieldNowStep ==
  ASSUME IInv, NEW c \in Cpu, yield_now(c)
  PROVE  IInv'
<1>1. RQInv(rq)
  BY DEF IInv, TypeOK, RunQueueOK, RQInv
<1>2. /\ RQInv(rq') /\ rq'.queue = rq.queue /\ rq'.in_wait_queue = rq.in_wait_queue
      /\ SameButRunning(rq.state, rq'.state)
  BY <1>1, YieldStep DEF yield_now
<1>3. \A x \in Task : /\ rq'.state[x] = "Blocked" <=> rq.state[x] = "Blocked"
                      /\ rq.state[x] \in Runnable => rq'.state[x] \in Runnable
  BY <1>2 DEF SameButRunning, Runnable
<1> QED BY <1>2, <1>3, QuietStep DEF yield_now

(* IInv is inductive: one lemma per action.                                *)
LEMMA NextInv == IInv /\ [Next]_vars => IInv'
<1> SUFFICES ASSUME IInv, [Next]_vars PROVE IInv'
  OBVIOUS
<1>1. CASE UNCHANGED vars
  <2>1. RQInv(rq') /\ rq' = rq /\ UNCHANGED << owner_id, guards, pc, at >>
    BY <1>1 DEF vars, IInv, TypeOK, RunQueueOK, RQInv
  <2> QED BY <2>1, QuietStep
<1>2. CASE Next
  BY <1>2, YieldNowStep, CompareExchangeStep, WaitUntilStep, CancelEventsStep,
     NotifyStep, SpawnStep, LockStep, TryLockStep, ForceUnlockStep
     DEF Next, Proceed, Start
<1> QED BY <1>1, <1>2

-----------------------------------------------------------------------------
(* The inductive invariant holds in every reachable state.                 *)
THEOREM Invariance == Spec => []IInv
BY InitInv, NextInv, PTL DEF Spec

(* lock, try_lock and force_unlock, with the run queue under them, keep    *)
(* every variable in its type; in particular no assertion fails.           *)
THEOREM TypeCorrect == Spec => []TypeOK
<1>1. IInv => TypeOK
  BY DEF IInv
<1> QED BY <1>1, Invariance, PTL

(* The ready list is never corrupted (a task linked twice, or one that is  *)
(* not Ready) and no two CPUs run one task, whatever the mutexes do.       *)
THEOREM RunQueueSafe == Spec => []RunQueueOK
<1>1. IInv => RunQueueOK
  BY DEF IInv
<1> QED BY <1>1, Invariance, PTL

(* The id stored in a mutex is that of the guard's holder.                 *)
THEOREM OwnerCorrect == Spec => []OwnerHasGuard
<1>1. IInv => OwnerHasGuard
  BY DEF IInv
<1> QED BY <1>1, Invariance, PTL

(* No two tasks hold a guard of one mutex.                                 *)
THEOREM Exclusion == Spec => []MutualExclusion
<1>1. IInv => MutualExclusion
  <2> SUFFICES ASSUME IInv, NEW t \in Task, NEW u \in Task,
                      NEW m \in guards[t] \cap guards[u]
               PROVE  t = u
    BY DEF MutualExclusion
  <2>1. m \in WQ
    BY DEF IInv, TypeOK
  <2> QED BY <2>1 DEF IInv, OwnerHasGuard
<1> QED BY <1>1, Invariance, PTL

(* A free mutex with sleepers always has somebody awake on the way to it:  *)
(* no wake-up is lost between wait_until and force_unlock.                 *)
THEOREM WakeupKept == Spec => []NoLostWakeup
<1>1. IInv => NoLostWakeup
  BY DEF IInv
<1> QED BY <1>1, Invariance, PTL

(* The wait queue of a mutex holds exactly the tasks Blocked on it.        *)
THEOREM QueueExact == Spec => []QueueIsBlocked
<1>1. IInv => QueueIsBlocked
  BY DEF IInv
<1> QED BY <1>1, Invariance, PTL

(* The mutex implements AbstractMutex: every step acquires a guard nobody  *)
(* else has, releases one that is held, or leaves the guards alone.        *)
THEOREM Refinement == Spec => Implements
<1>1. Init => Abstract!Init
  BY DEF Init, Abstract!Init
<1>2. IInv /\ [Next]_vars => [Abstract!Next]_guards
  <2> SUFFICES ASSUME IInv, [Next]_vars, guards' # guards PROVE Abstract!Next
    OBVIOUS
  <2>1. PICK c \in Cpu, t \in Task :
          compare_exchange(c, t) \/ try_lock(c, t) \/ force_unlock(c, t)
    BY DEF vars, Next, Proceed, Start, yield_now, wait_until, cancel_events,
           force_unlock_notify, spawn, lock
  <2>2. owner_id \in [WQ -> Task \cup {None}] /\ guards \in [Task -> SUBSET WQ]
        /\ at[t] \in WQ
    BY DEF IInv, TypeOK
  <2>3. \A m \in WQ : owner_id[m] = None => \A u \in Task : m \notin guards[u]
    BY MutexAssumption DEF IInv, OwnerHasGuard
  <2>4. CASE compare_exchange(c, t)
    BY <2>2, <2>3, <2>4 DEF compare_exchange, Abstract!Next, Abstract!Acquire
  <2>5. CASE try_lock(c, t)
    BY <2>2, <2>3, <2>5 DEF try_lock, Abstract!Next, Abstract!Acquire
  <2>6. CASE force_unlock(c, t)
    BY <2>2, <2>6 DEF force_unlock, Abstract!Next, Abstract!Release
  <2> QED BY <2>1, <2>4, <2>5, <2>6
<1> QED BY <1>1, <1>2, Invariance, PTL DEF Spec, Implements, Abstract!Spec
=============================================================================

------------------------------- MODULE Mutex -------------------------------
(***************************************************************************)
(* The sleeping mutex of axtask (sync/mutex.rs) over the run queue.  Each  *)
(* mutex has a wait queue of its own, so the mutexes are the wait queues   *)
(* WQ, here numbers: the callers take several only in ascending order.     *)
(*                                                                         *)
(* owner_id is an atomic outside RUN_QUEUE.  pc[t] is where task t is:     *)
(*   "user"    outside the mutex code                                      *)
(*   "cas"     in the loop of lock(), before compare_exchange_weak         *)
(*   "until"   in wait_until(|| !self.is_locked())                         *)
(*   "cancel"  in the cancel_events that ends wait_until                   *)
(*   "notify"  in force_unlock, after the swap of owner_id                 *)
(*   "panic"   an assertion failed: lock() of a mutex the caller owns, or  *)
(*             force_unlock() of one it does not own                       *)
(***************************************************************************)
EXTENDS RunQueue

CONSTANTS MainTask, GcTask, None

ASSUME MutexAssumption ==
  /\ MainTask \in Task /\ GcTask \in Task /\ MainTask # GcTask
  /\ ~is_idle(MainTask) /\ ~is_idle(GcTask)
  /\ None \notin Task
  /\ WQ \subseteq Nat /\ WQ # {}

VARIABLES
  rq,        \* what RUN_QUEUE protects, see RunQueue
  owner_id,  \* per mutex: the task id stored in it, None for 0
  guards,    \* the MutexGuards each task holds
  pc, at     \* where each task is, and with which mutex

vars == << rq, owner_id, guards, pc, at >>

Pc == {"user", "cas", "until", "cancel", "notify"}

(* at[t] of a task outside the mutex code.                                 *)
NoMutex == CHOOSE m \in WQ : TRUE

Init ==
  /\ rq = InitRQ(MainTask, GcTask)
  /\ owner_id = [m \in WQ |-> None]
  /\ guards = [t \in Task |-> {}]
  /\ pc = [t \in Task |-> "user"]
  /\ at = [t \in Task |-> NoMutex]

-----------------------------------------------------------------------------
(* Task t runs and is at label l.                                          *)
At(c, t, l) == rq.current[c] = t /\ ~is_idle(t) /\ pc[t] = l

Goto(t, l, m) ==
  /\ pc' = [pc EXCEPT ![t] = l]
  /\ at' = [at EXCEPT ![t] = m]

(* The discipline of the callers: mutexes in ascending order.              *)
MayLock(t, m) == \A h \in guards[t] : h < m

spawn(c, t) ==
  /\ At(c, t, "user")
  /\ \E u \in Task : rq.state[u] = "New" /\ rq' = add_task(rq, u)
  /\ UNCHANGED << owner_id, guards, pc, at >>

yield_now(c) ==
  /\ is_idle(rq.current[c]) \/ pc[rq.current[c]] = "user"
  /\ rq' = yield_current(rq, c)
  /\ UNCHANGED << owner_id, guards, pc, at >>

lock(c, t) ==
  /\ At(c, t, "user")
  /\ \E m \in WQ : MayLock(t, m) /\ Goto(t, "cas", m)
  /\ UNCHANGED << rq, owner_id, guards >>

(* A test and a store instead of one atomic operation: the test was true.  *)
compare_exchangeLate(c, t) ==
  /\ At(c, t, "cas")
  /\ owner_id' = [owner_id EXCEPT ![at[t]] = t]
  /\ guards' = [guards EXCEPT ![t] = @ \cup {at[t]}]
  /\ Goto(t, "user", NoMutex)
  /\ UNCHANGED rq

(* compare_exchange_weak(0, current_id): it may fail although the mutex is *)
(* free, and then the loop goes on as if it were not.                      *)
compare_exchange(c, t) ==
  /\ At(c, t, "cas")
  /\ \/ /\ owner_id[at[t]] = None
        /\ owner_id' = [owner_id EXCEPT ![at[t]] = t]
        /\ guards' = [guards EXCEPT ![t] = @ \cup {at[t]}]
        /\ Goto(t, "user", NoMutex)
     \/ /\ Goto(t, IF owner_id[at[t]] = t THEN "panic" ELSE "until", at[t])
        /\ UNCHANGED << owner_id, guards >>
  /\ UNCHANGED rq

(* wait() in place of wait_until(): nothing is tested under the lock.      *)
wait_untilUntested(c, t) ==
  /\ At(c, t, "until")
  /\ rq' = block_current(rq, c, at[t])
  /\ Goto(t, "cancel", at[t])
  /\ UNCHANGED << owner_id, guards >>

(* One turn of wait_until: the mutex is tested and the task queued under   *)
(* RUN_QUEUE.                                                              *)
wait_until(c, t) ==
  /\ At(c, t, "until")
  /\ \/ /\ owner_id[at[t]] = None
        /\ Goto(t, "cancel", at[t])
        /\ UNCHANGED rq
     \/ /\ owner_id[at[t]] # None
        /\ rq' = block_current(rq, c, at[t])
        /\ UNCHANGED << pc, at >>
  /\ UNCHANGED << owner_id, guards >>

cancel_events(c, t) ==
  /\ At(c, t, "cancel")
  /\ rq' = cancel_wait(rq, at[t], t)
  /\ Goto(t, "cas", at[t])
  /\ UNCHANGED << owner_id, guards >>

try_lock(c, t) ==
  /\ At(c, t, "user")
  /\ \E m \in WQ :
       /\ MayLock(t, m)
       /\ owner_id[m] = None
       /\ owner_id' = [owner_id EXCEPT ![m] = t]
       /\ guards' = [guards EXCEPT ![t] = @ \cup {m}]
  /\ UNCHANGED << rq, pc, at >>

(* The owner's id is not cleared.                                          *)
force_unlockKeepOwner(c, t) ==
  /\ At(c, t, "user")
  /\ \E m \in guards[t] :
       /\ guards' = [guards EXCEPT ![t] = @ \ {m}]
       /\ Goto(t, "notify", m)
  /\ UNCHANGED << rq, owner_id >>

(* The guard is dropped: force_unlock, first owner_id.swap(0) and the      *)
(* assertion that the caller was the owner ...                             *)
force_unlock(c, t) ==
  /\ At(c, t, "user")
  /\ \E m \in guards[t] :
       /\ owner_id' = [owner_id EXCEPT ![m] = None]
       /\ guards' = [guards EXCEPT ![t] = @ \ {m}]
       /\ Goto(t, IF owner_id[m] = t THEN "notify" ELSE "panic", m)
  /\ UNCHANGED rq

force_unlock_notifySkip(c, t) ==
  /\ At(c, t, "notify")
  /\ Goto(t, "user", NoMutex)
  /\ UNCHANGED << rq, owner_id, guards >>

(* ... then notify_one under RUN_QUEUE.                                    *)
force_unlock_notify(c, t) ==
  /\ At(c, t, "notify")
  /\ rq' = notify_one_locked(rq, at[t])
  /\ Goto(t, "user", NoMutex)
  /\ UNCHANGED << owner_id, guards >>

-----------------------------------------------------------------------------
(* The steps of a call that has started, and those with which one starts.  *)
Proceed(c, t) ==
  \/ compare_exchange(c, t) \/ wait_until(c, t) \/ cancel_events(c, t)
  \/ force_unlock_notify(c, t)

Start(c, t) == spawn(c, t) \/ lock(c, t) \/ try_lock(c, t) \/ force_unlock(c, t)

Next ==
  \E c \in Cpu :
    \/ yield_now(c)
    \/ \E t \in Task : Proceed(c, t) \/ Start(c, t)

Spec == Init /\ [][Next]_vars

(* A task at work on a mutex keeps working when it has the CPU and its     *)
(* weak compare-exchange does not fail for ever; a caller eventually drops *)
(* the guards it has, and does not keep the CPU for ever.                  *)
Fairness ==
  /\ \A c \in Cpu : WF_vars(is_idle(rq.current[c]) /\ yield_now(c))
  /\ \A t \in {u \in Task : ~is_idle(u)} :
       /\ SF_vars(\E c \in Cpu : Proceed(c, t))
       /\ SF_vars(\E c \in Cpu : compare_exchange(c, t) /\ guards' # guards)
       /\ SF_vars(\E c \in Cpu : force_unlock(c, t))
       /\ SF_vars(\E c \in Cpu : rq.current[c] = t /\ yield_now(c))

FairSpec == Spec /\ Fairness

-----------------------------------------------------------------------------
(* The types.  "panic" is no label of a task: the assertions of lock() and *)
(* force_unlock() never fail.                                              *)
TypeOK ==
  /\ RQType(rq)
  /\ owner_id \in [WQ -> Task \cup {None}]
  /\ guards \in [Task -> SUBSET WQ]
  /\ pc \in [Task -> Pc]
  /\ at \in [Task -> WQ]

(* Mutual exclusion: no two tasks have a guard for one mutex (lock,        *)
(* try_lock, force_unlock).                                                *)
MutualExclusion ==
  \A t, u \in Task : guards[t] \cap guards[u] # {} => t = u

(* The id in the mutex is that of the task with the guard, 0 when there is *)
(* none (compare_exchange in lock and try_lock, swap in force_unlock).     *)
OwnerHasGuard == \A t \in Task, m \in WQ : m \in guards[t] <=> owner_id[m] = t

Awake(t) == rq.state[t] \in {"Ready", "Running"}

(* No lost wake-up: while a mutex is free and a task sleeps in its queue,  *)
(* somebody awake is about to wake it or to take the mutex itself          *)
(* (wait_until against force_unlock).                                      *)
NoLostWakeup ==
  \A m \in WQ :
    owner_id[m] = None /\ rq.queue[m] # << >> =>
      \E t \in Task : at[t] = m /\ Awake(t)
                        /\ pc[t] \in {"notify", "until", "cancel", "cas"}

(* The wait queue of a mutex has exactly the tasks that are Blocked on it, *)
(* each once: none is left behind in it and none sleeps outside it.        *)
QueueIsBlocked ==
  /\ \A t \in Task : rq.state[t] = "Blocked" => pc[t] = "until" /\ InQueue(rq, at[t], t)
  /\ \A m \in WQ : \A i \in DOMAIN rq.queue[m] :
       /\ rq.state[rq.queue[m][i]] = "Blocked"
       /\ at[rq.queue[m][i]] = m
       /\ \A j \in DOMAIN rq.queue[m] : rq.queue[m][i] = rq.queue[m][j] => i = j

RunQueueOK == ReadyListOK(rq) /\ CurrentOK(rq)

(* The mutex implements the lock its users rely on.                        *)
Abstract == INSTANCE AbstractMutex WITH Client <- Task, Lock <- WQ
Implements == Abstract!Spec

(* A mutex somebody waits for does not stay free (lock, force_unlock), as  *)
(* long as resched loses no Ready task: on several CPUs it may.            *)
LockProgress ==
  []ReadyQueuedOK(rq) =>
    \A m \in WQ :
      (\E t \in Task : at[t] = m /\ pc[t] \in {"cas", "until"}) ~> owner_id[m] # None
=============================================================================

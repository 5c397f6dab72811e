----------------------------- MODULE CFScheduler -----------------------------
(***************************************************************************)
(* The completely fair scheduler (crates/scheduler/src/cfs.rs), driven by  *)
(* a run queue of one CPU with feature preempt.  The ready queue is a      *)
(* BTreeMap from (vruntime, id) to tasks; the fields of CFSTask are        *)
(* functions of the task.                                                  *)
(***************************************************************************)
EXTENDS Integers, Sequences, FiniteSets

CONSTANTS
  Task,       \* the tasks, the idle task aside
  Idle,       \* the idle task, never in the ready queue
  Prio,       \* the priorities set_priority is called with
  MaxDelta,   \* bound on the ticks a task gets between priority changes
  MaxVruntime,\* bound: a task that has reached it gets no more ticks
  MaxId       \* bound on id_pool

ASSUME IdleOutside == Idle \notin Task
ASSUME PrioAssumption == Prio \subseteq Int
ASSUME BoundAssumption == MaxDelta \in Nat /\ MaxVruntime \in Nat /\ MaxId \in Nat

VARIABLES
  ready_queue,    \* function from the keys in use, <<vruntime, id>>
  min_vruntime,   \* {} for None, {v} for Some(v)
  id_pool,
  init_vruntime, delta, nice, id,    \* CFSTask
  current,
  pending,        \* preempt_pending of the current task
  runnable,       \* history: the tasks that have come and not gone
  carried,        \* history: queued by add_task with ticks of an earlier stay
  removed         \* history: remove_task has taken a task out

cfs == << init_vruntime, delta, nice, id >>
vars == << ready_queue, min_vruntime, id_pool, cfs, current, pending, runnable,
           carried, removed >>

Queued == {ready_queue[k] : k \in DOMAIN ready_queue}

-----------------------------------------------------------------------------
(* CFSTask.                                                                *)

NICE2WEIGHT_POS ==
  << 1024, 820, 655, 526, 423, 335, 272, 215, 172, 137, 110, 87, 70, 56, 45,
     36, 29, 23, 18, 15 >>
NICE2WEIGHT_NEG ==
  << 1024, 1277, 1586, 1991, 2501, 3121, 3906, 4904, 6100, 7620, 9548, 11916,
     14949, 18705, 23254, 29154, 36291, 46273, 56483, 71755, 88761 >>

get_weight(n) == IF n >= 0 THEN NICE2WEIGHT_POS[n + 1] ELSE NICE2WEIGHT_NEG[1 - n]

(* Both operands of the division are positive: \div truncates like isize.  *)
VruntimeAfter(t, ticks) ==
  init_vruntime[t] + (IF nice[t] = 0 THEN ticks
                                     ELSE (ticks * 1024) \div get_weight(nice[t]))

get_vruntime(t) == VruntimeAfter(t, delta[t])

-----------------------------------------------------------------------------
(* CFScheduler.                                                            *)

Precedes(k, l) == k[1] < l[1] \/ (k[1] = l[1] /\ k[2] <= l[2])

(* first_key_value of a map that is not empty.                             *)
first_key(q) == CHOOSE k \in DOMAIN q : \A l \in DOMAIN q : Precedes(k, l)

(* BTreeMap::insert: an entry with the same key is replaced.               *)
insert(q, key, t) == [k \in DOMAIN q \cup {key} |-> IF k = key THEN t ELSE q[k]]
Without(q, key) == [k \in DOMAIN q \ {key} |-> q[k]]

MinOf(q) == IF DOMAIN q = {} THEN {} ELSE {first_key(q)[1]}

Init ==
  /\ ready_queue = << >> /\ min_vruntime = {} /\ id_pool = 0
  /\ init_vruntime = [t \in Task |-> 0] /\ delta = [t \in Task |-> 0]
  /\ nice = [t \in Task |-> 0] /\ id = [t \in Task |-> 0]
  /\ current = Idle /\ pending = FALSE /\ runnable = {} /\ carried = {} /\ removed = FALSE

(* The id is not drawn from the pool.                                      *)
add_taskSameId(t) ==
  LET vruntime == IF min_vruntime = {} THEN 0 ELSE CHOOSE v \in min_vruntime : TRUE IN
  /\ t \in Task \ runnable /\ runnable' = runnable \cup {t}
  /\ id_pool < MaxId
  /\ init_vruntime' = [init_vruntime EXCEPT ![t] = vruntime]
  /\ id' = [id EXCEPT ![t] = id_pool]
  /\ ready_queue' = insert(ready_queue, << vruntime, id_pool >>, t)
  /\ min_vruntime' = MinOf(ready_queue')
  /\ carried' = IF delta[t] # 0 THEN carried \cup {t} ELSE carried \ {t}
  /\ UNCHANGED << id_pool, delta, nice, current, pending, removed >>

(* A new task, or one that unblock_task has made Ready: it starts at the   *)
(* smallest virtual run time.  delta keeps its value.                      *)
add_task(t) ==
  LET vruntime == IF min_vruntime = {} THEN 0 ELSE CHOOSE v \in min_vruntime : TRUE IN
  /\ t \in Task \ runnable /\ runnable' = runnable \cup {t}
  /\ id_pool < MaxId
  /\ id_pool' = id_pool + 1
  /\ init_vruntime' = [init_vruntime EXCEPT ![t] = vruntime]
  /\ id' = [id EXCEPT ![t] = id_pool]
  /\ ready_queue' = insert(ready_queue, << vruntime, id_pool >>, t)
  /\ min_vruntime' = MinOf(ready_queue')
  /\ carried' = IF delta[t] # 0 THEN carried \cup {t} ELSE carried \ {t}
  /\ UNCHANGED << delta, nice, current, pending, removed >>

(* The entry is looked up under the key the task has now; if there is no   *)
(* such entry nothing is removed.                                          *)
remove_task(t) ==
  LET key == << get_vruntime(t), id[t] >> IN
  /\ t \in Queued
  /\ ready_queue' = Without(ready_queue, key)
  /\ min_vruntime' = IF key \in DOMAIN ready_queue THEN MinOf(ready_queue') ELSE min_vruntime
  /\ runnable' = IF key \in DOMAIN ready_queue THEN runnable \ {t} ELSE runnable
  /\ removed' = (removed \/ key \in DOMAIN ready_queue)
  /\ UNCHANGED << id_pool, cfs, current, pending, carried >>

put_prev_taskOldKey(t) ==
  insert(ready_queue, << init_vruntime[t], id_pool >>, t)

(* The ready queue after the task is put back under a new id.              *)
put_prev_task(t) == insert(ready_queue, << get_vruntime(t), id_pool >>, t)

(* pop_first; min_vruntime is left as it is.                               *)
pick_next_task(q) ==
  IF DOMAIN q = {} THEN ready_queue' = q /\ current' = Idle
  ELSE ready_queue' = Without(q, first_key(q)) /\ current' = q[first_key(q)]

(* resched of the run queue.  preempt makes no difference here.            *)
Switch ==
  \/ /\ current = Idle
     /\ pick_next_task(ready_queue)
     /\ UNCHANGED << id_pool, id >>
  \/ /\ current # Idle /\ id_pool < MaxId
     /\ id_pool' = id_pool + 1
     /\ id' = [id EXCEPT ![current] = id_pool]
     /\ pick_next_task(put_prev_task(current))

resched ==
  /\ Switch
  /\ pending' = FALSE
  /\ carried' = carried \ {current}
  /\ UNCHANGED << min_vruntime, init_vruntime, delta, nice, runnable, removed >>

(* A task yields, or is preempted once preemption is allowed.              *)
yield_current == resched

(* The current task blocks or exits: resched does not put it back.         *)
leave_current ==
  /\ current # Idle /\ runnable' = runnable \ {current}
  /\ pick_next_task(ready_queue)
  /\ pending' = FALSE
  /\ UNCHANGED << min_vruntime, id_pool, cfs, carried, removed >>

(* Rescheduling is asked for only when the queue has been emptied.         *)
task_tickNoCompare ==
  /\ current # Idle /\ delta[current] < MaxDelta /\ get_vruntime(current) < MaxVruntime
  /\ delta' = [delta EXCEPT ![current] = @ + 1]
  /\ pending' = (pending \/ min_vruntime = {})
  /\ UNCHANGED << ready_queue, min_vruntime, id_pool, init_vruntime, nice, id, current,
                 runnable, carried, removed >>

task_tick ==
  /\ current # Idle /\ delta[current] < MaxDelta /\ get_vruntime(current) < MaxVruntime
  /\ delta' = [delta EXCEPT ![current] = @ + 1]
  /\ pending' = (pending \/ \A v \in min_vruntime :
                            VruntimeAfter(current, delta[current] + 1) > v)
  /\ UNCHANGED << ready_queue, min_vruntime, id_pool, init_vruntime, nice, id, current,
                 runnable, carried, removed >>

(* The run time so far is forgotten.                                       *)
set_priorityForgets(prio) ==
  /\ current # Idle /\ prio \in -20 .. 19
  /\ delta' = [delta EXCEPT ![current] = 0]
  /\ nice' = [nice EXCEPT ![current] = prio]
  /\ UNCHANGED << ready_queue, min_vruntime, id_pool, init_vruntime, id, current, pending,
                 runnable, carried, removed >>

(* Only the current task's priority is set; one out of range is refused.   *)
set_priority(prio) ==
  /\ current # Idle /\ prio \in -20 .. 19
  /\ init_vruntime' = [init_vruntime EXCEPT ![current] = get_vruntime(current)]
  /\ delta' = [delta EXCEPT ![current] = 0]
  /\ nice' = [nice EXCEPT ![current] = prio]
  /\ UNCHANGED << ready_queue, min_vruntime, id_pool, id, current, pending,
                 runnable, carried, removed >>

AddAny == \E t \in Task : add_task(t)
RemoveAny == \E t \in Task : remove_task(t)
SetPriority == \E prio \in Prio : set_priority(prio)

Next == AddAny \/ RemoveAny \/ yield_current \/ leave_current \/ task_tick \/ SetPriority

Spec == Init /\ [][Next]_vars

-----------------------------------------------------------------------------
TypeOK ==
  /\ DOMAIN ready_queue \subseteq Nat \X (0 .. MaxId)
  /\ Queued \cup carried \cup runnable \subseteq Task
  /\ min_vruntime \subseteq Nat /\ Cardinality(min_vruntime) <= 1
  /\ id_pool \in 0 .. MaxId
  /\ init_vruntime \in [Task -> Nat] /\ delta \in [Task -> 0 .. MaxDelta]
  /\ nice \in [Task -> -20 .. 19] /\ id \in [Task -> 0 .. MaxId]
  /\ current \in Task \cup {Idle} /\ pending \in BOOLEAN

Promise == INSTANCE BaseScheduler

(* The scheduler keeps the promise of the trait: only runnable tasks are   *)
(* picked, and the idle task runs only if there is none, so none is lost   *)
(* (two keys of the BTreeMap never collide).                               *)
KeepsPromise == Promise!Spec

(* remove_task finds what it is given: a queued task is stored under the   *)
(* key that remove_task computes from its fields.  The exception are tasks *)
(* that come back with ticks of an earlier stay: add_task keeps delta but  *)
(* does not count it in the key, until put_prev_task stores them anew.     *)
RemoveFinds ==
  \A k \in DOMAIN ready_queue :
    LET t == ready_queue[k] IN
    k[2] = id[t] /\ (t \in carried \/ k[1] = get_vruntime(t))

(* task_tick asks for rescheduling when the running task has had more than *)
(* a queued one: min_vruntime is refreshed only by add_task and            *)
(* remove_task, and what it has kept does not hide a queued task.  After a *)
(* remove_task it may: the smallest key left can be above the current      *)
(* task's, which is then put back below min_vruntime.                      *)
LagNoticed ==
  [][ task_tick /\ ~removed =>
        pending' \/ \A k \in DOMAIN ready_queue : get_vruntime(current)' <= k[1] ]_vars

(* Run time is never given back: apart from add_task, which places a task, *)
(* no step makes a virtual run time smaller; set_priority moves delta into *)
(* init_vruntime before it changes the weight.                             *)
VruntimeMonotone ==
  [][ \A t \in Task : get_vruntime(t)' >= get_vruntime(t) \/ add_task(t) ]_vars
=============================================================================

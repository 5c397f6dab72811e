------------------------------ MODULE RunQueue ------------------------------
(***************************************************************************)
(* The run queue and the wait queues of the kernel (axtask of the          *)
(* stackful tree, async/sync): run_queue.rs, wait_queue.rs, schedule.rs    *)
(* and the FIFO scheduler crate.                                           *)
(*                                                                         *)
(* RUN_QUEUE is one global spin lock.  It is taken with interrupts off,    *)
(* handed over the context switch, and released by the task that resumes,  *)
(* so each critical section is one step.  What it protects is one record,  *)
(*                                                                         *)
(*   state          TaskState of each task ("New": not created yet)        *)
(*   ready          the scheduler's ready queue                            *)
(*   current        the current task of each CPU                           *)
(*   queue          the tasks of each WaitQueue, in order                  *)
(*   in_wait_queue  TASK_IN_WAIT_QUEUE, one flag per task                  *)
(*                                                                         *)
(* and every operation of the code is an operator from the record before   *)
(* to the record after.  The specifications that compose the run queue     *)
(* with timers, mutexes and task exit keep the record in a variable.       *)
(***************************************************************************)
EXTENDS Integers, Sequences, FiniteSets

CONSTANTS
  Task,       \* all tasks the kernel may create, the idle tasks included
  SMP,        \* axconfig::SMP, the number of CPUs
  IdleTask,   \* IDLE_TASK, a per-CPU static
  WQ          \* the wait queues

Cpu == 0 .. (SMP - 1)

ASSUME SMPAssumption == SMP \in Nat \ {0}

ASSUME IdleAssumption ==
  /\ IdleTask \in [Cpu -> Task]
  /\ \A c, d \in Cpu : IdleTask[c] = IdleTask[d] => c = d

TaskState == {"New", "Running", "Ready", "Blocked", "Exited"}

is_idle(t) == \E c \in Cpu : IdleTask[c] = t

-----------------------------------------------------------------------------
(* CPU affinity.  Every task is created with                               *)
(* set_cpu_set((1 << SMP) - 1, 1, SMP); nothing changes it afterwards.     *)

(* The set of CPUs the mask built by set_cpu_set stands for.               *)
set_cpu_set(mask, set_size, max_cpu_num) ==
  LET len == IF set_size * 4 > max_cpu_num THEN max_cpu_num ELSE set_size * 4
  IN  mask \cap {len - 1}

cpu_set == set_cpu_set(Cpu, 1, SMP)

-----------------------------------------------------------------------------
(* Scheduling.                                                             *)

(* A new task (its TaskInner is created Ready) enters the ready queue.     *)
add_task(rq, t) ==
  [rq EXCEPT !.state[t] = "Ready", !.ready = Append(@, t)]

(* The task is put at the front.                                           *)
put_prev_taskFront(rq, c) ==
  LET prev == rq.current[c] IN
  IF rq.state[prev] # "Running" THEN rq
  ELSE [rq EXCEPT !.state[prev] = "Ready",
                  !.ready = IF is_idle(prev) THEN @ ELSE << prev >> \o @]

(* The idle task is queued like the others.                                *)
put_prev_taskIdleToo(rq, c) ==
  LET prev == rq.current[c] IN
  IF rq.state[prev] # "Running" THEN rq
  ELSE [rq EXCEPT !.state[prev] = "Ready", !.ready = Append(@, prev)]

(* A current task that is still Running goes back to the ready queue.      *)
put_prev_task(rq, c) ==
  LET prev == rq.current[c] IN
  IF rq.state[prev] # "Running" THEN rq
  ELSE [rq EXCEPT !.state[prev] = "Ready",
                  !.ready = IF is_idle(prev) THEN @ ELSE Append(@, prev)]

switch_to(rq, c, next) ==
  [rq EXCEPT !.state[next] = "Running", !.current[c] = next]

(* The loop of resched takes the first queued task whose CPU set has this  *)
(* CPU.  All CPU sets are equal: on a CPU of the set that is the head; on  *)
(* another CPU the loop moves every task to the back, takes the first one  *)
(* a second time, and runs the idle task: the task taken last is in no     *)
(* queue any more.                                                         *)
resched(rq, c) ==
  LET put  == put_prev_task(rq, c)
      next == IF put.ready # << >> /\ c \in cpu_set
                THEN Head(put.ready) ELSE IdleTask[c]
      rest == IF put.ready = << >> THEN << >> ELSE Tail(put.ready)
  IN  switch_to([put EXCEPT !.ready = rest], c, next)

yield_current(rq, c) == resched(rq, c)

(* The current task stops being schedulable.  The closure of block_current *)
(* puts it into wait queue q.                                              *)
block_current(rq, c, q) ==
  LET curr == rq.current[c] IN
  resched([rq EXCEPT !.state[curr] = "Blocked",
                     !.in_wait_queue = @ \cup {curr},
                     !.queue[q] = Append(@, curr)], c)

(* The part of sleep_until that follows set_alarm_wakeup.                  *)
sleep_current(rq, c) ==
  resched([rq EXCEPT !.state[rq.current[c]] = "Blocked"], c)

(* Only a Blocked task is made Ready.                                      *)
unblock_task(rq, t) ==
  IF rq.state[t] # "Blocked" THEN rq
  ELSE [rq EXCEPT !.state[t] = "Ready", !.ready = Append(@, t)]

-----------------------------------------------------------------------------
(* Wait queues.                                                            *)

remove_from_wait_queue(rq, t) == [rq EXCEPT !.in_wait_queue = @ \ {t}]

(* The head is looked at instead of popped.                                *)
notify_one_lockedPeek(rq, q) ==
  IF rq.queue[q] = << >> THEN rq
  ELSE LET t == Head(rq.queue[q]) IN
       unblock_task(remove_from_wait_queue(rq, t), t)

(* notify_one and notify_one_locked: wake the head, if there is one.       *)
notify_one_locked(rq, q) ==
  IF rq.queue[q] = << >> THEN rq
  ELSE LET t == Head(rq.queue[q]) IN
       unblock_task(remove_from_wait_queue([rq EXCEPT !.queue[q] = Tail(@)], t), t)

(* Take the first entry of t out of a queue.                               *)
RemoveFirstOf(s, t) ==
  LET i == CHOOSE i \in DOMAIN s :
             s[i] = t /\ \A j \in DOMAIN s : s[j] = t => i <= j
  IN  SubSeq(s, 1, i - 1) \o SubSeq(s, i + 1, Len(s))

InQueue(rq, q, t) == \E i \in DOMAIN rq.queue[q] : rq.queue[q][i] = t

notify_task(rq, q, t) ==
  IF ~InQueue(rq, q, t) THEN rq
  ELSE unblock_task(remove_from_wait_queue(
         [rq EXCEPT !.queue[q] = RemoveFirstOf(@, t)], t), t)

cancel_waitKeepEntry(rq, q, t) == remove_from_wait_queue(rq, t)

(* retain(|u| u != t): the other entries of s, in their order.  Entry k of  *)
(* the result is the k-th of the positions that are kept.                  *)
Without(s, t) ==
  LET kept == {i \in DOMAIN s : s[i] # t}
      kth(k) == CHOOSE i \in kept : Cardinality({j \in kept : j <= i}) = k
  IN  [k \in 1 .. Cardinality(kept) |-> s[kth(k)]]

(* First half of cancel_events: a task that was not woken by a notify_*    *)
(* takes all its entries out of the queue.                                 *)
cancel_wait(rq, q, t) ==
  IF t \notin rq.in_wait_queue THEN rq
  ELSE remove_from_wait_queue([rq EXCEPT !.queue[q] = Without(@, t)], t)

-----------------------------------------------------------------------------
(* The state after init(), and init_secondary() on every other CPU: main   *)
(* runs on CPU 0, where the idle task has been created but never run, and  *)
(* gc is queued.                                                           *)
InitRQ(main, gc) ==
  [ state |-> [t \in Task |->
                 CASE t = main                                 -> "Running"
                   [] t = gc                                   -> "Ready"
                   [] t = IdleTask[0]                          -> "Ready"
                   [] \E c \in Cpu \ {0} : t = IdleTask[c]     -> "Running"
                   [] OTHER                                    -> "New" ],
    ready |-> << gc >>,
    current |-> [c \in Cpu |-> IF c = 0 THEN main ELSE IdleTask[c]],
    queue |-> [q \in WQ |-> << >>],
    in_wait_queue |-> {} ]

-----------------------------------------------------------------------------
RQType(rq) ==
  rq \in [ state : [Task -> TaskState],
           ready : Seq(Task),
           current : [Cpu -> Task],
           queue : [WQ -> Seq(Task)],
           in_wait_queue : SUBSET Task ]

(* The ready queue is an intrusive list: a task is linked at most once     *)
(* (linked_list leaves a second insertion undefined), and only tasks that  *)
(* are Ready and not idle are linked.                                      *)
ReadyListOK(rq) ==
  /\ \A i, j \in DOMAIN rq.ready : rq.ready[i] = rq.ready[j] => i = j
  /\ \A i \in DOMAIN rq.ready :
       rq.state[rq.ready[i]] = "Ready" /\ ~is_idle(rq.ready[i])

(* A task runs on at most one CPU, and is Running exactly when it is the   *)
(* current task of one; an idle task only ever runs on its own CPU.        *)
CurrentOK(rq) ==
  /\ \A c, d \in Cpu : rq.current[c] = rq.current[d] => c = d
  /\ \A t \in Task : rq.state[t] = "Running" <=> \E c \in Cpu : rq.current[c] = t
  /\ \A c, d \in Cpu : rq.current[c] = IdleTask[d] => c = d
  /\ \A c \in Cpu : rq.state[IdleTask[c]] \in {"Running", "Ready"}

(* No Ready task is forgotten: each one, idle tasks aside, is queued.      *)
ReadyQueuedOK(rq) ==
  \A t \in Task : rq.state[t] = "Ready" /\ ~is_idle(t) =>
                    \E i \in DOMAIN rq.ready : rq.ready[i] = t
=============================================================================

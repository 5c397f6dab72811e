----------------------------- MODULE RRScheduler -----------------------------
(***************************************************************************)
(* The round-robin scheduler (crates/scheduler/src/round_robin.rs), driven *)
(* by a run queue of one CPU with feature preempt: timer ticks, delayed    *)
(* preemption, yields, tasks that leave (block or exit) and come back.     *)
(***************************************************************************)
EXTENDS Integers, FiniteSets, SequencesExt

CONSTANTS
  Task,            \* the tasks, the idle task aside
  Idle,            \* the idle task, never in the ready queue
  MAX_TIME_SLICE,
  MaxLate,         \* most ticks while a preemption waits to be allowed
  MaxDebt          \* bound: no tick takes a time slice below -MaxDebt

ASSUME SliceAssumption ==
  MAX_TIME_SLICE \in Nat \ {0} /\ MaxLate \in Nat /\ MaxDebt \in Nat

ASSUME IdleOutside == Idle \notin Task

ASSUME TaskFinite == IsFiniteSet(Task)

VARIABLES
  ready_queue,     \* VecDeque of tasks
  time_slice,      \* of each task
  current,
  pending,         \* preempt_pending of the current task
  late,            \* ticks since pending was set
  runnable,        \* history: the tasks that have come and not gone
  waited           \* history: ticks each queued task has waited

vars == << ready_queue, time_slice, current, pending, late, runnable, waited >>

Queued == ToSet(ready_queue)

Init ==
  /\ ready_queue = << >>
  /\ time_slice = [t \in Task |-> MAX_TIME_SLICE]
  /\ current = Idle /\ pending = FALSE /\ late = 0
  /\ runnable = {} /\ waited = [t \in Task |-> 0]

-----------------------------------------------------------------------------
(* Variants: the slice is not looked at; the task is not pushed.           *)
put_prev_taskAnySlice(s, prev, preempt) ==
  IF preempt
    THEN [ready |-> << prev >> \o s.ready, slice |-> s.slice]
    ELSE [ready |-> Append(s.ready, prev),
          slice |-> [s.slice EXCEPT ![prev] = MAX_TIME_SLICE]]

put_prev_taskNoPush(s, prev, preempt) ==
  IF s.slice[prev] > 0 /\ preempt THEN s
  ELSE [ready |-> Append(s.ready, prev),
        slice |-> [s.slice EXCEPT ![prev] = MAX_TIME_SLICE]]

(* A task that is preempted within its slice keeps its turn; any other     *)
(* goes to the back with a full slice.                                     *)
put_prev_task(s, prev, preempt) ==
  IF s.slice[prev] > 0 /\ preempt
    THEN [ready |-> << prev >> \o s.ready, slice |-> s.slice]
    ELSE [ready |-> Append(s.ready, prev),
          slice |-> [s.slice EXCEPT ![prev] = MAX_TIME_SLICE]]

(* The head is looked at and not popped. *)
SwitchFromPeek(s) ==
  /\ ready_queue' = s.ready
  /\ current' = IF s.ready = << >> THEN Idle ELSE Head(s.ready)
  /\ time_slice' = s.slice
  /\ pending' = FALSE /\ late' = 0
  /\ waited' = [t \in Task |-> IF t \in Queued /\ t # current' THEN waited[t] ELSE 0]

(* pick_next_task and switch_to, from the scheduler state s: the head, or  *)
(* the idle task.  The new current task starts with no preemption pending. *)
SwitchFrom(s) ==
  /\ ready_queue' = IF s.ready = << >> THEN << >> ELSE Tail(s.ready)
  /\ current' = IF s.ready = << >> THEN Idle ELSE Head(s.ready)
  /\ time_slice' = s.slice
  /\ pending' = FALSE /\ late' = 0
  /\ waited' = [t \in Task |-> IF t \in Queued /\ t # current' THEN waited[t] ELSE 0]

Here == [ready |-> ready_queue, slice |-> time_slice]

(* resched: the current task is still Running and is put back.             *)
resched(preempt) ==
  /\ UNCHANGED runnable
  /\ SwitchFrom(IF current = Idle THEN Here ELSE put_prev_task(Here, current, preempt))

-----------------------------------------------------------------------------
(* A new task, or one that unblock_task has made Ready.  With resched, the *)
(* current task is to be preempted.                                        *)
add_task(t) ==
  /\ t \in Task \ runnable /\ runnable' = runnable \cup {t}
  /\ ready_queue' = Append(ready_queue, t)
  /\ \/ UNCHANGED << pending, late >>
     \/ current # Idle /\ ~pending /\ pending' = TRUE /\ late' = 0
  /\ UNCHANGED << time_slice, current, waited >>

(* The position of the task is searched, and that element removed.         *)
remove_task(t) ==
  /\ t \in Queued /\ runnable' = runnable \ {t}
  /\ ready_queue' = RemoveAt(ready_queue, SelectInSeq(ready_queue, LAMBDA u : u = t))
  /\ waited' = [waited EXCEPT ![t] = 0]
  /\ UNCHANGED << time_slice, current, pending, late >>

(* scheduler_timer_tick: task_tick of the current task, if it is not idle. *)
(* Ticks go on while the preemption is not allowed yet.                    *)
task_tick ==
  /\ current # Idle
  /\ pending => late < MaxLate
  /\ time_slice[current] > -MaxDebt
  /\ time_slice' = [time_slice EXCEPT ![current] = @ - 1]
  /\ pending' = (pending \/ time_slice[current] <= 1)
  /\ late' = IF pending THEN late + 1 ELSE 0
  /\ waited' = [t \in Task |-> IF t \in Queued THEN waited[t] + 1 ELSE 0]
  /\ UNCHANGED << ready_queue, current, runnable >>

(* current_check_preempt_pending once preemption is allowed.               *)
preempt_resched == pending /\ resched(TRUE)

(* A task yields; the idle task does nothing else.                         *)
yield_current == resched(FALSE)

(* The current task blocks or exits: resched does not put it back.         *)
leave_current ==
  /\ current # Idle /\ runnable' = runnable \ {current}
  /\ SwitchFrom(Here)

AddAny == \E t \in Task : add_task(t)
RemoveAny == \E t \in Task : remove_task(t)

Next ==
  \/ AddAny \/ RemoveAny \/ task_tick
  \/ preempt_resched \/ yield_current \/ leave_current

Spec == Init /\ [][Next]_vars

-----------------------------------------------------------------------------
TypeOK ==
  /\ ready_queue \in Seq(Task)
  /\ time_slice \in [Task -> -MaxDebt .. MAX_TIME_SLICE]
  /\ current \in Task \cup {Idle}
  /\ pending \in BOOLEAN /\ late \in 0 .. MaxLate
  /\ runnable \subseteq Task /\ waited \in [Task -> Nat]

(* The turn of every queued task comes: it waits for at most a slice, and  *)
(* the ticks by which a preemption can be late, of every other task, even  *)
(* though put_prev_task puts preempted tasks in front of it and add_task   *)
(* does not reset the slice of a task that comes back.                     *)
WaitBounded ==
  \A t \in Queued :
    waited[t] <= (MAX_TIME_SLICE + MaxLate) * (Cardinality(Task) - 1)

Promise == INSTANCE BaseScheduler

(* The scheduler keeps the promise of the trait: only runnable tasks are   *)
(* picked, and the idle task runs only if there is none, so none is lost.  *)
KeepsPromise == Promise!Spec

(* No task is queued twice or while it runs: two CPUs could pick it.       *)
QueuedOnce == IsInjective(ready_queue) /\ current \notin Queued
=============================================================================

----------------------------- MODULE WaitQueue -----------------------------
(***************************************************************************)
(* Blocking and waking: the callers of WaitQueue (wait_queue.rs), of the   *)
(* wake-up alarms (timers.rs, the timer_list crate), and of sleep and      *)
(* yield (api.rs), over the run queue.                                     *)
(*                                                                         *)
(* The kernel is cooperative (FIFO scheduler, no `preempt` feature): a     *)
(* task gives up its CPU only inside the run queue's operations.  Between  *)
(* two critical sections a timer interrupt may run on the task's CPU, and  *)
(* with SMP > 1 the other CPUs run.  call[t] says where task t is:         *)
(*                                                                         *)
(*   "user"          outside the API, free to call it                      *)
(*   "until"         in the loop of wait_until                             *)
(*   "alarmed"       wait_timeout, alarm set, RUN_QUEUE not yet taken      *)
(*   "woken"         wait_timeout, block_current entered                   *)
(*   "tu_loop"       wait_timeout_until, before the test of the clock      *)
(*   "tu_check"      wait_timeout_until, clock tested, RUN_QUEUE not taken *)
(*   "cancel_wait", "cancel_timer"  the two halves of cancel_events        *)
(*   "notify_all"    in the loop of notify_all                             *)
(*   "slept"         sleep_until, blocked or on its way out                *)
(*                                                                         *)
(* A task that is blocked has the label at which it will resume.           *)
(***************************************************************************)
EXTENDS RunQueue, FiniteSets

CONSTANTS
  MainTask, GcTask,  \* the tasks that exist after boot
  MaxNow,            \* bound on the clock
  MaxDur,            \* bound on the durations of sleeps and timeouts
  Ops                \* the operations that each task calls

ASSUME ClientAssumption ==
  /\ MainTask \in Task /\ GcTask \in Task /\ MainTask # GcTask
  /\ ~is_idle(MainTask) /\ ~is_idle(GcTask)
  /\ MaxNow \in Nat /\ MaxDur \in Nat
  /\ "none" \notin Task /\ "check" \notin Task
  /\ WQ # {}

VARIABLES
  rq,             \* what RUN_QUEUE protects, see RunQueue
  timers,         \* TIMER_LIST: how many events each task has for each deadline
  in_timer_list,  \* TASK_IN_TIME_LIST
  now,            \* current_time()
  irq,            \* per CPU: check_events not running / looking / holding an event
  call,           \* what each task is doing
  cond            \* the conditions that the callers of *_until wait for

vars == << rq, timers, in_timer_list, now, irq, call, cond >>

Time == 0 .. MaxNow

Pc == {"user", "until", "alarmed", "woken", "tu_loop", "tu_check",
       "cancel_wait", "cancel_timer", "notify_all", "slept"}

Call == [pc : Pc, q : WQ, deadline : Time, timeout : BOOLEAN]

NoCall == [pc |-> "user", q |-> CHOOSE q \in WQ : TRUE, deadline |-> 0,
           timeout |-> FALSE]

Init ==
  /\ rq = InitRQ(MainTask, GcTask)
  /\ timers = [t \in Task |-> [d \in Time |-> 0]]
  /\ in_timer_list = {}
  /\ now = 0
  /\ irq = [c \in Cpu |-> "none"]
  /\ call = [t \in Task |-> NoCall]
  /\ cond = [q \in WQ |-> FALSE]

-----------------------------------------------------------------------------
(* The task that runs on CPU c, not interrupted, at label l.               *)
At(c, l) ==
  /\ irq[c] = "none"
  /\ ~is_idle(rq.current[c])
  /\ call[rq.current[c]].pc = l

Calls(c, op) == At(c, "user") /\ op \in Ops[rq.current[c]]

Goto(c, l) == call' = [call EXCEPT ![rq.current[c]].pc = l]

Return(c) == call' = [call EXCEPT ![rq.current[c]] = NoCall]

timerVars == << timers, in_timer_list, now, irq >>

-----------------------------------------------------------------------------
(* Time and timer interrupts.                                              *)

Tick ==
  /\ now < MaxNow
  /\ now' = now + 1
  /\ UNCHANGED << rq, timers, in_timer_list, irq, call, cond >>

(* The deadline is not compared with the clock.                            *)
DueEarly(t, d) ==
  /\ timers[t][d] > 0
  /\ \A u \in Task : \A e \in Time : timers[u][e] > 0 => d <= e

(* The events whose deadline has passed and is the earliest of all.        *)
Due(t, d) ==
  /\ timers[t][d] > 0
  /\ d <= now
  /\ \A u \in Task : \A e \in Time : timers[u][e] > 0 => d <= e

SomeDue == \E t \in Task : \E d \in Time : Due(t, d)

(* A timer interrupt that finds an event; one that finds none changes      *)
(* nothing (the FIFO scheduler ignores task_tick).                         *)
on_timer_tick(c) ==
  /\ irq[c] = "none"
  /\ SomeDue
  /\ irq' = [irq EXCEPT ![c] = "check"]
  /\ UNCHANGED << rq, timers, in_timer_list, now, call, cond >>

(* One turn of the loop of check_events, up to the release of TIMER_LIST.  *)
expire_one(c) ==
  /\ irq[c] = "check"
  /\ \/ \E t \in Task : \E d \in Time :
          /\ Due(t, d)
          /\ timers' = [timers EXCEPT ![t][d] = @ - 1]
          /\ irq' = [irq EXCEPT ![c] = t]
     \/ ~SomeDue /\ irq' = [irq EXCEPT ![c] = "none"] /\ UNCHANGED timers
  /\ UNCHANGED << rq, in_timer_list, now, call, cond >>

callbackNoUnblock(c) ==
  /\ irq[c] \in Task
  /\ in_timer_list' = in_timer_list \ {irq[c]}
  /\ irq' = [irq EXCEPT ![c] = "check"]
  /\ UNCHANGED << rq, timers, now, call, cond >>

(* The event's callback, under RUN_QUEUE.                                  *)
callback(c) ==
  /\ irq[c] \in Task
  /\ in_timer_list' = in_timer_list \ {irq[c]}
  /\ rq' = unblock_task(rq, irq[c])
  /\ irq' = [irq EXCEPT ![c] = "check"]
  /\ UNCHANGED << timers, now, call, cond >>

(* TIMER_LIST.lock(): the flag and the event.                              *)
set_alarm_wakeup(t, deadline) ==
  /\ in_timer_list' = in_timer_list \cup {t}
  /\ timers' = [timers EXCEPT ![t][deadline] = @ + 1]

-----------------------------------------------------------------------------
(* Task creation, yielding, sleeping.                                      *)

spawn(c) ==
  /\ Calls(c, "spawn")
  /\ \E t \in Task :
       rq.state[t] = "New" /\ rq' = add_task(rq, t)
  /\ UNCHANGED << timerVars, call, cond >>

(* yield_now(): any task, and the idle task's endless loop.                *)
yield_now(c) ==
  /\ irq[c] = "none"
  /\ is_idle(rq.current[c]) \/ Calls(c, "yield")
  /\ rq' = yield_current(rq, c)
  /\ UNCHANGED << timerVars, call, cond >>

(* sleep_until() with a deadline in the future; another one changes nothing.*)
sleep_until(c) ==
  /\ Calls(c, "sleep")
  /\ \E dur \in 1 .. MaxDur :
       /\ now + dur <= MaxNow
       /\ set_alarm_wakeup(rq.current[c], now + dur)
       /\ call' = [call EXCEPT ![rq.current[c]].pc = "slept",
                               ![rq.current[c]].deadline = now + dur]
  /\ rq' = sleep_current(rq, c)
  /\ UNCHANGED << now, irq, cond >>

sleep_return(c) ==
  /\ At(c, "slept")
  /\ Return(c)
  /\ UNCHANGED << rq, timerVars, cond >>

-----------------------------------------------------------------------------
(* Waiting.                                                                *)

wait(c) ==
  /\ Calls(c, "wait")
  /\ \E q \in WQ :
       /\ rq' = block_current(rq, c, q)
       /\ call' = [call EXCEPT ![rq.current[c]].pc = "cancel_wait",
                               ![rq.current[c]].q = q]
  /\ UNCHANGED << timerVars, cond >>

(* The condition is tested before RUN_QUEUE is taken: it may have changed. *)
until_turnStale(c, q) ==
  /\ call' = [call EXCEPT ![rq.current[c]].pc = "until", ![rq.current[c]].q = q]
  /\ rq' = block_current(rq, c, q)

(* One turn of the loop of wait_until: the condition is tested and the     *)
(* task queued in one critical section.                                    *)
until_turn(c, q) ==
  LET t == rq.current[c] IN
  \/ /\ cond[q]
     /\ call' = [call EXCEPT ![t].pc = "cancel_wait", ![t].q = q]
     /\ UNCHANGED rq
  \/ /\ ~cond[q]
     /\ call' = [call EXCEPT ![t].pc = "until", ![t].q = q]
     /\ rq' = block_current(rq, c, q)

wait_until(c) ==
  /\ \/ Calls(c, "wait_until") /\ \E q \in WQ : until_turn(c, q)
     \/ At(c, "until") /\ until_turn(c, call[rq.current[c]].q)
  /\ UNCHANGED << timerVars, cond >>

(* wait_timeout and wait_timeout_until start by setting the alarm.  The    *)
(* run queue is not locked.                                                *)
timed_wait(c, op, l) ==
  /\ Calls(c, op)
  /\ \E q \in WQ, dur \in 0 .. MaxDur :
       /\ now + dur <= MaxNow
       /\ set_alarm_wakeup(rq.current[c], now + dur)
       /\ call' = [call EXCEPT ![rq.current[c]] =
                     [pc |-> l, q |-> q, deadline |-> now + dur,
                      timeout |-> FALSE]]
  /\ UNCHANGED << rq, now, irq, cond >>

wait_timeout(c) == timed_wait(c, "wait_timeout", "alarmed")

wait_timeout_until(c) == timed_wait(c, "wait_timeout_until", "tu_loop")

wait_timeout_block(c) ==
  /\ At(c, "alarmed")
  /\ rq' = block_current(rq, c, call[rq.current[c]].q)
  /\ Goto(c, "woken")
  /\ UNCHANGED << timerVars, cond >>

(* Still in the wait queue: timed out.                                     *)
wait_timeout_result(c) ==
  LET t == rq.current[c] IN
  /\ At(c, "woken")
  /\ call' = [call EXCEPT ![t].pc = "cancel_wait",
                          ![t].timeout = t \in rq.in_wait_queue]
  /\ UNCHANGED << rq, timerVars, cond >>

(* while current_time() < deadline, tested without the lock.               *)
wait_timeout_until_clock(c) ==
  LET t == rq.current[c] IN
  /\ At(c, "tu_loop")
  /\ call' = IF now < call[t].deadline
               THEN [call EXCEPT ![t].pc = "tu_check"]
               ELSE [call EXCEPT ![t].pc = "cancel_wait", ![t].timeout = TRUE]
  /\ UNCHANGED << rq, timerVars, cond >>

wait_timeout_until_check(c) ==
  LET t == rq.current[c] IN
  /\ At(c, "tu_check")
  /\ \/ cond[call[t].q] /\ Goto(c, "cancel_wait") /\ UNCHANGED rq
     \/ /\ ~cond[call[t].q]
        /\ Goto(c, "tu_loop")
        /\ rq' = block_current(rq, c, call[t].q)
  /\ UNCHANGED << timerVars, cond >>

(* cancel_events, first half: see cancel_wait in RunQueue.                 *)
cancel_events_wait(c) ==
  LET t == rq.current[c] IN
  /\ At(c, "cancel_wait")
  /\ rq' = cancel_wait(rq, call[t].q, t)
  /\ Goto(c, "cancel_timer")
  /\ UNCHANGED << timerVars, cond >>

cancel_events_timerSkip(c) ==
  /\ At(c, "cancel_timer")
  /\ Return(c)
  /\ UNCHANGED << rq, timerVars, cond >>

(* cancel_events, second half: cancel_alarm drops all events of the task.  *)
cancel_events_timer(c) ==
  LET t == rq.current[c] IN
  /\ At(c, "cancel_timer")
  /\ IF t \in in_timer_list
       THEN /\ in_timer_list' = in_timer_list \ {t}
            /\ timers' = [timers EXCEPT ![t] = [d \in Time |-> 0]]
       ELSE UNCHANGED << in_timer_list, timers >>
  /\ Return(c)
  /\ UNCHANGED << rq, now, irq, cond >>

-----------------------------------------------------------------------------
(* Notifying.                                                              *)

notify_one(c) ==
  /\ Calls(c, "notify_one")
  /\ \E q \in WQ : rq.queue[q] # << >> /\ rq' = notify_one_locked(rq, q)
  /\ UNCHANGED << timerVars, call, cond >>

notify_task_call(c) ==
  /\ Calls(c, "notify_task")
  /\ \E q \in WQ, t \in Task : InQueue(rq, q, t) /\ rq' = notify_task(rq, q, t)
  /\ UNCHANGED << timerVars, call, cond >>

(* A caller makes the condition of q true, then calls notify_all.          *)
signal_condition(c) ==
  /\ Calls(c, "notify_all")
  /\ \E q \in WQ :
       /\ cond' = [cond EXCEPT ![q] = TRUE]
       /\ call' = [call EXCEPT ![rq.current[c]].pc = "notify_all",
                               ![rq.current[c]].q = q]
  /\ UNCHANGED << rq, timerVars >>

(* One turn of the loop of notify_all: RUN_QUEUE is released between turns.*)
notify_all_turn(c) ==
  LET q == call[rq.current[c]].q IN
  /\ At(c, "notify_all")
  /\ rq' = notify_one_locked(rq, q)
  /\ IF rq.queue[q] = << >> THEN Return(c) ELSE UNCHANGED call
  /\ UNCHANGED << timerVars, cond >>

(* A caller takes what the condition of q promised.                        *)
consume_condition(c) ==
  /\ Calls(c, "notify_all")
  /\ \E q \in WQ : cond[q] /\ cond' = [cond EXCEPT ![q] = FALSE]
  /\ UNCHANGED << rq, timerVars, call >>

-----------------------------------------------------------------------------
Irq(c) == on_timer_tick(c) \/ expire_one(c) \/ callback(c)

(* The steps with which a call that has started proceeds.                  *)
Proceed(c) ==
  \/ sleep_return(c) \/ wait_timeout_block(c) \/ wait_timeout_result(c)
  \/ wait_timeout_until_clock(c) \/ wait_timeout_until_check(c)
  \/ cancel_events_wait(c) \/ cancel_events_timer(c) \/ notify_all_turn(c)

Start(c) ==
  \/ spawn(c) \/ sleep_until(c)
  \/ wait(c) \/ wait_timeout(c) \/ wait_timeout_until(c)
  \/ notify_one(c) \/ notify_task_call(c)
  \/ signal_condition(c) \/ consume_condition(c)

CpuStep(c) == Proceed(c) \/ Start(c) \/ yield_now(c) \/ wait_until(c)

Next == Tick \/ \E c \in Cpu : Irq(c) \/ CpuStep(c)

Spec == Init /\ [][Next]_vars

(* Time passes and interrupts are served; a started call proceeds when its *)
(* task has the CPU; and, the kernel being cooperative, no task keeps its  *)
(* CPU for ever: one that can yield again and again does.                  *)
Fairness ==
  /\ WF_vars(Tick)
  /\ \A c \in Cpu :
       /\ WF_vars(Irq(c))
       /\ SF_vars(Proceed(c))
       /\ SF_vars(At(c, "until") /\ wait_until(c))
       /\ WF_vars(is_idle(rq.current[c]) /\ yield_now(c))
  /\ \A t \in {u \in Task : ~is_idle(u)} :
       SF_vars(\E c \in Cpu : rq.current[c] = t /\ yield_now(c))

FairSpec == Spec /\ Fairness

-----------------------------------------------------------------------------
TypeOK ==
  /\ RQType(rq)
  /\ timers \in [Task -> [Time -> Nat]]
  /\ in_timer_list \in SUBSET Task
  /\ now \in Time
  /\ irq \in [Cpu -> Task \cup {"none", "check"}]
  /\ call \in [Task -> Call]
  /\ cond \in [WQ -> BOOLEAN]

(* Whatever calls and interrupts interleave, the ready queue links each    *)
(* Ready task at most once and no task that is not Ready, and a task       *)
(* is Running exactly when it is current on one CPU (run_queue.rs resched, *)
(* unblock_task, switch_to).                                               *)
RunQueueOK == ReadyListOK(rq) /\ CurrentOK(rq)

(* On one CPU no Ready task drops out of the ready queue (resched).        *)
NoReadyTaskLost == ReadyQueuedOK(rq)

Alarmed(t) ==
  \/ \E d \in Time : timers[t][d] > 0
  \/ \E c \in Cpu : irq[c] = t

Queued(t) == \E q \in WQ : InQueue(rq, q, t)

(* Every Blocked task has someone left to wake it: an entry in the wait    *)
(* queue of the call it is in, or an alarm that is set or being delivered  *)
(* (block_current, sleep_until).                                           *)
BlockedCanWake ==
  \A t \in Task : rq.state[t] = "Blocked" =>
    IF call[t].pc = "slept" THEN Alarmed(t)
    ELSE InQueue(rq, call[t].q, t)

(* The flag that cancel_events trusts is exact: a task is in               *)
(* TASK_IN_WAIT_QUEUE exactly when a wait queue holds it, and then only    *)
(* once and in one queue; and a Ready or Running task that is flagged was  *)
(* woken by its alarm (wait_queue.rs cancel_events).                       *)
WaitFlagExact ==
  /\ \A t \in Task : t \in rq.in_wait_queue <=> Queued(t)
  /\ \A p, q \in WQ : \A i \in DOMAIN rq.queue[p], j \in DOMAIN rq.queue[q] :
       rq.queue[p][i] = rq.queue[q][j] => p = q /\ i = j

(* A call leaves nothing behind: back in its caller a task is in no wait   *)
(* queue, and no alarm of it is set or in delivery (wait_queue.rs          *)
(* cancel_events: "A task can be wake up only one events (timer or         *)
(* `notify()`), remove the event from another queue").                     *)
CleanReturn ==
  \A t \in Task : call[t].pc = "user" =>
    /\ ~Queued(t) /\ t \notin rq.in_wait_queue
    /\ ~Alarmed(t) /\ t \notin in_timer_list

(* A timeout is reported and a sleep ends only once the deadline passed    *)
(* (wait_timeout, wait_timeout_until, sleep_until).                        *)
NoEarlyTimeout ==
  \A t \in Task :
    \/ call[t].timeout
    \/ call[t].pc = "slept" /\ rq.state[t] \in {"Ready", "Running"}
    => call[t].deadline <= now

(* No wake-up is missed: while the condition of a queue holds, a task      *)
(* blocked for it has a notifier on its way (the test and the queueing in  *)
(* wait_until and wait_timeout_until are one critical section).            *)
NoMissedCondition ==
  \A t \in Task :
    /\ rq.state[t] = "Blocked"
    /\ call[t].pc \in {"until", "tu_loop"}
    /\ cond[call[t].q]
    => \E u \in Task : call[u].pc = "notify_all" /\ call[u].q = call[t].q

(* A task blocked with a timeout has an alarm to end it: what wait_timeout *)
(* promises ("until other tasks notify it, or the given duration has       *)
(* elapsed").                                                              *)
TimedWaitHasAlarm ==
  \A t \in Task :
    rq.state[t] = "Blocked" /\ call[t].pc \in {"woken", "tu_loop"} => Alarmed(t)

(* A sleeping task wakes up and returns (sleep_until).                     *)
SleepReturns == \A t \in Task : call[t].pc = "slept" ~> call[t].pc = "user"

(* A Ready task gets the CPU: FIFO order starves nobody (resched).         *)
ReadyRuns ==
  \A t \in Task : (rq.state[t] = "Ready" /\ ~is_idle(t)) ~> rq.state[t] = "Running"

(* notify_all ends and with it everybody it was to wake has been woken.    *)
NotifyAllEnds == \A t \in Task : call[t].pc = "notify_all" ~> call[t].pc = "user"
=============================================================================

------------------------------ MODULE TaskLife ------------------------------
(***************************************************************************)
(* The life of a user task in the tree async/syncwz: main creates one per  *)
(* test case (Task::init), each ends in exit_current_task, and the gc task *)
(* drops the exited ones (gc_entry).  The last exit halts the system.      *)
(*                                                                         *)
(* Each access to EXITED_TASKS, TID2TASK and RUN_QUEUE is a step.  An Arc  *)
(* of a task is held by whoever can reach it; strong_count is the number   *)
(* of holders.  pc[t] is where task t is:                                  *)
(*   main  "create" "count" "queue" "drop" "yield" "exit"                  *)
(*   user  "run" "remove" "sub" "exit"                                     *)
(*   gc    "len" "pop" "check" "wait" "woken"                              *)
(***************************************************************************)
EXTENDS RunQueue, FiniteSets

CONSTANTS MainTask, GcTask, None

(* What the constants have to satisfy; assumed for each build that is made. *)
LifeAssumption ==
  /\ MainTask \in Task /\ GcTask \in Task /\ MainTask # GcTask
  /\ ~is_idle(MainTask) /\ ~is_idle(GcTask)
  /\ None \notin Task
  /\ \E q \in WQ : WQ = {q}
  /\ IsFiniteSet(Task)

WAIT_FOR_EXIT == CHOOSE q \in WQ : TRUE

User == {t \in Task : t \notin {MainTask, GcTask} /\ ~is_idle(t)}

VARIABLES
  rq,        \* what RUN_QUEUE protects, see RunQueue
  task_nub,  \* the number of user tasks
  tid2task,  \* TID2TASK: the user tasks in it
  exited,    \* EXITED_TASKS
  pc,
  made,      \* the Arc main has of the task it creates, or None
  n, popped, \* gc_entry: iterations left, and the Arc it has taken out
  freed,     \* the tasks that have been dropped
  halted     \* axhal::misc::terminate() was called

vars == << rq, task_nub, tid2task, exited, pc, made, n, popped, freed, halted >>

Init ==
  /\ rq = InitRQ(MainTask, GcTask)
  /\ task_nub = 0 /\ tid2task = {} /\ exited = << >>
  /\ pc = [t \in Task |-> CASE t = MainTask -> "create"
                            [] t = GcTask   -> "len"
                            [] OTHER        -> "run"]
  /\ made = None /\ n = 0 /\ popped = None
  /\ freed = {} /\ halted = FALSE

(* Task t runs on CPU c and is at label l.                                 *)
At(c, t, l) == ~halted /\ rq.current[c] = t /\ pc[t] = l

Goto(t, l) == pc' = [pc EXCEPT ![t] = l]

-----------------------------------------------------------------------------
(* main: run_testcase for each test case, yield_to_test, exit.             *)

(* Task::init up to the insertion into TID2TASK.                           *)
Create(c) ==
  /\ At(c, MainTask, "create")
  /\ \E t \in User :
       /\ rq.state[t] = "New"
       /\ made' = t /\ tid2task' = tid2task \cup {t}
  /\ Goto(MainTask, "count")
  /\ UNCHANGED << rq, task_nub, exited, n, popped, freed, halted >>

taskaddMissing(c) ==
  /\ At(c, MainTask, "count")
  /\ Goto(MainTask, "queue")
  /\ UNCHANGED << rq, task_nub, tid2task, exited, made, n, popped, freed, halted >>

taskadd(c) ==
  /\ At(c, MainTask, "count")
  /\ task_nub' = task_nub + 1
  /\ Goto(MainTask, "queue")
  /\ UNCHANGED << rq, tid2task, exited, made, n, popped, freed, halted >>

(* RUN_QUEUE.lock().add_task: from here the task can run.                  *)
AddTask(c) ==
  /\ At(c, MainTask, "queue")
  /\ rq' = add_task(rq, made)
  /\ Goto(MainTask, "drop")
  /\ UNCHANGED << task_nub, tid2task, exited, made, n, popped, freed, halted >>

(* run_testcase returns and drops its Arc; the next test case, if any.     *)
run_testcase(c) ==
  /\ At(c, MainTask, "drop")
  /\ made' = None
  /\ Goto(MainTask, IF \E t \in User : rq.state[t] = "New" THEN "create" ELSE "yield")
  /\ UNCHANGED << rq, task_nub, tid2task, exited, n, popped, freed, halted >>

yield_to_test(c) ==
  /\ At(c, MainTask, "yield")
  /\ rq' = yield_current(rq, c)
  /\ Goto(MainTask, "exit")
  /\ UNCHANGED << task_nub, tid2task, exited, made, n, popped, freed, halted >>

-----------------------------------------------------------------------------
(* A user task gives up the CPU, as does the idle task.                    *)
yield_now(c) ==
  LET t == rq.current[c] IN
  /\ ~halted
  /\ is_idle(t) \/ (t \in User /\ pc[t] = "run")
  /\ rq' = yield_current(rq, c)
  /\ UNCHANGED << task_nub, tid2task, exited, pc, made, n, popped, freed, halted >>

(* exit_current_task up to the first access to TID2TASK.  User tasks have  *)
(* no children: nothing calls clone or fork.                               *)
exit_current_task(c, t) ==
  /\ At(c, t, "run") /\ t \in User
  /\ Goto(t, "remove")
  /\ UNCHANGED << rq, task_nub, tid2task, exited, made, n, popped, freed, halted >>

remove_tid(c, t) ==
  /\ At(c, t, "remove")
  /\ tid2task' = tid2task \ {t}
  /\ Goto(t, "sub")
  /\ UNCHANGED << rq, task_nub, exited, made, n, popped, freed, halted >>

tasksub(c, t) ==
  /\ At(c, t, "sub")
  /\ task_nub' = task_nub - 1
  /\ Goto(t, "exit")
  /\ UNCHANGED << rq, tid2task, exited, made, n, popped, freed, halted >>

(* terminate(): the list is cleared and nothing runs any more.             *)
Halt ==
  /\ halted' = TRUE /\ exited' = << >>
  /\ UNCHANGED << rq, task_nub, tid2task, pc, made, n, popped, freed >>

(* The else branch: Exited, handed to gc, gc woken, next task.             *)
Leave(c, t) ==
  /\ exited' = Append(exited, t)
  /\ rq' = resched(notify_one_locked([rq EXCEPT !.state[t] = "Exited"], WAIT_FOR_EXIT), c)
  /\ UNCHANGED << task_nub, tid2task, pc, made, n, popped, freed, halted >>

(* The end of main ends the system, as in async/sync.                      *)
exit_currentInit(c, t) ==
  /\ At(c, t, "exit")
  /\ IF t = MainTask THEN Halt ELSE Leave(c, t)

(* gc is not notified.                                                     *)
exit_currentSilent(c, t) ==
  /\ At(c, t, "exit")
  /\ IF task_nub = 0 THEN Halt
     ELSE /\ exited' = Append(exited, t)
          /\ rq' = resched([rq EXCEPT !.state[t] = "Exited"], c)
          /\ UNCHANGED << task_nub, tid2task, pc, made, n, popped, freed, halted >>

exit_current(c, t) ==
  /\ At(c, t, "exit")
  /\ IF task_nub = 0 THEN Halt ELSE Leave(c, t)

-----------------------------------------------------------------------------
(* gc_entry.                                                               *)

gc_len(c) ==
  /\ At(c, GcTask, "len")
  /\ n' = Len(exited)
  /\ Goto(GcTask, "pop")
  /\ UNCHANGED << rq, task_nub, tid2task, exited, made, popped, freed, halted >>

gc_pop(c) ==
  /\ At(c, GcTask, "pop") /\ n > 0
  /\ popped' = IF exited = << >> THEN None ELSE Head(exited)
  /\ exited' = IF exited = << >> THEN exited ELSE Tail(exited)
  /\ n' = n - 1
  /\ Goto(GcTask, "check")
  /\ UNCHANGED << rq, task_nub, tid2task, made, freed, halted >>

(* Somebody besides gc has an Arc of t.                                    *)
Held(t) ==
  \/ \E c \in Cpu : rq.current[c] = t
  \/ \E i \in DOMAIN rq.ready : rq.ready[i] = t
  \/ \E q \in WQ : InQueue(rq, q, t)
  \/ t \in tid2task \/ t = made
  \/ \E i \in DOMAIN exited : exited[i] = t

gc_checkDrop(c) ==
  /\ At(c, GcTask, "check")
  /\ freed' = freed \cup ({popped} \ {None})
  /\ popped' = None
  /\ Goto(GcTask, "pop")
  /\ UNCHANGED << rq, task_nub, tid2task, exited, made, n, halted >>

gc_checkForget(c) ==
  /\ At(c, GcTask, "check")
  /\ freed' = IF Held(popped) THEN freed ELSE freed \cup ({popped} \ {None})
  /\ popped' = None
  /\ Goto(GcTask, "pop")
  /\ UNCHANGED << rq, task_nub, tid2task, exited, made, n, halted >>

(* strong_count = 1: drop it; otherwise push it back.                      *)
gc_check(c) ==
  /\ At(c, GcTask, "check")
  /\ freed' = IF Held(popped) THEN freed ELSE freed \cup ({popped} \ {None})
  /\ exited' = IF popped # None /\ Held(popped) THEN Append(exited, popped) ELSE exited
  /\ popped' = None
  /\ Goto(GcTask, "pop")
  /\ UNCHANGED << rq, task_nub, tid2task, made, n, halted >>

(* WAIT_FOR_EXIT.wait(): block, and cancel_events once woken.              *)
gc_wait(c) ==
  /\ At(c, GcTask, "pop") /\ n = 0
  /\ rq' = block_current(rq, c, WAIT_FOR_EXIT)
  /\ Goto(GcTask, "woken")
  /\ UNCHANGED << task_nub, tid2task, exited, made, n, popped, freed, halted >>

(* cancel_events.  What the call finds on the kernel stack, which gc shares*)
(* with the user tasks, is not part of the model.                          *)
gc_woken(c) ==
  /\ At(c, GcTask, "woken")
  /\ rq' = cancel_wait(rq, WAIT_FOR_EXIT, GcTask)
  /\ Goto(GcTask, "len")
  /\ UNCHANGED << task_nub, tid2task, exited, made, n, popped, freed, halted >>

-----------------------------------------------------------------------------
MainStep(c) ==
  Create(c) \/ taskadd(c) \/ AddTask(c) \/ run_testcase(c) \/ yield_to_test(c)

ExitStep(c, t) == remove_tid(c, t) \/ tasksub(c, t) \/ exit_current(c, t)

GcStep(c) == gc_len(c) \/ gc_pop(c) \/ gc_check(c) \/ gc_wait(c) \/ gc_woken(c)

Next ==
  \E c \in Cpu :
    \/ MainStep(c) \/ GcStep(c) \/ yield_now(c)
    \/ \E t \in Task : exit_current_task(c, t) \/ ExitStep(c, t)

Spec == Init /\ [][Next]_vars

-----------------------------------------------------------------------------
TypeOK ==
  /\ RQType(rq)
  /\ task_nub \in 0 .. Cardinality(User)
  /\ tid2task \subseteq User /\ exited \in Seq(Task)
  /\ made \in User \cup {None} /\ popped \in Task \cup {None}
  /\ n \in 0 .. Cardinality(Task)
  /\ freed \subseteq Task /\ halted \in BOOLEAN

(* The system halts only when every test case has been created and every   *)
(* user task has come to its end, whoever is the last to exit.             *)
HaltOnlyWhenDone ==
  halted => \A t \in User : rq.state[t] # "New" /\ (rq.state[t] = "Exited" \/ pc[t] = "exit")

(* gc does not sleep over work: while it waits, EXITED_TASKS is empty,     *)
(* because every exit_current wakes it and gc_entry looks at the whole     *)
(* list each time.                                                         *)
Collected == rq.state[GcTask] = "Blocked" => exited = << >>

(* gc_entry never drops a task that somebody can still reach.              *)
FreedSafe == \A t \in freed : ~Held(t) /\ rq.state[t] = "Exited"

(* Until the system halts, an exited task is dropped, listed once or in    *)
(* the hands of gc: none is forgotten and none comes to be dropped twice.  *)
ExitedOnce ==
  ~halted => \A t \in Task : rq.state[t] = "Exited" =>
    /\ Cardinality({i \in DOMAIN exited : exited[i] = t})
         = (IF t \in freed \/ t = popped THEN 0 ELSE 1)
    /\ ~(t \in freed /\ t = popped)
=============================================================================

------------------------------ MODULE StackPool ------------------------------
(***************************************************************************)
(* The preemptive executor of the tree async2: user tasks have no kernel   *)
(* stack of their own.  switch_to gives a task one of the KSTACK_NUM       *)
(* stacks of the run queue when it first runs, a preempted task keeps its  *)
(* stack and resumes inside preempt_yield, and exit gives the stack back.  *)
(* A read of fd 0 that finds the console empty yields as well, but saves   *)
(* nothing to resume from (stdio.rs).                                      *)
(*                                                                         *)
(* There is one CPU.  main makes a task per test case and calls run_all,   *)
(* which polls the first one: task_loop never returns, so from then on     *)
(* tasks change only in resched.  pc is what the CPU is doing:             *)
(*   "create"  main, in run_testcase                                       *)
(*   "user"    the current task, in task_loop or in user mode              *)
(*   "yield"   preempt_yield, at the test of has_been_preempted            *)
(*   "read"    the loop of stdin_read, entered by the task reader; the     *)
(*             current task was started by switch_to and returned into it  *)
(*   "exit"    between exit_current_task and exit_current                  *)
(*   "kernel"  switch_to a kernel task, before resched(false, 0)           *)
(*   "stray"   task_loop would return to user mode as a kernel task        *)
(*   "panic"   alloc_stack found no stack                                  *)
(*   "wild"    a task was resumed that has not saved its context: the      *)
(*             registers come from an old_tf that is stale or all zero     *)
(*   "halt"    terminate() was called                                      *)
(***************************************************************************)
EXTENDS Integers, Sequences, FiniteSets, FiniteSetsExt, SequencesExt

CONSTANTS
  NUser,       \* the number of test cases
  KSTACK_NUM,
  MaxTraps,    \* a user task enters the kernel at most so often, exit included
  MaxPolls     \* stdin_read finds the console empty at most so often

ASSUME StackPoolAssumption ==
  /\ NUser \in Nat \ {0} /\ KSTACK_NUM \in Nat \ {0} /\ MaxTraps \in Nat \ {0}
  /\ MaxPolls \in Nat

MAIN == 1
IDLE == 3
User == 4 .. (3 + NUser)
Task == {MAIN, IDLE} \cup User
Stack == 0 .. (KSTACK_NUM - 1)
KERNEL_PROCESS_ID == 1
None == -1

is_kernel_task(t) == t \in {MAIN, IDLE}

VARIABLES
  rq,         \* AxRunQueue and the task fields it reads and writes:
              \*   ready         the FIFO scheduler
              \*   current       the current task
              \*   state         TaskState of each task
              \*   is_started, stack_idx, preempted (has_been_preempted)
              \*   saved         set_old_tf since the task last ran
              \*   kstack_state  which stacks are given away
              \*   kstack        whose trap frame was written to a stack last
              \*   cur_stack
  task_nub,
  tid2task,   \* the user tasks in TID2TASK
  task_queue, \* TASK_QUEUE: runnables nobody has polled
  exited,     \* EXITED_TASKS
  traps,      \* how often each user task still enters the kernel
  pc,
  reader,     \* whose stdin_read a switch_to that starts a task returns to
  polled      \* history: the tasks that gave up the CPU in stdin_read

vars == << rq, task_nub, tid2task, task_queue, exited, traps, pc, reader, polled >>

Init ==
  /\ rq = [ready |-> << >>, current |-> MAIN,
           state |-> [t \in Task |-> IF t = MAIN THEN "Running" ELSE "Ready"],
           is_started |-> [t \in Task |-> FALSE],
           stack_idx  |-> [t \in Task |-> 0],
           preempted  |-> [t \in Task |-> FALSE],
           saved      |-> [t \in Task |-> FALSE],
           kstack_state |-> [i \in Stack |-> FALSE],
           kstack       |-> [i \in Stack |-> None],
           cur_stack |-> 0]
  /\ task_nub = 0 /\ tid2task = {} /\ task_queue = << >> /\ exited = << >>
  /\ traps \in [User -> 1 .. MaxTraps]
  /\ pc = "create" /\ reader = None /\ polled = {}

-----------------------------------------------------------------------------
(* AxRunQueue                                                              *)

(* The search ends one stack early.                                        *)
FreeStacksShort(r) == {i \in 1 .. (KSTACK_NUM - 2) : ~r.kstack_state[i]}

(* alloc_stack searches from 1: stack 0 is that of the kernel tasks.       *)
FreeStacks(r) == {i \in 1 .. (KSTACK_NUM - 1) : ~r.kstack_state[i]}

(* The first free stack, if there is one.                                  *)
alloc_stack(r) == Min(FreeStacks(r))

free_stackNone(r, i) == r

free_stack(r, i) == [r EXCEPT !.kstack_state[i] = FALSE]

(* resched: a running task becomes Ready and goes to the back.             *)
put_prevAlways(r) ==
  [r EXCEPT !.state[r.current] = "Ready", !.ready = Append(@, r.current)]

put_prev(r) ==
  IF r.state[r.current] # "Running" THEN r
  ELSE [r EXCEPT !.state[r.current] = "Ready",
                 !.ready = IF r.current = IDLE THEN @ ELSE Append(@, r.current)]

(* The loop of resched.  It passes over tasks with another tid, putting    *)
(* them to the back, until it meets the wanted one.  When it meets a task  *)
(* a second time it takes that one if it is started, or the idle task.     *)
(* One CPU fits every CPU set, and the idle task is never in the queue.    *)
pick_next(r, tid) ==
  LET q  == r.ready
      at == {i \in DOMAIN q : tid \in {0, q[i]}}
  IN IF q = << >> THEN << IDLE, q >>
     ELSE IF at # {}
     THEN LET k == Min(at) IN
          << q[k], SubSeq(q, k + 1, Len(q)) \o SubSeq(q, 1, k - 1) >>
     ELSE << IF r.is_started[Head(q)] THEN Head(q) ELSE IDLE, Tail(q) >>

(* switch_to, for a task that is not the current one.                      *)
switch_toKeepFlag(r, next) ==
  LET s == [r EXCEPT !.state[next] = "Running", !.current = next]
      i == alloc_stack(r)
  IN IF is_kernel_task(next) THEN [s EXCEPT !.kstack[0] = next]
     ELSE IF r.is_started[next]
     THEN [s EXCEPT !.cur_stack = r.stack_idx[next], !.saved[next] = FALSE]
     ELSE [s EXCEPT !.stack_idx[next] = i, !.cur_stack = i,
                    !.is_started[next] = TRUE,
                    !.kstack_state[i] = TRUE, !.kstack[i] = next]

switch_to(r, next) ==
  LET s == [r EXCEPT !.state[next] = "Running", !.current = next]
      i == alloc_stack(r)
  IN IF is_kernel_task(next) THEN [s EXCEPT !.kstack[0] = next]
     ELSE IF r.is_started[next]
     THEN [s EXCEPT !.cur_stack = r.stack_idx[next],
                    !.preempted[next] = FALSE, !.saved[next] = FALSE]
     ELSE [s EXCEPT !.stack_idx[next] = i, !.cur_stack = i,
                    !.is_started[next] = TRUE,
                    !.kstack_state[i] = TRUE, !.kstack[i] = next]

(* resched(_, tid) on rq = r: the new rq and what the CPU does next.  from *)
(* is the task in whose stdin_read it was called, or None.  Starting a task*)
(* and finding the current one again, switch_to returns to the caller; when*)
(* it resumes a task or comes to a kernel task it does not.                *)
resched(r, tid, from) ==
  LET p    == put_prev(r)
      pick == pick_next(p, tid)
      next == pick[1]
      s    == [p EXCEPT !.ready = pick[2]]
      back == IF from = None THEN "user" ELSE "read"
  IN /\ IF next = r.current
        THEN /\ rq' = [s EXCEPT !.state[next] = "Running"]
             /\ pc' = IF is_kernel_task(next) THEN "stray" ELSE back
        ELSE IF ~is_kernel_task(next) /\ ~s.is_started[next] /\ FreeStacks(s) = {}
        THEN rq' = s /\ pc' = "panic"
        ELSE /\ rq' = switch_to(s, next)
             /\ pc' = IF is_kernel_task(next) THEN "kernel"
                      ELSE IF ~s.is_started[next] THEN back
                      ELSE IF s.saved[next] THEN "yield" ELSE "wild"
     /\ reader' = IF pc' \in {"read", "kernel"} THEN from ELSE None

-----------------------------------------------------------------------------
(* main                                                                    *)

(* Task::init for the next test case: TID2TASK, the count, the scheduler   *)
(* and the executor's queue.  Nothing preempts main.                       *)
init ==
  LET t == 4 + task_nub IN
  /\ pc = "create" /\ t \in User
  /\ tid2task' = tid2task \cup {t}
  /\ task_nub' = task_nub + 1
  /\ rq' = [rq EXCEPT !.ready = Append(@, t)]
  /\ task_queue' = Append(task_queue, t)
  /\ UNCHANGED << exited, traps, pc, reader, polled >>

(* run_all fetches a runnable; UserTaskFuture::poll runs its task.         *)
run_all ==
  /\ pc = "create" /\ Cardinality(tid2task) = NUser
  /\ task_queue' = Tail(task_queue)
  /\ resched(rq, Head(task_queue), None)
  /\ UNCHANGED << task_nub, tid2task, exited, traps, polled >>

-----------------------------------------------------------------------------
(* user tasks                                                              *)

(* One round of task_loop: user mode, a trap that is not an exit, and now  *)
(* and then (cccstr) a preemption.                                         *)
task_loop ==
  LET t == rq.current IN
  /\ pc = "user" /\ traps[t] > 1
  /\ traps' = [traps EXCEPT ![t] = @ - 1]
  /\ \E hit \in BOOLEAN :
       /\ rq' = [rq EXCEPT !.preempted[t] = @ \/ hit]
       /\ pc' = IF hit THEN "yield" ELSE "user"
  /\ UNCHANGED << task_nub, tid2task, task_queue, exited, reader, polled >>

(* stdin_read, in a system call or one more time round its loop: getchar   *)
(* has nothing, yield_now().                                               *)
stdin_read ==
  LET t == rq.current IN
  /\ \/ pc = "user" /\ traps[t] > 1 /\ traps' = [traps EXCEPT ![t] = @ - 1]
     \/ pc = "read" /\ UNCHANGED traps
  /\ Cardinality(polled) < MaxPolls
  /\ polled' = polled \cup {t}
  /\ resched(rq, 0, IF pc = "read" THEN reader ELSE t)
  /\ UNCHANGED << task_nub, tid2task, task_queue, exited >>

(* There is a character: the rest of the round of task_loop, which is still*)
(* that of the reader although another task is current.                    *)
stdin_char ==
  /\ pc = "read"
  /\ \E hit \in BOOLEAN :
       /\ rq' = [rq EXCEPT !.preempted[reader] = @ \/ hit]
       /\ pc' = IF hit THEN "yield" ELSE "user"
  /\ reader' = None
  /\ UNCHANGED << task_nub, tid2task, task_queue, exited, traps, polled >>

(* The other user task with the highest pri (10 + tid).  The idle task,    *)
(* whose pri is lower, is in TID2TASK under the key 1: that is main's tid. *)
get_max_pri_task_id(cid) ==
  LET other == tid2task \ {cid}
  IN IF other = {} THEN KERNEL_PROCESS_ID ELSE Max(other)

(* A task arrives here twice: to be preempted, and when it is resumed.     *)
preempt_yieldUnsaved ==
  /\ pc = "yield"
  /\ IF rq.preempted[rq.current]
     THEN resched(rq, get_max_pri_task_id(rq.current), None)
     ELSE pc' = "user" /\ UNCHANGED << rq, reader >>
  /\ UNCHANGED << task_nub, tid2task, task_queue, exited, traps, polled >>

preempt_yield ==
  /\ pc = "yield"
  /\ IF rq.preempted[rq.current]
     THEN resched([rq EXCEPT !.saved[rq.current] = TRUE],
                  get_max_pri_task_id(rq.current), None)
     ELSE pc' = "user" /\ UNCHANGED << rq, reader >>
  /\ UNCHANGED << task_nub, tid2task, task_queue, exited, traps, polled >>

(* exit_current_task up to exit_current.  User tasks have no children.     *)
exit_current_task ==
  LET t == rq.current IN
  /\ pc = "user" /\ traps[t] = 1
  /\ traps' = [traps EXCEPT ![t] = 0]
  /\ rq' = free_stack(rq, rq.stack_idx[t])
  /\ tid2task' = tid2task \ {t}
  /\ task_nub' = task_nub - 1
  /\ pc' = "exit"
  /\ UNCHANGED << task_queue, exited, reader, polled >>

(* Nobody waits for the task or for WAIT_FOR_EXIT: there is no gc task in  *)
(* the scheduler of this tree and no user task joins another.              *)
exit_current ==
  /\ pc = "exit"
  /\ IF task_nub = 0
     THEN pc' = "halt" /\ exited' = << >> /\ UNCHANGED << rq, reader >>
     ELSE /\ exited' = Append(exited, rq.current)
          /\ resched([rq EXCEPT !.state[rq.current] = "Exited"], 1, None)
  /\ UNCHANGED << task_nub, tid2task, task_queue, traps, polled >>

(* switch_to a kernel task ends with resched(false, 0).                    *)
kernel_turn ==
  /\ pc = "kernel"
  /\ resched(rq, 0, reader)
  /\ UNCHANGED << task_nub, tid2task, task_queue, exited, traps, polled >>

Next == \/ init \/ run_all \/ task_loop \/ stdin_read \/ stdin_char \/ preempt_yield
        \/ exit_current_task \/ exit_current \/ kernel_turn

(* The CPU always goes on.                                                 *)
Spec == Init /\ [][Next]_vars /\ WF_vars(Next)

-----------------------------------------------------------------------------
(* User tasks that have started and not given their stack back.            *)
Alive == {t \in tid2task : rq.is_started[t]}

TypeOK ==
  /\ rq.current \in Task /\ rq.ready \in Seq(Task)
  /\ rq.state \in [Task -> {"Running", "Ready", "Exited"}]
  /\ rq.kstack_state \in [Stack -> BOOLEAN]
  /\ rq.stack_idx \in [Task -> Stack]
  /\ task_nub \in 0 .. NUser
  /\ pc \in {"create", "user", "yield", "read", "exit", "kernel",
             "stray", "panic", "wild", "halt"}
  /\ reader \in User \cup {None} /\ polled \subseteq User

(* Every stack that is marked as given away belongs to exactly one task    *)
(* that is alive, and the trap frame on it is that task's: giving a stack  *)
(* back before leaving it, and giving it to the next task at once, never   *)
(* makes two tasks share one.  Stack 0 is not given away.                  *)
StacksExact ==
  /\ ~rq.kstack_state[0]
  /\ \A t \in Alive : rq.kstack_state[rq.stack_idx[t]] /\ rq.kstack[rq.stack_idx[t]] = t
  /\ Cardinality({i \in Stack : rq.kstack_state[i]}) = Cardinality(Alive)

(* alloc_stack never panics as long as there are four stacks and one for   *)
(* each time a read found the console empty, for any number of test cases. *)
(* Preemption goes to the highest other priority, so that besides the two  *)
(* highest tasks only the lowest one, which main starts, keeps a stack; a  *)
(* read starts the task next in the queue.  And the CPU never returns to   *)
(* user mode as main or idle, whichever way resched passed through them.   *)
NoCrash ==
  /\ KSTACK_NUM >= 4 + Cardinality(polled) => pc # "panic"
  /\ pc # "stray"

(* A started task that does not run can be resumed: it has saved its       *)
(* context after it last ran, unless it gave up the CPU in a read.  A task *)
(* that is at user mode has lost its has_been_preempted mark, or it would  *)
(* be preempted on every resume.                                           *)
Resumable ==
  /\ \A t \in Alive \ {rq.current} : rq.saved[t] \/ t \in polled
  /\ pc \in {"user", "read"} => ~rq.preempted[rq.current] /\ ~rq.saved[rq.current]

(* What switch_to says of a started task: it was preempted by a higher     *)
(* priority, so it has a context to resume from.                           *)
StartedWasPreempted == pc # "wild"

(* Whatever resched passes over and puts back, the scheduler has every     *)
(* Ready task that main has made, once, and main itself, and no other.     *)
ReadyExact ==
  /\ IsInjective(rq.ready)
  /\ pc \notin {"stray", "panic"} =>
       ToSet(rq.ready) = {t \in tid2task \cup {MAIN} : rq.state[t] = "Ready"} \ {rq.current}

(* Every test case ends and the system halts, however preemptions fall and *)
(* although the two tasks with the highest priority alternate, unless a    *)
(* read found the console empty.                                           *)
EventuallyHalts == <>(polled # {} \/ (pc = "halt" /\ tid2task = {}))
=============================================================================

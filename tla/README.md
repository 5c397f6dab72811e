# A TLA+ model of the rCore-OS-2024Summer kernels

The repository holds four kernels that grew out of ArceOS/Starry
(`async/sync`, `async/syncwz`, `async/async`, `async/async2`), next to course
material (`Rust-rustlings`, `rCore`, `Report`) that is not modelled.  The four
trees share most of their files; what the author developed is the task layer
`modules/axtask`: processes and threads merged into one `Task`, one global run
queue, wait queues, wake-up timers and sleeping mutexes, and in the later trees
a stackless executor and a pool of kernel stacks.  `wait_queue.rs`, `timers.rs`,
`schedule.rs`, `signal.rs` and `sync/mutex.rs` are the same in all four trees.
Source lines below are those of `async/sync`, except for the life of a task, which
is modelled from `async/syncwz` (in `async/sync` every exit of a user task fails an
assertion: `api.rs:222` locks `TID2TASK` under the guard of `api.rs:213`), and the
stack pool, which only `async/async2` has.  `modules/axmem` is the same in all four.

## Inventory

| part | state | operations | interacts with |
|---|---|---|---|
| run queue (`run_queue.rs`, `crates/scheduler`) | `RUN_QUEUE` (spin lock, interrupts off): the scheduler's intrusive ready list; `TaskState` of each task; the current task of each CPU | `add_task`, `yield_current`, `block_current`, `unblock_task`, `sleep_until`, `exit_current`, `resched`, `switch_to` | everything; the lock is handed over the context switch |
| wait queues (`wait_queue.rs`, `schedule.rs`) | a `VecDeque` of tasks per queue; the global flag sets `TASK_IN_WAIT_QUEUE`, `TASK_IN_TIME_LIST` | `wait`, `wait_until`, `wait_timeout`, `wait_timeout_until`, `notify_one`, `notify_all`, `notify_task`, `cancel_events` | run queue, timers |
| timers (`timers.rs`, `crates/timer_list`) | `TIMER_LIST`, a heap of (deadline, task) | `set_alarm_wakeup`, `cancel_alarm`, `check_events` from the timer interrupt | run queue |
| sleeping mutex (`sync/mutex.rs`) | `owner_id` (atomic), a wait queue | `lock`, `try_lock`, `force_unlock` | wait queues; used for `TID2TASK`, children, file tables, memory sets |
| signals (`signal.rs`) | signal sets per thread | `send_signal_to_thread` and the handlers | unreachable, see below |
| task life cycle (`task.rs`, `api.rs`, `run_queue.rs`) | `TID2TASK`, children, `EXITED_TASKS`, `WAIT_FOR_EXIT`, exit queues | `Task::init`, `exit_current_task`, `exit_current`, `gc_entry`, `join`, `wait_pid` | run queue, wait queues, mutexes |
| executor and stack pool (`async2`: `executor.rs`, `future.rs`, `run_queue.rs`) | `TASK_QUEUE` of runnables, `kstack_state`, `is_started`, `stack_idx` | `spawn_user_task`, `run_all`, `run_task`, `alloc_stack`, `free_stack`, `preempt_yield` | run queue |
| round robin and CFS (`crates/scheduler`) | time slices, virtual run times | `BaseScheduler` | run queue (not in the default build) |
| memory sets (`modules/axmem`, `crates/page_table`) | `owned_mem`, a tree of areas of consecutive pages; the page table | `mmap`, `munmap`, `mprotect`, `msync`, `mremap`, page faults, `clone_or_err` | mapped files; allocator |
| descriptor tables, system calls, drivers, file systems, network | tables of files and sockets, devices | | not modelled, see below |

What is hard: a task is woken by notifiers and by timer interrupts between its own
critical sections; the wake-up of one can meet the clean-up of another.  The mutex's
owner is changed outside `RUN_QUEUE`.  On several CPUs all of this runs in parallel.
The kernel is cooperative (FIFO scheduler, feature `preempt` off), so a task loses its
CPU only in `resched`, but interrupts are enabled in kernel code and during system
calls.  In `async2` a task is preempted between system calls and keeps its stack, one
of a fixed pool, until it ends; and a read of an empty console gives up the CPU inside
a system call.  A memory set describes the same pages twice, in areas that are cut
again and again and in the page table.

## Modules

* `RunQueue` - what `RUN_QUEUE` protects, as one record, and every operation as
  an operator from the record before to the record after a critical section.
  `resched` keeps the CPU-set loop: on a CPU that is in no task's set it drops
  the task it has popped last, as the code does.  `set_cpu_set` keeps one bit.
* `WaitQueue` - the state machine of the callers: `rq` (the record), the timer
  list, the flags, the clock, the interrupt of each CPU and where each task is in
  its call.  One action per critical section; a call that takes `RUN_QUEUE` twice
  is two actions, so interrupts and other CPUs come in between.  The loop of
  `check_events` is split where it has released `TIMER_LIST` and not yet taken
  `RUN_QUEUE`.  `Ops` gives each task of an instance the operations it calls.
* `Mutex` - `lock`, `try_lock` and dropping a guard, split at each access to
  `owner_id` and each critical section, over the same record.  A failed assertion
  is the label `"panic"`.  The callers' discipline (mutexes in ascending order,
  none of one's own twice) is an assumption of the module.
* `AbstractMutex` - what a mutex promises: guards are given to one task at a time.
* `TaskLife` - main creates the user tasks, they exit, gc drops them, the last exit
  halts the system (`async/syncwz`), over the same record.  Each access to
  `EXITED_TASKS`, `TID2TASK` and `RUN_QUEUE` is a step; the strong count of an `Arc`
  is who can reach the task (`Held`).
* `RRScheduler`, `CFScheduler` - the preemptive schedulers, each with the run queue
  of one CPU as its client: ticks, delayed preemption, yields, priorities, tasks that
  leave and come back.  `BaseScheduler` is what their trait promises.  The FIFO
  scheduler, which the kernels are built with, is part of `RunQueue`.
* `StackPool` - `async2`: main makes a task per test case, the first poll enters
  `task_loop`, and from then on the CPU changes tasks in `resched` only.  `pc` is what
  the CPU is doing; one action per stretch of code up to the next context switch.
  `stdin_read` is the read of fd 0 that finds the console empty: it calls `yield_now`,
  which saves no context.  A task that `switch_to` starts there returns into the loop of
  that reader (`"read"`), and the reader, when its turn comes, is resumed from whatever
  its `old_tf` holds (`"wild"`), where the model ends.
  The future that is polled never returns, so `run_all` is one action and
  `TASK_QUEUE` keeps the runnables nobody polls.
* `MemorySet` - areas, page table, data of the pages and of one mapped file; one
  action per operation, a page fault and a store of the program.  `mremap` makes the
  new region, then `copy_page` and `skip_page` go over the old pages, and `unmap_old`
  ends it or `give_up` leaves it half done (`axmem/src/lib.rs:565`); `move` is the one
  in progress.  A failed assertion or `unwrap` makes `ok` false and leaves the rest as
  it was before the step.  `odd` remembers a call of size zero or an `mremap` to fewer
  pages.  The loops over the overlapped areas are set formulas; where the order of
  their rounds could show, in an assertion that a page or a key is not met twice, `ok`
  says so.
* `AddressSpace` - what a memory set promises: a function from pages to flags,
  origin and data, with neither areas nor page table.
* `Mutex_proofs`, `WaitQueue_proofs`, `TaskLife_proofs`, `RRScheduler_proofs`,
  `CFScheduler_proofs`, `StackPool_proofs`, `MemorySet_proofs` - the theorems about
  each component.  `RunQueue_proofs` has the lemmas about the run queue that three of
  them use, and those about queues without repetition.
* `MCWaitQueue`, `MCMutex`, `MCCFScheduler` - values for TLC.
* `MCTaskLife` - two instances of `TaskLife`, a build for one CPU and one for two, over
  the same variables.  The variable `cpus` is chosen once and selects the instance;
  each property says for which build it is claimed.

Operators whose name is that of a modelled definition with a suffix
(`unblock_taskUnchecked`, `force_unlockKeepOwner`, ...) are variants with one
plausible mistake.  No specification uses them: each shows that the property it
is paired with in `PROJECT.json` notices the mistake.

### Abstractions

* Locks that are taken and released within one critical section (the queue's own
  `SpinRaw`, the flag sets) are not state.
* A task's id, its `Arc` and its entry in a table are the task itself.
* `TIMER_LIST` is a bag: how many events each task has for each deadline.  Events
  of one deadline expire in any order, as in a binary heap.
* The condition given to `*_until` is a Boolean per queue that the notifier sets
  before `notify_all` and that somebody may take back later.
* The context switch, time accounting and page-table switch of `switch_to` change
  no state a property speaks of.
* In `StackPool` a context is whether it has been saved since the task last ran
  (`saved`) and whose trap frame is on a stack (`kstack`).
* In `MemorySet` addresses and sizes count pages, from size zero on, so an area may be
  empty; page 0 is the first page of the program and not address 0, and a mapping lies
  within the file, to which `msync` may write.  A physical page is named after the
  virtual page it was allocated for.  The flags are two sets that contain READ, as
  `set_flags` asserts.  The page table is one function, not four levels of tables.

## Runs

| run | instance | shows |
|---|---|---|
| `wait_queue` | 2 CPUs, 2 tasks, clock 0..1, yields, sleeps, `*_until` waits with and without timeout, `notify_all` and `notify_task` | consistency of the run queue, nobody sleeps without a waker, no missed condition |
| `wait_queue_live` | 1 CPU, 3 tasks with different roles (main wakes, gc waits in every way, the third sleeps, waits and wakes), clock 0..1, fair | exact flags, clean returns, no early timeout; sleeps end, Ready tasks run, `notify_all` ends |
| `mutex` | 2 CPUs, 3 tasks, 2 mutexes, fair | mutual exclusion, ownership, no lost wake-up, refinement of `AbstractMutex`, a mutex waited for is taken |
| `round_robin` | 3 tasks, slice 2, preemption late by at most 1 tick | a queued task waits for at most a slice of every other; none is lost or queued twice |
| `cfs` | 3 tasks, priorities -20, 5 and one refused, virtual run time up to 2 | none is lost; keys and fields agree; a task that has had too much is noticed; run time is never given back |
| `task_life` | 3 user tasks, a build for 1 CPU and one for 2 | the task count is exact; no task is dropped while reachable, forgotten or dropped twice; on one CPU the system halts only when all are done, and gc never sleeps over exited tasks |
| `stack_pool` | 5 user tasks, 5 stacks, each task enters the kernel 1 to 3 times, up to 2 tasks find the console empty | stacks have one owner and do not leak; four of them and one for each empty read suffice; what was preempted can be resumed; no Ready task falls out of the queue; without an empty read every task ends |
| `memory_set` | 4 pages, a file of 3, mapped at offset 1, any 3 calls of 0 to 4 pages, any faults and stores between them | no assertion fails before a call of size zero or an `mremap` to fewer pages; areas and page table agree; free areas are found and free; a clone is the same; refinement of `AddressSpace`; `mremap` moves what is mapped |
| `timed_wait`, `lost_ready_task`, `stack_pool_read`, `memory_msync` | the smallest instance | a documented property that the code does not have (below) |

Bounds.  Two client tasks are enough for a waiter and a notifier, the third makes
order and second waiters matter.  A clock of 0..1 with durations 0 or 1 has deadlines
that are past, present and future, and a second timed call after the first; the
theorems below hold for every clock.  One wait queue is the case in which tasks
interfere; mutexes come in two to have a holder of one wait for the other.  In the
stack pool three traps let a task be preempted, resumed and preempted again before it
exits.  While nobody reads an empty console at most three tasks hold stacks (the two
highest priorities, which preempt each other, and one that was started before them);
each task that gives up the CPU in such a read can add the one after it.  So five
tasks have more candidates than holders, and five stacks, of which stack 0 is never
given away, are just enough after one empty read and not after two.  The code has ten
(`run_queue.rs:28`), enough for six.  With four pages, two of them the program and the
stack, an area can be cut at either end and in the middle by calls that overlap it
partly, and three calls let a piece of a piece be cut or moved.  Every counter that
the code leaves unbounded is bounded by a named constant (`MaxNow`, `MaxDur`,
`MaxLate`, `MaxDebt`, `MaxDelta`, `MaxVruntime`, `MaxId`, `MaxTraps`, `MaxPolls`,
`MaxCalls`) in the guard of the action that would raise it.

Fairness.  Time passes and pending interrupts are served (`WF`).  A call that has
started proceeds whenever its task has the CPU again and again (`SF`, because the
task loses and regains the CPU).  No task keeps the CPU for ever: the kernel is
cooperative and its tasks call `yield_now` or block; this is an assumption on the
tasks, stated in `Fairness`.  For the mutex also: guards are dropped, and the weak
compare-exchange does not fail spuriously for ever.  `LockProgress` is claimed of
the behaviours in which `resched` drops no Ready task (see the second finding).  In
the stack pool the one CPU always takes its next step (`WF_vars(Next)`); that no
program runs for ever is the bound `MaxTraps`, and `EventuallyHalts` is claimed only
while no read found the console empty.  No liveness is claimed of `TaskLife`.

## What the runs found

1. `timed_wait`: the alarm of `wait_timeout` is set before `RUN_QUEUE` is taken,
   and is lost if it expires in between (`wait_queue.rs:114`).
2. `lost_ready_task`: on two CPUs `resched` drops a Ready task
   (`run_queue.rs:226`), and `set_cpu_set` makes that happen at the first yield.
3. `stack_pool_read`: a read of an empty console calls `yield_now` in the middle of a
   system call (`async2` `stdio.rs:35`), and `yield_current` saves no context; when
   `resched` takes the task again, `switch_to` resumes it from an `old_tf` that is
   stale or all zero, as if it had been preempted (`run_queue.rs:446`).
4. `memory_msync`: `sync_page_with_backend` counts pages from the start of the area
   and ignores where in the file the area begins (`axmem/src/area.rs:181`).

Limits of properties that hold, as stated at each property:

* `WaitFlagExact`, `CleanReturn` and `NoEarlyTimeout` hold on one CPU (the default
  build), which is the hypothesis `SMP = 1` of their theorems; so do `Collected` and
  `HaltOnlyWhenDone`.  On two, an alarm in delivery cannot be cancelled and may end a
  later sleep (`timers.rs:43`); gc pushes back a task that main still refers to and is
  not told when the reference is gone (`syncwz` `run_queue.rs:391`); and the first
  user task may halt the system before main has created the second
  (`run_queue.rs:162`).
* `force_unlock` wakes one waiter; the documentation of `Mutex` says all.
* `RemoveFinds` exempts a task that comes back with ticks of an earlier stay:
  `add_task` of CFS keeps `delta` and stores the task under a key that `remove_task`
  will not compute (`cfs.rs:135`).  `LagNoticed` holds until a task is removed.
* `NoPanic` of the memory set holds until a call of size zero or an `mremap` to fewer
  pages is made.  `mprotect` of size zero at the start of an area fails the assertion at
  `axmem/src/lib.rs:393`.  `mmap` and `munmap` of size zero leave empty areas, under
  whose key the next area fails the assertion at `:152`, and which `clone_or_err` cannot
  clone (`CloneFaithful` exempts them).  `mremap` to fewer pages copies every old page,
  those past the end of the new region into whatever area follows it (`:541-558`).
* `Implements` covers all of these calls and says what each step of an `mremap` does;
  what the whole of it does is `MoveFaithful`, which asks for at least as many new pages
  as old ones and for old pages that are mapped.  Over a page that is not mapped the code
  goes on or returns -1, depending on whether the page table has a table there
  (`:561-565`), and then the new region and the copies made so far stay.
* `FindFree` says that room between two areas is found; room after the last one never is.
* `NoCrash` of the stack pool needs four stacks and one more for each task that gave up
  the CPU in an empty read; with three, a task that was started first and the two of
  highest priority exhaust the pool.  `Resumable` exempts those readers, which is the
  third finding.

## Proofs

All theorems hold for any number of tasks and any bounds.  Every inductive
invariant was checked with TLC before it was proved.

Assumptions on the constants: there is a CPU, and each has an idle task of its own;
main and gc are different and not idle; names that stand for nothing (`None`, `Idle`,
`"none"`, `"check"`) are no tasks; bounds are natural numbers.  `Task` is finite where
tasks are counted (`RRScheduler`, `TaskLife`).  `MemoryAssumption`: there are at least
three pages, the file is mapped at offsets within it, the two flag sets differ, and
the names for an unused entry, a fault entry and nothing (`Unused`, `Fault`, `None`)
are neither page numbers, data, table entries, pages of the address space nor records
of an `mremap`.  `LifeAssumption` of `TaskLife` is a definition that its theorems name
as a hypothesis, because `MCTaskLife` instantiates the module twice; there TLC
evaluates it for both instances.  `SMP = 1` is a hypothesis of single theorems, where
the property is false without it.

`RunQueue_proofs` shows that each operation on the record preserves
`RQInv` (types, ready list, current tasks).  Inside a critical section that ends
in `resched` the current task may already be Blocked, so two weaker invariants,
`MidInv` and `PutInv`, describe the record before and after `put_prev_task`.

`Mutex_proofs` proves `IInv` inductive, one lemma per action.  `IInv` adds to the
properties that are checked what they need to be inductive: a task on its way to a
mutex does not have it (`NotMine`, so the assertion of `lock` holds), and only
Blocked tasks are flagged (`FlaggedBlocked`, so `cancel_events` does nothing
here).  From it follow type correctness (with it, that no assertion fails), the
run queue's consistency, mutual exclusion, exact ownership, no lost wake-up, that
a queue holds exactly the blocked tasks, and that `Mutex` implements
`AbstractMutex`.

`WaitQueue_proofs` has two invariants.  `Base` holds on any number of CPUs:
`RQInv`, the types, `BlockedCanWake` and `NoMissedCondition`.  A task that
stays Blocked keeps its call, its entries and its alarm; one that becomes Blocked
brings its own; a condition becomes true together with a notifier, which leaves
only when the queue is empty (`BaseKept`).  `Solo` is what one CPU adds,
task by task: a task is in one queue at most, that of its call, and a flagged
task that is not Blocked was woken by its alarm (`QueueOf`); it has one alarm at most,
for the deadline of its call, and one in delivery is due (`AlarmOf`); what it
reports agrees with the clock (`ResultOf`).  One CPU is needed where `cancel_events`
must not meet an alarm in delivery and where only one CPU delivers.  For each action a
lemma says what it does to the record, the timers and the call (`...Shape`); the
invariants are then preserved kind by kind (a task blocks, moves on, sets its
alarm, wakes another, returns).

`TaskLife_proofs`: `Base` (any number of CPUs) says where a task is in its life, that
only gc ever sleeps, and that an exited task is on `EXITED_TASKS`, in the hands of gc
or dropped.  `Count` ties `task_nub` to the tasks counted and not discounted.  `Solo`
adds for one CPU that nobody comes between main's creations or between gc's look at
the list and its sleep.  The run `task_life` checks the same formulas through the two
instances of `MCTaskLife`.

`RRScheduler_proofs`: what a task has waited, a turn of everybody in front of it and
what the current task has left add up to no more than a turn of all the others
(`WaitsInTurn`); a preempted task goes back to the front with what is left of its
slice, so the sum does not grow.  The refinement of `BaseScheduler` needs that the
queue and the current task are exactly the runnable tasks.

`CFScheduler_proofs`: ids are drawn once, so no two keys of the map collide
(`MapOK`); a key is the virtual run time of its task unless ticks of an earlier stay
were left out (`Keys`); until a task is removed, `min_vruntime` is a lower bound
although it is seldom refreshed (`Lag`).  Two properties are action properties
(`LagNoticed`, `VruntimeMonotone`).

`StackPool_proofs`: stacks given away and started tasks correspond (`Stacks`).  Four
stacks and one per empty read suffice (`StacksSuffice`) because a started task is
entitled to it (`Few`, `Entitled`): it has the lowest tid or one of the two highest, or
it comes right after one that gave up the CPU in a read (`After`).  Preemption asks for
the highest other tid, a read starts the head of the queue, and a task that is resumed
without a wish is that head, which `resched` only ever turns round, so queue and current
task stay a ring of ascending tids (`RingWith`).  A task that gave up the CPU in a
read cannot run again before the model ends, so it stays alive and keeps its stack
(`Gave`).  `ResumableButReaders` follows from `SavedBut`.

`MemorySet_proofs`: the inductive invariant `Inv` has three parts.  `Sound` says that
each area lies in the address space, reaches past no end of the file and names its
physical pages after its virtual ones (`Area`), that areas are apart and no two have
one key (`AreasOK`), and that a table entry is what the area over its page asks for
and unused where there is none (`TableOK`).  `MoveOK` keeps the two regions of an
`mremap` in progress within the address space, the new one writable.  `Usual` holds until `odd`: nothing has
failed, no area is empty, and an `mremap` in progress is of a page or more to at least
as many.  `PageTableAgrees` alone would not do: an empty area disturbs no entry and
yet collides with the next one put under its key.  The cutting of areas is taken
apart: `Cut`, `Rest` and `Inside` give parts of their area (`Part`); any family of
parts that fills what is left of the areas taken out fits back among the others
(`Refit`); then one lemma per operation on the set (`SplitOK`, `ProtectOK`, `LazyOK`,
`AllocOK`, `LoadOK`, `ClearOK`) shows `MSOK`, which is `Sound` and `ok`, of a result
without a panic, when there is none, and what a page of it shows: nothing (`Removed`),
the same as before (`Shows`), new flags (`ViewWith`), a new mapping (`Mapping`) or a
copy (`Filling`).  `DataOK` adds that pages and file hold data.  The refinement of
`AddressSpace` follows page by page from those views (`BarOf`). The abstract step
names its region by the first page it changes, so a call whose region begins with
pages that stay as they are is matched with a shorter region (`UnmapRefines`,
`ProtectRefines`), and one that changes nothing with a stutter. `MovesFaithfully`
needs one more invariant, `MovingOK`: between two steps of an `mremap` the address
space is the one before the call with the new region in it and the first `next` pages
copied (`HalfMoved`).

Only model-checked: liveness, which is beyond the proof system, and the properties that
the code violates.  The five invariants of the run `task_life` are those of `MCTaskLife`,
which picks one of two instances of `TaskLife`; the theorems of `TaskLife_proofs` are the
same formulas about `TaskLife` itself, for every `SMP` that the formula is claimed for.

## Not modelled

* What is on a kernel stack.  In `async/syncwz` all user tasks and gc share the one
  stack of the run queue, so a task that is resumed inside the kernel finds its frames
  overwritten; in `async2` the model knows whose trap frame a stack of the pool holds
  and not which frames lie below it.  `TaskLife` and `StackPool` are about the
  bookkeeping: that gc resumes in `gc_woken`, for one, is what `gc_entry` says and not
  what the shared stack lets it do.
* `join`, `wait_pid` and `recycle_user_process` have no caller that gets anywhere.  A
  test case that cannot be loaded makes main panic.
* Signals.  `signal_modules` of a task is created empty (`task.rs:189`) and nothing
  inserts into it, so `send_signal_to_thread`, which nothing calls, returns `NotFound`
  (`signal.rs:105-107`) before it wakes anybody (`:113`).
* Of memory sets: attaching shared memory (detaching is a `todo!()`), reads and writes
  of user memory, addresses and sizes that are not whole pages (`mprotect` asserts
  that they are, and `mremap` that the new size is), an `mremap` of size zero at
  address 0 (which computes `start + size - 1`), and a fixed `mmap` past the end of
  the user space.  No system call of these trees calls the mapping operations yet;
  they are modelled as the interface they are, in any sequence. A call has the memory
  set for itself, so that other threads do not store in the middle of an `mremap`.
* The descriptor table: a search for the lowest free slot under one lock.
* Network: taken over from ArceOS and not reached by the system calls of these
  trees.  `accept` and the poll of the interfaces take the socket set and the listen
  table in opposite orders (`listen_table.rs:90`), which matters once they are.
* System calls (decoding of arguments), drivers, file systems, boot code: device
  I/O, assembly or taken over.
* Most lines of the repository.  The kernels are four copies of nearly the same
  tree, each with its drivers, file systems and libraries, beside exercises and
  reports; the model follows one copy of the parts above.

## Plan

1. `TaskLife` and `WaitQueue`: what still holds of the one-CPU properties on several
   CPUs, as weaker invariants with proofs.
2. Models: signals once a task has a signal module; shared memory once it can be detached.

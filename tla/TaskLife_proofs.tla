-------------------------- MODULE TaskLife_proofs --------------------------
(* The life of user tasks, for any number of CPUs and test cases: what gc  *)
(* drops nobody can reach, and no exited task is forgotten or dropped      *)
(* twice.  On one CPU, the last exit halts a system whose work is done,    *)
(* and gc does not sleep over work.                                        *)
EXTENDS TaskLife, RunQueue_proofs

-----------------------------------------------------------------------------
(* Queues.                                                                 *)

(* How often t is in a queue without repetitions.                          *)
LEMMA Occurrences ==
  ASSUME NEW S, NEW q \in Seq(S), IsInjective(q), NEW t
  PROVE  Cardinality({i \in DOMAIN q : q[i] = t}) = IF t \in ToSet(q) THEN 1 ELSE 0
<1> DEFINE P == {i \in 1 .. Len(q) : q[i] = t}
<1>1. {i \in DOMAIN q : q[i] = t} = P
  OBVIOUS
<1>2. CASE t \notin ToSet(q)
  <2>1. P = {}
    BY <1>2, Positions
  <2> HIDE DEF P
  <2>2. Cardinality(P) = 0
    BY <2>1, FS_EmptySet
  <2> QED BY <1>1, <1>2, <2>2
<1>3. CASE t \in ToSet(q)
  <2>1. PICK k \in 1 .. Len(q) : t = q[k]
    BY <1>3, Positions
  <2>2. P = {k}
    BY <2>1, Positions
  <2> HIDE DEF P
  <2>3. Cardinality(P) = 1
    BY <2>2, FS_Singleton
  <2> QED BY <1>1, <1>3, <2>3
<1> QED BY <1>2, <1>3

-----------------------------------------------------------------------------

MainPc == {"create", "count", "queue", "drop", "yield", "exit"}
UserPc == {"run", "remove", "sub", "exit"}
GcPc   == {"len", "pop", "check", "woken"}

Types ==
  /\ RQInv(rq)
  /\ tid2task \subseteq User /\ exited \in Seq(Task)
  /\ made \in User \cup {None} /\ popped \in Task \cup {None}
  /\ n \in Nat /\ freed \subseteq Task /\ halted \in BOOLEAN

(* Each kind of task keeps to its own labels.                              *)
PcOK ==
  /\ pc \in [Task -> MainPc \cup UserPc \cup GcPc]
  /\ pc[MainTask] \in MainPc /\ pc[GcTask] \in GcPc
  /\ \A t \in User : pc[t] \in UserPc
  /\ \A t \in Task : is_idle(t) => pc[t] = "run"

(* main has an Arc of the task it is creating, which cannot have run       *)
(* before AddTask.                                                         *)
Making ==
  /\ pc[MainTask] \in {"count", "queue"} => made \in User /\ rq.state[made] = "New"
  /\ pc[MainTask] \in {"create", "yield", "exit"} => made = None

(* Where a task is in its life, by its state and TID2TASK.                 *)
Stages ==
  /\ \A t \in User : rq.state[t] = "New" => pc[t] = "run"
  /\ \A t \in Task : rq.state[t] = "Exited" => pc[t] = "exit"
  /\ \A t \in tid2task : pc[t] \in {"run", "remove"}

(* Only gc ever sleeps, and it is in the queue whenever it does.           *)
WaitOK ==
  /\ rq.state[GcTask] # "New"
  /\ \A t \in Task : rq.state[t] = "Blocked" => t = GcTask
  /\ rq.queue[WAIT_FOR_EXIT] = (IF rq.state[GcTask] = "Blocked" THEN << GcTask >> ELSE << >>)
  /\ rq.in_wait_queue = (IF rq.state[GcTask] = "Blocked" THEN {GcTask} ELSE {})

(* The exited tasks are those on the list, in the hands of gc, or dropped, *)
(* each in one place only.                                                 *)
Listed ==
  /\ IsInjective(exited)
  /\ \A t \in ToSet(exited) : rq.state[t] = "Exited"
  /\ popped # None => /\ rq.state[popped] = "Exited" /\ popped \notin ToSet(exited)
                      /\ pc[GcTask] = "check"
  /\ \A t \in freed : /\ rq.state[t] = "Exited" /\ t \notin ToSet(exited)
                      /\ t # popped /\ t # made
  /\ ~halted => \A t \in Task : rq.state[t] = "Exited" =>
                   t \in freed \/ t = popped \/ t \in ToSet(exited)

Base == Types /\ PcOK /\ Making /\ Stages /\ WaitOK /\ Listed

-----------------------------------------------------------------------------
(* Facts about the constants.                                              *)
LEMMA Constants ==
  ASSUME LifeAssumption
  PROVE  /\ MainTask \in Task /\ GcTask \in Task /\ MainTask # GcTask
         /\ ~is_idle(MainTask) /\ ~is_idle(GcTask) /\ None \notin Task
         /\ WQ = {WAIT_FOR_EXIT} /\ WAIT_FOR_EXIT \in WQ
         /\ User \subseteq Task /\ MainTask \notin User /\ GcTask \notin User
         /\ None \notin User /\ \A t \in User : ~is_idle(t)
         /\ IsFiniteSet(Task) /\ IsFiniteSet(User)
         /\ \A t \in Task : t = MainTask \/ t = GcTask \/ is_idle(t) \/ t \in User
<1>1. WQ = {WAIT_FOR_EXIT} /\ WAIT_FOR_EXIT \in WQ
  BY DEF LifeAssumption, WAIT_FOR_EXIT
<1>2. User \subseteq Task /\ IsFiniteSet(Task)
  BY DEF LifeAssumption, User
<1>3. IsFiniteSet(User)
  BY <1>2, FS_Subset
<1> QED BY <1>1, <1>2, <1>3 DEF LifeAssumption, User

(* What a state of Types gives.                                            *)
LEMMA RQFacts ==
  ASSUME Types
  PROVE  /\ RQInv(rq) /\ rq.state \in [Task -> TaskState] /\ rq.current \in [Cpu -> Task]
         /\ rq.queue \in [WQ -> Seq(Task)]
         /\ \A c \in Cpu : rq.current[c] \in Task /\ rq.state[rq.current[c]] = "Running"
         /\ \A i \in DOMAIN rq.ready : rq.state[rq.ready[i]] = "Ready"
BY Fields DEF Types, RQInv, CurrentOK, ReadyListOK

LEMMA InitBase == ASSUME LifeAssumption PROVE Init => Base
<1> SUFFICES ASSUME Init PROVE Base
  OBVIOUS
<1>1. /\ RQInv(rq) /\ rq.queue = [q \in WQ |-> << >>] /\ rq.in_wait_queue = {}
      /\ rq.state[GcTask] = "Ready"
      /\ \A t \in Task : rq.state[t] \in {"New", "Ready", "Running"}
  BY Constants, InitRQInv DEF Init
<1>2. Types
  <2>1. halted \in BOOLEAN
    BY DEF Init
  <2>2. exited \in Seq(Task) /\ n \in Nat
    BY DEF Init
  <2> QED BY <1>1, <2>1, <2>2 DEF Init, Types
<1>3. PcOK
  BY Constants DEF Init, PcOK, MainPc, UserPc, GcPc
<1>4. Making /\ Stages
  BY <1>1, Constants DEF Init, Making, Stages
<1>5. WaitOK
  BY <1>1, Constants DEF WaitOK
<1>6. Listed
  BY <1>1 DEF Init, Listed, IsInjective, ToSet
<1> QED BY <1>2, <1>3, <1>4, <1>5, <1>6 DEF Base

-----------------------------------------------------------------------------
(* Steps that keep every task New, Blocked or Exited as it was.            *)
Quiet ==
  /\ RQInv(rq') /\ rq'.queue = rq.queue /\ rq'.in_wait_queue = rq.in_wait_queue
  /\ SameButRunning(rq.state, rq'.state)

LEMMA QuietKeeps ==
  ASSUME LifeAssumption, Base, Quiet
  PROVE  /\ \A t \in Task, l \in {"New", "Blocked", "Exited"} :
                rq'.state[t] = l <=> rq.state[t] = l
         /\ WaitOK'
<1>1. \A t \in Task, l \in {"New", "Blocked", "Exited"} : rq'.state[t] = l <=> rq.state[t] = l
  BY DEF Quiet, SameButRunning, Runnable
<1>2. /\ rq'.state[GcTask] = "Blocked" <=> rq.state[GcTask] = "Blocked"
      /\ rq'.state[GcTask] = "New" <=> rq.state[GcTask] = "New"
  BY <1>1, Constants
<1> QED BY <1>1, <1>2 DEF WaitOK, Base, Quiet

LEMMA SameIsQuiet ==
  ASSUME Base, rq' = rq
  PROVE  Quiet
BY DEF Base, Types, Quiet, SameButRunning

(* A quiet step of the task t that is current on some CPU to label l, with *)
(* the list of the exited as it was.                                       *)
LEMMA LabelStep ==
  ASSUME LifeAssumption, Base, Quiet, NEW t \in Task, rq.state[t] \in {"Ready", "Running"},
         NEW l, pc' = [pc EXCEPT ![t] = l], PcOK', t = GcTask => popped = None,
         exited' = exited, popped' = popped, freed' = freed, halted' = halted,
         made' \notin freed
  PROVE  /\ Listed'
         /\ \A u \in User : rq'.state[u] = "New" => pc'[u] = "run"
         /\ \A u \in Task : rq'.state[u] = "Exited" => pc'[u] = "exit"
<1>1. \A u \in Task : /\ rq'.state[u] = "New" <=> rq.state[u] = "New"
                      /\ rq'.state[u] = "Exited" <=> rq.state[u] = "Exited"
  BY QuietKeeps
<1>2. \A u \in Task : u # t => pc'[u] = pc[u]
  BY DEF Base, PcOK
<1>3. ToSet(exited) \subseteq Task /\ (popped # None => popped \in Task) /\ freed \subseteq Task
  BY Positions DEF Base, Types
<1>4. /\ IsInjective(exited')
      /\ \A u \in ToSet(exited') : rq'.state[u] = "Exited"
  BY <1>1, <1>3 DEF Base, Listed
<1>5. popped' # None => /\ rq'.state[popped'] = "Exited" /\ popped' \notin ToSet(exited')
                        /\ pc'[GcTask] = "check"
  BY <1>1, <1>2, <1>3, Constants DEF Base, Listed
<1>6. \A u \in freed' : /\ rq'.state[u] = "Exited" /\ u \notin ToSet(exited')
                        /\ u # popped' /\ u # made'
  BY <1>1, <1>3 DEF Base, Listed
<1>7. ~halted' => \A u \in Task : rq'.state[u] = "Exited" =>
                   u \in freed' \/ u = popped' \/ u \in ToSet(exited')
  BY <1>1 DEF Base, Listed
<1>8. Listed'
  BY <1>4, <1>5, <1>6, <1>7 DEF Listed
<1> QED BY <1>1, <1>2, <1>8, Constants DEF Base, Stages

(* The task of a step is current, hence Running.                           *)
LEMMA Stepper ==
  ASSUME Base, NEW c \in Cpu, NEW t, rq.current[c] = t
  PROVE  t \in Task /\ rq.state[t] = "Running"
BY RQFacts DEF Base

(* Who can be at a label.                                                  *)
LEMMA Labels ==
  ASSUME LifeAssumption, Base, NEW t \in Task
  PROVE  /\ pc[t] \in {"remove", "sub"} => t \in User
         /\ pc[t] = "exit" => t \in User \/ t = MainTask
BY Constants DEF Base, PcOK, MainPc, UserPc, GcPc

LEMMA PcStep ==
  ASSUME LifeAssumption, Base, NEW t \in Task, NEW l, Goto(t, l),
         \/ t = MainTask /\ l \in MainPc
         \/ t = GcTask /\ l \in GcPc
         \/ t \in User /\ l \in UserPc
  PROVE  PcOK' /\ pc'[t] = l /\ \A u \in Task : u # t => pc'[u] = pc[u]
<1>1. pc' = [pc EXCEPT ![t] = l] /\ pc \in [Task -> MainPc \cup UserPc \cup GcPc]
  BY DEF Goto, Base, PcOK
<1>2. pc'[t] = l /\ \A u \in Task : u # t => pc'[u] = pc[u]
  BY <1>1
<1>3. pc' \in [Task -> MainPc \cup UserPc \cup GcPc]
  BY <1>1
<1> QED BY <1>2, <1>3, Constants DEF Base, PcOK

(* Steps that leave main where it is and the tasks New that were.          *)
LEMMA MakingKept ==
  ASSUME LifeAssumption, Base, made' = made, pc'[MainTask] = pc[MainTask],
         \A t \in User : rq.state[t] = "New" => rq'.state[t] = "New"
  PROVE  Making'
BY DEF Base, Making

(* A quiet step of a task to a label of its own.                           *)
LEMMA QuietStep ==
  ASSUME LifeAssumption, Base, Quiet, NEW c \in Cpu, NEW t, rq.current[c] = t,
         NEW l, Goto(t, l), PcOK', t = GcTask => popped = None,
         UNCHANGED << exited, popped, freed, halted >>,
         tid2task' \subseteq User, made' \in User \cup {None}, n' \in Nat,
         made' \notin freed, Making',
         \A u \in tid2task' : pc'[u] \in {"run", "remove"}
  PROVE  Base'
<1>1. t \in Task /\ rq.state[t] \in {"Ready", "Running"}
  BY Stepper
<1>2. /\ Listed'
      /\ \A u \in User : rq'.state[u] = "New" => pc'[u] = "run"
      /\ \A u \in Task : rq'.state[u] = "Exited" => pc'[u] = "exit"
  BY <1>1, LabelStep DEF Goto
<1>3. WaitOK'
  BY QuietKeeps
<1>4. halted' \in BOOLEAN
  BY DEF Base, Types
<1>5. Types'
  BY <1>4 DEF Base, Types, Quiet
<1>6. Stages'
  BY <1>2 DEF Stages
<1> QED BY <1>2, <1>3, <1>5, <1>6 DEF Base

(* made is not among the dropped, nor is a task that has not run.          *)
LEMMA NotFreed ==
  ASSUME Base
  PROVE  made \notin freed /\ \A t \in Task : rq.state[t] = "New" => t \notin freed
BY DEF Base, Listed

-----------------------------------------------------------------------------
(* main.                                                                   *)

LEMMA CreateBase ==
  ASSUME LifeAssumption, Base, NEW c \in Cpu, Create(c)
  PROVE  Base'
<1>1. rq.current[c] = MainTask /\ pc[MainTask] = "create"
  BY DEF Create, At
<1>2. PICK t \in User : rq.state[t] = "New" /\ made' = t /\ tid2task' = tid2task \cup {t}
  BY DEF Create
<1>3. PcOK' /\ pc'[MainTask] = "count" /\ \A u \in Task : u # MainTask => pc'[u] = pc[u]
  <2>1. Goto(MainTask, "count") /\ "count" \in MainPc
    BY DEF Create, MainPc
  <2> QED BY <2>1, Constants, PcStep
<1>4. Quiet /\ rq' = rq
  BY SameIsQuiet DEF Create
<1>5. /\ tid2task' \subseteq User /\ made' \in User \cup {None} /\ n' \in Nat /\ made' \notin freed
  BY <1>2, NotFreed, Constants DEF Create, Base, Types
<1>6. Making'
  BY <1>2, <1>3, <1>4 DEF Making
<1>7. \A u \in tid2task' : pc'[u] \in {"run", "remove"}
  BY <1>2, <1>3, Constants DEF Base, Stages, Types
<1>8. Goto(MainTask, "count") /\ UNCHANGED << exited, popped, freed, halted >>
  BY DEF Create, Goto
<1> QED BY <1>1, <1>3, <1>4, <1>5, <1>6, <1>7, <1>8, Constants, QuietStep

LEMMA TaskaddBase ==
  ASSUME LifeAssumption, Base, NEW c \in Cpu, taskadd(c)
  PROVE  Base'
<1>1. rq.current[c] = MainTask /\ pc[MainTask] = "count"
  BY DEF taskadd, At
<1>2. PcOK' /\ pc'[MainTask] = "queue" /\ \A u \in Task : u # MainTask => pc'[u] = pc[u]
  <2>1. Goto(MainTask, "queue") /\ "queue" \in MainPc
    BY DEF taskadd, MainPc
  <2> QED BY <2>1, Constants, PcStep
<1>3. Quiet /\ rq' = rq
  BY SameIsQuiet DEF taskadd
<1>4. /\ tid2task' \subseteq User /\ made' \in User \cup {None} /\ n' \in Nat /\ made' \notin freed
  BY NotFreed DEF taskadd, Base, Types
<1>5. Making'
  BY <1>1, <1>2, <1>3 DEF taskadd, Base, Making
<1>6. \A u \in tid2task' : pc'[u] \in {"run", "remove"}
  BY <1>2, Constants DEF taskadd, Base, Stages, Types
<1>7. Goto(MainTask, "queue") /\ UNCHANGED << exited, popped, freed, halted >>
  BY DEF taskadd, Goto
<1> QED BY <1>1, <1>2, <1>3, <1>4, <1>5, <1>6, <1>7, Constants, QuietStep

LEMMA DropBase ==
  ASSUME LifeAssumption, Base, NEW c \in Cpu, NEW l, l \in {"create", "yield"},
         rq.current[c] = MainTask, Goto(MainTask, l), made' = None, rq' = rq,
         UNCHANGED << tid2task, exited, n, popped, freed, halted >>
  PROVE  Base'
<1>1. PcOK' /\ pc'[MainTask] = l /\ \A u \in Task : u # MainTask => pc'[u] = pc[u]
  <2>1. l \in MainPc
    BY DEF MainPc
  <2> QED BY <2>1, Constants, PcStep
<1>2. Quiet
  BY SameIsQuiet
<1>3. /\ tid2task' \subseteq User /\ made' \in User \cup {None} /\ n' \in Nat /\ made' \notin freed
  BY Constants DEF Base, Types
<1>4. Making'
  BY <1>1 DEF Making
<1>5. \A u \in tid2task' : pc'[u] \in {"run", "remove"}
  BY <1>1, Constants DEF Base, Stages, Types
<1>6. Goto(MainTask, l)
  BY DEF Goto
<1> QED BY <1>1, <1>2, <1>3, <1>4, <1>5, <1>6, Constants, QuietStep

LEMMA RunTestcaseBase ==
  ASSUME LifeAssumption, Base, NEW c \in Cpu, run_testcase(c)
  PROVE  Base'
<1>1. /\ rq.current[c] = MainTask /\ made' = None /\ rq' = rq
      /\ UNCHANGED << tid2task, exited, n, popped, freed, halted >>
  BY DEF run_testcase, At
<1>2. CASE Goto(MainTask, "create")
  BY <1>1, <1>2, DropBase
<1>3. CASE Goto(MainTask, "yield")
  BY <1>1, <1>3, DropBase
<1> QED BY <1>2, <1>3 DEF run_testcase

LEMMA YieldIsQuiet ==
  ASSUME Base, NEW c \in Cpu, rq' = yield_current(rq, c)
  PROVE  Quiet
BY YieldStep DEF Base, Types, Quiet

LEMMA YieldToTestBase ==
  ASSUME LifeAssumption, Base, NEW c \in Cpu, yield_to_test(c)
  PROVE  Base'
<1>1. rq.current[c] = MainTask /\ pc[MainTask] = "yield"
  BY DEF yield_to_test, At
<1>2. PcOK' /\ pc'[MainTask] = "exit" /\ \A u \in Task : u # MainTask => pc'[u] = pc[u]
  <2>1. Goto(MainTask, "exit") /\ "exit" \in MainPc
    BY DEF yield_to_test, MainPc
  <2> QED BY <2>1, Constants, PcStep
<1>3. Quiet
  BY YieldIsQuiet DEF yield_to_test
<1>4. /\ tid2task' \subseteq User /\ made' \in User \cup {None} /\ n' \in Nat /\ made' \notin freed
  BY NotFreed DEF yield_to_test, Base, Types
<1>5. Making'
  BY <1>1, <1>2 DEF yield_to_test, Base, Making
<1>6. \A u \in tid2task' : pc'[u] \in {"run", "remove"}
  BY <1>2, Constants DEF yield_to_test, Base, Stages, Types
<1>7. Goto(MainTask, "exit") /\ UNCHANGED << exited, popped, freed, halted >>
  BY DEF yield_to_test, Goto
<1> QED BY <1>1, <1>2, <1>3, <1>4, <1>5, <1>6, <1>7, Constants, QuietStep

-----------------------------------------------------------------------------
(* User tasks.                                                             *)

LEMMA YieldNowBase ==
  ASSUME LifeAssumption, Base, NEW c \in Cpu, yield_now(c)
  PROVE  Base'
<1> DEFINE t == rq.current[c]
<1>1. t \in Task /\ t # GcTask /\ pc' = pc
  BY Stepper, Constants DEF yield_now
<1>2. Quiet
  BY YieldIsQuiet DEF yield_now
<1>3. UNCHANGED << exited, popped, freed, halted, tid2task, made, n >>
  BY DEF yield_now
<1>4. PcOK' /\ Goto(t, pc[t])
  BY <1>1 DEF Base, PcOK, Goto
<1>5. Making'
  <2>1. \A u \in User : rq.state[u] = "New" => rq'.state[u] = "New"
    BY <1>2, QuietKeeps, Constants
  <2> QED BY <1>1, <1>3, <2>1, MakingKept
<1>6. \A u \in tid2task' : pc'[u] \in {"run", "remove"}
  BY <1>1, <1>3 DEF Base, Stages
<1>7. tid2task' \subseteq User /\ made' \in User \cup {None} /\ n' \in Nat /\ made' \notin freed
  BY <1>3, NotFreed DEF Base, Types
<1> HIDE DEF t
<1>8. rq.current[c] = t
  BY DEF t
<1> QED BY <1>1, <1>2, <1>3, <1>4, <1>5, <1>6, <1>7, <1>8, QuietStep

(* exit_current_task, remove_tid and tasksub.                              *)
LEMMA EndingBase ==
  ASSUME LifeAssumption, Base, NEW c \in Cpu, NEW t, NEW l, rq.current[c] = t, t \in User,
         rq' = rq, Goto(t, l), l \in UserPc,
         UNCHANGED << exited, popped, freed, halted, made, n >>,
         tid2task' \subseteq tid2task, t \in tid2task' => l \in {"run", "remove"}
  PROVE  Base'
<1>1. t \in Task /\ t # GcTask /\ t # MainTask
  BY Stepper, Constants
<1>2. PcOK' /\ pc'[t] = l /\ \A u \in Task : u # t => pc'[u] = pc[u]
  BY <1>1, PcStep
<1>3. Quiet
  BY SameIsQuiet
<1>4. Making'
  BY <1>1, <1>2, MakingKept, Constants
<1>5. \A u \in tid2task' : pc'[u] \in {"run", "remove"}
  BY <1>2, Constants DEF Base, Stages, Types
<1>6. tid2task' \subseteq User /\ made' \in User \cup {None} /\ n' \in Nat /\ made' \notin freed
  BY NotFreed DEF Base, Types
<1>7. Goto(t, l)
  BY DEF Goto
<1> QED BY <1>1, <1>2, <1>3, <1>4, <1>5, <1>6, <1>7, QuietStep

LEMMA ExitCurrentTaskBase ==
  ASSUME LifeAssumption, Base, NEW c \in Cpu, NEW t \in Task, exit_current_task(c, t)
  PROVE  Base'
<1>1. /\ rq.current[c] = t /\ t \in User /\ rq' = rq /\ Goto(t, "remove")
      /\ UNCHANGED << exited, popped, freed, halted, made, n >> /\ tid2task' \subseteq tid2task
      /\ "remove" \in UserPc /\ "remove" \in {"run", "remove"}
  BY DEF exit_current_task, At, UserPc
<1> QED BY <1>1, EndingBase

LEMMA RemoveTidBase ==
  ASSUME LifeAssumption, Base, NEW c \in Cpu, NEW t \in Task, remove_tid(c, t)
  PROVE  Base'
<1>1. /\ rq.current[c] = t /\ t \in User /\ rq' = rq /\ Goto(t, "sub")
      /\ UNCHANGED << exited, popped, freed, halted, made, n >> /\ tid2task' \subseteq tid2task
      /\ "sub" \in UserPc /\ t \notin tid2task'
  BY Labels DEF remove_tid, At, UserPc
<1> QED BY <1>1, EndingBase

LEMMA TasksubBase ==
  ASSUME LifeAssumption, Base, NEW c \in Cpu, NEW t \in Task, tasksub(c, t)
  PROVE  Base'
<1>1. t \notin tid2task
  BY DEF tasksub, At, Base, Stages
<1>2. /\ rq.current[c] = t /\ t \in User /\ rq' = rq /\ Goto(t, "exit")
      /\ UNCHANGED << exited, popped, freed, halted, made, n >> /\ tid2task' \subseteq tid2task
      /\ "exit" \in UserPc /\ t \notin tid2task'
  BY <1>1, Labels DEF tasksub, At, UserPc
<1> QED BY <1>2, EndingBase

LEMMA HaltBase == ASSUME LifeAssumption, Base, Halt PROVE Base'
<1>1. /\ halted' = TRUE /\ exited' = << >>
      /\ UNCHANGED << rq, tid2task, pc, made, n, popped, freed >>
  BY DEF Halt
<1>2. Types'
  <2>1. halted' \in BOOLEAN
    BY <1>1
  <2> QED BY <1>1, <2>1 DEF Base, Types
<1>3. PcOK' /\ Making' /\ Stages' /\ WaitOK'
  BY <1>1 DEF Base, PcOK, Making, Stages, WaitOK
<1>4. Listed'
  BY <1>1 DEF Base, Listed, IsInjective, ToSet
<1> QED BY <1>2, <1>3, <1>4 DEF Base

-----------------------------------------------------------------------------
(* gc_entry.                                                               *)

(* gc and the list are the only ones a step of gc changes.                 *)
LEMMA GcAside ==
  ASSUME LifeAssumption, Base, NEW l, l \in GcPc, Goto(GcTask, l),
         \A t \in Task : rq.state[t] \in {"New", "Exited"} \/ rq'.state[t] \in {"New", "Exited"}
                            => rq'.state[t] = rq.state[t],
         UNCHANGED << tid2task, made >>
  PROVE  /\ PcOK' /\ Making' /\ Stages'
         /\ pc'[GcTask] = l /\ \A u \in Task : u # GcTask => pc'[u] = pc[u]
<1>1. PcOK' /\ pc'[GcTask] = l /\ \A u \in Task : u # GcTask => pc'[u] = pc[u]
  BY Constants, PcStep
<1>2. Making'
  BY <1>1, Constants, MakingKept
<1>3. rq.state[GcTask] # "Exited"
  BY Constants DEF Base, Stages, PcOK, GcPc
<1>4. Stages'
  BY <1>1, <1>3, Constants DEF Base, Stages, Types
<1> QED BY <1>1, <1>2, <1>4

LEMMA GcLenBase ==
  ASSUME LifeAssumption, Base, NEW c \in Cpu, gc_len(c)
  PROVE  Base'
<1>1. /\ rq.current[c] = GcTask /\ pc[GcTask] = "len" /\ rq' = rq /\ Goto(GcTask, "pop")
      /\ UNCHANGED << exited, popped, freed, halted, tid2task, made >> /\ n' = Len(exited)
  BY DEF gc_len, At
<1>2. "pop" \in GcPc
  BY DEF GcPc
<1>3. PcOK' /\ Making' /\ Stages'
  BY <1>1, <1>2, GcAside
<1>4. popped = None
  BY <1>1 DEF Base, Listed
<1>5. tid2task' \subseteq User /\ made' \in User \cup {None} /\ made' \notin freed
  BY <1>1, NotFreed DEF Base, Types
<1>6. n' \in Nat
  BY <1>1, Positions DEF Base, Types
<1>7. \A u \in tid2task' : pc'[u] \in {"run", "remove"}
  BY <1>3 DEF Stages
<1>8. Quiet
  BY <1>1, SameIsQuiet
<1> QED BY <1>1, <1>3, <1>4, <1>5, <1>6, <1>7, <1>8, QuietStep

LEMMA GcWokenBase ==
  ASSUME LifeAssumption, Base, NEW c \in Cpu, gc_woken(c)
  PROVE  Base'
<1>1. /\ rq.current[c] = GcTask /\ pc[GcTask] = "woken" /\ Goto(GcTask, "len")
      /\ UNCHANGED << exited, popped, freed, halted, tid2task, made, n >>
      /\ rq' = cancel_wait(rq, WAIT_FOR_EXIT, GcTask)
  BY DEF gc_woken, At
<1>2. rq' = rq
  <2>1. rq.state[GcTask] = "Running"
    BY <1>1, Stepper
  <2>2. GcTask \notin rq.in_wait_queue
    BY <2>1 DEF Base, WaitOK
  <2> QED BY <1>1, <2>2 DEF cancel_wait
<1>3. "len" \in GcPc
  BY DEF GcPc
<1>4. PcOK' /\ Making' /\ Stages'
  BY <1>1, <1>2, <1>3, GcAside
<1>5. popped = None
  BY <1>1 DEF Base, Listed
<1>6. tid2task' \subseteq User /\ made' \in User \cup {None} /\ made' \notin freed /\ n' \in Nat
  BY <1>1, NotFreed DEF Base, Types
<1>7. \A u \in tid2task' : pc'[u] \in {"run", "remove"}
  BY <1>4 DEF Stages
<1>8. Quiet
  BY <1>2, SameIsQuiet
<1> QED BY <1>1, <1>4, <1>5, <1>6, <1>7, <1>8, QuietStep

LEMMA GcPopBase ==
  ASSUME LifeAssumption, Base, NEW c \in Cpu, gc_pop(c)
  PROVE  Base'
<1>1. /\ rq.current[c] = GcTask /\ pc[GcTask] = "pop" /\ Goto(GcTask, "check") /\ rq' = rq
      /\ UNCHANGED << freed, halted, tid2task, made >> /\ n > 0 /\ n' = n - 1
  BY DEF gc_pop, At
<1>2. "check" \in GcPc
  BY DEF GcPc
<1>3. PcOK' /\ Making' /\ Stages' /\ pc'[GcTask] = "check"
  BY <1>1, <1>2, GcAside
<1>4. popped = None
  BY <1>1 DEF Base, Listed
<1>5. WaitOK'
  BY <1>1 DEF Base, WaitOK
<1>6. n' \in Nat /\ halted' \in BOOLEAN
  <2>1. n' \in Nat
    BY <1>1 DEF Base, Types
  <2>2. halted' \in BOOLEAN
    BY <1>1 DEF Base, Types
  <2> QED BY <2>1, <2>2
<1>7. CASE exited = << >>
  <2>1. popped' = None /\ exited' = exited
    BY <1>7 DEF gc_pop
  <2>2. Types'
    BY <1>1, <1>6, <2>1 DEF Base, Types
  <2>3. Listed'
    BY <1>1, <1>4, <2>1 DEF Base, Listed
  <2> QED BY <1>3, <1>5, <2>2, <2>3 DEF Base
<1>8. CASE exited # << >>
  <2>1. exited \in Seq(Task) /\ IsInjective(exited)
    BY DEF Base, Types, Listed
  <2>2. popped' = Head(exited) /\ exited' = Tail(exited)
    BY <1>8 DEF gc_pop
  <2>3. exited' \in Seq(Task) /\ popped' \in Task /\ Shrunk(exited, exited', popped')
    BY <1>8, <2>1, <2>2, TailShrinks
  <2>4. /\ IsInjective(exited') /\ popped' \in ToSet(exited)
        /\ ToSet(exited') = ToSet(exited) \ {popped'}
    BY <2>1, <2>3, PoppedLeaves
  <2>5. Types'
    BY <1>1, <1>6, <2>3 DEF Base, Types
  <2>6. Listed'
    BY <1>1, <1>3, <1>4, <2>4, Constants DEF Base, Listed
  <2> QED BY <1>3, <1>5, <2>5, <2>6 DEF Base
<1> QED BY <1>7, <1>8

LEMMA GcCheckBase ==
  ASSUME LifeAssumption, Base, NEW c \in Cpu, gc_check(c)
  PROVE  Base'
<1>1. /\ rq.current[c] = GcTask /\ Goto(GcTask, "pop") /\ rq' = rq /\ popped' = None
      /\ UNCHANGED << n, halted, tid2task, made >>
  BY DEF gc_check, At
<1>2. "pop" \in GcPc
  BY DEF GcPc
<1>3. PcOK' /\ Making' /\ Stages'
  BY <1>1, <1>2, GcAside
<1>4. WaitOK'
  BY <1>1 DEF Base, WaitOK
<1>5. n' \in Nat /\ halted' \in BOOLEAN
  <2>1. n' \in Nat
    BY <1>1 DEF Base, Types
  <2>2. halted' \in BOOLEAN
    BY <1>1 DEF Base, Types
  <2> QED BY <2>1, <2>2
<1>6. exited \in Seq(Task) /\ IsInjective(exited)
  BY DEF Base, Types, Listed
<1>7. CASE popped = None
  <2>1. freed' = freed /\ exited' = exited
    BY <1>7 DEF gc_check
  <2>2. Types'
    BY <1>1, <1>5, <2>1 DEF Base, Types
  <2>3. Listed'
    BY <1>1, <1>7, <2>1, Constants DEF Base, Listed, Types
  <2> QED BY <1>3, <1>4, <2>2, <2>3 DEF Base
<1>8. CASE popped # None /\ Held(popped)
  <2>1. freed' = freed /\ exited' = Append(exited, popped)
    BY <1>8 DEF gc_check
  <2>2. popped \in Task /\ popped \notin ToSet(exited)
    BY <1>8 DEF Base, Types, Listed
  <2>3. exited' \in Seq(Task) /\ Grown(exited, exited', popped)
    BY <1>6, <2>1, <2>2, AppendGrows
  <2>4. IsInjective(exited') /\ ToSet(exited') = ToSet(exited) \cup {popped}
    BY <1>6, <2>2, <2>3, PushedLeaves
  <2>5. freed' = freed
    BY <2>1
  <2>6. Types'
    BY <1>1, <1>5, <2>3, <2>5 DEF Base, Types
  <2>7. Listed'
    BY <1>1, <1>8, <2>2, <2>4, <2>5, Constants DEF Base, Listed, Types
  <2> QED BY <1>3, <1>4, <2>6, <2>7 DEF Base
<1>9. CASE popped # None /\ ~Held(popped)
  <2>1. freed' = freed \cup {popped} /\ exited' = exited
    BY <1>9 DEF gc_check
  <2>2. popped \in Task /\ popped \notin ToSet(exited) /\ popped # made
    BY <1>9 DEF Base, Types, Listed, Held
  <2>3. Types'
    BY <1>1, <1>5, <2>1, <2>2 DEF Base, Types
  <2>4. Listed'
    BY <1>1, <1>9, <2>1, <2>2, Constants DEF Base, Listed, Types
  <2> QED BY <1>3, <1>4, <2>3, <2>4 DEF Base
<1> QED BY <1>7, <1>8, <1>9

LEMMA GcWaitBase ==
  ASSUME LifeAssumption, Base, NEW c \in Cpu, gc_wait(c)
  PROVE  Base'
<1>1. /\ rq.current[c] = GcTask /\ pc[GcTask] = "pop" /\ Goto(GcTask, "woken")
      /\ UNCHANGED << exited, n, popped, freed, halted, tid2task, made >>
      /\ rq' = block_current(rq, c, WAIT_FOR_EXIT)
  BY DEF gc_wait, At
<1>2. /\ RQInv(rq') /\ Enqueued(rq, rq', WAIT_FOR_EXIT, GcTask)
      /\ SameButRunning([rq.state EXCEPT ![GcTask] = "Blocked"], rq'.state)
      /\ rq.state[GcTask] = "Running"
  <2>1. RQInv(rq) /\ WAIT_FOR_EXIT \in WQ /\ ~is_idle(rq.current[c])
    BY <1>1, Constants DEF Base, Types
  <2> QED BY <1>1, <2>1, BlockStep
<1>3. rq.state \in [Task -> TaskState] /\ rq.queue \in [WQ -> Seq(Task)]
  BY RQFacts DEF Base
<1>4. \A t \in Task : /\ t # GcTask => rq'.state[t] = rq.state[t]
                              \/ (rq'.state[t] \in Runnable /\ rq.state[t] \in Runnable)
                      /\ t = GcTask => rq'.state[t] = "Blocked"
  BY <1>2, <1>3, Constants DEF SameButRunning, Runnable
<1>5. "woken" \in GcPc
  BY DEF GcPc
<1>6. \A t \in Task : rq.state[t] \in {"New", "Exited"} \/ rq'.state[t] \in {"New", "Exited"}
                            => rq'.state[t] = rq.state[t]
  BY <1>2, <1>4, Constants DEF Runnable
<1>7. PcOK' /\ Making' /\ Stages'
  BY <1>1, <1>5, <1>6, GcAside
<1>8. popped = None
  BY <1>1 DEF Base, Listed
<1>9. WaitOK'
  <2>1. rq'.queue[WAIT_FOR_EXIT] = << GcTask >> /\ rq'.in_wait_queue = {GcTask}
    <3>1. rq.queue[WAIT_FOR_EXIT] = << >> /\ rq.in_wait_queue = {}
      BY <1>2 DEF Base, WaitOK
    <3>2. rq'.queue[WAIT_FOR_EXIT] = Append(<< >>, GcTask)
      BY <1>2, <1>3, <3>1, Constants DEF Enqueued
    <3>3. Append(<< >>, GcTask) = << GcTask >>
      OBVIOUS
    <3> QED BY <1>2, <3>1, <3>2, <3>3 DEF Enqueued
  <2>2. \A t \in Task : rq'.state[t] = "Blocked" => t = GcTask
    BY <1>4 DEF Base, WaitOK, Runnable
  <2>3. rq'.state[GcTask] = "Blocked"
    BY <1>4, Constants
  <2> QED BY <2>1, <2>2, <2>3 DEF WaitOK
<1>10. halted' \in BOOLEAN
  BY <1>1 DEF Base, Types
<1>11. Types'
  BY <1>1, <1>2, <1>10 DEF Base, Types
<1>12. Listed'
  <2>1. ToSet(exited) \subseteq Task /\ freed \subseteq Task
    BY Positions DEF Base, Types
  <2>2. \A t \in Task : rq'.state[t] = "Exited" <=> rq.state[t] = "Exited"
    BY <1>6
  <2> QED BY <1>1, <1>8, <2>1, <2>2 DEF Base, Listed
<1> QED BY <1>7, <1>9, <1>11, <1>12 DEF Base

-----------------------------------------------------------------------------
LEMMA AddTaskBase ==
  ASSUME LifeAssumption, Base, NEW c \in Cpu, AddTask(c)
  PROVE  Base'
<1>1. /\ rq.current[c] = MainTask /\ pc[MainTask] = "queue" /\ Goto(MainTask, "drop")
      /\ UNCHANGED << exited, n, popped, freed, halted, tid2task, made >>
      /\ rq' = add_task(rq, made)
  BY DEF AddTask, At
<1>2. made \in User /\ rq.state[made] = "New" /\ made \in Task /\ RQInv(rq)
  BY <1>1, Constants DEF Base, Making, Types
<1>3. /\ RQInv(rq') /\ rq'.state = [rq.state EXCEPT ![made] = "Ready"]
      /\ rq'.queue = rq.queue /\ rq'.in_wait_queue = rq.in_wait_queue
  BY <1>1, <1>2, AddTaskInv, AddTaskEffect DEF RQInv
<1>4. rq.state \in [Task -> TaskState]
  BY RQFacts DEF Base
<1>5. /\ rq'.state[made] = "Ready" /\ \A t \in Task : t # made => rq'.state[t] = rq.state[t]
  BY <1>2, <1>3, <1>4
<1>6. /\ PcOK' /\ pc'[MainTask] = "drop"
      /\ \A u \in Task : u # MainTask => pc'[u] = pc[u]
  <2>1. "drop" \in MainPc
    BY DEF MainPc
  <2> QED BY <1>1, <2>1, Constants, PcStep
<1>7. halted' \in BOOLEAN
  BY <1>1 DEF Base, Types
<1>8. Types'
  BY <1>1, <1>3, <1>7 DEF Base, Types
<1>9. Making'
  BY <1>6 DEF Making
<1>10. Stages'
  <2>1. rq.state[MainTask] # "Exited"
    BY <1>1, Stepper
  <2> QED BY <1>1, <1>5, <1>6, <2>1, Constants DEF Base, Stages, Types
<1>11. WaitOK'
  <2>1. rq'.state[GcTask] = rq.state[GcTask]
    BY <1>2, <1>5, Constants
  <2> QED BY <1>3, <1>5, <2>1 DEF Base, WaitOK
<1>12. Listed'
  <2>1. ToSet(exited) \subseteq Task /\ freed \subseteq Task /\ (popped # None => popped \in Task)
    BY Positions DEF Base, Types
  <2>2. \A t \in Task : rq'.state[t] = "Exited" <=> rq.state[t] = "Exited"
    BY <1>2, <1>5
  <2>3. pc'[GcTask] = pc[GcTask]
    BY <1>6, Constants
  <2> QED BY <1>1, <2>1, <2>2, <2>3 DEF Base, Listed
<1> QED BY <1>6, <1>8, <1>9, <1>10, <1>11, <1>12 DEF Base

(* The state of the tasks after exit_current of t: gc is awake.            *)
LEMMA LeaveEffect ==
  ASSUME LifeAssumption, Base, NEW c \in Cpu, NEW t, rq.current[c] = t, pc[t] = "exit",
         rq' = AfterExit(rq, c, WAIT_FOR_EXIT)
  PROVE  /\ RQInv(rq') /\ t \in Task /\ t # GcTask /\ rq.state[t] = "Running"
         /\ rq'.queue[WAIT_FOR_EXIT] = << >> /\ rq'.in_wait_queue = {}
         /\ rq'.state[t] = "Exited" /\ rq'.state[GcTask] \in Runnable
         /\ \A u \in Task : u \notin {t, GcTask} =>
              \/ rq'.state[u] = rq.state[u]
              \/ rq'.state[u] \in Runnable /\ rq.state[u] \in Runnable
<1> DEFINE q == WAIT_FOR_EXIT
           s == EndedStates(rq, t)
<1>1. t \in Task /\ rq.state[t] = "Running"
  BY Stepper
<1>2. t # GcTask /\ ~is_idle(t)
  BY Constants, Labels, <1>1 DEF Base, PcOK, GcPc
<1>3. /\ RQInv(rq) /\ q \in WQ /\ rq.state \in [Task -> TaskState]
      /\ rq.queue \in [WQ -> Seq(Task)]
  BY Constants, RQFacts DEF Base, Types
<1>4. rq.state[GcTask] \in TaskState /\ rq.state[GcTask] \notin {"New", "Exited"}
  <2>1. rq.state[GcTask] # "Exited"
    BY Constants DEF Base, Stages, PcOK, GcPc
  <2> QED BY <2>1, <1>3, Constants DEF Base, WaitOK
<1>5. s \in [Task -> TaskState] /\ s[t] = "Exited" /\ \A u \in Task : u # t => s[u] = rq.state[u]
  BY <1>1, <1>3 DEF TaskState, EndedStates
<1>6. CASE rq.state[GcTask] # "Blocked"
  <2>1. rq.queue[q] = << >> /\ rq.in_wait_queue = {}
    BY <1>6 DEF Base, WaitOK
  <2>2. /\ RQInv(rq') /\ rq'.queue = rq.queue /\ rq'.in_wait_queue = rq.in_wait_queue
        /\ SameButRunning(s, rq'.state)
    BY <1>2, <1>3, <2>1, ExitAlone
  <2> HIDE DEF s
  <2>3. rq'.state[t] = "Exited" /\ rq'.state[GcTask] \in Runnable
    BY <1>1, <1>2, <1>4, <1>5, <1>6, <2>2, Constants DEF SameButRunning, Runnable, TaskState
  <2>4. \A u \in Task : u \notin {t, GcTask} =>
              \/ rq'.state[u] = rq.state[u]
              \/ rq'.state[u] \in Runnable /\ rq.state[u] \in Runnable
    BY <1>5, <2>2 DEF SameButRunning
  <2> QED BY <1>1, <1>2, <2>1, <2>2, <2>3, <2>4
<1>7. CASE rq.state[GcTask] = "Blocked"
  <2>1. rq.queue[q] = << GcTask >> /\ rq.in_wait_queue = {GcTask}
    BY <1>7 DEF Base, WaitOK
  <2>2. rq.queue[q] # << >> /\ Head(rq.queue[q]) = GcTask /\ Tail(rq.queue[q]) = << >>
    <3>1. /\ << GcTask >> # << >> /\ Head(<< GcTask >>) = GcTask /\ Tail(<< GcTask >>) = << >>
      BY Constants
    <3> QED BY <2>1, <3>1
  <2>3. /\ RQInv(rq') /\ rq'.queue[q] = Tail(rq.queue[q])
        /\ rq'.in_wait_queue = rq.in_wait_queue \ {GcTask}
        /\ SameButRunning(Woken(s, GcTask), rq'.state)
    <3>1. GcTask = Head(rq.queue[q]) /\ GcTask # t /\ t = rq.current[c]
      BY <1>2, <2>2
    <3> HIDE DEF q
    <3>2. rq' = AfterExit(rq, c, q)
      BY DEF q
    <3> QED BY <1>2, <1>3, <2>2, <3>1, <3>2, ExitWaking
  <2>4. rq'.queue[q] = << >> /\ rq'.in_wait_queue = {}
    BY <1>3, <2>1, <2>2, <2>3
  <2>5. /\ Woken(s, GcTask)[GcTask] = "Ready" /\ Woken(s, GcTask)[t] = "Exited"
        /\ \A u \in Task : u \notin {t, GcTask} => Woken(s, GcTask)[u] = rq.state[u]
    <3> HIDE DEF s
    <3> QED BY <1>1, <1>2, <1>5, <1>7, Constants DEF Woken
  <2> HIDE DEF s
  <2>6. rq'.state[t] = "Exited" /\ rq'.state[GcTask] \in Runnable
    BY <1>1, <1>2, <2>3, <2>5, Constants DEF SameButRunning, Runnable
  <2>7. \A u \in Task : u \notin {t, GcTask} =>
              \/ rq'.state[u] = rq.state[u]
              \/ rq'.state[u] \in Runnable /\ rq.state[u] \in Runnable
    BY <2>3, <2>5 DEF SameButRunning
  <2> QED BY <1>1, <1>2, <2>3, <2>4, <2>6, <2>7
<1> QED BY <1>6, <1>7

LEMMA LeaveBase ==
  ASSUME LifeAssumption, Base, NEW c \in Cpu, NEW t \in Task, At(c, t, "exit"), Leave(c, t)
  PROVE  Base'
<1>1. /\ rq.current[c] = t /\ pc[t] = "exit" /\ ~halted /\ exited' = Append(exited, t)
      /\ UNCHANGED << tid2task, pc, made, n, popped, freed, halted >>
      /\ rq' = AfterExit(rq, c, WAIT_FOR_EXIT)
  BY DEF At, Leave, AfterExit, Ended
<1>2. /\ RQInv(rq') /\ t # GcTask /\ rq.state[t] = "Running"
      /\ rq'.queue[WAIT_FOR_EXIT] = << >> /\ rq'.in_wait_queue = {}
      /\ rq'.state[t] = "Exited" /\ rq'.state[GcTask] \in Runnable
      /\ \A u \in Task : u \notin {t, GcTask} =>
              \/ rq'.state[u] = rq.state[u]
              \/ rq'.state[u] \in Runnable /\ rq.state[u] \in Runnable
  BY <1>1, LeaveEffect
<1>3. /\ UNCHANGED << tid2task, pc, made, n, popped, freed, halted >> /\ pc[t] = "exit"
  BY <1>1
<1>4. rq.state[GcTask] \notin {"New", "Exited"}
  BY Constants DEF Base, Stages, PcOK, GcPc, WaitOK
<1>5. \A u \in Task : /\ rq'.state[u] = "Exited" <=> rq.state[u] = "Exited" \/ u = t
                      /\ rq'.state[u] = "New" <=> rq.state[u] = "New"
                      /\ rq'.state[u] # "Blocked"
  BY <1>2, <1>4 DEF Runnable, Base, WaitOK
<1>6. t \notin ToSet(exited) /\ t # popped /\ t \notin freed
  BY <1>2, Constants DEF Base, Listed
<1>7. exited \in Seq(Task) /\ IsInjective(exited)
  BY DEF Base, Types, Listed
<1>8. exited' \in Seq(Task) /\ Grown(exited, exited', t)
  BY <1>1, <1>7, AppendGrows
<1>9. IsInjective(exited') /\ ToSet(exited') = ToSet(exited) \cup {t}
  BY <1>6, <1>7, <1>8, PushedLeaves
<1>10. Types'
  <2>1. halted' \in BOOLEAN
    BY <1>3 DEF Base, Types
  <2> QED BY <1>2, <1>3, <1>8, <2>1 DEF Base, Types
<1>11. PcOK' /\ Making'
  BY <1>3, <1>5, Constants DEF Base, PcOK, Making
<1>12. Stages'
  BY <1>3, <1>5, Constants DEF Base, Stages
<1>13. WaitOK'
  BY <1>2, <1>5, Constants DEF WaitOK, Runnable
<1>14. Listed'
  <2>1. ToSet(exited) \subseteq Task /\ freed \subseteq Task /\ (popped # None => popped \in Task)
    BY Positions DEF Base, Types
  <2> QED BY <1>3, <1>5, <1>6, <1>9, <2>1 DEF Base, Listed
<1> QED BY <1>10, <1>11, <1>12, <1>13, <1>14 DEF Base

LEMMA StepBase == ASSUME LifeAssumption, Base, [Next]_vars PROVE Base'
<1>1. CASE UNCHANGED vars
  <2>1. UNCHANGED << rq, tid2task, exited, pc, made, n, popped, freed, halted >>
    BY <1>1 DEF vars
  <2>2. halted' \in BOOLEAN
    BY <2>1 DEF Base, Types
  <2>3. Types'
    BY <2>1, <2>2 DEF Base, Types
  <2> QED BY <2>1, <2>3 DEF Base, PcOK, Making, Stages, WaitOK, Listed
<1>2. CASE Next
  <2>1. PICK c \in Cpu : \/ MainStep(c) \/ GcStep(c) \/ yield_now(c)
                         \/ \E t \in Task : exit_current_task(c, t) \/ ExitStep(c, t)
    BY <1>2 DEF Next
  <2>2. CASE MainStep(c)
    BY <2>2, CreateBase, TaskaddBase, AddTaskBase, RunTestcaseBase, YieldToTestBase DEF MainStep
  <2>3. CASE GcStep(c)
    BY <2>3, GcLenBase, GcPopBase, GcCheckBase, GcWaitBase, GcWokenBase DEF GcStep
  <2>4. CASE yield_now(c)
    BY <2>4, YieldNowBase
  <2>5. ASSUME NEW t \in Task, exit_current_task(c, t) PROVE Base'
    BY <2>5, ExitCurrentTaskBase
  <2>6. ASSUME NEW t \in Task, ExitStep(c, t) PROVE Base'
    <3>1. CASE remove_tid(c, t) \/ tasksub(c, t)
      BY <3>1, RemoveTidBase, TasksubBase
    <3>2. CASE exit_current(c, t)
      BY <3>2, HaltBase, LeaveBase DEF exit_current
    <3> QED BY <2>6, <3>1, <3>2 DEF ExitStep
  <2> QED BY <2>1, <2>2, <2>3, <2>4, <2>5, <2>6
<1> QED BY <1>1, <1>2

LEMMA Always == ASSUME LifeAssumption PROVE Spec => []Base
<1>1. Init => Base
  BY InitBase
<1>2. Base /\ [Next]_vars => Base'
  BY StepBase
<1> QED BY <1>1, <1>2, PTL DEF Spec

(* gc_entry never drops a task that somebody can still reach: once         *)
(* strong_count was 1, nobody comes to hold the task again, on any number  *)
(* of CPUs.                                                                *)
THEOREM NothingFreedIsHeld == ASSUME LifeAssumption PROVE Spec => []FreedSafe
<1>1. Base => FreedSafe
  <2> SUFFICES ASSUME Base, NEW t \in freed PROVE ~Held(t) /\ rq.state[t] = "Exited"
    BY DEF FreedSafe
  <2>1. /\ t \in Task /\ rq.state[t] = "Exited" /\ t \notin ToSet(exited) /\ t # made
    BY DEF Base, Types, Listed
  <2>2. ~ \E c \in Cpu : rq.current[c] = t
    BY <2>1, RQFacts DEF Base
  <2>3. ~ \E i \in DOMAIN rq.ready : rq.ready[i] = t
    BY <2>1, RQFacts DEF Base
  <2>4. ~ \E q \in WQ : InQueue(rq, q, t)
    <3>1. ~InQueue(rq, WAIT_FOR_EXIT, t)
      <4>1. CASE rq.state[GcTask] = "Blocked"
        <5>1. rq.queue[WAIT_FOR_EXIT] = << GcTask >> /\ t # GcTask
          BY <2>1, <4>1 DEF Base, WaitOK
        <5>2. DOMAIN << GcTask >> = {1} /\ << GcTask >>[1] = GcTask
          OBVIOUS
        <5> QED BY <5>1, <5>2 DEF InQueue
      <4>2. CASE rq.state[GcTask] # "Blocked"
        <5>1. rq.queue[WAIT_FOR_EXIT] = << >>
          BY <4>2 DEF Base, WaitOK
        <5> QED BY <5>1 DEF InQueue
      <4> QED BY <4>1, <4>2
    <3> QED BY <3>1, Constants
  <2>5. t \notin tid2task
    BY <2>1 DEF Base, Stages
  <2>6. ~ \E i \in DOMAIN exited : exited[i] = t
    BY <2>1 DEF ToSet
  <2> QED BY <2>1, <2>2, <2>3, <2>4, <2>5, <2>6 DEF Held
<1> QED BY <1>1, Always, PTL

(* Until the system halts, an exited task is dropped, on EXITED_TASKS or   *)
(* in the hands of gc, and in one of these places only.                    *)
THEOREM ExitedIsKeptOnce == ASSUME LifeAssumption PROVE Spec => []ExitedOnce
<1>1. Base => ExitedOnce
  <2> SUFFICES ASSUME Base, ~halted, NEW t \in Task, rq.state[t] = "Exited"
               PROVE  /\ Cardinality({i \in DOMAIN exited : exited[i] = t})
                           = (IF t \in freed \/ t = popped THEN 0 ELSE 1)
                      /\ ~(t \in freed /\ t = popped)
    BY DEF ExitedOnce
  <2>1. Cardinality({i \in DOMAIN exited : exited[i] = t}) = IF t \in ToSet(exited) THEN 1 ELSE 0
    BY Occurrences DEF Base, Types, Listed
  <2>2. ~(t \in freed /\ t = popped) /\ (t \in ToSet(exited) <=> ~(t \in freed \/ t = popped))
    BY Constants DEF Base, Listed
  <2> QED BY <2>1, <2>2
<1> QED BY <1>1, Always, PTL

-----------------------------------------------------------------------------
(* The count of user tasks.                                                *)

(* The tasks that have been counted and not yet discounted.                *)
Counted(t) ==
  pc[t] # "exit" /\ (rq.state[t] # "New" \/ (pc[MainTask] = "queue" /\ t = made))

Live == {t \in User : Counted(t)}

Count == task_nub = Cardinality(Live) /\ n <= Cardinality(Task)

LEMMA LiveFinite ==
  ASSUME LifeAssumption
  PROVE  /\ IsFiniteSet(Live) /\ Cardinality(Live) \in 0 .. Cardinality(User)
         /\ Cardinality(User) \in Nat /\ Cardinality(Task) \in Nat
<1>1. Live \subseteq User /\ IsFiniteSet(User) /\ IsFiniteSet(Task)
  BY Constants DEF Live
<1>2. IsFiniteSet(Live) /\ Cardinality(Live) <= Cardinality(User)
  BY <1>1, FS_Subset
<1>3. Cardinality(Live) \in Nat /\ Cardinality(User) \in Nat /\ Cardinality(Task) \in Nat
  BY <1>1, <1>2, FS_CardinalityType
<1> QED BY <1>2, <1>3

LEMMA InitCount == ASSUME LifeAssumption PROVE Init => Count
<1> SUFFICES ASSUME Init PROVE Count
  OBVIOUS
<1>1. \A t \in User : rq.state[t] = "New" /\ pc[MainTask] = "create"
  <2>1. \A t \in Task : t \notin {MainTask, GcTask} /\ ~is_idle(t) => rq.state[t] = "New"
    BY Constants, InitRQInv DEF Init
  <2>2. pc[MainTask] = "create"
    BY Constants DEF Init
  <2> QED BY <2>1, <2>2 DEF User
<1>2. Live = {}
  BY <1>1 DEF Live, Counted
<1>3. Cardinality(Live) = 0
  BY <1>2, FS_EmptySet
<1> QED BY <1>3, LiveFinite DEF Init, Count

(* Which steps change the count.                                           *)
LEMMA CountKept ==
  ASSUME LifeAssumption, Count, task_nub' = task_nub, n' <= Cardinality(Task),
         \A t \in User : Counted(t)' <=> Counted(t)
  PROVE  Count'
<1>1. Live' = Live
  BY DEF Live
<1> QED BY <1>1 DEF Count

(* A quiet step from and to labels that do not matter for the count.       *)
LEMMA CountQuiet ==
  ASSUME LifeAssumption, Base, Count, Quiet, NEW t \in Task, NEW l, Goto(t, l),
         t \in User => l # "exit" /\ pc[t] # "exit",
         t = MainTask => l # "queue" /\ pc[t] # "queue",
         t # MainTask => made' = made,
         task_nub' = task_nub, n' <= Cardinality(Task)
  PROVE  Count'
<1>1. \A u \in Task : rq'.state[u] = "New" <=> rq.state[u] = "New"
  BY QuietKeeps
<1>2. pc' = [pc EXCEPT ![t] = l] /\ pc \in [Task -> MainPc \cup UserPc \cup GcPc]
  BY DEF Goto, Base, PcOK
<1>3. pc'[t] = l /\ \A u \in Task : u # t => pc'[u] = pc[u]
  BY <1>2
<1>4. \A u \in User : Counted(u)' <=> Counted(u)
  <2>1. CASE t = MainTask
    BY <1>1, <1>3, <2>1, Constants DEF Counted
  <2>2. CASE t # MainTask
    BY <1>1, <1>3, <2>2, Constants DEF Counted
  <2> QED BY <2>1, <2>2
<1> QED BY <1>4, CountKept

LEMMA StepCount == ASSUME LifeAssumption, Base, Count, [Next]_vars PROVE Count'
<1>1. CASE UNCHANGED vars
  BY <1>1 DEF vars, Count, Live, Counted
<1>2. ASSUME NEW c \in Cpu, MainStep(c) PROVE Count'
  <2>1. rq.current[c] = MainTask /\ MainTask \in Task /\ MainTask \notin User
    BY <1>2, Constants DEF MainStep, Create, taskadd, AddTask, run_testcase, yield_to_test, At
  <2>2. CASE Create(c)
    <3>1. Quiet /\ Goto(MainTask, "count") /\ pc[MainTask] = "create" /\ UNCHANGED << n, task_nub >>
      BY <2>2, SameIsQuiet DEF Create, At
    <3> QED BY <2>1, <3>1, CountQuiet DEF Count
  <2>3. CASE run_testcase(c)
    <3>1. Quiet /\ pc[MainTask] = "drop" /\ UNCHANGED << n, task_nub >>
      BY <2>3, SameIsQuiet DEF run_testcase, At
    <3>2. Goto(MainTask, "create") \/ Goto(MainTask, "yield")
      BY <2>3 DEF run_testcase
    <3> QED BY <2>1, <3>1, <3>2, CountQuiet DEF Count
  <2>4. CASE yield_to_test(c)
    <3>1. Quiet /\ Goto(MainTask, "exit") /\ pc[MainTask] = "yield" /\ UNCHANGED << n, task_nub >>
      BY <2>4, YieldIsQuiet DEF yield_to_test, At
    <3> QED BY <2>1, <3>1, CountQuiet DEF Count
  <2>5. CASE AddTask(c)
    <3>1. /\ pc[MainTask] = "queue" /\ Goto(MainTask, "drop") /\ rq' = add_task(rq, made)
          /\ UNCHANGED << made, n, task_nub >>
      BY <2>5 DEF AddTask, At
    <3>2. made \in User /\ rq.state[made] = "New" /\ pc[made] = "run" /\ RQInv(rq)
      BY <3>1 DEF Base, Making, Stages, Types
    <3>3. rq'.state = [rq.state EXCEPT ![made] = "Ready"] /\ rq.state \in [Task -> TaskState]
      BY <3>1, <3>2, Constants, AddTaskEffect, RQFacts DEF Base, RQInv
    <3>4. /\ rq'.state[made] = "Ready" /\ \A u \in Task : u # made => rq'.state[u] = rq.state[u]
      BY <3>2, <3>3, Constants
    <3>5. pc'[MainTask] = "drop" /\ \A u \in Task : u # MainTask => pc'[u] = pc[u]
      <4>1. "drop" \in MainPc
        BY DEF MainPc
      <4> QED BY <3>1, <4>1, Constants, PcStep
    <3>6. \A u \in User : Counted(u)' <=> Counted(u)
      BY <3>1, <3>2, <3>4, <3>5, Constants DEF Counted
    <3> QED BY <3>1, <3>6, CountKept DEF Count
  <2>6. CASE taskadd(c)
    <3>1. /\ pc[MainTask] = "count" /\ Goto(MainTask, "queue") /\ task_nub' = task_nub + 1
          /\ UNCHANGED << rq, made, n >>
      BY <2>6 DEF taskadd, At
    <3>2. made \in User /\ rq.state[made] = "New" /\ pc[made] = "run"
      BY <3>1 DEF Base, Making, Stages
    <3>3. pc'[MainTask] = "queue" /\ \A u \in Task : u # MainTask => pc'[u] = pc[u]
      <4>1. "queue" \in MainPc
        BY DEF MainPc
      <4> QED BY <3>1, <4>1, Constants, PcStep
    <3>4. Live' = Live \cup {made} /\ made \notin Live
      BY <3>1, <3>2, <3>3, Constants DEF Live, Counted
    <3>5. Cardinality(Live') = Cardinality(Live) + 1
      BY <3>4, LiveFinite, FS_AddElement
    <3> QED BY <3>1, <3>5 DEF Count
  <2> QED BY <1>2, <2>2, <2>3, <2>4, <2>5, <2>6 DEF MainStep
<1>3. ASSUME NEW c \in Cpu, GcStep(c) PROVE Count'
  <2>1. GcTask \in Task /\ GcTask \notin User /\ GcTask # MainTask
    BY Constants
  <2>2. n \in Nat /\ Cardinality(Task) \in Nat
    BY LiveFinite DEF Base, Types
  <2>3. CASE gc_len(c)
    <3>1. Quiet /\ Goto(GcTask, "pop") /\ UNCHANGED << made, task_nub >> /\ n' = Len(exited)
      BY <2>3, SameIsQuiet DEF gc_len, At
    <3>2. n' <= Cardinality(Task)
      BY <3>1, Constants, QueueRoom DEF Base, Types, Listed
    <3> QED BY <2>1, <3>1, <3>2, CountQuiet
  <2>4. CASE gc_pop(c)
    <3>1. Quiet /\ Goto(GcTask, "check") /\ UNCHANGED << made, task_nub >> /\ n' = n - 1
      BY <2>4, SameIsQuiet DEF gc_pop, At
    <3>2. n' <= Cardinality(Task)
      BY <2>2, <3>1 DEF Count
    <3> QED BY <2>1, <3>1, <3>2, CountQuiet
  <2>5. CASE gc_check(c)
    <3>1. Quiet /\ Goto(GcTask, "pop") /\ UNCHANGED << made, task_nub, n >>
      BY <2>5, SameIsQuiet DEF gc_check, At
    <3> QED BY <2>1, <3>1, CountQuiet DEF Count
  <2>6. CASE gc_wait(c)
    <3>1. /\ rq.current[c] = GcTask /\ Goto(GcTask, "woken") /\ UNCHANGED << made, task_nub, n >>
          /\ rq' = block_current(rq, c, WAIT_FOR_EXIT)
      BY <2>6 DEF gc_wait, At
    <3>2. SameButRunning([rq.state EXCEPT ![GcTask] = "Blocked"], rq'.state)
      <4>1. RQInv(rq) /\ WAIT_FOR_EXIT \in WQ /\ ~is_idle(rq.current[c])
        BY <3>1, Constants DEF Base, Types
      <4> QED BY <3>1, <4>1, BlockStep
    <3>3. \A u \in User : rq'.state[u] = "New" <=> rq.state[u] = "New"
      BY <3>2, Constants, RQFacts DEF Base, SameButRunning, Runnable
    <3>4. \A u \in Task : u # GcTask => pc'[u] = pc[u]
      <4>1. "woken" \in GcPc
        BY DEF GcPc
      <4> QED BY <2>1, <3>1, <4>1, PcStep
    <3>5. \A u \in User : Counted(u)' <=> Counted(u)
      BY <2>1, <3>1, <3>3, <3>4, Constants DEF Counted
    <3> QED BY <3>1, <3>5, CountKept DEF Count
  <2>7. CASE gc_woken(c)
    <3>1. /\ rq.current[c] = GcTask /\ Goto(GcTask, "len") /\ UNCHANGED << made, task_nub, n >>
          /\ rq' = cancel_wait(rq, WAIT_FOR_EXIT, GcTask)
      BY <2>7 DEF gc_woken, At
    <3>2. GcTask \notin rq.in_wait_queue
      BY <3>1, Stepper DEF Base, WaitOK
    <3>3. Quiet
      BY <3>1, <3>2, SameIsQuiet DEF cancel_wait
    <3> QED BY <2>1, <3>1, <3>3, CountQuiet DEF Count
  <2> QED BY <1>3, <2>3, <2>4, <2>5, <2>6, <2>7 DEF GcStep
<1>4. ASSUME NEW c \in Cpu, yield_now(c) PROVE Count'
  <2>1. Quiet /\ UNCHANGED << pc, made, task_nub, n >>
    BY <1>4, YieldIsQuiet DEF yield_now
  <2>2. \A u \in User : rq'.state[u] = "New" <=> rq.state[u] = "New"
    BY <2>1, QuietKeeps, Constants
  <2>3. \A u \in User : Counted(u)' <=> Counted(u)
    BY <2>1, <2>2 DEF Counted
  <2> QED BY <2>1, <2>3, CountKept DEF Count
<1>5. ASSUME NEW c \in Cpu, NEW t \in Task, exit_current_task(c, t) \/ remove_tid(c, t) PROVE Count'
  <2>1. /\ Goto(t, "remove") \/ Goto(t, "sub")
        /\ pc[t] \in {"run", "remove"} /\ t \in User /\ rq' = rq /\ UNCHANGED << made, task_nub, n >>
    BY <1>5, Labels DEF exit_current_task, remove_tid, At
  <2>2. t # MainTask /\ Quiet
    BY <2>1, Constants, SameIsQuiet
  <2> QED BY <2>1, <2>2, CountQuiet DEF Count
<1>6. ASSUME NEW c \in Cpu, NEW t \in Task, tasksub(c, t) PROVE Count'
  <2>1. /\ Goto(t, "exit") /\ pc[t] = "sub" /\ t \in User /\ task_nub' = task_nub - 1
        /\ UNCHANGED << rq, made, n >> /\ rq.current[c] = t
    BY <1>6, Labels DEF tasksub, At
  <2>2. pc'[t] = "exit" /\ \A u \in Task : u # t => pc'[u] = pc[u]
    <3>1. "exit" \in UserPc
      BY DEF UserPc
    <3> QED BY <2>1, <3>1, PcStep
  <2>3. rq.state[t] = "Running"
    BY <2>1, Stepper
  <2>4. Live' = Live \ {t} /\ t \in Live
    BY <2>1, <2>2, <2>3, Constants DEF Live, Counted
  <2>5. Cardinality(Live') = Cardinality(Live) - 1
    BY <2>4, LiveFinite, FS_RemoveElement
  <2> QED BY <2>1, <2>5 DEF Count
<1>7. ASSUME NEW c \in Cpu, NEW t \in Task, exit_current(c, t) PROVE Count'
  <2>1. CASE Halt
    BY <2>1 DEF Halt, Count, Live, Counted
  <2>2. CASE Leave(c, t)
    <3>1. /\ rq.current[c] = t /\ pc[t] = "exit" /\ UNCHANGED << pc, made, task_nub, n >>
          /\ rq' = AfterExit(rq, c, WAIT_FOR_EXIT)
      BY <1>7, <2>2 DEF exit_current, At, Leave, AfterExit, Ended
    <3>2. \A u \in User : u # t => (rq'.state[u] = "New" <=> rq.state[u] = "New")
      BY <3>1, LeaveEffect, Constants DEF Runnable
    <3>3. \A u \in User : Counted(u)' <=> Counted(u)
      BY <3>1, <3>2 DEF Counted
    <3> QED BY <3>1, <3>3, CountKept DEF Count
  <2> QED BY <1>7, <2>1, <2>2 DEF exit_current
<1> QED BY <1>1, <1>2, <1>3, <1>4, <1>5, <1>6, <1>7 DEF Next, ExitStep

(* The task count is exact: it never goes below zero or above the number   *)
(* of user tasks, and gc never counts more exited tasks than there are.    *)
THEOREM TypeCorrect == ASSUME LifeAssumption PROVE Spec => []TypeOK
<1>1. Base /\ Count => TypeOK
  <2> SUFFICES ASSUME Base, Count PROVE TypeOK
    OBVIOUS
  <2>1. task_nub \in 0 .. Cardinality(User) /\ n \in 0 .. Cardinality(Task)
    BY LiveFinite DEF Base, Types, Count
  <2>2. halted \in BOOLEAN
    BY DEF Base, Types
  <2> QED BY <2>1, <2>2 DEF Base, Types, TypeOK, RQInv
<1>2. Init => Base /\ Count
  BY InitBase, InitCount
<1>3. Base /\ Count /\ [Next]_vars => (Base /\ Count)'
  BY StepBase, StepCount
<1> QED BY <1>1, <1>2, <1>3, PTL DEF Spec

-----------------------------------------------------------------------------
(* One CPU: main is not interrupted before yield_to_test, and gc not       *)
(* between looking at the length of the list and going to sleep.           *)

Solo ==
  /\ pc[MainTask] # "exit" => rq.current[0] = MainTask
  /\ pc[MainTask] \in {"yield", "exit"} => \A u \in User : rq.state[u] # "New"
  /\ halted => task_nub = 0 /\ pc[MainTask] = "exit"
  /\ pc[GcTask] \in {"pop", "check"} => rq.current[0] = GcTask /\ n = Len(exited)
  /\ pc[GcTask] = "check" => popped # None
  /\ rq.state[GcTask] = "Blocked" => exited = << >>

LEMMA OneCpu == ASSUME SMP = 1 PROVE Cpu = {0} /\ 0 \in Cpu
BY DEF Cpu

LEMMA InitSolo == ASSUME LifeAssumption, SMP = 1 PROVE Init => Solo
<1> SUFFICES ASSUME Init PROVE Solo
  OBVIOUS
<1>1. rq.current[0] = MainTask /\ rq.state[GcTask] = "Ready"
  BY Constants, InitRQInv DEF Init
<1>2. pc[MainTask] = "create" /\ pc[GcTask] = "len" /\ ~halted
  BY Constants DEF Init
<1> QED BY <1>1, <1>2 DEF Solo

(* Another task than main or gc runs only where Solo lets it.              *)
LEMMA Alone ==
  ASSUME LifeAssumption, SMP = 1, Base, Solo, NEW c \in Cpu, NEW t, rq.current[c] = t
  PROVE  /\ c = 0
         /\ t # MainTask => pc[MainTask] = "exit"
         /\ t # GcTask => pc[GcTask] \notin {"pop", "check"}
BY OneCpu DEF Solo

(* While gc has the CPU, main has no Arc left.                             *)
LEMMA PoppedIsFree ==
  ASSUME LifeAssumption, SMP = 1, Base, Solo, rq.current[0] = GcTask, popped # None
  PROVE  ~Held(popped)
<1>1. popped \in Task /\ rq.state[popped] = "Exited" /\ popped \notin ToSet(exited)
  BY DEF Base, Types, Listed
<1>2. ~ \E c \in Cpu : rq.current[c] = popped
  BY <1>1, RQFacts DEF Base
<1>3. ~ \E i \in DOMAIN rq.ready : rq.ready[i] = popped
  BY <1>1, RQFacts DEF Base
<1>4. ~ \E q \in WQ : InQueue(rq, q, popped)
  <2>1. rq.state[GcTask] = "Running"
    BY OneCpu, Stepper
  <2>2. rq.queue[WAIT_FOR_EXIT] = << >>
    BY <2>1 DEF Base, WaitOK
  <2>3. ~InQueue(rq, WAIT_FOR_EXIT, popped)
    BY <2>2 DEF InQueue
  <2> QED BY <2>3, Constants
<1>5. popped \notin tid2task
  BY <1>1 DEF Base, Stages
<1>6. popped # made
  BY Constants DEF Base, Solo, Making
<1>7. ~ \E i \in DOMAIN exited : exited[i] = popped
  BY <1>1 DEF ToSet
<1> QED BY <1>2, <1>3, <1>4, <1>5, <1>6, <1>7 DEF Held

(* main.                                                                   *)
LEMMA MainSolo ==
  ASSUME LifeAssumption, SMP = 1, Base, Solo, NEW c \in Cpu, MainStep(c)
  PROVE  Solo'
<1>1. /\ rq.current[c] = MainTask /\ ~halted /\ pc[MainTask] # "exit" /\ halted' = halted
      /\ UNCHANGED << exited, popped, n >>
  BY DEF MainStep, Create, taskadd, AddTask, run_testcase, yield_to_test, At
<1>2. c = 0 /\ pc[GcTask] \notin {"pop", "check"} /\ rq.current[0] = MainTask
  BY <1>1, Alone, Constants
<1>3. PICK l \in MainPc : Goto(MainTask, l)
  BY DEF MainStep, Create, taskadd, AddTask, run_testcase, yield_to_test, MainPc
<1>4. pc'[MainTask] = l /\ pc'[GcTask] = pc[GcTask]
  BY <1>3, PcStep, Constants
<1>5. CASE rq' = rq /\ (l = "yield" => \A u \in User : rq.state[u] # "New") /\ l # "exit"
  BY <1>1, <1>2, <1>4, <1>5 DEF Solo
<1>6. CASE Create(c) \/ taskadd(c)
  <2>1. rq' = rq /\ (Goto(MainTask, "count") \/ Goto(MainTask, "queue"))
    BY <1>6 DEF Create, taskadd
  <2>2. pc'[MainTask] \in {"count", "queue"}
    BY <2>1, Constants DEF Goto, Base, PcOK
  <2> QED BY <1>4, <1>5, <2>1, <2>2
<1>7. CASE run_testcase(c)
  <2>1. rq' = rq /\ Goto(MainTask, IF \E u \in User : rq.state[u] = "New" THEN "create" ELSE "yield")
    BY <1>7 DEF run_testcase
  <2>2. pc'[MainTask] = IF \E u \in User : rq.state[u] = "New" THEN "create" ELSE "yield"
    BY <2>1, Constants DEF Goto, Base, PcOK
  <2> QED BY <1>4, <1>5, <2>1, <2>2
<1>8. CASE AddTask(c)
  <2>1. Goto(MainTask, "drop") /\ rq' = add_task(rq, made) /\ pc[MainTask] = "queue"
    BY <1>8 DEF AddTask, At
  <2>2. pc'[MainTask] = "drop"
    BY <2>1, Constants DEF Goto, Base, PcOK
  <2>3. rq'.current = rq.current
    BY <2>1 DEF Base, Types, RQInv, RQType, add_task
  <2>4. rq'.state[GcTask] = rq.state[GcTask]
    <3>1. made \in User /\ made # GcTask /\ RQType(rq)
      BY <2>1, Constants DEF Base, Making, Types, RQInv
    <3>2. rq'.state = [rq.state EXCEPT ![made] = "Ready"] /\ rq.state \in [Task -> TaskState]
      BY <2>1, <3>1, Constants, AddTaskEffect, RQFacts DEF Base
    <3> QED BY <3>1, <3>2, Constants
  <2> QED BY <1>1, <1>2, <1>4, <2>2, <2>3, <2>4 DEF Solo
<1>9. CASE yield_to_test(c)
  <2>1. Goto(MainTask, "exit") /\ rq' = yield_current(rq, c) /\ pc[MainTask] = "yield"
    BY <1>9 DEF yield_to_test, At
  <2>2. pc'[MainTask] = "exit"
    BY <2>1, Constants DEF Goto, Base, PcOK
  <2>3. Quiet
    BY <2>1, YieldIsQuiet
  <2>4. /\ rq'.state[GcTask] = "Blocked" <=> rq.state[GcTask] = "Blocked"
        /\ \A u \in User : rq'.state[u] = "New" <=> rq.state[u] = "New"
    BY <2>3, QuietKeeps, Constants
  <2> QED BY <1>1, <1>2, <1>4, <2>1, <2>2, <2>4 DEF Solo
<1> QED BY <1>6, <1>7, <1>8, <1>9 DEF MainStep

(* gc.                                                                     *)
LEMMA GcSolo ==
  ASSUME LifeAssumption, SMP = 1, Base, Solo, NEW c \in Cpu, GcStep(c)
  PROVE  Solo'
<1>1. /\ rq.current[c] = GcTask /\ ~halted /\ halted' = halted /\ task_nub' = task_nub
  BY DEF GcStep, gc_len, gc_pop, gc_check, gc_wait, gc_woken, At
<1>2. c = 0 /\ pc[MainTask] = "exit" /\ rq.current[0] = GcTask
  BY <1>1, Alone, Constants
<1>3. rq.state[GcTask] = "Running"
  BY <1>1, Stepper
<1>4. exited \in Seq(Task) /\ Len(exited) \in Nat /\ n \in Nat
  BY Positions DEF Base, Types
<1>5. ASSUME NEW l, l \in GcPc, Goto(GcTask, l)
      PROVE  pc'[GcTask] = l /\ pc'[MainTask] = pc[MainTask]
  BY <1>5, PcStep, Constants
<1>6. CASE gc_len(c)
  <2>1. rq' = rq /\ n' = Len(exited) /\ exited' = exited /\ Goto(GcTask, "pop") /\ "pop" \in GcPc
    BY <1>6 DEF gc_len, GcPc
  <2>2. pc'[GcTask] = "pop" /\ pc'[MainTask] = pc[MainTask]
    BY <1>5, <2>1
  <2> QED BY <1>1, <1>2, <1>3, <2>1, <2>2 DEF Solo
<1>7. CASE gc_pop(c)
  <2>1. /\ rq' = rq /\ n' = n - 1 /\ n > 0 /\ pc[GcTask] = "pop" /\ Goto(GcTask, "check")
        /\ "check" \in GcPc
    BY <1>7 DEF gc_pop, At, GcPc
  <2>2. n = Len(exited)
    BY <2>1 DEF Solo
  <2>3. exited # << >>
    BY <1>4, <2>1, <2>2
  <2>4. popped' = Head(exited) /\ exited' = Tail(exited)
    BY <1>7, <2>3 DEF gc_pop
  <2>5. popped' \in Task /\ Len(exited') = Len(exited) - 1
    BY <1>4, <2>3, <2>4, TailShrinks DEF Shrunk
  <2>6. pc'[GcTask] = "check" /\ pc'[MainTask] = pc[MainTask]
    BY <1>5, <2>1
  <2>7. popped' # None /\ n' = Len(exited')
    BY <2>1, <2>2, <2>5, Constants
  <2> QED BY <1>1, <1>2, <1>3, <2>1, <2>6, <2>7 DEF Solo
<1>8. CASE gc_check(c)
  <2>1. rq' = rq /\ n' = n /\ pc[GcTask] = "check" /\ Goto(GcTask, "pop") /\ "pop" \in GcPc
    BY <1>8 DEF gc_check, At, GcPc
  <2>2. popped # None /\ n = Len(exited)
    BY <2>1 DEF Solo
  <2>3. ~Held(popped)
    BY <1>2, <2>2, PoppedIsFree
  <2>4. exited' = exited
    BY <1>8, <2>3 DEF gc_check
  <2>5. pc'[GcTask] = "pop" /\ pc'[MainTask] = pc[MainTask]
    BY <1>5, <2>1
  <2> QED BY <1>1, <1>2, <1>3, <2>1, <2>2, <2>4, <2>5 DEF Solo
<1>9. CASE gc_wait(c)
  <2>1. /\ n = 0 /\ exited' = exited /\ pc[GcTask] = "pop" /\ Goto(GcTask, "woken")
        /\ "woken" \in GcPc /\ rq' = block_current(rq, c, WAIT_FOR_EXIT)
    BY <1>9 DEF gc_wait, At, GcPc
  <2>2. exited = << >>
    <3>1. Len(exited) = 0
      BY <2>1 DEF Solo
    <3> QED BY <1>4, <3>1
  <2>3. pc'[GcTask] = "woken" /\ pc'[MainTask] = pc[MainTask]
    BY <1>5, <2>1
  <2>4. SameButRunning([rq.state EXCEPT ![GcTask] = "Blocked"], rq'.state)
    <3>1. RQInv(rq) /\ WAIT_FOR_EXIT \in WQ /\ ~is_idle(rq.current[c])
      BY <1>1, Constants DEF Base, Types
    <3> QED BY <1>1, <2>1, <3>1, BlockStep
  <2>5. \A u \in User : rq'.state[u] = "New" <=> rq.state[u] = "New"
    BY <2>4, Constants, RQFacts DEF Base, SameButRunning, Runnable
  <2> QED BY <1>1, <1>2, <2>1, <2>2, <2>3, <2>5 DEF Solo
<1>10. CASE gc_woken(c)
  <2>1. /\ exited' = exited /\ Goto(GcTask, "len") /\ "len" \in GcPc
        /\ rq' = cancel_wait(rq, WAIT_FOR_EXIT, GcTask)
    BY <1>10 DEF gc_woken, GcPc
  <2>2. GcTask \notin rq.in_wait_queue
    BY <1>3 DEF Base, WaitOK
  <2>3. rq' = rq
    BY <2>1, <2>2 DEF cancel_wait
  <2>4. pc'[GcTask] = "len" /\ pc'[MainTask] = pc[MainTask]
    BY <1>5, <2>1
  <2> QED BY <1>1, <1>2, <1>3, <2>1, <2>3, <2>4 DEF Solo
<1> QED BY <1>6, <1>7, <1>8, <1>9, <1>10 DEF GcStep

(* The other tasks: gc is not looking at the list, and main is done.       *)
LEMMA UserSolo ==
  ASSUME LifeAssumption, SMP = 1, Base, Solo, NEW c \in Cpu, ~halted,
         rq.current[c] \notin {MainTask, GcTask}, UNCHANGED << exited, halted, popped >>,
         \A u \in User : rq.state[u] # "New" => rq'.state[u] # "New",
         rq'.state[GcTask] = "Blocked" <=> rq.state[GcTask] = "Blocked",
         pc'[MainTask] = pc[MainTask], pc'[GcTask] = pc[GcTask]
  PROVE  Solo'
<1>1. pc[MainTask] = "exit" /\ pc[GcTask] \notin {"pop", "check"}
  BY Alone
<1> QED BY <1>1 DEF Solo

LEMMA StepSolo ==
  ASSUME LifeAssumption, SMP = 1, Base, Count, Solo, [Next]_vars
  PROVE  Solo'
<1>1. CASE UNCHANGED vars
  BY <1>1 DEF vars, Solo
<1>2. ASSUME NEW c \in Cpu, yield_now(c) PROVE Solo'
  <2>1. /\ rq.current[c] \notin {MainTask, GcTask} /\ ~halted /\ Quiet
        /\ UNCHANGED << exited, halted, popped, pc >>
    BY <1>2, YieldIsQuiet, Constants DEF yield_now
  <2>2. /\ rq'.state[GcTask] = "Blocked" <=> rq.state[GcTask] = "Blocked"
        /\ \A u \in User : rq'.state[u] = "New" <=> rq.state[u] = "New"
    BY <2>1, QuietKeeps, Constants
  <2> QED BY <2>1, <2>2, UserSolo
<1>3. ASSUME NEW c \in Cpu, NEW t \in Task,
             exit_current_task(c, t) \/ remove_tid(c, t) \/ tasksub(c, t)
      PROVE  Solo'
  <2>1. /\ rq.current[c] = t /\ t \in User /\ ~halted /\ rq' = rq
        /\ UNCHANGED << exited, halted, popped >>
        /\ \E l \in {"remove", "sub", "exit"} : Goto(t, l)
    BY <1>3, Labels DEF exit_current_task, remove_tid, tasksub, At
  <2>2. pc'[MainTask] = pc[MainTask] /\ pc'[GcTask] = pc[GcTask]
    BY <2>1, Constants DEF Goto, Base, PcOK
  <2>3. rq.current[c] \notin {MainTask, GcTask}
    BY <2>1, Constants
  <2> QED BY <2>1, <2>2, <2>3, UserSolo
<1>4. ASSUME NEW c \in Cpu, NEW t \in Task, exit_current(c, t) PROVE Solo'
  <2>1. rq.current[c] = t /\ pc[t] = "exit" /\ ~halted
    BY <1>4 DEF exit_current, At
  <2>2. t # GcTask
    BY <2>1 DEF Base, PcOK, GcPc
  <2>3. pc[MainTask] = "exit" /\ pc[GcTask] \notin {"pop", "check"}
    BY <2>1, <2>2, Alone
  <2>4. CASE task_nub = 0
    <3>1. /\ halted' = TRUE /\ exited' = << >> /\ UNCHANGED << rq, task_nub, pc, popped, n >>
      BY <1>4, <2>4 DEF exit_current, Halt
    <3> QED BY <2>3, <2>4, <3>1 DEF Solo
  <2>5. CASE task_nub # 0
    <3>1. /\ UNCHANGED << pc, popped, halted >> /\ rq' = AfterExit(rq, c, WAIT_FOR_EXIT)
      BY <1>4, <2>1, <2>5 DEF exit_current, Leave, AfterExit, Ended
    <3>2. /\ rq'.state[GcTask] # "Blocked"
          /\ \A u \in User : rq.state[u] # "New" => rq'.state[u] # "New"
      BY <2>1, <3>1, LeaveEffect, Constants DEF Runnable
    <3> QED BY <2>1, <2>3, <3>1, <3>2 DEF Solo
  <2> QED BY <2>4, <2>5
<1>5. ASSUME NEW c \in Cpu, MainStep(c) \/ GcStep(c) PROVE Solo'
  BY <1>5, MainSolo, GcSolo
<1> QED BY <1>1, <1>2, <1>3, <1>4, <1>5 DEF Next, ExitStep

LEMMA AlwaysSolo == ASSUME LifeAssumption, SMP = 1 PROVE Spec => [](Base /\ Count /\ Solo)
<1>1. Init => Base /\ Count /\ Solo
  BY InitBase, InitCount, InitSolo
<1>2. Base /\ Count /\ Solo /\ [Next]_vars => (Base /\ Count /\ Solo)'
  BY StepBase, StepCount, StepSolo
<1> QED BY <1>1, <1>2, PTL DEF Spec

(* On one CPU exit_current calls terminate() only when every test case has *)
(* been created and every user task has come to its end.                   *)
THEOREM HaltsWhenDone == ASSUME LifeAssumption, SMP = 1 PROVE Spec => []HaltOnlyWhenDone
<1>1. Base /\ Count /\ Solo => HaltOnlyWhenDone
  <2> SUFFICES ASSUME Base, Count, Solo, halted, NEW t \in User
               PROVE  rq.state[t] # "New" /\ pc[t] = "exit"
    BY DEF HaltOnlyWhenDone
  <2>1. rq.state[t] # "New" /\ task_nub = 0
    BY DEF Solo
  <2>2. Live = {}
    BY <2>1, LiveFinite, FS_EmptySet DEF Count
  <2>3. ~Counted(t)
    BY <2>2 DEF Live
  <2> QED BY <2>1, <2>3 DEF Counted
<1> QED BY <1>1, AlwaysSolo, PTL

(* On one CPU gc does not sleep over work: while it waits on               *)
(* WAIT_FOR_EXIT, EXITED_TASKS is empty.                                   *)
THEOREM GcMissesNoExit == ASSUME LifeAssumption, SMP = 1 PROVE Spec => []Collected
<1>1. Base /\ Count /\ Solo => Collected
  BY DEF Solo, Collected
<1> QED BY <1>1, AlwaysSolo, PTL
=============================================================================

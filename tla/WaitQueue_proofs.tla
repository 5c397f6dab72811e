-------------------------- MODULE WaitQueue_proofs --------------------------
(* Blocking and waking, for any tasks, wait queues and deadlines.  On any  *)
(* number of CPUs: the run queue stays consistent, every Blocked task has  *)
(* someone left to wake it, and no wake-up is missed.  On one CPU: flags   *)
(* and queues agree, a call leaves nothing behind, and no timeout is early.*)
EXTENDS WaitQueue, RunQueue_proofs

-----------------------------------------------------------------------------
(* Numbers.                                                                *)

(* The positions in K, counted from the lowest: the k-th one exists, and   *)
(* different ones have different numbers.                                  *)
Rank(K, i) == Cardinality({j \in K : j <= i})

LEMMA Ranks ==
  ASSUME NEW n \in Nat, NEW K, K \subseteq 1 .. n
  PROVE  /\ IsFiniteSet(K) /\ Cardinality(K) \in Nat
         /\ \A i \in K : Rank(K, i) \in 1 .. Cardinality(K)
         /\ \A i, m \in K : Rank(K, i) = Rank(K, m) => i = m
         /\ \A k \in 1 .. Cardinality(K) : \E i \in K : Rank(K, i) = k
<1> DEFINE Up(i) == {j \in K : j <= i}
<1>0. \A i \in K : i \in Nat
  OBVIOUS
<1>u. \A i, j : j \in Up(i) <=> j \in K /\ j <= i
  OBVIOUS
<1>1. IsFiniteSet(K) /\ Cardinality(K) \in Nat
  <2>1. IsFiniteSet(1 .. n)
    BY FS_Interval
  <2> QED BY <2>1, FS_Subset, FS_CardinalityType
<1>2. \A i \in K : /\ IsFiniteSet(Up(i)) /\ Cardinality(Up(i)) \in Nat
                   /\ Cardinality(Up(i)) <= Cardinality(K) /\ i \in Up(i) /\ Up(i) \subseteq K
  <2> TAKE i \in K
  <2>1. Up(i) \subseteq K /\ i \in Up(i)
    BY <1>0
  <2> HIDE DEF Up
  <2> QED BY <1>1, <2>1, FS_Subset, FS_CardinalityType
<1>3. \A i \in K : Rank(K, i) = Cardinality(Up(i))
  BY DEF Rank
<1>4. \A i \in K : Cardinality(Up(i)) # 0
  <2> TAKE i \in K
  <2> HIDE DEF Up
  <2> QED BY <1>2, FS_EmptySet
<1>5. \A i, m \in K : i < m => Cardinality(Up(i)) < Cardinality(Up(m))
  <2> SUFFICES ASSUME NEW i \in K, NEW m \in K, i < m
               PROVE  Cardinality(Up(i)) < Cardinality(Up(m))
    OBVIOUS
  <2>1. Up(i) \subseteq Up(m) /\ m \notin Up(i) /\ m \in Up(m)
    <3>1. \A j \in K : j <= i => j <= m
      BY <1>0
    <3>2. ~ (m <= i) /\ m <= m
      BY <1>0
    <3> HIDE DEF Up
    <3> QED BY <1>u, <3>1, <3>2
  <2> HIDE DEF Up
  <2> QED BY <1>2, <2>1, FS_Subset
<1>6. \A i, m \in K : Cardinality(Up(i)) = Cardinality(Up(m)) => i = m
  <2> HIDE DEF Up
  <2> SUFFICES ASSUME NEW i \in K, NEW m \in K, i # m, Cardinality(Up(i)) = Cardinality(Up(m))
               PROVE  FALSE
    OBVIOUS
  <2>1. i < m \/ m < i
    BY <1>0
  <2>2. Cardinality(Up(i)) < Cardinality(Up(i))
    BY <1>5, <2>1
  <2> QED BY <1>2, <2>2
<1> DEFINE Bad == {k \in 1 .. Cardinality(K) : \A i \in K : Cardinality(Up(i)) # k}
<1>7. ASSUME Bad # {} PROVE FALSE
  <2>1. PICK b \in Bad : \A k \in Bad : b <= k
    <3>1. Bad \subseteq Nat
      BY <1>1
    <3> HIDE DEF Bad
    <3> QED BY <1>7, <3>1, Least
  <2>2. b \in 1 .. Cardinality(K) /\ \A i \in K : Cardinality(Up(i)) # b
    OBVIOUS
  <2>3. CASE b = 1
    <3>1. K # {} /\ K \subseteq Nat
      BY <1>1, <2>2, <2>3, FS_EmptySet
    <3>2. PICK i \in K : \A j \in K : i <= j
      BY <3>1, Least
    <3>3. Up(i) = {i}
      <4>1. \A j \in K : j <= i <=> j = i
        BY <1>0, <3>2
      <4> HIDE DEF Up
      <4> QED BY <1>u, <4>1
    <3> HIDE DEF Up
    <3>4. Cardinality(Up(i)) = 1
      BY <3>3, FS_Singleton
    <3> QED BY <2>2, <2>3, <3>4
  <2>4. CASE b # 1
    <3>1. b - 1 \in 1 .. Cardinality(K) /\ ~ (b <= b - 1)
      BY <1>1, <2>2, <2>4
    <3>2. b - 1 \notin Bad
      BY <2>1, <3>1
    <3>3. PICK i \in K : Cardinality(Up(i)) = b - 1
      BY <3>1, <3>2
    <3> DEFINE L == {j \in K : j > i}
    <3>4. L # {}
      <4> SUFFICES ASSUME L = {} PROVE FALSE
        OBVIOUS
      <4>0. \A j \in K : j <= i
        BY <1>0
      <4>1. Up(i) = K
        BY <4>0
      <4> QED BY <1>1, <2>2, <3>3, <4>1
    <3>5. PICK m \in L : \A j \in L : m <= j
      <4>1. L \subseteq Nat
        BY <1>0
      <4> HIDE DEF L
      <4> QED BY <3>4, <4>1, Least
    <3>6. m \in K /\ m \notin Up(i) /\ Up(m) = Up(i) \cup {m}
      <4>1. m \in K /\ m > i /\ \A j \in K : j > i => m <= j
        BY <3>5
      <4> HIDE DEF L
      <4>2. \A j \in K : j <= m <=> j <= i \/ j = m
        BY <1>0, <4>1
      <4>3. ~ (m <= i)
        BY <1>0, <4>1
      <4> HIDE DEF Up
      <4> QED BY <1>u, <4>1, <4>2, <4>3
    <3> HIDE DEF Up, L
    <3>7. Cardinality(Up(m)) = Cardinality(Up(i)) + 1
      BY <1>2, <3>6, FS_AddElement
    <3> QED BY <1>1, <2>2, <3>3, <3>6, <3>7
  <2> QED BY <2>3, <2>4
<1> HIDE DEF Up
<1>8. \A k \in 1 .. Cardinality(K) : \E i \in K : Cardinality(Up(i)) = k
  BY <1>7
<1> QED BY <1>1, <1>2, <1>3, <1>4, <1>6, <1>8

-----------------------------------------------------------------------------

(* The variables beside rq have their types.                               *)
Types ==
  /\ timers \in [Task -> [Time -> Nat]]
  /\ in_timer_list \in SUBSET Task
  /\ now \in Time
  /\ irq \in [Cpu -> Task \cup {"none", "check"}]
  /\ call \in [Task -> Call]
  /\ cond \in [WQ -> BOOLEAN]

Base == RQInv(rq) /\ Types /\ BlockedCanWake /\ NoMissedCondition

(* What one CPU adds.  A task is in one queue at most, that of its call,   *)
(* once, and is flagged then; a flagged task that is not Blocked was woken *)
(* by its alarm.                                                           *)
QueueOf(t) ==
  /\ \A p \in WQ : InQueue(rq, p, t) => t \in rq.in_wait_queue /\ p = call[t].q
  /\ t \in rq.in_wait_queue =>
       /\ InQueue(rq, call[t].q, t)
       /\ call[t].pc \in {"until", "woken", "tu_loop", "cancel_wait"}
       /\ rq.state[t] # "Blocked" => call[t].pc # "until" /\ call[t].deadline <= now

(* A task has one alarm at most, for the deadline of its call: set, or in  *)
(* delivery, which it is only when the deadline has passed.                *)
AlarmOf(t) ==
  /\ \A d \in Time : timers[t][d] > 0 =>
       timers[t][d] = 1 /\ d = call[t].deadline /\ \A c \in Cpu : irq[c] # t
  /\ t \in in_timer_list <=> Alarmed(t)
  /\ \A c \in Cpu : irq[c] = t => call[t].deadline <= now
  /\ Alarmed(t) =>
       /\ call[t].pc \notin {"user", "until", "notify_all"}
       /\ call[t].pc = "slept" => rq.state[t] = "Blocked"

(* What a call reports.                                                    *)
ResultOf(t) ==
  /\ call[t].timeout => call[t].deadline <= now
  /\ call[t].pc = "slept" /\ rq.state[t] # "Blocked" => call[t].deadline <= now
  /\ call[t].pc = "user" => call[t] = NoCall

Solo ==
  /\ \A p \in WQ : IsInjective(rq.queue[p])
  /\ \A t \in Task : QueueOf(t) /\ AlarmOf(t) /\ ResultOf(t)
-----------------------------------------------------------------------------
(* What the operations leave of a queue.                                   *)

LEMMA GrownLeaves ==
  ASSUME NEW s \in Seq(Task), NEW t \in Task, NEW r \in Seq(Task), Grown(s, r, t)
  PROVE  /\ ToSet(r) = ToSet(s) \cup {t}
         /\ IsInjective(s) /\ t \notin ToSet(s) => IsInjective(r)
<1>2. /\ Len(s) \in Nat /\ Len(r) = Len(s) + 1 /\ r[Len(s) + 1] = t
      /\ \A i \in 1 .. Len(s) : r[i] = s[i]
  BY DEF Grown
<1>3. \A x : x \in ToSet(r) <=> x \in ToSet(s) \cup {t}
  <2> TAKE x
  <2>1. x \in ToSet(r) <=> \E i \in 1 .. Len(r) : x = r[i]
    BY Positions
  <2>2. x \in ToSet(s) <=> \E i \in 1 .. Len(s) : x = s[i]
    BY Positions
  <2>3. /\ Len(s) + 1 \in 1 .. Len(r) /\ \A i \in 1 .. Len(s) : i \in 1 .. Len(r)
        /\ \A i \in 1 .. Len(r) : i \in 1 .. Len(s) \/ i = Len(s) + 1
    BY <1>2
  <2> QED BY <1>2, <2>1, <2>2, <2>3
<1>4. ASSUME IsInjective(s), t \notin ToSet(s) PROVE IsInjective(r)
  BY <1>4, PushedLeaves
<1> QED BY <1>3, <1>4

LEMMA AppendLeaves ==
  ASSUME NEW s \in Seq(Task), NEW t \in Task, NEW r, r = Append(s, t)
  PROVE  /\ r \in Seq(Task) /\ ToSet(r) = ToSet(s) \cup {t}
         /\ IsInjective(s) /\ t \notin ToSet(s) => IsInjective(r)
<1>1. r \in Seq(Task) /\ Grown(s, r, t)
  BY AppendGrows
<1> QED BY <1>1, GrownLeaves, Zenon

LEMMA ShrunkLeaves ==
  ASSUME NEW s \in Seq(Task), NEW h \in Task, NEW r \in Seq(Task), Shrunk(s, r, h)
  PROVE  /\ h \in ToSet(s)
         /\ \A u : u \in ToSet(s) /\ u # h => u \in ToSet(r)
         /\ IsInjective(s) => IsInjective(r) /\ ToSet(r) = ToSet(s) \ {h}
<1>2. /\ Len(r) = Len(s) - 1 /\ h = s[1] /\ 1 \in 1 .. Len(s) /\ Len(s) \in Nat
      /\ \A i \in 1 .. Len(r) : r[i] = s[i + 1]
  BY DEF Shrunk
<1>3. \A u : u \in ToSet(s) /\ u # h => u \in ToSet(r)
  <2> SUFFICES ASSUME NEW u \in ToSet(s), u # h PROVE u \in ToSet(r)
    OBVIOUS
  <2>1. PICK i \in 1 .. Len(s) : u = s[i]
    BY Positions
  <2>2. i - 1 \in 1 .. Len(r) /\ (i - 1) + 1 = i
    BY <1>2, <2>1
  <2>3. u = r[i - 1]
    BY <1>2, <2>1, <2>2
  <2> QED BY <2>2, <2>3, Positions
<1>4. h \in ToSet(s)
  BY <1>2, Positions
<1>5. ASSUME IsInjective(s) PROVE IsInjective(r) /\ ToSet(r) = ToSet(s) \ {h}
  BY <1>5, PoppedLeaves
<1> QED BY <1>3, <1>4, <1>5

LEMMA TailLeaves ==
  ASSUME NEW s \in Seq(Task), s # << >>, NEW h, h = Head(s), NEW r, r = Tail(s)
  PROVE  /\ r \in Seq(Task) /\ h \in Task /\ h \in ToSet(s)
         /\ \A u : u \in ToSet(s) /\ u # h => u \in ToSet(r)
         /\ IsInjective(s) => IsInjective(r) /\ ToSet(r) = ToSet(s) \ {h}
<1>1. r \in Seq(Task) /\ h \in Task /\ Shrunk(s, r, h)
  BY TailShrinks
<1> QED BY <1>1, ShrunkLeaves, Zenon

LEMMA RemoveFirstLeaves ==
  ASSUME NEW s \in Seq(Task), NEW t, t \in ToSet(s), NEW r, r = RemoveFirstOf(s, t)
  PROVE  /\ r \in Seq(Task)
         /\ \A u : u \in ToSet(s) /\ u # t => u \in ToSet(r)
         /\ IsInjective(s) => IsInjective(r) /\ ToSet(r) = ToSet(s) \ {t}
<1> DEFINE first(i) == i \in DOMAIN s /\ s[i] = t /\ \A j \in DOMAIN s : s[j] = t => i <= j
           k == CHOOSE i \in DOMAIN s : s[i] = t /\ \A j \in DOMAIN s : s[j] = t => i <= j
<1>1. Len(s) \in Nat /\ DOMAIN s = 1 .. Len(s)
  OBVIOUS
<1>2. \E i \in DOMAIN s : s[i] = t /\ \A j \in DOMAIN s : s[j] = t => i <= j
  <2> DEFINE P == {i \in 1 .. Len(s) : s[i] = t}
  <2>1. P # {} /\ P \subseteq Nat
    BY Positions
  <2>2. PICK i \in P : \A j \in P : i <= j
    <3> HIDE DEF P
    <3> QED BY <2>1, Least
  <2> QED BY <1>1, <2>2
<1>3. k \in 1 .. Len(s) /\ s[k] = t
  BY <1>1, <1>2
<1>4. r = RemoveAt(s, k)
  BY DEF RemoveFirstOf, RemoveAt
<1> HIDE DEF k
<1>5. /\ r \in Seq(Task) /\ Len(r) = Len(s) - 1
      /\ \A i \in 1 .. Len(s) - 1 : r[i] = IF i < k THEN s[i] ELSE s[i + 1]
  BY <1>3, <1>4, RemovePosition
<1>6. \A u : u \in ToSet(s) /\ u # t => u \in ToSet(r)
  <2> SUFFICES ASSUME NEW u \in ToSet(s), u # t PROVE u \in ToSet(r)
    OBVIOUS
  <2>1. PICK i \in 1 .. Len(s) : u = s[i]
    BY Positions
  <2>2. i # k
    BY <1>3, <2>1
  <2>3. CASE i < k
    <3>1. i \in 1 .. Len(s) - 1 /\ i \in 1 .. Len(r)
      BY <1>1, <1>3, <1>5, <2>3
    <3>2. u = r[i]
      BY <1>5, <2>1, <2>3, <3>1
    <3> QED BY <1>5, <3>1, <3>2, Positions
  <2>4. CASE i > k
    <3>1. i - 1 \in 1 .. Len(s) - 1 /\ i - 1 \in 1 .. Len(r) /\ ~ (i - 1 < k) /\ (i - 1) + 1 = i
      BY <1>1, <1>3, <1>5, <2>4
    <3>2. u = r[i - 1]
      BY <1>5, <2>1, <3>1
    <3> QED BY <1>5, <3>1, <3>2, Positions
  <2> QED BY <1>1, <1>3, <2>2, <2>3, <2>4
<1>7. IsInjective(s) => IsInjective(r) /\ ToSet(r) = ToSet(s) \ {t}
  BY <1>3, <1>4, RemoveLeaves
<1> QED BY <1>5, <1>6, <1>7

LEMMA WithoutLeaves ==
  ASSUME NEW s \in Seq(Task), NEW t, NEW r, r = Without(s, t)
  PROVE  /\ r \in Seq(Task) /\ ToSet(r) = ToSet(s) \ {t}
         /\ IsInjective(s) => IsInjective(r)
<1> DEFINE K == {i \in 1 .. Len(s) : s[i] # t}
           n == Cardinality(K)
           kth(k) == CHOOSE i \in K : Rank(K, i) = k
<1>1. Len(s) \in Nat /\ DOMAIN s = 1 .. Len(s)
  OBVIOUS
<1>2. /\ n \in Nat
      /\ \A i \in K : Rank(K, i) \in 1 .. n
      /\ \A i, m \in K : Rank(K, i) = Rank(K, m) => i = m
      /\ \A k \in 1 .. n : \E i \in K : Rank(K, i) = k
  <2>1. K \subseteq 1 .. Len(s)
    OBVIOUS
  <2> HIDE DEF K
  <2> QED BY <1>1, <2>1, Ranks
<1>3. \A k \in 1 .. n : kth(k) \in K /\ Rank(K, kth(k)) = k
  <2> HIDE DEF K, n
  <2> QED BY <1>2
<1>4. r = [k \in 1 .. n |-> s[kth(k)]]
  BY <1>1 DEF Without, Rank
<1>5. \A i \in K : i \in 1 .. Len(s) /\ s[i] # t
  OBVIOUS
<1>6. \A i \in 1 .. Len(s) : s[i] # t => i \in K
  OBVIOUS
<1> HIDE DEF K, n, kth
<1>7. /\ r \in Seq(Task) /\ Len(r) = n
      /\ \A k \in 1 .. n : r[k] = s[kth(k)]
  <2>1. r \in [1 .. n -> Task]
    BY <1>3, <1>4, <1>5
  <2> QED BY <1>2, <1>4, <2>1
<1>8. ASSUME NEW u PROVE u \in ToSet(r) <=> u \in ToSet(s) \ {t}
  <2>1. u \in ToSet(r) <=> \E k \in 1 .. n : u = r[k]
    BY <1>7, Positions
  <2>2. u \in ToSet(s) <=> \E i \in 1 .. Len(s) : u = s[i]
    BY Positions
  <2>3. ASSUME u \in ToSet(r) PROVE u \in ToSet(s) \ {t}
    <3>1. PICK k \in 1 .. n : u = r[k]
      BY <2>1, <2>3
    <3>2. u = s[kth(k)] /\ kth(k) \in 1 .. Len(s) /\ s[kth(k)] # t
      BY <1>3, <1>5, <1>7, <3>1
    <3> QED BY <2>2, <3>2
  <2>4. ASSUME u \in ToSet(s), u # t PROVE u \in ToSet(r)
    <3>1. PICK i \in 1 .. Len(s) : u = s[i]
      BY <2>2, <2>4
    <3>2. i \in K /\ Rank(K, i) \in 1 .. n
      BY <1>2, <1>6, <2>4, <3>1
    <3>3. kth(Rank(K, i)) = i
      BY <1>2, <1>3, <3>2
    <3> QED BY <1>7, <2>1, <3>1, <3>2, <3>3
  <2> QED BY <2>3, <2>4
<1>9. ASSUME IsInjective(s) PROVE IsInjective(r)
  <2>1. \A i, j \in 1 .. Len(s) : s[i] = s[j] => i = j
    BY <1>9, Positions
  <2>2. \A k, m \in 1 .. n : r[k] = r[m] => k = m
    BY <1>3, <1>5, <1>7, <2>1
  <2> QED BY <1>7, <2>2, Positions
<1> QED BY <1>7, <1>8, <1>9
-----------------------------------------------------------------------------
(* What the operations on the record do to flags, queues and Blocked tasks.*)

SameWaits(a, b) == b.queue = a.queue /\ b.in_wait_queue = a.in_wait_queue

SameBlocked(a, b) ==
  \A u \in Task : b.state[u] = "Blocked" <=> a.state[u] = "Blocked"

SameBlockedBut(a, b, t) ==
  \A u \in Task : u # t => (b.state[u] = "Blocked" <=> a.state[u] = "Blocked")

(* An entry of t is taken out of queue q, and its flag is cleared.         *)
Dequeued(a, b, q, t) ==
  /\ b.in_wait_queue = a.in_wait_queue \ {t}
  /\ \A p \in WQ : p # q => b.queue[p] = a.queue[p]
  /\ \A u : u \in ToSet(a.queue[q]) /\ u # t => u \in ToSet(b.queue[q])
  /\ IsInjective(a.queue[q]) =>
       IsInjective(b.queue[q]) /\ ToSet(b.queue[q]) = ToSet(a.queue[q]) \ {t}

LEMMA SpawnOp ==
  ASSUME NEW a, RQInv(a), NEW t \in Task, a.state[t] = "New", NEW b, b = add_task(a, t)
  PROVE  RQInv(b) /\ SameWaits(a, b) /\ SameBlocked(a, b)
<1>1. RQType(a) /\ a.state \in [Task -> TaskState]
  BY Fields DEF RQInv
<1>2. RQInv(b)
  BY AddTaskInv
<1>3. /\ b.state = [a.state EXCEPT ![t] = "Ready"]
      /\ b.queue = a.queue /\ b.in_wait_queue = a.in_wait_queue
  BY <1>1, AddTaskEffect
<1>4. SameBlocked(a, b)
  BY <1>1, <1>3 DEF SameBlocked
<1> QED BY <1>2, <1>3, <1>4 DEF SameWaits

LEMMA YieldOp ==
  ASSUME NEW a, RQInv(a), NEW c \in Cpu, NEW b, b = yield_current(a, c)
  PROVE  RQInv(b) /\ SameWaits(a, b) /\ SameBlocked(a, b)
<1>1. /\ RQInv(b) /\ b.queue = a.queue /\ b.in_wait_queue = a.in_wait_queue
      /\ SameButRunning(a.state, b.state)
  BY YieldStep
<1> QED BY <1>1 DEF SameWaits, SameBlocked, SameButRunning, Runnable

LEMMA UnblockOp ==
  ASSUME NEW a, RQInv(a), NEW t \in Task, NEW b, b = unblock_task(a, t)
  PROVE  /\ RQInv(b) /\ SameWaits(a, b) /\ SameBlockedBut(a, b, t)
         /\ b.state[t] # "Blocked"
<1>1. RQType(a) /\ a.state \in [Task -> TaskState]
  BY Fields DEF RQInv
<1>2. RQInv(b)
  BY UnblockInv
<1>3. /\ b.state = Woken(a.state, t)
      /\ b.queue = a.queue /\ b.in_wait_queue = a.in_wait_queue
  BY <1>1, UnblockWoken
<1>4. SameBlockedBut(a, b, t) /\ b.state[t] # "Blocked"
  <2>1. \A u \in Task : u # t => Woken(a.state, t)[u] = a.state[u]
    BY <1>1 DEF Woken
  <2>2. Woken(a.state, t)[t] # "Blocked"
    BY <1>1 DEF Woken
  <2> QED BY <1>3, <2>1, <2>2 DEF SameBlockedBut
<1> QED BY <1>2, <1>3, <1>4 DEF SameWaits

(* The current task t becomes Blocked, and another one runs.               *)
BlocksOnly(a, b, t) ==
  /\ t \in Task /\ a.state[t] = "Running" /\ b.state[t] = "Blocked"
  /\ SameBlockedBut(a, b, t)

LEMMA BlockOp ==
  ASSUME NEW a, RQInv(a), NEW c \in Cpu, NEW q \in WQ, NEW t, t = a.current[c],
         ~is_idle(t), NEW b, b = block_current(a, c, q)
  PROVE  RQInv(b) /\ Enqueued(a, b, q, t) /\ BlocksOnly(a, b, t)
<1> DEFINE s == [a.state EXCEPT ![t] = "Blocked"]
<1>1. /\ RQInv(b) /\ Enqueued(a, b, q, t) /\ SameButRunning(s, b.state)
      /\ a.state[t] = "Running" /\ t \in Task
  BY BlockStep
<1>2. s[t] = "Blocked" /\ \A u \in Task : u # t => s[u] = a.state[u]
  BY <1>1, Fields DEF RQInv
<1> HIDE DEF s
<1>3. b.state[t] = "Blocked" /\ SameBlockedBut(a, b, t)
  BY <1>1, <1>2 DEF SameBlockedBut, SameButRunning, Runnable
<1> QED BY <1>1, <1>3 DEF BlocksOnly

LEMMA SleepOp ==
  ASSUME NEW a, RQInv(a), NEW c \in Cpu, NEW t, t = a.current[c],
         ~is_idle(t), NEW b, b = sleep_current(a, c)
  PROVE  RQInv(b) /\ SameWaits(a, b) /\ BlocksOnly(a, b, t)
<1> DEFINE s == [a.state EXCEPT ![t] = "Blocked"]
           m == [a EXCEPT !.state = s]
<1>1. /\ a.state \in [Task -> TaskState] /\ a.current \in [Cpu -> Task] /\ RQType(a)
  BY Fields DEF RQInv
<1>2. t \in Task /\ a.state[t] = "Running"
  BY <1>1 DEF RQInv, CurrentOK
<1>3. s \in [Task -> TaskState] /\ s[t] = "Blocked" /\ \A u \in Task : u # t => s[u] = a.state[u]
  BY <1>1, <1>2 DEF TaskState
<1>4. b = resched(m, c)
  BY DEF sleep_current
<1>5. /\ RQType(m) /\ m.state = s /\ m.ready = a.ready /\ m.current = a.current
      /\ m.queue = a.queue /\ m.in_wait_queue = a.in_wait_queue
  <2> HIDE DEF s
  <2> QED BY <1>1, <1>3 DEF RQType
<1>6. MidInv(m, c)
  <2> HIDE DEF m
  <2> QED BY <1>5, StopMid
<1> HIDE DEF m, s
<1>7. RQInv(b)
  BY <1>4, <1>6, ReschedInv
<1>8. /\ b.queue = m.queue /\ b.in_wait_queue = m.in_wait_queue
      /\ SameButRunning(m.state, b.state)
  BY <1>4, <1>6, ReschedEffect
<1>9. b.state[t] = "Blocked" /\ SameBlockedBut(a, b, t)
  BY <1>2, <1>3, <1>5, <1>8 DEF SameBlockedBut, SameButRunning, Runnable
<1> QED BY <1>2, <1>5, <1>7, <1>8, <1>9 DEF BlocksOnly, SameWaits

(* Taking t out of queue q and waking it.                                  *)
LEMMA TakeOut ==
  ASSUME NEW a, RQInv(a), NEW q \in WQ, NEW t \in Task, NEW s \in Seq(Task),
         NEW m, m = remove_from_wait_queue([a EXCEPT !.queue[q] = s], t)
  PROVE  /\ RQInv(m) /\ m.state = a.state
         /\ m.in_wait_queue = a.in_wait_queue \ {t}
         /\ m.queue[q] = s /\ \A p \in WQ : p # q => m.queue[p] = a.queue[p]
<1> DEFINE u == [a.queue EXCEPT ![q] = s]
           w == a.in_wait_queue \ {t}
           x == [a EXCEPT !.queue = u, !.in_wait_queue = w]
<1>1. a.queue \in [WQ -> Seq(Task)] /\ a.in_wait_queue \in SUBSET Task
  BY Fields DEF RQInv
<1>2. /\ u \in [WQ -> Seq(Task)] /\ w \in SUBSET Task
      /\ u[q] = s /\ \A p \in WQ : p # q => u[p] = a.queue[p]
  BY <1>1
<1>3. m = x
  BY DEF remove_from_wait_queue, RQInv, RQType
<1> HIDE DEF u, w
<1>4. /\ RQType(x) /\ x.queue = u /\ x.in_wait_queue = w
      /\ x.state = a.state /\ x.ready = a.ready /\ x.current = a.current
  BY <1>2 DEF RQInv, RQType
<1> HIDE DEF x
<1>5. RQInv(x)
  BY <1>4, SameRunQueue
<1> QED BY <1>2, <1>3, <1>4, <1>5 DEF w
LEMMA NotifyOneOp ==
  ASSUME NEW a, RQInv(a), NEW q \in WQ, a.queue[q] # << >>, NEW t, t = Head(a.queue[q]),
         NEW b, b = notify_one_locked(a, q)
  PROVE  /\ RQInv(b) /\ t \in Task /\ Dequeued(a, b, q, t) /\ SameBlockedBut(a, b, t)
         /\ b.state[t] # "Blocked" /\ t \in ToSet(a.queue[q])
<1> DEFINE s == Tail(a.queue[q])
           m == remove_from_wait_queue([a EXCEPT !.queue[q] = s], t)
<1>1. a.queue[q] \in Seq(Task)
  BY Fields DEF RQInv
<1>2. /\ s \in Seq(Task) /\ t \in Task /\ t \in ToSet(a.queue[q])
      /\ \A u : u \in ToSet(a.queue[q]) /\ u # t => u \in ToSet(s)
      /\ IsInjective(a.queue[q]) => IsInjective(s) /\ ToSet(s) = ToSet(a.queue[q]) \ {t}
  <2> DEFINE z == a.queue[q]
  <2>1. z \in Seq(Task) /\ z # << >> /\ t = Head(z) /\ s = Tail(z)
    BY <1>1
  <2> HIDE DEF s, z
  <2>2. /\ s \in Seq(Task) /\ t \in Task /\ t \in ToSet(z)
        /\ \A u : u \in ToSet(z) /\ u # t => u \in ToSet(s)
        /\ IsInjective(z) => IsInjective(s) /\ ToSet(s) = ToSet(z) \ {t}
    BY <2>1, TailLeaves
  <2> QED BY <2>2 DEF z
<1>3. b = unblock_task(m, t)
  BY Zenon DEF notify_one_locked
<1> HIDE DEF s
<1>4. /\ RQInv(m) /\ m.state = a.state
      /\ m.in_wait_queue = a.in_wait_queue \ {t}
      /\ m.queue[q] = s /\ \A p \in WQ : p # q => m.queue[p] = a.queue[p]
  BY <1>2, TakeOut
<1> HIDE DEF m
<1>5. /\ RQInv(b) /\ SameWaits(m, b) /\ SameBlockedBut(m, b, t) /\ b.state[t] # "Blocked"
  BY <1>2, <1>3, <1>4, UnblockOp
<1>6. SameBlockedBut(a, b, t)
  BY <1>4, <1>5 DEF SameBlockedBut
<1>7. Dequeued(a, b, q, t)
  BY <1>2, <1>4, <1>5 DEF Dequeued, SameWaits
<1> QED BY <1>2, <1>5, <1>6, <1>7

LEMMA InQueueSet ==
  ASSUME NEW a, RQInv(a), NEW q \in WQ, NEW t
  PROVE  InQueue(a, q, t) <=> t \in ToSet(a.queue[q])
<1>1. a.queue[q] \in Seq(Task)
  BY Fields DEF RQInv
<1>2. t \in ToSet(a.queue[q]) <=> \E i \in 1 .. Len(a.queue[q]) : t = a.queue[q][i]
  BY <1>1, Positions
<1>3. DOMAIN a.queue[q] = 1 .. Len(a.queue[q])
  BY <1>1
<1> QED BY <1>2, <1>3 DEF InQueue

LEMMA NotifyTaskOp ==
  ASSUME NEW a, RQInv(a), NEW q \in WQ, NEW t \in Task, InQueue(a, q, t),
         NEW b, b = notify_task(a, q, t)
  PROVE  /\ RQInv(b) /\ Dequeued(a, b, q, t) /\ SameBlockedBut(a, b, t)
         /\ b.state[t] # "Blocked" /\ t \in ToSet(a.queue[q])
<1> DEFINE s == RemoveFirstOf(a.queue[q], t)
           m == remove_from_wait_queue([a EXCEPT !.queue[q] = s], t)
<1>1. a.queue[q] \in Seq(Task) /\ a.queue \in [WQ -> Seq(Task)]
  BY Fields DEF RQInv
<1>2. t \in ToSet(a.queue[q])
  BY InQueueSet
<1>3. /\ s \in Seq(Task)
      /\ \A u : u \in ToSet(a.queue[q]) /\ u # t => u \in ToSet(s)
      /\ IsInjective(a.queue[q]) => IsInjective(s) /\ ToSet(s) = ToSet(a.queue[q]) \ {t}
  BY <1>1, <1>2, RemoveFirstLeaves
<1>4. b = unblock_task(m, t)
  BY Zenon DEF notify_task
<1> HIDE DEF s
<1>5. /\ RQInv(m) /\ m.state = a.state
      /\ m.in_wait_queue = a.in_wait_queue \ {t}
      /\ m.queue[q] = s /\ \A p \in WQ : p # q => m.queue[p] = a.queue[p]
  BY <1>3, TakeOut
<1> HIDE DEF m
<1>6. /\ RQInv(b) /\ SameWaits(m, b) /\ SameBlockedBut(m, b, t) /\ b.state[t] # "Blocked"
  BY <1>4, <1>5, UnblockOp
<1>7. SameBlockedBut(a, b, t)
  BY <1>5, <1>6 DEF SameBlockedBut
<1>8. Dequeued(a, b, q, t)
  BY <1>3, <1>5, <1>6 DEF Dequeued, SameWaits
<1> QED BY <1>2, <1>6, <1>7, <1>8

LEMMA CancelOp ==
  ASSUME NEW a, RQInv(a), NEW q \in WQ, NEW t \in Task, t \in a.in_wait_queue,
         NEW b, b = cancel_wait(a, q, t)
  PROVE  RQInv(b) /\ Dequeued(a, b, q, t) /\ SameBlocked(a, b)
<1> DEFINE s == Without(a.queue[q], t)
           m == remove_from_wait_queue([a EXCEPT !.queue[q] = s], t)
<1>1. a.queue[q] \in Seq(Task)
  BY Fields DEF RQInv
<1>2. /\ s \in Seq(Task) /\ ToSet(s) = ToSet(a.queue[q]) \ {t}
      /\ IsInjective(a.queue[q]) => IsInjective(s)
  BY <1>1, WithoutLeaves
<1>3. b = m
  BY Zenon DEF cancel_wait
<1> HIDE DEF s
<1>4. /\ RQInv(m) /\ m.state = a.state
      /\ m.in_wait_queue = a.in_wait_queue \ {t}
      /\ m.queue[q] = s /\ \A p \in WQ : p # q => m.queue[p] = a.queue[p]
  BY <1>2, TakeOut
<1> HIDE DEF m
<1> QED BY <1>2, <1>3, <1>4 DEF Dequeued, SameBlocked
-----------------------------------------------------------------------------
(* A step of task t changes its own call only.                             *)
OnlyCall(t) ==
  call' \in [Task -> Call] /\ \A u \in Task : u # t => call'[u] = call[u]

LEMMA NoCallIn == NoCall \in Call /\ NoCall.pc = "user" /\ NoCall.deadline = 0 /\ ~ NoCall.timeout
<1>1. (CHOOSE q \in WQ : TRUE) \in WQ
  BY ClientAssumption
<1>2. 0 \in Time
  BY ClientAssumption DEF Time
<1> QED BY <1>1, <1>2 DEF NoCall, Call, Pc

LEMMA WholeCall ==
  ASSUME Types, NEW t \in Task, NEW f \in Call, call' = [call EXCEPT ![t] = f]
  PROVE  OnlyCall(t) /\ call'[t] = f
BY DEF Types, OnlyCall

LEMMA GotoCall ==
  ASSUME Types, NEW t \in Task, NEW l \in Pc, call' = [call EXCEPT ![t].pc = l]
  PROVE  /\ OnlyCall(t) /\ call'[t].pc = l /\ call'[t].q = call[t].q
         /\ call'[t].deadline = call[t].deadline /\ call'[t].timeout = call[t].timeout
<1> DEFINE f == [call[t] EXCEPT !.pc = l]
<1>1. call[t] \in Call
  BY DEF Types
<1>2. /\ f \in Call /\ f.pc = l /\ f.q = call[t].q /\ f.deadline = call[t].deadline
      /\ f.timeout = call[t].timeout
  BY <1>1 DEF Call
<1>3. call' = [call EXCEPT ![t] = f]
  OBVIOUS
<1> HIDE DEF f
<1>4. OnlyCall(t) /\ call'[t] = f
  BY <1>2, <1>3, WholeCall
<1> QED BY <1>2, <1>4

LEMMA QueueCall ==
  ASSUME Types, NEW t \in Task, NEW l \in Pc, NEW q \in WQ,
         call' = [call EXCEPT ![t].pc = l, ![t].q = q]
  PROVE  /\ OnlyCall(t) /\ call'[t].pc = l /\ call'[t].q = q
         /\ call'[t].deadline = call[t].deadline /\ call'[t].timeout = call[t].timeout
<1> DEFINE f == [call[t] EXCEPT !.pc = l, !.q = q]
<1>1. call[t] \in Call
  BY DEF Types
<1>2. /\ f \in Call /\ f.pc = l /\ f.q = q /\ f.deadline = call[t].deadline
      /\ f.timeout = call[t].timeout
  BY <1>1 DEF Call
<1>3. call' = [call EXCEPT ![t] = f]
  BY DEF Types
<1> HIDE DEF f
<1>4. OnlyCall(t) /\ call'[t] = f
  BY <1>2, <1>3, WholeCall
<1> QED BY <1>2, <1>4

LEMMA DeadlineCall ==
  ASSUME Types, NEW t \in Task, NEW l \in Pc, NEW d \in Time,
         call' = [call EXCEPT ![t].pc = l, ![t].deadline = d]
  PROVE  /\ OnlyCall(t) /\ call'[t].pc = l /\ call'[t].q = call[t].q
         /\ call'[t].deadline = d /\ call'[t].timeout = call[t].timeout
<1> DEFINE f == [call[t] EXCEPT !.pc = l, !.deadline = d]
<1>1. call[t] \in Call
  BY DEF Types
<1>2. /\ f \in Call /\ f.pc = l /\ f.q = call[t].q /\ f.deadline = d
      /\ f.timeout = call[t].timeout
  BY <1>1 DEF Call
<1>3. call' = [call EXCEPT ![t] = f]
  BY DEF Types
<1> HIDE DEF f
<1>4. OnlyCall(t) /\ call'[t] = f
  BY <1>2, <1>3, WholeCall
<1> QED BY <1>2, <1>4

LEMMA ResultCall ==
  ASSUME Types, NEW t \in Task, NEW l \in Pc, NEW b \in BOOLEAN,
         call' = [call EXCEPT ![t].pc = l, ![t].timeout = b]
  PROVE  /\ OnlyCall(t) /\ call'[t].pc = l /\ call'[t].q = call[t].q
         /\ call'[t].deadline = call[t].deadline /\ call'[t].timeout = b
<1> DEFINE f == [call[t] EXCEPT !.pc = l, !.timeout = b]
<1>1. call[t] \in Call
  BY DEF Types
<1>2. /\ f \in Call /\ f.pc = l /\ f.q = call[t].q /\ f.deadline = call[t].deadline
      /\ f.timeout = b
  BY <1>1 DEF Call
<1>3. call' = [call EXCEPT ![t] = f]
  BY DEF Types
<1> HIDE DEF f
<1>4. OnlyCall(t) /\ call'[t] = f
  BY <1>2, <1>3, WholeCall
<1> QED BY <1>2, <1>4

-----------------------------------------------------------------------------
(* The invariant for any number of CPUs, step by step.                     *)

(* A task that stays Blocked keeps its call, its entries and its alarm;    *)
(* one that becomes Blocked has something to wake it, and what it waits    *)
(* for is not there yet.                                                   *)
Stays(u) ==
  /\ rq.state[u] = "Blocked" /\ call'[u] = call[u]
  /\ \A q \in WQ : InQueue(rq, q, u) => InQueue(rq', q, u)
  /\ Alarmed(u) => Alarmed(u)'

Blocks(u) ==
  /\ IF call'[u].pc = "slept" THEN Alarmed(u)' ELSE InQueue(rq', call'[u].q, u)
  /\ call'[u].pc \in {"until", "tu_loop"} => ~ cond'[call'[u].q]

(* A notifier goes on until its queue is empty; a condition comes with one.*)
NotifiersKept ==
  /\ \A u \in Task : call[u].pc = "notify_all" =>
       call'[u] = call[u] \/ \A v \in Task : ~ InQueue(rq, call[u].q, v)
  /\ \A q \in WQ : cond'[q] =>
       cond[q] \/ \E u \in Task : call'[u].pc = "notify_all" /\ call'[u].q = q

LEMMA BaseKept ==
  ASSUME Base, RQInv(rq'), Types',
         \A u \in Task : rq'.state[u] = "Blocked" => Stays(u) \/ Blocks(u),
         NotifiersKept
  PROVE  Base'
<1>1. BlockedCanWake'
  <2> SUFFICES ASSUME NEW t \in Task, rq'.state[t] = "Blocked"
               PROVE  IF call'[t].pc = "slept" THEN Alarmed(t)' ELSE InQueue(rq', call'[t].q, t)
    BY DEF BlockedCanWake
  <2>1. CASE Stays(t)
    <3>1. IF call[t].pc = "slept" THEN Alarmed(t) ELSE InQueue(rq, call[t].q, t)
      BY <2>1 DEF Base, BlockedCanWake, Stays
    <3>2. call[t].q \in WQ
      BY DEF Base, Types, Call
    <3> QED BY <2>1, <3>1, <3>2 DEF Stays
  <2>2. CASE Blocks(t)
    BY <2>2 DEF Blocks
  <2> QED BY <2>1, <2>2
<1>2. NoMissedCondition'
  <2> SUFFICES ASSUME NEW t \in Task, rq'.state[t] = "Blocked",
                      call'[t].pc \in {"until", "tu_loop"}, cond'[call'[t].q]
               PROVE  \E u \in Task : call'[u].pc = "notify_all" /\ call'[u].q = call'[t].q
    BY DEF NoMissedCondition
  <2>1. Stays(t)
    BY DEF Blocks
  <2>2. /\ rq.state[t] = "Blocked" /\ call'[t] = call[t] /\ call[t].q \in WQ
        /\ call[t].pc \in {"until", "tu_loop"}
    BY <2>1 DEF Stays, Base, Types, Call
  <2>3. CASE cond[call[t].q]
    <3>1. PICK u \in Task : call[u].pc = "notify_all" /\ call[u].q = call[t].q
      BY <2>2, <2>3 DEF Base, NoMissedCondition
    <3>2. InQueue(rq, call[t].q, t)
      BY <2>2 DEF Base, BlockedCanWake
    <3>3. call'[u] = call[u]
      BY <3>1, <3>2 DEF NotifiersKept
    <3> QED BY <2>2, <3>1, <3>3
  <2>4. CASE ~ cond[call[t].q]
    BY <2>2, <2>4 DEF NotifiersKept
  <2> QED BY <2>3, <2>4
<1> QED BY <1>1, <1>2 DEF Base
LEMMA SameEntries ==
  ASSUME NEW a, NEW b, SameWaits(a, b), NEW q, NEW u
  PROVE  InQueue(b, q, u) <=> InQueue(a, q, u)
BY DEF SameWaits, InQueue

LEMMA EnqueuedEntries ==
  ASSUME NEW a, RQInv(a), NEW b, RQInv(b), NEW q \in WQ, NEW t \in Task, Enqueued(a, b, q, t)
  PROVE  /\ \A p \in WQ : \A u : InQueue(b, p, u) <=> InQueue(a, p, u) \/ (p = q /\ u = t)
         /\ ~ InQueue(a, q, t) /\ IsInjective(a.queue[q]) => IsInjective(b.queue[q])
         /\ \A p \in WQ : p # q => b.queue[p] = a.queue[p]
<1>1. a.queue \in [WQ -> Seq(Task)]
  BY Fields DEF RQInv
<1>2. /\ b.queue[q] = Append(a.queue[q], t) /\ a.queue[q] \in Seq(Task)
      /\ \A p \in WQ : p # q => b.queue[p] = a.queue[p]
  BY <1>1 DEF Enqueued
<1>3. /\ ToSet(b.queue[q]) = ToSet(a.queue[q]) \cup {t}
      /\ IsInjective(a.queue[q]) /\ t \notin ToSet(a.queue[q]) => IsInjective(b.queue[q])
  BY <1>2, AppendLeaves
<1>4. \A p \in WQ : \A u : /\ InQueue(a, p, u) <=> u \in ToSet(a.queue[p])
                           /\ InQueue(b, p, u) <=> u \in ToSet(b.queue[p])
  BY InQueueSet
<1> QED BY <1>2, <1>3, <1>4

LEMMA DequeuedEntries ==
  ASSUME NEW a, RQInv(a), NEW b, RQInv(b), NEW q \in WQ, NEW t, Dequeued(a, b, q, t)
  PROVE  /\ \A p \in WQ : \A u : u # t /\ InQueue(a, p, u) => InQueue(b, p, u)
         /\ IsInjective(a.queue[q]) =>
              /\ \A p \in WQ : \A u : InQueue(b, p, u) <=> InQueue(a, p, u) /\ ~ (p = q /\ u = t)
              /\ IsInjective(b.queue[q])
<1>1. \A p \in WQ : \A u : /\ InQueue(a, p, u) <=> u \in ToSet(a.queue[p])
                           /\ InQueue(b, p, u) <=> u \in ToSet(b.queue[p])
  BY InQueueSet
<1> QED BY <1>1 DEF Dequeued

(* Task t runs on CPU c, which serves no interrupt.                        *)
Acts(c, t) ==
  /\ t = rq.current[c] /\ t \in Task /\ ~ is_idle(t) /\ irq[c] = "none"
  /\ rq.state[t] = "Running"

LEMMA Actor ==
  ASSUME Base, NEW c \in Cpu, NEW l, At(c, l)
  PROVE  Acts(c, rq.current[c]) /\ call[rq.current[c]].pc = l
<1>1. rq.current \in [Cpu -> Task] /\ CurrentOK(rq)
  BY Fields DEF Base, RQInv
<1>2. rq.current[c] \in Task /\ rq.state[rq.current[c]] = "Running"
  BY <1>1 DEF CurrentOK
<1> QED BY <1>2 DEF At, Acts

LEMMA CallFields ==
  ASSUME Types, NEW t \in Task
  PROVE  /\ call[t].pc \in Pc /\ call[t].q \in WQ /\ call[t].deadline \in Time
         /\ call[t].timeout \in BOOLEAN
BY DEF Types, Call

(* Nothing about timers and conditions changes.                            *)
Quiet == UNCHANGED << timers, in_timer_list, now, irq, cond >>

LEMMA QuietAlarm ==
  ASSUME timers' = timers, irq' = irq, NEW u
  PROVE  Alarmed(u)' <=> Alarmed(u)
BY DEF Alarmed

LEMMA QuietTypes ==
  ASSUME Types, Quiet, call' \in [Task -> Call]
  PROVE  Types'
BY DEF Types, Quiet

(* A step of a running task t.                                             *)
LEMMA BaseStep ==
  ASSUME Base, NEW t \in Task, rq.state[t] # "Blocked", OnlyCall(t), RQInv(rq'), Types',
         \A u \in Task : u # t /\ rq'.state[u] = "Blocked" =>
           /\ rq.state[u] = "Blocked"
           /\ \A q \in WQ : InQueue(rq, q, u) => InQueue(rq', q, u)
           /\ Alarmed(u) => Alarmed(u)',
         rq'.state[t] = "Blocked" => Blocks(t),
         call[t].pc = "notify_all" =>
           call'[t] = call[t] \/ \A v \in Task : ~ InQueue(rq, call[t].q, v),
         \A q \in WQ : cond'[q] =>
           cond[q] \/ \E u \in Task : call'[u].pc = "notify_all" /\ call'[u].q = q
  PROVE  Base'
<1>1. NotifiersKept
  BY DEF NotifiersKept, OnlyCall
<1>2. \A u \in Task : rq'.state[u] = "Blocked" => Stays(u) \/ Blocks(u)
  BY DEF OnlyCall, Stays
<1> QED BY <1>1, <1>2, BaseKept

(* yield_now, spawn.                                                       *)
LEMMA PassiveBase ==
  ASSUME Base, RQInv(rq'), SameWaits(rq, rq'), SameBlocked(rq, rq'), Quiet, call' = call
  PROVE  Base'
<1>1. Types'
  BY QuietTypes DEF Base, Types
<1>2. NotifiersKept
  BY DEF NotifiersKept, Quiet
<1>3. ASSUME NEW u \in Task, rq'.state[u] = "Blocked" PROVE Stays(u)
  <2>1. \A q \in WQ : InQueue(rq, q, u) => InQueue(rq', q, u)
    BY SameEntries
  <2>2. Alarmed(u) => Alarmed(u)'
    BY QuietAlarm DEF Quiet
  <2> QED BY <1>3, <2>1, <2>2 DEF Stays, SameBlocked
<1> QED BY <1>1, <1>2, <1>3, BaseKept

(* notify_one, notify_task, a turn of notify_all: h is woken.              *)
LEMMA WakingBase ==
  ASSUME Base, RQInv(rq'), NEW h, SameBlockedBut(rq, rq', h), rq'.state[h] # "Blocked",
         \A q \in WQ : \A u : u # h /\ InQueue(rq, q, u) => InQueue(rq', q, u),
         Quiet, call' = call
  PROVE  Base'
<1>1. Types'
  BY QuietTypes DEF Base, Types
<1>2. NotifiersKept
  BY DEF NotifiersKept, Quiet
<1>3. ASSUME NEW u \in Task, rq'.state[u] = "Blocked" PROVE Stays(u)
  <2>1. u # h
    BY <1>3
  <2>2. Alarmed(u) => Alarmed(u)'
    BY QuietAlarm DEF Quiet
  <2> QED BY <1>3, <2>1, <2>2 DEF Stays, SameBlockedBut
<1> QED BY <1>1, <1>2, <1>3, BaseKept

(* What a call becomes.                                                    *)
Becomes(t, l, q, d, b) ==
  /\ OnlyCall(t) /\ call'[t].pc = l /\ call'[t].q = q
  /\ call'[t].deadline = d /\ call'[t].timeout = b

(* The current task blocks in queue q and will resume at l.                *)
Blocking(c, t, l, q) ==
  /\ Acts(c, t) /\ RQInv(rq') /\ Enqueued(rq, rq', q, t) /\ BlocksOnly(rq, rq', t)
  /\ Becomes(t, l, q, call[t].deadline, call[t].timeout) /\ Quiet
  /\ l # "slept"
  /\ l \in {"until", "tu_loop"} => ~ cond[q]

LEMMA BlockingBase ==
  ASSUME Base, NEW c \in Cpu, NEW t \in Task, NEW l, NEW q \in WQ, Blocking(c, t, l, q),
         call[t].pc # "notify_all"
  PROVE  Base'
<1>1. rq.state[t] # "Blocked" /\ OnlyCall(t) /\ RQInv(rq') /\ Types'
  BY QuietTypes DEF Base, Blocking, Acts, Becomes, OnlyCall
<1>2. \A p \in WQ : \A u : InQueue(rq, p, u) \/ (p = q /\ u = t) => InQueue(rq', p, u)
  BY EnqueuedEntries DEF Base, Blocking
<1>3. \A u \in Task : u # t /\ rq'.state[u] = "Blocked" => rq.state[u] = "Blocked"
  BY DEF Blocking, BlocksOnly, SameBlockedBut
<1>4. \A u : Alarmed(u) => Alarmed(u)'
  BY QuietAlarm DEF Blocking, Quiet
<1>5. Blocks(t)
  BY <1>2 DEF Blocks, Blocking, Becomes, Quiet
<1>6. cond' = cond
  BY DEF Blocking, Quiet
<1> QED BY <1>1, <1>2, <1>3, <1>4, <1>5, <1>6, BaseStep

(* The current task does something that leaves the run queue alone.        *)
LEMMA LocalBase ==
  ASSUME Base, NEW c \in Cpu, NEW t \in Task, Acts(c, t), OnlyCall(t), rq' = rq, Types',
         \A u \in Task : u # t => (Alarmed(u) => Alarmed(u)'),
         call[t].pc = "notify_all" => \A v \in Task : ~ InQueue(rq, call[t].q, v),
         \A q \in WQ : cond'[q] =>
           cond[q] \/ \E u \in Task : call'[u].pc = "notify_all" /\ call'[u].q = q
  PROVE  Base'
<1>1. rq.state[t] # "Blocked" /\ rq'.state[t] # "Blocked" /\ RQInv(rq')
  BY DEF Acts, Base
<1> QED BY <1>1, BaseStep
-----------------------------------------------------------------------------
(* What the actions do, in these terms.                                    *)

(* The current task changes its call, and nothing else.                    *)
Moves(c, t, l, q, d, b) ==
  Acts(c, t) /\ rq' = rq /\ Becomes(t, l, q, d, b) /\ Quiet

(* A call returns.                                                         *)
Returns(c, t) ==
  Acts(c, t) /\ rq' = rq /\ OnlyCall(t) /\ call'[t] = NoCall

LEMMA BlockingStep ==
  ASSUME Base, NEW c \in Cpu, NEW t, Acts(c, t), NEW l \in Pc, NEW q \in WQ,
         rq' = block_current(rq, c, q), l # "slept",
         l \in {"until", "tu_loop"} => ~ cond[q],
         Becomes(t, l, q, call[t].deadline, call[t].timeout), Quiet
  PROVE  Blocking(c, t, l, q)
<1>1. RQInv(rq) /\ t = rq.current[c] /\ ~ is_idle(t)
  BY DEF Base, Acts
<1>2. RQInv(rq') /\ Enqueued(rq, rq', q, t) /\ BlocksOnly(rq, rq', t)
  BY <1>1, BlockOp
<1> QED BY <1>2 DEF Blocking

LEMMA WaitShape ==
  ASSUME Base, NEW c \in Cpu, NEW t, t = rq.current[c], wait(c)
  PROVE  call[t].pc = "user" /\ \E q \in WQ : Blocking(c, t, "cancel_wait", q)
<1>1. Acts(c, t) /\ call[t].pc = "user" /\ t \in Task
  BY Actor DEF wait, Calls, Acts
<1>2. PICK q \in WQ : /\ rq' = block_current(rq, c, q)
                      /\ call' = [call EXCEPT ![t].pc = "cancel_wait", ![t].q = q]
  BY DEF wait
<1>3. Quiet
  BY DEF wait, Quiet, timerVars
<1>4. Becomes(t, "cancel_wait", q, call[t].deadline, call[t].timeout)
  BY <1>1, <1>2, QueueCall DEF Base, Becomes, Pc
<1>5. Blocking(c, t, "cancel_wait", q)
  BY <1>1, <1>2, <1>3, <1>4, BlockingStep DEF Pc
<1> QED BY <1>1, <1>5

LEMMA UntilTurnShape ==
  ASSUME Base, NEW c \in Cpu, NEW t, Acts(c, t), NEW q \in WQ, until_turn(c, q), Quiet
  PROVE  \/ Blocking(c, t, "until", q)
         \/ Moves(c, t, "cancel_wait", q, call[t].deadline, call[t].timeout)
<1>0. t = rq.current[c] /\ t \in Task
  BY DEF Acts
<1>1. CASE /\ cond[q] /\ rq' = rq
           /\ call' = [call EXCEPT ![t].pc = "cancel_wait", ![t].q = q]
  <2>0. call' = [call EXCEPT ![t].pc = "cancel_wait", ![t].q = q] /\ Types /\ "cancel_wait" \in Pc
    BY <1>1 DEF Base, Pc
  <2>1. Becomes(t, "cancel_wait", q, call[t].deadline, call[t].timeout)
    BY <1>0, <2>0, QueueCall DEF Becomes
  <2> QED BY <1>1, <2>1 DEF Moves
<1>2. CASE /\ ~ cond[q] /\ rq' = block_current(rq, c, q)
           /\ call' = [call EXCEPT ![t].pc = "until", ![t].q = q]
  <2>0. call' = [call EXCEPT ![t].pc = "until", ![t].q = q] /\ Types /\ "until" \in Pc
    BY <1>2 DEF Base, Pc
  <2>1. Becomes(t, "until", q, call[t].deadline, call[t].timeout)
    BY <1>0, <2>0, QueueCall DEF Becomes
  <2> QED BY <1>2, <2>1, BlockingStep DEF Pc
<1> QED BY <1>0, <1>1, <1>2 DEF until_turn

LEMMA UntilShape ==
  ASSUME Base, NEW c \in Cpu, NEW t, t = rq.current[c], wait_until(c)
  PROVE  /\ call[t].pc \in {"user", "until"}
         /\ \E q \in WQ : \/ Blocking(c, t, "until", q)
                          \/ Moves(c, t, "cancel_wait", q, call[t].deadline, call[t].timeout)
<1>1. Quiet
  BY DEF wait_until, Quiet, timerVars
<1>2. CASE Calls(c, "wait_until") /\ \E q \in WQ : until_turn(c, q)
  <2>1. Acts(c, t) /\ call[t].pc = "user"
    BY <1>2, Actor DEF Calls
  <2>2. PICK q \in WQ : until_turn(c, q)
    BY <1>2
  <2>3. \/ Blocking(c, t, "until", q)
        \/ Moves(c, t, "cancel_wait", q, call[t].deadline, call[t].timeout)
    BY <1>1, <2>1, <2>2, UntilTurnShape
  <2> QED BY <2>1, <2>3
<1>3. CASE At(c, "until") /\ until_turn(c, call[t].q)
  <2>1. Acts(c, t) /\ call[t].pc = "until" /\ t \in Task
    BY <1>3, Actor DEF Acts
  <2>2. call[t].q \in WQ
    BY <2>1, CallFields DEF Base
  <2>3. \/ Blocking(c, t, "until", call[t].q)
        \/ Moves(c, t, "cancel_wait", call[t].q, call[t].deadline, call[t].timeout)
    BY <1>1, <1>3, <2>1, <2>2, UntilTurnShape
  <2> QED BY <2>1, <2>2, <2>3
<1> QED BY <1>2, <1>3 DEF wait_until

LEMMA TimedBlockShape ==
  ASSUME Base, NEW c \in Cpu, NEW t, t = rq.current[c], wait_timeout_block(c)
  PROVE  call[t].pc = "alarmed" /\ Blocking(c, t, "woken", call[t].q) /\ call[t].q \in WQ
<1>1. Acts(c, t) /\ call[t].pc = "alarmed" /\ t \in Task
  BY Actor DEF wait_timeout_block, Acts
<1>2. /\ rq' = block_current(rq, c, call[t].q) /\ call[t].q \in WQ
      /\ call' = [call EXCEPT ![t].pc = "woken"]
  BY <1>1, CallFields DEF wait_timeout_block, Base, Goto
<1>3. Quiet
  BY DEF wait_timeout_block, Quiet, timerVars
<1>4. Becomes(t, "woken", call[t].q, call[t].deadline, call[t].timeout)
  BY <1>1, <1>2, GotoCall DEF Base, Becomes, Pc
<1>5. Blocking(c, t, "woken", call[t].q)
  BY <1>1, <1>2, <1>3, <1>4, BlockingStep DEF Pc
<1> QED BY <1>1, <1>2, <1>5

LEMMA CheckShape ==
  ASSUME Base, NEW c \in Cpu, NEW t, t = rq.current[c], wait_timeout_until_check(c)
  PROVE  /\ call[t].pc = "tu_check" /\ call[t].q \in WQ
         /\ \/ Blocking(c, t, "tu_loop", call[t].q)
            \/ Moves(c, t, "cancel_wait", call[t].q, call[t].deadline, call[t].timeout)
<1>1. Acts(c, t) /\ call[t].pc = "tu_check" /\ t \in Task
  BY Actor DEF wait_timeout_until_check, Acts
<1>2. call[t].q \in WQ
  BY <1>1, CallFields DEF Base
<1>3. Quiet
  BY DEF wait_timeout_until_check, Quiet, timerVars
<1>4. CASE rq' = rq /\ call' = [call EXCEPT ![t].pc = "cancel_wait"]
  <2>1. Becomes(t, "cancel_wait", call[t].q, call[t].deadline, call[t].timeout)
    BY <1>1, <1>4, GotoCall DEF Base, Becomes, Pc
  <2> QED BY <1>1, <1>2, <1>3, <1>4, <2>1 DEF Moves
<1>5. CASE /\ ~ cond[call[t].q] /\ rq' = block_current(rq, c, call[t].q)
           /\ call' = [call EXCEPT ![t].pc = "tu_loop"]
  <2>1. Becomes(t, "tu_loop", call[t].q, call[t].deadline, call[t].timeout)
    BY <1>1, <1>5, GotoCall DEF Base, Becomes, Pc
  <2>2. Blocking(c, t, "tu_loop", call[t].q)
    BY <1>1, <1>2, <1>3, <1>5, <2>1, BlockingStep DEF Pc
  <2> QED BY <1>1, <1>2, <2>2
<1> QED BY <1>4, <1>5 DEF wait_timeout_until_check, Goto

LEMMA ResultShape ==
  ASSUME Base, NEW c \in Cpu, NEW t, t = rq.current[c], wait_timeout_result(c)
  PROVE  /\ call[t].pc = "woken"
         /\ Moves(c, t, "cancel_wait", call[t].q, call[t].deadline, t \in rq.in_wait_queue)
<1>1. Acts(c, t) /\ call[t].pc = "woken" /\ t \in Task
  BY Actor DEF wait_timeout_result, Acts
<1>2. /\ rq' = rq
      /\ call' = [call EXCEPT ![t].pc = "cancel_wait", ![t].timeout = t \in rq.in_wait_queue]
  BY DEF wait_timeout_result
<1>3. Quiet
  BY DEF wait_timeout_result, Quiet, timerVars
<1>4. Becomes(t, "cancel_wait", call[t].q, call[t].deadline, t \in rq.in_wait_queue)
  <2> DEFINE b == t \in rq.in_wait_queue
  <2>1. b \in BOOLEAN /\ call' = [call EXCEPT ![t].pc = "cancel_wait", ![t].timeout = b]
    BY <1>2
  <2> HIDE DEF b
  <2>2. Becomes(t, "cancel_wait", call[t].q, call[t].deadline, b)
    BY <1>1, <2>1, ResultCall DEF Base, Becomes, Pc
  <2> QED BY <2>2 DEF b
<1> QED BY <1>1, <1>2, <1>3, <1>4 DEF Moves

LEMMA ClockShape ==
  ASSUME Base, NEW c \in Cpu, NEW t, t = rq.current[c], wait_timeout_until_clock(c)
  PROVE  /\ call[t].pc = "tu_loop"
         /\ \/ /\ now < call[t].deadline
               /\ Moves(c, t, "tu_check", call[t].q, call[t].deadline, call[t].timeout)
            \/ /\ ~ (now < call[t].deadline)
               /\ Moves(c, t, "cancel_wait", call[t].q, call[t].deadline, TRUE)
<1>1. Acts(c, t) /\ call[t].pc = "tu_loop" /\ t \in Task
  BY Actor DEF wait_timeout_until_clock, Acts
<1>2. /\ rq' = rq
      /\ call' = IF now < call[t].deadline
                   THEN [call EXCEPT ![t].pc = "tu_check"]
                   ELSE [call EXCEPT ![t].pc = "cancel_wait", ![t].timeout = TRUE]
  BY DEF wait_timeout_until_clock
<1>3. Quiet
  BY DEF wait_timeout_until_clock, Quiet, timerVars
<1>4. CASE now < call[t].deadline
  <2>1. call' = [call EXCEPT ![t].pc = "tu_check"]
    BY <1>2, <1>4
  <2>2. Becomes(t, "tu_check", call[t].q, call[t].deadline, call[t].timeout)
    BY <1>1, <2>1, GotoCall DEF Base, Becomes, Pc
  <2> QED BY <1>1, <1>2, <1>3, <1>4, <2>2 DEF Moves
<1>5. CASE ~ (now < call[t].deadline)
  <2>1. call' = [call EXCEPT ![t].pc = "cancel_wait", ![t].timeout = TRUE]
    BY <1>2, <1>5
  <2>2. Becomes(t, "cancel_wait", call[t].q, call[t].deadline, TRUE)
    BY <1>1, <2>1, ResultCall DEF Base, Becomes, Pc
  <2> QED BY <1>1, <1>2, <1>3, <1>5, <2>2 DEF Moves
<1> QED BY <1>4, <1>5
LEMMA AlarmSet ==
  ASSUME Types, NEW t \in Task, NEW d \in Time, set_alarm_wakeup(t, d)
  PROVE  /\ timers' \in [Task -> [Time -> Nat]] /\ in_timer_list' = in_timer_list \cup {t}
         /\ in_timer_list' \in SUBSET Task
         /\ timers'[t][d] = timers[t][d] + 1 /\ timers[t][d] \in Nat
         /\ \A e \in Time : e # d => timers'[t][e] = timers[t][e]
         /\ \A u \in Task : u # t => timers'[u] = timers[u]
<1> DEFINE f == [timers[t] EXCEPT ![d] = @ + 1]
<1>1. timers[t] \in [Time -> Nat]
  BY DEF Types
<1>2. /\ f \in [Time -> Nat] /\ f[d] = timers[t][d] + 1 /\ timers[t][d] \in Nat
      /\ \A e \in Time : e # d => f[e] = timers[t][e]
  BY <1>1
<1>3. timers' = [timers EXCEPT ![t] = f]
  BY DEF set_alarm_wakeup
<1> HIDE DEF f
<1>4. timers' \in [Task -> [Time -> Nat]] /\ timers'[t] = f /\ \A u \in Task : u # t => timers'[u] = timers[u]
  BY <1>2, <1>3 DEF Types
<1>5. in_timer_list' = in_timer_list \cup {t} /\ in_timer_list' \in SUBSET Task
  BY DEF set_alarm_wakeup, Types
<1> QED BY <1>2, <1>4, <1>5

LEMMA Later ==
  ASSUME Types, NEW dur \in Nat, now + dur <= MaxNow
  PROVE  now + dur \in Time
BY ClientAssumption DEF Types, Time

(* A sleep with deadline d.                                                *)
Sleeping(c, t, d) ==
  /\ Acts(c, t) /\ RQInv(rq') /\ SameWaits(rq, rq') /\ BlocksOnly(rq, rq', t)
  /\ set_alarm_wakeup(t, d) /\ Becomes(t, "slept", call[t].q, d, call[t].timeout)
  /\ UNCHANGED << now, irq, cond >>

LEMMA SleepShape ==
  ASSUME Base, NEW c \in Cpu, NEW t, t = rq.current[c], sleep_until(c)
  PROVE  call[t].pc = "user" /\ \E d \in Time : Sleeping(c, t, d)
<1>1. Acts(c, t) /\ call[t].pc = "user" /\ t \in Task
  BY Actor DEF sleep_until, Calls, Acts
<1>2. PICK dur \in 1 .. MaxDur :
        /\ now + dur <= MaxNow /\ set_alarm_wakeup(t, now + dur)
        /\ call' = [call EXCEPT ![t].pc = "slept", ![t].deadline = now + dur]
  BY DEF sleep_until
<1> DEFINE d == now + dur
<1>3. d \in Time
  BY <1>2, Later, ClientAssumption DEF Base
<1>4. /\ set_alarm_wakeup(t, d) /\ call' = [call EXCEPT ![t].pc = "slept", ![t].deadline = d]
      /\ Types /\ "slept" \in Pc
  BY <1>2 DEF Base, Pc
<1> HIDE DEF d
<1>5. Becomes(t, "slept", call[t].q, d, call[t].timeout)
  BY <1>1, <1>3, <1>4, DeadlineCall DEF Becomes
<1>6. RQInv(rq') /\ SameWaits(rq, rq') /\ BlocksOnly(rq, rq', t)
  BY <1>1, SleepOp DEF sleep_until, Base, Acts
<1>7. UNCHANGED << now, irq, cond >>
  BY DEF sleep_until
<1>8. Sleeping(c, t, d)
  BY <1>1, <1>4, <1>5, <1>6, <1>7 DEF Sleeping
<1> QED BY <1>1, <1>3, <1>8

(* A timed wait starts: the alarm is set, the task has not blocked yet.    *)
Timing(c, t, l, q, d) ==
  /\ Acts(c, t) /\ rq' = rq /\ set_alarm_wakeup(t, d) /\ Becomes(t, l, q, d, FALSE)
  /\ UNCHANGED << now, irq, cond >>

LEMMA TimedShape ==
  ASSUME Base, NEW c \in Cpu, NEW t, t = rq.current[c], NEW op, NEW l \in Pc,
         timed_wait(c, op, l)
  PROVE  call[t].pc = "user" /\ \E q \in WQ, d \in Time : Timing(c, t, l, q, d)
<1>1. Acts(c, t) /\ call[t].pc = "user" /\ t \in Task
  BY Actor DEF timed_wait, Calls, Acts
<1>2. PICK q \in WQ, dur \in 0 .. MaxDur :
        /\ now + dur <= MaxNow /\ set_alarm_wakeup(t, now + dur)
        /\ call' = [call EXCEPT ![t] = [pc |-> l, q |-> q, deadline |-> now + dur,
                                        timeout |-> FALSE]]
  BY DEF timed_wait
<1> DEFINE d == now + dur
           f == [pc |-> l, q |-> q, deadline |-> d, timeout |-> FALSE]
<1>3. d \in Time
  BY <1>2, Later, ClientAssumption DEF Base
<1>4. set_alarm_wakeup(t, d) /\ call' = [call EXCEPT ![t] = f] /\ Types
  BY <1>2 DEF Base
<1> HIDE DEF d
<1>5. f \in Call /\ f.pc = l /\ f.q = q /\ f.deadline = d /\ f.timeout = FALSE
  BY <1>3 DEF Call
<1> HIDE DEF f
<1>6. OnlyCall(t) /\ call'[t] = f
  BY <1>1, <1>4, <1>5, WholeCall
<1>7. Becomes(t, l, q, d, FALSE)
  BY <1>5, <1>6 DEF Becomes
<1>8. rq' = rq /\ UNCHANGED << now, irq, cond >>
  BY DEF timed_wait
<1>9. Timing(c, t, l, q, d)
  BY <1>1, <1>4, <1>7, <1>8 DEF Timing
<1> QED BY <1>1, <1>3, <1>9

(* The first half of cancel_events.                                        *)
LEMMA CancelWaitShape ==
  ASSUME Base, NEW c \in Cpu, NEW t, t = rq.current[c], cancel_events_wait(c)
  PROVE  /\ Acts(c, t) /\ call[t].pc = "cancel_wait" /\ call[t].q \in WQ /\ Quiet
         /\ Becomes(t, "cancel_timer", call[t].q, call[t].deadline, call[t].timeout)
         /\ \/ t \notin rq.in_wait_queue /\ rq' = rq
            \/ /\ t \in rq.in_wait_queue /\ RQInv(rq')
               /\ Dequeued(rq, rq', call[t].q, t) /\ SameBlocked(rq, rq')
<1>1. Acts(c, t) /\ call[t].pc = "cancel_wait" /\ t \in Task
  BY Actor DEF cancel_events_wait, Acts
<1>2. /\ rq' = cancel_wait(rq, call[t].q, t) /\ call[t].q \in WQ
      /\ call' = [call EXCEPT ![t].pc = "cancel_timer"] /\ Types /\ "cancel_timer" \in Pc
  BY <1>1, CallFields DEF cancel_events_wait, Base, Goto, Pc
<1>3. Quiet
  BY DEF cancel_events_wait, Quiet, timerVars
<1>4. Becomes(t, "cancel_timer", call[t].q, call[t].deadline, call[t].timeout)
  BY <1>1, <1>2, GotoCall DEF Becomes
<1>5. CASE t \notin rq.in_wait_queue
  <2>1. rq' = rq
    BY <1>2, <1>5, Zenon DEF cancel_wait
  <2> QED BY <1>1, <1>2, <1>3, <1>4, <1>5, <2>1
<1>6. CASE t \in rq.in_wait_queue
  <2>1. RQInv(rq') /\ Dequeued(rq, rq', call[t].q, t) /\ SameBlocked(rq, rq')
    BY <1>1, <1>2, <1>6, CancelOp DEF Base
  <2> QED BY <1>1, <1>2, <1>3, <1>4, <1>6, <2>1
<1> QED BY <1>5, <1>6

LEMMA ReturnShape ==
  ASSUME Base, NEW c \in Cpu, NEW t, Acts(c, t), Return(c), rq' = rq
  PROVE  Returns(c, t)
<1>1. t \in Task /\ call' = [call EXCEPT ![t] = NoCall] /\ Types
  BY DEF Acts, Return, Base
<1>2. OnlyCall(t) /\ call'[t] = NoCall
  BY <1>1, NoCallIn, WholeCall
<1> QED BY <1>2 DEF Returns

LEMMA SleepReturnShape ==
  ASSUME Base, NEW c \in Cpu, NEW t, t = rq.current[c], sleep_return(c)
  PROVE  Returns(c, t) /\ call[t].pc = "slept" /\ Quiet
<1>1. Acts(c, t) /\ call[t].pc = "slept"
  BY Actor DEF sleep_return
<1>2. Quiet /\ rq' = rq /\ Return(c)
  BY DEF sleep_return, Quiet, timerVars
<1> QED BY <1>1, <1>2, ReturnShape

(* The second half of cancel_events: all alarms of t are dropped.          *)
LEMMA CancelTimerShape ==
  ASSUME Base, NEW c \in Cpu, NEW t, t = rq.current[c], cancel_events_timer(c)
  PROVE  /\ Returns(c, t) /\ call[t].pc = "cancel_timer" /\ UNCHANGED << now, irq, cond >>
         /\ timers' \in [Task -> [Time -> Nat]] /\ in_timer_list' \in SUBSET Task
         /\ \A u \in Task : u # t => timers'[u] = timers[u] /\ (u \in in_timer_list' <=> u \in in_timer_list)
         /\ IF t \in in_timer_list
              THEN t \notin in_timer_list' /\ \A d \in Time : timers'[t][d] = 0
              ELSE in_timer_list' = in_timer_list /\ timers' = timers
<1>1. Acts(c, t) /\ call[t].pc = "cancel_timer" /\ t \in Task
  BY Actor DEF cancel_events_timer, Acts
<1>2. rq' = rq /\ UNCHANGED << now, irq, cond >> /\ Return(c)
  BY DEF cancel_events_timer
<1>3. Returns(c, t)
  BY <1>1, <1>2, ReturnShape
<1>4. CASE t \in in_timer_list
  <2> DEFINE z == [d \in Time |-> 0]
  <2>1. in_timer_list' = in_timer_list \ {t} /\ timers' = [timers EXCEPT ![t] = z]
    BY <1>4 DEF cancel_events_timer
  <2>2. z \in [Time -> Nat] /\ \A d \in Time : z[d] = 0
    OBVIOUS
  <2> HIDE DEF z
  <2>3. /\ timers' \in [Task -> [Time -> Nat]] /\ timers'[t] = z
        /\ \A u \in Task : u # t => timers'[u] = timers[u]
    BY <1>1, <2>1, <2>2 DEF Base, Types
  <2>4. in_timer_list' \in SUBSET Task
    BY <2>1 DEF Base, Types
  <2> QED BY <1>1, <1>2, <1>3, <1>4, <2>1, <2>2, <2>3, <2>4
<1>5. CASE t \notin in_timer_list
  <2>1. in_timer_list' = in_timer_list /\ timers' = timers
    BY <1>5 DEF cancel_events_timer
  <2> QED BY <1>1, <1>2, <1>3, <1>5, <2>1 DEF Base, Types
<1> QED BY <1>4, <1>5
(* Task h is taken out of queue q and is not Blocked any more.             *)
Waking(q, h) ==
  /\ RQInv(rq') /\ h \in Task /\ Dequeued(rq, rq', q, h) /\ SameBlockedBut(rq, rq', h)
  /\ rq'.state[h] # "Blocked" /\ h \in ToSet(rq.queue[q])
  /\ call' = call /\ Quiet

LEMMA NotifyOneShape ==
  ASSUME Base, NEW q \in WQ, rq.queue[q] # << >>, rq' = notify_one_locked(rq, q),
         call' = call, Quiet
  PROVE  \E h \in Task : Waking(q, h)
<1>1. PICK h : h = Head(rq.queue[q])
  OBVIOUS
<1>2. /\ RQInv(rq') /\ h \in Task /\ Dequeued(rq, rq', q, h) /\ SameBlockedBut(rq, rq', h)
      /\ rq'.state[h] # "Blocked" /\ h \in ToSet(rq.queue[q])
  BY <1>1, NotifyOneOp DEF Base
<1>3. Waking(q, h)
  BY <1>2 DEF Waking
<1> QED BY <1>2, <1>3

LEMMA NotifyTaskShape ==
  ASSUME Base, NEW c \in Cpu, notify_task_call(c)
  PROVE  \E q \in WQ : \E h \in Task : Waking(q, h)
<1>1. PICK q \in WQ, h \in Task : InQueue(rq, q, h) /\ rq' = notify_task(rq, q, h)
  BY DEF notify_task_call
<1>2. call' = call /\ Quiet
  BY DEF notify_task_call, Quiet, timerVars
<1>3. /\ RQInv(rq') /\ Dequeued(rq, rq', q, h) /\ SameBlockedBut(rq, rq', h)
      /\ rq'.state[h] # "Blocked" /\ h \in ToSet(rq.queue[q])
  BY <1>1, NotifyTaskOp DEF Base
<1>4. Waking(q, h)
  BY <1>2, <1>3 DEF Waking
<1> QED BY <1>4

LEMMA NotifyShape ==
  ASSUME Base, NEW c \in Cpu, notify_one(c)
  PROVE  \E q \in WQ : \E h \in Task : Waking(q, h)
<1>1. PICK q \in WQ : rq.queue[q] # << >> /\ rq' = notify_one_locked(rq, q)
  BY DEF notify_one
<1>2. call' = call /\ Quiet
  BY DEF notify_one, Quiet, timerVars
<1>3. \E h \in Task : Waking(q, h)
  BY <1>1, <1>2, NotifyOneShape
<1> QED BY <1>3

(* A turn of notify_all wakes a task, or finds the queue empty and ends.   *)
LEMMA NotifyAllShape ==
  ASSUME Base, NEW c \in Cpu, NEW t, t = rq.current[c], notify_all_turn(c)
  PROVE  /\ Acts(c, t) /\ call[t].pc = "notify_all" /\ call[t].q \in WQ /\ Quiet
         /\ \/ \E h \in Task : Waking(call[t].q, h)
            \/ rq.queue[call[t].q] = << >> /\ Returns(c, t)
<1>1. Acts(c, t) /\ call[t].pc = "notify_all" /\ t \in Task
  BY Actor DEF notify_all_turn, Acts
<1>2. call[t].q \in WQ
  BY <1>1, CallFields DEF Base
<1>3. Quiet /\ rq' = notify_one_locked(rq, call[t].q)
  BY DEF notify_all_turn, Quiet, timerVars
<1>4. CASE rq.queue[call[t].q] = << >>
  <2>1. rq' = rq
    BY <1>3, <1>4, Zenon DEF notify_one_locked
  <2>2. Return(c)
    BY <1>4 DEF notify_all_turn
  <2>3. Returns(c, t)
    BY <1>1, <2>1, <2>2, ReturnShape
  <2> QED BY <1>1, <1>2, <1>3, <1>4, <2>3
<1>5. CASE rq.queue[call[t].q] # << >>
  <2>1. call' = call
    BY <1>5 DEF notify_all_turn
  <2>2. \E h \in Task : Waking(call[t].q, h)
    BY <1>2, <1>3, <1>5, <2>1, NotifyOneShape
  <2> QED BY <1>1, <1>2, <1>3, <2>2
<1> QED BY <1>4, <1>5

LEMMA SignalConditionShape ==
  ASSUME Base, NEW c \in Cpu, NEW t, t = rq.current[c], signal_condition(c)
  PROVE  /\ Acts(c, t) /\ call[t].pc = "user" /\ rq' = rq
         /\ UNCHANGED << timers, in_timer_list, now, irq >>
         /\ \E q \in WQ : /\ cond' = [cond EXCEPT ![q] = TRUE]
                          /\ Becomes(t, "notify_all", q, call[t].deadline, call[t].timeout)
<1>1. Acts(c, t) /\ call[t].pc = "user" /\ t \in Task
  BY Actor DEF signal_condition, Calls, Acts
<1>2. rq' = rq /\ UNCHANGED << timers, in_timer_list, now, irq >>
  BY DEF signal_condition, timerVars
<1>3. PICK q \in WQ : /\ cond' = [cond EXCEPT ![q] = TRUE]
                      /\ call' = [call EXCEPT ![t].pc = "notify_all", ![t].q = q]
  BY DEF signal_condition
<1>4. Types /\ "notify_all" \in Pc
  BY DEF Base, Pc
<1>5. Becomes(t, "notify_all", q, call[t].deadline, call[t].timeout)
  BY <1>1, <1>3, <1>4, QueueCall DEF Becomes
<1> QED BY <1>1, <1>2, <1>3, <1>5

LEMMA SpawnShape ==
  ASSUME Base, NEW c \in Cpu, spawn(c) \/ yield_now(c)
  PROVE  RQInv(rq') /\ SameWaits(rq, rq') /\ SameBlocked(rq, rq') /\ Quiet /\ call' = call
<1>1. CASE spawn(c)
  <2>1. PICK t \in Task : rq.state[t] = "New" /\ rq' = add_task(rq, t)
    BY <1>1 DEF spawn
  <2>2. RQInv(rq') /\ SameWaits(rq, rq') /\ SameBlocked(rq, rq')
    BY <2>1, SpawnOp DEF Base
  <2>3. Quiet /\ call' = call
    BY <1>1 DEF spawn, Quiet, timerVars
  <2> QED BY <2>2, <2>3
<1>2. CASE yield_now(c)
  <2>1. rq' = yield_current(rq, c) /\ Quiet /\ call' = call
    BY <1>2 DEF yield_now, Quiet, timerVars
  <2>2. RQInv(rq') /\ SameWaits(rq, rq') /\ SameBlocked(rq, rq')
    BY <2>1, YieldOp DEF Base
  <2> QED BY <2>1, <2>2
<1> QED BY <1>1, <1>2

(* One turn of check_events: an event of u moves from the list to the CPU, *)
(* or there is none.                                                       *)
LEMMA ExpireShape ==
  ASSUME Base, NEW c \in Cpu, expire_one(c)
  PROVE  /\ irq[c] = "check" /\ UNCHANGED << rq, in_timer_list, now, call, cond >>
         /\ timers' \in [Task -> [Time -> Nat]] /\ irq' \in [Cpu -> Task \cup {"none", "check"}]
         /\ \A e \in Cpu : e # c => irq'[e] = irq[e]
         /\ \/ irq'[c] = "none" /\ timers' = timers
            \/ \E u \in Task, d \in Time :
                 /\ timers[u][d] > 0 /\ d <= now /\ irq'[c] = u
                 /\ timers'[u][d] = timers[u][d] - 1
                 /\ \A e \in Time : e # d => timers'[u][e] = timers[u][e]
                 /\ \A v \in Task : v # u => timers'[v] = timers[v]
<1>1. irq[c] = "check" /\ UNCHANGED << rq, in_timer_list, now, call, cond >>
  BY DEF expire_one
<1>2. timers \in [Task -> [Time -> Nat]] /\ irq \in [Cpu -> Task \cup {"none", "check"}]
  BY DEF Base, Types
<1>3. CASE irq' = [irq EXCEPT ![c] = "none"] /\ timers' = timers
  BY <1>1, <1>2, <1>3
<1>4. ASSUME NEW u \in Task, NEW d \in Time, Due(u, d),
             timers' = [timers EXCEPT ![u][d] = @ - 1], irq' = [irq EXCEPT ![c] = u]
      PROVE  /\ timers' \in [Task -> [Time -> Nat]] /\ irq' \in [Cpu -> Task \cup {"none", "check"}]
             /\ \A e \in Cpu : e # c => irq'[e] = irq[e]
             /\ timers[u][d] > 0 /\ d <= now /\ irq'[c] = u
             /\ timers'[u][d] = timers[u][d] - 1
             /\ \A e \in Time : e # d => timers'[u][e] = timers[u][e]
             /\ \A v \in Task : v # u => timers'[v] = timers[v]
  <2> DEFINE f == [timers[u] EXCEPT ![d] = @ - 1]
  <2>1. timers[u][d] > 0 /\ d <= now /\ timers[u] \in [Time -> Nat]
    BY <1>2, <1>4 DEF Due
  <2>2. /\ f \in [Time -> Nat] /\ f[d] = timers[u][d] - 1
        /\ \A e \in Time : e # d => f[e] = timers[u][e]
    BY <2>1
  <2>3. timers' = [timers EXCEPT ![u] = f]
    BY <1>4
  <2> HIDE DEF f
  <2>4. timers' \in [Task -> [Time -> Nat]] /\ timers'[u] = f /\ \A v \in Task : v # u => timers'[v] = timers[v]
    BY <1>2, <2>2, <2>3
  <2>5. /\ irq' \in [Cpu -> Task \cup {"none", "check"}] /\ irq'[c] = u
        /\ \A e \in Cpu : e # c => irq'[e] = irq[e]
    BY <1>2, <1>4
  <2> QED BY <2>1, <2>2, <2>4, <2>5
<1>5. CASE \E u \in Task : \E d \in Time :
             /\ Due(u, d) /\ timers' = [timers EXCEPT ![u][d] = @ - 1]
             /\ irq' = [irq EXCEPT ![c] = u]
  BY <1>1, <1>4, <1>5, ZenonT(60)
<1> QED BY <1>3, <1>5 DEF expire_one

LEMMA CallbackShape ==
  ASSUME Base, NEW c \in Cpu, callback(c)
  PROVE  \E h \in Task :
           /\ irq[c] = h /\ in_timer_list' = in_timer_list \ {h}
           /\ RQInv(rq') /\ SameWaits(rq, rq') /\ SameBlockedBut(rq, rq', h)
           /\ rq'.state[h] # "Blocked"
           /\ irq' \in [Cpu -> Task \cup {"none", "check"}] /\ irq'[c] = "check"
           /\ \A e \in Cpu : e # c => irq'[e] = irq[e]
           /\ UNCHANGED << timers, now, call, cond >>
<1>1. PICK h \in Task : h = irq[c]
  BY DEF callback
<1>2. /\ in_timer_list' = in_timer_list \ {h} /\ rq' = unblock_task(rq, h)
      /\ irq' = [irq EXCEPT ![c] = "check"] /\ UNCHANGED << timers, now, call, cond >>
  BY <1>1 DEF callback
<1>3. /\ RQInv(rq') /\ SameWaits(rq, rq') /\ SameBlockedBut(rq, rq', h)
      /\ rq'.state[h] # "Blocked"
  BY <1>2, UnblockOp DEF Base
<1>4. /\ irq' \in [Cpu -> Task \cup {"none", "check"}] /\ irq'[c] = "check"
      /\ \A e \in Cpu : e # c => irq'[e] = irq[e]
  BY <1>2 DEF Base, Types
<1> QED BY <1>1, <1>2, <1>3, <1>4-----------------------------------------------------------------------------
(* Every step preserves the invariant for any number of CPUs.              *)

LEMMA InitBase ==
  ASSUME Init
  PROVE  Base
<1>1. /\ RQInv(rq) /\ \A t \in Task : rq.state[t] # "Blocked"
  <2>1. /\ RQInv(rq) /\ \A t \in Task : rq.state[t] \in {"New", "Ready", "Running"}
    BY InitRQInv, ClientAssumption DEF Init
  <2> QED BY <2>1
<1>2. NoCall \in Call
  BY NoCallIn
<1>3. Types
  <2>1. 0 \in Time
    BY ClientAssumption DEF Time
  <2>2. timers \in [Task -> [Time -> Nat]] /\ in_timer_list \in SUBSET Task /\ now \in Time
    BY <2>1 DEF Init
  <2>3. irq \in [Cpu -> Task \cup {"none", "check"}] /\ cond \in [WQ -> BOOLEAN]
    BY DEF Init
  <2>4. call \in [Task -> Call]
    BY <1>2 DEF Init
  <2> QED BY <2>2, <2>3, <2>4 DEF Types
<1> QED BY <1>1, <1>3 DEF Base, BlockedCanWake, NoMissedCondition

LEMMA WakingKeeps ==
  ASSUME Base, NEW q \in WQ, NEW h \in Task, Waking(q, h)
  PROVE  Base'
<1>1. /\ RQInv(rq) /\ RQInv(rq') /\ Dequeued(rq, rq', q, h) /\ SameBlockedBut(rq, rq', h)
      /\ rq'.state[h] # "Blocked" /\ call' = call /\ Quiet
  BY DEF Base, Waking
<1>2. \A p \in WQ : \A u : u # h /\ InQueue(rq, p, u) => InQueue(rq', p, u)
  BY <1>1, DequeuedEntries
<1> QED BY <1>1, <1>2, WakingBase

LEMMA MovesBase ==
  ASSUME Base, NEW c \in Cpu, NEW t \in Task, NEW l, NEW q, NEW d, NEW b,
         Moves(c, t, l, q, d, b), call[t].pc # "notify_all"
  PROVE  Base'
<1>1. Acts(c, t) /\ OnlyCall(t) /\ rq' = rq /\ Quiet /\ call' \in [Task -> Call]
  BY DEF Moves, Becomes, OnlyCall
<1>2. Types' /\ cond' = cond
  BY <1>1, QuietTypes DEF Base, Quiet
<1>3. \A u \in Task : Alarmed(u) => Alarmed(u)'
  BY <1>1, QuietAlarm DEF Quiet
<1> QED BY <1>1, <1>2, <1>3, LocalBase

LEMMA ReturnsBase ==
  ASSUME Base, NEW c \in Cpu, NEW t \in Task, Returns(c, t),
         UNCHANGED << now, irq, cond >>,
         timers' \in [Task -> [Time -> Nat]], in_timer_list' \in SUBSET Task,
         \A u \in Task : u # t => timers'[u] = timers[u],
         call[t].pc = "notify_all" => \A v \in Task : ~ InQueue(rq, call[t].q, v)
  PROVE  Base'
<1>1. Acts(c, t) /\ OnlyCall(t) /\ rq' = rq /\ call' \in [Task -> Call]
  BY DEF Returns, OnlyCall
<1>2. Types' /\ cond' = cond
  BY <1>1 DEF Base, Types
<1>3. \A u \in Task : u # t => (Alarmed(u) => Alarmed(u)')
  BY DEF Alarmed
<1> QED BY <1>1, <1>2, <1>3, LocalBase

LEMMA OthersAlarmed ==
  ASSUME Types, NEW t \in Task, NEW d \in Time, set_alarm_wakeup(t, d), irq' = irq
  PROVE  (\A u \in Task : u # t => (Alarmed(u) => Alarmed(u)')) /\ Alarmed(t)'
<1>1. /\ timers'[t][d] = timers[t][d] + 1 /\ timers[t][d] \in Nat
      /\ \A u \in Task : u # t => timers'[u] = timers[u]
  BY AlarmSet
<1>2. timers'[t][d] > 0
  BY <1>1
<1> QED BY <1>1, <1>2 DEF Alarmed

LEMMA TimingBase ==
  ASSUME Base, NEW c \in Cpu, NEW t \in Task, NEW l, NEW q \in WQ, NEW d \in Time,
         Timing(c, t, l, q, d), call[t].pc # "notify_all"
  PROVE  Base'
<1>1. /\ Acts(c, t) /\ OnlyCall(t) /\ rq' = rq /\ call' \in [Task -> Call]
      /\ set_alarm_wakeup(t, d) /\ UNCHANGED << now, irq, cond >> /\ Types
  BY DEF Timing, Becomes, OnlyCall, Base
<1>2. timers' \in [Task -> [Time -> Nat]] /\ in_timer_list' \in SUBSET Task
  BY <1>1, AlarmSet
<1>3. Types' /\ cond' = cond
  BY <1>1, <1>2 DEF Types
<1>4. \A u \in Task : u # t => (Alarmed(u) => Alarmed(u)')
  BY <1>1, OthersAlarmed
<1> QED BY <1>1, <1>3, <1>4, LocalBase

LEMMA SleepingBase ==
  ASSUME Base, NEW c \in Cpu, NEW t \in Task, NEW d \in Time,
         Sleeping(c, t, d), call[t].pc # "notify_all"
  PROVE  Base'
<1>1. /\ Acts(c, t) /\ OnlyCall(t) /\ RQInv(rq') /\ call' \in [Task -> Call]
      /\ SameWaits(rq, rq') /\ BlocksOnly(rq, rq', t) /\ call'[t].pc = "slept"
      /\ set_alarm_wakeup(t, d) /\ UNCHANGED << now, irq, cond >> /\ Types
  BY DEF Sleeping, Becomes, OnlyCall, Base
<1>2. timers' \in [Task -> [Time -> Nat]] /\ in_timer_list' \in SUBSET Task
  BY <1>1, AlarmSet
<1>3. Types' /\ cond' = cond
  BY <1>1, <1>2 DEF Types
<1>4. (\A u \in Task : u # t => (Alarmed(u) => Alarmed(u)')) /\ Alarmed(t)'
  BY <1>1, OthersAlarmed
<1>5. Blocks(t)
  BY <1>1, <1>4 DEF Blocks
<1>6. \A q \in WQ, u \in Task : InQueue(rq, q, u) => InQueue(rq', q, u)
  BY <1>1, SameEntries
<1>7. \A u \in Task : u # t /\ rq'.state[u] = "Blocked" => rq.state[u] = "Blocked"
  BY <1>1 DEF BlocksOnly, SameBlockedBut
<1>8. rq.state[t] # "Blocked"
  BY <1>1 DEF Acts
<1> QED BY <1>1, <1>3, <1>4, <1>5, <1>6, <1>7, <1>8, BaseStep

LEMMA CancelWaitBase ==
  ASSUME Base, NEW c \in Cpu, cancel_events_wait(c)
  PROVE  Base'
<1>1. PICK t : t = rq.current[c]
  OBVIOUS
<1>2. /\ Acts(c, t) /\ call[t].pc = "cancel_wait" /\ call[t].q \in WQ /\ Quiet
      /\ Becomes(t, "cancel_timer", call[t].q, call[t].deadline, call[t].timeout)
      /\ \/ t \notin rq.in_wait_queue /\ rq' = rq
         \/ /\ t \in rq.in_wait_queue /\ RQInv(rq')
            /\ Dequeued(rq, rq', call[t].q, t) /\ SameBlocked(rq, rq')
  BY <1>1, CancelWaitShape
<1>3. t \in Task /\ rq.state[t] # "Blocked" /\ OnlyCall(t) /\ RQInv(rq)
  BY <1>2 DEF Acts, Becomes, Base
<1>4. Types' /\ cond' = cond
  BY <1>2, <1>3, QuietTypes DEF Base, Quiet, OnlyCall
<1>5. RQInv(rq') /\ \A u \in Task : rq'.state[u] = "Blocked" => rq.state[u] = "Blocked"
  BY <1>2, <1>3 DEF SameBlocked
<1>6. \A p \in WQ, u \in Task : u # t /\ InQueue(rq, p, u) => InQueue(rq', p, u)
  BY <1>2, <1>3, DequeuedEntries
<1>7. \A u : Alarmed(u) => Alarmed(u)'
  BY <1>2, QuietAlarm DEF Quiet
<1> QED BY <1>2, <1>3, <1>4, <1>5, <1>6, <1>7, BaseStep

(* Steps of the clock and of the timer interrupt: no call, no condition.   *)
LEMMA IrqBase ==
  ASSUME Base, RQInv(rq'), Types', UNCHANGED << call, cond >>,
         \A u \in Task : rq'.state[u] = "Blocked" =>
           /\ rq.state[u] = "Blocked"
           /\ \A q \in WQ : InQueue(rq, q, u) => InQueue(rq', q, u)
           /\ Alarmed(u) => Alarmed(u)'
  PROVE  Base'
<1>1. NotifiersKept
  BY DEF NotifiersKept
<1>2. \A u \in Task : rq'.state[u] = "Blocked" => Stays(u)
  BY DEF Stays
<1> QED BY <1>1, <1>2, BaseKept

LEMMA TickBase ==
  ASSUME Base, Tick
  PROVE  Base'
<1>1. UNCHANGED << rq, timers, in_timer_list, irq, call, cond >> /\ now' \in Time
  BY ClientAssumption DEF Tick, Base, Types, Time
<1>2. Types' /\ RQInv(rq')
  BY <1>1 DEF Base, Types
<1>3. \A u : Alarmed(u) => Alarmed(u)'
  BY <1>1, QuietAlarm
<1> QED BY <1>1, <1>2, <1>3, IrqBase

LEMMA TimerTickBase ==
  ASSUME Base, NEW c \in Cpu, on_timer_tick(c)
  PROVE  Base'
<1>1. /\ UNCHANGED << rq, timers, in_timer_list, now, call, cond >>
      /\ irq[c] = "none" /\ irq' = [irq EXCEPT ![c] = "check"]
  BY DEF on_timer_tick
<1>2. irq' \in [Cpu -> Task \cup {"none", "check"}] /\ \A e \in Cpu : e # c => irq'[e] = irq[e]
  BY <1>1 DEF Base, Types
<1>3. Types' /\ RQInv(rq')
  BY <1>1, <1>2 DEF Base, Types
<1>4. \A u \in Task : Alarmed(u) => Alarmed(u)'
  <2>1. "none" \notin Task
    BY ClientAssumption
  <2> QED BY <1>1, <1>2, <2>1 DEF Alarmed
<1> QED BY <1>1, <1>3, <1>4, IrqBase

LEMMA ExpireBase ==
  ASSUME Base, NEW c \in Cpu, expire_one(c)
  PROVE  Base'
<1>1. /\ irq[c] = "check" /\ UNCHANGED << rq, in_timer_list, now, call, cond >>
      /\ timers' \in [Task -> [Time -> Nat]] /\ irq' \in [Cpu -> Task \cup {"none", "check"}]
      /\ \A e \in Cpu : e # c => irq'[e] = irq[e]
      /\ \/ irq'[c] = "none" /\ timers' = timers
         \/ \E u \in Task, d \in Time :
              /\ timers[u][d] > 0 /\ d <= now /\ irq'[c] = u
              /\ timers'[u][d] = timers[u][d] - 1
              /\ \A e \in Time : e # d => timers'[u][e] = timers[u][e]
              /\ \A v \in Task : v # u => timers'[v] = timers[v]
  BY ExpireShape
<1>2. Types' /\ RQInv(rq')
  BY <1>1 DEF Base, Types
<1>3. ASSUME NEW u \in Task, Alarmed(u) PROVE Alarmed(u)'
  <2>1. "check" \notin Task
    BY ClientAssumption
  <2>2. CASE \E e \in Cpu : irq[e] = u
    BY <1>1, <2>1, <2>2 DEF Alarmed
  <2>3. CASE \E d \in Time : timers[u][d] > 0
    BY <1>1, <2>3 DEF Alarmed
  <2> QED BY <1>3, <2>2, <2>3 DEF Alarmed
<1> QED BY <1>1, <1>2, <1>3, IrqBase

LEMMA CallbackBase ==
  ASSUME Base, NEW c \in Cpu, callback(c)
  PROVE  Base'
<1>1. PICK h \in Task :
        /\ irq[c] = h /\ in_timer_list' = in_timer_list \ {h}
        /\ RQInv(rq') /\ SameWaits(rq, rq') /\ SameBlockedBut(rq, rq', h)
        /\ rq'.state[h] # "Blocked"
        /\ irq' \in [Cpu -> Task \cup {"none", "check"}] /\ irq'[c] = "check"
        /\ \A e \in Cpu : e # c => irq'[e] = irq[e]
        /\ UNCHANGED << timers, now, call, cond >>
  BY CallbackShape
<1>2. Types'
  BY <1>1 DEF Base, Types
<1>3. \A u \in Task : u # h => (Alarmed(u) => Alarmed(u)')
  BY <1>1 DEF Alarmed
<1>4. \A q \in WQ, u \in Task : InQueue(rq, q, u) => InQueue(rq', q, u)
  BY <1>1, SameEntries
<1>5. \A u \in Task : rq'.state[u] = "Blocked" => u # h /\ rq.state[u] = "Blocked"
  BY <1>1 DEF SameBlockedBut
<1> QED BY <1>1, <1>2, <1>3, <1>4, <1>5, IrqBase
LEMMA CpuBase ==
  ASSUME Base, NEW c \in Cpu, CpuStep(c)
  PROVE  Base'
<1>1. PICK t : t = rq.current[c]
  OBVIOUS
<1>2. \A l : At(c, l) => t \in Task /\ Acts(c, t) /\ call[t].pc = l
  BY <1>1, Actor DEF Acts
<1>3. CASE sleep_return(c)
  <2>1. Returns(c, t) /\ call[t].pc = "slept" /\ Quiet
    BY <1>1, <1>3, SleepReturnShape
  <2>2. t \in Task /\ timers' \in [Task -> [Time -> Nat]] /\ in_timer_list' \in SUBSET Task
    BY <2>1 DEF Returns, Acts, Base, Types, Quiet
  <2> QED BY <2>1, <2>2, ReturnsBase DEF Quiet
<1>4. CASE wait_timeout_block(c)
  <2>1. call[t].pc = "alarmed" /\ Blocking(c, t, "woken", call[t].q) /\ call[t].q \in WQ
    BY <1>1, <1>4, TimedBlockShape
  <2>2. t \in Task
    BY <2>1 DEF Blocking, Acts
  <2> QED BY <2>1, <2>2, BlockingBase
<1>5. CASE wait_timeout_result(c)
  <2>1. PICK b : /\ call[t].pc = "woken"
                 /\ Moves(c, t, "cancel_wait", call[t].q, call[t].deadline, b)
    BY <1>1, <1>5, ResultShape
  <2>2. t \in Task
    BY <2>1 DEF Moves, Acts
  <2> QED BY <2>1, <2>2, MovesBase
<1>6. CASE wait_timeout_until_clock(c)
  <2>1. /\ call[t].pc = "tu_loop"
        /\ \/ Moves(c, t, "tu_check", call[t].q, call[t].deadline, call[t].timeout)
           \/ Moves(c, t, "cancel_wait", call[t].q, call[t].deadline, TRUE)
    BY <1>1, <1>6, ClockShape
  <2>2. t \in Task
    BY <2>1 DEF Moves, Acts
  <2> QED BY <2>1, <2>2, MovesBase
<1>7. CASE wait_timeout_until_check(c)
  <2>1. /\ call[t].pc = "tu_check" /\ call[t].q \in WQ
        /\ \/ Blocking(c, t, "tu_loop", call[t].q)
           \/ Moves(c, t, "cancel_wait", call[t].q, call[t].deadline, call[t].timeout)
    BY <1>1, <1>7, CheckShape
  <2>2. t \in Task
    BY <2>1 DEF Moves, Blocking, Acts
  <2> QED BY <2>1, <2>2, MovesBase, BlockingBase
<1>8. CASE cancel_events_wait(c)
  BY <1>8, CancelWaitBase
<1>9. CASE cancel_events_timer(c)
  <2>1. /\ Returns(c, t) /\ call[t].pc = "cancel_timer" /\ UNCHANGED << now, irq, cond >>
        /\ timers' \in [Task -> [Time -> Nat]] /\ in_timer_list' \in SUBSET Task
        /\ \A u \in Task : u # t => timers'[u] = timers[u]
    BY <1>1, <1>9, CancelTimerShape
  <2>2. t \in Task
    BY <2>1 DEF Returns, Acts
  <2> QED BY <2>1, <2>2, ReturnsBase
<1>10. CASE notify_all_turn(c)
  <2>1. /\ Acts(c, t) /\ call[t].pc = "notify_all" /\ call[t].q \in WQ /\ Quiet
        /\ \/ \E h \in Task : Waking(call[t].q, h)
           \/ rq.queue[call[t].q] = << >> /\ Returns(c, t)
    BY <1>1, <1>10, NotifyAllShape
  <2>2. CASE rq.queue[call[t].q] = << >> /\ Returns(c, t)
    <3>1. \A v \in Task : ~ InQueue(rq, call[t].q, v)
      BY <2>2 DEF InQueue
    <3>2. t \in Task /\ timers' \in [Task -> [Time -> Nat]] /\ in_timer_list' \in SUBSET Task
      BY <2>1 DEF Acts, Base, Types, Quiet
    <3>3. timers' = timers /\ UNCHANGED << now, irq, cond >>
      BY <2>1 DEF Quiet
    <3> QED BY <2>2, <3>1, <3>2, <3>3, ReturnsBase
  <2> QED BY <2>1, <2>2, WakingKeeps
<1>11. CASE spawn(c) \/ yield_now(c)
  BY <1>11, SpawnShape, PassiveBase
<1>12. CASE sleep_until(c)
  <2>1. call[t].pc = "user" /\ \E d \in Time : Sleeping(c, t, d)
    BY <1>1, <1>12, SleepShape
  <2>2. t \in Task
    BY <2>1 DEF Sleeping, Acts
  <2> QED BY <2>1, <2>2, SleepingBase
<1>14. CASE wait(c)
  <2>1. call[t].pc = "user" /\ \E q \in WQ : Blocking(c, t, "cancel_wait", q)
    BY <1>1, <1>14, WaitShape
  <2>2. t \in Task
    BY <2>1 DEF Blocking, Acts
  <2> QED BY <2>1, <2>2, BlockingBase
<1>15. CASE wait_timeout(c) \/ wait_timeout_until(c)
  <2>1. PICK l \in Pc : \E op : timed_wait(c, op, l)
    BY <1>15 DEF wait_timeout, wait_timeout_until, Pc
  <2>2. call[t].pc = "user" /\ \E q \in WQ, d \in Time : Timing(c, t, l, q, d)
    BY <1>1, <2>1, TimedShape
  <2>3. t \in Task
    BY <2>2 DEF Timing, Acts
  <2> QED BY <2>2, <2>3, TimingBase
<1>16. CASE notify_one(c)
  BY <1>16, NotifyShape, WakingKeeps
<1>17. CASE notify_task_call(c)
  BY <1>17, NotifyTaskShape, WakingKeeps
<1>18. CASE signal_condition(c)
  <2>1. /\ Acts(c, t) /\ call[t].pc = "user" /\ rq' = rq
        /\ UNCHANGED << timers, in_timer_list, now, irq >>
    BY <1>1, <1>18, SignalConditionShape
  <2>2. PICK q \in WQ : /\ cond' = [cond EXCEPT ![q] = TRUE]
                        /\ Becomes(t, "notify_all", q, call[t].deadline, call[t].timeout)
    BY <1>1, <1>18, SignalConditionShape
  <2>3. OnlyCall(t) /\ call' \in [Task -> Call] /\ call'[t].pc = "notify_all" /\ call'[t].q = q
    BY <2>2 DEF Becomes, OnlyCall
  <2>4. /\ cond' \in [WQ -> BOOLEAN] /\ t \in Task
        /\ \A p \in WQ : cond'[p] => cond[p] \/ p = q
    BY <2>1, <2>2 DEF Base, Types, Acts
  <2>5. Types'
    BY <2>1, <2>3, <2>4 DEF Base, Types
  <2>6. \A u \in Task : Alarmed(u) => Alarmed(u)'
    BY <2>1, QuietAlarm
  <2> QED BY <2>1, <2>3, <2>4, <2>5, <2>6, LocalBase
<1>19. CASE consume_condition(c)
  <2>1. Acts(c, t) /\ call[t].pc = "user" /\ t \in Task
    BY <1>2, <1>19 DEF consume_condition, Calls
  <2>2. UNCHANGED << rq, timers, in_timer_list, now, irq, call >>
    BY <1>19 DEF consume_condition, timerVars
  <2>3. PICK q \in WQ : cond' = [cond EXCEPT ![q] = FALSE]
    BY <1>19 DEF consume_condition
  <2>4. cond' \in [WQ -> BOOLEAN] /\ \A p \in WQ : cond'[p] => cond[p]
    BY <2>3 DEF Base, Types
  <2>5. Types' /\ OnlyCall(t)
    BY <2>2, <2>4 DEF Base, Types, OnlyCall
  <2>6. \A u \in Task : Alarmed(u) => Alarmed(u)'
    BY <2>2, QuietAlarm
  <2> QED BY <2>1, <2>2, <2>4, <2>5, <2>6, LocalBase
<1>20. CASE wait_until(c)
  <2>1. PICK q \in WQ :
          /\ call[t].pc \in {"user", "until"}
          /\ \/ Blocking(c, t, "until", q)
             \/ Moves(c, t, "cancel_wait", q, call[t].deadline, call[t].timeout)
    BY <1>1, <1>20, UntilShape
  <2>2. t \in Task
    BY <2>1 DEF Moves, Blocking, Acts
  <2> QED BY <2>1, <2>2, MovesBase, BlockingBase
<1> QED
  BY <1>3, <1>4, <1>5, <1>6, <1>7, <1>8, <1>9, <1>10, <1>11, <1>12, <1>14, <1>15,
     <1>16, <1>17, <1>18, <1>19, <1>20 DEF CpuStep, Proceed, Start

LEMMA NextBase == Base /\ [Next]_vars => Base'
<1> SUFFICES ASSUME Base, [Next]_vars PROVE Base'
  OBVIOUS
<1>1. CASE Tick
  BY <1>1, TickBase
<1>2. ASSUME NEW c \in Cpu, Irq(c) PROVE Base'
  BY <1>2, TimerTickBase, ExpireBase, CallbackBase DEF Irq
<1>3. ASSUME NEW c \in Cpu, CpuStep(c) PROVE Base'
  BY <1>3, CpuBase
<1>4. CASE UNCHANGED vars
  BY <1>4 DEF vars, Base, RQInv, RQType, ReadyListOK, CurrentOK, Types, BlockedCanWake,
              Alarmed, InQueue, NoMissedCondition
<1> QED BY <1>1, <1>2, <1>3, <1>4 DEF Next

(* The ready queue links each Ready task at most once and nothing else,    *)
(* and a task is Running exactly when it is current on one CPU, whatever   *)
(* calls and interrupts interleave (run_queue.rs).                         *)
THEOREM RunQueueConsistent == Spec => []RunQueueOK
<1>1. Init => Base
  BY InitBase
<1>2. Base => RunQueueOK
  BY DEF Base, RQInv, RunQueueOK
<1> QED BY <1>1, <1>2, NextBase, PTL DEF Spec

(* Every Blocked task is in the wait queue of its call, or its alarm is    *)
(* set or in delivery: someone is left to wake it (block_current).         *)
THEOREM BlockedHasWaker == Spec => []BlockedCanWake
<1>1. Init => Base
  BY InitBase
<1>2. Base => BlockedCanWake
  BY DEF Base
<1> QED BY <1>1, <1>2, NextBase, PTL DEF Spec

(* While the condition of a queue holds, a task blocked for it has a       *)
(* notifier on its way (wait_until, wait_timeout_until, notify_all).       *)
THEOREM NoWakeupMissed == Spec => []NoMissedCondition
<1>1. Init => Base
  BY InitBase
<1>2. Base => NoMissedCondition
  BY DEF Base
<1> QED BY <1>1, <1>2, NextBase, PTL DEF Spec

-----------------------------------------------------------------------------
(* One CPU.                                                                *)

SoloOf(t) == QueueOf(t) /\ AlarmOf(t) /\ ResultOf(t)

(* Nothing about task u changes, but that time may pass.                   *)
Untouched(u) ==
  /\ call'[u] = call[u] /\ timers'[u] = timers[u] /\ now <= now'
  /\ u \in rq'.in_wait_queue <=> u \in rq.in_wait_queue
  /\ \A p \in WQ : InQueue(rq', p, u) <=> InQueue(rq, p, u)
  /\ rq'.state[u] = "Blocked" <=> rq.state[u] = "Blocked"
  /\ u \in in_timer_list' <=> u \in in_timer_list
  /\ \A c \in Cpu : irq'[c] = u <=> irq[c] = u

LEMMA UntouchedKept ==
  ASSUME Types, Types', NEW u \in Task, SoloOf(u), Untouched(u)
  PROVE  SoloOf(u)'
<1>1. /\ now \in Int /\ now' \in Int /\ now <= now' /\ call[u].deadline \in Int
  BY CallFields, ClientAssumption DEF Types, Time, Untouched
<1>2. call[u].deadline <= now => call[u].deadline <= now'
  BY <1>1
<1>3. Alarmed(u)' <=> Alarmed(u)
  BY DEF Alarmed, Untouched
<1>4. QueueOf(u)'
  <2>1. call[u].q \in WQ
    BY CallFields
  <2> QED BY <1>2, <2>1 DEF Untouched, SoloOf, QueueOf
<1>5. AlarmOf(u)'
  BY <1>2, <1>3 DEF Untouched, SoloOf, AlarmOf
<1>6. ResultOf(u)'
  BY <1>2 DEF Untouched, SoloOf, ResultOf
<1> QED BY <1>4, <1>5, <1>6 DEF SoloOf

LEMMA SoloSplit == Solo <=> (\A p \in WQ : IsInjective(rq.queue[p])) /\ \A t \in Task : SoloOf(t)
BY DEF Solo, SoloOf

(* A step that touches no task, and one that touches task t.               *)
LEMMA SoloStill ==
  ASSUME Base, Base', Solo, \A u \in Task : Untouched(u), rq'.queue = rq.queue
  PROVE  Solo'
<1>1. \A u \in Task : SoloOf(u)'
  BY SoloSplit, UntouchedKept DEF Base
<1>2. \A p \in WQ : IsInjective(rq'.queue[p])
  BY SoloSplit
<1> QED BY <1>1, <1>2 DEF Solo, SoloOf

LEMMA SoloStep ==
  ASSUME Base, Base', Solo, NEW t \in Task, \A u \in Task : u # t => Untouched(u),
         \A p \in WQ : IsInjective(rq'.queue[p]), SoloOf(t)'
  PROVE  Solo'
<1>1. \A u \in Task : SoloOf(u)'
  BY SoloSplit, UntouchedKept DEF Base
<1> QED BY <1>1 DEF Solo, SoloOf

(* What is left of an earlier call of task t: nothing.                     *)
Out(t) == t \notin rq.in_wait_queue /\ \A p \in WQ : ~ InQueue(rq, p, t)

Silent(t) ==
  /\ t \notin in_timer_list /\ ~ Alarmed(t)
  /\ \A d \in Time : timers[t][d] = 0
  /\ \A c \in Cpu : irq[c] # t

LEMMA NotFlagged ==
  ASSUME NEW t, QueueOf(t),
         \/ call[t].pc \notin {"until", "woken", "tu_loop", "cancel_wait"}
         \/ call[t].pc = "until" /\ rq.state[t] # "Blocked"
  PROVE  Out(t)
BY DEF QueueOf, Out

LEMMA NotAlarmed ==
  ASSUME Types, NEW t \in Task, AlarmOf(t),
         \/ call[t].pc \in {"user", "until", "notify_all"}
         \/ call[t].pc = "slept" /\ rq.state[t] # "Blocked"
         \/ t \notin in_timer_list
  PROVE  Silent(t)
<1>1. ~ Alarmed(t) /\ t \notin in_timer_list
  BY DEF AlarmOf
<1>2. \A d \in Time : timers[t][d] = 0
  <2>1. \A d \in Time : timers[t][d] \in Nat /\ ~ (timers[t][d] > 0)
    BY <1>1 DEF Types, Alarmed
  <2> QED BY <2>1
<1> QED BY <1>1, <1>2 DEF Silent, Alarmed

(* A task with nothing left, wherever it is.                               *)
LEMMA OutIsQueueOf ==
  ASSUME NEW t, Out(t)
  PROVE  QueueOf(t)
BY DEF Out, QueueOf

LEMMA SilentIsAlarmOf ==
  ASSUME NEW t, Silent(t)
  PROVE  AlarmOf(t)
<1>1. \A d \in Time : ~ (timers[t][d] > 0)
  BY DEF Silent
<1> QED BY <1>1 DEF Silent, AlarmOf

(* What the actions leave alone.                                           *)
LEMMA QuietUntouched ==
  ASSUME Types, Quiet, NEW u \in Task, call'[u] = call[u],
         u \in rq'.in_wait_queue <=> u \in rq.in_wait_queue,
         \A p \in WQ : InQueue(rq', p, u) <=> InQueue(rq, p, u),
         rq'.state[u] = "Blocked" <=> rq.state[u] = "Blocked"
  PROVE  Untouched(u)
<1>1. now <= now'
  BY ClientAssumption DEF Types, Time, Quiet
<1> QED BY <1>1 DEF Quiet, Untouched

LEMMA SameNow ==
  ASSUME Types, now' = now
  PROVE  now <= now'
BY ClientAssumption DEF Types, Time

LEMMA InitSolo ==
  ASSUME Init
  PROVE  Solo
<1>1. rq.queue = [q \in WQ |-> << >>] /\ rq.in_wait_queue = {}
  BY InitRQInv, ClientAssumption DEF Init
<1>2. \A p \in WQ : IsInjective(rq.queue[p])
  BY <1>1 DEF IsInjective
<1>3. ASSUME NEW t \in Task PROVE SoloOf(t)
  <2>1. Out(t)
    BY <1>1 DEF Out, InQueue
  <2>2. /\ call[t] = NoCall /\ now = 0
        /\ \A d \in Time : timers[t][d] = 0
        /\ \A c \in Cpu : irq[c] # t
    BY ClientAssumption DEF Init
  <2>3. Silent(t)
    BY <2>2 DEF Init, Silent, Alarmed
  <2>4. ResultOf(t)
    BY <2>2, NoCallIn DEF ResultOf
  <2> QED BY <2>1, <2>3, <2>4, OutIsQueueOf, SilentIsAlarmOf DEF SoloOf
<1> QED BY <1>2, <1>3, SoloSplit
-----------------------------------------------------------------------------
(* The steps, one kind at a time.                                          *)

(* The flags, entries and Blocked tasks that Enqueued and Dequeued leave.  *)
LEMMA OthersOfBlocking ==
  ASSUME Base, NEW c \in Cpu, NEW t \in Task, NEW l, NEW q \in WQ, Blocking(c, t, l, q),
         NEW u \in Task, u # t
  PROVE  Untouched(u)
<1>1. /\ RQInv(rq) /\ RQInv(rq') /\ Enqueued(rq, rq', q, t) /\ BlocksOnly(rq, rq', t)
      /\ OnlyCall(t) /\ Quiet /\ Types
  BY DEF Base, Blocking, Becomes
<1>2. \A p \in WQ : InQueue(rq', p, u) <=> InQueue(rq, p, u)
  BY <1>1, EnqueuedEntries
<1>3. call'[u] = call[u] /\ (u \in rq'.in_wait_queue <=> u \in rq.in_wait_queue)
  BY <1>1 DEF OnlyCall, Enqueued
<1>4. rq'.state[u] = "Blocked" <=> rq.state[u] = "Blocked"
  BY <1>1 DEF BlocksOnly, SameBlockedBut
<1> QED BY <1>1, <1>2, <1>3, <1>4, QuietUntouched

LEMMA BlockingSolo ==
  ASSUME Base, Base', Solo, NEW c \in Cpu, NEW t \in Task, NEW l, NEW q \in WQ,
         Blocking(c, t, l, q), call[t].pc \in {"user", "until", "alarmed", "tu_check"},
         l \in {"cancel_wait", "until", "woken", "tu_loop"},
         l = "until" => call[t].pc \in {"user", "until"}
  PROVE  Solo'
<1>1. /\ RQInv(rq) /\ RQInv(rq') /\ Enqueued(rq, rq', q, t) /\ BlocksOnly(rq, rq', t)
      /\ Quiet /\ Types /\ rq.state[t] # "Blocked"
      /\ call'[t].pc = l /\ call'[t].q = q /\ call'[t].deadline = call[t].deadline
      /\ call'[t].timeout = call[t].timeout
  BY DEF Base, Blocking, Becomes, Acts
<1>2. SoloOf(t) /\ \A p \in WQ : IsInjective(rq.queue[p])
  BY SoloSplit
<1>3. Out(t)
  BY <1>1, <1>2, NotFlagged DEF SoloOf
<1>4. /\ \A p \in WQ : \A u : InQueue(rq', p, u) <=> InQueue(rq, p, u) \/ (p = q /\ u = t)
      /\ ~ InQueue(rq, q, t) /\ IsInjective(rq.queue[q]) => IsInjective(rq'.queue[q])
      /\ \A p \in WQ : p # q => rq'.queue[p] = rq.queue[p]
  BY <1>1, EnqueuedEntries
<1>5. \A p \in WQ : IsInjective(rq'.queue[p])
  BY <1>2, <1>3, <1>4 DEF Out
<1>6. rq'.state[t] = "Blocked" /\ t \in rq'.in_wait_queue
  BY <1>1 DEF BlocksOnly, Enqueued
<1>7. QueueOf(t)'
  BY <1>1, <1>3, <1>4, <1>6 DEF Out, QueueOf
<1>8. timers' = timers /\ irq' = irq /\ in_timer_list' = in_timer_list /\ now' = now
  BY <1>1 DEF Quiet
<1>9. Alarmed(t)' <=> Alarmed(t)
  BY <1>8, QuietAlarm
<1>10. AlarmOf(t)'
  BY <1>1, <1>2, <1>6, <1>8, <1>9 DEF SoloOf, AlarmOf
<1>11. ResultOf(t)'
  BY <1>1, <1>2, <1>6, <1>8 DEF SoloOf, ResultOf
<1>12. \A u \in Task : u # t => Untouched(u)
  BY OthersOfBlocking
<1> QED BY <1>5, <1>7, <1>10, <1>11, <1>12, SoloStep DEF SoloOf

(* A step that leaves rq alone and changes the call of t only.             *)
LEMMA OthersOfLocal ==
  ASSUME Types, NEW t \in Task, OnlyCall(t), rq' = rq, Quiet, NEW u \in Task, u # t
  PROVE  Untouched(u)
BY QuietUntouched DEF OnlyCall

LEMMA MovesSolo ==
  ASSUME Base, Base', Solo, NEW c \in Cpu, NEW t \in Task, NEW l, NEW q, NEW b,
         Moves(c, t, l, q, call[t].deadline, b), l \in {"cancel_wait", "tu_check"},
         b => call[t].deadline <= now,
         t \in rq.in_wait_queue => q = call[t].q /\ l = "cancel_wait"
  PROVE  Solo'
<1>1. /\ rq' = rq /\ Quiet /\ Types /\ rq.state[t] # "Blocked" /\ OnlyCall(t)
      /\ call'[t].pc = l /\ call'[t].q = q /\ call'[t].deadline = call[t].deadline
      /\ call'[t].timeout = b
  BY DEF Base, Moves, Becomes, Acts
<1>2. SoloOf(t) /\ \A p \in WQ : IsInjective(rq.queue[p])
  BY SoloSplit
<1>3. QueueOf(t)'
  <2>1. now' = now
    BY <1>1 DEF Quiet
  <2> QED BY <1>1, <1>2, <2>1 DEF SoloOf, QueueOf
<1>4. timers' = timers /\ irq' = irq /\ in_timer_list' = in_timer_list /\ now' = now
  BY <1>1 DEF Quiet
<1>5. Alarmed(t)' <=> Alarmed(t)
  BY <1>4, QuietAlarm
<1>6. AlarmOf(t)'
  BY <1>1, <1>2, <1>4, <1>5 DEF SoloOf, AlarmOf
<1>7. ResultOf(t)'
  BY <1>1, <1>4 DEF ResultOf
<1>8. \A u \in Task : u # t => Untouched(u)
  BY <1>1, OthersOfLocal
<1>9. \A p \in WQ : IsInjective(rq'.queue[p])
  BY <1>1, <1>2
<1> QED BY <1>3, <1>6, <1>7, <1>8, <1>9, SoloStep DEF SoloOf

(* An alarm set by a task that has none.                                   *)
LEMMA FirstAlarm ==
  ASSUME Types, NEW t \in Task, NEW d \in Time, set_alarm_wakeup(t, d), Silent(t),
         UNCHANGED << now, irq >>, call'[t].deadline = d,
         call'[t].pc \notin {"user", "until", "notify_all"},
         call'[t].pc = "slept" => rq'.state[t] = "Blocked"
  PROVE  AlarmOf(t)'
<1>1. /\ in_timer_list' = in_timer_list \cup {t}
      /\ timers'[t][d] = timers[t][d] + 1 /\ \A e \in Time : e # d => timers'[t][e] = timers[t][e]
  BY AlarmSet
<1>2. timers'[t][d] = 1 /\ \A e \in Time : e # d => timers'[t][e] = 0
  BY <1>1 DEF Silent
<1>3. \A e \in Time : timers'[t][e] > 0 => timers'[t][e] = 1 /\ e = d
  BY <1>2
<1>4. Alarmed(t)' /\ \A c \in Cpu : irq'[c] # t
  BY <1>2 DEF Alarmed, Silent
<1> QED BY <1>1, <1>3, <1>4 DEF AlarmOf

LEMMA OthersOfAlarm ==
  ASSUME Types, NEW t \in Task, NEW d \in Time, set_alarm_wakeup(t, d), OnlyCall(t),
         SameWaits(rq, rq'), SameBlockedBut(rq, rq', t), UNCHANGED << now, irq >>,
         NEW u \in Task, u # t
  PROVE  Untouched(u)
<1>1. timers'[u] = timers[u] /\ (u \in in_timer_list' <=> u \in in_timer_list)
  BY AlarmSet
<1>2. now <= now'
  BY SameNow
<1>3. \A p \in WQ : InQueue(rq', p, u) <=> InQueue(rq, p, u)
  BY SameEntries
<1>4. call'[u] = call[u] /\ (rq'.state[u] = "Blocked" <=> rq.state[u] = "Blocked")
  BY DEF OnlyCall, SameBlockedBut
<1>5. u \in rq'.in_wait_queue <=> u \in rq.in_wait_queue
  BY DEF SameWaits
<1> QED BY <1>1, <1>2, <1>3, <1>4, <1>5 DEF Untouched

(* sleep_until, wait_timeout, wait_timeout_until.                          *)
LEMMA AlarmSolo ==
  ASSUME Base, Base', Solo, NEW t \in Task, NEW d \in Time, call[t].pc = "user",
         set_alarm_wakeup(t, d), OnlyCall(t), UNCHANGED << now, irq >>,
         SameWaits(rq, rq'), SameBlockedBut(rq, rq', t),
         call'[t].deadline = d, ~ call'[t].timeout,
         \/ call'[t].pc = "slept" /\ rq'.state[t] = "Blocked"
         \/ call'[t].pc \in {"alarmed", "tu_loop"}
  PROVE  Solo'
<1>1. SoloOf(t) /\ (\A p \in WQ : IsInjective(rq.queue[p])) /\ Types
  BY SoloSplit DEF Base
<1>2. Out(t) /\ Silent(t)
  BY <1>1, NotFlagged, NotAlarmed DEF SoloOf
<1>3. Out(t)'
  <2>1. \A p \in WQ : InQueue(rq', p, t) <=> InQueue(rq, p, t)
    BY SameEntries
  <2> QED BY <1>2, <2>1 DEF Out, SameWaits
<1>4. QueueOf(t)'
  BY <1>3 DEF Out, QueueOf
<1>5. AlarmOf(t)'
  BY <1>1, <1>2, FirstAlarm
<1>6. ResultOf(t)'
  BY DEF ResultOf
<1>7. \A u \in Task : u # t => Untouched(u)
  BY <1>1, OthersOfAlarm
<1>8. \A p \in WQ : IsInjective(rq'.queue[p])
  BY <1>1 DEF SameWaits
<1> QED BY <1>4, <1>5, <1>6, <1>7, <1>8, SoloStep DEF SoloOf
(* A task t leaves queue q, that of its call: it is in no queue then.      *)
LEMMA LeavesQueue ==
  ASSUME Base, Base', Solo, NEW q \in WQ, NEW t \in Task, Dequeued(rq, rq', q, t),
         InQueue(rq, q, t)
  PROVE  /\ Out(t)' /\ \A p \in WQ : IsInjective(rq'.queue[p])
         /\ \A u \in Task : u # t =>
              /\ u \in rq'.in_wait_queue <=> u \in rq.in_wait_queue
              /\ \A p \in WQ : InQueue(rq', p, u) <=> InQueue(rq, p, u)
<1>1. SoloOf(t) /\ (\A p \in WQ : IsInjective(rq.queue[p])) /\ RQInv(rq) /\ RQInv(rq')
  BY SoloSplit DEF Base
<1>2. /\ \A p \in WQ : \A u : InQueue(rq', p, u) <=> InQueue(rq, p, u) /\ ~ (p = q /\ u = t)
      /\ IsInjective(rq'.queue[q])
  BY <1>1, DequeuedEntries
<1>3. \A p \in WQ : IsInjective(rq'.queue[p])
  BY <1>1, <1>2 DEF Dequeued
<1>4. rq'.in_wait_queue = rq.in_wait_queue \ {t}
  BY DEF Dequeued
<1>5. \A p \in WQ : InQueue(rq, p, t) => p = q
  BY <1>1 DEF SoloOf, QueueOf
<1> QED BY <1>2, <1>3, <1>4, <1>5 DEF Out

LEMMA WakingSolo ==
  ASSUME Base, Base', Solo, NEW q \in WQ, NEW h \in Task, Waking(q, h)
  PROVE  Solo'
<1>1. /\ RQInv(rq) /\ Dequeued(rq, rq', q, h) /\ SameBlockedBut(rq, rq', h)
      /\ rq'.state[h] # "Blocked" /\ h \in ToSet(rq.queue[q]) /\ call' = call /\ Quiet /\ Types
  BY DEF Base, Waking
<1>2. InQueue(rq, q, h) /\ SoloOf(h)
  BY <1>1, InQueueSet, SoloSplit
<1>3. /\ Out(h)' /\ \A p \in WQ : IsInjective(rq'.queue[p])
      /\ \A u \in Task : u # h =>
           /\ u \in rq'.in_wait_queue <=> u \in rq.in_wait_queue
           /\ \A p \in WQ : InQueue(rq', p, u) <=> InQueue(rq, p, u)
  BY <1>1, <1>2, LeavesQueue
<1>4. QueueOf(h)'
  BY <1>3 DEF Out, QueueOf
<1>5. timers' = timers /\ irq' = irq /\ in_timer_list' = in_timer_list /\ now' = now
  BY <1>1 DEF Quiet
<1>6. Alarmed(h)' <=> Alarmed(h)
  BY <1>5, QuietAlarm
<1>7. call[h].pc # "slept"
  BY <1>2 DEF SoloOf, QueueOf
<1>8. AlarmOf(h)'
  BY <1>1, <1>2, <1>5, <1>6, <1>7 DEF SoloOf, AlarmOf
<1>9. ResultOf(h)'
  BY <1>1, <1>2, <1>5, <1>7 DEF SoloOf, ResultOf
<1>10. \A u \in Task : u # h => Untouched(u)
  <2>1. \A u \in Task : u # h => (rq'.state[u] = "Blocked" <=> rq.state[u] = "Blocked")
    BY <1>1 DEF SameBlockedBut
  <2> QED BY <1>1, <1>3, <2>1, QuietUntouched
<1> QED BY <1>3, <1>4, <1>8, <1>9, <1>10, SoloStep DEF SoloOf

LEMMA CancelWaitSolo ==
  ASSUME Base, Base', Solo, NEW c \in Cpu, cancel_events_wait(c)
  PROVE  Solo'
<1>1. PICK t : t = rq.current[c]
  OBVIOUS
<1>2. /\ Acts(c, t) /\ call[t].pc = "cancel_wait" /\ call[t].q \in WQ /\ Quiet
      /\ Becomes(t, "cancel_timer", call[t].q, call[t].deadline, call[t].timeout)
      /\ \/ t \notin rq.in_wait_queue /\ rq' = rq
         \/ /\ t \in rq.in_wait_queue /\ RQInv(rq')
            /\ Dequeued(rq, rq', call[t].q, t) /\ SameBlocked(rq, rq')
  BY <1>1, CancelWaitShape
<1>3. t \in Task /\ OnlyCall(t) /\ Types
  BY <1>2 DEF Acts, Becomes, Base
<1>4. SoloOf(t) /\ \A p \in WQ : IsInjective(rq.queue[p])
  BY <1>3, SoloSplit
<1>5. /\ Out(t)' /\ \A p \in WQ : IsInjective(rq'.queue[p])
      /\ \A u \in Task : u # t =>
           /\ u \in rq'.in_wait_queue <=> u \in rq.in_wait_queue
           /\ \A p \in WQ : InQueue(rq', p, u) <=> InQueue(rq, p, u)
  <2>1. CASE t \notin rq.in_wait_queue /\ rq' = rq
    <3>1. Out(t)
      BY <1>4, <2>1 DEF SoloOf, QueueOf, Out
    <3> QED BY <1>4, <2>1, <3>1 DEF Out
  <2>2. CASE t \in rq.in_wait_queue /\ Dequeued(rq, rq', call[t].q, t)
    <3>1. InQueue(rq, call[t].q, t)
      BY <1>4, <2>2 DEF SoloOf, QueueOf
    <3> QED BY <1>2, <1>3, <2>2, <3>1, LeavesQueue
  <2> QED BY <1>2, <2>1, <2>2
<1>6. QueueOf(t)'
  BY <1>5 DEF Out, QueueOf
<1>7. timers' = timers /\ irq' = irq /\ in_timer_list' = in_timer_list /\ now' = now
  BY <1>2 DEF Quiet
<1>8. Alarmed(t)' <=> Alarmed(t)
  BY <1>7, QuietAlarm
<1>9. /\ call'[t].pc = "cancel_timer" /\ call'[t].deadline = call[t].deadline
      /\ call'[t].timeout = call[t].timeout
  BY <1>2 DEF Becomes
<1>10. AlarmOf(t)'
  BY <1>4, <1>7, <1>8, <1>9 DEF SoloOf, AlarmOf
<1>11. ResultOf(t)'
  BY <1>4, <1>7, <1>9 DEF SoloOf, ResultOf
<1>12. ASSUME NEW u \in Task, u # t PROVE Untouched(u)
  <2>1. call'[u] = call[u] /\ (rq'.state[u] = "Blocked" <=> rq.state[u] = "Blocked")
    BY <1>2, <1>3, <1>12 DEF OnlyCall, SameBlocked
  <2> QED BY <1>2, <1>3, <1>5, <1>12, <2>1, QuietUntouched
<1> QED BY <1>3, <1>5, <1>6, <1>10, <1>11, <1>12, SoloStep DEF SoloOf

(* A call returns, and nothing of it is left.                              *)
LEMMA ReturnsSolo ==
  ASSUME Base, Base', Solo, NEW c \in Cpu, NEW t \in Task, Returns(c, t), Out(t), Silent(t)',
         UNCHANGED << now, irq >>,
         \A u \in Task : u # t => timers'[u] = timers[u] /\ (u \in in_timer_list' <=> u \in in_timer_list)
  PROVE  Solo'
<1>1. rq' = rq /\ OnlyCall(t) /\ call'[t] = NoCall /\ Types
  BY DEF Returns, Base
<1>2. \A p \in WQ : IsInjective(rq'.queue[p])
  BY <1>1, SoloSplit
<1>3. QueueOf(t)'
  BY <1>1 DEF Out, QueueOf
<1>4. AlarmOf(t)'
  <2>1. \A d \in Time : ~ (timers'[t][d] > 0)
    BY DEF Silent
  <2> QED BY <2>1 DEF Silent, AlarmOf
<1>5. ResultOf(t)'
  BY <1>1, NoCallIn DEF ResultOf
<1>6. now <= now'
  BY <1>1, SameNow
<1>7. \A u \in Task : u # t => Untouched(u)
  BY <1>1, <1>6 DEF Untouched, OnlyCall
<1> QED BY <1>2, <1>3, <1>4, <1>5, <1>7, SoloStep DEF SoloOf

LEMMA QuietSilent ==
  ASSUME NEW t, Silent(t), Quiet
  PROVE  Silent(t)'
BY DEF Silent, Quiet, Alarmed

LEMMA SleepReturnSolo ==
  ASSUME Base, Base', Solo, NEW c \in Cpu, sleep_return(c)
  PROVE  Solo'
<1>1. PICK t : t = rq.current[c]
  OBVIOUS
<1>2. Returns(c, t) /\ call[t].pc = "slept" /\ Quiet
  BY <1>1, SleepReturnShape
<1>3. t \in Task /\ rq.state[t] # "Blocked" /\ Types
  BY <1>2 DEF Returns, Acts, Base
<1>4. QueueOf(t) /\ AlarmOf(t)
  BY <1>3 DEF Solo
<1>5. Out(t) /\ Silent(t)
  BY <1>2, <1>3, <1>4, NotFlagged, NotAlarmed
<1>6. Silent(t)'
  BY <1>2, <1>5, QuietSilent
<1> QED BY <1>2, <1>3, <1>5, <1>6, ReturnsSolo DEF Quiet

LEMMA CancelTimerSolo ==
  ASSUME Base, Base', Solo, SMP = 1, NEW c \in Cpu, cancel_events_timer(c)
  PROVE  Solo'
<1>1. PICK t : t = rq.current[c]
  OBVIOUS
<1>2. /\ Returns(c, t) /\ call[t].pc = "cancel_timer" /\ UNCHANGED << now, irq, cond >>
      /\ \A u \in Task : u # t => timers'[u] = timers[u] /\ (u \in in_timer_list' <=> u \in in_timer_list)
      /\ IF t \in in_timer_list
           THEN t \notin in_timer_list' /\ \A d \in Time : timers'[t][d] = 0
           ELSE in_timer_list' = in_timer_list /\ timers' = timers
  BY <1>1, CancelTimerShape
<1>3. t \in Task /\ irq[c] = "none" /\ Types
  BY <1>2 DEF Returns, Acts, Base
<1>4. QueueOf(t) /\ AlarmOf(t)
  BY <1>3 DEF Solo
<1>5. Out(t)
  BY <1>2, <1>4, NotFlagged
<1>6. Silent(t)'
  <2>1. CASE t \in in_timer_list
    <3>1. t \notin in_timer_list' /\ \A d \in Time : timers'[t][d] = 0
      BY <1>2, <2>1
    <3>2. \A d \in Cpu : irq'[d] # t
      <4>1. \A d \in Cpu : d = c
        BY DEF Cpu
      <4> QED BY <1>2, <1>3, <4>1, ClientAssumption
    <3> QED BY <3>1, <3>2 DEF Silent, Alarmed
  <2>2. CASE t \notin in_timer_list
    <3>1. Silent(t)
      BY <1>3, <1>4, <2>2, NotAlarmed
    <3> QED BY <1>2, <2>2, <3>1 DEF Silent, Alarmed
  <2> QED BY <2>1, <2>2
<1> QED BY <1>2, <1>3, <1>5, <1>6, ReturnsSolo

LEMMA NotifyAllSolo ==
  ASSUME Base, Base', Solo, NEW c \in Cpu, notify_all_turn(c)
  PROVE  Solo'
<1>1. PICK t : t = rq.current[c]
  OBVIOUS
<1>2. /\ Acts(c, t) /\ call[t].pc = "notify_all" /\ call[t].q \in WQ /\ Quiet
      /\ \/ \E h \in Task : Waking(call[t].q, h)
         \/ rq.queue[call[t].q] = << >> /\ Returns(c, t)
  BY <1>1, NotifyAllShape
<1>3. CASE \E h \in Task : Waking(call[t].q, h)
  BY <1>2, <1>3, WakingSolo
<1>4. CASE Returns(c, t)
  <2>1. t \in Task /\ Types
    BY <1>2 DEF Acts, Base
  <2>2. QueueOf(t) /\ AlarmOf(t)
    BY <2>1 DEF Solo
  <2>3. Out(t) /\ Silent(t)
    BY <1>2, <2>1, <2>2, NotFlagged, NotAlarmed
  <2>4. Silent(t)'
    BY <1>2, <2>3, QuietSilent
  <2> QED BY <1>2, <1>4, <2>1, <2>3, <2>4, ReturnsSolo DEF Quiet
<1> QED BY <1>2, <1>3, <1>4

LEMMA SignalConditionSolo ==
  ASSUME Base, Base', Solo, NEW c \in Cpu, signal_condition(c)
  PROVE  Solo'
<1>1. PICK t : t = rq.current[c]
  OBVIOUS
<1>2. /\ Acts(c, t) /\ call[t].pc = "user" /\ rq' = rq
      /\ UNCHANGED << timers, in_timer_list, now, irq >>
      /\ \E q \in WQ : Becomes(t, "notify_all", q, call[t].deadline, call[t].timeout)
  BY <1>1, SignalConditionShape
<1>3. /\ t \in Task /\ Types /\ OnlyCall(t) /\ call'[t].pc = "notify_all"
      /\ call'[t].deadline = call[t].deadline /\ call'[t].timeout = call[t].timeout
  BY <1>2 DEF Acts, Base, Becomes
<1>4. SoloOf(t) /\ \A p \in WQ : IsInjective(rq.queue[p])
  BY <1>3, SoloSplit
<1>5. Out(t) /\ Silent(t)
  BY <1>2, <1>3, <1>4, NotFlagged, NotAlarmed DEF SoloOf
<1>6. QueueOf(t)'
  BY <1>2, <1>5 DEF Out, QueueOf
<1>7. AlarmOf(t)'
  <2>1. \A d \in Time : ~ (timers'[t][d] > 0)
    BY <1>2, <1>5 DEF Silent
  <2>2. ~ Alarmed(t)' /\ t \notin in_timer_list' /\ \A e \in Cpu : irq'[e] # t
    BY <1>2, <1>5 DEF Silent, Alarmed
  <2> QED BY <2>1, <2>2 DEF AlarmOf
<1>8. ResultOf(t)'
  BY <1>2, <1>3, <1>4 DEF SoloOf, ResultOf
<1>9. now <= now'
  BY <1>2, <1>3, SameNow
<1>10. \A u \in Task : u # t => Untouched(u)
  BY <1>2, <1>3, <1>9 DEF Untouched, OnlyCall
<1>11. \A p \in WQ : IsInjective(rq'.queue[p])
  BY <1>2, <1>4
<1> QED BY <1>3, <1>6, <1>7, <1>8, <1>10, <1>11, SoloStep DEF SoloOf
(* Steps that touch no task.                                               *)
LEMMA StillSolo ==
  ASSUME Base, Base', Solo, SameWaits(rq, rq'), SameBlocked(rq, rq'), call' = call,
         UNCHANGED << timers, in_timer_list, irq >>, now <= now'
  PROVE  Solo'
<1>1. \A u \in Task, p \in WQ : InQueue(rq', p, u) <=> InQueue(rq, p, u)
  BY SameEntries
<1>2. \A u \in Task : Untouched(u)
  BY <1>1 DEF Untouched, SameWaits, SameBlocked
<1> QED BY <1>2, SoloStill DEF SameWaits

LEMMA TimerTickSolo ==
  ASSUME Base, Base', Solo, NEW c \in Cpu, on_timer_tick(c)
  PROVE  Solo'
<1>1. /\ UNCHANGED << rq, timers, in_timer_list, now, call, cond >>
      /\ irq[c] = "none" /\ irq' = [irq EXCEPT ![c] = "check"] /\ Types
  BY DEF on_timer_tick, Base
<1>2. irq'[c] = "check" /\ \A e \in Cpu : e # c => irq'[e] = irq[e]
  BY <1>1 DEF Types
<1>3. \A u \in Task, e \in Cpu : irq'[e] = u <=> irq[e] = u
  BY <1>1, <1>2, ClientAssumption
<1>4. now <= now'
  BY <1>1, SameNow
<1>5. \A u \in Task : Untouched(u)
  BY <1>1, <1>3, <1>4 DEF Untouched
<1> QED BY <1>1, <1>5, SoloStill

LEMMA ExpireSolo ==
  ASSUME Base, Base', Solo, NEW c \in Cpu, expire_one(c)
  PROVE  Solo'
<1>1. /\ irq[c] = "check" /\ UNCHANGED << rq, in_timer_list, now, call, cond >>
      /\ \A e \in Cpu : e # c => irq'[e] = irq[e]
      /\ \/ irq'[c] = "none" /\ timers' = timers
         \/ \E u \in Task, d \in Time :
              /\ timers[u][d] > 0 /\ d <= now /\ irq'[c] = u
              /\ timers'[u][d] = timers[u][d] - 1
              /\ \A e \in Time : e # d => timers'[u][e] = timers[u][e]
              /\ \A v \in Task : v # u => timers'[v] = timers[v]
  BY ExpireShape
<1>2. Types /\ now <= now' /\ \A p \in WQ : IsInjective(rq.queue[p])
  BY <1>1, SameNow, SoloSplit DEF Base
<1>3. CASE irq'[c] = "none" /\ timers' = timers
  <2>1. \A u \in Task, e \in Cpu : irq'[e] = u <=> irq[e] = u
    BY <1>1, <1>3, ClientAssumption
  <2>2. \A u \in Task : Untouched(u)
    BY <1>1, <1>2, <1>3, <2>1 DEF Untouched
  <2> QED BY <1>1, <2>2, SoloStill
<1>4. ASSUME NEW h \in Task, NEW d \in Time,
             timers[h][d] > 0, d <= now, irq'[c] = h, timers'[h][d] = timers[h][d] - 1,
             \A e \in Time : e # d => timers'[h][e] = timers[h][e],
             \A v \in Task : v # h => timers'[v] = timers[v]
      PROVE  Solo'
  <2>1. SoloOf(h)
    BY SoloSplit
  <2>2. /\ timers[h][d] = 1 /\ d = call[h].deadline /\ Alarmed(h) /\ h \in in_timer_list
        /\ \A e \in Time : e # d => ~ (timers[h][e] > 0)
    BY <1>4, <2>1 DEF SoloOf, AlarmOf, Alarmed
  <2>3. \A e \in Time : ~ (timers'[h][e] > 0)
    <3>1. timers'[h][d] = 0
      BY <1>4, <2>2
    <3> QED BY <1>4, <2>2, <3>1
  <2>4. Alarmed(h)'
    BY <1>4 DEF Alarmed
  <2>5. AlarmOf(h)'
    BY <1>1, <1>4, <2>1, <2>2, <2>3, <2>4 DEF SoloOf, AlarmOf
  <2>6. QueueOf(h)' /\ ResultOf(h)'
    BY <1>1, <2>1 DEF SoloOf, QueueOf, ResultOf
  <2>7. ASSUME NEW u \in Task, u # h PROVE Untouched(u)
    <3>1. \A e \in Cpu : irq'[e] = u <=> irq[e] = u
      BY <1>1, <1>4, <2>7, ClientAssumption
    <3> QED BY <1>1, <1>2, <1>4, <2>7, <3>1 DEF Untouched
  <2>8. \A p \in WQ : IsInjective(rq'.queue[p])
    BY <1>1, <1>2
  <2> QED BY <2>5, <2>6, <2>7, <2>8, SoloStep DEF SoloOf
<1> QED BY <1>1, <1>3, <1>4

LEMMA CallbackSolo ==
  ASSUME Base, Base', Solo, SMP = 1, NEW c \in Cpu, callback(c)
  PROVE  Solo'
<1>1. PICK h \in Task :
        /\ irq[c] = h /\ in_timer_list' = in_timer_list \ {h}
        /\ SameWaits(rq, rq') /\ SameBlockedBut(rq, rq', h)
        /\ rq'.state[h] # "Blocked" /\ irq'[c] = "check"
        /\ \A e \in Cpu : e # c => irq'[e] = irq[e]
        /\ UNCHANGED << timers, now, call, cond >>
  BY CallbackShape
<1>2. SoloOf(h) /\ (\A p \in WQ : IsInjective(rq.queue[p])) /\ Types /\ now <= now'
  BY <1>1, SoloSplit, SameNow DEF Base
<1>3. Alarmed(h) /\ call[h].deadline <= now /\ \A d \in Time : ~ (timers[h][d] > 0)
  BY <1>1, <1>2 DEF SoloOf, AlarmOf, Alarmed
<1>4. \A e \in Cpu : irq'[e] # h
  <2>1. \A e \in Cpu : e = c
    BY DEF Cpu
  <2> QED BY <1>1, <2>1, ClientAssumption
<1>5. ~ Alarmed(h)'
  BY <1>1, <1>3, <1>4 DEF Alarmed
<1>6. AlarmOf(h)'
  BY <1>1, <1>3, <1>4, <1>5 DEF AlarmOf
<1>7. \A u \in Task, p \in WQ : InQueue(rq', p, u) <=> InQueue(rq, p, u)
  BY <1>1, SameEntries
<1>8. QueueOf(h)'
  <2>1. call[h].q \in WQ /\ call[h].pc # "until"
    BY <1>2, <1>3, CallFields DEF SoloOf, AlarmOf
  <2> QED BY <1>1, <1>2, <1>3, <1>7, <2>1 DEF SoloOf, QueueOf, SameWaits
<1>9. ResultOf(h)'
  BY <1>1, <1>2, <1>3 DEF SoloOf, ResultOf
<1>10. ASSUME NEW u \in Task, u # h PROVE Untouched(u)
  <2>1. \A e \in Cpu : irq'[e] = u <=> irq[e] = u
    BY <1>1, <1>10, ClientAssumption
  <2>2. /\ rq'.state[u] = "Blocked" <=> rq.state[u] = "Blocked"
        /\ u \in rq'.in_wait_queue <=> u \in rq.in_wait_queue
    BY <1>1, <1>10 DEF SameBlockedBut, SameWaits
  <2>3. u \in in_timer_list' <=> u \in in_timer_list
    BY <1>1, <1>10
  <2> QED BY <1>1, <1>2, <1>7, <2>1, <2>2, <2>3 DEF Untouched
<1>11. \A p \in WQ : IsInjective(rq'.queue[p])
  BY <1>1, <1>2 DEF SameWaits
<1> QED BY <1>6, <1>8, <1>9, <1>10, <1>11, SoloStep DEF SoloOf
LEMMA CpuSolo ==
  ASSUME Base, Base', Solo, SMP = 1, NEW c \in Cpu, CpuStep(c)
  PROVE  Solo'
<1>1. PICK t : t = rq.current[c]
  OBVIOUS
<1>2. Types /\ \A u \in Task : SoloOf(u)
  BY SoloSplit DEF Base
<1>3. CASE sleep_return(c) \/ cancel_events_wait(c) \/ cancel_events_timer(c)
           \/ notify_all_turn(c) \/ signal_condition(c)
  BY <1>3, SleepReturnSolo, CancelWaitSolo, CancelTimerSolo, NotifyAllSolo, SignalConditionSolo
<1>4. CASE wait_timeout_block(c)
  <2>1. call[t].pc = "alarmed" /\ Blocking(c, t, "woken", call[t].q) /\ call[t].q \in WQ
    BY <1>1, <1>4, TimedBlockShape
  <2>2. t \in Task
    BY <2>1 DEF Blocking, Acts
  <2> QED BY <2>1, <2>2, BlockingSolo
<1>5. CASE wait_timeout_result(c)
  <2>1. /\ call[t].pc = "woken"
        /\ Moves(c, t, "cancel_wait", call[t].q, call[t].deadline, t \in rq.in_wait_queue)
    BY <1>1, <1>5, ResultShape
  <2>2. t \in Task /\ rq.state[t] # "Blocked"
    BY <2>1 DEF Moves, Acts
  <2>3. CASE t \in rq.in_wait_queue
    <3>1. call[t].deadline <= now
      BY <1>2, <2>2, <2>3 DEF SoloOf, QueueOf
    <3>2. Moves(c, t, "cancel_wait", call[t].q, call[t].deadline, TRUE)
      BY <2>1, <2>3 DEF Moves, Becomes
    <3> QED BY <2>2, <3>1, <3>2, MovesSolo
  <2>4. CASE t \notin rq.in_wait_queue
    <3>1. (t \in rq.in_wait_queue) = FALSE
      BY <2>4
    <3>2. Moves(c, t, "cancel_wait", call[t].q, call[t].deadline, FALSE)
      BY <2>1, <3>1, Zenon
    <3> QED BY <2>2, <2>4, <3>2, MovesSolo
  <2> QED BY <2>3, <2>4
<1>6. CASE wait_timeout_until_clock(c)
  <2>1. /\ call[t].pc = "tu_loop"
        /\ \/ /\ now < call[t].deadline
              /\ Moves(c, t, "tu_check", call[t].q, call[t].deadline, call[t].timeout)
           \/ /\ ~ (now < call[t].deadline)
              /\ Moves(c, t, "cancel_wait", call[t].q, call[t].deadline, TRUE)
    BY <1>1, <1>6, ClockShape
  <2>2. t \in Task /\ rq.state[t] # "Blocked"
    BY <2>1 DEF Moves, Acts
  <2>3. call[t].deadline \in Int /\ now \in Int
    BY <1>2, <2>2, CallFields, ClientAssumption DEF Types, Time
  <2>4. call[t].timeout => call[t].deadline <= now
    BY <1>2, <2>2 DEF SoloOf, ResultOf
  <2>5. t \in rq.in_wait_queue => call[t].deadline <= now
    BY <1>2, <2>2 DEF SoloOf, QueueOf
  <2>6. CASE /\ now < call[t].deadline
             /\ Moves(c, t, "tu_check", call[t].q, call[t].deadline, call[t].timeout)
    <3>1. t \notin rq.in_wait_queue
      BY <2>3, <2>5, <2>6
    <3> QED BY <2>2, <2>4, <2>6, <3>1, MovesSolo
  <2>7. CASE /\ ~ (now < call[t].deadline)
             /\ Moves(c, t, "cancel_wait", call[t].q, call[t].deadline, TRUE)
    <3>1. call[t].deadline <= now
      BY <2>3, <2>7
    <3> QED BY <2>2, <2>7, <3>1, MovesSolo
  <2> QED BY <2>1, <2>6, <2>7
<1>7. CASE wait_timeout_until_check(c)
  <2>1. /\ call[t].pc = "tu_check" /\ call[t].q \in WQ
        /\ \/ Blocking(c, t, "tu_loop", call[t].q)
           \/ Moves(c, t, "cancel_wait", call[t].q, call[t].deadline, call[t].timeout)
    BY <1>1, <1>7, CheckShape
  <2>2. t \in Task
    BY <2>1 DEF Moves, Blocking, Acts
  <2>3. call[t].timeout => call[t].deadline <= now
    BY <1>2, <2>2 DEF SoloOf, ResultOf
  <2> QED BY <2>1, <2>2, <2>3, BlockingSolo, MovesSolo
<1>8. CASE spawn(c) \/ yield_now(c)
  <2>1. SameWaits(rq, rq') /\ SameBlocked(rq, rq') /\ Quiet /\ call' = call
    BY <1>8, SpawnShape
  <2>2. now <= now' /\ UNCHANGED << timers, in_timer_list, irq >>
    BY <1>2, <2>1, SameNow DEF Quiet
  <2> QED BY <2>1, <2>2, StillSolo
<1>9. CASE sleep_until(c)
  <2>1. call[t].pc = "user" /\ \E d \in Time : Sleeping(c, t, d)
    BY <1>1, <1>9, SleepShape
  <2>2. PICK d \in Time : Sleeping(c, t, d)
    BY <2>1
  <2>3. /\ t \in Task /\ set_alarm_wakeup(t, d) /\ OnlyCall(t) /\ UNCHANGED << now, irq >>
        /\ SameWaits(rq, rq') /\ SameBlockedBut(rq, rq', t) /\ rq'.state[t] = "Blocked"
        /\ call'[t].deadline = d /\ call'[t].pc = "slept" /\ call'[t].timeout = call[t].timeout
    BY <2>2 DEF Sleeping, Acts, Becomes, BlocksOnly
  <2>4. ~ call[t].timeout
    BY <1>2, <2>1, <2>3, NoCallIn DEF SoloOf, ResultOf
  <2> QED BY <2>1, <2>3, <2>4, AlarmSolo
<1>11. CASE wait(c)
  <2>1. call[t].pc = "user" /\ \E q \in WQ : Blocking(c, t, "cancel_wait", q)
    BY <1>1, <1>11, WaitShape
  <2>2. t \in Task
    BY <2>1 DEF Blocking, Acts
  <2> QED BY <2>1, <2>2, BlockingSolo
<1>12. CASE wait_timeout(c) \/ wait_timeout_until(c)
  <2>1. PICK l \in Pc : l \in {"alarmed", "tu_loop"} /\ \E op : timed_wait(c, op, l)
    BY <1>12 DEF wait_timeout, wait_timeout_until, Pc
  <2>2. call[t].pc = "user" /\ \E q \in WQ, d \in Time : Timing(c, t, l, q, d)
    BY <1>1, <2>1, TimedShape
  <2>3. PICK q \in WQ, d \in Time : Timing(c, t, l, q, d)
    BY <2>2
  <2>4. /\ t \in Task /\ set_alarm_wakeup(t, d) /\ OnlyCall(t) /\ UNCHANGED << now, irq >>
        /\ rq' = rq /\ call'[t].deadline = d /\ call'[t].pc = l /\ ~ call'[t].timeout
    BY <2>3 DEF Timing, Acts, Becomes
  <2>5. SameWaits(rq, rq') /\ SameBlockedBut(rq, rq', t)
    BY <2>4 DEF SameWaits, SameBlockedBut
  <2> QED BY <2>1, <2>2, <2>4, <2>5, AlarmSolo
<1>13. CASE notify_one(c)
  BY <1>13, NotifyShape, WakingSolo
<1>14. CASE notify_task_call(c)
  BY <1>14, NotifyTaskShape, WakingSolo
<1>15. CASE consume_condition(c)
  <2>1. UNCHANGED << rq, timers, in_timer_list, now, irq, call >>
    BY <1>15 DEF consume_condition, timerVars
  <2>2. now <= now' /\ SameWaits(rq, rq') /\ SameBlocked(rq, rq')
    BY <1>2, <2>1, SameNow DEF SameWaits, SameBlocked
  <2> QED BY <2>1, <2>2, StillSolo
<1>16. CASE wait_until(c)
  <2>1. PICK q \in WQ :
          /\ call[t].pc \in {"user", "until"}
          /\ \/ Blocking(c, t, "until", q)
             \/ Moves(c, t, "cancel_wait", q, call[t].deadline, call[t].timeout)
    BY <1>1, <1>16, UntilShape
  <2>2. t \in Task /\ rq.state[t] # "Blocked"
    BY <2>1 DEF Moves, Blocking, Acts
  <2>3. call[t].timeout => call[t].deadline <= now
    BY <1>2, <2>2 DEF SoloOf, ResultOf
  <2>4. t \notin rq.in_wait_queue
    BY <1>2, <2>1, <2>2, NotFlagged DEF SoloOf, Out
  <2> QED BY <2>1, <2>2, <2>3, <2>4, BlockingSolo, MovesSolo
<1> QED
  BY <1>3, <1>4, <1>5, <1>6, <1>7, <1>8, <1>9, <1>11, <1>12, <1>13, <1>14, <1>15,
     <1>16 DEF CpuStep, Proceed, Start

LEMMA NextSolo ==
  ASSUME SMP = 1, Base, Solo, [Next]_vars
  PROVE  Solo'
<1>1. Base'
  BY NextBase
<1>2. CASE Tick
  <2>1. /\ UNCHANGED << rq, timers, in_timer_list, irq, call >> /\ now' = now + 1 /\ Types
    BY <1>2 DEF Tick, Base
  <2>2. now <= now' /\ SameWaits(rq, rq') /\ SameBlocked(rq, rq')
    BY <2>1, ClientAssumption DEF Types, Time, SameWaits, SameBlocked
  <2> QED BY <1>1, <2>1, <2>2, StillSolo
<1>3. ASSUME NEW c \in Cpu, Irq(c) PROVE Solo'
  BY <1>1, <1>3, TimerTickSolo, ExpireSolo, CallbackSolo DEF Irq
<1>4. ASSUME NEW c \in Cpu, CpuStep(c) PROVE Solo'
  BY <1>1, <1>4, CpuSolo
<1>5. CASE UNCHANGED vars
  <2>1. /\ UNCHANGED << rq, timers, in_timer_list, irq, call >> /\ now' = now /\ Types
    BY <1>5 DEF vars, Base
  <2>2. now <= now' /\ SameWaits(rq, rq') /\ SameBlocked(rq, rq')
    BY <2>1, SameNow DEF SameWaits, SameBlocked
  <2> QED BY <1>1, <2>1, <2>2, StillSolo
<1> QED BY <1>2, <1>3, <1>4, <1>5 DEF Next

LEMMA AlwaysSolo == ASSUME SMP = 1 PROVE Spec => [](Base /\ Solo)
<1>1. Init => Base /\ Solo
  BY InitBase, InitSolo
<1>2. Base /\ Solo /\ [Next]_vars => (Base /\ Solo)'
  BY NextBase, NextSolo
<1> QED BY <1>1, <1>2, PTL DEF Spec

(* On one CPU TASK_IN_WAIT_QUEUE is exact: a task is flagged exactly when  *)
(* a wait queue holds it, and one queue holds it then, once (wait_queue.rs;*)
(* on two CPUs an alarm in delivery breaks it).                            *)
THEOREM FlagIsExact == ASSUME SMP = 1 PROVE Spec => []WaitFlagExact
<1>1. Base /\ Solo => WaitFlagExact
  <2> SUFFICES ASSUME Base, Solo PROVE WaitFlagExact
    OBVIOUS
  <2>1. \A t \in Task : t \in rq.in_wait_queue <=> Queued(t)
    <3>1. \A t \in Task : call[t].q \in WQ /\ QueueOf(t)
      BY CallFields DEF Base, Solo
    <3> QED BY <3>1 DEF QueueOf, Queued
  <2>2. ASSUME NEW p \in WQ, NEW q \in WQ, NEW i \in DOMAIN rq.queue[p],
               NEW j \in DOMAIN rq.queue[q], rq.queue[p][i] = rq.queue[q][j]
        PROVE  p = q /\ i = j
    <3>1. PICK t : t = rq.queue[p][i]
      OBVIOUS
    <3>2. rq.queue[p] \in Seq(Task)
      BY Fields DEF Base, RQInv
    <3>3. t \in Task
      BY <3>1, <3>2
    <3>4. InQueue(rq, p, t) /\ InQueue(rq, q, t)
      BY <2>2, <3>1 DEF InQueue
    <3>5. p = q
      BY <3>3, <3>4 DEF Solo, QueueOf
    <3>6. IsInjective(rq.queue[p])
      BY DEF Solo
    <3> QED BY <2>2, <3>5, <3>6 DEF IsInjective
  <2> QED BY <2>1, <2>2 DEF WaitFlagExact
<1> QED BY <1>1, AlwaysSolo, PTL

(* On one CPU a task that is back in its caller is in no wait queue, and   *)
(* no alarm of it is set or in delivery (cancel_events).                   *)
THEOREM CallLeavesNothing == ASSUME SMP = 1 PROVE Spec => []CleanReturn
<1>1. Base /\ Solo => CleanReturn
  <2> SUFFICES ASSUME Base, Solo, NEW t \in Task, call[t].pc = "user"
               PROVE  ~ Queued(t) /\ t \notin rq.in_wait_queue /\ ~ Alarmed(t)
                      /\ t \notin in_timer_list
    BY DEF CleanReturn
  <2>1. QueueOf(t) /\ AlarmOf(t) /\ Types
    BY DEF Solo, Base
  <2>2. Out(t) /\ Silent(t)
    BY <2>1, NotFlagged, NotAlarmed
  <2> QED BY <2>2 DEF Out, Silent, Queued
<1> QED BY <1>1, AlwaysSolo, PTL

(* On one CPU a timeout is reported, and a sleep ends, only once the       *)
(* deadline has passed (wait_timeout, wait_timeout_until, sleep_until).    *)
THEOREM TimeoutIsNotEarly == ASSUME SMP = 1 PROVE Spec => []NoEarlyTimeout
<1>1. Base /\ Solo => NoEarlyTimeout
  BY DEF Solo, ResultOf, NoEarlyTimeout
<1> QED BY <1>1, AlwaysSolo, PTL
=============================================================================

-------------------------- MODULE StackPool_proofs --------------------------
(* The preemptive stack pool of async2, for any number of test cases, of   *)
(* stacks and of entries into the kernel: stacks have one owner and do not *)
(* leak, four and one for each empty read are enough, what was preempted   *)
(* can be resumed, and no Ready task falls out of the queue.               *)
EXTENDS StackPool, SequenceTheorems, FiniteSetTheorems, WellFoundedInduction, TLAPS

-----------------------------------------------------------------------------
(* Queues of tasks, by position.                                           *)

(* A set of numbers that is not empty has a least one.                     *)
LEMMA Least ==
  ASSUME NEW T, T \subseteq Nat, T # {}
  PROVE  \E x \in T : \A y \in T : x <= y
<1>1. PICK x \in T : \A y \in T : ~ (<< y, x >> \in OpToRel(<, Nat))
  BY NatLessThanWellFounded, WFMin
<1>2. \A y \in T : ~ (y < x)
  BY <1>1 DEF OpToRel
<1> QED BY <1>2

(* A sequence over S is one over any set that has its elements.            *)
LEMMA SeqOver ==
  ASSUME NEW S, NEW q \in Seq(S), NEW R, \A i \in 1 .. Len(q) : q[i] \in R
  PROVE  q \in Seq(R)
<1>1. Len(q) \in Nat /\ q \in [1 .. Len(q) -> S]
  BY LenProperties
<1>2. q \in [1 .. Len(q) -> R]
  BY <1>1
<1> QED BY <1>1, <1>2

(* A queue by its positions.                                               *)
LEMMA Positions ==
  ASSUME NEW S, NEW q \in Seq(S)
  PROVE  /\ IsInjective(q) <=> \A i, j \in 1 .. Len(q) : q[i] = q[j] => i = j
         /\ \A x : x \in ToSet(q) <=> \E i \in 1 .. Len(q) : x = q[i]
         /\ ToSet(q) \subseteq S /\ Len(q) \in Nat
BY DEF IsInjective, ToSet

(* A queue r that has one element more than q, at its end.                 *)
LEMMA PushLeaves ==
  ASSUME NEW S, NEW q \in Seq(S), IsInjective(q), NEW t \in S, t \notin ToSet(q),
         NEW r \in Seq(S), Len(r) = Len(q) + 1, r[Len(q) + 1] = t,
         \A i \in 1 .. Len(q) : r[i] = q[i]
  PROVE  IsInjective(r) /\ ToSet(r) = ToSet(q) \cup {t}
<1>1. Len(q) \in Nat
  OBVIOUS
<1>2. \A i \in 1 .. Len(q) : q[i] \in ToSet(q) /\ q[i] # t
  BY Positions
<1>3. \A i \in 1 .. Len(r) : i \in 1 .. Len(q) \/ i = Len(q) + 1
  BY <1>1
<1>4. \A i, j \in 1 .. Len(r) : r[i] = r[j] => i = j
  <2> SUFFICES ASSUME NEW i \in 1 .. Len(r), NEW j \in 1 .. Len(r), r[i] = r[j]
               PROVE  i = j
    OBVIOUS
  <2>1. CASE i \in 1 .. Len(q) /\ j \in 1 .. Len(q)
    <3>1. q[i] = q[j]
      BY <1>1, <2>1
    <3> QED BY <2>1, <3>1, Positions
  <2>2. CASE i \in 1 .. Len(q) /\ j = Len(q) + 1
    BY <1>1, <1>2, <2>2
  <2>3. CASE i = Len(q) + 1 /\ j \in 1 .. Len(q)
    BY <1>1, <1>2, <2>3
  <2> QED BY <1>3, <2>1, <2>2, <2>3
<1>5. \A x : x \in ToSet(r) <=> x \in ToSet(q) \/ x = t
  <2> TAKE x
  <2>1. x \in ToSet(r) <=> \E i \in 1 .. Len(r) : x = r[i]
    BY Positions
  <2>2. x \in ToSet(q) <=> \E i \in 1 .. Len(q) : x = q[i]
    BY Positions
  <2>3. Len(q) + 1 \in 1 .. Len(r) /\ \A i \in 1 .. Len(q) : i \in 1 .. Len(r)
    BY <1>1
  <2> QED BY <1>1, <1>3, <2>1, <2>2, <2>3
<1> QED BY <1>4, <1>5, Positions

(* What comes before and after position k.                                 *)
LEMMA Parts ==
  ASSUME NEW S, NEW q \in Seq(S), NEW k \in 1 .. Len(q)
  PROVE  /\ SubSeq(q, 1, k - 1) \in Seq(S) /\ Len(SubSeq(q, 1, k - 1)) = k - 1
         /\ \A i \in 1 .. k - 1 : SubSeq(q, 1, k - 1)[i] = q[i]
         /\ SubSeq(q, k + 1, Len(q)) \in Seq(S) /\ Len(SubSeq(q, k + 1, Len(q))) = Len(q) - k
         /\ \A i \in 1 .. Len(q) - k : SubSeq(q, k + 1, Len(q))[i] = q[k + i]
<1>1. Len(q) \in Nat /\ k \in Int /\ k - 1 \in Int /\ k + 1 \in Int
  OBVIOUS
<1>2. /\ \A i \in 1 .. k - 1 : q[i] \in S
      /\ \A i \in k + 1 .. Len(q) : q[i] \in S
  OBVIOUS
<1>3. ASSUME NEW a, a = SubSeq(q, 1, k - 1)
      PROVE  a \in Seq(S) /\ Len(a) = k - 1 /\ \A i \in 1 .. k - 1 : a[i] = q[i]
  <2>1. /\ a \in Seq(S) /\ Len(a) = IF 1 <= k - 1 THEN (k - 1) - 1 + 1 ELSE 0
        /\ \A i \in 1 .. (k - 1) - 1 + 1 : a[i] = q[1 + i - 1]
    BY <1>1, <1>2, <1>3, SubSeqProperties
  <2> QED BY <1>1, <2>1
<1>4. ASSUME NEW b, b = SubSeq(q, k + 1, Len(q))
      PROVE  b \in Seq(S) /\ Len(b) = Len(q) - k /\ \A i \in 1 .. Len(q) - k : b[i] = q[k + i]
  <2>1. /\ b \in Seq(S) /\ Len(b) = IF k + 1 <= Len(q) THEN Len(q) - (k + 1) + 1 ELSE 0
        /\ \A i \in 1 .. Len(q) - (k + 1) + 1 : b[i] = q[(k + 1) + i - 1]
    BY <1>1, <1>2, <1>4, SubSeqProperties
  <2>2. \A i \in 1 .. Len(q) - k : i \in 1 .. Len(q) - (k + 1) + 1 /\ (k + 1) + i - 1 = k + i
    BY <1>1
  <2>3. Len(b) = Len(q) - k
    BY <1>1, <2>1
  <2> QED BY <2>1, <2>2, <2>3
<1> QED BY <1>3, <1>4, Zenon

(* Append, Head and Tail on a queue without repetitions.                   *)
Grown(q, r, t) ==
  /\ Len(r) = Len(q) + 1 /\ r[Len(q) + 1] = t
  /\ \A i \in 1 .. Len(q) : r[i] = q[i]

LEMMA PushedLeaves ==
  ASSUME NEW S, NEW q \in Seq(S), IsInjective(q), NEW t \in S, t \notin ToSet(q),
         NEW r \in Seq(S), Grown(q, r, t)
  PROVE  IsInjective(r) /\ ToSet(r) = ToSet(q) \cup {t}
BY PushLeaves DEF Grown

LEMMA AppendGrows ==
  ASSUME NEW S, NEW q \in Seq(S), NEW t \in S, NEW r, r = Append(q, t)
  PROVE  r \in Seq(S) /\ Grown(q, r, t)
BY AppendProperties DEF Grown

(* Min of a set of numbers that is not empty is its least.                 *)
LEMMA MinIn ==
  ASSUME NEW T, T \subseteq Nat, T # {}
  PROVE  Min(T) \in T /\ \A y \in T : Min(T) <= y
<1>1. \E x \in T : \A y \in T : x <= y
  BY Least
<1> QED BY <1>1, Zenon DEF Min

(* Max of a set of numbers up to n that is not empty is its largest.       *)
LEMMA MaxIn ==
  ASSUME NEW n \in Nat, NEW T, T \subseteq 0 .. n, T # {}
  PROVE  Max(T) \in T /\ \A y \in T : Max(T) >= y
<1> DEFINE U == {n - x : x \in T}
<1>0. \A x \in T : x \in Nat /\ n - x \in Nat
  OBVIOUS
<1>1. U \subseteq Nat /\ U # {}
  BY <1>0
<1>2. PICK z \in U : \A y \in U : z <= y
  <2> HIDE DEF U
  <2> QED BY <1>1, Least
<1>3. PICK x \in T : z = n - x
  OBVIOUS
<1>4. \A y \in T : x >= y
  <2>1. \A y \in T : n - y \in U
    OBVIOUS
  <2> HIDE DEF U
  <2>2. \A y \in T : n - x <= n - y
    BY <1>2, <1>3, <2>1
  <2> QED BY <1>0, <2>2
<1>5. \E w \in T : \A y \in T : w >= y
  BY <1>4
<1> QED BY <1>5, Zenon DEF Max

(* What is behind position k of q, and then what is before it.             *)
Turned(q, k) == SubSeq(q, k + 1, Len(q)) \o SubSeq(q, 1, k - 1)

LEMMA TurnedAt ==
  ASSUME NEW S, NEW q \in Seq(S), NEW k \in 1 .. Len(q)
  PROVE  /\ Turned(q, k) \in Seq(S) /\ Len(Turned(q, k)) = Len(q) - 1
         /\ \A i \in 1 .. Len(q) - 1 :
              Turned(q, k)[i] = IF i <= Len(q) - k THEN q[k + i] ELSE q[i - (Len(q) - k)]
<1> DEFINE a == SubSeq(q, 1, k - 1)
           b == SubSeq(q, k + 1, Len(q))
           r == b \o a
           n == Len(q)
<1>1. /\ a \in Seq(S) /\ Len(a) = k - 1 /\ \A i \in 1 .. k - 1 : a[i] = q[i]
      /\ b \in Seq(S) /\ Len(b) = n - k /\ \A i \in 1 .. n - k : b[i] = q[k + i]
  BY Parts
<1>2. n \in Nat /\ k \in 1 .. n
  OBVIOUS
<1> HIDE DEF a, b, n
<1>3. /\ r \in Seq(S) /\ Len(r) = Len(b) + Len(a)
      /\ \A i \in 1 .. Len(b) + Len(a) : r[i] = IF i <= Len(b) THEN b[i] ELSE a[i - Len(b)]
  BY <1>1, ConcatProperties
<1> HIDE DEF r
<1>4. Len(r) = n - 1
  BY <1>1, <1>2, <1>3
<1>5. ASSUME NEW i \in 1 .. n - 1
      PROVE  r[i] = IF i <= n - k THEN q[k + i] ELSE q[i - (n - k)]
  <2>1. r[i] = IF i <= n - k THEN b[i] ELSE a[i - (n - k)]
    BY <1>1, <1>2, <1>3
  <2>2. CASE i <= n - k
    <3>1. i \in 1 .. n - k
      BY <1>2, <2>2
    <3> QED BY <1>1, <2>1, <2>2, <3>1
  <2>3. CASE ~ (i <= n - k)
    <3>1. i - (n - k) \in 1 .. k - 1
      BY <1>2, <2>3
    <3> QED BY <1>1, <2>1, <2>3, <3>1
  <2> QED BY <2>2, <2>3
<1> QED BY <1>3, <1>4, <1>5 DEF Turned, r, a, b, n

LEMMA TurnedLeaves ==
  ASSUME NEW S, NEW q \in Seq(S), IsInjective(q), NEW k \in 1 .. Len(q)
  PROVE  IsInjective(Turned(q, k)) /\ ToSet(Turned(q, k)) = ToSet(q) \ {q[k]}
<1> DEFINE r == Turned(q, k)
           n == Len(q)
           at(i) == IF i <= n - k THEN k + i ELSE i - (n - k)
<1>1. /\ r \in Seq(S) /\ Len(r) = n - 1
      /\ \A i \in 1 .. n - 1 : r[i] = IF i <= n - k THEN q[k + i] ELSE q[i - (n - k)]
  BY TurnedAt
<1>2. n \in Nat /\ k \in 1 .. n
  OBVIOUS
<1>3. \A i, j \in 1 .. n : q[i] = q[j] => i = j
  BY Positions
<1>4. /\ IsInjective(r) <=> \A i, j \in 1 .. Len(r) : r[i] = r[j] => i = j
      /\ \A x : x \in ToSet(r) <=> \E i \in 1 .. Len(r) : x = r[i]
      /\ \A x : x \in ToSet(q) <=> \E i \in 1 .. n : x = q[i]
  BY <1>1, Positions
<1> HIDE DEF r, n
<1>5. \A i \in 1 .. n - 1 : at(i) \in 1 .. n /\ at(i) # k /\ r[i] = q[at(i)]
  BY <1>1, <1>2
<1>6. \A i, j \in 1 .. n - 1 : at(i) = at(j) => i = j
  BY <1>2
<1>7. \A m \in 1 .. n : m # k => \E i \in 1 .. n - 1 : at(i) = m
  <2> SUFFICES ASSUME NEW m \in 1 .. n, m # k PROVE \E i \in 1 .. n - 1 : at(i) = m
    OBVIOUS
  <2>1. CASE m > k
    <3>1. m - k \in 1 .. n - 1 /\ at(m - k) = m
      BY <1>2, <2>1
    <3> QED BY <3>1
  <2>2. CASE m < k
    <3>1. m + (n - k) \in 1 .. n - 1 /\ at(m + (n - k)) = m
      BY <1>2, <2>2
    <3> QED BY <3>1
  <2> QED BY <1>2, <2>1, <2>2
<1> HIDE DEF at
<1>8. IsInjective(r)
  BY <1>1, <1>3, <1>4, <1>5, <1>6
<1>9. ASSUME NEW x PROVE x \in ToSet(r) <=> x \in ToSet(q) /\ x # q[k]
  <2>1. ASSUME x \in ToSet(r) PROVE x \in ToSet(q) /\ x # q[k]
    <3>1. PICK i \in 1 .. n - 1 : x = r[i]
      BY <1>1, <1>4, <2>1
    <3>2. at(i) \in 1 .. n /\ at(i) # k /\ x = q[at(i)]
      BY <1>5, <3>1
    <3> QED BY <1>2, <1>3, <1>4, <3>2
  <2>2. ASSUME x \in ToSet(q), x # q[k] PROVE x \in ToSet(r)
    <3>1. PICK m \in 1 .. n : x = q[m]
      BY <1>4, <2>2
    <3>2. PICK i \in 1 .. n - 1 : at(i) = m
      BY <1>7, <2>2, <3>1
    <3> QED BY <1>1, <1>4, <1>5, <3>1, <3>2
  <2> QED BY <2>1, <2>2
<1>10. ToSet(r) = ToSet(q) \ {q[k]}
  BY <1>9
<1> QED BY <1>8, <1>10 DEF r

-----------------------------------------------------------------------------
(* The inductive invariant.                                                *)

RQ ==
  [ready : Seq(Task), current : Task, state : [Task -> {"Running", "Ready", "Exited"}],
   is_started : [Task -> BOOLEAN], stack_idx : [Task -> Stack],
   preempted : [Task -> BOOLEAN], saved : [Task -> BOOLEAN],
   kstack_state : [Stack -> BOOLEAN], kstack : [Stack -> Task \cup {None}],
   cur_stack : Stack]

(* The stacks given away and the started tasks of live correspond.         *)
Stacks(r, live) ==
  /\ \A t \in live : r.is_started[t] =>
       r.kstack_state[r.stack_idx[t]] /\ r.kstack[r.stack_idx[t]] = t
  /\ \A i \in Stack : r.kstack_state[i] =>
       i # 0 /\ r.kstack[i] \in live /\ r.is_started[r.kstack[i]] /\ r.stack_idx[r.kstack[i]] = i

(* A task that has not started has not been preempted.                     *)
Fresh(r) == \A t \in User : ~r.is_started[t] => ~r.preempted[t] /\ ~r.saved[t]

(* The task with the lowest tid, or one of the two with the highest.       *)
Outer(t, live) ==
  \/ \A u \in live : t <= u
  \/ \A u, v \in live : t < u /\ t < v => u = v

(* The task that comes after one that gave up the CPU in a read.           *)
After(t, live, gave) ==
  \E p \in gave : p < t /\ \A u \in live : ~ (p < u /\ u < t)

Entitled(t, live, gave) == Outer(t, live) \/ After(t, live, gave)

(* Only such tasks have started.                                           *)
Few(r, live, gave) == \A t \in live : r.is_started[t] => Entitled(t, live, gave)

(* A task that gave up the CPU in a read has started, nothing was saved    *)
(* for it, and as long as the CPU is not wild it has not run again.        *)
Gave(r, live, gave) ==
  gave \subseteq live /\ \A u \in gave : r.is_started[u] /\ ~r.saved[u]

(* Going round a ring of tids from a to b to c, they ascend, but for one   *)
(* step down.                                                              *)
Ascend(a, b, c) == (a < b /\ b < c) \/ (b < c /\ c < a) \/ (c < a /\ a < b)

Ring(q) ==
  \A i, j, k \in 1 .. Len(q) : i < j /\ j < k => Ascend(q[i], q[j], q[k])

(* The queue, and then the current task, are a ring.                       *)
RingWith(q, c) ==
  Ring(q) /\ \A i, j \in 1 .. Len(q) : i < j => Ascend(q[i], q[j], c)

(* The queue has the tasks that could run, the current one aside.          *)
Queue(r, live) ==
  /\ ToSet(r.ready) = (live \cup {MAIN}) \ {r.current}
  /\ \A t \in ToSet(r.ready) : r.state[t] = "Ready"
  /\ r.state[r.current] = "Running"
  /\ RingWith(r.ready, r.current)

(* A started task that is not current has saved its context, or read.      *)
SavedBut(r, live, gave, c) == \A t \in live \ {c} : r.is_started[t] => r.saved[t] \/ t \in gave

(* What holds at any time.                                                 *)
Core(r, live, gave) ==
  /\ r \in RQ /\ live \subseteq User /\ Stacks(r, live) /\ Fresh(r)
  /\ Gave(r, live, gave) /\ Few(r, live, gave) /\ IsInjective(r.ready)

(* What the CPU is doing and the current task.                             *)
Doing(r, live, gave, p, rd) ==
  /\ p \in {"create", "user", "yield", "read", "exit", "kernel", "panic", "wild", "halt"}
  /\ p # "panic" => Queue(r, live)
  /\ p = "panic" => KSTACK_NUM < 4 + Cardinality(gave)
  /\ p \in {"user", "yield", "read"} =>
       r.current \in live \ gave /\ r.is_started[r.current] /\ ~r.saved[r.current]
  /\ p \in {"user", "read"} => ~r.preempted[r.current]
  /\ p \in {"exit", "halt"} => r.current \in User \ live
  /\ p \in {"create", "kernel"} => r.current = MAIN
  /\ p = "kernel" => live # {}
  /\ p = "read" => rd \in gave
  /\ p = "kernel" => rd \in gave \cup {None}

(* While main makes the tasks none has started, and they queue in order.   *)
Creating ==
  pc = "create" =>
    /\ tid2task = 4 .. (3 + task_nub)
    /\ \A t \in User : ~rq.is_started[t] /\ rq.state[t] = "Ready"
    /\ Len(rq.ready) = task_nub /\ \A i \in 1 .. task_nub : rq.ready[i] = 3 + i
    /\ task_queue \in Seq(User)
    /\ Len(task_queue) = task_nub /\ \A i \in 1 .. task_nub : task_queue[i] = 3 + i

IInv ==
  /\ Core(rq, tid2task, polled) /\ SavedBut(rq, tid2task, polled, rq.current)
  /\ Doing(rq, tid2task, polled, pc, reader)
  /\ task_nub = Cardinality(tid2task)
  /\ Creating

-----------------------------------------------------------------------------
(* Tids.                                                                   *)

LEMMA Tids ==
  /\ User \subseteq 0 .. (3 + NUser) /\ 3 + NUser \in Nat /\ Task \subseteq Nat
  /\ \A t \in User : t \in Task /\ t # MAIN /\ t # IDLE /\ t > 1 /\ t # 0 /\ ~is_kernel_task(t)
  /\ MAIN \in Task /\ MAIN = 1 /\ MAIN # IDLE /\ MAIN # 0 /\ is_kernel_task(MAIN)
  /\ 0 \in Stack /\ Stack \subseteq Nat /\ IsFiniteSet(User)
<1>1. NUser \in Nat \ {0} /\ KSTACK_NUM \in Nat \ {0}
  BY StackPoolAssumption
<1>2. IsFiniteSet(User)
  BY <1>1, FS_Interval DEF User
<1> QED BY <1>1, <1>2 DEF User, Task, MAIN, IDLE, Stack, is_kernel_task

LEMMA TidSeq ==
  ASSUME NEW q \in Seq(Task)
  PROVE  q \in Seq(Nat) /\ \A u \in ToSet(q) : u \in Task
<1>1. Task \subseteq Nat
  BY Tids
<1>2. \A i \in 1 .. Len(q) : q[i] \in Task
  OBVIOUS
<1>3. \A i \in 1 .. Len(q) : q[i] \in Nat
  BY <1>1, <1>2
<1>4. ToSet(q) \subseteq Task
  BY Positions
<1> QED BY <1>3, <1>4, SeqOver

(* Four different tasks are not all outer ones.                            *)
LEMMA ThreeOuter ==
  ASSUME NEW live, live \subseteq Int, NEW a \in live, NEW b \in live, NEW c \in live, NEW d \in live,
         a # b, a # c, a # d, b # c, b # d, c # d,
         Outer(a, live), Outer(b, live), Outer(c, live), Outer(d, live)
  PROVE  FALSE
<1>1. ASSUME NEW w \in live, NEW x \in live, NEW y \in live, NEW z \in live,
             w < x, x < y, x < z, y # z, Outer(x, live)
      PROVE  FALSE
  <2>1. ~ (\A u \in live : x <= u)
    BY <1>1
  <2> QED BY <1>1, <2>1 DEF Outer
<1>2. ASSUME NEW w \in live, NEW x \in live, NEW y \in live, NEW z \in live,
             w # x, w # y, w # z, x # y, x # z, y # z, Outer(w, live), Outer(x, live),
             Outer(y, live), Outer(z, live), w < x, w < y, w < z
      PROVE  FALSE
  <2>1. CASE x < y /\ x < z
    BY <1>1, <1>2, <2>1
  <2>2. CASE y < x /\ y < z
    BY <1>1, <1>2, <2>2
  <2>3. CASE z < x /\ z < y
    BY <1>1, <1>2, <2>3
  <2> QED BY <1>2, <2>1, <2>2, <2>3
<1>3. CASE a < b /\ a < c /\ a < d
  BY <1>2, <1>3
<1>4. CASE b < a /\ b < c /\ b < d
  BY <1>2, <1>4
<1>5. CASE c < a /\ c < b /\ c < d
  BY <1>2, <1>5
<1>6. CASE d < a /\ d < b /\ d < c
  BY <1>2, <1>6
<1> QED BY <1>3, <1>4, <1>5, <1>6

(* Not more than three tasks are outer ones.                               *)
LEMMA OuterFew ==
  ASSUME NEW live, live \subseteq Int, IsFiniteSet(live), NEW O, O = {t \in live : Outer(t, live)}
  PROVE  IsFiniteSet(O) /\ Cardinality(O) <= 3
<1>1. O \in SUBSET live /\ IsFiniteSet(O) /\ Cardinality(O) \in Nat
  BY FS_Subset, FS_CardinalityType
<1> SUFFICES ASSUME Cardinality(O) >= 4 PROVE FALSE
  BY <1>1
<1> DEFINE n == Cardinality(O)
<1>2. PICK f \in Bijection(1 .. n, O) : TRUE
  BY <1>1, FS_CardinalityType DEF ExistsBijection
<1>3. f \in [1 .. n -> O] /\ \A i, j \in 1 .. n : f[i] = f[j] => i = j
  BY <1>2 DEF Bijection, Injection, IsInjective
<1>4. 1 \in 1 .. n /\ 2 \in 1 .. n /\ 3 \in 1 .. n /\ 4 \in 1 .. n
  BY <1>1
<1> HIDE DEF n
<1> DEFINE a == f[1]
           b == f[2]
           c == f[3]
           d == f[4]
<1>5. a \in O /\ b \in O /\ c \in O /\ d \in O
  BY <1>3, <1>4
<1>6. a # b /\ a # c /\ a # d /\ b # c /\ b # d /\ c # d
  BY <1>3, <1>4
<1> HIDE DEF a, b, c, d
<1>7. /\ a \in live /\ b \in live /\ c \in live /\ d \in live
      /\ Outer(a, live) /\ Outer(b, live) /\ Outer(c, live) /\ Outer(d, live)
  BY <1>5
<1> QED BY <1>6, <1>7, ThreeOuter

(* A task has one task after it.                                           *)
LEMMA AfterFew ==
  ASSUME NEW live, live \subseteq Int, IsFiniteSet(live), NEW gave \in SUBSET live,
         NEW B, B = {t \in live : After(t, live, gave)}
  PROVE  IsFiniteSet(B) /\ Cardinality(B) <= Cardinality(gave)
<1> DEFINE Before(t, p) == p < t /\ \A u \in live : ~ (p < u /\ u < t)
           f == [t \in B |-> CHOOSE p \in gave : Before(t, p)]
<1>1. \A t \in B : \E p \in gave : Before(t, p)
  BY DEF After
<1>2. \A t \in B : f[t] \in gave /\ Before(t, f[t])
  <2> HIDE DEF Before
  <2> QED BY <1>1
<1>3. \A t \in B : t \in live /\ t \in Int
  OBVIOUS
<1>4. f \in [B -> gave]
  BY <1>2
<1> HIDE DEF f
<1>5. ASSUME NEW t \in B, NEW v \in B, f[t] = f[v] PROVE t = v
  <2>1. ~ (f[t] < v /\ v < t) /\ ~ (f[t] < t /\ t < v) /\ f[t] < t /\ f[t] < v
    BY <1>2, <1>3, <1>5
  <2> QED BY <1>3, <2>1
<1>6. f \in Injection(B, gave)
  BY <1>4, <1>5 DEF Injection, IsInjective
<1>7. IsFiniteSet(gave)
  BY FS_Subset
<1> QED BY <1>6, <1>7, FS_Injection

(* So not more than three, and one for each empty read, ever start.        *)
LEMMA EntitledFew ==
  ASSUME NEW live, live \subseteq Int, IsFiniteSet(live), NEW gave \in SUBSET live,
         NEW X, X = {t \in live : Entitled(t, live, gave)}
  PROVE  IsFiniteSet(X) /\ Cardinality(X) <= 3 + Cardinality(gave)
<1> DEFINE O == {t \in live : Outer(t, live)}
           B == {t \in live : After(t, live, gave)}
<1>1. X = O \cup B
  BY DEF Entitled
<1>2. IsFiniteSet(O) /\ Cardinality(O) <= 3
  BY OuterFew
<1>3. IsFiniteSet(B) /\ Cardinality(B) <= Cardinality(gave) /\ IsFiniteSet(gave)
  BY AfterFew, FS_Subset
<1> HIDE DEF O, B
<1>4. /\ Cardinality(O \cup B) = Cardinality(O) + Cardinality(B) - Cardinality(O \cap B)
      /\ IsFiniteSet(O \cup B) /\ IsFiniteSet(O \cap B)
  BY <1>2, <1>3, FS_Union, FS_Intersection
<1>5. /\ Cardinality(O) \in Nat /\ Cardinality(B) \in Nat /\ Cardinality(gave) \in Nat
      /\ Cardinality(O \cap B) \in Nat
  BY <1>2, <1>3, <1>4, FS_CardinalityType
<1>6. \A a, b, c, d \in Nat : a <= 3 /\ b <= d => a + b - c <= 3 + d
  OBVIOUS
<1>7. Cardinality(O) + Cardinality(B) - Cardinality(O \cap B) <= 3 + Cardinality(gave)
  BY <1>2, <1>3, <1>5, <1>6
<1> QED BY <1>1, <1>4, <1>7, Zenon

-----------------------------------------------------------------------------
(* Rings.                                                                  *)

(* The current task goes to the back.                                      *)
LEMMA RingGrown ==
  ASSUME NEW q \in Seq(Nat), NEW c \in Nat, RingWith(q, c), NEW r \in Seq(Nat), Grown(q, r, c)
  PROVE  Ring(r)
<1>1. Len(r) = Len(q) + 1 /\ r[Len(q) + 1] = c /\ \A i \in 1 .. Len(q) : r[i] = q[i]
  BY DEF Grown
<1>2. Len(q) \in Nat
  OBVIOUS
<1> SUFFICES ASSUME NEW i \in 1 .. Len(r), NEW j \in 1 .. Len(r), NEW k \in 1 .. Len(r), i < j, j < k
             PROVE  Ascend(r[i], r[j], r[k])
  BY DEF Ring
<1>3. i \in 1 .. Len(q) /\ j \in 1 .. Len(q) /\ (k \in 1 .. Len(q) \/ k = Len(q) + 1)
  <2> DEFINE n == Len(q)
  <2>1. n \in Nat /\ i \in 1 .. (n + 1) /\ j \in 1 .. (n + 1) /\ k \in 1 .. (n + 1)
    BY <1>1, <1>2
  <2> HIDE DEF n
  <2>2. i \in 1 .. n /\ j \in 1 .. n /\ (k \in 1 .. n \/ k = n + 1)
    BY <2>1
  <2> QED BY <2>2 DEF n
<1>4. CASE k \in 1 .. Len(q)
  BY <1>1, <1>3, <1>4 DEF RingWith, Ring
<1>5. CASE k = Len(q) + 1
  BY <1>1, <1>3, <1>5 DEF RingWith
<1> QED BY <1>3, <1>4, <1>5

(* Turning the ring.                                                       *)
LEMMA AscendTurns ==
  ASSUME NEW a \in Nat, NEW b \in Nat, NEW c \in Nat, Ascend(a, b, c)
  PROVE  Ascend(b, c, a) /\ Ascend(c, a, b)
BY DEF Ascend

LEMMA RingTurned ==
  ASSUME NEW q \in Seq(Nat), Ring(q), NEW k \in 1 .. Len(q)
  PROVE  RingWith(Turned(q, k), q[k])
<1> DEFINE r == Turned(q, k)
           n == Len(q)
           at(i) == IF i <= n - k THEN k + i ELSE i - (n - k)
<1>1. /\ r \in Seq(Nat) /\ Len(r) = n - 1
      /\ \A i \in 1 .. n - 1 : r[i] = IF i <= n - k THEN q[k + i] ELSE q[i - (n - k)]
  BY TurnedAt
<1>2. n \in Nat /\ k \in 1 .. n /\ \A i \in 1 .. n : q[i] \in Nat
  OBVIOUS
<1> HIDE DEF r, n
<1>3. \A i \in 1 .. n - 1 : at(i) \in 1 .. n /\ r[i] = q[at(i)]
  BY <1>1, <1>2, SMTT(60)
<1>4. \A i, j \in 1 .. n - 1 : i < j =>
        (at(i) < at(j) /\ at(j) < k) \/ (at(j) < k /\ k < at(i)) \/ (k < at(i) /\ at(i) < at(j))
  BY <1>2
<1>5. \A h, i, j \in 1 .. n - 1 : h < i /\ i < j =>
        \/ at(h) < at(i) /\ at(i) < at(j)
        \/ at(i) < at(j) /\ at(j) < at(h)
        \/ at(j) < at(h) /\ at(h) < at(i)
  BY <1>2
<1> HIDE DEF at
<1>6. ASSUME NEW x \in 1 .. n, NEW y \in 1 .. n, NEW z \in 1 .. n,
             (x < y /\ y < z) \/ (y < z /\ z < x) \/ (z < x /\ x < y)
      PROVE  Ascend(q[x], q[y], q[z])
  <2>1. q[x] \in Nat /\ q[y] \in Nat /\ q[z] \in Nat
    BY <1>2
  <2>2. \A u, v, w \in 1 .. n : u < v /\ v < w => Ascend(q[u], q[v], q[w])
    BY DEF Ring, n
  <2>3. CASE x < y /\ y < z
    BY <2>2, <2>3
  <2>4. CASE y < z /\ z < x
    <3>1. Ascend(q[y], q[z], q[x])
      BY <2>2, <2>4
    <3> QED BY <2>1, <3>1, AscendTurns
  <2>5. CASE z < x /\ x < y
    <3>1. Ascend(q[z], q[x], q[y])
      BY <2>2, <2>5
    <3> QED BY <2>1, <3>1, AscendTurns
  <2> QED BY <1>6, <2>3, <2>4, <2>5
<1>7. \A i, j \in 1 .. Len(r) : i < j => Ascend(r[i], r[j], q[k])
  BY <1>1, <1>2, <1>3, <1>4, <1>6
<1>8. \A h, i, j \in 1 .. Len(r) : h < i /\ i < j => Ascend(r[h], r[i], r[j])
  BY <1>1, <1>2, <1>3, <1>5, <1>6
<1> QED BY <1>7, <1>8 DEF RingWith, Ring, r

(* Behind main comes the task with the lowest tid.                         *)
LEMMA HeadIsLowest ==
  ASSUME NEW q \in Seq(User), RingWith(q, MAIN), q # << >>
  PROVE  /\ 1 \in 1 .. Len(q) /\ q[1] \in User
         /\ \A t \in ToSet(q) : q[1] <= t
<1>1. Len(q) \in Nat /\ 1 \in 1 .. Len(q) /\ \A i \in 1 .. Len(q) : q[i] \in User
  OBVIOUS
<1>2. ASSUME NEW i \in 1 .. Len(q) PROVE q[1] <= q[i]
  <2>1. q[1] > 1 /\ q[i] > 1 /\ q[1] \in Nat /\ q[i] \in Nat
    BY <1>1, Tids
  <2>2. CASE i = 1
    BY <2>1, <2>2
  <2>3. CASE 1 < i
    BY <1>1, <2>1, <2>3, Tids DEF RingWith, Ascend
  <2> QED BY <1>1, <2>2, <2>3
<1>3. \A t : t \in ToSet(q) <=> \E i \in 1 .. Len(q) : t = q[i]
  BY Positions
<1> QED BY <1>1, <1>2, <1>3

(* Behind the current task c comes main or, of the tasks with higher tids, *)
(* the lowest.                                                             *)
LEMMA HeadIsNext ==
  ASSUME NEW live, live \subseteq User, NEW c \in live, NEW q \in Seq(Task),
         ToSet(q) = (live \cup {MAIN}) \ {c}, RingWith(q, c)
  PROVE  /\ 1 \in 1 .. Len(q) /\ q[1] \in live \cup {MAIN} /\ q[1] # c
         /\ q[1] \in live => c < q[1] /\ \A u \in live : ~ (c < u /\ u < q[1])
<1>1. \A x : x \in ToSet(q) <=> \E i \in 1 .. Len(q) : x = q[i]
  BY Positions
<1>2. Len(q) \in Nat /\ (\A i \in 1 .. Len(q) : q[i] \in Task) /\ MAIN # c /\ c \in User
  BY Tids
<1>3. PICK m \in 1 .. Len(q) : q[m] = MAIN
  BY <1>1, <1>2
<1>4. 1 \in 1 .. Len(q) /\ q[1] \in ToSet(q)
  BY <1>1, <1>2, <1>3
<1> DEFINE h == q[1]
<1>5. \A i \in 1 .. Len(q) : 1 < i => Ascend(h, q[i], c)
  BY <1>4 DEF RingWith
<1> HIDE DEF h
<1>6. ASSUME h \in live
      PROVE  c < h /\ \A u \in live : ~ (c < u /\ u < h)
  <2>1. /\ h > 1 /\ c > 1 /\ h \in Nat /\ c \in Nat /\ MAIN = 1 /\ h # c
        /\ \A u \in live : u \in Nat /\ u > 1
    <3>1. \A u \in User : u \in Nat /\ u > 1
      BY Tids
    <3>2. h # c
      BY <1>4 DEF h
    <3> QED BY <1>2, <1>6, <3>1, <3>2, Tids
  <2>2. 1 < m
    BY <1>2, <1>3, <2>1 DEF h
  <2>3. Ascend(h, MAIN, c)
    BY <1>3, <1>5, <2>2
  <2>4. c < h
    BY <2>1, <2>3 DEF Ascend
  <2>5. ASSUME NEW u \in live, c < u, u < h PROVE FALSE
    <3>1. u # c /\ u # h
      BY <2>1, <2>5
    <3>2. PICK i \in 1 .. Len(q) : u = q[i]
      BY <1>1, <3>1
    <3>3. 1 < i
      BY <1>2, <3>1, <3>2 DEF h
    <3>4. Ascend(h, u, c)
      BY <1>5, <3>2, <3>3
    <3> QED BY <2>1, <2>5, <3>4 DEF Ascend
  <2> QED BY <2>4, <2>5
<1> QED BY <1>4, <1>6 DEF h

-----------------------------------------------------------------------------
(* resched.                                                                *)

(* t is the task that tid asks for: the one with that tid, or the first.   *)
Wanted(q, tid, t) == (tid = t /\ t # 0) \/ (tid = 0 /\ t = q[1])

PicksAt(p, tid, k, t) == pick_next(p, tid) = << t, Turned(p.ready, k) >>

(* pick_next finds it.                                                     *)
LEMMA PicksWanted ==
  ASSUME NEW p, NEW q \in Seq(Task), q = p.ready, IsInjective(q), NEW t \in ToSet(q), NEW tid,
         Wanted(q, tid, t)
  PROVE  \E k \in 1 .. Len(q) : q[k] = t /\ PicksAt(p, tid, k, t)
<1> DEFINE at == {i \in DOMAIN q : tid \in {0, q[i]}}
<1>0. (tid = t /\ t # 0) \/ (tid = 0 /\ t = q[1])
  BY DEF Wanted
<1>1. PICK k \in 1 .. Len(q) : q[k] = t /\ (tid = 0 => k = 1)
  <2>1. \E i \in 1 .. Len(q) : t = q[i]
    BY Positions
  <2>2. Len(q) \in Nat /\ 1 \in 1 .. Len(q)
    BY <2>1
  <2> QED BY <1>0, <2>1, <2>2
<1>2. \A i, j \in 1 .. Len(q) : q[i] = q[j] => i = j
  BY Positions
<1>3. DOMAIN q = 1 .. Len(q) /\ Len(q) \in Nat
  BY LenProperties
<1>4. at \subseteq Nat /\ k \in at /\ \A i \in at : i \in 1 .. Len(q) /\ (tid = 0 \/ q[i] = t)
  BY <1>0, <1>1, <1>3
<1>5. at # {}
  BY <1>4
<1>6. Min(at) \in at /\ \A y \in at : Min(at) <= y
  <2> HIDE DEF at
  <2> QED BY <1>4, <1>5, MinIn
<1>7. Min(at) = k
  <2> DEFINE m == Min(at)
  <2>1. m \in 1 .. Len(q) /\ m <= k /\ (tid = 0 \/ q[m] = t)
    BY <1>4, <1>6
  <2> HIDE DEF m
  <2>2. m = k
    BY <1>1, <1>2, <2>1
  <2> QED BY <2>2 DEF m
<1>8. q # << >>
  BY <1>1
<1>9. pick_next(p, tid) = << q[Min(at)], SubSeq(q, Min(at) + 1, Len(q)) \o SubSeq(q, 1, Min(at) - 1) >>
  <2>1. pick_next(p, tid) =
          IF q = << >> THEN << IDLE, q >>
          ELSE IF at # {}
          THEN << q[Min(at)], SubSeq(q, Min(at) + 1, Len(q)) \o SubSeq(q, 1, Min(at) - 1) >>
          ELSE << IF p.is_started[Head(q)] THEN Head(q) ELSE IDLE, Tail(q) >>
    BY Zenon DEF pick_next
  <2> HIDE DEF at
  <2> QED BY <1>5, <1>8, <2>1, Zenon
<1> HIDE DEF at
<1>10. PicksAt(p, tid, k, t)
  BY <1>1, <1>7, <1>9, Zenon DEF Turned, PicksAt
<1> QED BY <1>1, <1>10

(* The run queue with another ready queue.                                 *)
Requeued(p, q) == [p EXCEPT !.ready = q]

LEMMA RequeuedFields ==
  ASSUME NEW p \in RQ, NEW q \in Seq(Task), NEW s, s = Requeued(p, q)
  PROVE  /\ s \in RQ /\ s.ready = q /\ s.current = p.current /\ s.state = p.state
         /\ s.is_started = p.is_started /\ s.stack_idx = p.stack_idx
         /\ s.preempted = p.preempted /\ s.saved = p.saved
         /\ s.kstack_state = p.kstack_state /\ s.kstack = p.kstack
BY DEF RQ, Requeued

(* The task t is made the current one.                                     *)
Current(s, t) == [s EXCEPT !.state[t] = "Running", !.current = t]

LEMMA CurrentFields ==
  ASSUME NEW s \in RQ, NEW t \in Task, NEW c, c = Current(s, t)
  PROVE  /\ c \in RQ /\ c.ready = s.ready /\ c.current = t
         /\ c.state[t] = "Running" /\ \A u \in Task : u # t => c.state[u] = s.state[u]
         /\ c.is_started = s.is_started /\ c.stack_idx = s.stack_idx
         /\ c.preempted = s.preempted /\ c.saved = s.saved
         /\ c.kstack_state = s.kstack_state /\ c.kstack = s.kstack
<1>1. c = [s EXCEPT !.state = [s.state EXCEPT ![t] = "Running"], !.current = t]
  BY DEF Current
<1> DEFINE st == [s.state EXCEPT ![t] = "Running"]
<1>2. /\ st \in [Task -> {"Running", "Ready", "Exited"}] /\ st[t] = "Running"
      /\ \A u \in Task : u # t => st[u] = s.state[u]
  BY DEF RQ
<1>3. c = [s EXCEPT !.state = st, !.current = t]
  BY <1>1
<1> HIDE DEF st
<1> QED BY <1>2, <1>3 DEF RQ

(* switch_to main.                                                         *)
LEMMA SwitchMain ==
  ASSUME NEW s \in RQ, NEW w, w = switch_to(s, MAIN)
  PROVE  /\ w \in RQ /\ w.ready = s.ready /\ w.current = MAIN
         /\ w.state[MAIN] = "Running" /\ \A u \in Task : u # MAIN => w.state[u] = s.state[u]
         /\ w.is_started = s.is_started /\ w.stack_idx = s.stack_idx
         /\ w.preempted = s.preempted /\ w.saved = s.saved
         /\ w.kstack_state = s.kstack_state /\ \A i \in Stack : i # 0 => w.kstack[i] = s.kstack[i]
<1>1. MAIN \in Task /\ is_kernel_task(MAIN) /\ 0 \in Stack
  BY Tids
<1> DEFINE c == Current(s, MAIN)
           ks == [c.kstack EXCEPT ![0] = MAIN]
<1>2. /\ c \in RQ /\ c.ready = s.ready /\ c.current = MAIN
      /\ c.state[MAIN] = "Running" /\ \A u \in Task : u # MAIN => c.state[u] = s.state[u]
      /\ c.is_started = s.is_started /\ c.stack_idx = s.stack_idx
      /\ c.preempted = s.preempted /\ c.saved = s.saved
      /\ c.kstack_state = s.kstack_state /\ c.kstack = s.kstack
  BY <1>1, CurrentFields
<1>3. w = [c EXCEPT !.kstack = ks]
  BY <1>1 DEF switch_to, Current
<1> HIDE DEF c
<1>4. ks \in [Stack -> Task \cup {None}] /\ \A i \in Stack : i # 0 => ks[i] = s.kstack[i]
  BY <1>1, <1>2 DEF RQ
<1> HIDE DEF ks
<1>5. w \in RQ
  BY <1>2, <1>3, <1>4 DEF RQ
<1>6. /\ w.ready = c.ready /\ w.current = c.current /\ w.state = c.state
      /\ w.is_started = c.is_started /\ w.stack_idx = c.stack_idx
      /\ w.preempted = c.preempted /\ w.saved = c.saved
      /\ w.kstack_state = c.kstack_state /\ w.kstack = ks
  BY <1>2, <1>3 DEF RQ
<1> QED BY <1>2, <1>4, <1>5, <1>6

(* switch_to a user task that has started.                                 *)
LEMMA SwitchStarted ==
  ASSUME NEW s \in RQ, NEW t \in User, s.is_started[t], NEW w, w = switch_to(s, t)
  PROVE  /\ w \in RQ /\ w.ready = s.ready /\ w.current = t
         /\ w.state[t] = "Running" /\ \A u \in Task : u # t => w.state[u] = s.state[u]
         /\ w.is_started = s.is_started /\ w.stack_idx = s.stack_idx
         /\ ~w.preempted[t] /\ \A u \in Task : u # t => w.preempted[u] = s.preempted[u]
         /\ ~w.saved[t] /\ \A u \in Task : u # t => w.saved[u] = s.saved[u]
         /\ w.kstack_state = s.kstack_state /\ w.kstack = s.kstack
<1>1. t \in Task /\ ~is_kernel_task(t) /\ s.stack_idx[t] \in Stack
  BY Tids DEF RQ
<1> DEFINE c == Current(s, t)
           i == s.stack_idx[t]
           pre == [c.preempted EXCEPT ![t] = FALSE]
           sav == [c.saved EXCEPT ![t] = FALSE]
<1>2. /\ c \in RQ /\ c.ready = s.ready /\ c.current = t
      /\ c.state[t] = "Running" /\ \A u \in Task : u # t => c.state[u] = s.state[u]
      /\ c.is_started = s.is_started /\ c.stack_idx = s.stack_idx
      /\ c.preempted = s.preempted /\ c.saved = s.saved
      /\ c.kstack_state = s.kstack_state /\ c.kstack = s.kstack
  BY <1>1, CurrentFields
<1>3. w = [c EXCEPT !.cur_stack = i, !.preempted = pre, !.saved = sav]
  BY <1>1 DEF switch_to, Current
<1> HIDE DEF c, i
<1>4. /\ pre \in [Task -> BOOLEAN] /\ ~pre[t] /\ \A u \in Task : u # t => pre[u] = s.preempted[u]
      /\ sav \in [Task -> BOOLEAN] /\ ~sav[t] /\ \A u \in Task : u # t => sav[u] = s.saved[u]
  BY <1>1, <1>2 DEF RQ
<1> HIDE DEF pre, sav
<1>5. i \in Stack
  BY <1>1 DEF i
<1>6. w \in RQ
  BY <1>2, <1>3, <1>4, <1>5, ZenonT(60) DEF RQ
<1>7. /\ w.ready = c.ready /\ w.current = c.current /\ w.state = c.state
      /\ w.is_started = c.is_started /\ w.stack_idx = c.stack_idx
      /\ w.preempted = pre /\ w.saved = sav
      /\ w.kstack_state = c.kstack_state /\ w.kstack = c.kstack
  BY <1>2, <1>3 DEF RQ
<1> QED BY <1>2, <1>4, <1>6, <1>7

(* switch_to a user task that has not started, when there is a stack.      *)
LEMMA SwitchFresh ==
  ASSUME NEW s \in RQ, NEW t \in User, ~s.is_started[t], FreeStacks(s) # {}, NEW w, w = switch_to(s, t)
  PROVE  \E i \in Stack :
         /\ i # 0 /\ ~s.kstack_state[i]
         /\ w \in RQ /\ w.ready = s.ready /\ w.current = t
         /\ w.state[t] = "Running" /\ \A u \in Task : u # t => w.state[u] = s.state[u]
         /\ w.is_started[t] /\ \A u \in Task : u # t => w.is_started[u] = s.is_started[u]
         /\ w.stack_idx[t] = i /\ \A u \in Task : u # t => w.stack_idx[u] = s.stack_idx[u]
         /\ w.preempted = s.preempted /\ w.saved = s.saved
         /\ w.kstack_state[i] /\ \A j \in Stack : j # i => w.kstack_state[j] = s.kstack_state[j]
         /\ w.kstack[i] = t /\ \A j \in Stack : j # i => w.kstack[j] = s.kstack[j]
<1> DEFINE c == Current(s, t)
           i == alloc_stack(s)
           idx == [c.stack_idx EXCEPT ![t] = i]
           started == [c.is_started EXCEPT ![t] = TRUE]
           given == [c.kstack_state EXCEPT ![i] = TRUE]
           ks == [c.kstack EXCEPT ![i] = t]
<1>1. t \in Task /\ ~is_kernel_task(t)
  BY Tids
<1>2. /\ c \in RQ /\ c.ready = s.ready /\ c.current = t
      /\ c.state[t] = "Running" /\ \A u \in Task : u # t => c.state[u] = s.state[u]
      /\ c.is_started = s.is_started /\ c.stack_idx = s.stack_idx
      /\ c.preempted = s.preempted /\ c.saved = s.saved
      /\ c.kstack_state = s.kstack_state /\ c.kstack = s.kstack
  BY <1>1, CurrentFields
<1>3. w = [c EXCEPT !.stack_idx = idx, !.cur_stack = i, !.is_started = started,
                    !.kstack_state = given, !.kstack = ks]
  BY <1>1 DEF switch_to, Current
<1>4. FreeStacks(s) \subseteq Nat /\ \A j \in FreeStacks(s) : j \in Stack /\ j # 0 /\ ~s.kstack_state[j]
  BY StackPoolAssumption DEF FreeStacks, Stack
<1>5. i \in FreeStacks(s)
  BY <1>4, MinIn DEF alloc_stack
<1>6. i \in Stack /\ i # 0 /\ ~s.kstack_state[i]
  BY <1>4, <1>5
<1> HIDE DEF c, i
<1>7. /\ idx \in [Task -> Stack] /\ idx[t] = i /\ \A u \in Task : u # t => idx[u] = s.stack_idx[u]
      /\ started \in [Task -> BOOLEAN] /\ started[t]
      /\ \A u \in Task : u # t => started[u] = s.is_started[u]
  BY <1>1, <1>2, <1>6 DEF RQ
<1>8. /\ given \in [Stack -> BOOLEAN] /\ given[i]
      /\ \A j \in Stack : j # i => given[j] = s.kstack_state[j]
      /\ ks \in [Stack -> Task \cup {None}] /\ ks[i] = t
      /\ \A j \in Stack : j # i => ks[j] = s.kstack[j]
  BY <1>1, <1>2, <1>6 DEF RQ
<1> HIDE DEF idx, started, given, ks
<1>9. w \in RQ
  <2>1. [c EXCEPT !.stack_idx = idx, !.cur_stack = i, !.is_started = started] \in RQ
    BY <1>2, <1>6, <1>7 DEF RQ
  <2>2. w = [[c EXCEPT !.stack_idx = idx, !.cur_stack = i, !.is_started = started]
               EXCEPT !.kstack_state = given, !.kstack = ks]
    BY <1>3
  <2> QED BY <1>8, <2>1, <2>2, ZenonT(120) DEF RQ
<1>10. /\ w.ready = c.ready /\ w.current = c.current /\ w.state = c.state
       /\ w.is_started = started /\ w.stack_idx = idx
       /\ w.preempted = c.preempted /\ w.saved = c.saved
       /\ w.kstack_state = given /\ w.kstack = ks
  BY <1>2, <1>3 DEF RQ
<1> QED BY <1>2, <1>6, <1>7, <1>8, <1>9, <1>10

(* The run queue inside resched, once the current task is put back.        *)
Loose(p, live, gave) ==
  /\ Core(p, live, gave) /\ ToSet(p.ready) = live \cup {MAIN}
  /\ \A t \in ToSet(p.ready) : p.state[t] = "Ready"
  /\ Ring(p.ready)
  /\ \A t \in live : p.is_started[t] => p.saved[t] \/ t \in gave

(* After a resched.                                                        *)
Settled(r, live, gave, p, rd) ==
  /\ Core(r, live, gave) /\ SavedBut(r, live, gave, r.current)
  /\ Doing(r, live, gave, p, rd) /\ p # "create"

(* The fields that Stacks, Fresh, Gave and Few read.                       *)
LEMMA SameCore ==
  ASSUME NEW r, NEW s \in RQ, NEW live, NEW gave, Core(r, live, gave), IsInjective(s.ready),
         s.is_started = r.is_started, s.stack_idx = r.stack_idx,
         \A u \in User : s.is_started[u] \/ (~s.preempted[u] /\ ~s.saved[u]),
         \A u \in gave : ~s.saved[u],
         s.kstack_state = r.kstack_state, \A i \in Stack : i # 0 => s.kstack[i] = r.kstack[i]
  PROVE  Core(s, live, gave)
<1>1. \A t \in live : r.stack_idx[t] \in Stack
  BY Tids DEF Core, RQ
<1>2. Stacks(s, live)
  BY <1>1 DEF Core, Stacks
<1>3. Fresh(s) /\ Few(s, live, gave) /\ Gave(s, live, gave)
  BY DEF Core, Fresh, Few, Gave
<1> QED BY <1>2, <1>3 DEF Core

(* The next task t is out of the queue.                                    *)
LEMMA Taken ==
  ASSUME NEW p, NEW live, NEW gave, Loose(p, live, gave), NEW k \in 1 .. Len(p.ready),
         NEW t, p.ready[k] = t, NEW s, s = Requeued(p, Turned(p.ready, k))
  PROVE  /\ Core(s, live, gave) /\ ToSet(s.ready) = (live \cup {MAIN}) \ {t}
         /\ \A u \in ToSet(s.ready) : s.state[u] = "Ready"
         /\ RingWith(s.ready, t)
         /\ \A u \in live : s.is_started[u] => s.saved[u] \/ u \in gave
         /\ s.current = p.current /\ s \in RQ
<1> DEFINE q == p.ready
           d == Turned(q, k)
<1>1. p \in RQ /\ q \in Seq(Task) /\ IsInjective(q)
  BY DEF Loose, Core, RQ
<1>2. q \in Seq(Nat)
  BY <1>1, TidSeq
<1>3. d \in Seq(Task) /\ IsInjective(d) /\ ToSet(d) = ToSet(q) \ {t}
  BY <1>1, TurnedAt, TurnedLeaves
<1>4. RingWith(d, t)
  BY <1>2, RingTurned DEF Loose
<1> HIDE DEF q, d
<1>5. s = Requeued(p, d)
  BY DEF q, d
<1>6. /\ s \in RQ /\ s.ready = d /\ s.current = p.current /\ s.state = p.state
      /\ s.is_started = p.is_started /\ s.stack_idx = p.stack_idx
      /\ s.preempted = p.preempted /\ s.saved = p.saved
      /\ s.kstack_state = p.kstack_state /\ s.kstack = p.kstack
  BY <1>1, <1>3, <1>5, RequeuedFields
<1>7. /\ \A u \in User : s.is_started[u] \/ (~s.preempted[u] /\ ~s.saved[u])
      /\ \A u \in gave : ~s.saved[u]
  BY <1>6 DEF Loose, Core, Fresh, Gave
<1>8. Core(s, live, gave)
  BY <1>3, <1>6, <1>7, SameCore DEF Loose
<1>9. ToSet(s.ready) = (live \cup {MAIN}) \ {t}
  BY <1>3, <1>6 DEF Loose, q
<1>10. \A u \in ToSet(s.ready) : s.state[u] = "Ready"
  BY <1>6, <1>9 DEF Loose
<1> QED BY <1>4, <1>6, <1>8, <1>9, <1>10 DEF Loose

(* With four stacks, one of them that of the kernel tasks, and one for each*)
(* empty read, one is left for an entitled task that has not started.      *)
LEMMA StackLeft ==
  ASSUME NEW s, NEW live, NEW gave, Core(s, live, gave), NEW t \in live, ~s.is_started[t],
         Entitled(t, live, gave), FreeStacks(s) = {}
  PROVE  KSTACK_NUM < 4 + Cardinality(gave)
<1> DEFINE K == 1 .. (KSTACK_NUM - 1)
           X == {u \in live : Entitled(u, live, gave)}
           Y == X \ {t}
           o == [i \in K |-> s.kstack[i]]
<1>1. live \subseteq Int /\ IsFiniteSet(live) /\ gave \in SUBSET live
  <2>1. live \subseteq User /\ gave \subseteq live
    BY DEF Core, Gave
  <2>2. IsFiniteSet(User) /\ User \subseteq Int
    BY Tids DEF User
  <2> QED BY <2>1, <2>2, FS_Subset
<1>2. IsFiniteSet(X) /\ Cardinality(X) <= 3 + Cardinality(gave)
  BY <1>1, EntitledFew
<1>3. /\ \A i \in K : i \in Stack /\ s.kstack_state[i]
      /\ KSTACK_NUM \in Nat /\ Cardinality(K) = KSTACK_NUM - 1
  <2>1. KSTACK_NUM \in Nat /\ KSTACK_NUM >= 1
    BY StackPoolAssumption
  <2>2. Cardinality(1 .. (KSTACK_NUM - 1)) = IF 1 > KSTACK_NUM - 1 THEN 0 ELSE (KSTACK_NUM - 1) - 1 + 1
    BY <2>1, FS_Interval
  <2>3. Cardinality(K) = KSTACK_NUM - 1
    BY <2>1, <2>2
  <2>4. \A i \in K : i \in Stack /\ s.kstack_state[i]
    BY <2>1 DEF FreeStacks, Stack
  <2> QED BY <2>1, <2>3, <2>4
<1>4. \A i \in Stack : s.kstack_state[i] =>
        /\ s.kstack[i] \in live /\ s.is_started[s.kstack[i]] /\ s.stack_idx[s.kstack[i]] = i
        /\ Entitled(s.kstack[i], live, gave)
  BY DEF Core, Stacks, Few
<1>5. t \in X /\ \A i \in K : s.kstack[i] \in Y /\ s.stack_idx[s.kstack[i]] = i
  BY <1>3, <1>4
<1> HIDE DEF K, X, Y
<1>6. o \in Injection(K, Y)
  BY <1>5 DEF Injection, IsInjective
<1>7. IsFiniteSet(Y) /\ Cardinality(Y) = Cardinality(X) - 1
  BY <1>2, <1>5, FS_RemoveElement DEF Y
<1>8. Cardinality(K) <= Cardinality(Y)
  BY <1>6, <1>7, FS_Injection
<1>9. Cardinality(X) \in Nat /\ Cardinality(gave) \in Nat
  BY <1>1, <1>2, FS_Subset, FS_CardinalityType
<1> QED BY <1>2, <1>3, <1>7, <1>8, <1>9

(* What the CPU does after a switch_to, in a resched called for from.      *)
Goes(s, t, from) ==
  IF is_kernel_task(t) THEN "kernel"
  ELSE IF ~s.is_started[t] THEN (IF from = None THEN "user" ELSE "read")
  ELSE IF s.saved[t] THEN "yield" ELSE "wild"

(* switch_to the task that was taken out of the queue.                     *)
LEMMA SwitchSettles ==
  ASSUME NEW s, NEW live, NEW gave, Core(s, live, gave), NEW t, ToSet(s.ready) = (live \cup {MAIN}) \ {t},
         \A u \in ToSet(s.ready) : s.state[u] = "Ready", RingWith(s.ready, t),
         \A u \in live : s.is_started[u] => s.saved[u] \/ u \in gave,
         t \in live \cup {MAIN}, t \in live => Entitled(t, live, gave), live # {},
         is_kernel_task(t) \/ s.is_started[t] \/ FreeStacks(s) # {},
         NEW w, w = switch_to(s, t), NEW from \in gave \cup {None},
         NEW c, c = Goes(s, t, from),
         NEW d, d = IF c \in {"read", "kernel"} THEN from ELSE None
  PROVE  Settled(w, live, gave, c, d)
<1>1. /\ s \in RQ /\ live \subseteq User /\ IsInjective(s.ready) /\ Fresh(s) /\ live \subseteq Task
      /\ gave \subseteq live /\ \A u \in gave : s.is_started[u] /\ ~s.saved[u]
  BY Tids DEF Core, Gave
<1>2. \A u \in ToSet(s.ready) : u \in Task /\ u # t
  BY <1>1, Tids
<1>3. CASE t = MAIN
  <2>1. /\ w \in RQ /\ w.ready = s.ready /\ w.current = MAIN
        /\ w.state[MAIN] = "Running" /\ \A u \in Task : u # MAIN => w.state[u] = s.state[u]
        /\ w.is_started = s.is_started /\ w.stack_idx = s.stack_idx
        /\ w.preempted = s.preempted /\ w.saved = s.saved
        /\ w.kstack_state = s.kstack_state /\ \A i \in Stack : i # 0 => w.kstack[i] = s.kstack[i]
    BY <1>1, <1>3, SwitchMain
  <2>2. /\ \A u \in User : w.is_started[u] \/ (~w.preempted[u] /\ ~w.saved[u])
        /\ \A u \in gave : ~w.saved[u]
    BY <1>1, <2>1 DEF Fresh
  <2>3. IsInjective(w.ready)
    BY <1>1, <2>1
  <2>4. Core(w, live, gave)
    BY <2>1, <2>2, <2>3, SameCore
  <2>5. SavedBut(w, live, gave, w.current)
    BY <2>1 DEF SavedBut
  <2>6. Queue(w, live)
    BY <1>2, <1>3, <2>1 DEF Queue
  <2>7. c = "kernel" /\ d = from
    BY <1>3, Tids DEF Goes
  <2>8. Doing(w, live, gave, c, d)
    BY <2>1, <2>6, <2>7 DEF Doing
  <2> QED BY <2>4, <2>5, <2>7, <2>8 DEF Settled
<1>4. CASE t \in live /\ s.is_started[t]
  <2>1. /\ w \in RQ /\ w.ready = s.ready /\ w.current = t
        /\ w.state[t] = "Running" /\ \A u \in Task : u # t => w.state[u] = s.state[u]
        /\ w.is_started = s.is_started /\ w.stack_idx = s.stack_idx
        /\ ~w.preempted[t] /\ \A u \in Task : u # t => w.preempted[u] = s.preempted[u]
        /\ ~w.saved[t] /\ \A u \in Task : u # t => w.saved[u] = s.saved[u]
        /\ w.kstack_state = s.kstack_state /\ w.kstack = s.kstack
    BY <1>1, <1>4, SwitchStarted
  <2>2. /\ \A u \in User : w.is_started[u] \/ (~w.preempted[u] /\ ~w.saved[u])
        /\ \A u \in gave : ~w.saved[u]
    BY <1>1, <1>4, <2>1, Tids DEF Fresh
  <2>3. IsInjective(w.ready)
    BY <1>1, <2>1
  <2>4. Core(w, live, gave)
    BY <2>1, <2>2, <2>3, SameCore
  <2>5. SavedBut(w, live, gave, w.current)
    BY <1>1, <2>1 DEF SavedBut
  <2>6. Queue(w, live)
    BY <1>2, <2>1 DEF Queue
  <2>7. c = IF s.saved[t] THEN "yield" ELSE "wild"
    BY <1>1, <1>4, Tids DEF Goes
  <2>8. Doing(w, live, gave, c, d)
    <3>1. CASE s.saved[t]
      <4>1. t \in live \ gave
        BY <1>1, <1>4, <3>1
      <4> QED BY <1>4, <2>1, <2>6, <2>7, <3>1, <4>1 DEF Doing
    <3>2. CASE ~s.saved[t]
      BY <2>6, <2>7, <3>2 DEF Doing
    <3> QED BY <3>1, <3>2
  <2> QED BY <2>4, <2>5, <2>7, <2>8 DEF Settled
<1>5. CASE t \in live /\ ~s.is_started[t]
  <2>1. t \in User /\ ~is_kernel_task(t) /\ t \in Task
    BY <1>1, <1>5, Tids
  <2>2. PICK i \in Stack :
         /\ i # 0 /\ ~s.kstack_state[i]
         /\ w \in RQ /\ w.ready = s.ready /\ w.current = t
         /\ w.state[t] = "Running" /\ \A u \in Task : u # t => w.state[u] = s.state[u]
         /\ w.is_started[t] /\ \A u \in Task : u # t => w.is_started[u] = s.is_started[u]
         /\ w.stack_idx[t] = i /\ \A u \in Task : u # t => w.stack_idx[u] = s.stack_idx[u]
         /\ w.preempted = s.preempted /\ w.saved = s.saved
         /\ w.kstack_state[i] /\ \A j \in Stack : j # i => w.kstack_state[j] = s.kstack_state[j]
         /\ w.kstack[i] = t /\ \A j \in Stack : j # i => w.kstack[j] = s.kstack[j]
    BY <1>1, <1>5, <2>1, SwitchFresh
  <2>3. Stacks(w, live)
    <3>1. ASSUME NEW u \in live, w.is_started[u]
          PROVE  w.kstack_state[w.stack_idx[u]] /\ w.kstack[w.stack_idx[u]] = u
      <4>1. CASE u = t
        BY <2>2, <4>1
      <4>2. CASE u # t
        <5>1. u \in Task /\ s.is_started[u] /\ w.stack_idx[u] = s.stack_idx[u]
          BY <1>1, <2>2, <3>1, <4>2
        <5>2. s.kstack_state[s.stack_idx[u]] /\ s.kstack[s.stack_idx[u]] = u /\ s.stack_idx[u] \in Stack
          BY <1>1, <5>1 DEF Core, Stacks, RQ
        <5>3. s.stack_idx[u] # i
          BY <2>2, <5>2
        <5> QED BY <2>2, <5>1, <5>2, <5>3
      <4> QED BY <4>1, <4>2
    <3>2. ASSUME NEW j \in Stack, w.kstack_state[j]
          PROVE  /\ j # 0 /\ w.kstack[j] \in live
                 /\ w.is_started[w.kstack[j]] /\ w.stack_idx[w.kstack[j]] = j
      <4>1. CASE j = i
        BY <1>5, <2>2, <4>1
      <4>2. CASE j # i
        <5>1. s.kstack_state[j] /\ w.kstack[j] = s.kstack[j]
          BY <2>2, <3>2, <4>2
        <5>2. j # 0 /\ s.kstack[j] \in live /\ s.is_started[s.kstack[j]] /\ s.stack_idx[s.kstack[j]] = j
          BY <5>1 DEF Core, Stacks
        <5>3. s.kstack[j] # t /\ s.kstack[j] \in Task
          BY <1>1, <1>5, <5>2
        <5> QED BY <2>2, <5>1, <5>2, <5>3
      <4> QED BY <4>1, <4>2
    <3> QED BY <3>1, <3>2 DEF Stacks
  <2>4. Fresh(w)
    BY <1>1, <2>2, Tids DEF Fresh
  <2>5. Few(w, live, gave) /\ Gave(w, live, gave)
    BY <1>1, <1>5, <2>2 DEF Core, Few, Gave
  <2>6. Core(w, live, gave)
    BY <1>1, <2>2, <2>3, <2>4, <2>5 DEF Core
  <2>7. SavedBut(w, live, gave, w.current)
    BY <1>1, <2>2 DEF SavedBut
  <2>8. Queue(w, live)
    BY <1>2, <2>2 DEF Queue
  <2>9. (c = "user" /\ from = None) \/ (c = "read" /\ from \in gave /\ d = from)
    BY <1>5, <2>1 DEF Goes
  <2>10. Doing(w, live, gave, c, d)
    <3>1. t \in live \ gave /\ ~w.saved[t] /\ ~w.preempted[t]
      BY <1>1, <1>5, <2>1, <2>2 DEF Fresh
    <3> QED BY <2>2, <2>8, <2>9, <3>1 DEF Doing
  <2> QED BY <2>6, <2>7, <2>9, <2>10 DEF Settled
<1> QED BY <1>3, <1>4, <1>5

(* resched to a task t that is not the current one.                        *)
LEMMA ReschedTo ==
  ASSUME NEW r, NEW live, NEW gave, live # {}, NEW p, p = put_prev(r),
         Loose(p, live, gave), p.current = r.current,
         NEW t \in live \cup {MAIN}, t # r.current, t \in live => Entitled(t, live, gave),
         NEW tid, tid = t \/ (tid = 0 /\ t = p.ready[1]),
         NEW from \in gave \cup {None}, resched(r, tid, from)
  PROVE  Settled(rq', live, gave, pc', reader')
<1>1. p \in RQ /\ p.ready \in Seq(Task) /\ IsInjective(p.ready) /\ t \in ToSet(p.ready) /\ t # 0
  BY Tids DEF Loose, Core, RQ
<1>2. PICK k \in 1 .. Len(p.ready) :
        p.ready[k] = t /\ pick_next(p, tid) = << t, Turned(p.ready, k) >>
  <2> DEFINE q == p.ready
  <2>1. q \in Seq(Task) /\ q = p.ready /\ IsInjective(q) /\ t \in ToSet(q) /\ Wanted(q, tid, t)
    BY <1>1 DEF Wanted
  <2> HIDE DEF q
  <2>2. \E k \in 1 .. Len(q) : q[k] = t /\ PicksAt(p, tid, k, t)
    BY <2>1, PicksWanted
  <2> QED BY <2>2, Zenon DEF q, PicksAt
<1> DEFINE s == Requeued(p, Turned(p.ready, k))
<1>3. /\ Core(s, live, gave) /\ ToSet(s.ready) = (live \cup {MAIN}) \ {t}
      /\ \A u \in ToSet(s.ready) : s.state[u] = "Ready"
      /\ RingWith(s.ready, t)
      /\ \A u \in live : s.is_started[u] => s.saved[u] \/ u \in gave
      /\ s.current = p.current /\ s \in RQ
  <2>1. s = Requeued(p, Turned(p.ready, k)) /\ p.ready[k] = t
    BY <1>2
  <2> HIDE DEF s
  <2> QED BY <2>1, Taken, SMTT(60)
<1>4. /\ IF ~is_kernel_task(t) /\ ~s.is_started[t] /\ FreeStacks(s) = {}
         THEN rq' = s /\ pc' = "panic"
         ELSE rq' = switch_to(s, t) /\ pc' = Goes(s, t, from)
      /\ reader' = IF pc' \in {"read", "kernel"} THEN from ELSE None
  BY <1>2 DEF resched, Requeued, Goes
<1> HIDE DEF s
<1>5. CASE ~is_kernel_task(t) /\ ~s.is_started[t] /\ FreeStacks(s) = {}
  <2>1. rq' = s /\ pc' = "panic"
    BY <1>4, <1>5
  <2>2. t \in live
    BY <1>5, Tids
  <2>3. KSTACK_NUM < 4 + Cardinality(gave)
    BY <1>3, <1>5, <2>2, StackLeft
  <2>4. Doing(s, live, gave, "panic", reader')
    BY <2>3 DEF Doing
  <2>5. SavedBut(s, live, gave, s.current)
    BY <1>3 DEF SavedBut
  <2> QED BY <1>3, <2>1, <2>4, <2>5 DEF Settled
<1>6. CASE is_kernel_task(t) \/ s.is_started[t] \/ FreeStacks(s) # {}
  <2>1. /\ rq' = switch_to(s, t) /\ pc' = Goes(s, t, from)
        /\ reader' = IF pc' \in {"read", "kernel"} THEN from ELSE None
    BY <1>4, <1>6
  <2> QED BY <1>3, <1>6, <2>1, SwitchSettles
<1> QED BY <1>5, <1>6

(* put_prev of a running task.                                             *)
LEMMA PutBack ==
  ASSUME NEW r, NEW live, NEW gave, Core(r, live, gave), Queue(r, live), r.current \in live \cup {MAIN},
         \A t \in live : r.is_started[t] => r.saved[t] \/ t \in gave, NEW p, p = put_prev(r)
  PROVE  /\ Loose(p, live, gave) /\ p.current = r.current
         /\ \A i \in 1 .. Len(r.ready) : p.ready[i] = r.ready[i]
<1> DEFINE c == r.current
           q == r.ready
           d == Append(q, c)
           st == [r.state EXCEPT ![c] = "Ready"]
<1>1. /\ r \in RQ /\ live \subseteq User /\ c \in Task /\ c # IDLE /\ c \in Nat
      /\ q \in Seq(Task) /\ IsInjective(q) /\ c \notin ToSet(q)
      /\ ToSet(q) = (live \cup {MAIN}) \ {c} /\ RingWith(q, c)
  BY Tids DEF Core, Queue, RQ
<1>2. p = [r EXCEPT !.state = st, !.ready = d]
  BY <1>1 DEF Queue, put_prev
<1>3. /\ st \in [Task -> {"Running", "Ready", "Exited"}] /\ st[c] = "Ready"
      /\ \A u \in Task : u # c => st[u] = r.state[u]
  BY <1>1 DEF RQ
<1>4. q \in Seq(Nat) /\ \A u \in ToSet(q) : u \in Task
  BY <1>1, TidSeq
<1> HIDE DEF c, q, st
<1>5. d \in Seq(Task) /\ d \in Seq(Nat) /\ Grown(q, d, c)
  BY <1>1, <1>4, AppendGrows
<1> HIDE DEF d
<1>6. IsInjective(d) /\ ToSet(d) = ToSet(q) \cup {c}
  BY <1>1, <1>5, PushedLeaves
<1>7. Ring(d)
  BY <1>1, <1>4, <1>5, RingGrown
<1>8. p \in RQ
  BY <1>1, <1>2, <1>3, <1>5 DEF RQ
<1>9. /\ p.ready = d /\ p.current = r.current /\ p.state = st
      /\ p.is_started = r.is_started /\ p.stack_idx = r.stack_idx
      /\ p.preempted = r.preempted /\ p.saved = r.saved
      /\ p.kstack_state = r.kstack_state /\ p.kstack = r.kstack
  BY <1>1, <1>2 DEF RQ
<1>10. /\ \A u \in User : p.is_started[u] \/ (~p.preempted[u] /\ ~p.saved[u])
       /\ \A u \in gave : ~p.saved[u]
  BY <1>9 DEF Core, Fresh, Gave
<1>11. Core(p, live, gave)
  BY <1>6, <1>8, <1>9, <1>10, SameCore
<1>12. ToSet(p.ready) = live \cup {MAIN}
  BY <1>1, <1>6, <1>9 DEF c
<1>13. \A u \in ToSet(p.ready) : p.state[u] = "Ready"
  <2>1. \A u \in ToSet(q) : r.state[u] = "Ready"
    BY DEF Queue, q
  <2> QED BY <1>3, <1>4, <1>6, <1>9, <2>1
<1>14. \A i \in 1 .. Len(r.ready) : p.ready[i] = r.ready[i]
  BY <1>5, <1>9 DEF Grown, q
<1> QED BY <1>7, <1>9, <1>11, <1>12, <1>13, <1>14 DEF Loose

-----------------------------------------------------------------------------
(* Every step preserves the invariant.                                     *)

LEMMA InitInv == Init => IInv
<1> SUFFICES ASSUME Init PROVE IInv
  OBVIOUS
<1>1. /\ rq = [ready |-> << >>, current |-> MAIN,
               state |-> [t \in Task |-> IF t = MAIN THEN "Running" ELSE "Ready"],
               is_started |-> [t \in Task |-> FALSE], stack_idx  |-> [t \in Task |-> 0],
               preempted  |-> [t \in Task |-> FALSE], saved      |-> [t \in Task |-> FALSE],
               kstack_state |-> [i \in Stack |-> FALSE], kstack  |-> [i \in Stack |-> None],
               cur_stack |-> 0]
      /\ task_nub = 0 /\ tid2task = {} /\ task_queue = << >> /\ pc = "create"
      /\ polled = {}
  BY DEF Init
<1>2. rq \in RQ
  BY <1>1, Tids DEF RQ
<1>3. Len(rq.ready) = 0 /\ rq.current = MAIN /\ ToSet(rq.ready) = {} /\ IsInjective(rq.ready)
  BY <1>1 DEF ToSet, IsInjective
<1>4. Core(rq, tid2task, polled)
  BY <1>1, <1>2, <1>3, Tids DEF Core, Stacks, Fresh, Gave, Few
<1>5. SavedBut(rq, tid2task, polled, rq.current)
  BY <1>1 DEF SavedBut
<1>6. rq.state[MAIN] = "Running" /\ RingWith(rq.ready, MAIN)
  BY <1>1, <1>3, Tids DEF RingWith, Ring
<1>7. Doing(rq, tid2task, polled, pc, reader)
  BY <1>1, <1>3, <1>6 DEF Doing, Queue
<1>8. Creating
  BY <1>1, <1>3, Tids DEF Creating
<1>9. task_nub = Cardinality(tid2task)
  BY <1>1, FS_EmptySet
<1> QED BY <1>4, <1>5, <1>7, <1>8, <1>9 DEF IInv

(* A resched of an action settles the run queue.                           *)
LEMMA SettledInv ==
  ASSUME Settled(rq', tid2task, polled', pc', reader'), tid2task' = tid2task, task_nub' = task_nub,
         task_nub = Cardinality(tid2task)
  PROVE  IInv'
BY DEF Settled, IInv, Creating

LEMMA CreateInv == ASSUME IInv, init PROVE IInv'
<1> DEFINE t == 4 + task_nub
           q == rq.ready
           d == Append(q, t)
           live == tid2task
           n == task_nub
<1>1. /\ pc = "create" /\ t \in User /\ tid2task' = live \cup {t} /\ task_nub' = n + 1
      /\ task_queue' = Append(task_queue, t) /\ pc' = pc /\ polled' = polled
  BY DEF init
<1>2. rq' = Requeued(rq, d)
  BY DEF init, Requeued
<1>3. /\ rq \in RQ /\ q \in Seq(Task) /\ IsInjective(q) /\ live \subseteq User /\ n = Cardinality(live)
      /\ live = 4 .. (3 + n) /\ (\A u \in User : ~rq.is_started[u])
      /\ rq.current = MAIN /\ Queue(rq, live) /\ polled = {}
  <2>1. /\ rq \in RQ /\ q \in Seq(Task) /\ IsInjective(q) /\ live \subseteq User /\ n = Cardinality(live)
        /\ live = 4 .. (3 + n) /\ (\A u \in User : ~rq.is_started[u])
        /\ rq.current = MAIN /\ Queue(rq, live)
    BY <1>1 DEF IInv, Core, RQ, Creating, Doing
  <2>2. polled \subseteq live /\ \A u \in polled : rq.is_started[u]
    BY DEF IInv, Core, Gave
  <2> HIDE DEF live, n, q
  <2>3. polled = {}
    BY <2>1, <2>2
  <2> QED BY <2>1, <2>3
<1>4. /\ Len(q) = n /\ (\A i \in 1 .. n : q[i] = 3 + i)
      /\ task_queue \in Seq(User) /\ Len(task_queue) = n /\ (\A i \in 1 .. n : task_queue[i] = 3 + i)
  BY <1>1 DEF IInv, Creating
<1>5. n \in Nat
  BY <1>3, <1>4
<1>6. t \notin live /\ t \in Task /\ t # MAIN /\ t = 4 + n
  <2>1. t \in Task /\ t # MAIN
    BY <1>1, Tids
  <2>2. t = 4 + n /\ t \notin live
    <3> HIDE DEF live, n
    <3>1. 4 + n \notin live
      <4>1. live = 4 .. (3 + n)
        BY <1>3
      <4> QED BY <1>5, <4>1
    <3> QED BY <3>1 DEF n
  <2> QED BY <2>1, <2>2
<1> HIDE DEF t, q, live, n
<1>7. d \in Seq(Task) /\ Grown(q, d, t)
  BY <1>3, <1>6, AppendGrows, ZenonT(60)
<1>8. ToSet(q) = live
  BY <1>3, Tids DEF Queue, q
<1>9. IsInjective(d) /\ ToSet(d) = live \cup {t}
  <2> HIDE DEF d
  <2>1. t \notin ToSet(q)
    BY <1>6, <1>8
  <2>2. q \in Seq(Task) /\ IsInjective(q) /\ t \in Task
    BY <1>3, <1>6
  <2>3. IsInjective(d) /\ ToSet(d) = ToSet(q) \cup {t}
    BY <1>7, <2>1, <2>2, PushedLeaves
  <2> QED BY <1>8, <2>3
<1>10. Len(d) = n + 1 /\ \A i \in 1 .. (n + 1) : d[i] = 3 + i
  <2>1. Len(d) = n + 1 /\ d[n + 1] = t /\ \A i \in 1 .. n : d[i] = q[i]
    BY <1>4, <1>7 DEF Grown
  <2> HIDE DEF d
  <2>2. ASSUME NEW i \in 1 .. (n + 1) PROVE d[i] = 3 + i
    <3>1. CASE i = n + 1
      BY <1>5, <1>6, <2>1, <3>1
    <3>2. CASE i \in 1 .. n
      BY <1>4, <2>1, <3>2
    <3> QED BY <1>5, <3>1, <3>2
  <2> QED BY <2>1, <2>2
<1> HIDE DEF d
<1>11. /\ rq' \in RQ /\ rq'.ready = d /\ rq'.current = rq.current /\ rq'.state = rq.state
       /\ rq'.is_started = rq.is_started /\ rq'.stack_idx = rq.stack_idx
       /\ rq'.preempted = rq.preempted /\ rq'.saved = rq.saved
       /\ rq'.kstack_state = rq.kstack_state /\ rq'.kstack = rq.kstack
  BY <1>2, <1>3, <1>7, RequeuedFields
<1>12. Core(rq', tid2task', polled')
  <2>1. \A i \in Stack : ~rq.kstack_state[i]
    BY <1>3 DEF IInv, Core, Stacks, live
  <2>2. tid2task' \subseteq User
    BY <1>1, <1>3
  <2>3. Stacks(rq', tid2task') /\ Few(rq', tid2task', polled') /\ Gave(rq', tid2task', polled')
    BY <1>1, <1>3, <1>11, <2>1, <2>2 DEF Stacks, Few, Gave
  <2>4. Fresh(rq')
    BY <1>11 DEF IInv, Core, Fresh
  <2> QED BY <1>9, <1>11, <2>2, <2>3, <2>4 DEF Core
<1>13. SavedBut(rq', tid2task', polled', rq'.current)
  BY <1>1, <1>3, <1>11 DEF SavedBut
<1>14. RingWith(d, MAIN)
  BY <1>5, <1>10, Tids DEF RingWith, Ring, Ascend
<1>15. Queue(rq', tid2task')
  <2>1. ToSet(d) = (tid2task' \cup {MAIN}) \ {MAIN}
    BY <1>1, <1>3, <1>9, Tids
  <2>2. \A u \in ToSet(d) : rq.state[u] = "Ready"
    <3>1. \A u \in live : rq.state[u] = "Ready"
      BY <1>3, <1>8 DEF Queue, q
    <3>2. rq.state[t] = "Ready"
      BY <1>1 DEF IInv, Creating
    <3> QED BY <1>9, <3>1, <3>2
  <2>3. rq.state[MAIN] = "Running"
    BY <1>3 DEF Queue
  <2> QED BY <1>3, <1>11, <1>14, <2>1, <2>2, <2>3 DEF Queue
<1>16. Doing(rq', tid2task', polled', pc', reader')
  BY <1>1, <1>3, <1>11, <1>15 DEF Doing
<1>17. task_nub' = Cardinality(tid2task') /\ IsFiniteSet(live)
  <2>1. IsFiniteSet(live)
    BY <1>3, <1>5, FS_Interval
  <2> QED BY <1>1, <1>3, <1>6, <2>1, FS_AddElement
<1>18. Creating'
  <2> DEFINE e == task_queue'
  <2>1. e \in Seq(User) /\ Grown(task_queue, e, t)
    BY <1>1, <1>4, AppendGrows
  <2> HIDE DEF e
  <2>2. Len(e) = n + 1 /\ e[n + 1] = t /\ \A i \in 1 .. n : e[i] = task_queue[i]
    BY <1>4, <2>1 DEF Grown
  <2>3. ASSUME NEW i \in 1 .. (n + 1) PROVE e[i] = 3 + i
    <3>1. CASE i = n + 1
      BY <1>5, <1>6, <2>2, <3>1
    <3>2. CASE i \in 1 .. n
      BY <1>4, <2>2, <3>2
    <3> QED BY <1>5, <3>1, <3>2
  <2>4. tid2task' = 4 .. (3 + (n + 1))
    <3>1. live = 4 .. (3 + n) /\ t = 4 + n /\ tid2task' = live \cup {t}
      BY <1>1, <1>3, <1>6
    <3> QED BY <1>5, <3>1
  <2>5. \A u \in User : ~rq'.is_started[u] /\ rq'.state[u] = "Ready"
    BY <1>1, <1>11 DEF IInv, Creating
  <2> QED BY <1>1, <1>10, <1>11, <2>1, <2>2, <2>3, <2>4, <2>5 DEF Creating, e
<1> QED BY <1>12, <1>13, <1>16, <1>17, <1>18 DEF IInv

(* The first task is polled, or main goes on after an exit.                *)
LEMMA FromMain ==
  ASSUME IInv, rq.current = MAIN, pc \in {"create", "kernel"}, tid2task # {}, NEW tid,
         tid = 0 \/ tid = rq.ready[1], NEW from \in polled \cup {None}, resched(rq, tid, from),
         tid2task' = tid2task, task_nub' = task_nub, polled' = polled
  PROVE  IInv'
<1> DEFINE live == tid2task
           gave == polled
           q == rq.ready
           p == put_prev(rq)
           t == q[1]
<1>1. /\ Core(rq, live, gave) /\ Queue(rq, live) /\ live \subseteq User /\ q \in Seq(Task)
      /\ \A u \in live : rq.is_started[u] => rq.saved[u] \/ u \in gave
  BY Tids DEF IInv, Core, RQ, Doing, SavedBut
<1>2. ToSet(q) = live /\ RingWith(q, MAIN)
  BY <1>1, Tids DEF Queue
<1>3. /\ Loose(p, live, gave) /\ p.current = rq.current
      /\ \A i \in 1 .. Len(rq.ready) : p.ready[i] = rq.ready[i]
  BY <1>1, PutBack
<1>4. 1 \in 1 .. Len(q) /\ t \in User /\ \A u \in live : t <= u
  <2> HIDE DEF q, t
  <2>1. \A x : x \in ToSet(q) <=> \E i \in 1 .. Len(q) : x = q[i]
    BY <1>1, Positions
  <2>2. q \in Seq(User)
    BY <1>1, <1>2, <2>1, SeqOver
  <2>3. q # << >>
    BY <1>2, <2>1
  <2> QED BY <1>2, <2>2, <2>3, HeadIsLowest DEF t
<1>5. t \in live /\ Entitled(t, live, gave) /\ t # MAIN
  <2>1. t \in ToSet(q)
    BY <1>1, <1>4, Positions
  <2> QED BY <1>2, <1>4, <2>1, Tids DEF Outer, Entitled
<1>6. tid = t \/ (tid = 0 /\ t = p.ready[1])
  BY <1>3, <1>4
<1> HIDE DEF q, t, p, live, gave
<1>7. p = put_prev(rq)
  BY DEF p
<1>8. live # {} /\ t \in live \cup {MAIN} /\ t # rq.current /\ from \in gave \cup {None}
  BY <1>5 DEF live, gave
<1>9. Settled(rq', live, gave, pc', reader')
  BY <1>3, <1>5, <1>6, <1>7, <1>8, ReschedTo
<1> QED BY <1>9, SettledInv DEF live, gave, IInv

LEMMA RunAllInv == ASSUME IInv, run_all PROVE IInv'
<1>1. /\ pc = "create" /\ Cardinality(tid2task) = NUser /\ resched(rq, Head(task_queue), None)
      /\ tid2task' = tid2task /\ task_nub' = task_nub /\ polled' = polled
  BY DEF run_all
<1>2. /\ rq.current = MAIN /\ task_nub = NUser /\ tid2task = 4 .. (3 + task_nub)
      /\ rq.ready[1] = 4 /\ task_queue[1] = 4 /\ task_queue \in Seq(User) /\ Len(task_queue) = NUser
  <2>1. /\ rq.current = MAIN /\ task_nub = NUser /\ tid2task = 4 .. (3 + task_nub)
        /\ task_queue \in Seq(User) /\ Len(task_queue) = task_nub
        /\ \A i \in 1 .. task_nub : rq.ready[i] = 3 + i /\ task_queue[i] = 3 + i
    BY <1>1 DEF IInv, Doing, Creating
  <2>2. 1 \in 1 .. task_nub
    BY <2>1, StackPoolAssumption
  <2> QED BY <2>1, <2>2
<1>3. Head(task_queue) = 4 /\ tid2task # {}
  <2>1. NUser \in Nat \ {0}
    BY StackPoolAssumption
  <2>2. Head(task_queue) = task_queue[1]
    BY <1>2, <2>1
  <2>3. 4 \in tid2task
    BY <1>2, <2>1
  <2> QED BY <1>2, <2>2, <2>3
<1> QED BY <1>1, <1>2, <1>3, FromMain

LEMMA KernelInv == ASSUME IInv, kernel_turn PROVE IInv'
<1>1. /\ pc = "kernel" /\ resched(rq, 0, reader) /\ tid2task' = tid2task /\ task_nub' = task_nub
      /\ polled' = polled
  BY DEF kernel_turn
<1>2. rq.current = MAIN /\ tid2task # {} /\ reader \in polled \cup {None}
  BY <1>1 DEF IInv, Doing
<1> QED BY <1>1, <1>2, FromMain

(* The current user task.                                                  *)
LEMMA Runs ==
  ASSUME IInv, pc \in {"user", "yield", "read"}, NEW t, t = rq.current
  PROVE  /\ t \in tid2task /\ t \in User /\ t \in Task /\ rq.is_started[t] /\ ~rq.saved[t]
         /\ rq \in RQ /\ Queue(rq, tid2task) /\ t \notin polled
BY Tids DEF IInv, Doing, Core

(* Queue reads neither the marks nor the stacks.                           *)
LEMMA SameQueue ==
  ASSUME NEW r, NEW s, NEW live, Queue(r, live), s.ready = r.ready, s.current = r.current,
         s.state = r.state
  PROVE  Queue(s, live)
BY DEF Queue

(* The round of task_loop of the task m ends, with t as the current one.   *)
LEMMA RoundInv ==
  ASSUME IInv, pc \in {"user", "read"}, NEW m, m = rq.current \/ m \in polled, NEW hit \in BOOLEAN,
         rq' = [rq EXCEPT !.preempted[m] = @ \/ hit], pc' = IF hit THEN "yield" ELSE "user",
         tid2task' = tid2task, task_nub' = task_nub, polled' = polled
  PROVE  IInv'
<1> DEFINE t == rq.current
           pre == [rq.preempted EXCEPT ![m] = @ \/ hit]
<1>1. /\ t \in tid2task /\ t \in User /\ t \in Task /\ rq.is_started[t] /\ ~rq.saved[t]
      /\ rq \in RQ /\ Queue(rq, tid2task) /\ t \notin polled
  BY Runs
<1>2. m \in Task /\ rq.is_started[m]
  BY <1>1, Tids DEF IInv, Core, Gave
<1>3. pre \in [Task -> BOOLEAN] /\ \A u \in Task : u # m => pre[u] = rq.preempted[u]
  BY <1>1, <1>2 DEF RQ
<1>4. ~hit => ~pre[t]
  BY <1>1, <1>2 DEF RQ, IInv, Doing
<1>5. rq' = [rq EXCEPT !.preempted = pre]
  OBVIOUS
<1> HIDE DEF t, pre
<1>6. rq' \in RQ
  BY <1>1, <1>3, <1>5 DEF RQ
<1>7. /\ rq'.ready = rq.ready /\ rq'.current = rq.current /\ rq'.state = rq.state
      /\ rq'.is_started = rq.is_started /\ rq'.stack_idx = rq.stack_idx
      /\ rq'.preempted = pre /\ rq'.saved = rq.saved
      /\ rq'.kstack_state = rq.kstack_state /\ rq'.kstack = rq.kstack
  BY <1>1, <1>5 DEF RQ
<1>8. /\ \A u \in User : rq'.is_started[u] \/ (~rq'.preempted[u] /\ ~rq'.saved[u])
      /\ \A u \in polled : ~rq'.saved[u]
  BY <1>2, <1>3, <1>7, Tids DEF IInv, Core, Fresh, Gave
<1>9. Core(rq', tid2task, polled)
  <2>1. Core(rq, tid2task, polled) /\ IsInjective(rq'.ready)
    BY <1>7 DEF IInv, Core
  <2> QED BY <1>6, <1>7, <1>8, <2>1, SameCore
<1>10. SavedBut(rq', tid2task, polled, rq'.current)
  BY <1>7 DEF IInv, SavedBut
<1>11. Queue(rq', tid2task)
  BY <1>1, <1>7, SameQueue
<1>12. Doing(rq', tid2task, polled, pc', reader')
  <2>1. rq'.current = t /\ t \in tid2task \ polled /\ rq'.is_started[t] /\ ~rq'.saved[t]
    BY <1>1, <1>7 DEF t
  <2>2. CASE hit
    BY <1>11, <2>1, <2>2 DEF Doing
  <2>3. CASE ~hit
    BY <1>4, <1>7, <1>11, <2>1, <2>3 DEF Doing
  <2> QED BY <2>2, <2>3
<1> QED BY <1>9, <1>10, <1>12, SettledInv DEF Settled, IInv

LEMMA LoopInv == ASSUME IInv, task_loop PROVE IInv'
BY RoundInv DEF task_loop

LEMMA StdinCharInv == ASSUME IInv, stdin_char PROVE IInv'
<1>1. reader \in polled
  BY DEF stdin_char, IInv, Doing
<1> QED BY <1>1, RoundInv DEF stdin_char

LEMMA StdinReadInv == ASSUME IInv, stdin_read PROVE IInv'
<1> DEFINE t == rq.current
           live == tid2task
           gave == polled \cup {t}
           from == IF pc = "read" THEN reader ELSE t
           q == rq.ready
           p == put_prev(rq)
           h == q[1]
<1>1. /\ pc \in {"user", "read"} /\ tid2task' = tid2task /\ task_nub' = task_nub
      /\ polled' = gave /\ resched(rq, 0, from)
  BY DEF stdin_read
<1>2. /\ t \in live /\ t \in User /\ t \in Task /\ rq.is_started[t] /\ ~rq.saved[t]
      /\ rq \in RQ /\ Queue(rq, live) /\ t \notin polled
  BY <1>1, Runs
<1>3. from \in gave
  BY <1>1 DEF IInv, Doing
<1>4. Core(rq, live, gave)
  <2>1. Gave(rq, live, gave)
    BY <1>2 DEF IInv, Core, Gave
  <2>2. Few(rq, live, gave)
    BY DEF IInv, Core, Few, Entitled, After
  <2> QED BY <2>1, <2>2 DEF IInv, Core
<1>5. \A u \in live : rq.is_started[u] => rq.saved[u] \/ u \in gave
  BY DEF IInv, SavedBut
<1>6. Loose(p, live, gave) /\ p.current = t /\ \A i \in 1 .. Len(q) : p.ready[i] = q[i]
  BY <1>2, <1>4, <1>5, PutBack
<1>7. /\ 1 \in 1 .. Len(q) /\ h \in live \cup {MAIN} /\ h # t
      /\ h \in live => t < h /\ \A u \in live : ~ (t < u /\ u < h)
  <2>1. live \subseteq User /\ q \in Seq(Task)
    BY DEF IInv, Core, RQ
  <2>2. ToSet(q) = (live \cup {MAIN}) \ {t} /\ RingWith(q, t)
    BY <1>2 DEF Queue
  <2> HIDE DEF q, t, live
  <2> QED BY <1>2, <2>1, <2>2, HeadIsNext DEF h
<1>8. h \in live => Entitled(h, live, gave)
  BY <1>7 DEF Entitled, After
<1>9. h = p.ready[1]
  BY <1>6, <1>7
<1> HIDE DEF t, live, gave, from, q, p, h
<1>10. p = put_prev(rq) /\ live # {} /\ p.current = rq.current /\ h # rq.current
  BY <1>2, <1>6, <1>7 DEF p, t
<1>11. Settled(rq', live, gave, pc', reader')
  BY <1>1, <1>3, <1>6, <1>7, <1>8, <1>9, <1>10, ReschedTo
<1> QED BY <1>1, <1>11, SettledInv DEF live, IInv

LEMMA PreemptInv == ASSUME IInv, preempt_yield PROVE IInv'
<1> DEFINE t == rq.current
           live == tid2task
           gave == polled
<1>1. pc = "yield" /\ tid2task' = tid2task /\ task_nub' = task_nub /\ polled' = polled
  BY DEF preempt_yield
<1>2. /\ t \in live /\ t \in User /\ t \in Task /\ rq.is_started[t] /\ ~rq.saved[t]
      /\ rq \in RQ /\ Queue(rq, live) /\ t \notin gave
  BY <1>1, Runs
<1>3. CASE ~rq.preempted[t]
  <2>1. pc' = "user" /\ rq' = rq
    BY <1>3 DEF preempt_yield
  <2>2. Doing(rq, live, gave, "user", reader')
    BY <1>2, <1>3 DEF Doing
  <2> QED BY <1>1, <2>1, <2>2, SettledInv DEF Settled, IInv
<1>4. CASE rq.preempted[t]
  <2> DEFINE sav == [rq.saved EXCEPT ![t] = TRUE]
             r == [rq EXCEPT !.saved = sav]
             tid == get_max_pri_task_id(t)
             other == live \ {t}
             n == IF other = {} THEN MAIN ELSE tid
  <2>1. resched(r, tid, None)
    BY <1>4 DEF preempt_yield
  <2>2. sav \in [Task -> BOOLEAN] /\ sav[t] /\ \A u \in Task : u # t => sav[u] = rq.saved[u]
    BY <1>2 DEF RQ
  <2>3. live \subseteq User
    BY DEF IInv, Core
  <2>4. /\ tid = n /\ n \in live \cup {MAIN} /\ n # t
        /\ n \in live => Entitled(n, live, gave)
    <3>1. CASE other = {}
      <4>1. tid = MAIN
        BY <3>1 DEF get_max_pri_task_id, KERNEL_PROCESS_ID, MAIN
      <4> QED BY <1>2, <2>3, <3>1, <4>1, Tids
    <3>2. CASE other # {}
      <4>1. other \subseteq 0 .. (3 + NUser) /\ 3 + NUser \in Nat
        BY <2>3, Tids
      <4>2. tid = Max(other)
        BY <3>2 DEF get_max_pri_task_id
      <4> HIDE DEF other, tid
      <4>3. Max(other) \in other /\ \A y \in other : Max(other) >= y
        BY <3>2, <4>1, MaxIn
      <4>4. tid \in other /\ tid \in Nat /\ \A y \in other : y \in Nat /\ tid >= y
        <5>1. \A y \in other : y \in Nat
          BY <4>1
        <5> QED BY <4>2, <4>3, <5>1
      <4>5. tid \in live /\ tid # t /\ \A u \in live : u = t \/ (u \in Nat /\ tid >= u)
        BY <4>4 DEF other
      <4>6. Outer(tid, live)
        <5> SUFFICES ASSUME NEW u \in live, NEW v \in live, tid < u, tid < v PROVE u = v
          BY DEF Outer
        <5>1. u = t /\ v = t
          BY <4>4, <4>5
        <5> QED BY <5>1
      <4> QED BY <3>2, <4>5, <4>6 DEF Entitled
    <3> QED BY <3>1, <3>2
  <2>5. r \in RQ
    <3> HIDE DEF sav
    <3> QED BY <1>2, <2>2 DEF RQ
  <2>6. /\ r.ready = rq.ready /\ r.current = t /\ r.state = rq.state
        /\ r.is_started = rq.is_started /\ r.stack_idx = rq.stack_idx
        /\ r.preempted = rq.preempted /\ r.saved = sav
        /\ r.kstack_state = rq.kstack_state /\ r.kstack = rq.kstack
    <3> HIDE DEF sav
    <3> QED BY <1>2 DEF RQ
  <2> HIDE DEF sav, r, tid, n, other, t, live, gave
  <2>7. /\ \A u \in User : r.is_started[u] \/ (~r.preempted[u] /\ ~r.saved[u])
        /\ \A u \in gave : ~r.saved[u]
    BY <1>2, <2>2, <2>6, Tids DEF IInv, Core, Fresh, Gave, gave
  <2>8. Core(r, live, gave)
    <3>1. Core(rq, live, gave) /\ IsInjective(r.ready)
      BY <2>6 DEF IInv, Core, live, gave
    <3> QED BY <2>5, <2>6, <2>7, <3>1, SameCore
  <2>9. \A u \in live : r.is_started[u] => r.saved[u] \/ u \in gave
    BY <1>2, <2>2, <2>3, <2>6, Tids DEF IInv, SavedBut, live, t, gave
  <2>10. Queue(r, live)
    BY <1>2, <2>6, SameQueue DEF t
  <2> DEFINE p == put_prev(r)
  <2>11. Loose(p, live, gave) /\ p.current = r.current
    BY <1>2, <2>6, <2>8, <2>9, <2>10, PutBack
  <2>12. p = put_prev(r) /\ live # {} /\ n # r.current /\ resched(r, n, None)
    BY <1>2, <2>1, <2>4, <2>6
  <2> HIDE DEF p
  <2>13. Settled(rq', live, gave, pc', reader')
    BY <2>4, <2>11, <2>12, ReschedTo
  <2> QED BY <1>1, <2>13, SettledInv DEF live, gave, IInv
<1> QED BY <1>3, <1>4

LEMMA ExitTaskInv == ASSUME IInv, exit_current_task PROVE IInv'
<1> DEFINE t == rq.current
           i == rq.stack_idx[t]
           given == [rq.kstack_state EXCEPT ![i] = FALSE]
           live == tid2task
           gave == polled
<1>1. /\ pc = "user" /\ rq' = free_stack(rq, i) /\ tid2task' = live \ {t}
      /\ task_nub' = task_nub - 1 /\ pc' = "exit" /\ polled' = gave
  BY DEF exit_current_task
<1>2. /\ t \in live /\ t \in User /\ t \in Task /\ rq.is_started[t] /\ ~rq.saved[t]
      /\ rq \in RQ /\ Queue(rq, live) /\ t \notin gave
  BY <1>1, Runs
<1>3. /\ i \in Stack /\ given \in [Stack -> BOOLEAN] /\ ~given[i]
      /\ \A j \in Stack : j # i => given[j] = rq.kstack_state[j]
  BY <1>2 DEF RQ
<1>4. rq' = [rq EXCEPT !.kstack_state = given]
  BY <1>1 DEF free_stack
<1>5. rq.kstack_state[i] /\ rq.kstack[i] = t /\ live \subseteq User
  BY <1>2 DEF IInv, Core, Stacks
<1> HIDE DEF given
<1>6. rq' \in RQ
  BY <1>2, <1>3, <1>4 DEF RQ
<1>7. /\ rq'.ready = rq.ready /\ rq'.current = rq.current /\ rq'.state = rq.state
      /\ rq'.is_started = rq.is_started /\ rq'.stack_idx = rq.stack_idx
      /\ rq'.preempted = rq.preempted /\ rq'.saved = rq.saved
      /\ rq'.kstack_state = given /\ rq'.kstack = rq.kstack
  BY <1>2, <1>4 DEF RQ
<1> HIDE DEF t, i, live, gave
<1>8. Stacks(rq', live \ {t})
  <2>1. ASSUME NEW u \in live \ {t}, rq.is_started[u]
        PROVE  given[rq.stack_idx[u]] /\ rq.kstack[rq.stack_idx[u]] = u
    <3>1. /\ rq.kstack_state[rq.stack_idx[u]] /\ rq.kstack[rq.stack_idx[u]] = u
          /\ rq.stack_idx[u] \in Stack
      BY <1>2, <1>5, <2>1, Tids DEF IInv, Core, Stacks, RQ, live
    <3>2. rq.stack_idx[u] # i
      BY <1>5, <2>1, <3>1
    <3> QED BY <1>3, <3>1, <3>2
  <2>2. ASSUME NEW j \in Stack, given[j]
        PROVE  /\ j # 0 /\ rq.kstack[j] \in live \ {t}
               /\ rq.is_started[rq.kstack[j]] /\ rq.stack_idx[rq.kstack[j]] = j
    <3>1. j # i /\ rq.kstack_state[j]
      BY <1>3, <2>2
    <3>2. j # 0 /\ rq.kstack[j] \in live /\ rq.is_started[rq.kstack[j]] /\ rq.stack_idx[rq.kstack[j]] = j
      BY <3>1 DEF IInv, Core, Stacks, live
    <3>3. rq.kstack[j] # t
      BY <3>1, <3>2 DEF i
    <3> QED BY <3>2, <3>3
  <2> QED BY <1>7, <2>1, <2>2 DEF Stacks
<1>9. Few(rq', live \ {t}, gave) /\ Gave(rq', live \ {t}, gave)
  <2>1. /\ Gave(rq, live, gave)
        /\ \A u \in live : rq.is_started[u] => Outer(u, live) \/ After(u, live, gave)
    BY DEF IInv, Core, Few, Entitled, live, gave
  <2>2. \A u \in live \ {t} : Outer(u, live) => Outer(u, live \ {t})
    BY DEF Outer
  <2>3. \A u \in live \ {t} : After(u, live, gave) => After(u, live \ {t}, gave)
    BY DEF After
  <2> QED BY <1>2, <1>7, <2>1, <2>2, <2>3 DEF Few, Gave, Entitled
<1>10. Fresh(rq') /\ IsInjective(rq'.ready)
  BY <1>7 DEF IInv, Core, Fresh
<1>11. Core(rq', live \ {t}, gave)
  BY <1>5, <1>6, <1>8, <1>9, <1>10 DEF Core
<1>12. SavedBut(rq', live \ {t}, gave, rq'.current)
  BY <1>7 DEF IInv, SavedBut, live, gave
<1>13. rq'.current = t /\ t # MAIN
  BY <1>2, <1>7, Tids DEF t
<1>14. Queue(rq', live \ {t})
  <2>1. ToSet(rq'.ready) = ((live \ {t}) \cup {MAIN}) \ {t}
    BY <1>2, <1>7 DEF Queue, t
  <2>2. (\A u \in ToSet(rq'.ready) : rq'.state[u] = "Ready") /\ rq'.state[rq'.current] = "Running"
    BY <1>2, <1>7 DEF Queue
  <2>3. RingWith(rq'.ready, rq'.current)
    BY <1>2, <1>7 DEF Queue
  <2> QED BY <1>13, <2>1, <2>2, <2>3 DEF Queue
<1>15. Doing(rq', live \ {t}, gave, "exit", reader')
  BY <1>2, <1>13, <1>14 DEF Doing
<1>16. task_nub' = Cardinality(live \ {t})
  <2>1. IsFiniteSet(live)
    BY <1>5, Tids, FS_Subset
  <2>2. task_nub = Cardinality(live)
    BY DEF IInv, live
  <2>3. Cardinality(live \ {t}) = Cardinality(live) - 1
    BY <1>2, <2>1, FS_RemoveElement
  <2> QED BY <1>1, <2>2, <2>3
<1> QED BY <1>1, <1>11, <1>12, <1>15, <1>16 DEF IInv, Creating

LEMMA ExitInv == ASSUME IInv, exit_current PROVE IInv'
<1> DEFINE t == rq.current
           live == tid2task
           gave == polled
<1>1. pc = "exit" /\ tid2task' = tid2task /\ task_nub' = task_nub /\ polled' = polled
  BY DEF exit_current
<1>2. /\ t \in User \ live /\ t \in Task /\ rq \in RQ /\ Queue(rq, live) /\ t # MAIN
      /\ live \subseteq User /\ IsInjective(rq.ready)
  BY <1>1, Tids DEF IInv, Doing, Core
<1>3. CASE task_nub = 0
  <2>1. pc' = "halt" /\ rq' = rq
    BY <1>3 DEF exit_current
  <2>2. Doing(rq, live, gave, "halt", reader')
    BY <1>2 DEF Doing
  <2> QED BY <1>1, <2>1, <2>2, SettledInv DEF Settled, IInv
<1>4. CASE task_nub # 0
  <2> DEFINE st == [rq.state EXCEPT ![t] = "Exited"]
             r == [rq EXCEPT !.state = st]
  <2>1. resched(r, MAIN, None)
    BY <1>4 DEF exit_current, MAIN
  <2>2. live # {}
    BY <1>4, FS_EmptySet DEF IInv
  <2>3. /\ st \in [Task -> {"Running", "Ready", "Exited"}] /\ st[t] = "Exited"
        /\ \A u \in Task : u # t => st[u] = rq.state[u]
    BY <1>2 DEF RQ
  <2> HIDE DEF st
  <2>4. r \in RQ
    BY <1>2, <2>3 DEF RQ
  <2>5. /\ r.ready = rq.ready /\ r.current = t /\ r.state = st
        /\ r.is_started = rq.is_started /\ r.stack_idx = rq.stack_idx
        /\ r.preempted = rq.preempted /\ r.saved = rq.saved
        /\ r.kstack_state = rq.kstack_state /\ r.kstack = rq.kstack
    BY <1>2 DEF RQ
  <2> HIDE DEF r, t, live, gave
  <2>6. put_prev(r) = r
    BY <2>3, <2>5 DEF put_prev
  <2>7. /\ \A u \in User : r.is_started[u] \/ (~r.preempted[u] /\ ~r.saved[u])
        /\ \A u \in gave : ~r.saved[u]
    BY <2>5 DEF IInv, Core, Fresh, Gave, gave
  <2>8. Core(r, live, gave)
    <3>1. Core(rq, live, gave) /\ IsInjective(r.ready)
      BY <2>5 DEF IInv, Core, live, gave
    <3> QED BY <2>4, <2>5, <2>7, <3>1, SameCore
  <2>9. ToSet(r.ready) = live \cup {MAIN} /\ Ring(r.ready)
    BY <1>2, <2>5 DEF Queue, RingWith, t
  <2>10. \A u \in ToSet(r.ready) : r.state[u] = "Ready"
    <3>1. \A u \in ToSet(r.ready) : u \in Task /\ u # t /\ rq.state[u] = "Ready"
      BY <1>2, <2>5, <2>9, Tids DEF Queue
    <3> QED BY <2>3, <2>5, <3>1
  <2>11. \A u \in live : r.is_started[u] => r.saved[u] \/ u \in gave
    BY <1>2, <2>5 DEF IInv, SavedBut, live, t, gave
  <2>12. Loose(r, live, gave)
    BY <2>8, <2>9, <2>10, <2>11 DEF Loose
  <2>13. MAIN \in live \cup {MAIN} /\ MAIN # r.current /\ MAIN \notin live
    BY <1>2, <2>5, Tids
  <2>14. Settled(rq', live, gave, pc', reader')
    BY <2>1, <2>2, <2>6, <2>12, <2>13, ReschedTo
  <2> QED BY <1>1, <2>14, SettledInv DEF live, gave, IInv
<1> QED BY <1>3, <1>4

LEMMA StepInv == IInv /\ [Next]_vars => IInv'
<1> SUFFICES ASSUME IInv, [Next]_vars PROVE IInv'
  OBVIOUS
<1>1. CASE init
  BY <1>1, CreateInv
<1>2. CASE run_all
  BY <1>2, RunAllInv
<1>3. CASE task_loop
  BY <1>3, LoopInv
<1>3a. CASE stdin_read
  BY <1>3a, StdinReadInv
<1>3b. CASE stdin_char
  BY <1>3b, StdinCharInv
<1>4. CASE preempt_yield
  BY <1>4, PreemptInv
<1>5. CASE exit_current_task
  BY <1>5, ExitTaskInv
<1>6. CASE exit_current
  BY <1>6, ExitInv
<1>7. CASE kernel_turn
  BY <1>7, KernelInv
<1>8. CASE UNCHANGED vars
  BY <1>8 DEF vars, IInv, Creating
<1> QED BY <1>1, <1>2, <1>3, <1>3a, <1>3b, <1>4, <1>5, <1>6, <1>7, <1>8 DEF Next

LEMMA Invariance == Spec => []IInv
BY InitInv, StepInv, PTL DEF Spec

-----------------------------------------------------------------------------
(* However many test cases and stacks there are: a stack is given away     *)
(* exactly while one started task that has not ended has it.               *)
THEOREM StacksHaveOneOwner == Spec => []StacksExact
<1>1. IInv => StacksExact
  <2> SUFFICES ASSUME IInv PROVE StacksExact
    OBVIOUS
  <2> DEFINE D == {i \in Stack : rq.kstack_state[i]}
             f == [i \in D |-> rq.kstack[i]]
  <2>1. Stacks(rq, tid2task) /\ rq \in RQ /\ tid2task \subseteq Task
    BY Tids DEF IInv, Core
  <2>2. ~rq.kstack_state[0]
    BY <2>1, Tids DEF Stacks
  <2>3. \A t \in Alive : /\ rq.kstack_state[rq.stack_idx[t]] /\ rq.kstack[rq.stack_idx[t]] = t
                        /\ rq.stack_idx[t] \in D
    BY <2>1 DEF Alive, Stacks, RQ
  <2>4. \A i \in D : rq.kstack[i] \in Alive /\ rq.stack_idx[rq.kstack[i]] = i
    BY <2>1 DEF Alive, Stacks
  <2>5. f \in Bijection(D, Alive)
    <3> HIDE DEF D
    <3>1. f \in [D -> Alive] /\ \A i, j \in D : f[i] = f[j] => i = j
      BY <2>4
    <3>2. \A t \in Alive : \E i \in D : f[i] = t
      BY <2>3
    <3> QED BY <3>1, <3>2 DEF Bijection, Injection, Surjection, IsInjective
  <2>6. IsFiniteSet(D)
    <3>1. IsFiniteSet(Stack)
      BY FS_Interval, StackPoolAssumption DEF Stack
    <3> QED BY <3>1, FS_Subset
  <2> HIDE DEF D
  <2>7. Cardinality(D) = Cardinality(Alive)
    BY <2>5, <2>6, FS_Bijection DEF ExistsBijection
  <2> QED BY <2>2, <2>3, <2>7 DEF StacksExact, D
<1> QED BY <1>1, Invariance, PTL

(* Four stacks, and one for each task that gave up the CPU in a read, are  *)
(* enough for any number of test cases, any preemption and any interleaving*)
(* of reads: besides the task with the lowest tid and the two with the     *)
(* highest, only a task that comes after one of those readers ever has a   *)
(* stack.  And the CPU never returns to user mode as main or idle.         *)
THEOREM StacksSuffice == Spec => []NoCrash
<1>1. IInv => NoCrash
  <2> SUFFICES ASSUME IInv PROVE NoCrash
    OBVIOUS
  <2>1. IsFiniteSet(polled)
    BY Tids, FS_Subset DEF IInv, Core, Gave
  <2>2. Cardinality(polled) \in Nat
    BY <2>1, FS_CardinalityType
  <2> QED BY <2>2, StackPoolAssumption DEF IInv, Doing, NoCrash
<1> QED BY <1>1, Invariance, PTL

(* A started task that does not run has saved its context since it last    *)
(* ran, unless it gave up the CPU in a read; and one in user mode, or that *)
(* switch_to has started into somebody's read, has lost its mark.          *)
THEOREM ResumableButReaders == Spec => []Resumable
<1>1. IInv => Resumable
  BY DEF IInv, Doing, SavedBut, Resumable, Alive
<1> QED BY <1>1, Invariance, PTL

(* The ready queue has every Ready task exactly once, whichever tasks      *)
(* resched passed over.                                                    *)
THEOREM NoReadyTaskIsLost == Spec => []ReadyExact
<1>1. IInv => ReadyExact
  <2> SUFFICES ASSUME IInv PROVE ReadyExact
    OBVIOUS
  <2>1. IsInjective(rq.ready)
    BY DEF IInv, Core
  <2>2. ASSUME pc \notin {"stray", "panic"}
        PROVE  ToSet(rq.ready) = {t \in tid2task \cup {MAIN} : rq.state[t] = "Ready"} \ {rq.current}
    BY <2>2 DEF IInv, Doing, Queue
  <2> QED BY <2>1, <2>2 DEF ReadyExact
<1> QED BY <1>1, Invariance, PTL
=============================================================================

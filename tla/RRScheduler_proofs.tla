------------------------- MODULE RRScheduler_proofs -------------------------
(* The round-robin scheduler, for any finite set of tasks and any length   *)
(* of the time slice: no task is queued twice or lost, it implements the   *)
(* scheduler trait, and the wait of every queued task is bounded.          *)
EXTENDS RRScheduler, SequenceTheorems, FiniteSetTheorems, TLAPS

-----------------------------------------------------------------------------
(* Queues of tasks, by position.                                           *)

(* A sequence over S is one over any set that has its elements.            *)
LEMMA SeqOver ==
  ASSUME NEW S, NEW q \in Seq(S), NEW R, \A i \in 1 .. Len(q) : q[i] \in R
  PROVE  q \in Seq(R)
<1>1. Len(q) \in Nat /\ q \in [1 .. Len(q) -> S]
  BY LenProperties
<1>2. q \in [1 .. Len(q) -> R]
  BY <1>1
<1> QED BY <1>1, <1>2

(* A queue by its positions.                                               *)
LEMMA Positions ==
  ASSUME NEW S, NEW q \in Seq(S)
  PROVE  /\ IsInjective(q) <=> \A i, j \in 1 .. Len(q) : q[i] = q[j] => i = j
         /\ \A x : x \in ToSet(q) <=> \E i \in 1 .. Len(q) : x = q[i]
         /\ ToSet(q) \subseteq S /\ Len(q) \in Nat
BY DEF IsInjective, ToSet

(* Popping the head h of the queue q leaves r.                             *)
LEMMA Pop ==
  ASSUME NEW S, NEW q \in Seq(S), q # << >>, NEW h, h = Head(q), NEW r, r = Tail(q)
  PROVE  /\ h = q[1] /\ h \in S /\ r \in Seq(S) /\ Len(r) = Len(q) - 1
         /\ Len(q) \in Nat /\ 1 \in 1 .. Len(q)
         /\ \A i \in 1 .. Len(r) : r[i] = q[i + 1] /\ i + 1 \in 1 .. Len(q)
<1>1. h = q[1] /\ h \in S /\ Len(q) \in Nat /\ 1 \in 1 .. Len(q)
  OBVIOUS
<1>2. r \in Seq(S) /\ Len(r) = Len(q) - 1 /\ \A i \in 1 .. Len(r) : r[i] = q[i + 1]
  BY HeadTailProperties
<1>3. \A i \in 1 .. Len(r) : i + 1 \in 1 .. Len(q)
  BY <1>1, <1>2
<1> QED BY <1>1, <1>2, <1>3

(* An injective queue is no longer than the set of its elements.           *)
LEMMA QueueRoom ==
  ASSUME NEW S, IsFiniteSet(S), NEW q \in Seq(S), IsInjective(q)
  PROVE  Len(q) <= Cardinality(S) /\ Len(q) \in Nat
<1>1. Len(q) \in Nat /\ q \in [1 .. Len(q) -> S]
  BY LenProperties
<1>2. q \in Injection(1 .. Len(q), S)
  BY <1>1 DEF Injection, IsInjective
<1>3. Cardinality(1 .. Len(q)) <= Cardinality(S)
  BY <1>2, FS_Injection
<1>4. Cardinality(1 .. Len(q)) = Len(q)
  BY <1>1, FS_Interval, SMTT(60)
<1> QED BY <1>1, <1>3, <1>4

(* A queue r that has one element more than q, at its end.                 *)
LEMMA PushLeaves ==
  ASSUME NEW S, NEW q \in Seq(S), IsInjective(q), NEW t \in S, t \notin ToSet(q),
         NEW r \in Seq(S), Len(r) = Len(q) + 1, r[Len(q) + 1] = t,
         \A i \in 1 .. Len(q) : r[i] = q[i]
  PROVE  IsInjective(r) /\ ToSet(r) = ToSet(q) \cup {t}
<1>1. Len(q) \in Nat
  OBVIOUS
<1>2. \A i \in 1 .. Len(q) : q[i] \in ToSet(q) /\ q[i] # t
  BY Positions
<1>3. \A i \in 1 .. Len(r) : i \in 1 .. Len(q) \/ i = Len(q) + 1
  BY <1>1
<1>4. \A i, j \in 1 .. Len(r) : r[i] = r[j] => i = j
  <2> SUFFICES ASSUME NEW i \in 1 .. Len(r), NEW j \in 1 .. Len(r), r[i] = r[j]
               PROVE  i = j
    OBVIOUS
  <2>1. CASE i \in 1 .. Len(q) /\ j \in 1 .. Len(q)
    <3>1. q[i] = q[j]
      BY <1>1, <2>1
    <3> QED BY <2>1, <3>1, Positions
  <2>2. CASE i \in 1 .. Len(q) /\ j = Len(q) + 1
    BY <1>1, <1>2, <2>2
  <2>3. CASE i = Len(q) + 1 /\ j \in 1 .. Len(q)
    BY <1>1, <1>2, <2>3
  <2> QED BY <1>3, <2>1, <2>2, <2>3
<1>5. \A x : x \in ToSet(r) <=> x \in ToSet(q) \/ x = t
  <2> TAKE x
  <2>1. x \in ToSet(r) <=> \E i \in 1 .. Len(r) : x = r[i]
    BY Positions
  <2>2. x \in ToSet(q) <=> \E i \in 1 .. Len(q) : x = q[i]
    BY Positions
  <2>3. Len(q) + 1 \in 1 .. Len(r) /\ \A i \in 1 .. Len(q) : i \in 1 .. Len(r)
    BY <1>1
  <2> QED BY <1>1, <1>3, <2>1, <2>2, <2>3
<1> QED BY <1>4, <1>5, Positions

(* The position of a task of the queue is the one a search finds           *)
(* (SelectInSeq is the least of these positions).                          *)
LEMMA Found ==
  ASSUME NEW S, NEW q \in Seq(S), IsInjective(q), NEW t, NEW k \in 1 .. Len(q), q[k] = t
  PROVE  /\ {i \in 1 .. Len(q) : q[i] = t} # {}
         /\ Min({i \in 1 .. Len(q) : q[i] = t}) = k
<1>1. {i \in 1 .. Len(q) : q[i] = t} = {k}
  BY Positions
<1>2. Min({k}) = k
  <2>1. k \in Int
    OBVIOUS
  <2> QED BY <2>1 DEF Min
<1> QED BY <1>1, <1>2

(* What comes before and after position k.                                 *)
LEMMA Parts ==
  ASSUME NEW S, NEW q \in Seq(S), NEW k \in 1 .. Len(q)
  PROVE  /\ SubSeq(q, 1, k - 1) \in Seq(S) /\ Len(SubSeq(q, 1, k - 1)) = k - 1
         /\ \A i \in 1 .. k - 1 : SubSeq(q, 1, k - 1)[i] = q[i]
         /\ SubSeq(q, k + 1, Len(q)) \in Seq(S) /\ Len(SubSeq(q, k + 1, Len(q))) = Len(q) - k
         /\ \A i \in 1 .. Len(q) - k : SubSeq(q, k + 1, Len(q))[i] = q[k + i]
<1>1. Len(q) \in Nat /\ k \in Int /\ k - 1 \in Int /\ k + 1 \in Int
  OBVIOUS
<1>2. /\ \A i \in 1 .. k - 1 : q[i] \in S
      /\ \A i \in k + 1 .. Len(q) : q[i] \in S
  OBVIOUS
<1>3. ASSUME NEW a, a = SubSeq(q, 1, k - 1)
      PROVE  a \in Seq(S) /\ Len(a) = k - 1 /\ \A i \in 1 .. k - 1 : a[i] = q[i]
  <2>1. /\ a \in Seq(S) /\ Len(a) = IF 1 <= k - 1 THEN (k - 1) - 1 + 1 ELSE 0
        /\ \A i \in 1 .. (k - 1) - 1 + 1 : a[i] = q[1 + i - 1]
    BY <1>1, <1>2, <1>3, SubSeqProperties
  <2> QED BY <1>1, <2>1
<1>4. ASSUME NEW b, b = SubSeq(q, k + 1, Len(q))
      PROVE  b \in Seq(S) /\ Len(b) = Len(q) - k /\ \A i \in 1 .. Len(q) - k : b[i] = q[k + i]
  <2>1. /\ b \in Seq(S) /\ Len(b) = IF k + 1 <= Len(q) THEN Len(q) - (k + 1) + 1 ELSE 0
        /\ \A i \in 1 .. Len(q) - (k + 1) + 1 : b[i] = q[(k + 1) + i - 1]
    BY <1>1, <1>2, <1>4, SubSeqProperties
  <2>2. \A i \in 1 .. Len(q) - k : i \in 1 .. Len(q) - (k + 1) + 1 /\ (k + 1) + i - 1 = k + i
    BY <1>1
  <2>3. Len(b) = Len(q) - k
    BY <1>1, <2>1
  <2> QED BY <2>1, <2>2, <2>3
<1> QED BY <1>3, <1>4, Zenon

(* The element at position k is removed.                                   *)
LEMMA RemovePosition ==
  ASSUME NEW S, NEW q \in Seq(S), NEW k \in 1 .. Len(q)
  PROVE  /\ RemoveAt(q, k) \in Seq(S) /\ Len(RemoveAt(q, k)) = Len(q) - 1
         /\ \A i \in 1 .. Len(q) - 1 :
              RemoveAt(q, k)[i] = IF i < k THEN q[i] ELSE q[i + 1]
<1>1. Len(q) \in Nat
  OBVIOUS
<1> DEFINE a == SubSeq(q, 1, k - 1)
           b == SubSeq(q, k + 1, Len(q))
           r == a \o b
<1>2. /\ a \in Seq(S) /\ b \in Seq(S) /\ Len(a) = k - 1 /\ Len(b) = Len(q) - k
      /\ \A i \in 1 .. k - 1 : a[i] = q[i]
      /\ \A i \in 1 .. Len(q) - k : b[i] = q[k + i]
  BY Parts, ZenonT(60)
<1>3. RemoveAt(q, k) = r
  BY DEF RemoveAt
<1> HIDE DEF a, b, r
<1>4. /\ r \in Seq(S) /\ Len(r) = Len(q) - 1
      /\ \A i \in 1 .. Len(q) - 1 : r[i] = IF i < k THEN q[i] ELSE q[i + 1]
  <2>1. /\ r \in Seq(S) /\ Len(r) = Len(a) + Len(b)
        /\ \A i \in 1 .. Len(a) + Len(b) : r[i] = IF i <= Len(a) THEN a[i] ELSE b[i - Len(a)]
    BY <1>2, ConcatProperties DEF r
  <2>2. Len(r) = Len(q) - 1 /\ Len(a) + Len(b) = Len(q) - 1
    BY <1>1, <1>2, <2>1
  <2>3. \A i \in 1 .. Len(q) - 1 : r[i] = IF i < k THEN q[i] ELSE q[i + 1]
    <3> TAKE i \in 1 .. Len(q) - 1
    <3>1. r[i] = IF i <= k - 1 THEN a[i] ELSE b[i - (k - 1)]
      BY <1>2, <2>1, <2>2
    <3>2. CASE i < k
      <4>1. i <= k - 1 /\ i \in 1 .. k - 1
        BY <1>1, <3>2
      <4> QED BY <1>2, <3>1, <3>2, <4>1
    <3>3. CASE ~(i < k)
      <4>1. ~(i <= k - 1) /\ i - (k - 1) \in 1 .. Len(q) - k /\ k + (i - (k - 1)) = i + 1
        BY <1>1, <3>3
      <4> QED BY <1>2, <3>1, <3>3, <4>1
    <3> QED BY <3>2, <3>3
  <2> QED BY <2>1, <2>2, <2>3
<1> QED BY <1>3, <1>4

(* What is left has every task but that one, each once.                    *)
LEMMA RemoveLeaves ==
  ASSUME NEW S, NEW q \in Seq(S), IsInjective(q), NEW k \in 1 .. Len(q)
  PROVE  IsInjective(RemoveAt(q, k)) /\ ToSet(RemoveAt(q, k)) = ToSet(q) \ {q[k]}
<1> DEFINE r == RemoveAt(q, k)
<1>0. /\ r \in Seq(S) /\ Len(r) = Len(q) - 1
      /\ \A i \in 1 .. Len(q) - 1 : r[i] = IF i < k THEN q[i] ELSE q[i + 1]
  BY RemovePosition
<1> HIDE DEF r
<1>1. Len(q) \in Nat /\ \A i, j \in 1 .. Len(q) : q[i] = q[j] => i = j
  BY Positions
<1> DEFINE at(i) == IF i < k THEN i ELSE i + 1
<1>2. \A i \in 1 .. Len(r) : r[i] = q[at(i)] /\ at(i) \in 1 .. Len(q) /\ at(i) # k
  BY <1>0, <1>1
<1>3. \A i, j \in 1 .. Len(r) : at(i) = at(j) => i = j
  BY <1>0, <1>1
<1>4. \A j \in 1 .. Len(q) : j # k => \E i \in 1 .. Len(r) : at(i) = j
  <2> TAKE j \in 1 .. Len(q)
  <2> HAVE j # k
  <2>1. CASE j < k
    <3>1. j \in 1 .. Len(r) /\ at(j) = j
      BY <1>0, <1>1, <2>1
    <3> QED BY <3>1
  <2>2. CASE j > k
    <3>1. j - 1 \in 1 .. Len(r) /\ at(j - 1) = j
      BY <1>0, <1>1, <2>2
    <3> QED BY <3>1
  <2> QED BY <1>1, <2>1, <2>2
<1> HIDE DEF at
<1>5. \A i, j \in 1 .. Len(r) : r[i] = r[j] => i = j
  BY <1>1, <1>2, <1>3
<1>6. \A x : x \in ToSet(r) <=> x \in ToSet(q) /\ x # q[k]
  <2> TAKE x
  <2>1. x \in ToSet(r) <=> \E i \in 1 .. Len(r) : x = r[i]
    BY <1>0, Positions
  <2>2. x \in ToSet(q) <=> \E i \in 1 .. Len(q) : x = q[i]
    BY Positions
  <2>3. ASSUME x \in ToSet(r) PROVE x \in ToSet(q) /\ x # q[k]
    <3>1. PICK i \in 1 .. Len(r) : x = r[i]
      BY <2>1, <2>3
    <3>2. x = q[at(i)] /\ at(i) \in 1 .. Len(q) /\ at(i) # k
      BY <1>2, <3>1
    <3> QED BY <1>1, <2>2, <3>2
  <2>4. ASSUME x \in ToSet(q), x # q[k] PROVE x \in ToSet(r)
    <3>1. PICK j \in 1 .. Len(q) : x = q[j]
      BY <2>2, <2>4
    <3>2. PICK i \in 1 .. Len(r) : at(i) = j
      BY <1>4, <2>4, <3>1
    <3> QED BY <1>2, <2>1, <3>1, <3>2
  <2> QED BY <2>3, <2>4
<1>7. IsInjective(r) /\ ToSet(r) = ToSet(q) \ {q[k]}
  BY <1>0, <1>5, <1>6, Positions
<1> QED BY <1>7 DEF r

-----------------------------------------------------------------------------

(* The scheduler has exactly the tasks that have come and not gone.        *)
RunnableExact == runnable = Queued \cup ({current} \ {Idle})

(* The ticks one task gets at most before it has to leave the CPU.         *)
Turn == MAX_TIME_SLICE + MaxLate

(* The ticks the current task can still get.  One that came back with a    *)
(* used-up slice is noticed at its first tick.                             *)
Remaining ==
  IF current = Idle THEN 0
  ELSE IF time_slice[current] > 0 THEN time_slice[current] + MaxLate
  ELSE IF pending THEN MaxLate - late ELSE MaxLate + 1

(* What a task has waited, a turn of everybody in front of it and what the *)
(* current task has left add up to no more than a turn of all the others.  *)
WaitsInTurn ==
  \A i \in 1 .. Len(ready_queue) :
    waited[ready_queue[i]] + Turn * (i - 1) + Remaining <= Turn * (Cardinality(Task) - 1)

(* Only queued tasks wait.                                                 *)
OnlyQueuedWait == \A t \in Task \ Queued : waited[t] = 0

IInv == TypeOK /\ QueuedOnce /\ RunnableExact /\ WaitsInTurn /\ OnlyQueuedWait

-----------------------------------------------------------------------------
(* Arithmetic of turns.                                                    *)
LEMMA TurnType == Turn \in Nat \ {0} /\ Cardinality(Task) \in Nat
BY SliceAssumption, TaskFinite, FS_CardinalityType DEF Turn

LEMMA TurnsMonotone ==
  ASSUME NEW b \in Nat, NEW i \in Int, NEW j \in Int, i <= j
  PROVE  b * i <= b * j
OBVIOUS

LEMMA OneTurnMore ==
  ASSUME NEW b \in Nat, NEW i \in Int
  PROVE  b * (i - 1) + b = b * i
OBVIOUS

LEMMA RemainingBound ==
  ASSUME TypeOK
  PROVE  Remaining \in 0 .. Turn
BY SliceAssumption, IdleOutside DEF TypeOK, Remaining, Turn

-----------------------------------------------------------------------------
LEMMA InitInv == Init => IInv
<1> SUFFICES ASSUME Init PROVE IInv
  OBVIOUS
<1>1. TypeOK
  <2>1. ready_queue \in Seq(Task) /\ current \in Task \cup {Idle} /\ runnable \subseteq Task
    BY DEF Init
  <2>2. pending \in BOOLEAN
    BY DEF Init
  <2>3. /\ time_slice \in [Task -> -MaxDebt .. MAX_TIME_SLICE]
        /\ late \in 0 .. MaxLate /\ waited \in [Task -> Nat]
    BY SliceAssumption DEF Init
  <2> QED BY <2>1, <2>2, <2>3 DEF TypeOK
<1>2. QueuedOnce /\ RunnableExact /\ WaitsInTurn /\ OnlyQueuedWait
  BY IdleOutside DEF Init, QueuedOnce, RunnableExact, WaitsInTurn, OnlyQueuedWait, Queued, ToSet, IsInjective
<1> QED BY <1>1, <1>2 DEF IInv

(* resched: the queue q that is picked from is the ready queue, with the   *)
(* current task at its end if it was put back.                             *)
LEMMA SwitchInv ==
  ASSUME IInv, NEW q \in Seq(Task), NEW sl \in [Task -> -MaxDebt .. MAX_TIME_SLICE],
         \/ q = ready_queue
         \/ current # Idle /\ q = Append(ready_queue, current),
         SwitchFrom([ready |-> q, slice |-> sl]),
         runnable' = ToSet(q)
  PROVE  IInv'
<1>1. /\ ready_queue \in Seq(Task) /\ current \in Task \cup {Idle}
      /\ time_slice \in [Task -> -MaxDebt .. MAX_TIME_SLICE]
      /\ waited \in [Task -> Nat] /\ late \in 0 .. MaxLate
      /\ IsInjective(ready_queue) /\ current \notin Queued
  BY DEF IInv, TypeOK, QueuedOnce
<1>2. /\ ready_queue' = IF q = << >> THEN << >> ELSE Tail(q)
      /\ current' = IF q = << >> THEN Idle ELSE Head(q)
      /\ time_slice' = sl /\ pending' = FALSE /\ late' = 0
      /\ waited' = [t \in Task |-> IF t \in Queued /\ t # current' THEN waited[t] ELSE 0]
  BY DEF SwitchFrom
<1>3. /\ Len(ready_queue) \in Nat
      /\ \A i \in 1 .. Len(ready_queue) : ready_queue[i] \in Queued
      /\ \A i, j \in 1 .. Len(ready_queue) : ready_queue[i] = ready_queue[j] => i = j
  BY <1>1, Positions DEF Queued
<1>4. /\ Len(q) \in {Len(ready_queue), Len(ready_queue) + 1}
      /\ \A i \in 1 .. Len(ready_queue) : q[i] = ready_queue[i]
      /\ Len(q) = Len(ready_queue) + 1 => q[Len(q)] = current /\ current # Idle
  <2>1. CASE q = ready_queue
    BY <1>3, <2>1
  <2>2. CASE current # Idle /\ q = Append(ready_queue, current)
    <3>1. current \in Task
      BY <1>1, <2>2
    <3> QED BY <1>1, <1>3, <2>2, <3>1, AppendProperties
  <2> QED BY <2>1, <2>2
<1>5. \A i, j \in 1 .. Len(q) : q[i] = q[j] => i = j
  <2> SUFFICES ASSUME NEW i \in 1 .. Len(q), NEW j \in 1 .. Len(q), q[i] = q[j], i < j
               PROVE  FALSE
    BY <1>3, <1>4
  <2>1. i \in 1 .. Len(ready_queue) /\ q[i] = ready_queue[i] /\ q[i] \in Queued
    BY <1>3, <1>4, SMTT(60)
  <2>2. CASE j \in 1 .. Len(ready_queue)
    <3>1. ready_queue[i] = ready_queue[j]
      BY <1>4, <2>1, <2>2
    <3> QED BY <1>3, <2>1, <2>2, <3>1
  <2>3. CASE j \notin 1 .. Len(ready_queue)
    <3>1. j = Len(q) /\ Len(q) = Len(ready_queue) + 1
      BY <1>3, <1>4, <2>3
    <3> QED BY <1>1, <1>4, <2>1, <3>1
  <2> QED BY <2>2, <2>3
<1>6. /\ ready_queue' \in Seq(Task) /\ current' \in Task \cup {Idle}
      /\ Len(ready_queue') = IF q = << >> THEN 0 ELSE Len(q) - 1
      /\ \A i \in 1 .. Len(ready_queue') : ready_queue'[i] = q[i + 1] /\ i + 1 \in 1 .. Len(q)
      /\ q # << >> => current' = q[1] /\ 1 \in 1 .. Len(q) /\ current' # Idle
  <2>1. CASE q = << >>
    BY <1>2, <2>1
  <2>2. CASE q # << >>
    <3>1. ready_queue' = Tail(q) /\ current' = Head(q)
      BY <1>2, <2>2
    <3>2. /\ current' = q[1] /\ current' \in Task /\ ready_queue' \in Seq(Task)
          /\ Len(ready_queue') = Len(q) - 1 /\ 1 \in 1 .. Len(q)
          /\ \A i \in 1 .. Len(ready_queue') : ready_queue'[i] = q[i + 1] /\ i + 1 \in 1 .. Len(q)
      BY <2>2, <3>1, Pop
    <3> QED BY <2>2, <3>2, IdleOutside
  <2> QED BY <2>1, <2>2
<1>7. ToSet(q) \subseteq Task
  BY Positions
<1>8. TypeOK'
  <2>1. runnable' \subseteq Task /\ time_slice' \in [Task -> -MaxDebt .. MAX_TIME_SLICE]
    BY <1>2, <1>7
  <2>2. pending' \in BOOLEAN
    BY <1>2
  <2>3. late' \in 0 .. MaxLate
    BY <1>2, SliceAssumption
  <2>4. waited' \in [Task -> Nat]
    BY <1>1, <1>2
  <2> QED BY <1>6, <2>1, <2>2, <2>3, <2>4 DEF TypeOK
<1>9. QueuedOnce'
  <2>1. IsInjective(ready_queue')
    <3> SUFFICES ASSUME NEW i \in 1 .. Len(ready_queue'), NEW j \in 1 .. Len(ready_queue'),
                        ready_queue'[i] = ready_queue'[j]
                 PROVE  i = j
      BY <1>6, Positions
    <3>1. i + 1 = j + 1
      BY <1>5, <1>6
    <3> QED BY <3>1, <1>6
  <2>2. \A i \in 1 .. Len(ready_queue') : ready_queue'[i] # current'
    <3> SUFFICES ASSUME NEW i \in 1 .. Len(ready_queue'), ready_queue'[i] = current'
                 PROVE  FALSE
      OBVIOUS
    <3>1. q # << >>
      BY <1>6
    <3>2. i + 1 = 1
      BY <1>5, <1>6, <3>1
    <3> QED BY <3>2, <1>6
  <2>3. \A x : x \in ToSet(ready_queue') => \E i \in 1 .. Len(ready_queue') : x = ready_queue'[i]
    BY <1>6, Positions
  <2> QED BY <2>1, <2>2, <2>3 DEF QueuedOnce, Queued
<1>10. RunnableExact'
  <2>1. CASE q = << >>
    BY <1>2, <2>1 DEF RunnableExact, Queued, ToSet
  <2>2. CASE q # << >>
    <3>1. \A x : x \in ToSet(q) <=> \E i \in 1 .. Len(q) : x = q[i]
      BY Positions
    <3>2. \A x : x \in Queued' <=> \E i \in 1 .. (Len(q) - 1) : x = q[i + 1]
      <4>1. \A x : x \in ToSet(ready_queue') <=> \E i \in 1 .. Len(ready_queue') : x = ready_queue'[i]
        BY <1>6, Positions
      <4>2. Len(ready_queue') = Len(q) - 1
        BY <1>6, <2>2
      <4>3. \A i \in 1 .. (Len(q) - 1) : ready_queue'[i] = q[i + 1]
        BY <4>2, <1>6
      <4>4. \A x : x \in Queued' <=> \E i \in 1 .. (Len(q) - 1) : x = ready_queue'[i]
        BY <4>1, <4>2 DEF Queued
      <4> QED BY <4>3, <4>4
    <3>3. Len(q) \in Nat
      BY <1>3, <1>4
    <3>4. \A x : x \in ToSet(q) <=> x = q[1] \/ x \in Queued'
      <4> TAKE x
      <4>1. ASSUME x \in ToSet(q) PROVE x = q[1] \/ x \in Queued'
        <5>1. PICK i \in 1 .. Len(q) : x = q[i]
          BY <3>1, <4>1
        <5>2. CASE i = 1
          BY <5>1, <5>2
        <5>3. CASE i # 1
          <6>1. i - 1 \in 1 .. (Len(q) - 1) /\ (i - 1) + 1 = i
            BY <5>3, <3>3
          <6> QED BY <5>1, <6>1, <3>2
        <5> QED BY <5>2, <5>3
      <4>2. ASSUME x = q[1] \/ x \in Queued' PROVE x \in ToSet(q)
        BY <4>2, <3>1, <3>2, <3>3, <1>6, <2>2
      <4> QED BY <4>1, <4>2
    <3> QED BY <3>4, <1>6, <2>2 DEF RunnableExact
  <2> QED BY <2>1, <2>2
<1>11. WaitsInTurn'
  <2> SUFFICES ASSUME NEW i \in 1 .. Len(ready_queue')
               PROVE  waited'[ready_queue'[i]] + Turn * (i - 1) + Remaining'
                        <= Turn * (Cardinality(Task) - 1)
    BY DEF WaitsInTurn, Turn
  <2> DEFINE t == ready_queue'[i]
             W == Turn * (Cardinality(Task) - 1)
             Before == Turn * (i - 1)
             Upto == Turn * i
  <2>1. /\ i \in Nat /\ i >= 1 /\ i + 1 <= Len(q) /\ q # << >> /\ t = q[i + 1]
        /\ t \in Task /\ t # current'
    <3>1. t \in Queued'
      BY <1>6, Positions DEF Queued
    <3> QED BY <1>3, <1>4, <1>6, <1>9, <3>1 DEF QueuedOnce
  <2>2. Remaining' \in 0 .. Turn
    <3>1. current' \in Task /\ sl[current'] \in -MaxDebt .. MAX_TIME_SLICE
      BY <1>6, <2>1
    <3>2. Remaining' = IF sl[current'] > 0 THEN sl[current'] + MaxLate ELSE MaxLate + 1
      BY <1>2, <3>1, IdleOutside DEF Remaining
    <3> QED BY <3>1, <3>2, SliceAssumption DEF Turn
  <2>3. Before + Turn = Upto
    BY <2>1, TurnType, OneTurnMore
  <2>4. Turn \in Nat /\ Before \in Int /\ Upto \in Int /\ W \in Int
    BY <2>1, TurnType
  <2>5. CASE i + 1 <= Len(ready_queue)
    <3>1. i + 1 \in 1 .. Len(ready_queue) /\ t = ready_queue[i + 1] /\ t \in Queued
      BY <1>3, <1>4, <2>1, <2>5, SMTT(60)
    <3>2. waited[t] + Turn * ((i + 1) - 1) + Remaining <= W
      BY <3>1 DEF IInv, WaitsInTurn
    <3>3. (i + 1) - 1 = i
      BY <2>1
    <3>4. waited'[t] = waited[t] /\ waited[t] \in Nat
      BY <1>1, <1>2, <2>1, <3>1
    <3>5. Remaining \in 0 .. Turn
      BY RemainingBound DEF IInv
    <3>6. waited[t] + Upto + Remaining <= W
      BY <3>2, <3>3
    <3> HIDE DEF W, Before, Upto
    <3> SUFFICES waited'[t] + Before + Remaining' <= W
      BY DEF W, Before
    <3> QED BY <2>2, <2>3, <2>4, <3>4, <3>5, <3>6, SMTT(60)
  <2>6. CASE i + 1 > Len(ready_queue)
    <3>1. i + 1 = Len(q) /\ i = Len(ready_queue) /\ t = current /\ current # Idle
      BY <1>3, <1>4, <2>1, <2>6
    <3>2. waited'[t] \in Int /\ waited'[t] <= 0
      BY <1>1, <1>2, <2>1, <3>1
    <3>3. Len(ready_queue) <= Cardinality(Task) - 1
      <4>1. current \in Task
        BY <1>1, <3>1
      <4>2. ready_queue \in Seq(Task \ {current})
        <5>1. \A k \in 1 .. Len(ready_queue) : ready_queue[k] \in Task \ {current}
          <6> TAKE k \in 1 .. Len(ready_queue)
          <6>1. ready_queue[k] \in Queued /\ ready_queue[k] \in Task
            BY <1>1, <1>3, SMTT(60)
          <6> QED BY <1>1, <6>1
        <5> QED BY <5>1, <1>1, SeqOver
      <4>3. /\ IsFiniteSet(Task \ {current})
            /\ Cardinality(Task \ {current}) = Cardinality(Task) - 1
        BY <4>1, TaskFinite, FS_RemoveElement
      <4> QED BY <4>2, <4>3, <1>1, QueueRoom
    <3>4. Upto <= W
      <4>1. i <= Cardinality(Task) - 1 /\ Cardinality(Task) - 1 \in Int
        BY <3>1, <3>3, TurnType
      <4>2. i \in Int /\ Turn \in Nat
        BY <2>1, TurnType
      <4> QED BY <4>1, <4>2, TurnsMonotone, Zenon
    <3> HIDE DEF W, Before, Upto
    <3> SUFFICES waited'[t] + Before + Remaining' <= W
      BY DEF W, Before
    <3> QED BY <2>2, <2>3, <2>4, <3>2, <3>4
  <2> QED BY <2>1, <2>5, <2>6, <1>3
<1>12. OnlyQueuedWait'
  <2> SUFFICES ASSUME NEW t \in Task, t \notin Queued', t \in Queued, t # current'
               PROVE  FALSE
    BY <1>2 DEF OnlyQueuedWait
  <2>1. PICK i \in 1 .. Len(ready_queue) : t = ready_queue[i]
    BY <1>1, Positions DEF Queued
  <2>2. i \in 1 .. Len(q) /\ t = q[i]
    BY <1>3, <1>4, <2>1
  <2>3. t \in runnable'
    BY <2>2, Positions
  <2> QED BY <1>10, <2>3 DEF RunnableExact
<1> QED BY <1>8, <1>9, <1>10, <1>11, <1>12 DEF IInv

-----------------------------------------------------------------------------
(* Facts of every state.                                                   *)
LEMMA Facts ==
  ASSUME IInv
  PROVE  /\ ready_queue \in Seq(Task) /\ current \in Task \cup {Idle}
         /\ time_slice \in [Task -> -MaxDebt .. MAX_TIME_SLICE]
         /\ waited \in [Task -> Nat] /\ late \in 0 .. MaxLate /\ runnable \subseteq Task
         /\ IsInjective(ready_queue) /\ current \notin Queued
         /\ runnable = Queued \cup ({current} \ {Idle})
         /\ \A t \in Task \ Queued : waited[t] = 0
         /\ Turn \in Nat \ {0} /\ Remaining \in 0 .. Turn
BY TurnType, RemainingBound DEF IInv, TypeOK, QueuedOnce, RunnableExact, OnlyQueuedWait

LEMMA AddInv ==
  ASSUME IInv, NEW t \in Task, add_task(t)
  PROVE  IInv'
<1>1. /\ t \in Task \ runnable /\ runnable' = runnable \cup {t}
      /\ ready_queue' = Append(ready_queue, t)
      /\ time_slice' = time_slice /\ current' = current /\ waited' = waited
  BY DEF add_task
<1>2. \/ pending' = pending /\ late' = late
      \/ current # Idle /\ ~pending /\ pending' = TRUE /\ late' = 0
  BY DEF add_task
<1>3. t \notin Queued /\ t # current
  BY <1>1, Facts, IdleOutside
<1>4. /\ ready_queue' \in Seq(Task) /\ Len(ready_queue') = Len(ready_queue) + 1
      /\ Len(ready_queue) \in Nat
      /\ \A i \in 1 .. Len(ready_queue) : ready_queue'[i] = ready_queue[i]
      /\ ready_queue'[Len(ready_queue) + 1] = t
  <2>1. ready_queue \in Seq(Task)
    BY Facts
  <2> QED BY <1>1, <2>1, AppendProperties
<1>5. IsInjective(ready_queue') /\ ToSet(ready_queue') = ToSet(ready_queue) \cup {t}
  <2>1. ready_queue \in Seq(Task) /\ IsInjective(ready_queue) /\ t \notin ToSet(ready_queue)
    BY <1>3, Facts DEF Queued
  <2> QED BY <1>4, <2>1, PushLeaves
<1>6. Queued' = Queued \cup {t}
  BY <1>5 DEF Queued
<1>7. TypeOK'
  <2>1. pending' \in BOOLEAN
    BY <1>2 DEF IInv, TypeOK
  <2>2. late' \in 0 .. MaxLate
    BY <1>2, SliceAssumption DEF IInv, TypeOK
  <2>3. runnable' \subseteq Task
    BY <1>1 DEF IInv, TypeOK
  <2> QED BY <1>1, <1>4, <2>1, <2>2, <2>3 DEF IInv, TypeOK
<1>8. QueuedOnce'
  BY <1>1, <1>3, <1>5, <1>6, Facts DEF QueuedOnce
<1>9. RunnableExact'
  BY <1>1, <1>6, Facts DEF RunnableExact
<1>10. OnlyQueuedWait'
  BY <1>1, <1>6, Facts DEF OnlyQueuedWait
<1>11. Remaining' \in Int /\ Remaining' <= Remaining
  <2>1. CASE current = Idle
    BY <1>1, <2>1 DEF Remaining
  <2>2. CASE current # Idle
    <3>1. time_slice[current] \in Int /\ MaxLate \in Nat /\ late \in 0 .. MaxLate
      BY <2>2, Facts, SliceAssumption
    <3> QED BY <1>1, <1>2, <2>2, <3>1 DEF Remaining
  <2> QED BY <2>1, <2>2
<1>12. WaitsInTurn'
  <2> SUFFICES ASSUME NEW i \in 1 .. Len(ready_queue')
               PROVE  waited[ready_queue'[i]] + Turn * (i - 1) + Remaining'
                        <= Turn * (Cardinality(Task) - 1)
    BY <1>1 DEF WaitsInTurn, Turn
  <2> DEFINE u == ready_queue'[i]
             W == Turn * (Cardinality(Task) - 1)
             Before == Turn * (i - 1)
  <2>1. Before \in Int /\ W \in Int /\ Turn \in Nat
    BY <1>4, TurnType
  <2>2. u \in Task /\ waited[u] \in Nat
    BY <1>4, Facts
  <2>3. Remaining \in 0 .. Turn
    BY Facts
  <2>4. CASE i \in 1 .. Len(ready_queue)
    <3>1. waited[u] + Before + Remaining <= W
      BY <1>4, <2>4 DEF IInv, WaitsInTurn
    <3> HIDE DEF W, Before, u
    <3> SUFFICES waited[u] + Before + Remaining' <= W
      BY DEF W, Before, u
    <3> QED BY <1>11, <2>1, <2>2, <2>3, <3>1
  <2>5. CASE i = Len(ready_queue) + 1
    <3>1. u = t /\ waited[u] <= 0
      BY <1>3, <1>4, <2>5, Facts
    <3>2. Before + Remaining <= W
      <4>1. CASE current = Idle
        <5>1. Len(ready_queue) <= Cardinality(Task \ {t})
          <6>1. \A k \in 1 .. Len(ready_queue) : ready_queue[k] \in Task \ {t}
            <7>1. \A k \in 1 .. Len(ready_queue) : ready_queue[k] \in Queued /\ ready_queue[k] \in Task
              BY Facts, Positions DEF Queued
            <7> QED BY <1>3, <7>1
          <6>2. ready_queue \in Seq(Task \ {t})
            BY <6>1, Facts, SeqOver
          <6>3. IsFiniteSet(Task \ {t})
            BY TaskFinite, FS_RemoveElement
          <6> QED BY <6>2, <6>3, Facts, QueueRoom
        <5>2. Cardinality(Task \ {t}) = Cardinality(Task) - 1
          BY TaskFinite, FS_RemoveElement
        <5>3. i - 1 <= Cardinality(Task) - 1 /\ i - 1 \in Int /\ Cardinality(Task) - 1 \in Int
          BY <1>4, <2>5, <5>1, <5>2, TurnType
        <5>4. Before <= W
          BY <2>1, <5>3, TurnsMonotone, Zenon
        <5>5. Remaining = 0
          BY <4>1 DEF Remaining
        <5> HIDE DEF Before, W
        <5> QED BY <2>1, <5>4, <5>5
      <4>2. CASE current # Idle
        <5> DEFINE others == (Task \ {t}) \ {current}
        <5>0. current \in Task \ {t}
          BY <1>3, <4>2, Facts
        <5>1. /\ IsFiniteSet(Task \ {t}) /\ IsFiniteSet(others)
              /\ Cardinality(others) = Cardinality(Task) - 2
          <6>1. IsFiniteSet(Task \ {t}) /\ Cardinality(Task \ {t}) = Cardinality(Task) - 1
            BY TaskFinite, FS_RemoveElement
          <6>2. IsFiniteSet(others) /\ Cardinality(others) = Cardinality(Task \ {t}) - 1
            BY <5>0, <6>1, FS_RemoveElement
          <6> HIDE DEF others
          <6> QED BY <6>1, <6>2, TurnType
        <5>2. ready_queue \in Seq(others)
          <6>1. \A k \in 1 .. Len(ready_queue) : ready_queue[k] \in Queued /\ ready_queue[k] \in Task
            BY Facts, Positions DEF Queued
          <6>2. \A k \in 1 .. Len(ready_queue) : ready_queue[k] \in others
            BY <1>3, <6>1, Facts
          <6> HIDE DEF others
          <6> QED BY <6>2, Facts, SeqOver
        <5>3. Len(ready_queue) <= Cardinality(others)
          <6> HIDE DEF others
          <6> QED BY <5>1, <5>2, Facts, QueueRoom
        <5> HIDE DEF others
        <5>4. i <= Cardinality(Task) - 1 /\ i \in Int /\ Cardinality(Task) - 1 \in Int
          BY <1>4, <2>5, <5>1, <5>3, TurnType
        <5>5. Turn * i <= W
          BY <2>1, <5>4, TurnsMonotone, Zenon
        <5>6. Before + Turn = Turn * i /\ Turn * i \in Int
          BY <2>1, <5>4, OneTurnMore
        <5> DEFINE Upto == Turn * i
        <5> HIDE DEF Before, W, Upto
        <5>7. Upto <= W /\ Before + Turn = Upto /\ Upto \in Int
          BY <5>5, <5>6 DEF Upto
        <5> QED BY <2>1, <2>3, <5>7
      <4> QED BY <4>1, <4>2
    <3> HIDE DEF W, Before, u
    <3> SUFFICES waited[u] + Before + Remaining' <= W
      BY DEF W, Before, u
    <3> QED BY <1>11, <2>1, <2>2, <2>3, <3>1, <3>2
  <2> QED BY <1>4, <2>4, <2>5
<1> QED BY <1>7, <1>8, <1>9, <1>10, <1>12 DEF IInv

LEMMA RemoveInv ==
  ASSUME IInv, NEW t \in Task, remove_task(t)
  PROVE  IInv'
<1>1. /\ t \in Queued /\ runnable' = runnable \ {t}
      /\ waited' = [waited EXCEPT ![t] = 0]
      /\ time_slice' = time_slice /\ current' = current /\ pending' = pending /\ late' = late
  BY DEF remove_task
<1>2. ready_queue \in Seq(Task) /\ IsInjective(ready_queue)
  BY Facts
<1>3. PICK k \in 1 .. Len(ready_queue) : ready_queue[k] = t
  BY <1>1, <1>2, Positions DEF Queued
<1>4. SelectInSeq(ready_queue, LAMBDA u : u = t) = k
  <2>1. /\ {i \in 1 .. Len(ready_queue) : ready_queue[i] = t} # {}
        /\ Min({i \in 1 .. Len(ready_queue) : ready_queue[i] = t}) = k
    BY <1>2, <1>3, Found
  <2> QED BY <2>1 DEF SelectInSeq
<1>5. ready_queue' = RemoveAt(ready_queue, k)
  BY <1>4 DEF remove_task
<1>6. /\ ready_queue' \in Seq(Task) /\ Len(ready_queue') = Len(ready_queue) - 1
      /\ Len(ready_queue) \in Nat
      /\ \A i \in 1 .. Len(ready_queue') :
           ready_queue'[i] = IF i < k THEN ready_queue[i] ELSE ready_queue[i + 1]
  <2>1. /\ RemoveAt(ready_queue, k) \in Seq(Task)
        /\ Len(RemoveAt(ready_queue, k)) = Len(ready_queue) - 1
        /\ \A i \in 1 .. Len(ready_queue) - 1 :
             RemoveAt(ready_queue, k)[i] = IF i < k THEN ready_queue[i] ELSE ready_queue[i + 1]
    BY <1>2, RemovePosition
  <2> QED BY <1>2, <1>5, <2>1
<1>7. IsInjective(ready_queue') /\ ToSet(ready_queue') = ToSet(ready_queue) \ {t}
  <2>1. /\ IsInjective(RemoveAt(ready_queue, k))
        /\ ToSet(RemoveAt(ready_queue, k)) = ToSet(ready_queue) \ {ready_queue[k]}
    BY <1>2, RemoveLeaves
  <2> QED BY <1>3, <1>5, <2>1
<1>8. Queued' = Queued \ {t}
  BY <1>7 DEF Queued
<1>9. waited' \in [Task -> Nat] /\ \A u \in Task : u # t => waited'[u] = waited[u]
  BY <1>1, Facts
<1>10. TypeOK'
  <2>1. runnable' \subseteq Task
    BY <1>1, Facts
  <2> QED BY <1>1, <1>6, <1>9, <2>1 DEF IInv, TypeOK
<1>11. QueuedOnce'
  BY <1>1, <1>7, <1>8, Facts DEF QueuedOnce
<1>12. RunnableExact'
  BY <1>1, <1>8, Facts DEF RunnableExact
<1>13. OnlyQueuedWait'
  <2> SUFFICES ASSUME NEW u \in Task, u \notin Queued' PROVE waited'[u] = 0
    BY DEF OnlyQueuedWait
  <2>1. CASE u = t
    BY <1>1, <2>1, Facts
  <2>2. CASE u # t
    BY <1>8, <1>9, <2>2, Facts
  <2> QED BY <2>1, <2>2
<1>14. Remaining' = Remaining
  BY <1>1 DEF Remaining
<1>15. WaitsInTurn'
  <2> SUFFICES ASSUME NEW i \in 1 .. Len(ready_queue')
               PROVE  waited'[ready_queue'[i]] + Turn * (i - 1) + Remaining
                        <= Turn * (Cardinality(Task) - 1)
    BY <1>14 DEF WaitsInTurn, Turn
  <2> DEFINE u == ready_queue'[i]
             W == Turn * (Cardinality(Task) - 1)
             Before == Turn * (i - 1)
             Upto == Turn * i
  <2>1. Before \in Int /\ W \in Int /\ Upto \in Int /\ Turn \in Nat /\ Before + Turn = Upto
    BY <1>6, TurnType, OneTurnMore
  <2>2. u \in Queued' /\ u \in Task /\ u # t
    BY <1>6, <1>8, Positions DEF Queued
  <2>3. waited'[u] = waited[u] /\ waited[u] \in Nat
    BY <1>9, <2>2, Facts
  <2>4. waited[u] + Before + Remaining <= W
    <3>1. CASE i < k
      <4>1. i \in 1 .. Len(ready_queue) /\ u = ready_queue[i]
        BY <1>6, <3>1
      <4> QED BY <4>1 DEF IInv, WaitsInTurn
    <3>2. CASE ~(i < k)
      <4>1. i + 1 \in 1 .. Len(ready_queue) /\ u = ready_queue[i + 1] /\ (i + 1) - 1 = i
        BY <1>6, <3>2
      <4>2. waited[u] + Turn * ((i + 1) - 1) + Remaining <= W
        BY <4>1 DEF IInv, WaitsInTurn
      <4>3. waited[u] + Upto + Remaining <= W
        BY <4>1, <4>2
      <4>4. Remaining \in 0 .. Turn
        BY Facts
      <4> HIDE DEF W, Before, Upto, u
      <4> QED BY <2>1, <2>3, <4>3, <4>4
    <3> QED BY <3>1, <3>2
  <2> QED BY <2>3, <2>4
<1> QED BY <1>10, <1>11, <1>12, <1>13, <1>15 DEF IInv

(* A tick: every queued task has waited one tick more, and the current     *)
(* task has one less left.                                                 *)
LEMMA TickInv ==
  ASSUME IInv, task_tick
  PROVE  IInv'
<1>1. /\ current # Idle /\ current \in Task
      /\ pending => late < MaxLate
      /\ time_slice[current] > -MaxDebt
      /\ time_slice' = [time_slice EXCEPT ![current] = @ - 1]
      /\ late' = IF pending THEN late + 1 ELSE 0
      /\ waited' = [t \in Task |-> IF t \in Queued THEN waited[t] + 1 ELSE 0]
      /\ ready_queue' = ready_queue /\ current' = current /\ runnable' = runnable
  BY Facts DEF task_tick
<1>2. pending' = (pending \/ time_slice[current] <= 1) /\ pending \in BOOLEAN
  BY DEF task_tick, IInv, TypeOK
<1>3. Queued' = Queued
  BY <1>1 DEF Queued
<1>4. time_slice[current] \in -MaxDebt .. MAX_TIME_SLICE
  BY <1>1, Facts
<1>5. time_slice'[current] = time_slice[current] - 1
  BY <1>1, Facts
<1>6. TypeOK'
  <2>1. time_slice' \in [Task -> -MaxDebt .. MAX_TIME_SLICE]
    <3>1. time_slice[current] - 1 \in -MaxDebt .. MAX_TIME_SLICE
      BY <1>1, <1>4, SliceAssumption
    <3> QED BY <1>1, <3>1, Facts
  <2>2. pending' \in BOOLEAN
    BY <1>2
  <2>3. late' \in 0 .. MaxLate
    BY <1>1, Facts, SliceAssumption
  <2>4. waited' \in [Task -> Nat]
    BY <1>1, Facts
  <2> QED BY <1>1, <2>1, <2>2, <2>3, <2>4 DEF IInv, TypeOK
<1>7. QueuedOnce' /\ RunnableExact'
  BY <1>1, <1>3 DEF IInv, QueuedOnce, RunnableExact
<1>8. OnlyQueuedWait'
  BY <1>1, <1>3 DEF OnlyQueuedWait
<1>9. Remaining' \in Int /\ Remaining' <= Remaining - 1
  <2>1. late \in 0 .. MaxLate /\ MaxLate \in Nat /\ time_slice[current] \in Int
    BY <1>4, Facts, SliceAssumption
  <2>2. CASE time_slice[current] > 1
    <3>1. Remaining = time_slice[current] + MaxLate
      BY <1>1, <2>1, <2>2 DEF Remaining
    <3>2. Remaining' = time_slice[current] - 1 + MaxLate
      BY <1>1, <1>5, <2>1, <2>2 DEF Remaining
    <3> QED BY <2>1, <3>1, <3>2
  <2>3. CASE time_slice[current] <= 1
    <3>1. pending' = TRUE
      BY <1>2, <2>3
    <3>2. ~(time_slice[current] - 1 > 0)
      BY <2>1, <2>3
    <3>3. Remaining' = MaxLate - late'
      BY <1>1, <1>5, <3>1, <3>2 DEF Remaining
    <3>4. Remaining = IF time_slice[current] > 0 THEN time_slice[current] + MaxLate
                      ELSE IF pending THEN MaxLate - late ELSE MaxLate + 1
      BY <1>1 DEF Remaining
    <3>5. CASE pending
      <4>1. late' = late + 1
        BY <1>1, <3>5
      <4>2. Remaining = IF time_slice[current] > 0 THEN time_slice[current] + MaxLate ELSE MaxLate - late
        BY <3>4, <3>5
      <4> QED BY <2>1, <3>3, <4>1, <4>2
    <3>6. CASE ~pending
      <4>1. late' = 0
        BY <1>1, <3>6
      <4>2. Remaining = IF time_slice[current] > 0 THEN time_slice[current] + MaxLate ELSE MaxLate + 1
        BY <3>4, <3>6
      <4> QED BY <2>1, <3>3, <4>1, <4>2
    <3> QED BY <3>5, <3>6
  <2> QED BY <2>1, <2>2, <2>3
<1>10. WaitsInTurn'
  <2> SUFFICES ASSUME NEW i \in 1 .. Len(ready_queue)
               PROVE  waited'[ready_queue[i]] + Turn * (i - 1) + Remaining'
                        <= Turn * (Cardinality(Task) - 1)
    BY <1>1 DEF WaitsInTurn, Turn
  <2> DEFINE u == ready_queue[i]
             W == Turn * (Cardinality(Task) - 1)
             Before == Turn * (i - 1)
  <2>1. Before \in Int /\ W \in Int
    BY TurnType, Facts, Positions
  <2>2. u \in Queued /\ u \in Task
    BY Facts, Positions DEF Queued
  <2>3. waited[u] \in Nat /\ waited'[u] \in Nat /\ waited'[u] <= waited[u] + 1
    BY <1>1, <2>2, Facts, SMTT(60)
  <2>4. waited[u] + Before + Remaining <= W
    BY DEF IInv, WaitsInTurn
  <2>5. Remaining \in Int
    BY Facts
  <2> HIDE DEF W, Before
  <2> SUFFICES waited'[u] + Before + Remaining' <= W
    BY DEF W, Before
  <2> QED BY <1>9, <2>1, <2>3, <2>4, <2>5, SMTT(60)
<1> QED BY <1>6, <1>7, <1>8, <1>10 DEF IInv

(* The current task goes to the back with a full slice.                    *)
LEMMA BackInv ==
  ASSUME IInv, current # Idle, runnable' = runnable,
         SwitchFrom([ready |-> Append(ready_queue, current),
                     slice |-> [time_slice EXCEPT ![current] = MAX_TIME_SLICE]])
  PROVE  IInv'
<1>1. current \in Task /\ ready_queue \in Seq(Task)
  BY Facts
<1>2. [time_slice EXCEPT ![current] = MAX_TIME_SLICE] \in [Task -> -MaxDebt .. MAX_TIME_SLICE]
  <2>1. MAX_TIME_SLICE \in -MaxDebt .. MAX_TIME_SLICE
    BY SliceAssumption
  <2> QED BY <1>1, <2>1, Facts
<1>3. Append(ready_queue, current) \in Seq(Task)
  BY <1>1
<1>4. runnable = ToSet(Append(ready_queue, current))
  <2> DEFINE r == Append(ready_queue, current)
  <2>1. /\ r \in Seq(Task) /\ Len(r) = Len(ready_queue) + 1
        /\ \A i \in 1 .. Len(ready_queue) : r[i] = ready_queue[i]
        /\ r[Len(ready_queue) + 1] = current
    BY <1>1, AppendProperties
  <2>2. IsInjective(ready_queue) /\ current \notin ToSet(ready_queue)
    BY Facts DEF Queued
  <2> HIDE DEF r
  <2>3. ToSet(r) = ToSet(ready_queue) \cup {current}
    BY <1>1, <2>1, <2>2, PushLeaves
  <2>4. runnable = ToSet(r)
    BY <2>3, Facts DEF Queued
  <2> QED BY <2>4 DEF r
<1> QED BY <1>2, <1>3, <1>4, SwitchInv

(* The head of the queue takes over, and the current task is gone or idle. *)
LEMMA HeadInv ==
  ASSUME IInv, SwitchFrom(Here), runnable' = Queued
  PROVE  IInv'
<1>1. ready_queue \in Seq(Task) /\ time_slice \in [Task -> -MaxDebt .. MAX_TIME_SLICE]
  BY Facts
<1>2. SwitchFrom([ready |-> ready_queue, slice |-> time_slice])
  BY DEF Here
<1>3. runnable' = ToSet(ready_queue)
  BY DEF Queued
<1> QED BY <1>1, <1>2, <1>3, SwitchInv

(* The current task is preempted within its slice: it is put in front and  *)
(* picked again.                                                           *)
LEMMA FrontInv ==
  ASSUME IInv, current # Idle, time_slice[current] > 0, runnable' = runnable,
         SwitchFrom([ready |-> << current >> \o ready_queue, slice |-> time_slice])
  PROVE  IInv' /\ current' = current
<1>1. current \in Task /\ ready_queue \in Seq(Task)
  BY Facts
<1>2. /\ << current >> \o ready_queue # << >>
      /\ Head(<< current >> \o ready_queue) = current
      /\ Tail(<< current >> \o ready_queue) = ready_queue
  BY <1>1
<1>3. /\ ready_queue' = ready_queue /\ current' = current /\ time_slice' = time_slice
      /\ pending' = FALSE /\ late' = 0
      /\ waited' = [t \in Task |-> IF t \in Queued /\ t # current' THEN waited[t] ELSE 0]
  BY <1>2 DEF SwitchFrom
<1>4. waited' = waited
  <2>1. \A t \in Task : waited[t] = IF t \in Queued /\ t # current' THEN waited[t] ELSE 0
    BY <1>3, Facts
  <2> QED BY <1>3, <2>1, Facts
<1>5. Queued' = Queued
  BY <1>3 DEF Queued
<1>6. TypeOK'
  <2>1. pending' \in BOOLEAN
    BY <1>3
  <2>2. late' \in 0 .. MaxLate
    BY <1>3, SliceAssumption
  <2> QED BY <1>3, <1>4, <2>1, <2>2 DEF IInv, TypeOK
<1>7. QueuedOnce' /\ RunnableExact' /\ OnlyQueuedWait'
  BY <1>3, <1>4, <1>5 DEF IInv, QueuedOnce, RunnableExact, OnlyQueuedWait
<1>8. Remaining' = Remaining
  BY <1>3 DEF Remaining
<1>9. WaitsInTurn'
  BY <1>3, <1>4, <1>8 DEF IInv, WaitsInTurn, Turn
<1> QED BY <1>3, <1>6, <1>7, <1>9 DEF IInv

(* resched, whether a preemption or a yield.                               *)
LEMMA ReschedInv ==
  ASSUME IInv, NEW p \in BOOLEAN, resched(p)
  PROVE  IInv'
<1>1. runnable' = runnable
  BY DEF resched
<1>2. CASE current = Idle
  <2>1. SwitchFrom(Here)
    BY <1>2 DEF resched
  <2>2. runnable' = Queued
    BY <1>1, <1>2, Facts
  <2> QED BY <2>1, <2>2, HeadInv
<1>3. CASE current # Idle /\ time_slice[current] > 0 /\ p
  <2>1. SwitchFrom([ready |-> << current >> \o ready_queue, slice |-> time_slice])
    BY <1>3 DEF resched, put_prev_task, Here
  <2> QED BY <1>1, <1>3, <2>1, FrontInv
<1>4. CASE current # Idle /\ ~(time_slice[current] > 0 /\ p)
  <2>1. SwitchFrom([ready |-> Append(ready_queue, current),
                    slice |-> [time_slice EXCEPT ![current] = MAX_TIME_SLICE]])
    BY <1>4 DEF resched, put_prev_task, Here
  <2> QED BY <1>1, <1>4, <2>1, BackInv
<1> QED BY <1>2, <1>3, <1>4

LEMMA NextInv == IInv /\ [Next]_vars => IInv'
<1> SUFFICES ASSUME IInv, [Next]_vars PROVE IInv'
  OBVIOUS
<1>1. CASE AddAny
  BY <1>1, AddInv DEF AddAny
<1>2. CASE RemoveAny
  BY <1>2, RemoveInv DEF RemoveAny
<1>3. CASE task_tick
  BY <1>3, TickInv
<1>4. CASE preempt_resched
  BY <1>4, ReschedInv DEF preempt_resched
<1>5. CASE yield_current
  BY <1>5, ReschedInv DEF yield_current
<1>6. CASE leave_current
  <2>1. SwitchFrom(Here) /\ runnable' = runnable \ {current}
    BY <1>6 DEF leave_current
  <2>2. runnable' = Queued
    BY <2>1, Facts
  <2> QED BY <2>1, <2>2, HeadInv
<1>7. CASE UNCHANGED vars
  BY <1>7 DEF vars, IInv, TypeOK, QueuedOnce, RunnableExact, WaitsInTurn, OnlyQueuedWait,
              Queued, Remaining, Turn
<1> QED BY <1>1, <1>2, <1>3, <1>4, <1>5, <1>6, <1>7 DEF Next

LEMMA Invariance == Spec => []IInv
BY InitInv, NextInv, PTL DEF Spec

-----------------------------------------------------------------------------
(* Every step has the types of the fields of the scheduler and its tasks.  *)
THEOREM TypeCorrect == Spec => []TypeOK
BY Invariance, PTL DEF IInv

(* No task is queued twice or while it runs: put_prev_task and add_task    *)
(* push only what is not in the ready queue.                               *)
THEOREM NeverQueuedTwice == Spec => []QueuedOnce
BY Invariance, PTL DEF IInv

(* Whatever the number of tasks and the length of the slice, a queued task *)
(* gets the CPU after at most a turn of each of the others.                *)
THEOREM WaitIsBounded == Spec => []WaitBounded
<1>1. IInv => WaitBounded
  <2> SUFFICES ASSUME IInv, NEW t \in Queued
               PROVE  waited[t] <= Turn * (Cardinality(Task) - 1)
    BY DEF WaitBounded, Turn
  <2> DEFINE W == Turn * (Cardinality(Task) - 1)
  <2>1. PICK i \in 1 .. Len(ready_queue) : t = ready_queue[i]
    BY Facts, Positions DEF Queued
  <2> DEFINE Before == Turn * (i - 1)
  <2>2. waited[t] + Before + Remaining <= W
    BY <2>1 DEF IInv, WaitsInTurn
  <2>3. i - 1 \in Nat /\ t \in Task
    BY <2>1, Facts
  <2>4. Before \in Nat /\ W \in Int
    BY <2>3, TurnType
  <2>5. waited[t] \in Nat /\ Remaining \in Nat
    BY <2>3, Facts
  <2> HIDE DEF W, Before
  <2> SUFFICES waited[t] <= W
    BY DEF W
  <2> QED BY <2>2, <2>4, <2>5
<1> QED BY <1>1, Invariance, PTL

(* A switch leaves the CPU with a runnable task if there is any.           *)
LEMMA PicksRunnable ==
  ASSUME IInv', NEW q \in Seq(Task), NEW sl, SwitchFrom([ready |-> q, slice |-> sl])
  PROVE  current' \in (IF runnable' = {} THEN {Idle} ELSE runnable')
<1>1. runnable' = Queued' \cup ({current'} \ {Idle})
  BY DEF IInv, RunnableExact
<1>2. CASE q = << >>
  <2>1. current' = Idle /\ ready_queue' = << >>
    BY <1>2 DEF SwitchFrom
  <2>2. Queued' = {}
    BY <2>1 DEF Queued, ToSet
  <2> QED BY <1>1, <2>1, <2>2
<1>3. CASE q # << >>
  <2>1. current' = Head(q) /\ Head(q) \in Task
    BY <1>3 DEF SwitchFrom
  <2> QED BY <1>1, <2>1, IdleOutside
<1> QED BY <1>2, <1>3

(* Every switch is from a queue of tasks.                                  *)
LEMMA ReschedPicks ==
  ASSUME IInv, NEW p \in BOOLEAN, resched(p)
  PROVE  current' \in (IF runnable' = {} THEN {Idle} ELSE runnable') /\ runnable' = runnable
<1>0. IInv' /\ runnable' = runnable
  BY ReschedInv DEF resched
<1> DEFINE s == IF current = Idle THEN Here ELSE put_prev_task(Here, current, p)
<1>1. ready_queue \in Seq(Task) /\ (current # Idle => current \in Task)
  BY Facts
<1>2. PICK q \in Seq(Task) : \E sl : s = [ready |-> q, slice |-> sl]
  <2>1. CASE current = Idle
    BY <1>1, <2>1 DEF Here
  <2>2. CASE current # Idle
    <3>1. << current >> \o ready_queue \in Seq(Task) /\ Append(ready_queue, current) \in Seq(Task)
      BY <1>1, <2>2
    <3> QED BY <2>2, <3>1 DEF put_prev_task, Here
  <2> QED BY <2>1, <2>2
<1>3. SwitchFrom(s)
  BY DEF resched
<1> HIDE DEF s
<1> QED BY <1>0, <1>2, <1>3, PicksRunnable

(* Every step of the scheduler is one that the trait allows, or changes    *)
(* nothing the trait speaks of.                                            *)
LEMMA StepRefines ==
  ASSUME IInv, [Next]_vars
  PROVE  [Promise!Next]_<<runnable, current>>
<1>1. CASE AddAny
  BY <1>1 DEF AddAny, add_task, Promise!Next, Promise!AddTask
<1>2. CASE RemoveAny
  <2>1. PICK t \in Task : remove_task(t)
    BY <1>2 DEF RemoveAny
  <2>2. t \in runnable \ {current}
    BY <2>1, Facts DEF remove_task
  <2> QED BY <2>1, <2>2 DEF remove_task, Promise!Next, Promise!RemoveTask
<1>3. CASE task_tick
  BY <1>3 DEF task_tick
<1>4. CASE preempt_resched \/ yield_current
  <2>1. PICK p \in BOOLEAN : resched(p)
    BY <1>4 DEF preempt_resched, yield_current
  <2>2. current' \in (IF runnable' = {} THEN {Idle} ELSE runnable') /\ runnable' = runnable
    BY <2>1, ReschedPicks
  <2> QED BY <2>2 DEF Promise!Next, Promise!PickNext
<1>5. CASE leave_current
  <2>1. SwitchFrom([ready |-> ready_queue, slice |-> time_slice])
    BY <1>5 DEF leave_current, Here
  <2>2. runnable' = runnable \ {current} /\ IInv'
    BY <1>5, NextInv DEF leave_current, Next
  <2>3. current' \in (IF runnable' = {} THEN {Idle} ELSE runnable')
    BY <2>1, <2>2, Facts, PicksRunnable
  <2> QED BY <2>2, <2>3 DEF Promise!Next, Promise!PickNext
<1>6. CASE UNCHANGED vars
  BY <1>6 DEF vars
<1> QED BY <1>1, <1>2, <1>3, <1>4, <1>5, <1>6 DEF Next

(* The round-robin scheduler implements the scheduler trait: whatever is   *)
(* added stays until it is picked or removed, and the CPU idles only when  *)
(* pick_next_task has nothing to pick.                                     *)
THEOREM RefinesTrait == Spec => KeepsPromise
<1>1. Init => Promise!Init
  BY DEF Init, Promise!Init
<1>2. IInv /\ [Next]_vars => [Promise!Next]_<<runnable, current>>
  BY StepRefines
<1> QED BY <1>1, <1>2, Invariance, PTL DEF Spec, KeepsPromise, Promise!Spec
=============================================================================

-------------------------- MODULE RunQueue_proofs --------------------------
(* What every operation on the run queue preserves, for any number of      *)
(* tasks, CPUs and wait queues.                                            *)
EXTENDS RunQueue, SequencesExt, SequenceTheorems, FiniteSetTheorems,
        WellFoundedInduction, TLAPS

-----------------------------------------------------------------------------
(* Queues of tasks, by position: what popping the head, appending, and     *)
(* removing a task that is searched for leave behind.                      *)

(* A set of numbers that is not empty has a least one.                     *)
LEMMA Least ==
  ASSUME NEW T, T \subseteq Nat, T # {}
  PROVE  \E x \in T : \A y \in T : x <= y
<1>1. PICK x \in T : \A y \in T : ~ (<< y, x >> \in OpToRel(<, Nat))
  BY NatLessThanWellFounded, WFMin
<1>2. \A y \in T : ~ (y < x)
  BY <1>1 DEF OpToRel
<1> QED BY <1>2

(* A queue by its positions.                                               *)
LEMMA Positions ==
  ASSUME NEW S, NEW q \in Seq(S)
  PROVE  /\ IsInjective(q) <=> \A i, j \in 1 .. Len(q) : q[i] = q[j] => i = j
         /\ \A x : x \in ToSet(q) <=> \E i \in 1 .. Len(q) : x = q[i]
         /\ ToSet(q) \subseteq S /\ Len(q) \in Nat
BY DEF IsInjective, ToSet

(* Popping the head h of the queue q leaves r.                             *)
LEMMA Pop ==
  ASSUME NEW S, NEW q \in Seq(S), q # << >>, NEW h, h = Head(q), NEW r, r = Tail(q)
  PROVE  /\ h = q[1] /\ h \in S /\ r \in Seq(S) /\ Len(r) = Len(q) - 1
         /\ Len(q) \in Nat /\ 1 \in 1 .. Len(q)
         /\ \A i \in 1 .. Len(r) : r[i] = q[i + 1] /\ i + 1 \in 1 .. Len(q)
<1>1. h = q[1] /\ h \in S /\ Len(q) \in Nat /\ 1 \in 1 .. Len(q)
  OBVIOUS
<1>2. r \in Seq(S) /\ Len(r) = Len(q) - 1 /\ \A i \in 1 .. Len(r) : r[i] = q[i + 1]
  BY HeadTailProperties
<1>3. \A i \in 1 .. Len(r) : i + 1 \in 1 .. Len(q)
  BY <1>1, <1>2
<1> QED BY <1>1, <1>2, <1>3

(* An injective queue is no longer than the set of its elements.           *)
LEMMA QueueRoom ==
  ASSUME NEW S, IsFiniteSet(S), NEW q \in Seq(S), IsInjective(q)
  PROVE  Len(q) <= Cardinality(S) /\ Len(q) \in Nat
<1>1. Len(q) \in Nat /\ q \in [1 .. Len(q) -> S]
  BY LenProperties
<1>2. q \in Injection(1 .. Len(q), S)
  BY <1>1 DEF Injection, IsInjective
<1>3. Cardinality(1 .. Len(q)) <= Cardinality(S)
  BY <1>2, FS_Injection
<1>4. Cardinality(1 .. Len(q)) = Len(q)
  BY <1>1, FS_Interval, SMTT(60)
<1> QED BY <1>1, <1>3, <1>4

(* A queue r that has one element more than q, at its end.                 *)
LEMMA PushLeaves ==
  ASSUME NEW S, NEW q \in Seq(S), IsInjective(q), NEW t \in S, t \notin ToSet(q),
         NEW r \in Seq(S), Len(r) = Len(q) + 1, r[Len(q) + 1] = t,
         \A i \in 1 .. Len(q) : r[i] = q[i]
  PROVE  IsInjective(r) /\ ToSet(r) = ToSet(q) \cup {t}
<1>1. Len(q) \in Nat
  OBVIOUS
<1>2. \A i \in 1 .. Len(q) : q[i] \in ToSet(q) /\ q[i] # t
  BY Positions
<1>3. \A i \in 1 .. Len(r) : i \in 1 .. Len(q) \/ i = Len(q) + 1
  BY <1>1
<1>4. \A i, j \in 1 .. Len(r) : r[i] = r[j] => i = j
  <2> SUFFICES ASSUME NEW i \in 1 .. Len(r), NEW j \in 1 .. Len(r), r[i] = r[j]
               PROVE  i = j
    OBVIOUS
  <2>1. CASE i \in 1 .. Len(q) /\ j \in 1 .. Len(q)
    <3>1. q[i] = q[j]
      BY <1>1, <2>1
    <3> QED BY <2>1, <3>1, Positions
  <2>2. CASE i \in 1 .. Len(q) /\ j = Len(q) + 1
    BY <1>1, <1>2, <2>2
  <2>3. CASE i = Len(q) + 1 /\ j \in 1 .. Len(q)
    BY <1>1, <1>2, <2>3
  <2> QED BY <1>3, <2>1, <2>2, <2>3
<1>5. \A x : x \in ToSet(r) <=> x \in ToSet(q) \/ x = t
  <2> TAKE x
  <2>1. x \in ToSet(r) <=> \E i \in 1 .. Len(r) : x = r[i]
    BY Positions
  <2>2. x \in ToSet(q) <=> \E i \in 1 .. Len(q) : x = q[i]
    BY Positions
  <2>3. Len(q) + 1 \in 1 .. Len(r) /\ \A i \in 1 .. Len(q) : i \in 1 .. Len(r)
    BY <1>1
  <2> QED BY <1>1, <1>3, <2>1, <2>2, <2>3
<1> QED BY <1>4, <1>5, Positions

(* What comes before and after position k.                                 *)
LEMMA Parts ==
  ASSUME NEW S, NEW q \in Seq(S), NEW k \in 1 .. Len(q)
  PROVE  /\ SubSeq(q, 1, k - 1) \in Seq(S) /\ Len(SubSeq(q, 1, k - 1)) = k - 1
         /\ \A i \in 1 .. k - 1 : SubSeq(q, 1, k - 1)[i] = q[i]
         /\ SubSeq(q, k + 1, Len(q)) \in Seq(S) /\ Len(SubSeq(q, k + 1, Len(q))) = Len(q) - k
         /\ \A i \in 1 .. Len(q) - k : SubSeq(q, k + 1, Len(q))[i] = q[k + i]
<1>1. Len(q) \in Nat /\ k \in Int /\ k - 1 \in Int /\ k + 1 \in Int
  OBVIOUS
<1>2. /\ \A i \in 1 .. k - 1 : q[i] \in S
      /\ \A i \in k + 1 .. Len(q) : q[i] \in S
  OBVIOUS
<1>3. ASSUME NEW a, a = SubSeq(q, 1, k - 1)
      PROVE  a \in Seq(S) /\ Len(a) = k - 1 /\ \A i \in 1 .. k - 1 : a[i] = q[i]
  <2>1. /\ a \in Seq(S) /\ Len(a) = IF 1 <= k - 1 THEN (k - 1) - 1 + 1 ELSE 0
        /\ \A i \in 1 .. (k - 1) - 1 + 1 : a[i] = q[1 + i - 1]
    BY <1>1, <1>2, <1>3, SubSeqProperties
  <2> QED BY <1>1, <2>1
<1>4. ASSUME NEW b, b = SubSeq(q, k + 1, Len(q))
      PROVE  b \in Seq(S) /\ Len(b) = Len(q) - k /\ \A i \in 1 .. Len(q) - k : b[i] = q[k + i]
  <2>1. /\ b \in Seq(S) /\ Len(b) = IF k + 1 <= Len(q) THEN Len(q) - (k + 1) + 1 ELSE 0
        /\ \A i \in 1 .. Len(q) - (k + 1) + 1 : b[i] = q[(k + 1) + i - 1]
    BY <1>1, <1>2, <1>4, SubSeqProperties
  <2>2. \A i \in 1 .. Len(q) - k : i \in 1 .. Len(q) - (k + 1) + 1 /\ (k + 1) + i - 1 = k + i
    BY <1>1
  <2>3. Len(b) = Len(q) - k
    BY <1>1, <2>1
  <2> QED BY <2>1, <2>2, <2>3
<1> QED BY <1>3, <1>4, Zenon

(* The element at position k is removed.                                   *)
LEMMA RemovePosition ==
  ASSUME NEW S, NEW q \in Seq(S), NEW k \in 1 .. Len(q)
  PROVE  /\ RemoveAt(q, k) \in Seq(S) /\ Len(RemoveAt(q, k)) = Len(q) - 1
         /\ \A i \in 1 .. Len(q) - 1 :
              RemoveAt(q, k)[i] = IF i < k THEN q[i] ELSE q[i + 1]
<1>1. Len(q) \in Nat
  OBVIOUS
<1> DEFINE a == SubSeq(q, 1, k - 1)
           b == SubSeq(q, k + 1, Len(q))
           r == a \o b
<1>2. /\ a \in Seq(S) /\ b \in Seq(S) /\ Len(a) = k - 1 /\ Len(b) = Len(q) - k
      /\ \A i \in 1 .. k - 1 : a[i] = q[i]
      /\ \A i \in 1 .. Len(q) - k : b[i] = q[k + i]
  BY Parts, ZenonT(60)
<1>3. RemoveAt(q, k) = r
  BY DEF RemoveAt
<1> HIDE DEF a, b, r
<1>4. /\ r \in Seq(S) /\ Len(r) = Len(q) - 1
      /\ \A i \in 1 .. Len(q) - 1 : r[i] = IF i < k THEN q[i] ELSE q[i + 1]
  <2>1. /\ r \in Seq(S) /\ Len(r) = Len(a) + Len(b)
        /\ \A i \in 1 .. Len(a) + Len(b) : r[i] = IF i <= Len(a) THEN a[i] ELSE b[i - Len(a)]
    BY <1>2, ConcatProperties DEF r
  <2>2. Len(r) = Len(q) - 1 /\ Len(a) + Len(b) = Len(q) - 1
    BY <1>1, <1>2, <2>1
  <2>3. \A i \in 1 .. Len(q) - 1 : r[i] = IF i < k THEN q[i] ELSE q[i + 1]
    <3> TAKE i \in 1 .. Len(q) - 1
    <3>1. r[i] = IF i <= k - 1 THEN a[i] ELSE b[i - (k - 1)]
      BY <1>2, <2>1, <2>2
    <3>2. CASE i < k
      <4>1. i <= k - 1 /\ i \in 1 .. k - 1
        BY <1>1, <3>2
      <4> QED BY <1>2, <3>1, <3>2, <4>1
    <3>3. CASE ~(i < k)
      <4>1. ~(i <= k - 1) /\ i - (k - 1) \in 1 .. Len(q) - k /\ k + (i - (k - 1)) = i + 1
        BY <1>1, <3>3
      <4> QED BY <1>2, <3>1, <3>3, <4>1
    <3> QED BY <3>2, <3>3
  <2> QED BY <2>1, <2>2, <2>3
<1> QED BY <1>3, <1>4

(* What is left has every task but that one, each once.                    *)
LEMMA RemoveLeaves ==
  ASSUME NEW S, NEW q \in Seq(S), IsInjective(q), NEW k \in 1 .. Len(q)
  PROVE  IsInjective(RemoveAt(q, k)) /\ ToSet(RemoveAt(q, k)) = ToSet(q) \ {q[k]}
<1> DEFINE r == RemoveAt(q, k)
<1>0. /\ r \in Seq(S) /\ Len(r) = Len(q) - 1
      /\ \A i \in 1 .. Len(q) - 1 : r[i] = IF i < k THEN q[i] ELSE q[i + 1]
  BY RemovePosition
<1> HIDE DEF r
<1>1. Len(q) \in Nat /\ \A i, j \in 1 .. Len(q) : q[i] = q[j] => i = j
  BY Positions
<1> DEFINE at(i) == IF i < k THEN i ELSE i + 1
<1>2. \A i \in 1 .. Len(r) : r[i] = q[at(i)] /\ at(i) \in 1 .. Len(q) /\ at(i) # k
  BY <1>0, <1>1
<1>3. \A i, j \in 1 .. Len(r) : at(i) = at(j) => i = j
  BY <1>0, <1>1
<1>4. \A j \in 1 .. Len(q) : j # k => \E i \in 1 .. Len(r) : at(i) = j
  <2> TAKE j \in 1 .. Len(q)
  <2> HAVE j # k
  <2>1. CASE j < k
    <3>1. j \in 1 .. Len(r) /\ at(j) = j
      BY <1>0, <1>1, <2>1
    <3> QED BY <3>1
  <2>2. CASE j > k
    <3>1. j - 1 \in 1 .. Len(r) /\ at(j - 1) = j
      BY <1>0, <1>1, <2>2
    <3> QED BY <3>1
  <2> QED BY <1>1, <2>1, <2>2
<1> HIDE DEF at
<1>5. \A i, j \in 1 .. Len(r) : r[i] = r[j] => i = j
  BY <1>1, <1>2, <1>3
<1>6. \A x : x \in ToSet(r) <=> x \in ToSet(q) /\ x # q[k]
  <2> TAKE x
  <2>1. x \in ToSet(r) <=> \E i \in 1 .. Len(r) : x = r[i]
    BY <1>0, Positions
  <2>2. x \in ToSet(q) <=> \E i \in 1 .. Len(q) : x = q[i]
    BY Positions
  <2>3. ASSUME x \in ToSet(r) PROVE x \in ToSet(q) /\ x # q[k]
    <3>1. PICK i \in 1 .. Len(r) : x = r[i]
      BY <2>1, <2>3
    <3>2. x = q[at(i)] /\ at(i) \in 1 .. Len(q) /\ at(i) # k
      BY <1>2, <3>1
    <3> QED BY <1>1, <2>2, <3>2
  <2>4. ASSUME x \in ToSet(q), x # q[k] PROVE x \in ToSet(r)
    <3>1. PICK j \in 1 .. Len(q) : x = q[j]
      BY <2>2, <2>4
    <3>2. PICK i \in 1 .. Len(r) : at(i) = j
      BY <1>4, <2>4, <3>1
    <3> QED BY <1>2, <2>1, <3>1, <3>2
  <2> QED BY <2>3, <2>4
<1>7. IsInjective(r) /\ ToSet(r) = ToSet(q) \ {q[k]}
  BY <1>0, <1>5, <1>6, Positions
<1> QED BY <1>7 DEF r

(* Append, Head and Tail on a queue without repetitions.                   *)
Grown(q, r, t) ==
  /\ Len(r) = Len(q) + 1 /\ r[Len(q) + 1] = t
  /\ \A i \in 1 .. Len(q) : r[i] = q[i]

Shrunk(q, r, h) ==
  /\ Len(r) = Len(q) - 1 /\ h = q[1] /\ 1 \in 1 .. Len(q) /\ Len(q) \in Nat
  /\ \A i \in 1 .. Len(r) : r[i] = q[i + 1] /\ i + 1 \in 1 .. Len(q)

LEMMA PushedLeaves ==
  ASSUME NEW S, NEW q \in Seq(S), IsInjective(q), NEW t \in S, t \notin ToSet(q),
         NEW r \in Seq(S), Grown(q, r, t)
  PROVE  IsInjective(r) /\ ToSet(r) = ToSet(q) \cup {t}
BY PushLeaves DEF Grown

LEMMA AppendGrows ==
  ASSUME NEW S, NEW q \in Seq(S), NEW t \in S, NEW r, r = Append(q, t)
  PROVE  r \in Seq(S) /\ Grown(q, r, t)
BY AppendProperties DEF Grown

LEMMA PopLeaves ==
  ASSUME NEW S, NEW q \in Seq(S), IsInjective(q), NEW h, h = q[1], h \in S,
         NEW r \in Seq(S), Len(r) = Len(q) - 1, 1 \in 1 .. Len(q), Len(q) \in Nat,
         \A i \in 1 .. Len(r) : r[i] = q[i + 1] /\ i + 1 \in 1 .. Len(q)
  PROVE  IsInjective(r) /\ h \in ToSet(q) /\ ToSet(r) = ToSet(q) \ {h}
<1>2. /\ \A i, j \in 1 .. Len(q) : q[i] = q[j] => i = j
      /\ \A x : x \in ToSet(q) <=> \E i \in 1 .. Len(q) : x = q[i]
      /\ \A x : x \in ToSet(r) <=> \E i \in 1 .. Len(r) : x = r[i]
  BY Positions
<1>3. \A i, j \in 1 .. Len(r) : r[i] = r[j] => i = j
  <2> SUFFICES ASSUME NEW i \in 1 .. Len(r), NEW j \in 1 .. Len(r), r[i] = r[j] PROVE i = j
    OBVIOUS
  <2>1. i + 1 = j + 1
    BY <1>2
  <2> QED BY <2>1
<1>4. IsInjective(r)
  BY <1>3, Positions
<1>5. ASSUME NEW x PROVE x \in ToSet(r) <=> x \in ToSet(q) /\ x # h
  <2>1. ASSUME x \in ToSet(r) PROVE x \in ToSet(q) /\ x # h
    <3>1. PICK i \in 1 .. Len(r) : x = r[i]
      BY <1>2, <2>1
    <3>2. x = q[i + 1] /\ i + 1 \in 1 .. Len(q) /\ i + 1 # 1
      BY <3>1
    <3> QED BY <1>2, <3>2
  <2>2. ASSUME x \in ToSet(q), x # h PROVE x \in ToSet(r)
    <3>1. PICK i \in 1 .. Len(q) : x = q[i]
      BY <1>2, <2>2
    <3>2. i - 1 \in 1 .. Len(r) /\ i - 1 + 1 = i
      BY <2>2, <3>1
    <3>3. r[i - 1] = x
      BY <3>1, <3>2
    <3> QED BY <1>2, <3>2, <3>3
  <2> QED BY <2>1, <2>2
<1> QED BY <1>2, <1>4, <1>5

LEMMA PoppedLeaves ==
  ASSUME NEW S, NEW q \in Seq(S), IsInjective(q), NEW h \in S, NEW r \in Seq(S), Shrunk(q, r, h)
  PROVE  IsInjective(r) /\ h \in ToSet(q) /\ ToSet(r) = ToSet(q) \ {h}
BY PopLeaves DEF Shrunk

LEMMA TailShrinks ==
  ASSUME NEW S, NEW q \in Seq(S), q # << >>, NEW h, h = Head(q), NEW r, r = Tail(q)
  PROVE  r \in Seq(S) /\ h \in S /\ Shrunk(q, r, h)
BY Pop DEF Shrunk

-----------------------------------------------------------------------------

(* The invariant of the record, between critical sections.                 *)
RQInv(rq) == RQType(rq) /\ ReadyListOK(rq) /\ CurrentOK(rq)

(* The invariant inside a critical section on CPU c, before resched: the   *)
(* current task may have stopped being Running already.                    *)
MidInv(rq, c) ==
  /\ RQType(rq) /\ ReadyListOK(rq)
  /\ \A e, d \in Cpu : rq.current[e] = rq.current[d] => e = d
  /\ \A t \in Task : rq.state[t] = "Running" => \E d \in Cpu : rq.current[d] = t
  /\ \A d \in Cpu : d # c => rq.state[rq.current[d]] = "Running"
  /\ rq.state[rq.current[c]] \notin {"New", "Ready"}
  /\ \A e, d \in Cpu : rq.current[e] = IdleTask[d] => e = d
  /\ \A d \in Cpu : rq.state[IdleTask[d]] \in {"Running", "Ready"}

(* Replacing fields of the record by values of their types.                *)
LEMMA TypeUpdate ==
  ASSUME NEW rq, RQType(rq),
         NEW s \in [Task -> TaskState], NEW r \in Seq(Task)
  PROVE  RQType([rq EXCEPT !.state = s, !.ready = r])
BY DEF RQType

LEMMA Fields ==
  ASSUME NEW rq, RQType(rq)
  PROVE  /\ rq.state \in [Task -> TaskState] /\ rq.ready \in Seq(Task)
         /\ rq.current \in [Cpu -> Task] /\ rq.queue \in [WQ -> Seq(Task)]
         /\ rq.in_wait_queue \in SUBSET Task
BY DEF RQType

(* The state in which every build starts.                                  *)
LEMMA InitRQInv ==
  ASSUME NEW main \in Task, NEW gc \in Task, main # gc, ~is_idle(main), ~is_idle(gc),
         NEW rq, rq = InitRQ(main, gc)
  PROVE  /\ RQInv(rq) /\ rq.queue = [q \in WQ |-> << >>] /\ rq.in_wait_queue = {}
         /\ rq.current[0] = main /\ rq.state[gc] = "Ready"
         /\ \A t \in Task : rq.state[t] \in {"New", "Ready", "Running"}
         /\ \A t \in Task : t \notin {main, gc} /\ ~is_idle(t) => rq.state[t] = "New"
<1> DEFINE st == [t \in Task |->
                 CASE t = main                             -> "Running"
                   [] t = gc                               -> "Ready"
                   [] t = IdleTask[0]                          -> "Ready"
                   [] \E c \in Cpu \ {0} : t = IdleTask[c]     -> "Running"
                   [] OTHER                                    -> "New" ]
<1>1. /\ rq.state = st /\ rq.ready = << gc >>
      /\ rq.current = [c \in Cpu |-> IF c = 0 THEN main ELSE IdleTask[c]]
      /\ rq.queue = [q \in WQ |-> << >>] /\ rq.in_wait_queue = {}
  BY DEF InitRQ
<1>2. 0 \in Cpu
  BY SMPAssumption DEF Cpu
<1>3. /\ \A c \in Cpu : IdleTask[c] # main /\ IdleTask[c] # gc
      /\ main \in Task /\ gc \in Task /\ main # gc
  BY DEF is_idle
<1>4. \A t \in Task : /\ st[t] \in TaskState
                      /\ st[t] = "Running" <=>
                           t = main \/ \E c \in Cpu \ {0} : t = IdleTask[c]
                      /\ st[t] # "Blocked"
  BY <1>2, <1>3, IdleAssumption DEF TaskState
<1>5. st[gc] = "Ready"
  BY <1>3
<1>6. \A c \in Cpu : st[IdleTask[c]] \in {"Running", "Ready"}
  BY <1>2, <1>3, IdleAssumption
<1> HIDE DEF st
<1>7. RQType(rq)
  <2>1. rq = [state |-> rq.state, ready |-> rq.ready, current |-> rq.current,
              queue |-> rq.queue, in_wait_queue |-> rq.in_wait_queue]
    BY DEF InitRQ
  <2>2. rq.state \in [Task -> TaskState]
    BY <1>1, <1>4 DEF st
  <2>3. rq.ready \in Seq(Task) /\ rq.queue \in [WQ -> Seq(Task)]
    BY <1>1, <1>3
  <2>4. rq.current \in [Cpu -> Task]
    BY <1>1, <1>3, IdleAssumption
  <2>5. rq.in_wait_queue \in SUBSET Task
    BY <1>1
  <2> QED BY <2>1, <2>2, <2>3, <2>4, <2>5 DEF RQType
<1>9. ReadyListOK(rq)
  BY <1>1, <1>3, <1>5 DEF ReadyListOK, is_idle
<1>10. CurrentOK(rq)
  <2>1. \A c, d \in Cpu : rq.current[c] = rq.current[d] => c = d
    BY <1>1, <1>3, IdleAssumption
  <2>2. \A t \in Task : rq.state[t] = "Running" <=> \E c \in Cpu : rq.current[c] = t
    <3>1. \A t \in Task : (\E c \in Cpu : rq.current[c] = t) <=>
                           t = main \/ \E c \in Cpu \ {0} : t = IdleTask[c]
      <4>1. rq.current[0] = main /\ \A c \in Cpu \ {0} : rq.current[c] = IdleTask[c]
        BY <1>1, <1>2
      <4> QED BY <1>2, <4>1
    <3> QED BY <1>1, <1>4, <3>1
  <2>3. \A c, d \in Cpu : rq.current[c] = IdleTask[d] => c = d
    BY <1>1, <1>3, IdleAssumption
  <2> QED BY <1>1, <1>6, <2>1, <2>2, <2>3 DEF CurrentOK
<1>11. rq.current[0] = main
  BY <1>1, <1>2
<1>12. \A t \in Task : t \notin {main, gc} /\ ~is_idle(t) => st[t] = "New"
  BY <1>2 DEF st, is_idle
<1>13. \A t \in Task : rq.state[t] \in {"New", "Ready", "Running"}
  BY <1>1 DEF st
<1> QED BY <1>1, <1>5, <1>7, <1>9, <1>10, <1>11, <1>12, <1>13 DEF RQInv

(* A task that is created (add_task) joins the ready queue.                *)
LEMMA AddTaskInv ==
  ASSUME NEW rq, RQInv(rq), NEW t \in Task, rq.state[t] = "New"
  PROVE  RQInv(add_task(rq, t))
<1> DEFINE r == add_task(rq, t)
<1>1. ~is_idle(t)
  BY IdleAssumption DEF RQInv, CurrentOK, is_idle, RQType
<1>2. RQType(r)
  <2>1. [rq.state EXCEPT ![t] = "Ready"] \in [Task -> TaskState]
    BY Fields DEF RQInv, TaskState
  <2>2. Append(rq.ready, t) \in Seq(Task)
    BY Fields DEF RQInv
  <2> QED BY <2>1, <2>2, TypeUpdate DEF add_task, RQInv
<1>3. /\ r.state = [rq.state EXCEPT ![t] = "Ready"] /\ r.ready = Append(rq.ready, t)
      /\ r.current = rq.current
  BY DEF add_task, RQInv, RQType
<1>4. \A i \in DOMAIN rq.ready : rq.ready[i] # t
  BY DEF RQInv, ReadyListOK
<1>5. ReadyListOK(r)
  BY <1>1, <1>3, <1>4 DEF RQInv, RQType, ReadyListOK
<1>6. CurrentOK(r)
  <2>1. \A u \in Task : r.state[u] = "Running" <=> rq.state[u] = "Running"
    BY <1>3 DEF RQInv, RQType
  <2>2. \A c \in Cpu : r.state[IdleTask[c]] = rq.state[IdleTask[c]]
    BY <1>1, <1>3, IdleAssumption DEF RQInv, RQType, is_idle
  <2> HIDE DEF r
  <2> QED BY <2>1, <2>2, <1>3 DEF RQInv, CurrentOK
<1> QED BY <1>2, <1>5, <1>6 DEF RQInv

(* Waking a task (unblock_task) adds it to the ready queue once.           *)
LEMMA UnblockInv ==
  ASSUME NEW rq, RQInv(rq), NEW t \in Task
  PROVE  RQInv(unblock_task(rq, t))
<1>1. CASE rq.state[t] # "Blocked"
  BY <1>1 DEF unblock_task
<1>2. CASE rq.state[t] = "Blocked"
  <2> DEFINE r == unblock_task(rq, t)
  <2>1. ~is_idle(t)
    BY <1>2, IdleAssumption DEF RQInv, CurrentOK, is_idle, RQType
  <2>2. RQType(r)
    <3>1. [rq.state EXCEPT ![t] = "Ready"] \in [Task -> TaskState]
      BY Fields DEF RQInv, TaskState
    <3>2. Append(rq.ready, t) \in Seq(Task)
      BY Fields DEF RQInv
    <3> QED BY <1>2, <3>1, <3>2, TypeUpdate DEF unblock_task, RQInv
  <2>3. /\ r.state = [rq.state EXCEPT ![t] = "Ready"] /\ r.ready = Append(rq.ready, t)
        /\ r.current = rq.current
    BY <1>2 DEF unblock_task, RQInv, RQType
  <2>4. \A i \in DOMAIN rq.ready : rq.ready[i] # t
    BY <1>2 DEF RQInv, ReadyListOK
  <2>5. ReadyListOK(r)
    BY <2>1, <2>3, <2>4 DEF RQInv, RQType, ReadyListOK
  <2>6. \A u \in Task : r.state[u] = "Running" <=> rq.state[u] = "Running"
    BY <1>2, <2>3 DEF RQInv, RQType
  <2>7. \A c \in Cpu : r.state[IdleTask[c]] = rq.state[IdleTask[c]]
    BY <2>1, <2>3, IdleAssumption DEF RQInv, RQType, is_idle
  <2> HIDE DEF r
  <2>8. CurrentOK(r)
    BY <2>6, <2>7, <2>3 DEF RQInv, CurrentOK
  <2> QED BY <2>2, <2>5, <2>8 DEF RQInv, r
<1> QED BY <1>1, <1>2

(* After put_prev_task no CPU but the others runs a task, and the current  *)
(* task of CPU c, if it was Running, is queued.                            *)
PutInv(rq, c) ==
  /\ RQType(rq) /\ ReadyListOK(rq)
  /\ \A e, d \in Cpu : rq.current[e] = rq.current[d] => e = d
  /\ \A t \in Task : rq.state[t] = "Running" =>
                        \E d \in Cpu \ {c} : rq.current[d] = t
  /\ \A d \in Cpu : d # c => rq.state[rq.current[d]] = "Running"
  /\ \A e, d \in Cpu : rq.current[e] = IdleTask[d] => e = d
  /\ \A d \in Cpu : rq.state[IdleTask[d]] \in {"Running", "Ready"}

LEMMA PutPrevInv ==
  ASSUME NEW rq, NEW c \in Cpu, MidInv(rq, c)
  PROVE  /\ PutInv(put_prev_task(rq, c), c)
         /\ put_prev_task(rq, c).current = rq.current
<1> DEFINE prev == rq.current[c]
           p == put_prev_task(rq, c)
<1>0. /\ rq.state \in [Task -> TaskState] /\ rq.ready \in Seq(Task)
      /\ rq.current \in [Cpu -> Task] /\ prev \in Task
  BY Fields DEF MidInv
<1>1. CASE rq.state[prev] # "Running"
  <2>1. p = rq
    BY <1>1 DEF put_prev_task
  <2>2. \A t \in Task : rq.state[t] = "Running" =>
                           \E d \in Cpu \ {c} : rq.current[d] = t
    BY <1>1 DEF MidInv
  <2>3. PutInv(rq, c)
    BY <2>2 DEF MidInv, PutInv
  <2> QED BY <2>1, <2>3
<1>2. CASE rq.state[prev] = "Running"
  <2> DEFINE s == [rq.state EXCEPT ![prev] = "Ready"]
             q == IF is_idle(prev) THEN rq.ready ELSE Append(rq.ready, prev)
  <2>1. s \in [Task -> TaskState] /\ q \in Seq(Task)
    BY <1>0 DEF TaskState
  <2>2. p = [rq EXCEPT !.state = s, !.ready = q]
    BY <1>2, Zenon DEF put_prev_task
  <2>3. RQType(p)
    <3> HIDE DEF p, s, q
    <3> QED BY <2>1, <2>2, TypeUpdate DEF MidInv
  <2>4. p.state = s /\ p.ready = q /\ p.current = rq.current
    <3> HIDE DEF p, s, q
    <3> QED BY <2>2 DEF RQType, MidInv
  <2>5. \A i \in DOMAIN rq.ready : rq.ready[i] # prev
    BY <1>2 DEF MidInv, ReadyListOK
  <2>6. ReadyListOK(p)
    BY <1>0, <2>4, <2>5 DEF MidInv, ReadyListOK
  <2>7. \A t \in Task : p.state[t] = "Running" <=> rq.state[t] = "Running" /\ t # prev
    BY <1>0, <2>4
  <2>8. \A d \in Cpu : p.state[IdleTask[d]] \in {"Running", "Ready"}
    BY <1>0, <2>4, IdleAssumption DEF MidInv
  <2> HIDE DEF p
  <2>9. \A t \in Task : p.state[t] = "Running" =>
                           \E d \in Cpu \ {c} : p.current[d] = t
    BY <2>4, <2>7 DEF MidInv
  <2>10. \A d \in Cpu : d # c => p.state[p.current[d]] = "Running"
    BY <1>0, <2>4, <2>7 DEF MidInv
  <2>11. /\ \A e, d \in Cpu : p.current[e] = p.current[d] => e = d
         /\ \A e, d \in Cpu : p.current[e] = IdleTask[d] => e = d
    BY <2>4 DEF MidInv
  <2>12. PutInv(p, c)
    BY <2>3, <2>6, <2>8, <2>9, <2>10, <2>11 DEF PutInv
  <2> QED BY <2>4, <2>12 DEF p
<1> QED BY <1>1, <1>2

(* A critical section that ends in resched re-establishes the invariant.   *)
LEMMA ReschedInv ==
  ASSUME NEW rq, NEW c \in Cpu, MidInv(rq, c)
  PROVE  RQInv(resched(rq, c))
<1> DEFINE put  == put_prev_task(rq, c)
           next == IF put.ready # << >> /\ c \in cpu_set
                     THEN Head(put.ready) ELSE IdleTask[c]
           rest == IF put.ready = << >> THEN << >> ELSE Tail(put.ready)
           s == [put.state EXCEPT ![next] = "Running"]
           k == [put.current EXCEPT ![c] = next]
           r == resched(rq, c)
<1>1. PutInv(put, c)
  BY PutPrevInv
<1>2. /\ put.state \in [Task -> TaskState] /\ put.ready \in Seq(Task)
      /\ put.current \in [Cpu -> Task]
  BY <1>1, Fields DEF PutInv
<1>3. r = [put EXCEPT !.ready = rest, !.state[next] = "Running", !.current[c] = next]
  BY DEF resched, switch_to
<1> HIDE DEF put
<1>4. next \in Task /\ put.state[next] = "Ready"
  <2>1. CASE put.ready # << >> /\ c \in cpu_set
    <3>1. next = put.ready[1] /\ 1 \in DOMAIN put.ready
      BY <1>2, <2>1
    <3> QED BY <1>1, <1>2, <3>1 DEF PutInv, ReadyListOK
  <2>2. CASE ~(put.ready # << >> /\ c \in cpu_set)
    <3>1. next = IdleTask[c] /\ next \in Task
      BY <2>2, IdleAssumption
    <3>2. put.state[next] # "Running"
      BY <1>1, <1>2, <3>1 DEF PutInv
    <3> QED BY <1>1, <3>1, <3>2 DEF PutInv
  <2> QED BY <2>1, <2>2
<1>5. rest \in Seq(Task)
  BY <1>2
<1>6. /\ \A i \in DOMAIN rest : rest[i] = put.ready[i + 1] /\ i + 1 \in DOMAIN put.ready
      /\ \A i \in DOMAIN rest : rest[i] # next
  <2>1. \A i \in DOMAIN rest : rest[i] = put.ready[i + 1] /\ i + 1 \in DOMAIN put.ready
    BY <1>2
  <2>2. CASE put.ready # << >> /\ c \in cpu_set
    <3>1. next = put.ready[1] /\ 1 \in DOMAIN put.ready
      BY <1>2, <2>2
    <3> QED BY <1>1, <1>2, <2>1, <3>1 DEF PutInv, ReadyListOK
  <2>3. CASE ~(put.ready # << >> /\ c \in cpu_set)
    <3>1. is_idle(next)
      BY <2>3 DEF is_idle
    <3> QED BY <1>1, <2>1, <3>1 DEF PutInv, ReadyListOK
  <2> QED BY <2>1, <2>2, <2>3
<1>7. s \in [Task -> TaskState] /\ k \in [Cpu -> Task]
  BY <1>2, <1>4 DEF TaskState
<1> HIDE DEF next, rest
<1>8. RQType(r) /\ r.state = s /\ r.ready = rest /\ r.current = k
  <2>1. r = [put EXCEPT !.ready = rest, !.state = s, !.current = k]
    BY <1>3
  <2> HIDE DEF s, k, r
  <2> QED BY <1>1, <1>5, <1>7, <2>1 DEF PutInv, RQType
<1>9. ReadyListOK(r)
  <2>1. \A i, j \in DOMAIN rest : rest[i] = rest[j] => i = j
    <3> SUFFICES ASSUME NEW i \in DOMAIN rest, NEW j \in DOMAIN rest, rest[i] = rest[j]
                 PROVE  i = j
      OBVIOUS
    <3>1. i + 1 = j + 1
      BY <1>6, <1>1 DEF PutInv, ReadyListOK
    <3> QED BY <3>1, <1>5
  <2>2. \A i \in DOMAIN rest : s[rest[i]] = "Ready" /\ ~is_idle(rest[i])
    BY <1>1, <1>2, <1>6 DEF PutInv, ReadyListOK
  <2> HIDE DEF s, k, r
  <2> QED BY <1>8, <2>1, <2>2 DEF ReadyListOK
<1>10. CurrentOK(r)
  <2>1. \A d \in Cpu : d # c => put.current[d] # next
    BY <1>1, <1>2, <1>4 DEF PutInv
  <2>2. \A e, d \in Cpu : k[e] = k[d] => e = d
    BY <1>1, <1>2, <2>1 DEF PutInv
  <2>3. \A t \in Task : s[t] = "Running" <=> \E d \in Cpu : k[d] = t
    BY <1>1, <1>2, <1>4 DEF PutInv
  <2>4. \A e, d \in Cpu : k[e] = IdleTask[d] => e = d
    <3>1. \A d \in Cpu : next = IdleTask[d] => d = c
      <4>1. CASE put.ready # << >> /\ c \in cpu_set
        <5>1. next = put.ready[1] /\ 1 \in DOMAIN put.ready
          BY <1>2, <4>1 DEF next
        <5> QED BY <1>1, <5>1, ZenonT(60) DEF PutInv, ReadyListOK, is_idle
      <4>2. CASE ~(put.ready # << >> /\ c \in cpu_set)
        BY <4>2, IdleAssumption DEF next
      <4> QED BY <4>1, <4>2
    <3> QED BY <1>1, <1>2, <3>1 DEF PutInv
  <2>5. \A d \in Cpu : s[IdleTask[d]] \in {"Running", "Ready"}
    BY <1>1, <1>2, IdleAssumption DEF PutInv
  <2> HIDE DEF s, k, r
  <2> QED BY <1>8, <2>2, <2>3, <2>4, <2>5 DEF CurrentOK
<1> QED BY <1>8, <1>9, <1>10 DEF RQInv

-----------------------------------------------------------------------------
(* What the operations do to the fields the other modules rely on.         *)

Runnable == {"Ready", "Running"}

(* resched only moves tasks between Ready and Running.                     *)
SameButRunning(s, r) ==
  \A t \in Task : r[t] = s[t] \/ (r[t] \in Runnable /\ s[t] \in Runnable)

LEMMA ReschedEffect ==
  ASSUME NEW rq, NEW c \in Cpu, MidInv(rq, c)
  PROVE  /\ resched(rq, c).queue = rq.queue
         /\ resched(rq, c).in_wait_queue = rq.in_wait_queue
         /\ SameButRunning(rq.state, resched(rq, c).state)
<1> DEFINE put  == put_prev_task(rq, c)
           next == IF put.ready # << >> /\ c \in cpu_set
                     THEN Head(put.ready) ELSE IdleTask[c]
           rest == IF put.ready = << >> THEN << >> ELSE Tail(put.ready)
           r == resched(rq, c)
<1>1. PutInv(put, c)
  BY PutPrevInv
<1>2. /\ put.state \in [Task -> TaskState] /\ put.ready \in Seq(Task)
      /\ rq.state \in [Task -> TaskState] /\ rq.current[c] \in Task
  BY <1>1, Fields DEF PutInv, MidInv
<1>3. /\ put.queue = rq.queue /\ put.in_wait_queue = rq.in_wait_queue
      /\ SameButRunning(rq.state, put.state)
  <2>1. CASE rq.state[rq.current[c]] # "Running"
    BY <2>1 DEF put_prev_task, SameButRunning
  <2>2. CASE rq.state[rq.current[c]] = "Running"
    <3> DEFINE s == [rq.state EXCEPT ![rq.current[c]] = "Ready"]
               q == IF is_idle(rq.current[c]) THEN rq.ready
                    ELSE Append(rq.ready, rq.current[c])
    <3>1. put = [rq EXCEPT !.state = s, !.ready = q]
      BY <2>2, Zenon DEF put_prev_task
    <3>2. \A t \in Task : s[t] = rq.state[t] \/ (s[t] = "Ready" /\ rq.state[t] = "Running")
      BY <1>2, <2>2
    <3> HIDE DEF s, q, put
    <3>3. put.queue = rq.queue /\ put.in_wait_queue = rq.in_wait_queue /\ put.state = s
      BY <3>1 DEF MidInv, RQType
    <3> QED BY <3>2, <3>3 DEF SameButRunning, Runnable
  <2> QED BY <2>1, <2>2
<1>4. r = [put EXCEPT !.ready = rest, !.state[next] = "Running", !.current[c] = next]
  BY DEF resched, switch_to
<1> HIDE DEF put
<1>5. next \in Task /\ put.state[next] \in Runnable
  <2>1. CASE put.ready # << >> /\ c \in cpu_set
    <3>1. next = put.ready[1] /\ 1 \in DOMAIN put.ready
      BY <1>2, <2>1
    <3> QED BY <1>1, <1>2, <3>1 DEF PutInv, ReadyListOK, Runnable
  <2>2. CASE ~(put.ready # << >> /\ c \in cpu_set)
    BY <1>1, <2>2, IdleAssumption DEF PutInv, Runnable
  <2> QED BY <2>1, <2>2
<1> HIDE DEF next, rest
<1>6. /\ r.queue = put.queue /\ r.in_wait_queue = put.in_wait_queue
      /\ r.state = [put.state EXCEPT ![next] = "Running"]
  <2> HIDE DEF r
  <2> QED BY <1>1, <1>4 DEF PutInv, RQType
<1>7. SameButRunning(put.state, r.state)
  <2> HIDE DEF r
  <2> QED BY <1>2, <1>5, <1>6 DEF SameButRunning, Runnable
<1>8. SameButRunning(rq.state, r.state)
  BY <1>3, <1>7 DEF SameButRunning
<1> QED BY <1>3, <1>6, <1>8

(* yield_now.                                                              *)
LEMMA YieldStep ==
  ASSUME NEW rq, RQInv(rq), NEW c \in Cpu
  PROVE  /\ RQInv(yield_current(rq, c))
         /\ yield_current(rq, c).queue = rq.queue
         /\ yield_current(rq, c).in_wait_queue = rq.in_wait_queue
         /\ SameButRunning(rq.state, yield_current(rq, c).state)
<1>1. MidInv(rq, c)
  BY Fields DEF RQInv, CurrentOK, MidInv
<1> QED BY <1>1, ReschedInv, ReschedEffect DEF yield_current

(* Task t is flagged and last in queue q; the other queues are unchanged.  *)
Enqueued(rq, r, q, t) ==
  /\ r.queue = [rq.queue EXCEPT ![q] = Append(@, t)]
  /\ r.in_wait_queue = rq.in_wait_queue \cup {t}

(* block_current with its closure: the task is Blocked, flagged and last   *)
(* in the queue.                                                           *)
LEMMA BlockStep ==
  ASSUME NEW rq, RQInv(rq), NEW c \in Cpu, NEW q \in WQ, ~is_idle(rq.current[c])
  PROVE  /\ RQInv(block_current(rq, c, q))
         /\ Enqueued(rq, block_current(rq, c, q), q, rq.current[c])
         /\ SameButRunning([rq.state EXCEPT ![rq.current[c]] = "Blocked"],
                           block_current(rq, c, q).state)
         /\ rq.state[rq.current[c]] = "Running" /\ rq.current[c] \in Task
<1> DEFINE t == rq.current[c]
           s == [rq.state EXCEPT ![t] = "Blocked"]
           w == rq.in_wait_queue \cup {t}
           u == [rq.queue EXCEPT ![q] = Append(@, t)]
           b == [rq EXCEPT !.state = s, !.in_wait_queue = w, !.queue = u]
<1>1. /\ rq.state \in [Task -> TaskState] /\ rq.ready \in Seq(Task)
      /\ rq.current \in [Cpu -> Task] /\ rq.queue \in [WQ -> Seq(Task)]
      /\ rq.in_wait_queue \in SUBSET Task
  BY Fields DEF RQInv
<1>2. t \in Task /\ rq.state[t] = "Running"
  BY <1>1 DEF RQInv, CurrentOK
<1>3. s \in [Task -> TaskState] /\ w \in SUBSET Task /\ u \in [WQ -> Seq(Task)]
  BY <1>1, <1>2 DEF TaskState
<1>4. block_current(rq, c, q) = resched(b, c)
  BY DEF block_current
<1>5. RQType(b)
  <2> HIDE DEF s, w, u
  <2> QED BY <1>3 DEF RQInv, RQType
<1>6. /\ b.state = s /\ b.in_wait_queue = w /\ b.queue = u
      /\ b.ready = rq.ready /\ b.current = rq.current
  <2> HIDE DEF s, w, u
  <2> QED BY DEF RQInv, RQType
<1>7. MidInv(b, c)
  <2>1. ReadyListOK(b)
    <3> HIDE DEF b
    <3> QED BY <1>1, <1>2, <1>6 DEF RQInv, ReadyListOK
  <2>2. \A x \in Task : b.state[x] = "Running" => \E d \in Cpu : b.current[d] = x
    <3> HIDE DEF b
    <3> QED BY <1>1, <1>6 DEF RQInv, CurrentOK
  <2>3. \A d \in Cpu : d # c => b.state[b.current[d]] = "Running"
    <3> HIDE DEF b
    <3> QED BY <1>1, <1>2, <1>6 DEF RQInv, CurrentOK
  <2>4. b.state[b.current[c]] = "Blocked"
    <3> HIDE DEF b
    <3> QED BY <1>1, <1>2, <1>6
  <2>5. \A d \in Cpu : b.state[IdleTask[d]] \in {"Running", "Ready"}
    <3> HIDE DEF b
    <3> QED BY <1>1, <1>2, <1>6, IdleAssumption DEF RQInv, CurrentOK, is_idle
  <2>6. /\ \A e, d \in Cpu : b.current[e] = b.current[d] => e = d
        /\ \A e, d \in Cpu : b.current[e] = IdleTask[d] => e = d
    <3> HIDE DEF b
    <3> QED BY <1>6 DEF RQInv, CurrentOK
  <2> HIDE DEF b
  <2> QED BY <1>5, <2>1, <2>2, <2>3, <2>4, <2>5, <2>6 DEF MidInv
<1>8. RQInv(resched(b, c))
  BY <1>7, ReschedInv
<1>9. /\ resched(b, c).queue = b.queue /\ resched(b, c).in_wait_queue = b.in_wait_queue
      /\ SameButRunning(b.state, resched(b, c).state)
  BY <1>7, ReschedEffect
<1> HIDE DEF b
<1> QED BY <1>2, <1>4, <1>6, <1>8, <1>9 DEF Enqueued

LEMMA AddTaskEffect ==
  ASSUME NEW rq, RQType(rq), NEW t \in Task
  PROVE  /\ add_task(rq, t).state = [rq.state EXCEPT ![t] = "Ready"]
         /\ add_task(rq, t).queue = rq.queue
         /\ add_task(rq, t).in_wait_queue = rq.in_wait_queue
BY DEF add_task, RQType

LEMMA UnblockEffect ==
  ASSUME NEW rq, RQType(rq), NEW t \in Task
  PROVE  /\ unblock_task(rq, t).state =
                IF rq.state[t] = "Blocked"
                  THEN [rq.state EXCEPT ![t] = "Ready"] ELSE rq.state
         /\ unblock_task(rq, t).queue = rq.queue
         /\ unblock_task(rq, t).in_wait_queue = rq.in_wait_queue
<1>1. CASE rq.state[t] # "Blocked"
  <2>1. unblock_task(rq, t) = rq
    BY <1>1 DEF unblock_task
  <2> QED BY <1>1, <2>1
<1>2. CASE rq.state[t] = "Blocked"
  <2> DEFINE s == [rq.state EXCEPT ![t] = "Ready"]
             r == [rq EXCEPT !.state = s, !.ready = Append(rq.ready, t)]
  <2>1. unblock_task(rq, t) = r
    BY <1>2, Zenon DEF unblock_task
  <2>2. r.state = s /\ r.queue = rq.queue /\ r.in_wait_queue = rq.in_wait_queue
    <3> HIDE DEF s
    <3> QED BY DEF RQType
  <2> HIDE DEF r
  <2> QED BY <1>2, <2>1, <2>2
<1> QED BY <1>1, <1>2

(* Wait queues and flags play no part in the run queue's own invariant.    *)
LEMMA SameRunQueue ==
  ASSUME NEW rq, RQInv(rq), NEW r, RQType(r),
         r.state = rq.state, r.ready = rq.ready, r.current = rq.current
  PROVE  RQInv(r)
BY DEF RQInv, ReadyListOK, CurrentOK

(* notify_one wakes the head of a queue that has one.                      *)
LEMMA NotifyOneStep ==
  ASSUME NEW rq, RQInv(rq), NEW q \in WQ, rq.queue[q] # << >>
  PROVE  /\ RQInv(notify_one_locked(rq, q)) /\ Head(rq.queue[q]) \in Task
         /\ notify_one_locked(rq, q).queue = [rq.queue EXCEPT ![q] = Tail(@)]
         /\ notify_one_locked(rq, q).in_wait_queue =
              rq.in_wait_queue \ {Head(rq.queue[q])}
         /\ notify_one_locked(rq, q).state =
              IF rq.state[Head(rq.queue[q])] = "Blocked"
                THEN [rq.state EXCEPT ![Head(rq.queue[q])] = "Ready"] ELSE rq.state
<1> DEFINE t == Head(rq.queue[q])
           u == [rq.queue EXCEPT ![q] = Tail(@)]
           w == rq.in_wait_queue \ {t}
           b == [rq EXCEPT !.queue = u, !.in_wait_queue = w]
<1>1. rq.queue \in [WQ -> Seq(Task)] /\ rq.in_wait_queue \in SUBSET Task
  BY Fields DEF RQInv
<1>2. t \in Task /\ u \in [WQ -> Seq(Task)] /\ w \in SUBSET Task
  BY <1>1
<1>3. notify_one_locked(rq, q) = unblock_task(b, t)
  <2>1. remove_from_wait_queue([rq EXCEPT !.queue[q] = Tail(@)], t) = b
    BY DEF remove_from_wait_queue, RQInv, RQType
  <2> QED BY <2>1, Zenon DEF notify_one_locked
<1> HIDE DEF t, u, w
<1>4. RQInv(b) /\ b.queue = u /\ b.in_wait_queue = w /\ b.state = rq.state
  <2>1. RQType(b) /\ b.queue = u /\ b.in_wait_queue = w
    BY <1>2 DEF RQInv, RQType
  <2>2. b.state = rq.state /\ b.ready = rq.ready /\ b.current = rq.current
    BY DEF RQInv, RQType
  <2> HIDE DEF b
  <2> QED BY <2>1, <2>2, SameRunQueue
<1> HIDE DEF b
<1>5. /\ RQInv(unblock_task(b, t))
      /\ unblock_task(b, t).queue = u /\ unblock_task(b, t).in_wait_queue = w
      /\ unblock_task(b, t).state = IF rq.state[t] = "Blocked"
                            THEN [rq.state EXCEPT ![t] = "Ready"] ELSE rq.state
  <2>1. RQInv(unblock_task(b, t))
    BY <1>2, <1>4, UnblockInv
  <2>2. RQType(b)
    BY <1>4 DEF RQInv
  <2>3. /\ unblock_task(b, t).state =
                IF b.state[t] = "Blocked"
                  THEN [b.state EXCEPT ![t] = "Ready"] ELSE b.state
        /\ unblock_task(b, t).queue = b.queue
        /\ unblock_task(b, t).in_wait_queue = b.in_wait_queue
    BY <1>2, <2>2, UnblockEffect, Zenon
  <2> QED BY <1>4, <2>1, <2>3, Zenon
<1> QED BY <1>2, <1>3, <1>5 DEF t, u, w

-----------------------------------------------------------------------------
(* Inside a critical section.                                              *)

LEMMA SameMid ==
  ASSUME NEW rq, NEW c \in Cpu, MidInv(rq, c), NEW r, RQType(r),
         r.state = rq.state, r.ready = rq.ready, r.current = rq.current
  PROVE  MidInv(r, c)
BY DEF MidInv, ReadyListOK

(* The current task has stopped being schedulable.                         *)
LEMMA StopMid ==
  ASSUME NEW rq, RQInv(rq), NEW c \in Cpu, ~is_idle(rq.current[c]),
         NEW st \in {"Blocked", "Exited"}, NEW b, RQType(b),
         b.state = [rq.state EXCEPT ![rq.current[c]] = st],
         b.ready = rq.ready, b.current = rq.current
  PROVE  MidInv(b, c)
<1>1. /\ rq.state \in [Task -> TaskState] /\ rq.ready \in Seq(Task)
      /\ rq.current \in [Cpu -> Task]
  BY Fields DEF RQInv
<1>2. rq.current[c] \in Task /\ rq.state[rq.current[c]] = "Running"
  BY <1>1 DEF RQInv, CurrentOK
<1>3. ReadyListOK(b)
  BY <1>1, <1>2 DEF RQInv, ReadyListOK
<1>4. \A x \in Task : b.state[x] = "Running" => \E d \in Cpu : b.current[d] = x
  BY <1>1 DEF RQInv, CurrentOK
<1>5. \A d \in Cpu : d # c => b.state[b.current[d]] = "Running"
  BY <1>1, <1>2 DEF RQInv, CurrentOK
<1>6. b.state[b.current[c]] = st
  BY <1>1, <1>2
<1>7. \A d \in Cpu : b.state[IdleTask[d]] \in {"Running", "Ready"}
  BY <1>1, <1>2, IdleAssumption DEF RQInv, CurrentOK, is_idle
<1>8. /\ \A e, d \in Cpu : b.current[e] = b.current[d] => e = d
      /\ \A e, d \in Cpu : b.current[e] = IdleTask[d] => e = d
  BY DEF RQInv, CurrentOK
<1> QED BY <1>3, <1>4, <1>5, <1>6, <1>7, <1>8 DEF MidInv

(* unblock_task of a task that is not the stopped one.                     *)
LEMMA UnblockMid ==
  ASSUME NEW rq, NEW c \in Cpu, MidInv(rq, c), NEW t \in Task, t # rq.current[c]
  PROVE  MidInv(unblock_task(rq, t), c) /\ unblock_task(rq, t).current = rq.current
<1>1. CASE rq.state[t] # "Blocked"
  BY <1>1 DEF unblock_task
<1>2. CASE rq.state[t] = "Blocked"
  <2> DEFINE r == unblock_task(rq, t)
  <2>1. ~is_idle(t)
    BY <1>2, IdleAssumption DEF MidInv, is_idle, RQType
  <2>2. RQType(r)
    <3>1. [rq.state EXCEPT ![t] = "Ready"] \in [Task -> TaskState]
      BY Fields DEF MidInv, TaskState
    <3>2. Append(rq.ready, t) \in Seq(Task)
      BY Fields DEF MidInv
    <3> QED BY <1>2, <3>1, <3>2, TypeUpdate DEF unblock_task, MidInv
  <2>3. /\ r.state = [rq.state EXCEPT ![t] = "Ready"] /\ r.ready = Append(rq.ready, t)
        /\ r.current = rq.current
    BY <1>2 DEF unblock_task, MidInv, RQType
  <2>4. \A i \in DOMAIN rq.ready : rq.ready[i] # t
    BY <1>2 DEF MidInv, ReadyListOK
  <2>5. ReadyListOK(r)
    BY <2>1, <2>3, <2>4 DEF MidInv, RQType, ReadyListOK
  <2>6. \A u \in Task : u # t => r.state[u] = rq.state[u]
    BY <2>3 DEF MidInv, RQType
  <2>7. r.state[t] = "Ready"
    BY <2>3 DEF MidInv, RQType
  <2>8. \A d \in Cpu : rq.current[d] \in Task /\ rq.current[d] # t
    BY <1>2 DEF MidInv, RQType
  <2>9. \A d \in Cpu : IdleTask[d] \in Task /\ IdleTask[d] # t
    BY <2>1, IdleAssumption DEF is_idle
  <2> HIDE DEF r
  <2>10. MidInv(r, c)
    BY <2>2, <2>3, <2>5, <2>6, <2>7, <2>8, <2>9 DEF MidInv
  <2> QED BY <2>3, <2>10 DEF r
<1> QED BY <1>1, <1>2

(* What is left when the head of a wait queue is taken out.                *)
LEMMA PopWaiter ==
  ASSUME NEW rq, RQType(rq), NEW q \in WQ, rq.queue[q] # << >>
  PROVE  \E b : /\ RQType(b) /\ b.state = rq.state /\ b.ready = rq.ready
                /\ b.current = rq.current
                /\ b.queue = [rq.queue EXCEPT ![q] = Tail(@)]
                /\ b.in_wait_queue = rq.in_wait_queue \ {Head(rq.queue[q])}
                /\ notify_one_locked(rq, q) = unblock_task(b, Head(rq.queue[q]))
                /\ Head(rq.queue[q]) \in Task
<1> DEFINE t == Head(rq.queue[q])
           u == [rq.queue EXCEPT ![q] = Tail(@)]
           w == rq.in_wait_queue \ {t}
           b == [rq EXCEPT !.queue = u, !.in_wait_queue = w]
<1>1. rq.queue \in [WQ -> Seq(Task)] /\ rq.in_wait_queue \in SUBSET Task
  BY Fields
<1>2. t \in Task /\ u \in [WQ -> Seq(Task)] /\ w \in SUBSET Task
  BY <1>1
<1>3. notify_one_locked(rq, q) = unblock_task(b, t)
  <2>1. remove_from_wait_queue([rq EXCEPT !.queue[q] = Tail(@)], t) = b
    BY DEF remove_from_wait_queue, RQType
  <2> QED BY <2>1, Zenon DEF notify_one_locked
<1> HIDE DEF t, u, w
<1>4. RQType(b) /\ b.queue = u /\ b.in_wait_queue = w
  BY <1>2 DEF RQType
<1>5. b.state = rq.state /\ b.ready = rq.ready /\ b.current = rq.current
  BY DEF RQType
<1> HIDE DEF b
<1>6. /\ RQType(b) /\ b.state = rq.state /\ b.ready = rq.ready /\ b.current = rq.current
      /\ b.queue = u /\ b.in_wait_queue = w
      /\ notify_one_locked(rq, q) = unblock_task(b, t) /\ t \in Task
  BY <1>2, <1>3, <1>4, <1>5
<1> QED BY <1>6 DEF t, u, w

(* The state of the tasks after the head t of a queue is woken, if it is   *)
(* asleep.                                                                 *)
Woken(s, t) == IF s[t] = "Blocked" THEN [s EXCEPT ![t] = "Ready"] ELSE s

LEMMA UnblockWoken ==
  ASSUME NEW rq, RQType(rq), NEW t \in Task
  PROVE  /\ unblock_task(rq, t).state = Woken(rq.state, t)
         /\ unblock_task(rq, t).queue = rq.queue
         /\ unblock_task(rq, t).in_wait_queue = rq.in_wait_queue
BY UnblockEffect DEF Woken

(* exit_current, up to the switch: the current task t is Exited, the first *)
(* of the tasks that wait in q is woken, and another task runs.            *)
Ended(rq, t) == [rq EXCEPT !.state[t] = "Exited"]

EndedStates(rq, t) == [rq.state EXCEPT ![t] = "Exited"]

AfterExit(rq, c, q) == resched(notify_one_locked(Ended(rq, rq.current[c]), q), c)

LEMMA EndedMid ==
  ASSUME NEW rq, RQInv(rq), NEW c \in Cpu, NEW t, t = rq.current[c], ~is_idle(t),
         NEW b, b = Ended(rq, t)
  PROVE  /\ t \in Task /\ rq.state[t] = "Running" /\ MidInv(b, c) /\ RQType(b)
         /\ b.state = [rq.state EXCEPT ![t] = "Exited"] /\ b.queue = rq.queue
         /\ b.in_wait_queue = rq.in_wait_queue /\ b.current = rq.current
<1> DEFINE s == [rq.state EXCEPT ![t] = "Exited"]
<1>1. /\ rq.state \in [Task -> TaskState] /\ rq.ready \in Seq(Task)
      /\ rq.current \in [Cpu -> Task] /\ rq.queue \in [WQ -> Seq(Task)]
      /\ rq.in_wait_queue \in SUBSET Task
  BY Fields DEF RQInv
<1>2. t \in Task /\ rq.state[t] = "Running"
  BY <1>1 DEF RQInv, CurrentOK
<1>3. s \in [Task -> TaskState]
  BY <1>1, <1>2 DEF TaskState
<1>4. b = [rq EXCEPT !.state = s]
  BY DEF Ended
<1>5. /\ RQType(b) /\ b.state = s /\ b.ready = rq.ready /\ b.current = rq.current
      /\ b.queue = rq.queue /\ b.in_wait_queue = rq.in_wait_queue
  <2> HIDE DEF s
  <2> QED BY <1>3, <1>4 DEF RQInv, RQType
<1>6. MidInv(b, c)
  BY <1>5, StopMid
<1> QED BY <1>2, <1>5, <1>6

(* Nobody waits.                                                           *)
LEMMA ExitAlone ==
  ASSUME NEW rq, RQInv(rq), NEW c \in Cpu, NEW q \in WQ, NEW t, t = rq.current[c], ~is_idle(t),
         rq.queue[q] = << >>, NEW r, r = AfterExit(rq, c, q)
  PROVE  /\ RQInv(r) /\ r.queue = rq.queue /\ r.in_wait_queue = rq.in_wait_queue
         /\ SameButRunning(EndedStates(rq, t), r.state)
<1> DEFINE b == Ended(rq, t)
<1> HIDE DEF b
<1>1. /\ MidInv(b, c) /\ b.state = EndedStates(rq, t) /\ b.queue = rq.queue
      /\ b.in_wait_queue = rq.in_wait_queue
  BY EndedMid DEF b, EndedStates
<1>2. notify_one_locked(b, q) = b
  BY <1>1 DEF notify_one_locked
<1>3. r = resched(b, c)
  BY <1>2 DEF AfterExit, b
<1>4. /\ RQInv(r) /\ r.queue = b.queue /\ r.in_wait_queue = b.in_wait_queue
      /\ SameButRunning(b.state, r.state)
  BY <1>1, <1>3, ReschedInv, ReschedEffect
<1> QED BY <1>1, <1>4

(* Somebody waits.                                                         *)
LEMMA ExitWaking ==
  ASSUME NEW rq, RQInv(rq), NEW c \in Cpu, NEW q \in WQ, NEW t, t = rq.current[c], ~is_idle(t),
         rq.queue[q] # << >>, NEW h, h = Head(rq.queue[q]), h # t, NEW r, r = AfterExit(rq, c, q)
  PROVE  /\ RQInv(r) /\ r.queue[q] = Tail(rq.queue[q])
         /\ r.in_wait_queue = rq.in_wait_queue \ {h}
         /\ SameButRunning(Woken(EndedStates(rq, t), h), r.state)
<1> DEFINE b == Ended(rq, t)
           s == EndedStates(rq, t)
<1> HIDE DEF b, s
<1>1. /\ MidInv(b, c) /\ RQType(b) /\ b.state = s /\ b.queue = rq.queue
      /\ b.in_wait_queue = rq.in_wait_queue /\ b.current = rq.current
  BY EndedMid DEF b, EndedStates, s
<1>2. PICK e : /\ RQType(e) /\ e.state = b.state /\ e.ready = b.ready
               /\ e.current = b.current
               /\ e.queue = [b.queue EXCEPT ![q] = Tail(@)]
               /\ e.in_wait_queue = b.in_wait_queue \ {Head(b.queue[q])}
               /\ notify_one_locked(b, q) = unblock_task(e, Head(b.queue[q]))
               /\ Head(b.queue[q]) \in Task
  BY <1>1, PopWaiter, ZenonT(60)
<1>3. h \in Task /\ h # e.current[c] /\ notify_one_locked(b, q) = unblock_task(e, h)
  BY <1>1, <1>2
<1>4. MidInv(e, c)
  BY <1>1, <1>2, SameMid
<1>5. MidInv(unblock_task(e, h), c)
  BY <1>3, <1>4, UnblockMid
<1>6. /\ unblock_task(e, h).state = Woken(s, h)
      /\ unblock_task(e, h).queue = e.queue
      /\ unblock_task(e, h).in_wait_queue = e.in_wait_queue
  <2>1. e.state = s
    BY <1>1, <1>2
  <2> QED BY <1>2, <1>3, <2>1, UnblockWoken, Zenon
<1>7. r = resched(unblock_task(e, h), c)
  BY <1>3 DEF AfterExit, b
<1>8. /\ RQInv(r) /\ r.queue = e.queue /\ r.in_wait_queue = e.in_wait_queue
      /\ SameButRunning(Woken(s, h), r.state)
  BY <1>5, <1>6, <1>7, ReschedInv, ReschedEffect
<1>9. r.queue[q] = Tail(rq.queue[q]) /\ r.in_wait_queue = rq.in_wait_queue \ {h}
  <2>1. r.queue = [rq.queue EXCEPT ![q] = Tail(@)] /\ r.in_wait_queue = rq.in_wait_queue \ {h}
    BY <1>1, <1>2, <1>8
  <2>2. q \in DOMAIN rq.queue
    BY Fields DEF RQInv
  <2> QED BY <2>1, <2>2
<1> QED BY <1>8, <1>9 DEF s
=============================================================================

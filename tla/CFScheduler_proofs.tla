------------------------- MODULE CFScheduler_proofs -------------------------
(* The completely fair scheduler, for any tasks, priorities and bounds: it *)
(* keeps the promise of the trait, remove_task finds what it is given, a   *)
(* task that lags is noticed, and run time is never given back.            *)
EXTENDS CFScheduler, SequencesExt, SequenceTheorems, FiniteSetTheorems,
        WellFoundedInduction, TLAPS

-----------------------------------------------------------------------------
(* Numbers.                                                                *)

(* A set of numbers that is not empty has a least one.                     *)
LEMMA Least ==
  ASSUME NEW T, T \subseteq Nat, T # {}
  PROVE  \E x \in T : \A y \in T : x <= y
<1>1. PICK x \in T : \A y \in T : ~ (<< y, x >> \in OpToRel(<, Nat))
  BY NatLessThanWellFounded, WFMin
<1>2. \A y \in T : ~ (y < x)
  BY <1>1 DEF OpToRel
<1> QED BY <1>2

-----------------------------------------------------------------------------

(* Arithmetic.                                                             *)
LEMMA DivNat ==
  ASSUME NEW a \in Nat, NEW b \in Nat \ {0}
  PROVE  a \div b \in Nat
OBVIOUS

LEMMA DivMonotone ==
  ASSUME NEW a \in Nat, NEW c \in Nat, a <= c, NEW b \in Nat \ {0}
  PROVE  a \div b <= c \div b
OBVIOUS

LEMMA ZeroDiv ==
  ASSUME NEW b \in Nat \ {0}
  PROVE  0 \div b = 0
OBVIOUS

LEMMA Weight ==
  ASSUME NEW m \in -20 .. 19
  PROVE  get_weight(m) \in Nat \ {0}
<1>1. CASE m >= 0
  BY <1>1 DEF get_weight, NICE2WEIGHT_POS
<1>2. CASE m < 0
  BY <1>2 DEF get_weight, NICE2WEIGHT_NEG
<1> QED BY <1>1, <1>2

LEMMA LeastKey ==
  ASSUME NEW D, D \subseteq Nat \X Nat, D # {}
  PROVE  \E k \in D : \A l \in D : Precedes(k, l)
<1> DEFINE A == {k[1] : k \in D}
<1>1. A \subseteq Nat /\ A # {}
  OBVIOUS
<1>2. PICK x \in A : \A y \in A : x <= y
  <2> HIDE DEF A
  <2> QED BY <1>1, Least
<1> DEFINE B == {k[2] : k \in {l \in D : l[1] = x}}
<1>3. B \subseteq Nat /\ B # {}
  OBVIOUS
<1>4. PICK z \in B : \A y \in B : z <= y
  <2> HIDE DEF B
  <2> QED BY <1>3, Least
<1>5. PICK k \in D : k[1] = x /\ k[2] = z
  OBVIOUS
<1>6. \A l \in D : l[1] \in A /\ (l[1] = x => l[2] \in B)
  OBVIOUS
<1> HIDE DEF A, B
<1>7. \A l \in D : l[1] \in Nat /\ l[2] \in Nat /\ x <= l[1] /\ (l[1] = x => z <= l[2])
  BY <1>2, <1>4, <1>6
<1>8. \A l \in D : Precedes(k, l)
  BY <1>5, <1>7 DEF Precedes
<1> QED BY <1>8

(* first_key: a map that is not empty has a first key.                     *)
LEMMA FirstKey ==
  ASSUME NEW q, DOMAIN q \subseteq Nat \X Nat, DOMAIN q # {}
  PROVE  /\ first_key(q) \in DOMAIN q
         /\ \A l \in DOMAIN q : first_key(q)[1] <= l[1]
<1>1. \E k \in DOMAIN q : \A l \in DOMAIN q : Precedes(k, l)
  BY LeastKey
<1>2. /\ first_key(q) \in DOMAIN q
      /\ \A l \in DOMAIN q : Precedes(first_key(q), l)
  BY <1>1, Zenon DEF first_key
<1>3. first_key(q)[1] \in Nat /\ \A l \in DOMAIN q : l[1] \in Nat
  BY <1>2
<1> QED BY <1>2, <1>3 DEF Precedes

-----------------------------------------------------------------------------
(* The inductive invariant.                                                *)

Types ==
  /\ id_pool \in Nat /\ id \in [Task -> Nat]
  /\ init_vruntime \in [Task -> Nat] /\ delta \in [Task -> Nat] /\ nice \in [Task -> -20 .. 19]
  /\ current \in Task \cup {Idle} /\ carried \subseteq Task /\ runnable \subseteq Task
  /\ min_vruntime = {} \/ \E v \in Nat : min_vruntime = {v}

(* Each task is stored under its own id, and ids below i have been drawn:  *)
(* no two keys of the map collide.                                         *)
MapOK(q, i, ids) ==
  /\ DOMAIN q \subseteq Nat \X Nat
  /\ \A k \in DOMAIN q : q[k] \in Task /\ k[2] = ids[q[k]] /\ k[2] < i
  /\ \A k, l \in DOMAIN q : k[2] = l[2] => k = l

(* The tasks stored in a map.                                              *)
Values(q) == {q[k] : k \in DOMAIN q}

(* The runnable tasks are the current one and those in the map.            *)
Holds ==
  /\ Values(ready_queue) = runnable \ {current}
  /\ current # Idle => current \in runnable

(* A key is the task's virtual run time, or below it when add_task has     *)
(* left out ticks of an earlier stay.                                      *)
Keys ==
  \A k \in DOMAIN ready_queue :
    /\ k[1] <= get_vruntime(ready_queue[k])
    /\ ready_queue[k] \in carried \/ k[1] = get_vruntime(ready_queue[k])

(* Until a task is removed, min_vruntime bounds the keys and the current   *)
(* task from below, although pick_next_task does not refresh it.           *)
Lag ==
  ~removed => \A v \in min_vruntime :
    /\ \A k \in DOMAIN ready_queue : v <= k[1]
    /\ current # Idle => v <= get_vruntime(current)

IInv == Types /\ MapOK(ready_queue, id_pool, id) /\ Holds /\ Keys /\ Lag

-----------------------------------------------------------------------------
(* Virtual run times.                                                      *)

Run(start, ticks, m) ==
  start + (IF m = 0 THEN ticks ELSE (ticks * 1024) \div get_weight(m))

LEMMA RunFacts ==
  ASSUME NEW start \in Nat, NEW ticks \in Nat, NEW m \in -20 .. 19
  PROVE  /\ Run(start, ticks, m) \in Nat /\ start <= Run(start, ticks, m)
         /\ ticks = 0 => Run(start, ticks, m) = start
         /\ Run(start, ticks + 1, m) \in Nat
         /\ Run(start, ticks, m) <= Run(start, ticks + 1, m)
<1> DEFINE w == get_weight(m)
           a == ticks * 1024
           b == (ticks + 1) * 1024
<1>2. w \in Nat \ {0}
  BY Weight
<1>3. a \in Nat /\ b \in Nat /\ a <= b /\ (ticks = 0 => a = 0)
  OBVIOUS
<1>4. a \div w \in Nat /\ b \div w \in Nat /\ a \div w <= b \div w /\ 0 \div w = 0
  <2> HIDE DEF a, b, w
  <2> QED BY <1>2, <1>3, DivNat, DivMonotone, ZeroDiv
<1>5. ticks = 0 => a \div w = 0
  <2> HIDE DEF a, w
  <2> QED BY <1>3, <1>4
<1> DEFINE x == a \div w
           y == b \div w
<1>7. x \in Nat /\ y \in Nat /\ x <= y /\ (ticks = 0 => x = 0)
  BY <1>4, <1>5
<1>8. /\ Run(start, ticks, m) = start + IF m = 0 THEN ticks ELSE x
      /\ Run(start, ticks + 1, m) = start + IF m = 0 THEN ticks + 1 ELSE y
  BY DEF Run
<1> HIDE DEF x, y
<1> QED BY <1>7, <1>8

LEMMA Vruntime ==
  ASSUME Types, NEW t \in Task
  PROVE  /\ get_vruntime(t) \in Nat /\ init_vruntime[t] <= get_vruntime(t)
         /\ delta[t] = 0 => get_vruntime(t) = init_vruntime[t]
         /\ VruntimeAfter(t, delta[t] + 1) \in Nat
         /\ get_vruntime(t) <= VruntimeAfter(t, delta[t] + 1)
<1>1. init_vruntime[t] \in Nat /\ delta[t] \in Nat /\ nice[t] \in -20 .. 19
  BY DEF Types
<1>2. /\ get_vruntime(t) = Run(init_vruntime[t], delta[t], nice[t])
      /\ VruntimeAfter(t, delta[t] + 1) = Run(init_vruntime[t], delta[t] + 1, nice[t])
  BY DEF get_vruntime, VruntimeAfter, Run
<1> QED BY <1>1, <1>2, RunFacts

LEMMA VruntimeNext ==
  ASSUME Types', NEW t \in Task
  PROVE  /\ get_vruntime(t)' \in Nat /\ init_vruntime'[t] <= get_vruntime(t)'
         /\ delta'[t] = 0 => get_vruntime(t)' = init_vruntime'[t]
<1>1. init_vruntime'[t] \in Nat /\ delta'[t] \in Nat /\ nice'[t] \in -20 .. 19
  BY DEF Types
<1>2. get_vruntime(t)' = Run(init_vruntime'[t], delta'[t], nice'[t])
  BY DEF get_vruntime, VruntimeAfter, Run
<1> QED BY <1>1, <1>2, RunFacts

(* The fields of t have not changed.                                       *)
LEMMA SameVruntime ==
  ASSUME NEW t, init_vruntime'[t] = init_vruntime[t], delta'[t] = delta[t], nice'[t] = nice[t]
  PROVE  get_vruntime(t)' = get_vruntime(t)
BY DEF get_vruntime, VruntimeAfter

-----------------------------------------------------------------------------
(* The map.                                                                *)

(* A task under a new id.                                                  *)
Redrawn(ids, t, i) == [ids EXCEPT ![t] = i]

(* r is q with t stored under the next id, i.                              *)
Stored(r, q, v, i, t) == r = insert(q, << v, i >>, t)

LEMMA InsertNew ==
  ASSUME NEW q, NEW i \in Nat, NEW ids \in [Task -> Nat], MapOK(q, i, ids),
         NEW t \in Task, t \notin Values(q), NEW v \in Nat, NEW r, Stored(r, q, v, i, t)
  PROVE  /\ MapOK(r, i + 1, Redrawn(ids, t, i)) /\ Values(r) = Values(q) \cup {t}
         /\ DOMAIN r = DOMAIN q \cup {<< v, i >>} /\ r[<< v, i >>] = t
         /\ \A k \in DOMAIN q : r[k] = q[k]
<1> DEFINE key == << v, i >>
           jds == Redrawn(ids, t, i)
<1>1. /\ DOMAIN r = DOMAIN q \cup {key} /\ r[key] = t
      /\ \A k \in DOMAIN q : k # key => r[k] = q[k]
  BY DEF insert, Stored
<1>2. \A k \in DOMAIN q : k[2] # i /\ k # key /\ k[2] \in Nat /\ k[2] < i
  BY DEF MapOK
<1>3. \A k \in DOMAIN q : r[k] = q[k] /\ q[k] # t
  BY <1>1, <1>2 DEF Values
<1>4. Values(r) = Values(q) \cup {t}
  BY <1>1, <1>3 DEF Values
<1>5. key \in Nat \X Nat /\ key[2] = i /\ jds[t] = i /\ \A u \in Task : u # t => jds[u] = ids[u]
  BY DEF Redrawn
<1> HIDE DEF key, jds
<1>6. DOMAIN r \subseteq Nat \X Nat
  BY <1>1, <1>5 DEF MapOK
<1>7. \A k \in DOMAIN r : r[k] \in Task /\ k[2] = jds[r[k]] /\ k[2] < i + 1
  BY <1>1, <1>2, <1>3, <1>5 DEF MapOK
<1>8. \A k, l \in DOMAIN r : k[2] = l[2] => k = l
  BY <1>1, <1>2, <1>5 DEF MapOK
<1>9. MapOK(r, i + 1, jds)
  BY <1>6, <1>7, <1>8 DEF MapOK
<1> QED BY <1>1, <1>3, <1>4, <1>9 DEF key, jds

(* An entry is taken out.                                                  *)
LEMMA TakeOut ==
  ASSUME NEW q, NEW i, NEW ids, MapOK(q, i, ids), NEW key \in DOMAIN q,
         NEW r, r = Without(q, key)
  PROVE  MapOK(r, i, ids) /\ Values(r) = Values(q) \ {q[key]}
<1>1. DOMAIN r = DOMAIN q \ {key} /\ \A k \in DOMAIN r : r[k] = q[k]
  BY DEF Without
<1>2. \A k \in DOMAIN q : q[k] = q[key] => k = key
  BY DEF MapOK
<1>3. MapOK(r, i, ids)
  BY <1>1 DEF MapOK
<1>4. Values(r) = Values(q) \ {q[key]}
  BY <1>1, <1>2 DEF Values
<1> QED BY <1>3, <1>4

(* pick_next_task takes a task with the smallest key, if there is one.     *)
LEMMA Pick ==
  ASSUME NEW q, NEW i, NEW ids, MapOK(q, i, ids), pick_next_task(q)
  PROVE  /\ MapOK(ready_queue', i, ids) /\ Values(ready_queue') = Values(q) \ {current'}
         /\ DOMAIN ready_queue' \subseteq DOMAIN q
         /\ \A k \in DOMAIN ready_queue' : ready_queue'[k] = q[k]
         /\ IF Values(q) = {} THEN current' = Idle
            ELSE \E f \in DOMAIN q : q[f] = current'
<1>1. DOMAIN q \subseteq Nat \X Nat
  BY DEF MapOK
<1>2. CASE DOMAIN q = {}
  <2>1. ready_queue' = q /\ current' = Idle /\ Values(q) = {}
    BY <1>2 DEF pick_next_task, Values
  <2> QED BY <1>2, <2>1
<1>3. CASE DOMAIN q # {}
  <2> DEFINE f == first_key(q)
  <2>1. f \in DOMAIN q
    BY <1>1, <1>3, FirstKey
  <2>2. ready_queue' = Without(q, f) /\ current' = q[f]
    BY <1>3 DEF pick_next_task
  <2> HIDE DEF f
  <2>3. MapOK(ready_queue', i, ids) /\ Values(ready_queue') = Values(q) \ {current'}
    BY <2>1, <2>2, TakeOut
  <2>4. /\ DOMAIN ready_queue' \subseteq DOMAIN q
        /\ \A k \in DOMAIN ready_queue' : ready_queue'[k] = q[k]
    BY <2>2 DEF Without
  <2> QED BY <2>1, <2>2, <2>3, <2>4 DEF Values
<1> QED BY <1>2, <1>3

(* MinOf of a map that is not empty is the smallest key.                   *)
LEMMA MinOfMap ==
  ASSUME NEW q, DOMAIN q \subseteq Nat \X Nat, DOMAIN q # {}
  PROVE  \E v \in Nat : MinOf(q) = {v} /\ \A k \in DOMAIN q : v <= k[1]
<1>1. first_key(q) \in DOMAIN q /\ \A l \in DOMAIN q : first_key(q)[1] <= l[1]
  BY FirstKey
<1>2. MinOf(q) = {first_key(q)[1]} /\ first_key(q)[1] \in Nat
  BY <1>1 DEF MinOf
<1> QED BY <1>1, <1>2

-----------------------------------------------------------------------------
(* Every step preserves the invariant.                                     *)

LEMMA InitInv == Init => IInv
<1> SUFFICES ASSUME Init PROVE IInv
  OBVIOUS
<1>1. DOMAIN ready_queue = {}
  BY DEF Init
<1>2. Types
  BY DEF Init, Types
<1>3. MapOK(ready_queue, id_pool, id) /\ Keys
  BY <1>1 DEF MapOK, Keys
<1>4. Holds
  BY <1>1 DEF Init, Holds, Values
<1>5. Lag
  BY DEF Init, Lag
<1> QED BY <1>2, <1>3, <1>4, <1>5 DEF IInv

(* A task in the map, and its key.                                         *)
LEMMA InMap ==
  ASSUME IInv, NEW k \in DOMAIN ready_queue
  PROVE  /\ ready_queue[k] \in Task /\ ready_queue[k] # current /\ ready_queue[k] \in runnable
         /\ k[1] \in Nat /\ k[2] = id[ready_queue[k]] /\ get_vruntime(ready_queue[k]) \in Nat
<1>1. ready_queue[k] \in Task /\ k[2] = id[ready_queue[k]] /\ k[1] \in Nat
  BY DEF IInv, MapOK
<1>2. ready_queue[k] \in Values(ready_queue)
  BY DEF Values
<1> QED BY <1>1, <1>2, Vruntime DEF IInv, Holds

LEMMA CurrentFacts ==
  ASSUME IInv, current # Idle
  PROVE  current \in Task /\ get_vruntime(current) \in Nat /\ current \notin Values(ready_queue)
BY Vruntime DEF IInv, Types, Holds

(* The virtual run time a new task starts at.                              *)
StartAt == IF min_vruntime = {} THEN 0 ELSE CHOOSE v \in min_vruntime : TRUE

LEMMA StartFacts ==
  ASSUME Types
  PROVE  StartAt \in Nat /\ (min_vruntime # {} => min_vruntime = {StartAt})
BY DEF Types, StartAt

(* Keys and Lag after a step, with the tasks named.                        *)
LEMMA KeysAfter ==
  ASSUME \A k \in DOMAIN ready_queue', u \in Task : u = ready_queue'[k] =>
           k[1] <= get_vruntime(u)' /\ (u \in carried' \/ k[1] = get_vruntime(u)'),
         \A k \in DOMAIN ready_queue' : ready_queue'[k] \in Task
  PROVE  Keys'
BY DEF Keys, get_vruntime, VruntimeAfter

LEMMA LagAfter ==
  ASSUME ~removed' => \A v \in min_vruntime' :
           /\ \A k \in DOMAIN ready_queue' : v <= k[1]
           /\ \A u \in Task : u = current' => v <= get_vruntime(u)',
         current' \in Task \cup {Idle}
  PROVE  Lag'
BY DEF Lag, get_vruntime, VruntimeAfter

LEMMA AddInv == ASSUME IInv, NEW t \in Task, add_task(t) PROVE IInv'
<1> DEFINE v == StartAt
           key == << v, id_pool >>
<1>1. /\ t \notin runnable /\ runnable' = runnable \cup {t} /\ id_pool' = id_pool + 1
      /\ init_vruntime' = [init_vruntime EXCEPT ![t] = v] /\ id' = [id EXCEPT ![t] = id_pool]
      /\ ready_queue' = insert(ready_queue, key, t) /\ min_vruntime' = MinOf(ready_queue')
      /\ carried' = IF delta[t] # 0 THEN carried \cup {t} ELSE carried \ {t}
      /\ UNCHANGED << delta, nice, current, pending, removed >>
  BY DEF add_task, StartAt
<1>2. v \in Nat /\ (min_vruntime # {} => min_vruntime = {v})
  BY StartFacts DEF IInv
<1> HIDE DEF v
<1>3. /\ id_pool \in Nat /\ id \in [Task -> Nat] /\ init_vruntime \in [Task -> Nat]
      /\ MapOK(ready_queue, id_pool, id) /\ t \notin Values(ready_queue)
  BY <1>1 DEF IInv, Types, Holds
<1>4. /\ MapOK(ready_queue', id_pool', id') /\ Values(ready_queue') = Values(ready_queue) \cup {t}
      /\ DOMAIN ready_queue' = DOMAIN ready_queue \cup {key} /\ ready_queue'[key] = t
      /\ \A k \in DOMAIN ready_queue : ready_queue'[k] = ready_queue[k]
  <2>1. id' = Redrawn(id, t, id_pool) /\ id_pool' = id_pool + 1
    BY <1>1 DEF Redrawn
  <2>2. Stored(ready_queue', ready_queue, v, id_pool, t)
    BY <1>1 DEF Stored
  <2> QED BY <1>2, <1>3, <2>1, <2>2, InsertNew, SMTT(60)
<1>5. PICK m \in Nat : min_vruntime' = {m} /\ \A k \in DOMAIN ready_queue' : m <= k[1]
  <2>1. DOMAIN ready_queue' \subseteq Nat \X Nat /\ DOMAIN ready_queue' # {}
    BY <1>4 DEF MapOK
  <2> QED BY <1>1, <2>1, MinOfMap
<1>6. Types'
  <2>1. init_vruntime' \in [Task -> Nat] /\ id' \in [Task -> Nat]
    BY <1>1, <1>2, <1>3
  <2>2. carried' \subseteq Task /\ runnable' \subseteq Task
    BY <1>1 DEF IInv, Types
  <2> QED BY <1>1, <1>3, <1>5, <2>1, <2>2 DEF IInv, Types
<1>7. current # t
  BY <1>1, IdleOutside DEF IInv, Holds
<1>8. Holds'
  BY <1>1, <1>4, <1>7 DEF IInv, Holds
<1>9. \A u \in Task : u # t => get_vruntime(u)' = get_vruntime(u)
  BY <1>1, <1>3, SameVruntime
<1>10. init_vruntime'[t] = v /\ delta'[t] = delta[t]
  BY <1>1, <1>3
<1>11. v <= get_vruntime(t)' /\ (t \in carried' \/ v = get_vruntime(t)')
  <2>1. /\ get_vruntime(t)' \in Nat /\ init_vruntime'[t] <= get_vruntime(t)'
        /\ delta'[t] = 0 => get_vruntime(t)' = init_vruntime'[t]
    BY <1>6, VruntimeNext
  <2> QED BY <1>1, <1>10, <2>1
<1>12. Keys'
  <2>0. \A k \in DOMAIN ready_queue' : ready_queue'[k] \in Task
    BY <1>4 DEF MapOK
  <2> SUFFICES ASSUME NEW k \in DOMAIN ready_queue', NEW u \in Task, u = ready_queue'[k]
               PROVE  /\ k[1] <= get_vruntime(u)'
                      /\ u \in carried' \/ k[1] = get_vruntime(u)'
    BY <2>0, KeysAfter
  <2>1. CASE k = key
    BY <1>4, <1>11, <2>1
  <2>2. CASE k # key
    <3>1. k \in DOMAIN ready_queue /\ u = ready_queue[k]
      BY <1>4, <2>2
    <3>2. u # t
      BY <1>1, <3>1, InMap
    <3>3. k[1] <= get_vruntime(u) /\ (u \in carried \/ k[1] = get_vruntime(u))
      BY <3>1 DEF IInv, Keys
    <3> QED BY <1>1, <1>9, <3>2, <3>3
  <2> QED BY <2>1, <2>2
<1>13. Lag'
  <2> SUFFICES ASSUME ~removed, NEW u \in Task, u = current PROVE m <= get_vruntime(u)'
    BY <1>1, <1>5, LagAfter DEF IInv, Types
  <2>1. m <= v
    BY <1>4, <1>5
  <2>2. get_vruntime(u) \in Nat /\ get_vruntime(u)' = get_vruntime(u) /\ u # Idle
    BY <1>7, <1>9, Vruntime, IdleOutside DEF IInv
  <2>3. v <= get_vruntime(u)
    <3>1. CASE min_vruntime = {}
      BY <2>2, <3>1 DEF v, StartAt
    <3>2. CASE min_vruntime # {}
      BY <1>2, <2>2, <3>2 DEF IInv, Lag
    <3> QED BY <3>1, <3>2
  <2> QED BY <1>2, <2>1, <2>2, <2>3
<1> QED BY <1>4, <1>6, <1>8, <1>12, <1>13 DEF IInv

(* The task remove_task is given is the one under the key it computes.     *)
LEMMA RemovedIsGiven ==
  ASSUME IInv, NEW t \in Task, NEW v, << v, id[t] >> \in DOMAIN ready_queue, t \in Queued
  PROVE  ready_queue[<< v, id[t] >>] = t
<1>1. PICK k \in DOMAIN ready_queue : ready_queue[k] = t
  BY DEF Queued
<1>2. k[2] = id[t]
  BY <1>1 DEF IInv, MapOK
<1>3. k = << v, id[t] >>
  BY <1>2 DEF IInv, MapOK
<1> QED BY <1>1, <1>3

LEMMA RemoveInv == ASSUME IInv, NEW t \in Task, remove_task(t) PROVE IInv'
<1> DEFINE key == << get_vruntime(t), id[t] >>
<1>1. /\ t \in Queued /\ ready_queue' = Without(ready_queue, key)
      /\ min_vruntime' = IF key \in DOMAIN ready_queue THEN MinOf(ready_queue') ELSE min_vruntime
      /\ runnable' = IF key \in DOMAIN ready_queue THEN runnable \ {t} ELSE runnable
      /\ removed' = (removed \/ key \in DOMAIN ready_queue)
  BY DEF remove_task
<1>2. UNCHANGED << id_pool, cfs, current, pending, carried >>
  BY DEF remove_task
<1>3. key \in DOMAIN ready_queue => ready_queue[key] = t
  <2> HIDE DEF key
  <2> SUFFICES ASSUME key \in DOMAIN ready_queue PROVE ready_queue[key] = t
    OBVIOUS
  <2> QED BY <1>1, RemovedIsGiven DEF key
<1> HIDE DEF key
<1>4. DOMAIN ready_queue' = DOMAIN ready_queue \ {key}
  BY <1>1 DEF Without
<1>5. \A k \in DOMAIN ready_queue' : ready_queue'[k] = ready_queue[k]
  BY <1>1 DEF Without
<1>6. /\ MapOK(ready_queue', id_pool, id)
      /\ Values(ready_queue') = IF key \in DOMAIN ready_queue THEN Values(ready_queue) \ {t}
                                                              ELSE Values(ready_queue)
  <2>1. CASE key \in DOMAIN ready_queue
    BY <1>1, <1>3, <2>1, TakeOut DEF IInv
  <2>2. CASE key \notin DOMAIN ready_queue
    <3>1. DOMAIN ready_queue' = DOMAIN ready_queue
      BY <1>4, <2>2
    <3>2. Values(ready_queue') = Values(ready_queue)
      BY <1>5, <3>1 DEF Values
    <3>3. MapOK(ready_queue', id_pool, id)
      BY <1>5, <3>1 DEF IInv, MapOK
    <3> QED BY <2>2, <3>2, <3>3
  <2> QED BY <2>1, <2>2
<1>7. min_vruntime' = {} \/ \E v \in Nat : min_vruntime' = {v}
  <2>1. CASE key \in DOMAIN ready_queue /\ DOMAIN ready_queue' # {}
    <3>1. DOMAIN ready_queue' \subseteq Nat \X Nat
      BY <1>6 DEF MapOK
    <3>2. min_vruntime' = MinOf(ready_queue')
      BY <1>1, <2>1
    <3> QED BY <2>1, <3>1, <3>2, MinOfMap
  <2>2. CASE key \in DOMAIN ready_queue /\ DOMAIN ready_queue' = {}
    BY <1>1, <2>2 DEF MinOf
  <2>3. CASE key \notin DOMAIN ready_queue
    BY <1>1, <2>3 DEF IInv, Types
  <2> QED BY <2>1, <2>2, <2>3
<1>8. runnable' \subseteq Task
  BY <1>1 DEF IInv, Types
<1>9. Types'
  BY <1>2, <1>7, <1>8 DEF IInv, Types, cfs
<1>10. t \in runnable /\ t # current
  BY <1>1 DEF IInv, Holds, Queued, Values
<1>11. Holds'
  BY <1>1, <1>2, <1>6, <1>10 DEF IInv, Holds
<1>12. \A u : get_vruntime(u)' = get_vruntime(u)
  BY <1>2 DEF cfs, get_vruntime, VruntimeAfter
<1>13. Keys'
  <2>1. \A k \in DOMAIN ready_queue' : ready_queue'[k] \in Task
    BY <1>6 DEF MapOK
  <2> SUFFICES ASSUME NEW k \in DOMAIN ready_queue', NEW u \in Task, u = ready_queue'[k]
               PROVE  k[1] <= get_vruntime(u)' /\ (u \in carried' \/ k[1] = get_vruntime(u)')
    BY <2>1, KeysAfter
  <2>2. k \in DOMAIN ready_queue /\ u = ready_queue[k]
    BY <1>4, <1>5
  <2>3. k[1] <= get_vruntime(u) /\ (u \in carried \/ k[1] = get_vruntime(u))
    BY <2>2 DEF IInv, Keys
  <2> QED BY <1>2, <1>12, <2>3
<1>14. Lag'
  <2> SUFFICES ASSUME ~removed'
               PROVE \A v \in min_vruntime' : /\ \A k \in DOMAIN ready_queue' : v <= k[1]
                                              /\ \A u \in Task : u = current' => v <= get_vruntime(u)'
    BY <1>9, LagAfter DEF Types
  <2>1. ~removed /\ min_vruntime' = min_vruntime
    BY <1>1
  <2> QED BY <1>2, <1>4, <1>12, <2>1, IdleOutside DEF IInv, Lag
<1>15. MapOK(ready_queue', id_pool', id')
  BY <1>2, <1>6 DEF cfs
<1> QED BY <1>9, <1>11, <1>13, <1>14, <1>15 DEF IInv

(* What the trait asks of pick_next_task.                                  *)
Picked == IF runnable' = {} THEN current' = Idle ELSE current' \in runnable'

(* The current task is the picked one: Keys and Lag carry over.            *)
LEMMA PickInv ==
  ASSUME IInv, NEW q, NEW i, NEW ids, MapOK(q, i, ids), pick_next_task(q), id_pool' = i, id' = ids,
         id_pool' \in Nat, id' \in [Task -> Nat], Values(q) = runnable',
         carried' \subseteq Task, runnable' \subseteq Task,
         \A k \in DOMAIN q, u \in Task : u = q[k] =>
           k[1] <= get_vruntime(u) /\ (u \in carried' \/ k[1] = get_vruntime(u)),
         ~removed => \A k \in DOMAIN q : \A v \in min_vruntime : v <= k[1],
         UNCHANGED << min_vruntime, init_vruntime, delta, nice, removed >>
  PROVE  IInv' /\ Picked
<1>1. /\ MapOK(ready_queue', i, ids) /\ Values(ready_queue') = Values(q) \ {current'}
      /\ DOMAIN ready_queue' \subseteq DOMAIN q
      /\ \A k \in DOMAIN ready_queue' : ready_queue'[k] = q[k]
      /\ IF Values(q) = {} THEN current' = Idle
         ELSE \E f \in DOMAIN q : q[f] = current'
  BY Pick
<1>2. \A k \in DOMAIN q : q[k] \in Task /\ q[k] \in Values(q)
  BY DEF MapOK, Values
<1>3. current' \in Task \cup {Idle} /\ (current' # Idle => current' \in runnable')
  BY <1>1, <1>2
<1>4. Types'
  BY <1>3 DEF IInv, Types
<1>5. Holds'
  BY <1>1, <1>3 DEF Holds
<1>6. \A u : get_vruntime(u)' = get_vruntime(u)
  BY DEF get_vruntime, VruntimeAfter
<1>7. Keys'
  <2>1. \A k \in DOMAIN ready_queue' : ready_queue'[k] \in Task
    BY <1>1, <1>2
  <2> SUFFICES ASSUME NEW k \in DOMAIN ready_queue', NEW u \in Task, u = ready_queue'[k]
               PROVE  k[1] <= get_vruntime(u)' /\ (u \in carried' \/ k[1] = get_vruntime(u)')
    BY <2>1, KeysAfter
  <2>2. k \in DOMAIN q /\ u = q[k]
    BY <1>1
  <2> QED BY <1>6, <2>2
<1>8. Lag'
  <2> SUFFICES ASSUME ~removed, NEW v \in min_vruntime
               PROVE /\ \A k \in DOMAIN ready_queue' : v <= k[1]
                     /\ \A u \in Task : u = current' => v <= get_vruntime(u)'
    BY <1>3, LagAfter
  <2>1. \A k \in DOMAIN ready_queue' : v <= k[1]
    BY <1>1
  <2>2. ASSUME NEW u \in Task, u = current' PROVE v <= get_vruntime(u)'
    <3>1. PICK f \in DOMAIN q : q[f] = u
      BY <1>1, <2>2, IdleOutside
    <3>2. v <= f[1] /\ f[1] <= get_vruntime(u)
      BY <3>1
    <3>3. v \in Nat /\ f[1] \in Nat /\ get_vruntime(u) \in Nat
      BY Vruntime DEF IInv, Types, MapOK
    <3> QED BY <1>6, <3>2, <3>3
  <2> QED BY <2>1, <2>2
<1>9. Picked
  BY <1>1, <1>2 DEF Picked
<1> QED BY <1>1, <1>4, <1>5, <1>7, <1>8, <1>9 DEF IInv

LEMMA ReschedInv == ASSUME IInv, yield_current PROVE IInv' /\ Picked
<1>1. Switch /\ carried' = carried \ {current}
  BY DEF yield_current, resched
<1>2. UNCHANGED << min_vruntime, init_vruntime, delta, nice, runnable, removed >>
  BY DEF yield_current, resched
<1>3. carried' \subseteq Task /\ runnable' \subseteq Task
  BY <1>1, <1>2 DEF IInv, Types
<1>4. \A k \in DOMAIN ready_queue, u \in Task : u = ready_queue[k] =>
        k[1] <= get_vruntime(u) /\ (u \in carried' \/ k[1] = get_vruntime(u))
  <2> SUFFICES ASSUME NEW k \in DOMAIN ready_queue, NEW u \in Task, u = ready_queue[k]
               PROVE  k[1] <= get_vruntime(u) /\ (u \in carried' \/ k[1] = get_vruntime(u))
    OBVIOUS
  <2>1. u # current
    BY InMap
  <2>2. k[1] <= get_vruntime(u) /\ (u \in carried \/ k[1] = get_vruntime(u))
    BY DEF IInv, Keys
  <2> QED BY <1>1, <2>1, <2>2
<1>5. ~removed => \A k \in DOMAIN ready_queue : \A v \in min_vruntime : v <= k[1]
  BY DEF IInv, Lag
<1>6. CASE current = Idle /\ pick_next_task(ready_queue) /\ UNCHANGED << id_pool, id >>
  <2>1. Values(ready_queue) = runnable'
    BY <1>2, <1>6, IdleOutside DEF IInv, Holds, Types
  <2>2. id_pool' = id_pool /\ id' = id /\ id_pool' \in Nat /\ id' \in [Task -> Nat]
    BY <1>6 DEF IInv, Types
  <2>3. MapOK(ready_queue, id_pool, id)
    BY DEF IInv
  <2> QED BY <1>2, <1>3, <1>4, <1>5, <1>6, <2>1, <2>2, <2>3, PickInv
<1>7. CASE /\ current # Idle /\ id_pool < MaxId /\ id_pool' = id_pool + 1
           /\ id' = [id EXCEPT ![current] = id_pool]
           /\ pick_next_task(put_prev_task(current))
  <2> DEFINE q == put_prev_task(current)
             v == get_vruntime(current)
             key == << v, id_pool >>
  <2>1. Stored(q, ready_queue, v, id_pool, current)
    BY DEF Stored, put_prev_task
  <2>2. current \in Task /\ v \in Nat /\ current \notin Values(ready_queue)
    BY <1>7, CurrentFacts
  <2>3. id_pool \in Nat /\ id \in [Task -> Nat] /\ MapOK(ready_queue, id_pool, id)
    BY DEF IInv, Types
  <2>4. pick_next_task(q)
    BY <1>7
  <2> HIDE DEF q, v
  <2>5. id' = Redrawn(id, current, id_pool) /\ id_pool' = id_pool + 1
    BY <1>7 DEF Redrawn
  <2>6. /\ MapOK(q, id_pool + 1, Redrawn(id, current, id_pool))
        /\ Values(q) = Values(ready_queue) \cup {current}
        /\ DOMAIN q = DOMAIN ready_queue \cup {key} /\ q[key] = current
        /\ \A k \in DOMAIN ready_queue : q[k] = ready_queue[k]
    BY <2>1, <2>2, <2>3, InsertNew, SMTT(60)
  <2>7. MapOK(q, id_pool', id')
    BY <2>5, <2>6
  <2>8. id_pool' \in Nat /\ id' \in [Task -> Nat]
    BY <1>7, <2>2, <2>3
  <2>9. Values(q) = runnable'
    BY <1>2, <1>7, <2>6 DEF IInv, Holds
  <2>10. key[1] = v
    OBVIOUS
  <2> HIDE DEF key
  <2>11. \A k \in DOMAIN q, u \in Task : u = q[k] =>
           k[1] <= get_vruntime(u) /\ (u \in carried' \/ k[1] = get_vruntime(u))
    <3> SUFFICES ASSUME NEW k \in DOMAIN q, NEW u \in Task, u = q[k]
                 PROVE  k[1] <= get_vruntime(u) /\ (u \in carried' \/ k[1] = get_vruntime(u))
      OBVIOUS
    <3>1. CASE k = key
      BY <2>2, <2>6, <2>10, <3>1 DEF v
    <3>2. CASE k \in DOMAIN ready_queue
      BY <1>4, <2>6, <3>2
    <3> QED BY <2>6, <3>1, <3>2
  <2>12. ~removed => \A k \in DOMAIN q : \A w \in min_vruntime : w <= k[1]
    BY <1>5, <1>7, <2>6, <2>10 DEF IInv, Lag, v
  <2> QED BY <1>2, <1>3, <2>4, <2>7, <2>8, <2>9, <2>11, <2>12, PickInv
<1> QED BY <1>1, <1>6, <1>7 DEF Switch

LEMMA LeaveInv == ASSUME IInv, leave_current PROVE IInv' /\ Picked
<1>1. /\ current # Idle /\ runnable' = runnable \ {current} /\ pick_next_task(ready_queue)
      /\ UNCHANGED << min_vruntime, id_pool, cfs, carried, removed >>
  BY DEF leave_current
<1>2. UNCHANGED << min_vruntime, init_vruntime, delta, nice, removed >>
  BY <1>1 DEF cfs
<1>3. /\ id_pool' = id_pool /\ id' = id /\ id_pool' \in Nat /\ id' \in [Task -> Nat]
      /\ carried' \subseteq Task /\ runnable' \subseteq Task
  BY <1>1 DEF IInv, Types, cfs
<1>4. Values(ready_queue) = runnable' /\ MapOK(ready_queue, id_pool, id)
  BY <1>1 DEF IInv, Holds
<1>5. \A k \in DOMAIN ready_queue, u \in Task : u = ready_queue[k] =>
        k[1] <= get_vruntime(u) /\ (u \in carried' \/ k[1] = get_vruntime(u))
  BY <1>1 DEF IInv, Keys
<1>6. ~removed => \A k \in DOMAIN ready_queue : \A v \in min_vruntime : v <= k[1]
  BY DEF IInv, Lag
<1> QED BY <1>1, <1>2, <1>3, <1>4, <1>5, <1>6, PickInv

(* A step of the current task alone, after which it has had no less run    *)
(* time.                                                                   *)
LEMMA RunsOnInv ==
  ASSUME IInv, current # Idle, Types',
         UNCHANGED << ready_queue, min_vruntime, id_pool, id, current, runnable, carried, removed >>,
         \A u \in Task : u # current => get_vruntime(u)' = get_vruntime(u),
         \A u \in Task : u = current => get_vruntime(u) <= get_vruntime(u)'
  PROVE  IInv'
<1>1. MapOK(ready_queue', id_pool', id') /\ Holds'
  BY DEF IInv, Holds
<1>2. Keys'
  <2>1. \A k \in DOMAIN ready_queue' : ready_queue'[k] \in Task
    BY DEF IInv, MapOK
  <2> SUFFICES ASSUME NEW k \in DOMAIN ready_queue', NEW u \in Task, u = ready_queue'[k]
               PROVE  k[1] <= get_vruntime(u)' /\ (u \in carried' \/ k[1] = get_vruntime(u)')
    BY <2>1, KeysAfter
  <2>2. k \in DOMAIN ready_queue /\ u = ready_queue[k]
    OBVIOUS
  <2>3. u # current
    BY <2>2, InMap
  <2>4. k[1] <= get_vruntime(u) /\ (u \in carried \/ k[1] = get_vruntime(u))
    BY <2>2 DEF IInv, Keys
  <2> QED BY <2>3, <2>4
<1>3. Lag'
  <2> SUFFICES ASSUME ~removed, NEW v \in min_vruntime
               PROVE /\ \A k \in DOMAIN ready_queue : v <= k[1]
                     /\ \A u \in Task : u = current => v <= get_vruntime(u)'
    BY LagAfter DEF IInv, Types
  <2>1. \A k \in DOMAIN ready_queue : v <= k[1]
    BY DEF IInv, Lag
  <2>2. ASSUME NEW u \in Task, u = current PROVE v <= get_vruntime(u)'
    <3>1. v <= get_vruntime(u) /\ get_vruntime(u) <= get_vruntime(u)'
      BY <2>2 DEF IInv, Lag
    <3>2. v \in Nat /\ get_vruntime(u) \in Nat
      BY Vruntime DEF IInv, Types
    <3>3. get_vruntime(u)' \in Nat
      BY VruntimeNext
    <3> QED BY <3>1, <3>2, <3>3
  <2> QED BY <2>1, <2>2
<1> QED BY <1>1, <1>2, <1>3 DEF IInv

(* What a tick does to the virtual run times.                              *)
LEMMA TickRuns ==
  ASSUME Types, task_tick
  PROVE  /\ \A u \in Task : u # current => get_vruntime(u)' = get_vruntime(u)
         /\ \A u \in Task : u = current => /\ get_vruntime(u) <= get_vruntime(u)'
                                          /\ get_vruntime(u)' = VruntimeAfter(u, delta[u] + 1)
<1>1. /\ current # Idle /\ delta' = [delta EXCEPT ![current] = @ + 1]
      /\ UNCHANGED << init_vruntime, nice >> /\ current \in Task /\ delta \in [Task -> Nat]
  BY DEF task_tick, Types
<1>2. ASSUME NEW u \in Task, u # current PROVE get_vruntime(u)' = get_vruntime(u)
  BY <1>1, <1>2, SameVruntime
<1>3. ASSUME NEW u \in Task, u = current
      PROVE  /\ get_vruntime(u) <= get_vruntime(u)'
             /\ get_vruntime(u)' = VruntimeAfter(u, delta[u] + 1)
  <2>1. delta'[u] = delta[u] + 1
    BY <1>1, <1>3
  <2>2. get_vruntime(u)' = VruntimeAfter(u, delta[u] + 1)
    BY <1>1, <2>1 DEF get_vruntime, VruntimeAfter
  <2> QED BY <2>2, Vruntime
<1> QED BY <1>2, <1>3

LEMMA TickInv == ASSUME IInv, task_tick PROVE IInv'
<1>1. /\ current # Idle /\ delta' = [delta EXCEPT ![current] = @ + 1]
      /\ UNCHANGED << ready_queue, min_vruntime, id_pool, init_vruntime, nice, id, current,
                     runnable, carried, removed >>
  BY DEF task_tick
<1>2. delta' \in [Task -> Nat]
  BY <1>1 DEF IInv, Types
<1>3. Types'
  BY <1>1, <1>2 DEF IInv, Types
<1>4. /\ \A u \in Task : u # current => get_vruntime(u)' = get_vruntime(u)
      /\ \A u \in Task : u = current => get_vruntime(u) <= get_vruntime(u)'
  BY TickRuns DEF IInv
<1> QED BY <1>1, <1>3, <1>4, RunsOnInv

(* set_priority moves no virtual run time.                                 *)
LEMMA PriorityRuns ==
  ASSUME Types, NEW prio \in Prio, set_priority(prio)
  PROVE  Types' /\ \A u \in Task : get_vruntime(u)' = get_vruntime(u)
<1>1. /\ current # Idle /\ prio \in -20 .. 19
      /\ init_vruntime' = [init_vruntime EXCEPT ![current] = get_vruntime(current)]
      /\ delta' = [delta EXCEPT ![current] = 0] /\ nice' = [nice EXCEPT ![current] = prio]
      /\ UNCHANGED << ready_queue, min_vruntime, id_pool, id, current, runnable, carried >>
  BY DEF set_priority
<1>2. current \in Task /\ get_vruntime(current) \in Nat
  BY <1>1, Vruntime DEF Types
<1>3. init_vruntime' \in [Task -> Nat] /\ delta' \in [Task -> Nat] /\ nice' \in [Task -> -20 .. 19]
  BY <1>1, <1>2 DEF Types
<1>4. Types'
  BY <1>1, <1>3 DEF Types
<1>5. ASSUME NEW u \in Task PROVE get_vruntime(u)' = get_vruntime(u)
  <2>1. CASE u = current
    <3>1. init_vruntime'[u] = get_vruntime(u) /\ delta'[u] = 0
      BY <1>1, <2>1 DEF Types
    <3> QED BY <1>4, <3>1, VruntimeNext
  <2>2. CASE u # current
    BY <1>1, <2>2, SameVruntime DEF Types
  <2> QED BY <2>1, <2>2
<1> QED BY <1>4, <1>5

LEMMA PriorityInv == ASSUME IInv, NEW prio \in Prio, set_priority(prio) PROVE IInv'
<1>1. /\ current # Idle
      /\ UNCHANGED << ready_queue, min_vruntime, id_pool, id, current, runnable, carried, removed >>
  BY DEF set_priority
<1>2. Types' /\ \A u \in Task : get_vruntime(u)' = get_vruntime(u)
  BY PriorityRuns DEF IInv
<1>3. \A u \in Task : get_vruntime(u) <= get_vruntime(u)'
  BY <1>2, Vruntime DEF IInv
<1> QED BY <1>1, <1>2, <1>3, RunsOnInv

LEMMA StutterInv == ASSUME IInv, UNCHANGED vars PROVE IInv'
BY DEF vars, cfs, IInv, Types, MapOK, Holds, Values, Keys, Lag, get_vruntime, VruntimeAfter

LEMMA StepInv == IInv /\ [Next]_vars => IInv'
<1> SUFFICES ASSUME IInv, [Next]_vars PROVE IInv'
  OBVIOUS
<1>1. CASE AddAny
  BY <1>1, AddInv DEF AddAny
<1>2. CASE RemoveAny
  BY <1>2, RemoveInv DEF RemoveAny
<1>3. CASE yield_current
  BY <1>3, ReschedInv
<1>4. CASE leave_current
  BY <1>4, LeaveInv
<1>5. CASE task_tick
  BY <1>5, TickInv
<1>6. CASE SetPriority
  BY <1>6, PriorityInv DEF SetPriority
<1>7. CASE UNCHANGED vars
  BY <1>7, StutterInv
<1> QED BY <1>1, <1>2, <1>3, <1>4, <1>5, <1>6, <1>7 DEF Next

LEMMA Invariance == Spec => []IInv
BY InitInv, StepInv, PTL DEF Spec

-----------------------------------------------------------------------------
(* A queued task is stored under the id in its fields, and, ticks of an    *)
(* earlier stay aside, under its virtual run time: the key remove_task     *)
(* computes is the one it is stored under, for any tasks and any priority. *)
THEOREM RemovesWhatItIsGiven == Spec => []RemoveFinds
<1>1. IInv => RemoveFinds
  BY DEF IInv, MapOK, Keys, RemoveFinds
<1> QED BY <1>1, Invariance, PTL

LEMMA StepRefines == IInv /\ [Next]_vars => [Promise!Next]_<<runnable, current>>
<1> SUFFICES ASSUME IInv, [Next]_vars PROVE [Promise!Next]_<<runnable, current>>
  OBVIOUS
<1>1. ASSUME NEW t \in Task, add_task(t) PROVE Promise!Next
  BY <1>1 DEF add_task, Promise!Next, Promise!AddTask
<1>2. ASSUME NEW t \in Task, remove_task(t) PROVE [Promise!Next]_<<runnable, current>>
  <2>1. /\ t \in Queued /\ runnable' \in {runnable, runnable \ {t}}
        /\ current' = current
    BY <1>2 DEF remove_task
  <2>2. t \in runnable \ {current}
    BY <2>1 DEF IInv, Holds, Queued, Values
  <2>3. CASE runnable' = runnable
    BY <2>1, <2>3
  <2>4. CASE runnable' = runnable \ {t}
    BY <2>1, <2>2, <2>4 DEF Promise!Next, Promise!RemoveTask
  <2> QED BY <2>1, <2>3, <2>4
<1>3. CASE yield_current
  <2>1. runnable' = runnable /\ Picked
    BY <1>3, ReschedInv DEF yield_current, resched
  <2> QED BY <2>1 DEF Picked, Promise!Next, Promise!PickNext
<1>4. CASE leave_current
  <2>1. runnable' = runnable \ {current} /\ Picked
    BY <1>4, LeaveInv DEF leave_current
  <2> QED BY <2>1 DEF Picked, Promise!Next, Promise!PickNext
<1>5. CASE task_tick
  BY <1>5 DEF task_tick
<1>6. CASE SetPriority
  BY <1>6 DEF SetPriority, set_priority
<1>7. CASE UNCHANGED vars
  BY <1>7 DEF vars
<1> QED BY <1>1, <1>2, <1>3, <1>4, <1>5, <1>6, <1>7 DEF Next, AddAny, RemoveAny

(* The completely fair scheduler implements the trait BaseScheduler: no    *)
(* task it is handed is lost, and the idle task is picked only when there  *)
(* is none to run.                                                         *)
THEOREM RefinesTrait == Spec => KeepsPromise
<1>1. Init => Promise!Init
  BY DEF Init, Promise!Init
<1>2. IInv /\ [Next]_vars => [Promise!Next]_<<runnable, current>>
  BY StepRefines
<1> QED BY <1>1, <1>2, Invariance, PTL DEF Spec, KeepsPromise, Promise!Spec

(* A tick that leaves the running task ahead of a queued one asks for      *)
(* rescheduling, although min_vruntime is not refreshed by pick_next_task, *)
(* as long as remove_task has taken no task out.                           *)
THEOREM LaggingTaskIsNoticed == Spec => LagNoticed
<1> DEFINE Noticed == task_tick /\ ~removed =>
             pending' \/ \A k \in DOMAIN ready_queue : get_vruntime(current)' <= k[1]
<1>1. IInv => Noticed
  <2> SUFFICES ASSUME IInv, task_tick, ~removed, ~pending', NEW k \in DOMAIN ready_queue,
                      NEW u \in Task, u = current, current' = u
               PROVE  get_vruntime(u)' <= k[1]
    BY DEF task_tick, IInv, Types, get_vruntime, VruntimeAfter
  <2>1. PICK v \in min_vruntime : ~ (VruntimeAfter(u, delta[u] + 1) > v)
    BY DEF task_tick
  <2>2. v \in Nat /\ v <= k[1] /\ k[1] \in Nat
    BY InMap DEF IInv, Lag, Types
  <2>3. VruntimeAfter(u, delta[u] + 1) \in Nat
    BY Vruntime DEF IInv
  <2>4. get_vruntime(u)' = VruntimeAfter(u, delta[u] + 1)
    BY TickRuns DEF IInv
  <2> QED BY <2>1, <2>2, <2>3, <2>4
<1> QED BY <1>1, Invariance, PTL DEF LagNoticed

(* Run time is never given back: no step makes the virtual run time of a   *)
(* task smaller, apart from the add_task that places that very task.       *)
THEOREM RunTimeIsKept == Spec => VruntimeMonotone
<1> DEFINE Kept == \A t \in Task : get_vruntime(t)' >= get_vruntime(t) \/ add_task(t)
<1>1. IInv /\ [Next]_vars => Kept
  <2> SUFFICES ASSUME IInv, [Next]_vars, NEW t \in Task, ~ add_task(t)
               PROVE  get_vruntime(t)' >= get_vruntime(t)
    OBVIOUS
  <2>1. get_vruntime(t) \in Nat
    BY Vruntime DEF IInv
  <2>2. CASE AddAny
    <3>1. PICK u \in Task : add_task(u)
      BY <2>2 DEF AddAny
    <3>2. init_vruntime'[t] = init_vruntime[t] /\ delta'[t] = delta[t] /\ nice'[t] = nice[t]
      BY <3>1 DEF add_task, IInv, Types
    <3> QED BY <2>1, <3>2, SameVruntime
  <2>3. CASE RemoveAny \/ yield_current \/ leave_current \/ UNCHANGED vars
    <3>1. init_vruntime' = init_vruntime /\ delta' = delta /\ nice' = nice
      BY <2>3 DEF RemoveAny, remove_task, yield_current, resched, leave_current, vars, cfs
    <3> QED BY <2>1, <3>1, SameVruntime
  <2>4. CASE task_tick
    <3>1. get_vruntime(t)' = get_vruntime(t) \/ get_vruntime(t) <= get_vruntime(t)'
      BY <2>4, TickRuns DEF IInv
    <3>2. get_vruntime(t)' \in Nat
      BY <2>4, TickInv, VruntimeNext DEF IInv
    <3> QED BY <2>1, <3>1, <3>2
  <2>5. CASE SetPriority
    BY <2>1, <2>5, PriorityRuns DEF SetPriority, IInv
  <2> QED BY <2>2, <2>3, <2>4, <2>5 DEF Next
<1> QED BY <1>1, Invariance, PTL DEF Spec, VruntimeMonotone
=============================================================================

---------------------------- MODULE DbPoolProofs ----------------------------
(***************************************************************************)
(* Theorems about BufferedDbPool, for every set of operations, agents,     *)
(* callers and readers and every budget of faults.  First the operations   *)
(* of its promise mutex (FifoMutex), then the types, then who may flush,   *)
(* then what becomes of accepted writes:                                   *)
(*                                                                         *)
(* - what one commitWork() hands over stays together, whatever fails.      *)
(*   TxnAtomic alone is not inductive: it says nothing of the batches that *)
(*   flushes carry, nor of operations still in a shadow, which have to be  *)
(*   unseen everywhere else until they are committed;                      *)
(*                                                                         *)
(* - as long as no transaction met BUSY and no mutex waiter gave up, what  *)
(*   a flush writes is what is in flight, no accepted write is lost and    *)
(*   none reaches the disk twice.                                          *)
(*                                                                         *)
(* Then what a user of the pool can rely on: reads see what was written    *)
(* before, stop() leaves nothing behind, and all a user can tell is that   *)
(* the pool implements WriteBehind.                                        *)
(***************************************************************************)
EXTENDS DbPoolRefinement, TLAPS

-----------------------------------------------------------------------------
(* The mutex: what its operations preserve, for any set of tasks            *)

(* No task is in the queue twice.                                           *)
NoRepeat(s) == \A i, j \in 1..Len(s) : s[i] = s[j] => i = j

-----------------------------------------------------------------------------
(* Types                                                                    *)

(* acquire() yields a mutex.                                                *)
LEMMA AcquireType ==
    ASSUME NEW T, NEW m \in Mutex(T), NEW t \in T
    PROVE  Acquire(m, t) \in Mutex(T)
  <1>1. Append(m.queue, t) \in Seq(T)
    BY DEF Mutex
  <1>2. [m EXCEPT !.queue = Append(@, t)] \in Mutex(T) /\ [m EXCEPT !.locked = TRUE] \in Mutex(T)
    BY <1>1 DEF Mutex
  <1>3. QED
    BY <1>2 DEF Acquire

(* release() yields a mutex.                                                *)
LEMMA ReleaseType ==
    ASSUME NEW T, NEW m \in Mutex(T)
    PROVE  Release(m) \in Mutex(T)
  <1>1. [m EXCEPT !.locked = FALSE] \in Mutex(T)
    BY DEF Mutex
  <1>2. ASSUME m.queue # <<>>
        PROVE  [m EXCEPT !.queue = Tail(@)] \in Mutex(T)
    <2>1. Tail(m.queue) \in Seq(T)
      BY <1>2 DEF Mutex
    <2>2. QED
      BY <2>1 DEF Mutex
  <1>3. QED
    BY <1>1, <1>2 DEF Release

(* A waiter that gives up leaves a mutex.                                   *)
LEMMA GiveUpType ==
    ASSUME NEW T, NEW m \in Mutex(T), NEW i \in 1..Len(m.queue)
    PROVE  GiveUp(m, i) \in Mutex(T)
  <1>1. m.queue \in Seq(T) /\ i \in Nat /\ Len(m.queue) \in Nat
    BY DEF Mutex
  <1>2. SubSeq(m.queue, 1, i - 1) \in Seq(T) /\ SubSeq(m.queue, i + 1, Len(m.queue)) \in Seq(T)
    BY <1>1
  <1>3. RemoveAt(m.queue, i) \in Seq(T)
    BY <1>2 DEF RemoveAt
  <1>4. QED
    BY <1>3 DEF GiveUp, Mutex

-----------------------------------------------------------------------------
(* Who waits                                                                *)

(* acquire() by a task that is not waiting adds at most that task.          *)
LEMMA AcquireQueued ==
    ASSUME NEW T, NEW m \in Mutex(T), NEW t \in T, NoRepeat(m.queue), ~Queued(m, t)
    PROVE  /\ NoRepeat(Acquire(m, t).queue)
           /\ \A u : Queued(Acquire(m, t), u) <=> Queued(m, u) \/ (m.locked /\ u = t)
           /\ Acquire(m, t).locked
           /\ ~m.locked => Acquire(m, t).queue = m.queue
  <1> DEFINE q == m.queue
  <1> DEFINE n == Len(q)
  <1>0. q \in Seq(T) /\ n \in Nat /\ m \in [locked: BOOLEAN, queue: Seq(T)]
    BY DEF Mutex
  <1>1. CASE m.locked
    <2>1. Acquire(m, t).queue = Append(q, t) /\ Acquire(m, t).locked
      BY <1>0, <1>1 DEF Acquire
    <2>2. /\ Len(Append(q, t)) = n + 1
          /\ Append(q, t)[n + 1] = t
          /\ \A i \in 1..n : Append(q, t)[i] = q[i]
      BY <1>0
    <2>3. \A i \in 1..n : q[i] # t
      BY DEF Queued
    <2> HIDE DEF q, n
    <2>4. \A i \in 1..(n + 1) : i \in 1..n \/ i = n + 1
      BY <1>0
    <2>5. NoRepeat(Append(q, t))
      BY <1>0, <2>2, <2>3, <2>4 DEF NoRepeat, q, n
    <2>6. ASSUME NEW u
          PROVE  Queued(Acquire(m, t), u) <=> Queued(m, u) \/ u = t
      BY <1>0, <2>1, <2>2, <2>4 DEF Queued, q, n
    <2>7. QED
      BY <1>1, <2>1, <2>5, <2>6
  <1>2. CASE ~m.locked
    <2>1. Acquire(m, t).queue = q /\ Acquire(m, t).locked
      BY <1>0, <1>2 DEF Acquire
    <2>2. QED
      BY <1>2, <2>1 DEF Queued
  <1>3. QED
    BY <1>1, <1>2

(* release() with waiters takes the head off the queue and stays locked.    *)
LEMMA ReleaseQueued ==
    ASSUME NEW T, NEW m \in Mutex(T), NoRepeat(m.queue), m.queue # <<>>
    PROVE  /\ NoRepeat(Release(m).queue)
           /\ \A u : Queued(Release(m), u) <=> Queued(m, u) /\ u # Head(m.queue)
           /\ Queued(m, Head(m.queue))
           /\ Release(m).locked = m.locked
  <1> DEFINE q == m.queue
  <1> DEFINE n == Len(q)
  <1>0. q \in Seq(T) /\ n \in Nat \ {0} /\ m \in [locked: BOOLEAN, queue: Seq(T)]
    BY DEF Mutex
  <1>1. Release(m).queue = Tail(q) /\ Release(m).locked = m.locked
    BY <1>0 DEF Release
  <1>2. /\ Len(Tail(q)) = n - 1
        /\ \A i \in 1..(n - 1) : Tail(q)[i] = q[i + 1]
        /\ Head(q) = q[1]
    BY <1>0
  <1> HIDE DEF q, n
  <1>3. \A i \in 1..(n - 1) : i + 1 \in 1..n /\ i + 1 # 1
    BY <1>0
  <1>4. \A i \in 1..n : i = 1 \/ (i - 1 \in 1..(n - 1) /\ (i - 1) + 1 = i)
    BY <1>0
  <1>5. NoRepeat(Tail(q))
    BY <1>0, <1>2, <1>3 DEF NoRepeat, q, n
  <1>6. 1 \in 1..n
    BY <1>0
  <1>7. ASSUME NEW u
        PROVE  Queued(Release(m), u) <=> Queued(m, u) /\ u # Head(q)
    <2>1. Queued(Release(m), u) <=> \E i \in 1..(n - 1) : q[i + 1] = u
      BY <1>1, <1>2 DEF Queued
    <2>2. Queued(m, u) <=> \E i \in 1..n : q[i] = u
      BY DEF Queued, q, n
    <2>3. \A i \in 1..n : q[i] = q[1] => i = 1
      BY <1>6 DEF NoRepeat, q, n
    <2>4. QED
      BY <1>2, <1>3, <1>4, <2>1, <2>2, <2>3
  <1>8. QED
    BY <1>1, <1>2, <1>5, <1>6, <1>7 DEF Queued, q, n

(* A waiter that gives up is taken out of the queue, and nobody else is.    *)
LEMMA GiveUpQueued ==
    ASSUME NEW T, NEW m \in Mutex(T), NoRepeat(m.queue), NEW k \in 1..Len(m.queue)
    PROVE  /\ NoRepeat(GiveUp(m, k).queue)
           /\ \A u : Queued(GiveUp(m, k), u) <=> Queued(m, u) /\ u # m.queue[k]
           /\ GiveUp(m, k).locked = m.locked
           /\ m.queue # <<>>
  <1> DEFINE q == m.queue
  <1> DEFINE n == Len(q)
  <1> DEFINE r == RemoveAt(q, k)
  <1>0. q \in Seq(T) /\ n \in Nat /\ k \in 1..n /\ m \in [locked: BOOLEAN, queue: Seq(T)]
    BY DEF Mutex
  <1>1. GiveUp(m, k).queue = r /\ GiveUp(m, k).locked = m.locked
    BY <1>0 DEF GiveUp
  <1>2. /\ SubSeq(q, 1, k - 1) \in Seq(T) /\ Len(SubSeq(q, 1, k - 1)) = k - 1
        /\ SubSeq(q, k + 1, n) \in Seq(T) /\ Len(SubSeq(q, k + 1, n)) = n - k
        /\ \A i \in 1..(k - 1) : SubSeq(q, 1, k - 1)[i] = q[i]
        /\ \A i \in 1..(n - k) : SubSeq(q, k + 1, n)[i] = q[i + k]
    BY <1>0
  <1>3. /\ Len(r) = n - 1
        /\ \A i \in 1..(n - 1) : r[i] = IF i < k THEN q[i] ELSE q[i + 1]
    <2> DEFINE before == SubSeq(q, 1, k - 1)
    <2> DEFINE after == SubSeq(q, k + 1, n)
    <2>1. r = before \o after
      BY DEF RemoveAt
    <2> HIDE DEF before, after, q, n, r
    <2>2. before \in Seq(T) /\ after \in Seq(T) /\ Len(before) = k - 1 /\ Len(after) = n - k
      BY <1>2 DEF before, after, q, n
    <2>3. /\ Len(r) = (k - 1) + (n - k)
          /\ \A i \in 1..((k - 1) + (n - k)) :
                r[i] = IF i <= k - 1 THEN before[i] ELSE after[i - (k - 1)]
      <3>1. /\ Len(before \o after) = Len(before) + Len(after)
            /\ \A i \in 1..(Len(before) + Len(after)) :
                  (before \o after)[i] = IF i <= Len(before) THEN before[i]
                                                           ELSE after[i - Len(before)]
        BY <2>2
      <3>2. QED
        BY <2>1, <2>2, <3>1
    <2>4. (k - 1) + (n - k) = n - 1
      BY <1>0
    <2>5. ASSUME NEW i \in 1..(n - 1)
          PROVE  r[i] = IF i < k THEN q[i] ELSE q[i + 1]
      <3>1. CASE i < k
        <4>1. i \in 1..(k - 1) /\ i <= k - 1
          BY <1>0, <3>1
        <4>2. before[i] = q[i]
          BY <1>2, <4>1 DEF before, q
        <4>3. QED
          BY <2>3, <2>4, <3>1, <4>1, <4>2
      <3>2. CASE ~(i < k)
        <4>1. /\ ~(i <= k - 1) /\ i - (k - 1) \in 1..(n - k)
              /\ (i - (k - 1)) + k = i + 1
          BY <1>0, <3>2
        <4>2. after[i - (k - 1)] = q[i + 1]
          BY <1>2, <4>1 DEF after, q, n
        <4>3. QED
          BY <2>3, <2>4, <3>2, <4>1, <4>2
      <3>3. QED
        BY <3>1, <3>2
    <2>6. QED
      BY <2>3, <2>4, <2>5
  <1>4. q # <<>>
    BY <1>0
  <1> HIDE DEF q, n, r
  <1>5. \A i \in 1..(n - 1) : (i < k => i \in 1..n /\ i # k) /\ (~(i < k) => i + 1 \in 1..n /\ i + 1 # k)
    BY <1>0
  <1>6. \A i \in 1..n : i = k \/ (i < k /\ i \in 1..(n - 1))
                           \/ (~(i - 1 < k) /\ i - 1 \in 1..(n - 1) /\ (i - 1) + 1 = i)
    BY <1>0
  <1>7. \A i, j \in 1..n : q[i] = q[j] => i = j
    BY DEF NoRepeat, q, n
  <1>8. NoRepeat(r)
    <2>1. ASSUME NEW i \in 1..(n - 1), NEW j \in 1..(n - 1), r[i] = r[j]
          PROVE  i = j
      <3>1. CASE i < k /\ j < k
        BY <1>3, <1>5, <1>7, <2>1, <3>1
      <3>2. CASE ~(i < k) /\ ~(j < k)
        <4>1. i + 1 = j + 1
          BY <1>3, <1>5, <1>7, <2>1, <3>2
        <4>2. QED
          BY <1>0, <4>1
      <3>3. CASE i < k /\ ~(j < k)
        <4>1. i = j + 1
          BY <1>3, <1>5, <1>7, <2>1, <3>3
        <4>2. QED
          BY <1>0, <3>3, <4>1
      <3>4. CASE ~(i < k) /\ j < k
        <4>1. i + 1 = j
          BY <1>3, <1>5, <1>7, <2>1, <3>4
        <4>2. QED
          BY <1>0, <3>4, <4>1
      <3>5. QED
        BY <3>1, <3>2, <3>3, <3>4
    <2>2. QED
      BY <1>3, <2>1 DEF NoRepeat
  <1>9. ASSUME NEW u
        PROVE  Queued(GiveUp(m, k), u) <=> Queued(m, u) /\ u # q[k]
    <2>1. Queued(GiveUp(m, k), u) <=> \E i \in 1..(n - 1) : r[i] = u
      BY <1>1, <1>3 DEF Queued
    <2>2. Queued(m, u) <=> \E i \in 1..n : q[i] = u
      BY DEF Queued, q, n
    <2>3. ASSUME NEW i \in 1..(n - 1), r[i] = u
          PROVE  (\E j \in 1..n : q[j] = u) /\ u # q[k]
      BY <1>0, <1>3, <1>5, <1>7, <2>3
    <2>4. ASSUME NEW i \in 1..n, q[i] = u, u # q[k]
          PROVE  \E j \in 1..(n - 1) : r[j] = u
      <3>1. CASE i < k /\ i \in 1..(n - 1)
        BY <1>3, <2>4, <3>1
      <3>2. CASE ~(i - 1 < k) /\ i - 1 \in 1..(n - 1) /\ (i - 1) + 1 = i
        <4>1. r[i - 1] = u
          BY <1>3, <2>4, <3>2
        <4>2. QED
          BY <3>2, <4>1
      <3>3. QED
        BY <1>6, <2>4, <3>1, <3>2
    <2>5. QED
      BY <2>1, <2>2, <2>3, <2>4
  <1>10. QED
    BY <1>1, <1>4, <1>8, <1>9 DEF q

-----------------------------------------------------------------------------
(* Mutual exclusion                                                         *)

(* The users of a mutex are the tasks that called acquire() and neither     *)
(* gave up nor released.  A sound mutex has each waiter once, all waiters   *)
(* among the users, and at most one user that does not wait, who then has   *)
(* the lock.                                                                *)
Sound(m, users) ==
    /\ NoRepeat(m.queue)
    /\ m.queue # <<>> => m.locked
    /\ \A i \in 1..Len(m.queue) : m.queue[i] \in users
    /\ \A t, u \in users : Queued(m, t) \/ Queued(m, u) \/ t = u
    /\ \A t \in users : Queued(m, t) \/ m.locked

LEMMA WaitersAreUsers ==
    ASSUME NEW m, NEW users
    PROVE  (\A i \in 1..Len(m.queue) : m.queue[i] \in users) <=>
           (\A t : Queued(m, t) => t \in users)
  BY DEF Queued

(* acquire() by a task that is no user makes it one.                        *)
LEMMA AcquireSound ==
    ASSUME NEW T, NEW m \in Mutex(T), NEW users, Sound(m, users), NEW t \in T, t \notin users
    PROVE  Sound(Acquire(m, t), users \cup {t})
  <1>1. NoRepeat(m.queue) /\ ~Queued(m, t)
    BY WaitersAreUsers DEF Sound
  <1>2. /\ NoRepeat(Acquire(m, t).queue)
        /\ \A u : Queued(Acquire(m, t), u) <=> Queued(m, u) \/ (m.locked /\ u = t)
        /\ Acquire(m, t).locked
    BY <1>1, AcquireQueued
  <1>3. \A u : Queued(m, u) => u \in users
    BY WaitersAreUsers DEF Sound
  <1>4. \A i \in 1..Len(Acquire(m, t).queue) : Acquire(m, t).queue[i] \in users \cup {t}
    <2>1. \A u : Queued(Acquire(m, t), u) => u \in users \cup {t}
      BY <1>2, <1>3
    <2>2. QED
      BY <2>1 DEF Queued
  <1>5. \A u, v \in users \cup {t} :
            Queued(Acquire(m, t), u) \/ Queued(Acquire(m, t), v) \/ u = v
    BY <1>1, <1>2 DEF Sound
  <1>6. QED
    BY <1>2, <1>4, <1>5 DEF Sound

(* release() by the user that has the lock ends its use.                    *)
LEMMA ReleaseSound ==
    ASSUME NEW T, NEW m \in Mutex(T), NEW users, Sound(m, users),
           NEW t \in users, ~Queued(m, t)
    PROVE  Sound(Release(m), users \ {t})
  <1>0. NoRepeat(m.queue)
    BY DEF Sound
  <1>1. CASE m.queue # <<>>
    <2>1. /\ NoRepeat(Release(m).queue)
          /\ \A u : Queued(Release(m), u) <=> Queued(m, u) /\ u # Head(m.queue)
          /\ Queued(m, Head(m.queue))
          /\ Release(m).locked = m.locked
      BY <1>0, <1>1, ReleaseQueued
    <2>2. QED
      BY <1>1, <2>1, WaitersAreUsers DEF Sound
  <1>2. CASE m.queue = <<>>
    <2>1. Release(m).queue = <<>>
      BY <1>2 DEF Release, Mutex
    <2>2. \A u : ~Queued(Release(m), u) /\ ~Queued(m, u)
      BY <1>2, <2>1 DEF Queued
    <2>3. QED
      BY <1>0, <1>2, <2>1, <2>2, WaitersAreUsers DEF Sound
  <1>3. QED
    BY <1>1, <1>2

(* A waiter that gives up is no user any more.                              *)
LEMMA GiveUpSound ==
    ASSUME NEW T, NEW m \in Mutex(T), NEW users, Sound(m, users), NEW i \in 1..Len(m.queue)
    PROVE  Sound(GiveUp(m, i), users \ {m.queue[i]})
  <1>1. /\ NoRepeat(GiveUp(m, i).queue)
        /\ \A u : Queued(GiveUp(m, i), u) <=> Queued(m, u) /\ u # m.queue[i]
        /\ GiveUp(m, i).locked = m.locked
        /\ m.queue # <<>>
    BY GiveUpQueued DEF Sound
  <1>2. QED
    BY <1>1, WaitersAreUsers DEF Sound

-----------------------------------------------------------------------------
(* Order                                                                    *)

(* t waits ahead of u.                                                      *)
Before(m, t, u) == \E i, j \in 1..Len(m.queue) : i < j /\ m.queue[i] = t /\ m.queue[j] = u

(* acquire() keeps the order of the waiters, and queues behind all of them. *)
LEMMA AcquireBefore ==
    ASSUME NEW T, NEW m \in Mutex(T), NEW x \in T
    PROVE  /\ \A t, u : Before(m, t, u) => Before(Acquire(m, x), t, u)
           /\ \A t : m.locked /\ Queued(m, t) => Before(Acquire(m, x), t, x)
  <1> DEFINE q == m.queue
  <1> DEFINE n == Len(q)
  <1>0. q \in Seq(T) /\ n \in Nat /\ m \in [locked: BOOLEAN, queue: Seq(T)]
    BY DEF Mutex
  <1>1. CASE m.locked
    <2>1. Acquire(m, x).queue = Append(q, x)
      BY <1>0, <1>1 DEF Acquire
    <2>2. /\ Len(Append(q, x)) = n + 1 /\ Append(q, x)[n + 1] = x
          /\ \A i \in 1..n : Append(q, x)[i] = q[i]
      BY <1>0
    <2> HIDE DEF q, n
    <2>3. ASSUME NEW t, NEW u, Before(m, t, u)
          PROVE  Before(Acquire(m, x), t, u)
      <3>1. PICK i, j \in 1..n : i < j /\ q[i] = t /\ q[j] = u
        BY <2>3 DEF Before, q, n
      <3>2. i \in 1..(n + 1) /\ j \in 1..(n + 1) /\ Append(q, x)[i] = t /\ Append(q, x)[j] = u
        BY <1>0, <2>2, <3>1
      <3>3. QED
        BY <2>1, <2>2, <3>1, <3>2 DEF Before
    <2>4. ASSUME NEW t, Queued(m, t)
          PROVE  Before(Acquire(m, x), t, x)
      <3>1. PICK i \in 1..n : q[i] = t
        BY <2>4 DEF Queued, q, n
      <3>2. i \in 1..(n + 1) /\ i < n + 1 /\ n + 1 \in 1..(n + 1)
        BY <1>0, <3>1
      <3>3. QED
        BY <2>1, <2>2, <3>1, <3>2 DEF Before
    <2>5. QED
      BY <2>3, <2>4
  <1>2. CASE ~m.locked
    <2>1. Acquire(m, x).queue = q
      BY <1>0, <1>2 DEF Acquire
    <2>2. QED
      BY <1>2, <2>1 DEF Before
  <1>3. QED
    BY <1>1, <1>2

(* release() keeps the order of those who still wait.                       *)
LEMMA ReleaseBefore ==
    ASSUME NEW T, NEW m \in Mutex(T), NoRepeat(m.queue), NEW t, NEW u, Before(m, t, u),
           Queued(Release(m), t)
    PROVE  Before(Release(m), t, u)
  <1> DEFINE q == m.queue
  <1> DEFINE n == Len(q)
  <1>0. q \in Seq(T) /\ n \in Nat /\ m \in [locked: BOOLEAN, queue: Seq(T)]
    BY DEF Mutex
  <1>1. PICK i, j \in 1..n : i < j /\ q[i] = t /\ q[j] = u
    BY DEF Before
  <1>2. q # <<>>
    BY <1>0, <1>1
  <1>3. Release(m).queue = Tail(q) /\ Head(q) = q[1]
    BY <1>0, <1>2 DEF Release
  <1>4. t # Head(q)
    BY <1>2, ReleaseQueued
  <1>5. Len(Tail(q)) = n - 1 /\ \A k \in 1..(n - 1) : Tail(q)[k] = q[k + 1]
    BY <1>0, <1>2
  <1> HIDE DEF q, n
  <1>6. i # 1
    BY <1>1, <1>3, <1>4
  <1>7. i - 1 \in 1..(n - 1) /\ j - 1 \in 1..(n - 1) /\ i - 1 < j - 1
    BY <1>0, <1>1, <1>6
  <1>8. Tail(q)[i - 1] = t /\ Tail(q)[j - 1] = u
    <2>1. (i - 1) + 1 = i /\ (j - 1) + 1 = j
      BY <1>0, <1>1
    <2>2. QED
      BY <1>1, <1>5, <1>7, <2>1
  <1>9. QED
    BY <1>3, <1>5, <1>7, <1>8 DEF Before

(* Giving up keeps the order of the others.                                 *)
LEMMA GiveUpBefore ==
    ASSUME NEW T, NEW m \in Mutex(T), NEW k \in 1..Len(m.queue), NEW t, NEW u, Before(m, t, u),
           m.queue[k] # t, m.queue[k] # u
    PROVE  Before(GiveUp(m, k), t, u)
  <1> DEFINE q == m.queue
  <1> DEFINE n == Len(q)
  <1> DEFINE r == RemoveAt(q, k)
  <1>0. q \in Seq(T) /\ n \in Nat /\ k \in 1..n /\ m \in [locked: BOOLEAN, queue: Seq(T)]
    BY DEF Mutex
  <1>1. PICK i, j \in 1..n : i < j /\ q[i] = t /\ q[j] = u
    BY DEF Before
  <1>2. GiveUp(m, k).queue = r
    BY <1>0 DEF GiveUp
  <1>3. /\ Len(r) = n - 1
        /\ \A l \in 1..(n - 1) : r[l] = IF l < k THEN q[l] ELSE q[l + 1]
    <2>1. /\ SubSeq(q, 1, k - 1) \in Seq(T) /\ SubSeq(q, k + 1, n) \in Seq(T)
          /\ Len(SubSeq(q, 1, k - 1)) = k - 1 /\ Len(SubSeq(q, k + 1, n)) = n - k
      BY <1>0
    <2>2. /\ \A l \in 1..(k - 1) : SubSeq(q, 1, k - 1)[l] = q[l]
          /\ \A l \in 1..(n - k) : SubSeq(q, k + 1, n)[l] = q[k + l]
      BY <1>0
    <2>3. r = SubSeq(q, 1, k - 1) \o SubSeq(q, k + 1, n)
      BY DEF RemoveAt
    <2> HIDE DEF q, n, r
    <2>4. Len(r) = n - 1
      BY <1>0, <2>1, <2>3
    <2>5. ASSUME NEW l \in 1..(n - 1)
          PROVE  r[l] = IF l < k THEN q[l] ELSE q[l + 1]
      <3>1. CASE l < k
        BY <1>0, <2>1, <2>2, <2>3, <3>1
      <3>2. CASE l >= k
        <4>1. l - (k - 1) \in 1..(n - k) /\ k + (l - (k - 1)) = l + 1 /\ ~(l < k)
          BY <1>0, <3>2
        <4>2. ASSUME NEW a \in Seq(T), NEW b \in Seq(T), Len(a) = k - 1, Len(b) = n - k
              PROVE  (a \o b)[l] = b[l - (k - 1)]
          <5>1. l \in 1..Len(a) + Len(b) /\ ~(l <= Len(a)) /\ l - Len(a) = l - (k - 1)
            BY <1>0, <3>2, <4>2
          <5>2. (a \o b)[l] = b[l - Len(a)]
            BY <4>2, <5>1, SMTT(60)
          <5>3. QED
            BY <5>1, <5>2
        <4>3. r[l] = SubSeq(q, k + 1, n)[l - (k - 1)]
          BY <2>1, <2>3, <4>2
        <4>4. QED
          BY <2>2, <4>1, <4>3
      <3>3. QED
        BY <1>0, <3>1, <3>2
    <2>6. QED
      BY <2>4, <2>5
  <1> DEFINE at(l) == IF l < k THEN l ELSE l - 1
  <1>4. ASSUME NEW l \in 1..n, l # k
        PROVE  at(l) \in 1..(n - 1) /\ r[at(l)] = q[l]
    <2>1. CASE l < k
      BY <1>0, <1>3, <1>4, <2>1
    <2>2. CASE l > k
      <3>1. at(l) = l - 1 /\ l - 1 \in 1..(n - 1) /\ ~(l - 1 < k) /\ (l - 1) + 1 = l
        BY <1>0, <2>2
      <3>2. QED
        BY <1>3, <3>1
    <2>3. QED
      BY <1>0, <1>4, <2>1, <2>2
  <1>5. i # k /\ j # k
    BY <1>1
  <1>6. at(i) < at(j)
    BY <1>0, <1>1, <1>5
  <1>7. at(i) \in 1..(n - 1) /\ at(j) \in 1..(n - 1) /\ r[at(i)] = t /\ r[at(j)] = u
    BY <1>1, <1>4, <1>5
  <1> HIDE DEF at, r, q, n
  <1>8. QED
    BY <1>2, <1>3, <1>6, <1>7 DEF Before

-----------------------------------------------------------------------------
(* Type correctness                                                         *)

(* The helpers of the actions have the types of their variables.            *)
LEMMA HelperTypes ==
    ASSUME TypeOK
    PROVE  /\ \A t \in FlushTasks, pc \in FlushPcs :
                Goto(t, pc) => fl' \in [FlushTasks -> FlushRun]
           /\ \A t \in FlushTasks, k \in {"call", "timer", "stop1", "stop2"} :
                EnterFlush(t, k) => /\ fl' \in [FlushTasks -> FlushRun]
                                    /\ flushMutex' \in Mutex(FlushTasks)
           /\ \A t \in FlushTasks, r \in {"ok", "busy", "fatal", "rejected"} :
                Return(t, r) \/ Catch(t, r) => fl' \in [FlushTasks -> FlushRun]
           /\ \A t \in FlushTasks : Idle(t) => fl' \in [FlushTasks -> FlushRun]
           /\ \A a \in Agents, pc \in AgentPcs :
                AgentGoto(a, pc) => ag' \in [Agents -> AgentRun]
           /\ \A e \in EnvEvents : Happens(e) => count' \in [EnvEvents -> Nat]
           /\ \A t \in Tasks : AcquireState(t) => stateMutex' \in Mutex(Tasks)
           /\ \A t \in Tasks : LeaveQueue(t) => stateMutex' \in Mutex(Tasks)
           /\ ReleaseState => stateMutex' \in Mutex(Tasks)
           /\ Schedule => timer' \in Timers
  <1>1. NoFlush \in FlushRun
    BY DEF NoFlush, FlushRun, FlushPcs
  <1>2. ASSUME NEW t \in FlushTasks, NEW pc \in FlushPcs, Goto(t, pc)
        PROVE  fl' \in [FlushTasks -> FlushRun]
    BY <1>2 DEF TypeOK, Goto, FlushRun
  <1>3. ASSUME NEW t \in FlushTasks, NEW k \in {"call", "timer", "stop1", "stop2"},
               EnterFlush(t, k)
        PROVE  /\ fl' \in [FlushTasks -> FlushRun]
               /\ flushMutex' \in Mutex(FlushTasks)
    BY <1>3, AcquireType DEF TypeOK, EnterFlush, NoFlush, FlushRun, FlushPcs
  <1>4. ASSUME NEW t \in FlushTasks, NEW r \in {"ok", "busy", "fatal", "rejected"},
               Return(t, r) \/ Catch(t, r)
        PROVE  fl' \in [FlushTasks -> FlushRun]
    <2>1. CASE Return(t, r)
      <3>1. fl[t].kind \in {"call", "timer", "stop1", "stop2"}
        BY DEF TypeOK, FlushRun
      <3>2. [NoFlush EXCEPT !.pc = "returned", !.kind = fl[t].kind, !.res = r] \in FlushRun
        BY <3>1 DEF NoFlush, FlushRun, FlushPcs
      <3>3. QED
        BY <2>1, <3>2 DEF TypeOK, Return
    <2>2. CASE Catch(t, r)
      <3>1. [fl[t] EXCEPT !.pc = "waitFail", !.res = r] \in FlushRun
        BY DEF TypeOK, FlushRun, FlushPcs
      <3>2. fl' = [fl EXCEPT ![t] = [fl[t] EXCEPT !.pc = "waitFail", !.res = r]]
        BY <2>2 DEF TypeOK, Catch
      <3>3. QED
        BY <3>1, <3>2 DEF TypeOK
    <2>3. QED
      BY <1>4, <2>1, <2>2
  <1>5. ASSUME NEW t \in FlushTasks, Idle(t)
        PROVE  fl' \in [FlushTasks -> FlushRun]
    BY <1>1, <1>5 DEF TypeOK, Idle
  <1>6. ASSUME NEW a \in Agents, NEW pc \in AgentPcs, AgentGoto(a, pc)
        PROVE  ag' \in [Agents -> AgentRun]
    <2>1. ag \in [Agents -> AgentRun]
      BY DEF TypeOK
    <2>2. QED
      BY <1>6, <2>1 DEF AgentGoto, AgentRun
  <1>7. ASSUME NEW e \in EnvEvents, Happens(e)
        PROVE  count' \in [EnvEvents -> Nat]
    BY <1>7 DEF TypeOK, Happens
  <1>8. ASSUME NEW t \in Tasks, AcquireState(t)
        PROVE  stateMutex' \in Mutex(Tasks)
    BY <1>8, AcquireType DEF TypeOK, AcquireState
  <1>9. ASSUME NEW t \in Tasks, LeaveQueue(t)
        PROVE  stateMutex' \in Mutex(Tasks)
    BY <1>9, GiveUpType DEF TypeOK, LeaveQueue
  <1>10. ASSUME ReleaseState
         PROVE  stateMutex' \in Mutex(Tasks)
    BY <1>10, ReleaseType DEF TypeOK, ReleaseState
  <1>11. ASSUME Schedule
         PROVE  timer' \in Timers
    BY <1>11 DEF Schedule, Timers
  <1>12. QED
    BY <1>2, <1>3, <1>4, <1>5, <1>6, <1>7, <1>8, <1>9, <1>10, <1>11

(* Every variable keeps its type when the process ends.                     *)
LEMMA EndTypes ==
    ASSUME TypeOK, ProcessEnds, count' \in [EnvEvents -> Nat]
    PROVE  TypeOK'
  <1>1. Unlocked \in Mutex(Tasks) /\ Unlocked \in Mutex(FlushTasks)
    BY DEF Unlocked, Mutex
  <1>2. NoFlush \in FlushRun /\ NoAgent \in AgentRun /\ NoRead \in ReadRun
    BY DEF NoFlush, FlushRun, FlushPcs, NoAgent, AgentRun, AgentPcs, NoRead, ReadRun, Nowhere
  <1>3. QED
    BY <1>1, <1>2 DEF TypeOK, ProcessEnds, histVars, diskVars, Lifecycles, Timers, Bufs

(* The initial states have the types of TypeOK.                             *)
LEMMA TypeInit == Init => TypeOK
  <1>1. Unlocked \in Mutex(Tasks) /\ Unlocked \in Mutex(FlushTasks)
    BY DEF Unlocked, Mutex
  <1>2. NoFlush \in FlushRun /\ NoAgent \in AgentRun /\ NoRead \in ReadRun
    BY DEF NoFlush, FlushRun, FlushPcs, NoAgent, AgentRun, AgentPcs, NoRead, ReadRun, Nowhere
  <1>3. QED
    <2>1. ASSUME Init
          PROVE  /\ fl \in [FlushTasks -> FlushRun] /\ ag \in [Agents -> AgentRun]
                 /\ rd \in [Readers -> ReadRun] /\ applied \in [Ops -> Nat]
                 /\ stateMutex \in Mutex(Tasks) /\ flushMutex \in Mutex(FlushTasks)
      BY <1>1, <1>2, <2>1 DEF Init, Nowhere
    <2>2. ASSUME Init
          PROVE  /\ buf \in [Bufs -> SUBSET Ops] /\ shadow \in [Agents -> SUBSET Ops]
                 /\ committed \in [Agents -> SUBSET Ops] /\ count \in [EnvEvents -> Nat]
      BY <2>2 DEF Init
    <2>3. QED
      BY <2>1, <2>2 DEF Init, TypeOK, Lifecycles, Timers, Bufs

(* An agent's step keeps the types.                                         *)
LEMMA AgentTypes ==
    ASSUME TypeOK, NEW a \in Agents, AgentStep(a)
    PROVE  TypeOK'
  <1> USE DEF poolVars, shadowVars, histVars, diskVars
  <1>0. Agents \subseteq Tasks
    BY DEF Tasks
  <1>1. \A from, to \in AgentPcs : AgentCall(a, from, to) => TypeOK'
    BY <1>0, HelperTypes DEF AgentCall, AgentUnchanged, TypeOK
  <1>2. \A ops \in SUBSET Ops : AddToShadow(a, ops) =>
            shadows' \subseteq Agents /\ shadow' \in [Agents -> SUBSET Ops]
    BY DEF AddToShadow, TypeOK
  <1>3. DropShadow(a) => shadows' \subseteq Agents /\ shadow' \in [Agents -> SUBSET Ops]
    BY DEF DropShadow, TypeOK
  <1>4. CASE BeginLocked(a)
    BY <1>2, <1>4, HelperTypes DEF BeginLocked, AgentLocked, AgentUnchanged, TypeOK, AgentPcs
  <1>5. CASE AgentPushLocked(a)
    <2>1. ag[a].pending \in SUBSET Ops
      BY DEF TypeOK, AgentRun
    <2>2. [ag[a] EXCEPT !.pc = "open", !.pending = {}] \in AgentRun
      BY DEF TypeOK, AgentRun, AgentPcs
    <2>3. ag' = [ag EXCEPT ![a] = [ag[a] EXCEPT !.pc = "open", !.pending = {}]]
      BY <1>5 DEF AgentPushLocked, TypeOK
    <2>4. QED
      BY <1>2, <1>5, <2>1, <2>2, <2>3, HelperTypes
         DEF AgentPushLocked, AgentLocked, AgentUnchanged, TypeOK
  <1>6. CASE CommitLocked(a)
    <2>1. (IF a \in shadows THEN shadow[a] ELSE {}) \in SUBSET Ops
      BY DEF TypeOK
    <2>2. QED
      BY <1>3, <1>6, <2>1, HelperTypes DEF CommitLocked, AgentLocked, TypeOK, AgentPcs, Bufs
  <1>7. CASE RollbackLocked(a)
    BY <1>3, <1>7, HelperTypes DEF RollbackLocked, AgentLocked, AgentUnchanged, TypeOK, AgentPcs
  <1>8. CASE Begin(a) \/ Commit(a) \/ Rollback(a)
    BY <1>1, <1>8 DEF Begin, Commit, Rollback, AgentPcs
  <1>9. CASE Refused(a)
    BY <1>9, HelperTypes DEF Refused, AgentUnchanged, TypeOK, AgentPcs
  <1>10. CASE AgentTimeout(a)
    BY <1>0, <1>10, HelperTypes
       DEF AgentTimeout, LeaveState, TimesOut, AgentUnchanged, TypeOK, AgentPcs, EnvEvents
  <1>11. ASSUME NEW o \in Ops, AgentPush(a, o)
         PROVE  TypeOK'
    <2>1. ag' \in [Agents -> AgentRun]
      BY <1>11 DEF AgentPush, TypeOK, AgentRun
    <2>2. QED
      BY <1>2, <1>11, <2>1, HelperTypes DEF AgentPush, AgentUnchanged, TypeOK
  <1>12. ASSUME NEW o \in Ops, AgentPushNoShadow(a, o)
         PROVE  TypeOK'
    <2>1. ag[a].pushed \cup {o} \in SUBSET Ops
      BY DEF TypeOK, AgentRun
    <2>2. ag' \in [Agents -> AgentRun]
      BY <1>12, <2>1 DEF AgentPushNoShadow, TypeOK, AgentRun, AgentPcs
    <2>3. QED
      BY <1>0, <1>12, <2>2, HelperTypes DEF AgentPushNoShadow, AgentUnchanged, TypeOK
  <1>13. QED
    BY <1>4, <1>5, <1>6, <1>7, <1>8, <1>9, <1>10, <1>11, <1>12 DEF AgentStep, AgentContinues

(* A step of a flush keeps the types.                                       *)
LEMMA FlushTypes ==
    ASSUME TypeOK, NEW t \in FlushTasks, FlushStep(t)
    PROVE  TypeOK'
  <1> USE DEF poolVars, shadowVars, histVars, diskVars, QueueUnchanged, FlushUnchanged
  <1>0. t \in Tasks
    BY DEF Tasks
  <1>1. Release(flushMutex) \in Mutex(FlushTasks) /\ Release(Release(flushMutex)) \in Mutex(FlushTasks)
    BY ReleaseType DEF TypeOK
  <1>2. RetryMutex(flushMutex, t) \in Mutex(FlushTasks)
    BY <1>1, AcquireType, ReleaseType DEF RetryMutex
  <1>3. fl[t].ops \in SUBSET Ops /\ fl[t].retry \in Nat
    BY DEF TypeOK, FlushRun
  <1>4. ASSUME NEW ops \in SUBSET Ops, Selected(t, ops)
        PROVE  fl' \in [FlushTasks -> FlushRun]
    <2>0. fl[t] \in FlushRun
      BY DEF TypeOK
    <2>1. [fl[t] EXCEPT !.pc = "exec", !.ops = ops] \in FlushRun
      BY <2>0 DEF FlushRun, FlushPcs
    <2>2. fl' = [fl EXCEPT ![t] = [fl[t] EXCEPT !.pc = "exec", !.ops = ops]]
      BY <1>4 DEF TypeOK, Selected
    <2>3. QED
      BY <2>1, <2>2 DEF TypeOK
  <1>5. CASE FlushLocked(t)
    BY <1>0, <1>5, HelperTypes DEF FlushLocked, TypeOK, FlushPcs
  <1>6. CASE Swap(t)
    <2>1. buf[active] \in SUBSET Ops
      BY DEF TypeOK, Bufs
    <2>2. fl' \in [FlushTasks -> FlushRun]
      BY <1>4, <1>6, <2>1 DEF Swap
    <2>3. QED
      BY <1>6, <2>2, HelperTypes DEF Swap, Selected, TypeOK, Bufs, Other
  <1>7. CASE TakeInFlight(t)
    <2>1. buf[inflight] \in SUBSET Ops
      BY DEF TypeOK
    <2>2. fl' \in [FlushTasks -> FlushRun]
      BY <1>4, <1>7, <2>1 DEF TakeInFlight
    <2>3. QED
      BY <1>7, <2>2, HelperTypes DEF TakeInFlight, Selected, TypeOK
  <1>8. CASE NothingToFlush(t)
    BY <1>1, <1>8, HelperTypes DEF NothingToFlush, TypeOK
  <1>9. CASE Durable(t)
    <2>1. applied' \in [Ops -> Nat]
      BY <1>9 DEF Durable, Write, TypeOK
    <2>2. QED
      BY <1>9, <2>1, HelperTypes DEF Durable, Write, TypeOK, FlushPcs
  <1>10. CASE AwaitClear(t)
    BY <1>0, <1>10, HelperTypes DEF AwaitClear, TypeOK, FlushPcs
  <1>11. CASE Succeed(t)
    BY <1>1, <1>11, HelperTypes DEF Succeed, ClearInFlight, EndFlush, TypeOK
  <1>12. CASE Fail(t)
    <2>1. deadLetters' \subseteq Ops
      BY <1>3, <1>12 DEF Fail, TypeOK
    <2>2. QED
      BY <1>1, <1>12, <2>1, HelperTypes DEF Fail, ClearInFlight, EndFlush, TypeOK
  <1>13. CASE Retry(t)
    <2> DEFINE n == fl[t].retry + 1
    <2>0. n \in Nat
      BY <1>3
    <2> HIDE DEF n
    <2>1. fl[t] \in FlushRun
      BY DEF TypeOK
    <2>2. [fl[t] EXCEPT !.pc = "waitFlush", !.retry = n, !.ops = {}] \in FlushRun
      BY <2>0, <2>1 DEF FlushRun, FlushPcs
    <2>3. fl' = [fl EXCEPT ![t] = [fl[t] EXCEPT !.pc = "waitFlush", !.retry = n, !.ops = {}]]
      BY <1>13 DEF Retry, TypeOK, n
    <2>4. QED
      BY <1>2, <1>13, <2>2, <2>3 DEF Retry, TypeOK
  <1>14. CASE RetryRefused(t)
    BY <1>1, <1>14, HelperTypes DEF RetryRefused, TypeOK
  <1>15. CASE Busy(t)
    BY <1>0, <1>15, HelperTypes DEF Busy, TypeOK, FlushPcs, EnvEvents
  <1>16. CASE Fatal(t)
    BY <1>0, <1>16, HelperTypes DEF Fatal, TypeOK, EnvEvents
  <1>17. CASE FlushMutexTimeout(t)
    <2>1. flushMutex' \in Mutex(FlushTasks)
      BY <1>17, GiveUpType DEF FlushMutexTimeout, TypeOK
    <2>2. QED
      BY <1>17, <2>1, HelperTypes DEF FlushMutexTimeout, TypeOK, EnvEvents
  <1>18. CASE StateMutexTimeout(t)
    <2>1. stateMutex' \in Mutex(Tasks)
      BY <1>0, <1>18, GiveUpType, AcquireType DEF StateMutexTimeout, TypeOK
    <2>2. QED
      BY <1>18, <2>1, HelperTypes DEF StateMutexTimeout, TypeOK, EnvEvents
  <1>19. CASE FailTimeout(t)
    BY <1>0, <1>1, <1>19, HelperTypes DEF FailTimeout, LeaveState, TimesOut, TypeOK, EnvEvents
  <1>20. QED
    BY <1>5, <1>6, <1>7, <1>8, <1>9, <1>10, <1>11, <1>12, <1>13, <1>14, <1>15, <1>16, <1>17,
       <1>18, <1>19 DEF FlushStep, FlushContinues

(* A step of a timer callback or of a caller of flush() keeps the types.    *)
LEMMA CallerTypes ==
    ASSUME TypeOK, NEW t \in Callers, CallerStep(t)
    PROVE  TypeOK'
  <1> USE DEF poolVars, shadowVars, histVars, diskVars, QueueUnchanged, FlushUnchanged
  <1>0. t \in FlushTasks /\ t \in Tasks
    BY DEF FlushTasks, Tasks
  <1>1. CASE FlushCall(t)
    BY <1>0, <1>1, HelperTypes DEF FlushCall, TypeOK, EnvEvents
  <1>2. CASE TimerFires(t)
    BY <1>0, <1>2, HelperTypes DEF TimerFires, TypeOK, Timers
  <1>3. CASE TimerFiresLate(t)
    <2>0. fl[t] \in FlushRun
      BY <1>0 DEF TypeOK
    <2>1. [fl[t] EXCEPT !.pc = "returned", !.kind = "timer", !.res = "rejected"] \in FlushRun
      BY <2>0 DEF FlushRun, FlushPcs
    <2>2. fl' = [fl EXCEPT ![t] =
                    [fl[t] EXCEPT !.pc = "returned", !.kind = "timer", !.res = "rejected"]]
      BY <1>0, <1>3 DEF TimerFiresLate, TypeOK
    <2>3. QED
      BY <1>3, <2>1, <2>2 DEF TimerFiresLate, TypeOK, Timers
  <1>4. CASE CallReturns(t)
    BY <1>0, <1>4, HelperTypes DEF CallReturns, TypeOK
  <1>5. CASE TimerReturns(t)
    BY <1>0, <1>5, HelperTypes DEF TimerReturns, TypeOK, FlushPcs
  <1>6. CASE Reschedule(t)
    BY <1>0, <1>6, HelperTypes DEF Reschedule, TypeOK
  <1>7. CASE Unhandled(t) \/ RescheduleTimeout(t)
    BY <1>7, EndTypes, HelperTypes DEF Unhandled, RescheduleTimeout, TimesOut, TypeOK, EnvEvents
  <1>8. QED
    BY <1>1, <1>2, <1>3, <1>4, <1>5, <1>6, <1>7 DEF CallerStep, CallerContinues

(* A read keeps the types.                                                  *)
LEMMA ReadTypes ==
    ASSUME TypeOK, NEW r \in Readers, ReadStep(r)
    PROVE  TypeOK'
  <1> USE DEF poolVars, shadowVars, histVars, diskVars, ReadUnchanged
  <1>0. r \in Tasks
    BY DEF Tasks
  <1>1. CASE ReadCall(r)
    <2>1. [rd[r] EXCEPT !.pc = "waitState", !.must = accepted] \in ReadRun
      BY DEF TypeOK, ReadRun
    <2>2. rd' = [rd EXCEPT ![r] = [rd[r] EXCEPT !.pc = "waitState", !.must = accepted]]
      BY <1>1 DEF ReadCall, TypeOK
    <2>3. QED
      BY <1>0, <1>1, <2>1, <2>2, HelperTypes DEF ReadCall, TypeOK
  <1>2. CASE ReadLocked(r)
    BY <1>2 DEF ReadLocked, TypeOK, ReadRun
  <1>3. CASE ReadDisk(r)
    <2>1. [rd[r] EXCEPT !.pc = "overlay", !.snap = applied] \in ReadRun
      BY DEF TypeOK, ReadRun
    <2>2. rd' = [rd EXCEPT ![r] = [rd[r] EXCEPT !.pc = "overlay", !.snap = applied]]
      BY <1>3 DEF ReadDisk, TypeOK
    <2>3. QED
      BY <1>3, <2>1, <2>2 DEF ReadDisk, TypeOK
  <1>4. CASE ReadOverlay(r)
    <2> DEFINE seen == [o \in Ops |-> rd[r].snap[o] + InMap(o, inflight) + InMap(o, active)]
    <2>1. seen \in [Ops -> Nat]
      BY DEF TypeOK, ReadRun, InMap
    <2>2. Nowhere \in [Ops -> Nat]
      BY DEF Nowhere
    <2> HIDE DEF seen
    <2>3. [rd[r] EXCEPT !.pc = "done", !.snap = Nowhere, !.seen = seen] \in ReadRun
      <3>1. \A run \in ReadRun, f, g \in [Ops -> Nat] :
                [run EXCEPT !.pc = "done", !.snap = f, !.seen = g] \in ReadRun
        BY DEF ReadRun
      <3>2. QED
        BY <2>1, <2>2, <3>1 DEF TypeOK
    <2>4. rd' = [rd EXCEPT ![r] = [rd[r] EXCEPT !.pc = "done", !.snap = Nowhere, !.seen = seen]]
      BY <1>4 DEF ReadOverlay, TypeOK, seen
    <2>5. QED
      BY <1>4, <2>3, <2>4, HelperTypes DEF ReadOverlay, TypeOK
  <1>5. CASE ReadTimeout(r)
    <2>1. [NoRead EXCEPT !.pc = "rejected"] \in ReadRun
      BY DEF NoRead, ReadRun, Nowhere
    <2>2. QED
      BY <1>0, <1>5, <2>1, HelperTypes DEF ReadTimeout, TypeOK, EnvEvents
  <1>6. QED
    BY <1>1, <1>2, <1>3, <1>4, <1>5 DEF ReadStep, ReadContinues

(* The type invariant is inductive.                                         *)
LEMMA TypeInductive ==
    ASSUME TypeOK, [Next]_vars
    PROVE  TypeOK'
  <1> USE DEF poolVars, shadowVars, histVars, diskVars
  <1>0. /\ Stopper \in FlushTasks /\ Stopper \in Tasks /\ Janitor \in Tasks
    BY DEF FlushTasks, Tasks
  <1>1. CASE StartStep
    BY <1>0, <1>1, HelperTypes
       DEF StartStep, StartCall, StartDone, StartFails, StartUnchanged, TypeOK, Lifecycles, EnvEvents
  <1>2. CASE StopStep
    BY <1>0, <1>2, HelperTypes
       DEF StopStep, StopNew, StopStarting, StopStarted, StopFlushAgain, StopDone, TypeOK,
           StopUnchanged, QueueUnchanged, FlushUnchanged, Lifecycles, Timers, FlushPcs
  <1>3. CASE IntervalTick
    BY <1>3, HelperTypes DEF IntervalTick, QueueUnchanged, FlushUnchanged, TypeOK
  <1>4. ASSUME NEW o \in Ops, Push(o)
        PROVE  TypeOK'
    BY <1>4, HelperTypes DEF Push, Bufs, TypeOK
  <1>5. CASE CleanupCall
    BY <1>0, <1>5, HelperTypes DEF CleanupCall, JanitorUnchanged, TypeOK, EnvEvents
  <1>6. CASE CleanupLocked
    BY <1>6, HelperTypes DEF CleanupLocked, JanitorUnchanged, TypeOK
  <1>7. CASE CleanupTimeout \/ Kill
    BY <1>7, EndTypes, HelperTypes DEF CleanupTimeout, Kill, TimesOut, TypeOK, EnvEvents
  <1>8. CASE UNCHANGED vars
    BY <1>8 DEF vars, TypeOK
  <1>9. QED
    BY <1>1, <1>2, <1>3, <1>4, <1>5, <1>6, <1>7, <1>8, AgentTypes, FlushTypes, CallerTypes,
       ReadTypes DEF Next, CleanupStep, Terminated

(* TypeOK holds in every reachable state of the pool.                       *)
THEOREM TypeCorrect == Spec => []TypeOK
  BY TypeInit, TypeInductive, PTL DEF Spec

-----------------------------------------------------------------------------
(* The environment's events only add up                                     *)

LEMMA CountSteps ==
    ASSUME TypeOK, [Next]_vars
    PROVE  UNCHANGED count \/ \E e \in EnvEvents : Happens(e)
  <1>0. {"call", "busy", "fatal", "timeout", "readtimeout", "expiry", "startfail", "kill"} = EnvEvents
    BY DEF EnvEvents
  <1>1. StartStep \/ StopStep \/ IntervalTick \/ Kill \/ CleanupStep =>
            UNCHANGED count \/ \E e \in EnvEvents : Happens(e)
    BY <1>0 DEF StartStep, StartCall, StartDone, StartFails, StopStep, StopNew, StopStarting,
                StopStarted, StopFlushAgain, StopDone, StopUnchanged, IntervalTick, Kill,
                CleanupStep, CleanupCall, CleanupLocked, CleanupTimeout, TimesOut
  <1>2. (\E o \in Ops : Push(o)) => UNCHANGED count
    BY DEF Push
  <1>3. \A a \in Agents : AgentStep(a) => UNCHANGED count \/ \E e \in EnvEvents : Happens(e)
    BY <1>0 DEF AgentStep, AgentContinues, AgentCall, AgentUnchanged, Begin, BeginLocked, AgentPush,
                AgentPushNoShadow, AgentPushLocked, Commit, CommitLocked, Rollback, RollbackLocked,
                Refused, AgentTimeout, LeaveState, LeaveQueue, TimesOut
  <1>4. \A t \in FlushTasks : FlushStep(t) => UNCHANGED count \/ \E e \in EnvEvents : Happens(e)
    BY <1>0 DEF FlushStep, FlushContinues, FlushLocked, Swap, TakeInFlight, Selected,
                NothingToFlush, Durable, Write, AwaitClear, Succeed, Fail, EndFlush, Busy, Fatal,
                Retry, RetryRefused, FlushMutexTimeout, StateMutexTimeout, FailTimeout, LeaveState,
                TimesOut
  <1>5. \A t \in Callers : CallerStep(t) => UNCHANGED count \/ \E e \in EnvEvents : Happens(e)
    BY <1>0 DEF CallerStep, CallerContinues, FlushCall, TimerFires, TimerFiresLate, CallReturns,
                TimerReturns, Reschedule, Unhandled, RescheduleTimeout, TimesOut
  <1>6. \A r \in Readers : ReadStep(r) => UNCHANGED count \/ \E e \in EnvEvents : Happens(e)
    BY <1>0 DEF ReadStep, ReadContinues, ReadUnchanged, ReadCall, ReadLocked, ReadDisk, ReadOverlay,
                ReadTimeout, LeaveState, LeaveQueue, TimesOut
  <1>7. QED
    BY <1>1, <1>2, <1>3, <1>4, <1>5, <1>6 DEF Next, Terminated, vars

(* An event that has not happened after a step had not happened before.     *)
LEMMA CountMonotone ==
    ASSUME TypeOK, [Next]_vars, NEW e \in EnvEvents, count'[e] = 0
    PROVE  count[e] = 0
  BY CountSteps DEF TypeOK, Happens

-----------------------------------------------------------------------------
(* Mutual exclusion of flushes                                              *)

(* The runs between their call of acquire() on the flush mutex and their    *)
(* release of it.                                                           *)
UserPcs == {"waitFlush", "waitState", "exec", "durable", "waitClear", "delay", "waitFail"}
FlushUsers == {t \in FlushTasks : fl[t].pc \in UserPcs}

ExclusionInv ==
    count["busy"] = 0 =>
        /\ Sound(flushMutex, FlushUsers)
        /\ \A t \in FlushTasks : Queued(flushMutex, t) => fl[t].pc = "waitFlush"
        /\ \A t \in FlushTasks : fl[t].pc # "delay"

(* Steps that leave the flush mutex and its users alone.                    *)
MutexFrame ==
    /\ UNCHANGED flushMutex
    /\ \A t \in FlushTasks :
        \/ fl'[t].pc = fl[t].pc
        \/ fl[t].pc \notin UserPcs /\ fl'[t].pc \notin UserPcs
        \/ /\ fl[t].pc \in UserPcs \ {"waitFlush"} \/ ~Queued(flushMutex, t)
           /\ fl[t].pc \in UserPcs
           /\ fl'[t].pc \in UserPcs \ {"waitFlush", "delay"}

LEMMA MutexFramePreserves ==
    ASSUME TypeOK, ExclusionInv, MutexFrame, count["busy"] = 0
    PROVE  ExclusionInv'
  <1>1. FlushUsers' = FlushUsers
    BY DEF MutexFrame, FlushUsers
  <1>2. QED
    BY <1>1 DEF ExclusionInv, MutexFrame, Sound, Queued, NoRepeat, UserPcs

(* A run of flush() begins.                                                 *)
LEMMA EnterPreserves ==
    ASSUME TypeOK, ExclusionInv, count["busy"] = 0, NEW t \in FlushTasks, fl[t].pc \notin UserPcs,
           NEW k \in {"call", "timer", "stop1", "stop2"}, EnterFlush(t, k)
    PROVE  ExclusionInv'
  <1>1. fl'[t].pc = "waitFlush" /\ \A u \in FlushTasks \ {t} : fl'[u] = fl[u]
    BY DEF EnterFlush, NoFlush, TypeOK
  <1>2. FlushUsers' = FlushUsers \cup {t} /\ t \notin FlushUsers
    BY <1>1 DEF FlushUsers, UserPcs
  <1>3. flushMutex \in Mutex(FlushTasks) /\ Sound(flushMutex, FlushUsers)
    BY DEF TypeOK, ExclusionInv
  <1>4. flushMutex' = Acquire(flushMutex, t)
    BY DEF EnterFlush
  <1>5. Sound(flushMutex', FlushUsers')
    BY <1>2, <1>3, <1>4, AcquireSound
  <1>6. ASSUME NEW u \in FlushTasks, Queued(flushMutex', u)
        PROVE  fl'[u].pc = "waitFlush"
    <2>1. NoRepeat(flushMutex.queue) /\ ~Queued(flushMutex, t)
      BY <1>2, <1>3, WaitersAreUsers DEF Sound
    <2>2. Queued(flushMutex, u) \/ u = t
      BY <1>3, <1>4, <1>6, <2>1, AcquireQueued
    <2>3. QED
      BY <1>1, <2>2 DEF ExclusionInv
  <1>7. \A u \in FlushTasks : fl'[u].pc # "delay"
    BY <1>1 DEF ExclusionInv
  <1>8. Sound(flushMutex, FlushUsers)'
    BY <1>5
  <1>9. QED
    BY <1>6, <1>7, <1>8 DEF ExclusionInv, Queued

(* The run that has the flush mutex releases it and returns.                *)
LEMMA ReturnPreserves ==
    ASSUME TypeOK, ExclusionInv, count["busy"] = 0, NEW t \in FlushTasks,
           fl[t].pc \in UserPcs \ {"waitFlush"},
           NEW r \in {"ok", "busy", "fatal", "rejected"}, Return(t, r),
           flushMutex' = Release(flushMutex)
    PROVE  ExclusionInv'
  <1>1. fl'[t].pc = "returned" /\ \A u \in FlushTasks \ {t} : fl'[u] = fl[u]
    BY DEF Return, NoFlush, TypeOK
  <1>2. FlushUsers' = FlushUsers \ {t} /\ t \in FlushUsers /\ ~Queued(flushMutex, t)
    BY <1>1 DEF FlushUsers, UserPcs, ExclusionInv
  <1>3. flushMutex \in Mutex(FlushTasks) /\ Sound(flushMutex, FlushUsers)
    BY DEF TypeOK, ExclusionInv
  <1>4. Sound(flushMutex', FlushUsers')
    BY <1>2, <1>3, ReleaseSound
  <1>5. \A u \in FlushTasks : Queued(flushMutex', u) => u \in FlushUsers' /\ Queued(flushMutex, u)
    <2>1. CASE flushMutex.queue # <<>>
      BY <1>3, <1>4, <2>1, ReleaseQueued, WaitersAreUsers DEF Sound
    <2>2. CASE flushMutex.queue = <<>>
      BY <1>3, <2>2 DEF Release, Queued, Mutex
    <2>3. QED
      BY <2>1, <2>2
  <1>6. \A u \in FlushTasks : Queued(flushMutex', u) => fl'[u].pc = "waitFlush"
    BY <1>1, <1>2, <1>5 DEF ExclusionInv
  <1>7. Sound(flushMutex, FlushUsers)'
    BY <1>4
  <1>8. QED
    BY <1>1, <1>6, <1>7 DEF ExclusionInv, Queued

(* A waiting run gives up.                                                  *)
LEMMA GiveUpPreserves ==
    ASSUME TypeOK, ExclusionInv, count["busy"] = 0, NEW t \in FlushTasks, FlushMutexTimeout(t)
    PROVE  ExclusionInv'
  <1>1. fl'[t].pc = "returned" /\ \A u \in FlushTasks \ {t} : fl'[u] = fl[u]
    BY DEF FlushMutexTimeout, Return, NoFlush, TypeOK
  <1>2. FlushUsers' = FlushUsers \ {t}
    BY <1>1 DEF FlushUsers, UserPcs
  <1>3. flushMutex \in Mutex(FlushTasks) /\ Sound(flushMutex, FlushUsers)
    BY DEF TypeOK, ExclusionInv
  <1>4. PICK i \in 1..Len(flushMutex.queue) :
            flushMutex.queue[i] = t /\ flushMutex' = GiveUp(flushMutex, i)
    BY DEF FlushMutexTimeout
  <1>5. Sound(flushMutex', FlushUsers')
    BY <1>2, <1>3, <1>4, GiveUpSound
  <1>6. \A u \in FlushTasks : Queued(flushMutex', u) => Queued(flushMutex, u) /\ u # t
    BY <1>3, <1>4, GiveUpQueued DEF Sound
  <1>7. \A u \in FlushTasks : Queued(flushMutex', u) => fl'[u].pc = "waitFlush"
    BY <1>1, <1>6 DEF ExclusionInv
  <1>8. Sound(flushMutex, FlushUsers)'
    BY <1>5
  <1>9. QED
    BY <1>1, <1>7, <1>8 DEF ExclusionInv, Queued

LEMMA ExclusionInit == Init => ExclusionInv
  <1>1. Init => flushMutex = Unlocked /\ FlushUsers = {}
    BY DEF Init, FlushUsers, UserPcs, NoFlush
  <1>2. Sound(Unlocked, {}) /\ \A t : ~Queued(Unlocked, t)
    BY DEF Sound, Unlocked, NoRepeat, Queued
  <1>3. Init => \A t \in FlushTasks : fl[t].pc # "delay"
    BY DEF Init, NoFlush
  <1>4. QED
    BY <1>1, <1>2, <1>3 DEF ExclusionInv

(* A step of a flush preserves the exclusion.                               *)
LEMMA FlushExclusion ==
    ASSUME TypeOK, ExclusionInv, count["busy"] = 0, count'["busy"] = 0,
           NEW t \in FlushTasks, FlushStep(t)
    PROVE  ExclusionInv'
  <1>1. CASE FlushLocked(t) \/ Swap(t) \/ TakeInFlight(t) \/ Durable(t) \/ AwaitClear(t)
             \/ Fatal(t) \/ StateMutexTimeout(t)
    <2>1. /\ UNCHANGED flushMutex
          /\ fl[t].pc \in UserPcs \ {"waitFlush"} \/ ~Queued(flushMutex, t)
          /\ fl[t].pc \in UserPcs
      BY <1>1 DEF FlushLocked, Swap, TakeInFlight, Selected, Durable, Write, AwaitClear, Fatal,
                  StateMutexTimeout, UserPcs
    <2>2. fl'[t].pc \in UserPcs \ {"waitFlush", "delay"} /\ \A u \in FlushTasks \ {t} : fl'[u] = fl[u]
      BY <1>1 DEF FlushLocked, Swap, TakeInFlight, Selected, Durable, Write, AwaitClear, Fatal,
                  StateMutexTimeout, UserPcs, Goto, Catch, TypeOK, FlushRun
    <2>3. MutexFrame
      BY <2>1, <2>2 DEF MutexFrame
    <2>4. QED
      BY <2>3, MutexFramePreserves
  <1>2. CASE NothingToFlush(t) \/ Succeed(t) \/ Fail(t) \/ FailTimeout(t)
    BY <1>2, ReturnPreserves DEF NothingToFlush, Succeed, Fail, EndFlush, FailTimeout, UserPcs
  <1>3. ~Retry(t) /\ ~RetryRefused(t)
    BY DEF ExclusionInv, Retry, RetryRefused
  <1>4. ~Busy(t)
    BY DEF Busy, Happens, TypeOK, EnvEvents
  <1>5. CASE FlushMutexTimeout(t)
    BY <1>5, GiveUpPreserves
  <1>6. QED
    BY <1>1, <1>2, <1>3, <1>4, <1>5 DEF FlushStep, FlushContinues

(* ExclusionInv is inductive.                                               *)
LEMMA ExclusionInductive ==
    ASSUME TypeOK, ExclusionInv, [Next]_vars
    PROVE  ExclusionInv'
  <1> SUFFICES ASSUME count'["busy"] = 0
               PROVE  ExclusionInv'
    BY DEF ExclusionInv
  <1>0. count["busy"] = 0 /\ Stopper \in FlushTasks /\ Callers \subseteq FlushTasks
    BY CountMonotone DEF EnvEvents, FlushTasks
  <1>1. CASE ProcessEnds
    <2>1. flushMutex' = Unlocked /\ FlushUsers' = {}
      BY <1>1 DEF ProcessEnds, FlushUsers, UserPcs, NoFlush
    <2>2. Sound(Unlocked, {}) /\ \A t : ~Queued(Unlocked, t)
      BY DEF Sound, Unlocked, NoRepeat, Queued
    <2>3. Sound(flushMutex, FlushUsers)' /\ \A t : ~Queued(flushMutex, t)'
      BY <2>1, <2>2
    <2>4. QED
      BY <1>1, <2>3 DEF ExclusionInv, ProcessEnds, NoFlush
  <1>2. CASE StartStep
    <2>1. MutexFrame
      BY <1>0, <1>2 DEF StartStep, StartCall, StartDone, StartFails, StartUnchanged, Idle, NoFlush,
                        MutexFrame, UserPcs, TypeOK
    <2>2. QED
      BY <1>0, <2>1, MutexFramePreserves
  <1>3. CASE StopStep
    <2>1. CASE StopNew \/ StopStarting \/ StopDone
      <3>1. MutexFrame
        BY <1>0, <2>1 DEF StopNew, StopStarting, StopDone, Goto, Idle, NoFlush, MutexFrame, UserPcs,
                          TypeOK, FlushRun
      <3>2. QED
        BY <1>0, <3>1, MutexFramePreserves
    <2>2. CASE StopStarted \/ StopFlushAgain
      BY <1>0, <2>2, EnterPreserves DEF StopStarted, StopFlushAgain, UserPcs
    <2>3. QED
      BY <1>3, <2>1, <2>2 DEF StopStep
  <1>4. ASSUME NEW t \in Callers, CallerStep(t)
        PROVE  ExclusionInv'
    <2>1. CASE FlushCall(t) \/ TimerFires(t)
      BY <1>0, <2>1, EnterPreserves DEF FlushCall, TimerFires, UserPcs
    <2>2. CASE TimerFiresLate(t) \/ CallReturns(t) \/ TimerReturns(t) \/ Reschedule(t)
      <3>1. UNCHANGED flushMutex /\ fl[t].pc \notin UserPcs /\ \A u \in FlushTasks \ {t} : fl'[u] = fl[u]
        BY <1>0, <2>2 DEF TimerFiresLate, CallReturns, TimerReturns, Reschedule, Goto, Idle, TypeOK,
                          UserPcs
      <3>2. fl'[t].pc \in {"returned", "waitResched", "idle"}
        <4>1. CASE TimerFiresLate(t) \/ TimerReturns(t)
          BY <1>0, <4>1 DEF TimerFiresLate, TimerReturns, Goto, TypeOK, FlushRun
        <4>2. CASE CallReturns(t) \/ Reschedule(t)
          BY <1>0, <4>2 DEF CallReturns, Reschedule, Idle, NoFlush, TypeOK
        <4>3. QED
          BY <2>2, <4>1, <4>2
      <3>3. fl'[t].pc \notin UserPcs
        BY <3>2 DEF UserPcs
      <3>4. MutexFrame
        BY <3>1, <3>3 DEF MutexFrame
      <3>5. QED
        BY <1>0, <3>4, MutexFramePreserves
    <2>3. QED
      BY <1>1, <1>4, <2>1, <2>2 DEF CallerStep, CallerContinues, Unhandled, RescheduleTimeout
  <1>5. CASE UNCHANGED <<fl, flushMutex>>
    <2>1. MutexFrame
      BY <1>5 DEF MutexFrame
    <2>2. QED
      BY <1>0, <2>1, MutexFramePreserves
  <1>6. IntervalTick \/ (\E o \in Ops : Push(o)) => UNCHANGED <<fl, flushMutex>>
    BY DEF IntervalTick, Push
  <1>7. \A a \in Agents : AgentStep(a) => UNCHANGED <<fl, flushMutex>>
    BY DEF AgentStep, AgentContinues, AgentCall, AgentUnchanged, Begin, BeginLocked, AgentPush,
           AgentPushNoShadow, AgentPushLocked, Commit, CommitLocked, Rollback, RollbackLocked,
           Refused, AgentTimeout
  <1>8. CleanupStep \/ Kill => ProcessEnds \/ UNCHANGED <<fl, flushMutex>>
    BY DEF CleanupStep, CleanupCall, CleanupLocked, CleanupTimeout, JanitorUnchanged, Kill
  <1>9. \A r \in Readers : ReadStep(r) => UNCHANGED <<fl, flushMutex>>
    BY DEF ReadStep, ReadContinues, ReadUnchanged, ReadCall, ReadLocked, ReadDisk, ReadOverlay,
           ReadTimeout
  <1>10. Terminated \/ UNCHANGED vars => UNCHANGED <<fl, flushMutex>>
    BY DEF Terminated, vars
  <1>11. QED
    BY <1>0, <1>1, <1>2, <1>3, <1>4, <1>5, <1>6, <1>7, <1>8, <1>9, <1>10, FlushExclusion DEF Next

LEMMA ExclusionHolds == Spec => []ExclusionInv
  BY ExclusionInit, ExclusionInductive, TypeCorrect, PTL DEF Spec

(* As long as no transaction met BUSY, flushes exclude each other, mutex    *)
(* timeouts or not.                                                         *)
THEOREM FlushExclusive == Spec => []AtMostOneFlush
  <1>1. ExclusionInv => AtMostOneFlush
    BY DEF ExclusionInv, AtMostOneFlush, Sound, FlushHolders, FlushUsers, UserPcs
  <1>2. QED
    BY <1>1, ExclusionHolds, PTL

-----------------------------------------------------------------------------
(* Transactions                                                             *)

(* The set holds all of what an agent committed, or none of it.             *)
Undivided(S) == \A a \in Agents : committed[a] \subseteq S \/ committed[a] \cap S = {}

(* Every place an operation can be in is undivided.                         *)
PlacesUndivided ==
    /\ \A b \in Bufs : Undivided(buf[b])
    /\ \A t \in FlushTasks : Undivided(fl[t].ops)
    /\ Undivided(deadLetters)
    /\ \A a \in Agents : \A o, q \in committed[a] : applied[o] = applied[q]

(* The operations of an agent stay with it until they are committed.        *)
OwnOps ==
    \A a \in Agents : /\ committed[a] \subseteq TxnOps[a]
                      /\ shadow[a] \subseteq TxnOps[a]
                      /\ ag[a].pending \subseteq TxnOps[a]

Unseen(o) ==
    /\ \A b \in Bufs : o \notin buf[b]
    /\ \A t \in FlushTasks : o \notin fl[t].ops
    /\ o \notin deadLetters
    /\ applied[o] = 0

UncommittedUnseen == \A a \in Agents : \A o \in TxnOps[a] \ committed[a] : Unseen(o)

(* An agent commits once.                                                   *)
CommitOnce ==
    lifecycle # "crashed" => \A a \in Agents : committed[a] # {} => ag[a].pc = "committed"

(* When the process has ended nothing is left to run.                       *)
Quiet ==
    lifecycle = "crashed" =>
        /\ timer # "on"
        /\ \A t \in FlushTasks : fl[t].pc = "idle"
        /\ \A a \in Agents : ag[a].pc = "idle"
        /\ \A r \in Readers : rd[r].pc = "idle"
        /\ jpc = "idle"

TxnInv == PlacesUndivided /\ OwnOps /\ UncommittedUnseen /\ CommitOnce /\ Quiet

-----------------------------------------------------------------------------
(* The end of the process                                                   *)

(* Once the process has ended nothing changes any more.                     *)
LEMMA EndIsFinal ==
    ASSUME TypeOK, Quiet, lifecycle = "crashed", [Next]_vars
    PROVE  UNCHANGED vars
  <1> USE DEF Quiet
  <1>0. Stopper \in FlushTasks /\ Callers \subseteq FlushTasks
    BY DEF FlushTasks
  <1>1. ~StartStep
    BY DEF StartStep, StartCall, StartDone, StartFails
  <1>2. ~StopStep
    BY <1>0 DEF StopStep, StopNew, StopStarting, StopStarted, StopFlushAgain, StopDone
  <1>3. ~IntervalTick /\ ~(\E o \in Ops : Push(o)) /\ ~Kill
    BY DEF IntervalTick, Push, Kill
  <1>4. \A a \in Agents : ~AgentStep(a)
    BY DEF AgentStep, AgentContinues, AgentCall, AgentLocked, Begin, BeginLocked, AgentPush,
           AgentPushNoShadow, AgentPushLocked, Commit, CommitLocked, Rollback, RollbackLocked,
           Refused, AgentTimeout
  <1>5. ~CleanupStep
    BY DEF CleanupStep, CleanupCall, CleanupLocked, CleanupTimeout
  <1>6. \A t \in FlushTasks : ~FlushStep(t)
    BY DEF FlushStep, FlushContinues, FlushLocked, Swap, TakeInFlight, Selected, NothingToFlush,
           Durable, Write, AwaitClear, Succeed, Fail, Busy, Fatal, Retry, RetryRefused,
           FlushMutexTimeout, StateMutexTimeout, FailTimeout
  <1>7. \A t \in Callers : ~CallerStep(t)
    BY <1>0 DEF CallerStep, CallerContinues, FlushCall, TimerFires, TimerFiresLate, CallReturns,
           TimerReturns, Reschedule, Unhandled, RescheduleTimeout
  <1>8. \A r \in Readers : ~ReadStep(r)
    BY DEF ReadStep, ReadContinues, ReadCall, ReadLocked, ReadDisk, ReadOverlay, ReadTimeout
  <1>9. QED
    BY <1>1, <1>2, <1>3, <1>4, <1>5, <1>6, <1>7, <1>8 DEF Next, Terminated

(* A step that ends the process leaves nothing to run.                      *)
LEMMA EndIsQuiet ==
    ASSUME TypeOK, ProcessEnds
    PROVE  Quiet'
  BY DEF Quiet, ProcessEnds, NoFlush, NoAgent, NoRead

(* The only steps that end the process are those of ProcessEnds.            *)
LEMMA OnlyEndEnds ==
    ASSUME TypeOK, [Next]_vars, lifecycle # "crashed", lifecycle' = "crashed"
    PROVE  ProcessEnds
  <1>1. ~StartStep /\ ~StopStep /\ ~IntervalTick /\ ~(\E o \in Ops : Push(o))
    BY DEF StartStep, StartCall, StartDone, StartFails, StopStep, StopNew, StopStarting,
           StopStarted, StopFlushAgain, StopDone, IntervalTick, Push
  <1>2. \A a \in Agents : ~AgentStep(a)
    BY DEF AgentStep, AgentContinues, AgentCall, AgentUnchanged, Begin, BeginLocked, AgentPush,
           AgentPushNoShadow, AgentPushLocked, Commit, CommitLocked, Rollback, RollbackLocked,
           Refused, AgentTimeout
  <1>3. CleanupStep \/ Kill => ProcessEnds
    BY DEF CleanupStep, CleanupCall, CleanupLocked, CleanupTimeout, Kill
  <1>4. \A t \in FlushTasks : ~FlushStep(t)
    BY DEF FlushStep, FlushContinues, FlushLocked, Swap, TakeInFlight, Selected, NothingToFlush,
           Durable, Write, AwaitClear, Succeed, Fail, EndFlush, Busy, Fatal, Retry, RetryRefused,
           FlushMutexTimeout, StateMutexTimeout, FailTimeout
  <1>5. \A t \in Callers : CallerStep(t) => ProcessEnds
    BY DEF CallerStep, CallerContinues, FlushCall, TimerFires, TimerFiresLate, CallReturns,
           TimerReturns, Reschedule, Unhandled, RescheduleTimeout
  <1>6. \A r \in Readers : ~ReadStep(r)
    BY DEF ReadStep, ReadContinues, ReadUnchanged, ReadCall, ReadLocked, ReadDisk, ReadOverlay,
           ReadTimeout
  <1>7. QED
    BY <1>1, <1>2, <1>3, <1>4, <1>5, <1>6 DEF Next, Terminated, vars

LEMMA QuietInductive ==
    ASSUME TypeOK, Quiet, [Next]_vars
    PROVE  Quiet'
  <1>1. CASE lifecycle = "crashed"
    <2>1. UNCHANGED vars
      BY <1>1, EndIsFinal
    <2>2. QED
      BY <1>1, <2>1 DEF vars, Quiet
  <1>2. CASE lifecycle # "crashed" /\ lifecycle' = "crashed"
    BY <1>2, OnlyEndEnds, EndIsQuiet
  <1>3. CASE lifecycle' # "crashed"
    BY <1>3 DEF Quiet
  <1>4. QED
    BY <1>1, <1>2, <1>3

-----------------------------------------------------------------------------
(* Steps that hand nothing over                                             *)

(* What a step may do to the data that does not matter to TxnInv.           *)
DataFrame ==
    /\ UNCHANGED <<committed, applied, deadLetters>>
    /\ \A b \in Bufs : buf'[b] = buf[b] \/ buf'[b] = {}
    /\ \A t \in FlushTasks :
        fl'[t].ops = {} \/ fl'[t].ops = fl[t].ops \/ \E b \in Bufs : fl'[t].ops = buf[b]

(* What it may do to the agents.                                            *)
AgentFrame ==
    \A a \in Agents : /\ shadow'[a] \subseteq TxnOps[a]
                      /\ ag'[a].pending \subseteq TxnOps[a]
                      /\ ag[a].pc = "committed" => ag'[a].pc = "committed"

(* Steps within both frames preserve the data part of the invariant.        *)
LEMMA FramePreserves ==
    ASSUME TypeOK, PlacesUndivided, OwnOps, UncommittedUnseen, DataFrame,
           \A a \in Agents : shadow'[a] \subseteq TxnOps[a] /\ ag'[a].pending \subseteq TxnOps[a]
    PROVE  PlacesUndivided' /\ OwnOps' /\ UncommittedUnseen'
  <1>1. PlacesUndivided'
    BY DEF PlacesUndivided, Undivided, DataFrame
  <1>2. OwnOps'
    BY DEF OwnOps, DataFrame
  <1>3. UncommittedUnseen'
    BY DEF UncommittedUnseen, Unseen, DataFrame
  <1>4. QED
    BY <1>1, <1>2, <1>3

(* Moving a flush or an agent on leaves its data alone.                     *)
LEMMA GotoFrame ==
    ASSUME TypeOK
    PROVE  /\ \A t \in FlushTasks, pc \in FlushPcs :
                Goto(t, pc) => \A u \in FlushTasks : fl'[u].ops = fl[u].ops
           /\ \A t \in FlushTasks, r \in {"busy", "fatal"} :
                Catch(t, r) => \A u \in FlushTasks : fl'[u].ops = fl[u].ops
           /\ \A a \in Agents, pc \in AgentPcs :
                AgentGoto(a, pc) => \A b \in Agents :
                    ag'[b].pending = ag[b].pending /\ (b # a => ag'[b].pc = ag[b].pc)
  <1>1. ASSUME NEW t \in FlushTasks, NEW pc \in FlushPcs, Goto(t, pc)
        PROVE  \A u \in FlushTasks : fl'[u].ops = fl[u].ops
    BY <1>1 DEF Goto, TypeOK, FlushRun
  <1>2. ASSUME NEW t \in FlushTasks, NEW r \in {"busy", "fatal"}, Catch(t, r)
        PROVE  \A u \in FlushTasks : fl'[u].ops = fl[u].ops
    BY <1>2 DEF Catch, TypeOK, FlushRun
  <1>3. ASSUME NEW a \in Agents, NEW pc \in AgentPcs, AgentGoto(a, pc)
        PROVE  \A b \in Agents :
                    ag'[b].pending = ag[b].pending /\ (b # a => ag'[b].pc = ag[b].pc)
    BY <1>3 DEF AgentGoto, TypeOK, AgentRun
  <1>4. QED
    BY <1>1, <1>2, <1>3

(* Every step of a flush but the transaction and a fatal failure.           *)
LEMMA FlushFrame ==
    ASSUME TypeOK, NEW t \in FlushTasks, FlushStep(t), ~Durable(t), ~Fail(t)
    PROVE  DataFrame /\ UNCHANGED <<shadow, ag>>
  <1> USE DEF QueueUnchanged, FlushUnchanged, poolVars, shadowVars, histVars, diskVars
  <1>1. CASE FlushLocked(t) \/ AwaitClear(t)
    BY <1>1, GotoFrame DEF FlushLocked, AwaitClear, DataFrame, FlushPcs
  <1>2. CASE Swap(t)
    <2>1. \A b \in Bufs : buf'[b] = buf[b] \/ buf'[b] = {}
      BY <1>2 DEF Swap, TypeOK
    <2>2. \A u \in FlushTasks : fl'[u].ops = fl[u].ops \/ fl'[u].ops = buf[active]
      BY <1>2 DEF Swap, Selected, TypeOK, FlushRun
    <2>3. QED
      BY <1>2, <2>1, <2>2 DEF Swap, Selected, DataFrame, TypeOK, Bufs
  <1>3. CASE TakeInFlight(t)
    <2>1. \A u \in FlushTasks : fl'[u].ops = fl[u].ops \/ fl'[u].ops = buf[inflight]
      BY <1>3 DEF TakeInFlight, Selected, TypeOK, FlushRun
    <2>2. QED
      BY <1>3, <2>1 DEF TakeInFlight, Selected, DataFrame, TypeOK
  <1>4. CASE NothingToFlush(t) \/ RetryRefused(t) \/ FlushMutexTimeout(t) \/ FailTimeout(t)
    BY <1>4 DEF NothingToFlush, RetryRefused, FlushMutexTimeout, FailTimeout, Return, NoFlush,
                DataFrame, TypeOK
  <1>5. CASE Succeed(t)
    BY <1>5 DEF Succeed, ClearInFlight, EndFlush, Return, NoFlush, DataFrame, TypeOK
  <1>6. CASE Retry(t)
    BY <1>6 DEF Retry, DataFrame, TypeOK, FlushRun
  <1>7. CASE Busy(t) \/ Fatal(t) \/ StateMutexTimeout(t)
    BY <1>7, GotoFrame DEF Busy, Fatal, StateMutexTimeout, DataFrame, FlushPcs
  <1>8. QED
    BY <1>1, <1>2, <1>3, <1>4, <1>5, <1>6, <1>7 DEF FlushStep, FlushContinues

(* Steps of the timers, of callers of flush(), of start(), stop() and reads *)
(* that do not end the process.                                             *)
LEMMA OtherFrame ==
    ASSUME TypeOK, lifecycle' # "crashed",
           \/ StartStep \/ StopStep \/ IntervalTick
           \/ \E t \in Callers : CallerStep(t)
           \/ \E r \in Readers : ReadStep(r)
    PROVE  DataFrame /\ UNCHANGED <<shadow, ag>>
  <1> USE DEF QueueUnchanged, FlushUnchanged, poolVars, shadowVars, histVars, diskVars
  <1>0. Stopper \in FlushTasks /\ Callers \subseteq FlushTasks
    BY DEF FlushTasks
  <1>1. CASE StartStep
    BY <1>0, <1>1 DEF StartStep, StartCall, StartDone, StartFails, StartUnchanged, Idle, NoFlush,
                      DataFrame, TypeOK
  <1>2. CASE StopStep
    <2>1. CASE StopNew \/ StopStarting
      BY <1>0, <2>1, GotoFrame DEF StopNew, StopStarting, StopUnchanged, DataFrame, FlushPcs
    <2>2. CASE StopStarted \/ StopFlushAgain
      BY <1>0, <2>2 DEF StopStarted, StopFlushAgain, StopUnchanged, EnterFlush, NoFlush, DataFrame,
                        TypeOK
    <2>3. CASE StopDone
      BY <1>0, <2>3 DEF StopDone, StopUnchanged, Idle, NoFlush, DataFrame, TypeOK
    <2>4. QED
      BY <1>2, <2>1, <2>2, <2>3 DEF StopStep
  <1>3. CASE IntervalTick
    BY <1>3 DEF IntervalTick, DataFrame, TypeOK
  <1>4. ASSUME NEW t \in Callers, CallerStep(t)
        PROVE  DataFrame /\ UNCHANGED <<shadow, ag>>
    <2>1. CASE FlushCall(t) \/ TimerFires(t)
      BY <1>0, <2>1 DEF FlushCall, TimerFires, EnterFlush, NoFlush, DataFrame, TypeOK
    <2>2. CASE TimerFiresLate(t) \/ TimerReturns(t)
      BY <1>0, <2>2 DEF TimerFiresLate, TimerReturns, Goto, DataFrame, TypeOK, FlushRun
    <2>3. CASE CallReturns(t) \/ Reschedule(t)
      BY <1>0, <2>3 DEF CallReturns, Reschedule, Idle, NoFlush, DataFrame, TypeOK
    <2>4. CASE Unhandled(t) \/ RescheduleTimeout(t)
      BY <2>4 DEF Unhandled, RescheduleTimeout, ProcessEnds
    <2>5. QED
      BY <1>4, <2>1, <2>2, <2>3, <2>4 DEF CallerStep, CallerContinues
  <1>5. ASSUME NEW r \in Readers, ReadStep(r)
        PROVE  DataFrame /\ UNCHANGED <<shadow, ag>>
    BY <1>5 DEF ReadStep, ReadContinues, ReadCall, ReadLocked, ReadDisk, ReadOverlay, ReadTimeout,
                ReadUnchanged, DataFrame, TypeOK
  <1>6. QED
    BY <1>1, <1>2, <1>3, <1>4, <1>5

(* Steps of an agent but its commit.                                        *)
LEMMA AgentFrames ==
    ASSUME TypeOK, OwnOps, NEW a \in Agents, AgentStep(a), ~CommitLocked(a)
    PROVE  DataFrame /\ AgentFrame
  <1> USE DEF AgentUnchanged, poolVars, shadowVars, histVars, diskVars
  <1>1. DataFrame
    BY DEF AgentStep, AgentContinues, AgentCall, Begin, BeginLocked, AgentPush,
           AgentPushNoShadow, AgentPushLocked, Commit, Rollback, RollbackLocked, Refused,
           AgentTimeout, DataFrame, TypeOK
  <1> SUFFICES AgentFrame
    BY <1>1
  <1>2. ASSUME NEW ops \in SUBSET TxnOps[a], AddToShadow(a, ops)
        PROVE  \A b \in Agents : shadow'[b] \subseteq TxnOps[b]
    BY <1>2 DEF AddToShadow, OwnOps, TypeOK
  <1>3. CASE Begin(a) \/ Commit(a) \/ Rollback(a) \/ Refused(a) \/ AgentTimeout(a)
    BY <1>3, GotoFrame DEF AgentCall, Begin, Commit, Rollback, Refused, AgentTimeout, AgentFrame,
                           OwnOps, AgentPcs
  <1>4. CASE BeginLocked(a)
    BY <1>2, <1>4, GotoFrame DEF BeginLocked, AgentLocked, AgentFrame, OwnOps, AgentPcs
  <1>5. CASE AgentPushLocked(a)
    <2>1. \A b \in Agents : shadow'[b] \subseteq TxnOps[b]
      BY <1>2, <1>5 DEF AgentPushLocked, OwnOps
    <2>2. ag' = [ag EXCEPT ![a] = [ag[a] EXCEPT !.pc = "open", !.pending = {}]]
      BY <1>5 DEF AgentPushLocked, TypeOK
    <2>3. [ag[a] EXCEPT !.pc = "open", !.pending = {}].pending = {}
      BY DEF TypeOK, AgentRun
    <2>4. \A b \in Agents : /\ ag'[b].pending = ag[b].pending \/ ag'[b].pending = {}
                            /\ b # a => ag'[b].pc = ag[b].pc
      BY <2>2, <2>3 DEF TypeOK
    <2>5. QED
      BY <1>5, <2>1, <2>4 DEF AgentPushLocked, AgentLocked, AgentFrame, OwnOps
  <1>6. CASE RollbackLocked(a)
    <2>1. \A b \in Agents : shadow'[b] \subseteq TxnOps[b]
      BY <1>6 DEF RollbackLocked, DropShadow, OwnOps, TypeOK
    <2>2. AgentGoto(a, "rolledback") /\ ag[a].pc # "committed"
      BY <1>6 DEF RollbackLocked, AgentLocked
    <2>3. \A b \in Agents : ag'[b].pending = ag[b].pending /\ (b # a => ag'[b].pc = ag[b].pc)
      BY <2>2, GotoFrame DEF AgentPcs
    <2>4. QED
      BY <2>1, <2>2, <2>3 DEF AgentFrame, OwnOps
  <1>7. ASSUME NEW o \in Ops, AgentPush(a, o)
        PROVE  AgentFrame
    BY <1>2, <1>7 DEF AgentPush, AgentFrame, OwnOps, TypeOK, AgentRun
  <1>8. ASSUME NEW o \in Ops, AgentPushNoShadow(a, o)
        PROVE  AgentFrame
    BY <1>8 DEF AgentPushNoShadow, AgentFrame, OwnOps, TypeOK, AgentRun
  <1>9. QED
    BY <1>3, <1>4, <1>5, <1>6, <1>7, <1>8 DEF AgentStep, AgentContinues

(* The clean-up of shadows that does not end the process.                   *)
LEMMA CleanupFrames ==
    ASSUME TypeOK, OwnOps, CleanupStep, lifecycle' # "crashed"
    PROVE  DataFrame /\ AgentFrame
  <1> USE DEF JanitorUnchanged, poolVars, shadowVars, histVars, diskVars
  <1>1. CASE CleanupCall
    BY <1>1 DEF CleanupCall, DataFrame, AgentFrame, OwnOps, TypeOK
  <1>2. CASE CleanupLocked
    BY <1>2 DEF CleanupLocked, DataFrame, AgentFrame, OwnOps, TypeOK
  <1>3. CASE CleanupTimeout
    BY <1>3 DEF CleanupTimeout, ProcessEnds
  <1>4. QED
    BY <1>1, <1>2, <1>3 DEF CleanupStep

-----------------------------------------------------------------------------
(* Steps that move operations                                               *)

(* What the data part of the invariant is about.                            *)
DataInv == PlacesUndivided /\ OwnOps /\ UncommittedUnseen

(* A plain write is no agent's.                                             *)
LEMMA PushPreserves ==
    ASSUME TypeOK, DataInv, NEW o \in Ops, Push(o)
    PROVE  DataInv'
  <1> USE DEF DataInv, shadowVars, diskVars
  <1>1. \A a \in Agents : o \notin TxnOps[a]
    BY DEF Push, PlainOps
  <1>2. UNCHANGED <<committed, shadow, ag, fl, applied, deadLetters>>
    BY DEF Push
  <1>3. \A b \in Bufs : buf'[b] = buf[b] \/ buf'[b] = buf[b] \cup {o}
    BY DEF Push, TypeOK
  <1>4. PlacesUndivided'
    BY <1>1, <1>2, <1>3 DEF PlacesUndivided, Undivided, OwnOps
  <1>5. OwnOps' /\ UncommittedUnseen'
    BY <1>1, <1>2, <1>3 DEF OwnOps, UncommittedUnseen, Unseen
  <1>6. QED
    BY <1>4, <1>5

(* A commit moves operations that were nowhere else to one buffer.          *)
LEMMA CommitPreserves ==
    ASSUME TypeOK, DataInv, NEW a \in Agents, CommitLocked(a), committed[a] = {}
    PROVE  DataInv'
  <1> USE DEF DataInv, diskVars
  <1> DEFINE ops == IF a \in shadows THEN shadow[a] ELSE {}
  <1>1. ops \subseteq TxnOps[a]
    BY DEF OwnOps
  <1>2. /\ UNCHANGED <<fl, applied, deadLetters>>
        /\ committed' = [committed EXCEPT ![a] = ops]
        /\ buf' = [buf EXCEPT ![active] = @ \cup ops]
        /\ shadow' = [shadow EXCEPT ![a] = {}]
    BY DEF CommitLocked, DropShadow
  <1>3. \A b \in Agents : ag'[b].pending = ag[b].pending
    BY GotoFrame DEF CommitLocked, AgentLocked, AgentPcs
  <1>4. \A o \in ops : Unseen(o)
    BY <1>1 DEF UncommittedUnseen
  <1>5. \A b \in Agents : b # a => TxnOps[b] \cap ops = {} /\ committed[b] \cap ops = {}
    BY <1>1, DbPoolAssumption DEF OwnOps
  <1> HIDE DEF ops
  <1>6. /\ committed'[a] = ops
        /\ \A b \in Agents : b # a => committed'[b] = committed[b]
    BY <1>2 DEF TypeOK
  <1>7. /\ buf'[active] = buf[active] \cup ops
        /\ \A b \in Bufs : b # active => buf'[b] = buf[b]
    BY <1>2 DEF TypeOK, Bufs
  <1>8. PlacesUndivided'
    <2>1. ASSUME NEW b \in Bufs, NEW c \in Agents
          PROVE  committed'[c] \subseteq buf'[b] \/ committed'[c] \cap buf'[b] = {}
      <3>1. CASE c = a
        BY <1>4, <1>6, <1>7, <3>1 DEF Unseen
      <3>2. CASE c # a
        BY <1>5, <1>6, <1>7, <3>2 DEF PlacesUndivided, Undivided
      <3>3. QED
        BY <3>1, <3>2
    <2>2. ASSUME NEW t \in FlushTasks, NEW c \in Agents
          PROVE  committed'[c] \subseteq fl'[t].ops \/ committed'[c] \cap fl'[t].ops = {}
      BY <1>2, <1>4, <1>6 DEF PlacesUndivided, Undivided, Unseen
    <2>3. ASSUME NEW c \in Agents
          PROVE  /\ committed'[c] \subseteq deadLetters' \/ committed'[c] \cap deadLetters' = {}
                 /\ \A o, q \in committed'[c] : applied'[o] = applied'[q]
      BY <1>2, <1>4, <1>6 DEF PlacesUndivided, Undivided, Unseen
    <2>4. QED
      BY <2>1, <2>2, <2>3 DEF PlacesUndivided, Undivided
  <1>9. OwnOps'
    BY <1>1, <1>2, <1>3, <1>6 DEF OwnOps, TypeOK
  <1>10. UncommittedUnseen'
    <2>1. ASSUME NEW c \in Agents, NEW o \in TxnOps[c] \ committed'[c]
          PROVE  Unseen(o)'
      <3>1. o \notin ops
        BY <1>5, <1>6
      <3>2. Unseen(o)
        BY <1>6 DEF UncommittedUnseen
      <3>3. QED
        BY <1>2, <1>7, <3>1, <3>2 DEF Unseen
    <2>2. QED
      BY <2>1 DEF UncommittedUnseen
  <1>11. QED
    BY <1>8, <1>9, <1>10

(* A transaction writes a batch, which is undivided.                        *)
LEMMA DurablePreserves ==
    ASSUME TypeOK, DataInv, NEW t \in FlushTasks, Durable(t)
    PROVE  DataInv'
  <1> USE DEF DataInv, FlushUnchanged, poolVars, shadowVars, histVars
  <1>1. /\ UNCHANGED <<buf, deadLetters, committed, shadow, ag>>
        /\ \A u \in FlushTasks : fl'[u].ops = fl[u].ops
    BY GotoFrame DEF Durable, Write, FlushPcs
  <1>2. \A o \in Ops : applied'[o] = IF o \in fl[t].ops THEN applied[o] + 1 ELSE applied[o]
    BY DEF Durable, Write
  <1>3. \A a \in Agents : committed[a] \subseteq Ops /\ TxnOps[a] \subseteq Ops
    BY DbPoolAssumption DEF TypeOK
  <1>4. PlacesUndivided'
    BY <1>1, <1>2, <1>3 DEF PlacesUndivided, Undivided
  <1>5. OwnOps'
    BY <1>1 DEF OwnOps
  <1>6. UncommittedUnseen'
    BY <1>1, <1>2, <1>3 DEF UncommittedUnseen, Unseen
  <1>7. QED
    BY <1>4, <1>5, <1>6

(* A failed batch is reported as a whole.                                   *)
LEMMA FailPreserves ==
    ASSUME TypeOK, DataInv, NEW t \in FlushTasks, Fail(t)
    PROVE  DataInv'
  <1> USE DEF DataInv, FlushUnchanged, shadowVars, histVars
  <1>1. /\ UNCHANGED <<applied, committed, shadow, ag>>
        /\ deadLetters' = deadLetters \/ deadLetters' = deadLetters \cup fl[t].ops
        /\ \A b \in Bufs : buf'[b] = buf[b] \/ buf'[b] = {}
    BY DEF Fail, EndFlush, ClearInFlight, TypeOK
  <1>2. \A u \in FlushTasks : fl'[u].ops = fl[u].ops \/ fl'[u].ops = {}
    BY DEF Fail, EndFlush, Return, NoFlush, TypeOK
  <1>3. PlacesUndivided'
    BY <1>1, <1>2 DEF PlacesUndivided, Undivided
  <1>4. OwnOps' /\ UncommittedUnseen'
    BY <1>1, <1>2 DEF OwnOps, UncommittedUnseen, Unseen
  <1>5. QED
    BY <1>3, <1>4

(* The end of the process empties every buffer, shadow and batch.           *)
LEMMA EndPreserves ==
    ASSUME TypeOK, DataInv, ProcessEnds
    PROVE  DataInv'
  <1>1. DataFrame
    BY DEF ProcessEnds, NoFlush, DataFrame, histVars, diskVars
  <1>2. \A a \in Agents : shadow'[a] \subseteq TxnOps[a] /\ ag'[a].pending \subseteq TxnOps[a]
    BY DEF ProcessEnds, NoAgent
  <1>3. QED
    BY <1>1, <1>2, FramePreserves DEF DataInv

-----------------------------------------------------------------------------
(* The theorem                                                              *)

LEMMA TxnInit == Init => TxnInv
  BY DbPoolAssumption DEF Init, TxnInv, PlacesUndivided, Undivided, OwnOps, UncommittedUnseen,
     Unseen, CommitOnce, Quiet, NoFlush, NoAgent, NoRead, Nowhere

(* TxnInv is inductive.                                                     *)
LEMMA TxnInductive ==
    ASSUME TypeOK, TxnInv, [Next]_vars
    PROVE  TxnInv'
  <1> USE DEF TxnInv
  <1>1. Quiet'
    BY QuietInductive
  <1>2. CASE UNCHANGED vars
    BY <1>2 DEF vars, poolVars, shadowVars, histVars, diskVars, PlacesUndivided, Undivided,
                OwnOps, UncommittedUnseen, Unseen, CommitOnce, Quiet
  <1>3. CASE lifecycle # "crashed" /\ lifecycle' = "crashed"
    BY <1>1, <1>3, OnlyEndEnds, EndPreserves DEF DataInv, CommitOnce
  <1>4. CASE lifecycle # "crashed" /\ lifecycle' # "crashed" /\ Next
    <2>1. ASSUME DataFrame, UNCHANGED <<shadow, ag>> \/ AgentFrame
          PROVE  TxnInv'
      <3>1. \A a \in Agents : shadow'[a] \subseteq TxnOps[a] /\ ag'[a].pending \subseteq TxnOps[a]
        BY <2>1 DEF AgentFrame, OwnOps
      <3>2. CommitOnce'
        BY <1>4, <2>1 DEF CommitOnce, DataFrame, AgentFrame
      <3>3. QED
        BY <1>1, <2>1, <3>1, <3>2, FramePreserves
    <2>2. ASSUME NEW o \in Ops, Push(o)
          PROVE  TxnInv'
      BY <1>1, <1>4, <2>2, PushPreserves DEF DataInv, Push, CommitOnce
    <2>3. ASSUME NEW a \in Agents, AgentStep(a)
          PROVE  TxnInv'
      <3>1. CASE CommitLocked(a)
        <4>1. ag[a].pc = "waitCommit" /\ committed[a] = {}
          BY <1>4, <3>1 DEF CommitLocked, AgentLocked, CommitOnce
        <4>2. ag' = [ag EXCEPT ![a].pc = "committed"]
          BY <3>1 DEF CommitLocked, AgentGoto
        <4>3. \A b \in Agents : b # a => committed'[b] = committed[b]
          BY <3>1 DEF CommitLocked, TypeOK
        <4>4. CommitOnce'
          BY <1>4, <4>2, <4>3 DEF CommitOnce, TypeOK, AgentRun
        <4>5. QED
          BY <1>1, <3>1, <4>1, <4>4, CommitPreserves DEF DataInv
      <3>2. CASE ~CommitLocked(a)
        BY <2>1, <2>3, <3>2, AgentFrames
      <3>3. QED
        BY <3>1, <3>2
    <2>4. CASE CleanupStep
      BY <1>4, <2>1, <2>4, CleanupFrames
    <2>5. ASSUME NEW t \in FlushTasks, FlushStep(t)
          PROVE  TxnInv'
      <3>1. CASE Durable(t) \/ Fail(t)
        <4>1. UNCHANGED <<ag, committed>>
          BY <3>1 DEF Durable, Write, Fail, EndFlush, FlushUnchanged, histVars
        <4>2. CommitOnce'
          BY <1>4, <4>1 DEF CommitOnce
        <4>3. QED
          BY <1>1, <3>1, <4>2, DurablePreserves, FailPreserves DEF DataInv
      <3>2. CASE ~Durable(t) /\ ~Fail(t)
        BY <2>1, <2>5, <3>2, FlushFrame
      <3>3. QED
        BY <3>1, <3>2
    <2>6. CASE \/ StartStep \/ StopStep \/ IntervalTick
               \/ \E t \in Callers : CallerStep(t)
               \/ \E r \in Readers : ReadStep(r)
      BY <1>4, <2>1, <2>6, OtherFrame
    <2>7. ~Kill
      BY <1>4 DEF Kill, ProcessEnds
    <2>8. QED
      BY <1>2, <1>4, <2>2, <2>3, <2>4, <2>5, <2>6, <2>7 DEF Next, Terminated
  <1>5. QED
    BY <1>2, <1>3, <1>4, EndIsFinal

LEMMA TxnInvHolds == Spec => []TxnInv
  BY TxnInit, TxnInductive, TypeCorrect, PTL DEF Spec

(* What commitWork() hands over shares one fate, whatever fails.            *)
THEOREM TxnAtomicity == Spec => []TxnAtomic
  <1>1. TypeOK /\ TxnInv => TxnAtomic
    BY DEF TxnInv, PlacesUndivided, Undivided, TxnAtomic
  <1>2. QED
    BY <1>1, TypeCorrect, TxnInvHolds, PTL

-----------------------------------------------------------------------------
(* Undisturbed writes                                                       *)

(* A run that carries a batch has it on disk, or not.                       *)
Written(t) == fl[t].pc \in {"durable", "waitClear"}
Unwritten(t) == fl[t].pc = "exec" \/ (fl[t].pc = "waitFail" /\ fl[t].res = "fatal")

(* The batch being written is the in-flight Map, which is empty otherwise;  *)
(* the third Map is not in use.                                             *)
Flight ==
    /\ active # inflight
    /\ \A b \in Bufs : b = active \/ b = inflight \/ buf[b] = {}
    /\ \A t \in Writing : fl[t].ops = buf[inflight] /\ (Written(t) \/ Unwritten(t))
    /\ Writing = {} => buf[inflight] = {}

(* A written batch is on disk, and every accepted write is somewhere.       *)
Kept ==
    /\ \A t \in FlushTasks : Written(t) => fl[t].ops \subseteq Applied
    /\ lifecycle # "crashed" =>
        accepted \subseteq buf[active] \cup buf[inflight] \cup Applied \cup deadLetters

(* A write has one place: the active buffer, an unwritten batch, the disk   *)
(* or the dead letters; what is not accepted yet is in none.                *)
Once ==
    /\ \A b \in Bufs : buf[b] \subseteq accepted
    /\ Applied \cup deadLetters \subseteq accepted
    /\ buf[active] \cap (buf[inflight] \cup Applied \cup deadLetters) = {}
    /\ Applied \cap deadLetters = {}
    /\ \A t \in FlushTasks : Unwritten(t) => fl[t].ops \cap (Applied \cup deadLetters) = {}
    /\ \A t \in FlushTasks : Written(t) => fl[t].ops \cap deadLetters = {}
    /\ \A o \in Ops : applied[o] <= 1
    /\ \A a \in Agents : accepted \cap TxnOps[a] = committed[a]

WriteInv == Undisturbed => Flight /\ Kept /\ Once
-----------------------------------------------------------------------------
(* Steps that move no data                                                  *)

BatchStays(t) ==
    \/ t \notin Writing /\ t \notin Writing'
    \/ /\ fl'[t].ops = fl[t].ops
       /\ (Written(t) /\ Written(t)') \/ (Unwritten(t) /\ Unwritten(t)')

WriteFrame ==
    /\ UNCHANGED <<buf, active, inflight, accepted, committed, applied, deadLetters>>
    /\ lifecycle # "crashed"
    /\ \A t \in FlushTasks : BatchStays(t)

LEMMA WriteFramePreserves ==
    ASSUME TypeOK, Flight, Kept, Once, WriteFrame
    PROVE  Flight' /\ Kept' /\ Once'
  <1> USE DEF WriteFrame, BatchStays
  <1>1. \A t \in FlushTasks : (t \in Writing) <=> (t \in Writing')
    BY DEF Flight, Writing, Written, Unwritten
  <1>2. \A t \in FlushTasks : (Written(t)' => Written(t) /\ fl'[t].ops = fl[t].ops)
                           /\ (Unwritten(t)' => Unwritten(t) /\ fl'[t].ops = fl[t].ops)
    BY DEF Writing, Written, Unwritten
  <1>3. Applied' = Applied
    BY DEF Applied
  <1>4. Flight'
    <2>1. \A t \in Writing' : t \in FlushTasks
      BY DEF Writing
    <2>2. \A t \in Writing' : fl'[t].ops = buf[inflight] /\ (Written(t)' \/ Unwritten(t)')
      BY <1>1, <2>1 DEF Flight
    <2>3. Writing' = {} => Writing = {}
      BY <1>1 DEF Writing
    <2>4. QED
      BY <2>2, <2>3 DEF Flight
  <1>5. Kept'
    BY <1>2, <1>3 DEF Kept
  <1>6. Once'
    BY <1>2, <1>3 DEF Once
  <1>7. QED
    BY <1>4, <1>5, <1>6

-----------------------------------------------------------------------------
(* Steps that move data                                                     *)

(* Operations that were not accepted yet are added to the active buffer.    *)
LEMMA AcceptPreserves ==
    ASSUME TypeOK, Flight, Kept, Once, NEW ops \in SUBSET Ops, ops \cap accepted = {},
           buf' = [buf EXCEPT ![active] = @ \cup ops], accepted' = accepted \cup ops,
           UNCHANGED <<active, inflight, fl, applied, deadLetters>>, lifecycle # "crashed",
           \A a \in Agents : accepted' \cap TxnOps[a] = committed'[a]
    PROVE  Flight' /\ Kept' /\ Once'
  <1>1. /\ buf'[active] = buf[active] \cup ops
        /\ \A b \in Bufs : b # active => buf'[b] = buf[b]
        /\ active \in Bufs /\ inflight \in Bufs /\ active # inflight
    BY DEF TypeOK, Bufs, Flight
  <1>2. Applied' = Applied /\ Writing' = Writing
    BY DEF Applied, Writing
  <1>3. Flight'
    BY <1>1, <1>2 DEF Flight, Written, Unwritten
  <1>4. Kept'
    BY <1>1, <1>2 DEF Kept, Written
  <1>5. Once'
    BY <1>1, <1>2 DEF Once, Written, Unwritten
  <1>6. QED
    BY <1>3, <1>4, <1>5

(* The active buffer becomes the in-flight one.                             *)
LEMMA SwapPreserves ==
    ASSUME TypeOK, Flight, Kept, Once, NEW t \in FlushTasks, Swap(t), Writing = {}
    PROVE  Flight' /\ Kept' /\ Once'
  <1>1. /\ UNCHANGED <<lifecycle, accepted, committed, applied, deadLetters>>
        /\ active' = Other(active) /\ inflight' = active
        /\ buf' = [buf EXCEPT ![Other(active)] = {}]
        /\ fl[t].pc = "waitState"
    BY DEF Swap, Selected, FlushUnchanged, histVars, diskVars
  <1>2. /\ fl'[t].pc = "exec" /\ fl'[t].ops = buf[active]
        /\ \A u \in FlushTasks : u # t => fl'[u] = fl[u]
    BY DEF Swap, Selected, TypeOK, FlushRun
  <1>3. /\ Other(active) \in Bufs /\ active \in Bufs /\ Other(active) # active
        /\ \A b \in Bufs : b # active => buf[b] = {}
    BY DEF TypeOK, Bufs, Other, Flight
  <1>4. /\ buf'[Other(active)] = {} /\ buf'[active] = buf[active]
        /\ \A b \in Bufs : b # active => buf'[b] = {}
    BY <1>1, <1>3 DEF TypeOK
  <1>5. Applied' = Applied /\ Writing' = {t}
    BY <1>1, <1>2 DEF Applied, Writing
  <1>6. \A u \in FlushTasks : ~Written(u)' /\ (Unwritten(u)' => u = t)
    BY <1>2 DEF Written, Unwritten, Writing
  <1>7. Flight'
    BY <1>1, <1>2, <1>3, <1>4, <1>5 DEF Flight, Unwritten
  <1>8. Kept'
    BY <1>1, <1>3, <1>4, <1>5, <1>6 DEF Kept, Flight
  <1>9. Once'
    BY <1>1, <1>2, <1>3, <1>4, <1>5, <1>6 DEF Once
  <1>10. QED
    BY <1>7, <1>8, <1>9

(* The batch of the one run that carries one reaches the disk.              *)
LEMMA DurableWrites ==
    ASSUME TypeOK, Flight, Kept, Once, NEW t \in FlushTasks, Durable(t),
           \A u \in Writing : u = t, lifecycle # "crashed"
    PROVE  Flight' /\ Kept' /\ Once'
  <1>1. /\ UNCHANGED <<lifecycle, buf, active, inflight, accepted, committed, deadLetters>>
        /\ fl[t].pc = "exec"
        /\ \A o \in Ops : applied'[o] = IF o \in fl[t].ops THEN applied[o] + 1 ELSE applied[o]
    BY DEF Durable, Write, FlushUnchanged, poolVars, histVars
  <1>2. /\ fl'[t].pc = "durable" /\ fl'[t].ops = fl[t].ops
        /\ \A u \in FlushTasks : u # t => fl'[u] = fl[u]
    BY DEF Durable, Write, Goto, TypeOK, FlushRun
  <1>3. fl[t].ops \subseteq Ops /\ fl[t].ops = buf[inflight] /\ Unwritten(t)
    BY <1>1 DEF TypeOK, FlushRun, Flight, Writing, Unwritten
  <1>4. Applied' = Applied \cup fl[t].ops
    BY <1>1, <1>3 DEF Applied, TypeOK
  <1>5. Writing = {t} /\ Writing' = {t}
    BY <1>1, <1>2 DEF Writing
  <1>6. \A u \in FlushTasks : (Written(u)' => u = t) /\ ~Unwritten(u)'
    BY <1>2, <1>5 DEF Written, Unwritten, Writing
  <1>7. Flight'
    BY <1>1, <1>2, <1>3, <1>5 DEF Flight, Written
  <1>8. Kept'
    BY <1>1, <1>2, <1>3, <1>4, <1>6 DEF Kept
  <1>9. Once'
    <2>1. fl[t].ops \cap (Applied \cup deadLetters) = {}
      BY <1>3 DEF Once
    <2>2. \A o \in Ops : applied'[o] <= 1
      <3>1. ASSUME NEW o \in fl[t].ops
            PROVE  applied'[o] <= 1
        <4>1. applied[o] = 0
          BY <1>3, <2>1 DEF Applied, TypeOK
        <4>2. QED
          BY <1>1, <1>3, <4>1
      <3>2. QED
        BY <1>1, <3>1 DEF Once
    <2>3. \A b \in Bufs : buf'[b] \subseteq accepted'
      BY <1>1 DEF Once
    <2>4. Applied' \cup deadLetters' \subseteq accepted'
      BY <1>1, <1>3, <1>4 DEF Once, TypeOK
    <2>5. buf'[active'] \cap (buf'[inflight'] \cup Applied' \cup deadLetters') = {}
      BY <1>1, <1>3, <1>4 DEF Once
    <2>6. Applied' \cap deadLetters' = {}
      BY <1>1, <1>4, <2>1 DEF Once
    <2>7. QED
      BY <1>1, <1>2, <1>6, <2>1, <2>2, <2>3, <2>4, <2>5, <2>6 DEF Once
  <1>10. QED
    BY <1>7, <1>8, <1>9

(* The in-flight Map is emptied: its batch is on disk, or reported.         *)
LEMMA ClearPreserves ==
    ASSUME TypeOK, Flight, Kept, Once, NEW t \in FlushTasks, lifecycle # "crashed",
           \A u \in Writing : u = t, Succeed(t) \/ (Fail(t) /\ fl[t].res = "fatal")
    PROVE  Flight' /\ Kept' /\ Once'
  <1>1. /\ UNCHANGED <<lifecycle, active, inflight, accepted, committed, applied>>
        /\ buf' = [buf EXCEPT ![inflight] = {}]
        /\ t \in Writing
    BY DEF Succeed, Fail, ClearInFlight, EndFlush, FlushUnchanged, histVars, Writing
  <1>2. fl'[t].pc = "returned" /\ \A u \in FlushTasks : u # t => fl'[u] = fl[u]
    BY DEF Succeed, Fail, EndFlush, Return, NoFlush, TypeOK
  <1>3. /\ Succeed(t) => Written(t) /\ deadLetters' = deadLetters
        /\ Fail(t) => Unwritten(t) /\ deadLetters' = deadLetters \cup fl[t].ops
    BY DEF Succeed, Fail, Written, Unwritten
  <1>4. /\ buf'[inflight] = {}
        /\ \A b \in Bufs : b # inflight => buf'[b] = buf[b]
        /\ active \in Bufs /\ inflight \in Bufs /\ active # inflight
    BY <1>1 DEF TypeOK, Bufs, Flight
  <1>5. Applied' = Applied /\ Writing' = {}
    BY <1>1, <1>2 DEF Applied, Writing
  <1>6. \A u \in FlushTasks : ~Written(u)' /\ ~Unwritten(u)'
    BY <1>2 DEF Written, Unwritten, Writing
  <1>7. fl[t].ops = buf[inflight]
    BY <1>1 DEF Flight
  <1>8. Flight'
    BY <1>1, <1>4, <1>5 DEF Flight
  <1>9. Kept'
    BY <1>1, <1>3, <1>4, <1>5, <1>6, <1>7 DEF Kept
  <1>10. Once'
    <2>1. deadLetters' \subseteq deadLetters \cup buf[inflight]
      BY <1>3, <1>7
    <2>2. deadLetters' \cap Applied = {}
      BY <1>3 DEF Once
    <2>3. \A b \in Bufs : buf'[b] \subseteq buf[b]
      BY <1>4
    <2>4. deadLetters' \subseteq accepted
      BY <1>4, <2>1 DEF Once
    <2>5. buf[active] \cap deadLetters' = {}
      BY <2>1 DEF Once
    <2>6. QED
      BY <1>1, <1>4, <1>5, <1>6, <2>2, <2>3, <2>4, <2>5 DEF Once
  <1>11. QED
    BY <1>8, <1>9, <1>10

(* The process ends: only the disk and the dead letters matter.             *)
LEMMA EndWrites ==
    ASSUME TypeOK, Flight, Kept, Once, ProcessEnds
    PROVE  Flight' /\ Kept' /\ Once'
  <1>1. /\ UNCHANGED <<active, inflight, accepted, committed, applied, deadLetters>>
        /\ lifecycle' = "crashed" /\ \A b \in Bufs : buf'[b] = {}
        /\ active \in Bufs /\ inflight \in Bufs
    BY DEF ProcessEnds, histVars, diskVars, TypeOK, Bufs
  <1>2. \A t \in FlushTasks : fl'[t].pc = "idle"
    BY DEF ProcessEnds, NoFlush
  <1>3. Applied' = Applied /\ Writing' = {} /\ \A t \in FlushTasks : ~Written(t)' /\ ~Unwritten(t)'
    BY <1>1, <1>2 DEF Applied, Writing, Written, Unwritten
  <1>4. QED
    BY <1>1, <1>3 DEF Flight, Kept, Once

-----------------------------------------------------------------------------
(* The theorems                                                             *)

LEMMA WriteInit == Init => WriteInv
  <1> SUFFICES ASSUME Init
               PROVE  Flight /\ Kept /\ Once
    BY DEF WriteInv
  <1>1. \A t \in FlushTasks : fl[t].pc = "idle"
    BY DEF Init, NoFlush
  <1>2. Applied = {} /\ Writing = {} /\ \A t \in FlushTasks : ~Written(t) /\ ~Unwritten(t)
    BY <1>1 DEF Init, Nowhere, Applied, Writing, Written, Unwritten
  <1>3. QED
    BY <1>2 DEF Init, Nowhere, Flight, Kept, Once, Bufs

(* A flush, with the flush mutex for itself.                                *)
LEMMA FlushWrites ==
    ASSUME TypeOK, ExclusionInv, Flight, Kept, Once, Undisturbed, Undisturbed',
           lifecycle # "crashed", NEW t \in FlushTasks, FlushStep(t)
    PROVE  Flight' /\ Kept' /\ Once'
  <1> USE DEF QueueUnchanged, FlushUnchanged, poolVars, histVars, diskVars
  <1>0. /\ \A u, v \in FlushHolders : u = v
        /\ Writing \subseteq FlushHolders
    <2>1. ExclusionInv => AtMostOneFlush
      BY DEF ExclusionInv, AtMostOneFlush, Sound, FlushHolders, FlushUsers, UserPcs
    <2>2. QED
      BY <2>1 DEF AtMostOneFlush, Undisturbed, Writing, FlushHolders
  <1>1. t \in FlushHolders \/ FlushMutexTimeout(t)
    BY DEF FlushStep, FlushContinues, FlushLocked, Swap, TakeInFlight, Selected, NothingToFlush,
           Durable, Write, AwaitClear, Succeed, Fail, Busy, Fatal, Retry, RetryRefused,
           StateMutexTimeout, FailTimeout, FlushHolders
  <1>2. /\ ~Busy(t) /\ ~FlushMutexTimeout(t) /\ ~StateMutexTimeout(t) /\ ~FailTimeout(t)
        /\ ~Retry(t) /\ ~RetryRefused(t)
    BY DEF Busy, FlushMutexTimeout, StateMutexTimeout, FailTimeout, LeaveState, TimesOut, Retry,
           RetryRefused, ExclusionInv, Undisturbed, Happens, TypeOK, EnvEvents
  <1>3. \A u \in Writing : u = t
    BY <1>0, <1>1, <1>2
  <1>4. CASE FlushLocked(t) \/ NothingToFlush(t) \/ AwaitClear(t) \/ Fatal(t)
    <2>1. UNCHANGED <<buf, active, inflight, accepted, committed, applied, deadLetters>>
      BY <1>4 DEF FlushLocked, NothingToFlush, AwaitClear, Fatal
    <2>2. ASSUME NEW u \in FlushTasks, u # t
          PROVE  fl'[u] = fl[u]
      BY <1>4, <2>2 DEF FlushLocked, NothingToFlush, AwaitClear, Fatal, Goto, Catch, Return, TypeOK
    <2>3. BatchStays(t)
      <3>1. CASE FlushLocked(t) \/ AwaitClear(t)
        BY <3>1 DEF FlushLocked, AwaitClear, Goto, TypeOK, FlushRun, BatchStays, Writing, Written,
                    Unwritten
      <3>2. CASE NothingToFlush(t)
        <4>1. fl'[t].pc = "returned" /\ fl[t].pc = "waitState"
          BY <3>2 DEF NothingToFlush, Return, NoFlush, TypeOK
        <4>2. QED
          BY <4>1 DEF BatchStays, Writing
      <3>3. CASE Fatal(t)
        <4>1. fl' = [fl EXCEPT ![t] = [fl[t] EXCEPT !.pc = "waitFail", !.res = "fatal"]]
          BY <3>3 DEF Fatal, Catch, TypeOK
        <4>2. fl'[t].pc = "waitFail" /\ fl'[t].res = "fatal" /\ fl'[t].ops = fl[t].ops
          BY <4>1 DEF TypeOK, FlushRun
        <4>3. QED
          BY <3>3, <4>2 DEF Fatal, BatchStays, Unwritten
      <3>4. QED
        BY <1>4, <3>1, <3>2, <3>3
    <2>4. \A u \in FlushTasks : u # t => BatchStays(u)
      BY <1>3, <2>2 DEF BatchStays, Writing
    <2>5. QED
      BY <2>1, <2>3, <2>4, WriteFramePreserves DEF WriteFrame
  <1>5. fl[t].pc = "waitState" => Writing = {}
    BY <1>3 DEF Writing
  <1>6. CASE Swap(t)
    BY <1>5, <1>6, SwapPreserves DEF Swap, Selected
  <1>7. ~TakeInFlight(t)
    BY <1>5 DEF TakeInFlight, Selected, Flight
  <1>8. CASE Durable(t)
    BY <1>3, <1>8, DurableWrites
  <1>9. CASE Succeed(t) \/ Fail(t)
    <2>1. Fail(t) => fl[t].res = "fatal"
      BY DEF Fail, Flight, Writing, Written, Unwritten
    <2>2. QED
      BY <1>3, <1>9, <2>1, ClearPreserves
  <1>10. QED
    BY <1>2, <1>4, <1>6, <1>7, <1>8, <1>9 DEF FlushStep, FlushContinues

(* Steps of nobody who writes.                                              *)
LEMMA OthersWrite ==
    ASSUME TypeOK, Flight, Kept, Once, lifecycle # "crashed", lifecycle' # "crashed",
           ExclusionInv, Undisturbed,
           \/ StartStep \/ StopStep \/ IntervalTick \/ CleanupStep \/ UNCHANGED vars
           \/ \E a \in Agents : AgentStep(a) /\ ~CommitLocked(a)
           \/ \E t \in Callers : CallerStep(t)
           \/ \E r \in Readers : ReadStep(r)
    PROVE  Flight' /\ Kept' /\ Once'
  <1> USE DEF QueueUnchanged, FlushUnchanged, poolVars, histVars, diskVars
  <1>0. Stopper \in FlushTasks /\ Callers \subseteq FlushTasks
    BY DEF FlushTasks
  <1> DEFINE Still == UNCHANGED <<buf, active, inflight, accepted, committed, applied, deadLetters>>
  <1>1. ASSUME Still, UNCHANGED fl
        PROVE  Flight' /\ Kept' /\ Once'
    <2>1. WriteFrame
      BY <1>1 DEF WriteFrame, BatchStays, Writing, Written, Unwritten, Flight
    <2>2. QED
      BY <2>1, WriteFramePreserves
  <1>2. ASSUME Still, NEW t \in FlushTasks, t \notin Writing, t \notin Writing',
               \A u \in FlushTasks : u # t => fl'[u] = fl[u]
        PROVE  Flight' /\ Kept' /\ Once'
    <2>1. WriteFrame
      BY <1>2 DEF WriteFrame, BatchStays, Writing, Written, Unwritten, Flight
    <2>2. QED
      BY <2>1, WriteFramePreserves
  <1>3. CASE StartStep
    <2>1. Still /\ (UNCHANGED fl \/ (fl[Stopper].pc = "waitStart" /\ Idle(Stopper)))
      BY <1>3 DEF StartStep, StartCall, StartDone, StartFails, StartUnchanged
    <2>2. CASE fl[Stopper].pc = "waitStart" /\ Idle(Stopper)
      BY <1>0, <1>2, <2>1, <2>2 DEF Idle, NoFlush, Writing, TypeOK
    <2>3. QED
      BY <1>1, <2>1, <2>2
  <1>4. CASE StopStep
    <2>1. Still
      BY <1>4 DEF StopStep, StopNew, StopStarting, StopStarted, StopFlushAgain, StopDone,
                  StopUnchanged
    <2>2. CASE StopNew
      BY <1>1, <2>1, <2>2 DEF StopNew
    <2>3. CASE StopStarting \/ StopStarted \/ StopFlushAgain \/ StopDone
      <3>1. Stopper \notin Writing /\ Stopper \notin Writing'
        <4>1. fl[Stopper].pc \in {"idle", "waitStart", "returned"}
          BY <2>3 DEF StopStarting, StopStarted, StopFlushAgain, StopDone
        <4>2. CASE StopStarting
          BY <1>0, <4>1, <4>2 DEF StopStarting, Goto, Writing, TypeOK, FlushRun
        <4>3. CASE StopStarted \/ StopFlushAgain
          BY <1>0, <4>1, <4>3 DEF StopStarted, StopFlushAgain, EnterFlush, NoFlush, Writing, TypeOK
        <4>4. CASE StopDone
          BY <1>0, <4>1, <4>4 DEF StopDone, Idle, NoFlush, Writing, TypeOK
        <4>5. QED
          BY <2>3, <4>2, <4>3, <4>4
      <3>2. \A u \in FlushTasks : u # Stopper => fl'[u] = fl[u]
        BY <1>0, <2>3 DEF StopStarting, StopStarted, StopFlushAgain, StopDone, Goto, EnterFlush,
                          Idle, TypeOK
      <3>3. QED
        BY <1>0, <1>2, <2>1, <3>1, <3>2
    <2>4. QED
      BY <1>4, <2>2, <2>3 DEF StopStep
  <1>5. CASE IntervalTick \/ CleanupStep \/ UNCHANGED vars
    <2>1. Still /\ UNCHANGED fl
      BY <1>5 DEF IntervalTick, CleanupStep, CleanupCall, CleanupLocked, CleanupTimeout,
                  JanitorUnchanged, ProcessEnds, vars
    <2>2. QED
      BY <1>1, <2>1
  <1>6. ASSUME NEW a \in Agents, AgentStep(a), ~CommitLocked(a)
        PROVE  Flight' /\ Kept' /\ Once'
    <2>1. Still /\ UNCHANGED fl
      BY <1>6 DEF AgentStep, AgentContinues, AgentCall, AgentUnchanged, Begin, BeginLocked,
                  AgentPush, AgentPushNoShadow, AgentPushLocked, Commit, Rollback, RollbackLocked,
                  Refused, AgentTimeout
    <2>2. QED
      BY <1>1, <2>1
  <1>7. ASSUME NEW t \in Callers, CallerStep(t)
        PROVE  Flight' /\ Kept' /\ Once'
    <2>1. CASE Unhandled(t) \/ RescheduleTimeout(t)
      BY <2>1 DEF Unhandled, RescheduleTimeout, ProcessEnds
    <2>2. CASE FlushCall(t) \/ TimerFires(t) \/ TimerFiresLate(t) \/ CallReturns(t)
               \/ TimerReturns(t) \/ Reschedule(t)
      <3>1. Still
        BY <2>2 DEF FlushCall, TimerFires, TimerFiresLate, CallReturns, TimerReturns, Reschedule
      <3>2. t \notin Writing /\ t \notin Writing'
        <4>1. fl[t].pc \in {"idle", "returned", "waitResched"}
          BY <2>2 DEF FlushCall, TimerFires, TimerFiresLate, CallReturns, TimerReturns, Reschedule
        <4>2. CASE FlushCall(t) \/ TimerFires(t)
          BY <1>0, <4>1, <4>2 DEF FlushCall, TimerFires, EnterFlush, NoFlush, Writing, TypeOK
        <4>3. CASE TimerFiresLate(t) \/ TimerReturns(t)
          BY <1>0, <4>1, <4>3 DEF TimerFiresLate, TimerReturns, Goto, Writing, TypeOK, FlushRun
        <4>4. CASE CallReturns(t) \/ Reschedule(t)
          BY <1>0, <4>1, <4>4 DEF CallReturns, Reschedule, Idle, NoFlush, Writing, TypeOK
        <4>5. QED
          BY <2>2, <4>2, <4>3, <4>4
      <3>3. \A u \in FlushTasks : u # t => fl'[u] = fl[u]
        BY <1>0, <2>2 DEF FlushCall, TimerFires, TimerFiresLate, CallReturns, TimerReturns,
                          Reschedule, Goto, EnterFlush, Idle, TypeOK
      <3>4. QED
        BY <1>0, <1>2, <3>1, <3>2, <3>3
    <2>3. QED
      BY <1>7, <2>1, <2>2 DEF CallerStep, CallerContinues
  <1>8. ASSUME NEW r \in Readers, ReadStep(r)
        PROVE  Flight' /\ Kept' /\ Once'
    <2>1. Still /\ UNCHANGED fl
      BY <1>8 DEF ReadStep, ReadContinues, ReadUnchanged, ReadCall, ReadLocked, ReadDisk,
                  ReadOverlay, ReadTimeout
    <2>2. QED
      BY <1>1, <2>1
  <1>9. QED
    BY <1>3, <1>4, <1>5, <1>6, <1>7, <1>8

(* WriteInv is inductive.                                                   *)
LEMMA WriteInductive ==
    ASSUME TypeOK, TxnInv, ExclusionInv, WriteInv, [Next]_vars
    PROVE  WriteInv'
  <1> SUFFICES ASSUME Undisturbed'
               PROVE  Flight' /\ Kept' /\ Once'
    BY DEF WriteInv
  <1>0. Undisturbed /\ Flight /\ Kept /\ Once
    BY CountMonotone DEF Undisturbed, WriteInv, EnvEvents
  <1>1. CASE lifecycle = "crashed"
    <2>1. UNCHANGED vars
      BY <1>1, EndIsFinal DEF TxnInv
    <2>2. QED
      BY <1>0, <2>1 DEF vars, poolVars, histVars, diskVars, Flight, Kept, Once, Writing, Written,
                        Unwritten, Applied
  <1>2. CASE lifecycle # "crashed" /\ lifecycle' = "crashed"
    BY <1>0, <1>2, OnlyEndEnds, EndWrites
  <1>3. CASE lifecycle # "crashed" /\ lifecycle' # "crashed"
    <2>1. ASSUME NEW o \in Ops, Push(o)
          PROVE  Flight' /\ Kept' /\ Once'
      <3>1. /\ {o} \cap accepted = {} /\ \A a \in Agents : o \notin TxnOps[a]
            /\ buf' = [buf EXCEPT ![active] = @ \cup {o}] /\ accepted' = accepted \cup {o}
            /\ UNCHANGED <<active, inflight, fl, applied, deadLetters, committed>>
        BY <2>1 DEF Push, PlainOps, diskVars
      <3>2. \A a \in Agents : accepted' \cap TxnOps[a] = committed'[a]
        BY <1>0, <3>1 DEF Once
      <3> DEFINE ops == {o}
      <3>3. ops \in SUBSET Ops /\ ops \cap accepted = {}
        BY <3>1
      <3>4. buf' = [buf EXCEPT ![active] = @ \cup ops] /\ accepted' = accepted \cup ops
        BY <3>1
      <3> HIDE DEF ops
      <3>5. QED
        BY <1>0, <1>3, <3>1, <3>2, <3>3, <3>4, AcceptPreserves
    <2>2. ASSUME NEW a \in Agents, CommitLocked(a)
          PROVE  Flight' /\ Kept' /\ Once'
      <3> DEFINE ops == IF a \in shadows THEN shadow[a] ELSE {}
      <3>1. ops \subseteq TxnOps[a] /\ committed[a] = {}
        BY <1>3, <2>2 DEF TxnInv, OwnOps, CommitOnce, CommitLocked, AgentLocked
      <3>2. /\ buf' = [buf EXCEPT ![active] = @ \cup ops] /\ accepted' = accepted \cup ops
            /\ committed' = [committed EXCEPT ![a] = ops]
            /\ UNCHANGED <<active, inflight, fl, applied, deadLetters>>
        BY <2>2 DEF CommitLocked, diskVars
      <3> HIDE DEF ops
      <3>3. ops \cap accepted = {}
        BY <1>0, <3>1 DEF Once
      <3>4. ASSUME NEW b \in Agents
            PROVE  accepted' \cap TxnOps[b] = committed'[b]
        <4>1. accepted \cap TxnOps[b] = committed[b]
          BY <1>0 DEF Once
        <4>2. CASE b = a
          BY <3>1, <3>2, <4>1, <4>2 DEF TypeOK
        <4>3. CASE b # a
          <5>1. ops \cap TxnOps[b] = {}
            BY <3>1, <4>3, DbPoolAssumption
          <5>2. QED
            BY <3>2, <4>1, <4>3, <5>1 DEF TypeOK
        <4>4. QED
          BY <4>2, <4>3
      <3>5. ops \in SUBSET Ops
        BY <3>1, DbPoolAssumption
      <3>6. QED
        BY <1>0, <1>3, <3>2, <3>3, <3>4, <3>5, AcceptPreserves
    <2>3. ~Kill
      BY <1>3 DEF Kill, ProcessEnds
    <2>4. QED
      BY <1>0, <1>3, <2>1, <2>2, <2>3, FlushWrites, OthersWrite DEF Next, Terminated
  <1>4. QED
    BY <1>1, <1>2, <1>3

LEMMA WriteHolds == Spec => []WriteInv
  BY WriteInit, WriteInductive, TypeCorrect, TxnInvHolds, ExclusionHolds, PTL DEF Spec

(* Undisturbed, what is in flight is the batch being written.               *)
THEOREM BatchInFlight == Spec => []InFlightOwned
  <1>1. WriteInv => InFlightOwned
    BY DEF WriteInv, Flight, InFlightOwned
  <1>2. QED
    BY <1>1, WriteHolds, PTL

(* Undisturbed, an accepted write is in a buffer, on disk or reported.      *)
THEOREM NothingLost == Spec => []NoSilentLoss
  <1>1. WriteInv => NoSilentLoss
    BY DEF WriteInv, Kept, NoSilentLoss
  <1>2. QED
    BY <1>1, WriteHolds, PTL

(* Undisturbed, no write reaches the disk twice or is reported as well.     *)
THEOREM NothingTwice == Spec => []ExactlyOnce
  <1>1. WriteInv => ExactlyOnce
    BY DEF WriteInv, Once, ExactlyOnce
  <1>2. QED
    BY <1>1, WriteHolds, PTL

-----------------------------------------------------------------------------
(* Mutual exclusion under the state mutex, whatever fails                   *)

FlushWaits == {"waitState", "waitClear", "waitFail", "waitResched"}
AgentWaits == {"waitBegin", "waitShadow", "waitCommit", "waitRollback"}
ReadHolds == {"waitState", "query", "overlay"}

(* The tasks between their call of acquire() on the state mutex and their   *)
(* release of it.                                                           *)
Uses(t) ==
    \/ t \in FlushTasks /\ fl[t].pc \in FlushWaits
    \/ t \in Agents /\ ag[t].pc \in AgentWaits
    \/ t \in Readers /\ rd[t].pc \in ReadHolds
    \/ t = Janitor /\ jpc = "waitState"
StateUsers == {t \in Tasks : Uses(t)}

StateInv ==
    /\ Sound(stateMutex, StateUsers)
    /\ \A r \in Readers : Queued(stateMutex, r) => rd[r].pc = "waitState"

(* Each task is of one kind.                                                *)
LEMMA Kinds ==
    /\ \A t \in FlushTasks : t \in Tasks /\ t \notin Agents /\ t \notin Readers /\ t # Janitor
    /\ \A a \in Agents : a \in Tasks /\ a \notin FlushTasks /\ a \notin Readers /\ a # Janitor
    /\ \A r \in Readers : r \in Tasks /\ r \notin FlushTasks /\ r \notin Agents /\ r # Janitor
    /\ Janitor \in Tasks /\ Janitor \notin FlushTasks /\ Janitor \notin Agents /\ Janitor \notin Readers
    /\ Stopper \in FlushTasks /\ Callers \subseteq FlushTasks
  BY DbPoolAssumption DEF Tasks, FlushTasks

(* The step is one of task x: nobody else moves.                            *)
Alone(x) ==
    /\ \A t \in FlushTasks : t # x => fl'[t] = fl[t]
    /\ \A a \in Agents : a # x => ag'[a] = ag[a]
    /\ \A r \in Readers : r # x => rd'[r] = rd[r]
    /\ x # Janitor => jpc' = jpc

LEMMA AloneUses ==
    ASSUME NEW x \in Tasks, Alone(x)
    PROVE  \A t \in Tasks : t # x => (Uses(t)' <=> Uses(t))
  BY DEF Alone, Uses

(* What x does to the state mutex.                                          *)
Asks(x) == ~Uses(x) /\ Uses(x)' /\ stateMutex' = Acquire(stateMutex, x)
Leaves(x) == Uses(x) /\ ~Uses(x)' /\ ~Queued(stateMutex, x) /\ stateMutex' = Release(stateMutex)
GivesUp(x) ==
    /\ Uses(x) /\ ~Uses(x)'
    /\ \E i \in 1..Len(stateMutex.queue) :
        stateMutex.queue[i] = x /\ stateMutex' = GiveUp(stateMutex, i)
AsksAnew(x) ==
    /\ x \in FlushTasks /\ Happens("timeout")
    /\ Uses(x) /\ Uses(x)'
    /\ \E i \in 1..Len(stateMutex.queue) :
        stateMutex.queue[i] = x /\ stateMutex' = Acquire(GiveUp(stateMutex, i), x)
Keeps(x) == (Uses(x) <=> Uses(x)') /\ UNCHANGED stateMutex

(* A step of one task, which does one of these.                             *)
OneMoves ==
    \E x \in Tasks :
        /\ Alone(x)
        /\ Asks(x) \/ Leaves(x) \/ GivesUp(x) \/ AsksAnew(x) \/ Keeps(x)
        /\ x \in Readers /\ Queued(stateMutex, x)' => rd'[x].pc = "waitState"

LEMMA MutexStep ==
    ASSUME TypeOK, Sound(stateMutex, StateUsers), NEW x \in Tasks, Alone(x),
           Asks(x) \/ Leaves(x) \/ GivesUp(x) \/ AsksAnew(x) \/ Keeps(x)
    PROVE  /\ Sound(stateMutex, StateUsers)'
           /\ \A t \in Tasks : t # x /\ Queued(stateMutex, t)' => Queued(stateMutex, t)
           /\ Leaves(x) \/ GivesUp(x) => ~Queued(stateMutex, x)'
  <1>0. stateMutex \in Mutex(Tasks) /\ \A t \in Tasks : t # x => (Uses(t)' <=> Uses(t))
    BY AloneUses DEF TypeOK
  <1>1. NoRepeat(stateMutex.queue)
    BY DEF Sound
  <1>2. CASE Asks(x)
    <2>1. x \notin StateUsers /\ StateUsers' = StateUsers \cup {x}
      BY <1>0, <1>2 DEF StateUsers, Asks
    <2>2. Sound(stateMutex', StateUsers \cup {x})
      BY <1>0, <1>2, <2>1, AcquireSound DEF Asks
    <2>3. ~Queued(stateMutex, x)
      BY <2>1, WaitersAreUsers DEF Sound
    <2>4. \A t \in Tasks : t # x /\ Queued(stateMutex', t) => Queued(stateMutex, t)
      BY <1>0, <1>1, <1>2, <2>3, AcquireQueued DEF Asks
    <2>5. QED
      BY <1>2, <2>1, <2>2, <2>4 DEF Asks, Leaves, GivesUp
  <1>3. CASE Leaves(x)
    <2>1. x \in StateUsers /\ StateUsers' = StateUsers \ {x}
      BY <1>0, <1>3 DEF StateUsers, Leaves
    <2>2. Sound(stateMutex', StateUsers \ {x})
      BY <1>0, <1>3, <2>1, ReleaseSound DEF Leaves
    <2>3. \A t : Queued(stateMutex', t) => Queued(stateMutex, t)
      <3>1. CASE stateMutex.queue # <<>>
        BY <1>0, <1>1, <1>3, <3>1, ReleaseQueued DEF Leaves
      <3>2. CASE stateMutex.queue = <<>>
        BY <1>0, <1>3, <3>2 DEF Leaves, Release, Queued, Mutex
      <3>3. QED
        BY <3>1, <3>2
    <2>4. QED
      BY <1>3, <2>1, <2>2, <2>3 DEF Leaves
  <1>4. CASE GivesUp(x)
    <2>1. x \in StateUsers /\ StateUsers' = StateUsers \ {x}
      BY <1>0, <1>4 DEF StateUsers, GivesUp
    <2>2. PICK i \in 1..Len(stateMutex.queue) :
              stateMutex.queue[i] = x /\ stateMutex' = GiveUp(stateMutex, i)
      BY <1>4 DEF GivesUp
    <2>3. Sound(stateMutex', StateUsers \ {x})
      BY <1>0, <2>2, GiveUpSound
    <2>4. \A t : Queued(stateMutex', t) <=> Queued(stateMutex, t) /\ t # x
      BY <1>0, <1>1, <2>2, GiveUpQueued
    <2>5. QED
      BY <2>1, <2>3, <2>4
  <1>5. CASE AsksAnew(x)
    <2>1. StateUsers' = StateUsers /\ x \in StateUsers
      BY <1>0, <1>5 DEF StateUsers, AsksAnew
    <2>2. PICK i \in 1..Len(stateMutex.queue) :
              stateMutex.queue[i] = x /\ stateMutex' = Acquire(GiveUp(stateMutex, i), x)
      BY <1>5 DEF AsksAnew
    <2> DEFINE m == GiveUp(stateMutex, i)
    <2>3. m \in Mutex(Tasks) /\ Sound(m, StateUsers \ {x})
      BY <1>0, <2>2, GiveUpSound, GiveUpType
    <2>4. \A t : Queued(m, t) <=> Queued(stateMutex, t) /\ t # x
      BY <1>0, <1>1, <2>2, GiveUpQueued
    <2>5. stateMutex' = Acquire(m, x)
      BY <2>2
    <2> HIDE DEF m
    <2>6. Sound(stateMutex', (StateUsers \ {x}) \cup {x})
      BY <2>3, <2>5, AcquireSound
    <2>7. (StateUsers \ {x}) \cup {x} = StateUsers
      BY <2>1
    <2>8. \A t \in Tasks : t # x /\ Queued(stateMutex', t) => Queued(stateMutex, t)
      <3>1. NoRepeat(m.queue) /\ ~Queued(m, x)
        BY <2>3, <2>4 DEF Sound
      <3>2. QED
        BY <2>3, <2>4, <2>5, <3>1, AcquireQueued
    <2>9. QED
      BY <1>5, <2>1, <2>6, <2>7, <2>8 DEF AsksAnew, Leaves, GivesUp
  <1>6. CASE Keeps(x)
    <2>1. StateUsers' = StateUsers
      BY <1>0, <1>6 DEF StateUsers, Keeps
    <2>2. QED
      BY <1>6, <2>1 DEF Keeps, Leaves, GivesUp
  <1>7. QED
    BY <1>2, <1>3, <1>4, <1>5, <1>6

(* Such a step preserves the exclusion.                                     *)
LEMMA StateStep ==
    ASSUME TypeOK, StateInv, OneMoves
    PROVE  StateInv'
  <1>1. PICK x \in Tasks :
            /\ Alone(x)
            /\ Asks(x) \/ Leaves(x) \/ GivesUp(x) \/ AsksAnew(x) \/ Keeps(x)
            /\ x \in Readers /\ Queued(stateMutex, x)' => rd'[x].pc = "waitState"
    BY DEF OneMoves
  <1>2. /\ Sound(stateMutex, StateUsers)'
        /\ \A t \in Tasks : t # x /\ Queued(stateMutex, t)' => Queued(stateMutex, t)
    BY <1>1, MutexStep DEF StateInv
  <1>3. \A r \in Readers : r # x => rd'[r] = rd[r]
    BY <1>1 DEF Alone
  <1>4. QED
    BY <1>1, <1>2, <1>3, Kinds DEF StateInv

(* Steps of a flush.                                                        *)
LEMMA FlushState ==
    ASSUME TypeOK, StateInv, NEW t \in FlushTasks, FlushStep(t)
    PROVE  OneMoves
  <1> USE DEF QueueUnchanged, FlushUnchanged
  <1>1. UNCHANGED <<ag, rd, jpc>> /\ t \in Tasks /\ t \notin Readers
    BY Kinds DEF FlushStep, FlushContinues, FlushLocked, Swap, TakeInFlight, Selected, NothingToFlush,
                 Durable, Write, AwaitClear, Succeed, Fail, EndFlush, Busy, Fatal, Retry, RetryRefused,
                 FlushMutexTimeout, StateMutexTimeout, FailTimeout
  <1>2. Uses(t) <=> fl[t].pc \in FlushWaits
    BY Kinds DEF Uses
  <1>3. Uses(t)' <=> fl'[t].pc \in FlushWaits
    BY Kinds DEF Uses
  <1>4. fl[t] \in FlushRun
    BY DEF TypeOK
  <1> USE DEF FlushWaits
  <1>5. CASE FlushLocked(t) \/ AwaitClear(t)
    <2>1. Asks(t) /\ Alone(t)
      BY <1>1, <1>2, <1>3, <1>4, <1>5 DEF FlushLocked, AwaitClear, Goto, AcquireState, Asks, Alone, TypeOK,
                                          FlushRun
    <2>2. QED
      BY <1>1, <2>1 DEF OneMoves
  <1>6. CASE Fatal(t) \/ (Busy(t) /\ fl[t].retry >= MaxRetries)
    <2>1. fl[t].pc = "exec" /\ stateMutex' = Acquire(stateMutex, t) /\ \E r \in {"busy", "fatal"} : Catch(t, r)
      BY <1>4, <1>6, DbPoolAssumption DEF Fatal, Busy, AcquireState, FlushRun
    <2>2. fl'[t].pc = "waitFail" /\ Alone(t)
      BY <1>1, <1>4, <2>1 DEF Catch, Alone, TypeOK, FlushRun
    <2>3. Asks(t)
      BY <1>2, <1>3, <2>1, <2>2 DEF Asks
    <2>4. QED
      BY <1>1, <2>2, <2>3 DEF OneMoves
  <1>7. CASE Swap(t) \/ TakeInFlight(t)
    <2>1. Leaves(t) /\ Alone(t)
      BY <1>1, <1>2, <1>3, <1>4, <1>7 DEF Swap, TakeInFlight, Selected, HasState, ReleaseState, Leaves, Alone,
                                          TypeOK, FlushRun
    <2>2. QED
      BY <1>1, <2>1 DEF OneMoves
  <1>8. CASE NothingToFlush(t) \/ Succeed(t) \/ Fail(t)
    <2>1. fl'[t].pc = "returned" /\ Alone(t)
      BY <1>1, <1>8 DEF NothingToFlush, Succeed, Fail, EndFlush, Return, NoFlush, Alone, TypeOK
    <2>2. Leaves(t)
      BY <1>2, <1>3, <1>8, <2>1 DEF NothingToFlush, Succeed, Fail, EndFlush, HasState, ReleaseState, Leaves
    <2>3. QED
      BY <1>1, <2>1, <2>2 DEF OneMoves
  <1>9. CASE FailTimeout(t)
    <2>1. fl'[t].pc = "returned" /\ Alone(t)
      BY <1>1, <1>9 DEF FailTimeout, Return, NoFlush, Alone, TypeOK
    <2>2. GivesUp(t)
      BY <1>2, <1>3, <1>9, <2>1 DEF FailTimeout, LeaveState, LeaveQueue, GivesUp
    <2>3. QED
      BY <1>1, <2>1, <2>2 DEF OneMoves
  <1>10. CASE StateMutexTimeout(t)
    <2>1. fl'[t].pc = "waitFail" /\ Alone(t)
      BY <1>1, <1>4, <1>10 DEF StateMutexTimeout, Catch, Alone, TypeOK, FlushRun
    <2>2. AsksAnew(t)
      BY <1>2, <1>3, <1>10, <2>1 DEF StateMutexTimeout, AsksAnew
    <2>3. QED
      BY <1>1, <2>1, <2>2 DEF OneMoves
  <1>11. CASE RetryRefused(t) \/ FlushMutexTimeout(t)
    <2>1. fl'[t].pc = "returned" /\ Alone(t)
      BY <1>1, <1>11 DEF RetryRefused, FlushMutexTimeout, Return, NoFlush, Alone, TypeOK
    <2>2. Keeps(t)
      BY <1>2, <1>3, <1>11, <2>1 DEF RetryRefused, FlushMutexTimeout, Keeps
    <2>3. QED
      BY <1>1, <2>1, <2>2 DEF OneMoves
  <1>12. CASE Durable(t) \/ (Busy(t) /\ fl[t].retry < MaxRetries)
    <2>1. Keeps(t) /\ Alone(t)
      BY <1>1, <1>2, <1>3, <1>4, <1>12 DEF Durable, Write, Busy, Goto, Keeps, Alone, TypeOK, FlushRun
    <2>2. QED
      BY <1>1, <2>1 DEF OneMoves
  <1>13. CASE Retry(t)
    <2>1. fl'[t].pc = "waitFlush" /\ Alone(t)
      BY <1>1, <1>4, <1>13 DEF Retry, Alone, TypeOK, FlushRun
    <2>2. Keeps(t)
      BY <1>2, <1>3, <1>13, <2>1 DEF Retry, Keeps
    <2>3. QED
      BY <1>1, <2>1, <2>2 DEF OneMoves
  <1>14. Busy(t) => (Busy(t) /\ fl[t].retry < MaxRetries) \/ (Busy(t) /\ fl[t].retry >= MaxRetries)
    BY <1>4, DbPoolAssumption DEF FlushRun
  <1>15. QED
    BY <1>5, <1>6, <1>7, <1>8, <1>9, <1>10, <1>11, <1>12, <1>13, <1>14 DEF FlushStep, FlushContinues

(* Where a flush is after each of the steps that move it.                   *)
LEMMA FlushMoves ==
    ASSUME TypeOK, NEW t \in FlushTasks
    PROVE  /\ \A pc \in FlushPcs : Goto(t, pc) => fl'[t] = [fl[t] EXCEPT !.pc = pc] /\ fl'[t].pc = pc
           /\ \A kind : EnterFlush(t, kind) =>
                fl'[t].pc = "waitFlush" /\ fl'[t].kind = kind /\ fl'[t].ops = {}
           /\ Idle(t) => fl'[t].pc = "idle"
           /\ \A r : Return(t, r) => fl'[t].pc = "returned" /\ fl'[t].kind = fl[t].kind /\ fl'[t].res = r
           /\ TimerFiresLate(t) => fl'[t].pc = "returned"
  <1>0. fl[t] \in FlushRun
    BY DEF TypeOK
  <1>1. ASSUME NEW pc \in FlushPcs, Goto(t, pc)
        PROVE  fl'[t] = [fl[t] EXCEPT !.pc = pc] /\ fl'[t].pc = pc
    <2>1. fl'[t] = [fl[t] EXCEPT !.pc = pc]
      BY <1>1 DEF Goto, TypeOK
    <2>2. QED
      BY <1>0, <2>1 DEF FlushRun
  <1>2. ASSUME NEW kind, EnterFlush(t, kind)
        PROVE  fl'[t].pc = "waitFlush" /\ fl'[t].kind = kind /\ fl'[t].ops = {}
    BY <1>2 DEF EnterFlush, NoFlush, TypeOK
  <1>3. Idle(t) => fl'[t].pc = "idle"
    BY DEF Idle, NoFlush, TypeOK
  <1>4. ASSUME NEW r, Return(t, r)
        PROVE  fl'[t].pc = "returned" /\ fl'[t].kind = fl[t].kind /\ fl'[t].res = r
    BY <1>4 DEF Return, NoFlush, TypeOK
  <1>5. ASSUME TimerFiresLate(t)
        PROVE  fl'[t].pc = "returned"
    <2>1. fl'[t] = [fl[t] EXCEPT !.pc = "returned", !.kind = "timer", !.res = "rejected"]
      BY <1>5 DEF TimerFiresLate, TypeOK
    <2>2. QED
      BY <1>0, <2>1 DEF FlushRun
  <1>6. QED
    BY <1>1, <1>2, <1>3, <1>4, <1>5

(* Steps of those who call flush(), of start() and of stop().               *)
LEMMA CallerState ==
    ASSUME TypeOK, StateInv, lifecycle' # "crashed",
           \/ StartStep \/ StopStep \/ IntervalTick
           \/ \E t \in Callers : CallerStep(t)
    PROVE  OneMoves
  <1> USE DEF QueueUnchanged, FlushUnchanged
  <1>1. CASE UNCHANGED <<fl, ag, rd, jpc, stateMutex>>
    <2>1. Alone(Janitor) /\ Keeps(Janitor)
      BY <1>1 DEF Alone, Keeps, Uses
    <2>2. QED
      BY <1>1, <2>1, Kinds DEF OneMoves
  <1>2. ASSUME NEW t \in FlushTasks, UNCHANGED <<ag, rd, jpc, stateMutex>>, Alone(t),
               fl[t].pc \notin FlushWaits, fl'[t].pc \notin FlushWaits
        PROVE  OneMoves
    <2>1. Keeps(t)
      BY <1>2, Kinds DEF Uses, Keeps
    <2>2. QED
      BY <1>2, <2>1, Kinds DEF OneMoves
  <1>3. CASE StartStep
    <2>1. CASE StartCall \/ StartDone
      BY <1>1, <2>1 DEF StartCall, StartDone, StartUnchanged
    <2>2. CASE StartFails
      <3>1. UNCHANGED <<ag, rd, jpc, stateMutex>>
        BY <2>2 DEF StartFails, StartUnchanged
      <3>2. CASE fl[Stopper].pc = "waitStart"
        <4>1. Alone(Stopper) /\ fl'[Stopper].pc = "idle"
          BY <2>2, <3>1, <3>2, Kinds DEF StartFails, Idle, NoFlush, Alone, TypeOK
        <4>2. QED
          BY <1>2, <3>1, <3>2, <4>1, Kinds DEF FlushWaits
      <3>3. CASE fl[Stopper].pc # "waitStart"
        BY <1>1, <2>2, <3>1, <3>3 DEF StartFails
      <3>4. QED
        BY <3>2, <3>3
    <2>3. QED
      BY <1>3, <2>1, <2>2 DEF StartStep
  <1>4. CASE StopStep
    <2>1. UNCHANGED <<ag, rd, jpc, stateMutex>>
      BY <1>4 DEF StopStep, StopNew, StopStarting, StopStarted, StopFlushAgain, StopDone, StopUnchanged
    <2>2. fl[Stopper] \in FlushRun /\ Stopper \in FlushTasks
      BY Kinds DEF TypeOK
    <2>3. CASE StopNew
      BY <1>1, <2>1, <2>3 DEF StopNew
    <2>4. CASE StopStarting \/ StopStarted \/ StopFlushAgain \/ StopDone
      <3>1. Alone(Stopper) /\ fl[Stopper].pc \in {"idle", "waitStart", "returned"}
        BY <2>1, <2>2, <2>4 DEF StopStarting, StopStarted, StopFlushAgain, StopDone, Goto, EnterFlush, Idle,
                                Alone, TypeOK
      <3>2. fl'[Stopper].pc \in {"waitStart", "waitFlush", "idle"}
        BY <2>2, <2>4, FlushMoves DEF StopStarting, StopStarted, StopFlushAgain, StopDone, FlushPcs
      <3>3. QED
        BY <1>2, <2>1, <2>2, <3>1, <3>2 DEF FlushWaits
    <2>5. QED
      BY <1>4, <2>3, <2>4 DEF StopStep
  <1>5. CASE IntervalTick
    BY <1>1, <1>5 DEF IntervalTick
  <1>6. ASSUME NEW t \in Callers, CallerStep(t)
        PROVE  OneMoves
    <2>0. t \in FlushTasks /\ t \in Tasks /\ t \notin Readers /\ fl[t] \in FlushRun
      BY Kinds DEF TypeOK
    <2>1. ~Unhandled(t) /\ ~RescheduleTimeout(t)
      BY DEF Unhandled, RescheduleTimeout, ProcessEnds
    <2>2. UNCHANGED <<ag, rd, jpc>> /\ Alone(t)
      BY <1>6, <2>0, <2>1 DEF CallerStep, CallerContinues, CallReturns, TimerReturns, Reschedule, FlushCall,
                              TimerFires, TimerFiresLate, Goto, EnterFlush, Idle, Alone, TypeOK
    <2>3. CASE FlushCall(t) \/ TimerFires(t) \/ TimerFiresLate(t) \/ CallReturns(t)
      <3>1. fl[t].pc \in {"idle", "returned"} /\ UNCHANGED stateMutex
        BY <2>3 DEF FlushCall, TimerFires, TimerFiresLate, CallReturns
      <3>2. fl'[t].pc \in {"waitFlush", "returned", "idle"}
        BY <2>0, <2>3, FlushMoves DEF FlushCall, TimerFires, CallReturns
      <3>3. QED
        BY <1>2, <2>0, <2>2, <3>1, <3>2 DEF FlushWaits
    <2>4. CASE TimerReturns(t)
      <3>1. fl'[t].pc = "waitResched" /\ fl[t].pc = "returned" /\ stateMutex' = Acquire(stateMutex, t)
        BY <2>0, <2>4, FlushMoves DEF TimerReturns, AcquireState, FlushPcs
      <3>2. Asks(t)
        BY <2>0, <3>1, Kinds DEF Asks, Uses, FlushWaits
      <3>3. QED
        BY <2>0, <2>2, <3>2 DEF OneMoves
    <2>5. CASE Reschedule(t)
      <3>1. fl'[t].pc = "idle" /\ fl[t].pc = "waitResched" /\ ~Queued(stateMutex, t)
            /\ stateMutex' = Release(stateMutex)
        BY <2>0, <2>5 DEF Reschedule, Idle, NoFlush, HasState, ReleaseState, TypeOK
      <3>2. Leaves(t)
        BY <2>0, <3>1, Kinds DEF Leaves, Uses, FlushWaits
      <3>3. QED
        BY <2>0, <2>2, <3>2 DEF OneMoves
    <2>6. QED
      BY <1>6, <2>1, <2>3, <2>4, <2>5 DEF CallerStep, CallerContinues
  <1>7. QED
    BY <1>3, <1>4, <1>5, <1>6

(* Steps of an agent.                                                       *)
LEMMA AgentState ==
    ASSUME TypeOK, StateInv, NEW a \in Agents, AgentStep(a)
    PROVE  OneMoves
  <1> USE DEF AgentUnchanged
  <1>1. UNCHANGED <<fl, rd, jpc>> /\ a \in Tasks /\ a \notin Readers
    BY Kinds DEF AgentStep, AgentContinues, AgentCall, Begin, BeginLocked, AgentPush, AgentPushNoShadow,
                 AgentPushLocked, Commit, CommitLocked, Rollback, RollbackLocked, Refused, AgentTimeout
  <1>2. Uses(a) <=> ag[a].pc \in AgentWaits
    BY Kinds DEF Uses
  <1>3. Uses(a)' <=> ag'[a].pc \in AgentWaits
    BY Kinds DEF Uses
  <1>4. ag[a] \in AgentRun
    BY DEF TypeOK
  <1>5. ASSUME NEW pc \in AgentPcs, AgentGoto(a, pc)
        PROVE  ag'[a].pc = pc /\ Alone(a)
    <2>1. ag'[a] = [ag[a] EXCEPT !.pc = pc]
      BY <1>5 DEF AgentGoto, TypeOK
    <2>2. ag'[a].pc = pc
      BY <1>4, <2>1 DEF AgentRun
    <2>3. Alone(a)
      BY <1>1, <1>5 DEF AgentGoto, Alone, TypeOK
    <2>4. QED
      BY <2>2, <2>3
  <1> USE DEF AgentWaits
  <1>6. CASE Begin(a) \/ Commit(a) \/ Rollback(a)
    <2>1. PICK to \in {"waitBegin", "waitCommit", "waitRollback"} :
              /\ AgentGoto(a, to) /\ ag[a].pc \in {"idle", "open"} /\ stateMutex' = Acquire(stateMutex, a)
      BY <1>6 DEF Begin, Commit, Rollback, AgentCall, AcquireState
    <2>2. ag'[a].pc = to /\ Alone(a)
      BY <1>5, <2>1 DEF AgentPcs
    <2>3. Asks(a)
      BY <1>2, <1>3, <2>1, <2>2 DEF Asks
    <2>4. QED
      BY <1>1, <2>2, <2>3 DEF OneMoves
  <1>7. CASE \E o \in Ops : AgentPushNoShadow(a, o)
    <2>1. PICK o \in Ops : AgentPushNoShadow(a, o)
      BY <1>7
    <2>2. ag'[a].pc = "waitShadow" /\ Alone(a)
      BY <1>1, <2>1 DEF AgentPushNoShadow, Alone, TypeOK
    <2>3. Asks(a)
      BY <1>2, <1>3, <2>1, <2>2 DEF AgentPushNoShadow, AcquireState, Asks
    <2>4. QED
      BY <1>1, <2>2, <2>3 DEF OneMoves
  <1>8. CASE BeginLocked(a) \/ AgentPushLocked(a) \/ CommitLocked(a) \/ RollbackLocked(a)
    <2>1. /\ ag[a].pc \in AgentWaits /\ ~Queued(stateMutex, a)
          /\ stateMutex' = Release(stateMutex)
      BY <1>8 DEF BeginLocked, AgentPushLocked, CommitLocked, RollbackLocked, AgentLocked, HasState, ReleaseState
    <2>2. ag'[a].pc \in {"open", "committed", "rolledback"} /\ Alone(a)
      <3>1. CASE AgentPushLocked(a)
        <4>1. ag' = [ag EXCEPT ![a] = [ag[a] EXCEPT !.pc = "open", !.pending = {}]]
          BY <3>1 DEF AgentPushLocked, TypeOK
        <4>2. [ag[a] EXCEPT !.pc = "open", !.pending = {}].pc = "open"
          BY <1>4 DEF AgentRun
        <4>3. QED
          BY <1>1, <4>1, <4>2 DEF Alone, TypeOK
      <3>2. CASE BeginLocked(a) \/ CommitLocked(a) \/ RollbackLocked(a)
        BY <1>5, <3>2 DEF BeginLocked, CommitLocked, RollbackLocked, AgentPcs
      <3>3. QED
        BY <1>8, <3>1, <3>2
    <2>3. Leaves(a)
      BY <1>2, <1>3, <2>1, <2>2 DEF Leaves
    <2>4. QED
      BY <1>1, <2>2, <2>3 DEF OneMoves
  <1>9. CASE AgentTimeout(a)
    <2>1. PICK pc \in {"open", "aborted"} : AgentGoto(a, pc)
      BY <1>9 DEF AgentTimeout
    <2>2. ag'[a].pc = pc /\ Alone(a)
      BY <1>5, <2>1 DEF AgentPcs
    <2>3. GivesUp(a)
      BY <1>2, <1>3, <1>9, <2>2 DEF AgentTimeout, LeaveState, LeaveQueue, GivesUp
    <2>4. QED
      BY <1>1, <2>2, <2>3 DEF OneMoves
  <1>10. CASE Refused(a)
    <2>1. ag'[a].pc = "aborted" /\ Alone(a)
      BY <1>5, <1>10 DEF Refused, AgentPcs
    <2>2. Keeps(a)
      BY <1>2, <1>3, <1>10, <2>1 DEF Refused, Keeps
    <2>3. QED
      BY <1>1, <2>1, <2>2 DEF OneMoves
  <1>11. CASE \E o \in Ops : AgentPush(a, o)
    <2>1. PICK o \in Ops : AgentPush(a, o)
      BY <1>11
    <2>2. ag' = [ag EXCEPT ![a] = [ag[a] EXCEPT !.pushed = @ \cup {o}]]
      BY <2>1 DEF AgentPush, TypeOK
    <2>3. ag'[a].pc = ag[a].pc /\ Alone(a)
      BY <1>1, <1>4, <2>2 DEF AgentRun, Alone, TypeOK
    <2>4. Keeps(a)
      BY <1>2, <1>3, <2>1, <2>3 DEF AgentPush, Keeps
    <2>5. QED
      BY <1>1, <2>3, <2>4 DEF OneMoves
  <1>12. QED
    BY <1>6, <1>7, <1>8, <1>9, <1>10, <1>11 DEF AgentStep, AgentContinues

(* Steps of the shadow clean-up.                                            *)
LEMMA CleanupState ==
    ASSUME TypeOK, StateInv, lifecycle' # "crashed", CleanupStep
    PROVE  OneMoves
  <1>1. CASE CleanupCall
    <2>1. Alone(Janitor) /\ Asks(Janitor)
      BY <1>1, Kinds DEF CleanupCall, JanitorUnchanged, AcquireState, Alone, Asks, Uses
    <2>2. QED
      BY <1>1, <2>1, Kinds DEF OneMoves, CleanupCall, JanitorUnchanged
  <1>2. CASE CleanupLocked
    <2>1. Alone(Janitor) /\ Leaves(Janitor)
      BY <1>2, Kinds DEF CleanupLocked, JanitorUnchanged, ReleaseState, HasState, Alone, Leaves, Uses
    <2>2. QED
      BY <1>2, <2>1, Kinds DEF OneMoves, CleanupLocked, JanitorUnchanged
  <1>3. ~CleanupTimeout
    BY DEF CleanupTimeout, ProcessEnds
  <1>4. QED
    BY <1>1, <1>2, <1>3 DEF CleanupStep

(* Where a read is after each of its steps.                                 *)
LEMMA ReadMoves ==
    ASSUME TypeOK, NEW r \in Readers
    PROVE  /\ ReadCall(r) => rd'[r] = [rd[r] EXCEPT !.pc = "waitState", !.must = accepted]
                              /\ rd'[r].pc = "waitState" /\ rd'[r].must = accepted
           /\ ReadLocked(r) => rd'[r].pc = "query" /\ rd'[r].must = rd[r].must
           /\ ReadDisk(r) => rd'[r].pc = "overlay" /\ rd'[r].must = rd[r].must /\ rd'[r].snap = applied
           /\ ReadOverlay(r) =>
                /\ rd'[r].pc = "done" /\ rd'[r].must = rd[r].must
                /\ rd'[r].seen = [o \in Ops |-> rd[r].snap[o] + InMap(o, inflight) + InMap(o, active)]
           /\ ReadTimeout(r) => rd'[r].pc = "rejected" /\ rd'[r].must = {}
           /\ ReadStep(r) => \A q \in Readers : q # r => rd'[q] = rd[q]
  <1>0. rd[r] \in ReadRun
    BY DEF TypeOK
  <1>1. ASSUME ReadCall(r)
        PROVE  /\ rd'[r] = [rd[r] EXCEPT !.pc = "waitState", !.must = accepted]
               /\ rd'[r].pc = "waitState" /\ rd'[r].must = accepted
    <2>1. rd'[r] = [rd[r] EXCEPT !.pc = "waitState", !.must = accepted]
      BY <1>1 DEF ReadCall, TypeOK
    <2>2. QED
      BY <1>0, <2>1 DEF ReadRun
  <1>2. ASSUME ReadLocked(r)
        PROVE  rd'[r].pc = "query" /\ rd'[r].must = rd[r].must
    <2>1. rd'[r] = [rd[r] EXCEPT !.pc = "query"]
      BY <1>2 DEF ReadLocked, TypeOK
    <2>2. QED
      BY <1>0, <2>1 DEF ReadRun
  <1>3. ASSUME ReadDisk(r)
        PROVE  rd'[r].pc = "overlay" /\ rd'[r].must = rd[r].must /\ rd'[r].snap = applied
    <2>1. rd'[r] = [rd[r] EXCEPT !.pc = "overlay", !.snap = applied]
      BY <1>3 DEF ReadDisk, TypeOK
    <2>2. QED
      BY <1>0, <2>1 DEF ReadRun
  <1>4. ASSUME ReadOverlay(r)
        PROVE  /\ rd'[r].pc = "done" /\ rd'[r].must = rd[r].must
               /\ rd'[r].seen = [o \in Ops |-> rd[r].snap[o] + InMap(o, inflight) + InMap(o, active)]
    <2> DEFINE seen == [o \in Ops |-> rd[r].snap[o] + InMap(o, inflight) + InMap(o, active)]
    <2>1. rd'[r] = [rd[r] EXCEPT !.pc = "done", !.snap = Nowhere, !.seen = seen]
      BY <1>4 DEF ReadOverlay, TypeOK
    <2> HIDE DEF seen
    <2>2. rd'[r].pc = "done" /\ rd'[r].must = rd[r].must /\ rd'[r].seen = seen
      BY <1>0, <2>1 DEF ReadRun
    <2>3. QED
      BY <2>2 DEF seen
  <1>5. ReadTimeout(r) => rd'[r].pc = "rejected" /\ rd'[r].must = {}
    BY DEF ReadTimeout, NoRead, TypeOK
  <1>6. ReadStep(r) => \A q \in Readers : q # r => rd'[q] = rd[q]
    BY DEF ReadStep, ReadContinues, ReadCall, ReadLocked, ReadDisk, ReadOverlay, ReadTimeout, TypeOK
  <1>7. QED
    BY <1>1, <1>2, <1>3, <1>4, <1>5, <1>6

(* Steps of a read.                                                         *)
LEMMA ReadState ==
    ASSUME TypeOK, StateInv, NEW r \in Readers, ReadStep(r)
    PROVE  OneMoves
  <1> USE DEF ReadUnchanged, ReadHolds
  <1>1. UNCHANGED <<fl, ag, jpc>> /\ r \in Tasks
    BY Kinds DEF ReadStep, ReadContinues, ReadCall, ReadLocked, ReadDisk, ReadOverlay, ReadTimeout
  <1>2. Alone(r)
    BY <1>1, ReadMoves DEF Alone
  <1>3. Uses(r) <=> rd[r].pc \in ReadHolds
    BY Kinds DEF Uses
  <1>4. Uses(r)' <=> rd'[r].pc \in ReadHolds
    BY Kinds DEF Uses
  <1>5. ASSUME Asks(r) \/ Leaves(r) \/ GivesUp(r) \/ Keeps(r), Queued(stateMutex, r)' => rd'[r].pc = "waitState"
        PROVE  OneMoves
    BY <1>1, <1>2, <1>5 DEF OneMoves
  <1>6. CASE ReadCall(r)
    <2>1. Asks(r) /\ rd'[r].pc = "waitState"
      BY <1>3, <1>4, <1>6, ReadMoves DEF ReadCall, AcquireState, Asks
    <2>2. QED
      BY <1>5, <2>1
  <1>7. CASE ReadLocked(r) \/ ReadDisk(r)
    <2>1. Keeps(r)
      BY <1>3, <1>4, <1>7, ReadMoves DEF ReadLocked, ReadDisk, Keeps
    <2>2. ~Queued(stateMutex, r)'
      BY <1>7 DEF ReadLocked, ReadDisk, HasState, StateInv, Queued
    <2>3. QED
      BY <1>5, <2>1, <2>2
  <1>8. CASE ReadOverlay(r) \/ ReadTimeout(r)
    <2>1. Leaves(r) \/ GivesUp(r)
      <3>1. CASE ReadOverlay(r)
        BY <1>3, <1>4, <3>1, ReadMoves DEF ReadOverlay, ReleaseState, Leaves, StateInv
      <3>2. CASE ReadTimeout(r)
        BY <1>3, <1>4, <3>2, ReadMoves DEF ReadTimeout, LeaveQueue, GivesUp
      <3>3. QED
        BY <1>8, <3>1, <3>2
    <2>2. ~Queued(stateMutex, r)'
      BY <1>1, <1>2, <2>1, MutexStep DEF StateInv
    <2>3. QED
      BY <1>5, <2>1, <2>2
  <1>9. QED
    BY <1>6, <1>7, <1>8 DEF ReadStep, ReadContinues

(* StateInv is inductive.                                                   *)
LEMMA StateInit == Init => StateInv
  <1> SUFFICES ASSUME Init
               PROVE  StateInv
    OBVIOUS
  <1>1. StateUsers = {} /\ \A t : ~Queued(stateMutex, t)
    BY DEF Init, StateUsers, Uses, NoFlush, NoAgent, NoRead, FlushWaits, AgentWaits, ReadHolds, Unlocked, Queued
  <1>2. QED
    BY <1>1 DEF Init, StateInv, Sound, NoRepeat, Unlocked

(* As long as the process runs, every step is one task's.                   *)
LEMMA EveryStep ==
    ASSUME TypeOK, StateInv, [Next]_vars, lifecycle # "crashed", lifecycle' # "crashed"
    PROVE  OneMoves
  <1>1. CASE UNCHANGED <<fl, ag, rd, jpc, stateMutex>>
    <2>1. Alone(Janitor) /\ Keeps(Janitor)
      BY <1>1 DEF Alone, Keeps, Uses
    <2>2. QED
      BY <1>1, <2>1, Kinds DEF OneMoves
  <1>2. CASE UNCHANGED vars \/ \E o \in Ops : Push(o)
    BY <1>1, <1>2 DEF vars, Push
  <1>3. ~Kill
    BY DEF Kill, ProcessEnds
  <1>4. QED
    BY <1>2, <1>3, FlushState, CallerState, AgentState, CleanupState, ReadState DEF Next, Terminated

LEMMA StateInductive ==
    ASSUME TypeOK, Quiet, StateInv, [Next]_vars
    PROVE  StateInv'
  <1>1. CASE lifecycle = "crashed"
    <2>1. UNCHANGED vars
      BY <1>1, EndIsFinal
    <2>2. QED
      BY <2>1 DEF vars, StateInv, StateUsers, Uses
  <1>2. CASE lifecycle # "crashed" /\ lifecycle' = "crashed"
    <2>1. ProcessEnds /\ Quiet'
      BY <1>2, OnlyEndEnds, EndIsQuiet
    <2>2. StateUsers' = {} /\ \A t : ~Queued(stateMutex, t)'
      BY <1>2, <2>1 DEF ProcessEnds, Quiet, StateUsers, Uses, FlushWaits, AgentWaits, ReadHolds, Unlocked, Queued
    <2>3. QED
      BY <2>1, <2>2 DEF ProcessEnds, StateInv, Sound, NoRepeat, Unlocked
  <1>3. CASE lifecycle # "crashed" /\ lifecycle' # "crashed"
    BY <1>3, EveryStep, StateStep
  <1>4. QED
    BY <1>1, <1>2, <1>3

LEMMA StateHolds == Spec => []StateInv
  <1>1. TxnInv => Quiet
    BY DEF TxnInv
  <1>2. QED
    BY <1>1, StateInit, StateInductive, TypeCorrect, TxnInvHolds, PTL DEF Spec

-----------------------------------------------------------------------------
(* Reads                                                                    *)

(* What the overlay of a read adds to its disk result, or was reported.     *)
Shown == buf[active] \cup buf[inflight] \cup deadLetters

(* Undisturbed, a write that a read must see and did not find on disk stays *)
(* in the buffers until the read looks there.                               *)
ReadInv ==
    Undisturbed => \A r \in Readers :
        /\ rd[r].must \subseteq accepted
        /\ rd[r].pc = "overlay" => \A o \in rd[r].must : rd[r].snap[o] > 0 \/ o \in Shown
        /\ rd[r].pc = "done" => \A o \in rd[r].must : rd[r].seen[o] > 0 \/ o \in deadLetters

(* The steps that neither accept nor clear anything.                        *)
Still == UNCHANGED <<buf, active, inflight, accepted, deadLetters>>

LEMMA StillSteps ==
    ASSUME TypeOK, lifecycle' # "crashed", [Next]_vars
    PROVE  \/ Still
           \/ \E o \in Ops : Push(o)
           \/ \E a \in Agents : CommitLocked(a)
           \/ \E t \in FlushTasks : Swap(t) \/ Succeed(t) \/ Fail(t)
  <1> USE DEF Still, QueueUnchanged, FlushUnchanged, poolVars, histVars, diskVars
  <1>1. StartStep \/ StopStep \/ IntervalTick => Still
    BY DEF StartStep, StartCall, StartDone, StartFails, StartUnchanged, StopStep, StopNew, StopStarting,
           StopStarted, StopFlushAgain, StopDone, StopUnchanged, IntervalTick
  <1>2. ASSUME NEW a \in Agents, AgentStep(a), ~CommitLocked(a)
        PROVE  Still
    BY <1>2 DEF AgentStep, AgentContinues, AgentCall, AgentUnchanged, Begin, BeginLocked, AgentPush,
                AgentPushNoShadow, AgentPushLocked, Commit, Rollback, RollbackLocked, Refused, AgentTimeout
  <1>3. ~Kill /\ (CleanupStep => Still)
    BY DEF Kill, CleanupStep, CleanupCall, CleanupLocked, CleanupTimeout, JanitorUnchanged, ProcessEnds
  <1>4. ASSUME NEW t \in FlushTasks, FlushStep(t)
        PROVE  Still \/ Swap(t) \/ Succeed(t) \/ Fail(t)
    BY <1>4 DEF FlushStep, FlushContinues, FlushLocked, TakeInFlight, Selected, NothingToFlush, Durable, Write,
                AwaitClear, Busy, Fatal, Retry, RetryRefused, FlushMutexTimeout, StateMutexTimeout, FailTimeout
  <1>5. ASSUME NEW t \in Callers, CallerStep(t)
        PROVE  Still
    BY <1>5 DEF CallerStep, CallerContinues, FlushCall, TimerFires, TimerFiresLate, CallReturns, TimerReturns,
                Reschedule, Unhandled, RescheduleTimeout, ProcessEnds
  <1>6. ASSUME NEW r \in Readers, ReadStep(r)
        PROVE  Still
    BY <1>6 DEF ReadStep, ReadContinues, ReadUnchanged, ReadCall, ReadLocked, ReadDisk, ReadOverlay, ReadTimeout
  <1>7. UNCHANGED vars => Still
    BY DEF vars
  <1>8. QED
    BY <1>1, <1>2, <1>3, <1>4, <1>5, <1>6, <1>7 DEF Next, Terminated

(* A read between its query and its overlay has the state mutex for itself. *)
LEMMA ReadAlone ==
    ASSUME StateInv, NEW t \in StateUsers, ~Queued(stateMutex, t), t \notin Readers
    PROVE  \A r \in Readers : rd[r].pc # "overlay"
  <1> SUFFICES ASSUME NEW r \in Readers, rd[r].pc = "overlay"
               PROVE  FALSE
    OBVIOUS
  <1>1. r \in StateUsers /\ ~Queued(stateMutex, r)
    BY Kinds DEF StateInv, StateUsers, Uses, ReadHolds
  <1>2. QED
    BY <1>1 DEF StateInv, Sound

(* What is accepted or reported stays so, and nothing leaves the buffers    *)
(* unreported between the query and the overlay of a read.                  *)
LEMMA ShownStays ==
    ASSUME TypeOK, StateInv, lifecycle' # "crashed", [Next]_vars
    PROVE  /\ accepted \subseteq accepted' /\ deadLetters \subseteq deadLetters'
           /\ Shown \subseteq Shown' \/ \A r \in Readers : rd[r].pc # "overlay"
  <1> USE DEF FlushUnchanged, poolVars, histVars, diskVars
  <1>1. CASE Still
    BY <1>1 DEF Still, Shown
  <1>2. ASSUME NEW o \in Ops, Push(o)
        PROVE  accepted \subseteq accepted' /\ deadLetters \subseteq deadLetters' /\ Shown \subseteq Shown'
    BY <1>2 DEF Push, Shown, TypeOK, Bufs
  <1>3. ASSUME NEW a \in Agents, CommitLocked(a)
        PROVE  accepted \subseteq accepted' /\ deadLetters \subseteq deadLetters' /\ Shown \subseteq Shown'
    <2>1. PICK ops : /\ buf' = [buf EXCEPT ![active] = @ \cup ops] /\ accepted' = accepted \cup ops
                     /\ UNCHANGED <<active, inflight, deadLetters>>
      BY <1>3 DEF CommitLocked
    <2>2. QED
      BY <2>1 DEF Shown, TypeOK, Bufs
  <1>4. ASSUME NEW t \in FlushTasks, Swap(t) \/ Succeed(t) \/ Fail(t)
        PROVE  /\ accepted \subseteq accepted' /\ deadLetters \subseteq deadLetters'
               /\ \A r \in Readers : rd[r].pc # "overlay"
    <2>1. UNCHANGED accepted /\ deadLetters \subseteq deadLetters'
      BY <1>4 DEF Swap, Selected, Succeed, Fail, EndFlush
    <2>2. t \in StateUsers /\ ~Queued(stateMutex, t)
      BY <1>4, Kinds DEF Swap, Selected, Succeed, Fail, EndFlush, HasState, StateUsers, Uses, FlushWaits
    <2>3. QED
      BY <2>1, <2>2, ReadAlone, Kinds
  <1>5. QED
    BY <1>1, <1>2, <1>3, <1>4, StillSteps

LEMMA ReadInductive ==
    ASSUME TypeOK, Quiet, StateInv, WriteInv, ReadInv, [Next]_vars
    PROVE  ReadInv'
  <1> SUFFICES ASSUME Undisturbed', NEW r \in Readers
               PROVE  /\ rd'[r].must \subseteq accepted'
                      /\ rd'[r].pc = "overlay" =>
                            \A o \in rd'[r].must : rd'[r].snap[o] > 0 \/ o \in Shown'
                      /\ rd'[r].pc = "done" =>
                            \A o \in rd'[r].must : rd'[r].seen[o] > 0 \/ o \in deadLetters'
    BY DEF ReadInv
  <1>0. Undisturbed
    BY CountMonotone DEF Undisturbed, EnvEvents
  <1>1. /\ rd[r].must \subseteq accepted
        /\ rd[r].pc = "overlay" => \A o \in rd[r].must : rd[r].snap[o] > 0 \/ o \in Shown
        /\ rd[r].pc = "done" => \A o \in rd[r].must : rd[r].seen[o] > 0 \/ o \in deadLetters
    BY <1>0 DEF ReadInv
  <1>2. rd[r] \in ReadRun
    BY DEF TypeOK
  <1>3. CASE lifecycle' = "crashed"
    <2>1. UNCHANGED vars \/ ProcessEnds
      BY <1>3, EndIsFinal, OnlyEndEnds
    <2>2. CASE UNCHANGED vars
      BY <1>1, <2>2 DEF vars, poolVars, histVars, diskVars, Shown
    <2>3. CASE ProcessEnds
      BY <2>3 DEF ProcessEnds, NoRead
    <2>4. QED
      BY <2>1, <2>2, <2>3
  <1>4. CASE lifecycle' # "crashed"
    <2>1. /\ accepted \subseteq accepted' /\ deadLetters \subseteq deadLetters'
          /\ Shown \subseteq Shown' \/ rd[r].pc # "overlay"
      BY <1>4, ShownStays
    <2>2. CASE rd'[r] = rd[r]
      BY <1>1, <2>1, <2>2
    <2>3. ASSUME ReadStep(r)
          PROVE  /\ rd'[r].must \subseteq accepted'
                 /\ rd'[r].pc = "overlay" =>
                       \A o \in rd'[r].must : rd'[r].snap[o] > 0 \/ o \in Shown'
                 /\ rd'[r].pc = "done" =>
                       \A o \in rd'[r].must : rd'[r].seen[o] > 0 \/ o \in deadLetters'
      <3>0. UNCHANGED <<buf, active, inflight, accepted, applied, deadLetters, lifecycle>>
        BY <2>3 DEF ReadStep, ReadContinues, ReadUnchanged, ReadCall, ReadLocked, ReadDisk, ReadOverlay,
                    ReadTimeout, poolVars, histVars, diskVars
      <3>1. CASE ReadCall(r) \/ ReadLocked(r) \/ ReadTimeout(r)
        BY <1>1, <3>0, <3>1, ReadMoves
      <3>2. CASE ReadDisk(r)
        <4>1. rd'[r].pc = "overlay" /\ rd'[r].must = rd[r].must /\ rd'[r].snap = applied
          BY <3>2, ReadMoves
        <4>2. accepted \subseteq Shown \cup Applied
          BY <1>0, <1>4, <3>0 DEF WriteInv, Kept, Shown
        <4>3. QED
          BY <1>1, <3>0, <4>1, <4>2 DEF Applied, Shown
      <3>3. CASE ReadOverlay(r)
        <4>1. /\ rd[r].pc = "overlay" /\ rd'[r].pc = "done" /\ rd'[r].must = rd[r].must
              /\ rd'[r].seen = [o \in Ops |-> rd[r].snap[o] + InMap(o, inflight) + InMap(o, active)]
          BY <3>3, ReadMoves DEF ReadOverlay
        <4>2. ASSUME NEW o \in rd[r].must
              PROVE  rd'[r].seen[o] > 0 \/ o \in deadLetters
          <5>1. o \in Ops /\ rd[r].snap[o] \in Nat
            BY <1>2 DEF ReadRun
          <5>2. InMap(o, inflight) \in {0, 1} /\ InMap(o, active) \in {0, 1}
            BY DEF InMap
          <5>3. rd'[r].seen[o] = rd[r].snap[o] + InMap(o, inflight) + InMap(o, active)
            BY <4>1, <5>1
          <5>4. \/ rd[r].snap[o] > 0 \/ InMap(o, inflight) = 1 \/ InMap(o, active) = 1
                \/ o \in deadLetters
            BY <1>1, <4>1 DEF Shown, InMap
          <5>5. QED
            BY <5>1, <5>2, <5>3, <5>4
        <4>3. QED
          BY <1>1, <3>0, <4>1, <4>2
      <3>4. QED
        BY <2>3, <3>1, <3>2, <3>3 DEF ReadStep, ReadContinues
    <2>4. rd'[r] = rd[r] \/ ReadStep(r)
      <3>1. ASSUME NEW t \in FlushTasks, FlushStep(t)
            PROVE  UNCHANGED rd
        BY <3>1 DEF FlushStep, FlushContinues, FlushLocked, Swap, TakeInFlight, Selected, NothingToFlush,
                    Durable, Write, AwaitClear, Succeed, Fail, EndFlush, Busy, Fatal, Retry, RetryRefused,
                    FlushMutexTimeout, StateMutexTimeout, FailTimeout, QueueUnchanged, FlushUnchanged
      <3>2. ASSUME NEW a \in Agents, AgentStep(a)
            PROVE  UNCHANGED rd
        BY <3>2 DEF AgentStep, AgentContinues, AgentCall, AgentUnchanged, Begin, BeginLocked, AgentPush,
                    AgentPushNoShadow, AgentPushLocked, Commit, CommitLocked, Rollback, RollbackLocked,
                    Refused, AgentTimeout
      <3>3. ASSUME NEW t \in Callers, CallerStep(t)
            PROVE  UNCHANGED rd
        BY <1>4, <3>3 DEF CallerStep, CallerContinues, FlushCall, TimerFires, TimerFiresLate, CallReturns,
                    TimerReturns, Reschedule, Unhandled, RescheduleTimeout, ProcessEnds, QueueUnchanged,
                    FlushUnchanged
      <3>4. StartStep \/ StopStep \/ IntervalTick \/ CleanupStep \/ (\E o \in Ops : Push(o)) => UNCHANGED rd
        BY <1>4 DEF StartStep, StartCall, StartDone, StartFails, StartUnchanged, StopStep, StopNew,
                    StopStarting, StopStarted, StopFlushAgain, StopDone, StopUnchanged, IntervalTick,
                    CleanupStep, CleanupCall, CleanupLocked, CleanupTimeout, JanitorUnchanged, ProcessEnds,
                    Push, QueueUnchanged, FlushUnchanged
      <3>5. ~Kill /\ (UNCHANGED vars => UNCHANGED rd)
        BY <1>4 DEF Kill, ProcessEnds, vars
      <3>6. \A q \in Readers : ReadStep(q) => q = r \/ rd'[r] = rd[r]
        BY ReadMoves
      <3>7. QED
        BY <3>1, <3>2, <3>3, <3>4, <3>5, <3>6 DEF Next, Terminated
    <2>5. QED
      BY <2>2, <2>3, <2>4
  <1>5. QED
    BY <1>3, <1>4

LEMMA ReadHoldsAlways == Spec => []ReadInv
  <1>1. Init => ReadInv
    BY DEF Init, ReadInv, NoRead
  <1>2. TxnInv => Quiet
    BY DEF TxnInv
  <1>3. QED
    BY <1>1, <1>2, ReadInductive, TypeCorrect, TxnInvHolds, StateHolds, WriteHolds, PTL DEF Spec

(* Undisturbed, a read sees what was accepted before it was called.         *)
THEOREM ReadsSeeWrites == Spec => []ReadYourWrites
  <1>1. ReadInv => ReadYourWrites
    BY DEF ReadInv, ReadYourWrites
  <1>2. QED
    BY <1>1, ReadHoldsAlways, PTL

-----------------------------------------------------------------------------
(* stop()                                                                   *)

(* Where stop() is, and that nothing happens before start().                *)
StopPlace ==
    /\ lifecycle \in {"new", "starting"} =>
        /\ accepted = {} /\ \A b \in Bufs : buf[b] = {}
        /\ \A a \in Agents : ag[a].pc = "idle"
        /\ \A t \in Callers : fl[t].pc = "idle"
        /\ fl[Stopper].pc \in {"idle", "waitStart"}
    /\ lifecycle = "started" => fl[Stopper].pc \in {"idle", "waitStart"}
    /\ lifecycle \in {"new", "stopped"} => fl[Stopper].pc = "idle"
    /\ lifecycle = "stopping" => /\ fl[Stopper].pc \notin {"idle", "waitStart", "waitResched"}
                                 /\ fl[Stopper].kind \in {"stop1", "stop2"}

(* The first flush of stop() has taken the active buffer.                   *)
Drained ==
    \/ lifecycle = "stopped"
    \/ lifecycle = "stopping" /\ ~(fl[Stopper].kind = "stop1" /\ fl[Stopper].pc \in {"waitFlush", "waitState"})

(* From then on nothing is accepted and nobody else writes.                 *)
NothingLeft ==
    Undisturbed /\ Drained =>
        /\ buf[active] = {}
        /\ \A a \in Agents : ag[a].pc # "waitCommit"
        /\ Writing \subseteq {Stopper}

(* Until then a commit still waiting for the state mutex is ahead of it.    *)
CommitsAhead ==
    Undisturbed /\ lifecycle = "stopping" /\ fl[Stopper].kind = "stop1" /\ fl[Stopper].pc = "waitState" =>
        \A a \in Agents : ag[a].pc = "waitCommit" /\ Queued(stateMutex, a) => Before(stateMutex, a, Stopper)

StopInv == StopPlace /\ NothingLeft /\ CommitsAhead

LEMMA StopInit == Init => StopInv
  BY Kinds DEF Init, StopInv, StopPlace, NothingLeft, CommitsAhead, Drained, NoFlush, NoAgent

(* What a flush does not do.                                                *)
LEMMA FlushStays ==
    ASSUME TypeOK, NEW t \in FlushTasks, FlushStep(t)
    PROVE  /\ UNCHANGED <<lifecycle, accepted, ag>>
           /\ fl'[t].kind = fl[t].kind
           /\ fl[t].pc \notin {"idle", "waitStart", "returned", "waitResched"}
           /\ fl'[t].pc \notin {"idle", "waitStart", "waitResched"}
           /\ \A u \in FlushTasks : u # t => fl'[u] = fl[u]
  <1> USE DEF QueueUnchanged, FlushUnchanged, histVars
  <1>0. fl[t] \in FlushRun
    BY DEF TypeOK
  <1>1. UNCHANGED <<lifecycle, accepted, ag>> /\ \A u \in FlushTasks : u # t => fl'[u] = fl[u]
    BY DEF FlushStep, FlushContinues, FlushLocked, Swap, TakeInFlight, Selected, NothingToFlush, Durable, Write,
           AwaitClear, Succeed, Fail, EndFlush, Busy, Fatal, Retry, RetryRefused, FlushMutexTimeout,
           StateMutexTimeout, FailTimeout, Goto, Catch, Return, TypeOK
  <1>2. fl[t].pc \notin {"idle", "waitStart", "returned", "waitResched"}
    BY DEF FlushStep, FlushContinues, FlushLocked, Swap, TakeInFlight, Selected, NothingToFlush, Durable, Write,
           AwaitClear, Succeed, Fail, Busy, Fatal, Retry, RetryRefused, FlushMutexTimeout, StateMutexTimeout,
           FailTimeout
  <1> DEFINE Ends == fl'[t].kind = fl[t].kind /\ fl'[t].pc \notin {"idle", "waitStart", "waitResched"}
  <1>3. ASSUME NEW pc \in {"waitState", "durable", "waitClear", "delay"}, Goto(t, pc)
        PROVE  Ends
    <2>1. fl'[t] = [fl[t] EXCEPT !.pc = pc]
      BY <1>3 DEF Goto, TypeOK
    <2>2. QED
      BY <1>0, <2>1 DEF FlushRun
  <1>4. ASSUME NEW r \in {"busy", "fatal"}, Catch(t, r)
        PROVE  Ends
    <2>1. fl'[t] = [fl[t] EXCEPT !.pc = "waitFail", !.res = r]
      BY <1>4 DEF Catch, TypeOK
    <2>2. QED
      BY <1>0, <2>1 DEF FlushRun
  <1>5. ASSUME NEW r, Return(t, r)
        PROVE  Ends
    BY <1>5, FlushMoves
  <1>6. ASSUME NEW ops, Selected(t, ops)
        PROVE  Ends
    <2>1. fl'[t] = [fl[t] EXCEPT !.pc = "exec", !.ops = ops]
      BY <1>6 DEF Selected, TypeOK
    <2>2. QED
      BY <1>0, <2>1 DEF FlushRun
  <1>7. ASSUME Retry(t)
        PROVE  Ends
    <2>1. fl'[t] = [fl[t] EXCEPT !.pc = "waitFlush", !.retry = @ + 1, !.ops = {}]
      BY <1>7 DEF Retry, TypeOK
    <2>2. QED
      BY <1>0, <2>1 DEF FlushRun
  <1> HIDE DEF Ends
  <1>8. Ends
    BY <1>3, <1>4, <1>5, <1>6, <1>7 DEF FlushStep, FlushContinues, FlushLocked, Swap, TakeInFlight,
         NothingToFlush, Durable, Write, AwaitClear, Succeed, Fail, EndFlush, Busy, Fatal, RetryRefused,
         FlushMutexTimeout, StateMutexTimeout, FailTimeout
  <1>9. QED
    BY <1>1, <1>2, <1>8 DEF Ends

(* Steps that are neither of start(), of stop() nor of a flush leave stop() *)
(* and the lifecycle alone; before start() nothing but the clean-up and     *)
(* reads, which never begin, could happen.                                  *)
LEMMA OthersStay ==
    ASSUME TypeOK, StopPlace, lifecycle' # "crashed", [Next]_vars, ~StartStep, ~StopStep,
           \A t \in FlushTasks : ~FlushStep(t)
    PROVE  /\ UNCHANGED lifecycle /\ fl'[Stopper] = fl[Stopper]
           /\ lifecycle \in {"new", "starting"} => UNCHANGED <<accepted, buf, ag, fl>>
  <1> USE DEF QueueUnchanged, FlushUnchanged, poolVars, histVars
  <1> DEFINE Stay == /\ UNCHANGED lifecycle /\ fl'[Stopper] = fl[Stopper]
                     /\ lifecycle \in {"new", "starting"} => UNCHANGED <<accepted, buf, ag, fl>>
  <1>1. IntervalTick \/ UNCHANGED vars => Stay
    BY DEF IntervalTick, vars
  <1>2. ASSUME NEW o \in Ops, Push(o)
        PROVE  Stay
    BY <1>2 DEF Push
  <1>3. ASSUME NEW a \in Agents, AgentStep(a)
        PROVE  Stay
    <2>1. UNCHANGED <<lifecycle, fl>>
      BY <1>3 DEF AgentStep, AgentContinues, AgentCall, AgentUnchanged, Begin, BeginLocked, AgentPush,
                  AgentPushNoShadow, AgentPushLocked, Commit, CommitLocked, Rollback, RollbackLocked,
                  Refused, AgentTimeout
    <2>2. lifecycle = "started" \/ ag[a].pc # "idle"
      BY <1>3 DEF AgentStep, AgentContinues, AgentCall, AgentLocked, Begin, BeginLocked, AgentPush,
                  AgentPushNoShadow, AgentPushLocked, Commit, CommitLocked, Rollback, RollbackLocked,
                  Refused, AgentTimeout
    <2>3. lifecycle \notin {"new", "starting"}
      BY <2>2 DEF StopPlace
    <2>4. QED
      BY <2>1, <2>3
  <1>4. CleanupStep => Stay
    BY DEF CleanupStep, CleanupCall, CleanupLocked, CleanupTimeout, JanitorUnchanged, ProcessEnds
  <1>5. ASSUME NEW t \in Callers, CallerStep(t)
        PROVE  Stay
    <2>1. t \in FlushTasks /\ t # Stopper /\ Stopper \in FlushTasks
      BY Kinds, DbPoolAssumption
    <2>2. UNCHANGED lifecycle /\ fl'[Stopper] = fl[Stopper]
      BY <1>5, <2>1 DEF CallerStep, CallerContinues, FlushCall, TimerFires, TimerFiresLate, CallReturns,
                        TimerReturns, Reschedule, Unhandled, RescheduleTimeout, ProcessEnds, EnterFlush, Goto,
                        Idle, TypeOK
    <2>3. fl[t].pc # "idle" \/ lifecycle \notin {"new", "starting"}
      BY <1>5 DEF CallerStep, CallerContinues, FlushCall, TimerFires, TimerFiresLate, CallReturns,
                  TimerReturns, Reschedule, Unhandled, RescheduleTimeout
    <2>4. lifecycle \notin {"new", "starting"}
      BY <2>3 DEF StopPlace
    <2>5. QED
      BY <2>2, <2>4
  <1>6. ASSUME NEW r \in Readers, ReadStep(r)
        PROVE  Stay
    BY <1>6 DEF ReadStep, ReadContinues, ReadUnchanged, ReadCall, ReadLocked, ReadDisk, ReadOverlay, ReadTimeout
  <1>7. ~Kill
    BY DEF Kill, ProcessEnds
  <1>8. QED
    BY <1>1, <1>2, <1>3, <1>4, <1>5, <1>6, <1>7 DEF Next, Terminated

(* StopPlace is inductive.                                                  *)
LEMMA PlaceInductive ==
    ASSUME TypeOK, Quiet, StopPlace, [Next]_vars
    PROVE  StopPlace'
  <1> USE DEF StopPlace
  <1>0. Stopper \in FlushTasks /\ Callers \subseteq FlushTasks /\ Stopper \notin Callers
    BY Kinds, DbPoolAssumption
  <1>1. CASE lifecycle' = "crashed"
    BY <1>1
  <1>2. CASE lifecycle = "crashed"
    BY <1>2, EndIsFinal DEF vars
  <1>3. CASE lifecycle # "crashed" /\ lifecycle' # "crashed"
    <2>1. CASE StartStep
      <3>1. UNCHANGED <<accepted, buf, ag>> /\ lifecycle \in {"new", "starting"}
        BY <2>1 DEF StartStep, StartCall, StartDone, StartFails, StartUnchanged, poolVars, histVars
      <3>2. CASE StartCall \/ StartDone
        BY <3>1, <3>2 DEF StartCall, StartDone
      <3>3. CASE StartFails
        <4>1. fl'[Stopper].pc = "idle" /\ \A t \in Callers : fl'[t] = fl[t]
          BY <1>0, <3>1, <3>3 DEF StartFails, Idle, NoFlush, TypeOK
        <4>2. QED
          BY <3>1, <3>3, <4>1 DEF StartFails
      <3>4. QED
        BY <2>1, <3>2, <3>3 DEF StartStep
    <2>2. CASE StopStep
      <3>1. UNCHANGED <<accepted, buf, ag>>
        BY <2>2 DEF StopStep, StopNew, StopStarting, StopStarted, StopFlushAgain, StopDone, StopUnchanged,
                    QueueUnchanged, FlushUnchanged, poolVars, histVars
      <3>2. CASE StopNew
        BY <3>2 DEF StopNew
      <3>3. CASE StopStarting
        <4>1. fl'[Stopper].pc = "waitStart" /\ \A t \in Callers : fl'[t] = fl[t]
          BY <1>0, <3>3, FlushMoves DEF StopStarting, Goto, FlushPcs, TypeOK
        <4>2. QED
          BY <3>1, <3>3, <4>1 DEF StopStarting
      <3>4. CASE StopStarted
        BY <1>0, <3>4, FlushMoves DEF StopStarted
      <3>5. CASE StopFlushAgain
        <4>1. lifecycle' = lifecycle /\ lifecycle = "stopping"
          BY <1>3, <3>5 DEF StopFlushAgain, TypeOK, Lifecycles
        <4>2. QED
          BY <1>0, <3>5, <4>1, FlushMoves DEF StopFlushAgain
      <3>6. CASE StopDone
        BY <1>0, <3>6, FlushMoves DEF StopDone
      <3>7. QED
        BY <2>2, <3>2, <3>3, <3>4, <3>5, <3>6 DEF StopStep
    <2>3. ASSUME NEW t \in FlushTasks, FlushStep(t)
          PROVE  StopPlace'
      <3>1. /\ UNCHANGED lifecycle /\ fl'[t].kind = fl[t].kind
            /\ fl[t].pc \notin {"idle", "waitStart", "returned", "waitResched"}
            /\ fl'[t].pc \notin {"idle", "waitStart", "waitResched"}
            /\ \A u \in FlushTasks : u # t => fl'[u] = fl[u]
        BY <2>3, FlushStays
      <3>2. lifecycle \notin {"new", "starting"}
        BY <3>1 DEF FlushTasks
      <3>3. CASE t = Stopper
        BY <1>3, <3>1, <3>2, <3>3 DEF TypeOK, Lifecycles
      <3>4. CASE t # Stopper
        BY <1>0, <3>1, <3>2, <3>4
      <3>5. QED
        BY <3>3, <3>4
    <2>4. CASE ~StartStep /\ ~StopStep /\ \A t \in FlushTasks : ~FlushStep(t)
      <3>1. /\ UNCHANGED lifecycle /\ fl'[Stopper] = fl[Stopper]
            /\ lifecycle \in {"new", "starting"} => UNCHANGED <<accepted, buf, ag, fl>>
        BY <1>3, <2>4, OthersStay
      <3>2. QED
        BY <3>1
    <2>5. QED
      BY <2>1, <2>2, <2>3, <2>4
  <1>4. QED
    BY <1>1, <1>2, <1>3

(* No agent asks to commit once stop() has begun.                           *)
LEMMA NoNewCommit ==
    ASSUME TypeOK, [Next]_vars, lifecycle' # "crashed", NEW a \in Agents, ag'[a].pc = "waitCommit"
    PROVE  ag[a].pc = "waitCommit" \/ (lifecycle = "started" /\ lifecycle' = "started")
  <1>1. ASSUME NEW b \in Agents, AgentStep(b)
        PROVE  ag[a].pc = "waitCommit" \/ (lifecycle = "started" /\ lifecycle' = "started")
    <2>0. ag[b] \in AgentRun
      BY DEF TypeOK
    <2>1. CASE b # a
      BY <1>1, <2>1 DEF AgentStep, AgentContinues, AgentCall, Begin, BeginLocked, AgentPush, AgentPushNoShadow,
                        AgentPushLocked, Commit, CommitLocked, Rollback, RollbackLocked, Refused,
                        AgentTimeout, AgentGoto, TypeOK
    <2>2. CASE b = a
      <3>1. CASE Begin(a) \/ Commit(a) \/ Rollback(a) \/ \E o \in Ops : AgentPush(a, o) \/ AgentPushNoShadow(a, o)
        BY <3>1 DEF Begin, Commit, Rollback, AgentCall, AgentPush, AgentPushNoShadow, AgentUnchanged
      <3>2. ASSUME NEW pc \in AgentPcs, AgentGoto(a, pc)
            PROVE  ag'[a].pc = pc
        <4>1. ag'[a] = [ag[a] EXCEPT !.pc = pc]
          BY <3>2 DEF AgentGoto, TypeOK
        <4>2. QED
          BY <2>0, <2>2, <4>1 DEF AgentRun
      <3>3. ~BeginLocked(a) /\ ~CommitLocked(a) /\ ~RollbackLocked(a) /\ ~Refused(a)
        BY <3>2 DEF BeginLocked, CommitLocked, RollbackLocked, Refused, AgentPcs
      <3>4. ~AgentTimeout(a)
        BY <3>2 DEF AgentTimeout, AgentPcs
      <3>5. ~AgentPushLocked(a)
        <4>1. SUFFICES ASSUME AgentPushLocked(a)
                       PROVE  FALSE
          OBVIOUS
        <4>2. ag'[a] = [ag[a] EXCEPT !.pc = "open", !.pending = {}]
          BY <4>1 DEF AgentPushLocked, TypeOK
        <4>3. QED
          BY <2>0, <2>2, <4>2 DEF AgentRun
      <3>6. QED
        BY <1>1, <2>2, <3>1, <3>3, <3>4, <3>5 DEF AgentStep, AgentContinues
    <2>3. QED
      BY <2>1, <2>2
  <1>2. CASE UNCHANGED ag
    BY <1>2
  <1>3. ASSUME NEW t \in FlushTasks, FlushStep(t)
        PROVE  UNCHANGED ag
    BY <1>3, FlushStays
  <1>4. ASSUME NEW t \in Callers, CallerStep(t)
        PROVE  UNCHANGED ag
    BY <1>4 DEF CallerStep, CallerContinues, FlushCall, TimerFires, TimerFiresLate, CallReturns, TimerReturns,
                Reschedule, Unhandled, RescheduleTimeout, ProcessEnds, QueueUnchanged, FlushUnchanged
  <1>5. StartStep \/ StopStep \/ IntervalTick \/ CleanupStep \/ (\E o \in Ops : Push(o)) => UNCHANGED ag
    BY DEF StartStep, StartCall, StartDone, StartFails, StartUnchanged, StopStep, StopNew, StopStarting,
           StopStarted, StopFlushAgain, StopDone, StopUnchanged, IntervalTick, CleanupStep, CleanupCall,
           CleanupLocked, CleanupTimeout, JanitorUnchanged, ProcessEnds, Push, QueueUnchanged, FlushUnchanged
  <1>6. ASSUME NEW r \in Readers, ReadStep(r)
        PROVE  UNCHANGED ag
    BY <1>6 DEF ReadStep, ReadContinues, ReadUnchanged, ReadCall, ReadLocked, ReadDisk, ReadOverlay, ReadTimeout
  <1>7. ~Kill /\ (UNCHANGED vars => UNCHANGED ag)
    BY DEF Kill, ProcessEnds, vars
  <1>8. QED
    BY <1>1, <1>2, <1>3, <1>4, <1>5, <1>6, <1>7 DEF Next, Terminated

(* A commit that is ahead of stop() in the queue stays ahead.               *)
LEMMA StaysAhead ==
    ASSUME TypeOK, StateInv, OneMoves, count'["timeout"] = 0, NEW a \in Agents,
           ag[a].pc = "waitCommit", ag'[a].pc = "waitCommit",
           fl[Stopper].pc = "waitState", fl'[Stopper].pc = "waitState",
           Before(stateMutex, a, Stopper), Queued(stateMutex, a)'
    PROVE  Before(stateMutex, a, Stopper)'
  <1>1. PICK x \in Tasks : /\ Alone(x)
                           /\ Asks(x) \/ Leaves(x) \/ GivesUp(x) \/ AsksAnew(x) \/ Keeps(x)
    BY DEF OneMoves
  <1>2. Uses(a) /\ Uses(a)' /\ Uses(Stopper) /\ Uses(Stopper)'
    BY Kinds DEF Uses, FlushWaits, AgentWaits
  <1>3. stateMutex \in Mutex(Tasks) /\ NoRepeat(stateMutex.queue)
    BY DEF TypeOK, StateInv, Sound
  <1>4. CASE Keeps(x)
    BY <1>4 DEF Keeps, Before
  <1>5. ~AsksAnew(x)
    BY DEF AsksAnew, Happens, TypeOK, EnvEvents
  <1>6. CASE Asks(x)
    BY <1>3, <1>6, AcquireBefore DEF Asks
  <1>7. CASE Leaves(x)
    <2>1. Queued(Release(stateMutex), a)
      BY <1>7 DEF Leaves
    <2>2. Before(Release(stateMutex), a, Stopper)
      BY <1>3, <2>1, ReleaseBefore
    <2>3. QED
      BY <1>7, <2>2 DEF Leaves
  <1>8. CASE GivesUp(x)
    <2>1. PICK i \in 1..Len(stateMutex.queue) :
              stateMutex.queue[i] = x /\ stateMutex' = GiveUp(stateMutex, i)
      BY <1>8 DEF GivesUp
    <2>2. x # a /\ x # Stopper
      BY <1>2, <1>8 DEF GivesUp
    <2>3. Before(GiveUp(stateMutex, i), a, Stopper)
      BY <1>3, <2>1, <2>2, GiveUpBefore
    <2>4. QED
      BY <2>1, <2>3
  <1>9. QED
    BY <1>1, <1>4, <1>5, <1>6, <1>7, <1>8

(* The steps that move stop().                                              *)
LEMMA StopperMoves ==
    ASSUME TypeOK, StopPlace, [Next]_vars, lifecycle' # "crashed"
    PROVE  \/ UNCHANGED lifecycle /\ fl'[Stopper] = fl[Stopper]
           \/ StartStep \/ StopStep \/ FlushStep(Stopper)
  <1>1. ASSUME NEW t \in FlushTasks, FlushStep(t), t # Stopper
        PROVE  UNCHANGED lifecycle /\ fl'[Stopper] = fl[Stopper]
    BY <1>1, Kinds, FlushStays
  <1>2. QED
    BY <1>1, OthersStay

(* Where a run that waits to select its batch goes, undisturbed.            *)
LEMMA StopperFlushes ==
    ASSUME TypeOK, FlushStep(Stopper), Undisturbed', fl[Stopper].pc \in {"waitFlush", "waitState"}
    PROVE  \/ FlushLocked(Stopper) /\ fl[Stopper].pc = "waitFlush" /\ fl'[Stopper].pc = "waitState"
           \/ Swap(Stopper) \/ TakeInFlight(Stopper) \/ NothingToFlush(Stopper)
  <1>1. ~FlushMutexTimeout(Stopper) /\ ~StateMutexTimeout(Stopper)
    BY DEF FlushMutexTimeout, StateMutexTimeout, Happens, Undisturbed, TypeOK, EnvEvents
  <1>2. FlushLocked(Stopper) => fl[Stopper].pc = "waitFlush" /\ fl'[Stopper].pc = "waitState"
    BY Kinds, FlushMoves DEF FlushLocked, FlushPcs
  <1>3. QED
    BY <1>1, <1>2 DEF FlushStep, FlushContinues, Durable, Write, AwaitClear, Succeed, Fail, Busy, Fatal, Retry,
                      RetryRefused, FailTimeout

(* CommitsAhead is inductive.                                               *)
LEMMA AheadInductive ==
    ASSUME TypeOK, Quiet, StateInv, StopPlace, CommitsAhead, [Next]_vars
    PROVE  CommitsAhead'
  <1> SUFFICES ASSUME Undisturbed', lifecycle' = "stopping", fl'[Stopper].kind = "stop1",
                      fl'[Stopper].pc = "waitState", NEW a \in Agents, ag'[a].pc = "waitCommit",
                      Queued(stateMutex, a)'
               PROVE  Before(stateMutex, a, Stopper)'
    BY DEF CommitsAhead
  <1>1. Undisturbed
    BY CountMonotone DEF Undisturbed, EnvEvents
  <1>2. lifecycle # "crashed"
    BY EndIsFinal DEF vars
  <1>3. OneMoves
    BY <1>2, EveryStep
  <1>4. ag[a].pc = "waitCommit"
    BY NoNewCommit
  <1>5. CASE lifecycle = "stopping" /\ fl[Stopper].kind = "stop1" /\ fl[Stopper].pc = "waitState"
    <2>1. Queued(stateMutex, a)
      <3>1. PICK x \in Tasks : /\ Alone(x)
                               /\ Asks(x) \/ Leaves(x) \/ GivesUp(x) \/ AsksAnew(x) \/ Keeps(x)
        BY <1>3 DEF OneMoves
      <3>2. x # a => Queued(stateMutex, a)
        BY <3>1, Kinds, MutexStep DEF StateInv
      <3>3. Uses(a) /\ Uses(a)'
        BY <1>4, Kinds DEF Uses, AgentWaits
      <3>4. x = a => Keeps(x)
        BY <3>1, <3>3, Kinds DEF Asks, Leaves, GivesUp, AsksAnew
      <3>5. QED
        BY <3>2, <3>4 DEF Keeps, Queued
    <2>2. Before(stateMutex, a, Stopper)
      BY <1>1, <1>4, <1>5, <2>1 DEF CommitsAhead
    <2>3. QED
      BY <1>3, <1>4, <1>5, <2>2, StaysAhead DEF Undisturbed
  <1>6. CASE ~(lifecycle = "stopping" /\ fl[Stopper].kind = "stop1" /\ fl[Stopper].pc = "waitState")
    <2>1. ~StartStep /\ ~StopStep
      <3>1. ~StartStep
        BY DEF StartStep, StartCall, StartDone, StartFails
      <3>2. ~StopNew /\ ~StopStarting /\ ~StopDone
        BY DEF StopNew, StopStarting, StopDone
      <3>3. ~StopStarted /\ ~StopFlushAgain
        BY Kinds, FlushMoves DEF StopStarted, StopFlushAgain
      <3>4. QED
        BY <3>1, <3>2, <3>3 DEF StopStep
    <2>2. FlushStep(Stopper)
      BY <1>6, <2>1, StopperMoves
    <2>3. UNCHANGED lifecycle /\ fl'[Stopper].kind = fl[Stopper].kind
      BY <2>2, Kinds, FlushStays
    <2>4. fl[Stopper].pc # "waitState"
      BY <1>6, <2>3
    <2>5. fl[Stopper].pc = "waitFlush" /\ stateMutex' = Acquire(stateMutex, Stopper)
      <3>1. fl[Stopper] \in FlushRun
        BY Kinds DEF TypeOK
      <3>2. ~(\E r \in {"busy", "fatal"} : Catch(Stopper, r))
        <4>1. SUFFICES ASSUME NEW r \in {"busy", "fatal"}, Catch(Stopper, r)
                       PROVE  FALSE
          OBVIOUS
        <4>2. fl'[Stopper] = [fl[Stopper] EXCEPT !.pc = "waitFail", !.res = r]
          BY <4>1, Kinds DEF Catch, TypeOK
        <4>3. QED
          BY <3>1, <4>2 DEF FlushRun
      <3>3. ~Busy(Stopper) /\ ~Fatal(Stopper) /\ ~StateMutexTimeout(Stopper)
        <4>1. ~Busy(Stopper)
          BY DEF Busy, Happens, Undisturbed, TypeOK, EnvEvents
        <4>2. QED
          BY <3>2, <4>1 DEF Fatal, StateMutexTimeout
      <3>4. ~Durable(Stopper) /\ ~AwaitClear(Stopper)
        BY Kinds, FlushMoves DEF Durable, Write, AwaitClear, FlushPcs
      <3>5. /\ ~NothingToFlush(Stopper) /\ ~Succeed(Stopper) /\ ~Fail(Stopper) /\ ~RetryRefused(Stopper)
            /\ ~FlushMutexTimeout(Stopper) /\ ~FailTimeout(Stopper)
        BY Kinds, FlushMoves DEF NothingToFlush, Succeed, Fail, EndFlush, RetryRefused, FlushMutexTimeout,
                                 FailTimeout
      <3>6. ~Swap(Stopper) /\ ~TakeInFlight(Stopper)
        BY <2>4 DEF Swap, TakeInFlight, Selected
      <3>7. ~Retry(Stopper)
        <4>1. SUFFICES ASSUME Retry(Stopper)
                       PROVE  FALSE
          OBVIOUS
        <4>2. fl'[Stopper] = [fl[Stopper] EXCEPT !.pc = "waitFlush", !.retry = @ + 1, !.ops = {}]
          BY <4>1, Kinds DEF Retry, TypeOK
        <4>3. QED
          BY <3>1, <4>2 DEF FlushRun
      <3>8. FlushLocked(Stopper)
        BY <2>2, <3>3, <3>4, <3>5, <3>6, <3>7 DEF FlushStep, FlushContinues
      <3>9. QED
        BY <3>8 DEF FlushLocked, AcquireState
    <2>6. Stopper \in Tasks /\ a # Stopper /\ stateMutex \in Mutex(Tasks)
      BY Kinds DEF TypeOK
    <2>7. ~Queued(stateMutex, Stopper) /\ NoRepeat(stateMutex.queue)
      <3>1. Stopper \notin StateUsers
        BY <2>5, Kinds DEF StateUsers, Uses, FlushWaits
      <3>2. QED
        BY <3>1, WaitersAreUsers DEF StateInv, Sound
    <2>8. Queued(stateMutex, a)
      BY <2>5, <2>6, <2>7, AcquireQueued
    <2>9. stateMutex.locked
      BY <2>6, <2>8 DEF StateInv, Sound, Queued, Mutex
    <2>10. QED
      BY <2>5, <2>6, <2>8, <2>9, AcquireBefore
  <1>7. QED
    BY <1>5, <1>6

(* The steps that begin to write a batch.                                   *)
LEMMA WritingGrows ==
    ASSUME TypeOK, [Next]_vars, lifecycle # "crashed", lifecycle' # "crashed",
           NEW t \in FlushTasks, t \in Writing', t \notin Writing, Undisturbed'
    PROVE  Swap(t) \/ TakeInFlight(t)
  <1>0. Stopper \in FlushTasks /\ Callers \subseteq FlushTasks
    BY Kinds
  <1>1. ASSUME FlushStep(t)
        PROVE  Swap(t) \/ TakeInFlight(t)
    <2>1. ~StateMutexTimeout(t) /\ ~FlushMutexTimeout(t)
      BY DEF StateMutexTimeout, FlushMutexTimeout, Happens, Undisturbed, TypeOK, EnvEvents
    <2>2. ~FlushLocked(t)
      BY FlushMoves DEF FlushLocked, FlushPcs, Writing
    <2>3. ~NothingToFlush(t) /\ ~RetryRefused(t)
      BY FlushMoves DEF NothingToFlush, RetryRefused, Writing
    <2>4. ~Retry(t)
      <3>1. SUFFICES ASSUME Retry(t)
                     PROVE  FALSE
        OBVIOUS
      <3>2. fl'[t] = [fl[t] EXCEPT !.pc = "waitFlush", !.retry = @ + 1, !.ops = {}] /\ fl[t] \in FlushRun
        BY <3>1 DEF Retry, TypeOK
      <3>3. QED
        BY <3>2 DEF FlushRun, Writing
    <2>5. QED
      BY <1>1, <2>1, <2>2, <2>3, <2>4 DEF FlushStep, FlushContinues, Durable, Write, AwaitClear, Succeed, Fail,
                                          Busy, Fatal, FailTimeout, Writing
  <1>2. ASSUME NEW u \in FlushTasks, FlushStep(u), u # t
        PROVE  FALSE
    <2>1. fl'[t] = fl[t]
      BY <1>2, FlushStays
    <2>2. QED
      BY <2>1 DEF Writing
  <1>3. ~StartStep
    <2>1. StartStep => UNCHANGED fl \/ Idle(Stopper)
      BY DEF StartStep, StartCall, StartDone, StartFails
    <2>2. Idle(Stopper) => fl'[t].pc = "idle" \/ fl'[t] = fl[t]
      BY <1>0 DEF Idle, NoFlush, TypeOK
    <2>3. QED
      BY <2>1, <2>2 DEF Writing
  <1>4. ~StopStep
    <2>1. StopStep => t = Stopper \/ fl'[t] = fl[t]
      BY <1>0 DEF StopStep, StopNew, StopStarting, StopStarted, StopFlushAgain, StopDone, Goto, EnterFlush, Idle,
                  TypeOK
    <2>2. ASSUME t = Stopper, StopStep
          PROVE  fl'[t].pc \in {"waitStart", "waitFlush", "idle"} \/ UNCHANGED fl
      BY <1>0, <2>2, FlushMoves DEF StopStep, StopNew, StopStarting, StopStarted, StopFlushAgain, StopDone, FlushPcs
    <2>3. QED
      BY <2>1, <2>2 DEF Writing
  <1>5. ASSUME NEW u \in Callers, CallerStep(u)
        PROVE  FALSE
    <2>0. ~Unhandled(u) /\ ~RescheduleTimeout(u)
      BY DEF Unhandled, RescheduleTimeout, ProcessEnds
    <2>1. u = t \/ fl'[t] = fl[t]
      BY <1>0, <1>5, <2>0 DEF CallerStep, CallerContinues, FlushCall, TimerFires, TimerFiresLate, CallReturns,
           TimerReturns, Reschedule, EnterFlush, Goto, Idle, TypeOK
    <2>2. u = t => fl'[t].pc \in {"waitFlush", "returned", "idle", "waitResched"}
      BY <1>0, <1>5, <2>0, FlushMoves DEF CallerStep, CallerContinues, FlushCall, TimerFires, CallReturns,
           TimerReturns, Reschedule, FlushPcs
    <2>3. QED
      BY <2>1, <2>2 DEF Writing
  <1>6. ASSUME UNCHANGED fl
        PROVE  FALSE
    BY <1>6 DEF Writing
  <1>7. ASSUME NEW a \in Agents, AgentStep(a)
        PROVE  UNCHANGED fl
    BY <1>7 DEF AgentStep, AgentContinues, AgentCall, AgentUnchanged, Begin, BeginLocked, AgentPush,
                AgentPushNoShadow, AgentPushLocked, Commit, CommitLocked, Rollback, RollbackLocked, Refused,
                AgentTimeout
  <1>8. IntervalTick \/ CleanupStep \/ (\E o \in Ops : Push(o)) \/ UNCHANGED vars => UNCHANGED fl
    BY DEF IntervalTick, CleanupStep, CleanupCall, CleanupLocked, CleanupTimeout, JanitorUnchanged, ProcessEnds,
           Push, vars
  <1>9. ASSUME NEW r \in Readers, ReadStep(r)
        PROVE  UNCHANGED fl
    BY <1>9 DEF ReadStep, ReadContinues, ReadUnchanged, ReadCall, ReadLocked, ReadDisk, ReadOverlay, ReadTimeout
  <1>10. ~Kill
    BY DEF Kill, ProcessEnds
  <1>11. QED
    BY <1>1, <1>2, <1>3, <1>4, <1>5, <1>6, <1>7, <1>8, <1>9, <1>10 DEF Next, Terminated

(* The flush mutex keeps all but one run from writing.                      *)
LEMMA WritesAlone ==
    ASSUME TypeOK, ExclusionInv, Undisturbed, NEW t \in FlushTasks, fl[t].pc = "waitState"
    PROVE  Writing = {}
  <1>1. ExclusionInv => AtMostOneFlush
    BY DEF ExclusionInv, AtMostOneFlush, Sound, FlushHolders, FlushUsers, UserPcs
  <1>2. t \in FlushHolders /\ Writing \subseteq FlushHolders /\ t \notin Writing
    BY DEF FlushHolders, Writing
  <1>3. QED
    BY <1>1, <1>2 DEF AtMostOneFlush, Undisturbed

(* NothingLeft is inductive.                                                *)
LEMMA LeftInductive ==
    ASSUME TypeOK, Quiet, ExclusionInv, StateInv, WriteInv, StopInv, [Next]_vars
    PROVE  NothingLeft'
  <1> SUFFICES ASSUME Undisturbed', Drained'
               PROVE  /\ buf'[active'] = {}
                      /\ \A a \in Agents : ag'[a].pc # "waitCommit"
                      /\ Writing' \subseteq {Stopper}
    BY DEF NothingLeft
  <1>1. Undisturbed /\ Flight
    BY CountMonotone DEF Undisturbed, EnvEvents, WriteInv
  <1>2. lifecycle' # "crashed" /\ lifecycle # "crashed"
    BY EndIsFinal DEF Drained, vars
  <1>3. Stopper \in FlushTasks /\ Callers \subseteq FlushTasks
    BY Kinds
  <1>4. \A t \in FlushTasks : ~TakeInFlight(t)
    BY <1>1, WritesAlone DEF TakeInFlight, Selected, Flight
  <1>5. \A a \in Agents : ag'[a].pc = "waitCommit" => ag[a].pc = "waitCommit"
    BY <1>2, NoNewCommit DEF Drained
  <1>6. CASE Drained
    <2>1. /\ buf[active] = {} /\ Writing \subseteq {Stopper}
          /\ \A a \in Agents : ag[a].pc # "waitCommit"
      BY <1>1, <1>6 DEF StopInv, NothingLeft
    <2>2. \A t \in FlushTasks : ~Swap(t)
      BY <2>1 DEF Swap
    <2>3. \A t \in FlushTasks : t \in Writing' => t \in Writing
      BY <1>2, <1>4, <2>2, WritingGrows
    <2>4. Writing' \subseteq {Stopper}
      BY <2>1, <2>3 DEF Writing
    <2>5. \A a \in Agents : ~CommitLocked(a)
      BY <2>1 DEF CommitLocked, AgentLocked
    <2>6. \A o \in Ops : ~Push(o)
      BY <1>6 DEF Push, Drained
    <2>7. buf'[active'] = {}
      <3>1. CASE Still
        BY <2>1, <3>1 DEF Still
      <3>2. ASSUME NEW t \in FlushTasks, Succeed(t) \/ Fail(t)
            PROVE  buf'[active'] = {}
        <4>1. buf' = [buf EXCEPT ![inflight] = {}] /\ active' = active
          BY <3>2 DEF Succeed, Fail, ClearInFlight, EndFlush
        <4>2. active \in Bufs
          BY DEF TypeOK, Bufs
        <4>3. QED
          BY <2>1, <4>1, <4>2 DEF TypeOK
      <3>3. QED
        BY <1>2, <2>2, <2>5, <2>6, <3>1, <3>2, StillSteps
    <2>8. QED
      BY <1>5, <2>1, <2>4, <2>7
  <1>7. CASE ~Drained
    <2>1. CASE StartStep
      BY <2>1 DEF StartStep, StartCall, StartDone, StartFails, Drained
    <2>2. CASE StopStep
      <3>1. ~StopStarting
        BY <1>7 DEF StopStarting, Drained
      <3>2. ~StopStarted
        BY <1>3, FlushMoves DEF StopStarted, Drained
      <3>3. fl[Stopper].pc = "returned" => Drained
        BY <1>2, <1>3 DEF StopInv, StopPlace, Drained, TypeOK, Lifecycles
      <3>4. ~StopFlushAgain /\ ~StopDone
        BY <1>7, <3>3 DEF StopFlushAgain, StopDone
      <3>5. StopNew
        BY <2>2, <3>1, <3>2, <3>4 DEF StopStep
      <3>6. UNCHANGED <<buf, active, ag, fl>> /\ lifecycle = "new"
        BY <3>5 DEF StopNew, StopUnchanged, QueueUnchanged, FlushUnchanged, poolVars
      <3>7. \A t \in Callers : fl[t].pc = "idle"
        BY <3>6 DEF StopInv, StopPlace
      <3>8. QED
        BY <3>6, <3>7 DEF StopInv, StopPlace, TypeOK, Bufs, Writing, FlushTasks
    <2>3. CASE FlushStep(Stopper)
      <3>1. UNCHANGED lifecycle /\ fl'[Stopper].kind = fl[Stopper].kind
        BY <1>3, <2>3, FlushStays
      <3>2. /\ lifecycle = "stopping" /\ fl[Stopper].kind = "stop1"
            /\ fl[Stopper].pc \in {"waitFlush", "waitState"}
        BY <1>7, <3>1 DEF Drained
      <3>3. ~FlushLocked(Stopper)
        BY <1>3, <3>1, <3>2, FlushMoves DEF FlushLocked, FlushPcs, Drained
      <3>4. CASE Swap(Stopper) \/ NothingToFlush(Stopper)
        <4>1. /\ fl[Stopper].pc = "waitState" /\ ~Queued(stateMutex, Stopper) /\ UNCHANGED ag
          BY <3>4 DEF Swap, Selected, NothingToFlush, HasState, QueueUnchanged, FlushUnchanged
        <4>2. \A a \in Agents : ag[a].pc # "waitCommit"
          <5>1. SUFFICES ASSUME NEW a \in Agents, ag[a].pc = "waitCommit"
                         PROVE  FALSE
            OBVIOUS
          <5>2. a \in StateUsers /\ Stopper \in StateUsers /\ a # Stopper
            BY <1>3, <4>1, <5>1, Kinds DEF StateUsers, Uses, AgentWaits, FlushWaits
          <5>3. Queued(stateMutex, a)
            BY <4>1, <5>2 DEF StateInv, Sound
          <5>4. Before(stateMutex, a, Stopper)
            BY <1>1, <3>2, <4>1, <5>1, <5>3 DEF StopInv, CommitsAhead
          <5>5. QED
            BY <4>1, <5>4 DEF Before, Queued
        <4>3. Writing = {}
          BY <1>1, <1>3, <4>1, WritesAlone
        <4>4. Writing' \subseteq {Stopper}
          <5>1. \A u \in FlushTasks : u # Stopper => fl'[u] = fl[u]
            BY <1>3, <2>3, FlushStays
          <5>2. QED
            BY <4>3, <5>1 DEF Writing
        <4>5. buf'[active'] = {}
          <5>1. CASE Swap(Stopper)
            BY <5>1 DEF Swap, Other, TypeOK, Bufs
          <5>2. CASE NothingToFlush(Stopper)
            BY <5>2 DEF NothingToFlush, QueueUnchanged, poolVars
          <5>3. QED
            BY <3>4, <5>1, <5>2
        <4>6. QED
          BY <4>1, <4>2, <4>4, <4>5
      <3>5. QED
        BY <1>3, <1>4, <2>3, <3>2, <3>3, <3>4, StopperFlushes
    <2>4. CASE UNCHANGED lifecycle /\ fl'[Stopper] = fl[Stopper]
      BY <1>7, <2>4 DEF Drained
    <2>5. QED
      BY <1>2, <2>1, <2>2, <2>3, <2>4, StopperMoves DEF StopInv
  <1>8. QED
    BY <1>6, <1>7

LEMMA StopHolds == Spec => []StopInv
  <1>1. TxnInv => Quiet
    BY DEF TxnInv
  <1>2. TypeOK /\ Quiet /\ ExclusionInv /\ StateInv /\ WriteInv /\ StopInv /\ [Next]_vars => StopInv'
    BY PlaceInductive, AheadInductive, LeftInductive DEF StopInv
  <1>3. QED
    BY <1>1, <1>2, StopInit, TypeCorrect, TxnInvHolds, ExclusionHolds, StateHolds, WriteHolds, PTL DEF Spec

(* Undisturbed, what was accepted is on disk or reported when stop() ends.  *)
THEOREM StopKeepsAll == Spec => []StopDrains
  <1>1. TypeOK /\ WriteInv /\ StopInv => StopDrains
    <2>1. SUFFICES ASSUME TypeOK, WriteInv, StopInv, lifecycle = "stopped", Undisturbed
                   PROVE  accepted \subseteq Applied \cup deadLetters
      BY DEF StopDrains
    <2>2. fl[Stopper].pc = "idle" /\ buf[active] = {} /\ Writing \subseteq {Stopper}
      BY <2>1 DEF StopInv, StopPlace, NothingLeft, Drained
    <2>3. Writing = {}
      BY <2>2 DEF Writing
    <2>4. QED
      BY <2>1, <2>2, <2>3 DEF WriteInv, Flight, Kept
  <1>2. QED
    BY <1>1, TypeCorrect, WriteHolds, StopHolds, PTL

-----------------------------------------------------------------------------
(* The pool implements WriteBehind.  Every step of the pool is one step of  *)
(* the buffer or none: a push or a commit is Accept, the swap of the two    *)
(* Maps Seal, the commit of the transaction Persist, a fatal failure        *)
(* Report, the end of stop() Close, the end of the process Lose, and        *)
(* anything else none.                                                      *)

(* Units                                                                    *)

(* Every accepted write is in a unit, and units hold accepted writes.       *)
LEMMA UnitsCover ==
    ASSUME TypeOK, OwnOps, Once
    PROVE  /\ \A o \in accepted : \E u \in Units : o \in u
           /\ \A u \in Units : u # {} /\ u \subseteq accepted
  <1>1. ASSUME NEW o \in accepted
        PROVE  \E u \in Units : o \in u
    <2>1. CASE o \in PlainOps
      BY <2>1 DEF Units
    <2>2. CASE o \notin PlainOps
      <3>1. PICK a \in Agents : o \in TxnOps[a]
        BY <2>2 DEF PlainOps, TypeOK
      <3>2. o \in committed[a]
        BY <3>1 DEF Once
      <3>3. QED
        BY <3>2 DEF Units
    <2>3. QED
      BY <2>1, <2>2
  <1>2. ASSUME NEW u \in Units
        PROVE  u # {} /\ u \subseteq accepted
    BY DEF Units, Once
  <1>3. QED
    BY <1>1, <1>2

(* A place that divides no transaction is the union of its units.           *)
LEMMA UnionOfUnits ==
    ASSUME TypeOK, OwnOps, Once, NEW S, S \subseteq accepted, Undivided(S)
    PROVE  UNION UnitsOf(S) = S
  <1>1. ASSUME NEW o \in S
        PROVE  o \in UNION UnitsOf(S)
    <2>1. PICK u \in Units : o \in u
      BY UnitsCover
    <2>2. u \in UnitsOf(S)
      BY <2>1 DEF UnitsOf
    <2>3. QED
      BY <2>1, <2>2
  <1>2. ASSUME NEW u \in UnitsOf(S)
        PROVE  u \subseteq S
    BY DEF UnitsOf, Units, Undivided
  <1>3. QED
    BY <1>1, <1>2

(* What meets no accepted write has no unit.                                *)
LEMMA NoUnit ==
    ASSUME NEW S, S = {}
    PROVE  UnitsOf(S) = {}
  BY DEF UnitsOf

(* Places without a divided transaction, combined.                          *)
LEMMA UndividedPlaces ==
    ASSUME TypeOK, PlacesUndivided, NEW b \in Bufs
    PROVE  Undivided(buf[b]) /\ Undivided(Applied) /\ Undivided(buf[b] \ (Applied \cup deadLetters))
  <1>1. Undivided(buf[b]) /\ Undivided(deadLetters)
    BY DEF PlacesUndivided
  <1>2. Undivided(Applied)
    BY DEF PlacesUndivided, Undivided, Applied, TypeOK
  <1>3. QED
    BY <1>1, <1>2 DEF Undivided

-----------------------------------------------------------------------------
(* The steps that move data                                                 *)

(* What holds at both ends of an undisturbed step.                          *)
Good == /\ TypeOK /\ TxnInv /\ ExclusionInv /\ StopInv
        /\ Undisturbed /\ Flight /\ Kept /\ Once

(* The writes of the two batches are accepted, and those of the active Map  *)
(* are nowhere else.                                                        *)
LEMMA Batches ==
    ASSUME Good
    PROVE  /\ buf[active] \subseteq accepted /\ buf[inflight] \subseteq accepted
           /\ buf[active] \cap (Applied \cup deadLetters) = {}
           /\ UNION (Unsealed \cup Sealed) \subseteq accepted
           /\ Applied \cup deadLetters \subseteq accepted
  <1>1. active \in Bufs /\ inflight \in Bufs
    BY DEF Good, TypeOK, Bufs
  <1>2. \A u \in Unsealed \cup Sealed : u \subseteq accepted
    BY UnitsCover DEF Good, TxnInv, Unsealed, Sealed, UnitsOf
  <1>3. QED
    BY <1>1, <1>2 DEF Good, Once

(* New writes, handed over together.                                        *)
LEMMA AcceptStep ==
    ASSUME Good, NEW ops \in SUBSET Ops, ops # {}, ops \cap accepted = {}, Units' = Units \cup {ops},
           lifecycle \notin {"crashed", "stopped"},
           UNCHANGED <<lifecycle, active, inflight, applied, deadLetters>>,
           buf' = [buf EXCEPT ![active] = @ \cup ops]
    PROVE  Buffer!Accept(ops)
  <1>1. /\ buf[active] \subseteq accepted /\ buf[inflight] \subseteq accepted
        /\ UNION (Unsealed \cup Sealed) \subseteq accepted /\ Applied \cup deadLetters \subseteq accepted
    BY Batches
  <1>2. active \in Bufs /\ inflight \in Bufs /\ active # inflight
    BY DEF Good, TypeOK, Bufs, Flight
  <1>3. Applied' = Applied
    BY DEF Applied
  <1>4. buf'[active'] = buf[active] \cup ops /\ buf'[inflight'] = buf[inflight]
    BY <1>2 DEF Good, TypeOK
  <1>5. \A u \in Units : u \cap ops = {}
    BY UnitsCover DEF Good, TxnInv
  <1>6. Unsealed' = Unsealed \cup {ops}
    <2>1. Unsealed' = {u \in Units \cup {ops} : u \cap (buf[active] \cup ops) # {}}
      BY <1>4 DEF Unsealed, UnitsOf
    <2>2. QED
      BY <1>5, <2>1 DEF Unsealed, UnitsOf
  <1>7. Sealed' = Sealed
    <2>1. Sealed' = {u \in Units \cup {ops} : u \cap (buf[inflight] \ (Applied \cup deadLetters)) # {}}
      BY <1>3, <1>4 DEF Sealed, UnitsOf
    <2>2. ops \cap (buf[inflight] \ (Applied \cup deadLetters)) = {}
      BY <1>1
    <2>3. QED
      BY <2>1, <2>2 DEF Sealed, UnitsOf
  <1>8. Phase = "open" /\ Phase' = "open"
    BY DEF Phase
  <1>9. ops \cap ((UNION (Unsealed \cup Sealed)) \cup Applied \cup deadLetters) = {}
    <2> DEFINE K == UNION (Unsealed \cup Sealed)
    <2>1. K \subseteq accepted
      BY <1>1
    <2> HIDE DEF K
    <2>2. ops \cap (K \cup Applied \cup deadLetters) = {}
      BY <1>1, <2>1
    <2>3. QED
      BY <2>2 DEF K
  <1>10. QED
    BY <1>3, <1>6, <1>7, <1>8, <1>9 DEF Buffer!Accept, Buffer!Known

LEMMA PushAccepts ==
    ASSUME Good, NEW o \in Ops, Push(o)
    PROVE  Buffer!Accept({o})
  <1>1. /\ o \in PlainOps \ accepted /\ accepted' = accepted \cup {o} /\ UNCHANGED committed
        /\ lifecycle = "started" /\ UNCHANGED <<lifecycle, active, inflight, applied, deadLetters>>
        /\ buf' = [buf EXCEPT ![active] = @ \cup {o}]
    BY DEF Push, diskVars
  <1>2. Units' = Units \cup {{o}}
    BY <1>1 DEF Units
  <1> DEFINE ops == {o}
  <1>3. /\ ops \in SUBSET Ops /\ ops # {} /\ ops \cap accepted = {} /\ Units' = Units \cup {ops}
        /\ buf' = [buf EXCEPT ![active] = @ \cup ops]
    BY <1>1, <1>2
  <1> HIDE DEF ops
  <1>4. Buffer!Accept(ops)
    BY <1>1, <1>3, AcceptStep
  <1>5. QED
    BY <1>4 DEF ops

(* A commit of nothing is a stuttering step.                                *)
LEMMA CommitAccepts ==
    ASSUME Good, NEW a \in Agents, CommitLocked(a), lifecycle # "crashed"
    PROVE  Buffer!Accept(committed'[a]) \/ UNCHANGED <<Phase, Unsealed, Sealed, Applied, deadLetters>>
  <1> DEFINE ops == IF a \in shadows THEN shadow[a] ELSE {}
  <1>1. ops \subseteq TxnOps[a] /\ committed[a] = {} /\ ops \subseteq Ops
    BY DbPoolAssumption DEF Good, TxnInv, OwnOps, CommitOnce, CommitLocked, AgentLocked
  <1>2. /\ buf' = [buf EXCEPT ![active] = @ \cup ops] /\ accepted' = accepted \cup ops
        /\ committed' = [committed EXCEPT ![a] = ops]
        /\ UNCHANGED <<lifecycle, active, inflight, applied, deadLetters>>
    BY DEF CommitLocked, diskVars
  <1> HIDE DEF ops
  <1>3. ops \cap accepted = {}
    BY <1>1 DEF Good, Once
  <1>4. committed'[a] = ops /\ \A b \in Agents : b # a => committed'[b] = committed[b]
    BY <1>2 DEF Good, TypeOK
  <1>5. accepted' \cap PlainOps = accepted \cap PlainOps
    BY <1>1, <1>2 DEF PlainOps
  <1>6. CASE ops = {}
    <2>1. buf' = buf /\ committed' = committed
      BY <1>1, <1>2, <1>6 DEF Good, TypeOK
    <2>2. Units' = Units
      BY <1>5, <2>1 DEF Units
    <2>3. QED
      BY <1>2, <2>1, <2>2 DEF Phase, Unsealed, Sealed, Applied, UnitsOf
  <1>7. CASE ops # {}
    <2>1. {committed'[b] : b \in Agents} \ {{}} = ({committed[b] : b \in Agents} \ {{}}) \cup {ops}
      <3>1. ASSUME NEW b \in Agents, committed'[b] # {}
            PROVE  committed'[b] \in ({committed[c] : c \in Agents} \ {{}}) \cup {ops}
        BY <1>4, <3>1
      <3>2. ASSUME NEW b \in Agents, committed[b] # {}
            PROVE  committed[b] \in {committed'[c] : c \in Agents}
        BY <1>1, <1>4, <3>2
      <3>3. ops \in {committed'[b] : b \in Agents}
        BY <1>4
      <3>4. QED
        BY <1>7, <3>1, <3>2, <3>3
    <2>2. Units' = Units \cup {ops}
      BY <1>5, <2>1 DEF Units
    <2>3. lifecycle # "stopped"
      BY DEF CommitLocked, AgentLocked, Good, StopInv, NothingLeft, Drained
    <2>4. QED
      BY <1>1, <1>2, <1>3, <1>4, <1>7, <2>2, <2>3, AcceptStep
  <1>8. QED
    BY <1>6, <1>7

(* A swap seals the batch.                                                  *)
LEMMA SwapSeals ==
    ASSUME Good, NEW t \in FlushTasks, Swap(t)
    PROVE  Buffer!Seal
  <1>1. /\ UNCHANGED <<lifecycle, accepted, committed, applied, deadLetters>>
        /\ active' = Other(active) /\ inflight' = active
        /\ buf' = [buf EXCEPT ![Other(active)] = {}] /\ buf[active] # {} /\ fl[t].pc = "waitState"
    BY DEF Swap, Selected, FlushUnchanged, histVars, diskVars
  <1>2. buf[inflight] = {}
    BY <1>1, WritesAlone DEF Good, Flight
  <1>3. buf'[active'] = {} /\ buf'[inflight'] = buf[active]
    BY <1>1 DEF Good, TypeOK, Bufs, Other
  <1>4. UNCHANGED <<Units, Applied, Phase>>
    BY <1>1 DEF Units, Applied, Phase
  <1>5. Sealed = {} /\ Unsealed' = {}
    BY <1>2, <1>3 DEF Sealed, Unsealed, UnitsOf
  <1>6. Sealed' = Unsealed
    <2>1. buf[active] \ (Applied \cup deadLetters) = buf[active]
      BY Batches
    <2>2. Sealed' = {u \in Units : u \cap (buf[active] \ (Applied \cup deadLetters)) # {}}
      BY <1>1, <1>3, <1>4 DEF Sealed, UnitsOf
    <2>3. QED
      BY <2>1, <2>2 DEF Unsealed, UnitsOf
  <1>7. Unsealed # {}
    <2>1. PICK o : o \in buf[active] /\ o \in accepted
      BY <1>1, Batches
    <2>2. QED
      BY <2>1, UnitsCover DEF Good, TxnInv, Unsealed, UnitsOf
  <1>8. QED
    BY <1>1, <1>4, <1>5, <1>6, <1>7 DEF Buffer!Seal

(* Once a batch has reached the disk or the dead letters, no unit of it is  *)
(* sealed, and what was sealed is the batch.                                *)
LEMMA BatchEnds ==
    ASSUME Good, NEW t \in Writing, Unwritten(t)
    PROVE  UNION Sealed = fl[t].ops /\ (fl[t].ops # {} => Sealed # {})
  <1>1. fl[t].ops = buf[inflight] /\ fl[t].ops \cap (Applied \cup deadLetters) = {}
    BY DEF Good, Flight, Once, Writing
  <1>2. buf[inflight] \ (Applied \cup deadLetters) = fl[t].ops
    BY <1>1
  <1>3. Undivided(fl[t].ops) /\ fl[t].ops \subseteq accepted
    BY <1>1, Batches DEF Good, TxnInv, PlacesUndivided, Writing
  <1>4. UNION UnitsOf(fl[t].ops) = fl[t].ops
    BY <1>3, UnionOfUnits DEF Good, TxnInv
  <1>5. Sealed = UnitsOf(fl[t].ops)
    BY <1>2 DEF Sealed
  <1>6. QED
    BY <1>4, <1>5

LEMMA DurablePersists ==
    ASSUME Good, NEW t \in FlushTasks, Durable(t)
    PROVE  Buffer!Persist \/ UNCHANGED <<Phase, Unsealed, Sealed, Applied, deadLetters>>
  <1>1. /\ fl[t].pc = "exec" /\ UNCHANGED <<lifecycle, buf, active, inflight, accepted, committed, deadLetters>>
        /\ applied' = [o \in Ops |-> IF o \in fl[t].ops THEN applied[o] + 1 ELSE applied[o]]
    BY DEF Durable, Write, FlushUnchanged, poolVars, histVars
  <1>2. t \in Writing /\ Unwritten(t)
    BY <1>1 DEF Writing, Unwritten, Good, Flight, Written
  <1>3. fl[t].ops \subseteq Ops /\ fl[t].ops = buf[inflight]
    BY <1>2 DEF Good, TypeOK, FlushRun, Flight
  <1>4. Applied' = Applied \cup fl[t].ops
    BY <1>1, <1>3 DEF Applied, Good, TypeOK
  <1>5. UNCHANGED <<Units, Phase, Unsealed>>
    BY <1>1 DEF Units, Phase, Unsealed, UnitsOf
  <1>6. Sealed' = {}
    <2>1. buf'[inflight'] \ (Applied' \cup deadLetters') = {}
      BY <1>1, <1>3, <1>4
    <2>2. QED
      BY <2>1 DEF Sealed, UnitsOf
  <1>7. UNION Sealed = fl[t].ops /\ (fl[t].ops # {} => Sealed # {})
    BY <1>2, BatchEnds
  <1>8. CASE fl[t].ops = {}
    <2>1. Sealed = {}
      BY <1>3, <1>8 DEF Sealed, UnitsOf
    <2>2. QED
      BY <1>1, <1>4, <1>5, <1>6, <1>8, <2>1
  <1>9. CASE fl[t].ops # {}
    BY <1>1, <1>4, <1>5, <1>6, <1>7, <1>9 DEF Buffer!Persist
  <1>10. QED
    BY <1>8, <1>9

LEMMA FailReports ==
    ASSUME Good, NEW t \in FlushTasks, Fail(t)
    PROVE  Buffer!Report \/ UNCHANGED <<Phase, Unsealed, Sealed, Applied, deadLetters>>
  <1>1. /\ fl[t].pc = "waitFail" /\ UNCHANGED <<lifecycle, active, inflight, accepted, committed, applied>>
        /\ buf' = [buf EXCEPT ![inflight] = {}]
        /\ deadLetters' = IF fl[t].res = "fatal" THEN deadLetters \cup fl[t].ops ELSE deadLetters
    BY DEF Fail, EndFlush, ClearInFlight, FlushUnchanged, histVars
  <1>2. t \in Writing /\ Unwritten(t) /\ fl[t].res = "fatal"
    BY <1>1 DEF Writing, Unwritten, Good, Flight, Written
  <1>3. active \in Bufs /\ inflight \in Bufs /\ active # inflight
    BY DEF Good, TypeOK, Bufs, Flight
  <1>4. buf'[inflight'] = {} /\ buf'[active'] = buf[active]
    BY <1>1, <1>3 DEF Good, TypeOK
  <1>5. UNCHANGED <<Units, Phase, Unsealed, Applied>>
    BY <1>1, <1>4 DEF Units, Phase, Unsealed, UnitsOf, Applied
  <1>6. Sealed' = {}
    BY <1>4 DEF Sealed, UnitsOf
  <1>7. UNION Sealed = fl[t].ops /\ (fl[t].ops # {} => Sealed # {})
    BY <1>2, BatchEnds
  <1>8. CASE fl[t].ops = {}
    <2>1. Sealed = {}
      <3>1. buf[inflight] = {}
        BY <1>2, <1>8 DEF Good, Flight
      <3>2. QED
        BY <3>1 DEF Sealed, UnitsOf
    <2>2. QED
      BY <1>1, <1>5, <1>6, <1>8, <2>1
  <1>9. CASE fl[t].ops # {}
    BY <1>1, <1>2, <1>5, <1>6, <1>7, <1>9 DEF Buffer!Report
  <1>10. QED
    BY <1>8, <1>9

LEMMA SucceedStutters ==
    ASSUME Good, NEW t \in FlushTasks, Succeed(t)
    PROVE  UNCHANGED <<Phase, Unsealed, Sealed, Applied, deadLetters>>
  <1>1. /\ fl[t].pc = "waitClear"
        /\ UNCHANGED <<lifecycle, active, inflight, accepted, committed, applied, deadLetters>>
        /\ buf' = [buf EXCEPT ![inflight] = {}]
    BY DEF Succeed, EndFlush, ClearInFlight, FlushUnchanged, histVars
  <1>2. t \in Writing /\ Written(t)
    BY <1>1 DEF Writing, Unwritten, Good, Flight, Written
  <1>3. buf[inflight] \subseteq Applied
    BY <1>2 DEF Good, Flight, Kept
  <1>4. active \in Bufs /\ inflight \in Bufs /\ active # inflight
    BY DEF Good, TypeOK, Bufs, Flight
  <1>5. buf'[inflight'] = {} /\ buf'[active'] = buf[active]
    BY <1>1, <1>4 DEF Good, TypeOK
  <1>6. UNCHANGED <<Units, Phase, Unsealed, Applied>>
    BY <1>1, <1>5 DEF Units, Phase, Unsealed, UnitsOf, Applied
  <1>7. Sealed = {} /\ Sealed' = {}
    BY <1>3, <1>5 DEF Sealed, UnitsOf
  <1>8. QED
    BY <1>1, <1>6, <1>7

LEMMA EndLoses ==
    ASSUME Good, lifecycle # "crashed", ProcessEnds
    PROVE  Buffer!Lose
  <1>1. /\ lifecycle' = "crashed" /\ UNCHANGED <<active, inflight, accepted, committed, applied, deadLetters>>
        /\ \A b \in Bufs : buf'[b] = {}
    BY DEF ProcessEnds, histVars, diskVars
  <1>2. buf'[active'] = {} /\ buf'[inflight'] = {}
    BY <1>1 DEF Good, TypeOK, Bufs
  <1>3. Unsealed' = {} /\ Sealed' = {}
    BY <1>2 DEF Unsealed, Sealed, UnitsOf
  <1>4. Phase # "lost" /\ Phase' = "lost" /\ Applied' = Applied
    BY <1>1 DEF Phase, Applied
  <1>5. QED
    BY <1>1, <1>3, <1>4 DEF Buffer!Lose

(* Steps that move no data: stop() closes the buffer, the others stutter.   *)
LEMMA StillMaps ==
    ASSUME Good, Good', Still, UNCHANGED <<applied, committed>>, lifecycle' # "crashed", lifecycle # "crashed",
           [Next]_vars
    PROVE  Buffer!Close \/ UNCHANGED <<Phase, Unsealed, Sealed, Applied, deadLetters>>
  <1>1. UNCHANGED <<Unsealed, Sealed, Applied, deadLetters>>
    BY DEF Still, Unsealed, Sealed, Applied, UnitsOf, Units
  <1>2. CASE (lifecycle = "stopped") <=> (lifecycle' = "stopped")
    BY <1>1, <1>2 DEF Phase
  <1>3. CASE lifecycle # "stopped" /\ lifecycle' = "stopped"
    <2>1. fl'[Stopper].pc = "idle" /\ buf'[active'] = {} /\ Writing' \subseteq {Stopper}
      BY <1>3 DEF Good, StopInv, StopPlace, NothingLeft, Drained
    <2>2. buf'[inflight'] = {}
      BY <2>1 DEF Good, Flight, Writing
    <2>3. Unsealed' = {} /\ Sealed' = {}
      BY <2>1, <2>2 DEF Unsealed, Sealed, UnitsOf
    <2>4. Phase = "open" /\ Phase' = "closed"
      BY <1>3 DEF Phase
    <2>5. QED
      BY <1>1, <2>3, <2>4 DEF Buffer!Close
  <1>4. CASE lifecycle = "stopped" /\ lifecycle' # "stopped"
    <2>1. ~StartStep /\ ~StopNew /\ ~StopStarting /\ ~StopStarted
      BY <1>4 DEF StartStep, StartCall, StartDone, StartFails, StopNew, StopStarting, StopStarted
    <2>2. ~StopFlushAgain /\ ~StopDone
      BY <1>4 DEF StopFlushAgain, StopDone, Good, StopInv, StopPlace
    <2>3. ~FlushStep(Stopper)
      BY <1>4, Kinds, FlushStays DEF Good
    <2>4. QED
      BY <1>4, <2>1, <2>2, <2>3, StopperMoves DEF StopStep, Good, StopInv
  <1>5. QED
    BY <1>2, <1>3, <1>4

(* Only a transaction changes the disk, and only a commit hands over.       *)
LEMMA DiskAndHistory ==
    ASSUME TypeOK, lifecycle' # "crashed", [Next]_vars
    PROVE  /\ UNCHANGED applied \/ \E t \in FlushTasks : Durable(t)
           /\ UNCHANGED committed \/ \E a \in Agents : CommitLocked(a)
  <1> USE DEF QueueUnchanged, FlushUnchanged, histVars, diskVars
  <1>1. StartStep \/ StopStep \/ IntervalTick => UNCHANGED <<applied, committed>>
    BY DEF StartStep, StartCall, StartDone, StartFails, StartUnchanged, StopStep, StopNew, StopStarting,
           StopStarted, StopFlushAgain, StopDone, StopUnchanged, IntervalTick
  <1>2. ASSUME NEW a \in Agents, AgentStep(a)
        PROVE  UNCHANGED applied /\ (UNCHANGED committed \/ CommitLocked(a))
    BY <1>2 DEF AgentStep, AgentContinues, AgentCall, AgentUnchanged, Begin, BeginLocked, AgentPush, CommitLocked,
                AgentPushNoShadow, AgentPushLocked, Commit, Rollback, RollbackLocked, Refused, AgentTimeout
  <1>3. ~Kill /\ (CleanupStep => UNCHANGED <<applied, committed>>)
    BY DEF Kill, CleanupStep, CleanupCall, CleanupLocked, CleanupTimeout, JanitorUnchanged, ProcessEnds
  <1>4. ASSUME NEW t \in FlushTasks, FlushStep(t)
        PROVE  UNCHANGED committed /\ (UNCHANGED applied \/ Durable(t))
    BY <1>4 DEF FlushStep, FlushContinues, FlushLocked, Swap, TakeInFlight, Selected, NothingToFlush, Durable,
                Write, AwaitClear, Succeed, Fail, EndFlush, Busy, Fatal, Retry, RetryRefused,
                FlushMutexTimeout, StateMutexTimeout, FailTimeout
  <1>5. ASSUME NEW t \in Callers, CallerStep(t)
        PROVE  UNCHANGED <<applied, committed>>
    BY <1>5 DEF CallerStep, CallerContinues, FlushCall, TimerFires, TimerFiresLate, CallReturns, TimerReturns,
                Reschedule, Unhandled, RescheduleTimeout, ProcessEnds
  <1>6. ASSUME NEW r \in Readers, ReadStep(r)
        PROVE  UNCHANGED <<applied, committed>>
    BY <1>6 DEF ReadStep, ReadContinues, ReadUnchanged, ReadCall, ReadLocked, ReadDisk, ReadOverlay, ReadTimeout
  <1>7. UNCHANGED vars \/ (\E o \in Ops : Push(o)) => UNCHANGED <<applied, committed>>
    BY DEF vars, Push
  <1>8. QED
    BY <1>1, <1>2, <1>3, <1>4, <1>5, <1>6, <1>7 DEF Next, Terminated

(* Every undisturbed step is a step of the buffer, or none.                 *)
LEMMA StepMaps ==
    ASSUME Good, Good', [Next]_vars
    PROVE  [Buffer!Next]_(Buffer!wbVars)
  <1> USE DEF Buffer!Next, Buffer!wbVars
  <1>1. CASE lifecycle = "crashed"
    <2>1. UNCHANGED vars
      BY <1>1, EndIsFinal DEF Good, TxnInv
    <2>2. QED
      BY <2>1 DEF vars, poolVars, histVars, diskVars, Phase, Unsealed, Sealed, Applied, UnitsOf, Units
  <1>2. CASE lifecycle # "crashed" /\ lifecycle' = "crashed"
    BY <1>2, OnlyEndEnds, EndLoses DEF Good
  <1>3. CASE lifecycle # "crashed" /\ lifecycle' # "crashed"
    <2>1. ASSUME NEW o \in Ops, Push(o)
          PROVE  [Buffer!Next]_(Buffer!wbVars)
      <3>1. {o} \in SUBSET Ops
        OBVIOUS
      <3>2. QED
        BY <2>1, <3>1, PushAccepts
    <2>2. ASSUME NEW a \in Agents, CommitLocked(a)
          PROVE  [Buffer!Next]_(Buffer!wbVars)
      <3>1. committed'[a] \in SUBSET Ops
        BY DEF Good, TypeOK
      <3>2. QED
        BY <1>3, <2>2, <3>1, CommitAccepts
    <2>3. ASSUME NEW t \in FlushTasks, Swap(t) \/ Succeed(t) \/ Fail(t) \/ Durable(t)
          PROVE  [Buffer!Next]_(Buffer!wbVars)
      BY <2>3, SwapSeals, SucceedStutters, FailReports, DurablePersists
    <2>4. CASE Still /\ UNCHANGED <<applied, committed>>
      BY <1>3, <2>4, StillMaps
    <2>5. QED
      BY <1>3, <2>1, <2>2, <2>3, <2>4, StillSteps, DiskAndHistory DEF Good
  <1>4. QED
    BY <1>1, <1>2, <1>3

LEMMA InitMaps ==
    ASSUME Init
    PROVE  Buffer!Init
  <1>1. buf[active] = {} /\ buf[inflight] = {}
    BY DEF Init, Bufs
  <1>2. Unsealed = {} /\ Sealed = {}
    BY <1>1 DEF Unsealed, Sealed, UnitsOf
  <1>3. Applied = {} /\ deadLetters = {} /\ Phase = "open"
    BY DEF Init, Applied, Nowhere, Phase
  <1>4. QED
    BY <1>2, <1>3 DEF Buffer!Init

(* A pool whose transactions never meet BUSY and whose mutex waiters never  *)
(* give up implements the write-behind buffer.                              *)
THEOREM PoolIsWriteBehind ==
    ASSUME Budget["busy"] = 0, Budget["timeout"] = 0
    PROVE  Spec => ImplementsWriteBehind
  <1>1. Init => Undisturbed
    BY DEF Init, Undisturbed, EnvEvents
  <1>2. TypeOK /\ Undisturbed /\ [Next]_vars => Undisturbed'
    <2>1. SUFFICES ASSUME TypeOK, Undisturbed, [Next]_vars
                   PROVE  Undisturbed'
      OBVIOUS
    <2>2. UNCHANGED count \/ \E e \in EnvEvents : Happens(e)
      BY <2>1, CountSteps
    <2>3. ASSUME NEW e \in EnvEvents, Happens(e)
          PROVE  Undisturbed'
      BY <2>1, <2>3 DEF Happens, Undisturbed, TypeOK, EnvEvents
    <2>4. QED
      BY <2>1, <2>2, <2>3 DEF Undisturbed
  <1>3. Spec => []Undisturbed
    BY <1>1, <1>2, TypeCorrect, PTL DEF Spec
  <1>4. TypeOK /\ TxnInv /\ ExclusionInv /\ WriteInv /\ StopInv /\ Undisturbed => Good
    BY DEF Good, WriteInv
  <1>5. Good /\ Good' /\ [Next]_vars => [Buffer!Next]_(Buffer!wbVars)
    BY StepMaps
  <1>6. Init => Buffer!Init
    BY InitMaps
  <1>7. Spec => Buffer!Spec
    BY <1>3, <1>4, <1>5, <1>6, TypeCorrect, TxnInvHolds, ExclusionHolds, WriteHolds, StopHolds, PTL
    DEF Spec, Buffer!Spec
  <1>8. QED
    BY <1>7 DEF ImplementsWriteBehind

=============================================================================

-------------------------- MODULE ExecutionProofs --------------------------
(***************************************************************************)
(* What is asked for is carried out once.  Of the executor: that the keyed *)
(* mutex excludes, that the slots are counted exactly and that no attempt  *)
(* of a call makes a commit twice, for any calls, keys, slots, commits and *)
(* attempts, whatever times out.  Of the job queue: that a job is handed   *)
(* to a handler once unless one of the named causes befell it, and that a  *)
(* loop that ends has reported every handler it ran, for any jobs, calls   *)
(* of process(), sizes, stops and crashes.                                 *)
(***************************************************************************)
EXTENDS Executor, JobQueue, FiniteSetTheorems, TLAPS

Has(s, e) == \E i \in 1 .. Len(s) : s[i] = e
NoRepeat(s) == \A i, j \in 1 .. Len(s) : s[i] = s[j] => i = j
RunningFrames == {f \in Frames : frame[f] = "running"}

\* The slots: every waiter is queued once, `active` counts the frames that run,
\* and a frame that has not ended has an attempt left.
SlotInv ==
  /\ frame \in [Frames -> FrameStates]
  /\ tries \in [Frames -> 0 .. MaxTries]
  /\ queue \in Seq(Frames)
  /\ active = Cardinality(RunningFrames)
  /\ NoRepeat(queue)
  /\ \A f \in Frames : Has(queue, f) => frame[f] = "queued"
  /\ \A f \in Frames : frame[f] \notin Ended => tries[f] < MaxTries

\* What is in the chain of a key.
Chained(k, f) == f[2] = "inner" /\ Key(f) = k /\ op[f] \in {"waiting", "body"}

\* The mutexes: the operation inside is the head of its chain.
OpInv ==
  /\ op \in [Frames -> OpStates]
  /\ chain \in [Keys -> Seq(Frames)]
  /\ \A k \in Keys : NoRepeat(chain[k])
  /\ \A k \in Keys, f \in Frames : Has(chain[k], f) => Chained(k, f)
  /\ \A f \in Frames : op[f] = "body" => chain[Key(f)] # <<>> /\ chain[Key(f)][1] = f
  /\ \A f \in Frames : f[2] = "outer" => op[f] \notin {"waiting", "body"}

\* A frame that may start its operation has none under way, and none of its
\* operations has ended well; its caller sees how the last one ended.
LinkInv ==
  /\ \A f \in Frames : frame[f] \in {"idle", "queued", "woken", "backoff"} => op[f] \in {"none", "busy"}
  /\ \A f \in Frames : frame[f] \in {"busy", "ok"} => op[f] = frame[f]

\* The inner operation of a call may still land a commit, or has, and the outer
\* one does not know yet.
Open(c) == \/ frame[Inner(c)] \in {"queued", "woken", "running", "backoff"}
           \/ op[Inner(c)] \in {"waiting", "body", "ok"}

\* What has landed is what the last attempt of the outer operation has made, what
\* it has not heard of yet, and what landed before.  An outer operation that does
\* not run has no commit open.
CountInv ==
  /\ made \in [Calls -> Nat]
  /\ landed \in [Calls -> Nat]
  /\ before \in [Calls -> Nat]
  /\ \A c \in Calls : landed[c] = before[c] + made[c] + (IF op[Inner(c)] = "ok" THEN 1 ELSE 0)
  /\ \A c \in Calls : made[c] + (IF Open(c) THEN 1 ELSE 0) <= Commits[c]
  /\ \A c \in Calls \ Nested : made[c] = 0 /\ before[c] = 0
  /\ \A c \in Nested : op[<<c, "outer">>] \in {"none", "busy", "ok"} => frame[Inner(c)] = "idle"
  /\ \A c \in Nested : op[<<c, "outer">>] = "ok" => made[c] = Commits[c]

IInv == SlotInv /\ OpInv /\ LinkInv /\ CountInv

-----------------------------------------------------------------------------
(* Sequences and counts *)

\* What appending a new element does.
LEMMA AppendNew ==
  ASSUME NEW S, NEW s \in Seq(S), NEW e \in S, NoRepeat(s), ~ Has(s, e)
  PROVE  /\ Append(s, e) \in Seq(S)
         /\ NoRepeat(Append(s, e))
         /\ \A x : Has(Append(s, e), x) <=> Has(s, x) \/ x = e
         /\ Append(s, e) # <<>>
         /\ s # <<>> => Append(s, e)[1] = s[1]
<1> DEFINE n == Len(s)
<1> DEFINE a == Append(s, e)
<1>1. n \in Nat /\ a \in Seq(S) /\ Len(a) = n + 1 /\ a[n + 1] = e /\ \A i \in 1 .. n : a[i] = s[i]
  OBVIOUS
<1>2. s # <<>> => 1 \in 1 .. n
  OBVIOUS
<1>3. a # <<>>
  BY <1>1
<1> HIDE DEF n, a
<1>4. \A i \in 1 .. (n + 1) : i \in 1 .. n \/ i = n + 1
  BY <1>1
<1>5. \A i \in 1 .. n : s[i] # e
  BY DEF Has, n
<1>6. NoRepeat(a)
  BY <1>1, <1>4, <1>5 DEF NoRepeat, n
<1>7. \A x : Has(a, x) <=> Has(s, x) \/ x = e
  <2>1. n + 1 \in 1 .. (n + 1) /\ \A i \in 1 .. n : i \in 1 .. (n + 1)
    BY <1>1
  <2>2. QED
    BY <1>1, <1>4, <2>1 DEF Has, n
<1>8. QED
  BY <1>1, <1>2, <1>3, <1>6, <1>7 DEF a

\* What removing the element at one place does.
LEMMA RemoveAtElements ==
  ASSUME NEW S, NEW s \in Seq(S), NEW k \in 1 .. Len(s)
  PROVE  /\ RemoveAt(s, k) \in Seq(S)
         /\ Len(RemoveAt(s, k)) = Len(s) - 1
         /\ \A i \in 1 .. (Len(s) - 1) : RemoveAt(s, k)[i] = IF i < k THEN s[i] ELSE s[i + 1]
<1> DEFINE n == Len(s)
<1> DEFINE prefix == SubSeq(s, 1, k - 1)
<1> DEFINE after == SubSeq(s, k + 1, n)
<1>1. n \in Nat /\ k \in 1 .. n
  OBVIOUS
<1>2. /\ prefix \in Seq(S) /\ Len(prefix) = k - 1
      /\ after \in Seq(S) /\ Len(after) = n - k
      /\ \A i \in 1 .. (k - 1) : prefix[i] = s[i]
      /\ \A i \in 1 .. (n - k) : after[i] = s[i + k]
  OBVIOUS
<1>3. RemoveAt(s, k) = prefix \o after
  BY DEF RemoveAt
<1> HIDE DEF prefix, after, n
<1>4. prefix \o after \in Seq(S)
  BY <1>2
<1>5. /\ Len(prefix \o after) = Len(prefix) + Len(after)
      /\ \A i \in 1 .. (Len(prefix) + Len(after)) :
           (prefix \o after)[i] = IF i <= Len(prefix) THEN prefix[i] ELSE after[i - Len(prefix)]
  <2>1. ASSUME NEW u \in Seq(S), NEW v \in Seq(S)
        PROVE  /\ Len(u \o v) = Len(u) + Len(v)
               /\ \A i \in 1 .. (Len(u) + Len(v)) :
                    (u \o v)[i] = IF i <= Len(u) THEN u[i] ELSE v[i - Len(u)]
    OBVIOUS
  <2>2. QED
    BY <1>2, <2>1
<1>6. (k - 1) + (n - k) = n - 1
  BY <1>1
<1>7. ASSUME NEW i \in 1 .. (n - 1)
      PROVE  RemoveAt(s, k)[i] = IF i < k THEN s[i] ELSE s[i + 1]
  <2>1. CASE i < k
    <3>1. i \in 1 .. (k - 1) /\ i <= k - 1
      BY <1>1, <2>1
    <3>2. QED
      BY <1>2, <1>3, <1>6, <1>5, <2>1, <3>1
  <2>2. CASE ~ (i < k)
    <3>1. ~ (i <= k - 1) /\ i - (k - 1) \in 1 .. (n - k) /\ (i - (k - 1)) + k = i + 1
      BY <1>1, <2>2
    <3>2. QED
      BY <1>2, <1>3, <1>6, <1>5, <2>2, <3>1
  <2>3. QED
    BY <2>1, <2>2
<1>8. QED
  BY <1>2, <1>3, <1>4, <1>6, <1>7, <1>5 DEF n

\* Out of a sequence without repetitions exactly that element goes, and the head
\* stays when another one goes.
LEMMA RemoveAtOnly ==
  ASSUME NEW S, NEW s \in Seq(S), NEW k \in 1 .. Len(s), NoRepeat(s)
  PROVE  /\ RemoveAt(s, k) \in Seq(S)
         /\ NoRepeat(RemoveAt(s, k))
         /\ \A x : Has(RemoveAt(s, k), x) => Has(s, x) /\ x # s[k]
         /\ s[1] # s[k] => RemoveAt(s, k) # <<>> /\ RemoveAt(s, k)[1] = s[1]
<1> DEFINE n == Len(s)
<1> DEFINE r == RemoveAt(s, k)
<1>1. /\ n \in Nat /\ k \in 1 .. n
      /\ r \in Seq(S) /\ Len(r) = n - 1
      /\ \A i \in 1 .. (n - 1) : r[i] = IF i < k THEN s[i] ELSE s[i + 1]
  BY RemoveAtElements
<1>2. \A i, j \in 1 .. n : s[i] = s[j] => i = j
  BY DEF NoRepeat
<1>3. Has(s, s[k])
  BY <1>1 DEF Has
<1>4. Len(r) # 0 => r # <<>>
  BY <1>1
<1> HIDE DEF n, r
<1>5. \A i \in 1 .. (n - 1) : (i < k => i \in 1 .. n /\ i # k) /\ (~ (i < k) => i + 1 \in 1 .. n /\ i + 1 # k)
  BY <1>1
<1>6. ASSUME NEW i \in 1 .. (n - 1), NEW j \in 1 .. (n - 1), r[i] = r[j]
      PROVE  i = j
  <2>1. CASE i < k /\ j < k
    BY <1>1, <1>2, <1>5, <1>6, <2>1
  <2>2. CASE ~ (i < k) /\ ~ (j < k)
    <3>1. i + 1 = j + 1
      BY <1>1, <1>2, <1>5, <1>6, <2>2
    <3>2. QED
      BY <1>1, <3>1
  <2>3. CASE i < k /\ ~ (j < k)
    <3>1. i = j + 1
      BY <1>1, <1>2, <1>5, <1>6, <2>3
    <3>2. QED
      BY <1>1, <2>3, <3>1
  <2>4. CASE ~ (i < k) /\ j < k
    <3>1. i + 1 = j
      BY <1>1, <1>2, <1>5, <1>6, <2>4
    <3>2. QED
      BY <1>1, <2>4, <3>1
  <2>5. QED
    BY <2>1, <2>2, <2>3, <2>4
<1>7. ASSUME NEW i \in 1 .. (n - 1)
      PROVE  Has(s, r[i]) /\ r[i] # s[k]
  <2>1. CASE i < k
    BY <1>1, <1>2, <1>5, <2>1 DEF Has, n
  <2>2. CASE ~ (i < k)
    BY <1>1, <1>2, <1>5, <2>2 DEF Has, n
  <2>3. QED
    BY <2>1, <2>2
<1>8. s[1] # s[k] => r # <<>> /\ r[1] = s[1]
  <2>1. s[1] # s[k] => 1 < k /\ 1 \in 1 .. (n - 1) /\ n - 1 # 0
    BY <1>1
  <2>2. QED
    BY <1>1, <1>4, <2>1
<1>9. NoRepeat(r) /\ \A x : Has(r, x) => Has(s, x) /\ x # s[k]
  BY <1>1, <1>6, <1>7 DEF NoRepeat, Has
<1>10. QED
  BY <1>1, <1>8, <1>9 DEF r

\* What taking the head does.
LEMMA TailOnly ==
  ASSUME NEW S, NEW s \in Seq(S), s # <<>>, NoRepeat(s)
  PROVE  /\ Head(s) \in S
         /\ Tail(s) \in Seq(S)
         /\ NoRepeat(Tail(s))
         /\ Has(s, Head(s))
         /\ \A x : Has(Tail(s), x) => Has(s, x) /\ x # Head(s)
<1> DEFINE n == Len(s)
<1> DEFINE r == Tail(s)
<1>1. /\ n \in Nat \ {0} /\ Head(s) = s[1] /\ s[1] \in S
      /\ r \in Seq(S) /\ Len(r) = n - 1 /\ \A i \in 1 .. (n - 1) : r[i] = s[i + 1]
  OBVIOUS
<1>2. \A i, j \in 1 .. n : s[i] = s[j] => i = j
  BY DEF NoRepeat
<1> HIDE DEF n, r
<1>3. 1 \in 1 .. n /\ \A i \in 1 .. (n - 1) : i + 1 \in 1 .. n /\ i + 1 # 1
  BY <1>1
<1>4. \A i, j \in 1 .. (n - 1) : i + 1 = j + 1 => i = j
  BY <1>1
<1>5. NoRepeat(r)
  BY <1>1, <1>2, <1>3, <1>4 DEF NoRepeat
<1>6. \A x : Has(r, x) => Has(s, x) /\ x # s[1]
  BY <1>1, <1>2, <1>3 DEF Has, n
<1>7. QED
  BY <1>1, <1>3, <1>5, <1>6 DEF Has, n, r

\* A one-element prefix is the head.
LEMMA PrefixIsHead ==
  ASSUME NEW S, NEW s \in Seq(S), NEW e \in S
  PROVE  IsPrefix(<<e>>, s) <=> s # <<>> /\ s[1] = e
<1>1. Len(<<e>>) = 1 /\ <<e>> \in Seq(S) /\ <<e>>[1] = e /\ Len(s) \in Nat
  OBVIOUS
<1>2. 1 <= Len(s) <=> s # <<>>
  OBVIOUS
<1>3. ASSUME 1 <= Len(s)
      PROVE  SubSeq(<<e>>, 1, 1) = SubSeq(s, 1, 1) <=> s[1] = e
  <2>1. Len(SubSeq(s, 1, 1)) = 1 /\ SubSeq(s, 1, 1) \in Seq(S) /\ SubSeq(s, 1, 1)[1] = s[1]
    BY <1>3
  <2>2. Len(SubSeq(<<e>>, 1, 1)) = 1 /\ SubSeq(<<e>>, 1, 1) \in Seq(S) /\ SubSeq(<<e>>, 1, 1)[1] = e
    BY <1>1
  <2>3. ASSUME NEW u \in Seq(S), NEW v \in Seq(S), Len(u) = 1, Len(v) = 1
        PROVE  u = v <=> u[1] = v[1]
    BY <2>3
  <2>4. QED
    BY <2>1, <2>2, <2>3
<1>4. QED
  BY <1>1, <1>2, <1>3 DEF IsPrefix

\* There are finitely many frames.
LEMMA FramesFinite == IsFiniteSet(Frames)
<1>1. IsFiniteSet(Nested)
  BY ExecutorAssumption, FS_Subset
<1>2. IsFiniteSet({"outer"}) /\ IsFiniteSet({"inner"})
  BY FS_Singleton
<1>3. IsFiniteSet(Nested \X {"outer"}) /\ IsFiniteSet(Calls \X {"inner"})
  BY <1>1, <1>2, FS_Product, ExecutorAssumption
<1>4. QED
  BY <1>3, FS_Union DEF Frames

\* The frames of a call.
LEMMA FrameFacts ==
  /\ \A f \in Frames : f[1] \in Calls /\ f[2] \in {"outer", "inner"} /\ Key(f) \in Keys
  /\ \A f \in Frames : f[2] = "inner" => f = Inner(f[1])
  /\ \A f \in Frames : f[2] # "inner" => f = <<f[1], "outer">> /\ f[1] \in Nested
  /\ \A c \in Calls : Inner(c) \in Frames /\ Inner(c)[1] = c /\ Inner(c)[2] = "inner"
  /\ \A c \in Nested : <<c, "outer">> \in Frames
BY ExecutorAssumption DEF Frames, Inner, Key

-----------------------------------------------------------------------------
(* Slots *)

\* A frame that neither runs nor waits takes a slot.
LEMMA TakesSlot ==
  ASSUME SlotInv, NEW f \in Frames, frame[f] \in {"idle", "woken", "backoff"},
         frame' = [frame EXCEPT ![f] = "running"], active' = active + 1,
         tries' = tries, queue' = queue
  PROVE  SlotInv'
<1>1. frame' \in [Frames -> FrameStates]
  BY DEF SlotInv, FrameStates
<1>2. RunningFrames' = RunningFrames \cup {f} /\ f \notin RunningFrames
  BY DEF SlotInv, RunningFrames
<1>3. IsFiniteSet(RunningFrames)
  BY FramesFinite, FS_Subset DEF RunningFrames
<1>4. active' = Cardinality(RunningFrames')
  BY <1>2, <1>3, FS_AddElement DEF SlotInv
<1>5. \A g \in Frames : Has(queue, g) => frame'[g] = "queued"
  BY DEF SlotInv
<1>6. \A g \in Frames : frame'[g] \notin Ended => tries[g] < MaxTries
  BY DEF SlotInv, Ended
<1>7. QED
  BY <1>1, <1>4, <1>5, <1>6 DEF SlotInv

\* A frame that neither runs nor waits queues for a slot.
LEMMA QueuesForSlot ==
  ASSUME SlotInv, NEW f \in Frames, frame[f] \in {"idle", "woken", "backoff"},
         frame' = [frame EXCEPT ![f] = "queued"], queue' = Append(queue, f),
         tries' = tries, active' = active
  PROVE  SlotInv'
<1>1. frame' \in [Frames -> FrameStates]
  BY DEF SlotInv, FrameStates
<1>2. RunningFrames' = RunningFrames
  BY DEF SlotInv, RunningFrames
<1>3. ~ Has(queue, f)
  BY DEF SlotInv
<1>4. /\ queue' \in Seq(Frames)
      /\ NoRepeat(queue')
      /\ \A g : Has(queue', g) <=> Has(queue, g) \/ g = f
  BY <1>3, AppendNew DEF SlotInv
<1>5. \A g \in Frames : Has(queue', g) => frame'[g] = "queued"
  BY <1>4 DEF SlotInv
<1>6. \A g \in Frames : frame'[g] \notin Ended => tries[g] < MaxTries
  BY DEF SlotInv, Ended
<1>7. QED
  BY <1>1, <1>2, <1>4, <1>5, <1>6 DEF SlotInv

\* The slot of a frame that ends is counted back once, and whoever is woken is
\* not queued any more.
LEMMA ReleasesSlot ==
  ASSUME SlotInv, NEW f \in Frames, frame[f] = "running", NEW to \in Ended \cup {"backoff"},
         Release(f, to), tries' = [tries EXCEPT ![f] = @ + 1],
         to = "backoff" => tries[f] + 1 < MaxTries
  PROVE  /\ SlotInv'
         /\ frame'[f] = to
         /\ \A g \in Frames : g # f => frame'[g] = frame[g] \/ (frame[g] = "queued" /\ frame'[g] = "woken")
<1> DEFINE woken == queue # <<>>
<1>1. woken => /\ Head(queue) \in Frames /\ Tail(queue) \in Seq(Frames) /\ NoRepeat(Tail(queue))
               /\ frame[Head(queue)] = "queued"
               /\ \A g : Has(Tail(queue), g) => Has(queue, g) /\ g # Head(queue)
  BY TailOnly DEF SlotInv
<1>2. /\ frame'[f] = to
      /\ \A g \in Frames : g # f => frame'[g] = IF woken /\ g = Head(queue) THEN "woken" ELSE frame[g]
  BY DEF Release
<1>3. \A g \in Frames : g # f => frame'[g] = frame[g] \/ (frame[g] = "queued" /\ frame'[g] = "woken")
  BY <1>1, <1>2
<1>4. frame' \in [Frames -> FrameStates]
  BY <1>2, <1>3 DEF SlotInv, Release, FrameStates, Ended
<1>5. tries' \in [Frames -> 0 .. MaxTries]
  <2>1. tries[f] \in 0 .. MaxTries /\ tries[f] < MaxTries /\ MaxTries \in Nat
    BY ExecutorAssumption DEF SlotInv, Ended
  <2>2. tries[f] + 1 \in 0 .. MaxTries
    BY <2>1
  <2>3. QED
    BY <2>2 DEF SlotInv
<1>6. active' = Cardinality(RunningFrames')
  <2>1. RunningFrames' = RunningFrames \ {f}
    BY <1>2, <1>3 DEF RunningFrames, Ended
  <2>2. f \in RunningFrames /\ IsFiniteSet(RunningFrames)
    BY FramesFinite, FS_Subset DEF RunningFrames
  <2>3. QED
    BY <2>1, <2>2, FS_RemoveElement DEF SlotInv, Release
<1>7. queue' \in Seq(Frames) /\ NoRepeat(queue')
  BY <1>1 DEF SlotInv, Release
<1>8. \A g \in Frames : Has(queue', g) => frame'[g] = "queued"
  <2>1. CASE woken
    <3>1. queue' = Tail(queue)
      BY <2>1 DEF Release
    <3>2. ASSUME NEW g \in Frames, Has(queue', g)
          PROVE  frame'[g] = "queued"
      <4>1. Has(queue, g) /\ g # Head(queue)
        BY <1>1, <2>1, <3>1, <3>2
      <4>2. frame[g] = "queued" /\ g # f
        BY <4>1 DEF SlotInv
      <4>3. QED
        BY <1>2, <4>1, <4>2
    <3>3. QED
      BY <3>2
  <2>2. CASE ~ woken
    <3>1. queue' = <<>>
      BY <2>2 DEF Release
    <3>2. \A g : ~ Has(queue', g)
      BY <3>1 DEF Has
    <3>3. QED
      BY <3>2
  <2>3. QED
    BY <2>1, <2>2
<1>9. \A g \in Frames : frame'[g] \notin Ended => tries'[g] < MaxTries
  <2>1. ASSUME NEW g \in Frames, g # f, frame'[g] \notin Ended
        PROVE  tries'[g] < MaxTries
    BY <1>3, <2>1 DEF SlotInv, Ended
  <2>2. ASSUME frame'[f] \notin Ended
        PROVE  tries'[f] < MaxTries
    BY <1>2, <2>2 DEF SlotInv
  <2>3. QED
    BY <2>1, <2>2
<1>10. QED
  BY <1>2, <1>3, <1>4, <1>5, <1>6, <1>7, <1>8, <1>9 DEF SlotInv

-----------------------------------------------------------------------------
(* Operations *)

\* An operation starts where none is under way.
LEMMA StartsOperation ==
  ASSUME OpInv, NEW f \in Frames, op[f] \in {"none", "busy"}, Begins(f)
  PROVE  /\ OpInv'
         /\ \A g \in Frames : g # f => op'[g] = op[g]
<1>1. CASE f[2] = "outer"
  <2>1. op' = [op EXCEPT ![f] = "calling"] /\ chain' = chain
    BY <1>1 DEF Begins
  <2>2. op' \in [Frames -> OpStates] /\ \A g \in Frames : op'[g] = IF g = f THEN "calling" ELSE op[g]
    BY <2>1 DEF OpInv, OpStates
  <2>3. \A k \in Keys, g \in Frames : Has(chain[k], g) => Chained(k, g)'
    BY <1>1, <2>2 DEF OpInv, Chained
  <2>5. \A g \in Frames : op'[g] = "body" => op[g] = "body"
    BY <2>2
  <2>6. QED
    BY <2>1, <2>2, <2>3, <2>5 DEF OpInv
<1>2. CASE f[2] = "inner"
  <2> DEFINE k == Key(f)
  <2>1. op' = [op EXCEPT ![f] = "waiting"] /\ chain' = [chain EXCEPT ![k] = Append(@, f)]
    BY <1>2 DEF Begins
  <2>2. op' \in [Frames -> OpStates] /\ \A g \in Frames : op'[g] = IF g = f THEN "waiting" ELSE op[g]
    BY <2>1 DEF OpInv, OpStates
  <2>3. k \in Keys
    BY FrameFacts
  <2>4. ~ Has(chain[k], f)
    BY <2>3 DEF OpInv, Chained
  <2> HIDE DEF k
  <2>5. /\ Append(chain[k], f) \in Seq(Frames)
        /\ NoRepeat(Append(chain[k], f))
        /\ \A x : Has(Append(chain[k], f), x) <=> Has(chain[k], x) \/ x = f
        /\ Append(chain[k], f) # <<>>
        /\ chain[k] # <<>> => Append(chain[k], f)[1] = chain[k][1]
    BY <2>3, <2>4, AppendNew DEF OpInv
  <2>6. \A j \in Keys : chain'[j] = IF j = k THEN Append(chain[k], f) ELSE chain[j]
    BY <2>1 DEF OpInv
  <2>7. chain' \in [Keys -> Seq(Frames)] /\ \A j \in Keys : NoRepeat(chain'[j])
    BY <2>1, <2>3, <2>5, <2>6 DEF OpInv
  <2>8. \A j \in Keys, g \in Frames : Has(chain'[j], g) => Chained(j, g)'
    <3>1. Chained(k, f)'
      BY <1>2, <2>2 DEF Chained, k
    <3>2. ASSUME NEW j \in Keys, NEW g \in Frames, Has(chain[j], g)
          PROVE  Chained(j, g)'
      BY <2>2, <3>2 DEF OpInv, Chained
    <3>3. QED
      BY <2>5, <2>6, <3>1, <3>2
  <2>9. \A g \in Frames : op'[g] = "body" => chain'[Key(g)] # <<>> /\ chain'[Key(g)][1] = g
    <3>1. ASSUME NEW g \in Frames, op'[g] = "body"
          PROVE  chain'[Key(g)] # <<>> /\ chain'[Key(g)][1] = g
      <4>1. op[g] = "body" /\ Key(g) \in Keys
        BY <2>2, <3>1, FrameFacts
      <4>2. chain[Key(g)] # <<>> /\ chain[Key(g)][1] = g
        BY <4>1 DEF OpInv
      <4>3. QED
        BY <2>5, <2>6, <4>1, <4>2
    <3>2. QED
      BY <3>1
  <2>10. \A g \in Frames : g[2] = "outer" => op'[g] \notin {"waiting", "body"}
    BY <1>2, <2>2 DEF OpInv
  <2>11. QED
    BY <2>2, <2>7, <2>8, <2>9, <2>10 DEF OpInv
<1>3. QED
  BY <1>1, <1>2, FrameFacts

\* An operation that leaves its chain is over, and unless it was inside its key's
\* section, the one inside stays at the head.
LEMMA LeavesChain ==
  ASSUME OpInv, NEW f \in Frames, NEW to \in Ended, Leaves(f),
         op' = [op EXCEPT ![f] = to], f[2] = "inner",
         op[f] = "body" \/ (op[f] = "waiting" /\ chain[Key(f)][1] # f)
  PROVE  OpInv'
<1> DEFINE k == Key(f)
<1>1. PICK i \in 1 .. Len(chain[k]) : chain[k][i] = f /\ chain' = [chain EXCEPT ![k] = RemoveAt(@, i)]
  <2>1. k \in Keys
    BY FrameFacts
  <2>2. DOMAIN chain[k] = 1 .. Len(chain[k])
    BY <2>1 DEF OpInv
  <2>3. QED
    BY <2>2 DEF Leaves
<1>2. k \in Keys
  BY FrameFacts
<1> HIDE DEF k
<1>3. /\ RemoveAt(chain[k], i) \in Seq(Frames)
      /\ NoRepeat(RemoveAt(chain[k], i))
      /\ \A x : Has(RemoveAt(chain[k], i), x) => Has(chain[k], x) /\ x # f
      /\ chain[k][1] # f => RemoveAt(chain[k], i) # <<>> /\ RemoveAt(chain[k], i)[1] = chain[k][1]
  <2>1. chain[k] \in Seq(Frames) /\ NoRepeat(chain[k])
    BY <1>2 DEF OpInv
  <2>2. QED
    BY <1>1, <2>1, RemoveAtOnly
<1>4. \A j \in Keys : chain'[j] = IF j = k THEN RemoveAt(chain[k], i) ELSE chain[j]
  BY <1>1 DEF OpInv
<1>5. chain' \in [Keys -> Seq(Frames)] /\ \A j \in Keys : NoRepeat(chain'[j])
  BY <1>1, <1>2, <1>3, <1>4 DEF OpInv
<1>6. op' \in [Frames -> OpStates] /\ \A g \in Frames : op'[g] = IF g = f THEN to ELSE op[g]
  BY DEF OpInv, OpStates
<1>7. \A j \in Keys, g \in Frames : Has(chain'[j], g) => Chained(j, g)'
  <2>1. ASSUME NEW j \in Keys, NEW g \in Frames, Has(chain'[j], g)
        PROVE  Chained(j, g)'
    <3>1. Has(chain[j], g) /\ (j = k => g # f)
      BY <1>3, <1>4, <2>1
    <3>2. Chained(j, g)
      BY <3>1 DEF OpInv
    <3>3. g # f
      BY <3>1, <3>2 DEF Chained, k
    <3>4. QED
      BY <1>6, <3>2, <3>3 DEF Chained
  <2>2. QED
    BY <2>1
<1>8. \A g \in Frames : op'[g] = "body" => chain'[Key(g)] # <<>> /\ chain'[Key(g)][1] = g
  <2>1. ASSUME NEW g \in Frames, op'[g] = "body"
        PROVE  chain'[Key(g)] # <<>> /\ chain'[Key(g)][1] = g
    <3>1. g # f /\ op[g] = "body" /\ Key(g) \in Keys
      BY <1>6, <2>1, FrameFacts DEF Ended
    <3>2. chain[Key(g)] # <<>> /\ chain[Key(g)][1] = g
      BY <3>1 DEF OpInv
    <3>3. Key(g) = k => chain[k][1] # f
      BY <3>1, <3>2
    <3>4. QED
      BY <1>3, <1>4, <3>1, <3>2, <3>3
  <2>2. QED
    BY <2>1
<1>9. \A g \in Frames : g[2] = "outer" => op'[g] \notin {"waiting", "body"}
  BY <1>6 DEF OpInv, Ended
<1>10. QED
  BY <1>5, <1>6, <1>7, <1>8, <1>9 DEF OpInv

-----------------------------------------------------------------------------
(* Counts of commits *)

\* A step that lands nothing and opens a commit only where one is left.
LEMMA CountKept ==
  ASSUME CountInv, UNCHANGED counts,
         \A c \in Calls : op'[Inner(c)] = "ok" <=> op[Inner(c)] = "ok",
         \A c \in Calls : Open(c)' => Open(c) \/ made[c] < Commits[c],
         \A c \in Nested : op'[<<c, "outer">>] \in {"none", "busy", "ok"} => frame'[Inner(c)] = "idle",
         \A c \in Nested : op'[<<c, "outer">>] = "ok" => made[c] = Commits[c]
  PROVE  CountInv'
<1>1. UNCHANGED <<made, landed, before>>
  BY DEF counts
<1>2. \A c \in Calls : made[c] \in Nat /\ Commits[c] \in Nat
  BY ExecutorAssumption DEF CountInv
<1>3. \A c \in Calls : made[c] + (IF Open(c)' THEN 1 ELSE 0) <= Commits[c]
  BY <1>2 DEF CountInv
<1>4. QED
  BY <1>1, <1>3 DEF CountInv

\* The inner frame of a call and its outer one.
LEMMA PairFacts ==
  /\ \A c \in Calls : Inner(c) # <<c, "outer">>
  /\ \A c, d \in Calls : Inner(c) # <<d, "outer">>
  /\ \A c, d \in Calls : Inner(c) = Inner(d) => c = d
  /\ \A c, d \in Calls : <<c, "outer">> = <<d, "outer">> => c = d
  /\ \A c \in Nested : c \in Calls /\ <<c, "outer">> \in Frames /\ <<c, "outer">>[2] = "outer"
BY ExecutorAssumption DEF Inner, Frames

LEMMA OuterFrames ==
  \A c \in Nested : /\ <<c, "outer">> \in Frames
                    /\ \A f \in Frames : f[2] = "inner" => <<c, "outer">> # f
<1>1. ASSUME NEW c \in Nested
      PROVE  <<c, "outer">> \in Frames /\ <<c, "outer">>[2] = "outer"
  BY PairFacts
<1>2. QED
  BY <1>1

\* A new attempt of an outer operation finds no commit of its own open.
LEMMA OuterBeginsCount ==
  ASSUME LinkInv, OpInv, CountInv, NEW f \in Frames, f[2] = "outer", op[f] \in {"none", "busy"}, Begins(f),
         \A g \in Frames : g # f => frame'[g] = frame[g]
  PROVE  CountInv'
<1> DEFINE c == f[1]
<1>1. c \in Calls /\ f = <<c, "outer">> /\ c \in Nested /\ Inner(c) \in Frames
  BY FrameFacts
<1> HIDE DEF c
<1>2. /\ op' = [op EXCEPT ![f] = "calling"] /\ landed' = landed
      /\ made' = [made EXCEPT ![c] = 0] /\ before' = [before EXCEPT ![c] = landed[c]]
  BY DEF Begins, c
<1>3. /\ \A g \in Frames : op'[g] = IF g = f THEN "calling" ELSE op[g]
      /\ \A d \in Calls : made'[d] = IF d = c THEN 0 ELSE made[d]
      /\ \A d \in Calls : before'[d] = IF d = c THEN landed[d] ELSE before[d]
  BY <1>2 DEF OpInv, CountInv
<1>4. frame[Inner(c)] = "idle" /\ op[Inner(c)] \in {"none", "busy"}
  BY <1>1 DEF CountInv, LinkInv
<1>5. \A d \in Calls : /\ Inner(d) \in Frames /\ Inner(d) # f
                       /\ op'[Inner(d)] = op[Inner(d)] /\ frame'[Inner(d)] = frame[Inner(d)]
  BY <1>1, <1>3, FrameFacts, PairFacts
<1>6. \A d \in Calls : Open(d)' = Open(d)
  BY <1>5 DEF Open
<1>7. ~ Open(c)
  BY <1>4 DEF Open
<1>8. /\ made' \in [Calls -> Nat] /\ landed' \in [Calls -> Nat] /\ before' \in [Calls -> Nat]
  BY <1>1, <1>2 DEF CountInv
<1>9. \A d \in Calls : landed'[d] = before'[d] + made'[d] + (IF op'[Inner(d)] = "ok" THEN 1 ELSE 0)
  <2>1. landed[c] \in Nat
    BY <1>1 DEF CountInv
  <2>2. QED
    BY <1>2, <1>3, <1>4, <1>5, <2>1 DEF CountInv
<1>10. \A d \in Calls : made'[d] + (IF Open(d)' THEN 1 ELSE 0) <= Commits[d]
  BY <1>1, <1>3, <1>6, <1>7, ExecutorAssumption DEF CountInv
<1>11. \A d \in Calls \ Nested : made'[d] = 0 /\ before'[d] = 0
  BY <1>1, <1>3 DEF CountInv
<1>12. \A d \in Nested : op'[<<d, "outer">>] \in {"none", "busy", "ok"} =>
          frame'[Inner(d)] = "idle" /\ d # c /\ op'[<<d, "outer">>] = op[<<d, "outer">>]
  BY <1>1, <1>3, <1>5, FrameFacts, ExecutorAssumption DEF CountInv
<1>13. \A d \in Nested : op'[<<d, "outer">>] = "ok" => made'[d] = Commits[d]
  BY <1>3, <1>12, ExecutorAssumption DEF CountInv
<1>14. QED
  BY <1>8, <1>9, <1>10, <1>11, <1>12, <1>13 DEF CountInv

\* A frame asks for a slot or takes it, and its operation with it.
LEMMA StartsCount ==
  ASSUME LinkInv, OpInv, CountInv, NEW f \in Frames, op[f] \in {"none", "busy"},
         Begins(f) \/ (UNCHANGED <<op, counts>>),
         \A g \in Frames : g # f => frame'[g] = frame[g],
         f[2] = "inner" => /\ made[f[1]] < Commits[f[1]]
                           /\ f[1] \in Nested => op[<<f[1], "outer">>] \notin {"none", "busy", "ok"}
  PROVE  CountInv'
<1>1. CASE f[2] = "outer" /\ Begins(f)
  BY <1>1, OuterBeginsCount
<1>2. CASE f[2] = "inner" \/ UNCHANGED <<op, counts>>
  <2>1. UNCHANGED counts /\ \A g \in Frames : op'[g] = op[g] \/ (g = f /\ f[2] = "inner" /\ op'[g] = "waiting")
    BY <1>2 DEF Begins, counts, OpInv
  <2>2. \A c \in Calls : op'[Inner(c)] = "ok" <=> op[Inner(c)] = "ok"
    BY <2>1, FrameFacts
  <2>3. ASSUME NEW c \in Calls, Open(c)'
        PROVE  Open(c) \/ made[c] < Commits[c]
    <3>1. CASE f = Inner(c)
      BY <3>1, FrameFacts
    <3>2. CASE f # Inner(c)
      <4>1. frame'[Inner(c)] = frame[Inner(c)] /\ op'[Inner(c)] = op[Inner(c)]
        BY <2>1, <3>2, FrameFacts
      <4>2. QED
        BY <2>3, <4>1 DEF Open
    <3>3. QED
      BY <3>1, <3>2
  <2>4. ASSUME NEW c \in Nested, op'[<<c, "outer">>] \in {"none", "busy", "ok"}
        PROVE  frame'[Inner(c)] = "idle" /\ (op'[<<c, "outer">>] = "ok" => made[c] = Commits[c])
    <3>1. c \in Calls /\ <<c, "outer">> \in Frames /\ Inner(c) \in Frames
      BY FrameFacts, ExecutorAssumption
    <3>2. op'[<<c, "outer">>] = op[<<c, "outer">>]
      BY <2>1, <2>4, <3>1
    <3>3. f # Inner(c)
      BY <2>4, <3>1, <3>2, FrameFacts
    <3>4. QED
      BY <2>4, <3>1, <3>2, <3>3 DEF CountInv
  <2>5. QED
    BY <2>1, <2>2, <2>3, <2>4, CountKept
<1>3. QED
  BY <1>1, <1>2, FrameFacts

\* A frame that ends or is to be retried leaves its operation as it is.
LEMMA ReleaseCount ==
  ASSUME LinkInv, CountInv, UNCHANGED <<op, counts>>, NEW f \in Frames, frame[f] = "running", NEW to, frame'[f] = to,
         to # "idle",
         \A g \in Frames : g # f => frame'[g] = frame[g] \/ (frame[g] = "queued" /\ frame'[g] = "woken")
  PROVE  CountInv'
<1>1. \A c \in Calls : Open(c)' => Open(c)
  BY FrameFacts DEF Open
<1>2. \A c \in Nested : op[<<c, "outer">>] \in {"none", "busy", "ok"} => frame'[Inner(c)] = "idle"
  <2>1. ASSUME NEW c \in Nested, op[<<c, "outer">>] \in {"none", "busy", "ok"}
        PROVE  frame'[Inner(c)] = "idle"
    <3>1. frame[Inner(c)] = "idle" /\ Inner(c) \in Frames
      BY <2>1, FrameFacts, ExecutorAssumption DEF CountInv
    <3>2. QED
      BY <3>1
  <2>2. QED
    BY <2>1
<1>3. \A c \in Nested : op[<<c, "outer">>] = "ok" => made[c] = Commits[c]
  BY DEF CountInv
<1>4. QED
  BY <1>1, <1>2, <1>3, CountKept

\* An inner operation goes on or fails.
LEMMA InnerGoesCount ==
  ASSUME OpInv, CountInv, UNCHANGED <<frame, counts>>, NEW f \in Frames, f[2] = "inner", op[f] \in {"waiting", "body"},
         NEW to \in {"body", "error", "busy"}, op' = [op EXCEPT ![f] = to]
  PROVE  CountInv'
<1>1. \A g \in Frames : op'[g] = IF g = f THEN to ELSE op[g]
  BY DEF OpInv
<1>2. \A c \in Calls : op'[Inner(c)] = "ok" <=> op[Inner(c)] = "ok"
  BY <1>1, FrameFacts
<1>3. \A c \in Calls : Open(c)' => Open(c)
  BY <1>1, FrameFacts DEF Open
<1>4. \A c \in Nested : op'[<<c, "outer">>] = op[<<c, "outer">>]
  BY <1>1, OuterFrames
<1>5. QED
  BY <1>2, <1>3, <1>4, CountKept DEF CountInv

-----------------------------------------------------------------------------
(* The steps *)

LEMMA InitInv == Init => IInv
<1> SUFFICES ASSUME Init PROVE IInv
  OBVIOUS
<1>1. SlotInv
  <2>1. RunningFrames = {}
    BY DEF Init, RunningFrames
  <2>2. active = Cardinality(RunningFrames)
    BY <2>1, FS_EmptySet DEF Init
  <2>3. \A f \in Frames : ~ Has(queue, f)
    BY DEF Init, Has
  <2>4. NoRepeat(queue) /\ queue \in Seq(Frames)
    BY DEF Init, NoRepeat
  <2>5. tries \in [Frames -> 0 .. MaxTries] /\ \A f \in Frames : tries[f] < MaxTries
    BY ExecutorAssumption DEF Init
  <2>6. QED
    BY <2>2, <2>3, <2>4, <2>5 DEF Init, SlotInv, FrameStates
<1>2. OpInv
  <2>1. \A k \in Keys : chain[k] = <<>>
    BY DEF Init
  <2>2. \A k \in Keys : NoRepeat(chain[k]) /\ \A f : ~ Has(chain[k], f)
    BY <2>1 DEF NoRepeat, Has
  <2>3. chain \in [Keys -> Seq(Frames)]
    BY DEF Init
  <2>4. QED
    BY <2>2, <2>3 DEF Init, OpInv, OpStates
<1>3. LinkInv
  BY DEF Init, LinkInv
<1>4. CountInv
  <2>1. \A c \in Calls : /\ Inner(c) \in Frames
                         /\ op[Inner(c)] = "none" /\ frame[Inner(c)] = "idle"
    BY FrameFacts DEF Init
  <2>2. \A c \in Nested : op[<<c, "outer">>] = "none"
    BY OuterFrames DEF Init
  <2>3. \A c \in Calls : ~ Open(c) /\ Commits[c] \in Nat
    BY <2>1, ExecutorAssumption DEF Open
  <2>4. /\ made \in [Calls -> Nat] /\ landed = made /\ before = made
        /\ \A c \in Calls : made[c] = 0
    BY DEF Init
  <2>5. \A c \in Calls : landed[c] = before[c] + made[c] + (IF op[Inner(c)] = "ok" THEN 1 ELSE 0)
    BY <2>1, <2>4
  <2>6. \A c \in Calls : made[c] + (IF Open(c) THEN 1 ELSE 0) <= Commits[c]
    BY <2>3, <2>4
  <2>7. QED
    BY <2>1, <2>2, <2>4, <2>5, <2>6, PairFacts DEF CountInv
<1>5. QED
  BY <1>1, <1>2, <1>3, <1>4 DEF IInv

\* withConcurrency() up to the operation, from a first call or a retry.
LEMMA AsksInv ==
  ASSUME IInv, NEW f \in Frames, frame[f] \in {"idle", "backoff"}, Asks(f), tries' = tries,
         f[2] = "inner" => /\ made[f[1]] < Commits[f[1]]
                           /\ f[1] \in Nested => op[<<f[1], "outer">>] \notin {"none", "busy", "ok"}
  PROVE  IInv'
<1>1. op[f] \in {"none", "busy"}
  BY DEF IInv, LinkInv
<1>2. CASE frame' = [frame EXCEPT ![f] = "running"] /\ Begins(f) /\ queue' = queue
  <2>1. SlotInv'
    BY <1>2, TakesSlot DEF IInv, Begins
  <2>2. OpInv' /\ \A g \in Frames : g # f => op'[g] = op[g]
    BY <1>1, <1>2, StartsOperation DEF IInv
  <2>3. LinkInv'
    BY <1>2, <2>2 DEF IInv, LinkInv, SlotInv
  <2>4. CountInv'
    BY <1>1, <1>2, StartsCount DEF IInv, SlotInv
  <2>5. QED
    BY <2>1, <2>2, <2>3, <2>4 DEF IInv
<1>3. CASE frame' = [frame EXCEPT ![f] = "queued"] /\ queue' = Append(queue, f) /\ UNCHANGED <<active, op, chain, counts>>
  <2>1. SlotInv'
    BY <1>3, QueuesForSlot DEF IInv
  <2>2. OpInv'
    BY <1>3 DEF IInv, OpInv, Chained
  <2>3. LinkInv'
    BY <1>1, <1>3 DEF IInv, LinkInv, SlotInv
  <2>4. CountInv'
    BY <1>1, <1>3, StartsCount DEF IInv, SlotInv
  <2>5. QED
    BY <2>1, <2>2, <2>3, <2>4 DEF IInv
<1>4. QED
  BY <1>2, <1>3 DEF Asks

\* A commit is made where one is left to make.
LEMMA ExecuteInv ==
  ASSUME IInv, NEW f \in Frames, Execute(f)
  PROVE  IInv'
<1>1. ASSUME f[2] = "inner"
      PROVE  /\ made[f[1]] < Commits[f[1]]
             /\ f[1] \in Nested => op[<<f[1], "outer">>] \notin {"none", "busy", "ok"}
  <2>1. f[1] \in Calls /\ f = Inner(f[1])
    BY <1>1, FrameFacts
  <2>2. CASE f[1] \in Nested
    <3>1. Top(f[1]) = <<f[1], "outer">> /\ Top(f[1]) # f
      BY <2>1, <2>2, PairFacts DEF Top
    <3>2. QED
      BY <3>1 DEF Execute
  <2>3. CASE f[1] \notin Nested
    BY <2>1, <2>3, ExecutorAssumption DEF IInv, CountInv
  <2>4. QED
    BY <2>2, <2>3
<1>2. QED
  BY <1>1, AsksInv DEF Execute

\* A frame that is retried, or waits for its slot, has its commit open.
LEMMA StillOpen ==
  ASSUME IInv, NEW f \in Frames, f[2] = "inner", frame[f] \in {"backoff", "woken"}
  PROVE  /\ made[f[1]] < Commits[f[1]]
         /\ f[1] \in Nested => op[<<f[1], "outer">>] \notin {"none", "busy", "ok"}
<1>1. f[1] \in Calls /\ f = Inner(f[1])
  BY FrameFacts
<1>2. Open(f[1])
  BY <1>1 DEF Open
<1>3. made[f[1]] \in Nat /\ Commits[f[1]] \in Nat /\ made[f[1]] + 1 <= Commits[f[1]]
  BY <1>1, <1>2, ExecutorAssumption DEF IInv, CountInv
<1>4. QED
  BY <1>1, <1>3 DEF IInv, CountInv

LEMMA RetryInv ==
  ASSUME IInv, NEW f \in Frames, Retry(f)
  PROVE  IInv'
BY AsksInv, StillOpen DEF Retry

LEMMA ResumeInv ==
  ASSUME IInv, NEW f \in Frames, Resume(f)
  PROVE  IInv'
<1>1. op[f] \in {"none", "busy"}
  BY DEF IInv, LinkInv, Resume
<1>2. SlotInv'
  BY TakesSlot DEF IInv, Begins, Resume
<1>3. OpInv' /\ \A g \in Frames : g # f => op'[g] = op[g]
  BY <1>1, StartsOperation DEF IInv, Resume
<1>4. LinkInv'
  BY <1>3 DEF IInv, LinkInv, SlotInv, Resume
<1>5. CountInv'
  <2>1. Begins(f) /\ \A g \in Frames : g # f => frame'[g] = frame[g]
    BY DEF IInv, SlotInv, Resume
  <2>2. f[2] = "inner" => /\ made[f[1]] < Commits[f[1]]
                          /\ f[1] \in Nested => op[<<f[1], "outer">>] \notin {"none", "busy", "ok"}
    BY StillOpen DEF Resume
  <2>3. QED
    BY <1>1, <2>1, <2>2, StartsCount DEF IInv
<1>6. QED
  BY <1>2, <1>3, <1>4, <1>5 DEF IInv

\* A frame that ends by itself is retried only when its operation was busy.
LEMMA SettleInv ==
  ASSUME IInv, NEW f \in Frames, Settle(f)
  PROVE  IInv'
<1> DEFINE to == IF op[f] \in Retryable /\ tries[f] + 1 < MaxTries THEN "backoff" ELSE op[f]
<1>1. to \in Ended \cup {"backoff"} /\ (to = "backoff" => tries[f] + 1 < MaxTries)
  BY DEF Settle, Ended
<1>2. to \in {"backoff", "busy"} => op[f] = "busy"
  BY DEF Settle, Ended, Retryable
<1>3. to \notin {"idle", "queued", "woken"} /\ (to = "ok" => op[f] = "ok")
  BY <1>1 DEF Ended
<1>4. Release(f, to) /\ frame[f] = "running" /\ tries' = [tries EXCEPT ![f] = @ + 1] /\ UNCHANGED <<op, chain, counts>>
  BY DEF Settle
<1> HIDE DEF to
<1>5. /\ SlotInv'
      /\ frame'[f] = to
      /\ \A g \in Frames : g # f => frame'[g] = frame[g] \/ (frame[g] = "queued" /\ frame'[g] = "woken")
  BY <1>1, <1>4, ReleasesSlot DEF IInv
<1>6. OpInv'
  BY <1>4 DEF IInv, OpInv, Chained
<1>7. LinkInv'
  BY <1>2, <1>3, <1>4, <1>5 DEF IInv, LinkInv
<1>8. CountInv'
  BY <1>3, <1>4, <1>5, ReleaseCount DEF IInv
<1>9. QED
  BY <1>5, <1>6, <1>7, <1>8 DEF IInv

\* A timeout is no error that is retried, so the operation that goes on is the
\* frame's last.
LEMMA TimeOutInv ==
  ASSUME IInv, NEW f \in Frames, TimeOut(f)
  PROVE  IInv'
<1>1. Release(f, "error") /\ frame[f] = "running" /\ tries' = [tries EXCEPT ![f] = @ + 1] /\ UNCHANGED <<op, chain, counts>>
  BY DEF TimeOut, Retryable
<1>2. "error" \in Ended \cup {"backoff"}
  BY DEF Ended
<1>3. /\ SlotInv'
      /\ frame'[f] = "error"
      /\ \A g \in Frames : g # f => frame'[g] = frame[g] \/ (frame[g] = "queued" /\ frame'[g] = "woken")
  BY <1>1, <1>2, ReleasesSlot DEF IInv
<1>4. OpInv'
  BY <1>1 DEF IInv, OpInv, Chained
<1>5. LinkInv'
  BY <1>1, <1>3 DEF IInv, LinkInv
<1>6. CountInv'
  BY <1>1, <1>3, ReleaseCount DEF IInv
<1>7. QED
  BY <1>3, <1>4, <1>5, <1>6 DEF IInv

LEMMA EnterInv ==
  ASSUME IInv, NEW f \in Frames, Enter(f)
  PROVE  IInv'
<1>1. Key(f) \in Keys /\ f[2] = "inner"
  BY FrameFacts DEF IInv, OpInv, Enter
<1>2. chain[Key(f)] # <<>> /\ chain[Key(f)][1] = f
  <2>1. chain[Key(f)] \in Seq(Frames)
    BY <1>1 DEF IInv, OpInv
  <2>2. QED
    BY <2>1, PrefixIsHead DEF Enter, MayEnter
<1>3. op' \in [Frames -> OpStates] /\ \A g \in Frames : op'[g] = IF g = f THEN "body" ELSE op[g]
  BY DEF IInv, OpInv, Enter, OpStates
<1>4. SlotInv'
  BY DEF IInv, SlotInv, Enter, RunningFrames
<1>5. \A k \in Keys, g \in Frames : Has(chain[k], g) => Chained(k, g)'
  BY <1>3 DEF IInv, OpInv, Chained, Enter
<1>6. OpInv'
  BY <1>1, <1>2, <1>3, <1>5 DEF IInv, OpInv, Enter
<1>7. LinkInv'
  BY <1>3 DEF IInv, LinkInv, Enter
<1>8. CountInv'
  BY <1>1, InnerGoesCount DEF IInv, Enter
<1>9. QED
  BY <1>4, <1>6, <1>7, <1>8 DEF IInv

LEMMA LockTimeoutInv ==
  ASSUME IInv, NEW f \in Frames, LockTimeout(f)
  PROVE  IInv'
<1>1. Key(f) \in Keys /\ f[2] = "inner" /\ op' = [op EXCEPT ![f] = "error"] /\ Leaves(f)
  BY FrameFacts DEF IInv, OpInv, LockTimeout
<1>2. chain[Key(f)][1] # f
  <2>1. PICK i \in DOMAIN chain[Key(f)] : chain[Key(f)][i] = f
    BY <1>1 DEF Leaves
  <2>2. chain[Key(f)] \in Seq(Frames) /\ Len(chain[Key(f)]) >= 1
    BY <1>1, <2>1 DEF IInv, OpInv
  <2>3. QED
    BY <2>2, PrefixIsHead DEF LockTimeout, MayEnter
<1>3. op' \in [Frames -> OpStates] /\ \A g \in Frames : op'[g] = IF g = f THEN "error" ELSE op[g]
  BY <1>1 DEF IInv, OpInv, OpStates, Ended
<1>4. OpInv'
  BY <1>1, <1>2, LeavesChain DEF IInv, LockTimeout, Ended
<1>5. SlotInv'
  BY DEF IInv, SlotInv, LockTimeout, RunningFrames
<1>6. LinkInv'
  BY <1>3 DEF IInv, LinkInv, LockTimeout
<1>7. CountInv'
  BY <1>1, InnerGoesCount DEF IInv, LockTimeout
<1>8. QED
  BY <1>4, <1>5, <1>6, <1>7 DEF IInv

LEMMA BodyEndsInv ==
  ASSUME IInv, NEW f \in Frames, BodyEnds(f)
  PROVE  IInv'
<1>1. PICK how \in Ended :
        /\ op' = [op EXCEPT ![f] = how]
        /\ landed' = [landed EXCEPT ![f[1]] = @ + (IF how = "ok" THEN 1 ELSE 0)]
  BY DEF BodyEnds
<1>2. op[f] = "body" /\ Leaves(f) /\ f[2] = "inner" /\ f = Inner(f[1]) /\ f[1] \in Calls
  BY FrameFacts DEF IInv, OpInv, BodyEnds
<1>3. op' \in [Frames -> OpStates] /\ \A g \in Frames : op'[g] = IF g = f THEN how ELSE op[g]
  BY <1>1 DEF IInv, OpInv, OpStates
<1>4. OpInv'
  BY <1>1, <1>2, LeavesChain DEF IInv
<1>5. SlotInv'
  BY DEF IInv, SlotInv, BodyEnds, RunningFrames
<1>6. LinkInv'
  BY <1>2, <1>3 DEF IInv, LinkInv, BodyEnds
<1>7. UNCHANGED <<frame, made, before>>
  BY DEF BodyEnds
<1>8. CountInv'
  <2>1. CASE how # "ok"
    <3>1. landed' = landed
      BY <1>1, <1>2, <2>1 DEF IInv, CountInv
    <3>2. how \in {"body", "error", "busy"}
      BY <2>1 DEF Ended
    <3>3. QED
      BY <1>1, <1>2, <1>7, <3>1, <3>2, InnerGoesCount DEF IInv, counts
  <2>2. CASE how = "ok"
    <3>1. landed' \in [Calls -> Nat] /\ \A c \in Calls : landed'[c] = IF c = f[1] THEN landed[c] + 1 ELSE landed[c]
      BY <1>1, <1>2, <2>2 DEF IInv, CountInv
    <3>2. \A c \in Calls : op'[Inner(c)] = IF c = f[1] THEN "ok" ELSE op[Inner(c)]
      BY <1>2, <1>3, <2>2, FrameFacts
    <3>3. \A c \in Calls : Open(c)' <=> Open(c)
      BY <1>2, <1>7, <3>2 DEF Open
    <3>4. ASSUME NEW c \in Calls
          PROVE  landed'[c] = before[c] + made[c] + (IF op'[Inner(c)] = "ok" THEN 1 ELSE 0)
      <4>1. /\ made[c] \in Nat /\ before[c] \in Nat
            /\ landed[c] = before[c] + made[c] + (IF op[Inner(c)] = "ok" THEN 1 ELSE 0)
        BY DEF IInv, CountInv
      <4>2. CASE c = f[1]
        <5>1. landed[c] = before[c] + made[c]
          BY <1>2, <4>1, <4>2
        <5>2. QED
          BY <3>1, <3>2, <4>1, <4>2, <5>1
      <4>3. CASE c # f[1]
        BY <3>1, <3>2, <4>1, <4>3
      <4>4. QED
        BY <4>2, <4>3
    <3>5. \A c \in Nested : op'[<<c, "outer">>] = op[<<c, "outer">>]
      BY <1>2, <1>3, OuterFrames
    <3>6. QED
      BY <1>7, <3>1, <3>3, <3>4, <3>5 DEF IInv, CountInv
  <2>3. QED
    BY <2>1, <2>2
<1>9. QED
  BY <1>4, <1>5, <1>6, <1>8 DEF IInv

\* What a commit comes back with: one that is done is counted, one that was busy
\* has had no effect, and the frame is free for the next.
LEMMA InnerReturnsInv ==
  ASSUME IInv, NEW c \in Calls, InnerReturns(c)
  PROVE  IInv'
<1> DEFINE o == <<c, "outer">>
<1> DEFINE i == Inner(c)
<1>1. o \in Frames /\ i \in Frames /\ o # i /\ o[2] = "outer" /\ i[2] = "inner" /\ c \in Nested
  BY FrameFacts DEF InnerReturns, Inner
<1>2. op[o] = "calling" /\ frame[i] \in Ended /\ UNCHANGED <<active, queue, chain, landed, before>>
  BY DEF InnerReturns
<1>3. \A d \in Calls : o # Inner(d) /\ (d # c => Inner(d) # i /\ <<d, "outer">> # o) /\ i # <<d, "outer">>
  BY PairFacts
<1>4. CASE frame[i] = "error" /\ op' = [op EXCEPT ![o] = "error"] /\ UNCHANGED <<frame, tries, made>>
  <2> HIDE DEF o, i
  <2>1. op' \in [Frames -> OpStates] /\ \A g \in Frames : op'[g] = IF g = o THEN "error" ELSE op[g]
    BY <1>1, <1>2, <1>4 DEF IInv, OpInv, OpStates, Ended
  <2>2. SlotInv'
    BY <1>2, <1>4 DEF IInv, SlotInv, RunningFrames
  <2>3. OpInv'
    <3>1. \A k \in Keys, g \in Frames : Has(chain[k], g) => Chained(k, g)'
      BY <1>2, <2>1 DEF IInv, OpInv, Chained
    <3>2. \A g \in Frames : op'[g] \in {"waiting", "body"} => op'[g] = op[g]
      BY <1>2, <2>1 DEF Ended
    <3>3. QED
      BY <1>2, <2>1, <3>1, <3>2 DEF IInv, OpInv
  <2>4. LinkInv'
    BY <1>1, <1>2, <1>4, <2>1 DEF IInv, LinkInv
  <2>5. CountInv'
    <3>1. UNCHANGED counts
      BY <1>2, <1>4 DEF counts
    <3>2. \A d \in Calls : op'[Inner(d)] = op[Inner(d)]
      BY <1>3, <2>1, FrameFacts
    <3>3. \A d \in Calls : Open(d)' <=> Open(d)
      BY <1>4, <3>2 DEF Open
    <3>4. \A d \in Nested : op'[<<d, "outer">>] \in {"none", "busy", "ok"} => op'[<<d, "outer">>] = op[<<d, "outer">>]
      BY <2>1, FrameFacts
    <3>5. QED
      BY <1>4, <3>1, <3>2, <3>3, <3>4, CountKept DEF IInv, CountInv
  <2>6. QED
    BY <2>2, <2>3, <2>4, <2>5 DEF IInv
<1>5. ASSUME NEW to \in {"calling", "busy"},
             frame[i] = IF to = "busy" THEN "busy" ELSE "ok",
             op' = [op EXCEPT ![o] = to, ![i] = "none"],
             frame' = [frame EXCEPT ![i] = "idle"], tries' = [tries EXCEPT ![i] = 0],
             made' = IF to = "busy" THEN made ELSE [made EXCEPT ![c] = @ + 1]
      PROVE  IInv'
  <2> HIDE DEF o, i
  <2>1. op[i] = frame[i]
    BY <1>1, <1>5 DEF IInv, LinkInv
  <2>2. op' \in [Frames -> OpStates]
        /\ \A g \in Frames : op'[g] = IF g = i THEN "none" ELSE IF g = o THEN to ELSE op[g]
    BY <1>1, <1>5 DEF IInv, OpInv, OpStates, Ended
  <2>3. frame' \in [Frames -> FrameStates] /\ \A g \in Frames : frame'[g] = IF g = i THEN "idle" ELSE frame[g]
    BY <1>1, <1>5 DEF IInv, SlotInv, FrameStates
  <2>4. SlotInv'
    <3>1. RunningFrames' = RunningFrames
      BY <1>1, <1>5, <2>3 DEF RunningFrames
    <3>2. tries' \in [Frames -> 0 .. MaxTries] /\ \A g \in Frames : frame'[g] \notin Ended => tries'[g] < MaxTries
      BY <1>5, <2>3, ExecutorAssumption DEF IInv, SlotInv
    <3>3. \A g \in Frames : Has(queue, g) => frame'[g] = "queued"
      BY <1>5, <2>3 DEF IInv, SlotInv
    <3>4. QED
      BY <1>2, <2>3, <3>1, <3>2, <3>3 DEF IInv, SlotInv
  <2>5. OpInv'
    <3>1. \A k \in Keys, g \in Frames : Has(chain[k], g) => Chained(k, g)'
      BY <1>2, <1>5, <2>1, <2>2 DEF IInv, OpInv, Chained
    <3>2. \A g \in Frames : op'[g] \in {"waiting", "body"} => op'[g] = op[g]
      BY <2>2
    <3>3. QED
      BY <1>2, <2>2, <3>1, <3>2 DEF IInv, OpInv
  <2>6. LinkInv'
    BY <1>1, <1>2, <1>5, <2>1, <2>2, <2>3 DEF IInv, LinkInv
  <2>7. CountInv'
    <3>1. \A d \in Calls : /\ op'[Inner(d)] = IF d = c THEN "none" ELSE op[Inner(d)]
                           /\ frame'[Inner(d)] = IF d = c THEN "idle" ELSE frame[Inner(d)]
      BY <1>3, <2>2, <2>3, FrameFacts DEF i
    <3>2. \A d \in Calls : Open(d)' <=> d # c /\ Open(d)
      BY <3>1 DEF Open
    <3>3. /\ made[c] \in Nat /\ made' \in [Calls -> Nat]
          /\ \A d \in Calls : made'[d] = IF d = c /\ to # "busy" THEN made[d] + 1 ELSE made[d]
      BY <1>5 DEF IInv, CountInv
    <3>4. ASSUME NEW d \in Calls
          PROVE  /\ landed[d] = before[d] + made'[d] + (IF op'[Inner(d)] = "ok" THEN 1 ELSE 0)
                 /\ made'[d] + (IF Open(d)' THEN 1 ELSE 0) <= Commits[d]
      <4>1. /\ made[d] \in Nat /\ before[d] \in Nat /\ Commits[d] \in Nat
            /\ landed[d] = before[d] + made[d] + (IF op[Inner(d)] = "ok" THEN 1 ELSE 0)
            /\ made[d] + (IF Open(d) THEN 1 ELSE 0) <= Commits[d]
        BY ExecutorAssumption DEF IInv, CountInv
      <4>2. CASE d = c
        <5>1. op[Inner(d)] = IF to = "busy" THEN "busy" ELSE "ok"
          BY <1>5, <2>1, <4>2 DEF i
        <5>2. to # "busy" => Open(d)
          BY <5>1 DEF Open
        <5>3. op'[Inner(d)] = "none" /\ ~ Open(d)'
          BY <3>1, <3>2, <4>2
        <5>4. CASE to = "busy"
          BY <3>3, <4>1, <4>2, <5>1, <5>3, <5>4
        <5>5. CASE to # "busy"
          BY <3>3, <4>1, <4>2, <5>1, <5>2, <5>3, <5>5
        <5>6. QED
          BY <5>4, <5>5
      <4>3. CASE d # c
        BY <3>1, <3>2, <3>3, <4>1, <4>3
      <4>4. QED
        BY <4>2, <4>3
    <3>5. \A d \in Calls \ Nested : made'[d] = 0 /\ before[d] = 0
      BY <1>1, <3>3 DEF IInv, CountInv
    <3>6. ASSUME NEW d \in Nested
          PROVE  op'[<<d, "outer">>] = IF d = c THEN to ELSE op[<<d, "outer">>]
      <4>1. d \in Calls /\ <<d, "outer">> \in Frames
        BY PairFacts
      <4>2. <<d, "outer">> # i /\ (d # c => <<d, "outer">> # o) /\ (d = c => <<d, "outer">> = o)
        BY <1>3, <4>1 DEF o
      <4>3. QED
        BY <2>2, <4>1, <4>2
    <3>7. \A d \in Nested : op'[<<d, "outer">>] \in {"none", "busy", "ok"} => frame'[Inner(d)] = "idle"
      BY <3>1, <3>6, ExecutorAssumption DEF IInv, CountInv
    <3>8. \A d \in Nested : op'[<<d, "outer">>] = "ok" => made'[d] = Commits[d]
      BY <3>3, <3>6, ExecutorAssumption DEF IInv, CountInv
    <3>9. QED
      BY <1>2, <3>3, <3>4, <3>5, <3>7, <3>8 DEF IInv, CountInv
  <2>8. QED
    BY <2>4, <2>5, <2>6, <2>7 DEF IInv
<1>6. CASE frame[i] = "ok" /\ op' = [op EXCEPT ![i] = "none"] /\ made' = [made EXCEPT ![c] = @ + 1]
           /\ frame' = [frame EXCEPT ![i] = "idle"] /\ tries' = [tries EXCEPT ![i] = 0]
  <2>1. op' = [op EXCEPT ![o] = "calling", ![i] = "none"]
    BY <1>1, <1>2, <1>6 DEF IInv, OpInv
  <2>2. QED
    BY <1>5, <1>6, <2>1
<1>7. CASE frame[i] = "busy" /\ op' = [op EXCEPT ![o] = "busy", ![i] = "none"] /\ made' = made
           /\ frame' = [frame EXCEPT ![i] = "idle"] /\ tries' = [tries EXCEPT ![i] = 0]
  BY <1>5, <1>7
<1>8. QED
  BY <1>4, <1>6, <1>7 DEF InnerReturns

\* An outer operation ends with no commit open, and well only when all are made.
LEMMA OuterEndsInv ==
  ASSUME IInv, NEW c \in Calls, OuterEnds(c)
  PROVE  IInv'
<1> DEFINE o == <<c, "outer">>
<1>1. o \in Frames /\ o[2] = "outer" /\ c \in Nested /\ op[o] = "calling" /\ frame[Inner(c)] = "idle"
  BY FrameFacts DEF OuterEnds
<1>2. PICK how \in Ended : op' = [op EXCEPT ![o] = how] /\ (how = "ok" => made[c] = Commits[c])
  BY DEF OuterEnds
<1>3. UNCHANGED <<frame, tries, active, queue, chain, counts>>
  BY DEF OuterEnds
<1>4. \A d \in Calls : o # Inner(d) /\ (d # c => <<d, "outer">> # o)
  BY PairFacts
<1> HIDE DEF o
<1>5. op' \in [Frames -> OpStates] /\ \A g \in Frames : op'[g] = IF g = o THEN how ELSE op[g]
  BY <1>1, <1>2 DEF IInv, OpInv, OpStates
<1>6. SlotInv'
  BY <1>3 DEF IInv, SlotInv, RunningFrames
<1>7. OpInv'
  <2>1. \A k \in Keys, g \in Frames : Has(chain[k], g) => Chained(k, g)'
    BY <1>1, <1>5 DEF IInv, OpInv, Chained
  <2>2. \A g \in Frames : op'[g] \in {"waiting", "body"} => op'[g] = op[g]
    BY <1>5 DEF Ended
  <2>3. QED
    BY <1>3, <1>5, <2>1, <2>2 DEF IInv, OpInv
<1>8. LinkInv'
  BY <1>1, <1>3, <1>5 DEF IInv, LinkInv
<1>9. CountInv'
  <2>1. \A d \in Calls : op'[Inner(d)] = op[Inner(d)]
    BY <1>4, <1>5, FrameFacts
  <2>2. \A d \in Calls : Open(d)' <=> Open(d)
    BY <1>3, <2>1 DEF Open
  <2>3. \A d \in Nested : d # c => op'[<<d, "outer">>] = op[<<d, "outer">>]
    BY <1>4, <1>5, FrameFacts, ExecutorAssumption
  <2>4. op'[<<c, "outer">>] = how
    BY <1>1, <1>5 DEF o
  <2>5. QED
    BY <1>1, <1>2, <1>3, <2>1, <2>2, <2>3, <2>4, CountKept DEF IInv, CountInv
<1>10. QED
  BY <1>6, <1>7, <1>8, <1>9 DEF IInv

\* The invariant is inductive.
LEMMA NextInv == IInv /\ [Next]_vars => IInv'
<1> SUFFICES ASSUME IInv, [Next]_vars PROVE IInv'
  OBVIOUS
<1>1. ASSUME NEW f \in Frames, Step(f) PROVE IInv'
  BY <1>1, ExecuteInv, ResumeInv, SettleInv, RetryInv, EnterInv, InnerReturnsInv, FrameFacts DEF Step
<1>2. ASSUME NEW f \in Frames, Timer(f) PROVE IInv'
  BY <1>2, TimeOutInv, LockTimeoutInv DEF Timer
<1>3. ASSUME NEW f \in Frames, BodyEnds(f) PROVE IInv'
  BY <1>3, BodyEndsInv
<1>4. ASSUME NEW f \in Frames, OuterEnds(f[1]) PROVE IInv'
  BY <1>4, OuterEndsInv, FrameFacts
<1>5. CASE UNCHANGED vars
  BY <1>5 DEF vars, counts, IInv, SlotInv, OpInv, LinkInv, CountInv, Open, RunningFrames, Chained
<1>6. QED
  BY <1>1, <1>2, <1>3, <1>4, <1>5 DEF Next

LEMMA Invariance == Spec => []IInv
BY InitInv, NextInv, PTL DEF Spec

\* Every reachable state is well typed, and the slots in use are exactly the
\* frames that run: no end of a frame is counted twice.
THEOREM SlotsCounted == Spec => []TypeOK
<1>1. IInv => TypeOK
  BY DEF IInv, SlotInv, OpInv, CountInv, TypeOK, RunningFrames
<1>2. QED
  BY <1>1, Invariance, PTL

\* TaskMutex: no two operations are inside the section of one key, whichever
\* waiters and callers have timed out.
THEOREM KeysExclusive == Spec => []KeyExclusive
<1>1. IInv => KeyExclusive
  <2>1. IInv => TypeOK
    BY DEF IInv, SlotInv, OpInv, CountInv, TypeOK, RunningFrames
  <2>2. IInv => \A f, g \in Frames : op[f] = "body" /\ op[g] = "body" /\ Key(f) = Key(g) => f = g
    BY DEF IInv, OpInv
  <2>3. QED
    BY <2>1, <2>2 DEF KeyExclusive
<1>2. QED
  BY <1>1, Invariance, PTL

\* Whatever is retried at two levels and whatever times out, a direct commit takes
\* effect at most once, an attempt of a nested call makes each of its commits at
\* most once, and a call that is reported as done has made them all in its last.
THEOREM CommitsOnce == Spec => []OnceOnly
<1> DEFINE Own(c) == /\ c \notin Nested => landed[c] <= 1
                     /\ landed[c] <= before[c] + Commits[c]
                     /\ frame[Top(c)] = "ok" => landed[c] = before[c] + Commits[c]
<1>1. ASSUME IInv, NEW c \in Calls
      PROVE  Own(c)
  <2>1. /\ made[c] \in Nat /\ landed[c] \in Nat /\ before[c] \in Nat /\ Commits[c] \in Nat
        /\ landed[c] = before[c] + made[c] + (IF op[Inner(c)] = "ok" THEN 1 ELSE 0)
        /\ made[c] + (IF Open(c) THEN 1 ELSE 0) <= Commits[c]
        /\ op[Inner(c)] = "ok" => Open(c)
    BY <1>1, ExecutorAssumption DEF IInv, CountInv, Open
  <2>2. landed[c] <= before[c] + Commits[c]
    BY <2>1
  <2>3. CASE c \notin Nested
    <3>1. Top(c) = Inner(c) /\ Inner(c) \in Frames /\ Commits[c] = 1 /\ made[c] = 0 /\ before[c] = 0
      BY <1>1, <2>3, FrameFacts, ExecutorAssumption DEF Top, IInv, CountInv
    <3>2. frame[Inner(c)] = "ok" => op[Inner(c)] = "ok"
      BY <1>1, <3>1 DEF IInv, LinkInv
    <3>3. QED
      BY <2>1, <2>2, <3>1, <3>2
  <2>4. CASE c \in Nested
    <3>1. Top(c) = <<c, "outer">> /\ Top(c) \in Frames /\ Inner(c) \in Frames
      BY <2>4, FrameFacts DEF Top
    <3>2. ASSUME frame[Top(c)] = "ok"
          PROVE  made[c] = Commits[c] /\ op[Inner(c)] # "ok"
      <4>1. op[Top(c)] = "ok"
        BY <1>1, <3>1, <3>2 DEF IInv, LinkInv
      <4>2. made[c] = Commits[c] /\ frame[Inner(c)] = "idle"
        BY <1>1, <2>4, <3>1, <4>1 DEF IInv, CountInv
      <4>3. QED
        BY <1>1, <3>1, <4>2 DEF IInv, LinkInv
    <3>3. QED
      BY <2>1, <2>2, <2>4, <3>2
  <2>5. QED
    BY <2>3, <2>4
<1>2. IInv => OnceOnly
  BY <1>1 DEF OnceOnly
<1>3. QED
  BY <1>2, Invariance, PTL

-----------------------------------------------------------------------------
(* The job queue *)

\* The job is among those that the loop will hand out when it commits.
First(c, j) == \E i \in 1 .. Len(c.taken) : i <= c.now /\ c.taken[i] = j

\* The loop runs a handler of the job, or has its end to report.
Busy(c, j) ==
  \/ j \in c.ended
  \/ \E b \in 1 .. Len(c.batches) : \E i \in c.batches[b].left : c.batches[b].jobs[i] = j

\* A job that no cause to hand it out again has befallen.
Clean(j) == given[j] \in {"no", "once"}

LoopOK(c) ==
  /\ c.pc # "commit" => c.taken = <<>>
  /\ c.pc = "commit" => c.now <= Len(c.taken)
  /\ c.pc = "idle" => c.batches = <<>> /\ c.ended = {}
  /\ NoRepeat(c.taken)
  /\ c.pc \in {"read", "commit"} => c.now + c.inFlight <= Concurrency
  /\ \A b \in 1 .. Len(c.batches) : c.batches[b].left \subseteq 1 .. Len(c.batches[b].jobs)
LoopInv == \A w \in Workers : LoopOK(worker[w])

\* A job that is not wholly enqueued has no row, or is nowhere else.
NewInv == \A j \in Jobs :
  /\ enq[j] = "no" => /\ given[j] = "no" /\ ~ Has(ring, j)
                      /\ \A w \in Workers : ~ Has(worker[w].taken, j)
  /\ enq[j] \in {"no", "ring"} => /\ disk[j] = "none" /\ row[j] = "none" /\ "new" \notin seen[j]
                                  /\ j \notin reclaim

\* A clean job waits in one place at most, and a clean job that was handed out
\* in none; its row does not say that it is pending, and if it says processing
\* somebody will report its end.
WaitsOnce(j) ==
  /\ \A i, k \in 1 .. Len(ring) : ring[i] = j /\ ring[k] = j => i = k
  /\ \A w \in Workers : First(worker[w], j) => ~ Has(ring, j)
  /\ \A v, w \in Workers : First(worker[v], j) /\ First(worker[w], j) => v = w
OutOnce(j) ==
  /\ ~ Has(ring, j)
  /\ \A w \in Workers : ~ First(worker[w], j)
  /\ row[j] # "pending"
  /\ row[j] = "processing" => \E w \in Workers : Busy(worker[w], j)
JobInv == \A j \in Jobs :
  /\ given[j] # "twice"
  /\ Clean(j) => WaitsOnce(j)
  /\ given[j] = "once" => OutOnce(j)

QueueInv == QueueTypeOK /\ LoopInv /\ NewInv /\ JobInv

-----------------------------------------------------------------------------

\* What a job is in, in terms of the set of all jobs in memory.
LEMMA InHandIs ==
  ASSUME QueueTypeOK, LoopInv
  PROVE  \A j \in Jobs : j \in InHand <=>
           Has(ring, j) \/ \E w \in Workers : Busy(worker[w], j) \/ Has(worker[w].taken, j)
<1> SUFFICES ASSUME NEW j \in Jobs
             PROVE  j \in InHand <=>
                      Has(ring, j) \/ \E w \in Workers : Busy(worker[w], j) \/ Has(worker[w].taken, j)
  OBVIOUS
<1>1. j \in ToSet(ring) <=> Has(ring, j)
  <2>1. ring \in Seq(Jobs)
    BY DEF QueueTypeOK
  <2> QED
    BY <2>1 DEF ToSet, Has
<1>2. ASSUME NEW w \in Workers
      PROVE  j \in Held(w) \cup Unreported(w) <=> Busy(worker[w], j) \/ Has(worker[w].taken, j)
  <2>1. worker[w].batches \in Seq(BatchType) /\ worker[w].taken \in Seq(Jobs)
    BY DEF QueueTypeOK, WorkerType
  <2>2. j \in ToSet(worker[w].taken) <=> Has(worker[w].taken, j)
    BY <2>1 DEF ToSet, Has
  <2>3. j \in UNION {{b.jobs[i] : i \in b.left} : b \in ToSet(worker[w].batches)}
          <=> \E b \in 1 .. Len(worker[w].batches) :
                \E i \in worker[w].batches[b].left : worker[w].batches[b].jobs[i] = j
    BY <2>1 DEF ToSet
  <2> DEFINE inBatches == UNION {{b.jobs[i] : i \in b.left} : b \in ToSet(worker[w].batches)}
  <2>4. Held(w) = inBatches \cup ToSet(worker[w].taken)
    BY DEF Held
  <2>5. j \in inBatches <=> \E b \in 1 .. Len(worker[w].batches) :
          \E i \in worker[w].batches[b].left : worker[w].batches[b].jobs[i] = j
    BY <2>3
  <2>6. j \in Unreported(w) <=> j \in worker[w].ended
    BY DEF Unreported
  <2> HIDE DEF inBatches
  <2> QED
    BY <2>2, <2>4, <2>5, <2>6 DEF Busy
<1>3. j \in InHand <=> j \in ToSet(ring) \/ \E w \in Workers : j \in Held(w) \cup Unreported(w)
  BY DEF InHand
<1> QED
  BY <1>1, <1>2, <1>3

\* What Push() does.
Ops == {"new", "pending", "processing", "ended"}
LEMMA PushDoes ==
  ASSUME QueueTypeOK, NEW set, NEW what \in Ops, Push(set, what)
  PROVE  /\ row' \in [Jobs -> Status] /\ seen' \in [Jobs -> SUBSET Marked]
         /\ \A j \in Jobs : j \notin set => row'[j] = row[j] /\ seen'[j] = seen[j]
         /\ \A j \in Jobs : j \in set => row'[j] = IF what = "new" THEN "pending"
                                                 ELSE IF row[j] = "none" THEN "none" ELSE what
         /\ \A j \in Jobs : what # "new" /\ "new" \notin seen[j] => "new" \notin seen'[j]
<1>1. row \in [Jobs -> Status] /\ seen \in [Jobs -> SUBSET Marked]
  BY DEF QueueTypeOK
<1>2. \A j \in Jobs : row'[j] = (IF j \in set THEN Apply(row[j], what) ELSE row[j])
  BY DEF Push
<1>3. \A j \in Jobs : seen'[j] = (IF j \in set THEN seen[j] \cup ({what} \cap Marked) ELSE seen[j])
  BY DEF Push
<1>4. \A s \in Status : Apply(s, what) \in Status
  BY DEF Apply, Ops, Status
<1>5. row' \in [Jobs -> Status]
  <2>1. row' = [j \in Jobs |-> IF j \in set THEN Apply(row[j], what) ELSE row[j]]
    BY DEF Push
  <2> QED
    BY <2>1, <1>1, <1>4
<1>6. seen' \in [Jobs -> SUBSET Marked]
  <2>1. seen' = [j \in Jobs |-> IF j \in set THEN seen[j] \cup ({what} \cap Marked) ELSE seen[j]]
    BY DEF Push
  <2> QED
    BY <2>1, <1>1
<1>7. ASSUME NEW j \in Jobs, what # "new", "new" \notin seen[j]
      PROVE  "new" \notin seen'[j]
  BY <1>3, <1>7
<1> QED
  BY <1>2, <1>3, <1>5, <1>6, <1>7 DEF Apply

\* What Blame() does.
LEMMA CausedIs ==
  ASSUME QueueTypeOK, NEW set, NEW cause \in Causes
  PROVE  /\ Caused(set, cause) \in [Jobs -> {"no", "once", "twice"} \cup Causes]
         /\ \A j \in Jobs : j \notin set => Caused(set, cause)[j] = given[j]
         /\ \A j \in Jobs : j \in set => Caused(set, cause)[j] \in Causes
BY DEF QueueTypeOK, Caused

-----------------------------------------------------------------------------
(* What keeps the parts of the invariant *)

LEMMA LoopsKept ==
  ASSUME QueueTypeOK, LoopInv, NEW w \in Workers, NEW c, LoopOK(c),
         worker' = [worker EXCEPT ![w] = c]
  PROVE  /\ LoopInv'
         /\ worker'[w] = c /\ \A v \in Workers \ {w} : worker'[v] = worker[v]
<1>1. worker \in [Workers -> WorkerType]
  BY DEF QueueTypeOK
<1>2. worker'[w] = c /\ \A v \in Workers \ {w} : worker'[v] = worker[v]
  BY <1>1
<1> QED
  BY <1>2 DEF LoopInv

\* A step that enqueues nothing, and puts no job anywhere that is not enqueued.
LEMMA NewKept ==
  ASSUME NewInv, enq' = enq,
         \A j \in Jobs : enq[j] = "no" =>
           /\ given'[j] = given[j]
           /\ Has(ring', j) => Has(ring, j)
           /\ \A w \in Workers : Has(worker'[w].taken, j) => Has(worker[w].taken, j),
         \A j \in Jobs : enq[j] \in {"no", "ring"} =>
           disk'[j] = "none" /\ row'[j] = "none" /\ "new" \notin seen'[j] /\ j \notin reclaim'
  PROVE  NewInv'
<1> SUFFICES ASSUME NEW j \in Jobs
             PROVE  (/\ enq[j] = "no" => /\ given[j] = "no" /\ ~ Has(ring, j)
                                         /\ \A w \in Workers : ~ Has(worker[w].taken, j)
                     /\ enq[j] \in {"no", "ring"} =>
                          /\ disk[j] = "none" /\ row[j] = "none" /\ "new" \notin seen[j]
                          /\ j \notin reclaim)'
  BY DEF NewInv
<1>1. enq[j] = "no" => /\ given[j] = "no" /\ ~ Has(ring, j)
                       /\ \A w \in Workers : ~ Has(worker[w].taken, j)
  BY DEF NewInv
<1>2. enq'[j] = "no" => /\ given'[j] = "no" /\ ~ Has(ring', j)
                        /\ \A w \in Workers : ~ Has(worker'[w].taken, j)
  BY <1>1
<1> QED
  BY <1>2 DEF Has

\* A step that hands no job out and puts none in a place to wait.
LEMMA JobsKept ==
  ASSUME JobInv, ring' = ring,
         \A j \in Jobs : given'[j] = given[j] \/ given'[j] \in Causes,
         \A w \in Workers, j \in Jobs : First(worker'[w], j) => First(worker[w], j),
         \A j \in Jobs : given'[j] = "once" =>
           \/ row'[j] \notin {"pending", "processing"}
           \/ /\ row'[j] = row[j]
              /\ \A w \in Workers : Busy(worker[w], j) => Busy(worker'[w], j)
  PROVE  JobInv'
<1> SUFFICES ASSUME NEW j \in Jobs
             PROVE  (/\ given[j] # "twice"
                     /\ Clean(j) => WaitsOnce(j)
                     /\ given[j] = "once" => OutOnce(j))'
  BY DEF JobInv
<1>1. /\ given[j] # "twice"
      /\ Clean(j) => WaitsOnce(j)
      /\ given[j] = "once" => OutOnce(j)
  BY DEF JobInv
<1>2. given'[j] # "twice"
  BY <1>1 DEF Causes
<1>3. ASSUME Clean(j)' PROVE WaitsOnce(j)'
  <2>1. Clean(j)
    BY <1>3 DEF Clean, Causes
  <2> QED
    BY <2>1, <1>1 DEF WaitsOnce, Has
<1>4. ASSUME given'[j] = "once" PROVE OutOnce(j)'
  <2>1. given[j] = "once" /\ OutOnce(j)
    BY <1>1, <1>4 DEF Causes
  <2>2. ~ Has(ring, j)' /\ \A w \in Workers : ~ First(worker'[w], j)
    BY <2>1 DEF OutOnce, Has
  <2>3. row'[j] # "pending" /\ (row'[j] = "processing" => \E w \in Workers : Busy(worker'[w], j))
    BY <1>4, <2>1 DEF OutOnce
  <2> QED
    BY <2>2, <2>3 DEF OutOnce
<1> QED
  BY <1>2, <1>3, <1>4

-----------------------------------------------------------------------------
(* Enqueueing, reclaiming and pruning: the loops stay as they are *)

LEMMA EnqueueRowKeeps ==
  ASSUME QueueInv, NEW k \in Jobs, EnqueueRow(k)
  PROVE  QueueInv'
<1>1. QueueTypeOK /\ LoopInv /\ NewInv /\ JobInv
  BY DEF QueueInv
<1>2. /\ enq[k] = "no" /\ Push({k}, "new") /\ enq' = [enq EXCEPT ![k] = "row"]
      /\ UNCHANGED <<disk, ring, worker, reclaim, given>>
  BY DEF EnqueueRow
<1>3. /\ row' \in [Jobs -> Status] /\ seen' \in [Jobs -> SUBSET Marked]
      /\ \A j \in Jobs \ {k} : row'[j] = row[j] /\ seen'[j] = seen[j]
  BY <1>1, <1>2, PushDoes DEF Ops
<1>4. QueueTypeOK'
  BY <1>1, <1>2, <1>3 DEF QueueTypeOK
<1>5. LoopInv'
  BY <1>1, <1>2 DEF LoopInv
<1>6. /\ \A j \in Jobs \ {k} : enq'[j] = enq[j]
      /\ enq'[k] = "row"
  BY <1>1, <1>2 DEF QueueTypeOK
<1>7. NewInv'
  BY <1>1, <1>2, <1>3, <1>6 DEF NewInv, Has
<1>8. JobInv'
  <2>1. given[k] = "no"
    BY <1>1, <1>2 DEF NewInv
  <2>2. \A j \in Jobs : given'[j] = "once" => row'[j] = row[j]
    BY <1>2, <1>3, <2>1
  <2> QED
    BY <1>1, <1>2, <2>2, JobsKept
<1> QED
  BY <1>4, <1>5, <1>7, <1>8 DEF QueueInv

LEMMA EnqueueBatchRowKeeps ==
  ASSUME QueueInv, NEW k \in Jobs, EnqueueBatchRow(k)
  PROVE  QueueInv'
<1>1. QueueTypeOK /\ LoopInv /\ NewInv /\ JobInv
  BY DEF QueueInv
<1> DEFINE out == IF given[k] # "no" THEN {k} ELSE {}
<1>2. /\ enq[k] = "ring" /\ Push({k}, "new") /\ enq' = [enq EXCEPT ![k] = "yes"]
      /\ given' = Caused(out, "early")
      /\ UNCHANGED <<disk, ring, worker, reclaim>>
  BY DEF EnqueueBatchRow, Blame
<1>3. /\ row' \in [Jobs -> Status] /\ seen' \in [Jobs -> SUBSET Marked]
      /\ \A j \in Jobs \ {k} : row'[j] = row[j] /\ seen'[j] = seen[j]
  BY <1>1, <1>2, PushDoes DEF Ops
<1>4. /\ given' \in [Jobs -> {"no", "once", "twice"} \cup Causes]
      /\ \A j \in Jobs : given'[j] = given[j] \/ given'[j] \in Causes
      /\ \A j \in Jobs \ {k} : given'[j] = given[j]
      /\ given[k] # "no" => given'[k] \in Causes
  <2> "early" \in Causes
    BY DEF Causes
  <2> QED
    BY <1>1, <1>2, CausedIs
<1> HIDE DEF out
<1>5. QueueTypeOK'
  BY <1>1, <1>2, <1>3, <1>4 DEF QueueTypeOK
<1>6. LoopInv'
  BY <1>1, <1>2 DEF LoopInv
<1>7. /\ \A j \in Jobs \ {k} : enq'[j] = enq[j]
      /\ enq'[k] = "yes"
  BY <1>1, <1>2 DEF QueueTypeOK
<1>8. NewInv'
  BY <1>1, <1>2, <1>3, <1>4, <1>7 DEF NewInv, Has
<1>9. JobInv'
  <2>1. \A j \in Jobs : given'[j] = "once" => row'[j] = row[j]
    BY <1>3, <1>4 DEF Causes
  <2> QED
    BY <1>1, <1>2, <1>4, <2>1, JobsKept
<1> QED
  BY <1>5, <1>6, <1>8, <1>9 DEF QueueInv
LEMMA EnqueueRingKeeps ==
  ASSUME QueueInv, NEW k \in Jobs, EnqueueRing(k)
  PROVE  QueueInv'
<1>1. QueueTypeOK /\ LoopInv /\ NewInv /\ JobInv
  BY DEF QueueInv
<1> DEFINE again == IF Fits /\ (given[k] # "no" \/ k \in InHand) THEN {k} ELSE {}
<1>2. /\ enq[k] = "row" /\ PutInRing(k) /\ enq' = [enq EXCEPT ![k] = "yes"]
      /\ given' = Caused(again, "both")
      /\ UNCHANGED <<disk, row, seen, worker, reclaim>>
  BY DEF EnqueueRing, Blame, rows
<1>3. /\ given' \in [Jobs -> {"no", "once", "twice"} \cup Causes]
      /\ \A j \in Jobs : given'[j] = given[j] \/ given'[j] \in Causes
      /\ \A j \in Jobs \ {k} : given'[j] = given[j]
      /\ Fits /\ given'[k] \notin Causes => given[k] = "no" /\ k \notin InHand
  <2> "both" \in Causes
    BY DEF Causes
  <2> QED
    BY <1>1, <1>2, CausedIs
<1> HIDE DEF again
<1>4. /\ \A j \in Jobs \ {k} : enq'[j] = enq[j]
      /\ enq'[k] = "yes" /\ enq' \in [Jobs -> {"no", "row", "ring", "yes"}]
  BY <1>1, <1>2 DEF QueueTypeOK
<1>5. LoopInv'
  BY <1>1, <1>2 DEF LoopInv
<1>6. CASE ~ Fits
  <2>1. ring' = ring
    BY <1>2, <1>6 DEF PutInRing
  <2>2. QueueTypeOK'
    BY <1>1, <1>2, <1>3, <1>4, <2>1 DEF QueueTypeOK
  <2>3. NewInv'
    BY <1>1, <1>2, <1>3, <1>4, <2>1 DEF NewInv, Has
  <2>4. JobInv'
    BY <1>1, <1>2, <1>3, <2>1, JobsKept
  <2> QED
    BY <1>5, <2>2, <2>3, <2>4 DEF QueueInv
<1>7. CASE Fits
  <2>1. ring' = Append(ring, k) /\ ring \in Seq(Jobs) /\ Len(ring) < RingCap /\ RingCap \in Nat
    BY <1>1, <1>2, <1>7, JobQueueAssumption DEF PutInRing, Fits, QueueTypeOK
  <2>2. /\ ring' \in Seq(Jobs) /\ Len(ring') = Len(ring) + 1
        /\ \A i \in 1 .. Len(ring) : ring'[i] = ring[i]
        /\ ring'[Len(ring) + 1] = k
    BY <2>1
  <2>3. \A j \in Jobs \ {k} : Has(ring', j) => Has(ring, j)
    BY <2>1, <2>2 DEF Has
  <2>4. QueueTypeOK'
    BY <1>1, <1>2, <1>3, <1>4, <2>1, <2>2 DEF QueueTypeOK
  <2>5. NewInv'
    BY <1>1, <1>2, <1>3, <1>4, <2>3 DEF NewInv
  <2>6. JobInv'
    <3> SUFFICES ASSUME NEW j \in Jobs
                 PROVE  (/\ given[j] # "twice"
                         /\ Clean(j) => WaitsOnce(j)
                         /\ given[j] = "once" => OutOnce(j))'
      BY DEF JobInv
    <3>1. /\ given[j] # "twice"
          /\ Clean(j) => WaitsOnce(j)
          /\ given[j] = "once" => OutOnce(j)
      BY <1>1 DEF JobInv
    <3>2. given'[j] # "twice"
      BY <1>3, <3>1 DEF Causes
    <3>3. ASSUME Clean(j)' PROVE WaitsOnce(j)'
      <4>1. Clean(j) /\ given[j] = given'[j]
        BY <1>3, <3>3 DEF Clean, Causes
      <4>2. CASE j = k
        <5>1. ~ Has(ring, k) /\ \A w \in Workers : ~ Has(worker[w].taken, k)
          BY <1>1, <1>3, <1>7, <3>3, <4>2, InHandIs DEF Clean, Causes
        <5>2. \A w \in Workers : ~ First(worker'[w], k)
          BY <1>2, <5>1 DEF First, Has
        <5>3. \A i, m \in 1 .. Len(ring') : ring'[i] = k /\ ring'[m] = k => i = m
          BY <2>1, <2>2, <5>1 DEF Has
        <5> QED
          BY <4>2, <5>2, <5>3 DEF WaitsOnce
      <4>3. CASE j # k
        <5>1. \A i, m \in 1 .. Len(ring') : ring'[i] = j /\ ring'[m] = j => i = m
          BY <2>1, <2>2, <3>1, <4>1, <4>3 DEF WaitsOnce
        <5>2. \A w \in Workers : First(worker'[w], j) => ~ Has(ring', j)
          BY <1>2, <2>3, <3>1, <4>1, <4>3 DEF WaitsOnce
        <5> QED
          BY <1>2, <3>1, <4>1, <5>1, <5>2 DEF WaitsOnce
      <4> QED
        BY <4>2, <4>3
    <3>4. ASSUME given'[j] = "once" PROVE OutOnce(j)'
      <4>1. j # k /\ given[j] = "once" /\ OutOnce(j)
        BY <1>3, <1>7, <3>1, <3>4 DEF Causes
      <4> QED
        BY <1>2, <2>3, <4>1 DEF OutOnce
    <3> QED
      BY <3>2, <3>3, <3>4
  <2> QED
    BY <1>5, <2>4, <2>5, <2>6 DEF QueueInv
<1> QED
  BY <1>6, <1>7

LEMMA EnqueueBatchRingKeeps ==
  ASSUME QueueInv, NEW k \in Jobs, EnqueueBatchRing(k)
  PROVE  QueueInv'
<1>1. QueueTypeOK /\ LoopInv /\ NewInv /\ JobInv
  BY DEF QueueInv
<1>2. /\ enq[k] = "no" /\ PutInRing(k) /\ enq' = [enq EXCEPT ![k] = "ring"]
      /\ UNCHANGED <<disk, row, seen, worker, reclaim, given>>
  BY DEF EnqueueBatchRing, rows
<1>3. /\ \A j \in Jobs \ {k} : enq'[j] = enq[j]
      /\ enq'[k] = "ring" /\ enq' \in [Jobs -> {"no", "row", "ring", "yes"}]
  BY <1>1, <1>2 DEF QueueTypeOK
<1>4. given[k] = "no" /\ ~ Has(ring, k) /\ \A w \in Workers : ~ Has(worker[w].taken, k)
  BY <1>1, <1>2 DEF NewInv
<1>5. LoopInv'
  BY <1>1, <1>2 DEF LoopInv
<1>6. /\ ring' \in Seq(Jobs) /\ Len(ring') <= RingCap
      /\ Len(ring') \in {Len(ring), Len(ring) + 1}
      /\ \A i \in 1 .. Len(ring) : ring'[i] = ring[i]
      /\ Len(ring') = Len(ring) + 1 => ring'[Len(ring) + 1] = k
  BY <1>1, <1>2, JobQueueAssumption DEF PutInRing, Fits, QueueTypeOK
<1>7. ring \in Seq(Jobs)
  BY <1>1 DEF QueueTypeOK
<1>8. \A j \in Jobs \ {k} : Has(ring', j) => Has(ring, j)
  BY <1>6, <1>7 DEF Has
<1>9. QueueTypeOK'
  BY <1>1, <1>2, <1>3, <1>6 DEF QueueTypeOK
<1>10. NewInv'
  BY <1>1, <1>2, <1>3, <1>4, <1>8 DEF NewInv
<1>11. JobInv'
  <2> SUFFICES ASSUME NEW j \in Jobs
               PROVE  (/\ given[j] # "twice"
                       /\ Clean(j) => WaitsOnce(j)
                       /\ given[j] = "once" => OutOnce(j))'
    BY DEF JobInv
  <2>1. /\ given[j] # "twice"
        /\ Clean(j) => WaitsOnce(j)
        /\ given[j] = "once" => OutOnce(j)
    BY <1>1 DEF JobInv
  <2>2. ASSUME Clean(j)' PROVE WaitsOnce(j)'
    <3>1. WaitsOnce(j)
      BY <1>2, <2>1, <2>2 DEF Clean
    <3>2. \A i, m \in 1 .. Len(ring') : ring'[i] = j /\ ring'[m] = j => i = m
      BY <1>4, <1>6, <1>7, <3>1 DEF WaitsOnce, Has
    <3>3. \A w \in Workers : First(worker'[w], j) => ~ Has(ring', j)
      <4>1. CASE j = k
        BY <1>2, <1>4, <4>1 DEF First, Has
      <4>2. CASE j # k
        BY <1>2, <1>8, <3>1, <4>2 DEF WaitsOnce
      <4> QED
        BY <4>1, <4>2
    <3> QED
      BY <1>2, <3>1, <3>2, <3>3 DEF WaitsOnce
  <2>3. ASSUME given'[j] = "once" PROVE OutOnce(j)'
    <3>1. j # k /\ OutOnce(j)
      BY <1>2, <1>4, <2>1, <2>3
    <3> QED
      BY <1>2, <1>8, <3>1 DEF OutOnce
  <2> QED
    BY <1>2, <2>1, <2>2, <2>3
<1> QED
  BY <1>5, <1>9, <1>10, <1>11 DEF QueueInv
LEMMA ReclaimPushKeeps ==
  ASSUME QueueInv, NEW k \in Jobs, ReclaimPush(k)
  PROVE  QueueInv'
<1>1. QueueTypeOK /\ LoopInv /\ NewInv /\ JobInv
  BY DEF QueueInv
<1> DEFINE late == IF k \in InHand \/ row[k] # "processing" THEN {k} ELSE {}
<1>2. /\ k \in reclaim /\ Push({k}, "pending") /\ reclaim' = reclaim \ {k}
      /\ given' = Caused(late, "late")
      /\ UNCHANGED <<disk, ring, enq, worker>>
  BY DEF ReclaimPush, Blame
<1>3. /\ row' \in [Jobs -> Status] /\ seen' \in [Jobs -> SUBSET Marked]
      /\ \A j \in Jobs \ {k} : row'[j] = row[j] /\ seen'[j] = seen[j]
  BY <1>1, <1>2, PushDoes DEF Ops
<1>4. /\ given' \in [Jobs -> {"no", "once", "twice"} \cup Causes]
      /\ \A j \in Jobs : given'[j] = given[j] \/ given'[j] \in Causes
      /\ \A j \in Jobs \ {k} : given'[j] = given[j]
      /\ given'[k] \notin Causes => k \notin InHand /\ row[k] = "processing"
  <2> "late" \in Causes
    BY DEF Causes
  <2> QED
    BY <1>1, <1>2, CausedIs
<1> HIDE DEF late
<1>5. QueueTypeOK'
  BY <1>1, <1>2, <1>3, <1>4 DEF QueueTypeOK
<1>6. LoopInv'
  BY <1>1, <1>2 DEF LoopInv
<1>7. enq[k] \notin {"no", "ring"}
  BY <1>1, <1>2 DEF NewInv
<1>8. NewInv'
  <2>1. \A j \in Jobs : enq[j] \in {"no", "ring"} =>
          disk'[j] = "none" /\ row'[j] = "none" /\ "new" \notin seen'[j] /\ j \notin reclaim'
    BY <1>1, <1>2, <1>3, <1>7 DEF NewInv
  <2>2. \A j \in Jobs : enq[j] = "no" => given'[j] = given[j]
    BY <1>4, <1>7
  <2> QED
    BY <1>1, <1>2, <2>1, <2>2, NewKept
<1>9. JobInv'
  <2>1. \A j \in Jobs : given'[j] = "once" => j # k
    <3> SUFFICES ASSUME given'[k] = "once"
                 PROVE  FALSE
      OBVIOUS
    <3>1. given[k] = "once" /\ k \notin InHand /\ row[k] = "processing"
      BY <1>4 DEF Causes
    <3>2. \E w \in Workers : Busy(worker[w], k)
      BY <1>1, <3>1 DEF JobInv, OutOnce
    <3> QED
      BY <1>1, <3>1, <3>2, InHandIs
  <2>2. \A j \in Jobs : given'[j] = "once" => row'[j] = row[j]
    BY <1>3, <2>1
  <2> QED
    BY <1>1, <1>2, <1>4, <2>2, JobsKept
<1> QED
  BY <1>5, <1>6, <1>8, <1>9 DEF QueueInv

LEMMA PruneKeeps ==
  ASSUME QueueInv, NEW k \in Jobs, Prune(k)
  PROVE  QueueInv'
<1>1. QueueTypeOK /\ LoopInv /\ NewInv /\ JobInv
  BY DEF QueueInv
<1>2. /\ disk' = [disk EXCEPT ![k] = "none"] /\ row' = [row EXCEPT ![k] = "none"]
      /\ UNCHANGED <<seen, ring, enq, worker, reclaim, given>>
  BY DEF Prune
<1>3. QueueTypeOK'
  BY <1>1, <1>2 DEF QueueTypeOK, Status
<1>4. LoopInv'
  BY <1>1, <1>2 DEF LoopInv
<1>5. \A j \in Jobs : /\ disk'[j] \in {disk[j], "none"} /\ row'[j] \in {row[j], "none"}
  BY <1>1, <1>2 DEF QueueTypeOK
<1>6. NewInv'
  BY <1>1, <1>2, <1>5 DEF NewInv, Has
<1>7. JobInv'
  BY <1>1, <1>2, <1>5, JobsKept
<1> QED
  BY <1>3, <1>4, <1>6, <1>7 DEF QueueInv

LEMMA FlushKeeps ==
  ASSUME QueueInv, Flush
  PROVE  QueueInv'
<1>1. QueueTypeOK /\ LoopInv /\ NewInv /\ JobInv
  BY DEF QueueInv
<1>2. /\ disk' = row /\ seen' = [j \in Jobs |-> {}]
      /\ UNCHANGED <<row, ring, enq, worker, reclaim, given>>
  BY DEF Flush
<1>3. QueueTypeOK'
  BY <1>1, <1>2 DEF QueueTypeOK
<1>4. LoopInv'
  BY <1>1, <1>2 DEF LoopInv
<1>5. NewInv'
  BY <1>1, <1>2 DEF NewInv, Has
<1>6. JobInv'
  BY <1>1, <1>2, JobsKept
<1> QED
  BY <1>3, <1>4, <1>5, <1>6 DEF QueueInv

LEMMA ReclaimReadKeeps ==
  ASSUME QueueInv, ReclaimRead
  PROVE  QueueInv'
<1>1. QueueTypeOK /\ LoopInv /\ NewInv /\ JobInv
  BY DEF QueueInv
<1>2. /\ reclaim' \subseteq Processing
      /\ UNCHANGED <<disk, row, seen, ring, enq, worker, given>>
  BY DEF ReclaimRead, rows
<1>3. reclaim' \subseteq Jobs /\ \A j \in reclaim' : disk[j] = "processing"
  BY <1>2 DEF Processing
<1>4. QueueTypeOK'
  BY <1>1, <1>2, <1>3 DEF QueueTypeOK
<1>5. LoopInv'
  BY <1>1, <1>2 DEF LoopInv
<1>6. NewInv'
  BY <1>1, <1>2, <1>3 DEF NewInv, Has
<1>7. JobInv'
  BY <1>1, <1>2, JobsKept
<1> QED
  BY <1>4, <1>5, <1>6, <1>7 DEF QueueInv

\* Nothing the invariant speaks of changes.
LEMMA StutterKeeps ==
  ASSUME QueueInv, UNCHANGED <<disk, row, seen, ring, enq, worker, reclaim, given>>
  PROVE  QueueInv'
BY DEF QueueInv, QueueTypeOK, LoopInv, NewInv, Has, JobInv, Clean, WaitsOnce, OutOnce

-----------------------------------------------------------------------------
(* The loops: steps that hand out and read no job *)

\* A step of one loop that keeps the jobs it has and may report some ended.
LEMMA LoopStepKeeps ==
  ASSUME QueueInv, NEW w \in Workers, NEW c \in WorkerType, NEW done \in SUBSET Jobs,
         Push(done, "ended") \/ (row' = row /\ seen' = seen /\ done = {}),
         worker' = [worker EXCEPT ![w] = c],
         LoopOK(c), c.inFlight <= Concurrency,
         \A j \in Jobs : First(c, j) => First(worker[w], j),
         \A j \in Jobs : Has(c.taken, j) => Has(worker[w].taken, j),
         \A j \in Jobs : Busy(worker[w], j) => Busy(c, j) \/ j \in done,
         UNCHANGED <<disk, ring, enq, reclaim, given>>
  PROVE  QueueInv'
<1>1. QueueTypeOK /\ LoopInv /\ NewInv /\ JobInv
  BY DEF QueueInv
<1>2. /\ row' \in [Jobs -> Status] /\ seen' \in [Jobs -> SUBSET Marked]
      /\ \A j \in Jobs : j \notin done => row'[j] = row[j]
      /\ \A j \in Jobs : j \in done => row'[j] = IF row[j] = "none" THEN "none" ELSE "ended"
      /\ \A j \in Jobs : "new" \notin seen[j] => "new" \notin seen'[j]
  <2>1. CASE Push(done, "ended")
    BY <1>1, <2>1, PushDoes DEF Ops
  <2>2. CASE row' = row /\ seen' = seen /\ done = {}
    BY <1>1, <2>2 DEF QueueTypeOK
  <2> QED
    BY <2>1, <2>2
<1>3. LoopInv' /\ worker'[w] = c /\ \A v \in Workers \ {w} : worker'[v] = worker[v]
  BY <1>1, LoopsKept
<1>4. QueueTypeOK'
  <2>1. worker' \in [Workers -> WorkerType]
    BY <1>1 DEF QueueTypeOK
  <2>2. \A v \in Workers : worker'[v].inFlight <= Concurrency
    BY <1>1, <1>3 DEF QueueTypeOK
  <2> QED
    BY <1>1, <1>2, <2>1, <2>2 DEF QueueTypeOK
<1>5. NewInv'
  <2>1. \A j \in Jobs, v \in Workers : Has(worker'[v].taken, j) => Has(worker[v].taken, j)
    BY <1>3
  <2>2. \A j \in Jobs : enq[j] \in {"no", "ring"} =>
          disk'[j] = "none" /\ row'[j] = "none" /\ "new" \notin seen'[j] /\ j \notin reclaim'
    BY <1>1, <1>2 DEF NewInv
  <2> QED
    BY <1>1, <2>1, <2>2, NewKept
<1>6. JobInv'
  <2>1. \A v \in Workers, j \in Jobs : First(worker'[v], j) => First(worker[v], j)
    BY <1>3
  <2>2. \A j \in Jobs : given'[j] = "once" =>
          \/ row'[j] \notin {"pending", "processing"}
          \/ /\ row'[j] = row[j]
             /\ \A v \in Workers : Busy(worker[v], j) => Busy(worker'[v], j)
    BY <1>2, <1>3
  <2> QED
    BY <1>1, <2>1, <2>2, JobsKept
<1> QED
  BY <1>3, <1>4, <1>5, <1>6 DEF QueueInv
\* Steps of a loop that only change where it is.
LEMMA GotoKeeps ==
  ASSUME QueueInv, NEW w \in Workers, NEW pc \in Pcs, Goto(w, pc),
         worker[w].pc # "commit" /\ pc \notin {"idle", "read", "commit"},
         UNCHANGED <<disk, row, seen, ring, enq, reclaim, given>>
  PROVE  QueueInv'
<1> DEFINE c == [worker[w] EXCEPT !.pc = pc]
<1>1. QueueTypeOK /\ LoopInv
  BY DEF QueueInv
<1>2. worker[w] \in WorkerType /\ worker[w].inFlight <= Concurrency
  BY <1>1 DEF QueueTypeOK
<1>3. worker' = [worker EXCEPT ![w] = c]
  BY DEF Goto
<1>4. /\ c \in WorkerType /\ c.pc = pc /\ c.batches = worker[w].batches
      /\ c.inFlight = worker[w].inFlight
      /\ c.taken = worker[w].taken /\ c.now = worker[w].now /\ c.ended = worker[w].ended
  BY <1>2 DEF WorkerType
<1> HIDE DEF c
<1>5. LoopOK(c)
  BY <1>1, <1>4 DEF LoopInv, LoopOK
<1>6. \A j \in Jobs : /\ First(c, j) <=> First(worker[w], j)
                      /\ Has(c.taken, j) <=> Has(worker[w].taken, j)
                      /\ Busy(c, j) <=> Busy(worker[w], j)
  BY <1>4 DEF First, Busy
<1>7. /\ {} \in SUBSET Jobs
      /\ Push({}, "ended") \/ (row' = row /\ seen' = seen /\ {} = {})
      /\ \A j \in Jobs : Busy(worker[w], j) => Busy(c, j) \/ j \in {}
  BY <1>6
<1> QED
  BY <1>2, <1>3, <1>4, <1>5, <1>6, <1>7, LoopStepKeeps

LEMMA ProcessKeeps ==
  ASSUME QueueInv, NEW w \in Workers, Process(w)
  PROVE  QueueInv'
<1>1. /\ worker[w].pc = "idle" /\ Goto(w, "loop")
      /\ UNCHANGED <<disk, row, seen, ring, enq, reclaim, given>>
  BY DEF Process, rows
<1> QED
  BY <1>1, GotoKeeps DEF Pcs

LEMMA WaitForRoomKeeps ==
  ASSUME QueueInv, NEW w \in Workers, WaitForRoom(w)
  PROVE  QueueInv'
<1>1. /\ worker[w].pc = "loop" /\ Goto(w, "race")
      /\ UNCHANGED <<disk, row, seen, ring, enq, reclaim, given>>
  BY DEF WaitForRoom, rows
<1> QED
  BY <1>1, GotoKeeps DEF Pcs

LEMMA ExitKeeps ==
  ASSUME QueueInv, NEW w \in Workers, Exit(w)
  PROVE  QueueInv'
<1>1. /\ worker[w].pc = "loop" /\ Goto(w, "drain")
      /\ UNCHANGED <<disk, row, seen, ring, enq, reclaim, given>>
  BY DEF Exit, rows
<1> QED
  BY <1>1, GotoKeeps DEF Pcs

\* The limit is what the loop may still have in flight, at most.
LEMMA LimitFits ==
  ASSUME QueueTypeOK, NEW w \in Workers, Ready(w)
  PROVE  /\ Limit(w) \in Nat \ {0}
         /\ Limit(w) + worker[w].inFlight <= Concurrency
<1>1. worker[w].inFlight \in Int
  BY DEF QueueTypeOK, WorkerType
<1> QED
  BY <1>1, JobQueueAssumption DEF Ready, Limit, SmallerOf

LEMMA AskKeeps ==
  ASSUME QueueInv, NEW w \in Workers, Ask(w)
  PROVE  QueueInv'
<1> DEFINE c == [worker[w] EXCEPT !.pc = "read", !.now = Limit(w)]
<1>1. QueueTypeOK /\ LoopInv
  BY DEF QueueInv
<1>2. worker[w] \in WorkerType /\ worker[w].inFlight <= Concurrency
  BY <1>1 DEF QueueTypeOK
<1>3. /\ Ready(w) /\ worker[w].pc = "loop" /\ worker' = [worker EXCEPT ![w] = c]
      /\ UNCHANGED <<disk, row, seen, ring, enq, reclaim, given>>
  BY DEF Ask, Ready, rows
<1>4. Limit(w) \in Nat /\ Limit(w) + worker[w].inFlight <= Concurrency
  BY <1>1, <1>3, LimitFits
<1>5. /\ c \in WorkerType /\ c.pc = "read" /\ c.batches = worker[w].batches
      /\ c.inFlight = worker[w].inFlight
      /\ c.taken = worker[w].taken /\ c.now = Limit(w) /\ c.ended = worker[w].ended
  BY <1>2, <1>4 DEF WorkerType, Pcs
<1> HIDE DEF c
<1>6. c.taken = <<>>
  BY <1>1, <1>3, <1>5 DEF LoopInv, LoopOK
<1>7. LoopOK(c)
  BY <1>1, <1>4, <1>5, <1>6 DEF LoopInv, LoopOK
<1>8. \A j \in Jobs : /\ ~ First(c, j) /\ ~ Has(c.taken, j)
                      /\ Busy(c, j) <=> Busy(worker[w], j)
  BY <1>5, <1>6 DEF First, Busy, Has
<1>9. /\ {} \in SUBSET Jobs
      /\ Push({}, "ended") \/ (row' = row /\ seen' = seen /\ {} = {})
      /\ \A j \in Jobs : Busy(worker[w], j) => Busy(c, j) \/ j \in {}
  BY <1>3, <1>8
<1> QED
  BY <1>2, <1>3, <1>5, <1>7, <1>8, <1>9, LoopStepKeeps

\* Steps of a loop that report what has ended.
LEMMA ReportKeeps ==
  ASSUME QueueInv, NEW w \in Workers, NEW c \in WorkerType, Reports(w),
         worker' = [worker EXCEPT ![w] = c],
         /\ c.ended = {} /\ c.batches = worker[w].batches
         /\ c.inFlight = worker[w].inFlight /\ c.taken = worker[w].taken
         /\ c.now = worker[w].now \/ worker[w].taken = <<>>
         /\ LoopOK(c),
         UNCHANGED <<disk, ring, enq, reclaim, given>>
  PROVE  QueueInv'
<1>1. QueueTypeOK /\ LoopInv
  BY DEF QueueInv
<1>2. worker[w] \in WorkerType /\ worker[w].inFlight <= Concurrency
  BY <1>1 DEF QueueTypeOK
<1>3. Push(worker[w].ended, "ended") /\ worker[w].ended \in SUBSET Jobs
  BY <1>2 DEF Reports, Unreported, WorkerType
<1>4. \A j \in Jobs : /\ First(c, j) => First(worker[w], j)
                      /\ Has(c.taken, j) => Has(worker[w].taken, j)
                      /\ Busy(worker[w], j) => Busy(c, j) \/ j \in worker[w].ended
  BY DEF First, Busy
<1> QED
  BY <1>2, <1>3, <1>4, LoopStepKeeps

LEMMA FindNothingKeeps ==
  ASSUME QueueInv, NEW w \in Workers, FindNothing(w)
  PROVE  QueueInv'
<1> DEFINE pc == IF worker[w].batches = <<>> THEN "loop" ELSE "race"
<1> DEFINE c == [Cleared(worker[w]) EXCEPT !.pc = pc, !.now = 0]
<1>1. QueueTypeOK /\ LoopInv
  BY DEF QueueInv
<1>2. worker[w] \in WorkerType
  BY <1>1 DEF QueueTypeOK
<1>3. /\ worker[w].pc = "read" /\ Reports(w) /\ worker' = [worker EXCEPT ![w] = c]
      /\ UNCHANGED <<disk, ring, enq, reclaim, given>>
  BY DEF FindNothing
<1>4. /\ c \in WorkerType /\ c.pc \in {"loop", "race"} /\ c.batches = worker[w].batches
      /\ c.inFlight = worker[w].inFlight
      /\ c.taken = worker[w].taken /\ c.ended = {}
  BY <1>2 DEF WorkerType, Pcs, Cleared
<1> HIDE DEF c, pc
<1>5. worker[w].taken = <<>>
  BY <1>1, <1>3 DEF LoopInv, LoopOK
<1>6. LoopOK(c)
  BY <1>1, <1>4, <1>5 DEF LoopInv, LoopOK
<1> QED
  BY <1>3, <1>4, <1>5, <1>6, ReportKeeps

LEMMA FlushTimerKeeps ==
  ASSUME QueueInv, NEW w \in Workers, FlushTimer(w)
  PROVE  QueueInv'
<1> DEFINE c == Cleared(worker[w])
<1>1. QueueTypeOK /\ LoopInv
  BY DEF QueueInv
<1>2. worker[w] \in WorkerType
  BY <1>1 DEF QueueTypeOK
<1>3. /\ Reports(w) /\ worker' = [worker EXCEPT ![w] = c]
      /\ UNCHANGED <<disk, ring, enq, reclaim, given>>
  BY DEF FlushTimer
<1>4. /\ c \in WorkerType /\ c.pc = worker[w].pc /\ c.batches = worker[w].batches
      /\ c.inFlight = worker[w].inFlight
      /\ c.taken = worker[w].taken /\ c.now = worker[w].now /\ c.ended = {}
  BY <1>2 DEF WorkerType, Cleared
<1> HIDE DEF c
<1>5. LoopOK(c)
  BY <1>1, <1>4 DEF LoopInv, LoopOK
<1> QED
  BY <1>3, <1>4, <1>5, ReportKeeps

LEMMA CleanupKeeps ==
  ASSUME QueueInv, NEW w \in Workers, Cleanup(w)
  PROVE  QueueInv'
<1> DEFINE c == [Cleared(worker[w]) EXCEPT !.pc = "idle"]
<1>1. QueueTypeOK /\ LoopInv
  BY DEF QueueInv
<1>2. worker[w] \in WorkerType
  BY <1>1 DEF QueueTypeOK
<1>3. /\ worker[w].pc = "drain" /\ worker[w].batches = <<>>
      /\ Reports(w) /\ worker' = [worker EXCEPT ![w] = c]
      /\ UNCHANGED <<disk, ring, enq, reclaim, given>>
  BY DEF Cleanup
<1>4. /\ c \in WorkerType /\ c.pc = "idle" /\ c.batches = worker[w].batches
      /\ c.inFlight = worker[w].inFlight
      /\ c.taken = worker[w].taken /\ c.now = worker[w].now /\ c.ended = {}
  BY <1>2 DEF WorkerType, Pcs, Cleared
<1> HIDE DEF c
<1>5. LoopOK(c)
  BY <1>1, <1>3, <1>4 DEF LoopInv, LoopOK
<1> QED
  BY <1>3, <1>4, <1>5, ReportKeeps

LEMMA CrashKeeps ==
  ASSUME QueueInv, Crash
  PROVE  QueueInv'
<1>1. QueueTypeOK
  BY DEF QueueInv
<1>2. /\ row' = disk /\ seen' = [j \in Jobs |-> {}] /\ ring' = <<>> /\ reclaim' = {}
      /\ enq' = [j \in Jobs |-> IF disk[j] = "none" /\ enq[j] # "yes" THEN "no" ELSE "yes"]
      /\ worker' = [w \in Workers |-> Idle]
      /\ given' = [j \in Jobs |-> "no"] /\ disk' = disk
  BY DEF Crash
<1>3. /\ Idle \in WorkerType /\ Idle.pc = "idle" /\ Idle.batches = <<>> /\ Idle.inFlight = 0
      /\ Idle.taken = <<>> /\ Idle.now = 0 /\ Idle.ended = {}
  BY DEF Idle, WorkerType, Pcs
<1>4. QueueTypeOK'
  BY <1>1, <1>2, <1>3, JobQueueAssumption DEF QueueTypeOK
<1>5. LoopInv'
  BY <1>2, <1>3 DEF LoopInv, LoopOK, NoRepeat
<1>6. \A w \in Workers, j \in Jobs : ~ First(worker'[w], j) /\ ~ Has(worker'[w].taken, j)
  BY <1>2, <1>3 DEF First, Has
<1>7. \A j \in Jobs : ~ Has(ring', j)
  BY <1>2 DEF Has
<1>8. NewInv'
  BY <1>2, <1>6, <1>7 DEF NewInv
<1>9. JobInv'
  BY <1>2, <1>6 DEF JobInv, Clean, WaitsOnce
<1> QED
  BY <1>4, <1>5, <1>8, <1>9 DEF QueueInv
\* What taking an element out of a sequence leaves.
LEMMA RemovedAt ==
  ASSUME NEW T, NEW s \in Seq(T), NEW i \in 1 .. Len(s)
  PROVE  /\ RemoveAt(s, i) \in Seq(T) /\ Len(RemoveAt(s, i)) = Len(s) - 1
         /\ \A m \in 1 .. Len(s) : m < i => RemoveAt(s, i)[m] = s[m]
         /\ \A m \in 1 .. Len(s) : m > i => RemoveAt(s, i)[m - 1] = s[m]
         /\ \A m \in 1 .. Len(s) - 1 : RemoveAt(s, i)[m] = s[m] \/ RemoveAt(s, i)[m] = s[m + 1]
<1> DEFINE prefix == SubSeq(s, 1, i - 1)
<1> DEFINE after == SubSeq(s, i + 1, Len(s))
<1>1. /\ prefix \in Seq(T) /\ Len(prefix) = i - 1
      /\ \A m \in 1 .. i - 1 : prefix[m] = s[m]
  OBVIOUS
<1>2. /\ after \in Seq(T) /\ Len(after) = Len(s) - i
      /\ \A m \in 1 .. Len(s) - i : after[m] = s[m + i]
  OBVIOUS
<1>3. RemoveAt(s, i) = prefix \o after
  BY DEF RemoveAt
<1> HIDE DEF prefix, after
<1>4. /\ prefix \o after \in Seq(T) /\ Len(prefix \o after) = Len(prefix) + Len(after)
      /\ \A m \in 1 .. Len(prefix) + Len(after) :
           (prefix \o after)[m] = IF m <= Len(prefix) THEN prefix[m] ELSE after[m - Len(prefix)]
  <2>1. prefix \in Seq(T) /\ after \in Seq(T)
    BY <1>1, <1>2
  <2> QED
    BY <2>1
<1>5. Len(s) \in Nat /\ i \in 1 .. Len(s) /\ i - 1 + (Len(s) - i) = Len(s) - 1
  OBVIOUS
<1>6. \A m \in 1 .. Len(s) - 1 :
        RemoveAt(s, i)[m] = IF m <= i - 1 THEN prefix[m] ELSE after[m - (i - 1)]
  BY <1>1, <1>2, <1>3, <1>4, <1>5
<1>7. RemoveAt(s, i) \in Seq(T) /\ Len(RemoveAt(s, i)) = Len(s) - 1
  BY <1>1, <1>2, <1>3, <1>4, <1>5
<1>8. ASSUME NEW m \in 1 .. Len(s) - 1
      PROVE  RemoveAt(s, i)[m] = IF m < i THEN s[m] ELSE s[m + 1]
  <2>1. CASE m < i
    <3>1. m \in 1 .. i - 1 /\ m <= i - 1
      BY <1>5, <2>1
    <3> QED
      BY <1>1, <1>6, <2>1, <3>1
  <2>2. CASE ~ (m < i)
    <3>1. m - (i - 1) \in 1 .. Len(s) - i /\ ~ (m <= i - 1) /\ m - (i - 1) + i = m + 1
      BY <1>5, <2>2
    <3>2. after[m - (i - 1)] = s[m - (i - 1) + i]
      BY <1>2, <3>1
    <3> QED
      BY <1>6, <2>2, <3>1, <3>2
  <2> QED
    BY <2>1, <2>2
<1>9. \A m \in 1 .. Len(s) : m < i => RemoveAt(s, i)[m] = s[m]
  BY <1>5, <1>8
<1>10. ASSUME NEW m \in 1 .. Len(s), m > i
       PROVE  RemoveAt(s, i)[m - 1] = s[m]
  <2>1. m - 1 \in 1 .. Len(s) - 1 /\ ~ (m - 1 < i) /\ m - 1 + 1 = m
    BY <1>5, <1>10
  <2> QED
    BY <1>8, <2>1
<1> QED
  BY <1>7, <1>8, <1>9, <1>10

LEMMA HandlerEndsKeeps ==
  ASSUME QueueInv, NEW w \in Workers, HandlersEnd(w)
  PROVE  QueueInv'
<1>1. QueueTypeOK /\ LoopInv
  BY DEF QueueInv
<1>2. worker[w] \in WorkerType /\ worker[w].inFlight <= Concurrency
  BY <1>1 DEF QueueTypeOK
<1> DEFINE old == worker[w]
<1>3. /\ old.batches \in Seq(BatchType) /\ old.inFlight \in Int /\ old.taken \in Seq(Jobs)
      /\ old.now \in Nat /\ old.ended \in SUBSET Jobs /\ old.pc \in Pcs
  BY <1>2 DEF WorkerType
<1>0. PICK b \in 1 .. Len(old.batches) : \E i \in old.batches[b].left : HandlerEnds(w, b, i)
  BY <1>3 DEF HandlersEnd
<1>4. PICK i \in old.batches[b].left : HandlerEnds(w, b, i)
  BY <1>0
<1> DEFINE batch == old.batches[b]
<1> DEFINE job == batch.jobs[i]
<1>5. /\ batch \in BatchType /\ batch.jobs \in Seq(Jobs) /\ batch.left \in SUBSET Nat
      /\ batch.left \subseteq 1 .. Len(batch.jobs) /\ job \in Jobs /\ Len(batch.jobs) \in Nat
  <2>1. batch \in BatchType
    BY <1>3
  <2>2. batch.jobs \in Seq(Jobs) /\ batch.left \in SUBSET Nat
    BY <2>1 DEF BatchType
  <2>3. batch.left \subseteq 1 .. Len(batch.jobs)
    BY <1>1 DEF LoopInv, LoopOK
  <2> QED
    BY <1>4, <2>1, <2>2, <2>3
<1>6. UNCHANGED <<disk, row, seen, ring, enq, reclaim, given>>
  BY <1>4 DEF HandlerEnds, rows
<1> DEFINE c1 == [old EXCEPT !.ended = @ \cup {job}]
<1>7. /\ c1 \in WorkerType /\ c1.pc = old.pc /\ c1.batches = old.batches
      /\ c1.inFlight = old.inFlight /\ c1.taken = old.taken /\ c1.now = old.now
      /\ c1.ended = old.ended \cup {job}
  BY <1>2, <1>3, <1>5 DEF WorkerType
\* What holds of the loop afterwards is enough.
<1>8. ASSUME NEW c \in WorkerType, worker' = [worker EXCEPT ![w] = c],
             c.taken = old.taken, c.now = old.now, c.ended = old.ended \cup {job},
             c.inFlight <= old.inFlight, c.pc = old.pc \/ (old.pc = "race" /\ c.pc = "loop"),
             \A m \in 1 .. Len(c.batches) : c.batches[m].left \subseteq 1 .. Len(c.batches[m].jobs),
             \A m \in 1 .. Len(old.batches) : \A k \in old.batches[m].left :
               (m # b \/ k # i) =>
                 \E n \in 1 .. Len(c.batches) :
                   /\ k \in c.batches[n].left
                   /\ c.batches[n].jobs[k] = old.batches[m].jobs[k]
      PROVE  QueueInv'
  <2>1. old.pc # "idle"
    <3>1. old.batches # <<>>
      BY <1>3, <1>4
    <3> QED
      BY <1>1, <3>1 DEF LoopInv, LoopOK
  <2>2. c.inFlight \in Int /\ c.now \in Nat
    BY <1>8 DEF WorkerType
  <2>3. LoopOK(c)
    <3>1. LoopOK(old)
      BY <1>1 DEF LoopInv
    <3>2. c.pc \in {"read", "commit"} => c.now + c.inFlight <= Concurrency
      BY <1>3, <1>8, <2>2, <3>1, JobQueueAssumption DEF LoopOK
    <3> QED
      BY <1>8, <2>1, <3>1, <3>2 DEF LoopOK
  <2>4. c.inFlight <= Concurrency
    BY <1>2, <1>3, <1>8, <2>2, JobQueueAssumption
  <2>5. \A j \in Jobs : Busy(old, j) => Busy(c, j)
    <3> SUFFICES ASSUME NEW j \in Jobs, Busy(old, j)
                 PROVE  Busy(c, j)
      OBVIOUS
    <3>1. CASE j \in old.ended \cup {job}
      BY <1>8, <3>1 DEF Busy
    <3>2. CASE j \notin old.ended \cup {job}
      <4>1. PICK m \in 1 .. Len(old.batches) : \E k \in old.batches[m].left : old.batches[m].jobs[k] = j
        BY <3>2 DEF Busy
      <4>2. PICK k \in old.batches[m].left : old.batches[m].jobs[k] = j
        BY <4>1
      <4>3. m # b \/ k # i
        BY <3>2, <4>2
      <4>4. PICK n \in 1 .. Len(c.batches) :
              k \in c.batches[n].left /\ c.batches[n].jobs[k] = old.batches[m].jobs[k]
        BY <1>8, <4>3
      <4> QED
        BY <4>2, <4>4 DEF Busy
    <3> QED
      BY <3>1, <3>2
  <2>6. \A j \in Jobs : /\ First(c, j) => First(worker[w], j)
                        /\ Has(c.taken, j) => Has(worker[w].taken, j)
    BY <1>8 DEF First
  <2>7. /\ {} \in SUBSET Jobs
        /\ Push({}, "ended") \/ (row' = row /\ seen' = seen /\ {} = {})
        /\ \A j \in Jobs : Busy(worker[w], j) => Busy(c, j) \/ j \in {}
    BY <1>6, <2>5
  <2> QED
    BY <1>6, <1>8, <2>3, <2>4, <2>6, <2>7, LoopStepKeeps
<1>9. CASE batch.left # {i}
  <2> DEFINE c == [c1 EXCEPT !.batches[b].left = @ \ {i}]
  <2>1. worker' = [worker EXCEPT ![w] = c]
    BY <1>4, <1>9 DEF HandlerEnds
  <2> DEFINE batches == [old.batches EXCEPT ![b].left = @ \ {i}]
  <2>2. /\ batches \in Seq(BatchType) /\ Len(batches) = Len(old.batches)
        /\ batches[b].jobs = batch.jobs /\ batches[b].left = batch.left \ {i}
        /\ \A m \in 1 .. Len(old.batches) : m # b => batches[m] = old.batches[m]
    <3>1. [batch EXCEPT !.left = @ \ {i}] \in BatchType
      BY <1>5 DEF BatchType
    <3>2. batches = [old.batches EXCEPT ![b] = [batch EXCEPT !.left = @ \ {i}]]
      OBVIOUS
    <3>3. /\ [batch EXCEPT !.left = @ \ {i}].jobs = batch.jobs
          /\ [batch EXCEPT !.left = @ \ {i}].left = batch.left \ {i}
      BY <1>5 DEF BatchType
    <3> DEFINE less == [batch EXCEPT !.left = @ \ {i}]
    <3> HIDE DEF less, batches
    <3> QED
      BY <1>3, <3>1, <3>2, <3>3 DEF less
  <2>3. /\ c.batches = batches /\ c.pc = old.pc /\ c.inFlight = old.inFlight
        /\ c.taken = old.taken /\ c.now = old.now /\ c.ended = old.ended \cup {job}
        /\ c \in WorkerType
    <3>1. c = [c1 EXCEPT !.batches = batches]
      BY <1>7 DEF WorkerType
    <3> HIDE DEF c, batches, c1
    <3> QED
      BY <1>7, <2>2, <3>1 DEF WorkerType
  <2> HIDE DEF c, batches, c1
  <2>4. \A m \in 1 .. Len(c.batches) : c.batches[m].left \subseteq 1 .. Len(c.batches[m].jobs)
    <3>1. LoopOK(old)
      BY <1>1 DEF LoopInv
    <3> QED
      BY <1>5, <2>2, <2>3, <3>1 DEF LoopOK
  <2>5. \A m \in 1 .. Len(old.batches) : \A k \in old.batches[m].left :
          (m # b \/ k # i) =>
            \E n \in 1 .. Len(c.batches) :
              k \in c.batches[n].left /\ c.batches[n].jobs[k] = old.batches[m].jobs[k]
    BY <2>2, <2>3
  <2>6. c.inFlight <= old.inFlight
    BY <1>3, <2>3
  <2>7. c.pc = old.pc \/ (old.pc = "race" /\ c.pc = "loop")
    BY <2>3
  <2> QED
    BY <1>8, <2>1, <2>3, <2>4, <2>5, <2>6, <2>7
<1>10. CASE batch.left = {i}
  <2> DEFINE pc == IF c1.pc = "race" THEN "loop" ELSE c1.pc
  <2> DEFINE c == [c1 EXCEPT !.batches = RemoveAt(@, b), !.inFlight = @ - Len(batch.jobs),
                             !.pc = IF @ = "race" THEN "loop" ELSE @]
  <2>1. worker' = [worker EXCEPT ![w] = c]
    BY <1>4, <1>10 DEF HandlerEnds
  <2> DEFINE batches == RemoveAt(old.batches, b)
  <2>2. /\ batches \in Seq(BatchType) /\ Len(batches) = Len(old.batches) - 1
        /\ \A m \in 1 .. Len(old.batches) : m < b => batches[m] = old.batches[m]
        /\ \A m \in 1 .. Len(old.batches) : m > b => batches[m - 1] = old.batches[m]
        /\ \A m \in 1 .. Len(old.batches) - 1 :
             batches[m] = old.batches[m] \/ batches[m] = old.batches[m + 1]
        /\ b \in 1 .. Len(old.batches) /\ Len(old.batches) \in Nat
    <3>1. old.batches \in Seq(BatchType) /\ b \in 1 .. Len(old.batches)
      BY <1>0, <1>3
    <3> HIDE DEF c1, pc, c, old
    <3>2. Len(old.batches) \in Nat
      BY <3>1
    <3> QED
      BY <3>1, <3>2, RemovedAt
  <2>3. /\ c.batches = batches /\ c.pc = pc /\ c.inFlight = old.inFlight - Len(batch.jobs)
        /\ c.taken = old.taken /\ c.now = old.now /\ c.ended = old.ended \cup {job}
        /\ c \in WorkerType
    <3>1. c = [c1 EXCEPT !.batches = batches, !.inFlight = old.inFlight - Len(batch.jobs),
                         !.pc = pc]
      BY <1>7 DEF WorkerType
    <3>2. pc \in Pcs /\ old.inFlight - Len(batch.jobs) \in Int
      BY <1>3, <1>5, <1>7 DEF Pcs
    <3> HIDE DEF c, batches, c1, pc
    <3> QED
      BY <1>7, <2>2, <3>1, <3>2 DEF WorkerType
  <2> HIDE DEF c, batches
  <2>4. \A m \in 1 .. Len(c.batches) : c.batches[m].left \subseteq 1 .. Len(c.batches[m].jobs)
    <3>1. LoopOK(old)
      BY <1>1 DEF LoopInv
    <3>2. \A m \in 1 .. Len(old.batches) : old.batches[m].left \subseteq 1 .. Len(old.batches[m].jobs)
      BY <3>1 DEF LoopOK
    <3> SUFFICES ASSUME NEW m \in 1 .. Len(c.batches)
                 PROVE  c.batches[m].left \subseteq 1 .. Len(c.batches[m].jobs)
      OBVIOUS
    <3>3. PICK n \in 1 .. Len(old.batches) : c.batches[m] = old.batches[n]
      <4>1. m \in 1 .. Len(old.batches) - 1 /\ m \in 1 .. Len(old.batches)
            /\ m + 1 \in 1 .. Len(old.batches)
        BY <2>2, <2>3
      <4>2. c.batches[m] = old.batches[m] \/ c.batches[m] = old.batches[m + 1]
        BY <2>2, <2>3, <4>1
      <4> QED
        BY <4>1, <4>2
    <3> QED
      BY <3>2, <3>3
  <2>5. \A m \in 1 .. Len(old.batches) : \A k \in old.batches[m].left :
          (m # b \/ k # i) =>
            \E n \in 1 .. Len(c.batches) :
              k \in c.batches[n].left /\ c.batches[n].jobs[k] = old.batches[m].jobs[k]
    <3> SUFFICES ASSUME NEW m \in 1 .. Len(old.batches), NEW k \in old.batches[m].left,
                        m # b \/ k # i
                 PROVE  \E n \in 1 .. Len(c.batches) :
                          k \in c.batches[n].left /\ c.batches[n].jobs[k] = old.batches[m].jobs[k]
      OBVIOUS
    <3>1. m # b
      BY <1>10
    <3>2. PICK n \in 1 .. Len(c.batches) : c.batches[n] = old.batches[m]
      <4>1. CASE m < b
        <5>1. m \in 1 .. Len(c.batches) /\ c.batches[m] = old.batches[m]
          BY <2>2, <2>3, <4>1
        <5> QED
          BY <5>1
      <4>2. CASE m > b
        <5>1. m - 1 \in 1 .. Len(c.batches) /\ c.batches[m - 1] = old.batches[m]
          BY <2>2, <2>3, <4>2
        <5> QED
          BY <5>1
      <4> QED
        BY <2>2, <3>1, <4>1, <4>2
    <3> QED
      BY <3>2
  <2>6. c.inFlight <= old.inFlight
    BY <1>3, <1>5, <2>3
  <2>7. c.pc = old.pc \/ (old.pc = "race" /\ c.pc = "loop")
    BY <1>7, <2>3
  <2> QED
    BY <1>8, <2>1, <2>3, <2>4, <2>5, <2>6, <2>7
<1> QED
  BY <1>9, <1>10
-----------------------------------------------------------------------------
(* The loops: jobs are read and handed out *)

\* What Delivered() says of a job.
LEMMA DeliveredIs ==
  ASSUME NEW g \in [Jobs -> {"no", "once", "twice"} \cup Causes], NEW jobs \in Seq(Jobs)
  PROVE  /\ Delivered(g, jobs) \in [Jobs -> {"no", "once", "twice"} \cup Causes]
         /\ \A j \in Jobs : ~ Has(jobs, j) => Delivered(g, jobs)[j] = g[j]
         /\ \A j \in Jobs : g[j] \in Causes => Delivered(g, jobs)[j] \in Causes
         /\ \A j \in Jobs : Has(jobs, j) /\ g[j] = "no" /\ Single(jobs, j) => Delivered(g, jobs)[j] = "once"
<1>1. \A j \in Jobs : j \in ToSet(jobs) <=> Has(jobs, j)
  BY DEF ToSet, Has
<1>2. \A j \in Jobs : Delivered(g, jobs)[j] =
         IF j \notin ToSet(jobs) \/ g[j] \in Causes THEN g[j]
         ELSE IF g[j] = "no" /\ Single(jobs, j) THEN "once" ELSE "twice"
  BY DEF Delivered
<1>3. Delivered(g, jobs) \in [Jobs -> {"no", "once", "twice"} \cup Causes]
  BY DEF Delivered
<1> QED
  BY <1>1, <1>2, <1>3 DEF Causes

\* What a loop is after it has handed jobs out.
LEMMA StartedIs ==
  ASSUME NEW c \in WorkerType, NEW jobs \in Seq(Jobs)
  PROVE  /\ Started(c, jobs) \in WorkerType
         /\ Started(c, jobs).pc = c.pc /\ Started(c, jobs).taken = c.taken
         /\ Started(c, jobs).now = c.now /\ Started(c, jobs).ended = c.ended
         /\ Started(c, jobs).inFlight = c.inFlight + Len(jobs)
         /\ Started(c, jobs).batches = Append(c.batches, Batch(jobs))
         /\ \A j \in Jobs : Busy(c, j) \/ Has(jobs, j) => Busy(Started(c, jobs), j)
         /\ (\A b \in 1 .. Len(c.batches) : c.batches[b].left \subseteq 1 .. Len(c.batches[b].jobs))
              => \A b \in 1 .. Len(Started(c, jobs).batches) :
                   Started(c, jobs).batches[b].left \subseteq 1 .. Len(Started(c, jobs).batches[b].jobs)
<1>1. /\ c.batches \in Seq(BatchType) /\ c.inFlight \in Int /\ Len(c.batches) \in Nat
  BY DEF WorkerType
<1>2. /\ Batch(jobs) \in BatchType /\ Batch(jobs).jobs = jobs /\ Batch(jobs).left = 1 .. Len(jobs)
  BY DEF Batch, BatchType
<1> DEFINE bs == Append(c.batches, Batch(jobs))
<1>3. /\ bs \in Seq(BatchType) /\ Len(bs) = Len(c.batches) + 1
      /\ \A b \in 1 .. Len(c.batches) : bs[b] = c.batches[b]
      /\ bs[Len(c.batches) + 1] = Batch(jobs)
  BY <1>1, <1>2
<1>4. Started(c, jobs) = [c EXCEPT !.batches = bs, !.inFlight = c.inFlight + Len(jobs)]
  BY DEF Started, WorkerType
<1> HIDE DEF bs
<1> DEFINE d == Started(c, jobs)
<1>5. /\ d \in WorkerType
      /\ d.pc = c.pc /\ d.taken = c.taken /\ d.now = c.now /\ d.ended = c.ended
      /\ d.inFlight = c.inFlight + Len(jobs) /\ d.batches = bs
  <2>1. Len(jobs) \in Nat /\ c.inFlight + Len(jobs) \in Int
    BY <1>1
  <2>2. d = [c EXCEPT !.batches = bs, !.inFlight = c.inFlight + Len(jobs)]
    BY <1>4
  <2> HIDE DEF d
  <2> QED
    BY <1>3, <2>1, <2>2 DEF WorkerType
<1> HIDE DEF d
<1>6. ASSUME NEW j \in Jobs, Busy(c, j) \/ Has(jobs, j)
      PROVE  Busy(d, j)
  <2>1. CASE j \in c.ended
    BY <1>5, <2>1 DEF Busy
  <2>2. CASE \E b \in 1 .. Len(c.batches) : \E i \in c.batches[b].left : c.batches[b].jobs[i] = j
    <3>1. PICK b \in 1 .. Len(c.batches) : \E i \in c.batches[b].left : c.batches[b].jobs[i] = j
      BY <2>2
    <3>2. b \in 1 .. Len(bs) /\ bs[b] = c.batches[b]
      BY <1>1, <1>3, <3>1
    <3> QED
      BY <1>5, <3>1, <3>2 DEF Busy
  <2>3. CASE Has(jobs, j)
    <3>1. PICK i \in 1 .. Len(jobs) : jobs[i] = j
      BY <2>3 DEF Has
    <3>2. Len(c.batches) + 1 \in 1 .. Len(bs)
      BY <1>1, <1>3
    <3> QED
      BY <1>2, <1>3, <1>5, <3>1, <3>2 DEF Busy
  <2> QED
    BY <1>6, <2>1, <2>2, <2>3 DEF Busy
<1>7. ASSUME \A b \in 1 .. Len(c.batches) : c.batches[b].left \subseteq 1 .. Len(c.batches[b].jobs),
             NEW b \in 1 .. Len(bs)
      PROVE  bs[b].left \subseteq 1 .. Len(bs[b].jobs)
  <2>1. CASE b \in 1 .. Len(c.batches)
    BY <1>3, <1>7, <2>1
  <2>2. CASE b = Len(c.batches) + 1
    BY <1>2, <1>3, <2>2
  <2> QED
    BY <1>1, <1>3, <2>1, <2>2
<1> QED
  BY <1>5, <1>6, <1>7 DEF d, bs
\* A step that hands out jobs which waited and then wait nowhere.
LEMMA HandOutKeeps ==
  ASSUME QueueInv, NEW w \in Workers, NEW jobs \in Seq(Jobs), NEW set,
         NEW g \in [Jobs -> {"no", "once", "twice"} \cup Causes],
         \A j \in Jobs : g[j] = given[j] \/ g[j] \in Causes,
         given' = Delivered(g, jobs),
         Push(set, "processing"),
         \A j \in Jobs : Has(jobs, j) => j \in set,
         \A j \in Jobs : Has(jobs, j) /\ Clean(j) =>
           /\ given[j] = "no" /\ Single(jobs, j) /\ ~ Has(ring', j)
           /\ \A v \in Workers : ~ First(worker'[v], j)
           /\ Busy(worker'[w], j),
         \A j \in Jobs : j \in set /\ ~ Has(jobs, j) /\ row[j] = "ended" => g[j] \in Causes,
         \A j \in Jobs : /\ Has(ring', j) => Has(ring, j)
                         /\ WaitsOnce(j) =>
                              \A i, k \in 1 .. Len(ring') : ring'[i] = j /\ ring'[k] = j => i = k
                         /\ \A v \in Workers : /\ First(worker'[v], j) => First(worker[v], j)
                                               /\ Busy(worker[v], j) => Busy(worker'[v], j)
  PROVE  JobInv'
<1>1. QueueTypeOK /\ JobInv
  BY DEF QueueInv
<1>2. given \in [Jobs -> {"no", "once", "twice"} \cup Causes] /\ row \in [Jobs -> Status]
  BY <1>1 DEF QueueTypeOK
<1>3. /\ \A j \in Jobs : ~ Has(jobs, j) => given'[j] = g[j]
      /\ \A j \in Jobs : g[j] \in Causes => given'[j] \in Causes
      /\ \A j \in Jobs : Has(jobs, j) /\ g[j] = "no" /\ Single(jobs, j) => given'[j] = "once"
  BY DeliveredIs
<1>4. /\ \A j \in Jobs : j \notin set => row'[j] = row[j]
      /\ \A j \in Jobs : j \in set => row'[j] = IF row[j] = "none" THEN "none" ELSE "processing"
  BY <1>1, PushDoes DEF Ops
<1> SUFFICES ASSUME NEW j \in Jobs
             PROVE  (/\ given[j] # "twice"
                     /\ Clean(j) => WaitsOnce(j)
                     /\ given[j] = "once" => OutOnce(j))'
  BY DEF JobInv
<1>5. /\ given[j] # "twice"
      /\ Clean(j) => WaitsOnce(j)
      /\ given[j] = "once" => OutOnce(j)
  BY <1>1 DEF JobInv
<1>6. CASE given'[j] \in Causes
  BY <1>6 DEF Clean, Causes
<1>7. CASE given'[j] \notin Causes /\ Has(jobs, j)
  <2>1. Clean(j) /\ g[j] = given[j]
    BY <1>2, <1>3, <1>5, <1>7 DEF Clean
  <2>2. /\ given[j] = "no" /\ Single(jobs, j) /\ ~ Has(ring', j)
        /\ \A v \in Workers : ~ First(worker'[v], j)
        /\ Busy(worker'[w], j)
    BY <1>7, <2>1
  <2>3. given'[j] = "once"
    BY <1>3, <1>7, <2>1, <2>2
  <2>4. row'[j] \in {"none", "processing"}
    BY <1>4, <1>7
  <2>5. OutOnce(j)'
    BY <2>2, <2>4 DEF OutOnce
  <2>6. WaitsOnce(j)'
    BY <2>2 DEF WaitsOnce, Has
  <2> QED
    BY <2>3, <2>5, <2>6
<1>8. CASE given'[j] \notin Causes /\ ~ Has(jobs, j)
  <2>1. given'[j] = g[j] /\ g[j] = given[j]
    BY <1>3, <1>8
  <2>2. ASSUME Clean(j)' PROVE WaitsOnce(j)'
    <3>1. WaitsOnce(j)
      BY <1>5, <2>1, <2>2 DEF Clean
    <3> QED
      BY <3>1 DEF WaitsOnce
  <2>3. ASSUME given'[j] = "once" PROVE OutOnce(j)'
    <3>1. OutOnce(j)
      BY <1>5, <2>1, <2>3
    <3>2. row'[j] # "pending" /\ (row'[j] = "processing" => row[j] = "processing")
      <4>1. row[j] # "pending" /\ row[j] \in Status
        BY <1>2, <3>1 DEF OutOnce
      <4>2. CASE j \notin set
        BY <1>4, <4>1, <4>2
      <4>3. CASE j \in set
        <5>1. row[j] # "ended"
          BY <1>8, <2>1, <4>3
        <5> QED
          BY <1>4, <4>1, <4>3, <5>1 DEF Status
      <4> QED
        BY <4>2, <4>3
    <3> QED
      BY <3>1, <3>2 DEF OutOnce
  <2> QED
    BY <1>5, <2>1, <2>2, <2>3
<1> QED
  BY <1>6, <1>7, <1>8

LEMMA TakeFromRingKeeps ==
  ASSUME QueueInv, NEW w \in Workers, TakeFromRing(w)
  PROVE  QueueInv'
<1>1. QueueTypeOK /\ LoopInv /\ NewInv /\ JobInv
  BY DEF QueueInv
<1>2. /\ worker[w] \in WorkerType /\ worker[w].inFlight \in Int
      /\ ring \in Seq(Jobs) /\ Len(ring) <= RingCap /\ Len(ring) \in Nat /\ RingCap \in Nat
      /\ given \in [Jobs -> {"no", "once", "twice"} \cup Causes]
  BY <1>1, JobQueueAssumption DEF QueueTypeOK, WorkerType
<1> DEFINE limit == Limit(w)
<1> DEFINE n == SmallerOf(limit, Len(ring))
<1> DEFINE jobs == Taken(limit)
<1> DEFINE c == Started(worker[w], jobs)
<1>3. /\ Ready(w) /\ ring # <<>> /\ Push(ToSet(jobs), "processing")
      /\ worker' = [worker EXCEPT ![w] = c] /\ given' = Delivered(given, jobs)
      /\ ring' = LeftInRing(limit)
      /\ UNCHANGED <<disk, enq, reclaim>>
  BY DEF TakeFromRing
<1>4. limit \in Nat \ {0} /\ limit + worker[w].inFlight <= Concurrency
  BY <1>1, <1>3, LimitFits
<1>5. n \in 0 .. Len(ring) /\ n <= limit
  BY <1>2, <1>4 DEF SmallerOf
<1>6. /\ jobs = SubSeq(ring, 1, n) /\ ring' = SubSeq(ring, n + 1, Len(ring))
  BY <1>3 DEF Taken, LeftInRing
<1> HIDE DEF jobs, limit
<1>7. /\ jobs \in Seq(Jobs) /\ Len(jobs) = n
      /\ \A i \in 1 .. n : jobs[i] = ring[i]
      /\ ring' \in Seq(Jobs) /\ Len(ring') = Len(ring) - n
      /\ \A i \in 1 .. Len(ring) - n : ring'[i] = ring[i + n]
  BY <1>2, <1>5, <1>6
<1> HIDE DEF n, c
<1>8. /\ c \in WorkerType /\ c.pc = worker[w].pc /\ c.taken = worker[w].taken
      /\ c.now = worker[w].now /\ c.ended = worker[w].ended
      /\ c.inFlight = worker[w].inFlight + Len(jobs)
      /\ c.batches = Append(worker[w].batches, Batch(jobs))
      /\ \A j \in Jobs : Busy(worker[w], j) \/ Has(jobs, j) => Busy(c, j)
      /\ (\A b \in 1 .. Len(worker[w].batches) :
             worker[w].batches[b].left \subseteq 1 .. Len(worker[w].batches[b].jobs))
           => \A b \in 1 .. Len(c.batches) : c.batches[b].left \subseteq 1 .. Len(c.batches[b].jobs)
  BY <1>2, <1>7, StartedIs DEF c
<1>9. /\ \A j \in Jobs : Has(jobs, j) => Has(ring, j)
      /\ \A j \in Jobs : Has(ring', j) => Has(ring, j)
      /\ \A j \in Jobs : Has(jobs, j) <=> j \in ToSet(jobs)
  <2>1. ASSUME NEW j \in Jobs, Has(jobs, j) PROVE Has(ring, j)
    <3>1. PICK i \in 1 .. n : jobs[i] = j
      BY <1>7, <2>1 DEF Has
    <3>2. i \in 1 .. Len(ring) /\ ring[i] = j
      BY <1>2, <1>5, <1>7, <3>1
    <3> QED
      BY <3>2 DEF Has
  <2>2. ASSUME NEW j \in Jobs, Has(ring', j) PROVE Has(ring, j)
    <3>1. PICK i \in 1 .. Len(ring) - n : ring'[i] = j
      BY <1>7, <2>2 DEF Has
    <3>2. i + n \in 1 .. Len(ring)
      BY <1>2, <1>5, <3>1
    <3> QED
      BY <1>7, <3>1, <3>2 DEF Has
  <2>3. \A j \in Jobs : Has(jobs, j) <=> j \in ToSet(jobs)
    BY <1>7 DEF Has, ToSet
  <2> QED
    BY <2>1, <2>2, <2>3
<1>10. ASSUME NEW j \in Jobs, WaitsOnce(j)
       PROVE  /\ Single(jobs, j)
              /\ \A i, k \in 1 .. Len(ring') : ring'[i] = j /\ ring'[k] = j => i = k
              /\ Has(jobs, j) => ~ Has(ring', j)
  <2>1. \A i, k \in 1 .. Len(ring) : ring[i] = j /\ ring[k] = j => i = k
    BY <1>10 DEF WaitsOnce
  <2>2. Single(jobs, j)
    BY <1>2, <1>5, <1>7, <2>1 DEF Single
  <2>3. \A i, k \in 1 .. Len(ring') : ring'[i] = j /\ ring'[k] = j => i = k
    <3> SUFFICES ASSUME NEW i \in 1 .. Len(ring'), NEW k \in 1 .. Len(ring'),
                        ring'[i] = j, ring'[k] = j
                 PROVE  i = k
      OBVIOUS
    <3>1. i + n \in 1 .. Len(ring) /\ k + n \in 1 .. Len(ring)
      BY <1>2, <1>5, <1>7
    <3>2. ring[i + n] = j /\ ring[k + n] = j
      BY <1>7
    <3>3. i + n = k + n
      BY <2>1, <3>1, <3>2
    <3> QED
      BY <1>5, <1>7, <3>3
  <2>4. ASSUME Has(jobs, j), Has(ring', j) PROVE FALSE
    <3>1. PICK i \in 1 .. n : jobs[i] = j
      BY <1>7, <2>4 DEF Has
    <3>2. PICK k \in 1 .. Len(ring) - n : ring'[k] = j
      BY <1>7, <2>4 DEF Has
    <3>3. i \in 1 .. Len(ring) /\ k + n \in 1 .. Len(ring) /\ i # k + n
      BY <1>2, <1>5, <3>1, <3>2
    <3> QED
      BY <1>7, <2>1, <3>1, <3>2, <3>3
  <2> QED
    BY <2>2, <2>3, <2>4
<1>11. LoopOK(c) /\ c.inFlight <= Concurrency
  <2>1. LoopOK(worker[w]) /\ worker[w].pc = "loop"
    BY <1>1, <1>3 DEF LoopInv, Ready
  <2>2. c.inFlight <= Concurrency
    BY <1>2, <1>4, <1>5, <1>7, <1>8, JobQueueAssumption
  <2> QED
    BY <1>8, <2>1, <2>2 DEF LoopOK
<1>12. LoopInv' /\ worker'[w] = c /\ \A v \in Workers \ {w} : worker'[v] = worker[v]
  BY <1>1, <1>3, <1>11, LoopsKept
<1>13. \A v \in Workers, j \in Jobs :
         /\ First(worker'[v], j) <=> First(worker[v], j)
         /\ Has(worker'[v].taken, j) <=> Has(worker[v].taken, j)
         /\ Busy(worker[v], j) => Busy(worker'[v], j)
  <2>1. \A j \in Jobs : First(c, j) <=> First(worker[w], j)
    BY <1>8 DEF First
  <2> QED
    BY <1>8, <1>12, <2>1
<1>14. /\ row' \in [Jobs -> Status] /\ seen' \in [Jobs -> SUBSET Marked]
       /\ \A j \in Jobs : row[j] = "none" => row'[j] = "none"
       /\ \A j \in Jobs : "new" \notin seen[j] => "new" \notin seen'[j]
  BY <1>1, <1>3, PushDoes DEF Ops
<1>15. QueueTypeOK'
  <2>1. given' \in [Jobs -> {"no", "once", "twice"} \cup Causes]
    BY <1>2, <1>3, <1>7, DeliveredIs
  <2>2. worker' \in [Workers -> WorkerType]
    BY <1>1, <1>3, <1>8 DEF QueueTypeOK
  <2>3. \A v \in Workers : worker'[v].inFlight <= Concurrency
    BY <1>1, <1>11, <1>12 DEF QueueTypeOK
  <2>4. Len(ring') <= RingCap
    BY <1>2, <1>5, <1>7
  <2> QED
    BY <1>1, <1>3, <1>7, <1>14, <2>1, <2>2, <2>3, <2>4 DEF QueueTypeOK
<1>16. NewInv'
  <2>1. \A j \in Jobs : enq[j] = "no" => given'[j] = given[j]
    <3>1. \A j \in Jobs : ~ Has(jobs, j) => Delivered(given, jobs)[j] = given[j]
      BY <1>2, <1>7, DeliveredIs
    <3> QED
      BY <1>1, <1>3, <1>9, <3>1 DEF NewInv
  <2>2. \A j \in Jobs : enq[j] \in {"no", "ring"} =>
          disk'[j] = "none" /\ row'[j] = "none" /\ "new" \notin seen'[j] /\ j \notin reclaim'
    BY <1>1, <1>3, <1>14 DEF NewInv
  <2> QED
    BY <1>1, <1>3, <1>9, <1>13, <2>1, <2>2, NewKept
<1>17. JobInv'
  <2>1. ASSUME NEW j \in Jobs, Has(jobs, j), Clean(j)
        PROVE  /\ given[j] = "no" /\ Single(jobs, j) /\ ~ Has(ring', j)
               /\ \A v \in Workers : ~ First(worker'[v], j)
               /\ Busy(worker'[w], j)
    <3>1. WaitsOnce(j) /\ Has(ring, j)
      BY <1>1, <1>9, <2>1 DEF JobInv
    <3>2. given[j] = "no"
      BY <1>1, <2>1, <3>1 DEF JobInv, Clean, OutOnce
    <3>3. Single(jobs, j) /\ ~ Has(ring', j)
      BY <1>10, <2>1, <3>1
    <3>4. \A v \in Workers : ~ First(worker'[v], j)
      BY <1>13, <3>1 DEF WaitsOnce
    <3>5. Busy(worker'[w], j)
      BY <1>8, <1>12, <2>1
    <3> QED
      BY <3>2, <3>3, <3>4, <3>5
  <2>2. \A j \in Jobs : j \in ToSet(jobs) /\ ~ Has(jobs, j) /\ row[j] = "ended" => given[j] \in Causes
    BY <1>9
  <2>3. \A j \in Jobs : /\ Has(ring', j) => Has(ring, j)
                        /\ WaitsOnce(j) =>
                             \A i, k \in 1 .. Len(ring') : ring'[i] = j /\ ring'[k] = j => i = k
                        /\ \A v \in Workers : /\ First(worker'[v], j) => First(worker[v], j)
                                              /\ Busy(worker[v], j) => Busy(worker'[v], j)
    BY <1>9, <1>10, <1>13
  <2>4. /\ \A j \in Jobs : given[j] = given[j] \/ given[j] \in Causes
        /\ \A j \in Jobs : Has(jobs, j) => j \in ToSet(jobs)
    BY <1>9
  <2> QED
    BY <1>2, <1>3, <1>7, <2>1, <2>2, <2>3, <2>4, HandOutKeeps
<1> QED
  BY <1>12, <1>15, <1>16, <1>17 DEF QueueInv
LEMMA CommitKeeps ==
  ASSUME QueueInv, NEW w \in Workers, Commit(w)
  PROVE  QueueInv'
<1>1. QueueTypeOK /\ LoopInv /\ NewInv /\ JobInv
  BY DEF QueueInv
<1> DEFINE all == worker[w].taken
<1> DEFINE now == worker[w].now
<1> DEFINE jobs == SubSeq(all, 1, now)
<1> DEFINE rest == SubSeq(all, now + 1, Len(all))
<1> DEFINE lapped == {j \in ToSet(rest) : row[j] = "ended"}
<1> DEFINE g == Caused(lapped, "loops")
<1> DEFINE s == Started(worker[w], jobs)
<1> DEFINE c == [s EXCEPT !.pc = "loop", !.taken = <<>>, !.now = 0]
<1>2. /\ worker[w].pc = "commit" /\ Push(ToSet(all), "processing")
      /\ worker' = [worker EXCEPT ![w] = c] /\ given' = Delivered(g, jobs)
      /\ UNCHANGED <<disk, ring, enq, reclaim>>
  BY DEF Commit
<1>3. /\ worker[w] \in WorkerType /\ worker[w].inFlight \in Int
      /\ all \in Seq(Jobs) /\ now \in Nat
      /\ given \in [Jobs -> {"no", "once", "twice"} \cup Causes]
  BY <1>1 DEF QueueTypeOK, WorkerType
<1>4. /\ LoopOK(worker[w]) /\ now <= Len(all) /\ NoRepeat(all)
      /\ now + worker[w].inFlight <= Concurrency
  BY <1>1, <1>2 DEF LoopInv, LoopOK
<1> HIDE DEF all, now
<1>5. /\ jobs \in Seq(Jobs) /\ Len(jobs) = now /\ \A i \in 1 .. now : jobs[i] = all[i]
      /\ rest \in Seq(Jobs) /\ Len(rest) = Len(all) - now
      /\ \A i \in 1 .. Len(all) - now : rest[i] = all[i + now]
  BY <1>3, <1>4
<1> HIDE DEF jobs, rest
<1>6. \A j \in Jobs : Has(jobs, j) <=> First(worker[w], j)
  <2>1. \A j \in Jobs : First(worker[w], j) <=> \E i \in 1 .. Len(all) : i <= now /\ all[i] = j
    BY DEF First, all, now
  <2>2. \A i \in 1 .. Len(all) : i <= now => i \in 1 .. now
    BY <1>3
  <2>3. \A i \in 1 .. now : i \in 1 .. Len(all) /\ i <= now
    BY <1>3, <1>4
  <2> QED
    BY <1>5, <2>1, <2>2, <2>3 DEF Has
<1>7. \A j \in Jobs : Has(all, j) => Has(jobs, j) \/ j \in ToSet(rest)
  <2> SUFFICES ASSUME NEW j \in Jobs, Has(all, j)
               PROVE  Has(jobs, j) \/ j \in ToSet(rest)
    OBVIOUS
  <2>1. PICK i \in 1 .. Len(all) : all[i] = j
    BY DEF Has
  <2>2. CASE i <= now
    <3>1. i \in 1 .. Len(jobs) /\ jobs[i] = j
      BY <1>3, <1>5, <2>1, <2>2
    <3> QED
      BY <3>1 DEF Has
  <2>3. CASE i > now
    <3>1. i - now \in 1 .. Len(rest) /\ rest[i - now] = j
      BY <1>3, <1>5, <2>1, <2>3
    <3> QED
      BY <1>5, <3>1 DEF ToSet
  <2> QED
    BY <1>3, <2>2, <2>3
<1>8. /\ \A j \in Jobs : j \in ToSet(all) <=> Has(all, j)
      /\ \A j \in Jobs : j \in ToSet(rest) => Has(all, j)
      /\ \A j \in Jobs : Has(jobs, j) => Has(all, j)
  <2>1. ASSUME NEW j \in Jobs, j \in ToSet(rest) PROVE Has(all, j)
    <3>1. PICK i \in 1 .. Len(rest) : rest[i] = j
      BY <1>5, <2>1 DEF ToSet
    <3>2. i + now \in 1 .. Len(all) /\ all[i + now] = j
      BY <1>3, <1>4, <1>5, <3>1
    <3> QED
      BY <3>2 DEF Has
  <2>2. \A j \in Jobs : j \in ToSet(all) <=> Has(all, j)
    BY <1>3 DEF ToSet, Has
  <2>3. ASSUME NEW j \in Jobs, Has(jobs, j) PROVE Has(all, j)
    <3>1. PICK i \in 1 .. now : jobs[i] = j
      BY <1>5, <2>3 DEF Has
    <3>2. i \in 1 .. Len(all) /\ all[i] = j
      BY <1>3, <1>4, <1>5, <3>1
    <3> QED
      BY <3>2 DEF Has
  <2> QED
    BY <2>1, <2>2, <2>3
<1>9. /\ g \in [Jobs -> {"no", "once", "twice"} \cup Causes]
      /\ \A j \in Jobs : j \notin lapped => g[j] = given[j]
      /\ \A j \in Jobs : j \in lapped => g[j] \in Causes
  <2>1. "loops" \in Causes
    BY DEF Causes
  <2> HIDE DEF lapped
  <2> QED
    BY <1>1, <2>1, CausedIs
<1>10. \A j \in Jobs : j \in lapped <=> j \in ToSet(rest) /\ row[j] = "ended"
  OBVIOUS
<1> HIDE DEF g, lapped, c, s
<1>11. /\ s \in WorkerType /\ s.batches = Append(worker[w].batches, Batch(jobs))
       /\ s.ended = worker[w].ended /\ s.inFlight = worker[w].inFlight + Len(jobs)
       /\ \A j \in Jobs : Busy(worker[w], j) \/ Has(jobs, j) => Busy(s, j)
       /\ (\A b \in 1 .. Len(worker[w].batches) :
             worker[w].batches[b].left \subseteq 1 .. Len(worker[w].batches[b].jobs))
           => \A b \in 1 .. Len(s.batches) : s.batches[b].left \subseteq 1 .. Len(s.batches[b].jobs)
  BY <1>3, <1>5, StartedIs DEF s
<1>12. /\ c \in WorkerType /\ c.pc = "loop" /\ c.taken = <<>> /\ c.now = 0
       /\ c.batches = s.batches /\ c.ended = s.ended /\ c.inFlight = s.inFlight
  <2>1. <<>> \in Seq(Jobs) /\ 0 \in Nat
    OBVIOUS
  <2> QED
    BY <1>11, <2>1 DEF c, WorkerType, Pcs
<1>13. LoopOK(c) /\ c.inFlight <= Concurrency
  <2>1. c.inFlight <= Concurrency
    BY <1>3, <1>4, <1>5, <1>11, <1>12, JobQueueAssumption
  <2> QED
    BY <1>4, <1>11, <1>12, <2>1 DEF LoopOK, NoRepeat
<1>14. LoopInv' /\ worker'[w] = c /\ \A v \in Workers \ {w} : worker'[v] = worker[v]
  BY <1>1, <1>2, <1>13, LoopsKept
<1>15. \A j \in Jobs : /\ ~ First(c, j) /\ ~ Has(c.taken, j)
                       /\ Busy(worker[w], j) \/ Has(jobs, j) => Busy(c, j)
  <2>1. \A j \in Jobs : Busy(c, j) <=> Busy(s, j)
    BY <1>12 DEF Busy
  <2> QED
    BY <1>11, <1>12, <2>1 DEF First, Has
<1>16. \A v \in Workers, j \in Jobs :
         /\ First(worker'[v], j) => v # w /\ First(worker[v], j)
         /\ Has(worker'[v].taken, j) => Has(worker[v].taken, j)
         /\ Busy(worker[v], j) => Busy(worker'[v], j)
  BY <1>14, <1>15
<1>17. /\ row' \in [Jobs -> Status] /\ seen' \in [Jobs -> SUBSET Marked]
       /\ \A j \in Jobs : row[j] = "none" => row'[j] = "none"
       /\ \A j \in Jobs : "new" \notin seen[j] => "new" \notin seen'[j]
  BY <1>1, <1>2, PushDoes DEF Ops
<1>18. QueueTypeOK'
  <2>1. given' \in [Jobs -> {"no", "once", "twice"} \cup Causes]
    BY <1>2, <1>5, <1>9, DeliveredIs
  <2>2. worker' \in [Workers -> WorkerType]
    BY <1>1, <1>2, <1>12 DEF QueueTypeOK
  <2>3. \A v \in Workers : worker'[v].inFlight <= Concurrency
    BY <1>1, <1>13, <1>14 DEF QueueTypeOK
  <2> QED
    BY <1>1, <1>2, <1>17, <2>1, <2>2, <2>3 DEF QueueTypeOK
<1>19. NewInv'
  <2>1. ASSUME NEW j \in Jobs, enq[j] = "no"
        PROVE  given'[j] = given[j]
    <3>1. ~ Has(all, j)
      BY <1>1, <2>1 DEF NewInv, all
    <3>2. ~ Has(jobs, j) /\ j \notin lapped
      BY <1>8, <1>10, <3>1
    <3>3. \A k \in Jobs : ~ Has(jobs, k) => Delivered(g, jobs)[k] = g[k]
      BY <1>5, <1>9, DeliveredIs
    <3> QED
      BY <1>2, <1>9, <3>2, <3>3
  <2>2. \A j \in Jobs : enq[j] \in {"no", "ring"} =>
          disk'[j] = "none" /\ row'[j] = "none" /\ "new" \notin seen'[j] /\ j \notin reclaim'
    BY <1>1, <1>2, <1>17 DEF NewInv
  <2> QED
    BY <1>1, <1>2, <1>16, <2>1, <2>2, NewKept
<1>20. JobInv'
  <2>1. ASSUME NEW j \in Jobs, Has(jobs, j), Clean(j)
        PROVE  /\ given[j] = "no" /\ Single(jobs, j) /\ ~ Has(ring', j)
               /\ \A v \in Workers : ~ First(worker'[v], j)
               /\ Busy(worker'[w], j)
    <3>1. WaitsOnce(j) /\ First(worker[w], j)
      BY <1>1, <1>6, <2>1 DEF JobInv
    <3>2. given[j] = "no"
      BY <1>1, <2>1, <3>1 DEF JobInv, Clean, OutOnce
    <3>3. Single(jobs, j)
      <4>1. \A i \in 1 .. now : i \in 1 .. Len(all) /\ jobs[i] = all[i]
        BY <1>3, <1>4, <1>5
      <4> QED
        BY <1>4, <1>5, <4>1 DEF Single, NoRepeat
    <3>4. ~ Has(ring', j) /\ \A v \in Workers : ~ First(worker'[v], j)
      BY <1>2, <1>16, <3>1 DEF WaitsOnce
    <3>5. Busy(worker'[w], j)
      BY <1>14, <1>15, <2>1
    <3> QED
      BY <3>2, <3>3, <3>4, <3>5
  <2>2. \A j \in Jobs : j \in ToSet(all) /\ ~ Has(jobs, j) /\ row[j] = "ended" => g[j] \in Causes
    BY <1>7, <1>8, <1>9, <1>10
  <2>3. \A j \in Jobs : /\ Has(ring', j) => Has(ring, j)
                        /\ WaitsOnce(j) =>
                             \A i, k \in 1 .. Len(ring') : ring'[i] = j /\ ring'[k] = j => i = k
                        /\ \A v \in Workers : /\ First(worker'[v], j) => First(worker[v], j)
                                              /\ Busy(worker[v], j) => Busy(worker'[v], j)
    BY <1>2, <1>16 DEF WaitsOnce
  <2>4. /\ \A j \in Jobs : g[j] = given[j] \/ g[j] \in Causes
        /\ \A j \in Jobs : Has(jobs, j) => j \in ToSet(all)
    BY <1>8, <1>9
  <2>5. /\ given' = Delivered(g, jobs) /\ Push(ToSet(all), "processing")
        /\ jobs \in Seq(Jobs) /\ g \in [Jobs -> {"no", "once", "twice"} \cup Causes]
    BY <1>2, <1>5, <1>9
  <2>6. \A j \in Jobs : Has(jobs, j) /\ Clean(j) =>
          /\ given[j] = "no" /\ Single(jobs, j) /\ ~ Has(ring', j)
          /\ \A v \in Workers : ~ First(worker'[v], j)
          /\ Busy(worker'[w], j)
    BY <2>1
  <2> QED
    BY <2>2, <2>3, <2>4, <2>5, <2>6, HandOutKeeps
<1> QED
  BY <1>14, <1>18, <1>19, <1>20 DEF QueueInv
LEMMA SelectKeeps ==
  ASSUME QueueInv, NEW w \in Workers, Select(w)
  PROVE  QueueInv'
<1>1. QueueTypeOK /\ LoopInv /\ NewInv /\ JobInv
  BY DEF QueueInv
<1> DEFINE limit == worker[w].now
<1>2. PICK found \in SetToSeqs(Pending) :
        LET all == SubSeq(found, 1, SmallerOf(2 * limit, Len(found)))
            rest == SubSeq(all, limit + 1, SmallerOf(Len(all), limit + RingCap - Len(ring)))
        IN /\ worker' = [worker EXCEPT ![w].pc = "commit", ![w].taken = all,
                                      ![w].now = SmallerOf(limit, Len(all))]
           /\ ring' = ring \o rest
           /\ given' = [j \in Jobs |->
                IF j \notin ToSet(all) \/ given[j] \in Causes THEN given[j]
                ELSE IF row[j] # "pending" THEN "overlay"
                ELSE IF j \in ToSet(ring) THEN "both"
                ELSE IF j \in InHand THEN "loops" ELSE given[j]]
  BY DEF Select
<1> DEFINE m == SmallerOf(2 * limit, Len(found))
<1> DEFINE all == SubSeq(found, 1, m)
<1> DEFINE e == SmallerOf(Len(all), limit + RingCap - Len(ring))
<1> DEFINE rest == SubSeq(all, limit + 1, e)
<1> DEFINE now == SmallerOf(limit, Len(all))
<1> DEFINE c == [worker[w] EXCEPT !.pc = "commit", !.taken = all, !.now = now]
<1>3. /\ worker[w].pc = "read"
      /\ worker' = [worker EXCEPT ![w] = c]
      /\ ring' = ring \o rest
      /\ UNCHANGED <<disk, row, seen, enq, reclaim>>
  <2>1. worker[w].pc = "read" /\ UNCHANGED <<disk, row, seen, enq, reclaim>>
    BY DEF Select, rows
  <2>2. worker' = [worker EXCEPT ![w].pc = "commit", ![w].taken = all, ![w].now = now]
        /\ ring' = ring \o rest
    BY <1>2
  <2>3. worker \in [Workers -> WorkerType]
    BY <1>1 DEF QueueTypeOK
  <2> HIDE DEF all, now, rest
  <2> QED
    BY <2>1, <2>2, <2>3
<1>4. \A j \in Jobs : given'[j] =
         IF j \notin ToSet(all) \/ given[j] \in Causes THEN given[j]
         ELSE IF row[j] # "pending" THEN "overlay"
         ELSE IF j \in ToSet(ring) THEN "both"
         ELSE IF j \in InHand THEN "loops" ELSE given[j]
  BY <1>2
<1>5. given' \in [Jobs -> {"no", "once", "twice"} \cup Causes]
  <2>1. given \in [Jobs -> {"no", "once", "twice"} \cup Causes]
    BY <1>1 DEF QueueTypeOK
  <2>2. \A j \in Jobs : given'[j] \in {"no", "once", "twice"} \cup Causes
    BY <1>4, <2>1 DEF Causes
  <2>3. given' = [j \in Jobs |-> given'[j]]
    BY <1>2
  <2> QED
    BY <2>2, <2>3
<1>6. /\ found \in Seq(Jobs) /\ NoRepeat(found) /\ \A i \in 1 .. Len(found) : found[i] \in Pending
  <2>1. Pending \subseteq Jobs /\ IsFiniteSet(Jobs)
    BY JobQueueAssumption DEF Pending
  <2>2. Cardinality(Pending) \in Nat
    BY <2>1, FS_Subset, FS_CardinalityType
  <2>3. /\ found \in [1 .. Cardinality(Pending) -> Pending]
        /\ \A i, k \in 1 .. Cardinality(Pending) : i # k => found[i] # found[k]
    BY DEF SetToSeqs
  <2>4. found \in Seq(Jobs) /\ Len(found) = Cardinality(Pending)
    BY <2>1, <2>2, <2>3
  <2> QED
    BY <2>3, <2>4 DEF NoRepeat
<1>7. /\ worker[w] \in WorkerType /\ worker[w].inFlight \in Int /\ limit \in Nat
      /\ ring \in Seq(Jobs) /\ Len(ring) <= RingCap /\ Len(ring) \in Nat /\ RingCap \in Nat
      /\ given \in [Jobs -> {"no", "once", "twice"} \cup Causes] /\ Len(found) \in Nat
  BY <1>1, <1>6, JobQueueAssumption DEF QueueTypeOK, WorkerType
<1>8. LoopOK(worker[w]) /\ limit + worker[w].inFlight <= Concurrency
  BY <1>1, <1>3 DEF LoopInv, LoopOK
<1> HIDE DEF limit
<1>9. m \in 0 .. Len(found)
  BY <1>7 DEF SmallerOf
<1> HIDE DEF m
<1>10. /\ all \in Seq(Jobs) /\ Len(all) = m /\ \A i \in 1 .. m : all[i] = found[i]
  BY <1>6, <1>7, <1>9
<1> HIDE DEF all
<1>11. /\ e \in Nat /\ e <= Len(all) /\ e <= limit + RingCap - Len(ring)
       /\ now \in Nat /\ now <= Len(all) /\ now <= limit
  BY <1>7, <1>9, <1>10 DEF SmallerOf
<1> HIDE DEF e, now
<1>12. /\ rest \in Seq(Jobs) /\ Len(rest) <= RingCap - Len(ring) /\ Len(rest) \in Nat
       /\ \A i \in 1 .. Len(rest) : i + limit \in 1 .. Len(all) /\ rest[i] = all[i + limit]
  <2>1. CASE limit + 1 <= e
    <3>1. /\ rest \in Seq(Jobs) /\ Len(rest) = e - limit
          /\ \A i \in 1 .. e - limit : rest[i] = all[i + limit]
      BY <1>7, <1>9, <1>10, <1>11, <2>1
    <3> QED
      BY <1>7, <1>9, <1>10, <1>11, <2>1, <3>1
  <2>2. CASE ~ (limit + 1 <= e)
    <3>1. rest = <<>>
      BY <1>7, <1>10, <1>11, <2>2
    <3>2. <<>> \in Seq(Jobs) /\ Len(<<>>) = 0 /\ 0 <= RingCap - Len(ring)
      BY <1>7
    <3> HIDE DEF rest
    <3> QED
      BY <3>1, <3>2
  <2> QED
    BY <2>1, <2>2
<1> HIDE DEF rest
<1>13. /\ ring' \in Seq(Jobs) /\ Len(ring') = Len(ring) + Len(rest) /\ Len(ring') <= RingCap
       /\ \A i \in 1 .. Len(ring) + Len(rest) :
            ring'[i] = IF i <= Len(ring) THEN ring[i] ELSE rest[i - Len(ring)]
  <2>1. ring \in Seq(Jobs) /\ rest \in Seq(Jobs)
    BY <1>7, <1>12
  <2>2. /\ ring \o rest \in Seq(Jobs) /\ Len(ring \o rest) = Len(ring) + Len(rest)
        /\ \A i \in 1 .. Len(ring) + Len(rest) :
             (ring \o rest)[i] = IF i <= Len(ring) THEN ring[i] ELSE rest[i - Len(ring)]
    BY <2>1
  <2> QED
    BY <1>3, <1>7, <1>12, <2>2
<1>14. NoRepeat(all) /\ \A j \in Jobs : j \in ToSet(all) => j \in Pending
  <2>1. \A i \in 1 .. Len(all) : i \in 1 .. Len(found) /\ all[i] = found[i]
    BY <1>7, <1>9, <1>10
  <2>2. NoRepeat(all)
    BY <1>6, <2>1 DEF NoRepeat
  <2>3. \A i \in DOMAIN all : all[i] \in Pending
    BY <1>6, <1>10, <2>1
  <2> QED
    BY <2>2, <2>3 DEF ToSet
<1>15. \A j \in Jobs : j \in ToSet(all) <=> Has(all, j)
  BY <1>10 DEF ToSet, Has
<1>16. \A j \in Jobs : Has(ring', j) => Has(ring, j) \/ \E i \in 1 .. Len(rest) : rest[i] = j
  <2> SUFFICES ASSUME NEW j \in Jobs, Has(ring', j)
               PROVE  Has(ring, j) \/ \E i \in 1 .. Len(rest) : rest[i] = j
    OBVIOUS
  <2>1. PICK i \in 1 .. Len(ring) + Len(rest) : ring'[i] = j
    BY <1>13 DEF Has
  <2>2. CASE i <= Len(ring)
    <3>1. i \in 1 .. Len(ring) /\ ring[i] = j
      BY <1>7, <1>13, <2>1, <2>2
    <3> QED
      BY <3>1 DEF Has
  <2>3. CASE ~ (i <= Len(ring))
    <3>1. i - Len(ring) \in 1 .. Len(rest) /\ rest[i - Len(ring)] = j
      BY <1>7, <1>12, <1>13, <2>1, <2>3
    <3> QED
      BY <3>1
  <2> QED
    BY <2>2, <2>3
<1>17. \A j \in Jobs : (\E i \in 1 .. Len(rest) : rest[i] = j) => Has(all, j)
  BY <1>12 DEF Has
<1>18. /\ c \in WorkerType /\ c.pc = "commit" /\ c.taken = all /\ c.now = now
       /\ c.batches = worker[w].batches /\ c.ended = worker[w].ended
       /\ c.inFlight = worker[w].inFlight
  BY <1>7, <1>10, <1>11 DEF WorkerType, Pcs
<1> HIDE DEF c
<1>19. LoopOK(c)
  <2>1. now + worker[w].inFlight <= Concurrency
    <3>1. Concurrency \in Int /\ worker[w].inFlight \in Int /\ limit \in Nat /\ now \in Nat
      BY <1>7, <1>11, JobQueueAssumption
    <3>2. limit + worker[w].inFlight <= Concurrency /\ now <= limit
      BY <1>8, <1>11
    <3> QED
      BY <3>1, <3>2
  <2> QED
    BY <1>3, <1>8, <1>11, <1>14, <1>18, <2>1 DEF LoopOK
<1>20. LoopInv' /\ worker'[w] = c /\ \A v \in Workers \ {w} : worker'[v] = worker[v]
  BY <1>1, <1>3, <1>19, LoopsKept
<1>21. QueueTypeOK'
  <2>1. worker' \in [Workers -> WorkerType]
    BY <1>1, <1>3, <1>18 DEF QueueTypeOK
  <2>2. \A v \in Workers : worker'[v].inFlight <= Concurrency
    BY <1>1, <1>18, <1>20 DEF QueueTypeOK
  <2> QED
    BY <1>1, <1>3, <1>5, <1>13, <2>1, <2>2 DEF QueueTypeOK
<1>22. NewInv'
  <2>1. ASSUME NEW j \in Jobs, enq[j] \in {"no", "ring"}
        PROVE  ~ Has(all, j)
    <3>1. j \notin Pending
      BY <1>1, <2>1 DEF NewInv, Pending
    <3> QED
      BY <1>14, <1>15, <3>1
  <2>2. ASSUME NEW j \in Jobs, enq[j] = "no"
        PROVE  /\ given'[j] = given[j]
               /\ Has(ring', j) => Has(ring, j)
               /\ \A v \in Workers : Has(worker'[v].taken, j) => Has(worker[v].taken, j)
    <3>1. ~ Has(all, j)
      BY <2>1, <2>2
    <3> QED
      BY <1>4, <1>15, <1>16, <1>17, <1>18, <1>20, <3>1
  <2>3. \A j \in Jobs : enq[j] \in {"no", "ring"} =>
          disk'[j] = "none" /\ row'[j] = "none" /\ "new" \notin seen'[j] /\ j \notin reclaim'
    BY <1>1, <1>3 DEF NewInv
  <2> QED
    BY <1>1, <1>3, <2>2, <2>3, NewKept
<1>23. /\ \A j \in Jobs : Busy(worker'[w], j) <=> Busy(worker[w], j)
       /\ \A j \in Jobs : First(worker'[w], j) => Has(all, j)
  BY <1>18, <1>20 DEF Busy, First, Has
<1>24. JobInv'
  <2> SUFFICES ASSUME NEW j \in Jobs
               PROVE  (/\ given[j] # "twice"
                       /\ Clean(j) => WaitsOnce(j)
                       /\ given[j] = "once" => OutOnce(j))'
    BY DEF JobInv
  <2>1. /\ given[j] # "twice"
        /\ Clean(j) => WaitsOnce(j)
        /\ given[j] = "once" => OutOnce(j)
    BY <1>1 DEF JobInv
  <2>2. CASE given'[j] \in Causes
    BY <2>2 DEF Clean, Causes
  <2>3. CASE given'[j] \notin Causes /\ ~ Has(all, j)
    <3>1. given'[j] = given[j] /\ (Has(ring', j) => Has(ring, j))
      BY <1>4, <1>15, <1>16, <1>17, <2>3
    <3>2. \A v \in Workers : /\ First(worker'[v], j) => First(worker[v], j)
                             /\ Busy(worker[v], j) => Busy(worker'[v], j)
      BY <1>20, <1>23, <2>3
    <3>3. ASSUME Clean(j)' PROVE WaitsOnce(j)'
      <4>1. WaitsOnce(j)
        BY <2>1, <3>1, <3>3 DEF Clean
      <4>2. ASSUME NEW i \in 1 .. Len(ring'), NEW k \in 1 .. Len(ring'), ring'[i] = j, ring'[k] = j
            PROVE  i = k
        <5>1. \A n \in 1 .. Len(rest) : rest[n] # j
          BY <1>17, <2>3
        <5>2. ASSUME NEW n \in 1 .. Len(ring'), ring'[n] = j
              PROVE  n \in 1 .. Len(ring)
          <6> SUFFICES ASSUME ~ (n <= Len(ring))
                       PROVE  FALSE
            BY <1>7, <1>13
          <6>1. n - Len(ring) \in 1 .. Len(rest) /\ rest[n - Len(ring)] = j
            BY <1>7, <1>12, <1>13, <5>2
          <6> QED
            BY <5>1, <6>1
        <5>3. i \in 1 .. Len(ring) /\ k \in 1 .. Len(ring)
          BY <4>2, <5>2
        <5>4. ring[i] = j /\ ring[k] = j
          BY <1>7, <1>12, <1>13, <4>2, <5>3
        <5> QED
          BY <4>1, <5>3, <5>4 DEF WaitsOnce
      <4> QED
        BY <3>1, <3>2, <4>1, <4>2 DEF WaitsOnce
    <3>4. ASSUME given'[j] = "once" PROVE OutOnce(j)'
      <4>1. OutOnce(j)
        BY <2>1, <3>1, <3>4
      <4> QED
        BY <1>3, <3>1, <3>2, <4>1 DEF OutOnce
    <3> QED
      BY <2>1, <3>1, <3>3, <3>4
  <2>4. CASE given'[j] \notin Causes /\ Has(all, j)
    <3>1. given'[j] = given[j] /\ row[j] = "pending" /\ j \notin InHand
      BY <1>4, <1>15, <2>4 DEF Causes
    <3>2. given[j] # "once"
      BY <2>1, <3>1 DEF OutOnce
    <3>3. ~ Has(ring, j) /\ \A v \in Workers : ~ Has(worker[v].taken, j)
      BY <1>1, <3>1, InHandIs
    <3>4. \A v \in Workers : First(worker'[v], j) => v = w
      BY <1>20, <3>3 DEF First, Has
    <3>5. ASSUME NEW i \in 1 .. Len(ring'), ring'[i] = j
          PROVE  /\ i - Len(ring) \in 1 .. Len(rest)
                 /\ i - Len(ring) + limit \in 1 .. Len(all)
                 /\ all[i - Len(ring) + limit] = j
      <4>1. ~ (i <= Len(ring))
        <5> SUFFICES ASSUME i <= Len(ring)
                     PROVE  FALSE
          OBVIOUS
        <5>1. i \in 1 .. Len(ring) /\ ring[i] = j
          BY <1>7, <1>12, <1>13, <3>5
        <5> QED
          BY <3>3, <5>1 DEF Has
      <4>2. i - Len(ring) \in 1 .. Len(rest) /\ rest[i - Len(ring)] = j
        BY <1>7, <1>12, <1>13, <3>5, <4>1
      <4> QED
        BY <1>12, <4>2
    <3>6. \A i, k \in 1 .. Len(ring') : ring'[i] = j /\ ring'[k] = j => i = k
      <4> SUFFICES ASSUME NEW i \in 1 .. Len(ring'), NEW k \in 1 .. Len(ring'),
                          ring'[i] = j, ring'[k] = j
                   PROVE  i = k
        OBVIOUS
      <4>1. i - Len(ring) + limit = k - Len(ring) + limit
        BY <1>14, <3>5 DEF NoRepeat
      <4> QED
        BY <1>7, <1>13, <4>1
    <3>7. First(worker'[w], j) => ~ Has(ring', j)
      <4> SUFFICES ASSUME First(c, j), Has(ring', j)
                   PROVE  FALSE
        BY <1>20
      <4>1. PICK i \in 1 .. Len(all) : i <= now /\ all[i] = j
        BY <1>18 DEF First
      <4>2. PICK k \in 1 .. Len(ring') : ring'[k] = j
        BY DEF Has
      <4>3. i = k - Len(ring) + limit
        BY <1>14, <3>5, <4>1, <4>2 DEF NoRepeat
      <4>4. k - Len(ring) \in 1 .. Len(rest)
        BY <3>5, <4>2
      <4> QED
        BY <1>7, <1>11, <1>12, <1>13, <4>1, <4>2, <4>3, <4>4
    <3>8. WaitsOnce(j)'
      BY <3>4, <3>6, <3>7 DEF WaitsOnce
    <3> QED
      BY <2>1, <3>1, <3>2, <3>8
  <2> QED
    BY <2>2, <2>3, <2>4
<1> QED
  BY <1>20, <1>21, <1>22, <1>24 DEF QueueInv
-----------------------------------------------------------------------------

LEMMA QueueInitOK == QueueInit => QueueInv
<1> SUFFICES ASSUME QueueInit
             PROVE  QueueInv
  OBVIOUS
<1>1. /\ Idle \in WorkerType /\ Idle.pc = "idle" /\ Idle.batches = <<>> /\ Idle.inFlight = 0
      /\ Idle.taken = <<>> /\ Idle.now = 0 /\ Idle.ended = {}
  BY DEF Idle, WorkerType, Pcs
<1>2. /\ disk = [j \in Jobs |-> "none"] /\ row = disk /\ seen = [j \in Jobs |-> {}]
      /\ ring = <<>> /\ reclaim = {} /\ enq = [j \in Jobs |-> "no"]
      /\ worker = [w \in Workers |-> Idle] /\ given = [j \in Jobs |-> "no"]
  BY DEF QueueInit
<1>3. QueueTypeOK
  BY <1>1, <1>2, JobQueueAssumption DEF QueueTypeOK, Status
<1>4. LoopInv
  BY <1>1, <1>2 DEF LoopInv, LoopOK, NoRepeat
<1>5. \A w \in Workers, j \in Jobs : ~ First(worker[w], j) /\ ~ Has(worker[w].taken, j)
  BY <1>1, <1>2 DEF First, Has
<1>6. \A j \in Jobs : ~ Has(ring, j)
  BY <1>2 DEF Has
<1>7. NewInv
  BY <1>2, <1>5, <1>6 DEF NewInv
<1>8. JobInv
  BY <1>2, <1>5 DEF JobInv, Clean, WaitsOnce
<1> QED
  BY <1>3, <1>4, <1>7, <1>8 DEF QueueInv

LEMMA QueueStep == QueueInv /\ [QueueNext]_queueVars => QueueInv'
<1> SUFFICES ASSUME QueueInv, [QueueNext]_queueVars
             PROVE  QueueInv'
  OBVIOUS
<1>1. ASSUME NEW j \in Jobs, \/ EnqueueRow(j) \/ EnqueueRing(j) \/ EnqueueBatchRing(j)
                             \/ EnqueueBatchRow(j) \/ ReclaimPush(j) \/ Prune(j)
      PROVE  QueueInv'
  BY <1>1, EnqueueRowKeeps, EnqueueRingKeeps, EnqueueBatchRingKeeps, EnqueueBatchRowKeeps,
     ReclaimPushKeeps, PruneKeeps
<1>2. ASSUME NEW w \in Workers, Process(w) \/ Loop(w) \/ HandlersEnd(w) \/ FlushTimer(w)
      PROVE  QueueInv'
  <2>1. CASE Process(w)
    BY <2>1, ProcessKeeps
  <2>2. CASE Loop(w)
    BY <2>2, TakeFromRingKeeps, AskKeeps, SelectKeeps, CommitKeeps, FindNothingKeeps,
       WaitForRoomKeeps, ExitKeeps, CleanupKeeps DEF Loop
  <2>3. CASE HandlersEnd(w)
    BY <2>3, HandlerEndsKeeps
  <2>4. CASE FlushTimer(w)
    BY <2>4, FlushTimerKeeps
  <2> QED
    BY <1>2, <2>1, <2>2, <2>3, <2>4
<1>3. CASE Flush
  BY <1>3, FlushKeeps
<1>4. CASE ReclaimRead
  BY <1>4, ReclaimReadKeeps
<1>5. CASE Stop
  <2>1. UNCHANGED <<disk, row, seen, ring, enq, worker, reclaim, given>>
    BY <1>5 DEF Stop, rows
  <2> QED
    BY <2>1, StutterKeeps
<1>6. CASE Crash
  BY <1>6, CrashKeeps
<1>7. CASE UNCHANGED queueVars
  <2>1. UNCHANGED <<disk, row, seen, ring, enq, worker, reclaim, given>>
    BY <1>7 DEF queueVars, rows
  <2> QED
    BY <2>1, StutterKeeps
<1> QED
  BY <1>1, <1>2, <1>3, <1>4, <1>5, <1>6, <1>7 DEF QueueNext

LEMMA QueueInvariant == QueueSpec => []QueueInv
BY QueueInitOK, QueueStep, PTL DEF QueueSpec

\* SqliteQueue hands a job to a handler once, unless one of the named causes has
\* befallen it, for any jobs, calls of process(), capacities and limits: a clean
\* job waits in one place at most, and none after it was handed out, and its row
\* then says processing only while somebody is to report its end.
THEOREM HandedOnce == QueueSpec => []Once
<1>1. QueueInv => Once
  BY DEF QueueInv, JobInv, Once
<1> QED
  BY <1>1, QueueInvariant, PTL

\* When a process() of SqliteQueue has ended, so have the handlers it started, and
\* what they reported has been pushed, whoever called stop() or process() meanwhile.
THEOREM NothingUnreported == QueueSpec => []ReportedBeforeExit
<1>1. QueueInv => ReportedBeforeExit
  BY DEF QueueInv, LoopInv, LoopOK, ReportedBeforeExit, Unreported
<1> QED
  BY <1>1, QueueInvariant, PTL
=============================================================================

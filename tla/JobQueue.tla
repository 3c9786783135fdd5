------------------------------ MODULE JobQueue ------------------------------
(***************************************************************************)
(* SqliteQueue (infrastructure/queue/SqliteQueue.ts): jobs as rows behind  *)
(* the write-behind pool, a ring of jobs in memory read before the rows,   *)
(* and the loop of process() with its pipelined batches.                   *)
(*                                                                         *)
(* A job is a model value with a fresh id; payload, priority, delay,       *)
(* attempts and how its handler ends are left out.  The pool is what       *)
(* selectWhere() makes of it: a row on disk and the operations on it that  *)
(* are buffered or in flight, which land in order.  A read by status       *)
(* applies only the buffered operations that carry that status.  The queue *)
(* is on the main shard and its pool loses nothing except in a crash       *)
(* (DbPool's subject).                                                     *)
(***************************************************************************)
EXTENDS Integers, Sequences, FiniteSets, SequencesExt, FiniteSetsExt

CONSTANTS Jobs, Workers,   \* calls of process()
          RingCap,         \* maxMemoryBufferSize - 1
          BatchSize, Concurrency,
          MaxStops, MaxCrashes   \* bounds

ASSUME JobQueueAssumption ==
  /\ IsFiniteSet(Jobs)
  /\ {RingCap, MaxStops, MaxCrashes} \subseteq Nat
  /\ {BatchSize, Concurrency} \subseteq Nat \ {0}

VARIABLES disk,      \* per job, the status of its row on disk
          row,       \* the same with every pushed operation applied
          seen,      \* per job, the marked operations pushed and not yet on disk
          ring,      \* pendingMemoryBuffer
          enq,       \* per job, how far its enqueue() or enqueueBatch() is
          isProcessing, stopRequested,
          worker,    \* per call of process(), its closure
          reclaim,   \* stale jobs read and not yet put back
          stops, crashes

VARIABLE given  \* history, since the last crash: whether a job was handed to a
                \* handler, or the first cause to hand it out again

flags == <<isProcessing, stopRequested>>
rows == <<disk, row, seen>>
bounds == <<stops, crashes>>
queueVars == <<rows, ring, enq, flags, worker, reclaim, bounds, given>>

Status == {"none", "pending", "processing", "ended"}   \* ended: done or failed
Marked == {"new", "processing"}   \* "new": the insert or upsert of an enqueue

\* batches: per unfinished batch, its jobs, and which of them still run;
\* inFlight: inFlightJobs; now: the limit of the current dequeueBatch(), then how
\* many of the rows it read, taken, it hands out.
Idle == [pc |-> "idle", batches |-> <<>>, inFlight |-> 0, taken |-> <<>>, now |-> 0,
         ended |-> {}]

QueueInit ==
  /\ disk = [j \in Jobs |-> "none"]
  /\ row = disk /\ seen = [j \in Jobs |-> {}]
  /\ ring = <<>> /\ reclaim = {}
  /\ enq = [j \in Jobs |-> "no"]
  /\ isProcessing = FALSE /\ stopRequested = FALSE
  /\ worker = [w \in Workers |-> Idle]
  /\ stops = 0 /\ crashes = 0
  /\ given = [j \in Jobs |-> "no"]

-----------------------------------------------------------------------------
(* Rows *)

\* An update finds no row before the insert.
Apply(status, op) == IF op = "new" THEN "pending"
                     ELSE IF status = "none" THEN "none" ELSE op

Push(set, op) ==
  /\ row' = [j \in Jobs |-> IF j \in set THEN Apply(row[j], op) ELSE row[j]]
  /\ seen' = [j \in Jobs |-> IF j \in set THEN seen[j] \cup ({op} \cap Marked) ELSE seen[j]]

\* selectWhere(status = pending): rows on disk, and buffered inserts; a buffered
\* update to another status is not seen.
Pending == {j \in Jobs : disk[j] = "pending" \/ "new" \in seen[j]}

\* selectWhere(status = processing, updatedAt < threshold): rows that are old when
\* time passes; a buffered update to processing makes the row young again.
ProcessingOverlaid == {j \in Jobs : disk[j] = "processing" /\ "processing" \in seen[j]}
Processing == {j \in Jobs : disk[j] = "processing" /\ "processing" \notin seen[j]}

\* Every buffered operation becomes part of its row, in one transaction.
Buffered(j) == seen[j] # {} \/ row[j] # disk[j]
NothingBuffered == \A j \in Jobs : ~ Buffered(j)
Flush ==
  /\ ~ NothingBuffered
  /\ disk' = row
  /\ seen' = [j \in Jobs |-> {}]
  /\ UNCHANGED <<row, ring, enq, flags, worker, reclaim, bounds, given>>

-----------------------------------------------------------------------------
(* enqueue() pushes the row and then fills the ring; enqueueBatch() fills the *)
(* ring with all its jobs before it pushes their rows.                        *)

SmallerOf(a, b) == IF a < b THEN a ELSE b
Fits == Len(ring) < RingCap
PutInRing(j) == ring' = IF Fits THEN Append(ring, j) ELSE ring
Causes == {"late", "overlay", "both", "early", "loops"}
Caused(set, cause) ==
  [j \in Jobs |-> IF j \in set /\ given[j] \notin Causes THEN cause ELSE given[j]]
Blame(set, cause) == given' = Caused(set, cause)

\* Jobs the queue holds in memory or has handed out.
Held(w) == (UNION {{b.jobs[i] : i \in b.left} : b \in ToSet(worker[w].batches)})
           \cup ToSet(worker[w].taken)
Unreported(w) == worker[w].ended    \* pendingCompletions and pendingFailures
InHand == ToSet(ring) \cup UNION {Held(w) \cup Unreported(w) : w \in Workers}

EnqueueRow(j) ==
  /\ enq[j] = "no"
  /\ Push({j}, "new")
  /\ enq' = [enq EXCEPT ![j] = "row"]
  /\ UNCHANGED <<disk, ring, flags, worker, reclaim, bounds, given>>

\* The await of the push lets a reader of the row in.
EnqueueRing(j) ==
  /\ enq[j] = "row"
  /\ PutInRing(j)
  /\ enq' = [enq EXCEPT ![j] = "yes"]
  /\ Blame(IF Fits /\ (given[j] # "no" \/ j \in InHand) THEN {j} ELSE {}, "both")
  /\ UNCHANGED <<rows, flags, worker, reclaim, bounds>>

EnqueueBatchRing(j) ==
  /\ enq[j] = "no"
  /\ PutInRing(j)
  /\ enq' = [enq EXCEPT ![j] = "ring"]
  /\ UNCHANGED <<rows, flags, worker, reclaim, bounds, given>>

\* The row comes after the job has been handed out: updates of it are lost.
EnqueueBatchRow(j) ==
  /\ enq[j] = "ring"
  /\ Push({j}, "new")
  /\ enq' = [enq EXCEPT ![j] = "yes"]
  /\ Blame(IF given[j] # "no" THEN {j} ELSE {}, "early")
  /\ UNCHANGED <<disk, ring, flags, worker, reclaim, bounds>>

-----------------------------------------------------------------------------
(* dequeueBatch() *)

Running(w) == worker[w].pc \notin {"idle", "drain"}
Limit(w) == SmallerOf(BatchSize, Concurrency - worker[w].inFlight)
Ready(w) == worker[w].pc = "loop" /\ ~ stopRequested /\ Limit(w) > 0

\* Jobs handed to the handler.
Batch(jobs) == [jobs |-> jobs, left |-> DOMAIN jobs]
Started(c, jobs) == [c EXCEPT !.batches = Append(@, Batch(jobs)), !.inFlight = @ + Len(jobs)]
Single(jobs, j) == \A i, k \in DOMAIN jobs : jobs[i] = j /\ jobs[k] = j => i = k
Delivered(g, jobs) ==
  [j \in Jobs |-> IF j \notin ToSet(jobs) \/ g[j] \in Causes THEN g[j]
                  ELSE IF g[j] = "no" /\ Single(jobs, j) THEN "once"
                  ELSE "twice"]

\* From the ring; the update of the rows is pushed and not awaited.
Taken(limit) == SubSeq(ring, 1, SmallerOf(limit, Len(ring)))
LeavesLast(limit) == SubSeq(ring, SmallerOf(limit, Len(ring)), Len(ring))
LeftInRing(limit) == SubSeq(ring, SmallerOf(limit, Len(ring)) + 1, Len(ring))

TakeFromRing(w) ==
  /\ Ready(w) /\ ring # <<>>
  /\ LET jobs == Taken(Limit(w)) IN
       /\ Push(ToSet(jobs), "processing")
       /\ worker' = [worker EXCEPT ![w] = Started(@, jobs)]
       /\ given' = Delivered(given, jobs)
  /\ ring' = LeftInRing(Limit(w))
  /\ UNCHANGED <<disk, enq, flags, reclaim, bounds>>

\* The ring is empty: the rows are asked for.
Ask(w) ==
  /\ Ready(w) /\ ring = <<>>
  /\ worker' = [worker EXCEPT ![w].pc = "read", ![w].now = Limit(w)]
  /\ UNCHANGED <<rows, ring, enq, flags, reclaim, bounds, given>>

\* From the rows: twice the limit is read, the second half is put in the ring.
Select(w) ==
  /\ worker[w].pc = "read" /\ Pending # {}
  /\ \E found \in SetToSeqs(Pending) :
       LET limit == worker[w].now
           all == SubSeq(found, 1, SmallerOf(2 * limit, Len(found)))
           rest == SubSeq(all, limit + 1, SmallerOf(Len(all), limit + RingCap - Len(ring)))
       IN /\ worker' = [worker EXCEPT ![w].pc = "commit", ![w].taken = all,
                                     ![w].now = SmallerOf(limit, Len(all))]
          /\ ring' = ring \o rest
          /\ given' = [j \in Jobs |->
               IF j \notin ToSet(all) \/ given[j] \in Causes THEN given[j]
               ELSE IF row[j] # "pending" THEN "overlay"
               ELSE IF j \in ToSet(ring) THEN "both"
               ELSE IF j \in InHand THEN "loops" ELSE given[j]]
  /\ UNCHANGED <<rows, enq, flags, reclaim, bounds>>

\* commitWork(): the rows read are processing, the first half is handed out.  The
\* other half is in the ring, where a second loop may have taken it, and ended it.
Commit(w) ==
  LET all == worker[w].taken
      jobs == SubSeq(all, 1, worker[w].now)
      rest == SubSeq(all, worker[w].now + 1, Len(all))
      lapped == {j \in ToSet(rest) : row[j] = "ended"} IN
  /\ worker[w].pc = "commit"
  /\ Push(ToSet(all), "processing")
  /\ worker' = [worker EXCEPT ![w] =
       [Started(@, jobs) EXCEPT !.pc = "loop", !.taken = <<>>, !.now = 0]]
  /\ given' = Delivered(Caused(lapped, "loops"), jobs)
  /\ UNCHANGED <<disk, ring, enq, flags, reclaim, bounds>>

-----------------------------------------------------------------------------
(* The loop of process() *)

Goto(w, pc) == worker' = [worker EXCEPT ![w].pc = pc]

\* flushCompletions(): what the handlers reported becomes updates of the rows;
\* a handler that threw makes its job failed at the first attempt.
Reports(w) == Push(Unreported(w), "ended")
Cleared(c) == [c EXCEPT !.ended = {}]

Process(w) ==
  /\ ~ isProcessing /\ worker[w].pc = "idle"
  /\ isProcessing' = TRUE /\ stopRequested' = FALSE
  /\ Goto(w, "loop")
  /\ UNCHANGED <<rows, ring, enq, reclaim, bounds, given>>

\* Nothing to dequeue: report, then wait for a batch, or poll again.
FindNothing(w) ==
  /\ worker[w].pc = "read" /\ Pending = {}
  /\ Reports(w)
  /\ worker' = [worker EXCEPT ![w] =
       [Cleared(@) EXCEPT !.pc = IF worker[w].batches = <<>> THEN "loop" ELSE "race",
                          !.now = 0]]
  /\ UNCHANGED <<disk, ring, enq, flags, reclaim, bounds, given>>

\* With all it may have in flight it waits for a batch.
WaitForRoom(w) ==
  /\ worker[w].pc = "loop" /\ ~ stopRequested /\ Limit(w) <= 0
  /\ Goto(w, "race")
  /\ UNCHANGED <<rows, ring, enq, flags, reclaim, bounds, given>>

\* The handler of one job returns or throws.  The end of the batch wakes a loop
\* that waits for one.
HandlerEnds(w, b, i) ==
  LET c == worker[w]
      j == c.batches[b].jobs[i]
      ends == c.batches[b].left = {i}
      after(d) == IF ~ ends THEN [d EXCEPT !.batches[b].left = @ \ {i}]
                  ELSE [d EXCEPT !.batches = RemoveAt(@, b),
                                 !.inFlight = @ - Len(c.batches[b].jobs),
                                 !.pc = IF @ = "race" THEN "loop" ELSE @]
  IN
  /\ i \in c.batches[b].left
  /\ worker' = [worker EXCEPT ![w] = after([c EXCEPT !.ended = @ \cup {j}])]
  /\ UNCHANGED <<rows, ring, enq, flags, reclaim, bounds, given>>

\* A completion sets a timer unless the last flush was just now, a failure only
\* when there is a batch of them: there may be one or not.
FlushTimer(w) ==
  /\ Unreported(w) # {}
  /\ Reports(w)
  /\ worker' = [worker EXCEPT ![w] = Cleared(@)]
  /\ UNCHANGED <<disk, ring, enq, flags, reclaim, bounds, given>>

Exit(w) ==
  /\ worker[w].pc = "loop" /\ stopRequested
  /\ Goto(w, "drain")
  /\ UNCHANGED <<rows, ring, enq, flags, reclaim, bounds, given>>

CleanupAtOnce(w) ==
  /\ worker[w].pc = "drain"
  /\ Reports(w)
  /\ worker' = [worker EXCEPT ![w] = [Cleared(@) EXCEPT !.pc = "idle"]]
  /\ isProcessing' = FALSE
  /\ UNCHANGED <<disk, ring, enq, stopRequested, reclaim, bounds, given>>

\* The batches in flight end first.  The flag is cleared even when another
\* process() has set it meanwhile.
Cleanup(w) ==
  /\ worker[w].pc = "drain" /\ worker[w].batches = <<>>
  /\ Reports(w)
  /\ worker' = [worker EXCEPT ![w] = [Cleared(@) EXCEPT !.pc = "idle"]]
  /\ isProcessing' = FALSE
  /\ UNCHANGED <<disk, ring, enq, stopRequested, reclaim, bounds, given>>

\* stop() does not wait for the loop.
Stop ==
  /\ stops < MaxStops
  /\ stops' = stops + 1
  /\ stopRequested' = TRUE /\ isProcessing' = FALSE
  /\ UNCHANGED <<rows, ring, enq, worker, reclaim, crashes, given>>

-----------------------------------------------------------------------------
(* Maintenance, on a timer of each running process() *)

ReclaimRead ==
  /\ \E w \in Workers : Running(w)
  /\ reclaim = {}
  /\ \E stale \in SUBSET Processing \ {{}} : reclaim' = stale
  /\ UNCHANGED <<rows, ring, enq, flags, worker, bounds, given>>

\* The job is pending again, whatever has become of it since.
ReclaimPush(j) ==
  /\ j \in reclaim
  /\ Push({j}, "pending")
  /\ reclaim' = reclaim \ {j}
  /\ Blame(IF j \in InHand \/ row[j] # "processing" THEN {j} ELSE {}, "late")
  /\ UNCHANGED <<disk, ring, enq, flags, worker, bounds>>

\* A row that has been done for a day is deleted.
Prune(j) ==
  /\ \E w \in Workers : Running(w)
  /\ disk[j] = "ended" /\ ~ Buffered(j)
  /\ disk' = [disk EXCEPT ![j] = "none"]
  /\ row' = [row EXCEPT ![j] = "none"]
  /\ UNCHANGED <<seen, ring, enq, flags, worker, reclaim, bounds, given>>

\* What is only in memory is gone, an enqueue that has not returned is made again.
Crash ==
  /\ crashes < MaxCrashes
  /\ crashes' = crashes + 1
  /\ row' = disk /\ seen' = [j \in Jobs |-> {}]
  /\ ring' = <<>> /\ reclaim' = {}
  /\ enq' = [j \in Jobs |-> IF disk[j] = "none" /\ enq[j] # "yes" THEN "no" ELSE "yes"]
  /\ isProcessing' = FALSE /\ stopRequested' = FALSE
  /\ worker' = [w \in Workers |-> Idle]
  /\ given' = [j \in Jobs |-> "no"]
  /\ UNCHANGED <<disk, stops>>

Loop(w) == \/ TakeFromRing(w) \/ Ask(w) \/ Select(w) \/ Commit(w) \/ FindNothing(w)
           \/ WaitForRoom(w) \/ Exit(w) \/ Cleanup(w)
HandlersEnd(w) == \E b \in DOMAIN worker[w].batches :
                    \E i \in worker[w].batches[b].left : HandlerEnds(w, b, i)

QueueNext ==
  \/ \E j \in Jobs : \/ EnqueueRow(j) \/ EnqueueRing(j)
                     \/ EnqueueBatchRing(j) \/ EnqueueBatchRow(j)
                     \/ ReclaimPush(j) \/ Prune(j)
  \/ \E w \in Workers : Process(w) \/ Loop(w) \/ HandlersEnd(w) \/ FlushTimer(w)
  \/ Flush \/ ReclaimRead \/ Stop \/ Crash

\* The event loop runs what is ready, handlers return, the pool flushes, time
\* passes, and the maintenance timer fires; a flush timer may never be set.
\* Nobody has to enqueue, to call process() or stop(), or to crash.
QueueFairness ==
  /\ \A w \in Workers : WF_queueVars(Loop(w)) /\ WF_queueVars(HandlersEnd(w))
  /\ \A j \in Jobs : /\ WF_queueVars(EnqueueRing(j)) /\ WF_queueVars(EnqueueBatchRow(j))
                     /\ WF_queueVars(ReclaimPush(j))
  /\ WF_queueVars(Flush) /\ WF_queueVars(ReclaimRead)

QueueSpec == QueueInit /\ [][QueueNext]_queueVars /\ QueueFairness

-----------------------------------------------------------------------------
(* Properties *)

Pcs == {"idle", "loop", "read", "commit", "race", "drain"}
BatchType == [jobs: Seq(Jobs), left: SUBSET Nat]
WorkerType == [pc: Pcs, batches: Seq(BatchType), inFlight: Int, taken: Seq(Jobs),
               now: Nat, ended: SUBSET Jobs]

\* Types of the queue's state; the ring never exceeds its capacity and no loop
\* has more jobs in flight than its concurrency.
QueueTypeOK ==
  /\ disk \in [Jobs -> Status] /\ row \in [Jobs -> Status]
  /\ seen \in [Jobs -> SUBSET Marked]
  /\ ring \in Seq(Jobs) /\ Len(ring) <= RingCap
  /\ enq \in [Jobs -> {"no", "row", "ring", "yes"}]
  /\ worker \in [Workers -> WorkerType]
  /\ \A w \in Workers : worker[w].inFlight <= Concurrency
  /\ reclaim \subseteq Jobs
  /\ given \in [Jobs -> {"no", "once", "twice"} \cup Causes]

\* The queue hands a job to a handler once, and again only for one of the causes
\* this code has: it was reclaimed while something still had it ("late"), the
\* read of pending rows did not see that it was taken ("overlay"), it came from
\* the rows and, before or after, from the ring ("both"), enqueueBatch() pushed
\* its row after it was handed out ("early"), or two loops had it: both read it,
\* or one read it and the other ended it before the first committed ("loops").
Once == QueueTypeOK /\ \A j \in Jobs : given[j] # "twice"

\* "Dequeue multiple jobs atomically using a transaction" (dequeueBatch): the
\* transaction does not read as pending a job that has been taken.
DequeuedOnce == \A j \in Jobs : given[j] # "overlay"

\* When a process() has ended, every handler it started has ended and what the
\* handlers reported has been pushed.
ReportedBeforeExit ==
  \A w \in Workers : worker[w].pc = "idle" =>
    worker[w].batches = <<>> /\ Unreported(w) = {}

\* As long as a loop runs, the handler of every enqueued job returns or throws in
\* the end, also when the loop that had the job was stopped or the process crashed.
Handled ==
  \A j \in Jobs :
    enq[j] = "yes" /\ row[j] \in {"pending", "processing"}
      ~> \/ row[j] = "ended"
         \/ \E w \in Workers : j \in Unreported(w)
         \/ ~ \E w \in Workers : Running(w)
=============================================================================

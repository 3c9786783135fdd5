------------------------------- MODULE DbPool -------------------------------
(***************************************************************************)
(* BufferedDbPool: the write-behind layer over SQLite of BroccoliDB.       *)
(*                                                                         *)
(* Writes are appended to an active buffer; a flush swaps the buffers,     *)
(* commits the swapped-out (in-flight) batch in one SQLite transaction and *)
(* then empties it.  Agents collect writes in a private shadow that commit *)
(* moves into the active buffer.  Reads merge the disk with the in-flight  *)
(* and active buffers.  The pool is asynchronous JavaScript: an action is  *)
(* the code between two awaits of one task, and tasks interleave at every  *)
(* await.                                                                  *)
(*                                                                         *)
(* A write operation is an identifier: what it writes does not matter to   *)
(* where it is.                                                            *)
(***************************************************************************)
EXTENDS Naturals, Sequences, FiniteSets, FifoMutex

CONSTANTS
    Ops,        \* write operations, each pushed at most once
    Agents,     \* shadow transactions (one per beginWork .. commitWork)
    TxnOps,     \* TxnOps[a]: the operations agent a pushes to its shadow
    Callers,    \* slots for concurrent flush() runs: timer callbacks and callers
    Stopper,    \* the task running stop()
    Readers,    \* selectWhere() calls
    Janitor,    \* the shadow clean-up task
    MaxRetries, \* BUSY retries of one flush (3 in the code)
    SyncDriver, \* TRUE: SQLite calls never yield to the event loop (see TimerTurn)
    Budget      \* bound of each environment event, see EnvEvents

(* Events of the environment, counted so that runs stay finite:             *)
(*   call: flush() by a user of the pool (backpressure, callers of flush);  *)
(*   busy: a flush transaction fails with SQLITE_BUSY, LOCKED or deadlock;  *)
(*   fatal: it fails with any other error;                                  *)
(*   timeout: a mutex waiter but a reader gives up after 30 s;              *)
(*   readtimeout: a reader does;                                            *)
(*   expiry: the shadow clean-up runs;                                      *)
(*   startfail: opening the database fails;                                 *)
(*   kill: the process dies.                                                *)
EnvEvents == {"call", "busy", "fatal", "timeout", "readtimeout", "expiry", "startfail", "kill"}

FlushTasks == Callers \cup {Stopper}
Tasks == FlushTasks \cup Agents \cup Readers \cup {Janitor}

ASSUME DbPoolAssumption ==
    /\ TxnOps \in [Agents -> SUBSET Ops]
    /\ \A a, b \in Agents : a # b => TxnOps[a] \cap TxnOps[b] = {}
    /\ Stopper \notin Callers \cup Agents \cup Readers
    /\ Janitor \notin FlushTasks \cup Agents \cup Readers
    /\ Callers \cap Agents = {} /\ Callers \cap Readers = {} /\ Agents \cap Readers = {}
    /\ MaxRetries \in Nat
    /\ SyncDriver \in BOOLEAN
    /\ Budget \in [EnvEvents -> Nat]

PlainOps == Ops \ UNION {TxnOps[a] : a \in Agents}

VARIABLES
    lifecycle,  \* lifecycleState, or "crashed" when the process has ended
    timer,      \* flushTimeout: none, scheduled, or cleared by stop()
    buf,        \* bufferA, bufferB and the Map inFlightOps starts with
    active,     \* which Map activeBuffer names
    inflight,   \* which Map inFlightOps names
    shadows,    \* agents with an entry in agentShadows
    shadow,     \* the operations of that entry
    stateMutex,
    flushMutex,
    fl,         \* the flush() runs: where each is, and its locals
    ag,         \* the agents' transactions: where each is, what it pushed
    rd,         \* the reads: where each is, what it must see, what it saw
    jpc,        \* the clean-up task
    accepted,   \* history: operations handed to the active buffer
    committed,  \* history: committed[a], what commitWork(a) handed over
    applied,    \* the disk: how often each operation was committed
    deadLetters,\* operations in the dead-letter queue and the emergency journal
    count       \* environment events so far

poolVars == <<buf, active, inflight>>
shadowVars == <<shadows, shadow>>
histVars == <<accepted, committed>>
diskVars == <<applied, deadLetters>>
vars == <<lifecycle, timer, poolVars, shadowVars, stateMutex, flushMutex, fl, ag, rd, jpc,
          histVars, diskVars, count>>

Bufs == {"A", "B", "I"}
Lifecycles == {"new", "starting", "started", "stopping", "stopped", "crashed"}
Timers == {"off", "on", "cleared"}
FlushPcs == {"idle", "waitStart", "waitFlush", "waitState", "exec", "durable", "waitClear",
             "delay", "waitFail", "returned", "waitResched"}
AgentPcs == {"idle", "waitBegin", "open", "waitShadow", "waitCommit", "waitRollback",
             "committed", "rolledback", "aborted"}

(* A run of flush(): who awaits it, opsToFlush, retryCount, and how the     *)
(* transaction or the run itself ended.                                     *)
FlushRun == [pc: FlushPcs, kind: {"call", "timer", "stop1", "stop2"}, ops: SUBSET Ops,
             retry: Nat, res: {"ok", "busy", "fatal", "rejected"}]
NoFlush == [pc |-> "idle", kind |-> "call", ops |-> {}, retry |-> 0, res |-> "ok"]

(* A transaction: the operations its pushes were called with, and those of  *)
(* the push that waits for a new shadow.                                    *)
AgentRun == [pc: AgentPcs, pushed: SUBSET Ops, pending: SUBSET Ops]
NoAgent == [pc |-> "idle", pushed |-> {}, pending |-> {}]

(* A read: its disk result, the writes accepted before it was called, and   *)
(* how often its result counts each write.                                  *)
Nowhere == [o \in Ops |-> 0]
ReadRun == [pc: {"idle", "waitState", "query", "overlay", "done", "rejected"}, snap: [Ops -> Nat],
            must: SUBSET Ops, seen: [Ops -> Nat]]
NoRead == [pc |-> "idle", snap |-> Nowhere, must |-> {}, seen |-> Nowhere]

TypeOK ==
    /\ lifecycle \in Lifecycles
    /\ timer \in Timers
    /\ buf \in [Bufs -> SUBSET Ops]
    /\ active \in {"A", "B"}
    /\ inflight \in Bufs
    /\ shadows \subseteq Agents
    /\ shadow \in [Agents -> SUBSET Ops]
    /\ stateMutex \in Mutex(Tasks)
    /\ flushMutex \in Mutex(FlushTasks)
    /\ fl \in [FlushTasks -> FlushRun]
    /\ ag \in [Agents -> AgentRun]
    /\ rd \in [Readers -> ReadRun]
    /\ jpc \in {"idle", "waitState"}
    /\ accepted \subseteq Ops
    /\ committed \in [Agents -> SUBSET Ops]
    /\ applied \in [Ops -> Nat]
    /\ deadLetters \subseteq Ops
    /\ count \in [EnvEvents -> Nat]

Init ==
    /\ lifecycle = "new"
    /\ timer = "off"
    /\ buf = [b \in Bufs |-> {}]
    /\ active = "A"
    /\ inflight = "I"
    /\ shadows = {}
    /\ shadow = [a \in Agents |-> {}]
    /\ stateMutex = Unlocked
    /\ flushMutex = Unlocked
    /\ fl = [t \in FlushTasks |-> NoFlush]
    /\ ag = [a \in Agents |-> NoAgent]
    /\ rd = [r \in Readers |-> NoRead]
    /\ jpc = "idle"
    /\ accepted = {}
    /\ committed = [a \in Agents |-> {}]
    /\ applied = Nowhere
    /\ deadLetters = {}
    /\ count = [e \in EnvEvents |-> 0]

-----------------------------------------------------------------------------
(* Helpers                                                                  *)

(* An environment event within its budget. *)
Happens(e) ==
    /\ count[e] < Budget[e]
    /\ count' = [count EXCEPT ![e] = @ + 1]

(* A task whose await of the state mutex has returned. *)
HasState(t) == ~Queued(stateMutex, t)

AcquireState(t) == stateMutex' = Acquire(stateMutex, t)
ReleaseState == stateMutex' = Release(stateMutex)

Goto(t, pc) == fl' = [fl EXCEPT ![t].pc = pc]

(* scheduleFlush().  stop() clears the timer but leaves its handle: whether *)
(* a later call replaces the handle depends on the two delays.              *)
Schedule == timer' \in IF timer = "cleared" THEN {"cleared", "on"} ELSE {"on"}

(* The synchronous head of flush(): a new run queues for the flush mutex.   *)
EnterFlush(t, kind) ==
    /\ fl' = [fl EXCEPT ![t] = [NoFlush EXCEPT !.pc = "waitFlush", !.kind = kind]]
    /\ flushMutex' = Acquire(flushMutex, t)

(* flush() ends with result r: control returns to whoever awaits it.        *)
Return(t, r) ==
    fl' = [fl EXCEPT ![t] = [NoFlush EXCEPT !.pc = "returned", !.kind = fl[t].kind, !.res = r]]

(* The slot is free again.                                                  *)
Idle(t) == fl' = [fl EXCEPT ![t] = NoFlush]

AgentGoto(a, pc) == ag' = [ag EXCEPT ![a].pc = pc]

(* No promise continuation is ready to run: every task is idle, asleep in   *)
(* the BUSY delay, or queued for a mutex.                                   *)
ContinuationsDone ==
    /\ \A t \in FlushTasks :
        \/ fl[t].pc \in {"idle", "delay"}
        \/ fl[t].pc = "waitStart" /\ lifecycle = "starting"
        \/ fl[t].pc = "waitFlush" /\ Queued(flushMutex, t)
        \/ fl[t].pc \in {"waitState", "waitClear", "waitFail", "waitResched"} /\ ~HasState(t)
    /\ \A a \in Agents :
        ag[a].pc \in {"idle", "open", "committed", "rolledback", "aborted"} \/ ~HasState(a)
    /\ \A r \in Readers : rd[r].pc \in {"idle", "done", "rejected"} \/ ~HasState(r)
    /\ jpc = "idle" \/ ~HasState(Janitor)

(* The event loop runs timer callbacks once no continuation is ready.  A    *)
(* synchronous SQLite driver, as better-sqlite3 is, makes a transaction a   *)
(* chain of continuations that no timer interrupts; without SyncDriver      *)
(* nothing is assumed about the driver and timers may run at every await.   *)
TimerTurn == SyncDriver => ContinuationsDone

(* The process ends: its memory and its tasks are gone, the disk stays.     *)
ProcessEnds ==
    /\ lifecycle' = "crashed"
    /\ timer' = "off"
    /\ buf' = [b \in Bufs |-> {}]
    /\ shadows' = {}
    /\ shadow' = [a \in Agents |-> {}]
    /\ stateMutex' = Unlocked
    /\ flushMutex' = Unlocked
    /\ fl' = [t \in FlushTasks |-> NoFlush]
    /\ ag' = [a \in Agents |-> NoAgent]
    /\ rd' = [r \in Readers |-> NoRead]
    /\ jpc' = "idle"
    /\ UNCHANGED <<active, inflight, histVars, diskVars>>

(* How often applyOps of selectWhere counts operation o from one Map.       *)
InMap(o, b) == IF o \in buf[b] THEN 1 ELSE 0

-----------------------------------------------------------------------------
(* start()                                                                  *)

StartUnchanged == UNCHANGED <<poolVars, shadowVars, stateMutex, flushMutex, ag, rd, jpc,
                              histVars, diskVars>>

StartCall ==
    /\ lifecycle = "new" /\ lifecycle' = "starting"
    /\ UNCHANGED <<timer, fl, count>> /\ StartUnchanged

(* The database is open: the flush loop schedules the first flush.          *)
StartDone ==
    /\ lifecycle = "starting" /\ lifecycle' = "started"
    /\ Schedule
    /\ UNCHANGED <<fl, count>> /\ StartUnchanged

(* Opening fails: start() rejects, and so does a stop() that awaits it.     *)
StartFails ==
    /\ lifecycle = "starting" /\ lifecycle' = "new"
    /\ Happens("startfail")
    /\ IF fl[Stopper].pc = "waitStart" THEN Idle(Stopper) ELSE UNCHANGED fl
    /\ UNCHANGED timer /\ StartUnchanged

-----------------------------------------------------------------------------
(* Writes                                                                   *)

(* pushBatch() without an agent: one synchronous append, no mutex.          *)
Push(o) ==
    /\ lifecycle = "started"
    /\ o \in PlainOps \ accepted
    /\ buf' = [buf EXCEPT ![active] = @ \cup {o}]
    /\ accepted' = accepted \cup {o}
    /\ Schedule
    /\ UNCHANGED <<lifecycle, active, inflight, shadowVars, stateMutex, flushMutex, fl, ag, rd,
                   jpc, committed, diskVars, count>>

AgentUnchanged == UNCHANGED <<lifecycle, poolVars, flushMutex, fl, rd, jpc, histVars, diskVars>>

(* An agent's call passes assertOperational and queues for the state mutex. *)
AgentCall(a, from, to) ==
    /\ lifecycle = "started"
    /\ ag[a].pc = from
    /\ AgentGoto(a, to)
    /\ AcquireState(a)
    /\ UNCHANGED <<timer, shadowVars, count>> /\ AgentUnchanged

(* The mutex is granted, and released at the end of the action.             *)
AgentLocked(a, from) ==
    /\ ag[a].pc = from
    /\ HasState(a)
    /\ ReleaseState

(* The agent's shadow, created if it is not there, with more operations.    *)
AddToShadow(a, ops) ==
    /\ shadows' = shadows \cup {a}
    /\ shadow' = [shadow EXCEPT ![a] = (IF a \in shadows THEN @ ELSE {}) \cup ops]

DropShadow(a) ==
    /\ shadows' = shadows \ {a}
    /\ shadow' = [shadow EXCEPT ![a] = {}]

(* beginWork().                                                             *)
Begin(a) == AgentCall(a, "idle", "waitBegin")

BeginLocked(a) ==
    /\ AgentLocked(a, "waitBegin")
    /\ AgentGoto(a, "open")
    /\ AddToShadow(a, {})
    /\ UNCHANGED <<timer, count>> /\ AgentUnchanged

(* pushBatch() with an agent.  Its shadow exists: append to it, no mutex.   *)
AgentPush(a, o) ==
    /\ lifecycle = "started"
    /\ ag[a].pc = "open" /\ a \in shadows
    /\ o \in TxnOps[a] \ ag[a].pushed
    /\ ag' = [ag EXCEPT ![a].pushed = @ \cup {o}]
    /\ AddToShadow(a, {o})
    /\ Schedule
    /\ UNCHANGED <<stateMutex, count>> /\ AgentUnchanged

(* It does not, because it expired: queue for the mutex to create it.       *)
AgentPushNoShadow(a, o) ==
    /\ lifecycle = "started"
    /\ ag[a].pc = "open" /\ a \notin shadows
    /\ o \in TxnOps[a] \ ag[a].pushed
    /\ ag' = [ag EXCEPT ![a] = [pc |-> "waitShadow", pushed |-> @.pushed \cup {o},
                                pending |-> {o}]]
    /\ AcquireState(a)
    /\ UNCHANGED <<timer, shadowVars, count>> /\ AgentUnchanged

AgentPushLocked(a) ==
    /\ AgentLocked(a, "waitShadow")
    /\ ag' = [ag EXCEPT ![a].pc = "open", ![a].pending = {}]
    /\ AddToShadow(a, ag[a].pending)
    /\ Schedule
    /\ UNCHANGED count /\ AgentUnchanged

(* commitWork(), and the same without assertOperational.                    *)
CommitUnchecked(a) ==
    /\ ag[a].pc = "open"
    /\ AgentGoto(a, "waitCommit")
    /\ AcquireState(a)
    /\ UNCHANGED <<timer, shadowVars, count>> /\ AgentUnchanged
Commit(a) == AgentCall(a, "open", "waitCommit")

(* The shadow's operations move to the active buffer, all of them, in one   *)
(* synchronous block.                                                       *)
CommitLocked(a) ==
    LET ops == IF a \in shadows THEN shadow[a] ELSE {} IN
    /\ AgentLocked(a, "waitCommit")
    /\ AgentGoto(a, "committed")
    /\ DropShadow(a)
    /\ buf' = [buf EXCEPT ![active] = @ \cup ops]
    /\ accepted' = accepted \cup ops
    /\ committed' = [committed EXCEPT ![a] = ops]
    /\ IF ops # {} THEN Schedule ELSE UNCHANGED timer
    /\ UNCHANGED <<lifecycle, active, inflight, flushMutex, fl, rd, jpc, diskVars, count>>

(* The callback of runTransaction throws: rollbackWork().                   *)
Rollback(a) == AgentCall(a, "open", "waitRollback")

(* The pool is not started any more: the agent's next push, commitWork()    *)
(* and rollbackWork() are all refused.                                      *)
Refused(a) ==
    /\ lifecycle # "started"
    /\ ag[a].pc = "open"
    /\ AgentGoto(a, "aborted")
    /\ UNCHANGED <<timer, shadowVars, stateMutex, count>> /\ AgentUnchanged

RollbackLocked(a) ==
    /\ AgentLocked(a, "waitRollback")
    /\ AgentGoto(a, "rolledback")
    /\ DropShadow(a)
    /\ UNCHANGED <<timer, count>> /\ AgentUnchanged

(* Task t gives up waiting for the state mutex.                             *)
TimesOut(t) ==
    /\ TimerTurn
    /\ Happens("timeout")
    /\ Queued(stateMutex, t)
LeaveQueue(t) ==
    \E i \in 1..Len(stateMutex.queue) :
        stateMutex.queue[i] = t /\ stateMutex' = GiveUp(stateMutex, i)
LeaveState(t) == TimesOut(t) /\ LeaveQueue(t)

(* A push() or commitWork() gave up: runTransaction calls rollbackWork(),   *)
(* while a refused beginWork() or rollbackWork() ends it, shadow and all.   *)
AgentTimeout(a) ==
    /\ ag[a].pc \in {"waitBegin", "waitShadow", "waitCommit", "waitRollback"}
    /\ LeaveState(a)
    /\ AgentGoto(a, IF ag[a].pc \in {"waitShadow", "waitCommit"} THEN "open" ELSE "aborted")
    /\ UNCHANGED <<timer, shadowVars>> /\ AgentUnchanged

-----------------------------------------------------------------------------
(* Shadow clean-up: cleanupShadows() and pruneExpiredShadows().             *)

JanitorUnchanged == UNCHANGED <<timer, poolVars, flushMutex, fl, ag, rd, histVars, diskVars>>

CleanupCall ==
    /\ TimerTurn
    /\ lifecycle = "started"
    /\ jpc = "idle" /\ jpc' = "waitState"
    /\ Happens("expiry")
    /\ AcquireState(Janitor)
    /\ UNCHANGED <<lifecycle, shadowVars>> /\ JanitorUnchanged

(* Any shadow may be past its age.                                          *)
CleanupLocked ==
    /\ jpc = "waitState" /\ jpc' = "idle"
    /\ HasState(Janitor)
    /\ \E expired \in SUBSET shadows :
        /\ shadows' = shadows \ expired
        /\ shadow' = [a \in Agents |-> IF a \in expired THEN {} ELSE shadow[a]]
    /\ ReleaseState
    /\ UNCHANGED <<lifecycle, count>> /\ JanitorUnchanged

(* cleanupShadows() runs in an interval callback: nobody handles its        *)
(* rejection, which ends the process.                                       *)
CleanupTimeout == jpc = "waitState" /\ TimesOut(Janitor) /\ ProcessEnds

-----------------------------------------------------------------------------
(* flush()                                                                  *)

FlushUnchanged == UNCHANGED <<shadowVars, ag, rd, jpc, histVars>>
QueueUnchanged == UNCHANGED <<poolVars, diskVars>> /\ FlushUnchanged

FlushCall(t) ==
    /\ lifecycle = "started"
    /\ fl[t].pc = "idle"
    /\ Happens("call")
    /\ EnterFlush(t, "call")
    /\ UNCHANGED <<lifecycle, timer, stateMutex>> /\ QueueUnchanged

(* The timer callback of scheduleFlush().                                   *)
TimerFires(t) ==
    /\ TimerTurn
    /\ timer = "on" /\ timer' = "off"
    /\ lifecycle = "started"
    /\ fl[t].pc = "idle"
    /\ EnterFlush(t, "timer")
    /\ UNCHANGED <<lifecycle, stateMutex, count>> /\ QueueUnchanged

(* The same callback once stop() has begun: flush() is refused.             *)
TimerFiresLate(t) ==
    /\ TimerTurn
    /\ timer = "on" /\ timer' = "off"
    /\ lifecycle \in {"stopping", "stopped"}
    /\ fl[t].pc = "idle"
    /\ fl' = [fl EXCEPT ![t].pc = "returned", ![t].kind = "timer", ![t].res = "rejected"]
    /\ UNCHANGED <<lifecycle, stateMutex, flushMutex, count>> /\ QueueUnchanged

(* The one-second interval.                                                 *)
IntervalTick ==
    /\ TimerTurn
    /\ lifecycle = "started"
    /\ Schedule
    /\ UNCHANGED <<lifecycle, stateMutex, flushMutex, fl, count>> /\ QueueUnchanged

(* The flush mutex is granted: queue for the state mutex.                   *)
FlushLocked(t) ==
    /\ fl[t].pc = "waitFlush"
    /\ ~Queued(flushMutex, t)
    /\ Goto(t, "waitState")
    /\ AcquireState(t)
    /\ UNCHANGED <<lifecycle, timer, flushMutex, count>> /\ QueueUnchanged

(* Mutated forms: the swap returns to the initial Map, or changes no Map.   *)
OtherInitial(b) == "I"
OtherSame(b) == b
Other(b) == IF b = "A" THEN "B" ELSE "A"

(* A flush leaves its critical section under the state mutex, writing ops.  *)
Selected(t, ops) ==
    /\ fl[t].pc = "waitState"
    /\ HasState(t)
    /\ ReleaseState
    /\ fl' = [fl EXCEPT ![t].pc = "exec", ![t].ops = ops]
    /\ UNCHANGED <<lifecycle, timer, flushMutex, diskVars, count>> /\ FlushUnchanged

(* The active buffer has data: it becomes the in-flight one and the other   *)
(* Map, emptied, the active one.                                            *)
Swap(t) ==
    /\ buf[active] # {}
    /\ Selected(t, buf[active])
    /\ active' = Other(active)
    /\ inflight' = active
    /\ buf' = [buf EXCEPT ![Other(active)] = {}]

(* It is empty, but an earlier batch was left in flight: take that again.   *)
TakeInFlight(t) ==
    /\ buf[active] = {} /\ buf[inflight] # {}
    /\ Selected(t, buf[inflight])
    /\ UNCHANGED poolVars

NothingToFlush(t) ==
    /\ buf[active] = {} /\ buf[inflight] = {}
    /\ fl[t].pc = "waitState"
    /\ HasState(t)
    /\ ReleaseState
    /\ flushMutex' = Release(flushMutex)
    /\ Return(t, "ok")
    /\ UNCHANGED <<lifecycle, timer, count>> /\ QueueUnchanged

(* The SQLite transaction commits.  Mutated form: it is not a transaction.  *)
Write(t, ops) ==
    /\ fl[t].pc = "exec"
    /\ Goto(t, "durable")
    /\ applied' = [o \in Ops |-> IF o \in ops THEN applied[o] + 1 ELSE applied[o]]
    /\ UNCHANGED <<lifecycle, timer, poolVars, stateMutex, flushMutex, deadLetters, count>>
    /\ FlushUnchanged
DurablePartly(t) == \E part \in SUBSET fl[t].ops : Write(t, part)
Durable(t) == Write(t, fl[t].ops)

(* The await of the transaction returns.                                    *)
AwaitClear(t) ==
    /\ fl[t].pc = "durable"
    /\ Goto(t, "waitClear")
    /\ AcquireState(t)
    /\ UNCHANGED <<lifecycle, timer, flushMutex, count>> /\ QueueUnchanged

(* Mutated form of the next: nothing is cleared.                            *)
ClearNothing == UNCHANGED buf
ClearInFlight == buf' = [buf EXCEPT ![inflight] = {}]

(* The end of a run that wrote, or failed to write, a batch.                *)
EndFlush(t, r) ==
    /\ HasState(t)
    /\ ReleaseState
    /\ flushMutex' = Release(flushMutex)
    /\ Return(t, r)
    /\ UNCHANGED <<lifecycle, timer, active, inflight, applied, count>> /\ FlushUnchanged

Succeed(t) ==
    /\ fl[t].pc = "waitClear"
    /\ ClearInFlight
    /\ EndFlush(t, "ok")
    /\ UNCHANGED deadLetters

(* The failed batch leaves the in-flight Map: a fatal error reports it to   *)
(* the dead letters and is swallowed, an exhausted retry is thrown on.      *)
Fail(t) ==
    /\ fl[t].pc = "waitFail"
    /\ ClearInFlight
    /\ EndFlush(t, IF fl[t].res = "fatal" THEN "ok" ELSE "rejected")
    /\ deadLetters' = IF fl[t].res = "fatal" THEN deadLetters \cup fl[t].ops ELSE deadLetters

(* The catch block: queue for the state mutex again, to fail with r.        *)
Catch(t, r) == fl' = [fl EXCEPT ![t].pc = "waitFail", ![t].res = r]

(* The transaction is rolled back with BUSY, LOCKED or a deadlock: sleep,   *)
(* the flush mutex still held, unless the retries are used up.              *)
Busy(t) ==
    /\ fl[t].pc = "exec"
    /\ Happens("busy")
    /\ IF fl[t].retry < MaxRetries
       THEN Goto(t, "delay") /\ UNCHANGED stateMutex
       ELSE Catch(t, "busy") /\ AcquireState(t)
    /\ UNCHANGED <<lifecycle, timer, flushMutex>> /\ QueueUnchanged

(* It is rolled back with any other error.                                  *)
Fatal(t) ==
    /\ fl[t].pc = "exec"
    /\ Happens("fatal")
    /\ Catch(t, "fatal") /\ AcquireState(t)
    /\ UNCHANGED <<lifecycle, timer, flushMutex>> /\ QueueUnchanged

(* The retry releases the flush mutex, calls flush() again, which queues    *)
(* for it, and releases once more in the finally block of the failed run.   *)
(* Mutated form: the retry is awaited with the mutex held.                  *)
RetryAwaited(m, t) == Acquire(m, t)
RetryMutex(m, t) == Release(Acquire(Release(m), t))

Retry(t) ==
    /\ TimerTurn
    /\ fl[t].pc = "delay"
    /\ lifecycle \in {"started", "stopping"}
    /\ flushMutex' = RetryMutex(flushMutex, t)
    /\ fl' = [fl EXCEPT ![t].pc = "waitFlush", ![t].retry = @ + 1, ![t].ops = {}]
    /\ UNCHANGED <<lifecycle, timer, stateMutex, count>> /\ QueueUnchanged

(* The pool stopped meanwhile: the retry is refused, both releases remain.  *)
RetryRefused(t) ==
    /\ TimerTurn
    /\ fl[t].pc = "delay"
    /\ lifecycle = "stopped"
    /\ flushMutex' = Release(Release(flushMutex))
    /\ Return(t, "rejected")
    /\ UNCHANGED <<lifecycle, timer, stateMutex, count>> /\ QueueUnchanged

(* A flush gives up waiting for the flush mutex: it rejects at once.        *)
FlushMutexTimeout(t) ==
    /\ TimerTurn
    /\ fl[t].pc = "waitFlush"
    /\ Happens("timeout")
    /\ \E i \in 1..Len(flushMutex.queue) :
        flushMutex.queue[i] = t /\ flushMutex' = GiveUp(flushMutex, i)
    /\ Return(t, "rejected")
    /\ UNCHANGED <<lifecycle, timer, stateMutex>> /\ QueueUnchanged

(* It gives up waiting for the state mutex inside the try block: the catch  *)
(* block takes that for a fatal error and queues again.                     *)
StateMutexTimeout(t) ==
    /\ TimerTurn
    /\ fl[t].pc \in {"waitState", "waitClear"}
    /\ Happens("timeout")
    /\ \E i \in 1..Len(stateMutex.queue) :
        stateMutex.queue[i] = t /\ stateMutex' = Acquire(GiveUp(stateMutex, i), t)
    /\ Catch(t, "fatal")
    /\ UNCHANGED <<lifecycle, timer, flushMutex>> /\ QueueUnchanged

(* It gives up in the catch block: only the flush mutex is released.        *)
FailTimeout(t) ==
    /\ fl[t].pc = "waitFail"
    /\ LeaveState(t)
    /\ flushMutex' = Release(flushMutex)
    /\ Return(t, "rejected")
    /\ UNCHANGED <<lifecycle, timer>> /\ QueueUnchanged

(* A caller of flush() gets its result.                                     *)
CallReturns(t) ==
    /\ fl[t].pc = "returned" /\ fl[t].kind = "call"
    /\ Idle(t)
    /\ UNCHANGED <<lifecycle, timer, stateMutex, flushMutex, count>> /\ QueueUnchanged

(* The timer callback's finally block: queue for the state mutex ...        *)
TimerReturns(t) ==
    /\ fl[t].pc = "returned" /\ fl[t].kind = "timer"
    /\ Goto(t, "waitResched")
    /\ AcquireState(t)
    /\ UNCHANGED <<lifecycle, timer, flushMutex, count>> /\ QueueUnchanged

(* ... and schedule another flush if there is data.                         *)
Reschedule(t) ==
    /\ fl[t].pc = "waitResched" /\ fl[t].res = "ok"
    /\ HasState(t)
    /\ ReleaseState
    /\ IF buf[active] # {} THEN Schedule ELSE UNCHANGED timer
    /\ Idle(t)
    /\ UNCHANGED <<lifecycle, flushMutex, count>> /\ QueueUnchanged

(* If flush() threw, the callback rejects, nobody handles it, and the       *)
(* process ends; so it does if the callback gives up waiting.               *)
Unhandled(t) ==
    /\ fl[t].pc = "waitResched" /\ fl[t].res # "ok"
    /\ HasState(t)
    /\ ProcessEnds
    /\ UNCHANGED count
RescheduleTimeout(t) == fl[t].pc = "waitResched" /\ TimesOut(t) /\ ProcessEnds

-----------------------------------------------------------------------------
(* stop()                                                                   *)

StopUnchanged == UNCHANGED <<stateMutex, count>> /\ QueueUnchanged

(* Before start() there is nothing to do.                                   *)
StopNew ==
    /\ lifecycle = "new" /\ lifecycle' = "stopped"
    /\ UNCHANGED <<timer, flushMutex, fl>> /\ StopUnchanged

(* During start(): await it first.                                          *)
StopStarting ==
    /\ lifecycle = "starting"
    /\ fl[Stopper].pc = "idle"
    /\ Goto(Stopper, "waitStart")
    /\ UNCHANGED <<lifecycle, timer, flushMutex>> /\ StopUnchanged

(* Cancel the timers and flush.                                             *)
StopStarted ==
    /\ lifecycle = "started" /\ lifecycle' = "stopping"
    /\ fl[Stopper].pc \in {"idle", "waitStart"}
    /\ timer' = IF timer = "off" THEN "off" ELSE "cleared"
    /\ EnterFlush(Stopper, "stop1")
    /\ StopUnchanged

(* Flush a second time.                                                     *)
StopFlushAgain ==
    /\ fl[Stopper].pc = "returned"
    /\ fl[Stopper].kind = "stop1" /\ fl[Stopper].res = "ok"
    /\ EnterFlush(Stopper, "stop2")
    /\ UNCHANGED <<lifecycle, timer>> /\ StopUnchanged

(* The finally block closes the database, whatever the flushes did.         *)
StopDone ==
    /\ fl[Stopper].pc = "returned"
    /\ fl[Stopper].kind = "stop2" \/ fl[Stopper].res # "ok"
    /\ lifecycle' = "stopped"
    /\ Idle(Stopper)
    /\ UNCHANGED <<timer, flushMutex>> /\ StopUnchanged

-----------------------------------------------------------------------------
(* Reads: selectWhere() without an agent, of a table that is not warmed.    *)

ReadUnchanged == UNCHANGED <<lifecycle, timer, poolVars, shadowVars, flushMutex, fl, ag, jpc,
                             histVars, diskVars>>

ReadCall(r) ==
    /\ lifecycle = "started"
    /\ rd[r].pc = "idle"
    /\ rd' = [rd EXCEPT ![r].pc = "waitState", ![r].must = accepted]
    /\ AcquireState(r)
    /\ UNCHANGED count /\ ReadUnchanged

(* The state mutex is granted.  Mutated form: the read lets go of it before *)
(* its query.                                                               *)
ReadReleased(r) ==
    /\ rd[r].pc = "waitState"
    /\ HasState(r)
    /\ rd' = [rd EXCEPT ![r].pc = "query"]
    /\ ReleaseState
    /\ UNCHANGED count /\ ReadUnchanged
ReadLocked(r) ==
    /\ rd[r].pc = "waitState"
    /\ HasState(r)
    /\ rd' = [rd EXCEPT ![r].pc = "query"]
    /\ UNCHANGED <<stateMutex, count>> /\ ReadUnchanged

(* The disk result.  The pool has one connection, so that the query runs    *)
(* before or after a flush transaction, and sees all of it or nothing.      *)
ReadDisk(r) ==
    /\ rd[r].pc = "query"
    /\ rd' = [rd EXCEPT ![r].pc = "overlay", ![r].snap = applied]
    /\ UNCHANGED <<stateMutex, count>> /\ ReadUnchanged

(* applyOps on the in-flight and then the active buffer.                    *)
ReadOverlay(r) ==
    /\ rd[r].pc = "overlay"
    /\ rd' = [rd EXCEPT ![r].pc = "done", ![r].snap = Nowhere, ![r].seen =
                  [o \in Ops |-> rd[r].snap[o] + InMap(o, inflight) + InMap(o, active)]]
    /\ ReleaseState
    /\ UNCHANGED count /\ ReadUnchanged

ReadTimeout(r) ==
    /\ rd[r].pc = "waitState"
    /\ TimerTurn /\ Happens("readtimeout")
    /\ LeaveQueue(r)
    /\ rd' = [rd EXCEPT ![r] = [NoRead EXCEPT !.pc = "rejected"]]
    /\ ReadUnchanged

-----------------------------------------------------------------------------
(* The process                                                              *)

Kill == lifecycle # "crashed" /\ Happens("kill") /\ ProcessEnds

Finished == lifecycle = "stopped" /\ timer # "on" /\ \A t \in FlushTasks : fl[t].pc = "idle"

(* A stopped pool, or a process that is gone, may stay as it is.            *)
Terminated == (lifecycle = "crashed" \/ Finished) /\ UNCHANGED vars

StartStep == StartCall \/ StartDone \/ StartFails
StopStep == StopNew \/ StopStarting \/ StopStarted \/ StopFlushAgain \/ StopDone
AgentContinues(a) ==
    BeginLocked(a) \/ AgentPushLocked(a) \/ CommitLocked(a) \/ RollbackLocked(a)
AgentStep(a) ==
    \/ AgentContinues(a)
    \/ Begin(a) \/ Commit(a) \/ Rollback(a) \/ Refused(a) \/ AgentTimeout(a)
    \/ \E o \in Ops : AgentPush(a, o) \/ AgentPushNoShadow(a, o)
CleanupStep == CleanupCall \/ CleanupLocked \/ CleanupTimeout
FlushContinues(t) ==
    \/ FlushLocked(t) \/ Swap(t) \/ TakeInFlight(t) \/ NothingToFlush(t) \/ Durable(t)
    \/ AwaitClear(t) \/ Succeed(t) \/ Retry(t) \/ RetryRefused(t) \/ Fail(t)
FlushStep(t) ==
    \/ FlushContinues(t) \/ Busy(t) \/ Fatal(t)
    \/ FlushMutexTimeout(t) \/ StateMutexTimeout(t) \/ FailTimeout(t)
CallerContinues(t) == CallReturns(t) \/ TimerReturns(t) \/ Reschedule(t) \/ Unhandled(t)
CallerStep(t) ==
    \/ CallerContinues(t) \/ FlushCall(t) \/ TimerFires(t) \/ TimerFiresLate(t)
    \/ RescheduleTimeout(t)
ReadContinues(r) == ReadLocked(r) \/ ReadDisk(r) \/ ReadOverlay(r)
ReadStep(r) == ReadContinues(r) \/ ReadCall(r) \/ ReadTimeout(r)

Next ==
    \/ StartStep
    \/ StopStep
    \/ IntervalTick
    \/ \E o \in Ops : Push(o)
    \/ \E a \in Agents : AgentStep(a)
    \/ CleanupStep
    \/ \E t \in FlushTasks : FlushStep(t)
    \/ \E t \in Callers : CallerStep(t)
    \/ \E r \in Readers : ReadStep(r)
    \/ Kill
    \/ Terminated

Spec == Init /\ [][Next]_vars

-----------------------------------------------------------------------------
(* Fairness.  Promise continuations and due timers always run in the end, a *)
(* SQLite transaction or query ends, and a mutex hands over in FIFO order.  *)
(* What users and the environment do is not fair: nobody has to call        *)
(* stop(), to commit or to retry a read.                                    *)

FairSpec ==
    /\ Spec
    /\ WF_vars(StartDone)
    /\ WF_vars(StopFlushAgain \/ StopDone)
    /\ WF_vars(\E t \in Callers : TimerFires(t) \/ TimerFiresLate(t))
    /\ WF_vars(CleanupLocked)
    /\ \A t \in FlushTasks : WF_vars(FlushContinues(t))
    /\ \A t \in Callers : WF_vars(CallerContinues(t))
    /\ \A a \in Agents : WF_vars(AgentContinues(a))
    /\ \A r \in Readers : WF_vars(ReadContinues(r))

-----------------------------------------------------------------------------
(* Properties                                                               *)

(* No transaction met BUSY and no mutex waiter gave up so far.              *)
Undisturbed == count["busy"] = 0 /\ count["timeout"] = 0

Applied == {o \in Ops : applied[o] > 0}

(* Tasks between the grant of the flush mutex and their release of it.      *)
FlushHolders ==
    {t \in FlushTasks :
        \/ fl[t].pc \in {"waitState", "exec", "durable", "waitClear", "delay", "waitFail"}
        \/ fl[t].pc = "waitFlush" /\ ~Queued(flushMutex, t)}

(* As long as no flush had to retry, at most one flush() is past its flush  *)
(* mutex at any time, and if one is the mutex is locked: two flushes never  *)
(* swap, execute or clear concurrently.                                     *)
AtMostOneFlush ==
    count["busy"] = 0 =>
        /\ \A t, u \in FlushHolders : t = u
        /\ FlushHolders # {} => flushMutex.locked

(* Tasks whose batch is in flight, from the swap to the clearing.           *)
Writing == {t \in FlushTasks : fl[t].pc \in {"exec", "durable", "waitClear", "waitFail"}}

(* Undisturbed, the batch a flush is writing is exactly what inFlightOps    *)
(* shows to readers, and nothing stays in flight that no flush is writing.  *)
InFlightOwned ==
    Undisturbed =>
        /\ \A t \in Writing : fl[t].ops = buf[inflight]
        /\ Writing = {} => buf[inflight] = {}

(* Undisturbed, an accepted write is always somewhere: in the active or the *)
(* in-flight buffer, on disk or among the dead letters.  Neither the swap   *)
(* (which clears a Map) nor the clearing after a commit or a failure ever   *)
(* drops one.                                                               *)
NoSilentLoss ==
    Undisturbed /\ lifecycle # "crashed" =>
        accepted \subseteq buf[active] \cup buf[inflight] \cup Applied \cup deadLetters

(* Undisturbed, a write reaches the disk at most once (an increment is not  *)
(* counted twice), and a write reported as failed is not on disk.           *)
ExactlyOnce ==
    Undisturbed => /\ \A o \in Ops : applied[o] <= 1
                   /\ Applied \cap deadLetters = {}

(* What commitWork(a) hands over shares one fate from then on, whatever     *)
(* fails, and across a crash: it is in the same buffers, was written to     *)
(* disk equally often, and was reported or not as a whole.                  *)
TxnAtomic ==
    \A a \in Agents : \A o, q \in committed[a] :
        /\ applied[o] = applied[q]
        /\ o \in deadLetters <=> q \in deadLetters
        /\ \A b \in Bufs : o \in buf[b] <=> q \in buf[b]

(* When stop() is over, undisturbed, every write that was ever accepted is  *)
(* on disk or reported: no push or commit slips in behind the final flush.  *)
StopDrains ==
    lifecycle = "stopped" /\ Undisturbed => accepted \subseteq Applied \cup deadLetters

(* Undisturbed, a read sees every write accepted before it was called,      *)
(* unless that write failed: there is no moment at which a write is neither *)
(* in the disk result nor in the buffers overlaid on it.                    *)
ReadYourWrites ==
    Undisturbed => \A r \in Readers : rd[r].pc = "done" =>
        \A o \in rd[r].must : rd[r].seen[o] > 0 \/ o \in deadLetters

(* "Ensures data consistency between in-memory buffers and on-disk storage" *)
(* (the class comment): no read counts a write twice, on disk and in a      *)
(* buffer, even if no fault happens.                                        *)
ReadOnce == Undisturbed => \A r \in Readers, o \in Ops : rd[r].seen[o] <= 1

(* The same comment, for a pool whose only fault is one BUSY transaction:   *)
(* accepted writes are not lost.                                            *)
NoLossAfterBusy ==
    count["timeout"] = 0 /\ lifecycle # "crashed" =>
        accepted \subseteq buf[active] \cup buf[inflight] \cup Applied \cup deadLetters

(* The shutdown promise "all remaining memory buffers are committed": once  *)
(* stop() has begun, the process does not end before they are, unless it is *)
(* killed.                                                                  *)
StopNeverCrashes ==
    [][lifecycle = "stopping" /\ lifecycle' = "crashed" /\ count'["kill"] = count["kill"] =>
            accepted \subseteq Applied \cup deadLetters]_vars

(* Undisturbed, every accepted write reaches the disk or the dead letters,  *)
(* or the process ends first.                                               *)
EventuallyFlushed ==
    \A o \in Ops :
        o \in accepted ~> \/ o \in Applied \cup deadLetters
                          \/ lifecycle = "crashed" \/ ~Undisturbed

(* stop() ends, BUSY retries included: the release before the recursive     *)
(* flush() is needed for that.                                              *)
StopEnds == lifecycle = "stopping" ~> lifecycle \in {"stopped", "crashed"}

=============================================================================

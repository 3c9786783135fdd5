# TLA+ models of DietCode

DietCode is a plugin for the Hermes agent: Python tools and hooks around
BroccoliDB, a TypeScript service that keeps agents' knowledge, tasks, commits
and jobs in SQLite. This directory has TLA+ modules for the parts of it in which
things happen concurrently, may be interrupted or have to stay in step, the TLC
configurations that check them, and TLAPS proofs. The modules are translated
from the source; line numbers are in `PROJECT.json` under `map`, and the hazards
the properties are about, line by line, under `hazards`.

    tlc -config MCDbPool.cfg MCDbPool.tla        # model-check one instance
    tlapm DbPoolProofs.tla                       # check one module of proofs

Contents: [inventory](#inventory); [BufferedDbPool](#buffereddbpool),
[its specification](#what-the-pool-promises), [batches](#the-contents-of-a-batch),
[executor](#executor-and-taskmutex), [repository](#repository),
[queue](#job-queue), [runtime](#orchestration-runtime), [tool loop](#tool-loop),
[Spider](#spider), [agent context](#agent-context),
[coherence tokens](#coherence-tokens), [gates](#kanban-gates);
[proofs](#proofs), [disagreements](#where-code-and-documentation-disagree),
[not modelled](#what-is-not-modelled), [plan](#plan).

## Inventory

Paths are below `src/broccolidb/` (TypeScript) or `src/lib/agent/` (Python).

| Component | State | Operations | What is hard | What makes it correct | Module |
| --- | --- | --- | --- | --- | --- |
| **BufferedDbPool** `infrastructure/db/BufferedDbPool.ts` | two buffers and an in-flight one, shadows per agent, two FIFO mutexes, a flush timer, a life cycle | start, stop, push, beginWork, commitWork, rollbackWork, runTransaction, flush, selectWhere | every `await` is an interleaving point; BUSY retries re-enter `flush()` and release the mutex twice; mutex timeouts; stop against timers | no accepted write is lost or written twice; a transaction shares one fate; reads see earlier writes; stop drains and ends | `FifoMutex`, `DbPool`, `TableBatch`, `WriteBehind`, `DbPoolRefinement` |
| **ActionExecutor, TaskMutex** `core/executor.ts`, `core/mutex.ts` | slots in use, waiting calls, a promise chain per key | execute, runExclusive | a timeout while the operation goes on; calls that hold a slot while they wait for another | one operation per key; a commit is not repeated by its own retry; every call settles | `Executor` |
| **Repository, workspace** `core/repository.ts`, `workspace.ts`, `file-tree.ts` | branches, nodes, trees, stash and reflog as rows of the pool, caches of heads and trees | commit, merge, cherry-pick, rebase, squash, reset, branch, stash, file operations, gc | read-modify-write of a head across awaits; shadows shared by the commits of an agent; gc against everything else | nothing reported done is lost; refs name what exists; caches tell the truth | `Repository` |
| **SqliteQueue** `infrastructure/queue/SqliteQueue.ts` | job rows, a ring in memory, batches of running handlers | enqueue, process, reclaim, prune, stop | reads through the overlay, jobs that outlive their visibility timeout, stop and start of the loop | a job is given out once, except after a timeout; nothing is handled after the loop ended; every job ends | `JobQueue` |
| **OrchestrationRuntime** `core/orchestration/` | sessions, plans, snapshots of files, budgets, the state graph | beginSession, planRepairs, execute, verify, requestApproval, snapshot, stop, start | callers interleave at awaits of directives; one queue for all; rollback overwrites files | mutations are serial; a failed execution leaves nothing; a completed one stays | `Runtime` |
| **Scheduler, governor, budgets, state graph and stores** `core/orchestration/runtime/`, `state/` | a queue by priority, active executions; nodes per session, dirty sets, snapshots on disk | schedule, dispatch; record*, flush, hydrate | the job dispatched need not be the caller's; restart from a snapshot | as above | `Runtime` |
| **QueryLoop, StreamingToolExecutor** `core/agent-context/` | turns, windows of reads, results | run, executeBatch, execute with a timeout | tools that go on after their timeout | calls take effect in order; the graph mirrors the file; the loop ends | `ToolLoop` |
| **Spider** `core/policy/`, `core/agent-context/SpiderService.ts` | nodes, dependents, symbol registry, caches of blast radii and ghosts, a cached graph in the database | applyChanges, resync, preflight, audits, bootstrapGraph | incremental updates against deletions and creations; caches under stale signatures; bootstraps that overlap | an incremental report says what a full one would | `Spider` |
| **AgentContext, LifecycleRegistry, CleanupService, StorageService, GraphService, scratchpad** `core/agent-context/`, `infrastructure/storage/` | component life cycles; blobs named by hash, rows that refer to them; lock files | start, stop; addKnowledge, deleteKnowledge, garbage collection; write, clear | a failing start; stop during start; torn blobs; collection against writes; processes that share a directory | up or down as a whole; rows keep their blobs; one writer of a scratchpad file | `AgentContext` |
| **Native mutation** `native_mutation.py` | `.dietcode/mutation-state.json`: revisions, hashes, tokens | status, coherence, refresh, patch, verify, read hook | several processes, no lock; killed between writes | a patch is based on what its task has seen | `Coherence` |
| **Journals, JoyZoning, roadmap and completion gates** `joyzoning/`, `roadmap/`, `gates/`, `audit/` | mutation lifecycle rows per scope, aliases, journal keys, the state file of ROADMAP.md, a quality score | begin_mutation, record_patch, record_verification, request_review, mark_converged, gate checks | hooks that deduplicate; scopes that alias; a state file written by several processes | no completion past a closed gate, and no gate that stays closed | `KanbanGates` |
| **MutexService, mailbox, tasks, coordinator** `core/agent-context/` | rows of swarm_locks, mailbox, tasks | acquireLock, releaseLock, postMessage, spawnWorker | check-then-act over a write-behind store | see [not modelled](#what-is-not-modelled) | - |
| **Locker, IntegrityWorker, schema, RPC bridge, dashboard, CLI, MCP, plugin glue** | none of their own, or derived data | dispatch, projections, migrations | nothing, or unused | not a protocol | - |

How they interact: the Python side reaches BroccoliDB through one JSON-RPC
process (`infrastructure/hermes/`). Inside it every service shares one
BufferedDbPool and one Node.js event loop, so that tasks interleave at awaits
only. `Repository`, `JobQueue` and `AgentContext` use the pool; their modules
take of it what `DbPool` shows it keeps (accepted writes land in order, a
transaction as a whole, reads see the buffer) and add the overlay's exceptions
where they matter. Several such processes, and the Python tools of several
agents, share the SQLite file and the workspace: `Coherence`, `KanbanGates` and
`AgentContext` have several processes.

In every module an **action** is the code between two awaits (TypeScript) or
between two accesses to shared files (Python), a task is a record with a program
counter, and bounds are constants with `Max` or `Budget` in their names. Where
the code breaks a rule that it otherwise keeps, the property names the cause of
the exception, a history variable records it, and the exception is described
under [disagreements](#where-code-and-documentation-disagree).

## BufferedDbPool

`FifoMutex` is the pool's `Mutex` class: acquire, release with hand-over to the
first waiter, and the timeout of a waiter. `DbPool` extends it.

| Variable | In the code |
| --- | --- |
| `buf`, `active`, `inflight` | the three Maps and which of them `activeBuffer` and `inFlightOps` name; a flush swaps references, so a later swap may clear a Map that is still named as in-flight |
| `shadows`, `shadow` | `agentShadows` |
| `stateMutex`, `flushMutex` | the two mutexes |
| `fl`, `ag`, `rd`, `jpc` | the tasks: flush runs, agents' transactions, reads, the clean-up |
| `lifecycle`, `timer` | `lifecycleState` and `flushTimeout`; "cleared" is the handle that `stop()` clears but does not reset |
| `applied`, `deadLetters` | how often an operation was committed to SQLite; the dead letters and the emergency journal |
| `accepted`, `committed` | history: what the pool took, what each commit handed over |
| `count` | environment events so far; `Budget` bounds them |

An operation is an identifier. What it does to rows is the subject of
`TableBatch`.

Failures are actions: a transaction that fails with BUSY or with another error,
a mutex waiter that gives up after 30 s, an expired shadow, a database that does
not open, and the death of the process. A promise rejection without a handler
ends the process, as in Node.js 15 and later.

`SyncDriver` says whether timers may run inside a SQLite transaction.
better-sqlite3 is synchronous: a transaction is a chain of continuations, and
timers run only when no continuation is ready (`TimerTurn`). With
`SyncDriver = FALSE` nothing is assumed: the runs use that.

| Run | Instance | Shows |
| --- | --- | --- |
| `pool` | a plain write, a transaction of two writes, two timer or caller slots, stop, a read; one fatal error, one kill, one reader's timeout; 878,368 states | one flush at a time, nothing lost or duplicated, stop drains, a read sees earlier writes, and the pool implements `WriteBehind` |
| `pool_stormy` | a transaction of two writes, one slot, stop; one BUSY, fatal error, timeout, expiry, call and failing start; 269,090 states | a committed transaction shares one fate whatever fails; accepted writes are flushed in the end and `stop()` ends |

*Bounds.* One plain write and a transaction of two are the fewest operations
that show a divided transaction, a write that arrives while another is in
flight, and two batches. Two slots and `stop()` make three flush runs, enough
for a holder, a waiter and a late comer. A second BUSY or timeout was left out
for size. The safety properties are also proved for all constants (below), so
that these bounds matter to the liveness properties only. `MaxRetries` is 1, so
that one BUSY means a retry and the second would exhaust it.

*Undisturbed.* Most properties hold only until the first BUSY or timeout, and
say so in their premise. That is the code's own limit: after BUSY the batch
stays in a Map that the next swap clears, and after a timeout `flush()` takes
the wrong branch of its catch block.

*Fairness* (`FairSpec`): weak fairness of every continuation, of the due flush
timer, of the end of a database call and of the FIFO hand-over. Node.js runs
ready continuations and due timers; SQLite calls return. Nothing is assumed of
users: nobody has to call `stop()`, commit or read.

### What the pool promises

`WriteBehind` is the abstract buffer: units of writes are accepted (`Accept`),
everything accepted so far is sealed into one batch (`Seal`), which ends as a
whole on disk (`Persist`) or reported (`Report`); it closes when it is empty
(`Close`), or is lost with what is not durable (`Lose`). It forbids to take the
same unit twice, to split one, to overtake a batch, to accept after closing.

`DbPoolRefinement` maps the pool to it. A unit is a plain write or what a
`commitWork()` moved; the unsealed units are those in the Map `activeBuffer`
names, the sealed ones those in the in-flight Map that are neither on disk nor
reported, so that clearing the Map after the transaction stutters.

| `DbPool` | `WriteBehind` |
| --- | --- |
| `Push`, `CommitLocked` | `Accept` |
| `Swap` | `Seal` |
| `Durable` | `Persist` |
| `Fail` | `Report` |
| `StopNew`, `StopDone` | `Close` |
| `ProcessEnds` (kill, unhandled rejection) | `Lose` |
| everything else | stutters |

## The contents of a batch

`TableBatch` is one table and one client. It gives operations their contents
and keeps only the steps of `flush()` that change the batch: the swap with the
sort by type, the retry without the sort, `groupOps`, the transaction, the
clearing. `objects` holds the operations as JavaScript objects, which `groupOps`
changes in place while the in-flight buffer still refers to them; `pushed` keeps
them as they were pushed. A row has a field that is assigned and one that may be
incremented; `raw` marks a value that is still the `Increment` object. An
interleaving with a second client adds nothing, since a push is one synchronous
step.

The run `batch` has two rows, twelve operations of all types, four pushes, one
BUSY, and clients that push in the order of types (`Orderly`; 1,193,281 states):
sorting and coalescing cannot be seen on disk (`FlushKeepsOrder`) nor by a read by id
(`ReadById`), and a retry cannot either but in the cases below. Four pushes allow an insert, two updates that merge and a
third operation between or after them, across one or two batches. Two rows make
an update of several rows differ from one by id.

The order of types is the premise under which the sort is harmless: operations
that share a key come in the order insert, upsert, update, delete, and no other
update comes between two updates by id. Three exceptions are stated in the
properties because they fail without them: `RetriedIncrement` (a BUSY retry
merges merged operations again and counts increments twice), `overrun` (something
was pushed during the BUSY delay, so that the next flush swaps the buffers again and
the batch left behind is lost) and `FreshCounter` (an overlaid upsert of an
increment).

## Executor and TaskMutex

`Executor` is `ActionExecutor.execute` (slots, waiting queue, timeout, retries)
around `TaskMutex.runExclusive` (a promise chain per key). A **frame** is one
`execute()`; a call has one, and a nested call a second one that runs inside the
operation of the first, as a merge or a rebase that commits does. The operation of
the outer frame goes on after each commit, to the next one or to reads and writes of
its own, and may fail there with an error that is retried.

| Variable | In the code |
| --- | --- |
| `frame`, `tries` | where each `execute()` is: waiting, running, settled; its failed attempts |
| `op` | where the operation it started is; it may go on after the frame has timed out |
| `active`, `queue` | `activeOperations` and the calls that wait for a slot |
| `chain` | per key, the operations that hold the mutex or wait for it |
| `made` | the commits that the attempt under way of an outer operation has made |
| `landed`, `before` | history: how many commits of each call took effect, in all and before its last attempt |

The run `executor` has one slot, a rebase with two nested commits and two commits of
the same branch, two attempts each (252,884 states): at most one operation per
key (`KeyExclusive`), every call settles (`CallsSettle`) though the rebase holds the
only slot while its commits wait for one, and `OnceOnly`: a direct commit takes
effect at most once, an attempt of a nested call makes each commit at most once, and
a call that is reported done has made all of them in its last attempt. It does not
say that a nested call commits once: when the outer operation fails with a busy error
after a commit, that commit stays and the retry makes it anew (`before`). One slot is the smallest number that shows this; two direct commits make a
holder and a waiter of the chain besides the nested one. *Fairness:* steps and
timers of every frame; a commit and an outer operation may hang for ever.

## Repository

`Repository` is the class of that name with the writing half of `FileTree`.

| Variable | In the code |
| --- | --- |
| `nodes`, `stored`, `trees` | commit nodes that were made; those whose row, whose tree is in the database |
| `heads`, `stash`, `reflog` | branch rows, the stash entry, the reflog |
| `refCache`, `cell` | the cached heads, and what the cached tree object of a node shows (file operations edit it in place) |
| `shadow` | per author, operations pushed and not landed: the shadow of the pool is per agent |
| `call` | what each caller is doing: a commit reads the head, pushes the node, pushes the head, lands, logs; a collection marks and sweeps |
| `acked`, `lossy`, `excused`, `stale`, `raced`, `stashed` | history: what was reported done, and the known causes of losses |

The reflog names the new node of every commit, and for a reset, merge, rebase and
squash the head from before, which may be a cached one whose node never landed
(`Remember` counts it as excused). A collection reads every node and tree that the
refs lead to: where one has no row it may be in a cache, or else the collection fails
(`MarkFails`). A pop whose author's shadow was emptied by the rollback of another
commit lands nothing and deletes the stash entry all the same: `StashKept` excepts
that one case (`stashed = "torn"`).

A tree is the set of file operations it shows. The run `repository` has two
callers and two agents, a protected and an ephemeral branch, all kinds of calls,
three calls and four nodes, with symmetric callers and agents (572,035 states).
Three calls are a setting and two that overlap. The pool below loses nothing:
that is the subject of `DbPool`.

## Job queue

`JobQueue` is `SqliteQueue` over the pool. `disk`, `row` and `seen` are a job's
row on disk, with all pushed operations applied, and as a read by status sees it
(the overlay applies only operations that carry the status it asks for); `ring`
is `pendingMemoryBuffer`; `worker` the closure of a `process()` call with its
batches and `inFlightJobs`; `reclaim` the stale jobs that were read and not yet put
back. The awaits of `dequeueBatch` are steps of their own: the ring is found empty
(`Ask`), the rows are read and the second half of them goes into the ring
(`Select`), the commit hands out the first half (`Commit`). In between another loop
may take what `Select` left in the ring.

The run `queue` has one job, two calls of `process()`, one `stop()` and one
crash (156,785 states): a job is handed out once, or again for one of five causes
(`Once`), a loop leaves nothing unreported when it ends (`ReportedBeforeExit`),
and every job's handler ends while a loop runs (`Handled`). Two loops and one job
are what makes them compete for it. Two jobs and two loops reach states that one job
does not (a job read by one loop for the ring, taken from there and ended by the
other before the first commits); `Once` and `ReportedBeforeExit` are proved for any
number of both. *Fairness:* loops and handlers go on, `enqueue()` finishes, the pool
flushes, the maintenance timer fires; the flush timer alone is not fair, and nobody
has to call `process()` again.

## Orchestration runtime

`Runtime` has `OrchestrationRuntime` with its executor, rollback coordinator,
scheduler, governor, budgets and state graph. Callers of different sessions
interleave between two directives of an execution and inside a verification. A
file's content is the set of executions whose edits it holds.

| Variable | In the code |
| --- | --- |
| `life`, `mode` | `lifecycleState`, `runtimeMode` |
| `status`, `born`, `node`, `marks` | a session, and its node and blocking nodes in the graph |
| `planned`, `latest`, `last` | plans; the execution a plan's rollback strategy names; the session's last execution |
| `touched`, `failures`, `rollbacks` | `ExecutionBudgetManager` |
| `queue`, `processing`, `active` | `SessionQueue`, `RuntimeScheduler`, `ConcurrencyGovernor` |
| `call` | the pending `execute()` or `verify()` of a session; "orphan" after a `stop()` |
| `shots`, `edited`, `content` | snapshots, what an execution changed, the disk |
| `dirty`, `saved` | `pendingFlushSessions`, the newest snapshot |

The run `runtime` has two sessions with a plan each and a third plan of both
files, one policy, three executions and two other calls (2,240,412 states); at times
one of the files cannot be written when it is to be restored. Three executions
are one, another session's between, and a repetition; two calls make a
verification and a stop, or two verifications. The executions of the running runtime
are serial (`SerialMutations`: those that `stop()` overtook go on, and a
verification's rollback may restore files meanwhile), a failed execution leaves no
edit (`NoHalfEdits`), a session that says 'rolled_back' has none of its edits on disk
(`RolledBackIsGone`), both but in files that could not be restored (`unrestored`):
`restore()` counts a failing write as an error and goes on, and `performRollback()`
says 'rolled_back' as soon as one file was restored; if none was, the session gets the
status of a failed rollback. One that says 'completed' has all of them (`CompletedStays`), unless sessions
overlapped in a file (`overlapped`) or the session itself rolled an earlier
execution back over later edits of its own (`wiped`). There are two ways to
overlap: executions of two sessions with a file in common, and a rollback of
somebody else's execution. `dispatch()` runs the first job of the queue for
whoever calls it, and the plan of that job then names the execution; a session
over its budget rolls back what its plan names (`OrchestrationRuntime.ts:732-740`),
which another session's caller dispatched and may still be running. The run is
too small for the second, which TLC finds with five executions and without which
`RolledBackIsGone` and `CompletedStays` do not hold for all constants.

## Tool loop

`ToolLoop` is `QueryLoop.run` with `StreamingToolExecutor`: rounds of batches;
calls of reading tools run in a window in parallel, any other call alone, and
the file it changed is mirrored into Spider's graph. A call that exceeds its
timeout is answered with an error while its tool goes on (`late`). All calls are
about one file, whose content is named by the call that wrote it; `mirror` is
what the graph shows.

The run `tools` has two rounds of up to three calls, windows of two reads
(385,607 states): reads see what their place in the answer says (`ReadsInOrder`),
the graph shows the file (`MirrorFresh`), the loop ends although tools may hang
(`LoopEnds`). Three calls are a full window and one more; two rounds let a late
tool of the first change what the second reads. *Fairness:* the loop, and every
continuation and timer of a call; tools are not fair.

## Spider

`Spider` is the structural graph and what keeps it up to date. A file's text is
known by what it imports and exports. `nodes` holds text, resolved links and
dependents as the code keeps them, and in `before` the order in which the Map lists
its nodes, on which it depends what a recount of all dependents leaves; `registry` the
symbols; `inverse`, `cached`, `seen` the caches; `boot` the steps of each
`bootstrapGraph()`, which alone awaits; `saved` the cached graph in the database.
`report` and `ghosts` compare what the last operation found with what was due from the
disk.

The run `spider` has three files, two of which an import may mean and one of
which is there at first, an edit, two changes and a restart (122,936 states): the
report of a change is exact (`ReportExact`), the importers of a file are in its neighborhood
(`NeighborsKnown`), an audit finds the dangling imports and no others
(`GhostsExact`), each with its exceptions. Two candidates for one specifier are
needed for an import that changes its meaning. All three hold for any files,
specifiers and bootstraps ([proofs](#proofs)). What a larger workspace adds, four
files that import each other by two specifiers, with two bootstraps, four edits and
five changes, was probed with random behaviours (2.6 million states). The run
passes as well when all three files can be there at first.

## Agent context

`AgentContext` is the lifecycle (`life`, `active`, `comp`, `starts`, `stops`),
the memory (`row`, `buf`, `blob`, `found`, `writer`), the garbage collection (`gc`) and the
scratchpad (`ptr`, `lock`) of processes that share a directory. `harm`, `stands`,
`disturbed`, `overlap` and `halfUp` are history. `Budgets` is a set of bounds, one
of which a behaviour has: the lifecycle with starts, stops, a failure and a
crash; three writes of a scratchpad file, a `clear()` and a crash; two additions
with a collection and an expiry and a read, or a deletion and a crash; and the
blob of a scratchpad pointer with a collection and a stop (850,928 states
together, two processes, two texts, two nodes one of which expires, one file).
Behaviours that spend across budgets are not explored.

A context is up or down as a whole (`UpOrDown`), rows that are seen have their
content (`RowsHydrate`), and the scratchpad shows the last write (`LastWriteStands`).
A reader that found a blob torn (`found`) moves away what has that name an await
later: a blob that was made whole meanwhile goes with it.

## Coherence tokens

`Coherence` is `native_mutation.py`: agents on different tasks patch files of one
workspace. A token anchors the hashes of files; a patch presents the token and a
revision and is refused if they are out of date. The whole state is one JSON
file, read and rewritten by every operation.

| Variable | In the code |
| --- | --- |
| `file` | the workspace's files; a content is the set of edits in it, which stands for its hash too |
| `state` | `mutation-state.json`: revisions, `trackedFileHashes`, tokens. A truncated file reads as the default state |
| `op` | what each process is doing: an operation is a read with its computation, a truncation and a write; a patch is check, read, truncation, write, record |
| `held` | the agent's token and the revision it was told last, and as history whether a patch was recorded since the revision, a verify since the token, and whether a refusal or a status told the revision |
| `seen`, `recorded` | history: each file as the task observed it last, and as patches recorded it |
| `edits`, `faults` | counts of edits, and of crashes, lost answers and expiries, bounded |

`write_text` truncates and then writes: a process may be killed in between
(`Crash`), and the process that takes its place holds no token. Others edit,
create and delete files (`Outside`). Expiry is a flag that may be set at any
time. The answer of a patch may be lost (`AnswerLost`): the agent keeps its token and
revision and may repeat the request. Every refusal and a status without a task name
the current revision (`Refused`, `Status`), and the agent may present it with the
token it has; a revision that nobody told it is not modelled.

The run `coherence` has two tasks, one file, three edits (the first of which made it),
one passing verify, one crash, lost answer or expiry and no overlap (1,520,739 states; a
client without a task makes it 4.3 million, which takes too long for every run: it was
checked with the same result, and the theorems cover such clients): a patch that would be let through is based on files as
its task saw them (`AnchorsFresh`), on no revision a patch has overtaken and no
verify (`NothingSince`), also after the state file was lost in a crash and when a
request is repeated whose answer was lost.

*What the code does not give.* A record anchors its file for every token (:743), so a
task that takes the revision from a refusal or a status can patch with its old token
a file that another task has patched since, without having seen that. `AnchorsFresh`
excepts exactly this (`shown`, and the file is as some patch recorded it): a change by
other means is still refused. *An issue* counts as an observation though the agent is
given hashes only and :741 may have moved the hash that would have told it of a
change.

*One file is enough:* validation and the anchors treat each file by itself, and
the revision is global; two files add only pairs of independent anchors. *No
overlap* is what the run assumes, because nothing holds when operations
overlap: the state file itself is then lost between read and write. *A refresh*
counts as an observation by every task, since `refresh_anchor` re-anchors every
token by design; the reader should know that it hides changes from the others.
A deleted file is no change (`if anchor_hash and current_hash`), and
`AnchorsFresh` says the same. It also excepts files that were *empty* when the
token was issued: a file that is emptied, or made anew, has the hash of every
other empty file, so that an old anchor fits again, but an empty file has nothing
a patch could overwrite. (TLC finds the case with three faults and four edits, the
run has fewer; the theorem needs the exception.)

## Kanban gates

`KanbanGates` is what stands before `kanban_complete`: the convergence of the
task's scope, the steering state of ROADMAP.md and the quality audit, and what
feeds them. A worker is a process with one task.

| Variable | In the code |
| --- | --- |
| `conv`, `latest`, `aliases` | `convergence_records`, the state of the last mutation row of each scope, `scope_aliases` |
| `seen` | the keys of patches the two journaling hooks remember for 300 s |
| `valid`, `state`, `op`, `touched`, `snap` | ROADMAP.md's schema, `roadmap-state.json` (clear, pending or torn), the roadmap operation of each worker, its session's watch, its snapshot |
| `spider`, `audit` | whether the Spider gate blocks; violations and gate of each audit |
| `code`, `unverified`, `missed`, `forced`, `unvalidated`, `overlooked` | history: what the gates are about |
| `done`, `left` | completed tasks; the budget |

The run `gates` has two workers whose scopes one environment links; the first
changes code (76,849 states). Its budgets are a patch with two calls nobody
recommended, two patches with a call and a crash, and a write of ROADMAP.md with a
crash or a write of the state file that fails; larger ones (2.6 million states) were checked for the two safety
properties. A task is completed only with verified code (`VerifiedBeforeDone`) and
a validated ROADMAP.md (`ValidatedBeforeDone`), each with its exceptions, and an
agent that follows the recommended calls gets there (`GetsDone`). *Fairness:* the
coder makes the recommended calls (`mutation_begin`, `mutation_verify`,
`request_review`: the kernel's own verify changes no scope), reads or rewrites ROADMAP.md when steered,
retries the completion; the 300-second and one-second windows pass; a worker in
the middle of an operation goes on; the Spider gate is repaired. The code cannot
force an agent to do so; it does tell it what to call.

A mutation row of a linked scope may be used by a worker (`owner`), but no worker
begins one under a scope that is not its own, since that takes an explicit
`scope_id`; a verification under such a row would vouch for the other scope too.

## Proofs

TLC checks the instances above; the following holds for all values of the
constants that satisfy the named assumptions of the modules. Each is a theorem
`Spec => []P` (`Spec => P` where P is temporal), and `tlapm` checks every leaf.

| Module | Theorem | States |
| --- | --- | --- |
| `DbPoolProofs` | `TypeCorrect` | `TypeOK` |
| | `FlushExclusive` | `AtMostOneFlush` |
| | `TxnAtomicity` | `TxnAtomic` |
| | `NothingLost`, `NothingTwice` | `NoSilentLoss`, `ExactlyOnce` |
| | `BatchInFlight` | the in-flight Map is the batch being written (not a property of a run) |
| | `ReadsSeeWrites` | `ReadYourWrites` |
| | `StopKeepsAll` | `StopDrains` |
| | `PoolIsWriteBehind` | `ImplementsWriteBehind`, the refinement |
| `ExecutionProofs` | `SlotsCounted` | types, and the counter equals the frames with a slot |
| | `KeysExclusive`, `CommitsOnce` | `KeyExclusive`, `OnceOnly` |
| | `HandedOnce`, `NothingUnreported` | `Once`, `ReportedBeforeExit` of the job queue |
| `RepositoryProofs` | `RefsAlwaysResolve`, `CacheIsTrue`, `StashIsKept` | `RefsResolve`, `CacheTruth`, `StashKept` |
| | `NothingIsLost` | `NoLostChange` |
| `RuntimeProofs` | `ExecutionsSerial`, `FailuresLeaveNothing` | `SerialMutations`, `NoHalfEdits` |
| | `RollbacksStay`, `RepairsStay` | `RolledBackIsGone`, `CompletedStays` |
| `ToolsGraphProofs` | `ReadsSeeOrder`, `MirrorShowsFile` | `ReadsInOrder`, `MirrorFresh` |
| | `ReportsExact`, `NeighborsAlwaysKnown`, `GhostsAlwaysExact` | `ReportExact`, `NeighborsKnown`, `GhostsExact` of the structural graph |
| `AgentContextProofs` | `ContextUpOrDown`, `RowsKeepContent`, `ScratchpadStands` | `UpOrDown`, `RowsHydrate`, `LastWriteStands` |
| `CoherenceProofs` | `AnchorsStayFresh`, `NothingOvertakes` | `AnchorsFresh`, `NothingSince` |
| `GatesBatchProofs` | `DoneIsVerified`, `DoneIsValidated` | `VerifiedBeforeDone`, `ValidatedBeforeDone` (steps) |
| | `FlushesKeepOrder`, `ReadsById` | `FlushKeepsOrder`, `ReadById` of the contents of a batch |

### Assumptions

Modules assume of their constants what the code makes so: task names differ and
transactions have operations of their own (`DbPoolAssumption`), an insert names one
row and all its values, and a condition `id = k` one row (`TableBatchAssumption`),
calls are finitely
many and there is a slot (`ExecutorAssumption`), jobs
are finitely many and batches not empty (`JobQueueAssumption`), a plan has finitely many files
(`RuntimeAssumption`), a batch is not empty and fits the bound
(`ToolLoopAssumption`), the protected branch is not ephemeral
(`RepositoryAssumption`), the texts, nodes and files are not `None`
(`ContextAssumption`), files and specifiers are finitely many, a text is no missing
file and has each specifier on a line of its own (`SpiderAssumption`), and bounds are
numbers. TLC evaluates all of them.

Some theorems assume more. `PoolIsWriteBehind` assumes a budget without BUSY and
mutex timeouts: with them the pool is no write-behind buffer. (The invariants of the
pool carry this in their own premise, `Undisturbed`, instead.) The theorems of
`CoherenceProofs` assume `Overlap = FALSE`, since overlapping operations lose the
state file, and `MaxEdits > 0` and a path, without which there is no file to patch.
`FlushesKeepOrder` and `ReadsById` assume `Orderly`: the clients push operations that
share a row in the order of their types, which `flush()` sorts by (see
[above](#the-contents-of-a-batch)).

### The arguments

No property above is inductive. Each module states what it needs as named
predicates and proves for every action which of them it disturbs.

**Pool.** *Mutexes:* nobody waits twice (`Sound`), and the queue is served in order
(`Before`). *At most one flush:* a holder of the flush mutex is the one flush past
it; the premise is that no BUSY occurred, since a retry releases the mutex twice
(`ExclusionInv`). *Transactions:* what a commit handed over is in one place of each
kind and has not been handed over before (`TxnInv`); it speaks of `committed[a]` and
not of all operations of the transaction, because a shadow may expire between two
pushes. *Nothing lost or twice:* while a flush is past its swap, the in-flight Map
is what it writes, from the swap to the clearing (`WriteInv`: `Flight`, `Kept`,
`Once`). *Reads:* each write that a read must show is in a buffer or on disk when the
query runs, and what has left the buffers since then was in the query's snapshot
(`ReadInv`, with exclusion under the state mutex, `StateInv`, which needs no
premise). *Stop:* the commits that were accepted before `stop()` stand before it in
the FIFO queue, so that its last flush takes them (`StopInv`: `CommitsAhead`,
`NothingLeft`). *Refinement:* with all of these each action is a step of
`WriteBehind` or none, as in the table [above](#what-the-pool-promises).

**Contents of a batch.** What a sequence of operations does to one row is the row's
trail: the row after each operation, which determines the next (`Trail`, `TrailIs`).
A run of a batch is a trail per row (`ExecutedRows`), and so is what a read overlays,
but for inserts over a row and increments of a missing one (`OverlaidIs`). *Sort:* a
rearrangement that keeps the order of the operations on a row does the same to it
(`AfterRearranged`), and sorting orderly operations is one (`SortedRearranges`).
*Merge:* after each reference of the batch, what `groupOps` has kept does what the
references so far did, and so does the batch with its merged objects unless an
increment was merged (`Grouping`, `GroupStep`): between the first update by id and the
one merged into it, a row meets only updates by id of itself. *Invariant*
(`BatchInvariant`): the buffers hold the last operations in their order
(`BuffersInOrder`); merging left the shape of the objects alone (`ObjectsKept`); the
operations of a buffer are orderly and inserts meet no row (`OrderKept`); and the
disk is behind by what is in flight until the batch runs, what is grouped does the
same, and once written it is up to date and what may be repeated changes nothing
(`DiskKept`: `Waiting`, `Taken`, `Grouped`, `Written`). All but the first hold until a
retry counts an increment twice (`RetriedIncrement`) or a batch is swapped away
(`overrun`), which both stay. The definitions
fold over sequences, and the library's inductions take operators, which these provers
cannot instantiate; so the induction here is for membership of a set (`Induction`),
and a fold is its values in a row (`FoldSteps`).

**Executor.** The slot counter is the number of frames that hold one (`SlotInv`); the
head of a key's chain is the only operation inside (`OpInv`); a frame that may start
its operation has none under way and none that ended well, so that a retry never
repeats a commit that took effect (`LinkInv`); and what has landed of a nested call is
what its last attempt has made, what landed before, and one commit of which the outer
operation has not heard yet (`CountInv`).

**Job queue.** A job that was handed out once and that no cause has befallen is nowhere
else (`OutOnce`): not in the ring, not among those a loop will hand out when it
commits, its row is not pending, and if the row says processing some loop has the
handler or its result (`Busy`), so that putting it back is counted as late. A clean
job that still waits does so in one place (`WaitsOnce`). A job whose enqueueing is not
over has no row, or is nowhere else (`NewInv`). A loop in `"idle"` has no batch and
nothing to report, since it only gets there from `Cleanup` (`LoopOK`).

**Repository.** *Refs resolve:* the ancestors of every node a ref names are rows
(`Whole`). A head lands with the node pushed before it into the same shadow, so for
every commit under way one has to know which ancestors of its node are rows, wait in
its author's shadow or are still to be pushed (`InFlight`); what waits there belongs
to a commit that is at it (`ShadowTypes`), so that a rollback takes down only nodes
whose owners are excused. A file operation makes its node before it knows the parent,
and nobody else may name that node until then (`Secret`). A collection that nothing
overlapped with has marked what the refs lead to now (`Marked`). *Cached heads:* the
cache is set before the head lands, and until then the operation that makes it true
is in the shadow (`Warmed`); the mutex (`Mutex`) leaves one such commit per branch,
or two that are counted as overlapping. *Stash:* what drops an entry is a pop that
landed, or was taken down with another commit (`Popping`). The heads that a reset,
merge, rebase or squash will put into the reflog are rows or excused from the moment
they are read (`Remembers`). *No change lost:*
the head of a branch that no cause befell has everything acknowledged on it in its
history, and its tree shows the files of all its ancestors (`Tip`); the cached head,
from which the next commit starts, has at least that history. The node a writer
made has to extend the head as it is now, not as it was when the writer read it
(`Carried`): for a commit the mutex sees to that; for a file operation, or a merge
that waits, unless a commit that is still at it has put its node on the branch
meanwhile (`Intruded`), which is counted as an overlap when that one ends. Trees are
shared by reference, so a cached tree may show more than its node does but never less
(`Cells`), and the tree a call works with is that of its node (`Treed`).

**Runtime.** Serial execution rests on `processing` (`Serial`), and execution numbers
are fresh (`Numbered`). For the files, `ShotsSound` says that snapshots hold
edits of earlier executions that ended, and that an execution with snapshots has
one of every file its edits are in, so that what can be restored is rid of its edits
(`Unrestored`: the others). `Apart`,
`Gone` and `Kept` say when another session's snapshot can neither bring back what
was rolled back nor drop what was completed.

**Tool loop.** `Batching` says where the calls of a round are: those whose results
are taken are done, those in the window are reads in order, the others have not
started, except the one at `next` when the window is empty. So a call that
changes the file is alone but for late tools (lemma `Order`). Then the last writer
is a late tool, answered with an error, or the last successful change (`Changed`),
from which follows what a read saw (`Seen`) and the graph shows (`Mirrored`).

**Spider.** Each operator on the graph has a lemma that says what it leaves of text,
links and dependents (`UpdatedIs`, `RemovedIs`, `AuditedIs`, `CoupledIs` and others);
they rest on the resolver: it answers with at most one file, and what a larger graph
resolves to a file of a smaller one, the smaller one does too (`ResolveLess`).
*Neighbors:* each edge is a dependent or loose (`EdgesCoupled`). An edge that an
operation makes is that of an import the file has now and had not, which is coupled, or
of one it had, which now means another file, and that is loose. *Report:* while no
cause struck, the registry has what the nodes export (`RegistryRight`), and the inverse
graph has every edge while it counts as current (`InverseRight`), so that the search
reaches every importer. *Ghosts:* a cache entry that was sure when it was made shows
what dangles for *some* texts of the files it met then (`SeenRight`). When it is found
again with the same imports met, their hashes are the same, in the same order, so they
are the same texts (`PlaceInjective`: the place of an import among the others is a
number of elements of a finite set, and different imports have different ones), and
what dangles now is what it shows (`SureLook`).

**Agent context.** `Control`: without overlapping calls one start or stop is under way,
the components before its place are on and the others off, and at rest all are. `Rows`:
a row, a buffered row, a torn blob and a writer past its opening each have their
content or somebody to blame, and a collection spares what it should have read.
`Pads`: one writer is past the lock of a file, and the file shows the last
write until that writer truncates it.

**Coherence.** `AnchorsFresh` is about tokens that are valid now, and a crash or a
record of another task may make another one valid later. So the invariant says of
every token of the state file what it is worth (`StateFits`), and the same of the
state an operation is about to write, with what its task will hold then
(`PendingFits`): for a task that was shown the revision, a file may also be as a patch
recorded it. A token whose anchor is out of date stays so, because contents
are sets of numbered edits and are never written again (`Past`, `Numbered`).

**Gates.** Both theorems are about one step and follow from how its state came about.
Code that is not verified, as its scope knows, is in a scope whose last mutation is
not verified, so that no review can be requested there (`Begun`, `Recorded`); a
ROADMAP.md that nobody validated is marked pending or about to be, unless the mark was
overlooked (`Marked`).

Before each proof, TLC checked the inductive invariant on the instance of the run. Some
statements changed on the way because they did not hold in general although they held
in the runs: empty files in `Coherence`, the rollback of another session's execution in
`Runtime`, the budgets of `AgentContext`. Two missing causes were found by proof attempts
of properties that TLC had passed:

- `NoLostChange`: a commit that fails at its landing, after another commit of its
  author has landed its head for it, and that a writer without the branch's mutex
  overlapped, loses a change without a torn shadow. It counts as overlapping now.
- `Once`: with two jobs and two loops, one loop reads both jobs and puts the second in
  the ring, another loop takes that one and ends it, and the first then commits
  "processing" over "ended". The row is reclaimed as stale and the job runs again. It is
  counted under "loops" now; TLC shows the case with two jobs at depth 21.

Of `TableBatch` the proof changed the wording only: the sort is a permutation in the
order of its comparison, and no longer a concatenation of filters.

The proofs of `Spider` showed three things its run was too small for, each of which
changed the model:

- `NeighborsKnown`: `computeCouplingMetrics` empties the dependents of a node in the loop
  that fills them, so that importers listed before the file they import are forgotten.
  The model counted them all; it has the order of the Map now, and they are loose.
- `NeighborsKnown`: what an audit of several files left uncoupled was taken for loose
  wherever a file was new. It is only where the new file was indexed after its importer
  or was meant by the importer's text before (`Overtaken`).
- `GhostsExact`: the signature of a cache entry skips imports that resolve to nothing, so
  two entries with different imports resolved can agree. They are excepted now (`met`).

### Only model-checked

- *Liveness* (`EventuallyFlushed`, `StopEnds`, `CallsSettle`, `Handled`, `LoopEnds`,
  `GetsDone`): the proof system has no rule for fairness and ENABLED.
- `TypeOK` of the modules other than the pool and the executor is a conjunct of
  one of their properties and proved with it.

## Where code and documentation disagree

Each of these was met while modelling. Where a property is named, it is defined
in the module and refuted by TLC with the stated configuration; the properties
that the runs check carry the corresponding exception.

**Pool.**
- `ReadOnce`: a read between the commit of a batch and the clearing of the
  in-flight buffer counts inserts and increments twice (:1055), against the class comment
  ("data consistency between in-memory buffers and on-disk storage").
  `MCDbPool.cfg` with `SyncDriver = TRUE`, `Budget <- NoEvents`.
- `NoLossAfterBusy`: writes that arrive during a BUSY delay make the retry swap
  the buffers; the failed batch is then cleared without a dead letter (:758).
  `StopNeverCrashes` (a PROPERTY): a commit that waits for a mutex when `stop()`
  begins sets a timer; its `flush()` is refused, nobody handles the rejection, and
  the process ends before the final flush (:346). Both: `MCDbPool.cfg` with
  `Readers = {}`, `SyncDriver = TRUE`, `Budget <- OneBusy`.
- `FlushKeepsOrder` in any order: a delete and a later insert of the same key in
  one batch run in the wrong order. Annexing an expired swarm lock does this.
  `MCTableBatch.cfg` with `Orderly = FALSE`. `ReadCounters` (:1026): an overlaid
  upsert of an increment reads as an object. `Writes <- MCCounters`.
- Further, without a run: when the retries are used up only the awaiting caller
  learns of the loss (:763); a shadow that expires between two pushes is
  recreated, so that `commitWork()` lands the second half and reports success
  (:382); a read by status misses rows whose buffered update carries another
  status (:927).

**Runtime.** A rollback that restored one file and failed on the others is reported as
'rolled_back' (`OrchestrationRuntime.ts:760`): the edits in the others stay.
`PassedIsKept` (a PROPERTY, `MCRuntime.cfg`): `recordVerification`
adds the resolved findings as nodes (`RuntimeStateGraph.ts:265`), the operator
counts them as open blockers, and `verify` rolls back a repair that passed
(`OrchestrationRuntime.ts:562-590`).

**Queue.** `DequeuedOnce` (`MCJobQueue.cfg` with `MaxStops = 0`): the batch read
"atomically using a transaction" sees jobs as pending that were taken
(`SqliteQueue.ts:186`, :237), because the overlay ignores buffered updates to
another status.

**Repository.** `BranchesIsolated` (`MCRepository.cfg` with `Kinds = {"file"}`): a
tree is meant to be "an immutable snapshot of the tree at each commit"
(`file-tree.ts:23`), but `writeHierarchy` (:156) edits entries that the caches of
other branches share (`repository.ts:839`). Around it, without a run: `recoverFile`
does not find files of a cold process; `revert` changes no file and `squash`
empties the tree; two sides that add one directory cannot be merged; writing `d/x`
removes a file `d` and vice versa; `listDirectory` fails on hierarchical trees;
file operations write no reflog entry, so `timeTravel` skips them; `push` and
`createPatch` carry no trees; `fork` inserts node ids twice; `tag()` writes columns
that the table does not have.

**Tool loop.** A loop that completes on its last turn is reported as failed
(`QueryLoop.ts:156`).

**Retries of nested operations.** `merge()`, `rebase()` and `stashPop()` run in
`execute()`, and so do the commits they make. A busy error in what follows a commit (a
next commit, the reflog) makes `execute()` run the whole operation again: the commits of
the first attempt stay, and the second makes them anew. `OnceOnly` says what is left.

**Stash and reflog.** A pop whose shadow another commit's rollback has emptied reports
success and deletes the entry (`repository.ts:1527`), with the data nowhere. A reset,
merge, rebase or squash may name a head in the reflog whose node never landed; a later
`gc()` that does not find it in the cache fails (`NODE_NOT_FOUND`, :325).

**Executor.** A frame that is woken takes its slot without looking at the
counter again, so more than `MAX_CONCURRENCY` frames may run for a moment.

**Agent context.** The garbage collection treats buffered rows without `expiresAt`
as expired (`Number(null) < now`, `CleanupService.ts:153`): its deletion hides all
rows without expiry of that user until it is flushed, and a collection that reads
then finds no row and deletes every blob. It also deletes the blobs of scratchpad
pointers and snapshots, which no row names. `stop()` during `start()` leaves
'started' behind; a start that failed cannot be retried, since a stopped component
does not start again; `workspace.init()` failing leaves the components running.
A torn blob counts as present until a reader moves it away, and a lock file that a
crash left is never removed.

**Spider.** After a restart from the cache the symbol registry is empty, and every
imported symbol is reported missing; a removed file's breakages are not reported;
a full audit re-indexes before it compares with the disk, so that 'drifted' never
shows; changes applied during a bootstrap are lost; paths are compared in lower
case, so that pruning drops files with capitals on a case-sensitive disk.
`computeCouplingMetrics` (`MetricsEngine.ts:236`) empties `dependents` inside the loop
that fills them, so that after a build, a pruning or a load from the cache an importer
listed before its import is missing from what `getNeighborhood` "Returns a set of Node
IDs within a specific N-depth radius of the target file." (`SpiderEngine.ts:1461`)
The signature of a file's ghosts joins the hashes of the imports that resolve
(`ForensicEngine.ts:176`) without saying which imports they are.

**Coherence.** `PatchKept` (`MCCoherence.cfg` with `Overlap = TRUE`,
`Exposed = {}`, `MaxVerify = 0`): patches validated together overwrite each other,
each with `"atomic": True` in its receipt. A refusal and a status show the current
revision (`native_mutation.py:450`, :504, :284) while the token of the refused task was
re-anchored by the other task's edit (:743), so that a patch repeated with the old token
and the shown revision passes and the client has never seen what it edits on top of.

**Governance.** A second native patch in a row is no valid transition, so both
journaling attempts raise and the result carries a warning, while
`docs/tools-reference.md:67` says that results are journaled; the transform hooks
stop at the first non-empty result, so that the layer scan is skipped then;
no verification by the kernel is ever journaled, although
`docs/tools-reference.md:66-67` says "Successful patch/verify results are journaled into
JoyZoning automatically via hooks", since `mutation_verify_journal.py:56` wants
`parsed["action"] == "verify"` and the result (`native_mutation.py:691-701`) has no such
key, so that a failing one leaves a scope that is ready completable;
`mark_converged` forces CONVERGED from any state; a snapshot of the same second
keeps the gate open after another process marked ROADMAP.md pending; a torn state
file reads as nothing pending; a change back to
a content journaled within 300 s is not journaled again; a mutation recorded under an alias leaves the own scope verified; `convergence_status`
calls a function that does not exist.

## What is not modelled

- `DbPool`: reads of a warmed table and of a status index, reads by an agent of its
  own shadow, `setDbPath`, layers, metrics, the 1000-entry cap of the dead letters.
  `TableBatch`: conditions other than on the id, chunks of bulk inserts, raw SQL.
- `Executor`: jitter, the grace period of idle map entries.
- `Repository`: file contents, patches, time travel, `recoverFile`, reads, tags,
  claims, conflicts of a merge, evictions of the caches, several instances.
- `JobQueue`: delays, priorities, attempts, direct users of `dequeueBatch`,
  `complete` and `fail`, other shards (whose failure update lacks the shard, :571).
- `Runtime`: replay, previews, derived views, a verification that `stop()` drops
  while it is under way, a write that fails after a part of the file is
  written (`Unwritable` files stay as they are), several kinds of policy in one run.
- `ToolLoop`: parsing, validation, compaction, redaction, audit rows, several files,
  two agents that mirror into one graph; gates that refuse (by default they warn).
- `Spider`: metrics, layers, cycles, re-exports, the session buffer, the stability
  lock, evictions, the formats of reports; a tree is read in one step. Imports of
  `.js`, `.jsx` and `index.js` files, which only `getDiskPath` finds (`PathResolver.ts:146`).
- `AgentContext`: edges, tags, merges, caches and scores of the knowledge graph
  (deleting knowledge leaves edges, whose constraint fails the whole batch), the
  migration of old paste files, more than one collection per process at a time.
- `Coherence`: git heads, `contextRefreshId`, search, the two history files. A read by
  the `read_file` tool and its hook are one step. In overlapping operations the
  revision a patch returns is read a moment before the record; the model returns
  the recorded one. A task presents the last revision that an answer told it, not any
  number it might guess.
- `KanbanGates`: staleness by date, bootstrap placeholders, configuration variants,
  JSDP, runtime events, the scan for layer violations, the bridge to the board; that
  `read_state` keeps what it read under the file's mtime (`workspace_state.py:34-50`),
  and the exceptions of `_eval_roadmap`, which let a completion through
  (`kanban_complete.py:85-86`).
- `MutexService`: its lock is a read of the buffer and a later insert (:65), so two
  agents whose calls overlap both get it, and two processes between two flushes;
  `releaseLock` deletes whoever's row is there. No premise that its callers meet
  makes mutual exclusion hold, and a model would only say so. The coordinator writes
  columns that `tasks` does not have, and `TaskService.appendMemoryLayer` is a
  read-modify-write across awaits. `Locker` is taken by a benchmark only; its
  heartbeat finds its entry by resource alone, so that a late one of an earlier
  holder stops the heartbeat of the new one.
- Front ends, schema and migrations, dashboards, the RPC bridge: no protocol.

## Plan

- *Models.* The services of a swarm (mailbox, tasks, coordinator, claims on
  branches) and the knowledge graph over the pool; reads of time travel and
  recovery in `Repository`; an agent whose scope is the shared one in `KanbanGates`.
